--------------------------- MODULE FrontendProofs ---------------------------
(***************************************************************************)
(* What Frontend makes of any text and of any builder calls is a program   *)
(* whose operands are the ones that were written, are computed above their *)
(* uses and can be encoded.  The second half is about the texts: those     *)
(* that the parser accepts are those that the language has.                *)
(***************************************************************************)
EXTENDS Frontend, WellFoundedInduction, TLAPS

-----------------------------------------------------------------------------
(* The inductive invariant *)

\* A sequence, whatever its elements are.
IsSeq(s) == s \in Seq(ToSet(s))

IsParam(v) == v # <<>> /\ v[1] = "arg" /\ v[4] \in Types
IsSlot(v) == v # <<>> /\ v[1] = "slot"
IsResult(v) == v[1] = "ssa" /\ v[4] \in Types
IsOperand(o) == IsPlain(o) \/ IsParam(o) \/ IsResult(o) \/ o[1] = "slot"

IsStatement(st) ==
  /\ DOMAIN st = {"name", "op", "args", "type", "src"}
  /\ IsSeq(st.args)
  /\ \A i \in 1..Len(st.args) : IsOperand(st.args[i])
  /\ st.name = NoName <=> st.type = NoType
  /\ st.type \in Types \cup {NoType}

\* The first n statements are what they should be, whatever follows.
Fine(func, b, code, n) ==
  \A k \in 1..n : IsStatement(code[k]) /\ StatementMeant(func, b, code, k) /\ StatementComputed(b, code, k)

AllEncodable(code, n) == \A k \in 1..n : StatementEncodable(code[k])

AllParams(vs) == IsSeq(vs) /\ \A i \in 1..Len(vs) : IsParam(vs[i])
AllSlots(vs) == IsSeq(vs) /\ \A i \in 1..Len(vs) : IsSlot(vs[i])

GoodBlock(func, b) ==
  LET block == func.blocks[b] IN
  /\ DOMAIN block = {"name", "args", "code"}
  /\ AllParams(block.args)
  /\ IsSeq(block.code)
  /\ Fine(func, b, block.code, Len(block.code))

GoodFunction(func) ==
  /\ DOMAIN func = {"name", "args", "slots", "blocks"}
  /\ AllParams(func.args)
  /\ AllSlots(func.slots)
  /\ IsSeq(func.blocks) /\ Len(func.blocks) > 0
  /\ \A b \in 1..Len(func.blocks) : GoodBlock(func, b)

EncodableFunction(func) ==
  \A b \in 1..Len(func.blocks) : AllEncodable(func.blocks[b].code, Len(func.blocks[b].code))

Good(G) ==
  /\ DOMAIN G = {"funcs", "cur", "globals", "temps", "failed"}
  /\ IsSeq(G.funcs)
  /\ G.cur \in 0..Len(G.funcs)
  /\ \A f \in 1..Len(G.funcs) : GoodFunction(G.funcs[f])

EncodableProgram(G) == \A f \in 1..Len(G.funcs) : EncodableFunction(G.funcs[f])

IInv ==
  /\ pc \in {"open", "done", "crash"}
  /\ state \in {"root", "funcargs", "funcslots", "blockargs", "block"}
  /\ (front = "parser" /\ pc = "open") => (state = "root" <=> prog.cur = 0)
  /\ Good(prog)
  /\ pc # "crash" => EncodableProgram(prog)

-----------------------------------------------------------------------------
(* Numbers and sequences *)

\* A set of numbers that is not empty has a least one: what replaces induction below.
LEMMA LeastIs ==
  ASSUME NEW S, S \subseteq Nat, S # {}
  PROVE  \E x \in S : \A y \in S : x <= y
<1> DEFINE R == OpToRel(<, Nat)
<1>1. IsWellFoundedOn(R, Nat)
  BY NatLessThanWellFounded
<1>2. \E x \in S : \A y \in S : ~(<<y, x>> \in R)
  BY <1>1, WFMin
<1>3. \A x, y \in Nat : <<y, x>> \in R <=> y < x
  BY DEF OpToRel
<1> HIDE DEF R
<1>4. PICK x \in S : \A y \in S : ~(<<y, x>> \in R)
  BY <1>2
<1>5. ASSUME NEW y \in S PROVE x <= y
  <2>1. x \in Nat /\ y \in Nat
    OBVIOUS
  <2>2. ~(y < x)
    BY <1>3, <1>4, <2>1
  <2> QED BY <2>1, <2>2
<1> QED BY <1>4, <1>5

\* A sequence has a length and is defined on the numbers up to it.
LEMMA SeqIs ==
  ASSUME NEW s, IsSeq(s)
  PROVE  Len(s) \in Nat /\ DOMAIN s = 1..Len(s)
BY DEF IsSeq

\* A function on 1..n is a sequence.
LEMMA FunctionSeq ==
  ASSUME NEW n \in Nat, NEW s, s = [i \in 1..n |-> s[i]]
  PROVE  IsSeq(s) /\ Len(s) = n
<1>1. DOMAIN s = 1..n
  OBVIOUS
<1>2. \A i \in 1..n : s[i] \in ToSet(s)
  BY <1>1 DEF ToSet
<1>3. s \in [1..n -> ToSet(s)]
  BY <1>2
<1>4. s \in Seq(ToSet(s))
  BY <1>3
<1> QED BY <1>1, <1>4 DEF IsSeq

\* What two sequences one after the other hold.
LEMMA ConcatIs ==
  ASSUME NEW s, NEW t, IsSeq(s), IsSeq(t)
  PROVE  /\ IsSeq(s \o t) /\ Len(s \o t) = Len(s) + Len(t)
         /\ \A i \in 1..Len(s) : (s \o t)[i] = s[i]
         /\ \A i \in 1..Len(t) : (s \o t)[Len(s) + i] = t[i]
<1> DEFINE S == ToSet(s) \cup ToSet(t)
           c == s \o t
<1>1. s \in Seq(S) /\ t \in Seq(S)
  BY DEF IsSeq
<1> HIDE DEF S
<1>2. c \in Seq(S) /\ Len(c) = Len(s) + Len(t) /\ Len(s) \in Nat /\ Len(t) \in Nat
  BY <1>1
<1>3. /\ \A i \in 1..Len(s) : c[i] = s[i]
      /\ \A i \in 1..Len(t) : c[Len(s) + i] = t[i]
  BY <1>1
<1> HIDE DEF c
<1>4. c = [i \in 1..Len(c) |-> c[i]]
  BY <1>2
<1>5. IsSeq(c)
  BY <1>2, <1>4, FunctionSeq
<1> QED BY <1>2, <1>3, <1>5 DEF c

\* What a sequence with one more element holds.
LEMMA AppendIs ==
  ASSUME NEW s, NEW e, IsSeq(s)
  PROVE  /\ IsSeq(Append(s, e)) /\ Len(Append(s, e)) = Len(s) + 1
         /\ \A i \in 1..Len(s) : Append(s, e)[i] = s[i]
         /\ Append(s, e)[Len(s) + 1] = e
<1> DEFINE S == ToSet(s) \cup {e}
           c == Append(s, e)
<1>1. s \in Seq(S) /\ e \in S
  BY DEF IsSeq
<1> HIDE DEF S
<1>2. c \in Seq(S) /\ Len(c) = Len(s) + 1 /\ Len(s) \in Nat
  BY <1>1
<1>3. (\A i \in 1..Len(s) : c[i] = s[i]) /\ c[Len(s) + 1] = e
  BY <1>1
<1> HIDE DEF c
<1>4. c = [i \in 1..Len(c) |-> c[i]]
  BY <1>2
<1>5. IsSeq(c)
  BY <1>2, <1>4, FunctionSeq
<1> QED BY <1>2, <1>3, <1>5 DEF c

\* What a sequence without its last element holds.
LEMMA FrontIs ==
  ASSUME NEW s, IsSeq(s), Len(s) > 0
  PROVE  /\ IsSeq(Front(s)) /\ Len(Front(s)) = Len(s) - 1
         /\ \A i \in 1..(Len(s) - 1) : Front(s)[i] = s[i]
<1> DEFINE c == Front(s)
<1>1. Len(s) \in Nat /\ s \in Seq(ToSet(s))
  BY SeqIs DEF IsSeq
<1>2. c = [i \in 1..(Len(s) - 1) |-> s[i]]
  BY <1>1 DEF Front
<1>3. \A i \in 1..(Len(s) - 1) : c[i] = s[i]
  BY <1>2
<1> HIDE DEF c
<1>4. c = [i \in 1..(Len(s) - 1) |-> c[i]] /\ Len(s) - 1 \in Nat
  BY <1>1, <1>2, <1>3
<1>5. IsSeq(c) /\ Len(c) = Len(s) - 1
  BY <1>4, FunctionSeq
<1> QED BY <1>3, <1>5 DEF c

\* The first of some places is one of them.
LEMMA FirstIs ==
  ASSUME NEW S, S \subseteq Nat, S # {}
  PROVE  First(S) \in S
BY LeastIs DEF First

-----------------------------------------------------------------------------
(* Statements that stay *)

SamePrefix(code, c, n) == \A k \in 1..n : c[k] = code[k]

\* What holds of a statement depends on the statements up to it only.
LEMMA FineKept ==
  ASSUME NEW func, NEW b, NEW code, NEW c, NEW n \in Nat, SamePrefix(code, c, n), Fine(func, b, code, n)
  PROVE  Fine(func, b, c, n)
<1> SUFFICES ASSUME NEW k \in 1..n
             PROVE  IsStatement(c[k]) /\ StatementMeant(func, b, c, k) /\ StatementComputed(b, c, k)
  BY DEF Fine
<1>1. c[k] = code[k] /\ \A j \in 1..(k - 1) : c[j] = code[j]
  BY DEF SamePrefix
<1>2. IsStatement(code[k]) /\ StatementMeant(func, b, code, k) /\ StatementComputed(b, code, k)
  BY DEF Fine
<1>3. \A o : Written(b, c, k, o) = Written(b, code, k, o)
  BY <1>1 DEF Written
<1>4. \A name : Definitions(func, b, c, k, name) = Definitions(func, b, code, k, name)
  BY <1>1 DEF Definitions
<1>4a. \A tok : MeantBy(func, b, c, k, tok) = MeantBy(func, b, code, k, tok)
  BY <1>4 DEF MeantBy
<1>5. StatementMeant(func, b, c, k)
  BY <1>1, <1>2, <1>3, <1>4a DEF StatementMeant
<1>6. StatementComputed(b, c, k)
  BY <1>1, <1>2 DEF StatementComputed
<1> QED BY <1>1, <1>2, <1>5, <1>6

\* More parameters and slots do no harm.
Wider(func, other, b) ==
  /\ ToSet(ParamsSeen(func, b)) \subseteq ToSet(ParamsSeen(other, b))
  /\ ToSet(func.slots) \subseteq ToSet(other.slots)

\* More names in scope do not make a statement wrong.
LEMMA FineWider ==
  ASSUME NEW func, NEW other, NEW b, NEW code, NEW n \in Nat, Wider(func, other, b), Fine(func, b, code, n)
  PROVE  Fine(other, b, code, n)
<1> SUFFICES ASSUME NEW k \in 1..n
             PROVE  IsStatement(code[k]) /\ StatementMeant(other, b, code, k) /\ StatementComputed(b, code, k)
  BY DEF Fine
<1>1. IsStatement(code[k]) /\ StatementMeant(func, b, code, k) /\ StatementComputed(b, code, k)
  BY DEF Fine
<1>2. \A name : Definitions(func, b, code, k, name) \subseteq Definitions(other, b, code, k, name)
  BY DEF Definitions, Wider
<1>2a. \A tok : MeantBy(func, b, code, k, tok) \subseteq MeantBy(other, b, code, k, tok)
  BY <1>2 DEF MeantBy
<1>3. StatementMeant(other, b, code, k)
  BY <1>1, <1>2a DEF StatementMeant
<1> QED BY <1>1, <1>3

-----------------------------------------------------------------------------
(* Legalising *)

\* The operand moves out, and nothing else.
MovedOut(code, b, i, temp, c) ==
  LET n == Len(code)
      mov == Moved(code[n].args[i], temp)
  IN /\ IsSeq(c) /\ Len(c) = n + 1
     /\ SamePrefix(code, c, n - 1)
     /\ c[n] = mov
     /\ c[n + 1] = [code[n] EXCEPT !.args[i] = OutputOf(b, mov)]

\* MoveOut leaves what stands above and puts the mov and the changed statement below it.
LEMMA MoveOutIs ==
  ASSUME NEW code, NEW b, NEW i, NEW temp, IsSeq(code), Len(code) > 0
  PROVE  MovedOut(code, b, i, temp, MoveOut(code, b, i, temp))
<1> DEFINE n == Len(code)
           mov == Moved(code[n].args[i], temp)
           st == [code[n] EXCEPT !.args[i] = OutputOf(b, mov)]
           f == Front(code)
           two == <<mov, st>>
           c == f \o two
<1>1. MoveOut(code, b, i, temp) = c
  BY DEF MoveOut, Last
<1>2. n \in Nat /\ IsSeq(f) /\ Len(f) = n - 1 /\ \A k \in 1..(n - 1) : f[k] = code[k]
  BY SeqIs, FrontIs
<1> HIDE DEF f, mov, st
<1>3. Len(two) = 2 /\ two[1] = mov /\ two[2] = st
  OBVIOUS
<1>4. two = [j \in 1..2 |-> two[j]]
  OBVIOUS
<1>5. IsSeq(two)
  BY <1>4, FunctionSeq
<1> HIDE DEF two
<1>6. /\ IsSeq(c) /\ Len(c) = Len(f) + Len(two)
      /\ \A k \in 1..Len(f) : c[k] = f[k]
      /\ \A k \in 1..Len(two) : c[Len(f) + k] = two[k]
  <2>1. IsSeq(f) /\ IsSeq(two)
    BY <1>2, <1>5
  <2> HIDE DEF n
  <2> QED BY <2>1, ConcatIs
<1> HIDE DEF c, n
<1>7. Len(c) = n + 1 /\ \A k \in 1..(n - 1) : c[k] = code[k]
  BY <1>2, <1>3, <1>6
<1>8. c[(n - 1) + 1] = mov /\ c[(n - 1) + 2] = st
  BY <1>2, <1>3, <1>6
<1>9. c[n] = mov /\ c[n + 1] = st
  BY <1>2, <1>8
<1>10. SamePrefix(code, c, n - 1)
  BY <1>7 DEF SamePrefix
<1> QED BY <1>1, <1>6, <1>7, <1>9, <1>10 DEF MovedOut, n, mov, st

\* A statement that may be put behind code: its operands are those that were written.
Usable(func, b, code, st) ==
  /\ DOMAIN st = {"name", "op", "args", "type", "src"}
  /\ IsSeq(st.args) /\ Len(st.args) = Len(st.src)
  /\ \A i \in 1..Len(st.args) :
       /\ IsOperand(st.args[i])
       /\ st.args[i] \in MeantBy(func, b, code, Len(code) + 1, st.src[i])
       /\ st.args[i][1] = "ssa" => \E j \in 1..Len(code) : OutputOf(b, code[j]) = st.args[i]

\* What the last statement st of a block has in common with the statement it was, and what
\* the first n turns have done for it.
SameBut(st, st0) ==
  /\ st.name = st0.name /\ st.op = st0.op /\ st.type = st0.type /\ st.src = st0.src
  /\ Len(st.args) = Len(st0.args)
  /\ \A i \in 1..Len(st0.args) :
       /\ TypeOf(st.args[i]) = TypeOf(st0.args[i])
       /\ st.args[i][1] \in {"slot", "const"} => st.args[i] = st0.args[i]

DoneFor(st, n) ==
  \A i \in 1..Len(st.args) :
    /\ i <= n /\ st.op \notin {"load", "store", "mov"} => st.args[i][1] # "slot"
    /\ i + Len(st.args) <= n /\ i \in NoImmediate(st) => st.args[i][1] # "const"

\* A mov that was put in: make_temp_name made its name.
MadeUp(st) == \E n : st.name = TempName(n)
MadeUpFrom(c, lo, hi) == \A k \in lo..hi : MadeUp(c[k])

\* c is what n turns have made of the statement st0 behind the statements old.
Partly(func, b, old, st0, c, n) ==
  /\ IsSeq(c) /\ Len(c) > Len(old)
  /\ SamePrefix(old, c, Len(old))
  /\ Fine(func, b, c, Len(c))
  /\ AllEncodable(c, Len(c) - 1)
  /\ MadeUpFrom(c, Len(old) + 1, Len(c) - 1)
  /\ SameBut(c[Len(c)], st0)
  /\ DoneFor(c[Len(c)], n)

\* Which operands may be constants depends on the operation and on types only.
LEMMA RuleSame ==
  ASSUME NEW st, NEW st0, st.op = st0.op, st.type = st0.type, TypeOf(st.args[1]) = TypeOf(st0.args[1])
  PROVE  NoImmediate(st) = NoImmediate(st0)
BY DEF NoImmediate

\* At the start.
LEMMA PartlyBegins ==
  ASSUME NEW func, NEW b, NEW old, NEW st, IsSeq(old), Fine(func, b, old, Len(old)), AllEncodable(old, Len(old)),
         Usable(func, b, old, st), IsStatement(st)
  PROVE  Partly(func, b, old, st, Append(old, st), 0)
<1> DEFINE c == Append(old, st)
           l == Len(old) + 1
<1>1. IsSeq(c) /\ Len(c) = l /\ (\A i \in 1..Len(old) : c[i] = old[i]) /\ c[l] = st
  BY AppendIs
<1>2. Len(old) \in Nat /\ Len(st.args) \in Nat /\ DOMAIN st.args = 1..Len(st.args)
  BY SeqIs DEF IsStatement
<1> HIDE DEF c
<1>3. SamePrefix(old, c, Len(old))
  BY <1>1 DEF SamePrefix
<1>4. Fine(func, b, c, Len(old))
  BY <1>2, <1>3, FineKept
<1>5. StatementComputed(b, c, l)
  BY <1>1, <1>2 DEF StatementComputed, Usable
<1>6. \A tok : MeantBy(func, b, c, l, tok) = MeantBy(func, b, old, l, tok)
  <2>1. \A j \in 1..(l - 1) : c[j] = old[j]
    BY <1>1, <1>2
  <2>2. \A name : Definitions(func, b, c, l, name) = Definitions(func, b, old, l, name)
    BY <2>1 DEF Definitions
  <2> QED BY <2>2 DEF MeantBy
<1>7. \A o : o \in Written(b, c, l, o)
  BY DEF Written
<1>8. StatementMeant(func, b, c, l)
  BY <1>1, <1>2, <1>6, <1>7 DEF StatementMeant, Usable
<1>9. Fine(func, b, c, l)
  BY <1>1, <1>2, <1>4, <1>5, <1>8 DEF Fine
<1>10. AllEncodable(c, Len(c) - 1)
  BY <1>1, <1>2 DEF AllEncodable
<1>11. SameBut(st, st) /\ DoneFor(st, 0)
  BY <1>2 DEF SameBut, DoneFor
<1>12. MadeUpFrom(c, Len(old) + 1, Len(c) - 1)
  BY <1>1, <1>2 DEF MadeUpFrom
<1> QED BY <1>1, <1>2, <1>3, <1>9, <1>10, <1>11, <1>12 DEF Partly, c

\* What one move out of the last statement does.
LEMMA MoveOutFine ==
  ASSUME NEW func, NEW b, NEW old, NEW st0, NEW c, NEW n, Partly(func, b, old, st0, c, n), IsSeq(old),
         Usable(func, b, old, st0), NEW temp, NEW i \in 1..Len(st0.args),
         c[Len(c)].args[i][1] \in {"slot", "const"}
  PROVE  LET d == MoveOut(c, b, i, temp)
             l == Len(c)
             st == d[l + 1]
         IN /\ IsSeq(d) /\ Len(d) = l + 1 /\ SamePrefix(old, d, Len(old))
            /\ Fine(func, b, d, l + 1) /\ AllEncodable(d, l) /\ MadeUpFrom(d, Len(old) + 1, l)
            /\ SameBut(st, st0)
            /\ st.args[i][1] = "ssa" /\ \A j \in 1..Len(st0.args) : j # i => st.args[j] = c[l].args[j]
<1> DEFINE d == MoveOut(c, b, i, temp)
           l == Len(c)
           o == c[l].args[i]
           mov == Moved(o, temp)
           r == OutputOf(b, mov)
           st == d[l + 1]
<1>1. IsSeq(c) /\ l \in Nat /\ Len(old) \in Nat /\ l > Len(old)
  BY SeqIs DEF Partly
<1>2. IsSeq(d) /\ Len(d) = l + 1 /\ SamePrefix(c, d, l - 1) /\ d[l] = mov /\ st = [c[l] EXCEPT !.args[i] = r]
  <2>1. Len(c) > 0
    BY <1>1
  <2>2. MovedOut(c, b, i, temp, d)
    BY <1>1, <2>1, MoveOutIs
  <2> HIDE DEF d
  <2> QED BY <2>2 DEF MovedOut
<1>3. SameBut(c[l], st0) /\ IsStatement(c[l]) /\ Fine(func, b, c, l) /\ AllEncodable(c, l - 1)
  BY <1>1 DEF Partly, Fine
<1>4. o = st0.args[i] /\ IsOperand(o) /\ TypeOf(o) \in Types /\ o[1] \in {"slot", "const"}
  <2>1. o = st0.args[i] /\ IsOperand(o) /\ o[1] \in {"slot", "const"}
    BY <1>3 DEF SameBut, Usable
  <2> HIDE DEF o
  <2> QED BY <2>1 DEF IsOperand, IsPlain, IsParam, IsResult, TypeOf, Types
<1> HIDE DEF d, o, mov, r
<1>5. SamePrefix(old, d, Len(old))
  BY <1>1, <1>2 DEF Partly, SamePrefix
<1>6. Fine(func, b, d, l - 1) /\ AllEncodable(d, l - 1)
  <2>1. l - 1 \in Nat /\ Fine(func, b, c, l - 1)
    BY <1>1, <1>3 DEF Fine
  <2>2. AllEncodable(d, l - 1)
    BY <1>2, <1>3 DEF AllEncodable, SamePrefix
  <2> QED BY <2>1, <2>2, <1>2, FineKept
<1>7. /\ DOMAIN mov = {"name", "op", "args", "type", "src"} /\ mov.name = TempName(temp) /\ mov.op = "mov"
      /\ mov.args = <<o>> /\ mov.src = <<o>> /\ mov.type = TypeOf(o)
  BY DEF mov, Moved
<1>8. /\ IsSeq(mov.args) /\ Len(mov.args) = 1 /\ mov.args[1] = o /\ mov.src[1] = o /\ DOMAIN mov.args = 1..1
      /\ Len(mov.src) = 1
  <2>1. <<o>> = [j \in 1..1 |-> <<o>>[j]]
    OBVIOUS
  <2>2. IsSeq(<<o>>)
    BY <2>1, FunctionSeq
  <2> QED BY <2>2, <1>7
<1>9. IsStatement(mov)
  <2>1. mov.name # NoName /\ mov.type # NoType
    BY <1>7, <1>4 DEF NoName, NoType, TempName, Types
  <2> QED BY <2>1, <1>7, <1>8, <1>4 DEF IsStatement
<1>10. StatementMeant(func, b, d, l) /\ StatementComputed(b, d, l)
  <2>1. o[1] # "name" /\ o[1] # "ssa"
    BY <1>4
  <2>2. o \in Written(b, d, l, o) /\ o \in MeantBy(func, b, d, l, o)
    BY <2>1 DEF Written, MeantBy
  <2>3. StatementMeant(func, b, d, l)
    <3>1. \A j \in DOMAIN mov.args : mov.args[j] = o /\ mov.src[j] = o
      <4>1. \A j \in 1..1 : j = 1
        OBVIOUS
      <4> QED BY <4>1, <1>8
    <3>2. \A j \in DOMAIN mov.args :
            \E v \in MeantBy(func, b, d, l, mov.src[j]) : v \in Written(b, d, l, mov.args[j])
      BY Zenon, <2>2, <3>1
    <3>3. Len(mov.args) = Len(mov.src) /\ d[l] = mov
      BY <1>2, <1>8
    <3> QED BY Zenon, <3>2, <3>3 DEF StatementMeant
  <2>4. StatementComputed(b, d, l)
    BY <2>1, <1>2, <1>8 DEF StatementComputed
  <2> QED BY <2>3, <2>4
<1>11. StatementEncodable(mov)
  BY <1>7 DEF StatementEncodable, NoImmediate
<1>12. Fine(func, b, d, l) /\ AllEncodable(d, l)
  BY <1>1, <1>2, <1>6, <1>9, <1>10, <1>11 DEF Fine, AllEncodable
<1>13. r[1] = "ssa" /\ r[4] = TypeOf(o) /\ TypeOf(r) = TypeOf(o) /\ IsOperand(r)
  BY <1>4, <1>7 DEF r, OutputOf, TypeOf, IsOperand, IsResult
<1>14. Len(st0.args) \in Nat /\ Len(c[l].args) = Len(st0.args) /\ DOMAIN c[l].args = 1..Len(st0.args)
  BY <1>3, SeqIs DEF IsStatement, SameBut
<1>15. /\ DOMAIN st = {"name", "op", "args", "type", "src"}
       /\ st.name = c[l].name /\ st.op = c[l].op /\ st.type = c[l].type /\ st.src = c[l].src
       /\ st.args = [c[l].args EXCEPT ![i] = r]
  BY <1>2, <1>3 DEF IsStatement
<1>16. /\ IsSeq(st.args) /\ Len(st.args) = Len(st0.args) /\ DOMAIN st.args = 1..Len(st0.args)
       /\ st.args[i] = r /\ \A j \in 1..Len(st0.args) : j # i => st.args[j] = c[l].args[j]
  <2>1. DOMAIN st.args = 1..Len(st0.args) /\ st.args = [j \in 1..Len(st0.args) |-> st.args[j]]
    BY <1>14, <1>15
  <2>2. IsSeq(st.args) /\ Len(st.args) = Len(st0.args)
    <3> HIDE DEF st
    <3> QED BY <2>1, <1>14, FunctionSeq
  <2> QED BY <2>1, <2>2, <1>14, <1>15
<1> HIDE DEF st
<1>17. IsStatement(st)
  <2>1. \A j \in 1..Len(st.args) : IsOperand(st.args[j])
    BY <1>3, <1>13, <1>14, <1>16 DEF IsStatement
  <2> QED BY <2>1, <1>3, <1>15, <1>16 DEF IsStatement
<1>18. SameBut(st, st0)
  <2>1. ASSUME NEW j \in 1..Len(st0.args)
        PROVE  /\ TypeOf(st.args[j]) = TypeOf(st0.args[j])
               /\ st.args[j][1] \in {"slot", "const"} => st.args[j] = st0.args[j]
    <3>1. CASE j = i
      BY <3>1, <1>4, <1>13, <1>16
    <3>2. CASE j # i
      BY <3>2, <1>3, <1>16 DEF SameBut
    <3> QED BY <3>1, <3>2
  <2> QED BY <2>1, <1>3, <1>15, <1>16 DEF SameBut
<1>19. \A tok : MeantBy(func, b, c, l, tok) \subseteq MeantBy(func, b, d, l + 1, tok)
  <2>1. \A name : Definitions(func, b, c, l, name) \subseteq Definitions(func, b, d, l + 1, name)
    <3>1. \A j \in 1..(l - 1) : d[j] = c[j] /\ j \in 1..((l + 1) - 1)
      BY <1>1, <1>2 DEF SamePrefix
    <3> QED BY <3>1 DEF Definitions
  <2> QED BY <2>1 DEF MeantBy
<1>20. \A tok : MeantBy(func, b, old, Len(old) + 1, tok) \subseteq MeantBy(func, b, d, l + 1, tok)
  <2>1. \A name : Definitions(func, b, old, Len(old) + 1, name) \subseteq Definitions(func, b, d, l + 1, name)
    <3>1. \A j \in 1..((Len(old) + 1) - 1) : d[j] = old[j] /\ j \in 1..((l + 1) - 1)
      BY <1>1, <1>5 DEF SamePrefix
    <3> QED BY <3>1 DEF Definitions
  <2> QED BY <2>1 DEF MeantBy
<1>21. \A p : Written(b, c, l, p) \subseteq Written(b, d, l + 1, p)
  <2>1. \A j \in 1..(l - 1) : d[j] = c[j] /\ j \in 1..((l + 1) - 1)
    BY <1>1, <1>2 DEF SamePrefix
  <2> QED BY <2>1 DEF Written
<1>22. o \in Written(b, d, l + 1, r)
  <2>1. l \in 1..((l + 1) - 1)
    BY <1>1
  <2>2. d[l].op = "mov" /\ d[l].src = d[l].args /\ OutputOf(b, d[l]) = r /\ d[l].args[1] = o
    BY <1>2, <1>7, <1>8 DEF r
  <2> QED BY <2>1, <2>2 DEF Written
<1>23. StatementMeant(func, b, d, l + 1)
  <2>1. ASSUME NEW j \in 1..Len(st0.args)
        PROVE  \E v \in MeantBy(func, b, d, l + 1, st.src[j]) : v \in Written(b, d, l + 1, st.args[j])
    <3>1. CASE j = i
      <4>1. o \in MeantBy(func, b, old, Len(old) + 1, st0.src[i])
        BY <1>4 DEF Usable
      <4>2. st.src[i] = st0.src[i]
        BY <1>18 DEF SameBut
      <4> QED BY <3>1, <4>1, <4>2, <1>16, <1>20, <1>22
    <3>2. CASE j # i
      <4>1. \E v \in MeantBy(func, b, c, l, c[l].src[j]) : v \in Written(b, c, l, c[l].args[j])
        <5>1. StatementMeant(func, b, c, l)
          BY <1>1, <1>3 DEF Fine
        <5> QED BY <5>1, <1>14 DEF StatementMeant
      <4> QED BY <3>2, <4>1, <1>15, <1>16, <1>19, <1>21
    <3> QED BY <3>1, <3>2
  <2>2. Len(c[l].args) = Len(c[l].src)
    BY <1>1, <1>3 DEF Fine, StatementMeant
  <2> QED BY <2>1, <2>2, <1>14, <1>15, <1>16 DEF StatementMeant, st
<1>24. StatementComputed(b, d, l + 1)
  <2>1. ASSUME NEW j \in 1..Len(st0.args), st.args[j][1] = "ssa"
        PROVE  \E m \in 1..((l + 1) - 1) : OutputOf(b, d[m]) = st.args[j]
    <3>1. CASE j = i
      BY <3>1, <1>1, <1>2, <1>16 DEF r
    <3>2. CASE j # i
      <4>1. \E m \in 1..(l - 1) : OutputOf(b, c[m]) = c[l].args[j]
        BY SMTT(30), <2>1, <3>2, <1>1, <1>3, <1>14, <1>16 DEF Fine, StatementComputed
      <4>2. \A m \in 1..(l - 1) : d[m] = c[m] /\ m \in 1..((l + 1) - 1)
        BY <1>1, <1>2 DEF SamePrefix
      <4> QED BY <3>2, <4>1, <4>2, <1>16
    <3> QED BY <3>1, <3>2
  <2> QED BY <2>1, <1>16 DEF StatementComputed, st
<1>25. Fine(func, b, d, l + 1)
  BY <1>1, <1>12, <1>17, <1>23, <1>24 DEF Fine, st
<1>26. MadeUpFrom(d, Len(old) + 1, l)
  <2>1. ASSUME NEW k \in (Len(old) + 1)..l PROVE MadeUp(d[k])
    <3>1. CASE k = l
      BY <3>1, <1>2, <1>7 DEF MadeUp
    <3>2. CASE k # l
      <4>1. k \in (Len(old) + 1)..(l - 1) /\ k \in 1..(l - 1)
        BY <3>2, <1>1
      <4>2. d[k] = c[k] /\ MadeUp(c[k])
        BY <4>1, <1>2 DEF SamePrefix, Partly, MadeUpFrom
      <4> QED BY <4>2 DEF MadeUp
    <3> QED BY <3>1, <3>2
  <2> QED BY <2>1 DEF MadeUpFrom
<1> QED BY <1>2, <1>5, <1>12, <1>13, <1>16, <1>18, <1>25, <1>26 DEF d, st

\* A turn of the two loops brings the last statement nearer to what can be encoded.
LEMMA TurnKeeps ==
  ASSUME NEW func, NEW b, NEW old, NEW st0, NEW c, NEW n \in 1..(2 * Len(st0.args)),
         Partly(func, b, old, st0, c, n - 1), IsSeq(old), Usable(func, b, old, st0), NEW temps, NEW len
  PROVE  Partly(func, b, old, st0, LegalizeTurn(c, b, n, Len(st0.args), temps, len), n)
<1> DEFINE count == Len(st0.args)
           l == Len(c)
           loop == IF n <= count THEN 1 ELSE 2
           i == IF n <= count THEN n ELSE n - count
           temp == temps + 1 + (l - len)
           d == MoveOut(c, b, i, temp)
<1>1. LegalizeTurn(c, b, n, count, temps, len) = IF NotEncodable(c[l], i, loop) THEN d ELSE c
  BY DEF LegalizeTurn, Last
<1>2. count \in Nat /\ Len(old) \in Nat /\ l \in Nat /\ l > Len(old) /\ IsSeq(c)
  BY SeqIs DEF Usable, Partly
<1>3. i \in 1..count /\ 1 \in 1..count
  BY <1>2
<1>4. /\ SameBut(c[l], st0) /\ DoneFor(c[l], n - 1) /\ Len(c[l].args) = count
  BY DEF Partly, SameBut
<1>5. NoImmediate(c[l]) = NoImmediate(st0)
  <2>1. c[l].op = st0.op /\ c[l].type = st0.type /\ TypeOf(c[l].args[1]) = TypeOf(st0.args[1])
    BY <1>3, <1>4 DEF SameBut
  <2> QED BY <2>1, RuleSame
<1>6. ASSUME NEW j \in 1..count
      PROVE  /\ j <= n => j <= n - 1 \/ (j = i /\ loop = 1)
             /\ j + count <= n => j + count <= n - 1 \/ (j = i /\ loop = 2)
  BY <1>2
<1>7. CASE ~NotEncodable(c[l], i, loop)
  <2>1. DoneFor(c[l], n)
    <3>1. ASSUME NEW j \in 1..count
          PROVE  /\ j <= n /\ c[l].op \notin {"load", "store", "mov"} => c[l].args[j][1] # "slot"
                 /\ j + count <= n /\ j \in NoImmediate(c[l]) => c[l].args[j][1] # "const"
      <4> HIDE DEF i, loop, count, l
      <4> QED BY <1>4, <1>6, <1>7 DEF DoneFor, NotEncodable
    <3> QED BY <3>1, <1>4 DEF DoneFor
  <2> QED BY <1>1, <1>7, <2>1 DEF Partly
<1>8. CASE NotEncodable(c[l], i, loop)
  <2> DEFINE st == d[l + 1]
  <2>1. c[l].args[i][1] \in {"slot", "const"}
    BY <1>8 DEF NotEncodable
  <2> HIDE DEF i, loop, temp
  <2>2. /\ IsSeq(d) /\ Len(d) = l + 1 /\ SamePrefix(old, d, Len(old))
        /\ Fine(func, b, d, l + 1) /\ AllEncodable(d, l) /\ MadeUpFrom(d, Len(old) + 1, l)
        /\ SameBut(st, st0)
        /\ st.args[i][1] = "ssa" /\ \A j \in 1..count : j # i => st.args[j] = c[l].args[j]
    BY <1>3, <2>1, MoveOutFine
  <2> HIDE DEF d
  <2>3. NoImmediate(st) = NoImmediate(st0)
    <3>1. st.op = st0.op /\ st.type = st0.type /\ TypeOf(st.args[1]) = TypeOf(st0.args[1])
      BY <1>3, <2>2 DEF SameBut
    <3> QED BY <3>1, RuleSame
  <2>4. st.op = c[l].op /\ Len(st.args) = count
    BY <1>4, <2>2 DEF SameBut
  <2>5. DoneFor(st, n)
    <3>1. ASSUME NEW j \in 1..count
          PROVE  /\ j <= n /\ st.op \notin {"load", "store", "mov"} => st.args[j][1] # "slot"
                 /\ j + count <= n /\ j \in NoImmediate(st) => st.args[j][1] # "const"
      <4>1. CASE j = i
        BY <4>1, <2>2
      <4>2. CASE j # i
        <5>1. st.args[j] = c[l].args[j] /\ (j <= n => j <= n - 1) /\ (j + count <= n => j + count <= n - 1)
          BY <4>2, <2>2, <1>6
        <5> HIDE DEF count, st, l
        <5> QED BY <5>1, <2>3, <2>4, <1>4, <1>5 DEF DoneFor
      <4> QED BY <4>1, <4>2
    <3> QED BY <3>1, <2>4 DEF DoneFor
  <2>6. Partly(func, b, old, st0, d, n)
    BY <1>2, <2>2, <2>5 DEF Partly
  <2> QED BY <1>1, <1>8, <2>6
<1> QED BY <1>7, <1>8

\* The turns one after the other are a function.
Turns(g, N, code, b, count, temps, len) ==
  g = [n \in 0..N |-> IF n = 0 THEN code ELSE LegalizeTurn(g[n - 1], b, n, count, temps, len)]

\* The turns of the two loops are a function: a shortest one that is not cannot be.
LEMMA TurnsExist ==
  ASSUME NEW N \in Nat, NEW code, NEW b, NEW count, NEW temps, NEW len
  PROVE  \E g : Turns(g, N, code, b, count, temps, len)
<1> DEFINE T(c, n) == LegalizeTurn(c, b, n, count, temps, len)
           Def(g, m) == g = [n \in 0..m |-> IF n = 0 THEN code ELSE T(g[n - 1], n)]
           Bad == {m \in 0..N : ~\E g : Def(g, m)}
<1>1. ASSUME Bad # {} PROVE FALSE
  <2>1. Bad \subseteq Nat
    OBVIOUS
  <2>2. PICK m \in Bad : \A y \in Bad : m <= y
    <3> HIDE DEF Bad
    <3> QED BY <1>1, <2>1, LeastIs
  <2>3. m \in 0..N /\ ~\E g : Def(g, m)
    OBVIOUS
  <2>4. m # 0
    <3> DEFINE g == [n \in 0..0 |-> code]
    <3>1. Def(g, 0)
      <4> HIDE DEF T
      <4> QED OBVIOUS
    <3> QED BY <3>1, <2>3
  <2>5. m - 1 \in 0..N /\ m - 1 \notin Bad
    BY <2>2, <2>3, <2>4
  <2>6. PICK h : Def(h, m - 1)
    BY <2>5
  <2> DEFINE g == [n \in 0..m |-> IF n = m THEN T(h[m - 1], m) ELSE h[n]]
  <2> HIDE DEF T
  <2>7. DOMAIN h = 0..(m - 1) /\ \A n \in 0..(m - 1) : h[n] = IF n = 0 THEN code ELSE T(h[n - 1], n)
    BY <2>6
  <2>8. ASSUME NEW n \in 0..m PROVE g[n] = IF n = 0 THEN code ELSE T(g[n - 1], n)
    <3>1. CASE n = m
      <4>1. m - 1 \in 0..m /\ g[m - 1] = h[m - 1] /\ g[m] = T(h[m - 1], m)
        BY <2>3, <2>4
      <4> QED BY <3>1, <4>1, <2>4
    <3>2. CASE n # m
      <4>1. n \in 0..(m - 1) /\ g[n] = h[n]
        BY <3>2, <2>3
      <4>2. n # 0 => n - 1 \in 0..m /\ g[n - 1] = h[n - 1]
        BY <3>2, <2>3
      <4> HIDE DEF g
      <4> QED BY <4>1, <4>2, <2>7
    <3> QED BY <3>1, <3>2
  <2>9. Def(g, m)
    BY <2>8
  <2> QED BY <2>9, <2>3
<1>2. N \in 0..N /\ N \notin Bad
  BY SMTT(30), <1>1
<1> QED BY <1>2 DEF Turns

\* c is old with a statement behind it that is called and typed as st, and with movs in
\* between.
Behind(old, st, c) ==
  /\ Len(c) > Len(old)
  /\ SamePrefix(old, c, Len(old))
  /\ MadeUpFrom(c, Len(old) + 1, Len(c) - 1)
  /\ c[Len(c)].name = st.name /\ c[Len(c)].type = st.type

\* A legalised statement behind good ones gives good ones.
LEMMA LegalIs ==
  ASSUME NEW func, NEW b, NEW old, NEW st, IsSeq(old), Fine(func, b, old, Len(old)), AllEncodable(old, Len(old)),
         Usable(func, b, old, st), IsStatement(st), NEW temps
  PROVE  LET c == legalize_last_statement_operands(Append(old, st), b, temps)
         IN IsSeq(c) /\ Fine(func, b, c, Len(c)) /\ AllEncodable(c, Len(c)) /\ Behind(old, st, c)
<1> DEFINE code == Append(old, st)
           count == Len(st.args)
           N == 2 * count
           T(c, n) == LegalizeTurn(c, b, n, count, temps, Len(code))
           Def(g) == g = [n \in 0..N |-> IF n = 0 THEN code ELSE T(g[n - 1], n)]
           g == CHOOSE h : Def(h)
<1>1. count \in Nat /\ N \in Nat /\ Len(old) \in Nat
  BY SeqIs DEF IsStatement
<1>2. Last(code) = st
  BY AppendIs DEF Last
<1>3. legalize_last_statement_operands(code, b, temps) = g[N]
  <2>1. Len(Last(code).args) = count
    BY <1>2
  <2> QED BY <2>1 DEF legalize_last_statement_operands
<1>4. Def(g)
  <2> HIDE DEF N, code, count
  <2>1. PICK h : Turns(h, N, code, b, count, temps, Len(code))
    BY <1>1, TurnsExist
  <2>2. Def(h)
    BY <2>1 DEF Turns
  <2> HIDE DEF Def
  <2> QED BY <2>2
<1>5. Partly(func, b, old, st, code, 0)
  BY PartlyBegins
<1> HIDE DEF g, code
<1>6. g[0] = code /\ \A n \in 1..N : g[n] = T(g[n - 1], n)
  <2> HIDE DEF T, N
  <2>1. \A n \in 0..N : g[n] = IF n = 0 THEN code ELSE T(g[n - 1], n)
    BY <1>4
  <2> QED BY <2>1, <1>1
<1> HIDE DEF Def
<1> DEFINE Bad == {n \in 0..N : ~Partly(func, b, old, st, g[n], n)}
<1>7. ASSUME Bad # {} PROVE FALSE
  <2>1. Bad \subseteq Nat
    BY <1>1
  <2>2. PICK m \in Bad : \A y \in Bad : m <= y
    <3> HIDE DEF Bad
    <3> QED BY <1>7, <2>1, LeastIs
  <2>3. m \in 0..N /\ ~Partly(func, b, old, st, g[m], m)
    OBVIOUS
  <2>4. m # 0
    BY <2>3, <1>5, <1>6
  <2>5. m \in 1..N /\ m - 1 \in 0..N /\ m - 1 \notin Bad
    BY <2>2, <2>3, <2>4, <1>1
  <2>6. Partly(func, b, old, st, g[m - 1], m - 1)
    BY <2>5
  <2>7. Partly(func, b, old, st, T(g[m - 1], m), m)
    BY <2>5, <2>6, TurnKeeps
  <2> QED BY <2>3, <2>5, <2>7, <1>6
<1>8. Partly(func, b, old, st, g[N], N)
  BY <1>1, <1>7
<1> DEFINE c == g[N]
           l == Len(c)
<1> HIDE DEF c
<1>9. /\ IsSeq(c) /\ l \in Nat /\ l > 0 /\ Fine(func, b, c, l) /\ AllEncodable(c, l - 1)
      /\ SameBut(c[l], st) /\ DoneFor(c[l], N)
  BY <1>1, <1>8, SeqIs DEF Partly, c
<1>10. StatementEncodable(c[l])
  <2>1. IsStatement(c[l]) /\ Len(c[l].args) = count
    BY <1>9 DEF Fine, SameBut
  <2>2. DOMAIN c[l].args = 1..count
    BY <2>1, SeqIs DEF IsStatement
  <2>3. \A i \in 1..count : i <= N /\ i + count <= N
    BY <1>1
  <2> QED BY <2>1, <2>2, <2>3, <1>9 DEF StatementEncodable, DoneFor
<1>11. AllEncodable(c, l)
  BY <1>9, <1>10 DEF AllEncodable
<1>12. Behind(old, st, c)
  BY <1>8 DEF Partly, Behind, SameBut, c
<1> QED BY <1>3, <1>9, <1>11, <1>12 DEF c, code

-----------------------------------------------------------------------------
(* Functions and programs *)

\* What a sequence with one element changed holds.
Changed(s, i, e, t) == IsSeq(t) /\ Len(t) = Len(s) /\ t[i] = e /\ \A j \in 1..Len(s) : j # i => t[j] = s[j]

\* EXCEPT changes one element of a sequence.
LEMMA ExceptIs ==
  ASSUME NEW s, NEW i \in 1..Len(s), NEW e, IsSeq(s), NEW t, t = [s EXCEPT ![i] = e]
  PROVE  Changed(s, i, e, t)
<1>1. Len(s) \in Nat /\ DOMAIN s = 1..Len(s)
  BY SeqIs
<1>2. t = [j \in 1..Len(s) |-> t[j]]
  BY <1>1
<1>3. t[i] = e /\ \A j \in 1..Len(s) : j # i => t[j] = s[j]
  BY <1>1
<1>4. IsSeq(t) /\ Len(t) = Len(s)
  BY <1>1, <1>2, FunctionSeq
<1> QED BY <1>3, <1>4 DEF Changed

\* A program with one function changed.
LEMMA FunctionChanged ==
  ASSUME NEW G, Good(G), NEW f \in 1..Len(G.funcs), NEW F, GoodFunction(F),
         NEW H, DOMAIN H = DOMAIN G, H.funcs = [G.funcs EXCEPT ![f] = F], H.cur = G.cur
  PROVE  Good(H) /\ Len(H.funcs) = Len(G.funcs) /\ (EncodableProgram(G) /\ EncodableFunction(F) => EncodableProgram(H))
<1> DEFINE s == G.funcs
           t == H.funcs
<1>1. IsSeq(s)
  BY DEF Good
<1>2. IsSeq(t) /\ Len(t) = Len(s) /\ t[f] = F /\ \A j \in 1..Len(s) : j # f => t[j] = s[j]
  <2>1. t = [s EXCEPT ![f] = F] /\ f \in 1..Len(s)
    OBVIOUS
  <2> HIDE DEF s, t
  <2>2. Changed(s, f, F, t)
    BY <1>1, <2>1, ExceptIs
  <2> QED BY <2>2 DEF Changed
<1>3. \A j \in 1..Len(s) : GoodFunction(t[j])
  BY <1>2 DEF Good
<1>4. EncodableProgram(G) /\ EncodableFunction(F) => \A j \in 1..Len(s) : EncodableFunction(t[j])
  BY <1>2 DEF EncodableProgram
<1> QED BY <1>2, <1>3, <1>4 DEF Good, EncodableProgram

\* A function with the statements of one block changed.
LEMMA CodeChanged ==
  ASSUME NEW func, GoodFunction(func), NEW b \in 1..Len(func.blocks), NEW code, IsSeq(code),
         Fine(func, b, code, Len(code))
  PROVE  LET F == [func EXCEPT !.blocks[b].code = code]
         IN GoodFunction(F) /\ (EncodableFunction(func) /\ AllEncodable(code, Len(code)) => EncodableFunction(F))
<1> DEFINE F == [func EXCEPT !.blocks[b].code = code]
           B == [func.blocks[b] EXCEPT !.code = code]
           s == func.blocks
           t == F.blocks
<1>1. /\ DOMAIN F = DOMAIN func /\ F.args = func.args /\ F.slots = func.slots /\ t = [s EXCEPT ![b] = B]
  BY DEF GoodFunction
<1>2. IsSeq(s) /\ Len(s) \in Nat
  BY SeqIs DEF GoodFunction
<1> HIDE DEF F, B
<1>3. IsSeq(t) /\ Len(t) = Len(s) /\ t[b] = B /\ \A j \in 1..Len(s) : j # b => t[j] = s[j]
  <2>1. b \in 1..Len(s)
    OBVIOUS
  <2> HIDE DEF s, t
  <2>2. Changed(s, b, B, t)
    BY <1>1, <1>2, <2>1, ExceptIs
  <2> QED BY <2>2 DEF Changed
<1>4. DOMAIN B = {"name", "args", "code"} /\ B.args = s[b].args /\ B.code = code
  BY DEF B, GoodFunction, GoodBlock
<1>5. ASSUME NEW j \in 1..Len(s) PROVE GoodBlock(F, j)
  <2>1. t[j].args = s[j].args
    BY <1>3, <1>4
  <2>2. ParamsSeen(F, j) = ParamsSeen(func, j)
    BY <2>1, <1>1 DEF ParamsSeen
  <2>3. Wider(func, F, j)
    BY <2>2, <1>1 DEF Wider
  <2>4. CASE j = b
    <3>1. Len(code) \in Nat
      BY SeqIs
    <3>2. Fine(F, b, code, Len(code))
      BY <2>3, <2>4, <3>1, FineWider
    <3>3. AllParams(B.args)
      BY <1>4 DEF GoodFunction, GoodBlock
    <3> QED BY <2>4, <3>2, <3>3, <1>3, <1>4 DEF GoodBlock
  <2>5. CASE j # b
    <3>1. GoodBlock(func, j) /\ t[j] = s[j]
      BY <2>5, <1>3 DEF GoodFunction
    <3>2. Len(s[j].code) \in Nat /\ Fine(func, j, s[j].code, Len(s[j].code))
      BY <3>1, SeqIs DEF GoodBlock
    <3>3. Fine(F, j, s[j].code, Len(s[j].code))
      BY <2>3, <3>2, FineWider
    <3> QED BY <3>1, <3>3 DEF GoodBlock
  <2> QED BY <2>4, <2>5
<1>6. GoodFunction(F)
  BY <1>1, <1>3, <1>5 DEF GoodFunction
<1>7. EncodableFunction(func) /\ AllEncodable(code, Len(code)) => EncodableFunction(F)
  BY <1>3, <1>4 DEF EncodableFunction
<1> QED BY <1>6, <1>7 DEF F

\* What an operator that changes the current function leaves behind.
Kept(G, H) ==
  /\ Good(H) /\ H.cur = G.cur /\ Len(H.funcs) = Len(G.funcs)
  /\ H.failed \/ EncodableProgram(H)

\* A failed assertion changes nothing else.
LEMMA FailKeeps ==
  ASSUME NEW G, Good(G)
  PROVE  Kept(G, Fail(G))
<1>1. /\ DOMAIN Fail(G) = DOMAIN G /\ Fail(G).funcs = G.funcs /\ Fail(G).cur = G.cur /\ Fail(G).failed = TRUE
  BY DEF Good, Fail
<1>2. Good(Fail(G))
  BY <1>1 DEF Good
<1> QED BY <1>1, <1>2 DEF Kept

\* The type of an output is a type, or an assertion fails.
LEMMA OutputTyped ==
  ASSUME NEW st, IsSeq(st.args), st.args # <<>>, \A i \in 1..Len(st.args) : IsOperand(st.args[i])
  PROVE  OutputType(st) \in Types \cup {"fails"}
<1> DEFINE o == st.args[1]
<1>1. IsOperand(o)
  <2>1. Len(st.args) \in Nat /\ Len(st.args) # 0
    BY SeqIs DEF IsSeq
  <2> QED BY <2>1
<1> HIDE DEF o
<1>2. IsValue(o) => TypeOf(o) \in Types
  BY <1>1 DEF IsValue, IsOperand, IsPlain, IsParam, IsResult, TypeOf, Types
<1>3. o[1] = "type" => o[2] \in Types
  BY <1>1 DEF IsOperand, IsPlain, IsParam, IsResult
<1>4. {"i8", "iptr", "f32", "f64"} \subseteq Types
  BY DEF Types
<1> QED BY <1>2, <1>3, <1>4 DEF OutputType, o

\* Appending a statement keeps a program good.
LEMMA AppendKeeps ==
  ASSUME NEW G, Good(G), EncodableProgram(G), NEW f \in 1..Len(G.funcs), NEW b \in 1..Len(G.funcs[f].blocks),
         NEW st, Usable(G.funcs[f], b, G.funcs[f].blocks[b].code, st), st.name # NoName => st.args # <<>>
  PROVE  Kept(G, block_append_statement(G, f, b, st))
<1> DEFINE func == G.funcs[f]
           old == func.blocks[b].code
           type == IF st.name = NoName THEN NoType ELSE OutputType(st)
           s == [st EXCEPT !.type = type]
           legal == legalize_last_statement_operands(Append(old, s), b, G.temps)
           temps == G.temps + (Len(legal) - Len(Append(old, s)))
           H == [G EXCEPT !.funcs[f].blocks[b].code = legal, !.temps = temps]
           F == [func EXCEPT !.blocks[b].code = legal]
<1>1. block_append_statement(G, f, b, st)
        = IF type = "fails" THEN Fail(G) ELSE IF st.op = "return" /\ st.args = <<>> THEN Fail(H) ELSE H
  BY DEF block_append_statement
<1>2. GoodFunction(func) /\ EncodableFunction(func)
  BY DEF Good, EncodableProgram
<1>3. IsSeq(old) /\ Fine(func, b, old, Len(old)) /\ AllEncodable(old, Len(old))
  BY <1>2 DEF GoodFunction, GoodBlock, EncodableFunction
<1>4. CASE type = "fails"
  BY <1>1, <1>4, FailKeeps
<1>5. CASE type # "fails"
  <2>1. /\ DOMAIN s = {"name", "op", "args", "type", "src"} /\ s.type = type
        /\ s.name = st.name /\ s.args = st.args /\ s.src = st.src
    BY DEF Usable
  <2>2. IsSeq(st.args) /\ \A i \in 1..Len(st.args) : IsOperand(st.args[i])
    BY DEF Usable
  <2>3. (st.name = NoName <=> type = NoType) /\ type \in Types \cup {NoType}
    <3>1. CASE st.name = NoName
      BY <3>1
    <3>2. CASE st.name # NoName
      <4>1. OutputType(st) \in Types \cup {"fails"}
        BY <2>2, <3>2, OutputTyped
      <4> QED BY <3>2, <4>1, <1>5 DEF Types, NoType
    <3> QED BY <3>1, <3>2
  <2> HIDE DEF type, s
  <2>4. IsStatement(s)
    BY <2>1, <2>2, <2>3 DEF IsStatement
  <2>5. Usable(func, b, old, s)
    BY <2>1 DEF Usable
  <2>6. IsSeq(legal) /\ Fine(func, b, legal, Len(legal)) /\ AllEncodable(legal, Len(legal))
    <3> HIDE DEF func, old
    <3> QED BY <1>3, <2>4, <2>5, LegalIs
  <2> HIDE DEF legal, temps
  <2>7. GoodFunction(F) /\ EncodableFunction(F)
    <3>1. b \in 1..Len(func.blocks)
      OBVIOUS
    <3> HIDE DEF func
    <3> QED BY <1>2, <2>6, <3>1, CodeChanged
  <2>8. DOMAIN H = DOMAIN G /\ H.funcs = [G.funcs EXCEPT ![f] = F] /\ H.cur = G.cur
    BY DEF Good
  <2> HIDE DEF H, F
  <2>9. Good(H) /\ Len(H.funcs) = Len(G.funcs) /\ EncodableProgram(H)
    BY <2>7, <2>8, FunctionChanged
  <2>10. Kept(G, H)
    BY <2>8, <2>9 DEF Kept
  <2>11. Kept(G, Fail(H))
    BY <2>9, <2>10, FailKeeps DEF Kept
  <2> QED BY <1>1, <1>5, <2>10, <2>11
<1> QED BY <1>4, <1>5

\* A list with one more element has all it had.
LEMMA AppendHas ==
  ASSUME NEW s, NEW e, IsSeq(s)
  PROVE  ToSet(s) \subseteq ToSet(Append(s, e))
<1> DEFINE t == Append(s, e)
<1>1. /\ IsSeq(t) /\ Len(t) = Len(s) + 1 /\ \A i \in 1..Len(s) : t[i] = s[i]
  BY AppendIs
<1> HIDE DEF t
<1>2. Len(s) \in Nat /\ DOMAIN s = 1..Len(s) /\ DOMAIN t = 1..Len(t)
  BY <1>1, SeqIs
<1>3. \A i \in DOMAIN s : i \in DOMAIN t /\ t[i] = s[i]
  BY <1>1, <1>2
<1> QED BY <1>3 DEF ToSet, t

\* A list of parameters with one more is one.
LEMMA AppendParam ==
  ASSUME NEW s, NEW v, AllParams(s), IsParam(v)
  PROVE  AllParams(Append(s, v)) /\ ToSet(s) \subseteq ToSet(Append(s, v))
<1> DEFINE t == Append(s, v)
<1>1. IsSeq(s) /\ Len(s) \in Nat
  BY SeqIs DEF AllParams
<1>2. IsSeq(t) /\ Len(t) = Len(s) + 1 /\ (\A i \in 1..Len(s) : t[i] = s[i]) /\ t[Len(s) + 1] = v
  BY <1>1, AppendIs
<1> HIDE DEF t
<1>3. \A i \in 1..Len(t) : IsParam(t[i])
  <2> SUFFICES ASSUME NEW i \in 1..Len(t) PROVE IsParam(t[i])
    OBVIOUS
  <2>1. i \in 1..Len(s) \/ i = Len(s) + 1
    BY <1>1, <1>2
  <2> QED BY <1>2, <2>1 DEF AllParams
<1> QED BY <1>1, <1>2, <1>3, AppendHas DEF AllParams, t

\* A list of slots with one more is one.
LEMMA AppendSlot ==
  ASSUME NEW s, NEW v, AllSlots(s), IsSlot(v)
  PROVE  AllSlots(Append(s, v)) /\ ToSet(s) \subseteq ToSet(Append(s, v))
<1> DEFINE t == Append(s, v)
<1>1. IsSeq(s) /\ Len(s) \in Nat
  BY SeqIs DEF AllSlots
<1>2. IsSeq(t) /\ Len(t) = Len(s) + 1 /\ (\A i \in 1..Len(s) : t[i] = s[i]) /\ t[Len(s) + 1] = v
  BY <1>1, AppendIs
<1> HIDE DEF t
<1>3. \A i \in 1..Len(t) : IsSlot(t[i])
  <2> SUFFICES ASSUME NEW i \in 1..Len(t) PROVE IsSlot(t[i])
    OBVIOUS
  <2>1. i \in 1..Len(s) \/ i = Len(s) + 1
    BY <1>1, <1>2
  <2> QED BY <1>2, <2>1 DEF AllSlots
<1> QED BY <1>1, <1>2, <1>3, AppendHas DEF AllSlots, t

\* A function that has got more parameters or slots, and the same statements.
MoreParams(func, F) ==
  /\ DOMAIN F = DOMAIN func
  /\ AllParams(F.args) /\ ToSet(func.args) \subseteq ToSet(F.args)
  /\ AllSlots(F.slots) /\ ToSet(func.slots) \subseteq ToSet(F.slots)
  /\ IsSeq(F.blocks) /\ Len(F.blocks) = Len(func.blocks)
  /\ \A b \in 1..Len(func.blocks) :
       /\ DOMAIN F.blocks[b] = DOMAIN func.blocks[b]
       /\ F.blocks[b].code = func.blocks[b].code
       /\ AllParams(F.blocks[b].args) /\ ToSet(func.blocks[b].args) \subseteq ToSet(F.blocks[b].args)

\* Parameters and slots may be added to a function that has statements.
LEMMA MoreParamsGood ==
  ASSUME NEW func, NEW F, GoodFunction(func), MoreParams(func, F)
  PROVE  GoodFunction(F) /\ (EncodableFunction(func) => EncodableFunction(F))
<1>1. ASSUME NEW b \in 1..Len(func.blocks) PROVE GoodBlock(F, b)
  <2>1. GoodBlock(func, b)
    BY DEF GoodFunction
  <2>2. Wider(func, F, b)
    BY DEF Wider, ParamsSeen, MoreParams
  <2> DEFINE code == func.blocks[b].code
  <2>3. IsSeq(code) /\ Len(code) \in Nat /\ Fine(func, b, code, Len(code))
    BY <2>1, SeqIs DEF GoodBlock
  <2>4. Fine(F, b, code, Len(code))
    <3> HIDE DEF code
    <3> QED BY <2>2, <2>3, FineWider
  <2> QED BY <2>1, <2>3, <2>4 DEF GoodBlock, MoreParams
<1> QED BY <1>1 DEF GoodFunction, MoreParams, EncodableFunction

\* A new parameter or slot.
LEMMA FuncargKeeps ==
  ASSUME NEW G, Good(G), EncodableProgram(G), NEW f \in 1..Len(G.funcs), NEW name, NEW type \in Types
  PROVE  Kept(G, add_funcarg(G, f, name, type))
<1> DEFINE func == G.funcs[f]
           v == <<"arg", 1, name, type>>
           F == [func EXCEPT !.args = Append(@, v)]
           H == [G EXCEPT !.funcs[f].args = Append(@, v)]
<1>1. GoodFunction(func) /\ EncodableFunction(func)
  BY DEF Good, EncodableProgram
<1>2. AllParams(Append(func.args, v)) /\ ToSet(func.args) \subseteq ToSet(Append(func.args, v))
  <2>1. AllParams(func.args) /\ IsParam(v)
    BY <1>1 DEF GoodFunction, IsParam
  <2> HIDE DEF func, v
  <2> QED BY <2>1, AppendParam
<1> HIDE DEF v
<1>3. MoreParams(func, F)
  BY <1>1, <1>2 DEF MoreParams, GoodFunction, GoodBlock
<1>4. GoodFunction(F) /\ EncodableFunction(F)
  <2> HIDE DEF func, F
  <2> QED BY <1>1, <1>3, MoreParamsGood
<1>5. DOMAIN H = DOMAIN G /\ H.funcs = [G.funcs EXCEPT ![f] = F] /\ H.cur = G.cur
  BY DEF Good
<1>6. Kept(G, H)
  <2> HIDE DEF F, H
  <2>1. Good(H) /\ Len(H.funcs) = Len(G.funcs) /\ EncodableProgram(H)
    BY <1>4, <1>5, FunctionChanged
  <2> QED BY <2>1, <1>5 DEF Kept
<1> QED BY <1>6, FailKeeps DEF add_funcarg, v

\* add_stack_slot.
LEMMA SlotKeeps ==
  ASSUME NEW G, Good(G), EncodableProgram(G), NEW f \in 1..Len(G.funcs), NEW name
  PROVE  Kept(G, add_stack_slot(G, f, name))
<1> DEFINE func == G.funcs[f]
           v == <<"slot", name>>
           F == [func EXCEPT !.slots = Append(@, v)]
           H == [G EXCEPT !.funcs[f].slots = Append(@, v)]
<1>1. GoodFunction(func) /\ EncodableFunction(func)
  BY DEF Good, EncodableProgram
<1>2. AllSlots(Append(func.slots, v)) /\ ToSet(func.slots) \subseteq ToSet(Append(func.slots, v))
  <2>1. AllSlots(func.slots) /\ IsSlot(v)
    BY <1>1 DEF GoodFunction, IsSlot
  <2> HIDE DEF func, v
  <2> QED BY <2>1, AppendSlot
<1> HIDE DEF v
<1>3. MoreParams(func, F)
  BY <1>1, <1>2 DEF MoreParams, GoodFunction, GoodBlock
<1>4. GoodFunction(F) /\ EncodableFunction(F)
  <2> HIDE DEF func, F
  <2> QED BY <1>1, <1>3, MoreParamsGood
<1>5. DOMAIN H = DOMAIN G /\ H.funcs = [G.funcs EXCEPT ![f] = F] /\ H.cur = G.cur
  BY DEF Good
<1>6. Kept(G, H)
  <2> HIDE DEF F, H
  <2>1. Good(H) /\ Len(H.funcs) = Len(G.funcs) /\ EncodableProgram(H)
    BY SMTT(30), <1>4, <1>5, FunctionChanged
  <2> QED BY <2>1, <1>5 DEF Kept
<1> QED BY <1>6, FailKeeps DEF add_stack_slot, v

\* add_blockarg.
LEMMA BlockargKeeps ==
  ASSUME NEW G, Good(G), EncodableProgram(G), G.cur # 0, NEW name, NEW type \in Types
  PROVE  Kept(G, add_blockarg(G, name, type))
<1> DEFINE f == G.cur
           func == G.funcs[f]
           b == Len(func.blocks)
           v == <<"arg", b, name, type>>
           B == [func.blocks[b] EXCEPT !.args = Append(@, v)]
           F == [func EXCEPT !.blocks[b].args = Append(@, v)]
           H == [G EXCEPT !.funcs[f].blocks[b].args = Append(@, v)]
           s == func.blocks
           t == F.blocks
<1>0. Len(G.funcs) \in Nat /\ f \in 1..Len(G.funcs)
  BY SeqIs DEF Good
<1>1. GoodFunction(func) /\ EncodableFunction(func)
  BY <1>0 DEF Good, EncodableProgram
<1>2. IsSeq(s) /\ Len(s) \in Nat /\ b \in 1..Len(s)
  BY <1>1, SeqIs DEF GoodFunction
<1>3. GoodBlock(func, b) /\ \A j \in 1..Len(s) : GoodBlock(func, j)
  BY SMTT(30), <1>1, <1>2 DEF GoodFunction
<1>4. AllParams(Append(s[b].args, v)) /\ ToSet(s[b].args) \subseteq ToSet(Append(s[b].args, v))
  <2>1. AllParams(s[b].args) /\ IsParam(v)
    BY <1>3 DEF GoodBlock, IsParam
  <2> HIDE DEF s, v, b
  <2> QED BY <2>1, AppendParam
<1> HIDE DEF v, b
<1>5. DOMAIN F = DOMAIN func /\ F.args = func.args /\ F.slots = func.slots /\ t = [s EXCEPT ![b] = B]
  BY <1>1, <1>2 DEF GoodFunction
<1>6. Changed(s, b, B, t)
  <2> HIDE DEF s, t, B
  <2> QED BY ZenonT(60), <1>2, <1>5, ExceptIs
<1>7. DOMAIN B = DOMAIN s[b] /\ B.code = s[b].code /\ B.args = Append(s[b].args, v)
  BY ZenonT(60), <1>3 DEF GoodBlock
<1> HIDE DEF B, F
<1>8. MoreParams(func, F)
  <2>1. ASSUME NEW j \in 1..Len(s)
        PROVE  /\ DOMAIN t[j] = DOMAIN s[j] /\ t[j].code = s[j].code
               /\ AllParams(t[j].args) /\ ToSet(s[j].args) \subseteq ToSet(t[j].args)
    <3>1. CASE j = b
      BY ZenonT(60), <3>1, <1>4, <1>6, <1>7 DEF Changed
    <3>2. CASE j # b
      BY <3>2, <1>3, <1>6 DEF Changed, GoodBlock
    <3> QED BY SMTT(30), <3>1, <3>2
  <2> QED BY <2>1, <1>1, <1>5, <1>6 DEF MoreParams, Changed, GoodFunction
<1>9. GoodFunction(F) /\ EncodableFunction(F)
  <2> HIDE DEF func
  <2> QED BY <1>1, <1>8, MoreParamsGood
<1>10. DOMAIN H = DOMAIN G /\ H.funcs = [G.funcs EXCEPT ![f] = F] /\ H.cur = G.cur
  BY DEF Good, F
<1>11. Kept(G, H)
  <2> HIDE DEF H, f
  <2>1. Good(H) /\ Len(H.funcs) = Len(G.funcs) /\ EncodableProgram(H)
    BY <1>0, <1>9, <1>10, FunctionChanged
  <2> QED BY <2>1, <1>10 DEF Kept
<1> QED BY <1>11, FailKeeps DEF add_blockarg, v, b

\* A new block is empty.
LEMMA BlockKeeps ==
  ASSUME NEW G, Good(G), EncodableProgram(G), G.cur # 0, NEW name
  PROVE  Kept(G, create_block(G, name))
<1> DEFINE f == G.cur
           func == G.funcs[f]
           s == func.blocks
           B == NewBlock(name)
           t == Append(s, B)
           F == [func EXCEPT !.blocks = t]
           H == create_block(G, name)
<1>0. Len(G.funcs) \in Nat /\ f \in 1..Len(G.funcs)
  BY SeqIs DEF Good
<1>1. GoodFunction(func) /\ EncodableFunction(func)
  BY <1>0 DEF Good, EncodableProgram
<1>2. IsSeq(s) /\ Len(s) \in Nat /\ Len(s) > 0
  BY <1>1, SeqIs DEF GoodFunction
<1> HIDE DEF s, B
<1>3. IsSeq(t) /\ Len(t) = Len(s) + 1 /\ (\A j \in 1..Len(s) : t[j] = s[j]) /\ t[Len(s) + 1] = B
  BY <1>2, AppendIs
<1> HIDE DEF t
<1>4. DOMAIN F = DOMAIN func /\ F.args = func.args /\ F.slots = func.slots /\ F.blocks = t
  BY <1>1 DEF GoodFunction
<1>5. DOMAIN B = {"name", "args", "code"} /\ B.args = <<>> /\ B.code = <<>>
  BY DEF B, NewBlock
<1>6. IsSeq(<<>>) /\ Len(<<>>) = 0
  BY DEF IsSeq
<1> HIDE DEF F
<1>7. ASSUME NEW j \in 1..Len(t) PROVE GoodBlock(F, j)
  <2>1. CASE j \in 1..Len(s)
    <3>1. t[j] = s[j] /\ GoodBlock(func, j)
      BY <2>1, <1>1, <1>3 DEF GoodFunction, s
    <3>2. Wider(func, F, j)
      BY SMTT(30), <3>1, <1>4 DEF Wider, ParamsSeen, s
    <3>3. IsSeq(s[j].code) /\ Len(s[j].code) \in Nat /\ Fine(func, j, s[j].code, Len(s[j].code))
      BY <3>1, SeqIs DEF GoodBlock, s
    <3>4. Fine(F, j, s[j].code, Len(s[j].code))
      BY <3>2, <3>3, FineWider
    <3> QED BY <3>1, <3>4, <1>4 DEF GoodBlock, s
  <2>2. CASE j \notin 1..Len(s)
    <3>1. t[j] = B
      BY <2>2, <1>2, <1>3
    <3> QED BY <3>1, <1>4, <1>5, <1>6 DEF GoodBlock, AllParams, Fine
  <2> QED BY SMTT(30), <2>1, <2>2
<1>8. GoodFunction(F)
  BY <1>1, <1>2, <1>3, <1>4, <1>7 DEF GoodFunction
<1>9. EncodableFunction(F)
  <2>1. ASSUME NEW j \in 1..Len(t) PROVE AllEncodable(t[j].code, Len(t[j].code))
    <3>1. CASE j \in 1..Len(s)
      BY <3>1, <1>1, <1>3 DEF EncodableFunction, s
    <3>2. CASE j \notin 1..Len(s)
      <4>1. t[j] = B
        BY <3>2, <1>2, <1>3
      <4> QED BY <4>1, <1>5, <1>6 DEF AllEncodable
    <3> QED BY <3>1, <3>2
  <2> QED BY <2>1, <1>4 DEF EncodableFunction
<1>10. DOMAIN H = DOMAIN G /\ H.funcs = [G.funcs EXCEPT ![f] = F] /\ H.cur = G.cur
  BY DEF Good, F, create_block, t, s, B
<1> HIDE DEF H, f
<1>11. Good(H) /\ Len(H.funcs) = Len(G.funcs) /\ EncodableProgram(H)
  BY <1>0, <1>8, <1>9, <1>10, FunctionChanged
<1> QED BY <1>10, <1>11 DEF Kept, H

\* A new function has an empty entry block.
LEMMA FunctionKeeps ==
  ASSUME NEW G, Good(G), EncodableProgram(G), NEW name
  PROVE  LET H == create_function(G, name) IN Good(H) /\ EncodableProgram(H) /\ H.cur # 0
<1> DEFINE E == <<"__entry__">>
           B == NewBlock(E)
           bs == <<B>>
           F == [name |-> name, args |-> <<>>, slots |-> <<>>, blocks |-> bs]
           s == G.funcs
           t == Append(s, F)
           H == create_function(G, name)
<1>1. IsSeq(s) /\ Len(s) \in Nat
  BY SeqIs DEF Good
<1>2. DOMAIN B = {"name", "args", "code"} /\ B.args = <<>> /\ B.code = <<>>
  BY DEF NewBlock
<1>3. IsSeq(<<>>) /\ Len(<<>>) = 0
  BY DEF IsSeq
<1> HIDE DEF B
<1>4. IsSeq(bs) /\ Len(bs) = 1 /\ bs[1] = B
  <2>1. bs = [j \in 1..1 |-> bs[j]] /\ bs[1] = B
    OBVIOUS
  <2> HIDE DEF bs
  <2> QED BY <2>1, FunctionSeq
<1> HIDE DEF bs
<1>5. DOMAIN F = {"name", "args", "slots", "blocks"} /\ F.args = <<>> /\ F.slots = <<>> /\ F.blocks = bs
  OBVIOUS
<1>6. H.funcs = t /\ H.cur = Len(s) + 1 /\ DOMAIN H = DOMAIN G
  BY DEF create_function, Good, B, bs
<1> HIDE DEF F, H, s
<1>7. GoodBlock(F, 1)
  BY <1>2, <1>3, <1>4, <1>5 DEF GoodBlock, AllParams, Fine
<1>7a. Len(F.blocks) = 1 /\ \A b \in 1..Len(F.blocks) : b = 1
  <2>1. Len(F.blocks) = 1
    BY <1>4, <1>5
  <2>2. \A b \in 1..1 : b = 1
    OBVIOUS
  <2> QED BY <2>1, <2>2, Zenon
<1>8. GoodFunction(F)
  <2>1. AllParams(F.args) /\ AllSlots(F.slots)
    BY <1>3, <1>5 DEF AllParams, AllSlots
  <2>2. \A b \in 1..Len(F.blocks) : GoodBlock(F, b)
    BY <1>7, <1>7a
  <2> QED BY <2>1, <2>2, <1>4, <1>5, <1>7a DEF GoodFunction
<1>9. EncodableFunction(F)
  <2>1. AllEncodable(F.blocks[1].code, Len(F.blocks[1].code))
    BY <1>2, <1>3, <1>4, <1>5 DEF AllEncodable
  <2> QED BY <2>1, <1>7a DEF EncodableFunction
<1>10. IsSeq(t) /\ Len(t) = Len(s) + 1 /\ (\A j \in 1..Len(s) : t[j] = s[j]) /\ t[Len(s) + 1] = F
  BY <1>1, AppendIs
<1> HIDE DEF t
<1>11. ASSUME NEW j \in 1..Len(t) PROVE GoodFunction(t[j]) /\ EncodableFunction(t[j])
  <2>1. CASE j \in 1..Len(s)
    BY <2>1, <1>10 DEF Good, EncodableProgram, s
  <2>2. CASE j \notin 1..Len(s)
    <3>1. j = Len(s) + 1
      BY <2>2, <1>1, <1>10
    <3> QED BY <3>1, <1>8, <1>9, <1>10
  <2> QED BY <2>1, <2>2
<1> QED BY <1>1, <1>6, <1>10, <1>11 DEF Good, EncodableProgram, H

-----------------------------------------------------------------------------
(* Operands *)

\* A value that statements of a block may use.
UsableOperand(func, b, code, o) ==
  /\ IsOperand(o)
  /\ o[1] = "ssa" => \E j \in 1..Len(code) : OutputOf(b, code[j]) = o

\* The parameters a block sees are parameters.
LEMMA ParamsGood ==
  ASSUME NEW func, GoodFunction(func), NEW b \in 1..Len(func.blocks)
  PROVE  AllParams(ParamsSeen(func, b))
BY DEF GoodFunction, GoodBlock, ParamsSeen

\* A parameter in scope may be an operand.
LEMMA ParamUsable ==
  ASSUME NEW func, GoodFunction(func), NEW b \in 1..Len(func.blocks), NEW k \in DOMAIN ParamsSeen(func, b), NEW code
  PROVE  UsableOperand(func, b, code, ParamsSeen(func, b)[k])
<1> DEFINE ps == ParamsSeen(func, b)
<1>1. AllParams(ps)
  BY ParamsGood
<1> HIDE DEF ps
<1>2. IsParam(ps[k])
  <2>1. k \in 1..Len(ps)
    BY <1>1, SeqIs DEF AllParams, ps
  <2> QED BY <2>1, <1>1 DEF AllParams
<1> QED BY <1>2 DEF UsableOperand, IsOperand, IsParam, ps

\* So may a slot,
LEMMA SlotUsable ==
  ASSUME NEW func, GoodFunction(func), NEW b, NEW k \in DOMAIN func.slots, NEW code
  PROVE  UsableOperand(func, b, code, func.slots[k])
<1>1. k \in 1..Len(func.slots)
  BY SeqIs DEF GoodFunction, AllSlots
<1> QED BY <1>1 DEF UsableOperand, IsOperand, GoodFunction, AllSlots, IsSlot

\* and an output of the block.
LEMMA OutputUsable ==
  ASSUME NEW func, GoodFunction(func), NEW b \in 1..Len(func.blocks),
         NEW k \in 1..Len(func.blocks[b].code), func.blocks[b].code[k].name # NoName
  PROVE  UsableOperand(func, b, func.blocks[b].code, OutputOf(b, func.blocks[b].code[k]))
<1> DEFINE code == func.blocks[b].code
           st == code[k]
           o == OutputOf(b, st)
<1>1. IsStatement(st)
  BY DEF GoodFunction, GoodBlock, Fine
<1>2. st.type \in Types
  BY <1>1 DEF IsStatement
<1>3. o[1] = "ssa" /\ o[4] = st.type
  BY DEF OutputOf
<1> HIDE DEF o, st
<1>4. IsOperand(o)
  BY <1>2, <1>3 DEF IsOperand, IsResult
<1> QED BY <1>4 DEF UsableOperand, o, st

\* What a name is found to be.
LEMMA LookupIs ==
  ASSUME NEW func, GoodFunction(func), NEW b \in 1..Len(func.blocks), NEW name, name # NoName,
         lookup_name(func, b, name) # <<>>
  PROVE  LET v == lookup_name(func, b, name)
             code == func.blocks[b].code
         IN UsableOperand(func, b, code, v) /\ v \in Definitions(func, b, code, Len(code) + 1, name)
<1> DEFINE v == lookup_name(func, b, name)
           code == func.blocks[b].code
           args == ParamsSeen(func, b)
           slots == func.slots
           A == {k \in DOMAIN args : args[k][3] = name}
           S == {k \in DOMAIN slots : slots[k][2] = name}
           O == {k \in DOMAIN code : code[k].name = name}
<1>1. v = IF A # {} THEN args[First(A)] ELSE IF S # {} THEN slots[First(S)]
          ELSE IF O # {} THEN OutputOf(b, code[First(O)]) ELSE <<>>
  BY DEF lookup_name
<1>2. IsSeq(args) /\ IsSeq(slots) /\ IsSeq(code)
  BY ParamsGood DEF GoodFunction, GoodBlock, AllParams, AllSlots
<1>3. /\ DOMAIN args = 1..Len(args) /\ DOMAIN slots = 1..Len(slots) /\ DOMAIN code = 1..Len(code)
      /\ Len(args) \in Nat /\ Len(slots) \in Nat /\ Len(code) \in Nat
  <2> HIDE DEF args, slots, code
  <2> QED BY <1>2, SeqIs
<1>4. A \subseteq Nat /\ S \subseteq Nat /\ O \subseteq Nat
  BY <1>3
<1>5. CASE A # {}
  <2> DEFINE k == First(A)
  <2>1. k \in A
    <3> HIDE DEF A
    <3> QED BY <1>4, <1>5, FirstIs
  <2> HIDE DEF k
  <2>2. k \in DOMAIN args /\ args[k][3] = name /\ v = args[k]
    BY <2>1, <1>1, <1>5 DEF k
  <2>3. UsableOperand(func, b, code, args[k])
    BY <2>2, ParamUsable
  <2>4. args[k] \in ToSet(args)
    BY <2>2 DEF ToSet
  <2> HIDE DEF args, code, v
  <2> QED BY <2>2, <2>3, <2>4 DEF Definitions, args, code, v
<1>6. CASE A = {} /\ S # {}
  <2> DEFINE k == First(S)
  <2>1. k \in S
    <3> HIDE DEF S
    <3> QED BY <1>4, <1>6, FirstIs
  <2> HIDE DEF k
  <2>2. k \in DOMAIN slots /\ slots[k][2] = name /\ v = slots[k]
    BY <2>1, <1>1, <1>6 DEF k
  <2>3. UsableOperand(func, b, code, slots[k])
    BY <2>2, SlotUsable
  <2>4. slots[k] \in ToSet(slots)
    BY <2>2 DEF ToSet
  <2> HIDE DEF args, code, v
  <2> QED BY <2>2, <2>3, <2>4 DEF Definitions, code, v
<1>7. CASE A = {} /\ S = {}
  <2> DEFINE k == First(O)
  <2>1. O # {} /\ v = OutputOf(b, code[k])
    BY <1>1, <1>7
  <2>2. k \in O
    <3> HIDE DEF O
    <3> QED BY <1>4, <2>1, FirstIs
  <2> HIDE DEF k
  <2>3. k \in 1..Len(code) /\ code[k].name = name /\ k \in 1..((Len(code) + 1) - 1)
    BY <2>2, <1>3
  <2>4. UsableOperand(func, b, code, OutputOf(b, code[k]))
    BY <2>3, OutputUsable
  <2> HIDE DEF v, code
  <2>5. v \in Definitions(func, b, code, Len(code) + 1, name)
    BY <2>1, <2>3 DEF Definitions
  <2> QED BY <2>1, <2>4, <2>5 DEF code, v
<1> QED BY <1>5, <1>6, <1>7

\* The current function and a block of it.
LEMMA CurrentIs ==
  ASSUME Good(prog), prog.cur # 0
  PROVE  /\ prog.cur \in 1..Len(prog.funcs) /\ GoodFunction(Current)
         /\ Len(Current.blocks) \in 1..Len(Current.blocks)
         /\ DOMAIN Current.blocks = 1..Len(Current.blocks)
<1>1. Len(prog.funcs) \in Nat /\ prog.cur \in 1..Len(prog.funcs)
  BY SeqIs DEF Good
<1>2. GoodFunction(Current)
  BY <1>1 DEF Good, Current
<1>3. Len(Current.blocks) \in Nat /\ Len(Current.blocks) > 0 /\ DOMAIN Current.blocks = 1..Len(Current.blocks)
  BY <1>2, SeqIs DEF GoodFunction
<1> QED BY <1>1, <1>2, <1>3

\* A statement with operands that may be used.
LEMMA UsableIs ==
  ASSUME NEW func, NEW b, NEW code, NEW name, NEW op, NEW type, NEW args, NEW src, NEW n \in Nat,
         args = [i \in 1..n |-> args[i]], Len(src) = n,
         \A i \in 1..n : UsableOperand(func, b, code, args[i]) /\ args[i] \in MeantBy(func, b, code, Len(code) + 1, src[i])
  PROVE  Usable(func, b, code, [name |-> name, op |-> op, args |-> args, type |-> type, src |-> src])
<1> DEFINE st == [name |-> name, op |-> op, args |-> args, type |-> type, src |-> src]
<1>1. DOMAIN st = {"name", "op", "args", "type", "src"} /\ st.args = args /\ st.src = src
  OBVIOUS
<1>2. IsSeq(args) /\ Len(args) = n
  BY FunctionSeq
<1> HIDE DEF st
<1> QED BY <1>1, <1>2 DEF Usable, UsableOperand, st

\* The operands of a line, read in the current block.
Operands(l) == [k \in DOMAIN l.toks |-> parse_value(l.toks[k], Len(Current.blocks))]

\* The statement that a line becomes.
Parsed(l) == [name |-> l.name, op |-> l.op, args |-> Operands(l), type |-> NoType, src |-> l.toks]

\* When no operand is missing it may stand behind the others.
LEMMA ParsedUsable ==
  ASSUME Good(prog), prog.cur # 0, NEW l \in Lines, l.kind = "stmt", <<>> \notin ToSet(Operands(l))
  PROVE  /\ Usable(Current, Len(Current.blocks), Current.blocks[Len(Current.blocks)].code, Parsed(l))
         /\ l.name # NoName => Operands(l) # <<>>
<1> DEFINE func == Current
           b == Len(func.blocks)
           code == func.blocks[b].code
           args == [k \in DOMAIN l.toks |-> parse_value(l.toks[k], b)]
<1>1. prog.cur \in 1..Len(prog.funcs) /\ GoodFunction(func) /\ b \in 1..Len(func.blocks)
  BY CurrentIs
<1>2. /\ Len(l.toks) \in Nat /\ DOMAIN l.toks = 1..Len(l.toks) /\ l.toks \in Seq(ToSet(l.toks))
      /\ <<>> \notin ToSet(args) /\ args = Operands(l)
  BY LinesAssumption DEF Operands
<1>3. ASSUME NEW i \in 1..Len(l.toks)
      PROVE  UsableOperand(func, b, code, args[i]) /\ args[i] \in MeantBy(func, b, code, Len(code) + 1, l.toks[i])
  <2> DEFINE tok == l.toks[i]
  <2>1. tok \in ToSet(l.toks)
    BY <1>2 DEF ToSet
  <2>2. (tok[1] = "name" /\ tok[2] # NoName) \/ IsPlain(tok)
    BY <2>1, LinesAssumption
  <2>3. args[i] = parse_value(tok, b) /\ args[i] # <<>>
    BY <1>2 DEF ToSet
  <2> HIDE DEF tok, args
  <2>4. CASE tok[1] = "name"
    <3>1. args[i] = lookup_name(func, b, tok[2]) /\ tok[2] # NoName
      BY <2>2, <2>3, <2>4 DEF parse_value, IsPlain
    <3>2. UsableOperand(func, b, code, args[i]) /\ args[i] \in Definitions(func, b, code, Len(code) + 1, tok[2])
      <4> DEFINE v == lookup_name(func, b, tok[2])
      <4>1. v # <<>>
        BY <3>1, <2>3
      <4> HIDE DEF func, b
      <4> QED BY <3>1, <4>1, <1>1, LookupIs
    <3> QED BY <2>4, <3>2 DEF MeantBy, tok
  <2>5. CASE tok[1] # "name"
    <3>1. args[i] = tok /\ IsPlain(tok)
      BY <2>2, <2>3, <2>5 DEF parse_value
    <3>2. UsableOperand(func, b, code, tok)
      BY <3>1 DEF UsableOperand, IsOperand, IsPlain
    <3> QED BY <2>5, <3>1, <3>2 DEF MeantBy, tok
  <2> QED BY <2>4, <2>5
<1>4. args = [i \in 1..Len(l.toks) |-> args[i]]
  BY <1>2
<1>5. l.name # NoName => args # <<>>
  <2>1. l.name # NoName => l.toks # <<>>
    BY LinesAssumption
  <2>2. l.toks # <<>> => Len(l.toks) # 0
    BY <1>2
  <2>3. DOMAIN args = 1..Len(l.toks)
    BY <1>4
  <2> HIDE DEF args
  <2>4. args = <<>> => DOMAIN args = {}
    OBVIOUS
  <2>5. Len(l.toks) # 0 => 1 \in 1..Len(l.toks)
    BY <1>2
  <2> QED BY <2>1, <2>2, <2>3, <2>4, <2>5
<1> HIDE DEF args, code
<1>6. Usable(func, b, code, Parsed(l))
  BY <1>2, <1>3, <1>4, UsableIs DEF Parsed
<1> QED BY <1>2, <1>5, <1>6 DEF code

\* A line that is a statement.
LEMMA ParseKeeps ==
  ASSUME Good(prog), EncodableProgram(prog), prog.cur # 0, NEW l \in Lines, l.kind = "stmt"
  PROVE  Kept(prog, parse_statement(l))
<1> DEFINE b == Len(Current.blocks)
           st == Parsed(l)
           H == block_append_statement(prog, prog.cur, b, st)
<1>1. prog.cur \in 1..Len(prog.funcs) /\ b \in 1..Len(Current.blocks) /\ Current = prog.funcs[prog.cur]
  BY CurrentIs DEF Current
<1>2. parse_statement(l) \in {Fail(prog), H} /\ (<<>> \in ToSet(Operands(l)) => parse_statement(l) = Fail(prog))
  BY DEF parse_statement, Operands, Parsed
<1>3. ASSUME <<>> \notin ToSet(Operands(l)) PROVE Kept(prog, H)
  <2>1. Usable(Current, b, Current.blocks[b].code, st) /\ (l.name # NoName => Operands(l) # <<>>)
    BY <1>3, ParsedUsable
  <2>2. st.name = l.name /\ st.args = Operands(l)
    BY DEF Parsed
  <2> HIDE DEF st
  <2> QED BY <1>1, <2>1, <2>2, AppendKeeps
<1> QED BY <1>2, <1>3, FailKeeps

\* What a caller of the builder can name.
LEMMA ArgumentsUsable ==
  ASSUME Good(prog), prog.cur # 0, NEW b \in DOMAIN Current.blocks, NEW c \in Calls, NEW args \in Arguments(c, b),
         NEW name, NEW op, NEW type
  PROVE  /\ Usable(Current, b, Current.blocks[b].code,
                   [name |-> name, op |-> op, args |-> args, type |-> type, src |-> args])
         /\ args = <<>> => c.op \in {"return", "breakpoint"}
<1> DEFINE func == Current
           code == func.blocks[b].code
           n == Len(c.shape)
<1>1. GoodFunction(func) /\ b \in 1..Len(func.blocks)
  BY CurrentIs
<1>2. n \in Nat /\ DOMAIN c.shape = 1..n /\ (n = 0 => c.op \in {"return", "breakpoint"})
  <2>1. c.shape \in Seq(ToSet(c.shape)) /\ (c.shape = <<>> => c.op \in {"return", "breakpoint"})
    BY CallsAssumption
  <2> QED BY <2>1
<1>3. args = [i \in 1..n |-> args[i]] /\ DOMAIN args = 1..n /\ \A i \in 1..n : args[i] \in InScope(b) \cup Given
  BY <1>2 DEF Arguments
<1>4. IsSeq(args) /\ Len(args) = n
  BY <1>2, <1>3, FunctionSeq
<1>5. IsSeq(code) /\ Len(code) \in Nat /\ DOMAIN code = 1..Len(code)
  <2>1. IsSeq(code)
    BY <1>1 DEF GoodFunction, GoodBlock
  <2> HIDE DEF code
  <2> QED BY <2>1, SeqIs
<1>6. ASSUME NEW o \in InScope(b) \cup Given PROVE UsableOperand(func, b, code, o)
  <2>1. CASE o \in Given
    <3>1. IsPlain(o)
      BY <2>1, GivenAssumption
    <3> QED BY <3>1 DEF UsableOperand, IsOperand, IsPlain
  <2>2. CASE o \in ToSet(ParamsSeen(func, b))
    <3>1. PICK k \in DOMAIN ParamsSeen(func, b) : o = ParamsSeen(func, b)[k]
      BY <2>2 DEF ToSet
    <3> QED BY <3>1, <1>1, ParamUsable
  <2>3. CASE o \in ToSet(func.slots)
    <3>1. PICK k \in DOMAIN func.slots : o = func.slots[k]
      BY <2>3 DEF ToSet
    <3> QED BY <3>1, <1>1, SlotUsable
  <2>4. CASE \E st \in ToSet(code) : st.name # NoName /\ o = OutputOf(b, st)
    <3>1. PICK k \in 1..Len(code) : code[k].name # NoName /\ o = OutputOf(b, code[k])
      BY <2>4, <1>5 DEF ToSet
    <3> QED BY <3>1, <1>1, OutputUsable
  <2>5. \/ o \in Given \/ o \in ToSet(ParamsSeen(func, b)) \/ o \in ToSet(func.slots)
        \/ \E st \in ToSet(code) : st.name # NoName /\ o = OutputOf(b, st)
    BY DEF InScope
  <2> QED BY <2>1, <2>2, <2>3, <2>4, <2>5
<1>7. \A o : IsOperand(o) => o[1] # "name"
  BY DEF IsOperand, IsPlain, IsParam, IsResult
<1>8. ASSUME NEW i \in 1..n
      PROVE  UsableOperand(func, b, code, args[i]) /\ args[i] \in MeantBy(func, b, code, Len(code) + 1, args[i])
  <2>1. UsableOperand(func, b, code, args[i])
    BY <1>3, <1>6
  <2>2. args[i][1] # "name"
    BY <2>1, <1>7 DEF UsableOperand
  <2> QED BY <2>1, <2>2 DEF MeantBy
<1>9. Usable(func, b, code, [name |-> name, op |-> op, args |-> args, type |-> type, src |-> args])
  <2> HIDE DEF func, code, n
  <2> QED BY <1>2, <1>3, <1>4, <1>8, UsableIs
<1>10. args = <<>> => n = 0
  BY <1>4
<1> QED BY <1>2, <1>9, <1>10

\* What is no function matters to nothing here.
LEMMA SameFunctions ==
  ASSUME NEW G, Good(G), NEW H, DOMAIN H = DOMAIN G, H.funcs = G.funcs, H.cur \in {0, G.cur}
  PROVE  Good(H) /\ (EncodableProgram(G) => EncodableProgram(H))
<1>1. Len(G.funcs) \in Nat
  BY SeqIs DEF Good
<1> QED BY <1>1 DEF Good, EncodableProgram

\* A name taken from make_temp_name changes nothing else.
Bumped(G) == [G EXCEPT !.temps = @ + 1]

\* make_temp_name counts, and nothing else.
LEMMA BumpedIs ==
  ASSUME NEW G, Good(G)
  PROVE  /\ Good(Bumped(G)) /\ (EncodableProgram(G) => EncodableProgram(Bumped(G)))
         /\ Bumped(G).funcs = G.funcs /\ Bumped(G).cur = G.cur /\ Bumped(G).failed = G.failed
<1>1. /\ DOMAIN Bumped(G) = DOMAIN G /\ Bumped(G).funcs = G.funcs /\ Bumped(G).cur = G.cur
      /\ Bumped(G).failed = G.failed
  BY DEF Bumped, Good
<1> QED BY <1>1, SameFunctions

\* A statement asked of the builder.
LEMMA BuildKeeps ==
  ASSUME Good(prog), EncodableProgram(prog), prog.cur # 0, NEW b \in DOMAIN Current.blocks, NEW c \in Calls,
         NEW args \in Arguments(c, b)
  PROVE  Kept(prog, build_statement(b, c.op, args))
<1> DEFINE named == c.op \in AutoOutput
           G == IF named THEN Bumped(prog) ELSE prog
           name == IF named THEN TempName(G.temps) ELSE NoName
           st == [name |-> name, op |-> c.op, args |-> args, type |-> NoType, src |-> args]
<1>1. build_statement(b, c.op, args) = block_append_statement(G, G.cur, b, st)
  BY DEF build_statement, Bumped
<1>2. Good(G) /\ EncodableProgram(G) /\ G.funcs = prog.funcs /\ G.cur = prog.cur
  BY BumpedIs
<1>3. name # NoName => c.op \notin {"return", "breakpoint"}
  BY DEF AutoOutput, Arithmetic, IntCasts, FloatCasts, Comparisons, Lookups
<1> HIDE DEF G, name
<1>4. Usable(Current, b, Current.blocks[b].code, st) /\ (args = <<>> => c.op \in {"return", "breakpoint"})
  BY ArgumentsUsable
<1>5. st.name = name /\ st.args = args
  OBVIOUS
<1> HIDE DEF st
<1>6. G.cur \in 1..Len(G.funcs) /\ b \in 1..Len(G.funcs[G.cur].blocks) /\ Current = G.funcs[G.cur]
  BY <1>2, CurrentIs DEF Current
<1>7. Kept(G, block_append_statement(G, G.cur, b, st))
  BY <1>2, <1>3, <1>4, <1>5, <1>6, AppendKeeps
<1> QED BY <1>1, <1>2, <1>7 DEF Kept

\* construct_goto, construct_if and construct_ifelse.
LEMMA JumpKeeps ==
  ASSUME Good(prog), EncodableProgram(prog), prog.cur # 0, NEW b \in DOMAIN Current.blocks, NEW c \in Calls,
         NEW args \in Arguments(c, b), NEW op
  PROVE  Kept(prog, block_append_statement(prog, prog.cur, b,
                      [name |-> NoName, op |-> op, args |-> args, type |-> NoType, src |-> args]))
<1> DEFINE st == [name |-> NoName, op |-> op, args |-> args, type |-> NoType, src |-> args]
<1>1. Usable(Current, b, Current.blocks[b].code, st)
  BY ArgumentsUsable
<1>2. st.name = NoName
  OBVIOUS
<1> HIDE DEF st
<1>3. prog.cur \in 1..Len(prog.funcs) /\ b \in 1..Len(prog.funcs[prog.cur].blocks) /\ Current = prog.funcs[prog.cur]
  BY CurrentIs DEF Current
<1> QED BY <1>1, <1>2, <1>3, AppendKeeps DEF st

-----------------------------------------------------------------------------
(* Steps *)

\* Where the parser stands when it reads a line.
LEMMA ReadingIs ==
  ASSUME NEW l, NEW kind, NEW in, Reading(l, kind, in), IInv
  PROVE  /\ front = "parser" /\ pc = "open" /\ l \in Lines /\ l.kind = kind /\ EncodableProgram(prog) /\ front' = front
         /\ (in = "root" => state = "root") /\ (in # "root" => state # "root" /\ prog.cur # 0)
<1>1. front = "parser" /\ pc = "open" /\ l \in Lines /\ l.kind = kind /\ StateFor(kind) = in /\ front' = front
  BY DEF Reading
<1>2. (in = "root" => state = "root") /\ (in # "root" => state # "root")
  BY <1>1 DEF StateFor, IInv
<1> QED BY <1>1, <1>2 DEF IInv

\* What a step that goes on with H has to show.
LEMMA BecameKeeps ==
  ASSUME NEW H, Good(H), H.failed \/ EncodableProgram(H), Became(H),
         state' \in {"root", "funcargs", "funcslots", "blockargs", "block"},
         (front' = "parser" /\ pc' = "open") => (state' = "root" <=> H.cur = 0)
  PROVE  IInv'
<1>1. prog' = H /\ pc' \in {"open", "crash"} /\ (H.failed => pc' = "crash")
  BY DEF Became
<1>2. Good(prog') /\ (pc' # "crash" => EncodableProgram(prog'))
  BY <1>1
<1> QED BY <1>1, <1>2 DEF IInv

\* A line inside a function keeps the invariant when what it does keeps the program.
LEMMA ReadKeeps ==
  ASSUME IInv, NEW l, NEW kind, NEW in, in # "root", Reading(l, kind, in), NEW H, Kept(prog, H), Became(H),
         state' \in {"funcargs", "funcslots", "blockargs", "block"}
  PROVE  IInv'
<1>1. prog.cur # 0
  BY ReadingIs
<1> QED BY <1>1, BecameKeeps DEF Kept

\* Every line that parse_file reads keeps the invariant.
LEMMA ParserKeeps ==
  ASSUME IInv,
         \/ ReadFunction \/ ReadGlobal \/ ReadArg \/ ReadSlot \/ ReadBlock \/ ReadBlockArg \/ ReadEndfunc
         \/ ReadStatement \/ Misplaced \/ EndOfFile
  PROVE  IInv'
<1>0. Good(prog)
  BY DEF IInv
<1>1. CASE ReadFunction
  <2>1. PICK l \in Lines : Reading(l, "func", "root") /\ Became(create_function(prog, l.name)) /\ state' = "funcargs"
    BY <1>1 DEF ReadFunction
  <2> DEFINE H == create_function(prog, l.name)
  <2>2. EncodableProgram(prog)
    BY <2>1, ReadingIs
  <2>3. Good(H) /\ EncodableProgram(H) /\ H.cur # 0
    BY <1>0, <2>2, FunctionKeeps
  <2> HIDE DEF H
  <2> QED BY <2>1, <2>3, BecameKeeps DEF H
<1>2. CASE ReadGlobal
  <2> DEFINE H(l) == [prog EXCEPT !.globals = Append(@, l.name)]
  <2>1. PICK l \in Lines : Reading(l, "global", "root") /\ Became(H(l)) /\ state' = "root"
    BY <1>2 DEF ReadGlobal
  <2>2. EncodableProgram(prog) /\ state = "root" /\ front = "parser" /\ pc = "open"
    BY <2>1, ReadingIs
  <2>3. DOMAIN H(l) = DOMAIN prog /\ H(l).funcs = prog.funcs /\ H(l).cur = prog.cur
    BY <1>0 DEF Good
  <2> HIDE DEF H
  <2>4. Good(H(l)) /\ EncodableProgram(H(l))
    BY <1>0, <2>2, <2>3, SameFunctions
  <2>5. H(l).cur = 0
    BY <2>2, <2>3 DEF IInv
  <2> QED BY <2>1, <2>4, <2>5, BecameKeeps
<1>3. CASE ReadArg
  <2>1. PICK l \in Lines :
          /\ Reading(l, "arg", "funcargs") /\ Became(add_funcarg(prog, prog.cur, l.name, l.type)) /\ state' = "funcargs"
    BY <1>3 DEF ReadArg
  <2>2. EncodableProgram(prog) /\ prog.cur # 0 /\ l.type \in Types
    BY <2>1, ReadingIs, LinesAssumption
  <2>3. prog.cur \in 1..Len(prog.funcs)
    BY <1>0, <2>2, CurrentIs
  <2>4. Kept(prog, add_funcarg(prog, prog.cur, l.name, l.type))
    BY <1>0, <2>2, <2>3, FuncargKeeps
  <2> QED BY <2>1, <2>4, ReadKeeps
<1>4. CASE ReadSlot
  <2>1. PICK l \in Lines :
          /\ Reading(l, "stack_slot", "funcslots") /\ Became(add_stack_slot(prog, prog.cur, l.name)) /\ state' = "funcslots"
    BY <1>4 DEF ReadSlot
  <2>2. EncodableProgram(prog) /\ prog.cur # 0
    BY <2>1, ReadingIs
  <2>3. prog.cur \in 1..Len(prog.funcs)
    BY <1>0, <2>2, CurrentIs
  <2>4. Kept(prog, add_stack_slot(prog, prog.cur, l.name))
    BY <1>0, <2>2, <2>3, SlotKeeps
  <2> QED BY <2>1, <2>4, ReadKeeps
<1>5. CASE ReadBlock
  <2>1. PICK l \in Lines : Reading(l, "block", "block") /\ Became(create_block(prog, l.name)) /\ state' = "blockargs"
    BY <1>5 DEF ReadBlock
  <2>2. EncodableProgram(prog) /\ prog.cur # 0
    BY <2>1, ReadingIs
  <2>3. Kept(prog, create_block(prog, l.name))
    BY <1>0, <2>2, BlockKeeps
  <2> QED BY <2>1, <2>3, ReadKeeps
<1>6. CASE ReadBlockArg
  <2>1. PICK l \in Lines :
          Reading(l, "arg", "blockargs") /\ Became(add_blockarg(prog, l.name, l.type)) /\ state' = "blockargs"
    BY <1>6 DEF ReadBlockArg
  <2>2. EncodableProgram(prog) /\ prog.cur # 0 /\ l.type \in Types
    BY <2>1, ReadingIs, LinesAssumption
  <2>3. Kept(prog, add_blockarg(prog, l.name, l.type))
    BY <1>0, <2>2, BlockargKeeps
  <2> QED BY <2>1, <2>3, ReadKeeps
<1>7. CASE ReadEndfunc
  <2> DEFINE H == [prog EXCEPT !.cur = 0]
  <2>1. PICK l \in Lines : Reading(l, "endfunc", "block") /\ Became(H) /\ state' = "root"
    BY <1>7 DEF ReadEndfunc
  <2>2. EncodableProgram(prog)
    BY <2>1, ReadingIs
  <2>3. DOMAIN H = DOMAIN prog /\ H.funcs = prog.funcs /\ H.cur = 0
    BY <1>0 DEF Good
  <2> HIDE DEF H
  <2>4. Good(H) /\ EncodableProgram(H)
    BY <1>0, <2>2, <2>3, SameFunctions
  <2> QED BY <2>1, <2>3, <2>4, BecameKeeps
<1>8. CASE ReadStatement
  <2>1. PICK l \in Lines : Reading(l, "stmt", "block") /\ Became(parse_statement(l)) /\ state' = "block"
    BY <1>8 DEF ReadStatement
  <2>2. EncodableProgram(prog) /\ prog.cur # 0 /\ l.kind = "stmt"
    BY <2>1, ReadingIs
  <2>3. Kept(prog, parse_statement(l))
    BY <1>0, <2>2, ParseKeeps
  <2> QED BY <2>1, <2>3, ReadKeeps
<1>9. CASE Misplaced
  <2>1. Became(Fail(prog)) /\ state' = state
    BY <1>9 DEF Misplaced
  <2>2. Good(Fail(prog)) /\ Fail(prog).failed = TRUE
    BY <1>0, FailKeeps DEF Fail, Good, Kept
  <2>3. pc' = "crash"
    BY <2>1, <2>2 DEF Became
  <2> QED BY <2>1, <2>2, <2>3, BecameKeeps DEF IInv
<1>10. CASE EndOfFile
  BY <1>10 DEF EndOfFile, IInv
<1> QED BY <1>1, <1>2, <1>3, <1>4, <1>5, <1>6, <1>7, <1>8, <1>9, <1>10

\* A call of the builder keeps the invariant when what it makes is good.
LEMMA CalledKeeps ==
  ASSUME IInv, Calling, NEW H, Good(H), H.failed \/ EncodableProgram(H), Became(H)
  PROVE  IInv'
<1>1. front' = "builder" /\ state' = state
  BY DEF Calling
<1> QED BY <1>1, BecameKeeps DEF IInv

\* Every call of the builder keeps the invariant.
LEMMA BuilderKeeps ==
  ASSUME IInv,
         \/ BuildFunction \/ BuildBlock \/ BuildArg \/ BuildBlockArg \/ BuildSlot \/ Build \/ build_cmp
         \/ construct_jump \/ Built
  PROVE  IInv'
<1>0. Good(prog) /\ (pc = "open" => EncodableProgram(prog))
  BY DEF IInv
<1>1. CASE BuildFunction
  <2> DEFINE H == create_function(prog, <<"f">>)
  <2>1. Calling /\ Became(H) /\ EncodableProgram(prog)
    BY <1>0, <1>1 DEF BuildFunction, Calling
  <2>2. Good(H) /\ EncodableProgram(H)
    BY <1>0, <2>1, FunctionKeeps
  <2> HIDE DEF H
  <2> QED BY <2>1, <2>2, CalledKeeps
<1>2. CASE BuildBlock
  <2> DEFINE G == create_block(prog, TempName(prog.temps + 1))
  <2>1. Calling /\ prog.cur # 0 /\ Became(Bumped(G)) /\ EncodableProgram(prog)
    BY <1>0, <1>2 DEF BuildBlock, Calling, Bumped
  <2>2. Kept(prog, G)
    BY <1>0, <2>1, BlockKeeps
  <2> HIDE DEF G
  <2>3. Good(Bumped(G)) /\ (Bumped(G).failed \/ EncodableProgram(Bumped(G)))
    BY <2>2, BumpedIs DEF Kept
  <2> QED BY <2>1, <2>3, CalledKeeps
<1>3. CASE BuildArg
  <2> DEFINE H == add_funcarg(prog, prog.cur, ArgName, "i64")
  <2>1. Calling /\ prog.cur # 0 /\ Became(H) /\ EncodableProgram(prog)
    BY <1>0, <1>3 DEF BuildArg, Calling
  <2>2. prog.cur \in 1..Len(prog.funcs) /\ "i64" \in Types
    BY <1>0, <2>1, CurrentIs DEF Types
  <2>3. Kept(prog, H)
    BY <1>0, <2>1, <2>2, FuncargKeeps
  <2> HIDE DEF H
  <2> QED BY <2>1, <2>3, CalledKeeps DEF Kept
<1>4. CASE BuildBlockArg
  <2> DEFINE H == add_blockarg(prog, ArgName, "i64")
  <2>1. Calling /\ prog.cur # 0 /\ Became(H) /\ EncodableProgram(prog)
    BY <1>0, <1>4 DEF BuildBlockArg, Calling
  <2>2. "i64" \in Types
    BY DEF Types
  <2>3. Kept(prog, H)
    BY <1>0, <2>1, <2>2, BlockargKeeps
  <2> HIDE DEF H
  <2> QED BY <2>1, <2>3, CalledKeeps DEF Kept
<1>5. CASE BuildSlot
  <2> DEFINE H == add_stack_slot(prog, prog.cur, SlotName)
  <2>1. Calling /\ prog.cur # 0 /\ Became(H) /\ EncodableProgram(prog)
    BY <1>0, <1>5 DEF BuildSlot, Calling
  <2>2. prog.cur \in 1..Len(prog.funcs)
    BY <1>0, <2>1, CurrentIs
  <2>3. Kept(prog, H)
    BY <1>0, <2>1, <2>2, SlotKeeps
  <2> HIDE DEF H
  <2> QED BY <2>1, <2>3, CalledKeeps DEF Kept
<1>6. CASE Build
  <2>1. Calling /\ prog.cur # 0 /\ EncodableProgram(prog)
    BY <1>0, <1>6 DEF Build, Calling
  <2>2. PICK c \in Calls, b \in DOMAIN Current.blocks : \E args \in Arguments(c, b) : Became(build_statement(b, c.op, args))
    BY <1>6 DEF Build
  <2>3. PICK args \in Arguments(c, b) : Became(build_statement(b, c.op, args))
    BY <2>2
  <2>4. Kept(prog, build_statement(b, c.op, args))
    BY <1>0, <2>1, BuildKeeps
  <2> QED BY <2>1, <2>3, <2>4, CalledKeeps DEF Kept
<1>7. CASE build_cmp
  <2>1. Calling /\ prog.cur # 0 /\ EncodableProgram(prog)
    BY <1>0, <1>7 DEF build_cmp, Calling
  <2>2. PICK c \in Calls, b \in DOMAIN Current.blocks : \E args \in Arguments(c, b) :
          Became(IF TypeOf(args[1]) = TypeOf(args[2]) THEN build_statement(b, c.op, args) ELSE Fail(prog))
    BY <1>7 DEF build_cmp
  <2>3. PICK args \in Arguments(c, b) : Became(build_statement(b, c.op, args)) \/ Became(Fail(prog))
    BY <2>2
  <2>4. Kept(prog, build_statement(b, c.op, args)) /\ Kept(prog, Fail(prog))
    BY <1>0, <2>1, BuildKeeps, FailKeeps
  <2> QED BY <2>1, <2>3, <2>4, CalledKeeps DEF Kept
<1>8. CASE construct_jump
  <2> DEFINE H(c, b, args) == block_append_statement(prog, prog.cur, b,
               [name |-> NoName, op |-> c.op, args |-> args, type |-> NoType, src |-> args])
  <2>1. Calling /\ prog.cur # 0 /\ EncodableProgram(prog)
    BY <1>0, <1>8 DEF construct_jump, Calling
  <2>2. PICK c \in Calls, b \in DOMAIN Current.blocks : \E args \in Arguments(c, b) : Became(H(c, b, args))
    BY <1>8 DEF construct_jump
  <2>3. PICK args \in Arguments(c, b) : Became(H(c, b, args))
    BY <2>2
  <2>4. Kept(prog, H(c, b, args))
    BY <1>0, <2>1, JumpKeeps
  <2> HIDE DEF H
  <2> QED BY <2>1, <2>3, <2>4, CalledKeeps DEF Kept
<1>9. CASE Built
  BY <1>9 DEF Built, IInv
<1> QED BY <1>1, <1>2, <1>3, <1>4, <1>5, <1>6, <1>7, <1>8, <1>9

-----------------------------------------------------------------------------
(* Results *)

\* The empty program is good.
LEMMA Initially == Init => IInv
<1> SUFFICES ASSUME Init PROVE IInv
  OBVIOUS
<1>1. /\ prog = EmptyProgram /\ pc = "open" /\ state = "root"
  BY DEF Init
<1>2. /\ DOMAIN prog = {"funcs", "cur", "globals", "temps", "failed"} /\ prog.funcs = <<>> /\ prog.cur = 0
  BY <1>1 DEF EmptyProgram
<1>3. IsSeq(<<>>) /\ Len(<<>>) = 0
  BY DEF IsSeq
<1>4. Good(prog) /\ EncodableProgram(prog)
  BY <1>2, <1>3 DEF Good, EncodableProgram
<1> QED BY <1>1, <1>2, <1>4 DEF IInv

\* One step of the parser or of the builder keeps the invariant.
LEMMA StepKeeps == IInv /\ [Next]_vars => IInv'
<1> SUFFICES ASSUME IInv, [Next]_vars PROVE IInv'
  OBVIOUS
<1>1. CASE Next
  <2>1. CASE Stop
    BY <2>1 DEF Stop, IInv, vars
  <2> QED BY <1>1, <2>1, ParserKeeps, BuilderKeeps DEF Next
<1>2. CASE UNCHANGED vars
  BY <1>2 DEF vars, IInv
<1> QED BY <1>1, <1>2

\* What has been built is good after any number of lines or calls.
LEMMA Invariant == Spec => []IInv
BY Initially, StepKeeps, PTL DEF Spec

\* The statements of a good program.
LEMMA StatementsGood ==
  ASSUME Good(prog), NEW f \in DOMAIN prog.funcs, NEW b \in DOMAIN prog.funcs[f].blocks, NEW k \in DOMAIN CodeOf(f, b)
  PROVE  /\ f \in 1..Len(prog.funcs) /\ b \in 1..Len(prog.funcs[f].blocks) /\ k \in 1..Len(CodeOf(f, b))
         /\ IsStatement(CodeOf(f, b)[k]) /\ StatementMeant(prog.funcs[f], b, CodeOf(f, b), k)
         /\ StatementComputed(b, CodeOf(f, b), k)
<1>1. f \in 1..Len(prog.funcs) /\ GoodFunction(prog.funcs[f])
  BY SeqIs DEF Good
<1>2. b \in 1..Len(prog.funcs[f].blocks) /\ GoodBlock(prog.funcs[f], b)
  BY <1>1, SeqIs DEF GoodFunction
<1>3. k \in 1..Len(CodeOf(f, b))
  BY <1>2, SeqIs DEF GoodBlock, CodeOf
<1> QED BY <1>1, <1>2, <1>3 DEF GoodBlock, Fine, CodeOf

\* Whatever text is read and whatever is asked of the builder, every operand of every
\* statement is the one that was named or given, seen through the moves that
\* legalize_last_statement_operands puts in.
THEOREM OperandsCorrect == Spec => []OperandsMeant
<1>1. IInv => OperandsMeant
  BY StatementsGood DEF IInv, OperandsMeant
<1> QED BY <1>1, Invariant, PTL

\* Values are computed above their uses, and while no assertion has failed every operand
\* can be encoded where it stands.
THEOREM ProgramCorrect == Spec => []Formed
<1>1. IInv => TypeOK
  <2> SUFFICES ASSUME IInv PROVE TypeOK
    OBVIOUS
  <2>1. \A f \in DOMAIN prog.funcs : \A b \in DOMAIN prog.funcs[f].blocks : \A k \in DOMAIN CodeOf(f, b) :
          IsStatement(CodeOf(f, b)[k])
    BY StatementsGood DEF IInv
  <2> QED BY <2>1 DEF IInv, Good, TypeOK, IsStatement
<1>2. IInv => ComputedAbove
  BY StatementsGood DEF IInv, ComputedAbove
<1>3. IInv => Encodable
  <2> SUFFICES ASSUME IInv, pc # "crash", NEW f \in DOMAIN prog.funcs, NEW b \in DOMAIN prog.funcs[f].blocks,
                      NEW k \in DOMAIN CodeOf(f, b)
               PROVE  StatementEncodable(CodeOf(f, b)[k])
    BY DEF Encodable
  <2>1. f \in 1..Len(prog.funcs) /\ b \in 1..Len(prog.funcs[f].blocks) /\ k \in 1..Len(CodeOf(f, b))
    BY StatementsGood DEF IInv
  <2> QED BY <2>1 DEF IInv, EncodableProgram, EncodableFunction, AllEncodable, CodeOf
<1> QED BY <1>1, <1>2, <1>3, Invariant, PTL DEF Formed

-----------------------------------------------------------------------------
(* The language: what is said of a line depends on the lines up to it *)

\* The first n lines are the same.
SameText(t, u, n) == \A k \in 1..n : u[k] = t[k]

\* The last line of some kinds is above.
LEMMA FromIs ==
  ASSUME NEW t, NEW i \in Nat \ {0}, NEW kinds
  PROVE  From(t, i, kinds) \in 0..(i - 1)
<1> DEFINE js == {j \in 1..(i - 1) : t[j].kind \in kinds}
           below == {i - j : j \in js}
<1>1. CASE js = {}
  BY <1>1 DEF From
<1>2. CASE js # {}
  <2>1. below \subseteq Nat /\ below # {}
    BY <1>2
  <2>2. PICK d \in below : \A e \in below : d <= e
    <3> HIDE DEF below
    <3> QED BY <2>1, LeastIs
  <2>3. PICK j \in js : d = i - j
    OBVIOUS
  <2>4. ASSUME NEW k \in js PROVE k <= j
    <3>1. i - k \in below /\ k \in Nat /\ j \in Nat
      OBVIOUS
    <3> HIDE DEF below, js
    <3> QED BY <2>2, <2>3, <3>1
  <2>5. js \subseteq 1..(i - 1)
    OBVIOUS
  <2> HIDE DEF js
  <2>6. (CHOOSE l \in js : \A k \in js : k <= l) \in js
    BY <2>4
  <2>7. From(t, i, kinds) \in js
    BY <2>6, <1>2 DEF From, js
  <2> HIDE DEF below
  <2>8. 1..(i - 1) \subseteq 0..(i - 1)
    OBVIOUS
  <2> QED BY <2>5, <2>7, <2>8
<1> QED BY <1>1, <1>2

\* It is the line just read, or as before.
LEMMA FromNext ==
  ASSUME NEW t, NEW i \in Nat \ {0}, NEW kinds
  PROVE  From(t, i + 1, kinds) = IF t[i].kind \in kinds THEN i ELSE From(t, i, kinds)
<1> DEFINE js == {j \in 1..(i - 1) : t[j].kind \in kinds}
           ks == {j \in 1..((i + 1) - 1) : t[j].kind \in kinds}
<1>1. CASE t[i].kind \in kinds
  <2>1. i \in ks /\ \A k \in ks : k \in Int /\ k <= i
    BY <1>1
  <2> HIDE DEF ks
  <2>2. \A l \in ks : (\A k \in ks : k <= l) => l = i
    BY <2>1
  <2>3. (CHOOSE l \in ks : \A k \in ks : k <= l) = i
    BY <2>1, <2>2
  <2> QED BY <2>1, <2>3, <1>1 DEF From, ks
<1>2. CASE t[i].kind \notin kinds
  <2>1. js = ks
    BY <1>2
  <2> DEFINE G(S) == IF S = {} THEN 0 ELSE CHOOSE j \in S : \A k \in S : k <= j
  <2>2. From(t, i, kinds) = G(js) /\ From(t, i + 1, kinds) = G(ks)
    BY DEF From
  <2> HIDE DEF js, ks, G
  <2> QED BY <2>1, <2>2, <1>2
<1> QED BY <1>1, <1>2

\* It depends on the lines above only,
LEMMA FromSame ==
  ASSUME NEW t, NEW u, NEW i \in Nat, SameText(t, u, i - 1), NEW kinds
  PROVE  From(u, i, kinds) = From(t, i, kinds)
<1> DEFINE js(x) == {j \in 1..(i - 1) : x[j].kind \in kinds}
<1>1. js(u) = js(t)
  BY DEF SameText
<1> DEFINE G(S) == IF S = {} THEN 0 ELSE CHOOSE j \in S : \A k \in S : k <= j
<1>2. From(t, i, kinds) = G(js(t)) /\ From(u, i, kinds) = G(js(u))
  BY DEF From
<1> HIDE DEF js, G
<1> QED BY <1>1, <1>2

\* and so do the scopes.
LEMMA ScopeSame ==
  ASSUME NEW t, NEW u, NEW i \in Nat \ {0}, SameText(t, u, i - 1)
  PROVE  /\ FuncLine(u, i) = FuncLine(t, i) /\ BlockLine(u, i) = BlockLine(t, i)
         /\ Inside(u, i) = Inside(t, i)
         /\ \A j \in Nat : \A kind : Between(u, j, i, kind) = Between(t, j, i, kind)
         /\ Slots(u, i) = Slots(t, i) /\ InUse(u, i) = InUse(t, i)
         /\ \A name : Meaning(u, i, name) = Meaning(t, i, name)
<1>1. FuncLine(u, i) = FuncLine(t, i) /\ BlockLine(u, i) = BlockLine(t, i)
  BY FromSame DEF FuncLine, BlockLine
<1>2. Inside(u, i) = Inside(t, i)
  <2> DEFINE j == From(t, i, {"func", "endfunc"})
  <2>1. From(u, i, {"func", "endfunc"}) = j
    BY FromSame
  <2>2. j \in 0..(i - 1)
    BY FromIs
  <2> HIDE DEF j
  <2>3. j # 0 => u[j] = t[j]
    BY <2>2 DEF SameText
  <2> QED BY <2>1, <2>3 DEF Inside, j
<1>3. \A j \in Nat : \A kind : Between(u, j, i, kind) = Between(t, j, i, kind)
  BY DEF Between, SameText
<1>4. FuncLine(t, i) \in Nat /\ BlockLine(t, i) \in Nat
  BY FromIs DEF FuncLine, BlockLine
<1>5. Slots(u, i) = Slots(t, i) /\ InUse(u, i) = InUse(t, i)
  BY <1>1, <1>3, <1>4 DEF Slots, InUse
<1>6. ASSUME NEW name PROVE Meaning(u, i, name) = Meaning(t, i, name)
  <2> DEFINE M(x, j0, kind) == {j \in (j0 + 1)..(i - 1) : x[j].kind = kind /\ x[j].name = name}
  <2>1. \A j0 \in Nat : \A kind : M(u, j0, kind) = M(t, j0, kind)
    BY DEF SameText
  <2> DEFINE N(A, S, O) == IF A # {} THEN A ELSE IF S # {} THEN S ELSE O
             B == BlockLine(t, i)
             F == FuncLine(t, i)
  <2>2. Meaning(t, i, name) = N(M(t, B, "arg"), M(t, F, "stack_slot"), M(t, B, "stmt"))
    BY DEF Meaning
  <2>3. Meaning(u, i, name) = N(M(u, B, "arg"), M(u, F, "stack_slot"), M(u, B, "stmt"))
    BY <1>1 DEF Meaning
  <2> HIDE DEF M, N
  <2>4. \A kind : M(u, B, kind) = M(t, B, kind) /\ M(u, F, kind) = M(t, F, kind)
    BY <2>1, <1>4
  <2> HIDE DEF B, F
  <2> QED BY <2>2, <2>3, <2>4
<1> QED BY <1>1, <1>2, <1>3, <1>5, <1>6

\* What a name stands for is defined above.
LEMMA MeaningAbove ==
  ASSUME NEW t, NEW i \in Nat \ {0}, NEW name
  PROVE  Meaning(t, i, name) \subseteq 1..(i - 1)
<1>1. FuncLine(t, i) \in Nat /\ BlockLine(t, i) \in Nat
  BY FromIs DEF FuncLine, BlockLine
<1> QED BY <1>1 DEF Meaning

\* One line more.
LEMMA BetweenNext ==
  ASSUME NEW t, NEW i \in Nat \ {0}, NEW kind
  PROVE  /\ \A j \in 0..(i - 1) : Between(t, j, i + 1, kind)
                = Between(t, j, i, kind) \cup (IF t[i].kind = kind THEN {t[i].name} \ {NoName} ELSE {})
         /\ Between(t, i, i + 1, kind) = {}
<1>1. ASSUME NEW j \in 0..(i - 1)
      PROVE  Between(t, j, i + 1, kind)
                = Between(t, j, i, kind) \cup (IF t[i].kind = kind THEN {t[i].name} \ {NoName} ELSE {})
  <2>1. \A k : k \in (j + 1)..((i + 1) - 1) <=> (k \in (j + 1)..(i - 1) \/ k = i)
    OBVIOUS
  <2> QED BY <2>1 DEF Between
<1>2. (i + 1)..((i + 1) - 1) = {}
  OBVIOUS
<1> QED BY <1>1, <1>2 DEF Between

\* The same of the function the line is in.
LEMMA InsideNext ==
  ASSUME NEW t, NEW i \in Nat \ {0}
  PROVE  Inside(t, i + 1) <=> IF t[i].kind \in {"func", "endfunc"} THEN t[i].kind = "func" ELSE Inside(t, i)
<1>1. From(t, i + 1, {"func", "endfunc"}) = IF t[i].kind \in {"func", "endfunc"} THEN i ELSE From(t, i, {"func", "endfunc"})
  BY FromNext
<1> QED BY <1>1 DEF Inside

-----------------------------------------------------------------------------
(* Addresses *)

\* What is an address at a line is known from the lines up to it.
LEMMA DefinesSame ==
  ASSUME NEW t, NEW u, NEW i \in Nat \ {0}, SameText(t, u, i), NEW a, NEW c, \A j \in 1..(i - 1) : c[j] = a[j]
  PROVE  DefinesAddress(u, c, i) = DefinesAddress(t, a, i)
<1>1. u[i] = t[i] /\ SameText(t, u, i - 1)
  BY DEF SameText
<1>2. ASSUME NEW tok PROVE IsAddress(u, c, i, tok) = IsAddress(t, a, i, tok)
  <2> DEFINE M == Meaning(t, i, tok[2])
  <2>1. Meaning(u, i, tok[2]) = M
    BY <1>1, ScopeSame
  <2>2. \A j \in M : c[j] = a[j]
    BY MeaningAbove
  <2> HIDE DEF M
  <2>3. (\E j \in M : c[j]) = (\E j \in M : a[j])
    BY <2>2, Zenon
  <2> QED BY <2>1, <2>3 DEF IsAddress, M
<1> QED BY <1>1, <1>2 DEF DefinesAddress

\* a says which of the first n lines define an address.
Solves(t, a, n) == a = [i \in 1..n |-> DefinesAddress(t, a, i)]

\* Such an a exists.
LEMMA AddressesExist ==
  ASSUME NEW t, NEW n \in Nat
  PROVE  \E a : Solves(t, a, n)
<1> DEFINE Bad == {m \in 0..n : ~\E a : Solves(t, a, m)}
<1>1. ASSUME Bad # {} PROVE FALSE
  <2>1. Bad \subseteq Nat
    OBVIOUS
  <2>2. PICK m \in Bad : \A y \in Bad : m <= y
    <3> HIDE DEF Bad
    <3> QED BY <1>1, <2>1, LeastIs
  <2>3. m \in 0..n /\ ~\E a : Solves(t, a, m)
    OBVIOUS
  <2>4. m # 0
    <3> DEFINE a == [i \in 1..0 |-> TRUE]
    <3>1. a = [i \in 1..0 |-> DefinesAddress(t, a, i)]
      OBVIOUS
    <3> HIDE DEF a
    <3>2. Solves(t, a, 0)
      BY <3>1 DEF Solves
    <3> QED BY <3>2, <2>3
  <2>5. m - 1 \in 0..n /\ m - 1 \notin Bad
    BY <2>2, <2>3, <2>4
  <2>6. PICK h : Solves(t, h, m - 1)
    BY <2>5
  <2> DEFINE D(x, i) == DefinesAddress(t, x, i)
             a == [i \in 1..m |-> IF i = m THEN D(h, m) ELSE h[i]]
  <2>7. \A i \in 1..(m - 1) : h[i] = D(h, i)
    BY <2>6 DEF Solves
  <2>8. SameText(t, t, m)
    BY DEF SameText
  <2>9. ASSUME NEW i \in 1..m PROVE a[i] = D(a, i)
    <3> HIDE DEF D
    <3>1. \A j \in 1..(i - 1) : a[j] = h[j]
      BY <2>3, <2>4
    <3>2. a[i] = IF i = m THEN D(h, m) ELSE h[i]
      OBVIOUS
    <3> HIDE DEF a
    <3>3. i \in Nat \ {0} /\ SameText(t, t, i)
      BY <2>3 DEF SameText
    <3>4. D(a, i) = D(h, i)
      BY <3>1, <3>3, DefinesSame DEF D
    <3>5. i # m => i \in 1..(m - 1)
      BY <2>3
    <3> QED BY <3>2, <3>4, <3>5, <2>7
  <2>10. Solves(t, a, m)
    <3> HIDE DEF D
    <3>1. DOMAIN a = 1..m /\ a = [i \in 1..m |-> a[i]]
      OBVIOUS
    <3> HIDE DEF a
    <3>2. a = [i \in 1..m |-> D(a, i)]
      BY <2>9, <3>1
    <3> QED BY <3>2 DEF Solves, D
  <2> QED BY <2>3, <2>10
<1>2. n \in 0..n /\ n \notin Bad
  BY <1>1
<1> QED BY <1>2

\* The recursion of Addresses has a solution.
LEMMA AddressesAre ==
  ASSUME NEW t, IsSeq(t), NEW i \in 1..Len(t)
  PROVE  Addresses(t)[i] = DefinesAddress(t, Addresses(t), i)
<1> DEFINE n == Len(t)
           A == Addresses(t)
<1>1. n \in Nat /\ DOMAIN t = 1..n
  BY SeqIs
<1>2. A = CHOOSE a : a = [j \in 1..n |-> DefinesAddress(t, a, j)]
  BY <1>1 DEF Addresses
<1>3. PICK a : Solves(t, a, n)
  BY <1>1, AddressesExist
<1> HIDE DEF A
<1>4. A = [j \in 1..n |-> DefinesAddress(t, A, j)]
  BY <1>2, <1>3 DEF Solves
<1>5. \A j \in 1..n : A[j] = DefinesAddress(t, A, j)
  BY <1>4
<1> QED BY <1>5 DEF A

\* It is the same for two texts as far as they are the same: there is no first line where
\* they differ.
LEMMA AddressesSame ==
  ASSUME NEW t, NEW u, IsSeq(t), IsSeq(u), NEW n \in Nat, n <= Len(t), n <= Len(u), SameText(t, u, n)
  PROVE  \A i \in 1..n : Addresses(u)[i] = Addresses(t)[i]
<1> DEFINE a == Addresses(t)
           c == Addresses(u)
           Bad == {i \in 1..n : c[i] # a[i]}
<1> HIDE DEF a, c
<1>1. ASSUME Bad # {} PROVE FALSE
  <2>1. Bad \subseteq Nat
    OBVIOUS
  <2>2. PICK m \in Bad : \A y \in Bad : m <= y
    <3> HIDE DEF Bad
    <3> QED BY <1>1, <2>1, LeastIs
  <2>3. m \in 1..n /\ c[m] # a[m]
    OBVIOUS
  <2>4. \A j \in 1..(m - 1) : c[j] = a[j]
    BY <2>2, <2>3
  <2>5. Len(t) \in Nat /\ Len(u) \in Nat
    BY SeqIs
  <2>6. m \in Nat \ {0} /\ m \in 1..Len(t) /\ m \in 1..Len(u) /\ SameText(t, u, m)
    BY <2>3, <2>5 DEF SameText
  <2>7. a[m] = DefinesAddress(t, a, m) /\ c[m] = DefinesAddress(u, c, m)
    BY <2>6, AddressesAre DEF a, c
  <2>8. DefinesAddress(u, c, m) = DefinesAddress(t, a, m)
    BY <2>4, <2>6, DefinesSame
  <2> QED BY <2>3, <2>7, <2>8
<1> QED BY <1>1 DEF a, c

\* Whether a line is fine depends on the lines up to it only.
LEMMA LineSame ==
  ASSUME NEW t, NEW u, IsSeq(t), IsSeq(u), NEW i \in 1..Len(t), i <= Len(u), SameText(t, u, i)
  PROVE  LineFine(u, i) <=> LineFine(t, i)
<1>1. Len(t) \in Nat /\ Len(u) \in Nat /\ i \in Nat \ {0}
  BY SeqIs
<1>2. u[i] = t[i] /\ SameText(t, u, i - 1) /\ (i > 1 => u[i - 1] = t[i - 1])
  BY <1>1 DEF SameText
<1>3. /\ FuncLine(u, i) = FuncLine(t, i) /\ BlockLine(u, i) = BlockLine(t, i)
      /\ Inside(u, i) = Inside(t, i)
      /\ \A j \in Nat : \A kind : Between(u, j, i, kind) = Between(t, j, i, kind)
      /\ Slots(u, i) = Slots(t, i) /\ InUse(u, i) = InUse(t, i)
      /\ \A name : Meaning(u, i, name) = Meaning(t, i, name)
  BY ZenonT(60), <1>1, <1>2, ScopeSame
<1>4. \A tok : IsAddress(u, Addresses(u), i, tok) = IsAddress(t, Addresses(t), i, tok)
  <2>1. \A j \in 1..i : Addresses(u)[j] = Addresses(t)[j]
    BY <1>1, AddressesSame
  <2>2. \A name : Meaning(t, i, name) \subseteq 1..i
    <3>1. \A name : Meaning(t, i, name) \subseteq 1..(i - 1)
      BY <1>1, MeaningAbove
    <3> QED BY <3>1, <1>1
  <2> SUFFICES ASSUME NEW tok PROVE IsAddress(u, Addresses(u), i, tok) = IsAddress(t, Addresses(t), i, tok)
    OBVIOUS
  <2> DEFINE M == Meaning(t, i, tok[2])
             a == Addresses(t)
             c == Addresses(u)
  <2>3. Meaning(u, i, tok[2]) = M /\ \A j \in M : c[j] = a[j]
    BY <2>1, <2>2, <1>3
  <2> HIDE DEF M, a, c
  <2>4. (\E j \in M : c[j]) = (\E j \in M : a[j])
    BY <2>3, Zenon
  <2> QED BY <2>3, <2>4 DEF IsAddress, M, a, c
<1>5. FuncLine(t, i) \in Nat
  BY <1>1, FromIs DEF FuncLine
<1>6. StatementFine(u, i) <=> StatementFine(t, i)
  BY <1>2, <1>3, <1>4, <1>5 DEF StatementFine
<1>7. ArgFine(u, i) <=> ArgFine(t, i)
  BY <1>1, <1>2, <1>3 DEF ArgFine
<1>8. SlotFine(u, i) <=> SlotFine(t, i)
  <2>1. Inside(t, i) => i > 1
    <3>1. From(t, i, {"func", "endfunc"}) \in 0..(i - 1)
      BY <1>1, FromIs
    <3> QED BY <3>1, <1>1 DEF Inside
  <2> QED BY <2>1, <1>2, <1>3 DEF SlotFine
<1> QED BY <1>2, <1>3, <1>6, <1>7, <1>8 DEF LineFine
-----------------------------------------------------------------------------
(* What the parser has of the text *)

\* A name that make_temp_name does not make.
Textual(name) == \A n : name # TempName(n)

\* The parameters, slots and outputs that statements see after n lines, B the line of the
\* block and F that of the function.
ParamsAre(t, B, n, ps) ==
  /\ Names(ps) = Between(t, B, n + 1, "arg")
  /\ \A k \in 1..Len(ps) : \A j \in (B + 1)..n :
       t[j].kind = "arg" /\ t[j].name = ps[k][3] => (ps[k][4] = "iptr" <=> Addresses(t)[j])
SlotsAre(t, F, n, slots) == SlotNames(slots) = Between(t, F, n + 1, "stack_slot")
OutputsAre(t, B, n, code) ==
  /\ \A name : Textual(name) => (name \in OutputNames(code) <=> name \in Between(t, B, n + 1, "stmt"))
  /\ \A k \in 1..Len(code) : \A j \in (B + 1)..n :
       t[j].kind = "stmt" /\ t[j].name = code[k].name /\ t[j].name # NoName
         => (code[k].type = "iptr" <=> Addresses(t)[j])

\* u is t with one line more.
Extends(t, u, l) ==
  IsSeq(t) /\ IsSeq(u) /\ Len(u) = Len(t) + 1 /\ SameText(t, u, Len(t)) /\ u[Len(t) + 1] = l

\* What the line that has been read changes.
LEMMA ExtendsIs ==
  ASSUME NEW t, NEW u, NEW l, Extends(t, u, l)
  PROVE  /\ Len(t) \in Nat
         /\ \A j \in 1..Len(t) : u[j] = t[j] /\ Addresses(u)[j] = Addresses(t)[j]
         /\ Addresses(u)[Len(u)] = DefinesAddress(u, Addresses(u), Len(u))
<1> DEFINE n == Len(t)
           i == n + 1
<1>1. n \in Nat /\ Len(u) = i /\ SameText(t, u, n) /\ i \in 1..Len(u)
  BY SeqIs DEF Extends
<1>2. \A j \in 1..n : u[j] = t[j] /\ Addresses(u)[j] = Addresses(t)[j]
  <2>1. n <= Len(t) /\ n <= Len(u) /\ IsSeq(t) /\ IsSeq(u)
    BY <1>1 DEF Extends
  <2>2. \A j \in 1..n : Addresses(u)[j] = Addresses(t)[j]
    BY <1>1, <2>1, AddressesSame
  <2> QED BY <1>1, <2>2 DEF SameText
<1>3. Addresses(u)[i] = DefinesAddress(u, Addresses(u), i)
  BY <1>1, AddressesAre DEF Extends
<1> QED BY <1>1, <1>2, <1>3

\* The names of lines of a kind, after it.
AddsNames(t, u, l, kind) ==
  /\ Between(u, Len(u), Len(u) + 1, kind) = {}
  /\ \A j \in 0..Len(t) : Between(u, j, Len(u) + 1, kind)
        = IF l.kind = kind THEN Between(t, j, Len(t) + 1, kind) \cup ({l.name} \ {NoName})
          ELSE Between(t, j, Len(t) + 1, kind)

\* The line may add its name.
LEMMA NamesMore ==
  ASSUME NEW t, NEW u, NEW l, Extends(t, u, l), NEW kind
  PROVE  AddsNames(t, u, l, kind)
<1> DEFINE n == Len(t)
           i == n + 1
<1>1. n \in Nat /\ i \in Nat \ {0} /\ i - 1 = n /\ Len(u) = i /\ SameText(t, u, i - 1) /\ u[i] = l
  BY SeqIs DEF Extends
<1> HIDE DEF n, i
<1>2. /\ \A j \in 0..(i - 1) : Between(u, j, i + 1, kind)
            = Between(u, j, i, kind) \cup (IF u[i].kind = kind THEN {u[i].name} \ {NoName} ELSE {})
      /\ Between(u, i, i + 1, kind) = {}
  BY <1>1, BetweenNext
<1>3. ASSUME NEW j \in 0..n
      PROVE  Between(u, j, i + 1, kind)
                = IF l.kind = kind THEN Between(t, j, i, kind) \cup ({l.name} \ {NoName}) ELSE Between(t, j, i, kind)
  <2>1. j \in Nat /\ j \in 0..(i - 1)
    BY <1>1
  <2>2. Between(u, j, i, kind) = Between(t, j, i, kind)
    <3>1. \A jj \in Nat : \A k : Between(u, jj, i, k) = Between(t, jj, i, k)
      <4>1. i \in Nat \ {0} /\ SameText(t, u, i - 1)
        BY <1>1
      <4> QED BY <4>1 DEF Between, SameText
    <3> QED BY Zenon, <2>1, <3>1
  <2>3. Between(u, j, i + 1, kind) = Between(u, j, i, kind) \cup (IF l.kind = kind THEN {l.name} \ {NoName} ELSE {})
    BY <1>1, <1>2, <2>1
  <2> QED BY <2>2, <2>3
<1> QED BY <1>1, <1>2, <1>3 DEF i, n, AddsNames

\* A block without parameters, a function without slots, a block without statements.
LEMMA NothingYet ==
  ASSUME NEW t, NEW u, NEW l, Extends(t, u, l)
  PROVE  ParamsAre(u, Len(u), Len(u), <<>>) /\ SlotsAre(u, Len(u), Len(u), <<>>) /\ OutputsAre(u, Len(u), Len(u), <<>>)
<1>1. \A kind : Between(u, Len(u), Len(u) + 1, kind) = {}
  BY NamesMore DEF AddsNames
<1>2. Names(<<>>) = {} /\ SlotNames(<<>>) = {} /\ OutputNames(<<>>) = {}
  BY DEF Names, SlotNames, OutputNames
<1>3. Len(<<>>) = 0 /\ 1..0 = {}
  OBVIOUS
<1> QED BY <1>1, <1>2, <1>3 DEF ParamsAre, SlotsAre, OutputsAre

\* The parameters after another line,
LEMMA ParamsStay ==
  ASSUME NEW t, NEW u, NEW l, Extends(t, u, l), NEW B \in 0..Len(t), NEW ps, ParamsAre(t, B, Len(t), ps), l.kind # "arg"
  PROVE  ParamsAre(u, B, Len(u), ps)
<1>1. Names(ps) = Between(u, B, Len(u) + 1, "arg")
  <2>1. AddsNames(t, u, l, "arg")
    BY NamesMore
  <2> QED BY <2>1 DEF AddsNames, ParamsAre
<1>2. Len(t) \in Nat /\ Len(u) = Len(t) + 1 /\ u[Len(u)] = l
  BY ExtendsIs DEF Extends
<1>3. ASSUME NEW k \in 1..Len(ps), NEW j \in (B + 1)..Len(u), u[j].kind = "arg", u[j].name = ps[k][3]
      PROVE  ps[k][4] = "iptr" <=> Addresses(u)[j]
  <2>1. j \in (B + 1)..Len(t) /\ j \in 1..Len(t)
    BY <1>2, <1>3
  <2>2. u[j] = t[j] /\ Addresses(u)[j] = Addresses(t)[j]
    BY <2>1, ExtendsIs
  <2> QED BY <1>3, <2>1, <2>2 DEF ParamsAre
<1> QED BY <1>1, <1>3 DEF ParamsAre

\* after a parameter,
LEMMA ParamsMore ==
  ASSUME NEW t, NEW u, NEW l, Extends(t, u, l), NEW B \in 0..Len(t), NEW ps, IsSeq(ps), ParamsAre(t, B, Len(t), ps),
         l.kind = "arg", l.name # NoName, l.name \notin Names(ps), NEW b
  PROVE  ParamsAre(u, B, Len(u), Append(ps, <<"arg", b, l.name, l.type>>))
<1> DEFINE v == <<"arg", b, l.name, l.type>>
           qs == Append(ps, v)
           m == Len(ps)
<1>1. Len(t) \in Nat /\ Len(u) = Len(t) + 1 /\ u[Len(u)] = l /\ B \in Nat
  BY ExtendsIs DEF Extends
<1>2. /\ m \in Nat /\ DOMAIN ps = 1..m
      /\ IsSeq(qs) /\ Len(qs) = m + 1 /\ (\A k \in 1..m : qs[k] = ps[k]) /\ qs[m + 1] = v
  BY SeqIs, AppendIs
<1>3. v[3] = l.name /\ v[4] = l.type
  OBVIOUS
<1> HIDE DEF v, qs, m
<1>4. DOMAIN qs = 1..(m + 1)
  BY <1>2, SeqIs
<1>5. Names(qs) = Names(ps) \cup {l.name}
  <2>1. \A k \in 1..(m + 1) : k \in 1..m \/ k = m + 1
    BY <1>2
  <2>2. 1..m \subseteq 1..(m + 1) /\ m + 1 \in 1..(m + 1)
    BY <1>2
  <2> QED BY <1>2, <1>3, <1>4, <2>1, <2>2 DEF Names
<1>6. Names(qs) = Between(u, B, Len(u) + 1, "arg")
  <2>1. Between(u, B, Len(u) + 1, "arg") = Between(t, B, Len(t) + 1, "arg") \cup ({l.name} \ {NoName})
    <3>1. AddsNames(t, u, l, "arg")
      BY NamesMore
    <3> QED BY <3>1 DEF AddsNames
  <2> QED BY <1>5, <2>1 DEF ParamsAre
<1>7. ASSUME NEW k \in 1..Len(qs), NEW j \in (B + 1)..Len(u), u[j].kind = "arg", u[j].name = qs[k][3]
      PROVE  qs[k][4] = "iptr" <=> Addresses(u)[j]
  <2>1. j = Len(u) \/ (j \in (B + 1)..Len(t) /\ j \in 1..Len(t))
    BY <1>1
  <2>2. k \in 1..m \/ k = m + 1
    BY <1>2
  <2>3. CASE j = Len(u) /\ k \in 1..m
    <3>1. ps[k][3] = l.name
      BY <1>1, <1>2, <1>7, <2>3
    <3>2. l.name \in Names(ps)
      BY <1>2, <2>3, <3>1 DEF Names
    <3> QED BY <3>2
  <2>4. CASE j = Len(u) /\ k = m + 1
    <3>1. Addresses(u)[j] = DefinesAddress(u, Addresses(u), j)
      BY <2>4, ExtendsIs
    <3>2. DefinesAddress(u, Addresses(u), j) <=> l.type = "iptr"
      BY <1>1, <2>4 DEF DefinesAddress
    <3> QED BY <2>4, <3>1, <3>2, <1>2, <1>3
  <2>5. CASE j \in (B + 1)..Len(t) /\ j \in 1..Len(t)
    <3>1. u[j] = t[j] /\ Addresses(u)[j] = Addresses(t)[j]
      BY <2>5, ExtendsIs
    <3>2. CASE k \in 1..m
      <4>1. qs[k] = ps[k] /\ k \in 1..Len(ps)
        BY <1>2, <3>2 DEF m
      <4>2. t[j].kind = "arg" /\ t[j].name = ps[k][3]
        BY <1>7, <3>1, <4>1
      <4>3. ps[k][4] = "iptr" <=> Addresses(t)[j]
        BY <2>5, <4>1, <4>2 DEF ParamsAre
      <4> QED BY <3>1, <4>1, <4>3
    <3>3. CASE k = m + 1
      <4>1. t[j].name = l.name /\ t[j].kind = "arg"
        BY <1>2, <1>3, <1>7, <3>1, <3>3
      <4>2. (Len(t) + 1) - 1 = Len(t)
        BY <1>1
      <4>3. l.name \in Between(t, B, Len(t) + 1, "arg")
        BY <4>1, <4>2, <2>5 DEF Between
      <4> QED BY <4>3 DEF ParamsAre
    <3> QED BY <2>2, <3>2, <3>3
  <2> QED BY <2>1, <2>2, <2>3, <2>4, <2>5
<1> QED BY <1>6, <1>7 DEF ParamsAre, qs, v

\* the slots after another line,
LEMMA SlotsStay ==
  ASSUME NEW t, NEW u, NEW l, Extends(t, u, l), NEW F \in 0..Len(t), NEW slots, SlotsAre(t, F, Len(t), slots),
         l.kind # "stack_slot"
  PROVE  SlotsAre(u, F, Len(u), slots)
<1>1. AddsNames(t, u, l, "stack_slot")
  BY NamesMore
<1> QED BY <1>1 DEF AddsNames, SlotsAre

\* after a slot,
LEMMA SlotsMore ==
  ASSUME NEW t, NEW u, NEW l, Extends(t, u, l), NEW F \in 0..Len(t), NEW slots, IsSeq(slots), SlotsAre(t, F, Len(t), slots),
         l.kind = "stack_slot", l.name # NoName
  PROVE  SlotsAre(u, F, Len(u), Append(slots, <<"slot", l.name>>))
<1> DEFINE v == <<"slot", l.name>>
           qs == Append(slots, v)
           m == Len(slots)
<1>1. /\ m \in Nat /\ DOMAIN slots = 1..m
      /\ IsSeq(qs) /\ Len(qs) = m + 1 /\ (\A k \in 1..m : qs[k] = slots[k]) /\ qs[m + 1] = v
  BY SeqIs, AppendIs
<1>2. v[2] = l.name
  OBVIOUS
<1> HIDE DEF v, qs, m
<1>3. DOMAIN qs = 1..(m + 1)
  BY <1>1, SeqIs
<1>4. SlotNames(qs) = SlotNames(slots) \cup {l.name}
  <2>1. \A k \in 1..(m + 1) : k \in 1..m \/ k = m + 1
    BY <1>1
  <2>2. 1..m \subseteq 1..(m + 1) /\ m + 1 \in 1..(m + 1)
    BY <1>1
  <2> QED BY <1>1, <1>2, <1>3, <2>1, <2>2 DEF SlotNames
<1>5. Between(u, F, Len(u) + 1, "stack_slot") = Between(t, F, Len(t) + 1, "stack_slot") \cup ({l.name} \ {NoName})
  <2>1. AddsNames(t, u, l, "stack_slot")
    BY NamesMore
  <2> QED BY <2>1 DEF AddsNames
<1> QED BY <1>4, <1>5 DEF SlotsAre, qs, v

\* the outputs after another line,
LEMMA OutputsStay ==
  ASSUME NEW t, NEW u, NEW l, Extends(t, u, l), NEW B \in 0..Len(t), NEW code, OutputsAre(t, B, Len(t), code), l.kind # "stmt"
  PROVE  OutputsAre(u, B, Len(u), code)
<1>1. Between(u, B, Len(u) + 1, "stmt") = Between(t, B, Len(t) + 1, "stmt")
  <2>1. AddsNames(t, u, l, "stmt")
    BY NamesMore
  <2> QED BY <2>1 DEF AddsNames
<1>2. Len(t) \in Nat /\ Len(u) = Len(t) + 1 /\ u[Len(u)] = l
  BY ExtendsIs DEF Extends
<1>3. ASSUME NEW k \in 1..Len(code), NEW j \in (B + 1)..Len(u), u[j].kind = "stmt", u[j].name = code[k].name,
             u[j].name # NoName
      PROVE  code[k].type = "iptr" <=> Addresses(u)[j]
  <2>1. j \in (B + 1)..Len(t) /\ j \in 1..Len(t)
    BY <1>2, <1>3
  <2>2. u[j] = t[j] /\ Addresses(u)[j] = Addresses(t)[j]
    BY <2>1, ExtendsIs
  <2> QED BY <1>3, <2>1, <2>2 DEF OutputsAre
<1> QED BY <1>1, <1>3 DEF OutputsAre

\* after a statement.
LEMMA OutputsMore ==
  ASSUME NEW t, NEW u, NEW l, Extends(t, u, l), NEW B \in 0..Len(t), NEW code, IsSeq(code), OutputsAre(t, B, Len(t), code),
         l.kind = "stmt", Textual(l.name), l.name # NoName => l.name \notin OutputNames(code),
         \A j \in 1..Len(t) : Textual(t[j].name),
         NEW st, NEW c, IsSeq(c), Behind(code, st, c), st.name = l.name,
         l.name # NoName => (st.type = "iptr" <=> DefinesAddress(u, Addresses(u), Len(u)))
  PROVE  OutputsAre(u, B, Len(u), c)
<1> DEFINE m == Len(code)
           z == Len(c)
<1>1. Len(t) \in Nat /\ Len(u) = Len(t) + 1 /\ u[Len(u)] = l /\ B \in Nat
  BY ExtendsIs DEF Extends
<1>2. m \in Nat /\ z \in Nat /\ z > m /\ DOMAIN code = 1..m /\ DOMAIN c = 1..z
  BY SeqIs DEF Behind
<1>3. /\ \A k \in 1..m : c[k] = code[k]
      /\ \A k \in (m + 1)..(z - 1) : MadeUp(c[k])
      /\ c[z].name = l.name /\ c[z].type = st.type
  BY DEF Behind, SamePrefix, MadeUpFrom
<1> HIDE DEF m, z
<1>4. \A k \in 1..z : k \in 1..m \/ k \in (m + 1)..(z - 1) \/ k = z
  BY <1>2
<1>5. ASSUME NEW name, Textual(name)
      PROVE  name \in OutputNames(c) <=> name \in Between(u, B, Len(u) + 1, "stmt")
  <2>1. name \in OutputNames(c) <=> name \in OutputNames(code) \/ (name = l.name /\ name # NoName)
    <3>1. ASSUME NEW k \in 1..z, c[k].name = name, name # NoName
          PROVE  name \in OutputNames(code) \/ name = l.name
      <4>1. CASE k \in 1..m
        BY <3>1, <4>1, <1>2, <1>3 DEF OutputNames
      <4>2. CASE k \in (m + 1)..(z - 1)
        BY <3>1, <4>2, <1>3, <1>5 DEF MadeUp, Textual
      <4>3. CASE k = z
        BY <3>1, <4>3, <1>3
      <4> QED BY <4>1, <4>2, <4>3, <1>4
    <3>2. \A k \in 1..m : k \in 1..z /\ c[k].name = code[k].name
      BY <1>2, <1>3
    <3>3. z \in 1..z
      BY <1>2
    <3> QED BY <3>1, <3>2, <3>3, <1>2, <1>3 DEF OutputNames
  <2>2. Between(u, B, Len(u) + 1, "stmt") = Between(t, B, Len(t) + 1, "stmt") \cup ({l.name} \ {NoName})
    <3>1. AddsNames(t, u, l, "stmt")
      BY NamesMore
    <3> QED BY <3>1 DEF AddsNames
  <2> QED BY <2>1, <2>2, <1>5 DEF OutputsAre
<1>6. ASSUME NEW k \in 1..z, NEW j \in (B + 1)..Len(u), u[j].kind = "stmt", u[j].name = c[k].name,
             u[j].name # NoName
      PROVE  c[k].type = "iptr" <=> Addresses(u)[j]
  <2>1. j = Len(u) \/ (j \in (B + 1)..Len(t) /\ j \in 1..Len(t))
    BY <1>1
  <2>2. CASE k \in (m + 1)..(z - 1)
    <3>1. Textual(u[j].name)
      BY <2>1, <1>1, ExtendsIs
    <3> QED BY <3>1, <2>2, <1>3, <1>6 DEF MadeUp, Textual
  <2>3. CASE j = Len(u) /\ k \in 1..m
    <3>1. code[k].name = l.name /\ l.name # NoName
      BY <1>1, <1>3, <1>6, <2>3
    <3>2. l.name \in OutputNames(code)
      BY <1>2, <2>3, <3>1 DEF OutputNames
    <3> QED BY <3>1, <3>2
  <2>4. CASE j = Len(u) /\ k = z
    <3>1. Addresses(u)[j] = DefinesAddress(u, Addresses(u), j)
      BY <2>4, ExtendsIs
    <3>2. l.name # NoName
      BY <1>1, <1>6, <2>4
    <3> QED BY <2>4, <3>1, <3>2, <1>3
  <2>5. CASE j \in (B + 1)..Len(t) /\ j \in 1..Len(t) /\ k \in 1..m
    <3>1. u[j] = t[j] /\ Addresses(u)[j] = Addresses(t)[j]
      BY <2>5, ExtendsIs
    <3> QED BY <1>3, <1>6, <2>5, <3>1 DEF OutputsAre, m
  <2>6. CASE j \in (B + 1)..Len(t) /\ j \in 1..Len(t) /\ k = z
    <3>1. u[j] = t[j]
      BY <2>6, ExtendsIs
    <3>2. t[j].name = l.name /\ t[j].kind = "stmt" /\ l.name # NoName
      BY <3>1, <1>3, <1>6, <2>6
    <3>3. (Len(t) + 1) - 1 = Len(t)
      BY <1>1
    <3>4. l.name \in Between(t, B, Len(t) + 1, "stmt")
      BY <3>2, <3>3, <2>6 DEF Between
    <3> QED BY <3>2, <3>4 DEF OutputsAre
  <2> QED BY <1>4, <2>1, <2>2, <2>3, <2>4, <2>5, <2>6
<1> QED BY <1>5, <1>6 DEF OutputsAre, z

-----------------------------------------------------------------------------
(* Names *)

\* What statements of the last block see after the text t.
Scoped(t, func) ==
  LET n == Len(t)
      F == FuncLine(t, n + 1)
      B == BlockLine(t, n + 1)
      b == Len(func.blocks)
  IN /\ b = 1 <=> B = F
     /\ func.blocks[1].args = <<>>
     /\ ParamsAre(t, B, n, ParamsSeen(func, b))
     /\ SlotsAre(t, F, n, func.slots)
     /\ OutputsAre(t, B, n, func.blocks[b].code)

\* The lines of a kind that define a name.
Defining(t, j0, i, kind, name) == {j \in (j0 + 1)..(i - 1) : t[j].kind = kind /\ t[j].name = name}

\* There is one when the name is one of theirs.
LEMMA DefiningIs ==
  ASSUME NEW t, NEW j0, NEW i, NEW kind, NEW name, name # NoName
  PROVE  name \in Between(t, j0, i, kind) <=> Defining(t, j0, i, kind, name) # {}
BY DEF Between, Defining

\* The names in use are those of the parameters, slots and outputs.
LEMMA NamesInUse ==
  ASSUME NEW t, NEW func, Scoped(t, func), NEW name, Textual(name)
  PROVE  LET b == Len(func.blocks) IN
         /\ name \in InUse(t, Len(t) + 1)
              <=> name \in Names(ParamsSeen(func, b)) \cup SlotNames(func.slots) \cup OutputNames(func.blocks[b].code)
         /\ name \in Slots(t, Len(t) + 1) <=> name \in SlotNames(func.slots)
         /\ name \in Between(t, BlockLine(t, Len(t) + 1), Len(t) + 1, "stmt") <=> name \in OutputNames(func.blocks[b].code)
         /\ name \in Between(t, BlockLine(t, Len(t) + 1), Len(t) + 1, "arg") <=> name \in Names(ParamsSeen(func, b))
<1> DEFINE b == Len(func.blocks)
           n == Len(t)
           F == FuncLine(t, n + 1)
           B == BlockLine(t, n + 1)
           ps == ParamsSeen(func, b)
           code == func.blocks[b].code
<1>1. ParamsAre(t, B, n, ps) /\ SlotsAre(t, F, n, func.slots) /\ OutputsAre(t, B, n, code)
  BY DEF Scoped
<1>2. InUse(t, n + 1) = Slots(t, n + 1) \cup Between(t, B, n + 1, "stmt") \cup Between(t, B, n + 1, "arg")
  BY DEF InUse
<1>3. Slots(t, n + 1) = Between(t, F, n + 1, "stack_slot")
  BY DEF Slots
<1> HIDE DEF ps, code, B, F
<1>4. /\ Names(ps) = Between(t, B, n + 1, "arg") /\ SlotNames(func.slots) = Between(t, F, n + 1, "stack_slot")
      /\ name \in OutputNames(code) <=> name \in Between(t, B, n + 1, "stmt")
  BY <1>1 DEF ParamsAre, SlotsAre, OutputsAre
<1> QED BY <1>2, <1>3, <1>4 DEF ps, code, B, F

\* A name is found when it is one of them.
LEMMA LookupFails ==
  ASSUME NEW func, GoodFunction(func), NEW b \in 1..Len(func.blocks), NEW name, name # NoName
  PROVE  lookup_name(func, b, name) = <<>>
           <=> name \notin Names(ParamsSeen(func, b)) \cup SlotNames(func.slots) \cup OutputNames(func.blocks[b].code)
<1> DEFINE v == lookup_name(func, b, name)
           code == func.blocks[b].code
           args == ParamsSeen(func, b)
           slots == func.slots
           A == {k \in DOMAIN args : args[k][3] = name}
           S == {k \in DOMAIN slots : slots[k][2] = name}
           O == {k \in DOMAIN code : code[k].name = name}
<1>1. v = IF A # {} THEN args[First(A)] ELSE IF S # {} THEN slots[First(S)]
          ELSE IF O # {} THEN OutputOf(b, code[First(O)]) ELSE <<>>
  BY DEF lookup_name
<1>2. AllParams(args) /\ AllSlots(slots) /\ IsSeq(code)
  BY ParamsGood DEF GoodFunction, GoodBlock
<1>3. /\ DOMAIN args = 1..Len(args) /\ DOMAIN slots = 1..Len(slots) /\ DOMAIN code = 1..Len(code)
      /\ Len(args) \in Nat /\ Len(slots) \in Nat /\ Len(code) \in Nat
  <2> HIDE DEF args, slots, code
  <2> QED BY <1>2, SeqIs DEF AllParams, AllSlots
<1>4. A \subseteq Nat /\ S \subseteq Nat /\ O \subseteq Nat
  BY <1>3
<1>5. /\ name \in Names(args) <=> A # {}
      /\ name \in SlotNames(slots) <=> S # {}
      /\ name \in OutputNames(code) <=> O # {}
  BY DEF Names, SlotNames, OutputNames
<1> HIDE DEF v
<1>6. CASE A # {}
  <2> DEFINE k == First(A)
  <2>1. k \in A
    <3> HIDE DEF A
    <3> QED BY <1>4, <1>6, FirstIs
  <2> HIDE DEF k
  <2>2. k \in 1..Len(args) /\ v = args[k]
    BY <2>1, <1>1, <1>3, <1>6 DEF k
  <2>3. args[k] # <<>>
    BY <2>2, <1>2 DEF AllParams, IsParam
  <2> QED BY <2>2, <2>3, <1>5, <1>6 DEF v
<1>7. CASE A = {} /\ S # {}
  <2> DEFINE k == First(S)
  <2>1. k \in S
    <3> HIDE DEF S
    <3> QED BY <1>4, <1>7, FirstIs
  <2> HIDE DEF k
  <2>2. k \in 1..Len(slots) /\ v = slots[k]
    BY <2>1, <1>1, <1>3, <1>7 DEF k
  <2>3. slots[k] # <<>>
    BY <2>2, <1>2 DEF AllSlots, IsSlot
  <2> QED BY <2>2, <2>3, <1>5, <1>7 DEF v
<1>8. CASE A = {} /\ S = {} /\ O # {}
  <2>1. v = OutputOf(b, code[First(O)])
    BY <1>1, <1>8
  <2>2. v # <<>>
    BY <2>1 DEF OutputOf
  <2> QED BY <2>2, <1>5, <1>8 DEF v
<1>9. CASE A = {} /\ S = {} /\ O = {}
  <2>1. v = <<>>
    BY <1>1, <1>9
  <2> QED BY <2>1, <1>5, <1>9 DEF v
<1> QED BY <1>6, <1>7, <1>8, <1>9

\* What is found is a value, an address when the lines that define the name say so.
LEMMA LookupAddress ==
  ASSUME NEW t, IsSeq(t), NEW func, GoodFunction(func), Len(func.blocks) \in 1..Len(func.blocks), Scoped(t, func),
         NEW name, name # NoName, Textual(name), lookup_name(func, Len(func.blocks), name) # <<>>
  PROVE  LET v == lookup_name(func, Len(func.blocks), name)
         IN IsValue(v) /\ (TypeOf(v) = "iptr" <=> \E j \in Meaning(t, Len(t) + 1, name) : Addresses(t)[j])
<1> DEFINE b == Len(func.blocks)
           v == lookup_name(func, b, name)
           code == func.blocks[b].code
           args == ParamsSeen(func, b)
           slots == func.slots
           A == {k \in DOMAIN args : args[k][3] = name}
           S == {k \in DOMAIN slots : slots[k][2] = name}
           O == {k \in DOMAIN code : code[k].name = name}
           n == Len(t)
           F == FuncLine(t, n + 1)
           B == BlockLine(t, n + 1)
           D(j0, kind) == Defining(t, j0, n + 1, kind, name)
           M == Meaning(t, n + 1, name)
           addr == Addresses(t)
<1>1. v = IF A # {} THEN args[First(A)] ELSE IF S # {} THEN slots[First(S)]
          ELSE IF O # {} THEN OutputOf(b, code[First(O)]) ELSE <<>>
  BY DEF lookup_name
<1>2. AllParams(args) /\ AllSlots(slots) /\ IsSeq(code)
  BY ParamsGood DEF GoodFunction, GoodBlock
<1>3. /\ DOMAIN args = 1..Len(args) /\ DOMAIN slots = 1..Len(slots) /\ DOMAIN code = 1..Len(code)
      /\ Len(args) \in Nat /\ Len(slots) \in Nat /\ Len(code) \in Nat
  <2> HIDE DEF args, slots, code
  <2> QED BY <1>2, SeqIs DEF AllParams, AllSlots
<1>4. A \subseteq Nat /\ S \subseteq Nat /\ O \subseteq Nat
  BY <1>3
<1>5. n \in Nat /\ n + 1 \in Nat \ {0} /\ (n + 1) - 1 = n
  BY SeqIs
<1>6. M = IF D(B, "arg") # {} THEN D(B, "arg") ELSE IF D(F, "stack_slot") # {} THEN D(F, "stack_slot") ELSE D(B, "stmt")
  BY DEF Meaning, Defining
<1>7. /\ D(B, "arg") # {} <=> name \in Between(t, B, n + 1, "arg")
      /\ D(F, "stack_slot") # {} <=> name \in Between(t, F, n + 1, "stack_slot")
      /\ D(B, "stmt") # {} <=> name \in Between(t, B, n + 1, "stmt")
  <2> HIDE DEF B, F
  <2> QED BY DefiningIs
<1>8. ParamsAre(t, B, n, args) /\ SlotsAre(t, F, n, slots) /\ OutputsAre(t, B, n, code)
  BY DEF Scoped
<1>9. /\ name \in Names(args) <=> A # {}
      /\ name \in SlotNames(slots) <=> S # {}
      /\ name \in OutputNames(code) <=> O # {}
  BY DEF Names, SlotNames, OutputNames
<1>10. B \in Nat /\ F \in Nat
  BY <1>5, FromIs DEF BlockLine, FuncLine
<1>11. \A j0 \in Nat : \A kind : \A j \in D(j0, kind) : j \in (j0 + 1)..n /\ j \in 1..n /\ t[j].kind = kind /\ t[j].name = name
  BY <1>5 DEF Defining
<1> HIDE DEF D, M, addr, v, B, F, n
<1>12. /\ D(B, "arg") # {} <=> A # {}
       /\ D(F, "stack_slot") # {} <=> S # {}
       /\ D(B, "stmt") # {} <=> O # {}
  <2> HIDE DEF A, S, O, args, slots, code
  <2>1. /\ Names(args) = Between(t, B, n + 1, "arg") /\ SlotNames(slots) = Between(t, F, n + 1, "stack_slot")
        /\ name \in OutputNames(code) <=> name \in Between(t, B, n + 1, "stmt")
    BY <1>8 DEF ParamsAre, SlotsAre, OutputsAre
  <2> QED BY <2>1, <1>7, <1>9
<1>13. ASSUME NEW P, M # {}, \A j \in M : (P <=> addr[j])
       PROVE  P <=> \E j \in M : addr[j]
  <2> QED BY Zenon, <1>13
<1>14. CASE A # {}
  <2> DEFINE k == First(A)
  <2>1. k \in A
    <3> HIDE DEF A
    <3> QED BY <1>4, <1>14, FirstIs
  <2> HIDE DEF k
  <2>2. k \in 1..Len(args) /\ v = args[k] /\ args[k][3] = name
    BY <2>1, <1>1, <1>3, <1>14 DEF k
  <2>3. v[1] = "arg" /\ IsValue(v) /\ TypeOf(v) = v[4]
    BY <2>2, <1>2 DEF AllParams, IsParam, IsValue, TypeOf
  <2>4. M = D(B, "arg") /\ M # {}
    BY <1>6, <1>12, <1>14
  <2>5. ASSUME NEW j \in M PROVE v[4] = "iptr" <=> addr[j]
    <3>1. j \in (B + 1)..n /\ t[j].kind = "arg" /\ t[j].name = args[k][3]
      BY <1>10, <1>11, <2>2, <2>4
    <3> HIDE DEF args
    <3> QED BY <3>1, <2>2, <1>8 DEF ParamsAre, addr
  <2> QED BY <1>13, <2>3, <2>4, <2>5 DEF v, M, n, addr
<1>15. CASE A = {} /\ S # {}
  <2> DEFINE k == First(S)
  <2>1. k \in S
    <3> HIDE DEF S
    <3> QED BY <1>4, <1>15, FirstIs
  <2> HIDE DEF k
  <2>2. k \in 1..Len(slots) /\ v = slots[k]
    BY <2>1, <1>1, <1>3, <1>15 DEF k
  <2>3. v[1] = "slot" /\ IsValue(v) /\ TypeOf(v) = "iptr"
    BY <2>2, <1>2 DEF AllSlots, IsSlot, IsValue, TypeOf
  <2>4. M = D(F, "stack_slot") /\ M # {}
    BY <1>6, <1>12, <1>15
  <2>5. ASSUME NEW j \in M PROVE addr[j]
    <3>1. j \in 1..n /\ t[j].kind = "stack_slot"
      BY <1>10, <1>11, <2>4
    <3>2. addr[j] = DefinesAddress(t, addr, j)
      BY <3>1, AddressesAre DEF addr, n
    <3> QED BY <3>1, <3>2 DEF DefinesAddress
  <2> QED BY <2>3, <2>4, <2>5 DEF v, M, n, addr
<1>16. CASE A = {} /\ S = {} /\ O # {}
  <2> DEFINE k == First(O)
  <2>1. k \in O
    <3> HIDE DEF O
    <3> QED BY SMTT(30), <1>4, <1>16, FirstIs
  <2> HIDE DEF k
  <2>2. k \in 1..Len(code) /\ v = OutputOf(b, code[k]) /\ code[k].name = name
    BY <2>1, <1>1, <1>3, <1>16 DEF k
  <2>3. v[1] = "ssa" /\ IsValue(v) /\ TypeOf(v) = code[k].type
    BY <2>2 DEF OutputOf, IsValue, TypeOf
  <2>4. M = D(B, "stmt") /\ M # {}
    BY <1>6, <1>12, <1>16
  <2>5. ASSUME NEW j \in M PROVE code[k].type = "iptr" <=> addr[j]
    <3>1. j \in (B + 1)..n /\ t[j].kind = "stmt" /\ t[j].name = code[k].name /\ t[j].name # NoName
      BY SMTT(30), <1>10, <1>11, <2>2, <2>4
    <3> HIDE DEF code
    <3> QED BY <3>1, <2>2, <1>8 DEF OutputsAre, addr
  <2> QED BY <1>13, <2>3, <2>4, <2>5 DEF v, M, n, addr
<1>17. ~(A = {} /\ S = {} /\ O = {})
  <2>1. v # <<>>
    BY DEF v
  <2> QED BY <2>1, <1>1
<1> QED BY <1>14, <1>15, <1>16, <1>17

-----------------------------------------------------------------------------
(* The line that is read *)

\* What is in scope at the line that has been read is what is in scope behind the others.
LEMMA ScopeAt ==
  ASSUME NEW t, NEW u, NEW l, Extends(t, u, l)
  PROVE  /\ FuncLine(u, Len(u)) = FuncLine(t, Len(t) + 1) /\ BlockLine(u, Len(u)) = BlockLine(t, Len(t) + 1)
         /\ Inside(u, Len(u)) = Inside(t, Len(t) + 1)
         /\ Slots(u, Len(u)) = Slots(t, Len(t) + 1) /\ InUse(u, Len(u)) = InUse(t, Len(t) + 1)
         /\ \A name : Meaning(u, Len(u), name) = Meaning(t, Len(t) + 1, name)
<1>1. Len(u) \in Nat \ {0} /\ Len(u) = Len(t) + 1 /\ SameText(t, u, Len(u) - 1)
  BY SeqIs DEF Extends
<1>2. /\ FuncLine(u, Len(u)) = FuncLine(t, Len(u)) /\ BlockLine(u, Len(u)) = BlockLine(t, Len(u))
      /\ Inside(u, Len(u)) = Inside(t, Len(u))
      /\ Slots(u, Len(u)) = Slots(t, Len(u)) /\ InUse(u, Len(u)) = InUse(t, Len(u))
      /\ \A name : Meaning(u, Len(u), name) = Meaning(t, Len(u), name)
  BY <1>1, ScopeSame
<1> QED BY <1>1, <1>2

\* The names of lines of a kind above it.
LEMMA NamesAt ==
  ASSUME NEW t, NEW u, NEW l, Extends(t, u, l), NEW j \in 0..Len(t), NEW kind
  PROVE  Between(u, j, Len(u), kind) = Between(t, j, Len(t) + 1, kind)
<1>1. Len(t) \in Nat /\ Len(u) = Len(t) + 1 /\ SameText(t, u, Len(u) - 1)
  BY SeqIs DEF Extends
<1>2. \A k \in (j + 1)..(Len(u) - 1) : u[k] = t[k]
  BY <1>1 DEF SameText
<1> QED BY <1>1, <1>2 DEF Between

\* The function and the block that the next line is in.
LEMMA ScopeMoves ==
  ASSUME NEW t, NEW u, NEW l, Extends(t, u, l)
  PROVE  /\ FuncLine(u, Len(u) + 1) = IF l.kind = "func" THEN Len(u) ELSE FuncLine(t, Len(t) + 1)
         /\ BlockLine(u, Len(u) + 1) = IF l.kind \in {"func", "block"} THEN Len(u) ELSE BlockLine(t, Len(t) + 1)
         /\ Inside(u, Len(u) + 1) <=> IF l.kind \in {"func", "endfunc"} THEN l.kind = "func" ELSE Inside(t, Len(t) + 1)
         /\ FuncLine(t, Len(t) + 1) \in 0..Len(t) /\ BlockLine(t, Len(t) + 1) \in 0..Len(t)
<1>1. Len(t) \in Nat /\ Len(u) \in Nat \ {0} /\ Len(u) = Len(t) + 1 /\ u[Len(u)] = l
  BY SeqIs DEF Extends
<1>2. /\ FuncLine(u, Len(u) + 1) = IF l.kind = "func" THEN Len(u) ELSE FuncLine(u, Len(u))
      /\ BlockLine(u, Len(u) + 1) = IF l.kind \in {"func", "block"} THEN Len(u) ELSE BlockLine(u, Len(u))
  BY SMTT(30), <1>1, FromNext DEF FuncLine, BlockLine
<1>3. Inside(u, Len(u) + 1) <=> IF l.kind \in {"func", "endfunc"} THEN l.kind = "func" ELSE Inside(u, Len(u))
  BY <1>1, InsideNext
<1>4. FuncLine(t, Len(t) + 1) \in 0..((Len(t) + 1) - 1) /\ BlockLine(t, Len(t) + 1) \in 0..((Len(t) + 1) - 1)
  BY <1>1, FromIs DEF FuncLine, BlockLine
<1> QED BY <1>1, <1>2, <1>3, <1>4, ScopeAt

\* Whether a token of the line is an address is known from the lines above.
LEMMA AddressSame ==
  ASSUME NEW t, NEW u, NEW l, Extends(t, u, l), NEW tok
  PROVE  IsAddress(u, Addresses(u), Len(u), tok) = IsAddress(t, Addresses(t), Len(t) + 1, tok)
<1> DEFINE M == Meaning(t, Len(t) + 1, tok[2])
           a == Addresses(t)
           c == Addresses(u)
<1>1. Meaning(u, Len(u), tok[2]) = M
  BY ScopeAt
<1>2. \A j \in M : c[j] = a[j]
  <2>1. Len(t) \in Nat /\ \A j \in 1..Len(t) : c[j] = a[j]
    BY ExtendsIs
  <2>2. M \subseteq 1..((Len(t) + 1) - 1)
    BY <2>1, MeaningAbove
  <2> HIDE DEF M, a, c
  <2> QED BY <2>1, <2>2
<1> HIDE DEF M, a, c
<1>3. (\E j \in M : c[j]) = (\E j \in M : a[j])
  BY <1>2, Zenon
<1> QED BY <1>1, <1>3 DEF IsAddress, M, a, c

-----------------------------------------------------------------------------
(* Statements *)

\* No name of the line is one that make_temp_name makes.
TextualLine(l) == Textual(l.name) /\ \A tok \in ToSet(l.toks) : tok[1] = "name" => Textual(tok[2])

\* What a token is read as, b the current block.
ReadAs(t, tok, v) ==
  /\ v = <<>> <=> tok[1] = "name" /\ tok[2] \notin InUse(t, Len(t) + 1)
  /\ v # <<>> /\ IsValueToken(tok) =>
       IsValue(v) /\ (TypeOf(v) = "iptr" <=> IsAddress(t, Addresses(t), Len(t) + 1, tok))
  /\ tok[1] = "type" => v = tok
  /\ v # <<>> => IsOperand(v)

\* A token is read as what its name means, or as itself.
LEMMA TokenIs ==
  ASSUME Good(prog), prog.cur # 0, NEW t, IsSeq(t), Scoped(t, Current), NEW l \in Lines, TextualLine(l),
         NEW tok \in ToSet(l.toks)
  PROVE  ReadAs(t, tok, parse_value(tok, Len(Current.blocks)))
<1> DEFINE func == Current
           b == Len(func.blocks)
           v == parse_value(tok, b)
<1>1. GoodFunction(func) /\ b \in 1..Len(func.blocks)
  BY CurrentIs
<1>2. (tok[1] = "name" /\ tok[2] # NoName) \/ IsPlain(tok)
  BY LinesAssumption
<1>3. CASE tok[1] = "name"
  <2> DEFINE name == tok[2]
  <2>1. v = lookup_name(func, b, name) /\ name # NoName /\ Textual(name)
    BY <1>2, <1>3 DEF parse_value, IsPlain, TextualLine
  <2> HIDE DEF v, name, func
  <2>2. lookup_name(func, b, name) = <<>>
          <=> name \notin Names(ParamsSeen(func, b)) \cup SlotNames(func.slots) \cup OutputNames(func.blocks[b].code)
    BY <1>1, <2>1, LookupFails
  <2>3. name \in InUse(t, Len(t) + 1)
          <=> name \in Names(ParamsSeen(func, b)) \cup SlotNames(func.slots) \cup OutputNames(func.blocks[b].code)
    BY <2>1, NamesInUse DEF func
  <2>4. v # <<>> => IsValue(v) /\ (TypeOf(v) = "iptr" <=> \E j \in Meaning(t, Len(t) + 1, name) : Addresses(t)[j])
    BY <1>1, <2>1, LookupAddress DEF func
  <2>5. v # <<>> => IsOperand(v)
    BY <1>1, <2>1, LookupIs DEF UsableOperand
  <2> QED BY <1>3, <2>1, <2>2, <2>3, <2>4, <2>5 DEF ReadAs, IsAddress, name, v, func
<1>4. CASE tok[1] # "name"
  <2>1. v = tok /\ IsPlain(tok)
    BY <1>2, <1>4 DEF parse_value
  <2> HIDE DEF v, func
  <2>2. tok # <<>>
    BY <2>1 DEF IsPlain
  <2>4. IsOperand(tok)
    BY <2>1 DEF IsOperand
  <2>3. IsValueToken(tok) => tok[1] = "const" /\ IsValue(tok) /\ TypeOf(tok) = tok[3]
    BY <1>4 DEF IsValueToken, IsValue, TypeOf
  <2> QED BY <1>4, <2>1, <2>2, <2>3, <2>4 DEF ReadAs, IsAddress, v, func
<1> QED BY <1>3, <1>4

\* The rules for the type of an output exclude each other.
LEMMA RulesApart ==
  /\ \A op \in SameType : op \notin NamedType /\ op \notin Lookups
  /\ \A op \in NamedType : op \notin Lookups
  /\ \A op \in Comparisons \cup FloatEquality : op \notin SameType /\ op \notin NamedType /\ op \notin Lookups
  /\ "call_eval" \notin Instructions
<1>1. \A op \in SameType : op \notin NamedType /\ op \notin Lookups
  BY DEF SameType, NamedType, Lookups, Arithmetic, Unsafe, Bitwise3, IntCasts, FloatCasts
<1>2. \A op \in NamedType : op \notin Lookups
  BY DEF NamedType, Lookups, IntCasts, FloatCasts
<1>3. \A op \in Comparisons \cup FloatEquality : op \notin SameType /\ op \notin NamedType /\ op \notin Lookups
  BY DEF Comparisons, FloatEquality, SameType, NamedType, Lookups, Arithmetic, Unsafe, Bitwise3, IntCasts, FloatCasts
<1>4. "call_eval" \notin Instructions
  BY DEF Instructions
<1> QED BY <1>1, <1>2, <1>3, <1>4

\* They are what the tokens are read as.
LEMMA OperandsAre ==
  ASSUME Good(prog), prog.cur # 0, NEW t, IsSeq(t), Scoped(t, Current), NEW l \in Lines, TextualLine(l)
  PROVE  /\ IsSeq(Operands(l)) /\ Len(Operands(l)) = Len(l.toks) /\ Len(l.toks) \in Nat
         /\ DOMAIN l.toks = 1..Len(l.toks) /\ DOMAIN Operands(l) = 1..Len(l.toks)
         /\ \A i \in 1..Len(l.toks) : ReadAs(t, l.toks[i], Operands(l)[i])
<1> DEFINE args == Operands(l)
           n == Len(l.toks)
<1>1. n \in Nat /\ DOMAIN l.toks = 1..n
  BY LinesAssumption
<1>2. \A i \in 1..n : args[i] = parse_value(l.toks[i], Len(Current.blocks)) /\ l.toks[i] \in ToSet(l.toks)
  BY <1>1 DEF Operands, ToSet
<1>3. args = [i \in 1..n |-> args[i]]
  BY <1>1 DEF Operands
<1> HIDE DEF args, n
<1>4. IsSeq(args) /\ Len(args) = n /\ DOMAIN args = 1..n
  BY <1>1, <1>3, FunctionSeq, SeqIs
<1>5. \A i \in 1..n : ReadAs(t, l.toks[i], args[i])
  BY <1>2, TokenIs
<1> QED BY <1>1, <1>4, <1>5 DEF args, n

\* An operand is missing when its name is not in use.
LEMMA OperandMissing ==
  ASSUME Good(prog), prog.cur # 0, NEW t, IsSeq(t), Scoped(t, Current), NEW l \in Lines, TextualLine(l)
  PROVE  <<>> \notin ToSet(Operands(l))
           <=> \A j \in DOMAIN l.toks : l.toks[j][1] = "name" => l.toks[j][2] \in InUse(t, Len(t) + 1)
<1> DEFINE args == Operands(l)
           n == Len(l.toks)
           D == InUse(t, Len(t) + 1)
<1>1. /\ DOMAIN l.toks = 1..n /\ DOMAIN args = 1..n
      /\ \A i \in 1..n : args[i] = <<>> <=> l.toks[i][1] = "name" /\ l.toks[i][2] \notin D
  BY OperandsAre DEF ReadAs
<1> HIDE DEF args, n, D
<1>2. <<>> \in ToSet(args) <=> \E i \in 1..n : args[i] = <<>>
  BY <1>1 DEF ToSet
<1> QED BY <1>1, <1>2 DEF args, n, D

\* The type of an output: some type, and an address where the line defines one.
LEMMA OutputAddress ==
  ASSUME Good(prog), prog.cur # 0, NEW t, NEW u, NEW l \in Lines, Extends(t, u, l), Scoped(t, Current), TextualLine(l),
         l.kind = "stmt", l.name # NoName, <<>> \notin ToSet(Operands(l)),
         NEW st, st.op = l.op, st.args = Operands(l)
  PROVE  /\ OutputType(st) # "fails"
         /\ OutputType(st) = "iptr" <=> DefinesAddress(u, Addresses(u), Len(u))
<1> DEFINE a == st.args[1]
           tok == l.toks[1]
<1>1. IsSeq(t) /\ u[Len(u)] = l
  BY DEF Extends
<1>2. l.toks # <<>> /\ Len(l.toks) \in Nat /\ Len(l.toks) # 0
  <2>1. l.toks # <<>> /\ l.toks \in Seq(ToSet(l.toks))
    BY LinesAssumption
  <2> QED BY <2>1
<1>3. ReadAs(t, tok, a) /\ a # <<>>
  <2>1. 1 \in 1..Len(l.toks)
    BY <1>2
  <2>2. ReadAs(t, tok, a) /\ 1 \in DOMAIN Operands(l)
    BY <1>1, <2>1, OperandsAre
  <2> QED BY <2>2 DEF ToSet
<1>4. /\ l.op \in SameType => IsValueToken(tok)
      /\ l.op \in NamedType => tok[1] = "type"
  BY LinesAssumption
<1> HIDE DEF a, tok
<1>5. l.op \in SameType => IsValue(a) /\ (TypeOf(a) = "iptr" <=> IsAddress(u, Addresses(u), Len(u), tok))
  BY <1>3, <1>4, AddressSame DEF ReadAs
<1>6. l.op \in NamedType => a = tok /\ a[1] = "type"
  BY <1>3, <1>4 DEF ReadAs
<1>7. IsValue(a) => TypeOf(a) # "fails"
  <2>1. IsOperand(a)
    BY <1>3 DEF ReadAs
  <2> QED BY <2>1 DEF IsOperand, IsPlain, IsParam, IsResult, IsValue, TypeOf, Types
<1>8. IsPlain(a) /\ a[1] = "type" => a[2] # "fails"
  BY DEF IsPlain, Types
<1>9. DefinesAddress(u, Addresses(u), Len(u))
        <=> \/ l.op \in Lookups
            \/ l.op \in NamedType /\ tok[2] = "iptr"
            \/ l.op \in SameType /\ IsAddress(u, Addresses(u), Len(u), tok)
  BY <1>1 DEF DefinesAddress, tok
<1>10. OutputType(st) =
         IF l.op \in SameType THEN IF IsValue(a) THEN TypeOf(a) ELSE "fails"
         ELSE IF l.op \in NamedType THEN IF a[1] = "type" THEN a[2] ELSE "fails"
         ELSE IF l.op \in Comparisons \cup FloatEquality THEN "i8"
         ELSE IF l.op \in Lookups THEN "iptr"
         ELSE IF l.op # "f64_to_f32" THEN "f32" ELSE "f64"
  BY DEF OutputType, a
<1>11. CASE l.op \in SameType
  BY <1>5, <1>7, <1>9, <1>10, <1>11, RulesApart
<1>12. CASE l.op \in NamedType
  <2>1. l.op \notin SameType /\ l.op \notin Lookups
    BY <1>12, RulesApart
  <2>2. a[1] = "type" /\ a = tok /\ IsOperand(a)
    BY <1>3, <1>6, <1>12 DEF ReadAs
  <2>3. IsPlain(a)
    BY <2>2 DEF IsOperand, IsParam, IsResult
  <2> QED BY <2>1, <2>2, <2>3, <1>8, <1>9, <1>10, <1>12
<1>13. CASE l.op \notin SameType /\ l.op \notin NamedType
  BY <1>9, <1>10, <1>13, RulesApart
<1> QED BY <1>11, <1>12, <1>13

\* H is G with the statements c in a block.
WithCode(G, H, f, b, c) ==
  H.cur = G.cur /\ H.funcs = [G.funcs EXCEPT ![f] = [G.funcs[f] EXCEPT !.blocks[b].code = c]]

\* What appending a statement leaves in the block.
LEMMA AppendMakes ==
  ASSUME NEW G, Good(G), EncodableProgram(G), NEW f \in 1..Len(G.funcs), NEW b \in 1..Len(G.funcs[f].blocks),
         NEW st, Usable(G.funcs[f], b, G.funcs[f].blocks[b].code, st), st.name # NoName => st.args # <<>>,
         NEW type, type = (IF st.name = NoName THEN NoType ELSE OutputType(st)), type # "fails", G.failed = FALSE
  PROVE  LET R == block_append_statement(G, f, b, st)
         IN /\ R.failed <=> st.op = "return" /\ st.args = <<>>
            /\ ~R.failed => \E c : /\ IsSeq(c) /\ WithCode(G, R, f, b, c)
                                   /\ Behind(G.funcs[f].blocks[b].code, [st EXCEPT !.type = type], c)
<1> DEFINE func == G.funcs[f]
           old == func.blocks[b].code
           s == [st EXCEPT !.type = type]
           legal == legalize_last_statement_operands(Append(old, s), b, G.temps)
           temps == G.temps + (Len(legal) - Len(Append(old, s)))
           H == [G EXCEPT !.funcs[f].blocks[b].code = legal, !.temps = temps]
<1>1. block_append_statement(G, f, b, st) = IF st.op = "return" /\ st.args = <<>> THEN Fail(H) ELSE H
  BY DEF block_append_statement
<1>2. GoodFunction(func) /\ EncodableFunction(func)
  BY DEF Good, EncodableProgram
<1>3. IsSeq(old) /\ Fine(func, b, old, Len(old)) /\ AllEncodable(old, Len(old))
  BY <1>2 DEF GoodFunction, GoodBlock, EncodableFunction
<1>4. /\ DOMAIN s = {"name", "op", "args", "type", "src"} /\ s.type = type
      /\ s.name = st.name /\ s.args = st.args /\ s.src = st.src
  BY DEF Usable
<1>5. IsSeq(st.args) /\ \A i \in 1..Len(st.args) : IsOperand(st.args[i])
  BY DEF Usable
<1>6. (st.name = NoName <=> type = NoType) /\ type \in Types \cup {NoType}
  <2>1. CASE st.name = NoName
    BY <2>1
  <2>2. CASE st.name # NoName
    <3>1. OutputType(st) \in Types \cup {"fails"}
      BY <1>5, <2>2, OutputTyped
    <3> QED BY <2>2, <3>1 DEF Types, NoType
  <2> QED BY <2>1, <2>2
<1> HIDE DEF s
<1>7. IsStatement(s)
  BY <1>4, <1>5, <1>6 DEF IsStatement
<1>8. Usable(func, b, old, s)
  BY <1>4 DEF Usable
<1>9. IsSeq(legal) /\ Behind(old, s, legal)
  <2> HIDE DEF func, old
  <2> QED BY <1>3, <1>7, <1>8, LegalIs
<1> HIDE DEF legal, temps
<1>10. DOMAIN H = DOMAIN G /\ H.failed = FALSE /\ WithCode(G, H, f, b, legal)
  BY DEF Good, WithCode
<1> HIDE DEF H
<1>11. "failed" \in DOMAIN H
  BY <1>10 DEF Good
<1>12. Fail(H).failed = TRUE
  BY <1>11 DEF Fail
<1> QED BY <1>1, <1>9, <1>10, <1>12 DEF s

\* Whether the line gives a name that is taken.
LEMMA RedefinitionIs ==
  ASSUME Good(prog), prog.cur # 0, NEW t, NEW u, NEW l, Extends(t, u, l), Scoped(t, Current), Textual(l.name)
  PROVE  (l.name # NoName => ~check_for_redefinition(Current, Len(Current.blocks), l.name))
           <=> (l.name \in InUse(u, Len(u)) =>
                  /\ BlockLine(u, Len(u)) = FuncLine(u, Len(u))
                  /\ l.name \notin Between(u, FuncLine(u, Len(u)), Len(u), "stmt") \cup Slots(u, Len(u)))
<1> DEFINE func == Current
           b == Len(func.blocks)
           code == func.blocks[b].code
           name == l.name
           n == Len(t)
           F == FuncLine(t, n + 1)
           B == BlockLine(t, n + 1)
<1>1. GoodFunction(func) /\ b \in 1..Len(func.blocks)
  BY CurrentIs
<1>2. func.blocks[1].args = <<>> /\ (b = 1 <=> B = F)
  BY DEF Scoped
<1>3. check_for_redefinition(func, b, name)
        <=> name \in Names(func.blocks[b].args) \cup SlotNames(func.slots) \cup OutputNames(code)
  BY <1>1 DEF check_for_redefinition
<1>4. /\ name \in InUse(t, n + 1) <=> name \in Names(ParamsSeen(func, b)) \cup SlotNames(func.slots) \cup OutputNames(code)
      /\ name \in Slots(t, n + 1) <=> name \in SlotNames(func.slots)
      /\ name \in Between(t, B, n + 1, "stmt") <=> name \in OutputNames(code)
  BY NamesInUse
<1>5. ParamsSeen(func, b) = IF b = 1 THEN func.args ELSE func.blocks[b].args
  BY DEF ParamsSeen
<1>6. Names(<<>>) = {}
  BY DEF Names
<1>7. NoName \notin InUse(t, n + 1)
  BY DEF InUse, Slots, Between
<1>8. /\ FuncLine(u, Len(u)) = F /\ BlockLine(u, Len(u)) = B
      /\ Slots(u, Len(u)) = Slots(t, n + 1) /\ InUse(u, Len(u)) = InUse(t, n + 1)
  BY ScopeAt
<1>9. Between(u, F, Len(u), "stmt") = Between(t, F, n + 1, "stmt")
  <2>1. F \in 0..n
    BY ScopeMoves
  <2> QED BY <2>1, NamesAt
<1> HIDE DEF F, B, name, n, code, func
<1> QED BY <1>2, <1>3, <1>4, <1>5, <1>6, <1>7, <1>8, <1>9 DEF F, B, name, n, code, func

\* The statement that line l leaves in the current block of H, which was in G.
StatementAdded(G, H, u, l) ==
  LET b == Len(G.funcs[G.cur].blocks)
      code == G.funcs[G.cur].blocks[b].code
  IN \E c, st :
       /\ IsSeq(c) /\ WithCode(G, H, G.cur, b, c) /\ Behind(code, st, c) /\ st.name = l.name
       /\ l.name # NoName =>
            l.name \notin OutputNames(code) /\ (st.type = "iptr" <=> DefinesAddress(u, Addresses(u), Len(u)))

\* A statement that is appended: whether an assertion fails, and what is there if none does.
LEMMA StatementMade ==
  ASSUME Good(prog), EncodableProgram(prog), prog.cur # 0, prog.failed = FALSE, NEW t, NEW u, NEW l \in Lines,
         Extends(t, u, l), Scoped(t, Current), TextualLine(l), l.kind = "stmt", <<>> \notin ToSet(Operands(l)),
         l.name # NoName => ~check_for_redefinition(Current, Len(Current.blocks), l.name)
  PROVE  LET R == block_append_statement(prog, prog.cur, Len(Current.blocks), Parsed(l))
         IN /\ R.failed <=> l.op = "return" /\ l.toks = <<>>
            /\ ~R.failed => StatementAdded(prog, R, u, l)
<1> DEFINE b == Len(Current.blocks)
           code == Current.blocks[b].code
           st == Parsed(l)
           R == block_append_statement(prog, prog.cur, b, st)
           type == IF st.name = NoName THEN NoType ELSE OutputType(st)
<1>1. prog.cur \in 1..Len(prog.funcs) /\ b \in 1..Len(Current.blocks) /\ Current = prog.funcs[prog.cur]
  BY CurrentIs DEF Current
<1>2. st.name = l.name /\ st.args = Operands(l) /\ st.op = l.op
  BY DEF Parsed
<1>3. Usable(Current, b, code, st) /\ (st.name # NoName => st.args # <<>>)
  BY <1>2, ParsedUsable
<1>4. l.name # NoName => OutputType(st) # "fails" /\ (OutputType(st) = "iptr" <=> DefinesAddress(u, Addresses(u), Len(u)))
  BY <1>2, OutputAddress
<1>5. type # "fails"
  BY <1>2, <1>4 DEF NoType
<1>6. st.args = <<>> <=> l.toks = <<>>
  <2>1. IsSeq(st.args) /\ Len(st.args) = Len(l.toks) /\ l.toks \in Seq(ToSet(l.toks))
    BY <1>2, OperandsAre, LinesAssumption DEF Extends
  <2> QED BY <2>1 DEF IsSeq
<1>7. l.name # NoName => l.name \notin OutputNames(code)
  <2>1. b # 0
    BY <1>1
  <2> QED BY <2>1 DEF check_for_redefinition
<1> DEFINE s == [st EXCEPT !.type = type]
<1>8. s.name = l.name /\ s.type = type
  BY <1>2 DEF Parsed
<1>9. /\ R.failed <=> st.op = "return" /\ st.args = <<>>
      /\ ~R.failed => \E c : IsSeq(c) /\ WithCode(prog, R, prog.cur, b, c) /\ Behind(code, s, c)
  <2> HIDE DEF st, type
  <2>1. b \in 1..Len(prog.funcs[prog.cur].blocks) /\ Usable(prog.funcs[prog.cur], b, prog.funcs[prog.cur].blocks[b].code, st)
    BY <1>1, <1>3
  <2> DEFINE P == prog.funcs[prog.cur].blocks[b].code
  <2>2. P = code
    BY <1>1
  <2> HIDE DEF b, code
  <2>3. type = (IF st.name = NoName THEN NoType ELSE OutputType(st))
    BY DEF type
  <2> QED BY <1>1, <1>3, <1>5, <2>1, <2>2, <2>3, AppendMakes
<1>10. type = IF l.name = NoName THEN NoType ELSE OutputType(st)
  BY SMTT(30), <1>2
<1> HIDE DEF R, s, type, st, code, b
<1>11. ASSUME ~R.failed PROVE StatementAdded(prog, R, u, l)
  <2>1. PICK c : IsSeq(c) /\ WithCode(prog, R, prog.cur, b, c) /\ Behind(code, s, c)
    BY <1>9, <1>11
  <2>2. l.name # NoName => (s.type = "iptr" <=> DefinesAddress(u, Addresses(u), Len(u)))
    BY <1>4, <1>8, <1>10
  <2>3. b = Len(prog.funcs[prog.cur].blocks) /\ code = prog.funcs[prog.cur].blocks[b].code
    BY <1>1 DEF b, code
  <2> QED BY <1>7, <1>8, <2>1, <2>2, <2>3 DEF StatementAdded
<1> QED BY <1>2, <1>6, <1>9, <1>11 DEF R, b, st

\* parse_statement fails when the line is not a fine statement where it stands.
LEMMA StatementAgrees ==
  ASSUME Good(prog), EncodableProgram(prog), prog.cur # 0, prog.failed = FALSE, NEW t, NEW u, NEW l \in Lines,
         Extends(t, u, l), Inside(t, Len(t) + 1), Scoped(t, Current), TextualLine(l), l.kind = "stmt"
  PROVE  /\ parse_statement(l).failed <=> ~StatementFine(u, Len(u))
         /\ ~parse_statement(l).failed => StatementAdded(prog, parse_statement(l), u, l)
<1> DEFINE b == Len(Current.blocks)
           args == Operands(l)
           R == block_append_statement(prog, prog.cur, b, Parsed(l))
           redefined == l.name # NoName /\ check_for_redefinition(Current, b, l.name)
           known == l.op \in IF l.name = NoName THEN Instructions ELSE Operations
           missing == <<>> \in ToSet(args)
           astray == l.op = "call_eval" /\ Len(args) > 1 /\ TypeOf(args[2]) # "iptr"
<1>1. parse_statement(l) = IF redefined THEN Fail(prog) ELSE IF ~known THEN Fail(prog) ELSE IF missing THEN Fail(prog)
                           ELSE IF astray THEN Fail(prog) ELSE R
  BY DEF parse_statement, Operands, Parsed
<1>2. Fail(prog).failed = TRUE
  BY DEF Fail, Good
<1>3. u[Len(u)] = l /\ IsSeq(t) /\ Textual(l.name)
  BY DEF Extends, TextualLine
<1>4. Inside(u, Len(u)) /\ InUse(u, Len(u)) = InUse(t, Len(t) + 1)
  BY ScopeAt
<1>5. ~redefined <=> (l.name \in InUse(u, Len(u)) =>
                        /\ BlockLine(u, Len(u)) = FuncLine(u, Len(u))
                        /\ l.name \notin Between(u, FuncLine(u, Len(u)), Len(u), "stmt") \cup Slots(u, Len(u)))
  BY <1>3, RedefinitionIs
<1>6. ~missing <=> \A j \in DOMAIN l.toks : l.toks[j][1] = "name" => l.toks[j][2] \in InUse(u, Len(u))
  BY <1>3, <1>4, OperandMissing
<1>7. ASSUME known, ~missing
      PROVE  ~astray <=> (l.op = "call_eval" /\ Len(l.toks) > 1 => IsAddress(u, Addresses(u), Len(u), l.toks[2]))
  <2>1. Len(args) = Len(l.toks) /\ Len(l.toks) \in Nat /\ DOMAIN args = 1..Len(l.toks)
    BY <1>3, OperandsAre
  <2>2. ASSUME l.op = "call_eval", Len(l.toks) > 1
        PROVE  TypeOf(args[2]) = "iptr" <=> IsAddress(u, Addresses(u), Len(u), l.toks[2])
    <3>1. l.name # NoName
      BY <1>7, <2>2, RulesApart
    <3>2. IsValueToken(l.toks[2])
      BY <2>2, <3>1, LinesAssumption
    <3>3. 2 \in 1..Len(l.toks)
      BY <2>1, <2>2
    <3>4. ReadAs(t, l.toks[2], args[2]) /\ args[2] # <<>>
      BY <1>3, <1>7, <2>1, <3>3, OperandsAre DEF ToSet
    <3>5. IsAddress(u, Addresses(u), Len(u), l.toks[2]) = IsAddress(t, Addresses(t), Len(t) + 1, l.toks[2])
      BY AddressSame
    <3> HIDE DEF args
    <3> QED BY <3>2, <3>4, <3>5 DEF ReadAs
  <2> HIDE DEF args
  <2> QED BY <2>1, <2>2
<1>8. ASSUME ~redefined, ~missing
      PROVE  (R.failed <=> l.op = "return" /\ l.toks = <<>>) /\ (~R.failed => StatementAdded(prog, R, u, l))
  BY <1>8, StatementMade
<1> HIDE DEF R, redefined, known, missing, astray
<1> DEFINE called == l.op = "call_eval" /\ Len(l.toks) > 1 => IsAddress(u, Addresses(u), Len(u), l.toks[2])
<1>9. StatementFine(u, Len(u)) <=> known /\ ~missing /\ ~redefined /\ (l.op = "return" => l.toks # <<>>) /\ called
  <2>1. known <=> l.op \in IF l.name = NoName THEN Instructions ELSE Operations
    BY DEF known
  <2> QED BY <1>3, <1>4, <1>5, <1>6, <2>1 DEF StatementFine
<1> HIDE DEF called
<1>10. known /\ ~missing => (~astray <=> called)
  BY <1>7 DEF called
<1> QED BY <1>1, <1>2, <1>8, <1>9, <1>10

-----------------------------------------------------------------------------
(* Where the parser stands *)

\* What the state of the parser says of the lines read, and of the current function.
StateIs(t, s, func) ==
  LET last == t[Len(t)].kind
      entry == BlockLine(t, Len(t) + 1) = FuncLine(t, Len(t) + 1)
      empty == func.blocks[Len(func.blocks)].code = <<>>
  IN /\ s = "funcargs" => last \in {"func", "arg"} /\ entry /\ empty
     /\ s = "funcslots" => last = "stack_slot" /\ entry /\ empty
     /\ s = "blockargs" => last \in {"block", "arg"} /\ ~entry /\ empty
     /\ s = "block" => last = "stmt"

Stands(t, s, G) ==
  /\ s = "root" <=> ~Inside(t, Len(t) + 1)
  /\ s = "root" => Len(t) = 0 \/ t[Len(t)].kind \in {"global", "endfunc"}
  /\ s # "root" => Scoped(t, G.funcs[G.cur]) /\ StateIs(t, s, G.funcs[G.cur])

\* A line inside a function is not the first.
LEMMA InsideIs ==
  ASSUME NEW t, IsSeq(t), Inside(t, Len(t) + 1)
  PROVE  Len(t) \in Nat \ {0}
<1>1. Len(t) \in Nat
  BY SeqIs
<1>2. From(t, Len(t) + 1, {"func", "endfunc"}) \in 0..((Len(t) + 1) - 1)
  BY <1>1, FromIs
<1> QED BY <1>1, <1>2 DEF Inside

\* func.
LEMMA FunctionStands ==
  ASSUME NEW G, Good(G), NEW t, NEW u, NEW l, Extends(t, u, l), l.kind = "func"
  PROVE  Stands(u, "funcargs", create_function(G, l.name))
<1> DEFINE B == NewBlock(<<"__entry__">>)
           bs == <<B>>
           F == [name |-> l.name, args |-> <<>>, slots |-> <<>>, blocks |-> bs]
           H == create_function(G, l.name)
<1>1. IsSeq(G.funcs) /\ Len(G.funcs) \in Nat
  BY SeqIs DEF Good
<1>2. H.funcs = Append(G.funcs, F) /\ H.cur = Len(G.funcs) + 1
  BY DEF create_function, Good
<1>3. Len(bs) = 1 /\ bs[1] = B
  OBVIOUS
<1>4. B.args = <<>> /\ B.code = <<>>
  BY DEF NewBlock
<1> HIDE DEF bs, B
<1>5. F.args = <<>> /\ F.slots = <<>> /\ F.blocks = bs
  OBVIOUS
<1> HIDE DEF F, H
<1>6. H.funcs[H.cur] = F
  BY <1>1, <1>2, AppendIs
<1>7. ParamsSeen(F, 1) = <<>>
  BY <1>5 DEF ParamsSeen
<1>8. FuncLine(u, Len(u) + 1) = Len(u) /\ BlockLine(u, Len(u) + 1) = Len(u) /\ Inside(u, Len(u) + 1)
  BY ScopeMoves
<1>9. ParamsAre(u, Len(u), Len(u), <<>>) /\ SlotsAre(u, Len(u), Len(u), <<>>) /\ OutputsAre(u, Len(u), Len(u), <<>>)
  BY NothingYet
<1>10. Scoped(u, F)
  BY <1>3, <1>4, <1>5, <1>7, <1>8, <1>9 DEF Scoped
<1>11. u[Len(u)] = l
  BY DEF Extends
<1>12. StateIs(u, "funcargs", F)
  BY <1>3, <1>4, <1>5, <1>8, <1>11 DEF StateIs
<1> QED BY <1>6, <1>8, <1>10, <1>12 DEF Stands, H

\* A parameter of the function.
LEMMA FuncargStands ==
  ASSUME NEW G, Good(G), G.cur # 0, G.failed = FALSE, NEW t, NEW u, NEW l, Extends(t, u, l), Stands(t, "funcargs", G),
         l.kind = "arg", l.name # NoName, Textual(l.name)
  PROVE  LET H == add_funcarg(G, G.cur, l.name, l.type)
         IN (H.failed <=> ~ArgFine(u, Len(u))) /\ (~H.failed => Stands(u, "funcargs", H))
<1> DEFINE f == G.cur
           func == G.funcs[f]
           v == <<"arg", 1, l.name, l.type>>
           F == [func EXCEPT !.args = Append(@, v)]
           H == [G EXCEPT !.funcs[f].args = Append(@, v)]
           taken == check_for_redefinition(func, 0, l.name)
           n == Len(t)
<1>1. add_funcarg(G, f, l.name, l.type) = IF taken THEN Fail(G) ELSE H
  BY DEF add_funcarg
<1>2. Fail(G).failed = TRUE /\ H.failed = FALSE /\ H.cur = f
  BY DEF Fail, Good
<1>3. f \in 1..Len(G.funcs) /\ DOMAIN G.funcs = 1..Len(G.funcs) /\ GoodFunction(func)
  BY SeqIs DEF Good
<1>4. H.funcs[f] = F
  BY <1>3 DEF Good
<1>5. F.args = Append(func.args, v) /\ F.slots = func.slots /\ F.blocks = func.blocks
  BY <1>3 DEF GoodFunction
<1>6. Scoped(t, func) /\ StateIs(t, "funcargs", func) /\ Inside(t, n + 1)
  BY DEF Stands
<1>7. /\ t[n].kind \in {"func", "arg"} /\ BlockLine(t, n + 1) = FuncLine(t, n + 1)
      /\ func.blocks[Len(func.blocks)].code = <<>>
  BY <1>6 DEF StateIs
<1>8. Len(func.blocks) = 1 /\ func.blocks[1].args = <<>>
  BY <1>6, <1>7 DEF Scoped
<1> HIDE DEF F, H, func
<1>9. ParamsSeen(func, 1) = func.args /\ ParamsSeen(F, 1) = F.args
  BY DEF ParamsSeen
<1>10. taken <=> l.name \in InUse(t, n + 1)
  <2>1. l.name \in InUse(t, n + 1) <=> l.name \in Names(func.args) \cup SlotNames(func.slots) \cup OutputNames(<<>>)
    BY <1>6, <1>7, <1>8, <1>9, NamesInUse
  <2>2. OutputNames(<<>>) = {}
    BY DEF OutputNames
  <2>3. taken <=> l.name \in Names(func.args) \cup SlotNames(func.slots)
    BY DEF check_for_redefinition
  <2> QED BY <2>1, <2>2, <2>3
<1> HIDE DEF taken
<1>11. n \in Nat \ {0} /\ Len(u) = n + 1 /\ u[Len(u)] = l /\ u[Len(u) - 1] = t[n]
  <2>1. n \in Nat \ {0} /\ Len(u) = n + 1 /\ u[Len(u)] = l /\ SameText(t, u, n)
    BY <1>6, InsideIs DEF Extends
  <2> QED BY <2>1 DEF SameText
<1>12. ArgFine(u, Len(u)) <=> ~taken
  <2>1. InUse(u, Len(u)) = InUse(t, n + 1)
    BY ScopeAt
  <2> QED BY <2>1, <1>7, <1>10, <1>11 DEF ArgFine
<1>13. ASSUME ~taken PROVE Stands(u, "funcargs", H)
  <2>1. /\ FuncLine(u, Len(u) + 1) = FuncLine(t, n + 1) /\ BlockLine(u, Len(u) + 1) = BlockLine(t, n + 1)
        /\ Inside(u, Len(u) + 1) /\ BlockLine(t, n + 1) \in 0..n /\ FuncLine(t, n + 1) \in 0..n
    BY <1>6, ScopeMoves
  <2>2. IsSeq(func.args)
    BY <1>3 DEF GoodFunction, AllParams
  <2>3. /\ ParamsAre(t, BlockLine(t, n + 1), n, func.args) /\ SlotsAre(t, FuncLine(t, n + 1), n, func.slots)
        /\ OutputsAre(t, BlockLine(t, n + 1), n, func.blocks[1].code)
    BY <1>6, <1>8, <1>9 DEF Scoped
  <2>4. l.name \notin Names(func.args)
    BY <1>13 DEF taken, check_for_redefinition
  <2>5. ParamsAre(u, BlockLine(t, n + 1), Len(u), F.args)
    BY <1>5, <2>1, <2>2, <2>3, <2>4, ParamsMore
  <2>6. SlotsAre(u, FuncLine(t, n + 1), Len(u), F.slots)
    BY <1>5, <2>1, <2>3, SlotsStay
  <2>7. OutputsAre(u, BlockLine(t, n + 1), Len(u), F.blocks[1].code)
    BY <1>5, <2>1, <2>3, OutputsStay
  <2>8. Scoped(u, F)
    BY <1>5, <1>7, <1>8, <1>9, <2>1, <2>5, <2>6, <2>7 DEF Scoped
  <2>9. StateIs(u, "funcargs", F)
    BY <1>5, <1>7, <1>11, <2>1 DEF StateIs
  <2> QED BY <1>2, <1>4, <2>1, <2>8, <2>9 DEF Stands
<1> QED BY <1>1, <1>2, <1>12, <1>13 DEF H

\* A slot: the first is behind the parameters of the function.
LEMMA SlotStands ==
  ASSUME NEW G, Good(G), G.cur # 0, G.failed = FALSE, NEW t, NEW u, NEW l, Extends(t, u, l), NEW s \in {"funcargs", "funcslots"},
         Stands(t, s, G), l.kind = "stack_slot", l.name # NoName, Textual(l.name)
  PROVE  LET H == add_stack_slot(G, G.cur, l.name)
         IN (H.failed <=> ~SlotFine(u, Len(u))) /\ (~H.failed => Stands(u, "funcslots", H))
<1> DEFINE f == G.cur
           func == G.funcs[f]
           v == <<"slot", l.name>>
           F == [func EXCEPT !.slots = Append(@, v)]
           H == [G EXCEPT !.funcs[f].slots = Append(@, v)]
           taken == check_for_redefinition(func, 0, l.name)
           n == Len(t)
<1>1. add_stack_slot(G, f, l.name) = IF taken THEN Fail(G) ELSE H
  BY DEF add_stack_slot
<1>2. Fail(G).failed = TRUE /\ H.failed = FALSE /\ H.cur = f
  BY DEF Fail, Good
<1>3. f \in 1..Len(G.funcs) /\ DOMAIN G.funcs = 1..Len(G.funcs) /\ GoodFunction(func)
  BY SeqIs DEF Good
<1>4. H.funcs[f] = F
  BY <1>3 DEF Good
<1>5. F.args = func.args /\ F.slots = Append(func.slots, v) /\ F.blocks = func.blocks
  BY <1>3 DEF GoodFunction
<1>6. Scoped(t, func) /\ StateIs(t, s, func) /\ Inside(t, n + 1)
  BY DEF Stands
<1>7. /\ t[n].kind \in {"func", "arg", "stack_slot"} /\ BlockLine(t, n + 1) = FuncLine(t, n + 1)
      /\ func.blocks[Len(func.blocks)].code = <<>>
  BY <1>6 DEF StateIs
<1>8. Len(func.blocks) = 1 /\ func.blocks[1].args = <<>>
  BY <1>6, <1>7 DEF Scoped
<1> HIDE DEF F, H, func
<1>9. ParamsSeen(func, 1) = func.args /\ ParamsSeen(F, 1) = F.args
  BY DEF ParamsSeen
<1>10. taken <=> l.name \in InUse(t, n + 1)
  <2>1. l.name \in InUse(t, n + 1) <=> l.name \in Names(func.args) \cup SlotNames(func.slots) \cup OutputNames(<<>>)
    BY <1>6, <1>7, <1>8, <1>9, NamesInUse
  <2>2. OutputNames(<<>>) = {}
    BY DEF OutputNames
  <2>3. taken <=> l.name \in Names(func.args) \cup SlotNames(func.slots)
    BY DEF check_for_redefinition
  <2> QED BY <2>1, <2>2, <2>3
<1> HIDE DEF taken
<1>11. n \in Nat \ {0} /\ Len(u) = n + 1 /\ u[Len(u)] = l /\ u[Len(u) - 1] = t[n]
  <2>1. n \in Nat \ {0} /\ Len(u) = n + 1 /\ u[Len(u)] = l /\ SameText(t, u, n)
    BY <1>6, InsideIs DEF Extends
  <2> QED BY <2>1 DEF SameText
<1>12. SlotFine(u, Len(u)) <=> ~taken
  <2>1. /\ InUse(u, Len(u)) = InUse(t, n + 1) /\ Inside(u, Len(u))
        /\ BlockLine(u, Len(u)) = BlockLine(t, n + 1) /\ FuncLine(u, Len(u)) = FuncLine(t, n + 1)
    BY <1>6, ScopeAt
  <2> QED BY <2>1, <1>7, <1>10, <1>11 DEF SlotFine
<1>13. ASSUME ~taken PROVE Stands(u, "funcslots", H)
  <2>1. /\ FuncLine(u, Len(u) + 1) = FuncLine(t, n + 1) /\ BlockLine(u, Len(u) + 1) = BlockLine(t, n + 1)
        /\ Inside(u, Len(u) + 1) /\ BlockLine(t, n + 1) \in 0..n /\ FuncLine(t, n + 1) \in 0..n
    BY <1>6, ScopeMoves
  <2>2. IsSeq(func.slots)
    BY <1>3 DEF GoodFunction, AllSlots
  <2>3. /\ ParamsAre(t, BlockLine(t, n + 1), n, func.args) /\ SlotsAre(t, FuncLine(t, n + 1), n, func.slots)
        /\ OutputsAre(t, BlockLine(t, n + 1), n, func.blocks[1].code)
    BY <1>6, <1>8, <1>9 DEF Scoped
  <2>4. ParamsAre(u, BlockLine(t, n + 1), Len(u), F.args)
    BY <1>5, <2>1, <2>3, ParamsStay
  <2>5. SlotsAre(u, FuncLine(t, n + 1), Len(u), F.slots)
    BY <1>5, <2>1, <2>2, <2>3, SlotsMore
  <2>6. OutputsAre(u, BlockLine(t, n + 1), Len(u), F.blocks[1].code)
    BY <1>5, <2>1, <2>3, OutputsStay
  <2>7. Scoped(u, F)
    BY <1>5, <1>7, <1>8, <1>9, <2>1, <2>4, <2>5, <2>6 DEF Scoped
  <2>8. StateIs(u, "funcslots", F)
    BY <1>5, <1>7, <1>11, <2>1 DEF StateIs
  <2> QED BY <1>2, <1>4, <2>1, <2>7, <2>8 DEF Stands
<1> QED BY <1>1, <1>2, <1>12, <1>13 DEF H

\* A block.
LEMMA BlockStands ==
  ASSUME NEW G, Good(G), G.cur # 0, G.failed = FALSE, NEW t, NEW u, NEW l, Extends(t, u, l), NEW s, s # "root",
         Stands(t, s, G), l.kind = "block"
  PROVE  LET H == create_block(G, l.name) IN H.failed = FALSE /\ Stands(u, "blockargs", H)
<1> DEFINE f == G.cur
           func == G.funcs[f]
           B == NewBlock(l.name)
           bs == func.blocks
           F == [func EXCEPT !.blocks = Append(@, B)]
           H == create_block(G, l.name)
           n == Len(t)
           m == Len(bs)
<1>1. f \in 1..Len(G.funcs) /\ DOMAIN G.funcs = 1..Len(G.funcs) /\ GoodFunction(func)
  BY SeqIs DEF Good
<1>2. H.failed = FALSE /\ H.cur = f /\ H.funcs[f] = F
  BY <1>1 DEF Good, create_block
<1>3. F.args = func.args /\ F.slots = func.slots /\ F.blocks = Append(bs, B)
  BY <1>1 DEF GoodFunction
<1>4. IsSeq(bs) /\ m \in Nat /\ m > 0
  BY <1>1, SeqIs DEF GoodFunction
<1>5. B.args = <<>> /\ B.code = <<>>
  BY DEF NewBlock
<1>6. Scoped(t, func) /\ Inside(t, n + 1)
  BY DEF Stands
<1> HIDE DEF F, H, B, bs, func
<1>7. Len(F.blocks) = m + 1 /\ F.blocks[m + 1] = B /\ F.blocks[1] = bs[1] /\ m + 1 # 1
  BY <1>3, <1>4, AppendIs
<1>8. ParamsSeen(F, m + 1) = <<>>
  BY <1>5, <1>7 DEF ParamsSeen
<1>9. /\ FuncLine(u, Len(u) + 1) = FuncLine(t, n + 1) /\ BlockLine(u, Len(u) + 1) = Len(u)
      /\ Inside(u, Len(u) + 1) /\ FuncLine(t, n + 1) \in 0..n /\ u[Len(u)] = l /\ Len(u) = n + 1 /\ n \in Nat
  BY <1>6, ScopeMoves, SeqIs DEF Extends
<1>10. FuncLine(t, n + 1) # Len(u)
  BY <1>9
<1>11. ParamsAre(u, Len(u), Len(u), <<>>) /\ OutputsAre(u, Len(u), Len(u), <<>>)
  BY NothingYet
<1>12. SlotsAre(u, FuncLine(t, n + 1), Len(u), F.slots)
  BY <1>3, <1>6, <1>9, SlotsStay DEF Scoped
<1>13. bs[1].args = <<>>
  BY <1>6 DEF Scoped, bs
<1>14. Scoped(u, F)
  BY <1>5, <1>7, <1>8, <1>9, <1>10, <1>11, <1>12, <1>13 DEF Scoped
<1>15. StateIs(u, "blockargs", F)
  BY SMTT(30), <1>5, <1>7, <1>9, <1>10 DEF StateIs
<1> QED BY <1>2, <1>9, <1>14, <1>15 DEF Stands, H

\* A parameter of a block.
LEMMA BlockargStands ==
  ASSUME NEW G, Good(G), G.cur # 0, G.failed = FALSE, NEW t, NEW u, NEW l, Extends(t, u, l), Stands(t, "blockargs", G),
         l.kind = "arg", l.name # NoName, Textual(l.name)
  PROVE  LET H == add_blockarg(G, l.name, l.type)
         IN (H.failed <=> ~ArgFine(u, Len(u))) /\ (~H.failed => Stands(u, "blockargs", H))
<1> DEFINE f == G.cur
           func == G.funcs[f]
           bs == func.blocks
           b == Len(bs)
           v == <<"arg", b, l.name, l.type>>
           B == [bs[b] EXCEPT !.args = Append(@, v)]
           F == [func EXCEPT !.blocks[b].args = Append(@, v)]
           H == [G EXCEPT !.funcs[f].blocks[b].args = Append(@, v)]
           taken == check_for_redefinition(func, b, l.name)
           n == Len(t)
<1>1. add_blockarg(G, l.name, l.type) = IF taken THEN Fail(G) ELSE H
  BY DEF add_blockarg
<1>2. Fail(G).failed = TRUE /\ H.failed = FALSE /\ H.cur = f
  BY DEF Fail, Good
<1>3. f \in 1..Len(G.funcs) /\ DOMAIN G.funcs = 1..Len(G.funcs) /\ GoodFunction(func)
  BY SMTT(30), SeqIs DEF Good
<1>4. H.funcs[f] = F
  BY <1>3 DEF Good
<1>5. IsSeq(bs) /\ b \in Nat /\ b > 0 /\ b \in 1..b /\ DOMAIN bs = 1..b /\ GoodBlock(func, b)
  BY <1>3, SeqIs DEF GoodFunction
<1>6. F.args = func.args /\ F.slots = func.slots /\ F.blocks = [bs EXCEPT ![b] = B]
  BY SMTT(30), <1>3 DEF GoodFunction
<1>7. B.args = Append(bs[b].args, v) /\ B.code = bs[b].code /\ AllParams(bs[b].args)
  BY <1>5 DEF GoodBlock
<1>8. Scoped(t, func) /\ StateIs(t, "blockargs", func) /\ Inside(t, n + 1)
  BY DEF Stands
<1>9. t[n].kind \in {"block", "arg"} /\ BlockLine(t, n + 1) # FuncLine(t, n + 1) /\ bs[b].code = <<>>
  BY <1>8 DEF StateIs
<1>10. b # 1 /\ bs[1].args = <<>>
  BY <1>8, <1>9 DEF Scoped
<1> HIDE DEF F, H, B
<1>11. Changed(bs, b, B, F.blocks)
  <2> HIDE DEF bs
  <2> QED BY <1>5, <1>6, ExceptIs
<1>12. Len(F.blocks) = b /\ F.blocks[b] = B /\ F.blocks[1] = bs[1]
  <2>1. 1 \in 1..b
    BY <1>5
  <2> QED BY <2>1, <1>10, <1>11 DEF Changed
<1>13. ParamsSeen(func, b) = bs[b].args /\ ParamsSeen(F, b) = B.args
  BY <1>10, <1>12 DEF ParamsSeen
<1>14. taken <=> l.name \in InUse(t, n + 1)
  <2>1. l.name \in InUse(t, n + 1) <=> l.name \in Names(bs[b].args) \cup SlotNames(func.slots) \cup OutputNames(<<>>)
    BY SMTT(30), <1>8, <1>9, <1>13, NamesInUse
  <2>2. taken <=> l.name \in Names(bs[b].args) \cup SlotNames(func.slots) \cup OutputNames(<<>>)
    BY <1>5, <1>9 DEF check_for_redefinition
  <2> QED BY <2>1, <2>2
<1> HIDE DEF taken
<1>15. n \in Nat \ {0} /\ Len(u) = n + 1 /\ u[Len(u)] = l /\ u[Len(u) - 1] = t[n]
  <2>1. n \in Nat \ {0} /\ Len(u) = n + 1 /\ u[Len(u)] = l /\ SameText(t, u, n)
    BY <1>8, InsideIs DEF Extends
  <2> QED BY <2>1 DEF SameText
<1>16. ArgFine(u, Len(u)) <=> ~taken
  <2>1. InUse(u, Len(u)) = InUse(t, n + 1)
    BY ScopeAt
  <2> QED BY <2>1, <1>9, <1>14, <1>15 DEF ArgFine
<1>17. ASSUME ~taken PROVE Stands(u, "blockargs", H)
  <2>1. /\ FuncLine(u, Len(u) + 1) = FuncLine(t, n + 1) /\ BlockLine(u, Len(u) + 1) = BlockLine(t, n + 1)
        /\ Inside(u, Len(u) + 1) /\ BlockLine(t, n + 1) \in 0..n /\ FuncLine(t, n + 1) \in 0..n
    BY SMTT(30), <1>8, ScopeMoves
  <2>2. IsSeq(bs[b].args)
    BY ZenonT(60), <1>7 DEF AllParams
  <2>3. /\ ParamsAre(t, BlockLine(t, n + 1), n, bs[b].args) /\ SlotsAre(t, FuncLine(t, n + 1), n, func.slots)
        /\ OutputsAre(t, BlockLine(t, n + 1), n, bs[b].code)
    BY <1>8, <1>13 DEF Scoped
  <2>4. l.name \notin Names(bs[b].args)
    BY <1>5, <1>17 DEF taken, check_for_redefinition
  <2> HIDE DEF v, func, bs, b
  <2>5. ParamsAre(u, BlockLine(t, n + 1), Len(u), B.args)
    <3>1. ParamsAre(u, BlockLine(t, n + 1), Len(u), Append(bs[b].args, <<"arg", b, l.name, l.type>>))
      BY <2>1, <2>2, <2>3, <2>4, ParamsMore
    <3> QED BY <3>1, <1>7 DEF v
  <2>6. SlotsAre(u, FuncLine(t, n + 1), Len(u), F.slots)
    BY <1>6, <2>1, <2>3, SlotsStay
  <2>7. OutputsAre(u, BlockLine(t, n + 1), Len(u), B.code)
    BY <1>7, <2>1, <2>3, OutputsStay
  <2>8. Scoped(u, F)
    BY <1>9, <1>10, <1>12, <1>13, <2>1, <2>5, <2>6, <2>7 DEF Scoped
  <2>9. StateIs(u, "blockargs", F)
    BY <1>7, <1>9, <1>12, <1>15, <2>1 DEF StateIs
  <2> QED BY <1>2, <1>4, <2>1, <2>8, <2>9 DEF Stands
<1> QED BY <1>1, <1>2, <1>16, <1>17 DEF H

\* A statement.
LEMMA StatementStands ==
  ASSUME NEW G, Good(G), G.cur # 0, NEW t, NEW u, NEW l, Extends(t, u, l), NEW s, s # "root", Stands(t, s, G),
         l.kind = "stmt", Textual(l.name), \A j \in 1..Len(t) : Textual(t[j].name), NEW H, StatementAdded(G, H, u, l)
  PROVE  Stands(u, "block", H)
<1> DEFINE f == G.cur
           func == G.funcs[f]
           bs == func.blocks
           b == Len(bs)
           code == bs[b].code
           n == Len(t)
<1>1. PICK c, st : /\ IsSeq(c) /\ WithCode(G, H, f, b, c) /\ Behind(code, st, c) /\ st.name = l.name
                   /\ l.name # NoName =>
                        l.name \notin OutputNames(code) /\ (st.type = "iptr" <=> DefinesAddress(u, Addresses(u), Len(u)))
  BY DEF StatementAdded
<1> DEFINE B == [bs[b] EXCEPT !.code = c]
           F == [func EXCEPT !.blocks[b].code = c]
<1>2. f \in 1..Len(G.funcs) /\ DOMAIN G.funcs = 1..Len(G.funcs) /\ GoodFunction(func)
  BY SMTT(30), SeqIs DEF Good
<1>3. H.cur = f /\ H.funcs[f] = F
  BY <1>1, <1>2 DEF WithCode
<1>4. IsSeq(bs) /\ b \in Nat /\ b > 0 /\ b \in 1..b /\ DOMAIN bs = 1..b /\ GoodBlock(func, b)
  BY <1>2, SeqIs DEF GoodFunction
<1>5. F.args = func.args /\ F.slots = func.slots /\ F.blocks = [bs EXCEPT ![b] = B]
  BY SMTT(30), <1>2 DEF GoodFunction
<1>6. B.args = bs[b].args /\ B.code = c /\ IsSeq(code)
  BY <1>4 DEF GoodBlock
<1>7. Scoped(t, func) /\ Inside(t, n + 1)
  BY DEF Stands
<1> HIDE DEF F, B
<1>8. Changed(bs, b, B, F.blocks)
  <2> HIDE DEF bs
  <2> QED BY <1>4, <1>5, ExceptIs
<1>9. Len(F.blocks) = b /\ F.blocks[b] = B /\ F.blocks[1].args = bs[1].args
  <2>1. 1 \in 1..b
    BY <1>4
  <2> QED BY <2>1, <1>6, <1>8 DEF Changed
<1>10. ParamsSeen(F, b) = ParamsSeen(func, b)
  BY <1>5, <1>6, <1>9 DEF ParamsSeen
<1>11. /\ FuncLine(u, Len(u) + 1) = FuncLine(t, n + 1) /\ BlockLine(u, Len(u) + 1) = BlockLine(t, n + 1)
       /\ Inside(u, Len(u) + 1) /\ BlockLine(t, n + 1) \in 0..n /\ FuncLine(t, n + 1) \in 0..n /\ u[Len(u)] = l
  BY <1>7, ScopeMoves DEF Extends
<1>12. /\ b = 1 <=> BlockLine(t, n + 1) = FuncLine(t, n + 1)
       /\ bs[1].args = <<>> /\ ParamsAre(t, BlockLine(t, n + 1), n, ParamsSeen(func, b))
       /\ SlotsAre(t, FuncLine(t, n + 1), n, func.slots) /\ OutputsAre(t, BlockLine(t, n + 1), n, code)
  BY <1>7 DEF Scoped
<1> HIDE DEF func, bs, b, code, f
<1>13. ParamsAre(u, BlockLine(t, n + 1), Len(u), ParamsSeen(F, b))
  BY <1>10, <1>11, <1>12, ParamsStay
<1>14. SlotsAre(u, FuncLine(t, n + 1), Len(u), F.slots)
  BY <1>5, <1>11, <1>12, SlotsStay
<1>15. OutputsAre(u, BlockLine(t, n + 1), Len(u), c)
  BY <1>1, <1>6, <1>11, <1>12, OutputsMore
<1>16. Scoped(u, F)
  BY <1>6, <1>9, <1>11, <1>12, <1>13, <1>14, <1>15 DEF Scoped
<1>17. StateIs(u, "block", F)
  BY <1>11 DEF StateIs
<1> QED BY SMTT(30), <1>3, <1>11, <1>16, <1>17 DEF Stands, f

-----------------------------------------------------------------------------
(* What is read and what is fine *)

TextInv ==
  front = "parser" =>
    /\ IsSeq(text) /\ \A i \in 1..Len(text) : text[i] \in Lines
    /\ pc = "crash" => \E i \in 1..Len(text) : ~LineFine(text, i)
    /\ pc # "crash" => \A i \in 1..Len(text) : LineFine(text, i)
    /\ pc = "open" => prog.failed = FALSE /\ Stands(text, state, prog)

\* A line is read: the text has it, and says of the lines above what it said.
LEMMA LineRead ==
  ASSUME NEW l, NEW kind, NEW in, Reading(l, kind, in), TextInv
  PROVE  /\ Extends(text, text', l) /\ l \in Lines /\ l.kind = kind /\ StateFor(kind) = in
         /\ prog.failed = FALSE /\ Stands(text, state, prog) /\ front' = "parser"
         /\ \A i \in 1..Len(text') : text'[i] \in Lines
         /\ \A i \in 1..Len(text) : LineFine(text', i) /\ text[i] \in Lines
<1>1. /\ front = "parser" /\ pc = "open" /\ text' = Append(text, l) /\ l \in Lines /\ l.kind = kind
      /\ StateFor(kind) = in /\ front' = front
  BY DEF Reading
<1>2. /\ IsSeq(text) /\ (\A i \in 1..Len(text) : text[i] \in Lines) /\ (\A i \in 1..Len(text) : LineFine(text, i))
      /\ prog.failed = FALSE /\ Stands(text, state, prog)
  BY <1>1 DEF TextInv
<1> DEFINE t == text
           u == text'
<1>3. /\ Len(t) \in Nat /\ IsSeq(u) /\ Len(u) = Len(t) + 1 /\ (\A i \in 1..Len(t) : u[i] = t[i]) /\ u[Len(t) + 1] = l
  BY <1>1, <1>2, AppendIs, SeqIs
<1>4. Extends(t, u, l)
  BY <1>2, <1>3 DEF Extends, SameText
<1>5. \A i \in 1..Len(u) : u[i] \in Lines
  <2>1. \A i \in 1..Len(u) : i \in 1..Len(t) \/ i = Len(t) + 1
    BY <1>3
  <2> QED BY <2>1, <1>1, <1>2, <1>3
<1>6. ASSUME NEW i \in 1..Len(t) PROVE LineFine(u, i)
  <2>1. i <= Len(u) /\ SameText(t, u, i)
    BY <1>3 DEF SameText
  <2>2. LineFine(u, i) <=> LineFine(t, i)
    BY <1>2, <1>3, <2>1, LineSame
  <2> QED BY <1>2, <2>2
<1> QED BY <1>1, <1>2, <1>4, <1>5, <1>6

\* The line is fine and the parser goes on, or it is not and an assertion fails.
LEMMA LineKeeps ==
  ASSUME TextInv, NEW l, NEW kind, NEW in, Reading(l, kind, in), NEW H, Became(H),
         H.failed <=> ~LineFine(text', Len(text')), ~H.failed => Stands(text', state', H)
  PROVE  TextInv'
<1> DEFINE u == text'
<1>1. /\ IsSeq(u) /\ Len(text) \in Nat /\ Len(u) = Len(text) + 1 /\ (\A i \in 1..Len(u) : u[i] \in Lines)
      /\ \A i \in 1..Len(text) : LineFine(u, i)
  BY LineRead, ExtendsIs DEF Extends
<1>2. prog' = H /\ pc' = IF H.failed THEN "crash" ELSE "open"
  BY DEF Became
<1>3. \A i \in 1..Len(u) : i \in 1..Len(text) \/ i = Len(u)
  BY <1>1
<1>4. Len(u) \in 1..Len(u)
  BY <1>1
<1>5. ~H.failed => \A i \in 1..Len(u) : LineFine(u, i)
  BY <1>1, <1>3
<1> QED BY <1>1, <1>2, <1>4, <1>5 DEF TextInv

\* Where the parser is when it reads a line in a function.
LEMMA ReadInside ==
  ASSUME IInv, TextInv, NEW l, NEW kind, NEW in, in # "root", Reading(l, kind, in)
  PROVE  /\ Extends(text, text', l) /\ l.kind = kind /\ prog.failed = FALSE /\ Stands(text, state, prog)
         /\ prog.cur # 0 /\ state # "root" /\ EncodableProgram(prog) /\ StateFor(kind) = in
         /\ \A j \in 1..Len(text) : text[j] \in Lines
<1>1. Extends(text, text', l) /\ prog.failed = FALSE /\ Stands(text, state, prog) /\ StateFor(kind) = in
  BY LineRead
<1>2. \A j \in 1..Len(text) : text[j] \in Lines
  BY LineRead
<1>3. prog.cur # 0 /\ state # "root" /\ EncodableProgram(prog) /\ l.kind = kind
  BY ReadingIs
<1> QED BY <1>1, <1>2, <1>3

\* The names of a text are not those that make_temp_name makes.
AllTextual == \A l \in Lines : TextualLine(l)

\* Whether a line of a kind is fine.
LEMMA FineIs ==
  ASSUME NEW t, NEW i
  PROVE  /\ t[i].kind \in {"func", "global"} => (LineFine(t, i) <=> ~Inside(t, i))
         /\ t[i].kind = "arg" => (LineFine(t, i) <=> ArgFine(t, i))
         /\ t[i].kind = "stack_slot" => (LineFine(t, i) <=> SlotFine(t, i))
         /\ t[i].kind \in {"block", "endfunc"} => (LineFine(t, i) <=> Inside(t, i))
         /\ t[i].kind = "stmt" => (LineFine(t, i) <=> StatementFine(t, i))
<1>1. CASE t[i].kind \in {"func", "global"}
  BY <1>1 DEF LineFine
<1>2. CASE t[i].kind = "arg"
  BY <1>2 DEF LineFine
<1>3. CASE t[i].kind = "stack_slot"
  BY <1>3 DEF LineFine
<1>4. CASE t[i].kind \in {"block", "endfunc"}
  BY <1>4 DEF LineFine
<1>5. CASE t[i].kind = "stmt"
  BY <1>5 DEF LineFine
<1> QED BY <1>1, <1>2, <1>3, <1>4, <1>5

\* The lines outside the functions, and the last of a function.
LEMMA OutsideKeeps ==
  ASSUME IInv, TextInv, ReadFunction \/ ReadGlobal \/ ReadEndfunc
  PROVE  TextInv'
<1>0. Good(prog)
  BY DEF IInv
<1>1. CASE ReadFunction
  <2> DEFINE H(l) == create_function(prog, l.name)
  <2>1. PICK l \in Lines : Reading(l, "func", "root") /\ Became(H(l)) /\ state' = "funcargs"
    BY <1>1 DEF ReadFunction
  <2>2. /\ Extends(text, text', l) /\ l.kind = "func" /\ prog.failed = FALSE /\ Stands(text, state, prog)
        /\ state = "root"
    BY <2>1, LineRead, ReadingIs
  <2>3. text'[Len(text')] = l
    BY <2>2 DEF Extends
  <2>4. LineFine(text', Len(text'))
    <3>1. ~Inside(text', Len(text'))
      BY <2>2, ScopeAt DEF Stands
    <3> QED BY <2>2, <2>3, <3>1, FineIs
  <2>5. Stands(text', "funcargs", H(l))
    BY <1>0, <2>2, FunctionStands
  <2>6. H(l).failed = FALSE
    BY <1>0, <2>2 DEF create_function, Good
  <2> HIDE DEF H
  <2> QED BY <2>1, <2>4, <2>5, <2>6, LineKeeps
<1>2. CASE ReadGlobal
  <2> DEFINE H(l) == [prog EXCEPT !.globals = Append(@, l.name)]
  <2>1. PICK l \in Lines : Reading(l, "global", "root") /\ Became(H(l)) /\ state' = "root"
    BY <1>2 DEF ReadGlobal
  <2>2. /\ Extends(text, text', l) /\ l.kind = "global" /\ prog.failed = FALSE /\ Stands(text, state, prog)
        /\ state = "root"
    BY <2>1, LineRead, ReadingIs
  <2>3. text'[Len(text')] = l
    BY <2>2 DEF Extends
  <2>4. LineFine(text', Len(text'))
    <3>1. ~Inside(text', Len(text'))
      BY <2>2, ScopeAt DEF Stands
    <3> QED BY <2>2, <2>3, <3>1, FineIs
  <2>5. ~Inside(text', Len(text') + 1)
    BY <2>2, ScopeMoves DEF Stands
  <2>6. H(l).failed = FALSE
    BY <1>0, <2>2 DEF Good
  <2> HIDE DEF H
  <2>7. Stands(text', "root", H(l))
    BY <2>2, <2>3, <2>5 DEF Stands
  <2> QED BY <2>1, <2>4, <2>6, <2>7, LineKeeps
<1>3. CASE ReadEndfunc
  <2> DEFINE H == [prog EXCEPT !.cur = 0]
  <2>1. PICK l \in Lines : Reading(l, "endfunc", "block") /\ Became(H) /\ state' = "root"
    BY <1>3 DEF ReadEndfunc
  <2>2. /\ Extends(text, text', l) /\ l.kind = "endfunc" /\ prog.failed = FALSE /\ Stands(text, state, prog)
        /\ state # "root"
    BY <2>1, "block" # "root", ReadInside
  <2>3. text'[Len(text')] = l
    BY <2>2 DEF Extends
  <2>4. LineFine(text', Len(text'))
    <3>1. Inside(text', Len(text'))
      BY <2>2, ScopeAt DEF Stands
    <3> QED BY <2>2, <2>3, <3>1, FineIs
  <2>5. ~Inside(text', Len(text') + 1)
    BY <2>2, ScopeMoves
  <2>6. H.failed = FALSE
    BY <1>0, <2>2 DEF Good
  <2> HIDE DEF H
  <2>7. Stands(text', "root", H)
    BY <2>2, <2>3, <2>5 DEF Stands
  <2> QED BY <2>1, <2>4, <2>6, <2>7, LineKeeps
<1> QED BY <1>1, <1>2, <1>3

\* The lines that name parameters, slots and blocks.
LEMMA NamesKeep ==
  ASSUME IInv, TextInv, AllTextual, ReadArg \/ ReadSlot \/ ReadBlock \/ ReadBlockArg
  PROVE  TextInv'
<1>0. Good(prog)
  BY DEF IInv
<1>1. CASE ReadArg
  <2> DEFINE H(l) == add_funcarg(prog, prog.cur, l.name, l.type)
  <2>1. PICK l \in Lines : Reading(l, "arg", "funcargs") /\ Became(H(l)) /\ state' = "funcargs"
    BY <1>1 DEF ReadArg
  <2>2. /\ Extends(text, text', l) /\ l.kind = "arg" /\ prog.failed = FALSE /\ Stands(text, state, prog)
        /\ prog.cur # 0 /\ StateFor("arg") = "funcargs"
    BY <2>1, "funcargs" # "root", ReadInside
  <2>3. state = "funcargs"
    BY <2>2 DEF StateFor
  <2>4. text'[Len(text')] = l /\ l.name # NoName /\ Textual(l.name)
    BY <2>2, LinesAssumption DEF Extends, AllTextual, TextualLine
  <2>5. (H(l).failed <=> ~ArgFine(text', Len(text'))) /\ (~H(l).failed => Stands(text', "funcargs", H(l)))
    BY <1>0, <2>2, <2>3, <2>4, FuncargStands
  <2>6. LineFine(text', Len(text')) <=> ArgFine(text', Len(text'))
    BY <2>2, <2>4, FineIs
  <2> HIDE DEF H
  <2> QED BY <2>1, <2>5, <2>6, LineKeeps
<1>2. CASE ReadSlot
  <2> DEFINE H(l) == add_stack_slot(prog, prog.cur, l.name)
  <2>1. PICK l \in Lines : Reading(l, "stack_slot", "funcslots") /\ Became(H(l)) /\ state' = "funcslots"
    BY <1>2 DEF ReadSlot
  <2>2. /\ Extends(text, text', l) /\ l.kind = "stack_slot" /\ prog.failed = FALSE /\ Stands(text, state, prog)
        /\ prog.cur # 0 /\ StateFor("stack_slot") = "funcslots"
    BY <2>1, "funcslots" # "root", ReadInside
  <2>3. state \in {"funcargs", "funcslots"}
    BY <2>2 DEF StateFor
  <2>4. text'[Len(text')] = l /\ l.name # NoName /\ Textual(l.name)
    BY <2>2, LinesAssumption DEF Extends, AllTextual, TextualLine
  <2>5. (H(l).failed <=> ~SlotFine(text', Len(text'))) /\ (~H(l).failed => Stands(text', "funcslots", H(l)))
    <3>1. CASE state = "funcargs"
      <4>1. Stands(text, "funcargs", prog) /\ "funcargs" \in {"funcargs", "funcslots"}
        BY <2>2, <3>1
      <4> QED BY <1>0, <2>2, <2>4, <4>1, SlotStands
    <3>2. CASE state = "funcslots"
      <4>1. Stands(text, "funcslots", prog) /\ "funcslots" \in {"funcargs", "funcslots"}
        BY <2>2, <3>2
      <4> QED BY <1>0, <2>2, <2>4, <4>1, SlotStands
    <3> QED BY <2>3, <3>1, <3>2
  <2>6. LineFine(text', Len(text')) <=> SlotFine(text', Len(text'))
    BY <2>2, <2>4, FineIs
  <2> HIDE DEF H
  <2> QED BY <2>1, <2>5, <2>6, LineKeeps
<1>3. CASE ReadBlock
  <2> DEFINE H(l) == create_block(prog, l.name)
  <2>1. PICK l \in Lines : Reading(l, "block", "block") /\ Became(H(l)) /\ state' = "blockargs"
    BY <1>3 DEF ReadBlock
  <2>2. /\ Extends(text, text', l) /\ l.kind = "block" /\ prog.failed = FALSE /\ Stands(text, state, prog)
        /\ prog.cur # 0 /\ state # "root"
    BY <2>1, "block" # "root", ReadInside
  <2>3. text'[Len(text')] = l
    BY <2>2 DEF Extends
  <2>4. LineFine(text', Len(text'))
    <3>1. Inside(text', Len(text'))
      BY <2>2, ScopeAt DEF Stands
    <3> QED BY <2>2, <2>3, <3>1, FineIs
  <2>5. H(l).failed = FALSE /\ Stands(text', "blockargs", H(l))
    BY <1>0, <2>2, BlockStands
  <2> HIDE DEF H
  <2> QED BY <2>1, <2>4, <2>5, LineKeeps
<1>4. CASE ReadBlockArg
  <2> DEFINE H(l) == add_blockarg(prog, l.name, l.type)
  <2>1. PICK l \in Lines : Reading(l, "arg", "blockargs") /\ Became(H(l)) /\ state' = "blockargs"
    BY <1>4 DEF ReadBlockArg
  <2>2. /\ Extends(text, text', l) /\ l.kind = "arg" /\ prog.failed = FALSE /\ Stands(text, state, prog)
        /\ prog.cur # 0 /\ StateFor("arg") = "blockargs"
    BY <2>1, "blockargs" # "root", ReadInside
  <2>3. state = "blockargs"
    BY <2>2 DEF StateFor
  <2>4. text'[Len(text')] = l /\ l.name # NoName /\ Textual(l.name)
    BY <2>2, LinesAssumption DEF Extends, AllTextual, TextualLine
  <2>5. (H(l).failed <=> ~ArgFine(text', Len(text'))) /\ (~H(l).failed => Stands(text', "blockargs", H(l)))
    BY <1>0, <2>2, <2>3, <2>4, BlockargStands
  <2>6. LineFine(text', Len(text')) <=> ArgFine(text', Len(text'))
    BY <2>2, <2>4, FineIs
  <2> HIDE DEF H
  <2> QED BY <2>1, <2>5, <2>6, LineKeeps
<1> QED BY <1>1, <1>2, <1>3, <1>4

\* A statement.
LEMMA StatementKeeps ==
  ASSUME IInv, TextInv, AllTextual, ReadStatement
  PROVE  TextInv'
<1>0. Good(prog)
  BY DEF IInv
<1> DEFINE H(l) == parse_statement(l)
<1>1. PICK l \in Lines : Reading(l, "stmt", "block") /\ Became(H(l)) /\ state' = "block"
  BY DEF ReadStatement
<1>2. /\ Extends(text, text', l) /\ l.kind = "stmt" /\ prog.failed = FALSE /\ Stands(text, state, prog)
      /\ prog.cur # 0 /\ state # "root" /\ EncodableProgram(prog)
      /\ \A j \in 1..Len(text) : text[j] \in Lines
  BY <1>1, "block" # "root", ReadInside
<1>3. text'[Len(text')] = l
  BY <1>2 DEF Extends
<1>4. TextualLine(l) /\ Textual(l.name) /\ \A j \in 1..Len(text) : Textual(text[j].name)
  BY <1>2 DEF AllTextual, TextualLine
<1>5. Inside(text, Len(text) + 1) /\ Scoped(text, Current)
  BY <1>2 DEF Stands, Current
<1>6. /\ H(l).failed <=> ~StatementFine(text', Len(text'))
      /\ ~H(l).failed => StatementAdded(prog, H(l), text', l)
  BY <1>0, <1>2, <1>4, <1>5, StatementAgrees
<1> HIDE DEF H
<1>7. ~H(l).failed => Stands(text', "block", H(l))
  BY <1>0, <1>2, <1>4, <1>6, StatementStands
<1>8. LineFine(text', Len(text')) <=> StatementFine(text', Len(text'))
  BY <1>2, <1>3, FineIs
<1> QED BY <1>1, <1>6, <1>7, <1>8, LineKeeps

\* A line out of place is not fine.
LEMMA MisplacedKeeps ==
  ASSUME IInv, TextInv, Misplaced
  PROVE  TextInv'
<1>0. Good(prog)
  BY DEF IInv
<1>1. PICK l \in Lines :
        /\ l.kind \in IF state = "root" THEN {"arg", "stack_slot", "block", "endfunc", "stmt"}
                      ELSE {"func", "global", "arg", "stack_slot"}
        /\ StateFor(l.kind) \in {"root", "block"} /\ Reading(l, l.kind, StateFor(l.kind))
  BY DEF Misplaced
<1>2. Became(Fail(prog)) /\ Fail(prog).failed = TRUE
  BY <1>0 DEF Misplaced, Fail, Good
<1>3. Extends(text, text', l) /\ Stands(text, state, prog)
  BY <1>1, LineRead
<1> DEFINE t == text
           u == text'
           n == Len(text)
<1>4. n \in Nat /\ Len(u) = n + 1 /\ u[Len(u)] = l /\ IsSeq(t) /\ (n # 0 => u[Len(u) - 1] = t[n])
  BY <1>3, SeqIs DEF Extends, SameText
<1>5. /\ Inside(u, Len(u)) = Inside(t, n + 1)
      /\ BlockLine(u, Len(u)) = BlockLine(t, n + 1) /\ FuncLine(u, Len(u)) = FuncLine(t, n + 1)
  BY <1>3, ScopeAt
<1>6. ~LineFine(u, Len(u))
  <2>1. CASE state = "root"
    <3>1. ~Inside(u, Len(u)) /\ (n = 0 \/ t[n].kind \in {"global", "endfunc"})
      BY <2>1, <1>3, <1>5 DEF Stands
    <3>2. ~ArgFine(u, Len(u))
      BY <3>1, <1>4 DEF ArgFine
    <3>3. ~SlotFine(u, Len(u)) /\ ~StatementFine(u, Len(u))
      BY <3>1 DEF SlotFine, StatementFine
    <3> QED BY <2>1, <3>1, <3>2, <3>3, <1>1, <1>4, FineIs
  <2>2. CASE state # "root"
    <3>1. Inside(u, Len(u)) /\ Inside(t, n + 1)
      BY <2>2, <1>3, <1>5 DEF Stands
    <3>2. StateFor(l.kind) = "block"
      BY <1>1, <2>2 DEF StateFor
    <3>3. StateIs(t, state, prog.funcs[prog.cur]) /\ state \in {"funcargs", "funcslots", "blockargs", "block"}
      BY <1>3, <2>2 DEF Stands, IInv
    <3>4. n # 0
      BY <3>1, <1>4, InsideIs
    <3>5. l.kind = "arg" => ~ArgFine(u, Len(u))
      <4>1. l.kind = "arg" => state \in {"funcslots", "block"}
        BY <3>2, <3>3 DEF StateFor
      <4> QED BY <4>1, <3>3, <3>4, <1>4 DEF StateIs, ArgFine
    <3>6. l.kind = "stack_slot" => ~SlotFine(u, Len(u))
      <4>1. l.kind = "stack_slot" => state \in {"blockargs", "block"}
        BY <3>2, <3>3 DEF StateFor
      <4> QED BY <4>1, <3>3, <3>4, <1>4, <1>5 DEF StateIs, SlotFine
    <3> QED BY <2>2, <3>1, <3>5, <3>6, <1>1, <1>4, FineIs
  <2> QED BY <2>1, <2>2
<1> QED BY <1>1, <1>2, <1>6, LineKeeps

\* Nothing has been read at first.
LEMMA TextInitially == Init => TextInv
<1> SUFFICES ASSUME Init PROVE TextInv
  OBVIOUS
<1>1. text = <<>> /\ pc = "open" /\ state = "root" /\ prog.failed = FALSE
  BY DEF Init, EmptyProgram
<1>2. IsSeq(text) /\ Len(text) = 0
  BY <1>1 DEF IsSeq
<1>3. ~Inside(text, Len(text) + 1)
  <2>1. From(text, 0 + 1, {"func", "endfunc"}) \in 0..((0 + 1) - 1)
    BY FromIs
  <2>2. From(text, 0 + 1, {"func", "endfunc"}) = 0
    BY <2>1
  <2> QED BY <2>2, <1>2 DEF Inside
<1>4. Stands(text, state, prog)
  BY <1>1, <1>2, <1>3 DEF Stands
<1>5. 1..Len(text) = {}
  BY <1>2
<1> QED BY <1>1, <1>2, <1>4, <1>5 DEF TextInv

\* One step of the parser or of the builder keeps what is known of the text.
LEMMA TextStep == AllTextual /\ IInv /\ TextInv /\ [Next]_vars => TextInv'
<1> SUFFICES ASSUME AllTextual, IInv, TextInv, [Next]_vars PROVE TextInv'
  OBVIOUS
<1>1. CASE ReadFunction \/ ReadGlobal \/ ReadEndfunc
  BY <1>1, OutsideKeeps
<1>2. CASE ReadArg \/ ReadSlot \/ ReadBlock \/ ReadBlockArg
  BY <1>2, NamesKeep
<1>3. CASE ReadStatement
  BY <1>3, StatementKeeps
<1>4. CASE Misplaced
  BY <1>4, MisplacedKeeps
<1>5. CASE EndOfFile
  BY <1>5 DEF EndOfFile, TextInv
<1>6. CASE BuildFunction \/ BuildBlock \/ BuildArg \/ BuildBlockArg \/ BuildSlot \/ Build \/ build_cmp \/ construct_jump
  <2>1. Calling
    BY <1>6 DEF BuildFunction, BuildBlock, BuildArg, BuildBlockArg, BuildSlot, Build, build_cmp, construct_jump
  <2> QED BY <2>1 DEF Calling, TextInv
<1>7. CASE Built
  BY <1>7 DEF Built, TextInv
<1>8. CASE Stop \/ UNCHANGED vars
  BY <1>8 DEF Stop, vars, TextInv
<1> QED BY <1>1, <1>2, <1>3, <1>4, <1>5, <1>6, <1>7, <1>8 DEF Next

\* The parser accepts exactly the language, whatever the lines are and however many: no
\* name of theirs may be one that make_temp_name makes, which Spec does not rule out.
THEOREM LanguageCorrect ==
  ASSUME AllTextual
  PROVE  Spec => []AcceptsExactly
<1>1. TextInv => AcceptsExactly
  <2> SUFFICES ASSUME TextInv PROVE AcceptsExactly
    OBVIOUS
  <2>1. front = "parser" => DOMAIN text = 1..Len(text)
    BY SeqIs DEF TextInv
  <2> QED BY <2>1 DEF TextInv, AcceptsExactly
<1>2. IInv /\ TextInv /\ [Next]_vars => TextInv'
  BY TextStep
<1> QED BY <1>1, <1>2, TextInitially, Invariant, PTL DEF Spec

=============================================================================
