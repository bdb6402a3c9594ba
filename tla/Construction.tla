---------------------------- MODULE Construction ----------------------------
(***************************************************************************)
(* src/bbae_construction.h and src/compiler_common.h: how a program is put *)
(* together, one function, block, parameter, slot or statement at a time.  *)
(* The parser and the builder API (Frontend) are two users of this.        *)
(*                                                                         *)
(* A program G is a record:                                                *)
(*   funcs    [name, args, slots, blocks], a block being [name, args,      *)
(*            code]; the first block is the entry block, whose parameters  *)
(*            are those of the function                                    *)
(*   cur      current_func, an index, 0 for none; current_block is always  *)
(*            its last block                                               *)
(*   globals  their names                                                  *)
(*   temps    temp_ctr, behind make_temp_name                              *)
(*   failed   an assertion has failed                                      *)
(* A statement is [name, op, args, type, src]: output_name and the type of *)
(* the output, NoName and NoType if there is none; src is auxiliary, the   *)
(* operands as they were written.  A name is a sequence: a text, or what   *)
(* make_temp_name puts together.  Operands are <<"arg", block, name, t>>,  *)
(* <<"ssa", block, name, t>>, <<"slot", name>>, <<"const", c, t>>,         *)
(* <<"type", t>>, <<"text", label>>, <<"sep">>.                            *)
(***************************************************************************)
EXTENDS Integers, Sequences, SequencesExt

NoName == <<>>
NoType == "none"
TempName(n) == <<"btemp", n>>
IsValue(o) == o[1] \in {"arg", "ssa", "slot", "const"}
TypeOf(v) == IF v[1] = "slot" THEN "iptr" ELSE IF v[1] = "const" THEN v[3] ELSE v[4]
type_is_float(t) == t \in {"f32", "f64"}
OutputOf(b, st) == <<"ssa", b, st.name, st.type>>
Names(values) == {values[k][3] : k \in DOMAIN values}
SlotNames(slots) == {slots[k][2] : k \in DOMAIN slots}
OutputNames(code) == {code[k].name : k \in DOMAIN code} \ {NoName}

EmptyProgram == [funcs |-> <<>>, cur |-> 0, globals |-> <<>>, temps |-> 0, failed |-> FALSE]
Fail(G) == [G EXCEPT !.failed = TRUE]

-----------------------------------------------------------------------------
(* Names *)

\* b = 0 stands for no block.  In the entry block the list of the block's parameters is
\* looked at, which is empty: those of the function are not found.
check_for_redefinition(func, b, name) ==
  name \in Names(IF b = 0 THEN func.args ELSE func.blocks[b].args)
             \cup SlotNames(func.slots)
             \cup (IF b = 0 THEN {} ELSE OutputNames(func.blocks[b].code))

\* The parameters that statements of a block see.
ParamsSeen(func, b) == IF b = 1 THEN func.args ELSE func.blocks[b].args

First(places) == CHOOSE k \in places : \A j \in places : k <= j

\* Mutant: the outputs of the entry block are looked at.
lookup_name_entry(func, b, name) ==
  LET args == ParamsSeen(func, b)
      outs == func.blocks[1].code
      among_args == {k \in DOMAIN args : args[k][3] = name}
      among_slots == {k \in DOMAIN func.slots : func.slots[k][2] = name}
      among_outs == {k \in DOMAIN outs : outs[k].name = name}
  IN IF among_args # {} THEN args[First(among_args)]
     ELSE IF among_slots # {} THEN func.slots[First(among_slots)]
     ELSE IF among_outs # {} THEN OutputOf(1, outs[First(among_outs)])
     ELSE <<>>

\* The value of a name: parameters, then slots, then outputs, the first found; <<>> fails.
lookup_name(func, b, name) ==
  LET args == ParamsSeen(func, b)
      outs == func.blocks[b].code
      among_args == {k \in DOMAIN args : args[k][3] = name}
      among_slots == {k \in DOMAIN func.slots : func.slots[k][2] = name}
      among_outs == {k \in DOMAIN outs : outs[k].name = name}
  IN IF among_args # {} THEN args[First(among_args)]
     ELSE IF among_slots # {} THEN func.slots[First(among_slots)]
     ELSE IF among_outs # {} THEN OutputOf(b, outs[First(among_outs)])
     ELSE <<>>

-----------------------------------------------------------------------------
(* Statements *)

Arithmetic ==
  {"add", "sub", "mul", "imul", "div", "idiv", "rem", "irem", "shl", "shr", "sar",
   "fadd", "fsub", "fmul", "fdiv", "fxor"}
Unsafe == {"div_unsafe", "idiv_unsafe", "rem_unsafe", "irem_unsafe", "shr_unsafe", "sar_unsafe"}
Bitwise3 == {"and", "or", "xor"}
Comparisons ==
  {"cmp_g", "cmp_ge", "cmp_l", "cmp_le", "cmp_eq", "cmp_ne", "icmp_g", "icmp_ge", "icmp_l", "icmp_le",
   "fcmp_g", "fcmp_ge", "fcmp_l", "fcmp_le"}
FloatEquality == {"fcmp_eq", "fcmp_ne"}
IntCasts == {"trim", "qext", "sext", "zext"}
FloatCasts ==
  {"float_to_uint", "float_to_uint_unsafe", "uint_to_float", "float_to_sint", "float_to_sint_unsafe",
   "sint_to_float", "bitcast"}
Lookups == {"symbol_lookup", "symbol_lookup_unsized"}

\* The operations whose output has the type of the first operand, and those that name it.
SameType == Arithmetic \cup Unsafe \cup Bitwise3 \cup {"neg", "fneg", "mov"}
NamedType == {"load", "extract"} \cup IntCasts \cup FloatCasts

\* add_statement_output.  Whatever none of the lists names becomes an f32, f64_to_f32
\* becomes an f64: the last two comparisons lack their == 0.
OutputType(st) ==
  IF st.op \in SameType
  THEN IF IsValue(st.args[1]) THEN TypeOf(st.args[1]) ELSE "fails"
  ELSE IF st.op \in NamedType
  THEN IF st.args[1][1] = "type" THEN st.args[1][2] ELSE "fails"
  ELSE IF st.op \in Comparisons \cup FloatEquality THEN "i8"
  ELSE IF st.op \in Lookups THEN "iptr"
  ELSE IF st.op # "f64_to_f32" THEN "f32" ELSE "f64"

\* imm_op_rule_determiner: the operands that may not be constants.
NoImmediate(st) ==
  CASE st.op \in {"add", "sub"} -> {1}
    [] st.op \in {"mul", "imul", "div", "idiv", "rem", "irem", "fadd", "fsub", "fmul", "fxor", "fdiv"} -> {1, 2}
    [] st.op = "bitcast" -> IF type_is_float(st.type) THEN {1, 2} ELSE {1}
    [] st.op = "return" -> IF type_is_float(TypeOf(st.args[1])) THEN {1} ELSE {}
    [] OTHER -> {}

\* What an operand becomes: a mov of its own, whose output takes its place.
Moved(operand, temp) ==
  [name |-> TempName(temp), op |-> "mov", args |-> <<operand>>, type |-> TypeOf(operand), src |-> <<operand>>]

\* Mutant: the place of the statement is taken from before the first move.
MoveOut_overwrite(code, b, i, temp) ==
  LET st == Last(code)
      mov == Moved(st.args[i], temp)
  IN SubSeq(code, 1, Len(code) - 2) \o <<mov, [st EXCEPT !.args[i] = OutputOf(b, mov)]>>

\* An operand of the last statement is moved out, right above the statement.
MoveOut(code, b, i, temp) ==
  LET st == Last(code)
      mov == Moved(st.args[i], temp)
  IN Front(code) \o <<mov, [st EXCEPT !.args[i] = OutputOf(b, mov)]>>

\* What the first loop moves out, addresses of slots except where load, store and mov take
\* them, and the second, constants.
NotEncodable(st, i, loop) ==
  IF loop = 1 THEN st.op \notin {"load", "store", "mov"} /\ st.args[i][1] = "slot"
  ELSE i \in NoImmediate(st) /\ st.args[i][1] = "const"

\* Turn n of the two loops over the count operands of the last statement; temp_ctr was
\* temps when the block had len statements.
LegalizeTurn(code, b, n, count, temps, len) ==
  LET loop == IF n <= count THEN 1 ELSE 2
      i == IF n <= count THEN n ELSE n - count
  IN IF NotEncodable(Last(code), i, loop) THEN MoveOut(code, b, i, temps + 1 + (Len(code) - len)) ELSE code

legalize_last_statement_operands(code, b, temps) ==
  LET count == Len(Last(code).args)
      after[n \in 0..(2 * count)] ==
        IF n = 0 THEN code ELSE LegalizeTurn(after[n - 1], b, n, count, temps, Len(code))
  IN after[2 * count]

\* The rule for return reads an operand that a return without a value does not have.
block_append_statement(G, f, b, st) ==
  LET type == IF st.name = NoName THEN NoType ELSE OutputType(st)
      code == Append(G.funcs[f].blocks[b].code, [st EXCEPT !.type = type])
      legal == legalize_last_statement_operands(code, b, G.temps)
      H == [G EXCEPT !.funcs[f].blocks[b].code = legal, !.temps = @ + (Len(legal) - Len(code))]
  IN IF type = "fails" THEN Fail(G) ELSE IF st.op = "return" /\ st.args = <<>> THEN Fail(H) ELSE H

-----------------------------------------------------------------------------
(* The rest of the construction *)

NewBlock(name) == [name |-> name, args |-> <<>>, code |-> <<>>]

create_function(G, name) ==
  [G EXCEPT !.funcs = Append(@, [name |-> name, args |-> <<>>, slots |-> <<>>, blocks |-> <<NewBlock(<<"__entry__">>)>>]),
            !.cur = Len(G.funcs) + 1]

\* Nothing asks whether the name is taken.
create_block(G, name) == [G EXCEPT !.funcs[G.cur].blocks = Append(@, NewBlock(name))]

add_funcarg(G, f, name, type) ==
  IF check_for_redefinition(G.funcs[f], 0, name) THEN Fail(G)
  ELSE [G EXCEPT !.funcs[f].args = Append(@, <<"arg", 1, name, type>>)]

add_blockarg(G, name, type) ==
  LET f == G.cur
      b == Len(G.funcs[f].blocks)
  IN IF check_for_redefinition(G.funcs[f], b, name) THEN Fail(G)
     ELSE [G EXCEPT !.funcs[f].blocks[b].args = Append(@, <<"arg", b, name, type>>)]

add_stack_slot(G, f, name) ==
  IF check_for_redefinition(G.funcs[f], 0, name) THEN Fail(G)
  ELSE [G EXCEPT !.funcs[f].slots = Append(@, <<"slot", name>>)]
=============================================================================
