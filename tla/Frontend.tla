------------------------------ MODULE Frontend ------------------------------
(***************************************************************************)
(* The two ways to make a program: parse_file of src/bbae_construction.h,  *)
(* which reads a text line by line in one of five states, and the calls of *)
(* src/bbae_builder.h, in any order.  A line is a record: kind, name, type *)
(* (of a parameter), op and toks (of a statement), where a token is        *)
(* <<"name", n>> or an operand that needs no lookup.  A call is an op and  *)
(* the kinds of its operands.                                              *)
(***************************************************************************)
EXTENDS Construction, FiniteSets

CONSTANTS
  Lines,     \* lines a text may have
  MaxLines,  \* bound on their number
  Calls,     \* statements the builder is asked for: [op, shape]
  Given,     \* constants, types and labels its callers pass
  SlotName, ArgName,
  MaxCalls   \* bound on the number of calls

Types == {"i8", "i16", "i32", "i64", "iptr", "f32", "f64"}

\* An operand that needs no lookup and is no value of the program.
IsPlain(o) ==
  /\ o # <<>>
  /\ \/ o[1] = "const" /\ o[3] \in Types
     \/ o[1] = "type" /\ o[2] \in Types
     \/ o[1] \in {"text", "sep"}

\* An operand that is read as a value.
IsValueToken(tok) == tok[1] \in {"name", "const"}

\* A parameter has a name and a type, a slot a name; an operation, which has an output,
\* has an operand, read as what the operation takes there.
ASSUME LinesAssumption ==
  \A l \in Lines :
    /\ l.type \in Types
    /\ l.toks \in Seq(ToSet(l.toks))
    /\ \A tok \in ToSet(l.toks) : (tok[1] = "name" /\ tok[2] # NoName) \/ IsPlain(tok)
    /\ l.kind \in {"arg", "stack_slot"} => l.name # NoName
    /\ l.kind = "stmt" /\ l.name # NoName =>
         /\ l.toks # <<>>
         /\ l.op \in SameType => IsValueToken(l.toks[1])
         /\ l.op \in NamedType => l.toks[1][1] = "type"
         /\ l.op = "call_eval" /\ Len(l.toks) > 1 => IsValueToken(l.toks[2])
ASSUME CallsAssumption ==
  \A c \in Calls : c.shape \in Seq(ToSet(c.shape)) /\ (c.shape = <<>> => c.op \in {"return", "breakpoint"})
ASSUME GivenAssumption == \A o \in Given : IsPlain(o)

VARIABLES
  front,  \* "parser" or "builder"
  prog,   \* the program
  state,  \* BBAE_PARSER_STATE
  text,   \* auxiliary: the lines read
  calls,  \* auxiliary: number of calls made
  pc      \* "open", "done" or "crash"

vars == <<front, prog, state, text, calls, pc>>

Init ==
  /\ front \in {"parser", "builder"}
  /\ prog = EmptyProgram
  /\ state = "root"
  /\ text = <<>>
  /\ calls = 0
  /\ pc = "open"

Current == prog.funcs[prog.cur]
Became(G) == prog' = G /\ pc' = IF G.failed THEN "crash" ELSE "open"

-----------------------------------------------------------------------------
(* The parser *)

\* The state that a line is handled in: a line that does not belong to the current list
\* ends it.
StateFor(kind) ==
  CASE state = "blockargs" /\ kind # "arg" -> "block"
    [] state = "funcargs" /\ kind = "stack_slot" -> "funcslots"
    [] state = "funcargs" /\ kind \notin {"arg", "stack_slot"} -> "block"
    [] state = "funcslots" /\ kind # "stack_slot" -> "block"
    [] OTHER -> state

Reading(l, kind, in) ==
  /\ front = "parser" /\ pc = "open" /\ Len(text) < MaxLines
  /\ l \in Lines /\ l.kind = kind /\ StateFor(kind) = in
  /\ text' = Append(text, l)
  /\ UNCHANGED <<front, calls>>

ReadFunction == \E l \in Lines : Reading(l, "func", "root") /\ Became(create_function(prog, l.name)) /\ state' = "funcargs"
ReadGlobal ==
  \E l \in Lines : Reading(l, "global", "root") /\ Became([prog EXCEPT !.globals = Append(@, l.name)]) /\ state' = "root"
ReadArg ==
  \E l \in Lines : Reading(l, "arg", "funcargs") /\ Became(add_funcarg(prog, prog.cur, l.name, l.type)) /\ state' = "funcargs"
ReadSlot ==
  \E l \in Lines : Reading(l, "stack_slot", "funcslots") /\ Became(add_stack_slot(prog, prog.cur, l.name)) /\ state' = "funcslots"
ReadBlock == \E l \in Lines : Reading(l, "block", "block") /\ Became(create_block(prog, l.name)) /\ state' = "blockargs"
ReadBlockArg ==
  \E l \in Lines : Reading(l, "arg", "blockargs") /\ Became(add_blockarg(prog, l.name, l.type)) /\ state' = "blockargs"

ReadEndfunc == \E l \in Lines : Reading(l, "endfunc", "block") /\ Became([prog EXCEPT !.cur = 0]) /\ state' = "root"

Operations ==
  (Arithmetic \cup Unsafe \cup Bitwise3 \cup Comparisons \cup FloatEquality
    \cup {"frem", "ptralias", "ptralias_merge", "ptralias_disjoint"})
  \cup {"bnot", "not", "bool", "neg", "f32_to_f64", "f64_to_f32", "freeze", "ptralias_bless", "mov"}
  \cup {"load"} \cup IntCasts \cup FloatCasts \cup Lookups \cup {"call_eval"}
Instructions == {"return", "breakpoint", "store", "if", "goto"}

parse_value(tok, b) == IF tok[1] = "name" THEN lookup_name(Current, b, tok[2]) ELSE tok

\* Mutant: nothing asks whether the name is taken.
parse_statement_unasked(l) ==
  LET b == Len(Current.blocks)
      args == [k \in DOMAIN l.toks |-> parse_value(l.toks[k], b)]
  IN IF l.op \notin (IF l.name = NoName THEN Instructions ELSE Operations) THEN Fail(prog)
     ELSE IF <<>> \in ToSet(args) THEN Fail(prog)
     ELSE IF l.op = "call_eval" /\ Len(args) > 1 /\ TypeOf(args[2]) # "iptr" THEN Fail(prog)
     ELSE block_append_statement(prog, prog.cur, b,
            [name |-> l.name, op |-> l.op, args |-> args, type |-> NoType, src |-> l.toks])

\* A name on the left that is in use, an unknown operation or instruction, an unknown
\* operand, and a call_eval of what is no address fail.
parse_statement(l) ==
  LET b == Len(Current.blocks)
      args == [k \in DOMAIN l.toks |-> parse_value(l.toks[k], b)]
  IN IF l.name # NoName /\ check_for_redefinition(Current, b, l.name) THEN Fail(prog)
     ELSE IF l.op \notin (IF l.name = NoName THEN Instructions ELSE Operations) THEN Fail(prog)
     ELSE IF <<>> \in ToSet(args) THEN Fail(prog)
     ELSE IF l.op = "call_eval" /\ Len(args) > 1 /\ TypeOf(args[2]) # "iptr" THEN Fail(prog)
     ELSE block_append_statement(prog, prog.cur, b,
            [name |-> l.name, op |-> l.op, args |-> args, type |-> NoType, src |-> l.toks])

ReadStatement == \E l \in Lines : Reading(l, "stmt", "block") /\ Became(parse_statement(l)) /\ state' = "block"

\* An unknown directive, or what becomes an unknown instruction.
Misplaced ==
  /\ \E l \in Lines :
       /\ StateFor(l.kind) \in {"root", "block"}
       /\ l.kind \in IF state = "root" THEN {"arg", "stack_slot", "block", "endfunc", "stmt"}
                     ELSE {"func", "global", "arg", "stack_slot"}
       /\ Reading(l, l.kind, StateFor(l.kind))
  /\ Became(Fail(prog))
  /\ UNCHANGED state

EndOfFile == front = "parser" /\ pc = "open" /\ pc' = "done" /\ UNCHANGED <<front, prog, state, text, calls>>

-----------------------------------------------------------------------------
(* The builder *)

Calling ==
  /\ front = "builder" /\ pc = "open" /\ calls < MaxCalls
  /\ calls' = calls + 1
  /\ UNCHANGED <<front, state, text>>

BuildFunction == Calling /\ prog.funcs = <<>> /\ Became(create_function(prog, <<"f">>))
BuildBlock == Calling /\ prog.cur # 0 /\ Became([create_block(prog, TempName(prog.temps + 1)) EXCEPT !.temps = @ + 1])
BuildArg == Calling /\ prog.cur # 0 /\ Became(add_funcarg(prog, prog.cur, ArgName, "i64"))
BuildBlockArg == Calling /\ prog.cur # 0 /\ Became(add_blockarg(prog, ArgName, "i64"))
BuildSlot == Calling /\ prog.cur # 0 /\ Became(add_stack_slot(prog, prog.cur, SlotName))

\* init_statement_auto_output: the operations that get an output.
AutoOutput ==
  Arithmetic \cup {"mov", "load", "neg", "fneg", "extract"} \cup IntCasts \cup FloatCasts
    \cup Comparisons \cup Lookups \cup {"call_eval", "call"}

\* What the caller can name in a block.
InScope(b) ==
  ToSet(ParamsSeen(Current, b)) \cup ToSet(Current.slots)
    \cup {OutputOf(b, st) : st \in {s \in ToSet(Current.blocks[b].code) : s.name # NoName}}

\* build_statement_2val and its like, in any block of the function.
build_statement(b, op, args) ==
  LET named == op \in AutoOutput
      G == IF named THEN [prog EXCEPT !.temps = @ + 1] ELSE prog
  IN block_append_statement(G, G.cur, b,
       [name |-> IF named THEN TempName(G.temps) ELSE NoName, op |-> op, args |-> args,
        type |-> NoType, src |-> args])

Arguments(c, b) ==
  {args \in [DOMAIN c.shape -> InScope(b) \cup Given] :
     \A k \in DOMAIN args : args[k][1] \in (IF c.shape[k] = "value" THEN {"arg", "ssa", "slot", "const"} ELSE {c.shape[k]})}

Jumps == {"goto", "if"}
Compares == Comparisons \cup FloatEquality

Build ==
  /\ Calling /\ prog.cur # 0
  /\ \E c \in Calls : c.op \notin Jumps \cup Compares /\ \E b \in DOMAIN Current.blocks :
     \E args \in Arguments(c, b) : Became(build_statement(b, c.op, args))

\* build_ucmp, build_icmp, build_fcmp: only two values of one type are compared.
build_cmp ==
  /\ Calling /\ prog.cur # 0
  /\ \E c \in Calls : c.op \in Compares /\ \E b \in DOMAIN Current.blocks : \E args \in Arguments(c, b) :
       Became(IF TypeOf(args[1]) = TypeOf(args[2]) THEN build_statement(b, c.op, args) ELSE Fail(prog))

\* construct_goto, construct_if, construct_ifelse: no output, whatever the operands.
construct_jump ==
  /\ Calling /\ prog.cur # 0
  /\ \E c \in Calls : c.op \in Jumps /\ \E b \in DOMAIN Current.blocks : \E args \in Arguments(c, b) :
       Became(block_append_statement(prog, prog.cur, b,
                [name |-> NoName, op |-> c.op, args |-> args, type |-> NoType, src |-> args]))

Built == front = "builder" /\ pc = "open" /\ pc' = "done" /\ UNCHANGED <<front, prog, state, text, calls>>

Stop == pc \in {"done", "crash"} /\ UNCHANGED vars

Next ==
  \/ ReadFunction \/ ReadGlobal \/ ReadArg \/ ReadSlot \/ ReadBlock \/ ReadBlockArg \/ ReadEndfunc
  \/ ReadStatement \/ Misplaced \/ EndOfFile
  \/ BuildFunction \/ BuildBlock \/ BuildArg \/ BuildBlockArg \/ BuildSlot \/ Build \/ build_cmp \/ construct_jump \/ Built
  \/ Stop

Spec == Init /\ [][Next]_vars
-----------------------------------------------------------------------------
(* Properties *)

CodeOf(f, b) == prog.funcs[f].blocks[b].code

TypeOK ==
  /\ pc \in {"open", "done", "crash"}
  /\ state \in {"root", "funcargs", "funcslots", "blockargs", "block"}
  /\ prog.cur \in 0..Len(prog.funcs)
  /\ (front = "parser" /\ pc = "open") => (state = "root" <=> prog.cur = 0)
  /\ \A f \in DOMAIN prog.funcs : \A b \in DOMAIN prog.funcs[f].blocks : \A k \in DOMAIN CodeOf(f, b) :
       LET st == CodeOf(f, b)[k] IN (st.name = NoName <=> st.type = NoType) /\ st.type \in Types \cup {NoType}

\* What an operand of statement k stands for: legalize_last_statement_operands puts a mov in
\* between.
Written(b, code, k, o) ==
  {o} \cup {code[j].args[1] : j \in {j \in 1..(k - 1) :
              code[j].op = "mov" /\ code[j].src = code[j].args /\ OutputOf(b, code[j]) = o}}

\* The definitions of a name that are in scope at statement k.
Definitions(func, b, code, k, name) ==
  {v \in ToSet(ParamsSeen(func, b)) : v[3] = name} \cup {v \in ToSet(func.slots) : v[2] = name}
    \cup {OutputOf(b, code[j]) : j \in {j \in 1..(k - 1) : code[j].name = name}}

MeantBy(func, b, code, k, tok) ==
  IF tok[1] = "name" THEN Definitions(func, b, code, k, tok[2]) ELSE {tok}

StatementMeant(func, b, code, k) ==
  LET st == code[k] IN
  /\ Len(st.args) = Len(st.src)
  /\ \A i \in DOMAIN st.args : \E v \in MeantBy(func, b, code, k, st.src[i]) : v \in Written(b, code, k, st.args[i])

\* Every operand of every statement, looked at through the moves that legalising it put
\* in between, is what the text names or the caller gave, in the block of the statement
\* and above it: however many operands are moved out, and whatever is added later.
OperandsMeant ==
  \A f \in DOMAIN prog.funcs : \A b \in DOMAIN prog.funcs[f].blocks : \A k \in DOMAIN CodeOf(f, b) :
    StatementMeant(prog.funcs[f], b, CodeOf(f, b), k)

StatementComputed(b, code, k) ==
  \A i \in DOMAIN code[k].args : code[k].args[i][1] = "ssa" =>
    \E j \in 1..(k - 1) : OutputOf(b, code[j]) = code[k].args[i]

\* A value is computed above its uses, moves that were put in included.
ComputedAbove ==
  \A f \in DOMAIN prog.funcs : \A b \in DOMAIN prog.funcs[f].blocks : \A k \in DOMAIN CodeOf(f, b) :
    StatementComputed(b, CodeOf(f, b), k)

StatementEncodable(st) ==
  \A i \in DOMAIN st.args :
    /\ st.op \notin {"load", "store", "mov"} => st.args[i][1] # "slot"
    /\ i \in NoImmediate(st) => st.args[i][1] # "const"

\* What the emitter relies on: a slot's address is an operand of load, store and mov
\* only, a constant stands only where the instruction has an immediate.
Encodable ==
  pc # "crash" =>
    \A f \in DOMAIN prog.funcs : \A b \in DOMAIN prog.funcs[f].blocks : \A k \in DOMAIN CodeOf(f, b) :
      StatementEncodable(CodeOf(f, b)[k])

\* What is built is a program the later stages can work on.
Formed == TypeOK /\ ComputedAbove /\ Encodable

\* The language of the text, without the parser's states: line i of the text t.
From(t, i, kinds) == LET js == {j \in 1..(i - 1) : t[j].kind \in kinds} IN IF js = {} THEN 0 ELSE CHOOSE j \in js : \A k \in js : k <= j
Inside(t, i) == LET j == From(t, i, {"func", "endfunc"}) IN j # 0 /\ t[j].kind = "func"
Between(t, j, i, kind) == {t[k].name : k \in {k \in (j + 1)..(i - 1) : t[k].kind = kind}} \ {NoName}
FuncLine(t, i) == From(t, i, {"func"})
BlockLine(t, i) == From(t, i, {"func", "block"})
Slots(t, i) == Between(t, FuncLine(t, i), i, "stack_slot")
InUse(t, i) == Slots(t, i) \cup Between(t, BlockLine(t, i), i, "stmt") \cup Between(t, BlockLine(t, i), i, "arg")

\* The lines that define what a name stands for at line i.
Meaning(t, i, name) ==
  LET from(j0, kind) == {j \in (j0 + 1)..(i - 1) : t[j].kind = kind /\ t[j].name = name}
      args == from(BlockLine(t, i), "arg")
      slots == from(FuncLine(t, i), "stack_slot")
  IN IF args # {} THEN args ELSE IF slots # {} THEN slots ELSE from(BlockLine(t, i), "stmt")

\* Whether what a token of line i, or the line itself, stands for is an address, addr says
\* so of the lines above.
IsAddress(t, addr, i, tok) ==
  IF tok[1] = "name" THEN \E j \in Meaning(t, i, tok[2]) : addr[j] ELSE tok[3] = "iptr"
DefinesAddress(t, addr, i) ==
  LET l == t[i]
  IN \/ l.kind = "stack_slot"
     \/ l.kind = "arg" /\ l.type = "iptr"
     \/ /\ l.kind = "stmt" /\ l.name # NoName
        /\ \/ l.op \in Lookups
           \/ l.op \in NamedType /\ l.toks[1][2] = "iptr"
           \/ l.op \in SameType /\ IsAddress(t, addr, i, l.toks[1])
Addresses(t) == LET addr[i \in DOMAIN t] == DefinesAddress(t, addr, i) IN addr

ArgFine(t, i) == i > 1 /\ t[i - 1].kind \in {"func", "block", "arg"} /\ t[i].name \notin InUse(t, i)
SlotFine(t, i) ==
  /\ Inside(t, i) /\ BlockLine(t, i) = FuncLine(t, i)
  /\ t[i - 1].kind \in {"func", "arg", "stack_slot"}
  /\ t[i].name \notin InUse(t, i)
StatementFine(t, i) ==
  LET l == t[i] IN
  /\ Inside(t, i)
  /\ l.op \in IF l.name = NoName THEN Instructions ELSE Operations
  /\ \A j \in DOMAIN l.toks : l.toks[j][1] = "name" => l.toks[j][2] \in InUse(t, i)
  \* a parameter of the function may be defined again in its entry block
  /\ l.name \in InUse(t, i) =>
       /\ BlockLine(t, i) = FuncLine(t, i)
       /\ l.name \notin Between(t, FuncLine(t, i), i, "stmt") \cup Slots(t, i)
  /\ l.op = "return" => l.toks # <<>>
  /\ l.op = "call_eval" /\ Len(l.toks) > 1 => IsAddress(t, Addresses(t), i, l.toks[2])
LineFine(t, i) ==
  CASE t[i].kind \in {"func", "global"} -> ~Inside(t, i)
    [] t[i].kind = "arg" -> ArgFine(t, i)
    [] t[i].kind = "stack_slot" -> SlotFine(t, i)
    [] t[i].kind \in {"block", "endfunc"} -> Inside(t, i)
    [] t[i].kind = "stmt" -> StatementFine(t, i)

\* The parser refuses a text exactly when a line is out of place (grammar_respec.md: "arg
\* can only happen in a list of args after a func or block"), names something that is not
\* in scope, calls what is no address, or defines a name again, other than a parameter of
\* the function in its entry block.  Names of the text are none that make_temp_name makes.
AcceptsExactly == front = "parser" => (pc = "crash" <=> \E i \in DOMAIN text : ~LineFine(text, i))
=============================================================================
