--------------------------- MODULE BlockEmission ---------------------------
(***************************************************************************)
(* From blocks to running machine code: compile_file of                    *)
(* src/x86/bbae_emission_x86.h lays functions and blocks out and emits     *)
(* their jumps with empty displacement fields, src/relocation_helpers.h    *)
(* fills the fields in from lists of usages, src/bbae_api_jit.h copies the *)
(* code to executable memory and resolves globals, and the caller runs it, *)
(* frees it and compiles the next program.  The three lists of usages are  *)
(* static variables of the compiler that point into its arena.             *)
(*                                                                         *)
(* Machine code is a sequence of instructions at byte offsets; the field   *)
(* of an instruction is its last four bytes.  Ordinary statements are one  *)
(* "body" instruction per block, a register shuffle one "shuffle".  Lists  *)
(* of usages are sets: no two usages are about the same field, so it does  *)
(* not matter which one is applied first.                                  *)
(***************************************************************************)
EXTENDS Integers, Sequences, SequencesExt, FiniteSetsExt

CONSTANTS
  Programs,       \* the programs to compile (see CFG)
  InstLen,        \* length in bytes of every instruction
  FuncAlign,      \* functions start at multiples of this (16)
  DispMax,        \* largest displacement a field can hold (2^31 - 1)
  Pages,          \* addresses alloc_near_executable may return
  TempNames       \* names make_temp_name invents, in order; their number bounds the
                  \* statics of a program

Ops == {"nop", "prologue", "body", "test", "shuffle", "jmp", "jz",
        "ret", "lea", "load"}

ASSUME LenAssumption ==
  /\ InstLen \in [Ops -> Nat \ {0}]
  /\ \A op \in {"jmp", "jz", "lea", "load"} : InstLen[op] >= 4
  /\ InstLen["nop"] = 1
ASSUME LayoutAssumption == FuncAlign \in Nat \ {0} /\ DispMax \in Nat /\ Pages \subseteq Nat \ {0}

\* What is compiled (see CFG): names of statics are taken once.  The usages of labels
\* are never emptied, and applied again at the end of every later function: that is
\* right only if no function jumps but the last.
IsProgram(p) ==
  /\ p.funcs \in Seq(ToSet(p.funcs)) /\ p.statics \in Seq(ToSet(p.statics)) /\ p.globals \in Seq(ToSet(p.globals))
  /\ \A f \in ToSet(p.funcs) :
       /\ f.blocks \in Seq(ToSet(f.blocks))
       /\ \A b \in ToSet(f.blocks) : b.refs \in Seq(ToSet(b.refs))
  /\ \A i \in 1..(Len(p.funcs) - 1) : \A b \in ToSet(p.funcs[i].blocks) : b.term.op = "return"
  /\ \A d \in ToSet(p.statics) \cup ToSet(p.globals) : d.size \in Nat
  /\ \A i, j \in DOMAIN p.statics : p.statics[i].name = p.statics[j].name => i = j
  /\ \A i \in DOMAIN p.statics : p.statics[i].name \notin ToSet(TempNames)

\* What makes it a graph to walk: every function has an entry block, blocks have names
\* of their own, jumps lead to blocks (block_edges_connect found them), and an if
\* branches on its own condition.
IsGraph(p) ==
  \A f \in ToSet(p.funcs) :
    /\ f.blocks # <<>>
    /\ \A i, j \in DOMAIN f.blocks : f.blocks[i].name = f.blocks[j].name => i = j
    /\ \A b \in ToSet(f.blocks) :
         /\ b.term.op \in {"goto", "if"} => b.term.yes.to \in {c.name : c \in ToSet(f.blocks)}
         /\ b.term.op = "if" => /\ b.term.no.to \in {c.name : c \in ToSet(f.blocks)}
                                /\ b.term.cond \in {"value", "compared"}

ASSUME NamesAssumption ==
  /\ TempNames \in Seq(ToSet(TempNames))
  /\ \A i, j \in DOMAIN TempNames : TempNames[i] = TempNames[j] => i = j
ASSUME ProgramsAssumption == \A p \in Programs : IsProgram(p)
ASSUME GraphAssumption == \A p \in Programs : IsGraph(p)

VARIABLES
  pc,        \* what the compiler or its caller does next
  program,   \* the program under construction
  globals, globals_bytecount,
  statics,   \* program->statics, location -1 until placed
  loop,      \* counters over functions (f), blocks (b) and statements (s)
  code,      \* instructions emitted so far
  code_len,  \* code->len
  starts,    \* start_offset of every block
  symbols,   \* the symbol list
  usages,    \* emitter_label_usages, static_addr_relocations, emitter_symbol_usages
  log,       \* program->unused_relocation_log
  jit,       \* <<jit_code, jit_globals>>
  session,   \* number of the compilation, 0 or 1 in turn
  ip, flags, \* the running machine: instruction pointer, "condition holds"
  at         \* what it last did, in the terms of CFG

vars == <<pc, program, globals, globals_bytecount, statics, loop, code, code_len,
          starts, symbols, usages, log, jit, session, ip, flags, at>>
compiler == <<program, globals, globals_bytecount, statics, loop, code, code_len,
              starts, symbols, usages, log, jit, session>>
machine == <<ip, flags, at>>

Graph == INSTANCE CFG

NoRef == [kind |-> "none", name |-> ""]
Ref(kind, name) == [kind |-> kind, name |-> name]
NoUsages == [k \in {"label", "static", "symbol"} |-> {}]

func == program.funcs[loop.f]
block == func.blocks[loop.b]

-----------------------------------------------------------------------------
(* Construction: create_empty_program, then add_global and add_static_*    *)

Aligned(n, a) == ((n + a - 1) \div a) * a

\* the smallest power of two that is no less than s, at most 64
size_guess_align(s) ==
  IF s <= 1 THEN 1 ELSE IF s <= 2 THEN 2 ELSE IF s <= 4 THEN 4 ELSE IF s <= 8 THEN 8
  ELSE IF s <= 16 THEN 16 ELSE IF s <= 32 THEN 32 ELSE 64

Init ==
  /\ pc = "idle"
  /\ program = Graph!NoProgram
  /\ globals = <<>> /\ globals_bytecount = 0
  /\ statics = <<>>
  /\ loop = [f |-> 1, b |-> 1, s |-> 1]
  /\ code = <<>> /\ code_len = 0
  /\ starts = <<>>
  /\ symbols = <<>>
  /\ usages = NoUsages
  /\ log = {}
  /\ jit = <<0, 0>>
  /\ session = 0
  /\ ip = 0 /\ flags = FALSE /\ at = Graph!Idle

\* A static that has no place yet.
Static(name, size, value) == [name |-> name, size |-> size, value |-> value, location |-> -1]

\* create_empty_program and the calls that fill the program in, add_static_*
\* among them.
parse ==
  /\ pc = "idle"
  /\ \E p \in Programs :
       /\ program' = p
       /\ statics' = [i \in 1..Len(p.statics) |-> Static(p.statics[i].name, p.statics[i].size, p.statics[i].value)]
       /\ starts' = [i \in 1..Len(p.funcs) |-> [j \in 1..Len(p.funcs[i].blocks) |-> 0]]
  /\ pc' = "globals"
  /\ UNCHANGED <<globals, globals_bytecount, loop, code, code_len, symbols, usages, log,
                 jit, session, machine>>

add_global ==
  LET g == program.globals[Len(globals) + 1]
      loc == Aligned(globals_bytecount, size_guess_align(g.size))
  IN
  /\ pc = "globals" /\ Len(globals) < Len(program.globals)
  /\ globals' = Append(globals, [name |-> g.name, size |-> g.size, location |-> loc])
  /\ globals_bytecount' = loc + g.size
  /\ UNCHANGED <<pc, program, statics, loop, code, code_len, starts, symbols,
                 usages, log, jit, session, machine>>

do_lowering ==
  /\ pc = "globals" /\ Len(globals) = Len(program.globals)
  /\ pc' = "function"
  /\ UNCHANGED <<compiler, machine>>

-----------------------------------------------------------------------------
(* compile_file *)

\* An instruction before it has an address.  want: what the source asks of it,
\* a step of CFG, the <<function, block>> to jump to, a constant or a symbol.
Inst(op, ref, disp, want) == [op |-> op, ref |-> ref, disp |-> disp, want |-> want]
Plain(op) == Inst(op, NoRef, 0, Graph!Idle)
Body == Inst("body", NoRef, 0, Graph!Ran(loop.f, loop.b, FALSE))
Shuffle(c) == Inst("shuffle", NoRef, 0, Graph!Shuffled(loop.f, loop.b, c))
Jump(op, name) ==
  Inst(op, Ref("label", name), 0, <<loop.f, Graph!FindBlock(func, name)>>)

\* The distance from the first instruction of is to the end of the n-th.
Ends(is) ==
  LET end[n \in 0..Len(is)] == IF n = 0 THEN 0 ELSE end[n - 1] + InstLen[is[n].op]
  IN end

\* The instructions is, placed from offset pos on.
Placed(pos, is) ==
  [n \in 1..Len(is) |->
     [op |-> is[n].op, ref |-> is[n].ref, disp |-> is[n].disp, want |-> is[n].want,
      at |-> pos + Ends(is)[n - 1]]]

End(i) == i.at + InstLen[i.op]

Usage(loc, name) == [loc |-> loc, name |-> name, session |-> session]

\* Mutant: the usage records where the instruction starts.
UsagesOf_start(kind, is) ==
  {Usage(is[n].at, is[n].ref.name) : n \in {n \in DOMAIN is : is[n].ref.kind = kind}}

\* add_relocation: the field is the last four bytes emitted.
UsagesOf(kind, is) ==
  {Usage(End(is[n]) - 4, is[n].ref.name) : n \in {n \in DOMAIN is : is[n].ref.kind = kind}}

Emit(is) ==
  /\ code' = code \o Placed(code_len, is)
  /\ code_len' = code_len + Ends(is)[Len(is)]
  /\ usages' = [k \in DOMAIN usages |-> usages[k] \cup UsagesOf(k, Placed(code_len, is))]

\* Alignment, symbol table entry, prologue.
BeginFunction ==
  LET pad == (FuncAlign - (code_len % FuncAlign)) % FuncAlign IN
  /\ pc = "function" /\ loop.f <= Len(program.funcs)
  /\ Emit([i \in 1..pad |-> Plain("nop")] \o <<Plain("prologue")>>)
  /\ symbols' = Append(symbols, [name |-> func.name, loc |-> code_len + pad])
  /\ loop' = [loop EXCEPT !.b = 1]
  /\ pc' = "block"
  /\ UNCHANGED <<program, globals, globals_bytecount, statics, starts, log, jit,
                 session, machine>>

BeginBlock ==
  /\ pc = "block" /\ loop.b <= Len(func.blocks)
  /\ starts' = [starts EXCEPT ![loop.f][loop.b] = code_len]
  /\ loop' = [loop EXCEPT !.s = 1]
  /\ pc' = "statement"
  /\ UNCHANGED <<program, globals, globals_bytecount, statics, code, code_len,
                 symbols, usages, log, jit, session, machine>>

\* symbol_lookup: the address of a symbol.
SymbolLookup ==
  /\ pc = "statement" /\ loop.s <= Len(block.refs) /\ block.refs[loop.s].kind = "symbol"
  /\ Emit(<<Inst("lea", block.refs[loop.s], 0, block.refs[loop.s].name)>>)
  /\ loop' = [loop EXCEPT !.s = @ + 1]
  /\ UNCHANGED <<pc, program, globals, globals_bytecount, statics, starts, symbols,
                 log, jit, session, machine>>

\* add_static_i64_anonymous: the name of a 64-bit static with this value, which
\* is added unless there is one.
StaticsWith(value) == {i \in DOMAIN statics : statics[i].size = 8 /\ statics[i].value = value}

\* mov of a constant to a float register: a load from a static.
MovFloatConstant ==
  LET value == block.refs[loop.s].name
      found == StaticsWith(value)
      name == IF found # {} THEN statics[Min(found)].name ELSE TempNames[Len(statics) + 1]
  IN
  /\ pc = "statement" /\ loop.s <= Len(block.refs) /\ block.refs[loop.s].kind = "constant"
  /\ found # {} \/ Len(statics) < Len(TempNames)
  /\ statics' = IF found # {} THEN statics ELSE Append(statics, Static(name, 8, value))
  /\ Emit(<<Inst("load", Ref("static", name), 0, value)>>)
  /\ loop' = [loop EXCEPT !.s = @ + 1]
  /\ UNCHANGED <<pc, program, globals, globals_bytecount, starts, symbols, log, jit,
                 session, machine>>

\* Mutant: the target is compared with the block itself.
IsNext_self(name) == loop.b < Len(func.blocks) /\ block.name = name

\* The jump at the end of a block is left out when its target comes next.
\* There is no next block after the last one: next_block is null there.
IsNext(name) == loop.b < Len(func.blocks) /\ func.blocks[loop.b + 1].name = name
JumpUnlessNext(name) == IF IsNext(name) THEN <<>> ELSE <<Jump("jmp", name)>>

\* The condition is in the flags if the statement before is a comparison, any
\* comparison; otherwise it is tested.  jz jumps when it does not hold.  Both
\* edges are shuffled: reg_shuffle_needed returns 1 before it compares registers,
\* and the choice between shorter sequences after it is dead code.
Branch(t) ==
  (IF t.cond = "value" THEN <<Plain("test")>> ELSE <<>>)
    \o <<Inst("jz", NoRef, InstLen["shuffle"] + InstLen["jmp"], Graph!Idle),
         Shuffle(TRUE), Jump("jmp", t.yes.to), Shuffle(FALSE)>>
    \o JumpUnlessNext(t.no.to)

AtTerminator(op) == pc = "statement" /\ loop.s > Len(block.refs) /\ block.term.op = op

\* The statements left, then the terminator.  A jump in the last block reads
\* the name of a block that is not there, which ends the compiler.
EndBlock(is) ==
  /\ Emit(<<Body>> \o is)
  /\ loop' = [loop EXCEPT !.b = @ + 1]
  /\ pc' = IF block.term.op # "return" /\ loop.b = Len(func.blocks) THEN "crash" ELSE "block"
  /\ UNCHANGED <<program, globals, globals_bytecount, statics, starts, symbols, log,
                 jit, session, machine>>

EmitReturn == AtTerminator("return") /\ EndBlock(<<Plain("ret")>>)

EmitGoto ==
  AtTerminator("goto") /\ EndBlock(<<Shuffle(TRUE)>> \o JumpUnlessNext(block.term.yes.to))

EmitIf == AtTerminator("if") /\ EndBlock(Branch(block.term))

-----------------------------------------------------------------------------
(* Relocation *)

Fits(disp) == -DispMax - 1 <= disp /\ disp <= DispMax

\* A lookup by name finds the first entry of that name.
NamesIn(s) == {s[i].name : i \in DOMAIN s}
Named(s, name) == s[Min({i \in DOMAIN s : s[i].name = name})]

\* apply_relocations: the fields us mentions hold the distance from their end to
\* target[name], for the names that have a target.
Relocated(us, target) ==
  [k \in DOMAIN code |->
    LET here == {u \in us : u.loc = End(code[k]) - 4 /\ u.name \in DOMAIN target}
    IN IF here = {} THEN code[k]
       ELSE [code[k] EXCEPT !.disp = target[(CHOOSE u \in here : TRUE).name] - End(code[k])]]

\* Its assertions: the distance fits the field, the field is in the code.
Refused(us, target) ==
  \E u \in us :
    /\ u.name \in DOMAIN target
    /\ ~Fits(target[u.name] - (u.loc + 4)) \/ u.loc + 4 > code_len

\* The other one, where every usage has to be resolved.
Unresolved(us, target) == \E u \in us : u.name \notin DOMAIN target

\* apply_label_relocations at the end of a function, over every usage on the
\* list: each one has to name a block of this function.
EndFunction ==
  LET target == [name \in NamesIn(func.blocks) |-> starts[loop.f][Graph!FindBlock(func, name)]]
      us == usages["label"]
  IN
  /\ pc = "block" /\ loop.b > Len(func.blocks)
  /\ IF Unresolved(us, target) \/ Refused(us, target)
     THEN pc' = "crash" /\ UNCHANGED <<code, loop>>
     ELSE /\ code' = Relocated(us, target)
          /\ loop' = [loop EXCEPT !.f = @ + 1]
          /\ pc' = "function"
  /\ UNCHANGED <<program, globals, globals_bytecount, statics, code_len, starts,
                 symbols, usages, log, jit, session, machine>>

EndFunctions ==
  /\ pc = "function" /\ loop.f > Len(program.funcs)
  /\ loop' = [loop EXCEPT !.s = 1]
  /\ pc' = "statics"
  /\ UNCHANGED <<program, globals, globals_bytecount, statics, code, code_len, starts,
                 symbols, usages, log, jit, session, machine>>

\* apply_static_relocations puts the statics behind the code...
PlaceStatic ==
  LET s == statics[loop.s]
      loc == Aligned(code_len, size_guess_align(s.size))
  IN
  /\ pc = "statics" /\ loop.s <= Len(statics)
  /\ statics' = [statics EXCEPT ![loop.s].location = loc]
  /\ code_len' = loc + s.size
  /\ loop' = [loop EXCEPT !.s = @ + 1]
  /\ UNCHANGED <<pc, program, globals, globals_bytecount, code, starts, symbols,
                 usages, log, jit, session, machine>>

\* ... and resolves the references to them.
ApplyStatics ==
  LET target == [name \in NamesIn(statics) |-> Named(statics, name).location]
      us == usages["static"]
  IN
  /\ pc = "statics" /\ loop.s > Len(statics)
  /\ IF Unresolved(us, target) \/ Refused(us, target)
     THEN pc' = "crash" /\ UNCHANGED code
     ELSE pc' = "symbols" /\ code' = Relocated(us, target)
  /\ UNCHANGED <<program, globals, globals_bytecount, statics, loop, code_len, starts,
                 symbols, usages, log, jit, session, machine>>

\* Mutant: a resolved symbol is logged too.
ApplySymbols_log_all ==
  LET target == [name \in NamesIn(symbols) |-> Named(symbols, name).loc]
  IN
  /\ pc = "symbols"
  /\ code' = Relocated(usages["symbol"], target)
  /\ log' = log \cup usages["symbol"]
  /\ pc' = "jit"
  /\ UNCHANGED <<program, globals, globals_bytecount, statics, loop, code_len, starts,
                 symbols, usages, jit, session, machine>>

\* apply_symbol_relocations: functions are resolved, the others logged.
ApplySymbols ==
  LET target == [name \in NamesIn(symbols) |-> Named(symbols, name).loc]
      us == usages["symbol"]
  IN
  /\ pc = "symbols"
  /\ IF Refused(us, target)
     THEN pc' = "crash" /\ UNCHANGED <<code, log>>
     ELSE /\ code' = Relocated(us, target)
          /\ log' = log \cup {u \in us : u.name \notin DOMAIN target}
          /\ pc' = "jit"
  /\ UNCHANGED <<program, globals, globals_bytecount, statics, loop, code_len, starts,
                 symbols, usages, jit, session, machine>>

-----------------------------------------------------------------------------
(* do_jit_lowering, the caller, jit_free *)

\* No code: the result is all zero, and the caller stops there.
NoOutput ==
  /\ pc = "jit" /\ code_len = 0
  /\ pc' = "freed"
  /\ UNCHANGED <<compiler, machine>>

\* Two areas near the executable, one for globals and one for the code;
\* jit_relocate_globals resolves what was logged, which has to be globals.
do_jit_lowering ==
  /\ pc = "jit" /\ code_len # 0
  /\ \E jit_globals \in Pages : \E jit_code \in Pages \ {jit_globals} :
       LET target == [name \in NamesIn(globals) |->
                        Named(globals, name).location - (jit_code - jit_globals)]
       IN
       /\ jit' = <<jit_code, jit_globals>>
       /\ IF Unresolved(log, target) \/ Refused(log, target)
          THEN pc' = "crash" /\ UNCHANGED code
          ELSE pc' = "ready" /\ code' = Relocated(log, target)
  /\ UNCHANGED <<program, globals, globals_bytecount, statics, loop, code_len, starts,
                 symbols, usages, log, session, machine>>

\* The caller looks a function up in the symbol list and calls it.
CallFunction ==
  /\ pc = "ready"
  /\ \E i \in DOMAIN symbols : ip' = jit[1] + symbols[i].loc
  /\ pc' = "running"
  /\ UNCHANGED <<compiler, flags, at>>

\* The machine executes the instruction at ip.
Executing(i, ops) == pc = "running" /\ ip = jit[1] + i.at /\ i.op \in ops
Following(i) == jit[1] + End(i)

\* The statements of a block compute the condition; a comparison at their end
\* leaves its own outcome in the flags.
ExecBody(i) ==
  LET t == program.funcs[i.want.f].blocks[i.want.b].term IN
  /\ Executing(i, {"body"})
  /\ \E c \in Graph!Outcomes(t) :
       /\ at' = [i.want EXCEPT !.cond = c]
       /\ flags' \in IF t.op = "if" /\ t.cond # "compared" THEN BOOLEAN ELSE {c}
  /\ ip' = Following(i)
  /\ UNCHANGED <<compiler, pc>>

ExecShuffle(i) ==
  /\ Executing(i, {"shuffle"})
  /\ at' = i.want
  /\ ip' = Following(i)
  /\ UNCHANGED <<compiler, pc, flags>>

ExecPlain(i) ==
  /\ Executing(i, {"nop", "prologue", "lea", "load", "test"})
  /\ flags' = IF i.op = "test" THEN at.cond ELSE flags
  /\ ip' = Following(i)
  /\ UNCHANGED <<compiler, pc, at>>

ExecJump(i) ==
  /\ Executing(i, {"jmp", "jz"})
  /\ ip' = IF i.op = "jmp" \/ ~flags THEN Following(i) + i.disp ELSE Following(i)
  /\ UNCHANGED <<compiler, pc, flags, at>>

ExecReturn(i) ==
  /\ Executing(i, {"ret"})
  /\ at' = Graph!Returned
  /\ ip' = 0
  /\ pc' = "ran"
  /\ UNCHANGED <<compiler, flags>>

\* The areas and the buffer are given back, the lists of usages forgotten.
jit_free ==
  /\ pc = "ran"
  /\ usages' = NoUsages
  /\ pc' = "freed"
  /\ UNCHANGED <<program, globals, globals_bytecount, statics, loop, code, code_len,
                 starts, symbols, log, jit, session, machine>>

\* free_all_compiler_allocs: everything about the program is gone.  The lists
\* are static variables: they keep their value, unless a crash ended the process.
free_all_compiler_allocs ==
  /\ pc \in {"freed", "crash"}
  /\ pc' = "idle"
  /\ program' = Graph!NoProgram
  /\ globals' = <<>> /\ globals_bytecount' = 0
  /\ statics' = <<>>
  /\ loop' = [f |-> 1, b |-> 1, s |-> 1]
  /\ code' = <<>> /\ code_len' = 0
  /\ starts' = <<>>
  /\ symbols' = <<>>
  /\ usages' = IF pc = "crash" THEN NoUsages ELSE usages
  /\ log' = {}
  /\ jit' = <<0, 0>>
  /\ session' = 1 - session
  /\ ip' = 0 /\ flags' = FALSE /\ at' = Graph!Idle

Next ==
  \/ parse \/ add_global \/ do_lowering
  \/ BeginFunction \/ BeginBlock
  \/ SymbolLookup \/ MovFloatConstant
  \/ EmitReturn \/ EmitGoto \/ EmitIf
  \/ EndFunction \/ EndFunctions
  \/ PlaceStatic \/ ApplyStatics \/ ApplySymbols
  \/ NoOutput \/ do_jit_lowering
  \/ CallFunction
  \/ \E k \in DOMAIN code :
       \/ ExecBody(code[k]) \/ ExecShuffle(code[k]) \/ ExecPlain(code[k])
       \/ ExecJump(code[k]) \/ ExecReturn(code[k])
  \/ jit_free \/ free_all_compiler_allocs

Spec == Init /\ [][Next]_vars

-----------------------------------------------------------------------------
(* Properties *)

Linked == pc \in {"ready", "running", "ran"}

\* Types, and loop counters within their bounds.
TypeOK ==
  /\ pc \in {"idle", "globals", "function", "block", "statement", "statics", "symbols", "jit",
             "ready", "running", "ran", "freed", "crash"}
  /\ code_len \in Nat /\ globals_bytecount \in Nat
  /\ \A k \in DOMAIN code : End(code[k]) <= code_len
  /\ \A k \in 1..(Len(code) - 1) : End(code[k]) = code[k + 1].at
  /\ loop.f \in 1..(Len(program.funcs) + 1)
  /\ pc = "statement" =>
       loop.b \in 1..Len(func.blocks) /\ loop.s \in 1..(Len(block.refs) + 1)
  /\ jit[1] = jit[2] => jit = <<0, 0>>
  /\ flags \in BOOLEAN /\ session \in {0, 1} /\ ip \in Nat

\* Whatever was emitted, left out because the target comes next, and patched in
\* later: the machine walks the control-flow graph of the function called, and
\* shuffles the arguments of exactly the edges it takes.
ImplementsCFG == Graph!Spec

\* When the code may run, every field leads to what its statement names: a jump
\* to the block of that name in its own function, a load to a static with its
\* constant, a lookup to the function or else the global of that name.
LinksCorrect ==
  Linked => \A k \in DOMAIN code :
    LET i == code[k]
        to == End(i) + i.disp
    IN
    /\ i.ref.kind = "label" => to = starts[i.want[1]][i.want[2]]
    /\ i.op = "load" =>
         \E s \in ToSet(statics) : s.size = 8 /\ s.value = i.want /\ s.location = to
    /\ i.op = "lea" =>
         \/ \E s \in ToSet(symbols) : s.name = i.want /\ s.loc = to
         \/ /\ \A s \in ToSet(symbols) : s.name # i.want
            /\ \E g \in ToSet(globals) :
                 g.name = i.want /\ jit[1] + to = jit[2] + g.location

\* The first n of data lie between from and to in this order, aligned for their size,
\* and none overlaps another.
Apart(data, n, from, to) ==
  /\ \A i \in 1..n :
       /\ data[i].location % size_guess_align(data[i].size) = 0
       /\ data[i].location >= from /\ data[i].location + data[i].size <= to
  /\ \A i, j \in 1..n : i < j => data[i].location + data[i].size <= data[j].location

CodeEnd == IF code = <<>> THEN 0 ELSE End(code[Len(code)])

\* Data is aligned for its size and overlaps neither the code nor other data.
DataPlaced ==
  Linked => /\ Apart(globals, Len(globals), 0, globals_bytecount)
            /\ Apart(statics, Len(statics), CodeEnd, code_len)

\* The lists of usages outlive the program they are about, in memory that is
\* freed with it: none of them still mentions it when the next one is compiled.
NoStaleUsages == \A k \in DOMAIN usages : \A u \in usages[k] : u.session = session

\* Where blocks, functions, statics and globals lie, seen from the code.
Addresses ==
  (UNION {ToSet(starts[f]) : f \in DOMAIN starts})
    \cup {s.loc : s \in ToSet(symbols)} \cup {s.location : s \in ToSet(statics)}
    \cup {g.location - (jit[1] - jit[2]) : g \in ToSet(globals)}

\* The compiler gives up only on a program that looks up a name that is neither a
\* function nor a global, on one with a jump at the end of a function, and where
\* something is too far away for a field: its other assertions hold.
CrashJustified ==
  pc = "crash" =>
    \/ \E f \in ToSet(program.funcs) : \E b \in ToSet(f.blocks) : \E x \in ToSet(b.refs) :
         /\ x.kind = "symbol"
         /\ x.name \notin NamesIn(program.funcs) \cup NamesIn(program.globals)
    \/ \E f \in ToSet(program.funcs) : f.blocks[Len(f.blocks)].term.op # "return"
    \/ \E a \in Addresses : \E k \in DOMAIN code :
         code[k].ref.kind # "none" /\ ~Fits(a - End(code[k]))

\* What lies in memory when the code may run is right, over any number of sessions.
CodeSound == TypeOK /\ LinksCorrect /\ DataPlaced /\ NoStaleUsages
=============================================================================
