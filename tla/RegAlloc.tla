------------------------------ MODULE RegAlloc ------------------------------
(***************************************************************************)
(* src/x86/regalloc_x86.h: the register allocator, over one block, and the *)
(* code compile_file emits for the statements of that block.  The          *)
(* allocator walks the statements in order: it counts the uses of the      *)
(* operands, gives back the registers of values that are used up, reuses   *)
(* the register of the first operand for the output or takes a free one,   *)
(* and spills: into a register, by renaming a value that has not been used *)
(* yet or by inserting a mov, or into a stack slot with a store and a      *)
(* load.                                                                   *)
(*                                                                         *)
(* A value is the index of its record in a.vals: the parameters of the     *)
(* block first, then the outputs of its statements, then the outputs of    *)
(* inserted movs and loads.  Then the emitted code runs: a register or a   *)
(* slot holds the value of the source block that is in it, or Junk, and    *)
(* every statement of the source block has to find its operands.  The      *)
(* Windows convention is assumed: argument registers go by position.       *)
(***************************************************************************)
EXTENDS Integers, Sequences, FiniteSets

CONSTANTS
  RegisterCounts,  \* values of BBAE_REGISTER_COUNT to check: 3 if the build debugs spills
  ArgRegs,         \* the integer argument registers of the ABI, by position
  FloatArgRegs,    \* its XMM argument registers, by position
  Clobbered,       \* abi_get_clobber_mask
  MaxSlots,        \* bound on the stack slots of a block: past it the allocator has no end
  Shapes           \* what blocks to build: [entry, params, ops, max], see IsShape

RAX == 0
RCX == 1
RDX == 2
RSP == 4
RBP == 5
R11 == 11
XMM0 == 16
XMM5 == 21
Reg == 0..31
None == -1
Reserved == -2  \* (Value *)-1 in the code
NoValue == 0    \* an operand that is a type, a label or a constant
Junk == 0       \* the content of a register that holds no value of the block

\* Statements by what they take: two integers, two floats, a type or a label and an
\* integer.  call_eval takes a target and an argument, store an address and a value.
IntOps == {"add", "sub", "div", "rem", "shl", "call_eval", "store"}
FloatOps == {"fadd", "fsub"}
UnaryOps == {"load", "uint_to_float"}
HasOutput(op) == op \notin {"store", "goto", "return"}
FloatOutput(op) == op \in FloatOps \cup {"uint_to_float"}

\* The registers of a kind that are not reserved.
Usable(float) == (IF float THEN 16..31 ELSE 0..15) \ {RSP, RBP, R11, XMM5}

\* A shape: whether the block is the entry block of its function, whose parameters all
\* have an argument register; its parameters [float, wants], wants the registers of the
\* operands the jumps to the block pass for it, in the order of edges_in; the statements
\* it may have, and how many.
IsShape(b) ==
  /\ b.entry \in BOOLEAN
  /\ b.params \in Seq([float : BOOLEAN, wants : Seq(Usable(TRUE) \cup Usable(FALSE))])
  /\ \A p \in 1..Len(b.params) : b.params[p].wants \in Seq(Usable(b.params[p].float))
  /\ b.entry => Len(b.params) <= Len(ArgRegs) /\ Len(b.params) <= Len(FloatArgRegs)
  /\ b.ops \subseteq IntOps \cup FloatOps \cup UnaryOps
  /\ b.max \in Nat

ASSUME CountAssumption == RegisterCounts \subseteq 1..16
ASSUME SlotsAssumption == MaxSlots \in Nat
ASSUME AbiAssumption ==
  ArgRegs \in Seq(Usable(FALSE)) /\ FloatArgRegs \in Seq(Usable(TRUE)) /\ Clobbered \subseteq Reg
ASSUME ShapesAssumption == \A b \in Shapes : IsShape(b)

VARIABLES
  count,    \* BBAE_REGISTER_COUNT: fixed when the compiler is built
  src,      \* the source block: a shape and its body, statements [op, args]
  pc,       \* what the compiler does next
  a,        \* the allocator: [block, stmts, vals, alloced, i, slots], below
  reg,      \* the register the clobber loop is at
  machine,  \* what the registers and the slots hold in the emitted code
  wrong,    \* pairs: statement of the source block, operand it did not find
  hist      \* shortcuts taken: values renamed by a fast spill, statements that
            \* skipped the clobber loop

vars == <<count, src, pc, a, reg, machine, wrong, hist>>

(* a.block    the list of statements: indices of a.stmts                   *)
(* a.stmts    statements [op, args, out, num, slot]                        *)
(* a.vals     values [float, edges, used, reg, spilled]                    *)
(* a.alloced  reg_int_alloced and reg_float_alloced: register to value     *)
(* a.i        the loop counter, from 1                                     *)
(* a.slots    stack slots added for spills                                 *)

NParams == Len(src.params)
Body == src.body

\* The value a source statement defines.
Output(k) == NParams + k

IsFloat(v) == IF v <= NParams THEN src.params[v].float ELSE FloatOutput(Body[v - NParams].op)

\* The values of a bank the block has defined so far.
Defined(float) ==
  {v \in 1..NParams \cup {Output(k) : k \in {k \in 1..Len(Body) : HasOutput(Body[k].op)}} :
     IsFloat(v) = float}

Uses(v, st) == Cardinality({x \in DOMAIN st.args : st.args[x] = v})
Unused == {v \in Defined(TRUE) \cup Defined(FALSE) : \A k \in 1..Len(Body) : Uses(v, Body[k]) = 0}

\* edges_out as the parser and the optimiser leave it: one entry per use, in
\* the order of the statements.
EdgesOut(v) ==
  LET upto[k \in 0..Len(Body)] ==
        IF k = 0 THEN <<>> ELSE upto[k - 1] \o [j \in 1..Uses(v, Body[k]) |-> k]
  IN upto[Len(Body)]

NewValue(float, edges, r) ==
  [float |-> float, edges |-> edges, used |-> 0, reg |-> r, spilled |-> None]

NewStatement(op, args, out, num, slot) ==
  [op |-> op, args |-> args, out |-> out, num |-> num, slot |-> slot]

\* do_regalloc_block before its loop: empty register arrays but for the reserved
\* registers, numbered statements.
Loaded ==
  [block |-> [k \in 1..Len(Body) |-> k],
   stmts |-> [k \in 1..Len(Body) |->
                NewStatement(Body[k].op, Body[k].args,
                             IF HasOutput(Body[k].op) THEN Output(k) ELSE NoValue,
                             2 * (k - 1), None)],
   vals |-> [v \in 1..(NParams + Len(Body)) |-> NewValue(IsFloat(v), EdgesOut(v), None)],
   alloced |-> [r \in Reg |-> IF r \in {RSP, RBP, R11, XMM5} THEN Reserved ELSE None],
   i |-> 1,
   slots |-> 0]

NoAllocator == [block |-> <<>>, stmts |-> <<>>, vals |-> <<>>, alloced |-> [r \in Reg |-> None],
                i |-> 1, slots |-> 0]
NoMachine == [regs |-> [r \in Reg |-> Junk], slots |-> <<>>]

Init ==
  /\ count \in RegisterCounts
  /\ \E b \in Shapes : src = [entry |-> b.entry, params |-> b.params, ops |-> b.ops, max |-> b.max,
                              body |-> <<>>]
  /\ pc = "build"
  /\ a = NoAllocator
  /\ reg = 0
  /\ machine = NoMachine
  /\ wrong = {}
  /\ hist = [renamed |-> {}, skipped |-> {}]

-----------------------------------------------------------------------------
(* The block, as the optimiser hands it over: a value that is not used is  *)
(* not there.  A statement uses at most one value more than it defines.    *)

Built(st) == src' = [src EXCEPT !.body = Append(@, st)]

AddStatement ==
  /\ pc = "build" /\ Len(Body) < src.max
  /\ \/ \E op \in src.ops \cap IntOps, x \in Defined(FALSE), y \in Defined(FALSE) \cup {NoValue} :
          /\ y = NoValue => op \in {"add", "sub", "shl"}
          /\ Built([op |-> op, args |-> <<x, y>>])
     \/ \E op \in src.ops \cap FloatOps, x, y \in Defined(TRUE) : Built([op |-> op, args |-> <<x, y>>])
     \/ \E op \in src.ops \cap UnaryOps, x \in Defined(FALSE) : Built([op |-> op, args |-> <<NoValue, x>>])
  /\ Cardinality(Unused') <= (src.max - Len(Body')) + 2
  /\ UNCHANGED <<count, pc, a, reg, machine, wrong, hist>>

EndBlock ==
  /\ pc = "build" /\ Body # <<>>
  /\ \/ \E x \in Defined(TRUE) \cup Defined(FALSE) : Built([op |-> "return", args |-> <<x>>])
     \/ \E x, y \in Defined(TRUE) \cup Defined(FALSE) :
          x < y /\ Built([op |-> "goto", args |-> <<NoValue, x, y>>])
  /\ Unused' = {}
  /\ a' = Loaded' /\ pc' = "args"
  /\ UNCHANGED <<count, reg, machine, wrong, hist>>

-----------------------------------------------------------------------------
(* Registers *)

Minimum(S) == CHOOSE x \in S : \A y \in S : x <= y

Bank(float) == IF float THEN XMM0..(XMM0 + count - 1) ELSE 0..(count - 1)

\* func->performs_calls is set by compile_file, after the allocator has run, so
\* registers a call would clobber are always preferred.
first_empty(alloced, float, allow) ==
  LET empty == {r \in Bank(float) \cap allow : alloced[r] = None}
      cheap == empty \cap Clobbered
  IN IF cheap # {} THEN Minimum(cheap) ELSE IF empty # {} THEN Minimum(empty) ELSE None

Give(s, v, r) == [s EXCEPT !.alloced[r] = v, !.vals[v].reg = r]

\* regalloc_func_args and regalloc_block_args, one parameter at a time; the
\* counter a.i is borrowed for the parameters.
regalloc_func_arg ==
  /\ pc = "args" /\ src.entry /\ a.i <= NParams
  /\ LET used == {p \in 1..(a.i - 1) : a.vals[p].edges # <<>>}
         regs == IF src.params[a.i].float THEN FloatArgRegs ELSE ArgRegs
     IN IF a.vals[a.i].edges = <<>>
        THEN a' = [a EXCEPT !.i = @ + 1]
        ELSE a' = [Give(a, a.i, regs[Cardinality(used) + 1]) EXCEPT !.i = @ + 1]
  /\ UNCHANGED <<count, src, pc, reg, machine, wrong, hist>>

\* The first operand some jump passes for the parameter whose register is not
\* taken yet, or a free register.
regalloc_block_arg ==
  /\ pc = "args" /\ ~src.entry /\ a.i <= NParams
  /\ LET wants == src.params[a.i].wants
         good == {j \in 1..Len(wants) : a.alloced[wants[j]] = None}
         where == IF good # {} THEN wants[Minimum(good)]
                               ELSE first_empty(a.alloced, src.params[a.i].float, Reg)
     IN IF where = None
        THEN pc' = "crash" /\ UNCHANGED a
        ELSE a' = [Give(a, a.i, where) EXCEPT !.i = @ + 1] /\ UNCHANGED pc
  /\ UNCHANGED <<count, src, reg, machine, wrong, hist>>

regalloc_args_end ==
  /\ pc = "args" /\ a.i > NParams
  /\ a' = [a EXCEPT !.i = 1] /\ pc' = "tick"
  /\ UNCHANGED <<count, src, reg, machine, wrong, hist>>

-----------------------------------------------------------------------------
(* The rules of a statement *)

cur == a.block[a.i]
stmt == a.stmts[cur]

is_special(st) ==
  \/ st.op \in {"div", "rem", "call_eval"}
  \/ st.op = "shl" /\ st.args[1] # NoValue

\* allowed_output_registers
Allowed(st) ==
  CASE st.op = "div" -> {RAX}
    [] st.op = "rem" -> {RDX}
    [] st.op = "call_eval" -> IF a.vals[st.out].float THEN {XMM0} ELSE {RAX}
    [] OTHER -> Reg

clobbered_registers(st) ==
  CASE st.op \in {"div", "rem"} -> {RAX, RDX}
    [] st.op = "shl" /\ is_special(st) -> {RCX}
    [] st.op = "call_eval" -> Clobbered
    [] OTHER -> {}

is_statement_commutative(op) == op \in {"add", "mul", "imul", "fadd", "fmul"}

-----------------------------------------------------------------------------
(* Counting uses *)

\* increment_operand_uses_impl over the operands lo..hi.
increment_operand_uses(s, st, lo, hi) ==
  [s EXCEPT !.vals = [v \in DOMAIN s.vals |->
     [s.vals[v] EXCEPT !.used = @ + Cardinality({j \in lo..hi : st.args[j] = v})]]]

Early(st) == IF st.op = "call_eval" THEN Len(st.args) ELSE IF st.args = <<>> THEN 0 ELSE 1

increment_operand_uses_late(s, st) == increment_operand_uses(s, st, Early(st) + 1, Len(st.args))

UsedUp(s, v) == s.vals[v].used = Len(s.vals[v].edges)

\* A build that debugs spills has three registers of each kind and never gives one back.
DebugSpills == count = 3

\* A mutant: registers are never given back.
expire_unused_regs_never(s) == s

expire_unused_regs(s) ==
  [s EXCEPT !.alloced = [r \in Reg |->
     IF ~DebugSpills /\ r \in Bank(FALSE) \cup Bank(TRUE) /\ s.alloced[r] > 0 /\ UsedUp(s, s.alloced[r])
     THEN None ELSE s.alloced[r]]]

Operands(st) == {st.args[j] : j \in 1..Len(st.args)} \ {NoValue}
Held(s) == {s.alloced[r] : r \in Reg} \ {None, Reserved}

\* assert(value->alloced_use_count <= array_len(value->edges_out, Value *))
CountsOK(s, V) == \A v \in V : s.vals[v].used <= Len(s.vals[v].edges)

\* The start of a turn of the loop; a statement without output ends it here.
Tick ==
  /\ pc = "tick" /\ a.i <= Len(a.block) /\ a.slots < MaxSlots
  /\ LET s == increment_operand_uses(a, stmt, 1, Early(stmt)) IN
     /\ a' = [expire_unused_regs(s) EXCEPT !.i = IF stmt.out = NoValue THEN @ + 1 ELSE @]
     /\ pc' = IF ~CountsOK(s, Operands(stmt) \cup (IF DebugSpills THEN {} ELSE Held(s))) THEN "crash" ELSE IF stmt.out = NoValue THEN "tick" ELSE "reuse"
  /\ UNCHANGED <<count, src, reg, machine, wrong, hist>>

\* Each register that is freed for a load takes away a value that has to be loaded again
\* before it.
NoEnd ==
  /\ pc = "tick" /\ a.i <= Len(a.block) /\ a.slots >= MaxSlots
  /\ pc' = "endless"
  /\ UNCHANGED <<count, src, a, reg, machine, wrong, hist>>

-----------------------------------------------------------------------------
(* The output *)

\* The operands whose register the output may take over.
Reusable ==
  {j \in 1..Len(stmt.args) :
     /\ j = 1 \/ is_statement_commutative(stmt.op)
     /\ stmt.args[j] # NoValue
     /\ LET v == stmt.args[j] IN
        /\ a.vals[v].reg # None /\ UsedUp(a, v)
        /\ a.vals[v].float = a.vals[stmt.out].float
        /\ a.vals[v].reg \in Allowed(stmt)}

\* goto early_continue: the clobbered registers are not looked at.
Reuse ==
  /\ pc = "reuse" /\ Reusable # {}
  /\ LET r == a.vals[stmt.args[Minimum(Reusable)]].reg
         s == increment_operand_uses_late(Give(a, stmt.out, r), stmt)
     IN /\ a' = [s EXCEPT !.i = @ + 1]
        /\ pc' = IF CountsOK(s, Operands(stmt)) THEN "tick" ELSE "crash"
  /\ hist' = IF is_special(stmt) THEN [hist EXCEPT !.skipped = @ \cup {cur}] ELSE hist
  /\ UNCHANGED <<count, src, reg, machine, wrong>>

\* The output gets register r.
Place(s, r) ==
  LET st == s.stmts[s.block[s.i]]
      t == increment_operand_uses_late(Give(s, st.out, r), st)
  IN /\ a' = t
     /\ reg' = 0
     /\ pc' = IF s.alloced[r] = None /\ CountsOK(t, Operands(st)) THEN "clobber" ELSE "crash"

Take ==
  /\ pc = "reuse" /\ Reusable = {}
  /\ LET where == first_empty(a.alloced, a.vals[stmt.out].float, Allowed(stmt)) IN
     where # None /\ Place(a, where)
  /\ UNCHANGED <<count, src, machine, wrong, hist>>

-----------------------------------------------------------------------------
(* Spilling *)

InsertAt(seq, k, x) == SubSeq(seq, 1, k - 1) \o <<x>> \o SubSeq(seq, k, Len(seq))

\* The elements of a sequence that are in K.
Those(seq, K) ==
  LET upto[n \in 0..Len(seq)] ==
        IF n = 0 THEN <<>> ELSE IF seq[n] \in K THEN Append(upto[n - 1], seq[n]) ELSE upto[n - 1]
  IN upto[Len(seq)]

\* The uses of v from statement number num on, and those before.
Late(s, v, num) == Those(s.vals[v].edges, {k \in DOMAIN s.stmts : s.stmts[k].num >= num})
Before(s, v, num) == Those(s.vals[v].edges, {k \in DOMAIN s.stmts : s.stmts[k].num < num})

\* A mutant: the later uses still name the value that was moved.
Rewritten_not(stmts, K, v, w) == stmts

\* The statements with the uses of v in K rewritten to w.  edges_out has one entry
\* for each use, so all of a statement's uses go.
Rewritten(stmts, K, v, w) ==
  [k \in DOMAIN stmts |->
     IF \E x \in DOMAIN K : K[x] = k
     THEN [stmts[k] EXCEPT !.args = [j \in DOMAIN @ |-> IF @[j] = v THEN w ELSE @[j]]]
     ELSE stmts[k]]

\* A mutant: the value is not told.
FastSpill_untold(s, v, temp) == [s EXCEPT !.alloced[temp] = v]

\* The value keeps its uses and changes its register, from the start on.
FastSpill(s, v, temp) == Give(s, v, temp)

\* A mov before the current statement; the later uses read its output.  The number
\* of the mov is never read.
MovSpill(s, v, temp, num) ==
  LET w == Len(s.vals) + 1
      k == Len(s.stmts) + 1
      late == Late(s, v, num)
  IN [s EXCEPT !.vals = Append([@ EXCEPT ![v].edges = Before(s, v, num)],
                               NewValue(s.vals[v].float, late, temp)),
               !.stmts = Append(Rewritten(@, late, v, w), NewStatement("mov", <<v>>, w, 0, None)),
               !.alloced[temp] = w,
               !.block = InsertAt(@, s.i, k),
               !.i = @ + 1]

\* A store before the current statement and a load before the first later use; the
\* output of the load gets a register when the loop comes to it.
StoreSpill(s, v, num) ==
  LET w == Len(s.vals) + 1
      k == Len(s.stmts) + 1
      late == Late(s, v, num)
      slot == s.slots + 1
      stored == [s EXCEPT !.vals[v].spilled = slot,
                          !.vals[v].edges = Before(s, v, num),
                          !.stmts = Append(@, NewStatement("spill", <<NoValue, v>>, NoValue, 0, slot)),
                          !.block = InsertAt(@, s.i, k),
                          !.i = @ + 1,
                          !.slots = slot]
      at == CHOOSE x \in 1..Len(stored.block) : stored.block[x] = late[1]
  IN IF late = <<>> THEN stored
     ELSE [stored EXCEPT
             !.vals = Append(@, NewValue(s.vals[v].float, late, None)),
             !.stmts = Append(Rewritten(@, late, v, w),
                              NewStatement("unspill", <<NoValue, NoValue>>, w,
                                           s.stmts[late[1]].num - 1, slot)),
             !.block = InsertAt(@, at, k + 1)]

\* do_spill: the value v leaves register r; its uses from statement number num on
\* find it elsewhere.
do_spill(s0, v, r, num, allow) ==
  LET s == [s0 EXCEPT !.alloced[r] = None]
      now == s.stmts[s.block[s.i]].num
      edges == s.vals[v].edges
      temp == first_empty(s.alloced, s.vals[v].reg >= XMM0, allow)
  IN IF temp = None THEN StoreSpill(s, v, num)
     ELSE IF edges # <<>> /\ s.stmts[edges[1]].num > now THEN FastSpill(s, v, temp)
     ELSE MovSpill(s, v, temp, num)

\* The assertions of do_spill: v has not been spilled before, and its first later use
\* stands behind the current statement.
SpillOK(s, v, num) ==
  /\ s.vals[v].spilled = None
  /\ LET late == Late(s, v, num) IN
       late # <<>> => \E x \in (s.i + 1)..Len(s.block) : s.block[x] = late[1]

\* The number of the first use of v after statement number num, None if there is none.
NextUse(s, v, num) ==
  LET edges == s.vals[v].edges
      later == {x \in DOMAIN edges : s.stmts[edges[x]].num > num}
  IN IF later = {} THEN None ELSE s.stmts[edges[Minimum(later)]].num

\* A mutant: of equally good registers none is taken.
find_spillable_strict(s, st, float, allow) ==
  LET next(r) == NextUse(s, s.alloced[r], st.num)
      found == {r \in Bank(float) \cap allow : s.alloced[r] > 0 /\ next(r) # None}
      best == {r \in found : \A q \in found \ {r} : next(q) < next(r)}
  IN IF best = {} THEN None ELSE Minimum(best)

\* find_spillable: the allocated register whose next use is furthest away.
find_spillable(s, st, float, allow) ==
  LET next(r) == NextUse(s, s.alloced[r], st.num)
      found == {r \in Bank(float) \cap allow : s.alloced[r] > 0 /\ next(r) # None}
      best == {r \in found : \A q \in found : next(q) <= next(r)}
  IN IF best = {} THEN None ELSE Minimum(best)

\* The values whose register a step has changed.
NewlyRenamed == {v \in DOMAIN a.vals : a.vals[v].reg \notin {None, a'.vals[v].reg}}

NoneFree ==
  /\ pc = "reuse" /\ Reusable = {}
  /\ first_empty(a.alloced, a.vals[stmt.out].float, Allowed(stmt)) = None

\* No register is free for the output: one is spilled away.
SpillAway ==
  /\ NoneFree
  /\ LET r == find_spillable(a, stmt, a.vals[stmt.out].float, Allowed(stmt))
         v == a.alloced[r]
         num == NextUse(a, v, stmt.num)
         where == a.vals[v].reg
     IN /\ r # None
        /\ SpillOK(a, v, num)
        /\ Place(do_spill(a, v, r, num, Reg \ (clobbered_registers(stmt) \cup {where})), where)
  /\ hist' = [hist EXCEPT !.renamed = @ \cup NewlyRenamed]
  /\ UNCHANGED <<count, src, machine, wrong>>

\* assert(to_spill_reg >= 0): none can be.
NothingToSpill ==
  /\ NoneFree
  /\ find_spillable(a, stmt, a.vals[stmt.out].float, Allowed(stmt)) = None
  /\ pc' = "crash"
  /\ UNCHANGED <<count, src, a, reg, machine, wrong, hist>>

\* The clobbered registers whose value is still used after the statement, in a turn
\* of the loop at or after reg; the other turns change nothing.
ToSave ==
  {r \in clobbered_registers(stmt) :
     /\ r >= reg /\ a.alloced[r] \notin {None, Reserved, stmt.out}
     /\ LET edges == a.vals[a.alloced[r]].edges IN
        edges # <<>> /\ a.stmts[edges[Len(edges)]].num > stmt.num}

SpillClobbered ==
  /\ pc = "clobber" /\ ToSave # {}
  /\ LET r == Minimum(ToSave)
         v == a.alloced[r]
         used_here == \E x \in DOMAIN a.vals[v].edges : a.vals[v].edges[x] = cur
         s == do_spill(a, v, r, stmt.num + 1, Reg \ clobbered_registers(stmt))
     IN /\ reg' = r + 1
        /\ SpillOK(a, v, stmt.num + 1)
        /\ a' = IF used_here THEN [s EXCEPT !.vals[v].edges = InsertAt(@, 2, cur)] ELSE s
  /\ hist' = [hist EXCEPT !.renamed = @ \cup NewlyRenamed]
  /\ UNCHANGED <<count, src, pc, machine, wrong>>

ClobberEnd ==
  /\ pc = "clobber" /\ ToSave = {}
  /\ a' = [a EXCEPT !.i = @ + 1] /\ pc' = "tick"
  /\ UNCHANGED <<count, src, reg, machine, wrong, hist>>

-----------------------------------------------------------------------------
(* The emitted code *)

\* Where a caller, or the jump to the block, puts the parameters.
ParamReg(p) ==
  IF src.entry THEN IF src.params[p].float THEN FloatArgRegs[p] ELSE ArgRegs[p]
               ELSE a.vals[p].reg

BlockEntered ==
  /\ pc = "tick" /\ a.i > Len(a.block)
  /\ machine' = [regs |-> [r \in Reg |->
                             IF \E p \in 1..NParams : ParamReg(p) = r
                             THEN CHOOSE p \in 1..NParams : ParamReg(p) = r
                             ELSE Junk],
                 slots |-> [k \in 1..a.slots |-> Junk]]
  /\ a' = [a EXCEPT !.i = 1] /\ pc' = "emit"
  /\ UNCHANGED <<count, src, reg, wrong, hist>>

\* The register of operand j of the statement.
At(j) == a.vals[stmt.args[j]].reg

\* regs after the moves of reg_shuffle_call: each source register has one
\* destination, that of the last argument in it.
Shuffled(regs) ==
  LET n == Len(stmt.args) - 1
      dst(j) == IF a.vals[stmt.args[j + 1]].float THEN FloatArgRegs[j] ELSE ArgRegs[j]
      moves == {j \in 1..n : At(j + 1) # dst(j) /\ \A k \in (j + 1)..n : At(k + 1) # dst(k) => At(k + 1) # At(j + 1)}
  IN [r \in Reg |-> IF \E j \in moves : dst(j) = r
                    THEN regs[At((CHOOSE j \in moves : dst(j) = r) + 1)] ELSE regs[r]]

\* What the instructions of a statement read: for each operand the content of its
\* register when it is read, and the registers afterwards, without the output.
Ran ==
  LET regs == machine.regs
      out == a.vals[stmt.out].reg
      n == Len(stmt.args)
      plain == [j \in 1..n |-> IF stmt.args[j] = NoValue THEN Junk ELSE regs[At(j)]]
      \* xor rdx, rdx; mov rax, op1; div op2
      cleared == [regs EXCEPT ![RDX] = Junk]
      dividend == IF At(1) = RAX THEN cleared ELSE [cleared EXCEPT ![RAX] = cleared[At(1)]]
      \* mov rcx, op2; mov op0, op1; shl op0, cl
      counted == IF stmt.args[2] = NoValue \/ At(2) = RCX THEN regs ELSE [regs EXCEPT ![RCX] = regs[At(2)]]
      shifted == [counted EXCEPT ![out] = counted[At(1)]]
  IN CASE stmt.op \in {"div", "rem"} ->
            [reads |-> <<dividend[RAX], dividend[At(2)]>>,
             regs |-> [dividend EXCEPT ![RAX] = Junk, ![RDX] = Junk]]
       [] stmt.op = "shl" ->
            [reads |-> <<counted[At(1)], IF stmt.args[2] = NoValue THEN Junk ELSE shifted[RCX]>>,
             regs |-> shifted]
       [] stmt.op = "call_eval" ->
            LET sh == Shuffled(regs) IN
            [reads |-> [j \in 1..n |-> IF j = 1 THEN sh[At(1)]
                                       ELSE IF a.vals[stmt.args[j]].float THEN sh[FloatArgRegs[j - 1]]
                                       ELSE sh[ArgRegs[j - 1]]],
             regs |-> [r \in Reg |-> IF r \in Clobbered THEN Junk ELSE sh[r]]]
       [] OTHER -> [reads |-> plain, regs |-> regs]

\* The assertions of compile_file about registers.
EmitOK ==
  /\ stmt.op \in {"sub", "shl", "fsub", "fdiv"} /\ stmt.args[2] # NoValue => a.vals[stmt.out].reg # At(2)
  /\ stmt.op = "div" => a.vals[stmt.out].reg = RAX
  /\ stmt.op = "rem" => a.vals[stmt.out].reg = RDX

\* A statement of the source block.
Emit ==
  /\ pc = "emit" /\ a.i <= Len(a.block) /\ cur <= Len(Body)
  /\ IF EmitOK
     THEN /\ machine' = [machine EXCEPT !.regs =
                           IF stmt.out = NoValue THEN Ran.regs
                           ELSE [Ran.regs EXCEPT ![a.vals[stmt.out].reg] = Output(cur)]]
          /\ wrong' = wrong \cup {<<cur, j>> : j \in {j \in DOMAIN Ran.reads : Ran.reads[j] # Body[cur].args[j]}}
          /\ a' = [a EXCEPT !.i = @ + 1]
          /\ UNCHANGED pc
     ELSE pc' = "crash" /\ UNCHANGED <<machine, wrong, a>>
  /\ UNCHANGED <<count, src, reg, hist>>

\* A mov, store or load the allocator inserted.
EmitSpill ==
  /\ pc = "emit" /\ a.i <= Len(a.block) /\ cur > Len(Body)
  /\ machine' =
       CASE stmt.op = "mov" -> [machine EXCEPT !.regs[a.vals[stmt.out].reg] = machine.regs[At(1)]]
         [] stmt.op = "spill" -> [machine EXCEPT !.slots[stmt.slot] = machine.regs[At(2)]]
         [] stmt.op = "unspill" -> [machine EXCEPT !.regs[a.vals[stmt.out].reg] = machine.slots[stmt.slot]]
  /\ a' = [a EXCEPT !.i = @ + 1]
  /\ UNCHANGED <<count, src, pc, reg, wrong, hist>>

Finish ==
  /\ pc = "emit" /\ a.i > Len(a.block)
  /\ pc' = "done"
  /\ UNCHANGED <<count, src, a, reg, machine, wrong, hist>>

Stop ==
  /\ pc \in {"build", "done", "crash", "endless"}
  /\ UNCHANGED vars

Next ==
  \/ AddStatement \/ EndBlock
  \/ regalloc_func_arg \/ regalloc_block_arg \/ regalloc_args_end
  \/ Tick \/ NoEnd \/ Reuse \/ Take \/ SpillAway \/ NothingToSpill \/ SpillClobbered \/ ClobberEnd
  \/ BlockEntered \/ Emit \/ EmitSpill \/ Finish \/ Stop

Spec == Init /\ [][Next]_vars
-----------------------------------------------------------------------------
TypeOK ==
  /\ count \in RegisterCounts
  /\ pc \in {"build", "args", "tick", "reuse", "clobber", "emit", "done", "crash", "endless"}
  /\ \A x \in DOMAIN a.block : a.block[x] \in DOMAIN a.stmts
  /\ \A k \in DOMAIN a.stmts : Operands(a.stmts[k]) \cup {a.stmts[k].out} \subseteq 0..Len(a.vals)
  /\ \A r \in Reg : a.alloced[r] \in {None, Reserved} \cup DOMAIN a.vals
  /\ a.alloced # NoAllocator.alloced => \A r \in {RSP, RBP, R11, XMM5} : a.alloced[r] = Reserved
  /\ \A v \in DOMAIN a.vals : a.vals[v].reg \in {None} \cup Reg
  /\ wrong \subseteq (1..Len(Body)) \X (1..3)

\* The register arrays and the values agree, whatever was renamed, moved or stored: the
\* value in a register says that it is there, and that it is not in a stack slot.  So no
\* value is in two registers, and no register is given to two values.
RegistersAgree ==
  \A r \in Reg : LET v == a.alloced[r] IN
    v > 0 => a.vals[v].reg = r /\ a.vals[v].spilled = None /\ a.vals[v].float = (r >= XMM0)

\* The loop over the statements ends although it inserts statements before itself, except
\* in a build that debugs spills, whose allocator can spill and load the same values for
\* ever.
SpillingEnds == pc = "endless" => DebugSpills

RegOf(k, j) == a.vals[a.stmts[k].args[j]].reg

\* The instructions of statement k overwrite a register before they read it: a
\* division its RDX, or RAX, a shift its RCX, a call the register of its target.
OverwritesItself(k) ==
  LET st == a.stmts[k]
      out == a.vals[st.out].reg
  IN \/ /\ st.op \in {"div", "rem"}
        /\ RDX \in {RegOf(k, 1), RegOf(k, 2)} \/ (RegOf(k, 2) = RAX /\ RegOf(k, 1) # RAX)
     \/ /\ st.op = "shl" /\ st.args[2] # NoValue
        /\ RegOf(k, 1) = RCX \/ out = RCX
     \/ /\ st.op = "call_eval"
        /\ RegOf(k, 1) = ArgRegs[1]

\* A value was in a register that a statement clobbers which took over the register of
\* its operand.
ClobberSkipped(k, j) ==
  \E x \in hist.skipped :
    /\ x < k
    /\ {RegOf(k, j), a.vals[Body[k].args[j]].reg} \cap clobbered_registers(a.stmts[x]) # {}

\* The value, or another one that shares its register, was renamed.
RenamedSince(k, j) ==
  \E v \in hist.renamed : a.vals[v].reg \in {RegOf(k, j), a.vals[Body[k].args[j]].reg}

\* An operand that is counted early gives its register back before the statement
\* saves what it clobbers: a mov inserted for the statement took the register.
MovedOver(k, j) ==
  /\ j <= Early(a.stmts[k])
  /\ \E x, y \in DOMAIN a.block :
       /\ x < y /\ a.block[y] = k
       /\ \A z \in x..(y - 1) : a.block[z] > Len(Body)
       /\ a.stmts[a.block[x]].op = "mov"
       /\ a.vals[a.stmts[a.block[x]].out].reg = RegOf(k, j)

\* The emitted code computes what the block says: a statement finds each operand where
\* the allocator put it, after every reuse, expiry and spill.  The four ways in which the
\* code fails are named above; there is no other.
ReadsRight ==
  \A w \in wrong : \/ OverwritesItself(w[1])
                   \/ ClobberSkipped(w[1], w[2])
                   \/ RenamedSince(w[1], w[2])
                   \/ MovedOver(w[1], w[2])

\* The last statement number that uses v.
LastUse(v) == a.stmts[a.vals[v].edges[Len(a.vals[v].edges)]].num

\* The second operand of the statement was spilled to make room for its output.
SpilledForOutput ==
  LET v == stmt.args[2] IN
  /\ a.vals[stmt.out].reg = a.vals[v].reg
  /\ \/ a.vals[v].spilled # None
     \/ \E k \in DOMAIN a.stmts : a.stmts[k].op = "mov" /\ a.stmts[k].args[1] = v

\* An assertion stops the compiler for one of three reasons only: each register the output
\* may have is held by a value that is dead after the statement but not yet counted as
\* such, or is never given back; the output took the register of a second operand that was spilled for it; or the
\* output was renamed after the fact, out of the register a division needs, or into the
\* one of the second operand.
CrashExplained ==
  pc = "crash" =>
    \/ \A r \in Bank(a.vals[stmt.out].float) \cap Allowed(stmt) :
         \/ a.alloced[r] = Reserved
         \/ /\ a.alloced[r] > 0
            /\ DebugSpills \/ ~UsedUp(a, a.alloced[r])
            /\ LastUse(a.alloced[r]) <= stmt.num
    \/ SpilledForOutput
    \/ stmt.out \in hist.renamed

\* A register is given back once its value is dead.  The exception is an operand, not the
\* first, of a statement without an output, which is never counted: its register stays
\* taken to the end of the block.
Released ==
  pc = "tick" /\ ~DebugSpills => \A r \in Bank(FALSE) \cup Bank(TRUE) :
    LET v == a.alloced[r] IN
    v > 0 /\ a.i <= Len(a.block) /\ ~UsedUp(a, v) /\ LastUse(v) < stmt.num
      => \E x \in DOMAIN a.vals[v].edges : a.stmts[a.vals[v].edges[x]].out = NoValue

\* The allocator's books are right after every step of it.
BooksKept == TypeOK /\ RegistersAgree /\ Released
=============================================================================
