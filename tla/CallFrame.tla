------------------------------ MODULE CallFrame ------------------------------
(***************************************************************************)
(* The calling convention and the stack frame: src/x86/abi_x86.h hands out *)
(* argument registers, regalloc_func_args takes them for the parameters of *)
(* a function, reg_shuffle_call for the arguments of a call;               *)
(* allocate_stack_slots and the prologue of compile_file lay the frame     *)
(* out: slots below RBP, saved registers above RSP.  The frame is then     *)
(* used: a caller calls the function, its body writes whatever it may      *)
(* write, and it returns.                                                  *)
(*                                                                         *)
(* Registers hold abstract values <<kind, n>>.  Memory is one cell per     *)
(* byte; a stored register is eight cells <<value, 0>> .. <<value, 7>>.    *)
(***************************************************************************)
EXTENDS Integers, Sequences, FiniteSets

CONSTANTS
  ABIs,       \* the conventions to check: "sysv", "win"
  Functions,  \* functions [args, slots, outputs, params]: parameters
              \* [float, used] in order, the sizes of the stack slots, the
              \* registers of statement outputs and of block parameters
  Top         \* the caller's RSP, a multiple of 16; the stack ends at 0

RSP == 4
RBP == 5
R11 == 11
XMM0 == 16
XMM5 == 21
Reg == 0..31

\* What a function may be: sizes are byte counts, and neither outputs nor block
\* parameters get a register the allocator reserves.
IsFunction(f) ==
  /\ f.args \in Seq([float : BOOLEAN, used : BOOLEAN])
  /\ f.slots \in Seq(Nat)
  /\ f.outputs \subseteq Reg \ {RSP, RBP, R11, XMM5}
  /\ f.params \subseteq Reg \ {RSP, RBP, R11, XMM5}

ASSUME AbiAssumption == ABIs \subseteq {"sysv", "win"}
ASSUME FunctionsAssumption == \A f \in Functions : IsFunction(f)
ASSUME TopAssumption == Top \in Nat /\ Top >= 16 /\ Top % 16 = 0

VARIABLES
  abi,      \* the static variable abi: fixed when the compiler is built
  pc,       \* what the compiler, or the machine, does next
  func,     \* the function compiled, then called
  used,     \* abi_i64s_used, abi_f64s_used, abi_stack_used
  where,    \* where the function expects each parameter, None if unused
  place,    \* where a caller puts each argument
  slot_at,  \* slot->offset of the slots laid out so far
  height,   \* func->stack_height
  saved,    \* the callee-saved registers the prologue saves
  mem, regs, rsp, rbp

vars == <<abi, pc, func, used, where, place, slot_at, height, saved, mem, regs, rsp, rbp>>
machine == <<mem, regs, rsp, rbp>>

None == -1000
-----------------------------------------------------------------------------
(* abi_x86.h *)

NoneUsed == [i64s |-> 0, f64s |-> 0, stack |-> 0]

\* Registers a callee may overwrite.
abi_get_clobber_mask ==
  IF abi = "win" THEN {0, 1, 2, 8, 9, 10, 11} \cup 16..21
                 ELSE {0, 1, 2, 6, 7, 8, 9, 10, 11} \cup 16..31

\* The place of the next argument: a register, or a negative offset from RBP.
abi_get_next_arg_basic(u, float) ==
  LET int_regs == IF abi = "win" THEN <<1, 2, 8, 9>> ELSE <<7, 6, 2, 1, 8, 9>>
      n == IF abi = "sysv" /\ float THEN u.f64s ELSE u.i64s
      in_regs == IF abi = "sysv" /\ float THEN 8 ELSE Len(int_regs)
  IN IF n < in_regs
     THEN IF float THEN XMM0 + n ELSE int_regs[n + 1]
     ELSE IF abi = "win" THEN -(48 + (n - 4) * 8) ELSE -(16 + u.stack)

\* The counters after that.
Taken(u, float) ==
  [i64s |-> IF abi = "sysv" /\ float THEN u.i64s ELSE u.i64s + 1,
   f64s |-> IF abi = "sysv" /\ float THEN u.f64s + 1 ELSE u.f64s,
   stack |-> IF abi = "sysv" /\ abi_get_next_arg_basic(u, float) < 0 THEN u.stack + 8 ELSE u.stack]

-----------------------------------------------------------------------------
(* Compiling the function *)

NoFunction == [args |-> <<>>, slots |-> <<>>, outputs |-> {}, params |-> {}]
Memory == [a \in 0..(Top + 15) |-> <<<<"caller", a>>, 0>>]
Registers == [r \in Reg |-> <<"caller", r>>]

Init ==
  /\ abi \in ABIs
  /\ pc = "idle"
  /\ func = NoFunction
  /\ used = NoneUsed
  /\ where = <<>> /\ place = <<>>
  /\ slot_at = <<>> /\ height = 0 /\ saved = {}
  /\ mem = Memory
  /\ regs = Registers
  /\ rsp = Top /\ rbp = Top + 16

\* A function reaches do_regalloc; regalloc_func_args resets the counters.
Parse ==
  /\ pc = "idle"
  /\ func' \in Functions
  /\ used' = NoneUsed
  /\ pc' = "params"
  /\ UNCHANGED <<abi, where, place, slot_at, height, saved, machine>>

\* regalloc_func_args, one parameter: a parameter without users is skipped
\* before its register is asked for, one on the stack is not supported.
regalloc_func_arg ==
  LET p == func.args[Len(where) + 1]
      to == abi_get_next_arg_basic(used, p.float)
  IN
  /\ pc = "params" /\ Len(where) < Len(func.args)
  /\ IF ~p.used
     THEN where' = Append(where, None) /\ UNCHANGED <<pc, used>>
     ELSE /\ where' = Append(where, to)
          /\ used' = Taken(used, p.float)
          /\ pc' = IF to < 0 THEN "crash" ELSE pc
  /\ UNCHANGED <<abi, func, place, slot_at, height, saved, machine>>

regalloc_func_args_end ==
  /\ pc = "params" /\ Len(where) = Len(func.args)
  /\ pc' = "slots"
  /\ UNCHANGED <<abi, func, used, where, place, slot_at, height, saved, machine>>

\* the smallest power of two that is no less than s, at most 64
size_guess_align(s) ==
  IF s <= 1 THEN 1 ELSE IF s <= 2 THEN 2 ELSE IF s <= 4 THEN 4 ELSE IF s <= 8 THEN 8
  ELSE IF s <= 16 THEN 16 ELSE IF s <= 32 THEN 32 ELSE 64

Aligned(n, a) == n + ((a - (n % a)) % a)

\* the lower end of the slots laid out so far, as a distance from RBP
offset == IF slot_at = <<>> THEN 0 ELSE slot_at[Len(slot_at)]

\* Mutant: a slot starts where the one before it does.
allocate_stack_slot_in_place ==
  LET size == func.slots[Len(slot_at) + 1] IN
  /\ pc = "slots" /\ Len(slot_at) < Len(func.slots)
  /\ slot_at' = Append(slot_at, Aligned(offset, size_guess_align(size)))
  /\ UNCHANGED <<abi, pc, func, used, where, place, height, saved, machine>>

\* allocate_stack_slots, one slot: it ends at the distance it is aligned to.
allocate_stack_slot ==
  LET size == func.slots[Len(slot_at) + 1] IN
  /\ pc = "slots" /\ Len(slot_at) < Len(func.slots)
  /\ slot_at' = Append(slot_at, Aligned(offset + size, size_guess_align(size)))
  /\ UNCHANGED <<abi, pc, func, used, where, place, height, saved, machine>>

allocate_stack_slots_end ==
  /\ pc = "slots" /\ Len(slot_at) = Len(func.slots)
  /\ height' = offset
  /\ pc' = "frame"
  /\ UNCHANGED <<abi, func, used, where, place, slot_at, saved, machine>>

\* while (stack_height & 16) stack_height += 1
ClearBit4(h) == IF (h \div 16) % 2 = 1 THEN 16 * (h \div 16 + 1) ELSE h

\* Mutant: no room for the saved registers.
BeginFunction_no_room ==
  /\ pc = "frame"
  /\ saved' = func.outputs \ (abi_get_clobber_mask \cup {RSP, RBP})
  /\ height' = ClearBit4(height)
  /\ pc' = "compiled"
  /\ UNCHANGED <<abi, func, used, where, place, slot_at, machine>>

\* do_regalloc marked the registers of the outputs as written; compile_file
\* makes room for those a callee has to keep.
BeginFunction ==
  LET keep == func.outputs \ (abi_get_clobber_mask \cup {RSP, RBP}) IN
  /\ pc = "frame"
  /\ saved' = keep
  /\ height' = ClearBit4(height + 8 * Cardinality(keep))
  /\ pc' = "compiled"
  /\ UNCHANGED <<abi, func, used, where, place, slot_at, machine>>

-----------------------------------------------------------------------------
(* Calling it *)

Stored(m, a, v) == [b \in DOMAIN m |-> IF b \in a..(a + 7) THEN <<v, b - a>> ELSE m[b]]
Load(m, a) ==
  IF \A k \in 0..7 : m[a + k] = <<m[a][1], k>> THEN m[a][1] ELSE <<"torn", a>>

\* Mutant: the counters are not reset.
BeginCall_no_reset ==
  /\ pc = "compiled"
  /\ pc' = "passing"
  /\ UNCHANGED <<abi, func, used, where, place, slot_at, height, saved, machine>>

\* A call in BBAE code: reg_shuffle_call resets the counters...
BeginCall ==
  /\ pc = "compiled"
  /\ used' = NoneUsed
  /\ pc' = "passing"
  /\ UNCHANGED <<abi, func, where, place, slot_at, height, saved, machine>>

\* ... and puts every argument where abi_get_next_arg_basic says, used or not.
PassArgument ==
  LET i == Len(place) + 1
      to == abi_get_next_arg_basic(used, func.args[i].float)
  IN
  /\ pc = "passing" /\ i <= Len(func.args)
  /\ place' = Append(place, to)
  /\ used' = Taken(used, func.args[i].float)
  /\ IF to < 0 THEN pc' = "crash" /\ UNCHANGED regs
     ELSE pc' = pc /\ regs' = [regs EXCEPT ![to] = <<"arg", i>>]
  /\ UNCHANGED <<abi, func, where, slot_at, height, saved, mem, rsp, rbp>>

Call ==
  /\ pc = "passing" /\ Len(place) = Len(func.args)
  /\ rsp' = rsp - 8
  /\ mem' = Stored(mem, rsp - 8, <<"return", 0>>)
  /\ pc' = "prologue"
  /\ UNCHANGED <<abi, func, used, where, place, slot_at, height, saved, regs, rbp>>

\* Registers are saved from the stack pointer up, in the order of their numbers.
SaveOffset(r) == 8 * Cardinality({q \in saved : q < r})
SaveArea(low, r) == (low + SaveOffset(r))..(low + SaveOffset(r) + 7)

\* What is left of the stack is enough for the frame; if not, the machine faults.
Fits == rsp - 8 - height >= 0

StackOverflow ==
  /\ pc = "prologue" /\ ~Fits
  /\ pc' = "crash"
  /\ UNCHANGED <<abi, func, used, where, place, slot_at, height, saved, machine>>

\* push rbp; mov rbp, rsp; sub rsp, height; a store for each saved register
Prologue ==
  LET base == rsp - 8
      low == base - height
      pushed == Stored(mem, base, <<"address", rbp>>)
      Saver(b) == CHOOSE r \in saved : b \in SaveArea(low, r)
  IN
  /\ pc = "prologue" /\ Fits
  /\ rbp' = base
  /\ rsp' = low
  /\ mem' = [b \in DOMAIN mem |->
               IF \E r \in saved : b \in SaveArea(low, r)
               THEN <<regs[Saver(b)], (b - low) % 8>> ELSE pushed[b]]
  /\ pc' = "body"
  /\ UNCHANGED <<abi, func, used, where, place, slot_at, height, saved, regs>>

\* Bytes of slot s.
Cells(s) == (rbp - slot_at[s])..(rbp - slot_at[s] + func.slots[s] - 1)

\* The function overwrites its slots, the registers of its outputs and of its
\* block parameters (the shuffle before a jump), and the scratch registers.
Body ==
  LET written == func.outputs \cup func.params \cup {R11, XMM5} IN
  /\ pc = "body"
  /\ regs' = [r \in Reg |-> IF r \in written THEN <<"body", r>> ELSE regs[r]]
  /\ mem' = [a \in DOMAIN mem |->
               IF \E s \in DOMAIN slot_at : a \in Cells(s) THEN <<<<"body", a>>, 0>> ELSE mem[a]]
  /\ pc' = "epilogue"
  /\ UNCHANGED <<abi, func, used, where, place, slot_at, height, saved, rsp, rbp>>

\* a load for each saved register; leave; ret
Epilogue ==
  /\ pc = "epilogue"
  /\ regs' = [r \in Reg |->
               IF r \in saved THEN Load(mem, rsp + SaveOffset(r)) ELSE regs[r]]
  /\ rbp' = Load(mem, rbp)[2]
  /\ rsp' = rbp + 16
  /\ pc' = IF Load(mem, rbp + 8) = <<"return", 0>> THEN "returned" ELSE "lost"
  /\ UNCHANGED <<abi, func, used, where, place, slot_at, height, saved, mem>>

\* Compilation goes on with another function; the counters are static variables
\* (after a crash, of a new process).
NextFunction ==
  /\ pc \in {"returned", "crash"}
  /\ pc' = "idle"
  /\ func' = NoFunction
  /\ used' = IF pc = "crash" THEN NoneUsed ELSE used
  /\ where' = <<>> /\ place' = <<>>
  /\ slot_at' = <<>> /\ height' = 0 /\ saved' = {}
  /\ mem' = Memory
  /\ regs' = Registers
  /\ rsp' = Top /\ rbp' = Top + 16
  /\ UNCHANGED abi

Next ==
  \/ Parse \/ regalloc_func_arg \/ regalloc_func_args_end
  \/ allocate_stack_slot \/ allocate_stack_slots_end \/ BeginFunction
  \/ BeginCall \/ PassArgument \/ Call \/ StackOverflow \/ Prologue \/ Body \/ Epilogue
  \/ NextFunction

Spec == Init /\ [][Next]_vars

-----------------------------------------------------------------------------
(* Properties *)

\* Types of the layout.
TypeOK ==
  /\ func.slots \in Seq(Nat)
  /\ slot_at \in Seq(Nat) /\ Len(slot_at) <= Len(func.slots)
  /\ saved \subseteq Reg
  /\ height \in Nat

\* The frame holds everything it has to: the slots of allocate_stack_slots are
\* disjoint and below RBP, and once the prologue is laid out the registers it
\* saves lie between RSP and the lowest slot.
FrameDisjoint ==
  /\ \A s \in 1..Len(slot_at) : slot_at[s] - func.slots[s] >= 0
  /\ \A s, t \in 1..Len(slot_at) : s < t => slot_at[t] - func.slots[t] >= slot_at[s]
  /\ pc \notin {"idle", "params", "slots", "frame", "crash"} =>
       \A s \in 1..Len(slot_at) : height - slot_at[s] >= 8 * Cardinality(saved)

\* RBP is a multiple of 16 in a function called with an aligned stack: then every
\* slot is as aligned as its size asks for, up to 16.
SlotsAligned ==
  pc \in {"body", "epilogue"} =>
    \A s \in DOMAIN slot_at :
      LET a == size_guess_align(func.slots[s])
      IN (rbp - slot_at[s]) % (IF a <= 16 THEN a ELSE 16) = 0

\* abi_x86.h promises compatibility with C for primitive values: when the body
\* starts, the register that stands for a parameter holds its argument.  A
\* parameter without users is skipped before its register is counted, so the
\* promise is kept only up to the first of those.
ArgumentsArrive ==
  pc = "body" =>
    \A i \in DOMAIN func.args :
      (\A j \in 1..i : func.args[j].used) => regs[where[i]] = <<"arg", i>>

\* written_registers is "used to avoid clobbering callee-saved registers": the
\* function returns to its caller, with RSP, RBP, every callee-saved register and
\* the caller's part of the stack as they were.  Only outputs of statements count
\* as written: a callee-saved register that just a block parameter is in is lost.
CallerPreserved ==
  /\ pc # "lost"
  /\ pc = "returned" =>
       /\ rsp = Top /\ rbp = Top + 16
       /\ \A r \in Reg \ abi_get_clobber_mask : regs[r] = <<"caller", r>> \/ r \in func.params \ func.outputs
       /\ \A a \in Top..(Top + 15) : mem[a] = <<<<"caller", a>>, 0>>

\* What an ABI asks of a function besides taking its arguments.
AbiKept == TypeOK /\ CallerPreserved /\ SlotsAligned
=============================================================================
