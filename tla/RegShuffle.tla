----------------------------- MODULE RegShuffle -----------------------------
(***************************************************************************)
(* src/x86/bbae_emission_x86.h: the register shuffle emitted before a jump *)
(* to a block with arguments, and before a call.  Every argument sits in a *)
(* source register and has to arrive in a destination register, all at     *)
(* once; the emitted code is a sequence of register moves with one scratch *)
(* register per bank.  The emitter recurses along the chain of moves, so   *)
(* that a register is read before it is overwritten, and breaks cycles     *)
(* through the scratch register.                                           *)
(*                                                                         *)
(* The emitted code is straight-line, so the model executes each move on   *)
(* the machine's registers when it is emitted.  Register r starts with the *)
(* value r.                                                                *)
(***************************************************************************)
EXTENDS Integers, Sequences

CONSTANTS
  NReg,          \* registers are 0..NReg-1 (32 in the code)
  LastInt,       \* REG_R15: up to here integer registers, above XMM registers
  ScratchInt,    \* REG_R11, reserved by the register allocator
  ScratchFloat,  \* REG_XMM5, reserved likewise
  ArgLists       \* the argument lists to shuffle: sequences of [src, dst]

Reg == 0..(NReg - 1)
None == -1

Scratch(r) == IF r <= LastInt THEN ScratchInt ELSE ScratchFloat

Move == [src : Reg, dst : Reg]

\* What the register allocator hands over: no argument lives in a scratch
\* register, banks match, and the parameters of a block (or the argument
\* registers of the ABI) are distinct registers.
ArgsOK(a) ==
  /\ a \in Seq(Move)
  /\ \A i \in 1..Len(a) :
       /\ {a[i].src, a[i].dst} \cap {ScratchInt, ScratchFloat} = {}
       /\ Scratch(a[i].src) = Scratch(a[i].dst)
  /\ \A i, j \in 1..Len(a) : a[i].dst = a[j].dst => i = j

ASSUME RegAssumption ==
  /\ NReg \in Nat /\ LastInt \in Nat
  /\ ScratchInt \in Reg /\ ScratchInt <= LastInt
  /\ ScratchFloat \in Reg /\ ScratchFloat > LastInt
ASSUME ArgAssumption == \A a \in ArgLists : ArgsOK(a)

VARIABLES
  args,    \* the list being shuffled
  n,       \* loop counter: arguments collected, then registers scanned
  in2out,  \* in2out[r]: where the value in r still has to go, or None
  color,   \* in2out_color: 1 visited by an active call, 2 saved in scratch
  cur,     \* parameter "in" of the innermost call of reg_shuffle_single
  stack,   \* the callers of that call, outermost first
  pc,      \* collect, scan, enter (a call), return (from a call), done
  regs     \* the machine's registers, after the code emitted so far

vars == <<args, n, in2out, color, cur, stack, pc, regs>>

Init ==
  /\ args \in ArgLists
  /\ n = 0
  /\ in2out = [r \in Reg |-> None]
  /\ color = [r \in Reg |-> 0]
  /\ cur = None
  /\ stack = <<>>
  /\ pc = "collect"
  /\ regs = [r \in Reg |-> r]

\* One turn of the loop of reg_shuffle_block_args / reg_shuffle_call.
Collect ==
  LET m == args[n + 1] IN
  /\ pc = "collect" /\ n < Len(args)
  /\ n' = n + 1
  /\ in2out' = IF m.src = m.dst THEN in2out ELSE [in2out EXCEPT ![m.src] = m.dst]
  /\ UNCHANGED <<args, color, cur, stack, pc, regs>>

CollectEnd ==
  /\ pc = "collect" /\ n = Len(args)
  /\ n' = 0 /\ pc' = "scan"
  /\ UNCHANGED <<args, in2out, color, cur, stack, regs>>

\* Mutant: the counter does not advance when there is nothing to move.
Scan_stuck ==
  /\ pc = "scan" /\ n < NReg
  /\ IF in2out[n] = None
     THEN UNCHANGED <<n, cur, pc>>
     ELSE cur' = n /\ pc' = "enter" /\ UNCHANGED n
  /\ UNCHANGED <<args, in2out, color, stack, regs>>

\* The loop of do_reg_shuffle.
Scan ==
  /\ pc = "scan" /\ n < NReg
  /\ IF in2out[n] = None
     THEN n' = n + 1 /\ UNCHANGED <<cur, pc>>
     ELSE cur' = n /\ pc' = "enter" /\ UNCHANGED n
  /\ UNCHANGED <<args, in2out, color, stack, regs>>

ScanEnd ==
  /\ pc = "scan" /\ n = NReg
  /\ pc' = "done"
  /\ UNCHANGED <<args, n, in2out, color, cur, stack, regs>>

\* reg_shuffle_single, nothing waits in the target: move and return.
EnterFree ==
  LET out == in2out[cur] IN
  /\ pc = "enter" /\ in2out[out] = None
  /\ regs' = [regs EXCEPT ![out] = regs[cur]]
  /\ in2out' = [in2out EXCEPT ![cur] = None]
  /\ pc' = "return"
  /\ UNCHANGED <<args, n, color, cur, stack>>

\* Mutant: the saved register is not marked.
EnterCycle_unmarked ==
  LET out == in2out[cur] IN
  /\ pc = "enter" /\ in2out[out] # None /\ color[out] # 0
  /\ regs' = [regs EXCEPT ![Scratch(out)] = regs[out], ![out] = regs[cur]]
  /\ in2out' = [in2out EXCEPT ![cur] = None]
  /\ pc' = "return"
  /\ UNCHANGED <<args, n, color, cur, stack>>

\* Mutant: the two moves are emitted in the wrong order.
EnterCycle_swapped ==
  LET out == in2out[cur] IN
  /\ pc = "enter" /\ in2out[out] # None /\ color[out] # 0
  /\ regs' = [regs EXCEPT ![Scratch(out)] = regs[cur], ![out] = regs[cur]]
  /\ in2out' = [in2out EXCEPT ![cur] = None]
  /\ color' = [color EXCEPT ![out] = 2]
  /\ pc' = "return"
  /\ UNCHANGED <<args, n, cur, stack>>

\* reg_shuffle_single, the target belongs to an active call: a cycle.
EnterCycle ==
  LET out == in2out[cur] IN
  /\ pc = "enter" /\ in2out[out] # None /\ color[out] # 0
  /\ regs' = [regs EXCEPT ![Scratch(out)] = regs[out], ![out] = regs[cur]]
  /\ in2out' = [in2out EXCEPT ![cur] = None]
  /\ color' = [color EXCEPT ![out] = 2]
  /\ pc' = "return"
  /\ UNCHANGED <<args, n, cur, stack>>

\* reg_shuffle_single, the target's value has to leave first: recurse.
EnterChain ==
  LET out == in2out[cur] IN
  /\ pc = "enter" /\ in2out[out] # None /\ color[out] = 0
  /\ color' = [color EXCEPT ![cur] = 1]
  /\ stack' = Append(stack, cur)
  /\ cur' = out
  /\ UNCHANGED <<args, n, in2out, pc, regs>>

\* The recursive call is over: the caller emits its own move and returns too.
ReturnToCaller ==
  LET in == stack[Len(stack)]
      out == in2out[in]
  IN
  /\ pc = "return" /\ stack # <<>>
  /\ regs' = [regs EXCEPT ![out] = IF color[in] = 2 THEN regs[Scratch(in)] ELSE regs[in]]
  /\ in2out' = [in2out EXCEPT ![in] = None]
  /\ cur' = in
  /\ stack' = SubSeq(stack, 1, Len(stack) - 1)
  /\ UNCHANGED <<args, n, color, pc>>

ReturnToScan ==
  /\ pc = "return" /\ stack = <<>>
  /\ pc' = "scan" /\ n' = n + 1
  /\ UNCHANGED <<args, in2out, color, cur, stack, regs>>

Next ==
  \/ Collect \/ CollectEnd
  \/ Scan \/ ScanEnd
  \/ EnterFree \/ EnterCycle \/ EnterChain
  \/ ReturnToCaller \/ ReturnToScan

Spec == Init /\ [][Next]_vars

\* The emitter is sequential code that nothing blocks.
FairSpec == Spec /\ WF_vars(Next)

-----------------------------------------------------------------------------
(* Properties *)

\* Types; the counter stays within the loop it counts.
TypeOK ==
  /\ args \in Seq(Move)
  /\ n \in Nat /\ n <= (IF pc = "collect" THEN Len(args) ELSE NReg)
  /\ in2out \in [Reg -> Reg \cup {None}]
  /\ color \in [Reg -> 0..2]
  /\ cur \in Reg \cup {None}
  /\ stack \in Seq(Reg)
  /\ pc \in {"collect", "scan", "enter", "return", "done"}
  /\ regs \in [Reg -> Reg]

\* No value is to be moved to two registers.
SourcesDistinct(a) ==
  \A i, j \in 1..Len(a) :
    a[i].src # a[i].dst /\ a[j].src # a[j].dst /\ a[i].src = a[j].src => i = j

\* Every argument has arrived, and a register that is no destination (and no
\* scratch register) still holds what it held.
Shuffled ==
  /\ \A i \in 1..Len(args) : regs[args[i].dst] = args[i].src
  /\ \A r \in Reg :
       r \notin {args[i].dst : i \in 1..Len(args)} \cup {ScratchInt, ScratchFloat}
         => regs[r] = r

\* The sequence of moves amounts to one parallel move, for every list in which
\* no value is passed to two parameters: any mix of chains and cycles.
ParallelMove == pc = "done" /\ SourcesDistinct(args) => Shuffled

\* A value that has yet to be moved is never overwritten on the way: it is in
\* its register, or in the scratch register if its register was reused.
PendingIntact ==
  \A r \in Reg : in2out[r] # None =>
    r = IF color[r] = 2 THEN regs[Scratch(r)] ELSE regs[r]

\* The recursion and the scan come to an end.
Terminates == <>(pc = "done")
=============================================================================
