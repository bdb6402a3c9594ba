-------------------------- MODULE CallFrameProofs --------------------------
(* For every function (any number of parameters, of slots of any size, any *)
(* set of registers to save): the layout of the stack frame is sound, the  *)
(* arguments arrive, and the caller finds its registers and its stack as   *)
(* they were.                                                              *)
EXTENDS CallFrame, TLAPS, SequenceTheorems, FiniteSetTheorems

\* FrameDisjoint as it is while slots are added, and what the prologue finds.
IInv ==
  /\ TypeOK
  /\ FrameDisjoint
  /\ func.outputs \subseteq Reg
  /\ pc \in {"idle", "params"} => slot_at = <<>>
  /\ pc = "frame" => height = offset

\* Alignment only moves upwards.
LEMMA AlignedUp ==
  ASSUME NEW n \in Nat, NEW a \in Nat \ {0}
  PROVE  Aligned(n, a) \in Nat /\ Aligned(n, a) >= n
<1>1. n % a \in 0..(a - 1)
  OBVIOUS
<1>2. (a - (n % a)) % a \in 0..(a - 1)
  BY <1>1
<1> QED BY <1>2 DEF Aligned

\* An alignment is at least one byte.
LEMMA AlignPositive ==
  ASSUME NEW s \in Nat
  PROVE  size_guess_align(s) \in Nat \ {0}
BY DEF size_guess_align

\* Clearing the bit makes a frame larger, never smaller.
LEMMA ClearBit4Up ==
  ASSUME NEW h \in Nat
  PROVE  ClearBit4(h) \in Nat /\ ClearBit4(h) >= h
BY DEF ClearBit4

\* A set of registers has a number of members.
LEMMA SavedFinite ==
  ASSUME NEW S, S \subseteq Reg
  PROVE  Cardinality(S) \in Nat
<1>1. IsFiniteSet(Reg)
  <2>1. 0 \in Int /\ 31 \in Int
    OBVIOUS
  <2> QED BY <2>1, FS_Interval, Zenon DEF Reg
<1> QED BY <1>1, FS_Subset, FS_CardinalityType

\* An offset laid out and the size of its slot are numbers.
LEMMA SlotsNat ==
  ASSUME NEW at \in Seq(Nat), NEW sizes \in Seq(Nat), Len(at) <= Len(sizes),
         NEW s \in 1..Len(at)
  PROVE  at[s] \in Nat /\ sizes[s] \in Nat
<1>1. at[s] \in Nat
  BY ElementOfSeq
<1>2. s \in 1..Len(sizes)
  <2>1. Len(at) \in Nat /\ Len(sizes) \in Nat
    BY LenProperties
  <2> QED BY <2>1
<1>3. sizes[s] \in Nat
  BY <1>2, ElementOfSeq
<1> QED BY <1>1, <1>3

\* What one more slot does to the slots: nothing to those laid out, and it lies
\* below all of them.
LEMMA SlotAdded ==
  ASSUME IInv, allocate_stack_slot
  PROVE  IInv'
<1> DEFINE size == func.slots[Len(slot_at) + 1]
           new == Aligned(offset + size, size_guess_align(size))
<1>1. /\ pc = "slots" /\ Len(slot_at) + 1 \in 1..Len(func.slots)
      /\ slot_at' = Append(slot_at, new)
      /\ pc' = pc /\ func' = func /\ height' = height /\ saved' = saved
      /\ slot_at \in Seq(Nat) /\ func.slots \in Seq(Nat) /\ Len(slot_at) <= Len(func.slots)
  BY DEF allocate_stack_slot, IInv, TypeOK
<1>2. size \in Nat
  BY <1>1, ElementOfSeq
<1>3. offset \in Nat /\ \A s \in 1..Len(slot_at) : slot_at[s] <= offset
  <2>1. CASE slot_at = <<>>
    BY <2>1 DEF offset
  <2>2. CASE slot_at # <<>>
    <3>1. Len(slot_at) \in 1..Len(slot_at) /\ offset = slot_at[Len(slot_at)]
      BY <1>1, <2>2, EmptySeq DEF offset
    <3>2. ASSUME NEW s \in 1..Len(slot_at), s # Len(slot_at)
          PROVE  slot_at[s] <= offset
      <4>1. s < Len(slot_at)
        BY <3>2
      <4>2. func.slots[Len(slot_at)] \in Nat /\ slot_at[s] \in Nat /\ slot_at[Len(slot_at)] \in Nat
        <5>1. slot_at[s] \in Nat
          BY <1>1, SlotsNat
        <5>2. slot_at[Len(slot_at)] \in Nat /\ func.slots[Len(slot_at)] \in Nat
          BY <1>1, <3>1, SlotsNat
        <5> QED BY <5>1, <5>2
      <4>3. slot_at[Len(slot_at)] - func.slots[Len(slot_at)] >= slot_at[s]
        BY <4>1, <3>1 DEF IInv, FrameDisjoint
      <4> QED BY <4>2, <4>3, <3>1
    <3> QED BY <1>1, <3>1, <3>2
  <2> QED BY <2>1, <2>2
<1>4. new \in Nat /\ new >= offset + size
  <2> HIDE DEF size
  <2>1. offset + size \in Nat
    BY <1>2, <1>3
  <2>2. size_guess_align(size) \in Nat \ {0}
    BY <1>2, AlignPositive
  <2> QED BY <2>1, <2>2, AlignedUp, Zenon
<1> HIDE DEF new, size
<1>5. /\ slot_at' \in Seq(Nat) /\ Len(slot_at') = Len(slot_at) + 1
      /\ \A s \in 1..Len(slot_at) : slot_at'[s] = slot_at[s]
      /\ slot_at'[Len(slot_at) + 1] = new
  BY <1>1, <1>4
<1>6. TypeOK'
  BY <1>1, <1>5 DEF IInv, TypeOK
<1>7. \A s \in 1..Len(slot_at) : func.slots[s] \in Nat /\ slot_at[s] \in Nat
  BY <1>1, SlotsNat
<1>8. \A s \in 1..Len(slot_at') : slot_at'[s] - func'.slots[s] >= 0
  <2> SUFFICES ASSUME NEW s \in 1..Len(slot_at')
               PROVE  slot_at'[s] - func'.slots[s] >= 0
    OBVIOUS
  <2>1. CASE s = Len(slot_at) + 1
    <3>1. slot_at'[s] = new /\ func'.slots[s] = size
      BY <2>1, <1>1, <1>5 DEF size
    <3> QED BY <3>1, <1>2, <1>3, <1>4
  <2>2. CASE s \in 1..Len(slot_at)
    BY <2>2, <1>1, <1>5 DEF IInv, FrameDisjoint
  <2>3. Len(slot_at) \in Nat /\ Len(slot_at') = Len(slot_at) + 1
    BY <1>1, <1>5, LenProperties
  <2> QED BY <2>1, <2>2, <2>3
<1>9. \A s, t \in 1..Len(slot_at') : s < t => slot_at'[t] - func'.slots[t] >= slot_at'[s]
  <2> SUFFICES ASSUME NEW s \in 1..Len(slot_at'), NEW t \in 1..Len(slot_at'), s < t
               PROVE  slot_at'[t] - func'.slots[t] >= slot_at'[s]
    OBVIOUS
  <2>0. s \in 1..Len(slot_at)
    BY <1>1, <1>5
  <2>1. CASE t = Len(slot_at) + 1
    <3>1. slot_at'[t] = new /\ func'.slots[t] = size
      BY <2>1, <1>1, <1>5 DEF size
    <3>2. slot_at'[s] = slot_at[s] /\ slot_at[s] \in Nat /\ slot_at[s] <= offset
      BY <2>0, <1>3, <1>5, <1>7
    <3> QED BY <3>1, <3>2, <1>2, <1>3, <1>4
  <2>2. CASE t \in 1..Len(slot_at)
    BY <2>0, <2>2, <1>1, <1>5 DEF IInv, FrameDisjoint
  <2>3. Len(slot_at) \in Nat /\ Len(slot_at') = Len(slot_at) + 1
    BY <1>1, <1>5, LenProperties
  <2> QED BY <2>1, <2>2, <2>3
<1>10. FrameDisjoint'
  BY <1>1, <1>8, <1>9 DEF FrameDisjoint
<1> QED BY <1>1, <1>6, <1>10 DEF IInv

\* The prologue's frame is at least the slots and eight bytes for each register.
LEMMA FrameSized ==
  ASSUME IInv, BeginFunction
  PROVE  IInv'
<1> DEFINE keep == func.outputs \ (abi_get_clobber_mask \cup {RSP, RBP})
<1>1. /\ pc = "frame" /\ pc' = "compiled" /\ saved' = keep
      /\ height' = ClearBit4(height + 8 * Cardinality(keep))
      /\ func' = func /\ slot_at' = slot_at
      /\ height = offset /\ height \in Nat
      /\ slot_at \in Seq(Nat) /\ func.slots \in Seq(Nat)
      /\ Len(slot_at) <= Len(func.slots)
  BY DEF BeginFunction, IInv, TypeOK
<1>2. keep \subseteq Reg
  BY DEF IInv
<1>3. Cardinality(keep) \in Nat
  BY <1>2, SavedFinite
<1> HIDE DEF keep
<1>4. height' \in Nat /\ height' >= height + 8 * Cardinality(keep)
  <2>1. height + 8 * Cardinality(keep) \in Nat
    BY <1>1, <1>3
  <2> QED BY <2>1, <1>1, ClearBit4Up
<1>5. \A s \in 1..Len(slot_at) : slot_at[s] \in Nat /\ slot_at[s] <= offset
  <2> SUFFICES ASSUME NEW s \in 1..Len(slot_at)
               PROVE  slot_at[s] \in Nat /\ slot_at[s] <= offset
    OBVIOUS
  <2>1. slot_at # <<>> /\ Len(slot_at) \in 1..Len(slot_at) /\ offset = slot_at[Len(slot_at)]
    BY <1>1, EmptySeq DEF offset
  <2>2. func.slots[Len(slot_at)] \in Nat /\ slot_at[s] \in Nat /\ slot_at[Len(slot_at)] \in Nat
    <3>1. slot_at[s] \in Nat
      BY <1>1, SlotsNat
    <3>2. slot_at[Len(slot_at)] \in Nat /\ func.slots[Len(slot_at)] \in Nat
      BY <1>1, <2>1, SlotsNat
    <3> QED BY <3>1, <3>2
  <2>3. s < Len(slot_at) => slot_at[Len(slot_at)] - func.slots[Len(slot_at)] >= slot_at[s]
    BY <2>1 DEF IInv, FrameDisjoint
  <2> QED BY <2>1, <2>2, <2>3
<1>6. \A s \in 1..Len(slot_at) : height' - slot_at[s] >= 8 * Cardinality(saved')
  <2> SUFFICES ASSUME NEW s \in 1..Len(slot_at)
               PROVE  height' - slot_at[s] >= 8 * Cardinality(keep)
    BY <1>1
  <2>1. slot_at[s] \in Nat /\ slot_at[s] <= height /\ height \in Nat
    BY <1>1, <1>5
  <2> QED BY <2>1, <1>3, <1>4
<1>7. TypeOK'
  BY <1>1, <1>2, <1>4 DEF IInv, TypeOK
<1>8. FrameDisjoint'
  BY <1>1, <1>6 DEF IInv, FrameDisjoint
<1> QED BY <1>1, <1>7, <1>8 DEF IInv

\* The layout starts right...
LEMMA InitIInv == Init => IInv
BY EmptySeq DEF Init, NoFunction, IInv, TypeOK, FrameDisjoint, offset, Reg

\* ... and every step keeps it so.
LEMMA NextIInv == IInv /\ [Next]_vars => IInv'
<1> SUFFICES ASSUME IInv, [Next]_vars PROVE IInv'
  OBVIOUS
<1> USE DEF IInv, TypeOK, FrameDisjoint
<1>1. CASE Parse
  <2>1. IsFunction(func') /\ slot_at' = <<>> /\ pc' = "params"
    BY <1>1, FunctionsAssumption DEF Parse
  <2> QED BY <1>1, <2>1, EmptySeq DEF Parse, IsFunction
<1>2. CASE regalloc_func_arg
  BY <1>2 DEF regalloc_func_arg
<1>3. CASE regalloc_func_args_end
  BY <1>3 DEF regalloc_func_args_end
<1>4. CASE allocate_stack_slot
  BY <1>4, SlotAdded
<1>5. CASE allocate_stack_slots_end
  <2>1. offset \in Nat /\ offset' = offset
    BY <1>5, EmptySeq DEF allocate_stack_slots_end, offset
  <2> QED BY <1>5, <2>1 DEF allocate_stack_slots_end
<1>6. CASE BeginFunction
  BY <1>6, FrameSized
<1>7. CASE BeginCall \/ PassArgument \/ Call \/ StackOverflow \/ Prologue \/ Body
  BY <1>7 DEF BeginCall, PassArgument, Call, StackOverflow, Prologue, Body
<1>8. CASE Epilogue
  BY <1>8 DEF Epilogue
<1>9. CASE NextFunction
  BY <1>9, EmptySeq DEF NextFunction, NoFunction, Reg
<1>10. CASE UNCHANGED vars
  BY <1>10 DEF vars, machine, offset
<1> QED BY <1>1, <1>2, <1>3, <1>4, <1>5, <1>6, <1>7, <1>8, <1>9, <1>10 DEF Next

\* The frame compile_file lays out holds its slots and its saved registers apart
\* from each other, for every function.
THEOREM FrameCorrect == Spec => [](TypeOK /\ FrameDisjoint)
<1>1. IInv => TypeOK /\ FrameDisjoint
  BY DEF IInv
<1> QED BY <1>1, InitIInv, NextIInv, PTL DEF Spec

-----------------------------------------------------------------------------
(* Arguments *)

\* The registers the parameters are counted for: with System V, floats apart.
Floats == {i \in DOMAIN func.args : abi = "sysv" /\ func.args[i].float}
Others == DOMAIN func.args \ Floats

\* The counters of abi_x86.h after the first i arguments, while all are in registers.
Counters(i) ==
  [i64s |-> Cardinality(Others \cap 1..i), f64s |-> Cardinality(Floats \cap 1..i), stack |-> 0]

\* Where argument i goes if those before it are in registers.
Place(i) == abi_get_next_arg_basic(Counters(i - 1), func.args[i].float)

\* No parameter up to i was skipped.
AllUsed(i) == \A j \in 1..i : func.args[j].used

\* regalloc_func_args is done, the body is not.
Compiled == {"slots", "frame", "compiled", "passing", "prologue", "body"}

\* The parameters are where the counters say, and so are the arguments.
ArgInv ==
  /\ abi \in {"sysv", "win"}
  /\ func.args \in Seq([float : BOOLEAN, used : BOOLEAN])
  /\ used \in [i64s : Nat, f64s : Nat, stack : Nat]
  /\ DOMAIN regs = Reg
  /\ where \in Seq(Int) /\ place \in Seq(Int)
  /\ Len(where) <= Len(func.args) /\ Len(place) <= Len(func.args)
  /\ pc \in {"idle"} => where = <<>>
  /\ pc \in {"idle", "params", "slots", "frame", "compiled"} => place = <<>>
  /\ pc \in Compiled => Len(where) = Len(func.args)
  /\ pc \in {"prologue", "body"} => Len(place) = Len(func.args)
  /\ pc = "params" /\ AllUsed(Len(where)) => used = Counters(Len(where))
  /\ pc = "passing" => used = Counters(Len(place))
  /\ pc \in Compiled \cup {"params"} =>
       \A i \in 1..Len(where) : AllUsed(i) => where[i] = Place(i)
  /\ pc \in {"passing", "prologue", "body"} =>
       \A i \in 1..Len(place) : Place(i) >= 0 /\ regs[Place(i)] = <<"arg", i>>

\* How many of a set of numbers are among the first i.
LEMMA Prefix ==
  ASSUME NEW S, NEW i \in Nat
  PROVE  /\ IsFiniteSet(S \cap 1..i)
         /\ Cardinality(S \cap 1..i) \in Nat
         /\ Cardinality(S \cap 1..(i + 1)) = Cardinality(S \cap 1..i) + (IF i + 1 \in S THEN 1 ELSE 0)
<1> DEFINE A == S \cap 1..i
           B == S \cap 1..(i + 1)
<1>1. IsFiniteSet(1..i)
  <2>1. 1 \in Int /\ i \in Int
    OBVIOUS
  <2> QED BY <2>1, FS_Interval
<1>2. IsFiniteSet(A) /\ Cardinality(A) \in Nat
  <2>1. A \in SUBSET (1..i)
    OBVIOUS
  <2> QED BY <1>1, <2>1, FS_Subset, FS_CardinalityType
<1>3. i + 1 \notin A
  OBVIOUS
<1>4. CASE i + 1 \in S
  <2>1. B = A \cup {i + 1}
    BY <1>4
  <2> HIDE DEF A, B
  <2>2. Cardinality(A \cup {i + 1}) = IF i + 1 \in A THEN Cardinality(A) ELSE Cardinality(A) + 1
    BY <1>2, FS_AddElement
  <2>3. Cardinality(B) = Cardinality(A) + 1
    BY <1>3, <2>1, <2>2
  <2> QED BY <1>2, <1>4, <2>3 DEF A, B
<1>5. CASE i + 1 \notin S
  <2>1. B = A
    BY <1>5
  <2> HIDE DEF A, B
  <2>2. Cardinality(B) = Cardinality(A) + 0
    BY <1>2, <2>1
  <2> QED BY <1>2, <1>5, <2>2 DEF A, B
<1> QED BY <1>4, <1>5

\* A member of the set raises the count for all later numbers.
LEMMA PrefixGrows ==
  ASSUME NEW S, NEW i \in Nat, NEW k \in Nat, i + 1 <= k, i + 1 \in S
  PROVE  Cardinality(S \cap 1..i) < Cardinality(S \cap 1..k)
<1> DEFINE A == S \cap 1..i
           B == S \cap 1..(i + 1)
           C == S \cap 1..k
<1>1. Cardinality(B) = Cardinality(A) + 1 /\ Cardinality(A) \in Nat
  BY Prefix
<1>2. IsFiniteSet(C) /\ Cardinality(C) \in Nat
  BY Prefix
<1>3. B \in SUBSET C
  OBVIOUS
<1> HIDE DEF A, B, C
<1>4. Cardinality(B) <= Cardinality(C)
  BY <1>2, <1>3, FS_Subset
<1>5. Cardinality(A) < Cardinality(C)
  BY <1>1, <1>2, <1>4
<1> QED BY <1>5 DEF A, C

\* The registers for integers in their order, and those for floats.
NthRegister(n, r, float) ==
  IF float THEN n <= (IF abi = "win" THEN 3 ELSE 7) /\ r = 16 + n
  ELSE IF abi = "win"
  THEN \/ (n = 0 /\ r = 1) \/ (n = 1 /\ r = 2) \/ (n = 2 /\ r = 8) \/ (n = 3 /\ r = 9)
  ELSE \/ (n = 0 /\ r = 7) \/ (n = 1 /\ r = 6) \/ (n = 2 /\ r = 2)
       \/ (n = 3 /\ r = 1) \/ (n = 4 /\ r = 8) \/ (n = 5 /\ r = 9)

\* The place abi_get_next_arg_basic gives after n arguments of the same kind.
LEMMA NextArgument ==
  ASSUME abi \in {"sysv", "win"}, NEW i64s \in Nat, NEW f64s \in Nat, NEW stack \in Nat, NEW float \in BOOLEAN
  PROVE  LET p == abi_get_next_arg_basic([i64s |-> i64s, f64s |-> f64s, stack |-> stack], float)
             n == IF abi = "sysv" /\ float THEN f64s ELSE i64s
         IN  /\ p \in Int
             /\ p >= 0 => NthRegister(n, p, float)
<1> DEFINE p == abi_get_next_arg_basic([i64s |-> i64s, f64s |-> f64s, stack |-> stack], float)
<1>1. CASE abi = "sysv" /\ float
  <2>1. p = IF f64s < 8 THEN 16 + f64s ELSE -(16 + stack)
    BY <1>1 DEF abi_get_next_arg_basic, XMM0
  <2> HIDE DEF p
  <2>2. p \in Int /\ (p >= 0 => f64s <= 7 /\ p = 16 + f64s)
    BY <2>1
  <2> QED BY <1>1, <2>2 DEF NthRegister, p
<1>2. CASE abi = "sysv" /\ ~float
  <2>1. p = IF i64s < 6 THEN <<7, 6, 2, 1, 8, 9>>[i64s + 1] ELSE -(16 + stack)
    BY <1>2 DEF abi_get_next_arg_basic, XMM0
  <2>2. i64s < 6 => i64s = 0 \/ i64s = 1 \/ i64s = 2 \/ i64s = 3 \/ i64s = 4 \/ i64s = 5
    OBVIOUS
  <2> HIDE DEF p
  <2>4. p \in Int
    BY <2>1, <2>2
  <2>3. p >= 0 => i64s < 6
    BY <2>1, <2>4
  <2>5. i64s < 6 => \/ (i64s = 0 /\ p = 7) \/ (i64s = 1 /\ p = 6) \/ (i64s = 2 /\ p = 2)
                    \/ (i64s = 3 /\ p = 1) \/ (i64s = 4 /\ p = 8) \/ (i64s = 5 /\ p = 9)
    BY <2>1, <2>2
  <2> QED BY <1>2, <2>3, <2>4, <2>5 DEF NthRegister, p
<1>3. CASE abi = "win"
  <2>1. p = IF i64s < 4 THEN IF float THEN 16 + i64s ELSE <<1, 2, 8, 9>>[i64s + 1] ELSE -(48 + (i64s - 4) * 8)
    BY <1>3 DEF abi_get_next_arg_basic, XMM0
  <2>2. i64s < 4 => i64s = 0 \/ i64s = 1 \/ i64s = 2 \/ i64s = 3
    OBVIOUS
  <2> HIDE DEF p
  <2>4. p \in Int
    BY <2>1, <2>2
  <2>3. p >= 0 => i64s < 4
    BY <2>1, <2>4
  <2>5. CASE float
    <3>1. i64s < 4 => p = 16 + i64s /\ i64s <= 3
      BY <2>1, <2>5
    <3> QED BY <1>3, <2>3, <2>4, <2>5, <3>1 DEF NthRegister, p
  <2>6. CASE ~float
    <3>1. i64s < 4 => \/ (i64s = 0 /\ p = 1) \/ (i64s = 1 /\ p = 2) \/ (i64s = 2 /\ p = 8) \/ (i64s = 3 /\ p = 9)
      BY <2>1, <2>2, <2>6
    <3> QED BY <1>3, <2>3, <2>4, <2>6, <3>1 DEF NthRegister, p
  <2> QED BY <2>5, <2>6
<1> QED BY <1>1, <1>2, <1>3

\* The number of arguments before argument i that took a register of its kind.
Before(i) == Cardinality((IF i \in Floats THEN Floats ELSE Others) \cap 1..(i - 1))

\* A parameter is a float or not, used or not, and is counted once.
LEMMA ArgumentTyped ==
  ASSUME ArgInv, NEW i \in 1..Len(func.args)
  PROVE  /\ i - 1 \in Nat /\ i \in DOMAIN func.args
         /\ func.args[i].float \in BOOLEAN /\ func.args[i].used \in BOOLEAN
         /\ i \in Floats <=> abi = "sysv" /\ func.args[i].float
         /\ i \in Others <=> i \notin Floats
<1>1. func.args \in Seq([float : BOOLEAN, used : BOOLEAN])
  BY DEF ArgInv
<1>2. func.args[i] \in [float : BOOLEAN, used : BOOLEAN]
  BY <1>1, ElementOfSeq
<1>3. i \in DOMAIN func.args
  BY <1>1
<1> QED BY <1>2, <1>3 DEF Floats, Others

\* An argument's place in terms of how many of its kind came before.
LEMMA PlaceIs ==
  ASSUME ArgInv, NEW i \in 1..Len(func.args)
  PROVE  /\ Before(i) \in Nat
         /\ Place(i) \in Int
         /\ Place(i) >= 0 => NthRegister(Before(i), Place(i), func.args[i].float)
<1> DEFINE f == Cardinality(Floats \cap 1..(i - 1))
           o == Cardinality(Others \cap 1..(i - 1))
           float == func.args[i].float
<1>1. i - 1 \in Nat /\ float \in BOOLEAN /\ (i \in Floats <=> abi = "sysv" /\ float)
  BY ArgumentTyped
<1>2. f \in Nat /\ o \in Nat
  BY <1>1, Prefix
<1>3. Before(i) = IF abi = "sysv" /\ float THEN f ELSE o
  BY <1>1 DEF Before
<1>4. Place(i) = abi_get_next_arg_basic([i64s |-> o, f64s |-> f, stack |-> 0], float)
  BY DEF Place, Counters
<1>5. abi \in {"sysv", "win"}
  BY DEF ArgInv
<1> HIDE DEF f, o, float
<1>6. /\ Place(i) \in Int
      /\ Place(i) >= 0 => NthRegister(Before(i), Place(i), float)
  BY <1>1, <1>2, <1>3, <1>4, <1>5, NextArgument
<1> QED BY <1>2, <1>3, <1>6 DEF float

\* The counters go on from one argument to the next as long as it is in a register.
LEMMA CountersNext ==
  ASSUME ArgInv, NEW i \in 0..(Len(func.args) - 1), Place(i + 1) >= 0
  PROVE  Taken(Counters(i), func.args[i + 1].float) = Counters(i + 1)
<1>1. i \in Nat /\ i + 1 \in 1..Len(func.args) /\ i + 1 - 1 = i
  BY DEF ArgInv
<1>2. /\ i + 1 \in Floats <=> abi = "sysv" /\ func.args[i + 1].float
      /\ i + 1 \in Others <=> i + 1 \notin Floats
      /\ func.args[i + 1].float \in BOOLEAN
  BY <1>1, ArgumentTyped
<1> DEFINE f == Cardinality(Floats \cap 1..i)
           o == Cardinality(Others \cap 1..i)
           f1 == Cardinality(Floats \cap 1..(i + 1))
           o1 == Cardinality(Others \cap 1..(i + 1))
           float == func.args[i + 1].float
<1>3. /\ f \in Nat /\ o \in Nat
      /\ f1 = f + (IF i + 1 \in Floats THEN 1 ELSE 0)
      /\ o1 = o + (IF i + 1 \in Others THEN 1 ELSE 0)
  BY <1>1, Prefix
<1>4. ~(abi_get_next_arg_basic(Counters(i), float) < 0)
  <2>1. Place(i + 1) = abi_get_next_arg_basic(Counters(i), float)
    BY <1>1 DEF Place
  <2>2. Place(i + 1) \in Int
    BY <1>1, PlaceIs
  <2> QED BY <2>1, <2>2
<1>5. Counters(i) = [i64s |-> o, f64s |-> f, stack |-> 0] /\ Counters(i + 1) = [i64s |-> o1, f64s |-> f1, stack |-> 0]
  BY DEF Counters
<1> HIDE DEF f, o, f1, o1, float
<1>6. Taken(Counters(i), float) = [i64s |-> o1, f64s |-> f1, stack |-> 0]
  <2>1. CASE abi = "sysv" /\ float
    <3>1. f1 = f + 1 /\ o1 = o
      BY <2>1, <1>2, <1>3 DEF float
    <3> QED BY <2>1, <3>1, <1>4, <1>5 DEF Taken
  <2>2. CASE ~(abi = "sysv" /\ float)
    <3>1. f1 = f /\ o1 = o + 1
      BY <2>2, <1>2, <1>3 DEF float
    <3> QED BY <2>2, <3>1, <1>4, <1>5 DEF Taken
  <2> QED BY <2>1, <2>2
<1> QED BY <1>5, <1>6 DEF float

\* Arguments are passed in registers a callee may overwrite.
LEMMA PlaceClobbered ==
  ASSUME ArgInv, NEW i \in 1..Len(func.args), Place(i) >= 0
  PROVE  Place(i) \in Reg /\ Place(i) \in abi_get_clobber_mask
<1> DEFINE n == Before(i)
           p == Place(i)
           float == func.args[i].float
<1>1. n \in Nat /\ p \in Int /\ NthRegister(n, p, float)
  BY PlaceIs
<1>2. float \in BOOLEAN /\ abi \in {"sysv", "win"}
  BY ArgumentTyped DEF ArgInv
<1> HIDE DEF n, p, float
<1>3. p \in Reg /\ p \in abi_get_clobber_mask
  <2>1. CASE float
    <3>1. p \in 16..23 /\ (abi = "win" => p \in 16..21)
      BY <1>1, <2>1 DEF NthRegister
    <3> QED BY <1>2, <3>1 DEF Reg, abi_get_clobber_mask
  <2>2. CASE ~float
    <3>1. p \in {1, 2, 6, 7, 8, 9} /\ (abi = "win" => p \in {1, 2, 8, 9})
      BY <1>1, <2>2 DEF NthRegister
    <3> QED BY <1>2, <3>1 DEF Reg, abi_get_clobber_mask
  <2> QED BY <1>2, <2>1, <2>2
<1> QED BY <1>3 DEF p

\* No two arguments are passed in the same register.
LEMMA PlaceDistinct ==
  ASSUME ArgInv, NEW i \in 1..Len(func.args), NEW k \in 1..Len(func.args), i < k,
         Place(i) >= 0, Place(k) >= 0
  PROVE  Place(i) # Place(k)
<1>1. /\ Before(i) \in Nat /\ Place(i) \in Int /\ NthRegister(Before(i), Place(i), func.args[i].float)
      /\ Before(k) \in Nat /\ Place(k) \in Int /\ NthRegister(Before(k), Place(k), func.args[k].float)
  BY PlaceIs
<1>2. func.args[i].float \in BOOLEAN /\ func.args[k].float \in BOOLEAN
  BY ArgumentTyped
<1>3. CASE func.args[i].float # func.args[k].float
  <2> DEFINE f == func.args[i].float
             g == func.args[k].float
  <2> HIDE DEF f, g
  <2>1. f \in BOOLEAN /\ g \in BOOLEAN /\ f # g
    BY <1>2, <1>3 DEF f, g
  <2>2. NthRegister(Before(i), Place(i), f) /\ NthRegister(Before(k), Place(k), g)
    BY <1>1 DEF f, g
  <2> QED BY <1>1, <2>1, <2>2 DEF NthRegister
<1>4. CASE func.args[i].float = func.args[k].float
  <2> DEFINE S == IF i \in Floats THEN Floats ELSE Others
             float == func.args[i].float
  <2>1. /\ i \in S /\ i - 1 \in Nat /\ k - 1 \in Nat
        /\ Before(i) = Cardinality(S \cap 1..(i - 1))
        /\ Before(k) = Cardinality(S \cap 1..(k - 1))
    BY <1>4, ArgumentTyped DEF Before
  <2> HIDE DEF S
  <2>2. (i - 1) + 1 <= k - 1 /\ (i - 1) + 1 \in S
    BY <2>1
  <2>3. Before(i) < Before(k)
    BY <2>1, <2>2, PrefixGrows
  <2>4. NthRegister(Before(i), Place(i), float) /\ NthRegister(Before(k), Place(k), float)
    BY <1>1, <1>4
  <2>5. float \in BOOLEAN
    BY <1>2
  <2> HIDE DEF float
  <2> QED BY <1>1, <2>3, <2>4, <2>5 DEF NthRegister
<1> QED BY <1>3, <1>4

\* Places and counters change with the function only.
LEMMA SameFunction ==
  ASSUME func' = func, abi' = abi
  PROVE  \A i : Place(i)' = Place(i) /\ Counters(i)' = Counters(i) /\ AllUsed(i)' = AllUsed(i)
<1>1. Floats' = Floats /\ Others' = Others
  BY DEF Floats, Others
<1>2. \A i : Counters(i)' = Counters(i)
  BY <1>1 DEF Counters
<1>3. \A i : AllUsed(i)' = AllUsed(i)
  BY DEF AllUsed
<1>4. \A i : Place(i)' = Place(i)
  <2> SUFFICES ASSUME NEW i PROVE Place(i)' = Place(i)
    OBVIOUS
  <2>1. Counters(i - 1)' = Counters(i - 1)
    BY <1>2
  <2> QED BY <2>1 DEF Place, abi_get_next_arg_basic
<1> QED BY <1>2, <1>3, <1>4

\* The counters after no argument at all, for this function or the next.
LEMMA NoCounters == Counters(0) = NoneUsed /\ Counters(0)' = NoneUsed
<1>1. \A S : S \cap 1..0 = {}
  OBVIOUS
<1> QED BY <1>1, FS_EmptySet DEF Counters, NoneUsed

\* The counters stay numbers, whatever they count.
LEMMA TakenTyped ==
  ASSUME ArgInv, NEW float \in BOOLEAN
  PROVE  /\ abi_get_next_arg_basic(used, float) \in Int
         /\ Taken(used, float) \in [i64s : Nat, f64s : Nat, stack : Nat]
<1>1. /\ used.i64s \in Nat /\ used.f64s \in Nat /\ used.stack \in Nat
      /\ used = [i64s |-> used.i64s, f64s |-> used.f64s, stack |-> used.stack]
      /\ abi \in {"sysv", "win"}
  BY DEF ArgInv
<1>2. abi_get_next_arg_basic(used, float) \in Int
  BY <1>1, NextArgument
<1> QED BY <1>1, <1>2 DEF Taken

\* Nothing has been passed at first.
LEMMA InitArgInv == Init => ArgInv
BY AbiAssumption, EmptySeq DEF Init, ArgInv, NoFunction, NoneUsed, Registers, Compiled

\* regalloc_func_args follows the places as long as all parameters are used.
LEMMA ParameterTaken ==
  ASSUME ArgInv, regalloc_func_arg
  PROVE  ArgInv'
<1> DEFINE n == Len(where) + 1
           p == func.args[n]
           to == abi_get_next_arg_basic(used, p.float)
<1>1. /\ pc = "params" /\ n \in 1..Len(func.args) /\ n - 1 = Len(where) /\ Len(where) \in Nat
      /\ where \in Seq(Int) /\ func' = func /\ abi' = abi /\ regs' = regs /\ place' = place /\ place = <<>>
  BY DEF ArgInv, regalloc_func_arg, machine
<1>2. p.float \in BOOLEAN /\ p.used \in BOOLEAN
  BY <1>1, ArgumentTyped
<1>3. to \in Int /\ Taken(used, p.float) \in [i64s : Nat, f64s : Nat, stack : Nat]
  BY <1>2, TakenTyped
<1>4. \A i : Place(i)' = Place(i) /\ Counters(i)' = Counters(i) /\ AllUsed(i)' = AllUsed(i)
  BY <1>1, SameFunction
<1>5. AllUsed(n) <=> AllUsed(Len(where)) /\ p.used
  BY <1>1 DEF AllUsed
<1>6. AllUsed(Len(where)) => used = Counters(Len(where)) /\ to = Place(n)
  BY <1>1 DEF ArgInv, Place
<1>7. CASE ~p.used
  <2>1. where' = Append(where, None) /\ pc' = pc /\ used' = used
    BY <1>7 DEF regalloc_func_arg
  <2>2. /\ where' \in Seq(Int) /\ Len(where') = n
        /\ \A i \in 1..Len(where) : where'[i] = where[i]
    BY <2>1, <1>1 DEF None
  <2>3. ~AllUsed(n)
    BY <1>5, <1>7
  <2> HIDE DEF n, p, to
  <2>4. \A i \in 1..Len(where') : i = n \/ i \in 1..Len(where)
    BY <2>2 DEF n
  <2>5. \A i \in 1..Len(where') : AllUsed(i) => where'[i] = Place(i)
    BY <2>2, <2>3, <2>4, <1>1 DEF ArgInv
  <2> QED BY <1>1, <1>4, <2>1, <2>2, <2>3, <2>5 DEF ArgInv, Compiled
<1>8. CASE p.used /\ to < 0
  <2>1. where' = Append(where, to) /\ pc' = "crash" /\ used' = Taken(used, p.float)
    BY <1>8 DEF regalloc_func_arg
  <2> HIDE DEF to
  <2>2. where' \in Seq(Int) /\ Len(where') = n
    BY <2>1, <1>1, <1>3
  <2> HIDE DEF n, p, to
  <2> QED BY <1>1, <1>3, <2>1, <2>2 DEF ArgInv, Compiled
<1>9. CASE p.used /\ ~(to < 0)
  <2>1. where' = Append(where, to) /\ pc' = pc /\ used' = Taken(used, p.float)
    BY <1>9 DEF regalloc_func_arg
  <2> HIDE DEF to
  <2>2. /\ where' \in Seq(Int) /\ Len(where') = n /\ where'[n] = to
        /\ \A i \in 1..Len(where) : where'[i] = where[i]
    BY <2>1, <1>1, <1>3
  <2>3. AllUsed(n) => used' = Counters(n)
    <3> SUFFICES ASSUME AllUsed(n) PROVE used' = Counters(n)
      OBVIOUS
    <3>1. used = Counters(Len(where)) /\ Place(Len(where) + 1) >= 0
      BY <1>3, <1>5, <1>6, <1>9
    <3>2. Len(where) \in 0..(Len(func.args) - 1)
      BY <1>1 DEF ArgInv
    <3> QED BY <2>1, <3>1, <3>2, CountersNext
  <2> HIDE DEF n, p
  <2>4. \A i \in 1..Len(where') : i = n \/ i \in 1..Len(where)
    BY <2>2 DEF n
  <2>5. \A i \in 1..Len(where') : AllUsed(i) => where'[i] = Place(i)
    BY <2>2, <2>4, <1>1, <1>5, <1>6 DEF ArgInv
  <2> QED BY <1>1, <1>3, <1>4, <2>1, <2>2, <2>3, <2>5 DEF ArgInv, Compiled
<1> QED BY <1>2, <1>7, <1>8, <1>9

\* reg_shuffle_call follows them, and overwrites no argument passed before.
LEMMA ArgumentPassed ==
  ASSUME ArgInv, PassArgument
  PROVE  ArgInv'
<1> DEFINE n == Len(place) + 1
           p == func.args[n]
           to == abi_get_next_arg_basic(used, p.float)
<1>1. /\ pc = "passing" /\ n \in 1..Len(func.args) /\ n - 1 = Len(place) /\ Len(place) \in Nat
      /\ place \in Seq(Int) /\ func' = func /\ abi' = abi /\ where' = where
      /\ place' = Append(place, to) /\ used' = Taken(used, p.float)
  BY DEF ArgInv, PassArgument
<1>2. p.float \in BOOLEAN
  BY <1>1, ArgumentTyped
<1>3. to \in Int /\ Taken(used, p.float) \in [i64s : Nat, f64s : Nat, stack : Nat]
  BY <1>2, TakenTyped
<1>4. \A i : Place(i)' = Place(i) /\ Counters(i)' = Counters(i) /\ AllUsed(i)' = AllUsed(i)
  BY <1>1, SameFunction
<1>5. used = Counters(Len(place)) /\ to = Place(n)
  BY <1>1 DEF ArgInv, Place
<1>6. place' \in Seq(Int) /\ Len(place') = n
  <2> HIDE DEF to
  <2> QED BY <1>1, <1>3
<1>7. CASE to < 0
  <2>1. pc' = "crash" /\ regs' = regs
    BY <1>7 DEF PassArgument
  <2> HIDE DEF n, p, to
  <2> QED BY <1>1, <1>3, <1>6, <2>1 DEF ArgInv, Compiled
<1>8. CASE ~(to < 0)
  <2>1. pc' = pc /\ regs' = [regs EXCEPT ![to] = <<"arg", n>>]
    BY <1>8 DEF PassArgument
  <2>2. Place(n) >= 0
    BY <1>3, <1>5, <1>8
  <2>3. used' = Counters(n)
    <3>1. Len(place) \in 0..(Len(func.args) - 1) /\ Place(Len(place) + 1) >= 0
      BY <1>1, <2>2 DEF ArgInv
    <3> QED BY <1>1, <1>5, <3>1, CountersNext
  <2>4. to \in Reg
    BY <1>1, <1>5, <2>2, PlaceClobbered
  <2> HIDE DEF n, p, to
  <2>5. ASSUME NEW i \in 1..Len(place')
        PROVE  Place(i) >= 0 /\ regs'[Place(i)] = <<"arg", i>>
    <3>1. CASE i = n
      BY <3>1, <2>1, <2>2, <2>4, <1>5 DEF ArgInv
    <3>2. CASE i \in 1..Len(place)
      <4>1. i \in 1..Len(func.args) /\ i < n
        BY <3>2, <1>1 DEF ArgInv, n
      <4>2. Place(i) >= 0 /\ regs[Place(i)] = <<"arg", i>>
        BY <3>2, <1>1 DEF ArgInv
      <4>3. Place(i) # to /\ Place(i) \in Reg
        BY <4>1, <4>2, <2>2, <1>1, <1>5, PlaceDistinct, PlaceClobbered
      <4> QED BY <2>1, <2>4, <4>2, <4>3 DEF ArgInv
    <3> QED BY <3>1, <3>2, <1>6 DEF n
  <2>6. DOMAIN regs' = Reg
    BY <2>1 DEF ArgInv
  <2> QED BY <1>1, <1>3, <1>4, <1>6, <2>1, <2>3, <2>5, <2>6 DEF ArgInv, Compiled
<1> QED BY <1>7, <1>8

\* Every step keeps the arguments where they belong.
LEMMA NextArgInv == ArgInv /\ [Next]_vars => ArgInv'
<1> SUFFICES ASSUME ArgInv, [Next]_vars PROVE ArgInv'
  OBVIOUS
<1> DEFINE Same == \A i : Place(i)' = Place(i) /\ Counters(i)' = Counters(i) /\ AllUsed(i)' = AllUsed(i)
<1>0. func' = func /\ abi' = abi => Same
  BY SameFunction
<1> HIDE DEF Same
<1>1. CASE Parse
  <2>1. IsFunction(func') /\ where' = <<>> /\ place' = <<>> /\ pc' = "params" /\ used' = NoneUsed
    BY <1>1, FunctionsAssumption DEF Parse, ArgInv
  <2>2. Counters(0)' = NoneUsed'
    BY NoCounters DEF NoneUsed
  <2> QED BY <1>1, <2>1, <2>2, EmptySeq DEF Parse, IsFunction, ArgInv, NoneUsed, Compiled, machine
<1>2. CASE regalloc_func_arg
  BY <1>2, ParameterTaken
<1>3. CASE regalloc_func_args_end
  BY <1>0, <1>3 DEF Same, regalloc_func_args_end, ArgInv, Compiled, machine
<1>4. CASE allocate_stack_slot
  BY <1>0, <1>4 DEF Same, allocate_stack_slot, ArgInv, Compiled, machine
<1>5. CASE allocate_stack_slots_end
  BY <1>0, <1>5 DEF Same, allocate_stack_slots_end, ArgInv, Compiled, machine
<1>6. CASE BeginFunction
  BY <1>0, <1>6 DEF Same, BeginFunction, ArgInv, Compiled, machine
<1>7. CASE BeginCall
  <2>1. used' = NoneUsed /\ place' = <<>> /\ pc' = "passing" /\ pc = "compiled" /\ Same
    BY <1>0, <1>7 DEF BeginCall, ArgInv
  <2> QED BY <1>7, <2>1, NoCounters, EmptySeq DEF Same, BeginCall, ArgInv, NoneUsed, Compiled, machine
<1>8. CASE PassArgument
  BY <1>8, ArgumentPassed
<1>9. CASE Call
  BY <1>0, <1>9 DEF Same, Call, ArgInv, Compiled
<1>10. CASE StackOverflow
  BY <1>0, <1>10 DEF Same, StackOverflow, ArgInv, Compiled, machine
<1>11. CASE Prologue
  BY <1>0, <1>11 DEF Same, Prologue, ArgInv, Compiled
<1>12. CASE Body
  BY <1>0, <1>12 DEF Same, Body, ArgInv, Compiled
<1>13. CASE Epilogue
  BY <1>0, <1>13 DEF Same, Epilogue, ArgInv, Compiled
<1>14. CASE NextFunction
  BY <1>14, EmptySeq DEF NextFunction, ArgInv, NoFunction, NoneUsed, Registers, Compiled
<1>15. CASE UNCHANGED vars
  BY <1>0, <1>15 DEF Same, vars, machine, ArgInv, Compiled
<1> QED BY <1>1, <1>2, <1>3, <1>4, <1>5, <1>6, <1>7, <1>8, <1>9, <1>10, <1>11, <1>12, <1>13, <1>14, <1>15
        DEF Next

\* Every used parameter up to the first unused one finds its argument in its
\* register: regalloc_func_args and reg_shuffle_call count alike.
THEOREM ArgumentsCorrect == Spec => []ArgumentsArrive
<1>1. ArgInv => ArgumentsArrive
  <2> SUFFICES ASSUME ArgInv, pc = "body", NEW i \in DOMAIN func.args,
                      \A j \in 1..i : func.args[j].used
               PROVE  regs[where[i]] = <<"arg", i>>
    BY DEF ArgumentsArrive
  <2>1. i \in 1..Len(where) /\ i \in 1..Len(place)
    BY DEF ArgInv, Compiled
  <2> QED BY <2>1 DEF ArgInv, AllUsed, Compiled
<1> QED BY <1>1, InitArgInv, NextArgInv, PTL DEF Spec

-----------------------------------------------------------------------------
(* The machine: what the frame holds from the call to the return *)

\* The registers a callee has to keep, and those the allocator gives out.
Kept == Reg \ abi_get_clobber_mask
Allocatable == Reg \ {RSP, RBP, R11, XMM5}
\* before the body runs
BeforeBody == {"idle", "params", "slots", "frame", "compiled", "passing", "prologue"}

\* The eight bytes from a on are the value v.
HoldsAt(m, a, v) == \A k \in 0..7 : m[a + k] = <<v, k>>

\* Where the stack pointers are.
Pointers ==
  /\ pc \in BeforeBody => rbp = Top + 16 /\ rsp = IF pc = "prologue" THEN Top - 8 ELSE Top
  /\ pc \in {"body", "epilogue"} => rbp = Top - 16 /\ rsp = Top - 16 - height /\ rsp >= 0

\* The frame has room for the registers the function has to save.
Room ==
  pc \in {"compiled", "passing", "prologue", "body", "epilogue"} =>
    saved = func.outputs \cap Kept /\ height >= 8 * Cardinality(saved)

\* What the function and its caller put on the stack is still there.
StackHeld ==
  /\ DOMAIN mem = 0..(Top + 15)
  /\ pc # "crash" => \A a \in Top..(Top + 15) : mem[a] = <<<<"caller", a>>, 0>>
  /\ pc \in {"prologue", "body", "epilogue"} => HoldsAt(mem, Top - 8, <<"return", 0>>)
  /\ pc \in {"body", "epilogue"} =>
       /\ HoldsAt(mem, Top - 16, <<"address", Top + 16>>)
       /\ \A r \in saved : HoldsAt(mem, rsp + SaveOffset(r), <<"caller", r>>)

\* The registers a callee has to keep are as the caller left them, or saved.
RegistersHeld ==
  /\ pc \in BeforeBody \cup {"body"} => \A r \in Kept : regs[r] = <<"caller", r>>
  /\ pc = "epilogue" => \A r \in Kept \ (func.outputs \cup func.params) : regs[r] = <<"caller", r>>

\* What holds of the machine between the call and the return.
MachineInv ==
  /\ func.outputs \subseteq Allocatable
  /\ Pointers /\ Room /\ StackHeld /\ RegistersHeld
  /\ CallerPreserved

\* Distances from RBP are multiples of the alignment.
AlignInv == \A s \in 1..Len(slot_at) : slot_at[s] % size_guess_align(func.slots[s]) = 0

\* Every saved register has eight bytes of its own in the save area.
LEMMA SaveOffsets ==
  ASSUME saved \subseteq Reg, NEW r \in saved
  PROVE  /\ SaveOffset(r) \in Nat /\ SaveOffset(r) % 8 = 0
         /\ SaveOffset(r) + 8 <= 8 * Cardinality(saved)
         /\ \A q \in saved : q < r => SaveOffset(q) + 8 <= SaveOffset(r)
<1> DEFINE Below(x) == {q \in saved : q < x}
<1>1. IsFiniteSet(saved)
  <2>1. IsFiniteSet(Reg)
    <3>1. 0 \in Int /\ 31 \in Int
      OBVIOUS
    <3> QED BY <3>1, FS_Interval, Zenon DEF Reg
  <2> QED BY <2>1, FS_Subset
<1>2. \A x : IsFiniteSet(Below(x)) /\ Cardinality(Below(x)) \in Nat
  <2> SUFFICES ASSUME NEW x PROVE IsFiniteSet(Below(x)) /\ Cardinality(Below(x)) \in Nat
    OBVIOUS
  <2>1. Below(x) \in SUBSET saved
    OBVIOUS
  <2> HIDE DEF Below
  <2> QED BY <1>1, <2>1, FS_Subset, FS_CardinalityType
<1>3. \A x \in saved : x \notin Below(x)
  BY DEF Reg
<1>4. \A x : SaveOffset(x) = 8 * Cardinality(Below(x))
  BY DEF SaveOffset
<1>5. Below(r) \cup {r} \in SUBSET saved
  OBVIOUS
<1>6. \A q \in saved : q < r => Below(q) \cup {q} \in SUBSET Below(r)
  <2>1. \A x \in saved : x \in Int
    BY DEF Reg
  <2> SUFFICES ASSUME NEW q \in saved, q < r, NEW x \in saved, x < q \/ x = q PROVE x < r
    OBVIOUS
  <2> QED BY <2>1
<1>7. Cardinality(saved) \in Nat
  BY <1>1, FS_CardinalityType
<1> HIDE DEF Below
<1>8. \A x \in saved : Cardinality(Below(x) \cup {x}) = Cardinality(Below(x)) + 1
  BY <1>2, <1>3, FS_AddElement
<1>9. Cardinality(Below(r)) + 1 <= Cardinality(saved)
  <2>1. Cardinality(Below(r) \cup {r}) <= Cardinality(saved)
    BY <1>1, <1>5, FS_Subset
  <2> QED BY <1>8, <2>1
<1>10. ASSUME NEW q \in saved, q < r
       PROVE  Cardinality(Below(q)) + 1 <= Cardinality(Below(r))
  BY <1>2, <1>6, <1>8, <1>10, FS_Subset
<1>11. SaveOffset(r) \in Nat /\ SaveOffset(r) % 8 = 0 /\ SaveOffset(r) + 8 <= 8 * Cardinality(saved)
  BY <1>2, <1>4, <1>7, <1>9
<1>12. ASSUME NEW q \in saved, q < r
       PROVE  SaveOffset(q) + 8 <= SaveOffset(r)
  <2>1. Cardinality(Below(q)) + 1 <= Cardinality(Below(r))
    BY <1>10, <1>12
  <2> QED BY <1>2, <1>4, <2>1
<1> QED BY <1>11, <1>12

\* So a byte of the save area belongs to one register.
LEMMA SaverUnique ==
  ASSUME saved \subseteq Reg, NEW low \in Nat, NEW r \in saved, NEW k \in 0..7,
         NEW q \in saved, low + SaveOffset(r) + k \in SaveArea(low, q)
  PROVE  q = r
<1>1. SaveOffset(r) \in Nat /\ SaveOffset(q) \in Nat
  BY SaveOffsets
<1>2. SaveOffset(q) <= SaveOffset(r) + 7 /\ SaveOffset(r) <= SaveOffset(q) + 7
  BY <1>1 DEF SaveArea
<1>3. q < r => SaveOffset(q) + 8 <= SaveOffset(r)
  BY SaveOffsets
<1>4. r < q => SaveOffset(r) + 8 <= SaveOffset(q)
  BY SaveOffsets
<1>5. q \in Int /\ r \in Int
  BY DEF Reg
<1> QED BY <1>1, <1>2, <1>3, <1>4, <1>5

\* The prologue leaves the registers it saves in their places and touches nothing else.
LEMMA PrologueStores ==
  ASSUME IInv, MachineInv, Prologue
  PROVE  StackHeld'
<1> DEFINE low == Top - 16 - height
           c == Cardinality(saved)
           pushed == Stored(mem, Top - 16, <<"address", Top + 16>>)
           Saver(b) == CHOOSE r \in saved : b \in SaveArea(low, r)
<1>1. /\ pc = "prologue" /\ rsp = Top - 8 /\ rbp = Top + 16 /\ Top \in Nat /\ Top >= 16
      /\ height \in Nat /\ saved \subseteq Reg /\ low >= 0
      /\ saved = func.outputs \cap Kept /\ height >= 8 * c
      /\ DOMAIN mem = 0..(Top + 15)
  BY TopAssumption DEF Prologue, MachineInv, Pointers, Room, StackHeld, IInv, TypeOK, Fits, BeforeBody
<1>2. rsp - 8 = Top - 16 /\ rsp - 8 - height = low
  BY <1>1
<1>3. /\ mem' = [b \in 0..(Top + 15) |->
               IF \E r \in saved : b \in SaveArea(low, r)
               THEN <<regs[Saver(b)], (b - low) % 8>> ELSE pushed[b]]
      /\ rsp' = low /\ saved' = saved /\ pc' = "body"
  BY <1>1, <1>2 DEF Prologue
<1>4. c \in Nat
  BY <1>1, SavedFinite
<1>5. \A r \in saved : SaveOffset(r) \in Nat /\ SaveOffset(r) % 8 = 0 /\ SaveOffset(r) + 8 <= 8 * c
  BY <1>1, SaveOffsets
<1>6. \A r \in saved : SaveOffset(r)' = SaveOffset(r)
  BY <1>3 DEF SaveOffset
<1>7. ASSUME NEW b \in (Top - 16)..(Top + 15)
      PROVE  mem'[b] = IF b \in (Top - 16)..(Top - 9) THEN <<<<"address", Top + 16>>, b - (Top - 16)>> ELSE mem[b]
  <2>1. ~\E r \in saved : b \in SaveArea(low, r)
    <3> SUFFICES ASSUME NEW r \in saved, b \in SaveArea(low, r) PROVE FALSE
      OBVIOUS
    <3> DEFINE o == SaveOffset(r)
    <3>1. o \in Nat /\ o + 8 <= 8 * c /\ b \in (low + o)..(low + o + 7)
      BY <1>5 DEF SaveArea
    <3> HIDE DEF o, c
    <3> QED BY <1>1, <1>4, <3>1
  <2>2. b \in 0..(Top + 15)
    BY <1>1
  <2>3. mem'[b] = pushed[b]
    BY <1>3, <2>1, <2>2
  <2>4. pushed[b] = IF b \in (Top - 16)..(Top - 16 + 7) THEN <<<<"address", Top + 16>>, b - (Top - 16)>> ELSE mem[b]
    BY <1>1, <2>2 DEF Stored
  <2> QED BY <1>1, <2>3, <2>4
<1>8. \A a \in Top..(Top + 15) : mem'[a] = <<<<"caller", a>>, 0>>
  <2> SUFFICES ASSUME NEW a \in Top..(Top + 15) PROVE mem'[a] = <<<<"caller", a>>, 0>>
    OBVIOUS
  <2>1. a \in (Top - 16)..(Top + 15) /\ a \notin (Top - 16)..(Top - 9)
    BY <1>1
  <2>2. mem'[a] = mem[a]
    BY <2>1, <1>7
  <2> QED BY <1>1, <2>2 DEF MachineInv, StackHeld
<1>9. HoldsAt(mem', Top - 8, <<"return", 0>>)
  <2> SUFFICES ASSUME NEW k \in 0..7 PROVE mem'[Top - 8 + k] = <<<<"return", 0>>, k>>
    BY DEF HoldsAt
  <2>1. Top - 8 + k \in (Top - 16)..(Top + 15) /\ Top - 8 + k \notin (Top - 16)..(Top - 9)
    BY <1>1
  <2>2. mem'[Top - 8 + k] = mem[Top - 8 + k]
    BY <2>1, <1>7
  <2> QED BY <1>1, <2>2 DEF MachineInv, StackHeld, HoldsAt
<1>10. HoldsAt(mem', Top - 16, <<"address", Top + 16>>)
  <2> SUFFICES ASSUME NEW k \in 0..7 PROVE mem'[Top - 16 + k] = <<<<"address", Top + 16>>, k>>
    BY DEF HoldsAt
  <2> DEFINE b == Top - 16 + k
  <2>2. b \in (Top - 16)..(Top + 15) /\ b \in (Top - 16)..(Top - 9) /\ b - (Top - 16) = k
    BY <1>1
  <2> HIDE DEF b
  <2>3. mem'[b] = <<<<"address", Top + 16>>, k>>
    BY <2>2, <1>7
  <2> QED BY <2>3 DEF b
<1>11. ASSUME NEW r \in saved PROVE HoldsAt(mem', low + SaveOffset(r), <<"caller", r>>)
  <2> SUFFICES ASSUME NEW k \in 0..7 PROVE mem'[low + SaveOffset(r) + k] = <<<<"caller", r>>, k>>
    BY DEF HoldsAt
  <2> DEFINE b == low + SaveOffset(r) + k
  <2>1. SaveOffset(r) \in Nat /\ SaveOffset(r) % 8 = 0 /\ SaveOffset(r) + 8 <= 8 * c
    BY <1>5
  <2>2. low \in Nat
    BY <1>1
  <2>3. b \in SaveArea(low, r) /\ b \in 0..(Top + 15) /\ (b - low) % 8 = k
    <3> DEFINE o == SaveOffset(r)
    <3> HIDE DEF o, c
    <3>1. o \in Nat /\ o % 8 = 0 /\ o + 8 <= 8 * c /\ b = low + o + k
      BY <2>1 DEF o
    <3>2. b \in (low + o)..(low + o + 7) /\ b \in 0..(Top + 15)
      <4>1. low + height + 16 = Top /\ height \in Nat /\ Top \in Nat /\ o + 8 <= height
        BY <3>1, <1>1, <1>4
      <4> HIDE DEF low, b
      <4> QED BY <4>1, <3>1, <2>2
    <3>3. b - low = o + k
      BY <3>1, <2>2
    <3>4. (o + k) % 8 = k
      BY <3>1
    <3> QED BY <3>2, <3>3, <3>4 DEF SaveArea, o
  <2>4. Saver(b) \in saved /\ b \in SaveArea(low, Saver(b))
    BY <2>3
  <2> HIDE DEF Saver
  <2>5. Saver(b) = r
    BY <1>1, <2>2, <2>4, SaverUnique
  <2>6. regs[r] = <<"caller", r>>
    BY <1>1 DEF MachineInv, RegistersHeld, BeforeBody
  <2>7. mem'[b] = <<regs[Saver(b)], (b - low) % 8>>
    BY <1>3, <2>3
  <2> QED BY <2>3, <2>5, <2>6, <2>7
<1>12. DOMAIN mem' = 0..(Top + 15)
  BY <1>3
<1> HIDE DEF low
<1> QED BY <1>3, <1>6, <1>8, <1>9, <1>10, <1>11, <1>12 DEF StackHeld

\* The slots the body writes to are between the save area and the saved RBP.
LEMMA BodyStores ==
  ASSUME IInv, MachineInv, Body
  PROVE  StackHeld'
<1> DEFINE c == Cardinality(saved)
<1>1. /\ pc = "body" /\ Top \in Nat /\ Top >= 16 /\ rbp = Top - 16 /\ rsp = Top - 16 - height /\ rsp >= 0
      /\ height \in Nat /\ saved \subseteq Reg /\ height >= 8 * c
      /\ DOMAIN mem = 0..(Top + 15) /\ slot_at \in Seq(Nat)
      /\ func.slots \in Seq(Nat) /\ Len(slot_at) <= Len(func.slots)
  BY TopAssumption DEF Body, MachineInv, Pointers, Room, StackHeld, IInv, TypeOK
<1>2. /\ mem' = [a \in 0..(Top + 15) |->
               IF \E s \in DOMAIN slot_at : a \in Cells(s) THEN <<<<"body", a>>, 0>> ELSE mem[a]]
      /\ rsp' = rsp /\ saved' = saved /\ pc' = "epilogue"
  BY <1>1 DEF Body
<1>3. c \in Nat
  BY <1>1, SavedFinite
<1>4. ASSUME NEW a \in 0..(Top + 15), a >= rbp \/ a < rsp + 8 * c
      PROVE  mem'[a] = mem[a]
  <2>1. ~\E s \in DOMAIN slot_at : a \in Cells(s)
    <3> SUFFICES ASSUME NEW s \in DOMAIN slot_at, a \in Cells(s) PROVE FALSE
      OBVIOUS
    <3>1. s \in 1..Len(slot_at)
      BY <1>1
    <3> DEFINE t == slot_at[s]
               z == func.slots[s]
    <3>2. t \in Nat /\ z \in Nat
      BY <1>1, <3>1, SlotsNat
    <3>3. t - z >= 0 /\ height - t >= 8 * c
      BY <1>1, <3>1 DEF IInv, FrameDisjoint
    <3>4. a \in (rbp - t)..(rbp - t + z - 1)
      BY DEF Cells
    <3> HIDE DEF t, z, c
    <3> QED BY <1>1, <1>3, <1>4, <3>2, <3>3, <3>4
  <2> QED BY <1>2, <2>1
<1>5. \A a \in (Top - 16)..(Top + 15) : mem'[a] = mem[a]
  <2> SUFFICES ASSUME NEW a \in (Top - 16)..(Top + 15) PROVE mem'[a] = mem[a]
    OBVIOUS
  <2>1. a \in 0..(Top + 15) /\ a >= rbp
    BY <1>1
  <2> QED BY <2>1, <1>4
<1>6. \A a \in Top..(Top + 15) : mem'[a] = <<<<"caller", a>>, 0>>
  <2> SUFFICES ASSUME NEW a \in Top..(Top + 15) PROVE mem'[a] = <<<<"caller", a>>, 0>>
    OBVIOUS
  <2>1. a \in (Top - 16)..(Top + 15)
    BY <1>1
  <2>2. mem'[a] = mem[a]
    BY <2>1, <1>5
  <2> QED BY <1>1, <2>2 DEF MachineInv, StackHeld
<1>7. HoldsAt(mem', Top - 8, <<"return", 0>>)
  <2> SUFFICES ASSUME NEW k \in 0..7 PROVE mem'[Top - 8 + k] = <<<<"return", 0>>, k>>
    BY DEF HoldsAt
  <2>1. Top - 8 + k \in (Top - 16)..(Top + 15)
    BY <1>1
  <2>2. mem'[Top - 8 + k] = mem[Top - 8 + k]
    BY <2>1, <1>5
  <2> QED BY <1>1, <2>2 DEF MachineInv, StackHeld, HoldsAt
<1>8. HoldsAt(mem', Top - 16, <<"address", Top + 16>>)
  <2> SUFFICES ASSUME NEW k \in 0..7 PROVE mem'[Top - 16 + k] = <<<<"address", Top + 16>>, k>>
    BY DEF HoldsAt
  <2>1. Top - 16 + k \in (Top - 16)..(Top + 15)
    BY <1>1
  <2>2. mem'[Top - 16 + k] = mem[Top - 16 + k]
    BY <2>1, <1>5
  <2> QED BY <1>1, <2>2 DEF MachineInv, StackHeld, HoldsAt
<1>9. ASSUME NEW r \in saved PROVE HoldsAt(mem', rsp + SaveOffset(r), <<"caller", r>>)
  <2> SUFFICES ASSUME NEW k \in 0..7 PROVE mem'[rsp + SaveOffset(r) + k] = <<<<"caller", r>>, k>>
    BY DEF HoldsAt
  <2> DEFINE o == SaveOffset(r)
             b == rsp + o + k
  <2>1. o \in Nat /\ o + 8 <= 8 * c
    BY <1>1, SaveOffsets
  <2>2. b \in 0..(Top + 15) /\ b < rsp + 8 * c
    <3> HIDE DEF o, c
    <3> QED BY <1>1, <1>3, <2>1
  <2>3. mem[b] = <<<<"caller", r>>, k>>
    BY <1>1 DEF MachineInv, StackHeld, HoldsAt
  <2> HIDE DEF b
  <2>4. mem'[b] = mem[b]
    BY <1>4, <2>2
  <2> QED BY <2>3, <2>4 DEF b
<1>10. \A r \in saved : SaveOffset(r)' = SaveOffset(r)
  BY <1>2 DEF SaveOffset
<1>11. DOMAIN mem' = 0..(Top + 15)
  BY <1>2
<1> QED BY <1>2, <1>6, <1>7, <1>8, <1>9, <1>10, <1>11 DEF StackHeld

\* A load finds the value all eight bytes are of.
LEMMA LoadIs ==
  ASSUME NEW m, NEW a \in Int, NEW v, HoldsAt(m, a, v)
  PROVE  Load(m, a) = v
<1>1. m[a + 0] = <<v, 0>> /\ a + 0 = a
  BY DEF HoldsAt
<1>2. m[a][1] = v
  BY <1>1
<1>3. \A k \in 0..7 : m[a + k] = <<m[a][1], k>>
  BY <1>2 DEF HoldsAt
<1> QED BY <1>2, <1>3 DEF Load

\* The function returns with everything restored.
LEMMA Returns ==
  ASSUME IInv, MachineInv, Epilogue
  PROVE  MachineInv'
<1>1. /\ pc = "epilogue" /\ Top \in Nat /\ Top >= 16 /\ rbp = Top - 16 /\ rsp = Top - 16 - height /\ rsp >= 0
      /\ height \in Nat /\ saved \subseteq Reg /\ saved = func.outputs \cap Kept
      /\ func' = func /\ mem' = mem /\ abi' = abi /\ Kept' = Kept
  BY TopAssumption DEF Epilogue, MachineInv, Pointers, Room, StackHeld, IInv, TypeOK, Kept, abi_get_clobber_mask
<1>2. Load(mem, rbp) = <<"address", Top + 16>>
  BY <1>1, LoadIs DEF MachineInv, StackHeld
<1>3. Load(mem, rbp + 8) = <<"return", 0>>
  <2>1. rbp + 8 = Top - 8 /\ Top - 8 \in Int
    BY <1>1
  <2>2. HoldsAt(mem, Top - 8, <<"return", 0>>)
    BY <1>1 DEF MachineInv, StackHeld
  <2> QED BY <2>1, <2>2, LoadIs
<1>4. rbp' = Top + 16 /\ rsp' = Top /\ pc' = "returned"
  BY <1>1, <1>2, <1>3 DEF Epilogue
<1>5. ASSUME NEW r \in Kept, ~(r \in func.params \ func.outputs)
      PROVE  regs'[r] = <<"caller", r>>
  <2>0. r \in Reg
    BY DEF Kept
  <2>1. CASE r \in saved
    <3>1. HoldsAt(mem, rsp + SaveOffset(r), <<"caller", r>>)
      BY <1>1, <2>1 DEF MachineInv, StackHeld
    <3>2. rsp + SaveOffset(r) \in Int
      <4>1. SaveOffset(r) \in Nat
        BY <1>1, <2>1, SaveOffsets
      <4> QED BY <1>1, <4>1
    <3>3. Load(mem, rsp + SaveOffset(r)) = <<"caller", r>>
      BY <3>1, <3>2, LoadIs
    <3> QED BY <2>0, <2>1, <3>3 DEF Epilogue
  <2>2. CASE r \notin saved
    <3>1. r \in Kept \ (func.outputs \cup func.params)
      BY <1>1, <1>5, <2>2
    <3>2. regs[r] = <<"caller", r>>
      BY <1>1, <3>1 DEF MachineInv, RegistersHeld
    <3> QED BY <2>0, <2>2, <3>2 DEF Epilogue
  <2> QED BY <2>1, <2>2
<1>6. CallerPreserved'
  BY <1>1, <1>4, <1>5 DEF CallerPreserved, Kept, MachineInv, StackHeld
<1> QED BY <1>1, <1>4, <1>6 DEF MachineInv, Pointers, Room, StackHeld, RegistersHeld, BeforeBody

\* The machine starts with the values of the caller.
LEMMA InitMachineInv == Init => MachineInv
<1> SUFFICES ASSUME Init PROVE MachineInv
  OBVIOUS
<1>1. \A a \in Top..(Top + 15) : Memory[a] = <<<<"caller", a>>, 0>>
  BY TopAssumption DEF Memory
<1>2. DOMAIN Memory = 0..(Top + 15)
  BY DEF Memory
<1> QED BY <1>1, <1>2 DEF Init, MachineInv, NoFunction, Pointers, Room, StackHeld, RegistersHeld, Kept, Registers,
         BeforeBody, CallerPreserved

\* Every step of a call keeps what has to be given back.
LEMMA NextMachineInv == IInv /\ ArgInv /\ MachineInv /\ [Next]_vars => MachineInv'
<1> SUFFICES ASSUME IInv, ArgInv, MachineInv, [Next]_vars PROVE MachineInv'
  OBVIOUS
<1> USE DEF BeforeBody
<1>0. abi' = abi => Kept' = Kept
  BY DEF Kept, abi_get_clobber_mask
<1>1. CASE Parse
  <2>1. IsFunction(func')
    BY <1>1, FunctionsAssumption DEF Parse
  <2>2. func'.outputs \subseteq Allocatable
    BY <2>1 DEF IsFunction, Allocatable
  <2> QED BY <1>0, <1>1, <2>2
          DEF Parse, machine, MachineInv, Pointers, Room, StackHeld, RegistersHeld, CallerPreserved
<1>2. CASE regalloc_func_arg \/ regalloc_func_args_end \/ allocate_stack_slot \/ allocate_stack_slots_end
  BY <1>0, <1>2 DEF regalloc_func_arg, regalloc_func_args_end, allocate_stack_slot, allocate_stack_slots_end,
     machine, MachineInv, Pointers, Room, StackHeld, RegistersHeld, CallerPreserved
<1>3. CASE BeginFunction
  <2> DEFINE keep == func.outputs \ (abi_get_clobber_mask \cup {RSP, RBP})
  <2>1. keep = func.outputs \cap Kept /\ keep \subseteq Reg
    BY DEF MachineInv, Allocatable, Kept
  <2>2. Cardinality(keep) \in Nat /\ height \in Nat
    BY <2>1, SavedFinite DEF IInv, TypeOK
  <2>3. height' = ClearBit4(height + 8 * Cardinality(keep)) /\ saved' = keep
    BY <1>3 DEF BeginFunction
  <2> HIDE DEF keep
  <2>4. height + 8 * Cardinality(keep) \in Nat
    BY <2>2
  <2>5. height' \in Nat /\ height' >= height + 8 * Cardinality(keep)
    BY <2>3, <2>4, ClearBit4Up
  <2>6. height' >= 8 * Cardinality(saved')
    BY <2>2, <2>3, <2>5
  <2> QED BY <1>0, <1>3, <2>1, <2>3, <2>6
          DEF BeginFunction, machine, MachineInv, Pointers, Room, StackHeld, RegistersHeld, CallerPreserved
<1>4. CASE BeginCall
  BY <1>0, <1>4
     DEF BeginCall, machine, MachineInv, Pointers, Room, StackHeld, RegistersHeld, CallerPreserved
<1>5. CASE PassArgument
  <2> DEFINE n == Len(place) + 1
             to == abi_get_next_arg_basic(used, func.args[n].float)
  <2>1. /\ pc = "passing" /\ n \in 1..Len(func.args) /\ n - 1 = Len(place)
        /\ func' = func /\ abi' = abi /\ mem' = mem /\ rsp' = rsp /\ rbp' = rbp /\ saved' = saved
        /\ height' = height /\ to = Place(n)
    BY <1>5 DEF PassArgument, ArgInv, Place
  <2>2. CASE to < 0
    BY <1>0, <1>5, <2>1, <2>2
       DEF PassArgument, MachineInv, Pointers, Room, StackHeld, RegistersHeld, CallerPreserved
  <2>3. CASE ~(to < 0)
    <3>1. pc' = pc /\ regs' = [regs EXCEPT ![to] = <<"arg", n>>]
      BY <1>5, <2>3 DEF PassArgument
    <3>2. to \notin Kept
      <4>1. Place(n) \in Int
        BY <2>1, PlaceIs
      <4>2. Place(n) >= 0
        BY <2>1, <2>3, <4>1
      <4> QED BY <2>1, <4>2, PlaceClobbered DEF Kept
    <3> HIDE DEF to, n
    <3>3. \A r \in Kept : regs'[r] = regs[r]
      BY <3>1, <3>2 DEF ArgInv, Kept
    <3> QED BY <1>0, <2>1, <3>1, <3>3
            DEF MachineInv, Pointers, Room, StackHeld, RegistersHeld, CallerPreserved
  <2> QED BY <2>2, <2>3
<1>6. CASE Call
  <2>1. /\ pc = "passing" /\ pc' = "prologue" /\ rsp = Top /\ rsp' = Top - 8 /\ Top \in Nat /\ Top >= 16
        /\ mem' = Stored(mem, Top - 8, <<"return", 0>>) /\ DOMAIN mem = 0..(Top + 15)
    BY <1>6, TopAssumption DEF Call, MachineInv, Pointers, StackHeld
  <2>2. DOMAIN mem' = 0..(Top + 15)
    BY <2>1 DEF Stored
  <2>3. \A a \in Top..(Top + 15) : mem'[a] = mem[a]
    BY <2>1 DEF Stored
  <2>4. HoldsAt(mem', Top - 8, <<"return", 0>>)
    <3> SUFFICES ASSUME NEW k \in 0..7 PROVE mem'[Top - 8 + k] = <<<<"return", 0>>, k>>
      BY DEF HoldsAt
    <3>1. Top - 8 + k \in 0..(Top + 15) /\ Top - 8 + k \in (Top - 8)..(Top - 8 + 7) /\ Top - 8 + k - (Top - 8) = k
      BY <2>1
    <3> QED BY <2>1, <3>1 DEF Stored
  <2>5. StackHeld'
    BY <2>1, <2>2, <2>3, <2>4 DEF StackHeld, MachineInv
  <2> QED BY <1>0, <1>6, <2>1, <2>5 DEF Call, MachineInv, Pointers, Room, RegistersHeld, CallerPreserved
<1>7. CASE StackOverflow
  BY <1>0, <1>7
     DEF StackOverflow, machine, MachineInv, Pointers, Room, StackHeld, RegistersHeld, CallerPreserved
<1>8. CASE Prologue
  <2>1. StackHeld'
    BY <1>8, PrologueStores
  <2>2. Pointers'
    <3>1. rsp = Top - 8 /\ Top \in Nat /\ height \in Nat
      BY <1>8, TopAssumption DEF Prologue, MachineInv, Pointers, IInv, TypeOK
    <3>2. rbp' = rsp - 8 /\ rsp' = rsp - 8 - height /\ rsp - 8 - height >= 0 /\ height' = height /\ pc' = "body"
      BY <1>8 DEF Prologue, Fits
    <3> QED BY <3>1, <3>2 DEF Pointers
  <2> QED BY <1>0, <1>8, <2>1, <2>2 DEF Prologue, MachineInv, Room, RegistersHeld, CallerPreserved
<1>9. CASE Body
  <2>1. StackHeld'
    BY <1>9, BodyStores
  <2>2. \A r \in Kept \ (func.outputs \cup func.params) : regs'[r] = <<"caller", r>>
    <3>1. R11 \notin Kept /\ XMM5 \notin Kept
      BY DEF Kept, abi_get_clobber_mask, R11, XMM5
    <3>2. pc = "body" /\ regs' = [r \in Reg |-> IF r \in func.outputs \cup func.params \cup {R11, XMM5}
                                              THEN <<"body", r>> ELSE regs[r]]
      BY <1>9 DEF Body
    <3> QED BY <3>1, <3>2 DEF Kept, MachineInv, RegistersHeld
  <2> QED BY <1>0, <1>9, <2>1, <2>2 DEF Body, MachineInv, Pointers, Room, RegistersHeld, CallerPreserved
<1>10. CASE Epilogue
  BY <1>10, Returns
<1>11. CASE NextFunction
  <2>1. \A a \in Top..(Top + 15) : Memory[a] = <<<<"caller", a>>, 0>>
    BY TopAssumption DEF Memory
  <2>2. DOMAIN Memory = 0..(Top + 15)
    BY DEF Memory
  <2>3. pc' = "idle" /\ func' = NoFunction /\ mem' = Memory /\ regs' = Registers /\ rsp' = Top /\ rbp' = Top + 16
        /\ Kept' = Kept
    BY <1>0, <1>11 DEF NextFunction
  <2>4. \A r \in Kept : regs'[r] = <<"caller", r>>
    BY <2>3 DEF Kept, Registers
  <2> QED BY <2>1, <2>2, <2>3, <2>4
      DEF MachineInv, NoFunction, Pointers, Room, StackHeld, RegistersHeld, CallerPreserved
<1>12. CASE UNCHANGED vars
  <2>1. \A r \in saved : SaveOffset(r)' = SaveOffset(r)
    BY <1>12 DEF SaveOffset, vars
  <2>2. StackHeld'
    BY <1>12, <2>1 DEF vars, machine, StackHeld, MachineInv
  <2>3. CallerPreserved'
    BY <1>12 DEF vars, machine, MachineInv, CallerPreserved, abi_get_clobber_mask
  <2> QED BY <1>0, <1>12, <2>2, <2>3 DEF vars, machine, MachineInv, Pointers, Room, RegistersHeld
<1> QED BY <1>1, <1>2, <1>3, <1>4, <1>5, <1>6, <1>7, <1>8, <1>9, <1>10, <1>11, <1>12 DEF Next

\* The distance a slot is aligned to is a multiple of its alignment.
LEMMA AlignedMultiple ==
  ASSUME NEW n \in Nat, NEW s \in Nat
  PROVE  Aligned(n, size_guess_align(s)) % size_guess_align(s) = 0
<1> DEFINE a == size_guess_align(s)
<1>1. a = 1 \/ a = 2 \/ a = 4 \/ a = 8 \/ a = 16 \/ a = 32 \/ a = 64
  BY DEF size_guess_align
<1> SUFFICES Aligned(n, a) % a = 0
  OBVIOUS
<1> HIDE DEF a
<1>2. CASE a = 1
  BY <1>2 DEF Aligned
<1>3. CASE a = 2
  BY <1>3 DEF Aligned
<1>4. CASE a = 4
  BY <1>4 DEF Aligned
<1>5. CASE a = 8
  BY <1>5 DEF Aligned
<1>6. CASE a = 16
  BY <1>6 DEF Aligned
<1>7. CASE a = 32
  BY <1>7 DEF Aligned
<1>8. CASE a = 64
  BY <1>8 DEF Aligned
<1> QED BY <1>1, <1>2, <1>3, <1>4, <1>5, <1>6, <1>7, <1>8

\* Every slot is laid out at a multiple of its alignment.
LEMMA NextAlignInv == IInv /\ AlignInv /\ [Next]_vars => AlignInv'
<1> SUFFICES ASSUME IInv, AlignInv, [Next]_vars PROVE AlignInv'
  OBVIOUS
<1>1. CASE allocate_stack_slot
  <2> DEFINE size == func.slots[Len(slot_at) + 1]
             new == Aligned(offset + size, size_guess_align(size))
  <2>1. /\ Len(slot_at) + 1 \in 1..Len(func.slots) /\ func.slots \in Seq(Nat)
        /\ slot_at' = Append(slot_at, new) /\ func' = func /\ slot_at \in Seq(Nat)
    BY <1>1 DEF allocate_stack_slot, IInv, TypeOK
  <2>2. size \in Nat
    BY <2>1, ElementOfSeq
  <2>3. offset \in Nat
    <3>1. CASE slot_at = <<>>
      BY <3>1 DEF offset
    <3>2. CASE slot_at # <<>>
      <4>1. Len(slot_at) \in 1..Len(slot_at)
        BY <2>1, <3>2, EmptySeq
      <4> QED BY <2>1, <3>2, <4>1, ElementOfSeq DEF offset
    <3> QED BY <3>1, <3>2
  <2>4. new % size_guess_align(size) = 0
    <3>1. offset + size \in Nat
      BY <2>2, <2>3
    <3> QED BY <2>2, <3>1, AlignedMultiple
  <2> HIDE DEF new
  <2>5. \A s \in 1..Len(slot_at') :
          (s = Len(slot_at) + 1 /\ slot_at'[s] = new) \/ (s \in 1..Len(slot_at) /\ slot_at'[s] = slot_at[s])
    <3>1. new \in Nat
      <4> HIDE DEF size
      <4>1. offset + size \in Nat /\ size_guess_align(size) \in Nat \ {0}
        BY <2>2, <2>3, AlignPositive
      <4> QED BY <4>1, AlignedUp DEF new
    <3> QED BY <2>1, <3>1
  <2> QED BY <2>1, <2>4, <2>5 DEF AlignInv
<1>2. CASE Parse
  BY <1>2, EmptySeq DEF Parse, AlignInv, IInv
<1>3. CASE NextFunction
  BY <1>3, EmptySeq DEF NextFunction, AlignInv
<1>4. CASE slot_at' = slot_at /\ func' = func
  BY <1>4 DEF AlignInv
<1> QED BY <1>1, <1>2, <1>3, <1>4 DEF Next, vars, regalloc_func_arg, regalloc_func_args_end,
      allocate_stack_slots_end, BeginFunction, BeginCall, PassArgument, Call, StackOverflow, Prologue, Body, Epilogue

\* With RBP a multiple of 16 the slots are aligned in memory.
LEMMA InvAligned == IInv /\ MachineInv /\ AlignInv => SlotsAligned
<1> SUFFICES ASSUME IInv, MachineInv, AlignInv, pc \in {"body", "epilogue"}, NEW s \in DOMAIN slot_at
             PROVE  LET a == size_guess_align(func.slots[s])
                    IN (rbp - slot_at[s]) % (IF a <= 16 THEN a ELSE 16) = 0
  BY DEF SlotsAligned
<1> DEFINE a == size_guess_align(func.slots[s])
           t == slot_at[s]
<1>1. s \in 1..Len(slot_at) /\ slot_at \in Seq(Nat) /\ func.slots \in Seq(Nat) /\ Len(slot_at) <= Len(func.slots)
  BY DEF IInv, TypeOK
<1>2. t \in Nat /\ func.slots[s] \in Nat
  BY <1>1, SlotsNat
<1>3. a = 1 \/ a = 2 \/ a = 4 \/ a = 8 \/ a = 16 \/ a = 32 \/ a = 64
  BY <1>2 DEF size_guess_align
<1>4. t % a = 0
  BY <1>1 DEF AlignInv
<1>5. rbp = Top - 16 /\ Top \in Nat /\ Top % 16 = 0
  BY TopAssumption DEF MachineInv, Pointers
<1> HIDE DEF a, t
<1>6. (rbp - t) % (IF a <= 16 THEN a ELSE 16) = 0
  BY <1>2, <1>3, <1>4, <1>5
<1> QED BY <1>6 DEF a, t

\* A compiled function that returns gives its caller back what the ABI says, and
\* its slots are aligned, for any function, any frame and any stack.
THEOREM AbiCorrect == Spec => []AbiKept
<1> DEFINE Inv == IInv /\ ArgInv /\ MachineInv /\ AlignInv
<1>1. Init => Inv
  <2>1. Init => AlignInv
    BY EmptySeq DEF Init, AlignInv
  <2> QED BY <2>1, InitIInv, InitArgInv, InitMachineInv
<1>2. Inv /\ [Next]_vars => Inv'
  BY NextIInv, NextArgInv, NextMachineInv, NextAlignInv
<1>3. Inv => AbiKept
  BY InvAligned DEF AbiKept, IInv, MachineInv
<1> QED BY <1>1, <1>2, <1>3, PTL DEF Spec
=============================================================================
