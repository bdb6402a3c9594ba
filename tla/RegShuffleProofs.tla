-------------------------- MODULE RegShuffleProofs --------------------------
(***************************************************************************)
(* The register shuffle is a parallel move, for any number of registers    *)
(* and any argument list whose moved values are distinct.                  *)
(***************************************************************************)
EXTENDS RegShuffle, SequenceTheorems, TLAPS

Idx == 1..Len(args)
Proper(i) == args[i].src # args[i].dst

\* A pending entry of in2out is one of the requested moves.
Requested ==
  \A p \in Reg : in2out[p] # None =>
    \E i \in Idx : Proper(i) /\ args[i].src = p /\ args[i].dst = in2out[p]

\* While collecting nothing has been emitted.
Collecting ==
  pc = "collect" =>
    /\ regs = [r \in Reg |-> r]
    /\ color = [r \in Reg |-> 0]
    /\ stack = <<>>
    /\ SourcesDistinct(args) =>
         \A i \in 1..n : Proper(i) => in2out[args[i].src] = args[i].dst

\* Each requested move is pending or has happened.
Progress ==
  SourcesDistinct(args) /\ pc # "collect" =>
    \A i \in Idx : Proper(i) =>
      \/ in2out[args[i].src] = args[i].dst
      \/ in2out[args[i].src] = None /\ regs[args[i].dst] = args[i].src

\* Registers no move writes keep their value.
Untouched ==
  \A r \in Reg :
    (/\ r \notin {ScratchInt, ScratchFloat}
     /\ \A i \in Idx : Proper(i) => args[i].dst # r) => regs[r] = r

\* The active calls follow the moves; only they are coloured and pending.
Calls ==
  /\ \A i \in 1..Len(stack) :
       /\ in2out[stack[i]] = IF i = Len(stack) THEN cur ELSE stack[i + 1]
       /\ color[stack[i]] # 0
  /\ \A i, j \in 1..Len(stack) : stack[i] = stack[j] => i = j
  /\ \A p \in Reg : in2out[p] # None /\ color[p] # 0 => \E i \in 1..Len(stack) : stack[i] = p
  /\ pc = "enter" =>
       /\ cur # None /\ in2out[cur] # None /\ color[cur] = 0
       /\ \A p \in Reg : in2out[p] # None => color[p] # 2
  /\ pc = "return" => cur # None /\ in2out[cur] = None
  /\ pc \in {"scan", "done"} => stack = <<>>
  /\ pc \in {"enter", "return"} =>
       /\ n < NReg
       /\ IF stack = <<>> THEN cur = n ELSE stack[1] = n

\* The registers the scan has passed are settled.
Scanned ==
  /\ pc # "collect" => \A r \in Reg : r < n => in2out[r] = None
  /\ pc = "done" => n = NReg

IInv ==
  /\ TypeOK
  /\ ArgsOK(args)
  /\ Requested
  /\ Collecting
  /\ Progress
  /\ Untouched
  /\ PendingIntact
  /\ Calls
  /\ Scanned

-----------------------------------------------------------------------------
\* A pending move leads from one unreserved register to another of its bank.
LEMMA PendingMove ==
  ASSUME TypeOK, ArgsOK(args), Requested, NEW p \in Reg, in2out[p] # None
  PROVE  /\ in2out[p] \in Reg
         /\ in2out[p] # p
         /\ p \notin {ScratchInt, ScratchFloat}
         /\ in2out[p] \notin {ScratchInt, ScratchFloat}
         /\ Scratch(in2out[p]) = Scratch(p)
         /\ Scratch(p) \in {ScratchInt, ScratchFloat}
<1>1. PICK i \in Idx : Proper(i) /\ args[i].src = p /\ args[i].dst = in2out[p]
  BY DEF Requested
<1>2. /\ {args[i].src, args[i].dst} \cap {ScratchInt, ScratchFloat} = {}
      /\ Scratch(args[i].src) = Scratch(args[i].dst)
  BY <1>1 DEF ArgsOK, Idx
<1>3. Scratch(p) \in {ScratchInt, ScratchFloat}
  BY DEF Scratch
<1> QED BY <1>1, <1>2, <1>3 DEF TypeOK, Proper

\* The registers of a requested move.
LEMMA ArgRegs ==
  ASSUME args \in Seq(Move), NEW i \in Idx
  PROVE  args[i] \in Move /\ args[i].src \in Reg /\ args[i].dst \in Reg
<1>1. args[i] \in Move
  BY ElementOfSeq DEF Idx
<1> QED BY <1>1 DEF Move

\* No two pending moves have the same target.
LEMMA PendingInjective ==
  ASSUME ArgsOK(args), Requested, NEW p \in Reg, NEW q \in Reg,
         in2out[p] # None, in2out[q] # None, in2out[p] = in2out[q]
  PROVE  p = q
BY DEF ArgsOK, Requested, Idx

\* A pending move and a move that was requested for the same target are one.
LEMMA PendingTarget ==
  ASSUME ArgsOK(args), Requested, NEW p \in Reg, in2out[p] # None,
         NEW i \in Idx, args[i].dst = in2out[p]
  PROVE  args[i].src = p /\ Proper(i)
BY DEF ArgsOK, Requested, Idx

\* Before the first move is collected nothing is pending.
LEMMA InitIInv == Init => IInv
<1> SUFFICES ASSUME Init PROVE IInv
  OBVIOUS
<1>1. ArgsOK(args)
  BY ArgAssumption DEF Init
<1>2. args \in Seq(Move) /\ Len(args) \in Nat
  BY <1>1 DEF ArgsOK
<1>3. TypeOK
  BY <1>2, RegAssumption DEF Init, TypeOK, Reg, None
<1>4. Requested /\ Progress /\ Untouched /\ PendingIntact
  BY DEF Init, Requested, Progress, Untouched, PendingIntact
<1>5. Collecting /\ Scanned
  BY DEF Init, Collecting, Scanned
<1>6. Calls
  BY DEF Init, Calls
<1> QED BY <1>1, <1>3, <1>4, <1>5, <1>6 DEF IInv

\* A requested move becomes pending.
LEMMA CollectIInv == IInv /\ Collect => IInv'
<1> SUFFICES ASSUME IInv, Collect PROVE IInv'
  OBVIOUS
<1> DEFINE m == args[n + 1]
<1>1. /\ n + 1 \in Idx /\ n \in Nat /\ pc = "collect" /\ pc' = "collect"
      /\ m \in Move
      /\ m.src \in Reg /\ m.dst \in Reg
  <2>1. n \in Nat /\ args \in Seq(Move) /\ Len(args) \in Nat
    BY DEF IInv, TypeOK
  <2>2. n + 1 \in Idx
    BY <2>1 DEF Collect, Idx
  <2> QED BY <2>1, <2>2, ArgRegs DEF Collect
<1>2. TypeOK' /\ ArgsOK(args)'
  BY <1>1 DEF IInv, TypeOK, Collect, Idx
<1>3. Requested'
  BY <1>1 DEF IInv, TypeOK, Collect, Requested, Idx, Proper
<1>4. Collecting'
  <2> SUFFICES ASSUME SourcesDistinct(args), NEW i \in 1..(n + 1), Proper(i)
               PROVE  in2out'[args[i].src] = args[i].dst
    BY DEF IInv, Collecting, Collect, SourcesDistinct, Proper
  <2>1. i \in Idx /\ args[i].src \in Reg /\ args[i] \in Move
    <3>1. i \in Idx
      BY <1>1 DEF Idx
    <3> QED BY <3>1, ArgRegs DEF IInv, TypeOK
  <2>2. CASE i = n + 1
    BY <1>1, <2>1, <2>2 DEF IInv, TypeOK, Collect, Proper
  <2>3. CASE i \in 1..n
    <3>1. in2out[args[i].src] = args[i].dst
      BY <1>1, <2>3 DEF IInv, Collecting
    <3>2. m.src # m.dst => m.src # args[i].src
      BY <1>1, <2>1, <2>3 DEF SourcesDistinct, Proper, Idx
    <3> QED BY <3>1, <3>2, <2>1 DEF Collect, IInv, TypeOK
  <2> QED BY <1>1, <2>2, <2>3
<1>5. Progress' /\ Scanned'
  BY <1>1 DEF Progress, Scanned
<1>6. Untouched'
  BY DEF IInv, Untouched, Collect, Idx, Proper
<1>7. PendingIntact'
  BY <1>1 DEF IInv, Collecting, PendingIntact, Collect
<1>8. Calls'
  BY <1>1 DEF IInv, Collecting, Calls, Collect
<1> QED BY <1>2, <1>3, <1>4, <1>5, <1>6, <1>7, <1>8 DEF IInv

\* All requested moves have been collected.
LEMMA CollectEndIInv == IInv /\ CollectEnd => IInv'
<1> SUFFICES ASSUME IInv, CollectEnd PROVE IInv'
  OBVIOUS
<1>1. TypeOK' /\ ArgsOK(args)'
  BY RegAssumption DEF IInv, TypeOK, CollectEnd
<1>2. Requested' /\ Collecting' /\ Untouched' /\ PendingIntact'
  BY DEF IInv, CollectEnd, Requested, Collecting, Untouched, PendingIntact, Idx, Proper
<1>3. Progress'
  BY DEF IInv, CollectEnd, Progress, Collecting, Idx, Proper, SourcesDistinct
<1>4. Calls'
  BY DEF IInv, Collecting, Calls, CollectEnd
<1>5. Scanned'
  BY RegAssumption DEF IInv, CollectEnd, Scanned, Reg
<1> QED BY <1>1, <1>2, <1>3, <1>4, <1>5 DEF IInv

\* The scan looks at the next register.
LEMMA ScanIInv == IInv /\ Scan => IInv'
<1> SUFFICES ASSUME IInv, Scan PROVE IInv'
  OBVIOUS
<1>1. /\ pc = "scan" /\ pc' \in {"scan", "enter"} /\ stack = <<>> /\ stack' = <<>>
      /\ n \in Reg /\ n \in Nat /\ n + 1 <= NReg /\ NReg \in Nat
      /\ Len(stack) = 0 /\ Len(stack') = 0
  BY RegAssumption DEF IInv, TypeOK, Calls, Scan, Reg
<1>2. TypeOK' /\ ArgsOK(args)'
  BY <1>1 DEF IInv, TypeOK, Scan
<1>3. Requested' /\ Collecting' /\ Untouched' /\ PendingIntact'
  BY <1>1 DEF IInv, Scan, Requested, Collecting, Untouched, PendingIntact, Idx, Proper
<1>4. Progress'
  BY <1>1 DEF IInv, Scan, Progress, Idx, Proper, SourcesDistinct
<1>5. Calls'
  <2>1. \A p \in Reg : in2out[p] # None => color[p] = 0
    BY <1>1 DEF IInv, Calls
  <2>2. CASE in2out[n] = None
    BY <1>1, <2>1, <2>2 DEF Scan, Calls
  <2>3. CASE in2out[n] # None
    BY <1>1, <2>1, <2>3 DEF Scan, Calls, None
  <2> QED BY <2>2, <2>3
<1>6. Scanned'
  BY <1>1 DEF IInv, Scan, Scanned, Reg
<1> QED BY <1>2, <1>3, <1>4, <1>5, <1>6 DEF IInv

\* The scan is over.
LEMMA ScanEndIInv == IInv /\ ScanEnd => IInv'
<1> SUFFICES ASSUME IInv, ScanEnd PROVE IInv'
  OBVIOUS
<1>1. TypeOK' /\ ArgsOK(args)' /\ Calls'
  BY DEF IInv, TypeOK, ScanEnd, Calls
<1>2. Requested' /\ Collecting' /\ Untouched' /\ PendingIntact'
  BY DEF IInv, ScanEnd, Requested, Collecting, Untouched, PendingIntact, Idx, Proper
<1>3. Progress' /\ Scanned'
  BY DEF IInv, ScanEnd, Progress, Scanned, Idx, Proper, SourcesDistinct
<1> QED BY <1>1, <1>2, <1>3 DEF IInv

\* What a call of reg_shuffle_single may rely on when it starts.
LEMMA EnterFacts ==
  ASSUME IInv, pc = "enter"
  PROVE  /\ cur \in Reg /\ in2out[cur] \in Reg /\ in2out[cur] # None /\ in2out[cur] # cur
         /\ {cur, in2out[cur]} \cap {ScratchInt, ScratchFloat} = {}
         /\ Scratch(in2out[cur]) = Scratch(cur)
         /\ Scratch(cur) \in {ScratchInt, ScratchFloat}
         /\ color[cur] = 0
         /\ regs[cur] = cur
         /\ \A i \in 1..Len(stack) : stack[i] # cur
         /\ Len(stack) \in Nat /\ n \in Nat /\ NReg \in Nat
<1>1. cur \in Reg /\ in2out[cur] # None /\ color[cur] = 0
  BY DEF IInv, TypeOK, Calls
<1>2. regs[cur] = cur
  BY <1>1 DEF IInv, PendingIntact
<1>3. \A i \in 1..Len(stack) : stack[i] # cur
  BY <1>1 DEF IInv, Calls
<1>4. Len(stack) \in Nat /\ n \in Nat /\ NReg \in Nat
  BY RegAssumption DEF IInv, TypeOK
<1>5. TypeOK /\ ArgsOK(args) /\ Requested
  BY DEF IInv
<1> QED BY <1>1, <1>2, <1>3, <1>4, <1>5, PendingMove

\* Emitting the move of a pending p keeps the bookkeeping of the moves right:
\* regs changes at the target of p and possibly at a scratch register.
LEMMA MoveEmitted ==
  ASSUME IInv, pc # "collect", pc' # "collect", UNCHANGED args,
         NEW p \in Reg, in2out[p] # None,
         in2out' = [in2out EXCEPT ![p] = None],
         regs' \in [Reg -> Reg],
         regs'[in2out[p]] = p,
         \A r \in Reg : r \notin {in2out[p], ScratchInt, ScratchFloat} => regs'[r] = regs[r]
  PROVE  ArgsOK(args)' /\ Requested' /\ Collecting' /\ Progress' /\ Untouched'
<1>1. /\ in2out[p] \in Reg /\ in2out[p] \notin {ScratchInt, ScratchFloat}
      /\ TypeOK /\ ArgsOK(args) /\ Requested /\ args \in Seq(Move)
  BY PendingMove DEF IInv, TypeOK
<1>2. /\ in2out'[p] = None
      /\ \A q \in Reg : q # p => in2out'[q] = in2out[q]
  BY <1>1 DEF TypeOK
<1>3. Requested'
  BY <1>1, <1>2 DEF Requested, Idx, Proper
<1>4. Progress'
  <2> SUFFICES ASSUME SourcesDistinct(args), NEW i \in Idx, Proper(i)
               PROVE  \/ in2out'[args[i].src] = args[i].dst
                      \/ in2out'[args[i].src] = None /\ regs'[args[i].dst] = args[i].src
    BY DEF Progress, Idx, Proper, SourcesDistinct
  <2>1. args[i].src \in Reg /\ args[i].dst \in Reg
    BY <1>1, ArgRegs
  <2>2. args[i].dst \notin {ScratchInt, ScratchFloat}
    BY <1>1 DEF ArgsOK, Idx
  <2>3. \/ in2out[args[i].src] = args[i].dst
        \/ in2out[args[i].src] = None /\ regs[args[i].dst] = args[i].src
    BY DEF IInv, Progress
  <2>4. CASE args[i].src = p
    BY <1>1, <1>2, <2>1, <2>3, <2>4
  <2>5. CASE args[i].src # p
    <3>1. args[i].dst # in2out[p]
      BY <1>1, <2>5, PendingTarget
    <3> QED BY <1>2, <2>1, <2>2, <2>3, <2>5, <3>1
  <2> QED BY <2>4, <2>5
<1>5. Untouched'
  <2> SUFFICES ASSUME NEW r \in Reg, r \notin {ScratchInt, ScratchFloat},
                      \A i \in Idx : Proper(i) => args[i].dst # r
               PROVE  regs'[r] = r
    BY DEF Untouched, Idx, Proper
  <2>1. regs[r] = r
    BY DEF IInv, Untouched
  <2>2. r # in2out[p]
    BY DEF IInv, Requested
  <2> QED BY <2>1, <2>2
<1> QED BY <1>1, <1>3, <1>4, <1>5 DEF Collecting

\* The target of the move is free, and it happens at once.
LEMMA EnterFreeIInv == IInv /\ EnterFree => IInv'
<1> SUFFICES ASSUME IInv, EnterFree PROVE IInv'
  OBVIOUS
<1> DEFINE out == in2out[cur]
<1>0. pc = "enter" /\ pc' = "return" /\ in2out[out] = None
  BY DEF EnterFree
<1>1. /\ cur \in Reg /\ out \in Reg /\ out # None /\ out # cur
      /\ {cur, out} \cap {ScratchInt, ScratchFloat} = {}
      /\ color[cur] = 0 /\ regs[cur] = cur
      /\ \A i \in 1..Len(stack) : stack[i] # cur
  BY <1>0, EnterFacts
<1>2. TypeOK'
  BY <1>1 DEF IInv, TypeOK, EnterFree
<1>3. /\ in2out' = [in2out EXCEPT ![cur] = None]
      /\ regs' \in [Reg -> Reg] /\ regs'[out] = cur
      /\ \A r \in Reg : r # out => regs'[r] = regs[r]
      /\ UNCHANGED args
  BY <1>1, <1>2 DEF IInv, TypeOK, EnterFree
<1>4. ArgsOK(args)' /\ Requested' /\ Collecting' /\ Progress' /\ Untouched'
  BY <1>0, <1>1, <1>3, MoveEmitted
<1>5. PendingIntact'
  <2> SUFFICES ASSUME NEW r \in Reg, in2out'[r] # None
               PROVE  r = IF color'[r] = 2 THEN regs'[Scratch(r)] ELSE regs'[r]
    BY DEF PendingIntact
  <2>1. r # cur /\ in2out[r] # None /\ r # out
    BY <1>0, <1>1, <1>3 DEF IInv, TypeOK
  <2>2. Scratch(r) \in {ScratchInt, ScratchFloat} /\ Scratch(r) \in Reg
    BY RegAssumption DEF Scratch
  <2>3. r = IF color[r] = 2 THEN regs[Scratch(r)] ELSE regs[r]
    BY <2>1 DEF IInv, PendingIntact
  <2> QED BY <1>1, <1>3, <2>1, <2>2, <2>3 DEF EnterFree
<1>6. Calls'
  BY <1>0, <1>1, <1>3 DEF IInv, TypeOK, Calls, EnterFree
<1>7. Scanned'
  BY <1>0, <1>1, <1>3 DEF IInv, TypeOK, Scanned, EnterFree
<1> QED BY <1>2, <1>4, <1>5, <1>6, <1>7 DEF IInv

\* The target is being moved further up: its value goes to a scratch register first.
LEMMA EnterCycleIInv == IInv /\ EnterCycle => IInv'
<1> SUFFICES ASSUME IInv, EnterCycle PROVE IInv'
  OBVIOUS
<1> DEFINE out == in2out[cur]
           scr == Scratch(out)
<1>0. pc = "enter" /\ pc' = "return" /\ in2out[out] # None /\ color[out] # 0
  BY DEF EnterCycle
<1>1. /\ cur \in Reg /\ out \in Reg /\ out # None /\ out # cur
      /\ {cur, out} \cap {ScratchInt, ScratchFloat} = {}
      /\ color[cur] = 0 /\ regs[cur] = cur
      /\ \A i \in 1..Len(stack) : stack[i] # cur
  BY <1>0, EnterFacts
<1>2. scr \in {ScratchInt, ScratchFloat} /\ scr \in Reg
  BY RegAssumption DEF Scratch
<1>3. TypeOK'
  <2>1. regs' \in [Reg -> Reg]
    <3>1. regs' = [regs EXCEPT ![scr] = regs[out], ![out] = regs[cur]]
      BY DEF EnterCycle
    <3>2. regs \in [Reg -> Reg] /\ regs[out] \in Reg /\ regs[cur] \in Reg
      BY <1>1 DEF IInv, TypeOK
    <3> HIDE DEF out, scr
    <3> QED BY <3>1, <3>2, <1>1, <1>2
  <2>2. in2out' \in [Reg -> Reg \cup {None}] /\ color' \in [Reg -> 0..2]
    BY <1>1 DEF IInv, TypeOK, EnterCycle
  <2>3. UNCHANGED <<args, n, cur, stack>> /\ pc = "enter" /\ pc' = "return"
    BY DEF EnterCycle
  <2> QED BY <2>1, <2>2, <2>3 DEF IInv, TypeOK
<1>4. /\ in2out' = [in2out EXCEPT ![cur] = None]
      /\ regs' \in [Reg -> Reg] /\ regs'[out] = cur /\ regs'[scr] = regs[out]
      /\ \A r \in Reg : r # out /\ r # scr => regs'[r] = regs[r]
      /\ color'[out] = 2
      /\ \A r \in Reg : r # out => color'[r] = color[r]
      /\ UNCHANGED args
  BY <1>1, <1>2, <1>3 DEF IInv, TypeOK, EnterCycle
<1>5. ArgsOK(args)' /\ Requested' /\ Collecting' /\ Progress' /\ Untouched'
  <2>1. regs' \in [Reg -> Reg] /\ regs'[out] = cur
    BY <1>4
  <2>2. \A r \in Reg : r # out /\ r # scr => regs'[r] = regs[r]
    BY <1>4
  <2>3. UNCHANGED args /\ in2out' = [in2out EXCEPT ![cur] = None]
    BY <1>4
  <2> QED BY <1>0, <1>1, <1>2, <2>1, <2>2, <2>3, MoveEmitted
<1>6. \A r \in Reg : in2out[r] # None => color[r] # 2 /\ regs[r] = r
  BY <1>0 DEF IInv, Calls, PendingIntact
<1>7. PendingIntact'
  <2> SUFFICES ASSUME NEW r \in Reg, in2out'[r] # None
               PROVE  r = IF color'[r] = 2 THEN regs'[Scratch(r)] ELSE regs'[r]
    BY DEF PendingIntact
  <2>1. in2out[r] # None
    BY <1>1, <1>4 DEF IInv, TypeOK
  <2>2. CASE r = out
    BY <1>4, <1>6, <2>1, <2>2
  <2>3. CASE r # out
    <3>1. r # scr
      BY <1>2, <2>1, PendingMove DEF IInv
    <3> QED BY <1>4, <1>6, <2>1, <2>3, <3>1
  <2> QED BY <2>2, <2>3
<1>8. Calls'
  BY <1>0, <1>1, <1>3, <1>4 DEF IInv, TypeOK, Calls, EnterCycle
<1>9. Scanned'
  BY <1>0, <1>1, <1>4 DEF IInv, TypeOK, Scanned, EnterCycle
<1> QED BY <1>3, <1>5, <1>7, <1>8, <1>9 DEF IInv

\* The target is the source of another move, which has to happen first.
LEMMA EnterChainIInv == IInv /\ EnterChain => IInv'
<1> SUFFICES ASSUME IInv, EnterChain PROVE IInv'
  OBVIOUS
<1> DEFINE out == in2out[cur]
<1>0. pc = "enter" /\ pc' = "enter" /\ in2out[out] # None /\ color[out] = 0
  BY DEF EnterChain
<1>1. /\ cur \in Reg /\ out \in Reg /\ out # None /\ out # cur
      /\ color[cur] = 0 /\ in2out[cur] # None
      /\ \A i \in 1..Len(stack) : stack[i] # cur
      /\ Len(stack) \in Nat
  BY <1>0, EnterFacts
<1>2. /\ stack \in Seq(Reg) /\ stack' \in Seq(Reg)
      /\ Len(stack') = Len(stack) + 1
      /\ stack'[Len(stack) + 1] = cur
      /\ \A i \in 1..Len(stack) : stack'[i] = stack[i] /\ stack[i] \in Reg
      /\ stack' # <<>>
  BY <1>1 DEF IInv, TypeOK, EnterChain
<1>3. /\ color' \in [Reg -> 0..2]
      /\ color'[cur] = 1
      /\ \A r \in Reg : r # cur => color'[r] = color[r]
      /\ UNCHANGED <<args, n, in2out, regs>> /\ cur' = out
  BY <1>1 DEF IInv, TypeOK, EnterChain
<1>4. TypeOK' /\ ArgsOK(args)'
  BY <1>0, <1>1, <1>2, <1>3 DEF IInv, TypeOK
<1>5. Requested' /\ Collecting' /\ Untouched'
  BY <1>0, <1>3 DEF IInv, Requested, Collecting, Untouched, Idx, Proper
<1>6. Progress' /\ Scanned'
  BY <1>0, <1>3 DEF IInv, Progress, Scanned, Idx, Proper, SourcesDistinct
<1>7. PendingIntact'
  BY <1>1, <1>3 DEF IInv, PendingIntact
<1>8. Calls'
  <2>1. ASSUME NEW i \in 1..Len(stack')
        PROVE  /\ in2out'[stack'[i]] = IF i = Len(stack') THEN cur' ELSE stack'[i + 1]
               /\ color'[stack'[i]] # 0
    <3>1. CASE i = Len(stack) + 1
      BY <1>2, <1>3, <3>1
    <3>2. CASE i \in 1..Len(stack)
      BY <1>1, <1>2, <1>3, <3>2 DEF IInv, Calls
    <3> QED BY <1>1, <1>2, <3>1, <3>2
  <2>2. \A i, j \in 1..Len(stack') : stack'[i] = stack'[j] => i = j
    BY <1>1, <1>2 DEF IInv, Calls
  <2>3. ASSUME NEW p \in Reg, in2out'[p] # None, color'[p] # 0
        PROVE  \E i \in 1..Len(stack') : stack'[i] = p
    <3>1. CASE p = cur
      BY <1>1, <1>2, <3>1
    <3>2. CASE p # cur
      <4>1. PICK i \in 1..Len(stack) : stack[i] = p
        BY <1>3, <2>3, <3>2 DEF IInv, Calls
      <4> QED BY <1>1, <1>2, <4>1
    <3> QED BY <3>1, <3>2
  <2>4. /\ cur' # None /\ in2out'[cur'] # None /\ color'[cur'] = 0
        /\ \A p \in Reg : in2out'[p] # None => color'[p] # 2
    BY <1>0, <1>1, <1>3 DEF IInv, Calls
  <2>5. n' < NReg /\ stack'[1] = n'
    <3>1. n < NReg /\ IF stack = <<>> THEN cur = n ELSE stack[1] = n
      BY <1>0 DEF IInv, Calls
    <3>2. stack # <<>> => Len(stack) >= 1
      BY <1>2, EmptySeq
    <3>3. stack = <<>> => Len(stack) = 0
      OBVIOUS
    <3> QED BY <1>1, <1>2, <1>3, <3>1, <3>2, <3>3
  <2> QED BY <1>0, <1>2, <2>1, <2>2, <2>3, <2>4, <2>5 DEF Calls
<1> QED BY <1>4, <1>5, <1>6, <1>7, <1>8 DEF IInv

\* A call in a chain returns and its caller's move happens.
LEMMA ReturnToCallerIInv == IInv /\ ReturnToCaller => IInv'
<1> SUFFICES ASSUME IInv, ReturnToCaller PROVE IInv'
  OBVIOUS
<1> DEFINE k == Len(stack)
           in == stack[k]
           out == in2out[in]
<1>0. /\ pc = "return" /\ pc' = "return" /\ stack \in Seq(Reg) /\ stack # <<>>
      /\ k \in Nat /\ k >= 1 /\ in \in Reg /\ n \in Nat /\ NReg \in Nat
  <2>1. pc = "return" /\ pc' = "return" /\ stack \in Seq(Reg) /\ stack # <<>> /\ n \in Nat
    BY DEF IInv, TypeOK, ReturnToCaller
  <2>2. k \in Nat /\ k >= 1
    BY <2>1, EmptySeq
  <2> QED BY <2>1, <2>2, RegAssumption
<1>1. out = cur /\ cur # None /\ in2out[cur] = None
  BY <1>0 DEF IInv, Calls
<1>2. /\ out \in Reg /\ out # in
      /\ {in, out} \cap {ScratchInt, ScratchFloat} = {}
  BY <1>0, <1>1, PendingMove DEF IInv
<1>3. in = IF color[in] = 2 THEN regs[Scratch(in)] ELSE regs[in]
  BY <1>0, <1>1 DEF IInv, PendingIntact
<1>4. /\ in2out' = [in2out EXCEPT ![in] = None]
      /\ in2out' \in [Reg -> Reg \cup {None}]
      /\ in2out'[in] = None /\ \A r \in Reg : r # in => in2out'[r] = in2out[r]
      /\ regs' \in [Reg -> Reg] /\ regs'[out] = in
      /\ \A r \in Reg : r # out => regs'[r] = regs[r]
      /\ UNCHANGED <<args, n, color>> /\ cur' = in
  BY <1>0, <1>2, <1>3 DEF IInv, TypeOK, ReturnToCaller
<1>5. /\ stack' \in Seq(Reg) /\ Len(stack') = k - 1
      /\ \A i \in 1..(k - 1) : stack'[i] = stack[i] /\ stack[i] \in Reg /\ stack[i] # in
  <2>1. k - 1 \in Int /\ 1 \in Int /\ \A i \in 1..(k - 1) : stack[i] \in Reg
    BY <1>0
  <2>2. stack' = SubSeq(stack, 1, k - 1)
    BY DEF ReturnToCaller
  <2>3. /\ stack' \in Seq(Reg)
        /\ Len(stack') = IF 1 <= k - 1 THEN k - 1 - 1 + 1 ELSE 0
        /\ \A i \in 1..(k - 1 - 1 + 1) : stack'[i] = stack[1 + i - 1]
    BY <2>1, <2>2, SubSeqProperties
  <2>4. \A i \in 1..(k - 1) : stack[i] # in
    BY <1>0 DEF IInv, Calls
  <2> HIDE DEF k
  <2>5. Len(stack') = k - 1
    BY <1>0, <2>3
  <2>6. ASSUME NEW i \in 1..(k - 1) PROVE stack'[i] = stack[i]
    <3>1. i \in 1..(k - 1 - 1 + 1) /\ 1 + i - 1 = i
      BY <1>0
    <3> QED BY <2>3, <3>1
  <2> QED BY <2>1, <2>3, <2>4, <2>5, <2>6
<1>6. TypeOK'
  BY <1>0, <1>4, <1>5 DEF IInv, TypeOK
<1>7. ArgsOK(args)' /\ Requested' /\ Collecting' /\ Progress' /\ Untouched'
  <2>1. /\ pc # "collect" /\ pc' # "collect" /\ in \in Reg /\ in2out[in] # None
        /\ regs'[in2out[in]] = in
        /\ \A r \in Reg : r \notin {in2out[in], ScratchInt, ScratchFloat} => regs'[r] = regs[r]
    BY <1>0, <1>1, <1>4
  <2>2. in2out' = [in2out EXCEPT ![in] = None] /\ regs' \in [Reg -> Reg] /\ UNCHANGED args
    BY <1>4
  <2> HIDE DEF in
  <2> QED BY <2>1, <2>2, MoveEmitted
<1>8. PendingIntact'
  <2> SUFFICES ASSUME NEW r \in Reg, in2out'[r] # None
               PROVE  r = IF color'[r] = 2 THEN regs'[Scratch(r)] ELSE regs'[r]
    BY DEF PendingIntact
  <2>1. in2out[r] # None /\ r # out
    BY <1>0, <1>1, <1>2, <1>4
  <2>2. Scratch(r) \in {ScratchInt, ScratchFloat} /\ Scratch(r) \in Reg
    BY RegAssumption DEF Scratch
  <2>3. r = IF color[r] = 2 THEN regs[Scratch(r)] ELSE regs[r]
    BY <2>1 DEF IInv, PendingIntact
  <2> QED BY <1>2, <1>4, <2>1, <2>2, <2>3
<1>9. Calls'
  <2> HIDE DEF k, in, out
  <2>1. ASSUME NEW i \in 1..Len(stack')
        PROVE  /\ in2out'[stack'[i]] = IF i = Len(stack') THEN cur' ELSE stack'[i + 1]
               /\ color'[stack'[i]] # 0
    <3>1. i \in 1..(k - 1) /\ i \in 1..k /\ i + 1 \in 1..k /\ i # k
      BY <1>0, <1>5
    <3>2. in2out[stack[i]] = stack[i + 1] /\ color[stack[i]] # 0
      BY <3>1 DEF IInv, Calls, k
    <3>3. i = Len(stack') => stack[i + 1] = in
      BY <1>0, <1>5 DEF in
    <3>4. i # Len(stack') => stack'[i + 1] = stack[i + 1]
      BY <1>0, <1>5, <3>1
    <3> QED BY <1>4, <1>5, <3>1, <3>2, <3>3, <3>4
  <2>2. \A i, j \in 1..Len(stack') : stack'[i] = stack'[j] => i = j
    BY <1>0, <1>5 DEF IInv, Calls, k
  <2>3. ASSUME NEW p \in Reg, in2out'[p] # None, color'[p] # 0
        PROVE  \E i \in 1..Len(stack') : stack'[i] = p
    <3>1. p # in /\ in2out[p] # None /\ color[p] # 0
      BY <1>4, <2>3
    <3>2. PICK i \in 1..k : stack[i] = p
      BY <3>1 DEF IInv, Calls, k
    <3>3. i # k
      BY <3>1, <3>2 DEF in
    <3> QED BY <1>0, <1>5, <3>2, <3>3
  <2>4. cur' # None /\ in2out'[cur'] = None
    BY <1>0, <1>4 DEF None, Reg
  <2>5. n' < NReg /\ IF stack' = <<>> THEN cur' = n' ELSE stack'[1] = n'
    <3>1. n < NReg /\ stack[1] = n
      BY <1>0 DEF IInv, Calls
    <3>2. stack' = <<>> <=> k = 1
      BY <1>0, <1>5, EmptySeq
    <3>3. k = 1 => in = n
      BY <3>1 DEF in
    <3>4. k # 1 => stack'[1] = stack[1]
      BY <1>0, <1>5
    <3> QED BY <1>4, <3>1, <3>2, <3>3, <3>4
  <2> QED BY <1>0, <2>1, <2>2, <2>3, <2>4, <2>5 DEF Calls
<1>10. Scanned'
  BY <1>0, <1>4 DEF IInv, Scanned
<1> QED BY <1>6, <1>7, <1>8, <1>9, <1>10 DEF IInv

\* The outermost call returns to the scan.
LEMMA ReturnToScanIInv == IInv /\ ReturnToScan => IInv'
<1> SUFFICES ASSUME IInv, ReturnToScan PROVE IInv'
  OBVIOUS
<1>1. /\ pc = "return" /\ pc' = "scan" /\ n' = n + 1 /\ stack = <<>>
      /\ UNCHANGED <<args, in2out, color, cur, stack, regs>>
      /\ n \in Nat /\ n < NReg /\ NReg \in Nat /\ cur = n /\ in2out[n] = None
  BY RegAssumption DEF IInv, TypeOK, Calls, ReturnToScan
<1>2. TypeOK' /\ ArgsOK(args)'
  BY <1>1 DEF IInv, TypeOK
<1>3. Requested' /\ Collecting' /\ Untouched' /\ PendingIntact'
  BY <1>1 DEF IInv, Requested, Collecting, Untouched, PendingIntact, Idx, Proper
<1>4. Progress'
  BY <1>1 DEF IInv, Progress, Idx, Proper, SourcesDistinct
<1>5. Calls'
  BY <1>1 DEF IInv, Calls
<1>6. Scanned'
  BY <1>1 DEF IInv, Scanned, Reg
<1> QED BY <1>2, <1>3, <1>4, <1>5, <1>6 DEF IInv

\* Every step keeps the invariant.
LEMMA NextIInv == IInv /\ [Next]_vars => IInv'
<1> SUFFICES ASSUME IInv, [Next]_vars PROVE IInv'
  OBVIOUS
<1>1. CASE UNCHANGED vars
  <2>1. TypeOK' /\ ArgsOK(args)' /\ Calls'
    BY <1>1 DEF vars, IInv, TypeOK, Calls
  <2>2. Requested' /\ Collecting' /\ Untouched' /\ PendingIntact'
    BY <1>1 DEF vars, IInv, Requested, Collecting, Untouched, PendingIntact, Idx, Proper
  <2>3. Progress' /\ Scanned'
    BY <1>1 DEF vars, IInv, Progress, Scanned, Idx, Proper, SourcesDistinct
  <2> QED BY <2>1, <2>2, <2>3 DEF IInv
<1> QED
  BY <1>1, CollectIInv, CollectEndIInv, ScanIInv, ScanEndIInv, EnterFreeIInv,
     EnterCycleIInv, EnterChainIInv, ReturnToCallerIInv, ReturnToScanIInv DEF Next

\* When the scan is over no move is pending, so all of them have happened.
LEMMA DoneShuffled == IInv => ParallelMove
<1> SUFFICES ASSUME IInv, pc = "done", SourcesDistinct(args) PROVE Shuffled
  BY DEF ParallelMove
<1>1. \A r \in Reg : in2out[r] = None
  BY RegAssumption DEF IInv, Scanned, Reg
<1>2. ASSUME NEW i \in Idx PROVE regs[args[i].dst] = args[i].src
  <2>1. args[i].src \in Reg /\ args[i].dst \in Reg
    BY ArgRegs DEF IInv, TypeOK
  <2>2. CASE Proper(i)
    BY <1>1, <2>1, <2>2 DEF IInv, Progress, None, Reg
  <2>3. CASE ~Proper(i)
    <3>1. \A j \in Idx : Proper(j) => args[j].dst # args[i].dst
      BY <2>3 DEF IInv, ArgsOK, Idx
    <3>2. args[i].dst \notin {ScratchInt, ScratchFloat}
      BY DEF IInv, ArgsOK, Idx
    <3> QED BY <2>1, <2>3, <3>1, <3>2 DEF IInv, Untouched, Proper
  <2> QED BY <2>2, <2>3
<1>3. ASSUME NEW r \in Reg,
             r \notin {args[i].dst : i \in Idx} \cup {ScratchInt, ScratchFloat}
      PROVE  regs[r] = r
  BY <1>3 DEF IInv, Untouched
<1> QED BY <1>2, <1>3 DEF Shuffled, Idx

\* The emitted register shuffle is a parallel move: every argument arrives
\* and no other register changes, for any register file and argument list.
THEOREM ShuffleCorrect == Spec => []ParallelMove
<1> QED BY InitIInv, NextIInv, DoneShuffled, PTL DEF Spec

\* reg_shuffle_single never overwrites a value that has yet to be moved.
THEOREM ShuffleSafe == Spec => [](TypeOK /\ PendingIntact)
<1>1. IInv => TypeOK /\ PendingIntact
  BY DEF IInv
<1> QED BY <1>1, InitIInv, NextIInv, PTL DEF Spec
=============================================================================
