--------------------------- MODULE GcraLiveProofs ---------------------------
(***************************************************************************)
(* The live-variable analysis is type correct, keeps the worklist honest   *)
(* and implements Dataflow: what it ends with is the least solution.       *)
(***************************************************************************)
EXTENDS GcraLive, FiniteSetTheorems, WellFoundedInduction, TLAPS

\* The value the equations of block b give its liveBefore set.
Flow(b) == computeLiveBefore(b, computeLiveAfter(b))

\* "It can only get bigger": the analysis never overshoots an equation.
Ascending == \A b \in Block : liveBefore[b] \subseteq Flow(b)

-----------------------------------------------------------------------------
(***************************************************************************)
(* Machine functions, and points in them.                                  *)
(***************************************************************************)

\* The aliases of registers are registers.
LEMMA AliasesAreRegs ==
  ASSUME NEW R \in SUBSET Reg
  PROVE  addAliases(R) \in SUBSET Reg
BY RegAssumption DEF addAliases

\* Instructions, and what they use and define, are well typed.
LEMMA InstrType ==
  ASSUME NEW f \in MachineFunction, NEW b \in Block,
         NEW k \in DOMAIN f.code[b]
  PROVE  /\ f.code[b][k] \in Instr
         /\ f.code[b][k].uses \in SUBSET Reg
         /\ f.code[b][k].defs \in SUBSET Reg
         /\ getOneInstrRegUses(f.code[b][k]) \in SUBSET Reg
         /\ getOneInstrRegDefs(f.code[b][k]) \in SUBSET Reg
<1>1. f.code[b] \in Seq(Instr)
  BY DEF MachineFunction
<1>2. f.code[b][k] \in Instr
  BY <1>1
<1>3. /\ f.code[b][k].uses \in SUBSET Reg
      /\ f.code[b][k].defs \in SUBSET Reg
  BY <1>2 DEF Instr
<1>4. QED
  BY <1>2, <1>3, AliasesAreRegs DEF getOneInstrRegUses, getOneInstrRegDefs

\* So are the gen and kill sets of a block.
LEMMA GenKillType ==
  ASSUME NEW f \in MachineFunction, NEW b \in Block
  PROVE  /\ getUpwardsExposedUses(f, b) \in SUBSET Reg
         /\ getAllDefs(f, b) \in SUBSET Reg
<1>1. getUpwardsExposedUses(f, b) \in SUBSET Reg
  BY DEF getUpwardsExposedUses
<1>2. \A k \in DOMAIN f.code[b] : f.code[b][k].defs \in SUBSET Reg
  BY InstrType
<1>3. QED BY <1>1, <1>2 DEF getAllDefs

\* Instructions are where they say they are.
LEMMA InstPlace ==
  ASSUME NEW f \in MachineFunction, NEW i \in Inst(f)
  PROVE  /\ i[1] \in Block
         /\ i[2] \in DOMAIN f.code[i[1]]
         /\ i[2] \in Nat
         /\ i = <<i[1], i[2]>>
<1>1. PICK b \in Block : i \in {b} \X (DOMAIN f.code[b])
  BY DEF Inst
<1>2. f.code[b] \in Seq(Instr)
  BY DEF MachineFunction
<1>3. QED BY <1>1, <1>2

\* Induction, in a form the provers can use.
LEMMA LeastNumber ==
  ASSUME NEW T \in SUBSET Nat, T # {}
  PROVE  \E m \in T : \A n \in T : m <= n
<1> DEFINE R == {ss \in Nat \X Nat : ss[1] < ss[2]}
<1>1. IsWellFoundedOn(R, Nat)
  BY NatLessThanWellFounded DEF OpToRel
<1>2. PICK m \in T : \A n \in T : <<n, m>> \notin R
  BY <1>1, WFMin
<1>3. ASSUME NEW n \in T PROVE m <= n
  <2>1. <<n, m>> \in Nat \X Nat /\ ~ (n < m)
    BY <1>2
  <2>2. QED BY <2>1
<1>4. QED BY <1>3

\* Where points are, and what comes after them.
LEMMA PointPlace ==
  ASSUME NEW f \in MachineFunction, NEW b \in Block
  PROVE  /\ Len(f.code[b]) \in Nat
         /\ \A k : <<b, k>> \in Points(f) <=> k \in 1 .. Len(f.code[b]) + 1
         /\ \A k : <<b, k>> \in Inst(f) <=> k \in 1 .. Len(f.code[b])
         /\ \A k \in 1 .. Len(f.code[b]) : After(f, <<b, k>>) = {<<b, k + 1>>}
         /\ After(f, <<b, Len(f.code[b]) + 1>>) = f.succ[b] \X {1}
<1> DEFINE n == Len(f.code[b])
<1>1. f.code[b] \in Seq(Instr)
  BY DEF MachineFunction
<1>2. n \in Nat /\ DOMAIN f.code[b] = 1 .. n
  BY <1>1
<1>3. \A k : <<b, k>> \in Points(f) <=> k \in 1 .. n + 1
  BY DEF Points
<1>4. \A k : <<b, k>> \in Inst(f) <=> k \in 1 .. n
  BY <1>2 DEF Inst
<1> HIDE DEF n
<1>5. n + 1 \notin 1 .. n
  BY <1>2
<1>6. QED BY <1>2, <1>3, <1>4, <1>5 DEF After, n

LEMMA PointParts ==
  ASSUME NEW f \in MachineFunction, NEW p \in Points(f)
  PROVE  /\ p[1] \in Block
         /\ p[2] \in 1 .. Len(f.code[p[1]]) + 1
         /\ p = <<p[1], p[2]>>
BY DEF Points

\* An instruction stands at a point, and what follows it are points.
LEMMA AfterType ==
  ASSUME NEW f \in MachineFunction, NEW p \in Points(f)
  PROVE  After(f, p) \in SUBSET Points(f)
<1>1. PICK b \in Block : p \in {b} \X (1 .. Len(f.code[b]) + 1)
  BY DEF Points
<1>2. PICK k \in 1 .. Len(f.code[b]) + 1 : p = <<b, k>>
  BY <1>1
<1>3. Len(f.code[b]) \in Nat
  BY PointPlace
<1>4. CASE k = Len(f.code[b]) + 1
  <2>1. After(f, p) = f.succ[b] \X {1}
    BY <1>2, <1>4, PointPlace
  <2>2. f.succ[b] \subseteq Block
    BY DEF MachineFunction
  <2>3. \A c \in Block : 1 \in 1 .. Len(f.code[c]) + 1
    BY PointPlace
  <2>4. \A c \in Block : <<c, 1>> \in Points(f)
    BY <2>3, PointPlace
  <2>5. QED BY <2>1, <2>2, <2>4
<1>5. CASE k # Len(f.code[b]) + 1
  <2>1. k \in 1 .. Len(f.code[b]) /\ k + 1 \in 1 .. Len(f.code[b]) + 1
    BY <1>3, <1>5
  <2>2. After(f, p) = {<<b, k + 1>>}
    BY <1>2, <2>1, PointPlace
  <2>3. <<b, k + 1>> \in Points(f)
    BY <2>1, PointPlace
  <2>4. QED BY <2>2, <2>3
<1>6. QED BY <1>4, <1>5

\* What is live within a block is live at its start unless it is defined on
\* the way: the first point of a closed set in a block is the start.
LEMMA UpTheBlock ==
  ASSUME NEW f \in MachineFunction, NEW r \in Reg, NEW b \in Block,
         NEW S \in SUBSET Points(f), ClosedUpstream(f, r, S),
         NEW k \in 1 .. Len(f.code[b]) + 1, <<b, k>> \in S,
         \A j \in 1 .. k - 1 : r \notin getOneInstrRegDefs(f.code[b][j])
  PROVE  <<b, 1>> \in S
<1> DEFINE n == Len(f.code[b])
           T == {j \in 1 .. k : <<b, j>> \in S}
<1>1. /\ n \in Nat /\ k \in T
      /\ \A j \in 1 .. n : After(f, <<b, j>>) = {<<b, j + 1>>}
      /\ \A j \in 1 .. n : <<b, j>> \in Points(f)
  <2>1. /\ n \in Nat
        /\ \A j \in 1 .. n : After(f, <<b, j>>) = {<<b, j + 1>>}
        /\ \A j \in 1 .. n + 1 : <<b, j>> \in Points(f)
    BY PointPlace
  <2>2. k \in 1 .. n + 1
    OBVIOUS
  <2> HIDE DEF n
  <2>3. k \in 1 .. k /\ \A j \in 1 .. n : j \in 1 .. n + 1
    BY <2>1, <2>2
  <2>4. QED BY <2>1, <2>3
<1>2. PICK m \in T : \A j \in T : m <= j
  <2>1. T # {} /\ T \subseteq 1 .. k /\ 1 .. k \subseteq Nat
    BY <1>1
  <2> HIDE DEF T
  <2>2. QED BY <2>1, LeastNumber
<1>3. ASSUME m # 1 PROVE FALSE
  <2>1. m - 1 \in 1 .. n /\ m - 1 \in 1 .. k - 1 /\ m - 1 \in 1 .. k /\ (m - 1) + 1 = m
    BY <1>1, <1>2, <1>3
  <2>2. After(f, <<b, m - 1>>) = {<<b, m>>}
    BY <1>1, <2>1
  <2>3. ~ Defines(f, <<b, m - 1>>, r)
    BY <2>1 DEF Defines, At, getOneInstrRegDefs
  <2>4. <<b, m - 1>> \in Points(f)
    BY <1>1, <2>1
  <2>5. <<b, m - 1>> \in S
    BY <1>2, <2>2, <2>3, <2>4 DEF ClosedUpstream
  <2>6. m - 1 \in T /\ m \in Nat
    BY <2>1, <2>5
  <2>7. QED BY <1>2, <2>6
<1>4. QED BY <1>2, <1>3

\* LivePoints lies in every closed set.
LEMMA LivePointsLeast ==
  ASSUME NEW f, NEW r, NEW S \in SUBSET Points(f), ClosedUpstream(f, r, S)
  PROVE  LivePoints(f, r) \subseteq S
BY DEF LivePoints

-----------------------------------------------------------------------------

\* The current function of a non-empty sequence is a function.
LEMMA CurrentFn ==
  ASSUME todo \in Seq(MachineFunction) \ {<< >>}
  PROVE  /\ fn \in MachineFunction
         /\ fn.succ \in [Block -> SUBSET Block]
         /\ fn.code \in [Block -> Seq(Instr)]
         /\ fn.addr \in [Block -> Nat]
<1>1. fn \in MachineFunction
  BY DEF fn
<1>2. QED BY <1>1 DEF MachineFunction

LEMMA FlowType ==
  ASSUME TypeOK, NEW b \in Block
  PROVE  /\ computeLiveAfter(b) \in SUBSET Reg
         /\ Flow(b) \in SUBSET Reg
<1>1. fn \in MachineFunction /\ fn.succ \in [Block -> SUBSET Block]
  BY CurrentFn DEF TypeOK
<1>2. computeLiveAfter(b) \in SUBSET Reg
  BY <1>1 DEF computeLiveAfter, TypeOK
<1>3. QED
  BY <1>1, <1>2, GenKillType
     DEF Flow, computeLiveBefore, liveVarsGen, liveVarsKill

\* The sizes of two nested sets of registers tell whether they are equal: the
\* test of the code is the test it means.
LEMMA ChangedMeansLarger ==
  ASSUME NEW old \in SUBSET Reg, NEW new \in SUBSET Reg, old \subseteq new
  PROVE  Changed(new, old) <=> new # old
<1>1. IsFiniteSet(new) /\ IsFiniteSet(old)
  BY RegAssumption, FS_Subset
<1>2. Cardinality(new) \in Nat /\ Cardinality(old) \in Nat
  BY <1>1, FS_CardinalityType
<1>3. /\ Cardinality(old) <= Cardinality(new)
      /\ Cardinality(old) = Cardinality(new) => new = old
  BY <1>1, FS_Subset
<1>4. QED BY <1>2, <1>3 DEF Changed

-----------------------------------------------------------------------------
\* An initial state, or the one a new function starts in, is well typed.
LEMMA StartType ==
  ASSUME NEW m \in Seq(MachineFunction), m # << >>
  PROVE  /\ AllInstrs(Head(m)) \in [Block -> Nat]
         /\ \A b \in Block : AllInstrs(Head(m))[b] = Len(Head(m).code[b])
         /\ {i \in Inst(Head(m)) : i[2] > AllInstrs(Head(m))[i[1]]} = {}
<1>1. Head(m) \in MachineFunction
  OBVIOUS
<1>2. \A b \in Block : Head(m).code[b] \in Seq(Instr)
  BY <1>1 DEF MachineFunction
<1>3. \A b \in Block : /\ Len(Head(m).code[b]) \in Nat
                       /\ DOMAIN Head(m).code[b] = 1 .. Len(Head(m).code[b])
  BY <1>2
<1>4. ASSUME NEW i \in Inst(Head(m)), i[2] > AllInstrs(Head(m))[i[1]]
      PROVE  FALSE
  <2>1. PICK b \in Block : i \in {b} \X (DOMAIN Head(m).code[b])
    BY DEF Inst
  <2>2. i[1] = b /\ i[2] \in 1 .. Len(Head(m).code[b])
    BY <2>1, <1>3
  <2>3. QED BY <2>2, <1>3, <1>4 DEF AllInstrs
<1>5. QED BY <1>3, <1>4 DEF AllInstrs

LEMMA InitType == Init => TypeOK
<1> SUFFICES ASSUME Init PROVE TypeOK
  OBVIOUS
<1>1. todo \in Seq(MachineFunction) \ {<< >>}
  BY ModulesAssumption DEF Init
<1>2. /\ left \in [Block -> Nat]
      /\ \A b \in Block : left[b] = Len(fn.code[b])
      /\ {i \in Inst(fn) : i[2] > left[i[1]]} = {}
  BY <1>1, StartType DEF Init, fn
<1>3. \A b \in Block : left[b] <= Len(fn.code[b])
  BY <1>2
<1>4. QED BY <1>1, <1>2, <1>3 DEF Init, TypeOK, NoRegs, NoInstrs

LEMMA NextFnType == TypeOK /\ NextFn => TypeOK'
<1> SUFFICES ASSUME TypeOK, NextFn PROVE TypeOK'
  OBVIOUS
<1>1. todo' \in Seq(MachineFunction) \ {<< >>}
  <2>1. todo \in Seq(MachineFunction) /\ Len(todo) > 1 /\ todo' = Tail(todo)
    BY DEF TypeOK, NextFn
  <2>2. todo' \in Seq(MachineFunction) /\ Len(todo') = Len(todo) - 1
    BY <2>1
  <2>3. Len(todo') > 0
    BY <2>1, <2>2
  <2>4. QED BY <2>2, <2>3
<1>2. /\ left' \in [Block -> Nat]
      /\ \A b \in Block : left'[b] = Len(fn'.code[b])
      /\ {i \in Inst(fn') : i[2] > left'[i[1]]} = {}
  BY <1>1, StartType DEF NextFn, fn
<1>3. \A b \in Block : left'[b] <= Len(fn'.code[b])
  BY <1>2
<1>4. QED BY <1>1, <1>2, <1>3 DEF NextFn, TypeOK, NoRegs, NoInstrs, Cleared

LEMMA LiveBlockType ==
  ASSUME TypeOK, NEW b \in Block, LiveBlock(b)
  PROVE  TypeOK'
<1>1. /\ fn' = fn
      /\ worklist' \subseteq Block
      /\ UNCHANGED <<todo, left, insLiveBefore, insLiveAfter>>
  BY DEF LiveBlock, Requeued, pred, fn, TypeOK
<1>2. liveBefore' \in [Block -> SUBSET Reg] /\ liveAfter' \in [Block -> SUBSET Reg]
  BY FlowType DEF LiveBlock, Flow, TypeOK
<1>3. QED BY <1>1, <1>2 DEF TypeOK

\* An instruction taken from instVector is one of its block, and joins the
\* domains of the instruction maps.
LEMMA LiveInstrType ==
  ASSUME TypeOK, NEW b \in Block, LiveInstr(b)
  PROVE  TypeOK'
<1> DEFINE i == <<b, left[b]>>
<1> DEFINE n == Len(fn.code[b])
<1>1. /\ fn \in MachineFunction
      /\ fn' = fn
      /\ n \in Nat
      /\ DOMAIN fn.code[b] = 1 .. n
      /\ left[b] \in 1 .. n
  <2>1. fn \in MachineFunction /\ fn.code[b] \in Seq(Instr)
    BY CurrentFn DEF TypeOK
  <2>2. fn' = fn /\ left[b] > 0
    BY DEF LiveInstr, fn
  <2>3. QED BY <2>1, <2>2 DEF TypeOK
<1>2. \A c \in Block : \A k : <<c, k>> \in Inst(fn) <=> k \in DOMAIN fn.code[c]
  BY DEF Inst
<1>3. left' = [left EXCEPT ![b] = @ - 1]
  BY DEF LiveInstr
<1>4. /\ left' \in [Block -> Nat]
      /\ \A c \in Block : left'[c] <= Len(fn.code[c])
  BY <1>1, <1>3 DEF TypeOK
<1>5. {j \in Inst(fn) : j[2] > left'[j[1]]}
        = {j \in Inst(fn) : j[2] > left[j[1]]} \cup {i}
  <2>1. i \in Inst(fn)
    BY <1>1, <1>2
  <2>2. ASSUME NEW j \in Inst(fn)
        PROVE  j[2] > left'[j[1]] <=> j[2] > left[j[1]] \/ j = i
    <3>1. PICK c \in Block : j \in {c} \X (DOMAIN fn.code[c])
      BY DEF Inst
    <3>2. fn.code[c] \in Seq(Instr)
      BY CurrentFn DEF TypeOK
    <3>3. j = <<c, j[2]>> /\ j[1] = c /\ j[2] \in Nat
      BY <3>1, <3>2
    <3>4. CASE c = b
      <4>1. left'[b] = left[b] - 1 /\ left[b] \in Nat
        BY <1>3 DEF TypeOK
      <4>2. j[2] > left[b] - 1 <=> j[2] > left[b] \/ j[2] = left[b]
        BY <3>3, <4>1
      <4>3. j = i <=> j[2] = left[b]
        BY <3>3, <3>4
      <4>4. QED BY <3>3, <3>4, <4>1, <4>2, <4>3
    <3>5. CASE c # b
      <4>1. left'[c] = left[c]
        BY <1>3, <3>5 DEF TypeOK
      <4>2. j # i
        BY <3>3, <3>5
      <4>3. QED BY <3>3, <4>1, <4>2
    <3>6. QED BY <3>4, <3>5
  <2>3. QED BY <2>1, <2>2
<1> DEFINE after == IF left[b] = n THEN liveAfter[b]
                    ELSE insLiveBefore[<<b, left[b] + 1>>]
<1> DEFINE before == (after \ getOneInstrRegDefs(At(fn, i)))
                       \cup getOneInstrRegUses(At(fn, i))
<1>6. after \in SUBSET Reg
  <2>1. CASE left[b] = n
    BY <2>1 DEF TypeOK
  <2>2. CASE left[b] # n
    <3>1. left[b] + 1 \in 1 .. n
      BY <1>1, <2>2
    <3>2. <<b, left[b] + 1>> \in Inst(fn)
      BY <1>1, <1>2, <3>1
    <3>3. <<b, left[b] + 1>> \in DOMAIN insLiveBefore
      BY <1>1, <3>2 DEF TypeOK
    <3>4. QED BY <2>2, <3>3 DEF TypeOK
  <2>3. QED BY <2>1, <2>2
<1>7. before \in SUBSET Reg
  <2>1. At(fn, i) = fn.code[b][left[b]]
    BY DEF At
  <2>2. QED BY <1>1, <1>6, <2>1, InstrType
<1>8. /\ insLiveAfter' = Put(insLiveAfter, i, after)
      /\ insLiveBefore' = Put(insLiveBefore, i, before)
      /\ UNCHANGED <<todo, worklist, liveBefore, liveAfter>>
  BY DEF LiveInstr
<1> HIDE DEF after, before, i
<1>9. /\ DOMAIN insLiveAfter' = DOMAIN insLiveAfter \cup {i}
      /\ DOMAIN insLiveBefore' = DOMAIN insLiveBefore \cup {i}
      /\ \A j \in DOMAIN insLiveBefore' :
           insLiveBefore'[j] \in SUBSET Reg /\ insLiveAfter'[j] \in SUBSET Reg
  BY <1>6, <1>7, <1>8 DEF Put, TypeOK
<1>10. QED BY <1>1, <1>4, <1>5, <1>8, <1>9 DEF TypeOK

\* Every reachable state is well typed.
THEOREM TypeCorrect == Spec => []TypeOK
<1>1. TypeOK /\ [Next]_vars => TypeOK'
  <2> SUFFICES ASSUME TypeOK, [Next]_vars PROVE TypeOK'
    OBVIOUS
  <2>1. ASSUME NEW b \in Block, LiveBlock(b) PROVE TypeOK'
    BY <2>1, LiveBlockType
  <2>2. ASSUME NEW b \in Block, LiveInstr(b) PROVE TypeOK'
    BY <2>2, LiveInstrType
  <2>3. CASE NextFn
    BY <2>3, NextFnType
  <2>4. CASE UNCHANGED vars
    BY <2>4 DEF TypeOK, vars, fn
  <2>5. QED BY <2>1, <2>2, <2>3, <2>4 DEF Next, Finished
<1>2. QED BY <1>1, InitType, PTL DEF Spec

-----------------------------------------------------------------------------
(***************************************************************************)
(* The inductive invariant.  OffWorklistSolved is not inductive alone: the *)
(* code compares sizes, and that an old set and a new one of equal size    *)
(* are the same set needs the old one to be below its equation.            *)
(***************************************************************************)
IInv == TypeOK /\ Ascending /\ OffWorklistSolved

\* What one iteration of the worklist loop does, with sizes out of the way.
LEMMA LiveBlockEffect ==
  ASSUME IInv, NEW b \in Block, LiveBlock(b)
  PROVE  /\ UNCHANGED <<todo, left, insLiveBefore, insLiveAfter>>
         /\ b \in worklist
         /\ liveBefore' = [liveBefore EXCEPT ![b] = Flow(b)]
         /\ liveAfter' = [liveAfter EXCEPT ![b] = computeLiveAfter(b)]
         /\ liveBefore[b] \subseteq Flow(b)
         /\ \/ Flow(b) # liveBefore[b] /\ worklist' = (worklist \ {b}) \cup pred(fn, b)
            \/ Flow(b) = liveBefore[b] /\ worklist' = worklist \ {b}
<1>1. /\ liveBefore[b] \in SUBSET Reg
      /\ Flow(b) \in SUBSET Reg
      /\ liveBefore[b] \subseteq Flow(b)
  BY FlowType DEF IInv, TypeOK, Ascending
<1>2. Changed(Flow(b), liveBefore[b]) <=> Flow(b) # liveBefore[b]
  BY <1>1, ChangedMeansLarger
<1>3. liveBefore = [liveBefore EXCEPT ![b] = liveBefore[b]]
  BY DEF IInv, TypeOK
<1>4. QED BY <1>1, <1>2, <1>3 DEF LiveBlock, Flow, First, Requeued

\* The equations of a block read only the sets of its successors.
LEMMA FlowDepends ==
  ASSUME IInv, NEW b \in Block, LiveBlock(b), NEW c \in Block
  PROVE  /\ b \notin fn.succ[c] =>
              computeLiveAfter(c)' = computeLiveAfter(c) /\ Flow(c)' = Flow(c)
         /\ computeLiveAfter(c) \subseteq computeLiveAfter(c)'
         /\ Flow(c) \subseteq Flow(c)'
<1>1. fn' = fn /\ fn.succ[c] \subseteq Block
  BY LiveBlockEffect, CurrentFn DEF fn, IInv, TypeOK
<1>2. /\ \A d \in Block : liveBefore[d] \subseteq liveBefore'[d]
      /\ \A d \in Block \ {b} : liveBefore'[d] = liveBefore[d]
  <2>1. /\ liveBefore \in [Block -> SUBSET Reg]
        /\ liveBefore' = [liveBefore EXCEPT ![b] = Flow(b)]
        /\ liveBefore[b] \subseteq Flow(b)
    BY LiveBlockEffect DEF IInv, TypeOK
  <2>2. QED BY <2>1
<1>3. computeLiveAfter(c) \subseteq computeLiveAfter(c)'
  BY <1>1, <1>2 DEF computeLiveAfter
<1>4. b \notin fn.succ[c] => computeLiveAfter(c)' = computeLiveAfter(c)
  BY <1>1, <1>2 DEF computeLiveAfter
<1>5. liveVarsGen(c)' = liveVarsGen(c) /\ liveVarsKill(c)' = liveVarsKill(c)
  BY <1>1 DEF liveVarsGen, liveVarsKill
<1>6. QED BY <1>3, <1>4, <1>5 DEF Flow, computeLiveBefore

LEMMA LiveBlockInv ==
  ASSUME IInv, NEW b \in Block, LiveBlock(b)
  PROVE  Ascending' /\ OffWorklistSolved'
<1>1. ASSUME NEW c \in Block PROVE liveBefore'[c] \subseteq Flow(c)'
  <2>1. liveBefore'[c] \subseteq Flow(c)
    BY LiveBlockEffect DEF IInv, TypeOK, Ascending
  <2>2. QED BY <2>1, FlowDepends
<1>2. ASSUME NEW c \in Block \ worklist'
      PROVE  /\ liveAfter'[c] = computeLiveAfter(c)'
             /\ liveBefore'[c] = Flow(c)'
  <2>1. /\ liveAfter'[c] = computeLiveAfter(c)
        /\ liveBefore'[c] = Flow(c)
    <3>1. CASE c = b
      BY <3>1, LiveBlockEffect DEF IInv, TypeOK
    <3>2. CASE c # b
      <4>1. c \notin worklist
        BY <3>2, LiveBlockEffect
      <4>2. liveAfter'[c] = liveAfter[c] /\ liveBefore'[c] = liveBefore[c]
        BY <3>2, LiveBlockEffect DEF IInv, TypeOK
      <4>3. QED BY <4>1, <4>2 DEF IInv, OffWorklistSolved, Flow
    <3>3. QED BY <3>1, <3>2
  <2>2. CASE Flow(b) # liveBefore[b]
    <3>1. b \notin fn.succ[c]
      BY <2>2, LiveBlockEffect DEF pred
    <3>2. QED BY <2>1, <3>1, FlowDepends
  <2>3. CASE Flow(b) = liveBefore[b]
    <3>1. UNCHANGED liveBefore /\ fn' = fn
      BY <2>3, LiveBlockEffect DEF IInv, TypeOK, fn
    <3>2. computeLiveAfter(c)' = computeLiveAfter(c)
      BY <3>1 DEF computeLiveAfter
    <3>3. Flow(c)' = Flow(c)
      BY <3>1, <3>2 DEF Flow, computeLiveBefore, liveVarsGen, liveVarsKill
    <3>4. QED BY <2>1, <3>2, <3>3
  <2>4. QED BY <2>2, <2>3
<1>3. Ascending'
  BY <1>1 DEF Ascending
<1>4. OffWorklistSolved'
  BY <1>2 DEF OffWorklistSolved, Flow, computeLiveBefore
<1>5. QED BY <1>3, <1>4

LEMMA IInvInit == Init => IInv
<1> SUFFICES ASSUME Init PROVE Ascending /\ OffWorklistSolved
  BY InitType DEF IInv
<1>1. Ascending
  BY DEF Init, Ascending, NoRegs
<1>2. OffWorklistSolved
  BY DEF Init, OffWorklistSolved
<1>3. QED BY <1>1, <1>2

LEMMA IInvStep == IInv /\ [Next]_vars => IInv'
<1> SUFFICES ASSUME IInv, [Next]_vars PROVE IInv'
  OBVIOUS
<1>1. ASSUME NEW b \in Block, LiveBlock(b) PROVE IInv'
  BY <1>1, LiveBlockInv, LiveBlockType DEF IInv
<1>2. ASSUME NEW b \in Block, LiveInstr(b) PROVE IInv'
  <2>1. UNCHANGED <<todo, worklist, liveBefore, liveAfter>>
    BY <1>2 DEF LiveInstr
  <2>2. Ascending' /\ OffWorklistSolved'
    BY <2>1 DEF IInv, Ascending, OffWorklistSolved, Flow, computeLiveAfter,
                computeLiveBefore, liveVarsGen, liveVarsKill, fn
  <2>3. QED BY <1>2, <2>2, LiveInstrType DEF IInv
<1>3. ASSUME NextFn PROVE IInv'
  <2>1. liveBefore' = NoRegs /\ worklist' = Block
    BY <1>3 DEF NextFn
  <2>2. Ascending' /\ OffWorklistSolved'
    BY <2>1 DEF Ascending, OffWorklistSolved, NoRegs
  <2>3. QED BY <1>3, <2>2, NextFnType DEF IInv
<1>4. CASE UNCHANGED vars
  BY <1>4 DEF vars, IInv, TypeOK, Ascending, OffWorklistSolved, Flow,
              computeLiveAfter, computeLiveBefore, liveVarsGen, liveVarsKill, fn
<1>5. QED BY <1>1, <1>2, <1>3, <1>4 DEF Next, Finished

LEMMA Invariant == Spec => []IInv
BY IInvInit, IInvStep, PTL DEF Spec

\* No block is ever left off the worklist with equations that do not hold, for
\* every function, every graph and every order of addresses.
THEOREM OffWorklistCorrect == Spec => []OffWorklistSolved
<1>1. IInv => OffWorklistSolved
  BY DEF IInv
<1>2. QED BY <1>1, Invariant, PTL

-----------------------------------------------------------------------------
(***************************************************************************)
(* Implementation of Dataflow: a step is a Raise, a Pose or a stutter.     *)
(***************************************************************************)
LEMMA AbstractFlow ==
  ASSUME TypeOK, NEW b \in Block
  PROVE  DF!Flow([dep |-> fn.succ,
                  gen |-> [c \in Block |-> liveVarsGen(c)],
                  kill |-> [c \in Block |-> liveVarsKill(c)]],
                 liveBefore, b) = Flow(b)
BY DEF DF!Flow, Flow, computeLiveBefore, computeLiveAfter

LEMMA AbstractProblem ==
  ASSUME NEW f \in MachineFunction
  PROVE  [dep |-> f.succ,
          gen |-> [b \in Block |-> getUpwardsExposedUses(f, b)],
          kill |-> [b \in Block |-> getAllDefs(f, b)]] \in DF!Problem
<1>1. f.succ \in [Block -> SUBSET Block]
  BY DEF MachineFunction
<1>2. \A b \in Block : /\ getUpwardsExposedUses(f, b) \in SUBSET Reg
                       /\ getAllDefs(f, b) \in SUBSET Reg
  BY GenKillType
<1>3. QED BY <1>1, <1>2 DEF DF!Problem

\* The analysis ends with the least solution of its equations and starts every
\* function afresh, whatever the graph and the order of the worklist.
THEOREM LeastLivenessCorrect == Spec => LeastLiveness
<1>1. Init => DF!Init
  <2> SUFFICES ASSUME Init PROVE DF!Init
    OBVIOUS
  <2>1. liveBefore = DF!Empty
    BY DEF Init, NoRegs, DF!Empty
  <2>2. fn \in MachineFunction
    BY InitType, CurrentFn DEF TypeOK
  <2>3. worklist = {} => Block = {}
    BY DEF Init
  <2>4. QED
    BY <2>1, <2>2, <2>3, AbstractProblem
       DEF DF!Init, DF!IsSolution, liveVarsGen, liveVarsKill
<1>2. IInv /\ IInv' /\ [Next]_vars => [DF!Next]_(DF!vars)
  <2> SUFFICES ASSUME IInv, IInv', [Next]_vars PROVE [DF!Next]_(DF!vars)
    OBVIOUS
  <2> DEFINE p == [dep |-> fn.succ,
                   gen |-> [b \in Block |-> liveVarsGen(b)],
                   kill |-> [b \in Block |-> liveVarsKill(b)]]
  <2>1. todo' = todo => p' = p
    BY DEF fn, liveVarsGen, liveVarsKill
  <2>2. p' = p /\ worklist' = {} => DF!IsSolution(p, liveBefore')
    <3> SUFFICES ASSUME p' = p, worklist' = {}, NEW b \in Block
                 PROVE  liveBefore'[b] = DF!Flow(p, liveBefore', b)
      BY DEF DF!IsSolution
    <3>1. liveBefore'[b] = Flow(b)'
      BY DEF IInv, OffWorklistSolved, Flow
    <3>2. Flow(b)' = DF!Flow(p', liveBefore', b)
      BY DEF DF!Flow, Flow, computeLiveBefore, computeLiveAfter
    <3>3. QED BY <3>1, <3>2
  <2>3. ASSUME NEW b \in Block, LiveBlock(b) PROVE DF!Raise(b)
    <3>1. /\ todo' = todo
          /\ worklist # {}
          /\ liveBefore' = [liveBefore EXCEPT ![b] = Flow(b)]
      BY <2>3, LiveBlockEffect
    <3>2. DF!Flow(p, liveBefore, b) = Flow(b)
      BY AbstractFlow DEF IInv
    <3>3. QED BY <2>1, <2>2, <3>1, <3>2 DEF DF!Raise
  <2>4. ASSUME NEW b \in Block, LiveInstr(b) PROVE UNCHANGED DF!vars
    <3>1. UNCHANGED <<todo, liveBefore, worklist>>
      BY <2>4 DEF LiveInstr
    <3>2. QED BY <2>1, <3>1 DEF DF!vars
  <2>5. ASSUME NextFn PROVE DF!Pose
    <3>1. worklist = {} /\ worklist' = Block /\ liveBefore' = NoRegs
      BY <2>5 DEF NextFn, Done
    <3>2. worklist' = {} => DF!IsSolution(p', liveBefore')
      BY <3>1 DEF DF!IsSolution
    <3>3. p' \in DF!Problem
      <4>1. todo' \in Seq(MachineFunction) \ {<< >>}
        BY DEF IInv, TypeOK
      <4>2. fn' \in MachineFunction
        BY <4>1 DEF fn
      <4>3. QED BY <4>2, AbstractProblem DEF liveVarsGen, liveVarsKill
    <3>4. liveBefore' = DF!Empty
      BY <3>1 DEF NoRegs, DF!Empty
    <3>5. QED BY <3>1, <3>2, <3>3, <3>4 DEF DF!Pose
  <2>6. CASE UNCHANGED vars
    <3>1. UNCHANGED <<todo, liveBefore, worklist>>
      BY <2>6 DEF vars
    <3>2. QED BY <2>1, <3>1 DEF DF!vars
  <2>7. QED BY <2>3, <2>4, <2>5, <2>6 DEF Next, Finished, DF!Next
<1>3. QED BY <1>1, <1>2, Invariant, PTL DEF Spec, LeastLiveness, DF!Spec

-----------------------------------------------------------------------------
\* Every step gets somewhere: the sets are finite, so no loop runs for ever.
THEOREM ProgressCorrect == Spec => Progress
<1> DEFINE Gain == \E b \in worklist :
                     /\ liveBefore[b] \subseteq liveBefore'[b]
                     /\ liveBefore[b] # liveBefore'[b]
                     /\ \A c \in Block \ {b} : liveBefore'[c] = liveBefore[c]
           Shrink == /\ UNCHANGED liveBefore
                     /\ worklist' \subseteq worklist
                     /\ worklist' # worklist
           Walk == /\ UNCHANGED <<liveBefore, liveAfter, worklist>>
                   /\ \E b \in Block : left'[b] < left[b]
           Step == [todo' = todo => Gain \/ Shrink \/ Walk]_vars
<1>1. IInv /\ [Next]_vars => Step
  <2> SUFFICES ASSUME IInv, [Next]_vars PROVE Step
    OBVIOUS
  <2>1. ASSUME NEW b \in Block, LiveBlock(b) PROVE Gain \/ Shrink
    <3>1. /\ b \in worklist
          /\ liveBefore \in [Block -> SUBSET Reg]
          /\ liveBefore' = [liveBefore EXCEPT ![b] = Flow(b)]
          /\ liveBefore[b] \subseteq Flow(b)
      BY <2>1, LiveBlockEffect DEF IInv, TypeOK
    <3>2. CASE Flow(b) # liveBefore[b]
      BY <3>1, <3>2
    <3>3. CASE Flow(b) = liveBefore[b] /\ worklist' = worklist \ {b}
      BY <3>1, <3>3
    <3>4. QED BY <2>1, <3>2, <3>3, LiveBlockEffect
  <2>2. ASSUME NEW b \in Block, LiveInstr(b) PROVE Walk
    <3>1. /\ left \in [Block -> Nat] /\ left[b] > 0
          /\ left' = [left EXCEPT ![b] = @ - 1]
          /\ UNCHANGED <<liveBefore, liveAfter, worklist>>
      BY <2>2 DEF LiveInstr, IInv, TypeOK
    <3>2. left'[b] < left[b]
      BY <3>1
    <3>3. QED BY <3>1, <3>2
  <2>3. ASSUME NextFn PROVE todo' # todo
    <3>1. todo \in Seq(MachineFunction) /\ Len(todo) > 1 /\ todo' = Tail(todo)
      BY <2>3 DEF NextFn, IInv, TypeOK
    <3>2. Len(todo') # Len(todo)
      BY <3>1
    <3>3. QED BY <3>2
  <2>4. QED BY <2>1, <2>2, <2>3 DEF Next, Finished
<1>2. QED BY <1>1, Invariant, PTL DEF Spec, Progress

-----------------------------------------------------------------------------
(***************************************************************************)
(* The two stages against each other.  SuffixDefs and SuffixUses are what  *)
(* the block stage would kill and gen for the instructions from the k-th   *)
(* on; the instruction stage stays within what they let through.           *)
(***************************************************************************)
SuffixDefs(b, k) ==
  UNION {fn.code[b][j].defs : j \in {j \in DOMAIN fn.code[b] : j >= k}}

SuffixUses(b, k) ==
  {r \in Reg : \E j \in DOMAIN fn.code[b] :
      /\ j >= k
      /\ r \in getOneInstrRegUses(fn.code[b][j])
      /\ \A i \in k .. j - 1 : r \notin getOneInstrRegDefs(fn.code[b][i])}

Within(b, k) ==
  insLiveBefore[<<b, k>>]
    \subseteq (liveAfter[b] \ SuffixDefs(b, k)) \cup SuffixUses(b, k)

InstrsWithin ==
  \A b \in Block :
    /\ left[b] < Len(fn.code[b]) => worklist = {}
    /\ \A k \in DOMAIN fn.code[b] : k > left[b] => Within(b, k)

\* Over a whole block the suffix sets are the block's own kill and gen sets.
LEMMA WholeBlock ==
  ASSUME TypeOK, NEW b \in Block
  PROVE  /\ SuffixDefs(b, 1) = liveVarsKill(b)
         /\ SuffixUses(b, 1) = liveVarsGen(b)
<1>1. fn.code[b] \in Seq(Instr)
  BY CurrentFn DEF TypeOK
<1>2. \A j \in DOMAIN fn.code[b] : j \in Nat /\ j >= 1
  BY <1>1
<1>3. SuffixDefs(b, 1) = liveVarsKill(b)
  BY <1>2 DEF SuffixDefs, liveVarsKill, getAllDefs
<1>4. SuffixUses(b, 1) = liveVarsGen(b)
  BY <1>2 DEF SuffixUses, liveVarsGen, getUpwardsExposedUses
<1>5. QED BY <1>3, <1>4

LEMMA InstrsWithinStep ==
  ASSUME IInv, InstrsWithin, NEW b \in Block, LiveInstr(b)
  PROVE  InstrsWithin'
<1> DEFINE n == Len(fn.code[b])
           k == left[b]
           I == fn.code[b][k]
           after == IF k = n THEN liveAfter[b] ELSE insLiveBefore[<<b, k + 1>>]
           before == (after \ getOneInstrRegDefs(I)) \cup getOneInstrRegUses(I)
<1>1. /\ fn.code[b] \in Seq(Instr)
      /\ n \in Nat
      /\ DOMAIN fn.code[b] = 1 .. n
      /\ k \in 1 .. n
      /\ worklist = {}
  BY CurrentFn DEF IInv, TypeOK, LiveInstr
<1>2. /\ fn' = fn
      /\ UNCHANGED <<liveAfter, worklist>>
      /\ left' = [left EXCEPT ![b] = k - 1]
      /\ insLiveBefore' = Put(insLiveBefore, <<b, k>>, before)
  BY DEF LiveInstr, fn, At
<1>3. before \subseteq (liveAfter[b] \ SuffixDefs(b, k)) \cup SuffixUses(b, k)
  <2> SUFFICES ASSUME NEW r \in before,
                      r \notin SuffixUses(b, k)
               PROVE  r \in liveAfter[b] /\ r \notin SuffixDefs(b, k)
    OBVIOUS
  <2> fn \in MachineFunction /\ k \in DOMAIN fn.code[b]
    BY <1>1, CurrentFn DEF IInv, TypeOK
  <2>1. r \notin getOneInstrRegUses(I)
    <3>1. \A i \in k .. k - 1 : FALSE
      BY <1>1
    <3>2. getOneInstrRegUses(I) \subseteq Reg
      BY InstrType
    <3>3. QED BY <1>1, <3>1, <3>2 DEF SuffixUses
  <2>2. r \in after /\ r \notin getOneInstrRegDefs(I)
    BY <2>1
  <2>3. r \notin I.defs
    BY <2>2 DEF getOneInstrRegDefs, addAliases
  <2>4. SuffixDefs(b, k) = I.defs \cup SuffixDefs(b, k + 1)
    BY <1>1 DEF SuffixDefs
  <2>5. CASE k = n
    <3>1. SuffixDefs(b, k + 1) = {}
      BY <1>1, <2>5 DEF SuffixDefs
    <3>2. QED BY <2>2, <2>3, <2>4, <2>5, <3>1
  <2>6. CASE k # n
    <3>1. k + 1 \in 1 .. n /\ k + 1 > left[b]
      BY <1>1, <2>6
    <3>2. Within(b, k + 1)
      BY <1>1, <3>1 DEF InstrsWithin
    <3>3. r \notin SuffixUses(b, k + 1)
      <4>1. SUFFICES ASSUME r \in SuffixUses(b, k + 1) PROVE r \in SuffixUses(b, k)
        OBVIOUS
      <4>2. PICK j \in DOMAIN fn.code[b] :
              /\ j >= k + 1
              /\ r \in getOneInstrRegUses(fn.code[b][j])
              /\ \A i \in k + 1 .. j - 1 :
                   r \notin getOneInstrRegDefs(fn.code[b][i])
        BY <4>1 DEF SuffixUses
      <4>3. \A i \in k .. j - 1 : i = k \/ i \in k + 1 .. j - 1
        BY <1>1, <4>2
      <4>4. \A i \in k .. j - 1 : r \notin getOneInstrRegDefs(fn.code[b][i])
        BY <2>2, <4>2, <4>3
      <4>5. j >= k
        BY <1>1, <4>2
      <4>6. QED BY <4>1, <4>2, <4>4, <4>5 DEF SuffixUses
    <3>4. r \in insLiveBefore[<<b, k + 1>>]
      BY <2>2, <2>6
    <3>5. QED BY <2>3, <2>4, <3>2, <3>3, <3>4 DEF Within
  <2>7. QED BY <2>5, <2>6
<1>4. \A c \in Block : \A j : /\ SuffixDefs(c, j)' = SuffixDefs(c, j)
                             /\ SuffixUses(c, j)' = SuffixUses(c, j)
  BY <1>2 DEF SuffixDefs, SuffixUses
<1> HIDE DEF before
<1>5. ASSUME NEW c \in Block, NEW j \in DOMAIN fn.code[c], j > left'[c]
      PROVE  Within(c, j)'
  <2>1. j \in Nat
    BY CurrentFn DEF IInv, TypeOK
  <2>2. CASE c = b /\ j = k
    <3>1. insLiveBefore'[<<c, j>>] = before
      BY <1>2, <2>2 DEF Put
    <3>2. QED BY <1>2, <1>3, <1>4, <2>2, <3>1 DEF Within
  <2>3. CASE ~ (c = b /\ j = k)
    <3>1. j > left[c]
      BY <1>1, <1>2, <1>5, <2>1, <2>3 DEF IInv, TypeOK
    <3>2. <<c, j>> \in DOMAIN insLiveBefore
      BY <3>1 DEF IInv, TypeOK, Inst
    <3>3. insLiveBefore'[<<c, j>>] = insLiveBefore[<<c, j>>]
      BY <1>2, <2>3, <3>2 DEF Put
    <3>4. Within(c, j)
      BY <3>1 DEF InstrsWithin
    <3>5. QED BY <1>2, <1>4, <3>3, <3>4 DEF Within
  <2>4. QED BY <2>2, <2>3
<1>6. QED BY <1>1, <1>2, <1>5 DEF InstrsWithin

\* The instruction stage never finds more at the start of a block than the
\* block stage, however registers overlap.
THEOREM InstrWithinBlockCorrect == Spec => []InstrWithinBlock
<1>1. Init => InstrsWithin
  <2> SUFFICES ASSUME Init PROVE InstrsWithin
    OBVIOUS
  <2>1. \A b \in Block : left[b] = Len(fn.code[b]) /\ fn.code[b] \in Seq(Instr)
    BY InitType, CurrentFn DEF Init, AllInstrs, TypeOK
  <2>2. QED BY <2>1 DEF InstrsWithin
<1>2. IInv /\ IInv' /\ InstrsWithin /\ [Next]_vars => InstrsWithin'
  <2> SUFFICES ASSUME IInv, IInv', InstrsWithin, [Next]_vars PROVE InstrsWithin'
    OBVIOUS
  <2>1. ASSUME NEW b \in Block, LiveBlock(b) PROVE InstrsWithin'
    <3>1. worklist # {} /\ UNCHANGED <<todo, left>>
      BY <2>1, LiveBlockEffect
    <3>2. \A c \in Block : /\ fn.code[c] \in Seq(Instr)
                           /\ left[c] \in Nat
                           /\ left[c] = Len(fn.code[c])
      <4> SUFFICES ASSUME NEW c \in Block
                   PROVE  /\ fn.code[c] \in Seq(Instr)
                          /\ left[c] \in Nat
                          /\ left[c] = Len(fn.code[c])
        OBVIOUS
      <4>1. fn.code[c] \in Seq(Instr) /\ Len(fn.code[c]) \in Nat
        BY CurrentFn DEF IInv, TypeOK
      <4>2. left[c] \in Nat /\ left[c] <= Len(fn.code[c])
        BY DEF IInv, TypeOK
      <4>3. ~ (left[c] < Len(fn.code[c]))
        BY <3>1 DEF InstrsWithin
      <4>4. QED BY <4>1, <4>2, <4>3
    <3>3. QED BY <3>1, <3>2 DEF InstrsWithin, fn
  <2>2. ASSUME NEW b \in Block, LiveInstr(b) PROVE InstrsWithin'
    BY <2>2, InstrsWithinStep
  <2>3. ASSUME NextFn PROVE InstrsWithin'
    <3>1. todo' \in Seq(MachineFunction) \ {<< >>}
      BY DEF IInv, TypeOK
    <3>2. fn' \in MachineFunction
      BY <3>1 DEF fn
    <3>3. \A c \in Block : /\ fn'.code[c] \in Seq(Instr)
                           /\ left'[c] = Len(fn'.code[c])
      BY <2>3, <3>2 DEF NextFn, AllInstrs, MachineFunction, fn
    <3>4. QED BY <3>3 DEF InstrsWithin
  <2>4. CASE UNCHANGED vars
    BY <2>4 DEF vars, fn, InstrsWithin, Within, SuffixDefs, SuffixUses
  <2>5. QED BY <2>1, <2>2, <2>3, <2>4 DEF Next, Finished
<1>3. IInv /\ InstrsWithin => InstrWithinBlock
  <2> SUFFICES ASSUME IInv, InstrsWithin, NEW b \in Block,
                      <<b, 1>> \in DOMAIN insLiveBefore
               PROVE  insLiveBefore[<<b, 1>>] \subseteq liveBefore[b]
    BY DEF InstrWithinBlock
  <2>1. 1 \in DOMAIN fn.code[b] /\ 1 > left[b]
    BY DEF IInv, TypeOK, Inst
  <2>2. fn.code[b] \in Seq(Instr)
    BY CurrentFn DEF IInv, TypeOK
  <2>3. left[b] < Len(fn.code[b])
    BY <2>1, <2>2 DEF IInv, TypeOK
  <2>4. worklist = {} /\ Within(b, 1)
    BY <2>1, <2>3 DEF InstrsWithin
  <2>5. liveBefore[b] = computeLiveBefore(b, liveAfter[b])
    BY <2>4 DEF IInv, OffWorklistSolved
  <2>6. QED BY <2>4, <2>5, WholeBlock DEF Within, computeLiveBefore, IInv
<1>4. QED BY <1>1, <1>2, <1>3, Invariant, PTL DEF Spec

-----------------------------------------------------------------------------
(***************************************************************************)
(* The analysis against paths.  An instruction that has been walked has    *)
(* its equation solved for good, so that what is found is closed upstream; *)
(* and what is found lies in every set that is.                            *)
(***************************************************************************)
AfterInstr(b, k) ==
  IF k = Len(fn.code[b]) THEN liveAfter[b] ELSE insLiveBefore[<<b, k + 1>>]

Solved(b, k) ==
  insLiveBefore[<<b, k>>] = (AfterInstr(b, k) \ getOneInstrRegDefs(fn.code[b][k]))
                              \cup getOneInstrRegUses(fn.code[b][k])

InstrsSolved ==
  \A b \in Block :
    /\ left[b] < Len(fn.code[b]) => worklist = {}
    /\ \A k \in DOMAIN fn.code[b] : k > left[b] => Solved(b, k)

\* The register r is found only at points of S.
FoundOnlyIn(r, S) ==
  /\ \A b \in Block : r \in liveBefore[b] => <<b, 1>> \in S
  /\ \A b \in Block : r \in liveAfter[b] => <<b, Len(fn.code[b]) + 1>> \in S
  /\ \A i \in DOMAIN insLiveBefore : r \in insLiveBefore[i] => i \in S

Justified ==
  \A r \in VReg : \A S \in SUBSET Points(fn) :
    ClosedUpstream(fn, r, S) => FoundOnlyIn(r, S)

\* What a step of the instruction stage does, in terms of the above.
LEMMA LiveInstrEffect ==
  ASSUME TypeOK, NEW b \in Block, LiveInstr(b)
  PROVE  /\ worklist = {}
         /\ left[b] \in 1 .. Len(fn.code[b])
         /\ DOMAIN fn.code[b] = 1 .. Len(fn.code[b])
         /\ UNCHANGED <<todo, worklist, liveBefore, liveAfter>>
         /\ left' = [left EXCEPT ![b] = left[b] - 1]
         /\ insLiveBefore' =
              Put(insLiveBefore, <<b, left[b]>>,
                  (AfterInstr(b, left[b]) \ getOneInstrRegDefs(fn.code[b][left[b]]))
                    \cup getOneInstrRegUses(fn.code[b][left[b]]))
<1>1. fn.code[b] \in Seq(Instr)
  BY CurrentFn DEF TypeOK
<1>2. left[b] \in Nat /\ left[b] > 0 /\ left[b] <= Len(fn.code[b])
  BY DEF LiveInstr, TypeOK
<1>3. QED BY <1>1, <1>2 DEF LiveInstr, AfterInstr, At

\* An instruction already walked is not the next one, nor is the one after it.
LEMMA WalkedBefore ==
  ASSUME TypeOK, NEW c \in Block, NEW j \in DOMAIN fn.code[c], j > left[c]
  PROVE  /\ j \in Nat
         /\ <<c, j>> \in DOMAIN insLiveBefore
         /\ j # Len(fn.code[c]) => <<c, j + 1>> \in DOMAIN insLiveBefore
         /\ \A b \in Block : <<c, j>> # <<b, left[b]>> /\ <<c, j + 1>> # <<b, left[b]>>
<1>1. /\ fn.code[c] \in Seq(Instr)
      /\ left[c] \in Nat
      /\ Len(fn.code[c]) \in Nat
      /\ DOMAIN fn.code[c] = 1 .. Len(fn.code[c])
  BY CurrentFn DEF TypeOK
<1>2. \A k \in 1 .. Len(fn.code[c]) : k > left[c] => <<c, k>> \in DOMAIN insLiveBefore
  BY <1>1 DEF TypeOK, Inst
<1>3. j \in 1 .. Len(fn.code[c])
  BY <1>1
<1>4. j # Len(fn.code[c]) => j + 1 \in 1 .. Len(fn.code[c])
  BY <1>1, <1>3
<1>5. j + 1 > left[c] /\ j # left[c] /\ j + 1 # left[c]
  BY <1>1, <1>3
<1>6. QED BY <1>2, <1>3, <1>4, <1>5

LEMMA InstrsSolvedStep ==
  ASSUME TypeOK, InstrsSolved, NEW b \in Block, LiveInstr(b)
  PROVE  InstrsSolved'
<1> DEFINE value == (AfterInstr(b, left[b]) \ getOneInstrRegDefs(fn.code[b][left[b]]))
                      \cup getOneInstrRegUses(fn.code[b][left[b]])
<1>1. /\ fn' = fn
      /\ worklist' = {}
      /\ liveAfter' = liveAfter
      /\ left' = [left EXCEPT ![b] = left[b] - 1]
      /\ insLiveBefore' = Put(insLiveBefore, <<b, left[b]>>, value)
  BY LiveInstrEffect DEF fn
<1> HIDE DEF value
<1>2. \A i \in DOMAIN insLiveBefore : i # <<b, left[b]>> => insLiveBefore'[i] = insLiveBefore[i]
  BY <1>1 DEF Put
<1>3. insLiveBefore'[<<b, left[b]>>] = value
  BY <1>1 DEF Put
<1>4. ASSUME NEW c \in Block, NEW j \in DOMAIN fn.code[c], j > left'[c]
      PROVE  Solved(c, j)'
  <2>1. CASE c = b /\ j = left[b]
    <3>1. AfterInstr(c, j)' = AfterInstr(c, j)
      <4>1. CASE j = Len(fn.code[c])
        BY <1>1, <4>1 DEF AfterInstr
      <4>2. CASE j # Len(fn.code[c])
        <5>1. /\ j + 1 \in DOMAIN fn.code[c]
              /\ j + 1 > left[c]
              /\ j \in Nat
          BY <2>1, <4>2, LiveInstrEffect
        <5>2. <<c, j + 1>> \in DOMAIN insLiveBefore /\ <<c, j + 1>> # <<b, left[b]>>
          BY <2>1, <5>1, WalkedBefore
        <5>3. insLiveBefore'[<<c, j + 1>>] = insLiveBefore[<<c, j + 1>>]
          BY <1>2, <5>2
        <5>4. QED BY <1>1, <4>2, <5>3 DEF AfterInstr
      <4>3. QED BY <4>1, <4>2
    <3>2. insLiveBefore'[<<c, j>>] = (AfterInstr(c, j) \ getOneInstrRegDefs(fn.code[c][j]))
                                       \cup getOneInstrRegUses(fn.code[c][j])
      BY <1>3, <2>1 DEF value
    <3>3. QED BY <1>1, <2>1, <3>1, <3>2 DEF Solved
  <2>2. CASE ~ (c = b /\ j = left[b])
    <3>1. j > left[c]
      <4>1. j \in Nat /\ left[b] \in Nat /\ left[c] \in Nat
        BY CurrentFn, LiveInstrEffect DEF TypeOK
      <4>2. c = b => left'[c] = left[b] - 1
        BY <1>1 DEF TypeOK
      <4>3. c # b => left'[c] = left[c]
        BY <1>1 DEF TypeOK
      <4>4. QED BY <1>4, <2>2, <4>1, <4>2, <4>3
    <3>2. insLiveBefore'[<<c, j>>] = insLiveBefore[<<c, j>>]
      BY <1>2, <3>1, WalkedBefore
    <3>3. j # Len(fn.code[c]) => insLiveBefore'[<<c, j + 1>>] = insLiveBefore[<<c, j + 1>>]
      BY <1>2, <3>1, WalkedBefore
    <3>4. AfterInstr(c, j)' = AfterInstr(c, j)
      BY <1>1, <3>3 DEF AfterInstr
    <3>5. Solved(c, j)
      BY <3>1 DEF InstrsSolved
    <3>6. QED BY <1>1, <3>2, <3>4, <3>5 DEF Solved
  <2>3. QED BY <2>1, <2>2
<1>5. QED BY <1>1, <1>4 DEF InstrsSolved

\* A register of its own is defined only by instructions that name it.
LEMMA VRegDefs ==
  ASSUME NEW f \in MachineFunction, NEW b \in Block, NEW k \in DOMAIN f.code[b],
         NEW r \in VReg, r \notin f.code[b][k].defs
  PROVE  r \notin getOneInstrRegDefs(f.code[b][k])
<1>1. f.code[b][k].defs \in SUBSET Reg
  BY InstrType
<1>2. \A x \in Reg : r \notin Alias[x]
  BY RegAssumption DEF VReg
<1>3. QED BY <1>1, <1>2 DEF getOneInstrRegDefs, addAliases

\* What the equations of a block give it is live, if what its successors have is.
LEMMA FlowJustified ==
  ASSUME TypeOK, NEW b \in Block, NEW r \in VReg,
         NEW S \in SUBSET Points(fn), ClosedUpstream(fn, r, S), FoundOnlyIn(r, S)
  PROVE  /\ r \in computeLiveAfter(b) => <<b, Len(fn.code[b]) + 1>> \in S
         /\ r \in Flow(b) => <<b, 1>> \in S
<1> DEFINE n == Len(fn.code[b])
<1>1. /\ fn \in MachineFunction
      /\ fn.succ[b] \subseteq Block
      /\ n \in Nat
      /\ DOMAIN fn.code[b] = 1 .. n
      /\ r \in Reg
  BY CurrentFn DEF TypeOK, VReg
<1>2. /\ <<b, n + 1>> \in Points(fn)
      /\ <<b, n + 1>> \notin Inst(fn)
      /\ After(fn, <<b, n + 1>>) = fn.succ[b] \X {1}
      /\ \A k \in 1 .. n : <<b, k>> \in Points(fn) /\ <<b, k>> \in Inst(fn)
  <2>1. n + 1 \in 1 .. n + 1 /\ n + 1 \notin 1 .. n /\ \A k \in 1 .. n : k \in 1 .. n + 1
    BY <1>1
  <2>2. QED BY <1>1, <2>1, PointPlace
<1> HIDE DEF n
<1>3. ASSUME r \in computeLiveAfter(b) PROVE <<b, n + 1>> \in S
  <2>1. PICK s \in fn.succ[b] : r \in liveBefore[s]
    BY <1>3 DEF computeLiveAfter
  <2>2. <<s, 1>> \in S
    BY <1>1, <2>1 DEF FoundOnlyIn
  <2>3. ~ Defines(fn, <<b, n + 1>>, r)
    BY <1>2 DEF Defines
  <2>4. After(fn, <<b, n + 1>>) \cap S # {}
    BY <1>2, <2>1, <2>2
  <2>5. QED BY <1>2, <2>3, <2>4 DEF ClosedUpstream
<1>4. ASSUME r \in liveVarsGen(b) PROVE <<b, 1>> \in S
  <2>1. PICK k \in 1 .. n :
          /\ r \in getOneInstrRegUses(fn.code[b][k])
          /\ \A j \in 1 .. k - 1 : r \notin getOneInstrRegDefs(fn.code[b][j])
    BY <1>1, <1>4 DEF liveVarsGen, getUpwardsExposedUses
  <2>2. Uses(fn, <<b, k>>, r)
    BY <1>2, <2>1 DEF Uses, At, getOneInstrRegUses
  <2>3. <<b, k>> \in S
    BY <1>2, <2>2 DEF ClosedUpstream
  <2>4. k \in 1 .. n + 1
    BY <1>1
  <2>5. QED BY <1>1, <2>1, <2>3, <2>4, UpTheBlock DEF n
<1>5. ASSUME r \in computeLiveAfter(b), r \notin liveVarsKill(b) PROVE <<b, 1>> \in S
  <2>1. \A j \in 1 .. n : r \notin fn.code[b][j].defs
    BY <1>1, <1>5 DEF liveVarsKill, getAllDefs
  <2>2. \A j \in 1 .. (n + 1) - 1 : r \notin getOneInstrRegDefs(fn.code[b][j])
    BY <1>1, <2>1, VRegDefs
  <2>3. n + 1 \in 1 .. n + 1
    BY <1>1
  <2>4. <<b, n + 1>> \in S
    BY <1>3, <1>5
  <2>5. QED BY <1>1, <2>2, <2>3, <2>4, UpTheBlock DEF n
<1>6. QED BY <1>3, <1>4, <1>5 DEF Flow, computeLiveBefore, n

\* So is what the walk finds for an instruction.
LEMMA InstrJustified ==
  ASSUME TypeOK, NEW b \in Block, LiveInstr(b), NEW r \in VReg,
         NEW S \in SUBSET Points(fn), ClosedUpstream(fn, r, S), FoundOnlyIn(r, S)
  PROVE  FoundOnlyIn(r, S)'
<1> DEFINE k == left[b]
           value == (AfterInstr(b, k) \ getOneInstrRegDefs(fn.code[b][k]))
                      \cup getOneInstrRegUses(fn.code[b][k])
<1>1. /\ fn' = fn
      /\ UNCHANGED <<liveBefore, liveAfter>>
      /\ k \in 1 .. Len(fn.code[b])
      /\ DOMAIN fn.code[b] = 1 .. Len(fn.code[b])
      /\ insLiveBefore' = Put(insLiveBefore, <<b, k>>, value)
  BY LiveInstrEffect DEF fn
<1>2. /\ <<b, k>> \in Inst(fn) /\ <<b, k>> \in Points(fn)
      /\ After(fn, <<b, k>>) = {<<b, k + 1>>}
  <2>1. fn \in MachineFunction
    BY CurrentFn DEF TypeOK
  <2>2. Len(fn.code[b]) \in Nat
    BY <2>1, PointPlace
  <2>3. k \in 1 .. Len(fn.code[b]) + 1
    BY <1>1, <2>2
  <2> HIDE DEF k
  <2>4. QED BY <1>1, <2>1, <2>3, PointPlace
<1>3. r \in AfterInstr(b, k) => <<b, k + 1>> \in S
  <2>1. CASE k = Len(fn.code[b])
    BY <2>1 DEF AfterInstr, FoundOnlyIn
  <2>2. CASE k # Len(fn.code[b])
    <3>1. k + 1 \in DOMAIN fn.code[b] /\ k + 1 > left[b] /\ k \in Nat
      BY <1>1, <2>2
    <3>2. <<b, k + 1>> \in DOMAIN insLiveBefore
      BY <3>1, WalkedBefore
    <3>3. QED BY <2>2, <3>2 DEF AfterInstr, FoundOnlyIn
  <2>3. QED BY <2>1, <2>2
<1>4. r \in value => <<b, k>> \in S
  <2>1. CASE r \in getOneInstrRegUses(fn.code[b][k])
    <3>1. Uses(fn, <<b, k>>, r)
      BY <1>2, <2>1 DEF Uses, At, getOneInstrRegUses
    <3>2. QED BY <1>2, <3>1 DEF ClosedUpstream
  <2>2. CASE r \in AfterInstr(b, k) \ getOneInstrRegDefs(fn.code[b][k])
    <3>1. ~ Defines(fn, <<b, k>>, r)
      BY <2>2 DEF Defines, At, getOneInstrRegDefs
    <3>2. After(fn, <<b, k>>) \cap S # {}
      BY <1>2, <1>3, <2>2
    <3>3. QED BY <1>2, <3>1, <3>2 DEF ClosedUpstream
  <2>3. QED BY <2>1, <2>2
<1> HIDE DEF value, k
<1>5. ASSUME NEW i \in DOMAIN insLiveBefore', r \in insLiveBefore'[i] PROVE i \in S
  <2>1. CASE i = <<b, k>>
    <3>1. insLiveBefore'[i] = value
      BY <1>1, <2>1 DEF Put
    <3>2. QED BY <1>4, <1>5, <2>1, <3>1
  <2>2. CASE i # <<b, k>>
    <3>1. i \in DOMAIN insLiveBefore /\ insLiveBefore'[i] = insLiveBefore[i]
      BY <1>1, <2>2 DEF Put
    <3>2. QED BY <1>5, <3>1 DEF FoundOnlyIn
  <2>3. QED BY <2>1, <2>2
<1>6. QED BY <1>1, <1>5 DEF FoundOnlyIn

\* And what an iteration on a block finds.
LEMMA BlockJustified ==
  ASSUME IInv, NEW b \in Block, LiveBlock(b), NEW r \in VReg,
         NEW S \in SUBSET Points(fn), ClosedUpstream(fn, r, S), FoundOnlyIn(r, S)
  PROVE  FoundOnlyIn(r, S)'
<1>1. /\ fn' = fn
      /\ insLiveBefore' = insLiveBefore
      /\ liveBefore' = [liveBefore EXCEPT ![b] = Flow(b)]
      /\ liveAfter' = [liveAfter EXCEPT ![b] = computeLiveAfter(b)]
  BY LiveBlockEffect DEF fn
<1>2. /\ r \in computeLiveAfter(b) => <<b, Len(fn.code[b]) + 1>> \in S
      /\ r \in Flow(b) => <<b, 1>> \in S
  BY FlowJustified DEF IInv
<1>3. \A c \in Block : r \in liveBefore'[c] => <<c, 1>> \in S
  BY <1>1, <1>2 DEF IInv, TypeOK, FoundOnlyIn
<1>4. \A c \in Block : r \in liveAfter'[c] => <<c, Len(fn.code[c]) + 1>> \in S
  BY <1>1, <1>2 DEF IInv, TypeOK, FoundOnlyIn
<1>5. QED BY <1>1, <1>3, <1>4 DEF FoundOnlyIn

\* Nothing is found when a function begins.
LEMMA NothingJustified ==
  /\ Init => Justified /\ InstrsSolved
  /\ TypeOK' /\ NextFn => Justified' /\ InstrsSolved'
<1>1. Init => Justified /\ InstrsSolved
  <2> SUFFICES ASSUME Init PROVE Justified /\ InstrsSolved
    OBVIOUS
  <2>1. \A b \in Block : left[b] = Len(fn.code[b]) /\ fn.code[b] \in Seq(Instr)
    BY InitType, CurrentFn DEF Init, AllInstrs, TypeOK
  <2>2. InstrsSolved
    BY <2>1 DEF InstrsSolved
  <2>3. Justified
    BY DEF Init, Justified, FoundOnlyIn, NoRegs, NoInstrs
  <2>4. QED BY <2>2, <2>3
<1>2. TypeOK' /\ NextFn => Justified' /\ InstrsSolved'
  <2> SUFFICES ASSUME TypeOK', NextFn PROVE Justified' /\ InstrsSolved'
    OBVIOUS
  <2>1. fn' \in MachineFunction
    BY DEF TypeOK, fn
  <2>2. \A c \in Block : fn'.code[c] \in Seq(Instr) /\ left'[c] = Len(fn'.code[c])
    BY <2>1 DEF NextFn, AllInstrs, MachineFunction, fn
  <2>3. InstrsSolved'
    BY <2>2 DEF InstrsSolved
  <2>4. Justified'
    BY DEF NextFn, Justified, FoundOnlyIn, NoRegs, NoInstrs, Cleared
  <2>5. QED BY <2>3, <2>4
<1>3. QED BY <1>1, <1>2

PathInv == IInv /\ InstrsSolved /\ Justified

LEMMA PathInvariant == Spec => []PathInv
<1>1. Init => InstrsSolved /\ Justified
  BY NothingJustified
<1>2. IInv /\ IInv' /\ InstrsSolved /\ Justified /\ [Next]_vars => InstrsSolved' /\ Justified'
  <2> SUFFICES ASSUME IInv, IInv', InstrsSolved, Justified, [Next]_vars
               PROVE  InstrsSolved' /\ Justified'
    OBVIOUS
  <2>1. ASSUME NEW b \in Block, LiveBlock(b) PROVE InstrsSolved' /\ Justified'
    <3>1. worklist # {} /\ fn' = fn /\ left' = left
      BY <2>1, LiveBlockEffect DEF fn
    <3>2. \A c \in Block : /\ fn.code[c] \in Seq(Instr)
                           /\ left[c] \in Nat /\ left[c] = Len(fn.code[c])
      <4> SUFFICES ASSUME NEW c \in Block
                   PROVE  /\ fn.code[c] \in Seq(Instr)
                          /\ left[c] \in Nat /\ left[c] = Len(fn.code[c])
        OBVIOUS
      <4>1. fn.code[c] \in Seq(Instr) /\ Len(fn.code[c]) \in Nat
        BY CurrentFn DEF IInv, TypeOK
      <4>2. left[c] \in Nat /\ left[c] <= Len(fn.code[c])
        BY DEF IInv, TypeOK
      <4>3. ~ (left[c] < Len(fn.code[c]))
        BY <3>1 DEF InstrsSolved
      <4>4. QED BY <4>1, <4>2, <4>3
    <3>3. InstrsSolved'
      BY <3>1, <3>2 DEF InstrsSolved
    <3>4. Justified'
      BY <2>1, <3>1, BlockJustified DEF Justified
    <3>5. QED BY <3>3, <3>4
  <2>2. ASSUME NEW b \in Block, LiveInstr(b) PROVE InstrsSolved' /\ Justified'
    <3>1. fn' = fn
      BY <2>2 DEF LiveInstr, fn
    <3>2. Justified'
      BY <2>2, <3>1, InstrJustified DEF Justified, IInv
    <3>3. QED BY <2>2, <3>2, InstrsSolvedStep DEF IInv
  <2>3. CASE NextFn
    BY <2>3, NothingJustified DEF IInv
  <2>4. CASE UNCHANGED vars
    BY <2>4 DEF vars, fn, InstrsSolved, Solved, AfterInstr, Justified, FoundOnlyIn
  <2>5. QED BY <2>1, <2>2, <2>3, <2>4 DEF Next, Finished
<1>3. QED BY <1>1, <1>2, Invariant, PTL DEF Spec, PathInv

\* At the end, the points at which a register is found are closed upstream.
FoundPoints(r) ==
  {p \in Points(fn) : IF p \in Inst(fn) THEN r \in insLiveBefore[p]
                      ELSE r \in liveAfter[p[1]]}

\* What is found at the first point of a block is found for the block.
LEMMA FoundAtStart ==
  ASSUME IInv, InstrWithinBlock, Done, NEW r \in Reg,
         NEW b \in Block, <<b, 1>> \in FoundPoints(r)
  PROVE  r \in liveBefore[b]
<1> DEFINE n == Len(fn.code[b])
<1>1. /\ fn \in MachineFunction
      /\ n \in Nat
      /\ DOMAIN fn.code[b] = 1 .. n
      /\ left[b] = 0
  BY CurrentFn DEF IInv, TypeOK, Done
<1>2. CASE n = 0
  <2>1. <<b, 1>> \notin Inst(fn)
    BY <1>1, <1>2, PointPlace
  <2>2. r \in liveAfter[b]
    BY <2>1 DEF FoundPoints
  <2>3. liveVarsKill(b) = {}
    BY <1>1, <1>2 DEF liveVarsKill, getAllDefs
  <2>4. QED BY <2>2, <2>3 DEF IInv, OffWorklistSolved, Done, computeLiveBefore
<1>3. CASE n # 0
  <2>1. 1 \in 1 .. n /\ 1 > left[b]
    BY <1>1, <1>3
  <2>2. <<b, 1>> \in Inst(fn)
    BY <1>1, <2>1, PointPlace
  <2>3. <<b, 1>> \in DOMAIN insLiveBefore
    BY <2>1, <2>2 DEF IInv, TypeOK
  <2>4. QED BY <2>2, <2>3 DEF FoundPoints, InstrWithinBlock
<1>4. QED BY <1>2, <1>3

LEMMA FoundIsClosed ==
  ASSUME IInv, InstrWithinBlock, InstrsSolved, Done, NEW r \in Reg
  PROVE  ClosedUpstream(fn, r, FoundPoints(r))
<1> SUFFICES ASSUME NEW p \in Points(fn),
                    \/ Uses(fn, p, r)
                    \/ ~ Defines(fn, p, r) /\ After(fn, p) \cap FoundPoints(r) # {}
             PROVE  p \in FoundPoints(r)
  BY DEF ClosedUpstream
<1>1. fn \in MachineFunction
  BY CurrentFn DEF IInv, TypeOK
<1>2. PICK b \in Block : p \in {b} \X (1 .. Len(fn.code[b]) + 1)
  BY DEF Points
<1>3. PICK k \in 1 .. Len(fn.code[b]) + 1 : p = <<b, k>>
  BY <1>2
<1> DEFINE n == Len(fn.code[b])
<1>4. /\ n \in Nat
      /\ DOMAIN fn.code[b] = 1 .. n
      /\ left[b] = 0
  BY CurrentFn DEF IInv, TypeOK, Done
<1>5. CASE k \in 1 .. n
  <2>1. p \in Inst(fn) /\ After(fn, p) = {<<b, k + 1>>}
    BY <1>1, <1>3, <1>5, PointPlace
  <2>2. Solved(b, k)
    BY <1>4, <1>5 DEF InstrsSolved
  <2>3. CASE Uses(fn, p, r)
    <3>1. r \in getOneInstrRegUses(fn.code[b][k])
      BY <1>3, <2>3 DEF Uses, At, getOneInstrRegUses
    <3>2. r \in insLiveBefore[p]
      BY <1>3, <2>2, <3>1 DEF Solved
    <3>3. QED BY <2>1, <3>2 DEF FoundPoints
  <2>4. CASE ~ Defines(fn, p, r) /\ After(fn, p) \cap FoundPoints(r) # {}
    <3>1. r \notin getOneInstrRegDefs(fn.code[b][k])
      BY <1>3, <2>1, <2>4 DEF Defines, At, getOneInstrRegDefs
    <3>2. <<b, k + 1>> \in FoundPoints(r)
      BY <2>1, <2>4
    <3>3. r \in AfterInstr(b, k)
      <4>1. CASE k = n
        <5>1. n + 1 \notin 1 .. n
          BY <1>4
        <5>2. <<b, k + 1>> \notin Inst(fn)
          BY <1>1, <4>1, <5>1, PointPlace
        <5>3. QED BY <3>2, <4>1, <5>2 DEF FoundPoints, AfterInstr
      <4>2. CASE k # n
        <5>1. k + 1 \in 1 .. n
          BY <1>4, <1>5, <4>2
        <5>2. <<b, k + 1>> \in Inst(fn)
          BY <1>1, <5>1, PointPlace
        <5>3. QED BY <3>2, <4>2, <5>2 DEF FoundPoints, AfterInstr
      <4>3. QED BY <4>1, <4>2
    <3>4. r \in insLiveBefore[p]
      BY <1>3, <2>2, <3>1, <3>3 DEF Solved
    <3>5. QED BY <2>1, <3>4 DEF FoundPoints
  <2>5. QED BY <2>3, <2>4
<1>6. CASE k = n + 1
  <2>1. n + 1 \notin 1 .. n
    BY <1>4
  <2>2. p \notin Inst(fn) /\ After(fn, p) = fn.succ[b] \X {1}
    BY <1>1, <1>3, <1>6, <2>1, PointPlace
  <2>3. PICK s \in fn.succ[b] : <<s, 1>> \in FoundPoints(r)
    BY <2>2 DEF Uses
  <2>4. s \in Block
    BY CurrentFn DEF IInv, TypeOK
  <2>5. r \in liveBefore[s]
    BY <2>3, <2>4, FoundAtStart
  <2>6. r \in liveAfter[b]
    BY <2>5 DEF IInv, OffWorklistSolved, Done, computeLiveAfter
  <2>7. QED BY <1>3, <2>2, <2>6 DEF FoundPoints
<1>7. QED BY <1>3, <1>4, <1>5, <1>6

\* Every register that some path goes on to use unmodified is found, at blocks
\* and at instructions, whatever the function and however registers overlap.
THEOREM LiveIsFoundCorrect == Spec => []LiveIsFound
<1>1. PathInv /\ InstrWithinBlock => LiveIsFound
  <2> SUFFICES ASSUME PathInv, InstrWithinBlock, Done, NEW r \in Reg,
                      NEW p \in LivePoints(fn, r)
               PROVE  /\ p[2] = 1 => r \in liveBefore[p[1]]
                      /\ p \in Inst(fn) => r \in insLiveBefore[p]
    BY DEF LiveIsFound
  <2>1. FoundPoints(r) \in SUBSET Points(fn)
    BY DEF FoundPoints
  <2>2. p \in FoundPoints(r)
    BY <2>1, FoundIsClosed, LivePointsLeast DEF PathInv
  <2>3. p[1] \in Block /\ p = <<p[1], p[2]>>
    BY <2>1, <2>2, CurrentFn, PointParts DEF PathInv, IInv, TypeOK
  <2>4. p[2] = 1 => r \in liveBefore[p[1]]
    BY <2>2, <2>3, FoundAtStart DEF PathInv
  <2>5. QED BY <2>2, <2>4 DEF FoundPoints
<1>2. QED BY <1>1, PathInvariant, InstrWithinBlockCorrect, PTL

\* Nothing else is found of a virtual register: it is in no set of a place from
\* which no path goes on to use it.
THEOREM FoundIsLiveCorrect == Spec => []FoundIsLive
<1>1. PathInv => FoundIsLive
  <2> SUFFICES ASSUME PathInv, Done, NEW r \in VReg
               PROVE  /\ \A b \in Block :
                           r \in liveBefore[b] => <<b, 1>> \in LivePoints(fn, r)
                      /\ \A i \in Inst(fn) :
                           r \in insLiveBefore[i] => i \in LivePoints(fn, r)
    BY DEF FoundIsLive
  <2>1. fn \in MachineFunction
    BY CurrentFn DEF PathInv, IInv, TypeOK
  <2>2. \A b \in Block : <<b, 1>> \in Points(fn)
    <3>1. \A b \in Block : 1 \in 1 .. Len(fn.code[b]) + 1
      BY <2>1, PointPlace
    <3>2. QED BY <2>1, <3>1, PointPlace
  <2>3. \A i \in Inst(fn) : i \in Points(fn) /\ i \in DOMAIN insLiveBefore
    <3> SUFFICES ASSUME NEW i \in Inst(fn)
                 PROVE  i \in Points(fn) /\ i \in DOMAIN insLiveBefore
      OBVIOUS
    <3>1. /\ i[1] \in Block /\ i = <<i[1], i[2]>>
          /\ i[2] \in Nat /\ <<i[1], i[2]>> \in Inst(fn)
      BY <2>1, InstPlace
    <3>2. Len(fn.code[i[1]]) \in Nat /\ i[2] \in 1 .. Len(fn.code[i[1]])
      BY <2>1, <3>1, PointPlace
    <3>3. i[2] \in 1 .. Len(fn.code[i[1]]) + 1 /\ i[2] > 0
      BY <3>2
    <3>4. i \in Points(fn)
      <4>1. <<i[1], i[2]>> \in Points(fn)
        BY <2>1, <3>1, <3>3, PointPlace
      <4>2. QED BY <3>1, <4>1
    <3>5. left[i[1]] = 0
      BY <3>1 DEF Done
    <3>6. i[2] > left[i[1]]
      BY <3>3, <3>5
    <3>7. QED BY <3>4, <3>6 DEF PathInv, IInv, TypeOK
  <2>4. ASSUME NEW S \in SUBSET Points(fn), ClosedUpstream(fn, r, S)
        PROVE  FoundOnlyIn(r, S)
    BY <2>4 DEF PathInv, Justified
  <2>5. QED BY <2>2, <2>3, <2>4 DEF LivePoints, FoundOnlyIn
<1>2. QED BY <1>1, PathInvariant, PTL

=============================================================================
