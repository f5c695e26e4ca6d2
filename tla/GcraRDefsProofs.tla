-------------------------- MODULE GcraRDefsProofs --------------------------
(***************************************************************************)
(* The reaching-definitions analysis is type correct, keeps the worklist   *)
(* honest and implements Dataflow, facts being objects.  The argument is   *)
(* that of GcraLiveProofs; what is new is that the facts that flow are     *)
(* drawn from a finite set although there are infinitely many objects,     *)
(* without which sizes would say nothing.                                  *)
(***************************************************************************)
EXTENDS GcraRDefs, FiniteSetTheorems, WellFoundedInduction, TLAPS

Places == {"doInit", "block", "instr"}

\* The objects that can be made for a function.
FnFacts(f) ==
  {new(x[1][1], x[1][2], x[2]) : x \in (Reg \X Inst(f)) \X Places}

\* The value the equations of block b give its RDafter set.
Flow(b) == computeRDafter(b, computeRDbefore(b))

\* "It can only get bigger": the analysis never overshoots an equation.
Ascending == \A b \in Block : RDafter[b] \subseteq Flow(b)

-----------------------------------------------------------------------------
(***************************************************************************)
(* Machine functions, and points in them.                                  *)
(***************************************************************************)

\* The aliases of registers are registers.
LEMMA AliasesAreRegs ==
  ASSUME NEW R \in SUBSET Reg
  PROVE  addAliases(R) \in SUBSET Reg
BY RegAssumption DEF addAliases

\* Instructions, and what they use and define, are well typed.
LEMMA InstrType ==
  ASSUME NEW f \in MachineFunction, NEW b \in Block,
         NEW k \in DOMAIN f.code[b]
  PROVE  /\ f.code[b][k] \in Instr
         /\ f.code[b][k].uses \in SUBSET Reg
         /\ f.code[b][k].defs \in SUBSET Reg
         /\ getOneInstrRegUses(f.code[b][k]) \in SUBSET Reg
         /\ getOneInstrRegDefs(f.code[b][k]) \in SUBSET Reg
<1>1. f.code[b] \in Seq(Instr)
  BY DEF MachineFunction
<1>2. f.code[b][k] \in Instr
  BY <1>1
<1>3. /\ f.code[b][k].uses \in SUBSET Reg
      /\ f.code[b][k].defs \in SUBSET Reg
  BY <1>2 DEF Instr
<1>4. QED
  BY <1>2, <1>3, AliasesAreRegs DEF getOneInstrRegUses, getOneInstrRegDefs

\* A function has finitely many instructions.
LEMMA InstFinite ==
  ASSUME NEW f \in MachineFunction
  PROVE  IsFiniteSet(Inst(f))
<1> DEFINE Of(b) == {b} \X (DOMAIN f.code[b])
           S == {Of(b) : b \in Block}
           g == [b \in Block |-> Of(b)]
<1>1. g \in Surjection(Block, S)
  BY DEF Surjection
<1>2. IsFiniteSet(S)
  BY <1>1, BlockAssumption, FS_Surjection
<1>3. \A b \in Block : IsFiniteSet(Of(b))
  <2> SUFFICES ASSUME NEW b \in Block PROVE IsFiniteSet(Of(b))
    OBVIOUS
  <2>1. f.code[b] \in Seq(Instr)
    BY DEF MachineFunction
  <2>2. Len(f.code[b]) \in Nat /\ DOMAIN f.code[b] = 1 .. Len(f.code[b])
    BY <2>1
  <2>3. IsFiniteSet(DOMAIN f.code[b])
    BY <2>2, FS_Interval
  <2>4. IsFiniteSet({b})
    BY FS_Singleton
  <2>5. QED BY <2>3, <2>4, FS_Product
<1>4. \A T \in S : IsFiniteSet(T)
  BY <1>3
<1> HIDE DEF S
<1>5. IsFiniteSet(UNION S)
  BY <1>2, <1>4, FS_UNION
<1>6. QED BY <1>5 DEF S, Inst

\* Instructions are where they say they are.
LEMMA InstPlace ==
  ASSUME NEW f \in MachineFunction, NEW i \in Inst(f)
  PROVE  /\ i[1] \in Block
         /\ i[2] \in DOMAIN f.code[i[1]]
         /\ i[2] \in Nat
         /\ i = <<i[1], i[2]>>
<1>1. PICK b \in Block : i \in {b} \X (DOMAIN f.code[b])
  BY DEF Inst
<1>2. f.code[b] \in Seq(Instr)
  BY DEF MachineFunction
<1>3. QED BY <1>1, <1>2

\* Induction, in a form the provers can use.
LEMMA LeastNumber ==
  ASSUME NEW T \in SUBSET Nat, T # {}
  PROVE  \E m \in T : \A n \in T : m <= n
<1> DEFINE R == {ss \in Nat \X Nat : ss[1] < ss[2]}
<1>1. IsWellFoundedOn(R, Nat)
  BY NatLessThanWellFounded DEF OpToRel
<1>2. PICK m \in T : \A n \in T : <<n, m>> \notin R
  BY <1>1, WFMin
<1>3. ASSUME NEW n \in T PROVE m <= n
  <2>1. <<n, m>> \in Nat \X Nat /\ ~ (n < m)
    BY <1>2
  <2>2. QED BY <2>1
<1>4. QED BY <1>3

\* Where points are, and what comes after them.
LEMMA PointPlace ==
  ASSUME NEW f \in MachineFunction, NEW b \in Block
  PROVE  /\ Len(f.code[b]) \in Nat
         /\ \A k : <<b, k>> \in Points(f) <=> k \in 1 .. Len(f.code[b]) + 1
         /\ \A k : <<b, k>> \in Inst(f) <=> k \in 1 .. Len(f.code[b])
         /\ \A k \in 1 .. Len(f.code[b]) : After(f, <<b, k>>) = {<<b, k + 1>>}
         /\ After(f, <<b, Len(f.code[b]) + 1>>) = f.succ[b] \X {1}
<1> DEFINE n == Len(f.code[b])
<1>1. f.code[b] \in Seq(Instr)
  BY DEF MachineFunction
<1>2. n \in Nat /\ DOMAIN f.code[b] = 1 .. n
  BY <1>1
<1>3. \A k : <<b, k>> \in Points(f) <=> k \in 1 .. n + 1
  BY DEF Points
<1>4. \A k : <<b, k>> \in Inst(f) <=> k \in 1 .. n
  BY <1>2 DEF Inst
<1> HIDE DEF n
<1>5. n + 1 \notin 1 .. n
  BY <1>2
<1>6. QED BY <1>2, <1>3, <1>4, <1>5 DEF After, n

LEMMA PointParts ==
  ASSUME NEW f \in MachineFunction, NEW p \in Points(f)
  PROVE  /\ p[1] \in Block
         /\ p[2] \in 1 .. Len(f.code[p[1]]) + 1
         /\ p = <<p[1], p[2]>>
BY DEF Points

\* Control that gets to a point of a block gets to the end of the block.
LEMMA DownTheBlock ==
  ASSUME NEW f \in MachineFunction, NEW b \in Block,
         NEW S \in SUBSET Points(f), \A p \in S : After(f, p) \subseteq S,
         NEW k \in 1 .. Len(f.code[b]) + 1, <<b, k>> \in S
  PROVE  <<b, Len(f.code[b]) + 1>> \in S
<1> DEFINE n == Len(f.code[b])
           T == {j \in 0 .. n : <<b, n + 1 - j>> \in S}
<1>1. n \in Nat /\ \A j \in 1 .. n : After(f, <<b, j>>) = {<<b, j + 1>>}
  BY PointPlace
<1>2. n + 1 - k \in T
  <2>1. n + 1 - k \in 0 .. n /\ n + 1 - (n + 1 - k) = k
    BY <1>1
  <2>2. QED BY <2>1
<1>3. PICK m \in T : \A j \in T : m <= j
  <2>1. T \subseteq 0 .. n
    OBVIOUS
  <2> HIDE DEF T, n
  <2>2. 0 .. n \subseteq Nat
    BY <1>1
  <2>3. QED BY <1>2, <2>1, <2>2, LeastNumber
<1>4. ASSUME m # 0 PROVE FALSE
  <2>1. /\ n + 1 - m \in 1 .. n
        /\ (n + 1 - m) + 1 = n + 1 - (m - 1)
        /\ m - 1 \in 0 .. n
    BY <1>1, <1>3, <1>4
  <2>2. After(f, <<b, n + 1 - m>>) = {<<b, n + 1 - (m - 1)>>}
    BY <1>1, <2>1
  <2>3. m - 1 \in T
    BY <1>3, <2>1, <2>2
  <2>4. m - 1 < m
    BY <2>1
  <2>5. QED BY <1>3, <2>1, <2>3, <2>4
<1>5. n + 1 - 0 = n + 1
  BY <1>1
<1>6. QED BY <1>3, <1>4, <1>5

\* So does Downstream in every set closed under going on.
LEMMA DownstreamLeast ==
  ASSUME NEW f, NEW i, NEW stops, NEW S \in SUBSET Points(f),
         ClosedDownstream(f, i, stops, S)
  PROVE  Downstream(f, i, stops) \subseteq S
BY DEF Downstream

-----------------------------------------------------------------------------

LEMMA FnFactsFinite ==
  ASSUME NEW f \in MachineFunction
  PROVE  IsFiniteSet(FnFacts(f))
<1> DEFINE D == (Reg \X Inst(f)) \X Places
           g == [x \in D |-> new(x[1][1], x[1][2], x[2])]
<1>1. IsFiniteSet(Places)
  <2>1. Places = ({"doInit"} \cup {"block"}) \cup {"instr"}
    BY DEF Places
  <2>2. QED BY <2>1, FS_Singleton, FS_Union
<1>2. IsFiniteSet(Reg \X Inst(f))
  BY InstFinite, RegAssumption, FS_Product
<1>3. IsFiniteSet(D)
  BY <1>1, <1>2, FS_Product
<1>4. g \in Surjection(D, FnFacts(f))
  BY DEF Surjection, FnFacts
<1>5. QED BY <1>3, <1>4, FS_Surjection

\* What is made for an instruction is an object of the function.
LEMMA FactsOfType ==
  ASSUME NEW f \in MachineFunction, NEW i \in Inst(f), NEW place \in Places
  PROVE  FactsOf(f, i, place) \subseteq FnFacts(f)
<1> SUFFICES ASSUME NEW r \in getOneInstrRegDefs(At(f, i))
             PROVE  new(r, i, place) \in FnFacts(f)
  BY DEF FactsOf
<1>1. r \in Reg
  BY InstPlace, InstrType DEF At
<1>2. <<<<r, i>>, place>> \in (Reg \X Inst(f)) \X Places
  BY <1>1
<1>3. QED BY <1>2 DEF FnFacts

LEMMA FnFactsType ==
  ASSUME NEW f \in MachineFunction
  PROVE  FnFacts(f) \subseteq RDfact
<1> SUFFICES ASSUME NEW r \in Reg, NEW i \in Inst(f), NEW place \in Places
             PROVE  new(r, i, place) \in RDfact
  BY DEF FnFacts
<1>1. i \in Block \X Nat
  BY InstPlace
<1>2. QED BY <1>1 DEF new, RDfact, Places

LEMMA DoInitType ==
  ASSUME NEW f \in MachineFunction
  PROVE  doInit(f) \subseteq FnFacts(f)
<1>1. \A i \in Inst(f) : FactsOf(f, i, "doInit") \subseteq FnFacts(f)
  BY FactsOfType DEF Places
<1>2. QED BY <1>1 DEF doInit

\* doInit makes an object for every definition, and for nothing else.
LEMMA DoInitExact ==
  ASSUME NEW f \in MachineFunction
  PROVE  Says(doInit(f)) = {d \in Reg \X Inst(f) : Defines(f, d[2], d[1])}
<1>1. \A i \in Inst(f) : getOneInstrRegDefs(At(f, i)) \subseteq Reg
  BY InstPlace, InstrType DEF At
<1>2. \A d \in doInit(f) :
        /\ d.inst \in Inst(f)
        /\ d.reg \in getOneInstrRegDefs(At(f, d.inst))
  BY DEF doInit, FactsOf, new
<1>3. \A i \in Inst(f) : \A r \in getOneInstrRegDefs(At(f, i)) :
        \E d \in doInit(f) : d.reg = r /\ d.inst = i
  <2> SUFFICES ASSUME NEW i \in Inst(f), NEW r \in getOneInstrRegDefs(At(f, i))
               PROVE  \E d \in doInit(f) : d.reg = r /\ d.inst = i
    OBVIOUS
  <2>1. new(r, i, "doInit") \in doInit(f)
    BY DEF doInit, FactsOf
  <2>2. new(r, i, "doInit").reg = r /\ new(r, i, "doInit").inst = i
    BY DEF new
  <2>3. QED BY <2>1, <2>2
<1>4. \A i \in Inst(f) : \A r : Defines(f, i, r) <=> r \in getOneInstrRegDefs(At(f, i))
  BY DEF Defines, getOneInstrRegDefs
<1>5. ASSUME NEW d \in doInit(f)
      PROVE  /\ <<d.reg, d.inst>> \in Reg \X Inst(f)
             /\ Defines(f, d.inst, d.reg)
  BY <1>1, <1>2, <1>4
<1>6. ASSUME NEW r \in Reg, NEW i \in Inst(f), Defines(f, i, r)
      PROVE  <<r, i>> \in Says(doInit(f))
  <2>1. PICK d \in doInit(f) : d.reg = r /\ d.inst = i
    BY <1>3, <1>4, <1>6
  <2>2. QED BY <2>1 DEF Says
<1>7. QED BY <1>5, <1>6 DEF Says

\* The current function of a non-empty sequence is a function.
LEMMA CurrentFn ==
  ASSUME todo \in Seq(MachineFunction) \ {<< >>}
  PROVE  /\ fn \in MachineFunction
         /\ fn.succ \in [Block -> SUBSET Block]
         /\ fn.code \in [Block -> Seq(Instr)]
         /\ fn.addr \in [Block -> Nat]
<1>1. fn \in MachineFunction
  BY DEF fn
<1>2. QED BY <1>1 DEF MachineFunction

\* What the blocks hold is drawn from a finite set of objects.
FactsOfFn ==
  /\ RDfactSet = doInit(fn)
  /\ RDbefore \in [Block -> SUBSET FnFacts(fn)]
  /\ RDafter \in [Block -> SUBSET FnFacts(fn)]

TInv == TypeOK /\ FactsOfFn

LEMMA FlowType ==
  ASSUME TInv, NEW b \in Block
  PROVE  /\ computeRDbefore(b) \in SUBSET FnFacts(fn)
         /\ Flow(b) \in SUBSET FnFacts(fn)
<1>1. fn \in MachineFunction
  BY CurrentFn DEF TInv, TypeOK
<1>2. computeRDbefore(b) \in SUBSET FnFacts(fn)
  BY DEF computeRDbefore, pred, TInv, FactsOfFn
<1>3. getRDgen(b) \in SUBSET FnFacts(fn)
  <2>1. \A k \in DOMAIN fn.code[b] : <<b, k>> \in Inst(fn)
    BY DEF Inst
  <2>2. \A k \in DOMAIN fn.code[b] :
          FactsOf(fn, <<b, k>>, "block") \subseteq FnFacts(fn)
    BY <1>1, <2>1, FactsOfType DEF Places
  <2>3. QED BY <2>2 DEF getRDgen
<1>4. QED BY <1>2, <1>3 DEF Flow, computeRDafter

\* Sizes of nested sets of objects of one function tell whether they differ.
LEMMA ChangedMeansLarger ==
  ASSUME NEW f \in MachineFunction, NEW old \in SUBSET FnFacts(f),
         NEW newSet \in SUBSET FnFacts(f), old \subseteq newSet
  PROVE  Changed(newSet, old) <=> newSet # old
<1>1. IsFiniteSet(newSet) /\ IsFiniteSet(old)
  BY FnFactsFinite, FS_Subset
<1>2. Cardinality(newSet) \in Nat /\ Cardinality(old) \in Nat
  BY <1>1, FS_CardinalityType
<1>3. /\ Cardinality(old) <= Cardinality(newSet)
      /\ Cardinality(old) = Cardinality(newSet) => newSet = old
  BY <1>1, FS_Subset
<1>4. QED BY <1>2, <1>3 DEF Changed

-----------------------------------------------------------------------------
\* What a function starts with, be it the first of its module or a later one.
LEMMA StartType ==
  ASSUME NEW m \in Seq(MachineFunction), m # << >>
  PROVE  /\ \A b \in Block : Len(Head(m).code[b]) \in Nat
         /\ {i \in Inst(Head(m)) : i[2] <= NoneWalked[i[1]]} = {}
         /\ doInit(Head(m)) \subseteq RDfact
<1>1. Head(m) \in MachineFunction
  OBVIOUS
<1>2. \A b \in Block : Head(m).code[b] \in Seq(Instr)
  BY <1>1 DEF MachineFunction
<1>3. ASSUME NEW i \in Inst(Head(m)), i[2] <= NoneWalked[i[1]]
      PROVE  FALSE
  <2>1. i[1] \in Block /\ i[2] \in DOMAIN Head(m).code[i[1]]
    BY <1>1, InstPlace
  <2>2. NoneWalked[i[1]] = 0 /\ i[2] \in Nat /\ i[2] >= 1
    BY <1>2, <2>1 DEF NoneWalked
  <2>3. QED BY <1>3, <2>2
<1>4. doInit(Head(m)) \subseteq RDfact
  BY <1>1, DoInitType, FnFactsType
<1>5. QED BY <1>2, <1>3, <1>4

LEMMA TInvInit == Init => TInv
<1> SUFFICES ASSUME Init PROVE TInv
  OBVIOUS
<1>1. todo \in Seq(MachineFunction) \ {<< >>}
  BY ModulesAssumption DEF Init
<1>2. /\ \A b \in Block : Len(fn.code[b]) \in Nat
      /\ {i \in Inst(fn) : i[2] <= walked[i[1]]} = {}
      /\ RDfactSet \subseteq RDfact
  BY <1>1, StartType DEF Init, fn
<1>3. walked \in [Block -> Nat] /\ \A b \in Block : walked[b] <= Len(fn.code[b])
  BY <1>2 DEF Init, NoneWalked
<1>4. TypeOK
  BY <1>1, <1>2, <1>3 DEF Init, TypeOK, NoFacts, NoInstrs
<1>5. FactsOfFn
  BY DEF Init, FactsOfFn, NoFacts
<1>6. QED BY <1>4, <1>5 DEF TInv

LEMMA TInvNextFn == TypeOK /\ NextFn => TInv'
<1> SUFFICES ASSUME TypeOK, NextFn PROVE TInv'
  OBVIOUS
<1>1. todo' \in Seq(MachineFunction) \ {<< >>}
  <2>1. todo \in Seq(MachineFunction) /\ Len(todo) > 1 /\ todo' = Tail(todo)
    BY DEF TypeOK, NextFn
  <2>2. todo' \in Seq(MachineFunction) /\ Len(todo') = Len(todo) - 1
    BY <2>1
  <2>3. Len(todo') > 0
    BY <2>1, <2>2
  <2>4. QED BY <2>2, <2>3
<1>2. /\ RDfactSet' = doInit(fn')
      /\ walked' = NoneWalked
  BY DEF NextFn, ClearedSet, fn
<1>3. /\ \A b \in Block : Len(fn'.code[b]) \in Nat
      /\ {i \in Inst(fn') : i[2] <= walked'[i[1]]} = {}
      /\ RDfactSet' \subseteq RDfact
  BY <1>1, <1>2, StartType DEF fn
<1>4. walked' \in [Block -> Nat] /\ \A b \in Block : walked'[b] <= Len(fn'.code[b])
  BY <1>2, <1>3 DEF NoneWalked
<1>5. TypeOK'
  BY <1>1, <1>3, <1>4 DEF NextFn, TypeOK, NoFacts, NoInstrs, ClearedMap
<1>6. FactsOfFn'
  BY <1>2 DEF NextFn, FactsOfFn, NoFacts
<1>7. QED BY <1>5, <1>6 DEF TInv

LEMMA RDBlockType ==
  ASSUME TInv, NEW b \in Block, RDBlock(b)
  PROVE  TInv'
<1>1. fn \in MachineFunction /\ fn.succ \in [Block -> SUBSET Block]
  BY CurrentFn DEF TInv, TypeOK
<1>2. /\ fn' = fn
      /\ worklist' \subseteq Block
      /\ UNCHANGED <<todo, RDfactSet, walked, insRDbefore, insRDafter>>
  BY <1>1 DEF RDBlock, Requeued, fn, TInv, TypeOK
<1>3. /\ RDbefore' \in [Block -> SUBSET FnFacts(fn)]
      /\ RDafter' \in [Block -> SUBSET FnFacts(fn)]
  BY FlowType DEF RDBlock, Flow, TInv, FactsOfFn
<1>4. SUBSET FnFacts(fn) \subseteq SUBSET RDfact
  BY <1>1, FnFactsType
<1>5. /\ RDbefore' \in [Block -> SUBSET RDfact]
      /\ RDafter' \in [Block -> SUBSET RDfact]
  BY <1>3, <1>4
<1>6. TypeOK'
  BY <1>2, <1>5 DEF TInv, TypeOK
<1>7. FactsOfFn'
  BY <1>2, <1>3 DEF TInv, FactsOfFn
<1>8. QED BY <1>6, <1>7 DEF TInv

\* The next instruction of a block joins the domains of the instruction maps.
LEMMA RDInstrType ==
  ASSUME TInv, NEW b \in Block, RDInstr(b)
  PROVE  TInv'
<1> DEFINE w == walked[b] + 1
           i == <<b, w>>
<1>1. /\ fn \in MachineFunction
      /\ fn' = fn
      /\ DOMAIN fn.code[b] = 1 .. Len(fn.code[b])
      /\ walked[b] \in Nat
      /\ w \in DOMAIN fn.code[b]
  <2>1. fn \in MachineFunction /\ fn.code[b] \in Seq(Instr)
    BY CurrentFn DEF TInv, TypeOK
  <2>2. fn' = fn /\ walked[b] < Len(fn.code[b]) /\ walked[b] \in Nat
    BY DEF RDInstr, fn, TInv, TypeOK
  <2>3. QED BY <2>1, <2>2
<1>2. \A c \in Block : \A k : <<c, k>> \in Inst(fn) <=> k \in DOMAIN fn.code[c]
  BY DEF Inst
<1>3. walked' = [walked EXCEPT ![b] = w]
  BY DEF RDInstr
<1>4. /\ walked' \in [Block -> Nat]
      /\ \A c \in Block : walked'[c] <= Len(fn.code[c])
  BY <1>1, <1>3 DEF TInv, TypeOK
<1>5. {j \in Inst(fn) : j[2] <= walked'[j[1]]}
        = {j \in Inst(fn) : j[2] <= walked[j[1]]} \cup {i}
  <2>1. i \in Inst(fn)
    BY <1>1, <1>2
  <2>2. ASSUME NEW j \in Inst(fn)
        PROVE  j[2] <= walked'[j[1]] <=> j[2] <= walked[j[1]] \/ j = i
    <3>1. j[1] \in Block /\ j[2] \in Nat /\ j = <<j[1], j[2]>>
      BY <1>1, InstPlace
    <3>2. CASE j[1] = b
      <4>1. walked'[b] = w
        BY <1>3 DEF TInv, TypeOK
      <4>2. j[2] <= w <=> j[2] <= walked[b] \/ j[2] = w
        BY <1>1, <3>1
      <4>3. j = i <=> j[2] = w
        BY <3>1, <3>2
      <4>4. QED BY <3>2, <4>1, <4>2, <4>3
    <3>3. CASE j[1] # b
      <4>1. walked'[j[1]] = walked[j[1]]
        BY <1>3, <3>1, <3>3 DEF TInv, TypeOK
      <4>2. QED BY <3>3, <4>1
    <3>4. QED BY <3>2, <3>3
  <2>3. QED BY <2>1, <2>2
<1> DEFINE before == IF walked[b] = 0 THEN RDbefore[b]
                     ELSE insRDafter[<<b, walked[b]>>]
           gen == FactsOf(fn, i, "instr")
           kill == Matching(RDfactSet, getOneInstrRegDefs(At(fn, i)))
           after == (before \ kill) \cup gen
<1>6. before \in SUBSET RDfact
  <2>1. CASE walked[b] = 0
    BY <2>1 DEF TInv, TypeOK
  <2>2. CASE walked[b] # 0
    <3>1. walked[b] \in DOMAIN fn.code[b]
      BY <1>1, <2>2
    <3>2. <<b, walked[b]>> \in DOMAIN insRDafter
      BY <1>1, <1>2, <3>1 DEF TInv, TypeOK
    <3>3. QED BY <2>2, <3>2 DEF TInv, TypeOK
  <2>3. QED BY <2>1, <2>2
<1>7. after \in SUBSET RDfact
  <2>1. i \in Inst(fn)
    BY <1>1, <1>2
  <2>2. gen \subseteq RDfact
    BY <1>1, <2>1, FactsOfType, FnFactsType DEF Places
  <2>3. QED BY <1>6, <2>2
<1>8. /\ insRDbefore' = Put(insRDbefore, i, before)
      /\ insRDafter' = Put(insRDafter, i, after)
      /\ UNCHANGED <<todo, RDfactSet, worklist, RDbefore, RDafter>>
  BY DEF RDInstr
<1> HIDE DEF before, after, i
<1>9. /\ DOMAIN insRDbefore' = DOMAIN insRDbefore \cup {i}
      /\ DOMAIN insRDafter' = DOMAIN insRDafter \cup {i}
      /\ \A j \in DOMAIN insRDbefore' :
           insRDbefore'[j] \in SUBSET RDfact /\ insRDafter'[j] \in SUBSET RDfact
  BY <1>6, <1>7, <1>8 DEF Put, TInv, TypeOK
<1>10. TypeOK'
  BY <1>1, <1>4, <1>5, <1>8, <1>9 DEF TInv, TypeOK
<1>11. FactsOfFn'
  BY <1>1, <1>8 DEF TInv, FactsOfFn
<1>12. QED BY <1>10, <1>11 DEF TInv

LEMMA TInvStep == TInv /\ [Next]_vars => TInv'
<1> SUFFICES ASSUME TInv, [Next]_vars PROVE TInv'
  OBVIOUS
<1>1. ASSUME NEW b \in Block, RDBlock(b) PROVE TInv'
  BY <1>1, RDBlockType
<1>2. ASSUME NEW b \in Block, RDInstr(b) PROVE TInv'
  BY <1>2, RDInstrType
<1>3. CASE NextFn
  BY <1>3, TInvNextFn DEF TInv
<1>4. CASE UNCHANGED vars
  BY <1>4 DEF TInv, TypeOK, FactsOfFn, vars, fn
<1>5. QED BY <1>1, <1>2, <1>3, <1>4 DEF Next, Finished

LEMMA TypeInvariant == Spec => []TInv
BY TInvInit, TInvStep, PTL DEF Spec

\* Every reachable state is well typed; the instruction maps cover exactly the
\* instructions iterated over.
THEOREM TypeCorrect == Spec => []TypeOK
<1>1. TInv => TypeOK
  BY DEF TInv
<1>2. QED BY <1>1, TypeInvariant, PTL

\* The facts kill sets are picked from are those of the current function, all
\* of them and no other function's.
THEOREM FactSetCorrect == Spec => []FactSetExact
<1>1. TInv => FactSetExact
  <2> SUFFICES ASSUME TInv PROVE FactSetExact
    OBVIOUS
  <2>1. fn \in MachineFunction
    BY CurrentFn DEF TInv, TypeOK
  <2>2. QED BY <2>1, DoInitExact DEF FactSetExact, TInv, FactsOfFn
<1>2. QED BY <1>1, TypeInvariant, PTL

-----------------------------------------------------------------------------
(***************************************************************************)
(* The inductive invariant: as for live variables, a size that stays the   *)
(* same means a set that stays the same only while the sets ascend.        *)
(***************************************************************************)
IInv == TInv /\ Ascending /\ OffWorklistSolved

\* What one iteration of the worklist loop does, with sizes out of the way.
LEMMA RDBlockEffect ==
  ASSUME IInv, NEW b \in Block, RDBlock(b)
  PROVE  /\ UNCHANGED <<todo, RDfactSet, walked, insRDbefore, insRDafter>>
         /\ b \in worklist
         /\ RDafter' = [RDafter EXCEPT ![b] = Flow(b)]
         /\ RDbefore' = [RDbefore EXCEPT ![b] = computeRDbefore(b)]
         /\ RDafter[b] \subseteq Flow(b)
         /\ \/ Flow(b) # RDafter[b] /\ worklist' = (worklist \ {b}) \cup fn.succ[b]
            \/ Flow(b) = RDafter[b] /\ worklist' = worklist \ {b}
<1>1. /\ fn \in MachineFunction
      /\ RDafter[b] \in SUBSET FnFacts(fn)
      /\ Flow(b) \in SUBSET FnFacts(fn)
      /\ RDafter[b] \subseteq Flow(b)
  BY FlowType, CurrentFn DEF IInv, TInv, TypeOK, FactsOfFn, Ascending
<1>2. Changed(Flow(b), RDafter[b]) <=> Flow(b) # RDafter[b]
  BY <1>1, ChangedMeansLarger
<1>3. RDafter = [RDafter EXCEPT ![b] = RDafter[b]]
  BY DEF IInv, TInv, TypeOK
<1>4. QED BY <1>1, <1>2, <1>3 DEF RDBlock, Flow, First, Requeued

\* gen and kill change with the function only.
LEMMA GenKillFixed ==
  ASSUME UNCHANGED <<todo, RDfactSet>>, NEW c \in Block
  PROVE  /\ fn' = fn
         /\ getRDgen(c)' = getRDgen(c)
         /\ getRDkill(c)' = getRDkill(c)
<1>1. fn' = fn
  BY DEF fn
<1>2. getRDgen(c)' = getRDgen(c)
  BY <1>1 DEF getRDgen
<1>3. getRDkill(c)' = getRDkill(c)
  BY <1>1 DEF getRDkill, DefsIn
<1>4. QED BY <1>1, <1>2, <1>3

\* The equations of a block read only the sets of its predecessors.
LEMMA FlowDepends ==
  ASSUME IInv, NEW b \in Block, RDBlock(b), NEW c \in Block
  PROVE  /\ c \notin fn.succ[b] =>
              computeRDbefore(c)' = computeRDbefore(c) /\ Flow(c)' = Flow(c)
         /\ computeRDbefore(c) \subseteq computeRDbefore(c)'
         /\ Flow(c) \subseteq Flow(c)'
<1>1. /\ fn' = fn
      /\ getRDgen(c)' = getRDgen(c)
      /\ getRDkill(c)' = getRDkill(c)
  BY RDBlockEffect, GenKillFixed
<1>2. /\ \A d \in Block : RDafter[d] \subseteq RDafter'[d]
      /\ \A d \in Block \ {b} : RDafter'[d] = RDafter[d]
  <2>1. /\ RDafter \in [Block -> SUBSET RDfact]
        /\ RDafter' = [RDafter EXCEPT ![b] = Flow(b)]
        /\ RDafter[b] \subseteq Flow(b)
    BY RDBlockEffect DEF IInv, TInv, TypeOK
  <2>2. QED BY <2>1
<1>3. computeRDbefore(c) \subseteq computeRDbefore(c)'
  BY <1>1, <1>2 DEF computeRDbefore, pred
<1>4. c \notin fn.succ[b] => computeRDbefore(c)' = computeRDbefore(c)
  BY <1>1, <1>2 DEF computeRDbefore, pred
<1>5. QED BY <1>1, <1>3, <1>4 DEF Flow, computeRDafter

LEMMA RDBlockInv ==
  ASSUME IInv, NEW b \in Block, RDBlock(b)
  PROVE  Ascending' /\ OffWorklistSolved'
<1>1. ASSUME NEW c \in Block PROVE RDafter'[c] \subseteq Flow(c)'
  <2>1. RDafter'[c] \subseteq Flow(c)
    BY RDBlockEffect DEF IInv, TInv, TypeOK, Ascending
  <2>2. QED BY <2>1, FlowDepends
<1>2. ASSUME NEW c \in Block \ worklist'
      PROVE  /\ RDbefore'[c] = computeRDbefore(c)'
             /\ RDafter'[c] = Flow(c)'
  <2>1. /\ RDbefore'[c] = computeRDbefore(c)
        /\ RDafter'[c] = Flow(c)
    <3>1. CASE c = b
      BY <3>1, RDBlockEffect DEF IInv, TInv, TypeOK
    <3>2. CASE c # b
      <4>1. c \notin worklist
        BY <3>2, RDBlockEffect
      <4>2. RDbefore'[c] = RDbefore[c] /\ RDafter'[c] = RDafter[c]
        BY <3>2, RDBlockEffect DEF IInv, TInv, TypeOK
      <4>3. QED BY <4>1, <4>2 DEF IInv, OffWorklistSolved, Flow
    <3>3. QED BY <3>1, <3>2
  <2>2. CASE Flow(b) # RDafter[b]
    <3>1. c \notin fn.succ[b]
      BY <2>2, RDBlockEffect
    <3>2. QED BY <2>1, <3>1, FlowDepends
  <2>3. CASE Flow(b) = RDafter[b]
    <3>1. UNCHANGED RDafter
      BY <2>3, RDBlockEffect DEF IInv, TInv, TypeOK
    <3>2. /\ fn' = fn
          /\ getRDgen(c)' = getRDgen(c)
          /\ getRDkill(c)' = getRDkill(c)
      BY RDBlockEffect, GenKillFixed
    <3>3. computeRDbefore(c)' = computeRDbefore(c)
      BY <3>1, <3>2 DEF computeRDbefore
    <3>4. Flow(c)' = Flow(c)
      BY <3>2, <3>3 DEF Flow, computeRDafter
    <3>5. QED BY <2>1, <3>3, <3>4
  <2>4. QED BY <2>2, <2>3
<1>3. Ascending'
  BY <1>1 DEF Ascending
<1>4. OffWorklistSolved'
  BY <1>2 DEF OffWorklistSolved, Flow, computeRDafter
<1>5. QED BY <1>3, <1>4

\* A step that touches no block set and no function keeps both facts.
LEMMA UntouchedInv ==
  ASSUME IInv, UNCHANGED <<todo, RDfactSet, worklist, RDbefore, RDafter>>
  PROVE  Ascending' /\ OffWorklistSolved'
<1>1. \A c \in Block : /\ computeRDbefore(c)' = computeRDbefore(c)
                      /\ Flow(c)' = Flow(c)
  <2> SUFFICES ASSUME NEW c \in Block
               PROVE  /\ computeRDbefore(c)' = computeRDbefore(c)
                      /\ Flow(c)' = Flow(c)
    OBVIOUS
  <2>1. /\ fn' = fn
        /\ getRDgen(c)' = getRDgen(c)
        /\ getRDkill(c)' = getRDkill(c)
    BY GenKillFixed
  <2>2. computeRDbefore(c)' = computeRDbefore(c)
    BY <2>1 DEF computeRDbefore
  <2>3. QED BY <2>1, <2>2 DEF Flow, computeRDafter
<1>2. Ascending'
  BY <1>1 DEF IInv, Ascending
<1>3. \A c \in Block \ worklist' : RDbefore'[c] = computeRDbefore(c)' /\ RDafter'[c] = Flow(c)'
  BY <1>1 DEF IInv, OffWorklistSolved, Flow
<1>4. OffWorklistSolved'
  BY <1>3 DEF OffWorklistSolved, Flow, computeRDafter
<1>5. QED BY <1>2, <1>4

LEMMA IInvInit == Init => IInv
<1> SUFFICES ASSUME Init PROVE Ascending /\ OffWorklistSolved
  BY TInvInit DEF IInv
<1>1. Ascending
  BY DEF Init, Ascending, NoFacts
<1>2. OffWorklistSolved
  BY DEF Init, OffWorklistSolved
<1>3. QED BY <1>1, <1>2

LEMMA IInvStep == IInv /\ [Next]_vars => IInv'
<1> SUFFICES ASSUME IInv, [Next]_vars PROVE Ascending' /\ OffWorklistSolved'
  BY TInvStep DEF IInv
<1>1. ASSUME NEW b \in Block, RDBlock(b) PROVE Ascending' /\ OffWorklistSolved'
  BY <1>1, RDBlockInv
<1>2. ASSUME NEW b \in Block, RDInstr(b) PROVE Ascending' /\ OffWorklistSolved'
  BY <1>2, UntouchedInv DEF RDInstr
<1>3. ASSUME NextFn PROVE Ascending' /\ OffWorklistSolved'
  <2>1. RDafter' = NoFacts /\ worklist' = Block
    BY <1>3 DEF NextFn
  <2>2. QED BY <2>1 DEF Ascending, OffWorklistSolved, NoFacts
<1>4. CASE UNCHANGED vars
  BY <1>4, UntouchedInv DEF vars
<1>5. QED BY <1>1, <1>2, <1>3, <1>4 DEF Next, Finished

LEMMA Invariant == Spec => []IInv
BY IInvInit, IInvStep, PTL DEF Spec

\* No block is left off the worklist with equations that do not hold.
THEOREM OffWorklistCorrect == Spec => []OffWorklistSolved
<1>1. IInv => OffWorklistSolved
  BY DEF IInv
<1>2. QED BY <1>1, Invariant, PTL

-----------------------------------------------------------------------------
(***************************************************************************)
(* Implementation of Dataflow.                                             *)
(***************************************************************************)
LEMMA AbstractProblem ==
  ASSUME TInv
  PROVE  [dep |-> [b \in Block |-> pred(fn, b)],
          gen |-> [b \in Block |-> getRDgen(b)],
          kill |-> [b \in Block |-> getRDkill(b)]] \in DF!Problem
<1>1. \A b \in Block : pred(fn, b) \in SUBSET Block
  BY DEF pred
<1>2. \A b \in Block : getRDkill(b) \in SUBSET RDfact
  BY DEF getRDkill, Matching, TInv, TypeOK
<1>3. \A b \in Block : getRDgen(b) \in SUBSET RDfact
  <2> SUFFICES ASSUME NEW b \in Block, NEW k \in DOMAIN fn.code[b]
               PROVE  FactsOf(fn, <<b, k>>, "block") \subseteq RDfact
    BY DEF getRDgen
  <2>1. <<b, k>> \in Inst(fn)
    BY DEF Inst
  <2>2. fn \in MachineFunction
    BY CurrentFn DEF TInv, TypeOK
  <2>3. QED BY <2>1, <2>2, FactsOfType, FnFactsType DEF Places
<1>4. QED BY <1>1, <1>2, <1>3 DEF DF!Problem

\* The analysis ends with the least solution of its equations over objects and
\* starts every function afresh, whatever the graph and the worklist's order.
THEOREM LeastReachingCorrect == Spec => LeastReaching
<1>1. Init => DF!Init
  <2> SUFFICES ASSUME Init PROVE DF!Init
    OBVIOUS
  <2>1. RDafter = DF!Empty
    BY DEF Init, NoFacts, DF!Empty
  <2>2. worklist = {} => Block = {}
    BY DEF Init
  <2>3. TInv
    BY TInvInit
  <2>4. QED
    BY <2>1, <2>2, <2>3, AbstractProblem DEF DF!Init, DF!IsSolution
<1>2. IInv /\ IInv' /\ [Next]_vars => [DF!Next]_(DF!vars)
  <2> SUFFICES ASSUME IInv, IInv', [Next]_vars PROVE [DF!Next]_(DF!vars)
    OBVIOUS
  <2> DEFINE p == [dep |-> [b \in Block |-> pred(fn, b)],
                   gen |-> [b \in Block |-> getRDgen(b)],
                   kill |-> [b \in Block |-> getRDkill(b)]]
  <2>1. UNCHANGED <<todo, RDfactSet>> => p' = p
    BY GenKillFixed
  <2>2. worklist' = {} => DF!IsSolution(p', RDafter')
    <3> SUFFICES ASSUME worklist' = {}, NEW b \in Block
                 PROVE  RDafter'[b] = DF!Flow(p', RDafter', b)
      BY DEF DF!IsSolution
    <3>1. RDafter'[b] = Flow(b)'
      BY DEF IInv, OffWorklistSolved, Flow
    <3>2. Flow(b)' = DF!Flow(p', RDafter', b)
      BY DEF DF!Flow, Flow, computeRDafter, computeRDbefore
    <3>3. QED BY <3>1, <3>2
  <2>3. ASSUME NEW b \in Block, RDBlock(b) PROVE DF!Raise(b)
    <3>1. /\ UNCHANGED <<todo, RDfactSet>>
          /\ worklist # {}
          /\ RDafter' = [RDafter EXCEPT ![b] = Flow(b)]
      BY <2>3, RDBlockEffect
    <3>2. DF!Flow(p, RDafter, b) = Flow(b)
      BY DEF DF!Flow, Flow, computeRDafter, computeRDbefore
    <3>3. QED BY <2>1, <2>2, <3>1, <3>2 DEF DF!Raise
  <2>4. ASSUME NEW b \in Block, RDInstr(b) PROVE UNCHANGED DF!vars
    <3>1. UNCHANGED <<todo, RDfactSet, RDafter, worklist>>
      BY <2>4 DEF RDInstr
    <3>2. QED BY <2>1, <3>1 DEF DF!vars
  <2>5. ASSUME NextFn PROVE DF!Pose
    <3>1. worklist = {} /\ RDafter' = NoFacts
      BY <2>5 DEF NextFn, Done
    <3>2. p' \in DF!Problem
      <4>1. TInv'
        BY DEF IInv
      <4>2. ([dep |-> [b \in Block |-> pred(fn, b)],
              gen |-> [b \in Block |-> getRDgen(b)],
              kill |-> [b \in Block |-> getRDkill(b)]] \in DF!Problem)'
        BY <4>1, AbstractProblem, PTL
      <4>3. QED BY <4>2
    <3>3. RDafter' = DF!Empty
      BY <3>1 DEF NoFacts, DF!Empty
    <3>4. QED BY <2>2, <3>1, <3>2, <3>3 DEF DF!Pose
  <2>6. CASE UNCHANGED vars
    <3>1. UNCHANGED <<todo, RDfactSet, RDafter, worklist>>
      BY <2>6 DEF vars
    <3>2. QED BY <2>1, <3>1 DEF DF!vars
  <2>7. QED BY <2>3, <2>4, <2>5, <2>6 DEF Next, Finished, DF!Next
<1>3. QED BY <1>1, <1>2, Invariant, PTL DEF Spec, LeastReaching, DF!Spec

-----------------------------------------------------------------------------
\* Every step gets somewhere: the sets are finite, so no loop runs for ever.
THEOREM ProgressCorrect == Spec => Progress
<1> DEFINE Gain == \E b \in worklist :
                     /\ RDafter[b] \subseteq RDafter'[b]
                     /\ RDafter[b] # RDafter'[b]
                     /\ \A c \in Block \ {b} : RDafter'[c] = RDafter[c]
           Shrink == /\ UNCHANGED RDafter
                     /\ worklist' \subseteq worklist
                     /\ worklist' # worklist
           Walk == /\ UNCHANGED <<RDbefore, RDafter, worklist>>
                   /\ \E b \in Block : walked'[b] > walked[b]
           Step == [todo' = todo => Gain \/ Shrink \/ Walk]_vars
<1>1. IInv /\ [Next]_vars => Step
  <2> SUFFICES ASSUME IInv, [Next]_vars PROVE Step
    OBVIOUS
  <2>1. ASSUME NEW b \in Block, RDBlock(b) PROVE Gain \/ Shrink
    <3>1. /\ b \in worklist
          /\ RDafter \in [Block -> SUBSET RDfact]
          /\ RDafter' = [RDafter EXCEPT ![b] = Flow(b)]
          /\ RDafter[b] \subseteq Flow(b)
      BY <2>1, RDBlockEffect DEF IInv, TInv, TypeOK
    <3>2. CASE Flow(b) # RDafter[b]
      BY <3>1, <3>2
    <3>3. CASE Flow(b) = RDafter[b] /\ worklist' = worklist \ {b}
      BY <3>1, <3>3
    <3>4. QED BY <2>1, <3>2, <3>3, RDBlockEffect
  <2>2. ASSUME NEW b \in Block, RDInstr(b) PROVE Walk
    <3>1. /\ walked \in [Block -> Nat]
          /\ walked' = [walked EXCEPT ![b] = @ + 1]
          /\ UNCHANGED <<RDbefore, RDafter, worklist>>
      BY <2>2 DEF RDInstr, IInv, TInv, TypeOK
    <3>2. walked'[b] > walked[b]
      BY <3>1
    <3>3. QED BY <3>1, <3>2
  <2>3. ASSUME NextFn PROVE todo' # todo
    <3>1. todo \in Seq(MachineFunction) /\ Len(todo) > 1 /\ todo' = Tail(todo)
      BY <2>3 DEF NextFn, IInv, TInv, TypeOK
    <3>2. Len(todo') # Len(todo)
      BY <3>1
    <3>3. QED BY <3>2
  <2>4. QED BY <2>1, <2>2, <2>3 DEF Next, Finished
<1>2. QED BY <1>1, Invariant, PTL DEF Spec, Progress

-----------------------------------------------------------------------------
(***************************************************************************)
(* The analysis against paths, as in GcraLiveProofs the other way round.   *)
(* An instruction that has been walked has its equation solved for good,   *)
(* and hands on nothing but what its block lets through.                   *)
(***************************************************************************)
DefsAt(b, k) == getOneInstrRegDefs(fn.code[b][k])

BeforeInstr(b, k) == IF k = 1 THEN RDbefore[b] ELSE insRDafter[<<b, k - 1>>]

\* What comes through the first k instructions of b, and what they make.
Passed(b, k) ==
  {d \in RDbefore[b] : \A j \in 1 .. k : d \notin Matching(RDfactSet, DefsAt(b, j))}
Made(b, k) == UNION {FactsOf(fn, <<b, j>>, "instr") : j \in 1 .. k}

Solved(b, k) ==
  /\ insRDbefore[<<b, k>>] = BeforeInstr(b, k)
  /\ insRDafter[<<b, k>>] = (insRDbefore[<<b, k>>] \ Matching(RDfactSet, DefsAt(b, k)))
                              \cup FactsOf(fn, <<b, k>>, "instr")
  /\ insRDafter[<<b, k>>] \subseteq Passed(b, k) \cup Made(b, k)

InstrsSolved ==
  \A b \in Block :
    /\ walked[b] > 0 => worklist = {}
    /\ \A k \in DOMAIN fn.code[b] : k <= walked[b] => Solved(b, k)

\* The definitions of i are found only at points of S.
FoundOnlyIn(i, S) ==
  /\ \A b \in Block : \A d \in RDbefore[b] : d.inst = i => <<b, 1>> \in S
  /\ \A b \in Block : \A d \in RDafter[b] : d.inst = i => <<b, Len(fn.code[b]) + 1>> \in S
  /\ \A j \in DOMAIN insRDbefore : \A d \in insRDbefore[j] : d.inst = i => j \in S
  /\ \A j \in DOMAIN insRDafter : \A d \in insRDafter[j] : d.inst = i => <<j[1], j[2] + 1>> \in S

Justified ==
  \A i \in Block \X Nat : \A S \in SUBSET Points(fn) :
    ClosedDownstream(fn, i, {}, S) => FoundOnlyIn(i, S)

\* What a step of the instruction stage does, in terms of the above.
LEMMA RDInstrEffect ==
  ASSUME TypeOK, NEW b \in Block, RDInstr(b),
         NEW w, w = walked[b] + 1
  PROVE  /\ fn' = fn
         /\ worklist = {}
         /\ w \in Nat /\ w \in DOMAIN fn.code[b]
         /\ DOMAIN fn.code[b] = 1 .. Len(fn.code[b])
         /\ UNCHANGED <<todo, RDfactSet, worklist, RDbefore, RDafter>>
         /\ walked' = [walked EXCEPT ![b] = w]
         /\ w # 1 => <<b, w - 1>> \in DOMAIN insRDafter
         /\ insRDbefore' = Put(insRDbefore, <<b, w>>, BeforeInstr(b, w))
         /\ insRDafter' = Put(insRDafter, <<b, w>>,
              (BeforeInstr(b, w) \ Matching(RDfactSet, DefsAt(b, w)))
                \cup FactsOf(fn, <<b, w>>, "instr"))
<1>1. fn.code[b] \in Seq(Instr)
  BY CurrentFn DEF TypeOK
<1>2. walked[b] \in Nat /\ walked[b] < Len(fn.code[b]) /\ Len(fn.code[b]) \in Nat
  BY <1>1 DEF RDInstr, TypeOK
<1>3. w \in Nat /\ w \in 1 .. Len(fn.code[b]) /\ w - 1 = walked[b]
  BY <1>2
<1>4. w = 1 <=> walked[b] = 0
  BY <1>2
<1>5. w # 1 => <<b, w - 1>> \in DOMAIN insRDafter
  <2> SUFFICES ASSUME w # 1 PROVE <<b, walked[b]>> \in DOMAIN insRDafter
    BY <1>3
  <2>1. walked[b] \in DOMAIN fn.code[b]
    BY <1>1, <1>2, <1>4
  <2>2. <<b, walked[b]>> \in Inst(fn)
    BY <2>1 DEF Inst
  <2>3. QED BY <1>2, <2>2 DEF TypeOK
<1>6. BeforeInstr(b, w) = IF walked[b] = 0 THEN RDbefore[b] ELSE insRDafter[<<b, walked[b]>>]
  BY <1>3, <1>4 DEF BeforeInstr
<1>7. DefsAt(b, w) = getOneInstrRegDefs(At(fn, <<b, w>>))
  BY DEF DefsAt, At
<1>8. /\ worklist = {}
      /\ UNCHANGED <<todo, RDfactSet, worklist, RDbefore, RDafter>>
      /\ walked' = [walked EXCEPT ![b] = w]
  BY DEF RDInstr
<1>9. /\ insRDbefore' = Put(insRDbefore, <<b, w>>, BeforeInstr(b, w))
      /\ insRDafter' = Put(insRDafter, <<b, w>>,
           (BeforeInstr(b, w) \ Matching(RDfactSet, DefsAt(b, w)))
             \cup FactsOf(fn, <<b, w>>, "instr"))
  BY <1>6, <1>7 DEF RDInstr
<1>10. fn' = fn
  BY <1>8 DEF fn
<1>11. w \in DOMAIN fn.code[b] /\ DOMAIN fn.code[b] = 1 .. Len(fn.code[b])
  BY <1>1, <1>3
<1>12. QED BY <1>3, <1>5, <1>8, <1>9, <1>10, <1>11

\* An instruction already walked is not the next one, nor is the one before it.
LEMMA WalkedBefore ==
  ASSUME TypeOK, NEW c \in Block, NEW j \in DOMAIN fn.code[c], j <= walked[c]
  PROVE  /\ j \in Nat /\ j > 0
         /\ <<c, j>> \in DOMAIN insRDbefore /\ <<c, j>> \in DOMAIN insRDafter
         /\ j # 1 => <<c, j - 1>> \in DOMAIN insRDafter
         /\ \A b \in Block : <<c, j>> # <<b, walked[b] + 1>> /\ <<c, j - 1>> # <<b, walked[b] + 1>>
<1>1. /\ fn.code[c] \in Seq(Instr)
      /\ walked[c] \in Nat
      /\ Len(fn.code[c]) \in Nat
      /\ DOMAIN fn.code[c] = 1 .. Len(fn.code[c])
  BY CurrentFn DEF TypeOK
<1>2. \A k \in 1 .. Len(fn.code[c]) : k <= walked[c] => <<c, k>> \in DOMAIN insRDafter
  BY <1>1 DEF TypeOK, Inst
<1>3. j \in 1 .. Len(fn.code[c])
  BY <1>1
<1>4. j # 1 => j - 1 \in 1 .. Len(fn.code[c])
  BY <1>1, <1>3
<1>5. j - 1 <= walked[c] /\ j # walked[c] + 1 /\ j - 1 # walked[c] + 1
  BY <1>1, <1>3
<1>6. DOMAIN insRDbefore = DOMAIN insRDafter
  BY DEF TypeOK
<1>7. QED BY <1>2, <1>3, <1>4, <1>5, <1>6

\* The next instruction hands on nothing but what its block lets through.
LEMMA HandsOn ==
  ASSUME TypeOK, InstrsSolved, NEW b \in Block, RDInstr(b),
         NEW w, w = walked[b] + 1
  PROVE  (BeforeInstr(b, w) \ Matching(RDfactSet, DefsAt(b, w)))
           \cup FactsOf(fn, <<b, w>>, "instr") \subseteq Passed(b, w) \cup Made(b, w)
<1>1. w \in Nat /\ w \in 1 .. Len(fn.code[b]) /\ DOMAIN fn.code[b] = 1 .. Len(fn.code[b])
  BY RDInstrEffect
<1>2. FactsOf(fn, <<b, w>>, "instr") \subseteq Made(b, w)
  <2>1. w \in 1 .. w
    BY <1>1
  <2>2. QED BY <2>1 DEF Made
<1>3. ASSUME NEW d \in BeforeInstr(b, w), d \notin Matching(RDfactSet, DefsAt(b, w))
      PROVE  d \in Passed(b, w) \cup Made(b, w)
  <2>1. CASE w = 1
    <3>1. \A j \in 1 .. w : j = w
      BY <2>1
    <3>2. d \in RDbefore[b]
      BY <1>3, <2>1 DEF BeforeInstr
    <3>3. QED BY <1>3, <3>1, <3>2 DEF Passed
  <2>2. CASE w # 1
    <3>1. w - 1 \in 1 .. Len(fn.code[b]) /\ w - 1 <= walked[b]
      BY <1>1, <2>2 DEF TypeOK
    <3>2. d \in Passed(b, w - 1) \cup Made(b, w - 1)
      <4>1. Solved(b, w - 1)
        BY <1>1, <3>1 DEF InstrsSolved
      <4>2. QED BY <1>3, <2>2, <4>1 DEF Solved, BeforeInstr
    <3>3. \A j \in 1 .. w : j = w \/ j \in 1 .. w - 1
      BY <1>1
    <3>4. \A j \in 1 .. w - 1 : j \in 1 .. w
      BY <1>1
    <3>5. d \in Passed(b, w - 1) => d \in Passed(b, w)
      BY <1>3, <3>3 DEF Passed
    <3>6. d \in Made(b, w - 1) => d \in Made(b, w)
      BY <3>4 DEF Made
    <3>7. QED BY <3>2, <3>5, <3>6
  <2>3. QED BY <2>1, <2>2
<1>4. QED BY <1>2, <1>3

LEMMA InstrsSolvedStep ==
  ASSUME TypeOK, InstrsSolved, NEW b \in Block, RDInstr(b)
  PROVE  InstrsSolved'
<1> DEFINE v == walked[b] + 1
<1>w. PICK w : w = v
  OBVIOUS
<1> DEFINE before == BeforeInstr(b, w)
           after == (BeforeInstr(b, w) \ Matching(RDfactSet, DefsAt(b, w)))
                      \cup FactsOf(fn, <<b, w>>, "instr")
<1>1. /\ fn' = fn
      /\ worklist' = {}
      /\ UNCHANGED <<RDfactSet, RDbefore>>
      /\ walked' = [walked EXCEPT ![b] = w]
      /\ w \in Nat
      /\ w # 1 => <<b, w - 1>> \in DOMAIN insRDafter
      /\ insRDbefore' = Put(insRDbefore, <<b, w>>, before)
      /\ insRDafter' = Put(insRDafter, <<b, w>>, after)
  BY <1>w, RDInstrEffect
<1>2. after \subseteq Passed(b, w) \cup Made(b, w)
  BY <1>w, HandsOn
<1>3. /\ \A k : DefsAt(b, k)' = DefsAt(b, k)
      /\ \A c, k : Passed(c, k)' = Passed(c, k) /\ Made(c, k)' = Made(c, k)
  BY <1>1 DEF DefsAt, Passed, Made
<1> HIDE DEF v
<1>4. /\ \A i \in DOMAIN insRDbefore :
           i # <<b, w>> => insRDbefore'[i] = insRDbefore[i]
      /\ \A i \in DOMAIN insRDafter :
           i # <<b, w>> => insRDafter'[i] = insRDafter[i]
      /\ insRDbefore'[<<b, w>>] = before
      /\ insRDafter'[<<b, w>>] = after
  <2> HIDE DEF before, after
  <2>1. QED BY <1>1 DEF Put
<1>5. ASSUME NEW c \in Block, NEW j \in DOMAIN fn.code[c], j <= walked'[c]
      PROVE  Solved(c, j)'
  <2>1. CASE c = b /\ j = w
    <3>1. BeforeInstr(c, j)' = BeforeInstr(c, j)
      <4>1. CASE j = 1
        BY <1>1, <4>1 DEF BeforeInstr
      <4>2. CASE j # 1
        <5>1. <<c, j - 1>> \in DOMAIN insRDafter /\ <<c, j - 1>> # <<b, w>>
          BY <1>1, <2>1, <4>2
        <5>2. QED BY <1>4, <4>2, <5>1 DEF BeforeInstr
      <4>3. QED BY <4>1, <4>2
    <3>2. insRDbefore'[<<c, j>>] = BeforeInstr(c, j)'
      BY <1>4, <2>1, <3>1
    <3>3. insRDafter'[<<c, j>>] =
            (insRDbefore'[<<c, j>>] \ Matching(RDfactSet', DefsAt(c, j)'))
              \cup FactsOf(fn', <<c, j>>, "instr")
      BY <1>1, <1>3, <1>4, <2>1
    <3>4. insRDafter'[<<c, j>>] \subseteq Passed(c, j)' \cup Made(c, j)'
      BY <1>2, <1>3, <1>4, <2>1
    <3>5. QED BY <3>2, <3>3, <3>4 DEF Solved
  <2>2. CASE ~ (c = b /\ j = w)
    <3>1. j <= walked[c]
      <4>1. j \in Nat /\ walked[b] \in Nat /\ walked[c] \in Nat
        BY CurrentFn DEF TypeOK
      <4>2. c = b => walked'[c] = w /\ w = walked[b] + 1
        BY <1>w, <1>1 DEF TypeOK, v
      <4>3. c # b => walked'[c] = walked[c]
        BY <1>1 DEF TypeOK
      <4>4. QED BY <1>5, <2>2, <4>1, <4>2, <4>3
    <3>2. /\ <<c, j>> \in DOMAIN insRDbefore /\ <<c, j>> \in DOMAIN insRDafter
          /\ j # 1 => <<c, j - 1>> \in DOMAIN insRDafter /\ <<c, j - 1>> # <<b, w>>
          /\ <<c, j>> # <<b, w>>
      BY <1>w, <3>1, WalkedBefore DEF v
    <3>3. /\ insRDbefore'[<<c, j>>] = insRDbefore[<<c, j>>]
          /\ insRDafter'[<<c, j>>] = insRDafter[<<c, j>>]
          /\ j # 1 => insRDafter'[<<c, j - 1>>] = insRDafter[<<c, j - 1>>]
      BY <1>4, <3>2
    <3>4. BeforeInstr(c, j)' = BeforeInstr(c, j) /\ DefsAt(c, j)' = DefsAt(c, j)
      BY <1>1, <3>3 DEF BeforeInstr, DefsAt
    <3>5. Solved(c, j)
      BY <3>1 DEF InstrsSolved
    <3>6. QED BY <1>1, <1>3, <3>3, <3>4, <3>5 DEF Solved
  <2>3. QED BY <2>1, <2>2
<1>6. QED BY <1>1, <1>5 DEF InstrsSolved

\* Where a definition made in a block goes on.
LEMMA MadeGoesOn ==
  ASSUME NEW f \in MachineFunction, NEW b \in Block, NEW k \in 1 .. Len(f.code[b]),
         NEW S \in SUBSET Points(f), ClosedDownstream(f, <<b, k>>, {}, S)
  PROVE  <<b, k + 1>> \in S /\ <<b, Len(f.code[b]) + 1>> \in S
<1>1. Len(f.code[b]) \in Nat
  BY PointPlace
<1>2. k + 1 \in 1 .. Len(f.code[b]) + 1
  BY <1>1
<1>3. <<b, k + 1>> \in S
  <2>1. After(f, <<b, k>>) = {<<b, k + 1>>}
    BY PointPlace
  <2>2. QED BY <2>1 DEF ClosedDownstream
<1>4. \A p \in S : After(f, p) \subseteq S
  BY DEF ClosedDownstream
<1>5. QED BY <1>2, <1>3, <1>4, DownTheBlock

\* What the equations of a block give it lies downstream, if what its
\* predecessors have does.
LEMMA FlowJustified ==
  ASSUME TypeOK, NEW b \in Block, NEW i \in Block \X Nat,
         NEW S \in SUBSET Points(fn), ClosedDownstream(fn, i, {}, S), FoundOnlyIn(i, S)
  PROVE  /\ \A d \in computeRDbefore(b) : d.inst = i => <<b, 1>> \in S
         /\ \A d \in Flow(b) : d.inst = i => <<b, Len(fn.code[b]) + 1>> \in S
<1>1. fn \in MachineFunction
  BY CurrentFn DEF TypeOK
<1>2. ASSUME NEW d \in computeRDbefore(b), d.inst = i PROVE <<b, 1>> \in S
  <2>1. PICK c \in Block : b \in fn.succ[c] /\ d \in RDafter[c]
    BY <1>2 DEF computeRDbefore, pred
  <2>2. <<c, Len(fn.code[c]) + 1>> \in S
    BY <1>2, <2>1 DEF FoundOnlyIn
  <2>3. After(fn, <<c, Len(fn.code[c]) + 1>>) = fn.succ[c] \X {1}
    BY <1>1, PointPlace
  <2>4. QED BY <2>1, <2>2, <2>3 DEF ClosedDownstream
<1>3. ASSUME NEW d \in Flow(b), d.inst = i PROVE <<b, Len(fn.code[b]) + 1>> \in S
  <2>1. CASE d \in computeRDbefore(b)
    <3>1. <<b, 1>> \in S
      BY <1>2, <1>3, <2>1
    <3>2. Len(fn.code[b]) \in Nat
      BY <1>1, PointPlace
    <3>3. 1 \in 1 .. Len(fn.code[b]) + 1
      BY <3>2
    <3>4. \A p \in S : After(fn, p) \subseteq S
      BY DEF ClosedDownstream
    <3>5. QED BY <1>1, <3>1, <3>3, <3>4, DownTheBlock
  <2>2. CASE d \in getRDgen(b)
    <3>1. PICK k \in DOMAIN fn.code[b] : d \in FactsOf(fn, <<b, k>>, "block")
      BY <2>2 DEF getRDgen
    <3>2. i = <<b, k>>
      BY <1>3, <3>1 DEF FactsOf, new
    <3>3. k \in 1 .. Len(fn.code[b])
      BY CurrentFn DEF TypeOK
    <3>4. QED BY <1>1, <3>2, <3>3, MadeGoesOn
  <2>3. QED BY <1>3, <2>1, <2>2 DEF Flow, computeRDafter
<1>4. QED BY <1>2, <1>3

LEMMA BlockJustified ==
  ASSUME IInv, NEW b \in Block, RDBlock(b), NEW i \in Block \X Nat,
         NEW S \in SUBSET Points(fn), ClosedDownstream(fn, i, {}, S), FoundOnlyIn(i, S)
  PROVE  FoundOnlyIn(i, S)'
<1>1. /\ fn' = fn
      /\ UNCHANGED <<insRDbefore, insRDafter>>
      /\ RDafter' = [RDafter EXCEPT ![b] = Flow(b)]
      /\ RDbefore' = [RDbefore EXCEPT ![b] = computeRDbefore(b)]
  BY RDBlockEffect DEF fn
<1>2. /\ \A d \in computeRDbefore(b) : d.inst = i => <<b, 1>> \in S
      /\ \A d \in Flow(b) : d.inst = i => <<b, Len(fn.code[b]) + 1>> \in S
  BY FlowJustified DEF IInv, TInv
<1>3. \A c \in Block : \A d \in RDbefore'[c] : d.inst = i => <<c, 1>> \in S
  BY <1>1, <1>2 DEF IInv, TInv, TypeOK, FoundOnlyIn
<1>4. \A c \in Block : \A d \in RDafter'[c] : d.inst = i => <<c, Len(fn.code[c]) + 1>> \in S
  BY <1>1, <1>2 DEF IInv, TInv, TypeOK, FoundOnlyIn
<1>5. QED BY <1>1, <1>3, <1>4 DEF FoundOnlyIn

\* So does what the walk through a block finds.
LEMMA InstrJustified ==
  ASSUME TypeOK, NEW b \in Block, RDInstr(b), NEW i \in Block \X Nat,
         NEW S \in SUBSET Points(fn), ClosedDownstream(fn, i, {}, S), FoundOnlyIn(i, S)
  PROVE  FoundOnlyIn(i, S)'
<1> DEFINE v == walked[b] + 1
<1>w. PICK w : w = v
  OBVIOUS
<1> DEFINE before == BeforeInstr(b, w)
           after == (BeforeInstr(b, w) \ Matching(RDfactSet, DefsAt(b, w)))
                      \cup FactsOf(fn, <<b, w>>, "instr")
<1>1. /\ fn' = fn
      /\ UNCHANGED <<RDbefore, RDafter>>
      /\ w \in 1 .. Len(fn.code[b])
      /\ w # 1 => <<b, w - 1>> \in DOMAIN insRDafter
      /\ insRDbefore' = Put(insRDbefore, <<b, w>>, before)
      /\ insRDafter' = Put(insRDafter, <<b, w>>, after)
  BY <1>w, RDInstrEffect
<1> HIDE DEF v
<1>2. /\ fn \in MachineFunction
      /\ Len(fn.code[b]) \in Nat
      /\ After(fn, <<b, w>>) = {<<b, w + 1>>}
  BY <1>1, CurrentFn, PointPlace DEF TypeOK
<1>3. ASSUME NEW d \in before, d.inst = i PROVE <<b, w>> \in S
  <2>1. CASE w = 1
    BY <1>3, <2>1 DEF BeforeInstr, FoundOnlyIn
  <2>2. CASE w # 1
    <3>1. <<b, (w - 1) + 1>> \in S
      BY <1>1, <1>3, <2>2 DEF BeforeInstr, FoundOnlyIn
    <3>2. (w - 1) + 1 = w
      BY <1>1, <1>2
    <3>3. QED BY <3>1, <3>2
  <2>3. QED BY <2>1, <2>2
<1>4. ASSUME NEW d \in after, d.inst = i PROVE <<b, w + 1>> \in S
  <2>1. CASE d \in FactsOf(fn, <<b, w>>, "instr")
    <3>1. i = <<b, w>>
      BY <1>4, <2>1 DEF FactsOf, new
    <3>2. QED BY <1>1, <1>2, <3>1, MadeGoesOn
  <2>2. CASE d \in before
    <3>1. <<b, w>> \in S
      BY <1>3, <1>4, <2>2
    <3>2. QED BY <1>2, <3>1 DEF ClosedDownstream
  <2>3. QED BY <1>4, <2>1, <2>2
<1> HIDE DEF before, after
<1>5. ASSUME NEW j \in DOMAIN insRDbefore', NEW d \in insRDbefore'[j], d.inst = i
      PROVE  j \in S
  <2>1. CASE j = <<b, w>>
    <3>1. insRDbefore'[j] = before
      BY <1>1, <2>1 DEF Put
    <3>2. QED BY <1>3, <1>5, <2>1, <3>1
  <2>2. CASE j # <<b, w>>
    <3>1. j \in DOMAIN insRDbefore /\ insRDbefore'[j] = insRDbefore[j]
      BY <1>1, <2>2 DEF Put
    <3>2. QED BY <1>5, <3>1 DEF FoundOnlyIn
  <2>3. QED BY <2>1, <2>2
<1>6. ASSUME NEW j \in DOMAIN insRDafter', NEW d \in insRDafter'[j], d.inst = i
      PROVE  <<j[1], j[2] + 1>> \in S
  <2>1. CASE j = <<b, w>>
    <3>1. insRDafter'[j] = after
      BY <1>1, <2>1 DEF Put
    <3>2. <<b, w + 1>> \in S
      BY <1>4, <1>6, <3>1
    <3>3. QED BY <2>1, <3>2
  <2>2. CASE j # <<b, w>>
    <3>1. j \in DOMAIN insRDafter /\ insRDafter'[j] = insRDafter[j]
      BY <1>1, <2>2 DEF Put
    <3>2. QED BY <1>6, <3>1 DEF FoundOnlyIn
  <2>3. QED BY <2>1, <2>2
<1>7. QED BY <1>1, <1>5, <1>6 DEF FoundOnlyIn

\* Nothing is found when a function begins.
LEMMA NothingJustified ==
  /\ Init => Justified /\ InstrsSolved
  /\ TypeOK' /\ NextFn => Justified' /\ InstrsSolved'
<1>1. Init => Justified /\ InstrsSolved
  <2> SUFFICES ASSUME Init PROVE Justified /\ InstrsSolved
    OBVIOUS
  <2>1. fn \in MachineFunction
    BY TInvInit, CurrentFn DEF TInv, TypeOK
  <2>2. \A b \in Block : walked[b] = 0 /\ \A k \in DOMAIN fn.code[b] : k \in Nat /\ k > 0
    BY <2>1 DEF Init, NoneWalked, MachineFunction
  <2>3. InstrsSolved
    BY <2>2 DEF InstrsSolved
  <2>4. Justified
    BY DEF Init, Justified, FoundOnlyIn, NoFacts, NoInstrs
  <2>5. QED BY <2>3, <2>4
<1>2. TypeOK' /\ NextFn => Justified' /\ InstrsSolved'
  <2> SUFFICES ASSUME TypeOK', NextFn PROVE Justified' /\ InstrsSolved'
    OBVIOUS
  <2>1. fn' \in MachineFunction
    BY DEF TypeOK, fn
  <2>2. \A b \in Block : walked'[b] = 0 /\ \A k \in DOMAIN fn'.code[b] : k \in Nat /\ k > 0
    BY <2>1 DEF NextFn, NoneWalked, MachineFunction
  <2>3. InstrsSolved'
    BY <2>2 DEF InstrsSolved
  <2>4. Justified'
    BY DEF NextFn, Justified, FoundOnlyIn, NoFacts, NoInstrs, ClearedMap
  <2>5. QED BY <2>3, <2>4
<1>3. QED BY <1>1, <1>2

PathInv == IInv /\ InstrsSolved /\ Justified

LEMMA PathInvariant == Spec => []PathInv
<1>1. Init => InstrsSolved /\ Justified
  BY NothingJustified
<1>2. IInv /\ IInv' /\ InstrsSolved /\ Justified /\ [Next]_vars => InstrsSolved' /\ Justified'
  <2> SUFFICES ASSUME IInv, IInv', InstrsSolved, Justified, [Next]_vars
               PROVE  InstrsSolved' /\ Justified'
    OBVIOUS
  <2>1. ASSUME NEW b \in Block, RDBlock(b) PROVE InstrsSolved' /\ Justified'
    <3>1. worklist # {} /\ fn' = fn /\ walked' = walked
      BY <2>1, RDBlockEffect DEF fn
    <3>2. \A c \in Block : walked[c] = 0 /\ \A k \in DOMAIN fn.code[c] : k \in Nat /\ k > 0
      <4>1. \A c \in Block : walked[c] \in Nat /\ ~ (walked[c] > 0)
        BY <3>1 DEF InstrsSolved, IInv, TInv, TypeOK
      <4>2. \A c \in Block : fn.code[c] \in Seq(Instr)
        BY CurrentFn DEF IInv, TInv, TypeOK
      <4>3. QED BY <4>1, <4>2
    <3>3. InstrsSolved'
      BY <3>1, <3>2 DEF InstrsSolved
    <3>4. Justified'
      BY <2>1, <3>1, BlockJustified DEF Justified
    <3>5. QED BY <3>3, <3>4
  <2>2. ASSUME NEW b \in Block, RDInstr(b) PROVE InstrsSolved' /\ Justified'
    <3>1. fn' = fn
      BY <2>2 DEF RDInstr, fn
    <3>2. Justified'
      BY <2>2, <3>1, InstrJustified DEF Justified, IInv, TInv
    <3>3. QED BY <2>2, <3>2, InstrsSolvedStep DEF IInv, TInv
  <2>3. CASE NextFn
    BY <2>3, NothingJustified DEF IInv, TInv
  <2>4. CASE UNCHANGED vars
    BY <2>4 DEF vars, fn, InstrsSolved, Solved, BeforeInstr, DefsAt, Passed, Made,
                Justified, FoundOnlyIn
  <2>5. QED BY <2>1, <2>2, <2>3, <2>4 DEF Next, Finished
<1>3. QED BY <1>1, <1>2, Invariant, PTL DEF Spec, PathInv

\* The points at which the definition of r by i is found, at the end.
FoundPoints(r, i) ==
  {p \in Points(fn) : IF p \in Inst(fn) THEN <<r, i>> \in Says(insRDbefore[p])
                      ELSE <<r, i>> \in Says(RDafter[p[1]])}

\* What is found for a block is found at its first point, and the reverse.
LEMMA FoundAtStart ==
  ASSUME IInv, InstrsSolved, Done, NEW r, NEW i, NEW b \in Block
  PROVE  <<b, 1>> \in FoundPoints(r, i) <=> <<r, i>> \in Says(RDbefore[b])
<1> DEFINE n == Len(fn.code[b])
<1>1. /\ fn \in MachineFunction
      /\ n \in Nat
      /\ DOMAIN fn.code[b] = 1 .. n
      /\ walked[b] = n
  BY CurrentFn DEF IInv, TInv, TypeOK, Done
<1>2. <<b, 1>> \in Points(fn)
  <2>1. 1 \in 1 .. n + 1
    BY <1>1
  <2>2. QED BY <1>1, <2>1, PointPlace
<1>3. CASE n = 0
  <2>1. <<b, 1>> \notin Inst(fn)
    BY <1>1, <1>3, PointPlace
  <2>2. DefsIn(b) = {} /\ getRDgen(b) = {}
    BY <1>1, <1>3 DEF DefsIn, getRDgen
  <2>3. getRDkill(b) = {}
    BY <2>2 DEF getRDkill, Matching
  <2>4. RDafter[b] = RDbefore[b]
    BY <2>2, <2>3 DEF IInv, OffWorklistSolved, Done, computeRDafter
  <2>5. QED BY <1>2, <2>1, <2>4 DEF FoundPoints
<1>4. CASE n # 0
  <2>1. 1 \in 1 .. n /\ 1 <= walked[b]
    BY <1>1, <1>4
  <2>2. <<b, 1>> \in Inst(fn)
    BY <1>1, <2>1, PointPlace
  <2>3. insRDbefore[<<b, 1>>] = RDbefore[b]
    BY <1>1, <2>1 DEF InstrsSolved, Solved, BeforeInstr
  <2>4. QED BY <1>2, <2>2, <2>3 DEF FoundPoints
<1>5. QED BY <1>3, <1>4

\* What the last instruction of a block hands on is in the block's own set,
\* although not always as the same objects.
LEMMA EndOfBlock ==
  ASSUME IInv, InstrsSolved, Done, NEW b \in Block,
         Len(fn.code[b]) # 0, NEW d \in insRDafter[<<b, Len(fn.code[b])>>]
  PROVE  <<d.reg, d.inst>> \in Says(RDafter[b])
<1> DEFINE n == Len(fn.code[b])
<1>1. /\ n \in Nat
      /\ DOMAIN fn.code[b] = 1 .. n
      /\ walked[b] = n
  BY CurrentFn DEF IInv, TInv, TypeOK, Done
<1>2. n \in 1 .. n /\ n <= walked[b]
  BY <1>1
<1>3. d \in Passed(b, n) \cup Made(b, n)
  BY <1>1, <1>2 DEF InstrsSolved, Solved
<1>4. RDafter[b] = (RDbefore[b] \ getRDkill(b)) \cup getRDgen(b)
  BY DEF IInv, OffWorklistSolved, Done, computeRDafter
<1>5. CASE d \in Passed(b, n)
  <2>1. d \in RDbefore[b] /\ \A j \in 1 .. n : d \notin Matching(RDfactSet, DefsAt(b, j))
    BY <1>5 DEF Passed
  <2>2. d \notin getRDkill(b)
    BY <1>1, <2>1 DEF getRDkill, DefsIn, Matching, DefsAt
  <2>3. QED BY <1>4, <2>1, <2>2 DEF Says
<1>6. CASE d \in Made(b, n)
  <2>1. PICK j \in 1 .. n : d \in FactsOf(fn, <<b, j>>, "instr")
    BY <1>6 DEF Made
  <2>2. PICK r \in getOneInstrRegDefs(At(fn, <<b, j>>)) : d = new(r, <<b, j>>, "instr")
    BY <2>1 DEF FactsOf
  <2>3. new(r, <<b, j>>, "block") \in RDafter[b]
    <3>1. new(r, <<b, j>>, "block") \in FactsOf(fn, <<b, j>>, "block")
      BY DEF FactsOf
    <3>2. FactsOf(fn, <<b, j>>, "block") \subseteq getRDgen(b)
      BY <1>1 DEF getRDgen
    <3>3. QED BY <1>4, <3>1, <3>2
  <2>4. /\ d.reg = r /\ d.inst = <<b, j>>
        /\ new(r, <<b, j>>, "block").reg = r /\ new(r, <<b, j>>, "block").inst = <<b, j>>
    BY <2>2 DEF new
  <2>5. \E e \in RDafter[b] : e.reg = r /\ e.inst = <<b, j>>
    BY <2>3, <2>4
  <2>6. QED BY <2>4, <2>5 DEF Says
<1>7. QED BY <1>3, <1>5, <1>6

\* What an instruction hands on is found at the next point.
LEMMA FoundNext ==
  ASSUME IInv, InstrsSolved, Done, NEW b \in Block, NEW k \in 1 .. Len(fn.code[b]),
         NEW d \in insRDafter[<<b, k>>]
  PROVE  <<b, k + 1>> \in FoundPoints(d.reg, d.inst)
<1> DEFINE n == Len(fn.code[b])
<1>1. /\ fn \in MachineFunction
      /\ n \in Nat
      /\ DOMAIN fn.code[b] = 1 .. n
      /\ walked[b] = n
  BY CurrentFn DEF IInv, TInv, TypeOK, Done
<1>2. <<b, k + 1>> \in Points(fn)
  <2>1. k + 1 \in 1 .. n + 1
    BY <1>1
  <2>2. QED BY <1>1, <2>1, PointPlace
<1>3. CASE k = n
  <2>1. n + 1 \notin 1 .. n
    BY <1>1
  <2>2. <<b, k + 1>> \notin Inst(fn)
    BY <1>1, <1>3, <2>1, PointPlace
  <2>3. n # 0
    BY <1>1
  <2>4. <<d.reg, d.inst>> \in Says(RDafter[b])
    BY <1>3, <2>3, EndOfBlock
  <2>5. QED BY <1>2, <2>2, <2>4 DEF FoundPoints
<1>4. CASE k # n
  <2>1. k + 1 \in 1 .. n /\ k + 1 <= walked[b] /\ k + 1 # 1 /\ (k + 1) - 1 = k
    BY <1>1, <1>4
  <2>2. <<b, k + 1>> \in Inst(fn)
    BY <1>1, <2>1, PointPlace
  <2>3. insRDbefore[<<b, k + 1>>] = insRDafter[<<b, k>>]
    <3>1. Solved(b, k + 1)
      BY <1>1, <2>1 DEF InstrsSolved
    <3>2. QED BY <2>1, <3>1 DEF Solved, BeforeInstr
  <2>4. QED BY <1>2, <2>2, <2>3 DEF FoundPoints, Says
<1>5. QED BY <1>3, <1>4

LEMMA FoundIsClosed ==
  ASSUME IInv, InstrsSolved, Done, NEW r \in Reg, NEW i \in Inst(fn), Defines(fn, i, r)
  PROVE  ClosedDownstream(fn, i, {p \in Points(fn) : Defines(fn, p, r)}, FoundPoints(r, i))
<1>1. /\ fn \in MachineFunction
      /\ \A b \in Block : /\ Len(fn.code[b]) \in Nat
                          /\ DOMAIN fn.code[b] = 1 .. Len(fn.code[b])
                          /\ walked[b] = Len(fn.code[b])
                          /\ fn.succ[b] \subseteq Block
  BY CurrentFn DEF IInv, TInv, TypeOK, Done
<1>2. \A b \in Block : \A k \in 1 .. Len(fn.code[b]) : Solved(b, k)
  BY <1>1 DEF InstrsSolved
<1>3. After(fn, i) \subseteq FoundPoints(r, i)
  <2>1. PICK b \in Block : i \in {b} \X (DOMAIN fn.code[b])
    BY DEF Inst
  <2>2. PICK k \in 1 .. Len(fn.code[b]) : i = <<b, k>>
    BY <1>1, <2>1
  <2>3. r \in getOneInstrRegDefs(At(fn, i))
    BY DEF Defines, getOneInstrRegDefs
  <2>4. new(r, i, "instr") \in insRDafter[<<b, k>>]
    BY <1>2, <2>2, <2>3 DEF Solved, FactsOf
  <2>5. new(r, i, "instr").reg = r /\ new(r, i, "instr").inst = i
    BY DEF new
  <2>6. <<b, k + 1>> \in FoundPoints(r, i)
    BY <2>4, <2>5, FoundNext
  <2>7. After(fn, <<b, k>>) = {<<b, k + 1>>}
    BY <1>1, PointPlace
  <2>8. QED BY <2>2, <2>6, <2>7
<1>4. ASSUME NEW p \in FoundPoints(r, i), ~ Defines(fn, p, r)
      PROVE  After(fn, p) \subseteq FoundPoints(r, i)
  <2>1. PICK b \in Block : p \in {b} \X (1 .. Len(fn.code[b]) + 1)
    BY <1>4 DEF FoundPoints, Points
  <2>2. PICK k \in 1 .. Len(fn.code[b]) + 1 : p = <<b, k>>
    BY <2>1
  <2>3. CASE k \in 1 .. Len(fn.code[b])
    <3>1. p \in Inst(fn) /\ After(fn, p) = {<<b, k + 1>>}
      BY <1>1, <2>2, <2>3, PointPlace
    <3>2. PICK d \in insRDbefore[p] : d.reg = r /\ d.inst = i
      BY <3>1 DEF FoundPoints, Says
    <3>3. r \notin DefsAt(b, k)
      BY <1>4, <2>2, <3>1 DEF Defines, DefsAt, At, getOneInstrRegDefs
    <3>4. d \in insRDafter[<<b, k>>]
      BY <1>2, <2>2, <2>3, <3>2, <3>3 DEF Solved, Matching
    <3>5. <<b, k + 1>> \in FoundPoints(r, i)
      BY <2>3, <3>2, <3>4, FoundNext
    <3>6. QED BY <3>1, <3>5
  <2>4. CASE k = Len(fn.code[b]) + 1
    <3>1. k \notin 1 .. Len(fn.code[b])
      BY <1>1, <2>4
    <3>2. p \notin Inst(fn) /\ After(fn, p) = fn.succ[b] \X {1}
      BY <1>1, <2>2, <2>4, <3>1, PointPlace
    <3>3. <<r, i>> \in Says(RDafter[b])
      BY <2>2, <3>2 DEF FoundPoints
    <3>4. \A s \in fn.succ[b] : <<r, i>> \in Says(RDbefore[s])
      BY <1>1, <3>3 DEF IInv, OffWorklistSolved, Done, computeRDbefore, pred, Says
    <3>5. \A s \in fn.succ[b] : <<s, 1>> \in FoundPoints(r, i)
      BY <1>1, <3>4, FoundAtStart
    <3>6. QED BY <3>2, <3>5
  <2>5. QED BY <1>1, <2>3, <2>4
<1>5. \A p \in FoundPoints(r, i) \ {p \in Points(fn) : Defines(fn, p, r)} : ~ Defines(fn, p, r)
  BY DEF FoundPoints
<1>6. QED BY <1>3, <1>4, <1>5 DEF ClosedDownstream

\* Every definition that reaches a block or an instruction along some path is
\* found there, although kill sets and gen sets hold different objects.
THEOREM ReachingIsFoundCorrect == Spec => []ReachingIsFound
<1>1. PathInv => ReachingIsFound
  <2> SUFFICES ASSUME PathInv, Done, NEW i \in Inst(fn), NEW r \in Reg, Defines(fn, i, r),
                      NEW p \in ReachedBy(fn, r, i)
               PROVE  /\ p[2] = 1 => <<r, i>> \in Says(RDbefore[p[1]])
                      /\ p \in Inst(fn) => <<r, i>> \in Says(insRDbefore[p])
    BY DEF ReachingIsFound
  <2>1. FoundPoints(r, i) \in SUBSET Points(fn)
    BY DEF FoundPoints
  <2>2. p \in FoundPoints(r, i)
    BY <2>1, FoundIsClosed, DownstreamLeast DEF PathInv, ReachedBy
  <2>3. p[1] \in Block /\ p = <<p[1], p[2]>>
    BY <2>1, <2>2, CurrentFn, PointParts DEF PathInv, IInv, TInv, TypeOK
  <2>4. p[2] = 1 => <<r, i>> \in Says(RDbefore[p[1]])
    BY <2>2, <2>3, FoundAtStart DEF PathInv
  <2>5. QED BY <2>2, <2>4 DEF FoundPoints
<1>2. QED BY <1>1, PathInvariant, PTL

\* No definition is found that control does not come from.
THEOREM FoundIsUpstreamCorrect == Spec => []FoundIsUpstream
<1>1. PathInv => FoundIsUpstream
  <2> SUFFICES ASSUME PathInv, Done, NEW i \in Inst(fn), NEW d \in insRDbefore[i]
               PROVE  i \in Downstream(fn, d.inst, {})
    BY DEF FoundIsUpstream
  <2>1. fn \in MachineFunction
    BY CurrentFn DEF PathInv, IInv, TInv, TypeOK
  <2>2. i \in Points(fn) /\ i \in DOMAIN insRDbefore
    <3>1. i[1] \in Block /\ i = <<i[1], i[2]>> /\ i[2] \in Nat /\ <<i[1], i[2]>> \in Inst(fn)
      BY <2>1, InstPlace
    <3>2. Len(fn.code[i[1]]) \in Nat /\ i[2] \in 1 .. Len(fn.code[i[1]])
      BY <2>1, <3>1, PointPlace
    <3>3. i[2] \in 1 .. Len(fn.code[i[1]]) + 1 /\ i[2] <= Len(fn.code[i[1]])
      BY <3>2
    <3>4. <<i[1], i[2]>> \in Points(fn)
      BY <2>1, <3>1, <3>3, PointPlace
    <3>5. i[2] <= walked[i[1]]
      BY <3>1, <3>3 DEF Done
    <3>6. i \in DOMAIN insRDbefore
      BY <3>5 DEF PathInv, IInv, TInv, TypeOK
    <3>7. QED BY <3>1, <3>4, <3>6
  <2>3. d.inst \in Block \X Nat
    BY <2>2 DEF PathInv, IInv, TInv, TypeOK, RDfact
  <2>4. ASSUME NEW S \in SUBSET Points(fn), ClosedDownstream(fn, d.inst, {}, S)
        PROVE  i \in S
    BY <2>2, <2>3, <2>4 DEF PathInv, Justified, FoundOnlyIn
  <2>5. QED BY <2>2, <2>4 DEF Downstream
<1>2. QED BY <1>1, PathInvariant, PTL

=============================================================================
