----------------------------- MODULE GcraProofs -----------------------------
(***************************************************************************)
(* The allocator as a whole: it runs the live-variable analysis as proved  *)
(* about in GcraLiveProofs, the graph made from it joins every pair of     *)
(* registers that must not share a machine register, and so whichever      *)
(* colouring of it is chosen keeps every value.                            *)
(***************************************************************************)
EXTENDS GcraExec, TLAPS

LP == INSTANCE GcraLiveProofs WITH worklist <- liveWork

-----------------------------------------------------------------------------
\* Live and LP are two instances of one module: what they define is the same.
LEMMA SameFlow ==
  ASSUME NEW b \in Block, NEW after
  PROVE  /\ Live!computeLiveAfter(b) = LP!computeLiveAfter(b)
         /\ Live!computeLiveBefore(b, after) = LP!computeLiveBefore(b, after)
<1>1. Live!computeLiveAfter(b) = LP!computeLiveAfter(b)
  BY DEF Live!computeLiveAfter, LP!computeLiveAfter, Live!fn, LP!fn
<1>2. Live!computeLiveBefore(b, after) = LP!computeLiveBefore(b, after)
  BY DEF Live!computeLiveBefore, LP!computeLiveBefore, Live!liveVarsKill,
         LP!liveVarsKill, Live!liveVarsGen, LP!liveVarsGen,
         Live!getUpwardsExposedUses, LP!getUpwardsExposedUses,
         Live!getAllDefs, LP!getAllDefs, Live!getOneInstrRegUses,
         LP!getOneInstrRegUses, Live!getOneInstrRegDefs,
         LP!getOneInstrRegDefs, Live!addAliases, LP!addAliases, Live!fn, LP!fn
<1>3. QED BY <1>1, <1>2

LEMMA SameTest ==
  ASSUME NEW b \in Block, NEW x, NEW y
  PROVE  /\ Live!Changed(x, y) = LP!Changed(x, y)
         /\ Live!Requeued(b) = LP!Requeued(b)
         /\ Live!First(b) = LP!First(b)
BY DEF Live!Changed, LP!Changed, Live!Cardinality, LP!Cardinality, Live!Requeued, LP!Requeued, Live!First, LP!First, Live!pred, LP!pred, Live!fn, LP!fn

\* Of the steps of the allocator those of the live-variable analysis are its
\* steps, and the others leave it alone.
LEMMA RefinesLive == Spec => LP!Spec
<1>1. Init => LP!Init
  BY DEF Init, Live!Init, LP!Init, Live!NoRegs, LP!NoRegs, Live!AllInstrs,
         LP!AllInstrs, Live!NoInstrs, LP!NoInstrs, Live!fn, LP!fn
<1>2. [Next]_vars => [LP!Next]_(LP!vars)
  <2> SUFFICES ASSUME [Next]_vars PROVE [LP!Next]_(LP!vars)
    OBVIOUS
  <2>1. CASE DoLiveAnalysis
    <3>1. PICK b \in Block : Live!LiveBlock(b) \/ Live!LiveInstr(b)
      BY <2>1 DEF DoLiveAnalysis
    <3>2. Live!LiveBlock(b) => LP!LiveBlock(b)
      BY SameFlow, SameTest DEF Live!LiveBlock, LP!LiveBlock
    <3>3. Live!LiveInstr(b) => LP!LiveInstr(b)
      BY DEF Live!LiveInstr, LP!LiveInstr, Live!At, LP!At, Live!Put, LP!Put,
             Live!getOneInstrRegUses, LP!getOneInstrRegUses,
             Live!getOneInstrRegDefs, LP!getOneInstrRegDefs,
             Live!addAliases, LP!addAliases, Live!fn, LP!fn
    <3>4. QED BY <3>1, <3>2, <3>3 DEF LP!Next
  <2>2. CASE NextFn
    BY <2>2 DEF NextFn, Live!NextFn, LP!NextFn, Live!Done, LP!Done, Live!fn,
         LP!fn, LP!Next, Live!NoRegs, LP!NoRegs, Live!AllInstrs, LP!AllInstrs,
         Live!Cleared, LP!Cleared, Live!NoInstrs, LP!NoInstrs
  <2>3. CASE UNCHANGED <<todo, liveVars>>
    BY <2>3 DEF liveVars, LP!vars
  <2>4. DoReachingDefsAnalysis => UNCHANGED <<todo, liveVars>>
    BY DEF DoReachingDefsAnalysis, RD!RDBlock, RD!RDInstr
  <2>5. BuildRanges \/ BuildGraph \/ Finished \/ UNCHANGED vars => UNCHANGED <<todo, liveVars>>
    BY DEF BuildRanges, BuildGraph, Finished, vars
  <2>6. QED BY <2>1, <2>2, <2>3, <2>4, <2>5 DEF Next
<1>3. QED BY <1>1, <1>2, PTL DEF Spec, LP!Spec

\* Composed, each analysis is what it is by itself: what the stages share, the
\* functions still to be run on, they never change under one another.
THEOREM RunsBoth == Spec => Live!Spec /\ RD!Spec
<1>1. Init => Live!Init /\ RD!Init
  BY DEF Init
<1>2. [Next]_vars => [Live!Next]_(Live!vars)
  <2> SUFFICES ASSUME [Next]_vars PROVE [Live!Next]_(Live!vars)
    OBVIOUS
  <2>1. DoLiveAnalysis \/ NextFn => Live!Next
    BY DEF DoLiveAnalysis, NextFn, Live!Next
  <2>2. DoReachingDefsAnalysis => UNCHANGED Live!vars
    BY DEF DoReachingDefsAnalysis, RD!RDBlock, RD!RDInstr, liveVars, Live!vars
  <2>3. BuildRanges \/ BuildGraph \/ Finished \/ UNCHANGED vars => UNCHANGED Live!vars
    BY DEF BuildRanges, BuildGraph, Finished, vars, liveVars, Live!vars
  <2>4. QED BY <2>1, <2>2, <2>3 DEF Next
<1>3. [Next]_vars => [RD!Next]_(RD!vars)
  <2> SUFFICES ASSUME [Next]_vars PROVE [RD!Next]_(RD!vars)
    OBVIOUS
  <2>1. DoReachingDefsAnalysis \/ NextFn => RD!Next
    BY DEF DoReachingDefsAnalysis, NextFn, RD!Next
  <2>2. DoLiveAnalysis => UNCHANGED RD!vars
    BY DEF DoLiveAnalysis, Live!LiveBlock, Live!LiveInstr, rdVars, RD!vars
  <2>3. BuildRanges \/ BuildGraph \/ Finished \/ UNCHANGED vars => UNCHANGED RD!vars
    BY DEF BuildRanges, BuildGraph, Finished, vars, rdVars, RD!vars
  <2>4. QED BY <2>1, <2>2, <2>3 DEF Next
<1>4. QED BY <1>1, <1>2, <1>3, PTL DEF Spec, Live!Spec, RD!Spec

LEMMA LiveTyped == Spec => []LP!TypeOK
<1>1. LP!Spec => []LP!TypeOK
  BY LP!TypeCorrect, BlockAssumption, RegAssumption, ModulesAssumption
     DEF MachineFunction, LP!MachineFunction, Instr, LP!Instr, IsFiniteSet,
         LP!IsFiniteSet
<1>2. QED BY <1>1, RefinesLive, PTL

-----------------------------------------------------------------------------
(***************************************************************************)
(* The inductive invariant: each stage leaves its results as it made them  *)
(* until the next function, and the two maps of the instruction stage fit  *)
(* together at every instruction.                                          *)
(***************************************************************************)
Ranges == [r \in {r \in Reg : HasRange(r)} |-> RangeOf(r)]

Edges == {e \in (DOMAIN range) \X (DOMAIN range) :
            e[1] # e[2] /\ set_intersect(e[1], e[2])}

StageInv ==
  /\ stage \in {"live", "reaching", "ranges", "graph", "done"}
  /\ stage # "live" => Live!Done
  /\ stage \in {"live", "reaching", "ranges"} => range = << >>
  /\ stage \in {"graph", "done"} => range = Ranges
  /\ stage # "done" => graph = {}
  /\ stage = "done" => graph = Edges

InstrSolved ==
  \A i \in DOMAIN insLiveBefore :
    insLiveBefore[i] = (insLiveAfter[i] \ getOneInstrRegDefs(At(fn, i)))
                         \cup getOneInstrRegUses(At(fn, i))

LEMMA StageInit == Init => StageInv
BY DEF Init, StageInv

\* A stage that leaves the maps of the analysis alone leaves the ranges alone.
LEMMA SameRanges ==
  ASSUME UNCHANGED <<todo, insLiveBefore>>
  PROVE  Ranges' = Ranges
BY DEF Ranges, HasRange, RangeOf, DefinedAt, LiveAt, fn

LEMMA StageStep == StageInv /\ [Next]_vars => StageInv'
<1> SUFFICES ASSUME StageInv, [Next]_vars PROVE StageInv'
  OBVIOUS
<1>1. CASE DoLiveAnalysis
  <2>1. stage' \in {"live", "reaching"} /\ (stage' # "live" => Live!Done')
    BY <1>1 DEF DoLiveAnalysis
  <2>2. range' = << >> /\ graph' = {}
    BY <1>1 DEF DoLiveAnalysis, StageInv
  <2>3. QED BY <2>1, <2>2 DEF StageInv
<1>2. CASE DoReachingDefsAnalysis
  <2>1. UNCHANGED <<todo, liveVars, range, graph>>
    BY <1>2 DEF DoReachingDefsAnalysis, RD!RDBlock, RD!RDInstr
  <2>2. stage = "reaching" /\ stage' \in {"reaching", "ranges"}
    BY <1>2 DEF DoReachingDefsAnalysis
  <2>3. Live!Done' = Live!Done
    BY <2>1 DEF liveVars, Live!Done, Live!fn
  <2>4. QED BY <2>1, <2>2, <2>3 DEF StageInv
<1>3. CASE BuildRanges
  <2>1. /\ stage = "ranges" /\ stage' = "graph"
        /\ range' = Ranges
        /\ UNCHANGED <<todo, liveVars, graph>>
    BY <1>3 DEF BuildRanges, Ranges
  <2>2. Live!Done' = Live!Done /\ Ranges' = Ranges
    BY <2>1, SameRanges DEF liveVars, Live!Done, Live!fn
  <2>3. QED BY <2>1, <2>2 DEF StageInv
<1>4. CASE BuildGraph
  <2>1. /\ stage = "graph" /\ stage' = "done"
        /\ graph' = Edges
        /\ UNCHANGED <<todo, liveVars, range>>
    BY <1>4 DEF BuildGraph, Edges
  <2>2. Live!Done' = Live!Done /\ Ranges' = Ranges
    BY <2>1, SameRanges DEF liveVars, Live!Done, Live!fn
  <2>3. Edges' = Edges
    BY <2>1 DEF Edges, set_intersect
  <2>4. QED BY <2>1, <2>2, <2>3 DEF StageInv
<1>5. CASE NextFn
  <2>1. stage' = "live" /\ range' = << >> /\ graph' = {}
    BY <1>5 DEF NextFn
  <2>2. QED BY <2>1 DEF StageInv
<1>6. CASE UNCHANGED vars
  <2>1. UNCHANGED <<todo, liveVars, stage, range, graph>>
    BY <1>6 DEF vars
  <2>2. Live!Done' = Live!Done /\ Ranges' = Ranges /\ Edges' = Edges
    BY <2>1, SameRanges DEF liveVars, Live!Done, Live!fn, Edges, set_intersect
  <2>3. QED BY <2>1, <2>2 DEF StageInv
<1>7. QED BY <1>1, <1>2, <1>3, <1>4, <1>5, <1>6 DEF Next, Finished

LEMMA SolvedInit == Init => InstrSolved
BY DEF Init, Live!Init, Live!NoInstrs, InstrSolved

LEMMA SolvedStep ==
  ASSUME LP!TypeOK, InstrSolved, [Next]_vars
  PROVE  InstrSolved'
<1>1. ASSUME NEW b \in Block, Live!LiveInstr(b) PROVE InstrSolved'
  <2> DEFINE i == <<b, left[b]>>
             after == IF left[b] = Len(fn.code[b])
                      THEN liveAfter[b] ELSE insLiveBefore[<<b, left[b] + 1>>]
             before == (after \ getOneInstrRegDefs(At(fn, i)))
                         \cup getOneInstrRegUses(At(fn, i))
  <2>1. /\ insLiveAfter' = [k \in DOMAIN insLiveAfter \cup {i} |->
                              IF k = i THEN after ELSE insLiveAfter[k]]
        /\ insLiveBefore' = [k \in DOMAIN insLiveBefore \cup {i} |->
                               IF k = i THEN before ELSE insLiveBefore[k]]
        /\ todo' = todo
    BY <1>1 DEF Live!LiveInstr, Live!Put, Live!At, At, Live!fn, fn,
                Live!getOneInstrRegUses, getOneInstrRegUses,
                Live!getOneInstrRegDefs, getOneInstrRegDefs,
                Live!addAliases, addAliases
  <2>2. DOMAIN insLiveAfter = DOMAIN insLiveBefore
    BY DEF LP!TypeOK
  <2>3. fn' = fn
    BY <2>1 DEF fn
  <2> HIDE DEF i, after
  <2>4. ASSUME NEW k \in DOMAIN insLiveBefore'
        PROVE  insLiveBefore'[k] =
                 (insLiveAfter'[k] \ getOneInstrRegDefs(At(fn, k)))
                   \cup getOneInstrRegUses(At(fn, k))
    <3>1. CASE k = i
      BY <2>1, <2>2, <3>1
    <3>2. CASE k # i
      BY <2>1, <2>2, <3>2 DEF InstrSolved
    <3>3. QED BY <3>1, <3>2
  <2>5. QED BY <2>3, <2>4 DEF InstrSolved
<1>2. ASSUME UNCHANGED <<todo, insLiveBefore, insLiveAfter>> PROVE InstrSolved'
  BY <1>2 DEF InstrSolved, fn
<1>3. CASE DoLiveAnalysis
  <2>1. PICK b \in Block : Live!LiveBlock(b) \/ Live!LiveInstr(b)
    BY <1>3 DEF DoLiveAnalysis
  <2>2. Live!LiveBlock(b) => UNCHANGED <<todo, insLiveBefore, insLiveAfter>>
    BY DEF Live!LiveBlock
  <2>3. QED BY <1>1, <1>2, <2>1, <2>2
<1>4. CASE DoReachingDefsAnalysis
  BY <1>2, <1>4 DEF DoReachingDefsAnalysis, RD!RDBlock, RD!RDInstr, liveVars
<1>5. CASE NextFn
  <2>1. insLiveBefore' = [k \in {} |-> {}]
    BY <1>5 DEF NextFn, Live!NextFn, Live!Cleared, Live!NoInstrs
  <2>2. QED BY <2>1 DEF InstrSolved
<1>6. CASE BuildRanges \/ BuildGraph \/ UNCHANGED vars
  BY <1>2, <1>6 DEF BuildRanges, BuildGraph, vars, liveVars
<1>7. QED BY <1>3, <1>4, <1>5, <1>6 DEF Next, Finished

LEMMA Invariant == Spec => [](LP!TypeOK /\ StageInv /\ InstrSolved)
<1>1. LP!TypeOK /\ InstrSolved /\ [Next]_vars => InstrSolved'
  BY SolvedStep
<1>2. QED BY <1>1, LiveTyped, StageInit, StageStep, SolvedInit, PTL DEF Spec

-----------------------------------------------------------------------------
LEMMA FnType ==
  ASSUME LP!TypeOK
  PROVE  fn \in MachineFunction
<1>1. LP!MachineFunction = MachineFunction
  BY DEF MachineFunction, LP!MachineFunction, Instr, LP!Instr
<1>2. todo \in Seq(MachineFunction) \ {<< >>}
  BY <1>1 DEF LP!TypeOK
<1>3. QED BY <1>2 DEF fn

\* What follows a point is a point, and definitions are of registers.
LEMMA PointsAfter ==
  ASSUME NEW f \in MachineFunction, NEW p \in Points(f)
  PROVE  After(f, p) \subseteq Points(f)
<1>1. LP!MachineFunction = MachineFunction /\ LP!Points(f) = Points(f)
  BY DEF MachineFunction, LP!MachineFunction, Instr, LP!Instr, Points, LP!Points
<1>2. LP!After(f, p) = After(f, p)
  BY DEF After, LP!After, Inst, LP!Inst
<1>3. QED
  BY <1>1, <1>2, LP!AfterType, BlockAssumption, RegAssumption,
     ModulesAssumption
     DEF IsFiniteSet, LP!IsFiniteSet

LEMMA DefsAreRegs ==
  ASSUME NEW f \in MachineFunction, NEW i \in Inst(f)
  PROVE  At(f, i).defs \subseteq Reg
<1>1. PICK b \in Block : i \in {b} \X (DOMAIN f.code[b])
  BY DEF Inst
<1>2. f.code[b] \in Seq(Instr)
  BY DEF MachineFunction
<1>3. f.code[b][i[2]] \in Instr
  BY <1>1, <1>2
<1>4. At(f, i) = f.code[b][i[2]]
  BY <1>1 DEF At
<1>5. QED BY <1>3, <1>4 DEF Instr

\* Ranges and graph speak of instructions and virtual registers of the current
\* function only.
THEOREM TypeCorrect == Spec => []TypeOK
<1>1. StageInv => TypeOK
  <2> SUFFICES ASSUME StageInv PROVE TypeOK
    OBVIOUS
  <2>1. DOMAIN range \subseteq VReg /\ \A r \in DOMAIN range : range[r] \subseteq Inst(fn)
    BY DEF StageInv, Ranges, HasRange, RangeOf, DefinedAt, LiveAt
  <2>2. graph \subseteq (DOMAIN range) \X (DOMAIN range)
    BY DEF StageInv, Edges
  <2>3. QED BY <2>1, <2>2 DEF StageInv, TypeOK
<1>2. QED BY <1>1, Invariant, PTL

\* The graph is safe: no colouring of it lets a definition destroy a value
\* that is still wanted, in any function, whatever its graph and its aliases.
THEOREM WantedClashesCorrect == Spec => []WantedClashes
<1>1. LP!TypeOK /\ StageInv /\ InstrSolved => WantedClashes
  <2> SUFFICES ASSUME LP!TypeOK, StageInv, InstrSolved, stage = "done",
                      NEW i \in Inst(fn), NEW r \in At(fn, i).defs \cap VReg,
                      NEW s \in insLiveAfter[i] \cap DOMAIN range, r # s
               PROVE  <<r, s>> \in graph
    BY DEF WantedClashes
  <2>1. /\ graph = Edges
        /\ range = Ranges
        /\ Live!Done
    BY DEF StageInv
  <2>2. i \in DOMAIN insLiveBefore
    <3>1. i \in LP!Inst(LP!fn)
      BY DEF Inst, LP!Inst, fn, LP!fn
    <3>2. \A b \in Block : left[b] = 0
      BY <2>1 DEF Live!Done
    <3>3. fn \in MachineFunction
      BY FnType
    <3>4. PICK b \in Block : i \in {b} \X (DOMAIN fn.code[b])
      BY DEF Inst
    <3>5. fn.code[b] \in Seq(Instr)
      BY <3>3 DEF MachineFunction
    <3>6. i[1] = b /\ i[2] \in Nat /\ i[2] > 0
      BY <3>4, <3>5
    <3>7. i[2] > left[i[1]]
      BY <3>2, <3>6
    <3>8. QED BY <3>1, <3>7 DEF LP!TypeOK
  <2>3. r \in VReg /\ i \in DefinedAt(r)
    BY DEF DefinedAt, VReg
  <2>4. r \in DOMAIN range /\ i \in range[r]
    BY <2>1, <2>3 DEF Ranges, HasRange, RangeOf, VReg
  <2>5. s \in VReg
    BY <2>1 DEF Ranges, HasRange
  <2>6. i \in DefinedAt(s) \cup LiveAt(s)
    <3>1. CASE s \in getOneInstrRegDefs(At(fn, i))
      <4>1. \A q \in Reg : s \notin Alias[q]
        BY <2>5, RegAssumption DEF VReg
      <4>2. At(fn, i).defs \subseteq Reg
        <5>1. fn \in MachineFunction
          BY FnType
        <5>2. QED BY <5>1, DefsAreRegs
      <4>3. s \in At(fn, i).defs
        BY <3>1, <4>1, <4>2 DEF getOneInstrRegDefs, addAliases
      <4>4. QED BY <4>3 DEF DefinedAt
    <3>2. CASE s \notin getOneInstrRegDefs(At(fn, i))
      BY <2>2, <3>2 DEF InstrSolved, LiveAt
    <3>3. QED BY <3>1, <3>2
  <2>7. i \in range[s]
    BY <2>1, <2>6 DEF Ranges, RangeOf
  <2>8. QED BY <2>1, <2>4, <2>7 DEF Edges, set_intersect
<1>2. QED BY <1>1, Invariant, PTL

-----------------------------------------------------------------------------
(***************************************************************************)
(* Execution of the allocated program.  The invariant is about the points  *)
(* that a register is found at: wherever execution is at one, the machine  *)
(* register has its last value.                                            *)
(***************************************************************************)
FoundPoints(r) ==
  {p \in Points(fn) : IF p \in Inst(fn) THEN r \in insLiveBefore[p]
                      ELSE r \in liveAfter[p[1]]}

ProperColouring ==
  /\ colour \in [DOMAIN range -> Colour]
  /\ \A e \in graph : colour[e[1]] # colour[e[2]]

ExecInv ==
  /\ at = Nowhere => \A r \in VReg : last[r] = Nowhere
  /\ at # Nowhere =>
       /\ stage = "done"
       /\ at \in Points(fn)
       /\ ProperColouring
       /\ \A r \in DOMAIN range :
            at \in FoundPoints(r) /\ last[r] # Nowhere =>
              held[colour[r]] = <<r, last[r]>>

\* What is known of the allocator when it is done.
Compiled ==
  /\ LP!TypeOK /\ StageInv
  /\ \A r \in Reg : stage = "done" => ClosedUpstream(fn, r, FoundPoints(r))

LEMMA SameClosed ==
  ASSUME NEW r
  PROVE  LP!ClosedUpstream(LP!fn, r, LP!FoundPoints(r))
           = ClosedUpstream(fn, r, FoundPoints(r))
<1>1. /\ LP!fn = fn
      /\ LP!Points(fn) = Points(fn)
      /\ LP!Inst(fn) = Inst(fn)
  BY DEF LP!fn, fn, LP!Points, Points, LP!Inst, Inst
<1>2. LP!FoundPoints(r) = FoundPoints(r)
  BY <1>1 DEF LP!FoundPoints, FoundPoints
<1>3. \A p : LP!After(fn, p) = After(fn, p)
  BY <1>1 DEF LP!After, After
<1>4. \A p : /\ LP!Uses(fn, p, r) = Uses(fn, p, r)
             /\ LP!Defines(fn, p, r) = Defines(fn, p, r)
  BY <1>1 DEF LP!Uses, Uses, LP!Defines, Defines, LP!At, At, LP!addAliases,
              addAliases
<1>5. QED BY <1>1, <1>2, <1>3, <1>4 DEF LP!ClosedUpstream, ClosedUpstream

LEMMA CompiledInvariant == Spec => []Compiled
<1>1. /\ LP!Spec => []LP!PathInv
      /\ LP!Spec => []LP!InstrWithinBlock
  BY LP!PathInvariant, LP!InstrWithinBlockCorrect, BlockAssumption,
     RegAssumption, ModulesAssumption
     DEF MachineFunction, LP!MachineFunction, Instr, LP!Instr, IsFiniteSet,
         LP!IsFiniteSet
<1>2. LP!PathInv /\ LP!InstrWithinBlock /\ LP!TypeOK /\ StageInv => Compiled
  <2> SUFFICES ASSUME LP!PathInv, LP!InstrWithinBlock, StageInv,
                      NEW r \in Reg, stage = "done"
               PROVE  ClosedUpstream(fn, r, FoundPoints(r))
    BY DEF Compiled
  <2>1. LP!Done
    BY DEF StageInv, Live!Done, LP!Done
  <2>2. LP!ClosedUpstream(LP!fn, r, LP!FoundPoints(r))
    BY <2>1, LP!FoundIsClosed, BlockAssumption, RegAssumption,
       ModulesAssumption
       DEF LP!PathInv, MachineFunction, LP!MachineFunction, Instr, LP!Instr,
           IsFiniteSet, LP!IsFiniteSet
  <2>3. QED BY <2>2, SameClosed
<1>3. QED BY <1>1, <1>2, RefinesLive, Invariant, PTL

\* Execution changes nothing of the allocator's.
LEMMA ExecRuns == ExecSpec => Spec
<1>1. ExecInit => Init
  BY DEF ExecInit
<1>2. [ExecNext]_execVars => [Next]_vars
  BY DEF ExecNext, Compile, Allocate, Execute, execVars
<1>3. QED BY <1>1, <1>2, PTL DEF ExecSpec, Spec

LEMMA RangeParts ==
  ASSUME Compiled, stage = "done", NEW r \in DOMAIN range
  PROVE  /\ r \in VReg /\ r \in Reg
         /\ range[r] = DefinedAt(r) \cup LiveAt(r)
         /\ \A q \in Reg : r \notin Alias[q]
BY RegAssumption DEF Compiled, StageInv, Ranges, HasRange, RangeOf, VReg

\* Two registers with an instruction in both their ranges differ in colour.
LEMMA ColoursDiffer ==
  ASSUME Compiled, stage = "done", ProperColouring,
         NEW r \in DOMAIN range, NEW s \in DOMAIN range, r # s,
         NEW i \in range[r] \cap range[s]
  PROVE  colour[r] # colour[s]
<1>1. <<r, s>> \in Edges
  BY DEF Edges, set_intersect
<1>2. <<r, s>> \in graph
  BY <1>1 DEF Compiled, StageInv
<1>3. QED BY <1>2 DEF ProperColouring

\* What an instruction does to the machine register of a register r: it puts
\* r's new value there, or leaves it alone if r is found after it.
LEMMA ExecuteStep ==
  ASSUME Compiled, ExecInv, Execute
  PROVE  ExecInv'
<1> DEFINE defs == IF at \in Inst(fn) THEN At(fn, at).defs ELSE {}
           in(c) == {r \in defs \cap DOMAIN colour : colour[r] = c}
<1>1. /\ at # Nowhere
      /\ at' \in After(fn, at)
      /\ last' = [r \in VReg |-> IF r \in defs THEN at ELSE last[r]]
      /\ held' = [c \in Colour |-> IF in(c) = {} THEN held[c]
                                   ELSE <<CHOOSE r \in in(c) : TRUE, at>>]
      /\ UNCHANGED <<vars, colour>>
  BY DEF Execute
<1>2. /\ stage = "done"
      /\ at \in Points(fn)
      /\ ProperColouring
      /\ DOMAIN colour = DOMAIN range
  BY <1>1 DEF ExecInv, ProperColouring
<1>3. at' \in Points(fn)
  <2>1. fn \in MachineFunction
    BY FnType DEF Compiled
  <2>2. QED BY <1>1, <1>2, <2>1, PointsAfter
<1>4. /\ stage' = stage /\ fn' = fn /\ range' = range
      /\ ProperColouring' = ProperColouring
      /\ \A r : FoundPoints(r)' = FoundPoints(r)
  BY <1>1 DEF vars, liveVars, fn, ProperColouring, FoundPoints
<1>5. ASSUME NEW r \in DOMAIN range, at' \in FoundPoints(r), last'[r] # Nowhere
      PROVE  held'[colour[r]] = <<r, last'[r]>>
  <2>1. /\ r \in VReg /\ r \in Reg
        /\ range[r] = DefinedAt(r) \cup LiveAt(r)
        /\ \A q \in Reg : r \notin Alias[q]
        /\ colour[r] \in Colour
    BY <1>2, <1>5, RangeParts DEF ProperColouring
  <2>2. \A s \in defs \cap DOMAIN colour : at \in range[s]
    <3> SUFFICES ASSUME NEW s \in defs \cap DOMAIN colour PROVE at \in range[s]
      OBVIOUS
    <3>1. at \in Inst(fn) /\ s \in At(fn, at).defs
      OBVIOUS
    <3>2. range[s] = DefinedAt(s) \cup LiveAt(s)
      BY <1>2, RangeParts
    <3>3. QED BY <3>1, <3>2 DEF DefinedAt
  <2>3. CASE r \in defs
    <3>1. r \in in(colour[r])
      BY <1>2, <1>5, <2>3
    <3>2. \A s \in in(colour[r]) : s = r
      BY <1>2, <1>5, <2>2, <2>3, ColoursDiffer
    <3>3. (CHOOSE s \in in(colour[r]) : TRUE) = r
      BY <3>1, <3>2
    <3>4. held'[colour[r]] = <<r, at>>
      BY <1>1, <2>1, <3>1, <3>3
    <3>5. last'[r] = at
      BY <1>1, <2>1, <2>3
    <3>6. QED BY <3>4, <3>5
  <2>4. CASE r \notin defs
    <3>1. last'[r] = last[r]
      BY <1>1, <2>1, <2>4
    <3>2. ~ Defines(fn, at, r)
      <4>1. ASSUME at \in Inst(fn) PROVE At(fn, at).defs \subseteq Reg
        <5>1. fn \in MachineFunction
          BY FnType DEF Compiled
        <5>2. QED BY <4>1, <5>1, DefsAreRegs
      <4>2. QED BY <2>1, <2>4, <4>1 DEF Defines, addAliases
    <3>3. at \in FoundPoints(r)
      BY <1>1, <1>2, <1>5, <2>1, <3>2 DEF Compiled, ClosedUpstream
    <3>4. held[colour[r]] = <<r, last[r]>>
      BY <1>1, <1>5, <3>1, <3>3 DEF ExecInv
    <3>5. in(colour[r]) = {}
      <4>1. SUFFICES ASSUME NEW s \in in(colour[r]) PROVE FALSE
        OBVIOUS
      <4>2. s \in DOMAIN range /\ s # r /\ at \in range[s] /\ at \in Inst(fn)
        BY <1>2, <2>2, <2>4
      <4>3. at \in range[r]
        BY <2>1, <3>3, <4>2 DEF FoundPoints, LiveAt
      <4>4. QED BY <1>2, <1>5, <4>2, <4>3, ColoursDiffer
    <3>6. held'[colour[r]] = held[colour[r]]
      BY <1>1, <2>1, <3>5
    <3>7. QED BY <3>1, <3>4, <3>6
  <2>5. QED BY <2>3, <2>4
<1>6. at' # Nowhere
  <2>1. at'[2] # 0
    BY <1>3 DEF Points
  <2>2. QED BY <2>1 DEF Nowhere
<1>7. colour' = colour
  BY <1>1
<1> HIDE DEF defs, in
<1>8. QED BY <1>2, <1>3, <1>4, <1>5, <1>6, <1>7 DEF ExecInv

LEMMA AllocateStep ==
  ASSUME Compiled, ExecInv, Allocate
  PROVE  ExecInv'
<1>1. /\ stage' = "done" /\ at = Nowhere /\ at' = <<Entry, 1>>
      /\ UNCHANGED <<todo, liveVars, range, graph, last, held>>
  BY DEF Allocate, vars
<1>2. at' # Nowhere /\ at' \in Points(fn)'
  <2>1. fn \in MachineFunction /\ fn' = fn
    BY <1>1, FnType DEF Compiled, fn
  <2>2. fn.code[Entry] \in Seq(Instr)
    BY <2>1, EntryAssumption DEF MachineFunction
  <2>3. 1 \in 1 .. Len(fn.code[Entry]) + 1
    BY <2>2
  <2>4. QED BY <1>1, <2>1, <2>3, EntryAssumption DEF Points, Nowhere
<1>3. ProperColouring'
  BY <1>1 DEF Allocate, ProperColouring
<1>4. \A r \in DOMAIN range : last'[r] = Nowhere
  BY <1>1, RangeParts DEF ExecInv, Allocate
<1>5. QED BY <1>1, <1>2, <1>3, <1>4 DEF ExecInv

LEMMA ExecInvariant == ExecSpec => []ExecInv
<1>1. ExecInit => ExecInv
  BY DEF ExecInit, ExecInv
<1>2. Compiled /\ ExecInv /\ [ExecNext]_execVars => ExecInv'
  <2> SUFFICES ASSUME Compiled, ExecInv, [ExecNext]_execVars PROVE ExecInv'
    OBVIOUS
  <2>1. CASE Compile
    BY <2>1 DEF Compile, ExecInv
  <2>2. CASE UNCHANGED execVars
    <3>1. UNCHANGED <<vars, colour, at, last, held>>
      BY <2>2 DEF execVars
    <3>2. UNCHANGED <<stage, fn, range, ProperColouring>>
      BY <3>1 DEF vars, liveVars, fn, ProperColouring
    <3>3. Points(fn)' = Points(fn) /\ \A r : FoundPoints(r)' = FoundPoints(r)
      BY <3>1, <3>2 DEF vars, liveVars, FoundPoints
    <3>4. QED BY <3>1, <3>2, <3>3 DEF ExecInv
  <2>3. QED BY <2>1, <2>2, AllocateStep, ExecuteStep DEF ExecNext
<1>3. QED BY <1>1, <1>2, ExecRuns, CompiledInvariant, PTL DEF ExecSpec

\* Every proper colouring of the graph keeps every value: on no path does an
\* instruction find another register's value, or an older one, in the machine
\* register of a register it uses.
THEOREM ValuesKeptCorrect == ExecSpec => []ValuesKept
<1>1. Compiled /\ ExecInv => ValuesKept
  <2> SUFFICES ASSUME Compiled, ExecInv, at \in Inst(fn),
                      NEW r \in At(fn, at).uses \cap DOMAIN colour,
                      last[r] # Nowhere
               PROVE  held[colour[r]] = <<r, last[r]>>
    BY DEF ValuesKept
  <2>1. at # Nowhere
    <3>1. fn \in MachineFunction
      BY FnType DEF Compiled
    <3>2. PICK b \in Block : at \in {b} \X (DOMAIN fn.code[b])
      BY DEF Inst
    <3>3. fn.code[b] \in Seq(Instr)
      BY <3>1 DEF MachineFunction
    <3>4. at[2] # 0
      BY <3>2, <3>3
    <3>5. QED BY <3>4 DEF Nowhere
  <2>2. r \in DOMAIN range /\ stage = "done" /\ at \in Points(fn)
    BY <2>1 DEF ExecInv, ProperColouring
  <2>3. r \in Reg
    BY <2>2, RangeParts
  <2>4. Uses(fn, at, r)
    BY DEF Uses, addAliases
  <2>5. at \in FoundPoints(r)
    BY <2>2, <2>3, <2>4 DEF Compiled, ClosedUpstream
  <2>6. QED BY <2>1, <2>2, <2>5 DEF ExecInv
<1>2. QED BY <1>1, ExecRuns, CompiledInvariant, ExecInvariant, PTL

=============================================================================
