-------------------------------- MODULE Gcra --------------------------------
(***************************************************************************)
(* The graph-colouring register allocator as a whole (p1/src/Gcra.cpp,     *)
(* runOnMachineFunction, classes LiveRange and Graph): the two analyses    *)
(* one after the other, then live ranges, then the interference graph, for *)
(* one function after the other of a module.                               *)
(***************************************************************************)
EXTENDS MachineFn

VARIABLES
  todo,
  liveWork, liveBefore, liveAfter, left, insLiveBefore, insLiveAfter,
  RDfactSet, rdWork, RDbefore, RDafter, walked, insRDbefore, insRDafter,
  stage,    \* which step of runOnMachineFunction comes next
  range,    \* LiveRange::range: the instructions a register is live at
  graph     \* Graph::graph, the pairs <<r, s>> with s in the set of r

liveVars == <<liveWork, liveBefore, liveAfter, left, insLiveBefore, insLiveAfter>>
rdVars == <<RDfactSet, rdWork, RDbefore, RDafter, walked, insRDbefore, insRDafter>>
vars == <<todo, liveVars, rdVars, stage, range, graph>>

Live == INSTANCE GcraLive WITH worklist <- liveWork
RD == INSTANCE GcraRDefs WITH worklist <- rdWork

fn == Head(todo)

\* Instructions with a def operand for a register, the aliases left out.
DefinedAt(r) == {i \in Inst(fn) : r \in At(fn, i).defs}
LiveAt(r) == {i \in Inst(fn) : r \in insLiveBefore[i]}

\* Variants of LiveRange: a dead definition has no range; only the block of a
\* definition is searched; physical registers get ranges too.
UsesOnly(r) == LiveAt(r)
SameBlock(r) ==
  DefinedAt(r) \cup {i \in LiveAt(r) : \E j \in DefinedAt(r) : i[1] = j[1]}
IsDefined(r) == DefinedAt(r) # {}

\* LiveRange: the definitions of a register and wherever it is live.
RangeOf(r) == DefinedAt(r) \cup LiveAt(r)

\* The constructor of LiveRange skips physical registers.
HasRange(r) == r \in VReg /\ DefinedAt(r) # {}

\* Graph::set_intersect
set_intersect(r, s) == range[r] \cap range[s] # {}

Init ==
  /\ Live!Init
  /\ RD!Init
  /\ stage = "live"
  /\ range = << >>
  /\ graph = {}

DoLiveAnalysis ==
  /\ stage = "live"
  /\ \E b \in Block : Live!LiveBlock(b) \/ Live!LiveInstr(b)
  /\ stage' = IF Live!Done' THEN "reaching" ELSE "live"
  /\ UNCHANGED <<rdVars, range, graph>>

DoReachingDefsAnalysis ==
  /\ stage = "reaching"
  /\ \E b \in Block : RD!RDBlock(b) \/ RD!RDInstr(b)
  /\ stage' = IF RD!Done' THEN "ranges" ELSE "reaching"
  /\ UNCHANGED <<liveVars, range, graph>>

\* The constructor of LiveRange.
BuildRanges ==
  /\ stage = "ranges"
  /\ range' = [r \in {r \in Reg : HasRange(r)} |-> RangeOf(r)]
  /\ stage' = "graph"
  /\ UNCHANGED <<todo, liveVars, rdVars, graph>>

\* The constructor of Graph: connect(r, s) and connect(s, r).
BuildGraph ==
  /\ stage = "graph"
  /\ graph' = {e \in (DOMAIN range) \X (DOMAIN range) :
                 e[1] # e[2] /\ set_intersect(e[1], e[2])}
  /\ stage' = "done"
  /\ UNCHANGED <<todo, liveVars, rdVars, range>>

NextFn ==
  /\ stage = "done"
  /\ Live!NextFn
  /\ RD!NextFn
  /\ stage' = "live"
  /\ range' = << >>
  /\ graph' = {}

Finished == stage = "done" /\ Len(todo) = 1 /\ UNCHANGED vars

Next ==
  \/ DoLiveAnalysis \/ DoReachingDefsAnalysis
  \/ BuildRanges \/ BuildGraph
  \/ NextFn \/ Finished

Spec == Init /\ [][Next]_vars
FairSpec == Spec /\ WF_vars(Next)

-----------------------------------------------------------------------------
\* The three results agree on what they are about, whichever function is being
\* run on: no instruction, and no register, of an earlier one is left in them.
TypeOK ==
  /\ stage \in {"live", "reaching", "ranges", "graph", "done"}
  /\ DOMAIN range \subseteq VReg
  /\ \A r \in DOMAIN range : range[r] \subseteq Inst(fn)
  /\ graph \subseteq (DOMAIN range) \X (DOMAIN range)

\* A register that an instruction defines cannot share a colour with another
\* whose value is still wanted after it (LiveRange and Graph, lines 60 to 137):
\* writing the one would destroy the other.
WantedClashes ==
  stage = "done" =>
    \A i \in Inst(fn) : \A r \in At(fn, i).defs \cap VReg :
      \A s \in insLiveAfter[i] \cap DOMAIN range : r # s => <<r, s>> \in graph

=============================================================================
