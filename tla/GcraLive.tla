------------------------------ MODULE GcraLive ------------------------------
(***************************************************************************)
(* Live-variable analysis of the graph-colouring register allocator        *)
(* (p1/src/Gcra.cpp, doLiveAnalysis), over the functions of a module one   *)
(* after the other.                                                        *)
(*                                                                         *)
(* The first stage works on blocks, with a worklist ordered by address;    *)
(* the second walks the instructions of every block backwards from the     *)
(* block's liveAfter set.  A step is one iteration of a loop.              *)
(***************************************************************************)
EXTENDS MachineFn

VARIABLES
  todo,           \* the functions still to be run on, the current one first
  worklist,       \* blocks whose equations may not hold
  liveBefore,     \* liveBeforeMap
  liveAfter,      \* liveAfterMap
  left,           \* instructions still in instVector, for every block
  insLiveBefore,  \* insLiveBeforeMap, keyed by the instructions in it
  insLiveAfter    \* insLiveAfterMap

vars == <<todo, worklist, liveBefore, liveAfter, left, insLiveBefore,
          insLiveAfter>>

fn == Head(todo)

liveVarsGen(b) == getUpwardsExposedUses(fn, b)
liveVarsKill(b) == getAllDefs(fn, b)

NoRegs == [b \in Block |-> {}]
NoInstrs == [i \in {} |-> {}]
AllInstrs(f) == [b \in Block |-> Len(f.code[b])]

\* What clear() leaves of a map, and a variant that forgets to call it.
Kept(map) == map
Cleared(map) == NoInstrs

Put(map, key, value) ==
  [k \in DOMAIN map \cup {key} |-> IF k = key THEN value ELSE map[k]]

-----------------------------------------------------------------------------

Init ==
  /\ todo \in Modules
  /\ worklist = Block
  /\ liveBefore = NoRegs
  /\ liveAfter = NoRegs
  /\ left = AllInstrs(fn)
  /\ insLiveBefore = NoInstrs
  /\ insLiveAfter = NoInstrs

\* Variants that bugs in the loop would turn the definitions after them into.
RequeueSuccs(b) == fn.succ[b]
NotSmaller(new, old) == Cardinality(new) >= Cardinality(old)
KillLast(b, after) == (after \cup liveVarsGen(b)) \ liveVarsKill(b)
NoKill(b, after) == after \cup liveVarsGen(b)

computeLiveAfter(b) == UNION {liveBefore[s] : s \in fn.succ[b]}
computeLiveBefore(b, after) == (after \ liveVarsKill(b)) \cup liveVarsGen(b)

\* The test that newLiveBefore has changed, and what then goes back on the list.
Changed(new, old) == Cardinality(new) > Cardinality(old)
Requeued(b) == pred(fn, b)

\* worklist.begin(): the block with the lowest address.
First(b) == b \in worklist /\ \A c \in worklist : fn.addr[b] <= fn.addr[c]

\* One iteration of the loop of analyzeBasicBlocksLiveVars.  The new set
\* replaces the old one only if it is larger.
LiveBlock(b) ==
  /\ First(b)
  /\ LET newLiveAfter == computeLiveAfter(b)
         newLiveBefore == computeLiveBefore(b, newLiveAfter)
     IN  /\ liveAfter' = [liveAfter EXCEPT ![b] = newLiveAfter]
         /\ \/ /\ Changed(newLiveBefore, liveBefore[b])
               /\ liveBefore' = [liveBefore EXCEPT ![b] = newLiveBefore]
               /\ worklist' = (worklist \ {b}) \cup Requeued(b)
            \/ /\ ~ Changed(newLiveBefore, liveBefore[b])
               /\ worklist' = worklist \ {b}
               /\ UNCHANGED liveBefore
  /\ UNCHANGED <<todo, left, insLiveBefore, insLiveAfter>>

\* One iteration of the loop of liveForInstr, on the last instruction left in
\* instVector.  Blocks are visited in layout order.
LiveInstr(b) ==
  /\ worklist = {}
  /\ left[b] > 0
  /\ \A c \in Block : c < b => left[c] = 0
  /\ LET i == <<b, left[b]>>
         after == IF left[b] = Len(fn.code[b])
                  THEN liveAfter[b] ELSE insLiveBefore[<<b, left[b] + 1>>]
         gen == getOneInstrRegUses(At(fn, i))
         kill == getOneInstrRegDefs(At(fn, i))
     IN  /\ insLiveAfter' = Put(insLiveAfter, i, after)
         /\ insLiveBefore' = Put(insLiveBefore, i, (after \ kill) \cup gen)
  /\ left' = [left EXCEPT ![b] = @ - 1]
  /\ UNCHANGED <<todo, worklist, liveBefore, liveAfter>>

Done == worklist = {} /\ \A b \in Block : left[b] = 0

\* runOnMachineFunction on the next function clears every map.
NextFn ==
  /\ Done
  /\ Len(todo) > 1
  /\ todo' = Tail(todo)
  /\ worklist' = Block
  /\ liveBefore' = NoRegs
  /\ liveAfter' = NoRegs
  /\ left' = AllInstrs(Head(todo'))
  /\ insLiveBefore' = Cleared(insLiveBefore)
  /\ insLiveAfter' = Cleared(insLiveAfter)

Finished == Done /\ Len(todo) = 1 /\ UNCHANGED vars

Next ==
  \/ \E b \in Block : LiveBlock(b) \/ LiveInstr(b)
  \/ NextFn
  \/ Finished

Spec == Init /\ [][Next]_vars

\* The pass runs alone and to completion.
FairSpec == Spec /\ WF_vars(Next)

-----------------------------------------------------------------------------
\* Maps hold registers of the function being run on, and only for it.
TypeOK ==
  /\ todo \in Seq(MachineFunction) \ {<< >>}
  /\ worklist \subseteq Block
  /\ liveBefore \in [Block -> SUBSET Reg]
  /\ liveAfter \in [Block -> SUBSET Reg]
  /\ left \in [Block -> Nat]
  /\ \A b \in Block : left[b] <= Len(fn.code[b])
  /\ DOMAIN insLiveBefore = {i \in Inst(fn) : i[2] > left[i[1]]}
  /\ DOMAIN insLiveAfter = DOMAIN insLiveBefore
  /\ \A i \in DOMAIN insLiveBefore :
       insLiveBefore[i] \in SUBSET Reg /\ insLiveAfter[i] \in SUBSET Reg

\* A block that is not on the worklist satisfies its equations, so that an
\* empty worklist means a solution: no block whose successors changed after
\* it was last computed is ever left behind (analyzeBasicBlocksLiveVars).
OffWorklistSolved ==
  \A b \in Block \ worklist :
    /\ liveAfter[b] = computeLiveAfter(b)
    /\ liveBefore[b] = computeLiveBefore(b, liveAfter[b])

\* What the analysis promises: the least solution of the liveness equations
\* once the worklist is empty, before anything reads it, and afresh for every
\* function.
DF == INSTANCE Dataflow WITH
        Node <- Block, Fact <- Reg, sol <- liveBefore, solved <- worklist = {},
        prob <- [dep |-> fn.succ,
                 gen |-> [b \in Block |-> liveVarsGen(b)],
                 kill |-> [b \in Block |-> liveVarsKill(b)]]
LeastLiveness == DF!Spec

\* When the analysis of a function ends, every register that some path goes
\* on to use unmodified is in the sets of blocks and instructions.
LiveIsFound ==
  Done => \A r \in Reg : \A p \in LivePoints(fn, r) :
    /\ p[2] = 1 => r \in liveBefore[p[1]]
    /\ p \in Inst(fn) => r \in insLiveBefore[p]

\* ... and nothing else is, in blocks or in instructions, at least of registers
\* that have no aliases.
FoundIsLive ==
  Done => \A r \in VReg :
    /\ \A b \in Block : r \in liveBefore[b] => <<b, 1>> \in LivePoints(fn, r)
    /\ \A i \in Inst(fn) : r \in insLiveBefore[i] => i \in LivePoints(fn, r)

\* The two stages treat aliases differently, getAllDefs leaving them out of
\* the kill set, so what they find at the start of a block may differ; the
\* instruction stage then only ever finds less.
InstrWithinBlock ==
  \A b \in Block :
    <<b, 1>> \in DOMAIN insLiveBefore =>
      insLiveBefore[<<b, 1>>] \subseteq liveBefore[b]

\* No step of an analysis is for nothing: it makes one set strictly larger and
\* leaves the others alone, or takes a block or an instruction off its list.
\* Requeueing therefore cannot go on for ever.
Progress ==
  [][todo' = todo =>
       \/ \E b \in worklist :
            /\ liveBefore[b] \subseteq liveBefore'[b]
            /\ liveBefore[b] # liveBefore'[b]
            /\ \A c \in Block \ {b} : liveBefore'[c] = liveBefore[c]
       \/ /\ UNCHANGED liveBefore
          /\ worklist' \subseteq worklist
          /\ worklist' # worklist
       \/ /\ UNCHANGED <<liveBefore, liveAfter, worklist>>
          /\ \E b \in Block : left'[b] < left[b]]_vars

\* The pass gets through every function of the module, cyclic or not.
Terminates == <>(Done /\ Len(todo) = 1)

=============================================================================
