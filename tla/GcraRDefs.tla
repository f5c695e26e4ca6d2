----------------------------- MODULE GcraRDefs -----------------------------
(***************************************************************************)
(* Reaching-definitions analysis of the graph-colouring register allocator *)
(* (p1/src/Gcra.cpp, doInit and doReachingDefsAnalysis).                   *)
(*                                                                         *)
(* The sets of this analysis are std::set<RDfact *>: a fact is a pointer,  *)
(* and two facts are the same only if they are one object.  Objects for a  *)
(* definition are made in three places, and "made" says in which, so that  *)
(* equality of records is identity of objects.                             *)
(***************************************************************************)
EXTENDS MachineFn

VARIABLES
  todo,         \* the functions still to be run on, the current one first
  RDfactSet,    \* the facts doInit made
  worklist,     \* blocks whose equations may not hold
  RDbefore,     \* RDbeforeMap
  RDafter,      \* RDafterMap
  walked,       \* instructions of a block already iterated over
  insRDbefore,  \* insRDbeforeMap, keyed by the instructions in it
  insRDafter    \* insRDafterMap

vars == <<todo, RDfactSet, worklist, RDbefore, RDafter, walked, insRDbefore,
          insRDafter>>

fn == Head(todo)

RDfact == [reg : Reg, inst : Block \X Nat, made : {"doInit", "block", "instr"}]

new(r, i, place) == [reg |-> r, inst |-> i, made |-> place]

\* One object per definition and place, the aliases of a register included.
FactsOf(f, i, place) ==
  {new(r, i, place) : r \in getOneInstrRegDefs(At(f, i))}

Matching(S, R) == {d \in S : d.reg \in R}

DefsIn(b) == UNION {getOneInstrRegDefs(fn.code[b][k]) : k \in DOMAIN fn.code[b]}

getRDgen(b) == UNION {FactsOf(fn, <<b, k>>, "block") : k \in DOMAIN fn.code[b]}
getRDkill(b) == Matching(RDfactSet, DefsIn(b))

NoFacts == [b \in Block |-> {}]
NoInstrs == [i \in {} |-> {}]
NoneWalked == [b \in Block |-> 0]

Put(map, key, value) ==
  [k \in DOMAIN map \cup {key} |-> IF k = key THEN value ELSE map[k]]

\* What clear() leaves of a set and of a map, and variants that forget it.
KeptSet(S) == S
ClearedSet(S) == {}
KeptMap(map) == map
ClearedMap(map) == NoInstrs

\* What doInit inserts into RDfactSet.
doInit(f) == UNION {FactsOf(f, i, "doInit") : i \in Inst(f)}

-----------------------------------------------------------------------------

Init ==
  /\ todo \in Modules
  /\ RDfactSet = doInit(fn)
  /\ worklist = Block
  /\ RDbefore = NoFacts
  /\ RDafter = NoFacts
  /\ walked = NoneWalked
  /\ insRDbefore = NoInstrs
  /\ insRDafter = NoInstrs

\* Variants that bugs in the loop would turn the definitions after them into.
FromSuccs(b) == UNION {RDafter[s] : s \in fn.succ[b]}
NoGen(b, before) == before \ getRDkill(b)
NotSmaller(newSet, old) == Cardinality(newSet) >= Cardinality(old)
RequeuePreds(b) == pred(fn, b)

computeRDbefore(b) == UNION {RDafter[c] : c \in pred(fn, b)}
computeRDafter(b, before) == (before \ getRDkill(b)) \cup getRDgen(b)

Changed(newSet, old) == Cardinality(newSet) > Cardinality(old)
Requeued(b) == fn.succ[b]

\* worklist.begin(): the block with the lowest address.
First(b) == b \in worklist /\ \A c \in worklist : fn.addr[b] <= fn.addr[c]

\* One iteration of the loop of analyzeBasicBlocksRDefs.
RDBlock(b) ==
  /\ First(b)
  /\ LET newRDbefore == computeRDbefore(b)
         newRDafter == computeRDafter(b, newRDbefore)
     IN  /\ RDbefore' = [RDbefore EXCEPT ![b] = newRDbefore]
         /\ \/ /\ Changed(newRDafter, RDafter[b])
               /\ RDafter' = [RDafter EXCEPT ![b] = newRDafter]
               /\ worklist' = (worklist \ {b}) \cup Requeued(b)
            \/ /\ ~ Changed(newRDafter, RDafter[b])
               /\ worklist' = worklist \ {b}
               /\ UNCHANGED RDafter
  /\ UNCHANGED <<todo, RDfactSet, walked, insRDbefore, insRDafter>>

\* One iteration of the inner loop of analyzeInstructionsRDefs.  Blocks are
\* visited in layout order.  An instruction that defines nothing hands on the
\* set it got; one that does makes its facts anew.
RDInstr(b) ==
  /\ worklist = {}
  /\ walked[b] < Len(fn.code[b])
  /\ \A c \in Block : c < b => walked[c] = Len(fn.code[c])
  /\ LET i == <<b, walked[b] + 1>>
         before == IF walked[b] = 0
                   THEN RDbefore[b] ELSE insRDafter[<<b, walked[b]>>]
         gen == FactsOf(fn, i, "instr")
         kill == Matching(RDfactSet, getOneInstrRegDefs(At(fn, i)))
     IN  /\ insRDbefore' = Put(insRDbefore, i, before)
         /\ insRDafter' = Put(insRDafter, i, (before \ kill) \cup gen)
  /\ walked' = [walked EXCEPT ![b] = @ + 1]
  /\ UNCHANGED <<todo, RDfactSet, worklist, RDbefore, RDafter>>

Done == worklist = {} /\ \A b \in Block : walked[b] = Len(fn.code[b])

\* runOnMachineFunction on the next function clears the set and every map.
NextFn ==
  /\ Done
  /\ Len(todo) > 1
  /\ todo' = Tail(todo)
  /\ RDfactSet' = ClearedSet(RDfactSet) \cup doInit(Head(todo'))
  /\ worklist' = Block
  /\ RDbefore' = NoFacts
  /\ RDafter' = NoFacts
  /\ walked' = NoneWalked
  /\ insRDbefore' = ClearedMap(insRDbefore)
  /\ insRDafter' = ClearedMap(insRDafter)

Finished == Done /\ Len(todo) = 1 /\ UNCHANGED vars

Next ==
  \/ \E b \in Block : RDBlock(b) \/ RDInstr(b)
  \/ NextFn
  \/ Finished

Spec == Init /\ [][Next]_vars

\* The pass runs alone and to completion.
FairSpec == Spec /\ WF_vars(Next)

-----------------------------------------------------------------------------
TypeOK ==
  /\ todo \in Seq(MachineFunction) \ {<< >>}
  /\ RDfactSet \in SUBSET RDfact
  /\ worklist \subseteq Block
  /\ RDbefore \in [Block -> SUBSET RDfact]
  /\ RDafter \in [Block -> SUBSET RDfact]
  /\ walked \in [Block -> Nat]
  /\ \A b \in Block : walked[b] <= Len(fn.code[b])
  /\ DOMAIN insRDbefore = {i \in Inst(fn) : i[2] <= walked[i[1]]}
  /\ DOMAIN insRDafter = DOMAIN insRDbefore
  /\ \A i \in DOMAIN insRDbefore :
       insRDbefore[i] \in SUBSET RDfact /\ insRDafter[i] \in SUBSET RDfact

\* What a set of objects says, read the way RDfact's accessors do.
Says(S) == {<<d.reg, d.inst>> : d \in S}

\* The facts the kill sets are picked from speak of the current function only,
\* and of all of it, although the allocator is one object for the module.
FactSetExact ==
  Says(RDfactSet) = {d \in Reg \X Inst(fn) : Defines(fn, d[2], d[1])}

\* A block off the worklist satisfies its equations.
OffWorklistSolved ==
  \A b \in Block \ worklist :
    /\ RDbefore[b] = computeRDbefore(b)
    /\ RDafter[b] = computeRDafter(b, RDbefore[b])

\* The least solution of the equations, as equations over objects.
DF == INSTANCE Dataflow WITH
        Node <- Block, Fact <- RDfact, sol <- RDafter, solved <- worklist = {},
        prob <- [dep |-> [b \in Block |-> pred(fn, b)],
                 gen |-> [b \in Block |-> getRDgen(b)],
                 kill |-> [b \in Block |-> getRDkill(b)]]
LeastReaching == DF!Spec

\* When the analysis of a function ends, every definition that reaches a block
\* or an instruction along some path is in its set.
ReachingIsFound ==
  Done => \A i \in Inst(fn) : \A r \in {r \in Reg : Defines(fn, i, r)} :
    \A p \in ReachedBy(fn, r, i) :
      /\ p[2] = 1 => <<r, i>> \in Says(RDbefore[p[1]])
      /\ p \in Inst(fn) => <<r, i>> \in Says(insRDbefore[p])

\* Everything found comes from somewhere: the definition lies on some path to
\* the place it is found at.
FoundIsUpstream ==
  Done => \A i \in Inst(fn) : \A d \in insRDbefore[i] :
    i \in Downstream(fn, d.inst, {})

\* No step of an analysis is for nothing.
Progress ==
  [][todo' = todo =>
       \/ \E b \in worklist :
            /\ RDafter[b] \subseteq RDafter'[b]
            /\ RDafter[b] # RDafter'[b]
            /\ \A c \in Block \ {b} : RDafter'[c] = RDafter[c]
       \/ /\ UNCHANGED RDafter
          /\ worklist' \subseteq worklist
          /\ worklist' # worklist
       \/ /\ UNCHANGED <<RDbefore, RDafter, worklist>>
          /\ \E b \in Block : walked'[b] > walked[b]]_vars

\* The analysis gets through every function of the module.
Terminates == <>(Done /\ Len(todo) = 1)

\* What the comment above analyzeInstructionsRDefs says: kill is all dataflow
\* facts with the regs that are defined by the instruction, so that after an
\* instruction no other definition of a register it defines is left.
KilledIsGone ==
  \A i \in DOMAIN insRDafter : \A d \in insRDafter[i] :
    d.reg \in getOneInstrRegDefs(At(fn, i)) => d.inst = i

=============================================================================
