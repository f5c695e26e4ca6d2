------------------------------ MODULE LiveVars ------------------------------
(***************************************************************************)
(* The live-variable pass on LLVM's intermediate form (p1/src/liveVars.cpp *)
(* and its copy optmizer/src/liveVars.cpp) on one function.                *)
(*                                                                         *)
(* A function of the intermediate form is a function of MachineFn in which *)
(* registers are instructions, and every instruction defines itself; addr  *)
(* is the order in which pred_iterator yields blocks.                      *)
(*                                                                         *)
(* The first stage drives a stack of blocks.  What it computes for a block *)
(* goes into a copy taken by lookup, and no statement stores it: bbBAMap   *)
(* is a variable here because the second stage reads it.                   *)
(***************************************************************************)
EXTENDS MachineFn, SequencesExt

CONSTANT Functions    \* the functions the pass may be run on

VARIABLES
  F,          \* the function
  workList,   \* a stack of blocks
  bbBAMap,    \* before and after sets of blocks
  left,       \* instructions of a block still to be walked, from its end
  iBAMap      \* before and after sets of instructions

vars == <<F, workList, bbBAMap, left, iBAMap>>

\* Every block has instructions, the last being its terminator, and every
\* instruction is the one definition of its own value.
ASSUME FunctionsAssumption ==
  \A f \in Functions :
    /\ f \in MachineFunction
    /\ \A b \in Block : f.code[b] # << >>
    /\ \A i \in Inst(f) : At(f, i).defs = {i}

\* --F.end()
LastBlock == CHOOSE b \in Block : \A c \in Block : c <= b

Nothing == [before |-> {}, after |-> {}]
NoEntries == [k \in {} |-> Nothing]

lookup(map, k) == IF k \in DOMAIN map THEN map[k] ELSE Nothing
insert(map, k, value) == IF k \in DOMAIN map THEN map ELSE (k :> value) @@ map

\* Variants: the block itself goes back on the stack; the walk forgets to
\* erase the instruction, or starts one before the last.
Itself(b) == {b}
NotErased(i, after) == after \cup At(F, i).uses

Pushed(b) == pred(F, b)
InOrder(B) == SetToSortSeq(B, LAMBDA b, c : F.addr[b] < F.addr[c])
liveBefore(i, after) == (after \ {i}) \cup At(F, i).uses
End(f, b) == Len(f.code[b])

-----------------------------------------------------------------------------

Init ==
  /\ F \in Functions
  /\ workList = <<LastBlock>>
  /\ bbBAMap = NoEntries
  /\ left = [b \in Block |-> End(F, b)]
  /\ iBAMap = NoEntries

\* One iteration of the loop of computeBBBeforeAfter.
Visit ==
  /\ workList # << >>
  /\ LET b == Last(workList)
         after == UNION {lookup(bbBAMap, s).before : s \in F.succ[b]}
         shouldAddPred == \/ b \notin DOMAIN bbBAMap
                          \/ after # lookup(bbBAMap, b).after
     IN  workList' = Front(workList) \o
                       (IF shouldAddPred THEN InOrder(Pushed(b)) ELSE << >>)
  /\ UNCHANGED <<F, bbBAMap, left, iBAMap>>

\* One iteration of the inner loop of computeIBeforeAfter.
WalkBack(b) ==
  /\ workList = << >>
  /\ left[b] > 0
  /\ \A c \in Block : c < b => left[c] = 0
  /\ LET i == <<b, left[b]>>
         liveAfter == IF left[b] = Len(F.code[b])
                      THEN lookup(bbBAMap, b).after
                      ELSE iBAMap[<<b, left[b] + 1>>].before
     IN  iBAMap' = insert(iBAMap, i, [before |-> liveBefore(i, liveAfter),
                                      after |-> liveAfter])
  /\ left' = [left EXCEPT ![b] = @ - 1]
  /\ UNCHANGED <<F, workList, bbBAMap>>

Done == workList = << >> /\ \A b \in Block : left[b] = 0

Finished == Done /\ UNCHANGED vars

Next == Visit \/ (\E b \in Block : WalkBack(b)) \/ Finished

Spec == Init /\ [][Next]_vars

\* The pass runs alone.
FairSpec == Spec /\ WF_vars(Next)

-----------------------------------------------------------------------------
OneBlockValues ==
  \A i, j \in Inst(F) : i \in At(F, j).uses => i[1] = j[1] /\ i[2] < j[2]

\* For values used only in the block that computes them, after they are, the
\* pass finds exactly the live ones before every instruction: the walk through
\* a block is right (computeIBeforeAfter).
RightWithinBlocks ==
  Done /\ OneBlockValues =>
    \A i \in Inst(F) :
      iBAMap[i].before = {v \in Inst(F) : i \in LivePoints(F, v)}

\* The pass comes to an end.
Terminates == <>Done

\* "For each basic block in the function, compute the block's liveBefore and
\* liveAfter sets": no value is missing that some path goes on to use.
LiveIsFound ==
  Done => \A i \in Inst(F) :
            {v \in Inst(F) : i \in LivePoints(F, v)} \subseteq iBAMap[i].before

=============================================================================
