----------------------------- MODULE MachineFn -----------------------------
(***************************************************************************)
(* The machine functions that the passes of p1/src read, and the gen and   *)
(* kill sets Gcra.cpp takes from their instructions.                       *)
(*                                                                         *)
(* LLVM owns these objects; the passes only read them.  A function is      *)
(*   code  the instructions of every block, an instruction being the       *)
(*         registers of its use operands and of its def operands,          *)
(*   succ  the successors of every block in the control-flow graph,        *)
(*   addr  where each block lies in memory: std::set<MachineBasicBlock*>   *)
(*         is ordered by it, so it decides which block a worklist yields.  *)
(* A block is named by its number, its place in the layout of the function.*)
(***************************************************************************)
EXTENDS Integers, Sequences, FiniteSets

CONSTANTS
  Block,      \* block numbers
  Reg,        \* registers, virtual and physical (never the special reg 0)
  PReg,       \* the physical ones
  Alias,      \* TRI->getAliasSet: the other registers sharing storage with one
  Modules     \* LLVM modules: the sequences of functions handed to the pass

Instr == [uses : SUBSET Reg, defs : SUBSET Reg]

MachineFunction == [code : [Block -> Seq(Instr)],
                    succ : [Block -> SUBSET Block],
                    addr : [Block -> Nat]]

ASSUME BlockAssumption == Block \subseteq Nat /\ IsFiniteSet(Block)

ASSUME RegAssumption ==
  /\ IsFiniteSet(Reg)
  /\ PReg \subseteq Reg
  /\ Alias \in [Reg -> SUBSET PReg]
  /\ \A r \in Reg \ PReg : Alias[r] = {}

\* Distinct blocks are distinct objects, so no two have the same address.
ASSUME ModulesAssumption ==
  \A m \in Modules :
    /\ m \in Seq(MachineFunction)
    /\ m # << >>
    /\ \A i \in DOMAIN m : \A b, c \in Block :
         m[i].addr[b] = m[i].addr[c] => b = c

-----------------------------------------------------------------------------

VReg == Reg \ PReg

\* The instructions of f, an instruction being identified by its place.
Inst(f) == UNION {{b} \X (DOMAIN f.code[b]) : b \in Block}
At(f, i) == f.code[i[1]][i[2]]

pred(f, b) == {c \in Block : b \in f.succ[c]}

addAliases(R) == R \cup UNION {Alias[r] : r \in R}

getOneInstrRegUses(I) == addAliases(I.uses)
getOneInstrRegDefs(I) == addAliases(I.defs)

\* Variants: an instruction's defs hide its own uses; aliases left out.
ExposedAfterDefs(f, b) ==
  {r \in Reg : \E k \in DOMAIN f.code[b] :
      /\ r \in getOneInstrRegUses(f.code[b][k])
      /\ \A j \in 1 .. k : r \notin getOneInstrRegDefs(f.code[b][j])}

ExposedNoAliases(f, b) ==
  {r \in Reg : \E k \in DOMAIN f.code[b] :
      /\ r \in f.code[b][k].uses
      /\ \A j \in 1 .. k - 1 : r \notin getOneInstrRegDefs(f.code[b][j])}

\* Used before being defined in b.  The definitions that hide a later use
\* are collected with their aliases.
getUpwardsExposedUses(f, b) ==
  {r \in Reg : \E k \in DOMAIN f.code[b] :
      /\ r \in getOneInstrRegUses(f.code[b][k])
      /\ \A j \in 1 .. k - 1 : r \notin getOneInstrRegDefs(f.code[b][j])}

\* The def operands themselves: unlike getOneInstrRegDefs, no aliases.
getAllDefs(f, b) == UNION {f.code[b][k].defs : k \in DOMAIN f.code[b]}

-----------------------------------------------------------------------------
(***************************************************************************)
(* Reference definitions, not part of the code: where control can go, and  *)
(* what that makes of a register.  Point <<b, k>> is before the k-th       *)
(* instruction of b, or at the end of b if there is none.                  *)
(***************************************************************************)
Points(f) == UNION {{b} \X (1 .. Len(f.code[b]) + 1) : b \in Block}

After(f, p) ==
  IF p \in Inst(f) THEN {<<p[1], p[2] + 1>>} ELSE f.succ[p[1]] \X {1}

Uses(f, p, r) == p \in Inst(f) /\ r \in addAliases(At(f, p).uses)
Defines(f, p, r) == p \in Inst(f) /\ r \in addAliases(At(f, p).defs)

\* The points from which some path reaches a use of r that no instruction on
\* the way defines, r being live there in the sense of the textbook: the least
\* set that has the uses and is closed under going back.
ClosedUpstream(f, r, S) ==
  \A p \in Points(f) :
    Uses(f, p, r) \/ (~ Defines(f, p, r) /\ After(f, p) \cap S # {}) => p \in S

LivePoints(f, r) ==
  LET closed == {S \in SUBSET Points(f) : ClosedUpstream(f, r, S)}
  IN  {p \in Points(f) : \A S \in closed : p \in S}

\* The points that some path from i on leads to without passing through one of
\* stops: the least set that has what follows i and is closed under going on.
ClosedDownstream(f, i, stops, S) ==
  /\ After(f, i) \subseteq S
  /\ \A p \in S \ stops : After(f, p) \subseteq S

Downstream(f, i, stops) ==
  LET closed == {S \in SUBSET Points(f) : ClosedDownstream(f, i, stops, S)}
  IN  {p \in Points(f) : \A S \in closed : p \in S}

\* The points that the definition of r by i reaches.
ReachedBy(f, r, i) == Downstream(f, i, {p \in Points(f) : Defines(f, p, r)})

=============================================================================
