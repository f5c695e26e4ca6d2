---------------------------- MODULE DemoRegAlloc ----------------------------
(***************************************************************************)
(* The spill-everything register allocator (p1/src/RegAllocDemo.cpp) on    *)
(* one machine function.                                                   *)
(*                                                                         *)
(* The pass walks the very lists it inserts loads and stores into, in      *)
(* layout order, and gives each definition of a virtual register a stack   *)
(* slot of its own; regMap remembers the latest.                           *)
(*                                                                         *)
(* The pass asks for no pass before it (getAnalysisUsage), so functions    *)
(* come to it in SSA form; phi instructions are left out, because nothing  *)
(* after the allocator could print them.                                   *)
(***************************************************************************)
EXTENDS Integers, Sequences, SequencesExt

CONSTANTS
  VReg,       \* virtual registers
  PReg,       \* physical registers that operands may name before allocation
  Functions   \* the functions the pass may be run on

\* Physical registers 27, 29 and 38, and all that are ever named.
EAX == "eax"
EBX == "ebx"
ECX == "ecx"
Scratch == {EAX, EBX, ECX}
Machine == Scratch \cup PReg

\* Register operands, in the order the instruction lists them.
Operand == [def : BOOLEAN, reg : VReg \cup PReg]

Places(lists) == UNION {{b} \X DOMAIN lists[b] : b \in DOMAIN lists}
Defined(ops) == {ops[n].reg : n \in {n \in DOMAIN ops : ops[n].def}}
DefPlaces(f, r) == {p \in Places(f.code) : r \in Defined(f.code[p[1]][p[2]])}

\* A function gives the operands of the instructions of every block, blocks
\* being numbered in layout order, and the successors of the blocks.  It has a
\* block to enter.
ASSUME FunctionsAssumption ==
  /\ VReg \cap Machine = {}
  /\ \A f \in Functions :
       /\ f.code \in Seq(Seq(Seq(Operand))) \ {<< >>}
       /\ \A b \in DOMAIN f.code : f.succ[b] \subseteq DOMAIN f.code
       /\ \A r \in VReg : \A p, q \in DefPlaces(f, r) : p = q

VARIABLES
  fn,         \* the function before the pass
  code,       \* its blocks as the pass rewrites them
  at,         \* block, instruction and operand the three loops are at
  useReg,     \* the machine register for the next used virtual register
  regMap,     \* the stack slot of a virtual register
  slots       \* stack objects created, numbered from 0

vars == <<fn, code, at, useReg, regMap, slots>>

\* What is in a block: one of its instructions, with the operands it had, or
\* a load or store of a slot.
Instruction(b, k) == [kind |-> "instr", ops |-> fn.code[b][k],
                      was |-> fn.code[b][k], id |-> <<b, k>>, slot |-> -1]
Spill(kind, def, reg, slot) ==
  [kind |-> kind, ops |-> <<[def |-> def, reg |-> reg]>>, was |-> << >>,
   id |-> <<0, 0>>, slot |-> slot]

mi == code[at[1]][at[2]]
mo == mi.ops[at[3]]

SetReg(reg) == [mi EXCEPT !.ops[at[3]].reg = reg]

\* regMap[reg] on a register that has none makes an entry for it: slot 0.
Slot(reg) == IF reg \in DOMAIN regMap THEN regMap[reg] ELSE 0
Bind(reg, slot) ==
  [r \in DOMAIN regMap \cup {reg} |-> IF r = reg THEN slot ELSE regMap[r]]

\* Variants: the slot a use made is taken for the definition; a load takes the
\* place of the instruction; the iterator moves too far, or every use goes to
\* the first register.
SlotOfUse(reg) == IF reg \in DOMAIN regMap THEN regMap[reg] ELSE slots
InPlace(list, k, load) == [list EXCEPT ![k] = load]
TooFar(k) == k + 2
SameReg(reg) == reg

NewSlot(reg) == slots
StoreAfter(list, k, store) == InsertAt(list, k + 1, store)
LoadBefore(list, k, load) == InsertAt(list, k, load)
Moved(k) == k + 1
NextUseReg(reg) == ECX

-----------------------------------------------------------------------------

Init ==
  /\ fn \in Functions
  /\ code = [b \in DOMAIN fn.code |->
               [k \in DOMAIN fn.code[b] |-> Instruction(b, k)]]
  /\ at = <<1, 1, 1>>
  /\ useReg = EBX
  /\ regMap = << >>
  /\ slots = 0

InBlock == at[1] <= Len(code)
InInstr == InBlock /\ at[2] <= Len(code[at[1]])
InOperand == InInstr /\ at[3] <= Len(mi.ops)

Physical ==
  /\ InOperand
  /\ mo.reg \notin VReg
  /\ at' = [at EXCEPT ![3] = @ + 1]
  /\ UNCHANGED <<fn, code, useReg, regMap, slots>>

Use ==
  /\ InOperand
  /\ mo.reg \in VReg /\ ~ mo.def
  /\ regMap' = Bind(mo.reg, Slot(mo.reg))
  /\ code' = [code EXCEPT ![at[1]] =
                LoadBefore([@ EXCEPT ![at[2]] = SetReg(useReg)], at[2],
                           Spill("load", TRUE, useReg, Slot(mo.reg)))]
  /\ at' = <<at[1], Moved(at[2]), at[3] + 1>>
  /\ useReg' = NextUseReg(useReg)
  /\ UNCHANGED <<fn, slots>>

Define ==
  /\ InOperand
  /\ mo.reg \in VReg /\ mo.def
  /\ code' = [code EXCEPT ![at[1]] =
                StoreAfter([@ EXCEPT ![at[2]] = SetReg(EAX)], at[2],
                           Spill("store", FALSE, EAX, NewSlot(mo.reg)))]
  /\ regMap' = Bind(mo.reg, NewSlot(mo.reg))
  /\ slots' = slots + 1
  /\ at' = [at EXCEPT ![3] = @ + 1]
  /\ UNCHANGED <<fn, useReg>>

\* The next instruction may be a store that was just inserted.
NextInstr ==
  /\ InInstr /\ ~ InOperand
  /\ at' = <<at[1], at[2] + 1, 1>>
  /\ useReg' = EBX
  /\ UNCHANGED <<fn, code, regMap, slots>>

NextBlock ==
  /\ InBlock /\ ~ InInstr
  /\ at' = <<at[1] + 1, 1, 1>>
  /\ UNCHANGED <<fn, code, useReg, regMap, slots>>

Next == Physical \/ Use \/ Define \/ NextInstr \/ NextBlock

Spec == Init /\ [][Next]_vars

Done == ~ InBlock

=============================================================================
