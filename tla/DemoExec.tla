------------------------------ MODULE DemoExec ------------------------------
(***************************************************************************)
(* Running what DemoRegAlloc has allocated.  The machine is not code of    *)
(* the repository; it says what the loads and stores are for: the function *)
(* as it was and the function as it is are run side by side, along any     *)
(* path, and an instruction must find in its operands what it would have   *)
(* found.  A value is the instruction that computed it and the register it *)
(* computed it for, or the register that had it when the function began.   *)
(***************************************************************************)
EXTENDS DemoRegAlloc, FiniteSets

VARIABLES
  pc,      \* the block and the place in it that execution has got to
  last,    \* the value of a register in the function as it was
  held,    \* the value in a machine register
  stack    \* the value in a slot

execVars == <<vars, pc, last, held, stack>>

Nothing == <<0, 0>>
Value(id, r) == <<id[1], id[2], r>>

AtEntry(r) == IF r \in PReg THEN Value(Nothing, r) ELSE Nothing

ExecInit ==
  /\ Init
  /\ pc = Nothing
  /\ last = [r \in VReg \cup PReg |-> AtEntry(r)]
  /\ held = [m \in Machine |-> AtEntry(m)]
  /\ stack = << >>

Compile == Next /\ UNCHANGED <<pc, last, held, stack>>

Start ==
  /\ Done /\ pc = Nothing
  /\ pc' = <<1, 1>>
  /\ stack' = [s \in 0 .. slots - 1 |-> Nothing]
  /\ UNCHANGED <<vars, last, held>>

AtItem == pc # Nothing /\ pc[2] <= Len(code[pc[1]])
item == code[pc[1]][pc[2]]
reg == item.ops[1].reg
Step == pc' = <<pc[1], pc[2] + 1>>

Load ==
  /\ AtItem /\ item.kind = "load"
  /\ held' = [held EXCEPT ![reg] = IF item.slot \in DOMAIN stack
                                   THEN stack[item.slot] ELSE Nothing]
  /\ Step
  /\ UNCHANGED <<vars, last, stack>>

Store ==
  /\ AtItem /\ item.kind = "store"
  /\ stack' = [stack EXCEPT ![item.slot] = held[reg]]
  /\ Step
  /\ UNCHANGED <<vars, last, held>>

\* Of several definitions that are given one machine register any one stays.
Stays(n) ==
  \A m \in DOMAIN n : item.ops[n[m]].def /\ item.ops[n[m]].reg = m

Operate ==
  /\ AtItem /\ item.kind = "instr"
  /\ last' = [r \in VReg \cup PReg |->
                IF r \in Defined(item.was) THEN Value(item.id, r) ELSE last[r]]
  /\ \E n \in [Defined(item.ops) -> DOMAIN item.ops] :
       /\ Stays(n)
       /\ held' = [m \in Machine |-> IF m \in Defined(item.ops)
                                     THEN Value(item.id, item.was[n[m]].reg)
                                     ELSE held[m]]
  /\ Step
  /\ UNCHANGED <<vars, stack>>

Jump ==
  /\ pc # Nothing /\ pc[2] > Len(code[pc[1]])
  /\ \E b \in fn.succ[pc[1]] : pc' = <<b, 1>>
  /\ UNCHANGED <<vars, last, held, stack>>

Execute == Start \/ Load \/ Store \/ Operate \/ Jump

ExecNext == Compile \/ Execute

ExecSpec == ExecInit /\ [][ExecNext]_execVars

-----------------------------------------------------------------------------
Own(b) == {k \in DOMAIN code[b] : code[b][k].kind = "instr"}

\* The program being rewritten is still the program: every block has its
\* instructions, each once and in order, whatever loads and stores there are
\* between them.
TypeOK ==
  /\ DOMAIN code = DOMAIN fn.code
  /\ \A b \in DOMAIN code :
       /\ {code[b][k].id : k \in Own(b)} = {b} \X DOMAIN fn.code[b]
       /\ \A k \in Own(b) : code[b][k].was = fn.code[b][code[b][k].id[2]]
       /\ \A j, k \in Own(b) : j < k => code[b][j].id[2] < code[b][k].id[2]
  /\ at[1] \in 1 .. Len(code) + 1
  /\ useReg \in {EBX, ECX}
  /\ \A r \in DOMAIN regMap : r \in VReg /\ regMap[r] \in 0 .. slots

\* When the loops end nothing is left to allocate, although the lists grew under
\* the iterator of line 86 as it went.
AllAllocated ==
  Done => \A b \in DOMAIN code : \A k \in DOMAIN code[b] :
            \A n \in DOMAIN code[b][k].ops : code[b][k].ops[n].reg \in Machine

\* A slot belongs to one definition: no later one can overwrite it while it is
\* still to be loaded.
SlotsApart ==
  \A p, q \in Places(code) :
    LET x == code[p[1]][p[2]]
        y == code[q[1]][q[2]]
    IN  x.kind = "store" /\ y.kind = "store" /\ x.slot = y.slot => p = q

\* An instruction about to be run finds, in every register it uses, what it would
\* have found in the register that was there before.
ValuesKept ==
  AtItem /\ item.kind = "instr" =>
    \A n \in DOMAIN item.was :
      ~ item.was[n].def => held[item.ops[n].reg] = last[item.was[n].reg]

UsesOf(ops) == {n \in DOMAIN ops : ~ ops[n].def /\ ops[n].reg \in VReg}
Before(p, q) == p[1] < q[1] \/ (p[1] = q[1] /\ p[2] < q[2])

\* Every register is defined before its uses in the order of the layout.
InOrder ==
  \A p \in Places(fn.code) : \A n \in UsesOf(fn.code[p[1]][p[2]]) :
    \E d \in DefPlaces(fn, fn.code[p[1]][p[2]][n].reg) : Before(d, p)

\* No instruction uses more than two virtual registers.
AtMostTwo ==
  \A p \in Places(fn.code) : Cardinality(UsesOf(fn.code[p[1]][p[2]])) <= 2

\* No instruction has two results to be put in EAX.
OneInEAX ==
  \A p \in Places(fn.code) :
    \A q, r \in Defined(fn.code[p[1]][p[2]]) \cap (VReg \cup {EAX}) : q = r

\* No instruction uses one of the registers the allocator works with.
Apart ==
  \A p \in Places(fn.code) : \A n \in DOMAIN fn.code[p[1]][p[2]] :
    fn.code[p[1]][p[2]][n].reg \in Scratch => fn.code[p[1]][p[2]][n].def

\* What the comment of lines 93 to 96 says is done: the used virtual registers
\* are loaded from their stack slots, where every definition was copied.
OrderedValuesKept == InOrder /\ OneInEAX /\ Apart => ValuesKept

\* With two loads at most before an instruction that is so, whatever path is
\* taken and however often.
SimpleValuesKept == InOrder /\ OneInEAX /\ Apart /\ AtMostTwo => ValuesKept

=============================================================================
