------------------------------ MODULE GcraExec ------------------------------
(***************************************************************************)
(* What the interference graph of Gcra is for.  Gcra.cpp stops at the      *)
(* graph; this module does what a register allocator does next, and then   *)
(* runs the allocated program: any assignment of colours under which no    *)
(* two neighbours share one must keep every value until it is used.        *)
(* None of it is code of the repository except the actions of Gcra.        *)
(***************************************************************************)
EXTENDS Gcra

CONSTANTS
  Colour,     \* machine registers to allocate
  Entry       \* the block a function starts with

ASSUME EntryAssumption == Entry \in Block

VARIABLES
  colour,     \* the colour of every register that has a live range
  at,         \* the point that execution has got to
  last,       \* the instruction that last defined a register
  held        \* the value in a machine register, as <<register, definition>>

execVars == <<vars, colour, at, last, held>>

Nowhere == <<0, 0>>

ExecInit ==
  /\ Init
  /\ colour = << >>
  /\ at = Nowhere
  /\ last = [r \in VReg |-> Nowhere]
  /\ held = [c \in Colour |-> Nowhere]

Compile == Next /\ at = Nowhere /\ UNCHANGED <<colour, at, last, held>>

Allocate ==
  /\ stage = "done" /\ Len(todo) = 1
  /\ at = Nowhere
  /\ colour' \in {c \in [DOMAIN range -> Colour] :
                    \A e \in graph : c[e[1]] # c[e[2]]}
  /\ at' = <<Entry, 1>>
  /\ UNCHANGED <<vars, last, held>>

\* One instruction, or the jump at the end of a block.
Execute ==
  /\ at # Nowhere
  /\ at' \in After(fn, at)
  /\ LET defs == IF at \in Inst(fn) THEN At(fn, at).defs ELSE {}
         in(c) == {r \in defs \cap DOMAIN colour : colour[r] = c}
     IN  /\ last' = [r \in VReg |-> IF r \in defs THEN at ELSE last[r]]
         /\ held' = [c \in Colour |->
                       IF in(c) = {} THEN held[c]
                       ELSE <<CHOOSE r \in in(c) : TRUE, at>>]
  /\ UNCHANGED <<vars, colour>>

ExecNext == Compile \/ Allocate \/ Execute

\* Execution may stop anywhere; the allocator before it does not.
ExecSpec == ExecInit /\ [][ExecNext]_execVars /\ WF_execVars(Compile)

-----------------------------------------------------------------------------
\* Whichever colouring is chosen and whichever way execution goes, an
\* instruction that uses a register finds the value last given to it in the
\* machine register it was allocated to (LiveRange and Graph of Gcra.cpp).
ValuesKept ==
  at \in Inst(fn) =>
    \A r \in At(fn, at).uses \cap DOMAIN colour :
      last[r] # Nowhere => held[colour[r]] = <<r, last[r]>>

=============================================================================
