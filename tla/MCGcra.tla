------------------------------- MODULE MCGcra -------------------------------
(***************************************************************************)
(* Machine functions for checking Gcra and GcraExec: two blocks, virtual   *)
(* registers v and w and a physical register p.                            *)
(***************************************************************************)
EXTENDS GcraExec

NoAlias == [r \in Reg |-> {}]

Use(r) == [uses |-> {r}, defs |-> {}]
Def(r) == [uses |-> {}, defs |-> {r}]
Copy(r, s) == [uses |-> {s}, defs |-> {r}]

Code(Instrs, max) == UNION {[1 .. n -> Instrs] : n \in 0 .. max}

InLayoutOrder == [b \in Block |-> b]

\* The first block goes on to the second, which may return to the first.
Shapes == {<<{2}, {1}>>, <<{2}, {1, 2}>>, <<{1, 2}, {1}>>, <<{2}, {2}>>}

Programs(Instrs, max) ==
  {<<f>> : f \in [code : [Block -> Code(Instrs, max)], succ : Shapes,
                  addr : {InLayoutOrder}]}

Kinds == {Use("v"), Use("w"), Def("v"), Def("w"), Copy("v", "w"),
          [uses |-> {"v"}, defs |-> {"v", "w"}]}

EveryProgram == Programs(Kinds, 2)

\* Modules of two functions.
TwoFns == {f \o g : f, g \in Programs({Def("v"), Copy("p", "v")}, 1)}

MCModules == EveryProgram \cup TwoFns

=============================================================================
