----------------------------- MODULE MCLiveVars -----------------------------
(***************************************************************************)
(* Functions for checking LiveVars: three blocks, each computing a value   *)
(* before its terminator.                                                  *)
(***************************************************************************)
EXTENDS LiveVars

NoAlias == [r \in Reg |-> {}]
NoModules == {}

Ids == Block \X {1, 2}

\* The entry block has no predecessors, and control may go forward in several
\* ways.
Forward == {g \in [Block -> SUBSET Block] : \A b \in Block : \A c \in g[b] : c > b}

\* A loop that control never leaves for the last block.
Forever == {<<{2, 3}, {2}, {}>>}

\* The blocks that control can get to from the entry without going through d.
Avoiding(g, d) ==
  LET reach[n \in 0 .. Cardinality(Block)] ==
        IF n = 0 THEN {1} \ {d}
        ELSE reach[n - 1] \cup (UNION {g[b] : b \in reach[n - 1]} \ {d})
  IN  reach[Cardinality(Block)]

\* A value is computed on every path to an instruction that uses it.
Dominates(g, j, i) ==
  \/ j[1] = i[1] /\ j[2] < i[2]
  \/ j[1] # i[1] /\ i[1] \notin Avoiding(g, j[1])

\* Every instruction uses at most one value, the first one of some block.
Usable(g, i) == {j \in Block \X {1} : Dominates(g, j, i)}
Operands(g, i) == {{}} \cup {{j} : j \in Usable(g, i)}

CodesOf(g, b) ==
  {<<[uses |-> u, defs |-> {<<b, 1>>}], [uses |-> v, defs |-> {<<b, 2>>}]>> :
     u \in Operands(g, <<b, 1>>), v \in Operands(g, <<b, 2>>)}

\* Functions of three blocks.
CodesFor(g) == CodesOf(g, 1) \X CodesOf(g, 2) \X CodesOf(g, 3)

On(Graphs, Orders) ==
  UNION {[code : CodesFor(g), succ : {g}, addr : Orders] : g \in Graphs}

Layout == [b \in Block |-> b]
Reversed == [b \in Block |-> Cardinality(Block) - b]

ForwardFns == On(Forward, {Layout, Reversed})

\* Of these, the functions in which every block leads to the last one, where the
\* pass begins: it comes to every block.
Through == {g \in Forward : \A b \in Block \ {3} : g[b] # {}}
ThroughFns == On(Through, {Layout, Reversed})

MCFunctions == ForwardFns \cup On(Forever, {Reversed})

=============================================================================
