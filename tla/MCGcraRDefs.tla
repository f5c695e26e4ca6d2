---------------------------- MODULE MCGcraRDefs ----------------------------
(***************************************************************************)
(* Machine functions for checking GcraRDefs, on three blocks, a virtual    *)
(* register v and two physical ones that overlap.                          *)
(***************************************************************************)
EXTENDS GcraRDefs

Overlap == [r \in Reg |-> IF r \in PReg THEN PReg \ {r} ELSE {}]

Use(r) == [uses |-> {r}, defs |-> {}]
Def(r) == [uses |-> {}, defs |-> {r}]

InLayoutOrder == [b \in Block |-> b]

Fns(Codes, Graphs, Addrs) == [code : Codes, succ : Graphs, addr : Addrs]

Alone(Functions) == {<<f>> : f \in Functions}

\* Every graph on the blocks, every block being empty or one instruction.
EveryGraph == Alone(Fns([Block -> {<< >>, <<Def("v")>>}],
                        [Block -> SUBSET Block], {InLayoutOrder}))

\* Blocks 1 and 2 of up to two instructions.
Kinds == {Use("v"), Def("v"), Def("ax"), Def("al")}
UpToTwo == UNION {[1 .. n -> Kinds] : n \in 0 .. 2}
Pairs == {[b \in Block |-> CASE b = 1 -> c [] b = 2 -> d [] OTHER -> << >>] :
            c, d \in UpToTwo}
Shapes == {<<{2}, {1}, {}>>, <<{1, 2}, {3}, {}>>, <<{2, 3}, {3}, {1}>>}
EveryPair == Alone(Fns(Pairs, Shapes, {InLayoutOrder}))

\* Two functions, the blocks of the second in another order in memory, the
\* first with an instruction that the second does not have.
Addrs == {a \in [Block -> 1 .. Cardinality(Block)] :
            \A b, c \in Block : a[b] = a[c] => b = c}
Ring == [b \in Block |-> {(b % Cardinality(Block)) + 1, b}]
Long(r, s) == [b \in Block |-> IF b = 1 THEN <<Def(r), Def(s)>> ELSE <<Def(s)>>]
Short(r, s) == [b \in Block |-> IF b = 1 THEN <<Def(r)>> ELSE <<Def(s)>>]
Loops(C(_, _)) == Fns({C(r, s) : r, s \in PReg}, {Ring}, Addrs)
TwoLoops == {<<f, g>> : f \in Loops(Long), g \in Loops(Short)}

MCModules == EveryGraph \cup EveryPair \cup TwoLoops

=============================================================================
