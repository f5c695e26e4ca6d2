----------------------------- MODULE MCGcraLive -----------------------------
(***************************************************************************)
(* Machine functions for checking GcraLive, on three blocks, a virtual     *)
(* register v and two physical ones that overlap.                          *)
(***************************************************************************)
EXTENDS GcraLive

Overlap == [r \in Reg |-> IF r \in PReg THEN PReg \ {r} ELSE {}]

Use(r) == [uses |-> {r}, defs |-> {}]
Def(r) == [uses |-> {}, defs |-> {r}]
Copy(r, s) == [uses |-> {r}, defs |-> {s}]

InLayoutOrder == [b \in Block |-> b]

Fns(Codes, Graphs, Addrs) == [code : Codes, succ : Graphs, addr : Addrs]

Alone(Functions) == {<<f>> : f \in Functions}

\* Every graph on the blocks, every block being empty or one instruction; the
\* set is closed under renaming of blocks, so one order of addresses will do.
EveryGraph ==
  Alone(Fns([Block -> {<< >>, <<Use("v")>>, <<Def("v")>>}],
            [Block -> SUBSET Block], {InLayoutOrder}))

\* Blocks 1 and 2 of up to two instructions, one of them on the way from the
\* other to itself or to its end.
Kinds == {Use("v"), Def("v"), Use("ax"), Def("al"), Copy("v", "v")}
UpToTwo == UNION {[1 .. n -> Kinds] : n \in 0 .. 2}
Pairs == {[b \in Block |-> CASE b = 1 -> c [] b = 2 -> d [] OTHER -> << >>] :
            c, d \in UpToTwo}
Shapes == {<<{2}, {1}, {}>>, <<{1, 2}, {3}, {}>>, <<{2, 3}, {3}, {1}>>}
EveryPair == Alone(Fns(Pairs, Shapes, {InLayoutOrder}))

\* A module of two functions: loops over distinct registers, the blocks of the
\* second where those of the first were or in any other order in memory.
Addrs == {a \in [Block -> 1 .. Cardinality(Block)] :
            \A b, c \in Block : a[b] = a[c] => b = c}
Loop(r, s) == [b \in Block |-> IF b = 1 THEN <<Use(r), Def(s)>> ELSE <<Use(s)>>]
Ring == [b \in Block |-> {(b % Cardinality(Block)) + 1, b}]
Loops == Fns({Loop(r, s) : r, s \in {"v", "ax"}}, {Ring}, Addrs)
TwoLoops == {<<f, g>> : f, g \in Loops}

MCModules == EveryGraph \cup EveryPair \cup TwoLoops

=============================================================================
