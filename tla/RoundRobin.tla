----------------------------- MODULE RoundRobin -----------------------------
(***************************************************************************)
(* The round-robin analyses of optmizer/src over bit vectors: reaching     *)
(* definitions (ReachingDef.cpp) and live variables (Live.cpp).  The two   *)
(* files differ in the direction given to runIterativeFramework, and in    *)
(* that the first has no transfer function for the other direction.        *)
(*                                                                         *)
(* A vector is the set of its bits that are set.                           *)
(***************************************************************************)
EXTENDS Integers, Sequences, FiniteSetsExt

CONSTANTS
  Block,      \* blocks, numbered in the order of the function
  Value,      \* instructions and arguments
  Functions   \* the functions the passes may be run on

Kind == {"value",   \* binary, unary and compare instructions
         "phi",
         "void",    \* terminators, stores and calls
         "other",   \* the rest: only their operands are looked at
         "arg"}

\* addr is where a value lies in memory.
Function == [code : [Block -> Seq(Value)],
             succ : [Block -> SUBSET Block],
             args : Seq(Value),
             kind : [Value -> Kind],
             ops  : [Value -> Seq(Value)],
             addr : [Value -> Nat]]

VARIABLES
  fromTop,    \* the analysis is that of reaching definitions
  F,          \* the function
  valuesToIndex,
  in, out,    \* the vectors of blocks, as sets of bits
  point,      \* those of program points
  at,         \* the block of the sweep that is visited next
  modified    \* somethingModified

vars == <<fromTop, F, valuesToIndex, in, out, point, at, modified>>

Entry == 1
End == Cardinality(Block) + 1

Elems(s) == {s[k] : k \in DOMAIN s}
Inst(b) == Elems(F.code[b])
Insts == UNION {Inst(b) : b \in Block}
Args == Elems(F.args)
pred(b) == {c \in Block : b \in F.succ[c]}

ASSUME BlockAssumption == IsFiniteSet(Block) /\ Block = 1 .. Cardinality(Block) /\ Block # {}

\* An instruction is in one block, once.
ASSUME FunctionsAssumption ==
  /\ Functions \subseteq Function
  /\ \A f \in Functions : \A b, c \in Block :
       \A j \in DOMAIN f.code[b], k \in DOMAIN f.code[c] :
         f.code[b][j] = f.code[c][k] => b = c /\ j = k

-----------------------------------------------------------------------------
\* buildBlockPointMap: which instructions have a program point, and which
\* values an index.
programPoints(b) == {v \in Inst(b) : F.kind[v] \in {"value", "void"}}

\* The values that may get an index where the loops come to them, after block,
\* instruction and operand: instruction k of b, if it computes something, has
\* the place b, k, 0 and its operands have b, k, 1 and so on.  The arguments
\* follow at End.
OfInst(b, k) ==
  LET v == F.code[b][k]
  IN  {<<b, k, j, F.ops[v][j]>> : j \in DOMAIN F.ops[v]}
        \cup (IF F.kind[v] \in {"value", "phi"} THEN {<<b, k, 0, v>>} ELSE {})

Mentions ==
  (UNION {UNION {OfInst(b, k) : k \in DOMAIN F.code[b]} : b \in Block})
    \cup {<<End, k, 0, F.args[k]>> : k \in DOMAIN F.args}

Before(p, q) ==
  \/ p[1] < q[1]
  \/ p[1] = q[1] /\ p[2] < q[2]
  \/ p[1] = q[1] /\ p[2] = q[2] /\ p[3] < q[3]

\* Variant: an operand has its index replaced each time.
Always(p) == TRUE

\* An instruction is given a new index even if it was met before as an operand;
\* an operand or an argument only if it has none.
IsGiven(p) ==
  \/ p[1] # End /\ p[3] = 0
  \/ \A q \in Mentions : Before(q, p) => q[4] # p[4]

Given == {p \in Mentions : IsGiven(p)}

\* Variant: an index is the size of the map.
OfValues(p) == Cardinality({q[4] : q \in {q \in Given : Before(q, p)}})

\* index++, and (*valuesToIndex)[v] = index++, the last of them.  The indices
\* run on where one is replaced, while the map, whose size is that of the
\* vectors, does not grow.
IndexAt(p) == Cardinality({q \in Given : Before(q, p)})

buildBlockPointMap ==
  [v \in {p[4] : p \in Given} |->
     Max({IndexAt(p) : p \in {q \in Given : q[4] = v}})]

Size == Cardinality(DOMAIN valuesToIndex)
Bit == 0 .. Size - 1

\* (*valuesToIndex)[v] makes an entry for what has none.
Index(v) == IF v \in DOMAIN valuesToIndex THEN valuesToIndex[v] ELSE 0

\* The bits set for V.  What is written behind the end of a vector is in a
\* part of its last word that no copy, union or comparison looks at.
Bits(V) == {Index(v) : v \in V} \cap Bit

-----------------------------------------------------------------------------
\* Program points are kept in a map, in the order of their addresses.
UpTo(v, P) == {u \in P : F.addr[u] <= F.addr[v]}
From(v, P) == {u \in P : F.addr[u] >= F.addr[v]}

\* Variants: only the last point generates; the points are walked forwards.
LastOnly(P, before) ==
  before \cup Bits({v \in P : \A w \in P : F.addr[w] <= F.addr[v]})
Forwards(P, after) ==
  {x \in Bit :
     \/ \E v \in P : /\ x \in Bits(Elems(F.ops[v]))
                     /\ \A w \in P : F.addr[w] > F.addr[v] => x \notin Bits({w})
     \/ x \in after \ Bits(P)}

\* defTransfer through the points P.  Only phi instructions would kill, and
\* they have no points.
defTransfer(P, before) == before \cup Bits(P)

\* liveTransfer through the points P, from the last to the first.
liveTransfer(P, after) ==
  {x \in Bit :
     \/ \E v \in P : /\ x \in Bits(Elems(F.ops[v]))
                     /\ \A w \in P : F.addr[w] < F.addr[v] => x \notin Bits({w})
     \/ x \in after \ Bits(P)}

Unset == [b \in Block |-> {}]

Init ==
  /\ fromTop \in BOOLEAN
  /\ F \in Functions
  /\ valuesToIndex = buildBlockPointMap
  /\ in = Unset
  /\ out = Unset
  /\ point = [v \in UNION {programPoints(b) : b \in Block} |-> {}]
  /\ at = Entry
  /\ modified = FALSE

\* The vector of start, the predecessor of the entry block, has the arguments.
FromStart(b) == IF b = Entry THEN Bits(Args) ELSE {}

\* Variant: the vectors of successors.
FromSuccs(b) == in[b] \cup FromStart(b) \cup UNION {out[c] : c \in F.succ[b]}

Joined(b) == in[b] \cup FromStart(b) \cup UNION {out[c] : c \in pred(b)}

\* Variant: modified if the vectors are the same.
Alike(old, new) == old = new
\* tmp != *out
Differs(old, new) == old # new

\* One iteration of the loop over the blocks, forwards and backwards.
VisitDown(b) ==
  /\ fromTop
  /\ at = b
  /\ LET P == programPoints(b)
     IN  /\ in' = [in EXCEPT ![b] = Joined(b)]
         /\ out' = [out EXCEPT ![b] = defTransfer(P, in'[b])]
         /\ point' = [v \in DOMAIN point |->
                        IF v \in P THEN defTransfer(UpTo(v, P), in'[b]) ELSE point[v]]
  /\ modified' = (modified \/ Differs(out[b], out'[b]))
  /\ at' = at + 1
  /\ UNCHANGED <<fromTop, F, valuesToIndex>>

\* Every block has an edge, if only to end, and for each of them the block's
\* own vector is added.
VisitUp(b) ==
  /\ ~ fromTop
  /\ at = b
  /\ LET P == programPoints(b)
     IN  /\ out' = [out EXCEPT ![b] = @ \cup in[b]]
         /\ in' = [in EXCEPT ![b] = liveTransfer(P, out'[b])]
         /\ point' = [v \in DOMAIN point |->
                        IF v \in P THEN liveTransfer(From(v, P), out'[b]) ELSE point[v]]
  /\ modified' = (modified \/ Differs(in[b], in'[b]))
  /\ at' = at + 1
  /\ UNCHANGED <<fromTop, F, valuesToIndex>>

\* while(somethingModified)
Again ==
  /\ at = End
  /\ modified
  /\ at' = Entry
  /\ modified' = FALSE
  /\ UNCHANGED <<fromTop, F, valuesToIndex, in, out, point>>

Done == at = End /\ ~ modified

Finished == Done /\ UNCHANGED vars

Next == (\E b \in Block : VisitDown(b) \/ VisitUp(b)) \/ Again \/ Finished

Spec == Init /\ [][Next]_vars

\* A pass runs alone.
FairSpec == Spec /\ WF_vars(Next)

-----------------------------------------------------------------------------
\* The types, and what every vector rests on: no two values share an index,
\* though instructions met before as operands have theirs replaced.
TypeOK ==
  /\ fromTop \in BOOLEAN
  /\ F \in Function
  /\ valuesToIndex \in [DOMAIN valuesToIndex -> Nat]
  /\ \A u, v \in DOMAIN valuesToIndex : valuesToIndex[u] = valuesToIndex[v] => u = v
  /\ in \in [Block -> SUBSET Bit]
  /\ out \in [Block -> SUBSET Bit]
  /\ point \in [UNION {programPoints(b) : b \in Block} -> SUBSET Bit]
  /\ at \in 1 .. End
  /\ modified \in BOOLEAN

\* Indices are enough for the vectors unless an operand is met before the
\* instruction that computes it, as with every phi instruction of a loop.
ReadAhead ==
  \E b, c \in Block : \E j \in DOMAIN F.code[b], k \in DOMAIN F.code[c] :
    /\ b < c \/ (b = c /\ j < k)
    /\ F.kind[F.code[c][k]] \in {"value", "phi"}
    /\ F.code[c][k] \in Elems(F.ops[F.code[b][j]])
OverrunNeedsReadAhead ==
  (\E v \in DOMAIN valuesToIndex : Index(v) \notin Bit) => ReadAhead

\* The reaching definitions are the least solution of their equations, and the
\* sweeps do not stop before.
DF == INSTANCE Dataflow WITH
        Node <- Block, Fact <- Nat,
        sol <- IF fromTop THEN out ELSE Unset, solved <- fromTop /\ Done,
        prob <- [dep |-> [b \in Block |-> pred(b)],
                 gen |-> [b \in Block |-> FromStart(b) \cup Bits(programPoints(b))],
                 kill |-> Unset]
LeastReaching == DF!Spec

\* A value whose bit is its own, and not lost.
HasBit(v) == v \in DOMAIN valuesToIndex /\ Index(v) \in Bit \ {0}

\* The blocks some path leads to from the successors of those in B: the least
\* set that has these and is closed under going on.
ClosedDownstream(B, S) == \A b \in B \cup S : F.succ[b] \subseteq S
Downstream(B) ==
  {b \in Block : \A S \in SUBSET Block : ClosedDownstream(B, S) => b \in S}

\* What has a program point reaches a block exactly if some path leads there,
\* and an argument if control can get there; the bit of index 0 may be set for
\* others' sake.
Reaches(v, b) ==
  \/ \E c \in Block : v \in programPoints(c) /\ b \in Downstream({c})
  \/ v \in Args /\ b \in {Entry} \cup Downstream({Entry})

ReachingExact ==
  Done /\ fromTop => \A b \in Block : \A v \in Value :
    HasBit(v) => (Index(v) \in in[b] <=> Reaches(v, b))

\* What is live within a block is right at every point, for a value that is
\* computed there at a point and used only there, further on and at points, if
\* the block's instructions lie in memory in their order.
InMemoryOrder(b) ==
  \A j, k \in DOMAIN F.code[b] : j < k => F.addr[F.code[b][j]] < F.addr[F.code[b][k]]

Local(v, b) ==
  /\ v \in programPoints(b)
  /\ \A u \in Insts : v \in Elems(F.ops[u]) => u \in programPoints(b)
  /\ \A i, j \in DOMAIN F.code[b] :
       F.code[b][i] = v /\ v \in Elems(F.ops[F.code[b][j]]) => i < j

LiveWithinBlocks ==
  Done /\ ~ fromTop => \A b \in Block : InMemoryOrder(b) =>
    \A k \in DOMAIN F.code[b] : \A v \in Insts :
      HasBit(v) /\ Local(v, b) /\ F.code[b][k] \in programPoints(b) =>
        (Index(v) \in point[F.code[b][k]]
           <=> \E i, j \in DOMAIN F.code[b] :
                 /\ i < k /\ k <= j
                 /\ F.code[b][i] = v
                 /\ v \in Elems(F.ops[F.code[b][j]]))

\* Both end.
Terminates == <>Done

=============================================================================
