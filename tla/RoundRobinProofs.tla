-------------------------- MODULE RoundRobinProofs --------------------------
(***************************************************************************)
(* Theorems about RoundRobin, for any functions of any size in any memory  *)
(* layout: the reaching definitions implement Dataflow, a bit stands for   *)
(* one value, and the vectors say where control takes it.                  *)
(***************************************************************************)
EXTENDS RoundRobin, FiniteSetTheorems, WellFoundedInduction, TLAPS

-----------------------------------------------------------------------------
\* The equation of a block for reaching definitions.
FromPreds(b) == FromStart(b) \cup UNION {out[c] : c \in pred(b)}
Equation(b) == FromPreds(b) \cup Bits(programPoints(b))

\* The function stays, and so does the index map made of it.
Fixed == F \in Functions /\ valuesToIndex = buildBlockPointMap

\* Blocks are numbered up to the end of the sweep.
LEMMA BlockNumbers ==
  /\ End \in Nat /\ Entry \in 1 .. End /\ Entry # End
  /\ \A b \in Block : b \in Nat /\ 1 <= b /\ b < End
  /\ Entry \in Block
<1>1. Cardinality(Block) \in Nat
  BY FS_CardinalityType, BlockAssumption
<1>2. Cardinality(Block) # 0
  BY <1>1, BlockAssumption
<1>3. 1 \in 1 .. Cardinality(Block)
  BY <1>1, <1>2
<1>4. Entry \in Block
  BY <1>3, BlockAssumption DEF Entry
<1>5. /\ End \in Nat /\ Entry \in 1 .. End /\ Entry # End
      /\ \A b \in Block : b \in Nat /\ 1 <= b /\ b < End
  BY <1>1, <1>2, BlockAssumption DEF Entry, End
<1>6. QED BY <1>4, <1>5

-----------------------------------------------------------------------------
(***************************************************************************)
(* The index map.  The places where values are given their indices are     *)
(* finitely many in a line, so that an index tells its value.              *)
(***************************************************************************)
LEMMA LargestNumber ==
  ASSUME NEW T \in SUBSET Nat, T # {}, NEW n \in Nat, \A x \in T : x <= n
  PROVE  Max(T) \in T
<1> DEFINE R == {ss \in Nat \X Nat : ss[1] < ss[2]}
           D == {n - x : x \in T}
<1>1. IsWellFoundedOn(R, Nat)
  BY NatLessThanWellFounded DEF OpToRel
<1>2. D \subseteq Nat /\ D # {}
  <2>1. ASSUME NEW x \in T PROVE n - x \in Nat
    OBVIOUS
  <2>2. QED BY <2>1
<1>3. PICK d \in D : \A e \in D : <<e, d>> \notin R
  BY <1>1, <1>2, WFMin
<1>4. PICK m \in T : d = n - m
  OBVIOUS
<1>5. ASSUME NEW x \in T PROVE m >= x
  <2>1. n - x \in D /\ n - x \in Nat /\ n - m \in Nat
    OBVIOUS
  <2>2. ~ (n - x < n - m)
    BY <1>3, <1>4, <2>1
  <2>3. QED BY <2>1, <2>2
<1>6. QED BY <1>5 DEF Max

LEMMA FiniteFamily ==
  ASSUME NEW g, IsFiniteSet(DOMAIN g), \A x \in DOMAIN g : IsFiniteSet(g[x])
  PROVE  IsFiniteSet(UNION {g[x] : x \in DOMAIN g})
<1> DEFINE T == {g[x] : x \in DOMAIN g}
           h == [x \in DOMAIN g |-> g[x]]
<1>1. h \in Surjection(DOMAIN g, T)
  BY DEF Surjection
<1>2. IsFiniteSet(T)
  BY <1>1, FS_Surjection
<1>3. \A S \in T : IsFiniteSet(S)
  OBVIOUS
<1> HIDE DEF T
<1>4. IsFiniteSet(UNION T)
  BY <1>2, <1>3, FS_UNION
<1>5. QED BY <1>4 DEF T

\* The code of a block and the operands of an instruction are sequences.
LEMMA CodeType ==
  ASSUME F \in Function
  PROVE  /\ \A b \in Block : /\ F.code[b] \in Seq(Value)
                             /\ DOMAIN F.code[b] \subseteq Nat
                             /\ IsFiniteSet(DOMAIN F.code[b])
                             /\ \A k \in DOMAIN F.code[b] : F.code[b][k] \in Value
         /\ \A v \in Value : /\ DOMAIN F.ops[v] \subseteq Nat \ {0}
                             /\ IsFiniteSet(DOMAIN F.ops[v])
         /\ DOMAIN F.args \subseteq Nat /\ IsFiniteSet(DOMAIN F.args)
         /\ F.succ \in [Block -> SUBSET Block]
         /\ F.addr \in [Value -> Nat]
<1>1. \A s \in Seq(Value) : /\ DOMAIN s \subseteq Nat \ {0}
                            /\ IsFiniteSet(DOMAIN s)
                            /\ \A k \in DOMAIN s : s[k] \in Value
  <2> SUFFICES ASSUME NEW s \in Seq(Value)
               PROVE  /\ DOMAIN s \subseteq Nat \ {0}
                      /\ IsFiniteSet(DOMAIN s)
                      /\ \A k \in DOMAIN s : s[k] \in Value
    OBVIOUS
  <2>1. DOMAIN s = 1 .. Len(s) /\ Len(s) \in Nat
    OBVIOUS
  <2>2. IsFiniteSet(1 .. Len(s))
    BY <2>1, FS_Interval
  <2>3. QED BY <2>1, <2>2
<1>2. /\ F.code \in [Block -> Seq(Value)]
      /\ F.ops \in [Value -> Seq(Value)]
      /\ F.args \in Seq(Value)
      /\ F.succ \in [Block -> SUBSET Block]
      /\ F.addr \in [Value -> Nat]
  BY DEF Function
<1>3. QED BY <1>1, <1>2

\* A place tells its value.
IsPlace(p) ==
  /\ p = <<p[1], p[2], p[3], p[4]>>
  /\ \/ /\ p[1] \in Block
        /\ p[2] \in DOMAIN F.code[p[1]]
        /\ \/ /\ p[3] = 0
              /\ p[4] = F.code[p[1]][p[2]]
              /\ F.kind[p[4]] \in {"value", "phi"}
           \/ /\ p[3] \in DOMAIN F.ops[F.code[p[1]][p[2]]]
              /\ p[4] = F.ops[F.code[p[1]][p[2]]][p[3]]
     \/ p[1] = End /\ p[2] \in DOMAIN F.args /\ p[3] = 0 /\ p[4] = F.args[p[2]]

LEMMA MentionPlace ==
  ASSUME F \in Function, NEW p \in Mentions
  PROVE  IsPlace(p) /\ p[1] \in Nat /\ p[2] \in Nat /\ p[3] \in Nat
<1>1. IsPlace(p)
  <2>1. CASE \E k \in DOMAIN F.args : p = <<End, k, 0, F.args[k]>>
    BY <2>1 DEF IsPlace
  <2>2. CASE \E b \in Block : \E k \in DOMAIN F.code[b] : p \in OfInst(b, k)
    <3>1. PICK b \in Block : \E k \in DOMAIN F.code[b] : p \in OfInst(b, k)
      BY <2>2
    <3>2. PICK k \in DOMAIN F.code[b] : p \in OfInst(b, k)
      BY <3>1
    <3>3. \/ F.kind[F.code[b][k]] \in {"value", "phi"} /\ p = <<b, k, 0, F.code[b][k]>>
          \/ \E j \in DOMAIN F.ops[F.code[b][k]] : p = <<b, k, j, F.ops[F.code[b][k]][j]>>
      BY <3>2 DEF OfInst
    <3>4. QED BY <3>3 DEF IsPlace
  <2>3. QED BY <2>1, <2>2 DEF Mentions
<1>2. QED BY <1>1, CodeType, BlockNumbers DEF IsPlace

LEMMA MentionsFinite ==
  ASSUME F \in Function
  PROVE  IsFiniteSet(Mentions)
<1>1. ASSUME NEW b \in Block, NEW k \in DOMAIN F.code[b]
      PROVE  IsFiniteSet(OfInst(b, k))
  <2> DEFINE v == F.code[b][k]
             g == [j \in DOMAIN F.ops[v] |-> <<b, k, j, F.ops[v][j]>>]
             A == {<<b, k, j, F.ops[v][j]>> : j \in DOMAIN F.ops[v]}
  <2>1. IsFiniteSet(DOMAIN F.ops[v])
    BY CodeType
  <2>2. g \in Surjection(DOMAIN F.ops[v], A)
    BY DEF Surjection
  <2>3. IsFiniteSet(A)
    BY <2>1, <2>2, FS_Surjection
  <2>4. IsFiniteSet({<<b, k, 0, v>>}) /\ IsFiniteSet({})
    BY FS_Singleton, FS_EmptySet
  <2> HIDE DEF A, g
  <2>5. OfInst(b, k) = A \cup {<<b, k, 0, v>>} \/ OfInst(b, k) = A \cup {}
    BY DEF OfInst, A
  <2>6. IsFiniteSet(A \cup {<<b, k, 0, v>>}) /\ IsFiniteSet(A \cup {})
    BY <2>3, <2>4, FS_Union
  <2>7. QED BY <2>5, <2>6
<1>2. ASSUME NEW b \in Block
      PROVE  IsFiniteSet(UNION {OfInst(b, k) : k \in DOMAIN F.code[b]})
  <2> DEFINE g == [k \in DOMAIN F.code[b] |-> OfInst(b, k)]
  <2>1. IsFiniteSet(DOMAIN g) /\ \A k \in DOMAIN g : IsFiniteSet(g[k])
    BY <1>1, <1>2, CodeType
  <2>2. {OfInst(b, k) : k \in DOMAIN F.code[b]} = {g[k] : k \in DOMAIN g}
    OBVIOUS
  <2> HIDE DEF g
  <2>3. QED BY <2>1, <2>2, FiniteFamily
<1> DEFINE Of(b) == UNION {OfInst(b, k) : k \in DOMAIN F.code[b]}
           h == [b \in Block |-> Of(b)]
<1>3. IsFiniteSet(UNION {Of(b) : b \in Block})
  <2>1. IsFiniteSet(DOMAIN h) /\ \A b \in DOMAIN h : IsFiniteSet(h[b])
    BY <1>2, BlockAssumption
  <2>2. {Of(b) : b \in Block} = {h[b] : b \in DOMAIN h}
    OBVIOUS
  <2> HIDE DEF h
  <2>3. QED BY <2>1, <2>2, FiniteFamily
<1>4. IsFiniteSet({<<End, k, 0, F.args[k]>> : k \in DOMAIN F.args})
  <2> DEFINE A == {<<End, k, 0, F.args[k]>> : k \in DOMAIN F.args}
             g == [k \in DOMAIN F.args |-> <<End, k, 0, F.args[k]>>]
  <2>1. g \in Surjection(DOMAIN F.args, A)
    BY DEF Surjection
  <2>2. IsFiniteSet(DOMAIN F.args)
    BY CodeType
  <2>3. QED BY <2>1, <2>2, FS_Surjection
<1>5. QED
  <2> DEFINE A == UNION {Of(b) : b \in Block}
             B == {<<End, k, 0, F.args[k]>> : k \in DOMAIN F.args}
  <2>1. Mentions = A \cup B
    BY DEF Mentions
  <2> HIDE DEF A, B
  <2>2. IsFiniteSet(A) /\ IsFiniteSet(B)
    BY <1>3, <1>4 DEF A, B
  <2>3. QED BY <2>1, <2>2, FS_Union

LEMMA BeforeOrder ==
  ASSUME F \in Function, NEW p \in Mentions, NEW q \in Mentions
  PROVE  /\ ~ Before(p, p)
         /\ p = q \/ Before(p, q) \/ Before(q, p)
         /\ \A r \in Mentions : Before(p, q) /\ Before(q, r) => Before(p, r)
<1>1. \A r \in Mentions : r[1] \in Nat /\ r[2] \in Nat /\ r[3] \in Nat
  BY MentionPlace
<1>2. ASSUME p[1] = q[1], p[2] = q[2], p[3] = q[3] PROVE p = q
  <2>1. IsPlace(p) /\ IsPlace(q)
    BY MentionPlace
  <2>2. p[1] \in Block => p[1] # End
    BY BlockNumbers
  <2>3. 0 \notin DOMAIN F.ops[F.code[p[1]][p[2]]] \/ p[1] \notin Block
    BY <2>1, <2>2, CodeType DEF IsPlace
  <2>4. p[4] = q[4]
    BY <1>2, <2>1, <2>2, <2>3 DEF IsPlace
  <2>5. QED BY <1>2, <2>1, <2>4 DEF IsPlace
<1>3. ~ Before(p, p)
  BY <1>1 DEF Before
<1>4. p = q \/ Before(p, q) \/ Before(q, p)
  BY <1>1, <1>2 DEF Before
<1>5. \A r \in Mentions : Before(p, q) /\ Before(q, r) => Before(p, r)
  BY <1>1 DEF Before
<1>6. QED BY <1>3, <1>4, <1>5

\* Indices grow from place to place.
LEMMA IndexGrows ==
  ASSUME F \in Function
  PROVE  /\ IsFiniteSet(Given) /\ Cardinality(Given) \in Nat
         /\ \A p \in Given : IndexAt(p) \in Nat /\ IndexAt(p) < Cardinality(Given)
         /\ \A p, q \in Given : IndexAt(p) = IndexAt(q) => p = q
<1>1. IsFiniteSet(Given) /\ Cardinality(Given) \in Nat
  <2>1. Given \in SUBSET Mentions
    BY DEF Given
  <2>2. QED BY <2>1, MentionsFinite, FS_Subset, FS_CardinalityType
<1> DEFINE Below(p) == {q \in Given : Before(q, p)}
<1>2. ASSUME NEW p \in Given
      PROVE  /\ Below(p) \subseteq Given /\ p \notin Below(p)
             /\ IsFiniteSet(Below(p)) /\ Cardinality(Below(p)) \in Nat
  <2>1. p \notin Below(p)
    BY BeforeOrder DEF Given
  <2>2. QED BY <1>1, <2>1, FS_Subset, FS_CardinalityType
<1>3. ASSUME NEW p \in Given
      PROVE  IndexAt(p) \in Nat /\ IndexAt(p) < Cardinality(Given)
  <2>1. IndexAt(p) = Cardinality(Below(p))
    BY DEF IndexAt
  <2>2. /\ Cardinality(Below(p)) <= Cardinality(Given)
        /\ Cardinality(Given) = Cardinality(Below(p)) => Given = Below(p)
    BY <1>1, <1>2, FS_Subset
  <2>3. Given # Below(p)
    BY <1>2
  <2> HIDE DEF Below
  <2>4. QED BY <1>1, <1>2, <2>1, <2>2, <2>3
<1>4. ASSUME NEW p \in Given, NEW q \in Given, Before(p, q)
      PROVE  IndexAt(p) < IndexAt(q)
  <2>1. Below(p) \subseteq Below(q) /\ p \in Below(q)
    BY <1>4, BeforeOrder DEF Given
  <2>2. Below(p) # Below(q)
    BY <1>2, <2>1
  <2>3. /\ Cardinality(Below(p)) <= Cardinality(Below(q))
        /\ Cardinality(Below(q)) = Cardinality(Below(p)) => Below(q) = Below(p)
    BY <1>2, <2>1, FS_Subset
  <2>4. IndexAt(p) = Cardinality(Below(p)) /\ IndexAt(q) = Cardinality(Below(q))
    BY DEF IndexAt
  <2> HIDE DEF Below
  <2>5. QED BY <1>2, <2>2, <2>3, <2>4
<1>5. ASSUME NEW p \in Given, NEW q \in Given, IndexAt(p) = IndexAt(q)
      PROVE  p = q
  <2>1. p = q \/ Before(p, q) \/ Before(q, p)
    BY BeforeOrder DEF Given
  <2>2. QED BY <1>3, <1>4, <1>5, <2>1
<1>6. QED BY <1>1, <1>3, <1>5

\* The index of a value is that of one of its places.
LEMMA IndexPlace ==
  ASSUME F \in Function, NEW v \in DOMAIN buildBlockPointMap
  PROVE  \E p \in Given : p[4] = v /\ buildBlockPointMap[v] = IndexAt(p)
<1> DEFINE T == {IndexAt(p) : p \in {q \in Given : q[4] = v}}
<1>1. \E p \in Given : v = p[4]
  BY DEF buildBlockPointMap
<1>2. /\ T \in SUBSET Nat /\ T # {}
      /\ Cardinality(Given) \in Nat /\ \A x \in T : x <= Cardinality(Given)
  BY <1>1, IndexGrows
<1>3. buildBlockPointMap[v] = Max(T)
  BY DEF buildBlockPointMap
<1> HIDE DEF T
<1>4. Max(T) \in T
  BY <1>2, LargestNumber
<1>5. QED BY <1>3, <1>4 DEF T

\* An index tells its value.
LEMMA IndexTells ==
  ASSUME F \in Function
  PROVE  /\ \A v \in DOMAIN buildBlockPointMap : buildBlockPointMap[v] \in Nat
         /\ \A u, v \in DOMAIN buildBlockPointMap :
              buildBlockPointMap[u] = buildBlockPointMap[v] => u = v
<1>1. \A v \in DOMAIN buildBlockPointMap : buildBlockPointMap[v] \in Nat
  BY IndexPlace, IndexGrows
<1>2. ASSUME NEW u \in DOMAIN buildBlockPointMap, NEW v \in DOMAIN buildBlockPointMap,
             buildBlockPointMap[u] = buildBlockPointMap[v]
      PROVE  u = v
  <2>1. PICK p \in Given : p[4] = u /\ buildBlockPointMap[u] = IndexAt(p)
    BY IndexPlace
  <2>2. PICK q \in Given : q[4] = v /\ buildBlockPointMap[v] = IndexAt(q)
    BY IndexPlace
  <2>3. p = q
    BY <1>2, <2>1, <2>2, IndexGrows
  <2>4. QED BY <2>1, <2>2, <2>3
<1>3. QED BY <1>1, <1>2

\* A value gets two indices only when it is met as an operand before it is
\* computed.
LEMMA GivenOnce ==
  ASSUME F \in Functions, ~ ReadAhead,
         NEW p \in Given, NEW q \in Given, p[4] = q[4], Before(p, q)
  PROVE  FALSE
<1>1. F \in Function
  BY FunctionsAssumption
<1>2. /\ p \in Mentions /\ q \in Mentions
      /\ q[1] # End /\ q[3] = 0
  BY DEF Given, IsGiven
<1>3. /\ IsPlace(p) /\ p[1] \in Nat /\ p[2] \in Nat /\ p[3] \in Nat
      /\ IsPlace(q) /\ q[1] \in Nat /\ q[2] \in Nat
  BY <1>1, <1>2, MentionPlace
<1>4. /\ q[1] \in Block
      /\ q[2] \in DOMAIN F.code[q[1]]
      /\ \A v \in Value : 0 \notin DOMAIN F.ops[v]
      /\ F.code[q[1]][q[2]] \in Value
  BY <1>1, <1>2, <1>3, CodeType DEF IsPlace
<1>5. q[4] = F.code[q[1]][q[2]] /\ F.kind[q[4]] \in {"value", "phi"}
  BY <1>2, <1>3, <1>4 DEF IsPlace
<1>6. p[1] \in Block /\ p[2] \in DOMAIN F.code[p[1]]
  <2>1. p[1] # End
    BY <1>3, <1>4, BlockNumbers DEF Before
  <2>2. QED BY <1>3, <2>1 DEF IsPlace
<1>7. CASE p[3] = 0 /\ p[4] = F.code[p[1]][p[2]]
  <2>1. p[1] = q[1] /\ p[2] = q[2]
    BY <1>4, <1>5, <1>6, <1>7, FunctionsAssumption
  <2>2. QED BY <1>2, <1>3, <1>7, <2>1 DEF Before
<1>8. CASE p[3] # 0 /\ p[4] \in Elems(F.ops[F.code[p[1]][p[2]]])
  <2>1. p[1] < q[1] \/ (p[1] = q[1] /\ p[2] < q[2])
    BY <1>2, <1>3, <1>8 DEF Before
  <2>2. QED BY <1>4, <1>5, <1>6, <1>8, <2>1 DEF ReadAhead
<1>9. p[3] # 0 => p[4] \in Elems(F.ops[F.code[p[1]][p[2]]])
  <2>1. p[1] # End
    BY <1>6, BlockNumbers
  <2>2. QED BY <1>3, <2>1 DEF IsPlace, Elems
<1>10. p[3] = 0 => p[4] = F.code[p[1]][p[2]]
  <2>1. F.code[p[1]][p[2]] \in Value
    BY <1>1, <1>6, CodeType
  <2>2. 0 \notin DOMAIN F.ops[F.code[p[1]][p[2]]]
    BY <1>4, <2>1
  <2>3. p[1] # End
    BY <1>6, BlockNumbers
  <2>4. QED BY <1>3, <2>2, <2>3 DEF IsPlace
<1>11. QED BY <1>7, <1>8, <1>9, <1>10

\* Then there are as many indices as values.
LEMMA IndexFits ==
  ASSUME F \in Functions, ~ ReadAhead, NEW v \in DOMAIN buildBlockPointMap
  PROVE  buildBlockPointMap[v] < Cardinality(DOMAIN buildBlockPointMap)
<1> DEFINE V == DOMAIN buildBlockPointMap
           g == [p \in Given |-> p[4]]
<1>1. F \in Function
  BY FunctionsAssumption
<1>2. V = {p[4] : p \in Given}
  BY DEF buildBlockPointMap
<1>3. g \in Surjection(Given, V)
  BY <1>2 DEF Surjection
<1>4. \A p, q \in Given : g[p] = g[q] => p = q
  BY <1>1, GivenOnce, BeforeOrder DEF Given
<1>5. g \in Injection(Given, V)
  BY <1>3, <1>4 DEF Injection, IsInjective, Surjection
<1>6. Cardinality(V) = Cardinality(Given)
  BY <1>1, <1>3, <1>5, IndexGrows, FS_Surjection
<1>7. QED BY <1>1, <1>6, IndexPlace, IndexGrows

-----------------------------------------------------------------------------
\* A bit of a vector is a number.
LEMMA BitsType == \A V : Bits(V) \in SUBSET Nat
BY DEF Bits, Bit

LEMMA InitType == Init => TypeOK /\ Fixed
<1> SUFFICES ASSUME Init PROVE TypeOK /\ Fixed
  OBVIOUS
<1>1. F \in Function
  BY FunctionsAssumption DEF Init
<1>2. valuesToIndex \in [DOMAIN valuesToIndex -> Nat]
  <2>1. valuesToIndex = [v \in DOMAIN valuesToIndex |-> valuesToIndex[v]]
    BY DEF Init, buildBlockPointMap
  <2>2. \A v \in DOMAIN valuesToIndex : valuesToIndex[v] \in Nat
    BY <1>1, IndexTells DEF Init
  <2>3. QED BY <2>1, <2>2
<1>3. \A u, v \in DOMAIN valuesToIndex : valuesToIndex[u] = valuesToIndex[v] => u = v
  BY <1>1, IndexTells DEF Init
<1>4. QED BY <1>1, <1>2, <1>3, BlockNumbers DEF Init, TypeOK, Fixed, Unset

\* What a sweep forwards does to a block.
LEMMA DownEffect ==
  ASSUME TypeOK, NEW b \in Block, VisitDown(b)
  PROVE  /\ fromTop /\ at = b /\ at # End
         /\ UNCHANGED <<fromTop, F, valuesToIndex>>
         /\ in' = [in EXCEPT ![b] = in[b] \cup FromPreds(b)]
         /\ out' = [out EXCEPT ![b] = (in[b] \cup FromPreds(b)) \cup Bits(programPoints(b))]
         /\ at' = at + 1
         /\ modified' = (modified \/ out[b] # out'[b])
<1>1. Joined(b) = in[b] \cup FromPreds(b)
  BY DEF Joined, FromPreds
<1>2. in' = [in EXCEPT ![b] = in[b] \cup FromPreds(b)] /\ in'[b] = in[b] \cup FromPreds(b)
  BY <1>1 DEF VisitDown, TypeOK
<1>3. out' = [out EXCEPT ![b] = in'[b] \cup Bits(programPoints(b))]
  BY DEF VisitDown, defTransfer
<1>4. at # End
  BY BlockNumbers DEF VisitDown
<1>5. QED BY <1>2, <1>3, <1>4 DEF VisitDown, Differs

LEMMA NextType == TypeOK /\ Fixed /\ [Next]_vars => TypeOK' /\ Fixed'
<1> SUFFICES ASSUME TypeOK, Fixed, [Next]_vars PROVE TypeOK' /\ Fixed'
  OBVIOUS
<1> DEFINE Points == UNION {programPoints(b) : b \in Block}
<1>1. UNCHANGED <<F, valuesToIndex>>
  BY DEF Next, VisitDown, VisitUp, Again, Finished, vars
<1>2. Bit' = Bit /\ Points' = Points
  BY <1>1 DEF Bit, Size, programPoints, Inst
<1>3. Fixed'
  <2>1. \A b, k : OfInst(b, k)' = OfInst(b, k)
    BY <1>1 DEF OfInst
  <2>2. Mentions' = Mentions
    BY <1>1, <2>1 DEF Mentions
  <2>3. Given' = Given
    BY <2>2 DEF Given, IsGiven
  <2>4. \A p : IndexAt(p)' = IndexAt(p)
    BY <2>3 DEF IndexAt
  <2>5. buildBlockPointMap' = buildBlockPointMap
    BY <2>3, <2>4 DEF buildBlockPointMap
  <2>6. QED BY <1>1, <2>5 DEF Fixed
<1> HIDE DEF Points
<1>4. \A V : Bits(V) \in SUBSET Bit
  BY DEF Bits
<1>5. ASSUME NEW b \in Block, VisitDown(b) PROVE TypeOK'
  <2>1. at + 1 \in 1 .. End
    <3>1. at = b
      BY <1>5, Zenon DEF VisitDown
    <3>2. b + 1 \in 1 .. End
      BY BlockNumbers
    <3>3. QED BY <3>1, <3>2, Zenon
  <2>2. FromPreds(b) \in SUBSET Bit
    BY <1>4 DEF FromPreds, FromStart, pred, TypeOK
  <2>3. in' \in [Block -> SUBSET Bit] /\ out' \in [Block -> SUBSET Bit]
    BY <1>4, <1>5, <2>2, DownEffect DEF TypeOK
  <2>4. point' \in [Points -> SUBSET Bit]
    <3>1. \A P : defTransfer(P, in'[b]) \in SUBSET Bit
      BY <1>4, <2>3 DEF defTransfer
    <3>2. point \in [Points -> SUBSET Bit]
      BY DEF TypeOK, Points
    <3>3. QED BY <1>5, <3>1, <3>2 DEF VisitDown
  <2>5. QED
    BY <1>1, <1>2, <1>5, <2>1, <2>3, <2>4, DownEffect DEF TypeOK, Points, VisitDown
<1>6. ASSUME NEW b \in Block, VisitUp(b) PROVE TypeOK'
  <2>1. at + 1 \in 1 .. End
    <3>1. at = b
      BY <1>6, Zenon DEF VisitUp
    <3>2. b + 1 \in 1 .. End
      BY BlockNumbers
    <3>3. QED BY <3>1, <3>2, Zenon
  <2>2. \A P, V : liveTransfer(P, V) \in SUBSET Bit
    BY DEF liveTransfer
  <2>3. out' \in [Block -> SUBSET Bit] /\ in' \in [Block -> SUBSET Bit]
    BY <1>6, <2>2 DEF VisitUp, TypeOK
  <2>4. point' \in [Points -> SUBSET Bit]
    <3>1. point \in [Points -> SUBSET Bit]
      BY DEF TypeOK, Points
    <3>2. QED BY <1>6, <2>2, <3>1 DEF VisitUp
  <2>5. QED
    BY <1>1, <1>2, <1>6, <2>1, <2>3, <2>4 DEF TypeOK, Points, VisitUp, Differs
<1>7. CASE Again
  BY <1>2, <1>3, <1>7, BlockNumbers DEF Again, TypeOK, Points
<1>8. CASE UNCHANGED vars
  BY <1>2, <1>3, <1>8 DEF vars, TypeOK, Points
<1>9. QED BY <1>3, <1>5, <1>6, <1>7, <1>8 DEF Next, Finished

-----------------------------------------------------------------------------
\* Forwards, the vectors only collect what their equations give, so that they
\* never shrink; and the blocks a sweep has passed without a change satisfy
\* their equations.
Collected ==
  \A b \in Block : in[b] \subseteq FromPreds(b) /\ out[b] \subseteq in[b] \cup Bits(programPoints(b))
Settled ==
  ~ modified =>
    \A b \in Block : b < at => in[b] = FromPreds(b) /\ out[b] = Equation(b)

IInv == TypeOK /\ Fixed /\ (fromTop => Collected /\ Settled)

LEMMA InitIInv == Init => IInv
<1> SUFFICES ASSUME Init PROVE IInv
  OBVIOUS
<1>1. Collected
  BY DEF Init, Unset, Collected
<1>2. Settled
  BY BlockNumbers DEF Init, Settled, Entry
<1>3. QED BY <1>1, <1>2, InitType DEF IInv

\* A visit gives a block what its equation gives, which is no less than it had.
LEMMA DownFlow ==
  ASSUME TypeOK, Collected, NEW b \in Block, VisitDown(b)
  PROVE  /\ out' = [out EXCEPT ![b] = Equation(b)]
         /\ out[b] \subseteq Equation(b)
         /\ in' = [in EXCEPT ![b] = FromPreds(b)]
<1>1. in[b] \cup FromPreds(b) = FromPreds(b)
  BY DEF Collected
<1>2. out[b] \subseteq Equation(b)
  BY <1>1 DEF Collected, Equation
<1>3. QED BY <1>1, <1>2, DownEffect DEF Equation

LEMMA DownIInv ==
  ASSUME TypeOK, fromTop, Collected, Settled, NEW b \in Block, VisitDown(b)
  PROVE  Collected' /\ Settled'
<1>1. UNCHANGED <<F, valuesToIndex>>
  BY DownEffect
<1>2. \A c \in Block : out[c] \subseteq out'[c]
  BY DownFlow DEF TypeOK
<1>3. ASSUME NEW c \in Block
      PROVE  /\ FromPreds(c) \subseteq FromPreds(c)'
             /\ Bits(programPoints(c))' = Bits(programPoints(c))
  <2>1. pred(c)' = pred(c) /\ pred(c) \subseteq Block /\ FromStart(c)' = FromStart(c)
    BY <1>1 DEF pred, FromStart, Bits, Bit, Size, Index, Args
  <2>2. UNION {out[d] : d \in pred(c)} \subseteq UNION {out'[d] : d \in pred(c)}
    BY <1>2, <2>1
  <2>3. Bits(programPoints(c))' = Bits(programPoints(c))
    BY <1>1 DEF programPoints, Inst, Bits, Bit, Size, Index
  <2>4. QED BY <2>1, <2>2, <2>3 DEF FromPreds
<1>4. Collected'
  <2> SUFFICES ASSUME NEW c \in Block
               PROVE  /\ in'[c] \subseteq FromPreds(c)'
                      /\ out'[c] \subseteq in'[c] \cup Bits(programPoints(c))'
    BY DEF Collected
  <2>1. CASE c = b
    <3>1. in'[b] = FromPreds(b) /\ out'[b] = FromPreds(b) \cup Bits(programPoints(b))
      BY DownFlow DEF TypeOK, Equation
    <3>2. QED BY <2>1, <3>1, <1>3
  <2>2. CASE c # b
    <3>1. in'[c] = in[c] /\ out'[c] = out[c]
      BY <2>2, DownFlow DEF TypeOK
    <3>2. QED BY <3>1, <1>3 DEF Collected
  <2>3. QED BY <2>1, <2>2
<1>5. Settled'
  <2> SUFFICES ASSUME ~ modified', NEW c \in Block, c < at'
               PROVE  in'[c] = FromPreds(c)' /\ out'[c] = Equation(c)'
    BY DEF Settled
  <2>1. ~ modified /\ out' = out /\ out[b] = Equation(b)
    <3>1. ~ modified /\ out[b] = out'[b]
      BY DownEffect
    <3>2. out' = [out EXCEPT ![b] = Equation(b)] /\ out \in [Block -> SUBSET Bit]
      BY DownFlow DEF TypeOK
    <3>3. out'[b] = Equation(b)
      BY <3>2
    <3>4. QED BY <3>1, <3>2, <3>3
  <2>2. FromPreds(c)' = FromPreds(c) /\ Equation(c)' = Equation(c)
    BY <1>1, <2>1 DEF Equation, FromPreds, FromStart, pred, programPoints, Inst, Args,
                      Bits, Bit, Size, Index
  <2>3. c < at \/ c = b
    <3>1. at = b /\ at' = at + 1
      BY DownEffect
    <3>2. b \in Nat /\ c \in Nat
      BY BlockNumbers
    <3>3. QED BY <3>1, <3>2
  <2>4. CASE c = b
    <3>1. in'[b] = FromPreds(b)
      BY DownFlow DEF TypeOK
    <3>2. QED BY <2>1, <2>2, <2>4, <3>1
  <2>5. CASE c < at /\ c # b
    <3>1. in'[c] = in[c]
      BY <2>5, DownFlow DEF TypeOK
    <3>2. QED BY <2>1, <2>2, <2>5, <3>1 DEF Settled
  <2>6. QED BY <2>3, <2>4, <2>5
<1>6. QED BY <1>4, <1>5

LEMMA NextIInv == IInv /\ [Next]_vars => IInv'
<1> SUFFICES ASSUME IInv, [Next]_vars PROVE IInv'
  OBVIOUS
<1>1. TypeOK' /\ Fixed'
  BY NextType DEF IInv
<1> SUFFICES ASSUME fromTop' PROVE Collected' /\ Settled'
  BY <1>1 DEF IInv
<1>2. ASSUME NEW b \in Block, VisitDown(b) PROVE Collected' /\ Settled'
  BY <1>2, DownIInv, DownEffect DEF IInv
<1>3. ASSUME NEW b \in Block, VisitUp(b) PROVE FALSE
  BY <1>3 DEF VisitUp
<1>4. ASSUME UNCHANGED <<fromTop, F, valuesToIndex, in, out>> PROVE Collected'
  BY <1>4 DEF IInv, Collected, FromPreds, FromStart, pred, programPoints, Inst, Args,
              Bits, Bit, Size, Index
<1>5. CASE Again
  <2>1. Settled'
    BY <1>5, BlockNumbers DEF Again, Settled, Entry
  <2>2. QED BY <1>4, <1>5, <2>1 DEF Again
<1>6. CASE UNCHANGED vars
  <2>1. Settled'
    BY <1>6 DEF vars, IInv, Settled, Equation, FromPreds, FromStart, pred, programPoints,
                Inst, Args, Bits, Bit, Size, Index
  <2>2. QED BY <1>4, <1>6, <2>1 DEF vars
<1>7. QED BY <1>2, <1>3, <1>5, <1>6 DEF Next, Finished

THEOREM Invariant == Spec => []IInv
<1>1. QED BY InitIInv, NextIInv, PTL DEF Spec

-----------------------------------------------------------------------------
\* Dataflow's equations are those of the pass.
Equations == [dep |-> [b \in Block |-> pred(b)],
              gen |-> [b \in Block |-> FromStart(b) \cup Bits(programPoints(b))],
              kill |-> Unset]

LEMMA AbstractProblem == F \in Function => Equations \in DF!Problem
BY BitsType DEF Equations, DF!Problem, Unset, pred, FromStart

LEMMA AbstractFlow == \A b \in Block : DF!Flow(Equations, out, b) = Equation(b)
BY DEF DF!Flow, Equations, Unset, Equation, FromPreds

\* A pass that ends has a solution.
LEMMA DoneSolved == IInv /\ fromTop /\ Done => DF!IsSolution(Equations, out)
<1> SUFFICES ASSUME IInv, fromTop, Done, NEW b \in Block
             PROVE  out[b] = DF!Flow(Equations, out, b)
  BY DEF DF!IsSolution
<1>1. b < at
  BY BlockNumbers DEF Done
<1>2. QED BY <1>1, AbstractFlow DEF IInv, Settled, Done

LEMMA DoneSolvedNext == (IInv /\ fromTop /\ Done => DF!IsSolution(Equations, out))'
BY DoneSolved, PTL

\* Reaching definitions end with the least solution of their equations,
\* whatever the function and the layout of memory: a visit raises its block in
\* Dataflow, and nothing else can be seen there.
THEOREM LeastReachingCorrect == Spec => LeastReaching
<1> DEFINE sol == IF fromTop THEN out ELSE Unset
           solved == fromTop /\ Done
<1>1. Init => DF!Init
  <2> SUFFICES ASSUME Init PROVE DF!Init
    OBVIOUS
  <2>1. Equations \in DF!Problem
    BY AbstractProblem, FunctionsAssumption DEF Init
  <2>2. sol = DF!Empty
    BY DEF Init, Unset, DF!Empty
  <2>3. solved = FALSE
    BY BlockNumbers DEF Init, Done
  <2>4. QED BY <2>1, <2>2, <2>3 DEF DF!Init, Equations
<1>2. IInv /\ IInv' /\ [Next]_vars => [DF!Next]_(DF!vars)
  <2> SUFFICES ASSUME IInv, IInv', [Next]_vars PROVE [DF!Next]_(DF!vars)
    OBVIOUS
  <2>1. UNCHANGED <<F, valuesToIndex>> => UNCHANGED Equations
    BY DEF Equations, FromStart, pred, programPoints, Inst, Args, Bits, Bit, Size, Index, Unset
  <2>2. ASSUME NEW b \in Block, VisitDown(b) PROVE DF!Raise(b)
    <3>1. fromTop /\ fromTop' /\ ~ solved /\ UNCHANGED Equations
      BY <2>1, <2>2, DownEffect DEF IInv, Done
    <3>2. out' = [out EXCEPT ![b] = DF!Flow(Equations, out, b)]
      BY <2>2, <3>1, DownFlow, AbstractFlow DEF IInv
    <3>3. Done' => DF!IsSolution(Equations, out')
      BY <3>1, DoneSolvedNext DEF DF!IsSolution, DF!Flow
    <3>4. solved' \in BOOLEAN
      BY <3>1 DEF IInv
    <3>5. QED BY <3>1, <3>2, <3>3, <3>4 DEF DF!Raise, Equations
  <2>3. ASSUME NEW b \in Block, VisitUp(b) PROVE UNCHANGED DF!vars
    <3>1. ~ fromTop /\ ~ fromTop' /\ UNCHANGED Equations
      BY <2>1, <2>3 DEF VisitUp
    <3>2. QED BY <3>1 DEF DF!vars, Equations, Unset
  <2>4. CASE Again
    <3>1. ~ Done /\ ~ Done' /\ UNCHANGED <<fromTop, out>> /\ UNCHANGED Equations
      BY <2>1, <2>4, BlockNumbers DEF Again, Done
    <3>2. QED BY <3>1 DEF DF!vars, Equations, Unset
  <2>5. CASE UNCHANGED vars
    <3>1. (Done' = Done) /\ UNCHANGED <<fromTop, out>> /\ UNCHANGED Equations
      BY <2>1, <2>5 DEF vars, Done
    <3>2. QED BY <3>1 DEF DF!vars, Equations, Unset
  <2>6. QED BY <2>2, <2>3, <2>4, <2>5 DEF Next, Finished, DF!Next
<1>3. QED BY <1>1, <1>2, Invariant, PTL DEF Spec, LeastReaching, DF!Spec

-----------------------------------------------------------------------------
(***************************************************************************)
(* What the bits mean.                                                     *)
(***************************************************************************)

\* Every reachable state is well typed, and no two values have one index: where
\* buildBlockPointMap replaces the index of an instruction met before as an
\* operand, it goes on counting.
THEOREM TypeCorrect == Spec => []TypeOK
<1>1. IInv => TypeOK
  BY DEF IInv
<1>2. QED BY <1>1, Invariant, PTL

\* Indices outgrow the vectors only if an operand is met before the instruction
\* that computes it: the test in buildBlockPointMap is for operands alone.
THEOREM OverrunCorrect == Spec => []OverrunNeedsReadAhead
<1>1. IInv => OverrunNeedsReadAhead
  <2> SUFFICES ASSUME IInv, ~ ReadAhead, NEW v \in DOMAIN valuesToIndex
               PROVE  Index(v) \in Bit
    BY DEF OverrunNeedsReadAhead
  <2>1. F \in Functions /\ F \in Function /\ valuesToIndex = buildBlockPointMap
    BY DEF IInv, TypeOK, Fixed
  <2>2. Index(v) \in Nat /\ Index(v) < Size
    BY <2>1, IndexFits, IndexTells DEF Index, Size
  <2>3. Size \in Nat
    <3> DEFINE g == [p \in Given |-> p[4]]
    <3>1. g \in Surjection(Given, DOMAIN valuesToIndex)
      BY <2>1 DEF Surjection, buildBlockPointMap
    <3>2. IsFiniteSet(DOMAIN valuesToIndex)
      BY <2>1, <3>1, IndexGrows, FS_Surjection
    <3>3. QED BY <3>2, FS_CardinalityType DEF Size
  <2>4. QED BY <2>2, <2>3 DEF Bit
<1>2. QED BY <1>1, Invariant, PTL

\* A bit other than the first says which value it is for.
LEMMA OwnBit ==
  ASSUME TypeOK, Fixed, NEW v, HasBit(v), NEW V
  PROVE  Index(v) \in Bits(V) <=> v \in V
<1>1. /\ v \in DOMAIN buildBlockPointMap
      /\ Index(v) = buildBlockPointMap[v]
      /\ Index(v) # 0 /\ Index(v) \in Bit
  BY DEF Fixed, HasBit, Index
<1>2. ASSUME NEW u \in V, Index(u) = Index(v) PROVE u = v
  <2>1. u \in DOMAIN buildBlockPointMap /\ Index(u) = buildBlockPointMap[u]
    BY <1>1, <1>2 DEF Index, Fixed
  <2>2. QED BY <1>1, <1>2, <2>1, IndexTells DEF TypeOK
<1>3. QED BY <1>1, <1>2 DEF Bits

LEMMA DownstreamOn ==
  ASSUME F \in Function, NEW B \in SUBSET Block
  PROVE  /\ ClosedDownstream(B, Downstream(B))
         /\ \A S \in SUBSET Block : ClosedDownstream(B, S) => Downstream(B) \subseteq S
<1>1. \A S \in SUBSET Block : ClosedDownstream(B, S) => Downstream(B) \subseteq S
  BY DEF Downstream
<1>2. ASSUME NEW b \in B \cup Downstream(B), NEW c \in F.succ[b]
      PROVE  c \in Downstream(B)
  <2>1. b \in Block
    BY DEF Downstream
  <2>2. c \in Block
    BY <2>1, CodeType
  <2>3. ASSUME NEW S \in SUBSET Block, ClosedDownstream(B, S) PROVE c \in S
    BY <1>1, <1>2, <2>3 DEF ClosedDownstream
  <2>4. QED BY <2>2, <2>3 DEF Downstream
<1>3. QED BY <1>1, <1>2 DEF ClosedDownstream

LEMMA ReachesOn ==
  ASSUME F \in Function, NEW v, NEW b \in Block, NEW c \in F.succ[b],
         Reaches(v, b) \/ v \in programPoints(b)
  PROVE  Reaches(v, c)
<1>1. CASE v \in programPoints(b)
  <2>1. c \in Downstream({b})
    BY DownstreamOn DEF ClosedDownstream
  <2>2. QED BY <1>1, <2>1 DEF Reaches
<1>2. CASE \E d \in Block : v \in programPoints(d) /\ b \in Downstream({d})
  <2>1. PICK d \in Block : v \in programPoints(d) /\ b \in Downstream({d})
    BY <1>2
  <2>2. c \in Downstream({d})
    BY <2>1, DownstreamOn DEF ClosedDownstream
  <2>3. QED BY <2>1, <2>2 DEF Reaches
<1>3. CASE v \in Args /\ b \in {Entry} \cup Downstream({Entry})
  <2>1. {Entry} \in SUBSET Block
    BY BlockNumbers
  <2>2. c \in Downstream({Entry})
    BY <1>3, <2>1, DownstreamOn DEF ClosedDownstream
  <2>3. QED BY <1>3, <2>2 DEF Reaches
<1>4. QED BY <1>1, <1>2, <1>3 DEF Reaches

\* Forwards, a bit is only where some path has brought its value.
Brought ==
  fromTop =>
    \A v : HasBit(v) => \A b \in Block :
      /\ Index(v) \in in[b] => Reaches(v, b)
      /\ Index(v) \in out[b] => Reaches(v, b) \/ v \in programPoints(b)

LEMMA BroughtStep ==
  ASSUME IInv, Brought, fromTop, NEW b \in Block, VisitDown(b)
  PROVE  Brought'
<1>1. UNCHANGED <<fromTop, F, valuesToIndex>>
  BY DownEffect DEF IInv
<1>2. /\ \A v : HasBit(v)' = HasBit(v) /\ Index(v)' = Index(v)
      /\ \A c : programPoints(c)' = programPoints(c)
      /\ \A v, c : Reaches(v, c)' = Reaches(v, c)
  BY <1>1 DEF HasBit, Index, Bit, Size, programPoints, Inst, Reaches, Args,
              Downstream, ClosedDownstream
<1> SUFFICES ASSUME NEW v, HasBit(v), NEW c \in Block
             PROVE  /\ Index(v) \in in'[c] => Reaches(v, c)
                    /\ Index(v) \in out'[c] => Reaches(v, c) \/ v \in programPoints(c)
  BY <1>1, <1>2 DEF Brought
<1>3. CASE c # b
  <2>1. in'[c] = in[c] /\ out'[c] = out[c]
    BY <1>3, DownFlow DEF IInv, TypeOK
  <2>2. QED BY <2>1 DEF Brought
<1>4. CASE c = b
  <2>1. /\ in'[b] = FromPreds(b)
        /\ out'[b] = FromPreds(b) \cup Bits(programPoints(b))
    BY DownFlow DEF IInv, TypeOK, Equation
  <2>2. ASSUME Index(v) \in FromStart(b) PROVE Reaches(v, b)
    <3>1. b = Entry /\ Index(v) \in Bits(Args)
      BY <2>2 DEF FromStart
    <3>2. v \in Args
      BY <3>1, OwnBit DEF IInv
    <3>3. QED BY <3>1, <3>2 DEF Reaches
  <2>3. ASSUME NEW d \in pred(b), Index(v) \in out[d] PROVE Reaches(v, b)
    <3>1. d \in Block /\ b \in F.succ[d]
      BY DEF pred
    <3>2. Reaches(v, d) \/ v \in programPoints(d)
      BY <2>3, <3>1 DEF Brought
    <3>3. QED BY <3>1, <3>2, ReachesOn DEF IInv, TypeOK
  <2>4. Index(v) \in FromPreds(b) => Reaches(v, b)
    BY <2>2, <2>3 DEF FromPreds
  <2>5. Index(v) \in Bits(programPoints(b)) => v \in programPoints(b)
    BY OwnBit DEF IInv
  <2>6. QED BY <1>4, <2>1, <2>4, <2>5
<1>5. QED BY <1>3, <1>4

LEMMA BroughtInvariant == Spec => []Brought
<1>1. Init => Brought
  BY DEF Init, Brought, Unset
<1>2. IInv /\ Brought /\ [Next]_vars => Brought'
  <2> SUFFICES ASSUME IInv, Brought, [Next]_vars PROVE Brought'
    OBVIOUS
  <2>1. ASSUME NEW b \in Block, VisitDown(b) PROVE Brought'
    BY <2>1, BroughtStep DEF VisitDown
  <2>2. ASSUME NEW b \in Block, VisitUp(b) PROVE Brought'
    BY <2>2 DEF VisitUp, Brought
  <2>3. ASSUME UNCHANGED <<fromTop, F, valuesToIndex, in, out>> PROVE Brought'
    BY <2>3 DEF Brought, HasBit, Index, Bit, Size, programPoints, Inst, Reaches, Args,
                Downstream, ClosedDownstream
  <2>4. QED BY <2>1, <2>2, <2>3 DEF Next, Again, Finished, vars
<1>3. QED BY <1>1, <1>2, Invariant, PTL DEF Spec

\* When the equations hold, a path takes the bit along.
LEMMA DoneReaches ==
  ASSUME IInv, Done, fromTop, NEW v, HasBit(v), NEW b \in Block, Reaches(v, b)
  PROVE  Index(v) \in in[b]
<1> DEFINE T == {c \in Block : Index(v) \in in[c]}
<1>1. \A c \in Block : /\ in[c] = FromPreds(c)
                       /\ out[c] = FromPreds(c) \cup Bits(programPoints(c))
  <2>1. \A c \in Block : c < at
    BY BlockNumbers DEF Done
  <2>2. QED BY <2>1 DEF IInv, Settled, Done, Equation
<1>2. F \in Function
  BY DEF IInv, TypeOK
<1>3. ASSUME NEW c \in Block, Index(v) \in out[c] PROVE F.succ[c] \subseteq T
  <2> SUFFICES ASSUME NEW d \in F.succ[c] PROVE d \in T
    OBVIOUS
  <2>1. d \in Block /\ c \in pred(d)
    BY <1>2, CodeType DEF pred
  <2>2. Index(v) \in FromPreds(d)
    BY <1>3, <2>1 DEF FromPreds
  <2>3. QED BY <1>1, <2>1, <2>2
<1>4. ASSUME NEW c \in T PROVE F.succ[c] \subseteq T
  BY <1>1, <1>3
<1> HIDE DEF T
<1>5. T \in SUBSET Block
  BY DEF T
<1>6. CASE \E c \in Block : v \in programPoints(c) /\ b \in Downstream({c})
  <2>1. PICK c \in Block : v \in programPoints(c) /\ b \in Downstream({c})
    BY <1>6
  <2>2. Index(v) \in Bits(programPoints(c))
    BY <2>1, OwnBit DEF IInv
  <2>3. F.succ[c] \subseteq T
    BY <1>1, <1>3, <2>2
  <2>4. ClosedDownstream({c}, T)
    BY <1>4, <2>3 DEF ClosedDownstream
  <2>5. b \in T
    BY <1>2, <1>5, <2>1, <2>4, DownstreamOn
  <2>6. QED BY <2>5 DEF T
<1>7. CASE v \in Args /\ b \in {Entry} \cup Downstream({Entry})
  <2>1. Entry \in Block
    BY BlockNumbers
  <2>2. Index(v) \in Bits(Args)
    BY <1>7, OwnBit DEF IInv
  <2>3. Entry \in T
    BY <1>1, <2>1, <2>2 DEF T, FromPreds, FromStart
  <2>4. ClosedDownstream({Entry}, T)
    BY <1>4, <2>3 DEF ClosedDownstream
  <2>5. b \in T
    BY <1>2, <1>5, <1>7, <2>1, <2>3, <2>4, DownstreamOn
  <2>6. QED BY <2>5 DEF T
<1>8. QED BY <1>6, <1>7 DEF Reaches

\* Reaching definitions follow the paths exactly, for every value with a bit of
\* its own, in every function.
THEOREM ReachingExactCorrect == Spec => []ReachingExact
<1>1. IInv /\ Brought => ReachingExact
  BY DoneReaches DEF Brought, ReachingExact
<1>2. QED BY <1>1, Invariant, BroughtInvariant, PTL

-----------------------------------------------------------------------------
(***************************************************************************)
(* Live variables, within a block.                                         *)
(***************************************************************************)
LEMMA PlaceOf ==
  ASSUME NEW b \in Block, NEW v \in programPoints(b)
  PROVE  \E i \in DOMAIN F.code[b] : F.code[b][i] = v
BY DEF programPoints, Inst, Elems

\* A point is in one block.
LEMMA PointOnce ==
  ASSUME F \in Functions, NEW b \in Block, NEW c \in Block, b # c
  PROVE  programPoints(b) \cap programPoints(c) = {}
<1> SUFFICES ASSUME NEW v \in programPoints(b) \cap programPoints(c) PROVE FALSE
  OBVIOUS
<1>1. PICK i \in DOMAIN F.code[b] : F.code[b][i] = v
  BY PlaceOf
<1>2. PICK k \in DOMAIN F.code[c] : F.code[c][k] = v
  BY PlaceOf
<1>3. QED BY <1>1, <1>2, FunctionsAssumption

\* In a block in memory order, the orders are the same.
LEMMA SameOrder ==
  ASSUME F \in Function, NEW b \in Block, InMemoryOrder(b),
         NEW i \in DOMAIN F.code[b], NEW j \in DOMAIN F.code[b]
  PROVE  F.addr[F.code[b][i]] < F.addr[F.code[b][j]] <=> i < j
<1>1. /\ i \in Nat /\ j \in Nat
      /\ F.addr[F.code[b][i]] \in Nat /\ F.addr[F.code[b][j]] \in Nat
  BY CodeType
<1>2. i < j \/ i = j \/ j < i
  BY <1>1
<1>3. /\ i < j => F.addr[F.code[b][i]] < F.addr[F.code[b][j]]
      /\ j < i => F.addr[F.code[b][j]] < F.addr[F.code[b][i]]
  BY DEF InMemoryOrder
<1>4. QED BY <1>1, <1>2, <1>3

\* The transfer function in terms of values: a value that does not come from
\* behind is live if it is used before it is computed.
LEMMA TransferOfValue ==
  ASSUME TypeOK, Fixed, NEW v, HasBit(v), NEW Q, NEW V, Index(v) \notin V
  PROVE  Index(v) \in liveTransfer(Q, V) <=>
           \E w \in Q : /\ v \in Elems(F.ops[w])
                        /\ \A u \in Q : F.addr[u] < F.addr[w] => u # v
<1>1. Index(v) \in Bit
  BY DEF HasBit
<1>2. \A w \in Q : /\ Index(v) \in Bits(Elems(F.ops[w])) <=> v \in Elems(F.ops[w])
                   /\ Index(v) \in Bits({w}) <=> w = v
  BY OwnBit
<1>3. QED BY <1>1, <1>2 DEF liveTransfer

\* What is used only in its block, after it is computed, is not live at either
\* end of it.
Inside ==
  ~ fromTop =>
    \A b \in Block : \A v : InMemoryOrder(b) /\ HasBit(v) /\ Local(v, b) =>
      Index(v) \notin in[b] /\ Index(v) \notin out[b]

\* The points of the blocks that a sweep has passed agree with the vectors.
Walked ==
  ~ fromTop =>
    \A c \in Block : c < at =>
      \A u \in programPoints(c) :
        point[u] = liveTransfer(From(u, programPoints(c)), out[c])

LEMMA LocalNotBefore ==
  ASSUME TypeOK, Fixed, NEW b \in Block, InMemoryOrder(b),
         NEW v, HasBit(v), Local(v, b), NEW V, Index(v) \notin V
  PROVE  Index(v) \notin liveTransfer(programPoints(b), V)
<1> SUFFICES ASSUME NEW w \in programPoints(b), v \in Elems(F.ops[w]),
                    \A u \in programPoints(b) : F.addr[u] < F.addr[w] => u # v
             PROVE  FALSE
  BY TransferOfValue
<1>1. v \in programPoints(b)
  BY DEF Local
<1>2. PICK i \in DOMAIN F.code[b] : F.code[b][i] = v
  BY <1>1, PlaceOf
<1>3. PICK j \in DOMAIN F.code[b] : F.code[b][j] = w
  BY PlaceOf
<1>4. i < j
  BY <1>2, <1>3 DEF Local
<1>5. F.addr[v] < F.addr[w]
  BY <1>2, <1>3, <1>4, SameOrder DEF TypeOK
<1>6. QED BY <1>1, <1>5

LEMMA UpStep ==
  ASSUME IInv, Inside, Walked, NEW b \in Block, VisitUp(b)
  PROVE  Inside' /\ Walked'
<1>1. /\ ~ fromTop /\ at = b /\ at' = at + 1
      /\ UNCHANGED <<fromTop, F, valuesToIndex>>
      /\ out' = [out EXCEPT ![b] = out[b] \cup in[b]]
      /\ in' = [in EXCEPT ![b] = liveTransfer(programPoints(b), out'[b])]
      /\ point' = [v \in DOMAIN point |->
                     IF v \in programPoints(b)
                     THEN liveTransfer(From(v, programPoints(b)), out'[b])
                     ELSE point[v]]
  BY DEF VisitUp
<1>2. /\ \A v : HasBit(v)' = HasBit(v) /\ Index(v)' = Index(v)
      /\ \A c : programPoints(c)' = programPoints(c) /\ InMemoryOrder(c)' = InMemoryOrder(c)
      /\ \A v, c : Local(v, c)' = Local(v, c)
      /\ \A u, P : From(u, P)' = From(u, P)
      /\ \A P, V : liveTransfer(P, V)' = liveTransfer(P, V)
  BY <1>1 DEF HasBit, Index, Bits, Bit, Size, programPoints, Inst, Insts, InMemoryOrder,
              Local, From, liveTransfer
<1>3. /\ out'[b] = out[b] \cup in[b]
      /\ in'[b] = liveTransfer(programPoints(b), out'[b])
      /\ \A c \in Block : c # b => in'[c] = in[c] /\ out'[c] = out[c]
  BY <1>1 DEF IInv, TypeOK
<1>4. Inside'
  <2> SUFFICES ASSUME NEW c \in Block, NEW v, InMemoryOrder(c), HasBit(v), Local(v, c)
               PROVE  Index(v) \notin in'[c] /\ Index(v) \notin out'[c]
    BY <1>2 DEF Inside
  <2>1. Index(v) \notin in[c] /\ Index(v) \notin out[c]
    BY <1>1 DEF Inside
  <2>2. CASE c = b
    <3>1. Index(v) \notin out'[b]
      BY <1>3, <2>1, <2>2
    <3>2. Index(v) \notin in'[b]
      BY <1>3, <2>2, <3>1, LocalNotBefore DEF IInv
    <3>3. QED BY <2>2, <3>1, <3>2
  <2>3. QED BY <1>3, <2>1, <2>2
<1>5. Walked'
  <2> SUFFICES ASSUME NEW c \in Block, c < at', NEW u \in programPoints(c)
               PROVE  point'[u] = liveTransfer(From(u, programPoints(c)), out'[c])
    BY <1>2 DEF Walked
  <2>1. u \in DOMAIN point
    BY DEF IInv, TypeOK
  <2>2. CASE c = b
    BY <1>1, <2>1, <2>2
  <2>3. CASE c # b
    <3>1. c < at
      BY <1>1, <2>3, BlockNumbers
    <3>2. u \notin programPoints(b)
      BY <2>3, PointOnce DEF IInv, Fixed
    <3>3. point'[u] = point[u] /\ out'[c] = out[c]
      BY <1>1, <1>3, <2>1, <2>3, <3>2
    <3>4. QED BY <1>1, <3>1, <3>3 DEF Walked
  <2>4. QED BY <2>2, <2>3
<1>6. QED BY <1>4, <1>5

LEMMA UpInvariant == Spec => [](Inside /\ Walked)
<1>1. Init => Inside /\ Walked
  BY BlockNumbers DEF Init, Inside, Walked, Unset, Entry
<1>2. IInv /\ Inside /\ Walked /\ [Next]_vars => Inside' /\ Walked'
  <2> SUFFICES ASSUME IInv, Inside, Walked, [Next]_vars PROVE Inside' /\ Walked'
    OBVIOUS
  <2>1. ASSUME NEW b \in Block, VisitUp(b) PROVE Inside' /\ Walked'
    BY <2>1, UpStep
  <2>2. ASSUME NEW b \in Block, VisitDown(b) PROVE Inside' /\ Walked'
    BY <2>2 DEF VisitDown, Inside, Walked
  <2>3. ASSUME UNCHANGED <<fromTop, F, valuesToIndex, in, out>> PROVE Inside'
    BY <2>3 DEF Inside, HasBit, Index, Bit, Size, programPoints, Inst, Insts,
                InMemoryOrder, Local
  <2>4. CASE Again
    <3>1. Walked'
      BY <2>4, BlockNumbers DEF Again, Walked, Entry
    <3>2. QED BY <2>3, <2>4, <3>1 DEF Again
  <2>5. CASE UNCHANGED vars
    <3>1. Walked'
      BY <2>5 DEF vars, Walked, Index, Bits, Bit, Size, programPoints, Inst, From,
                  liveTransfer
    <3>2. QED BY <2>3, <2>5, <3>1 DEF vars
  <2>6. QED BY <2>1, <2>2, <2>4, <2>5 DEF Next, Finished
<1>3. QED BY <1>1, <1>2, Invariant, PTL DEF Spec

\* Within a block that lies in memory in its order, a value is live from where
\* it is computed to its last use, and nowhere else.
THEOREM LiveWithinBlocksCorrect == Spec => []LiveWithinBlocks
<1>1. IInv /\ Inside /\ Walked => LiveWithinBlocks
  <2> SUFFICES ASSUME IInv, Inside, Walked, Done, ~ fromTop,
                      NEW b \in Block, InMemoryOrder(b),
                      NEW k \in DOMAIN F.code[b], NEW v \in Insts,
                      HasBit(v), Local(v, b), F.code[b][k] \in programPoints(b)
               PROVE  Index(v) \in point[F.code[b][k]]
                        <=> \E i, j \in DOMAIN F.code[b] :
                              /\ i < k /\ k <= j
                              /\ F.code[b][i] = v
                              /\ v \in Elems(F.ops[F.code[b][j]])
    BY DEF LiveWithinBlocks
  <2> DEFINE P == programPoints(b)
             Q == From(F.code[b][k], P)
  <2>1. TypeOK /\ Fixed /\ F \in Function /\ Index(v) \notin out[b]
    BY DEF IInv, TypeOK, Inside
  <2>2. point[F.code[b][k]] = liveTransfer(Q, out[b])
    <3>1. b < at
      BY BlockNumbers DEF Done
    <3>2. QED BY <3>1 DEF Walked
  <2>3. Index(v) \in point[F.code[b][k]] <=>
          \E w \in Q : /\ v \in Elems(F.ops[w])
                       /\ \A u \in Q : F.addr[u] < F.addr[w] => u # v
    BY <2>1, <2>2, TransferOfValue
  <2>4. PICK i \in DOMAIN F.code[b] : F.code[b][i] = v
    BY PlaceOf DEF Local
  <2>5. \A j \in DOMAIN F.code[b] : F.code[b][j] = v => j = i
    BY <2>4, FunctionsAssumption DEF IInv, Fixed
  <2>6. \A j \in DOMAIN F.code[b] :
          /\ j \in Nat /\ F.addr[F.code[b][j]] \in Nat
          /\ F.code[b][j] \in Q <=> F.code[b][j] \in P /\ k <= j
    <3> SUFFICES ASSUME NEW j \in DOMAIN F.code[b]
                 PROVE  /\ j \in Nat /\ F.addr[F.code[b][j]] \in Nat
                        /\ F.code[b][j] \in Q <=> F.code[b][j] \in P /\ k <= j
      OBVIOUS
    <3>1. /\ j \in Nat /\ k \in Nat
          /\ F.addr[F.code[b][j]] \in Nat /\ F.addr[F.code[b][k]] \in Nat
      BY <2>1, CodeType
    <3>2. F.addr[F.code[b][j]] < F.addr[F.code[b][k]] <=> j < k
      BY <2>1, SameOrder
    <3>3. QED BY <3>1, <3>2 DEF From
  <2>7. ASSUME NEW w \in Q, v \in Elems(F.ops[w]),
               \A u \in Q : F.addr[u] < F.addr[w] => u # v
        PROVE  \E h, j \in DOMAIN F.code[b] :
                 /\ h < k /\ k <= j
                 /\ F.code[b][h] = v
                 /\ v \in Elems(F.ops[F.code[b][j]])
    <3>1. w \in P
      BY DEF From
    <3>2. PICK j \in DOMAIN F.code[b] : F.code[b][j] = w
      BY <3>1, PlaceOf
    <3>3. k <= j
      BY <2>6, <3>2
    <3>4. i < j
      BY <2>4, <2>7, <3>2 DEF Local
    <3>5. F.addr[v] < F.addr[w]
      BY <2>1, <2>4, <3>2, <3>4, SameOrder
    <3>6. v \notin Q
      BY <2>7, <3>5
    <3>7. i < k
      BY <2>4, <2>6, <3>6 DEF Local
    <3>8. QED BY <2>4, <2>7, <3>2, <3>3, <3>7
  <2>8. ASSUME NEW h \in DOMAIN F.code[b], NEW j \in DOMAIN F.code[b],
               h < k, k <= j, F.code[b][h] = v, v \in Elems(F.ops[F.code[b][j]])
        PROVE  \E w \in Q : /\ v \in Elems(F.ops[w])
                            /\ \A u \in Q : F.addr[u] < F.addr[w] => u # v
    <3>1. F.code[b][j] \in P
      <4>1. F.code[b][j] \in Insts
        BY DEF Insts, Inst, Elems
      <4>2. QED BY <2>8, <4>1 DEF Local
    <3>2. F.code[b][j] \in Q
      BY <2>6, <2>8, <3>1
    <3>3. v \notin Q
      BY <2>6, <2>8
    <3>4. QED BY <2>8, <3>2, <3>3
  <2>9. QED BY <2>3, <2>7, <2>8
<1>2. QED BY <1>1, Invariant, UpInvariant, PTL

=============================================================================
