--------------------------- MODULE DataflowProofs ---------------------------
(***************************************************************************)
(* Chaotic iteration computes the least solution, whatever the order.      *)
(***************************************************************************)
EXTENDS Dataflow, TLAPS

\* The value an equation gives a node is a set of facts.
LEMMA FlowType ==
  ASSUME NEW p \in Problem, NEW s \in [Node -> SUBSET Fact], NEW n \in Node
  PROVE  Flow(p, s, n) \in SUBSET Fact
<1>1. /\ p.dep \in [Node -> SUBSET Node]
      /\ p.gen \in [Node -> SUBSET Fact]
  BY DEF Problem
<1>2. UNION {s[m] : m \in p.dep[n]} \subseteq Fact
  BY <1>1
<1>3. QED BY <1>1, <1>2 DEF Flow

\* Larger sets give larger values.
LEMMA FlowMonotone ==
  ASSUME NEW p \in Problem,
         NEW s \in [Node -> SUBSET Fact], NEW t \in [Node -> SUBSET Fact],
         \A m \in Node : s[m] \subseteq t[m],
         NEW n \in Node
  PROVE  Flow(p, s, n) \subseteq Flow(p, t, n)
<1>1. p.dep[n] \subseteq Node
  BY DEF Problem
<1>2. UNION {s[m] : m \in p.dep[n]} \subseteq UNION {t[m] : m \in p.dep[n]}
  BY <1>1
<1>3. QED BY <1>2 DEF Flow

\* Raising a node keeps the types.
LEMMA RaiseType ==
  ASSUME TypeOK, NEW n \in Node, Raise(n)
  PROVE  TypeOK'
<1>1. Flow(prob, sol, n) \in SUBSET Fact
  BY FlowType DEF TypeOK
<1>2. QED BY <1>1 DEF TypeOK, Raise

\* Every state holds a problem and sets of its facts.
THEOREM TypeCorrect == Spec => []TypeOK
<1>1. Init => TypeOK
  BY DEF Init, TypeOK, Empty
<1>2. TypeOK /\ [Next]_vars => TypeOK'
  <2> SUFFICES ASSUME TypeOK, [Next]_vars PROVE TypeOK'
    OBVIOUS
  <2>1. ASSUME NEW n \in Node, Raise(n) PROVE TypeOK'
    BY <2>1, RaiseType
  <2>2. CASE Pose
    BY <2>2 DEF Pose, TypeOK, Empty
  <2>3. CASE UNCHANGED vars
    BY <2>3 DEF TypeOK, vars
  <2>4. QED BY <2>1, <2>2, <2>3 DEF Next
<1>3. QED BY <1>1, <1>2, PTL DEF Spec

\* A step never takes a node above its equation: sets only ever grow.
THEOREM AscendingCorrect == Spec => []Ascending
<1>1. Init => Ascending
  BY DEF Init, Ascending, Empty
<1>2. TypeOK /\ TypeOK' /\ Ascending /\ [Next]_vars => Ascending'
  <2> SUFFICES ASSUME TypeOK, TypeOK', Ascending, [Next]_vars
               PROVE  Ascending'
    OBVIOUS
  <2>1. ASSUME NEW n \in Node, Raise(n), NEW m \in Node
        PROVE  sol'[m] \subseteq Flow(prob', sol', m)
    <3>1. prob' = prob /\ sol' = [sol EXCEPT ![n] = Flow(prob, sol, n)]
      BY <2>1 DEF Raise
    <3>2. \A k \in Node : sol[k] \subseteq sol'[k]
      BY <3>1 DEF Ascending, TypeOK
    <3>3. sol'[m] \subseteq Flow(prob, sol, m)
      BY <3>1 DEF Ascending, TypeOK
    <3>4. Flow(prob, sol, m) \subseteq Flow(prob, sol', m)
      BY <3>1, <3>2, FlowMonotone DEF TypeOK
    <3>5. QED BY <3>1, <3>3, <3>4
  <2>2. CASE Pose
    BY <2>2 DEF Pose, Ascending, Empty
  <2>3. CASE UNCHANGED vars
    BY <2>3 DEF vars, Ascending
  <2>4. QED BY <2>1, <2>2, <2>3 DEF Next, Ascending
<1>3. QED BY <1>1, <1>2, TypeCorrect, PTL DEF Spec

\* What has been found is in every closed assignment, in particular in every
\* solution: when nothing can be raised any more it is the least solution.
THEOREM BelowClosedCorrect == Spec => []BelowClosed
<1>1. Init => BelowClosed
  BY DEF Init, BelowClosed, Empty
<1>2. TypeOK /\ BelowClosed /\ [Next]_vars => BelowClosed'
  <2> SUFFICES ASSUME TypeOK, BelowClosed, [Next]_vars,
                      NEW s \in [Node -> SUBSET Fact], Closed(prob', s),
                      NEW m \in Node
               PROVE  sol'[m] \subseteq s[m]
    BY DEF BelowClosed
  <2>1. ASSUME NEW n \in Node, Raise(n) PROVE sol'[m] \subseteq s[m]
    <3>1. prob' = prob /\ sol' = [sol EXCEPT ![n] = Flow(prob, sol, n)]
      BY <2>1 DEF Raise
    <3>2. \A k \in Node : sol[k] \subseteq s[k]
      BY <3>1 DEF BelowClosed
    <3>3. Flow(prob, sol, n) \subseteq Flow(prob, s, n)
      BY <3>2, FlowMonotone DEF TypeOK
    <3>4. Flow(prob, s, n) \subseteq s[n]
      BY <3>1 DEF Closed
    <3>5. QED BY <3>1, <3>2, <3>3, <3>4 DEF TypeOK
  <2>2. CASE Pose
    BY <2>2 DEF Pose, Empty
  <2>3. CASE UNCHANGED vars
    BY <2>3 DEF vars, BelowClosed
  <2>4. QED BY <2>1, <2>2, <2>3 DEF Next
<1>3. QED BY <1>1, <1>2, TypeCorrect, PTL DEF Spec

\* An analysis that implements this specification answers with the least
\* solution of its equations.
THEOREM LeastSolutionCorrect == Spec => []LeastSolution
<1> DEFINE Honest == solved => IsSolution(prob, sol)
<1>1. Init => Honest
  BY DEF Init
<1>2. Honest /\ [Next]_vars => Honest'
  <2> SUFFICES ASSUME Honest, [Next]_vars, solved' PROVE IsSolution(prob', sol')
    BY DEF IsSolution
  <2>1. ASSUME NEW n \in Node, Raise(n) PROVE IsSolution(prob', sol')
    BY <2>1 DEF Raise
  <2>2. CASE Pose
    BY <2>2 DEF Pose
  <2>3. CASE UNCHANGED vars
    BY <2>3 DEF vars
  <2>4. QED BY <2>1, <2>2, <2>3 DEF Next
<1>3. Honest /\ BelowClosed => LeastSolution
  BY DEF BelowClosed, LeastSolution
<1>4. QED BY <1>1, <1>2, <1>3, BelowClosedCorrect, PTL DEF Spec

=============================================================================
