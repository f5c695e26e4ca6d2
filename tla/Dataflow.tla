------------------------------ MODULE Dataflow ------------------------------
(***************************************************************************)
(* What the block-level analyses of Gcra.cpp promise: the least solution   *)
(* of a system of set equations                                            *)
(*                                                                         *)
(*     sol[n] = (UNION {sol[m] : m \in dep[n]} \ kill[n]) \cup gen[n]      *)
(*                                                                         *)
(* one per node of a graph, found by raising one node at a time, in any    *)
(* order, from empty sets.  Nothing is said of how a node is picked: the   *)
(* worklists of the passes are an implementation matter.  An analysis may  *)
(* say that it is done only of a solution, and only then is the next       *)
(* problem posed: one that stops too early takes no step of this.          *)
(***************************************************************************)
CONSTANTS Node, Fact

VARIABLES
  prob,     \* the equations
  sol,      \* what has been found of their solution
  solved    \* the analysis says it is done

vars == <<prob, sol, solved>>

Problem == [dep : [Node -> SUBSET Node],
            gen : [Node -> SUBSET Fact],
            kill : [Node -> SUBSET Fact]]

Flow(p, s, n) == ((UNION {s[m] : m \in p.dep[n]}) \ p.kill[n]) \cup p.gen[n]

IsSolution(p, s) == \A n \in Node : s[n] = Flow(p, s, n)

\* The solutions to inequations, among which the least one is a solution.
Closed(p, s) == \A n \in Node : Flow(p, s, n) \subseteq s[n]

Empty == [n \in Node |-> {}]

TypeOK ==
  /\ prob \in Problem
  /\ sol \in [Node -> SUBSET Fact]
  /\ solved \in BOOLEAN

Init ==
  /\ prob \in Problem
  /\ sol = Empty
  /\ solved \in BOOLEAN /\ (solved => IsSolution(prob, sol))

Raise(n) ==
  /\ ~ solved
  /\ sol' = [sol EXCEPT ![n] = Flow(prob, sol, n)]
  /\ solved' \in BOOLEAN /\ (solved' => IsSolution(prob, sol'))
  /\ UNCHANGED prob

Pose ==
  /\ solved
  /\ prob' \in Problem
  /\ sol' = Empty
  /\ solved' \in BOOLEAN /\ (solved' => IsSolution(prob', sol'))

Next == (\E n \in Node : Raise(n)) \/ Pose

Spec == Init /\ [][Next]_vars

-----------------------------------------------------------------------------
\* Every node is below the value its equation gives it, ...
Ascending == \A n \in Node : sol[n] \subseteq Flow(prob, sol, n)

\* ... and below every closed assignment, so that whatever order the nodes
\* are raised in, what is reached when nothing changes any more is the least
\* solution and the same one.
BelowClosed == \A s \in [Node -> SUBSET Fact] :
                 Closed(prob, s) => \A n \in Node : sol[n] \subseteq s[n]

\* The answer is the least solution.
LeastSolution ==
  solved => /\ IsSolution(prob, sol)
            /\ \A s \in [Node -> SUBSET Fact] :
                 Closed(prob, s) => \A n \in Node : sol[n] \subseteq s[n]

=============================================================================
