---------------------------- MODULE MCRoundRobin ----------------------------
(***************************************************************************)
(* Functions for checking RoundRobin: three blocks in SSA form, of one or  *)
(* two instructions and a terminator, with an argument; two loops, one in  *)
(* the other, a branch, and a layout in which the last block comes before  *)
(* the second; instructions in memory upwards or downwards.                *)
(***************************************************************************)
EXTENDS RoundRobin

Blocks == 1 .. 3
arg == <<0, 1>>
Values == {arg, <<1, 1>>, <<1, 2>>, <<2, 1>>, <<2, 2>>, <<2, 3>>, <<3, 1>>, <<3, 2>>}

code == << <<  <<1, 1>>, <<1, 2>> >>,
           <<  <<2, 1>>, <<2, 2>>, <<2, 3>> >>,
           <<  <<3, 1>>, <<3, 2>> >> >>

Loop   == [b \in Blocks |-> CASE b = 1 -> {2}    [] b = 2 -> {2, 3} [] b = 3 -> {2}]
Branch == [b \in Blocks |-> CASE b = 1 -> {2, 3} [] b = 2 -> {3}    [] b = 3 -> {}]
Late   == [b \in Blocks |-> CASE b = 1 -> {3}    [] b = 2 -> {}     [] b = 3 -> {2, 3}]

\* The blocks whose instructions may be used in b.
Dominators(succ, b) ==
  CASE b = 1 -> {1}
    [] b = 2 -> IF succ = Late THEN {1, 2, 3} ELSE {1, 2}
    [] b = 3 -> IF succ = Loop THEN {1, 2, 3} ELSE {1, 3}

Kinds == [first : {"value", "phi"}, second : {"value", "void", "other"}, last : {"value", "void"}]
KindOf(K) == [v \in Values |->
  CASE v = arg -> "arg"
    [] v = <<1, 1>> -> "value"
    [] v = <<2, 1>> -> K.first
    [] v = <<2, 2>> -> K.second
    [] v = <<3, 1>> -> K.last
    [] OTHER -> "void"]

\* What the operand of v may be: what comes before it, or anything for a phi.
Usable(succ, K, v) ==
  {w \in {arg, <<1, 1>>, <<2, 1>>, <<2, 2>>, <<3, 1>>} :
     \/ v = <<2, 1>> /\ K.first = "phi" /\ w # arg
     \/ w[1] \in {0} \cup Dominators(succ, v[1]) /\ (w[1] = v[1] => w[2] < v[2])}

Some(V) == {<< >>} \cup {<<w>> : w \in V}

OpsOf(succ, K) ==
  {[v \in Values |->
      CASE v = <<1, 1>> -> <<arg>>
        [] v = <<2, 1>> -> f
        [] v = <<2, 2>> -> s
        [] v = <<2, 3>> -> t
        [] v = <<3, 1>> -> l
        [] OTHER -> << >>] :
    f \in Some(Usable(succ, K, <<2, 1>>)),
    s \in Some(Usable(succ, K, <<2, 2>>) \ {arg}),
    t \in Some({<<2, 1>>}),
    l \in Some(Usable(succ, K, <<3, 1>>) \ {arg})}

Up == [v \in Values |-> 10 * v[1] + v[2]]
Down == [v \in Values |-> 40 - (10 * v[1] + v[2])]

SomeFunctions ==
  UNION {UNION {{[code |-> code, succ |-> succ, args |-> <<arg>>, kind |-> KindOf(K),
                  ops |-> o, addr |-> a] : o \in OpsOf(succ, K), a \in {Up, Down}} :
           K \in Kinds} : succ \in {Loop, Branch, Late}}

=============================================================================
