------------------------------- MODULE MCDemo -------------------------------
(***************************************************************************)
(* Functions for checking DemoRegAlloc and DemoExec, in SSA form.          *)
(***************************************************************************)
EXTENDS DemoExec

Makes(r) == [def |-> TRUE, reg |-> r]
Takes(r) == [def |-> FALSE, reg |-> r]

\* LLVM lists the definitions of an instruction first.
Kinds == {<<Makes("u")>>, <<Makes("v"), Takes("u")>>,
          <<Makes("w"), Takes("v"), Takes("u")>>,
          <<Makes("eax"), Takes("v")>>, <<Takes("v"), Takes("u")>>,
          <<Takes("u"), Takes("w"), Takes("v")>>}

\* Instructions with several results, and with physical registers that the
\* allocator works with itself, or does not.
MoreKinds == Kinds \cup
         {<<Makes("u"), Makes("v")>>, <<Makes("w"), Makes("eax"), Takes("v")>>,
          <<Makes("edx"), Takes("u")>>, <<Makes("v"), Takes("edx")>>,
          <<Takes("eax"), Takes("u")>>}

UpTo(max, kinds) == UNION {[1 .. n -> kinds] : n \in 0 .. max}

\* The blocks control can get to from the entry without going through d.
Avoiding(f, d) ==
  LET reach[n \in 0 .. Len(f.code)] ==
        IF n = 0 THEN {1} \ {d}
        ELSE reach[n - 1] \cup (UNION {f.succ[b] : b \in reach[n - 1]} \ {d})
  IN  reach[Len(f.code)]

\* Every register used has one definition, which is on every path to the use.
InSSA(f) ==
  /\ \A r \in VReg : \A p, q \in DefPlaces(f, r) : p = q
  /\ \A p \in Places(f.code) : \A n \in UsesOf(f.code[p[1]][p[2]]) :
       \E d \in DefPlaces(f, f.code[p[1]][p[2]][n].reg) :
         IF d[1] = p[1] THEN d[2] < p[2] ELSE p[1] \notin Avoiding(f, d[1])

\* The entry block goes on in layout order or not, and there are loops.
Shapes == {<<{2}, {2, 3}, {1}>>, <<{3}, {2}, {2, 3}>>}

FunctionsOf(First, Others) ==
  {f \in [code : First \X Others \X Others, succ : Shapes] : InSSA(f)}

MCFunctions ==
  FunctionsOf(UpTo(2, Kinds), UpTo(2, Kinds))
    \cup FunctionsOf(UpTo(2, MoreKinds), UpTo(1, MoreKinds))

=============================================================================
