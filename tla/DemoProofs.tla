----------------------------- MODULE DemoProofs -----------------------------
(***************************************************************************)
(* Theorems about DemoRegAlloc and DemoExec, for any functions in SSA form *)
(* and any layout of theirs: the pass keeps the program and allocates all  *)
(* of it, and what it makes of a function runs as the function did.        *)
(***************************************************************************)
EXTENDS DemoExec, FiniteSetTheorems, TLAPS

-----------------------------------------------------------------------------
(***************************************************************************)
(* The invariant of the pass.                                              *)
(***************************************************************************)
Register == VReg \cup Machine

Item == [kind : {"instr", "load", "store"},
         ops : Seq([def : BOOLEAN, reg : Register]), was : Seq(Operand),
         id : Nat \X Nat, slot : Int]

Typed ==
  /\ fn \in Functions
  /\ code \in Seq(Seq(Item)) /\ Len(code) = Len(fn.code)
  /\ at \in Nat \X Nat \X Nat
  /\ at[1] \in 1 .. Len(code) + 1 /\ at[2] > 0 /\ at[3] > 0
  /\ useReg \in {EBX, ECX}
  /\ slots \in Nat
  /\ DOMAIN regMap \subseteq VReg /\ regMap \in [DOMAIN regMap -> 0 .. slots]

\* The walk has been at operand n of the k-th item of block b, ...
Passed(b, k, n) ==
  \/ b < at[1]
  \/ b = at[1] /\ k < at[2]
  \/ b = at[1] /\ k = at[2] /\ n < at[3]

\* ... where there was a virtual register.
Taken(b, k, n) ==
  /\ n \in DOMAIN code[b][k].was
  /\ code[b][k].was[n].reg \in VReg
  /\ Passed(b, k, n)

\* What an item of block b may be.  The k-th one has had its registers replaced
\* where the walk has been.
IsInstr(b, k) ==
  LET x == code[b][k]
  IN  /\ x.id = <<b, x.id[2]>> /\ x.id[2] \in DOMAIN fn.code[b]
      /\ x.was = fn.code[b][x.id[2]]
      /\ DOMAIN x.ops = DOMAIN x.was
      /\ \A n \in DOMAIN x.was :
           /\ x.ops[n].def = x.was[n].def
           /\ x.ops[n].reg \in IF ~ Taken(b, k, n) THEN {x.was[n].reg}
                               ELSE IF x.was[n].def THEN {EAX}
                               ELSE {EBX, ECX}

IsLoad(x) ==
  /\ x.was = << >> /\ x.slot \in Nat
  /\ \E q \in {EBX, ECX} : x.ops = <<[def |-> TRUE, reg |-> q]>>

IsStore(x) ==
  /\ x.was = << >> /\ x.slot \in 0 .. slots - 1
  /\ x.ops = <<[def |-> FALSE, reg |-> EAX]>>

Shaped ==
  \A b \in DOMAIN code : \A k \in DOMAIN code[b] :
    CASE code[b][k].kind = "instr" -> IsInstr(b, k)
      [] code[b][k].kind = "load" -> IsLoad(code[b][k])
      [] code[b][k].kind = "store" -> IsStore(code[b][k])

\* The instructions of the function, each once and in order.
Kept ==
  \A b \in DOMAIN code :
    /\ \A m \in DOMAIN fn.code[b] : \E k \in Own(b) : code[b][k].id[2] = m
    /\ \A j, k \in Own(b) : j < k => code[b][j].id[2] < code[b][k].id[2]

\* Item l of block b is the store of the definition of r by the k-th one, in
\* the row of stores that follows it.
StoreOf(b, k, l, r) ==
  /\ l \in DOMAIN code[b] /\ k < l
  /\ r \in DOMAIN regMap /\ code[b][l].slot = regMap[r]
  /\ \A i \in k + 1 .. l : code[b][i].kind = "store"

Stored ==
  \A b \in DOMAIN code : \A k \in DOMAIN code[b] : \A n \in DOMAIN code[b][k].was :
    Taken(b, k, n) /\ code[b][k].was[n].def =>
      \E l \in DOMAIN code[b] : StoreOf(b, k, l, code[b][k].was[n].reg)

\* Item l is the load of operand n of the k-th one, and no load between them
\* is of the same machine register.
LoadOf(b, k, n, l) ==
  /\ l \in DOMAIN code[b] /\ l < k
  /\ code[b][k].was[n].reg \in DOMAIN regMap
  /\ code[b][l].kind = "load"
  /\ code[b][l].slot = regMap[code[b][k].was[n].reg]
  /\ code[b][l].ops[1].reg = code[b][k].ops[n].reg
  /\ \A i \in l + 1 .. k - 1 :
       code[b][i].kind = "load" /\ code[b][i].ops[1].reg # code[b][k].ops[n].reg

Loaded ==
  \A b \in DOMAIN code : \A k \in DOMAIN code[b] : \A n \in DOMAIN code[b][k].was :
    Taken(b, k, n) /\ ~ code[b][k].was[n].def =>
      \E l \in DOMAIN code[b] : LoadOf(b, k, n, l)

\* The first use of an instruction is given one register, the others the other.
UseTaken(n) == Taken(at[1], at[2], n) /\ ~ mi.was[n].def
InTurn ==
  /\ useReg = ECX => InInstr /\ \E n \in DOMAIN mi.was : UseTaken(n)
  /\ InInstr =>
       /\ useReg = EBX => \A n \in DOMAIN mi.was : ~ UseTaken(n)
       /\ \A n \in DOMAIN mi.was : UseTaken(n) /\ mi.ops[n].reg = ECX =>
            \E m \in DOMAIN mi.was : m # n /\ UseTaken(m)

Simple == InOrder /\ AtMostTwo
Plain == Simple /\ OneInEAX /\ Apart

IInv ==
  /\ Typed /\ Shaped /\ Kept /\ SlotsApart /\ Stored /\ InTurn
  /\ Simple => Loaded

-----------------------------------------------------------------------------
(***************************************************************************)
(* The invariant of what is run.                                           *)
(***************************************************************************)
Values == {Nothing} \cup (Nat \X Nat \X Register)

Running ==
  /\ Done
  /\ pc \in Nat \X Nat
  /\ pc[1] \in DOMAIN code
  /\ pc[2] \in 1 .. Len(code[pc[1]]) + 1
  /\ last \in [VReg \cup PReg -> Values]
  /\ held \in [Machine -> Values]
  /\ stack \in [0 .. slots - 1 -> Values]

\* A slot has the value of its register, from the store on until the register
\* is defined again; up to the store the value is in EAX.
InRow(b, k, l) == pc[1] = b /\ pc[2] \in k + 1 .. l
FreshAt(b, k, l, r) ==
  IF InRow(b, k, l) THEN held[EAX] = last[r] ELSE stack[regMap[r]] = last[r]

Fresh ==
  \A b \in DOMAIN code : \A k \in DOMAIN code[b] : \A n \in DOMAIN code[b][k].was :
    code[b][k].was[n].def /\ code[b][k].was[n].reg \in VReg =>
      \A l \in DOMAIN code[b] :
        StoreOf(b, k, l, code[b][k].was[n].reg) => FreshAt(b, k, l, code[b][k].was[n].reg)

\* What has been loaded for an instruction is there until it is run.
Ready ==
  \A b \in DOMAIN code : \A k \in DOMAIN code[b] : \A n \in DOMAIN code[b][k].was :
    ~ code[b][k].was[n].def /\ code[b][k].was[n].reg \in VReg =>
      \A l \in DOMAIN code[b] :
        LoadOf(b, k, n, l) /\ pc[1] = b /\ pc[2] \in l + 1 .. k =>
          held[code[b][k].ops[n].reg] = last[code[b][k].was[n].reg]

\* No load or store touches another physical register.
PhysicalKept == \A m \in PReg \ Scratch : held[m] = last[m]

ExecInv ==
  IF pc = Nothing
    THEN /\ last = [r \in VReg \cup PReg |-> AtEntry(r)]
         /\ held = [m \in Machine |-> AtEntry(m)]
    ELSE Running /\ PhysicalKept /\ (Plain => Fresh /\ Ready)

-----------------------------------------------------------------------------
(***************************************************************************)
(* Lists, and what an insertion does to them.                              *)
(***************************************************************************)

LEMMA SeqType ==
  ASSUME NEW S, NEW s \in Seq(S)
  PROVE  /\ Len(s) \in Nat /\ DOMAIN s = 1 .. Len(s)
         /\ \A k \in DOMAIN s : s[k] \in S
OBVIOUS

\* Where what was at j is when something is inserted at p.
Shift(p, j) == IF j < p THEN j ELSE j + 1

LEMMA ShiftOnto ==
  ASSUME NEW len \in Nat, NEW p \in 1 .. len + 1
  PROVE  /\ \A j \in 1 .. len : Shift(p, j) \in 1 .. len + 1
         /\ \A i \in 1 .. len + 1 : i # p => \E j \in 1 .. len : i = Shift(p, j)
<1>1. \A j \in 1 .. len : Shift(p, j) \in 1 .. len + 1
  BY DEF Shift
<1>2. ASSUME NEW i \in 1 .. len + 1, i # p PROVE \E j \in 1 .. len : i = Shift(p, j)
  <2>1. CASE i < p
    BY <2>1 DEF Shift
  <2>2. CASE i > p
    <3>1. i - 1 \in 1 .. len /\ i = Shift(p, i - 1)
      BY <2>2 DEF Shift
    <3>2. QED BY <3>1
  <2>3. QED BY <1>2, <2>1, <2>2
<1>3. QED BY <1>1, <1>2

LEMMA InsertEffect ==
  ASSUME NEW S, NEW s \in Seq(S), NEW p \in 1 .. Len(s) + 1, NEW x \in S
  PROVE  /\ InsertAt(s, p, x) \in Seq(S)
         /\ Len(InsertAt(s, p, x)) = Len(s) + 1
         /\ InsertAt(s, p, x)[p] = x
         /\ \A j \in 1 .. Len(s) : InsertAt(s, p, x)[Shift(p, j)] = s[j]
<1> DEFINE u == SubSeq(s, 1, p - 1)
           v == SubSeq(s, p, Len(s))
<1>1. Len(s) \in Nat
  OBVIOUS
<1>2. u \in Seq(S) /\ Len(u) = p - 1 /\ \A j \in 1 .. p - 1 : u[j] = s[j]
  BY <1>1
<1>3. v \in Seq(S) /\ Len(v) = Len(s) - p + 1 /\ \A j \in 1 .. Len(s) - p + 1 : v[j] = s[p + j - 1]
  BY <1>1
<1>4. InsertAt(s, p, x) = u \o <<x>> \o v
  BY DEF InsertAt
<1> HIDE DEF u, v
<1>5. /\ u \o <<x>> \in Seq(S) /\ Len(u \o <<x>>) = p
      /\ (u \o <<x>>)[p] = x
      /\ \A j \in 1 .. p - 1 : (u \o <<x>>)[j] = s[j]
  BY <1>1, <1>2
<1>6. DEFINE w == u \o <<x>>
<1> HIDE DEF w
<1>7. w \in Seq(S) /\ Len(w) = p /\ w[p] = x /\ \A j \in 1 .. p - 1 : w[j] = s[j]
  BY <1>5 DEF w
<1>8. /\ w \o v \in Seq(S) /\ Len(w \o v) = Len(s) + 1
      /\ \A j \in 1 .. Len(s) + 1 : (w \o v)[j] = IF j <= p THEN w[j] ELSE v[j - p]
  BY <1>1, <1>3, <1>7
<1>9. ASSUME NEW j \in 1 .. Len(s) PROVE (w \o v)[Shift(p, j)] = s[j]
  <2>1. CASE j < p
    BY <1>1, <1>7, <1>8, <2>1 DEF Shift
  <2>2. CASE ~ (j < p)
    <3>1. j + 1 \in 1 .. Len(s) + 1 /\ ~ (j + 1 <= p) /\ j + 1 - p \in 1 .. Len(s) - p + 1
      BY <1>1, <2>2
    <3>2. (w \o v)[j + 1] = v[j + 1 - p]
      BY <1>8, <3>1
    <3>3. v[j + 1 - p] = s[p + (j + 1 - p) - 1] /\ p + (j + 1 - p) - 1 = j
      BY <1>1, <1>3, <3>1
    <3>4. QED BY <2>2, <3>2, <3>3 DEF Shift
  <2>3. QED BY <2>1, <2>2
<1>10. (w \o v)[p] = x
  BY <1>1, <1>7, <1>8
<1>11. QED BY <1>4, <1>8, <1>9, <1>10 DEF w

\* The lists of blocks, and those of the function.
LEMMA CodeType ==
  ASSUME Typed
  PROVE  /\ Len(code) \in Nat \ {0} /\ DOMAIN code = 1 .. Len(code) /\ DOMAIN fn.code = DOMAIN code
         /\ \A b \in DOMAIN code :
              /\ code[b] \in Seq(Item) /\ Len(code[b]) \in Nat /\ DOMAIN code[b] = 1 .. Len(code[b])
              /\ \A k \in DOMAIN code[b] : code[b][k] \in Item
              /\ fn.code[b] \in Seq(Seq(Operand)) /\ Len(fn.code[b]) \in Nat
              /\ DOMAIN fn.code[b] = 1 .. Len(fn.code[b])
<1>1. fn.code \in Seq(Seq(Seq(Operand))) /\ fn.code # << >>
  BY FunctionsAssumption DEF Typed
<1>2. code \in Seq(Seq(Item)) /\ Len(code) = Len(fn.code)
  BY DEF Typed
<1>3. /\ Len(code) \in Nat /\ DOMAIN code = 1 .. Len(code)
      /\ DOMAIN fn.code = 1 .. Len(fn.code) /\ Len(fn.code) # 0
  BY <1>1, <1>2
<1>4. \A b \in DOMAIN code : code[b] \in Seq(Item) /\ fn.code[b] \in Seq(Seq(Operand))
  BY <1>1, <1>2, <1>3
<1>5. \A b \in DOMAIN code :
        /\ Len(code[b]) \in Nat /\ DOMAIN code[b] = 1 .. Len(code[b])
        /\ \A k \in DOMAIN code[b] : code[b][k] \in Item
        /\ Len(fn.code[b]) \in Nat /\ DOMAIN fn.code[b] = 1 .. Len(fn.code[b])
  BY <1>4, SeqType
<1>6. QED BY <1>2, <1>3, <1>4, <1>5

LEMMA ItemType ==
  ASSUME NEW x \in Item
  PROVE  /\ x.kind \in {"instr", "load", "store"}
         /\ x.ops \in Seq([def : BOOLEAN, reg : Register])
         /\ Len(x.ops) \in Nat /\ DOMAIN x.ops = 1 .. Len(x.ops)
         /\ \A n \in DOMAIN x.ops : x.ops[n].def \in BOOLEAN /\ x.ops[n].reg \in Register
         /\ x.was \in Seq(Operand) /\ Len(x.was) \in Nat /\ DOMAIN x.was = 1 .. Len(x.was)
         /\ \A n \in DOMAIN x.was : x.was[n].def \in BOOLEAN /\ x.was[n].reg \in VReg \cup PReg
         /\ x.id \in Nat \X Nat /\ x.slot \in Int
<1>1. /\ x.kind \in {"instr", "load", "store"}
      /\ x.ops \in Seq([def : BOOLEAN, reg : Register]) /\ x.was \in Seq(Operand)
      /\ x.id \in Nat \X Nat /\ x.slot \in Int
  BY DEF Item
<1>2. /\ Len(x.ops) \in Nat /\ DOMAIN x.ops = 1 .. Len(x.ops)
      /\ \A n \in DOMAIN x.ops : x.ops[n] \in [def : BOOLEAN, reg : Register]
      /\ Len(x.was) \in Nat /\ DOMAIN x.was = 1 .. Len(x.was)
      /\ \A n \in DOMAIN x.was : x.was[n] \in Operand
  BY <1>1, SeqType
<1>3. QED BY <1>1, <1>2 DEF Operand

-----------------------------------------------------------------------------
(***************************************************************************)
(* Steps.  The two that allocate do the same to the list they are in: a    *)
(* load or store x is inserted at p, and operand n of the instruction at k *)
(* becomes q.                                                              *)
(***************************************************************************)
Grown(b, k, n, p, x, q) ==
  /\ b \in DOMAIN code /\ k \in DOMAIN code[b] /\ p \in {k, k + 1} /\ x \in Item
  /\ code[b][k].kind = "instr" /\ n \in DOMAIN code[b][k].was
  /\ code[b][k].was[n].reg \in VReg
  /\ at = <<b, k, n>> /\ at' = <<b, Shift(p, k), n + 1>>
  /\ fn' = fn
  /\ code' = [code EXCEPT ![b] =
                InsertAt([code[b] EXCEPT ![k] = [code[b][k] EXCEPT !.ops[n].reg = q]], p, x)]

\* Where what was at j of block c is then.
To(b, p, c, j) == IF c = b THEN Shift(p, j) ELSE j

LEMMA GrownEffect ==
  ASSUME Typed, Shaped, NEW b, NEW k, NEW n, NEW p, NEW x, NEW q \in Machine,
         Grown(b, k, n, p, x, q)
  PROVE  /\ code' \in Seq(Seq(Item)) /\ Len(code') = Len(code) /\ DOMAIN code' = DOMAIN code
         /\ \A c \in DOMAIN code : c # b => code'[c] = code[c]
         /\ DOMAIN code'[b] = 1 .. Len(code[b]) + 1
         /\ code'[b][p] = x
         /\ \A j \in DOMAIN code[b] : j # k => code'[b][Shift(p, j)] = code[b][j]
         /\ LET y == code'[b][Shift(p, k)]
            IN  /\ y.kind = "instr" /\ y.was = code[b][k].was /\ y.id = code[b][k].id
                /\ DOMAIN y.ops = DOMAIN code[b][k].ops
                /\ \A m \in DOMAIN y.ops :
                     /\ y.ops[m].def = code[b][k].ops[m].def
                     /\ y.ops[m].reg = IF m = n THEN q ELSE code[b][k].ops[m].reg
<1> DEFINE i == code[b][k]
           y == [i EXCEPT !.ops[n].reg = q]
           t == [code[b] EXCEPT ![k] = y]
<1>1. /\ b \in DOMAIN code /\ k \in DOMAIN code[b] /\ p \in {k, k + 1} /\ x \in Item
      /\ i.kind = "instr" /\ n \in DOMAIN i.was
      /\ code' = [code EXCEPT ![b] = InsertAt(t, p, x)]
  BY DEF Grown
<1>2. /\ DOMAIN code = 1 .. Len(code) /\ code[b] \in Seq(Item) /\ Len(code[b]) \in Nat
      /\ DOMAIN code[b] = 1 .. Len(code[b]) /\ i \in Item
  BY <1>1, CodeType
<1>3. DOMAIN i.ops = DOMAIN i.was
  BY <1>1 DEF Shaped, IsInstr
<1>4. /\ i.ops \in Seq([def : BOOLEAN, reg : Register]) /\ DOMAIN i.ops = 1 .. Len(i.ops)
      /\ n \in DOMAIN i.ops /\ Len(i.ops) \in Nat
  BY <1>1, <1>2, <1>3, ItemType
<1>5. i.ops[n] \in [def : BOOLEAN, reg : Register] /\ q \in Register
  BY <1>4, SeqType DEF Register
<1>6. y = [kind |-> i.kind, ops |-> [i.ops EXCEPT ![n] = [@ EXCEPT !.reg = q]], was |-> i.was,
           id |-> i.id, slot |-> i.slot]
  <2>1. PICK z \in Item : z = i
    BY <1>2
  <2>2. ASSUME NEW o
        PROVE  [z EXCEPT !.ops = o] =
                 [kind |-> z.kind, ops |-> o, was |-> z.was, id |-> z.id, slot |-> z.slot]
    BY DEF Item
  <2>3. [z EXCEPT !.ops[n].reg = q] = [z EXCEPT !.ops = [z.ops EXCEPT ![n] = [@ EXCEPT !.reg = q]]]
    OBVIOUS
  <2>4. QED BY <2>1, <2>2, <2>3
<1>7. [i.ops[n] EXCEPT !.reg = q] = [def |-> i.ops[n].def, reg |-> q]
  BY <1>5
<1>8. /\ y.kind = "instr" /\ y.was = i.was /\ y.id = i.id /\ y.slot = i.slot
      /\ y.ops = [i.ops EXCEPT ![n] = [def |-> i.ops[n].def, reg |-> q]]
  BY <1>1, <1>6, <1>7
<1>9. /\ y.ops \in Seq([def : BOOLEAN, reg : Register]) /\ DOMAIN y.ops = DOMAIN i.ops
      /\ \A m \in DOMAIN y.ops : y.ops[m] = IF m = n THEN [def |-> i.ops[n].def, reg |-> q]
                                           ELSE i.ops[m]
  <2>1. [def |-> i.ops[n].def, reg |-> q] \in [def : BOOLEAN, reg : Register]
    BY <1>5
  <2> HIDE DEF y, i
  <2>2. QED BY <1>4, <1>8, <2>1
<1>10. y \in Item
  <2>1. y = [kind |-> "instr", ops |-> y.ops, was |-> i.was, id |-> i.id, slot |-> i.slot]
    BY <1>6, <1>1
  <2>2. i.was \in Seq(Operand) /\ i.id \in Nat \X Nat /\ i.slot \in Int
    BY <1>2, ItemType
  <2> HIDE DEF y, i
  <2>3. QED BY <1>9, <2>1, <2>2 DEF Item
<1> HIDE DEF y, i
<1>11. /\ t \in Seq(Item) /\ Len(t) = Len(code[b])
       /\ \A j \in DOMAIN code[b] : t[j] = IF j = k THEN y ELSE code[b][j]
  BY <1>1, <1>2, <1>10
<1> HIDE DEF t
<1>12. p \in 1 .. Len(t) + 1
  BY <1>1, <1>2, <1>11
<1>13. /\ InsertAt(t, p, x) \in Seq(Item)
       /\ Len(InsertAt(t, p, x)) = Len(code[b]) + 1
       /\ InsertAt(t, p, x)[p] = x
       /\ \A j \in 1 .. Len(t) : InsertAt(t, p, x)[Shift(p, j)] = t[j]
  <2>1. t \in Seq(Item) /\ x \in Item /\ p \in 1 .. Len(t) + 1 /\ Len(t) = Len(code[b])
    BY <1>1, <1>11, <1>12
  <2>2. QED BY <2>1, InsertEffect
<1>14. /\ code'[b] = InsertAt(t, p, x)
       /\ code' \in Seq(Seq(Item)) /\ Len(code') = Len(code) /\ DOMAIN code' = DOMAIN code
       /\ \A c \in DOMAIN code : c # b => code'[c] = code[c]
  <2>1. code \in Seq(Seq(Item))
    BY DEF Typed
  <2>2. QED BY <1>1, <1>2, <1>13, <2>1
<1>15. DOMAIN code'[b] = 1 .. Len(code[b]) + 1
  BY <1>13, <1>14, SeqType
<1>16. \A j \in DOMAIN code[b] : code'[b][Shift(p, j)] = IF j = k THEN y ELSE code[b][j]
  BY <1>2, <1>11, <1>13, <1>14
<1>17. \A m \in DOMAIN y.ops :
         /\ y.ops[m].def = i.ops[m].def
         /\ y.ops[m].reg = IF m = n THEN q ELSE i.ops[m].reg
  <2>1. ASSUME NEW m \in DOMAIN y.ops
        PROVE  /\ y.ops[m].def = i.ops[m].def
               /\ y.ops[m].reg = IF m = n THEN q ELSE i.ops[m].reg
    <3>1. CASE m = n
      BY <1>9, <3>1
    <3>2. CASE m # n
      BY <1>9, <3>2
    <3>3. QED BY <3>1, <3>2
  <2>2. QED BY <2>1
<1>18. code'[b][p] = x
  BY <1>13, <1>14
<1>19. /\ code'[b][Shift(p, k)] = y
       /\ \A j \in DOMAIN code[b] : j # k => code'[b][Shift(p, j)] = code[b][j]
  BY <1>1, <1>16
<1>20. /\ y.kind = "instr" /\ y.was = code[b][k].was /\ y.id = code[b][k].id
       /\ DOMAIN y.ops = DOMAIN code[b][k].ops
       /\ \A m \in DOMAIN y.ops :
            /\ y.ops[m].def = code[b][k].ops[m].def
            /\ y.ops[m].reg = IF m = n THEN q ELSE code[b][k].ops[m].reg
  BY <1>8, <1>9, <1>17 DEF i
<1>21. QED BY <1>14, <1>15, <1>18, <1>19, <1>20

\* The items after the step are those before it and x.
LEMMA GrownItems ==
  ASSUME Typed, Shaped, NEW b, NEW k, NEW n, NEW p, NEW x, NEW q \in Machine,
         Grown(b, k, n, p, x, q)
  PROVE  /\ DOMAIN code' = DOMAIN code
         /\ p \in DOMAIN code'[b] /\ code'[b][p] = x
         /\ \A c \in DOMAIN code : \A i \in DOMAIN code'[c] :
              (c = b /\ i = p) \/ \E j \in DOMAIN code[c] : i = To(b, p, c, j)
         /\ \A c \in DOMAIN code : \A j \in DOMAIN code[c] :
              LET y == code'[c][To(b, p, c, j)]
                  z == code[c][j]
              IN  /\ To(b, p, c, j) \in DOMAIN code'[c]
                  /\ y.kind = z.kind /\ y.was = z.was /\ y.id = z.id
                  /\ z.kind # "instr" => y = z
                  /\ DOMAIN y.ops = DOMAIN z.ops
                  /\ \A m \in DOMAIN z.ops :
                       /\ y.ops[m].def = z.ops[m].def
                       /\ y.ops[m].reg = IF c = b /\ j = k /\ m = n THEN q ELSE z.ops[m].reg
<1>1. /\ b \in DOMAIN code /\ k \in DOMAIN code[b] /\ p \in {k, k + 1} /\ code[b][k].kind = "instr"
  BY DEF Grown
<1>2. /\ Len(code[b]) \in Nat /\ DOMAIN code[b] = 1 .. Len(code[b])
      /\ p \in 1 .. Len(code[b]) + 1
  BY <1>1, CodeType
<1>3. DOMAIN code' = DOMAIN code /\ p \in DOMAIN code'[b] /\ code'[b][p] = x
      /\ DOMAIN code'[b] = 1 .. Len(code[b]) + 1
      /\ \A c \in DOMAIN code : c # b => code'[c] = code[c]
  BY <1>2, GrownEffect
<1>4. ASSUME NEW c \in DOMAIN code, NEW i \in DOMAIN code'[c]
      PROVE  (c = b /\ i = p) \/ \E j \in DOMAIN code[c] : i = To(b, p, c, j)
  <2>1. CASE c = b
    <3>1. i \in 1 .. Len(code[b]) + 1
      BY <1>3, <2>1
    <3>2. i # p => \E j \in 1 .. Len(code[b]) : i = Shift(p, j)
      BY <1>2, <3>1, ShiftOnto
    <3>3. QED BY <1>2, <2>1, <3>2 DEF To
  <2>2. CASE c # b
    BY <1>3, <2>2 DEF To
  <2>3. QED BY <2>1, <2>2
<1>5. ASSUME NEW c \in DOMAIN code, NEW j \in DOMAIN code[c]
      PROVE  LET y == code'[c][To(b, p, c, j)]
                 z == code[c][j]
             IN  /\ To(b, p, c, j) \in DOMAIN code'[c]
                 /\ y.kind = z.kind /\ y.was = z.was /\ y.id = z.id
                 /\ z.kind # "instr" => y = z
                 /\ DOMAIN y.ops = DOMAIN z.ops
                 /\ \A m \in DOMAIN z.ops :
                      /\ y.ops[m].def = z.ops[m].def
                      /\ y.ops[m].reg = IF c = b /\ j = k /\ m = n THEN q ELSE z.ops[m].reg
  <2>1. CASE c # b
    BY <1>3, <2>1 DEF To
  <2>2. CASE c = b /\ j # k
    <3>1. code'[b][Shift(p, j)] = code[b][j]
      BY <2>2, GrownEffect
    <3>2. Shift(p, j) \in DOMAIN code'[b]
      BY <1>2, <1>3, <2>2, ShiftOnto
    <3>3. QED BY <2>2, <3>1, <3>2 DEF To
  <2>3. CASE c = b /\ j = k
    <3> DEFINE y == code'[b][Shift(p, k)]
    <3>1. /\ y.kind = "instr" /\ y.was = code[b][k].was /\ y.id = code[b][k].id
          /\ DOMAIN y.ops = DOMAIN code[b][k].ops
          /\ \A m \in DOMAIN y.ops :
               /\ y.ops[m].def = code[b][k].ops[m].def
               /\ y.ops[m].reg = IF m = n THEN q ELSE code[b][k].ops[m].reg
      BY GrownEffect
    <3>2. Shift(p, k) \in DOMAIN code'[b]
      BY <1>1, <1>2, <1>3, ShiftOnto
    <3>3. y = code'[c][To(b, p, c, j)]
      BY <2>3 DEF To
    <3> HIDE DEF y
    <3>4. QED BY <1>1, <2>3, <3>1, <3>2, <3>3 DEF To
  <2>4. QED BY <2>1, <2>2, <2>3
<1>6. QED BY <1>3, <1>4, <1>5

\* One operand more has been taken.
LEMMA GrownTaken ==
  ASSUME Typed, Shaped, NEW b, NEW k, NEW n, NEW p, NEW x, NEW q \in Machine,
         Grown(b, k, n, p, x, q),
         NEW c \in DOMAIN code, NEW j \in DOMAIN code[c], NEW m
  PROVE  Taken(c, To(b, p, c, j), m)' <=> Taken(c, j, m) \/ (c = b /\ j = k /\ m = n)
<1>1. /\ b \in DOMAIN code /\ k \in DOMAIN code[b] /\ p \in {k, k + 1}
      /\ n \in DOMAIN code[b][k].was /\ code[b][k].was[n].reg \in VReg
      /\ at = <<b, k, n>> /\ at' = <<b, Shift(p, k), n + 1>>
  BY DEF Grown
<1>2. /\ c \in Nat /\ b \in Nat /\ j \in Nat /\ k \in Nat /\ p \in Nat
      /\ code[c][j] \in Item /\ code[b][k] \in Item
  BY <1>1, CodeType
<1>3. n \in Nat /\ DOMAIN code[c][j].was \subseteq Nat
  BY <1>1, <1>2, ItemType
<1>4. code'[c][To(b, p, c, j)].was = code[c][j].was
  BY GrownItems
<1>5. ASSUME m \in Nat
      PROVE  Passed(c, To(b, p, c, j), m)' <=> Passed(c, j, m) \/ (c = b /\ j = k /\ m = n)
  <2>1. CASE c # b
    BY <1>1, <2>1 DEF Passed, To
  <2>2. CASE c = b
    <3>1. /\ Shift(p, j) < Shift(p, k) <=> j < k
          /\ Shift(p, j) = Shift(p, k) <=> j = k
      BY <1>2 DEF Shift
    <3>2. m < n + 1 <=> m < n \/ m = n
      BY <1>3, <1>5
    <3>3. Passed(c, To(b, p, c, j), m)' <=> j < k \/ (j = k /\ (m < n \/ m = n))
      BY <1>1, <1>2, <2>2, <3>1, <3>2 DEF Passed, To
    <3>4. Passed(c, j, m) <=> j < k \/ (j = k /\ m < n)
      BY <1>1, <1>2, <2>2 DEF Passed
    <3>5. QED BY <2>2, <3>3, <3>4
  <2>3. QED BY <2>1, <2>2
<1>6. QED BY <1>1, <1>3, <1>4, <1>5 DEF Taken

\* What is inserted is a load, or the store of a new slot.
Inserted(x) ==
  /\ x.was = << >>
  /\ \/ x.kind = "load" /\ IsLoad(x)
     \/ /\ x.kind = "store" /\ x.slot = slots /\ slots' = slots + 1
        /\ x.ops = <<[def |-> FALSE, reg |-> EAX]>>

LEMMA GrownShaped ==
  ASSUME Typed, Shaped, NEW b, NEW k, NEW n, NEW p, NEW x, NEW q \in Machine,
         Grown(b, k, n, p, x, q), Inserted(x), slots' \in {slots, slots + 1},
         q \in IF code[b][k].was[n].def THEN {EAX} ELSE {EBX, ECX}
  PROVE  Shaped'
<1>1. slots \in Nat /\ fn' = fn
  BY DEF Typed, Grown
<1>2. ASSUME NEW c \in DOMAIN code, NEW j \in DOMAIN code[c], code[c][j].kind = "instr"
      PROVE  IsInstr(c, To(b, p, c, j))'
  <2> DEFINE i == To(b, p, c, j)
             y == code'[c][i]
             z == code[c][j]
  <2>1. /\ z.id = <<c, z.id[2]>> /\ z.id[2] \in DOMAIN fn.code[c] /\ z.was = fn.code[c][z.id[2]]
        /\ DOMAIN z.ops = DOMAIN z.was
        /\ \A m \in DOMAIN z.was :
             /\ z.ops[m].def = z.was[m].def
             /\ z.ops[m].reg \in IF ~ Taken(c, j, m) THEN {z.was[m].reg}
                                 ELSE IF z.was[m].def THEN {EAX} ELSE {EBX, ECX}
    BY <1>2 DEF Shaped, IsInstr
  <2>2. /\ y.was = z.was /\ y.id = z.id /\ DOMAIN y.ops = DOMAIN z.ops
        /\ \A m \in DOMAIN z.ops :
             /\ y.ops[m].def = z.ops[m].def
             /\ y.ops[m].reg = IF c = b /\ j = k /\ m = n THEN q ELSE z.ops[m].reg
    BY GrownItems
  <2>3. \A m : Taken(c, i, m)' <=> Taken(c, j, m) \/ (c = b /\ j = k /\ m = n)
    BY GrownTaken
  <2>4. i = To(b, p, c, j)
    OBVIOUS
  <2> HIDE DEF y, z, i
  <2>5. ASSUME NEW m \in DOMAIN y.was
        PROVE  /\ y.ops[m].def = y.was[m].def
               /\ y.ops[m].reg \in IF ~ Taken(c, i, m)' THEN {y.was[m].reg}
                                   ELSE IF y.was[m].def THEN {EAX} ELSE {EBX, ECX}
    <3>1. CASE c = b /\ j = k /\ m = n
      <4>1. z = code[b][k]
        BY <3>1 DEF z
      <4>2. QED BY <2>1, <2>2, <2>3, <2>5, <3>1, <4>1
    <3>2. CASE ~ (c = b /\ j = k /\ m = n)
      BY <2>1, <2>2, <2>3, <2>5, <3>2
    <3>3. QED BY <3>1, <3>2
  <2>6. /\ y.id = <<c, y.id[2]>> /\ y.id[2] \in DOMAIN fn'.code[c] /\ y.was = fn'.code[c][y.id[2]]
        /\ DOMAIN y.ops = DOMAIN y.was
    BY <1>1, <2>1, <2>2
  <2>7. IsInstr(c, i)'
    BY <2>5, <2>6 DEF IsInstr, y
  <2>8. QED BY <2>4, <2>7
<1>3. ASSUME NEW c \in DOMAIN code', NEW i \in DOMAIN code'[c]
      PROVE  CASE code'[c][i].kind = "instr" -> IsInstr(c, i)'
               [] code'[c][i].kind = "load" -> IsLoad(code'[c][i])
               [] code'[c][i].kind = "store" -> IsStore(code[c][i])'
  <2>1. CASE c = b /\ i = p
    <3>1. code'[c][i] = x
      BY <2>1, GrownItems
    <3>2. CASE x.kind = "load"
      BY <3>1, <3>2 DEF Inserted
    <3>3. CASE x.kind = "store"
      BY <1>1, <3>1, <3>3 DEF Inserted, IsStore
    <3>4. QED BY <3>2, <3>3 DEF Inserted
  <2>2. CASE ~ (c = b /\ i = p)
    <3>1. PICK j \in DOMAIN code[c] : i = To(b, p, c, j)
      BY <2>2, GrownItems
    <3>2. c \in DOMAIN code
      BY GrownItems
    <3>3. code'[c][i].kind = code[c][j].kind /\ (code[c][j].kind # "instr" => code'[c][i] = code[c][j])
      BY <3>1, <3>2, GrownItems
    <3>4. code[c][j] \in Item
      BY <3>2, CodeType
    <3>5. CASE code[c][j].kind = "instr"
      BY <1>2, <3>1, <3>2, <3>3, <3>5
    <3>6. CASE code[c][j].kind = "load"
      BY <3>2, <3>3, <3>6 DEF Shaped
    <3>7. CASE code[c][j].kind = "store"
      <4>1. IsStore(code[c][j])
        BY <3>2, <3>7 DEF Shaped
      <4>2. IsStore(code[c][i])'
        BY <1>1, <3>3, <3>7, <4>1 DEF IsStore
      <4>3. QED BY <3>3, <3>7, <4>2
    <3>8. QED BY <3>4, <3>5, <3>6, <3>7, ItemType
  <2>3. QED BY <2>1, <2>2
<1>4. QED BY <1>3 DEF Shaped, IsLoad

LEMMA GrownKept ==
  ASSUME Typed, Shaped, Kept, NEW b, NEW k, NEW n, NEW p, NEW x, NEW q \in Machine,
         Grown(b, k, n, p, x, q), Inserted(x)
  PROVE  Kept'
<1>1. fn' = fn /\ DOMAIN code' = DOMAIN code
  BY GrownItems DEF Grown
<1>2. p \in Nat /\ \A c \in DOMAIN code : DOMAIN code[c] \subseteq Nat
  BY CodeType DEF Grown
<1>3. ASSUME NEW c \in DOMAIN code, NEW i \in Own(c)'
      PROVE  \E j \in Own(c) : i = To(b, p, c, j) /\ code'[c][i].id = code[c][j].id
  <2>1. i \in DOMAIN code'[c] /\ code'[c][i].kind = "instr"
    BY DEF Own
  <2>2. ~ (c = b /\ i = p)
    BY <2>1, GrownItems DEF Inserted
  <2>3. PICK j \in DOMAIN code[c] : i = To(b, p, c, j)
    BY <2>1, <2>2, GrownItems
  <2>4. QED BY <2>1, <2>3, GrownItems DEF Own
<1>4. ASSUME NEW c \in DOMAIN code, NEW m \in DOMAIN fn.code[c]
      PROVE  \E i \in Own(c)' : code'[c][i].id[2] = m
  <2>1. PICK j \in Own(c) : code[c][j].id[2] = m
    BY <1>4 DEF Kept
  <2>2. j \in DOMAIN code[c] /\ code[c][j].kind = "instr"
    BY DEF Own
  <2>3. /\ To(b, p, c, j) \in DOMAIN code'[c] /\ code'[c][To(b, p, c, j)].kind = "instr"
        /\ code'[c][To(b, p, c, j)].id = code[c][j].id
    BY <2>2, GrownItems
  <2>4. QED BY <2>1, <2>3 DEF Own
<1>5. ASSUME NEW c \in DOMAIN code, NEW i \in Own(c)', NEW h \in Own(c)', i < h
      PROVE  code'[c][i].id[2] < code'[c][h].id[2]
  <2>1. PICK j \in Own(c) : i = To(b, p, c, j) /\ code'[c][i].id = code[c][j].id
    BY <1>3
  <2>2. PICK l \in Own(c) : h = To(b, p, c, l) /\ code'[c][h].id = code[c][l].id
    BY <1>3
  <2>3. j \in Nat /\ l \in Nat
    BY <1>2 DEF Own
  <2>4. j < l
    BY <1>2, <1>5, <2>1, <2>2, <2>3 DEF To, Shift
  <2>5. code[c][j].id[2] < code[c][l].id[2]
    BY <2>4 DEF Kept
  <2>6. QED BY <2>1, <2>2, <2>5
<1>6. QED BY <1>1, <1>4, <1>5 DEF Kept

\* A place of the list, and an item at it.
LEMMA PlaceParts ==
  ASSUME NEW lists, NEW p
  PROVE  p \in Places(lists) <=>
           \E c \in DOMAIN lists : \E j \in DOMAIN lists[c] : p = <<c, j>>
BY DEF Places

LEMMA GrownSlotsApart ==
  ASSUME Typed, Shaped, SlotsApart, NEW b, NEW k, NEW n, NEW p, NEW x, NEW q \in Machine,
         Grown(b, k, n, p, x, q), Inserted(x)
  PROVE  SlotsApart'
<1>1. DOMAIN code' = DOMAIN code /\ code'[b][p] = x
  BY GrownItems
<1>2. ASSUME NEW c \in DOMAIN code, NEW i \in DOMAIN code'[c], code'[c][i].kind = "store",
             ~ (c = b /\ i = p)
      PROVE  \E j \in DOMAIN code[c] :
               /\ i = To(b, p, c, j) /\ code[c][j].kind = "store"
               /\ code'[c][i].slot = code[c][j].slot
               /\ code'[c][i].slot < slots
  <2>1. PICK j \in DOMAIN code[c] : i = To(b, p, c, j)
    BY <1>2, GrownItems
  <2>2. code[c][j].kind = "store" /\ code'[c][i] = code[c][j]
    BY <1>2, <2>1, GrownItems
  <2>3. IsStore(code[c][j])
    BY <2>2 DEF Shaped
  <2>4. QED BY <2>1, <2>2, <2>3 DEF IsStore, Typed
<1>3. ASSUME NEW c \in DOMAIN code, NEW i \in DOMAIN code'[c], code'[c][i].kind = "store",
             NEW d \in DOMAIN code, NEW h \in DOMAIN code'[d], code'[d][h].kind = "store",
             code'[c][i].slot = code'[d][h].slot
      PROVE  c = d /\ i = h
  <2>1. CASE ~ (c = b /\ i = p) /\ ~ (d = b /\ h = p)
    <3>1. PICK j \in DOMAIN code[c] :
               i = To(b, p, c, j) /\ code[c][j].kind = "store" /\ code'[c][i].slot = code[c][j].slot
      BY <1>2, <1>3, <2>1
    <3>2. PICK l \in DOMAIN code[d] :
               h = To(b, p, d, l) /\ code[d][l].kind = "store" /\ code'[d][h].slot = code[d][l].slot
      BY <1>2, <1>3, <2>1
    <3>3. <<c, j>> \in Places(code) /\ <<d, l>> \in Places(code)
      BY PlaceParts
    <3>4. <<c, j>> = <<d, l>>
      BY <1>3, <3>1, <3>2, <3>3 DEF SlotsApart
    <3>5. QED BY <3>1, <3>2, <3>4
  <2>2. CASE (c = b /\ i = p) /\ ~ (d = b /\ h = p)
    <3>1. code'[d][h].slot < slots
      BY <1>2, <1>3, <2>2
    <3>2. code'[c][i].slot = slots
      BY <1>1, <1>3, <2>2 DEF Inserted
    <3>3. QED BY <1>3, <3>1, <3>2 DEF Typed
  <2>3. CASE ~ (c = b /\ i = p) /\ (d = b /\ h = p)
    <3>1. code'[c][i].slot < slots
      BY <1>2, <1>3, <2>3
    <3>2. code'[d][h].slot = slots
      BY <1>1, <1>3, <2>3 DEF Inserted
    <3>3. QED BY <1>3, <3>1, <3>2 DEF Typed
  <2>4. QED BY <2>1, <2>2, <2>3
<1>4. ASSUME NEW u \in Places(code'), NEW v \in Places(code'),
             code'[u[1]][u[2]].kind = "store", code'[v[1]][v[2]].kind = "store",
             code'[u[1]][u[2]].slot = code'[v[1]][v[2]].slot
      PROVE  u = v
  <2>1. PICK c \in DOMAIN code' : \E j \in DOMAIN code'[c] : u = <<c, j>>
    BY PlaceParts
  <2>2. PICK d \in DOMAIN code' : \E j \in DOMAIN code'[d] : v = <<d, j>>
    BY PlaceParts
  <2>3. PICK i \in DOMAIN code'[c] : u = <<c, i>>
    BY <2>1
  <2>4. PICK h \in DOMAIN code'[d] : v = <<d, h>>
    BY <2>2
  <2>5. c = d /\ i = h
    BY <1>1, <1>3, <1>4, <2>3, <2>4
  <2>6. QED BY <2>3, <2>4, <2>5
<1>5. Places(code)' = Places(code')
  BY DEF Places
<1>6. QED BY <1>4, <1>5 DEF SlotsApart

\* What is between two items after the step was there, or is x.
LEMMA GrownBetween ==
  ASSUME Typed, Shaped, NEW b, NEW k, NEW n, NEW p, NEW x, NEW q \in Machine,
         Grown(b, k, n, p, x, q),
         NEW c \in DOMAIN code, NEW j \in DOMAIN code[c], NEW l \in DOMAIN code[c],
         NEW i \in Int, To(b, p, c, j) < i, i < To(b, p, c, l)
  PROVE  \/ c = b /\ i = p /\ j < p /\ p <= l
         \/ \E h \in DOMAIN code[c] : j < h /\ h < l /\ i = To(b, p, c, h)
<1>1. /\ p \in Nat /\ Len(code[c]) \in Nat /\ DOMAIN code[c] = 1 .. Len(code[c])
  BY CodeType DEF Grown
<1>2. CASE c # b
  BY <1>1, <1>2 DEF To
<1>3. CASE c = b
  <2>1. Shift(p, j) < i /\ i < Shift(p, l)
    BY <1>3 DEF To
  <2>2. CASE i = p
    BY <1>1, <1>3, <2>1, <2>2 DEF Shift
  <2>3. CASE i < p
    <3>1. j < i /\ i < l /\ i = Shift(p, i)
      BY <1>1, <2>1, <2>3 DEF Shift
    <3>2. QED BY <1>1, <1>3, <3>1 DEF To
  <2>4. CASE i > p
    <3>1. j < i - 1 /\ i - 1 < l /\ i = Shift(p, i - 1)
      BY <1>1, <2>1, <2>4 DEF Shift
    <3>2. i - 1 \in DOMAIN code[c]
      BY <1>1, <3>1
    <3>3. QED BY <1>3, <3>1, <3>2 DEF To
  <2>5. QED BY <1>1, <2>2, <2>3, <2>4
<1>4. QED BY <1>2, <1>3

\* A load goes before the instruction, a store after it: neither comes between
\* an instruction and its loads or stores.
Placed(k, p, x) == p = IF x.kind = "load" THEN k ELSE k + 1

LEMMA GrownStoreOf ==
  ASSUME Typed, Shaped, NEW b, NEW k, NEW n, NEW p, NEW x, NEW q \in Machine,
         Grown(b, k, n, p, x, q), Inserted(x), Placed(k, p, x),
         NEW c \in DOMAIN code, NEW j \in DOMAIN code[c], NEW l, NEW r,
         StoreOf(c, j, l, r), r \in DOMAIN regMap', regMap'[r] = regMap[r]
  PROVE  StoreOf(c, To(b, p, c, j), To(b, p, c, l), r)'
<1>1. /\ l \in DOMAIN code[c] /\ j < l /\ code[c][l].slot = regMap[r]
      /\ \A h \in j + 1 .. l : code[c][h].kind = "store"
  BY DEF StoreOf
<1>2. /\ b \in DOMAIN code /\ k \in DOMAIN code[b] /\ code[b][k].kind = "instr"
  BY DEF Grown
<1>3. /\ DOMAIN code[c] \subseteq Nat /\ DOMAIN code[b] \subseteq Nat /\ p \in Nat
  BY CodeType DEF Grown
<1>4. \A h \in DOMAIN code[c] : j < h /\ h <= l => code[c][h].kind = "store"
  BY <1>1, <1>3
<1>5. /\ To(b, p, c, l) \in DOMAIN code'[c] /\ code'[c][To(b, p, c, l)] = code[c][l]
      /\ code[c][l].kind = "store"
  <2>1. code[c][l].kind = "store"
    BY <1>1, <1>3, <1>4
  <2>2. QED BY <1>1, <2>1, GrownItems
<1>6. To(b, p, c, j) \in Nat /\ To(b, p, c, l) \in Nat /\ To(b, p, c, j) < To(b, p, c, l)
  BY <1>1, <1>3 DEF To, Shift
<1>7. ASSUME NEW i \in To(b, p, c, j) + 1 .. To(b, p, c, l)
      PROVE  code'[c][i].kind = "store"
  <2>1. CASE i = To(b, p, c, l)
    BY <1>5, <2>1
  <2>2. CASE i # To(b, p, c, l)
    <3>1. i \in Int /\ To(b, p, c, j) < i /\ i < To(b, p, c, l)
      BY <1>6, <1>7, <2>2
    <3>2. CASE c = b /\ i = p /\ j < p /\ p <= l
      <4>1. CASE x.kind = "load"
        <5>1. j < k /\ k <= l
          BY <3>2, <4>1 DEF Placed
        <5>2. QED BY <1>2, <1>4, <3>2, <5>1
      <4>2. CASE x.kind = "store"
        BY <3>2, <4>2, GrownItems
      <4>3. QED BY <4>1, <4>2 DEF Inserted
    <3>3. CASE \E h \in DOMAIN code[c] : j < h /\ h < l /\ i = To(b, p, c, h)
      <4>1. PICK h \in DOMAIN code[c] : j < h /\ h < l /\ i = To(b, p, c, h)
        BY <3>3
      <4>2. code[c][h].kind = "store"
        BY <1>1, <1>3, <1>4, <4>1
      <4>3. QED BY <4>1, <4>2, GrownItems
    <3>4. QED BY <1>1, <3>1, <3>2, <3>3, GrownBetween
  <2>3. QED BY <2>1, <2>2
<1>8. QED BY <1>1, <1>5, <1>6, <1>7 DEF StoreOf

LEMMA GrownLoadOf ==
  ASSUME Typed, Shaped, NEW b, NEW k, NEW n, NEW p, NEW x, NEW q \in Machine,
         Grown(b, k, n, p, x, q), Inserted(x), Placed(k, p, x),
         NEW c \in DOMAIN code, NEW j \in DOMAIN code[c], NEW m \in DOMAIN code[c][j].was,
         Taken(c, j, m), code[c][j].kind = "instr", NEW l, LoadOf(c, j, m, l),
         code[c][j].was[m].reg \in DOMAIN regMap',
         regMap'[code[c][j].was[m].reg] = regMap[code[c][j].was[m].reg],
         x.kind = "load" =>
           /\ x.ops[1].reg = q
           /\ c = b /\ j = k => code[c][j].ops[m].reg # q
  PROVE  LoadOf(c, To(b, p, c, j), m, To(b, p, c, l))'
<1> DEFINE reg_ == code[c][j].ops[m].reg
<1>1. /\ l \in DOMAIN code[c] /\ l < j /\ code[c][l].slot = regMap[code[c][j].was[m].reg]
      /\ code[c][l].kind = "load" /\ code[c][l].ops[1].reg = reg_
      /\ \A h \in l + 1 .. j - 1 : code[c][h].kind = "load" /\ code[c][h].ops[1].reg # reg_
  BY DEF LoadOf
<1>2. /\ b \in DOMAIN code /\ k \in DOMAIN code[b] /\ code[b][k].kind = "instr"
      /\ at = <<b, k, n>> /\ n \in DOMAIN code[b][k].was
  BY DEF Grown
<1>3. /\ DOMAIN code[c] \subseteq Nat /\ DOMAIN code[b] \subseteq Nat /\ p \in Nat
      /\ b \in Nat /\ code[b][k] \in Item
  BY <1>2, CodeType DEF Grown
<1>4. \A h \in DOMAIN code[c] : l < h /\ h < j => code[c][h].kind = "load" /\ code[c][h].ops[1].reg # reg_
  BY <1>1, <1>3
<1>5. /\ To(b, p, c, l) \in DOMAIN code'[c] /\ code'[c][To(b, p, c, l)] = code[c][l]
  BY <1>1, GrownItems
<1>6. To(b, p, c, j) \in Nat /\ To(b, p, c, l) \in Nat /\ To(b, p, c, l) < To(b, p, c, j)
  BY <1>1, <1>3 DEF To, Shift
<1>7. /\ code'[c][To(b, p, c, j)].was = code[c][j].was
      /\ code'[c][To(b, p, c, j)].ops[m].reg = reg_
  <2>1. n \in Nat
    BY <1>2, <1>3, ItemType
  <2>2. ~ (c = b /\ j = k /\ m = n)
    BY <1>2, <1>3, <2>1 DEF Taken, Passed
  <2>3. m \in DOMAIN code[c][j].ops
    BY DEF Shaped, IsInstr
  <2>4. QED BY <2>2, <2>3, GrownItems
<1> HIDE DEF reg_
<1>8. ASSUME NEW i \in To(b, p, c, l) + 1 .. To(b, p, c, j) - 1
      PROVE  code'[c][i].kind = "load" /\ code'[c][i].ops[1].reg # reg_
  <2>1. i \in Int /\ To(b, p, c, l) < i /\ i < To(b, p, c, j)
    BY <1>6, <1>8
  <2>2. CASE c = b /\ i = p /\ l < p /\ p <= j
    <3>1. CASE x.kind = "load"
      <4>1. p = k
        BY <3>1 DEF Placed
      <4>2. j = k
        BY <1>2, <1>3, <1>4, <2>2, <4>1
      <4>3. code'[c][i] = x
        BY <2>2, GrownItems
      <4>4. QED BY <2>2, <3>1, <4>2, <4>3 DEF reg_
    <3>2. CASE x.kind = "store"
      <4>1. p = k + 1
        BY <3>2 DEF Placed
      <4>2. l <= k /\ k < j
        BY <1>1, <1>2, <1>3, <2>2, <4>1
      <4>3. QED BY <1>1, <1>2, <1>3, <1>4, <2>2, <4>2
    <3>3. QED BY <3>1, <3>2 DEF Inserted
  <2>3. CASE \E h \in DOMAIN code[c] : l < h /\ h < j /\ i = To(b, p, c, h)
    <3>1. PICK h \in DOMAIN code[c] : l < h /\ h < j /\ i = To(b, p, c, h)
      BY <2>3
    <3>2. code[c][h].kind = "load" /\ code[c][h].ops[1].reg # reg_
      BY <1>4, <3>1
    <3>3. code'[c][i] = code[c][h]
      BY <3>1, <3>2, GrownItems
    <3>4. QED BY <3>2, <3>3
  <2>4. QED BY <1>1, <2>1, <2>2, <2>3, GrownBetween
<1>9. QED BY <1>1, <1>5, <1>6, <1>7, <1>8 DEF LoadOf

-----------------------------------------------------------------------------
(***************************************************************************)
(* The two steps that allocate.                                            *)
(***************************************************************************)
UseOf(b, k, n, x) ==
  LET r == code[b][k].was[n].reg
  IN  /\ Grown(b, k, n, k, x, useReg) /\ Inserted(x) /\ ~ code[b][k].was[n].def
      /\ x.kind = "load" /\ x.ops[1].reg = useReg /\ x.slot = regMap'[r]
      /\ DOMAIN regMap' = DOMAIN regMap \cup {r}
      /\ regMap' \in [DOMAIN regMap' -> 0 .. slots']
      /\ \A s \in DOMAIN regMap : regMap'[s] = regMap[s]
      /\ useReg' = ECX /\ slots' = slots

DefineOf(b, k, n, x) ==
  LET r == code[b][k].was[n].reg
  IN  /\ Grown(b, k, n, k + 1, x, EAX) /\ Inserted(x) /\ code[b][k].was[n].def
      /\ x.kind = "store" /\ x.slot = regMap'[r]
      /\ DOMAIN regMap' = DOMAIN regMap \cup {r}
      /\ regMap' \in [DOMAIN regMap' -> 0 .. slots']
      /\ \A s \in DOMAIN regMap \ {r} : regMap'[s] = regMap[s]
      /\ useReg' = useReg /\ slots' = slots + 1

\* The walk never takes the operand of a load or store, nor one it took.
LEMMA AtOperand ==
  ASSUME Typed, Shaped, InOperand
  PROVE  /\ at = <<at[1], at[2], at[3]>>
         /\ at[1] \in DOMAIN code /\ at[2] \in DOMAIN code[at[1]] /\ mi \in Item
         /\ at[3] \in DOMAIN mi.ops /\ at[3] \in Nat
         /\ mi.kind = "instr" => /\ at[3] \in DOMAIN mi.was
                                 /\ mo.def = mi.was[at[3]].def /\ mo.reg = mi.was[at[3]].reg
         /\ mo.reg \in VReg => mi.kind = "instr"
<1>1. /\ at \in Nat \X Nat \X Nat /\ at[1] \in 1 .. Len(code) + 1 /\ at[2] > 0 /\ at[3] > 0
  BY DEF Typed
<1>2. at = <<at[1], at[2], at[3]>> /\ at[1] \in Nat /\ at[2] \in Nat /\ at[3] \in Nat
  BY <1>1
<1>3. at[1] <= Len(code) /\ at[2] <= Len(code[at[1]]) /\ at[3] <= Len(mi.ops)
  BY DEF InOperand, InInstr, InBlock
<1>4. at[1] \in DOMAIN code /\ at[2] \in DOMAIN code[at[1]] /\ mi \in Item
  <2>1. at[1] \in DOMAIN code
    BY <1>1, <1>2, <1>3, CodeType
  <2>2. at[2] \in DOMAIN code[at[1]]
    BY <1>1, <1>2, <1>3, <2>1, CodeType
  <2>3. QED BY <2>1, <2>2, CodeType DEF mi
<1>5. at[3] \in DOMAIN mi.ops
  BY <1>1, <1>2, <1>3, <1>4, ItemType
<1>6. ASSUME mi.kind = "instr"
      PROVE  /\ at[3] \in DOMAIN mi.was
             /\ mo.def = mi.was[at[3]].def /\ mo.reg = mi.was[at[3]].reg
  <2>1. IsInstr(at[1], at[2])
    BY <1>4, <1>6 DEF Shaped, mi
  <2>2. ~ Taken(at[1], at[2], at[3])
    BY <1>2 DEF Taken, Passed
  <2>3. QED BY <1>5, <2>1, <2>2 DEF IsInstr, mi, mo
<1>7. ASSUME mo.reg \in VReg PROVE mi.kind = "instr"
  <2>1. CASE mi.kind = "load"
    <3>1. IsLoad(mi)
      BY <1>4, <2>1 DEF Shaped, mi
    <3>2. PICK q \in {EBX, ECX} : mi.ops = <<[def |-> TRUE, reg |-> q]>>
      BY <3>1 DEF IsLoad
    <3>3. mo.reg = q
      BY <1>5, <3>2 DEF mo
    <3>4. QED BY <1>7, <3>3, FunctionsAssumption DEF Machine, Scratch
  <2>2. CASE mi.kind = "store"
    <3>1. IsStore(mi)
      BY <1>4, <2>2 DEF Shaped, mi
    <3>2. mi.ops = <<[def |-> FALSE, reg |-> EAX]>>
      BY <3>1 DEF IsStore
    <3>3. mo.reg = EAX
      BY <1>5, <3>2 DEF mo
    <3>4. QED BY <1>7, <3>3, FunctionsAssumption DEF Machine, Scratch
  <2>3. QED BY <1>4, <2>1, <2>2, ItemType
<1>8. QED BY <1>2, <1>4, <1>5, <1>6, <1>7

LEMMA LoadType ==
  ASSUME NEW q \in {EBX, ECX}, NEW slot \in Nat
  PROVE  LET x == Spill("load", TRUE, q, slot)
         IN  /\ x \in Item /\ x.kind = "load" /\ x.slot = slot /\ x.ops[1].reg = q
             /\ IsLoad(x) /\ Inserted(x)
<1> DEFINE x == Spill("load", TRUE, q, slot)
<1>1. /\ x.kind = "load" /\ x.was = << >> /\ x.slot = slot /\ x.ops = <<[def |-> TRUE, reg |-> q]>>
  BY DEF Spill
<1>2. x \in Item
  <2>1. <<[def |-> TRUE, reg |-> q]>> \in Seq([def : BOOLEAN, reg : Register])
    BY DEF Register, Machine, Scratch
  <2>2. << >> \in Seq(Operand) /\ <<0, 0>> \in Nat \X Nat
    OBVIOUS
  <2>3. QED BY <2>1, <2>2 DEF Spill, Item
<1> HIDE DEF x
<1>3. x.ops[1].reg = q
  BY <1>1
<1>4. IsLoad(x)
  BY <1>1 DEF IsLoad
<1>5. QED BY <1>1, <1>2, <1>3, <1>4 DEF Inserted, x

LEMMA StoreType ==
  ASSUME NEW slot \in Nat
  PROVE  LET x == Spill("store", FALSE, EAX, slot)
         IN  /\ x \in Item /\ x.kind = "store" /\ x.slot = slot /\ x.was = << >>
             /\ x.ops = <<[def |-> FALSE, reg |-> EAX]>>
<1> DEFINE x == Spill("store", FALSE, EAX, slot)
<1>1. /\ x.kind = "store" /\ x.was = << >> /\ x.slot = slot
      /\ x.ops = <<[def |-> FALSE, reg |-> EAX]>>
  BY DEF Spill
<1>2. x \in Item
  <2>1. <<[def |-> FALSE, reg |-> EAX]>> \in Seq([def : BOOLEAN, reg : Register])
    BY DEF Register, Machine, Scratch
  <2>2. << >> \in Seq(Operand) /\ <<0, 0>> \in Nat \X Nat
    OBVIOUS
  <2>3. QED BY <2>1, <2>2 DEF Spill, Item
<1> HIDE DEF x
<1>3. QED BY <1>1, <1>2 DEF x

LEMMA UseStep ==
  ASSUME Typed, Shaped, Use
  PROVE  \E b, k, n, x : UseOf(b, k, n, x)
<1> DEFINE x == Spill("load", TRUE, useReg, Slot(mo.reg))
<1>1. InOperand /\ mo.reg \in VReg /\ ~ mo.def
  BY DEF Use
<1>2. /\ at = <<at[1], at[2], at[3]>>
      /\ at[1] \in DOMAIN code /\ at[2] \in DOMAIN code[at[1]] /\ mi.kind = "instr"
      /\ at[3] \in DOMAIN mi.was /\ mo.def = mi.was[at[3]].def /\ mo.reg = mi.was[at[3]].reg
  BY <1>1, AtOperand
<1>3. useReg \in {EBX, ECX} /\ useReg \in Machine
  BY DEF Typed, Machine, Scratch
<1>4. Slot(mo.reg) \in 0 .. slots /\ slots \in Nat
  BY DEF Slot, Typed
<1>5. Slot(mo.reg) \in Nat
  BY <1>4
<1>6. /\ x \in Item /\ x.kind = "load" /\ x.slot = Slot(mo.reg) /\ x.ops[1].reg = useReg
      /\ Inserted(x)
  BY <1>3, <1>5, LoadType
<1>7. Grown(at[1], at[2], at[3], at[2], x, useReg)
  <2>1. at' = <<at[1], Shift(at[2], at[2]), at[3] + 1>>
    BY DEF Use, Moved, Shift, Typed
  <2>2. code' = [code EXCEPT ![at[1]] =
                   InsertAt([code[at[1]] EXCEPT ![at[2]] =
                              [code[at[1]][at[2]] EXCEPT !.ops[at[3]].reg = useReg]], at[2], x)]
    BY DEF Use, LoadBefore, SetReg, mi
  <2>3. fn' = fn
    BY DEF Use
  <2> HIDE DEF x
  <2>4. QED BY <1>1, <1>2, <1>6, <2>1, <2>2, <2>3 DEF Grown, mi
<1>8. regMap' = Bind(mo.reg, Slot(mo.reg)) /\ useReg' = ECX /\ slots' = slots
  BY DEF Use, NextUseReg
<1> HIDE DEF x
<1>9. /\ DOMAIN regMap' = DOMAIN regMap \cup {mo.reg} /\ regMap'[mo.reg] = Slot(mo.reg)
      /\ \A s \in DOMAIN regMap : regMap'[s] = regMap[s]
  BY <1>8 DEF Bind, Slot
<1>10. regMap' \in [DOMAIN regMap' -> 0 .. slots']
  <2>1. \A s \in DOMAIN regMap : regMap[s] \in 0 .. slots
    BY DEF Typed
  <2>2. regMap' = [s \in DOMAIN regMap' |-> regMap'[s]]
    BY <1>8 DEF Bind
  <2>3. QED BY <1>4, <1>8, <1>9, <2>1, <2>2
<1>11. UseOf(at[1], at[2], at[3], x)
  BY <1>1, <1>2, <1>6, <1>7, <1>8, <1>9, <1>10 DEF UseOf, mi
<1>12. QED BY <1>11

LEMMA DefineStep ==
  ASSUME Typed, Shaped, Define
  PROVE  \E b, k, n, x : DefineOf(b, k, n, x)
<1> DEFINE x == Spill("store", FALSE, EAX, slots)
<1>1. InOperand /\ mo.reg \in VReg /\ mo.def
  BY DEF Define
<1>2. /\ at = <<at[1], at[2], at[3]>>
      /\ at[1] \in DOMAIN code /\ at[2] \in DOMAIN code[at[1]] /\ mi.kind = "instr"
      /\ at[3] \in DOMAIN mi.was /\ mo.def = mi.was[at[3]].def /\ mo.reg = mi.was[at[3]].reg
  BY <1>1, AtOperand
<1>3. EAX \in Machine /\ slots \in Nat
  BY DEF Typed, Machine, Scratch
<1>4. /\ x \in Item /\ x.kind = "store" /\ x.was = << >> /\ x.slot = slots
      /\ x.ops = <<[def |-> FALSE, reg |-> EAX]>>
  BY <1>3, StoreType
<1>5. slots' = slots + 1 /\ useReg' = useReg /\ regMap' = Bind(mo.reg, slots) /\ fn' = fn
  BY DEF Define, NewSlot
<1>6. Inserted(x)
  BY <1>4, <1>5 DEF Inserted
<1>7. Grown(at[1], at[2], at[3], at[2] + 1, x, EAX)
  <2>1. at[2] \in Nat
    BY <1>2, CodeType
  <2>2. at' = <<at[1], Shift(at[2] + 1, at[2]), at[3] + 1>>
    <3>1. at' = [at EXCEPT ![3] = at[3] + 1]
      BY DEF Define
    <3>2. \A a1, a2, a3, v : [<<a1, a2, a3>> EXCEPT ![3] = v] = <<a1, a2, v>>
      OBVIOUS
    <3>3. at' = <<at[1], at[2], at[3] + 1>>
      BY <1>2, <3>1, <3>2
    <3>4. QED BY <2>1, <3>3 DEF Shift
  <2>3. code' = [code EXCEPT ![at[1]] =
                   InsertAt([code[at[1]] EXCEPT ![at[2]] =
                              [code[at[1]][at[2]] EXCEPT !.ops[at[3]].reg = EAX]], at[2] + 1, x)]
    BY DEF Define, StoreAfter, SetReg, mi, NewSlot
  <2> HIDE DEF x
  <2>4. QED BY <1>1, <1>2, <1>4, <1>5, <2>2, <2>3 DEF Grown, mi
<1> HIDE DEF x
<1>8. /\ DOMAIN regMap' = DOMAIN regMap \cup {mo.reg} /\ regMap'[mo.reg] = slots
      /\ \A s \in DOMAIN regMap \ {mo.reg} : regMap'[s] = regMap[s]
  BY <1>5 DEF Bind
<1>9. regMap' \in [DOMAIN regMap' -> 0 .. slots']
  <2>1. \A s \in DOMAIN regMap : regMap[s] \in 0 .. slots
    BY DEF Typed
  <2>2. regMap' = [s \in DOMAIN regMap' |-> regMap'[s]]
    BY <1>5 DEF Bind
  <2>3. QED BY <1>3, <1>5, <1>8, <2>1, <2>2
<1>10. DefineOf(at[1], at[2], at[3], x)
  BY <1>1, <1>2, <1>4, <1>5, <1>6, <1>7, <1>8, <1>9 DEF DefineOf, mi
<1>11. QED BY <1>10

LEMMA GrownTyped ==
  ASSUME Typed, Shaped, NEW b, NEW k, NEW n, NEW p, NEW x, NEW q \in Machine,
         Grown(b, k, n, p, x, q), slots' \in Nat, useReg' \in {EBX, ECX},
         DOMAIN regMap' = DOMAIN regMap \cup {code[b][k].was[n].reg},
         regMap' \in [DOMAIN regMap' -> 0 .. slots']
  PROVE  Typed'
<1>1. /\ b \in DOMAIN code /\ k \in DOMAIN code[b] /\ p \in {k, k + 1}
      /\ n \in DOMAIN code[b][k].was /\ code[b][k].was[n].reg \in VReg
      /\ at' = <<b, Shift(p, k), n + 1>> /\ fn' = fn
  BY DEF Grown
<1>2. b \in 1 .. Len(code) /\ k \in Nat /\ k > 0 /\ n \in Nat
  BY <1>1, CodeType, ItemType
<1>3. Len(code) \in Nat /\ code' \in Seq(Seq(Item)) /\ Len(code') = Len(code)
  BY CodeType, GrownEffect
<1>4. Shift(p, k) \in Nat /\ Shift(p, k) > 0
  BY <1>1, <1>2 DEF Shift
<1>5. at' \in Nat \X Nat \X Nat /\ at'[1] \in 1 .. Len(code') + 1 /\ at'[2] > 0 /\ at'[3] > 0
  BY <1>1, <1>2, <1>3, <1>4
<1>6. DOMAIN regMap' \subseteq VReg
  BY <1>1 DEF Typed
<1>7. QED BY <1>1, <1>3, <1>5, <1>6 DEF Typed

-----------------------------------------------------------------------------
(***************************************************************************)
(* An instruction and its place in the function as it was.                 *)
(***************************************************************************)
LEMMA InstrType ==
  ASSUME Typed, Shaped, NEW c \in DOMAIN code, NEW j \in DOMAIN code[c],
         NEW m \in DOMAIN code[c][j].was
  PROVE  /\ code[c][j].kind = "instr" /\ IsInstr(c, j) /\ j \in Own(c)
         /\ c \in Nat /\ j \in Nat /\ m \in Nat /\ code[c][j].id[2] \in Nat
         /\ <<c, code[c][j].id[2]>> \in Places(fn.code)
         /\ code[c][j].was = fn.code[c][code[c][j].id[2]]
         /\ code[c][j].was[m].def \in BOOLEAN
<1>1. code[c][j] \in Item
  BY CodeType
<1>2. code[c][j].kind = "instr"
  <2>1. code[c][j].was # << >>
    OBVIOUS
  <2>2. QED BY <1>1, <2>1, ItemType DEF Shaped, IsLoad, IsStore
<1>3. IsInstr(c, j)
  BY <1>2 DEF Shaped
<1>4. c \in Nat /\ j \in Nat /\ m \in Nat /\ c \in DOMAIN fn.code /\ DOMAIN fn.code[c] \subseteq Nat
  BY <1>1, CodeType, ItemType
<1>5. code[c][j].id[2] \in DOMAIN fn.code[c] /\ code[c][j].was = fn.code[c][code[c][j].id[2]]
  BY <1>3 DEF IsInstr
<1>6. <<c, code[c][j].id[2]>> \in Places(fn.code)
  BY <1>4, <1>5, PlaceParts
<1>7. QED BY <1>1, <1>2, <1>3, <1>4, <1>5, <1>6, ItemType DEF Own

LEMMA DefPlaceOf ==
  ASSUME Typed, Shaped, NEW c \in DOMAIN code, NEW j \in DOMAIN code[c],
         NEW m \in DOMAIN code[c][j].was, code[c][j].was[m].def
  PROVE  <<c, code[c][j].id[2]>> \in DefPlaces(fn, code[c][j].was[m].reg)
<1>1. /\ <<c, code[c][j].id[2]>> \in Places(fn.code)
      /\ code[c][j].was = fn.code[c][code[c][j].id[2]]
  BY InstrType
<1>2. code[c][j].was[m].reg \in Defined(code[c][j].was)
  BY DEF Defined
<1>3. QED BY <1>1, <1>2 DEF DefPlaces

\* The order of the instructions is that of the function.
LEMMA SameOrder ==
  ASSUME Typed, Shaped, Kept, NEW c \in DOMAIN code, NEW j \in Own(c), NEW l \in Own(c)
  PROVE  /\ j < l <=> code[c][j].id[2] < code[c][l].id[2]
         /\ j = l <=> code[c][j].id[2] = code[c][l].id[2]
<1>1. j \in DOMAIN code[c] /\ l \in DOMAIN code[c]
  BY DEF Own
<1>2. IsInstr(c, j) /\ IsInstr(c, l)
  BY <1>1 DEF Own, Shaped
<1>3. j \in Nat /\ l \in Nat /\ code[c][j].id[2] \in Nat /\ code[c][l].id[2] \in Nat
  <2>1. DOMAIN code[c] \subseteq Nat /\ DOMAIN fn.code[c] \subseteq Nat
    BY CodeType
  <2>2. QED BY <1>1, <1>2, <2>1 DEF IsInstr
<1>4. /\ j < l => code[c][j].id[2] < code[c][l].id[2]
      /\ l < j => code[c][l].id[2] < code[c][j].id[2]
  BY DEF Kept
<1>5. QED BY <1>3, <1>4

\* A virtual register has one definition.
LEMMA OneDefinition ==
  ASSUME Typed, Shaped, Kept,
         NEW c \in DOMAIN code, NEW j \in DOMAIN code[c], NEW m \in DOMAIN code[c][j].was,
         NEW d \in DOMAIN code, NEW l \in DOMAIN code[d], NEW o \in DOMAIN code[d][l].was,
         code[c][j].was[m].def, code[d][l].was[o].def, code[c][j].was[m].reg \in VReg,
         code[c][j].was[m].reg = code[d][l].was[o].reg
  PROVE  c = d /\ j = l
<1>1. /\ <<c, code[c][j].id[2]>> \in DefPlaces(fn, code[c][j].was[m].reg)
      /\ <<d, code[d][l].id[2]>> \in DefPlaces(fn, code[c][j].was[m].reg)
  BY DefPlaceOf
<1>2. <<c, code[c][j].id[2]>> = <<d, code[d][l].id[2]>>
  <2>1. PICK r \in VReg : r = code[c][j].was[m].reg
    OBVIOUS
  <2>2. \A p, q \in DefPlaces(fn, r) : p = q
    BY FunctionsAssumption DEF Typed
  <2>3. QED BY <1>1, <2>1, <2>2
<1>3. c = d /\ code[c][j].id[2] = code[d][l].id[2] /\ j \in Own(c) /\ l \in Own(d)
  BY <1>2, InstrType
<1>4. QED BY <1>3, SameOrder

\* In order, the definition of a register is before its uses.
LEMMA DefinedBefore ==
  ASSUME Typed, Shaped, Kept, InOrder,
         NEW c \in DOMAIN code, NEW j \in DOMAIN code[c], NEW m \in DOMAIN code[c][j].was,
         ~ code[c][j].was[m].def, code[c][j].was[m].reg \in VReg
  PROVE  \E d \in DOMAIN code : \E l \in DOMAIN code[d] : \E o \in DOMAIN code[d][l].was :
           /\ code[d][l].was[o].def /\ code[d][l].was[o].reg = code[c][j].was[m].reg
           /\ d < c \/ (d = c /\ l < j)
<1> DEFINE r == code[c][j].was[m].reg
           i == code[c][j].id[2]
<1>1. /\ <<c, i>> \in Places(fn.code) /\ code[c][j].was = fn.code[c][i] /\ j \in Own(c)
  BY InstrType
<1>2. m \in UsesOf(fn.code[c][i]) /\ fn.code[c][i][m].reg = r
  BY <1>1 DEF UsesOf
<1> HIDE DEF r, i
<1>3. \E e \in DefPlaces(fn, r) : Before(e, <<c, i>>)
  BY <1>1, <1>2 DEF InOrder
<1>4. PICK e \in DefPlaces(fn, r) : Before(e, <<c, i>>)
  BY <1>3
<1>5. e \in Places(fn.code) /\ r \in Defined(fn.code[e[1]][e[2]])
  BY DEF DefPlaces
<1>6. PICK d \in DOMAIN fn.code : \E g \in DOMAIN fn.code[d] : e = <<d, g>>
  BY <1>5, PlaceParts
<1>7. PICK g \in DOMAIN fn.code[d] : e = <<d, g>>
  BY <1>6
<1>8. d \in DOMAIN code
  BY CodeType
<1>9. PICK l \in Own(d) : code[d][l].id[2] = g
  BY <1>7, <1>8 DEF Kept
<1>10. l \in DOMAIN code[d] /\ code[d][l].was = fn.code[d][g]
  BY <1>8, <1>9 DEF Own, Shaped, IsInstr
<1>11. r \in Defined(code[d][l].was)
  BY <1>5, <1>7, <1>10
<1>12. PICK o \in DOMAIN code[d][l].was : code[d][l].was[o].def /\ code[d][l].was[o].reg = r
  BY <1>11 DEF Defined
<1>13. d < c \/ (d = c /\ g < i)
  BY <1>4, <1>7 DEF Before
<1>14. d = c /\ g < i => l < j
  BY <1>1, <1>8, <1>9, SameOrder DEF i
<1>15. QED BY <1>8, <1>10, <1>12, <1>13, <1>14 DEF r

-----------------------------------------------------------------------------
(***************************************************************************)
(* The slots of the definitions and of the uses taken.                     *)
(***************************************************************************)

\* An operand that has been taken after the step.
LEMMA TakenFrom ==
  ASSUME Typed, Shaped, NEW b, NEW k, NEW n, NEW p, NEW x, NEW q \in Machine,
         Grown(b, k, n, p, x, q), Inserted(x),
         NEW c \in DOMAIN code', NEW i \in DOMAIN code'[c], NEW m \in DOMAIN code'[c][i].was,
         Taken(c, i, m)'
  PROVE  /\ c \in DOMAIN code
         /\ \E j \in DOMAIN code[c] :
              /\ i = To(b, p, c, j) /\ code'[c][i].was = code[c][j].was
              /\ m \in DOMAIN code[c][j].was
              /\ Taken(c, j, m) \/ (c = b /\ j = k /\ m = n)
<1>1. c \in DOMAIN code /\ DOMAIN << >> = {}
  BY GrownItems
<1>2. ~ (c = b /\ i = p)
  BY <1>1, GrownItems DEF Inserted
<1>3. PICK j \in DOMAIN code[c] : i = To(b, p, c, j)
  BY <1>1, <1>2, GrownItems
<1>4. code'[c][i].was = code[c][j].was
  BY <1>1, <1>3, GrownItems
<1>5. Taken(c, j, m) \/ (c = b /\ j = k /\ m = n)
  BY <1>1, <1>3, GrownTaken
<1>6. QED BY <1>1, <1>3, <1>4, <1>5

LEMMA UseStored ==
  ASSUME Typed, Shaped, Stored, NEW b, NEW k, NEW n, NEW x, UseOf(b, k, n, x)
  PROVE  Stored'
<1>1. useReg \in Machine
  BY DEF Typed, Machine, Scratch
<1>2. /\ Grown(b, k, n, k, x, useReg) /\ Inserted(x) /\ ~ code[b][k].was[n].def
      /\ Placed(k, k, x) /\ DOMAIN regMap \subseteq DOMAIN regMap'
      /\ \A s \in DOMAIN regMap : regMap'[s] = regMap[s]
  BY DEF UseOf, Placed
<1>3. ASSUME NEW c \in DOMAIN code', NEW i \in DOMAIN code'[c],
             NEW m \in DOMAIN code'[c][i].was, Taken(c, i, m)', code'[c][i].was[m].def
      PROVE  \E l \in DOMAIN code'[c] : StoreOf(c, i, l, code[c][i].was[m].reg)'
  <2>1. /\ c \in DOMAIN code
        /\ \E j \in DOMAIN code[c] :
              /\ i = To(b, k, c, j) /\ code'[c][i].was = code[c][j].was
              /\ m \in DOMAIN code[c][j].was
              /\ Taken(c, j, m) \/ (c = b /\ j = k /\ m = n)
    BY <1>1, <1>2, <1>3, TakenFrom
  <2>2. PICK j \in DOMAIN code[c] :
              /\ i = To(b, k, c, j) /\ code'[c][i].was = code[c][j].was
              /\ m \in DOMAIN code[c][j].was
              /\ Taken(c, j, m) \/ (c = b /\ j = k /\ m = n)
    BY <2>1
  <2>3. Taken(c, j, m) /\ code[c][j].was[m].def
    BY <1>2, <1>3, <2>2
  <2>4. PICK r : r = code[c][j].was[m].reg
    OBVIOUS
  <2>5. PICK l \in DOMAIN code[c] : StoreOf(c, j, l, r)
    BY <2>1, <2>2, <2>3, <2>4 DEF Stored
  <2>6. r \in DOMAIN regMap
    BY <2>5 DEF StoreOf
  <2>7. StoreOf(c, To(b, k, c, j), To(b, k, c, l), r)'
    BY <1>1, <1>2, <2>1, <2>5, <2>6, GrownStoreOf
  <2>8. QED BY <2>2, <2>4, <2>7 DEF StoreOf
<1>4. QED BY <1>3 DEF Stored

\* A register defined by the step has no other definition, which might have
\* been stored.
LEMMA DefineStored ==
  ASSUME Typed, Shaped, Kept, Stored, NEW b, NEW k, NEW n, NEW x, DefineOf(b, k, n, x)
  PROVE  Stored'
<1> PICK r : r = code[b][k].was[n].reg
  OBVIOUS
<1>1. EAX \in Machine
  BY DEF Machine, Scratch
<1>2. /\ Grown(b, k, n, k + 1, x, EAX) /\ Inserted(x) /\ code[b][k].was[n].def
      /\ Placed(k, k + 1, x) /\ DOMAIN regMap' = DOMAIN regMap \cup {r}
      /\ x.kind = "store" /\ x.slot = regMap'[r]
      /\ \A s \in DOMAIN regMap \ {r} : regMap'[s] = regMap[s]
  BY DEF DefineOf, Placed
<1>3. /\ b \in DOMAIN code /\ k \in DOMAIN code[b] /\ n \in DOMAIN code[b][k].was /\ k \in Nat
      /\ r \in VReg
  BY <1>2, CodeType DEF Grown
<1>4. StoreOf(b, To(b, k + 1, b, k), k + 1, r)'
  <2>1. To(b, k + 1, b, k) = k
    BY <1>3 DEF To, Shift
  <2>2. k + 1 \in DOMAIN code'[b] /\ code'[b][k + 1] = x
    BY <1>1, <1>2, GrownItems
  <2>3. \A i \in k + 1 .. k + 1 : code'[b][i].kind = "store"
    BY <1>2, <1>3, <2>2
  <2>4. QED BY <1>2, <1>3, <2>1, <2>2, <2>3 DEF StoreOf
<1>5. ASSUME NEW c \in DOMAIN code', NEW i \in DOMAIN code'[c],
             NEW m \in DOMAIN code'[c][i].was, Taken(c, i, m)', code'[c][i].was[m].def
      PROVE  \E l \in DOMAIN code'[c] : StoreOf(c, i, l, code[c][i].was[m].reg)'
  <2>1. /\ c \in DOMAIN code
        /\ \E j \in DOMAIN code[c] :
              /\ i = To(b, k + 1, c, j) /\ code'[c][i].was = code[c][j].was
              /\ m \in DOMAIN code[c][j].was
              /\ Taken(c, j, m) \/ (c = b /\ j = k /\ m = n)
    BY <1>1, <1>2, <1>5, TakenFrom
  <2>2. PICK j \in DOMAIN code[c] :
              /\ i = To(b, k + 1, c, j) /\ code'[c][i].was = code[c][j].was
              /\ m \in DOMAIN code[c][j].was
              /\ Taken(c, j, m) \/ (c = b /\ j = k /\ m = n)
    BY <2>1
  <2>3. CASE code[c][j].was[m].reg = r
    <3>1. code[c][j].was[m].def /\ code[b][k].was[n].def
      BY <1>2, <1>5, <2>2
    <3>2. c = b /\ j = k
      BY <1>3, <2>1, <2>2, <2>3, <3>1, OneDefinition
    <3>3. QED BY <1>4, <2>2, <2>3, <3>2 DEF StoreOf
  <2>4. CASE code[c][j].was[m].reg # r
    <3>1. Taken(c, j, m) /\ code[c][j].was[m].def
      BY <1>5, <2>2, <2>4
    <3>2. PICK s : s = code[c][j].was[m].reg
      OBVIOUS
    <3>3. PICK l \in DOMAIN code[c] : StoreOf(c, j, l, s)
      BY <2>1, <2>2, <3>1, <3>2 DEF Stored
    <3>4. s \in DOMAIN regMap' /\ regMap'[s] = regMap[s]
      BY <1>2, <2>4, <3>2, <3>3 DEF StoreOf
    <3>5. StoreOf(c, To(b, k + 1, c, j), To(b, k + 1, c, l), s)'
      BY <1>1, <1>2, <2>1, <3>3, <3>4, GrownStoreOf
    <3>6. QED BY <2>2, <3>2, <3>5 DEF StoreOf
  <2>5. QED BY <2>3, <2>4
<1>6. QED BY <1>5 DEF Stored

\* Three things make a set of three.
LEMMA ThreeElements ==
  ASSUME NEW n, NEW m, NEW o, n # m, n # o, m # o
  PROVE  Cardinality({n, m, o}) = 3
<1>1. IsFiniteSet({o}) /\ Cardinality({o}) = 1
  BY FS_Singleton
<1>2. IsFiniteSet({o} \cup {m}) /\ Cardinality({o} \cup {m}) = Cardinality({o}) + 1
  <2>1. m \notin {o}
    OBVIOUS
  <2> DEFINE S == {o}
  <2>2. m \notin S /\ IsFiniteSet(S)
    BY <1>1, <2>1
  <2> HIDE DEF S
  <2>3. IsFiniteSet(S \cup {m}) /\ Cardinality(S \cup {m}) = Cardinality(S) + 1
    BY <2>2, FS_AddElement
  <2>4. QED BY <2>3 DEF S
<1>3. Cardinality(({o} \cup {m}) \cup {n}) = Cardinality({o} \cup {m}) + 1
  <2>1. n \notin {o} \cup {m}
    OBVIOUS
  <2> DEFINE S == {o} \cup {m}
  <2>2. n \notin S /\ IsFiniteSet(S)
    BY <1>2, <2>1
  <2> HIDE DEF S
  <2>3. Cardinality(S \cup {n}) = Cardinality(S) + 1
    BY <2>2, FS_AddElement
  <2>4. QED BY <2>3 DEF S
<1>4. ({o} \cup {m}) \cup {n} = {n, m, o}
  OBVIOUS
<1>5. QED BY <1>1, <1>2, <1>3, <1>4

\* The third use of an instruction would be given the register of the second.
LEMMA OtherRegister ==
  ASSUME Typed, Shaped, InTurn, AtMostTwo, InInstr,
         at[1] \in DOMAIN code, at[2] \in DOMAIN code[at[1]],
         NEW n \in DOMAIN mi.was, mi.was[n].reg \in VReg, ~ mi.was[n].def, at[3] = n,
         NEW m \in DOMAIN mi.was, UseTaken(m)
  PROVE  mi.ops[m].reg # useReg
<1>1. useReg \in {EBX, ECX} /\ useReg # EBX
  BY DEF Typed, InTurn
<1>2. SUFFICES ASSUME mi.ops[m].reg = ECX PROVE FALSE
  BY <1>1
<1>3. PICK o \in DOMAIN mi.was : o # m /\ UseTaken(o)
  BY <1>2 DEF InTurn
<1> DEFINE p == <<at[1], mi.id[2]>>
           uses == UsesOf(fn.code[p[1]][p[2]])
<1>4. /\ p \in Places(fn.code) /\ mi.was = fn.code[p[1]][p[2]]
      /\ n \in Nat /\ at[1] \in Nat /\ at[2] \in Nat
  <2>1. n \in DOMAIN code[at[1]][at[2]].was
    BY DEF mi
  <2>2. /\ <<at[1], code[at[1]][at[2]].id[2]>> \in Places(fn.code)
        /\ code[at[1]][at[2]].was = fn.code[at[1]][code[at[1]][at[2]].id[2]]
        /\ n \in Nat /\ at[1] \in Nat /\ at[2] \in Nat
    BY <2>1, InstrType
  <2>3. QED BY <2>2 DEF mi
<1>5. n # m /\ n # o
  BY <1>3, <1>4 DEF UseTaken, Taken, Passed
<1>6. {n, m, o} \subseteq uses
  <2>1. m \in DOMAIN mi.was /\ mi.was[m].reg \in VReg /\ ~ mi.was[m].def
    BY DEF UseTaken, Taken, mi
  <2>2. o \in DOMAIN mi.was /\ mi.was[o].reg \in VReg /\ ~ mi.was[o].def
    BY <1>3 DEF UseTaken, Taken, mi
  <2>3. QED BY <1>4, <2>1, <2>2 DEF UsesOf
<1>7. IsFiniteSet(uses)
  <2>1. uses \subseteq DOMAIN mi.was
    BY <1>4 DEF UsesOf
  <2>2. mi \in Item
    BY CodeType DEF mi
  <2>3. Len(mi.was) \in Nat /\ DOMAIN mi.was = 1 .. Len(mi.was)
    BY <2>2, ItemType
  <2>4. IsFiniteSet(DOMAIN mi.was)
    <3>1. PICK len \in Nat : len = Len(mi.was)
      BY <2>3
    <3>2. IsFiniteSet(1 .. len)
      BY FS_Interval
    <3>3. QED BY <2>3, <3>1, <3>2
  <2>5. QED BY <2>1, <2>4, FS_Subset
<1>8. Cardinality({n, m, o}) <= Cardinality(uses)
  BY <1>6, <1>7, FS_Subset
<1>9. Cardinality({n, m, o}) = 3
  BY <1>3, <1>5, ThreeElements
<1>10. Cardinality(uses) <= 2 /\ Cardinality(uses) \in Nat
  BY <1>4, <1>7, FS_CardinalityType DEF AtMostTwo
<1>11. QED BY <1>8, <1>9, <1>10

LEMMA UseLoaded ==
  ASSUME Typed, Shaped, InTurn, AtMostTwo, Loaded,
         NEW b, NEW k, NEW n, NEW x, UseOf(b, k, n, x)
  PROVE  Loaded'
<1>1. useReg \in Machine
  BY DEF Typed, Machine, Scratch
<1>2. PICK r : r = code[b][k].was[n].reg
  OBVIOUS
<1>3. /\ Grown(b, k, n, k, x, useReg) /\ Inserted(x) /\ ~ code[b][k].was[n].def
      /\ Placed(k, k, x) /\ DOMAIN regMap' = DOMAIN regMap \cup {r}
      /\ \A s \in DOMAIN regMap : regMap'[s] = regMap[s]
      /\ x.kind = "load" /\ x.ops[1].reg = useReg /\ x.slot = regMap'[r]
  BY <1>2 DEF UseOf, Placed
<1>4. /\ b \in DOMAIN code /\ k \in DOMAIN code[b] /\ n \in DOMAIN code[b][k].was /\ k \in Nat
      /\ r \in VReg /\ at = <<b, k, n>> /\ DOMAIN code[b][k].ops = DOMAIN code[b][k].was
  BY <1>2, <1>3, CodeType, InstrType DEF Grown, IsInstr
<1>5. LoadOf(b, To(b, k, b, k), n, k)'
  <2>1. To(b, k, b, k) = k + 1
    BY <1>4 DEF To, Shift
  <2>2. k \in DOMAIN code'[b] /\ code'[b][k] = x
    BY <1>1, <1>3, GrownItems
  <2>3. /\ code'[b][k + 1].was = code[b][k].was
        /\ code'[b][k + 1].ops[n].reg = useReg
    BY <1>1, <1>3, <1>4, <2>1, GrownItems
  <2>4. k < k + 1 /\ \A i \in k + 1 .. (k + 1) - 1 : FALSE
    BY <1>4
  <2>5. QED BY <1>2, <1>3, <2>1, <2>2, <2>3, <2>4 DEF LoadOf
<1>6. ASSUME NEW c \in DOMAIN code', NEW i \in DOMAIN code'[c],
             NEW m \in DOMAIN code'[c][i].was, Taken(c, i, m)', ~ code'[c][i].was[m].def
      PROVE  \E l \in DOMAIN code'[c] : LoadOf(c, i, m, l)'
  <2>1. /\ c \in DOMAIN code
        /\ \E j \in DOMAIN code[c] :
              /\ i = To(b, k, c, j) /\ code'[c][i].was = code[c][j].was
              /\ m \in DOMAIN code[c][j].was
              /\ Taken(c, j, m) \/ (c = b /\ j = k /\ m = n)
    BY <1>1, <1>3, <1>6, TakenFrom
  <2>2. PICK j \in DOMAIN code[c] :
              /\ i = To(b, k, c, j) /\ code'[c][i].was = code[c][j].was
              /\ m \in DOMAIN code[c][j].was
              /\ Taken(c, j, m) \/ (c = b /\ j = k /\ m = n)
    BY <2>1
  <2>3. CASE c = b /\ j = k /\ m = n
    BY <1>5, <2>2, <2>3 DEF LoadOf
  <2>4. CASE Taken(c, j, m)
    <3>1. ~ code[c][j].was[m].def /\ code[c][j].kind = "instr"
      BY <1>6, <2>1, <2>2, InstrType
    <3>2. PICK l \in DOMAIN code[c] : LoadOf(c, j, m, l)
      BY <2>1, <2>2, <2>4, <3>1 DEF Loaded
    <3>3. /\ code[c][j].was[m].reg \in DOMAIN regMap'
          /\ regMap'[code[c][j].was[m].reg] = regMap[code[c][j].was[m].reg]
      BY <1>3, <3>2 DEF LoadOf
    <3>4. ASSUME c = b, j = k PROVE code[c][j].ops[m].reg # useReg
      <4>1. mi = code[b][k]
        BY <1>4 DEF mi
      <4>2. UseTaken(m)
        BY <1>4, <2>4, <3>1, <3>4 DEF UseTaken, mi
      <4>3. InInstr
        BY <1>4, CodeType DEF InInstr, InBlock
      <4>4. /\ at[1] \in DOMAIN code /\ at[2] \in DOMAIN code[at[1]] /\ at[3] = n
            /\ n \in DOMAIN mi.was /\ m \in DOMAIN mi.was /\ mi.was[n].reg \in VReg /\ ~ mi.was[n].def
        BY <1>2, <1>3, <1>4, <2>2, <3>4, <4>1
      <4>5. mi.ops[m].reg # useReg
        BY <4>2, <4>3, <4>4, OtherRegister
      <4>6. QED BY <3>4, <4>1, <4>5
    <3>5. LoadOf(c, To(b, k, c, j), m, To(b, k, c, l))'
      BY <1>1, <1>3, <2>1, <2>2, <2>4, <3>1, <3>2, <3>3, <3>4, GrownLoadOf
    <3>6. QED BY <2>2, <3>5 DEF LoadOf
  <2>5. QED BY <2>2, <2>3, <2>4
<1>7. QED BY <1>6 DEF Loaded

\* In order, no use of the register defined by the step has been taken.
LEMMA DefineLoaded ==
  ASSUME Typed, Shaped, Kept, InOrder, Loaded,
         NEW b, NEW k, NEW n, NEW x, DefineOf(b, k, n, x)
  PROVE  Loaded'
<1>1. EAX \in Machine
  BY DEF Machine, Scratch
<1>2. PICK r : r = code[b][k].was[n].reg
  OBVIOUS
<1>3. /\ Grown(b, k, n, k + 1, x, EAX) /\ Inserted(x) /\ code[b][k].was[n].def
      /\ Placed(k, k + 1, x) /\ DOMAIN regMap' = DOMAIN regMap \cup {r}
      /\ x.kind = "store" /\ \A s \in DOMAIN regMap \ {r} : regMap'[s] = regMap[s]
  BY <1>2 DEF DefineOf, Placed
<1>4. /\ b \in DOMAIN code /\ k \in DOMAIN code[b] /\ n \in DOMAIN code[b][k].was
      /\ at = <<b, k, n>> /\ k \in Nat /\ b \in Nat
  BY <1>3, CodeType DEF Grown
<1>5. ASSUME NEW c \in DOMAIN code', NEW i \in DOMAIN code'[c],
             NEW m \in DOMAIN code'[c][i].was, Taken(c, i, m)', ~ code'[c][i].was[m].def
      PROVE  \E l \in DOMAIN code'[c] : LoadOf(c, i, m, l)'
  <2>1. /\ c \in DOMAIN code
        /\ \E j \in DOMAIN code[c] :
              /\ i = To(b, k + 1, c, j) /\ code'[c][i].was = code[c][j].was
              /\ m \in DOMAIN code[c][j].was
              /\ Taken(c, j, m) \/ (c = b /\ j = k /\ m = n)
    BY <1>1, <1>3, <1>5, TakenFrom
  <2>2. PICK j \in DOMAIN code[c] :
              /\ i = To(b, k + 1, c, j) /\ code'[c][i].was = code[c][j].was
              /\ m \in DOMAIN code[c][j].was
              /\ Taken(c, j, m) \/ (c = b /\ j = k /\ m = n)
    BY <2>1
  <2>3. /\ Taken(c, j, m) /\ ~ code[c][j].was[m].def /\ code[c][j].kind = "instr"
        /\ c \in Nat /\ j \in Nat
    BY <1>3, <1>5, <2>1, <2>2, InstrType
  <2>4. code[c][j].was[m].reg # r
    <3>1. SUFFICES ASSUME code[c][j].was[m].reg = r PROVE FALSE
      OBVIOUS
    <3>2. code[c][j].was[m].reg \in VReg
      BY <2>3 DEF Taken
    <3>3. \E d \in DOMAIN code : \E l \in DOMAIN code[d] : \E o \in DOMAIN code[d][l].was :
            /\ code[d][l].was[o].def /\ code[d][l].was[o].reg = r
            /\ d < c \/ (d = c /\ l < j)
      BY <2>1, <2>2, <2>3, <3>1, <3>2, DefinedBefore
    <3>4. b < c \/ (b = c /\ k < j)
      BY <1>2, <1>3, <1>4, <3>1, <3>2, <3>3, OneDefinition
    <3>5. QED BY <1>4, <2>3, <3>4 DEF Taken, Passed
  <2>5. PICK l \in DOMAIN code[c] : LoadOf(c, j, m, l)
    BY <2>1, <2>2, <2>3 DEF Loaded
  <2>6. /\ code[c][j].was[m].reg \in DOMAIN regMap'
        /\ regMap'[code[c][j].was[m].reg] = regMap[code[c][j].was[m].reg]
    BY <1>3, <2>4, <2>5 DEF LoadOf
  <2>7. LoadOf(c, To(b, k + 1, c, j), m, To(b, k + 1, c, l))'
    BY <1>1, <1>3, <2>1, <2>2, <2>3, <2>5, <2>6, GrownLoadOf
  <2>8. QED BY <2>2, <2>7 DEF LoadOf
<1>6. QED BY <1>5 DEF Loaded

\* The item and the operand the walk is at after the step.
LEMMA GrownHere ==
  ASSUME Typed, Shaped, NEW b, NEW k, NEW n, NEW p, NEW x, NEW q \in Machine,
         Grown(b, k, n, p, x, q)
  PROVE  /\ InInstr /\ InInstr' /\ mi = code[b][k] /\ n \in DOMAIN mi.was
         /\ mi'.was = mi.was
         /\ \A m \in DOMAIN mi.was : mi'.ops[m].reg = IF m = n THEN q ELSE mi.ops[m].reg
         /\ \A m : UseTaken(m)' <=> UseTaken(m) \/ (m = n /\ ~ mi.was[n].def)
         /\ ~ UseTaken(n)
<1>1. /\ b \in DOMAIN code /\ k \in DOMAIN code[b] /\ n \in DOMAIN code[b][k].was
      /\ at = <<b, k, n>> /\ at' = <<b, Shift(p, k), n + 1>> /\ To(b, p, b, k) = Shift(p, k)
  BY DEF Grown, To
<1>2. /\ DOMAIN code = 1 .. Len(code) /\ Len(code) \in Nat
      /\ DOMAIN code[b] = 1 .. Len(code[b]) /\ Len(code[b]) \in Nat
      /\ DOMAIN code'[b] = 1 .. Len(code[b]) + 1
      /\ code' \in Seq(Seq(Item)) /\ Len(code') = Len(code) /\ DOMAIN code' = DOMAIN code
  BY <1>1, CodeType, GrownEffect
<1>3. Shift(p, k) \in DOMAIN code'[b]
  BY <1>1, GrownItems
<1>4. InInstr
  BY <1>1, <1>2 DEF InInstr, InBlock
<1>5. InInstr'
  <2>1. Len(code'[b]) = Len(code[b]) + 1
    <3>1. code'[b] \in Seq(Item)
      BY <1>1, <1>2
    <3>2. Len(code'[b]) \in Nat /\ DOMAIN code'[b] = 1 .. Len(code'[b])
      BY <3>1, SeqType
    <3>3. QED BY <1>2, <3>2
  <2>2. at'[1] = b /\ at'[2] = Shift(p, k) /\ b <= Len(code') /\ Shift(p, k) <= Len(code'[b])
    BY <1>1, <1>2, <1>3, <2>1
  <2>3. QED BY <2>2 DEF InInstr, InBlock
<1>6. mi = code[b][k] /\ mi' = code'[b][Shift(p, k)] /\ DOMAIN mi.ops = DOMAIN mi.was
  BY <1>1, InstrType DEF mi, IsInstr
<1>7. /\ mi'.was = mi.was
      /\ \A m \in DOMAIN mi.was : mi'.ops[m].reg = IF m = n THEN q ELSE mi.ops[m].reg
  BY <1>1, <1>6, GrownItems
<1>8. ASSUME NEW m PROVE UseTaken(m)' <=> UseTaken(m) \/ (m = n /\ ~ mi.was[n].def)
  <2>1. Taken(b, Shift(p, k), m)' <=> Taken(b, k, m) \/ m = n
    BY <1>1, GrownTaken
  <2>2. Taken(at[1], at[2], m) <=> Taken(b, k, m)
    BY <1>1
  <2>3. Taken(at[1], at[2], m)' <=> Taken(b, Shift(p, k), m)'
    BY <1>1 DEF Taken, Passed
  <2>4. QED BY <1>7, <2>1, <2>2, <2>3 DEF UseTaken
<1>9. ~ UseTaken(n)
  <2>1. b \in Nat /\ k \in Nat /\ n \in Nat
    BY <1>1, InstrType
  <2>2. QED BY <1>1, <2>1 DEF UseTaken, Taken, Passed
<1>10. QED BY <1>1, <1>4, <1>5, <1>6, <1>7, <1>8, <1>9

LEMMA UseInTurn ==
  ASSUME Typed, Shaped, InTurn, NEW b, NEW k, NEW n, NEW x, UseOf(b, k, n, x)
  PROVE  InTurn'
<1>1. useReg \in Machine /\ useReg \in {EBX, ECX}
  BY DEF Typed, Machine, Scratch
<1>2. /\ Grown(b, k, n, k, x, useReg) /\ ~ code[b][k].was[n].def /\ useReg' = ECX
  BY DEF UseOf
<1>3. /\ InInstr /\ InInstr' /\ n \in DOMAIN mi.was /\ mi = code[b][k]
      /\ mi'.was = mi.was
      /\ \A m \in DOMAIN mi.was : mi'.ops[m].reg = IF m = n THEN useReg ELSE mi.ops[m].reg
      /\ \A m : UseTaken(m)' <=> UseTaken(m) \/ m = n
      /\ ~ UseTaken(n)
  BY <1>1, <1>2, GrownHere
<1>4. ASSUME NEW m \in DOMAIN mi.was, UseTaken(m)', mi'.ops[m].reg = ECX
      PROVE  \E o \in DOMAIN mi.was : o # m /\ UseTaken(o)'
  <2>1. CASE m = n
    BY <1>1, <1>3, <1>4, <2>1 DEF InTurn
  <2>2. CASE m # n
    BY <1>3, <2>2
  <2>3. QED BY <2>1, <2>2
<1>5. useReg' # EBX
  BY <1>2 DEF EBX, ECX
<1>6. QED BY <1>3, <1>4, <1>5 DEF InTurn

LEMMA DefineInTurn ==
  ASSUME Typed, Shaped, InTurn, NEW b, NEW k, NEW n, NEW x, DefineOf(b, k, n, x)
  PROVE  InTurn'
<1>1. EAX \in Machine
  BY DEF Machine, Scratch
<1>2. /\ Grown(b, k, n, k + 1, x, EAX) /\ code[b][k].was[n].def /\ useReg' = useReg
  BY DEF DefineOf
<1>3. /\ InInstr /\ InInstr' /\ n \in DOMAIN mi.was /\ mi = code[b][k]
      /\ mi'.was = mi.was
      /\ \A m \in DOMAIN mi.was : mi'.ops[m].reg = IF m = n THEN EAX ELSE mi.ops[m].reg
      /\ \A m : UseTaken(m)' <=> UseTaken(m)
      /\ ~ UseTaken(n)
  BY <1>1, <1>2, GrownHere
<1>4. QED BY <1>2, <1>3 DEF InTurn

-----------------------------------------------------------------------------
(***************************************************************************)
(* The steps that only move on: what has been taken stays the same.        *)
(***************************************************************************)
Walk == Physical \/ NextInstr \/ NextBlock

LEMMA WalkEffect ==
  ASSUME Walk
  PROVE  UNCHANGED <<fn, code, regMap, slots>>
BY DEF Walk, Physical, NextInstr, NextBlock

LEMMA WalkTyped ==
  ASSUME Typed, Walk
  PROVE  Typed'
<1>1. /\ fn' = fn /\ code' = code /\ regMap' = regMap /\ slots' = slots
  BY WalkEffect
<1>2. at \in Nat \X Nat \X Nat /\ at[1] \in 1 .. Len(code) + 1 /\ at[2] > 0 /\ at[3] > 0
      /\ Len(code) \in Nat /\ useReg \in {EBX, ECX}
  BY CodeType DEF Typed
<1>3. /\ at' \in Nat \X Nat \X Nat /\ at'[1] \in 1 .. Len(code) + 1 /\ at'[2] > 0 /\ at'[3] > 0
      /\ useReg' \in {EBX, ECX}
  <2>1. CASE Physical
    BY <1>2, <2>1 DEF Physical
  <2>2. CASE NextInstr
    BY <1>2, <2>2 DEF NextInstr
  <2>3. CASE NextBlock
    BY <1>2, <2>3 DEF NextBlock, InBlock
  <2>4. QED BY <2>1, <2>2, <2>3 DEF Walk
<1>4. QED BY <1>1, <1>3 DEF Typed

LEMMA WalkTaken ==
  ASSUME Typed, Shaped, Walk, NEW c \in DOMAIN code, NEW j \in DOMAIN code[c], NEW m
  PROVE  Taken(c, j, m)' <=> Taken(c, j, m)
<1>1. code' = code /\ at \in Nat \X Nat \X Nat /\ at[3] > 0
  BY WalkEffect DEF Typed
<1>2. SUFFICES ASSUME m \in DOMAIN code[c][j].was, code[c][j].was[m].reg \in VReg
               PROVE  Passed(c, j, m)' <=> Passed(c, j, m)
  BY <1>1 DEF Taken
<1>3. /\ c \in Nat /\ j \in Nat /\ m \in Nat /\ code[c][j].kind = "instr" /\ IsInstr(c, j)
  BY <1>2, InstrType
<1>4. code[c][j] \in Item /\ Len(code[c]) \in Nat /\ DOMAIN code[c] = 1 .. Len(code[c])
  BY CodeType
<1>5. /\ DOMAIN code[c][j].ops = DOMAIN code[c][j].was
      /\ DOMAIN code[c][j].ops = 1 .. Len(code[c][j].ops)
  BY <1>3, <1>4, ItemType DEF IsInstr
<1>6. CASE Physical
  <2>1. at' = [at EXCEPT ![3] = at[3] + 1] /\ InOperand /\ mo.reg \notin VReg
    BY <1>6 DEF Physical
  <2>2. at'[1] = at[1] /\ at'[2] = at[2] /\ at'[3] = at[3] + 1
    BY <1>1, <2>1
  <2>3. ~ (c = at[1] /\ j = at[2] /\ m = at[3])
    <3>1. SUFFICES ASSUME c = at[1], j = at[2], m = at[3] PROVE FALSE
      OBVIOUS
    <3>2. mi = code[c][j]
      BY <3>1 DEF mi
    <3>3. mo.reg = mi.was[at[3]].reg
      BY <1>3, <2>1, <3>2, AtOperand
    <3>4. QED BY <1>2, <2>1, <3>1, <3>2, <3>3
  <2>4. QED BY <1>1, <1>3, <2>2, <2>3 DEF Passed
<1>7. CASE NextInstr
  <2>1. at' = <<at[1], at[2] + 1, 1>> /\ InInstr /\ ~ InOperand
    BY <1>7 DEF NextInstr
  <2>2. at'[1] = at[1] /\ at'[2] = at[2] + 1 /\ at'[3] = 1
    BY <1>1, <2>1
  <2>3. c = at[1] /\ j = at[2] => m < at[3]
    <3>1. SUFFICES ASSUME c = at[1], j = at[2] PROVE m < at[3]
      OBVIOUS
    <3>2. mi = code[c][j] /\ ~ (at[3] <= Len(mi.ops))
      BY <2>1, <3>1 DEF mi, InOperand
    <3>3. Len(mi.ops) \in Nat /\ m \in 1 .. Len(mi.ops) /\ at[3] \in Nat
      BY <1>1, <1>2, <1>4, <1>5, <3>2, ItemType
    <3>4. QED BY <3>2, <3>3
  <2>4. QED BY <1>1, <1>2, <1>3, <1>4, <1>5, <2>2, <2>3 DEF Passed
<1>8. CASE NextBlock
  <2>1. at' = <<at[1] + 1, 1, 1>> /\ InBlock /\ ~ InInstr
    BY <1>8 DEF NextBlock
  <2>2. at'[1] = at[1] + 1 /\ at'[2] = 1 /\ at'[3] = 1
    BY <1>1, <2>1
  <2>3. c = at[1] => j < at[2]
    <3>1. SUFFICES ASSUME c = at[1] PROVE j < at[2]
      OBVIOUS
    <3>2. ~ (at[2] <= Len(code[c]))
      BY <2>1, <3>1 DEF InInstr
    <3>3. QED BY <1>1, <1>4, <3>2
  <2>4. j > 0 /\ m > 0
    BY <1>2, <1>4, <1>5
  <2>5. QED BY <1>1, <1>3, <2>2, <2>3, <2>4 DEF Passed
<1>9. QED BY <1>6, <1>7, <1>8 DEF Walk

LEMMA SameShape ==
  ASSUME Typed, Shaped, code' = code, fn' = fn, slots' = slots,
         \A c \in DOMAIN code : \A j \in DOMAIN code[c] : \A m :
           Taken(c, j, m)' <=> Taken(c, j, m)
  PROVE  Shaped'
<1>1. code' = code /\ fn' = fn /\ slots' = slots
  OBVIOUS
<1>2. ASSUME NEW c \in DOMAIN code, NEW j \in DOMAIN code[c]
      PROVE  IsInstr(c, j)' <=> IsInstr(c, j)
  BY <1>1 DEF IsInstr
<1>3. ASSUME NEW c \in DOMAIN code, NEW j \in DOMAIN code[c]
      PROVE  CASE code[c][j].kind = "instr" -> IsInstr(c, j)'
               [] code[c][j].kind = "load" -> IsLoad(code[c][j])
               [] code[c][j].kind = "store" -> IsStore(code[c][j])'
  <2>1. code[c][j].kind = "instr" => IsInstr(c, j)'
    BY <1>2 DEF Shaped
  <2>2. code[c][j].kind = "load" => IsLoad(code[c][j])
    BY DEF Shaped
  <2>3. code[c][j].kind = "store" => IsStore(code[c][j])'
    <3>1. code[c][j].kind = "store" => IsStore(code[c][j])
      BY DEF Shaped
    <3>2. QED BY <1>1, <3>1 DEF IsStore
  <2>4. code[c][j].kind \in {"instr", "load", "store"}
    BY CodeType, ItemType
  <2>5. QED BY <2>1, <2>2, <2>3, <2>4
<1>4. QED BY <1>1, <1>3 DEF Shaped, IsLoad

LEMMA WalkShaped ==
  ASSUME Typed, Shaped, Walk
  PROVE  Shaped'
BY WalkEffect, WalkTaken, SameShape

\* At the first operand of an instruction none of it has been taken.
LEMMA NoneTaken ==
  ASSUME Typed, Walk, NEW d \in Nat \ {0}, NEW l \in Nat \ {0}, at' = <<d, l, 1>>, InInstr',
         NEW n \in DOMAIN mi'.was
  PROVE  ~ UseTaken(n)'
<1>1. code' = code /\ Len(code) \in Nat /\ DOMAIN code = 1 .. Len(code)
  BY WalkEffect, CodeType
<1>2. d <= Len(code) /\ l <= Len(code[d]) /\ mi' = code[d][l]
  BY <1>1 DEF InInstr, InBlock, mi
<1>3. d \in DOMAIN code /\ l \in DOMAIN code[d]
  BY <1>1, <1>2, CodeType
<1>4. code[d][l] \in Item
  BY <1>3, CodeType
<1>5. n \in Nat /\ n > 0
  BY <1>2, <1>4, ItemType
<1>6. QED BY <1>5 DEF UseTaken, Taken, Passed

LEMMA WalkInTurn ==
  ASSUME Typed, Shaped, InTurn, Walk
  PROVE  InTurn'
<1>1. code' = code /\ at \in Nat \X Nat \X Nat /\ useReg \in {EBX, ECX} /\ EBX # ECX
  BY WalkEffect DEF Typed, EBX, ECX
<1>2. CASE Physical
  <2>1. /\ at' = [at EXCEPT ![3] = at[3] + 1] /\ InOperand /\ useReg' = useReg
    BY <1>2 DEF Physical
  <2>2. at'[1] = at[1] /\ at'[2] = at[2]
    BY <1>1, <2>1
  <2>3. mi' = mi /\ (InInstr' <=> InInstr)
    BY <1>1, <2>2 DEF mi, InInstr, InBlock
  <2>4. at[1] \in DOMAIN code /\ at[2] \in DOMAIN code[at[1]]
    BY <2>1, AtOperand
  <2>5. \A c, j, m : c = at[1] /\ j = at[2] => (Taken(c, j, m)' <=> Taken(c, j, m))
    BY <2>4, WalkTaken
  <2>6. ASSUME NEW m PROVE UseTaken(m)' <=> UseTaken(m)
    <3>1. PICK c, j : c = at[1] /\ j = at[2]
      OBVIOUS
    <3>2. Taken(c, j, m)' <=> Taken(c, j, m)
      BY <2>5, <3>1
    <3>3. Taken(at[1], at[2], m)' <=> Taken(c, j, m)'
      BY <2>2, <3>1 DEF Taken, Passed
    <3>4. QED BY <2>3, <3>1, <3>2, <3>3 DEF UseTaken
  <2>7. QED BY <2>1, <2>3, <2>6 DEF InTurn
<1>3. CASE NextInstr
  <2>1. at' = <<at[1], at[2] + 1, 1>> /\ useReg' = EBX
    BY <1>3 DEF NextInstr
  <2>2. at[1] \in Nat \ {0} /\ at[2] + 1 \in Nat \ {0}
    BY <1>1 DEF Typed
  <2>3. InInstr' => \A n \in DOMAIN mi'.was : ~ UseTaken(n)'
    BY <2>1, <2>2, NoneTaken
  <2>4. QED BY <1>1, <2>1, <2>3 DEF InTurn
<1>4. CASE NextBlock
  <2>1. at' = <<at[1] + 1, 1, 1>> /\ useReg' = useReg /\ ~ InInstr
    BY <1>4 DEF NextBlock
  <2>2. useReg' = EBX
    BY <1>1, <2>1 DEF InTurn
  <2>3. at[1] + 1 \in Nat \ {0} /\ 1 \in Nat \ {0}
    BY <1>1
  <2>4. InInstr' => \A n \in DOMAIN mi'.was : ~ UseTaken(n)'
    BY <2>1, <2>3, NoneTaken
  <2>5. QED BY <1>1, <2>2, <2>4 DEF InTurn
<1>5. QED BY <1>2, <1>3, <1>4 DEF Walk

-----------------------------------------------------------------------------
(***************************************************************************)
(* The invariant of the pass is one.                                       *)
(***************************************************************************)
LEMMA InitInv ==
  ASSUME Init
  PROVE  IInv
<1>1. /\ fn \in Functions /\ at = <<1, 1, 1>> /\ useReg = EBX /\ regMap = << >> /\ slots = 0
      /\ code = [b \in DOMAIN fn.code |-> [k \in DOMAIN fn.code[b] |-> Instruction(b, k)]]
  BY DEF Init
<1>2. /\ fn.code \in Seq(Seq(Seq(Operand))) /\ fn.code # << >>
      /\ Len(fn.code) \in Nat \ {0} /\ DOMAIN fn.code = 1 .. Len(fn.code)
  <2>1. fn.code \in Seq(Seq(Seq(Operand))) /\ fn.code # << >>
    BY <1>1, FunctionsAssumption
  <2>2. QED BY <2>1
<1>3. /\ DOMAIN code = DOMAIN fn.code
      /\ \A b \in DOMAIN code :
           /\ DOMAIN code[b] = DOMAIN fn.code[b]
           /\ \A k \in DOMAIN code[b] : code[b][k] = Instruction(b, k)
  BY <1>1
<1>4. ASSUME NEW b \in DOMAIN code, NEW k \in DOMAIN code[b]
      PROVE  /\ code[b][k].kind = "instr" /\ code[b][k].id = <<b, k>>
             /\ code[b][k].ops = fn.code[b][k] /\ code[b][k].was = fn.code[b][k]
  <2>1. code[b][k] = Instruction(b, k)
    BY <1>3
  <2>2. QED BY <2>1 DEF Instruction
<1>5. ASSUME NEW b \in DOMAIN code
      PROVE  /\ b \in Nat /\ fn.code[b] \in Seq(Seq(Operand)) /\ code[b] \in Seq(Item)
             /\ DOMAIN code[b] = 1 .. Len(fn.code[b]) /\ DOMAIN code[b] \subseteq Nat \ {0}
  <2>1. b \in Nat /\ fn.code[b] \in Seq(Seq(Operand))
    BY <1>2, <1>3
  <2>2. Len(fn.code[b]) \in Nat /\ DOMAIN fn.code[b] = 1 .. Len(fn.code[b])
    BY <2>1, SeqType
  <2>3. ASSUME NEW k \in DOMAIN code[b] PROVE code[b][k] \in Item
    <3>1. k \in DOMAIN fn.code[b] /\ fn.code[b][k] \in Seq(Operand) /\ k \in Nat
      BY <1>3, <2>1, <2>2
    <3>2. fn.code[b][k] \in Seq([def : BOOLEAN, reg : Register])
      <4>1. Operand \subseteq [def : BOOLEAN, reg : Register]
        <5>1. PReg \subseteq Machine
          BY DEF Machine
        <5>2. QED BY <5>1 DEF Operand, Register
      <4>2. PICK T : T = [def : BOOLEAN, reg : Register]
        OBVIOUS
      <4>3. PICK ops \in Seq(Operand) : ops = fn.code[b][k]
        BY <3>1
      <4>4. Len(ops) \in Nat /\ ops \in [1 .. Len(ops) -> T]
        BY <4>1, <4>2, <4>3, SeqType
      <4>5. ops \in Seq(T)
        BY <4>4
      <4>6. QED BY <4>2, <4>3, <4>5
    <3>3. <<b, k>> \in Nat \X Nat /\ -1 \in Int
      BY <2>1, <3>1
    <3>4. code[b][k] = Instruction(b, k)
      BY <1>3
    <3>5. QED BY <3>1, <3>2, <3>3, <3>4 DEF Instruction, Item
  <2>4. code[b] = [k \in 1 .. Len(fn.code[b]) |-> Instruction(b, k)]
    BY <1>1, <1>3, <2>2
  <2>5. \A k \in 1 .. Len(fn.code[b]) : Instruction(b, k) \in Item
    BY <1>3, <2>2, <2>3
  <2>6. code[b] \in Seq(Item)
    BY <2>2, <2>4, <2>5
  <2>7. QED BY <1>3, <2>1, <2>2, <2>6
<1>6. code \in Seq(Seq(Item)) /\ Len(code) = Len(fn.code)
  <2>1. PICK len \in Nat : len = Len(fn.code)
    BY <1>2
  <2>2. PICK list : list = code
    OBVIOUS
  <2>3. list = [b \in 1 .. len |-> list[b]] /\ \A b \in 1 .. len : list[b] \in Seq(Item)
    BY <1>1, <1>2, <1>3, <1>5, <2>1, <2>2
  <2>4. list \in Seq(Seq(Item)) /\ Len(list) = len
    BY <2>3
  <2>5. QED BY <2>1, <2>2, <2>4
<1>7. Typed
  BY <1>1, <1>2, <1>6 DEF Typed
<1>8. ASSUME NEW b \in DOMAIN code, NEW k \in DOMAIN code[b], NEW n
      PROVE  ~ Taken(b, k, n)
  <2>1. SUFFICES ASSUME n \in DOMAIN code[b][k].was PROVE ~ Passed(b, k, n)
    BY DEF Taken
  <2>2. code[b][k] \in Item
    BY <1>7, CodeType
  <2>3. b \in Nat /\ b > 0 /\ k \in Nat /\ k > 0 /\ n \in Nat /\ n > 0
    BY <1>2, <1>3, <1>5, <2>1, <2>2, ItemType
  <2>4. QED BY <1>1, <2>3 DEF Passed
<1>9. Shaped
  <2>1. ASSUME NEW b \in DOMAIN code, NEW k \in DOMAIN code[b] PROVE IsInstr(b, k)
    <3>1. \A n : ~ Taken(b, k, n)
      BY <1>8
    <3>2. code[b][k].id[2] = k
      BY <1>4
    <3>3. QED BY <1>3, <1>4, <3>1, <3>2 DEF IsInstr
  <2>2. ASSUME NEW b \in DOMAIN code, NEW k \in DOMAIN code[b]
        PROVE  CASE code[b][k].kind = "instr" -> IsInstr(b, k)
                 [] code[b][k].kind = "load" -> IsLoad(code[b][k])
                 [] code[b][k].kind = "store" -> IsStore(code[b][k])
    BY <1>4, <2>1
  <2>3. QED BY <2>2 DEF Shaped
<1>10. Kept
  <2>1. ASSUME NEW b \in DOMAIN code, NEW m \in DOMAIN fn.code[b]
        PROVE  \E k \in Own(b) : code[b][k].id[2] = m
    BY <1>3, <1>4 DEF Own
  <2>2. ASSUME NEW b \in DOMAIN code, NEW j \in Own(b), NEW k \in Own(b), j < k
        PROVE  code[b][j].id[2] < code[b][k].id[2]
    BY <1>4, <2>2 DEF Own
  <2>3. QED BY <2>1, <2>2 DEF Kept
<1>11. SlotsApart
  <2>1. ASSUME NEW p \in Places(code) PROVE code[p[1]][p[2]].kind # "store"
    <3>1. PICK b \in DOMAIN code : \E k \in DOMAIN code[b] : p = <<b, k>>
      BY PlaceParts
    <3>2. QED BY <1>4, <3>1
  <2>2. QED BY <2>1 DEF SlotsApart
<1>12. Stored /\ Loaded
  BY <1>8 DEF Stored, Loaded
<1>13. InTurn
  <2>1. ASSUME InInstr, NEW n \in DOMAIN mi.was PROVE ~ UseTaken(n)
    <3>1. at[1] \in DOMAIN code /\ at[2] \in DOMAIN code[at[1]]
      <4>1. at[1] = 1 /\ at[2] = 1
        BY <1>1
      <4>2. QED BY <1>7, <2>1, <4>1, CodeType DEF InInstr, InBlock
    <3>2. QED BY <1>8, <3>1 DEF UseTaken
  <2>2. useReg # ECX
    BY <1>1 DEF EBX, ECX
  <2>3. QED BY <2>1, <2>2 DEF InTurn
<1>14. QED BY <1>7, <1>9, <1>10, <1>11, <1>12, <1>13 DEF IInv

LEMMA UseInv ==
  ASSUME IInv, Use
  PROVE  IInv'
<1>1. Typed /\ Shaped /\ Kept /\ SlotsApart /\ Stored /\ InTurn /\ (Simple => Loaded)
  BY DEF IInv
<1>2. \E b, k, n, x : UseOf(b, k, n, x)
  BY <1>1, UseStep
<1>3. PICK b, k, n, x : UseOf(b, k, n, x)
  BY <1>2
<1>4. /\ Grown(b, k, n, k, x, useReg) /\ Inserted(x) /\ ~ code[b][k].was[n].def
      /\ DOMAIN regMap' = DOMAIN regMap \cup {code[b][k].was[n].reg}
      /\ regMap' \in [DOMAIN regMap' -> 0 .. slots'] /\ useReg' = ECX /\ slots' = slots
  BY <1>3 DEF UseOf
<1>5. useReg \in Machine /\ useReg \in {EBX, ECX} /\ slots \in Nat /\ fn' = fn
  BY <1>1, <1>4 DEF Typed, Machine, Scratch, Grown
<1>6. Typed'
  BY <1>1, <1>4, <1>5, GrownTyped
<1>7. Shaped'
  BY <1>1, <1>4, <1>5, GrownShaped
<1>8. Kept' /\ SlotsApart'
  BY <1>1, <1>4, <1>5, GrownKept, GrownSlotsApart
<1>9. Stored' /\ InTurn'
  BY <1>1, <1>3, UseStored, UseInTurn
<1>10. Simple' => Loaded'
  <2>1. Simple' => Simple
    BY <1>5 DEF Simple, InOrder, AtMostTwo
  <2>2. QED BY <1>1, <1>3, <2>1, UseLoaded DEF Simple
<1>11. QED BY <1>6, <1>7, <1>8, <1>9, <1>10 DEF IInv

LEMMA DefineInv ==
  ASSUME IInv, Define
  PROVE  IInv'
<1>1. Typed /\ Shaped /\ Kept /\ SlotsApart /\ Stored /\ InTurn /\ (Simple => Loaded)
  BY DEF IInv
<1>2. \E b, k, n, x : DefineOf(b, k, n, x)
  BY <1>1, DefineStep
<1>3. PICK b, k, n, x : DefineOf(b, k, n, x)
  BY <1>2
<1>4. /\ Grown(b, k, n, k + 1, x, EAX) /\ Inserted(x) /\ code[b][k].was[n].def
      /\ DOMAIN regMap' = DOMAIN regMap \cup {code[b][k].was[n].reg}
      /\ regMap' \in [DOMAIN regMap' -> 0 .. slots'] /\ useReg' = useReg /\ slots' = slots + 1
  BY <1>3 DEF DefineOf
<1>5. EAX \in Machine /\ useReg \in {EBX, ECX} /\ slots \in Nat /\ slots' \in Nat /\ fn' = fn
  BY <1>1, <1>4 DEF Typed, Machine, Scratch, Grown
<1>6. Typed'
  BY <1>1, <1>4, <1>5, GrownTyped
<1>7. Shaped'
  BY <1>1, <1>4, <1>5, GrownShaped
<1>8. Kept' /\ SlotsApart'
  BY <1>1, <1>4, <1>5, GrownKept, GrownSlotsApart
<1>9. Stored' /\ InTurn'
  BY <1>1, <1>3, DefineStored, DefineInTurn
<1>10. Simple' => Loaded'
  <2>1. Simple' => Simple
    BY <1>5 DEF Simple, InOrder, AtMostTwo
  <2>2. QED BY <1>1, <1>3, <2>1, DefineLoaded DEF Simple
<1>11. QED BY <1>6, <1>7, <1>8, <1>9, <1>10 DEF IInv

LEMMA WalkInv ==
  ASSUME IInv, Walk
  PROVE  IInv'
<1>1. Typed /\ Shaped /\ Kept /\ SlotsApart /\ Stored /\ InTurn /\ (Simple => Loaded)
  BY DEF IInv
<1>2. fn' = fn /\ code' = code /\ regMap' = regMap /\ slots' = slots
  BY WalkEffect
<1>3. Typed' /\ Shaped' /\ InTurn'
  BY <1>1, WalkTyped, WalkShaped, WalkInTurn
<1>4. Kept'
  BY <1>1, <1>2 DEF Kept, Own
<1>5. SlotsApart'
  BY <1>1, <1>2 DEF SlotsApart
<1>6. Stored'
  <2>1. ASSUME NEW b, NEW k, NEW l, NEW r PROVE StoreOf(b, k, l, r)' <=> StoreOf(b, k, l, r)
    BY <1>2 DEF StoreOf
  <2>2. ASSUME NEW b \in DOMAIN code, NEW k \in DOMAIN code[b], NEW n \in DOMAIN code[b][k].was,
               Taken(b, k, n)', code[b][k].was[n].def
        PROVE  \E l \in DOMAIN code[b] : StoreOf(b, k, l, code[b][k].was[n].reg)'
    <3>1. Taken(b, k, n)
      BY <1>1, <2>2, WalkTaken
    <3>2. PICK r : r = code[b][k].was[n].reg
      OBVIOUS
    <3>3. PICK l \in DOMAIN code[b] : StoreOf(b, k, l, r)
      BY <1>1, <2>2, <3>1, <3>2 DEF Stored
    <3>4. StoreOf(b, k, l, r)'
      BY <2>1, <3>3
    <3>5. QED BY <1>2, <3>2, <3>4
  <2>3. QED BY <1>2, <2>2 DEF Stored
<1>7. Simple' => Loaded'
  <2>1. ASSUME NEW b, NEW k, NEW n, NEW l PROVE LoadOf(b, k, n, l)' <=> LoadOf(b, k, n, l)
    BY <1>2 DEF LoadOf
  <2>2. ASSUME Loaded,
               NEW b \in DOMAIN code, NEW k \in DOMAIN code[b], NEW n \in DOMAIN code[b][k].was,
               Taken(b, k, n)', ~ code[b][k].was[n].def
        PROVE  \E l \in DOMAIN code[b] : LoadOf(b, k, n, l)'
    <3>1. Taken(b, k, n)
      BY <1>1, <2>2, WalkTaken
    <3>2. QED BY <2>1, <2>2, <3>1 DEF Loaded
  <2>3. Simple' => Simple
    BY <1>2 DEF Simple, InOrder, AtMostTwo
  <2>4. QED BY <1>1, <1>2, <2>2, <2>3 DEF Loaded
<1>8. QED BY <1>3, <1>4, <1>5, <1>6, <1>7 DEF IInv

LEMMA IdleInv ==
  ASSUME IInv, UNCHANGED vars
  PROVE  IInv'
<1>1. /\ fn' = fn /\ code' = code /\ at' = at /\ useReg' = useReg /\ regMap' = regMap
      /\ slots' = slots
  BY DEF vars
<1>2. Typed' /\ Kept' /\ SlotsApart' /\ (Simple' => Simple)
  BY <1>1 DEF IInv, Typed, Kept, SlotsApart, Own, Simple, InOrder, AtMostTwo
<1>3. ASSUME NEW b, NEW k, NEW n PROVE Taken(b, k, n)' <=> Taken(b, k, n)
  BY <1>1 DEF Taken, Passed
<1>4. Shaped'
  BY <1>1, <1>3, SameShape DEF IInv
<1>5. Stored'
  BY <1>1, <1>3 DEF IInv, Stored, StoreOf
<1>6. Simple' => Loaded'
  BY <1>1, <1>2, <1>3 DEF IInv, Loaded, LoadOf
<1>7. InTurn'
  <2>1. (InInstr' <=> InInstr) /\ mi' = mi
    BY <1>1 DEF InInstr, InBlock, mi
  <2>2. \A n : UseTaken(n)' <=> UseTaken(n)
    BY <1>1, <2>1 DEF UseTaken, Taken, Passed
  <2>3. QED BY <1>1, <2>1, <2>2 DEF IInv, InTurn
<1>8. QED BY <1>2, <1>4, <1>5, <1>6, <1>7 DEF IInv

LEMMA StepInv ==
  ASSUME IInv, [Next]_vars
  PROVE  IInv'
BY UseInv, DefineInv, WalkInv, IdleInv DEF Next, Walk

\* Every state of a run of the pass has the invariant.
THEOREM AllocationInv == Spec => []IInv
<1>1. Init => IInv
  BY InitInv
<1>2. IInv /\ [Next]_vars => IInv'
  BY StepInv
<1>3. QED BY <1>1, <1>2, PTL DEF Spec

-----------------------------------------------------------------------------
(***************************************************************************)
(* What the pass promises.                                                 *)
(***************************************************************************)

\* Running what was allocated changes none of it.
LEMMA ExecuteKeeps ==
  ASSUME Execute
  PROVE  UNCHANGED <<fn, code, at, useReg, regMap, slots>>
BY DEF Execute, Start, Load, Store, Operate, Jump, vars

LEMMA ExecStep ==
  ASSUME [ExecNext]_execVars
  PROVE  [Next]_vars
BY ExecuteKeeps DEF ExecNext, Compile, execVars, vars

\* The invariant of the pass, while it is going on and when its result is run.
THEOREM ExecAllocationInv == ExecSpec => []IInv
<1>1. ExecInit => IInv
  BY InitInv DEF ExecInit
<1>2. IInv /\ [ExecNext]_execVars => IInv'
  BY StepInv, ExecStep
<1>3. QED BY <1>1, <1>2, PTL DEF ExecSpec

LEMMA TypeFromInv ==
  ASSUME IInv
  PROVE  TypeOK
<1>1. Typed /\ Shaped /\ Kept
  BY DEF IInv
<1>2. DOMAIN code = DOMAIN fn.code
  BY <1>1, CodeType
<1>3. ASSUME NEW b \in DOMAIN code
      PROVE  /\ {code[b][k].id : k \in Own(b)} = {b} \X DOMAIN fn.code[b]
             /\ \A k \in Own(b) : code[b][k].was = fn.code[b][code[b][k].id[2]]
             /\ \A j, k \in Own(b) : j < k => code[b][j].id[2] < code[b][k].id[2]
  <2>1. \A k \in Own(b) : IsInstr(b, k)
    BY <1>1 DEF Own, Shaped
  <2>2. \A m \in DOMAIN fn.code[b] : \E k \in Own(b) : code[b][k].id[2] = m
    BY <1>1 DEF Kept
  <2>3. ASSUME NEW k \in Own(b) PROVE code[b][k].id \in {b} \X DOMAIN fn.code[b]
    <3>1. code[b][k].id = <<b, code[b][k].id[2]>> /\ code[b][k].id[2] \in DOMAIN fn.code[b]
      BY <2>1 DEF IsInstr
    <3>2. <<b, code[b][k].id[2]>> \in {b} \X DOMAIN fn.code[b]
      BY <3>1
    <3>3. QED BY <3>1, <3>2
  <2>4. ASSUME NEW i \in {b} \X DOMAIN fn.code[b] PROVE \E k \in Own(b) : code[b][k].id = i
    <3>1. i = <<b, i[2]>> /\ i[2] \in DOMAIN fn.code[b]
      OBVIOUS
    <3>2. PICK k \in Own(b) : code[b][k].id[2] = i[2]
      BY <2>2, <3>1
    <3>3. code[b][k].id = <<b, code[b][k].id[2]>>
      BY <2>1 DEF IsInstr
    <3>4. QED BY <3>1, <3>2, <3>3
  <2>5. {code[b][k].id : k \in Own(b)} = {b} \X DOMAIN fn.code[b]
    BY <2>3, <2>4
  <2>6. \A k \in Own(b) : code[b][k].was = fn.code[b][code[b][k].id[2]]
    BY <2>1 DEF IsInstr
  <2>7. QED BY <1>1, <2>5, <2>6 DEF Kept
<1>4. at[1] \in 1 .. Len(code) + 1 /\ useReg \in {EBX, ECX}
  BY <1>1 DEF Typed
<1>5. \A r \in DOMAIN regMap : r \in VReg /\ regMap[r] \in 0 .. slots
  BY <1>1 DEF Typed
<1>6. QED BY <1>2, <1>3, <1>4, <1>5 DEF TypeOK

\* When the loops have ended every operand has been taken.
LEMMA AllTaken ==
  ASSUME Typed, Shaped, Done, NEW b \in DOMAIN code, NEW k \in DOMAIN code[b],
         NEW n \in DOMAIN code[b][k].was, code[b][k].was[n].reg \in VReg
  PROVE  Taken(b, k, n)
<1>1. b \in 1 .. Len(code) /\ Len(code) \in Nat /\ at[1] \in Nat /\ ~ (at[1] <= Len(code))
  BY CodeType DEF Done, InBlock, Typed
<1>2. QED BY <1>1 DEF Taken, Passed

LEMMA AllocatedFromInv ==
  ASSUME IInv
  PROVE  AllAllocated
<1>1. Typed /\ Shaped
  BY DEF IInv
<1>2. SUFFICES ASSUME Done, NEW b \in DOMAIN code, NEW k \in DOMAIN code[b],
                      NEW n \in DOMAIN code[b][k].ops
               PROVE  code[b][k].ops[n].reg \in Machine
  BY DEF AllAllocated
<1>3. CASE code[b][k].kind = "instr"
  <2>1. IsInstr(b, k)
    BY <1>1, <1>3 DEF Shaped
  <2>2. n \in DOMAIN code[b][k].was
    BY <2>1 DEF IsInstr
  <2>3. CASE code[b][k].was[n].reg \in VReg
    <3>1. Taken(b, k, n)
      BY <1>1, <1>2, <2>2, <2>3, AllTaken
    <3>2. code[b][k].ops[n].reg \in {EAX} \/ code[b][k].ops[n].reg \in {EBX, ECX}
      BY <2>1, <2>2, <3>1 DEF IsInstr
    <3>3. QED BY <3>2 DEF Machine, Scratch
  <2>4. CASE code[b][k].was[n].reg \notin VReg
    <3>1. ~ Taken(b, k, n)
      BY <2>4 DEF Taken
    <3>2. code[b][k].ops[n].reg = code[b][k].was[n].reg
      BY <2>1, <2>2, <3>1 DEF IsInstr
    <3>3. code[b][k].was[n].reg \in PReg
      BY <1>1, <2>2, <2>4, CodeType, ItemType
    <3>4. QED BY <3>2, <3>3 DEF Machine
  <2>5. QED BY <2>3, <2>4
<1>4. CASE code[b][k].kind = "load"
  <2>1. IsLoad(code[b][k])
    BY <1>1, <1>4 DEF Shaped
  <2>2. PICK q \in {EBX, ECX} : code[b][k].ops = <<[def |-> TRUE, reg |-> q]>>
    BY <2>1 DEF IsLoad
  <2>3. n = 1
    BY <1>2, <2>2
  <2>4. QED BY <2>2, <2>3 DEF Machine, Scratch
<1>5. CASE code[b][k].kind = "store"
  <2>1. IsStore(code[b][k])
    BY <1>1, <1>5 DEF Shaped
  <2>2. code[b][k].ops = <<[def |-> FALSE, reg |-> EAX]>>
    BY <2>1 DEF IsStore
  <2>3. n = 1
    BY <1>2, <2>2
  <2>4. QED BY <2>2, <2>3 DEF Machine, Scratch
<1>6. QED BY <1>1, <1>3, <1>4, <1>5, CodeType, ItemType

\* The program being rewritten is still the program: every block has its
\* instructions, each once and in order, among the loads and stores that were
\* inserted.
THEOREM TypeCorrect == ExecSpec => []TypeOK
BY ExecAllocationInv, TypeFromInv, PTL

\* The loops reach every operand, although they walk the very lists that grow
\* under them: at the end no virtual register is left.
THEOREM AllAllocatedCorrect == ExecSpec => []AllAllocated
BY ExecAllocationInv, AllocatedFromInv, PTL

\* No two stores are into one slot.
THEOREM SlotsApartCorrect == ExecSpec => []SlotsApart
<1>1. IInv => SlotsApart
  BY DEF IInv
<1>2. QED BY ExecAllocationInv, <1>1, PTL

-----------------------------------------------------------------------------
(***************************************************************************)
(* Running what was allocated.                                             *)
(***************************************************************************)
LEMMA SamePlaces ==
  ASSUME Execute
  PROVE  /\ \A b, k, l, r : StoreOf(b, k, l, r)' <=> StoreOf(b, k, l, r)
         /\ \A b, k, n, l : LoadOf(b, k, n, l)' <=> LoadOf(b, k, n, l)
         /\ Plain' <=> Plain
<1>1. fn' = fn /\ code' = code /\ regMap' = regMap
  BY ExecuteKeeps
<1>2. QED BY <1>1 DEF StoreOf, LoadOf, Plain, Simple, InOrder, AtMostTwo, OneInEAX, Apart

LEMMA AtItemType ==
  ASSUME IInv, Running, AtItem
  PROVE  /\ pc = <<pc[1], pc[2]>> /\ pc[1] \in DOMAIN code /\ pc[2] \in DOMAIN code[pc[1]]
         /\ pc[1] \in Nat /\ pc[2] \in Nat
         /\ item \in Item /\ item = code[pc[1]][pc[2]]
         /\ item.kind = "load" => IsLoad(item) /\ reg \in {EBX, ECX}
         /\ item.kind = "store" => IsStore(item) /\ reg = EAX
         /\ item.kind = "instr" => IsInstr(pc[1], pc[2])
<1>1. pc = <<pc[1], pc[2]>> /\ pc[1] \in DOMAIN code /\ pc[2] \in DOMAIN code[pc[1]]
      /\ pc[1] \in Nat /\ pc[2] \in Nat
  <2>1. Len(code[pc[1]]) \in Nat /\ DOMAIN code[pc[1]] = 1 .. Len(code[pc[1]])
    BY CodeType DEF Running, IInv
  <2>2. QED BY <2>1 DEF Running, AtItem
<1>2. item \in Item /\ item = code[pc[1]][pc[2]]
  BY <1>1, CodeType DEF item, IInv
<1>3. /\ item.kind = "load" => IsLoad(item)
      /\ item.kind = "store" => IsStore(item)
      /\ item.kind = "instr" => IsInstr(pc[1], pc[2])
  BY <1>1, <1>2 DEF IInv, Shaped
<1>4. item.kind = "load" => reg \in {EBX, ECX}
  <2>1. SUFFICES ASSUME IsLoad(item) PROVE reg \in {EBX, ECX}
    BY <1>3
  <2>2. PICK q \in {EBX, ECX} : item.ops = <<[def |-> TRUE, reg |-> q]>>
    BY <2>1 DEF IsLoad
  <2>3. QED BY <2>2 DEF reg
<1>5. item.kind = "store" => reg = EAX
  <2>1. SUFFICES ASSUME IsStore(item) PROVE reg = EAX
    BY <1>3
  <2>2. item.ops = <<[def |-> FALSE, reg |-> EAX]>>
    BY <2>1 DEF IsStore
  <2>3. QED BY <2>2 DEF reg
<1>6. QED BY <1>1, <1>2, <1>3, <1>4, <1>5

\* A definition that is now in EAX was of a virtual register, or of EAX.
LEMMA ItemDefinition ==
  ASSUME IInv, Running, AtItem, item.kind = "instr", NEW n \in DOMAIN item.ops,
         item.ops[n].def
  PROVE  /\ n \in DOMAIN item.was /\ item.was[n].def
         /\ item.was[n].reg \in VReg => item.ops[n].reg = EAX
         /\ item.was[n].reg \notin VReg =>
              item.was[n].reg \in PReg /\ item.ops[n].reg = item.was[n].reg
<1>1. Typed /\ Shaped /\ Done
  BY DEF IInv, Running
<1>2. PICK b, k : b = pc[1] /\ k = pc[2]
  OBVIOUS
<1>3. b \in DOMAIN code /\ k \in DOMAIN code[b] /\ item = code[b][k] /\ IsInstr(b, k)
  BY <1>2, AtItemType
<1>4. n \in DOMAIN item.was /\ item.was[n].def
  BY <1>3 DEF IsInstr
<1>5. CASE item.was[n].reg \in VReg
  <2>1. Taken(b, k, n)
    BY <1>1, <1>3, <1>4, <1>5, AllTaken
  <2>2. item.ops[n].reg \in {EAX}
    BY <1>3, <1>4, <2>1 DEF IsInstr
  <2>3. QED BY <1>4, <1>5, <2>2
<1>6. CASE item.was[n].reg \notin VReg
  <2>1. ~ Taken(b, k, n)
    BY <1>3, <1>6 DEF Taken
  <2>2. item.ops[n].reg \in {item.was[n].reg}
    BY <1>3, <1>4, <2>1 DEF IsInstr
  <2>3. item.was[n].reg \in PReg
    BY <1>1, <1>3, <1>4, <1>6, CodeType, ItemType
  <2>4. QED BY <1>4, <1>6, <2>2, <2>3
<1>7. QED BY <1>5, <1>6

\* What an instruction leaves in a machine register is one of its results.
LEMMA ItemResult ==
  ASSUME IInv, Running, Operate
  PROVE  /\ held' \in [Machine -> Values]
         /\ \A m \in Machine : m \notin Defined(item.ops) => held'[m] = held[m]
         /\ \A m \in Machine \cap Defined(item.ops) :
              \E r \in Defined(item.was) :
                /\ held'[m] = Value(item.id, r)
                /\ IF m = EAX THEN r \in VReg \cup {EAX} ELSE r = m
<1>1. AtItem /\ item.kind = "instr" /\ item \in Item /\ item.id \in Nat \X Nat
  BY AtItemType, ItemType DEF Operate
<1>2. PICK n \in [Defined(item.ops) -> DOMAIN item.ops] :
        /\ \A m \in Defined(item.ops) : item.ops[n[m]].def /\ item.ops[n[m]].reg = m
        /\ held' = [m \in Machine |-> IF m \in Defined(item.ops)
                                      THEN Value(item.id, item.was[n[m]].reg)
                                      ELSE held[m]]
  BY DEF Operate, Stays
<1>3. ASSUME NEW m \in Machine \cap Defined(item.ops)
      PROVE  /\ item.was[n[m]].reg \in Defined(item.was) \cap Register
             /\ IF m = EAX THEN item.was[n[m]].reg \in VReg \cup {EAX}
                           ELSE item.was[n[m]].reg = m
  <2>1. n[m] \in DOMAIN item.ops /\ item.ops[n[m]].def /\ item.ops[n[m]].reg = m
    BY <1>2
  <2>2. /\ n[m] \in DOMAIN item.was /\ item.was[n[m]].def
        /\ item.was[n[m]].reg \in VReg => m = EAX
        /\ item.was[n[m]].reg \notin VReg => item.was[n[m]].reg = m
    BY <1>1, <2>1, ItemDefinition
  <2>3. item.was[n[m]].reg \in Defined(item.was)
    BY <2>2 DEF Defined
  <2>4. QED BY <2>2, <2>3 DEF Register
<1>4. ASSUME NEW r \in Register PROVE Value(item.id, r) \in Values
  BY <1>1 DEF Value, Values
<1>5. held \in [Machine -> Values]
  BY DEF Running
<1>6. held' \in [Machine -> Values]
  BY <1>2, <1>3, <1>4, <1>5
<1>7. ASSUME NEW m \in Machine \cap Defined(item.ops)
      PROVE  \E r \in Defined(item.was) :
               /\ held'[m] = Value(item.id, r)
               /\ IF m = EAX THEN r \in VReg \cup {EAX} ELSE r = m
  <2>1. held'[m] = Value(item.id, item.was[n[m]].reg)
    BY <1>2
  <2>2. QED BY <1>3, <2>1
<1>8. \A m \in Machine : m \notin Defined(item.ops) => held'[m] = held[m]
  BY <1>2
<1>9. QED BY <1>6, <1>7, <1>8

LEMMA EntryType ==
  ASSUME NEW r \in VReg \cup Machine
  PROVE  AtEntry(r) \in Values
<1>1. Value(Nothing, r) \in Nat \X Nat \X Register
  BY DEF Value, Nothing, Register
<1>2. QED BY <1>1 DEF AtEntry, Values

LEMMA RunningStart ==
  ASSUME IInv, Start, last = [r \in VReg \cup PReg |-> AtEntry(r)],
         held = [m \in Machine |-> AtEntry(m)]
  PROVE  Running'
<1>1. /\ code' = code /\ at' = at /\ slots' = slots /\ last' = last /\ held' = held
      /\ Done /\ pc' = <<1, 1>> /\ stack' = [s \in 0 .. slots - 1 |-> Nothing]
  BY ExecuteKeeps DEF Start, Execute
<1>2. 1 \in DOMAIN code /\ Len(code[1]) \in Nat
  <2>1. 1 \in DOMAIN code
    BY CodeType DEF IInv
  <2>2. QED BY <2>1, CodeType DEF IInv
<1>3. Nothing \in Values
  BY DEF Values
<1>4. Done'
  BY <1>1 DEF Done, InBlock
<1>5. last \in [VReg \cup PReg -> Values] /\ held \in [Machine -> Values]
  BY EntryType DEF Machine
<1>6. QED BY <1>1, <1>2, <1>3, <1>4, <1>5 DEF Running

LEMMA RunningStep ==
  ASSUME IInv, Running, Load \/ Store \/ Operate
  PROVE  /\ Running' /\ AtItem /\ pc' = <<pc[1], pc[2] + 1>>
<1>1. /\ code' = code /\ at' = at /\ slots' = slots /\ AtItem /\ pc' = <<pc[1], pc[2] + 1>>
  BY ExecuteKeeps DEF Execute, Load, Store, Operate, Step
<1>2. /\ pc[1] \in DOMAIN code /\ pc[2] \in DOMAIN code[pc[1]] /\ pc[1] \in Nat /\ pc[2] \in Nat
      /\ item \in Item
  BY <1>1, AtItemType
<1>3. DOMAIN code[pc[1]] = 1 .. Len(code[pc[1]]) /\ Len(code[pc[1]]) \in Nat
  BY <1>2, CodeType DEF IInv
<1>4. /\ pc' \in Nat \X Nat /\ pc'[1] \in DOMAIN code' /\ pc'[2] \in 1 .. Len(code'[pc'[1]]) + 1
  BY <1>1, <1>2, <1>3
<1>5. Done'
  BY <1>1 DEF Done, InBlock, Running
<1>6. /\ last \in [VReg \cup PReg -> Values] /\ held \in [Machine -> Values]
      /\ stack \in [0 .. slots - 1 -> Values] /\ Nothing \in Values
  BY DEF Running, Values
<1>7. /\ last' \in [VReg \cup PReg -> Values] /\ held' \in [Machine -> Values]
      /\ stack' \in [0 .. slots - 1 -> Values]
  <2>1. CASE Load
    <3>1. /\ last' = last /\ stack' = stack
          /\ held' = [held EXCEPT ![reg] = IF item.slot \in DOMAIN stack
                                           THEN stack[item.slot] ELSE Nothing]
      BY <2>1 DEF Load
    <3>2. (IF item.slot \in DOMAIN stack THEN stack[item.slot] ELSE Nothing) \in Values
      BY <1>6
    <3>3. QED BY <1>6, <3>1, <3>2
  <2>2. CASE Store
    <3>1. last' = last /\ held' = held /\ stack' = [stack EXCEPT ![item.slot] = held[reg]]
      BY <2>2 DEF Store
    <3>2. reg \in Machine
      BY <1>1, <2>2, AtItemType DEF Store, Machine, Scratch
    <3>3. QED BY <1>6, <3>1, <3>2
  <2>3. CASE Operate
    <3>1. item.id \in Nat \X Nat
      BY <1>2, ItemType
    <3>2. \A r \in VReg \cup PReg : Value(item.id, r) \in Values
      BY <3>1 DEF Value, Values, Register, Machine
    <3>3. stack' = stack
          /\ last' = [r \in VReg \cup PReg |->
                       IF r \in Defined(item.was) THEN Value(item.id, r) ELSE last[r]]
      BY <2>3 DEF Operate
    <3>4. held' \in [Machine -> Values]
      BY <2>3, ItemResult
    <3>5. QED BY <1>6, <3>2, <3>3, <3>4
  <2>4. QED BY <2>1, <2>2, <2>3
<1>8. QED BY <1>1, <1>4, <1>5, <1>7 DEF Running

LEMMA RunningJump ==
  ASSUME IInv, Running, Jump
  PROVE  Running' /\ pc'[2] = 1 /\ \A b, k, l : InRow(b, k, l) => l \notin DOMAIN code[b]
<1>1. /\ code' = code /\ at' = at /\ slots' = slots /\ last' = last /\ held' = held
      /\ stack' = stack /\ pc[2] > Len(code[pc[1]])
  BY ExecuteKeeps DEF Execute, Jump
<1>2. PICK d \in fn.succ[pc[1]] : pc' = <<d, 1>>
  BY DEF Jump
<1>3. d \in DOMAIN code
  <2>1. fn \in Functions /\ pc[1] \in DOMAIN fn.code /\ DOMAIN fn.code = DOMAIN code
    BY CodeType DEF Running, IInv, Typed
  <2>2. QED BY <2>1, FunctionsAssumption
<1>4. d \in Nat /\ Len(code[d]) \in Nat
  BY <1>3, CodeType DEF IInv
<1>5. Running'
  BY <1>1, <1>2, <1>3, <1>4 DEF Running, Done, InBlock
<1>6. ASSUME NEW b, NEW k, NEW l, InRow(b, k, l) PROVE l \notin DOMAIN code[b]
  <2>1. Len(code[pc[1]]) \in Nat /\ DOMAIN code[pc[1]] = 1 .. Len(code[pc[1]]) /\ pc[2] \in Nat
    BY CodeType DEF Running, IInv
  <2>2. QED BY <1>1, <1>6, <2>1 DEF InRow
<1>7. QED BY <1>2, <1>5, <1>6

\* Every definition has been stored, and the store has its row.
LEMMA DefinitionRow ==
  ASSUME IInv, NEW b \in DOMAIN code, NEW k \in DOMAIN code[b], NEW l, NEW r, StoreOf(b, k, l, r),
         code[b][k].kind = "instr"
  PROVE  /\ b \in Nat /\ k \in Nat /\ k > 0 /\ l \in DOMAIN code[b] /\ l \in Nat /\ k < l
         /\ code[b][l].kind = "store" /\ code[b][l].slot = regMap[r]
         /\ regMap[r] \in 0 .. slots - 1
         /\ \A i \in Nat : k < i /\ i <= l => code[b][i].kind = "store"
<1>1. /\ l \in DOMAIN code[b] /\ k < l /\ code[b][l].slot = regMap[r]
      /\ \A i \in k + 1 .. l : code[b][i].kind = "store"
  BY DEF StoreOf
<1>2. b \in Nat /\ k \in Nat /\ k > 0 /\ l \in Nat
  <2>1. DOMAIN code = 1 .. Len(code) /\ DOMAIN code[b] = 1 .. Len(code[b])
    BY CodeType DEF IInv
  <2>2. QED BY <1>1, <2>1
<1>3. \A i \in Nat : k < i /\ i <= l => code[b][i].kind = "store"
  BY <1>1, <1>2
<1>4. code[b][l].kind = "store"
  BY <1>1, <1>2, <1>3
<1>5. IsStore(code[b][l])
  BY <1>1, <1>4 DEF IInv, Shaped
<1>6. QED BY <1>1, <1>2, <1>3, <1>4, <1>5 DEF IsStore

LEMMA FreshStart ==
  ASSUME IInv, Start, last = [r \in VReg \cup PReg |-> AtEntry(r)]
  PROVE  Fresh'
<1>1. /\ code' = code /\ regMap' = regMap /\ last' = last /\ pc' = <<1, 1>>
      /\ stack' = [s \in 0 .. slots - 1 |-> Nothing]
  BY ExecuteKeeps DEF Start, Execute
<1>2. ASSUME NEW b \in DOMAIN code, NEW k \in DOMAIN code[b], NEW n \in DOMAIN code[b][k].was,
             code[b][k].was[n].reg \in VReg, NEW r, r = code[b][k].was[n].reg,
             NEW l, StoreOf(b, k, l, r)
      PROVE  FreshAt(b, k, l, r)'
  <2>1. code[b][k].kind = "instr"
    BY InstrType DEF IInv
  <2>2. k \in Nat /\ k > 0 /\ regMap[r] \in 0 .. slots - 1
    BY <1>2, <2>1, DefinitionRow
  <2>3. ~ InRow(b, k, l)'
    BY <1>1, <2>2 DEF InRow
  <2>4. stack'[regMap'[r]] = last'[r]
    <3>1. last[r] = Nothing
      BY <1>2, FunctionsAssumption DEF AtEntry, Machine
    <3>2. QED BY <1>1, <2>2, <3>1
  <2>5. QED BY <2>3, <2>4 DEF FreshAt
<1>3. \A b, k, l, r : StoreOf(b, k, l, r)' <=> StoreOf(b, k, l, r)
  BY SamePlaces DEF Execute
<1>4. QED BY <1>1, <1>2, <1>3 DEF Fresh

LEMMA FreshStep ==
  ASSUME IInv, OneInEAX, Running, Fresh, Load \/ Store \/ Operate
  PROVE  Fresh'
<1>1. /\ code' = code /\ regMap' = regMap /\ AtItem /\ pc' = <<pc[1], pc[2] + 1>>
      /\ Typed /\ Shaped /\ Kept
  BY ExecuteKeeps, RunningStep DEF Execute, IInv
<1>2. /\ pc[1] \in DOMAIN code /\ pc[2] \in DOMAIN code[pc[1]] /\ pc[1] \in Nat /\ pc[2] \in Nat
      /\ item = code[pc[1]][pc[2]]
  BY <1>1, AtItemType
<1>3. ASSUME NEW b \in DOMAIN code, NEW k \in DOMAIN code[b], NEW n \in DOMAIN code[b][k].was,
             code[b][k].was[n].def, code[b][k].was[n].reg \in VReg,
             NEW r, r = code[b][k].was[n].reg, NEW l, StoreOf(b, k, l, r)
      PROVE  FreshAt(b, k, l, r)'
  <2>1. code[b][k].kind = "instr" /\ IsInstr(b, k)
    BY <1>1, InstrType
  <2>2. /\ b \in Nat /\ k \in Nat /\ k > 0 /\ l \in DOMAIN code[b] /\ l \in Nat /\ k < l
        /\ code[b][l].kind = "store" /\ code[b][l].slot = regMap[r]
        /\ regMap[r] \in 0 .. slots - 1
        /\ \A i \in Nat : k < i /\ i <= l => code[b][i].kind = "store"
    BY <1>3, <2>1, DefinitionRow
  <2>3. FreshAt(b, k, l, r)
    BY <1>3, <2>2 DEF Fresh
  <2>4. InRow(b, k, l) => item.kind = "store"
    BY <1>2, <2>2 DEF InRow
  <2>5. InRow(b, k, l)' => InRow(b, k, l) \/ (pc[1] = b /\ pc[2] = k)
    BY <1>1, <1>2, <2>2 DEF InRow
  <2>6. InRow(b, k, l) => InRow(b, k, l)' \/ pc[2] = l
    BY <1>1, <1>2, <2>2 DEF InRow
  <2>7. CASE Load
    <3>1. item.kind = "load" /\ last' = last /\ stack' = stack
      BY <2>7 DEF Load
    <3>2. ~ InRow(b, k, l) /\ ~ InRow(b, k, l)'
      BY <1>2, <2>1, <2>4, <2>5, <3>1
    <3>3. QED BY <1>1, <2>3, <3>1, <3>2 DEF FreshAt
  <2>8. CASE Store
    <3>1. /\ item.kind = "store" /\ last' = last /\ held' = held
          /\ stack' = [stack EXCEPT ![item.slot] = held[reg]]
      BY <2>8 DEF Store
    <3>2. reg = EAX /\ stack \in [0 .. slots - 1 -> Values]
      BY <1>1, <3>1, AtItemType DEF Running
    <3>3. CASE InRow(b, k, l) /\ InRow(b, k, l)'
      BY <1>1, <2>3, <3>1, <3>3 DEF FreshAt
    <3>4. CASE InRow(b, k, l) /\ ~ InRow(b, k, l)'
      <4>1. pc[1] = b /\ pc[2] = l
        BY <2>6, <3>4 DEF InRow
      <4>2. item.slot = regMap[r]
        BY <1>2, <2>2, <4>1
      <4>3. stack'[regMap[r]] = held[EAX]
        BY <2>2, <3>1, <3>2, <4>2
      <4>4. QED BY <1>1, <2>3, <3>1, <3>4, <4>3 DEF FreshAt
    <3>5. CASE ~ InRow(b, k, l)
      <4>1. ~ InRow(b, k, l)'
        BY <1>2, <2>1, <2>5, <3>1, <3>5
      <4>2. item.slot # regMap[r]
        <5>1. SUFFICES ASSUME item.slot = regMap[r] PROVE FALSE
          OBVIOUS
        <5>2. <<pc[1], pc[2]>> \in Places(code) /\ <<b, l>> \in Places(code)
          BY <1>2, <2>2, PlaceParts
        <5>3. <<pc[1], pc[2]>> = <<b, l>>
          BY <1>2, <2>2, <3>1, <5>1, <5>2 DEF IInv, SlotsApart
        <5>4. pc[1] = b /\ pc[2] = l
          BY <5>3
        <5>5. QED BY <2>2, <3>5, <5>4 DEF InRow
      <4>3. stack'[regMap[r]] = stack[regMap[r]]
        BY <2>2, <3>1, <3>2, <4>2
      <4>4. QED BY <1>1, <2>3, <3>1, <3>5, <4>1, <4>3 DEF FreshAt
    <3>6. QED BY <3>3, <3>4, <3>5
  <2>9. CASE Operate
    <3>1. /\ item.kind = "instr" /\ stack' = stack
          /\ last' = [s \in VReg \cup PReg |->
                       IF s \in Defined(item.was) THEN Value(item.id, s) ELSE last[s]]
      BY <2>9 DEF Operate
    <3>2. ~ InRow(b, k, l)
      BY <2>4, <3>1
    <3>3. CASE pc[1] = b /\ pc[2] = k
      <4>1. item = code[b][k]
        BY <1>2, <3>3
      <4>2. r \in Defined(item.was)
        BY <1>3, <4>1 DEF Defined
      <4>3. EAX \in Defined(item.ops) /\ EAX \in Machine
        <5>1. Taken(b, k, n)
          BY <1>1, <1>3, AllTaken DEF Running
        <5>2. n \in DOMAIN item.ops /\ item.ops[n].def /\ item.ops[n].reg = EAX
          BY <1>3, <2>1, <4>1, <5>1 DEF IsInstr
        <5>3. QED BY <5>2 DEF Defined, Machine, Scratch
      <4>4. last'[r] = Value(item.id, r)
        BY <1>3, <3>1, <4>2
      <4>7. PICK s \in Defined(item.was) :
              held'[EAX] = Value(item.id, s) /\ s \in VReg \cup {EAX}
        BY <2>9, <4>3, ItemResult
      <4>8. s = r
        <5>1. <<b, item.id[2]>> \in Places(fn.code) /\ item.was = fn.code[b][item.id[2]]
          <6>1. b \in DOMAIN fn.code
            BY <1>1, CodeType DEF Typed
          <6>2. item.id[2] \in DOMAIN fn.code[b] /\ item.was = fn.code[b][item.id[2]]
            BY <2>1, <4>1 DEF IsInstr
          <6>3. QED BY <6>1, <6>2 DEF Places
        <5>2. \A x, y \in Defined(item.was) \cap (VReg \cup {EAX}) : x = y
          BY <5>1 DEF OneInEAX
        <5>3. QED BY <1>3, <4>2, <4>7, <5>2
      <4>5. InRow(b, k, l)'
        BY <1>1, <2>2, <3>3 DEF InRow
      <4>6. QED BY <1>1, <4>4, <4>5, <4>7, <4>8 DEF FreshAt
    <3>4. CASE ~ (pc[1] = b /\ pc[2] = k)
      <4>1. ~ InRow(b, k, l)'
        BY <2>5, <3>2, <3>4
      <4>2. r \notin Defined(item.was)
        <5>1. SUFFICES ASSUME r \in Defined(item.was) PROVE FALSE
          OBVIOUS
        <5>2. PICK o \in DOMAIN item.was : item.was[o].def /\ item.was[o].reg = r
          BY <5>1 DEF Defined
        <5>3. pc[1] = b /\ pc[2] = k
          BY <1>1, <1>2, <1>3, <5>2, OneDefinition
        <5>4. QED BY <3>4, <5>3
      <4>3. last'[r] = last[r]
        BY <1>3, <3>1, <4>2
      <4>4. QED BY <1>1, <2>3, <3>1, <3>2, <4>1, <4>3 DEF FreshAt
    <3>5. QED BY <3>3, <3>4
  <2>10. QED BY <2>7, <2>8, <2>9
<1>4. \A b, k, l, r : StoreOf(b, k, l, r)' <=> StoreOf(b, k, l, r)
  BY SamePlaces DEF Execute
<1>5. QED BY <1>1, <1>3, <1>4 DEF Fresh

LEMMA FreshJump ==
  ASSUME IInv, Running, Fresh, Jump
  PROVE  Fresh'
<1>1. /\ code' = code /\ regMap' = regMap /\ last' = last /\ stack' = stack /\ pc'[2] = 1
      /\ \A b, k, l : InRow(b, k, l) => l \notin DOMAIN code[b]
  BY ExecuteKeeps, RunningJump DEF Jump, Execute
<1>2. ASSUME NEW b \in DOMAIN code, NEW k \in DOMAIN code[b], NEW n \in DOMAIN code[b][k].was,
             code[b][k].was[n].def, code[b][k].was[n].reg \in VReg,
             NEW r, r = code[b][k].was[n].reg, NEW l, StoreOf(b, k, l, r)
      PROVE  FreshAt(b, k, l, r)'
  <2>1. k \in Nat /\ k > 0 /\ l \in DOMAIN code[b]
    <3>1. code[b][k].kind = "instr"
      BY InstrType DEF IInv
    <3>2. QED BY <1>2, <3>1, DefinitionRow
  <2>2. ~ InRow(b, k, l) /\ ~ InRow(b, k, l)'
    BY <1>1, <2>1 DEF InRow
  <2>3. FreshAt(b, k, l, r)
    BY <1>2, <2>1 DEF Fresh
  <2>4. QED BY <1>1, <2>2, <2>3 DEF FreshAt
<1>3. \A b, k, l, r : StoreOf(b, k, l, r)' <=> StoreOf(b, k, l, r)
  BY SamePlaces DEF Execute
<1>4. QED BY <1>1, <1>2, <1>3 DEF Fresh

\* A register that is used has a fresh slot wherever a load may be.
LEMMA SlotFresh ==
  ASSUME IInv, InOrder, Running, Fresh, AtItem, item.kind = "load",
         NEW b \in DOMAIN code, NEW k \in DOMAIN code[b], NEW n \in DOMAIN code[b][k].was,
         ~ code[b][k].was[n].def, NEW r \in VReg, r = code[b][k].was[n].reg
  PROVE  regMap[r] \in 0 .. slots - 1 /\ stack[regMap[r]] = last[r]
<1>1. Typed /\ Shaped /\ Kept /\ Stored /\ Done
  BY DEF IInv, Running
<1>2. \E d \in DOMAIN code : \E j \in DOMAIN code[d] : \E o \in DOMAIN code[d][j].was :
        code[d][j].was[o].def /\ code[d][j].was[o].reg = r
  BY <1>1, DefinedBefore
<1>3. PICK d \in DOMAIN code : \E j \in DOMAIN code[d] : \E o \in DOMAIN code[d][j].was :
        code[d][j].was[o].def /\ code[d][j].was[o].reg = r
  BY <1>2
<1>4. PICK j \in DOMAIN code[d] : \E o \in DOMAIN code[d][j].was :
        code[d][j].was[o].def /\ code[d][j].was[o].reg = r
  BY <1>3
<1>5. PICK o \in DOMAIN code[d][j].was : code[d][j].was[o].def /\ code[d][j].was[o].reg = r
  BY <1>4
<1>6. Taken(d, j, o) /\ code[d][j].kind = "instr"
  BY <1>1, <1>5, AllTaken, InstrType
<1>7. PICK l \in DOMAIN code[d] : StoreOf(d, j, l, r)
  BY <1>1, <1>5, <1>6 DEF Stored
<1>8. /\ regMap[r] \in 0 .. slots - 1
      /\ \A i \in Nat : j < i /\ i <= l => code[d][i].kind = "store"
      /\ j \in Nat /\ l \in Nat
  BY <1>6, <1>7, DefinitionRow
<1>9. FreshAt(d, j, l, r)
  BY <1>5, <1>7 DEF Fresh
<1>10. ~ InRow(d, j, l)
  <2>1. item = code[pc[1]][pc[2]] /\ pc[2] \in Nat
    BY AtItemType
  <2>2. QED BY <1>8, <2>1 DEF InRow
<1>11. QED BY <1>8, <1>9, <1>10 DEF FreshAt

\* An instruction and its loads.
LEMMA UseRow ==
  ASSUME IInv, NEW b \in DOMAIN code, NEW k \in DOMAIN code[b], NEW n \in DOMAIN code[b][k].was,
         NEW l, LoadOf(b, k, n, l)
  PROVE  /\ k \in Nat /\ l \in DOMAIN code[b] /\ l \in Nat /\ l > 0 /\ l < k
         /\ code[b][l].kind = "load" /\ code[b][l].slot = regMap[code[b][k].was[n].reg]
         /\ code[b][l].ops[1].reg = code[b][k].ops[n].reg
         /\ \A i \in Nat : l < i /\ i < k =>
              code[b][i].kind = "load" /\ code[b][i].ops[1].reg # code[b][k].ops[n].reg
<1>1. /\ l \in DOMAIN code[b] /\ l < k
      /\ code[b][l].kind = "load" /\ code[b][l].slot = regMap[code[b][k].was[n].reg]
      /\ code[b][l].ops[1].reg = code[b][k].ops[n].reg
      /\ \A i \in l + 1 .. k - 1 :
           code[b][i].kind = "load" /\ code[b][i].ops[1].reg # code[b][k].ops[n].reg
  BY DEF LoadOf
<1>2. k \in Nat /\ l \in Nat /\ l > 0
  <2>1. DOMAIN code[b] = 1 .. Len(code[b])
    BY CodeType DEF IInv
  <2>2. QED BY <1>1, <2>1
<1>3. \A i \in Nat : l < i /\ i < k => i \in l + 1 .. k - 1
  BY <1>2
<1>4. QED BY <1>1, <1>2, <1>3

LEMMA PhysicalStep ==
  ASSUME IInv, Running, PhysicalKept, Load \/ Store \/ Operate
  PROVE  PhysicalKept'
<1>1. SUFFICES ASSUME NEW m \in PReg \ Scratch PROVE held'[m] = last'[m]
  BY DEF PhysicalKept
<1>2. AtItem /\ held \in [Machine -> Values] /\ m \in Machine /\ m \notin VReg
  BY FunctionsAssumption DEF Load, Store, Operate, Running, Machine
<1>3. held[m] = last[m]
  BY DEF PhysicalKept
<1>4. CASE Load
  <2>1. last' = last /\ \E v : held' = [held EXCEPT ![reg] = v]
    BY <1>4 DEF Load
  <2>2. reg # m
    BY <1>2, <1>4, AtItemType DEF Load, Scratch
  <2>3. QED BY <1>2, <1>3, <2>1, <2>2
<1>5. CASE Store
  BY <1>3, <1>5 DEF Store
<1>6. CASE Operate
  <2>1. item.kind = "instr"
    BY <1>6 DEF Operate
  <2>2. last'[m] = IF m \in Defined(item.was) THEN Value(item.id, m) ELSE last[m]
    BY <1>6 DEF Operate
  <2>3. m # EAX
    BY DEF Scratch
  <2>4. CASE m \in Defined(item.ops)
    BY <1>2, <1>6, <2>2, <2>3, <2>4, ItemResult
  <2>5. CASE m \notin Defined(item.ops)
    <3>1. m \notin Defined(item.was)
      <4>1. SUFFICES ASSUME m \in Defined(item.was) PROVE FALSE
        OBVIOUS
      <4>2. PICK n \in DOMAIN item.was : item.was[n].def /\ item.was[n].reg = m
        BY <4>1 DEF Defined
      <4>3. IsInstr(pc[1], pc[2]) /\ item = code[pc[1]][pc[2]]
        BY <1>2, <2>1, AtItemType
      <4>4. n \in DOMAIN item.ops /\ item.ops[n].def
        BY <4>2, <4>3 DEF IsInstr
      <4>5. ~ Taken(pc[1], pc[2], n)
        BY <1>2, <4>2, <4>3 DEF Taken
      <4>6. item.ops[n].reg = m
        BY <4>2, <4>3, <4>5 DEF IsInstr
      <4>7. QED BY <2>5, <4>4, <4>6 DEF Defined
    <3>2. QED BY <1>2, <1>3, <1>6, <2>2, <2>5, <3>1, ItemResult
  <2>6. QED BY <2>4, <2>5
<1>7. QED BY <1>4, <1>5, <1>6

LEMMA ReadyFirst ==
  ASSUME IInv, Start \/ Jump, pc'[2] = 1
  PROVE  Ready'
<1>1. code' = code /\ \A b, k, n, l : LoadOf(b, k, n, l)' <=> LoadOf(b, k, n, l)
  BY ExecuteKeeps, SamePlaces DEF Execute
<1>2. ASSUME NEW b \in DOMAIN code, NEW k \in DOMAIN code[b], NEW n \in DOMAIN code[b][k].was,
             NEW l, LoadOf(b, k, n, l), pc'[2] \in l + 1 .. k
      PROVE  FALSE
  BY <1>2, UseRow
<1>3. QED BY <1>1, <1>2 DEF Ready

LEMMA ReadyStep ==
  ASSUME IInv, InOrder, Running, Fresh, Ready, Load \/ Store \/ Operate
  PROVE  Ready'
<1>1. /\ code' = code /\ regMap' = regMap /\ AtItem /\ pc' = <<pc[1], pc[2] + 1>>
      /\ \A b, k, n, l : LoadOf(b, k, n, l)' <=> LoadOf(b, k, n, l)
  BY ExecuteKeeps, RunningStep, SamePlaces DEF Execute
<1>2. /\ pc[1] \in DOMAIN code /\ pc[2] \in DOMAIN code[pc[1]] /\ pc[1] \in Nat /\ pc[2] \in Nat
      /\ item = code[pc[1]][pc[2]] /\ item \in Item
  BY <1>1, AtItemType
<1>3. ASSUME NEW b \in DOMAIN code, NEW k \in DOMAIN code[b], NEW n \in DOMAIN code[b][k].was,
             ~ code[b][k].was[n].def, code[b][k].was[n].reg \in VReg,
             NEW l, LoadOf(b, k, n, l), pc'[1] = b, pc'[2] \in l + 1 .. k
      PROVE  held'[code[b][k].ops[n].reg] = last'[code[b][k].was[n].reg]
  <2>1. /\ k \in Nat /\ l \in DOMAIN code[b] /\ l \in Nat /\ l > 0 /\ l < k
        /\ code[b][l].kind = "load" /\ code[b][l].slot = regMap[code[b][k].was[n].reg]
        /\ code[b][l].ops[1].reg = code[b][k].ops[n].reg
        /\ \A i \in Nat : l < i /\ i < k =>
             code[b][i].kind = "load" /\ code[b][i].ops[1].reg # code[b][k].ops[n].reg
    BY <1>3, UseRow
  <2>2. pc[1] = b /\ (pc[2] = l \/ (l < pc[2] /\ pc[2] < k))
    BY <1>1, <1>2, <1>3, <2>1
  <2>3. item.kind = "load"
    BY <1>2, <2>1, <2>2
  <2>4. /\ last' = last
        /\ held' = [held EXCEPT ![reg] = IF item.slot \in DOMAIN stack
                                         THEN stack[item.slot] ELSE Nothing]
    BY <2>3 DEF Load, Store, Operate
  <2>5. reg \in Machine /\ reg = item.ops[1].reg
    BY <1>1, <2>3, AtItemType DEF Machine, Scratch, reg
  <2>6. held \in [Machine -> Values] /\ stack \in [0 .. slots - 1 -> Values]
    BY DEF Running
  <2>7. CASE pc[2] = l
    <3>1. item = code[b][l]
      BY <1>2, <2>2, <2>7
    <3>2. PICK r \in VReg : r = code[b][k].was[n].reg
      BY <1>3
    <3>3. regMap[r] \in 0 .. slots - 1 /\ stack[regMap[r]] = last[r]
      BY <1>1, <1>3, <2>3, <3>2, SlotFresh
    <3>4. held'[reg] = last[r]
      BY <2>1, <2>4, <2>5, <2>6, <3>1, <3>2, <3>3
    <3>5. QED BY <2>1, <2>4, <2>5, <3>1, <3>2, <3>4
  <2>8. CASE l < pc[2] /\ pc[2] < k
    <3>1. reg # code[b][k].ops[n].reg
      BY <1>2, <2>1, <2>2, <2>5, <2>8
    <3>2. held[code[b][k].ops[n].reg] = last[code[b][k].was[n].reg]
      <4>1. pc[2] \in l + 1 .. k
        BY <1>2, <2>1, <2>8
      <4>2. QED BY <1>3, <2>1, <2>2, <4>1 DEF Ready
    <3>3. held'[code[b][k].ops[n].reg] = held[code[b][k].ops[n].reg]
      <4>1. code[b][k].ops[n].reg \in Machine
        <5>1. code[b][l] \in Item /\ IsLoad(code[b][l])
          BY <2>1, CodeType DEF IInv, Shaped
        <5>2. PICK q \in {EBX, ECX} : code[b][l].ops = <<[def |-> TRUE, reg |-> q]>>
          BY <5>1 DEF IsLoad
        <5>3. code[b][l].ops[1].reg = q
          BY <5>2
        <5>4. QED BY <2>1, <5>3 DEF Machine, Scratch
      <4>2. QED BY <2>4, <2>6, <3>1, <4>1
    <3>4. QED BY <2>4, <3>2, <3>3
  <2>9. QED BY <2>2, <2>7, <2>8
<1>4. QED BY <1>1, <1>3 DEF Ready

-----------------------------------------------------------------------------
(***************************************************************************)
(* The invariant of what is run is one.                                    *)
(***************************************************************************)
LEMMA PassOver ==
  ASSUME Done
  PROVE  ~ Next
BY DEF Done, Next, Physical, Use, Define, NextInstr, NextBlock, InOperand, InInstr

LEMMA ExecInvStep ==
  ASSUME IInv, ExecInv, [ExecNext]_execVars
  PROVE  ExecInv'
<1>1. IInv'
  BY StepInv, ExecStep
<1>2. CASE Compile
  <2>1. pc' = pc /\ last' = last /\ held' = held /\ stack' = stack
    BY <1>2 DEF Compile
  <2>2. pc = Nothing
    <3>1. ~ Running
      BY <1>2, PassOver DEF Compile, Running
    <3>2. QED BY <3>1 DEF ExecInv
  <2>3. QED BY <2>1, <2>2 DEF ExecInv
<1>3. CASE UNCHANGED execVars
  <2>1. /\ fn' = fn /\ code' = code /\ at' = at /\ useReg' = useReg /\ regMap' = regMap
        /\ slots' = slots /\ pc' = pc /\ last' = last /\ held' = held /\ stack' = stack
    BY <1>3 DEF execVars, vars
  <2>2. Running' <=> Running
    BY <2>1 DEF Running, Done, InBlock
  <2>3. Plain' <=> Plain
    BY <2>1 DEF Plain, Simple, InOrder, AtMostTwo, OneInEAX, Apart
  <2>4. (Fresh' <=> Fresh) /\ (PhysicalKept' <=> PhysicalKept)
    BY <2>1 DEF Fresh, FreshAt, InRow, StoreOf, PhysicalKept
  <2>5. Ready' <=> Ready
    BY <2>1 DEF Ready, LoadOf
  <2>6. QED BY <2>1, <2>2, <2>3, <2>4, <2>5 DEF ExecInv
<1>4. CASE Start
  <2>1. pc = Nothing /\ pc' = <<1, 1>> /\ pc'[2] = 1
    BY <1>4 DEF Start
  <2>2. /\ last = [r \in VReg \cup PReg |-> AtEntry(r)]
        /\ held = [m \in Machine |-> AtEntry(m)]
    BY <2>1 DEF ExecInv
  <2>3. Running' /\ Fresh' /\ Ready'
    BY <1>4, <2>1, <2>2, RunningStart, FreshStart, ReadyFirst
  <2>4. pc' # Nothing
    BY <2>1 DEF Nothing
  <2>5. PhysicalKept'
    BY <1>4, <2>2 DEF PhysicalKept, Start, Machine
  <2>6. QED BY <2>3, <2>4, <2>5 DEF ExecInv
<1>5. CASE Load \/ Store \/ Operate
  <2>1. pc # Nothing
    BY <1>5 DEF Load, Store, Operate, AtItem
  <2>2. Running /\ PhysicalKept /\ (Plain => Fresh /\ Ready)
    BY <2>1 DEF ExecInv
  <2>3. Running' /\ PhysicalKept' /\ (Plain => Fresh' /\ Ready')
    BY <1>5, <2>2, RunningStep, PhysicalStep, FreshStep, ReadyStep DEF Plain, Simple
  <2>4. Plain' <=> Plain
    BY <1>5, SamePlaces DEF Execute
  <2>5. pc' # Nothing
    <3>1. pc' = <<pc[1], pc[2] + 1>> /\ pc[2] \in Nat
      BY <1>5, <2>2, RunningStep DEF Running
    <3>2. QED BY <3>1 DEF Nothing
  <2>6. QED BY <2>3, <2>4, <2>5 DEF ExecInv
<1>6. CASE Jump
  <2>1. pc # Nothing
    BY <1>6 DEF Jump
  <2>2. Running /\ PhysicalKept /\ (Plain => Fresh /\ Ready)
    BY <2>1 DEF ExecInv
  <2>3. Running' /\ pc'[2] = 1 /\ PhysicalKept'
    BY <1>6, <2>2, RunningJump DEF Jump, PhysicalKept
  <2>4. Plain => Fresh' /\ Ready'
    BY <1>6, <2>2, <2>3, FreshJump, ReadyFirst
  <2>5. Plain' <=> Plain
    BY <1>6, SamePlaces DEF Execute
  <2>6. pc' # Nothing
    BY <2>3 DEF Nothing
  <2>7. QED BY <2>3, <2>4, <2>5, <2>6 DEF ExecInv
<1>7. QED BY <1>2, <1>3, <1>4, <1>5, <1>6 DEF ExecNext, Execute

LEMMA ValuesFromInv ==
  ASSUME IInv, ExecInv
  PROVE  SimpleValuesKept
<1>1. SUFFICES ASSUME Plain, AtItem, item.kind = "instr", NEW n \in DOMAIN item.was,
                      ~ item.was[n].def
               PROVE  held[item.ops[n].reg] = last[item.was[n].reg]
  BY DEF SimpleValuesKept, ValuesKept, Plain, Simple
<1>2. Running /\ PhysicalKept /\ Ready /\ Typed /\ Shaped /\ Loaded
  BY <1>1 DEF ExecInv, AtItem, IInv, Plain
<1>3. PICK b, k : b = pc[1] /\ k = pc[2]
  OBVIOUS
<1>4. /\ b \in DOMAIN code /\ k \in DOMAIN code[b] /\ k \in Nat /\ item = code[b][k]
      /\ IsInstr(b, k)
  BY <1>1, <1>2, <1>3, AtItemType
<1>5. CASE item.was[n].reg \in VReg
  <2>1. Taken(b, k, n)
    BY <1>1, <1>2, <1>4, <1>5, AllTaken DEF Running
  <2>2. PICK l \in DOMAIN code[b] : LoadOf(b, k, n, l)
    BY <1>1, <1>2, <1>4, <1>5, <2>1 DEF Loaded
  <2>3. l \in Nat /\ l < k
    BY <1>1, <1>4, <2>2, UseRow
  <2>4. pc[2] \in l + 1 .. k
    BY <1>3, <1>4, <2>3
  <2>5. QED BY <1>1, <1>2, <1>3, <1>4, <1>5, <2>2, <2>4 DEF Ready
<1>6. CASE item.was[n].reg \notin VReg
  <2>1. ~ Taken(b, k, n)
    BY <1>4, <1>6 DEF Taken
  <2>2. item.ops[n].reg = item.was[n].reg
    BY <1>1, <1>4, <2>1 DEF IsInstr
  <2>3. item.was[n].reg \in PReg
    BY <1>1, <1>2, <1>4, <1>6, CodeType, ItemType
  <2>4. item.was[n].reg \notin Scratch
    <3>1. b \in DOMAIN fn.code
      BY <1>2, <1>4, CodeType DEF Typed
    <3>2. item.id[2] \in DOMAIN fn.code[b] /\ item.was = fn.code[b][item.id[2]]
      BY <1>4 DEF IsInstr
    <3>3. <<b, item.id[2]>> \in Places(fn.code)
      BY <3>1, <3>2 DEF Places
    <3>4. QED BY <1>1, <3>2, <3>3 DEF Plain, Apart
  <2>5. QED BY <1>2, <2>2, <2>3, <2>4 DEF PhysicalKept
<1>7. QED BY <1>5, <1>6

\* Where definitions are before their uses, no instruction uses more than two
\* virtual registers or has two results to be put in EAX, and none uses EAX, EBX
\* or ECX by name: whatever path is taken and however often, every instruction
\* finds in its operands what it would have found before the allocation.
THEOREM SimpleValuesKeptCorrect == ExecSpec => []SimpleValuesKept
<1>1. ExecInit => IInv /\ ExecInv
  BY InitInv DEF ExecInit, ExecInv
<1>2. IInv /\ ExecInv /\ [ExecNext]_execVars => (IInv /\ ExecInv)'
  BY StepInv, ExecStep, ExecInvStep
<1>3. IInv /\ ExecInv => SimpleValuesKept
  BY ValuesFromInv
<1>4. QED BY <1>1, <1>2, <1>3, PTL DEF ExecSpec

=============================================================================
