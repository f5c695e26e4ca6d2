------------------------ MODULE ManagedStaticProofs ------------------------
(***************************************************************************)
(* Theorems about ManagedStatic, for any threads and any finite set of     *)
(* statics that use one another in any way without a circle.               *)
(***************************************************************************)
EXTENDS ManagedStatic, SequenceTheorems, TLAPS

-----------------------------------------------------------------------------
(***************************************************************************)
(* The inductive invariant.                                                *)
(***************************************************************************)
\* Where a thread has the mutex, and how often it has it.
Holding == {"check", "create", "publish", "enlist", "loop", "delete", "clear"}
Holds(T) ==
  IF T = << >> THEN 0 ELSE IF T[1].at \in Holding THEN Len(T) ELSE Len(T) - 1

\* The statics of the calls that are at a place.
In(S, place) ==
  {s \in Static : \E t \in Thread : \E k \in DOMAIN S[t] : S[t][k].at = place /\ S[t][k].s = s}

Creating == In(stack, "create")
Publishing == In(stack, "publish")
Enlisting == In(stack, "enlist")
Destroying == In(stack, "delete")
Clearing == In(stack, "clear")

\* Those on the list.
Listed == Ptr \ (Enlisting \cup Destroying \cup Clearing)

\* Which statics a call may use.
Allowed(P, f) ==
  CASE f.at = "create" -> P.needs[f.s]
    [] f.at = "delete" -> P.wants[f.s]
    [] OTHER -> {}

Rank(P) == CHOOSE rank \in Ranks(P) : TRUE

\* One static only of a call that uses another, ...
CallWell(P, T, k) ==
  /\ k > 1 => T[k].at \in {"create", "delete"}
  /\ T[k].at \in Shutdown => k = Len(T)
  /\ T[k].s = None <=> T[k].at \in {"shutdown", "loop"}
  /\ T[k].todo \subseteq Allowed(P, T[k])
  /\ k < Len(T) => T[k].s \in Allowed(P, T[k + 1])
  /\ \A j \in 1 .. k - 1 : Rank(P)[T[j].s] < Rank(P)[T[k].s]

StackWell(P, T) == \A k \in DOMAIN T : CallWell(P, T, k)
CallsWell == \A t \in Thread : StackWell(prog, stack[t])

\* The mutex is held as often as the calls of its holder say.
Counted ==
  /\ depth \in Nat /\ (depth = 0 <=> holder = None)
  /\ \A t \in Thread : Holds(stack[t]) = IF holder = t THEN depth ELSE 0

\* What is there, and whose pointer is set, between the steps of an access or
\* a destruction.
Pointed ==
  /\ Creating \cap Ptr = {} /\ Publishing \cap Ptr = {}
  /\ Enlisting \cup Destroying \cup Clearing \subseteq Ptr
  /\ \A s \in Static : objects[s] = IF s \in Publishing \cup (Ptr \ Clearing) THEN 1 ELSE 0
  /\ \A w \in unseen : stack[w[1]] # << >> /\ stack[w[1]][1].at = "publish" /\ stack[w[1]][1].s = w[2]

\* From first, next leads through L, which is X, and what a constructor has
\* used is behind what it made.
Chain(P, first, next, X, L) ==
  /\ first = IF L = << >> THEN None ELSE L[1]
  /\ \A i \in DOMAIN L : next[L[i]] = IF i = Len(L) THEN None ELSE L[i + 1]
  /\ \A i, j \in DOMAIN L : L[i] = L[j] => i = j
  /\ X = {L[i] : i \in DOMAIN L}
  /\ \A i \in DOMAIN L : \A n \in P.needs[L[i]] : \E j \in DOMAIN L : j > i /\ L[j] = n

ListWell == \E L \in Seq(Static) : Chain(prog, StaticList, Next, Listed, L)

\* What the constructor of a call has used so far is on the list, and what it
\* is just given.
NeedMet(P, X, T, k) ==
  /\ T[k].at \in {"create", "publish", "enlist"} =>
       \A n \in P.needs[T[k].s] \ T[k].todo : n \in X \/ (k > 1 /\ T[k - 1].s = n)
  /\ T[k].at = "return" /\ Len(T) > 1 => T[k].s \in X

NeedsMet == \A t \in Thread : \A k \in DOMAIN stack[t] : NeedMet(prog, Listed, stack[t], k)

\* Beside an access that has not overlapped nobody shuts down.
ShutsDown(T) == \E k \in DOMAIN T : T[k].at \in {"loop", "delete", "clear"}

Undisturbed ==
  \A t \in Thread \ overlap : stack[t] # << >> =>
    /\ stack[t][1].at # "shutdown" => \A u \in Thread \ {t} : ~ ShutsDown(stack[u])
    /\ stack[t][1].at = "return" => stack[t][1].s \in Ptr

IInv == TypeOK /\ CallsWell /\ Counted /\ Pointed /\ ListWell /\ NeedsMet /\ Undisturbed

-----------------------------------------------------------------------------
(***************************************************************************)
(* What the steps do to stacks.                                            *)
(***************************************************************************)
Stacks == stack \in [Thread -> Seq(Frame)]

LEMMA RankType ==
  ASSUME NEW P \in Programs
  PROVE  /\ Rank(P) \in [Static -> Int]
         /\ P.needs \in [Static -> SUBSET Static] /\ P.wants \in [Static -> SUBSET Static]
         /\ \A s \in Static : \A n \in P.needs[s] \cup P.wants[s] : Rank(P)[n] < Rank(P)[s]
<1>1. Rank(P) \in Ranks(P)
  BY ProgramsAssumption DEF Rank
<1>2. P \in Program
  BY ProgramsAssumption
<1>3. QED BY <1>1, <1>2 DEF Ranks, Program

\* The innermost call is the first of the stack.
LEMMA Innermost ==
  ASSUME Stacks, NEW t \in Thread
  PROVE  /\ Len(stack[t]) \in Nat /\ DOMAIN stack[t] = 1 .. Len(stack[t])
         /\ Idle(t) <=> Len(stack[t]) = 0
         /\ ~ Idle(t) => 1 \in DOMAIN stack[t] /\ Head(stack[t]) = stack[t][1]
         /\ \A k \in DOMAIN stack[t] : stack[t][k] \in Frame
<1>1. stack[t] \in Seq(Frame)
  BY DEF Stacks
<1>2. QED BY <1>1 DEF Idle

LEMMA StartEffect ==
  ASSUME Stacks, NEW t \in Thread, Idle(t), NEW f \in Frame, Push(t, f)
  PROVE  /\ Stacks'
         /\ \A u \in Thread \ {t} : stack'[u] = stack[u]
         /\ stack'[t] = << f >>
<1>1. << f >> \o << >> = << f >> /\ << f >> \in Seq(Frame)
  OBVIOUS
<1>2. QED BY <1>1 DEF Stacks, Idle, Push

LEMMA GotoEffect ==
  ASSUME Stacks, NEW t \in Thread, ~ Idle(t), NEW f \in Frame, Goto(t, f)
  PROVE  /\ Stacks'
         /\ \A u \in Thread \ {t} : stack'[u] = stack[u]
         /\ Len(stack'[t]) = Len(stack[t]) /\ DOMAIN stack'[t] = DOMAIN stack[t]
         /\ ~ Idle(t)' /\ stack'[t][1] = f
         /\ \A k \in DOMAIN stack[t] : k > 1 => stack'[t][k] = stack[t][k]
<1> DEFINE tail == Tail(stack[t])
<1>1. /\ stack[t] \in Seq(Frame) /\ stack[t] # << >>
      /\ tail \in Seq(Frame) /\ Len(tail) = Len(stack[t]) - 1
      /\ \A k \in 1 .. Len(tail) : tail[k] = stack[t][k + 1]
  BY HeadTailProperties DEF Stacks, Idle
<1>2. /\ << f >> \o tail \in Seq(Frame)
      /\ Len(<< f >> \o tail) = Len(stack[t])
      /\ (<< f >> \o tail)[1] = f
      /\ \A k \in 2 .. Len(stack[t]) : (<< f >> \o tail)[k] = stack[t][k]
  <2>1. << f >> \in Seq(Frame) /\ Len(<< f >>) = 1 /\ << f >>[1] = f
    OBVIOUS
  <2> HIDE DEF tail
  <2>2. QED BY <1>1, <2>1, ConcatProperties
<1>3. stack'[t] = << f >> \o tail
  BY DEF Goto, Stacks
<1>4. Stacks' /\ \A u \in Thread \ {t} : stack'[u] = stack[u]
  BY <1>2 DEF Goto, Stacks
<1> HIDE DEF tail
<1>5. DOMAIN stack[t] = 1 .. Len(stack[t]) /\ DOMAIN stack'[t] = 1 .. Len(stack'[t])
  BY <1>1, <1>2, <1>3
<1>6. Len(stack[t]) \in Nat /\ Len(stack[t]) # 0
  BY <1>1
<1>7. QED BY <1>2, <1>3, <1>4, <1>5, <1>6 DEF Idle

LEMMA UseEffect ==
  ASSUME Stacks, NEW t \in Thread, ~ Idle(t), NEW f \in Frame, NEW g \in Frame,
         stack' = [stack EXCEPT ![t] = << f, g >> \o Tail(@)]
  PROVE  /\ Stacks'
         /\ \A u \in Thread \ {t} : stack'[u] = stack[u]
         /\ Len(stack'[t]) = Len(stack[t]) + 1 /\ DOMAIN stack'[t] = 1 .. Len(stack[t]) + 1
         /\ ~ Idle(t)' /\ stack'[t][1] = f /\ stack'[t][2] = g
         /\ \A k \in DOMAIN stack[t] : k > 1 => stack'[t][k + 1] = stack[t][k]
<1> DEFINE tail == Tail(stack[t])
<1>1. /\ stack[t] \in Seq(Frame) /\ stack[t] # << >>
      /\ tail \in Seq(Frame) /\ Len(tail) = Len(stack[t]) - 1
      /\ \A k \in 1 .. Len(tail) : tail[k] = stack[t][k + 1]
  BY HeadTailProperties DEF Stacks, Idle
<1>2. /\ << f, g >> \o tail \in Seq(Frame)
      /\ Len(<< f, g >> \o tail) = Len(stack[t]) + 1
      /\ (<< f, g >> \o tail)[1] = f /\ (<< f, g >> \o tail)[2] = g
      /\ \A k \in 2 .. Len(stack[t]) : (<< f, g >> \o tail)[k + 1] = stack[t][k]
  <2>1. << f, g >> \in Seq(Frame) /\ Len(<< f, g >>) = 2 /\ << f, g >>[1] = f /\ << f, g >>[2] = g
    OBVIOUS
  <2> HIDE DEF tail
  <2>2. QED BY <1>1, <2>1, ConcatProperties
<1>3. stack'[t] = << f, g >> \o tail
  BY DEF Stacks
<1>4. Stacks' /\ \A u \in Thread \ {t} : stack'[u] = stack[u]
  BY <1>2 DEF Stacks
<1> HIDE DEF tail
<1>5. DOMAIN stack[t] = 1 .. Len(stack[t]) /\ DOMAIN stack'[t] = 1 .. Len(stack'[t])
  BY <1>1, <1>2, <1>3
<1>6. Len(stack[t]) \in Nat /\ Len(stack[t]) # 0
  BY <1>1
<1>7. QED BY <1>2, <1>3, <1>4, <1>5, <1>6 DEF Idle

LEMMA PopEffect ==
  ASSUME Stacks, NEW t \in Thread, ~ Idle(t), Pop(t)
  PROVE  /\ Stacks'
         /\ \A u \in Thread \ {t} : stack'[u] = stack[u]
         /\ Len(stack'[t]) = Len(stack[t]) - 1 /\ DOMAIN stack'[t] = 1 .. Len(stack[t]) - 1
         /\ \A k \in DOMAIN stack'[t] : k + 1 \in DOMAIN stack[t] /\ stack'[t][k] = stack[t][k + 1]
<1>1. /\ stack[t] \in Seq(Frame) /\ stack[t] # << >>
      /\ Tail(stack[t]) \in Seq(Frame) /\ Len(Tail(stack[t])) = Len(stack[t]) - 1
      /\ \A k \in 1 .. Len(Tail(stack[t])) : Tail(stack[t])[k] = stack[t][k + 1]
  BY HeadTailProperties DEF Stacks, Idle
<1>2. stack'[t] = Tail(stack[t]) /\ Stacks' /\ \A u \in Thread \ {t} : stack'[u] = stack[u]
  BY <1>1 DEF Pop, Stacks
<1>3. DOMAIN stack[t] = 1 .. Len(stack[t]) /\ DOMAIN stack'[t] = 1 .. Len(stack'[t])
  BY <1>1, <1>2
<1>4. Len(stack[t]) \in Nat
  BY <1>1
<1>5. QED BY <1>1, <1>2, <1>3, <1>4

-----------------------------------------------------------------------------
(***************************************************************************)
(* Stacks stay well formed, and the mutex counts them.                     *)
(***************************************************************************)
LEMMA StartWell ==
  ASSUME NEW P, NEW f \in Frame, f.s = None <=> f.at = "shutdown", f.at \in {"peek", "shutdown"},
         f.todo = {}
  PROVE  StackWell(P, << f >>)
<1> DEFINE U == << f >>
<1>1. Len(U) = 1 /\ DOMAIN U = {1} /\ U[1] = f
  OBVIOUS
<1> HIDE DEF U
<1>2. CallWell(P, U, 1)
  BY <1>1 DEF CallWell
<1>3. StackWell(P, U)
  BY <1>1, <1>2 DEF StackWell
<1>4. QED BY <1>3 DEF U

\* A call goes on: it stays one of the same static, unless it is the only one.
LEMMA GotoWell ==
  ASSUME NEW P, NEW T \in Seq(Frame), NEW U \in Seq(Frame), StackWell(P, T), T # << >>,
         Len(U) = Len(T), \A k \in DOMAIN T : k > 1 => U[k] = T[k],
         U[1].s = None <=> U[1].at \in {"shutdown", "loop"},
         U[1].todo \subseteq Allowed(P, U[1]),
         U[1].s = T[1].s \/ Len(T) = 1,
         U[1].at \in Shutdown => Len(T) = 1
  PROVE  StackWell(P, U)
<1>1. Len(T) \in Nat \ {0} /\ DOMAIN T = 1 .. Len(T) /\ DOMAIN U = 1 .. Len(T)
  OBVIOUS
<1>2. CallWell(P, U, 1)
  <2>1. 1 < Len(T) => 2 \in DOMAIN T /\ U[2] = T[2]
    BY <1>1
  <2>2. 1 < Len(T) => T[1].s \in Allowed(P, T[2])
    BY <1>1 DEF StackWell, CallWell
  <2>3. 1 < Len(U) => U[1].s \in Allowed(P, U[1 + 1])
    BY <1>1, <2>1, <2>2
  <2>4. \A j \in 1 .. 1 - 1 : FALSE
    OBVIOUS
  <2>5. ~ (1 > 1)
    OBVIOUS
  <2>6. QED BY <2>3, <2>4, <2>5 DEF CallWell
<1>3. ASSUME NEW k \in DOMAIN U, k # 1 PROVE CallWell(P, U, k)
  <2>1. k \in DOMAIN T /\ k > 1 /\ U[k] = T[k] /\ Len(T) # 1 /\ CallWell(P, T, k)
    BY <1>1, <1>3 DEF StackWell
  <2>2. k < Len(U) => U[k + 1] = T[k + 1]
    BY <1>1, <2>1
  <2>3. ASSUME NEW j \in 1 .. k - 1 PROVE U[j].s = T[j].s
    <3>1. CASE j = 1
      BY <2>1, <3>1
    <3>2. CASE j # 1
      BY <1>1, <2>1, <3>2
    <3>3. QED BY <3>1, <3>2
  <2>4. QED BY <2>1, <2>2, <2>3 DEF CallWell
<1>4. QED BY <1>2, <1>3 DEF StackWell

\* What a constructor or destructor uses has a lower rank than all that wait
\* for it.
LEMMA UseWell ==
  ASSUME NEW P \in Programs, NEW T \in Seq(Frame), NEW U \in Seq(Frame), StackWell(P, T), T # << >>,
         T[1].at \in {"create", "delete"}, NEW s \in T[1].todo,
         Len(U) = Len(T) + 1, \A k \in DOMAIN T : k > 1 => U[k + 1] = T[k],
         U[1] = Call("peek", s, {}),
         U[2].at = T[1].at, U[2].s = T[1].s, U[2].todo \subseteq T[1].todo
  PROVE  StackWell(P, U)
<1>1. /\ Len(T) \in Nat \ {0} /\ DOMAIN T = 1 .. Len(T) /\ DOMAIN U = 1 .. Len(T) + 1
      /\ 1 \in DOMAIN T /\ T[1] \in Frame /\ CallWell(P, T, 1)
  BY DEF StackWell
<1>2. /\ s \in Static /\ T[1].s \in Static
      /\ s \in Allowed(P, T[1]) /\ Allowed(P, U[2]) = Allowed(P, T[1])
  BY <1>1 DEF CallWell, Frame, Allowed
<1>3. Rank(P) \in [Static -> Int] /\ Rank(P)[s] < Rank(P)[T[1].s]
  <2>1. s \in P.needs[T[1].s] \cup P.wants[T[1].s]
    BY <1>2 DEF Allowed
  <2>2. QED BY <1>2, <2>1, RankType
<1>4. U[1].at = "peek" /\ U[1].s = s /\ U[1].todo = {}
  BY DEF Call
<1>5. CallWell(P, U, 1)
  <2>1. s # None
    BY <1>2, NoneAssumption
  <2>2. U[1].s \in Allowed(P, U[1 + 1])
    BY <1>2, <1>4
  <2>3. \A j \in 1 .. 1 - 1 : FALSE
    OBVIOUS
  <2>4. ~ (1 > 1)
    OBVIOUS
  <2>5. QED BY <1>4, <2>1, <2>2, <2>3, <2>4 DEF CallWell, Shutdown
<1>6. CallWell(P, U, 2)
  <2>1. 2 < Len(U) => U[2].s \in Allowed(P, U[2 + 1])
    <3>1. 2 < Len(U) => 1 < Len(T) /\ 2 \in DOMAIN T
      BY <1>1
    <3>2. 1 < Len(T) => T[1].s \in Allowed(P, T[1 + 1])
      BY <1>1 DEF CallWell
    <3>3. QED BY <3>1, <3>2
  <2>2. U[2].at \in Shutdown => 2 = Len(U)
    BY <1>1 DEF CallWell
  <2>3. U[2].todo \subseteq Allowed(P, U[2]) /\ (U[2].s = None <=> U[2].at \in {"shutdown", "loop"})
    BY <1>1, <1>2 DEF CallWell
  <2>4. \A j \in 1 .. 2 - 1 : Rank(P)[U[j].s] < Rank(P)[U[2].s]
    BY <1>3, <1>4
  <2>5. QED BY <2>1, <2>2, <2>3, <2>4 DEF CallWell
<1>7. ASSUME NEW k \in DOMAIN U, k > 2 PROVE CallWell(P, U, k)
  <2>1. PICK i \in DOMAIN T : i > 1 /\ k = i + 1
    <3>1. k - 1 \in DOMAIN T /\ k - 1 > 1 /\ k = (k - 1) + 1
      BY <1>1, <1>7
    <3>2. QED BY <3>1
  <2>2. U[k] = T[i] /\ CallWell(P, T, i)
    BY <2>1 DEF StackWell
  <2>3. k < Len(U) => i < Len(T) /\ U[k + 1] = T[i + 1]
    <3>1. k < Len(U) => i < Len(T) /\ i + 1 \in DOMAIN T /\ i + 1 > 1
      BY <1>1, <2>1
    <3>2. QED BY <2>1, <3>1
  <2>4. i = Len(T) => k = Len(U)
    BY <2>1
  <2>5. ASSUME NEW j \in 1 .. k - 1 PROVE Rank(P)[U[j].s] < Rank(P)[T[i].s]
    <3>1. Rank(P)[T[1].s] < Rank(P)[T[i].s]
      <4>1. 1 \in 1 .. i - 1
        BY <1>1, <2>1
      <4>2. QED BY <2>2, <4>1 DEF CallWell
    <3>2. CASE j = 1
      <4>1. T[i].s \in Static
        <5>1. T[i] \in Frame /\ T[i].at \in {"create", "delete"}
          BY <2>1, <2>2 DEF CallWell
        <5>2. QED BY <2>2, <5>1 DEF CallWell, Frame
      <4>2. Rank(P)[T[i].s] \in Int /\ Rank(P)[T[1].s] \in Int /\ Rank(P)[s] \in Int
        BY <1>2, <1>3, <4>1
      <4>3. QED BY <1>3, <1>4, <3>1, <3>2, <4>2
    <3>3. CASE j = 2
      BY <3>1, <3>3
    <3>4. CASE j > 2
      <4>1. PICK m \in DOMAIN T : m > 1 /\ j = m + 1 /\ m \in 1 .. i - 1
        <5>1. j - 1 \in DOMAIN T /\ j - 1 > 1 /\ j = (j - 1) + 1 /\ j - 1 \in 1 .. i - 1
          BY <1>1, <2>1, <3>4
        <5>2. QED BY <5>1
      <4>2. U[j] = T[m]
        BY <4>1
      <4>3. QED BY <2>2, <4>1, <4>2 DEF CallWell
    <3>5. QED BY <2>1, <3>2, <3>3, <3>4
  <2>6. T[i].at \in {"create", "delete"}
    BY <2>1, <2>2 DEF CallWell
  <2>7. QED BY <2>2, <2>3, <2>4, <2>5, <2>6 DEF CallWell
<1>8. \A k \in DOMAIN U : k = 1 \/ k = 2 \/ k > 2
  BY <1>1
<1>9. QED BY <1>5, <1>6, <1>7, <1>8 DEF StackWell

LEMMA PopWell ==
  ASSUME NEW P, NEW T \in Seq(Frame), NEW U \in Seq(Frame), StackWell(P, T), T # << >>,
         Len(U) = Len(T) - 1, \A k \in DOMAIN U : U[k] = T[k + 1]
  PROVE  StackWell(P, U)
<1>1. Len(T) \in Nat \ {0} /\ DOMAIN T = 1 .. Len(T) /\ DOMAIN U = 1 .. Len(T) - 1
  OBVIOUS
<1>2. ASSUME NEW k \in DOMAIN U PROVE CallWell(P, U, k)
  <2>1. k \in Nat /\ k + 1 \in DOMAIN T /\ k + 1 > 1 /\ U[k] = T[k + 1] /\ CallWell(P, T, k + 1)
    BY <1>1 DEF StackWell
  <2>2. k < Len(U) => k + 1 < Len(T) /\ U[k + 1] = T[(k + 1) + 1]
    <3>1. k < Len(U) => k + 1 < Len(T) /\ k + 1 \in DOMAIN U
      BY <1>1, <2>1
    <3>2. QED BY <3>1
  <2>3. k + 1 = Len(T) => k = Len(U)
    BY <1>1, <2>1
  <2>4. ASSUME NEW j \in 1 .. k - 1 PROVE j + 1 \in 1 .. (k + 1) - 1 /\ U[j] = T[j + 1]
    BY <1>1
  <2>5. QED BY <2>1, <2>2, <2>3, <2>4 DEF CallWell
<1>3. QED BY <1>2 DEF StackWell

\* One stack has changed.
LEMMA CallsOfOthers ==
  ASSUME CallsWell, NEW t \in Thread, \A u \in Thread \ {t} : stack'[u] = stack[u], UNCHANGED prog,
         StackWell(prog, stack'[t])
  PROVE  CallsWell'
BY DEF CallsWell

-----------------------------------------------------------------------------
(***************************************************************************)
(* The mutex counts.                                                       *)
(***************************************************************************)
LEMMA CountSame ==
  ASSUME Counted, NEW t \in Thread, \A u \in Thread \ {t} : stack'[u] = stack[u],
         UNCHANGED mutex, Holds(stack'[t]) = Holds(stack[t])
  PROVE  Counted'
BY DEF Counted, mutex

LEMMA CountUp ==
  ASSUME Counted, NEW t \in Thread, \A u \in Thread \ {t} : stack'[u] = stack[u],
         acquire(t), Holds(stack'[t]) = Holds(stack[t]) + 1
  PROVE  Counted'
<1>1. t # None
  BY NoneAssumption
<1>2. ASSUME NEW u \in Thread PROVE Holds(stack'[u]) = IF holder' = u THEN depth' ELSE 0
  <2>1. CASE u = t
    BY <2>1 DEF Counted, acquire
  <2>2. CASE u # t
    <3>1. u # None /\ Holds(stack'[u]) = Holds(stack[u])
      BY <2>2, NoneAssumption
    <3>2. QED BY <2>2, <3>1 DEF Counted, acquire
  <2>3. QED BY <2>1, <2>2
<1>3. QED BY <1>1, <1>2 DEF Counted, acquire

LEMMA CountDown ==
  ASSUME Counted, NEW t \in Thread, \A u \in Thread \ {t} : stack'[u] = stack[u],
         holder = t, release(t), Holds(stack'[t]) = Holds(stack[t]) - 1
  PROVE  Counted'
<1>1. t # None /\ depth \in Nat /\ depth # 0
  BY NoneAssumption DEF Counted
<1>2. ASSUME NEW u \in Thread PROVE Holds(stack'[u]) = IF holder' = u THEN depth' ELSE 0
  <2>1. CASE u = t
    BY <1>1, <2>1 DEF Counted, release
  <2>2. CASE u # t
    <3>1. u # None /\ Holds(stack'[u]) = Holds(stack[u])
      BY <2>2, NoneAssumption
    <3>2. QED BY <1>1, <2>2, <3>1 DEF Counted, release
  <2>3. QED BY <2>1, <2>2
<1>3. QED BY <1>1, <1>2 DEF Counted, release

\* Who has a call where the mutex is held, has it.
LEMMA HasMutex ==
  ASSUME Stacks, Counted, NEW t \in Thread, NEW k \in DOMAIN stack[t],
         stack[t][k].at \in Holding \/ k > 1
  PROVE  holder = t
<1>1. Len(stack[t]) \in Nat /\ DOMAIN stack[t] = 1 .. Len(stack[t]) /\ stack[t] # << >>
  BY DEF Stacks
<1>2. Holds(stack[t]) > 0
  <2>1. CASE k = 1
    BY <1>1, <2>1 DEF Holds
  <2>2. CASE k # 1
    BY <1>1, <2>2 DEF Holds
  <2>3. QED BY <2>1, <2>2
<1>3. QED BY <1>2 DEF Counted

\* A static is that of one such call only, if it is that of the innermost call
\* of who has the mutex.
LEMMA OnlyHere ==
  ASSUME Stacks, CallsWell, Counted, prog \in Programs, NEW t \in Thread, holder = t,
         stack[t] # << >>, NEW u \in Thread, NEW k \in DOMAIN stack[u],
         stack[u][k].at \in Holding \/ k > 1, stack[u][k].s = stack[t][1].s
  PROVE  u = t /\ k = 1
<1>1. u = t
  BY HasMutex
<1>2. /\ Len(stack[t]) \in Nat /\ DOMAIN stack[t] = 1 .. Len(stack[t])
      /\ 1 \in DOMAIN stack[t] /\ stack[t][1] \in Frame /\ stack[t][k] \in Frame
  BY <1>1 DEF Stacks
<1>3. ASSUME k # 1 PROVE FALSE
  <2>1. 1 \in 1 .. k - 1 /\ k > 1
    BY <1>1, <1>2, <1>3
  <2>2. CallWell(prog, stack[t], k)
    BY <1>1 DEF CallsWell, StackWell
  <2>3. Rank(prog)[stack[t][1].s] < Rank(prog)[stack[t][k].s]
    BY <2>1, <2>2 DEF CallWell
  <2>4. stack[t][k].s \in Static
    BY <1>2, <2>1, <2>2 DEF CallWell, Frame
  <2>5. Rank(prog)[stack[t][k].s] \in Int
    BY <2>4, RankType
  <2>6. QED BY <1>1, <2>3, <2>5
<1>4. QED BY <1>1, <1>3

\* A shutdown is no call of a constructor or destructor.
LEMMA Outermost ==
  ASSUME Stacks, CallsWell, NEW t \in Thread, NEW k \in DOMAIN stack[t]
  PROVE  /\ k > 1 => stack[t][k].at \in {"create", "delete"} /\ stack[t][k].s \in Static
         /\ stack[t][k].at \in Shutdown => k = Len(stack[t])
         /\ stack[t][k].s = None <=> stack[t][k].at \in {"shutdown", "loop"}
         /\ stack[t][k].s \in Static \cup {None}
         /\ stack[t][k].todo \subseteq Allowed(prog, stack[t][k])
<1>1. stack[t][k] \in Frame
  BY DEF Stacks
<1>2. CallWell(prog, stack[t], k)
  BY DEF CallsWell, StackWell
<1>3. QED BY <1>1, <1>2 DEF CallWell, Frame

-----------------------------------------------------------------------------
(***************************************************************************)
(* A call goes on: what that does to everything that is said of stacks.    *)
(***************************************************************************)
Places == {"create", "publish", "enlist", "delete", "clear"}

\* The static of a call that is at a place.
Its(f, place) == IF f.at = place THEN {f.s} ELSE {}

Proper(T, f) ==
  /\ f \in Frame
  /\ f.s = None <=> f.at \in {"shutdown", "loop"}
  /\ f.todo \subseteq Allowed(prog, f)
  /\ f.s = T[1].s \/ Len(T) = 1
  /\ f.at \in Shutdown => Len(T) = 1

Moves(t, f) ==
  /\ \A u \in Thread \ {t} : stack'[u] = stack[u]
  /\ stack'[t] # << >>
  /\ Len(stack'[t]) = Len(stack[t]) /\ DOMAIN stack'[t] = DOMAIN stack[t]
  /\ stack'[t][1] = f
  /\ \A k \in DOMAIN stack[t] : k > 1 => stack'[t][k] = stack[t][k]

LEMMA MoveCalls ==
  ASSUME Stacks, CallsWell, NEW t \in Thread, stack[t] # << >>,
         NEW f, Proper(stack[t], f), Goto(t, f), UNCHANGED prog
  PROVE  Stacks' /\ CallsWell' /\ Moves(t, f)
<1>1. f \in Frame /\ ~ Idle(t)
  BY DEF Proper, Idle
<1>2. Stacks' /\ Moves(t, f)
  BY <1>1, GotoEffect DEF Moves, Idle
<1>3. StackWell(prog, stack[t]) /\ stack[t] \in Seq(Frame) /\ stack'[t] \in Seq(Frame)
  BY <1>2 DEF CallsWell, Stacks
<1>4. StackWell(prog, stack'[t])
  BY <1>2, <1>3, GotoWell DEF Moves, Proper
<1>5. QED BY <1>2, <1>4, CallsOfOthers DEF Moves

LEMMA MoveHolds ==
  ASSUME Stacks, NEW t \in Thread, stack[t] # << >>, NEW f, Moves(t, f)
  PROVE  /\ Holds(stack[t]) \in Nat
         /\ (f.at \in Holding <=> stack[t][1].at \in Holding) => Holds(stack'[t]) = Holds(stack[t])
         /\ f.at \in Holding /\ stack[t][1].at \notin Holding => Holds(stack'[t]) = Holds(stack[t]) + 1
         /\ f.at \notin Holding /\ stack[t][1].at \in Holding => Holds(stack'[t]) = Holds(stack[t]) - 1
<1>1. Len(stack[t]) \in Nat \ {0}
  BY DEF Stacks
<1>2. QED BY <1>1 DEF Moves, Holds

LEMMA MoveSets ==
  ASSUME Stacks, CallsWell, Counted, prog \in Programs, NEW t \in Thread, stack[t] # << >>,
         NEW f, Proper(stack[t], f), Moves(t, f), NEW place \in Places
  PROVE  In(stack', place) = (In(stack, place) \ Its(stack[t][1], place)) \cup Its(f, place)
<1>1. /\ Len(stack[t]) \in Nat \ {0} /\ DOMAIN stack[t] = 1 .. Len(stack[t])
      /\ 1 \in DOMAIN stack[t] /\ 1 \in DOMAIN stack'[t]
  BY DEF Stacks, Moves
<1>2. place \in Holding /\ place \notin {"shutdown", "loop"}
  BY DEF Places, Holding
<1>3. Its(f, place) \subseteq Static
  BY <1>2 DEF Its, Proper, Frame
<1>4. ASSUME NEW s \in In(stack', place), s \notin Its(f, place)
      PROVE  s \in In(stack, place) \ Its(stack[t][1], place)
  <2>1. PICK u \in Thread : \E k \in DOMAIN stack'[u] : stack'[u][k].at = place /\ stack'[u][k].s = s
    BY DEF In
  <2>2. PICK k \in DOMAIN stack'[u] : stack'[u][k].at = place /\ stack'[u][k].s = s
    BY <2>1
  <2>3. ~ (u = t /\ k = 1)
    BY <1>4, <2>2 DEF Its, Moves
  <2>4. k \in DOMAIN stack[u] /\ stack[u][k] = stack'[u][k]
    <3>1. CASE u = t
      BY <1>1, <2>2, <2>3, <3>1 DEF Moves
    <3>2. CASE u # t
      BY <2>2, <3>2 DEF Moves
    <3>3. QED BY <3>1, <3>2
  <2>5. s \in In(stack, place)
    BY <2>2, <2>4 DEF In
  <2>6. ASSUME s \in Its(stack[t][1], place) PROVE FALSE
    <3>1. stack[t][1].at = place /\ stack[t][1].s = s
      BY <2>6 DEF Its
    <3>2. holder = t
      BY <1>1, <1>2, <3>1, HasMutex
    <3>3. QED BY <1>2, <2>2, <2>3, <2>4, <3>1, <3>2, OnlyHere
  <2>7. QED BY <2>5, <2>6
<1>5. ASSUME NEW s \in In(stack, place), s \notin Its(stack[t][1], place)
      PROVE  s \in In(stack', place)
  <2>1. PICK u \in Thread : \E k \in DOMAIN stack[u] : stack[u][k].at = place /\ stack[u][k].s = s
    BY DEF In
  <2>2. PICK k \in DOMAIN stack[u] : stack[u][k].at = place /\ stack[u][k].s = s
    BY <2>1
  <2>3. ~ (u = t /\ k = 1)
    BY <1>5, <2>2 DEF Its
  <2>4. k \in DOMAIN stack'[u] /\ stack[u][k] = stack'[u][k]
    <3>1. CASE u = t
      BY <1>1, <2>2, <2>3, <3>1 DEF Moves
    <3>2. CASE u # t
      BY <2>2, <3>2 DEF Moves
    <3>3. QED BY <3>1, <3>2
  <2>5. s \in Static
    BY DEF In
  <2>6. QED BY <2>2, <2>4, <2>5 DEF In
<1>6. ASSUME NEW s \in Its(f, place) PROVE s \in In(stack', place)
  <2>1. f.at = place /\ f.s = s /\ s \in Static
    BY <1>3 DEF Its
  <2>2. stack'[t][1] = f
    BY DEF Moves
  <2>3. QED BY <1>1, <2>1, <2>2 DEF In
<1>7. QED BY <1>4, <1>5, <1>6

LEMMA MoveNeeds ==
  ASSUME Stacks, CallsWell, NeedsMet, NEW t \in Thread, stack[t] # << >>,
         NEW f, Proper(stack[t], f), Moves(t, f), UNCHANGED prog,
         Listed \subseteq Listed',
         f.at \in {"create", "publish", "enlist"} => prog.needs[f.s] \ f.todo \subseteq Listed',
         f.at = "return" /\ Len(stack[t]) > 1 => f.s \in Listed'
  PROVE  NeedsMet'
<1>1. Len(stack[t]) \in Nat \ {0} /\ DOMAIN stack[t] = 1 .. Len(stack[t]) /\ 1 \in DOMAIN stack[t]
  BY DEF Stacks
<1>2. ASSUME NEW k \in DOMAIN stack'[t] PROVE NeedMet(prog, Listed', stack'[t], k)
  <2>1. CASE k = 1
    BY <1>1, <2>1 DEF NeedMet, Moves
  <2>2. CASE k # 1
    <3>1. k \in DOMAIN stack[t] /\ k > 1 /\ k - 1 \in DOMAIN stack[t] /\ Len(stack[t]) # 1
      BY <1>1, <2>2 DEF Moves
    <3>2. stack'[t][k] = stack[t][k] /\ stack'[t][k - 1].s = stack[t][k - 1].s
      <4>1. CASE k - 1 = 1
        BY <3>1, <4>1 DEF Moves, Proper
      <4>2. CASE k - 1 # 1
        BY <1>1, <3>1, <4>2 DEF Moves
      <4>3. QED BY <4>1, <4>2
    <3>3. NeedMet(prog, Listed, stack[t], k)
      BY <3>1 DEF NeedsMet
    <3>4. Len(stack'[t]) = Len(stack[t])
      BY DEF Moves
    <3>5. QED BY <3>2, <3>3, <3>4 DEF NeedMet
  <2>3. QED BY <2>1, <2>2
<1>3. ASSUME NEW u \in Thread, u # t, NEW k \in DOMAIN stack'[u]
      PROVE  NeedMet(prog, Listed', stack'[u], k)
  <2>1. stack'[u] = stack[u]
    BY <1>3 DEF Moves
  <2>2. NeedMet(prog, Listed, stack[u], k)
    BY <1>3, <2>1 DEF NeedsMet
  <2>3. QED BY <2>1, <2>2 DEF NeedMet
<1>4. QED BY <1>2, <1>3 DEF NeedsMet

LEMMA MoveUndisturbed ==
  ASSUME Stacks, Undisturbed, NEW t \in Thread, stack[t] # << >>, NEW f, Moves(t, f),
         stack[t][1].at # "shutdown",
         overlap' = overlap,
         f.at \in {"loop", "delete", "clear"} => stack[t][1].at \in {"loop", "delete", "clear"},
         f.at = "return" /\ t \notin overlap => f.s \in Ptr',
         \A u \in Thread \ ({t} \cup overlap) :
           stack[u] # << >> /\ stack[u][1].at = "return" /\ stack[u][1].s \in Ptr => stack[u][1].s \in Ptr'
  PROVE  Undisturbed'
<1>1. Len(stack[t]) \in Nat \ {0} /\ DOMAIN stack[t] = 1 .. Len(stack[t]) /\ 1 \in DOMAIN stack[t]
  BY DEF Stacks
<1>2. ASSUME NEW u \in Thread, ShutsDown(stack'[u]) PROVE ShutsDown(stack[u])
  <2>1. CASE u # t
    BY <1>2, <2>1 DEF Moves
  <2>2. CASE u = t
    <3>1. PICK k \in DOMAIN stack'[t] : stack'[t][k].at \in {"loop", "delete", "clear"}
      BY <1>2, <2>2 DEF ShutsDown
    <3>2. k \in DOMAIN stack[t] /\ stack[t][k].at \in {"loop", "delete", "clear"}
      <4>1. CASE k = 1
        BY <1>1, <3>1, <4>1 DEF Moves
      <4>2. CASE k # 1
        BY <1>1, <3>1, <4>2 DEF Moves
      <4>3. QED BY <4>1, <4>2
    <3>3. QED BY <2>2, <3>2 DEF ShutsDown
  <2>3. QED BY <2>1, <2>2
<1>3. ASSUME NEW u \in Thread \ overlap, stack'[u] # << >>
      PROVE  /\ stack'[u][1].at # "shutdown" => \A v \in Thread \ {u} : ~ ShutsDown(stack'[v])
             /\ stack'[u][1].at = "return" => stack'[u][1].s \in Ptr'
  <2>1. CASE u = t
    <3>1. \A v \in Thread \ {t} : ~ ShutsDown(stack[v])
      BY <2>1 DEF Undisturbed
    <3>2. QED BY <1>2, <2>1, <3>1 DEF Moves
  <2>2. CASE u # t
    <3>1. stack'[u] = stack[u]
      BY <2>2 DEF Moves
    <3>2. QED BY <1>2, <1>3, <2>2, <3>1 DEF Undisturbed
  <2>3. QED BY <2>1, <2>2
<1>4. QED BY <1>3 DEF Undisturbed

-----------------------------------------------------------------------------
(***************************************************************************)
(* The list.                                                               *)
(***************************************************************************)
LEMMA ChainCons ==
  ASSUME NEW P, NEW first, NEW next \in [Static -> Static \cup {None}], NEW X, NEW L \in Seq(Static),
         Chain(P, first, next, X, L),
         NEW s \in Static \ X, P.needs[s] \subseteq X
  PROVE  /\ << s >> \o L \in Seq(Static)
         /\ Chain(P, s, [next EXCEPT ![s] = first], X \cup {s}, << s >> \o L)
<1> DEFINE M == << s >> \o L
           then == [next EXCEPT ![s] = first]
<1>1. /\ M \in Seq(Static) /\ Len(M) = Len(L) + 1 /\ M[1] = s
      /\ \A i \in 1 .. Len(L) : M[i + 1] = L[i]
  <2>1. << s >> \in Seq(Static) /\ Len(<< s >>) = 1 /\ << s >>[1] = s
    OBVIOUS
  <2>2. QED BY <2>1, ConcatProperties
<1> HIDE DEF M
<1>2. /\ Len(L) \in Nat /\ DOMAIN L = 1 .. Len(L) /\ DOMAIN M = 1 .. Len(L) + 1
      /\ 1 \in DOMAIN M /\ M # << >>
      /\ X = {L[i] : i \in DOMAIN L}
  BY <1>1 DEF Chain
<1>3. ASSUME NEW i \in DOMAIN M, i # 1 PROVE \E j \in DOMAIN L : i = j + 1 /\ M[i] = L[j] /\ M[i] # s
  <2>1. i - 1 \in DOMAIN L /\ i = (i - 1) + 1
    BY <1>2, <1>3
  <2>2. M[i] = L[i - 1] /\ L[i - 1] \in X
    BY <1>1, <1>2, <2>1
  <2>3. QED BY <2>1, <2>2
<1>4. s = IF M = << >> THEN None ELSE M[1]
  BY <1>1, <1>2
<1>5. ASSUME NEW i \in DOMAIN M PROVE then[M[i]] = IF i = Len(M) THEN None ELSE M[i + 1]
  <2>1. CASE i = 1
    <3>1. then[s] = first
      OBVIOUS
    <3>2. CASE L = << >>
      BY <1>1, <2>1, <3>1, <3>2 DEF Chain
    <3>3. CASE L # << >>
      <4>1. Len(L) # 0 /\ 1 \in 1 .. Len(L) /\ first = L[1]
        BY <1>2, <3>3 DEF Chain
      <4>2. M[1 + 1] = L[1] /\ 1 # Len(M)
        BY <1>1, <1>2, <4>1
      <4>3. QED BY <1>1, <2>1, <3>1, <4>1, <4>2
    <3>4. QED BY <3>2, <3>3
  <2>2. CASE i # 1
    <3>1. PICK j \in DOMAIN L : i = j + 1 /\ M[i] = L[j] /\ M[i] # s
      BY <1>3, <2>2
    <3>2. then[M[i]] = next[L[j]]
      BY <3>1
    <3>3. j # Len(L) => M[i + 1] = L[j + 1]
      <4>1. j # Len(L) => j + 1 \in 1 .. Len(L)
        BY <1>2, <3>1
      <4>2. QED BY <1>1, <3>1, <4>1
    <3>4. i = Len(M) <=> j = Len(L)
      BY <1>1, <1>2, <3>1
    <3>5. QED BY <3>1, <3>2, <3>3, <3>4 DEF Chain
  <2>3. QED BY <2>1, <2>2
<1>6. ASSUME NEW i \in DOMAIN M, NEW j \in DOMAIN M, M[i] = M[j] PROVE i = j
  BY <1>1, <1>3, <1>6 DEF Chain
<1>7. X \cup {s} = {M[i] : i \in DOMAIN M}
  <2>1. ASSUME NEW y \in X PROVE \E i \in DOMAIN M : M[i] = y
    <3>1. PICK j \in DOMAIN L : L[j] = y
      BY <1>2, <2>1
    <3>2. j + 1 \in DOMAIN M /\ M[j + 1] = L[j]
      BY <1>1, <1>2
    <3>3. QED BY <3>1, <3>2
  <2>2. ASSUME NEW i \in DOMAIN M PROVE M[i] \in X \cup {s}
    BY <1>1, <1>2, <1>3
  <2>3. QED BY <1>1, <1>2, <2>1, <2>2
<1>8. ASSUME NEW i \in DOMAIN M, NEW n \in P.needs[M[i]] PROVE \E j \in DOMAIN M : j > i /\ M[j] = n
  <2>1. PICK m \in DOMAIN L : L[m] = n /\ m + 1 > i
    <3>1. CASE i = 1
      <4>1. n \in X
        BY <1>1, <1>8, <3>1
      <4>2. QED BY <1>2, <3>1, <4>1
    <3>2. CASE i # 1
      <4>1. PICK j \in DOMAIN L : i = j + 1 /\ M[i] = L[j] /\ M[i] # s
        BY <1>3, <3>2
      <4>2. \E m \in DOMAIN L : m > j /\ L[m] = n
        BY <1>8, <4>1 DEF Chain
      <4>3. QED BY <1>2, <4>1, <4>2
    <3>3. QED BY <3>1, <3>2
  <2>2. m + 1 \in DOMAIN M /\ M[m + 1] = n
    BY <1>1, <1>2, <2>1
  <2>3. QED BY <2>1, <2>2
<1> HIDE DEF then
<1>9. Chain(P, s, then, X \cup {s}, M)
  BY <1>4, <1>5, <1>6, <1>7, <1>8 DEF Chain
<1>10. QED BY <1>1, <1>9 DEF M, then

LEMMA ChainTail ==
  ASSUME NEW P, NEW first, NEW next \in [Static -> Static \cup {None}], NEW X, NEW L \in Seq(Static),
         Chain(P, first, next, X, L), first # None
  PROVE  /\ first \in X /\ first \in Static /\ Tail(L) \in Seq(Static)
         /\ Chain(P, next[first], [next EXCEPT ![first] = None], X \ {first}, Tail(L))
<1> DEFINE M == Tail(L)
           then == [next EXCEPT ![first] = None]
<1>1. L # << >>
  BY DEF Chain
<1>2. /\ M \in Seq(Static) /\ Len(M) = Len(L) - 1
      /\ \A i \in 1 .. Len(M) : M[i] = L[i + 1]
  BY <1>1, HeadTailProperties
<1> HIDE DEF M
<1>3. /\ Len(L) \in Nat \ {0} /\ DOMAIN L = 1 .. Len(L) /\ DOMAIN M = 1 .. Len(L) - 1
      /\ 1 \in DOMAIN L /\ first = L[1] /\ L[1] \in Static /\ (M = << >> <=> Len(L) = 1)
      /\ X = {L[i] : i \in DOMAIN L}
  <2>1. Len(L) \in Nat \ {0} /\ DOMAIN L = 1 .. Len(L) /\ 1 \in DOMAIN L /\ L[1] \in Static
    BY <1>1
  <2>2. DOMAIN M = 1 .. Len(M) /\ (M = << >> <=> Len(M) = 0)
    BY <1>2
  <2>3. first = L[1] /\ X = {L[i] : i \in DOMAIN L}
    BY <1>1 DEF Chain
  <2>4. QED BY <1>2, <2>1, <2>2, <2>3
<1>4. ASSUME NEW i \in DOMAIN M
      PROVE  i + 1 \in DOMAIN L /\ M[i] = L[i + 1] /\ M[i] # first /\ M[i] \in Static
  <2>1. i + 1 \in DOMAIN L /\ M[i] = L[i + 1] /\ i + 1 # 1
    BY <1>2, <1>3
  <2>2. L[i + 1] # L[1] /\ L[i + 1] \in Static
    BY <1>3, <2>1 DEF Chain
  <2>3. QED BY <1>3, <2>1, <2>2
<1>5. next[first] = IF M = << >> THEN None ELSE M[1]
  <2>1. CASE Len(L) = 1
    BY <1>3, <2>1 DEF Chain
  <2>2. CASE Len(L) # 1
    <3>1. 1 \in DOMAIN M /\ next[L[1]] = L[1 + 1]
      BY <1>3, <2>2 DEF Chain
    <3>2. QED BY <1>3, <1>4, <2>2, <3>1
  <2>3. QED BY <2>1, <2>2
<1>6. ASSUME NEW i \in DOMAIN M PROVE then[M[i]] = IF i = Len(M) THEN None ELSE M[i + 1]
  <2>1. then[M[i]] = next[L[i + 1]]
    BY <1>4
  <2>2. next[L[i + 1]] = IF i + 1 = Len(L) THEN None ELSE L[(i + 1) + 1]
    BY <1>4 DEF Chain
  <2>3. i + 1 = Len(L) <=> i = Len(M)
    BY <1>2, <1>3
  <2>4. i # Len(M) => M[i + 1] = L[(i + 1) + 1]
    <3>1. i # Len(M) => i + 1 \in DOMAIN M
      BY <1>2, <1>3
    <3>2. QED BY <1>4, <3>1
  <2>5. QED BY <2>1, <2>2, <2>3, <2>4
<1>7. ASSUME NEW i \in DOMAIN M, NEW j \in DOMAIN M, M[i] = M[j] PROVE i = j
  <2>1. i + 1 = j + 1
    BY <1>4, <1>7 DEF Chain
  <2>2. QED BY <1>3, <2>1
<1>8. ASSUME NEW i \in DOMAIN L, i # 1 PROVE \E j \in DOMAIN M : i = j + 1 /\ M[j] = L[i]
  <2>1. i - 1 \in DOMAIN M /\ i = (i - 1) + 1
    BY <1>3, <1>8
  <2>2. QED BY <1>4, <2>1
<1>9. X \ {first} = {M[i] : i \in DOMAIN M}
  <2>1. ASSUME NEW y \in X, y # first PROVE \E i \in DOMAIN M : M[i] = y
    BY <1>3, <1>8, <2>1
  <2>2. ASSUME NEW i \in DOMAIN M PROVE M[i] \in X /\ M[i] # first
    BY <1>3, <1>4
  <2>3. QED BY <2>1, <2>2
<1>10. ASSUME NEW i \in DOMAIN M, NEW n \in P.needs[M[i]] PROVE \E j \in DOMAIN M : j > i /\ M[j] = n
  <2>1. PICK m \in DOMAIN L : m > i + 1 /\ L[m] = n
    BY <1>4, <1>10 DEF Chain
  <2>2. PICK j \in DOMAIN M : m = j + 1 /\ M[j] = L[m]
    BY <1>3, <1>8, <2>1
  <2>3. j > i
    BY <1>3, <2>1, <2>2
  <2>4. QED BY <2>1, <2>2, <2>3
<1> HIDE DEF then
<1>11. Chain(P, next[first], then, X \ {first}, M)
  BY <1>5, <1>6, <1>7, <1>9, <1>10 DEF Chain
<1>12. QED BY <1>2, <1>3, <1>11 DEF M, then

LEMMA ListSame ==
  ASSUME ListWell, UNCHANGED <<prog, list>>, Listed' = Listed
  PROVE  ListWell'
BY DEF ListWell, list

-----------------------------------------------------------------------------
(***************************************************************************)
(* Steps that begin, use or end a call, and what none of those disturbs.   *)
(***************************************************************************)
Has(T, place, s) == \E k \in DOMAIN T : T[k].at = place /\ T[k].s = s

LEMMA SetsSame ==
  ASSUME NEW t \in Thread, \A u \in Thread \ {t} : stack'[u] = stack[u],
         \A place \in Places : \A s \in Static : Has(stack'[t], place, s) <=> Has(stack[t], place, s)
  PROVE  /\ Creating' = Creating /\ Publishing' = Publishing /\ Enlisting' = Enlisting
         /\ Destroying' = Destroying /\ Clearing' = Clearing
<1>1. ASSUME NEW place \in Places PROVE In(stack', place) = In(stack, place)
  <2>1. \A S : In(S, place) = {s \in Static : \E u \in Thread : Has(S[u], place, s)}
    BY DEF In, Has
  <2>2. ASSUME NEW s \in Static, NEW u \in Thread
        PROVE  Has(stack'[u], place, s) <=> Has(stack[u], place, s)
    <3>1. CASE u = t
      BY <3>1
    <3>2. CASE u # t
      BY <3>2
    <3>3. QED BY <3>1, <3>2
  <2>3. QED BY <2>1, <2>2
<1>2. QED BY <1>1 DEF Places, Creating, Publishing, Enlisting, Destroying, Clearing

LEMMA PointedSame ==
  ASSUME Pointed, Creating' = Creating, Publishing' = Publishing, Enlisting' = Enlisting,
         Destroying' = Destroying, Clearing' = Clearing, Ptr' = Ptr, objects' = objects,
         unseen' \subseteq unseen, unseen \subseteq Thread \X Static,
         NEW t \in Thread, \A u \in Thread \ {t} : stack'[u] = stack[u],
         stack[t] # << >> => stack[t][1].at # "publish"
  PROVE  Pointed'
<1>1. ASSUME NEW w \in unseen'
      PROVE  stack'[w[1]] # << >> /\ stack'[w[1]][1].at = "publish" /\ stack'[w[1]][1].s = w[2]
  <2>1. w \in unseen /\ w[1] \in Thread
    BY <1>1
  <2>2. stack[w[1]] # << >> /\ stack[w[1]][1].at = "publish" /\ stack[w[1]][1].s = w[2]
    BY <2>1 DEF Pointed
  <2>3. w[1] # t
    BY <2>2
  <2>4. QED BY <2>1, <2>2, <2>3
<1>2. QED BY <1>1 DEF Pointed

LEMMA ListedSame ==
  ASSUME Enlisting' = Enlisting, Destroying' = Destroying, Clearing' = Clearing, Ptr' = Ptr
  PROVE  Listed' = Listed
BY DEF Listed

\* A thread begins.
LEMMA StartStep ==
  ASSUME IInv, NEW t \in Thread, Idle(t), NEW f \in Frame, Push(t, f),
         f.s = None <=> f.at = "shutdown", f.at \in {"peek", "shutdown"}, f.todo = {},
         UNCHANGED <<prog, mutex, list, memory>>
  PROVE  Stacks' /\ CallsWell' /\ Counted' /\ Pointed' /\ ListWell' /\ NeedsMet'
<1>1. Stacks' /\ stack'[t] = << f >> /\ \A u \in Thread \ {t} : stack'[u] = stack[u]
  BY StartEffect DEF IInv, TypeOK, Stacks
<1>2. CallsWell'
  BY <1>1, StartWell, CallsOfOthers DEF IInv
<1>3. Len(<< f >>) = 1 /\ DOMAIN << f >> = {1} /\ << f >>[1] = f /\ stack[t] = << >> /\ << f >> # << >>
  BY DEF Idle
<1>4. Counted'
  <2>1. Holds(stack[t]) = 0 /\ Holds(stack'[t]) = 0
    BY <1>1, <1>3 DEF Holds, Holding
  <2>2. QED BY <1>1, <2>1, CountSame DEF IInv
<1>5. /\ Creating' = Creating /\ Publishing' = Publishing /\ Enlisting' = Enlisting
      /\ Destroying' = Destroying /\ Clearing' = Clearing
  <2>1. ASSUME NEW place \in Places, NEW s \in Static
        PROVE  ~ Has(stack'[t], place, s) /\ ~ Has(stack[t], place, s)
    BY <1>1, <1>3 DEF Has, Places
  <2>2. QED BY <1>1, <2>1, SetsSame
<1>6. Pointed'
  BY <1>1, <1>3, <1>5, PointedSame DEF IInv, TypeOK, memory
<1>7. Listed' = Listed
  BY <1>5, ListedSame DEF memory
<1>8. ListWell'
  BY <1>7, ListSame DEF IInv
<1>9. NeedsMet'
  <2>1. ASSUME NEW u \in Thread, NEW k \in DOMAIN stack'[u] PROVE NeedMet(prog, Listed, stack'[u], k)
    <3>1. CASE u = t
      BY <1>1, <1>3, <3>1 DEF NeedMet
    <3>2. CASE u # t
      BY <1>1, <3>2 DEF NeedsMet, IInv
    <3>3. QED BY <3>1, <3>2
  <2>2. QED BY <1>7, <2>1 DEF NeedsMet
<1>10. QED BY <1>1, <1>2, <1>4, <1>6, <1>8, <1>9

\* A constructor or destructor uses another static.
LEMMA UseStep ==
  ASSUME IInv, NEW t \in Thread, Use(t)
  PROVE  IInv'
<1> DEFINE T == stack[t]
           U == stack'[t]
<1>1. /\ ~ Idle(t) /\ T # << >> /\ Head(T).at \in {"create", "delete"}
      /\ UNCHANGED <<prog, mutex, list, memory, overlap>>
  BY DEF Use, At, Idle
<1>2. Stacks /\ T \in Seq(Frame) /\ prog \in Programs
  BY DEF IInv, TypeOK, Stacks
<1>3. /\ Len(T) \in Nat /\ DOMAIN T = 1 .. Len(T) /\ 1 \in DOMAIN T
      /\ Head(T) = T[1] /\ T[1] \in Frame /\ T[1].at \in {"create", "delete"}
  BY <1>1, <1>2, Innermost
<1>4. PICK s \in T[1].todo : stack' = [stack EXCEPT ![t] =
                   << Call("peek", s, {}), Call(T[1].at, T[1].s, T[1].todo \ {s}) >> \o Tail(@)]
  BY <1>3 DEF Use, Todo, Current
<1> DEFINE f == Call("peek", s, {})
           g == Call(T[1].at, T[1].s, T[1].todo \ {s})
<1>5. s \in Static /\ f \in Frame /\ f.at = "peek" /\ f.s = s
  BY <1>3 DEF Call, Frame, Access
<1>6. g \in Frame /\ g.at = T[1].at /\ g.s = T[1].s /\ g.todo = T[1].todo \ {s}
  BY <1>3 DEF Call, Frame
<1>7. stack' = [stack EXCEPT ![t] = << f, g >> \o Tail(@)]
  BY <1>4
<1> HIDE DEF f, g
<1>8. /\ Stacks'
      /\ \A u \in Thread \ {t} : stack'[u] = stack[u]
      /\ Len(U) = Len(T) + 1 /\ DOMAIN U = 1 .. Len(T) + 1
      /\ U # << >> /\ U[1] = f /\ U[2] = g
      /\ \A k \in DOMAIN T : k > 1 => U[k + 1] = T[k]
  BY <1>1, <1>2, <1>5, <1>6, <1>7, UseEffect DEF Idle
<1>9. StackWell(prog, T) /\ U \in Seq(Frame)
  BY <1>8 DEF IInv, CallsWell, Stacks
<1> HIDE DEF T, U
<1>10. StackWell(prog, U)
  BY <1>1, <1>2, <1>3, <1>6, <1>8, <1>9, UseWell DEF f
<1>11. CallsWell'
  BY <1>1, <1>8, <1>10, CallsOfOthers DEF IInv, U
<1>12. Counted'
  <2>1. Holds(T) = Len(T) /\ Holds(U) = Len(T)
    <3>1. Holds(T) = Len(T)
      BY <1>1, <1>3 DEF Holds, Holding
    <3>2. Holds(U) = Len(U) - 1
      BY <1>5, <1>8 DEF Holds, Holding
    <3>3. QED BY <1>3, <1>8, <3>1, <3>2
  <2>2. QED BY <1>1, <1>8, <2>1, CountSame DEF IInv, T, U
<1>13. ASSUME NEW k \in DOMAIN U
       PROVE  \/ k = 1
              \/ k = 2
              \/ /\ k - 1 \in DOMAIN T
                 /\ k - 1 > 1
                 /\ U[k] = T[k - 1]
  <2>1. k # 1 /\ k # 2 => k - 1 \in DOMAIN T /\ k - 1 > 1 /\ k = (k - 1) + 1
    BY <1>3, <1>8
  <2>2. QED BY <1>8, <2>1
<1>14. /\ Creating' = Creating /\ Publishing' = Publishing /\ Enlisting' = Enlisting
       /\ Destroying' = Destroying /\ Clearing' = Clearing
  <2>1. ASSUME NEW place \in Places, NEW n \in Static, Has(U, place, n) PROVE Has(T, place, n)
    <3>1. PICK k \in DOMAIN U : U[k].at = place /\ U[k].s = n
      BY <2>1 DEF Has
    <3>2. k # 1
      BY <1>5, <1>8, <3>1 DEF Places
    <3>3. CASE k = 2
      BY <1>3, <1>6, <1>8, <3>1, <3>3 DEF Has
    <3>4. CASE k # 2
      BY <1>13, <3>1, <3>2, <3>4 DEF Has
    <3>5. QED BY <3>3, <3>4
  <2>2. ASSUME NEW place \in Places, NEW n \in Static, Has(T, place, n) PROVE Has(U, place, n)
    <3>1. PICK k \in DOMAIN T : T[k].at = place /\ T[k].s = n
      BY <2>2 DEF Has
    <3>2. k + 1 \in DOMAIN U /\ 2 \in DOMAIN U
      BY <1>3, <1>8
    <3>3. CASE k = 1
      BY <1>6, <1>8, <3>1, <3>2, <3>3 DEF Has
    <3>4. CASE k # 1
      <4>1. U[k + 1] = T[k]
        BY <1>3, <1>8, <3>4
      <4>2. QED BY <3>1, <3>2, <4>1 DEF Has
    <3>5. QED BY <3>3, <3>4
  <2>3. QED BY <1>8, <2>1, <2>2, SetsSame DEF T, U
<1>15. Pointed'
  BY <1>1, <1>3, <1>8, <1>14, PointedSame DEF IInv, TypeOK, memory, T
<1>16. Listed' = Listed
  BY <1>1, <1>14, ListedSame DEF memory
<1>17. ListWell'
  BY <1>1, <1>16, ListSame DEF IInv
<1>18. NeedsMet'
  <2>1. ASSUME NEW k \in DOMAIN U PROVE NeedMet(prog, Listed, U, k)
    <3>1. CASE k = 1
      BY <1>5, <1>8, <3>1 DEF NeedMet
    <3>2. CASE k = 2
      <4>1. NeedMet(prog, Listed, T, 1)
        BY <1>3 DEF IInv, NeedsMet, T
      <4>2. U[k - 1].s = s
        BY <1>5, <1>8, <3>2
      <4>3. QED BY <1>3, <1>6, <1>8, <3>2, <4>1, <4>2 DEF NeedMet
    <3>3. CASE k # 1 /\ k # 2
      <4>1. k - 1 \in DOMAIN T /\ k - 1 > 1 /\ U[k] = T[k - 1]
        BY <1>13, <3>3
      <4>2. U[k - 1].s = T[(k - 1) - 1].s
        <5>1. CASE k = 3
          BY <1>6, <1>8, <5>1
        <5>2. CASE k # 3
          <6>1. (k - 1) - 1 \in DOMAIN T /\ (k - 1) - 1 > 1 /\ ((k - 1) - 1) + 1 = k - 1
            BY <1>3, <4>1, <5>2
          <6>2. QED BY <1>8, <6>1
        <5>3. QED BY <5>1, <5>2
      <4>3. NeedMet(prog, Listed, T, k - 1)
        BY <4>1 DEF IInv, NeedsMet, T
      <4>4. k \in Nat /\ k > 1
        BY <1>3, <4>1, <1>8
      <4>5. T[k - 1].at # "return"
        BY <1>2, <4>1, Outermost DEF IInv, T
      <4>6. QED BY <4>1, <4>2, <4>3, <4>4, <4>5 DEF NeedMet
    <3>4. QED BY <3>1, <3>2, <3>3
  <2>2. ASSUME NEW u \in Thread, NEW k \in DOMAIN stack'[u] PROVE NeedMet(prog, Listed, stack'[u], k)
    <3>1. CASE u = t
      BY <2>1, <3>1 DEF U
    <3>2. CASE u # t
      BY <1>8, <3>2 DEF NeedsMet, IInv
    <3>3. QED BY <3>1, <3>2
  <2>3. QED BY <1>1, <1>16, <2>2 DEF NeedsMet
<1>19. Undisturbed'
  <2>1. ShutsDown(U) => ShutsDown(T)
    <3>1. ASSUME NEW k \in DOMAIN U, U[k].at \in {"loop", "delete", "clear"} PROVE ShutsDown(T)
      <4>1. k # 1
        BY <1>5, <1>8, <3>1
      <4>2. QED BY <1>3, <1>6, <1>8, <1>13, <3>1, <4>1 DEF ShutsDown
    <3>2. QED BY <3>1 DEF ShutsDown
  <2>2. ASSUME NEW u \in Thread, ShutsDown(stack'[u]) PROVE ShutsDown(stack[u])
    BY <1>8, <2>1, <2>2 DEF T, U
  <2>3. ASSUME NEW u \in Thread \ overlap, stack'[u] # << >>
        PROVE  /\ stack'[u][1].at # "shutdown" => \A v \in Thread \ {u} : ~ ShutsDown(stack'[v])
               /\ stack'[u][1].at = "return" => stack'[u][1].s \in Ptr
    <3>1. CASE u = t
      <4>1. \A v \in Thread \ {t} : ~ ShutsDown(stack[v])
        BY <1>1, <1>3, <3>1 DEF IInv, Undisturbed, T
      <4>2. stack'[u][1].at = "peek"
        BY <1>5, <1>8, <3>1 DEF U
      <4>3. QED BY <2>2, <3>1, <4>1, <4>2
    <3>2. CASE u # t
      BY <1>8, <2>2, <2>3, <3>2 DEF IInv, Undisturbed
    <3>3. QED BY <3>1, <3>2
  <2>4. QED BY <1>1, <2>3 DEF Undisturbed, memory
<1>20. TypeOK'
  BY <1>1, <1>8 DEF IInv, TypeOK, Stacks, mutex, list, memory
<1>21. QED BY <1>11, <1>12, <1>15, <1>17, <1>18, <1>19, <1>20 DEF IInv

\* A call ends: an access, or a shutdown.
LEMMA PopStep ==
  ASSUME IInv, NEW t \in Thread, stack[t] # << >>, Pop(t), stack[t][1].at \in {"return", "loop"},
         UNCHANGED <<prog, list, Ptr, objects, overlap>>, unseen' \subseteq unseen
  PROVE  /\ Stacks' /\ CallsWell' /\ Pointed' /\ ListWell' /\ NeedsMet' /\ Undisturbed'
         /\ \A u \in Thread \ {t} : stack'[u] = stack[u]
         /\ stack[t][1].at = "return" => Holds(stack'[t]) = Holds(stack[t])
         /\ stack[t][1].at = "loop" => Holds(stack[t]) = 1 /\ Holds(stack'[t]) = 0
<1> DEFINE T == stack[t]
           U == stack'[t]
<1>1. Stacks /\ T \in Seq(Frame) /\ ~ Idle(t) /\ prog \in Programs
  BY DEF IInv, TypeOK, Stacks, Idle
<1>2. /\ Stacks'
      /\ \A u \in Thread \ {t} : stack'[u] = stack[u]
      /\ Len(U) = Len(T) - 1 /\ DOMAIN U = 1 .. Len(T) - 1
      /\ \A k \in DOMAIN U : k + 1 \in DOMAIN T /\ U[k] = T[k + 1]
  BY <1>1, PopEffect
<1>3. Len(T) \in Nat \ {0} /\ DOMAIN T = 1 .. Len(T) /\ 1 \in DOMAIN T /\ U \in Seq(Frame)
  BY <1>1, <1>2 DEF Stacks
<1>4. StackWell(prog, T)
  BY DEF IInv, CallsWell
<1>5. ASSUME NEW k \in DOMAIN U
      PROVE  /\ k \in Nat /\ k > 0 /\ k + 1 \in DOMAIN T /\ k + 1 > 1 /\ U[k] = T[k + 1]
             /\ U[k].at \in {"create", "delete"}
  <2>1. k \in Nat /\ k > 0 /\ k + 1 \in DOMAIN T /\ k + 1 > 1 /\ U[k] = T[k + 1]
    BY <1>2, <1>3
  <2>2. T[k + 1].at \in {"create", "delete"}
    BY <1>1, <2>1, Outermost DEF IInv
  <2>3. QED BY <2>1, <2>2
<1>6. T[1].at = "loop" => Len(T) = 1
  BY <1>1, <1>3, Outermost DEF IInv, Shutdown
<1>7. U = << >> <=> Len(T) = 1
  <2>1. U = << >> <=> Len(U) = 0
    BY <1>3
  <2>2. QED BY <1>2, <1>3, <2>1
<1>8. T # << >> /\ T[1].at \in {"return", "loop"}
  OBVIOUS
<1> HIDE DEF T, U
<1>9. CallsWell'
  <2>1. StackWell(prog, U)
    BY <1>1, <1>2, <1>3, <1>4, PopWell DEF T
  <2>2. QED BY <1>2, <2>1, CallsOfOthers DEF IInv, U
<1>10. /\ T[1].at = "return" => Holds(U) = Holds(T)
       /\ T[1].at = "loop" => Holds(T) = 1 /\ Holds(U) = 0
  <2>1. CASE Len(T) = 1
    <3>1. Holds(U) = 0
      BY <1>7, <2>1 DEF Holds
    <3>2. CASE T[1].at = "return"
      BY <1>8, <2>1, <3>1, <3>2 DEF Holds, Holding
    <3>3. CASE T[1].at = "loop"
      BY <1>8, <2>1, <3>1, <3>3 DEF Holds, Holding
    <3>4. QED BY <3>2, <3>3
  <2>2. CASE Len(T) # 1
    <3>1. U # << >> /\ 1 \in DOMAIN U /\ T # << >>
      BY <1>2, <1>3, <1>7, <2>2 DEF T
    <3>2. U[1].at \in Holding
      BY <1>5, <3>1 DEF Holding
    <3>3. Holds(U) = Len(U)
      BY <3>1, <3>2 DEF Holds
    <3>4. T[1].at = "return"
      BY <1>6, <1>8, <2>2
    <3>5. Holds(T) = Len(T) - 1
      BY <3>1, <3>4 DEF Holds, Holding
    <3>6. QED BY <1>2, <3>3, <3>4, <3>5
  <2>3. QED BY <2>1, <2>2
<1>11. /\ Creating' = Creating /\ Publishing' = Publishing /\ Enlisting' = Enlisting
       /\ Destroying' = Destroying /\ Clearing' = Clearing
  <2>1. ASSUME NEW place \in Places, NEW n \in Static, Has(U, place, n) PROVE Has(T, place, n)
    BY <1>5, <2>1 DEF Has
  <2>2. ASSUME NEW place \in Places, NEW n \in Static, Has(T, place, n) PROVE Has(U, place, n)
    <3>1. PICK k \in DOMAIN T : T[k].at = place /\ T[k].s = n
      BY <2>2 DEF Has
    <3>2. k # 1
      BY <3>1 DEF Places, T
    <3>3. k - 1 \in DOMAIN U /\ (k - 1) + 1 = k
      BY <1>2, <1>3, <3>2
    <3>4. U[k - 1] = T[k]
      BY <1>5, <3>3
    <3>5. QED BY <3>1, <3>3, <3>4 DEF Has
  <2>3. QED BY <1>2, <2>1, <2>2, SetsSame DEF T, U
<1>12. Pointed'
  BY <1>2, <1>11, PointedSame DEF IInv, TypeOK
<1>13. Listed' = Listed
  BY <1>11, ListedSame
<1>14. ListWell'
  BY <1>13, ListSame DEF IInv
<1>15. NeedsMet'
  <2>1. ASSUME NEW k \in DOMAIN U PROVE NeedMet(prog, Listed, U, k)
    <3>1. NeedMet(prog, Listed, T, k + 1) /\ NeedMet(prog, Listed, T, 1)
      BY <1>3, <1>5 DEF IInv, NeedsMet, T
    <3>2. CASE k = 1
      <4>1. Len(T) > 1
        BY <1>2, <1>3
      <4>2. T[1].at = "return"
        BY <1>3, <1>6, <1>8, <4>1
      <4>3. T[1].s \in Listed
        BY <3>1, <4>1, <4>2 DEF NeedMet
      <4>4. QED BY <1>5, <3>1, <3>2, <4>3 DEF NeedMet
    <3>3. CASE k # 1
      <4>1. k - 1 \in DOMAIN U /\ (k - 1) + 1 = k /\ k > 1 /\ (k + 1) - 1 = k
        BY <1>2, <1>3, <3>3
      <4>2. U[k - 1] = T[k]
        BY <1>5, <4>1
      <4>3. QED BY <1>5, <3>1, <4>1, <4>2 DEF NeedMet
    <3>4. QED BY <3>2, <3>3
  <2>2. ASSUME NEW u \in Thread, NEW k \in DOMAIN stack'[u] PROVE NeedMet(prog, Listed, stack'[u], k)
    <3>1. CASE u = t
      BY <2>1, <3>1 DEF U
    <3>2. CASE u # t
      BY <1>2, <3>2 DEF NeedsMet, IInv
    <3>3. QED BY <3>1, <3>2
  <2>3. QED BY <1>13, <2>2 DEF NeedsMet
<1>16. Undisturbed'
  <2>1. ShutsDown(U) => ShutsDown(T)
    BY <1>5 DEF ShutsDown
  <2>2. ASSUME NEW u \in Thread, ShutsDown(stack'[u]) PROVE ShutsDown(stack[u])
    BY <1>2, <2>1, <2>2 DEF T, U
  <2>3. ASSUME NEW u \in Thread \ overlap, stack'[u] # << >>
        PROVE  /\ stack'[u][1].at # "shutdown" => \A v \in Thread \ {u} : ~ ShutsDown(stack'[v])
               /\ stack'[u][1].at = "return" => stack'[u][1].s \in Ptr
    <3>1. CASE u = t
      <4>1. \A v \in Thread \ {t} : ~ ShutsDown(stack[v])
        BY <3>1 DEF IInv, Undisturbed
      <4>2. 1 \in DOMAIN U
        <5>1. U # << >>
          BY <2>3, <3>1 DEF U
        <5>2. QED BY <1>2, <1>3, <1>7, <5>1
      <4>3. U[1].at # "return"
        BY <1>5, <4>2
      <4>4. QED BY <2>2, <3>1, <4>1, <4>3 DEF U
    <3>2. CASE u # t
      BY <1>2, <2>2, <2>3, <3>2 DEF IInv, Undisturbed
    <3>3. QED BY <3>1, <3>2
  <2>4. QED BY <2>3 DEF Undisturbed
<1>17. /\ stack[t][1].at = "return" => Holds(stack'[t]) = Holds(stack[t])
       /\ stack[t][1].at = "loop" => Holds(stack[t]) = 1 /\ Holds(stack'[t]) = 0
  BY <1>10 DEF T, U
<1>18. QED BY <1>2, <1>9, <1>12, <1>14, <1>15, <1>16, <1>17

LEMMA ReturnStep ==
  ASSUME IInv, NEW t \in Thread, Return(t)
  PROVE  IInv'
<1>1. /\ stack[t] # << >> /\ ~ Idle(t) /\ Pop(t) /\ Head(stack[t]).at = "return"
      /\ UNCHANGED <<prog, mutex, list, memory, overlap>>
  BY DEF Return, At, Idle
<1>2. stack[t][1].at = "return"
  BY <1>1, Innermost DEF IInv, TypeOK, Stacks
<1>3. /\ Stacks' /\ CallsWell' /\ Pointed' /\ ListWell' /\ NeedsMet' /\ Undisturbed'
      /\ \A u \in Thread \ {t} : stack'[u] = stack[u]
      /\ Holds(stack'[t]) = Holds(stack[t])
  BY <1>1, <1>2, PopStep DEF memory
<1>4. Counted'
  BY <1>1, <1>3, CountSame DEF IInv
<1>5. TypeOK'
  BY <1>1, <1>3 DEF IInv, TypeOK, Stacks, mutex, list, memory
<1>6. QED BY <1>3, <1>4, <1>5 DEF IInv

LEMMA EndShutdownStep ==
  ASSUME IInv, NEW t \in Thread, EndShutdown(t)
  PROVE  IInv'
<1>1. /\ stack[t] # << >> /\ ~ Idle(t) /\ Pop(t) /\ Head(stack[t]).at = "loop"
      /\ UNCHANGED <<prog, list, Ptr, objects, overlap>>
      /\ release(t) /\ unseen' = IF depth = 1 THEN unseen \ Written(t) ELSE unseen
  BY DEF EndShutdown, At, Idle
<1>2. unseen' \subseteq unseen
  BY <1>1
<1>3. Stacks /\ 1 \in DOMAIN stack[t] /\ stack[t][1].at = "loop"
  BY <1>1, Innermost DEF IInv, TypeOK, Stacks
<1>4. /\ Stacks' /\ CallsWell' /\ Pointed' /\ ListWell' /\ NeedsMet' /\ Undisturbed'
      /\ \A u \in Thread \ {t} : stack'[u] = stack[u]
      /\ Holds(stack[t]) = 1 /\ Holds(stack'[t]) = 0
  BY <1>1, <1>2, <1>3, PopStep
<1>5. holder = t
  BY <1>3, HasMutex DEF IInv, Holding
<1>6. Counted'
  BY <1>1, <1>4, <1>5, CountDown DEF IInv
<1>7. TypeOK'
  BY <1>1, <1>2, <1>4, <1>6 DEF IInv, TypeOK, Stacks, list, release, Counted
<1>8. QED BY <1>4, <1>6, <1>7 DEF IInv

LEMMA ArriveStep ==
  ASSUME IInv, NEW t \in Thread, Arrive(t)
  PROVE  IInv'
<1>1. /\ UNCHANGED <<prog, stack, mutex, list, Ptr, objects, overlap>>
      /\ unseen' \subseteq unseen
  BY DEF Arrive
<1>2. /\ Creating' = Creating /\ Publishing' = Publishing /\ Enlisting' = Enlisting
      /\ Destroying' = Destroying /\ Clearing' = Clearing /\ Listed' = Listed
  BY <1>1 DEF Creating, Publishing, Enlisting, Destroying, Clearing, Listed
<1>3. TypeOK'
  BY <1>1 DEF IInv, TypeOK, mutex, list
<1>4. CallsWell' /\ Counted'
  BY <1>1 DEF IInv, CallsWell, Counted, mutex
<1>5. Pointed'
  BY <1>1, <1>2 DEF IInv, Pointed
<1>6. ListWell'
  BY <1>1, <1>2, ListSame DEF IInv
<1>7. NeedsMet' /\ Undisturbed'
  BY <1>1, <1>2 DEF IInv, NeedsMet, Undisturbed
<1>8. QED BY <1>3, <1>4, <1>5, <1>6, <1>7 DEF IInv

LEMMA BeginStep ==
  ASSUME IInv, NEW t \in Thread, NEW s \in Static, Begin(t, s)
  PROVE  IInv'
<1> DEFINE f == Call("peek", s, {})
<1>1. /\ Idle(t) /\ Push(t, f) /\ stack[t] = << >>
      /\ UNCHANGED <<prog, mutex, list, memory>>
      /\ overlap' = IF ShuttingDown THEN overlap \cup {t} ELSE overlap \ {t}
  BY DEF Begin, Idle
<1>2. f \in Frame /\ f.at = "peek" /\ f.s = s /\ f.todo = {} /\ s # None
  BY NoneAssumption DEF Call, Frame, Access
<1> HIDE DEF f
<1>3. Stacks' /\ CallsWell' /\ Counted' /\ Pointed' /\ ListWell' /\ NeedsMet'
  BY <1>1, <1>2, StartStep
<1>4. Stacks
  BY DEF IInv, TypeOK, Stacks
<1>5. stack'[t] = << f >> /\ \A u \in Thread \ {t} : stack'[u] = stack[u]
  BY <1>1, <1>2, <1>4, StartEffect
<1>6. stack'[t][1].at = "peek" /\ ~ ShutsDown(stack'[t])
  BY <1>2, <1>5 DEF ShutsDown
<1>7. Undisturbed'
  <2>1. ASSUME NEW u \in Thread, ShutsDown(stack'[u]) PROVE u # t /\ ShutsDown(stack[u])
    BY <1>5, <1>6, <2>1
  <2>2. ASSUME NEW u \in Thread \ overlap', stack'[u] # << >>
        PROVE  /\ stack'[u][1].at # "shutdown" => \A v \in Thread \ {u} : ~ ShutsDown(stack'[v])
               /\ stack'[u][1].at = "return" => stack'[u][1].s \in Ptr'
    <3>1. CASE u = t
      <4>1. ~ ShuttingDown
        BY <1>1, <3>1
      <4>2. \A v \in Thread : ~ ShutsDown(stack[v])
        BY <4>1 DEF ShuttingDown, ShutsDown
      <4>3. QED BY <1>6, <2>1, <3>1, <4>2
    <3>2. CASE u # t
      <4>1. u \in Thread \ overlap /\ stack'[u] = stack[u]
        BY <1>1, <1>5, <3>2
      <4>2. QED BY <1>1, <2>1, <2>2, <4>1 DEF IInv, Undisturbed, memory
    <3>3. QED BY <3>1, <3>2
  <2>3. QED BY <2>2 DEF Undisturbed
<1>8. TypeOK'
  BY <1>1, <1>3 DEF IInv, TypeOK, Stacks, mutex, list, memory
<1>9. QED BY <1>3, <1>7, <1>8 DEF IInv

LEMMA BeginShutdownStep ==
  ASSUME IInv, NEW t \in Thread, BeginShutdown(t)
  PROVE  IInv'
<1> DEFINE f == Call("shutdown", None, {})
<1>1. /\ Idle(t) /\ Push(t, f) /\ stack[t] = << >>
      /\ UNCHANGED <<prog, mutex, list, memory>>
      /\ overlap' = overlap \ {t}
  BY DEF BeginShutdown, Idle
<1>2. f \in Frame /\ f.at = "shutdown" /\ f.s = None /\ f.todo = {}
  BY DEF Call, Frame, Shutdown
<1> HIDE DEF f
<1>3. Stacks' /\ CallsWell' /\ Counted' /\ Pointed' /\ ListWell' /\ NeedsMet'
  BY <1>1, <1>2, StartStep
<1>4. Stacks
  BY DEF IInv, TypeOK, Stacks
<1>5. stack'[t] = << f >> /\ \A u \in Thread \ {t} : stack'[u] = stack[u]
  BY <1>1, <1>2, <1>4, StartEffect
<1>6. stack'[t][1].at = "shutdown" /\ ~ ShutsDown(stack'[t])
  BY <1>2, <1>5 DEF ShutsDown
<1>7. Undisturbed'
  <2>1. ASSUME NEW u \in Thread, ShutsDown(stack'[u]) PROVE u # t /\ ShutsDown(stack[u])
    BY <1>5, <1>6, <2>1
  <2>2. ASSUME NEW u \in Thread \ overlap', stack'[u] # << >>
        PROVE  /\ stack'[u][1].at # "shutdown" => \A v \in Thread \ {u} : ~ ShutsDown(stack'[v])
               /\ stack'[u][1].at = "return" => stack'[u][1].s \in Ptr'
    <3>1. CASE u = t
      BY <1>6, <3>1
    <3>2. CASE u # t
      <4>1. u \in Thread \ overlap /\ stack'[u] = stack[u]
        BY <1>1, <1>5, <3>2
      <4>2. QED BY <1>1, <2>1, <2>2, <4>1 DEF IInv, Undisturbed, memory
    <3>3. QED BY <3>1, <3>2
  <2>3. QED BY <2>2 DEF Undisturbed
<1>8. TypeOK'
  BY <1>1, <1>3 DEF IInv, TypeOK, Stacks, mutex, list, memory
<1>9. QED BY <1>3, <1>7, <1>8 DEF IInv

-----------------------------------------------------------------------------
(***************************************************************************)
(* Steps that go on with a call.                                           *)
(***************************************************************************)
LEMMA Here ==
  ASSUME IInv, NEW t \in Thread, NEW place, At(t, place)
  PROVE  /\ Stacks /\ prog \in Programs /\ stack[t] # << >> /\ ~ Idle(t)
         /\ Len(stack[t]) \in Nat \ {0} /\ 1 \in DOMAIN stack[t]
         /\ stack[t][1].at = place
         /\ Current(t) = stack[t][1].s /\ Todo(t) = stack[t][1].todo
         /\ stack[t][1].s \in Static \cup {None}
         /\ stack[t][1].s = None <=> place \in {"shutdown", "loop"}
         /\ stack[t][1].todo \subseteq Allowed(prog, stack[t][1])
         /\ place \in Shutdown => Len(stack[t]) = 1
         /\ place \in Holding => holder = t
<1>1. Stacks /\ prog \in Programs /\ ~ Idle(t) /\ stack[t] # << >>
  BY DEF IInv, TypeOK, Stacks, At, Idle
<1>2. /\ 1 \in DOMAIN stack[t] /\ stack[t][1].at = place /\ Len(stack[t]) \in Nat \ {0}
      /\ Current(t) = stack[t][1].s /\ Todo(t) = stack[t][1].todo
  BY <1>1, Innermost DEF At, Current, Todo
<1>3. place \in Holding => holder = t
  BY <1>1, <1>2, HasMutex DEF IInv
<1>4. /\ stack[t][1].at \in Shutdown => 1 = Len(stack[t])
      /\ stack[t][1].s = None <=> stack[t][1].at \in {"shutdown", "loop"}
      /\ stack[t][1].s \in Static \cup {None}
      /\ stack[t][1].todo \subseteq Allowed(prog, stack[t][1])
  BY <1>1, <1>2, Outermost DEF IInv
<1>5. QED BY <1>1, <1>2, <1>3, <1>4

\* The static of a call of who has the mutex is at no other place.
LEMMA NotElsewhere ==
  ASSUME IInv, NEW t \in Thread, holder = t, stack[t] # << >>,
         NEW place \in Places, stack[t][1].at # place
  PROVE  stack[t][1].s \notin In(stack, place)
<1>1. Stacks /\ prog \in Programs /\ place \in Holding
  BY DEF IInv, TypeOK, Stacks, Places, Holding
<1>2. SUFFICES ASSUME NEW u \in Thread, NEW k \in DOMAIN stack[u],
                      stack[u][k].at = place, stack[u][k].s = stack[t][1].s
               PROVE  FALSE
  BY DEF In
<1>3. u = t /\ k = 1
  BY <1>1, <1>2, OnlyHere DEF IInv
<1>4. QED BY <1>2, <1>3

LEMMA OnList ==
  ASSUME IInv, NEW t \in Thread, holder = t, stack[t] # << >>,
         stack[t][1].at \notin Places, stack[t][1].s \in Ptr
  PROVE  stack[t][1].s \in Listed
<1>1. ASSUME NEW place \in Places PROVE stack[t][1].s \notin In(stack, place)
  BY NotElsewhere
<1>2. QED BY <1>1 DEF Listed, Enlisting, Destroying, Clearing, Places

LEMMA MoveStep ==
  ASSUME IInv, NEW t \in Thread, stack[t] # << >>, NEW f, Proper(stack[t], f), Goto(t, f), UNCHANGED prog
  PROVE  /\ Stacks' /\ CallsWell' /\ Moves(t, f)
         /\ Creating' = (Creating \ Its(stack[t][1], "create")) \cup Its(f, "create")
         /\ Publishing' = (Publishing \ Its(stack[t][1], "publish")) \cup Its(f, "publish")
         /\ Enlisting' = (Enlisting \ Its(stack[t][1], "enlist")) \cup Its(f, "enlist")
         /\ Destroying' = (Destroying \ Its(stack[t][1], "delete")) \cup Its(f, "delete")
         /\ Clearing' = (Clearing \ Its(stack[t][1], "clear")) \cup Its(f, "clear")
<1>1. Stacks /\ CallsWell /\ Counted /\ prog \in Programs
  BY DEF IInv, TypeOK, Stacks
<1>2. Stacks' /\ CallsWell' /\ Moves(t, f)
  BY <1>1, MoveCalls
<1>3. ASSUME NEW place \in Places
      PROVE  In(stack', place) = (In(stack, place) \ Its(stack[t][1], place)) \cup Its(f, place)
  BY <1>1, <1>2, MoveSets
<1>4. QED BY <1>2, <1>3 DEF Places, Creating, Publishing, Enlisting, Destroying, Clearing

\* The same when no static comes or goes.
LEMMA PlainStep ==
  ASSUME IInv, NEW t \in Thread, stack[t] # << >>, NEW f, Proper(stack[t], f), Goto(t, f),
         UNCHANGED <<prog, list, Ptr, objects>>, unseen' \subseteq unseen,
         stack[t][1].at \notin Places, f.at \notin Places,
         f.at = "return" /\ Len(stack[t]) > 1 => f.s \in Listed
  PROVE  Stacks' /\ CallsWell' /\ Moves(t, f) /\ Pointed' /\ ListWell' /\ NeedsMet'
<1>1. /\ Stacks' /\ CallsWell' /\ Moves(t, f)
      /\ Creating' = Creating /\ Publishing' = Publishing /\ Enlisting' = Enlisting
      /\ Destroying' = Destroying /\ Clearing' = Clearing
  BY MoveStep DEF Its, Places
<1>2. Pointed'
  BY <1>1, PointedSame DEF IInv, TypeOK, Moves, Places
<1>3. Listed' = Listed
  BY <1>1, ListedSame
<1>4. ListWell'
  BY <1>3, ListSame DEF IInv
<1>5. Stacks /\ CallsWell /\ NeedsMet
  BY DEF IInv, TypeOK, Stacks
<1>6. NeedsMet'
  BY <1>1, <1>3, <1>5, MoveNeeds DEF Places
<1>7. QED BY <1>1, <1>2, <1>4, <1>6

LEMMA PeekStep ==
  ASSUME IInv, NEW t \in Thread, Peek(t)
  PROVE  IInv'
<1> DEFINE s == stack[t][1].s
           f == Call(IF s \in Ptr THEN "return" ELSE "acquire", s, {})
<1>1. /\ Stacks /\ prog \in Programs /\ stack[t] # << >> /\ Len(stack[t]) \in Nat \ {0}
      /\ stack[t][1].at = "peek" /\ s \in Static /\ s # None
  BY Here, NoneAssumption DEF Peek
<1>2. Goto(t, f) /\ UNCHANGED <<prog, mutex, list, memory, overlap>>
  BY Here DEF Peek
<1>3. /\ Proper(stack[t], f) /\ f.s = s /\ f.at \in {"return", "acquire"}
      /\ f.at = "return" => s \in Ptr
  BY <1>1 DEF Proper, Call, Frame, Access, Shutdown
<1> HIDE DEF f
<1>4. ASSUME f.at = "return", Len(stack[t]) > 1 PROVE f.s \in Listed
  <2>1. 2 \in DOMAIN stack[t]
    BY <1>1, <1>4 DEF Stacks
  <2>2. holder = t
    BY <1>1, <2>1, HasMutex DEF IInv
  <2>3. QED BY <1>1, <1>3, <1>4, <2>2, OnList DEF Places
<1>5. Stacks' /\ CallsWell' /\ Moves(t, f) /\ Pointed' /\ ListWell' /\ NeedsMet'
  BY <1>1, <1>2, <1>3, <1>4, PlainStep DEF memory, Places
<1>6. Counted'
  <2>1. Holds(stack'[t]) = Holds(stack[t])
    BY <1>1, <1>3, <1>5, MoveHolds DEF Holding
  <2>2. QED BY <1>2, <1>5, <2>1, CountSame DEF IInv, Moves
<1>7. Undisturbed'
  BY <1>1, <1>2, <1>3, <1>5, MoveUndisturbed DEF IInv, memory
<1>8. TypeOK'
  BY <1>2, <1>5 DEF IInv, TypeOK, Stacks, mutex, list, memory
<1>9. QED BY <1>5, <1>6, <1>7, <1>8 DEF IInv

LEMMA AcquireStep ==
  ASSUME IInv, NEW t \in Thread, Acquire(t)
  PROVE  IInv'
<1> DEFINE s == stack[t][1].s
           f == Call("check", s, {})
<1>1. /\ Stacks /\ prog \in Programs /\ stack[t] # << >>
      /\ stack[t][1].at = "acquire" /\ s \in Static /\ s # None
  BY Here, NoneAssumption DEF Acquire
<1>2. Goto(t, f) /\ acquire(t) /\ UNCHANGED <<prog, list, memory, overlap>>
  BY Here DEF Acquire
<1>3. Proper(stack[t], f) /\ f.s = s /\ f.at = "check"
  BY <1>1 DEF Proper, Call, Frame, Access, Shutdown
<1> HIDE DEF f
<1>4. Stacks' /\ CallsWell' /\ Moves(t, f) /\ Pointed' /\ ListWell' /\ NeedsMet'
  BY <1>1, <1>2, <1>3, PlainStep DEF memory, Places
<1>5. Counted'
  <2>1. Holds(stack'[t]) = Holds(stack[t]) + 1
    BY <1>1, <1>3, <1>4, MoveHolds DEF Holding
  <2>2. QED BY <1>2, <1>4, <2>1, CountUp DEF IInv, Moves
<1>6. Undisturbed'
  BY <1>1, <1>2, <1>3, <1>4, MoveUndisturbed DEF IInv, memory
<1>7. TypeOK'
  BY <1>2, <1>4, <1>5 DEF IInv, TypeOK, Stacks, Counted, acquire, list, memory
<1>8. QED BY <1>4, <1>5, <1>6, <1>7 DEF IInv

LEMMA MissingStep ==
  ASSUME IInv, NEW t \in Thread, At(t, "check"), Missing(Current(t)),
         Goto(t, Call("create", Current(t), prog.needs[Current(t)])),
         UNCHANGED <<prog, mutex, list, memory, overlap>>
  PROVE  IInv'
<1> DEFINE s == stack[t][1].s
           f == Call("create", s, prog.needs[s])
<1>1. /\ Stacks /\ prog \in Programs /\ stack[t] # << >> /\ holder = t
      /\ stack[t][1].at = "check" /\ s \in Static /\ s # None
  BY Here, NoneAssumption DEF Holding
<1>2. Goto(t, f) /\ s \notin Ptr
  BY Here DEF Missing
<1>3. Proper(stack[t], f) /\ f.s = s /\ f.at = "create" /\ f.todo = prog.needs[s]
  BY <1>1, RankType DEF Proper, Call, Frame, Access, Shutdown, Allowed
<1> HIDE DEF f
<1>4. /\ Stacks' /\ CallsWell' /\ Moves(t, f)
      /\ Creating' = Creating \cup {s} /\ Publishing' = Publishing /\ Enlisting' = Enlisting
      /\ Destroying' = Destroying /\ Clearing' = Clearing
  BY <1>1, <1>2, <1>3, MoveStep DEF Its
<1>5. Counted'
  <2>1. Holds(stack'[t]) = Holds(stack[t])
    BY <1>1, <1>3, <1>4, MoveHolds DEF Holding
  <2>2. QED BY <1>4, <2>1, CountSame DEF IInv, Moves
<1>6. Pointed'
  <2>1. ASSUME NEW w \in unseen'
        PROVE  stack'[w[1]] # << >> /\ stack'[w[1]][1].at = "publish" /\ stack'[w[1]][1].s = w[2]
    <3>1. w \in unseen /\ w[1] \in Thread
      BY DEF IInv, TypeOK, memory
    <3>2. stack[w[1]] # << >> /\ stack[w[1]][1].at = "publish" /\ stack[w[1]][1].s = w[2]
      BY <3>1 DEF IInv, Pointed
    <3>3. w[1] # t
      BY <1>1, <3>2
    <3>4. QED BY <1>4, <3>1, <3>2, <3>3 DEF Moves
  <2>2. QED BY <1>2, <1>4, <2>1 DEF IInv, Pointed, memory
<1>7. Listed' = Listed
  BY <1>4, ListedSame DEF memory
<1>8. ListWell'
  BY <1>7, ListSame DEF IInv
<1>9. NeedsMet'
  BY <1>1, <1>3, <1>4, <1>7, MoveNeeds DEF IInv
<1>10. Undisturbed'
  BY <1>1, <1>3, <1>4, MoveUndisturbed DEF IInv, memory
<1>11. TypeOK'
  BY <1>4 DEF IInv, TypeOK, Stacks, mutex, list, memory
<1>12. QED BY <1>4, <1>5, <1>6, <1>8, <1>9, <1>10, <1>11 DEF IInv

LEMMA FoundStep ==
  ASSUME IInv, NEW t \in Thread, At(t, "check"), ~ Missing(Current(t)),
         Goto(t, Call("return", Current(t), {})), release(t),
         unseen' = (IF depth = 1 THEN unseen \ Written(t) ELSE unseen),
         UNCHANGED <<prog, list, Ptr, objects, overlap>>
  PROVE  IInv'
<1> DEFINE s == stack[t][1].s
           f == Call("return", s, {})
<1>1. /\ Stacks /\ prog \in Programs /\ stack[t] # << >> /\ holder = t
      /\ stack[t][1].at = "check" /\ s \in Static /\ s # None
  BY Here, NoneAssumption DEF Holding
<1>2. Goto(t, f) /\ s \in Ptr /\ unseen' \subseteq unseen
  BY Here DEF Missing
<1>3. Proper(stack[t], f) /\ f.s = s /\ f.at = "return"
  BY <1>1 DEF Proper, Call, Frame, Access, Shutdown
<1> HIDE DEF f
<1>4. s \in Listed
  BY <1>1, <1>2, OnList DEF Places
<1>5. Stacks' /\ CallsWell' /\ Moves(t, f) /\ Pointed' /\ ListWell' /\ NeedsMet'
  BY <1>1, <1>2, <1>3, <1>4, PlainStep DEF Places
<1>6. Counted'
  <2>1. Holds(stack'[t]) = Holds(stack[t]) - 1
    BY <1>1, <1>3, <1>5, MoveHolds DEF Holding
  <2>2. QED BY <1>1, <1>5, <2>1, CountDown DEF IInv, Moves
<1>7. Undisturbed'
  BY <1>1, <1>2, <1>3, <1>5, MoveUndisturbed DEF IInv
<1>8. TypeOK'
  BY <1>2, <1>5, <1>6 DEF IInv, TypeOK, Stacks, Counted, release, list
<1>9. QED BY <1>5, <1>6, <1>7, <1>8 DEF IInv

LEMMA CheckStep ==
  ASSUME IInv, NEW t \in Thread, Check(t)
  PROVE  IInv'
<1>1. CASE Missing(Current(t))
  BY <1>1, MissingStep DEF Check, memory
<1>2. CASE ~ Missing(Current(t))
  BY <1>2, FoundStep DEF Check
<1>3. QED BY <1>1, <1>2

\* The object is there, and the other threads do not see it.
LEMMA CreateStep ==
  ASSUME IInv, NEW t \in Thread, Create(t)
  PROVE  IInv'
<1> DEFINE s == stack[t][1].s
           f == Call("publish", s, {})
<1>1. /\ Stacks /\ prog \in Programs /\ stack[t] # << >> /\ holder = t /\ 1 \in DOMAIN stack[t]
      /\ stack[t][1].at = "create" /\ s \in Static /\ s # None /\ stack[t][1].todo = {}
  BY Here, NoneAssumption DEF Create, Holding
<1>2. /\ Goto(t, f) /\ objects' = [objects EXCEPT ![s] = @ + 1] /\ unseen' = unseen \cup {<<t, s>>}
      /\ UNCHANGED <<prog, mutex, list, Ptr, overlap>>
  BY Here DEF Create
<1>3. Proper(stack[t], f) /\ f.s = s /\ f.at = "publish" /\ f.todo = {}
  BY <1>1 DEF Proper, Call, Frame, Access, Shutdown
<1> HIDE DEF f
<1>4. /\ Stacks' /\ CallsWell' /\ Moves(t, f)
      /\ Creating' = Creating \ {s} /\ Publishing' = Publishing \cup {s} /\ Enlisting' = Enlisting
      /\ Destroying' = Destroying /\ Clearing' = Clearing
  <2>1. /\ Its(stack[t][1], "create") = {s} /\ Its(f, "create") = {}
        /\ Its(stack[t][1], "publish") = {} /\ Its(f, "publish") = {s}
        /\ Its(stack[t][1], "enlist") = {} /\ Its(f, "enlist") = {}
        /\ Its(stack[t][1], "delete") = {} /\ Its(f, "delete") = {}
        /\ Its(stack[t][1], "clear") = {} /\ Its(f, "clear") = {}
    BY <1>1, <1>3 DEF Its
  <2>2. QED BY <1>1, <1>2, <1>3, <2>1, MoveStep
<1>5. Counted'
  <2>1. Holds(stack'[t]) = Holds(stack[t])
    BY <1>1, <1>3, <1>4, MoveHolds DEF Holding
  <2>2. QED BY <1>2, <1>4, <2>1, CountSame DEF IInv, Moves
<1>6. s \notin Ptr /\ objects[s] = 0
  <2>1. s \in Creating
    BY <1>1 DEF Creating, In
  <2>2. s \notin Publishing
    BY <1>1, NotElsewhere DEF Places, Publishing
  <2>3. QED BY <1>1, <2>1, <2>2 DEF IInv, Pointed
<1>7. objects' \in [Static -> Nat] /\ \A n \in Static : objects'[n] = IF n = s THEN 1 ELSE objects[n]
  BY <1>1, <1>2, <1>6 DEF IInv, TypeOK
<1>8. Pointed'
  <2>1. ASSUME NEW w \in unseen'
        PROVE  stack'[w[1]] # << >> /\ stack'[w[1]][1].at = "publish" /\ stack'[w[1]][1].s = w[2]
    <3>1. CASE w \in unseen
      <4>1. w[1] \in Thread
        BY <3>1 DEF IInv, TypeOK
      <4>2. stack[w[1]] # << >> /\ stack[w[1]][1].at = "publish" /\ stack[w[1]][1].s = w[2]
        BY <3>1 DEF IInv, Pointed
      <4>3. w[1] # t
        BY <1>1, <4>2
      <4>4. QED BY <1>4, <4>1, <4>2, <4>3 DEF Moves
    <3>2. CASE w = <<t, s>>
      BY <1>3, <1>4, <3>2 DEF Moves
    <3>3. QED BY <1>2, <3>1, <3>2
  <2>2. ASSUME NEW n \in Static
        PROVE  objects'[n] = IF n \in Publishing' \cup (Ptr' \ Clearing') THEN 1 ELSE 0
    BY <1>2, <1>4, <1>6, <1>7 DEF IInv, Pointed
  <2>3. QED BY <1>2, <1>4, <1>6, <2>1, <2>2 DEF IInv, Pointed
<1>9. Listed' = Listed
  BY <1>2, <1>4, ListedSame
<1>10. ListWell'
  BY <1>2, <1>9, ListSame DEF IInv
<1>11. NeedsMet'
  <2>1. NeedMet(prog, Listed, stack[t], 1)
    BY <1>1 DEF IInv, NeedsMet
  <2>2. prog.needs[s] \subseteq Listed
    BY <1>1, <2>1 DEF NeedMet
  <2>3. QED BY <1>1, <1>2, <1>3, <1>4, <1>9, <2>2, MoveNeeds DEF IInv
<1>12. Undisturbed'
  BY <1>1, <1>2, <1>3, <1>4, MoveUndisturbed DEF IInv
<1>13. TypeOK'
  BY <1>1, <1>2, <1>4, <1>7 DEF IInv, TypeOK, Stacks, mutex, list
<1>14. QED BY <1>4, <1>5, <1>8, <1>10, <1>11, <1>12, <1>13 DEF IInv

\* Whoever sees the pointer sees the object.
LEMMA PublishStep ==
  ASSUME IInv, NEW t \in Thread, Publish(t)
  PROVE  IInv'
<1> DEFINE s == stack[t][1].s
           f == Call("enlist", s, {})
<1>1. /\ Stacks /\ prog \in Programs /\ stack[t] # << >> /\ holder = t /\ 1 \in DOMAIN stack[t]
      /\ stack[t][1].at = "publish" /\ s \in Static /\ s # None /\ stack[t][1].todo = {}
  <2>1. stack[t][1].todo \subseteq Allowed(prog, stack[t][1]) /\ stack[t][1].at = "publish"
    BY Here DEF Publish
  <2>2. stack[t][1].todo = {}
    BY <2>1 DEF Allowed
  <2>3. QED BY <2>2, Here, NoneAssumption DEF Publish, Holding
<1>2. /\ Goto(t, f) /\ unseen' = unseen \ Written(t) /\ Ptr' = Ptr \cup {s}
      /\ UNCHANGED <<prog, mutex, list, objects, overlap>>
  BY Here DEF Publish, MemoryFence
<1>3. Proper(stack[t], f) /\ f.s = s /\ f.at = "enlist" /\ f.todo = {}
  BY <1>1 DEF Proper, Call, Frame, Access, Shutdown
<1> HIDE DEF f
<1>4. /\ Stacks' /\ CallsWell' /\ Moves(t, f)
      /\ Creating' = Creating /\ Publishing' = Publishing \ {s} /\ Enlisting' = Enlisting \cup {s}
      /\ Destroying' = Destroying /\ Clearing' = Clearing
  <2>1. /\ Its(stack[t][1], "create") = {} /\ Its(f, "create") = {}
        /\ Its(stack[t][1], "publish") = {s} /\ Its(f, "publish") = {}
        /\ Its(stack[t][1], "enlist") = {} /\ Its(f, "enlist") = {s}
        /\ Its(stack[t][1], "delete") = {} /\ Its(f, "delete") = {}
        /\ Its(stack[t][1], "clear") = {} /\ Its(f, "clear") = {}
    BY <1>1, <1>3 DEF Its
  <2>2. QED BY <1>1, <1>2, <1>3, <2>1, MoveStep
<1>5. Counted'
  <2>1. Holds(stack'[t]) = Holds(stack[t])
    BY <1>1, <1>3, <1>4, MoveHolds DEF Holding
  <2>2. QED BY <1>2, <1>4, <2>1, CountSame DEF IInv, Moves
<1>6. s \in Publishing /\ s \notin Creating /\ s \notin Ptr /\ s \notin Clearing
  <2>1. s \in Publishing
    BY <1>1 DEF Publishing, In
  <2>2. s \notin Creating
    BY <1>1, NotElsewhere DEF Places, Creating
  <2>3. QED BY <2>1, <2>2 DEF IInv, Pointed
<1>7. Pointed'
  <2>1. ASSUME NEW w \in unseen'
        PROVE  stack'[w[1]] # << >> /\ stack'[w[1]][1].at = "publish" /\ stack'[w[1]][1].s = w[2]
    <3>1. w \in unseen /\ w[1] \in Thread /\ w[1] # t
      BY <1>2 DEF IInv, TypeOK, Written
    <3>2. QED BY <1>4, <3>1 DEF IInv, Pointed, Moves
  <2>2. ASSUME NEW n \in Static
        PROVE  objects'[n] = IF n \in Publishing' \cup (Ptr' \ Clearing') THEN 1 ELSE 0
    BY <1>2, <1>4, <1>6 DEF IInv, Pointed
  <2>3. QED BY <1>2, <1>4, <1>6, <2>1, <2>2 DEF IInv, Pointed
<1>8. Listed' = Listed
  BY <1>2, <1>4, <1>6 DEF Listed
<1>9. ListWell'
  BY <1>2, <1>8, ListSame DEF IInv
<1>10. NeedsMet'
  <2>1. NeedMet(prog, Listed, stack[t], 1)
    BY <1>1 DEF IInv, NeedsMet
  <2>2. prog.needs[s] \subseteq Listed
    BY <1>1, <2>1 DEF NeedMet
  <2>3. QED BY <1>1, <1>2, <1>3, <1>4, <1>8, <2>2, MoveNeeds DEF IInv
<1>11. Undisturbed'
  BY <1>1, <1>2, <1>3, <1>4, MoveUndisturbed DEF IInv
<1>12. TypeOK'
  BY <1>1, <1>2, <1>4 DEF IInv, TypeOK, Stacks, mutex, list
<1>13. QED BY <1>4, <1>5, <1>7, <1>9, <1>10, <1>11, <1>12 DEF IInv

\* A new first of the list: all it needs is behind it.
LEMMA EnlistStep ==
  ASSUME IInv, NEW t \in Thread, Enlist(t)
  PROVE  IInv'
<1> DEFINE s == stack[t][1].s
           f == Call("return", s, {})
<1>1. /\ Stacks /\ prog \in Programs /\ stack[t] # << >> /\ holder = t /\ 1 \in DOMAIN stack[t]
      /\ stack[t][1].at = "enlist" /\ s \in Static /\ s # None /\ stack[t][1].todo = {}
  <2>1. stack[t][1].todo \subseteq Allowed(prog, stack[t][1]) /\ stack[t][1].at = "enlist"
    BY Here DEF Enlist
  <2>2. stack[t][1].todo = {}
    BY <2>1 DEF Allowed
  <2>3. QED BY <2>2, Here, NoneAssumption DEF Enlist, Holding
<1>2. /\ Goto(t, f) /\ Next' = [Next EXCEPT ![s] = StaticList] /\ StaticList' = s /\ release(t)
      /\ unseen' = IF depth = 1 THEN unseen \ Written(t) ELSE unseen
      /\ UNCHANGED <<prog, Ptr, objects, overlap>>
  BY Here DEF Enlist, Rest
<1>3. Proper(stack[t], f) /\ f.s = s /\ f.at = "return" /\ f.todo = {}
  BY <1>1 DEF Proper, Call, Frame, Access, Shutdown
<1>4. unseen' \subseteq unseen
  BY <1>2
<1> HIDE DEF f
<1>5. /\ Stacks' /\ CallsWell' /\ Moves(t, f)
      /\ Creating' = Creating /\ Publishing' = Publishing /\ Enlisting' = Enlisting \ {s}
      /\ Destroying' = Destroying /\ Clearing' = Clearing
  BY <1>1, <1>2, <1>3, MoveStep DEF Its
<1>6. Counted'
  <2>1. Holds(stack'[t]) = Holds(stack[t]) - 1
    BY <1>1, <1>3, <1>5, MoveHolds DEF Holding
  <2>2. QED BY <1>1, <1>2, <1>5, <2>1, CountDown DEF IInv, Moves
<1>7. s \in Enlisting /\ s \notin Destroying /\ s \notin Clearing /\ s \in Ptr
  <2>1. s \in Enlisting
    BY <1>1 DEF Enlisting, In
  <2>2. s \notin Destroying
    BY <1>1, NotElsewhere DEF Places, Destroying
  <2>3. s \notin Clearing
    BY <1>1, NotElsewhere DEF Places, Clearing
  <2>4. QED BY <2>1, <2>2, <2>3 DEF IInv, Pointed
<1>8. Pointed'
  <2>1. ASSUME NEW w \in unseen'
        PROVE  stack'[w[1]] # << >> /\ stack'[w[1]][1].at = "publish" /\ stack'[w[1]][1].s = w[2]
    <3>1. w \in unseen /\ w[1] \in Thread
      BY <1>4 DEF IInv, TypeOK
    <3>2. stack[w[1]] # << >> /\ stack[w[1]][1].at = "publish" /\ stack[w[1]][1].s = w[2]
      BY <3>1 DEF IInv, Pointed
    <3>3. w[1] # t
      BY <1>1, <3>2
    <3>4. QED BY <1>5, <3>1, <3>2, <3>3 DEF Moves
  <2>2. QED BY <1>2, <1>5, <2>1 DEF IInv, Pointed
<1>9. Listed' = Listed \cup {s} /\ s \notin Listed
  BY <1>2, <1>5, <1>7 DEF Listed
<1>10. prog.needs[s] \subseteq Listed
  <2>1. NeedMet(prog, Listed, stack[t], 1)
    BY <1>1 DEF IInv, NeedsMet
  <2>2. QED BY <1>1, <2>1 DEF NeedMet
<1>11. ListWell'
  <2>1. PICK L \in Seq(Static) : Chain(prog, StaticList, Next, Listed, L)
    BY DEF IInv, ListWell
  <2>2. Next \in [Static -> Static \cup {None}]
    BY DEF IInv, TypeOK
  <2>3. /\ << s >> \o L \in Seq(Static)
        /\ Chain(prog, s, [Next EXCEPT ![s] = StaticList], Listed \cup {s}, << s >> \o L)
    BY <1>1, <1>9, <1>10, <2>1, <2>2, ChainCons
  <2>4. Chain(prog', StaticList', Next', Listed', << s >> \o L)
    BY <1>2, <1>9, <2>3
  <2>5. QED BY <2>3, <2>4 DEF ListWell
<1>12. NeedsMet'
  BY <1>1, <1>2, <1>3, <1>5, <1>9, MoveNeeds DEF IInv
<1>13. Undisturbed'
  BY <1>1, <1>2, <1>3, <1>5, <1>7, MoveUndisturbed DEF IInv
<1>14. TypeOK'
  BY <1>1, <1>2, <1>4, <1>5, <1>6 DEF IInv, TypeOK, Stacks, Counted, release
<1>15. QED BY <1>5, <1>6, <1>8, <1>11, <1>12, <1>13, <1>14 DEF IInv

\* A shutdown gets the mutex: no other thread is in the middle of anything.
LEMMA AcquireAllStep ==
  ASSUME IInv, NEW t \in Thread, AcquireAll(t)
  PROVE  IInv'
<1> DEFINE f == Call("loop", None, {})
<1>1. /\ Stacks /\ prog \in Programs /\ stack[t] # << >> /\ Len(stack[t]) = 1
      /\ stack[t][1].at = "shutdown"
  BY Here DEF AcquireAll, Shutdown
<1>2. /\ Goto(t, f) /\ acquire(t) /\ UNCHANGED <<prog, list, memory>>
      /\ overlap' = overlap \cup {u \in Thread \ {t} : ~ Idle(u)}
  BY DEF AcquireAll
<1>3. Proper(stack[t], f) /\ f.at = "loop"
  BY <1>1 DEF Proper, Call, Frame, Shutdown
<1> HIDE DEF f
<1>4. Stacks' /\ CallsWell' /\ Moves(t, f) /\ Pointed' /\ ListWell' /\ NeedsMet'
  BY <1>1, <1>2, <1>3, PlainStep DEF memory, Places
<1>5. Counted'
  <2>1. Holds(stack'[t]) = Holds(stack[t]) + 1
    BY <1>1, <1>3, <1>4, MoveHolds DEF Holding
  <2>2. QED BY <1>2, <1>4, <2>1, CountUp DEF IInv, Moves
<1>6. holder' = t
  BY <1>2 DEF acquire
<1>7. ASSUME NEW u \in Thread \ {t} PROVE ~ ShutsDown(stack'[u])
  <2>1. SUFFICES ASSUME NEW k \in DOMAIN stack[u], stack[u][k].at \in {"loop", "delete", "clear"}
                 PROVE  FALSE
    BY <1>4 DEF ShutsDown, Moves
  <2>2. holder = u
    BY <1>1, <2>1, HasMutex DEF IInv, Holding
  <2>3. u # None
    BY NoneAssumption
  <2>4. QED BY <1>2, <2>2, <2>3 DEF acquire
<1>8. Undisturbed'
  <2>1. ASSUME NEW u \in Thread \ overlap', stack'[u] # << >>
        PROVE  /\ stack'[u][1].at # "shutdown" => \A v \in Thread \ {u} : ~ ShutsDown(stack'[v])
               /\ stack'[u][1].at = "return" => stack'[u][1].s \in Ptr'
    <3>1. u = t
      BY <1>2, <1>4, <2>1 DEF Moves, Idle
    <3>2. stack'[u][1].at = "loop"
      BY <1>3, <1>4, <3>1 DEF Moves
    <3>3. QED BY <1>7, <3>1, <3>2
  <2>2. QED BY <2>1 DEF Undisturbed
<1>9. TypeOK'
  BY <1>2, <1>4, <1>5 DEF IInv, TypeOK, Stacks, Counted, acquire, list, memory
<1>10. QED BY <1>4, <1>5, <1>8, <1>9 DEF IInv

\* The first of the list leaves it; what it needs stays.
LEMMA UnlinkStep ==
  ASSUME IInv, NEW t \in Thread, Unlink(t)
  PROVE  IInv'
<1> DEFINE s == StaticList
           f == Call("delete", s, prog.wants[s])
<1>1. /\ Stacks /\ prog \in Programs /\ stack[t] # << >> /\ holder = t /\ Len(stack[t]) = 1
      /\ stack[t][1].at = "loop" /\ DOMAIN stack[t] = 1 .. Len(stack[t])
  BY Here, Innermost DEF Unlink, Shutdown, Holding
<1>2. /\ Goto(t, f) /\ s # None /\ StaticList' = Next[s] /\ Next' = [Next EXCEPT ![s] = None]
      /\ UNCHANGED <<prog, mutex, memory, overlap>>
  BY DEF Unlink
<1>3. s \in Static /\ Next \in [Static -> Static \cup {None}]
  BY <1>2 DEF IInv, TypeOK
<1>4. Proper(stack[t], f) /\ f.s = s /\ f.at = "delete"
  BY <1>1, <1>2, <1>3, RankType DEF Proper, Call, Frame, Shutdown, Allowed
<1> HIDE DEF f
<1>5. /\ Stacks' /\ CallsWell' /\ Moves(t, f)
      /\ Creating' = Creating /\ Publishing' = Publishing /\ Enlisting' = Enlisting
      /\ Destroying' = Destroying \cup {s} /\ Clearing' = Clearing
  BY <1>1, <1>2, <1>4, MoveStep DEF Its
<1>6. Counted'
  <2>1. Holds(stack'[t]) = Holds(stack[t])
    BY <1>1, <1>4, <1>5, MoveHolds DEF Holding
  <2>2. QED BY <1>2, <1>5, <2>1, CountSame DEF IInv, Moves
<1>7. PICK L \in Seq(Static) : Chain(prog, s, Next, Listed, L)
  BY DEF IInv, ListWell
<1>8. /\ s \in Listed /\ Tail(L) \in Seq(Static)
      /\ Chain(prog, Next[s], [Next EXCEPT ![s] = None], Listed \ {s}, Tail(L))
  BY <1>2, <1>3, <1>7, ChainTail
<1>9. Listed' = Listed \ {s}
  BY <1>2, <1>5 DEF Listed, memory
<1>10. ListWell'
  <2>1. Chain(prog', StaticList', Next', Listed', Tail(L))
    BY <1>2, <1>8, <1>9
  <2>2. QED BY <1>8, <2>1 DEF ListWell
<1>11. Pointed'
  <2>1. ASSUME NEW w \in unseen'
        PROVE  stack'[w[1]] # << >> /\ stack'[w[1]][1].at = "publish" /\ stack'[w[1]][1].s = w[2]
    <3>1. w \in unseen /\ w[1] \in Thread
      BY <1>2 DEF IInv, TypeOK, memory
    <3>2. stack[w[1]] # << >> /\ stack[w[1]][1].at = "publish" /\ stack[w[1]][1].s = w[2]
      BY <3>1 DEF IInv, Pointed
    <3>3. w[1] # t
      BY <1>1, <3>2
    <3>4. QED BY <1>5, <3>1, <3>2, <3>3 DEF Moves
  <2>2. s \in Ptr
    BY <1>8 DEF Listed
  <2>3. QED BY <1>2, <1>5, <2>1, <2>2 DEF IInv, Pointed, memory
<1>12. NeedsMet'
  <2>1. ASSUME NEW u \in Thread, NEW k \in DOMAIN stack'[u] PROVE NeedMet(prog, Listed', stack'[u], k)
    <3>1. CASE u = t
      <4>1. k = 1 /\ stack'[t][1].at = "delete"
        BY <1>1, <1>4, <1>5, <3>1 DEF Moves
      <4>2. QED BY <3>1, <4>1 DEF NeedMet
    <3>2. CASE u # t
      <4>1. stack'[u] = stack[u] /\ k \in DOMAIN stack[u] /\ holder # u
        BY <1>1, <1>5, <3>2 DEF Moves
      <4>2. k = 1 /\ stack[u][k].at \notin Holding
        <5>1. k \in Nat /\ k > 0
          BY <1>1, <4>1 DEF Stacks
        <5>2. ~ (stack[u][k].at \in Holding \/ k > 1)
          BY <1>1, <4>1, HasMutex DEF IInv
        <5>3. QED BY <5>1, <5>2
      <4>3. ~ (Len(stack[u]) > 1)
        <5>1. Len(stack[u]) > 1 => 2 \in DOMAIN stack[u] /\ 2 > 1
          BY <1>1 DEF Stacks
        <5>2. QED BY <1>1, <4>1, <5>1, HasMutex DEF IInv
      <4>4. QED BY <4>1, <4>2, <4>3 DEF NeedMet, Holding
    <3>3. QED BY <3>1, <3>2
  <2>2. QED BY <1>2, <2>1 DEF NeedsMet
<1>13. Undisturbed'
  BY <1>1, <1>2, <1>4, <1>5, MoveUndisturbed DEF IInv, memory
<1>14. TypeOK'
  BY <1>2, <1>3, <1>5 DEF IInv, TypeOK, Stacks, mutex, memory
<1>15. QED BY <1>5, <1>6, <1>10, <1>11, <1>12, <1>13, <1>14 DEF IInv

LEMMA DeleteStep ==
  ASSUME IInv, NEW t \in Thread, Delete(t)
  PROVE  IInv'
<1> DEFINE s == stack[t][1].s
           f == Call("clear", s, {})
<1>1. /\ Stacks /\ prog \in Programs /\ stack[t] # << >> /\ holder = t /\ 1 \in DOMAIN stack[t]
      /\ Len(stack[t]) = 1 /\ stack[t][1].at = "delete" /\ s \in Static /\ s # None
  BY Here, NoneAssumption DEF Delete, Holding, Shutdown
<1>2. /\ Goto(t, f) /\ objects' = [objects EXCEPT ![s] = @ - 1]
      /\ UNCHANGED <<prog, mutex, list, Ptr, unseen, overlap>>
  BY Here DEF Delete
<1>3. Proper(stack[t], f) /\ f.s = s /\ f.at = "clear"
  BY <1>1 DEF Proper, Call, Frame, Shutdown
<1> HIDE DEF f
<1>4. /\ Stacks' /\ CallsWell' /\ Moves(t, f)
      /\ Creating' = Creating /\ Publishing' = Publishing /\ Enlisting' = Enlisting
      /\ Destroying' = Destroying \ {s} /\ Clearing' = Clearing \cup {s}
  <2>1. /\ Stacks' /\ CallsWell' /\ Moves(t, f)
        /\ Creating' = (Creating \ Its(stack[t][1], "create")) \cup Its(f, "create")
        /\ Publishing' = (Publishing \ Its(stack[t][1], "publish")) \cup Its(f, "publish")
        /\ Enlisting' = (Enlisting \ Its(stack[t][1], "enlist")) \cup Its(f, "enlist")
        /\ Destroying' = (Destroying \ Its(stack[t][1], "delete")) \cup Its(f, "delete")
        /\ Clearing' = (Clearing \ Its(stack[t][1], "clear")) \cup Its(f, "clear")
    BY <1>1, <1>2, <1>3, MoveStep
  <2>2. QED BY <1>1, <1>3, <2>1 DEF Its
<1>5. Counted'
  <2>1. Holds(stack'[t]) = Holds(stack[t])
    BY <1>1, <1>3, <1>4, MoveHolds DEF Holding
  <2>2. QED BY <1>2, <1>4, <2>1, CountSame DEF IInv, Moves
<1>6. s \in Destroying /\ s \in Ptr /\ s \notin Publishing /\ objects[s] = 1
  <2>1. s \in Destroying
    BY <1>1 DEF Destroying, In
  <2>2. s \notin Clearing
    BY <1>1, NotElsewhere DEF Places, Clearing
  <2>3. QED BY <1>1, <2>1, <2>2 DEF IInv, Pointed
<1>7. objects' \in [Static -> Nat] /\ \A n \in Static : objects'[n] = IF n = s THEN 0 ELSE objects[n]
  BY <1>1, <1>2, <1>6 DEF IInv, TypeOK
<1>8. Pointed'
  <2>1. ASSUME NEW w \in unseen'
        PROVE  stack'[w[1]] # << >> /\ stack'[w[1]][1].at = "publish" /\ stack'[w[1]][1].s = w[2]
    <3>1. w \in unseen /\ w[1] \in Thread
      BY <1>2 DEF IInv, TypeOK
    <3>2. stack[w[1]] # << >> /\ stack[w[1]][1].at = "publish" /\ stack[w[1]][1].s = w[2]
      BY <3>1 DEF IInv, Pointed
    <3>3. w[1] # t
      BY <1>1, <3>2
    <3>4. QED BY <1>4, <3>1, <3>2, <3>3 DEF Moves
  <2>2. ASSUME NEW n \in Static
        PROVE  objects'[n] = IF n \in Publishing' \cup (Ptr' \ Clearing') THEN 1 ELSE 0
    BY <1>2, <1>4, <1>6, <1>7 DEF IInv, Pointed
  <2>3. QED BY <1>2, <1>4, <1>6, <2>1, <2>2 DEF IInv, Pointed
<1>9. Listed' = Listed
  BY <1>2, <1>4, <1>6 DEF Listed
<1>10. ListWell'
  BY <1>2, <1>9, ListSame DEF IInv
<1>11. NeedsMet'
  BY <1>1, <1>2, <1>3, <1>4, <1>9, MoveNeeds DEF IInv
<1>12. Undisturbed'
  BY <1>1, <1>2, <1>3, <1>4, MoveUndisturbed DEF IInv
<1>13. TypeOK'
  BY <1>2, <1>4, <1>7 DEF IInv, TypeOK, Stacks, mutex, list
<1>14. QED BY <1>4, <1>5, <1>8, <1>10, <1>11, <1>12, <1>13 DEF IInv

\* An access that this could disturb is one beside which somebody shuts down.
LEMMA ClearStep ==
  ASSUME IInv, NEW t \in Thread, Clear(t)
  PROVE  IInv'
<1> DEFINE s == stack[t][1].s
           f == Call("loop", None, {})
<1>1. /\ Stacks /\ prog \in Programs /\ stack[t] # << >> /\ holder = t /\ 1 \in DOMAIN stack[t]
      /\ Len(stack[t]) = 1 /\ stack[t][1].at = "clear" /\ s \in Static /\ s # None
  BY Here, NoneAssumption DEF Clear, Holding, Shutdown
<1>2. /\ Goto(t, f) /\ Ptr' = Ptr \ {s}
      /\ UNCHANGED <<prog, mutex, list, objects, unseen, overlap>>
  BY Here DEF Clear
<1>3. Proper(stack[t], f) /\ f.at = "loop"
  BY <1>1 DEF Proper, Call, Frame, Shutdown
<1> HIDE DEF f
<1>4. /\ Stacks' /\ CallsWell' /\ Moves(t, f)
      /\ Creating' = Creating /\ Publishing' = Publishing /\ Enlisting' = Enlisting
      /\ Destroying' = Destroying /\ Clearing' = Clearing \ {s}
  BY <1>1, <1>2, <1>3, MoveStep DEF Its
<1>5. Counted'
  <2>1. Holds(stack'[t]) = Holds(stack[t])
    BY <1>1, <1>3, <1>4, MoveHolds DEF Holding
  <2>2. QED BY <1>2, <1>4, <2>1, CountSame DEF IInv, Moves
<1>6. s \in Clearing /\ s \notin Enlisting /\ s \notin Destroying /\ s \in Ptr /\ s \notin Publishing
  <2>1. s \in Clearing
    BY <1>1 DEF Clearing, In
  <2>2. s \notin Enlisting
    BY <1>1, NotElsewhere DEF Places, Enlisting
  <2>3. s \notin Destroying
    BY <1>1, NotElsewhere DEF Places, Destroying
  <2>4. QED BY <2>1, <2>2, <2>3 DEF IInv, Pointed
<1>7. Pointed'
  <2>1. ASSUME NEW w \in unseen'
        PROVE  stack'[w[1]] # << >> /\ stack'[w[1]][1].at = "publish" /\ stack'[w[1]][1].s = w[2]
    <3>1. w \in unseen /\ w[1] \in Thread
      BY <1>2 DEF IInv, TypeOK
    <3>2. stack[w[1]] # << >> /\ stack[w[1]][1].at = "publish" /\ stack[w[1]][1].s = w[2]
      BY <3>1 DEF IInv, Pointed
    <3>3. w[1] # t
      BY <1>1, <3>2
    <3>4. QED BY <1>4, <3>1, <3>2, <3>3 DEF Moves
  <2>2. ASSUME NEW n \in Static
        PROVE  objects'[n] = IF n \in Publishing' \cup (Ptr' \ Clearing') THEN 1 ELSE 0
    BY <1>2, <1>4, <1>6 DEF IInv, Pointed
  <2>3. QED BY <1>2, <1>4, <1>6, <2>1, <2>2 DEF IInv, Pointed
<1>8. Listed' = Listed
  BY <1>2, <1>4, <1>6 DEF Listed
<1>9. ListWell'
  BY <1>2, <1>8, ListSame DEF IInv
<1>10. NeedsMet'
  BY <1>1, <1>2, <1>3, <1>4, <1>8, MoveNeeds DEF IInv
<1>11. Undisturbed'
  <2>1. ShutsDown(stack[t])
    BY <1>1 DEF ShutsDown
  <2>2. ASSUME NEW u \in Thread \ ({t} \cup overlap), stack[u] # << >>, stack[u][1].at = "return"
        PROVE  FALSE
    BY <2>1, <2>2 DEF IInv, Undisturbed
  <2>3. QED BY <1>1, <1>2, <1>3, <1>4, <2>2, MoveUndisturbed DEF IInv
<1>12. TypeOK'
  BY <1>2, <1>4 DEF IInv, TypeOK, Stacks, mutex, list
<1>13. QED BY <1>4, <1>5, <1>7, <1>9, <1>10, <1>11, <1>12 DEF IInv

-----------------------------------------------------------------------------
(***************************************************************************)
(* The theorems.                                                           *)
(***************************************************************************)
LEMMA InitInv == Init => IInv
<1> SUFFICES ASSUME Init PROVE IInv
  OBVIOUS
<1>1. /\ prog \in Programs /\ holder = None /\ depth = 0 /\ Ptr = {} /\ StaticList = None
      /\ objects = [s \in Static |-> 0] /\ unseen = {} /\ overlap = {}
      /\ \A t \in Thread : stack[t] = << >>
  BY DEF Init
<1>2. TypeOK
  BY DEF Init, TypeOK
<1>3. DOMAIN << >> = {}
  OBVIOUS
<1>4. CallsWell
  BY <1>1, <1>3 DEF CallsWell, StackWell
<1>5. Counted
  BY <1>1, NoneAssumption DEF Counted, Holds
<1>6. ASSUME NEW place PROVE In(stack, place) = {}
  BY <1>1, <1>3 DEF In
<1>7. Pointed
  BY <1>1, <1>6 DEF Pointed, Creating, Publishing, Enlisting, Destroying, Clearing
<1>8. ListWell
  <2>1. Chain(prog, StaticList, Next, Listed, << >>)
    BY <1>1, <1>3 DEF Chain, Listed
  <2>2. << >> \in Seq(Static)
    OBVIOUS
  <2>3. QED BY <2>1, <2>2 DEF ListWell
<1>9. NeedsMet
  BY <1>1, <1>3 DEF NeedsMet
<1>10. Undisturbed
  BY <1>1 DEF Undisturbed
<1>11. QED BY <1>2, <1>4, <1>5, <1>7, <1>8, <1>9, <1>10 DEF IInv

LEMMA StepInv == IInv /\ [NextStep]_vars => IInv'
<1>1. ASSUME IInv, UNCHANGED vars PROVE IInv'
  <2>1. /\ Creating' = Creating /\ Publishing' = Publishing /\ Enlisting' = Enlisting
        /\ Destroying' = Destroying /\ Clearing' = Clearing /\ Listed' = Listed
    BY <1>1 DEF vars, Creating, Publishing, Enlisting, Destroying, Clearing, Listed
  <2>2. TypeOK' /\ CallsWell' /\ Counted'
    BY <1>1 DEF vars, IInv, TypeOK, CallsWell, Counted
  <2>3. Pointed' /\ ListWell' /\ NeedsMet' /\ Undisturbed'
    BY <1>1, <2>1 DEF vars, IInv, Pointed, ListWell, NeedsMet, Undisturbed
  <2>4. QED BY <2>2, <2>3 DEF IInv
<1>2. ASSUME IInv, NEW t \in Thread, Step(t) PROVE IInv'
  BY <1>2, PeekStep, AcquireStep, CheckStep, UseStep, CreateStep, PublishStep, EnlistStep,
     ReturnStep, AcquireAllStep, UnlinkStep, DeleteStep, ClearStep, EndShutdownStep DEF Step
<1>3. ASSUME IInv, NextStep PROVE IInv'
  BY <1>2, <1>3, ArriveStep, BeginShutdownStep, BeginStep DEF NextStep
<1>4. QED BY <1>1, <1>3

\* The inductive invariant holds in every state.
THEOREM Invariant == Spec => []IInv
BY InitInv, StepInv, PTL DEF Spec

\* The mutex, the list and the memory have the types they are declared with.
THEOREM TypeCorrect == Spec => []TypeOK
<1>1. IInv => TypeOK
  BY DEF IInv
<1>2. QED BY <1>1, Invariant, PTL

\* However many threads ask for a static at once, there is one object of it,
\* and when nobody has the mutex the pointer is set just for what there is.
THEOREM OneObjectCorrect == Spec => []OneObject
<1>1. ASSUME IInv PROVE OneObject
  <2>1. ASSUME NEW s \in Static PROVE objects[s] <= 1
    BY <1>1 DEF IInv, Pointed
  <2>2. ASSUME NEW s \in Static, holder = None PROVE objects[s] = 1 <=> s \in Ptr
    <3>1. ASSUME NEW place \in Places PROVE s \notin In(stack, place)
      <4>1. SUFFICES ASSUME NEW u \in Thread, NEW k \in DOMAIN stack[u], stack[u][k].at = place
                     PROVE  FALSE
        BY DEF In
      <4>2. holder = u
        BY <1>1, <4>1, HasMutex DEF IInv, TypeOK, Stacks, Places, Holding
      <4>3. QED BY <2>2, <4>2, NoneAssumption
    <3>2. s \notin Publishing /\ s \notin Clearing
      BY <3>1 DEF Places, Publishing, Clearing
    <3>3. QED BY <1>1, <3>2 DEF IInv, Pointed
  <2>3. QED BY <2>1, <2>2 DEF OneObject
<1>2. QED BY <1>1, Invariant, PTL

\* An access beside which nobody shuts down returns an object that exists and
\* that its thread can see: the double-checked locking is right.
THEOREM GoodReturnCorrect == Spec => []GoodReturn
<1>1. ASSUME IInv, NEW t \in Thread, At(t, "return"), t \notin overlap
      PROVE  /\ Current(t) \in Ptr
             /\ objects[Current(t)] = 1
             /\ \A u \in Thread \ {t} : <<u, Current(t)>> \notin unseen
  <2> DEFINE s == stack[t][1].s
  <2>1. /\ Stacks /\ stack[t] # << >> /\ stack[t][1].at = "return" /\ Current(t) = s
        /\ DOMAIN stack[t] = 1 .. Len(stack[t])
    BY <1>1, Here, Innermost
  <2>2. s \in Ptr /\ \A u \in Thread \ {t} : ~ ShutsDown(stack[u])
    BY <1>1, <2>1 DEF IInv, Undisturbed
  <2>3. s \in Static
    BY <1>1, <2>2 DEF IInv, TypeOK
  <2>4. s \notin Clearing
    <3>1. SUFFICES ASSUME NEW u \in Thread, NEW k \in DOMAIN stack[u], stack[u][k].at = "clear"
                   PROVE  FALSE
      BY DEF Clearing, In
    <3>2. u = t
      BY <2>2, <3>1 DEF ShutsDown
    <3>3. k = 1
      <4>1. ~ (k > 1)
        BY <1>1, <2>1, <3>1, Outermost DEF IInv
      <4>2. QED BY <2>1, <3>2, <4>1
    <3>4. QED BY <2>1, <3>1, <3>2, <3>3
  <2>5. objects[s] = 1
    BY <1>1, <2>2, <2>3, <2>4 DEF IInv, Pointed
  <2>6. ASSUME NEW u \in Thread, <<u, s>> \in unseen PROVE FALSE
    <3>1. stack[u] # << >> /\ stack[u][1].at = "publish" /\ stack[u][1].s = s
      BY <1>1, <2>6 DEF IInv, Pointed
    <3>2. 1 \in DOMAIN stack[u]
      BY <2>1, <3>1, Innermost DEF Idle
    <3>3. s \in Publishing
      BY <2>3, <3>1, <3>2 DEF Publishing, In
    <3>4. QED BY <1>1, <2>2, <3>3 DEF IInv, Pointed
  <2>7. QED BY <2>1, <2>2, <2>5, <2>6
<1>2. IInv => GoodReturn
  BY <1>1 DEF GoodReturn
<1>3. QED BY <1>2, Invariant, PTL

\* What a constructor has used is there, and not being deleted, as long as
\* what was made.
THEOREM NeedsOutliveCorrect == Spec => []NeedsOutlive
<1>1. ASSUME IInv, NEW s \in Static PROVE Deleting(s) <=> s \in Destroying \cup Clearing
  BY DEF Deleting, Destroying, Clearing, In
<1>2. ASSUME IInv, NEW s \in Ptr, ~ Deleting(s), NEW n \in prog.needs[s]
      PROVE  n \in Ptr /\ objects[n] = 1 /\ ~ Deleting(n)
  <2>1. s \in Static /\ n \in Static
    BY <1>2, RankType DEF IInv, TypeOK
  <2>2. s \notin Destroying /\ s \notin Clearing
    BY <1>1, <1>2, <2>1
  <2>3. CASE s \in Listed
    <3>1. PICK L \in Seq(Static) : Chain(prog, StaticList, Next, Listed, L)
      BY <1>2 DEF IInv, ListWell
    <3>2. PICK i \in DOMAIN L : L[i] = s
      BY <2>3, <3>1 DEF Chain
    <3>3. n \in Listed
      BY <1>2, <3>1, <3>2 DEF Chain
    <3>4. QED BY <1>1, <1>2, <2>1, <3>3 DEF IInv, Pointed, Listed
  <2>4. CASE s \in Enlisting
    <3>1. PICK u \in Thread : \E k \in DOMAIN stack[u] : stack[u][k].at = "enlist" /\ stack[u][k].s = s
      BY <2>4 DEF Enlisting, In
    <3>2. PICK k \in DOMAIN stack[u] : stack[u][k].at = "enlist" /\ stack[u][k].s = s
      BY <3>1
    <3>3. ~ (k > 1) /\ stack[u][k].todo \subseteq Allowed(prog, stack[u][k])
      BY <1>2, <3>2, Outermost DEF IInv, TypeOK, Stacks
    <3>4. stack[u][k].todo = {}
      BY <3>2, <3>3 DEF Allowed
    <3>5. NeedMet(prog, Listed, stack[u], k)
      BY <1>2 DEF IInv, NeedsMet
    <3>6. n \in Listed
      BY <1>2, <3>2, <3>3, <3>4, <3>5 DEF NeedMet
    <3>7. QED BY <1>1, <1>2, <2>1, <3>6 DEF IInv, Pointed, Listed
  <2>5. QED BY <1>2, <2>2, <2>3, <2>4 DEF Listed
<1>3. IInv => NeedsOutlive
  <2>1. SUFFICES ASSUME IInv, NEW s \in Static, s \in Ptr, ~ Deleting(s), NEW n \in prog.needs[s]
                 PROVE  n \in Ptr /\ objects[n] = 1 /\ ~ Deleting(n)
    BY DEF NeedsOutlive, IInv, TypeOK
  <2>2. QED BY <1>2, <2>1
<1>4. QED BY <1>3, Invariant, PTL

\* A shutdown that ends leaves no object and no pointer.
THEOREM NothingLeftCorrect == Spec => []NothingLeft
<1>1. ASSUME IInv, NEW t \in Thread, At(t, "loop"), StaticList = None
      PROVE  Ptr = {} /\ \A s \in Static : objects[s] = 0
  <2>1. /\ Stacks /\ holder = t /\ Len(stack[t]) = 1 /\ stack[t][1].at = "loop"
        /\ DOMAIN stack[t] = 1 .. Len(stack[t])
    BY <1>1, Here, Innermost DEF Shutdown, Holding
  <2>2. ASSUME NEW place \in Places PROVE In(stack, place) = {}
    <3>1. SUFFICES ASSUME NEW u \in Thread, NEW k \in DOMAIN stack[u], stack[u][k].at = place
                   PROVE  FALSE
      BY DEF In
    <3>2. holder = u
      BY <1>1, <2>1, <3>1, HasMutex DEF IInv, Places, Holding
    <3>3. k = 1
      BY <2>1, <3>2
    <3>4. QED BY <2>1, <3>1, <3>2, <3>3 DEF Places
  <2>3. Publishing = {} /\ Enlisting = {} /\ Destroying = {} /\ Clearing = {}
    BY <2>2 DEF Places, Publishing, Enlisting, Destroying, Clearing
  <2>4. Ptr = {}
    <3>1. PICK L \in Seq(Static) : Chain(prog, StaticList, Next, Listed, L)
      BY <1>1 DEF IInv, ListWell
    <3>2. L = << >>
      <4>1. L # << >> => 1 \in DOMAIN L /\ L[1] \in Static
        OBVIOUS
      <4>2. L # << >> => L[1] = None
        BY <1>1, <3>1 DEF Chain
      <4>3. QED BY <4>1, <4>2, NoneAssumption
    <3>3. Listed = {}
      BY <3>1, <3>2 DEF Chain
    <3>4. QED BY <2>3, <3>3 DEF Listed
  <2>5. QED BY <1>1, <2>3, <2>4 DEF IInv, Pointed
<1>2. IInv => NothingLeft
  BY <1>1 DEF NothingLeft
<1>3. QED BY <1>2, Invariant, PTL

=============================================================================
