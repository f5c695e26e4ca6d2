---------------------------- MODULE ManagedStatic ----------------------------
(***************************************************************************)
(* Global objects made on demand by any thread (ManagedStatic.h and        *)
(* lib/Support/ManagedStatic.cpp of the LLVM in this repository, built     *)
(* with threads): double-checked locking under one recursive mutex, a list *)
(* that destroys in reverse order, and constructors and destructors that   *)
(* use other such objects.                                                 *)
(*                                                                         *)
(* Memory is weak: what a constructor has written reaches other threads    *)
(* later, at the latest when its thread passes a fence or frees the mutex. *)
(***************************************************************************)
EXTENDS Integers, Sequences, FiniteSets

CONSTANTS
  Thread,
  Static,
  Programs,  \* which statics constructors and destructors use
  None       \* no thread, no static

Program == [needs : [Static -> SUBSET Static], wants : [Static -> SUBSET Static]]

ASSUME StaticAssumption == IsFiniteSet(Static)
ASSUME NoneAssumption == None \notin Thread \cup Static

\* A static that leads back to itself would call its constructor for ever: the
\* statics have ranks, and use only those of lower rank.
Ranks(P) ==
  {rank \in [Static -> 1 .. Cardinality(Static)] :
     \A s \in Static : \A n \in P.needs[s] \cup P.wants[s] : rank[n] < rank[s]}

ASSUME ProgramsAssumption ==
  Programs \subseteq Program /\ \A P \in Programs : Ranks(P) # {}

VARIABLES
  prog,        \* one of Programs
  stack,       \* the calls of each thread, the innermost first
  holder, depth,   \* the mutex: who has it, and how often
  Ptr,         \* the statics whose pointer is set
  StaticList, Next,   \* the list of what there is to be destroyed
  objects,     \* how many objects of each static exist
  unseen,      \* <<t, s>>: other threads may not see all t has written of s
  overlap      \* history: the threads whose access ran beside a shutdown

vars == <<prog, stack, holder, depth, Ptr, StaticList, Next, objects, unseen, overlap>>
mutex == <<holder, depth>>
list == <<StaticList, Next>>
memory == <<Ptr, objects, unseen>>

Access == {"peek", "acquire", "check", "create", "publish", "enlist", "return"}
Shutdown == {"shutdown", "loop", "delete", "clear"}

\* A call: where it is, of which static, and which its creator or deleter
\* has still to use.
Frame == [at : Access \cup Shutdown, s : Static \cup {None}, todo : SUBSET Static]
Call(at, s, todo) == [at |-> at, s |-> s, todo |-> todo]

Idle(t) == stack[t] = << >>
At(t, place) == ~ Idle(t) /\ Head(stack[t]).at = place
Current(t) == Head(stack[t]).s
Todo(t) == Head(stack[t]).todo

Push(t, f) == stack' = [stack EXCEPT ![t] = <<f>> \o @]
Pop(t) == stack' = [stack EXCEPT ![t] = Tail(@)]
Goto(t, f) == stack' = [stack EXCEPT ![t] = <<f>> \o Tail(@)]

\* llvm_shutdown is running and has the mutex.
ShuttingDown ==
  \E t \in Thread : \E k \in DOMAIN stack[t] : stack[t][k].at \in {"loop", "delete", "clear"}

-----------------------------------------------------------------------------
\* Variant: the mutex does not count.
NotCounted(t) == holder \in {None, t} /\ holder' = t /\ depth' = 1

\* pthread_mutex_lock and pthread_mutex_unlock on a recursive mutex.
acquire(t) ==
  /\ holder \in {None, t}
  /\ holder' = t
  /\ depth' = depth + 1

release(t) ==
  /\ depth' = depth - 1
  /\ holder' = IF depth = 1 THEN None ELSE holder

Written(t) == {w \in unseen : w[1] = t}

\* Variant: no fence.
NoFence(t) == {}

\* Which of what t has written is visible once it has passed MemoryFence.
MemoryFence(t) == Written(t)

-----------------------------------------------------------------------------
Init ==
  /\ prog \in Programs
  /\ stack = [t \in Thread |-> << >>]
  /\ holder = None /\ depth = 0
  /\ Ptr = {}
  /\ StaticList = None /\ Next = [s \in Static |-> None]
  /\ objects = [s \in Static |-> 0]
  /\ unseen = {}
  /\ overlap = {}

\* operator* and operator->.
Begin(t, s) ==
  /\ Idle(t)
  /\ Push(t, Call("peek", s, {}))
  /\ overlap' = IF ShuttingDown THEN overlap \cup {t} ELSE overlap \ {t}
  /\ UNCHANGED <<prog, mutex, list, memory>>

\* void* tmp = Ptr
Peek(t) ==
  /\ At(t, "peek")
  /\ Goto(t, Call(IF Current(t) \in Ptr THEN "return" ELSE "acquire", Current(t), {}))
  /\ UNCHANGED <<prog, mutex, list, memory, overlap>>

\* RegisterManagedStatic.
Acquire(t) ==
  /\ At(t, "acquire")
  /\ acquire(t)
  /\ Goto(t, Call("check", Current(t), {}))
  /\ UNCHANGED <<prog, list, memory, overlap>>

\* Variant: the pointer is not looked at again.
NotAgain(s) == TRUE

\* if (!Ptr)
Missing(s) == s \notin Ptr

\* Variant: the mutex is kept if somebody else was faster.
Kept(t) ==
  /\ At(t, "check")
  /\ \/ Missing(Current(t)) /\ Goto(t, Call("create", Current(t), prog.needs[Current(t)]))
     \/ ~ Missing(Current(t)) /\ Goto(t, Call("return", Current(t), {}))
  /\ UNCHANGED <<prog, mutex, list, memory, overlap>>

Check(t) ==
  /\ At(t, "check")
  /\ \/ /\ Missing(Current(t))
        /\ Goto(t, Call("create", Current(t), prog.needs[Current(t)]))
        /\ UNCHANGED <<mutex, unseen>>
     \/ /\ ~ Missing(Current(t))
        /\ Goto(t, Call("return", Current(t), {}))
        /\ release(t)
        /\ unseen' = IF depth = 1 THEN unseen \ Written(t) ELSE unseen
  /\ UNCHANGED <<prog, list, Ptr, objects, overlap>>

\* A constructor or destructor uses another static.
Use(t) ==
  /\ At(t, "create") \/ At(t, "delete")
  /\ \E s \in Todo(t) :
       stack' = [stack EXCEPT ![t] =
         <<Call("peek", s, {}), Call(Head(@).at, Current(t), Todo(t) \ {s})>> \o Tail(@)]
  /\ UNCHANGED <<prog, mutex, list, memory, overlap>>

Create(t) ==
  /\ At(t, "create")
  /\ Todo(t) = {}
  /\ objects' = [objects EXCEPT ![Current(t)] = @ + 1]
  /\ unseen' = unseen \cup {<<t, Current(t)>>}
  /\ Goto(t, Call("publish", Current(t), {}))
  /\ UNCHANGED <<prog, mutex, list, Ptr, overlap>>

\* sys::MemoryFence(); Ptr = tmp
Publish(t) ==
  /\ At(t, "publish")
  /\ unseen' = unseen \ MemoryFence(t)
  /\ Ptr' = Ptr \cup {Current(t)}
  /\ Goto(t, Call("enlist", Current(t), {}))
  /\ UNCHANGED <<prog, mutex, list, objects, overlap>>

\* Variant: the new element is put in the place of the list.
Alone(s) == None
\* Next = StaticList
Rest(s) == StaticList

\* Variant: it is put behind the first.
Behind(t) ==
  /\ At(t, "enlist")
  /\ \/ /\ StaticList = None
        /\ StaticList' = Current(t)
        /\ Next' = [Next EXCEPT ![Current(t)] = None]
     \/ /\ StaticList # None
        /\ Next' = [Next EXCEPT ![StaticList] = Current(t), ![Current(t)] = Next[StaticList]]
        /\ UNCHANGED StaticList
  /\ release(t)
  /\ unseen' = IF depth = 1 THEN unseen \ Written(t) ELSE unseen
  /\ Goto(t, Call("return", Current(t), {}))
  /\ UNCHANGED <<prog, Ptr, objects, overlap>>

Enlist(t) ==
  /\ At(t, "enlist")
  /\ Next' = [Next EXCEPT ![Current(t)] = Rest(Current(t))]
  /\ StaticList' = Current(t)
  /\ release(t)
  /\ unseen' = IF depth = 1 THEN unseen \ Written(t) ELSE unseen
  /\ Goto(t, Call("return", Current(t), {}))
  /\ UNCHANGED <<prog, Ptr, objects, overlap>>

\* return *static_cast<C*>(Ptr)
Return(t) ==
  /\ At(t, "return")
  /\ Pop(t)
  /\ UNCHANGED <<prog, mutex, list, memory, overlap>>

-----------------------------------------------------------------------------
\* llvm_shutdown, by anybody who is not in an access.
BeginShutdown(t) ==
  /\ Idle(t)
  /\ Push(t, Call("shutdown", None, {}))
  /\ overlap' = overlap \ {t}
  /\ UNCHANGED <<prog, mutex, list, memory>>

AcquireAll(t) ==
  /\ At(t, "shutdown")
  /\ acquire(t)
  /\ overlap' = overlap \cup {u \in Thread \ {t} : ~ Idle(u)}
  /\ Goto(t, Call("loop", None, {}))
  /\ UNCHANGED <<prog, list, memory>>

\* StaticList->destroy(), up to the deleter.
Unlink(t) ==
  /\ At(t, "loop")
  /\ StaticList # None
  /\ StaticList' = Next[StaticList]
  /\ Next' = [Next EXCEPT ![StaticList] = None]
  /\ Goto(t, Call("delete", StaticList, prog.wants[StaticList]))
  /\ UNCHANGED <<prog, mutex, memory, overlap>>

\* DeleterFn(Ptr)
Delete(t) ==
  /\ At(t, "delete")
  /\ Todo(t) = {}
  /\ objects' = [objects EXCEPT ![Current(t)] = @ - 1]
  /\ Goto(t, Call("clear", Current(t), {}))
  /\ UNCHANGED <<prog, mutex, list, Ptr, unseen, overlap>>

\* Ptr = nullptr
Clear(t) ==
  /\ At(t, "clear")
  /\ Ptr' = Ptr \ {Current(t)}
  /\ Goto(t, Call("loop", None, {}))
  /\ UNCHANGED <<prog, mutex, list, objects, unseen, overlap>>

EndShutdown(t) ==
  /\ At(t, "loop")
  /\ StaticList = None
  /\ release(t)
  /\ unseen' = IF depth = 1 THEN unseen \ Written(t) ELSE unseen
  /\ Pop(t)
  /\ UNCHANGED <<prog, list, Ptr, objects, overlap>>

\* Memory: something t has written arrives.
Arrive(t) ==
  /\ \E w \in Written(t) : unseen' = unseen \ {w}
  /\ UNCHANGED <<prog, stack, mutex, list, Ptr, objects, overlap>>

Step(t) ==
  \/ Peek(t) \/ Acquire(t) \/ Check(t) \/ Use(t) \/ Create(t) \/ Publish(t)
  \/ Enlist(t) \/ Return(t)
  \/ AcquireAll(t) \/ Unlink(t) \/ Delete(t) \/ Clear(t) \/ EndShutdown(t)

NextStep ==
  \E t \in Thread : Step(t) \/ Arrive(t) \/ BeginShutdown(t) \/ \E s \in Static : Begin(t, s)

Spec == Init /\ [][NextStep]_vars

\* Every thread that is not waiting for the mutex is scheduled.
FairSpec == Spec /\ \A t \in Thread : WF_vars(Step(t))

-----------------------------------------------------------------------------
TypeOK ==
  /\ prog \in Programs
  /\ stack \in [Thread -> Seq(Frame)]
  /\ holder \in Thread \cup {None}
  /\ depth \in Nat /\ (depth = 0 <=> holder = None)
  /\ Ptr \subseteq Static
  /\ StaticList \in Static \cup {None}
  /\ Next \in [Static -> Static \cup {None}]
  /\ objects \in [Static -> Nat]
  /\ unseen \subseteq Thread \X Static
  /\ overlap \subseteq Thread

\* However many threads ask for a static at once, one object of it is made,
\* and none is lost track of.
OneObject ==
  \A s \in Static :
    objects[s] <= 1 /\ (holder = None => (objects[s] = 1 <=> s \in Ptr))

\* An access beside which nobody shuts down returns an object that exists and
\* whose contents the thread can see.
GoodReturn ==
  \A t \in Thread : At(t, "return") /\ t \notin overlap =>
    /\ Current(t) \in Ptr
    /\ objects[Current(t)] = 1
    /\ \A u \in Thread \ {t} : <<u, Current(t)>> \notin unseen

\* What a constructor has used outlives its object, which is not yet being
\* deleted.
Deleting(s) ==
  \E t \in Thread : \E k \in DOMAIN stack[t] :
    stack[t][k].s = s /\ stack[t][k].at \in {"delete", "clear"}

NeedsOutlive ==
  \A s \in Ptr : ~ Deleting(s) =>
    \A n \in prog.needs[s] : n \in Ptr /\ objects[n] = 1 /\ ~ Deleting(n)

\* A shutdown ends when nothing is left, also of what deleters made anew.
NothingLeft ==
  \A t \in Thread : At(t, "loop") /\ StaticList = None =>
    Ptr = {} /\ \A s \in Static : objects[s] = 0

\* Every access and every shutdown ends unless somebody shuts down again and
\* again, though constructors and destructors take the mutex anew, and a
\* shutdown meets statics that its own deleters made.
Shutting(t) == \E k \in DOMAIN stack[t] : stack[t][k].at \in Shutdown

AccessReturns ==
  (\A t \in Thread : <>[]Shutting(t) \/ <>[] ~ Shutting(t)) =>
    \A t \in Thread : []<>Idle(t)

=============================================================================
