------------------------------ MODULE LockFile ------------------------------
(***************************************************************************)
(* Lock files between processes (src/lib/Support/LockFileManager.cpp of    *)
(* the LLVM in this repository).                                           *)
(*                                                                         *)
(* Every system call that another process can notice is a step.  A process *)
(* makes one LockFileManager at a time; what it does with the lock, when   *)
(* it stops and what fails is up to the environment.  Intervals are in the *)
(* unit of the first one.                                                  *)
(***************************************************************************)
EXTENDS Integers, FiniteSets

CONSTANTS
  Proc,         \* processes, named by host and process id
  Host,         \* gethostname() of every process
  Mortal,       \* the processes that may end, and their ids be given away
  MaxSeconds,   \* how long an interval may get while the lock file is there,
  GoneSeconds,  \* and once it is gone
  None,         \* no process: there is no lock file, or it is owned
  Garbage,      \* what a lock file holds that names no process
  Dangling      \* a lock file that is a link to nothing

ASSUME HostAssumption == DOMAIN Host = Proc /\ Mortal \subseteq Proc
ASSUME IntervalAssumption ==
  MaxSeconds \in Nat /\ GoneSeconds \in Nat /\ MaxSeconds > 1 /\ GoneSeconds > 1
ASSUME FileAssumption ==
  /\ {None, Garbage, Dangling} \cap Proc = {}
  /\ None # Garbage /\ None # Dangling /\ Garbage # Dangling

VARIABLES
  alive,        \* the processes that are executing
  pc,           \* where each is in its use of a LockFileManager
  Owner,        \* who the manager of a process takes to own the lock
  Interval,     \* how long a waiting process sleeps
  lock,         \* what the lock file holds
  unique,       \* the processes whose manager has its unique lock file
  file,         \* the file the lock is for exists
  unsure,       \* history: the constructors that go on as if nobody owned the
                \* lock though they could not read the lock file, or it was
                \* made after they looked,
  broken        \* and whether one of these has removed it

history == <<unsure, broken>>
vars == <<alive, pc, Owner, Interval, lock, unique, file, history>>
local == <<alive, Owner, Interval, file>>

Constructor == {"read", "check", "drop", "create", "link", "exists", "wipe"}
WaitForUnlock == {"poll", "executing", "gone", "pollFile"}
Location == Constructor \cup WaitForUnlock
            \cup {"idle", "owned", "shared", "error"}

Constructing(p) == pc[p] \in Constructor
Deciding(p) == pc[p] \in {"check", "drop", "exists", "wipe"}
Waiting(p) == pc[p] \in WaitForUnlock
Owned(p) == pc[p] = "owned"      \* LFS_Owned

\* Variants: the id is looked up here whatever the host, or nobody is taken
\* for dead.
LookedUpHere(p, q) == Host[p] = Host[q] /\ q \in alive
NeverDead(p, q) == TRUE

\* What p makes of the process q: nothing is known of other hosts.
processStillExecuting(p, q) == Host[p] = Host[q] => q \in alive

Goto(p, place) == pc' = [pc EXCEPT ![p] = place]

-----------------------------------------------------------------------------
\* Variants: a lock file is replaced by the link; a unique file is left behind.
Replaced(p) == lock' = p
NotWipedOut(p) == UNCHANGED unique

\* System calls on the lock file.  What another process made may not be
\* removable.  A lock file made after a process looked is news to it.
create_link(p) == lock = None /\ lock' = p
remove(p) == lock' = None \/ (lock # p /\ UNCHANGED lock)
News(p) == unsure' = unsure \cup {q \in Proc \ {p} : Deciding(q)}

\* A constructor removes the lock file, whoever has it.
RemoveAnyway(p) ==
  remove(p) /\ broken' = (broken \/ (p \in unsure /\ lock' # lock))

\* "Wipe out our unique lock file (it's useless now)"
WipeOutUnique(p) == unique' = unique \ {p}

-----------------------------------------------------------------------------

Init ==
  /\ alive \in SUBSET Proc /\ Proc \ Mortal \subseteq alive
  /\ pc = [p \in Proc |-> "idle"]
  /\ Owner = [p \in Proc |-> None]
  /\ Interval = [p \in Proc |-> 1]
  /\ lock \in {None, Garbage, Dangling} \cup (Proc \ alive)
  /\ unique = {}
  /\ file \in BOOLEAN
  /\ unsure = {} /\ broken = FALSE

\* The constructor.  It may fail to find out where the file is.
Begin(p) ==
  /\ pc[p] = "idle"
  /\ Goto(p, "read") \/ Goto(p, "error")
  /\ UNCHANGED <<local, lock, unique, history>>

\* readLockFile, first before the unique file is made and then after every
\* link that fails because the lock file exists.  Whatever keeps it from being
\* opened or read, the lock file is dropped, no matter whose it is.
ReadLockFile(p) ==
  /\ pc[p] = "read"
  /\ \/ /\ lock \in Proc
        /\ Owner' = [Owner EXCEPT ![p] = lock]
        /\ Goto(p, "check")
        /\ UNCHANGED unsure
     \/ /\ unsure' = IF lock \in Proc THEN unsure \cup {p} ELSE unsure
        /\ Goto(p, "drop")
        /\ UNCHANGED Owner
  /\ UNCHANGED <<alive, Interval, file, lock, unique, broken>>

CheckOwner(p) ==
  /\ pc[p] = "check"
  /\ \/ /\ processStillExecuting(p, Owner[p])
        /\ WipeOutUnique(p)
        /\ unsure' = unsure \ {p}
        /\ Goto(p, "shared")
        /\ UNCHANGED Owner
     \/ /\ ~ processStillExecuting(p, Owner[p])
        /\ Owner' = [Owner EXCEPT ![p] = None]
        /\ Goto(p, "drop")
        /\ UNCHANGED <<unique, unsure>>
  /\ UNCHANGED <<alive, Interval, file, lock, broken>>

\* "Delete the lock file. It's invalid anyway."
DropInvalid(p) ==
  /\ pc[p] = "drop"
  /\ RemoveAnyway(p)
  /\ \/ p \in unique /\ Goto(p, "exists") /\ UNCHANGED unsure
     \/ p \notin unique /\ Goto(p, "create") /\ unsure' = unsure \ {p}
  /\ UNCHANGED <<local, unique>>

\* Nobody else knows the name of the unique file.
CreateUniqueFile(p) ==
  /\ pc[p] = "create"
  /\ \/ unique' = unique \cup {p} /\ Goto(p, "link")
     \/ UNCHANGED unique /\ Goto(p, "error")
  /\ UNCHANGED <<local, lock, history>>

\* After an error the unique file stays.
Link(p) ==
  /\ pc[p] = "link"
  /\ \/ create_link(p) /\ News(p) /\ Goto(p, "owned")
     \/ lock # None /\ Goto(p, "read") /\ UNCHANGED <<lock, unsure>>
     \/ Goto(p, "error") /\ UNCHANGED <<lock, unsure>>
  /\ UNCHANGED <<local, unique, broken>>

\* To exist is to lead to something.
StillThere(p) ==
  /\ pc[p] = "exists"
  /\ \/ /\ lock \in {None, Dangling}
        /\ Goto(p, "link")
        /\ unsure' = unsure \ {p}
     \/ /\ lock \notin {None, Dangling}
        /\ Goto(p, "wipe")
        /\ UNCHANGED unsure
  /\ UNCHANGED <<local, lock, unique, broken>>

\* Variant: it tries again whether the lock file was removed or not.
WipeAnyway(p) ==
  /\ pc[p] = "wipe"
  /\ RemoveAnyway(p)
  /\ Goto(p, "link")
  /\ unsure' = unsure \ {p}
  /\ UNCHANGED <<local, unique>>

\* "There is a lock file that nobody owns; try to clean it up"
Wipe(p) ==
  /\ pc[p] = "wipe"
  /\ RemoveAnyway(p)
  /\ Goto(p, IF lock' = None THEN "link" ELSE "error")
  /\ unsure' = unsure \ {p}
  /\ UNCHANGED <<local, unique>>

-----------------------------------------------------------------------------
\* The destructor of an owner, whatever the lock file holds, and of others: a
\* unique file that an error left behind is nobody's any more.
Release(p) ==
  /\ pc[p] = "owned"
  /\ remove(p)
  /\ unique' = unique \ {p}
  /\ Goto(p, "idle")
  /\ UNCHANGED <<local, history>>

Forget(p) ==
  /\ pc[p] \in {"shared", "error"}
  /\ Owner' = [Owner EXCEPT ![p] = None]
  /\ unique' = unique \ {p}
  /\ Goto(p, "idle")
  /\ UNCHANGED <<alive, Interval, file, lock, history>>

-----------------------------------------------------------------------------
\* waitForUnlock, with an iteration in two or three steps.
SleepFor(p, interval) == Interval' = [Interval EXCEPT ![p] = interval]

WaitForIt(p) ==
  /\ pc[p] = "shared"
  /\ SleepFor(p, 1)
  /\ Goto(p, "poll")
  /\ UNCHANGED <<alive, Owner, file, lock, unique, history>>

\* Variant: the interval does not grow.
Constantly(p) == Interval[p]
Doubled(p) == 2 * Interval[p]

\* Res_Success, Res_OwnerDied or Res_Timeout: the caller may wait once more.
\* The interval, a local variable, is gone.
Return(p) == SleepFor(p, 1) /\ Goto(p, "shared")

\* The end of an iteration.
SleepAgain(p, place, limit) ==
  \/ Doubled(p) < limit /\ SleepFor(p, Doubled(p)) /\ Goto(p, place)
  \/ Doubled(p) >= limit /\ Return(p)

PollLock(p) ==
  /\ pc[p] = "poll"
  /\ Goto(p, IF lock \in {None, Dangling} THEN "gone" ELSE "executing")
  /\ UNCHANGED <<local, lock, unique, history>>

\* The owner died, or another round.
PollOwner(p) ==
  /\ pc[p] = "executing"
  /\ \/ ~ processStillExecuting(p, Owner[p]) /\ Return(p)
     \/ /\ processStillExecuting(p, Owner[p])
        /\ SleepAgain(p, "poll", MaxSeconds)
  /\ UNCHANGED <<alive, Owner, file, lock, unique, history>>

\* The lock file just disappeared: if the file is not there, the intervals
\* start anew, under another limit.
PollGone(p) ==
  /\ pc[p] = "gone"
  /\ \/ file /\ Return(p)
     \/ ~ file /\ SleepFor(p, 1) /\ Goto(p, "pollFile")
  /\ UNCHANGED <<alive, Owner, file, lock, unique, history>>

PollFile(p) ==
  /\ pc[p] = "pollFile"
  /\ \/ file /\ Return(p)
     \/ ~ file /\ SleepAgain(p, "pollFile", GoneSeconds)
  /\ UNCHANGED <<alive, Owner, file, lock, unique, history>>

-----------------------------------------------------------------------------
\* The environment: an owner makes the file; a process ends, wherever it is,
\* and leaves its files behind; its process id is given to another.
Produce(p) ==
  /\ pc[p] = "owned"
  /\ ~ file
  /\ file' = TRUE
  /\ UNCHANGED <<alive, pc, Owner, Interval, lock, unique, history>>

Die(p) ==
  /\ p \in Mortal \cap alive
  /\ alive' = alive \ {p}
  /\ Goto(p, "idle")
  /\ Owner' = [Owner EXCEPT ![p] = None]
  /\ SleepFor(p, 1)
  /\ unique' = unique \ {p}
  /\ unsure' = unsure \ {p}
  /\ UNCHANGED <<lock, file, broken>>

Born(p) ==
  /\ p \notin alive
  /\ alive' = alive \cup {p}
  /\ UNCHANGED <<pc, Owner, Interval, lock, unique, file, history>>

\* What a process does by itself once it has begun.
Run(p) ==
  /\ p \in alive
  /\ \/ ReadLockFile(p) \/ CheckOwner(p) \/ DropInvalid(p)
     \/ CreateUniqueFile(p) \/ Link(p) \/ StillThere(p) \/ Wipe(p)
     \/ PollLock(p) \/ PollOwner(p) \/ PollGone(p) \/ PollFile(p)

\* What its caller has it do.
Call(p) ==
  p \in alive /\ (Begin(p) \/ Release(p) \/ Forget(p) \/ WaitForIt(p) \/ Produce(p))

Next == \E p \in Proc : Run(p) \/ Call(p) \/ Die(p) \/ Born(p)

Spec == Init /\ [][Next]_vars

\* A process that is executing is scheduled again and again.
FairSpec == Spec /\ \A p \in Proc : WF_vars(Run(p))

-----------------------------------------------------------------------------
\* Only a constructor that got beyond its first look, an owner and a manager
\* that failed have a unique file, only a manager that read a lock file has an
\* owner, and only a constructor on its way to removing the lock file is unsure.
TypeOK ==
  /\ alive \subseteq Proc
  /\ pc \in [Proc -> Location]
  /\ \A p \in Proc \ alive : pc[p] = "idle"
  /\ Owner \in [Proc -> Proc \cup {None}]
  /\ \A p \in Proc : Owner[p] # None <=> pc[p] \in {"check", "shared"} \cup WaitForUnlock
  /\ Interval \in [Proc -> 1 .. MaxSeconds + GoneSeconds]
  /\ \A p \in Proc : Interval[p] > 1 => Waiting(p)
  /\ lock \in Proc \cup {None, Garbage, Dangling}
  /\ {p \in Proc : pc[p] \in {"link", "exists", "wipe", "owned"}} \subseteq unique
  /\ unique \subseteq
       {p \in Proc : pc[p] \in (Constructor \ {"create"}) \cup {"owned", "error"}}
  /\ file \in BOOLEAN
  /\ unsure \subseteq {p \in Proc : Deciding(p)} /\ broken \in BOOLEAN

\* What the lock rests on: however constructors run into each other, whoever
\* dies meanwhile, on whatever host, and whoever gets his process id, the lock
\* file names every owner, so that there is one at most -- until a constructor
\* removes a lock file that it could not read, or that was made since it looked.
OwnerHasLock == ~ broken => \A p \in Proc : Owned(p) => lock = p

\* A constructor that never ends is always overtaken, others get the lock and
\* give it up again and again, or it runs into a link to nothing for ever: that
\* keeps it from making its own, does not exist, and cannot be removed.
LockFree ==
  \A p \in Proc : <>[]Constructing(p) =>
    \/ \E q \in Proc \ {p} : []<>Owned(q) /\ []<>(~ Owned(q))
    \/ <>[](lock = Dangling)

\* A lock file whose owner died does not survive being read on his host, unless
\* the reader's constructor fails.
Orphan(p) == lock \in {q \in Proc \ alive : Host[p] = Host[q]}
OrphanCleared ==
  \A p \in Proc : (pc[p] = "read" /\ Orphan(p)) ~> 
    (~ Orphan(p) \/ p \notin alive \/ pc[p] = "error")

\* Nobody waits for ever.
WaitEnds == \A p \in Proc : Waiting(p) ~> ~ Waiting(p)

\* "only a single process can create that '.lock' file. When the lock file is
\* removed, the owning process has finished the operation."
MutualExclusion == \A p, q \in Proc : Owned(p) /\ Owned(q) => p = q

=============================================================================
