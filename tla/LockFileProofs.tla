--------------------------- MODULE LockFileProofs ---------------------------
(***************************************************************************)
(* Theorems about LockFile, for any processes on any hosts, any of which   *)
(* may die and be born again, and any limits.                              *)
(***************************************************************************)
EXTENDS LockFile, TLAPS

-----------------------------------------------------------------------------
\* What an action of a process that is executing leaves well typed.
LEMMA InitType == Init => TypeOK
<1> SUFFICES ASSUME Init PROVE TypeOK
  OBVIOUS
<1>1. 1 \in 1 .. MaxSeconds + GoneSeconds
  BY IntervalAssumption
<1>2. Interval \in [Proc -> 1 .. MaxSeconds + GoneSeconds]
  BY <1>1 DEF Init
<1>3. \A p \in Proc : ~ Interval[p] > 1
  BY DEF Init
<1>4. pc \in [Proc -> Location] /\ \A p \in Proc : pc[p] = "idle"
  BY DEF Init, Location
<1>5. Owner \in [Proc -> Proc \cup {None}] /\ \A p \in Proc : Owner[p] = None
  BY DEF Init
<1>6. /\ alive \subseteq Proc /\ lock \in Proc \cup {None, Garbage, Dangling} /\ unique = {}
      /\ file \in BOOLEAN /\ unsure = {} /\ broken \in BOOLEAN
  BY DEF Init
<1>7. \A p \in Proc : pc[p] \notin {"check", "shared"} \cup WaitForUnlock
  BY <1>4 DEF WaitForUnlock
<1>8. {p \in Proc : pc[p] \in {"link", "exists", "wipe", "owned"}} = {}
  BY <1>4
<1> QED
  BY <1>2, <1>3, <1>4, <1>5, <1>6, <1>7, <1>8 DEF TypeOK

LEMMA ConstructorType ==
  ASSUME TypeOK, NEW p \in Proc, p \in alive,
         \/ Begin(p) \/ ReadLockFile(p) \/ CheckOwner(p) \/ DropInvalid(p)
         \/ CreateUniqueFile(p) \/ Link(p) \/ StillThere(p) \/ Wipe(p)
         \/ Release(p) \/ Forget(p)
  PROVE  TypeOK'
<1> USE FileAssumption DEF TypeOK, Location, Constructor, WaitForUnlock, Goto,
        Constructing, Deciding, Owned, Waiting, local, history
<1>1. CASE Begin(p)
  BY <1>1 DEF Begin
<1>2. CASE ReadLockFile(p)
  BY <1>2 DEF ReadLockFile
<1>3. CASE CheckOwner(p)
  BY <1>3 DEF CheckOwner, WipeOutUnique
<1>4. CASE DropInvalid(p)
  BY <1>4 DEF DropInvalid, RemoveAnyway, remove
<1>5. CASE CreateUniqueFile(p)
  <2>1. CASE unique' = unique \cup {p} /\ Goto(p, "link")
    BY <1>5, <2>1 DEF CreateUniqueFile
  <2>2. CASE UNCHANGED unique /\ Goto(p, "error")
    BY <1>5, <2>2 DEF CreateUniqueFile
  <2> QED
    BY <1>5, <2>1, <2>2 DEF CreateUniqueFile
<1>6. CASE Link(p)
  BY <1>6 DEF Link, create_link, News
<1>7. CASE StillThere(p)
  BY <1>7 DEF StillThere
<1>8. CASE Wipe(p)
  BY <1>8 DEF Wipe, RemoveAnyway, remove
<1>9. CASE Release(p)
  BY <1>9 DEF Release, remove
<1>10. CASE Forget(p)
  BY <1>10 DEF Forget
<1> QED
  BY <1>1, <1>2, <1>3, <1>4, <1>5, <1>6, <1>7, <1>8, <1>9, <1>10

\* A wait goes on with an interval below a limit, or ends with the first one.
LEMMA SleepType ==
  ASSUME TypeOK, NEW p \in Proc, p \in alive, Waiting(p), NEW place \in WaitForUnlock,
         NEW interval \in 1 .. MaxSeconds + GoneSeconds,
         \/ SleepFor(p, interval) /\ Goto(p, place)
         \/ Return(p),
         UNCHANGED <<alive, Owner, file, lock, unique, history>>
  PROVE  TypeOK'
<1>1. 1 \in 1 .. MaxSeconds + GoneSeconds
  BY IntervalAssumption
<1>2. PICK n \in 1 .. MaxSeconds + GoneSeconds, l \in {place, "shared"} :
        /\ SleepFor(p, n) /\ Goto(p, l)
        /\ l = "shared" => n = 1
  BY <1>1 DEF Return, WaitForUnlock
<1>3. /\ pc' \in [Proc -> Location]
      /\ \A q \in Proc : pc'[q] = IF q = p THEN l ELSE pc[q]
  BY <1>2 DEF Goto, TypeOK, Location
<1>4. /\ Interval' \in [Proc -> 1 .. MaxSeconds + GoneSeconds]
      /\ \A q \in Proc : Interval'[q] = IF q = p THEN n ELSE Interval[q]
  BY <1>2 DEF SleepFor, TypeOK
<1> QED
  BY <1>2, <1>3, <1>4
     DEF TypeOK, Constructing, Deciding, Owned, Waiting, Constructor, WaitForUnlock, history

LEMMA WaitType ==
  ASSUME TypeOK, NEW p \in Proc, p \in alive,
         \/ WaitForIt(p) \/ PollLock(p) \/ PollOwner(p) \/ PollGone(p)
         \/ PollFile(p) \/ Produce(p)
  PROVE  TypeOK'
<1> DEFINE Limits == 1 .. MaxSeconds + GoneSeconds
<1>0. 1 \in Limits /\ "poll" \in WaitForUnlock
  BY IntervalAssumption DEF WaitForUnlock
<1>1. CASE WaitForIt(p)
  <2>1. /\ SleepFor(p, 1) /\ Goto(p, "poll") /\ p \in alive
        /\ UNCHANGED <<alive, Owner, file, lock, unique, history>>
    BY <1>1 DEF WaitForIt
  <2>2. pc[p] = "shared"
    BY <1>1 DEF WaitForIt
  <2>3. Interval' \in [Proc -> Limits] /\ \A q \in Proc : Interval'[q] > 1 => Interval[q] > 1
    BY <1>0, <2>1 DEF SleepFor, TypeOK
  <2> QED
    BY <2>1, <2>2, <2>3
       DEF TypeOK, Location, Constructor, WaitForUnlock, Goto, Deciding, Waiting, history
<1>2. CASE PollLock(p)
  BY <1>2 DEF PollLock, TypeOK, Location, Constructor, WaitForUnlock, Goto,
              Constructing, Deciding, Owned, Waiting, local, history
<1>3. ASSUME NEW limit \in {MaxSeconds, GoneSeconds}, NEW place \in WaitForUnlock,
             SleepAgain(p, place, limit)
      PROVE  \/ Doubled(p) \in Limits /\ SleepFor(p, Doubled(p)) /\ Goto(p, place)
             \/ Return(p)
  <2>1. Doubled(p) < limit => Doubled(p) \in Limits
    <3>1. Interval[p] \in Limits
      BY DEF TypeOK
    <3> QED
      BY <3>1, IntervalAssumption DEF Doubled
  <2> QED
    BY <1>3, <2>1 DEF SleepAgain
<1>4. CASE PollOwner(p)
  <2>1. Waiting(p) /\ UNCHANGED <<alive, Owner, file, lock, unique, history>>
    BY <1>4 DEF PollOwner, Waiting, WaitForUnlock
  <2>2. Return(p) \/ SleepAgain(p, "poll", MaxSeconds)
    BY <1>4 DEF PollOwner
  <2>3. PICK interval \in Limits, place \in WaitForUnlock :
           \/ SleepFor(p, interval) /\ Goto(p, place)
           \/ Return(p)
    BY <1>0, <1>3, <2>2 DEF WaitForUnlock
  <2> QED
    BY <2>1, <2>3, SleepType
<1>5. CASE PollGone(p)
  <2>1. Waiting(p) /\ UNCHANGED <<alive, Owner, file, lock, unique, history>>
    BY <1>5 DEF PollGone, Waiting, WaitForUnlock
  <2>2. \/ SleepFor(p, 1) /\ Goto(p, "pollFile")
        \/ Return(p)
    BY <1>5 DEF PollGone
  <2>3. 1 \in Limits
    BY IntervalAssumption
  <2> QED
    BY <2>1, <2>2, <2>3, SleepType DEF WaitForUnlock
<1>6. CASE PollFile(p)
  <2>1. Waiting(p) /\ UNCHANGED <<alive, Owner, file, lock, unique, history>>
    BY <1>6 DEF PollFile, Waiting, WaitForUnlock
  <2>2. Return(p) \/ SleepAgain(p, "pollFile", GoneSeconds)
    BY <1>6 DEF PollFile
  <2>3. PICK interval \in Limits, place \in WaitForUnlock :
           \/ SleepFor(p, interval) /\ Goto(p, place)
           \/ Return(p)
    BY <1>0, <1>3, <2>2 DEF WaitForUnlock
  <2> QED
    BY <2>1, <2>3, SleepType
<1>7. CASE Produce(p)
  BY <1>7 DEF Produce, TypeOK, Constructing, Deciding, Owned, Waiting, history
<1> QED
  BY <1>1, <1>2, <1>4, <1>5, <1>6, <1>7

LEMMA EnvironmentType ==
  ASSUME TypeOK, NEW p \in Proc, Die(p) \/ Born(p)
  PROVE  TypeOK'
<1> USE FileAssumption, IntervalAssumption
    DEF TypeOK, Location, Constructor, WaitForUnlock, Goto, Constructing, Deciding,
        Owned, Waiting, SleepFor, history
<1>1. CASE Die(p)
  <2>1. /\ pc' = [pc EXCEPT ![p] = "idle"] /\ pc' \in [Proc -> Location]
        /\ Owner' = [Owner EXCEPT ![p] = None] /\ Owner' \in [Proc -> Proc \cup {None}]
        /\ unique' = unique \ {p} /\ alive' = alive \ {p}
    BY <1>1 DEF Die
  <2>2. 1 \in 1 .. MaxSeconds + GoneSeconds
    OBVIOUS
  <2>3. /\ Interval' \in [Proc -> 1 .. MaxSeconds + GoneSeconds]
        /\ \A q \in Proc : Interval'[q] = IF q = p THEN 1 ELSE Interval[q]
    BY <1>1, <2>2 DEF Die
  <2> QED
    BY <1>1, <2>1, <2>3 DEF Die
<1>2. CASE Born(p)
  BY <1>2 DEF Born
<1> QED
  BY <1>1, <1>2

LEMMA NextType == TypeOK /\ [Next]_vars => TypeOK'
<1> SUFFICES ASSUME TypeOK, [Next]_vars PROVE TypeOK'
  OBVIOUS
<1>1. ASSUME NEW p \in Proc, Run(p) PROVE TypeOK'
  BY <1>1, ConstructorType, WaitType DEF Run
<1>2. ASSUME NEW p \in Proc, Call(p) PROVE TypeOK'
  BY <1>2, ConstructorType, WaitType DEF Call
<1>3. ASSUME NEW p \in Proc, Die(p) \/ Born(p) PROVE TypeOK'
  BY <1>3, EnvironmentType
<1>4. CASE UNCHANGED vars
  BY <1>4 DEF vars, TypeOK, Constructing, Deciding, Owned, Waiting, history
<1> QED
  BY <1>1, <1>2, <1>3, <1>4 DEF Next

\* Every reachable state is well typed: a manager has an owner exactly while it
\* looks its owner up or shares the lock, its unique file from its first link on
\* and no longer once it shares the lock or has released it, and the dead do
\* nothing.
THEOREM TypeCorrect == Spec => []TypeOK
<1>1. Init => TypeOK
  BY InitType
<1>2. TypeOK /\ [Next]_vars => TypeOK'
  BY NextType
<1> QED
  BY <1>1, <1>2, PTL DEF Spec

-----------------------------------------------------------------------------
\* While no constructor has removed a lock file that it should not have: the lock
\* file names the owner; a constructor that looks up the owner it has read has
\* read the lock file that is there, if there is one, and one about to remove it
\* knows that there is no owner -- but for those that are unsure.
Named == \A p \in Proc : Owned(p) => lock = p
ReadWell ==
  \A p \in Proc : pc[p] = "check" /\ p \notin unsure => lock \in {Owner[p], None}
NoneOwned ==
  \A p, q \in Proc :
    pc[p] \in {"drop", "exists", "wipe"} /\ p \notin unsure => ~ Owned(q)

LockInv == ~ broken => Named /\ ReadWell /\ NoneOwned

LEMMA InitLock == Init => LockInv
BY DEF Init, LockInv, Named, ReadWell, NoneOwned, Owned

\* What a constructor removes that is sure of itself is owned by nobody.
LEMMA RemoveLock ==
  ASSUME TypeOK, LockInv, NEW p \in Proc, pc[p] \in {"drop", "wipe"}, RemoveAnyway(p),
         ~ broken'
  PROVE  /\ ~ broken
         /\ \A q \in Proc : Owned(q) => lock' = q
         /\ lock' \in {lock, None}
<1>1. ~ broken /\ lock' \in {lock, None} /\ (p \in unsure => lock' = lock)
  BY DEF RemoveAnyway, remove, TypeOK
<1>2. Named /\ NoneOwned
  BY <1>1 DEF LockInv
<1>3. CASE lock' = lock
  BY <1>1, <1>2, <1>3 DEF Named
<1>4. CASE lock' # lock
  BY <1>1, <1>2, <1>4 DEF NoneOwned
<1> QED
  BY <1>1, <1>3, <1>4

LEMMA ConstructorLock ==
  ASSUME TypeOK, LockInv, NEW p \in Proc, p \in alive,
         \/ Begin(p) \/ ReadLockFile(p) \/ CheckOwner(p) \/ DropInvalid(p)
         \/ CreateUniqueFile(p) \/ Link(p) \/ StillThere(p) \/ Wipe(p)
  PROVE  LockInv'
<1> SUFFICES ASSUME ~ broken' PROVE Named' /\ ReadWell' /\ NoneOwned'
  BY DEF LockInv
<1> USE FileAssumption
    DEF LockInv, Named, ReadWell, NoneOwned, TypeOK, Location, Constructor,
        WaitForUnlock, Goto, Deciding, Owned, local, history
<1>1. CASE Begin(p)
  BY <1>1 DEF Begin
<1>2. CASE ReadLockFile(p)
  <2>1. ~ broken /\ UNCHANGED lock /\ pc[p] = "read"
    BY <1>2 DEF ReadLockFile
  <2>2. CASE Owner' = [Owner EXCEPT ![p] = lock] /\ Goto(p, "check") /\ UNCHANGED unsure
    BY <2>1, <2>2
  <2>3. CASE /\ unsure' = IF lock \in Proc THEN unsure \cup {p} ELSE unsure
             /\ Goto(p, "drop") /\ UNCHANGED Owner
    <3>1. lock \notin Proc => \A q \in Proc : ~ Owned(q)
      BY <2>1
    <3> QED
      BY <2>1, <2>3, <3>1
  <2> QED
    BY <1>2, <2>2, <2>3 DEF ReadLockFile
<1>3. CASE CheckOwner(p)
  <2>1. CASE processStillExecuting(p, Owner[p])
    BY <1>3, <2>1 DEF CheckOwner
  <2>2. CASE ~ processStillExecuting(p, Owner[p])
    <3>1. Owner[p] \in Proc \ alive
      BY <1>3, <2>2 DEF CheckOwner, processStillExecuting
    <3>2. p \notin unsure => \A q \in Proc : ~ Owned(q)
      BY <1>3, <3>1 DEF CheckOwner
    <3> QED
      BY <1>3, <2>2, <3>2 DEF CheckOwner
  <2> QED
    BY <2>1, <2>2
<1>4. CASE DropInvalid(p)
  <2>1. /\ ~ broken /\ lock' \in {lock, None}
        /\ \A q \in Proc : Owned(q) => lock' = q
    BY <1>4, RemoveLock DEF DropInvalid
  <2> QED
    BY <1>4, <2>1 DEF DropInvalid
<1>5. CASE CreateUniqueFile(p)
  BY <1>5 DEF CreateUniqueFile
<1>6. CASE Link(p)
  <2>1. CASE create_link(p) /\ News(p) /\ Goto(p, "owned")
    <3>1. \A q \in Proc : ~ Owned(q)
      BY <1>6, <2>1 DEF Link, create_link
    <3>2. \A q \in Proc \ {p} : Deciding(q) => q \in unsure'
      BY <2>1 DEF News
    <3> QED
      BY <1>6, <2>1, <3>1, <3>2 DEF Link, create_link
  <2>2. CASE ~ create_link(p)
    BY <1>6, <2>2 DEF Link
  <2> QED
    BY <1>6, <2>1, <2>2 DEF Link
<1>7. CASE StillThere(p)
  BY <1>7 DEF StillThere
<1>8. CASE Wipe(p)
  <2>1. /\ ~ broken /\ lock' \in {lock, None}
        /\ \A q \in Proc : Owned(q) => lock' = q
    BY <1>8, RemoveLock DEF Wipe
  <2> QED
    BY <1>8, <2>1 DEF Wipe
<1> QED
  BY <1>1, <1>2, <1>3, <1>4, <1>5, <1>6, <1>7, <1>8

LEMMA OthersLock ==
  ASSUME TypeOK, LockInv, NEW p \in Proc,
         \/ Release(p) \/ Forget(p) \/ WaitForIt(p) \/ PollLock(p) \/ PollOwner(p)
         \/ PollGone(p) \/ PollFile(p) \/ Produce(p) \/ Die(p) \/ Born(p)
  PROVE  LockInv'
<1> USE FileAssumption
    DEF LockInv, Named, ReadWell, NoneOwned, TypeOK, Location, Constructor,
        WaitForUnlock, Goto, Deciding, Owned, local, history, Return, SleepAgain
<1>1. CASE Release(p)
  BY <1>1 DEF Release, remove
<1>2. CASE Forget(p)
  BY <1>2 DEF Forget
<1>3. CASE WaitForIt(p) \/ PollLock(p) \/ PollOwner(p) \/ PollGone(p) \/ PollFile(p)
  BY <1>3 DEF WaitForIt, PollLock, PollOwner, PollGone, PollFile
<1>4. CASE Produce(p) \/ Born(p)
  BY <1>4 DEF Produce, Born
<1>5. CASE Die(p)
  BY <1>5 DEF Die
<1> QED
  BY <1>1, <1>2, <1>3, <1>4, <1>5

LEMMA NextLock == TypeOK /\ LockInv /\ [Next]_vars => LockInv'
<1> SUFFICES ASSUME TypeOK, LockInv, [Next]_vars PROVE LockInv'
  OBVIOUS
<1>1. ASSUME NEW p \in Proc, Run(p) PROVE LockInv'
  BY <1>1, ConstructorLock, OthersLock DEF Run
<1>2. ASSUME NEW p \in Proc, Call(p) PROVE LockInv'
  BY <1>2, ConstructorLock, OthersLock DEF Call
<1>3. ASSUME NEW p \in Proc, Die(p) \/ Born(p) PROVE LockInv'
  BY <1>3, OthersLock
<1>4. CASE UNCHANGED vars
  BY <1>4 DEF vars, history, LockInv, Named, ReadWell, NoneOwned, Owned
<1> QED
  BY <1>1, <1>2, <1>3, <1>4 DEF Next

\* However many constructors run at once, the lock file names every owner until
\* one of them removes a lock file that it could not read, or that was made
\* since it looked.
THEOREM OwnerHasLockCorrect == Spec => []OwnerHasLock
<1>1. Init => TypeOK /\ LockInv
  BY InitType, InitLock
<1>2. TypeOK /\ LockInv /\ [Next]_vars => (TypeOK /\ LockInv)'
  BY NextType, NextLock
<1>3. TypeOK /\ LockInv => OwnerHasLock
  BY DEF LockInv, Named, OwnerHasLock
<1> QED
  BY <1>1, <1>2, <1>3, PTL DEF Spec

\* So two processes own the lock at once only after such a removal, which is
\* what the run lockfile_mutex shows.
THEOREM OneOwner == Spec => [](~ broken => MutualExclusion)
<1>1. OwnerHasLock => (~ broken => MutualExclusion)
  BY DEF OwnerHasLock, MutualExclusion
<1> QED
  BY <1>1, OwnerHasLockCorrect, PTL

=============================================================================
