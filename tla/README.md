# Verification of the coding-book-programs workspace

This directory holds TLA+ models of the programs of this repository, TLC
configurations that check them on small instances, and theorems about them
that TLAPS checks for every instance.  `PROJECT.json` lists the runs, maps every
definition to the lines it models, and names the hazards each property is for.

    tlc -config gcra_live.cfg MCGcraLive      # check one run
    tlapm GcraLiveProofs.tla                  # check the proofs of a module

## 1. The system and its parts

The repository is an Eclipse workspace of independent programs: compiler passes
against LLVM, a small compiler in OCaml, and Java exercises, beside a copy of the
LLVM the passes are built with.  The programs of the workspace start no thread and
keep nothing on disk.  What is hard in them is the *order* in which worklists are
served, loops that must end, maps that must agree with one another, values read
through the wrong pointer or from a stale copy, state that outlives one run of a
pass, and sequences of legal calls that nobody tried.  Of LLVM two parts are
modelled, those where processes and threads meet: lock files, with crashes,
timeouts and retries, and objects made on demand by any thread.

### p1: passes for LLVM

| part | state | operations | what makes it right |
|---|---|---|---|
| **Gcra** (`p1/src/Gcra.cpp`, `RDfact.*`), a graph-colouring register allocator up to the interference graph | live and reaching-definition maps of blocks and of instructions, a worklist for each, the set of facts, live ranges, the graph; one pass object for all functions of a module | `runOnMachineFunction`: clear, `doInit`, `doLiveAnalysis`, `doReachingDefsAnalysis`, `LiveRange`, `Graph` | both analyses end with the least solution of their equations whatever the order of the worklist; nothing is kept from one function to the next; every proper colouring of the graph keeps every value |
| **liveVars** (`p1/src/liveVars.cpp`, copied to `optmizer/src`) | before and after sets, a stack of blocks | `computeBBGenKill`, `computeBBBeforeAfter`, `computeIBeforeAfter` | it ends, and misses no live value |
| **DemoRegAlloc** (`p1/src/RegAllocDemo.cpp`), an allocator that spills everything | the instruction lists it rewrites while walking them, `regMap`, the stack slots | one nested loop | a program runs as before |
| **optLoads** (`p1/src/optLoads.cpp`) | the instruction list it erases from | one loop | a program means what it did, and no redundant load is left |
| **printCode** | a numbering | prints | – |

Gcra's analyses share nothing but the clearing at the start of a function and
the order of the five steps; the live sets go to `LiveRange`, which goes to
`Graph`, while the reaching definitions are computed and never read again.

### optmizer and optzr: the same analyses, written again

`Live.cpp` and `ReachingDef.cpp` are round-robin analyses over bit vectors (state:
`in`, `out` and a vector per program point, the index of every value; operations:
`buildBlockPointMap`, `runIterativeFramework`; hard: the points of a block are
visited by address, an index map makes entries when read, and indices may outgrow
the vectors).  Right means that the sweeps end, with the least solution, and that
no bit is lost.  `livevar.cpp` (twice) is a variant of liveVars whose loop does not
end.  `livevaropt.cpp` and `optmizer.cpp` print.

### pro: a compiler

`phase1.ml` turns syntax trees into blocks of an intermediate language (state: the
context of variables, passed along); `phase2.ml` turns those into x86 (state: the
list of values that have slots).  They interact by the intermediate program
alone.  Right means that the program computes what the source says.  The lexer,
the parser, the printers and the driver around them have no state of interest;
`ctxt.ml` is unimplemented.

### Java

Two priority queues behind one interface (`QuickInsertQueue` searches when taking,
`QuickNextQueue` when putting), a stack made of queues (`StackMan`), singly linked
lists with a static head (`LinkedListImpl`, `LinkedListNode`), sorts (`Mergesorts`,
`MergeSortdLinkList`, `QuickInsSort`), a binary tree (`TreeUtil`), the Serpent
cipher, and answers to interview questions of one function each.  What can go
wrong there is a sequence of calls: the last node removed, ties, an empty queue.

### LLVM, in part

| part | state | operations | what makes it right |
|---|---|---|---|
| **LockFileManager** (`src/lib/Support/LockFileManager.cpp`) | the lock file, a unique file per manager, the file the lock is for; who owns the lock | constructor, destructor, `waitForUnlock`; processes that end anywhere and leave their files | one owner; a lock whose owner died is cleared away; constructing and waiting end |
| **ManagedStatic** (`include/llvm/Support/ManagedStatic.h`, `lib/Support/ManagedStatic.cpp`) | the pointer of every static, the list of those to be destroyed, a recursive mutex | access, `RegisterManagedStatic`, `llvm_shutdown`; constructors and destructors that use other statics | one object of each, complete when it is returned, destroyed after what needs it; nothing left by a shutdown; no deadlock |

Neither knows of the other.  The rest of LLVM is a million lines that the passes
above use, and is modelled where they use it.

### Not part of the system

The web sites are skeletons, `.metadata` is the
editor's.

## 2. Modules

| module | models | kind |
|---|---|---|
| `MachineFn` | machine functions as Gcra reads them: code, control-flow graph, addresses, aliases; gen and kill sets; reference definitions by paths | data, shared |
| `Dataflow` | what an analysis promises: the least solution of set equations, found by raising nodes in any order | abstract specification |
| `GcraLive` | `doLiveAnalysis` | component, refines `Dataflow` |
| `GcraRDefs` | `doInit`, `doReachingDefsAnalysis` | component, refines `Dataflow` |
| `Gcra` | `runOnMachineFunction`, `LiveRange`, `Graph`, with INSTANCEs of both analyses | composition |
| `GcraExec` | a colouring of the graph, and execution of the allocated program | environment |
| `LiveVars` | liveVars | component |
| `DemoRegAlloc` | DemoRegAlloc | component |
| `DemoExec` | execution of the rewritten program beside the original | environment |
| `RoundRobin` | `Live.cpp` and `ReachingDef.cpp` | component, refines `Dataflow` |
| `LockFile` | LockFileManager, in several processes | component |
| `ManagedStatic` | ManagedStatic and its mutex, in several threads | component |
| `MC*` | the functions the above are checked on | instances |
| `*Proofs` | theorems | proofs |

### How state and actions correspond to the code

*Machine functions.*  LLVM owns them and Gcra only reads them, so they are a
constant (`Modules`), picked in `Init`.  A block is its number in layout order, an
instruction its place `<<block, index>>`; operands are sets of registers because
the code asks only which registers are used and which defined.  `addr` is there
because `std::set<MachineBasicBlock *>` is ordered by it: `First(b)` is
`worklist.begin()`.  Register 0 and immediate operands, which the code skips, are
not there.

*GcraLive, GcraRDefs.*  A step is one iteration of a loop of the code, with
everything it does: `LiveBlock` takes the first block off the worklist, replaces
its after set, compares *sizes* as the code does, and if larger replaces the
before set and requeues the predecessors.  `LiveInstr` is one iteration of
`liveForInstr`.  `NextFn` is the clearing at the start of the next function: what
the code does not clear, the model does not either.  Pushing and popping
`instVector` is the count `left`.

*Facts.*  `GcraRDefs` keeps `RDfact *` as records with a field `made`: three places of
the code allocate an object for the same definition, sets of pointers compare
objects, so two facts are equal exactly when they say the same and were made in
the same place.  `getRDgen` makes a block's objects once
(`RDgenMap`); `analyzeInstructionsRDefs` makes one per instruction, each in turn.

*Gcra.*  The composite shares `todo` between the two analyses and orders them with
`stage`.  `BuildRanges` and `BuildGraph` are the constructors, which run to
completion without anything else happening, so each is one step.

*LiveVars.*  Registers are instructions.  `bbBAMap` is a variable that no action
changes: the code computes into a copy.  `computeBBGenKill` is left out because
its result goes only into that copy.

*DemoRegAlloc.*  The three nested loops are the triple `at`; instructions are
inserted into the list `code[b]` that `at` points into, and `at` moves with its
instruction as an iterator does.  The pass requires no pass before it, so functions
are in SSA form, in any layout, and have a block to enter.  Phi instructions are left out, since nothing after the
allocator could print one, and so are the ties between operands of two-address
instructions.  The machine has the three registers the allocator works with
(`Scratch`) and whatever physical registers the function mentions; the parts of EAX,
EBX and ECX count as these.

*DemoExec.*  The function as it was and the function as it is run side by side.  A
value is the instruction that computed it *and* the register it was computed for
(`Value`), or the physical register that had it at the beginning (`AtEntry`), so that two
results of one instruction are two values; where the allocator puts both into one
machine register, either stays (`Stays`).  `ValuesKept` compares all operands that an
instruction uses, virtual and physical.

*RoundRobin.*  The two files differ in a direction, `fromTop`.  A step is one
iteration of the loop over the blocks, with the transfer through all program
points of the block, and `Again` is the test at the end of a sweep.  A vector is
the set of its bits.  The three loops of `buildBlockPointMap` come to every value in a
fixed order, whatever they do with it, so its walk is the set of places they come to
(`Mentions`, in the order `Before`), and a place is given an index (`IsGiven`) by what
is at the places before it.  The index is how many were given one before.  An
instruction is in one block, once (`FunctionsAssumption`), as LLVM keeps it.  The map
gives an operand that is met before its definition an index, and another one when the definition comes: the map does not
grow and the indices do, so that some are behind the end of the vectors, whose
length is the size of the map; but no two values share one.  Such a bit is written into the last word, which no
copy, union or comparison looks at, and so it is lost (`Bits`).  What has no index
is given index 0 (`Index`).  Functions have a value at least: without one the
vectors are empty and the first write goes through a null pointer.

*LockFile.*  Every system call that another process can notice is a step, so that
any other process may act between two of them.  The places of `pc` are the calls of
the constructor, in its order, and of `waitForUnlock`.  Every one of its calls may
fail: finding out where the file is, making the unique file, linking, and opening or
reading the lock file, for any reason and whosever it is, upon which the code
removes it.  Removing fails for files that other processes made; one's own can be
removed.  Looking whether a file exists is taken not to fail.  After an error
the unique file stays, as in the code (`Link`, `Wipe`); the constructor returns
without touching it, and the destructor of a manager that is no owner does not
either, so that once it has run the file is nobody's (`Forget`).
The lock file may also be a link to nothing (`Dangling`): it keeps one from linking and
yet does not exist.  The hosts are a constant, and a process id is a
process: `Born` gives the id of a dead process to a new one.  Intervals are counted
in the first one, not in seconds.  `Die` may come anywhere, and leaves the lock
file; the unique file it leaves is of no consequence, because nobody else knows its
name.  What a caller does with the lock (`Call`) is up to him.  Two variables are history,
not code: `unsure` has the constructors that go on as if nobody owned the lock though they
could not read the lock file, or it was made after they looked, and `broken` says
whether one of them has removed it.

*ManagedStatic.*  A thread's stack of calls is `stack`, innermost first: a constructor
that uses another static pushes an access.  `needs` and `wants` say which statics
the constructors and destructors use; a constructor that leads back to itself would
call itself for ever, so the statics have ranks, and each uses only those of lower
rank (`ProgramsAssumption`).  Memory is weak: what
a constructor has written arrives at other threads at a time of its own
(`unseen`, `Arrive`), at the latest with a fence or when the mutex is freed.  The build
is one with threads, and `DeleterFn`, which is set with the list's link and reset
with it, is folded into the list.

## 3. Runs

Runs marked *fails* check one statement the source makes about itself, and TLC
finds the behaviour of the code that contradicts it.

| run | question | instance |
|---|---|---|
| `gcra_live` | Is the live-variable analysis right, and does it end? Solved off the worklist, least solution (refinement of `Dataflow`), exact with respect to paths, instruction stage within block stage under aliases, termination, nothing kept between functions | all graphs of 3 blocks; all pairs of blocks of up to 2 of 5 instructions on 3 graphs; modules of 2 looping functions in all 6 × 6 orders of addresses; one virtual and two overlapping physical registers |
| `gcra_rdefs` | the same for reaching definitions | as above, with 4 instructions |
| `rd_kill` *fails* | Does a redefinition kill, as the comment at line 676 says? No: the pointers differ | the pairs of blocks of `gcra_rdefs` |
| `gcra` | Do the five steps follow one another for every function, do registers wanted together clash, and does every proper colouring keep every value on every path? | all pairs of blocks of up to 2 of 6 instructions on 4 graphs; modules of 2 functions; 2 colours |
| `lv_forward` | Does liveVars end when no cycle reaches the last block, and is it right within a block? | all forward graphs of 3 blocks, two layouts of the predecessor lists, and a function stuck in a loop |
| `lv_found` *fails* | Are the before and after sets of blocks computed, as the comment at line 166 says? No: they are dropped, and would stay empty if they were not | of these, the functions in which every block leads to the last one, where the worklist starts: the pass visits every block |
| `demo` | Does DemoRegAlloc keep the program, leave nothing unallocated, keep slots apart, and keep values when definitions come first in the layout, at most two virtual registers are used and one defined at once, and EAX, EBX and ECX are not used? | functions in SSA form of 3 blocks of up to 2 of 6 instructions, two graphs with loops, one of them out of layout order; and of fewer instructions of 11 kinds, with two results, and with physical registers that the allocator works with and one that it does not |
| `demo_values` *fails* | Are used registers loaded as the comment at line 95 says? Not the third of an instruction | as `demo` |
| `round_robin` | Do both passes end, are the reaching definitions the least solution (refinement of `Dataflow`) and those of the paths, are live values right within a block, do no two values share an index, and when are bits lost? | 8 values in 3 blocks on 3 graphs, of every kind and with every choice of operands SSA form allows; memory upwards and downwards |
| `lockfile` | Does the lock file name the owner until a constructor removes one that it could not read, or that was made since it looked; are locks of the dead cleared, do constructing and waiting end? | 3 processes, 2 on one host, which may die and be born again anywhere, 1 on another, which stays; every initial lock file, also one that names nobody, or is a link to nothing; any call may fail; `MaxSeconds` 4, `GoneSeconds` 2 |
| `lockfile_mutex` *fails* | Can only a single process own the lock, as the comment at line 22 of the header says? No: a lock file that could not be read is removed, whosever it is | as `lockfile` |
| `managed_static` | Is one object made of each static, seen whole, destroyed after what needs it; does a shutdown leave nothing, and does everybody get on? | 2 threads, 3 statics, 4 ways in which constructors and destructors use one another; any number of accesses and shutdowns |

*Why the bounds are enough.*  The analyses treat registers independently except
through aliases, and facts independently, so one virtual register and one pair of
aliases meet every case of the equations.  Three blocks make a branch, a join, a
self-loop, a loop of two and a loop of three, unreachable blocks and blocks
without an exit, and every one of them in every order of addresses, the sets of
graphs being closed under renaming.  Two instructions per block make a use before
and after a definition in the same block.  Two functions are the shortest module
in which something can be left over.  For the colouring, two registers and two
colours are the smallest program in which a missing edge can go wrong, and three
are never involved in one clash.  For DemoRegAlloc three registers are the
smallest number that exceeds its two use registers.  What does not depend on the
bound is proved (section 5).

In `RoundRobin`, three blocks make a loop within a loop, a join, and a layout
against the control flow; a phi instruction of a loop meets its operand before the
definition, which is what makes indices run over the end of the vectors.  For the lock, every step of a theft is taken by one
of two processes; the third, on another host, is the owner nobody can find dead,
or the winner that overtakes.  The limits are the smallest that let an interval
grow and be cut off; the code's own (300 seconds and 5) give only more rounds of
the same kind.  For managed statics, two threads race, and three statics make a
chain of constructors, two needed by one, and a destructor that brings back what is
gone.

No run limits a counter: every state space is finite by itself.  `MaxSeconds` and
`GoneSeconds` are constants of the code.

*Deadlock* is checked everywhere.  A pass that has ended steps in place
(`Finished`); the graphs that programs are executed on have no block without a
successor.

## 4. Fairness

A pass runs alone, called by a pass manager that waits for it, so the one
assumption is weak fairness of its own next step (`WF_vars(Next)`): code that is
running goes on running.  In `GcraExec` only the allocator is fair; the program it
allocates may stop anywhere.  No property needs fairness between actions, because
the code is deterministic once the function is given.

In `LockFile` each process that is executing is scheduled by its own operating
system, so `WF_vars(Run(p))` of each; what its caller does with the lock, deaths and
births are not fair, so that an owner may keep the lock for ever, and a waiting
process must give up by itself.  That a constructor ends cannot be had from this:
others may take and free the lock each time it looks, or the lock file may be a link to
nothing that it can neither use nor remove, and `LockFree` says that only
these keep it.  In `ManagedStatic` each thread is scheduled (`WF_vars(Step(t))`), which is
weak fairness even at the mutex: a thread may be passed over there again and again,
as POSIX allows.  An access that finds the pointer set takes no mutex, so a thread can
be kept out only by shutdowns that come again and again: that no thread is infinitely
often in one and infinitely often in none is the premise of `AccessReturns`.  A single
shutdown that never ended would satisfy it, and violate the property.

## 5. What is proved

For Gcra, all of it for every finite set of blocks and registers, every alias
relation, every function, graph and order of addresses, and every module, from the
assumptions that `MachineFn` names (`BlockAssumption`, `RegAssumption`,
`ModulesAssumption`), and for the execution `EntryAssumption`.  For the round-robin pass, for every set of functions
(`BlockAssumption`, `FunctionsAssumption` of `RoundRobin`); for lock files, for every set of
processes, finite or not, hosts and limits (`HostAssumption`, `IntervalAssumption`,
`FileAssumption`); for managed statics, for every set of threads, finite or not, and
every finite set of statics that use one another in any way but a circular one
(`StaticAssumption`, `NoneAssumption`, `ProgramsAssumption`); for the allocator that
spills, for every set of functions in SSA form, of any length and layout, with any physical registers, whose
virtual registers are not registers of the machine (`FunctionsAssumption` of
`DemoRegAlloc`).

- `DataflowProofs`: in `Dataflow`, what has been found so far is below what the
  equations give (`Ascending`) and below every closed assignment (`BelowClosed`),
  so that the answer is the least solution (`LeastSolution`).
- `GcraLiveProofs`: `TypeCorrect`, `OffWorklistCorrect`, `LeastLivenessCorrect` (the
  analysis implements `Dataflow`, hence all that is proved of it), `ProgressCorrect`,
  `InstrWithinBlockCorrect`; and with respect to paths `LiveIsFoundCorrect` and
  `FoundIsLiveCorrect`.
- `GcraRDefsProofs`: `TypeCorrect`, `FactSetCorrect`, `OffWorklistCorrect`,
  `LeastReachingCorrect`, `ProgressCorrect`; and with respect to paths
  `ReachingIsFoundCorrect` and `FoundIsUpstreamCorrect`.
- `GcraProofs`: `RunsBoth` (the composition implements both analyses), `TypeCorrect`,
  `WantedClashesCorrect`, and `ValuesKeptCorrect`, which is what the allocator is for:
  every proper colouring of its graph, with any set of colours, keeps every value
  wherever execution goes.
- `RoundRobinProofs`: `TypeCorrect`, `OverrunCorrect`, `ReachingExactCorrect`,
  `LiveWithinBlocksCorrect`, that is, every safety property of the run, and
  `LeastReachingCorrect`, that the round-robin reaching definitions implement `Dataflow`.
- `LockFileProofs`: `TypeCorrect`, `OwnerHasLockCorrect` and `OneOwner`.
- `ManagedStaticProofs`: `TypeCorrect`, `OneObjectCorrect`, `GoodReturnCorrect`,
  `NeedsOutliveCorrect` and `NothingLeftCorrect`, that is, every safety property of the run.
- `DemoProofs`: `TypeCorrect`, `AllAllocatedCorrect`, `SlotsApartCorrect` and
  `SimpleValuesKeptCorrect`, that is, every safety property of the run, for the pass and
  for whatever the functions it makes do afterwards; `AllocationInv` is the invariant.

*The argument.*  That a block off the worklist is solved is not inductive.  When a
block is computed the code stores its new set only if it is *larger*; if it could
shrink, or change without growing, the block would leave the worklist unsolved.
So the invariant is

    IInv == TypeOK /\ Ascending /\ OffWorklistSolved

where `Ascending` says that no set exceeds what its equation gives.  The sets are
finite, so a recomputed set that contains the old one and is not larger is equal
to it (`ChangedMeansLarger`): that is where the comparison of sizes is shown to be
sound.  For reaching definitions the objects are drawn from an infinite set, so
the type invariant carries that all of them are facts of the current function, of
which there are finitely many.  `LeastLivenessCorrect` then maps a step that grows a
set to `Raise`, `NextFn` to `Pose` and every other step to a stutter; that the
worklist is empty only when all equations hold is `OffWorklistSolved`.  Progress is
read off the same invariant.  For the instruction stage the invariant says that
what is found at an instruction is within what the block's equations give there,
definitions being subtracted with more aliases than the block's kill set has.

*Paths.*  What is live at a point, by the paths from it, is the least set of points that
contains the uses and is closed under a step backwards (`LivePoints`), and where control
gets from a block is the least set closed under a step forwards (`Downstream`): least
among the closed sets, so that no recursion is met.  One direction of each theorem is
then that the points at which the analysis, once done, has found something form such a
closed set, by the equations that then hold; the other, that what is found lies at each
step in every closed set (`PathInv`), which the first state does, having nothing.

The composition is shown to implement `GcraLive` by itself, stages of the other
analysis being stutters, which carries its type invariant over.  `WantedClashes`
then needs that the maps do not change after the first stage (`StageInv`) and that
every instruction walked satisfies its own equation (`InstrSolved`): a register
live after an instruction is live before the next, or after the block, and so is
in the range the other register's definition is in.

`ValuesKept` is about an execution that may take every branch, and its invariant
(`ExecInv`) says for the point execution is at: each register live there that has been
given a value, and has a live range, has it in its machine register.  That is kept because a step from one point to
the next of a path stays inside what is found at the two (the closed sets above), and
because whatever the instruction defines has, with each register live after it, an
instruction in both ranges, hence an edge, hence another colour (`ColoursDiffer`).
`Compiled` adds that once the allocator has stopped its maps are those the graph was made
of.

The round-robin pass has no worklist: it sweeps until nothing changes.  It keeps
what `in` had and adds to it, where `Dataflow` replaces, so the invariant says that
nothing is ever kept that the equations do not give (`Collected`); then a visit is
exactly a `Raise`, and a vector never shrinks.  `Settled` says that the blocks already
passed by a sweep without a change satisfy their equations: at the end of the sweep
these are all blocks.  What index a value has does not matter for that.

It does for what the vectors mean.  The places given an index are finitely many and
strictly ordered by `Before`, so that counting those before a place is one-to-one
(`IndexGrows`): an index tells its value (`IndexTells`, `TypeCorrect`), and a bit stands for that
value alone, but for bit 0, which also stands for what has no index at all (`OwnBit`).  Where no operand is met before its
definition no value is given two indices (`GivenOnce`), so the indices are those below
the size of the map (`OverrunCorrect`).  `ReachingExact` follows in two halves, as for
Gcra: what is in a vector was brought there (`Brought`), and when a sweep ends without a
change the blocks that have a bit form a closed set.  For live values, `Inside` says that
the bit of a value local to one block is in no vector of a block, and `Walked` that what is
found at its points is one walk through the block.

`OwnerHasLock` is not inductive either.  `LockInv` adds what a constructor that is not
`unsure` knows until something is `broken`: that the lock file is still the one it has
read, or gone (`ReadWell`), and, when it is about to remove one, that nobody owns
the lock (`NoneOwned`); and that an owner's name is in the lock file (`Named`).  Constructors
may run into each other anywhere: whoever links his file makes all those unsure that have
looked before and are still to decide.  Death keeps the invariant, because the dead own
nothing; birth, because a process that is born owns nothing yet, and a constructor that
finds its predecessor dead has looked at a process that owns nothing.  That the excuse is
needed is what `lockfile_mutex` shows.

For managed statics each property needs nearly all of one invariant, because the
mutex is recursive and a constructor or destructor is interrupted by whole accesses:

    IInv == TypeOK /\ CallsWell /\ Counted /\ Pointed /\ ListWell /\ NeedsMet /\ Undisturbed

- `CallsWell`: below the innermost call of a thread there are only constructors and
  destructors, each of which uses the static of the call above it, so that the ranks
  fall from the outermost call to the innermost.  A static therefore occurs once in a
  stack, and a constructor never meets its own static half made.
- `Counted`: the mutex is held as often as the calls of its holder say.  So who is
  anywhere between `check` and the release has it (`HasMutex`), no other thread is
  there, and the static of his innermost call is that of no other such call
  (`OnlyHere`).  This replaces mutual exclusion, which a recursive mutex does not give
  between the calls of one thread.
- `Pointed`: what of pointer, object and unseen writes is true at each place of an access
  or a destruction.  `OneObject` is read off it.
- `ListWell`: the list, followed from `StaticList` through `Next`, is a sequence without
  repetitions of just the statics that are made and not taken off, and what a
  constructor has used is behind its object.
- `NeedsMet`: what a running constructor has used so far is on the list, or is what the
  access above it is about to return.  With it `Enlist` may put the new object before
  all it needs, since a shutdown, the only one to take anything off, would need the
  mutex: `NeedsOutlive`.
- `Undisturbed`: beside an access that is not in `overlap` nobody is between the acquire
  and the release of a shutdown, so that a pointer it has seen stays set: `GoodReturn`.

The proof has one lemma per action, and three for what steps do to stacks: a call
goes on (`MoveStep`), uses another (`UseStep`), ends (`PopStep`).

For `DemoRegAlloc` the difficulty is that all places move.  A load goes before the
instruction the walk is at and a store behind it, so each insertion pushes what is
behind it in the block one place on (`Shift`), and the walk with its instruction.  Both
steps that insert are one kind of step, `Grown`: an item comes in, and the operand the
walk is at gets a machine register.  The other three only walk on.  `Taken` says of an
operand that the walk has been at it and found a virtual register there, which is what
every conjunct is about:

- `Shaped` and `Kept`: every item is an instruction of the function, with exactly its taken
  operands replaced, or a load or a store; and the instructions are all there, in order.
  When the walk is past the last block all operands are taken: `AllAllocated`.
- `Stored`: behind a taken definition, in a row with nothing but stores between, is the
  store of it, to the slot that `regMap` gives its register.  Two definitions of one
  register there are not, by SSA form.
- `Loaded`: before an instruction with a taken use is, in a row with nothing but loads
  between, the load of its register into the machine register the operand has got, from the
  slot of `regMap`, and no later load of the row overwrites it.  `InTurn` is what keeps that: the
  first use of an instruction gets EBX and the second ECX.  A third would get ECX too;
  `AtMostTwo` says that there is none.  That the slot is already the right one when
  the use is reached takes `InOrder`: a definition passed later would give it another.

Slots are numbered as they are made, so that each is stored to in one place:
`SlotsApart`.  At run time three things hold wherever the program is (`ExecInv`).  `Fresh`:
the slot of a register has what was last computed for it, but while execution is between the
definition and its store, where EAX has it; only stores come there, and none of them
writes EAX.  That EAX has it, and not another result of the same instruction, is what
`OneInEAX` is for.  `Ready`: what has been loaded for an instruction is in the machine register until the
instruction is run.  `PhysicalKept`: a physical register other than the three has what it would
have, since neither loads nor the allocator's choices touch it; of the three this is not so,
and `Apart` says that nobody uses them.  A jump goes to the start of a block, which is inside no row.

*Model-checked only.*  Liveness (`Terminates`, `LockFree`, `OrphanCleared`, `WaitEnds`,
`AccessReturns`) and all that needs fairness, which the prover cannot reach; `Progress`,
proved of both Gcra analyses, is the safety half of their `Terminates`.  And of the safety
properties one, `RightWithinBlocks` of `LiveVars`, the component without a proof module.

## 6. What the project found

1. *Nothing is killed* (`rd_kill`).  `doInit`, `getRDgen` and
   `analyzeInstructionsRDefs` each make their own object for a definition, and the
   kill sets hold only the first's.  The analysis still terminates, is the least
   solution of the equations over objects, and misses nothing.
2. *liveVars drops its block sets* (`lv_found`): `lookup` returns a copy.  Writing it back
   is not enough, because line 98 computes the before set only when the after set has
   changed, which from empty maps never happens.  For the first
   reason `bbBAMap.count(b)` is always 0 and a cycle that reaches the last block
   keeps the loop of line 85 going for ever.
3. *A third used register overwrites the second* in DemoRegAlloc (`demo_values`).
4. *Two processes may own one lock file* (`lockfile_mutex`).  `readLockFile` removes a
   lock file it could not open, whatever the reason: also the one of an owner that is
   alive, with a single constructor running, and one that was made since.  The constructor
   removes one whose owner it found dead, and one that nobody owned when it looked,
   by name, whoever's it is by then; and the destructor removes the lock file of
   whoever stole it.  It takes a lock file that could not be read, or was made since it
   was looked at (proved), and the work is done twice.

Observed on the way, without a run of their own: Gcra merges the ranges of a
register though they do not overlap, so that its graph has more edges than it
needs and none too few among virtual registers -- a definition of a physical register
may overwrite a colour, which lines 98-100 and 269 of `Gcra.cpp` state as a limit of
the allocator, and which `GcraExec` lets none do;
in DemoRegAlloc two results of one instruction both go to EAX, and a value that the function
itself keeps in EAX, EBX or ECX is overwritten by the allocator's use of them
(`SimpleValuesKept` excludes both); a lock file that is a link to nothing and cannot be
removed keeps the constructor going for ever; `Live.cpp` joins a block's own vector where its successors'
is meant, so that nothing is live across blocks (`LiveWithinBlocks` is what remains);
and `ReachingDef.cpp` kills nothing, having phi instructions only to kill with.

## 7. Plan

In this order, the most stateful first.

1. *Done*: `MachineFn`, `Dataflow`, `GcraLive`, `GcraRDefs`, `Gcra`, `GcraExec`, `LiveVars`,
   `DemoRegAlloc`, `DemoExec`; `RoundRobin`; `LockFile`; `ManagedStatic`.
2. *Proved*: every safety property of Gcra, `RoundRobin`, `LockFile`, `ManagedStatic`
   and `DemoRegAlloc`.
3. *Left to prove*: that `LiveVars` is right within a block.

### Not modelled

- *optLoads* is one loop over one block with no state between blocks; its hazard,
  a store passed over on the way to a load, shows with three instructions.
- *Livevar*: the walk of `livevar.cpp` does not end on any function (line 143: the step
  back stands after a `break`), so that there is no result to check.
- *Phase 1* and *phase 2* of the compiler are unfinished: a unary operator compiles
  itself again for ever, the statements of a block are compiled in the outer
  context, a store stores nothing.  What is left of either that works is a
  translation without state.
- *Java*: sequential, a list or a few links each, one loop per operation; what goes
  wrong there (ties, the last node removed, an empty queue) is listed under the
  hazards and takes two or three calls to see.
- The compiler's *front end and driver* are a grammar, printers and calls of other
  programs; the *Serpent cipher* is bit arithmetic, whose only reference is the
  cipher itself; the *exercises* are one function each and keep no state; the *web
  sites* have no logic.
- *The rest of LLVM*: vendored, and two orders of magnitude larger than the
  workspace; what the passes use of it is modelled with them.
