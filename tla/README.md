# Verification of the linearizability-testing queues and sets

The repository tests concurrent queues and sets for linearizability. A Python
script asks an SMT solver for all the *minimal* orders of operations that no
sequential queue (or set) can have; a second script turns each order into a C
program with one thread per operation, in which the model checker GenMC looks
for an execution with that order; the program runs on one of a dozen queues
behind a common interface, or on a set. This directory holds TLA+ models of the
queues and of the search tree, of the contract they are tested against, of the
formulas and the loop of the solver scripts and of the programs the generators
write; the TLC configurations that check them; and TLAPS proofs about the queues,
for every size, script and number of threads, and about the loop of the scripts and
the generated programs, for every size.

## 1. The system

### 1.1 Components

| component | source | state | operations |
|---|---|---|---|
| interface and noise threads | `wrappers/queue-wrappers.h` | the position of each thread in its calls | `noise_enq`, `noise_deq`, `noise_enq_deq` |
| FastMPMC | `wrappers/fastmpmc-wrapper.h` | `m_head`, `m_tail`, per slot a version and a plain value | `q_enqueue` (spins when full), `q_dequeue` |
| Herlihy-Wing | `wrappers/hwqueue-wrapper.h` | `back`, the array `AR` | `q_enqueue` (fetch-and-add, store), `q_dequeue` (one sweep) |
| Michael-Scott | `wrappers/ms-queue-wrapper.h` | `head`, `tail`, nodes with counted pointers, a free list per thread | `new_node`, `reclaim`, `enqueue`, `dequeue` |
| MPMC | `wrappers/mpmc-queue-wrapper.h` | two 16-bit counters in one word, two completion counters, plain array | `enq`, `deq` |
| UniQ | `wrappers/uniq-wrapper.h` | `in`, `out`, a flag and a plain value per slot | `enqueue` (drops when full), `dequeue` |
| Chase-Lev | `wrappers/chase-lev-wrapper.h` | `bottom`, `top`, `buffer` | `try_push` (owner only), `try_steal` |
| LCRQ | `wrappers/lcrq/lcrq.c`, `lcrq-assume.c` | a list of rings; a cell is value, index and unsafe bit in one word; `tail` has a closed bit | `enqueue`, `close_crq`, `dequeue`, `fixState` |
| Qu | `wrappers/qu-wrapper.h` | a list with a dummy, `tail` is a hint | `queue_try_enq` and `queue_try_deq`, which try once |
| LFQueue, LFRing | `wrappers/lfqueue-wrapper.h`, `lfring-wrapper.h` | in git submodules that are not in the tree | |
| queue solver | `queue_solver.py` (and the older `queue_solver_ori.py`) | the solver's assertions, the models printed | the formulas; the loop *ask, print, rule out* |
| queue test generator | `queue_testgen.py` | none; the program it writes has a flag per operation | `parse_trace`, `generate_ops`, two templates |
| set solver | `set_solver.py` | the solver's assertions, the models printed | the formulas; the loop, with an assertion of its own to rule a model out |
| set test generator | `set_testgen.py`, `wrappers/set-wrappers.h` | none; a flag per operation | as for queues, with add, remove and contains |
| Howley tree | `wrappers/howley-wrapper.h`, `wrappers/howley/bst_howley*` | an internal binary search tree; each node has an `op` word, a record of what is going on and a flag | `bst_find`, `bst_add`, `bst_remove`, `bst_contains` and the help they give: `bst_help_child_cas`, `bst_help_relocate`, `bst_help_marked` |
| coarse and fine sets | `wrappers/coarse-set-wrapper.h`, `fine-set-wrapper.h` | in a submodule | |
| ssmem | `wrappers/howley/ssmem.h` | header of an allocator that is not in the tree | |
| scripts, logs, generated tests | `run-*.sh`, `docs/`, `tests/` | | |

### 1.2 How they interact

`queue_solver.py` prints traces, `queue_testgen.py` reads them (from
`docs/resultset2.txt`) and writes one C file each. That file includes one
wrapper, calls `q_init_queue`, and starts a thread per operation; the threads
share the queue and the flags `f_i`. A thread spins, as an assume, on the flags
of the operations before it, calls the queue once, compares the answer with the
history and sets its flag. Noise threads call the queue and touch no flag. The
set scripts do the same for a set and its three calls. Inside a queue, threads interact through the queue's atomics alone. There are
no locks (except in the two submodule sets), no messages, no persistence and no
clocks: what is hard is interleaving, memory reuse, the limits of the rings and
pools, and the combinatorics of the formulas.

A retry loop begins with `__VERIFIER_assume(++cnt < MAX_ITER)`: the checker
abandons an execution that goes round too often. Outside the checker the macro
is empty and the loop unbounded. Both are modelled (`MaxIter`, section 3).

### 1.3 What is hard, and what must hold

- *Every queue*: a call has one instant at which it takes effect on a FIFO
  queue. Some wrappers promise less: Chase-Lev, Herlihy-Wing (one sweep) and
  Qu may return false from a queue that is not empty, UniQ and Qu may drop an
  item silently. With its memory orders Herlihy-Wing does not keep even that (5.3).
- *Plain payload fields* (FastMPMC, MPMC, UniQ): no two threads access a slot at
  once, whatever has been stalled for how long. In C11 that is not all: the accesses
  must also be ordered (section 6).
- *Recycled nodes* (Michael-Scott): a pointer to a node that has been freed and
  used again must not be taken for the old one; no node is lost or used twice.
- *Rings that wrap* (FastMPMC, MPMC, UniQ, Chase-Lev, LCRQ): a lap is not
  confused with the one before.
- *Lagging tails* (Michael-Scott, LCRQ, Qu): the tail stays on the list, and no
  thread waits for one that stopped before it moved tail.
- *Two-step reads* (all): what was read before a compare-and-swap still holds if
  it succeeds.
- *Removal in a tree* (Howley): a node with two children is removed by moving a key
  up, in seven writes that any thread may finish or make again late; a search
  that goes on meanwhile may miss the key, and a value must be freed once.
- *Memory orders* (Herlihy-Wing, Howley): some accesses are deliberately weaker than
  seq_cst, and the repository keeps variants with other orders. A thread may read old
  values, a sweep may put its null in front of an item already stored, what it gets a pointer to may not be filled yet as far as it can
  know, and two threads may each miss what the other has done.
- *The formulas*: they must describe exactly the histories that no FIFO queue, or
  no set, has; minimality is tested one edge at a time on relations that are no longer
  transitive; the loop must end, rule out no trace that was not printed, and miss none.
- *The generated programs*: a program that completes must have found a fault,
  and it must be able to complete: some tests are not (5.4).

`PROJECT.json` lists each of these at its line, with the properties that watch it.

## 2. The models

Every module of a queue, and of the tree, EXTENDS `Clients`, which holds what they share: each thread
runs a fixed `Script` of calls; `pc[t]` names the next atomic access; `Invoke`,
`Goto`, `Return` and `Retry` are the only ways to move it. One atomic access of the
code is one action, and so is each access to a plain field that could race;
local computation is done in the step of the access before it. Actions carry
the name of what the access does, prefixed with the function it is in.

| module | models | state in the code |
|---|---|---|
| `AtomicQueue` | the contract: call, take effect, return; `Lax` weakens it by `deqMayFail`, `enqMayDrop` | none (abstract) |
| `LinMonitor` | the same contract as a monitor: the set of all the ways to order the calls so far | none |
| `FastMPMC` | FastMPMC; `tk` is the local `head`/`tail`, `got` is `*retVal` | `queue_t` |
| `C11` | memory with release and acquire: every location has its writes in modification order, every thread a view of them | the atomic objects |
| `TestMonitor` | what executions of the wrappers on `C11` are held to: `LinMonitor` when they interleave, else the results of a complete execution | the flags and assumes of a test |
| `HWQueue`, `HWQueueLin` | Herlihy-Wing on `C11`; the second under the monitor with a history variable `full` | `back`, `AR` |
| `HWQueueTest` | the same in a generated test: a thread waits for flags, calls once, and is abandoned if the answer is another than the test assumes | the flags and assumes of `t4.c` |
| `MSQueue`, `MSQueueLin` | Michael-Scott with free lists, counts and its four assertions | `queue_t`, `free_lists` |
| `Rings` | slots and tickets of the three below | |
| `MPMCQueue` | MPMC with counters modulo `Word` (2^16 in the code) | `mpmc_boundq_1_alt` |
| `UniQueue` | UniQ | `UniQueue` |
| `ChaseLevQueue` | Chase-Lev with push and steal, the two operations of the wrapper | `Deque` |
| `LCRQueue`, `LCRQueueLin` | `lcrq.c`, on its own and under the monitor | `RingQueue`, `head`, `tail` |
| `LCRQueueAssume` | the dequeue of `lcrq-assume.c`, which assumes the value it expects, and the noise threads of its wrapper | the same |
| `QuQueue` | Qu | `queue_t` |
| `HowleyBST`, `HowleyBSTLin` | the tree on `C11`: a node's `op` is the number of a record and a flag, a child 0, a node or minus a node (`SETNULL`); `loc[t]` the locals of a call, `then` where help returns to | `node_t`, `operation_t` |
| `Orders` | what both solver scripts share: orders as sets of pairs, sizes | |
| `QueueTraces`, `SetTraces` | the formulas of `queue_solver.py` and `set_solver.py`, under the names they have there | |
| `Traces` | test cases, minimality and what an answer rules out, of both | |
| `Histories` | the reference they are compared with: runs of a FIFO queue and of a set | |
| `Solver` | the loop of both scripts; any model may be the solver's next | the assertions |
| `GeneratedTest` | the tool chain: when the loop has ended, the program `queue_testgen.py` or `set_testgen.py` makes of a printed line, on an arbitrary queue or set | flags `f_i`, threads |
| `MC*` | constants of the runs; `MCRings` chooses one of three wrappers, as `queue-wrappers.h` does | |
| `FastMPMCProofs`, `MPMCProofs`, `MSQueueProofs`, `QuQueueProofs` | the theorems about a queue each | |
| `RingProofs` | the theorems about UniQ and about LCRQ | |
| `ArrayProofs` | the theorems about Chase-Lev and about Herlihy-Wing in the memory of `C11` | |
| `ToolchainProofs` | the theorems about `Solver` and `GeneratedTest` | |
| `QueueLemmas` | lemmas: on `Clients`; on `%`, on queues as functions, on the least number | |

**Two ways to say linearizable.** Where a call takes effect at a step that is
known when it happens (FastMPMC, MPMC, UniQ, Chase-Lev, Qu) the module contains
`Abs == INSTANCE AtomicQueue WITH ...`, a refinement mapping, and the property is
`Abs!Spec`. In Herlihy-Wing, Michael-Scott, LCRQ and the tree the point is only known
later (which enqueue came first in `AR` depends on the next sweep; a dequeue that
returns false took effect at a load that a later check validates; a contains
that finds nothing, at some moment of its search). There the
module is composed with `LinMonitor` as `Next /\ Observe`: `lin` is the set of
abstract states that agree with all results so far, and the queue, or set, is
linearizable while it is not empty.

**Memory model.** Herlihy-Wing and the tree go through `C11`, where each access has
the order it has in the code; `Builds` says which builds a run explores. In the build
`"SEQ"` only the newest write of a location exists and the program interleaves (for
the tree this is `bst_howley_seq.c`). In any other a write goes somewhere in the
modification order after what its thread knows, a load reads any write from there on, an
acquire takes over the view of the release it reads, also through a chain of
read-modify-writes, and a seq_cst access sees all seq_cst writes before
it. This yields the executions of RC11, GenMC's model, for programs without fences
and without two stores by one thread to one location; loads never read from writes
that are later in the execution, which RC11 forbids too. A plain block (a payload, a
record, a node before it is published) is one location, and `Knows` says that a
thread is ordered after the writes that filled it.

"One call returned before another began" means nothing to a weakly ordered program,
so there `TestMonitor` does what a test does: `after` collects which
threads' flags a thread has seen before it starts (a release and an acquire, as in
the programs of `queue_testgen.py`), and a *complete* execution must have an order of
its calls, respecting `after` and each thread, that a queue or set explains:
`Explained`. `Waits` lists the sets of threads a thread may have waited for; the runs of
scripts have all of them, the run of a test the one its trace names. Herlihy-Wing does
not satisfy `Explained` (5.3). What it is held to in general is `ThreeExplained`: for
any three items there is an order of the calls on them that a queue explains, where the
calls on other items still count for what the threads know of each other.

The other queues are modelled sequentially consistent although their accesses have
release, acquire and relaxed orders; what only those show is not in these models
(section 6).

**Assumes.** With `MaxIter = k > 0`, `Retry` counts the turns and moves the
thread to `"blocked"` as `__VERIFIER_assume(++cnt < MAX_ITER)` does; with
`MaxIter = 0` loops are unbounded as in a build without the checker. A failed `assert`
moves the thread to `"assert"`. Safety holds in both readings because a blocked
thread is only one that is never scheduled again. Deadlock is checked in every
run but `HWQueue_order`, where an execution stops when an assume of the test fails; `Terminating` (`UniDone` in UniQ) marks the states in which no thread has anything left to do.

**Constants.** `Vals` are payload pointers, `Threads` and `Script` the test,
`Waits[t]` the flags it may wait for and `Item[t]` what it assumes to get,
`Capacity`/`Size`/`RingSize` the rings' sizes, `MAX` the cells of `AR`, `WeakCAS`
(`WeakExchange` in UniQ) whether `compare_exchange_weak` may fail for no reason, `Stalled` the threads the
scheduler may abandon, `MaxRings` a bound on the rings a run may allocate.

## 3. The runs

| run | instance | what it shows |
|---|---|---|
| `FastMPMC_ring` | 2 slots, 3 threads, 3 enqueues and 4 dequeues, unbounded loops, spurious failures | no two threads own a slot at once; no lap; versions only grow; the ring refines the atomic FIFO queue; with a fair scheduler every call returns |
| `HWQueue_lax` | 4 cells, 3 threads, 4 enqueues and 3 dequeues, interleaved and with the orders of the code; any thread may have waited for the flags of any that have ended | claimed cells stay claimed and empty; interleaved, the results are those of a FIFO queue whose dequeue may fail, and with the orders those on any three items are; it fails only if all the items it knew of were taken meanwhile; who gets an item knows its payload, although the cells are relaxed and the fetch-and-add only a release |
| `HWQueue_order` | the test `generic_10_0_10_True_4/t4.c` as it is: 8 threads with a call each, 4 flags, orders of the code | **violation**: see 5.3 |
| `MSQueue_recycle` | 3 threads, 7 nodes, one thread enqueues and dequeues twice so its nodes come back | no assertion fails and the list is well formed with tail at most one behind; every node is in exactly one place; what a winning compare-and-swap relied on still holds; linearizable; the others finish whatever the stalled thread holds |
| `Rings_wrap`: MPMC | 2 slots, counters modulo 4, 8 calls | slots and counters wrap, the ring never fills; no two calls meet on a slot; the counters count the calls in progress; some wait is always over; refines the FIFO queue |
| `Rings_wrap`: UniQ | 2 slots, 3 enqueues, 2 dequeues | until the ring wraps: slots exclusive, flags agree with tickets, refines a FIFO queue that may drop; an item is dropped only if the ring is full then |
| `Rings_wrap`: Chase-Lev | 2 slots, one owner with 4 pushes, two thieves | never overrun, a push too many ends in its assertion and overwrites nothing; refines a FIFO queue whose dequeue may fail (`DequeImplementsQueue`, which is `ImplementsAtomicQueue` of `ChaseLevQueue`) |
| `LCRQueue_lin` | rings of 2 cells, up to 4 rings, 3 threads, `MaxIter` 3 | rings form one chain; no item is left behind a head or in an abandoned ring; linearizable |
| `LCRQueue_assume` | the same rings; two enqueues, an odd noise thread, a dequeue that expects the noise thread's item | **violation**: see 5.1 |
| `QuQueue_list` | 3 threads, 4 enqueues, 3 dequeues | one list without cycle or branch on which head, tail and all that a thread holds stay; what is not dropped comes out once, in order; others finish although tail may go back |
| `HowleyBST_tree` | a tree of four nodes, made by thread 0. Then either a removal of its top, a removal of its least key and a contains of the key that moves up; or two threads that each remove a leaf and look for the other's. Both interleaved and with the orders of `bst_howley_opt.c` | at every step the nodes form a search tree; the results have an explanation; each value is freed once and none that is in use; a marked node never changes and never comes back; nobody follows a pointer to a node or record it does not know |
| `HowleyBST_moved` | the second test, but the leaf one thread removes is a node with two children; orders of `bst_howley_opt.c` | **violation**: see 5.2 |
| `Toolchain_all` | queues (n,k,N) = (2,0,2), (3,1,3), (4,0,4), (4,2,2), (5,1,5), (5,3,5); sets (n,k,l) = (1,0,1), (1,1,0), (1,1,1), (1,2,1), (2,0,0) | for any choice of models: traces printed are forbidden, minimal, none under two names; every forbidden history contains one; the loop ends. Then, for the queues (2,0,2) and (4,0,4) and the sets with k < 2: a program that completes has found a fault, since the flags enforce the trace's order; a program can complete, as it is never stuck and what a call should find is put in. Three ASSUMEs are evaluated for these sizes: the formulas allow the orders a queue, or set, has runs for, and no others (`FormulasRight`); the letters suffice (`LettersSuffice`); and for (4,0,4) there are as many forbidden orders with none inside as the recorded output has traces, not counting renamings |
| `Toolchain_tests` | tests of queues (3,1,3) and (4,0,2) and of sets (1,2,1) | **violation**: tests that cannot complete, see 5.4 |

**Bounds.** Two slots are the smallest ring the algorithms differ on from a single
cell, and with three or four items every ring run wraps, so a slot meets
the ticket of the next lap while a thread of the last one is stalled. MPMC also
wraps its counters, which is why `Word` is 4. Three threads give an enqueuer and
a dequeuer on a slot and a third that changes the word in between. `MaxIter = 3` gives two turns, so a retry
after a lost race is in; FastMPMC, Michael-Scott, Chase-Lev and Qu run unbounded.
LCRQ allocates at most three more rings than it starts with, one for each enqueue,
so `MaxRings = 4` cuts nothing off. In the tool chain run n <= 5 is what enumerating
the posets allows; it has pairs of pairs, bottoms and both, N < n once, and for sets
two values, and one value with up to two contains that find it. The size the
scripts are set to (n = 12, and 9 operations of a set) is out of reach; the
formulas only ever speak of two pairs, a pair and a bottom, or one value.

The tree of `HowleyBST_tree` is the smallest in which the node to remove has two
children and the key that moves up is not the child itself, so the search of the
contains can be passed by its key, and two removals meet in the node to
remove. Scripts in which other calls meet in that tree (two removals and an add, a
removal, an add and a contains) have been run interleaved too, up to a million states,
without an error. `MaxIter`, and `MaxFind` when interleaved, are 3, one more than in
the code (`MAX_ITER`, `MAX_FIND`), so that threads go on after they have helped or
lost a race. With the weak orders `MaxFind` is 2, as in the code: an execution in
which a search helps is abandoned, and as an execution that is abandoned shows
nothing there, the model stops with it (`Abandoned`).

`HWQueue_lax` has four enqueues and three sweeps: items are stored out of the order
of their indices, and of the sweeps one passes, one takes and one finds the cell
empty. That is enough for an execution no queue explains (with `Explained` in place of
`ThreeExplained` the run fails), so any three items is the most that may be asked. The
same property has been checked for the eight calls of `t4.c` as a script of four threads
that may wait for each other in any way, 1.7 million states, without an error.
`HWQueue_order` needs no bound: the test is whole. Explored to the end the model has
four complete executions of it, as many as `docs/qlogs/hw.log:41-43` records.

Size (4,0,2), the smallest with operations that take no part, is in
`Toolchain_tests` only, where the solver's loop for it takes most of the time.

`Rings_wrap` has three separate instances, one for each wrapper: an execution is of
one of them, and the objects of the others stay as they are at the start.

`LCRQueue_lin` keeps `WeakCAS = FALSE` for its size; the same script with
`WeakCAS = TRUE` has 7.3 million states and no error.

**Fairness.** `Spec` has none. `FairSpec` of FastMPMC has weak fairness of each
thread (the operating system schedules every thread) and strong fairness of a
winning compare-and-swap, since a weak one may fail for no reason but not for
ever. No fairness between threads is assumed for the retry loops: they end
because the scripts are finite. Michael-Scott and Qu have weak fairness of the
threads outside `Stalled` only: a stalled thread may stop at any step, which is
what lock-freedom allows. The loop of a solver script is one thread that runs
to its end. Liveness is claimed nowhere else: with the assumes compiled in any thread
may be abandoned. That an MPMC call does not wait for a value that has passed is
an invariant, `SomeWaitEnds`: whenever all the claims in progress are waiting, and
none was abandoned, one of the waits is over.

**Type invariants.** The `TypeOK` of each queue module, and of the tree, is checked as the first conjunct of its
invariant (`Inv`, `ArrayInv`, `ListInv`, `CountersInv`, `RingInv`, `DequeInv`,
`RingsInv`, `TreeInv`); for Herlihy-Wing it says that no index leaves the array.

**Mutants.** Every property of every passing run has a slip, defined just before the
operator it replaces and ending in `Bug`, under which TLC finds the property
violated.

## 4. The proofs

Each theorem below is proved by TLAPS for every value of the constants that the
named assumptions allow: any set of threads, any scripts, any payloads, any size,
any `MaxIter`, and for the tool chain any `n`, `k`, `l` and `N`. Where a queue is shown to implement `AtomicQueue`, the initial
state maps to an initial state and each step to a step or a stutter; the run of
the queue checks the same property on its instance (that of UniQ and Chase-Lev, by way of
the instances in `MCRings`).

| module | theorem | says | under |
|---|---|---|---|
| `FastMPMCProofs` | `TicketsCorrect` | `Spec => []Inv` | `Capacity >= 2` |
| | `SlotsExclusive` | no two threads own a slot at once | |
| | `VersionsOnlyGrow` | no ABA on a version | |
| | `ImplementsQueue` | a FIFO queue | |
| `MPMCProofs` | `CountersCorrect` | the counters count the calls in progress, modulo `Word` | `FewThreads`, `[]HasRoom` |
| | `SlotsNeverRace` | no race on a slot | `FewThreads`, `[]HasRoom` |
| | `WaitsEnd` | the claims in progress never all wait in vain | `FewThreads`, `[]HasRoom` |
| | `ImplementsQueue` | a FIFO queue | `FewThreads`, `[]HasRoom` |
| `ArrayProofs` | `DequeCorrect` | Chase-Lev: `Spec => []DequeInv` | `OneOwner` |
| | `ImplementsQueue` | a FIFO queue whose dequeue may fail | `OneOwner` |
| | `ArrayCorrect` | Herlihy-Wing: `ArraySpec => []ArrayInv` | `EnoughCells` |
| | `PayloadsAcquired` | who gets an item knows its payload | `EnoughCells`, `ItemsApart` |
| | `SweepCorrect` | false is returned only if all the items known of were taken | `EnoughCells`, `ItemsApart` |
| `RingProofs` | `RingCorrect` | UniQ: `UniSpec => []RingInv` | until the ring wraps |
| | `DropsWhenFull` | an item is dropped only from a full ring | |
| | `QueueAtFirst` | a FIFO queue that may drop | until the ring wraps |
| | `RingsCorrect` | LCRQ: `Spec => []RingsInv` | |
| | `NothingLeftBehind` | no item is left behind a head or in an abandoned ring | |
| `MSQueueProofs` | `ListCorrect` | `Spec => []ListInv` | `~WeakCAS` |
| | `SnapshotsHold` | what a winning compare-and-swap relied on holds | `~WeakCAS` |
| | `NodesRecycled` | every node is in one place | `~WeakCAS`, no failed assertion |
| `QuQueueProofs` | `ListCorrect` | `Spec => []ListInv` | finitely many threads |
| | `ImplementsQueue` | a FIFO queue that may drop and whose dequeue may fail | finitely many threads |
| `ToolchainProofs` | `MinimalFound` | traces printed are forbidden, and no smaller order is | `FormulasRight` |
| | `PrintedOnce` | no trace is printed under two names | |
| | `AllFound` | when the loop ends every forbidden order contains a trace printed | `FormulasRight` |
| | `CompletedFindsFault` | a test completes only with a history no queue, or set, has | `LettersSuffice`, `FormulasRight` |

**Assumptions.** `CapacityAssumption` of FastMPMC (the code has 32; with one slot
"holds p" and "free for p + 1" are the same version), `SizeAssumption`,
`ScriptAssumption`, `WaitsAssumption` and `MaxIterAssumption` are on constants. `OneOwner` says that
at most one thread enqueues, which Chase-Lev requires; without it the queue is broken
(5.5). `~WeakCAS` is what GenMC does; with spurious failures Michael-Scott is broken
(5.5). `FewThreads` says that there are fewer threads than a half of `m_rdwr` can
count, 2^16 in the code; `[]HasRoom`, that no enqueue of the execution finds the ring
full, since one that does goes on without a claim (5.5). MPMC's `TurnsAssumption`
leaves out `MaxIter = 1`, with which every call ends at the head of its loop, and
`WordAssumption` has `Word` a multiple of `Size` and larger, as in the code.
"Until the ring wraps" is part of the properties of UniQ (`~Wrapped`), for the
same reason. `EnoughCells` says that `AR` has a cell for every enqueue of the test, since
`hwqueue-wrapper.h:17` never compares an index with `MAX`; `ItemsApart`, that no item is
`NULL` or a result of another kind. `MCHWQueue` evaluates both.

`FormulasRight` says that the orders the formulas of the two scripts allow are those
that runs of a FIFO queue, or of a set, explain (`Histories`). That is what the scripts
are written for, and it is a fact about all runs, which are data of any length: to prove
it would take an induction over runs, so TLC evaluates it, for each size of
`Toolchain_all`. The theorems then say that the rest of the chain, from the formulas to
the assumes of the generated program, adds no mistake. `PrintedOnce` needs no such thing.
`LettersSuffice` says that a queue test has at most 19 values, so that none has the
letter T, which `label` uses for a dequeue of bottom; nothing in the code sees to that.
`MCToolchain` evaluates both. The runs satisfy all of these assumptions.

**FastMPMC.** `SlotExclusive` is not inductive: that a thread that wins its
compare-and-swap is alone on the slot depends on a version it loaded some steps ago.
`TicketInv` is the strengthening, in five parts: `NoLap` (head <= tail <= head +
Capacity, and a dequeuer still in its slot is not lapped), `OwnersHoldVersions`
(between the winning compare-and-swap and the version store, the slot's version is
the one the ticket says), `TicketsDistinct`, `QueuedVersions` (tickets between head
and tail are free or full, nothing else) and `CheckedVersions` (what a thread has
tested is still true as long as the head or tail it compares with has not moved). A
step that only moves one thread keeps it (`LocalStep`, `PlainStep`, `RetryStep`); the
four steps that matter have a lemma each (`EnqWins`, `DeqWins`, `Publishes`,
`Releases`). That one of them leaves the slots of the others alone needs that tickets
less than a lap apart use different slots (`SlotInj`), and that one lap on is the same
slot (`SlotLap`). The refinement follows from the same invariant: an item is with its
enqueuer until that has written it, and then in its slot until the dequeuer of its
ticket has read it.

**MPMC.** The counters hold only their counts modulo `Word`, so `IInv` names the
counts: `R` reads and `W` writes have been claimed, and `gr[t]`, `gw[t]` when `t`
claimed (`ClaimsAre`). Of an enqueue and a dequeue in progress one claimed `Before` the
other, and a call whose wait is over has no call of the other kind before it
(`InOrder`). The heart of the proof is that a wait, which compares two numbers modulo
`Word`, says just that (`WaitOver`, `WaitsTell`): of the other kind, as many are
completed as had been claimed when the call claimed, if and only if all that claimed
before it are done. For those that claimed after it cannot be done before it, as they
wait for it; and there are too few threads for the counter to go round once. As the two
kinds are alike these lemmas are proved for one and used for both. `NoSlotRace`
follows because the calls that have passed their waits are all of one kind
(`OneKindPast`), and enqueues among them are less than a lap apart (`NoLapBehind`); and `SomeWaitEnds` because the call that claimed first
waits for nobody (`OneGoesOn`). For the refinement a place is `Live` if its item is in
the queue, or is to be read by a dequeue that still waits for an enqueue: no two live
places are the same modulo `Word`, and when a slot is written any other live place that
shares it has its item still with its enqueuer (`SlotInUse`). A call takes effect at its winning
compare-and-swap, so the item is in the abstract queue before it is in the ring
(`EnqTakesEffect`, `WriteKeepsItems`), and a dequeue may take an item that its enqueuer
has still to write (`DeqTakesEffect`, `EnqReturns`).

**Chase-Lev.** The owner's `bottom` is exactly the one it loaded, and `top` only
grows, so the room the owner has tested can only become larger. The item a thief has
read is the one at `top` for as long as `top` is what the thief loaded, although the
owner may meanwhile have gone round the buffer. A push takes effect at its store of
`bottom`, a steal at its winning compare-and-swap.

**UniQ.** While fewer than `Size` enqueues have claimed a place, tickets are slots;
the flag of a slot says whether its item is written, and a dequeuer that has seen the
flag may read. `DropsWhenFull` is about the two loads of the test, `in` first and `out`
later: when the test finds the ring full `in` has only grown since.

**Michael-Scott.** `IInv` names the nodes of the list as a sequence from head on:
`next` leads from each to the one after it, tail is the last but one or the last, and a
counted pointer that a thread has loaded is either the one still there or has a count
that is over. `OnePlace` keeps apart the list, the free lists and the nodes in
threads' hands; it is what makes a recycled node's new count the only one of its kind.
The four assertions of the code cannot be proved never to fail: `new_node` fails
when a script enqueues more than its thread's free list holds. So `NodesRecycled` is
stated as long as none has failed, and that none does on the script of the run is left to
`MSQueue_recycle`. `NodesFit` (nodes are numbers up to `MaxNodes`) is about the model.

**LCRQ.** `RingsInv` needs that an enqueuer about to append has a closed ring that
`last` has reached (`OnChain`). `NoItemLeftBehind` is far from inductive: an item may
be written long after head has passed its place, unless something stops its enqueuer.
What stops it is the cell. A dequeuer that gives its place up leaves the cell `Dead`
for that place (`PassedAreDead`): it serves a later place, or it is unsafe and holds
nothing for that place. A dead cell stays dead because an enqueuer that is to fill an unsafe
cell has seen a head that had not reached its place, and every dequeuer that came since
either still claims its place or has changed the cell (`UnsafeTested`); the
compare-and-swap cannot miss that, since the index of a cell only grows (`IndexGrows`).
An abandoned ring is `Drained`: it is closed, and head is beyond all its items
and beyond all enqueuers that may still fill one of its cells. That holds when `first` moves on
because the dequeuer has tested tail once more after it read `next`
(`DrainedAtMove`), the test that `lcrq-assume.c` leaves out (5.1). All steps are
reduced to what they do to a ring (`RingsGrow`), to a cell (`CellSteps`) and to the
thread that takes them (`EnqMoves`, `DeqMoves`). The theorems hold for spurious failures and every
ring size; `MaxRings` bounds the model, not the argument.

**Qu.** Nodes are never reused and a `next` that is not null never changes, so `IInv`
names one sequence that holds all that was ever linked; head and tail and what a
thread has loaded are on it, and tail may be anywhere from head on or even
before head. Only the node at its end has a null `next`, so the one compare-and-swap
that links wins only there.

**Herlihy-Wing.** That the results are those of a FIFO queue is not among the theorems:
with the orders of the code they need not be (5.3). What is proved holds for both
builds, so for every execution the orders of the code allow, of any threads and any
scripts. What is hard is that a write may
go in the middle of a modification order, and views move with it (`Moved`). `ArrayIInv`
says what the modification orders are. The writes to `back` are a chain of
read-modify-writes, so they never come apart and the i-th of them has the value i - 1
(`BackCounts`); the newest is the number of enqueues that have taken an index
(`BackIsCount`), so with `EnoughCells` an index is a cell. A cell that nobody has claimed,
or whose enqueuer has still to store, has been `Untouched`: it has its first null and a
chain of exchanges of null for null. So the relaxed store can only go behind all of
them, and at most one item is ever stored in a cell (`OneItem`). `ViewsInTime` says that
no view is ahead of the memory; it keeps the places of views in step when a write comes
in (`WriteInTime`).

For `PayloadsAcquired` the chain of release and acquire is followed through the index:
the view a thread releases with its fetch-and-add has its item, and all later writes to
`back` carry that view on, as they are read-modify-writes (`PublishedWithIndex`). So
whoever acquires an index above c knows the payload of any item in cell c, before or
after it has been stored. The exchange that gets the item need not order anything.

`SweepCorrect` needs the converse (`IndexShared`): a view that has the store of an item
to a cell also has the index that goes with it. Thus an item that a dequeue knew of when
it loaded `back` is below its `lback` (`LoadedMore`): if it knew of one, it does not
return false straight from the load, and its sweep comes by (`SweepsFull`). When it
does, the exchange writes after all that the thread knows of the cell, where there is the
item or only null; if it does not get the item, another exchange has, and the cell
stays null.

**Tool chain.** `SolverInv` says of the models printed that they are `Minimal`, that
none is a renaming of another, and, once the script has no more, that no minimal order
is left that the assertions allow. `minimal_one` only asks of one edge at a time whether
the formulas hold without it, on what is mostly no longer an order then. That this is enough
rests on two facts: of an order and a larger one, some edge of the larger with nothing between
its ends is missing in the smaller (`LooseEdge`), and the larger without it is still an order
(`CoverGoes`). So a test case that contains a smaller one can also lose a single
edge (`MinimalAmongAll`), and as orders are finite every test case contains a
minimal one (`SmallestSet`, `MinimalInside`). What an answer rules out for a queue is
what `gi_strong` matches, and a match is a renaming (`MatchIsName`), read in either
direction (`RenamedBack`); hence what is ruled out is in `Names` (`RulesOutNames`), and
all of `Names` is ruled out (`NamesRuledOut`). The second half gives `PrintedOnce`,
the first `AllFound`: a minimal order that is not ruled out would still be a
candidate, and one that is contains a printed trace under some name.

For the generated test `parse_index` has to read what `label` wrote (`EdgesAre`, for both
tools). `TestInv` then follows the flags: a flag is set only by a thread that has passed
its check (`FlagsHeld`), a thread has as many flags behind it as it counts
(`OrderKept`), so when it makes its call all that the trace puts before it have
returned and are in `before`, and the answer of every thread beyond its check is the
one of the history (`AnswersKept`). When all threads are done the trace is therefore part of
`before`, and an order that contains a forbidden one is forbidden.

**Lemmas.** `QueueLemmas` has what these proofs share: arithmetic of `%`; that a queue
written as a function on `1 .. n` is appended to, or loses its first, when the
function grows or shifts (`PushedBack`, `PoppedFront`); and that a set of naturals
has a least element. It begins with the type correctness of `Clients`' operators.

**Left to TLC.** Liveness under fairness, which is outside the prover's reach.
`Linearizable`, `Explained` and `ThreeExplained`: the monitor's state is a set of possible queues that
grows with each call, and in Michael-Scott, where a dequeue that finds nothing took
effect at a load that a later check validates, the refinement would need prophecy.
Of the tool chain, `FormulasRight` for the sizes above; `Ends`, which is liveness; and
`TestsCanComplete`, which holds for the tests of some sizes only (5.4). The tree, whose removals
may be made by any thread that meets them: an inductive invariant would have to
say, of every helper at every line, which of the writes of the operation it helps have
been made.

## 5. What the models say about the code

### 5.1 `lcrq-assume.c` leaves items behind

`lcrq-assume.c:423` comments out the second test of tail that `lcrq.c:422` has.
The dequeuer tests tail, runs `fixState`, and reads `next`; between the test and
the read the ring may be filled, closed and linked to a new one. Without the
second test it moves head past a ring that holds items, and a later
dequeue returns what was enqueued later, or false. Run `LCRQueue_assume`. The
assume on the expected value (line 354) is in the model and does not prevent it: the
enqueues concerned are another's, and noise threads expect nothing.

### 5.2 `bst_howley_opt.c`: a removal that moves a key is not ordered with later reads

In `bst_howley_opt.c` two accesses are seq_cst: the mark of a removed node (line 264)
and the check of a node's `op` at the end of a search (line 159). That is what
keeps `remove(A); in(C)` and `remove(C); in(A)` in two threads from each finding what
the other has removed, the store buffering trace of
`tests/generated/generic-set_3_1_0_True_2/t11.c`: `HowleyBST_tree` has this test and it
holds. If C has two children its removal does not pass line 264. It moves a key
up into the node, by compare-and-swaps that are releases, and marks another node in
line 355, a release too. Then both contains may return true. The tests never build
such a tree for this trace, so the recorded runs (`docs/qlogs/howley_opt_true.log`)
do not show it. Run `HowleyBST_moved`; interleaved, as in `bst_howley_seq.c`, the
same script has no such execution. Nor has it if the compare-and-swap of line 322, or
that of line 346, is made seq_cst in the model, since either writes the `op` that the
search checks; the one of line 342, on the key, is not enough.

With the orders of `bst_howley.c`, which are relaxed at ten more accesses, the trace is
possible with leaves as well, and a thread may follow a pointer to a record whose
fields it does not know: this is the mutant `DefaultOrderBug`, which breaks `Explained` and
`PublishedFirst`. `docs/qlogs/howley.log` has executions of it that complete, and
`_opt` is the repository's answer.

### 5.3 Herlihy-Wing with relaxed exchanges is not a FIFO queue

The test `tests/generated/generic_10_0_10_True_4/t4.c` is made for the trace
enq(A) < enq(B), deq(B) < enq(D), deq(D) < deq(E), enq(E) < deq(A), which no FIFO queue
has. Run `HWQueue_order`: it completes. A, B, E and D take indices 0 to 3. deq(A) takes
A after enq(E) has returned. deq(B) finds cell 0 empty, but its exchange
(`hwqueue-wrapper.h:32`) is relaxed and not ordered after the exchange of deq(A), so it
does not know of E. The sweep of deq(D), which knows what deq(B) knew, therefore may put its
null into cell 2 in front of the relaxed store of E (line 19), and returns D; deq(E) gets E after
that. The repository has seen it (`docs/qlogs/hw.log:41-43`, `hw2.log:41-43`: four complete
executions, which the model has as well), and `docs/QueueResults2.docx` calls HW the only
queue "with a discoverable linearizability issue". That document adds that access to `back`
by "release/acquire operations or acq_rel/acquire" avoids the issue and that "access to
the buffer field can be relaxed". In the model neither is so: with the
fetch-and-add acq_rel the test still completes, also with `back` seq_cst, and with an
exchange that only acquires or only releases. With the exchange acq_rel it does not,
whether the fetch-and-add is a release or more.

No dequeue of this execution fails, so it has nothing to do with the single sweep. Interleaved
the results are those of a queue whose dequeue may fail. With the orders, claimed
cells, payloads and failing sweeps are as they should be (proved), and any
three items come out as from a queue (`ThreeExplained`, checked).

### 5.4 Tests that cannot complete

A generated test reports a fault by completing. `TestsCanComplete` says that it is not made in
vain: what its calls should find is put in by another of its calls, and it is never
stuck if what is under test answers as the trace says. Three kinds of test do not satisfy it.
Run `Toolchain_tests` has a size of each; TLC stops at the first violation, one with a
bottom, and finds the other two with `-continue`, or with `TestSizes` restricted to
the size of the kind.

- *Bottoms* (3,1,3): `generate_ops` gives a dequeue of bottom the value
  `-1 + 1 = 0` (`queue_testgen.py:192`); both templates ask for `-1` (lines 43 and
  111). The thread made for it assumes a *successful* dequeue of 0, which nobody
  enqueues (`tests/generated/generic_10_2_10_True_4/t10.c:186`).
- *Operations without order* (4,0,2): with noise only the operations in
  some order constraint are started (`queue_testgen.py:205`). For `N < n` a minimal
  trace may have a dequeue whose enqueue is in none (`docs/resultset2.txt:456`).
  `set_testgen.py:128-131` adds the missing operation of a remove, `queue_testgen.py` does not.
- *Contains alone* (sets, (1,2,1)): from k = 2 on there is a trace of three
  contains of one value, true, false, true (`docs/set_resultset.txt:66`), and
  `set_testgen.py:128` adds an add only for a remove. The recorded generated tests of sets
  have k <= 1.

Whatever the queue or set does, no execution of such a test completes, and the
zero in the log says nothing about it.

### 5.5 Limits of the algorithms

These hold by design, no document of the repository claims otherwise, and no run
reports them; the runs' properties stay inside them.

- *MPMC*: an enqueuer that finds the ring full leaves the loop without a claim
  and goes on as if it had one. It may overwrite an item that nobody has read, and it
  counts itself as a completed write: `m_written` then skips the value a dequeuer waits
  for, which waits for ever. `CountersCount`, `SomeWaitEnds` and the refinement fail as
  soon as a ring fills; while it does not, they are proved (section 4).
- *UniQ*: once the ring wraps an enqueuer may claim a slot whose dequeuer has not
  read it: `SlotExclusive` fails. The properties are stated for `~Wrapped`.
- *Chase-Lev*: `bottom` is loaded and stored, so two owners overwrite each
  other's item. The generated tests do enqueue from several threads.
- *Qu*: an enqueue that loses its one try is reported as done.
- *Michael-Scott*: with `WeakCAS = TRUE` a spurious failure is taken for a lost
  race, `tail` becomes the null pointer and items are lost. A thread
  number past the argument of `q_init_queue`, which noise threads have, finds
  no free node and fails the assertion of `new_node`.
- *Herlihy-Wing*: with `Lax = {}` the single sweep is not linearizable, interleaved or not.
- *Set solver*: the assertion that rules a model out looks at the absent edges
  among the first n operations only (line 222). It rules out every larger order;
  `NothingMissed` holds because no wanted trace contains another.
- *Howley*: with `WeakCAS = TRUE` a helper takes a spurious failure for an exchange
  another thread has made, and clears the flag: an add is lost though it returned
  true. The comments "VCAS in original implementation" (lines 319 and 332) mark
  places where the original gets the value seen. GenMC's compare-and-swap does not fail
  spuriously, and the run has `WeakCAS = FALSE`.
- *`howley-wrapper.h:36`*: `init_set` assigns its parameter, so the tree made by
  `bst_initialize` is dropped and the global `set`, all zeros, is the root. It has
  the same contents, so the set works; the model's root is that object.

## 6. Not modelled, and the plan

Not modelled:

- *The memory orders of the other queues* (FastMPMC, Michael-Scott, MPMC, UniQ,
  Chase-Lev, Qu; LCRQ is seq_cst). `C11` has no fences, which UniQ uses, and a
  list or ring of a useful size with three threads is beyond what TLC can explore with
  views. For FastMPMC this matters as soon as the ring wraps: the version is stored
  relaxed by a dequeuer (line 89) and loaded relaxed by an enqueuer (line 50), so
  nothing orders the read of the payload (line 86) before the write a lap later (line
  58). `SlotExclusive` says that they do not overlap when executions interleave; in C11
  they are a race on a plain field. With 32 slots no test of the repository gets so far.
- *LFQueue, LFRing, coarse and fine sets*: their code is in submodules.
- *Garbage collection of the tree* (`GC == 1`, ssmem): not compiled; nodes and
  records are never reused, which the stamps of `op` rely on.
- *`FULL`, statistics and hazard pointers of LCRQ*: not compiled. The tenth try of
  `close_crq` is beyond `MAX_ITER`.
- *Reading and writing files*, the shell scripts, logs and generated tests (which
  are outputs of the generator, modelled through it).
- *malloc failing*; memory is never freed by the wrappers but by Michael-Scott's
  recycling, which is modelled, and by `w_remove` of the set (`FreedOnce`).

Plan, in order (done: 1 to 10):

1. `Clients`, `AtomicQueue`, `FastMPMC` with its proofs.
2. The other queues: refinement where the point is fixed, `LinMonitor` where not.
3. `QueueTraces`, `Histories`, `Solver` against the reference runs.
4. `GeneratedTest`, the generated program.
5. `HowleyBST`: the tree under the monitor for sets.
6. `SetTraces` and the set parts of `Traces`, `Histories`, `Solver`, `GeneratedTest`.
7. `C11`: Herlihy-Wing and the tree with their memory orders; `lcrq-assume.c` whole.
8. Proofs: FastMPMC, Chase-Lev, UniQ, Michael-Scott, Qu, MPMC, LCRQ.
9. Proofs: Herlihy-Wing with its memory orders; `HWQueueTest`, a recorded test whole.
10. Proofs: the tool chain.
11. Open: the parts of `TreeInv` that do not depend on who helps.
