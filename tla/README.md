# TLA+ models of MLX-QUANT

MLX-QUANT is a fork of the MLX array framework: arrays are lazy, `eval` turns a graph of
them into work on streams, and each stream is a queue with a thread (CPU) or a command
queue (GPU) behind it. The fork adds Python modules for quantised models (`python/mlx/quant`),
among them a shared-memory ring for talking to another process, and a Rust demonstrator.
This directory holds models of the parts whose correctness depends on the order in which
things happen, the TLC configurations that check them and proofs that TLAPS checks.

Contents: 1 Inventory, 2 Modules, 3 Runs and bounds, 4 Fairness, 5 Proofs,
6 What the checks found, 7 Abstractions, 8 Plan.

## 1. Inventory

### Components that are modelled

**Evaluation** (`mlx/transforms.cpp` `eval_impl`, `eval`, `async_eval`; `mlx/array.{h,cpp}`
status, event, `is_available`, `wait`; `backend/cpu/eval.cpp`, `backend/cpu/encoder.h`;
`backend/no_gpu/fence.cpp`, `event.cpp`).
*State*: per array a status (unscheduled, evaluated, available) and perhaps an event; per eval
a tape, a fence per stream, the set of arrays that need a fence, the open streams; one
counter of dispatches per encoder.
*Operations*: a depth-first pass counts uses, a breadth-first pass makes the tape, a loop
takes arrays from its back, enqueues waits for inputs, calls `eval_cpu` (which dispatches a
kernel), enqueues a task that retains buffers, throttles, changes statuses, updates fences;
at the end it signals events. `is_available` and `wait` are called in between.
*Interactions*: it enqueues on the scheduler, reads its counter of active tasks, reads the
allocator's counter of memory; fences order streams within one eval, events between evals.
*Hard*: the calling thread and the workers interleave at every enqueue; fences are created
when first updated; an exception out of `eval_cpu` leaves everything in the middle; the
throttled caller holds back updates that others wait for.
*Correct when*: no kernel runs before its inputs are computed; what is reported available has
been computed; a primitive runs once; every call returns.

**Tape building** (the two passes at the start of `eval_impl`).
*State*: stack, degrees, tape, fence map. *Hard*: siblings share a degree; the width limit
sends arrays back to the stack with the degree half counted.
*Correct when*: each needed primitive is on the tape once, consumers before producers (it is
read from the back), and exactly the arrays used across streams are marked.

**Scheduler** (`mlx/scheduler.{h,cpp}`).
*State*: map of stream threads under a shared mutex, a queue with mutex and condition variable
per thread, a counter of active tasks with its own mutex and condition variable.
*Operations*: `enqueue`, `thread_fn`, `notify_new_task`, `notify_task_completion`, `wait_for_one`.
*Hard*: double-checked creation of threads, notifications outside the mutex, spurious wakeups.
*Correct when*: a stream is a FIFO queue that runs all its tasks; no wakeup is lost; the counter
is exact; `wait_for_one` returns.

**CPU allocator** (`backend/no_gpu/allocator.cpp`, `backend/common/buffer_cache.h`).
*State*: a cache of freed buffers held in a multimap by size and in a doubly linked list by age,
its size and limit, the active and peak counters. Called by every thread.
*Hard*: `malloc` and `free` give up the mutex in the middle; the two structures must agree;
`std::malloc` may fail.
*Correct when*: no buffer has two owners or is lost; the counters are exact; the limit holds.

**Array data** (`mlx/array.{h,cpp}` `is_donatable`, `copy_shared_buffer`, `detach`;
`backend/common/{unary,binary,ternary,copy}.h`, `utils.h`; `backend/cpu/eval.cpp`).
*State*: reference counts of array descriptions and of buffers. References come from the user's
handles, from arrays not evaluated yet to their inputs and siblings, from the evaluating thread, from
views that share a buffer, and from the task that `cpu::eval` enqueues after each kernel.
*Operations*: each of those made and given up; an output takes a fresh buffer, shares one (view) or
takes over that of an input (donation); a kernel reads and writes through raw pointers, later.
*Hard*: the counts are read by the evaluating thread while workers lower them and the user drops
handles; a buffer that was given back is used again while kernels on other streams are queued.
*Correct when*: every kernel finds its inputs as they were computed, every array that the user holds
keeps its data, and whatever a queued kernel uses has an owner.

**Shared-memory ring** (`python/mlx/quant/shm_ring.py`).
*State*: a mapped file with capacity, head, tail and slots; in each process the capacity it
attached with. *Operations*: create, attach, `push`, `pop_batch`, `close`
(the creator's `close` removes the file). *Hard*: no lock, two processes, either of which may die between any two
writes, or between the last write and the return of the call.
*Correct when*: what is popped is what was pushed, once, whole, in order, but for the batch of a consumer
that dies between moving the tail and returning.

**Ring sockets** (`distributed/ring/ring.cpp` `SocketThread`).
*State*: per socket a worker with a mutex, a condition variable, lists of sends and receives with
their promises, two flags, a count of errors. *Operations*: `send`, `recv`, the loop of the worker,
the destructor.
*Hard*: notifications after the mutex; the worker works on the heads of the lists without it and
removes them in a later critical section; the system moves any part of a request, or fails; `stop_`
is set without the mutex.
*Correct when*: what is received is what was sent, in order; a future is ready only when its memory
has been filled; no wakeup is lost; what can be delivered is; the destructor returns.

**Ring group** (`distributed/ring/ring.cpp` `RingGroup`, `distributed/utils.cpp` `TCPSocket`).
*State*: per rank its sockets to both neighbours, the call it is in, the lanes (pool tasks) of the
call with their step. *Operations*: listen, accept, connect with retries; `all_reduce`, `all_gather`,
`send`, `recv`, each cut into lanes by direction and wire, segments, and packets that are pipelined
through two buffers.
*Hard*: ranks, lanes and connections interleave; the buffers between them are bounded; waits lag one
packet behind; sizes are rounded up everywhere.
*Correct when*: every rank gets the contribution of each rank exactly once at every element, nothing
is filled while it is sent or summed, and every call returns.

### How they interact

`eval_impl` (EvalStreams) starts from a tape (TapeBuilder), enqueues tasks on streams
(Scheduler), whose kernels and callbacks allocate and free buffers (Allocator; who owns them is
EvalMemory). It reads two numbers back: `n_active_tasks` (exact in Scheduler and EvalStreams) and
`get_active_memory` (Allocator). A collective is a task of a CPU stream that runs RingGroup's code on
connections that RingSockets serves. The shared-memory ring is a separate data path of the Python side.

### Components that are not modelled

`PROJECT.json` lists each with its reason. In short: *planned* are default and thread-local streams,
the thread pool by itself, the compile cache, the Metal and CUDA allocators and events, the Rust bump
allocator; *left out* are numerics (operations, kernels, quantisation, neural networks), graph rewriting
(transformations, export, fusion), file formats, bindings, wrappers of external libraries (MPI, NCCL,
JACCL), process launching, and the build, examples, benchmarks and site. The part left out is by far the
larger: most lines of this repository are floating-point loops, GPU kernels in five dialects, shape rules
and bindings, of which a model checker has nothing to say that a numeric test does not say better. What
is modelled is the machinery that runs them.

## 2. Modules

| module | models | uses |
|---|---|---|
| `Dataflow` | what evaluating a graph promises (abstract) | |
| `EvalStreams` | `eval_impl` from the tape on, streams, fences, events, `is_available`, `wait`, `synchronize` | implements `Dataflow` |
| `EvalMemory` | buffers and references while a graph is evaluated | composed with `EvalStreams` |
| `TapeBuilder` | the two passes of `eval_impl` | its result is what `EvalStreams` assumes |
| `StreamQueues` | what a stream promises (abstract): a FIFO queue that is served | |
| `Scheduler` | threads, mutexes and condition variables below the queues | implements `StreamQueues` |
| `Allocator` | `CommonAllocator` and `BufferCache` | |
| `BoundedFifo` | what the shared-memory ring promises (abstract) | |
| `ShmRing` | the shared-memory ring and its two processes | implements `BoundedFifo` |
| `Duplex` | what a connection promises (abstract) | |
| `RingSockets` | the socket threads of one connection | implements `Duplex` |
| `RingGroup` | the processes of a job: setup and collectives | composed with `Duplex` |
| `MC*` | instances for TLC | |
| `EvalProofs` (also of EvalMemory), `TapeProofs`, `SchedulerProofs`, `AllocatorProofs`, `SocketsProofs`, `LaneProofs`, `GroupProofs`, `ShmRingProofs` | theorems | |

**EvalStreams.** `pc` says where the calling thread is in `eval_impl`. A round of its loop is
`TakeArray`, `WaitInput` for each input, `EvalKernel` (or `Throw`), `Retain`, then the throttle
(`Throttle`, `WaitForOne`), `MarkEvaluated`, `UpdateFence` for each output that needs it, and
`NextArray`; the Synchronizer array, which `eval` puts on top of the graph, comes last and leads to
`SignalEvent` and `EndEval`. Each step enqueues one task at most. `Run(s)` is the worker of stream
s with the task at the head of its queue. A queue is a log with a position (`log`, `pos`), so that
properties can speak of what was enqueued earlier. Between evals, the user may call
`IsAvailable`, `CallWait`, `Synchronize`.

**EvalMemory** extends EvalStreams: each of its actions is one of EvalStreams and what it does to
memory. `buf` says which buffer an array was given, `contents` whose data a buffer holds; counts are not
variables but computed from who refers to what (`Live`, `DescRefs`, `DataRefs`), so that no increment can
be forgotten in the model that the code's smart pointers cannot forget. `Placements` are the
buffers that `eval_cpu` may give its outputs; `MemRun` lets a kernel write; `Drop` lets a handle go,
also while `eval` runs. `MemTakeArray` takes the tape in an order that `TapeBuilder!ConsumersFirst`
allows read from the back, from what is reachable.

**TapeBuilder.** `VisitInput` and `Leave` are the depth-first pass, one step per visit; `StartTape`,
`Expand`, `SkipEvaluated`, `SetAside`, `TakeInput`, `Finish` the breadth-first pass. The graph is
chosen in the initial state from all graphs of the instance. `FencesMarked` and `TapeComplete` are
what `EvalStreams!CrossStream` and `EvalStreams!Needed` define; `ConsumersFirst` is the order that
`TakeArray` follows. `TakeArray` allows any such order, so EvalStreams covers all tapes.

**Scheduler.** What a mutex protects is one step. `asleep` holds who waits on a condition variable;
a notification takes out, and the woken thread looks at its condition again. `SpuriousWakeup` may
take out anybody.

**Allocator.** `pool` is the multimap as a sequence in its order; `head`, `tail`, `prev`, `next` are
the list, with the four cases of a removal kept apart. `lock` is the thread inside the loop of
`release_cached_buffers`, which frees one buffer per step. `MallocMiss`, `StdMalloc` and
`MallocCount` are `malloc` before, between and after its two locks; `Free` and `StdFree` likewise.

**ShmRing.** A step is one read or write of the mapping: `CheckFull` reads the header, `WriteRecord`
writes a slot in two halves, `SetHead` publishes, `ReturnPush` reports; `CheckEmpty`, one `CopyRecord` per record,
`SetTail` moves the tail, `ReturnBatch` hands the batch out. Crashes come between any two of these, the last two of each
call included. `CloseProducer` removes the file if its process has created it (`linked`). `Create` and
`InitHeader` are a creation over an existing file; `WhileAttached` says whether that may happen under an attached consumer.
What has happened since a creation is kept in `published` (the head has passed it), `accepted` (push has returned True),
`received` (pop_batch has returned it) and `lost` (a consumer has died with it). **BoundedFifo** has the same two stages:
`Insert` and `Accept`, `Take` and `Return`, and `Die`, which takes the batch in hand or the report along.

**Duplex** has the data of connections: lists of requests, what is under way, memory, with the actions
`PostSend`, `PostRecv`, `MoveOut`, `MoveIn`, `Retire`. A request names cells of memory, and a request of
none is done at once. **RingSockets** uses these operators for the data and adds what the code has around them:
`TopOfLoop` is the critical section at the top of the worker's loop, `TryRecv` and `TrySend` its two calls
(progress, `EAGAIN`, failure, end of stream), `StartWaiting` and `Wake` the condition variable, `Notify` the
notification that a caller or the destructor owes, `Close` and `SetStop` the destructors of `RingGroup` and
`SocketThread`. That a wait gives up the mutex only when it is registered is `HasMutex`.

**RingGroup** takes a job from `Jobs`. `Listen`, `Accept`, `Connect`, `ConnectFails` make the ring.
`ReduceLanes`, `GatherLanes`, `PieceLanes` compute what the lanes of a call send, receive and sum, step by
step, as `all_reduce_impl` and the others do with their segments, packets and pieces; a lane then runs
`StepSend`, `StepRecv`, `StepWait`, `LastWait`. A cell of memory holds the bag of contributions that have
been summed up in it, so that a contribution that is lost, or counted twice, shows. Its connections are Duplex,
which RingSockets implements (proved, section 5).

## 3. Runs and bounds

| run | question | instance |
|---|---|---|
| `eval_safety` | do fences and events order the kernels, is what is reported true, does it implement Dataflow? | six arrays, two streams, four requests, two evals |
| `eval_live` | is there a deadlock, does every call return, is all work done? | two evals of three requests, one `synchronize` |
| `eval_throw` | what survives an exception? | two requests, three arrays that may throw |
| `throw_read` | violation, see section 6 | the same |
| `memory` | is a buffer ever donated, freed or reused too early? | seven arrays, two streams, two requests, two evals |
| `tape` | is the tape right, and do the passes end? | every graph of four arrays on one assignment of streams, two lists of outputs, widths 1, 2, 20 |
| `scheduler` | lost wakeups, duplicated threads, starvation | two callers, one stream, two tasks each |
| `allocator` | ownership, agreement of list and map, counters, also under a failing `std::malloc` | two threads, three buffers |
| `ring` | is the shared-memory ring a bounded queue, whoever dies? | capacity 2, then 1 or 3; six pushes, two deaths |
| `ring_resize` | violation, see section 6 | capacities 1 and 2 |
| `sockets` | are a connection's requests served in order, completely, and its threads woken? | four plans, buffers of one cell, two errors in a row end a worker |
| `group` | does every rank get the right result, and does everybody return? | six jobs of two or three ranks, buffers of one cell |

*eval*. The graph of `MCEval` has each shape `eval_impl` treats apart: an array used on
other streams than its own, two siblings that are views and of which one crosses streams, an array
used twice by one primitive, a primitive with inputs from two streams. The requests make the second
eval meet results of the first that are evaluated, available or still queued, sync and async.
`MaxActive` = 1 (2 in `eval_live`) and `PerTask` = 2 stand for `MAX_ACTIVE_TASKS` and
`DISPATCHES_PER_TASK`, so that the throttle is entered and left; whether memory is over its limit is
a free choice. `LiveRequests` of `eval_live` are three, none of which schedules everything: an async eval of `a` and one of `c1` and `b` make s2 wait
for an event of s1 while s1 waits for a fence of s2, and one of `b` makes s1 wait for an event of s2. So liveness is checked with event waits
between evals in both directions, and with the throttle entered while they stand. A third stream would add another copy of the same pairwise order; a third eval meets
what the second does. `EvaluatedOnce`, `ActiveTasksExact` and `ThrottleBounds` are checked in
`eval_throw`, which has the behaviours without an exception among its own.

*memory*. The graph of `MCMemory` has an array read on two streams of which one reader may work in place, a
kernel with an output that nobody wants, a view of what is to be donated, and a kernel that may take the buffer
of either of its inputs. The second eval may meet buffers that the first gave back. The throttle (tried in
`eval_*`) is not reached with `MaxActive` = 20; there are no exceptions and no `synchronize`. Memory is as many
buffers as arrays, numbered in the order of their first use, which changes nothing but the number of states.

*tape*. Four arrays are enough for a diamond, for siblings with different consumers, and for an array
that width 1 sends back twice. An array has at most two inputs, at most one primitive two outputs,
and the set that has a result already is any that is closed under siblings and inputs.

*scheduler*. Two callers race for the one thread; `MaxThreads` = 2 leaves room for the wrong second one.
Two tasks each are needed for `wait_for_one` to wait at all.

*allocator*. Sizes 0, 1, 2, 3 with page size 1 give a cached buffer that fits exactly, one that is larger
and accepted (3 for 2), one that is refused at the boundary (2 for 1), and the empty buffer that is never
cached; three buffers give the list a head, a tail and an inner holder. The limits 0, 2 and 7 close the cache, keep
one or two buffers, keep all.

*ring*. Six pushes run three times round two slots; a batch of 3 is larger than the ring. Two deaths let
both processes die, or one twice; closing, attaching and creating again are not bounded. Batches of 0, 1 and 3 are asked for.

*sockets*. A plan says what the callers of each end may post, who may be closed and how many calls may fail.
`OneWay`: requests of 2, 0 and 1 cells meet receives of 1 and 2, with a failure on the way (partial moves,
boundaries that do not match, an empty request). `Closing`: the receiving end may be destroyed at any time. `BothWays`: requests in both
directions, larger than the buffers, so that each side must read to be able to go on writing. `Aborting`: two failures, so that a
worker may give up, and a sender that is destroyed. Two errors in a row stand for ten.

*group*. `Uneven`: an all_reduce of 4 elements on 3 ranks (segments of 2, 2 and 0) and then a gather. `Padded`: an all_reduce
of fewer elements than ranks, after a round of sends. `Pipelined`: four packets per segment through two buffers. `TwoLanes`, `Gather`: both
directions at once. `TwoWires`: a message cut over two wires, and the setup of two connections per neighbour.
Buffers of one cell are the worst case for blocking; with two failed attempts a rank gives up connecting.

Every property has a mutant in `PROJECT.json`: a plausible mistake in a mapped definition under which
TLC finds the property violated in the same instance. The mutated forms stand before the definitions
they replace (`FullOneLate` before `Full`) and are used nowhere else.

## 4. Fairness

`EvalStreams` assumes weak fairness of the calling thread inside a call (`Caller`) and of each worker:
the operating system runs every thread that can run. The user is under no obligation to call anything.
`Scheduler` assumes the same of each caller's started calls and of each worker; spurious wakeups
are not fair, so nothing relies on them. Weak fairness is enough since a mutex is held only for one
step; where several callers contend, each step they contend for stays enabled. `wait_for_one`
is live only because the number of tasks is bounded: with another caller that enqueues for ever
the counter may never be seen below the copy, which is why `WaitForOneReturns` does not claim more.
`TapeBuilder` assumes that a sequential loop goes on.

`RingSockets` assumes weak fairness of each worker, of each caller that has posted and still has to notify, and of a
destructor that has begun; nobody has to post or to close anything. A worker that polls is always enabled, and its calls
must then succeed if they can: `TryRecv` with data in the pipe has no step that retries. `RingGroup` assumes only that the processes together do
not stop while one can go on: every step uses up something (an attempt, a step of a lane, a cell to be moved),
so this already gives each process its turn. `Allocator`, `EvalMemory` and `ShmRing` have no liveness.

## 5. Proofs

All proofs hold for every value of the constants that satisfies the named assumptions.

**EvalStreams** (`GraphAssumption`: the graph is well formed, siblings agree; `BoundAssumption`). The first
five hold with exceptions (`Failing` any set of arrays), the others without.

- `TypeCorrect`: `TypeOK`, strengthened by "inside an eval there is a current eval" (`TypeInv`), since
  fences and events are indexed by it.
- `ActiveCorrect`: the counter equals the number of active tasks in the queues. `ActiveInv` adds that
  the set is finite, without which its cardinality means nothing; the step appends or
  removes one element.
- `ThrottleCorrect`: at most one active task over the limit. `ThrottleInv` follows the
  counter through the three places of a round where it may be above it, using that one of two
  consecutive dispatches at most is counted when `PerTask` > 1.
- `FenceCorrect`: every fence wait in a queue names an update that is in the queue of the stream
  it waits for. `FenceInv` adds that an array which needs a fence is still on the tape, or has its
  update queued, or is about to, and that the inputs of the array being evaluated are off the tape.
- `OnceCorrect`: the outputs of a primitive are released by one task only. `OnceInv` adds that
  a release in a queue implies a status past unscheduled (but for the array in hand), and that what is on the
  tape is unscheduled.

- `InputsCorrect`, `ReadCorrect`, `EvalImplementsDataflow` (assuming `Failing = {}`; the run
  `throw_read` shows that the second needs it). `SafeInv` has two halves. `QueueInv` is about the queues: a kernel stands
  behind what carries each of its inputs, a release or a wait (`Guarded`); an update of a fence, and a signal
  of an event that somebody waits for, stand behind the release of the array (`UpdatesAfter`, `WaitsSound`); a fence
  that has reached a count has had the updates up to it run (`UpdatesCounted`). From these alone a task that
  may run finds what it uses computed (`HeadGuarded`, `FenceDone`, `WaitDone`). The other half is about the
  caller, and shows that what it appends keeps `QueueInv` (`Sound`): what is on the tape is closed (`TapeInv`),
  an array that is evaluated is released in the queue of its stream, before every signal of its event
  (`StatusInv`, `SignalInv`), and the inputs already looked at are carried by the queue of the array in hand
  (`SeenInv`). The delicate part is `SilentInv`: a synchronous eval attaches no event, so its arrays look ready
  while they are queued. Only what has a fence is used by another stream meanwhile, and when eval returns
  nothing is silent any more, since the Synchronizer's signal stands behind all outputs, and what
  has been computed is closed under inputs.
- `NoDeadlock` (assuming `Failing = {}`): `NeverStuck`, the part of `CallsReturn` that a proof can reach.
  It speaks of every way in which the queues might be run, not only of the one the workers take: `NoCircle` says
  that whatever part of each queue has been run, one of the queues that is not at its end goes on with a task
  that waits for nothing or for what has been run. As such it needs no order among the streams and no
  induction on it: a task that waits is put on a queue only when the update or the signal it waits for is on
  one already (`Posted`, `Announced`), so it closes no circle (`CircleAppend`). `Announced` is delicate in an async
  eval: its arrays have an event that is signalled only after its last array, and a wait for it from inside the eval would
  never end; what crosses streams inside an eval has a fence instead (`Crossed`). `Ran` ties what has been
  run to the values the waits look at.

**EvalMemory** (`MemoryAssumption`: besides what the instance says of views and of kernels that work in place, the graph is
finite and acyclic; `Failing = {}`). The steps are first sorted by what they do to memory (`Calm`, `Begins`, `Kernels`, `Retains`, `Marks`,
`Runs`), which keeps each proof to six cases.

- `KernelsKeepBuffers`: nobody is given a buffer that a kernel on a queue reads or writes. The release behind each kernel (`PairedInv`) holds
  the buffers of inputs and siblings, but not the kernel's own, which an input may have donated (`cpu/eval.cpp`). `OwnedInv` says who holds that
  one: the Synchronizer, a consumer still on the tape, the release of a consumer, or the release of the Synchronizer, so that a chain of
  consumers which all work in place ends, the graph being acyclic, at somebody whose own buffer it is not. That the holder is still there when the kernel
  has not run rests on `SafeInv`: a consumer is released only when its inputs are computed, and a flying array is not (`FlyingLate`).
- `InputsStayIntact`, `HeldStaysIntact`: the data itself. A view has the buffer of its origin (`FamilyInv`), so buffers are passed on
  between arrays that are no views. When two of them that are not siblings have been given one buffer, one has succeeded the other
  (`PairsInv`): the kernel of the former owner has run or is below the successor, so that it runs first; every kernel on a queue that reads
  the old data is the successor's own or below it; and nobody refers to the old data any more, but for an input that the successor
  still has in the short time until it is detached (`Succeeds`). `ContentsInv` then says that a buffer has the data of whoever has
  been written, unless a successor has been written too. A successor gets the buffer either from the allocator, when nobody refers to it, and by
  `KernelsKeepBuffers` no kernel does either, or by donation. For donation `is_donatable` is shown to say what it must: as both
  counts are one, no other live array shares the buffer, no release task holds it, and only the current array uses the input (`DonatedUse`);
  whoever has not been computed in that buffer is below the current array, along a chain of in-place consumers
  that the graph, being acyclic, bounds (`FlyingBelow`). References are never gained: `LiveStep`. TLC has checked the invariants on the instance of
  the run `memory` before.

**Scheduler** (`SchedulerAssumption`: bounds are naturals, callers are no threads).

- `WakeupCorrect`: no wakeup is lost. It rests on `CallerInv` (a caller that pushes or notifies has the thread of
  its task's stream, which exists) and `ThreadInv` (threads are taken in order, each for one stream, so that a caller which finds
  the map changed uses the same thread).
- `StreamsAreQueues`: every step is an `Enqueue`, a `RunNext` or nothing in `StreamQueues`. `FifoInv` says that a task is with
  the thread of its stream, and that what has run, what is running and what waits are, in this order, what has
  been enqueued; `PushedFacts` and `TakenFacts` are what that needs of sequences. The fairness in
  `ImplementsQueues` remains with TLC.
- `ActiveTasksCorrect`: the counter is the number of counted tasks between their two
  notifications. `UniqueInv` says that a task is in one place only, with its caller, in one queue, or with one worker, so that the
  set which is counted changes by exactly one task when the counter does; that a new task is in no place yet follows from its
  number. `CountedIsInHands` ties the set to that of the property.
- `SchedulerTyped`: `TypeOK`, which no run checks. That the counter is never negative follows from the theorem before, as no action
  checks it.

**TapeBuilder** (`GraphAssumption`: finitely many arrays, no cycle but through siblings; `WidthAssumption`: the widths tried are positive).

The argument is one of counting. A use of an array is an edge, from a primitive (for which its siblings have one speaker) to an input.
What each pass has done is a set of edges that the stack, the tape and its index determine (`Passed`, and its counterpart of the second
pass). `FirstPass`: the degree of an array is the number of edges to it and to its siblings that have been passed; `SecondPass`: it is the number not yet
passed, so that a degree reaches zero with the last use and no lookup comes later. Needed arrays are those below the Synchronizer, by an
argument about least sets instead of an induction on paths (`Below`).

- `LookupsSucceed`: no lookup of the second pass misses, at any width, also for arrays that the width limit sends back in the
  middle of their inputs.
- `TapeInOrder`: a tape read from its back has inputs before consumers.
- `TapeHasAll`: at the end everything needed is on it, once. That nothing is forgotten needs that the graph is acyclic: of the arrays left over, one
  would have no consumer left over.
- `FencesWhereCrossed`: the fences are marked where streams are crossed, and only there.

**Allocator** (`AllocatorAssumption`: finitely many blocks, sizes and limits are naturals).

One invariant, `AllocInv`, carries all five. `CallInv` says for each thread in the middle of `malloc` or `free` which block it
has in hand; `CacheInv` that the multimap is sorted by size, that there is a sequence of exactly its buffers which `head`, `tail`, `prev` and
`next` link, and that buffers of one size are in it in the opposite order; `CountInv` that the counters are sums over
finite sets of blocks, with what is in a thread's hands and what failed set apart.

- `BuffersOwnedOnce`: the cache, the holders, the threads' hands and the system share out the blocks.
- `ListIsPool`, `ReusedOldestFirst`: the four cases of a removal from the list, an insertion at its head, and their counterparts
  in the multimap preserve the sequence.
- `CacheSizeExact`, `ActiveMemoryCovers`: the sums.

**RingSockets** (`SocketsAssumption`).

- `SocketWakeupCorrect`: `WakeInv` adds to it that a worker which has decided to wait has nothing to do, which holds
  because it has the mutex until it waits.
- `SocketsInOrder`, `ReadyIsFilled`: for each direction `FlowInv` gives two numbers, how many cells of the sender have been handed to the
  system (`sent`) and how many have reached the receiver (`got`). The pipe has the cells between them, the memory of the receiver
  those up to `got` and nothing after, and each list of requests is `Lined`: it names the cells from its number on without a gap, up to
  those of the last request posted, and a request that is missing from it is empty or lies before that number. That requests are cut at
  different places at the two ends does not matter, since the numbers count cells (`BeforeFacts`).
- `SocketsImplementDuplex`: the refinement, for all plans, failures and closings. `FlagInv` says that a request marked for removal is
  the first of its list and wholly moved, though the mark is made outside the mutex and callers append meanwhile.

**RingGroup** (`GroupAssumption`: at least two ranks, positive sizes; `send` and `recv` name a neighbour, as otherwise the
call throws; and a call
has at most one more lane than `min_send_size`, 262144 bytes, has elements, so that no lane is without cells).

- `NoOverlapCorrect`: for any number of ranks and wires, any sizes of packets, pieces and calls, and any interleaving, memory that a
  connection is filling is not being sent, is filled by one request only, and takes no part in a reduction. The argument has two
  parts. The first (`LaneProofs`) is about the plans alone, and arithmetic: `LanesOk` says that the lanes of any call are apart (they
  have different ends, different buffers, and parts of the array that do not meet, rounded up as they are: `ReduceLanesAre`, `GatherLanesAre`,
  `PieceLanesAre`), and that of one lane any two steps that its lag lets be under way together are (`CutOk`): what one receives the other
  neither sends, nor receives, nor sums into. For an `all_reduce` this says that neighbouring steps
  use different buffers, and that packets of neighbouring segments around the ring, or different packets of one segment, do not
  meet (`SeatsDiffer`, `NeighbourPackets`, `ReduceApart`). The second (`GroupProofs`) is about the run: `GroupInv` says that whatever is queued at a connection belongs to a
  step that its lane has posted and not waited for (`SendWindow`, `RecvWindow`), that a lane goes on only when
  the futures of the step that leaves the window are ready (`LaneMoves`), and that a call ends with all windows empty (`RankMoves`).
  TLC has checked `GroupInv` on the instance of the run `group` before.
- `GroupInvariant`: `GroupInv` itself, and with it the types, which no run checks.
- `ResultCorrect`: a call that has returned has left what it promises, at every element: for an `all_reduce` the bag of one
  contribution of each rank, for an `all_gather` the element of the rank it is of, for a `recv` what the peer's corresponding `send` has sent.
  It assumes `AllMatched`: the calls of the ranks fit, that is, one can number them by rounds such that
  collectives are the same calls on every rank, a send and its recv have one round and size, and the rounds of a rank
  increase wherever two of its calls use the same connection in the same direction. The code checks nothing of this, so it is the
  caller's duty; nothing is assumed of when ranks call. `CallsFit` of `MCGroup` shows that every job of the run `group` satisfies it.

  The argument has the same two parts. A cell that goes over a connection gets a *tag*, its round, step and place.
  `SentIsReceived`: the tags that one end of a connection sends are those that the other receives, for segments, packets, pieces and lanes as they are
  rounded at both ends. What a cell must hold is a function of the steps of its lane that have written it (`Value`); for an `all_reduce` the sum over the ranks
  whose seat around the ring these steps have reached (`Givers`). `Transfer`: what is sent as a tag is what makes the receiver's value the
  next one; in the scatter half this says that a contribution joins those of other ranks, never its own again (`ScatterAdds`).
  `FinalValue`: when all steps have written a cell it holds what the call promises. The run then needs no history: `FlowInv` says that what
  is under way from one end to another is, in the order of the tags, what has been sent and not yet received, and that each value under way is the one to be
  sent as its tag; both sets can be read off from the calls, the steps of the lanes and what is queued (`Pending`, `QueueShape`). `MemInv` says that memory holds
  `Value`, and a receive buffer what has come and is not yet summed. That a packet is not sent before it has arrived and been summed is `SentCarries`. `GroupInv` is used
  throughout: a cell that someone else wrote would break all this, and `NoOverlap` is what forbids it. `DataInvariant` is the conjunction; TLC has checked its parts on
  the instance of the run `group` before.

**ShmRing** (`RingAssumption`).

- `UnreadCorrect`: push overwrites nothing that waits, for every capacity, with crashes and
  with rings created again, under an attached consumer too. `ProducerInv` says that the producer writes only where there is room and that
  the tail never moves back under it; that two pointers less than a capacity apart are at
  different slots (`SlotsDiffer`) is the arithmetic it rests on.
- `InOrderCorrect`, `RingTypeCorrect` (the types, which no run checks), `RingImplementsFifo`: if no ring is created under an attached consumer,
  what lies before the tail has been returned once and in order, or was lost with a consumer that died between `SetTail` and `ReturnBatch`, or is
  about to be returned; and the ring implements `BoundedFifo`. `CopyInv` says that what pop_batch has copied is what was
  published, though producers come and go meanwhile, up to its return. `NumberInv` says that records are numbered as they are published,
  so that `ReceivedInv` can speak of numbers: those returned and those lost are apart and together make up everything before `Returned`, which is the tail, or
  the local copy of it as long as a batch is in hand. `AcceptedInv` is the producer's side: push reports only what is in the ring or was.

Only model-checked: liveness (`CallsReturn`, `WorkDone`, `Terminates`, `WaitForOneReturns`, `JoinReturns`, `Delivered`, `Finishes` and
the fairness part of `ImplementsQueues`), which is out of the prover's reach, as `ENABLED` is. Every invariant that a passing run checks is
proved. `NoDeadlock` of EvalStreams is what a proof can say of the reasons for liveness there.

## 6. What the checks found

Two runs expect a violation:

- `throw_read`: an exception out of `eval_cpu` in a synchronous eval leaves earlier arrays evaluated and
  without an event, so `is_available` answers true of an array whose kernel is still queued
  (`mlx/array.h:403`: "Check if the array is safe to read").
- `ring_resize`: `create=True` on a ring that a consumer is attached to resizes it, which the comment at
  `shm_ring.py:123` says cannot happen.

The models have these too, as behaviours that the properties allow for, since nothing in the repository says otherwise of them:

- After an exception in an async eval an event stays attached that nobody will signal: `wait` blocks for ever.
- A failing `std::malloc` is counted as active memory for good (`no_gpu/allocator.cpp:107`); `ActiveCoversHeld` bounds
  the error by what has failed.
- `~SocketThread` sets `stop_` without the mutex (`ring.cpp:136`): if its notification comes between the worker's check and its wait, `join`
  waits for ever. `missed` marks it, and `JoinReturns` excepts it.
- `recv` that returns 0 leaves `errno` as it was (`ring.cpp:241`): after an `EAGAIN` a worker polls a closed connection for ever instead of
  counting errors.
- After ten errors in a row a worker returns, and the promises of its requests are never set.
- A consumer that dies between `shm_ring.py:205` and 206 has moved the tail and returned nothing: its batch is lost. One that dies
  earlier loses nothing. `InOrder` excepts exactly these records.
- A producer that dies between `shm_ring.py:169` and 170 leaves a record that is delivered though push has not reported it: a caller that
  tries again pushes it twice.
- If `eval_cpu` throws after it has dispatched, the task that keeps the buffers of its kernel is not enqueued; the run `memory` has no exceptions.

## 7. Abstractions

- A primitive dispatches one kernel, or none if its outputs are views; a kernel is one step, and its outputs
  count as computed when the task that releases its inputs has run, the next in its queue.
- In EvalStreams a dispatch counts an active task and enqueues it in one step, and a worker runs a task and
  counts it down in one. Scheduler has them as several and shows the counter exact at each.
- Only one thread evaluates; others appear as the workers. Two evaluating threads are in the plan.
- The memory limit is a free choice at each throttle, except that waiting is pointless with no active task,
  as in the code.
- GPU branches of `eval_impl` (`MLX_BFS_MAX_WIDTH` applies to both) and exceptions inside the passes
  (an eval inside a transformation) are left out. Tracers appear only in `TapeBuilder!Leave`.
- EvalMemory leaves out sizes (any donatable input may or may not fit) and `synchronize`. Donation by reductions,
  slices and quantised kernels follows the same test. Siblings that were never evaluated refer to each other, and
  `~array` breaks the cycle; in the model what nothing refers to is gone at once.
- The stop flag of a StreamThread is left out: the scheduler is leaked on purpose, so no destructor runs.
- In Scheduler whether a task is counted is a free choice, where the code counts every tenth dispatch.
- `ShmRing`: stores appear in program order; one producer and one consumer, as the format is meant to
  have; a file that shrinks under a mapping reads as zeros, as it does within the last page. A negative `max_records`, with which
  pop_batch would move the tail back (`shm_ring.py:182`), is left out, and so is a new ring beside a removed file that a consumer still maps.
- Allocator: `set_memory_limit` is left out. The allocator never reads that limit itself, and to the throttle of `eval_impl`, which does,
  being over it is a free choice in EvalStreams.
- Sizes and capacities are small numbers; overflow of `size + sizeof(size_t)` and `2 * size` near
  2^64 is not modelled.
- RingSockets: `empty()` on a list that another thread appends to is taken as atomic. Callers do not touch the memory of a request that
  is under way; in RingGroup the lanes do change memory between requests, and `NoOverlap` says that they touch none that is under way.
- RingGroup: a connection moves one cell at a time, as moves of more are several of these. The pool's tasks are threads of their own, as
  the pool has as many threads as a call has lanes. The array that `all_reduce` pads is the output itself. A send to a rank that is no neighbour, a ring of one rank, which
  the constructor refuses, and calls of one process on two streams at once are left out, and so are the
  host file and the errors of `listen` and `accept`. So is the exception of an `all_reduce` of fewer elements than ranks (`ring.cpp:600`), which
  needs a padding of more than 1024 bytes, `sizeof(T)` times the ranks: it cannot occur at the two or three ranks of the runs, and the theorems speak
  of calls that return.

## 8. Plan

Done, in this order: `Dataflow`, `EvalStreams` and its proofs, `TapeBuilder`, `Allocator`, `StreamQueues`,
`Scheduler`, `BoundedFifo`, `ShmRing` and its proofs, `EvalMemory`, `Duplex`, `RingSockets`, `RingGroup`, the proofs of Scheduler
and RingSockets, the proof that EvalStreams implements Dataflow, the proofs of Allocator and TapeBuilder, the data of RingSockets,
who owns the buffers of EvalMemory and what they hold, that EvalStreams has no deadlock, that the lanes of
RingGroup do not overlap, and that its calls leave what they promise.
Next, by importance:

1. **Two callers** of EvalStreams on disjoint and on shared graphs: which of its properties still hold, and
   whether they can wait for each other.
2. **ThreadLocalStreams**: the order of `Stream` (`stream.h:24`), default and thread-local maps, encoders.
3. **ThreadPool** with its resize and barrier, the compile cache, the Metal allocator and residency set, the CUDA worker and events.
4. **BumpAllocator** of `mlx-quant-linux`, and the packing of trits against a reference definition.
