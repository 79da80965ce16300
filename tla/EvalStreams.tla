----------------------------- MODULE EvalStreams -----------------------------
(***************************************************************************)
(* mlx/transforms.cpp eval_impl on the CPU back-end: the calling thread    *)
(* walks the tape and enqueues tasks on streams; one worker per stream     *)
(* runs them in order (mlx/scheduler.h StreamThread).  Streams of one eval *)
(* are ordered by fences (backend/no_gpu/fence.cpp), evals by events       *)
(* (backend/no_gpu/event.cpp).                                             *)
(*                                                                         *)
(* Every step of the calling thread enqueues at most one task, so workers  *)
(* interleave with it as finely as the mutex of the queue allows.          *)
(*                                                                         *)
(* The queue of stream s is the part of log[s] after position pos[s]: log  *)
(* is what has ever been enqueued, pos how much of it has run.             *)
(***************************************************************************)
EXTENDS Integers, Sequences, FiniteSets

CONSTANTS Arrays,    \* all arrays of the user's graph
          Leaves,    \* constant arrays: no primitive, available from the start
          Inputs,    \* Inputs[a]: the sequence of inputs of a's primitive
          Outputs,   \* Outputs[a]: the outputs of a's primitive, a among them
          Views,     \* arrays whose eval_cpu dispatches no task (shared buffer)
          Streams,
          StreamOf,  \* StreamOf[a]: the stream of a's primitive
          Sync,      \* the array of the Synchronizer primitive
          Requests,  \* the lists of outputs the user may ask for
          Failing,   \* arrays whose eval_cpu may throw
          MaxActive, \* MAX_ACTIVE_TASKS
          PerTask,   \* DISPATCHES_PER_TASK
          MaxEvals,  \* bound on the number of evals
          MaxSyncs   \* bound on the number of synchronize(stream) calls

Evals == 1..MaxEvals

Parents(a) == {Inputs[a][i] : i \in DOMAIN Inputs[a]}

ASSUME GraphAssumption ==
    /\ Leaves \subseteq Arrays /\ Views \subseteq Arrays \ Leaves
    /\ Failing \subseteq Arrays \ Leaves
    /\ Requests \subseteq Seq(Arrays)
    /\ Inputs \in [Arrays -> Seq(Arrays)]
    /\ \A a \in Leaves : Inputs[a] = <<>> /\ Outputs[a] = {a}
    /\ Outputs \in [Arrays -> SUBSET Arrays]
    /\ StreamOf \in [Arrays -> Streams]
    /\ \A a \in Arrays :
         /\ a \in Outputs[a]
         /\ \A b \in Outputs[a] : /\ Outputs[b] = Outputs[a]
                                  /\ Inputs[b] = Inputs[a]
                                  /\ StreamOf[b] = StreamOf[a]
                                  /\ b \in Leaves <=> a \in Leaves
         /\ Parents(a) \cap Outputs[a] = {}

ASSUME BoundAssumption ==
    /\ MaxActive \in Nat /\ PerTask \in Nat \ {0}
    /\ MaxEvals \in Nat /\ MaxSyncs \in Nat
    /\ Sync \notin Arrays

VARIABLES
    (* the calling thread *)
    pc,         \* where it is in eval_impl, or what it waits for
    cur,        \* how many evals have started; the current one's number
    async,      \* is the current eval an async_eval
    outs,       \* the outputs of the current eval, inputs of the Synchronizer
    syncStream, \* the stream of the Synchronizer
    todo,       \* the outputs of the primitives still on the tape
    arr,        \* the array being evaluated
    idx,        \* its next input to look at, or the target of a wait
    needsFence, \* arrays of this eval used on another stream than their own
    unfenced,   \* outputs of arr whose fence has not been updated yet
    openStreams,\* streams this eval has touched and not yet signalled
    nOld,       \* wait_for_one's copy of n_active_tasks
    syncs,      \* how many synchronize(stream) calls have been made
    (* arrays *)
    status, event,
    (* shared with the workers *)
    fenceCount, \* FenceImpl::count, per eval and stream
    fenceValue, \* FenceImpl::value
    signaled,   \* EventCounter::value >= 1, per eval and stream
    nActive,    \* Scheduler::n_active_tasks_
    numOps,     \* CommandEncoder::num_ops_, per stream
    log, pos,   \* the streams' queues
    computed    \* the arrays whose primitive has run to completion

evalVars == <<cur, async, outs, needsFence>>
stepVars == <<syncStream, arr, idx, unfenced, nOld, syncs>>
callVars == <<pc, todo, openStreams, evalVars, stepVars>>
arrayVars == <<status, event>>
queueVars == <<nActive, numOps, log, pos>>
syncVars == <<fenceCount, fenceValue, signaled, computed>>
vars == <<callVars, arrayVars, queueVars, syncVars>>
-----------------------------------------------------------------------------
(* Tasks *)

Kinds == {"kernel", "release", "fenceWait", "fenceUpdate",
          "eventWait", "eventSignal", "promise"}

Task == [kind : Kinds, arr : Arrays \cup {Sync}, eval : 0..MaxEvals,
         stream : Streams, count : Nat, active : BOOLEAN]

Length(s) == Len(log[s])
Pending(s) == pos[s] < Length(s)
HeadTask(s) == log[s][pos[s] + 1]

(* The calling thread goes on, having done nothing but enqueue a task. *)
Goto(place) ==
    /\ pc' = place
    /\ UNCHANGED <<todo, openStreams, evalVars, stepVars, arrayVars, syncVars>>

(* scheduler::enqueue(s, task), unless the task goes through an encoder. *)
Push(s, kind, a, e, st, n) ==
    /\ log' = [log EXCEPT ![s] = Append(@,
                 [kind |-> kind, arr |-> a, eval |-> e, stream |-> st,
                  count |-> n, active |-> FALSE])]
    /\ UNCHANGED <<nActive, numOps, pos>>

NextOpUnwrapped(s) == IF numOps[s] = PerTask THEN 0 ELSE numOps[s] + 1

NextOp(s) == (numOps[s] + 1) % PerTask

DispatchUncounted(s, kind, a) ==
    /\ numOps' = [numOps EXCEPT ![s] = NextOp(s)]
    /\ nActive' = nActive + 1
    /\ log' = [log EXCEPT ![s] = Append(@,
                 [kind |-> kind, arr |-> a, eval |-> cur, stream |-> s,
                  count |-> 0, active |-> NextOp(s) = 0])]
    /\ UNCHANGED pos

(* CommandEncoder::dispatch: each PerTask-th dispatch of a stream is an     *)
(* active task.                                                             *)
Dispatch(s, kind, a) ==
    LET counted == NextOp(s) = 0
    IN  /\ numOps' = [numOps EXCEPT ![s] = NextOp(s)]
        /\ nActive' = IF counted THEN nActive + 1 ELSE nActive
        /\ log' = [log EXCEPT ![s] = Append(@,
                     [kind |-> kind, arr |-> a, eval |-> cur, stream |-> s,
                      count |-> 0, active |-> counted])]
        /\ UNCHANGED pos
-----------------------------------------------------------------------------
(* The array being evaluated: one of the graph, or the Synchronizer *)

InputsOf(a) == IF a = Sync THEN outs ELSE Inputs[a]
OutputsOf(a) == IF a = Sync THEN {} ELSE Outputs[a]
StreamFor(a) == IF a = Sync THEN syncStream ELSE StreamOf[a]
SeqRange(q) == {q[i] : i \in DOMAIN q}

Unscheduled == {a \in Arrays : status[a] = "unscheduled"}

(* The unscheduled arrays a set O depends on, with their siblings: the      *)
(* least set that holds those of O and is closed under both.                *)
Needed(O) ==
    LET closed(T) == /\ O \cap Unscheduled \subseteq T
                     /\ \A a \in T : /\ Outputs[a] \subseteq T
                                     /\ Parents(a) \cap Unscheduled \subseteq T
    IN  {a \in Unscheduled : \A T \in SUBSET Unscheduled : closed(T) => a \in T}

(* The arrays used by another stream than their own: the Synchronizer, on   *)
(* the stream of O[i], uses all of O.                                       *)
CrossStream(O, i) ==
    {b \in Unscheduled :
       \/ b \in SeqRange(O) /\ StreamOf[b] # StreamOf[O[i]]
       \/ \E a \in Needed(SeqRange(O)) : b \in Parents(a) /\ StreamOf[b] # StreamOf[a]}

(* Is an event attached to a, and has the worker signalled it? *)
HasEvent(a) == event[a] # 0
IsSignaled(a) == \E e \in Evals : event[a] = e /\ signaled[e][StreamOf[a]]

ReadyOnAnyStream(a) ==
    ~HasEvent(a) \/ \E e \in Evals : event[a] = e /\ \E s \in Streams : signaled[e][s]

(* array::is_available, of an array that has been evaluated. *)
Ready(a) == ~HasEvent(a) \/ IsSignaled(a)

-----------------------------------------------------------------------------
Init ==
    /\ pc = "idle" /\ cur = 0 /\ async = FALSE /\ outs = <<>>
    /\ syncStream \in Streams /\ todo = {} /\ arr = Sync /\ idx = 1
    /\ needsFence = {} /\ unfenced = {} /\ openStreams = {}
    /\ nOld = 0 /\ syncs = 0
    /\ status = [a \in Arrays |-> IF a \in Leaves THEN "available" ELSE "unscheduled"]
    /\ event = [a \in Arrays |-> 0]
    /\ fenceCount = [e \in Evals |-> [s \in Streams |-> 0]]
    /\ fenceValue = [e \in Evals |-> [s \in Streams |-> 0]]
    /\ signaled = [e \in Evals |-> [s \in Streams |-> FALSE]]
    /\ nActive = 0 /\ numOps = [s \in Streams |-> 0]
    /\ log = [s \in Streams |-> <<>>] /\ pos = [s \in Streams |-> 0]
    /\ computed = Leaves

(* eval(outputs) or async_eval(outputs), O[i] the first output that is      *)
(* unscheduled.  The depth-first pass of eval_impl: what goes on the tape,  *)
(* and which arrays cross streams.                                          *)
BeginEval(O, i, isAsync) ==
    /\ pc = "idle" /\ cur < MaxEvals
    /\ O[i] \in Unscheduled /\ \A j \in 1..(i - 1) : O[j] \notin Unscheduled
    /\ cur' = cur + 1 /\ async' = isAsync /\ outs' = O
    /\ syncStream' = StreamOf[O[i]]
    /\ todo' = Needed(SeqRange(O))
    /\ needsFence' = CrossStream(O, i)
    /\ openStreams' = {} /\ pc' = "tape"
    /\ UNCHANGED <<arr, idx, unfenced, nOld, syncs, arrayVars, queueVars, syncVars>>

(* Take the array at the back of the tape: one whose inputs are not on the  *)
(* tape any more (see TapeBuilder), the Synchronizer last.  An async eval   *)
(* attaches the event of its stream to it and its siblings.                 *)
TakeArray(a) ==
    /\ pc = "tape"
    /\ IF a = Sync THEN todo = {}
                   ELSE a \in todo /\ Parents(a) \cap todo = {}
    /\ arr' = a /\ idx' = 1 /\ pc' = "inputs"
    /\ openStreams' = openStreams \cup {StreamFor(a)}
    /\ event' = IF async
                THEN [b \in Arrays |-> IF b \in OutputsOf(a) THEN cur ELSE event[b]]
                ELSE event
    /\ UNCHANGED <<syncStream, todo, unfenced, nOld, syncs, status, evalVars,
                   queueVars, syncVars>>

(* One input of arr: order its stream after the input. *)
WaitInput ==
    /\ pc = "inputs" /\ idx \in DOMAIN InputsOf(arr)
    /\ LET in == InputsOf(arr)[idx]
           s  == StreamFor(arr)
       IN  \/ /\ in \in needsFence
              /\ Push(s, "fenceWait", in, cur, StreamOf[in], fenceCount[cur][StreamOf[in]])
              /\ UNCHANGED event
           \/ /\ in \notin needsFence /\ HasEvent(in) /\ IsSignaled(in)
              /\ event' = [event EXCEPT ![in] = 0]
              /\ UNCHANGED queueVars
           \/ /\ in \notin needsFence /\ HasEvent(in) /\ ~IsSignaled(in)
              /\ StreamOf[in] # s
              /\ Push(s, "eventWait", in, event[in], StreamOf[in], 0)
              /\ UNCHANGED event
           \/ /\ in \notin needsFence
              /\ ~HasEvent(in) \/ (~IsSignaled(in) /\ StreamOf[in] = s)
              /\ UNCHANGED <<event, queueVars>>
    /\ idx' = idx + 1
    /\ UNCHANGED <<pc, syncStream, todo, arr, unfenced, openStreams, nOld, syncs,
                   status, evalVars, syncVars>>

AllInputsSeen == pc = "inputs" /\ idx \notin DOMAIN InputsOf(arr)

(* Primitive::eval_cpu: the kernel is dispatched, unless the output only    *)
(* shares its input's buffer or the primitive is the Synchronizer.          *)
EvalKernel ==
    /\ AllInputsSeen
    /\ IF arr = Sync \/ arr \in Views THEN UNCHANGED queueVars
                                      ELSE Dispatch(StreamFor(arr), "kernel", arr)
    /\ Goto("retain")

(* eval_cpu throws: the exception leaves eval_impl. *)
Throw ==
    /\ AllInputsSeen /\ arr \in Failing
    /\ Goto("idle") /\ UNCHANGED queueVars

(* cpu::eval after eval_cpu: an empty task keeps the buffers of the inputs  *)
(* and siblings alive until the kernel before it in the queue has run.      *)
Retain ==
    /\ pc = "retain"
    /\ Dispatch(StreamFor(arr), "release", arr)
    /\ Goto("check")

OverMemoryForever(overLimit) == overLimit

(* get_active_memory() > get_memory_limit(): whether it holds depends on    *)
(* the sizes of the arrays, so overLimit may be either.  Waiting helps only *)
(* while some task may release memory.                                      *)
OverMemory(overLimit) == overLimit /\ nActive > 0

(* Too many active tasks, or too much memory in use: the caller enters      *)
(* wait_for_one, which copies the counter.                                  *)
Throttle(overLimit) ==
    /\ \/ pc = "check" /\ (nActive > MaxActive \/ OverMemory(overLimit))
       \/ pc = "recheck" /\ OverMemory(overLimit)
    /\ nOld' = nActive /\ pc' = "throttled"
    /\ UNCHANGED <<syncStream, todo, arr, idx, unfenced, openStreams, syncs,
                   evalVars, arrayVars, queueVars, syncVars>>

OneDoneTooEarly == nOld <= 1 \/ nActive <= nOld

OneDone == nOld <= 1 \/ nActive < nOld

WaitForOne ==
    /\ pc = "throttled" /\ OneDone
    /\ Goto("recheck") /\ UNCHANGED queueVars

StatusWithoutSiblings(a) ==
    [b \in Arrays |-> IF b = a THEN "evaluated" ELSE status[b]]

StatusAfter(a) ==
    [b \in Arrays |-> IF b \in OutputsOf(a) THEN "evaluated" ELSE status[b]]

CrossingWithoutSiblings(a) == {a} \cap needsFence

Crossing(a) == OutputsOf(a) \cap needsFence

(* The primitive counts as evaluated: every output changes status, and goes *)
(* off the tape.                                                            *)
MarkEvaluated(overLimit) ==
    /\ \/ pc = "check" /\ nActive <= MaxActive
       \/ pc = "recheck"
    /\ ~OverMemory(overLimit)
    /\ status' = StatusAfter(arr)
    /\ todo' = todo \ OutputsOf(arr)
    /\ unfenced' = Crossing(arr)
    /\ pc' = "fence"
    /\ UNCHANGED <<syncStream, arr, idx, openStreams, nOld, syncs, event, evalVars,
                   queueVars, syncVars>>

(* maybe_update_fence, for arr before its siblings. *)
UpdateFence(b) ==
    LET s == StreamFor(arr)
    IN  /\ pc = "fence" /\ b \in unfenced /\ (arr \in unfenced => b = arr)
        /\ unfenced' = unfenced \ {b}
        /\ fenceCount' = [fenceCount EXCEPT ![cur][s] = @ + 1]
        /\ Push(s, "fenceUpdate", b, cur, s, fenceCount[cur][s] + 1)
        /\ UNCHANGED <<pc, syncStream, todo, arr, idx, openStreams, nOld, syncs,
                       fenceValue, signaled, computed, evalVars, arrayVars>>

(* Round the loop, or out of it after the Synchronizer. *)
NextArray ==
    /\ pc = "fence" /\ unfenced = {}
    /\ Goto(IF arr = Sync THEN "signal" ELSE "tape") /\ UNCHANGED queueVars

(* Signal the event of an open stream: an async eval has one per stream, a  *)
(* sync eval only that of the Synchronizer.                                 *)
SignalEvent(s) ==
    /\ pc = "signal" /\ s \in openStreams
    /\ openStreams' = openStreams \ {s}
    /\ IF async \/ s = syncStream THEN Push(s, "eventSignal", Sync, cur, s, 0)
                                  ELSE UNCHANGED queueVars
    /\ UNCHANGED <<pc, todo, evalVars, stepVars, arrayVars, syncVars>>

(* async_eval returns at once; eval waits on the Synchronizer's event.      *)
EndEval ==
    /\ pc = "signal" /\ openStreams = {}
    /\ async \/ signaled[cur][syncStream]
    /\ Goto("idle") /\ UNCHANGED queueVars

-----------------------------------------------------------------------------
(* What else the user may do between evals *)

SetAvailable(a) ==
    /\ status' = [status EXCEPT ![a] = "available"]
    /\ event' = [event EXCEPT ![a] = 0]

(* array::is_available returning TRUE, of an evaluated array. *)
IsAvailable(a) ==
    /\ pc = "idle" /\ status[a] = "evaluated" /\ Ready(a)
    /\ SetAvailable(a)
    /\ UNCHANGED <<callVars, queueVars, syncVars>>

(* array::wait, of an array whose event has not been signalled: the call    *)
(* blocks.  eval of arrays that are all scheduled is a wait on each.        *)
CallWait(a) ==
    /\ pc = "idle" /\ status[a] = "evaluated" /\ ~Ready(a)
    /\ arr' = a /\ pc' = "wait"
    /\ UNCHANGED <<syncStream, todo, idx, unfenced, openStreams, nOld, syncs,
                   evalVars, arrayVars, queueVars, syncVars>>

ReturnWait ==
    /\ pc = "wait" /\ IsSignaled(arr)
    /\ SetAvailable(arr)
    /\ pc' = "idle"
    /\ UNCHANGED <<todo, openStreams, evalVars, stepVars, queueVars, syncVars>>

(* synchronize(stream): enqueue a promise; its future is ready once the     *)
(* worker has run the queue up to it, idx tasks.                            *)
Synchronize(s) ==
    /\ pc = "idle" /\ syncs < MaxSyncs
    /\ Push(s, "promise", Sync, cur, s, 0)
    /\ syncStream' = s /\ idx' = Length(s) + 1 /\ syncs' = syncs + 1 /\ pc' = "drain"
    /\ UNCHANGED <<todo, arr, unfenced, openStreams, nOld, evalVars, arrayVars,
                   syncVars>>

ReturnSynchronize ==
    /\ pc = "drain" /\ pos[syncStream] >= idx
    /\ Goto("idle") /\ UNCHANGED queueVars

-----------------------------------------------------------------------------
(* The worker of stream s takes the task at the head of its queue and runs  *)
(* it; a wait task blocks it.                                               *)

MayRunSpuriously(t) ==
    t.kind = "fenceWait" => fenceValue[t.eval][t.stream] >= t.count

MayRunOneEarly(t) ==
    CASE t.kind = "fenceWait" -> fenceValue[t.eval][t.stream] + 1 >= t.count
      [] t.kind = "eventWait" -> signaled[t.eval][t.stream]
      [] OTHER -> TRUE

FenceReachedLate(t) == fenceValue[t.eval][t.stream] > t.count

(* Fence::wait and Event::wait on the worker, and whether they return.      *)
FenceReached(t) == fenceValue[t.eval][t.stream] >= t.count
EventReached(t) == signaled[t.eval][t.stream]

MayRun(t) ==
    CASE t.kind = "fenceWait" -> FenceReached(t)
      [] t.kind = "eventWait" -> EventReached(t)
      [] OTHER -> TRUE

(* The task of Fence::update and that of Event::signal. *)
FencesAfter(t) ==
    IF t.kind = "fenceUpdate"
    THEN [fenceValue EXCEPT ![t.eval][t.stream] = t.count] ELSE fenceValue

EventsAfter(t) ==
    IF t.kind = "eventSignal"
    THEN [signaled EXCEPT ![t.eval][t.stream] = TRUE] ELSE signaled

Run(s) ==
    /\ Pending(s) /\ MayRun(HeadTask(s))
    /\ pos' = [pos EXCEPT ![s] = @ + 1]
    /\ LET t == HeadTask(s)
       IN  /\ nActive' = IF t.active THEN nActive - 1 ELSE nActive
           /\ fenceValue' = FencesAfter(t) /\ signaled' = EventsAfter(t)
           /\ computed' = IF t.kind = "release" THEN computed \cup OutputsOf(t.arr)
                                                ELSE computed
    /\ UNCHANGED <<fenceCount, numOps, log, callVars, arrayVars>>

(* The user makes no further call and all work is done. *)
Quiescent ==
    /\ pc = "idle" /\ \A s \in Streams : ~Pending(s)
    /\ UNCHANGED vars

(* The steps of the calling thread inside a call: a call once begun is      *)
(* carried on by its thread.                                                *)
Caller ==
    \/ \E a \in Arrays \cup {Sync} : TakeArray(a)
    \/ WaitInput \/ EvalKernel \/ Throw \/ Retain
    \/ \E overLimit \in BOOLEAN : Throttle(overLimit) \/ MarkEvaluated(overLimit)
    \/ WaitForOne \/ NextArray \/ EndEval \/ ReturnWait \/ ReturnSynchronize
    \/ \E b \in Arrays : UpdateFence(b)
    \/ \E s \in Streams : SignalEvent(s)

User ==
    \/ \E O \in Requests, isAsync \in BOOLEAN :
         \E i \in DOMAIN O : BeginEval(O, i, isAsync)
    \/ \E a \in Arrays : IsAvailable(a) \/ CallWait(a)
    \/ \E s \in Streams : Synchronize(s)

Worker == \E s \in Streams : Run(s)

Next == Caller \/ User \/ Worker \/ Quiescent

(* The operating system runs every thread that can run.  A caller between   *)
(* calls need not make another one.                                         *)
Fairness == WF_vars(Caller) /\ \A s \in Streams : WF_vars(Run(s))

Spec == Init /\ [][Next]_vars
FairSpec == Spec /\ Fairness

-----------------------------------------------------------------------------
(* Properties *)

Callers == {"idle", "tape", "inputs", "retain", "check", "throttled", "recheck",
            "fence", "signal", "wait", "drain"}

(* Every variable stays in its domain, and a queue is never over-read.      *)
TypeOK ==
    /\ pc \in Callers /\ cur \in 0..MaxEvals /\ async \in BOOLEAN
    /\ outs \in Seq(Arrays) /\ syncStream \in Streams
    /\ todo \subseteq Arrays /\ arr \in Arrays \cup {Sync} /\ idx \in Nat
    /\ needsFence \subseteq Arrays /\ unfenced \subseteq Arrays
    /\ openStreams \subseteq Streams /\ nOld \in Int /\ syncs \in 0..MaxSyncs
    /\ status \in [Arrays -> {"unscheduled", "evaluated", "available"}]
    /\ event \in [Arrays -> 0..MaxEvals]
    /\ fenceCount \in [Evals -> [Streams -> Nat]]
    /\ fenceValue \in [Evals -> [Streams -> Nat]]
    /\ signaled \in [Evals -> [Streams -> BOOLEAN]]
    /\ nActive \in Int /\ numOps \in [Streams -> 0..(PerTask - 1)]
    /\ log \in [Streams -> Seq(Task)]
    /\ pos \in [Streams -> Nat] /\ \A s \in Streams : pos[s] <= Length(s)
    /\ computed \subseteq Arrays

(* When a worker is about to run the kernel of an array, or to let go of    *)
(* its inputs, every input has been computed, on whatever stream and in     *)
(* whatever eval: the fence and event waits eval_impl enqueues suffice.     *)
InputsComputed ==
    \A s \in Streams :
        (Pending(s) /\ HeadTask(s).kind \in {"kernel", "release"} /\ HeadTask(s).arr # Sync)
            => Parents(HeadTask(s).arr) \subseteq computed

(* is_available ("safe to read", mlx/array.h) and wait never let the user   *)
(* read an array before the worker has finished it.                         *)
SafeToRead ==
    \A a \in Arrays :
        \/ status[a] = "unscheduled"
        \/ status[a] = "evaluated" /\ (pc # "idle" \/ ~Ready(a))
        \/ a \in computed

(* A fence wait names the count of an update of the array waited for that   *)
(* is on the queue of that array's stream by then: the fence eval_impl      *)
(* looks up has been created, and its wait will end.                        *)
FenceWaitCovered ==
    \A s \in Streams : \A k \in 1..Length(s) :
        log[s][k].kind = "fenceWait" =>
            LET t == log[s][k]
            IN  \E j \in 1..Length(t.stream) :
                    /\ log[t.stream][j].kind = "fenceUpdate"
                    /\ log[t.stream][j].eval = t.eval
                    /\ log[t.stream][j].arr = t.arr
                    /\ log[t.stream][j].count <= t.count

ActivePending(s) ==
    {<<s, k>> : k \in {j \in (pos[s] + 1)..Length(s) : log[s][j].active}}

(* The counter that eval_impl throttles on is the number of active tasks    *)
(* still in the queues: no completion is lost or counted twice.             *)
ActiveTasksExact ==
    nActive = Cardinality(UNION {ActivePending(s) : s \in Streams})

IsRelease(t) == t.kind = "release" /\ t.arr # Sync

(* The outputs of a primitive are released, hence computed, by one task     *)
(* only: no eval puts on its tape what an earlier one has run, siblings and *)
(* evals after an exception included.                                       *)
EvaluatedOnce ==
    \A s, t \in Streams : \A j \in 1..Length(s), k \in 1..Length(t) :
        /\ IsRelease(log[s][j]) /\ IsRelease(log[t][k])
        /\ log[t][k].arr \in Outputs[log[s][j].arr]
        => s = t /\ j = k

(* The throttle keeps the number of active tasks at MAX_ACTIVE_TASKS, give  *)
(* or take the primitive being evaluated, when no primitive dispatches      *)
(* enough kernels for two active tasks.                                     *)
ThrottleBounds == PerTask > 1 /\ MaxActive > 0 => nActive <= MaxActive + 1

(* Where the caller waits for the workers. *)
Blocked ==
    \/ pc = "throttled" /\ ~OneDone
    \/ pc = "signal" /\ openStreams = {} /\ ~async /\ ~signaled[cur][syncStream]
    \/ pc = "wait" /\ ~IsSignaled(arr)
    \/ pc = "drain" /\ pos[syncStream] < idx

(* No deadlock: a caller that waits has left the workers something to do,   *)
(* and as long as any queue holds a task, some worker can run the one at    *)
(* the head of its own: the fence and event waits of the streams on each    *)
(* other never close a circle.                                              *)
NeverStuck ==
    /\ Blocked => \E s \in Streams : Pending(s)
    /\ (\E s \in Streams : Pending(s)) =>
           \E s \in Streams : Pending(s) /\ MayRun(HeadTask(s))

(* Every call returns: no fence, event or throttle wait blocks for ever,    *)
(* though a caller holds back the fence update of an array while it is      *)
(* throttled.                                                               *)
CallsReturn == pc # "idle" ~> pc = "idle"

(* What goes on a tape is computed in the end, async or not.                *)
WorkDone == \A a \in Arrays : a \in todo ~> a \in computed

(* The streams, fences and events implement Dataflow.                       *)
Abstract == INSTANCE Dataflow WITH
    InputSet <- [a \in Arrays |-> Parents(a)],
    visible <- {a \in Arrays : status[a] = "available"}
ImplementsDataflow == Abstract!Spec
=============================================================================
