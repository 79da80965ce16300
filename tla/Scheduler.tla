------------------------------ MODULE Scheduler ------------------------------
(***************************************************************************)
(* mlx/scheduler.h and scheduler.cpp below the level of EvalStreams: the   *)
(* map of stream threads under a shared mutex, the queue of each thread    *)
(* under a mutex with a condition variable, and the counter of active      *)
(* tasks with another, used by several calling threads at once.            *)
(*                                                                         *)
(* What a mutex protects is one step.  A thread that waits on a condition  *)
(* variable is in asleep; notifying takes it out, after which it takes the *)
(* mutex and checks its condition again.  The stop flag is left out: the   *)
(* scheduler is leaked, so no StreamThread is ever destroyed.              *)
(***************************************************************************)
EXTENDS Integers, Sequences, FiniteSets

CONSTANTS Callers, Streams,
          MaxTasks,   \* bound on the tasks of a caller
          MaxThreads  \* bound on the StreamThreads ever constructed

ASSUME SchedulerAssumption ==
    MaxTasks \in Nat /\ MaxThreads \in Nat /\ Callers \cap (1..MaxThreads) = {}

Threads == 1..MaxThreads

Tasks == [by : Callers, no : 1..MaxTasks, on : Streams, counted : BOOLEAN]
Nobody == [by |-> "none"]

VARIABLES
    pc,        \* where a caller is
    task,      \* the task it has made, on some stream
    st,        \* the StreamThread its task goes to, 0 for none
    nOld,      \* n_tasks_old of its wait_for_one
    made,      \* how many tasks it has made
    threadOf,  \* threads_: stream to StreamThread, or 0
    nThreads,  \* how many StreamThreads have been constructed
    queue,     \* StreamThread::q
    wpc,       \* where the worker of a StreamThread is
    running,   \* the task it has taken
    nActive,   \* n_active_tasks_
    asleep,    \* callers in completion_cv.wait and workers in cond.wait
    enqueued,  \* all the tasks that have been put in a queue, by stream
    ran        \* those that have been executed

callerVars == <<pc, task, st, nOld, made>>
mapVars == <<threadOf, nThreads>>
workerVars == <<wpc, running>>
vars == <<callerVars, mapVars, queue, workerVars, nActive, asleep, enqueued, ran>>

Init ==
    /\ pc = [c \in Callers |-> "idle"]
    /\ task = [c \in Callers |-> Nobody] /\ st = [c \in Callers |-> 0]
    /\ nOld = [c \in Callers |-> 0] /\ made = [c \in Callers |-> 0]
    /\ threadOf = [s \in Streams |-> 0] /\ nThreads = 0
    /\ queue = [w \in Threads |-> <<>>]
    /\ wpc = [w \in Threads |-> "none"] /\ running = [w \in Threads |-> Nobody]
    /\ nActive = 0 /\ asleep = {}
    /\ enqueued = [s \in Streams |-> <<>>] /\ ran = [s \in Streams |-> <<>>]

Goto(c, place) == pc' = [pc EXCEPT ![c] = place]
GotoW(w, place) == wpc' = [wpc EXCEPT ![w] = place]
-----------------------------------------------------------------------------
(* Waking up *)

NotifyNobody(w) == asleep

(* cond.notify_one: at most the worker waits on its own variable. *)
NotifyWorker(w) == asleep \ {w}

NotifyNoCaller == asleep

(* completion_cv.notify_all *)
NotifyCallers == asleep \ Callers

(* A condition variable may also wake a thread for no reason. *)
SpuriousWakeup(x) ==
    /\ x \in asleep
    /\ asleep' = asleep \ {x}
    /\ UNCHANGED <<callerVars, mapVars, queue, workerVars, nActive, enqueued, ran>>
-----------------------------------------------------------------------------
(* A caller: CommandEncoder::dispatch and Scheduler::enqueue *)

FirstStep(counted) == IF counted THEN "count" ELSE "lookup"

(* A task for s; each DISPATCHES_PER_TASK-th dispatch is counted. *)
NewTask(c, s, counted) ==
    /\ pc[c] = "idle" /\ made[c] < MaxTasks
    /\ made' = [made EXCEPT ![c] = @ + 1]
    /\ task' = [task EXCEPT ![c] =
         [by |-> c, no |-> made[c] + 1, on |-> s, counted |-> counted]]
    /\ Goto(c, FirstStep(counted))
    /\ UNCHANGED <<st, nOld, mapVars, queue, workerVars, nActive, asleep, enqueued, ran>>

(* notify_new_task: the count first, the notification without the mutex.    *)
NotifyNewTask(c) ==
    \/ /\ pc[c] = "count"
       /\ nActive' = nActive + 1 /\ Goto(c, "announce")
       /\ UNCHANGED <<task, st, nOld, made, mapVars, queue, workerVars, asleep,
                      enqueued, ran>>
    \/ /\ pc[c] = "announce"
       /\ asleep' = NotifyCallers /\ Goto(c, "lookup")
       /\ UNCHANGED <<task, st, nOld, made, mapVars, queue, workerVars, nActive,
                      enqueued, ran>>

(* Under the shared mutex. *)
Lookup(c) ==
    /\ pc[c] = "lookup"
    /\ st' = [st EXCEPT ![c] = threadOf[task[c].on]]
    /\ Goto(c, IF threadOf[task[c].on] = 0 THEN "create" ELSE "push")
    /\ UNCHANGED <<task, nOld, made, mapVars, queue, workerVars, nActive, asleep,
                   enqueued, ran>>

AlwaysAbsent(s) == TRUE

StillAbsent(s) == threadOf[s] = 0

(* Under the exclusive mutex: another caller may have come first. *)
Create(c) ==
    /\ pc[c] = "create"
    /\ Goto(c, "push")
    /\ IF StillAbsent(task[c].on)
       THEN /\ nThreads < MaxThreads
            /\ nThreads' = nThreads + 1
            /\ threadOf' = [threadOf EXCEPT ![task[c].on] = nThreads + 1]
            /\ st' = [st EXCEPT ![c] = nThreads + 1]
            /\ GotoW(nThreads + 1, "check")
       ELSE /\ st' = [st EXCEPT ![c] = threadOf[task[c].on]]
            /\ UNCHANGED <<mapVars, wpc>>
    /\ UNCHANGED <<task, nOld, made, queue, running, nActive, asleep, enqueued, ran>>

(* StreamThread::enqueue *)
Push(c) ==
    /\ pc[c] = "push"
    /\ queue' = [queue EXCEPT ![st[c]] = Append(@, task[c])]
    /\ enqueued' = [enqueued EXCEPT ![task[c].on] = Append(@, task[c])]
    /\ Goto(c, "notify")
    /\ UNCHANGED <<task, st, nOld, made, mapVars, workerVars, nActive, asleep, ran>>

Notify(c) ==
    /\ pc[c] = "notify"
    /\ asleep' = NotifyWorker(st[c])
    /\ task' = [task EXCEPT ![c] = Nobody] /\ st' = [st EXCEPT ![c] = 0]
    /\ Goto(c, "idle")
    /\ UNCHANGED <<nOld, made, mapVars, queue, workerVars, nActive, enqueued, ran>>

(* wait_for_one, when it has to wait at all. *)
WaitForOne(c) ==
    /\ pc[c] = "idle" /\ nActive > 1
    /\ nOld' = [nOld EXCEPT ![c] = nActive]
    /\ asleep' = asleep \cup {c} /\ Goto(c, "waiting")
    /\ UNCHANGED <<task, st, made, mapVars, queue, workerVars, nActive, enqueued, ran>>

CheckCounter(c) ==
    /\ pc[c] = "waiting" /\ c \notin asleep
    /\ IF nActive < nOld[c]
       THEN /\ Goto(c, "idle") /\ nOld' = [nOld EXCEPT ![c] = 0]
            /\ UNCHANGED asleep
       ELSE asleep' = asleep \cup {c} /\ UNCHANGED <<pc, nOld>>
    /\ UNCHANGED <<task, st, made, mapVars, queue, workerVars, nActive, enqueued, ran>>
-----------------------------------------------------------------------------
(* A worker: StreamThread::thread_fn *)

CheckQueue(w) ==
    /\ wpc[w] = "check" /\ w \notin asleep
    /\ IF queue[w] = <<>>
       THEN asleep' = asleep \cup {w} /\ UNCHANGED <<queue, workerVars>>
       ELSE /\ running' = [running EXCEPT ![w] = Head(queue[w])]
            /\ queue' = [queue EXCEPT ![w] = Tail(@)]
            /\ GotoW(w, "run")
            /\ UNCHANGED asleep
    /\ UNCHANGED <<callerVars, mapVars, nActive, enqueued, ran>>

NeverComplete(t) == "check"

AfterTask(t) == IF t.counted THEN "complete" ELSE "check"

(* The task is executed without the mutex. *)
RunTask(w) ==
    /\ wpc[w] = "run"
    /\ ran' = [ran EXCEPT ![running[w].on] = Append(@, running[w])]
    /\ GotoW(w, AfterTask(running[w]))
    /\ running' = [running EXCEPT ![w] = IF AfterTask(@) = "complete" THEN @ ELSE Nobody]
    /\ UNCHANGED <<callerVars, mapVars, queue, nActive, asleep, enqueued>>

(* notify_task_completion *)
NotifyCompletion(w) ==
    \/ /\ wpc[w] = "complete"
       /\ nActive' = nActive - 1
       /\ running' = [running EXCEPT ![w] = Nobody] /\ GotoW(w, "announce")
       /\ UNCHANGED <<callerVars, mapVars, queue, asleep, enqueued, ran>>
    \/ /\ wpc[w] = "announce"
       /\ asleep' = NotifyCallers /\ GotoW(w, "check")
       /\ UNCHANGED <<callerVars, mapVars, queue, running, nActive, enqueued, ran>>

CallerStep(c) ==
    \/ NotifyNewTask(c) \/ Lookup(c) \/ Create(c) \/ Push(c) \/ Notify(c) \/ CheckCounter(c)

WorkerStep(w) == CheckQueue(w) \/ RunTask(w) \/ NotifyCompletion(w)

Next ==
    \/ \E c \in Callers :
         \/ CallerStep(c) \/ WaitForOne(c)
         \/ \E s \in Streams, counted \in BOOLEAN : NewTask(c, s, counted)
    \/ \E w \in Threads : WorkerStep(w)
    \/ \E x \in Callers \cup Threads : SpuriousWakeup(x)

(* Every thread that can run is run; nobody has to make a new call.         *)
Fairness ==
    /\ \A c \in Callers : WF_vars(CallerStep(c))
    /\ \A w \in Threads : WF_vars(WorkerStep(w))

Spec == Init /\ [][Next]_vars /\ Fairness
-----------------------------------------------------------------------------
(* Properties *)

(* Every variable stays in its domain. *)
TypeOK ==
    /\ pc \in [Callers -> {"idle", "count", "announce", "lookup", "create", "push",
                           "notify", "waiting"}]
    /\ task \in [Callers -> Tasks \cup {Nobody}]
    /\ st \in [Callers -> 0..nThreads] /\ nOld \in [Callers -> Nat]
    /\ made \in [Callers -> 0..MaxTasks]
    /\ threadOf \in [Streams -> 0..nThreads] /\ nThreads \in 0..MaxThreads
    /\ queue \in [Threads -> Seq(Tasks)]
    /\ wpc \in [Threads -> {"none", "check", "run", "complete", "announce"}]
    /\ running \in [Threads -> Tasks \cup {Nobody}]
    /\ nActive \in Nat /\ asleep \subseteq Callers \cup Threads
    /\ enqueued \in [Streams -> Seq(Tasks)] /\ ran \in [Streams -> Seq(Tasks)]

Elements(q) == {q[i] : i \in DOMAIN q}
InHands ==
    {task[c] : c \in {d \in Callers : pc[d] \in {"announce", "lookup", "create", "push"}}}
    \cup (UNION {Elements(queue[w]) : w \in Threads})
    \cup {running[w] : w \in Threads}

(* The counter is the number of counted tasks between their two             *)
(* notifications, in a caller's hands, in a queue or with a worker; it is   *)
(* never negative, as a task is counted before it can complete.             *)
ActiveExact ==
    nActive = Cardinality({t \in InHands \ {Nobody} : t.counted})

(* A worker or a caller sleeps on a condition that holds only while whoever *)
(* made it hold has still to notify it: no wakeup is lost.                  *)
NoLostWakeup ==
    /\ \A w \in Threads \cap asleep :
         queue[w] # <<>> => \E c \in Callers : pc[c] = "notify" /\ st[c] = w
    /\ \A c \in Callers \cap asleep :
         nActive < nOld[c] => \/ \E w \in Threads : wpc[w] = "announce"
                              \/ \E d \in Callers : pc[d] = "announce"

(* wait_for_one returns once the callers have no more tasks to add, however *)
(* many callers wait and whatever they saw.                                 *)
WaitForOneReturns == \A c \in Callers : pc[c] = "waiting" ~> pc[c] = "idle"

(* Threads, mutexes and condition variables implement StreamQueues: one     *)
(* worker per stream, though callers race to create it, and every task run. *)
Abstract == INSTANCE StreamQueues
ImplementsQueues == Abstract!Spec
=============================================================================
