--------------------------- MODULE SchedulerProofs ---------------------------
(***************************************************************************)
(* For any number of callers, streams, tasks and threads no wakeup of the  *)
(* scheduler is lost, a stream is a FIFO queue, and the counter of active  *)
(* tasks is exact, and so never negative.                                  *)
(***************************************************************************)
EXTENDS Scheduler, FiniteSetTheorems, TLAPS

(* A caller's variables agree with where it is; threads are taken in order, *)
(* and each serves one stream.                                              *)
CallerInv ==
    \A c \in Callers :
        /\ pc[c] \in {"count", "announce", "lookup", "create", "push", "notify"} =>
             /\ task[c] \in Tasks /\ task[c].by = c /\ task[c].no = made[c]
        /\ pc[c] \in {"push", "notify"} => st[c] \in 1..nThreads
        /\ pc[c] = "push" => st[c] = threadOf[task[c].on]

ThreadInv ==
    /\ \A w \in Threads : w > nThreads => wpc[w] = "none" /\ queue[w] = <<>>
    /\ \A w \in Threads : wpc[w] \in {"run", "complete"} <=> running[w] # Nobody
    /\ \A w \in Threads : wpc[w] = "complete" => running[w].counted
    /\ \A r, s \in Streams : threadOf[r] = threadOf[s] => r = s \/ threadOf[s] = 0

TypeInv ==
    /\ pc \in [Callers -> {"idle", "count", "announce", "lookup", "create", "push",
                           "notify", "waiting"}]
    /\ task \in [Callers -> Tasks \cup {Nobody}]
    /\ st \in [Callers -> 0..nThreads] /\ nOld \in [Callers -> Int]
    /\ made \in [Callers -> 0..MaxTasks]
    /\ threadOf \in [Streams -> 0..nThreads] /\ nThreads \in 0..MaxThreads
    /\ queue \in [Threads -> Seq(Tasks)]
    /\ wpc \in [Threads -> {"none", "check", "run", "complete", "announce"}]
    /\ running \in [Threads -> Tasks \cup {Nobody}]
    /\ nActive \in Int /\ asleep \subseteq Callers \cup Threads
    /\ enqueued \in [Streams -> Seq(Tasks)] /\ ran \in [Streams -> Seq(Tasks)]

LEMMA NobodyIsNoTask == Nobody \notin Tasks
  BY DEF Nobody, Tasks

LEMMA InitTyped == Init => TypeInv /\ CallerInv /\ ThreadInv
  BY SchedulerAssumption DEF Init, TypeInv, CallerInv, ThreadInv, Threads

-----------------------------------------------------------------------------
LEMMA NewTaskTyped ==
    ASSUME TypeInv, CallerInv, ThreadInv, NEW c \in Callers, NEW s \in Streams,
           NEW counted \in BOOLEAN, NewTask(c, s, counted)
    PROVE  TypeInv' /\ CallerInv' /\ ThreadInv'
  <1>1. [by |-> c, no |-> made[c] + 1, on |-> s, counted |-> counted] \in Tasks
    BY SchedulerAssumption DEF NewTask, TypeInv, Tasks
  <1>2. TypeInv'
    BY <1>1, SchedulerAssumption DEF NewTask, TypeInv, FirstStep, Goto, mapVars, workerVars
  <1>3. CallerInv'
    BY <1>1 DEF NewTask, TypeInv, CallerInv, FirstStep, Goto, mapVars, workerVars
  <1>4. ThreadInv'
    BY DEF NewTask, ThreadInv, mapVars, workerVars
  <1> QED  BY <1>2, <1>3, <1>4

LEMMA CallerTyped ==
    ASSUME TypeInv, CallerInv, ThreadInv, NEW c \in Callers, CallerStep(c) \/ WaitForOne(c)
    PROVE  TypeInv' /\ CallerInv' /\ ThreadInv'
  <1>1. CASE NotifyNewTask(c)
    <2>1. TypeInv'
      <3>1. CASE pc[c] = "count"
        <4>1. /\ nActive' = nActive + 1 /\ pc' = [pc EXCEPT ![c] = "announce"]
              /\ UNCHANGED <<task, st, nOld, made, threadOf, nThreads, queue, wpc, running,
                             asleep, enqueued, ran>>
          BY <1>1, <3>1 DEF NotifyNewTask, Goto, mapVars, workerVars
        <4>2. nActive' \in Int  BY <4>1 DEF TypeInv
        <4> QED  BY <4>1, <4>2 DEF TypeInv
      <3>2. CASE pc[c] = "announce"
        BY <1>1, <3>2 DEF NotifyNewTask, TypeInv, Goto, mapVars, workerVars, NotifyCallers
      <3> QED  BY <1>1, <3>1, <3>2 DEF NotifyNewTask
    <2>2. CallerInv'
      BY <1>1 DEF NotifyNewTask, TypeInv, CallerInv, Goto, mapVars
    <2>3. ThreadInv'
      BY <1>1 DEF NotifyNewTask, ThreadInv, mapVars, workerVars
    <2> QED  BY <2>1, <2>2, <2>3
  <1>2. CASE Lookup(c)
    <2>1. task[c] \in Tasks /\ task[c].on \in Streams
      BY <1>2 DEF Lookup, CallerInv, Tasks
    <2>2. TypeInv'
      BY <1>2, <2>1 DEF Lookup, TypeInv, Goto, mapVars, workerVars
    <2>3. CallerInv'
      BY <1>2, <2>1 DEF Lookup, TypeInv, CallerInv, Goto, mapVars, workerVars
    <2> QED  BY <1>2, <2>2, <2>3 DEF Lookup, ThreadInv, mapVars, workerVars
  <1>3. CASE Create(c)
    <2>1. task[c] \in Tasks /\ task[c].on \in Streams
      BY <1>3 DEF Create, CallerInv, Tasks
    <2>2. CASE StillAbsent(task[c].on)
      <3>1. /\ nThreads < MaxThreads /\ nThreads' = nThreads + 1
            /\ threadOf' = [threadOf EXCEPT ![task[c].on] = nThreads + 1]
            /\ st' = [st EXCEPT ![c] = nThreads + 1]
            /\ wpc' = [wpc EXCEPT ![nThreads + 1] = "check"]
            /\ pc' = [pc EXCEPT ![c] = "push"]
            /\ UNCHANGED <<task, nOld, made, queue, running, nActive, asleep, enqueued, ran>>
        BY <1>3, <2>2 DEF Create, Goto, GotoW
      <3>2. nThreads + 1 \in Threads /\ nThreads \in Nat
        BY <3>1, SchedulerAssumption DEF TypeInv, Threads
      <3>3. /\ st \in [Callers -> 0..(nThreads + 1)] /\ threadOf \in [Streams -> 0..(nThreads + 1)]
        BY <3>2 DEF TypeInv
      <3>4. TypeInv'
        BY <2>1, <3>1, <3>2, <3>3, SchedulerAssumption, SMTT(30) DEF TypeInv
      <3>5. CallerInv'
        <4>1. \A d \in Callers : pc[d] = "push" /\ d # c => task[d].on # task[c].on
          BY <2>1, <2>2 DEF CallerInv, StillAbsent
        <4>2. \A d \in Callers : pc'[d] = "push" /\ d # c =>
                  threadOf'[task[d].on] = threadOf[task[d].on]
          BY <3>1, <4>1 DEF CallerInv, TypeInv, Tasks
        <4>3. threadOf'[task[c].on] = nThreads + 1 /\ pc'[c] = "push" /\ st'[c] = nThreads + 1
          BY <2>1, <3>1 DEF TypeInv
        <4>4. \A d \in Callers : d # c => pc'[d] = pc[d] /\ st'[d] = st[d]
          BY <3>1 DEF TypeInv
        <4>5. pc[c] = "create"  BY <1>3 DEF Create
        <4>6. ASSUME NEW d \in Callers, d # c
              PROVE  /\ pc'[d] \in {"push", "notify"} => st'[d] \in 1..nThreads'
                     /\ pc'[d] = "push" => st'[d] = threadOf'[task'[d].on]
          BY <3>1, <3>2, <4>2, <4>4, <4>6 DEF CallerInv
        <4> QED  BY <3>1, <3>2, <4>3, <4>4, <4>5, <4>6 DEF CallerInv
      <3>6. ThreadInv'
        <4>1. \A w \in Threads : w > nThreads' =>
                  w # nThreads + 1 /\ wpc[w] = "none" /\ queue[w] = <<>>
          BY <3>1, <3>2 DEF ThreadInv, Threads
        <4>2. running[nThreads + 1] = Nobody
          BY <3>2 DEF ThreadInv
        <4>3. \A r \in Streams : threadOf[r] # nThreads + 1
          BY <3>2 DEF TypeInv
        <4> QED
          BY <2>1, <3>1, <3>2, <4>1, <4>2, <4>3 DEF ThreadInv, TypeInv
      <3> QED  BY <3>4, <3>5, <3>6
    <2>3. CASE ~StillAbsent(task[c].on)
      <3>1. threadOf[task[c].on] \in 1..nThreads
        BY <2>1, <2>3 DEF TypeInv, StillAbsent
      <3>2. /\ st' = [st EXCEPT ![c] = threadOf[task[c].on]]
            /\ pc' = [pc EXCEPT ![c] = "push"]
            /\ UNCHANGED <<task, nOld, made, threadOf, nThreads, wpc, queue, running,
                           nActive, asleep, enqueued, ran>>
        BY <1>3, <2>3 DEF Create, Goto, mapVars
      <3>3. TypeInv'  BY <2>1, <3>1, <3>2 DEF TypeInv
      <3>4. CallerInv'  BY <1>3, <2>1, <3>1, <3>2 DEF CallerInv, TypeInv, Create
      <3>5. ThreadInv'  BY <3>2 DEF ThreadInv
      <3> QED  BY <3>3, <3>4, <3>5
    <2> QED  BY <2>2, <2>3
  <1>4. CASE Push(c)
    <2>1. /\ task[c] \in Tasks /\ task[c].on \in Streams
          /\ st[c] \in 1..nThreads /\ st[c] \in Threads
      BY <1>4, SchedulerAssumption DEF Push, CallerInv, TypeInv, Tasks, Threads
    <2>2. TypeInv'
      BY <1>4, <2>1, SMTT(30) DEF Push, TypeInv, Goto, mapVars, workerVars
    <2>3. CallerInv'
      BY <1>4, <2>1 DEF Push, TypeInv, CallerInv, Goto, mapVars, workerVars
    <2>4. ThreadInv'
      <3>1. \A w \in Threads : w > nThreads => queue'[w] = queue[w]
        BY <1>4, <2>1 DEF Push, TypeInv, Threads
      <3> QED  BY <1>4, <3>1 DEF Push, ThreadInv, mapVars, workerVars
    <2> QED  BY <2>2, <2>3, <2>4
  <1>5. CASE Notify(c)
    <2>1. TypeInv'
      BY <1>5 DEF Notify, TypeInv, Goto, mapVars, workerVars, NotifyWorker
    <2>2. CallerInv'
      BY <1>5 DEF Notify, TypeInv, CallerInv, Goto, mapVars, workerVars
    <2> QED  BY <1>5, <2>1, <2>2 DEF Notify, ThreadInv, mapVars, workerVars
  <1>6. CASE CheckCounter(c)
    <2>1. TypeInv'
      <3>1. CASE nActive < nOld[c]
        <4>1. /\ nOld' = [nOld EXCEPT ![c] = 0] /\ pc' = [pc EXCEPT ![c] = "idle"]
              /\ UNCHANGED <<task, st, made, threadOf, nThreads, queue, wpc, running,
                             nActive, asleep, enqueued, ran>>
          BY <1>6, <3>1 DEF CheckCounter, Goto, mapVars, workerVars
        <4>2. nOld' \in [Callers -> Int]  BY <4>1 DEF TypeInv
        <4> QED  BY <4>1, <4>2 DEF TypeInv
      <3>2. CASE ~(nActive < nOld[c])
        BY <1>6, <3>2 DEF CheckCounter, TypeInv, Goto, mapVars, workerVars
      <3> QED  BY <3>1, <3>2
    <2>2. CallerInv'
      BY <1>6 DEF CheckCounter, TypeInv, CallerInv, Goto, mapVars
    <2> QED  BY <1>6, <2>1, <2>2 DEF CheckCounter, ThreadInv, mapVars, workerVars
  <1>7. CASE WaitForOne(c)
    BY <1>7 DEF WaitForOne, TypeInv, CallerInv, ThreadInv, Goto, mapVars, workerVars
  <1> QED  BY <1>1, <1>2, <1>3, <1>4, <1>5, <1>6, <1>7 DEF CallerStep

LEMMA WorkerTyped ==
    ASSUME TypeInv, CallerInv, ThreadInv, NEW w \in Threads, WorkerStep(w)
    PROVE  TypeInv' /\ CallerInv' /\ ThreadInv'
  <1>1. CASE CheckQueue(w)
    <2>1. CASE queue[w] = <<>>
      BY <1>1, <2>1 DEF CheckQueue, TypeInv, CallerInv, ThreadInv, callerVars, mapVars, workerVars
    <2>2. CASE queue[w] # <<>>
      <3>1. Head(queue[w]) \in Tasks /\ Tail(queue[w]) \in Seq(Tasks)
        BY <2>2 DEF TypeInv
      <3>2. TypeInv'
        <4>1. queue' \in [Threads -> Seq(Tasks)]
          BY <1>1, <2>2, <3>1 DEF CheckQueue, TypeInv
        <4>2. running' \in [Threads -> Tasks \cup {Nobody}]
          BY <1>1, <2>2, <3>1 DEF CheckQueue, TypeInv
        <4>3. wpc' \in [Threads -> {"none", "check", "run", "complete", "announce"}]
          <5>1. wpc' = [wpc EXCEPT ![w] = "run"]
            BY <1>1, <2>2 DEF CheckQueue, GotoW
          <5> QED  BY <5>1 DEF TypeInv
        <4>4. asleep' = asleep /\ nActive' = nActive /\ enqueued' = enqueued /\ ran' = ran
          BY <1>1, <2>2 DEF CheckQueue
        <4>5. UNCHANGED <<callerVars, mapVars>>
          BY <1>1 DEF CheckQueue
        <4> QED  BY <4>1, <4>2, <4>3, <4>4, <4>5 DEF TypeInv, callerVars, mapVars
      <3>3. CallerInv'
        BY <1>1 DEF CheckQueue, CallerInv, callerVars, mapVars
      <3>4. wpc[w] = "check" /\ w <= nThreads /\ Head(queue[w]) # Nobody
        BY <1>1, <2>2, <3>1, NobodyIsNoTask, SchedulerAssumption
           DEF CheckQueue, ThreadInv, TypeInv, Threads
      <3>5. \A v \in Threads \ {w} :
              wpc'[v] = wpc[v] /\ running'[v] = running[v] /\ queue'[v] = queue[v]
        BY <1>1, <2>2 DEF CheckQueue, TypeInv, GotoW
      <3>6. wpc'[w] = "run" /\ running'[w] # Nobody
        BY <1>1, <2>2, <3>4 DEF CheckQueue, TypeInv, GotoW
      <3>7. UNCHANGED <<threadOf, nThreads>>
        BY <1>1 DEF CheckQueue, mapVars
      <3>8. ThreadInv'
        BY <3>4, <3>5, <3>6, <3>7 DEF ThreadInv
      <3> QED  BY <3>2, <3>3, <3>8
    <2> QED  BY <2>1, <2>2
  <1>2. CASE RunTask(w)
    <2>1. running[w] \in Tasks /\ running[w].on \in Streams /\ running[w].counted \in BOOLEAN
      BY <1>2, NobodyIsNoTask DEF RunTask, ThreadInv, TypeInv, Tasks
    <2>2. TypeInv'
      BY <1>2, <2>1 DEF RunTask, TypeInv, GotoW, AfterTask, callerVars, mapVars
    <2>3. CallerInv'
      BY <1>2 DEF RunTask, CallerInv, callerVars, mapVars
    <2>4. ThreadInv'
      BY <1>2, <2>1 DEF RunTask, TypeInv, ThreadInv, GotoW, AfterTask, mapVars
    <2> QED  BY <2>2, <2>3, <2>4
  <1>3. CASE NotifyCompletion(w)
    <2>1. TypeInv'
      <3>1. CASE wpc[w] = "complete"
        <4>1. /\ nActive' = nActive - 1 /\ wpc' = [wpc EXCEPT ![w] = "announce"]
              /\ running' = [running EXCEPT ![w] = Nobody]
              /\ UNCHANGED <<pc, task, st, nOld, made, threadOf, nThreads, queue,
                             asleep, enqueued, ran>>
          BY <1>3, <3>1 DEF NotifyCompletion, GotoW, callerVars, mapVars
        <4>2. nActive' \in Int  BY <4>1 DEF TypeInv
        <4> QED  BY <4>1, <4>2 DEF TypeInv
      <3>2. CASE wpc[w] = "announce"
        BY <1>3, <3>2 DEF NotifyCompletion, TypeInv, GotoW, NotifyCallers, callerVars, mapVars
      <3> QED  BY <1>3, <3>1, <3>2 DEF NotifyCompletion
    <2>2. CallerInv'
      BY <1>3 DEF NotifyCompletion, CallerInv, callerVars, mapVars
    <2>3. ThreadInv'
      <3>1. /\ \/ /\ wpc[w] = "complete" /\ wpc'[w] = "announce" /\ running'[w] = Nobody
               \/ /\ wpc[w] = "announce" /\ wpc'[w] = "check" /\ running' = running
            /\ \A v \in Threads \ {w} : wpc'[v] = wpc[v] /\ running'[v] = running[v]
            /\ UNCHANGED <<queue, threadOf, nThreads>>
        BY <1>3 DEF NotifyCompletion, TypeInv, GotoW, mapVars
      <3> QED  BY <3>1 DEF ThreadInv
    <2> QED  BY <2>1, <2>2, <2>3
  <1> QED  BY <1>1, <1>2, <1>3 DEF WorkerStep

LEMMA NextTyped ==
    ASSUME TypeInv, CallerInv, ThreadInv, [Next]_vars
    PROVE  TypeInv' /\ CallerInv' /\ ThreadInv'
  <1>1. ASSUME NEW x \in Callers \cup Threads, SpuriousWakeup(x)
        PROVE  TypeInv' /\ CallerInv' /\ ThreadInv'
    BY <1>1 DEF SpuriousWakeup, TypeInv, CallerInv, ThreadInv, callerVars, mapVars, workerVars
  <1>2. CASE UNCHANGED vars
    BY <1>2 DEF vars, TypeInv, CallerInv, ThreadInv, callerVars, mapVars, workerVars
  <1> QED  BY <1>1, <1>2, NewTaskTyped, CallerTyped, WorkerTyped DEF Next

-----------------------------------------------------------------------------
(* A worker or a caller sleeps on a condition that holds only while whoever *)
(* made it hold has still to notify it, whatever the interleaving of        *)
(* enqueue, thread_fn, wait_for_one and the two notifications.              *)

LEMMA NextKeepsWorkersAwake ==
    ASSUME TypeInv, CallerInv, ThreadInv, NoLostWakeup, [Next]_vars,
           NEW w \in Threads, w \in asleep', queue'[w] # <<>>
    PROVE  \E c \in Callers : pc'[c] = "notify" /\ st'[c] = w
  <1>1. ASSUME NEW c \in Callers, CallerStep(c)
        PROVE  \E d \in Callers : pc'[d] = "notify" /\ st'[d] = w
    <2>1. CASE Push(c)
      BY <1>1, <2>1 DEF Push, TypeInv, CallerInv, NoLostWakeup, Goto
    <2>2. CASE Notify(c)
      BY <1>1, <2>2 DEF Notify, NotifyWorker, TypeInv, NoLostWakeup, Goto
    <2>3. CASE NotifyNewTask(c)
      BY <1>1, <2>3 DEF NotifyNewTask, NotifyCallers, TypeInv, NoLostWakeup, Goto
    <2>4. CASE Lookup(c)
      BY <1>1, <2>4 DEF Lookup, TypeInv, NoLostWakeup, Goto
    <2>5. CASE Create(c)
      <3>1. /\ UNCHANGED <<queue, asleep>> /\ pc[c] = "create"
            /\ \A d \in Callers : d # c => pc'[d] = pc[d] /\ st'[d] = st[d]
        BY <2>5 DEF Create, Goto, TypeInv
      <3>2. PICK d \in Callers : pc[d] = "notify" /\ st[d] = w
        BY <3>1 DEF NoLostWakeup
      <3> QED  BY <3>1, <3>2
    <2>6. CASE CheckCounter(c)
      <3>1. w \in asleep
        BY <2>6, SchedulerAssumption DEF CheckCounter, Threads
      <3>2. pc[c] = "waiting" /\ queue' = queue /\ st' = st
        BY <2>6 DEF CheckCounter
      <3>3. \A d \in Callers : pc[d] = "notify" => pc'[d] = "notify"
        BY <2>6 DEF CheckCounter, TypeInv, Goto
      <3> QED  BY <3>1, <3>2, <3>3 DEF NoLostWakeup
    <2> QED  BY <1>1, <2>1, <2>2, <2>3, <2>4, <2>5, <2>6 DEF CallerStep
  <1>2. ASSUME NEW c \in Callers,
               WaitForOne(c) \/ \E s \in Streams, counted \in BOOLEAN : NewTask(c, s, counted)
        PROVE  \E d \in Callers : pc'[d] = "notify" /\ st'[d] = w
    <2>1. w \in asleep
      BY <1>2, SchedulerAssumption DEF WaitForOne, NewTask, Threads
    <2>2. pc[c] = "idle" /\ queue' = queue /\ st' = st
      BY <1>2 DEF WaitForOne, NewTask
    <2>3. \A d \in Callers : d # c => pc'[d] = pc[d]
      BY <1>2 DEF WaitForOne, NewTask, TypeInv, Goto
    <2> QED  BY <2>1, <2>2, <2>3 DEF NoLostWakeup
  <1>3. ASSUME NEW v \in Threads, WorkerStep(v)
        PROVE  \E d \in Callers : pc'[d] = "notify" /\ st'[d] = w
    <2>1. pc' = pc /\ st' = st
      BY <1>3 DEF WorkerStep, CheckQueue, RunTask, NotifyCompletion, callerVars
    <2>2. w \in asleep /\ queue[w] # <<>>
      <3>1. CASE CheckQueue(v)
        BY <3>1 DEF CheckQueue, TypeInv
      <3>2. CASE RunTask(v) \/ NotifyCompletion(v)
        BY <3>2 DEF RunTask, NotifyCompletion, NotifyCallers
      <3> QED  BY <1>3, <3>1, <3>2 DEF WorkerStep
    <2> QED  BY <2>1, <2>2 DEF NoLostWakeup
  <1>4. ASSUME NEW x \in Callers \cup Threads, SpuriousWakeup(x)
        PROVE  \E d \in Callers : pc'[d] = "notify" /\ st'[d] = w
    BY <1>4 DEF SpuriousWakeup, NoLostWakeup, callerVars
  <1>5. CASE UNCHANGED vars
    BY <1>5 DEF vars, callerVars, NoLostWakeup
  <1> QED  BY <1>1, <1>2, <1>3, <1>4, <1>5 DEF Next

(* Somebody is about to notify the callers that wait. *)
Announcing ==
    \/ \E v \in Threads : wpc[v] = "announce"
    \/ \E d \in Callers : pc[d] = "announce"

LEMMA NextKeepsCallersAwake ==
    ASSUME TypeInv, CallerInv, ThreadInv, NoLostWakeup, [Next]_vars,
           NEW c \in Callers, c \in asleep', nActive' < nOld'[c]
    PROVE  Announcing'
  <1> USE DEF TypeInv
  <1>1. ASSUME NEW d \in Callers, CallerStep(d)
        PROVE  Announcing'
    <2>1. CASE NotifyNewTask(d)
      <3>1. CASE pc[d] = "count"
        BY <1>1, <2>1, <3>1 DEF NotifyNewTask, Goto, Announcing
      <3>2. CASE pc[d] = "announce"
        BY <1>1, <2>1, <3>2 DEF NotifyNewTask, NotifyCallers
      <3> QED  BY <2>1, <3>1, <3>2 DEF NotifyNewTask
    <2>2. CASE CheckCounter(d)
      <3>1. c \in asleep /\ nActive < nOld[c]
        BY <1>1, <2>2 DEF CheckCounter
      <3>2. pc[d] = "waiting" /\ wpc' = wpc
        BY <2>2 DEF CheckCounter, workerVars
      <3>3. \A e \in Callers : e # d => pc'[e] = pc[e]
        BY <2>2 DEF CheckCounter, Goto
      <3> QED  BY <3>1, <3>2, <3>3 DEF NoLostWakeup, Announcing
    <2>3. CASE Create(d)
      <3>1. c \in asleep /\ nActive < nOld[c] /\ pc[d] = "create"
        BY <1>1, <2>3 DEF Create
      <3>2. \A e \in Callers : e # d => pc'[e] = pc[e]
        BY <2>3 DEF Create, Goto
      <3>3. \A v \in Threads : wpc[v] = "announce" => v <= nThreads
        BY SchedulerAssumption DEF ThreadInv, Threads
      <3>4. \A v \in Threads : v <= nThreads => wpc'[v] = wpc[v]
        <4>1. nThreads \in Int /\ Threads \subseteq Int
          BY SchedulerAssumption DEF Threads
        <4>2. wpc' = wpc \/ wpc' = [wpc EXCEPT ![nThreads + 1] = "check"]
          BY <2>3 DEF Create, GotoW
        <4> QED  BY <4>1, <4>2
      <3>5. Announcing
        BY <3>1 DEF NoLostWakeup, Announcing
      <3>6. \A v \in Threads : wpc[v] = "announce" => wpc'[v] = "announce"
        BY <3>3, <3>4
      <3>7. \A e \in Callers : pc[e] = "announce" => pc'[e] = "announce"
        BY <3>1, <3>2
      <3> QED  BY <3>5, <3>6, <3>7 DEF Announcing
    <2>4. CASE Lookup(d) \/ Push(d) \/ Notify(d)
      <3>1. c \in asleep /\ nActive < nOld[c] /\ wpc' = wpc /\ pc[d] # "announce"
        BY <1>1, <2>4 DEF Lookup, Push, Notify, NotifyWorker, workerVars
      <3>2. \A e \in Callers : e # d => pc'[e] = pc[e]
        BY <2>4 DEF Lookup, Push, Notify, Goto
      <3> QED  BY <3>1, <3>2 DEF NoLostWakeup, Announcing
    <2> QED  BY <1>1, <2>1, <2>2, <2>3, <2>4 DEF CallerStep
  <1>2. ASSUME NEW d \in Callers,
               WaitForOne(d) \/ \E s \in Streams, counted \in BOOLEAN : NewTask(d, s, counted)
        PROVE  Announcing'
    <2>1. c \in asleep /\ nActive < nOld[c]
      BY <1>2 DEF WaitForOne, NewTask
    <2>2. pc[d] = "idle" /\ wpc' = wpc
      BY <1>2 DEF WaitForOne, NewTask, workerVars
    <2>3. \A e \in Callers : e # d => pc'[e] = pc[e]
      BY <1>2 DEF WaitForOne, NewTask, Goto
    <2> QED  BY <2>1, <2>2, <2>3 DEF NoLostWakeup, Announcing
  <1>3. ASSUME NEW v \in Threads, WorkerStep(v)
        PROVE  Announcing'
    <2>1. CASE CheckQueue(v)
      <3>1. c \in asleep /\ nActive < nOld[c] /\ wpc[v] = "check" /\ pc' = pc
        BY <1>3, <2>1, SchedulerAssumption DEF CheckQueue, callerVars, Threads
      <3>2. \A u \in Threads : u # v => wpc'[u] = wpc[u]
        BY <2>1 DEF CheckQueue, GotoW, workerVars
      <3> QED  BY <3>1, <3>2 DEF NoLostWakeup, Announcing
    <2>2. CASE RunTask(v)
      <3>1. c \in asleep /\ nActive < nOld[c] /\ wpc[v] = "run" /\ pc' = pc
        BY <1>3, <2>2 DEF RunTask, callerVars
      <3>2. \A u \in Threads : u # v => wpc'[u] = wpc[u]
        BY <2>2 DEF RunTask, GotoW
      <3> QED  BY <3>1, <3>2 DEF NoLostWakeup, Announcing
    <2>3. CASE NotifyCompletion(v)
      <3>1. CASE wpc[v] = "complete"
        BY <2>3, <3>1 DEF NotifyCompletion, GotoW, Announcing
      <3>2. CASE wpc[v] = "announce"
        BY <1>3, <2>3, <3>2 DEF NotifyCompletion, NotifyCallers
      <3> QED  BY <2>3, <3>1, <3>2 DEF NotifyCompletion
    <2> QED  BY <1>3, <2>1, <2>2, <2>3 DEF WorkerStep
  <1>4. ASSUME NEW x \in Callers \cup Threads, SpuriousWakeup(x)
        PROVE  Announcing'
    BY <1>4 DEF SpuriousWakeup, NoLostWakeup, callerVars, workerVars, Announcing
  <1>5. CASE UNCHANGED vars
    BY <1>5 DEF vars, callerVars, workerVars, NoLostWakeup, Announcing
  <1> QED  BY <1>1, <1>2, <1>3, <1>4, <1>5 DEF Next

LEMMA TypeInvariant == Spec => [](TypeInv /\ CallerInv /\ ThreadInv)
  <1>1. TypeInv /\ CallerInv /\ ThreadInv /\ [Next]_vars
          => (TypeInv /\ CallerInv /\ ThreadInv)'
    BY NextTyped
  <1> QED  BY <1>1, InitTyped, PTL DEF Spec

(* No wakeup of the scheduler is lost: a worker (thread_fn) or a caller     *)
(* (wait_for_one) sleeps on a condition that holds only while whoever made  *)
(* it hold has still to notify it.                                          *)
THEOREM WakeupCorrect == Spec => []NoLostWakeup
  <1>1. Init => NoLostWakeup
    BY DEF Init, NoLostWakeup
  <1>2. TypeInv /\ CallerInv /\ ThreadInv /\ NoLostWakeup /\ [Next]_vars => NoLostWakeup'
    <2> SUFFICES ASSUME TypeInv, CallerInv, ThreadInv, NoLostWakeup, [Next]_vars
                 PROVE  NoLostWakeup'
      OBVIOUS
    <2>1. \A w \in Threads \cap asleep' :
            queue'[w] # <<>> => \E c \in Callers : pc'[c] = "notify" /\ st'[c] = w
      BY NextKeepsWorkersAwake
    <2>2. \A c \in Callers \cap asleep' : nActive' < nOld'[c] => Announcing'
      BY NextKeepsCallersAwake
    <2> QED  BY <2>1, <2>2 DEF NoLostWakeup, Announcing
  <1> QED  BY <1>1, <1>2, TypeInvariant, PTL DEF Spec

-----------------------------------------------------------------------------
(* Streams are FIFO queues.  A task is with the thread of its stream, and    *)
(* what has run, what is running and what waits are together what has been   *)
(* enqueued.                                                                 *)

OnInv ==
    \A w \in Threads :
        /\ \A i \in DOMAIN queue[w] : threadOf[queue[w][i].on] = w
        /\ running[w] # Nobody => threadOf[running[w].on] = w

Busy(w) == IF wpc[w] = "run" THEN 1 ELSE 0

(* The queue q is what follows the first n of e. *)
Follows(q, e, n) ==
    /\ Len(e) = n + Len(q)
    /\ \A i \in 1..Len(q) : q[i] = e[n + i]

StreamFifo(s) ==
    LET w == threadOf[s]
    IN  /\ w = 0 => enqueued[s] = <<>> /\ ran[s] = <<>>
        /\ w # 0 =>
             /\ Follows(queue[w], enqueued[s], Len(ran[s]) + Busy(w))
             /\ wpc[w] = "run" => enqueued[s][Len(ran[s]) + 1] = running[w]

FifoInv == OnInv /\ \A s \in Streams : StreamFifo(s)

SchedulerInv == TypeInv /\ CallerInv /\ ThreadInv /\ FifoInv

LEMMA ThreadOfTyped ==
    ASSUME TypeInv, NEW s \in Streams, threadOf[s] # 0
    PROVE  threadOf[s] \in Threads
  BY SchedulerAssumption DEF TypeInv, Threads

(* A step that leaves a stream and its thread alone.                        *)
LEMMA StreamFifoKept ==
    ASSUME NEW s \in Streams, StreamFifo(s), threadOf'[s] = threadOf[s],
           enqueued'[s] = enqueued[s], ran'[s] = ran[s],
           threadOf[s] # 0 => /\ queue'[threadOf[s]] = queue[threadOf[s]]
                              /\ wpc'[threadOf[s]] = wpc[threadOf[s]]
                              /\ running'[threadOf[s]] = running[threadOf[s]]
    PROVE  StreamFifo(s)'
  <1>1. CASE threadOf[s] = 0
    BY <1>1 DEF StreamFifo
  <1>2. CASE threadOf[s] # 0
    <2>1. Busy(threadOf[s])' = Busy(threadOf[s])
      BY <1>2 DEF Busy
    <2> QED  BY <1>2, <2>1 DEF StreamFifo, Busy
  <1> QED  BY <1>1, <1>2

(* It still is when both get a task, and when the first of it is taken.     *)
LEMMA PushedFacts ==
    ASSUME NEW S, NEW q \in Seq(S), NEW e \in Seq(S), NEW t \in S, NEW n \in Nat,
           Follows(q, e, n)
    PROVE  /\ Follows(Append(q, t), Append(e, t), n)
           /\ \A i \in 1..Len(e) : Append(e, t)[i] = e[i]
  <1> USE DEF Follows
  <1>1. Len(q) \in Nat /\ Len(e) \in Nat  OBVIOUS
  <1>2. /\ Len(Append(q, t)) = Len(q) + 1 /\ Len(Append(e, t)) = Len(e) + 1
        /\ Append(q, t)[Len(q) + 1] = t /\ Append(e, t)[Len(e) + 1] = t
        /\ \A i \in 1..Len(q) : Append(q, t)[i] = q[i]
        /\ \A i \in 1..Len(e) : Append(e, t)[i] = e[i]
    OBVIOUS
  <1>3. ASSUME NEW i \in 1..Len(Append(q, t))
        PROVE  Append(q, t)[i] = Append(e, t)[n + i]
    <2>1. CASE i = Len(q) + 1
      <3>1. n + i = Len(e) + 1  BY <1>1, <2>1
      <3> QED  BY <1>2, <2>1, <3>1
    <2>2. CASE i # Len(q) + 1
      <3>1. i \in 1..Len(q) /\ n + i \in 1..Len(e)  BY <1>1, <1>2, <2>2
      <3> QED  BY <1>2, <3>1
    <2> QED  BY <2>1, <2>2
  <1>4. Len(Append(e, t)) = n + Len(Append(q, t))  BY <1>1, <1>2
  <1> QED  BY <1>2, <1>3, <1>4

LEMMA TakenFacts ==
    ASSUME NEW S, NEW q \in Seq(S), NEW e \in Seq(S), NEW n \in Nat, q # <<>>,
           Follows(q, e, n)
    PROVE  Follows(Tail(q), e, n + 1) /\ Head(q) = e[n + 1]
  <1> USE DEF Follows
  <1>1. /\ Len(q) \in Nat /\ Len(q) >= 1 /\ Len(Tail(q)) = Len(q) - 1
        /\ Head(q) = q[1] /\ \A i \in 1..Len(Tail(q)) : Tail(q)[i] = q[i + 1]
    OBVIOUS
  <1>2. Head(q) = e[n + 1] /\ Len(e) = n + 1 + Len(Tail(q))  BY <1>1
  <1>3. ASSUME NEW i \in 1..Len(Tail(q))
        PROVE  Tail(q)[i] = e[n + 1 + i]
    <2>1. i + 1 \in 1..Len(q) /\ n + (i + 1) = n + 1 + i  BY <1>1
    <2> QED  BY <1>1, <2>1
  <1> QED  BY <1>2, <1>3

LEMMA CreateKeepsFifo ==
    ASSUME SchedulerInv, NEW c \in Callers, Create(c)
    PROVE  FifoInv'
  <1> USE DEF SchedulerInv
  <1>1. task[c].on \in Streams
    BY DEF Create, CallerInv, Tasks
  <1>2. CASE StillAbsent(task[c].on)
    <2>1. /\ nThreads < MaxThreads
          /\ threadOf' = [threadOf EXCEPT ![task[c].on] = nThreads + 1]
          /\ wpc' = [wpc EXCEPT ![nThreads + 1] = "check"]
          /\ UNCHANGED <<queue, running, enqueued, ran>>
      BY <1>2 DEF Create, GotoW
    <2>2. nThreads + 1 \in Threads /\ nThreads + 1 # 0
      BY <2>1, SchedulerAssumption DEF TypeInv, Threads
    <2>3. wpc[nThreads + 1] = "none" /\ queue[nThreads + 1] = <<>> /\ running[nThreads + 1] = Nobody
      <3>1. nThreads \in Int /\ nThreads + 1 > nThreads
        BY SchedulerAssumption DEF TypeInv
      <3>2. wpc[nThreads + 1] = "none" /\ queue[nThreads + 1] = <<>>
        BY <2>2, <3>1 DEF ThreadInv
      <3> QED  BY <2>2, <3>2 DEF ThreadInv
    <2>4. threadOf[task[c].on] = 0  BY <1>2 DEF StillAbsent
    <2>5. \A t \in Tasks : threadOf[t.on] \in Threads => threadOf'[t.on] = threadOf[t.on]
      BY <2>1, <2>4, SMTT(30) DEF TypeInv, Threads, Tasks
    <2>6. OnInv'
      <3> SUFFICES ASSUME NEW w \in Threads
                   PROVE  /\ \A i \in DOMAIN queue[w] : threadOf'[queue[w][i].on] = w
                          /\ running[w] # Nobody => threadOf'[running[w].on] = w
        BY <2>1 DEF OnInv
      <3>1. \A i \in DOMAIN queue[w] : queue[w][i] \in Tasks
        BY DEF TypeInv
      <3>2. running[w] # Nobody => running[w] \in Tasks
        BY DEF TypeInv
      <3> QED  BY <3>1, <3>2, <2>5 DEF FifoInv, OnInv
    <2>7. ASSUME NEW s \in Streams PROVE StreamFifo(s)'
      <3>1. CASE s = task[c].on
        <4>1. enqueued[s] = <<>> /\ ran[s] = <<>>
          BY <3>1, <2>4 DEF FifoInv, StreamFifo
        <4>2. threadOf'[s] = nThreads + 1 /\ wpc'[nThreads + 1] = "check"
          BY <3>1, <2>1, <2>2, <1>1 DEF TypeInv
        <4> QED  BY <4>1, <4>2, <2>1, <2>2, <2>3 DEF StreamFifo, Follows, Busy
      <3>2. CASE s # task[c].on
        <4>1. threadOf'[s] = threadOf[s] /\ threadOf[s] # nThreads + 1
          BY <3>2, <2>1, SchedulerAssumption DEF TypeInv
        <4>2. threadOf[s] # 0 => wpc'[threadOf[s]] = wpc[threadOf[s]]
          BY <4>1, <2>1, ThreadOfTyped DEF TypeInv
        <4> QED  BY <4>1, <4>2, <2>1, StreamFifoKept DEF FifoInv
      <3> QED  BY <3>1, <3>2
    <2> QED  BY <2>6, <2>7 DEF FifoInv
  <1>3. CASE ~StillAbsent(task[c].on)
    <2>1. UNCHANGED <<threadOf, wpc, queue, running, enqueued, ran>>
      BY <1>3 DEF Create, mapVars
    <2> QED  BY <2>1 DEF FifoInv, OnInv, StreamFifo, Busy
  <1> QED  BY <1>2, <1>3

LEMMA PushIsEnqueue ==
    ASSUME SchedulerInv, NEW c \in Callers, Push(c)
    PROVE  FifoInv' /\ Abstract!Enqueue(task[c].on, task[c])
  <1> USE DEF SchedulerInv
  <1> DEFINE r == task[c].on  w == threadOf[r]
  <1>1. task[c] \in Tasks /\ r \in Streams
    BY DEF Push, CallerInv, Tasks
  <1>2. w \in Threads /\ w # 0 /\ st[c] = w
    BY SchedulerAssumption DEF Push, CallerInv, TypeInv, Threads
  <1>3. /\ queue' = [queue EXCEPT ![w] = Append(queue[w], task[c])]
        /\ enqueued' = [enqueued EXCEPT ![r] = Append(enqueued[r], task[c])]
        /\ UNCHANGED <<threadOf, wpc, running, ran>>
    BY <1>2 DEF Push, mapVars, workerVars
  <1>4. OnInv'
    <2> SUFFICES ASSUME NEW v \in Threads, NEW i \in DOMAIN queue'[v]
                 PROVE  threadOf[queue'[v][i].on] = v
      BY <1>3 DEF FifoInv, OnInv
    <2>1. CASE v = w
      <3>1. queue'[w] = Append(queue[w], task[c]) /\ queue[w] \in Seq(Tasks)
        BY <1>2, <1>3 DEF TypeInv
      <3>2. CASE i = Len(queue[w]) + 1
        <4> HIDE DEF w, r
        <4>1. queue'[w][i] = task[c]
          BY <1>1, <3>1, <3>2
        <4> USE DEF w, r
        <4> QED  BY <2>1, <4>1
      <3>3. CASE i # Len(queue[w]) + 1
        <4> HIDE DEF w, r
        <4>1. i \in DOMAIN queue[w] /\ queue'[w][i] = queue[w][i]
          BY <1>1, <2>1, <3>1, <3>3
        <4> USE DEF w, r
        <4> QED  BY <2>1, <4>1, <1>2 DEF FifoInv, OnInv
      <3> QED  BY <3>2, <3>3
    <2>2. CASE v # w
      BY <2>2, <1>3 DEF FifoInv, OnInv, TypeInv
    <2> QED  BY <2>1, <2>2
  <1>5. ASSUME NEW s \in Streams PROVE StreamFifo(s)'
    <2>1. CASE s = r
      <3> DEFINE n == Len(ran[r]) + Busy(w)
      <3>1. /\ queue[w] \in Seq(Tasks) /\ enqueued[r] \in Seq(Tasks) /\ ran[r] \in Seq(Tasks)
            /\ Follows(queue[w], enqueued[r], n)
            /\ wpc[w] = "run" => enqueued[r][Len(ran[r]) + 1] = running[w]
        BY <1>1, <1>2 DEF FifoInv, StreamFifo, TypeInv
      <3>2. queue'[w] = Append(queue[w], task[c]) /\ enqueued'[r] = Append(enqueued[r], task[c])
        BY <1>1, <1>2, <1>3 DEF TypeInv
      <3>3. Busy(w) \in Nat /\ (wpc[w] = "run" => Busy(w) = 1)  BY DEF Busy
      <3>4. /\ n \in Nat /\ Len(ran[r]) \in Nat /\ Len(queue[w]) \in Nat
            /\ wpc[w] = "run" => n = Len(ran[r]) + 1
        BY <3>1, <3>3
      <3> HIDE DEF n, w, r
      <3>5. /\ Follows(queue'[w], enqueued'[r], n)
            /\ \A i \in 1..Len(enqueued[r]) : enqueued'[r][i] = enqueued[r][i]
        <4>1. /\ Follows(Append(queue[w], task[c]), Append(enqueued[r], task[c]), n)
              /\ \A i \in 1..Len(enqueued[r]) : Append(enqueued[r], task[c])[i] = enqueued[r][i]
          BY <1>1, <3>1, <3>4, PushedFacts
        <4> QED  BY <3>2, <4>1
      <3>6. wpc[w] = "run" => enqueued'[r][Len(ran[r]) + 1] = running[w]
        <4>1. wpc[w] = "run" => Len(ran[r]) + 1 \in 1..Len(enqueued[r])
          BY <3>1, <3>4 DEF Follows
        <4> QED  BY <3>1, <3>5, <4>1
      <3> USE DEF n, w, r
      <3>7. /\ threadOf'[s] = w /\ w # 0 /\ ran'[r] = ran[r]
            /\ wpc'[w] = wpc[w] /\ running'[w] = running[w]
        <4>1. threadOf' = threadOf /\ ran' = ran /\ wpc' = wpc /\ running' = running
          BY <1>3
        <4>2. threadOf'[s] = w
          BY <2>1, <4>1
        <4> HIDE DEF w, r
        <4> QED  BY <1>2, <4>1, <4>2
      <3> QED  BY <2>1, <3>5, <3>6, <3>7, ZenonT(30) DEF StreamFifo, Busy, Follows
    <2>2. CASE s # r
      <3>1. threadOf[s] # 0 => threadOf[s] # w  BY <1>1, <2>2 DEF ThreadInv
      <3>2. enqueued'[s] = enqueued[s]  BY <1>3, <2>2 DEF TypeInv
      <3>3. threadOf[s] # 0 => queue'[threadOf[s]] = queue[threadOf[s]]
        BY <1>3, <3>1, ThreadOfTyped DEF TypeInv
      <3> QED  BY <1>3, <3>2, <3>3, StreamFifoKept DEF FifoInv
    <2> QED  BY <2>1, <2>2
  <1>6. Abstract!Enqueue(task[c].on, task[c])
    BY <1>3 DEF Abstract!Enqueue
  <1> QED  BY <1>4, <1>5, <1>6 DEF FifoInv

LEMMA TakeKeepsFifo ==
    ASSUME SchedulerInv, NEW w \in Threads, CheckQueue(w)
    PROVE  FifoInv'
  <1> USE DEF SchedulerInv
  <1>1. CASE queue[w] = <<>>
    <2>1. UNCHANGED <<threadOf, wpc, queue, running, enqueued, ran>>
      BY <1>1 DEF CheckQueue, mapVars, workerVars
    <2> QED  BY <2>1 DEF FifoInv, OnInv, StreamFifo, Busy
  <1>2. CASE queue[w] # <<>>
    <2>1. /\ running' = [running EXCEPT ![w] = Head(queue[w])]
          /\ queue' = [queue EXCEPT ![w] = Tail(queue[w])]
          /\ wpc[w] = "check" /\ wpc' = [wpc EXCEPT ![w] = "run"]
          /\ UNCHANGED <<threadOf, enqueued, ran>>
      BY <1>2 DEF CheckQueue, GotoW, mapVars
    <2>2. /\ queue[w] \in Seq(Tasks) /\ w # 0
          /\ queue'[w] = Tail(queue[w]) /\ wpc'[w] = "run" /\ running'[w] = Head(queue[w])
      BY <2>1, SchedulerAssumption DEF TypeInv, Threads
    <2>3. OnInv'
      <3> SUFFICES ASSUME NEW v \in Threads
                   PROVE  /\ \A i \in DOMAIN queue'[v] : threadOf[queue'[v][i].on] = v
                          /\ running'[v] # Nobody => threadOf[running'[v].on] = v
        BY <2>1 DEF OnInv
      <3>1. CASE v = w
        <4>1. /\ Head(queue[w]) = queue[w][1] /\ 1 \in DOMAIN queue[w]
              /\ \A i \in DOMAIN Tail(queue[w]) :
                     i + 1 \in DOMAIN queue[w] /\ Tail(queue[w])[i] = queue[w][i + 1]
          BY <1>2, <2>2
        <4> QED  BY <3>1, <4>1, <2>2 DEF FifoInv, OnInv
      <3>2. CASE v # w
        BY <3>2, <2>1 DEF FifoInv, OnInv, TypeInv
      <3> QED  BY <3>1, <3>2
    <2>4. ASSUME NEW s \in Streams PROVE StreamFifo(s)'
      <3>1. CASE threadOf[s] = w
        <4>1. /\ Follows(queue[w], enqueued[s], Len(ran[s]))
              /\ enqueued[s] \in Seq(Tasks) /\ Len(ran[s]) \in Nat
          <5>1. /\ Follows(queue[w], enqueued[s], Len(ran[s]) + Busy(w)) /\ Busy(w) = 0
                /\ enqueued[s] \in Seq(Tasks) /\ ran[s] \in Seq(Tasks)
            BY <3>1, <2>1, <2>2 DEF FifoInv, StreamFifo, Busy, TypeInv
          <5>2. Len(ran[s]) \in Nat /\ Len(ran[s]) + Busy(w) = Len(ran[s])  BY <5>1
          <5> QED  BY <5>1, <5>2
        <4>2. /\ Follows(Tail(queue[w]), enqueued[s], Len(ran[s]) + 1)
              /\ Head(queue[w]) = enqueued[s][Len(ran[s]) + 1]
          BY <1>2, <2>2, <4>1, TakenFacts
        <4>3. Busy(w)' = 1  BY <2>2 DEF Busy
        <4>4. Follows(queue'[w], enqueued'[s], Len(ran'[s]) + Busy(w)')
          BY <2>1, <2>2, <4>2, <4>3
        <4>5. threadOf'[s] = w /\ running'[w] = enqueued'[s][Len(ran'[s]) + 1]
          BY <2>1, <2>2, <3>1, <4>2
        <4> QED  BY <2>2, <4>4, <4>5 DEF StreamFifo, Busy, Follows
      <3>2. CASE threadOf[s] # w
        <4>1. threadOf[s] # 0 =>
                 /\ queue'[threadOf[s]] = queue[threadOf[s]]
                 /\ wpc'[threadOf[s]] = wpc[threadOf[s]]
                 /\ running'[threadOf[s]] = running[threadOf[s]]
          BY <2>1, <3>2, ThreadOfTyped DEF TypeInv
        <4> QED  BY <2>1, <4>1, StreamFifoKept DEF FifoInv
      <3> QED  BY <3>1, <3>2
    <2> QED  BY <2>3, <2>4 DEF FifoInv
  <1> QED  BY <1>1, <1>2

LEMMA RunIsRunNext ==
    ASSUME SchedulerInv, NEW w \in Threads, RunTask(w)
    PROVE  FifoInv' /\ running[w].on \in Streams /\ Abstract!RunNext(running[w].on)
  <1> USE DEF SchedulerInv
  <1> DEFINE r == running[w].on
  <1>1. /\ wpc[w] = "run" /\ w # 0 /\ running[w] # Nobody /\ running[w] \in Tasks
        /\ r \in Streams /\ threadOf[r] = w
    <2>1. wpc[w] = "run" /\ w # 0  BY SchedulerAssumption DEF RunTask, Threads
    <2>2. running[w] # Nobody  BY <2>1 DEF ThreadInv
    <2>3. running[w] \in Tasks  BY <2>2 DEF TypeInv
    <2> QED  BY <2>1, <2>2, <2>3 DEF FifoInv, OnInv, Tasks
  <1>2. /\ ran' = [ran EXCEPT ![r] = Append(ran[r], running[w])]
        /\ UNCHANGED <<threadOf, queue, enqueued>>
        /\ \A v \in Threads : v # w => wpc'[v] = wpc[v] /\ running'[v] = running[v]
        /\ wpc'[w] # "run" /\ running'[w] \in {running[w], Nobody}
    <2>1. /\ wpc' = [wpc EXCEPT ![w] = AfterTask(running[w])]
          /\ running' = [running EXCEPT ![w] =
                             IF AfterTask(running[w]) = "complete" THEN running[w] ELSE Nobody]
      BY DEF RunTask, GotoW
    <2>2. AfterTask(running[w]) # "run"  BY DEF AfterTask
    <2> QED  BY <1>1, <2>1, <2>2 DEF RunTask, TypeInv, mapVars
  <1>3. /\ Follows(queue[w], enqueued[r], Len(ran[r]) + 1)
        /\ enqueued[r][Len(ran[r]) + 1] = running[w]
        /\ ran[r] \in Seq(Tasks) /\ enqueued[r] \in Seq(Tasks) /\ queue[w] \in Seq(Tasks)
    BY <1>1 DEF FifoInv, StreamFifo, Busy, TypeInv
  <1>4. OnInv'
    BY <1>1, <1>2 DEF FifoInv, OnInv
  <1>5. ASSUME NEW s \in Streams PROVE StreamFifo(s)'
    <2>1. CASE s = r
      <3>1. /\ ran'[r] = Append(ran[r], running[w]) /\ Len(ran'[r]) = Len(ran[r]) + 1
            /\ Len(ran[r]) \in Nat
        BY <1>1, <1>2, <1>3 DEF TypeInv
      <3>2. Len(ran'[r]) + 0 = Len(ran[r]) + 1  BY <3>1
      <3>3. threadOf'[s] = w /\ w # 0 /\ wpc'[w] # "run" /\ Len(ran'[s]) + 0 = Len(ran[r]) + 1
        BY <1>1, <1>2, <2>1, <3>2
      <3>4. Follows(queue'[w], enqueued'[s], Len(ran'[s]) + 0)
        BY <1>2, <1>3, <2>1, <3>3
      <3> QED  BY <3>3, <3>4 DEF StreamFifo, Busy, Follows
    <2>2. CASE s # r
      <3>1. threadOf[s] # 0 => threadOf[s] # w  BY <1>1, <2>2 DEF ThreadInv
      <3>2. ran'[s] = ran[s]  BY <1>2, <2>2 DEF TypeInv
      <3> QED  BY <1>2, <3>1, <3>2, ThreadOfTyped, StreamFifoKept DEF FifoInv
    <2> QED  BY <2>1, <2>2
  <1>6. Abstract!RunNext(r)
    <2>1. Len(ran[r]) < Len(enqueued[r])
      <3> DEFINE m == Len(ran[r])  n == Len(queue[w])
      <3>1. m \in Nat /\ n \in Nat /\ Len(enqueued[r]) = m + 1 + n
        BY <1>3 DEF Follows
      <3> HIDE DEF m, n
      <3>2. m < m + 1 + n  BY <3>1
      <3> QED  BY <3>1, <3>2 DEF m
    <2> QED  BY <1>2, <1>3, <2>1 DEF Abstract!RunNext
  <1> QED  BY <1>1, <1>4, <1>5, <1>6 DEF FifoInv

(* A step that takes no task and runs none.                                 *)
LEMMA OthersKeepFifo ==
    ASSUME SchedulerInv, UNCHANGED <<threadOf, queue, enqueued, ran>>,
           \A w \in Threads : /\ wpc'[w] = "run" <=> wpc[w] = "run"
                              /\ running'[w] \in {running[w], Nobody}
                              /\ wpc[w] = "run" => running'[w] = running[w]
    PROVE  FifoInv' /\ UNCHANGED <<enqueued, ran>>
  <1> USE DEF SchedulerInv
  <1>1. OnInv'  BY DEF FifoInv, OnInv
  <1>2. ASSUME NEW s \in Streams PROVE StreamFifo(s)'
    <2>1. CASE threadOf[s] = 0
      BY <2>1 DEF FifoInv, StreamFifo
    <2>2. CASE threadOf[s] # 0
      <3>1. Busy(threadOf[s])' = Busy(threadOf[s])
        BY <2>2, ThreadOfTyped DEF Busy
      <3>2. wpc'[threadOf[s]] = "run" =>
               wpc[threadOf[s]] = "run" /\ running'[threadOf[s]] = running[threadOf[s]]
        BY <2>2, ThreadOfTyped
      <3> QED  BY <2>2, <3>1, <3>2 DEF FifoInv, StreamFifo, Follows
    <2> QED  BY <2>1, <2>2
  <1> QED  BY <1>1, <1>2 DEF FifoInv

LEMMA NextQueues ==
    ASSUME SchedulerInv, [Next]_vars
    PROVE  FifoInv' /\ [Abstract!Next]_<<enqueued, ran>>
  <1> DEFINE Quiet ==
        /\ UNCHANGED <<threadOf, queue, enqueued, ran>>
        /\ \A w \in Threads : /\ wpc'[w] = "run" <=> wpc[w] = "run"
                              /\ running'[w] \in {running[w], Nobody}
                              /\ wpc[w] = "run" => running'[w] = running[w]
  <1>1. Quiet => FifoInv' /\ [Abstract!Next]_<<enqueued, ran>>
    BY OthersKeepFifo
  <1>2. ASSUME NEW c \in Callers,
               \/ CallerStep(c) \/ WaitForOne(c)
               \/ \E s \in Streams, counted \in BOOLEAN : NewTask(c, s, counted)
        PROVE  FifoInv' /\ [Abstract!Next]_<<enqueued, ran>>
    <2>1. CASE Create(c)
      <3>1. UNCHANGED <<enqueued, ran>>  BY <2>1 DEF Create
      <3> QED  BY <2>1, <3>1, CreateKeepsFifo
    <2>2. CASE Push(c)
      <3>1. task[c] \in Tasks /\ task[c].on \in Streams
        BY <2>2 DEF SchedulerInv, Push, CallerInv, Tasks
      <3> QED  BY <2>2, <3>1, PushIsEnqueue DEF Abstract!Next
    <2>3. CASE \/ NotifyNewTask(c) \/ Lookup(c) \/ Notify(c) \/ CheckCounter(c)
              \/ WaitForOne(c)
              \/ \E s \in Streams, counted \in BOOLEAN : NewTask(c, s, counted)
      <3>1. Quiet
        BY <2>3 DEF NotifyNewTask, Lookup, Notify, CheckCounter, WaitForOne, NewTask,
                    mapVars, workerVars
      <3> QED  BY <1>1, <3>1
    <2> QED  BY <1>2, <2>1, <2>2, <2>3 DEF CallerStep
  <1>3. ASSUME NEW w \in Threads, WorkerStep(w)
        PROVE  FifoInv' /\ [Abstract!Next]_<<enqueued, ran>>
    <2>1. CASE CheckQueue(w)
      <3>1. UNCHANGED <<enqueued, ran>>  BY <2>1 DEF CheckQueue
      <3> QED  BY <2>1, <3>1, TakeKeepsFifo
    <2>2. CASE RunTask(w)
      BY <2>2, RunIsRunNext DEF Abstract!Next
    <2>3. CASE NotifyCompletion(w)
      <3>1. Quiet
        BY <2>3 DEF NotifyCompletion, SchedulerInv, TypeInv, GotoW, mapVars
      <3> QED  BY <1>1, <3>1
    <2> QED  BY <1>3, <2>1, <2>2, <2>3 DEF WorkerStep
  <1>4. ASSUME NEW x \in Callers \cup Threads, SpuriousWakeup(x)
        PROVE  FifoInv' /\ [Abstract!Next]_<<enqueued, ran>>
    <2>1. Quiet  BY <1>4 DEF SpuriousWakeup, mapVars, workerVars
    <2> QED  BY <1>1, <2>1
  <1>5. CASE UNCHANGED vars
    <2>1. Quiet  BY <1>5 DEF vars, mapVars, workerVars
    <2> QED  BY <1>1, <2>1
  <1> QED  BY <1>2, <1>3, <1>4, <1>5 DEF Next

(* However many callers race to create the thread of a stream, every stream *)
(* is one FIFO queue: a task is run after all those enqueued on its stream  *)
(* before it, and once.  The safety part of ImplementsQueues, whose other   *)
(* part is fairness.                                                        *)
THEOREM StreamsAreQueues ==
    Spec => Abstract!Init /\ [][Abstract!Next]_<<enqueued, ran>>
  <1>1. Init => Abstract!Init
    BY DEF Init, Abstract!Init
  <1>2. Init => FifoInv
    BY DEF Init, FifoInv, OnInv, StreamFifo
  <1>3. TypeInv /\ CallerInv /\ ThreadInv /\ FifoInv /\ [Next]_vars => FifoInv'
    BY NextQueues DEF SchedulerInv
  <1>4. TypeInv /\ CallerInv /\ ThreadInv /\ FifoInv /\ [Next]_vars =>
            [Abstract!Next]_<<enqueued, ran>>
    BY NextQueues DEF SchedulerInv
  <1> QED  BY <1>1, <1>2, <1>3, <1>4, TypeInvariant, PTL DEF Spec

-----------------------------------------------------------------------------
(* The counter of active tasks *)

Holds(c) == pc[c] \in {"announce", "lookup", "create", "push"}
InQueue(t) == \E w \in Threads : t \in Elements(queue[w])
OnWorker(t) == \E w \in Threads : running[w] = t

(* The set that ActiveExact counts, by membership. *)
CountedTasks ==
    {t \in Tasks : /\ t.counted
                   /\ (\E c \in Callers : Holds(c) /\ task[c] = t) \/ InQueue(t) \/ OnWorker(t)}

(* A task is in one place only: with its caller, in a queue, or with a      *)
(* worker.  (That it is with one thread only is OnInv.)                     *)
UniqueInv ==
    /\ \A c \in Callers :
         /\ Holds(c) \/ pc[c] = "count" => ~InQueue(task[c]) /\ ~OnWorker(task[c])
         /\ pc[c] = "count" => task[c].counted
    /\ \A t \in Tasks : InQueue(t) \/ OnWorker(t) => t.no <= made[t.by]
    /\ \A w \in Threads :
         /\ \A i, j \in DOMAIN queue[w] : queue[w][i] = queue[w][j] => i = j
         /\ running[w] \notin Elements(queue[w])

CountInv == IsFiniteSet(CountedTasks) /\ nActive = Cardinality(CountedTasks)

CountingInv == SchedulerInv /\ UniqueInv /\ CountInv

LEMMA CountedIsInHands ==
    ASSUME SchedulerInv
    PROVE  {t \in InHands \ {Nobody} : t.counted} = CountedTasks
  <1> USE DEF SchedulerInv
  <1>1. \A c \in Callers : Holds(c) => task[c] \in Tasks
    BY DEF CallerInv, Holds
  <1>2. \A w \in Threads : Elements(queue[w]) \subseteq Tasks
    BY DEF TypeInv, Elements
  <1>3. \A w \in Threads : running[w] # Nobody => running[w] \in Tasks
    BY DEF TypeInv
  <1>4. \A t : t \in InHands <=> \/ \E c \in Callers : Holds(c) /\ task[c] = t
                                 \/ InQueue(t) \/ OnWorker(t)
    <2> DEFINE A == {task[c] : c \in {d \in Callers : Holds(d)}}
               B == UNION {Elements(queue[w]) : w \in Threads}
               C == {running[w] : w \in Threads}
    <2>1. \A t : t \in A <=> \E c \in Callers : Holds(c) /\ task[c] = t
      OBVIOUS
    <2>2. \A t : t \in B <=> InQueue(t)
      BY DEF InQueue
    <2>3. \A t : t \in C <=> OnWorker(t)
      BY DEF OnWorker
    <2>4. InHands = A \cup B \cup C
      BY DEF InHands, Holds
    <2> HIDE DEF A, B, C
    <2> QED  BY <2>1, <2>2, <2>3, <2>4
  <1>5. \A t \in Tasks : t # Nobody
    BY NobodyIsNoTask
  <1> QED  BY <1>1, <1>2, <1>3, <1>4, <1>5 DEF CountedTasks, InQueue, OnWorker

(* The ways in which the set and the counter change together. *)
LEMMA CountSame ==
    ASSUME CountInv, CountedTasks' = CountedTasks, nActive' = nActive
    PROVE  CountInv'
  BY DEF CountInv

LEMMA CountAdded ==
    ASSUME CountInv, NEW t, t \notin CountedTasks, CountedTasks' = CountedTasks \cup {t},
           nActive' = nActive + 1
    PROVE  CountInv'
  BY FS_AddElement DEF CountInv

LEMMA CountRemoved ==
    ASSUME CountInv, NEW t, t \in CountedTasks, CountedTasks' = CountedTasks \ {t},
           nActive' = nActive - 1
    PROVE  CountInv'
  BY FS_RemoveElement DEF CountInv

-----------------------------------------------------------------------------
(* Steps of a caller that leave the queues and the workers alone *)

LEMMA HandsUnique ==
    ASSUME CountingInv, NEW c \in Callers, UNCHANGED <<queue, running>>,
           \A d \in Callers : d # c => pc'[d] = pc[d] /\ task'[d] = task[d],
           \A d \in Callers : made'[d] \in Int /\ made'[d] >= made[d],
           Holds(c)' \/ pc'[c] = "count" =>
              \/ task'[c] = task[c] /\ (Holds(c) \/ pc[c] = "count")
              \/ task'[c] \in Tasks /\ task'[c].by = c /\ task'[c].no = made[c] + 1,
           pc'[c] = "count" => task'[c].counted
    PROVE  UniqueInv'
  <1>1. \A t : (InQueue(t)' <=> InQueue(t)) /\ (OnWorker(t)' <=> OnWorker(t))
    BY DEF InQueue, OnWorker, Elements
  <1>2. \A d \in Callers : made[d] \in Int
    BY DEF CountingInv, SchedulerInv, TypeInv
  <1>3. ASSUME NEW d \in Callers, Holds(d)' \/ pc'[d] = "count"
        PROVE  ~InQueue(task'[d]) /\ ~OnWorker(task'[d])
    <2>1. CASE task'[d] = task[d] /\ (Holds(d) \/ pc[d] = "count")
      BY <2>1 DEF CountingInv, UniqueInv
    <2>2. CASE d = c /\ task'[c] \in Tasks /\ task'[c].by = c /\ task'[c].no = made[c] + 1
      <3>1. ~(task'[c].no <= made[task'[c].by])  BY <1>2, <2>2
      <3> QED  BY <2>2, <3>1 DEF CountingInv, UniqueInv
    <2>3. d # c => Holds(d) \/ pc[d] = "count"
      BY <1>3 DEF Holds
    <2> QED  BY <1>3, <2>1, <2>2, <2>3
  <1>4. \A d \in Callers : Holds(d)' \/ pc'[d] = "count" =>
            ~InQueue(task[d])' /\ ~OnWorker(task[d])'
    BY <1>3 DEF InQueue, OnWorker, Elements
  <1>5. \A d \in Callers : pc'[d] = "count" => task'[d].counted
    BY DEF CountingInv, UniqueInv
  <1>6. ASSUME NEW t \in Tasks, InQueue(t)' \/ OnWorker(t)'
        PROVE  t.no <= made'[t.by]
    <2>1. t.no <= made[t.by]  BY <1>1, <1>6 DEF CountingInv, UniqueInv
    <2>2. t.by \in Callers /\ t.no \in Int  BY SchedulerAssumption DEF Tasks
    <2> QED  BY <1>2, <2>1, <2>2
  <1>7. \A w \in Threads :
            /\ \A i, j \in DOMAIN queue'[w] : queue'[w][i] = queue'[w][j] => i = j
            /\ running'[w] \notin Elements(queue'[w])
    BY DEF CountingInv, UniqueInv
  <1> QED  BY <1>4, <1>5, <1>6, <1>7 DEF UniqueInv

LEMMA HandsSame ==
    ASSUME NEW c \in Callers, UNCHANGED <<queue, running>>,
           \A d \in Callers : d # c => pc'[d] = pc[d] /\ task'[d] = task[d],
           Holds(c)' /\ task'[c].counted <=> Holds(c) /\ task[c].counted,
           Holds(c)' /\ task'[c].counted => task'[c] = task[c]
    PROVE  CountedTasks' = CountedTasks
  <1>1. \A t : (InQueue(t)' <=> InQueue(t)) /\ (OnWorker(t)' <=> OnWorker(t))
    BY DEF InQueue, OnWorker, Elements
  <1>2. \A d \in Callers : d # c => (Holds(d)' <=> Holds(d))
    BY DEF Holds
  <1>3. \A t : t.counted => ((\E d \in Callers : Holds(d)' /\ task'[d] = t)
                             <=> (\E d \in Callers : Holds(d) /\ task[d] = t))
    BY <1>2
  <1> QED  BY <1>1, <1>3 DEF CountedTasks

LEMMA CallerCounts ==
    ASSUME CountingInv, NEW c \in Callers,
           \/ NotifyNewTask(c) \/ Lookup(c) \/ Create(c) \/ Notify(c) \/ CheckCounter(c)
           \/ WaitForOne(c)
    PROVE  UniqueInv' /\ CountInv'
  <1> USE DEF CountingInv, SchedulerInv
  <1>1. /\ UNCHANGED <<queue, running, made>>
        /\ \A d \in Callers : d # c => pc'[d] = pc[d] /\ task'[d] = task[d]
    BY DEF NotifyNewTask, Lookup, Create, Notify, CheckCounter, WaitForOne, TypeInv, Goto,
           workerVars, mapVars, GotoW
  <1>2. \A d \in Callers : made'[d] \in Int /\ made'[d] >= made[d]
    BY <1>1 DEF TypeInv
  <1>3. /\ pc'[c] # "count"
        /\ Holds(c)' => task'[c] = task[c] /\ (Holds(c) \/ pc[c] = "count")
    BY DEF NotifyNewTask, Lookup, Create, Notify, CheckCounter, WaitForOne, TypeInv, Goto, Holds
  <1>4. UniqueInv'
    BY <1>1, <1>2, <1>3, HandsUnique
  <1>5. CASE NotifyNewTask(c) /\ pc[c] = "count"
    <2>1. /\ nActive' = nActive + 1 /\ task' = task /\ pc'[c] = "announce"
      BY <1>5 DEF NotifyNewTask, TypeInv, Goto
    <2>2. task[c] \in Tasks /\ task[c].counted /\ ~InQueue(task[c]) /\ ~OnWorker(task[c])
      BY <1>5 DEF CallerInv, UniqueInv
    <2>3. task[c] \notin CountedTasks
      <3>1. \A d \in Callers : Holds(d) => task[d].by = d  BY DEF Holds, CallerInv
      <3>2. task[c].by = c /\ ~Holds(c)  BY <1>5 DEF CallerInv, Holds
      <3> QED  BY <2>2, <3>1, <3>2 DEF CountedTasks
    <2>4. CountedTasks' = CountedTasks \cup {task[c]}
      <3>1. \A t : (InQueue(t)' <=> InQueue(t)) /\ (OnWorker(t)' <=> OnWorker(t))
        BY <1>1 DEF InQueue, OnWorker, Elements
      <3>2. \A d \in Callers : Holds(d)' <=> Holds(d) \/ d = c
        BY <1>1, <2>1 DEF Holds
      <3>3. \A t : (\E d \in Callers : Holds(d)' /\ task'[d] = t)
                    <=> (\E d \in Callers : Holds(d) /\ task[d] = t) \/ t = task[c]
        BY <2>1, <3>2
      <3> QED  BY <2>2, <3>1, <3>3 DEF CountedTasks
    <2> QED  BY <1>4, <2>1, <2>3, <2>4, CountAdded
  <1>6. CASE ~(NotifyNewTask(c) /\ pc[c] = "count")
    <2>1. /\ nActive' = nActive /\ (Holds(c)' <=> Holds(c)) /\ (Holds(c) => task'[c] = task[c])
      BY <1>6 DEF NotifyNewTask, Lookup, Create, Notify, CheckCounter, WaitForOne, TypeInv, Goto,
                  Holds
    <2>2. CountedTasks' = CountedTasks
      BY <1>1, <2>1, HandsSame
    <2> QED  BY <1>4, <2>1, <2>2, CountSame
  <1> QED  BY <1>5, <1>6

LEMMA NewTaskCounts ==
    ASSUME CountingInv, NEW c \in Callers, NEW s \in Streams, NEW counted \in BOOLEAN,
           NewTask(c, s, counted)
    PROVE  UniqueInv' /\ CountInv'
  <1> USE DEF CountingInv, SchedulerInv
  <1> DEFINE t == [by |-> c, no |-> made[c] + 1, on |-> s, counted |-> counted]
  <1>1. /\ UNCHANGED <<queue, running, nActive>>
        /\ \A d \in Callers : d # c => pc'[d] = pc[d] /\ task'[d] = task[d]
        /\ task'[c] = t /\ pc[c] = "idle" /\ made[c] < MaxTasks
        /\ pc'[c] = FirstStep(counted) /\ made' = [made EXCEPT ![c] = @ + 1]
    BY DEF NewTask, TypeInv, Goto, workerVars
  <1>2. t \in Tasks
    BY <1>1, SchedulerAssumption DEF TypeInv, Tasks
  <1>3. \A d \in Callers : made'[d] \in Int /\ made'[d] >= made[d]
    BY <1>1, SchedulerAssumption DEF TypeInv
  <1>4. UniqueInv'
    <2>1. task'[c] \in Tasks /\ task'[c].by = c /\ task'[c].no = made[c] + 1
      BY <1>1, <1>2
    <2>2. pc'[c] = "count" => task'[c].counted
      BY <1>1 DEF FirstStep
    <2> QED  BY <1>1, <1>3, <2>1, <2>2, HandsUnique
  <1>5. CountedTasks' = CountedTasks
    <2>1. ~Holds(c) /\ ~(Holds(c)' /\ task'[c].counted)
      BY <1>1 DEF Holds, FirstStep
    <2> QED  BY <1>1, <2>1, HandsSame
  <1> QED  BY <1>1, <1>4, <1>5, CountSame
-----------------------------------------------------------------------------
(* Steps that move a task on: from its caller to a queue, to a worker, away *)

LEMMA PushCounts ==
    ASSUME CountingInv, NEW c \in Callers, Push(c)
    PROVE  UniqueInv' /\ CountInv'
  <1> USE DEF CountingInv, SchedulerInv
  <1> DEFINE w == st[c]  t == task[c]
  <1>1. /\ t \in Tasks /\ t.by = c /\ t.no = made[c] /\ w \in Threads
        /\ pc[c] = "push" /\ ~InQueue(t) /\ ~OnWorker(t)
    BY SchedulerAssumption DEF Push, CallerInv, UniqueInv, Holds, TypeInv, Threads
  <1>2. /\ queue'[w] = Append(queue[w], t) /\ queue[w] \in Seq(Tasks)
        /\ \A v \in Threads : v # w => queue'[v] = queue[v]
        /\ UNCHANGED <<task, made, running, nActive>>
        /\ pc'[c] = "notify" /\ \A d \in Callers : d # c => pc'[d] = pc[d]
    BY <1>1 DEF Push, TypeInv, Goto, workerVars
  <1>3. Elements(queue'[w]) = Elements(queue[w]) \cup {t}
    BY <1>2 DEF Elements
  <1>4. \A u : (InQueue(u)' <=> InQueue(u) \/ u = t) /\ (OnWorker(u)' <=> OnWorker(u))
    <2>1. \A v \in Threads : v # w => Elements(queue'[v]) = Elements(queue[v])
      BY <1>2 DEF Elements
    <2>2. \A u : InQueue(u)' <=> \E v \in Threads : u \in Elements(queue'[v])
      BY DEF InQueue, Elements
    <2>3. \A u : OnWorker(u)' <=> OnWorker(u)
      BY <1>2 DEF OnWorker
    <2> HIDE DEF w, t
    <2> QED  BY <1>1, <1>3, <2>1, <2>2, <2>3 DEF InQueue
  <1>5. \A d \in Callers : /\ Holds(d)' <=> Holds(d) /\ d # c
                           /\ pc'[d] = "count" <=> pc[d] = "count"
    BY <1>1, <1>2 DEF Holds
  <1>6. \A d \in Callers : Holds(d) \/ pc[d] = "count" => task[d].by = d
    BY DEF Holds, CallerInv
  <1>7. UniqueInv'
    <2>1. \A d \in Callers :
            /\ Holds(d)' \/ pc'[d] = "count" =>
                  ~InQueue(task[d]) /\ ~OnWorker(task[d]) /\ task[d] # t
            /\ pc'[d] = "count" => task[d].counted
      <3>1. pc[c] # "count"  BY <1>1
      <3> QED  BY <1>1, <1>5, <1>6, <3>1 DEF UniqueInv
    <2>2. \A d \in Callers : Holds(d)' \/ pc'[d] = "count" =>
              ~InQueue(task[d])' /\ ~OnWorker(task[d])'
      <3>1. \A u : (\E v \in Threads : u \in Elements(queue'[v])) <=> InQueue(u) \/ u = t
        BY <1>4 DEF InQueue, Elements
      <3>2. \A u : (\E v \in Threads : running'[v] = u) <=> OnWorker(u)
        BY <1>2 DEF OnWorker
      <3>3. \A d \in Callers : Holds(d)' \/ pc'[d] = "count" =>
              /\ ~(\E v \in Threads : task'[d] \in Elements(queue'[v]))
              /\ ~(\E v \in Threads : running'[v] = task'[d])
        BY <1>2, <2>1, <3>1, <3>2
      <3> QED  BY <3>3 DEF InQueue, OnWorker, Elements
    <2>3. \A u \in Tasks : InQueue(u)' \/ OnWorker(u)' => u.no <= made'[u.by]
      <3>1. t.no <= made[t.by]  BY <1>1 DEF TypeInv
      <3> QED  BY <1>2, <1>4, <3>1 DEF UniqueInv
    <2>4. ASSUME NEW v \in Threads
          PROVE  /\ \A i, j \in DOMAIN queue'[v] : queue'[v][i] = queue'[v][j] => i = j
                 /\ running'[v] \notin Elements(queue'[v])
      <3>1. CASE v = w
        <4>1. t \notin Elements(queue[w]) /\ running[w] # t
          BY <1>1 DEF InQueue, OnWorker
        <4>2. \A i \in DOMAIN queue[w] : queue[w][i] # t
          BY <4>1 DEF Elements
        <4>3. \A i, j \in DOMAIN queue[w] : queue[w][i] = queue[w][j] => i = j
          BY <1>1 DEF UniqueInv
        <4>4. \A i, j \in DOMAIN queue'[w] : queue'[w][i] = queue'[w][j] => i = j
          <5> HIDE DEF w, t
          <5>1. \A i \in DOMAIN Append(queue[w], t) :
                   \/ i \in DOMAIN queue[w] /\ Append(queue[w], t)[i] = queue[w][i]
                   \/ i = Len(queue[w]) + 1 /\ Append(queue[w], t)[i] = t
            BY <1>2
          <5> QED  BY <1>2, <4>2, <4>3, <5>1
        <4> QED  BY <1>1, <1>2, <1>3, <3>1, <4>1, <4>4 DEF UniqueInv
      <3>2. CASE v # w
        BY <1>2, <3>2 DEF UniqueInv, Elements
      <3> QED  BY <3>1, <3>2
    <2> QED  BY <2>1, <2>2, <2>3, <2>4, <1>2 DEF UniqueInv
  <1>8. CountedTasks' = CountedTasks
    <2>1. \A u : ((\E d \in Callers : Holds(d)' /\ task'[d] = u) \/ u = t)
                <=> ((\E d \in Callers : Holds(d) /\ task[d] = u))
      <3>1. Holds(c)  BY <1>1 DEF Holds
      <3>2. task' = task  BY <1>2
      <3> QED  BY <1>5, <3>1, <3>2
    <2> HIDE DEF t
    <2> QED  BY <2>1, <1>4 DEF CountedTasks
  <1> QED  BY <1>2, <1>7, <1>8, CountSame

(* What a worker does leaves the callers alone.                             *)
LEMMA WorkerUnique ==
    ASSUME CountingInv, UNCHANGED <<pc, task, made>>,
           \A t \in Tasks : InQueue(t)' \/ OnWorker(t)' => InQueue(t) \/ OnWorker(t),
           \A w \in Threads :
              /\ \A i, j \in DOMAIN queue'[w] : queue'[w][i] = queue'[w][j] => i = j
              /\ running'[w] \notin Elements(queue'[w])
    PROVE  UniqueInv'
  <1>1. \A c \in Callers : Holds(c) \/ pc[c] = "count" => task[c] \in Tasks
    BY DEF CountingInv, SchedulerInv, CallerInv, Holds
  <1>2. \A c \in Callers : Holds(c)' <=> Holds(c)
    BY DEF Holds
  <1>3. \A c \in Callers : Holds(c)' \/ pc'[c] = "count" =>
            ~InQueue(task[c])' /\ ~OnWorker(task[c])'
    <2>1. \A c \in Callers : Holds(c) \/ pc[c] = "count" =>
              ~(\E w \in Threads : task[c] \in Elements(queue'[w]))
              /\ ~(\E w \in Threads : running'[w] = task[c])
      BY <1>1 DEF CountingInv, UniqueInv, InQueue, OnWorker, Elements
    <2> QED  BY <1>2, <2>1 DEF InQueue, OnWorker, Elements
  <1>4. \A t \in Tasks : InQueue(t)' \/ OnWorker(t)' => t.no <= made'[t.by]
    BY DEF CountingInv, UniqueInv
  <1>5. \A c \in Callers : pc'[c] = "count" => task'[c].counted
    BY DEF CountingInv, UniqueInv
  <1> QED  BY <1>3, <1>4, <1>5 DEF UniqueInv

LEMMA WorkerSame ==
    ASSUME UNCHANGED <<pc, task>>,
           \A t \in Tasks : t.counted =>
              (InQueue(t)' \/ OnWorker(t)' <=> InQueue(t) \/ OnWorker(t))
    PROVE  CountedTasks' = CountedTasks
  <1>1. \A t : (\E c \in Callers : Holds(c)' /\ task'[c] = t)
              <=> (\E c \in Callers : Holds(c) /\ task[c] = t)
    BY DEF Holds
  <1> QED  BY <1>1 DEF CountedTasks

LEMMA TakeCounts ==
    ASSUME CountingInv, NEW w \in Threads, CheckQueue(w)
    PROVE  UniqueInv' /\ CountInv'
  <1> USE DEF CountingInv, SchedulerInv
  <1>1. UNCHANGED <<pc, task, made, nActive>>
    BY DEF CheckQueue, callerVars
  <1>2. CASE queue[w] = <<>>
    <2>1. UNCHANGED <<queue, running>>
      BY <1>2 DEF CheckQueue, workerVars
    <2>2. \A t : (InQueue(t)' <=> InQueue(t)) /\ (OnWorker(t)' <=> OnWorker(t))
      BY <2>1 DEF InQueue, OnWorker, Elements
    <2>3. UniqueInv'
      BY <1>1, <2>1, <2>2, WorkerUnique DEF UniqueInv, Elements
    <2> QED  BY <1>1, <2>2, <2>3, WorkerSame, CountSame
  <1>3. CASE queue[w] # <<>>
    <2> DEFINE q == queue[w]  h == Head(queue[w])
    <2>1. /\ running'[w] = h /\ queue'[w] = Tail(q) /\ wpc[w] = "check"
          /\ \A v \in Threads : v # w => running'[v] = running[v] /\ queue'[v] = queue[v]
      BY <1>3 DEF CheckQueue, TypeInv
    <2>2. running[w] = Nobody
      BY <2>1 DEF ThreadInv
    <2>3. q \in Seq(Tasks) /\ q # <<>> /\ \A i, j \in DOMAIN q : q[i] = q[j] => i = j
      BY <1>3 DEF TypeInv, UniqueInv
    <2>4. /\ h = q[1] /\ 1 \in DOMAIN q /\ Tail(q) \in Seq(Tasks)
          /\ \A i \in DOMAIN Tail(q) : i + 1 \in DOMAIN q /\ Tail(q)[i] = q[i + 1]
                                      /\ i \in Int /\ i >= 1
          /\ \A i \in DOMAIN q : i # 1 => i - 1 \in DOMAIN Tail(q) /\ q[i] = Tail(q)[i - 1]
      BY <2>3
    <2>5. h \notin Elements(Tail(q))
      <3> SUFFICES ASSUME NEW i \in DOMAIN Tail(q), Tail(q)[i] = h  PROVE FALSE
        BY DEF Elements
      <3>1. i + 1 = 1 /\ i >= 1 /\ i \in Int  BY <2>3, <2>4
      <3> QED  BY <3>1
    <2>6. Elements(q) = Elements(Tail(q)) \cup {h}
      <3>1. Elements(q) \subseteq Elements(Tail(q)) \cup {h}
        <4> SUFFICES ASSUME NEW i \in DOMAIN q, i # 1  PROVE q[i] \in Elements(Tail(q))
          BY <2>4 DEF Elements
        <4>1. i - 1 \in DOMAIN Tail(q) /\ q[i] = Tail(q)[i - 1]  BY <2>4
        <4> HIDE DEF q
        <4> QED  BY <4>1 DEF Elements
      <3>2. Elements(Tail(q)) \cup {h} \subseteq Elements(q)
        BY <2>4 DEF Elements
      <3> QED  BY <3>1, <3>2
    <2>7. \A i, j \in DOMAIN Tail(q) : Tail(q)[i] = Tail(q)[j] => i = j
      <3> SUFFICES ASSUME NEW i \in DOMAIN Tail(q), NEW j \in DOMAIN Tail(q),
                          Tail(q)[i] = Tail(q)[j]
                   PROVE  i = j
        OBVIOUS
      <3>1. i + 1 = j + 1 /\ i \in Int /\ j \in Int  BY <2>3, <2>4
      <3> QED  BY <3>1
    <2> HIDE DEF q, h
    <2>8. \A v \in Threads :
            /\ \A i, j \in DOMAIN queue'[v] : queue'[v][i] = queue'[v][j] => i = j
            /\ running'[v] \notin Elements(queue'[v])
      <3>1. \A v \in Threads : v # w =>
              /\ \A i, j \in DOMAIN queue'[v] : queue'[v][i] = queue'[v][j] => i = j
              /\ running'[v] \notin Elements(queue'[v])
        BY <2>1 DEF UniqueInv
      <3> QED  BY <2>1, <2>5, <2>7, <3>1
    <2>9. \A t \in Tasks : InQueue(t)' \/ OnWorker(t)' <=> InQueue(t) \/ OnWorker(t)
      <3> TAKE t \in Tasks
      <3>1. t # running[w]  BY <2>2, NobodyIsNoTask
      <3>2. \A v \in Threads : (t \in Elements(queue'[v]) \/ running'[v] = t)
                               <=> (t \in Elements(queue[v]) \/ running[v] = t)
        BY <2>1, <2>6, <3>1 DEF q
      <3> QED  BY <3>2 DEF InQueue, OnWorker, Elements
    <2>10. UniqueInv'
      BY <1>1, <2>8, <2>9, WorkerUnique
    <2> QED  BY <1>1, <2>9, <2>10, WorkerSame, CountSame
  <1> QED  BY <1>2, <1>3

LEMMA RunCounts ==
    ASSUME CountingInv, NEW w \in Threads, RunTask(w)
    PROVE  UniqueInv' /\ CountInv'
  <1> USE DEF CountingInv, SchedulerInv
  <1>1. UNCHANGED <<pc, task, made, nActive, queue>>
    BY DEF RunTask, callerVars
  <1>2. /\ \A v \in Threads : v # w => running'[v] = running[v]
        /\ running'[w] \in {running[w], Nobody}
        /\ running[w].counted => running'[w] = running[w]
    BY DEF RunTask, TypeInv, AfterTask
  <1>3. \A v \in Threads : Nobody \notin Elements(queue[v])
    BY NobodyIsNoTask DEF TypeInv, Elements
  <1>4. \A t : InQueue(t)' <=> InQueue(t)
    BY <1>1 DEF InQueue
  <1>5. \A t \in Tasks : OnWorker(t)' => OnWorker(t)
    BY <1>2, NobodyIsNoTask DEF OnWorker
  <1>6. \A t \in Tasks : t.counted /\ OnWorker(t) => OnWorker(t)'
    BY <1>2 DEF OnWorker
  <1>7. UniqueInv'
    <2>1. \A v \in Threads : running'[v] \notin Elements(queue'[v])
      BY <1>1, <1>2, <1>3 DEF UniqueInv
    <2>2. \A v \in Threads : \A i, j \in DOMAIN queue'[v] : queue'[v][i] = queue'[v][j] => i = j
      BY <1>1 DEF UniqueInv
    <2> QED  BY <1>1, <1>4, <1>5, <2>1, <2>2, WorkerUnique
  <1> QED  BY <1>1, <1>4, <1>5, <1>6, <1>7, WorkerSame, CountSame

LEMMA CompletionCounts ==
    ASSUME CountingInv, NEW w \in Threads, NotifyCompletion(w)
    PROVE  UniqueInv' /\ CountInv'
  <1> USE DEF CountingInv, SchedulerInv
  <1>1. UNCHANGED <<pc, task, made, queue>>
    BY DEF NotifyCompletion, callerVars
  <1>2. \A t : InQueue(t)' <=> InQueue(t)
    BY <1>1 DEF InQueue
  <1>3. CASE wpc[w] = "announce"
    <2>1. UNCHANGED <<running, nActive>>
      BY <1>3 DEF NotifyCompletion
    <2>2. \A t : OnWorker(t)' <=> OnWorker(t)
      BY <2>1 DEF OnWorker
    <2>3. UniqueInv'
      BY <1>1, <1>2, <2>1, <2>2, WorkerUnique DEF UniqueInv, Elements
    <2> QED  BY <1>1, <1>2, <2>1, <2>2, <2>3, WorkerSame, CountSame
  <1>4. CASE wpc[w] = "complete"
    <2> DEFINE t == running[w]
    <2>1. /\ nActive' = nActive - 1 /\ running'[w] = Nobody
          /\ \A v \in Threads : v # w => running'[v] = running[v]
      BY <1>4 DEF NotifyCompletion, TypeInv
    <2>2. t \in Tasks /\ t # Nobody /\ t.counted
      BY <1>4 DEF ThreadInv, TypeInv
    <2>3. \A v \in Threads : v # w => running[v] # t
      BY <2>2 DEF FifoInv, OnInv
    <2>4. ~InQueue(t)
      <3> SUFFICES ASSUME NEW v \in Threads, NEW i \in DOMAIN queue[v], queue[v][i] = t
                   PROVE  FALSE
        BY DEF InQueue, Elements
      <3>1. v = w  BY <2>2 DEF FifoInv, OnInv
      <3> QED  BY <3>1 DEF UniqueInv, Elements
    <2>5. \A c \in Callers : Holds(c) => task[c] # t
      BY DEF UniqueInv, OnWorker
    <2> HIDE DEF t
    <2>6. \A u \in Tasks : OnWorker(u)' <=> OnWorker(u) /\ u # t
      BY <2>1, <2>3, NobodyIsNoTask DEF OnWorker, t
    <2>7. UniqueInv'
      <3>1. \A v \in Threads : running'[v] \notin Elements(queue'[v])
        BY <1>1, <2>1, NobodyIsNoTask DEF UniqueInv, TypeInv, Elements
      <3>2. \A v \in Threads :
               \A i, j \in DOMAIN queue'[v] : queue'[v][i] = queue'[v][j] => i = j
        BY <1>1 DEF UniqueInv
      <3> QED  BY <1>1, <1>2, <2>6, <3>1, <3>2, WorkerUnique
    <2>8. t \in CountedTasks
      BY <2>2 DEF CountedTasks, OnWorker, t
    <2>9. CountedTasks' = CountedTasks \ {t}
      <3>1. \A u : (\E c \in Callers : Holds(c)' /\ task'[c] = u)
                  <=> (\E c \in Callers : Holds(c) /\ task[c] = u)
        BY <1>1 DEF Holds
      <3> QED  BY <1>2, <2>4, <2>5, <2>6, <3>1 DEF CountedTasks
    <2> QED  BY <2>1, <2>7, <2>8, <2>9, CountRemoved
  <1> QED  BY <1>3, <1>4 DEF NotifyCompletion

-----------------------------------------------------------------------------
LEMMA InitCounts == Init => UniqueInv /\ CountInv
  <1> SUFFICES ASSUME Init PROVE UniqueInv /\ CountInv
    OBVIOUS
  <1>1. \A t : ~InQueue(t) /\ (OnWorker(t) => t = Nobody)
    BY DEF Init, InQueue, OnWorker, Elements
  <1>2. \A c \in Callers : ~Holds(c) /\ pc[c] # "count"
    BY DEF Init, Holds
  <1>3. CountedTasks = {}
    BY <1>1, <1>2, NobodyIsNoTask DEF CountedTasks
  <1>4. CountInv
    BY <1>3, FS_EmptySet DEF CountInv, Init
  <1>5. UniqueInv
    BY <1>1, <1>2, NobodyIsNoTask DEF UniqueInv, Init, Elements
  <1> QED  BY <1>4, <1>5

LEMMA NextCounts ==
    ASSUME CountingInv, [Next]_vars
    PROVE  UniqueInv' /\ CountInv'
  <1>1. ASSUME UNCHANGED <<pc, task, made, queue, running, nActive>>
        PROVE  UniqueInv' /\ CountInv'
    <2>1. \A t : (InQueue(t)' <=> InQueue(t)) /\ (OnWorker(t)' <=> OnWorker(t))
      BY <1>1 DEF InQueue, OnWorker
    <2>2. UniqueInv'
      BY <1>1, <2>1, WorkerUnique DEF CountingInv, UniqueInv
    <2>3. CountedTasks' = CountedTasks
      BY <1>1, <2>1, WorkerSame
    <2> QED  BY <1>1, <2>2, <2>3, CountSame DEF CountingInv
  <1>2. ASSUME NEW x \in Callers \cup Threads, SpuriousWakeup(x)
        PROVE  UniqueInv' /\ CountInv'
    BY <1>1, <1>2 DEF SpuriousWakeup, callerVars, workerVars
  <1>3. CASE UNCHANGED vars
    BY <1>1, <1>3 DEF vars, callerVars, workerVars
  <1>4. ASSUME NEW c \in Callers, CallerStep(c) \/ WaitForOne(c)
        PROVE  UniqueInv' /\ CountInv'
    BY <1>4, CallerCounts, PushCounts DEF CallerStep
  <1>5. ASSUME NEW w \in Threads, WorkerStep(w)
        PROVE  UniqueInv' /\ CountInv'
    BY <1>5, TakeCounts, RunCounts, CompletionCounts DEF WorkerStep
  <1> QED  BY <1>2, <1>3, <1>4, <1>5, NewTaskCounts DEF Next

LEMMA CountingInvariant == Spec => []CountingInv
  <1>1. Init => FifoInv
    BY DEF Init, FifoInv, OnInv, StreamFifo
  <1>2. TypeInv /\ CallerInv /\ ThreadInv /\ FifoInv /\ [Next]_vars => FifoInv'
    BY NextQueues DEF SchedulerInv
  <1>3. TypeInv /\ CallerInv /\ ThreadInv /\ FifoInv /\ UniqueInv /\ CountInv /\ [Next]_vars
          => UniqueInv' /\ CountInv'
    BY NextCounts DEF CountingInv, SchedulerInv
  <1> QED  BY <1>1, <1>2, <1>3, InitCounts, TypeInvariant, PTL
           DEF Spec, CountingInv, SchedulerInv

(* The counter of active tasks is the number of counted tasks between       *)
(* notify_new_task and notify_task_completion, wherever they are, however   *)
(* the callers and the stream threads interleave: it is not decremented for *)
(* a task that was not counted, nor forgotten for one that was.             *)
THEOREM ActiveTasksCorrect == Spec => []ActiveExact
  <1>1. CountingInv => ActiveExact
    BY CountedIsInHands DEF CountingInv, CountInv, ActiveExact
  <1> QED  BY <1>1, CountingInvariant, PTL

(* So the counter is never negative, nor what a caller saw of it, and every *)
(* variable of the scheduler stays in its domain.                           *)
THEOREM SchedulerTyped == Spec => []TypeOK
  <1> DEFINE Seen == \A c \in Callers : nOld[c] \in Nat
  <1>1. Init => Seen
    BY DEF Init
  <1>2. TypeInv /\ Seen /\ [Next]_vars => Seen'
    <2> SUFFICES ASSUME TypeInv, Seen, [Next]_vars PROVE Seen'
      OBVIOUS
    <2>1. ASSUME NEW c \in Callers, WaitForOne(c) PROVE Seen'
      BY <2>1 DEF WaitForOne, TypeInv
    <2>2. ASSUME NEW c \in Callers, CheckCounter(c) PROVE Seen'
      <3>1. nOld' = nOld \/ nOld' = [nOld EXCEPT ![c] = 0]
        BY <2>2 DEF CheckCounter
      <3>2. nOld \in [Callers -> Nat] /\ 0 \in Nat
        BY DEF TypeInv
      <3>3. nOld' \in [Callers -> Nat]
        BY <3>1, <3>2
      <3> QED  BY <3>3
    <2>3. ASSUME UNCHANGED nOld PROVE Seen'
      BY <2>3
    <2>4. ASSUME NEW c \in Callers, CallerStep(c) PROVE Seen'
      BY <2>2, <2>3, <2>4 DEF CallerStep, NotifyNewTask, Lookup, Create, Push, Notify
    <2>5. ASSUME NEW c \in Callers, NEW s \in Streams, NEW counted \in BOOLEAN,
                 NewTask(c, s, counted)
          PROVE  Seen'
      BY <2>3, <2>5 DEF NewTask
    <2>6. ASSUME NEW w \in Threads, WorkerStep(w) PROVE Seen'
      BY <2>3, <2>6 DEF WorkerStep, CheckQueue, RunTask, NotifyCompletion, callerVars
    <2>7. ASSUME NEW x \in Callers \cup Threads, SpuriousWakeup(x) PROVE Seen'
      BY <2>3, <2>7 DEF SpuriousWakeup, callerVars
    <2>8. CASE UNCHANGED vars
      BY <2>3, <2>8 DEF vars, callerVars
    <2> HIDE DEF Seen
    <2> QED  BY <2>1, <2>4, <2>5, <2>6, <2>7, <2>8 DEF Next
  <1>3. TypeInv /\ Seen /\ CountInv => TypeOK
    <2> SUFFICES ASSUME TypeInv, Seen, CountInv PROVE TypeOK
      OBVIOUS
    <2>1. nActive \in Nat  BY FS_CardinalityType DEF CountInv
    <2>2. nOld \in [Callers -> Nat]  BY DEF TypeInv
    <2> QED  BY <2>1, <2>2 DEF TypeInv, TypeOK
  <1> HIDE DEF Seen
  <1> QED  BY <1>1, <1>2, <1>3, CountingInvariant, PTL
           DEF Spec, CountingInv, SchedulerInv
=============================================================================
