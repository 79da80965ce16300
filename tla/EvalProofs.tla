------------------------------ MODULE EvalProofs ------------------------------
(***************************************************************************)
(* Theorems for every graph, every assignment of streams and any bounds.   *)
(* About EvalStreams, with exceptions from eval_cpu: its types, the        *)
(* counter of active tasks, and what eval_impl enqueues in which order     *)
(* (every fence wait follows the update it waits for, and no primitive is  *)
(* evaluated twice).  If eval_cpu does not throw: a worker finds the       *)
(* inputs of a kernel computed, the user reads nothing that is not,        *)
(* EvalStreams implements Dataflow, and it has no deadlock.                *)
(*                                                                         *)
(* About EvalMemory, in the second half, if eval_cpu does not throw: as    *)
(* long as a kernel is on a queue, nobody else is given the buffers that   *)
(* it reads and writes; a kernel finds the data of its inputs in them, and *)
(* so does the user, whatever buffers have been donated or freed and       *)
(* reused, and whatever handles the user has and lets go of.               *)
(***************************************************************************)
EXTENDS EvalMemory, FiniteSetTheorems, TLAPS

-----------------------------------------------------------------------------
(* Type correctness *)

(* While the caller is inside eval_impl, an eval has begun. *)
EvalPlaces == {"tape", "inputs", "retain", "check", "throttled", "recheck", "fence",
               "signal"}
InEval == pc \in EvalPlaces => cur \in Evals

TypeInv == TypeOK /\ InEval

QueueOK ==
    /\ nActive \in Int /\ numOps \in [Streams -> 0..(PerTask - 1)]
    /\ log \in [Streams -> Seq(Task)]
    /\ pos \in [Streams -> Nat] /\ \A s \in Streams : pos[s] <= Length(s)

(* Enqueuing a well-formed task leaves the queues well-formed. *)
LEMMA PushType ==
    ASSUME QueueOK, NEW s \in Streams, NEW kind \in Kinds, NEW a \in Arrays \cup {Sync},
           NEW e \in 0..MaxEvals, NEW st \in Streams, NEW n \in Nat,
           Push(s, kind, a, e, st, n)
    PROVE  QueueOK'
<1> DEFINE t == [kind |-> kind, arr |-> a, eval |-> e, stream |-> st,
                 count |-> n, active |-> FALSE]
<1>1. t \in Task
  BY DEF Task
<1>2. Append(log[s], t) \in Seq(Task) /\ Len(Append(log[s], t)) = Len(log[s]) + 1
  BY <1>1 DEF QueueOK
<1>3. log' \in [Streams -> Seq(Task)] /\ \A r \in Streams : Len(log'[r]) >= Len(log[r])
  BY <1>2 DEF QueueOK, Push
<1> QED
  BY <1>3 DEF QueueOK, Push, Length

(* So does a dispatch through the command encoder of a stream. *)
LEMMA DispatchType ==
    ASSUME QueueOK, NEW s \in Streams, NEW kind \in Kinds, NEW a \in Arrays \cup {Sync},
           cur \in 0..MaxEvals, Dispatch(s, kind, a)
    PROVE  QueueOK'
<1> DEFINE t == [kind |-> kind, arr |-> a, eval |-> cur, stream |-> s,
                 count |-> 0, active |-> NextOp(s) = 0]
<1>1. t \in Task
  BY DEF Task
<1>2. Append(log[s], t) \in Seq(Task) /\ Len(Append(log[s], t)) = Len(log[s]) + 1
  BY <1>1 DEF QueueOK
<1>3. log' \in [Streams -> Seq(Task)] /\ \A r \in Streams : Len(log'[r]) >= Len(log[r])
  BY <1>2 DEF QueueOK, Dispatch
<1>4. NextOp(s) \in 0..(PerTask - 1)
  BY BoundAssumption DEF QueueOK, NextOp
<1>5. nActive' \in Int /\ numOps' \in [Streams -> 0..(PerTask - 1)] /\ pos' = pos
  BY <1>4 DEF QueueOK, Dispatch
<1> QED
  BY <1>3, <1>5 DEF QueueOK, Length

(* The stream and the inputs of the array being evaluated. *)
LEMMA ArrayType ==
    ASSUME TypeOK, NEW a \in Arrays \cup {Sync}
    PROVE  /\ StreamFor(a) \in Streams
           /\ InputsOf(a) \in Seq(Arrays)
           /\ OutputsOf(a) \subseteq Arrays
BY GraphAssumption, BoundAssumption DEF TypeOK, StreamFor, InputsOf, OutputsOf

LEMMA InitType == Init => TypeInv
<1> SUFFICES ASSUME Init PROVE TypeInv
  OBVIOUS
<1>1. /\ 0 \in 0..MaxEvals /\ 0 \in 0..MaxSyncs /\ 0 \in 0..(PerTask - 1)
      /\ Leaves \subseteq Arrays
  BY GraphAssumption, BoundAssumption
<1>2. /\ pc \in Callers /\ cur \in 0..MaxEvals /\ async \in BOOLEAN
      /\ outs \in Seq(Arrays) /\ syncStream \in Streams
      /\ todo \subseteq Arrays /\ arr \in Arrays \cup {Sync} /\ idx \in Nat
      /\ needsFence \subseteq Arrays /\ unfenced \subseteq Arrays
      /\ openStreams \subseteq Streams /\ nOld \in Int /\ syncs \in 0..MaxSyncs
  <2>1. outs \in Seq(Arrays)
    BY DEF Init
  <2>2. cur \in 0..MaxEvals /\ syncs \in 0..MaxSyncs /\ idx \in Nat /\ nOld \in Int
    BY <1>1 DEF Init
  <2> QED
    BY <2>1, <2>2 DEF Init, Callers
<1>3. /\ status \in [Arrays -> {"unscheduled", "evaluated", "available"}]
      /\ event \in [Arrays -> 0..MaxEvals]
  BY <1>1 DEF Init
<1>4. /\ fenceCount \in [Evals -> [Streams -> Nat]]
      /\ fenceValue \in [Evals -> [Streams -> Nat]]
      /\ signaled \in [Evals -> [Streams -> BOOLEAN]]
  BY DEF Init
<1>5. /\ nActive \in Int /\ numOps \in [Streams -> 0..(PerTask - 1)]
      /\ log \in [Streams -> Seq(Task)]
      /\ pos \in [Streams -> Nat] /\ \A s \in Streams : pos[s] <= Length(s)
  BY <1>1 DEF Init, Length
<1>6. computed \subseteq Arrays /\ InEval
  BY <1>1 DEF Init, InEval, EvalPlaces
<1> QED
  BY <1>2, <1>3, <1>4, <1>5, <1>6 DEF TypeInv, TypeOK

(* The steps of the caller that only enqueue and go on. *)
LEMMA GotoType ==
    ASSUME TypeInv, NEW place \in Callers, Goto(place), QueueOK',
           place \in EvalPlaces => cur \in Evals
    PROVE  TypeInv'
BY DEF TypeInv, TypeOK, InEval, EvalPlaces, QueueOK, Goto, evalVars, stepVars, arrayVars, syncVars,
       Callers, Evals, Length

LEMMA AvailableType ==
    ASSUME TypeOK, NEW a, SetAvailable(a)
    PROVE  /\ status' \in [Arrays -> {"unscheduled", "evaluated", "available"}]
           /\ event' \in [Arrays -> 0..MaxEvals]
<1>1. 0 \in 0..MaxEvals
  BY BoundAssumption
<1> QED
  BY <1>1 DEF SetAvailable, TypeOK

LEMMA TypeStep == TypeInv /\ [Next]_vars => TypeInv'
<1> SUFFICES ASSUME TypeInv, [Next]_vars PROVE TypeInv'
  OBVIOUS
<1> USE DEF TypeInv
<1>0. QueueOK
  BY DEF TypeOK, QueueOK
<1>q. ASSUME UNCHANGED queueVars PROVE QueueOK'
  BY <1>0, <1>q DEF QueueOK, queueVars, Length
<1>1. ASSUME NEW a \in Arrays \cup {Sync}, TakeArray(a) PROVE TypeInv'
  <2>1. StreamFor(a) \in Streams
    BY ArrayType
  <2> QED
    BY <1>1, <1>q, <2>1 DEF TakeArray, TypeOK, InEval, EvalPlaces, QueueOK, evalVars, syncVars, Callers,
       Evals, Length, OutputsOf
<1>2. CASE WaitInput
  <2> DEFINE in == InputsOf(arr)[idx]
  <2>1. in \in Arrays /\ StreamFor(arr) \in Streams /\ StreamOf[in] \in Streams
    <3>1. arr \in Arrays \cup {Sync} /\ idx \in DOMAIN InputsOf(arr)
      BY <1>2 DEF WaitInput, TypeOK
    <3>2. InputsOf(arr) \in Seq(Arrays) /\ StreamFor(arr) \in Streams
      BY <3>1, ArrayType
    <3>3. in \in Arrays
      BY <3>1, <3>2
    <3> QED
      BY <3>2, <3>3, GraphAssumption
  <2>2. cur \in Evals /\ cur \in 0..MaxEvals /\ fenceCount[cur][StreamOf[in]] \in Nat
        /\ event[in] \in 0..MaxEvals
    <3>1. cur \in Evals
      BY <1>2 DEF WaitInput, InEval, EvalPlaces
    <3> QED
      BY <3>1, <2>1 DEF TypeOK
  <2>3. QueueOK' /\ event' \in [Arrays -> 0..MaxEvals]
    <3>1. CASE Push(StreamFor(arr), "fenceWait", in, cur, StreamOf[in],
                    fenceCount[cur][StreamOf[in]]) /\ UNCHANGED event
      BY <3>1, <1>0, <2>1, <2>2, PushType DEF Kinds, TypeOK
    <3>2. CASE Push(StreamFor(arr), "eventWait", in, event[in], StreamOf[in], 0)
               /\ UNCHANGED event
      BY <3>2, <1>0, <2>1, <2>2, PushType DEF Kinds, TypeOK
    <3>3. CASE UNCHANGED queueVars /\ event' = [event EXCEPT ![in] = 0]
      <4>1. 0 \in 0..MaxEvals /\ event \in [Arrays -> 0..MaxEvals]
        BY BoundAssumption DEF TypeOK
      <4>2. event' \in [Arrays -> 0..MaxEvals]
        BY <4>1, <3>3
      <4> QED
        BY <4>2, <3>3, <1>q
    <3>4. CASE UNCHANGED <<event, queueVars>>
      BY <3>4, <1>q DEF TypeOK
    <3> QED
      BY <1>2, <3>1, <3>2, <3>3, <3>4 DEF WaitInput
  <2> QED
    <3>1. idx' = idx + 1 /\ UNCHANGED <<pc, syncStream, todo, arr, unfenced, openStreams,
            nOld, syncs, status, evalVars, syncVars>>
      BY <1>2 DEF WaitInput
    <3> QED
      BY <3>1, <2>3 DEF TypeOK, InEval, QueueOK, evalVars, syncVars, Evals, Length
<1>3. CASE EvalKernel
  <2>1. QueueOK'
    BY <1>3, <1>0, <1>q, ArrayType, DispatchType DEF EvalKernel, TypeOK, Kinds
  <2> QED
    BY <1>3, <2>1, GotoType DEF EvalKernel, AllInputsSeen, InEval, EvalPlaces, Callers
<1>4. CASE Throw
  BY <1>4, <1>q, GotoType DEF Throw, Callers, EvalPlaces
<1>5. CASE Retain
  <2>1. QueueOK'
    BY <1>5, <1>0, ArrayType, DispatchType DEF Retain, TypeOK, Kinds
  <2> QED
    BY <1>5, <2>1, GotoType DEF Retain, InEval, EvalPlaces, Callers
<1>6. ASSUME NEW overLimit \in BOOLEAN, Throttle(overLimit) PROVE TypeInv'
  BY <1>6, <1>q DEF Throttle, TypeOK, InEval, EvalPlaces, QueueOK, evalVars, arrayVars, syncVars, Callers,
     Evals, Length
<1>7. ASSUME NEW overLimit \in BOOLEAN, MarkEvaluated(overLimit) PROVE TypeInv'
  BY <1>7, <1>q, ArrayType DEF MarkEvaluated, TypeOK, InEval, EvalPlaces, QueueOK, evalVars, syncVars,
     Callers, Evals, Length, StatusAfter, Crossing
<1>8. CASE WaitForOne
  BY <1>8, <1>q, GotoType DEF WaitForOne, InEval, EvalPlaces, Callers
<1>9. CASE NextArray
  BY <1>9, <1>q, GotoType DEF NextArray, InEval, EvalPlaces, Callers
<1>10. CASE EndEval
  BY <1>10, <1>q, GotoType DEF EndEval, Callers, EvalPlaces
<1>11. CASE ReturnWait
  BY <1>11, <1>q, AvailableType DEF ReturnWait, TypeOK, InEval, EvalPlaces, QueueOK,
     evalVars, stepVars, syncVars, Callers, Evals, Length
<1>12. CASE ReturnSynchronize
  BY <1>12, <1>q, GotoType DEF ReturnSynchronize, Callers, EvalPlaces
<1>13. ASSUME NEW b \in Arrays, UpdateFence(b) PROVE TypeInv'
  <2> DEFINE s == StreamFor(arr)
  <2>1. s \in Streams /\ cur \in Evals /\ cur \in 0..MaxEvals
    BY <1>13, ArrayType DEF UpdateFence, TypeOK, InEval, EvalPlaces
  <2>2. fenceCount[cur][s] + 1 \in Nat
    BY <2>1 DEF TypeOK
  <2>3. QueueOK'
    BY <1>13, <1>0, <2>1, <2>2, PushType DEF UpdateFence, Kinds
  <2>4. fenceCount' \in [Evals -> [Streams -> Nat]]
    BY <1>13, <2>1, <2>2 DEF UpdateFence, TypeOK
  <2> QED
    BY <1>13, <2>3, <2>4 DEF UpdateFence, TypeOK, InEval, EvalPlaces, QueueOK, evalVars, arrayVars,
       Callers, Evals, Length
<1>14. ASSUME NEW s \in Streams, SignalEvent(s) PROVE TypeInv'
  <2>1. cur \in 0..MaxEvals /\ Sync \in Arrays \cup {Sync} /\ 0 \in Nat
    BY DEF TypeOK
  <2>2. QueueOK'
    BY <1>14, <1>0, <1>q, <2>1, PushType DEF SignalEvent, Kinds
  <2> QED
    BY <1>14, <2>2 DEF SignalEvent, TypeOK, InEval, EvalPlaces, QueueOK, evalVars, stepVars, arrayVars,
       syncVars, Callers, Evals, Length
<1>15. ASSUME NEW O \in Requests, NEW isAsync \in BOOLEAN, NEW i \in DOMAIN O,
              BeginEval(O, i, isAsync)
       PROVE  TypeInv'
  <2>1. O \in Seq(Arrays) /\ O[i] \in Arrays /\ StreamOf[O[i]] \in Streams
    BY GraphAssumption
  <2>2. cur' \in Evals /\ cur' \in 0..MaxEvals
    BY <1>15, BoundAssumption DEF BeginEval, TypeOK, Evals
  <2> QED
    BY <1>15, <1>q, <2>1, <2>2 DEF BeginEval, TypeOK, InEval, EvalPlaces, QueueOK, arrayVars,
       syncVars, Callers, Length, Needed, CrossStream, Unscheduled
<1>16. ASSUME NEW a \in Arrays, IsAvailable(a) PROVE TypeInv'
  BY <1>16, <1>q, AvailableType DEF IsAvailable, TypeOK, InEval, EvalPlaces, QueueOK,
     callVars, evalVars, stepVars, syncVars, Callers, Evals, Length
<1>17. ASSUME NEW a \in Arrays, CallWait(a) PROVE TypeInv'
  BY <1>17, <1>q DEF CallWait, TypeOK, InEval, EvalPlaces, QueueOK, evalVars, arrayVars, syncVars,
     Callers, Evals, Length
<1>18. ASSUME NEW s \in Streams, Synchronize(s) PROVE TypeInv'
  <2>1. cur \in 0..MaxEvals /\ Sync \in Arrays \cup {Sync} /\ 0 \in Nat
    BY DEF TypeOK
  <2>2. QueueOK'
    BY <1>18, <1>0, <2>1, PushType DEF Synchronize, Kinds
  <2>3. Length(s) + 1 \in Nat /\ syncs' \in 0..MaxSyncs
    BY <1>18, BoundAssumption DEF TypeOK, Length, Synchronize
  <2> QED
    BY <1>18, <2>2, <2>3, BoundAssumption DEF Synchronize, TypeOK, InEval, EvalPlaces, QueueOK, evalVars,
       arrayVars, syncVars, Callers, Evals, Length
<1>19. ASSUME NEW s \in Streams, Run(s) PROVE TypeInv'
  <2> DEFINE t == HeadTask(s)
  <2>1. t \in Task /\ pos[s] + 1 <= Length(s) /\ pos[s] + 1 \in Nat
    <3>1. log[s] \in Seq(Task) /\ pos[s] \in Nat /\ Len(log[s]) \in Nat
      BY DEF TypeOK
    <3>2. pos[s] + 1 \in 1..Len(log[s])
      BY <1>19, <3>1 DEF Run, Pending, Length
    <3> QED
      BY <3>1, <3>2 DEF HeadTask, Length
  <2>2. pos' \in [Streams -> Nat] /\ \A r \in Streams : pos'[r] <= Length(r)
    BY <1>19, <2>1 DEF Run, TypeOK
  <2>3. nActive' \in Int
    BY <1>19 DEF Run, TypeOK
  <2>4. fenceValue' \in [Evals -> [Streams -> Nat]]
    BY <1>19, <2>1 DEF Run, FencesAfter, TypeOK, Task
  <2>5. signaled' \in [Evals -> [Streams -> BOOLEAN]]
    BY <1>19, <2>1 DEF Run, EventsAfter, TypeOK, Task
  <2>6. computed' \subseteq Arrays
    BY <1>19, <2>1, ArrayType DEF Run, TypeOK, Task
  <2> QED
    BY <1>19, <2>2, <2>3, <2>4, <2>5, <2>6 DEF Run, TypeOK, InEval, callVars, evalVars,
       stepVars, arrayVars, Callers, Evals, Length
<1>20. CASE UNCHANGED vars
  BY <1>20 DEF vars, callVars, evalVars, stepVars, arrayVars, queueVars, syncVars, TypeOK,
     InEval, EvalPlaces, Callers, Evals, Length
<1>21. CASE Quiescent
  BY <1>20, <1>21 DEF Quiescent
<1> QED
  BY <1>1, <1>2, <1>3, <1>4, <1>5, <1>6, <1>7, <1>8, <1>9, <1>10, <1>11, <1>12, <1>13, <1>14,
     <1>15, <1>16, <1>17, <1>18, <1>19, <1>20, <1>21 DEF Next, Caller, User, Worker

(* Every variable stays in its domain and no queue is over-read. *)
THEOREM TypeCorrect == Spec => []TypeOK
<1>1. Spec => []TypeInv
  BY InitType, TypeStep, PTL DEF Spec
<1>2. TypeInv => TypeOK
  BY DEF TypeInv
<1> QED
  BY <1>1, <1>2, PTL

-----------------------------------------------------------------------------
(* How a step changes the queues *)

(* Appending a task to one queue leaves the other tasks in their places.    *)
LEMMA LogGrows ==
    ASSUME QueueOK, NEW s \in Streams, NEW t \in Task,
           log' = [log EXCEPT ![s] = Append(@, t)]
    PROVE  /\ Length(s)' = Length(s) + 1
           /\ log'[s][Length(s) + 1] = t
           /\ \A k \in 1..Length(s) : log'[s][k] = log[s][k]
           /\ \A r \in Streams \ {s} : log'[r] = log[r]
           /\ Length(s) \in Nat
<1>1. log[s] \in Seq(Task) /\ log'[s] = Append(log[s], t)
  BY DEF QueueOK
<1>2. /\ Len(Append(log[s], t)) = Len(log[s]) + 1
      /\ Append(log[s], t)[Len(log[s]) + 1] = t
      /\ \A k \in 1..Len(log[s]) : Append(log[s], t)[k] = log[s][k]
      /\ Len(log[s]) \in Nat
  BY <1>1
<1> QED
  BY <1>1, <1>2 DEF QueueOK, Length

(* What Push and Dispatch append. *)
PushedTask(kind, a, e, st, n) ==
    [kind |-> kind, arr |-> a, eval |-> e, stream |-> st, count |-> n, active |-> FALSE]

DispatchedTask(s, kind, a) ==
    [kind |-> kind, arr |-> a, eval |-> cur, stream |-> s, count |-> 0,
     active |-> NextOp(s) = 0]

LEMMA PushGrows ==
    ASSUME QueueOK, NEW s \in Streams, NEW kind \in Kinds, NEW a \in Arrays \cup {Sync},
           NEW e \in 0..MaxEvals, NEW st \in Streams, NEW n \in Nat,
           Push(s, kind, a, e, st, n)
    PROVE  /\ PushedTask(kind, a, e, st, n) \in Task
           /\ log' = [log EXCEPT ![s] = Append(@, PushedTask(kind, a, e, st, n))]
           /\ UNCHANGED <<nActive, numOps, pos>>
BY DEF Push, Task, PushedTask

LEMMA DispatchGrows ==
    ASSUME QueueOK, NEW s \in Streams, NEW kind \in Kinds, NEW a \in Arrays \cup {Sync},
           cur \in 0..MaxEvals, Dispatch(s, kind, a)
    PROVE  /\ DispatchedTask(s, kind, a) \in Task
           /\ log' = [log EXCEPT ![s] = Append(@, DispatchedTask(s, kind, a))]
           /\ nActive' = IF NextOp(s) = 0 THEN nActive + 1 ELSE nActive
           /\ UNCHANGED pos
<1>1. DispatchedTask(s, kind, a) \in Task
  BY DEF Task, DispatchedTask
<1> QED
  BY <1>1 DEF Dispatch, DispatchedTask

(* Any step leaves the queues alone, pushes, dispatches or runs one task.   *)
Pushes ==
    \E s \in Streams, kind \in Kinds, a \in Arrays \cup {Sync}, e \in 0..MaxEvals,
       st \in Streams, n \in Nat : Push(s, kind, a, e, st, n)

Dispatches ==
    \E s \in Streams, kind \in {"kernel", "release"}, a \in Arrays \cup {Sync} :
        Dispatch(s, kind, a)

LEMMA QueueSteps ==
    ASSUME TypeInv, [Next]_vars
    PROVE  UNCHANGED queueVars \/ Pushes \/ Dispatches \/ \E s \in Streams : Run(s)
<1>1. ASSUME NEW a \in Arrays \cup {Sync}, TakeArray(a) PROVE UNCHANGED queueVars
  BY <1>1 DEF TakeArray
<1>2. CASE WaitInput
  <2> DEFINE in == InputsOf(arr)[idx]
  <2>1. /\ in \in Arrays /\ StreamFor(arr) \in Streams /\ StreamOf[in] \in Streams
        /\ cur \in Evals /\ cur \in 0..MaxEvals
    <3>1. arr \in Arrays \cup {Sync} /\ idx \in DOMAIN InputsOf(arr)
      BY <1>2 DEF WaitInput, TypeInv, TypeOK
    <3>2. InputsOf(arr) \in Seq(Arrays) /\ StreamFor(arr) \in Streams
      BY <3>1, ArrayType DEF TypeInv
    <3>3. in \in Arrays
      BY <3>1, <3>2
    <3>4. cur \in Evals /\ cur \in 0..MaxEvals
      BY <1>2 DEF WaitInput, TypeInv, TypeOK, InEval, EvalPlaces
    <3> QED
      BY <3>2, <3>3, <3>4, GraphAssumption
  <2>2. fenceCount[cur][StreamOf[in]] \in Nat /\ event[in] \in 0..MaxEvals /\ 0 \in Nat
    BY <2>1 DEF TypeInv, TypeOK
  <2>3. \/ UNCHANGED queueVars
        \/ Push(StreamFor(arr), "fenceWait", in, cur, StreamOf[in],
                fenceCount[cur][StreamOf[in]])
        \/ Push(StreamFor(arr), "eventWait", in, event[in], StreamOf[in], 0)
    BY <1>2 DEF WaitInput
  <2>4. {"fenceWait", "eventWait"} \subseteq Kinds
    BY DEF Kinds
  <2> QED
    BY <2>1, <2>2, <2>3, <2>4 DEF Pushes
<1>3. CASE EvalKernel \/ Retain
  <2>1. arr \in Arrays \cup {Sync} /\ StreamFor(arr) \in Streams
    BY ArrayType DEF TypeInv, TypeOK
  <2> QED
    BY <1>3, <2>1 DEF EvalKernel, Retain, Dispatches
<1>4. CASE Throw \/ WaitForOne \/ NextArray \/ EndEval \/ ReturnWait \/ ReturnSynchronize
  BY <1>4 DEF Throw, WaitForOne, NextArray, EndEval, ReturnWait, ReturnSynchronize
<1>5. ASSUME NEW overLimit \in BOOLEAN, Throttle(overLimit) \/ MarkEvaluated(overLimit)
      PROVE  UNCHANGED queueVars
  BY <1>5 DEF Throttle, MarkEvaluated
<1>6. ASSUME NEW b \in Arrays, UpdateFence(b) PROVE Pushes
  <2>1. /\ StreamFor(arr) \in Streams /\ cur \in Evals /\ cur \in 0..MaxEvals
        /\ "fenceUpdate" \in Kinds
    BY <1>6, ArrayType DEF UpdateFence, TypeInv, TypeOK, InEval, EvalPlaces, Kinds
  <2>2. fenceCount[cur][StreamFor(arr)] + 1 \in Nat
    BY <2>1 DEF TypeInv, TypeOK
  <2> QED
    BY <1>6, <2>1, <2>2 DEF UpdateFence, Pushes
<1>7. ASSUME NEW s \in Streams, SignalEvent(s) \/ Synchronize(s)
      PROVE  UNCHANGED queueVars \/ Pushes
  <2>1. cur \in 0..MaxEvals /\ {"eventSignal", "promise"} \subseteq Kinds /\ 0 \in Nat
    BY DEF TypeInv, TypeOK, Kinds
  <2> QED
    BY <1>7, <2>1 DEF SignalEvent, Synchronize, Pushes
<1>8. ASSUME NEW O \in Requests, NEW isAsync \in BOOLEAN, NEW i \in DOMAIN O,
             BeginEval(O, i, isAsync)
      PROVE  UNCHANGED queueVars
  BY <1>8 DEF BeginEval
<1>9. ASSUME NEW a \in Arrays, IsAvailable(a) \/ CallWait(a) PROVE UNCHANGED queueVars
  BY <1>9 DEF IsAvailable, CallWait
<1>10. CASE UNCHANGED vars \/ Quiescent
  BY <1>10 DEF Quiescent, vars
<1> QED
  BY <1>1, <1>2, <1>3, <1>4, <1>5, <1>6, <1>7, <1>8, <1>9, <1>10
  DEF Next, Caller, User, Worker

-----------------------------------------------------------------------------
(* The counter of active tasks *)

ActiveSet == UNION {ActivePending(s) : s \in Streams}

(* The inductive form: a cardinality means something for finite sets only. *)
ActiveInv == IsFiniteSet(ActiveSet) /\ nActive = Cardinality(ActiveSet)

(* A task is in the set when it is active and behind the position.          *)
Counted(lg, ps, s, k) == ps[s] < k /\ k <= Len(lg[s]) /\ lg[s][k].active

LEMMA CountedTasks ==
    ASSUME NEW lg \in [Streams -> Seq(Task)], NEW ps \in [Streams -> Nat], NEW x
    PROVE  x \in UNION {{<<s, k>> : k \in {j \in (ps[s] + 1)..Len(lg[s]) : lg[s][j].active}}
                          : s \in Streams}
             <=> \E s \in Streams, k \in Nat : x = <<s, k>> /\ Counted(lg, ps, s, k)
<1>1. \A s \in Streams : ps[s] \in Nat /\ Len(lg[s]) \in Nat
  OBVIOUS
<1>2. \A s \in Streams, k \in Nat :
        k \in (ps[s] + 1)..Len(lg[s]) <=> ps[s] < k /\ k <= Len(lg[s])
  BY <1>1
<1>3. \A s \in Streams : (ps[s] + 1)..Len(lg[s]) \subseteq Nat
  BY <1>1
<1> QED
  BY <1>2, <1>3 DEF Counted

LEMMA InActiveSet ==
    ASSUME QueueOK, NEW x
    PROVE  x \in ActiveSet <=>
             \E s \in Streams, k \in Nat : x = <<s, k>> /\ Counted(log, pos, s, k)
BY CountedTasks DEF ActiveSet, ActivePending, QueueOK, Length

LEMMA InNextActiveSet ==
    ASSUME QueueOK', NEW x
    PROVE  x \in ActiveSet' <=>
             \E s \in Streams, k \in Nat : x = <<s, k>> /\ Counted(log', pos', s, k)
BY CountedTasks DEF ActiveSet, ActivePending, QueueOK, Length

(* Appending an active task adds itself to the set; another one, nothing.   *)
LEMMA ActiveAppend ==
    ASSUME QueueOK, QueueOK', NEW s \in Streams, NEW t \in Task,
           log' = [log EXCEPT ![s] = Append(@, t)], UNCHANGED pos
    PROVE  /\ ActiveSet' = IF t.active THEN ActiveSet \cup {<<s, Length(s) + 1>>}
                                       ELSE ActiveSet
           /\ <<s, Length(s) + 1>> \notin ActiveSet
<1> DEFINE new == <<s, Length(s) + 1>>
<1>1. /\ Length(s)' = Length(s) + 1 /\ log'[s][Length(s) + 1] = t
      /\ \A k \in 1..Length(s) : log'[s][k] = log[s][k]
      /\ \A r \in Streams \ {s} : log'[r] = log[r]
      /\ Length(s) \in Nat
  BY LogGrows
<1>2. \A r \in Streams : pos[r] \in Nat /\ pos[r] <= Length(r) /\ pos'[r] = pos[r]
  BY DEF QueueOK
<1>3. new \notin ActiveSet
  BY <1>1, InActiveSet DEF Counted, Length
<1>4. ASSUME NEW r \in Streams, NEW k \in Nat
      PROVE  Counted(log', pos', r, k) <=>
                 \/ Counted(log, pos, r, k)
                 \/ r = s /\ k = Length(s) + 1 /\ t.active
  <2>1. CASE r = s /\ k \in 1..Length(s)
    BY <2>1, <1>1, <1>2 DEF Counted, Length
  <2>2. CASE r = s /\ k = Length(s) + 1
    BY <2>2, <1>1, <1>2 DEF Counted, Length
  <2>3. CASE r = s /\ (k = 0 \/ k > Length(s) + 1)
    BY <2>3, <1>1, <1>2 DEF Counted, Length
  <2>4. CASE r # s
    BY <2>4, <1>1, <1>2 DEF Counted
  <2> QED
    BY <2>1, <2>2, <2>3, <2>4, <1>1
<1>5. Length(s) + 1 \in Nat
  BY <1>1
<1>6. ASSUME NEW x
      PROVE  x \in ActiveSet' <=> x \in ActiveSet \/ (t.active /\ x = new)
  BY <1>4, <1>5, InActiveSet, InNextActiveSet
<1> QED
  BY <1>3, <1>6

(* Running a task takes it out of the set, if it was active.                *)
LEMMA ActiveRun ==
    ASSUME QueueOK, QueueOK', NEW s \in Streams, Run(s)
    PROVE  /\ ActiveSet' = ActiveSet \ {<<s, pos[s] + 1>>}
           /\ HeadTask(s).active <=> <<s, pos[s] + 1>> \in ActiveSet
<1> DEFINE old == <<s, pos[s] + 1>>
<1>1. /\ pos[s] \in Nat /\ pos[s] + 1 \in Nat /\ pos[s] + 1 <= Len(log[s]) /\ log' = log
      /\ pos'[s] = pos[s] + 1 /\ \A r \in Streams \ {s} : pos'[r] = pos[r]
  BY DEF Run, Pending, Length, QueueOK
<1>2. HeadTask(s).active <=> old \in ActiveSet
  BY <1>1, InActiveSet DEF Counted, HeadTask
<1>3. ASSUME NEW r \in Streams, NEW k \in Nat
      PROVE  Counted(log', pos', r, k) <=>
                 Counted(log, pos, r, k) /\ ~(r = s /\ k = pos[s] + 1)
  BY <1>1 DEF Counted
<1>4. ASSUME NEW x PROVE x \in ActiveSet' <=> x \in ActiveSet /\ x # old
  BY <1>3, <1>1, InActiveSet, InNextActiveSet
<1> QED
  BY <1>2, <1>4

LEMMA ActiveStep == TypeInv /\ TypeInv' /\ ActiveInv /\ [Next]_vars => ActiveInv'
<1> SUFFICES ASSUME TypeInv, TypeInv', ActiveInv, [Next]_vars PROVE ActiveInv'
  OBVIOUS
<1>1. QueueOK /\ QueueOK' /\ cur \in 0..MaxEvals
  BY DEF TypeInv, TypeOK, QueueOK, Length
<1>2. CASE UNCHANGED queueVars
  BY <1>2 DEF queueVars, ActiveInv, ActiveSet, ActivePending, Length
<1>3. CASE Pushes
  <2>1. PICK s \in Streams, kind \in Kinds, a \in Arrays \cup {Sync}, e \in 0..MaxEvals,
             st \in Streams, n \in Nat : Push(s, kind, a, e, st, n)
    BY <1>3 DEF Pushes
  <2>2. /\ PushedTask(kind, a, e, st, n) \in Task
        /\ log' = [log EXCEPT ![s] = Append(@, PushedTask(kind, a, e, st, n))]
        /\ UNCHANGED <<nActive, numOps, pos>>
    BY <2>1, <1>1, PushGrows
  <2>3. PushedTask(kind, a, e, st, n).active = FALSE
    BY DEF PushedTask
  <2>4. ActiveSet' = ActiveSet
    BY <2>2, <2>3, <1>1, ActiveAppend
  <2> QED
    BY <2>2, <2>4 DEF ActiveInv
<1>4. CASE Dispatches
  <2>1. PICK s \in Streams, kind \in {"kernel", "release"}, a \in Arrays \cup {Sync} :
             Dispatch(s, kind, a)
    BY <1>4 DEF Dispatches
  <2>2. /\ DispatchedTask(s, kind, a) \in Task
        /\ log' = [log EXCEPT ![s] = Append(@, DispatchedTask(s, kind, a))]
        /\ nActive' = IF NextOp(s) = 0 THEN nActive + 1 ELSE nActive
        /\ UNCHANGED pos
    BY <2>1, <1>1, DispatchGrows DEF Kinds
  <2>3. DispatchedTask(s, kind, a).active <=> NextOp(s) = 0
    BY DEF DispatchedTask
  <2>4. /\ ActiveSet' = IF NextOp(s) = 0 THEN ActiveSet \cup {<<s, Length(s) + 1>>}
                                         ELSE ActiveSet
        /\ <<s, Length(s) + 1>> \notin ActiveSet
    BY <2>2, <2>3, <1>1, ActiveAppend
  <2> QED
    BY <2>2, <2>4, FS_AddElement DEF ActiveInv
<1>5. ASSUME NEW s \in Streams, Run(s) PROVE ActiveInv'
  <2>1. /\ ActiveSet' = ActiveSet \ {<<s, pos[s] + 1>>}
        /\ HeadTask(s).active <=> <<s, pos[s] + 1>> \in ActiveSet
    BY <1>1, <1>5, ActiveRun
  <2>2. nActive' = IF HeadTask(s).active THEN nActive - 1 ELSE nActive
    BY <1>5 DEF Run
  <2> QED
    BY <2>1, <2>2, FS_RemoveElement DEF ActiveInv
<1> QED
  BY <1>2, <1>3, <1>4, <1>5, QueueSteps

(* The counter eval_impl throttles on is exact: it is the number of active  *)
(* tasks in the queues, whatever the interleaving of caller and workers and *)
(* wherever an exception leaves eval_impl.                                  *)
THEOREM ActiveCorrect == Spec => []ActiveTasksExact
<1>1. Init => ActiveInv
  <2> SUFFICES ASSUME Init PROVE ActiveInv
    OBVIOUS
  <2>1. \A s \in Streams : ActivePending(s) = {}
    BY DEF Init, ActivePending, Length
  <2>2. ActiveSet = {}
    BY <2>1 DEF ActiveSet
  <2> QED
    BY <2>2, FS_EmptySet DEF ActiveInv, Init
<1>2. ActiveInv => ActiveTasksExact
  BY DEF ActiveInv, ActiveSet, ActiveTasksExact
<1>3. Spec => []TypeInv
  BY InitType, TypeStep, PTL DEF Spec
<1> QED
  BY <1>1, <1>2, <1>3, ActiveStep, PTL DEF Spec
-----------------------------------------------------------------------------
(* The throttle *)

(* Where the bound may be exceeded: from the dispatch of the kernel to the  *)
(* check.  The release dispatched in between is not counted if the kernel   *)
(* was, since the counter of operations has just returned to 0.  A caller   *)
(* that leaves wait_for_one has seen the counter fall below what it was.    *)
Uncounted == {"retain", "check", "throttled"}

ThrottleInv ==
    PerTask > 1 /\ MaxActive > 0 =>
        /\ pc \notin Uncounted => nActive <= MaxActive
        /\ pc = "retain" => \/ nActive <= MaxActive
                            \/ nActive <= MaxActive + 1 /\ numOps[StreamFor(arr)] = 0
        /\ pc = "check" => nActive <= MaxActive + 1
        /\ pc = "throttled" => nOld <= MaxActive + 1 /\ nActive <= nOld

LEMMA ThrottleStep == TypeInv /\ ThrottleInv /\ [Next]_vars => ThrottleInv'
<1> SUFFICES ASSUME TypeInv, ThrottleInv, [Next]_vars, PerTask > 1, MaxActive > 0
             PROVE  ThrottleInv'
  BY DEF ThrottleInv
<1> USE DEF ThrottleInv, Uncounted
<1>0. nActive \in Int /\ MaxActive \in Int /\ nOld \in Int
  BY BoundAssumption DEF TypeInv, TypeOK
<1>1. ASSUME NEW a \in Arrays \cup {Sync}, TakeArray(a) PROVE ThrottleInv'
  BY <1>1 DEF TakeArray, queueVars
<1>2. CASE WaitInput
  <2>1. nActive' = nActive /\ pc' = pc /\ pc = "inputs"
    BY <1>2 DEF WaitInput, Push, queueVars
  <2> QED
    BY <2>1
<1>3. CASE EvalKernel
  <2>1. pc = "inputs" /\ pc' = "retain" /\ nActive <= MaxActive
        /\ arr' = arr /\ syncStream' = syncStream
    BY <1>3 DEF EvalKernel, AllInputsSeen, Goto, stepVars
  <2>2. CASE UNCHANGED queueVars
    BY <2>1, <2>2 DEF queueVars
  <2>3. CASE Dispatch(StreamFor(arr), "kernel", arr)
    <3>1. StreamFor(arr) \in Streams /\ StreamFor(arr)' = StreamFor(arr)
      BY <2>1, ArrayType DEF TypeInv, TypeOK, StreamFor
    <3>2. numOps'[StreamFor(arr)] = NextOp(StreamFor(arr))
      BY <2>3, <3>1 DEF Dispatch, TypeInv, TypeOK
    <3>3. nActive' = IF NextOp(StreamFor(arr)) = 0 THEN nActive + 1 ELSE nActive
      BY <2>3 DEF Dispatch
    <3> QED
      BY <1>0, <2>1, <3>1, <3>2, <3>3
  <2> QED
    BY <1>3, <2>2, <2>3 DEF EvalKernel
<1>4. CASE Retain
  <2> DEFINE s == StreamFor(arr)
  <2>1. pc = "retain" /\ pc' = "check"
    BY <1>4 DEF Retain, Goto
  <2>2. nActive' = IF NextOp(s) = 0 THEN nActive + 1 ELSE nActive
    BY <1>4 DEF Retain, Dispatch
  <2>3. numOps[s] = 0 => NextOp(s) # 0
    <3>1. PerTask \in Nat /\ 1 % PerTask = 1
      BY BoundAssumption
    <3> QED
      BY <3>1 DEF NextOp
  <2> QED
    BY <1>0, <2>1, <2>2, <2>3
<1>5. CASE Throw \/ EndEval \/ NextArray
  BY <1>5 DEF Throw, EndEval, NextArray, AllInputsSeen, Goto, queueVars
<1>6. CASE WaitForOne
  BY <1>0, <1>6 DEF WaitForOne, OneDone, Goto, queueVars
<1>7. CASE ReturnWait \/ ReturnSynchronize
  BY <1>7 DEF ReturnWait, ReturnSynchronize, Goto, queueVars
<1>8. ASSUME NEW overLimit \in BOOLEAN, Throttle(overLimit) PROVE ThrottleInv'
  BY <1>0, <1>8 DEF Throttle, queueVars
<1>9. ASSUME NEW overLimit \in BOOLEAN, MarkEvaluated(overLimit) PROVE ThrottleInv'
  BY <1>9 DEF MarkEvaluated, queueVars
<1>10. ASSUME NEW b \in Arrays, UpdateFence(b) PROVE ThrottleInv'
  BY <1>10 DEF UpdateFence, Push
<1>11. ASSUME NEW s \in Streams, SignalEvent(s) PROVE ThrottleInv'
  BY <1>11 DEF SignalEvent, Push, queueVars
<1>12. ASSUME NEW s \in Streams, Synchronize(s) PROVE ThrottleInv'
  BY <1>12 DEF Synchronize, Push
<1>13. ASSUME NEW O \in Requests, NEW isAsync \in BOOLEAN, NEW i \in DOMAIN O,
              BeginEval(O, i, isAsync)
       PROVE  ThrottleInv'
  BY <1>13 DEF BeginEval, queueVars
<1>14. ASSUME NEW a \in Arrays, IsAvailable(a) \/ CallWait(a) PROVE ThrottleInv'
  BY <1>14 DEF IsAvailable, CallWait, callVars, queueVars
<1>15. ASSUME NEW s \in Streams, Run(s) PROVE ThrottleInv'
  <2>1. nActive' = IF HeadTask(s).active THEN nActive - 1 ELSE nActive
    BY <1>15 DEF Run
  <2>2. UNCHANGED <<pc, arr, nOld, syncStream, numOps>>
    BY <1>15 DEF Run, callVars, stepVars
  <2>3. StreamFor(arr)' = StreamFor(arr)
    BY <2>2 DEF StreamFor
  <2> QED
    BY <1>0, <2>1, <2>2, <2>3
<1>16. CASE UNCHANGED vars \/ Quiescent
  BY <1>16 DEF Quiescent, vars, callVars, stepVars, queueVars, StreamFor
<1> QED
  BY <1>1, <1>2, <1>3, <1>4, <1>5, <1>6, <1>7, <1>8, <1>9, <1>10, <1>11, <1>12, <1>13, <1>14,
     <1>15, <1>16 DEF Next, Caller, User, Worker

(* However many workers finish tasks meanwhile, no more than                *)
(* MAX_ACTIVE_TASKS active tasks and the primitive being evaluated are ever *)
(* queued.                                                                  *)
THEOREM ThrottleCorrect == Spec => []ThrottleBounds
<1>1. Init => ThrottleInv
  BY BoundAssumption DEF Init, ThrottleInv, Uncounted
<1>2. TypeInv /\ ThrottleInv => ThrottleBounds
  <2> SUFFICES ASSUME TypeInv, ThrottleInv, PerTask > 1, MaxActive > 0
               PROVE  nActive <= MaxActive + 1
    BY DEF ThrottleBounds
  <2>1. nActive \in Int /\ MaxActive \in Int /\ nOld \in Int
    BY BoundAssumption DEF TypeInv, TypeOK
  <2> QED
    BY <2>1 DEF ThrottleInv, Uncounted
<1>3. Spec => []TypeInv
  BY InitType, TypeStep, PTL DEF Spec
<1> QED
  BY <1>1, <1>2, <1>3, ThrottleStep, PTL DEF Spec

-----------------------------------------------------------------------------
(* The tasks of a queue after a step *)

(* A queue keeps its tasks and their places. *)
Extended ==
    \A r \in Streams :
        /\ Length(r) \in Nat /\ Length(r)' \in Nat /\ Length(r) <= Length(r)'
        /\ \A k \in 1..Length(r) : log'[r][k] = log[r][k]

(* After t is appended to the queue of s, a task is t or was there before.  *)
LEMMA TaskOrigin ==
    ASSUME QueueOK, NEW s \in Streams, NEW t \in Task,
           log' = [log EXCEPT ![s] = Append(@, t)],
           NEW r \in Streams, NEW k \in 1..Length(r)'
    PROVE  \/ r = s /\ k = Length(s) + 1 /\ log'[r][k] = t
           \/ k \in 1..Length(r) /\ log'[r][k] = log[r][k]
<1>1. /\ Length(s)' = Length(s) + 1 /\ log'[s][Length(s) + 1] = t
      /\ \A j \in 1..Length(s) : log'[s][j] = log[s][j]
      /\ \A q \in Streams \ {s} : log'[q] = log[q]
      /\ Length(s) \in Nat
  BY LogGrows
<1>2. CASE r = s
  <2>1. k \in 1..(Length(s) + 1)
    BY <1>1, <1>2 DEF Length
  <2>2. k \in 1..Length(s) \/ k = Length(s) + 1
    BY <1>1, <2>1
  <2> QED
    BY <1>1, <1>2, <2>2
<1>3. CASE r # s
  BY <1>1, <1>3 DEF Length
<1> QED
  BY <1>2, <1>3

LEMMA AppendExtends ==
    ASSUME QueueOK, NEW s \in Streams, NEW t \in Task,
           log' = [log EXCEPT ![s] = Append(@, t)]
    PROVE  Extended
<1>1. /\ Length(s)' = Length(s) + 1 /\ log'[s][Length(s) + 1] = t
      /\ \A j \in 1..Length(s) : log'[s][j] = log[s][j]
      /\ \A q \in Streams \ {s} : log'[q] = log[q]
      /\ Length(s) \in Nat
  BY LogGrows
<1>2. \A r \in Streams : Length(r) \in Nat
  BY DEF QueueOK, Length
<1> QED
  BY <1>1, <1>2 DEF Extended, Length

LEMMA StepExtends == TypeInv /\ [Next]_vars => Extended
<1> SUFFICES ASSUME TypeInv, [Next]_vars PROVE Extended
  OBVIOUS
<1>1. QueueOK /\ cur \in 0..MaxEvals
  BY DEF TypeInv, TypeOK, QueueOK, Length
<1>2. CASE log' = log
  BY <1>1, <1>2 DEF Extended, QueueOK, Length
<1>3. CASE Pushes
  <2>1. PICK s \in Streams, kind \in Kinds, a \in Arrays \cup {Sync}, e \in 0..MaxEvals,
             st \in Streams, n \in Nat : Push(s, kind, a, e, st, n)
    BY <1>3 DEF Pushes
  <2> QED
    BY <2>1, <1>1, PushGrows, AppendExtends
<1>4. CASE Dispatches
  <2>1. PICK s \in Streams, kind \in {"kernel", "release"}, a \in Arrays \cup {Sync} :
             Dispatch(s, kind, a)
    BY <1>4 DEF Dispatches
  <2> QED
    BY <2>1, <1>1, DispatchGrows, AppendExtends DEF Kinds
<1> QED
  BY <1>2, <1>3, <1>4, QueueSteps DEF queueVars, Run

-----------------------------------------------------------------------------
(* Fences *)

(* An update of the fence of stream s in eval e, after array b, that brings *)
(* the fence to n at most, is in the queue of s.                            *)
UpdateIn(lg, s, e, b, n) ==
    \E j \in 1..Len(lg[s]) :
        /\ lg[s][j].kind = "fenceUpdate" /\ lg[s][j].eval = e
        /\ lg[s][j].arr = b /\ lg[s][j].count <= n

Fenced(b) == UpdateIn(log, StreamOf[b], cur, b, fenceCount[cur][StreamOf[b]])

(* Every fence wait queued is covered by an update. *)
Covered ==
    \A s \in Streams : \A k \in 1..Length(s) :
        log[s][k].kind = "fenceWait" =>
            UpdateIn(log, log[s][k].stream, log[s][k].eval, log[s][k].arr, log[s][k].count)

(* The array of this eval that another stream needs is still on the tape,   *)
(* has its fence update queued, or is about to.                             *)
FenceInv ==
    /\ Covered
    /\ pc \in EvalPlaces =>
         \A b \in needsFence : b \in todo \/ Fenced(b) \/ (pc = "fence" /\ b \in unfenced)
    /\ pc = "inputs" => SeqRange(InputsOf(arr)) \cap todo = {}
    /\ pc = "fence" => unfenced \subseteq OutputsOf(arr)

(* Updates stay in the queue, and fence counts only grow. *)
LEMMA UpdateStays ==
    ASSUME Extended, NEW s \in Streams, NEW e, NEW b, NEW n, UpdateIn(log, s, e, b, n)
    PROVE  UpdateIn(log', s, e, b, n)
BY DEF Extended, UpdateIn, Length

(* What crosses streams is on the tape at first. *)
LEMMA CrossNeeded ==
    ASSUME NEW O \in Seq(Arrays), NEW i
    PROVE  CrossStream(O, i) \subseteq Needed(SeqRange(O))
BY DEF CrossStream, Needed

(* A step that queues no fence wait keeps the waits covered; so does one    *)
(* that queues a wait for an update already queued.                         *)
LEMMA WaitsCovered ==
    ASSUME QueueOK, Covered, NEW s \in Streams, NEW t \in Task,
           log' = [log EXCEPT ![s] = Append(@, t)],
           t.kind = "fenceWait" => UpdateIn(log, t.stream, t.eval, t.arr, t.count)
    PROVE  Covered'
<1>1. Extended
  BY AppendExtends
<1> SUFFICES ASSUME NEW r \in Streams, NEW k \in 1..Length(r)', log'[r][k].kind = "fenceWait"
             PROVE  UpdateIn(log', log'[r][k].stream, log'[r][k].eval, log'[r][k].arr,
                             log'[r][k].count)
  BY DEF Covered
<1>2. CASE log'[r][k] = t
  <2>1. t.stream \in Streams
    BY DEF Task
  <2> QED
    BY <1>1, <1>2, <2>1, UpdateStays
<1>3. CASE k \in 1..Length(r) /\ log'[r][k] = log[r][k]
  <2>1. log[r][k] \in Task
    BY <1>3 DEF QueueOK, Length
  <2>2. log[r][k].stream \in Streams
    BY <2>1 DEF Task
  <2>3. UpdateIn(log, log[r][k].stream, log[r][k].eval, log[r][k].arr, log[r][k].count)
    BY <1>3 DEF Covered
  <2> QED
    BY <1>1, <1>3, <2>2, <2>3, UpdateStays
<1>4. log'[r][k] = t \/ (k \in 1..Length(r) /\ log'[r][k] = log[r][k])
  BY TaskOrigin DEF Length
<1> QED
  BY <1>2, <1>3, <1>4
-----------------------------------------------------------------------------
(* So does a step that queues nothing. *)
LEMMA WaitsSame ==
    ASSUME Covered, log' = log
    PROVE  Covered'
BY DEF Covered, UpdateIn, Length

LEMMA CoveredStep ==
    ASSUME TypeInv, Covered, [Next]_vars, ~WaitInput
    PROVE  Covered'
<1>1. QueueOK /\ cur \in 0..MaxEvals
  BY DEF TypeInv, TypeOK, QueueOK, Length
<1>2. CASE log' = log
  BY <1>2, WaitsSame
<1>3. ASSUME NEW s \in Streams, NEW kind \in Kinds, NEW a \in Arrays \cup {Sync},
             NEW e \in 0..MaxEvals, NEW st \in Streams, NEW n \in Nat,
             Push(s, kind, a, e, st, n), kind # "fenceWait"
      PROVE  Covered'
  <2>1. /\ PushedTask(kind, a, e, st, n) \in Task
        /\ log' = [log EXCEPT ![s] = Append(@, PushedTask(kind, a, e, st, n))]
    BY <1>1, <1>3, PushGrows
  <2>2. PushedTask(kind, a, e, st, n).kind # "fenceWait"
    BY <1>3 DEF PushedTask
  <2> QED
    BY <1>1, <2>1, <2>2, WaitsCovered
<1>4. CASE Dispatches
  <2>1. PICK s \in Streams, kind \in {"kernel", "release"}, a \in Arrays \cup {Sync} :
             Dispatch(s, kind, a)
    BY <1>4 DEF Dispatches
  <2>2. /\ DispatchedTask(s, kind, a) \in Task
        /\ log' = [log EXCEPT ![s] = Append(@, DispatchedTask(s, kind, a))]
    BY <1>1, <2>1, DispatchGrows DEF Kinds
  <2>3. DispatchedTask(s, kind, a).kind # "fenceWait"
    BY DEF DispatchedTask
  <2> QED
    BY <1>1, <2>2, <2>3, WaitsCovered
<1>5. CASE EvalKernel \/ Retain
  <2>1. arr \in Arrays \cup {Sync} /\ StreamFor(arr) \in Streams
    BY ArrayType DEF TypeInv, TypeOK
  <2> QED
    BY <1>2, <1>4, <1>5, <2>1 DEF EvalKernel, Retain, Dispatches, queueVars
<1>6. ASSUME NEW b \in Arrays, UpdateFence(b) PROVE Covered'
  <2>1. /\ StreamFor(arr) \in Streams /\ cur \in Evals /\ cur \in 0..MaxEvals
        /\ "fenceUpdate" \in Kinds
    BY <1>6, ArrayType DEF UpdateFence, TypeInv, TypeOK, InEval, EvalPlaces, Kinds
  <2>2. fenceCount[cur][StreamFor(arr)] + 1 \in Nat
    BY <2>1 DEF TypeInv, TypeOK
  <2> QED
    BY <1>3, <1>6, <2>1, <2>2 DEF UpdateFence
<1>7. ASSUME NEW s \in Streams, SignalEvent(s) \/ Synchronize(s) PROVE Covered'
  <2>1. /\ cur \in 0..MaxEvals /\ 0 \in Nat
        /\ "eventSignal" \in Kinds /\ "promise" \in Kinds
    BY DEF TypeInv, TypeOK, Kinds
  <2> QED
    BY <1>2, <1>3, <1>7, <2>1 DEF SignalEvent, Synchronize, queueVars
<1>8. CASE Throw \/ WaitForOne \/ NextArray \/ EndEval \/ ReturnWait \/ ReturnSynchronize
  BY <1>2, <1>8
  DEF Throw, WaitForOne, NextArray, EndEval, ReturnWait, ReturnSynchronize, queueVars
<1>9. ASSUME NEW overLimit \in BOOLEAN, Throttle(overLimit) \/ MarkEvaluated(overLimit)
      PROVE  Covered'
  BY <1>2, <1>9 DEF Throttle, MarkEvaluated, queueVars
<1>10. ASSUME NEW a \in Arrays \cup {Sync}, TakeArray(a) PROVE Covered'
  BY <1>2, <1>10 DEF TakeArray, queueVars
<1>11. ASSUME NEW O \in Requests, NEW isAsync \in BOOLEAN, NEW i \in DOMAIN O,
              BeginEval(O, i, isAsync)
       PROVE  Covered'
  BY <1>2, <1>11 DEF BeginEval, queueVars
<1>12. ASSUME NEW a \in Arrays, IsAvailable(a) \/ CallWait(a) PROVE Covered'
  BY <1>2, <1>12 DEF IsAvailable, CallWait, queueVars
<1>13. ASSUME NEW s \in Streams, Run(s) PROVE Covered'
  BY <1>2, <1>13 DEF Run
<1>14. CASE UNCHANGED vars \/ Quiescent
  BY <1>2, <1>14 DEF Quiescent, vars, queueVars
<1> QED
  BY <1>5, <1>6, <1>7, <1>8, <1>9, <1>10, <1>11, <1>12, <1>13, <1>14
  DEF Next, Caller, User, Worker

(* A step that leaves the eval and its fence counts alone, whatever it      *)
(* queues, keeps the arrays fenced that are.                                *)
LEMMA FencedStays ==
    ASSUME TypeInv, [Next]_vars, UNCHANGED <<cur, fenceCount>>,
           NEW b \in Arrays, Fenced(b)
    PROVE  Fenced(b)'
<1>1. StreamOf[b] \in Streams
  BY GraphAssumption
<1> QED
  BY <1>1, StepExtends, UpdateStays DEF Fenced
-----------------------------------------------------------------------------
(* Steps that change neither the tape nor the fences. *)
LEMMA FenceFrame ==
    ASSUME TypeInv, FenceInv, [Next]_vars, Covered',
           UNCHANGED <<cur, fenceCount, needsFence, todo, unfenced, arr, outs>>,
           pc' \in EvalPlaces => pc \in EvalPlaces,
           pc' = "inputs" => pc = "inputs",
           pc = "fence" => pc' = "fence" \/ unfenced = {} \/ pc' \notin EvalPlaces,
           pc' = "fence" => pc = "fence"
    PROVE  FenceInv'
<1>1. ASSUME pc' \in EvalPlaces, NEW b \in needsFence
      PROVE  b \in todo' \/ Fenced(b)' \/ (pc' = "fence" /\ b \in unfenced')
  <2>1. b \in todo \/ Fenced(b) \/ (pc = "fence" /\ b \in unfenced)
    BY <1>1 DEF FenceInv
  <2>2. b \in Arrays
    BY DEF TypeInv, TypeOK
  <2> QED
    BY <1>1, <2>1, <2>2, FencedStays
<1>2. pc' = "inputs" => SeqRange(InputsOf(arr))' \cap todo' = {}
  BY DEF FenceInv, SeqRange, InputsOf
<1>3. pc' = "fence" => unfenced' \subseteq OutputsOf(arr)'
  BY DEF FenceInv, OutputsOf
<1> QED
  BY <1>1, <1>2, <1>3 DEF FenceInv, Covered

LEMMA FenceStep == TypeInv /\ FenceInv /\ [Next]_vars => FenceInv'
<1> SUFFICES ASSUME TypeInv, FenceInv, [Next]_vars PROVE FenceInv'
  OBVIOUS
<1>0. QueueOK
  BY DEF TypeInv, TypeOK, QueueOK, Length
<1>1. ASSUME NEW a \in Arrays \cup {Sync}, TakeArray(a) PROVE FenceInv'
  <2>1. Covered'
    BY <1>1, CoveredStep DEF TakeArray, WaitInput, FenceInv
  <2>2. /\ UNCHANGED <<cur, fenceCount, needsFence, todo, unfenced, outs>>
        /\ pc = "tape" /\ pc' = "inputs" /\ arr' = a
    BY <1>1 DEF TakeArray, evalVars, syncVars
  <2>3. SeqRange(InputsOf(a)) \cap todo = {}
    BY <1>1 DEF TakeArray, SeqRange, InputsOf, Parents
  <2>4. SeqRange(InputsOf(arr))' \cap todo' = {}
    BY <2>2, <2>3 DEF SeqRange, InputsOf
  <2>5. ASSUME NEW b \in needsFence PROVE b \in todo \/ Fenced(b)'
    BY <2>2, <2>5, FencedStays DEF FenceInv, EvalPlaces, TypeInv, TypeOK
  <2> QED
    BY <2>1, <2>2, <2>4, <2>5 DEF FenceInv, Covered
<1>2. CASE WaitInput
  <2> DEFINE in == InputsOf(arr)[idx]
             s == StreamFor(arr)
  <2>0. Covered
    BY DEF FenceInv
  <2>1. /\ in \in Arrays /\ s \in Streams /\ StreamOf[in] \in Streams
        /\ in \in SeqRange(InputsOf(arr)) /\ pc = "inputs"
        /\ cur \in Evals /\ cur \in 0..MaxEvals
    <3>1. arr \in Arrays \cup {Sync} /\ idx \in DOMAIN InputsOf(arr)
      BY <1>2 DEF WaitInput, TypeInv, TypeOK
    <3>2. InputsOf(arr) \in Seq(Arrays) /\ s \in Streams
      BY <3>1, ArrayType DEF TypeInv
    <3>3. in \in Arrays /\ in \in SeqRange(InputsOf(arr))
      BY <3>1, <3>2 DEF SeqRange
    <3>4. cur \in Evals /\ cur \in 0..MaxEvals
      BY <1>2 DEF WaitInput, TypeInv, TypeOK, InEval, EvalPlaces
    <3> QED
      BY <1>2, <3>2, <3>3, <3>4, GraphAssumption DEF WaitInput
  <2>2. fenceCount[cur][StreamOf[in]] \in Nat /\ event[in] \in 0..MaxEvals /\ 0 \in Nat
    BY <2>1 DEF TypeInv, TypeOK
  <2>3. ASSUME in \in needsFence,
               Push(s, "fenceWait", in, cur, StreamOf[in], fenceCount[cur][StreamOf[in]])
        PROVE  Covered'
    <3> DEFINE t == PushedTask("fenceWait", in, cur, StreamOf[in],
                               fenceCount[cur][StreamOf[in]])
    <3>1. Fenced(in)
      BY <2>1, <2>3 DEF FenceInv, EvalPlaces
    <3>2. t \in Task /\ log' = [log EXCEPT ![s] = Append(@, t)]
      BY <1>0, <2>1, <2>2, <2>3, PushGrows DEF Kinds
    <3>3. UpdateIn(log, t.stream, t.eval, t.arr, t.count)
      BY <3>1 DEF Fenced, PushedTask
    <3> HIDE DEF t
    <3> QED
      BY <1>0, <2>0, <2>1, <3>2, <3>3, WaitsCovered
  <2>4. ASSUME Push(s, "eventWait", in, event[in], StreamOf[in], 0)
        PROVE  Covered'
    <3> DEFINE t == PushedTask("eventWait", in, event[in], StreamOf[in], 0)
    <3>1. t \in Task /\ log' = [log EXCEPT ![s] = Append(@, t)]
      BY <1>0, <2>1, <2>2, <2>4, PushGrows DEF Kinds
    <3>2. t.kind # "fenceWait"
      BY DEF PushedTask
    <3> HIDE DEF t
    <3> QED
      BY <1>0, <2>0, <2>1, <3>1, <3>2, WaitsCovered
  <2>5. ASSUME UNCHANGED queueVars PROVE Covered'
    BY <2>0, <2>5, WaitsSame DEF queueVars
  <2>6. Covered'
    BY <1>2, <2>3, <2>4, <2>5 DEF WaitInput
  <2>7. /\ UNCHANGED <<cur, fenceCount, needsFence, todo, unfenced, arr, outs>>
        /\ pc' = pc
    BY <1>2 DEF WaitInput, evalVars, syncVars
  <2> QED
    BY <2>1, <2>6, <2>7, FenceFrame
<1>3. CASE EvalKernel \/ Retain \/ Throw \/ WaitForOne \/ EndEval \/ ReturnSynchronize
  <2>1. /\ UNCHANGED <<cur, fenceCount, needsFence, todo, unfenced, arr, outs>>
        /\ pc \in {"inputs", "retain", "throttled", "signal", "drain"}
        /\ pc' \in {"retain", "check", "idle", "recheck"}
        /\ pc' # "idle" => pc \in EvalPlaces
    BY <1>3 DEF EvalKernel, Retain, Throw, WaitForOne, EndEval, ReturnSynchronize, Goto,
       AllInputsSeen, evalVars, stepVars, syncVars, EvalPlaces
  <2>2. Covered'
    BY <1>3, <2>1, CoveredStep DEF WaitInput, FenceInv
  <2> QED
    BY <2>1, <2>2, FenceFrame DEF EvalPlaces
<1>4. CASE NextArray
  <2>1. /\ UNCHANGED <<cur, fenceCount, needsFence, todo, unfenced, arr, outs>>
        /\ pc = "fence" /\ pc' \in {"signal", "tape"} /\ unfenced = {}
    BY <1>4 DEF NextArray, Goto, evalVars, stepVars, syncVars
  <2>2. Covered'
    BY <2>1, CoveredStep DEF WaitInput, FenceInv
  <2> QED
    BY <2>1, <2>2, FenceFrame DEF EvalPlaces
<1>5. CASE ReturnWait
  <2>1. /\ UNCHANGED <<cur, fenceCount, needsFence, todo, unfenced, arr, outs>>
        /\ pc = "wait" /\ pc' = "idle"
    BY <1>5 DEF ReturnWait, evalVars, stepVars, syncVars
  <2>2. Covered'
    BY <2>1, CoveredStep DEF WaitInput, FenceInv
  <2> QED
    BY <2>1, <2>2, FenceFrame DEF EvalPlaces
<1>6. ASSUME NEW overLimit \in BOOLEAN, Throttle(overLimit) PROVE FenceInv'
  <2>1. /\ UNCHANGED <<cur, fenceCount, needsFence, todo, unfenced, arr, outs>>
        /\ pc \in {"check", "recheck"} /\ pc' = "throttled"
    BY <1>6 DEF Throttle, evalVars, syncVars
  <2>2. Covered'
    BY <2>1, CoveredStep DEF WaitInput, FenceInv
  <2> QED
    BY <2>1, <2>2, FenceFrame DEF EvalPlaces
<1>7. ASSUME NEW overLimit \in BOOLEAN, MarkEvaluated(overLimit) PROVE FenceInv'
  <2>1. /\ UNCHANGED <<cur, fenceCount, needsFence, arr, outs>>
        /\ pc \in {"check", "recheck"} /\ pc' = "fence"
        /\ todo' = todo \ OutputsOf(arr) /\ unfenced' = OutputsOf(arr) \cap needsFence
    BY <1>7 DEF MarkEvaluated, Crossing, evalVars, syncVars
  <2>2. Covered'
    BY <2>1, CoveredStep DEF WaitInput, FenceInv
  <2>3. ASSUME NEW b \in needsFence PROVE b \in todo' \/ Fenced(b)' \/ b \in unfenced'
    BY <2>1, <2>3, FencedStays DEF FenceInv, EvalPlaces, TypeInv, TypeOK
  <2>4. unfenced' \subseteq OutputsOf(arr)'
    BY <2>1 DEF OutputsOf
  <2> QED
    BY <2>1, <2>2, <2>3, <2>4 DEF FenceInv, Covered
<1>8. ASSUME NEW b \in Arrays, UpdateFence(b) PROVE FenceInv'
  <2> DEFINE s == StreamFor(arr)
             t == PushedTask("fenceUpdate", b, cur, s, fenceCount[cur][s] + 1)
  <2>1. /\ UNCHANGED <<cur, needsFence, todo, arr, outs>>
        /\ pc = "fence" /\ pc' = "fence" /\ b \in unfenced /\ unfenced' = unfenced \ {b}
        /\ fenceCount' = [fenceCount EXCEPT ![cur][s] = @ + 1]
        /\ Push(s, "fenceUpdate", b, cur, s, fenceCount[cur][s] + 1)
    BY <1>8 DEF UpdateFence, evalVars
  <2>2. Covered'
    BY <2>1, CoveredStep DEF WaitInput, FenceInv
  <2>3. s \in Streams /\ cur \in Evals /\ cur \in 0..MaxEvals /\ fenceCount[cur][s] \in Nat
    BY <2>1, ArrayType DEF TypeInv, TypeOK, InEval, EvalPlaces
  <2>4. /\ fenceCount'[cur][s] = fenceCount[cur][s] + 1
        /\ \A r \in Streams : /\ fenceCount[cur][r] \in Int /\ fenceCount'[cur][r] \in Int
                              /\ fenceCount[cur][r] <= fenceCount'[cur][r]
    <3>1. fenceCount \in [Evals -> [Streams -> Nat]]
      BY DEF TypeInv, TypeOK
    <3> QED
      BY <2>1, <2>3, <3>1
  <2>5. StreamOf[b] = s
    BY <2>1, GraphAssumption DEF FenceInv, OutputsOf, StreamFor, TypeInv, TypeOK
  <2>6. t \in Task /\ log' = [log EXCEPT ![s] = Append(@, t)]
    BY <1>0, <2>1, <2>3, PushGrows DEF Kinds
  <2>7. Fenced(b)'
    <3>1. Len(log'[s]) = Len(log[s]) + 1 /\ log'[s][Len(log[s]) + 1] = t /\ Len(log[s]) \in Nat
      BY <1>0, <2>3, <2>6, LogGrows DEF Length
    <3>2. t.kind = "fenceUpdate" /\ t.eval = cur /\ t.arr = b /\ t.count = fenceCount'[cur][s]
      BY <2>4 DEF PushedTask
    <3> HIDE DEF t
    <3>3. /\ Len(log[s]) + 1 \in 1..Len(log'[s])
          /\ fenceCount'[cur][s] <= fenceCount'[cur][s]
      BY <3>1, <2>3, <2>4
    <3> QED
      BY <2>1, <2>5, <3>1, <3>2, <3>3 DEF Fenced, UpdateIn
  <2>8. ASSUME NEW c \in needsFence, Fenced(c) PROVE Fenced(c)'
    <3>1. c \in Arrays /\ StreamOf[c] \in Streams
      BY GraphAssumption DEF TypeInv, TypeOK
    <3>2. UpdateIn(log', StreamOf[c], cur, c, fenceCount[cur][StreamOf[c]])
      BY <2>8, <3>1, StepExtends, UpdateStays DEF Fenced
    <3>3. PICK j \in 1..Len(log'[StreamOf[c]]) :
             /\ log'[StreamOf[c]][j].kind = "fenceUpdate" /\ log'[StreamOf[c]][j].eval = cur
             /\ log'[StreamOf[c]][j].arr = c
             /\ log'[StreamOf[c]][j].count <= fenceCount[cur][StreamOf[c]]
      BY <3>2 DEF UpdateIn
    <3>4. log'[StreamOf[c]][j].count \in Int
      <4>1. log' \in [Streams -> Seq(Task)]
        BY TypeStep DEF TypeInv, TypeOK
      <4>2. log'[StreamOf[c]][j] \in Task
        BY <3>1, <4>1
      <4> QED
        BY <4>2 DEF Task
    <3>5. /\ fenceCount[cur][StreamOf[c]] <= fenceCount'[cur][StreamOf[c]]
          /\ fenceCount[cur][StreamOf[c]] \in Int /\ fenceCount'[cur][StreamOf[c]] \in Int
      BY <2>4, <3>1
    <3>6. log'[StreamOf[c]][j].count <= fenceCount'[cur][StreamOf[c]]
      BY <3>3, <3>4, <3>5
    <3> QED
      BY <2>1, <3>3, <3>6 DEF Fenced, UpdateIn
  <2>9. ASSUME NEW c \in needsFence PROVE c \in todo' \/ Fenced(c)' \/ c \in unfenced'
    BY <2>1, <2>7, <2>8, <2>9 DEF FenceInv, EvalPlaces
  <2>10. unfenced' \subseteq OutputsOf(arr)'
    BY <2>1 DEF FenceInv, OutputsOf
  <2> QED
    BY <2>1, <2>2, <2>9, <2>10 DEF FenceInv, Covered
<1>9. ASSUME NEW s \in Streams, SignalEvent(s) PROVE FenceInv'
  <2>1. /\ UNCHANGED <<cur, fenceCount, needsFence, todo, unfenced, arr, outs>>
        /\ pc' = pc /\ pc = "signal"
    BY <1>9 DEF SignalEvent, evalVars, stepVars, syncVars
  <2>2. Covered'
    BY <2>1, CoveredStep DEF WaitInput, FenceInv
  <2> QED
    BY <2>1, <2>2, FenceFrame
<1>10. ASSUME NEW s \in Streams, Synchronize(s) PROVE FenceInv'
  <2>1. /\ UNCHANGED <<cur, fenceCount, needsFence, todo, unfenced, arr, outs>>
        /\ pc = "idle" /\ pc' = "drain"
    BY <1>10 DEF Synchronize, evalVars, syncVars
  <2>2. Covered'
    BY <2>1, CoveredStep DEF WaitInput, FenceInv
  <2> QED
    BY <2>1, <2>2, FenceFrame DEF EvalPlaces
<1>11. ASSUME NEW O \in Requests, NEW isAsync \in BOOLEAN, NEW i \in DOMAIN O,
              BeginEval(O, i, isAsync)
       PROVE  FenceInv'
  <2>1. /\ pc = "idle" /\ pc' = "tape" /\ needsFence' = CrossStream(O, i)
        /\ todo' = Needed(SeqRange(O))
    BY <1>11 DEF BeginEval
  <2>2. Covered'
    BY <2>1, CoveredStep DEF WaitInput, FenceInv
  <2>3. needsFence' \subseteq todo'
    BY <2>1, CrossNeeded, GraphAssumption
  <2> QED
    BY <2>1, <2>2, <2>3 DEF FenceInv, Covered
<1>12. ASSUME NEW a \in Arrays, IsAvailable(a) PROVE FenceInv'
  <2>1. UNCHANGED <<pc, cur, fenceCount, needsFence, todo, unfenced, arr, outs>> /\ pc = "idle"
    BY <1>12 DEF IsAvailable, callVars, evalVars, stepVars, syncVars
  <2>2. Covered'
    BY <2>1, CoveredStep DEF WaitInput, FenceInv
  <2> QED
    BY <2>1, <2>2, FenceFrame
<1>13. ASSUME NEW a \in Arrays, CallWait(a) PROVE FenceInv'
  <2>1. pc = "idle" /\ pc' = "wait"
    BY <1>13 DEF CallWait
  <2>2. Covered'
    BY <2>1, CoveredStep DEF WaitInput, FenceInv
  <2> QED
    BY <2>1, <2>2 DEF FenceInv, Covered, EvalPlaces
<1>14. ASSUME NEW s \in Streams, Run(s) PROVE FenceInv'
  <2>1. /\ UNCHANGED <<pc, cur, fenceCount, needsFence, todo, unfenced, arr, outs>>
        /\ log' = log
    BY <1>14 DEF Run, callVars, evalVars, stepVars
  <2>2. Covered'
    BY <2>1 DEF FenceInv, Covered, UpdateIn, Length
  <2> QED
    BY <2>1, <2>2, FenceFrame
<1>15. CASE UNCHANGED vars \/ Quiescent
  <2>1. /\ UNCHANGED <<pc, cur, fenceCount, needsFence, todo, unfenced, arr, outs>>
        /\ log' = log
    BY <1>15 DEF Quiescent, vars, callVars, evalVars, stepVars, syncVars, queueVars
  <2>2. Covered'
    BY <2>1 DEF FenceInv, Covered, UpdateIn, Length
  <2> QED
    BY <2>1, <2>2, FenceFrame
<1> QED
  BY <1>1, <1>2, <1>3, <1>4, <1>5, <1>6, <1>7, <1>8, <1>9, <1>10, <1>11, <1>12, <1>13, <1>14,
     <1>15 DEF Next, Caller, User, Worker

(* Every fence wait that eval_impl enqueues follows, in some queue, the     *)
(* update it waits for: it waits for something that is bound to come.       *)
THEOREM FenceCorrect == Spec => []FenceWaitCovered
<1>1. Init => FenceInv
  BY DEF Init, FenceInv, Covered, EvalPlaces, Length
<1>2. FenceInv => FenceWaitCovered
  BY DEF FenceInv, Covered, UpdateIn, FenceWaitCovered, Length
<1>3. Spec => []TypeInv
  BY InitType, TypeStep, PTL DEF Spec
<1> QED
  BY <1>1, <1>2, <1>3, FenceStep, PTL DEF Spec
-----------------------------------------------------------------------------
(* Evaluated once *)

(* Between the release of a primitive and the change of its status. *)
Releasing == {"check", "throttled", "recheck"}

(* What a release task stands for has changed status or is about to, what   *)
(* is on the tape has not.                                                  *)
Released ==
    \A s \in Streams : \A k \in 1..Length(s) : IsRelease(log[s][k]) =>
        \A b \in Outputs[log[s][k].arr] :
            b \in Unscheduled => pc \in Releasing /\ b \in OutputsOf(arr)

OnceInv ==
    /\ EvaluatedOnce
    /\ Released
    /\ pc \in EvalPlaces => todo \subseteq Unscheduled
    /\ pc \in {"inputs", "retain"} \cup Releasing => arr \in todo \cup {Sync}

(* What has to be shown for the arrays to be evaluated once after a step.   *)
LEMMA OnceIntro ==
    ASSUME \A q, r \in Streams : \A j \in 1..Length(q)', k \in 1..Length(r)' :
              /\ IsRelease(log'[q][j]) /\ IsRelease(log'[r][k])
              /\ log'[r][k].arr \in Outputs[log'[q][j].arr]
              => q = r /\ j = k
    PROVE  EvaluatedOnce'
BY DEF EvaluatedOnce

(* A step that does not queue a release of an array still Unscheduled.      *)
LEMMA OnceAppend ==
    ASSUME QueueOK, EvaluatedOnce, Released, NEW s \in Streams, NEW t \in Task,
           log' = [log EXCEPT ![s] = Append(@, t)],
           IsRelease(t) => t.arr \in Unscheduled /\ pc \notin Releasing
    PROVE  EvaluatedOnce'
<1> SUFFICES ASSUME NEW q \in Streams, NEW r \in Streams,
                    NEW j \in 1..Length(q)', NEW k \in 1..Length(r)',
                    IsRelease(log'[q][j]), IsRelease(log'[r][k]),
                    log'[r][k].arr \in Outputs[log'[q][j].arr]
             PROVE  q = r /\ j = k
  BY OnceIntro
<1>1. /\ \/ q = s /\ j = Length(s) + 1 /\ log'[q][j] = t
         \/ j \in 1..Length(q) /\ log'[q][j] = log[q][j]
      /\ \/ r = s /\ k = Length(s) + 1 /\ log'[r][k] = t
         \/ k \in 1..Length(r) /\ log'[r][k] = log[r][k]
  BY TaskOrigin DEF Length
<1>2. CASE log'[q][j] = t /\ k \in 1..Length(r) /\ log'[r][k] = log[r][k]
  <2>1. t.arr \in Arrays /\ log[r][k].arr \in Arrays
    <3>1. log[r][k] \in Task
      BY <1>2 DEF QueueOK, Length
    <3> QED
      BY <1>2, <3>1 DEF Task, IsRelease
  <2>2. t.arr \in Outputs[log[r][k].arr]
    <3>1. log[r][k].arr \in Outputs[t.arr]
      BY <1>2
    <3> QED
      BY <2>1, <3>1, GraphAssumption
  <2> QED
    BY <1>2, <2>2 DEF Released
<1>3. CASE log'[r][k] = t /\ j \in 1..Length(q) /\ log'[q][j] = log[q][j]
  BY <1>3 DEF Released
<1>4. CASE /\ j \in 1..Length(q) /\ log'[q][j] = log[q][j]
           /\ k \in 1..Length(r) /\ log'[r][k] = log[r][k]
  <2>1. /\ IsRelease(log[q][j]) /\ IsRelease(log[r][k])
        /\ log[r][k].arr \in Outputs[log[q][j].arr]
    BY <1>4
  <2> QED
    BY <1>4, <2>1, ZenonT(30) DEF EvaluatedOnce
<1> QED
  BY <1>1, <1>2, <1>3, <1>4

LEMMA ReleasedAppend ==
    ASSUME QueueOK, NEW s \in Streams, NEW t \in Task,
           log' = [log EXCEPT ![s] = Append(@, t)], ~IsRelease(t),
           NEW r \in Streams, NEW k \in 1..Length(r)', IsRelease(log'[r][k])
    PROVE  k \in 1..Length(r) /\ log'[r][k] = log[r][k]
<1>1. log'[r][k] = t \/ (k \in 1..Length(r) /\ log'[r][k] = log[r][k])
  BY TaskOrigin DEF Length
<1> QED
  BY <1>1

(* A step that queues no release, and of which no array comes back.         *)
NoRelease ==
    \A r \in Streams : \A k \in 1..Length(r)' :
        IsRelease(log'[r][k]) => k \in 1..Length(r) /\ log'[r][k] = log[r][k]

LEMMA OnceFrame ==
    ASSUME TypeInv, OnceInv, NoRelease
    PROVE  EvaluatedOnce'
<1> SUFFICES ASSUME NEW q \in Streams, NEW r \in Streams,
                    NEW j \in 1..Length(q)', NEW k \in 1..Length(r)',
                    IsRelease(log'[q][j]), IsRelease(log'[r][k]),
                    log'[r][k].arr \in Outputs[log'[q][j].arr]
             PROVE  q = r /\ j = k
  BY OnceIntro
<1>1. j \in 1..Length(q) /\ log'[q][j] = log[q][j]
  BY DEF NoRelease, Length
<1>2. k \in 1..Length(r) /\ log'[r][k] = log[r][k]
  BY DEF NoRelease, Length
<1> QED
  BY <1>1, <1>2 DEF OnceInv, EvaluatedOnce

(* Every step but Retain queues no release. *)
LEMMA NoReleaseStep ==
    ASSUME TypeInv, [Next]_vars, ~Retain
    PROVE  NoRelease
<1>1. QueueOK /\ cur \in 0..MaxEvals
  BY DEF TypeInv, TypeOK, QueueOK, Length
<1>2. CASE log' = log
  BY <1>2 DEF NoRelease, Length
<1>3. ASSUME NEW s \in Streams, NEW kind \in Kinds, NEW a \in Arrays \cup {Sync},
             NEW e \in 0..MaxEvals, NEW st \in Streams, NEW n \in Nat,
             Push(s, kind, a, e, st, n), kind # "release"
      PROVE  NoRelease
  <2> DEFINE t == PushedTask(kind, a, e, st, n)
  <2>1. t \in Task /\ log' = [log EXCEPT ![s] = Append(@, t)]
    BY <1>1, <1>3, PushGrows
  <2>2. ~IsRelease(t)
    BY <1>3 DEF PushedTask, IsRelease
  <2> HIDE DEF t
  <2> QED
    BY <1>1, <2>1, <2>2, ReleasedAppend DEF NoRelease, Length
<1>4. CASE EvalKernel
  <2> DEFINE s == StreamFor(arr)
             t == DispatchedTask(s, "kernel", arr)
  <2>1. arr \in Arrays \cup {Sync} /\ s \in Streams /\ "kernel" \in Kinds
    BY ArrayType DEF TypeInv, TypeOK, Kinds
  <2>2. CASE Dispatch(s, "kernel", arr)
    <3>1. t \in Task /\ log' = [log EXCEPT ![s] = Append(@, t)]
      BY <1>1, <2>1, <2>2, DispatchGrows
    <3>2. ~IsRelease(t)
      BY DEF DispatchedTask, IsRelease
    <3> HIDE DEF t
    <3> QED
      BY <1>1, <2>1, <3>1, <3>2, ReleasedAppend DEF NoRelease, Length
  <2> QED
    BY <1>2, <1>4, <2>2 DEF EvalKernel, queueVars
<1>5. CASE WaitInput
  <2> DEFINE in == InputsOf(arr)[idx]
  <2>1. /\ in \in Arrays /\ StreamFor(arr) \in Streams /\ StreamOf[in] \in Streams
        /\ cur \in Evals /\ cur \in 0..MaxEvals
    <3>1. arr \in Arrays \cup {Sync} /\ idx \in DOMAIN InputsOf(arr)
      BY <1>5 DEF WaitInput, TypeInv, TypeOK
    <3>2. InputsOf(arr) \in Seq(Arrays) /\ StreamFor(arr) \in Streams
      BY <3>1, ArrayType DEF TypeInv
    <3>3. in \in Arrays
      BY <3>1, <3>2
    <3>4. cur \in Evals /\ cur \in 0..MaxEvals
      BY <1>5 DEF WaitInput, TypeInv, TypeOK, InEval, EvalPlaces
    <3> QED
      BY <3>2, <3>3, <3>4, GraphAssumption
  <2>2. fenceCount[cur][StreamOf[in]] \in Nat /\ event[in] \in 0..MaxEvals /\ 0 \in Nat
    BY <2>1 DEF TypeInv, TypeOK
  <2>3. "fenceWait" \in Kinds /\ "eventWait" \in Kinds
    BY DEF Kinds
  <2> QED
    BY <1>2, <1>3, <1>5, <2>1, <2>2, <2>3 DEF WaitInput, queueVars
<1>6. ASSUME NEW b \in Arrays, UpdateFence(b) PROVE NoRelease
  <2>1. /\ StreamFor(arr) \in Streams /\ cur \in Evals /\ cur \in 0..MaxEvals
        /\ "fenceUpdate" \in Kinds
    BY <1>6, ArrayType DEF UpdateFence, TypeInv, TypeOK, InEval, EvalPlaces, Kinds
  <2>2. fenceCount[cur][StreamFor(arr)] + 1 \in Nat
    BY <2>1 DEF TypeInv, TypeOK
  <2> QED
    BY <1>3, <1>6, <2>1, <2>2 DEF UpdateFence
<1>7. ASSUME NEW s \in Streams, SignalEvent(s) \/ Synchronize(s) PROVE NoRelease
  <2>1. /\ cur \in 0..MaxEvals /\ 0 \in Nat
        /\ "eventSignal" \in Kinds /\ "promise" \in Kinds
    BY DEF TypeInv, TypeOK, Kinds
  <2> QED
    BY <1>2, <1>3, <1>7, <2>1 DEF SignalEvent, Synchronize, queueVars
<1>8. CASE Throw \/ WaitForOne \/ NextArray \/ EndEval \/ ReturnWait \/ ReturnSynchronize
  BY <1>2, <1>8
  DEF Throw, WaitForOne, NextArray, EndEval, ReturnWait, ReturnSynchronize, queueVars
<1>9. ASSUME NEW overLimit \in BOOLEAN, Throttle(overLimit) \/ MarkEvaluated(overLimit)
      PROVE  NoRelease
  BY <1>2, <1>9 DEF Throttle, MarkEvaluated, queueVars
<1>10. ASSUME NEW a \in Arrays \cup {Sync}, TakeArray(a) PROVE NoRelease
  BY <1>2, <1>10 DEF TakeArray, queueVars
<1>11. ASSUME NEW O \in Requests, NEW isAsync \in BOOLEAN, NEW i \in DOMAIN O,
              BeginEval(O, i, isAsync)
       PROVE  NoRelease
  BY <1>2, <1>11 DEF BeginEval, queueVars
<1>12. ASSUME NEW a \in Arrays, IsAvailable(a) \/ CallWait(a) PROVE NoRelease
  BY <1>2, <1>12 DEF IsAvailable, CallWait, queueVars
<1>13. ASSUME NEW s \in Streams, Run(s) PROVE NoRelease
  BY <1>2, <1>13 DEF Run
<1>14. CASE UNCHANGED vars \/ Quiescent
  BY <1>2, <1>14 DEF Quiescent, vars, queueVars
<1> QED
  BY <1>4, <1>5, <1>6, <1>7, <1>8, <1>9, <1>10, <1>11, <1>12, <1>13, <1>14
  DEF Next, Caller, User, Worker
-----------------------------------------------------------------------------
(* Steps that change neither the tape nor a status. *)
LEMMA OnceSame ==
    ASSUME TypeInv, OnceInv, NoRelease, UNCHANGED <<todo, arr, status>>,
           pc' \in EvalPlaces => pc \in EvalPlaces,
           pc' \in {"inputs", "retain"} \cup Releasing =>
               pc \in {"inputs", "retain"} \cup Releasing,
           pc \in Releasing => pc' \in Releasing
    PROVE  OnceInv'
<1>1. EvaluatedOnce'
  BY OnceFrame
<1>2. Released'
  <2> SUFFICES ASSUME NEW s \in Streams, NEW k \in 1..Length(s)', IsRelease(log'[s][k]),
                      NEW b \in Outputs[log'[s][k].arr], b \in Unscheduled'
               PROVE  pc' \in Releasing /\ b \in OutputsOf(arr)'
    BY DEF Released
  <2>1. k \in 1..Length(s) /\ log'[s][k] = log[s][k]
    BY DEF NoRelease, Length
  <2>2. b \in Unscheduled
    BY DEF Unscheduled
  <2> QED
    BY <2>1, <2>2 DEF OnceInv, Released, OutputsOf
<1>3. pc' \in EvalPlaces => todo' \subseteq Unscheduled'
  BY DEF OnceInv, Unscheduled
<1> QED
  BY <1>1, <1>2, <1>3 DEF OnceInv

(* Steps outside of the stretch between a release and the change of status  *)
(* that take no array back to Unscheduled.                                  *)
LEMMA ReleasedSame ==
    ASSUME OnceInv, NoRelease, pc \notin Releasing, Unscheduled' \subseteq Unscheduled
    PROVE  Released'
<1> SUFFICES ASSUME NEW s \in Streams, NEW k \in 1..Length(s)', IsRelease(log'[s][k]),
                    NEW b \in Outputs[log'[s][k].arr], b \in Unscheduled'
             PROVE  FALSE
  BY DEF Released
<1>1. k \in 1..Length(s) /\ log'[s][k] = log[s][k]
  BY DEF NoRelease, Length
<1> QED
  BY <1>1 DEF OnceInv, Released

LEMMA OnceStep == TypeInv /\ OnceInv /\ [Next]_vars => OnceInv'
<1> SUFFICES ASSUME TypeInv, OnceInv, [Next]_vars PROVE OnceInv'
  OBVIOUS
<1>0. QueueOK
  BY DEF TypeInv, TypeOK, QueueOK, Length
<1>1. ASSUME NEW a \in Arrays \cup {Sync}, TakeArray(a) PROVE OnceInv'
  <2>1. /\ pc = "tape" /\ pc' = "inputs" /\ arr' = a /\ a \in todo \cup {Sync}
        /\ UNCHANGED <<todo, status>>
    BY <1>1 DEF TakeArray
  <2>2. NoRelease
    BY <2>1, NoReleaseStep DEF Retain
  <2>3. Unscheduled' = Unscheduled
    BY <2>1 DEF Unscheduled
  <2>4. Released' /\ EvaluatedOnce'
    BY <2>1, <2>2, <2>3, ReleasedSame, OnceFrame DEF Releasing
  <2> QED
    BY <2>1, <2>3, <2>4 DEF OnceInv, EvalPlaces, Releasing
<1>2. CASE WaitInput
  <2>1. UNCHANGED <<pc, todo, arr, status>> /\ pc = "inputs"
    BY <1>2 DEF WaitInput
  <2> QED
    BY <2>1, NoReleaseStep, OnceSame DEF Retain
<1>3. CASE EvalKernel \/ Throw \/ WaitForOne \/ NextArray \/ EndEval \/ ReturnSynchronize
  <2>1. /\ UNCHANGED <<todo, arr, status>>
        /\ \/ pc = "inputs" /\ pc' \in {"retain", "idle"}
           \/ pc = "throttled" /\ pc' = "recheck"
           \/ pc = "fence" /\ pc' \in {"signal", "tape"}
           \/ pc \in {"signal", "drain"} /\ pc' = "idle"
    BY <1>3 DEF EvalKernel, Throw, WaitForOne, NextArray, EndEval, ReturnSynchronize, Goto,
       AllInputsSeen, stepVars, arrayVars
  <2>2. NoRelease
    BY <2>1, NoReleaseStep DEF Retain
  <2> QED
    BY <2>1, <2>2, OnceSame DEF EvalPlaces, Releasing
<1>4. CASE Retain
  <2> DEFINE s == StreamFor(arr)
             t == DispatchedTask(s, "release", arr)
  <2>1. /\ pc = "retain" /\ pc' = "check" /\ UNCHANGED <<todo, arr, status>>
        /\ Dispatch(s, "release", arr)
    BY <1>4 DEF Retain, Goto, stepVars, arrayVars
  <2>2. arr \in Arrays \cup {Sync} /\ s \in Streams /\ "release" \in Kinds /\ cur \in 0..MaxEvals
    BY ArrayType DEF TypeInv, TypeOK, Kinds
  <2>3. t \in Task /\ log' = [log EXCEPT ![s] = Append(@, t)]
    BY <1>0, <2>1, <2>2, DispatchGrows
  <2>4. t.arr = arr
    BY DEF DispatchedTask
  <2>5. IsRelease(t) => t.arr \in Unscheduled /\ pc \notin Releasing
    BY <2>1, <2>4 DEF OnceInv, EvalPlaces, Releasing, IsRelease
  <2> HIDE DEF t
  <2>6. EvaluatedOnce'
    BY <1>0, <2>2, <2>3, <2>5, OnceAppend DEF OnceInv
  <2>7. Released'
    <3> SUFFICES ASSUME NEW r \in Streams, NEW k \in 1..Length(r)', IsRelease(log'[r][k]),
                        NEW b \in Outputs[log'[r][k].arr], b \in Unscheduled'
                 PROVE  pc' \in Releasing /\ b \in OutputsOf(arr)'
      BY DEF Released
    <3>1. log'[r][k] = t \/ (k \in 1..Length(r) /\ log'[r][k] = log[r][k])
      BY <1>0, <2>2, <2>3, TaskOrigin DEF Length
    <3>2. CASE log'[r][k] = t
      BY <2>1, <2>4, <3>2 DEF Releasing, OutputsOf, IsRelease
    <3>3. CASE k \in 1..Length(r) /\ log'[r][k] = log[r][k]
      BY <2>1, <3>3 DEF OnceInv, Released, Unscheduled, Releasing
    <3> QED
      BY <3>1, <3>2, <3>3
  <2>8. todo' \subseteq Unscheduled'
    BY <2>1 DEF OnceInv, EvalPlaces, Unscheduled
  <2> QED
    BY <2>1, <2>6, <2>7, <2>8 DEF OnceInv, Releasing
<1>5. ASSUME NEW overLimit \in BOOLEAN, Throttle(overLimit) PROVE OnceInv'
  <2>1. UNCHANGED <<todo, arr, status>> /\ pc \in {"check", "recheck"} /\ pc' = "throttled"
    BY <1>5 DEF Throttle, arrayVars
  <2>2. NoRelease
    BY <2>1, NoReleaseStep DEF Retain
  <2> QED
    BY <2>1, <2>2, OnceSame DEF EvalPlaces, Releasing
<1>6. ASSUME NEW overLimit \in BOOLEAN, MarkEvaluated(overLimit) PROVE OnceInv'
  <2>1. /\ pc \in {"check", "recheck"} /\ pc' = "fence" /\ arr' = arr
        /\ todo' = todo \ OutputsOf(arr)
    BY <1>6 DEF MarkEvaluated
  <2>2. NoRelease
    BY <2>1, NoReleaseStep DEF Retain
  <2>3. Unscheduled' = Unscheduled \ OutputsOf(arr)
    BY <1>6 DEF MarkEvaluated, StatusAfter, Unscheduled
  <2>4. Released'
    <3> SUFFICES ASSUME NEW s \in Streams, NEW k \in 1..Length(s)', IsRelease(log'[s][k]),
                        NEW b \in Outputs[log'[s][k].arr], b \in Unscheduled'
                 PROVE  FALSE
      BY DEF Released
    <3>1. k \in 1..Length(s) /\ log'[s][k] = log[s][k]
      BY <2>2 DEF NoRelease, Length
    <3> QED
      BY <2>3, <3>1 DEF OnceInv, Released
  <2> QED
    BY <2>1, <2>2, <2>3, <2>4, OnceFrame DEF OnceInv, EvalPlaces, Releasing
<1>7. ASSUME NEW b \in Arrays, UpdateFence(b) PROVE OnceInv'
  <2>1. UNCHANGED <<pc, todo, arr, status>> /\ pc = "fence"
    BY <1>7 DEF UpdateFence, arrayVars
  <2> QED
    BY <2>1, NoReleaseStep, OnceSame DEF Retain
<1>8. ASSUME NEW s \in Streams, SignalEvent(s) \/ Synchronize(s) PROVE OnceInv'
  <2>1. /\ UNCHANGED <<todo, arr, status>>
        /\ \/ pc = "signal" /\ pc' = "signal"
           \/ pc = "idle" /\ pc' = "drain"
    BY <1>8 DEF SignalEvent, Synchronize, stepVars, arrayVars
  <2>2. NoRelease
    BY <2>1, NoReleaseStep DEF Retain
  <2> QED
    BY <2>1, <2>2, OnceSame DEF EvalPlaces, Releasing
<1>9. ASSUME NEW O \in Requests, NEW isAsync \in BOOLEAN, NEW i \in DOMAIN O,
             BeginEval(O, i, isAsync)
      PROVE  OnceInv'
  <2>1. pc = "idle" /\ pc' = "tape" /\ status' = status /\ todo' \subseteq Unscheduled
    BY <1>9 DEF BeginEval, arrayVars, Needed
  <2>2. NoRelease
    BY <2>1, NoReleaseStep DEF Retain
  <2>3. Unscheduled' = Unscheduled
    BY <2>1 DEF Unscheduled
  <2> QED
    BY <2>1, <2>2, <2>3, ReleasedSame, OnceFrame DEF OnceInv, Releasing
<1>10. ASSUME NEW a \in Arrays, IsAvailable(a) \/ CallWait(a) PROVE OnceInv'
  <2>1. /\ pc = "idle" /\ pc' \in {"idle", "wait"}
        /\ status' = status \/ SetAvailable(a)
    BY <1>10 DEF IsAvailable, CallWait, callVars, arrayVars
  <2>2. NoRelease
    BY <2>1, NoReleaseStep DEF Retain
  <2>3. Unscheduled' \subseteq Unscheduled
    BY <2>1 DEF Unscheduled, SetAvailable, TypeInv, TypeOK
  <2> QED
    BY <2>1, <2>2, <2>3, ReleasedSame, OnceFrame DEF OnceInv, Releasing, EvalPlaces
<1>11. CASE ReturnWait
  <2>1. pc = "wait" /\ pc' = "idle" /\ SetAvailable(arr)
    BY <1>11 DEF ReturnWait
  <2>2. NoRelease
    BY <2>1, NoReleaseStep DEF Retain
  <2>3. Unscheduled' \subseteq Unscheduled
    BY <2>1 DEF Unscheduled, SetAvailable, TypeInv, TypeOK
  <2> QED
    BY <2>1, <2>2, <2>3, ReleasedSame, OnceFrame DEF OnceInv, Releasing, EvalPlaces
<1>12. CASE (\E s \in Streams : Run(s)) \/ UNCHANGED vars \/ Quiescent
  <2>1. UNCHANGED <<pc, todo, arr, status, log>>
    BY <1>12 DEF Run, Quiescent, vars, callVars, stepVars, arrayVars, queueVars
  <2>2. NoRelease
    BY <2>1 DEF NoRelease, Length
  <2> QED
    BY <2>1, <2>2, OnceSame
<1> QED
  BY <1>1, <1>2, <1>3, <1>4, <1>5, <1>6, <1>7, <1>8, <1>9, <1>10, <1>11, <1>12
  DEF Next, Caller, User, Worker

(* A primitive is evaluated by one eval only and its outputs are released   *)
(* by one task, whatever evals overlap and wherever an exception leaves one. *)
THEOREM OnceCorrect == Spec => []EvaluatedOnce
<1>1. Init => OnceInv
  BY DEF Init, OnceInv, EvaluatedOnce, Released, Releasing, EvalPlaces, Length
<1>2. OnceInv => EvaluatedOnce
  BY DEF OnceInv
<1>3. Spec => []TypeInv
  BY InitType, TypeStep, PTL DEF Spec
<1> QED
  BY <1>1, <1>2, <1>3, OnceStep, PTL DEF Spec


-----------------------------------------------------------------------------
(* The queues *)

(* A release of p in the first n tasks of queue s. *)
ReleasedTo(lg, s, n, p) ==
    \E j \in 1..n : IsRelease(lg[s][j]) /\ p \in Outputs[lg[s][j].arr]

(* Once t has run, p has been computed. *)
Carries(t, p) ==
    \/ IsRelease(t) /\ p \in Outputs[t.arr]
    \/ t.kind \in {"fenceWait", "eventWait"} /\ t.arr = p

(* p has been computed by when queue s has run n tasks. *)
Behind(lg, done, s, n, p) ==
    p \in done \/ \E j \in 1..n : Carries(lg[s][j], p)

IsSignal(t, e) == t.kind = "eventSignal" /\ t.eval = e
IsUpdate(t, e) == t.kind = "fenceUpdate" /\ t.eval = e
UsesInputs(t) == t.kind \in {"kernel", "release"} /\ t.arr # Sync

Done ==
    \A s \in Streams : \A j \in 1..pos[s] : \A p \in Arrays :
        Carries(log[s][j], p) => p \in computed

Guarded ==
    \A s \in Streams : \A k \in 1..Length(s) : UsesInputs(log[s][k]) =>
        \A p \in Parents(log[s][k].arr) : Behind(log, computed, s, k - 1, p)

UpdatesAfter ==
    \A s \in Streams : \A k \in 1..Length(s) : log[s][k].kind = "fenceUpdate" =>
        log[s][k].stream = s /\ ReleasedTo(log, s, k - 1, log[s][k].arr)

UpdatesCounted ==
    \A s \in Streams, e \in Evals :
        /\ fenceValue[e][s] <= fenceCount[e][s]
        /\ \A k \in 1..Length(s) : IsUpdate(log[s][k], e) =>
             /\ log[s][k].count <= fenceCount[e][s]
             /\ log[s][k].count <= fenceValue[e][s] => k <= pos[s]
             /\ \A j \in 1..(k - 1) :
                  IsUpdate(log[s][j], e) => log[s][j].count < log[s][k].count

SignalsRun ==
    /\ \A s \in Streams : \A k \in 1..Length(s) :
         log[s][k].kind = "eventSignal" => log[s][k].stream = s
    /\ \A s \in Streams, e \in Evals : signaled[e][s] =>
         \E j \in 1..pos[s] : IsSignal(log[s][j], e)

(* Whoever waits for the event of eval e on the stream of p gets p. *)
SignalsCover(lg, s, e, p) ==
    /\ ReleasedTo(lg, s, Len(lg[s]), p)
    /\ \A j \in 1..Len(lg[s]) : IsSignal(lg[s][j], e) => ReleasedTo(lg, s, j - 1, p)

WaitsSound ==
    \A s \in Streams : \A k \in 1..Length(s) : log[s][k].kind = "eventWait" =>
        SignalsCover(log, log[s][k].stream, log[s][k].eval, log[s][k].arr)

ComputedClosed ==
    /\ Leaves \subseteq computed
    /\ \A a \in computed : Parents(a) \subseteq computed /\ Outputs[a] \subseteq computed

(* A fence or an event is that of an eval that has begun.                   *)
Named ==
    \A s \in Streams : \A k \in 1..Length(s) :
        log[s][k].kind \in {"fenceWait", "fenceUpdate", "eventWait", "eventSignal"} =>
            log[s][k].eval \in Evals

QueueInv ==
    Named /\ Done /\ Guarded /\ UpdatesAfter /\ UpdatesCounted /\ SignalsRun /\ WaitsSound
    /\ ComputedClosed

-----------------------------------------------------------------------------
(* Tasks stay where they are *)

LEMMA Longer ==
    ASSUME NEW lg, NEW done, NEW s, NEW n \in Int, NEW m \in Int, n <= m, NEW p
    PROVE  /\ ReleasedTo(lg, s, n, p) => ReleasedTo(lg, s, m, p)
           /\ Behind(lg, done, s, n, p) => Behind(lg, done, s, m, p)
<1>1. 1..n \subseteq 1..m
  OBVIOUS
<1> QED
  BY <1>1 DEF ReleasedTo, Behind

LEMMA TasksStay ==
    ASSUME Extended, computed \subseteq computed', NEW s \in Streams, NEW n \in Int,
           n <= Length(s), NEW p
    PROVE  /\ ReleasedTo(log, s, n, p) <=> ReleasedTo(log', s, n, p)
           /\ Behind(log, computed, s, n, p) => Behind(log', computed', s, n, p)
<1>1. \A j \in 1..n : log'[s][j] = log[s][j]
  BY DEF Extended
<1> QED
  BY <1>1 DEF ReleasedTo, Behind

(* A queue that has run past what carries p has computed it.                *)
LEMMA BehindDone ==
    ASSUME Done, NEW s \in Streams, NEW n \in Int, pos[s] \in Int, n <= pos[s],
           NEW p \in Arrays, Behind(log, computed, s, n, p)
    PROVE  p \in computed
<1>1. 1..n \subseteq 1..pos[s]
  OBVIOUS
<1> QED
  BY <1>1 DEF Behind, Done

LEMMA ReleasedDone ==
    ASSUME Done, NEW s \in Streams, NEW n \in Int, pos[s] \in Int, n <= pos[s],
           NEW p \in Arrays, ReleasedTo(log, s, n, p)
    PROVE  p \in computed
<1>1. Behind(log, computed, s, n, p)
  BY DEF ReleasedTo, Behind, Carries
<1> QED
  BY <1>1, BehindDone

LEMMA QueueQuiet ==
    ASSUME QueueInv, UNCHANGED <<log, pos, computed, fenceCount, fenceValue, signaled>>
    PROVE  QueueInv'
<1> USE DEF QueueInv
<1>1. Named' /\ Done' /\ Guarded'
  BY DEF Named, Done, Guarded, Length
<1>2. UpdatesAfter' /\ UpdatesCounted' /\ SignalsRun'
  BY DEF UpdatesAfter, UpdatesCounted, SignalsRun, Length
<1>3. WaitsSound' /\ ComputedClosed'
  BY DEF WaitsSound, ComputedClosed, SignalsCover, Length
<1> QED
  BY <1>1, <1>2, <1>3

-----------------------------------------------------------------------------
(* What an appended task must satisfy.                                      *)
Sound(s, t) ==
    /\ t.kind \in {"fenceWait", "fenceUpdate", "eventWait", "eventSignal"} => t.eval \in Evals
    /\ UsesInputs(t) => \A p \in Parents(t.arr) : Behind(log, computed, s, Length(s), p)
    /\ t.kind = "fenceUpdate" => /\ t.stream = s /\ ReleasedTo(log, s, Length(s), t.arr)
                                /\ t.count = fenceCount[t.eval][s] + 1
                                /\ fenceCount' = [fenceCount EXCEPT ![t.eval][s] = @ + 1]
    /\ t.kind # "fenceUpdate" => fenceCount' = fenceCount
    /\ t.kind = "eventWait" => t.stream \in Streams /\ SignalsCover(log, t.stream, t.eval, t.arr)
    /\ t.kind = "eventSignal" => t.stream = s

LEMMA CountsAppend ==
    ASSUME TypeInv, UpdatesCounted, NEW s \in Streams, NEW t \in Task, Sound(s, t),
           log' = [log EXCEPT ![s] = Append(@, t)], UNCHANGED <<pos, fenceValue>>
    PROVE  UpdatesCounted'
<1>0. QueueOK
  BY DEF TypeInv, TypeOK, QueueOK, Length
<1> SUFFICES ASSUME NEW r \in Streams, NEW e \in Evals
             PROVE  /\ fenceValue[e][r] <= fenceCount'[e][r]
                    /\ \A k \in 1..Len(log'[r]) : IsUpdate(log'[r][k], e) =>
                         /\ log'[r][k].count <= fenceCount'[e][r]
                         /\ log'[r][k].count <= fenceValue[e][r] => k <= pos[r]
                         /\ \A j \in 1..(k - 1) :
                              IsUpdate(log'[r][j], e) => log'[r][j].count < log'[r][k].count
  BY DEF UpdatesCounted, Length
<1>1. /\ fenceCount[e][r] \in Int /\ fenceValue[e][r] \in Int
      /\ fenceCount'[e][r] \in Int /\ fenceCount'[e][r] >= fenceCount[e][r]
      /\ fenceValue[e][r] <= fenceCount[e][r] /\ Length(r) \in Nat
  <2>1. fenceCount \in [Evals -> [Streams -> Nat]] /\ fenceValue \in [Evals -> [Streams -> Nat]]
    BY DEF TypeInv, TypeOK
  <2>2. \/ fenceCount' = fenceCount
        \/ fenceCount' = [fenceCount EXCEPT ![t.eval][s] = @ + 1] /\ t.eval \in Evals
    BY DEF Sound
  <2>3. fenceCount'[e][r] \in Int /\ fenceCount'[e][r] >= fenceCount[e][r]
    <3> DEFINE f == t.eval
    <3> HIDE DEF f
    <3>1. CASE f \in Evals /\ fenceCount' = [fenceCount EXCEPT ![f][s] = @ + 1]
      <4>1. fenceCount'[e][r] = IF e = f /\ r = s THEN fenceCount[e][r] + 1
                                                 ELSE fenceCount[e][r]
        BY <2>1, <3>1
      <4>2. fenceCount[e][r] \in Nat
        BY <2>1
      <4> QED
        BY <4>1, <4>2
    <3> QED
      BY <2>1, <2>2, <3>1 DEF f
  <2> QED
    BY <1>0, <2>1, <2>3 DEF UpdatesCounted, QueueOK, Length
<1>2. \A j \in 1..Length(r) : log'[r][j] = log[r][j] /\ log[r][j].count \in Int
  <2>1. Extended
    BY <1>0, AppendExtends
  <2>2. \A j \in 1..Length(r) : log[r][j] \in Task
    BY <1>0 DEF QueueOK, Length
  <2>3. \A u \in Task : u.count \in Int
    BY DEF Task
  <2> QED
    BY <2>1, <2>2, <2>3 DEF Extended
<1> SUFFICES ASSUME NEW k \in 1..Len(log'[r]), IsUpdate(log'[r][k], e)
             PROVE  /\ log'[r][k].count <= fenceCount'[e][r]
                    /\ log'[r][k].count <= fenceValue[e][r] => k <= pos[r]
                    /\ \A j \in 1..(k - 1) :
                         IsUpdate(log'[r][j], e) => log'[r][j].count < log'[r][k].count
  BY <1>1, SMTT(30) DEF Length
<1>3. CASE k \in 1..Length(r) /\ log'[r][k] = log[r][k]
  <2>1. /\ log[r][k].count <= fenceCount[e][r]
        /\ log[r][k].count <= fenceValue[e][r] => k <= pos[r]
        /\ \A j \in 1..(k - 1) : IsUpdate(log[r][j], e) => log[r][j].count < log[r][k].count
    BY <1>3 DEF UpdatesCounted
  <2>2. log[r][k].count <= fenceCount'[e][r]
    BY <1>1, <1>2, <1>3, <2>1
  <2>3. 1..(k - 1) \subseteq 1..Length(r)
    BY <1>1, <1>3
  <2> QED
    BY <1>2, <1>3, <2>1, <2>2, <2>3
<1>4. CASE r = s /\ k = Length(s) + 1 /\ log'[r][k] = t
  <2>1. t.kind = "fenceUpdate" /\ t.eval = e
    BY <1>4 DEF IsUpdate
  <2>2. t.count = fenceCount[e][r] + 1 /\ fenceCount'[e][r] = fenceCount[e][r] + 1
    <3>1. fenceCount \in [Evals -> [Streams -> Nat]]
      BY DEF TypeInv, TypeOK
    <3> QED
      BY <1>4, <2>1, <3>1 DEF Sound
  <2>3. \A j \in 1..(k - 1) : IsUpdate(log'[r][j], e) => log'[r][j].count <= fenceCount[e][r]
    <3>1. 1..(k - 1) = 1..Length(r)
      BY <1>1, <1>4
    <3> QED
      BY <1>2, <3>1 DEF UpdatesCounted
  <2>4. \A j \in 1..(k - 1) : log'[r][j].count \in Int
    <3>1. 1..(k - 1) = 1..Length(r)
      BY <1>1, <1>4
    <3> QED
      BY <1>2, <3>1
  <2>5. log'[r][k].count = fenceCount[e][r] + 1
    BY <1>4, <2>2
  <2>6. ~(log'[r][k].count <= fenceValue[e][r])
    BY <1>1, <2>5
  <2>7. \A j \in 1..(k - 1) : IsUpdate(log'[r][j], e) => log'[r][j].count < log'[r][k].count
    <3> SUFFICES ASSUME NEW j \in 1..(k - 1), IsUpdate(log'[r][j], e)
                 PROVE  log'[r][j].count < log'[r][k].count
      OBVIOUS
    <3>1. log'[r][j].count <= fenceCount[e][r] /\ log'[r][j].count \in Int
      BY <2>3, <2>4
    <3> QED
      BY <1>1, <2>5, <3>1, SMTT(30)
  <2> QED
    BY <1>1, <2>2, <2>5, <2>6, <2>7, SMTT(30)
<1>5. \/ r = s /\ k = Length(s) + 1 /\ log'[r][k] = t
      \/ k \in 1..Length(r) /\ log'[r][k] = log[r][k]
  BY <1>0, TaskOrigin DEF Length
<1> QED
  BY <1>3, <1>4, <1>5

LEMMA QueueAppend ==
    ASSUME TypeInv, QueueInv, NEW s \in Streams, NEW t \in Task, Sound(s, t),
           log' = [log EXCEPT ![s] = Append(@, t)],
           UNCHANGED <<pos, computed, fenceValue, signaled>>
    PROVE  QueueInv'
<1> USE DEF QueueInv
<1>0. QueueOK
  BY DEF TypeInv, TypeOK, QueueOK, Length
<1>1. Extended /\ computed \subseteq computed'
  BY <1>0, AppendExtends
<1>2. ASSUME NEW r \in Streams, NEW k \in 1..Len(log'[r])
      PROVE  /\ k \in Int
             /\ \/ r = s /\ k = Length(s) + 1 /\ k - 1 = Length(s) /\ log'[r][k] = t
                \/ k \in 1..Length(r) /\ log'[r][k] = log[r][k] /\ k - 1 <= Length(r)
  <2>1. \/ r = s /\ k = Length(s) + 1 /\ log'[r][k] = t
        \/ k \in 1..Length(r) /\ log'[r][k] = log[r][k]
    BY <1>0, TaskOrigin DEF Length
  <2>2. Length(s) \in Nat /\ Length(r) \in Nat /\ k \in Int
    BY <1>0 DEF QueueOK, Length
  <2> QED
    BY <2>1, <2>2
<1>3. \A r \in Streams : Length(r) \in Nat /\ Length(r) <= Len(log'[r]) /\ pos[r] \in Nat
                        /\ pos[r] <= Length(r) /\ Len(log'[r]) \in Nat
                        /\ 1..pos[r] \subseteq 1..Length(r)
  BY <1>0, <1>1 DEF Extended, QueueOK, Length
<1>4. Named'
  BY <1>2 DEF Named, Sound, Length
<1>5. Done'
  <2>1. \A r \in Streams : \A j \in 1..pos[r] : log'[r][j] = log[r][j]
    BY <1>1, <1>3, Zenon DEF Extended
  <2> QED
    BY <2>1 DEF Done
<1>6. Guarded'
  <2> SUFFICES ASSUME NEW r \in Streams, NEW k \in 1..Len(log'[r]), UsesInputs(log'[r][k]),
                      NEW p \in Parents(log'[r][k].arr)
               PROVE  Behind(log', computed', r, k - 1, p)
    BY DEF Guarded, Length
  <2>1. Behind(log, computed, r, k - 1, p) /\ k - 1 <= Length(r) /\ k - 1 \in Int
    <3>1. CASE k \in 1..Length(r) /\ log'[r][k] = log[r][k]
      BY <1>2, <1>3, <3>1 DEF Guarded
    <3>2. CASE r = s /\ k - 1 = Length(s) /\ log'[r][k] = t
      BY <1>2, <1>3, <3>2 DEF Sound
    <3> QED
      BY <1>2, <3>1, <3>2 DEF Length
  <2> QED
    BY <1>1, <2>1, TasksStay
<1>7. UpdatesAfter'
  <2> SUFFICES ASSUME NEW r \in Streams, NEW k \in 1..Len(log'[r]),
                      log'[r][k].kind = "fenceUpdate"
               PROVE  /\ log'[r][k].stream = r
                      /\ ReleasedTo(log', r, k - 1, log'[r][k].arr)
    BY DEF UpdatesAfter, Length
  <2>1. /\ log'[r][k].stream = r /\ ReleasedTo(log, r, k - 1, log'[r][k].arr)
        /\ k - 1 <= Length(r) /\ k - 1 \in Int
    <3>1. CASE k \in 1..Length(r) /\ log'[r][k] = log[r][k]
      BY <1>2, <1>3, <3>1 DEF UpdatesAfter
    <3>2. CASE r = s /\ k - 1 = Length(s) /\ log'[r][k] = t
      BY <1>2, <1>3, <3>2 DEF Sound
    <3> QED
      BY <1>2, <3>1, <3>2 DEF Length
  <2> QED
    BY <1>1, <2>1, TasksStay
<1>8. UpdatesCounted'
  BY CountsAppend
<1>9. SignalsRun'
  <2>1. ASSUME NEW r \in Streams, NEW k \in 1..Len(log'[r]), log'[r][k].kind = "eventSignal"
        PROVE  log'[r][k].stream = r
    BY <1>2, <2>1 DEF SignalsRun, Sound, Length
  <2>2. ASSUME NEW r \in Streams, NEW e \in Evals, signaled'[e][r]
        PROVE  \E j \in 1..pos'[r] : IsSignal(log'[r][j], e)
    <3>1. \A j \in 1..pos[r] : log'[r][j] = log[r][j]
      BY <1>1, <1>3, Zenon DEF Extended
    <3> QED
      BY <2>2, <3>1 DEF SignalsRun
  <2> QED
    BY <2>1, <2>2 DEF SignalsRun, Length
<1>10. WaitsSound'
  <2>1. ASSUME NEW q \in Streams, NEW e, NEW p, SignalsCover(log, q, e, p)
        PROVE  SignalsCover(log', q, e, p)
    <3>1. ReleasedTo(log', q, Length(q), p)
      <4>1. ReleasedTo(log, q, Length(q), p) /\ Length(q) \in Int /\ Length(q) <= Length(q)
        BY <1>3, <2>1 DEF SignalsCover, Length
      <4> QED
        BY <1>1, <4>1, TasksStay
    <3>2. ReleasedTo(log', q, Len(log'[q]), p)
      <4>1. Length(q) \in Int /\ Len(log'[q]) \in Int /\ Length(q) <= Len(log'[q])
        BY <1>3
      <4> QED
        BY <3>1, <4>1, Longer
    <3>3. ASSUME NEW j \in 1..Len(log'[q]), IsSignal(log'[q][j], e)
          PROVE  ReleasedTo(log', q, j - 1, p)
      <4>1. CASE j \in 1..Length(q) /\ log'[q][j] = log[q][j]
        <5>1. ReleasedTo(log, q, j - 1, p) /\ j - 1 <= Length(q) /\ j - 1 \in Int
          BY <1>3, <2>1, <3>3, <4>1 DEF SignalsCover, Length
        <5> QED
          BY <1>1, <5>1, TasksStay
      <4>2. CASE j - 1 = Length(q)
        BY <3>1, <4>2
      <4> QED
        BY <1>2, <4>1, <4>2
    <3> QED
      BY <3>2, <3>3 DEF SignalsCover, Length
  <2>2. \A r \in Streams : \A k \in 1..Length(r) : log[r][k] \in Task
    BY <1>0 DEF QueueOK, Length
  <2>3. ASSUME NEW r \in Streams, NEW k \in 1..Len(log'[r]), log'[r][k].kind = "eventWait"
        PROVE  SignalsCover(log', log'[r][k].stream, log'[r][k].eval, log'[r][k].arr)
    <3>1. /\ log'[r][k].stream \in Streams
          /\ SignalsCover(log, log'[r][k].stream, log'[r][k].eval, log'[r][k].arr)
      BY <1>2, <2>2, <2>3 DEF WaitsSound, Sound, Task
    <3> QED
      BY <2>1, <3>1
  <2> QED
    BY <2>3 DEF WaitsSound, Length
<1>11. ComputedClosed'
  BY DEF ComputedClosed
<1> QED
  BY <1>4, <1>5, <1>6, <1>7, <1>8, <1>9, <1>10, <1>11

-----------------------------------------------------------------------------
(* What a worker has waited for has been computed. *)

LEMMA FenceDone ==
    ASSUME TypeInv, QueueInv, Covered, NEW s \in Streams, Pending(s),
           HeadTask(s).kind = "fenceWait", FenceReached(HeadTask(s))
    PROVE  HeadTask(s).arr \in Arrays => HeadTask(s).arr \in computed
<1> USE DEF QueueInv
<1> DEFINE t == HeadTask(s)
<1>1. pos[s] + 1 \in 1..Length(s) /\ t = log[s][pos[s] + 1] /\ t \in Task
  <2>1. log[s] \in Seq(Task) /\ pos[s] \in Nat
    BY DEF TypeInv, TypeOK
  <2> QED
    BY <2>1 DEF Pending, HeadTask, Length
<1>2. t.eval \in Evals /\ t.stream \in Streams /\ t.count \in Int
  BY <1>1 DEF Named, Task
<1>3. fenceValue[t.eval][t.stream] >= t.count /\ fenceValue[t.eval][t.stream] \in Int
  BY <1>2 DEF FenceReached, TypeInv, TypeOK
<1> DEFINE q == t.stream
<1>4. PICK j \in 1..Len(log[q]) :
         /\ log[q][j].kind = "fenceUpdate" /\ log[q][j].eval = t.eval
         /\ log[q][j].arr = t.arr /\ log[q][j].count <= t.count
  BY <1>1 DEF Covered, UpdateIn
<1> HIDE DEF t, q
<1>5. q \in Streams /\ log[q][j] \in Task /\ log[q][j].count \in Int /\ pos[q] \in Int
  <2>1. log \in [Streams -> Seq(Task)] /\ pos \in [Streams -> Nat] /\ q \in Streams
    BY <1>2 DEF TypeInv, TypeOK, q
  <2>2. log[q][j] \in Task
    BY <2>1, <1>4
  <2> QED
    BY <2>1, <2>2, SMTT(30) DEF Task
<1>6. log[q][j].count <= fenceValue[t.eval][q]
  BY <1>2, <1>3, <1>4, <1>5 DEF q
<1>7. j <= pos[q]
  BY <1>2, <1>4, <1>5, <1>6 DEF UpdatesCounted, IsUpdate, Length
<1>8. ReleasedTo(log, q, j - 1, t.arr)
  BY <1>4, <1>5 DEF UpdatesAfter, Length
<1>9. /\ Done /\ q \in Streams /\ pos[q] \in Int
      /\ j - 1 \in Int /\ j - 1 <= pos[q]
  <2>1. j \in Int
    OBVIOUS
  <2>2. j - 1 \in Int /\ j - 1 <= pos[q]
    BY <1>5, <1>7, <2>1
  <2>3. Done
    OBVIOUS
  <2> QED
    BY <1>5, <2>2, <2>3
<1>10. t.arr \in Arrays => t.arr \in computed
  BY <1>8, <1>9, ReleasedDone
<1> QED
  BY <1>10 DEF t

(* An event that is signalled follows the release of what it is attached to. *)
LEMMA CoverDone ==
    ASSUME TypeInv, QueueInv, NEW s \in Streams, NEW e \in Evals, signaled[e][s],
           NEW p \in Arrays,
           \A j \in 1..Length(s) : IsSignal(log[s][j], e) => ReleasedTo(log, s, j - 1, p)
    PROVE  p \in computed
<1> USE DEF QueueInv
<1>1. pos[s] \in Nat /\ Length(s) \in Nat /\ pos[s] <= Length(s)
  BY DEF TypeInv, TypeOK, Length
<1>2. PICK j \in 1..pos[s] : IsSignal(log[s][j], e)
  BY DEF SignalsRun
<1>3. j \in 1..Length(s) /\ j - 1 <= pos[s] /\ j - 1 \in Int
  BY <1>1
<1>4. ReleasedTo(log, s, j - 1, p)
  BY <1>2, <1>3
<1>5. Done /\ pos[s] \in Int
  BY <1>1
<1> QED
  BY <1>3, <1>4, <1>5, ReleasedDone

LEMMA WaitDone ==
    ASSUME TypeInv, QueueInv, NEW s \in Streams, Pending(s),
           HeadTask(s).kind = "eventWait", EventReached(HeadTask(s))
    PROVE  HeadTask(s).arr \in Arrays => HeadTask(s).arr \in computed
<1> USE DEF QueueInv
<1> DEFINE t == HeadTask(s)
<1>1. pos[s] + 1 \in 1..Length(s) /\ t = log[s][pos[s] + 1] /\ t \in Task
  <2>1. log[s] \in Seq(Task) /\ pos[s] \in Nat
    BY DEF TypeInv, TypeOK
  <2> QED
    BY <2>1 DEF Pending, HeadTask, Length
<1>2. t.eval \in Evals /\ t.stream \in Streams
  BY <1>1 DEF Named, Task
<1>3. SignalsCover(log, t.stream, t.eval, t.arr) /\ signaled[t.eval][t.stream]
  BY <1>1 DEF WaitsSound, EventReached
<1> HIDE DEF t
<1> QED
  BY <1>2, <1>3, CoverDone DEF SignalsCover, Length, t

(* What the head task carries has been computed once it has run.            *)
LEMMA HeadDone ==
    ASSUME TypeInv, QueueInv, Covered, NEW s \in Streams, Run(s),
           NEW p \in Arrays, Carries(HeadTask(s), p)
    PROVE  p \in computed'
<1>1. Pending(s) /\ MayRun(HeadTask(s)) /\ computed \subseteq computed'
  BY DEF Run
<1>2. CASE IsRelease(HeadTask(s)) /\ p \in Outputs[HeadTask(s).arr]
  BY <1>2 DEF Run, IsRelease, OutputsOf
<1>3. CASE HeadTask(s).kind = "fenceWait" /\ HeadTask(s).arr = p
  <2>1. FenceReached(HeadTask(s))
    BY <1>1, <1>3 DEF MayRun
  <2> QED
    BY <1>1, <1>3, <2>1, FenceDone
<1>4. CASE HeadTask(s).kind = "eventWait" /\ HeadTask(s).arr = p
  <2>1. EventReached(HeadTask(s))
    BY <1>1, <1>4 DEF MayRun
  <2> QED
    BY <1>1, <1>4, <2>1, WaitDone
<1> QED
  BY <1>2, <1>3, <1>4 DEF Carries

(* The inputs of what a worker is about to run have been computed.          *)
LEMMA HeadGuarded ==
    ASSUME TypeInv, QueueInv, NEW s \in Streams, Pending(s), UsesInputs(HeadTask(s))
    PROVE  Parents(HeadTask(s).arr) \subseteq computed
<1> USE DEF QueueInv
<1>1. /\ log[s] \in Seq(Task) /\ pos[s] \in Nat /\ HeadTask(s) \in Task
      /\ pos[s] + 1 \in 1..Length(s) /\ (pos[s] + 1) - 1 = pos[s]
  <2>1. log[s] \in Seq(Task) /\ pos[s] \in Nat
    BY DEF TypeInv, TypeOK
  <2> QED
    BY <2>1 DEF Pending, HeadTask, Length
<1>2. \A p \in Parents(HeadTask(s).arr) : Behind(log, computed, s, pos[s], p)
  BY <1>1 DEF Guarded, HeadTask
<1>3. Parents(HeadTask(s).arr) \subseteq Arrays
  <2>1. HeadTask(s).arr \in Arrays
    BY <1>1 DEF UsesInputs, Task
  <2> QED
    BY <2>1, GraphAssumption DEF Parents
<1>4. pos[s] \in Int /\ pos[s] <= pos[s]
  BY <1>1
<1> QED
  BY <1>2, <1>3, <1>4, BehindDone

LEMMA QueueRun ==
    ASSUME TypeInv, QueueInv, Covered, NEW s \in Streams, Run(s)
    PROVE  QueueInv'
<1> USE DEF QueueInv
<1> DEFINE t == HeadTask(s)
<1>1. /\ pos[s] + 1 \in 1..Length(s) /\ t = log[s][pos[s] + 1] /\ t \in Task /\ pos[s] \in Nat
      /\ Length(s) \in Nat /\ log \in [Streams -> Seq(Task)] /\ pos \in [Streams -> Nat]
  <2>1. log \in [Streams -> Seq(Task)] /\ pos \in [Streams -> Nat]
    BY DEF TypeInv, TypeOK
  <2> QED
    BY <2>1 DEF Run, Pending, HeadTask, Length
<1>2. /\ log' = log /\ fenceCount' = fenceCount /\ computed \subseteq computed'
      /\ pos' = [pos EXCEPT ![s] = @ + 1]
      /\ fenceValue' = FencesAfter(t) /\ signaled' = EventsAfter(t)
      /\ computed' = IF t.kind = "release" THEN computed \cup OutputsOf(t.arr) ELSE computed
  BY DEF Run
<1>3. \A r \in Streams : pos'[r] \in Nat /\ pos[r] <= pos'[r] /\ pos[r] \in Nat
                        /\ (r # s => pos'[r] = pos[r])
  BY <1>1, <1>2
<1>4. pos'[s] = pos[s] + 1 /\ 1..pos'[s] = 1..pos[s] \cup {pos[s] + 1}
  BY <1>1, <1>2
<1>5. Named'
  BY <1>2 DEF Named, Length
<1>6. Done'
  <2> SUFFICES ASSUME NEW r \in Streams, NEW j \in 1..pos'[r], NEW p \in Arrays,
                      Carries(log[r][j], p)
               PROVE  p \in computed'
    BY <1>2 DEF Done
  <2>1. CASE j \in 1..pos[r]
    BY <1>2, <2>1 DEF Done
  <2>2. CASE r = s /\ j = pos[s] + 1
    BY <1>1, <2>2, HeadDone
  <2> QED
    BY <1>3, <1>4, <2>1, <2>2
<1>7. Guarded'
  BY <1>2 DEF Guarded, Behind, Length
<1>8. UpdatesAfter'
  BY <1>2 DEF UpdatesAfter, Length
<1>9. UpdatesCounted'
  <2> SUFFICES ASSUME NEW r \in Streams, NEW e \in Evals
               PROVE  /\ fenceValue'[e][r] <= fenceCount[e][r]
                      /\ \A k \in 1..Length(r) :
                           IsUpdate(log[r][k], e) /\ log[r][k].count <= fenceValue'[e][r]
                               => k <= pos'[r]
    BY <1>2 DEF UpdatesCounted, Length
  <2>1. fenceValue \in [Evals -> [Streams -> Nat]]
    BY DEF TypeInv, TypeOK
  <2>2. CASE t.kind = "fenceUpdate" /\ t.eval = e /\ r = s
    <3>1. IsUpdate(t, e) /\ t.stream = s
      BY <1>1, <2>2 DEF IsUpdate, UpdatesAfter
    <3>2. fenceValue'[e][r] = t.count
      BY <1>2, <2>1, <2>2, <3>1 DEF FencesAfter
    <3>3. t.count <= fenceCount[e][s]
      BY <1>1, <3>1 DEF UpdatesCounted
    <3>4. ASSUME NEW k \in 1..Length(s), IsUpdate(log[s][k], e), log[s][k].count <= t.count
          PROVE  k <= pos[s] + 1
      <4> SUFFICES ASSUME ~(k <= pos[s] + 1) PROVE FALSE
        OBVIOUS
      <4>1. pos[s] + 1 \in 1..(k - 1)
        BY <1>1
      <4>2. t.count < log[s][k].count
        BY <1>1, <3>1, <3>4, <4>1 DEF UpdatesCounted
      <4>3. t.count \in Int /\ log[s][k].count \in Int
        <5>1. log[s][k] \in Task
          BY <1>1 DEF Length
        <5>2. \A u \in Task : u.count \in Int
          BY DEF Task
        <5> HIDE DEF t
        <5> QED
          BY <1>1, <5>1, <5>2
      <4> QED
        BY <3>4, <4>2, <4>3
    <3> QED
      BY <1>4, <2>2, <3>2, <3>3, <3>4
  <2>3. CASE ~(t.kind = "fenceUpdate" /\ t.eval = e /\ r = s)
    <3>1. fenceValue'[e][r] = fenceValue[e][r]
      <4>1. t.kind = "fenceUpdate" => t.stream = s
        BY <1>1 DEF UpdatesAfter
      <4> HIDE DEF t
      <4> QED
        BY <1>2, <2>1, <2>3, <4>1 DEF FencesAfter
    <3>2. ASSUME NEW k \in 1..Length(r), k <= pos[r] PROVE k <= pos'[r]
      BY <1>3, <3>2
    <3> QED
      BY <3>1, <3>2 DEF UpdatesCounted
  <2> QED
    BY <2>2, <2>3
<1>10. SignalsRun'
  <2>1. ASSUME NEW r \in Streams, NEW e \in Evals, signaled'[e][r]
        PROVE  \E j \in 1..pos'[r] : IsSignal(log[r][j], e)
    <3>1. CASE signaled[e][r]
      <4>1. PICK j \in 1..pos[r] : IsSignal(log[r][j], e)
        BY <3>1 DEF SignalsRun
      <4>2. j \in 1..pos'[r]
        BY <1>3
      <4> QED
        BY <4>1, <4>2
    <3>2. CASE ~signaled[e][r]
      <4>1. t.kind = "eventSignal" /\ t.eval = e /\ t.stream = r
        <5>1. signaled \in [Evals -> [Streams -> BOOLEAN]]
          BY DEF TypeInv, TypeOK
        <5> HIDE DEF t
        <5> QED
          BY <1>2, <2>1, <3>2, <5>1 DEF EventsAfter
      <4>2. r = s
        BY <1>1, <4>1 DEF SignalsRun
      <4>3. pos[s] + 1 \in 1..pos'[s]
        BY <1>1, <1>4
      <4> QED
        BY <1>1, <4>1, <4>2, <4>3 DEF IsSignal
    <3> QED
      BY <3>1, <3>2
  <2> QED
    BY <1>2, <2>1 DEF SignalsRun, Length
<1>11. WaitsSound'
  BY <1>2 DEF WaitsSound, SignalsCover, Length
<1>12. ComputedClosed'
  <2>1. CASE t.kind = "release" /\ t.arr # Sync
    <3>1. computed' = computed \cup Outputs[t.arr] /\ t.arr \in Arrays
      BY <1>1, <1>2, <2>1 DEF OutputsOf, Task
    <3>2. Parents(t.arr) \subseteq computed
      BY <2>1, HeadGuarded DEF Run, UsesInputs
    <3>3. \A a \in Outputs[t.arr] : Parents(a) = Parents(t.arr) /\ Outputs[a] = Outputs[t.arr]
      BY <3>1, GraphAssumption DEF Parents
    <3> HIDE DEF t
    <3> QED
      BY <3>1, <3>2, <3>3 DEF ComputedClosed
  <2>2. CASE ~(t.kind = "release" /\ t.arr # Sync)
    <3>1. computed' = computed
      BY <1>2, <2>2 DEF OutputsOf
    <3> QED
      BY <3>1 DEF ComputedClosed
  <2> QED
    BY <2>1, <2>2
<1> QED
  BY <1>5, <1>6, <1>7, <1>8, <1>9, <1>10, <1>11, <1>12

-----------------------------------------------------------------------------
(* The caller *)

Closed(C) == \A a \in C : Parents(a) \subseteq C /\ Outputs[a] \subseteq C

(* What the outputs O are made of. *)
Reach(O) ==
    {a \in Arrays : \A C \in SUBSET Arrays : SeqRange(O) \subseteq C /\ Closed(C) => a \in C}

(* From when an array is taken off the tape to when its status changes.     *)
InHand == {"inputs", "retain"} \cup Releasing

TapeInv ==
    /\ \A a \in Unscheduled : Outputs[a] \subseteq Unscheduled
    /\ pc \in EvalPlaces =>
         /\ \A a \in todo : /\ Outputs[a] \subseteq todo
                            /\ Parents(a) \cap Unscheduled \subseteq todo
         /\ SeqRange(outs) \cap Unscheduled \subseteq todo
         /\ todo \subseteq Reach(outs)
    /\ pc = "signal" => arr = Sync
    /\ pc = "wait" => arr \in Arrays /\ status[arr] = "evaluated"

(* Every signal of e on the stream of p comes after the release of p.       *)
Covers(lg, e, p) ==
    \A j \in 1..Len(lg[StreamOf[p]]) :
        IsSignal(lg[StreamOf[p]][j], e) => ReleasedTo(lg, StreamOf[p], j - 1, p)

Queued(lg, p) == ReleasedTo(lg, StreamOf[p], Len(lg[StreamOf[p]]), p)

BeingEvaluated(p) == pc \in InHand /\ p \in OutputsOf(arr)

StatusInv ==
    /\ \A p \in Arrays :
         /\ status[p] = "available" => p \in computed /\ event[p] = 0
         /\ status[p] = "evaluated" => Queued(log, p)
         /\ event[p] # 0 => /\ status[p] = "evaluated" \/ (BeingEvaluated(p) /\ event[p] = cur)
                            /\ Covers(log, event[p], p)
         /\ BeingEvaluated(p) /\ async => event[p] = cur
         /\ BeingEvaluated(p) /\ pc \in Releasing => Queued(log, p)
    /\ pc = "fence" => \A b \in unfenced : status[b] = "evaluated"

(* No event of the current eval is signalled before its last loop.          *)
SignalInv ==
    \A s \in Streams : \A k \in 1..Length(s) : log[s][k].kind = "eventSignal" =>
        /\ log[s][k].eval <= cur
        /\ log[s][k].eval = cur /\ pc \in EvalPlaces => pc = "signal"

(* Neither computed nor about to announce it by an event. *)
Silent(p) == status[p] = "evaluated" /\ event[p] = 0 /\ p \notin computed

(* Only a synchronous eval leaves arrays silent, until it returns; until    *)
(* then, what another stream than theirs needs has a fence.                 *)
SilentInv ==
    /\ \A p \in Arrays : Silent(p) => pc \in EvalPlaces /\ ~async /\ p \in Reach(outs)
    /\ pc \in EvalPlaces => \A p \in Arrays : Silent(p) \/ p \in Unscheduled =>
         /\ \A a \in todo : p \in Parents(a) /\ StreamOf[p] # StreamOf[a] => p \in needsFence
         /\ p \in SeqRange(outs) /\ StreamOf[p] # syncStream => p \in needsFence

(* The stream of arr will get input i before what is enqueued next.         *)
Seen(i) == Behind(log, computed, StreamFor(arr), Length(StreamFor(arr)), InputsOf(arr)[i])

SeenInv ==
    /\ pc = "inputs" => idx >= 1 /\ \A i \in DOMAIN InputsOf(arr) : i < idx => Seen(i)
    /\ pc = "retain" \/ (pc \in EvalPlaces \ {"tape", "inputs"} /\ arr = Sync) =>
         \A i \in DOMAIN InputsOf(arr) : Seen(i)
    /\ pc = "signal" => \A j \in 1..Length(syncStream) : IsSignal(log[syncStream][j], cur) =>
         \A i \in DOMAIN outs : Behind(log, computed, syncStream, j - 1, outs[i])

-----------------------------------------------------------------------------
(* The tape *)

LEMMA NeededClosed ==
    ASSUME NEW O \in Seq(Arrays), \A a \in Unscheduled : Outputs[a] \subseteq Unscheduled
    PROVE  /\ Needed(SeqRange(O)) \subseteq Unscheduled
           /\ SeqRange(O) \cap Unscheduled \subseteq Needed(SeqRange(O))
           /\ \A a \in Needed(SeqRange(O)) :
                /\ Outputs[a] \subseteq Needed(SeqRange(O))
                /\ Parents(a) \cap Unscheduled \subseteq Needed(SeqRange(O))
           /\ Needed(SeqRange(O)) \subseteq Reach(O)
<1> DEFINE R == SeqRange(O)
           closed(T) == /\ R \cap Unscheduled \subseteq T
                        /\ \A a \in T : /\ Outputs[a] \subseteq T
                                        /\ Parents(a) \cap Unscheduled \subseteq T
<1>1. Needed(R) = {a \in Unscheduled : \A T \in SUBSET Unscheduled : closed(T) => a \in T}
  BY DEF Needed
<1> HIDE DEF R
<1>2. R \cap Unscheduled \subseteq Needed(R)
  BY <1>1
<1>3. ASSUME NEW a \in Needed(R)
      PROVE  Outputs[a] \subseteq Needed(R) /\ Parents(a) \cap Unscheduled \subseteq Needed(R)
  <2>1. a \in Unscheduled /\ \A T \in SUBSET Unscheduled : closed(T) => a \in T
    BY <1>1
  <2>2. Outputs[a] \subseteq Unscheduled
    BY <2>1
  <2>3. ASSUME NEW T \in SUBSET Unscheduled, closed(T)
        PROVE  Outputs[a] \subseteq T /\ Parents(a) \cap Unscheduled \subseteq T
    BY <2>1, <2>3
  <2> QED
    BY <1>1, <2>2, <2>3
<1>4. ASSUME NEW a \in Needed(R), NEW C \in SUBSET Arrays, R \subseteq C, Closed(C)
      PROVE  a \in C
  <2> DEFINE T == C \cap Unscheduled
  <2>1. closed(T)
    BY <1>4 DEF Closed
  <2>2. T \in SUBSET Unscheduled
    OBVIOUS
  <2>3. a \in T
    BY <1>1, <2>1, <2>2
  <2> QED
    BY <2>3
<1>5. Needed(R) \subseteq Arrays
  BY <1>1 DEF Unscheduled
<1> QED
  BY <1>1, <1>2, <1>3, <1>4, <1>5 DEF Reach, R

(* Steps that leave the tape and what is unscheduled alone. *)
LEMMA TapeSame ==
    ASSUME TapeInv, UNCHANGED <<todo, outs>>, Unscheduled' = Unscheduled,
           pc' \in EvalPlaces => pc \in EvalPlaces,
           pc' = "signal" => arr' = Sync,
           pc' = "wait" => arr' \in Arrays /\ status'[arr'] = "evaluated"
    PROVE  TapeInv'
BY DEF TapeInv, Reach, SeqRange, Closed

LEMMA TapeStep == TypeInv /\ OnceInv /\ TapeInv /\ [Next]_vars => TapeInv'
<1> SUFFICES ASSUME TypeInv, OnceInv, TapeInv, [Next]_vars PROVE TapeInv'
  OBVIOUS
<1>1. ASSUME NEW O \in Requests, NEW isAsync \in BOOLEAN, NEW i \in DOMAIN O,
             BeginEval(O, i, isAsync)
      PROVE  TapeInv'
  <2>1. /\ outs' = O /\ todo' = Needed(SeqRange(O)) /\ pc' = "tape"
        /\ Unscheduled' = Unscheduled /\ O \in Seq(Arrays)
    BY <1>1, GraphAssumption DEF BeginEval, arrayVars, Unscheduled
  <2>2. Reach(O) = Reach(outs)'
    BY <2>1 DEF Reach, SeqRange, Closed
  <2>3. \A a \in Unscheduled : Outputs[a] \subseteq Unscheduled
    BY DEF TapeInv
  <2> HIDE DEF EvalPlaces
  <2>4. SeqRange(outs)' = SeqRange(O)
    BY <2>1 DEF SeqRange
  <2> QED
    BY <2>1, <2>2, <2>3, <2>4, NeededClosed DEF TapeInv
<1>2. ASSUME NEW overLimit \in BOOLEAN, MarkEvaluated(overLimit) PROVE TapeInv'
  <2>1. /\ outs' = outs /\ todo' = todo \ OutputsOf(arr) /\ pc' = "fence"
        /\ pc \in EvalPlaces /\ arr' = arr
        /\ Unscheduled' = Unscheduled \ OutputsOf(arr)
    BY <1>2 DEF MarkEvaluated, evalVars, StatusAfter, Unscheduled, EvalPlaces
  <2>2. ASSUME NEW a \in Arrays \ OutputsOf(arr) PROVE Outputs[a] \cap OutputsOf(arr) = {}
    BY <2>2, GraphAssumption DEF OutputsOf, TypeInv, TypeOK
  <2>3. Unscheduled \subseteq Arrays /\ todo \subseteq Arrays
    BY DEF Unscheduled, TypeInv, TypeOK
  <2>4. Reach(outs)' = Reach(outs) /\ SeqRange(outs)' = SeqRange(outs)
    BY <2>1 DEF Reach, SeqRange, Closed
  <2> QED
    BY <2>1, <2>2, <2>3, <2>4 DEF TapeInv
<1>3. ASSUME NEW a \in Arrays, IsAvailable(a) PROVE TapeInv'
  <2>1. UNCHANGED <<pc, arr, todo, outs>> /\ pc = "idle" /\ Unscheduled' = Unscheduled
    BY <1>3 DEF IsAvailable, SetAvailable, callVars, evalVars, stepVars, Unscheduled,
       TypeInv, TypeOK
  <2> QED
    BY <2>1, TapeSame
<1>4. CASE ReturnWait
  <2>1. UNCHANGED <<todo, outs>> /\ pc' = "idle" /\ Unscheduled' = Unscheduled
    BY <1>4 DEF ReturnWait, SetAvailable, evalVars, Unscheduled, TypeInv, TypeOK, TapeInv
  <2> QED
    BY <2>1, TapeSame DEF EvalPlaces
<1>5. CASE UNCHANGED <<todo, outs, status>> /\ arr' = arr /\ pc' = pc
  BY <1>5, TapeSame DEF Unscheduled, TapeInv
<1>6. CASE Throw \/ WaitForOne \/ EvalKernel \/ Retain \/ EndEval \/ ReturnSynchronize
  <2>1. UNCHANGED <<todo, outs, status>> /\ pc' \in {"idle", "recheck", "retain", "check"}
        /\ (pc' # "idle" => pc \in EvalPlaces)
    BY <1>6 DEF Throw, WaitForOne, EvalKernel, Retain, EndEval, ReturnSynchronize, Goto,
       AllInputsSeen, evalVars, arrayVars, EvalPlaces
  <2> QED
    BY <2>1, TapeSame DEF Unscheduled, EvalPlaces
<1>7. CASE NextArray
  <2>1. UNCHANGED <<todo, outs, status, arr>> /\ pc = "fence" /\ pc' \in {"tape", "signal"}
        /\ (pc' = "signal" => arr = Sync)
    BY <1>7 DEF NextArray, Goto, evalVars, stepVars, arrayVars
  <2> QED
    BY <2>1, TapeSame DEF Unscheduled, EvalPlaces
<1>8. ASSUME NEW a \in Arrays \cup {Sync}, TakeArray(a) PROVE TapeInv'
  <2>1. UNCHANGED <<todo, outs, status>> /\ pc = "tape" /\ pc' = "inputs"
    BY <1>8 DEF TakeArray, evalVars
  <2> QED
    BY <2>1, TapeSame DEF Unscheduled, EvalPlaces
<1>9. CASE WaitInput
  <2>1. UNCHANGED <<todo, outs, status>> /\ arr' = arr /\ pc' = pc
    BY <1>9 DEF WaitInput, evalVars
  <2> QED
    BY <2>1, <1>5
<1>10. ASSUME NEW overLimit \in BOOLEAN, Throttle(overLimit) PROVE TapeInv'
  <2>1. UNCHANGED <<todo, outs, status>> /\ pc \in {"check", "recheck"} /\ pc' = "throttled"
    BY <1>10 DEF Throttle, evalVars, arrayVars
  <2> QED
    BY <2>1, TapeSame DEF Unscheduled, EvalPlaces
<1>11. ASSUME NEW b \in Arrays, UpdateFence(b) PROVE TapeInv'
  <2>1. UNCHANGED <<todo, outs, status>> /\ arr' = arr /\ pc' = pc
    BY <1>11 DEF UpdateFence, evalVars, arrayVars
  <2> QED
    BY <2>1, <1>5
<1>12. ASSUME NEW s \in Streams, SignalEvent(s) \/ Synchronize(s) PROVE TapeInv'
  <2>1. UNCHANGED <<todo, outs, status, arr>> /\ (pc' = pc \/ pc' = "drain")
    BY <1>12 DEF SignalEvent, Synchronize, evalVars, stepVars, arrayVars
  <2> QED
    BY <2>1, TapeSame DEF Unscheduled, EvalPlaces, TapeInv
<1>13. ASSUME NEW a \in Arrays, CallWait(a) PROVE TapeInv'
  <2>1. UNCHANGED <<todo, outs, status>> /\ pc' = "wait" /\ arr' = a
        /\ status[a] = "evaluated"
    BY <1>13 DEF CallWait, evalVars, arrayVars
  <2> QED
    BY <2>1, TapeSame DEF Unscheduled, EvalPlaces
<1>14. CASE (\E s \in Streams : Run(s)) \/ UNCHANGED vars \/ Quiescent
  <2>1. UNCHANGED <<todo, outs, status>> /\ arr' = arr /\ pc' = pc
    BY <1>14 DEF Run, Quiescent, vars, callVars, evalVars, stepVars, arrayVars
  <2> QED
    BY <2>1, <1>5
<1> QED
  BY <1>1, <1>2, <1>3, <1>4, <1>6, <1>7, <1>8, <1>9, <1>10, <1>11, <1>12, <1>13, <1>14
  DEF Next, Caller, User, Worker

-----------------------------------------------------------------------------
(* What every step keeps *)

(* A step that queues no signal. *)
NoSignal ==
    \A r \in Streams : \A k \in 1..Len(log'[r]) : log'[r][k].kind = "eventSignal" =>
        k \in 1..Length(r) /\ log'[r][k] = log[r][k]

LEMMA NoSignalAppend ==
    ASSUME QueueOK, NEW s \in Streams, NEW t \in Task, t.kind # "eventSignal",
           log' = [log EXCEPT ![s] = Append(@, t)]
    PROVE  NoSignal
<1> SUFFICES ASSUME NEW r \in Streams, NEW k \in 1..Len(log'[r]),
                    log'[r][k].kind = "eventSignal"
             PROVE  k \in 1..Length(r) /\ log'[r][k] = log[r][k]
  BY DEF NoSignal
<1>1. log'[r][k] = t \/ (k \in 1..Length(r) /\ log'[r][k] = log[r][k])
  BY TaskOrigin DEF Length
<1> QED
  BY <1>1

(* What the caller is about to append, when it dispatches or pushes. *)
LEMMA CallerTypes ==
    ASSUME TypeInv
    PROVE  /\ QueueOK /\ arr \in Arrays \cup {Sync} /\ StreamFor(arr) \in Streams
           /\ InputsOf(arr) \in Seq(Arrays) /\ OutputsOf(arr) \subseteq Arrays
           /\ cur \in 0..MaxEvals /\ 0 \in Nat
           /\ pc \in EvalPlaces => cur \in Evals /\ cur # 0
           /\ {"kernel", "release", "fenceWait", "fenceUpdate", "eventWait", "eventSignal",
               "promise"} \subseteq Kinds
<1>1. QueueOK /\ arr \in Arrays \cup {Sync} /\ TypeOK /\ cur \in 0..MaxEvals
  BY DEF TypeInv, TypeOK, QueueOK, Length
<1>2. pc \in EvalPlaces => cur \in Evals /\ cur # 0
  BY DEF TypeInv, InEval, Evals
<1> QED
  BY <1>1, <1>2, ArrayType DEF Kinds

LEMMA WaitTypes ==
    ASSUME TypeInv, WaitInput
    PROVE  /\ InputsOf(arr)[idx] \in Arrays /\ StreamOf[InputsOf(arr)[idx]] \in Streams
           /\ InputsOf(arr)[idx] \in SeqRange(InputsOf(arr))
           /\ fenceCount[cur][StreamOf[InputsOf(arr)[idx]]] \in Nat
           /\ event[InputsOf(arr)[idx]] \in 0..MaxEvals
           /\ cur \in Evals /\ pc = "inputs" /\ idx \in DOMAIN InputsOf(arr)
<1>1. /\ InputsOf(arr) \in Seq(Arrays) /\ idx \in DOMAIN InputsOf(arr) /\ pc = "inputs"
  BY CallerTypes DEF WaitInput
<1>2. InputsOf(arr)[idx] \in Arrays /\ cur \in Evals
  BY <1>1, CallerTypes DEF EvalPlaces
<1>3. InputsOf(arr)[idx] \in SeqRange(InputsOf(arr))
  BY <1>1 DEF SeqRange
<1>4. StreamOf[InputsOf(arr)[idx]] \in Streams
  BY <1>2, GraphAssumption
<1> QED
  BY <1>1, <1>2, <1>3, <1>4 DEF TypeInv, TypeOK

LEMMA NoSignalStep ==
    ASSUME TypeInv, [Next]_vars, ~\E s \in Streams : SignalEvent(s)
    PROVE  NoSignal
<1>1. QueueOK /\ arr \in Arrays \cup {Sync} /\ StreamFor(arr) \in Streams
      /\ cur \in 0..MaxEvals /\ 0 \in Nat
  BY CallerTypes
<1>2. CASE log' = log
  BY <1>2 DEF NoSignal, Length
<1>3. ASSUME NEW s \in Streams, NEW kind \in Kinds, NEW a \in Arrays \cup {Sync},
             NEW e \in 0..MaxEvals, NEW st \in Streams, NEW n \in Nat,
             Push(s, kind, a, e, st, n), kind # "eventSignal"
      PROVE  NoSignal
  <2> DEFINE t == PushedTask(kind, a, e, st, n)
  <2>1. t \in Task /\ log' = [log EXCEPT ![s] = Append(@, t)]
    BY <1>1, <1>3, PushGrows, SMTT(30)
  <2>2. t.kind # "eventSignal"
    BY <1>3 DEF PushedTask
  <2> HIDE DEF t
  <2> QED
    BY <1>1, <2>1, <2>2, NoSignalAppend
<1>4. ASSUME NEW kind \in {"kernel", "release"}, Dispatch(StreamFor(arr), kind, arr)
      PROVE  NoSignal
  <2> DEFINE t == DispatchedTask(StreamFor(arr), kind, arr)
  <2>1. t \in Task /\ log' = [log EXCEPT ![StreamFor(arr)] = Append(@, t)]
    BY <1>1, <1>4, DispatchGrows DEF Kinds
  <2>2. t.kind # "eventSignal"
    BY DEF DispatchedTask
  <2> HIDE DEF t
  <2> QED
    BY <1>1, <2>1, <2>2, NoSignalAppend
<1>5. CASE EvalKernel \/ Retain
  BY <1>2, <1>4, <1>5 DEF EvalKernel, Retain, queueVars
<1>6. CASE WaitInput
  <2>1. cur \in 0..MaxEvals /\ "fenceWait" \in Kinds /\ "eventWait" \in Kinds
    BY <1>1 DEF Kinds
  <2> QED
    BY <1>1, <1>2, <1>3, <1>6, <2>1, WaitTypes DEF WaitInput, queueVars
<1>7. ASSUME NEW b \in Arrays, UpdateFence(b) PROVE NoSignal
  <2>1. cur \in Evals /\ "fenceUpdate" \in Kinds
    BY <1>7, CallerTypes DEF UpdateFence, EvalPlaces, Kinds
  <2>2. fenceCount[cur][StreamFor(arr)] + 1 \in Nat
    BY <1>1, <2>1 DEF TypeInv, TypeOK
  <2> QED
    BY <1>1, <1>3, <1>7, <2>1, <2>2 DEF UpdateFence
<1>8. ASSUME NEW s \in Streams, Synchronize(s) PROVE NoSignal
  <2>1. "promise" \in Kinds
    BY DEF Kinds
  <2> QED
    BY <1>1, <1>3, <1>8, <2>1 DEF Synchronize
<1>9. CASE Throw \/ WaitForOne \/ NextArray \/ EndEval \/ ReturnWait \/ ReturnSynchronize
  BY <1>2, <1>9
  DEF Throw, WaitForOne, NextArray, EndEval, ReturnWait, ReturnSynchronize, queueVars
<1>10. ASSUME NEW overLimit \in BOOLEAN, Throttle(overLimit) \/ MarkEvaluated(overLimit)
       PROVE  NoSignal
  BY <1>2, <1>10 DEF Throttle, MarkEvaluated, queueVars
<1>11. ASSUME NEW a \in Arrays \cup {Sync}, TakeArray(a) PROVE NoSignal
  BY <1>2, <1>11 DEF TakeArray, queueVars
<1>12. ASSUME NEW O \in Requests, NEW isAsync \in BOOLEAN, NEW i \in DOMAIN O,
              BeginEval(O, i, isAsync)
       PROVE  NoSignal
  BY <1>2, <1>12 DEF BeginEval, queueVars
<1>13. ASSUME NEW a \in Arrays, IsAvailable(a) \/ CallWait(a) PROVE NoSignal
  BY <1>2, <1>13 DEF IsAvailable, CallWait, queueVars
<1>14. CASE (\E s \in Streams : Run(s)) \/ UNCHANGED vars \/ Quiescent
  BY <1>2, <1>14 DEF Run, Quiescent, vars, queueVars
<1> QED
  BY <1>5, <1>6, <1>7, <1>8, <1>9, <1>10, <1>11, <1>12, <1>13, <1>14
  DEF Next, Caller, User, Worker

(* Only workers compute, and nothing is computed away. *)
LEMMA ComputedStep ==
    ASSUME [Next]_vars
    PROVE  computed' = computed \/ \E s \in Streams : Run(s)
<1>1. ASSUME NEW a \in Arrays \cup {Sync}, TakeArray(a) PROVE computed' = computed
  BY <1>1 DEF TakeArray, syncVars
<1>2. CASE Throw \/ WaitForOne \/ NextArray \/ EndEval \/ ReturnSynchronize \/ EvalKernel
           \/ Retain
  BY <1>2 DEF Throw, WaitForOne, NextArray, EndEval, ReturnSynchronize, EvalKernel, Retain,
     Goto, syncVars
<1>3. CASE WaitInput \/ ReturnWait
  BY <1>3 DEF WaitInput, ReturnWait, syncVars
<1>4. ASSUME NEW overLimit \in BOOLEAN, Throttle(overLimit) \/ MarkEvaluated(overLimit)
      PROVE  computed' = computed
  BY <1>4 DEF Throttle, MarkEvaluated, syncVars
<1>5. ASSUME NEW b \in Arrays, UpdateFence(b) PROVE computed' = computed
  BY <1>5 DEF UpdateFence
<1>6. ASSUME NEW s \in Streams, SignalEvent(s) \/ Synchronize(s) PROVE computed' = computed
  BY <1>6 DEF SignalEvent, Synchronize, syncVars
<1>7. ASSUME NEW O \in Requests, NEW isAsync \in BOOLEAN, NEW i \in DOMAIN O,
             BeginEval(O, i, isAsync)
      PROVE  computed' = computed
  BY <1>7 DEF BeginEval, syncVars
<1>8. ASSUME NEW a \in Arrays, IsAvailable(a) \/ CallWait(a) PROVE computed' = computed
  BY <1>8 DEF IsAvailable, CallWait, syncVars
<1>9. CASE UNCHANGED vars \/ Quiescent
  BY <1>9 DEF Quiescent, vars, syncVars
<1> QED
  BY <1>1, <1>2, <1>3, <1>4, <1>5, <1>6, <1>7, <1>8, <1>9 DEF Next, Caller, User, Worker

LEMMA Grown ==
    ASSUME TypeInv, [Next]_vars
    PROVE  Extended /\ computed \subseteq computed'
BY StepExtends, ComputedStep DEF Run

LEMMA AppendLast ==
    ASSUME QueueOK, NEW s \in Streams, NEW t \in Task,
           log' = [log EXCEPT ![s] = Append(@, t)]
    PROVE  /\ Len(log'[s]) = Length(s) + 1 /\ Length(s) \in Nat
           /\ Len(log'[s]) \in 1..Len(log'[s]) /\ log'[s][Len(log'[s])] = t
<1>1. Len(log'[s]) = Length(s) + 1 /\ log'[s][Length(s) + 1] = t /\ Length(s) \in Nat
  BY LogGrows DEF Length
<1> QED
  BY <1>1

(* Releases stay where they are; an append puts none before itself.         *)
LEMMA QueuedStays ==
    ASSUME Extended, computed \subseteq computed', NEW p \in Arrays, Queued(log, p)
    PROVE  Queued(log', p)
<1> DEFINE s == StreamOf[p]
<1>1. s \in Streams
  BY GraphAssumption
<1> HIDE DEF s
<1>2. Length(s) \in Int /\ Length(s) <= Length(s) /\ Len(log'[s]) \in Int
      /\ Length(s) <= Len(log'[s])
  BY <1>1 DEF Extended, Length
<1>3. ReleasedTo(log', s, Length(s), p)
  BY <1>1, <1>2, TasksStay DEF Queued, Length, s
<1>4. ReleasedTo(log', s, Len(log'[s]), p)
  BY <1>2, <1>3, Longer
<1> QED
  BY <1>4 DEF Queued, s

LEMMA CoversStays ==
    ASSUME Extended, computed \subseteq computed', NoSignal, NEW p \in Arrays, NEW e,
           Covers(log, e, p)
    PROVE  Covers(log', e, p)
<1> DEFINE s == StreamOf[p]
<1>1. s \in Streams
  BY GraphAssumption
<1> HIDE DEF s
<1> SUFFICES ASSUME NEW j \in 1..Len(log'[s]), IsSignal(log'[s][j], e)
             PROVE  ReleasedTo(log', s, j - 1, p)
  BY DEF Covers, s
<1>2. j \in 1..Length(s) /\ log'[s][j] = log[s][j]
  BY <1>1 DEF NoSignal, IsSignal
<1>3. ReleasedTo(log, s, j - 1, p)
  BY <1>2 DEF Covers, Length, s
<1>4. j - 1 \in Int /\ j - 1 <= Length(s)
  BY <1>1, <1>2 DEF Extended
<1> QED
  BY <1>1, <1>3, <1>4, TasksStay

-----------------------------------------------------------------------------
(* Signals *)

LEMMA SignalStep == TypeInv /\ SignalInv /\ [Next]_vars => SignalInv'
<1> SUFFICES ASSUME TypeInv, SignalInv, [Next]_vars PROVE SignalInv'
  OBVIOUS
<1>0. QueueOK /\ cur \in 0..MaxEvals /\ MaxEvals \in Nat
  BY CallerTypes, BoundAssumption
<1>1. \A s \in Streams : \A k \in 1..Length(s) : log[s][k].eval \in Int
  <2>1. \A s \in Streams : \A k \in 1..Length(s) : log[s][k] \in Task
    BY <1>0 DEF QueueOK, Length
  <2>2. \A u \in Task : u.eval \in Int
    BY BoundAssumption DEF Task
  <2> QED
    BY <2>1, <2>2
<1>2. ASSUME NoSignal,
             \/ /\ cur' = cur
                /\ pc' \in EvalPlaces => pc \in EvalPlaces /\ (pc = "signal" => pc' = "signal")
             \/ cur' = cur + 1
      PROVE  SignalInv'
  <2> SUFFICES ASSUME NEW s \in Streams, NEW k \in 1..Len(log'[s]),
                      log'[s][k].kind = "eventSignal"
               PROVE  /\ log'[s][k].eval <= cur'
                      /\ log'[s][k].eval = cur' /\ pc' \in EvalPlaces => pc' = "signal"
    BY DEF SignalInv, Length
  <2>1. k \in 1..Length(s) /\ log'[s][k] = log[s][k]
    BY <1>2 DEF NoSignal
  <2>2. /\ log[s][k].eval <= cur /\ log[s][k].eval \in Int
        /\ log[s][k].eval = cur /\ pc \in EvalPlaces => pc = "signal"
    BY <1>1, <2>1 DEF SignalInv
  <2>3. cur \in Int
    BY <1>0
  <2>4. CASE cur' = cur + 1
    BY <2>1, <2>2, <2>3, <2>4
  <2>5. CASE cur' = cur /\ (pc' \in EvalPlaces =>
                               pc \in EvalPlaces /\ (pc = "signal" => pc' = "signal"))
    BY <2>1, <2>2, <2>5
  <2> QED
    BY <1>2, <2>4, <2>5
<1>3. ASSUME NEW s \in Streams, SignalEvent(s) PROVE SignalInv'
  <2>1. cur' = cur /\ pc' = "signal" /\ pc = "signal" /\ cur \in Int
    BY <1>0, <1>3 DEF SignalEvent, evalVars
  <2>2. ASSUME NEW r \in Streams, NEW k \in 1..Length(r), log'[r][k] = log[r][k],
               log[r][k].kind = "eventSignal"
        PROVE  log'[r][k].eval <= cur'
    BY <2>1, <2>2 DEF SignalInv
  <2>3. CASE Push(s, "eventSignal", Sync, cur, s, 0)
    <3> DEFINE t == PushedTask("eventSignal", Sync, cur, s, 0)
    <3>1. t \in Task /\ log' = [log EXCEPT ![s] = Append(@, t)]
      <4>1. "eventSignal" \in Kinds /\ 0 \in Nat
        BY DEF Kinds
      <4> QED
        BY <1>0, <2>3, <4>1, PushGrows
    <3>2. t.eval = cur
      BY DEF PushedTask
    <3> HIDE DEF t
    <3>3. \A r \in Streams : \A k \in 1..Len(log'[r]) :
            log'[r][k] = t \/ (k \in 1..Length(r) /\ log'[r][k] = log[r][k])
      BY <1>0, <3>1, TaskOrigin DEF Length
    <3>4. cur <= cur
      BY <2>1
    <3> QED
      BY <2>1, <2>2, <3>2, <3>3, <3>4 DEF SignalInv, Length
  <2>4. CASE log' = log
    BY <2>1, <2>2, <2>4 DEF SignalInv, Length
  <2> QED
    BY <1>3, <2>3, <2>4 DEF SignalEvent, queueVars
<1>4. CASE ~\E s \in Streams : SignalEvent(s)
  <2>1. NoSignal
    BY <1>4, NoSignalStep
  <2> USE DEF EvalPlaces
  <2>2. ASSUME NEW a \in Arrays \cup {Sync}, TakeArray(a)
        PROVE  cur' = cur /\ pc = "tape" /\ pc' = "inputs"
    BY <2>2 DEF TakeArray, evalVars
  <2>3. CASE Throw \/ WaitForOne \/ NextArray \/ EndEval \/ ReturnSynchronize \/ EvalKernel
             \/ Retain
    <3>1. /\ cur' = cur
          /\ \/ pc \in EvalPlaces \ {"signal"} /\ pc' \in EvalPlaces
             \/ pc' = "idle"
      BY <2>3 DEF Throw, WaitForOne, NextArray, EndEval, ReturnSynchronize, EvalKernel, Retain,
         Goto, AllInputsSeen, evalVars
    <3> QED
      BY <1>2, <2>1, <3>1
  <2>4. CASE WaitInput \/ ReturnWait
    <3>1. cur' = cur /\ (pc' = pc \/ pc' = "idle")
      BY <2>4 DEF WaitInput, ReturnWait, evalVars
    <3> QED
      BY <1>2, <2>1, <3>1
  <2>5. ASSUME NEW overLimit \in BOOLEAN, Throttle(overLimit) \/ MarkEvaluated(overLimit)
        PROVE  cur' = cur /\ pc \in {"check", "recheck"} /\ pc' \in {"throttled", "fence"}
    BY <2>5 DEF Throttle, MarkEvaluated, evalVars
  <2>6. ASSUME NEW b \in Arrays, UpdateFence(b) PROVE cur' = cur /\ pc' = pc
    BY <2>6 DEF UpdateFence, evalVars
  <2>7. ASSUME NEW s \in Streams, Synchronize(s) PROVE cur' = cur /\ pc' = "drain"
    BY <2>7 DEF Synchronize, evalVars
  <2>8. ASSUME NEW O \in Requests, NEW isAsync \in BOOLEAN, NEW i \in DOMAIN O,
               BeginEval(O, i, isAsync)
        PROVE  cur' = cur + 1
    BY <2>8 DEF BeginEval
  <2>9. ASSUME NEW a \in Arrays, IsAvailable(a) \/ CallWait(a)
        PROVE  cur' = cur /\ (pc' = pc \/ pc' = "wait")
    BY <2>9 DEF IsAvailable, CallWait, callVars, evalVars
  <2>10. CASE (\E s \in Streams : Run(s)) \/ UNCHANGED vars \/ Quiescent
    <3>1. cur' = cur /\ pc' = pc
      BY <2>10 DEF Run, Quiescent, vars, callVars, evalVars
    <3> QED
      BY <1>2, <2>1, <3>1
  <2> QED
    BY <1>2, <1>4, <2>1, <2>2, <2>3, <2>4, <2>5, <2>6, <2>7, <2>8, <2>9, <2>10
    DEF Next, Caller, User, Worker
<1> QED
  BY <1>3, <1>4

-----------------------------------------------------------------------------
(* Statuses and events *)

(* An array whose event has been signalled has been computed. *)
LEMMA SignaledDone ==
    ASSUME TypeInv, QueueInv, StatusInv, NEW a \in Arrays, IsSignaled(a)
    PROVE  a \in computed
<1>1. PICK e \in Evals : event[a] = e /\ signaled[e][StreamOf[a]]
  BY DEF IsSignaled
<1>2. e # 0 /\ StreamOf[a] \in Streams
  BY GraphAssumption DEF Evals
<1>3. Covers(log, e, a)
  BY <1>1, <1>2 DEF StatusInv
<1> QED
  BY <1>1, <1>2, <1>3, CoverDone DEF Covers, Length

(* Between evals, what the user is told is ready has been computed. *)
LEMMA ReadyDone ==
    ASSUME TypeInv, QueueInv, StatusInv, SilentInv, NEW a \in Arrays,
           status[a] = "evaluated", Ready(a), pc \notin EvalPlaces
    PROVE  a \in computed
<1>1. CASE IsSignaled(a)
  BY <1>1, SignaledDone
<1>2. CASE ~HasEvent(a)
  BY <1>2 DEF SilentInv, Silent, HasEvent
<1> QED
  BY <1>1, <1>2 DEF Ready

(* An input of the primitive being evaluated is not one of its outputs, and *)
(* has been evaluated already.                                              *)
LEMMA InputEvaluated ==
    ASSUME TypeInv, FenceInv, OnceInv, TapeInv, WaitInput
    PROVE  /\ ~BeingEvaluated(InputsOf(arr)[idx])
           /\ InputsOf(arr)[idx] \notin Unscheduled
           /\ arr \in todo \/ arr = Sync
<1> DEFINE in == InputsOf(arr)[idx]
<1>1. in \in Arrays /\ in \in SeqRange(InputsOf(arr)) /\ pc = "inputs"
  BY WaitTypes
<1>2. in \notin todo /\ (arr \in todo \/ arr = Sync)
  BY <1>1 DEF FenceInv, OnceInv
<1>3. CASE arr = Sync
  BY <1>1, <1>2, <1>3 DEF TapeInv, EvalPlaces, BeingEvaluated, OutputsOf, InputsOf
<1>4. CASE arr \in todo /\ arr # Sync
  <2>1. in \in Parents(arr) /\ arr \in Arrays
    BY <1>1, <1>4 DEF InputsOf, Parents, SeqRange, TypeInv, TypeOK
  <2>2. Parents(arr) \cap Outputs[arr] = {}
    BY <2>1, GraphAssumption
  <2> QED
    BY <1>1, <1>2, <1>4, <2>1, <2>2 DEF TapeInv, EvalPlaces, BeingEvaluated, OutputsOf
<1> QED
  BY <1>2, <1>3, <1>4

(* Steps that leave statuses and events alone, and queue no signal.         *)
LEMMA StatusSame ==
    ASSUME StatusInv, Extended, computed \subseteq computed', NoSignal,
           UNCHANGED <<status, event>>,
           pc' \in InHand <=> pc \in InHand,
           pc \in InHand => UNCHANGED <<cur, async, arr>>,
           pc' \in Releasing => pc \in Releasing \/ \A p \in OutputsOf(arr) : Queued(log', p),
           pc' = "fence" => pc = "fence" /\ unfenced' \subseteq unfenced
    PROVE  StatusInv'
<1>1. ASSUME NEW p \in Arrays
      PROVE  /\ status[p] = "available" => p \in computed' /\ event[p] = 0
             /\ status[p] = "evaluated" => Queued(log', p)
             /\ event[p] # 0 =>
                  /\ \/ status[p] = "evaluated"
                     \/ pc' \in InHand /\ p \in OutputsOf(arr)' /\ event[p] = cur'
                  /\ Covers(log', event[p], p)
             /\ pc' \in InHand /\ p \in OutputsOf(arr)' =>
                  /\ async' => event[p] = cur'
                  /\ pc' \in Releasing => Queued(log', p)
  <2>1. pc' \in InHand => OutputsOf(arr)' = OutputsOf(arr)
    BY DEF OutputsOf
  <2>2. Queued(log, p) => Queued(log', p)
    BY QueuedStays
  <2>3. event[p] # 0 => Covers(log', event[p], p)
    BY CoversStays DEF StatusInv
  <2> QED
    BY <2>1, <2>2, <2>3 DEF StatusInv, BeingEvaluated
<1>2. pc' = "fence" => \A b \in unfenced' : status'[b] = "evaluated"
  BY DEF StatusInv
<1> QED
  BY <1>1, <1>2 DEF StatusInv, BeingEvaluated

LEMMA StatusStep ==
    TypeInv /\ QueueInv /\ FenceInv /\ OnceInv /\ TapeInv /\ SignalInv /\ StatusInv /\ SilentInv
    /\ [Next]_vars /\ ~Throw => StatusInv'
<1> SUFFICES ASSUME TypeInv, QueueInv, FenceInv, OnceInv, TapeInv, SignalInv, StatusInv,
                    SilentInv, [Next]_vars, ~Throw
             PROVE  StatusInv'
  OBVIOUS
<1> USE DEF InHand, Releasing
<1>0. Extended /\ computed \subseteq computed'
  BY Grown
<1>1. ASSUME NEW a \in Arrays \cup {Sync}, TakeArray(a) PROVE StatusInv'
  <2>1. /\ pc = "tape" /\ pc' = "inputs" /\ arr' = a /\ a \in todo \cup {Sync}
        /\ UNCHANGED <<status, log, cur, async, computed>>
        /\ event' = IF async
                    THEN [b \in Arrays |-> IF b \in OutputsOf(a) THEN cur ELSE event[b]]
                    ELSE event
    BY <1>1 DEF TakeArray, evalVars, queueVars, syncVars
  <2>2. OutputsOf(a) \subseteq Unscheduled /\ cur # 0
    BY <2>1, CallerTypes DEF TapeInv, OnceInv, EvalPlaces, OutputsOf
  <2>3. ASSUME NEW p \in Arrays PROVE Covers(log, cur, p)
    <3>1. StreamOf[p] \in Streams
      BY GraphAssumption
    <3> QED
      BY <2>1, <3>1 DEF Covers, IsSignal, SignalInv, EvalPlaces, Length
  <2>4. ASSUME NEW p \in Arrays
        PROVE  /\ status[p] = "available" => p \in computed /\ event'[p] = 0
               /\ status[p] = "evaluated" => Queued(log, p)
               /\ event'[p] # 0 =>
                    /\ status[p] = "evaluated" \/ (p \in OutputsOf(a) /\ event'[p] = cur)
                    /\ Covers(log, event'[p], p)
               /\ p \in OutputsOf(a) /\ async => event'[p] = cur
    <3>1. CASE async /\ p \in OutputsOf(a)
      <4>1. event'[p] = cur
        BY <2>1, <3>1
      <4> QED
        BY <2>2, <2>3, <3>1, <4>1 DEF Unscheduled
    <3>2. CASE ~(async /\ p \in OutputsOf(a))
      <4>1. event'[p] = event[p]
        BY <2>1, <3>2
      <4> QED
        BY <2>1, <3>2, <4>1 DEF StatusInv, BeingEvaluated
    <3> QED
      BY <3>1, <3>2
  <2>5. OutputsOf(arr)' = OutputsOf(a)
    BY <2>1 DEF OutputsOf
  <2> QED
    BY <2>1, <2>4, <2>5 DEF StatusInv, BeingEvaluated
<1>2. CASE WaitInput
  <2> DEFINE in == InputsOf(arr)[idx]
  <2>1. /\ UNCHANGED <<status, cur, async, arr, pc, unfenced>> /\ pc = "inputs"
        /\ in \in Arrays /\ NoSignal
    BY <1>2, WaitTypes, NoSignalStep DEF WaitInput, SignalEvent, evalVars
  <2>2. CASE event' = event
    BY <1>0, <2>1, <2>2, StatusSame
  <2>3. CASE event' = [event EXCEPT ![in] = 0] /\ log' = log
    <3>1. ~BeingEvaluated(in)
      BY <1>2, InputEvaluated
    <3> HIDE DEF in
    <3>2. \A p \in Arrays : event'[p] = IF p = in THEN 0 ELSE event[p]
      BY <2>3 DEF TypeInv, TypeOK
    <3>3. OutputsOf(arr)' = OutputsOf(arr)
      BY <2>1 DEF OutputsOf
    <3>4. ASSUME NEW p \in Arrays
          PROVE  /\ status[p] = "available" => p \in computed' /\ event'[p] = 0
                 /\ status[p] = "evaluated" => Queued(log, p)
                 /\ event'[p] # 0 =>
                      /\ status[p] = "evaluated" \/ (BeingEvaluated(p) /\ event'[p] = cur)
                      /\ Covers(log, event'[p], p)
                 /\ BeingEvaluated(p) /\ async => event'[p] = cur
      BY <1>0, <3>1, <3>2 DEF StatusInv
    <3> QED
      BY <2>1, <2>3, <3>3, <3>4 DEF StatusInv, BeingEvaluated
  <2> QED
    BY <1>2, <2>2, <2>3 DEF WaitInput, queueVars
<1>3. CASE Retain
  <2> DEFINE s == StreamFor(arr)
             t == DispatchedTask(s, "release", arr)
  <2>1. /\ UNCHANGED <<status, event, cur, async, arr>> /\ pc = "retain" /\ pc' = "check"
        /\ NoSignal /\ Dispatch(s, "release", arr)
    BY <1>3, NoSignalStep DEF Retain, Goto, SignalEvent, evalVars, stepVars, arrayVars
  <2>2. t \in Task /\ log' = [log EXCEPT ![s] = Append(@, t)] /\ s \in Streams /\ QueueOK
    BY <2>1, CallerTypes, DispatchGrows
  <2>3. t.kind = "release" /\ t.arr = arr
    BY DEF DispatchedTask
  <2>4. ASSUME NEW p \in OutputsOf(arr) PROVE Queued(log', p)
    <3>1. arr # Sync /\ p \in Outputs[arr] /\ arr \in Arrays
      BY <2>4, CallerTypes DEF OutputsOf
    <3>2. StreamOf[p] = s
      BY <3>1, GraphAssumption DEF StreamFor
    <3> HIDE DEF s, t
    <3>3. Len(log'[s]) \in 1..Len(log'[s]) /\ log'[s][Len(log'[s])] = t
      BY <2>2, AppendLast
    <3> QED
      BY <2>3, <3>1, <3>2, <3>3 DEF Queued, ReleasedTo, IsRelease
  <2> HIDE DEF s, t
  <2> QED
    BY <1>0, <2>1, <2>4, StatusSame
<1>4. ASSUME NEW overLimit \in BOOLEAN, MarkEvaluated(overLimit) PROVE StatusInv'
  <2>1. /\ pc \in Releasing /\ pc' = "fence" /\ UNCHANGED <<event, log, computed>>
        /\ unfenced' = Crossing(arr)
        /\ status' = StatusAfter(arr) /\ OutputsOf(arr) \subseteq Arrays
    BY <1>4, CallerTypes DEF MarkEvaluated, queueVars, syncVars
  <2>2. ASSUME NEW p \in Arrays
        PROVE  status'[p] = IF p \in OutputsOf(arr) THEN "evaluated" ELSE status[p]
    BY <2>1 DEF StatusAfter
  <2>3. ASSUME NEW p \in Arrays
        PROVE  /\ status'[p] = "available" => p \in computed /\ event[p] = 0
               /\ status'[p] = "evaluated" => Queued(log, p)
               /\ event[p] # 0 => status'[p] = "evaluated" /\ Covers(log, event[p], p)
    <3>1. CASE p \in OutputsOf(arr)
      BY <2>1, <2>2, <3>1 DEF StatusInv, BeingEvaluated
    <3>2. CASE p \notin OutputsOf(arr)
      BY <2>1, <2>2, <3>2 DEF StatusInv, BeingEvaluated
    <3> QED
      BY <3>1, <3>2
  <2>4. \A b \in unfenced' : status'[b] = "evaluated"
    BY <2>1, <2>2 DEF Crossing
  <2> QED
    BY <2>1, <2>3, <2>4 DEF StatusInv, BeingEvaluated
<1>5. ASSUME NEW s \in Streams, SignalEvent(s) PROVE StatusInv'
  <2>1. /\ UNCHANGED <<status, event, computed>> /\ pc = "signal" /\ pc' = "signal"
    BY <1>5 DEF SignalEvent, arrayVars, syncVars
  <2>2. ASSUME NEW p \in Arrays, status[p] = "evaluated", NEW e, Covers(log, e, p)
        PROVE  Queued(log', p) /\ Covers(log', e, p)
    <3>1. Queued(log, p)
      BY <2>2 DEF StatusInv
    <3>2. Queued(log', p)
      BY <1>0, <3>1, QueuedStays
    <3>3. CASE log' = log
      BY <2>2, <3>2, <3>3 DEF Covers
    <3>4. CASE Push(s, "eventSignal", Sync, cur, s, 0)
      <4> DEFINE t == PushedTask("eventSignal", Sync, cur, s, 0)
                 q == StreamOf[p]
      <4>1. QueueOK /\ t \in Task /\ log' = [log EXCEPT ![s] = Append(@, t)]
        <5>1. "eventSignal" \in Kinds /\ 0 \in Nat
          BY DEF Kinds
        <5>2. QueueOK /\ cur \in 0..MaxEvals
          BY CallerTypes
        <5> QED
          BY <3>4, <5>1, <5>2, PushGrows
      <4>2. q \in Streams
        BY GraphAssumption
      <4> HIDE DEF t, q
      <4> SUFFICES ASSUME NEW j \in 1..Len(log'[q]), IsSignal(log'[q][j], e)
                   PROVE  ReleasedTo(log', q, j - 1, p)
        BY <3>2 DEF Covers, q
      <4>3. Length(q) \in Nat
        BY <4>1, <4>2 DEF QueueOK, Length
      <4>4. ReleasedTo(log, q, j - 1, p) /\ j - 1 \in Int /\ j - 1 <= Length(q)
        <5>1. CASE j \in 1..Length(q) /\ log'[q][j] = log[q][j]
          BY <2>2, <4>3, <5>1 DEF Covers, Length, q
        <5>2. CASE q = s /\ j = Length(s) + 1
          <6>1. j - 1 = Length(q)
            BY <4>3, <5>2
          <6> QED
            BY <3>1, <4>3, <6>1 DEF Queued, Length, q
        <5> QED
          BY <4>1, <4>2, <5>1, <5>2, TaskOrigin DEF Length
      <4> QED
        BY <1>0, <4>2, <4>4, TasksStay
    <3> QED
      BY <1>5, <3>2, <3>3, <3>4 DEF SignalEvent, queueVars
  <2>3. ASSUME NEW p \in Arrays, status[p] = "evaluated" PROVE Queued(log', p)
    BY <1>0, <2>3, QueuedStays DEF StatusInv
  <2>4. \A p \in Arrays : event[p] # 0 => status[p] = "evaluated" /\ Covers(log, event[p], p)
    BY <2>1 DEF StatusInv, BeingEvaluated
  <2>5. \A p \in Arrays : status[p] = "available" => p \in computed /\ event[p] = 0
    BY DEF StatusInv
  <2> QED
    BY <2>1, <2>2, <2>3, <2>4, <2>5 DEF StatusInv, BeingEvaluated
<1>6. ASSUME NEW a \in Arrays, SetAvailable(a), a \in computed, UNCHANGED <<log, computed>>,
             pc \in {"idle", "wait"}, pc' = "idle"
      PROVE  StatusInv'
  <2>1. \A p \in Arrays : /\ status'[p] = IF p = a THEN "available" ELSE status[p]
                         /\ event'[p] = IF p = a THEN 0 ELSE event[p]
    BY <1>6 DEF SetAvailable, TypeInv, TypeOK
  <2>2. ASSUME NEW p \in Arrays
        PROVE  /\ status'[p] = "available" => p \in computed /\ event'[p] = 0
               /\ status'[p] = "evaluated" => Queued(log, p)
               /\ event'[p] # 0 => status'[p] = "evaluated" /\ Covers(log, event'[p], p)
    BY <1>6, <2>1 DEF StatusInv, BeingEvaluated
  <2> QED
    BY <1>6, <2>2 DEF StatusInv, BeingEvaluated
<1>7. ASSUME NEW a \in Arrays, IsAvailable(a) PROVE StatusInv'
  <2>1. /\ pc = "idle" /\ pc' = "idle" /\ SetAvailable(a) /\ status[a] = "evaluated"
        /\ Ready(a) /\ UNCHANGED <<log, computed>>
    BY <1>7 DEF IsAvailable, callVars, queueVars, syncVars
  <2>2. a \in computed
    BY <2>1, ReadyDone DEF EvalPlaces
  <2> QED
    BY <1>6, <2>1, <2>2
<1>8. CASE ReturnWait
  <2>1. /\ pc = "wait" /\ pc' = "idle" /\ SetAvailable(arr) /\ arr \in Arrays
        /\ IsSignaled(arr) /\ UNCHANGED <<log, computed>>
    BY <1>8 DEF ReturnWait, TapeInv, queueVars, syncVars
  <2>2. arr \in computed
    BY <2>1, SignaledDone
  <2> QED
    BY <1>6, <2>1, <2>2
<1>9. CASE EvalKernel \/ WaitForOne \/ NextArray \/ EndEval \/ ReturnSynchronize
  <2>1. /\ UNCHANGED <<status, event, cur, async, arr, unfenced>>
        /\ \/ pc = "inputs" /\ pc' = "retain"
           \/ pc = "throttled" /\ pc' = "recheck"
           \/ pc \in {"fence", "signal", "drain"} /\ pc' \in {"tape", "signal", "idle"}
    BY <1>9 DEF EvalKernel, WaitForOne, NextArray, EndEval, ReturnSynchronize, Goto,
       AllInputsSeen, evalVars, stepVars, arrayVars
  <2>2. NoSignal
    BY <1>9, <2>1, NoSignalStep DEF SignalEvent, EvalKernel, WaitForOne, NextArray, EndEval,
       ReturnSynchronize, Goto
  <2> QED
    BY <1>0, <2>1, <2>2, StatusSame
<1>10. ASSUME NEW overLimit \in BOOLEAN, Throttle(overLimit) PROVE StatusInv'
  <2>1. /\ UNCHANGED <<status, event, cur, async, arr>>
        /\ pc \in {"check", "recheck"} /\ pc' = "throttled"
    BY <1>10 DEF Throttle, evalVars, arrayVars
  <2>2. NoSignal
    BY <2>1, NoSignalStep DEF SignalEvent
  <2> QED
    BY <1>0, <2>1, <2>2, StatusSame
<1>11. ASSUME NEW b \in Arrays, UpdateFence(b) PROVE StatusInv'
  <2>1. UNCHANGED <<status, event>> /\ pc = "fence" /\ pc' = "fence" /\ unfenced' \subseteq unfenced
    BY <1>11 DEF UpdateFence, arrayVars
  <2>2. NoSignal
    BY <2>1, NoSignalStep DEF SignalEvent
  <2> QED
    BY <1>0, <2>1, <2>2, StatusSame
<1>12. ASSUME NEW O \in Requests, NEW isAsync \in BOOLEAN, NEW i \in DOMAIN O,
              BeginEval(O, i, isAsync)
       PROVE  StatusInv'
  <2>1. UNCHANGED <<status, event>> /\ pc = "idle" /\ pc' = "tape"
    BY <1>12 DEF BeginEval, arrayVars
  <2>2. NoSignal
    BY <2>1, NoSignalStep DEF SignalEvent
  <2> QED
    BY <1>0, <2>1, <2>2, StatusSame
<1>13. ASSUME NEW a \in Arrays, CallWait(a) PROVE StatusInv'
  <2>1. UNCHANGED <<status, event>> /\ pc = "idle" /\ pc' = "wait"
    BY <1>13 DEF CallWait, arrayVars
  <2>2. NoSignal
    BY <2>1, NoSignalStep DEF SignalEvent
  <2> QED
    BY <1>0, <2>1, <2>2, StatusSame
<1>14. ASSUME NEW s \in Streams, Synchronize(s) PROVE StatusInv'
  <2>1. UNCHANGED <<status, event>> /\ pc = "idle" /\ pc' = "drain"
    BY <1>14 DEF Synchronize, arrayVars
  <2>2. NoSignal
    BY <2>1, NoSignalStep DEF SignalEvent
  <2> QED
    BY <1>0, <2>1, <2>2, StatusSame
<1>15. CASE (\E s \in Streams : Run(s)) \/ UNCHANGED vars \/ Quiescent
  <2>1. UNCHANGED <<status, event, pc, cur, async, arr, unfenced, log>>
    BY <1>15 DEF Run, Quiescent, vars, callVars, evalVars, stepVars, arrayVars, queueVars
  <2>2. NoSignal
    BY <2>1 DEF NoSignal, Length
  <2> QED
    BY <1>0, <2>1, <2>2, StatusSame
<1> QED
  BY <1>1, <1>2, <1>3, <1>4, <1>5, <1>7, <1>8, <1>9, <1>10, <1>11, <1>12, <1>13, <1>14,
     <1>15 DEF Next, Caller, User, Worker

-----------------------------------------------------------------------------
(* Silent arrays *)

(* Steps after which nothing more is silent, inside an eval or outside.     *)
LEMMA SilentSame ==
    ASSUME SilentInv, \A p \in Arrays : Silent(p)' => Silent(p), Unscheduled' \subseteq Unscheduled,
           pc' \in EvalPlaces <=> pc \in EvalPlaces,
           pc \in EvalPlaces => UNCHANGED <<async, outs, needsFence, syncStream, todo>>
    PROVE  SilentInv'
<1>1. ASSUME pc \in EvalPlaces PROVE Reach(outs)' = Reach(outs) /\ SeqRange(outs)' = SeqRange(outs)
  BY <1>1 DEF Reach, SeqRange, Closed
<1>2. \A p \in Arrays : Silent(p)' => pc' \in EvalPlaces /\ ~async' /\ p \in Reach(outs)'
  BY <1>1 DEF SilentInv
<1>3. ASSUME pc' \in EvalPlaces, NEW p \in Arrays, Silent(p)' \/ p \in Unscheduled'
      PROVE  /\ \A a \in todo' : p \in Parents(a) /\ StreamOf[p] # StreamOf[a] => p \in needsFence'
             /\ p \in SeqRange(outs)' /\ StreamOf[p] # syncStream' => p \in needsFence'
  BY <1>1, <1>3 DEF SilentInv
<1> QED
  BY <1>2, <1>3 DEF SilentInv

(* Once the outputs of an eval are computed, so is all they are made of.    *)
LEMMA ReachComputed ==
    ASSUME TypeInv, ComputedClosed, NEW O, SeqRange(O) \subseteq computed
    PROVE  Reach(O) \subseteq computed
BY DEF Reach, ComputedClosed, Closed, TypeInv, TypeOK

(* eval returns when its outputs are computed. *)
LEMMA EvalDone ==
    ASSUME TypeInv, QueueInv, TapeInv, SeenInv, pc = "signal", signaled[cur][syncStream]
    PROVE  SeqRange(outs) \subseteq computed
<1>1. cur \in Evals /\ syncStream \in Streams /\ outs \in Seq(Arrays)
  BY CallerTypes DEF TypeInv, TypeOK, EvalPlaces
<1>2. PICK j \in 1..pos[syncStream] : IsSignal(log[syncStream][j], cur)
  BY <1>1 DEF QueueInv, SignalsRun
<1>3. /\ j \in 1..Length(syncStream) /\ j - 1 \in Int /\ j - 1 <= pos[syncStream]
      /\ pos[syncStream] \in Int
  BY <1>1 DEF TypeInv, TypeOK, Length
<1>4. \A i \in DOMAIN outs : Behind(log, computed, syncStream, j - 1, outs[i])
  BY <1>2, <1>3 DEF SeenInv
<1>5. Done
  BY DEF QueueInv
<1> SUFFICES ASSUME NEW i \in DOMAIN outs PROVE outs[i] \in computed
  BY DEF SeqRange
<1>6. outs[i] \in Arrays
  BY <1>1
<1> QED
  BY <1>1, <1>3, <1>4, <1>5, <1>6, BehindDone

LEMMA SilentStep ==
    TypeInv /\ QueueInv /\ OnceInv /\ TapeInv /\ StatusInv /\ SilentInv /\ SeenInv
    /\ [Next]_vars /\ ~Throw => SilentInv'
<1> SUFFICES ASSUME TypeInv, QueueInv, OnceInv, TapeInv, StatusInv, SilentInv, SeenInv,
                    [Next]_vars, ~Throw
             PROVE  SilentInv'
  OBVIOUS
<1> USE DEF EvalPlaces
<1>0. computed \subseteq computed' /\ Extended
  BY Grown
<1>1. ASSUME NEW O \in Requests, NEW isAsync \in BOOLEAN, NEW i \in DOMAIN O,
             BeginEval(O, i, isAsync)
      PROVE  SilentInv'
  <2>1. /\ pc = "idle" /\ pc' = "tape" /\ UNCHANGED <<status, event, computed>>
        /\ outs' = O /\ todo' = Needed(SeqRange(O)) /\ needsFence' = CrossStream(O, i)
        /\ syncStream' = StreamOf[O[i]]
    BY <1>1 DEF BeginEval, arrayVars, syncVars
  <2>2. \A p \in Arrays : ~Silent(p) /\ ~Silent(p)'
    BY <2>1 DEF SilentInv, Silent
  <2>3. Unscheduled' = Unscheduled /\ SeqRange(outs)' = SeqRange(O)
    BY <2>1 DEF Unscheduled, SeqRange
  <2>4. ASSUME NEW p \in Unscheduled
        PROVE  /\ \A a \in Needed(SeqRange(O)) : p \in Parents(a) /\ StreamOf[p] # StreamOf[a]
                    => p \in CrossStream(O, i)
               /\ p \in SeqRange(O) /\ StreamOf[p] # StreamOf[O[i]] => p \in CrossStream(O, i)
    BY <2>4 DEF CrossStream
  <2> QED
    BY <2>1, <2>2, <2>3, <2>4 DEF SilentInv
<1>2. ASSUME NEW overLimit \in BOOLEAN, MarkEvaluated(overLimit) PROVE SilentInv'
  <2>1. /\ pc \in Releasing /\ pc' = "fence" /\ todo' = todo \ OutputsOf(arr)
        /\ UNCHANGED <<event, computed, async, outs, needsFence, syncStream, cur>>
        /\ status' = StatusAfter(arr) /\ pc \in InHand
    BY <1>2 DEF MarkEvaluated, Releasing, evalVars, syncVars, InHand
  <2>2. OutputsOf(arr) \subseteq todo
    BY <2>1 DEF OnceInv, TapeInv, OutputsOf, Releasing
  <2>3. todo \subseteq Unscheduled /\ todo \subseteq Reach(outs)
    BY <2>1 DEF OnceInv, TapeInv, Releasing
  <2>4. Reach(outs)' = Reach(outs) /\ SeqRange(outs)' = SeqRange(outs)
    BY <2>1 DEF Reach, SeqRange, Closed
  <2>5. \A p \in Arrays : status'[p] = IF p \in OutputsOf(arr) THEN "evaluated" ELSE status[p]
    BY <2>1 DEF StatusAfter
  <2>6. Unscheduled' \subseteq Unscheduled
    BY <2>5 DEF Unscheduled
  <2>7. ASSUME NEW p \in Arrays, Silent(p)'
        PROVE  /\ Silent(p) \/ p \in Unscheduled
               /\ ~async /\ p \in Reach(outs)
    <3>1. CASE p \in OutputsOf(arr)
      <4>1. async => event[p] # 0
        BY <2>1, <3>1, CallerTypes DEF StatusInv, BeingEvaluated, Releasing
      <4>2. ~async
        BY <2>1, <2>7, <4>1 DEF Silent
      <4> QED
        BY <2>2, <2>3, <3>1, <4>2
    <3>2. CASE p \notin OutputsOf(arr)
      <4>1. Silent(p)
        BY <2>1, <2>5, <2>7, <3>2 DEF Silent
      <4> QED
        BY <4>1 DEF SilentInv
    <3> QED
      BY <3>1, <3>2
  <2>8. pc \in EvalPlaces
    BY <2>1 DEF Releasing
  <2>9. ASSUME NEW p \in Arrays, Silent(p)' \/ p \in Unscheduled'
        PROVE  /\ \A a \in todo' : p \in Parents(a) /\ StreamOf[p] # StreamOf[a] => p \in needsFence
               /\ p \in SeqRange(outs) /\ StreamOf[p] # syncStream => p \in needsFence
    BY <2>1, <2>6, <2>7, <2>8, <2>9 DEF SilentInv
  <2> QED
    BY <2>1, <2>4, <2>7, <2>9 DEF SilentInv
<1>3. CASE EndEval
  <2>1. /\ pc = "signal" /\ pc' = "idle" /\ UNCHANGED <<status, event, computed>>
        /\ async \/ signaled[cur][syncStream]
    BY <1>3 DEF EndEval, Goto, arrayVars, syncVars
  <2>2. \A p \in Arrays : ~Silent(p)
    <3>1. CASE async
      BY <3>1 DEF SilentInv
    <3>2. CASE signaled[cur][syncStream]
      <4>1. Reach(outs) \subseteq computed
        BY <2>1, <3>2, EvalDone, ReachComputed DEF QueueInv
      <4> QED
        BY <4>1 DEF SilentInv, Silent
    <3> QED
      BY <2>1, <3>1, <3>2
  <2> QED
    BY <2>1, <2>2 DEF SilentInv, Silent
<1>4. ASSUME UNCHANGED <<status, event>> PROVE (\A p \in Arrays : Silent(p)' => Silent(p))
                                            /\ Unscheduled' = Unscheduled
  BY <1>0, <1>4 DEF Silent, Unscheduled
<1>5. ASSUME NEW a \in Arrays \cup {Sync}, TakeArray(a) PROVE SilentInv'
  <2>1. /\ pc = "tape" /\ pc' = "inputs"
        /\ UNCHANGED <<status, computed, async, outs, needsFence, syncStream, todo>>
        /\ event' = IF async
                    THEN [b \in Arrays |-> IF b \in OutputsOf(a) THEN cur ELSE event[b]]
                    ELSE event
    BY <1>5 DEF TakeArray, evalVars, syncVars
  <2>2. \A p \in Arrays : event'[p] = 0 => event[p] = 0
    BY <2>1, CallerTypes
  <2>3. \A p \in Arrays : Silent(p)' => Silent(p)
    BY <2>1, <2>2 DEF Silent
  <2> QED
    BY <2>1, <2>3, SilentSame DEF Unscheduled
<1>6. CASE WaitInput
  <2> DEFINE in == InputsOf(arr)[idx]
  <2>1. /\ UNCHANGED <<pc, status, async, outs, needsFence, syncStream, todo, computed>>
        /\ in \in Arrays
    BY <1>6, WaitTypes DEF WaitInput, evalVars, syncVars
  <2>2. CASE event' = event
    BY <1>4, <2>1, <2>2, SilentSame
  <2>3. CASE event' = [event EXCEPT ![in] = 0] /\ IsSignaled(in)
    <3>1. in \in computed
      BY <2>1, <2>3, SignaledDone
    <3> HIDE DEF in
    <3>2. \A p \in Arrays : event'[p] = IF p = in THEN 0 ELSE event[p]
      BY <2>3 DEF TypeInv, TypeOK
    <3>3. \A p \in Arrays : Silent(p)' => Silent(p)
      BY <2>1, <3>1, <3>2 DEF Silent
    <3> QED
      BY <2>1, <3>3, SilentSame DEF Unscheduled
  <2> QED
    BY <1>6, <2>2, <2>3 DEF WaitInput
<1>7. ASSUME NEW a, SetAvailable(a), pc' = "idle", pc \in {"idle", "wait"} PROVE SilentInv'
  <2>1. \A p \in Arrays : /\ status'[p] = IF p = a THEN "available" ELSE status[p]
                         /\ event'[p] = IF p = a THEN 0 ELSE event[p]
    BY <1>7 DEF SetAvailable, TypeInv, TypeOK
  <2>2. \A p \in Arrays : Silent(p)' => Silent(p)
    BY <1>0, <2>1 DEF Silent
  <2>3. Unscheduled' \subseteq Unscheduled
    BY <2>1 DEF Unscheduled
  <2> QED
    BY <1>7, <2>2, <2>3, SilentSame
<1>8. ASSUME NEW a \in Arrays, IsAvailable(a) PROVE SilentInv'
  BY <1>7, <1>8 DEF IsAvailable, callVars
<1>9. CASE ReturnWait
  BY <1>7, <1>9 DEF ReturnWait
<1>10. CASE EvalKernel \/ Retain \/ WaitForOne \/ NextArray \/ ReturnSynchronize
  <2>1. /\ UNCHANGED <<status, event, async, outs, needsFence, syncStream, todo>>
        /\ \/ pc \in EvalPlaces /\ pc' \in EvalPlaces
           \/ pc = "drain" /\ pc' = "idle"
    BY <1>10 DEF EvalKernel, Retain, WaitForOne, NextArray, ReturnSynchronize, Goto,
       AllInputsSeen, evalVars, stepVars, arrayVars
  <2> QED
    BY <1>4, <2>1, SilentSame
<1>11. ASSUME NEW overLimit \in BOOLEAN, Throttle(overLimit) PROVE SilentInv'
  <2>1. /\ UNCHANGED <<status, event, async, outs, needsFence, syncStream, todo>>
        /\ pc \in {"check", "recheck"} /\ pc' = "throttled"
    BY <1>11 DEF Throttle, evalVars, arrayVars
  <2> QED
    BY <1>4, <2>1, SilentSame
<1>12. ASSUME NEW b \in Arrays, UpdateFence(b) PROVE SilentInv'
  <2>1. UNCHANGED <<status, event, async, outs, needsFence, syncStream, todo, pc>>
    BY <1>12 DEF UpdateFence, evalVars, arrayVars
  <2> QED
    BY <1>4, <2>1, SilentSame
<1>13. ASSUME NEW s \in Streams, SignalEvent(s) PROVE SilentInv'
  <2>1. UNCHANGED <<status, event, async, outs, needsFence, syncStream, todo, pc>>
    BY <1>13 DEF SignalEvent, evalVars, stepVars, arrayVars
  <2> QED
    BY <1>4, <2>1, SilentSame
<1>14. ASSUME NEW s \in Streams, Synchronize(s) PROVE SilentInv'
  <2>1. UNCHANGED <<status, event>> /\ pc = "idle" /\ pc' = "drain"
    BY <1>14 DEF Synchronize, arrayVars
  <2> QED
    BY <1>4, <2>1, SilentSame
<1>15. ASSUME NEW a \in Arrays, CallWait(a) PROVE SilentInv'
  <2>1. UNCHANGED <<status, event>> /\ pc = "idle" /\ pc' = "wait"
    BY <1>15 DEF CallWait, arrayVars
  <2> QED
    BY <1>4, <2>1, SilentSame
<1>16. CASE (\E s \in Streams : Run(s)) \/ UNCHANGED vars \/ Quiescent
  <2>1. UNCHANGED <<status, event, async, outs, needsFence, syncStream, todo, pc>>
    BY <1>16 DEF Run, Quiescent, vars, callVars, evalVars, stepVars, arrayVars
  <2> QED
    BY <1>4, <2>1, SilentSame
<1> QED
  BY <1>1, <1>2, <1>3, <1>5, <1>6, <1>8, <1>9, <1>10, <1>11, <1>12, <1>13, <1>14, <1>15,
     <1>16 DEF Next, Caller, User, Worker

-----------------------------------------------------------------------------
(* What the stream of the primitive being evaluated waits for *)

LEMMA BehindStays ==
    ASSUME Extended, computed \subseteq computed', NEW s \in Streams, NEW p,
           Behind(log, computed, s, Length(s), p)
    PROVE  Behind(log', computed', s, Len(log'[s]), p)
<1>1. Length(s) \in Int /\ Length(s) <= Length(s) /\ Len(log'[s]) \in Int
      /\ Length(s) <= Len(log'[s])
  BY DEF Extended, Length
<1>2. Behind(log', computed', s, Length(s), p)
  BY <1>1, TasksStay
<1> QED
  BY <1>1, <1>2, Longer

(* The task appended carries p. *)
LEMMA BehindAppended ==
    ASSUME QueueOK, NEW s \in Streams, NEW t \in Task,
           log' = [log EXCEPT ![s] = Append(@, t)], NEW p, Carries(t, p)
    PROVE  Behind(log', computed', s, Len(log'[s]), p)
<1>1. Len(log'[s]) \in 1..Len(log'[s]) /\ log'[s][Len(log'[s])] = t
  BY AppendLast
<1> QED
  BY <1>1 DEF Behind

(* Steps that do not bring the caller to a place where more must be seen.   *)
LEMMA SeenSame ==
    ASSUME TypeInv, SeenInv, Extended, computed \subseteq computed',
           pc' \in EvalPlaces => UNCHANGED <<arr, outs, syncStream, cur>>,
           pc' = "inputs" => pc = "inputs" /\ idx' = idx,
           pc' = "retain" => pc = "retain",
           pc' \in EvalPlaces \ {"tape", "inputs"} /\ arr = Sync =>
               pc \in EvalPlaces \ {"tape", "inputs"},
           pc' = "signal" => pc = "signal" /\ NoSignal
    PROVE  SeenInv'
<1>1. StreamFor(arr) \in Streams /\ syncStream \in Streams /\ QueueOK
  BY CallerTypes DEF TypeInv, TypeOK
<1>2. ASSUME pc' \in EvalPlaces
      PROVE  /\ InputsOf(arr)' = InputsOf(arr) /\ StreamFor(arr)' = StreamFor(arr)
             /\ UNCHANGED <<arr, outs, syncStream, cur>>
  BY <1>2 DEF InputsOf, StreamFor
<1>3. ASSUME pc' \in EvalPlaces, NEW i, Seen(i) PROVE Seen(i)'
  <2>1. Behind(log', computed', StreamFor(arr), Len(log'[StreamFor(arr)]), InputsOf(arr)[i])
    BY <1>1, <1>3, BehindStays DEF Seen
  <2> QED
    BY <1>2, <1>3, <2>1 DEF Seen, Length
<1>4. pc' = "inputs" => idx' >= 1 /\ \A i \in DOMAIN InputsOf(arr)' : i < idx' => Seen(i)'
  BY <1>2, <1>3 DEF SeenInv, EvalPlaces
<1>5. pc' = "retain" \/ (pc' \in EvalPlaces \ {"tape", "inputs"} /\ arr' = Sync) =>
         \A i \in DOMAIN InputsOf(arr)' : Seen(i)'
  BY <1>2, <1>3 DEF SeenInv, EvalPlaces
<1>6. ASSUME pc' = "signal", NEW j \in 1..Len(log'[syncStream]),
             IsSignal(log'[syncStream][j], cur), NEW i \in DOMAIN outs
      PROVE  Behind(log', computed', syncStream, j - 1, outs[i])
  <2>1. j \in 1..Length(syncStream) /\ log'[syncStream][j] = log[syncStream][j]
    BY <1>1, <1>6 DEF NoSignal, IsSignal
  <2>2. Behind(log, computed, syncStream, j - 1, outs[i])
    BY <1>6, <2>1 DEF SeenInv
  <2>3. j - 1 \in Int /\ j - 1 <= Length(syncStream)
    BY <1>1, <2>1 DEF QueueOK, Length
  <2> QED
    BY <1>1, <2>2, <2>3, TasksStay
<1>7. pc' = "signal" => \A j \in 1..Len(log'[syncStream']) : IsSignal(log'[syncStream'][j], cur')
         => \A i \in DOMAIN outs' : Behind(log', computed', syncStream', j - 1, outs'[i])
  BY <1>2, <1>6 DEF EvalPlaces
<1> QED
  BY <1>4, <1>5, <1>7 DEF SeenInv, Length

(* All inputs have been seen when the kernel is dispatched, and after.      *)
LEMMA AllSeen ==
    ASSUME TypeInv, SeenInv, AllInputsSeen \/ pc = "retain"
    PROVE  \A i \in DOMAIN InputsOf(arr) : Seen(i)
<1>1. CASE pc = "retain"
  BY <1>1 DEF SeenInv
<1>2. CASE AllInputsSeen
  <2>1. InputsOf(arr) \in Seq(Arrays) /\ idx \in Nat
    BY CallerTypes DEF TypeInv, TypeOK
  <2>2. idx >= 1 /\ idx \notin DOMAIN InputsOf(arr) /\ pc = "inputs"
    BY <1>2 DEF AllInputsSeen, SeenInv
  <2>3. \A i \in DOMAIN InputsOf(arr) : i < idx
    BY <2>1, <2>2
  <2> QED
    BY <2>2, <2>3 DEF SeenInv
<1> QED
  BY <1>1, <1>2

(* After eval_impl has dealt with an input, the stream of arr will get it.  *)
LEMMA SeenInput ==
    ASSUME TypeInv, QueueInv, FenceInv, OnceInv, TapeInv, StatusInv, SilentInv, WaitInput,
           Extended, computed \subseteq computed'
    PROVE  Behind(log', computed', StreamFor(arr), Len(log'[StreamFor(arr)]), InputsOf(arr)[idx])
<1> DEFINE in == InputsOf(arr)[idx]
           s == StreamFor(arr)
<1>1. /\ in \in Arrays /\ in \in SeqRange(InputsOf(arr)) /\ pc = "inputs" /\ s \in Streams
      /\ QueueOK /\ cur \in 0..MaxEvals /\ StreamOf[in] \in Streams
      /\ fenceCount[cur][StreamOf[in]] \in Nat /\ event[in] \in 0..MaxEvals
      /\ "fenceWait" \in Kinds /\ "eventWait" \in Kinds /\ 0 \in Nat
  BY WaitTypes, CallerTypes DEF Kinds
<1>2. in \notin Unscheduled /\ (arr \in todo \/ arr = Sync)
  BY InputEvaluated
<1>3. ASSUME Behind(log, computed, s, Length(s), in)
      PROVE  Behind(log', computed', s, Len(log'[s]), in)
  BY <1>1, <1>3, BehindStays
<1>4. CASE in \in computed
  BY <1>3, <1>4 DEF Behind
<1>5. ASSUME NEW kind \in {"fenceWait", "eventWait"}, NEW e \in 0..MaxEvals, NEW n \in Nat,
             Push(s, kind, in, e, StreamOf[in], n)
      PROVE  Behind(log', computed', s, Len(log'[s]), in)
  <2> DEFINE t == PushedTask(kind, in, e, StreamOf[in], n)
  <2>1. t \in Task /\ log' = [log EXCEPT ![s] = Append(@, t)]
    BY <1>1, <1>5, PushGrows
  <2>2. Carries(t, in)
    BY <1>5 DEF Carries, PushedTask
  <2> HIDE DEF t, s, in
  <2> QED
    BY <1>1, <2>1, <2>2, BehindAppended
<1>6. CASE in \notin needsFence /\ (~HasEvent(in) \/ StreamOf[in] = s) /\ in \notin computed
  <2>1. status[in] = "evaluated"
    BY <1>1, <1>2, <1>6 DEF Unscheduled, TypeInv, TypeOK, StatusInv
  <2>2. CASE StreamOf[in] = s
    <3>1. ReleasedTo(log, s, Length(s), in)
      BY <1>1, <2>1, <2>2 DEF StatusInv, Queued, Length
    <3>2. Behind(log, computed, s, Length(s), in)
      BY <3>1 DEF ReleasedTo, Behind, Carries
    <3> QED
      BY <1>3, <3>2
  <2>3. CASE ~HasEvent(in) /\ StreamOf[in] # s
    <3>1. Silent(in)
      BY <1>6, <2>1, <2>3 DEF Silent, HasEvent
    <3>2. CASE arr = Sync
      BY <1>1, <1>6, <2>3, <3>1, <3>2 DEF SilentInv, EvalPlaces, InputsOf, StreamFor
    <3>3. CASE arr \in todo /\ arr # Sync
      <4>1. in \in Parents(arr)
        BY <1>1, <3>3 DEF InputsOf, Parents, SeqRange
      <4> QED
        BY <1>1, <1>6, <2>3, <3>1, <3>3, <4>1 DEF SilentInv, EvalPlaces, StreamFor
    <3> QED
      BY <1>2, <3>2, <3>3
  <2> QED
    BY <1>6, <2>2, <2>3
<1>7. CASE IsSignaled(in)
  BY <1>1, <1>4, <1>7, SignaledDone
<1> HIDE DEF in, s
<1>8. \/ Push(s, "fenceWait", in, cur, StreamOf[in], fenceCount[cur][StreamOf[in]])
      \/ IsSignaled(in)
      \/ Push(s, "eventWait", in, event[in], StreamOf[in], 0)
      \/ in \notin needsFence /\ (~HasEvent(in) \/ StreamOf[in] = s)
  BY DEF WaitInput, in, s
<1>9. Behind(log', computed', s, Len(log'[s]), in)
  <2>1. CASE Push(s, "fenceWait", in, cur, StreamOf[in], fenceCount[cur][StreamOf[in]])
    BY <1>1, <1>5, <2>1
  <2>2. CASE Push(s, "eventWait", in, event[in], StreamOf[in], 0)
    BY <1>1, <1>5, <2>2
  <2>3. CASE in \notin needsFence /\ (~HasEvent(in) \/ StreamOf[in] = s)
    BY <1>4, <1>6, <2>3 DEF in, s
  <2>4. CASE IsSignaled(in)
    BY <1>7, <2>4 DEF in, s
  <2> QED
    BY <1>8, <2>1, <2>2, <2>3, <2>4
<1> QED
  BY <1>9 DEF in, s

LEMMA SeenStep ==
    TypeInv /\ QueueInv /\ FenceInv /\ OnceInv /\ TapeInv /\ SignalInv /\ StatusInv /\ SilentInv
    /\ SeenInv /\ [Next]_vars => SeenInv'
<1> SUFFICES ASSUME TypeInv, QueueInv, FenceInv, OnceInv, TapeInv, SignalInv, StatusInv,
                    SilentInv, SeenInv, [Next]_vars
             PROVE  SeenInv'
  OBVIOUS
<1> USE DEF EvalPlaces
<1>0. Extended /\ computed \subseteq computed'
  BY Grown
<1>1. ASSUME NEW a \in Arrays \cup {Sync}, TakeArray(a) PROVE SeenInv'
  <2>1. pc' = "inputs" /\ idx' = 1 /\ arr' = a
    BY <1>1 DEF TakeArray
  <2>2. InputsOf(arr)' \in Seq(Arrays)
    BY <1>1, <2>1, GraphAssumption, BoundAssumption
    DEF TakeArray, evalVars, InputsOf, TypeInv, TypeOK
  <2>3. \A i \in DOMAIN InputsOf(arr)' : ~(i < 1)
    BY <2>2
  <2> QED
    BY <2>1, <2>3 DEF SeenInv
<1>2. CASE WaitInput
  <2>1. /\ pc = "inputs" /\ pc' = "inputs" /\ idx' = idx + 1 /\ UNCHANGED <<arr, outs, syncStream>>
        /\ idx \in Nat /\ InputsOf(arr) \in Seq(Arrays) /\ StreamFor(arr) \in Streams
    BY <1>2, CallerTypes DEF WaitInput, evalVars, TypeInv, TypeOK
  <2>2. InputsOf(arr)' = InputsOf(arr) /\ StreamFor(arr)' = StreamFor(arr)
    BY <2>1 DEF InputsOf, StreamFor
  <2>3. ASSUME NEW i \in DOMAIN InputsOf(arr), i < idx + 1 PROVE Seen(i)'
    <3>1. i \in Int
      BY <2>1
    <3>2. CASE i = idx
      BY <1>0, <1>2, <2>2, <3>2, SeenInput DEF Seen, Length
    <3>3. CASE i < idx
      <4>1. Seen(i)
        BY <2>1, <3>3 DEF SeenInv
      <4>2. Behind(log', computed', StreamFor(arr), Len(log'[StreamFor(arr)]), InputsOf(arr)[i])
        BY <1>0, <2>1, <4>1, BehindStays DEF Seen
      <4> QED
        BY <2>2, <4>2 DEF Seen, Length
    <3> QED
      BY <2>1, <2>3, <3>1, <3>2, <3>3
  <2>4. idx >= 1
    BY <2>1 DEF SeenInv
  <2>5. idx' >= 1
    BY <2>1, <2>4
  <2> QED
    BY <2>1, <2>2, <2>3, <2>5 DEF SeenInv
<1>3. CASE EvalKernel
  <2>1. /\ pc = "inputs" /\ pc' = "retain" /\ UNCHANGED <<arr, outs, syncStream>>
        /\ AllInputsSeen /\ StreamFor(arr) \in Streams
    BY <1>3, CallerTypes DEF EvalKernel, Goto, AllInputsSeen, evalVars, stepVars
  <2>2. InputsOf(arr)' = InputsOf(arr) /\ StreamFor(arr)' = StreamFor(arr)
    BY <2>1 DEF InputsOf, StreamFor
  <2>3. ASSUME NEW i \in DOMAIN InputsOf(arr) PROVE Seen(i)'
    <3>1. Seen(i)
      BY <2>1, AllSeen
    <3>2. Behind(log', computed', StreamFor(arr), Len(log'[StreamFor(arr)]), InputsOf(arr)[i])
      BY <1>0, <2>1, <3>1, BehindStays DEF Seen
    <3> QED
      BY <2>2, <3>2 DEF Seen, Length
  <2> QED
    BY <2>1, <2>2, <2>3 DEF SeenInv
<1>4. CASE NextArray
  <2>1. /\ pc = "fence" /\ UNCHANGED <<arr, outs, syncStream, cur, log, computed>>
        /\ pc' = IF arr = Sync THEN "signal" ELSE "tape"
    BY <1>4 DEF NextArray, Goto, evalVars, stepVars, queueVars, syncVars
  <2>2. CASE arr = Sync
    <3>1. syncStream \in Streams
      BY DEF TypeInv, TypeOK
    <3>2. \A j \in 1..Length(syncStream) : ~IsSignal(log[syncStream][j], cur)
      BY <2>1, <3>1 DEF SignalInv, IsSignal
    <3>3. \A i \in DOMAIN InputsOf(arr) : Seen(i)
      BY <2>1, <2>2 DEF SeenInv
    <3>4. \A i \in DOMAIN InputsOf(arr)' : Seen(i)'
      BY <2>1, <3>3 DEF Seen, InputsOf, StreamFor, Length
    <3> QED
      BY <2>1, <2>2, <3>2, <3>4 DEF SeenInv, Length
  <2>3. CASE arr # Sync
    BY <2>1, <2>3 DEF SeenInv
  <2> QED
    BY <2>2, <2>3
<1>5. ASSUME NEW s \in Streams, SignalEvent(s) PROVE SeenInv'
  <2>1. /\ pc = "signal" /\ pc' = "signal" /\ arr = Sync
        /\ UNCHANGED <<arr, outs, syncStream, cur, computed>>
    BY <1>5 DEF SignalEvent, TapeInv, evalVars, stepVars, syncVars
  <2>2. syncStream \in Streams /\ StreamFor(arr) = syncStream /\ InputsOf(arr) = outs
        /\ StreamFor(arr)' = syncStream /\ InputsOf(arr)' = outs /\ QueueOK
    BY <2>1, CallerTypes DEF TypeInv, TypeOK, StreamFor, InputsOf
  <2>3. \A i \in DOMAIN outs : Behind(log, computed, syncStream, Length(syncStream), outs[i])
    BY <2>1, <2>2 DEF SeenInv, Seen
  <2>4. \A i \in DOMAIN InputsOf(arr)' : Seen(i)'
    <3>1. \A i \in DOMAIN outs :
            Behind(log', computed', syncStream, Len(log'[syncStream]), outs[i])
      BY <1>0, <2>2, <2>3, BehindStays
    <3> QED
      BY <2>2, <3>1 DEF Seen, Length
  <2>5. ASSUME NEW j \in 1..Len(log'[syncStream]), IsSignal(log'[syncStream][j], cur),
               NEW i \in DOMAIN outs
        PROVE  Behind(log', computed', syncStream, j - 1, outs[i])
    <3>1. Length(syncStream) \in Nat
      BY <2>2 DEF QueueOK, Length
    <3>2. CASE j \in 1..Length(syncStream) /\ log'[syncStream][j] = log[syncStream][j]
      <4>1. Behind(log, computed, syncStream, j - 1, outs[i])
        BY <2>1, <2>5, <3>2 DEF SeenInv
      <4>2. j - 1 \in Int /\ j - 1 <= Length(syncStream)
        BY <3>1, <3>2
      <4> QED
        BY <1>0, <2>2, <4>1, <4>2, TasksStay
    <3>3. CASE j - 1 = Length(syncStream)
      <4>1. j - 1 \in Int /\ j - 1 <= Length(syncStream)
        BY <3>1, <3>3
      <4> QED
        BY <1>0, <2>2, <2>3, <3>3, <4>1, TasksStay
    <3>4. CASE log' = log
      BY <3>2, <3>4 DEF Length
    <3>5. CASE Push(s, "eventSignal", Sync, cur, s, 0)
      <4> DEFINE t == PushedTask("eventSignal", Sync, cur, s, 0)
      <4>1. cur \in 0..MaxEvals /\ "eventSignal" \in Kinds /\ 0 \in Nat
        BY CallerTypes DEF Kinds
      <4>2. t \in Task /\ log' = [log EXCEPT ![s] = Append(@, t)]
        BY <2>2, <3>5, <4>1, PushGrows, SMTT(30)
      <4> HIDE DEF t
      <4>3. \/ syncStream = s /\ j = Length(s) + 1 /\ log'[syncStream][j] = t
            \/ j \in 1..Length(syncStream) /\ log'[syncStream][j] = log[syncStream][j]
        BY <2>2, <4>2, TaskOrigin DEF Length
      <4>4. syncStream = s /\ j = Length(s) + 1 => j - 1 = Length(syncStream)
        BY <3>1
      <4> QED
        BY <3>2, <3>3, <4>3, <4>4
    <3> QED
      BY <1>5, <3>4, <3>5 DEF SignalEvent, queueVars
  <2>6. \A j \in 1..Len(log'[syncStream']) : IsSignal(log'[syncStream'][j], cur') =>
          \A i \in DOMAIN outs' : Behind(log', computed', syncStream', j - 1, outs'[i])
    BY <2>1, <2>5
  <2> QED
    BY <2>1, <2>4, <2>6 DEF SeenInv, Length
<1>6. CASE Retain \/ WaitForOne
  <2>1. /\ UNCHANGED <<arr, outs, syncStream, cur>>
        /\ pc \in {"retain", "throttled"} /\ pc' \in {"check", "recheck"}
    BY <1>6 DEF Retain, WaitForOne, Goto, evalVars, stepVars
  <2> QED
    BY <1>0, <2>1, SeenSame
<1>7. CASE Throw \/ EndEval \/ ReturnWait \/ ReturnSynchronize
  <2>1. pc' = "idle"
    BY <1>7 DEF Throw, EndEval, ReturnWait, ReturnSynchronize, Goto
  <2> QED
    BY <2>1 DEF SeenInv
<1>8. ASSUME NEW overLimit \in BOOLEAN, Throttle(overLimit) \/ MarkEvaluated(overLimit)
      PROVE  SeenInv'
  <2>1. /\ UNCHANGED <<arr, outs, syncStream, cur>>
        /\ pc \in {"check", "recheck"} /\ pc' \in {"throttled", "fence"}
    BY <1>8 DEF Throttle, MarkEvaluated, evalVars
  <2> QED
    BY <1>0, <2>1, SeenSame
<1>9. ASSUME NEW b \in Arrays, UpdateFence(b) PROVE SeenInv'
  <2>1. UNCHANGED <<arr, outs, syncStream, cur>> /\ pc = "fence" /\ pc' = "fence"
    BY <1>9 DEF UpdateFence, evalVars
  <2> QED
    BY <1>0, <2>1, SeenSame
<1>10. ASSUME NEW O \in Requests, NEW isAsync \in BOOLEAN, NEW i \in DOMAIN O,
              BeginEval(O, i, isAsync)
       PROVE  SeenInv'
  BY <1>10 DEF BeginEval, SeenInv
<1>11. ASSUME NEW a \in Arrays, IsAvailable(a) \/ CallWait(a) PROVE SeenInv'
  <2>1. pc' \in {"idle", "wait"}
    BY <1>11 DEF IsAvailable, CallWait, callVars
  <2> QED
    BY <2>1 DEF SeenInv
<1>12. ASSUME NEW s \in Streams, Synchronize(s) PROVE SeenInv'
  BY <1>12 DEF Synchronize, SeenInv
<1>13. CASE (\E s \in Streams : Run(s)) \/ UNCHANGED vars \/ Quiescent
  <2>1. UNCHANGED <<arr, outs, syncStream, cur, pc, idx, log>>
    BY <1>13 DEF Run, Quiescent, vars, callVars, evalVars, stepVars, queueVars
  <2>2. NoSignal
    BY <2>1 DEF NoSignal, Length
  <2> QED
    BY <1>0, <2>1, <2>2, SeenSame
<1> QED
  BY <1>1, <1>2, <1>3, <1>4, <1>5, <1>6, <1>7, <1>8, <1>9, <1>10, <1>11, <1>12, <1>13
  DEF Next, Caller, User, Worker

-----------------------------------------------------------------------------
(* What the caller appends is sound *)

LEMMA QueueStep ==
    TypeInv /\ QueueInv /\ FenceInv /\ OnceInv /\ TapeInv /\ StatusInv /\ SilentInv
    /\ SeenInv /\ [Next]_vars => QueueInv'
<1> SUFFICES ASSUME TypeInv, QueueInv, FenceInv, OnceInv, TapeInv, StatusInv, SilentInv,
                    SeenInv, [Next]_vars
             PROVE  QueueInv'
  OBVIOUS
<1>0. /\ QueueOK /\ arr \in Arrays \cup {Sync} /\ StreamFor(arr) \in Streams
      /\ cur \in 0..MaxEvals /\ 0 \in Nat /\ (pc \in EvalPlaces => cur \in Evals)
      /\ {"kernel", "release", "fenceWait", "fenceUpdate", "eventWait", "eventSignal",
          "promise"} \subseteq Kinds
  BY CallerTypes
<1>1. ASSUME NEW kind \in {"kernel", "release"}, Dispatch(StreamFor(arr), kind, arr),
             AllInputsSeen \/ pc = "retain",
             UNCHANGED <<computed, fenceCount, fenceValue, signaled>>
      PROVE  QueueInv'
  <2> DEFINE s == StreamFor(arr)
             t == DispatchedTask(s, kind, arr)
  <2>1. t \in Task /\ log' = [log EXCEPT ![s] = Append(@, t)] /\ UNCHANGED pos
    BY <1>0, <1>1, DispatchGrows
  <2>2. t.kind \in {"kernel", "release"} /\ t.arr = arr
    BY <1>1 DEF DispatchedTask
  <2>3. ASSUME arr # Sync, NEW p \in Parents(arr)
        PROVE  Behind(log, computed, s, Length(s), p)
    <3>1. PICK i \in DOMAIN InputsOf(arr) : p = InputsOf(arr)[i]
      BY <2>3 DEF Parents, InputsOf
    <3>2. Seen(i)
      BY <1>1, AllSeen
    <3> QED
      BY <3>1, <3>2 DEF Seen
  <2> HIDE DEF s, t
  <2>4. Sound(s, t)
    BY <1>1, <2>2, <2>3 DEF Sound, UsesInputs
  <2>5. s \in Streams
    BY <1>0 DEF s
  <2> QED
    BY <1>1, <2>1, <2>4, <2>5, QueueAppend
<1>2. ASSUME UNCHANGED <<log, pos, computed, fenceCount, fenceValue, signaled>>
      PROVE  QueueInv'
  BY <1>2, QueueQuiet
<1>3. CASE EvalKernel
  <2>1. UNCHANGED <<computed, fenceCount, fenceValue, signaled>> /\ AllInputsSeen
    BY <1>3 DEF EvalKernel, Goto, syncVars
  <2> QED
    BY <1>1, <1>2, <1>3, <2>1 DEF EvalKernel, queueVars
<1>4. CASE Retain
  <2>1. UNCHANGED <<computed, fenceCount, fenceValue, signaled>> /\ pc = "retain"
    BY <1>4 DEF Retain, Goto, syncVars
  <2> QED
    BY <1>1, <1>4, <2>1 DEF Retain
<1>5. ASSUME NEW s \in Streams, NEW kind \in Kinds, NEW a \in Arrays \cup {Sync},
             NEW e \in 0..MaxEvals, NEW st \in Streams, NEW n \in Nat,
             Push(s, kind, a, e, st, n), Sound(s, PushedTask(kind, a, e, st, n)),
             UNCHANGED <<computed, fenceValue, signaled>>
      PROVE  QueueInv'
  <2> DEFINE t == PushedTask(kind, a, e, st, n)
  <2>0. QueueOK /\ Push(s, kind, a, e, st, n)
    BY <1>0, <1>5
  <2>1. t \in Task /\ log' = [log EXCEPT ![s] = Append(@, t)]
    BY <2>0, PushGrows
  <2>2. Sound(s, t) /\ UNCHANGED pos
    BY <1>5 DEF Push
  <2> HIDE DEF t
  <2> QED
    BY <1>5, <2>1, <2>2, QueueAppend
<1>6. CASE WaitInput
  <2> DEFINE in == InputsOf(arr)[idx]
  <2>1. /\ in \in Arrays /\ StreamOf[in] \in Streams /\ fenceCount[cur][StreamOf[in]] \in Nat
        /\ event[in] \in 0..MaxEvals /\ cur \in Evals
        /\ UNCHANGED <<computed, fenceCount, fenceValue, signaled>>
    BY <1>6, WaitTypes DEF WaitInput, syncVars
  <2>2. ~BeingEvaluated(in)
    BY <1>6, InputEvaluated
  <2> HIDE DEF in
  <2>3. CASE Push(StreamFor(arr), "fenceWait", in, cur, StreamOf[in], fenceCount[cur][StreamOf[in]])
    <3>1. Sound(StreamFor(arr), PushedTask("fenceWait", in, cur, StreamOf[in],
                                           fenceCount[cur][StreamOf[in]]))
      BY <2>1 DEF Sound, PushedTask, UsesInputs
    <3> QED
      BY <1>0, <1>5, <2>1, <2>3, <3>1
  <2>4. CASE HasEvent(in) /\ Push(StreamFor(arr), "eventWait", in, event[in], StreamOf[in], 0)
    <3>1. event[in] \in Evals /\ event[in] # 0
      BY <2>1, <2>4, BoundAssumption DEF HasEvent, Evals
    <3>2. Queued(log, in) /\ Covers(log, event[in], in)
      BY <2>1, <2>2, <3>1 DEF StatusInv
    <3>3. SignalsCover(log, StreamOf[in], event[in], in)
      BY <3>2 DEF SignalsCover, Queued, Covers
    <3>4. Sound(StreamFor(arr), PushedTask("eventWait", in, event[in], StreamOf[in], 0))
      BY <2>1, <3>1, <3>3 DEF Sound, PushedTask, UsesInputs
    <3> QED
      BY <1>0, <1>5, <2>1, <2>4, <3>4
  <2>5. CASE UNCHANGED queueVars
    BY <1>2, <2>1, <2>5 DEF queueVars
  <2> QED
    BY <1>6, <2>3, <2>4, <2>5 DEF WaitInput, in
<1>7. ASSUME NEW b \in Arrays, UpdateFence(b) PROVE QueueInv'
  <2> DEFINE s == StreamFor(arr)
             n == fenceCount[cur][s] + 1
  <2>1. /\ Push(s, "fenceUpdate", b, cur, s, n) /\ UNCHANGED <<computed, fenceValue, signaled>>
        /\ fenceCount' = [fenceCount EXCEPT ![cur][s] = @ + 1]
        /\ pc = "fence" /\ b \in unfenced /\ cur \in Evals
    BY <1>0, <1>7 DEF UpdateFence, EvalPlaces
  <2>2. n \in Nat
    BY <1>0, <2>1, SMTT(30) DEF TypeInv, TypeOK
  <2>3. StreamOf[b] = s
    <3>1. b \in OutputsOf(arr)
      BY <2>1 DEF FenceInv
    <3>2. arr # Sync /\ b \in Outputs[arr] /\ arr \in Arrays
      BY <1>0, <3>1 DEF OutputsOf
    <3> QED
      BY <3>2, GraphAssumption DEF StreamFor
  <2>4. ReleasedTo(log, s, Length(s), b)
    BY <2>1, <2>3 DEF StatusInv, Queued, Length
  <2>5. s \in Streams
    BY <1>0
  <2> HIDE DEF s
  <2>6. Sound(s, PushedTask("fenceUpdate", b, cur, s, n))
    BY <2>1, <2>4 DEF Sound, PushedTask, UsesInputs
  <2> QED
    BY <1>0, <1>5, <2>1, <2>2, <2>5, <2>6
<1>8. ASSUME NEW s \in Streams, SignalEvent(s) PROVE QueueInv'
  <2>1. /\ UNCHANGED <<computed, fenceCount, fenceValue, signaled>> /\ cur \in Evals
        /\ Push(s, "eventSignal", Sync, cur, s, 0) \/ UNCHANGED queueVars
    BY <1>0, <1>8 DEF SignalEvent, EvalPlaces, syncVars
  <2>2. Sound(s, PushedTask("eventSignal", Sync, cur, s, 0))
    BY <2>1 DEF Sound, PushedTask, UsesInputs
  <2> QED
    BY <1>0, <1>2, <1>5, <2>1, <2>2 DEF queueVars
<1>9. ASSUME NEW s \in Streams, Synchronize(s) PROVE QueueInv'
  <2>1. /\ UNCHANGED <<computed, fenceCount, fenceValue, signaled>>
        /\ Push(s, "promise", Sync, cur, s, 0)
    BY <1>9 DEF Synchronize, syncVars
  <2>2. Sound(s, PushedTask("promise", Sync, cur, s, 0))
    BY <2>1 DEF Sound, PushedTask, UsesInputs
  <2> QED
    BY <1>0, <1>5, <2>1, <2>2
<1>10. CASE Throw \/ WaitForOne \/ NextArray \/ EndEval \/ ReturnWait \/ ReturnSynchronize
  BY <1>2, <1>10
  DEF Throw, WaitForOne, NextArray, EndEval, ReturnWait, ReturnSynchronize, Goto, queueVars,
      syncVars
<1>11. ASSUME NEW overLimit \in BOOLEAN, Throttle(overLimit) \/ MarkEvaluated(overLimit)
       PROVE  QueueInv'
  BY <1>2, <1>11 DEF Throttle, MarkEvaluated, queueVars, syncVars
<1>12. ASSUME NEW a \in Arrays \cup {Sync}, TakeArray(a) PROVE QueueInv'
  BY <1>2, <1>12 DEF TakeArray, queueVars, syncVars
<1>13. ASSUME NEW O \in Requests, NEW isAsync \in BOOLEAN, NEW i \in DOMAIN O,
              BeginEval(O, i, isAsync)
       PROVE  QueueInv'
  BY <1>2, <1>13 DEF BeginEval, queueVars, syncVars
<1>14. ASSUME NEW a \in Arrays, IsAvailable(a) \/ CallWait(a) PROVE QueueInv'
  BY <1>2, <1>14 DEF IsAvailable, CallWait, queueVars, syncVars
<1>15. ASSUME NEW s \in Streams, Run(s) PROVE QueueInv'
  BY <1>15, QueueRun DEF FenceInv
<1>16. CASE UNCHANGED vars \/ Quiescent
  BY <1>2, <1>16 DEF Quiescent, vars, queueVars, syncVars
<1> QED
  BY <1>3, <1>4, <1>6, <1>7, <1>8, <1>9, <1>10, <1>11, <1>12, <1>13, <1>14, <1>15, <1>16
  DEF Next, Caller, User, Worker

-----------------------------------------------------------------------------
(* The theorems *)

(* The inductive invariant. *)
SafeInv == /\ TypeInv /\ FenceInv /\ OnceInv
           /\ QueueInv /\ TapeInv /\ SignalInv /\ StatusInv /\ SilentInv /\ SeenInv

LEMMA InitSafe == Init => SafeInv
<1> SUFFICES ASSUME Init PROVE SafeInv
  OBVIOUS
<1>1. TypeInv
  BY InitType
<1>2. FenceInv /\ OnceInv
  BY DEF Init, FenceInv, Covered, EvalPlaces, Length, OnceInv, EvaluatedOnce, Released, Releasing
<1>3. \A s \in Streams : Length(s) = 0 /\ pos[s] = 0
  BY DEF Init, Length
<1>4. QueueInv
  <2>1. Named /\ Done /\ Guarded /\ UpdatesAfter /\ WaitsSound
    BY <1>3 DEF Named, Done, Guarded, UpdatesAfter, WaitsSound
  <2>2. UpdatesCounted
    BY <1>3 DEF Init, UpdatesCounted
  <2>3. SignalsRun
    BY <1>3 DEF Init, SignalsRun
  <2>4. ComputedClosed
    BY GraphAssumption DEF Init, ComputedClosed, Parents
  <2> QED
    BY <2>1, <2>2, <2>3, <2>4 DEF QueueInv
<1>5. Unscheduled = Arrays \ Leaves /\ pc = "idle" /\ \A p \in Arrays : event[p] = 0
  BY DEF Init, Unscheduled
<1>6. TapeInv
  BY <1>5, GraphAssumption DEF TapeInv, EvalPlaces
<1>7. SignalInv
  BY <1>3 DEF SignalInv
<1>8. StatusInv
  BY <1>5 DEF Init, StatusInv, BeingEvaluated, InHand, Releasing
<1>9. SilentInv /\ SeenInv
  BY <1>5 DEF Init, SilentInv, SeenInv, Silent, EvalPlaces
<1> QED
  BY <1>1, <1>2, <1>4, <1>6, <1>7, <1>8, <1>9 DEF SafeInv

LEMMA SafeStep ==
    ASSUME Failing = {}
    PROVE  SafeInv /\ [Next]_vars => SafeInv'
<1> SUFFICES ASSUME SafeInv, [Next]_vars PROVE SafeInv'
  OBVIOUS
<1>1. ~Throw
  BY DEF Throw
<1> QED
  BY <1>1, TypeStep, FenceStep, OnceStep, QueueStep, TapeStep, SignalStep, StatusStep,
     SilentStep, SeenStep DEF SafeInv

LEMMA Safe ==
    ASSUME Failing = {}
    PROVE  Spec => []SafeInv
<1>1. SafeInv /\ [Next]_vars => SafeInv'
  BY SafeStep
<1> QED
  BY <1>1, InitSafe, PTL DEF Spec

(* When a worker is about to run a kernel, or to let go of its inputs,      *)
(* every input has been computed: whatever streams, fences, events and      *)
(* evals the graph is spread over, if eval_cpu does not throw.              *)
THEOREM InputsCorrect ==
    ASSUME Failing = {}
    PROVE  Spec => []InputsComputed
<1>1. SafeInv => InputsComputed
  BY HeadGuarded DEF SafeInv, InputsComputed, UsesInputs
<1> QED
  BY <1>1, Safe, PTL

(* is_available and wait report no array that a worker has yet to compute.  *)
THEOREM ReadCorrect ==
    ASSUME Failing = {}
    PROVE  Spec => []SafeToRead
<1>1. SafeInv => SafeToRead
  <2> SUFFICES ASSUME SafeInv, NEW a \in Arrays,
                      \/ status[a] = "available"
                      \/ status[a] = "evaluated" /\ pc = "idle" /\ Ready(a)
               PROVE  a \in computed
    BY DEF SafeToRead, SafeInv, TypeInv, TypeOK
  <2> QED
    BY ReadyDone DEF SafeInv, StatusInv, EvalPlaces
<1> QED
  BY <1>1, Safe, PTL
-----------------------------------------------------------------------------
(* The refinement *)

Visible == {a \in Arrays : status[a] = "available"}

(* A worker that runs a task computes the outputs of a primitive or         *)
(* nothing.                                                                 *)
LEMMA RunComputes ==
    ASSUME TypeInv, QueueInv, NEW s \in Streams, Run(s)
    PROVE  computed' = computed \/ \E a \in Arrays : Abstract!Compute(a)
<1> DEFINE t == HeadTask(s)
<1>1. /\ computed' = IF t.kind = "release" THEN computed \cup OutputsOf(t.arr) ELSE computed
      /\ UNCHANGED status /\ Pending(s)
  BY DEF Run, arrayVars
<1>2. t \in Task
  <2>1. log[s] \in Seq(Task) /\ pos[s] \in Nat
    BY DEF TypeInv, TypeOK
  <2> QED
    BY <1>1, <2>1 DEF Pending, HeadTask, Length
<1>3. CASE t.kind = "release" /\ t.arr # Sync /\ t.arr \notin computed
  <2>1. t.arr \in Arrays
    BY <1>2, <1>3 DEF Task
  <2>2. Parents(t.arr) \subseteq computed
    BY <1>1, <1>3, HeadGuarded DEF UsesInputs
  <2>3. computed' = computed \cup Outputs[t.arr]
    BY <1>1, <1>3 DEF OutputsOf
  <2> HIDE DEF t
  <2>4. Abstract!Compute(t.arr)
    BY <1>1, <1>3, <2>1, <2>2, <2>3 DEF Abstract!Compute
  <2> QED
    BY <2>1, <2>4
<1>4. CASE t.kind = "release" /\ t.arr # Sync /\ t.arr \in computed
  <2>1. Outputs[t.arr] \subseteq computed
    BY <1>4 DEF QueueInv, ComputedClosed
  <2> QED
    BY <1>1, <1>4, <2>1 DEF OutputsOf
<1>5. CASE t.kind # "release" \/ t.arr = Sync
  BY <1>1, <1>5 DEF OutputsOf
<1> QED
  BY <1>3, <1>4, <1>5

LEMMA AvailableExposes ==
    ASSUME TypeInv, NEW a \in Arrays, SetAvailable(a), a \in computed, a \notin Visible,
           UNCHANGED computed
    PROVE  Abstract!Expose(a)
<1>1. \A p \in Arrays : status'[p] = IF p = a THEN "available" ELSE status[p]
  BY DEF SetAvailable, TypeInv, TypeOK
<1>2. Visible' = Visible \cup {a}
  BY <1>1 DEF Visible
<1> QED
  BY <1>2 DEF Visible, Abstract!Expose

LEMMA DataflowStep ==
    SafeInv /\ [Next]_vars => [Abstract!Next]_<<computed, Visible>>
<1> SUFFICES ASSUME SafeInv, [Next]_vars
             PROVE  \/ \E a \in Arrays : Abstract!Compute(a) \/ Abstract!Expose(a)
                    \/ UNCHANGED <<computed, Visible>>
  BY DEF Abstract!Next
<1> USE DEF SafeInv
<1>1. ASSUME NEW s \in Streams, Run(s)
      PROVE  (\E a \in Arrays : Abstract!Compute(a)) \/ UNCHANGED <<computed, Visible>>
  <2>1. UNCHANGED status
    BY <1>1 DEF Run, arrayVars
  <2> QED
    BY <1>1, <2>1, RunComputes DEF Visible
<1>2. CASE computed' = computed /\ status' = status
  BY <1>2 DEF Visible
<1>3. ASSUME NEW a \in Arrays, IsAvailable(a) PROVE Abstract!Expose(a)
  <2>1. /\ SetAvailable(a) /\ status[a] = "evaluated" /\ Ready(a) /\ pc = "idle"
        /\ UNCHANGED computed
    BY <1>3 DEF IsAvailable, syncVars
  <2> QED
    BY <2>1, ReadyDone, AvailableExposes DEF EvalPlaces, Visible
<1>4. CASE ReturnWait
  <2>1. /\ SetAvailable(arr) /\ status[arr] = "evaluated" /\ IsSignaled(arr) /\ arr \in Arrays
        /\ UNCHANGED computed
    BY <1>4 DEF ReturnWait, TapeInv, syncVars
  <2> QED
    BY <2>1, SignaledDone, AvailableExposes DEF Visible
<1>5. ASSUME NEW overLimit \in BOOLEAN, MarkEvaluated(overLimit)
      PROVE  UNCHANGED <<computed, Visible>>
  <2>1. /\ status' = StatusAfter(arr) /\ UNCHANGED computed
        /\ pc \in Releasing /\ OutputsOf(arr) \subseteq Arrays
    BY <1>5, CallerTypes DEF MarkEvaluated, Releasing, syncVars
  <2>2. OutputsOf(arr) \subseteq Unscheduled
    BY <2>1 DEF OnceInv, TapeInv, OutputsOf, Releasing, EvalPlaces
  <2>3. \A p \in Arrays : status'[p] = IF p \in OutputsOf(arr) THEN "evaluated" ELSE status[p]
    BY <2>1 DEF StatusAfter
  <2> QED
    BY <2>1, <2>2, <2>3 DEF Visible, Unscheduled
<1>6. ASSUME NEW a \in Arrays \cup {Sync}, TakeArray(a) PROVE computed' = computed /\ status' = status
  BY <1>6 DEF TakeArray, syncVars
<1>7. CASE Throw \/ WaitForOne \/ NextArray \/ EndEval \/ ReturnSynchronize \/ EvalKernel
           \/ Retain
  BY <1>2, <1>7 DEF Throw, WaitForOne, NextArray, EndEval, ReturnSynchronize, EvalKernel,
     Retain, Goto, arrayVars, syncVars
<1>8. CASE WaitInput
  BY <1>2, <1>8 DEF WaitInput, syncVars
<1>9. ASSUME NEW overLimit \in BOOLEAN, Throttle(overLimit)
      PROVE  computed' = computed /\ status' = status
  BY <1>9 DEF Throttle, arrayVars, syncVars
<1>10. ASSUME NEW b \in Arrays, UpdateFence(b) PROVE computed' = computed /\ status' = status
  BY <1>10 DEF UpdateFence, arrayVars
<1>11. ASSUME NEW s \in Streams, SignalEvent(s) \/ Synchronize(s)
       PROVE  computed' = computed /\ status' = status
  BY <1>11 DEF SignalEvent, Synchronize, arrayVars, syncVars
<1>12. ASSUME NEW O \in Requests, NEW isAsync \in BOOLEAN, NEW i \in DOMAIN O,
              BeginEval(O, i, isAsync)
       PROVE  computed' = computed /\ status' = status
  BY <1>12 DEF BeginEval, arrayVars, syncVars
<1>13. ASSUME NEW a \in Arrays, CallWait(a) PROVE computed' = computed /\ status' = status
  BY <1>13 DEF CallWait, arrayVars, syncVars
<1>14. CASE UNCHANGED vars \/ Quiescent
  BY <1>2, <1>14 DEF Quiescent, vars, arrayVars, syncVars
<1> QED
  BY <1>1, <1>2, <1>3, <1>4, <1>5, <1>6, <1>7, <1>8, <1>9, <1>10, <1>11, <1>12, <1>13, <1>14
  DEF Next, Caller, User, Worker

(* What the streams, fences and events do to the arrays is what Dataflow    *)
(* allows, and the user sees it no sooner.                                  *)
THEOREM EvalImplementsDataflow ==
    ASSUME Failing = {}
    PROVE  Spec => ImplementsDataflow
<1>1. Init => Abstract!Init
  BY GraphAssumption DEF Init, Abstract!Init
<1>2. SafeInv /\ [Next]_vars => SafeInv'
  BY SafeStep
<1>3. SafeInv /\ [Next]_vars => [Abstract!Next]_(Abstract!dataVars)
  BY DataflowStep DEF Abstract!dataVars, Visible
<1> QED
  BY InitSafe, <1>1, <1>2, <1>3, PTL DEF Spec, ImplementsDataflow, Abstract!Spec
-----------------------------------------------------------------------------
(* No deadlock.  c[s] is how much of the queue of s has been run. *)

(* What t waits for has been run. *)
Settled(lg, c, t) ==
    /\ t.kind = "fenceWait" /\ t.count > 0 =>
         \E j \in 1..c[t.stream] :
             IsUpdate(lg[t.stream][j], t.eval) /\ lg[t.stream][j].count >= t.count
    /\ t.kind = "eventWait" => \E j \in 1..c[t.stream] : IsSignal(lg[t.stream][j], t.eval)

(* However far the workers have got, one of those that are not done can go  *)
(* on: what waits has been queued after what it waits for.  This speaks of  *)
(* every way of running the queues, of which the workers take one.          *)
NoCircle ==
    \A c \in [Streams -> Nat] :
        (\A s \in Streams : c[s] <= Length(s)) /\ (\E s \in Streams : c[s] < Length(s)) =>
            \E s \in Streams : c[s] < Length(s) /\ Settled(log, c, log[s][c[s] + 1])

(* What has been run has been announced. *)
Ran ==
    \A s \in Streams, e \in Evals : \A j \in 1..pos[s] :
        /\ IsUpdate(log[s][j], e) => log[s][j].count <= fenceValue[e][s]
        /\ IsSignal(log[s][j], e) => signaled[e][s]

(* The update with the count of a fence is queued on its stream. *)
Posted ==
    \A s \in Streams, e \in Evals : fenceCount[e][s] > 0 =>
        \E j \in 1..Length(s) : IsUpdate(log[s][j], e) /\ log[s][j].count = fenceCount[e][s]

Sent(lg, e, s) == \E j \in 1..Len(lg[s]) : IsSignal(lg[s][j], e)

(* An array whose event is that of this eval reaches the rest of the eval   *)
(* on other streams through a fence.                                        *)
Crossed(p) ==
    /\ \A a \in todo : p \in Parents(a) /\ StreamOf[p] # StreamOf[a] => p \in needsFence
    /\ p \in SeqRange(outs) /\ StreamOf[p] # syncStream => p \in needsFence

(* The signal of the event of an array is queued, or the eval it is part of *)
(* will queue it before it ends.                                            *)
Announced ==
    \A p \in Arrays : event[p] # 0 =>
        /\ event[p] <= cur
        /\ \/ Sent(log, event[p], StreamOf[p])
           \/ pc \in EvalPlaces /\ async /\ event[p] = cur /\ StreamOf[p] \in openStreams
        /\ pc \in EvalPlaces /\ event[p] = cur => Crossed(p)

(* What the caller waits for is queued, or about to be. *)
Awaiting ==
    /\ pc \in EvalPlaces \ {"tape", "signal"} => StreamFor(arr) \in openStreams
    /\ pc = "signal" => syncStream \in openStreams \/ Sent(log, cur, syncStream)
    /\ pc = "wait" => event[arr] # 0
    /\ pc = "drain" => idx <= Length(syncStream)

(* A task settled stays settled when the queues grow and run on.            *)
LEMMA SettledStays ==
    ASSUME Extended, NEW c \in [Streams -> Nat], NEW d \in [Streams -> Nat],
           \A q \in Streams : d[q] <= c[q] /\ d[q] <= Length(q),
           NEW t \in Task, Settled(log, d, t)
    PROVE  Settled(log', c, t)
<1> DEFINE q == t.stream
<1>1. q \in Streams
  BY DEF Task
<1> HIDE DEF q
<1>2. d[q] \in Nat /\ c[q] \in Nat /\ Length(q) \in Nat /\ d[q] <= c[q] /\ d[q] <= Length(q)
  BY <1>1 DEF Extended
<1>3. 1..d[q] \subseteq 1..c[q] /\ 1..d[q] \subseteq 1..Length(q)
  BY <1>2
<1>4. \A j \in 1..d[q] : log'[q][j] = log[q][j]
  BY <1>1, <1>3 DEF Extended
<1> QED
  BY <1>3, <1>4 DEF Settled, q

(* Appending what is settled once the rest has run closes no circle.        *)
LEMMA CircleAppend ==
    ASSUME QueueOK, NoCircle, NEW s \in Streams, NEW t \in Task,
           log' = [log EXCEPT ![s] = Append(@, t)],
           Settled(log, [r \in Streams |-> Length(r)], t)
    PROVE  NoCircle'
<1>0. Extended /\ \A r \in Streams : Length(r) \in Nat /\ Length(r)' \in Nat
  BY AppendExtends DEF Extended
<1>1. /\ Length(s)' = Length(s) + 1 /\ log'[s][Length(s) + 1] = t
      /\ \A r \in Streams \ {s} : Length(r)' = Length(r)
  BY LogGrows DEF Length
<1> SUFFICES ASSUME NEW c \in [Streams -> Nat], \A r \in Streams : c[r] <= Length(r)',
                    NEW q \in Streams, c[q] < Length(q)'
             PROVE  \E r \in Streams : c[r] < Length(r)' /\ Settled(log', c, log'[r][c[r] + 1])
  BY DEF NoCircle
<1> DEFINE d == [r \in Streams |-> IF c[r] <= Length(r) THEN c[r] ELSE Length(r)]
<1>2. /\ d \in [Streams -> Nat]
      /\ \A r \in Streams : d[r] <= c[r] /\ d[r] <= Length(r)
                            /\ (d[r] < Length(r) => d[r] = c[r])
  BY <1>0
<1>3. CASE \E r \in Streams : d[r] < Length(r)
  <2> HIDE DEF d
  <2>1. PICK r \in Streams : d[r] < Length(r) /\ Settled(log, d, log[r][d[r] + 1])
    BY <1>2, <1>3 DEF NoCircle
  <2>2. d[r] = c[r] /\ c[r] \in Nat /\ c[r] + 1 \in 1..Length(r) /\ c[r] < Length(r)'
    BY <1>0, <1>2, <2>1 DEF Extended
  <2>3. log'[r][c[r] + 1] = log[r][d[r] + 1] /\ log[r][d[r] + 1] \in Task
    <3>1. log'[r][c[r] + 1] = log[r][c[r] + 1]
      BY <1>0, <2>2 DEF Extended
    <3>2. log[r] \in Seq(Task)
      BY DEF QueueOK
    <3> QED
      BY <2>2, <3>1, <3>2 DEF Length
  <2> QED
    BY <1>0, <1>2, <2>1, <2>2, <2>3, SettledStays
<1>4. CASE \A r \in Streams : ~(d[r] < Length(r))
  <2>1. \A r \in Streams : d[r] = Length(r)
    BY <1>0, <1>2, <1>4
  <2>2. d = [r \in Streams |-> Length(r)]
    BY <2>1
  <2>3. q = s /\ c[s] = Length(s)
    <3>1. c[q] >= Length(q) /\ c[q] \in Nat
      BY <1>2, <2>1
    <3> QED
      BY <1>0, <1>1, <3>1
  <2> HIDE DEF d
  <2>4. Settled(log', c, t)
    BY <1>0, <1>2, <2>2, SettledStays
  <2> QED
    BY <1>1, <2>3, <2>4
<1> QED
  BY <1>3, <1>4

(* Only WaitInput queues a task that waits. *)
QueuesNoWait ==
    \/ log' = log
    \/ \E s \in Streams, t \in Task :
         /\ log' = [log EXCEPT ![s] = Append(@, t)]
         /\ t.kind \notin {"fenceWait", "eventWait"}

LEMMA WaitFree ==
    ASSUME TypeInv, [Next]_vars, ~WaitInput
    PROVE  QueuesNoWait
<1>1. QueueOK /\ arr \in Arrays \cup {Sync} /\ StreamFor(arr) \in Streams
      /\ cur \in 0..MaxEvals /\ 0 \in Nat
  BY CallerTypes
<1>2. ASSUME NEW s \in Streams, NEW kind \in Kinds, NEW a \in Arrays \cup {Sync},
             NEW e \in 0..MaxEvals, NEW st \in Streams, NEW n \in Nat,
             Push(s, kind, a, e, st, n), kind \notin {"fenceWait", "eventWait"}
      PROVE  QueuesNoWait
  <2> DEFINE t == PushedTask(kind, a, e, st, n)
  <2>1. t \in Task /\ log' = [log EXCEPT ![s] = Append(@, t)]
    BY <1>1, <1>2, PushGrows, SMTT(30)
  <2>2. t.kind \notin {"fenceWait", "eventWait"}
    BY <1>2 DEF PushedTask
  <2> HIDE DEF t
  <2> QED
    BY <2>1, <2>2 DEF QueuesNoWait
<1>3. ASSUME NEW kind \in {"kernel", "release"}, Dispatch(StreamFor(arr), kind, arr)
      PROVE  QueuesNoWait
  <2> DEFINE t == DispatchedTask(StreamFor(arr), kind, arr)
  <2>1. t \in Task /\ log' = [log EXCEPT ![StreamFor(arr)] = Append(@, t)]
    BY <1>1, <1>3, DispatchGrows DEF Kinds
  <2>2. t.kind \notin {"fenceWait", "eventWait"}
    BY DEF DispatchedTask
  <2> HIDE DEF t
  <2> QED
    BY <1>1, <2>1, <2>2 DEF QueuesNoWait
<1>4. CASE log' = log
  BY <1>4 DEF QueuesNoWait
<1>5. CASE EvalKernel \/ Retain
  BY <1>3, <1>4, <1>5 DEF EvalKernel, Retain, queueVars
<1>6. ASSUME NEW b \in Arrays, UpdateFence(b) PROVE QueuesNoWait
  <2>1. cur \in Evals /\ "fenceUpdate" \in Kinds
    BY <1>6, CallerTypes DEF UpdateFence, EvalPlaces, Kinds
  <2>2. fenceCount[cur][StreamFor(arr)] + 1 \in Nat
    BY <1>1, <2>1 DEF TypeInv, TypeOK
  <2> QED
    BY <1>1, <1>2, <1>6, <2>1, <2>2 DEF UpdateFence
<1>7. ASSUME NEW s \in Streams, SignalEvent(s) \/ Synchronize(s) PROVE QueuesNoWait
  <2>1. "eventSignal" \in Kinds /\ "promise" \in Kinds
    BY DEF Kinds
  <2> QED
    BY <1>1, <1>2, <1>4, <1>7, <2>1 DEF SignalEvent, Synchronize, queueVars
<1>8. CASE Throw \/ WaitForOne \/ NextArray \/ EndEval \/ ReturnWait \/ ReturnSynchronize
  BY <1>4, <1>8
  DEF Throw, WaitForOne, NextArray, EndEval, ReturnWait, ReturnSynchronize, queueVars
<1>9. ASSUME NEW overLimit \in BOOLEAN, Throttle(overLimit) \/ MarkEvaluated(overLimit)
      PROVE  QueuesNoWait
  BY <1>4, <1>9 DEF Throttle, MarkEvaluated, queueVars
<1>10. ASSUME NEW a \in Arrays \cup {Sync}, TakeArray(a) PROVE QueuesNoWait
  BY <1>4, <1>10 DEF TakeArray, queueVars
<1>11. ASSUME NEW O \in Requests, NEW isAsync \in BOOLEAN, NEW i \in DOMAIN O,
              BeginEval(O, i, isAsync)
       PROVE  QueuesNoWait
  BY <1>4, <1>11 DEF BeginEval, queueVars
<1>12. ASSUME NEW a \in Arrays, IsAvailable(a) \/ CallWait(a) PROVE QueuesNoWait
  BY <1>4, <1>12 DEF IsAvailable, CallWait, queueVars
<1>13. CASE (\E s \in Streams : Run(s)) \/ UNCHANGED vars \/ Quiescent
  BY <1>4, <1>13 DEF Run, Quiescent, vars, queueVars
<1> QED
  BY <1>5, <1>6, <1>7, <1>8, <1>9, <1>10, <1>11, <1>12, <1>13 DEF Next, Caller, User, Worker

LEMMA CircleStep ==
    ASSUME SafeInv, NoCircle, Posted, Announced, [Next]_vars
    PROVE  NoCircle'
<1> USE DEF SafeInv
<1>0. QueueOK /\ StreamFor(arr) \in Streams
  BY CallerTypes
<1>1. CASE log' = log
  BY <1>1 DEF NoCircle, Length
<1>2. CASE ~WaitInput
  <2>1. ASSUME NEW s \in Streams, NEW t \in Task, t.kind \notin {"fenceWait", "eventWait"},
               log' = [log EXCEPT ![s] = Append(@, t)]
        PROVE  NoCircle'
    <3>1. Settled(log, [r \in Streams |-> Length(r)], t)
      BY <2>1 DEF Settled
    <3> QED
      BY <1>0, <2>1, <3>1, CircleAppend
  <2> QED
    BY <1>1, <1>2, <2>1, WaitFree DEF QueuesNoWait
<1>3. CASE WaitInput
  <2> DEFINE in == InputsOf(arr)[idx]
             q == StreamOf[in]
  <2>1. /\ in \in Arrays /\ q \in Streams /\ fenceCount[cur][q] \in Nat
        /\ event[in] \in 0..MaxEvals /\ cur \in Evals /\ pc = "inputs"
        /\ in \in SeqRange(InputsOf(arr))
    BY <1>3, WaitTypes
  <2>2. arr \in todo \/ arr = Sync
    BY <1>3, InputEvaluated
  <2>3. \/ log' = log
        \/ Push(StreamFor(arr), "fenceWait", in, cur, q, fenceCount[cur][q])
        \/ /\ in \notin needsFence /\ HasEvent(in) /\ q # StreamFor(arr)
           /\ Push(StreamFor(arr), "eventWait", in, event[in], q, 0)
    BY <1>3 DEF WaitInput, queueVars
  <2> HIDE DEF in, q
  <2>4. cur \in 0..MaxEvals /\ 0 \in Nat /\ "fenceWait" \in Kinds /\ "eventWait" \in Kinds
    BY CallerTypes
  <2>5. CASE Push(StreamFor(arr), "fenceWait", in, cur, q, fenceCount[cur][q])
    <3> DEFINE t == PushedTask("fenceWait", in, cur, q, fenceCount[cur][q])
    <3>1. t \in Task /\ log' = [log EXCEPT ![StreamFor(arr)] = Append(@, t)]
      BY <1>0, <2>1, <2>4, <2>5, PushGrows
    <3>2. t.kind = "fenceWait" /\ t.eval = cur /\ t.stream = q /\ t.count = fenceCount[cur][q]
      BY DEF PushedTask
    <3> HIDE DEF t
    <3>3. fenceCount[cur][q] > 0 =>
            \E j \in 1..Length(q) : IsUpdate(log[q][j], cur) /\ log[q][j].count = fenceCount[cur][q]
      BY <2>1 DEF Posted
    <3>4. fenceCount[cur][q] >= fenceCount[cur][q]
      BY <2>1
    <3>5. Settled(log, [r \in Streams |-> Length(r)], t)
      BY <2>1, <3>2, <3>3, <3>4 DEF Settled
    <3> QED
      BY <1>0, <3>1, <3>5, CircleAppend
  <2>6. CASE /\ in \notin needsFence /\ HasEvent(in) /\ q # StreamFor(arr)
             /\ Push(StreamFor(arr), "eventWait", in, event[in], q, 0)
    <3> DEFINE t == PushedTask("eventWait", in, event[in], q, 0)
    <3>1. t \in Task /\ log' = [log EXCEPT ![StreamFor(arr)] = Append(@, t)]
      BY <1>0, <2>1, <2>4, <2>6, PushGrows
    <3>2. t.kind = "eventWait" /\ t.eval = event[in] /\ t.stream = q
      BY DEF PushedTask
    <3> HIDE DEF t
    <3>3. event[in] # cur
      <4> SUFFICES ASSUME event[in] = cur PROVE FALSE
        OBVIOUS
      <4>1. Crossed(in)
        BY <2>1, <2>6 DEF Announced, EvalPlaces, HasEvent
      <4>2. CASE arr = Sync
        BY <2>1, <2>6, <4>1, <4>2 DEF Crossed, InputsOf, StreamFor, q
      <4>3. CASE arr # Sync
        <5>1. in \in Parents(arr)
          BY <2>1, <4>3 DEF InputsOf, Parents, SeqRange
        <5> QED
          BY <2>2, <2>6, <4>1, <4>3, <5>1 DEF Crossed, StreamFor, q
      <4> QED
        BY <4>2, <4>3
    <3>4. Sent(log, event[in], q)
      BY <2>1, <2>6, <3>3 DEF Announced, HasEvent, q
    <3>5. Settled(log, [r \in Streams |-> Length(r)], t)
      BY <2>1, <3>2, <3>4 DEF Settled, Sent, Length
    <3> QED
      BY <1>0, <3>1, <3>5, CircleAppend
  <2> QED
    BY <1>1, <2>3, <2>5, <2>6
<1> QED
  BY <1>2, <1>3

(* Only workers announce anything, and only UpdateFence counts.             *)
LEMMA SharedStep ==
    ASSUME [Next]_vars
    PROVE  /\ UNCHANGED <<pos, fenceValue, signaled>> \/ \E s \in Streams : Run(s)
           /\ fenceCount' = fenceCount \/ \E b \in Arrays : UpdateFence(b)
<1> DEFINE Quiet == UNCHANGED <<pos, fenceValue, signaled>>
<1>1. ASSUME NEW a \in Arrays \cup {Sync}, TakeArray(a) PROVE Quiet /\ fenceCount' = fenceCount
  BY <1>1 DEF TakeArray, queueVars, syncVars
<1>2. CASE Throw \/ WaitForOne \/ NextArray \/ EndEval \/ ReturnSynchronize \/ EvalKernel
           \/ Retain
  BY <1>2 DEF Throw, WaitForOne, NextArray, EndEval, ReturnSynchronize, EvalKernel, Retain,
     Goto, Dispatch, queueVars, syncVars
<1>3. CASE WaitInput \/ ReturnWait
  BY <1>3 DEF WaitInput, ReturnWait, Push, queueVars, syncVars
<1>4. ASSUME NEW overLimit \in BOOLEAN, Throttle(overLimit) \/ MarkEvaluated(overLimit)
      PROVE  Quiet /\ fenceCount' = fenceCount
  BY <1>4 DEF Throttle, MarkEvaluated, queueVars, syncVars
<1>5. ASSUME NEW b \in Arrays, UpdateFence(b) PROVE Quiet
  BY <1>5 DEF UpdateFence, Push
<1>6. ASSUME NEW s \in Streams, SignalEvent(s) \/ Synchronize(s)
      PROVE  Quiet /\ fenceCount' = fenceCount
  BY <1>6 DEF SignalEvent, Synchronize, Push, queueVars, syncVars
<1>7. ASSUME NEW O \in Requests, NEW isAsync \in BOOLEAN, NEW i \in DOMAIN O,
             BeginEval(O, i, isAsync)
      PROVE  Quiet /\ fenceCount' = fenceCount
  BY <1>7 DEF BeginEval, queueVars, syncVars
<1>8. ASSUME NEW a \in Arrays, IsAvailable(a) \/ CallWait(a)
      PROVE  Quiet /\ fenceCount' = fenceCount
  BY <1>8 DEF IsAvailable, CallWait, queueVars, syncVars
<1>9. CASE UNCHANGED vars \/ Quiescent
  BY <1>9 DEF Quiescent, vars, queueVars, syncVars
<1>10. ASSUME NEW s \in Streams, Run(s) PROVE fenceCount' = fenceCount
  BY <1>10 DEF Run
<1> QED
  BY <1>1, <1>2, <1>3, <1>4, <1>5, <1>6, <1>7, <1>8, <1>9, <1>10
  DEF Next, Caller, User, Worker

LEMMA RanKept ==
    ASSUME SafeInv, Ran, [Next]_vars
    PROVE  Ran'
<1> USE DEF SafeInv, QueueInv
<1>0. /\ log \in [Streams -> Seq(Task)] /\ pos \in [Streams -> Nat]
      /\ fenceValue \in [Evals -> [Streams -> Nat]]
      /\ signaled \in [Evals -> [Streams -> BOOLEAN]]
      /\ \A r \in Streams : pos[r] <= Length(r) /\ Length(r) \in Nat
  BY DEF TypeInv, TypeOK, Length
<1>1. ASSUME NEW s \in Streams, Run(s) PROVE Ran'
  <2> DEFINE t == HeadTask(s)
  <2>1. /\ log' = log /\ fenceValue' = FencesAfter(t) /\ signaled' = EventsAfter(t)
        /\ pos' = [pos EXCEPT ![s] = @ + 1]
        /\ pos[s] + 1 \in 1..Length(s) /\ t = log[s][pos[s] + 1] /\ t \in Task
    <3>1. Pending(s) /\ log[s] \in Seq(Task) /\ pos[s] \in Nat
      BY <1>0, <1>1 DEF Run
    <3> QED
      BY <1>1, <3>1 DEF Run, Pending, HeadTask, Length
  <2>2. /\ t.kind = "fenceUpdate" => t.stream = s
        /\ t.kind = "eventSignal" => t.stream = s
    BY <2>1 DEF UpdatesAfter, SignalsRun
  <2>3. \A j \in 1..Length(s) : log[s][j].count \in Int
    <3>1. \A u \in Task : u.count \in Int
      BY DEF Task
    <3> QED
      BY <1>0, <3>1 DEF Length
  <2> SUFFICES ASSUME NEW r \in Streams, NEW e \in Evals, NEW j \in 1..pos'[r]
               PROVE  /\ IsUpdate(log[r][j], e) => log[r][j].count <= fenceValue'[e][r]
                      /\ IsSignal(log[r][j], e) => signaled'[e][r]
    BY <2>1 DEF Ran
  <2>4. pos[r] \in Nat /\ pos[s] \in Nat
    BY <1>0
  <2>5. j \in 1..pos[r] \/ (r = s /\ j = pos[s] + 1)
    BY <1>0, <2>1, <2>4
  <2>6. fenceValue'[e][r] = IF t.kind = "fenceUpdate" /\ t.eval = e /\ r = s
                            THEN t.count ELSE fenceValue[e][r]
    <3> HIDE DEF t
    <3> QED
      BY <1>0, <2>1, <2>2 DEF FencesAfter
  <2>7. /\ signaled[e][r] => signaled'[e][r]
        /\ t.kind = "eventSignal" /\ t.eval = e /\ r = s => signaled'[e][r]
    <3> HIDE DEF t
    <3> QED
      BY <1>0, <2>1, <2>2 DEF EventsAfter
  <2>8. CASE j \in 1..pos[r]
    <3>1. /\ IsUpdate(log[r][j], e) => log[r][j].count <= fenceValue[e][r]
          /\ IsSignal(log[r][j], e) => signaled[e][r]
      BY <2>8 DEF Ran
    <3>2. ASSUME IsUpdate(log[r][j], e), t.kind = "fenceUpdate" /\ t.eval = e /\ r = s
          PROVE  log[r][j].count <= t.count
      <4>1. IsUpdate(t, e) /\ j \in 1..((pos[s] + 1) - 1) /\ j \in 1..Length(s)
        BY <1>0, <2>1, <2>4, <2>8, <3>2 DEF IsUpdate
      <4>2. log[s][j].count < log[s][pos[s] + 1].count
        BY <2>1, <3>2, <4>1 DEF UpdatesCounted
      <4>3. log[s][j].count \in Int /\ log[s][pos[s] + 1].count \in Int
        BY <2>1, <2>3, <4>1
      <4> QED
        BY <2>1, <3>2, <4>2, <4>3
    <3> QED
      BY <2>6, <2>7, <3>1, <3>2
  <2>9. CASE r = s /\ j = pos[s] + 1
    <3>1. log[r][j] = t /\ t.count <= t.count
      BY <2>1, <2>3, <2>9
    <3> HIDE DEF t
    <3> QED
      BY <2>6, <2>7, <2>9, <3>1 DEF IsUpdate, IsSignal
  <2> QED
    BY <2>5, <2>8, <2>9
<1>2. CASE UNCHANGED <<pos, fenceValue, signaled>>
  <2>1. Extended
    BY Grown
  <2>2. \A r \in Streams : \A j \in 1..pos[r] : log'[r][j] = log[r][j]
    <3> SUFFICES ASSUME NEW r \in Streams, NEW j \in 1..pos[r] PROVE log'[r][j] = log[r][j]
      OBVIOUS
    <3>1. j \in 1..Length(r)
      <4>1. pos[r] \in Nat /\ pos[r] <= Length(r) /\ Length(r) \in Nat
        BY <1>0
      <4> QED
        BY <4>1
    <3> QED
      BY <2>1, <3>1 DEF Extended
  <2> QED
    BY <1>2, <2>2 DEF Ran
<1> QED
  BY <1>1, <1>2, SharedStep

LEMMA PostedStep ==
    ASSUME SafeInv, Posted, [Next]_vars
    PROVE  Posted'
<1> USE DEF SafeInv
<1>1. Extended /\ \A r \in Streams : Length(r) \in Nat /\ Length(r)' \in Nat
  BY Grown DEF Extended
<1>2. ASSUME NEW s \in Streams, NEW e \in Evals, fenceCount[e][s] > 0
      PROVE  \E j \in 1..Length(s)' : IsUpdate(log'[s][j], e) /\ log'[s][j].count = fenceCount[e][s]
  <2>1. PICK j \in 1..Length(s) : IsUpdate(log[s][j], e) /\ log[s][j].count = fenceCount[e][s]
    BY <1>2 DEF Posted
  <2>2. j \in 1..Length(s)' /\ log'[s][j] = log[s][j]
    BY <1>1 DEF Extended
  <2> QED
    BY <2>1, <2>2
<1>3. CASE fenceCount' = fenceCount
  BY <1>2, <1>3 DEF Posted
<1>4. ASSUME NEW b \in Arrays, UpdateFence(b) PROVE Posted'
  <2> DEFINE q == StreamFor(arr)
             n == fenceCount[cur][q] + 1
             t == PushedTask("fenceUpdate", b, cur, q, n)
  <2>1. /\ fenceCount' = [fenceCount EXCEPT ![cur][q] = @ + 1]
        /\ Push(q, "fenceUpdate", b, cur, q, n) /\ pc = "fence"
    BY <1>4 DEF UpdateFence
  <2>2. q \in Streams /\ cur \in Evals /\ QueueOK /\ cur \in 0..MaxEvals /\ "fenceUpdate" \in Kinds
    BY <2>1, CallerTypes DEF EvalPlaces, Kinds
  <2> HIDE DEF q
  <2>3. fenceCount \in [Evals -> [Streams -> Nat]] /\ n \in Nat
    <3>1. fenceCount \in [Evals -> [Streams -> Nat]]
      BY DEF TypeInv, TypeOK
    <3> QED
      BY <2>2, <3>1
  <2>4. t \in Task /\ log' = [log EXCEPT ![q] = Append(@, t)]
    <3> HIDE DEF n
    <3> QED
      BY <2>1, <2>2, <2>3, PushGrows
  <2>5. IsUpdate(t, cur) /\ t.count = n
    BY DEF PushedTask, IsUpdate
  <2> HIDE DEF t
  <2>6. Len(log'[q]) \in 1..Len(log'[q]) /\ log'[q][Len(log'[q])] = t
    BY <2>2, <2>4, AppendLast
  <2> SUFFICES ASSUME NEW s \in Streams, NEW e \in Evals, fenceCount'[e][s] > 0
               PROVE  \E j \in 1..Length(s)' : IsUpdate(log'[s][j], e)
                                               /\ log'[s][j].count = fenceCount'[e][s]
    BY DEF Posted
  <2>7. CASE s = q /\ e = cur
    <3>1. fenceCount'[e][s] = n
      BY <2>1, <2>2, <2>3, <2>7
    <3> QED
      BY <2>5, <2>6, <2>7, <3>1 DEF Length
  <2>8. CASE ~(s = q /\ e = cur)
    <3>1. fenceCount'[e][s] = fenceCount[e][s]
      BY <2>1, <2>2, <2>3, <2>8
    <3> QED
      BY <1>2, <3>1
  <2> QED
    BY <2>7, <2>8
<1> QED
  BY <1>3, <1>4, SharedStep

LEMMA SentStays ==
    ASSUME Extended, NEW s \in Streams, NEW e, Sent(log, e, s)
    PROVE  Sent(log', e, s)
<1>1. PICK j \in 1..Length(s) : IsSignal(log[s][j], e)
  BY DEF Sent, Length
<1>2. j \in 1..Length(s)' /\ log'[s][j] = log[s][j]
  BY DEF Extended
<1> QED
  BY <1>1, <1>2 DEF Sent, Length

(* Steps of the workers. *)
LEMMA AnnouncedRun ==
    ASSUME TypeInv, Announced, Awaiting, Extended, UNCHANGED <<callVars, event>>
    PROVE  Announced' /\ Awaiting'
<1>1. UNCHANGED <<pc, cur, async, outs, needsFence, syncStream, openStreams, arr, idx, todo>>
  BY DEF callVars, evalVars, stepVars
<1>2. /\ \A p \in Arrays : StreamOf[p] \in Streams
      /\ syncStream \in Streams /\ idx \in Nat
      /\ \A s \in Streams : Length(s) <= Length(s)' /\ Length(s) \in Nat /\ Length(s)' \in Nat
  BY GraphAssumption DEF TypeInv, TypeOK, Extended
<1>3. \A s \in Streams : \A e : Sent(log, e, s) => Sent(log', e, s)
  BY SentStays
<1>4. ASSUME NEW p \in Arrays PROVE Crossed(p) => Crossed(p)'
  BY <1>1 DEF Crossed, SeqRange
<1>5. Announced'
  BY <1>1, <1>2, <1>3, <1>4 DEF Announced
<1>6. StreamFor(arr)' = StreamFor(arr)
  BY <1>1 DEF StreamFor
<1>7. pc' = "drain" => idx' <= Length(syncStream)'
  <2> SUFFICES ASSUME pc = "drain" PROVE idx <= Length(syncStream)'
    BY <1>1 DEF Length
  <2>1. idx <= Length(syncStream)
    BY DEF Awaiting
  <2> QED
    BY <1>1, <1>2, <2>1 DEF Length
<1>8. pc' = "signal" => syncStream' \in openStreams' \/ Sent(log', cur', syncStream')
  BY <1>1, <1>2, <1>3 DEF Awaiting
<1> QED
  BY <1>1, <1>5, <1>6, <1>7, <1>8 DEF Awaiting

(* Steps of the caller that evaluate an array it has taken off the tape.    *)
LEMMA AnnouncedInside ==
    ASSUME Announced, Awaiting, Extended,
           pc \in EvalPlaces \ {"tape", "signal"}, pc' \in EvalPlaces,
           pc' = "signal" => arr = Sync,
           UNCHANGED <<cur, async, outs, needsFence, syncStream, openStreams, arr>>,
           todo' \subseteq todo, \A p \in Arrays : event'[p] \in {event[p], 0}
    PROVE  Announced' /\ Awaiting'
<1>1. \A p \in Arrays : StreamOf[p] \in Streams
  BY GraphAssumption
<1>2. \A s \in Streams : \A e : Sent(log, e, s) => Sent(log', e, s)
  BY SentStays
<1>3. ASSUME NEW p \in Arrays PROVE Crossed(p) => Crossed(p)'
  BY DEF Crossed, SeqRange
<1>4. Announced'
  BY <1>1, <1>2, <1>3 DEF Announced
<1>5. StreamFor(arr)' = StreamFor(arr)
  BY DEF StreamFor
<1>6. arr = Sync => StreamFor(arr) = syncStream
  BY DEF StreamFor
<1>7. pc' \notin {"wait", "drain"}
  BY DEF EvalPlaces
<1> QED
  BY <1>4, <1>5, <1>6, <1>7 DEF Awaiting

(* Steps of the user and of the calls that wait. *)
LEMMA AnnouncedOutside ==
    ASSUME Announced, Extended, pc \notin EvalPlaces, pc' \notin EvalPlaces, cur' = cur,
           \A p \in Arrays : event'[p] \in {event[p], 0},
           pc' = "wait" => event'[arr'] # 0,
           pc' = "drain" => idx' <= Length(syncStream)'
    PROVE  Announced' /\ Awaiting'
<1>1. \A p \in Arrays : StreamOf[p] \in Streams
  BY GraphAssumption
<1>2. \A s \in Streams : \A e : Sent(log, e, s) => Sent(log', e, s)
  BY SentStays
<1>3. Announced'
  BY <1>1, <1>2 DEF Announced
<1> QED
  BY <1>3 DEF Awaiting, EvalPlaces

LEMMA AnnouncedStep ==
    ASSUME SafeInv, Announced, Awaiting, [Next]_vars, ~Throw
    PROVE  Announced' /\ Awaiting'
<1> USE DEF SafeInv
<1>0. /\ Extended /\ event \in [Arrays -> 0..MaxEvals] /\ cur \in Nat
      /\ \A p \in Arrays : StreamOf[p] \in Streams
  BY Grown, GraphAssumption DEF TypeInv, TypeOK
<1>1. ASSUME NEW a \in Arrays \cup {Sync}, TakeArray(a) PROVE Announced' /\ Awaiting'
  <2>1. /\ pc = "tape" /\ pc' = "inputs" /\ arr' = a /\ a \in todo \cup {Sync}
        /\ openStreams' = openStreams \cup {StreamFor(a)}
        /\ event' = IF async
                    THEN [b \in Arrays |-> IF b \in OutputsOf(a) THEN cur ELSE event[b]]
                    ELSE event
        /\ UNCHANGED <<syncStream, todo, cur, async, outs, needsFence, log>>
    BY <1>1 DEF TakeArray, evalVars, queueVars
  <2>2. ASSUME NEW p \in OutputsOf(a)
        PROVE  StreamOf[p] \in openStreams' /\ Crossed(p)'
    <3>1. a \in todo /\ a # Sync /\ p \in Outputs[a] /\ a \in Arrays
      BY <1>1, <2>1, <2>2 DEF OutputsOf
    <3>2. StreamOf[p] = StreamFor(a)
      BY <3>1, GraphAssumption DEF StreamFor
    <3>3. p \in Unscheduled /\ p \in Arrays
      BY <2>1, <3>1 DEF TapeInv, OnceInv, EvalPlaces, Unscheduled
    <3>4. Crossed(p)
      BY <2>1, <3>3 DEF SilentInv, EvalPlaces, Crossed
    <3> QED
      BY <2>1, <3>2, <3>4 DEF Crossed, SeqRange
  <2>3. ASSUME NEW p \in Arrays, event'[p] # 0
        PROVE  /\ event'[p] <= cur
               /\ Sent(log, event'[p], StreamOf[p])
                  \/ (async /\ event'[p] = cur /\ StreamOf[p] \in openStreams')
               /\ event'[p] = cur => Crossed(p)'
    <3>1. CASE async /\ p \in OutputsOf(a)
      <4>1. event'[p] = cur /\ cur <= cur
        BY <1>0, <2>1, <3>1
      <4> QED
        BY <2>2, <3>1, <4>1
    <3>2. CASE ~(async /\ p \in OutputsOf(a))
      <4>1. event'[p] = event[p]
        BY <2>1, <3>2
      <4>2. Crossed(p) => Crossed(p)'
        BY <2>1 DEF Crossed, SeqRange
      <4> QED
        BY <2>1, <2>3, <4>1, <4>2 DEF Announced, EvalPlaces
    <3> QED
      BY <3>1, <3>2
  <2>4. Announced'
    BY <2>1, <2>3 DEF Announced, EvalPlaces
  <2>5. StreamFor(arr)' = StreamFor(a)
    BY <2>1 DEF StreamFor
  <2> QED
    BY <2>1, <2>4, <2>5 DEF Awaiting
<1>2. CASE WaitInput
  <2>1. /\ pc = "inputs" /\ pc' = pc
        /\ UNCHANGED <<cur, async, outs, needsFence, syncStream, openStreams, arr, todo>>
    BY <1>2 DEF WaitInput, evalVars
  <2>2. \A p \in Arrays : event'[p] \in {event[p], 0}
    BY <1>0, <1>2 DEF WaitInput
  <2> QED
    BY <1>0, <2>1, <2>2, AnnouncedInside DEF EvalPlaces
<1>3. CASE EvalKernel \/ Retain \/ WaitForOne
  <2>1. /\ pc \in {"inputs", "retain", "throttled"} /\ pc' \in {"retain", "check", "recheck"}
        /\ UNCHANGED <<cur, async, outs, needsFence, syncStream, openStreams, arr, todo, event>>
    BY <1>3 DEF EvalKernel, Retain, WaitForOne, AllInputsSeen, Goto, evalVars, stepVars, arrayVars
  <2> QED
    BY <1>0, <2>1, AnnouncedInside DEF EvalPlaces
<1>4. CASE NextArray
  <2>1. /\ pc = "fence" /\ pc' = IF arr = Sync THEN "signal" ELSE "tape"
        /\ UNCHANGED <<cur, async, outs, needsFence, syncStream, openStreams, arr, todo, event>>
    BY <1>4 DEF NextArray, Goto, evalVars, stepVars, arrayVars
  <2> QED
    BY <1>0, <2>1, AnnouncedInside DEF EvalPlaces
<1>5. ASSUME NEW overLimit \in BOOLEAN, Throttle(overLimit) \/ MarkEvaluated(overLimit)
      PROVE  Announced' /\ Awaiting'
  <2>1. /\ pc \in {"check", "recheck"} /\ pc' \in {"throttled", "fence"} /\ todo' \subseteq todo
        /\ UNCHANGED <<cur, async, outs, needsFence, syncStream, openStreams, arr, event>>
    BY <1>5 DEF Throttle, MarkEvaluated, evalVars, arrayVars
  <2> QED
    BY <1>0, <2>1, AnnouncedInside DEF EvalPlaces
<1>6. ASSUME NEW b \in Arrays, UpdateFence(b) PROVE Announced' /\ Awaiting'
  <2>1. /\ pc = "fence" /\ pc' = pc
        /\ UNCHANGED <<cur, async, outs, needsFence, syncStream, openStreams, arr, todo, event>>
    BY <1>6 DEF UpdateFence, evalVars, arrayVars
  <2> QED
    BY <1>0, <2>1, AnnouncedInside DEF EvalPlaces
<1>7. ASSUME NEW s \in Streams, SignalEvent(s) PROVE Announced' /\ Awaiting'
  <2>1. /\ pc = "signal" /\ pc' = pc /\ openStreams' = openStreams \ {s}
        /\ UNCHANGED <<cur, async, outs, needsFence, syncStream, todo, event>>
    BY <1>7 DEF SignalEvent, evalVars, stepVars, arrayVars
  <2>2. async \/ s = syncStream => Sent(log', cur, s)
    <3> SUFFICES ASSUME async \/ s = syncStream PROVE Sent(log', cur, s)
      OBVIOUS
    <3> DEFINE t == PushedTask("eventSignal", Sync, cur, s, 0)
    <3>1. QueueOK /\ cur \in 0..MaxEvals /\ 0 \in Nat /\ "eventSignal" \in Kinds
      BY CallerTypes
    <3>2. t \in Task /\ log' = [log EXCEPT ![s] = Append(@, t)]
      BY <1>7, <3>1, PushGrows DEF SignalEvent
    <3>3. IsSignal(t, cur)
      BY DEF PushedTask, IsSignal
    <3> HIDE DEF t
    <3>4. Len(log'[s]) \in 1..Len(log'[s]) /\ log'[s][Len(log'[s])] = t
      BY <3>1, <3>2, AppendLast
    <3> QED
      BY <3>3, <3>4 DEF Sent
  <2>3. \A r \in Streams : \A e : Sent(log, e, r) => Sent(log', e, r)
    BY <1>0, SentStays
  <2>4. ASSUME NEW p \in Arrays PROVE Crossed(p) => Crossed(p)'
    BY <2>1 DEF Crossed, SeqRange
  <2>5. Announced'
    BY <1>0, <2>1, <2>2, <2>3, <2>4 DEF Announced
  <2>6. syncStream \in Streams
    BY DEF TypeInv, TypeOK
  <2> QED
    BY <2>1, <2>2, <2>3, <2>5, <2>6 DEF Awaiting
<1>8. CASE EndEval
  <2>1. /\ pc = "signal" /\ pc' = "idle" /\ openStreams = {} /\ UNCHANGED <<cur, event>>
    BY <1>8 DEF EndEval, Goto, evalVars, arrayVars
  <2>2. \A r \in Streams : \A e : Sent(log, e, r) => Sent(log', e, r)
    BY <1>0, SentStays
  <2>3. Announced'
    BY <1>0, <2>1, <2>2 DEF Announced, EvalPlaces
  <2> QED
    BY <2>1, <2>3 DEF Awaiting, EvalPlaces
<1>9. ASSUME NEW O \in Requests, NEW isAsync \in BOOLEAN, NEW i \in DOMAIN O,
             BeginEval(O, i, isAsync)
      PROVE  Announced' /\ Awaiting'
  <2>1. pc = "idle" /\ pc' = "tape" /\ cur' = cur + 1 /\ UNCHANGED <<event, log>>
    BY <1>9 DEF BeginEval, arrayVars, queueVars
  <2>2. ASSUME NEW p \in Arrays, event[p] # 0
        PROVE  event[p] <= cur' /\ Sent(log, event[p], StreamOf[p]) /\ event[p] # cur'
    <3>1. event[p] <= cur /\ Sent(log, event[p], StreamOf[p])
      BY <2>1, <2>2 DEF Announced, EvalPlaces
    <3>2. event[p] \in 0..MaxEvals
      BY <1>0
    <3> QED
      BY <1>0, <2>1, <3>1, <3>2
  <2>3. Announced'
    BY <2>1, <2>2 DEF Announced
  <2> QED
    BY <2>1, <2>3 DEF Awaiting
<1>10. ASSUME NEW a \in Arrays, IsAvailable(a) PROVE Announced' /\ Awaiting'
  <2>1. pc = "idle" /\ pc' = "idle" /\ cur' = cur /\ SetAvailable(a)
    BY <1>10 DEF IsAvailable, callVars, evalVars
  <2>2. \A p \in Arrays : event'[p] \in {event[p], 0}
    BY <1>0, <2>1 DEF SetAvailable
  <2> QED
    BY <1>0, <2>1, <2>2, AnnouncedOutside DEF EvalPlaces
<1>11. ASSUME NEW a \in Arrays, CallWait(a) PROVE Announced' /\ Awaiting'
  <2>1. /\ pc = "idle" /\ pc' = "wait" /\ cur' = cur /\ event' = event /\ arr' = a
        /\ event[a] # 0
    BY <1>11 DEF CallWait, Ready, HasEvent, evalVars, arrayVars
  <2> QED
    BY <1>0, <2>1, AnnouncedOutside DEF EvalPlaces
<1>12. CASE ReturnWait
  <2>1. pc = "wait" /\ pc' = "idle" /\ cur' = cur /\ SetAvailable(arr)
    BY <1>12 DEF ReturnWait, evalVars
  <2>2. \A p \in Arrays : event'[p] \in {event[p], 0}
    BY <1>0, <2>1 DEF SetAvailable
  <2> QED
    BY <1>0, <2>1, <2>2, AnnouncedOutside DEF EvalPlaces
<1>13. ASSUME NEW s \in Streams, Synchronize(s) PROVE Announced' /\ Awaiting'
  <2> DEFINE t == PushedTask("promise", Sync, cur, s, 0)
  <2>1. /\ pc = "idle" /\ pc' = "drain" /\ UNCHANGED <<cur, event>>
        /\ syncStream' = s /\ idx' = Length(s) + 1
    BY <1>13 DEF Synchronize, evalVars, arrayVars
  <2>2. QueueOK /\ cur \in 0..MaxEvals /\ 0 \in Nat /\ "promise" \in Kinds
    BY CallerTypes
  <2>3. t \in Task /\ log' = [log EXCEPT ![s] = Append(@, t)]
    BY <1>13, <2>2, PushGrows DEF Synchronize
  <2> HIDE DEF t
  <2>4. Len(log'[s]) = Length(s) + 1 /\ Length(s) \in Nat
    BY <2>2, <2>3, AppendLast
  <2>5. idx' <= Length(syncStream)'
    BY <2>1, <2>4 DEF Length
  <2> QED
    BY <1>0, <2>1, <2>5, AnnouncedOutside DEF EvalPlaces
<1>14. CASE ReturnSynchronize
  <2>1. pc = "drain" /\ pc' = "idle" /\ UNCHANGED <<cur, event>>
    BY <1>14 DEF ReturnSynchronize, Goto, evalVars, arrayVars
  <2> QED
    BY <1>0, <2>1, AnnouncedOutside DEF EvalPlaces
<1>15. CASE (\E s \in Streams : Run(s)) \/ UNCHANGED vars \/ Quiescent
  <2>1. UNCHANGED <<callVars, event>>
    BY <1>15 DEF Run, Quiescent, vars, arrayVars
  <2> QED
    BY <1>0, <2>1, AnnouncedRun
<1> QED
  BY <1>1, <1>2, <1>3, <1>4, <1>5, <1>6, <1>7, <1>8, <1>9, <1>10, <1>11, <1>12, <1>13, <1>14,
     <1>15 DEF Next, Caller, User, Worker

(* The inductive invariant. *)
ProgressInv == SafeInv /\ ActiveInv /\ NoCircle /\ Ran /\ Posted /\ Announced /\ Awaiting

LEMMA NoneActive ==
    ASSUME \A s \in Streams : Length(s) \in Nat /\ pos[s] = Length(s)
    PROVE  ActiveSet = {}
<1>1. ASSUME NEW s \in Streams PROVE ActivePending(s) = {}
  <2>1. (pos[s] + 1)..Length(s) = {}
    OBVIOUS
  <2> QED
    BY <2>1 DEF ActivePending
<1> QED
  BY <1>1 DEF ActiveSet

LEMMA InitProgress == Init => ProgressInv
<1> SUFFICES ASSUME Init PROVE ProgressInv
  OBVIOUS
<1>1. SafeInv
  BY InitSafe
<1>2. \A s \in Streams : Length(s) = 0 /\ pos[s] = 0
  BY DEF Init, Length
<1>3. ActiveInv
  <2>1. ActiveSet = {}
    BY <1>2, NoneActive
  <2> QED
    BY <2>1, FS_EmptySet DEF ActiveInv, Init
<1>4. NoCircle
  BY <1>2 DEF NoCircle
<1>5. Ran /\ Posted
  BY <1>2 DEF Init, Ran, Posted
<1>6. Announced /\ Awaiting
  BY DEF Init, Announced, Awaiting, EvalPlaces
<1> QED
  BY <1>1, <1>3, <1>4, <1>5, <1>6 DEF ProgressInv

LEMMA ProgressStep ==
    ASSUME Failing = {}
    PROVE  ProgressInv /\ [Next]_vars => ProgressInv'
<1> SUFFICES ASSUME ProgressInv, [Next]_vars PROVE ProgressInv'
  OBVIOUS
<1> USE DEF ProgressInv
<1>1. SafeInv'
  BY SafeStep
<1>2. ActiveInv'
  BY <1>1, ActiveStep DEF SafeInv
<1>3. NoCircle' /\ Ran' /\ Posted'
  BY CircleStep, RanKept, PostedStep
<1>4. ~Throw
  BY DEF Throw
<1>5. Announced' /\ Awaiting'
  BY <1>4, AnnouncedStep
<1> QED
  BY <1>1, <1>2, <1>3, <1>5

(* A task that is settled by what has been run may run. *)
LEMMA SettledRuns ==
    ASSUME SafeInv, Ran, NEW t \in Task, Settled(log, pos, t),
           t.kind \in {"fenceWait", "eventWait"} => t.eval \in Evals
    PROVE  MayRun(t)
<1>1. t.stream \in Streams /\ t.count \in Nat
  BY DEF Task
<1>2. /\ fenceValue \in [Evals -> [Streams -> Nat]] /\ log[t.stream] \in Seq(Task)
      /\ pos[t.stream] \in Nat /\ pos[t.stream] <= Length(t.stream)
  BY <1>1 DEF SafeInv, TypeInv, TypeOK
<1>3. CASE t.kind = "fenceWait" /\ t.count > 0
  <2>1. PICK j \in 1..pos[t.stream] :
               IsUpdate(log[t.stream][j], t.eval) /\ log[t.stream][j].count >= t.count
    BY <1>3 DEF Settled
  <2>2. log[t.stream][j].count <= fenceValue[t.eval][t.stream]
    BY <1>1, <1>3, <2>1 DEF Ran
  <2>3. log[t.stream][j] \in Task
    BY <1>2 DEF Length
  <2>4. log[t.stream][j].count \in Int
    BY <2>3 DEF Task
  <2>5. fenceValue[t.eval][t.stream] \in Int
    BY <1>1, <1>2, <1>3
  <2> QED
    BY <1>1, <1>3, <2>1, <2>2, <2>4, <2>5 DEF MayRun, FenceReached
<1>4. CASE t.kind = "fenceWait" /\ ~(t.count > 0)
  <2>1. t.count = 0 /\ fenceValue[t.eval][t.stream] \in Nat
    BY <1>1, <1>2, <1>4
  <2> QED
    BY <1>4, <2>1 DEF MayRun, FenceReached
<1>5. CASE t.kind = "eventWait"
  <2>1. PICK j \in 1..pos[t.stream] : IsSignal(log[t.stream][j], t.eval)
    BY <1>5 DEF Settled
  <2> QED
    BY <1>1, <1>5, <2>1 DEF Ran, MayRun, EventReached
<1> QED
  BY <1>3, <1>4, <1>5 DEF MayRun

(* As long as a queue holds a task, some worker can run one.                *)
LEMMA SomeRuns ==
    ASSUME ProgressInv, \E s \in Streams : Pending(s)
    PROVE  \E s \in Streams : Pending(s) /\ MayRun(HeadTask(s))
<1> USE DEF ProgressInv
<1>1. /\ pos \in [Streams -> Nat] /\ \A s \in Streams : pos[s] <= Length(s)
      /\ log \in [Streams -> Seq(Task)]
  BY DEF SafeInv, TypeInv, TypeOK
<1>2. PICK s \in Streams : pos[s] < Length(s) /\ Settled(log, pos, log[s][pos[s] + 1])
  BY <1>1 DEF NoCircle, Pending
<1>3. Pending(s) /\ pos[s] + 1 \in 1..Length(s) /\ HeadTask(s) = log[s][pos[s] + 1]
  BY <1>1, <1>2 DEF Pending, HeadTask, Length
<1>4. HeadTask(s) \in Task
  BY <1>1, <1>3 DEF Length
<1>5. HeadTask(s).kind \in {"fenceWait", "eventWait"} => HeadTask(s).eval \in Evals
  BY <1>3 DEF SafeInv, QueueInv, Named
<1> QED
  BY <1>2, <1>3, <1>4, <1>5, SettledRuns

(* A caller that waits has left the workers something to do.                *)
LEMMA BlockedPending ==
    ASSUME ProgressInv, Blocked
    PROVE  \E s \in Streams : Pending(s)
<1> SUFFICES ASSUME \A s \in Streams : ~Pending(s) PROVE FALSE
  OBVIOUS
<1> USE DEF ProgressInv
<1>1. /\ \A s \in Streams : pos[s] \in Nat /\ pos[s] <= Length(s) /\ Length(s) \in Nat
      /\ syncStream \in Streams /\ idx \in Nat /\ nOld \in Int
  BY DEF SafeInv, TypeInv, TypeOK, Length
<1>2. \A s \in Streams : pos[s] = Length(s)
  BY <1>1 DEF Pending
<1>3. ASSUME NEW s \in Streams, NEW e \in Evals, Sent(log, e, s) PROVE signaled[e][s]
  BY <1>2, <1>3 DEF Sent, Ran, Length
<1>4. CASE pc = "throttled" /\ ~OneDone
  <2>2. ActiveSet = {}
    BY <1>1, <1>2, NoneActive
  <2>3. nActive = 0
    BY <2>2, FS_EmptySet DEF ActiveInv
  <2> QED
    BY <1>1, <1>4, <2>3 DEF OneDone
<1>5. CASE pc = "signal" /\ openStreams = {} /\ ~async /\ ~signaled[cur][syncStream]
  <2>1. Sent(log, cur, syncStream) /\ cur \in Evals
    BY <1>5, CallerTypes DEF Awaiting, SafeInv, EvalPlaces
  <2> QED
    BY <1>1, <1>3, <1>5, <2>1
<1>6. CASE pc = "wait" /\ ~IsSignaled(arr)
  <2>1. event[arr] # 0 /\ arr \in Arrays
    BY <1>6 DEF Awaiting, SafeInv, TapeInv
  <2>2. event[arr] \in Evals /\ StreamOf[arr] \in Streams
    BY <2>1, GraphAssumption, BoundAssumption DEF SafeInv, TypeInv, TypeOK, Evals
  <2>3. Sent(log, event[arr], StreamOf[arr])
    BY <1>6, <2>1 DEF Announced, EvalPlaces
  <2> QED
    BY <1>3, <1>6, <2>2, <2>3 DEF IsSignaled
<1>7. CASE pc = "drain" /\ pos[syncStream] < idx
  <2>1. idx <= Length(syncStream)
    BY <1>7 DEF Awaiting
  <2> QED
    BY <1>1, <1>2, <1>7, <2>1
<1> QED
  BY <1>4, <1>5, <1>6, <1>7 DEF Blocked

(* Neither the streams, which wait for each other by fences and events, nor *)
(* the caller, which waits for them to throttle, to return or to drain, are *)
(* ever in a deadlock: for every graph and any assignment of streams, if    *)
(* eval_cpu does not throw.                                                 *)
THEOREM NoDeadlock ==
    ASSUME Failing = {}
    PROVE  Spec => []NeverStuck
<1>1. ProgressInv => NeverStuck
  BY SomeRuns, BlockedPending DEF NeverStuck
<1>2. ProgressInv /\ [Next]_vars => ProgressInv'
  BY ProgressStep
<1> QED
  BY <1>1, <1>2, InitProgress, PTL DEF Spec

-----------------------------------------------------------------------------
(* Memory: the invariant *)

BuffersType ==
    /\ held \subseteq Arrays
    /\ buf \in [Arrays -> 0..Cardinality(Arrays)]
    /\ outsOf \in [Evals -> Seq(Arrays)]

(* eval_cpu has given a its buffer. *)
Placed(a) ==
    \/ a \notin Unscheduled
    \/ pc \in {"retain"} \cup Releasing /\ a \in OutputsOf(arr)

PlacedInv ==
    /\ \A a \in Leaves : a \notin Unscheduled
    /\ \A a \in Arrays : Placed(a) =>
         buf[a] # NoBuffer /\ \A x \in Parents(a) : x \notin Unscheduled

(* Everything on the tape is reached from the outputs asked for by arrays   *)
(* that have not been evaluated either.                                     *)
WantedInv ==
    /\ pc \notin EvalPlaces => todo = {}
    /\ pc \in EvalPlaces \ {"tape"} /\ arr = Sync => todo = {}
    /\ todo \subseteq Needed(SeqRange(outs))
    /\ pc \in InHand /\ arr # Sync =>
         arr \in SeqRange(outs) \/ \E c \in todo : arr \in Parents(c)

IsSyncRelease(t) == t.kind = "release" /\ t.arr = Sync

(* The release of the Synchronizer comes after what the outputs of its eval *)
(* are waiting for.                                                         *)
SyncInv ==
    /\ pc \in EvalPlaces => outsOf[cur] = outs
    /\ \A s \in Streams : \A k \in 1..Length(s) : IsSyncRelease(log[s][k]) =>
         /\ log[s][k].eval \in Evals /\ log[s][k].eval <= cur
         /\ \A p \in SeqRange(outsOf[log[s][k].eval]) : Behind(log, computed, s, k - 1, p)
    /\ pc \in Releasing /\ arr = Sync =>
         \E s \in Streams : \E k \in 1..Length(s) :
            IsSyncRelease(log[s][k]) /\ log[s][k].eval = cur

(* The task after a kernel is its release, and the one before the release   *)
(* of what is no view is its kernel.                                        *)
PairedInv ==
    /\ \A s \in Streams : \A k \in 1..Length(s) : log[s][k].kind = "kernel" =>
         /\ log[s][k].arr # Sync
         /\ \/ k + 1 \in 1..Length(s) /\ IsRelease(log[s][k + 1])
               /\ log[s][k + 1].arr = log[s][k].arr
            \/ k = Length(s) /\ pc = "retain" /\ arr = log[s][k].arr /\ s = StreamFor(arr)
    /\ \A s \in Streams : \A k \in 1..Length(s) :
         IsRelease(log[s][k]) /\ log[s][k].arr \notin Views =>
            /\ k - 1 \in 1..Length(s) /\ log[s][k - 1].kind = "kernel"
            /\ log[s][k - 1].arr = log[s][k].arr
    /\ pc = "retain" /\ arr # Sync /\ arr \notin Views =>
         \E k \in 1..Length(StreamFor(arr)) :
            /\ k = Length(StreamFor(arr)) /\ log[StreamFor(arr)][k].kind = "kernel"
            /\ log[StreamFor(arr)][k].arr = arr

(* What has been computed has been released. *)
RanInv ==
    /\ \A s \in Streams : \A k \in 1..Length(s) :
          IsRelease(log[s][k]) => log[s][k].arr \notin Leaves
    /\ \A a \in computed \ Leaves :
          \E s \in Streams : \E j \in 1..pos[s] :
             IsRelease(log[s][j]) /\ a \in Outputs[log[s][j].arr]

(* eval_cpu has run for p, the release has not. *)
Flying(p) ==
    \/ pc = "retain" /\ arr = p /\ p # Sync
    \/ \E s \in Streams : \E k \in (pos[s] + 1)..Length(s) :
          IsRelease(log[s][k]) /\ log[s][k].arr = p

SyncHolds(p) ==
    \E s \in Streams : \E k \in (pos[s] + 1)..Length(s) :
        IsSyncRelease(log[s][k]) /\ p \in SeqRange(outsOf[log[s][k].eval])

(* Someone other than the user refers to p. *)
Owned(p) ==
    \/ p \in SeqRange(SyncInputs)
    \/ \E c \in todo : p \in Parents(c)
    \/ \E c \in Arrays : Flying(c) /\ p \in Parents(c)
    \/ SyncHolds(p)

OwnedInv == \A p \in Arrays : Flying(p) => Owned(p)

OwnInv ==
    /\ SafeInv /\ BuffersType /\ PlacedInv /\ WantedInv /\ SyncInv /\ PairedInv /\ RanInv
    /\ OwnedInv

-----------------------------------------------------------------------------
(* The steps *)

Mid == {"retain"} \cup Releasing

(* No kernel and no release is enqueued. *)
NoWork ==
    \A r \in Streams : \A k \in 1..Len(log'[r]) : log'[r][k].kind \in {"kernel", "release"} =>
        k \in 1..Length(r) /\ log'[r][k] = log[r][k]

(* The steps that give nobody a buffer and take none away.                  *)
Calm ==
    /\ UNCHANGED <<buf, outsOf, contents, cur, outs, todo, pos, computed>>
    /\ Unscheduled' = Unscheduled /\ held' \subseteq held /\ NoWork /\ Extended
    /\ pc' = "retain" => UNCHANGED log
    /\ \/ arr' = arr /\ (pc' = pc \/ {pc, pc'} \subseteq Releasing)
       \/ /\ pc = "tape" /\ pc' = "inputs"
          /\ \/ arr' = Sync /\ todo = {}
             \/ /\ arr' \in todo /\ Parents(arr') \cap todo = {}
                /\ arr' \in SeqRange(outs) \/ \E c \in todo : arr' \in Parents(c)
       \/ pc = "fence" /\ arr' = arr /\ pc' = IF arr = Sync THEN "signal" ELSE "tape"
       \/ pc \in {"signal", "idle", "wait"} /\ pc' \in {"idle", "wait"}

Begins ==
    /\ pc = "idle" /\ pc' = "tape" /\ cur' = cur + 1 /\ cur' \in Evals /\ arr' = arr
    /\ outs' \in Seq(Arrays) /\ SeqRange(outs') \subseteq held
    /\ todo' = Needed(SeqRange(outs')) /\ Unscheduled' = Unscheduled
    /\ outsOf' = [outsOf EXCEPT ![cur'] = outs']
    /\ UNCHANGED <<held, buf, contents, log, pos, computed>>

(* Task t is appended to the queue of arr. *)
Appends(kind, t) ==
    /\ t \in Task /\ t.kind = kind /\ t.arr = arr /\ t.eval = cur
    /\ log' = [log EXCEPT ![StreamFor(arr)] = Append(@, t)]

Kernels ==
    /\ pc = "inputs" /\ pc' = "retain" /\ Unscheduled' = Unscheduled
    /\ UNCHANGED <<arr, cur, outs, todo, pos, computed, held, outsOf, contents>>
    /\ IF arr = Sync \/ arr \in Views THEN UNCHANGED log
                                      ELSE \E t : Appends("kernel", t)
    /\ IF arr = Sync THEN UNCHANGED buf
       ELSE \E f \in Placements(arr) :
               buf' = [a \in Arrays |-> IF a \in Outputs[arr] THEN f[a] ELSE buf[a]]

Retains ==
    /\ pc = "retain" /\ pc' = "check" /\ Unscheduled' = Unscheduled
    /\ UNCHANGED <<arr, cur, outs, todo, pos, computed, held, buf, outsOf, contents>>
    /\ \E t : Appends("release", t)

Marks ==
    /\ pc \in Releasing /\ pc' = "fence" /\ Unscheduled' = Unscheduled \ OutputsOf(arr)
    /\ todo' = todo \ OutputsOf(arr)
    /\ UNCHANGED <<arr, cur, outs, log, pos, computed, held, buf, outsOf, contents>>

Runs(s) ==
    /\ MemRun(s) /\ Unscheduled' = Unscheduled
    /\ UNCHANGED <<pc, arr, cur, outs, todo, log, held, buf, outsOf>>

LEMMA NoWorkAppend ==
    ASSUME QueueOK, NEW s \in Streams, NEW t \in Task, t.kind \notin {"kernel", "release"},
           log' = [log EXCEPT ![s] = Append(@, t)]
    PROVE  NoWork /\ Extended
<1> SUFFICES ASSUME NEW r \in Streams, NEW k \in 1..Len(log'[r]),
                    log'[r][k].kind \in {"kernel", "release"}
             PROVE  k \in 1..Length(r) /\ log'[r][k] = log[r][k]
  BY AppendExtends DEF NoWork
<1>1. log'[r][k] = t \/ (k \in 1..Length(r) /\ log'[r][k] = log[r][k])
  BY TaskOrigin DEF Length
<1> QED
  BY <1>1

LEMMA NoWorkPush ==
    ASSUME QueueOK, NEW s \in Streams, NEW kind \in Kinds \ {"kernel", "release"},
           NEW a \in Arrays \cup {Sync}, NEW e \in 0..MaxEvals, NEW st \in Streams,
           NEW n \in Nat, Push(s, kind, a, e, st, n)
    PROVE  NoWork /\ Extended /\ pos' = pos
<1> DEFINE t == PushedTask(kind, a, e, st, n)
<1>1. t \in Task /\ log' = [log EXCEPT ![s] = Append(@, t)] /\ pos' = pos
  BY PushGrows, SMTT(30)
<1>2. t.kind \notin {"kernel", "release"}
  BY DEF PushedTask
<1> HIDE DEF t
<1> QED
  BY <1>1, <1>2, NoWorkAppend

LEMMA NoWorkSame ==
    ASSUME QueueOK, UNCHANGED log
    PROVE  NoWork /\ Extended
BY DEF NoWork, Extended, QueueOK, Length

(* A handle is dropped, or nothing happens. *)
LEMMA CalmStutter ==
    ASSUME QueueOK, UNCHANGED <<buf, outsOf, contents, vars>>, held' \subseteq held
    PROVE  Calm
BY NoWorkSame DEF Calm, vars, callVars, evalVars, stepVars, arrayVars, queueVars, syncVars,
   Unscheduled

(* Waits, fences and signals. *)
LEMMA CalmPushes ==
    ASSUME TypeInv, UNCHANGED memVars,
           \/ WaitInput \/ (\E b \in Arrays : UpdateFence(b))
           \/ (\E s \in Streams : SignalEvent(s))
    PROVE  Calm
<1>1. QueueOK /\ StreamFor(arr) \in Streams /\ cur \in 0..MaxEvals /\ 0 \in Nat
      /\ arr \in Arrays \cup {Sync}
      /\ {"fenceWait", "fenceUpdate", "eventWait", "eventSignal"}
           \subseteq Kinds \ {"kernel", "release"}
  BY CallerTypes DEF Kinds
<1>2. (UNCHANGED log => NoWork /\ Extended)
  BY <1>1, NoWorkSame
<1>3. CASE WaitInput
  <2>1. /\ pc = "inputs"
        /\ UNCHANGED <<pc, arr, cur, outs, todo, status, computed>>
    BY <1>3 DEF WaitInput, evalVars, syncVars
  <2>2. NoWork /\ Extended /\ pos' = pos
    <3>1. \/ UNCHANGED queueVars
          \/ Push(StreamFor(arr), "fenceWait", InputsOf(arr)[idx], cur,
                  StreamOf[InputsOf(arr)[idx]], fenceCount[cur][StreamOf[InputsOf(arr)[idx]]])
          \/ Push(StreamFor(arr), "eventWait", InputsOf(arr)[idx], event[InputsOf(arr)[idx]],
                  StreamOf[InputsOf(arr)[idx]], 0)
      BY <1>3 DEF WaitInput
    <3>2. /\ InputsOf(arr)[idx] \in Arrays \cup {Sync}
          /\ StreamOf[InputsOf(arr)[idx]] \in Streams
          /\ fenceCount[cur][StreamOf[InputsOf(arr)[idx]]] \in Nat
          /\ event[InputsOf(arr)[idx]] \in 0..MaxEvals
      BY <1>3, WaitTypes
    <3>3. CASE UNCHANGED queueVars
      BY <1>2, <3>3 DEF queueVars
    <3> QED
      BY <1>1, <3>1, <3>2, <3>3, NoWorkPush
  <2> QED
    BY <2>1, <2>2 DEF Calm, memVars, Unscheduled
<1>4. ASSUME NEW b \in Arrays, UpdateFence(b) PROVE Calm
  <2>1. /\ pc = "fence"
        /\ UNCHANGED <<pc, arr, cur, outs, todo, status, computed>>
        /\ Push(StreamFor(arr), "fenceUpdate", b, cur, StreamFor(arr),
                fenceCount[cur][StreamFor(arr)] + 1)
    BY <1>4 DEF UpdateFence, evalVars, arrayVars
  <2>2. fenceCount[cur][StreamFor(arr)] + 1 \in Nat /\ b \in Arrays \cup {Sync}
    <3>1. fenceCount \in [Evals -> [Streams -> Nat]] /\ cur \in Evals
      BY <2>1 DEF TypeInv, TypeOK, InEval, EvalPlaces
    <3>2. fenceCount[cur] \in [Streams -> Nat]
      BY <3>1
    <3>3. fenceCount[cur][StreamFor(arr)] \in Nat
      BY <1>1, <3>2
    <3> QED
      BY <3>3
  <2>3. NoWork /\ Extended /\ pos' = pos
    BY <1>1, <2>1, <2>2, NoWorkPush
  <2> QED
    BY <2>1, <2>3 DEF Calm, memVars, Unscheduled
<1>5. ASSUME NEW s \in Streams, SignalEvent(s) PROVE Calm
  <2>1. /\ pc = "signal"
        /\ UNCHANGED <<pc, arr, cur, outs, todo, status, computed>>
        /\ UNCHANGED queueVars \/ Push(s, "eventSignal", Sync, cur, s, 0)
    BY <1>5 DEF SignalEvent, evalVars, stepVars, arrayVars, syncVars
  <2>2. NoWork /\ Extended /\ pos' = pos
    <3>1. Sync \in Arrays \cup {Sync}
      OBVIOUS
    <3>2. CASE UNCHANGED queueVars
      BY <1>2, <3>2 DEF queueVars
    <3> QED
      BY <1>1, <2>1, <3>1, <3>2, NoWorkPush
  <2> QED
    BY <2>1, <2>2 DEF Calm, memVars, Unscheduled
<1> QED
  BY <1>3, <1>4, <1>5

LEMMA CalmMoves ==
    ASSUME TypeInv, OnceInv, TapeInv, UNCHANGED memVars,
           \/ (\E overLimit \in BOOLEAN : Throttle(overLimit)) \/ WaitForOne \/ NextArray
           \/ EndEval \/ ReturnWait \/ \E a \in Arrays : IsAvailable(a) \/ CallWait(a)
    PROVE  Calm
<1>1. UNCHANGED log => NoWork /\ Extended
  BY CallerTypes, NoWorkSame
<1> USE <1>1 DEF Calm, memVars
<1>2. ASSUME NEW overLimit \in BOOLEAN, Throttle(overLimit) PROVE Calm
  BY <1>2 DEF Throttle, evalVars, arrayVars, queueVars, syncVars, Unscheduled, Releasing
<1>3. CASE WaitForOne \/ NextArray \/ EndEval
  BY <1>3 DEF WaitForOne, NextArray, EndEval, Goto, evalVars, stepVars, arrayVars, queueVars,
     syncVars, Unscheduled, Releasing
<1>4. ASSUME NEW a \in Arrays, SetAvailable(a), a \notin Unscheduled
      PROVE  Unscheduled' = Unscheduled
  BY <1>4 DEF SetAvailable, TypeInv, TypeOK, Unscheduled
<1>5. CASE ReturnWait
  <2>1. SetAvailable(arr) /\ arr \in Arrays /\ arr \notin Unscheduled
    BY <1>5 DEF ReturnWait, TapeInv, Unscheduled
  <2>2. Unscheduled' = Unscheduled
    BY <1>4, <2>1
  <2> QED
    BY <1>5, <2>2 DEF ReturnWait, evalVars, stepVars, queueVars, syncVars
<1>6. ASSUME NEW a \in Arrays, IsAvailable(a) PROVE Calm
  <2>1. Unscheduled' = Unscheduled
    BY <1>4, <1>6 DEF IsAvailable, Unscheduled
  <2> QED
    BY <1>6, <2>1 DEF IsAvailable, callVars, evalVars, stepVars, queueVars, syncVars
<1>7. ASSUME NEW a \in Arrays, CallWait(a) PROVE Calm
  BY <1>7 DEF CallWait, evalVars, arrayVars, queueVars, syncVars, Unscheduled
<1> QED
  BY <1>2, <1>3, <1>5, <1>6, <1>7

LEMMA CalmTake ==
    ASSUME TypeInv, NEW a \in Arrays \cup {Sync}, MemTakeArray(a)
    PROVE  Calm
<1>1. NoWork /\ Extended
  BY CallerTypes, NoWorkSame DEF MemTakeArray, TakeArray, queueVars
<1> QED
  BY <1>1, BoundAssumption
  DEF Calm, MemTakeArray, memVars, TakeArray, evalVars, queueVars, syncVars, Unscheduled

LEMMA BeginKind ==
    ASSUME TypeInv, NEW O \in Requests, NEW i \in DOMAIN O, NEW isAsync \in BOOLEAN,
           MemBeginEval(O, i, isAsync)
    PROVE  Begins
<1>1. cur + 1 \in Evals /\ O \in Seq(Arrays)
  BY GraphAssumption, BoundAssumption
  DEF MemBeginEval, BeginEval, TypeInv, TypeOK, Evals
<1> QED
  BY <1>1 DEF Begins, MemBeginEval, BeginEval, arrayVars, queueVars, syncVars, Unscheduled

LEMMA KernelKind ==
    ASSUME TypeInv, MemEvalKernel
    PROVE  Kernels
<1>1. QueueOK /\ StreamFor(arr) \in Streams /\ arr \in Arrays \cup {Sync}
      /\ cur \in 0..MaxEvals /\ "kernel" \in Kinds
  BY CallerTypes
<1>2. pos' = pos /\ (IF arr = Sync \/ arr \in Views THEN UNCHANGED log
                                                    ELSE \E t : Appends("kernel", t))
  <2>1. CASE ~(arr = Sync \/ arr \in Views)
    <3> DEFINE t == DispatchedTask(StreamFor(arr), "kernel", arr)
    <3>1. Dispatch(StreamFor(arr), "kernel", arr)
      BY <2>1 DEF MemEvalKernel, EvalKernel
    <3>2. t \in Task /\ log' = [log EXCEPT ![StreamFor(arr)] = Append(@, t)] /\ pos' = pos
      BY <1>1, <3>1, DispatchGrows
    <3>3. t.kind = "kernel" /\ t.arr = arr /\ t.eval = cur
      BY DEF DispatchedTask
    <3>4. Appends("kernel", t)
      BY <3>2, <3>3 DEF Appends
    <3> HIDE DEF t
    <3> QED
      BY <2>1, <3>2, <3>4
  <2> QED
    BY <2>1 DEF MemEvalKernel, EvalKernel, queueVars
<1>3. UNCHANGED <<arr, cur, outs, todo, computed>> /\ Unscheduled' = Unscheduled
      /\ pc = "inputs" /\ pc' = "retain"
  BY DEF MemEvalKernel, EvalKernel, AllInputsSeen, Goto, evalVars, stepVars, arrayVars, syncVars,
     Unscheduled
<1> QED
  BY <1>2, <1>3 DEF Kernels, MemEvalKernel

LEMMA RetainKind ==
    ASSUME TypeInv, Retain, UNCHANGED memVars
    PROVE  Retains
<1>1. QueueOK /\ StreamFor(arr) \in Streams /\ arr \in Arrays \cup {Sync}
      /\ cur \in 0..MaxEvals /\ "release" \in Kinds
  BY CallerTypes
<1> DEFINE t == DispatchedTask(StreamFor(arr), "release", arr)
<1>2. t \in Task /\ log' = [log EXCEPT ![StreamFor(arr)] = Append(@, t)] /\ pos' = pos
  BY <1>1, DispatchGrows DEF Retain
<1>3. t.kind = "release" /\ t.arr = arr /\ t.eval = cur
  BY DEF DispatchedTask
<1>4. Appends("release", t)
  BY <1>2, <1>3 DEF Appends
<1> HIDE DEF t
<1> QED
  BY <1>2, <1>4 DEF Retains, Retain, Goto, memVars, evalVars, stepVars, arrayVars, syncVars,
     Unscheduled

LEMMA MarkKind ==
    ASSUME NEW overLimit \in BOOLEAN, MarkEvaluated(overLimit), UNCHANGED memVars
    PROVE  Marks
BY DEF Marks, MarkEvaluated, memVars, StatusAfter, Unscheduled, evalVars, queueVars, syncVars,
   Releasing

LEMMA RunKind ==
    ASSUME NEW s \in Streams, MemRun(s)
    PROVE  Runs(s)
BY DEF Runs, MemRun, Run, callVars, evalVars, stepVars, arrayVars, Unscheduled

LEMMA MemSteps == held \subseteq Arrays /\ [MemNext]_<<vars, memVars>> => [Next]_vars
BY DEF MemNext, MemCaller, MemUser, MemTakeArray, MemEvalKernel, MemBeginEval, MemRun, Drop,
   Next, Caller, User, Worker

LEMMA StepKinds ==
    ASSUME SafeInv, BuffersType, Failing = {}, [MemNext]_<<vars, memVars>>
    PROVE  Calm \/ Begins \/ Kernels \/ Retains \/ Marks \/ \E s \in Streams : Runs(s)
<1>1. TypeInv /\ OnceInv /\ TapeInv /\ QueueOK
  BY CallerTypes DEF SafeInv
<1>2. CASE MemCaller
  <2>1. ~Throw
    BY DEF Throw
  <2> QED
    BY <1>1, <1>2, <2>1, CalmPushes, CalmMoves, CalmTake, KernelKind, RetainKind, MarkKind
    DEF MemCaller
<1>3. CASE MemUser
  <2>1. ASSUME NEW a \in Arrays, Drop(a) PROVE Calm
    BY <1>1, <2>1, CalmStutter DEF Drop
  <2>2. ASSUME NEW a \in held, IsAvailable(a) \/ CallWait(a), UNCHANGED memVars PROVE Calm
    <3>1. a \in Arrays
      BY DEF BuffersType
    <3> QED
      BY <1>1, <2>2, <3>1, CalmMoves
  <2> QED
    BY <1>1, <1>3, <2>1, <2>2, BeginKind DEF MemUser
<1>4. CASE \E s \in Streams : MemRun(s)
  BY <1>4, RunKind
<1>5. CASE (Quiescent /\ UNCHANGED memVars) \/ UNCHANGED <<vars, memVars>>
  BY <1>1, <1>5, CalmStutter DEF Quiescent, memVars
<1> QED
  BY <1>2, <1>3, <1>4, <1>5 DEF MemNext

-----------------------------------------------------------------------------
(* What changes little *)

LEMMA NeededSame ==
    ASSUME Unscheduled' = Unscheduled
    PROVE  \A R : Needed(R)' = Needed(R)
BY DEF Needed

(* A place in a queue is a number. *)
LEMMA Places ==
    ASSUME TypeInv, NEW s \in Streams
    PROVE  /\ pos[s] \in Nat /\ Length(s) \in Nat /\ pos[s] <= Length(s)
           /\ \A k \in 1..Length(s) : k \in Nat /\ log[s][k] \in Task
           /\ 1..pos[s] \subseteq 1..Length(s)
           /\ (pos[s] + 1)..Length(s) \subseteq 1..Length(s)
           /\ \A k \in 1..Length(s) : k \in 1..pos[s] \/ k \in (pos[s] + 1)..Length(s)
<1>1. pos[s] \in Nat /\ log[s] \in Seq(Task) /\ pos[s] <= Length(s)
  BY DEF TypeInv, TypeOK
<1>2. Length(s) \in Nat /\ \A k \in 1..Length(s) : log[s][k] \in Task
  BY <1>1 DEF Length
<1> QED
  BY <1>1, <1>2

LEMMA CalmSame ==
    ASSUME TypeInv, Calm
    PROVE  /\ SyncInputs' = SyncInputs
           /\ \A p \in Arrays : Placed(p)' <=> Placed(p)
           /\ \A p : Flying(p)' <=> Flying(p)
           /\ \A p : SyncHolds(p) => SyncHolds(p)'
<1> USE DEF Calm
<1>1. SyncInputs' = SyncInputs
  BY DEF SyncInputs, Evaluating, Releasing
<1>2. pc' \in Mid <=> pc \in Mid
  BY DEF Mid, Releasing
<1>3. pc \in Mid => arr' = arr
  BY DEF Mid, Releasing
<1>4. \A p \in Arrays : Placed(p)' <=> Placed(p)
  <2>1. arr' = arr => OutputsOf(arr)' = OutputsOf(arr)
    BY DEF OutputsOf
  <2> QED
    BY <1>2, <1>3, <2>1 DEF Placed, Mid
<1>5. ASSUME NEW r \in Streams
      PROVE  /\ \A k \in (pos[r] + 1)..Length(r) :
                  k \in (pos[r] + 1)..Len(log'[r]) /\ log'[r][k] = log[r][k]
             /\ \A k \in (pos[r] + 1)..Len(log'[r]) : log'[r][k].kind = "release" =>
                  k \in (pos[r] + 1)..Length(r) /\ log'[r][k] = log[r][k]
  <2>1. /\ pos[r] \in Nat /\ Length(r) \in Nat /\ Len(log'[r]) \in Nat
        /\ Length(r) <= Len(log'[r])
    BY Places DEF Extended, Length
  <2>2. \A k \in 1..Length(r) : log'[r][k] = log[r][k]
    BY DEF Extended
  <2>3. \A k \in 1..Len(log'[r]) : log'[r][k].kind = "release" =>
           k \in 1..Length(r) /\ log'[r][k] = log[r][k]
    BY DEF NoWork
  <2> QED
    BY <2>1, <2>2, <2>3
<1>6. \A p : Flying(p)' <=> Flying(p)
  <2>1. pc' = "retain" <=> pc = "retain"
    BY DEF Releasing
  <2>2. pc = "retain" => arr' = arr
    BY DEF Releasing
  <2> QED
    BY <1>5, <2>1, <2>2 DEF Flying, IsRelease, Length
<1>7. ASSUME NEW p, SyncHolds(p) PROVE SyncHolds(p)'
  <2>1. PICK r \in Streams : \E k \in (pos[r] + 1)..Length(r) :
           IsSyncRelease(log[r][k]) /\ p \in SeqRange(outsOf[log[r][k].eval])
    BY <1>7 DEF SyncHolds
  <2>2. PICK k \in (pos[r] + 1)..Length(r) :
           IsSyncRelease(log[r][k]) /\ p \in SeqRange(outsOf[log[r][k].eval])
    BY <2>1
  <2>3. k \in (pos[r] + 1)..Len(log'[r]) /\ log'[r][k] = log[r][k]
    BY <1>5
  <2>4. IsSyncRelease(log'[r][k]) /\ p \in SeqRange(outsOf'[log'[r][k].eval])
    BY <2>2, <2>3
  <2> QED
    BY <2>3, <2>4 DEF SyncHolds, Length
<1> QED
  BY <1>1, <1>4, <1>6, <1>7

-----------------------------------------------------------------------------
(* Buffers are given before they are used *)

(* The inputs of what is being evaluated have been evaluated. *)
LEMMA InputsBefore ==
    ASSUME TypeInv, FenceInv, OnceInv, TapeInv, pc = "inputs", arr # Sync
    PROVE  /\ arr \in Arrays /\ arr \in todo /\ arr \in Unscheduled
           /\ \A x \in Parents(arr) : x \in Arrays /\ x \notin Unscheduled
<1>1. arr \in Arrays /\ arr \in todo /\ todo \subseteq Unscheduled /\ SeqRange(InputsOf(arr)) \cap todo = {}
  BY DEF TypeInv, TypeOK, OnceInv, FenceInv, EvalPlaces
<1>2. Parents(arr) = SeqRange(InputsOf(arr))
  BY DEF Parents, InputsOf, SeqRange
<1>3. Parents(arr) \cap Unscheduled \subseteq todo
  BY <1>1 DEF TapeInv, EvalPlaces
<1>4. Parents(arr) \subseteq Arrays
  BY <1>1, GraphAssumption DEF Parents
<1> QED
  BY <1>1, <1>2, <1>3, <1>4

LEMMA PlacementFacts ==
    ASSUME SafeInv, BuffersType, PlacedInv, pc = "inputs", arr # Sync, NEW f \in Placements(arr)
    PROVE  \A a \in Outputs[arr] : f[a] \in 0..Cardinality(Arrays) /\ f[a] # NoBuffer
<1>1. arr \in Arrays /\ \A x \in Parents(arr) : x \in Arrays /\ x \notin Unscheduled
  BY InputsBefore DEF SafeInv
<1>2. \A x \in Parents(arr) : buf[x] \in 0..Cardinality(Arrays) /\ buf[x] # NoBuffer
  BY <1>1 DEF BuffersType, PlacedInv, Placed
<1>3. CASE arr \in Views
  <2>1. f = [o \in Outputs[arr] |-> buf[Inputs[arr][1]]]
    BY <1>3 DEF Placements
  <2>2. Inputs[arr] \in Seq(Arrays) /\ Inputs[arr] # <<>>
    BY <1>1, <1>3, GraphAssumption, MemoryAssumption
  <2>3. Inputs[arr][1] \in Parents(arr)
    BY <2>2 DEF Parents
  <2> QED
    BY <1>2, <2>1, <2>3
<1>4. CASE arr \notin Views
  <2>1. f \in [Outputs[arr] ->
                 {buf[x] : x \in {y \in Parents(arr) : arr \in InPlace /\ Donatable(Live, y)}}
                 \cup (Buffers \ InUse(Live))]
    BY <1>4 DEF Placements
  <2>2. \A b \in Buffers : b \in 0..Cardinality(Arrays) /\ b # NoBuffer
    <3>1. Cardinality(Arrays) \in Nat
      BY MemoryAssumption, FS_CardinalityType
    <3> QED
      BY <3>1 DEF Buffers, NoBuffer
  <2> QED
    BY <1>2, <2>1, <2>2
<1> QED
  BY <1>3, <1>4

LEMMA BuffersStep ==
    ASSUME SafeInv, BuffersType, PlacedInv,
           Calm \/ Begins \/ Kernels \/ Retains \/ Marks \/ \E s \in Streams : Runs(s)
    PROVE  BuffersType'
<1> USE DEF BuffersType
<1>1. CASE Kernels /\ arr # Sync
  <2>1. PICK f \in Placements(arr) :
           buf' = [a \in Arrays |-> IF a \in Outputs[arr] THEN f[a] ELSE buf[a]]
    BY <1>1 DEF Kernels
  <2>2. \A a \in Outputs[arr] : f[a] \in 0..Cardinality(Arrays)
    BY <1>1, PlacementFacts DEF Kernels
  <2> QED
    BY <1>1, <2>1, <2>2 DEF Kernels
<1>2. CASE Kernels /\ arr = Sync
  BY <1>2 DEF Kernels
<1>3. CASE Begins
  BY <1>3 DEF Begins
<1>4. CASE Calm \/ Retains \/ Marks \/ \E s \in Streams : Runs(s)
  BY <1>4 DEF Calm, Retains, Marks, Runs
<1> QED
  BY <1>1, <1>2, <1>3, <1>4

LEMMA PlacedStep ==
    ASSUME SafeInv, BuffersType, PlacedInv,
           Calm \/ Begins \/ Kernels \/ Retains \/ Marks \/ \E s \in Streams : Runs(s)
    PROVE  PlacedInv'
<1>1. ASSUME Unscheduled' \subseteq Unscheduled,
             \A a \in Arrays : Placed(a)' => Placed(a) /\ buf'[a] = buf[a]
      PROVE  PlacedInv'
  BY <1>1 DEF PlacedInv
<1>2. CASE Calm
  BY <1>1, <1>2, CalmSame DEF SafeInv, Calm
<1>3. CASE Begins
  BY <1>1, <1>3 DEF Begins, Placed, Releasing
<1>4. CASE Retains
  <2>1. OutputsOf(arr)' = OutputsOf(arr)
    BY <1>4 DEF Retains, OutputsOf
  <2> QED
    BY <1>1, <1>4, <2>1 DEF Retains, Placed, Releasing
<1>5. CASE Marks
  BY <1>1, <1>5 DEF Marks, Placed, Releasing
<1>6. ASSUME NEW s \in Streams, Runs(s) PROVE PlacedInv'
  <2>1. OutputsOf(arr)' = OutputsOf(arr) /\ UNCHANGED <<pc, buf>> /\ Unscheduled' = Unscheduled
    BY <1>6 DEF Runs, OutputsOf
  <2> QED
    BY <1>1, <2>1 DEF Placed
<1>7. CASE Kernels /\ arr = Sync
  <2>1. OutputsOf(arr)' = {} /\ UNCHANGED buf /\ Unscheduled' = Unscheduled
    BY <1>7 DEF Kernels, OutputsOf
  <2> QED
    BY <1>1, <2>1 DEF Placed
<1>8. CASE Kernels /\ arr # Sync
  <2>1. PICK f \in Placements(arr) :
           buf' = [a \in Arrays |-> IF a \in Outputs[arr] THEN f[a] ELSE buf[a]]
    BY <1>8 DEF Kernels
  <2>2. \A a \in Outputs[arr] : f[a] # NoBuffer
    BY <1>8, PlacementFacts DEF Kernels
  <2>3. /\ arr \in Arrays /\ arr \in Unscheduled
        /\ \A x \in Parents(arr) : x \in Arrays /\ x \notin Unscheduled
    BY <1>8, InputsBefore DEF Kernels, SafeInv
  <2>4. OutputsOf(arr)' = Outputs[arr] /\ Unscheduled' = Unscheduled /\ pc = "inputs"
    BY <1>8 DEF Kernels, OutputsOf
  <2>5. ASSUME NEW a \in Arrays, Placed(a)'
        PROVE  buf'[a] # NoBuffer /\ \A x \in Parents(a) : x \notin Unscheduled
    <3>1. CASE a \in Outputs[arr]
      <4>1. Parents(a) = Parents(arr)
        BY <2>3, <3>1, GraphAssumption DEF Parents
      <4> QED
        BY <2>1, <2>2, <2>3, <3>1, <4>1
    <3>2. CASE a \notin Outputs[arr]
      BY <2>1, <2>4, <2>5, <3>2 DEF Placed, PlacedInv
    <3> QED
      BY <3>1, <3>2
  <2> QED
    BY <2>4, <2>5 DEF PlacedInv
<1> QED
  BY <1>2, <1>3, <1>4, <1>5, <1>6, <1>7, <1>8

-----------------------------------------------------------------------------
(* The tape *)

LEMMA InputsAreParents ==
    ASSUME NEW a \in Arrays, NEW c
    PROVE  c \in Parents(a) <=> \E i \in DOMAIN Inputs[a] : Inputs[a][i] = c
BY DEF Parents

(* The tape without the outputs of an array whose inputs are off it.        *)
LEMMA NeededWithout ==
    ASSUME TypeInv, TapeInv, NEW R, NEW a \in Arrays, Parents(a) \cap Unscheduled = {},
           Unscheduled' = Unscheduled \ Outputs[a]
    PROVE  Needed(R) \ Outputs[a] \subseteq Needed(R)'
<1> DEFINE U == Unscheduled
           V == Unscheduled'
           closed(T, W) == /\ R \cap W \subseteq T
                           /\ \A c \in T : Outputs[c] \subseteq T /\ Parents(c) \cap W \subseteq T
<1>1. /\ Needed(R) = {c \in U : \A T \in SUBSET U : closed(T, U) => c \in T}
      /\ Needed(R)' = {c \in V : \A T \in SUBSET V : closed(T, V) => c \in T}
  BY DEF Needed
<1>2. ASSUME NEW T \in SUBSET V, closed(T, V)
      PROVE  closed((T \cup Outputs[a]) \cap U, U)
  <2> DEFINE S == (T \cup Outputs[a]) \cap U
  <2>1. R \cap U \subseteq S
    BY <1>2
  <2>2. ASSUME NEW c \in S PROVE Outputs[c] \subseteq S /\ Parents(c) \cap U \subseteq S
    <3>1. CASE c \in T
      <4>1. Outputs[c] \subseteq T
        BY <1>2, <3>1
      <4>2. Parents(c) \cap U \subseteq S
        BY <1>2, <3>1
      <4> QED
        BY <4>1, <4>2
    <3>2. CASE c \in Outputs[a]
      <4>1. Outputs[c] = Outputs[a] /\ Inputs[c] = Inputs[a]
        BY <3>2, GraphAssumption
      <4>2. Outputs[c] \subseteq U
        BY DEF TapeInv
      <4>3. Parents(c) \cap U = {}
        BY <4>1 DEF Parents
      <4> QED
        BY <4>1, <4>2, <4>3
    <3> QED
      BY <3>1, <3>2
  <2> QED
    BY <2>1, <2>2
<1>3. ASSUME NEW c \in Needed(R), c \notin Outputs[a], NEW T \in SUBSET V, closed(T, V)
      PROVE  c \in T
  <2> DEFINE S == (T \cup Outputs[a]) \cap U
  <2>1. closed(S, U) /\ S \in SUBSET U
    BY <1>2, <1>3
  <2> HIDE DEF closed
  <2>2. c \in S
    BY <1>1, <1>3, <2>1
  <2> QED
    BY <1>3, <2>2
<1> HIDE DEF closed
<1> QED
  BY <1>1, <1>3

(* What is on the tape has its inputs on it, or evaluated. *)
LEMMA TapeClosed ==
    ASSUME SafeInv, pc \in InHand, arr # Sync
    PROVE  /\ arr \in Arrays /\ arr \in todo /\ arr \in Unscheduled
           /\ Outputs[arr] \subseteq todo /\ pc \in EvalPlaces
<1>1. arr \in todo /\ todo \subseteq Unscheduled /\ arr \in Arrays /\ pc \in EvalPlaces
  BY DEF SafeInv, OnceInv, InHand, EvalPlaces, Releasing, TypeInv, TypeOK
<1> QED
  BY <1>1 DEF SafeInv, TapeInv

LEMMA WantedStep ==
    ASSUME SafeInv, PlacedInv, WantedInv,
           Calm \/ Begins \/ Kernels \/ Retains \/ Marks \/ \E s \in Streams : Runs(s)
    PROVE  WantedInv'
<1> USE DEF WantedInv
<1>0. TypeInv /\ TapeInv
  BY DEF SafeInv
<1>1. CASE Calm
  <2>1. /\ Needed(SeqRange(outs))' = Needed(SeqRange(outs)) /\ UNCHANGED <<todo, outs>>
    BY <1>1, NeededSame DEF Calm
  <2>2. pc = "signal" => arr = Sync
    BY <1>0 DEF TapeInv
  <2>3. pc' \notin EvalPlaces => todo = {}
    BY <1>1, <2>2 DEF Calm, EvalPlaces, Releasing
  <2>4. pc' \in EvalPlaces \ {"tape"} /\ arr' = Sync => todo = {}
    <3>1. CASE arr' = arr /\ (pc' = pc \/ {pc, pc'} \subseteq Releasing)
      BY <3>1 DEF EvalPlaces, Releasing
    <3>2. CASE pc = "tape" /\ pc' = "inputs" /\ ~(arr' \in todo)
      BY <1>1, <3>2 DEF Calm, EvalPlaces, Releasing
    <3>3. CASE pc = "fence" /\ arr' = arr /\ pc' = IF arr = Sync THEN "signal" ELSE "tape"
      BY <3>3 DEF EvalPlaces
    <3>4. CASE pc' \in {"idle", "wait"} \/ arr' \in todo
      BY <1>0, <3>4, BoundAssumption DEF EvalPlaces, TypeInv, TypeOK
    <3> QED
      BY <1>1, <3>1, <3>2, <3>3, <3>4 DEF Calm
  <2>5. pc' \in InHand /\ arr' # Sync =>
           arr' \in SeqRange(outs) \/ \E c \in todo : arr' \in Parents(c)
    BY <1>1 DEF Calm, InHand, Releasing
  <2> QED
    BY <2>1, <2>3, <2>4, <2>5
<1>2. CASE Begins
  <2>1. todo' = Needed(SeqRange(outs))' /\ pc' = "tape"
    BY <1>2, NeededSame DEF Begins
  <2> QED
    BY <2>1 DEF EvalPlaces, InHand, Releasing
<1>3. CASE Kernels \/ Retains \/ \E s \in Streams : Runs(s)
  <2>1. /\ Needed(SeqRange(outs))' = Needed(SeqRange(outs)) /\ UNCHANGED <<todo, outs, arr>>
    BY <1>3, NeededSame DEF Kernels, Retains, Runs
  <2>2. \/ pc' = pc
        \/ pc = "inputs" /\ pc' = "retain"
        \/ pc = "retain" /\ pc' = "check"
    BY <1>3 DEF Kernels, Retains, Runs
  <2> QED
    BY <2>1, <2>2 DEF EvalPlaces, InHand, Releasing
<1>4. CASE Marks /\ arr = Sync
  <2>1. todo = {} /\ todo' = {} /\ pc' = "fence" /\ arr' = Sync
    BY <1>4 DEF Marks, EvalPlaces, Releasing
  <2> QED
    BY <2>1 DEF InHand, Releasing
<1>5. CASE Marks /\ arr # Sync
  <2>1. arr \in Arrays /\ pc' = "fence" /\ arr' = arr /\ outs' = outs
        /\ Unscheduled' = Unscheduled \ Outputs[arr] /\ todo' = todo \ Outputs[arr]
    BY <1>5, TapeClosed DEF Marks, OutputsOf, InHand
  <2>2. Parents(arr) \cap Unscheduled = {}
    BY <1>5, <2>1, GraphAssumption DEF PlacedInv, Placed, Marks, OutputsOf
  <2>3. Needed(SeqRange(outs)) \ Outputs[arr] \subseteq Needed(SeqRange(outs))'
    BY <1>0, <2>1, <2>2, NeededWithout
  <2> QED
    BY <1>5, <2>1, <2>3 DEF InHand, Releasing, EvalPlaces
<1> QED
  BY <1>1, <1>2, <1>3, <1>4, <1>5

-----------------------------------------------------------------------------
(* The queues *)

LEMMA AppendsFacts ==
    ASSUME TypeInv, NEW kind, NEW t, Appends(kind, t), NEW s, s = StreamFor(arr)
    PROVE  /\ Extended /\ s \in Streams /\ t \in Task
           /\ Length(s) \in Nat /\ Len(log'[s]) = Length(s) + 1 /\ log'[s][Length(s) + 1] = t
           /\ \A r \in Streams : \A k \in 1..Len(log'[r]) :
                 \/ r = s /\ k = Length(r) + 1 /\ log'[r][k] = t
                 \/ k \in 1..Length(r) /\ log'[r][k] = log[r][k]
<1>1. QueueOK /\ s \in Streams
  BY CallerTypes
<1>2. t \in Task /\ log' = [log EXCEPT ![s] = Append(@, t)]
  BY DEF Appends
<1>3. ASSUME NEW r \in Streams, NEW k \in 1..Len(log'[r])
      PROVE  \/ r = s /\ k = Length(r) + 1 /\ log'[r][k] = t
             \/ k \in 1..Length(r) /\ log'[r][k] = log[r][k]
  BY <1>1, <1>2, TaskOrigin DEF Length
<1>4. Extended
  BY <1>1, <1>2, AppendExtends
<1>5. Length(s) \in Nat /\ Len(log'[s]) = Length(s) + 1 /\ log'[s][Length(s) + 1] = t
  <2>1. log \in [Streams -> Seq(Task)] /\ log[s] \in Seq(Task)
    BY <1>1 DEF QueueOK
  <2>2. log'[s] = Append(log[s], t)
    BY <1>1, <1>2, <2>1
  <2> QED
    BY <1>2, <2>1, <2>2 DEF Length
<1> QED
  BY <1>1, <1>2, <1>3, <1>4, <1>5

(* A release of a Synchronizer that was on a queue stays as good.           *)
LEMMA SyncKept ==
    ASSUME TypeInv, SyncInv, Extended, computed \subseteq computed', cur <= cur', cur' \in Int,
           \A e \in Evals : e <= cur => outsOf'[e] = outsOf[e],
           NEW s \in Streams, NEW k \in 1..Length(s), log'[s][k] = log[s][k],
           IsSyncRelease(log[s][k])
    PROVE  /\ log'[s][k].eval \in Evals /\ log'[s][k].eval <= cur'
           /\ \A p \in SeqRange(outsOf'[log'[s][k].eval]) :
                 Behind(log', computed', s, k - 1, p)
<1> DEFINE e == log[s][k].eval
<1>1. e \in Evals /\ e <= cur
  BY DEF SyncInv
<1>2. e \in Int /\ cur \in Int
  BY <1>1 DEF Evals, TypeInv, TypeOK
<1>3. \A p \in SeqRange(outsOf[e]) : Behind(log, computed, s, k - 1, p)
  BY DEF SyncInv
<1>4. k - 1 \in Int /\ k - 1 <= Length(s)
  BY Places
<1>5. \A p \in SeqRange(outsOf[e]) : Behind(log', computed', s, k - 1, p)
  BY <1>3, <1>4, TasksStay
<1>6. outsOf'[e] = outsOf[e] /\ log'[s][k].eval = e
  BY <1>1
<1> HIDE DEF e
<1> QED
  BY <1>1, <1>2, <1>5, <1>6

LEMMA SyncStep ==
    ASSUME SafeInv, BuffersType, SyncInv,
           Calm \/ Begins \/ Kernels \/ Retains \/ Marks \/ \E s \in Streams : Runs(s)
    PROVE  SyncInv'
<1>0. TypeInv /\ QueueOK /\ cur \in Int /\ TapeInv
  BY CallerTypes DEF SafeInv
(* The steps that put no release of a Synchronizer on a queue. *)
<1>1. ASSUME Extended, computed \subseteq computed', cur <= cur', cur' \in Int,
             \A e \in Evals : e <= cur => outsOf'[e] = outsOf[e],
             \A r \in Streams : \A k \in 1..Len(log'[r]) : log'[r][k].kind = "release" =>
                k \in 1..Length(r) /\ log'[r][k] = log[r][k],
             pc' \in EvalPlaces => outsOf'[cur'] = outs',
             pc' \in Releasing /\ arr' = Sync => pc \in Releasing /\ arr = Sync /\ cur' = cur
      PROVE  SyncInv'
  <2>1. \A s \in Streams : \A k \in 1..Len(log'[s]) : IsSyncRelease(log'[s][k]) =>
           /\ log'[s][k].eval \in Evals /\ log'[s][k].eval <= cur'
           /\ \A p \in SeqRange(outsOf'[log'[s][k].eval]) :
                 Behind(log', computed', s, k - 1, p)
    <3> SUFFICES ASSUME NEW s \in Streams, NEW k \in 1..Len(log'[s]), IsSyncRelease(log'[s][k])
                 PROVE  /\ log'[s][k].eval \in Evals /\ log'[s][k].eval <= cur'
                        /\ \A p \in SeqRange(outsOf'[log'[s][k].eval]) :
                              Behind(log', computed', s, k - 1, p)
      OBVIOUS
    <3>1. k \in 1..Length(s) /\ log'[s][k] = log[s][k] /\ IsSyncRelease(log[s][k])
      BY <1>1 DEF IsSyncRelease
    <3> QED
      BY <1>0, <1>1, <3>1, SyncKept
  <2>2. pc' \in Releasing /\ arr' = Sync =>
           \E s \in Streams : \E k \in 1..Len(log'[s]) :
              IsSyncRelease(log'[s][k]) /\ log'[s][k].eval = cur'
    <3> SUFFICES ASSUME pc' \in Releasing, arr' = Sync
                 PROVE  \E s \in Streams : \E k \in 1..Len(log'[s]) :
                           IsSyncRelease(log'[s][k]) /\ log'[s][k].eval = cur'
      OBVIOUS
    <3>1. PICK s \in Streams : \E k \in 1..Length(s) :
             IsSyncRelease(log[s][k]) /\ log[s][k].eval = cur
      BY <1>1 DEF SyncInv
    <3>3. PICK k \in 1..Length(s) : IsSyncRelease(log[s][k]) /\ log[s][k].eval = cur
      BY <3>1
    <3>2. k \in 1..Len(log'[s]) /\ log'[s][k] = log[s][k]
      BY <1>1 DEF Extended, Length
    <3> QED
      BY <1>1, <3>3, <3>2
  <2> QED
    BY <1>1, <2>1, <2>2 DEF SyncInv, Length
<1>2. CASE Calm
  <2>1. /\ \A r \in Streams : \A k \in 1..Len(log'[r]) : log'[r][k].kind = "release" =>
              k \in 1..Length(r) /\ log'[r][k] = log[r][k]
        /\ Extended /\ UNCHANGED <<cur, outs, outsOf, computed>>
    BY <1>2 DEF Calm, NoWork
  <2>2. /\ pc' \in EvalPlaces => pc \in EvalPlaces
        /\ pc' \in Releasing /\ arr' = Sync => pc \in Releasing /\ arr = Sync
    BY <1>2 DEF Calm, EvalPlaces, Releasing
  <2> QED
    BY <1>0, <1>1, <2>1, <2>2 DEF SyncInv
<1>3. CASE Begins
  <2>1. Extended
    BY <1>0, <1>3, NoWorkSame DEF Begins
  <2>2. /\ cur' = cur + 1 /\ cur' \in Evals /\ outsOf' = [outsOf EXCEPT ![cur'] = outs']
        /\ computed' = computed /\ log' = log /\ pc' = "tape"
    BY <1>3 DEF Begins
  <2>3. \A e \in Evals : e <= cur => e # cur'
    BY <1>0, <2>2 DEF Evals
  <2>4. \A e \in Evals : e <= cur => outsOf'[e] = outsOf[e]
    BY <2>2, <2>3 DEF BuffersType
  <2>5. outsOf'[cur'] = outs'
    BY <2>2 DEF BuffersType
  <2> QED
    BY <1>0, <1>1, <2>1, <2>2, <2>4, <2>5 DEF Length, Releasing
<1>4. CASE Kernels
  <2>1. /\ pc = "inputs" /\ pc' = "retain"
        /\ UNCHANGED <<arr, cur, outs, computed, outsOf>>
    BY <1>4 DEF Kernels
  <2>2. CASE UNCHANGED log
    <3>1. Extended
      BY <1>0, <2>2, NoWorkSame
    <3> QED
      BY <1>0, <1>1, <2>1, <2>2, <3>1 DEF SyncInv, EvalPlaces, Releasing, Length
  <2>3. ASSUME NEW t, Appends("kernel", t) PROVE SyncInv'
    <3>0. t.kind = "kernel"
      BY <2>3 DEF Appends
    <3>1. /\ Extended
          /\ \A r \in Streams : \A k \in 1..Len(log'[r]) : log'[r][k].kind = "release" =>
                k \in 1..Length(r) /\ log'[r][k] = log[r][k]
      <4>1. PICK s : s = StreamFor(arr)
        OBVIOUS
      <4> QED
        BY <1>0, <2>3, <3>0, <4>1, AppendsFacts
    <3> QED
      BY <1>0, <1>1, <2>1, <3>1 DEF SyncInv, EvalPlaces, Releasing
  <2> QED
    BY <1>4, <2>2, <2>3 DEF Kernels
<1>5. CASE Marks
  <2>1. /\ pc \in Releasing /\ pc' = "fence" /\ UNCHANGED <<arr, cur, outs, log, computed, outsOf>>
        /\ Extended
    BY <1>0, <1>5, NoWorkSame DEF Marks
  <2> QED
    BY <1>0, <1>1, <2>1 DEF SyncInv, EvalPlaces, Releasing, Length
<1>6. ASSUME NEW s \in Streams, Runs(s) PROVE SyncInv'
  <2>1. /\ UNCHANGED <<pc, arr, cur, outs, log, outsOf>> /\ computed \subseteq computed'
        /\ Extended
    BY <1>0, <1>6, NoWorkSame DEF Runs, MemRun, Run
  <2> QED
    BY <1>0, <1>1, <2>1 DEF SyncInv, EvalPlaces, Releasing, Length
<1>7. CASE Retains
  <2>1. PICK t : Appends("release", t)
    BY <1>7 DEF Retains
  <2>2. /\ pc = "retain" /\ pc' = "check" /\ cur \in Evals
        /\ UNCHANGED <<arr, cur, outs, computed, outsOf>>
    BY <1>0, <1>7, CallerTypes DEF Retains, EvalPlaces
  <2>3. PICK s : s = StreamFor(arr)
    OBVIOUS
  <2>9. t.kind = "release" /\ t.arr = arr /\ t.eval = cur
    BY <2>1 DEF Appends
  <2>4. /\ Extended /\ s \in Streams /\ t.kind = "release" /\ t.arr = arr /\ t.eval = cur
        /\ Length(s) \in Nat /\ Len(log'[s]) = Length(s) + 1 /\ log'[s][Length(s) + 1] = t
        /\ \A r \in Streams : \A k \in 1..Len(log'[r]) :
              \/ r = s /\ k = Length(r) + 1 /\ log'[r][k] = t
              \/ k \in 1..Length(r) /\ log'[r][k] = log[r][k]
    BY <1>0, <2>1, <2>3, <2>9, AppendsFacts
  <2>5. outsOf[cur] = outs
    BY <2>2 DEF SyncInv, EvalPlaces
  <2>6. ASSUME arr = Sync, NEW p \in SeqRange(outs)
        PROVE  Behind(log', computed', s, Length(s), p)
    <3>1. \A i \in DOMAIN outs : Behind(log, computed, s, Length(s), outs[i])
      BY <2>2, <2>3, <2>6, AllSeen DEF SafeInv, Seen, InputsOf
    <3>2. Behind(log, computed, s, Length(s), p)
      BY <2>6, <3>1 DEF SeqRange
    <3> QED
      BY <2>2, <2>4, <3>2, TasksStay
  <2>7. ASSUME NEW r \in Streams, NEW k \in 1..Len(log'[r]), IsSyncRelease(log'[r][k])
        PROVE  /\ log'[r][k].eval \in Evals /\ log'[r][k].eval <= cur'
               /\ \A p \in SeqRange(outsOf'[log'[r][k].eval]) :
                     Behind(log', computed', r, k - 1, p)
    <3>1. CASE r = s /\ k = Length(r) + 1 /\ log'[r][k] = t
      <4>1. k - 1 = Length(s) /\ arr = Sync /\ log'[r][k].eval = cur
        BY <2>4, <2>7, <3>1 DEF IsSyncRelease
      <4> QED
        BY <1>0, <2>2, <2>5, <2>6, <3>1, <4>1
    <3>2. CASE k \in 1..Length(r) /\ log'[r][k] = log[r][k]
      BY <1>0, <2>2, <2>4, <2>7, <3>2, SyncKept
    <3> QED
      BY <2>4, <3>1, <3>2
  <2>8. arr = Sync => IsSyncRelease(log'[s][Length(s) + 1]) /\ Length(s) + 1 \in 1..Len(log'[s])
    BY <2>4 DEF IsSyncRelease
  <2> QED
    BY <2>2, <2>4, <2>5, <2>7, <2>8 DEF SyncInv, Length, EvalPlaces
<1> QED
  BY <1>2, <1>3, <1>4, <1>5, <1>6, <1>7

(* Steps that queue no work and are not between a kernel and its release.   *)
LEMMA PairedSame ==
    ASSUME TypeInv, PairedInv, NoWork, Extended, pc' = "retain" <=> pc = "retain",
           pc = "retain" => UNCHANGED <<log, arr>>
    PROVE  PairedInv'
<1>1. arr' = arr /\ arr # Sync => StreamFor(arr)' = StreamFor(arr)
  BY DEF StreamFor
<1>2. ASSUME NEW s \in Streams, NEW k \in 1..Len(log'[s]), log'[s][k].kind = "kernel"
      PROVE  /\ log'[s][k].arr # Sync
             /\ \/ k + 1 \in 1..Len(log'[s]) /\ IsRelease(log'[s][k + 1])
                   /\ log'[s][k + 1].arr = log'[s][k].arr
                \/ k = Len(log'[s]) /\ pc' = "retain" /\ arr' = log'[s][k].arr
                   /\ s = StreamFor(arr)'
  <2>1. k \in 1..Length(s) /\ log'[s][k] = log[s][k]
    BY <1>2 DEF NoWork
  <2>2. CASE k + 1 \in 1..Length(s) /\ IsRelease(log[s][k + 1])
             /\ log[s][k + 1].arr = log[s][k].arr
    <3>1. k + 1 \in 1..Len(log'[s]) /\ log'[s][k + 1] = log[s][k + 1]
      BY <2>2 DEF Extended, Length
    <3> QED
      BY <1>2, <2>1, <2>2, <3>1 DEF PairedInv
  <2>3. CASE k = Length(s) /\ pc = "retain" /\ arr = log[s][k].arr /\ s = StreamFor(arr)
    <3>1. log[s][k].arr # Sync
      BY <1>2, <2>1 DEF PairedInv
    <3>2. log' = log /\ arr' = arr /\ pc' = "retain" /\ arr # Sync
      BY <2>3, <3>1
    <3> QED
      BY <1>1, <2>1, <2>3, <3>1, <3>2 DEF Length
  <2> QED
    BY <1>2, <2>1, <2>2, <2>3 DEF PairedInv
<1>3. ASSUME NEW s \in Streams, NEW k \in 1..Len(log'[s]), IsRelease(log'[s][k]),
             log'[s][k].arr \notin Views
      PROVE  /\ k - 1 \in 1..Len(log'[s]) /\ log'[s][k - 1].kind = "kernel"
             /\ log'[s][k - 1].arr = log'[s][k].arr
  <2>1. k \in 1..Length(s) /\ log'[s][k] = log[s][k]
    BY <1>3 DEF NoWork, IsRelease
  <2>2. /\ k - 1 \in 1..Length(s) /\ log[s][k - 1].kind = "kernel"
        /\ log[s][k - 1].arr = log[s][k].arr
    BY <1>3, <2>1 DEF PairedInv
  <2>3. k - 1 \in 1..Len(log'[s]) /\ log'[s][k - 1] = log[s][k - 1]
    BY <2>2 DEF Extended, Length
  <2> QED
    BY <2>1, <2>2, <2>3
<1>4. pc' = "retain" /\ arr' # Sync /\ arr' \notin Views =>
         \E k \in 1..Len(log'[StreamFor(arr)']) :
            /\ k = Len(log'[StreamFor(arr)']) /\ log'[StreamFor(arr)'][k].kind = "kernel"
            /\ log'[StreamFor(arr)'][k].arr = arr'
  BY <1>1 DEF PairedInv, Length
<1> QED
  BY <1>2, <1>3, <1>4 DEF PairedInv, Length

LEMMA PairedStep ==
    ASSUME SafeInv, PairedInv,
           Calm \/ Begins \/ Kernels \/ Retains \/ Marks \/ \E s \in Streams : Runs(s)
    PROVE  PairedInv'
<1>0. TypeInv /\ QueueOK
  BY CallerTypes DEF SafeInv
<1>1. CASE Calm
  <2>1. /\ NoWork /\ Extended
        /\ pc' = "retain" <=> pc = "retain"
        /\ pc = "retain" => UNCHANGED <<log, arr>>
    BY <1>1 DEF Calm, Releasing
  <2> QED
    BY <1>0, <2>1, PairedSame
<1>2. CASE Begins \/ Marks \/ \E s \in Streams : Runs(s)
  <2>1. /\ UNCHANGED log
        /\ pc' = "retain" <=> pc = "retain"
        /\ pc = "retain" => UNCHANGED arr
    BY <1>2 DEF Begins, Marks, Runs, Releasing
  <2>2. NoWork /\ Extended
    BY <1>0, <2>1, NoWorkSame
  <2> QED
    BY <1>0, <2>1, <2>2, PairedSame
<1>3. CASE Kernels /\ UNCHANGED log
  <2>1. pc = "inputs" /\ pc' = "retain" /\ arr' = arr /\ (arr = Sync \/ arr \in Views)
    <3>1. ~\E t : Appends("kernel", t)
      <4> SUFFICES ASSUME NEW t, Appends("kernel", t) PROVE FALSE
        OBVIOUS
      <4>1. PICK s : s = StreamFor(arr)
        OBVIOUS
      <4>2. Length(s) \in Nat /\ Len(log'[s]) = Length(s) + 1
        BY <1>0, <4>1, AppendsFacts
      <4> QED
        BY <1>3, <4>2 DEF Length
    <3> QED
      BY <1>3, <3>1 DEF Kernels
  <2> QED
    BY <1>3, <2>1 DEF PairedInv, Length
<1>4. ASSUME Kernels, arr # Sync, NEW t, Appends("kernel", t) PROVE PairedInv'
  <2>0. pc = "inputs" /\ pc' = "retain" /\ arr' = arr /\ t.kind = "kernel" /\ t.arr = arr
    BY <1>4 DEF Kernels, Appends
  <2>1. PICK s : s = StreamFor(arr)
    OBVIOUS
  <2>2. /\ Extended /\ s \in Streams /\ Length(s) \in Nat
        /\ Len(log'[s]) = Length(s) + 1 /\ log'[s][Length(s) + 1] = t
        /\ \A r \in Streams : \A k \in 1..Len(log'[r]) :
              \/ r = s /\ k = Length(r) + 1 /\ log'[r][k] = t
              \/ k \in 1..Length(r) /\ log'[r][k] = log[r][k]
    BY <1>0, <1>4, <2>1, AppendsFacts
  <2>3. StreamFor(arr)' = s
    BY <1>4, <2>0, <2>1 DEF StreamFor
  <2>4. ASSUME NEW r \in Streams, NEW k \in 1..Len(log'[r]), log'[r][k].kind = "kernel"
        PROVE  /\ log'[r][k].arr # Sync
               /\ \/ k + 1 \in 1..Len(log'[r]) /\ IsRelease(log'[r][k + 1])
                     /\ log'[r][k + 1].arr = log'[r][k].arr
                  \/ k = Len(log'[r]) /\ pc' = "retain" /\ arr' = log'[r][k].arr
                     /\ r = StreamFor(arr)'
    <3>1. CASE r = s /\ k = Length(r) + 1 /\ log'[r][k] = t
      BY <1>4, <2>0, <2>2, <2>3, <3>1
    <3>2. CASE k \in 1..Length(r) /\ log'[r][k] = log[r][k]
      <4>1. k + 1 \in 1..Length(r) /\ IsRelease(log[r][k + 1])
            /\ log[r][k + 1].arr = log[r][k].arr /\ log[r][k].arr # Sync
        BY <2>0, <2>4, <3>2 DEF PairedInv
      <4>2. k + 1 \in 1..Len(log'[r]) /\ log'[r][k + 1] = log[r][k + 1]
        BY <2>2, <4>1 DEF Extended, Length
      <4> QED
        BY <3>2, <4>1, <4>2
    <3> QED
      BY <2>2, <3>1, <3>2
  <2>5. ASSUME NEW r \in Streams, NEW k \in 1..Len(log'[r]), IsRelease(log'[r][k]),
               log'[r][k].arr \notin Views
        PROVE  /\ k - 1 \in 1..Len(log'[r]) /\ log'[r][k - 1].kind = "kernel"
               /\ log'[r][k - 1].arr = log'[r][k].arr
    <3>1. k \in 1..Length(r) /\ log'[r][k] = log[r][k]
      BY <2>0, <2>2, <2>5 DEF IsRelease
    <3>2. /\ k - 1 \in 1..Length(r) /\ log[r][k - 1].kind = "kernel"
          /\ log[r][k - 1].arr = log[r][k].arr
      BY <2>5, <3>1 DEF PairedInv
    <3>3. k - 1 \in 1..Len(log'[r]) /\ log'[r][k - 1] = log[r][k - 1]
      BY <2>2, <3>2 DEF Extended, Length
    <3> QED
      BY <3>1, <3>2, <3>3
  <2>6. \E k \in 1..Len(log'[s]) :
           k = Len(log'[s]) /\ log'[s][k].kind = "kernel" /\ log'[s][k].arr = arr'
    BY <2>0, <2>2
  <2> QED
    BY <2>3, <2>4, <2>5, <2>6 DEF PairedInv, Length
<1>5. CASE Retains
  <2>0. PICK t : Appends("release", t)
    BY <1>5 DEF Retains
  <2>1. pc = "retain" /\ pc' = "check" /\ t.kind = "release" /\ t.arr = arr
    BY <1>5, <2>0 DEF Retains, Appends
  <2>2. PICK s : s = StreamFor(arr)
    OBVIOUS
  <2>3. /\ Extended /\ s \in Streams /\ Length(s) \in Nat
        /\ Len(log'[s]) = Length(s) + 1 /\ log'[s][Length(s) + 1] = t
        /\ \A r \in Streams : \A k \in 1..Len(log'[r]) :
              \/ r = s /\ k = Length(r) + 1 /\ log'[r][k] = t
              \/ k \in 1..Length(r) /\ log'[r][k] = log[r][k]
    BY <1>0, <2>0, <2>2, AppendsFacts
  <2>4. ASSUME NEW r \in Streams, NEW k \in 1..Len(log'[r]), log'[r][k].kind = "kernel"
        PROVE  /\ log'[r][k].arr # Sync
               /\ k + 1 \in 1..Len(log'[r]) /\ IsRelease(log'[r][k + 1])
               /\ log'[r][k + 1].arr = log'[r][k].arr
    <3>1. k \in 1..Length(r) /\ log'[r][k] = log[r][k] /\ log[r][k].arr # Sync
      BY <2>1, <2>3, <2>4 DEF PairedInv
    <3>2. CASE k + 1 \in 1..Length(r) /\ IsRelease(log[r][k + 1])
               /\ log[r][k + 1].arr = log[r][k].arr
      <4>1. k + 1 \in 1..Len(log'[r]) /\ log'[r][k + 1] = log[r][k + 1]
        BY <2>3, <3>2 DEF Extended, Length
      <4> QED
        BY <3>1, <3>2, <4>1
    <3>3. CASE k = Length(r) /\ arr = log[r][k].arr /\ r = StreamFor(arr)
      <4>1. k + 1 = Length(s) + 1 /\ r = s
        BY <2>2, <3>3
      <4>2. k + 1 \in 1..Len(log'[r]) /\ log'[r][k + 1] = t
        BY <2>3, <4>1
      <4> QED
        BY <2>1, <3>1, <3>3, <4>2 DEF IsRelease
    <3> QED
      BY <2>4, <3>1, <3>2, <3>3 DEF PairedInv
  <2>5. ASSUME NEW r \in Streams, NEW k \in 1..Len(log'[r]), IsRelease(log'[r][k]),
               log'[r][k].arr \notin Views
        PROVE  /\ k - 1 \in 1..Len(log'[r]) /\ log'[r][k - 1].kind = "kernel"
               /\ log'[r][k - 1].arr = log'[r][k].arr
    <3>1. CASE k \in 1..Length(r) /\ log'[r][k] = log[r][k]
      <4>1. /\ k - 1 \in 1..Length(r) /\ log[r][k - 1].kind = "kernel"
            /\ log[r][k - 1].arr = log[r][k].arr
        BY <2>5, <3>1 DEF PairedInv
      <4>2. k - 1 \in 1..Len(log'[r]) /\ log'[r][k - 1] = log[r][k - 1]
        BY <2>3, <4>1 DEF Extended, Length
      <4> QED
        BY <3>1, <4>1, <4>2
    <3>2. CASE r = s /\ k = Length(r) + 1 /\ log'[r][k] = t
      <4>1. arr # Sync /\ arr \notin Views
        BY <2>1, <2>5, <3>2 DEF IsRelease
      <4>2. PICK j \in 1..Length(s) :
               j = Length(s) /\ log[s][j].kind = "kernel" /\ log[s][j].arr = arr
        BY <2>1, <2>2, <4>1 DEF PairedInv
      <4>3. k - 1 = j /\ j \in 1..Len(log'[s]) /\ log'[s][j] = log[s][j]
        BY <2>3, <3>2, <4>2 DEF Extended, Length
      <4> QED
        BY <2>1, <3>2, <4>2, <4>3
    <3> QED
      BY <2>3, <3>1, <3>2
  <2> QED
    BY <2>1, <2>4, <2>5 DEF PairedInv, Length
<1> QED
  BY <1>1, <1>2, <1>3, <1>4, <1>5 DEF Kernels

-----------------------------------------------------------------------------
(* What is computed, and what is on its way *)

LEMMA RanStep ==
    ASSUME SafeInv, PlacedInv, RanInv,
           Calm \/ Begins \/ Kernels \/ Retains \/ Marks \/ \E s \in Streams : Runs(s)
    PROVE  RanInv'
<1>0. TypeInv /\ QueueOK
  BY CallerTypes DEF SafeInv
<1>1. ASSUME Extended, pos' = pos, computed' = computed,
             \A r \in Streams : \A k \in 1..Len(log'[r]) : log'[r][k].kind = "release" =>
                k \in 1..Length(r) /\ log'[r][k] = log[r][k]
      PROVE  RanInv'
  <2>1. \A s \in Streams : \A k \in 1..Len(log'[s]) :
           IsRelease(log'[s][k]) => log'[s][k].arr \notin Leaves
    BY <1>1 DEF RanInv, IsRelease
  <2>2. \A s \in Streams : \A j \in 1..pos[s] : log'[s][j] = log[s][j]
    BY <1>0, <1>1, Places DEF Extended
  <2> QED
    BY <1>1, <2>1, <2>2 DEF RanInv, Length
<1>2. CASE Calm
  BY <1>1, <1>2 DEF Calm, NoWork
<1>3. CASE Begins \/ Marks
  <2>1. UNCHANGED log /\ pos' = pos /\ computed' = computed
    BY <1>3 DEF Begins, Marks
  <2>2. NoWork /\ Extended
    BY <1>0, <2>1, NoWorkSame
  <2> QED
    BY <1>1, <2>1, <2>2 DEF NoWork
<1>4. CASE Kernels
  <2>1. pos' = pos /\ computed' = computed
    BY <1>4 DEF Kernels
  <2>2. CASE UNCHANGED log
    <3>1. NoWork /\ Extended
      BY <1>0, <2>2, NoWorkSame
    <3> QED
      BY <1>1, <2>1, <3>1 DEF NoWork
  <2>3. ASSUME NEW t, Appends("kernel", t) PROVE RanInv'
    <3>1. t.kind = "kernel"
      BY <2>3 DEF Appends
    <3>2. PICK s : s = StreamFor(arr)
      OBVIOUS
    <3> QED
      BY <1>0, <1>1, <2>1, <2>3, <3>1, <3>2, AppendsFacts
  <2> QED
    BY <1>4, <2>2, <2>3 DEF Kernels
<1>5. CASE Retains
  <2>0. PICK t : Appends("release", t)
    BY <1>5 DEF Retains
  <2>1. pc = "retain" /\ t.arr = arr /\ pos' = pos /\ computed' = computed
    BY <1>5, <2>0 DEF Retains, Appends
  <2>2. PICK s : s = StreamFor(arr)
    OBVIOUS
  <2>3. /\ Extended
        /\ \A r \in Streams : \A k \in 1..Len(log'[r]) :
              \/ r = s /\ k = Length(r) + 1 /\ log'[r][k] = t
              \/ k \in 1..Length(r) /\ log'[r][k] = log[r][k]
    BY <1>0, <2>0, <2>2, AppendsFacts
  <2>4. arr # Sync => arr \notin Leaves
    BY <2>1, TapeClosed DEF PlacedInv, InHand
  <2>5. \A r \in Streams : \A k \in 1..Len(log'[r]) :
           IsRelease(log'[r][k]) => log'[r][k].arr \notin Leaves
    BY <2>1, <2>3, <2>4 DEF RanInv, IsRelease
  <2>6. \A r \in Streams : \A j \in 1..pos[r] : log'[r][j] = log[r][j]
    BY <1>0, <2>3, Places DEF Extended
  <2> QED
    BY <2>1, <2>5, <2>6 DEF RanInv, Length
<1>6. ASSUME NEW s \in Streams, Runs(s) PROVE RanInv'
  <2>1. /\ log' = log /\ pos' = [pos EXCEPT ![s] = @ + 1]
        /\ computed' = IF HeadTask(s).kind = "release"
                       THEN computed \cup OutputsOf(HeadTask(s).arr) ELSE computed
    BY <1>6 DEF Runs, MemRun, Run
  <2>2. \A r \in Streams : 1..pos[r] \subseteq 1..pos'[r]
    BY <1>0, <2>1, Places DEF TypeInv, TypeOK
  <2>3. pos[s] + 1 \in 1..pos'[s]
    BY <1>0, <2>1, Places DEF TypeInv, TypeOK
  <2>4. ASSUME NEW a \in computed' \ Leaves
        PROVE  \E r \in Streams : \E j \in 1..pos'[r] :
                  IsRelease(log[r][j]) /\ a \in Outputs[log[r][j].arr]
    <3>1. CASE a \in computed
      BY <2>2, <2>4, <3>1 DEF RanInv
    <3>2. CASE a \notin computed
      <4>1. IsRelease(HeadTask(s)) /\ a \in Outputs[HeadTask(s).arr]
        BY <2>1, <2>4, <3>2 DEF OutputsOf, IsRelease
      <4> QED
        BY <2>3, <4>1 DEF HeadTask
    <3> QED
      BY <3>1, <3>2
  <2> QED
    BY <2>1, <2>4 DEF RanInv, Length
<1> QED
  BY <1>2, <1>3, <1>4, <1>5, <1>6

(* What eval_cpu has run for is computed only with its release. *)
LEMMA FlyingLate ==
    ASSUME SafeInv, PlacedInv, RanInv, NEW p \in Arrays, Flying(p)
    PROVE  p \notin computed /\ p \notin Leaves
<1>0. TypeInv
  BY DEF SafeInv
<1>1. CASE pc = "retain" /\ arr = p /\ p # Sync
  <2>1. p \in Unscheduled /\ p \notin Leaves
    BY <1>1, TapeClosed DEF InHand, PlacedInv
  <2>2. ASSUME p \in computed PROVE FALSE
    <3>1. PICK s \in Streams : \E j \in 1..pos[s] :
             IsRelease(log[s][j]) /\ p \in Outputs[log[s][j].arr]
      BY <2>1, <2>2 DEF RanInv
    <3>2. PICK j \in 1..pos[s] : IsRelease(log[s][j]) /\ p \in Outputs[log[s][j].arr]
      BY <3>1
    <3>3. j \in 1..Length(s)
      BY <1>0, Places
    <3> QED
      BY <1>1, <2>1, <3>2, <3>3 DEF SafeInv, OnceInv, Released, Releasing
  <2> QED
    BY <2>1, <2>2
<1>2. CASE \E s \in Streams : \E k \in (pos[s] + 1)..Length(s) :
              IsRelease(log[s][k]) /\ log[s][k].arr = p
  <2>1. PICK s \in Streams : \E k \in (pos[s] + 1)..Length(s) :
           IsRelease(log[s][k]) /\ log[s][k].arr = p
    BY <1>2
  <2>2. PICK k \in (pos[s] + 1)..Length(s) : IsRelease(log[s][k]) /\ log[s][k].arr = p
    BY <2>1
  <2>3. k \in 1..Length(s) /\ p \notin Leaves /\ pos[s] \in Nat
    BY <1>0, <2>2, Places DEF RanInv
  <2>4. ASSUME p \in computed PROVE FALSE
    <3>1. PICK r \in Streams : \E j \in 1..pos[r] :
             IsRelease(log[r][j]) /\ p \in Outputs[log[r][j].arr]
      BY <2>3, <2>4 DEF RanInv
    <3>2. PICK j \in 1..pos[r] : IsRelease(log[r][j]) /\ p \in Outputs[log[r][j].arr]
      BY <3>1
    <3>3. j \in 1..Length(r) /\ pos[r] \in Nat
      BY <1>0, Places
    <3>4. r = s /\ j = k
      BY <2>2, <2>3, <3>2, <3>3 DEF SafeInv, OnceInv, EvaluatedOnce
    <3> QED
      BY <2>3, <3>3, <3>4
  <2> QED
    BY <2>3, <2>4
<1> QED
  BY <1>1, <1>2 DEF Flying

-----------------------------------------------------------------------------
(* Whoever runs late has someone who keeps its buffers *)

(* A release that is pending was pending, or has just been appended.        *)
LEMMA FlyingSame ==
    ASSUME TypeInv, log' = log, pos' = pos, pc' = "retain" <=> pc = "retain",
           pc = "retain" => arr' = arr
    PROVE  /\ \A p : Flying(p)' <=> Flying(p)
           /\ (\A e \in Evals : e <= cur => outsOf'[e] = outsOf[e]) /\ SyncInv =>
                 \A p : SyncHolds(p) => SyncHolds(p)'
<1>1. \A p : Flying(p)' <=> Flying(p)
  BY DEF Flying, Length
<1>2. ASSUME \A e \in Evals : e <= cur => outsOf'[e] = outsOf[e], SyncInv,
             NEW p, SyncHolds(p)
      PROVE  SyncHolds(p)'
  <2>1. PICK s \in Streams : \E k \in (pos[s] + 1)..Length(s) :
           IsSyncRelease(log[s][k]) /\ p \in SeqRange(outsOf[log[s][k].eval])
    BY <1>2 DEF SyncHolds
  <2>2. PICK k \in (pos[s] + 1)..Length(s) :
           IsSyncRelease(log[s][k]) /\ p \in SeqRange(outsOf[log[s][k].eval])
    BY <2>1
  <2>3. k \in 1..Length(s)
    BY Places
  <2>4. log[s][k].eval \in Evals /\ log[s][k].eval <= cur
    BY <1>2, <2>2, <2>3 DEF SyncInv
  <2>5. p \in SeqRange(outsOf'[log[s][k].eval])
    BY <1>2, <2>2, <2>4
  <2> QED
    BY <2>2, <2>5 DEF SyncHolds, Length
<1> QED
  BY <1>1, <1>2

LEMMA FlyingAppend ==
    ASSUME TypeInv, NEW kind, NEW t, Appends(kind, t), pos' = pos, outsOf' = outsOf, arr' = arr,
           pc # "retain" \/ kind = "release"
    PROVE  /\ \A p : Flying(p) => Flying(p)'
           /\ \A p : Flying(p)' =>
                 Flying(p) \/ (p = arr /\ arr # Sync /\ (pc' = "retain" \/ kind = "release"))
           /\ \A p : SyncHolds(p) => SyncHolds(p)'
<1>0. t.kind = kind /\ t.arr = arr
  BY DEF Appends
<1>1. PICK s : s = StreamFor(arr)
  OBVIOUS
<1>2. /\ Extended /\ s \in Streams /\ Length(s) \in Nat
      /\ Len(log'[s]) = Length(s) + 1 /\ log'[s][Length(s) + 1] = t
      /\ \A r \in Streams : \A k \in 1..Len(log'[r]) :
            \/ r = s /\ k = Length(r) + 1 /\ log'[r][k] = t
            \/ k \in 1..Length(r) /\ log'[r][k] = log[r][k]
  BY <1>1, AppendsFacts
<1>3. ASSUME NEW r \in Streams
      PROVE  /\ \A k \in (pos[r] + 1)..Length(r) :
                  k \in (pos[r] + 1)..Len(log'[r]) /\ log'[r][k] = log[r][k]
             /\ \A k \in (pos[r] + 1)..Len(log'[r]) :
                  \/ log'[r][k] = t
                  \/ k \in (pos[r] + 1)..Length(r) /\ log'[r][k] = log[r][k]
  <2>1. /\ pos[r] \in Nat /\ Length(r) \in Nat /\ Len(log'[r]) \in Nat
        /\ Length(r) <= Len(log'[r])
    BY <1>2, Places DEF Extended, Length
  <2>2. \A k \in 1..Length(r) : log'[r][k] = log[r][k]
    BY <1>2 DEF Extended
  <2>3. \A k \in 1..Len(log'[r]) : \/ log'[r][k] = t
                                   \/ k \in 1..Length(r) /\ log'[r][k] = log[r][k]
    BY <1>2
  <2> QED
    BY <2>1, <2>2, <2>3
<1>4. Length(s) + 1 \in (pos[s] + 1)..Len(log'[s])
  BY <1>2, Places
<1>5. ASSUME NEW p, Flying(p) PROVE Flying(p)'
  <2>1. CASE pc = "retain" /\ arr = p /\ p # Sync
    BY <1>0, <1>2, <1>4, <2>1 DEF Flying, IsRelease, Length
  <2>2. CASE ~(pc = "retain" /\ arr = p /\ p # Sync)
    BY <1>3, <1>5, <2>2 DEF Flying, Length
  <2> QED
    BY <2>1, <2>2
<1>6. ASSUME NEW p, Flying(p)', ~Flying(p)
      PROVE  p = arr /\ arr # Sync /\ (pc' = "retain" \/ kind = "release")
  <2>1. CASE pc' = "retain" /\ arr' = p /\ p # Sync
    BY <2>1
  <2>2. CASE \E r \in Streams : \E k \in (pos[r] + 1)..Len(log'[r]) :
                IsRelease(log'[r][k]) /\ log'[r][k].arr = p
    <3>1. PICK r \in Streams : \E k \in (pos[r] + 1)..Len(log'[r]) :
             IsRelease(log'[r][k]) /\ log'[r][k].arr = p
      BY <2>2
    <3>2. PICK k \in (pos[r] + 1)..Len(log'[r]) :
             IsRelease(log'[r][k]) /\ log'[r][k].arr = p
      BY <3>1
    <3>3. log'[r][k] = t
      BY <1>3, <1>6, <3>2 DEF Flying
    <3> QED
      BY <1>0, <3>2, <3>3 DEF IsRelease
  <2> QED
    BY <1>6, <2>1, <2>2 DEF Flying, Length
<1>7. \A p : SyncHolds(p) => SyncHolds(p)'
  BY <1>3 DEF SyncHolds, Length
<1> QED
  BY <1>5, <1>6, <1>7

(* Arrays whose outputs are computed need nothing any more. *)
LEMMA ReleaseNeeded ==
    ASSUME SafeInv, PlacedInv, RanInv, NEW p \in Arrays, Flying(p), pc \in Releasing,
           arr # Sync, p \in Parents(arr)
    PROVE  \E c \in Arrays : Flying(c) /\ p \in Parents(c)
<1>0. TypeInv /\ QueueInv /\ StatusInv
  BY DEF SafeInv
<1>1. arr \in Arrays /\ arr \in OutputsOf(arr)
  BY TapeClosed, GraphAssumption DEF InHand, OutputsOf
<1> DEFINE s == StreamOf[arr]
<1>2. s \in Streams
  BY <1>1, GraphAssumption
<1>3. ReleasedTo(log, s, Len(log[s]), arr)
  BY <1>0, <1>1 DEF StatusInv, BeingEvaluated, InHand, Queued
<1>4. PICK j \in 1..Length(s) : IsRelease(log[s][j]) /\ arr \in Outputs[log[s][j].arr]
  BY <1>3 DEF ReleasedTo, Length
<1> HIDE DEF s
<1>5. log[s][j].arr \in Arrays
  BY <1>0, <1>2, <1>4, Places DEF IsRelease, Task
<1>6. Parents(log[s][j].arr) = Parents(arr)
  BY <1>4, <1>5, GraphAssumption DEF Parents
<1>7. CASE j \in 1..pos[s]
  <2>1. arr \in computed
    BY <1>0, <1>1, <1>2, <1>4, <1>7 DEF QueueInv, Done, Carries
  <2> QED
    BY <1>0, <2>1, FlyingLate DEF QueueInv, ComputedClosed
<1>8. CASE j \in (pos[s] + 1)..Length(s)
  BY <1>2, <1>4, <1>5, <1>6, <1>8 DEF Flying
<1> QED
  BY <1>0, <1>2, <1>7, <1>8, Places

LEMMA OwnedRun ==
    ASSUME SafeInv, PlacedInv, RanInv, SyncInv, OwnedInv, NEW s \in Streams, Runs(s),
           NEW p \in Arrays, Flying(p)'
    PROVE  Owned(p)'
<1>0. TypeInv /\ QueueInv
  BY DEF SafeInv
<1>1. /\ UNCHANGED <<pc, arr, cur, outs, todo, log, outsOf>> /\ Pending(s)
      /\ pos' = [pos EXCEPT ![s] = @ + 1]
  BY DEF Runs, MemRun, Run
<1>2. /\ pos[s] \in Nat /\ pos'[s] = pos[s] + 1 /\ pos[s] + 1 \in 1..Length(s)
      /\ \A r \in Streams \ {s} : pos'[r] = pos[r]
      /\ \A r \in Streams : \A k \in (pos'[r] + 1)..Length(r) : k \in (pos[r] + 1)..Length(r)
      /\ \A r \in Streams : \A k \in (pos[r] + 1)..Length(r) :
            k \in (pos'[r] + 1)..Length(r) \/ (r = s /\ k = pos[s] + 1)
      /\ (pos[s] + 1) - 1 = pos[s] /\ pos[s] \in Int
  <2>1. /\ pos[s] \in Nat /\ Length(s) \in Nat /\ pos[s] < Length(s)
        /\ pos'[s] = pos[s] + 1 /\ \A r \in Streams \ {s} : pos'[r] = pos[r]
    BY <1>0, <1>1, Places DEF Pending, TypeInv, TypeOK
  <2>2. \A k \in (pos[s] + 1)..Length(s) : k \in (pos'[s] + 1)..Length(s) \/ k = pos[s] + 1
    BY <2>1
  <2>3. \A k \in (pos'[s] + 1)..Length(s) : k \in (pos[s] + 1)..Length(s)
    BY <2>1
  <2>4. pos[s] + 1 \in 1..Length(s) /\ (pos[s] + 1) - 1 = pos[s] /\ pos[s] \in Int
    BY <2>1
  <2> QED
    BY <2>1, <2>2, <2>3, <2>4
<1>3. Flying(p) /\ p \notin computed
  <2>1. Flying(p)
    BY <1>1, <1>2 DEF Flying, Length
  <2> QED
    BY <2>1, FlyingLate
<1>4. SyncInputs' = SyncInputs
  BY <1>1 DEF SyncInputs, Evaluating
<1>5. CASE p \in SeqRange(SyncInputs) \/ \E c \in todo : p \in Parents(c)
  BY <1>1, <1>4, <1>5 DEF Owned
<1>6. ASSUME NEW c \in Arrays, Flying(c), p \in Parents(c) PROVE Owned(p)'
  <2>1. CASE IsRelease(log[s][pos[s] + 1]) /\ log[s][pos[s] + 1].arr = c
    <3>1. Parents(c) \subseteq computed
      BY <1>0, <1>1, <2>1, HeadGuarded DEF HeadTask, UsesInputs, IsRelease
    <3> QED
      BY <1>3, <1>6, <3>1
  <2>2. CASE ~(IsRelease(log[s][pos[s] + 1]) /\ log[s][pos[s] + 1].arr = c)
    <3>1. Flying(c)'
      <4>1. CASE pc = "retain" /\ arr = c /\ c # Sync
        BY <1>1, <4>1 DEF Flying
      <4>2. CASE \E r \in Streams : \E k \in (pos[r] + 1)..Length(r) :
                    IsRelease(log[r][k]) /\ log[r][k].arr = c
        BY <1>1, <1>2, <2>2, <4>2 DEF Flying, Length
      <4> QED
        BY <1>6, <4>1, <4>2 DEF Flying
    <3> QED
      BY <1>6, <3>1 DEF Owned
  <2> QED
    BY <2>1, <2>2
<1>7. CASE SyncHolds(p)
  <2>1. PICK r \in Streams : \E k \in (pos[r] + 1)..Length(r) :
           IsSyncRelease(log[r][k]) /\ p \in SeqRange(outsOf[log[r][k].eval])
    BY <1>7 DEF SyncHolds
  <2>2. PICK k \in (pos[r] + 1)..Length(r) :
           IsSyncRelease(log[r][k]) /\ p \in SeqRange(outsOf[log[r][k].eval])
    BY <2>1
  <2>3. CASE k \in (pos'[r] + 1)..Length(r)
    <3>1. SyncHolds(p)'
      BY <1>1, <2>2, <2>3 DEF SyncHolds, Length
    <3> QED
      BY <3>1 DEF Owned
  <2>4. CASE r = s /\ k = pos[s] + 1
    <3>1. Behind(log, computed, s, pos[s], p)
      BY <1>2, <2>2, <2>4 DEF SyncInv
    <3>2. pos[s] <= pos[s]
      BY <1>2
    <3>3. p \in computed
      BY <1>0, <1>2, <3>1, <3>2, BehindDone DEF QueueInv
    <3> QED
      BY <1>3, <3>3
  <2> QED
    BY <1>2, <2>3, <2>4
<1> QED
  BY <1>3, <1>5, <1>6, <1>7 DEF OwnedInv, Owned

LEMMA OwnedStep ==
    ASSUME SafeInv, BuffersType, PlacedInv, WantedInv, SyncInv, RanInv, OwnedInv,
           Calm \/ Begins \/ Kernels \/ Retains \/ Marks \/ \E s \in Streams : Runs(s)
    PROVE  OwnedInv'
<1>0. TypeInv /\ QueueInv /\ QueueOK
  BY CallerTypes DEF SafeInv
<1>1. ASSUME \A p \in Arrays : Flying(p)' => Flying(p),
             \A p : Flying(p) => Flying(p)', \A p : SyncHolds(p) => SyncHolds(p)',
             SeqRange(SyncInputs) \subseteq SeqRange(SyncInputs)', todo \subseteq todo'
      PROVE  OwnedInv'
  BY <1>1 DEF OwnedInv, Owned
<1>2. CASE Calm
  <2>1. SeqRange(SyncInputs)' = SeqRange(SyncInputs)
    BY <1>0, <1>2, CalmSame DEF SeqRange
  <2> QED
    BY <1>0, <1>1, <1>2, <2>1, CalmSame DEF Calm
<1>3. CASE Begins
  <2>1. /\ log' = log /\ pos' = pos /\ pc = "idle" /\ pc' = "tape"
        /\ outsOf' = [outsOf EXCEPT ![cur + 1] = outs']
    BY <1>3 DEF Begins
  <2>2. \A e \in Evals : e <= cur => outsOf'[e] = outsOf[e]
    BY <1>0, <2>1 DEF BuffersType, Evals, TypeInv, TypeOK
  <2>3. todo = {}
    BY <2>1 DEF WantedInv, EvalPlaces
  <2>4. SeqRange(SyncInputs) = {}
    BY <2>1 DEF SyncInputs, Evaluating, SeqRange
  <2>5. /\ \A p : Flying(p)' <=> Flying(p)
        /\ \A p : SyncHolds(p) => SyncHolds(p)'
    BY <1>0, <2>1, <2>2, FlyingSame
  <2> QED
    BY <1>1, <2>3, <2>4, <2>5
<1>4. CASE Kernels
  <2>1. /\ pc = "inputs" /\ pc' = "retain"
        /\ UNCHANGED <<arr, cur, outs, todo, pos, outsOf>>
    BY <1>4 DEF Kernels
  <2>2. SyncInputs = outs /\ SyncInputs' = outs
    BY <2>1 DEF SyncInputs, Evaluating
  <2>3. /\ \A p : Flying(p) => Flying(p)'
        /\ \A p : Flying(p)' => Flying(p) \/ (p = arr /\ arr # Sync)
        /\ \A p : SyncHolds(p) => SyncHolds(p)'
    <3>1. CASE UNCHANGED log
      BY <2>1, <3>1 DEF Flying, SyncHolds, Length
    <3>2. ASSUME NEW t, Appends("kernel", t)
          PROVE  /\ \A p : Flying(p) => Flying(p)'
                 /\ \A p : Flying(p)' => Flying(p) \/ (p = arr /\ arr # Sync)
                 /\ \A p : SyncHolds(p) => SyncHolds(p)'
      BY <1>0, <2>1, <3>2, FlyingAppend
    <3> QED
      BY <1>4, <3>1, <3>2 DEF Kernels
  <2>4. arr # Sync => arr \in SeqRange(outs) \/ \E c \in todo : arr \in Parents(c)
    BY <2>1 DEF WantedInv, InHand
  <2>5. SeqRange(SyncInputs) = SeqRange(outs) /\ SeqRange(SyncInputs)' = SeqRange(outs)
    BY <2>2 DEF SeqRange
  <2> QED
    BY <2>1, <2>3, <2>4, <2>5 DEF OwnedInv, Owned
<1>5. CASE Retains
  <2>0. PICK t : Appends("release", t)
    BY <1>5 DEF Retains
  <2>1. /\ pc = "retain" /\ pc' = "check"
        /\ UNCHANGED <<arr, cur, outs, todo, pos, outsOf>>
    BY <1>5 DEF Retains
  <2>2. /\ \A p : Flying(p) => Flying(p)'
        /\ \A p : Flying(p)' => Flying(p) \/ (p = arr /\ arr # Sync)
        /\ \A p : SyncHolds(p) => SyncHolds(p)'
    BY <1>0, <2>0, <2>1, FlyingAppend
  <2>3. arr # Sync => Flying(arr)
    BY <2>1 DEF Flying
  <2>4. SyncInputs = outs /\ SyncInputs' = outs
    BY <2>1 DEF SyncInputs, Evaluating
  <2>5. SeqRange(SyncInputs)' = SeqRange(SyncInputs)
    BY <2>1, <2>4 DEF SeqRange
  <2> QED
    BY <1>1, <2>1, <2>2, <2>3, <2>5
<1>6. CASE Marks
  <2>1. /\ pc \in Releasing /\ pc' = "fence" /\ todo' = todo \ OutputsOf(arr)
        /\ UNCHANGED <<arr, cur, outs, log, pos, computed, outsOf>>
    BY <1>6 DEF Marks
  <2>2. /\ \A p : Flying(p)' <=> Flying(p)
        /\ \A p : SyncHolds(p) => SyncHolds(p)'
    BY <1>0, <2>1, FlyingSame DEF Releasing
  <2>3. SyncInputs = outs /\ (arr # Sync => SyncInputs' = outs)
    BY <2>1 DEF SyncInputs, Evaluating, Releasing
  <2>4. CASE arr # Sync
    <3>1. todo' = todo \ Outputs[arr] /\ arr \in Arrays
      BY <2>1, <2>4, TapeClosed DEF OutputsOf, InHand
    <3>2. SeqRange(SyncInputs)' = SeqRange(SyncInputs)
      BY <2>3, <2>4 DEF SeqRange
    <3>3. ASSUME NEW p \in Arrays, Flying(p), NEW c \in todo, p \in Parents(c), c \in Outputs[arr]
          PROVE  \E d \in Arrays : Flying(d) /\ p \in Parents(d)
      <4>1. p \in Parents(arr)
        BY <3>1, <3>3, GraphAssumption DEF Parents
      <4> QED
        BY <2>1, <2>4, <3>3, <4>1, ReleaseNeeded
    <3> QED
      BY <2>2, <3>1, <3>2, <3>3 DEF OwnedInv, Owned
  <2>5. CASE arr = Sync
    <3>1. todo = {}
      BY <2>1, <2>5 DEF WantedInv, EvalPlaces, Releasing
    <3>2. ASSUME NEW p \in Arrays, Flying(p), p \in SeqRange(SyncInputs) PROVE SyncHolds(p)
      <4>1. outsOf[cur] = outs
        BY <2>1 DEF SyncInv, EvalPlaces, Releasing
      <4>2. PICK s \in Streams : \E k \in 1..Length(s) :
               IsSyncRelease(log[s][k]) /\ log[s][k].eval = cur
        BY <2>1, <2>5 DEF SyncInv
      <4>3. PICK k \in 1..Length(s) : IsSyncRelease(log[s][k]) /\ log[s][k].eval = cur
        BY <4>2
      <4>4. p \in SeqRange(outsOf[log[s][k].eval])
        BY <2>3, <3>2, <4>1, <4>3
      <4>5. CASE k \in 1..pos[s]
        <5>1. Behind(log, computed, s, k - 1, p)
          BY <4>3, <4>4 DEF SyncInv
        <5>2. k - 1 \in Int /\ pos[s] \in Int /\ k - 1 <= pos[s]
          BY <1>0, <4>5, Places
        <5>3. p \in computed
          BY <1>0, <5>1, <5>2, BehindDone DEF QueueInv
        <5> QED
          BY <3>2, <5>3, FlyingLate
      <4>6. CASE k \in (pos[s] + 1)..Length(s)
        BY <4>3, <4>4, <4>6 DEF SyncHolds
      <4> QED
        BY <1>0, <4>5, <4>6, Places
    <3> QED
      BY <2>2, <3>1, <3>2 DEF OwnedInv, Owned
  <2> QED
    BY <2>4, <2>5
<1>7. ASSUME NEW s \in Streams, Runs(s) PROVE OwnedInv'
  BY <1>7, OwnedRun DEF OwnedInv
<1> QED
  BY <1>2, <1>3, <1>4, <1>5, <1>6, <1>7

-----------------------------------------------------------------------------
(* The invariant holds *)

LEMMA InitOwn == MemInit => OwnInv
<1> SUFFICES ASSUME MemInit PROVE OwnInv
  OBVIOUS
<1>1. SafeInv
  BY InitSafe DEF MemInit
<1>2. /\ pc = "idle" /\ todo = {} /\ computed = Leaves /\ Unscheduled = Arrays \ Leaves
      /\ \A s \in Streams : log[s] = <<>> /\ pos[s] = 0
  BY DEF MemInit, Init, Unscheduled
<1>3. \A s \in Streams : 1..Length(s) = {} /\ (pos[s] + 1)..Length(s) = {} /\ 1..pos[s] = {}
  BY <1>2 DEF Length
<1>4. BuffersType
  <2>1. held \subseteq Arrays
    BY MemoryAssumption DEF MemInit
  <2>2. Cardinality(Leaves) \in Nat /\ Cardinality(Arrays) \in Nat
        /\ Cardinality(Leaves) <= Cardinality(Arrays)
    BY MemoryAssumption, GraphAssumption, FS_Subset, FS_CardinalityType
  <2>3. buf \in [Arrays -> 0..Cardinality(Arrays)]
    BY <2>2 DEF MemInit
  <2> QED
    BY <2>1, <2>3 DEF MemInit, BuffersType
<1>5. PlacedInv
  <2>1. \A a \in Arrays : Placed(a) => a \in Leaves
    BY <1>2 DEF Placed, Releasing
  <2>2. \A a \in Leaves : Parents(a) = {}
    BY GraphAssumption DEF Parents
  <2> QED
    BY <1>2, <2>1, <2>2, GraphAssumption DEF MemInit, PlacedInv
<1>6. WantedInv /\ SyncInv /\ PairedInv /\ RanInv /\ OwnedInv
  <2>1. WantedInv
    BY <1>2 DEF WantedInv, EvalPlaces, InHand, Releasing
  <2>2. SyncInv /\ PairedInv
    BY <1>2, <1>3 DEF SyncInv, PairedInv, EvalPlaces, Releasing
  <2>3. RanInv
    BY <1>2, <1>3 DEF RanInv
  <2>4. OwnedInv
    BY <1>2, <1>3 DEF OwnedInv, Flying
  <2> QED
    BY <2>1, <2>2, <2>3, <2>4
<1> QED
  BY <1>1, <1>4, <1>5, <1>6 DEF OwnInv

LEMMA OwnStep ==
    ASSUME Failing = {}, OwnInv, [MemNext]_<<vars, memVars>>
    PROVE  OwnInv'
<1>1. SafeInv /\ BuffersType /\ PlacedInv /\ WantedInv /\ SyncInv /\ PairedInv /\ RanInv
      /\ OwnedInv
  BY DEF OwnInv
<1>2. [Next]_vars
  BY <1>1, MemSteps DEF BuffersType
<1>3. Calm \/ Begins \/ Kernels \/ Retains \/ Marks \/ \E s \in Streams : Runs(s)
  BY <1>1, StepKinds
<1>4. SafeInv'
  BY <1>1, <1>2, SafeStep
<1> QED
  BY <1>1, <1>3, <1>4, BuffersStep, PlacedStep, WantedStep, SyncStep, PairedStep, RanStep,
     OwnedStep DEF OwnInv

LEMMA OwnCorrect ==
    ASSUME Failing = {}
    PROVE  MemSpec => []OwnInv
<1>1. MemInit => OwnInv
  BY InitOwn
<1>2. OwnInv /\ [MemNext]_<<vars, memVars>> => OwnInv'
  BY OwnStep
<1> QED
  BY <1>1, <1>2, PTL DEF MemSpec

-----------------------------------------------------------------------------
(* Nobody else is given the buffers of a kernel that has yet to run *)

LEMMA NeededHolds ==
    ASSUME TapeInv, NEW R
    PROVE  /\ Needed(R) \subseteq Unscheduled /\ R \cap Unscheduled \subseteq Needed(R)
           /\ \A a \in Needed(R) : /\ Outputs[a] \subseteq Needed(R)
                                   /\ Parents(a) \cap Unscheduled \subseteq Needed(R)
<1> DEFINE closed(T) == /\ R \cap Unscheduled \subseteq T
                        /\ \A a \in T : /\ Outputs[a] \subseteq T
                                        /\ Parents(a) \cap Unscheduled \subseteq T
<1>1. Needed(R) = {a \in Unscheduled : \A T \in SUBSET Unscheduled : closed(T) => a \in T}
  BY DEF Needed
<1>2. ASSUME NEW a \in Needed(R)
      PROVE  Outputs[a] \subseteq Needed(R) /\ Parents(a) \cap Unscheduled \subseteq Needed(R)
  <2>1. a \in Unscheduled /\ \A T \in SUBSET Unscheduled : closed(T) => a \in T
    BY <1>1
  <2>2. Outputs[a] \subseteq Unscheduled
    BY <2>1 DEF TapeInv
  <2>3. ASSUME NEW T \in SUBSET Unscheduled, closed(T)
        PROVE  Outputs[a] \subseteq T /\ Parents(a) \cap Unscheduled \subseteq T
    BY <2>1, <2>3
  <2> QED
    BY <1>1, <2>2, <2>3
<1> QED
  BY <1>1, <1>2

LEMMA NeededGrows ==
    ASSUME NEW R, NEW S, R \subseteq S
    PROVE  Needed(R) \subseteq Needed(S)
BY DEF Needed

(* What some reference reaches. *)
LEMMA LiveFacts ==
    ASSUME SafeInv, WantedInv
    PROVE  /\ held \subseteq Live /\ SeqRange(SyncInputs) \subseteq Live
           /\ \A c \in todo : c \in Live /\ Parents(c) \subseteq Live
           /\ pc = "retain" /\ arr # Sync =>
                 arr \in Live /\ Outputs[arr] \subseteq Live /\ Parents(arr) \subseteq Live
<1> DEFINE R == held \cup SeqRange(SyncInputs) \cup Current
<1>1. R \subseteq Live /\ Needed(R) \subseteq Live
      /\ \A a \in Needed(R) : Parents(a) \subseteq Live
  BY DEF Live
<1>2. TapeInv
  BY DEF SafeInv
<1>3. ASSUME NEW c \in todo PROVE c \in Needed(R)
  <2>1. pc \in EvalPlaces /\ ~(pc \in EvalPlaces \ {"tape"} /\ arr = Sync)
    BY <1>3 DEF WantedInv
  <2>2. pc # "signal"
    BY <1>2, <2>1 DEF TapeInv, EvalPlaces
  <2>3. SyncInputs = outs
    BY <2>1, <2>2 DEF SyncInputs, Evaluating, EvalPlaces
  <2>4. SeqRange(outs) \subseteq R
    BY <2>3
  <2> QED
    BY <1>3, <2>4, NeededGrows DEF WantedInv
<1>4. ASSUME pc = "retain", arr # Sync PROVE arr \in Needed(R) /\ Outputs[arr] \subseteq Needed(R)
  <2>1. arr \in Unscheduled
    BY <1>4, TapeClosed DEF InHand
  <2>2. arr \in R
    BY <1>4 DEF Current, Evaluating
  <2> HIDE DEF R
  <2> QED
    BY <1>2, <2>1, <2>2, NeededHolds
<1> QED
  BY <1>1, <1>3, <1>4

(* What is pending keeps what it retains. *)
LEMMA PendingRelease ==
    ASSUME TypeInv, NEW s \in Streams, NEW k \in (pos[s] + 1)..Length(s),
           log[s][k].kind = "release"
    PROVE  RetainedBy(log[s][k]) \subseteq InUse(Live)
<1>1. <<s, k>> \in PendingOf("release")
  BY DEF PendingOf
<1> HIDE DEF PendingOf
<1>2. <<s, k>>[1] = s /\ <<s, k>>[2] = k
  OBVIOUS
<1>3. RetainedBy(log[s][k]) \subseteq UNION {RetainedBy(log[p[1]][p[2]]) : p \in PendingOf("release")}
  BY <1>1, <1>2
<1> QED
  BY <1>3 DEF InUse

LEMMA LiveInUse ==
    ASSUME NEW x \in Live, buf[x] # NoBuffer
    PROVE  buf[x] \in InUse(Live)
BY DEF InUse

(* What a flying array has besides its own buffer is retained for it.       *)
LEMMA FlyingRetains ==
    ASSUME SafeInv, WantedInv, NEW c \in Arrays, Flying(c),
           NEW x \in Parents(c) \cup Outputs[c], buf[x] # NoBuffer,
           buf[x] # buf[c] \/ (pc = "retain" /\ arr = c /\ c # Sync)
    PROVE  buf[x] \in InUse(Live)
<1>1. CASE pc = "retain" /\ arr = c /\ c # Sync
  BY <1>1, LiveFacts, LiveInUse
<1>2. CASE ~(pc = "retain" /\ arr = c /\ c # Sync)
  <2>1. PICK s \in Streams : \E k \in (pos[s] + 1)..Length(s) :
           IsRelease(log[s][k]) /\ log[s][k].arr = c
    BY <1>2 DEF Flying
  <2>2. PICK k \in (pos[s] + 1)..Length(s) : IsRelease(log[s][k]) /\ log[s][k].arr = c
    BY <2>1
  <2>3. buf[x] \in RetainedBy(log[s][k])
    BY <1>2, <2>2 DEF RetainedBy, Retained, IsRelease
  <2> QED
    BY <2>2, <2>3, PendingRelease DEF SafeInv, IsRelease
<1> QED
  BY <1>1, <1>2

(* The chain of those who refer to each other ends at someone who has the   *)
(* buffer from elsewhere.                                                   *)
LEMMA FlyingOwned ==
    ASSUME OwnInv, NEW q \in Arrays, Flying(q), buf[q] # NoBuffer
    PROVE  buf[q] \in InUse(Live)
<1> SUFFICES ASSUME buf[q] \notin InUse(Live) PROVE FALSE
  OBVIOUS
<1>0. SafeInv /\ WantedInv /\ TypeInv /\ OwnedInv
  BY DEF OwnInv, SafeInv
<1> DEFINE S == {c \in Arrays : Flying(c) /\ buf[c] = buf[q]}
<1>1. S \in (SUBSET Arrays) \ {{}}
  OBVIOUS
<1>2. PICK p \in S : \A c \in S : Parents(c) \cap Outputs[p] = {}
  BY <1>1, MemoryAssumption
<1>3. p \in Arrays /\ Flying(p) /\ buf[p] = buf[q]
  BY <1>2
<1>4. p \in Outputs[p]
  BY <1>3, GraphAssumption
<1>5. CASE p \in SeqRange(SyncInputs) \/ \E c \in todo : p \in Parents(c)
  <2>1. p \in Live
    BY <1>0, <1>5, LiveFacts
  <2> QED
    BY <1>3, <2>1, LiveInUse
<1>6. ASSUME NEW c \in Arrays, Flying(c), p \in Parents(c) PROVE FALSE
  <2>1. c \notin S
    BY <1>2, <1>4, <1>6
  <2>2. buf[c] # buf[p]
    BY <1>3, <1>6, <2>1
  <2> HIDE DEF S
  <2> QED
    BY <1>0, <1>3, <1>6, <2>2, FlyingRetains
<1>7. CASE SyncHolds(p)
  <2>1. PICK s \in Streams : \E k \in (pos[s] + 1)..Length(s) :
           IsSyncRelease(log[s][k]) /\ p \in SeqRange(outsOf[log[s][k].eval])
    BY <1>7 DEF SyncHolds
  <2>2. PICK k \in (pos[s] + 1)..Length(s) :
           IsSyncRelease(log[s][k]) /\ p \in SeqRange(outsOf[log[s][k].eval])
    BY <2>1
  <2>3. buf[p] \in RetainedBy(log[s][k])
    BY <2>2 DEF RetainedBy, IsSyncRelease
  <2> QED
    BY <1>0, <1>3, <2>2, <2>3, PendingRelease DEF IsSyncRelease
<1> HIDE DEF S
<1> QED
  BY <1>0, <1>3, <1>5, <1>6, <1>7 DEF OwnedInv, Owned

(* A kernel on a queue has been given its buffers, and its release is       *)
(* behind it.                                                               *)
LEMMA KernelFlying ==
    ASSUME OwnInv, NEW s \in Streams, NEW k \in (pos[s] + 1)..Length(s),
           log[s][k].kind = "kernel"
    PROVE  /\ log[s][k].arr \in Arrays /\ Flying(log[s][k].arr)
           /\ \A x \in Parents(log[s][k].arr) \cup Outputs[log[s][k].arr] :
                 x \in Arrays /\ Placed(x) /\ buf[x] # NoBuffer
<1>0. SafeInv /\ TypeInv /\ PlacedInv /\ PairedInv
  BY DEF OwnInv, SafeInv
<1>1. k \in 1..Length(s) /\ pos[s] \in Nat
  BY <1>0, Places
<1> DEFINE a == log[s][k].arr
<1>2. a \in Arrays
  <2>1. log[s][k] \in Task /\ a # Sync
    BY <1>0, <1>1, Places DEF PairedInv
  <2> QED
    BY <2>1 DEF Task
<1>3. /\ Flying(a)
      /\ \A b \in Outputs[a] : Placed(b)
  <2>1. CASE k + 1 \in 1..Length(s) /\ IsRelease(log[s][k + 1]) /\ log[s][k + 1].arr = a
    <3>1. k + 1 \in (pos[s] + 1)..Length(s)
      BY <1>1, <2>1
    <3>2. Flying(a)
      BY <2>1, <3>1 DEF Flying
    <3>3. \A b \in Outputs[a] : b \in Unscheduled => pc \in Releasing /\ b \in OutputsOf(arr)
      BY <1>0, <2>1 DEF SafeInv, OnceInv, Released
    <3> HIDE DEF a
    <3> QED
      BY <3>2, <3>3 DEF Placed
  <2>2. CASE pc = "retain" /\ arr = a
    <3> HIDE DEF a
    <3>1. a # Sync
      BY <1>2, BoundAssumption
    <3> QED
      BY <2>2, <3>1 DEF Flying, Placed, OutputsOf
  <2>3. \/ k + 1 \in 1..Length(s) /\ IsRelease(log[s][k + 1]) /\ log[s][k + 1].arr = a
        \/ pc = "retain" /\ arr = a
    BY <1>0, <1>1 DEF PairedInv
  <2> QED
    BY <2>1, <2>2, <2>3
<1> HIDE DEF a
<1>4. /\ a \in Outputs[a] /\ Outputs[a] \subseteq Arrays /\ Parents(a) \subseteq Arrays
  BY <1>2, GraphAssumption DEF Parents
<1>5. \A x \in Parents(a) : Placed(x)
  BY <1>0, <1>2, <1>3, <1>4 DEF PlacedInv, Placed
<1>6. \A x \in Parents(a) \cup Outputs[a] : x \in Arrays /\ Placed(x) /\ buf[x] # NoBuffer
  BY <1>0, <1>3, <1>4, <1>5 DEF PlacedInv
<1> QED
  BY <1>2, <1>3, <1>6 DEF a

LEMMA OwnSafe == OwnInv => KernelsOwnBuffers
<1> SUFFICES ASSUME OwnInv, NEW s \in Streams, NEW k \in (pos[s] + 1)..Length(s),
                    log[s][k].kind = "kernel",
                    NEW x \in Parents(log[s][k].arr) \cup Outputs[log[s][k].arr]
             PROVE  buf[x] \in InUse(Live)
  <2>1. \A p \in PendingOf("kernel") : \E s \in Streams : \E k \in (pos[s] + 1)..Length(s) :
           log[s][k].kind = "kernel" /\ p[1] = s /\ p[2] = k
    BY DEF PendingOf
  <2> QED
    BY <2>1 DEF KernelsOwnBuffers
<1> DEFINE a == log[s][k].arr
<1>1. a \in Arrays /\ Flying(a) /\ buf[x] # NoBuffer /\ buf[a] # NoBuffer
  <2>1. a \in Arrays /\ Flying(a)
    BY KernelFlying
  <2>2. a \in Outputs[a]
    BY <2>1, GraphAssumption
  <2> QED
    BY <2>1, <2>2, KernelFlying
<1>2. x \in Parents(a) \cup Outputs[a]
  OBVIOUS
<1> HIDE DEF a
<1>3. CASE buf[x] = buf[a]
  BY <1>1, <1>3, FlyingOwned
<1>4. CASE buf[x] # buf[a]
  BY <1>1, <1>2, <1>4, FlyingRetains DEF OwnInv
<1> QED
  BY <1>3, <1>4

(* The buffers that a kernel on a queue reads or writes are referred to:    *)
(* whatever is donated, dropped or evaluated next, none of them is freed or *)
(* given to another array before the kernel has run.                        *)
THEOREM KernelsKeepBuffers ==
    ASSUME Failing = {}
    PROVE  MemSpec => []KernelsOwnBuffers
BY OwnCorrect, OwnSafe, PTL

-----------------------------------------------------------------------------
(* Which data a buffer holds *)

(* What w is made from. *)
Below(w) ==
    {a \in Arrays : \A C \in SUBSET Arrays : Parents(w) \subseteq C /\ Closed(C) => a \in C}

(* The kernel for o has run, if o needed one. *)
Written(o) ==
    \/ o \in Leaves
    \/ \E s \in Streams : \E j \in 1..pos[s] :
          log[s][j].kind = "kernel" /\ o \in Outputs[log[s][j].arr]

(* A view has the buffer of the array whose data it shares; kernels are for *)
(* those which share no one's.                                              *)
FamilyInv ==
    /\ \A y \in Arrays : Placed(y) =>
         /\ Origin[y] \in Arrays \ Views /\ Placed(Origin[y]) /\ buf[Origin[y]] = buf[y]
         /\ y \in computed => Origin[y] \in computed
    /\ \A s \in Streams : \A k \in 1..Length(s) :
         log[s][k].kind = "kernel" => log[s][k].arr \notin Views

(* The kernel of w comes after that of o. *)
WrittenBefore(o, w) == Written(o) \/ o \in Below(w)

(* No kernel on a queue reads the data of o after w has been written. *)
ReadBefore(o, w) ==
    \A s \in Streams : \A k \in (pos[s] + 1)..Length(s) : log[s][k].kind = "kernel" =>
        \A y \in Parents(log[s][k].arr) :
            Origin[y] = o => log[s][k].arr \in Outputs[w] \cup Below(w)

(* Only w, which is being evaluated, still refers to y, to be detached.     *)
LastUse(y, w) ==
    /\ pc \in Mid /\ arr = w
    /\ y \notin held /\ y \notin SeqRange(SyncInputs)
    /\ \A c \in Live \cap Unscheduled : y \in Parents(c) => c = w

(* No reference reaches the data of o any more. *)
Forgotten(o, w) ==
    \A y \in Live : Placed(y) /\ Origin[y] = o => LastUse(y, w)

(* w has taken over the buffer of o. *)
Succeeds(w, o) == WrittenBefore(o, w) /\ ReadBefore(o, w) /\ Forgotten(o, w)

(* w and o, which are not siblings, have been given the same buffer. *)
Share(o, w) ==
    /\ {o, w} \cap Views = {} /\ Placed(o) /\ Placed(w)
    /\ buf[o] = buf[w] /\ w \notin Outputs[o]

PairsInv ==
    \A o, w \in Arrays : Share(o, w) => Succeeds(w, o) \/ Succeeds(o, w)

ContentsInv ==
    \A o \in Arrays \ Views : Placed(o) /\ Written(o) =>
        \/ o \in contents[buf[o]]
        \/ \E w \in Arrays : Share(o, w) /\ Written(w) /\ Succeeds(w, o)

-----------------------------------------------------------------------------
(* Origins and what is below *)

(* The definition of Origin has a solution, the last of the views' inputs.  *)
LEMMA OriginOf ==
    \A a \in Arrays : Origin[a] = IF a \in Views THEN Origin[Inputs[a][1]] ELSE a
<1> DEFINE Chased(C) == \A v \in C \cap Views : Inputs[v][1] \in C
           Y(a) == {x \in Arrays : \A C \in SUBSET Arrays : a \in C /\ Chased(C) => x \in C}
           g == [a \in Arrays |-> IF a \in Views THEN CHOOSE o : o \in Y(a) /\ o \notin Views
                                            ELSE a]
<1>1. ASSUME NEW v \in Views PROVE v \in Arrays /\ Inputs[v][1] \in Arrays
  <2>1. v \in Arrays /\ Inputs[v] \in Seq(Arrays) /\ Inputs[v] # <<>>
    BY GraphAssumption, MemoryAssumption
  <2> QED
    BY <2>1
<1>2. ASSUME NEW a \in Arrays PROVE a \in Y(a) /\ Chased(Y(a))
  BY <1>1
<1>3. ASSUME NEW a \in Arrays, NEW C \in SUBSET Arrays, a \in C, Chased(C) PROVE Y(a) \subseteq C
  BY <1>3
<1>4. ASSUME NEW a \in Arrays \ Views PROVE Y(a) = {a}
  <2>1. Chased({a})
    OBVIOUS
  <2>2. Y(a) \subseteq {a}
    BY <2>1, <1>3
  <2> QED
    BY <1>2, <2>2
<1>5. ASSUME NEW v \in Views PROVE Y(v) = {v} \cup Y(Inputs[v][1])
  <2> DEFINE x == Inputs[v][1]
  <2>1. v \in Arrays /\ x \in Arrays
    BY <1>1
  <2>2. x \in Y(x) /\ Chased(Y(x)) /\ Y(x) \subseteq Arrays
    BY <1>2, <2>1
  <2> DEFINE D == {v} \cup Y(x)
  <2>3. Chased(D) /\ D \in SUBSET Arrays /\ v \in D
    BY <2>1, <2>2
  <2> HIDE DEF D
  <2>4. Y(v) \subseteq D
    BY <1>3, <2>1, <2>3
  <2>5. v \in Y(v) /\ Chased(Y(v)) /\ Y(v) \subseteq Arrays
    BY <1>2, <2>1
  <2>6. x \in Y(v)
    BY <2>5
  <2>7. Y(x) \subseteq Y(v)
    BY <1>3, <2>1, <2>5, <2>6
  <2> QED
    BY <2>4, <2>5, <2>7 DEF D
<1> HIDE DEF Y
<1>6. ASSUME NEW v \in Views PROVE g[v] = g[Inputs[v][1]]
  <2> DEFINE x == Inputs[v][1]
  <2>1. v \in Arrays /\ x \in Arrays
    BY <1>1
  <2>2. g[v] = CHOOSE o : o \in Y(v) /\ o \notin Views
    BY <2>1
  <2>3. CASE x \in Views
    <3>1. g[x] = CHOOSE o : o \in Y(x) /\ o \notin Views
      BY <2>1, <2>3
    <3>2. \A o : (o \in Y(v) /\ o \notin Views) <=> (o \in Y(x) /\ o \notin Views)
      BY <1>5
    <3>3. (CHOOSE o : o \in Y(v) /\ o \notin Views) = (CHOOSE o : o \in Y(x) /\ o \notin Views)
      BY <3>2
    <3> QED
      BY <2>2, <3>1, <3>3
  <2>4. CASE x \notin Views
    <3>1. Y(v) = {v, x}
      BY <1>4, <1>5, <2>1, <2>4
    <3>2. \A o : (o \in Y(v) /\ o \notin Views) <=> o = x
      BY <2>4, <3>1
    <3>3. (CHOOSE o : o \in Y(v) /\ o \notin Views) = x
      BY <3>2
    <3>4. g[x] = x
      BY <2>1, <2>4
    <3> QED
      BY <2>2, <3>3, <3>4
  <2> QED
    BY <2>3, <2>4
<1>7. g = [a \in Arrays |-> IF a \in Views THEN g[Inputs[a][1]] ELSE a]
  BY <1>6
<1> HIDE DEF g
<1>8. \E f : f = [a \in Arrays |-> IF a \in Views THEN f[Inputs[a][1]] ELSE a]
  BY <1>7
<1>9. Origin = [a \in Arrays |-> IF a \in Views THEN Origin[Inputs[a][1]] ELSE a]
  BY <1>8, Zenon DEF Origin
<1> QED
  BY <1>9

LEMMA BelowFacts ==
    ASSUME NEW w \in Arrays
    PROVE  /\ Below(w) \subseteq Arrays /\ Parents(w) \subseteq Below(w) /\ Closed(Below(w))
           /\ \A C \in SUBSET Arrays : Parents(w) \subseteq C /\ Closed(C) => Below(w) \subseteq C
           /\ \A q \in Outputs[w] : Below(q) = Below(w)
<1>1. Parents(w) \subseteq Arrays /\ \A a \in Arrays : Parents(a) \subseteq Arrays /\ Outputs[a] \subseteq Arrays
  BY GraphAssumption DEF Parents
<1>2. Parents(w) \subseteq Below(w)
  BY <1>1 DEF Below
<1>3. ASSUME NEW a \in Below(w)
      PROVE  Parents(a) \subseteq Below(w) /\ Outputs[a] \subseteq Below(w)
  BY <1>1 DEF Below, Closed
<1>4. ASSUME NEW q \in Outputs[w] PROVE Below(q) = Below(w)
  <2>1. Parents(q) = Parents(w)
    BY GraphAssumption DEF Parents
  <2> QED
    BY <2>1 DEF Below
<1>5. Below(w) \subseteq Arrays
  BY DEF Below
<1>6. \A C \in SUBSET Arrays : Parents(w) \subseteq C /\ Closed(C) => Below(w) \subseteq C
  BY DEF Below
<1> QED
  BY <1>2, <1>3, <1>4, <1>5, <1>6 DEF Closed

LEMMA ComputedBelow ==
    ASSUME SafeInv, NEW w \in Arrays, Parents(w) \subseteq computed
    PROVE  Below(w) \subseteq computed
<1>1. computed \subseteq Arrays /\ Closed(computed)
  BY DEF SafeInv, TypeInv, TypeOK, QueueInv, ComputedClosed, Closed
<1> QED
  BY <1>1, BelowFacts

(* A kernel that has run has found what is below it computed. *)
LEMMA RanBelow ==
    ASSUME SafeInv, PairedInv, NEW s \in Streams, NEW j \in 1..pos[s],
           log[s][j].kind = "kernel"
    PROVE  /\ log[s][j].arr \in Arrays
           /\ \A w \in Outputs[log[s][j].arr] : w \in Arrays /\ Below(w) \subseteq computed
<1>0. TypeInv /\ QueueInv
  BY DEF SafeInv
<1>1. j \in 1..Length(s) /\ log[s][j] \in Task /\ pos[s] \in Nat
  BY <1>0, Places
<1> DEFINE a == log[s][j].arr
<1>2. a \in Arrays
  BY <1>1, BoundAssumption DEF PairedInv, Task
<1>3. Parents(a) \subseteq computed
  <2>1. \A p \in Parents(a) : Behind(log, computed, s, j - 1, p)
    BY <1>0, <1>1, <1>2, BoundAssumption DEF QueueInv, Guarded, UsesInputs
  <2>2. j - 1 \in Int /\ pos[s] \in Int /\ j - 1 <= pos[s]
    BY <1>1
  <2>3. Parents(a) \subseteq Arrays
    BY <1>2, GraphAssumption DEF Parents
  <2> HIDE DEF a
  <2> QED
    BY <1>0, <2>1, <2>2, <2>3, BehindDone DEF QueueInv
<1> HIDE DEF a
<1>4. ASSUME NEW w \in Outputs[a] PROVE w \in Arrays /\ Below(w) \subseteq computed
  <2>1. Below(a) \subseteq computed
    BY <1>2, <1>3, ComputedBelow
  <2>2. w \in Arrays /\ Below(w) = Below(a)
    BY <1>2, GraphAssumption, BelowFacts
  <2> QED
    BY <2>1, <2>2
<1> QED
  BY <1>2, <1>4 DEF a

LEMMA WrittenBelow ==
    ASSUME SafeInv, PairedInv, NEW w \in Arrays, Written(w)
    PROVE  Below(w) \subseteq computed
<1>1. CASE w \in Leaves
  <2>1. Parents(w) = {}
    BY <1>1, GraphAssumption DEF Parents
  <2> QED
    BY <2>1, ComputedBelow
<1>2. CASE w \notin Leaves
  BY <1>2, RanBelow DEF Written
<1> QED
  BY <1>1, <1>2

(* A kernel comes once: when one for w is on a queue, none has run. *)
LEMMA PendingUnwritten ==
    ASSUME OwnInv, NEW s \in Streams, NEW k \in (pos[s] + 1)..Length(s),
           log[s][k].kind = "kernel", NEW w \in Outputs[log[s][k].arr]
    PROVE  ~Written(w) /\ w \in Arrays /\ w \notin computed
<1>0. SafeInv /\ PairedInv /\ TypeInv /\ PlacedInv /\ RanInv /\ OnceInv
  BY DEF OwnInv, SafeInv
<1> DEFINE a == log[s][k].arr
<1>1. a \in Arrays /\ Flying(a) /\ a \notin computed /\ a \notin Leaves
  BY <1>0, KernelFlying, FlyingLate
<1>2. /\ k \in 1..Length(s) /\ pos[s] \in Nat
      /\ \/ k + 1 \in 1..Length(s) /\ IsRelease(log[s][k + 1]) /\ log[s][k + 1].arr = a
         \/ k = Length(s) /\ pc = "retain" /\ arr = a /\ s = StreamFor(arr)
  BY <1>0, Places DEF PairedInv
<1>3. w \in Arrays /\ Outputs[w] = Outputs[a] /\ w \notin Leaves
  BY <1>1, GraphAssumption
<1> HIDE DEF a
<1>4. w \notin computed
  BY <1>0, <1>1, <1>3, GraphAssumption DEF SafeInv, QueueInv, ComputedClosed
<1>5. ASSUME NEW r \in Streams, NEW j \in 1..pos[r], log[r][j].kind = "kernel",
             w \in Outputs[log[r][j].arr]
      PROVE  FALSE
  <2> DEFINE q == log[r][j].arr
  <2>1. q \in Arrays
    BY <1>0, <1>5, RanBelow
  <2>2. /\ j \in 1..Length(r) /\ pos[r] \in Nat
        /\ \/ j + 1 \in 1..Length(r) /\ IsRelease(log[r][j + 1]) /\ log[r][j + 1].arr = q
           \/ j = Length(r) /\ pc = "retain" /\ arr = q /\ r = StreamFor(arr)
    BY <1>0, <1>5, Places DEF PairedInv
  <2>3. a \in Outputs[q] /\ q \in Outputs[a]
    <3>1. Outputs[w] = Outputs[q]
      BY <1>5, <2>1, GraphAssumption
    <3>2. q \in Outputs[q] /\ a \in Outputs[a]
      BY <1>1, <2>1, GraphAssumption
    <3> HIDE DEF q
    <3> QED
      BY <1>3, <3>1, <3>2
  <2> HIDE DEF q
  <2>4. CASE /\ j + 1 \in 1..Length(r) /\ IsRelease(log[r][j + 1]) /\ log[r][j + 1].arr = q
             /\ k + 1 \in 1..Length(s) /\ IsRelease(log[s][k + 1]) /\ log[s][k + 1].arr = a
    <3>1. r = s /\ j + 1 = k + 1
      BY <1>0, <2>3, <2>4 DEF OnceInv, EvaluatedOnce
    <3> QED
      BY <1>2, <2>2, <3>1
  <2>5. CASE /\ j + 1 \in 1..Length(r) /\ IsRelease(log[r][j + 1]) /\ log[r][j + 1].arr = q
             /\ pc = "retain" /\ arr = a
    <3>1. a \in Unscheduled
      BY <1>0, <1>1, <2>5, BoundAssumption, TapeClosed DEF InHand
    <3> QED
      BY <1>0, <2>3, <2>5, <3>1 DEF OnceInv, Released, Releasing
  <2>6. CASE /\ k + 1 \in 1..Length(s) /\ IsRelease(log[s][k + 1]) /\ log[s][k + 1].arr = a
             /\ pc = "retain" /\ arr = q
    <3>1. q \in Unscheduled
      BY <1>0, <2>1, <2>6, BoundAssumption, TapeClosed DEF InHand
    <3> QED
      BY <1>0, <2>3, <2>6, <3>1 DEF OnceInv, Released, Releasing
  <2>7. CASE j = Length(r) /\ r = StreamFor(arr) /\ k = Length(s) /\ s = StreamFor(arr)
    BY <1>2, <2>2, <2>7
  <2> QED
    BY <1>2, <2>2, <2>4, <2>5, <2>6, <2>7
<1> QED
  BY <1>3, <1>4, <1>5 DEF Written

(* The kernel before a release that has been queued. *)
LEMMA ReleaseKernel ==
    ASSUME OwnInv, FamilyInv, NEW s \in Streams, NEW k \in 1..Length(s), IsRelease(log[s][k]),
           NEW o \in Outputs[log[s][k].arr], o \notin Views
    PROVE  /\ k - 1 \in 1..Length(s) /\ log[s][k - 1].kind = "kernel"
           /\ o \in Outputs[log[s][k - 1].arr]
<1>1. TypeInv /\ PairedInv
  BY DEF OwnInv, SafeInv
<1>2. log[s][k].arr \in Arrays
  BY <1>1, Places DEF IsRelease, Task
<1>3. log[s][k].arr \notin Views
  BY <1>2, MemoryAssumption
<1> QED
  BY <1>1, <1>3 DEF PairedInv

LEMMA ComputedWritten ==
    ASSUME OwnInv, FamilyInv, NEW o \in Arrays \ Views, o \in computed
    PROVE  Written(o)
<1>1. CASE o \in Leaves
  BY <1>1 DEF Written
<1>2. CASE o \notin Leaves
  <2>1. PICK s \in Streams : \E j \in 1..pos[s] :
           IsRelease(log[s][j]) /\ o \in Outputs[log[s][j].arr]
    BY <1>2 DEF OwnInv, RanInv
  <2>2. PICK j \in 1..pos[s] : IsRelease(log[s][j]) /\ o \in Outputs[log[s][j].arr]
    BY <2>1
  <2>3. j \in 1..Length(s) /\ pos[s] \in Nat
    BY Places DEF OwnInv, SafeInv
  <2>4. /\ j - 1 \in 1..Length(s) /\ log[s][j - 1].kind = "kernel"
        /\ o \in Outputs[log[s][j - 1].arr]
    BY <2>2, <2>3, ReleaseKernel
  <2>5. j - 1 \in 1..pos[s]
    BY <2>3, <2>4
  <2> QED
    BY <2>4, <2>5 DEF Written
<1> QED
  BY <1>1, <1>2

(* What has a buffer of its own has its kernel on a queue, or behind it.    *)
LEMMA PlacedKernel ==
    ASSUME OwnInv, FamilyInv, NEW o \in Arrays \ Views, Placed(o), ~Written(o)
    PROVE  \E s \in Streams : \E k \in (pos[s] + 1)..Length(s) :
              log[s][k].kind = "kernel" /\ o \in Outputs[log[s][k].arr]
<1>0. TypeInv /\ SafeInv /\ PairedInv /\ StatusInv
  BY DEF OwnInv, SafeInv
<1>1. o \notin computed /\ o \notin Leaves
  BY ComputedWritten DEF Written
<1>2. SUFFICES \E s \in Streams : \E k \in 1..Length(s) :
                  log[s][k].kind = "kernel" /\ o \in Outputs[log[s][k].arr]
  <2>1. PICK s \in Streams : \E k \in 1..Length(s) :
           log[s][k].kind = "kernel" /\ o \in Outputs[log[s][k].arr]
    BY <1>2
  <2>2. PICK k \in 1..Length(s) : log[s][k].kind = "kernel" /\ o \in Outputs[log[s][k].arr]
    BY <2>1
  <2>3. k \notin 1..pos[s]
    BY <2>2 DEF Written
  <2> QED
    BY <1>0, <2>2, <2>3, Places
<1>3. StreamOf[o] \in Streams
  BY GraphAssumption
<1>4. CASE Queued(log, o)
  <2>1. PICK j \in 1..Length(StreamOf[o]) :
           IsRelease(log[StreamOf[o]][j]) /\ o \in Outputs[log[StreamOf[o]][j].arr]
    BY <1>4 DEF Queued, ReleasedTo, Length
  <2> QED
    BY <1>3, <2>1, ReleaseKernel
<1>5. CASE pc = "retain" /\ o \in OutputsOf(arr)
  <2>1. arr # Sync /\ o \in Outputs[arr] /\ arr \in Arrays
    BY <1>0, <1>5 DEF OutputsOf, TypeInv, TypeOK
  <2>2. arr \notin Views
    BY <2>1, MemoryAssumption
  <2>3. StreamFor(arr) \in Streams
    BY <1>0, CallerTypes
  <2> QED
    BY <1>0, <1>5, <2>1, <2>2, <2>3 DEF PairedInv
<1>6. CASE pc \in Releasing /\ o \in OutputsOf(arr)
  BY <1>0, <1>4, <1>6 DEF StatusInv, BeingEvaluated, InHand
<1>7. CASE o \notin Unscheduled
  <2>1. status[o] = "evaluated"
    BY <1>0, <1>1, <1>7 DEF StatusInv, Unscheduled, TypeInv, TypeOK
  <2> QED
    BY <1>0, <1>4, <2>1 DEF StatusInv
<1> QED
  BY <1>5, <1>6, <1>7 DEF Placed

-----------------------------------------------------------------------------
(* References are never gained *)

Roots == held \cup SeqRange(SyncInputs) \cup Current

LEMMA LiveIs ==
    Live = Roots \cup Needed(Roots) \cup UNION {Parents(a) : a \in Needed(Roots)}
BY DEF Live, Roots

(* What c, live and not evaluated, was made from is live. *)
LEMMA LiveParents ==
    ASSUME SafeInv, NEW c \in Live, c \in Unscheduled
    PROVE  c \in Needed(Roots) /\ Parents(c) \subseteq Live /\ Outputs[c] \subseteq Live
<1>1. c \in Needed(Roots)
  BY LiveIs, NeededHolds DEF SafeInv
<1> QED
  BY <1>1, LiveIs, NeededHolds DEF SafeInv

LEMMA LiveShrinks ==
    ASSUME TapeInv, TapeInv', Unscheduled' \subseteq Unscheduled,
           Roots' \subseteq Roots \cup Needed(Roots)
    PROVE  Live' \subseteq Live
<1> DEFINE U == Unscheduled'
           T == Needed(Roots) \cap U
<1>1. /\ Needed(Roots) \subseteq Unscheduled /\ Roots \cap Unscheduled \subseteq Needed(Roots)
      /\ \A a \in Needed(Roots) : /\ Outputs[a] \subseteq Needed(Roots)
                                  /\ Parents(a) \cap Unscheduled \subseteq Needed(Roots)
  BY NeededHolds
<1>2. Roots' \cap U \subseteq T
  BY <1>1
<1>3. \A a \in T : Outputs[a] \subseteq T /\ Parents(a) \cap U \subseteq T
  BY <1>1 DEF TapeInv
<1>4. T \in SUBSET U
  OBVIOUS
<1>5. Needed(Roots)' \subseteq T
  BY <1>2, <1>3, <1>4 DEF Needed
<1>6. Live' = Roots' \cup Needed(Roots)' \cup UNION {Parents(a) : a \in Needed(Roots)'}
  BY DEF Live, Roots
<1> QED
  BY <1>5, <1>6, LiveIs

LEMMA RootsSame ==
    ASSUME UNCHANGED <<arr, outs, held>>, pc \in InHand,
           pc' \in InHand \/ (pc' = "fence" /\ arr # Sync)
    PROVE  Roots' = Roots /\ SyncInputs' = SyncInputs
BY DEF Roots, SyncInputs, Current, Evaluating, InHand, Releasing, SeqRange

LEMMA RootsStep ==
    ASSUME SafeInv, BuffersType, WantedInv,
           Calm \/ Begins \/ Kernels \/ Retains \/ Marks \/ \E s \in Streams : Runs(s)
    PROVE  Roots' \subseteq Roots \cup Needed(Roots)
<1>0. TypeInv
  BY DEF SafeInv
<1>1. CASE Calm
  <2>1. SyncInputs' = SyncInputs /\ SeqRange(SyncInputs)' = SeqRange(SyncInputs)
    BY <1>0, <1>1, CalmSame DEF SeqRange
  <2>2. Current' \subseteq Current \cup Needed(Roots)
    <3>1. CASE pc = "tape" /\ pc' = "inputs" /\ arr' \in todo
      <4>1. SyncInputs = outs
        BY <3>1 DEF SyncInputs, Evaluating
      <4>2. arr' \in Needed(SeqRange(outs)) /\ SeqRange(outs) \subseteq Roots
        BY <3>1, <4>1 DEF WantedInv, Roots
      <4>3. arr' \in Needed(Roots)
        BY <4>2, NeededGrows
      <4> QED
        BY <4>3 DEF Current
    <3>2. CASE pc = "tape" /\ pc' = "inputs" /\ arr' = Sync
      BY <3>2 DEF Current
    <3>3. CASE arr' = arr /\ (pc' = pc \/ {pc, pc'} \subseteq Releasing)
      BY <3>3 DEF Current, Evaluating, Releasing
    <3>4. CASE pc' \in {"signal", "tape", "idle", "wait"}
      BY <3>4 DEF Current, Evaluating
    <3> QED
      BY <1>1, <3>1, <3>2, <3>3, <3>4 DEF Calm
  <2> QED
    BY <1>1, <2>1, <2>2 DEF Roots, Calm
<1>2. CASE Begins
  <2>1. /\ pc' = "tape" /\ held' = held /\ SeqRange(outs') \subseteq held
    BY <1>2 DEF Begins
  <2>2. SyncInputs' = outs' /\ Current' = {}
    BY <2>1 DEF SyncInputs, Current, Evaluating
  <2>3. SeqRange(SyncInputs)' \subseteq held
    BY <2>1, <2>2 DEF SeqRange
  <2> QED
    BY <2>1, <2>2, <2>3 DEF Roots
<1>3. CASE Kernels \/ Retains \/ (Marks /\ arr # Sync)
  BY <1>3, RootsSame DEF Kernels, Retains, Marks, InHand, Releasing
<1>4. CASE Marks /\ arr = Sync
  <2>1. pc' = "fence" /\ arr' = Sync /\ held' = held
    BY <1>4 DEF Marks
  <2>2. SeqRange(SyncInputs)' = {} /\ Current' = {}
    BY <2>1 DEF SyncInputs, Current, SeqRange, Evaluating
  <2> QED
    BY <2>1, <2>2 DEF Roots
<1>5. CASE \E s \in Streams : Runs(s)
  BY <1>5 DEF Runs, Roots, SyncInputs, Current, Evaluating, SeqRange
<1> QED
  BY <1>1, <1>2, <1>3, <1>4, <1>5

LEMMA UnscheduledShrinks ==
    ASSUME Calm \/ Begins \/ Kernels \/ Retains \/ Marks \/ \E s \in Streams : Runs(s)
    PROVE  Unscheduled' \subseteq Unscheduled
BY DEF Calm, Begins, Kernels, Retains, Marks, Runs

LEMMA LiveStep ==
    ASSUME SafeInv, SafeInv', BuffersType, WantedInv,
           Calm \/ Begins \/ Kernels \/ Retains \/ Marks \/ \E s \in Streams : Runs(s)
    PROVE  Live' \subseteq Live
BY LiveShrinks, RootsStep, UnscheduledShrinks DEF SafeInv

-----------------------------------------------------------------------------
(* Views and their origins *)

(* What a step places. *)
NewlyPlaced == IF Kernels THEN OutputsOf(arr) ELSE {}

LEMMA PlacedWhen ==
    ASSUME SafeInv,
           Calm \/ Begins \/ Kernels \/ Retains \/ Marks \/ \E s \in Streams : Runs(s)
    PROVE  /\ \A a \in Arrays : Placed(a)' <=> Placed(a) \/ a \in NewlyPlaced
           /\ ~Kernels => buf' = buf
           /\ Kernels => /\ \A a \in Arrays : Placed(a) <=> a \notin Unscheduled
                         /\ \A a \in NewlyPlaced : ~Placed(a)
<1>0. TypeInv
  BY DEF SafeInv
<1>1. ~Kernels => buf' = buf
  BY DEF Calm, Begins, Retains, Marks, Runs
<1>2. Kernels => /\ \A a \in Arrays : Placed(a) <=> a \notin Unscheduled
                 /\ \A a \in NewlyPlaced : ~Placed(a)
  <2> SUFFICES ASSUME Kernels
               PROVE  /\ \A a \in Arrays : Placed(a) <=> a \notin Unscheduled
                      /\ \A a \in NewlyPlaced : ~Placed(a)
    OBVIOUS
  <2>1. pc = "inputs"
    BY DEF Kernels
  <2>2. \A a \in Arrays : Placed(a) <=> a \notin Unscheduled
    BY <2>1 DEF Placed, Releasing
  <2>3. \A a \in NewlyPlaced : a \in Unscheduled /\ a \in Arrays
    BY <2>1, TapeClosed DEF NewlyPlaced, OutputsOf, InHand, SafeInv, TapeInv, Unscheduled
  <2> QED
    BY <2>2, <2>3
<1>3. CASE Kernels
  <2>1. pc = "inputs" /\ pc' = "retain" /\ arr' = arr /\ Unscheduled' = Unscheduled
    BY <1>3 DEF Kernels
  <2>2. OutputsOf(arr)' = OutputsOf(arr)
    BY <2>1 DEF OutputsOf
  <2>3. \A a \in Arrays : Placed(a)' <=> Placed(a) \/ a \in NewlyPlaced
    BY <1>3, <2>1, <2>2 DEF Placed, NewlyPlaced, Releasing
  <2> QED
    BY <1>1, <1>2, <2>3
<1>4. CASE ~Kernels
  <2>1. \A a \in Arrays : Placed(a)' <=> Placed(a)
    <3>1. CASE Calm
      BY <1>0, <3>1, CalmSame
    <3>2. CASE Begins
      BY <3>2 DEF Begins, Placed, Releasing
    <3>3. CASE Retains
      <4>1. OutputsOf(arr)' = OutputsOf(arr)
        BY <3>3 DEF Retains, OutputsOf
      <4> QED
        BY <3>3, <4>1 DEF Retains, Placed, Releasing
    <3>4. CASE Marks
      BY <3>4 DEF Marks, Placed, Releasing
    <3>5. CASE \E s \in Streams : Runs(s)
      <4>1. OutputsOf(arr)' = OutputsOf(arr) /\ UNCHANGED pc /\ Unscheduled' = Unscheduled
        BY <3>5 DEF Runs, OutputsOf
      <4> QED
        BY <4>1 DEF Placed
    <3> QED
      BY <1>4, <3>1, <3>2, <3>3, <3>4, <3>5
  <2> QED
    BY <1>1, <1>2, <1>4, <2>1 DEF NewlyPlaced
<1> QED
  BY <1>3, <1>4

LEMMA BuffersStay ==
    ASSUME SafeInv, BuffersType,
           Calm \/ Begins \/ Kernels \/ Retains \/ Marks \/ \E s \in Streams : Runs(s)
    PROVE  \A a \in Arrays : Placed(a) => Placed(a)' /\ buf'[a] = buf[a]
<1>1. CASE Kernels
  <2>1. \A a \in Arrays : Placed(a) => Placed(a)' /\ a \notin OutputsOf(arr)
    BY <1>1, PlacedWhen DEF NewlyPlaced
  <2>2. \A a \in Arrays : a \notin OutputsOf(arr) => buf'[a] = buf[a]
    BY <1>1 DEF Kernels, OutputsOf
  <2> QED
    BY <2>1, <2>2
<1>2. CASE ~Kernels
  BY <1>2, PlacedWhen
<1> QED
  BY <1>1, <1>2

LEMMA KernelsStay ==
    ASSUME TypeInv,
           Calm \/ Begins \/ Kernels \/ Retains \/ Marks \/ \E s \in Streams : Runs(s)
    PROVE  /\ Extended
           /\ \A s \in Streams : \A k \in 1..Len(log'[s]) : log'[s][k].kind = "kernel" =>
                 \/ k \in 1..Length(s) /\ log'[s][k] = log[s][k]
                 \/ /\ Kernels /\ arr # Sync /\ arr \notin Views
                    /\ s = StreamFor(arr) /\ k = Length(s) + 1 /\ log'[s][k].arr = arr
<1>0. QueueOK
  BY CallerTypes
<1>1. CASE Calm
  BY <1>1 DEF Calm, NoWork
<1>2. CASE Begins \/ Marks \/ \E s \in Streams : Runs(s)
  <2>1. UNCHANGED log
    BY <1>2 DEF Begins, Marks, Runs
  <2> QED
    BY <1>0, <2>1, NoWorkSame DEF NoWork
<1>3. CASE Kernels
  <2>1. CASE arr = Sync \/ arr \in Views
    <3>1. UNCHANGED log
      BY <1>3, <2>1 DEF Kernels
    <3> QED
      BY <1>0, <3>1, NoWorkSame DEF NoWork
  <2>2. CASE ~(arr = Sync \/ arr \in Views)
    <3>1. PICK t : Appends("kernel", t)
      BY <1>3, <2>2 DEF Kernels
    <3>2. t.arr = arr
      BY <3>1 DEF Appends
    <3>3. PICK s : s = StreamFor(arr)
      OBVIOUS
    <3>4. /\ Extended
          /\ \A r \in Streams : \A k \in 1..Len(log'[r]) :
                \/ r = s /\ k = Length(r) + 1 /\ log'[r][k] = t
                \/ k \in 1..Length(r) /\ log'[r][k] = log[r][k]
      BY <3>1, <3>3, AppendsFacts
    <3> QED
      BY <1>3, <2>2, <3>2, <3>3, <3>4
  <2> QED
    BY <2>1, <2>2
<1>4. CASE Retains
  <2>1. PICK t : Appends("release", t)
    BY <1>4 DEF Retains
  <2>2. t.kind = "release"
    BY <2>1 DEF Appends
  <2>3. PICK s : s = StreamFor(arr)
    OBVIOUS
  <2> QED
    BY <2>1, <2>2, <2>3, AppendsFacts
<1> QED
  BY <1>1, <1>2, <1>3, <1>4

(* A view refers to an input that has been given its buffer. *)
LEMMA ViewInput ==
    ASSUME NEW v \in Views
    PROVE  /\ v \in Arrays /\ Inputs[v][1] \in Parents(v) /\ Origin[v] = Origin[Inputs[v][1]]
           /\ Outputs[v] \subseteq Views
<1>1. v \in Arrays /\ Inputs[v] \in Seq(Arrays) /\ Inputs[v] # <<>>
  BY GraphAssumption, MemoryAssumption
<1>2. 1 \in DOMAIN Inputs[v]
  BY <1>1
<1>3. Inputs[v][1] \in Parents(v)
  BY <1>2 DEF Parents
<1> QED
  BY <1>1, <1>3, OriginOf, MemoryAssumption

LEMMA FamilyStep ==
    ASSUME OwnInv, FamilyInv,
           Calm \/ Begins \/ Kernels \/ Retains \/ Marks \/ \E s \in Streams : Runs(s)
    PROVE  FamilyInv'
<1>0. SafeInv /\ TypeInv /\ BuffersType /\ PlacedInv /\ QueueInv
  BY DEF OwnInv, SafeInv
<1>1. \A s \in Streams : \A k \in 1..Len(log'[s]) :
         log'[s][k].kind = "kernel" => log'[s][k].arr \notin Views
  BY <1>0, KernelsStay DEF FamilyInv
<1>2. ASSUME NEW y \in Arrays, Placed(y)
      PROVE  /\ Origin[y] \in Arrays \ Views /\ Placed(Origin[y])'
             /\ buf'[Origin[y]] = buf'[y]
  BY <1>0, <1>2, BuffersStay DEF FamilyInv
<1>3. ASSUME NEW y \in Arrays, y \notin Views
      PROVE  Origin[y] = y
  BY <1>3, OriginOf
<1>4. ASSUME NEW y \in Arrays, Placed(y)', ~Placed(y)
      PROVE  /\ Origin[y] \in Arrays \ Views /\ Placed(Origin[y])'
             /\ buf'[Origin[y]] = buf'[y]
             /\ y \in computed => Origin[y] \in computed
  <2>1. CASE y \notin Views
    BY <1>3, <1>4, <2>1
  <2>2. CASE y \in Views
    <3>1. Kernels /\ y \in OutputsOf(arr)
      BY <1>0, <1>4, PlacedWhen DEF NewlyPlaced
    <3>2. arr # Sync /\ y \in Outputs[arr] /\ pc = "inputs"
      BY <3>1 DEF OutputsOf, Kernels
    <3>3. arr \in Arrays /\ \A x \in Parents(arr) : x \in Arrays /\ x \notin Unscheduled
      BY <1>0, <3>2, InputsBefore DEF SafeInv
    <3>4. Inputs[y] = Inputs[arr] /\ Outputs[y] = Outputs[arr] /\ arr \in Outputs[arr]
      BY <3>2, <3>3, GraphAssumption
    <3>5. arr \in Views
      BY <2>2, <3>4, ViewInput
    <3>6. PICK f \in Placements(arr) :
             buf' = [a \in Arrays |-> IF a \in Outputs[arr] THEN f[a] ELSE buf[a]]
      BY <3>1, <3>2 DEF Kernels
    <3>7. f = [o \in Outputs[arr] |-> buf[Inputs[arr][1]]]
      BY <3>5, <3>6 DEF Placements
    <3> DEFINE x == Inputs[y][1]
    <3>8. x \in Parents(y) /\ Origin[y] = Origin[x] /\ Parents(y) = Parents(arr)
      BY <2>2, <3>4, ViewInput DEF Parents
    <3>9. x \in Arrays /\ Placed(x)
      BY <3>3, <3>8 DEF Placed
    <3>10. buf'[y] = buf[x]
      BY <3>2, <3>4, <3>6, <3>7
    <3>11. y \in computed => x \in computed
      BY <1>0, <3>8 DEF QueueInv, ComputedClosed
    <3> HIDE DEF x
    <3>12. /\ Origin[x] \in Arrays \ Views /\ Placed(Origin[x]) /\ buf[Origin[x]] = buf[x]
           /\ x \in computed => Origin[x] \in computed
      BY <3>9 DEF FamilyInv
    <3> QED
      BY <1>0, <3>8, <3>10, <3>11, <3>12, BuffersStay
  <2> QED
    BY <2>1, <2>2
<1>5. ASSUME NEW y \in Arrays, Placed(y)', y \in computed'
      PROVE  Origin[y] \in computed'
  <2>1. CASE computed' = computed
    BY <1>4, <1>5, <2>1 DEF FamilyInv
  <2>2. ASSUME NEW s \in Streams, Runs(s) PROVE Origin[y] \in computed'
    <3>1. /\ computed' = IF HeadTask(s).kind = "release"
                         THEN computed \cup OutputsOf(HeadTask(s).arr) ELSE computed
          /\ Pending(s)
      BY <2>2 DEF Runs, MemRun, Run
    <3>2. ~Kernels
      BY <2>2 DEF Runs, Kernels
    <3>3. Placed(y)
      BY <1>0, <1>5, <3>2, PlacedWhen DEF NewlyPlaced
    <3>4. CASE y \in computed
      BY <3>1, <3>3, <3>4 DEF FamilyInv
    <3>5. CASE y \notin Views
      BY <1>3, <1>5, <3>5
    <3>6. CASE y \notin computed /\ y \in Views
      <4>1. UsesInputs(HeadTask(s)) /\ y \in Outputs[HeadTask(s).arr]
        BY <1>5, <3>1, <3>6 DEF UsesInputs, OutputsOf
      <4>2. HeadTask(s).arr \in Arrays
        <5>1. pos[s] + 1 \in 1..Length(s)
          BY <1>0, <3>1, Places DEF Pending
        <5> QED
          BY <1>0, <4>1, <5>1, Places DEF UsesInputs, Task, HeadTask
      <4>3. Parents(y) = Parents(HeadTask(s).arr)
        BY <4>1, <4>2, GraphAssumption DEF Parents
      <4>4. Parents(y) \subseteq computed
        BY <1>0, <3>1, <4>1, <4>3, HeadGuarded
      <4>5. PICK x \in Parents(y) : Origin[y] = Origin[x]
        BY <3>6, ViewInput
      <4>6. x \in Arrays /\ Placed(x)
        BY <1>0, <3>3, <4>5, GraphAssumption DEF PlacedInv, Placed, Parents
      <4>7. Origin[x] \in computed
        BY <4>4, <4>5, <4>6 DEF FamilyInv
      <4> QED
        BY <3>1, <4>5, <4>7
    <3> QED
      BY <3>4, <3>5, <3>6
  <2> QED
    BY <2>1, <2>2 DEF Calm, Begins, Kernels, Retains, Marks
<1> QED
  BY <1>1, <1>2, <1>4, <1>5 DEF FamilyInv, Length

-----------------------------------------------------------------------------
(* What is_donatable tells *)

LEMMA FiniteFamily ==
    ASSUME NEW S, IsFiniteSet(S), NEW g, \A s \in S : IsFiniteSet(g[s])
    PROVE  IsFiniteSet(UNION {g[s] : s \in S})
<1> DEFINE T == {g[s] : s \in S}
           f == [s \in S |-> g[s]]
<1>1. f \in Surjection(S, T)
  BY DEF Surjection
<1>2. IsFiniteSet(T)
  BY <1>1, FS_Surjection
<1> QED
  BY <1>2, FS_UNION

(* A set counted as none is empty, one counted as one has one element.      *)
LEMMA OneInAll ==
    ASSUME NEW A, NEW B, NEW C, IsFiniteSet(A), IsFiniteSet(B), IsFiniteSet(C), C # {},
           Cardinality(A) + Cardinality(B) + Cardinality(C) = 1
    PROVE  A = {} /\ B = {} /\ \A x, y \in C : x = y
<1>1. Cardinality(A) \in Nat /\ Cardinality(B) \in Nat /\ Cardinality(C) \in Nat
  BY FS_CardinalityType
<1>2. Cardinality(C) # 0
  BY FS_EmptySet
<1>3. Cardinality(A) = 0 /\ Cardinality(B) = 0 /\ Cardinality(C) = 1
  BY <1>1, <1>2
<1>4. \E x : C = {x}
  BY <1>3, FS_Singleton
<1>5. A = {} /\ B = {}
  BY <1>3, FS_EmptySet
<1> QED
  BY <1>4, <1>5

LEMMA LiveArrays ==
    ASSUME TypeInv, BuffersType, TapeInv
    PROVE  Live \subseteq Arrays /\ IsFiniteSet(Live)
<1>1. Needed(Roots) \subseteq Arrays
  BY NeededHolds DEF Unscheduled
<1>2. SeqRange(SyncInputs) \subseteq Arrays
  <2>1. SyncInputs \in Seq(Arrays)
    BY DEF SyncInputs, TypeInv, TypeOK
  <2> QED
    BY <2>1 DEF SeqRange
<1>3. Current \subseteq Arrays
  BY DEF Current, TypeInv, TypeOK
<1>4. \A a \in Needed(Roots) : Parents(a) \subseteq Arrays
  BY <1>1, GraphAssumption DEF Parents
<1>5. Live \subseteq Arrays
  BY <1>1, <1>2, <1>3, <1>4, LiveIs DEF Roots, BuffersType
<1> QED
  BY <1>5, MemoryAssumption, FS_Subset

UsersOf(L, x) ==
    UNION {{<<c, i>> : i \in {j \in DOMAIN Inputs[c] : Inputs[c][j] = x}} : c \in L \cap Unscheduled}

LEMMA DescRefsOne ==
    ASSUME SafeInv, BuffersType, NEW x, DescRefs(Live, x) = 1,
           NEW c \in Live \cap Unscheduled, x \in Parents(c)
    PROVE  /\ x \notin held /\ x \notin SeqRange(SyncInputs)
           /\ \A d \in Live \cap Unscheduled : x \in Parents(d) => d = c
<1>0. TypeInv /\ TapeInv
  BY DEF SafeInv
<1> DEFINE A == {i \in DOMAIN SyncInputs : SyncInputs[i] = x}
           B == {h \in held : h = x}
           L == Live \cap Unscheduled
           g == [d \in L |-> {<<d, i>> : i \in {j \in DOMAIN Inputs[d] : Inputs[d][j] = x}}]
           C == UsersOf(Live, x)
<1>1. IsFiniteSet(A)
  <2>1. SyncInputs \in Seq(Arrays)
    BY <1>0 DEF SyncInputs, TypeInv, TypeOK
  <2>2. A \in SUBSET (1..Len(SyncInputs)) /\ Len(SyncInputs) \in Int /\ 1 \in Int
    BY <2>1
  <2> QED
    BY <2>2, FS_Interval, FS_Subset
<1>2. IsFiniteSet(B)
  <2>1. B \in SUBSET {x}
    OBVIOUS
  <2> QED
    BY <2>1, FS_Singleton, FS_Subset
<1>3. L \subseteq Arrays /\ IsFiniteSet(L)
  BY <1>0, LiveArrays, MemoryAssumption, FS_Intersection
<1>4. ASSUME NEW d \in L PROVE IsFiniteSet(g[d])
  <2>1. d \in Arrays /\ Inputs[d] \in Seq(Arrays)
    BY <1>3, GraphAssumption
  <2>2. g[d] \in SUBSET ({d} \X (1..Len(Inputs[d])))
    BY <2>1
  <2>3. Len(Inputs[d]) \in Int /\ 1 \in Int
    BY <2>1
  <2>4. IsFiniteSet(1..Len(Inputs[d])) /\ IsFiniteSet({d})
    BY <2>3, FS_Interval, FS_Singleton
  <2>5. IsFiniteSet({d} \X (1..Len(Inputs[d])))
    BY <2>4, FS_Product
  <2> QED
    BY <2>2, <2>5, FS_Subset
<1>5. C = UNION {g[d] : d \in L}
  BY DEF UsersOf
<1>6. IsFiniteSet(C)
  <2> HIDE DEF g, L, C
  <2>1. IsFiniteSet(UNION {g[d] : d \in L})
    BY <1>3, <1>4, FiniteFamily
  <2> QED
    BY <1>5, <2>1
<1>7. ASSUME NEW d \in L, x \in Parents(d) PROVE \E i : <<d, i>> \in C
  <2>1. PICK i \in DOMAIN Inputs[d] : Inputs[d][i] = x
    BY <1>7 DEF Parents
  <2>2. <<d, i>> \in C
    BY <2>1 DEF UsersOf
  <2> QED
    BY <2>2
<1>8. Cardinality(A) + Cardinality(B) + Cardinality(C) = 1
  BY DEF DescRefs, Occurrences, UsersOf
<1>9. C # {}
  BY <1>7
<1> HIDE DEF C
<1>10. A = {} /\ B = {} /\ \A p, q \in C : p = q
  BY <1>1, <1>2, <1>6, <1>8, <1>9, OneInAll
<1>11. ASSUME NEW d \in L, x \in Parents(d) PROVE d = c
  <2>1. PICK i : <<d, i>> \in C
    BY <1>7, <1>11
  <2>2. PICK j : <<c, j>> \in C
    BY <1>7
  <2>3. <<d, i>> = <<c, j>>
    BY <1>10, <2>1, <2>2
  <2> QED
    BY <2>3
<1> QED
  BY <1>10, <1>11 DEF SeqRange

LEMMA DataRefsOne ==
    ASSUME SafeInv, BuffersType, NEW y \in Live, DataRefs(Live, buf[y]) = 1
    PROVE  /\ \A a \in Live : buf[a] = buf[y] => a = y
           /\ Retainers(buf[y]) = {}
<1>0. TypeInv /\ TapeInv
  BY DEF SafeInv
<1> DEFINE S == SharingAmong(Live, buf[y])
           R == Retainers(buf[y])
           g == [s \in Streams |->
                   {<<s, k>> : k \in {j \in (pos[s] + 1)..Length(s) : log[s][j].kind = "release"}}]
<1>1. S \in SUBSET Live /\ IsFiniteSet(S) /\ y \in S
  BY <1>0, LiveArrays, FS_Subset DEF SharingAmong
<1>2. ASSUME NEW s \in Streams PROVE IsFiniteSet(g[s])
  <2>1. g[s] \in SUBSET ({s} \X ((pos[s] + 1)..Length(s)))
    OBVIOUS
  <2>2. pos[s] + 1 \in Int /\ Length(s) \in Int
    BY <1>0, Places
  <2>3. IsFiniteSet((pos[s] + 1)..Length(s)) /\ IsFiniteSet({s})
    BY <2>2, FS_Interval, FS_Singleton
  <2>4. IsFiniteSet({s} \X ((pos[s] + 1)..Length(s)))
    BY <2>3, FS_Product
  <2> QED
    BY <2>1, <2>4, FS_Subset
<1>3. PendingOf("release") = UNION {g[s] : s \in Streams}
  BY DEF PendingOf
<1>4. IsFiniteSet(PendingOf("release"))
  <2> HIDE DEF g
  <2>1. IsFiniteSet(UNION {g[s] : s \in Streams})
    BY <1>2, FiniteFamily, MemoryAssumption
  <2> QED
    BY <1>3, <2>1
<1>5. IsFiniteSet(R)
  BY <1>4, FS_Subset DEF Retainers
<1>6. Cardinality(S) + Cardinality(R) = 1
  BY DEF DataRefs
<1>7. Cardinality({}) + Cardinality(R) + Cardinality(S) = 1
  BY <1>1, <1>5, <1>6, FS_EmptySet, FS_CardinalityType
<1> HIDE DEF S, R
<1>8. R = {} /\ \A a, b \in S : a = b
  BY <1>1, <1>5, <1>7, OneInAll, FS_EmptySet
<1> QED
  BY <1>1, <1>8 DEF S, R, SharingAmong

LEMMA RetainerOf ==
    ASSUME NEW s \in Streams, NEW k \in (pos[s] + 1)..Length(s), log[s][k].kind = "release",
           NEW b, b \in RetainedBy(log[s][k])
    PROVE  Retainers(b) # {}
<1>1. <<s, k>> \in PendingOf("release")
  BY DEF PendingOf
<1> HIDE DEF PendingOf
<1>2. <<s, k>>[1] = s /\ <<s, k>>[2] = k
  OBVIOUS
<1> QED
  BY <1>1, <1>2 DEF Retainers

(* Before eval_cpu, a buffer of c that no release task holds is c's own.    *)
LEMMA OwnBuffer ==
    ASSUME pc = "inputs", NEW c \in Arrays, Flying(c), NEW x \in Parents(c) \cup Outputs[c],
           Retainers(buf[x]) = {}
    PROVE  buf[c] = buf[x]
<1> SUFFICES ASSUME buf[c] # buf[x] PROVE FALSE
  OBVIOUS
<1>1. PICK s \in Streams : \E k \in (pos[s] + 1)..Length(s) :
         IsRelease(log[s][k]) /\ log[s][k].arr = c
  BY DEF Flying
<1>2. PICK k \in (pos[s] + 1)..Length(s) : IsRelease(log[s][k]) /\ log[s][k].arr = c
  BY <1>1
<1>3. buf[x] \in RetainedBy(log[s][k])
  BY <1>2 DEF RetainedBy, Retained, IsRelease
<1> QED
  BY <1>2, <1>3, RetainerOf DEF IsRelease

(* The input y that the current array may write over: nobody else refers to *)
(* it, or to its buffer.                                                    *)
LEMMA DonatedUse ==
    ASSUME OwnInv, pc = "inputs", arr \in Arrays, NEW y \in Parents(arr), Donatable(Live, y)
    PROVE  /\ y \in Live /\ y \notin held /\ y \notin SeqRange(SyncInputs)
           /\ \A c \in Live \cap Unscheduled : y \in Parents(c) => c = arr
           /\ \A a \in Live : buf[a] = buf[y] => a = y
           /\ Retainers(buf[y]) = {} /\ Outputs[arr] = {arr}
<1>0. SafeInv /\ BuffersType /\ arr # Sync
  BY BoundAssumption DEF OwnInv
<1>1. arr \in Live \cap Unscheduled
  <2>1. arr \in Unscheduled
    BY <1>0, TapeClosed DEF InHand
  <2>2. arr \in Roots
    BY <1>0 DEF Roots, Current, Evaluating
  <2> QED
    BY <2>1, <2>2, LiveIs
<1>2. y \in Live /\ Outputs[arr] \subseteq Live \cap Unscheduled
  BY <1>0, <1>1, LiveParents, TapeClosed DEF InHand, SafeInv, TapeInv
<1>3. DescRefs(Live, y) = 1 /\ DataRefs(Live, buf[y]) = 1
  BY DEF Donatable
<1>4. /\ y \notin held /\ y \notin SeqRange(SyncInputs)
      /\ \A c \in Live \cap Unscheduled : y \in Parents(c) => c = arr
  BY <1>0, <1>1, <1>3, DescRefsOne
<1>5. \A q \in Outputs[arr] : y \in Parents(q)
  BY GraphAssumption DEF Parents
<1>6. Outputs[arr] = {arr}
  BY <1>2, <1>4, <1>5, GraphAssumption
<1>7. /\ \A a \in Live : buf[a] = buf[y] => a = y
      /\ Retainers(buf[y]) = {}
  BY <1>0, <1>2, <1>3, DataRefsOne
<1> QED
  BY <1>2, <1>4, <1>6, <1>7

(* What has yet to be computed in the buffer of y is what the current array *)
(* is made from.                                                            *)
LEMMA FlyingBelow ==
    ASSUME OwnInv, pc = "inputs", arr \in Arrays, NEW y \in Parents(arr), Donatable(Live, y),
           NEW q \in Arrays, Flying(q), buf[q] = buf[y]
    PROVE  q \in Below(arr)
<1> SUFFICES ASSUME q \notin Below(arr) PROVE FALSE
  OBVIOUS
<1>0. SafeInv /\ WantedInv /\ OwnedInv
  BY DEF OwnInv
<1>1. /\ Retainers(buf[y]) = {} /\ y \notin SeqRange(SyncInputs)
      /\ \A a \in Live : buf[a] = buf[y] => a = y
  BY DonatedUse
<1>2. y \in Below(arr) /\ Closed(Below(arr))
  BY BelowFacts
<1> DEFINE S == {c \in Arrays : Flying(c) /\ buf[c] = buf[y] /\ c \notin Below(arr)}
<1>3. S \in (SUBSET Arrays) \ {{}}
  OBVIOUS
<1>4. PICK p \in S : \A c \in S : Parents(c) \cap Outputs[p] = {}
  BY <1>3, MemoryAssumption
<1>5. p \in Arrays /\ Flying(p) /\ buf[p] = buf[y] /\ p \notin Below(arr) /\ p \in Outputs[p]
  BY <1>4, GraphAssumption
<1>6. p \notin Live
  BY <1>1, <1>2, <1>5
<1>7. ~(p \in SeqRange(SyncInputs) \/ \E c \in todo : p \in Parents(c))
  BY <1>0, <1>6, LiveFacts
<1>8. ASSUME NEW c \in Arrays, Flying(c), p \in Parents(c) PROVE FALSE
  <2>1. buf[c] = buf[y]
    <3> HIDE DEF S
    <3> QED
      BY <1>1, <1>5, <1>8, OwnBuffer
  <2>2. c \notin S
    BY <1>4, <1>5, <1>8
  <2>3. c \in Below(arr)
    BY <1>8, <2>1, <2>2
  <2> QED
    BY <1>2, <1>5, <1>8, <2>3 DEF Closed
<1>9. ~SyncHolds(p)
  <2> SUFFICES ASSUME NEW s \in Streams, NEW k \in (pos[s] + 1)..Length(s),
                      IsSyncRelease(log[s][k]), p \in SeqRange(outsOf[log[s][k].eval])
               PROVE  FALSE
    BY DEF SyncHolds
  <2>1. buf[p] \in RetainedBy(log[s][k])
    BY DEF RetainedBy, IsSyncRelease
  <2> HIDE DEF S
  <2> QED
    BY <1>1, <1>5, <2>1, RetainerOf DEF IsSyncRelease
<1> HIDE DEF S
<1> QED
  BY <1>0, <1>5, <1>7, <1>8, <1>9 DEF OwnedInv, Owned

-----------------------------------------------------------------------------
(* What is on a queue, and what has run *)

(* What a worker runs. *)
LEMMA RunFacts ==
    ASSUME TypeInv, NEW s \in Streams, Runs(s)
    PROVE  /\ pos[s] + 1 \in (pos[s] + 1)..Length(s) /\ pos[s] + 1 \in 1..Length(s)
           /\ HeadTask(s) = log[s][pos[s] + 1] /\ pos'[s] = pos[s] + 1 /\ log' = log
           /\ \A r \in Streams \ {s} : pos'[r] = pos[r]
<1>1. Pending(s) /\ pos' = [pos EXCEPT ![s] = @ + 1] /\ log' = log
  BY DEF Runs, MemRun, Run
<1>2. pos \in [Streams -> Nat] /\ Length(s) \in Nat
  BY Places DEF TypeInv, TypeOK
<1> QED
  BY <1>1, <1>2 DEF Pending, HeadTask

LEMMA PositionsStay ==
    ASSUME TypeInv,
           Calm \/ Begins \/ Kernels \/ Retains \/ Marks \/ \E s \in Streams : Runs(s)
    PROVE  /\ \A s \in Streams : pos[s] \in Nat /\ pos'[s] \in Nat /\ pos[s] <= pos'[s]
           /\ (\A s \in Streams : ~Runs(s)) => pos' = pos
<1>1. CASE \E s \in Streams : Runs(s)
  <2>1. PICK s \in Streams : Runs(s)
    BY <1>1
  <2>2. \A r \in Streams : pos[r] \in Nat
    BY DEF TypeInv, TypeOK
  <2>3. pos'[s] = pos[s] + 1 /\ \A r \in Streams \ {s} : pos'[r] = pos[r]
    BY <2>1, RunFacts
  <2>4. ASSUME NEW r \in Streams PROVE pos[r] \in Nat /\ pos'[r] \in Nat /\ pos[r] <= pos'[r]
    <3>1. CASE r = s
      BY <2>2, <2>3, <3>1
    <3>2. CASE r # s
      <4>1. pos'[r] = pos[r] /\ pos[r] \in Nat
        BY <2>2, <2>3, <3>2
      <4> QED
        BY <4>1
    <3> QED
      BY <3>1, <3>2
  <2> QED
    BY <2>1, <2>4
<1>2. CASE ~\E s \in Streams : Runs(s)
  <2>1. pos' = pos
    BY <1>2 DEF Calm, Begins, Kernels, Retains, Marks
  <2> QED
    BY <2>1 DEF TypeInv, TypeOK
<1> QED
  BY <1>1, <1>2

LEMMA WrittenStays ==
    ASSUME TypeInv,
           Calm \/ Begins \/ Kernels \/ Retains \/ Marks \/ \E s \in Streams : Runs(s)
    PROVE  \A o : Written(o) => Written(o)'
<1> SUFFICES ASSUME NEW o, NEW s \in Streams, NEW j \in 1..pos[s], log[s][j].kind = "kernel",
                    o \in Outputs[log[s][j].arr]
             PROVE  Written(o)'
  BY DEF Written
<1>1. j \in 1..Length(s) /\ j \in 1..pos'[s]
  BY Places, PositionsStay
<1>2. log'[s][j] = log[s][j]
  BY <1>1, KernelsStay DEF Extended
<1> QED
  BY <1>1, <1>2 DEF Written

(* What was on a queue before the step is on it or has run after it. *)
LEMMA PendingStays ==
    ASSUME TypeInv, TypeInv',
           Calm \/ Begins \/ Kernels \/ Retains \/ Marks \/ \E s \in Streams : Runs(s),
           NEW s \in Streams, NEW k \in (pos'[s] + 1)..Len(log'[s]), log'[s][k].kind = "kernel"
    PROVE  \/ k \in (pos[s] + 1)..Length(s) /\ log'[s][k] = log[s][k]
           \/ Kernels /\ arr # Sync /\ arr \notin Views /\ log'[s][k].arr = arr
<1>1. /\ Length(s) \in Nat /\ pos[s] \in Nat /\ pos'[s] \in Nat /\ pos[s] <= pos'[s]
  BY Places, PositionsStay
<1>2. Len(log'[s]) \in Nat
  <2>1. log'[s] \in Seq(Task)
    BY DEF TypeInv, TypeOK
  <2> QED
    BY <2>1
<1>3. k \in 1..Len(log'[s])
  BY <1>1, <1>2
<1>4. \/ k \in 1..Length(s) /\ log'[s][k] = log[s][k]
      \/ Kernels /\ arr # Sync /\ arr \notin Views /\ log'[s][k].arr = arr
  BY <1>3, KernelsStay
<1> QED
  BY <1>1, <1>4

-----------------------------------------------------------------------------
(* An array that is given a buffer succeeds those that have had it *)

LEMMA KernelBuffers ==
    ASSUME OwnInv, NEW s \in Streams, NEW k \in (pos[s] + 1)..Length(s),
           log[s][k].kind = "kernel",
           NEW x \in Parents(log[s][k].arr) \cup Outputs[log[s][k].arr]
    PROVE  buf[x] \in InUse(Live)
<1>1. <<s, k>> \in PendingOf("kernel")
  BY DEF PendingOf
<1> HIDE DEF PendingOf
<1>2. <<s, k>>[1] = s /\ <<s, k>>[2] = k
  OBVIOUS
<1>3. {buf[z] : z \in Parents(log[s][k].arr) \cup Outputs[log[s][k].arr]} \subseteq InUse(Live)
  BY <1>1, <1>2, OwnSafe DEF KernelsOwnBuffers
<1> QED
  BY <1>3

(* The buffer of an output that is no view: nobody's, or donated. *)
LEMMA TakenBuffer ==
    ASSUME Kernels, arr # Sync, arr \notin Views, NEW w \in Outputs[arr], w \in Arrays
    PROVE  \/ buf'[w] \notin InUse(Live)
           \/ \E y \in Parents(arr) : Donatable(Live, y) /\ buf'[w] = buf[y]
<1>1. PICK f \in Placements(arr) :
         buf' = [a \in Arrays |-> IF a \in Outputs[arr] THEN f[a] ELSE buf[a]]
  BY DEF Kernels
<1>2. buf'[w] = f[w]
  BY <1>1
<1> DEFINE D == {buf[x] : x \in {y \in Parents(arr) : arr \in InPlace /\ Donatable(Live, y)}}
<1>3. f \in [Outputs[arr] -> D \cup (Buffers \ InUse(Live))]
  BY <1>1 DEF Placements
<1>4. f[w] \in D \cup (Buffers \ InUse(Live))
  BY <1>3
<1> QED
  BY <1>2, <1>4

(* The kernels that read the data of o have the buffer of o among theirs.   *)
LEMMA KernelOf ==
    ASSUME OwnInv, FamilyInv, NEW s \in Streams, NEW k \in (pos[s] + 1)..Length(s),
           log[s][k].kind = "kernel", NEW x \in Parents(log[s][k].arr) \cup Outputs[log[s][k].arr]
    PROVE  /\ log[s][k].arr \in Arrays /\ Flying(log[s][k].arr) /\ x \in Arrays /\ Placed(x)
           /\ buf[x] = buf[Origin[x]]
BY KernelFlying DEF FamilyInv

(* What is left, after eval_cpu of the current array, of what refers to the *)
(* data of o. *)
LEMMA StillRefers ==
    ASSUME OwnInv, FamilyInv, Kernels, NEW o \in Arrays, Placed(o), NEW y \in Arrays,
           Placed(y)', Origin[y] = o, arr \notin Views
    PROVE  Placed(y)
<1>1. CASE Placed(y)
  BY <1>1
<1>2. CASE ~Placed(y)
  <2>1. y \in OutputsOf(arr)
    BY <1>2, PlacedWhen DEF NewlyPlaced, OwnInv
  <2>2. arr \in Arrays /\ y \in Outputs[arr]
    BY <2>1 DEF OutputsOf, OwnInv, SafeInv, TypeInv, TypeOK
  <2>3. arr \in Outputs[y]
    BY <2>2, GraphAssumption
  <2>4. y \notin Views
    BY <2>3, ViewInput
  <2> QED
    BY <1>2, <2>4, OriginOf
<1> QED
  BY <1>1, <1>2

LEMMA NewSucceeds ==
    ASSUME OwnInv, FamilyInv, SafeInv', Kernels, arr \in Arrays \ Views, NEW w \in Outputs[arr],
           NEW o \in Arrays \ Views, Placed(o), buf[o] = buf'[w]
    PROVE  Succeeds(w, o)'
<1>0. SafeInv /\ TypeInv /\ BuffersType /\ WantedInv /\ PlacedInv /\ arr # Sync
  BY BoundAssumption DEF OwnInv, SafeInv
<1>1. /\ pc = "inputs" /\ pc' = "retain" /\ Unscheduled' = Unscheduled
      /\ UNCHANGED <<arr, outs, pos, held>>
  BY DEF Kernels
<1>2. Live' \subseteq Live /\ SyncInputs' = SyncInputs /\ Live \subseteq Arrays
  BY <1>0, <1>1, LiveStep, RootsSame, LiveArrays DEF InHand, SafeInv
<1>3. w \in Arrays /\ arr \in Outputs[w] /\ Below(w) = Below(arr)
  BY <1>0, GraphAssumption, BelowFacts
<1>4. \A s \in Streams : \A k \in (pos'[s] + 1)..Len(log'[s]) : log'[s][k].kind = "kernel" =>
         \/ k \in (pos[s] + 1)..Length(s) /\ log'[s][k] = log[s][k]
         \/ log'[s][k].arr = arr
  BY <1>0, PendingStays DEF SafeInv
<1>5. Written(o) => Written(o)'
  BY <1>0, WrittenStays
<1>6. ASSUME NEW y \in Live', Placed(y)', Origin[y] = o
      PROVE  y \in Live /\ buf[y] = buf[o]
  <2>1. y \in Arrays /\ Placed(y)
    BY <1>2, <1>6, StillRefers
  <2> QED
    BY <1>2, <1>6, <2>1 DEF FamilyInv
<1>7. CASE buf'[w] \notin InUse(Live)
  <2>1. Written(o)
    <3> SUFFICES ASSUME ~Written(o) PROVE FALSE
      OBVIOUS
    <3>1. PICK s \in Streams : \E k \in (pos[s] + 1)..Length(s) :
             log[s][k].kind = "kernel" /\ o \in Outputs[log[s][k].arr]
      BY PlacedKernel
    <3> QED
      BY <1>7, <3>1, KernelBuffers
  <2>2. ASSUME NEW s \in Streams, NEW k \in (pos'[s] + 1)..Len(log'[s]),
               log'[s][k].kind = "kernel", NEW y \in Parents(log'[s][k].arr), Origin[y] = o
        PROVE  log'[s][k].arr = arr
    BY <1>4, <1>7, <2>2, KernelOf, KernelBuffers
  <2>3. ASSUME NEW y \in Live', Placed(y)', Origin[y] = o PROVE FALSE
    <3>1. buf[o] # NoBuffer
      BY <1>0 DEF PlacedInv
    <3> QED
      BY <1>6, <1>7, <2>3, <3>1, LiveInUse
  <2>4. WrittenBefore(o, w)'
    BY <1>5, <2>1 DEF WrittenBefore
  <2>5. ReadBefore(o, w)'
    BY <1>3, <2>2 DEF ReadBefore, Length
  <2>6. Forgotten(o, w)'
    BY <2>3 DEF Forgotten
  <2> QED
    BY <2>4, <2>5, <2>6 DEF Succeeds
<1>8. CASE \E y \in Parents(arr) : Donatable(Live, y) /\ buf'[w] = buf[y]
  <2>1. PICK d \in Parents(arr) : Donatable(Live, d) /\ buf[o] = buf[d]
    BY <1>8
  <2>2. /\ d \in Live /\ d \notin held /\ d \notin SeqRange(SyncInputs)
        /\ \A c \in Live \cap Unscheduled : d \in Parents(c) => c = arr
        /\ \A a \in Live : buf[a] = buf[d] => a = d
        /\ Retainers(buf[d]) = {} /\ w = arr
    BY <1>1, <2>1, DonatedUse
  <2>3. ASSUME NEW s \in Streams, NEW k \in (pos[s] + 1)..Length(s), log[s][k].kind = "kernel",
               NEW x \in Parents(log[s][k].arr) \cup Outputs[log[s][k].arr], Origin[x] = o
        PROVE  log[s][k].arr \in Below(w)
    <3>1. /\ log[s][k].arr \in Arrays /\ Flying(log[s][k].arr) /\ x \in Arrays
          /\ buf[x] = buf[d]
      BY <2>1, <2>3, KernelOf
    <3>2. buf[log[s][k].arr] = buf[d]
      BY <1>1, <2>2, <3>1, OwnBuffer
    <3> QED
      BY <1>1, <2>1, <2>2, <3>1, <3>2, FlyingBelow
  <2>4. WrittenBefore(o, w)'
    <3>1. CASE Written(o)
      BY <1>5, <3>1 DEF WrittenBefore
    <3>2. CASE ~Written(o)
      <4>1. PICK s \in Streams : \E k \in (pos[s] + 1)..Length(s) :
               log[s][k].kind = "kernel" /\ o \in Outputs[log[s][k].arr]
        BY <3>2, PlacedKernel
      <4>2. PICK k \in (pos[s] + 1)..Length(s) :
               log[s][k].kind = "kernel" /\ o \in Outputs[log[s][k].arr]
        BY <4>1
      <4>3. Origin[o] = o
        BY OriginOf
      <4>4. log[s][k].arr \in Below(w)
        BY <2>3, <4>2, <4>3
      <4>5. o \in Below(w)
        BY <1>3, <4>2, <4>4, BelowFacts DEF Closed
      <4> QED
        BY <4>5 DEF WrittenBefore, Below
    <3> QED
      BY <3>1, <3>2
  <2>5. ReadBefore(o, w)'
    <3> SUFFICES ASSUME NEW s \in Streams, NEW k \in (pos'[s] + 1)..Len(log'[s]),
                        log'[s][k].kind = "kernel", NEW y \in Parents(log'[s][k].arr),
                        Origin[y] = o
                 PROVE  log'[s][k].arr \in Outputs[w] \cup Below(w)
      BY DEF ReadBefore, Length, Below
    <3> QED
      BY <1>3, <1>4, <2>3
  <2>6. Forgotten(o, w)'
    <3> SUFFICES ASSUME NEW y \in Live', Placed(y)', Origin[y] = o PROVE LastUse(y, w)'
      BY DEF Forgotten
    <3>1. y = d
      BY <1>6, <2>1, <2>2
    <3>2. SeqRange(SyncInputs)' = SeqRange(SyncInputs)
      BY <1>2 DEF SeqRange
    <3>3. \A c \in Live' \cap Unscheduled' : d \in Parents(c) => c = w
      BY <1>1, <1>2, <2>2
    <3> QED
      BY <1>1, <2>2, <3>1, <3>2, <3>3 DEF LastUse, Mid
  <2> QED
    BY <2>4, <2>5, <2>6 DEF Succeeds
<1> QED
  BY <1>0, <1>3, <1>7, <1>8, TakenBuffer

-----------------------------------------------------------------------------
(* Whoever has taken over a buffer goes on having it *)

(* When eval_cpu runs, what its inputs share is referred to, by others than *)
(* an array that is just being detached.                                    *)
LEMMA InputRemembered ==
    ASSUME SafeInv, pc = "inputs", arr # Sync, NEW o, NEW w, Forgotten(o, w),
           NEW y \in Parents(arr), Placed(y)
    PROVE  Origin[y] # o
<1>1. arr \in Arrays /\ arr \in Unscheduled
  BY TapeClosed DEF InHand
<1>2. arr \in Live
  BY LiveIs DEF Roots, Current, Evaluating
<1>3. y \in Live
  BY <1>1, <1>2, LiveParents
<1>4. ~LastUse(y, w)
  BY DEF LastUse, Mid, Releasing
<1> QED
  BY <1>3, <1>4 DEF Forgotten

LEMMA SucceedsStep ==
    ASSUME OwnInv, FamilyInv, SafeInv',
           Calm \/ Begins \/ Kernels \/ Retains \/ Marks \/ \E s \in Streams : Runs(s),
           NEW o \in Arrays, NEW w \in Arrays, Share(o, w), Succeeds(w, o)
    PROVE  Succeeds(w, o)'
<1>0. SafeInv /\ TypeInv /\ TypeInv' /\ BuffersType /\ WantedInv /\ PlacedInv /\ TapeInv /\ TapeInv'
  BY DEF OwnInv, SafeInv
<1>1. WrittenBefore(o, w) /\ ReadBefore(o, w) /\ Forgotten(o, w)
  BY DEF Succeeds
<1>2. Live' \subseteq Live /\ Live \subseteq Arrays
  BY <1>0, LiveStep, LiveArrays
<1>3. Origin[o] = o /\ Origin[w] = w /\ w # o /\ Placed(o)
  BY OriginOf, GraphAssumption DEF Share
<1>4. WrittenBefore(o, w)'
  BY <1>0, <1>1, WrittenStays DEF WrittenBefore, Below
<1>5. ASSUME Kernels, arr # Sync, NEW y \in Parents(arr)
      PROVE  Origin[y] # o /\ Placed(y)
  <2>1. pc = "inputs"
    BY <1>5 DEF Kernels
  <2>2. Placed(y)
    BY <1>0, <1>5, <2>1, InputsBefore DEF SafeInv, Placed
  <2> QED
    BY <1>0, <1>1, <1>5, <2>1, <2>2, InputRemembered
<1>6. ReadBefore(o, w)'
  <2> SUFFICES ASSUME NEW s \in Streams, NEW k \in (pos'[s] + 1)..Len(log'[s]),
                      log'[s][k].kind = "kernel", NEW y \in Parents(log'[s][k].arr),
                      Origin[y] = o
               PROVE  log'[s][k].arr \in Outputs[w] \cup Below(w)
    BY DEF ReadBefore, Length, Below
  <2>1. CASE k \in (pos[s] + 1)..Length(s) /\ log'[s][k] = log[s][k]
    BY <1>1, <2>1 DEF ReadBefore
  <2>2. CASE Kernels /\ arr # Sync /\ log'[s][k].arr = arr
    BY <1>5, <2>2
  <2> QED
    BY <1>0, <2>1, <2>2, PendingStays
<1>7. ASSUME NEW y \in Live', Placed(y)', Origin[y] = o
      PROVE  Placed(y)
  <2> SUFFICES ASSUME ~Placed(y) PROVE FALSE
    OBVIOUS
  <2>1. Kernels /\ y \in OutputsOf(arr) /\ y \in Arrays
    BY <1>0, <1>2, <1>7, PlacedWhen DEF NewlyPlaced
  <2>2. arr # Sync /\ arr \in Arrays /\ y \in Outputs[arr]
    BY <1>0, <2>1 DEF OutputsOf, TypeInv, TypeOK
  <2>3. y \in Views
    BY <1>3, <1>7, <2>1, OriginOf
  <2>4. Inputs[y][1] \in Parents(arr) /\ Origin[y] = Origin[Inputs[y][1]]
    <3>1. Parents(y) = Parents(arr)
      BY <2>2, GraphAssumption DEF Parents
    <3> QED
      BY <2>3, <3>1, ViewInput
  <2> QED
    BY <1>5, <1>7, <2>1, <2>2, <2>4
<1>8. Forgotten(o, w)'
  <2> SUFFICES ASSUME NEW y \in Live', Placed(y)', Origin[y] = o, ~LastUse(y, w)'
               PROVE  FALSE
    BY DEF Forgotten
  <2>1. y \in Live /\ Placed(y) /\ LastUse(y, w)
    BY <1>1, <1>2, <1>7 DEF Forgotten
  <2>2. /\ pc \in Mid /\ arr = w /\ y \notin held /\ y \notin SeqRange(SyncInputs)
        /\ \A c \in Live \cap Unscheduled : y \in Parents(c) => c = w
    BY <2>1 DEF LastUse
  <2>3. w # Sync /\ Unscheduled' \subseteq Unscheduled
    BY BoundAssumption, UnscheduledShrinks
  <2>4. ASSUME pc' \in Mid, arr' = arr, held' \subseteq held,
               SeqRange(SyncInputs)' = SeqRange(SyncInputs)
        PROVE  FALSE
    <3>1. \A c \in Live' \cap Unscheduled' : y \in Parents(c) => c = w
      BY <1>2, <2>2, <2>3
    <3>2. y \notin held'
      BY <2>2, <2>4
    <3> QED
      BY <2>2, <2>4, <3>1, <3>2 DEF LastUse
  <2>5. CASE Calm
    <3>1. pc' \in Mid /\ arr' = arr /\ held' \subseteq held
      BY <2>2, <2>5 DEF Calm, Mid, Releasing
    <3>2. SeqRange(SyncInputs)' = SeqRange(SyncInputs)
      BY <1>0, <2>5, CalmSame DEF SeqRange
    <3> QED
      BY <2>4, <3>1, <3>2
  <2>6. CASE Begins \/ Kernels
    BY <2>2, <2>6 DEF Begins, Kernels, Mid, Releasing
  <2>7. CASE Retains
    <3>1. pc = "retain" /\ pc' = "check" /\ UNCHANGED <<arr, outs, held>>
      BY <2>7 DEF Retains
    <3>2. SeqRange(SyncInputs)' = SeqRange(SyncInputs)
      BY <3>1, RootsSame DEF InHand, Releasing, SeqRange
    <3> QED
      BY <2>4, <3>1, <3>2 DEF Mid, Releasing
  <2>8. CASE \E s \in Streams : Runs(s)
    <3>1. UNCHANGED <<pc, arr, outs, held>>
      BY <2>8 DEF Runs
    <3>2. SeqRange(SyncInputs)' = SeqRange(SyncInputs)
      BY <3>1 DEF SyncInputs, Evaluating, SeqRange
    <3> QED
      BY <2>2, <2>4, <3>1, <3>2
  <2>9. CASE Marks
    <3>1. /\ pc \in Releasing /\ pc' = "fence" /\ UNCHANGED <<arr, outs, held>>
          /\ Unscheduled' = Unscheduled \ Outputs[w]
      BY <2>2, <2>3, <2>9 DEF Marks, OutputsOf
    <3>2. Roots' = held \cup SeqRange(SyncInputs) \cup {w}
      <4>1. Roots' = Roots
        BY <2>2, <2>3, <3>1, RootsSame DEF InHand
      <4>2. Current = {w}
        BY <2>2, <2>3, <3>1 DEF Current, Evaluating, Releasing
      <4> QED
        BY <4>1, <4>2 DEF Roots
    <3>3. y \notin Roots'
      BY <1>3, <2>2, <3>2
    <3>4. Needed(Roots)' \subseteq Unscheduled'
      BY <1>0, NeededHolds DEF Needed
    <3>5. y \notin Unscheduled'
      BY <2>1, <2>2, <2>3, <3>1 DEF Placed, OutputsOf
    <3>6. Live' = Roots' \cup Needed(Roots)' \cup UNION {Parents(a) : a \in Needed(Roots)'}
      BY DEF Live, Roots
    <3>7. PICK c \in Needed(Roots)' : y \in Parents(c)
      BY <3>3, <3>4, <3>5, <3>6
    <3>8. c \in Live' /\ c \in Unscheduled'
      BY <3>4, <3>6
    <3>9. c = w
      BY <1>2, <2>2, <2>3, <3>7, <3>8
    <3> QED
      BY <3>1, <3>8, <3>9, GraphAssumption
  <2> QED
    BY <2>5, <2>6, <2>7, <2>8, <2>9
<1> QED
  BY <1>4, <1>6, <1>8 DEF Succeeds

LEMMA PairsStep ==
    ASSUME OwnInv, FamilyInv, PairsInv, SafeInv',
           Calm \/ Begins \/ Kernels \/ Retains \/ Marks \/ \E s \in Streams : Runs(s)
    PROVE  PairsInv'
<1> SUFFICES ASSUME NEW o \in Arrays, NEW w \in Arrays, Share(o, w)'
             PROVE  Succeeds(w, o)' \/ Succeeds(o, w)'
  BY DEF PairsInv
<1>0. SafeInv /\ TypeInv /\ BuffersType
  BY DEF OwnInv, SafeInv
<1>1. /\ o \in Arrays \ Views /\ w \in Arrays \ Views /\ Placed(o)' /\ Placed(w)'
      /\ buf'[o] = buf'[w] /\ w \notin Outputs[o] /\ o \notin Outputs[w]
  <2>1. o \in Outputs[w] => w \in Outputs[o]
    BY GraphAssumption
  <2> QED
    BY <2>1 DEF Share
<1>2. CASE Placed(o) /\ Placed(w)
  <2>1. Share(o, w) /\ Share(w, o)
    BY <1>0, <1>1, <1>2, BuffersStay DEF Share
  <2> QED
    BY <2>1, SucceedsStep DEF PairsInv
<1>3. ASSUME NEW p \in Arrays \ Views, ~Placed(p), Placed(p)'
      PROVE  Kernels /\ arr \in Arrays \ Views /\ p \in Outputs[arr]
  <2>1. Kernels /\ p \in OutputsOf(arr)
    BY <1>0, <1>3, PlacedWhen DEF NewlyPlaced
  <2>2. arr \in Arrays /\ p \in Outputs[arr]
    BY <1>0, <2>1 DEF OutputsOf, TypeInv, TypeOK
  <2>3. arr \notin Views
    BY <1>3, <2>2, MemoryAssumption
  <2> QED
    BY <2>1, <2>2, <2>3
<1>4. CASE Placed(o) /\ ~Placed(w)
  <2>1. buf[o] = buf'[w]
    BY <1>0, <1>1, <1>4, BuffersStay
  <2>2. Succeeds(w, o)'
    BY <1>1, <1>3, <1>4, <2>1, NewSucceeds
  <2> QED
    BY <2>2
<1>5. CASE ~Placed(o) /\ Placed(w)
  <2>1. buf[w] = buf'[o]
    BY <1>0, <1>1, <1>5, BuffersStay
  <2>2. Succeeds(o, w)'
    BY <1>1, <1>3, <1>5, <2>1, NewSucceeds
  <2> QED
    BY <2>2
<1>6. CASE ~Placed(o) /\ ~Placed(w)
  <2>1. arr \in Arrays /\ o \in Outputs[arr] /\ w \in Outputs[arr]
    BY <1>1, <1>3, <1>6
  <2> QED
    BY <1>1, <2>1, GraphAssumption
<1> QED
  BY <1>2, <1>4, <1>5, <1>6

-----------------------------------------------------------------------------
(* What the buffers hold *)

(* A kernel is not queued before its outputs have their buffers.            *)
LEMMA WrittenPlaced ==
    ASSUME OwnInv, NEW o \in Arrays, Written(o)
    PROVE  Placed(o)
<1>0. SafeInv /\ TypeInv /\ PlacedInv /\ PairedInv
  BY DEF OwnInv, SafeInv
<1>1. CASE o \in Leaves
  BY <1>0, <1>1 DEF PlacedInv, Placed
<1>2. CASE o \notin Leaves
  <2>1. PICK s \in Streams : \E j \in 1..pos[s] :
           log[s][j].kind = "kernel" /\ o \in Outputs[log[s][j].arr]
    BY <1>2 DEF Written
  <2>2. PICK j \in 1..pos[s] : log[s][j].kind = "kernel" /\ o \in Outputs[log[s][j].arr]
    BY <2>1
  <2>3. j \in 1..Length(s)
    BY <1>0, Places
  <2>4. CASE j + 1 \in 1..Length(s) /\ IsRelease(log[s][j + 1])
             /\ log[s][j + 1].arr = log[s][j].arr
    <3>1. o \in Unscheduled => pc \in Releasing /\ o \in OutputsOf(arr)
      BY <1>0, <2>2, <2>4 DEF SafeInv, OnceInv, Released
    <3> QED
      BY <3>1 DEF Placed
  <2>5. CASE pc = "retain" /\ arr = log[s][j].arr /\ arr # Sync
    BY <2>2, <2>5 DEF Placed, OutputsOf
  <2> QED
    BY <1>0, <2>2, <2>3, <2>4, <2>5 DEF PairedInv
<1> QED
  BY <1>1, <1>2

LEMMA BuffersNumbered ==
    ASSUME OwnInv, NEW a \in Arrays, Placed(a)
    PROVE  buf[a] \in Buffers
<1>1. buf[a] \in 0..Cardinality(Arrays) /\ buf[a] # 0
  BY DEF OwnInv, BuffersType, PlacedInv, NoBuffer
<1>2. Cardinality(Arrays) \in Nat
  BY MemoryAssumption, FS_CardinalityType
<1> QED
  BY <1>1, <1>2 DEF Buffers

(* What has been written over has been by a successor. *)
Overwritten(o) == \E w \in Arrays : Share(o, w) /\ Written(w) /\ Succeeds(w, o)

LEMMA OverwrittenStays ==
    ASSUME OwnInv, FamilyInv, SafeInv',
           Calm \/ Begins \/ Kernels \/ Retains \/ Marks \/ \E s \in Streams : Runs(s),
           NEW o \in Arrays, Overwritten(o)
    PROVE  Overwritten(o)'
<1>1. PICK w \in Arrays : Share(o, w) /\ Written(w) /\ Succeeds(w, o)
  BY DEF Overwritten
<1>2. Succeeds(w, o)'
  BY <1>1, SucceedsStep
<1>3. Written(w)'
  BY <1>1, WrittenStays DEF OwnInv, SafeInv
<1>4. Share(o, w)'
  BY <1>1, BuffersStay DEF Share, OwnInv
<1> QED
  BY <1>2, <1>3, <1>4 DEF Overwritten

(* A kernel that runs writes over what it succeeds, and nothing else. *)
LEMMA KernelWrites ==
    ASSUME OwnInv, FamilyInv, PairsInv, SafeInv', NEW s \in Streams, Runs(s),
           HeadTask(s).kind = "kernel", NEW o \in Arrays \ Views, Placed(o), Written(o),
           NEW w \in Outputs[HeadTask(s).arr], buf[w] = buf[o]
    PROVE  Overwritten(o)'
<1>0. SafeInv /\ TypeInv /\ PairedInv /\ BuffersType
  BY DEF OwnInv, SafeInv
<1> DEFINE k == pos[s] + 1
           q == log[s][k].arr
<1>1. /\ k \in (pos[s] + 1)..Length(s) /\ log[s][k].kind = "kernel" /\ HeadTask(s).arr = q
      /\ pos'[s] = k /\ log' = log /\ k \in 1..Length(s) /\ k \in 1..k
  <2>1. /\ k \in (pos[s] + 1)..Length(s) /\ k \in 1..Length(s)
        /\ HeadTask(s) = log[s][k] /\ pos'[s] = k /\ log' = log
    BY <1>0, RunFacts
  <2>2. pos[s] \in Nat
    BY <1>0, Places
  <2> QED
    BY <2>1, <2>2
<1> HIDE DEF k
<1>2. /\ ~Written(w) /\ w \in Arrays /\ w \notin computed /\ q \in Arrays /\ Placed(w)
      /\ q \notin Views
  <2>1. ~Written(w) /\ w \in Arrays /\ w \notin computed
    BY <1>1, PendingUnwritten DEF k
  <2>2. q \in Arrays /\ Placed(w)
    BY <1>1, KernelFlying DEF k
  <2> QED
    BY <1>1, <2>1, <2>2 DEF FamilyInv
<1>3. w \in Outputs[q] /\ Outputs[w] = Outputs[q] /\ w \notin Views
  BY <1>1, <1>2, GraphAssumption, MemoryAssumption
<1>4. w \notin Outputs[o] /\ o \notin Outputs[w]
  <2>1. ~(o \in Outputs[q])
    <3> SUFFICES ASSUME o \in Outputs[q] PROVE FALSE
      OBVIOUS
    <3>1. ~Written(o)
      BY <1>1, PendingUnwritten DEF k
    <3> QED
      BY <3>1
  <2>2. w \in Outputs[o] => o \in Outputs[w]
    BY GraphAssumption
  <2> QED
    BY <1>3, <2>1, <2>2
<1>5. Share(o, w) /\ Share(w, o)
  BY <1>2, <1>3, <1>4 DEF Share
<1>6. ~Succeeds(o, w)
  <2>1. Below(o) \subseteq computed
    BY <1>0, WrittenBelow
  <2> QED
    BY <1>2, <2>1 DEF Succeeds, WrittenBefore
<1>7. Succeeds(w, o)
  BY <1>2, <1>5, <1>6 DEF PairsInv
<1>8. Succeeds(w, o)'
  BY <1>2, <1>5, <1>7, SucceedsStep
<1>9. Share(o, w)'
  BY <1>0, <1>2, <1>5, BuffersStay DEF Share
<1>10. Written(w)'
  <2>1. log'[s][k].kind = "kernel" /\ w \in Outputs[log'[s][k].arr] /\ k \in 1..pos'[s]
    BY <1>1, <1>3
  <2> QED
    BY <2>1 DEF Written
<1> QED
  BY <1>2, <1>8, <1>9, <1>10 DEF Overwritten

LEMMA ContentsStep ==
    ASSUME OwnInv, FamilyInv, PairsInv, ContentsInv, SafeInv',
           Calm \/ Begins \/ Kernels \/ Retains \/ Marks \/ \E s \in Streams : Runs(s)
    PROVE  ContentsInv'
<1> SUFFICES ASSUME NEW o \in Arrays \ Views, Placed(o)', Written(o)'
             PROVE  o \in contents'[buf'[o]] \/ Overwritten(o)'
  BY DEF ContentsInv, Overwritten
<1>0. SafeInv /\ TypeInv /\ BuffersType
  BY DEF OwnInv, SafeInv
<1>1. ASSUME Written(o)
      PROVE  /\ Placed(o) /\ buf'[o] = buf[o] /\ buf[o] \in Buffers
             /\ o \in contents[buf[o]] \/ Overwritten(o)'
  <2>1. Placed(o)
    BY <1>1, WrittenPlaced
  <2>2. o \in contents[buf[o]] \/ Overwritten(o)
    BY <1>1, <2>1 DEF ContentsInv, Overwritten
  <2> QED
    BY <1>0, <2>1, <2>2, OverwrittenStays, BuffersStay, BuffersNumbered
<1>2. CASE \A s \in Streams : ~Runs(s)
  <2>1. contents' = contents /\ pos' = pos
    BY <1>2 DEF Calm, Begins, Kernels, Retains, Marks
  <2>2. Written(o)
    <3> SUFFICES ASSUME NEW s \in Streams, NEW j \in 1..pos[s], log'[s][j].kind = "kernel",
                        o \in Outputs[log'[s][j].arr]
                 PROVE  Written(o)
      BY <2>1 DEF Written
    <3>1. j \in 1..Length(s)
      BY <1>0, Places
    <3>2. log'[s][j] = log[s][j]
      BY <1>0, <3>1, KernelsStay DEF Extended
    <3> QED
      BY <3>2 DEF Written
  <2> QED
    BY <1>1, <2>1, <2>2
<1>3. ASSUME NEW s \in Streams, Runs(s)
      PROVE  o \in contents'[buf'[o]] \/ Overwritten(o)'
  <2>1. /\ HeadTask(s) = log[s][pos[s] + 1] /\ pos'[s] = pos[s] + 1 /\ log' = log
        /\ \A r \in Streams \ {s} : pos'[r] = pos[r]
        /\ pos[s] \in Nat /\ pos[s] + 1 \in (pos[s] + 1)..Length(s) /\ buf' = buf
    BY <1>0, <1>3, RunFacts, Places DEF Runs
  <2>2. contents' = IF HeadTask(s).kind = "kernel"
                    THEN [b \in Buffers |->
                           IF SharingAmong(Outputs[HeadTask(s).arr], b) = {} THEN contents[b]
                           ELSE SharingAmong(Outputs[HeadTask(s).arr], b)]
                    ELSE contents
    BY <1>3 DEF Runs, MemRun
  <2>3. Written(o) \/ (HeadTask(s).kind = "kernel" /\ o \in Outputs[HeadTask(s).arr])
    <3> SUFFICES ASSUME NEW r \in Streams, NEW j \in 1..pos'[r], log[r][j].kind = "kernel",
                        o \in Outputs[log[r][j].arr], ~Written(o)
                 PROVE  HeadTask(s).kind = "kernel" /\ o \in Outputs[HeadTask(s).arr]
      BY <2>1 DEF Written
    <3>1. j \notin 1..pos[r]
      BY DEF Written
    <3>2. r = s
      BY <2>1, <3>1
    <3>3. j = pos[s] + 1
      BY <2>1, <3>1, <3>2
    <3> QED
      BY <2>1, <3>2, <3>3
  <2>4. CASE HeadTask(s).kind = "kernel" /\ o \in Outputs[HeadTask(s).arr]
    <3>1. Placed(o)
      BY <2>1, <2>4, KernelFlying
    <3>2. buf[o] \in Buffers /\ o \in SharingAmong(Outputs[HeadTask(s).arr], buf[o])
      BY <2>4, <3>1, BuffersNumbered DEF SharingAmong
    <3>3. contents'[buf[o]] = SharingAmong(Outputs[HeadTask(s).arr], buf[o])
      BY <2>2, <2>4, <3>2
    <3> QED
      BY <2>1, <3>2, <3>3
  <2>5. CASE Written(o) /\ HeadTask(s).kind # "kernel"
    BY <1>1, <2>2, <2>5
  <2>6. CASE Written(o) /\ HeadTask(s).kind = "kernel"
    <3>1. CASE SharingAmong(Outputs[HeadTask(s).arr], buf[o]) = {}
      <4>1. contents'[buf[o]] = contents[buf[o]]
        BY <1>1, <2>2, <2>6, <3>1
      <4> QED
        BY <1>1, <2>6, <4>1
    <3>2. CASE SharingAmong(Outputs[HeadTask(s).arr], buf[o]) # {}
      <4>1. PICK w \in Outputs[HeadTask(s).arr] : buf[w] = buf[o]
        BY <3>2 DEF SharingAmong
      <4> QED
        BY <1>1, <1>3, <2>6, <4>1, KernelWrites
    <3> QED
      BY <3>1, <3>2
  <2> QED
    BY <2>3, <2>4, <2>5, <2>6
<1> QED
  BY <1>2, <1>3

-----------------------------------------------------------------------------
(* The theorems *)

MemInv == OwnInv /\ FamilyInv /\ PairsInv /\ ContentsInv

LEMMA InitMem == MemInit => MemInv
<1> SUFFICES ASSUME MemInit PROVE MemInv
  OBVIOUS
<1>1. OwnInv
  BY InitOwn
<1>2. /\ pc = "idle" /\ computed = Leaves /\ Unscheduled = Arrays \ Leaves
      /\ \A s \in Streams : log[s] = <<>>
  BY DEF MemInit, Init, Unscheduled
<1>3. \A a \in Arrays : Placed(a) => a \in Leaves
  BY <1>2 DEF Placed, Releasing
<1>4. \A a \in Leaves : a \in Arrays /\ a \notin Views /\ Origin[a] = a
  BY GraphAssumption, OriginOf
<1>5. FamilyInv
  BY <1>2, <1>3, <1>4 DEF FamilyInv, Length
<1>6. PairsInv
  <2> SUFFICES ASSUME NEW o \in Arrays, NEW w \in Arrays, Share(o, w) PROVE FALSE
    BY DEF PairsInv
  <2>1. o \in Leaves /\ w \in Leaves /\ buf[o] = buf[w] /\ w \notin Outputs[o]
    BY <1>3 DEF Share
  <2> QED
    BY <2>1, GraphAssumption DEF MemInit
<1>7. ContentsInv
  <2> SUFFICES ASSUME NEW o \in Arrays \ Views, Placed(o) PROVE o \in contents[buf[o]]
    BY DEF ContentsInv
  <2>1. o \in Leaves /\ buf[o] \in Buffers
    BY <1>1, <1>3, BuffersNumbered
  <2> QED
    BY <2>1 DEF MemInit
<1> QED
  BY <1>1, <1>5, <1>6, <1>7 DEF MemInv

LEMMA MemCorrect ==
    ASSUME Failing = {}
    PROVE  MemSpec => []MemInv
<1>1. MemInit => MemInv
  BY InitMem
<1>2. ASSUME MemInv, [MemNext]_<<vars, memVars>> PROVE MemInv'
  <2>1. OwnInv'
    BY <1>2, OwnStep DEF MemInv
  <2>2. SafeInv /\ BuffersType /\ SafeInv'
    BY <1>2, <2>1 DEF MemInv, OwnInv
  <2>3. Calm \/ Begins \/ Kernels \/ Retains \/ Marks \/ \E s \in Streams : Runs(s)
    BY <1>2, <2>2, StepKinds
  <2> QED
    BY <1>2, <2>1, <2>2, <2>3, FamilyStep, PairsStep, ContentsStep DEF MemInv
<1> QED
  BY <1>1, <1>2, PTL DEF MemSpec

(* A worker that is about to run a kernel finds in the buffer of every      *)
(* input the data that input was computed with: whatever has been donated,  *)
(* freed and reused, on whatever streams, if eval_cpu does not throw.       *)
THEOREM InputsStayIntact ==
    ASSUME Failing = {}
    PROVE  MemSpec => []InputsIntact
<1>1. MemInv => InputsIntact
  <2> SUFFICES ASSUME MemInv, NEW s \in Streams, Pending(s), HeadTask(s).kind = "kernel",
                      NEW x \in Parents(HeadTask(s).arr)
               PROVE  Intact(x)
    BY DEF InputsIntact
  <2>0. OwnInv /\ SafeInv /\ TypeInv /\ QueueInv /\ PairedInv
    BY DEF MemInv, OwnInv, SafeInv
  <2> DEFINE k == pos[s] + 1
             a == HeadTask(s).arr
             o == Origin[x]
  <2>1. k \in (pos[s] + 1)..Length(s) /\ k \in 1..Length(s) /\ log[s][k] = HeadTask(s)
    <3>1. pos[s] \in Nat /\ Length(s) \in Nat
      BY <2>0, Places
    <3> QED
      BY <3>1 DEF Pending, HeadTask
  <2> HIDE DEF k
  <2>2. a \in Arrays /\ x \in Arrays /\ Placed(x)
    BY <2>0, <2>1, KernelFlying DEF k
  <2>3. x \in computed
    <3>1. UsesInputs(HeadTask(s))
      BY <2>2, BoundAssumption DEF UsesInputs
    <3> QED
      BY <2>0, <3>1, HeadGuarded
  <2>4. /\ o \in Arrays \ Views /\ Placed(o) /\ buf[o] = buf[x] /\ o \in computed
    BY <2>2, <2>3 DEF MemInv, FamilyInv
  <2> HIDE DEF o
  <2>5. Written(o)
    BY <2>0, <2>4, ComputedWritten DEF MemInv
  <2>6. ASSUME NEW w \in Arrays, Written(w), Succeeds(w, o) PROVE FALSE
    <3>1. a \in Outputs[w] \cup Below(w)
      BY <2>1, <2>6 DEF Succeeds, ReadBefore, k, o
    <3>2. w \notin Outputs[a]
      BY <2>0, <2>1, <2>6, PendingUnwritten DEF k
    <3>3. a \notin computed
      BY <2>0, <2>1, <2>2, PendingUnwritten, GraphAssumption DEF k
    <3>4. Below(w) \subseteq computed
      BY <2>0, <2>6, WrittenBelow
    <3>5. a \in Outputs[w] => w \in Outputs[a]
      BY GraphAssumption
    <3> QED
      BY <3>1, <3>2, <3>3, <3>4, <3>5
  <2>7. o \in contents[buf[o]]
    BY <2>4, <2>5, <2>6 DEF MemInv, ContentsInv
  <2> QED
    BY <2>4, <2>7 DEF Intact, o
<1> QED
  BY <1>1, MemCorrect, PTL

(* What the user has a handle to, and is told is available, holds its data  *)
(* as long as the handle is there: no donation and no late kernel writes    *)
(* over it, if eval_cpu does not throw.                                     *)
THEOREM HeldStaysIntact ==
    ASSUME Failing = {}
    PROVE  MemSpec => []HeldIntact
<1>1. MemInv => HeldIntact
  <2> SUFFICES ASSUME MemInv, NEW a \in held, pc = "idle", status[a] # "unscheduled", Ready(a)
               PROVE  Intact(a)
    BY DEF HeldIntact
  <2>0. OwnInv /\ SafeInv /\ TypeInv /\ QueueInv /\ StatusInv /\ SilentInv /\ BuffersType
        /\ WantedInv
    BY DEF MemInv, OwnInv, SafeInv
  <2>1. a \in Arrays /\ a \in Live /\ Placed(a)
    BY <2>0, LiveFacts DEF BuffersType, Placed, Unscheduled
  <2>2. a \in computed
    <3>1. status[a] = "available" \/ status[a] = "evaluated"
      BY <2>0, <2>1 DEF TypeInv, TypeOK
    <3> QED
      BY <2>0, <2>1, <3>1, ReadyDone DEF StatusInv, EvalPlaces
  <2> DEFINE o == Origin[a]
  <2>3. /\ o \in Arrays \ Views /\ Placed(o) /\ buf[o] = buf[a] /\ o \in computed
    BY <2>1, <2>2 DEF MemInv, FamilyInv
  <2> HIDE DEF o
  <2>4. Written(o)
    BY <2>0, <2>3, ComputedWritten DEF MemInv
  <2>5. ASSUME NEW w \in Arrays, Succeeds(w, o) PROVE FALSE
    <3>1. LastUse(a, w)
      BY <2>1, <2>5 DEF Succeeds, Forgotten, o
    <3> QED
      BY <3>1 DEF LastUse
  <2>6. o \in contents[buf[o]]
    BY <2>3, <2>4, <2>5 DEF MemInv, ContentsInv
  <2> QED
    BY <2>3, <2>6 DEF Intact, o
<1> QED
  BY <1>1, MemCorrect, PTL
=============================================================================
