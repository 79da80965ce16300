---------------------------- MODULE RingSockets ----------------------------
(***************************************************************************)
(* mlx/distributed/ring/ring.cpp, SocketThread: one worker per end of a    *)
(* connection serves the requests that callers post, on a non-blocking     *)
(* socket.  Callers append under the mutex and notify after it; the worker *)
(* takes the mutex only at the top of its loop, where it removes what it   *)
(* has finished, and works on the heads of the lists without it.  The      *)
(* destructor sets stop_ without the mutex.                                *)
(*                                                                         *)
(* The n-th cell that the callers of an end send holds that end and n.     *)
(***************************************************************************)
EXTENDS Integers, Sequences, FiniteSets

CONSTANTS Ends,      \* the two ends
          Plans,     \* what callers may post, and what may go wrong
          Capacity,  \* of the system's buffers, in one direction
          MaxErrors  \* errors in a row that end a worker: 10 in the code

(* Of a plan: the sizes of the sends and of the receives of each end, the   *)
(* ends that may be closed, and how many calls may fail though none is.     *)
Plan == [send : [Ends -> Seq(Nat)], recv : [Ends -> Seq(Nat)],
         closers : SUBSET Ends, faults : Nat]

ASSUME SocketsAssumption ==
    /\ \E e, p \in Ends : e # p /\ Ends = {e, p}
    /\ Plans \subseteq Plan
    /\ Capacity \in Nat \ {0} /\ MaxErrors \in Nat \ {0}

Nothing == <<>>
PeerOf == [e \in Ends |-> CHOOSE p \in Ends : p # e]

VARIABLES sends, recvs,     \* sends_ and recvs_, in cells still to be moved
          pipe, mem,        \* as in Duplex
          pcw,              \* where the worker is
          delSend, delRecv, \* its flags delete_send and delete_recv
          errors,           \* error_count
          again,            \* is errno of its thread EAGAIN?
          toNotify,         \* callers that have posted and not yet notified
          nSend, nRecv,     \* how many requests have been posted
          stop, closed,     \* stop_; the socket is shut down
          missed,           \* the destructor notified a worker about to wait
          plan,             \* the plan that is carried out
          faults            \* calls that have failed

dataVars == <<sends, recvs, pipe, mem>>
workerVars == <<pcw, delSend, delRecv, errors, again>>
postVars == <<toNotify, nSend, nRecv>>
closeVars == <<stop, closed, missed, plan>>
vars == <<dataVars, workerVars, postVars, closeVars, faults>>

(* The cells of the k-th request of an end come after those of the others. *)
Before(sizes, k) == Cardinality(UNION {{j} \X (1..sizes[j]) : j \in 1..k - 1})
Block(e, side, sizes, k) == [i \in 1..sizes[k] |-> <<e, side, Before(sizes, k) + i>>]
BlocksOf(e, side, sizes) == {Block(e, side, sizes, k) : k \in DOMAIN sizes}
Blocks == UNION {BlocksOf(e, "out", p.send[e]) \cup BlocksOf(e, "in", p.recv[e]) :
                 e \in Ends, p \in Plans}
Cells == {x : x \in UNION {{b[i] : i \in DOMAIN b} : b \in Blocks}}  \* as an enumeration

SendBlock(e, k) == Block(e, "out", plan.send[e], k)
RecvBlock(e, k) == Block(e, "in", plan.recv[e], k)

Ids == UNION {DOMAIN p.send[e] \cup DOMAIN p.recv[e] : e \in Ends, p \in Plans}

Conn == INSTANCE Duplex WITH
    Values <- Ends \X {c[3] : c \in Cells} \cup {Nothing}

Init ==
    /\ sends = [e \in Ends |-> <<>>] /\ recvs = [e \in Ends |-> <<>>]
    /\ pipe = [e \in Ends |-> <<>>]
    /\ mem = [c \in Cells |-> IF c[2] = "out" THEN <<c[1], c[3]>> ELSE Nothing]
    /\ pcw = [e \in Ends |-> "top"]
    /\ delSend = [e \in Ends |-> FALSE] /\ delRecv = [e \in Ends |-> FALSE]
    /\ errors = [e \in Ends |-> 0] /\ again = [e \in Ends |-> FALSE]
    /\ toNotify = [e \in Ends |-> 0]
    /\ nSend = [e \in Ends |-> 0] /\ nRecv = [e \in Ends |-> 0]
    /\ stop = [e \in Ends |-> FALSE] /\ closed = [e \in Ends |-> FALSE]
    /\ missed = [e \in Ends |-> FALSE]
    /\ plan \in Plans /\ faults = 0

-----------------------------------------------------------------------------
(* Callers *)

NoMutex(e) == FALSE

(* A worker between its check and its wait. *)
HasMutex(e) == pcw[e] = "deciding"

Awakened(e) == IF pcw[e] = "waiting" THEN [pcw EXCEPT ![e] = "woken"] ELSE pcw

(* send_impl and recv_impl: append under the mutex. *)
Announced(e, cells) ==
    IF cells = <<>> THEN toNotify ELSE [toNotify EXCEPT ![e] = @ + 1]

Send(e) ==
    LET k == nSend[e] + 1
    IN  /\ ~HasMutex(e) /\ ~closed[e] /\ k \in DOMAIN plan.send[e]
        /\ Conn!PostSend(e, k, SendBlock(e, k))
        /\ nSend' = [nSend EXCEPT ![e] = k]
        /\ toNotify' = Announced(e, SendBlock(e, k))
        /\ UNCHANGED <<nRecv, workerVars, closeVars, faults>>

Recv(e) ==
    LET k == nRecv[e] + 1
    IN  /\ ~HasMutex(e) /\ ~closed[e] /\ k \in DOMAIN plan.recv[e]
        /\ Conn!PostRecv(e, k, RecvBlock(e, k))
        /\ nRecv' = [nRecv EXCEPT ![e] = k]
        /\ toNotify' = Announced(e, RecvBlock(e, k))
        /\ UNCHANGED <<nSend, workerVars, closeVars, faults>>

NotifyNobody(e) == pcw

(* condition_.notify_one(), after the mutex. *)
NotifyOne(e) == Awakened(e)

Notify(e) ==
    /\ toNotify[e] > 0
    /\ toNotify' = [toNotify EXCEPT ![e] = @ - 1]
    /\ pcw' = NotifyOne(e)
    /\ missed' = [missed EXCEPT ![e] = @ \/ (stop[e] /\ pcw[e] = "deciding")]
    /\ UNCHANGED <<dataVars, delSend, delRecv, errors, again, nSend, nRecv,
                   stop, closed, plan, faults>>

(* ~RingGroup shuts the socket down and closes it, before ~SocketThread. *)
Close(e) ==
    /\ e \in plan.closers /\ ~closed[e] /\ toNotify[e] = 0
    /\ closed' = [closed EXCEPT ![e] = TRUE]
    /\ UNCHANGED <<dataVars, workerVars, postVars, stop, missed, plan, faults>>

(* ~SocketThread: stop_ = true, without the mutex; then notify_all. *)
SetStop(e) ==
    /\ closed[e] /\ ~stop[e]
    /\ stop' = [stop EXCEPT ![e] = TRUE]
    /\ toNotify' = [toNotify EXCEPT ![e] = 1]
    /\ UNCHANGED <<dataVars, workerVars, nSend, nRecv, closed, missed, plan, faults>>

-----------------------------------------------------------------------------
(* The worker *)

Goto(e, place) == pcw' = [pcw EXCEPT ![e] = place]

HaveTasks(e) == sends[e] # <<>> \/ recvs[e] # <<>>

Without(queue, e, done) ==
    IF done THEN [queue EXCEPT ![e] = SubSeq(@, 2, Len(@))] ELSE queue

SendFlagStays(e) ==
    /\ delSend' = delSend
    /\ delRecv' = [delRecv EXCEPT ![e] = FALSE]

RecvFlagStays(e) ==
    /\ delSend' = [delSend EXCEPT ![e] = FALSE]
    /\ delRecv' = delRecv

FlagsDown(e) ==
    /\ delSend' = [delSend EXCEPT ![e] = FALSE]
    /\ delRecv' = [delRecv EXCEPT ![e] = FALSE]

(* The top of the loop, under the mutex: forget what is finished, look at   *)
(* stop_ and at the lists.                                                  *)
TopOfLoop(e) ==
    /\ pcw[e] = "top"
    /\ sends' = Without(sends, e, delSend[e]) /\ recvs' = Without(recvs, e, delRecv[e])
    /\ FlagsDown(e)
    /\ Goto(e, IF stop[e] THEN "returned"
               ELSE IF sends'[e] # <<>> \/ recvs'[e] # <<>> THEN "recv"
               ELSE "deciding")
    /\ UNCHANGED <<pipe, mem, errors, again, postVars, closeVars, faults>>

(* wait releases the mutex. *)
StartWaiting(e) ==
    /\ pcw[e] = "deciding" /\ Goto(e, "waiting")
    /\ UNCHANGED <<dataVars, delSend, delRecv, errors, again, postVars, closeVars, faults>>

(* A notified waiter evaluates the predicate under the mutex. *)
Wake(e) ==
    /\ pcw[e] = "woken"
    /\ Goto(e, IF stop[e] THEN "returned"
               ELSE IF HaveTasks(e) THEN "recv" ELSE "deciding")
    /\ UNCHANGED <<dataVars, delSend, delRecv, errors, again, postVars, closeVars, faults>>

SpuriousWakeup(e) ==
    /\ pcw[e] = "waiting" /\ Goto(e, "woken")
    /\ UNCHANGED <<dataVars, delSend, delRecv, errors, again, postVars, closeVars, faults>>

(* A call that fails with an errno other than EAGAIN: the socket has been   *)
(* closed at either end, or something else went wrong.                      *)
Fails(e) ==
    /\ IF closed[e] \/ closed[PeerOf[e]]
       THEN UNCHANGED faults
       ELSE faults < plan.faults /\ faults' = faults + 1
    /\ again' = [again EXCEPT ![e] = FALSE]
    /\ errors' = [errors EXCEPT ![e] = @ + 1]

CountedRetries(e) ==
    /\ again' = [again EXCEPT ![e] = TRUE]
    /\ errors' = [errors EXCEPT ![e] = @ + 1]
    /\ UNCHANGED faults

(* EAGAIN is not counted. *)
Retries(e) ==
    /\ again' = [again EXCEPT ![e] = TRUE]
    /\ UNCHANGED <<errors, faults>>

(* recv returns 0 when the peer has closed, and leaves errno as it was.     *)
EndOfStream(e) ==
    /\ closed[e] \/ (closed[PeerOf[e]] /\ pipe[PeerOf[e]] = <<>>)
    /\ errors' = IF again[e] THEN errors ELSE [errors EXCEPT ![e] = @ + 1]
    /\ UNCHANGED <<again, faults>>

Progress(e) ==
    /\ errors' = [errors EXCEPT ![e] = 0]
    /\ UNCHANGED <<again, faults>>

EmptyAfter(queue, e) == Head(queue[e]).cells = <<>>

TryRecv(e) ==
    /\ pcw[e] = "recv" /\ Goto(e, "send")
    /\ \/ recvs[e] = <<>> /\ UNCHANGED <<dataVars, delRecv, errors, again, faults>>
       \/ /\ ~closed[e]
          /\ \E n \in 1..Capacity : Conn!MoveIn(e, n)
          /\ delRecv' = [delRecv EXCEPT ![e] = EmptyAfter(recvs', e)]
          /\ Progress(e)
       \/ /\ recvs[e] # <<>> /\ UNCHANGED <<dataVars, delRecv>>
          /\ \/ Fails(e) \/ EndOfStream(e)
             \/ ~closed[e] /\ pipe[PeerOf[e]] = <<>> /\ ~closed[PeerOf[e]] /\ Retries(e)
    /\ UNCHANGED <<delSend, postVars, closeVars>>

(* The send, and the count of errors at the end of the loop. *)
TrySend(e) ==
    /\ pcw[e] = "send"
    /\ \/ sends[e] = <<>> /\ UNCHANGED <<dataVars, delSend, errors, again, faults>>
       \/ /\ ~closed[e]
          /\ \E n \in 1..Capacity : Conn!MoveOut(e, n)
          /\ delSend' = [delSend EXCEPT ![e] = EmptyAfter(sends', e)]
          /\ Progress(e)
       \/ /\ sends[e] # <<>> /\ UNCHANGED <<dataVars, delSend>>
          /\ \/ Fails(e)
             \/ ~closed[e] /\ Len(pipe[e]) = Capacity /\ Retries(e)
    /\ Goto(e, IF errors'[e] >= MaxErrors THEN "returned" ELSE "top")
    /\ UNCHANGED <<delRecv, postVars, closeVars>>

Worker(e) ==
    \/ TopOfLoop(e) \/ StartWaiting(e) \/ Wake(e)
    \/ TryRecv(e) \/ TrySend(e)

User(e) == Send(e) \/ Recv(e) \/ Close(e)

Next == \E e \in Ends :
    Worker(e) \/ SpuriousWakeup(e) \/ Notify(e) \/ SetStop(e) \/ User(e)

Spec == Init /\ [][Next]_vars

(* Every thread goes on with what it has begun: a worker with its loop, a   *)
(* caller with its notification, a destructor once the sockets are closed.  *)
Fairness == \A e \in Ends : WF_vars(Worker(e)) /\ WF_vars(Notify(e)) /\ WF_vars(SetStop(e))

FairSpec == Spec /\ Fairness

-----------------------------------------------------------------------------
(* Properties *)

(* What the callers of one end receive is what those of the other sent,     *)
(* cell after cell, however the system cuts it up.                          *)
ReceivedInOrder ==
    \A c \in Cells :
        c[2] = "in" => mem[c] \in {Nothing, <<PeerOf[c[1]], c[3]>>}

RangeOf(q) == {q[i] : i \in DOMAIN q}

(* The future of the k-th receive or send is not ready yet. *)
Waits(queue, e, k) == \E i \in DOMAIN queue[e] : queue[e][i].id = k

(* A future is ready only when the memory of its request has been filled.   *)
ReadyMeansFilled ==
    \A e \in Ends : \A k \in 1..nRecv[e] :
        Waits(recvs, e, k) \/ \A c \in RangeOf(RecvBlock(e, k)) : mem[c] # Nothing

(* No worker sleeps on requests that nobody will wake it for, though the    *)
(* notification is sent after the mutex has been released.                  *)
NoLostWakeup ==
    \A e \in Ends : pcw[e] = "waiting" /\ HaveTasks(e) => toNotify[e] > 0

(* The destructor's join returns, unless its one notification came between  *)
(* the worker's check of stop_ and its wait.                                *)
JoinReturns == <>[] \A e \in Ends : stop[e] => pcw[e] = "returned" \/ missed[e]

(* The peer has posted what the k-th receive of e waits for; the room for   *)
(* its k-th send.                                                           *)
RecvDue(e, k) ==
    /\ Waits(recvs, e, k) /\ plan.faults < MaxErrors
    /\ Before(plan.recv[e], k + 1) <= Before(plan.send[PeerOf[e]], nSend[PeerOf[e]] + 1)
SendDue(e, k) ==
    /\ Waits(sends, e, k) /\ plan.faults < MaxErrors
    /\ Before(plan.send[e], k + 1) <= Before(plan.recv[PeerOf[e]], nRecv[PeerOf[e]] + 1)

(* Unless an end is closed, every receive whose data the peer has posted,   *)
(* and every send for which the peer has posted the room, completes: a      *)
(* worker survives calls that fail, if they are too few to end it.  (What   *)
(* is due stays due until it is done, and the callers post finitely often.) *)
Delivered ==
    <>[] \/ \E e \in Ends : closed[e]
         \/ \A e \in Ends, k \in Ids : ~RecvDue(e, k) /\ ~SendDue(e, k)

(* The workers implement the connection that the collectives rely on. *)
ImplementsDuplex == Conn!DuplexSpec
=============================================================================
