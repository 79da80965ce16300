--------------------------- MODULE SocketsProofs ---------------------------
(***************************************************************************)
(* For any two ends, plans, sizes of the system's buffers and numbers of   *)
(* errors: no notification of a socket thread is lost; its worker, which   *)
(* looks at the lists of requests without the mutex, implements Duplex;    *)
(* what is received is what was sent, in order, and a future is ready only *)
(* when its memory has been filled.                                        *)
(***************************************************************************)
EXTENDS RingSockets, FiniteSetTheorems, SequenceTheorems, TLAPS

Requests == [id : Ids, cells : Seq(Cells)]
Queues == [Ends -> Seq(Requests)]

TypeInv ==
    /\ sends \in Queues /\ recvs \in Queues
    /\ pcw \in [Ends -> {"top", "recv", "send", "deciding", "waiting", "woken", "returned"}]
    /\ delSend \in [Ends -> BOOLEAN] /\ delRecv \in [Ends -> BOOLEAN]
    /\ toNotify \in [Ends -> Nat]
    /\ plan \in Plans

(* A request is marked for deletion only when it is the first of its list   *)
(* and all of it has been moved; callers only append.                       *)
FlagInv ==
    \A e \in Ends : /\ delSend[e] => Conn!Finished(sends[e])
                    /\ delRecv[e] => Conn!Finished(recvs[e])

(* The mutex is held from the check to the wait. *)
WakeInv ==
    \A e \in Ends : /\ pcw[e] = "waiting" /\ HaveTasks(e) => toNotify[e] > 0
                    /\ pcw[e] = "deciding" => ~HaveTasks(e)

SocketsInv == TypeInv /\ FlagInv /\ WakeInv

-----------------------------------------------------------------------------
(* Lists of requests *)

LEMMA BlockTyped ==
    ASSUME NEW e \in Ends, NEW p \in Plans
    PROVE  /\ \A k \in DOMAIN p.send[e] :
                 k \in Ids /\ Block(e, "out", p.send[e], k) \in Blocks
           /\ \A k \in DOMAIN p.recv[e] :
                 k \in Ids /\ Block(e, "in", p.recv[e], k) \in Blocks
  <1>1. \A k \in DOMAIN p.send[e] : Block(e, "out", p.send[e], k) \in BlocksOf(e, "out", p.send[e])
    BY Zenon DEF BlocksOf
  <1>2. \A k \in DOMAIN p.recv[e] : Block(e, "in", p.recv[e], k) \in BlocksOf(e, "in", p.recv[e])
    BY Zenon DEF BlocksOf
  <1>3. BlocksOf(e, "out", p.send[e]) \cup BlocksOf(e, "in", p.recv[e]) \subseteq Blocks
    <2> DEFINE S(d, q) == BlocksOf(d, "out", q.send[d]) \cup BlocksOf(d, "in", q.recv[d])
    <2>1. Blocks = UNION {S(d, q) : d \in Ends, q \in Plans}  BY DEF Blocks
    <2> HIDE DEF S
    <2>2. S(e, p) \in {S(d, q) : d \in Ends, q \in Plans}  OBVIOUS
    <2>3. S(e, p) \subseteq Blocks  BY <2>1, <2>2
    <2> QED  BY <2>3 DEF S
  <1>4. DOMAIN p.send[e] \cup DOMAIN p.recv[e] \subseteq Ids
    <2> DEFINE S(d, q) == DOMAIN q.send[d] \cup DOMAIN q.recv[d]
    <2>1. Ids = UNION {S(d, q) : d \in Ends, q \in Plans}  BY DEF Ids
    <2> HIDE DEF S
    <2>2. S(e, p) \in {S(d, q) : d \in Ends, q \in Plans}  OBVIOUS
    <2>3. S(e, p) \subseteq Ids  BY <2>1, <2>2
    <2> QED  BY <2>3 DEF S
  <1> QED  BY <1>1, <1>2, <1>3, <1>4

LEMMA BlocksAreCells == Blocks \subseteq Seq(Cells)
  <1> SUFFICES ASSUME NEW b \in Blocks PROVE b \in Seq(Cells)
    OBVIOUS
  <1>1. \A i \in DOMAIN b : b[i] \in Cells
    BY DEF Cells
  <1>2. PICK e \in Ends, p \in Plans :
            b \in BlocksOf(e, "out", p.send[e]) \cup BlocksOf(e, "in", p.recv[e])
    BY DEF Blocks
  <1>3. p.send[e] \in Seq(Nat) /\ p.recv[e] \in Seq(Nat)
    BY SocketsAssumption DEF Plan
  <1>4. \A sizes \in Seq(Nat), side \in {"in", "out"} : b \in BlocksOf(e, side, sizes) =>
            \E n \in Nat : DOMAIN b = 1..n /\ b = [i \in 1..n |-> b[i]]
    <2> SUFFICES ASSUME NEW sizes \in Seq(Nat), NEW side \in {"in", "out"}, b \in BlocksOf(e, side, sizes)
                 PROVE  \E n \in Nat : DOMAIN b = 1..n /\ b = [i \in 1..n |-> b[i]]
      OBVIOUS
    <2>1. PICK k \in DOMAIN sizes : b = Block(e, side, sizes, k)
      BY DEF BlocksOf
    <2>2. sizes[k] \in Nat  OBVIOUS
    <2> DEFINE f(i) == <<e, side, Before(sizes, k) + i>>
    <2>3. b = [i \in 1..sizes[k] |-> f(i)]  BY <2>1 DEF Block
    <2> HIDE DEF f
    <2> QED  BY <2>2, <2>3
  <1>5. \E n \in Nat : DOMAIN b = 1..n /\ b = [i \in 1..n |-> b[i]]
    BY <1>2, <1>3, <1>4
  <1> QED  BY <1>1, <1>5

LEMMA HeadReplaced ==
    ASSUME NEW S, NEW q \in Seq(S), NEW r \in S, q # <<>>
    PROVE  [q EXCEPT ![1] = r] \in Seq(S) /\ [q EXCEPT ![1] = r] # <<>>
  OBVIOUS

LEMMA AppendKeepsHead ==
    ASSUME NEW S, NEW q \in Seq(S), NEW r \in S
    PROVE  /\ Append(q, r) \in Seq(S)
           /\ q # <<>> => Append(q, r) # <<>> /\ Head(Append(q, r)) = Head(q)
  OBVIOUS

LEMMA DropIsTail ==
    ASSUME NEW S, NEW q \in Seq(S), q # <<>>
    PROVE  SubSeq(q, 2, Len(q)) = Tail(q) /\ Tail(q) \in Seq(S)
  OBVIOUS

LEMMA PostedKeeps ==
    ASSUME NEW queue \in Queues, NEW e \in Ends, NEW k \in Ids, NEW cells \in Blocks
    PROVE  LET after == Conn!Posted(queue, e, k, cells)
           IN  /\ after \in Queues
               /\ \A d \in Ends : d # e => after[d] = queue[d]
               /\ cells = <<>> => after = queue
               /\ \A d \in Ends : Conn!Finished(queue[d]) => Conn!Finished(after[d])
  <1> DEFINE r == Conn!NewRequest(k, cells)
             after == Conn!Posted(queue, e, k, cells)
  <1>1. CASE cells = <<>>
    BY <1>1 DEF Conn!Posted
  <1>2. CASE cells # <<>>
    <2>1. r \in Requests
      BY BlocksAreCells DEF Conn!NewRequest, Requests
    <2>2. after = [queue EXCEPT ![e] = Append(queue[e], r)]
      BY <1>2 DEF Conn!Posted
    <2>3. queue[e] \in Seq(Requests)  BY DEF Queues
    <2> HIDE DEF r, after
    <2>4. /\ Append(queue[e], r) \in Seq(Requests)
          /\ queue[e] # <<>> => /\ Append(queue[e], r) # <<>>
                                /\ Head(Append(queue[e], r)) = Head(queue[e])
      BY <2>1, <2>3, AppendKeepsHead
    <2>5. after \in Queues /\ \A d \in Ends : d # e => after[d] = queue[d]
      BY <2>2, <2>4 DEF Queues
    <2>6. after[e] = Append(queue[e], r)
      BY <2>2 DEF Queues
    <2> QED  BY <1>2, <2>4, <2>5, <2>6 DEF Conn!Finished, after
  <1> QED  BY <1>1, <1>2

Moved(queue, e, n) ==
    [queue EXCEPT ![e] = [queue[e] EXCEPT ![1] = Conn!Advanced(Head(queue[e]), n)]]

LEMMA MovedKeeps ==
    ASSUME NEW queue \in Queues, NEW e \in Ends, NEW n \in Nat, queue[e] # <<>>
    PROVE  Moved(queue, e, n) \in Queues /\ Moved(queue, e, n)[e] # <<>>
  <1> DEFINE r == Conn!Advanced(Head(queue[e]), n)
  <1>1. queue[e] \in Seq(Requests)  BY DEF Queues
  <1>2. Head(queue[e]) \in Requests  BY <1>1
  <1>3. r \in Requests
    <2>1. Head(queue[e]).cells \in Seq(Cells)  BY <1>2 DEF Requests
    <2>2. SubSeq(Head(queue[e]).cells, n + 1, Len(Head(queue[e]).cells)) \in Seq(Cells)
      BY <2>1
    <2> QED  BY <1>2, <2>2 DEF Conn!Advanced, Requests
  <1> HIDE DEF r
  <1>4. [queue[e] EXCEPT ![1] = r] \in Seq(Requests) /\ [queue[e] EXCEPT ![1] = r] # <<>>
    BY <1>1, <1>3, HeadReplaced
  <1>5. Moved(queue, e, n) = [queue EXCEPT ![e] = [queue[e] EXCEPT ![1] = r]]
    BY DEF r, Moved
  <1> QED  BY <1>4, <1>5 DEF Queues

LEMMA WithoutKeeps ==
    ASSUME NEW queue \in Queues, NEW e \in Ends, NEW done \in BOOLEAN,
           done => Conn!Finished(queue[e])
    PROVE  LET after == Without(queue, e, done)
           IN  /\ after \in Queues
               /\ \A d \in Ends : d # e => after[d] = queue[d]
               /\ \/ Conn!Finished(queue[e]) /\ after = [queue EXCEPT ![e] = Tail(queue[e])]
                  \/ after = queue
  <1>1. CASE done
    <2>1. queue[e] \in Seq(Requests) /\ queue[e] # <<>>
      BY <1>1 DEF Queues, Conn!Finished
    <2>2. SubSeq(queue[e], 2, Len(queue[e])) = Tail(queue[e]) /\ Tail(queue[e]) \in Seq(Requests)
      BY <2>1, DropIsTail
    <2>3. Without(queue, e, done) = [queue EXCEPT ![e] = Tail(queue[e])]
      BY <1>1, <2>2 DEF Without
    <2> QED  BY <1>1, <2>2, <2>3 DEF Queues
  <1>2. CASE ~done
    BY <1>2 DEF Without
  <1> QED  BY <1>1, <1>2

-----------------------------------------------------------------------------
(* One lemma for each group of steps: what it does is a step of Duplex, or  *)
(* leaves the data alone.                                                   *)

LEMMA PostIsPost ==
    ASSUME SocketsInv, NEW e \in Ends, Send(e) \/ Recv(e)
    PROVE  SocketsInv' /\ Conn!DuplexNext
  <1> USE DEF SocketsInv
  <1>1. /\ pcw[e] # "deciding" /\ UNCHANGED <<pcw, delSend, delRecv, plan>>
    BY DEF Send, Recv, HasMutex, workerVars, closeVars
  <1>2. CASE Send(e)
    <2> DEFINE k == nSend[e] + 1  cells == SendBlock(e, k)
    <2>1. k \in Ids /\ cells \in Blocks
      BY <1>2, BlockTyped DEF Send, SendBlock, TypeInv
    <2>2. /\ sends' = Conn!Posted(sends, e, k, cells) /\ UNCHANGED <<recvs, pipe, mem>>
          /\ toNotify' = Announced(e, cells) /\ Conn!PostSend(e, k, cells)
      BY <1>2 DEF Send, Conn!PostSend
    <2> HIDE DEF k, cells
    <2>3. /\ sends' \in Queues /\ \A d \in Ends : d # e => sends'[d] = sends[d]
          /\ cells = <<>> => sends' = sends
          /\ \A d \in Ends : Conn!Finished(sends[d]) => Conn!Finished(sends'[d])
      BY <2>1, <2>2, PostedKeeps DEF TypeInv
    <2>4. /\ toNotify' \in [Ends -> Nat] /\ \A d \in Ends : d # e => toNotify'[d] = toNotify[d]
          /\ cells = <<>> => toNotify' = toNotify
          /\ cells # <<>> => toNotify'[e] > 0
      BY <2>2 DEF Announced, TypeInv
    <2>5. TypeInv'  BY <1>1, <2>2, <2>3, <2>4 DEF TypeInv
    <2>6. FlagInv'  BY <1>1, <2>2, <2>3 DEF FlagInv
    <2>7. WakeInv'  BY <1>1, <2>2, <2>3, <2>4 DEF WakeInv, HaveTasks
    <2> QED  BY <2>1, <2>2, <2>5, <2>6, <2>7 DEF Conn!DuplexNext
  <1>3. CASE Recv(e)
    <2> DEFINE k == nRecv[e] + 1  cells == RecvBlock(e, k)
    <2>1. k \in Ids /\ cells \in Blocks
      BY <1>3, BlockTyped DEF Recv, RecvBlock, TypeInv
    <2>2. /\ recvs' = Conn!Posted(recvs, e, k, cells) /\ UNCHANGED <<sends, pipe, mem>>
          /\ toNotify' = Announced(e, cells) /\ Conn!PostRecv(e, k, cells)
      BY <1>3 DEF Recv, Conn!PostRecv
    <2> HIDE DEF k, cells
    <2>3. /\ recvs' \in Queues /\ \A d \in Ends : d # e => recvs'[d] = recvs[d]
          /\ cells = <<>> => recvs' = recvs
          /\ \A d \in Ends : Conn!Finished(recvs[d]) => Conn!Finished(recvs'[d])
      BY <2>1, <2>2, PostedKeeps DEF TypeInv
    <2>4. /\ toNotify' \in [Ends -> Nat] /\ \A d \in Ends : d # e => toNotify'[d] = toNotify[d]
          /\ cells = <<>> => toNotify' = toNotify
          /\ cells # <<>> => toNotify'[e] > 0
      BY <2>2 DEF Announced, TypeInv
    <2>5. TypeInv'  BY <1>1, <2>2, <2>3, <2>4 DEF TypeInv
    <2>6. FlagInv'  BY <1>1, <2>2, <2>3 DEF FlagInv
    <2>7. WakeInv'  BY <1>1, <2>2, <2>3, <2>4 DEF WakeInv, HaveTasks
    <2> QED  BY <2>1, <2>2, <2>5, <2>6, <2>7 DEF Conn!DuplexNext
  <1> QED  BY <1>2, <1>3

LEMMA TopIsRetire ==
    ASSUME SocketsInv, NEW e \in Ends, TopOfLoop(e)
    PROVE  SocketsInv' /\ Conn!DuplexNext
  <1> USE DEF SocketsInv
  <1>1. /\ sends' = Without(sends, e, delSend[e]) /\ recvs' = Without(recvs, e, delRecv[e])
        /\ FlagsDown(e) /\ UNCHANGED <<pipe, mem, toNotify, plan>>
    BY DEF TopOfLoop, postVars, closeVars
  <1>2. delSend[e] \in BOOLEAN /\ delRecv[e] \in BOOLEAN
    BY DEF TypeInv
  <1>3. /\ sends' \in Queues /\ \A d \in Ends : d # e => sends'[d] = sends[d]
        /\ \/ Conn!Finished(sends[e]) /\ sends' = [sends EXCEPT ![e] = Tail(sends[e])]
           \/ sends' = sends
    BY <1>1, <1>2, WithoutKeeps DEF TypeInv, FlagInv
  <1>4. /\ recvs' \in Queues /\ \A d \in Ends : d # e => recvs'[d] = recvs[d]
        /\ \/ Conn!Finished(recvs[e]) /\ recvs' = [recvs EXCEPT ![e] = Tail(recvs[e])]
           \/ recvs' = recvs
    BY <1>1, <1>2, WithoutKeeps DEF TypeInv, FlagInv
  <1>5. /\ delSend' = [delSend EXCEPT ![e] = FALSE] /\ delRecv' = [delRecv EXCEPT ![e] = FALSE]
    BY <1>1 DEF FlagsDown
  <1>6. /\ pcw' \in [Ends -> {"top", "recv", "send", "deciding", "waiting", "woken", "returned"}]
        /\ \A d \in Ends : d # e => pcw'[d] = pcw[d]
        /\ pcw'[e] # "waiting"
        /\ pcw'[e] = "deciding" => sends'[e] = <<>> /\ recvs'[e] = <<>>
    BY DEF TopOfLoop, Goto, TypeInv
  <1>7. TypeInv'  BY <1>1, <1>3, <1>4, <1>5, <1>6 DEF TypeInv
  <1>8. FlagInv'  BY <1>3, <1>4, <1>5 DEF FlagInv, TypeInv
  <1>9. WakeInv'  BY <1>1, <1>3, <1>4, <1>6 DEF WakeInv, HaveTasks
  <1>10. Conn!Retire(e)  BY <1>1, <1>3, <1>4 DEF Conn!Retire
  <1> QED  BY <1>7, <1>8, <1>9, <1>10 DEF Conn!DuplexNext

LEMMA TryIsMove ==
    ASSUME SocketsInv, NEW e \in Ends, TryRecv(e) \/ TrySend(e)
    PROVE  SocketsInv' /\ [Conn!DuplexNext]_Conn!duplexVars
  <1> USE DEF SocketsInv
  <1>1. /\ UNCHANGED <<toNotify, plan>>
        /\ pcw' \in [Ends -> {"top", "recv", "send", "deciding", "waiting", "woken", "returned"}]
        /\ \A d \in Ends : d # e => pcw'[d] = pcw[d]
        /\ pcw'[e] \notin {"waiting", "deciding"}
    BY DEF TryRecv, TrySend, Goto, TypeInv, postVars, closeVars
  <1>2. CASE UNCHANGED <<sends, recvs, pipe, mem, delSend, delRecv>>
    <2>1. TypeInv'  BY <1>1, <1>2 DEF TypeInv
    <2>2. FlagInv'  BY <1>2 DEF FlagInv
    <2>3. WakeInv'  BY <1>1, <1>2 DEF WakeInv, HaveTasks
    <2> QED  BY <1>2, <2>1, <2>2, <2>3 DEF Conn!duplexVars
  <1>3. ASSUME NEW n \in 1..Capacity, Conn!MoveIn(e, n), UNCHANGED delSend,
               delRecv' = [delRecv EXCEPT ![e] = EmptyAfter(recvs', e)]
        PROVE  SocketsInv' /\ Conn!DuplexNext
    <2>1. /\ recvs[e] # <<>> /\ UNCHANGED sends
          /\ recvs' = Moved(recvs, e, n)
      BY <1>3 DEF Conn!MoveIn, Conn!CanReceive, Moved
    <2>2. /\ recvs' \in Queues /\ recvs'[e] # <<>>
          /\ \A d \in Ends : d # e => recvs'[d] = recvs[d]
      <3>1. n \in Nat  BY SocketsAssumption
      <3>2. recvs \in Queues  BY DEF TypeInv
      <3>3. \A d \in Ends : d # e => recvs'[d] = recvs[d]
        BY <2>1, <3>2 DEF Moved, Queues
      <3> QED  BY <2>1, <3>1, <3>2, <3>3, MovedKeeps
    <2>3. EmptyAfter(recvs', e) \in BOOLEAN
      BY DEF EmptyAfter
    <2>4. TypeInv'  BY <1>1, <1>3, <2>1, <2>2, <2>3 DEF TypeInv
    <2>5. FlagInv'  BY <1>3, <2>1, <2>2 DEF FlagInv, TypeInv, EmptyAfter, Conn!Finished
    <2>6. WakeInv'  BY <1>1, <2>1, <2>2 DEF WakeInv, HaveTasks
    <2> QED  BY <1>3, <2>4, <2>5, <2>6 DEF Conn!DuplexNext
  <1>4. ASSUME NEW n \in 1..Capacity, Conn!MoveOut(e, n), UNCHANGED delRecv,
               delSend' = [delSend EXCEPT ![e] = EmptyAfter(sends', e)]
        PROVE  SocketsInv' /\ Conn!DuplexNext
    <2>1. /\ sends[e] # <<>> /\ UNCHANGED recvs
          /\ sends' = Moved(sends, e, n)
      BY <1>4 DEF Conn!MoveOut, Conn!CanSend, Moved
    <2>2. /\ sends' \in Queues /\ sends'[e] # <<>>
          /\ \A d \in Ends : d # e => sends'[d] = sends[d]
      <3>1. n \in Nat  BY SocketsAssumption
      <3>2. sends \in Queues  BY DEF TypeInv
      <3>3. \A d \in Ends : d # e => sends'[d] = sends[d]
        BY <2>1, <3>2 DEF Moved, Queues
      <3> QED  BY <2>1, <3>1, <3>2, <3>3, MovedKeeps
    <2>3. EmptyAfter(sends', e) \in BOOLEAN
      BY DEF EmptyAfter
    <2>4. TypeInv'  BY <1>1, <1>4, <2>1, <2>2, <2>3 DEF TypeInv
    <2>5. FlagInv'  BY <1>4, <2>1, <2>2 DEF FlagInv, TypeInv, EmptyAfter, Conn!Finished
    <2>6. WakeInv'  BY <1>1, <2>1, <2>2 DEF WakeInv, HaveTasks
    <2> QED  BY <1>4, <2>4, <2>5, <2>6 DEF Conn!DuplexNext
  <1>5. CASE TryRecv(e)
    <2>1. \/ UNCHANGED <<sends, recvs, pipe, mem, delSend, delRecv>>
          \/ /\ \E n \in 1..Capacity : Conn!MoveIn(e, n)
             /\ delRecv' = [delRecv EXCEPT ![e] = EmptyAfter(recvs', e)]
             /\ UNCHANGED delSend
      BY <1>5 DEF TryRecv, dataVars
    <2> QED  BY <1>2, <1>3, <2>1
  <1>6. CASE TrySend(e)
    <2>1. \/ UNCHANGED <<sends, recvs, pipe, mem, delSend, delRecv>>
          \/ /\ \E n \in 1..Capacity : Conn!MoveOut(e, n)
             /\ delSend' = [delSend EXCEPT ![e] = EmptyAfter(sends', e)]
             /\ UNCHANGED delRecv
      BY <1>6 DEF TrySend, dataVars
    <2> QED  BY <1>2, <1>4, <2>1
  <1> QED  BY <1>5, <1>6

LEMMA WaitingKeeps ==
    ASSUME SocketsInv, NEW e \in Ends,
           \/ StartWaiting(e) \/ Wake(e) \/ SpuriousWakeup(e) \/ Notify(e)
           \/ Close(e) \/ SetStop(e)
    PROVE  SocketsInv' /\ UNCHANGED Conn!duplexVars
  <1> USE DEF SocketsInv
  <1>1. UNCHANGED <<sends, recvs, pipe, mem, delSend, delRecv, plan>>
    BY DEF StartWaiting, Wake, SpuriousWakeup, Notify, Close, SetStop,
           dataVars, workerVars, closeVars
  <1>2. CASE StartWaiting(e) \/ Wake(e) \/ SpuriousWakeup(e)
    <2>1. /\ UNCHANGED toNotify
          /\ pcw' \in [Ends -> {"top", "recv", "send", "deciding", "waiting", "woken", "returned"}]
          /\ \A d \in Ends : d # e => pcw'[d] = pcw[d]
          /\ pcw'[e] = "waiting" => pcw[e] = "deciding"
          /\ pcw'[e] = "deciding" => ~HaveTasks(e)
      BY <1>2 DEF StartWaiting, Wake, SpuriousWakeup, Goto, TypeInv, postVars
    <2>2. TypeInv'  BY <1>1, <2>1 DEF TypeInv
    <2>3. WakeInv'  BY <1>1, <2>1 DEF WakeInv, HaveTasks
    <2> QED  BY <1>1, <2>2, <2>3 DEF FlagInv, Conn!duplexVars
  <1>3. CASE Notify(e)
    <2>1. toNotify' = [toNotify EXCEPT ![e] = @ - 1] /\ toNotify[e] > 0 /\ pcw' = Awakened(e)
      BY <1>3 DEF Notify, NotifyOne
    <2>2. /\ pcw' \in [Ends -> {"top", "recv", "send", "deciding", "waiting", "woken", "returned"}]
          /\ \A d \in Ends : d # e => pcw'[d] = pcw[d]
          /\ pcw'[e] # "waiting" /\ (pcw'[e] = "deciding" => pcw[e] = "deciding")
      BY <2>1 DEF Awakened, TypeInv
    <2>3. /\ toNotify' \in [Ends -> Nat] /\ \A d \in Ends : d # e => toNotify'[d] = toNotify[d]
      BY <2>1 DEF TypeInv
    <2>4. TypeInv'  BY <1>1, <2>2, <2>3 DEF TypeInv
    <2>5. WakeInv'  BY <1>1, <2>2, <2>3 DEF WakeInv, HaveTasks
    <2> QED  BY <1>1, <2>4, <2>5 DEF FlagInv, Conn!duplexVars
  <1>4. CASE Close(e) \/ SetStop(e)
    <2>1. /\ UNCHANGED pcw /\ toNotify' \in [Ends -> Nat]
          /\ \A d \in Ends : toNotify'[d] = toNotify[d] \/ toNotify'[d] > 0
      BY <1>4 DEF Close, SetStop, workerVars, postVars, TypeInv
    <2>2. TypeInv'  BY <1>1, <2>1 DEF TypeInv
    <2>3. WakeInv'  BY <1>1, <2>1 DEF WakeInv, HaveTasks
    <2> QED  BY <1>1, <2>2, <2>3 DEF FlagInv, Conn!duplexVars
  <1> QED  BY <1>2, <1>3, <1>4

LEMMA InitSockets == Init => SocketsInv /\ Conn!DuplexInit
  <1> SUFFICES ASSUME Init PROVE SocketsInv /\ Conn!DuplexInit
    OBVIOUS
  <1>1. TypeInv  BY DEF Init, TypeInv, Queues
  <1>2. FlagInv /\ WakeInv  BY DEF Init, FlagInv, WakeInv, HaveTasks
  <1>3. \A c \in Cells : c[1] \in Ends
    <2> SUFFICES ASSUME NEW b \in Blocks, NEW i \in DOMAIN b PROVE b[i][1] \in Ends
      BY DEF Cells
    <2>1. PICK e \in Ends, p \in Plans :
              b \in BlocksOf(e, "out", p.send[e]) \cup BlocksOf(e, "in", p.recv[e])
      BY DEF Blocks
    <2>2. PICK side, sizes, k : b = Block(e, side, sizes, k)
      BY <2>1 DEF BlocksOf
    <2> QED  BY <2>2 DEF Block
  <1>4. \A c \in Cells : <<c[1], c[3]>> \in Ends \X {d[3] : d \in Cells}
    BY <1>3
  <1>5. mem \in [Cells -> (Ends \X {d[3] : d \in Cells}) \cup {Nothing}]
    BY <1>4 DEF Init
  <1> QED  BY <1>1, <1>2, <1>5 DEF Init, SocketsInv, Conn!DuplexInit

LEMMA NextSockets ==
    ASSUME SocketsInv, [Next]_vars
    PROVE  SocketsInv' /\ [Conn!DuplexNext]_Conn!duplexVars
  <1>1. CASE UNCHANGED vars
    BY <1>1 DEF vars, dataVars, workerVars, postVars, closeVars, SocketsInv, TypeInv, FlagInv,
                WakeInv, HaveTasks, Conn!duplexVars
  <1>2. CASE Next
    <2>1. PICK e \in Ends : \/ Send(e) \/ Recv(e)
                            \/ TopOfLoop(e)
                            \/ TryRecv(e) \/ TrySend(e)
                            \/ StartWaiting(e) \/ Wake(e) \/ SpuriousWakeup(e)
                            \/ Notify(e) \/ Close(e) \/ SetStop(e)
      BY <1>2 DEF Next, Worker, User
    <2> QED  BY <2>1, PostIsPost, TopIsRetire, TryIsMove, WaitingKeeps
  <1> QED  BY <1>1, <1>2

-----------------------------------------------------------------------------
(* No worker sleeps on a request of which nobody will tell it.              *)
THEOREM SocketWakeupCorrect == Spec => []NoLostWakeup
  <1>1. SocketsInv => NoLostWakeup
    BY DEF SocketsInv, WakeInv, NoLostWakeup
  <1>2. SocketsInv /\ [Next]_vars => SocketsInv'
    BY NextSockets
  <1> QED  BY <1>1, <1>2, InitSockets, PTL DEF Spec

(* The workers implement the connection that RingGroup builds on, whatever  *)
(* fails and whoever closes: a request leaves the lists only when all of it *)
(* has been moved, though lists and flags are used in different critical    *)
(* sections.                                                                *)
THEOREM SocketsImplementDuplex == Spec => ImplementsDuplex
  <1>1. SocketsInv /\ [Next]_vars => SocketsInv'
    BY NextSockets
  <1>2. SocketsInv /\ [Next]_vars => [Conn!DuplexNext]_Conn!duplexVars
    BY NextSockets
  <1> QED  BY <1>1, <1>2, InitSockets, PTL DEF Spec, ImplementsDuplex, Conn!DuplexSpec

-----------------------------------------------------------------------------
(* What is under way *)

LEMMA PeerFacts ==
    ASSUME NEW e \in Ends
    PROVE  PeerOf[e] \in Ends /\ PeerOf[e] # e /\ PeerOf[PeerOf[e]] = e
  <1>1. PICK a \in Ends, b \in Ends : a # b /\ Ends = {a, b}
    BY SocketsAssumption
  <1>2. \A d \in Ends : PeerOf[d] \in Ends /\ PeerOf[d] # d
    BY <1>1 DEF PeerOf
  <1> QED  BY <1>1, <1>2

LEMMA PlanFacts ==
    ASSUME TypeInv, NEW e \in Ends
    PROVE  plan.send[e] \in Seq(Nat) /\ plan.recv[e] \in Seq(Nat)
  BY SocketsAssumption DEF TypeInv, Plan

(* The cells of requests are counted one request after another. *)
LEMMA BeforeFacts ==
    ASSUME NEW sizes \in Seq(Nat)
    PROVE  /\ Before(sizes, 1) = 0
           /\ \A k \in 1..Len(sizes) + 1 : Before(sizes, k) \in Nat
           /\ \A k \in DOMAIN sizes : Before(sizes, k + 1) = Before(sizes, k) + sizes[k]
  <1> DEFINE Cut(j) == {j} \X (1..sizes[j])
             S(k) == UNION {Cut(j) : j \in 1..k - 1}
  <1>1. \A k : Before(sizes, k) = Cardinality(S(k))
    BY DEF Before
  <1>2. \A j \in DOMAIN sizes : IsFiniteSet(Cut(j)) /\ Cardinality(Cut(j)) = sizes[j]
    <2> SUFFICES ASSUME NEW j \in DOMAIN sizes
                 PROVE  IsFiniteSet(Cut(j)) /\ Cardinality(Cut(j)) = sizes[j]
      OBVIOUS
    <2>1. sizes[j] \in Nat
      OBVIOUS
    <2>2. IsFiniteSet(1..sizes[j]) /\ Cardinality(1..sizes[j]) = sizes[j]
      BY <2>1, FS_Interval
    <2>3. IsFiniteSet({j}) /\ Cardinality({j}) = 1
      BY FS_Singleton
    <2>4. /\ IsFiniteSet(Cut(j))
          /\ Cardinality(Cut(j)) = Cardinality({j}) * Cardinality(1..sizes[j])
      BY <2>2, <2>3, FS_Product, Zenon
    <2> QED
      BY <2>1, <2>2, <2>3, <2>4
  <1>3. \A k, j : j \in DOMAIN sizes => S(k) \cap Cut(j) = {x \in Cut(j) : j \in 1..k - 1}
    OBVIOUS
  <1>4. \A k \in DOMAIN sizes : S(k + 1) = S(k) \cup Cut(k)
    <2> SUFFICES ASSUME NEW k \in DOMAIN sizes PROVE S(k + 1) = S(k) \cup Cut(k)
      OBVIOUS
    <2>1. \A j : j \in 1..(k + 1) - 1 <=> j \in 1..k - 1 \/ j = k
      OBVIOUS
    <2> HIDE DEF Cut
    <2> QED
      BY <2>1
  <1>5. \A k \in 1..Len(sizes) + 1 : IsFiniteSet(S(k))
    <2> SUFFICES ASSUME NEW k \in 1..Len(sizes) + 1 PROVE IsFiniteSet(S(k))
      OBVIOUS
    <2> DEFINE T == {Cut(j) : j \in 1..k - 1}
               f == [j \in 1..k - 1 |-> Cut(j)]
    <2>1. \A j \in 1..k - 1 : j \in DOMAIN sizes
      OBVIOUS
    <2>2. IsFiniteSet(1..k - 1)
      BY FS_Interval
    <2> HIDE DEF Cut
    <2>3. f \in Surjection(1..k - 1, T)
      BY DEF Surjection
    <2>4. IsFiniteSet(T)
      BY <2>2, <2>3, FS_Surjection
    <2>5. \A U \in T : IsFiniteSet(U)
      BY <1>2, <2>1
    <2>6. IsFiniteSet(UNION T)
      BY <2>4, <2>5, FS_UNION
    <2> QED
      BY <2>6
  <1>6. S(1) = {}
    OBVIOUS
  <1> HIDE DEF S
  <1>7. \A k \in 1..Len(sizes) + 1 : Cardinality(S(k)) \in Nat
    BY <1>5, FS_CardinalityType
  <1>8. \A k \in DOMAIN sizes : Cardinality(S(k + 1)) = Cardinality(S(k)) + sizes[k]
    <2> SUFFICES ASSUME NEW k \in DOMAIN sizes
                 PROVE  Cardinality(S(k + 1)) = Cardinality(S(k)) + sizes[k]
      OBVIOUS
    <2>1. k \in 1..Len(sizes) + 1 /\ sizes[k] \in Nat /\ k \notin 1..k - 1
      OBVIOUS
    <2>2. S(k) \cap Cut(k) = {}
      BY <1>3, <2>1
    <2> HIDE DEF Cut
    <2>3. Cardinality(S(k) \cup Cut(k)) =
              Cardinality(S(k)) + Cardinality(Cut(k)) - Cardinality(S(k) \cap Cut(k))
      BY <1>2, <1>5, <2>1, FS_Union
    <2>4. Cardinality(S(k) \cap Cut(k)) = 0
      BY <2>2, FS_EmptySet
    <2>5. S(k + 1) = S(k) \cup Cut(k) /\ Cardinality(Cut(k)) = sizes[k]
      BY <1>2, <1>4
    <2>6. Cardinality(S(k)) \in Nat
      BY <1>7, <2>1
    <2>7. Cardinality(S(k + 1)) = Cardinality(S(k)) + Cardinality(Cut(k)) - 0
      BY <2>3, <2>4, <2>5, Zenon
    <2> HIDE DEF S
    <2> QED
      BY <2>1, <2>5, <2>6, <2>7
  <1>9. Cardinality(S(1)) = 0
    BY <1>6, FS_EmptySet
  <1> QED
    BY <1>1, <1>7, <1>8, <1>9

(* A cell is the n-th cell that an end sends or receives. *)
LEMMA CellFacts ==
    ASSUME NEW c \in Cells
    PROVE  c = <<c[1], c[2], c[3]>> /\ c[1] \in Ends /\ c[2] \in {"in", "out"} /\ c[3] \in Nat \ {0}
  <1>1. PICK b \in Blocks : \E i \in DOMAIN b : c = b[i]
    BY DEF Cells
  <1>2. PICK e \in Ends, p \in Plans :
            b \in BlocksOf(e, "out", p.send[e]) \cup BlocksOf(e, "in", p.recv[e])
    BY DEF Blocks
  <1>3. p.send[e] \in Seq(Nat) /\ p.recv[e] \in Seq(Nat)
    BY SocketsAssumption DEF Plan
  <1>4. PICK side \in {"in", "out"}, sizes \in Seq(Nat) :
            \E k \in DOMAIN sizes : b = Block(e, side, sizes, k)
    BY <1>2, <1>3 DEF BlocksOf
  <1>5. PICK k \in DOMAIN sizes : b = Block(e, side, sizes, k)
    BY <1>4
  <1>6. sizes[k] \in Nat /\ Before(sizes, k) \in Nat
    <2>1. k \in 1..Len(sizes) + 1
      OBVIOUS
    <2> QED
      BY <2>1, BeforeFacts
  <1>7. PICK i \in DOMAIN b : c = b[i]
    BY <1>1
  <1>8. i \in 1..sizes[k] /\ c = <<e, side, Before(sizes, k) + i>>
    BY <1>5, <1>7 DEF Block
  <1> QED
    BY <1>6, <1>8

(* A queue of end e: requests for the cells after the first x, in order, up *)
(* to those of the n-th request.  What is not in it any more was moved.     *)
EndOf(q, sizes, x, i) == IF i = 0 THEN x ELSE Before(sizes, q[i].id + 1)
RunOf(e, side, a, b) == [j \in 1..b - a |-> <<e, side, a + j>>]

Lined(q, e, side, sizes, n, x) ==
    /\ \A i \in DOMAIN q :
         /\ q[i].id \in 1..n
         /\ EndOf(q, sizes, x, i - 1) <= EndOf(q, sizes, x, i)
         /\ q[i].cells = RunOf(e, side, EndOf(q, sizes, x, i - 1), EndOf(q, sizes, x, i))
    /\ EndOf(q, sizes, x, Len(q)) = Before(sizes, n + 1)
    /\ \A k \in 1..n : \/ \E i \in DOMAIN q : q[i].id = k
                       \/ sizes[k] = 0 \/ Before(sizes, k + 1) <= x

LEMMA EndFacts ==
    ASSUME NEW q \in Seq(Requests), NEW e, NEW side, NEW sizes \in Seq(Nat),
           NEW n \in 0..Len(sizes), NEW x \in Nat, Lined(q, e, side, sizes, n, x)
    PROVE  /\ \A i \in 0..Len(q) : EndOf(q, sizes, x, i) \in Nat
           /\ \A i \in DOMAIN q : q[i].id + 1 \in 1..Len(sizes) + 1
  <1>1. \A i \in DOMAIN q : q[i].id + 1 \in 1..Len(sizes) + 1
    BY DEF Lined
  <1>2. ASSUME NEW i \in 0..Len(q) PROVE EndOf(q, sizes, x, i) \in Nat
    <2>1. CASE i = 0
      BY <2>1 DEF EndOf
    <2>2. CASE i # 0
      <3>1. i \in DOMAIN q
        BY <2>2
      <3>2. Before(sizes, q[i].id + 1) \in Nat
        BY <1>1, <3>1, BeforeFacts
      <3> QED
        BY <2>2, <3>2 DEF EndOf
    <2> QED
      BY <2>1, <2>2
  <1> QED
    BY <1>1, <1>2

LEMMA LinedPost ==
    ASSUME NEW q \in Seq(Requests), NEW e, NEW side, NEW sizes \in Seq(Nat),
           NEW n \in 0..Len(sizes), NEW x \in Nat, Lined(q, e, side, sizes, n, x),
           n + 1 \in DOMAIN sizes,
           NEW u, u = IF Block(e, side, sizes, n + 1) = <<>> THEN q
                      ELSE Append(q, Conn!NewRequest(n + 1, Block(e, side, sizes, n + 1)))
    PROVE  Lined(u, e, side, sizes, n + 1, x)
  <1> DEFINE k == n + 1  b == Block(e, side, sizes, k)  r == Conn!NewRequest(k, b)
  <1>1. /\ Before(sizes, k) \in Nat /\ Before(sizes, k + 1) = Before(sizes, k) + sizes[k]
        /\ sizes[k] \in Nat /\ k \in Nat \ {0}
    <2>1. k \in 1..Len(sizes) + 1
      OBVIOUS
    <2> QED
      BY <2>1, BeforeFacts
  <1>2. b = RunOf(e, side, Before(sizes, k), Before(sizes, k + 1))
    <2>1. Before(sizes, k + 1) - Before(sizes, k) = sizes[k]
      BY <1>1
    <2> HIDE DEF k
    <2> QED
      BY <2>1 DEF Block, RunOf
  <1>3. CASE b = <<>>
    <2>1. u = q
      BY <1>3
    <2>2. sizes[k] = 0
      <3> SUFFICES ASSUME sizes[k] # 0 PROVE FALSE
        OBVIOUS
      <3>1. 1 \in 1..sizes[k] /\ DOMAIN b = 1..sizes[k]
        BY <1>1 DEF Block
      <3> QED
        BY <1>3, <3>1
    <2>3. Before(sizes, k + 1) = Before(sizes, k)
      BY <1>1, <2>2
    <2>4. \A j \in 1..k : j \in 1..n \/ j = k
      OBVIOUS
    <2>5. \A j \in 1..n : j \in 1..k
      OBVIOUS
    <2> HIDE DEF b
    <2> QED
      BY <2>1, <2>2, <2>3, <2>4, <2>5 DEF Lined
  <1>4. CASE b # <<>>
    <2>1. /\ u = Append(q, r) /\ r.id = k /\ r.cells = b
      BY <1>4 DEF Conn!NewRequest
    <2> HIDE DEF r, b
    <2>2. /\ Len(q) \in Nat /\ Len(u) = Len(q) + 1 /\ DOMAIN u = 1..Len(q) + 1
          /\ DOMAIN q = 1..Len(q)
          /\ \A i \in 1..Len(q) : u[i] = q[i]
          /\ u[Len(q) + 1] = r
      BY <2>1
    <2>3. \A i \in 0..Len(q) : EndOf(u, sizes, x, i) = EndOf(q, sizes, x, i)
      BY <2>2 DEF EndOf
    <2>4. EndOf(u, sizes, x, Len(u)) = Before(sizes, k + 1)
      BY <2>1, <2>2 DEF EndOf
    <2>5. EndOf(q, sizes, x, Len(q)) = Before(sizes, k)
      BY DEF Lined
    <2>6. ASSUME NEW i \in DOMAIN u
          PROVE  /\ u[i].id \in 1..k
                 /\ EndOf(u, sizes, x, i - 1) <= EndOf(u, sizes, x, i)
                 /\ u[i].cells = RunOf(e, side, EndOf(u, sizes, x, i - 1), EndOf(u, sizes, x, i))
      <3>1. CASE i \in DOMAIN q
        <4>1. i \in 0..Len(q) /\ i - 1 \in 0..Len(q) /\ u[i] = q[i]
          BY <2>2, <3>1
        <4>2. /\ EndOf(u, sizes, x, i) = EndOf(q, sizes, x, i)
              /\ EndOf(u, sizes, x, i - 1) = EndOf(q, sizes, x, i - 1)
          BY <2>3, <4>1
        <4>3. /\ q[i].id \in 1..n
              /\ EndOf(q, sizes, x, i - 1) <= EndOf(q, sizes, x, i)
              /\ q[i].cells = RunOf(e, side, EndOf(q, sizes, x, i - 1), EndOf(q, sizes, x, i))
          BY <3>1 DEF Lined
        <4>4. 1..n \subseteq 1..k
          OBVIOUS
        <4> HIDE DEF k
        <4> QED
          BY <4>1, <4>2, <4>3, <4>4
      <3>2. CASE i \notin DOMAIN q
        <4>1. i = Len(q) + 1 /\ i - 1 = Len(q) /\ Len(q) \in 0..Len(q)
          BY <2>2, <3>2
        <4>2. EndOf(u, sizes, x, i - 1) = Before(sizes, k)
          BY <2>3, <2>5, <4>1
        <4>3. EndOf(u, sizes, x, i) = Before(sizes, k + 1)
          BY <2>2, <2>4, <4>1
        <4>4. u[i] = r /\ k \in 1..k
          BY <2>2, <4>1
        <4>5. Before(sizes, k) <= Before(sizes, k + 1)
          BY <1>1
        <4>6. u[i].id = k /\ u[i].cells = b
          BY <2>1, <4>4
        <4> HIDE DEF k
        <4> QED
          BY <1>2, <4>2, <4>3, <4>4, <4>5, <4>6
      <3> QED
        BY <3>1, <3>2
    <2>7. ASSUME NEW j \in 1..k
          PROVE  \/ \E i \in DOMAIN u : u[i].id = j
                 \/ sizes[j] = 0 \/ Before(sizes, j + 1) <= x
      <3>1. CASE j = k
        <4>1. Len(q) + 1 \in DOMAIN u
          BY <2>2
        <4> QED
          BY <2>1, <2>2, <3>1, <4>1
      <3>2. CASE j # k
        <4>1. j \in 1..n
          BY <3>2
        <4>2. \A i \in DOMAIN q : i \in DOMAIN u /\ u[i] = q[i]
          BY <2>2
        <4> QED
          BY <4>1, <4>2 DEF Lined
      <3> QED
        BY <3>1, <3>2
    <2> QED
      BY <2>4, <2>6, <2>7 DEF Lined
  <1> QED
    BY <1>3, <1>4

(* The first cells of the first request are the next cells of the end. *)
NextCells(cells, e, side, x, b) ==
    /\ b \in Nat /\ x <= b /\ Len(cells) = b - x /\ cells = RunOf(e, side, x, b)
    /\ \A j \in 1..b - x : cells[j] = <<e, side, x + j>>

LEMMA LinedHead ==
    ASSUME NEW q \in Seq(Requests), NEW e, NEW side, NEW sizes \in Seq(Nat),
           NEW n \in 0..Len(sizes), NEW x \in Nat, Lined(q, e, side, sizes, n, x), q # <<>>
    PROVE  NextCells(Head(q).cells, e, side, x, EndOf(q, sizes, x, 1))
  <1> DEFINE r == Head(q)  b == EndOf(q, sizes, x, 1)
  <1>1. 1 \in DOMAIN q /\ r = q[1] /\ 1 \in 0..Len(q)
    OBVIOUS
  <1>2. EndOf(q, sizes, x, 1 - 1) = x
    BY DEF EndOf
  <1>3. b \in Nat
    BY <1>1, EndFacts
  <1>4. r.cells = RunOf(e, side, x, b) /\ x <= b
    <2>1. /\ q[1].cells = RunOf(e, side, EndOf(q, sizes, x, 1 - 1), EndOf(q, sizes, x, 1))
          /\ EndOf(q, sizes, x, 1 - 1) <= EndOf(q, sizes, x, 1)
      BY <1>1 DEF Lined
    <2> QED
      BY <1>1, <1>2, <2>1
  <1> HIDE DEF r, b
  <1>5. b - x \in Nat
    BY <1>3, <1>4
  <1>6. Len(r.cells) = b - x /\ \A j \in 1..b - x : r.cells[j] = <<e, side, x + j>>
    BY <1>4, <1>5 DEF RunOf
  <1> QED
    BY <1>3, <1>4, <1>6 DEF r, b, NextCells

LEMMA LinedMove ==
    ASSUME NEW q \in Seq(Requests), NEW e, NEW side, NEW sizes \in Seq(Nat),
           NEW n \in 0..Len(sizes), NEW x \in Nat, Lined(q, e, side, sizes, n, x), q # <<>>,
           NEW m \in Nat, m <= Len(Head(q).cells)
    PROVE  Lined([q EXCEPT ![1] = Conn!Advanced(Head(q), m)], e, side, sizes, n, x + m)
  <1> DEFINE r == Head(q)  y == x + m  s == Conn!Advanced(r, m)
             u == [q EXCEPT ![1] = s]
  <1>0. PICK b : b = EndOf(q, sizes, x, 1)
    OBVIOUS
  <1>1. /\ r.cells = RunOf(e, side, x, b) /\ b \in Nat /\ x <= b /\ Len(r.cells) = b - x
        /\ \A j \in 1..b - x : r.cells[j] = <<e, side, x + j>>
    <2>1. NextCells(Head(q).cells, e, side, x, EndOf(q, sizes, x, 1))
      BY LinedHead
    <2> QED
      BY <1>0, <2>1 DEF NextCells
  <1>2. y \in Nat /\ y <= b /\ x <= y
    BY <1>1
  <1>3. r = q[1] /\ 1 \in DOMAIN q /\ r \in Requests
    OBVIOUS
  <1>4. s.id = r.id /\ s.cells = SubSeq(r.cells, m + 1, Len(r.cells))
    BY <1>3 DEF Conn!Advanced, Requests
  <1>5. s.cells = RunOf(e, side, y, b)
    <2>1. s.cells = SubSeq(r.cells, m + 1, b - x)
      BY <1>1, <1>4
    <2>2. SubSeq(r.cells, m + 1, b - x) = [j \in 1..(b - x) - (m + 1) + 1 |-> r.cells[j + (m + 1) - 1]]
      <3>1. r.cells \in Seq(Cells)
        BY <1>3 DEF Requests
      <3>2. /\ m + 1 \in Int /\ b - x \in Int /\ (b - x) - (m + 1) + 1 \in Nat
            /\ (b - x) - (m + 1) + 1 = IF m + 1 <= b - x THEN (b - x) - (m + 1) + 1 ELSE 0
            /\ \A i \in m + 1..b - x : i \in 1..Len(r.cells)
        BY <1>1
      <3> DEFINE t == SubSeq(r.cells, m + 1, b - x)
      <3> HIDE DEF r
      <3>6. \A i \in m + 1..b - x : r.cells[i] \in Cells
        BY <3>1, <3>2, ElementOfSeq
      <3>3. /\ t \in Seq(Cells) /\ Len(t) = (b - x) - (m + 1) + 1
            /\ \A j \in 1..(b - x) - (m + 1) + 1 : t[j] = r.cells[(m + 1) + j - 1]
        BY <3>2, <3>6, SubSeqProperties
      <3>4. \A j \in 1..(b - x) - (m + 1) + 1 : (m + 1) + j - 1 = j + (m + 1) - 1
        OBVIOUS
      <3> HIDE DEF t
      <3>5. t = [j \in 1..(b - x) - (m + 1) + 1 |-> t[j]]
        BY <3>3
      <3> QED
        BY <3>3, <3>4, <3>5 DEF t
    <2>3. (b - x) - (m + 1) + 1 = b - y
      BY <1>1
    <2>4. \A j \in 1..b - y : r.cells[j + (m + 1) - 1] = <<e, side, y + j>>
      <3> SUFFICES ASSUME NEW j \in 1..b - y PROVE r.cells[j + (m + 1) - 1] = <<e, side, y + j>>
        OBVIOUS
      <3>1. j + (m + 1) - 1 \in 1..b - x /\ x + (j + (m + 1) - 1) = y + j
        BY <1>1
      <3> HIDE DEF y, r
      <3> QED
        BY <1>1, <3>1
    <2> HIDE DEF y, r, s
    <2> QED
      BY <2>1, <2>2, <2>3, <2>4 DEF RunOf
  <1>6. /\ Len(u) = Len(q) /\ DOMAIN u = DOMAIN q /\ DOMAIN q = 1..Len(q) /\ Len(q) \in Nat
        /\ u[1] = s /\ \A i \in DOMAIN q : i # 1 => u[i] = q[i]
    OBVIOUS
  <1>7. \A i \in DOMAIN q : u[i].id = q[i].id
    BY <1>3, <1>4, <1>6
  <1> HIDE DEF s, r, u
  <1>8. /\ EndOf(u, sizes, y, 0) = y
        /\ \A i \in DOMAIN q : EndOf(u, sizes, y, i) = EndOf(q, sizes, x, i)
    BY <1>6, <1>7 DEF EndOf
  <1>9. ASSUME NEW i \in DOMAIN u
        PROVE  /\ u[i].id \in 1..n
               /\ EndOf(u, sizes, y, i - 1) <= EndOf(u, sizes, y, i)
               /\ u[i].cells = RunOf(e, side, EndOf(u, sizes, y, i - 1), EndOf(u, sizes, y, i))
    <2>1. u[i].id \in 1..n
      BY <1>6, <1>7 DEF Lined
    <2>2. CASE i = 1
      <3>1. i - 1 = 0 /\ i \in DOMAIN q
        BY <1>3, <2>2
      <3>2. EndOf(u, sizes, y, i - 1) = y
        BY <1>8, <3>1
      <3>3. EndOf(u, sizes, y, i) = EndOf(q, sizes, x, i)
        BY <1>8, <3>1
      <3>4. EndOf(u, sizes, y, i) = b
        BY <1>0, <2>2, <3>3
      <3>5. u[i].cells = s.cells
        BY <1>6, <2>2
      <3> HIDE DEF y
      <3> QED
        BY <1>2, <1>5, <2>1, <3>2, <3>4, <3>5
    <2>3. CASE i # 1
      <3>1. i \in DOMAIN q /\ i - 1 \in DOMAIN q /\ u[i] = q[i]
        BY <1>6, <2>3
      <3>2. /\ EndOf(u, sizes, y, i) = EndOf(q, sizes, x, i)
            /\ EndOf(u, sizes, y, i - 1) = EndOf(q, sizes, x, i - 1)
        BY <1>8, <3>1
      <3> HIDE DEF y
      <3> QED
        BY <2>1, <3>1, <3>2 DEF Lined
    <2> QED
      BY <2>2, <2>3
  <1>10. EndOf(u, sizes, y, Len(u)) = Before(sizes, n + 1)
    <2>1. Len(q) \in DOMAIN q
      BY <1>3, <1>6
    <2> QED
      BY <1>6, <1>8, <2>1 DEF Lined
  <1>11. ASSUME NEW k \in 1..n
         PROVE  \/ \E i \in DOMAIN u : u[i].id = k
                \/ sizes[k] = 0 \/ Before(sizes, k + 1) <= y
    <2>1. Before(sizes, k + 1) \in Nat
      <3>1. k + 1 \in 1..Len(sizes) + 1
        OBVIOUS
      <3> QED
        BY <3>1, BeforeFacts
    <2>2. \/ \E i \in DOMAIN q : q[i].id = k
          \/ sizes[k] = 0 \/ Before(sizes, k + 1) <= x
      BY DEF Lined
    <2>3. Before(sizes, k + 1) <= x => Before(sizes, k + 1) <= y
      BY <1>2, <2>1
    <2> HIDE DEF y
    <2> QED
      BY <1>6, <1>7, <2>2, <2>3
  <1> QED
    BY <1>9, <1>10, <1>11 DEF Lined, u, y, s, r

LEMMA LinedRetire ==
    ASSUME NEW q \in Seq(Requests), NEW e, NEW side, NEW sizes \in Seq(Nat),
           NEW n \in 0..Len(sizes), NEW x \in Nat, Lined(q, e, side, sizes, n, x),
           Conn!Finished(q)
    PROVE  Lined(Tail(q), e, side, sizes, n, x)
  <1> DEFINE u == Tail(q)  b == EndOf(q, sizes, x, 1)
  <1>0. q # <<>> /\ Head(q).cells = <<>>
    BY DEF Conn!Finished
  <1>1. b = x
    <2>1. Len(Head(q).cells) = b - x /\ b \in Nat
      BY <1>0, LinedHead DEF NextCells
    <2>2. Len(Head(q).cells) = 0
      BY <1>0
    <2> QED
      BY <2>1, <2>2
  <1>2. /\ Len(q) \in Nat \ {0} /\ Len(u) = Len(q) - 1 /\ DOMAIN u = 1..Len(q) - 1
        /\ DOMAIN q = 1..Len(q) /\ \A i \in DOMAIN u : i + 1 \in DOMAIN q /\ u[i] = q[i + 1]
    BY <1>0
  <1> HIDE DEF u, b
  <1>3. \A i \in 0..Len(u) : EndOf(u, sizes, x, i) = EndOf(q, sizes, x, i + 1)
    <2> SUFFICES ASSUME NEW i \in 0..Len(u)
                 PROVE  EndOf(u, sizes, x, i) = EndOf(q, sizes, x, i + 1)
      OBVIOUS
    <2>1. CASE i = 0
      BY <1>1, <2>1 DEF EndOf, b
    <2>2. CASE i # 0
      <3>1. i \in DOMAIN u /\ i + 1 # 0
        BY <1>2, <2>2
      <3>2. u[i] = q[i + 1]
        BY <1>2, <3>1
      <3> QED
        BY <2>2, <3>1, <3>2 DEF EndOf
    <2> QED
      BY <2>1, <2>2
  <1>4. ASSUME NEW i \in DOMAIN u
        PROVE  /\ u[i].id \in 1..n
               /\ EndOf(u, sizes, x, i - 1) <= EndOf(u, sizes, x, i)
               /\ u[i].cells = RunOf(e, side, EndOf(u, sizes, x, i - 1), EndOf(u, sizes, x, i))
    <2>1. /\ i \in 0..Len(u) /\ i - 1 \in 0..Len(u) /\ (i - 1) + 1 = (i + 1) - 1
          /\ i + 1 \in DOMAIN q /\ u[i] = q[i + 1]
      BY <1>2
    <2>2. /\ EndOf(u, sizes, x, i) = EndOf(q, sizes, x, i + 1)
          /\ EndOf(u, sizes, x, i - 1) = EndOf(q, sizes, x, (i + 1) - 1)
      BY <1>3, <2>1
    <2> QED
      BY <2>1, <2>2 DEF Lined
  <1>5. EndOf(u, sizes, x, Len(u)) = Before(sizes, n + 1)
    <2>1. Len(u) \in 0..Len(u) /\ Len(u) + 1 = Len(q)
      BY <1>2
    <2> QED
      BY <1>3, <2>1 DEF Lined
  <1>6. ASSUME NEW k \in 1..n
        PROVE  \/ \E i \in DOMAIN u : u[i].id = k
               \/ sizes[k] = 0 \/ Before(sizes, k + 1) <= x
    <2>1. CASE \E i \in DOMAIN q : i # 1 /\ q[i].id = k
      <3>1. PICK i \in DOMAIN q : i # 1 /\ q[i].id = k
        BY <2>1
      <3>2. i - 1 \in DOMAIN u /\ (i - 1) + 1 = i
        BY <1>2, <3>1
      <3>3. u[i - 1].id = k
        BY <1>2, <3>1, <3>2
      <3> QED
        BY <3>2, <3>3
    <2>2. CASE q[1].id = k
      BY <1>1, <2>2 DEF b, EndOf, Lined
    <2>3. CASE ~\E i \in DOMAIN q : q[i].id = k
      BY <2>3 DEF Lined
    <2> QED
      BY <2>1, <2>2, <2>3
  <1> QED
    BY <1>4, <1>5, <1>6 DEF Lined, u

-----------------------------------------------------------------------------
(* From one end to the other *)

Bytes(e, a, b) == [i \in 1..b - a |-> <<e, a + i>>]

LEMMA BytesJoin ==
    ASSUME NEW e, NEW a \in Nat, NEW b \in Nat, NEW n \in Nat, a <= b
    PROVE  Bytes(e, a, b) \o [k \in 1..n |-> <<e, b + k>>] = Bytes(e, a, b + n)
  <1> DEFINE S == {<<e, i>> : i \in Nat}  s == Bytes(e, a, b)  t == [k \in 1..n |-> <<e, b + k>>]
             u == Bytes(e, a, b + n)
  <1>1. b - a \in Nat /\ (b + n) - a \in Nat /\ (b + n) - a = (b - a) + n
    OBVIOUS
  <1>2. s \in Seq(S) /\ Len(s) = b - a /\ \A i \in 1..b - a : s[i] = <<e, a + i>>
    BY <1>1 DEF Bytes
  <1>3. t \in Seq(S) /\ Len(t) = n /\ \A i \in 1..n : t[i] = <<e, b + i>>
    OBVIOUS
  <1>4. u \in Seq(S) /\ Len(u) = (b - a) + n /\ \A i \in 1..(b - a) + n : u[i] = <<e, a + i>>
    BY <1>1 DEF Bytes
  <1> HIDE DEF s, t, u, S
  <1>5. /\ s \o t \in Seq(S) /\ Len(s \o t) = (b - a) + n
        /\ \A i \in 1..(b - a) + n : (s \o t)[i] = IF i <= b - a THEN s[i] ELSE t[i - (b - a)]
    <2>1. /\ s \o t \in Seq(S) /\ Len(s \o t) = Len(s) + Len(t)
          /\ \A i \in 1..Len(s) + Len(t) :
                (s \o t)[i] = IF i <= Len(s) THEN s[i] ELSE t[i - Len(s)]
      BY <1>2, <1>3, ConcatProperties, Zenon
    <2>2. Len(s) = b - a /\ Len(t) = n
      BY <1>2, <1>3
    <2> QED
      BY <2>1, <2>2, Zenon
  <1>6. ASSUME NEW i \in 1..(b - a) + n PROVE (s \o t)[i] = u[i]
    <2>1. CASE i <= b - a
      <3>1. i \in 1..b - a
        BY <1>1, <2>1
      <3> QED
        BY <1>2, <1>4, <1>5, <2>1, <3>1
    <2>2. CASE ~(i <= b - a)
      <3>1. i - (b - a) \in 1..n /\ b + (i - (b - a)) = a + i
        BY <1>1, <2>2
      <3>2. (s \o t)[i] = t[i - (b - a)]
        BY <1>5, <2>2
      <3> QED
        BY <1>3, <1>4, <3>1, <3>2
    <2> QED
      BY <2>1, <2>2
  <1>7. s \o t = u
    BY <1>4, <1>5, <1>6, SeqEqual
  <1> QED
    BY <1>7 DEF s, t, u

LEMMA BytesDrop ==
    ASSUME NEW e, NEW a \in Nat, NEW b \in Nat, NEW n \in Nat, a + n <= b
    PROVE  /\ SubSeq(Bytes(e, a, b), n + 1, Len(Bytes(e, a, b))) = Bytes(e, a + n, b)
           /\ \A k \in 1..n : Bytes(e, a, b)[k] = <<e, a + k>>
           /\ Len(Bytes(e, a, b)) = b - a
  <1> DEFINE S == {<<e, i>> : i \in Nat}  s == Bytes(e, a, b)  m == b - a
             t == SubSeq(s, n + 1, m)  u == Bytes(e, a + n, b)
  <1>1. m \in Nat /\ n <= m /\ b - (a + n) = m - n /\ m - n \in Nat
    OBVIOUS
  <1>2. s \in Seq(S) /\ Len(s) = m /\ \A i \in 1..m : s[i] = <<e, a + i>>
    BY <1>1 DEF Bytes
  <1>3. u \in Seq(S) /\ Len(u) = m - n /\ \A i \in 1..m - n : u[i] = <<e, (a + n) + i>>
    BY <1>1 DEF Bytes
  <1>4. \A i \in n + 1..m : i \in 1..m
    BY <1>1
  <1> HIDE DEF s, u, m, S
  <1>5. \A i \in n + 1..m : s[i] \in S
    BY <1>2, <1>4, ElementOfSeq
  <1>6. n + 1 \in Int /\ m \in Int
    BY <1>1
  <1>7. /\ t \in Seq(S) /\ Len(t) = IF n + 1 <= m THEN m - (n + 1) + 1 ELSE 0
        /\ \A i \in 1..m - (n + 1) + 1 : t[i] = s[(n + 1) + i - 1]
    BY <1>5, <1>6, SubSeqProperties
  <1>8. /\ Len(t) = m - n
        /\ \A i \in 1..m - n : t[i] = s[n + i] /\ n + i \in 1..m /\ a + (n + i) = (a + n) + i
    <2>1. m - (n + 1) + 1 = m - n /\ (n + 1 <= m \/ m - n = 0)
      BY <1>1
    <2>2. \A i \in 1..m - n : (n + 1) + i - 1 = n + i /\ n + i \in 1..m /\ a + (n + i) = (a + n) + i
      BY <1>1
    <2> HIDE DEF t
    <2> QED
      BY <1>7, <2>1, <2>2
  <1> HIDE DEF t
  <1>9. \A i \in 1..m - n : t[i] = u[i]
    BY <1>2, <1>3, <1>8
  <1>10. t = u
    BY <1>3, <1>7, <1>8, <1>9, SeqEqual
  <1>11. \A k \in 1..n : k \in 1..m
    BY <1>1
  <1>12. s[1] = s[1] /\ \A k \in 1..n : s[k] = <<e, a + k>>
    BY <1>2, <1>11
  <1> QED
    BY <1>2, <1>10, <1>12 DEF t, s, u, m

(* Of what the callers of e send, the first `sent' cells have been handed   *)
(* to the system, and the first `got' have reached the memory of the peer.  *)
Flow(e, got, sent) ==
    LET p == PeerOf[e]
    IN  /\ Lined(sends[e], e, "out", plan.send[e], nSend[e], sent)
        /\ Lined(recvs[p], p, "in", plan.recv[p], nRecv[p], got)
        /\ got <= sent /\ pipe[e] = Bytes(e, got, sent)
        /\ \A c \in Cells :
             /\ c[1] = e /\ c[2] = "out" => mem[c] = <<e, c[3]>>
             /\ c[1] = p /\ c[2] = "in" =>
                  mem[c] = IF c[3] <= got THEN <<e, c[3]>> ELSE Nothing

PostedInv ==
    /\ nSend \in [Ends -> Nat] /\ nRecv \in [Ends -> Nat] /\ DOMAIN pipe = Ends
    /\ \A e \in Ends : /\ nSend[e] \in 0..Len(plan.send[e])
                       /\ nRecv[e] \in 0..Len(plan.recv[e])

FlowInv == PostedInv /\ \A e \in Ends : \E got, sent \in Nat : Flow(e, got, sent)

(* A step that touches neither end of what e sends. *)
LEMMA FlowStays ==
    ASSUME NEW e \in Ends, NEW got \in Nat, NEW sent \in Nat, Flow(e, got, sent),
           UNCHANGED plan, sends'[e] = sends[e], nSend'[e] = nSend[e], pipe'[e] = pipe[e],
           recvs'[PeerOf[e]] = recvs[PeerOf[e]], nRecv'[PeerOf[e]] = nRecv[PeerOf[e]],
           \A c \in Cells : c[1] = PeerOf[e] \/ c[2] = "out" => mem'[c] = mem[c]
    PROVE  Flow(e, got, sent)'
  BY DEF Flow

LEMMA FlowStarts == Init => FlowInv
  <1> SUFFICES ASSUME Init PROVE FlowInv
    OBVIOUS
  <1>1. PostedInv
    <2>1. TypeInv
      BY DEF Init, TypeInv, Queues
    <2>2. \A e \in Ends : 0 \in 0..Len(plan.send[e]) /\ 0 \in 0..Len(plan.recv[e])
      BY <2>1, PlanFacts
    <2> QED
      BY <2>2 DEF Init, PostedInv
  <1>2. ASSUME NEW e \in Ends PROVE Flow(e, 0, 0)
    <2>1. PeerOf[e] \in Ends /\ plan \in Plans
      BY PeerFacts DEF Init
    <2>2. \A sizes \in Seq(Nat) : \A d, side : Lined(<<>>, d, side, sizes, 0, 0)
      <3> SUFFICES ASSUME NEW sizes \in Seq(Nat), NEW d, NEW side
                   PROVE  Lined(<<>>, d, side, sizes, 0, 0)
        OBVIOUS
      <3>1. Before(sizes, 0 + 1) = 0
        BY BeforeFacts
      <3>2. EndOf(<<>>, sizes, 0, Len(<<>>)) = 0
        BY DEF EndOf
      <3>3. DOMAIN <<>> = {} /\ 1..0 = {}
        OBVIOUS
      <3> QED
        BY <3>1, <3>2, <3>3 DEF Lined
    <2>3. plan.send[e] \in Seq(Nat) /\ plan.recv[PeerOf[e]] \in Seq(Nat)
      BY <2>1, SocketsAssumption DEF Plan
    <2>4. pipe[e] = Bytes(e, 0, 0)
      BY DEF Init, Bytes
    <2>5. \A c \in Cells : /\ c[1] = e /\ c[2] = "out" => mem[c] = <<e, c[3]>>
                           /\ c[2] = "in" => mem[c] = Nothing
      BY DEF Init
    <2>6. ASSUME NEW c \in Cells, c[1] = PeerOf[e], c[2] = "in" PROVE ~(c[3] <= 0)
      BY CellFacts
    <2> QED
      BY <2>1, <2>2, <2>3, <2>4, <2>5, <2>6 DEF Init, Flow
  <1> QED
    BY <1>1, <1>2 DEF FlowInv

LEMMA FlowSend ==
    ASSUME SocketsInv, FlowInv, NEW e \in Ends, Send(e)
    PROVE  FlowInv'
  <1> DEFINE k == nSend[e] + 1  b == SendBlock(e, k)
  <1>1. /\ TypeInv /\ PostedInv /\ k \in DOMAIN plan.send[e]
        /\ sends' = Conn!Posted(sends, e, k, b) /\ UNCHANGED <<recvs, pipe, mem, plan, nRecv>>
        /\ nSend' = [nSend EXCEPT ![e] = k]
    BY DEF Send, SocketsInv, FlowInv, Conn!PostSend, closeVars
  <1>2. plan.send[e] \in Seq(Nat) /\ sends[e] \in Seq(Requests)
    BY <1>1, PlanFacts DEF TypeInv, Queues
  <1>3. PostedInv'
    BY <1>1, <1>2 DEF PostedInv
  <1>4. \A d \in Ends : d # e => sends'[d] = sends[d] /\ nSend'[d] = nSend[d]
    BY <1>1 DEF Conn!Posted, TypeInv, Queues, PostedInv
  <1>5. nSend'[e] = nSend[e] + 1
    BY <1>1 DEF PostedInv
  <1>6. sends'[e] = IF b = <<>> THEN sends[e] ELSE Append(sends[e], Conn!NewRequest(k, b))
    BY <1>1 DEF Conn!Posted, TypeInv, Queues
  <1>7. nSend[e] \in 0..Len(plan.send[e])
    BY <1>1 DEF PostedInv
  <1>8. ASSUME NEW d \in Ends PROVE \E got, sent \in Nat : Flow(d, got, sent)'
    <2>1. PICK got \in Nat, sent \in Nat : Flow(d, got, sent)
      BY DEF FlowInv
    <2>2. CASE d # e
      BY <1>1, <1>4, <2>1, <2>2, FlowStays
    <2>3. CASE d = e
      <3>1. Lined(sends[e], e, "out", plan.send[e], nSend[e], sent)
        BY <2>1, <2>3 DEF Flow
      <3>2. Lined(sends'[e], e, "out", plan.send[e], nSend[e] + 1, sent)
        BY <1>1, <1>2, <1>6, <1>7, <3>1, LinedPost DEF SendBlock
      <3>3. Flow(e, got, sent)'
        BY <1>1, <1>5, <2>1, <2>3, <3>2 DEF Flow
      <3> QED
        BY <2>3, <3>3
    <2> QED
      BY <2>2, <2>3
  <1> QED
    BY <1>3, <1>8 DEF FlowInv

LEMMA FlowRecv ==
    ASSUME SocketsInv, FlowInv, NEW e \in Ends, Recv(e)
    PROVE  FlowInv'
  <1> DEFINE k == nRecv[e] + 1  b == RecvBlock(e, k)
  <1>1. /\ TypeInv /\ PostedInv /\ k \in DOMAIN plan.recv[e]
        /\ recvs' = Conn!Posted(recvs, e, k, b) /\ UNCHANGED <<sends, pipe, mem, plan, nSend>>
        /\ nRecv' = [nRecv EXCEPT ![e] = k]
    BY DEF Recv, SocketsInv, FlowInv, Conn!PostRecv, closeVars
  <1>2. plan.recv[e] \in Seq(Nat) /\ recvs[e] \in Seq(Requests)
    BY <1>1, PlanFacts DEF TypeInv, Queues
  <1>3. PostedInv'
    BY <1>1, <1>2 DEF PostedInv
  <1>4. \A d \in Ends : d # e => recvs'[d] = recvs[d] /\ nRecv'[d] = nRecv[d]
    BY <1>1 DEF Conn!Posted, TypeInv, Queues, PostedInv
  <1>5. nRecv'[e] = nRecv[e] + 1
    BY <1>1 DEF PostedInv
  <1>6. recvs'[e] = IF b = <<>> THEN recvs[e] ELSE Append(recvs[e], Conn!NewRequest(k, b))
    BY <1>1 DEF Conn!Posted, TypeInv, Queues
  <1>7. nRecv[e] \in 0..Len(plan.recv[e])
    BY <1>1 DEF PostedInv
  <1>8. ASSUME NEW d \in Ends PROVE \E got, sent \in Nat : Flow(d, got, sent)'
    <2>1. PICK got \in Nat, sent \in Nat : Flow(d, got, sent)
      BY DEF FlowInv
    <2>2. CASE PeerOf[d] # e
      <3>1. PeerOf[d] \in Ends
        BY PeerFacts
      <3> QED
        BY <1>1, <1>4, <2>1, <2>2, <3>1, FlowStays
    <2>3. CASE PeerOf[d] = e
      <3>1. Lined(recvs[e], e, "in", plan.recv[e], nRecv[e], got)
        BY <2>1, <2>3 DEF Flow
      <3>2. Lined(recvs'[e], e, "in", plan.recv[e], nRecv[e] + 1, got)
        BY <1>1, <1>2, <1>6, <1>7, <3>1, LinedPost DEF RecvBlock
      <3>3. Flow(d, got, sent)'
        BY <1>1, <1>5, <2>1, <2>3, <3>2 DEF Flow
      <3> QED
        BY <3>3
    <2> QED
      BY <2>2, <2>3
  <1> QED
    BY <1>3, <1>8 DEF FlowInv

LEMMA FlowTop ==
    ASSUME SocketsInv, FlowInv, NEW e \in Ends, TopOfLoop(e)
    PROVE  FlowInv'
  <1>1. /\ TypeInv /\ PostedInv /\ UNCHANGED <<pipe, mem, nSend, nRecv, plan>>
        /\ sends' = Without(sends, e, delSend[e]) /\ recvs' = Without(recvs, e, delRecv[e])
    BY DEF TopOfLoop, SocketsInv, FlowInv, postVars, closeVars
  <1>2. /\ delSend[e] \in BOOLEAN /\ (delSend[e] => Conn!Finished(sends[e]))
        /\ delRecv[e] \in BOOLEAN /\ (delRecv[e] => Conn!Finished(recvs[e]))
    BY DEF SocketsInv, TypeInv, FlagInv
  <1>3. /\ \A d \in Ends : d # e => sends'[d] = sends[d]
        /\ (Conn!Finished(sends[e]) /\ sends'[e] = Tail(sends[e])) \/ sends'[e] = sends[e]
    <2>1. sends \in Queues
      BY <1>1 DEF TypeInv
    <2>2. /\ sends' \in Queues /\ \A d \in Ends : d # e => sends'[d] = sends[d]
          /\ \/ Conn!Finished(sends[e]) /\ sends' = [sends EXCEPT ![e] = Tail(sends[e])]
             \/ sends' = sends
      <3>1. delSend[e] \in BOOLEAN
        BY DEF SocketsInv, TypeInv
      <3> QED
        BY <1>1, <3>1, WithoutKeeps DEF SocketsInv, TypeInv, FlagInv
    <2> QED
      BY <2>1, <2>2 DEF Queues
  <1>4. /\ \A d \in Ends : d # e => recvs'[d] = recvs[d]
        /\ (Conn!Finished(recvs[e]) /\ recvs'[e] = Tail(recvs[e])) \/ recvs'[e] = recvs[e]
    <2>1. recvs \in Queues
      BY <1>1 DEF TypeInv
    <2>2. /\ recvs' \in Queues /\ \A d \in Ends : d # e => recvs'[d] = recvs[d]
          /\ \/ Conn!Finished(recvs[e]) /\ recvs' = [recvs EXCEPT ![e] = Tail(recvs[e])]
             \/ recvs' = recvs
      <3>1. delRecv[e] \in BOOLEAN
        BY DEF SocketsInv, TypeInv
      <3> QED
        BY <1>1, <3>1, WithoutKeeps DEF SocketsInv, TypeInv, FlagInv
    <2> QED
      BY <2>1, <2>2 DEF Queues
  <1>5. /\ plan.send[e] \in Seq(Nat) /\ sends[e] \in Seq(Requests)
        /\ plan.recv[e] \in Seq(Nat) /\ recvs[e] \in Seq(Requests)
        /\ nSend[e] \in 0..Len(plan.send[e]) /\ nRecv[e] \in 0..Len(plan.recv[e])
    BY <1>1, PlanFacts DEF TypeInv, Queues, PostedInv
  <1>6. ASSUME NEW d \in Ends PROVE \E got, sent \in Nat : Flow(d, got, sent)'
    <2>1. PICK got \in Nat, sent \in Nat : Flow(d, got, sent)
      BY DEF FlowInv
    <2>2. PeerOf[d] \in Ends
      BY PeerFacts
    <2>3. Lined(sends'[d], d, "out", plan.send[d], nSend[d], sent)
      <3>1. Lined(sends[d], d, "out", plan.send[d], nSend[d], sent)
        BY <2>1 DEF Flow
      <3> QED
        BY <1>3, <1>5, <3>1, LinedRetire
    <2>4. Lined(recvs'[PeerOf[d]], PeerOf[d], "in", plan.recv[PeerOf[d]], nRecv[PeerOf[d]], got)
      <3>1. Lined(recvs[PeerOf[d]], PeerOf[d], "in", plan.recv[PeerOf[d]], nRecv[PeerOf[d]], got)
        BY <2>1 DEF Flow
      <3> QED
        BY <1>4, <1>5, <2>2, <3>1, LinedRetire
    <2>5. Flow(d, got, sent)'
      BY <1>1, <2>1, <2>3, <2>4 DEF Flow
    <2> QED
      BY <2>5
  <1>7. PostedInv'
    BY <1>1 DEF PostedInv
  <1> QED
    BY <1>6, <1>7 DEF FlowInv

(* send(2): the cells go from memory to the system. *)
LEMMA FlowOut ==
    ASSUME SocketsInv, FlowInv, NEW e \in Ends, NEW n \in 1..Capacity, Conn!MoveOut(e, n),
           UNCHANGED <<nSend, nRecv, plan>>
    PROVE  FlowInv'
  <1> DEFINE r == Head(sends[e])
  <1>0. n \in Nat \ {0}
    BY SocketsAssumption
  <1>1. /\ TypeInv /\ PostedInv /\ UNCHANGED <<recvs, mem, nSend, nRecv, plan>>
        /\ sends[e] # <<>> /\ n <= Len(r.cells)
        /\ sends' = [sends EXCEPT ![e] = [sends[e] EXCEPT ![1] = Conn!Advanced(r, n)]]
        /\ pipe' = [pipe EXCEPT ![e] = pipe[e] \o [k \in 1..n |-> mem[r.cells[k]]]]
    BY DEF SocketsInv, FlowInv, Conn!MoveOut, Conn!CanSend
  <1>2. /\ plan.send[e] \in Seq(Nat) /\ sends[e] \in Seq(Requests)
        /\ nSend[e] \in 0..Len(plan.send[e]) /\ r.cells \in Seq(Cells)
    <2>1. sends[e] \in Seq(Requests)
      BY <1>1 DEF TypeInv, Queues
    <2>2. r \in Requests
      BY <1>1, <2>1
    <2> QED
      BY <1>1, <2>1, <2>2, PlanFacts DEF PostedInv, Requests
  <1> HIDE DEF r
  <1>3. /\ \A d \in Ends : d # e => sends'[d] = sends[d]
        /\ sends'[e] = [sends[e] EXCEPT ![1] = Conn!Advanced(r, n)]
    BY <1>1 DEF TypeInv, Queues
  <1>4. ASSUME NEW d \in Ends PROVE \E got, sent \in Nat : Flow(d, got, sent)'
    <2>1. PICK got \in Nat, sent \in Nat : Flow(d, got, sent)
      BY DEF FlowInv
    <2>2. CASE d # e
      <3>1. pipe'[d] = pipe[d]
        BY <1>1, <2>2
      <3> QED
        BY <1>1, <1>3, <2>1, <2>2, <3>1, FlowStays
    <2>3. CASE d = e
      <3>1. Lined(sends[e], e, "out", plan.send[e], nSend[e], sent)
        BY <2>1, <2>3 DEF Flow
      <3>2. Lined(sends'[e], e, "out", plan.send[e], nSend[e], sent + n)
        <4>1. /\ sends[e] \in Seq(Requests) /\ plan.send[e] \in Seq(Nat) /\ n \in Nat
              /\ nSend[e] \in 0..Len(plan.send[e]) /\ sent \in Nat
              /\ sends[e] # <<>> /\ n <= Len(Head(sends[e]).cells)
          BY <1>0, <1>1, <1>2 DEF r
        <4>2. Lined([sends[e] EXCEPT ![1] = Conn!Advanced(Head(sends[e]), n)],
                    e, "out", plan.send[e], nSend[e], sent + n)
          BY <3>1, <4>1, LinedMove
        <4> QED
          BY <1>3, <4>2 DEF r
      <3>3. NextCells(r.cells, e, "out", sent, EndOf(sends[e], plan.send[e], sent, 1))
        BY <1>1, <1>2, <3>1, LinedHead DEF r
      <3>4. ASSUME NEW k \in 1..n PROVE mem[r.cells[k]] = <<e, sent + k>>
        <4>1. r.cells[k] = <<e, "out", sent + k>>
          <5> DEFINE b == EndOf(sends[e], plan.send[e], sent, 1)
          <5>1. /\ b \in Nat /\ Len(r.cells) = b - sent
                /\ \A j \in 1..b - sent : r.cells[j] = <<e, "out", sent + j>>
            BY <3>3 DEF NextCells
          <5> HIDE DEF b
          <5>2. k \in 1..b - sent
            BY <1>0, <1>1, <5>1
          <5> QED
            BY <5>1, <5>2
        <4>2. r.cells[k] \in Cells
          BY <1>0, <1>1, <1>2
        <4> QED
          BY <2>1, <2>3, <4>1, <4>2 DEF Flow
      <3>5. pipe'[e] = Bytes(e, got, sent) \o [k \in 1..n |-> <<e, sent + k>>]
        <4>1. pipe[e] = Bytes(e, got, sent)
          BY <2>1, <2>3 DEF Flow
        <4>2. [k \in 1..n |-> mem[r.cells[k]]] = [k \in 1..n |-> <<e, sent + k>>]
          BY <3>4
        <4>3. pipe'[e] = pipe[e] \o [k \in 1..n |-> mem[r.cells[k]]]
          BY <1>1 DEF PostedInv
        <4> QED
          BY <4>1, <4>2, <4>3
      <3>6. pipe'[e] = Bytes(e, got, sent + n) /\ got <= sent + n /\ sent + n \in Nat
        <4>1. got <= sent /\ sent \in Nat
          BY <2>1 DEF Flow
        <4>2. got <= sent + n /\ sent + n \in Nat
          BY <1>0, <4>1
        <4>3. Bytes(e, got, sent) \o [k \in 1..n |-> <<e, sent + k>>] = Bytes(e, got, sent + n)
          BY <1>0, <4>1, BytesJoin
        <4> QED
          BY <3>5, <4>2, <4>3
      <3>7. Flow(e, got, sent + n)'
        BY <1>1, <2>1, <2>3, <3>2, <3>6 DEF Flow
      <3> QED
        BY <2>3, <3>6, <3>7
    <2> QED
      BY <2>2, <2>3
  <1>5. PostedInv'
    <2>1. DOMAIN pipe' = DOMAIN pipe
      BY <1>1
    <2> QED
      BY <1>1, <2>1 DEF PostedInv
  <1> QED
    BY <1>4, <1>5 DEF FlowInv

(* recv(2): the cells go from the system to memory. *)
LEMMA FlowIn ==
    ASSUME SocketsInv, FlowInv, NEW e \in Ends, NEW n \in 1..Capacity, Conn!MoveIn(e, n),
           UNCHANGED <<nSend, nRecv, plan>>
    PROVE  FlowInv'
  <1> DEFINE r == Head(recvs[e])  p == PeerOf[e]
             Filled(c) == \E k \in 1..n : r.cells[k] = c
             Index(c) == CHOOSE k \in 1..n : r.cells[k] = c
  <1>0. n \in Nat \ {0} /\ p \in Ends /\ PeerOf[p] = e
    BY SocketsAssumption, PeerFacts
  <1>1. /\ TypeInv /\ PostedInv /\ UNCHANGED <<sends, nSend, nRecv, plan>>
        /\ recvs[e] # <<>> /\ n <= Len(r.cells) /\ n <= Len(pipe[p])
        /\ recvs' = [recvs EXCEPT ![e] = [recvs[e] EXCEPT ![1] = Conn!Advanced(r, n)]]
        /\ pipe' = [pipe EXCEPT ![p] = SubSeq(pipe[p], n + 1, Len(pipe[p]))]
        /\ mem' = [c \in Cells |-> IF Filled(c) THEN pipe[p][Index(c)] ELSE mem[c]]
    BY DEF SocketsInv, FlowInv, Conn!MoveIn, Conn!CanReceive
  <1>2. /\ plan.recv[e] \in Seq(Nat) /\ recvs[e] \in Seq(Requests)
        /\ nRecv[e] \in 0..Len(plan.recv[e]) /\ r.cells \in Seq(Cells)
    <2>1. recvs[e] \in Seq(Requests)
      BY <1>1 DEF TypeInv, Queues
    <2>2. r \in Requests
      BY <1>1, <2>1
    <2> QED
      BY <1>1, <2>1, <2>2, PlanFacts DEF PostedInv, Requests
  <1> HIDE DEF r, p, Filled, Index
  <1>3. /\ \A d \in Ends : d # e => recvs'[d] = recvs[d]
        /\ recvs'[e] = [recvs[e] EXCEPT ![1] = Conn!Advanced(r, n)]
    BY <1>1 DEF TypeInv, Queues
  <1>4. PICK got \in Nat, sent \in Nat : Flow(p, got, sent)
    BY <1>0 DEF FlowInv
  <1>5. /\ Lined(recvs[e], e, "in", plan.recv[e], nRecv[e], got)
        /\ pipe[p] = Bytes(p, got, sent) /\ got <= sent
    BY <1>0, <1>4 DEF Flow
  <1>6. ASSUME NEW k \in 1..n PROVE r.cells[k] = <<e, "in", got + k>>
    <2> DEFINE b == EndOf(recvs[e], plan.recv[e], got, 1)
    <2>1. NextCells(r.cells, e, "in", got, b)
      BY <1>1, <1>2, <1>5, LinedHead DEF r
    <2>2. /\ b \in Nat /\ Len(r.cells) = b - got
          /\ \A j \in 1..b - got : r.cells[j] = <<e, "in", got + j>>
      BY <2>1 DEF NextCells
    <2> HIDE DEF b
    <2>3. k \in 1..b - got
      BY <1>0, <1>1, <2>2
    <2> QED
      BY <2>2, <2>3
  <1>7. got + n <= sent
    <2>1. got + 0 <= sent
      BY <1>5
    <2>2. Len(Bytes(p, got, sent)) = sent - got
      BY <2>1, BytesDrop
    <2> QED
      BY <1>0, <1>1, <1>5, <2>2
  <1>8. /\ pipe'[p] = Bytes(p, got + n, sent)
        /\ \A k \in 1..n : pipe[p][k] = <<p, got + k>>
    <2>1. /\ SubSeq(Bytes(p, got, sent), n + 1, Len(Bytes(p, got, sent))) = Bytes(p, got + n, sent)
          /\ \A k \in 1..n : Bytes(p, got, sent)[k] = <<p, got + k>>
      <3>1. n \in Nat /\ got \in Nat /\ sent \in Nat /\ got + n <= sent
        BY <1>0, <1>7
      <3> QED
        BY <3>1, BytesDrop, ZenonT(90)
    <2>2. pipe'[p] = SubSeq(pipe[p], n + 1, Len(pipe[p]))
      BY <1>0, <1>1 DEF PostedInv
    <2> QED
      BY <1>5, <2>1, <2>2
  <1>9. Lined(recvs'[e], e, "in", plan.recv[e], nRecv[e], got + n)
    <2>1. /\ recvs[e] \in Seq(Requests) /\ plan.recv[e] \in Seq(Nat) /\ n \in Nat
          /\ nRecv[e] \in 0..Len(plan.recv[e]) /\ got \in Nat
          /\ recvs[e] # <<>> /\ n <= Len(Head(recvs[e]).cells)
      BY <1>0, <1>1, <1>2 DEF r
    <2>2. Lined([recvs[e] EXCEPT ![1] = Conn!Advanced(Head(recvs[e]), n)],
                e, "in", plan.recv[e], nRecv[e], got + n)
      BY <1>5, <2>1, LinedMove
    <2> QED
      BY <1>3, <2>2 DEF r
  <1>10. ASSUME NEW c \in Cells, c[1] # e \/ c[2] = "out"
         PROVE  mem'[c] = mem[c]
    <2>1. ~Filled(c)
      BY <1>6, <1>10 DEF Filled
    <2> QED
      BY <1>1, <2>1
  <1>11. ASSUME NEW c \in Cells, c[1] = e, c[2] = "in"
         PROVE  mem'[c] = IF c[3] <= got + n THEN <<p, c[3]>> ELSE Nothing
    <2>1. c = <<e, "in", c[3]>> /\ c[3] \in Nat
      BY <1>11, CellFacts
    <2>2. mem[c] = IF c[3] <= got THEN <<p, c[3]>> ELSE Nothing
      BY <1>0, <1>4, <1>11 DEF Flow
    <2>3. CASE Filled(c)
      <3>1. Index(c) \in 1..n /\ r.cells[Index(c)] = c
        BY <2>3 DEF Filled, Index
      <3>2. c = <<e, "in", got + Index(c)>> /\ pipe[p][Index(c)] = <<p, got + Index(c)>>
        BY <1>6, <1>8, <3>1
      <3>3. c[3] = got + Index(c)
        BY <2>1, <3>2
      <3>4. c[3] <= got + n
        BY <1>0, <3>1, <3>3
      <3> QED
        BY <1>1, <2>3, <3>2, <3>3, <3>4
    <2>4. CASE ~Filled(c)
      <3>1. ~(got < c[3] /\ c[3] <= got + n)
        <4>1. SUFFICES ASSUME got < c[3], c[3] <= got + n PROVE FALSE
          OBVIOUS
        <4>2. c[3] - got \in 1..n /\ got + (c[3] - got) = c[3]
          BY <1>0, <2>1, <4>1
        <4>3. r.cells[c[3] - got] = <<e, "in", got + (c[3] - got)>>
          BY <1>6, <4>2
        <4>4. r.cells[c[3] - got] = c
          BY <2>1, <4>2, <4>3
        <4> QED
          BY <2>4, <4>2, <4>4 DEF Filled
      <3>2. c[3] <= got + n <=> c[3] <= got
        BY <1>0, <2>1, <3>1
      <3> QED
        BY <1>1, <2>2, <2>4, <3>2
    <2> QED
      BY <2>3, <2>4
  <1>12. Flow(p, got + n, sent)' /\ got + n \in Nat
    <2>1. /\ Lined(sends[p], p, "out", plan.send[p], nSend[p], sent)
          /\ \A c \in Cells : c[1] = p /\ c[2] = "out" => mem[c] = <<p, c[3]>>
      BY <1>4 DEF Flow
    <2>2. got + n \in Nat
      BY <1>0
    <2> QED
      BY <1>0, <1>1, <1>7, <1>8, <1>9, <1>10, <1>11, <2>1, <2>2 DEF Flow
  <1>13. ASSUME NEW d \in Ends PROVE \E g, s \in Nat : Flow(d, g, s)'
    <2>1. PICK g \in Nat, s \in Nat : Flow(d, g, s)
      BY DEF FlowInv
    <2>2. CASE d # p
      <3>1. PeerOf[d] # e /\ PeerOf[d] \in Ends
        <4>1. PeerOf[PeerOf[d]] = d /\ PeerOf[d] \in Ends
          BY PeerFacts
        <4> QED
          BY <2>2, <4>1 DEF p
      <3>2. pipe'[d] = pipe[d]
        BY <1>1, <2>2
      <3>3. \A c \in Cells : c[1] = PeerOf[d] \/ c[2] = "out" => mem'[c] = mem[c]
        BY <1>10, <3>1
      <3> QED
        BY <1>1, <1>3, <2>1, <3>1, <3>2, <3>3, FlowStays
    <2>3. CASE d = p
      BY <1>12, <2>3
    <2> QED
      BY <2>2, <2>3
  <1>14. PostedInv'
    <2>1. DOMAIN pipe' = DOMAIN pipe
      BY <1>1
    <2> QED
      BY <1>1, <2>1 DEF PostedInv
  <1> QED
    BY <1>13, <1>14 DEF FlowInv

LEMMA FlowNext ==
    ASSUME SocketsInv, FlowInv, [Next]_vars
    PROVE  FlowInv'
  <1>1. ASSUME UNCHANGED <<sends, recvs, pipe, mem, nSend, nRecv, plan>> PROVE FlowInv'
    <2>1. PostedInv'
      BY <1>1 DEF FlowInv, PostedInv
    <2>2. ASSUME NEW d \in Ends PROVE \E got, sent \in Nat : Flow(d, got, sent)'
      <3>1. PICK got \in Nat, sent \in Nat : Flow(d, got, sent)
        BY DEF FlowInv
      <3>2. Flow(d, got, sent)'
        BY <1>1, <3>1 DEF Flow
      <3> QED
        BY <3>2
    <2> QED
      BY <2>1, <2>2 DEF FlowInv
  <1>2. CASE UNCHANGED vars
    BY <1>1, <1>2 DEF vars, dataVars, postVars, closeVars
  <1>3. CASE Next
    <2>1. PICK e \in Ends : \/ Send(e) \/ Recv(e)
                            \/ TopOfLoop(e)
                            \/ TryRecv(e) \/ TrySend(e)
                            \/ StartWaiting(e) \/ Wake(e) \/ SpuriousWakeup(e)
                            \/ Notify(e) \/ Close(e) \/ SetStop(e)
      BY <1>3 DEF Next, Worker, User
    <2>2. CASE Send(e) \/ Recv(e) \/ TopOfLoop(e)
      BY <2>2, FlowSend, FlowRecv, FlowTop
    <2>3. CASE TryRecv(e) \/ TrySend(e)
      <3>1. UNCHANGED <<nSend, nRecv, plan>>
        BY <2>3 DEF TryRecv, TrySend, postVars, closeVars
      <3>2. \/ UNCHANGED dataVars
            \/ \E n \in 1..Capacity : Conn!MoveIn(e, n) \/ Conn!MoveOut(e, n)
        BY <2>3 DEF TryRecv, TrySend, dataVars
      <3>3. CASE UNCHANGED dataVars
        BY <1>1, <3>1, <3>3 DEF dataVars
      <3>4. ASSUME NEW n \in 1..Capacity, Conn!MoveIn(e, n) \/ Conn!MoveOut(e, n) PROVE FlowInv'
        BY <3>1, <3>4, FlowIn, FlowOut
      <3> QED
        BY <3>2, <3>3, <3>4
    <2>4. CASE \/ StartWaiting(e) \/ Wake(e) \/ SpuriousWakeup(e)
               \/ Notify(e) \/ Close(e) \/ SetStop(e)
      <3>1. UNCHANGED <<sends, recvs, pipe, mem, nSend, nRecv, plan>>
        BY <2>4 DEF StartWaiting, Wake, SpuriousWakeup, Notify, Close, SetStop,
                    dataVars, postVars, closeVars
      <3> QED
        BY <1>1, <3>1
    <2> QED
      BY <2>1, <2>2, <2>3, <2>4
  <1> QED
    BY <1>2, <1>3

LEMMA FlowAlways == Spec => [](SocketsInv /\ FlowInv)
  <1>1. Init => SocketsInv /\ FlowInv
    BY InitSockets, FlowStarts
  <1>2. SocketsInv /\ FlowInv /\ [Next]_vars => SocketsInv' /\ FlowInv'
    BY NextSockets, FlowNext
  <1> QED  BY <1>1, <1>2, PTL DEF Spec

(* Whatever is cut up, fails or is closed, and however callers and workers  *)
(* interleave: the n-th cell that arrives at an end is the n-th cell of its *)
(* peer, or nothing has arrived in it yet.                                  *)
THEOREM SocketsInOrder == Spec => []ReceivedInOrder
  <1>1. FlowInv => ReceivedInOrder
    <2> SUFFICES ASSUME FlowInv, NEW c \in Cells, c[2] = "in"
                 PROVE  mem[c] \in {Nothing, <<PeerOf[c[1]], c[3]>>}
      BY DEF ReceivedInOrder
    <2>1. c[1] \in Ends
      BY CellFacts
    <2>2. PeerOf[c[1]] \in Ends /\ PeerOf[PeerOf[c[1]]] = c[1]
      BY <2>1, PeerFacts
    <2>3. PICK got \in Nat, sent \in Nat : Flow(PeerOf[c[1]], got, sent)
      BY <2>2 DEF FlowInv
    <2>4. mem[c] = IF c[3] <= got THEN <<PeerOf[c[1]], c[3]>> ELSE Nothing
      BY <2>2, <2>3 DEF Flow
    <2> QED
      BY <2>4
  <1> QED  BY <1>1, FlowAlways, PTL

(* A receive of which the worker has forgotten, so that its future is       *)
(* ready, has been filled to its last cell.                                 *)
THEOREM ReadyIsFilled == Spec => []ReadyMeansFilled
  <1>1. SocketsInv /\ FlowInv => ReadyMeansFilled
    <2> SUFFICES ASSUME SocketsInv, FlowInv, NEW e \in Ends, NEW k \in 1..nRecv[e],
                        ~Waits(recvs, e, k), NEW c \in RangeOf(RecvBlock(e, k))
                 PROVE  mem[c] # Nothing
      BY DEF ReadyMeansFilled
    <2>1. PeerOf[e] \in Ends /\ PeerOf[PeerOf[e]] = e
      BY PeerFacts
    <2>2. PICK got \in Nat, sent \in Nat : Flow(PeerOf[e], got, sent)
      BY <2>1 DEF FlowInv
    <2> DEFINE sizes == plan.recv[e]
    <2>3. Lined(recvs[e], e, "in", sizes, nRecv[e], got)
      BY <2>1, <2>2 DEF Flow
    <2>4. sizes \in Seq(Nat) /\ plan \in Plans /\ nRecv[e] \in 0..Len(sizes)
      BY PlanFacts DEF SocketsInv, TypeInv, FlowInv, PostedInv
    <2> HIDE DEF sizes
    <2>5. k \in DOMAIN sizes /\ sizes[k] \in Nat /\ k \in 1..Len(sizes) + 1
      BY <2>4
    <2>6. /\ Before(sizes, k) \in Nat /\ Before(sizes, k + 1) = Before(sizes, k) + sizes[k]
      BY <2>4, <2>5, BeforeFacts
    <2>7. PICK i \in 1..sizes[k] : c = <<e, "in", Before(sizes, k) + i>>
      BY DEF RangeOf, RecvBlock, Block, sizes
    <2>8. sizes[k] = 0 \/ Before(sizes, k + 1) <= got
      BY <2>3 DEF Lined, Waits
    <2>9. c[1] = e /\ c[2] = "in" /\ c[3] <= got
      BY <2>5, <2>6, <2>7, <2>8
    <2>10. c \in Cells
      <3>1. RecvBlock(e, k) \in Blocks
        BY <2>4, <2>5, BlockTyped DEF RecvBlock, sizes
      <3> QED
        BY <3>1 DEF RangeOf, Cells
    <2>11. mem[c] = <<PeerOf[e], c[3]>>
      BY <2>1, <2>2, <2>9, <2>10 DEF Flow
    <2> QED
      BY <2>11 DEF Nothing
  <1> QED  BY <1>1, FlowAlways, PTL
=============================================================================
