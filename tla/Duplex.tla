------------------------------- MODULE Duplex -------------------------------
(***************************************************************************)
(* What a connection of the ring promises to those who post sends and      *)
(* receives on it (mlx/distributed/ring/ring.cpp, SocketThread): each end  *)
(* takes the sends, and fills the receives, in the order in which they     *)
(* were posted, from and to the memory they name, while they are in its    *)
(* queue; a request leaves the queue, so that its future is ready, only    *)
(* when all of it has been moved.                                          *)
(*                                                                         *)
(* A request names the cells of memory still to be moved, first to last.   *)
(***************************************************************************)
EXTENDS Naturals, Sequences

CONSTANTS Ends,    \* the ends of all connections
          PeerOf,  \* the end at the other side
          Cells,   \* the memory of all processes
          Values,  \* what a cell may hold
          Blocks,  \* the pieces of memory that may be posted
          Ids,     \* names for requests
          Capacity \* how much may be under way in one direction

VARIABLES sends, \* the requests to send at each end
          recvs, \* the requests to receive
          pipe,  \* what an end has sent and its peer has not received
          mem    \* the memory

duplexVars == <<sends, recvs, pipe, mem>>

NewRequest(i, cells) == [id |-> i, cells |-> cells]

(* A request of no cells is done at once. *)
Posted(queue, e, i, cells) ==
    IF cells = <<>> THEN queue
    ELSE [queue EXCEPT ![e] = Append(@, NewRequest(i, cells))]

PostSend(e, i, cells) ==
    /\ sends' = Posted(sends, e, i, cells)
    /\ UNCHANGED <<recvs, pipe, mem>>

PostRecv(e, i, cells) ==
    /\ recvs' = Posted(recvs, e, i, cells)
    /\ UNCHANGED <<sends, pipe, mem>>

SizeOnly(r, n) == [r EXCEPT !.cells = SubSeq(@, 1, Len(@) - n)]

(* The first n cells of request r have been moved: buffer and size. *)
Advanced(r, n) == [r EXCEPT !.cells = SubSeq(@, n + 1, Len(@))]

CanSend(e, n) ==
    /\ sends[e] # <<>> /\ n <= Len(Head(sends[e]).cells)
    /\ Len(pipe[e]) + n <= Capacity

CanReceive(e, n) ==
    /\ recvs[e] # <<>> /\ n <= Len(Head(recvs[e]).cells)
    /\ n <= Len(pipe[PeerOf[e]])

(* send(2) takes n cells of the first request as they are now. *)
MoveOut(e, n) ==
    LET r == Head(sends[e])
    IN  /\ CanSend(e, n)
        /\ pipe' = [pipe EXCEPT ![e] = @ \o [k \in 1..n |-> mem[r.cells[k]]]]
        /\ sends' = [sends EXCEPT ![e][1] = Advanced(r, n)]
        /\ UNCHANGED <<recvs, mem>>

(* recv(2) fills n cells of the first request. *)
MoveIn(e, n) ==
    LET r == Head(recvs[e])
        p == PeerOf[e]
    IN  /\ CanReceive(e, n)
        /\ mem' = [c \in Cells |->
                     IF \E k \in 1..n : r.cells[k] = c
                     THEN pipe[p][CHOOSE k \in 1..n : r.cells[k] = c]
                     ELSE mem[c]]
        /\ pipe' = [pipe EXCEPT ![p] = SubSeq(@, n + 1, Len(@))]
        /\ recvs' = [recvs EXCEPT ![e][1] = Advanced(r, n)]
        /\ UNCHANGED sends

Finished(queue) == queue # <<>> /\ Head(queue).cells = <<>>

(* The worker forgets finished requests and sets their promises. *)
Retire(e) ==
    /\ \/ Finished(sends[e]) /\ sends' = [sends EXCEPT ![e] = Tail(@)]
       \/ UNCHANGED sends
    /\ \/ Finished(recvs[e]) /\ recvs' = [recvs EXCEPT ![e] = Tail(@)]
       \/ UNCHANGED recvs
    /\ UNCHANGED <<pipe, mem>>

DuplexNext ==
    \E e \in Ends :
        \/ \E i \in Ids, cells \in Blocks : PostSend(e, i, cells) \/ PostRecv(e, i, cells)
        \/ \E n \in 1..Capacity : MoveOut(e, n) \/ MoveIn(e, n)
        \/ Retire(e)

DuplexInit ==
    /\ sends = [e \in Ends |-> <<>>] /\ recvs = [e \in Ends |-> <<>>]
    /\ pipe = [e \in Ends |-> <<>>]
    /\ mem \in [Cells -> Values]

DuplexSpec == DuplexInit /\ [][DuplexNext]_duplexVars
=============================================================================
