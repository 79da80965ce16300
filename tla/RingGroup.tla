----------------------------- MODULE RingGroup -----------------------------
(***************************************************************************)
(* mlx/distributed/ring/ring.cpp, RingGroup: the processes of a job        *)
(* connect to a ring, several wires between neighbours, and run the same   *)
(* collectives in the same order, each on the thread of one stream, which  *)
(* waits for the lanes (tasks of the group's thread pool) it has split the *)
(* call into.  The connections do what Duplex promises, a cell at a time.  *)
(*                                                                         *)
(* A cell holds the bag of what has been summed up in it: <<c, r, k>> is   *)
(* element k of what rank r gives to its call c.                           *)
(***************************************************************************)
EXTENDS Integers, SequencesExt

CONSTANTS Jobs,     \* what may be run
          Capacity, \* of the system's buffers, in one direction
          Attempts  \* CONN_ATTEMPTS

(* A job: the number of ranks and of wires, min_send_size, the least and    *)
(* the greatest packet (32768 and ALL_SUM_SIZE), the least piece of a send  *)
(* (1024), all in cells, and the calls of each rank.                        *)
Call == [kind : {"all_reduce", "all_gather", "send", "recv"}, size : Nat, peer : Nat]

ASSUME GroupAssumption ==
    /\ Capacity \in Nat \ {0} /\ Attempts \in Nat \ {0}
    /\ \A j \in Jobs :
        /\ j.ranks \in Nat \ {0, 1}
        /\ \A x \in {j.wires, j.minSend, j.minPacket, j.maxPacket, j.minPiece} :
              x \in Nat \ {0}
        /\ j.calls \in [0..j.ranks - 1 -> Seq(Call)]
        /\ 2 * j.wires <= j.minSend + 1  \* no lane is without cells
        /\ \A r \in 0..j.ranks - 1 : \A it \in Range(j.calls[r]) :
              it.kind \in {"send", "recv"} =>  \* or the call throws
                 it.peer \in {(r + 1) % j.ranks, (r + j.ranks - 1) % j.ranks}

RanksOf(j) == 0..j.ranks - 1

(* An end of a connection, in the ring of j.ranks processes. *)
End(j, r, side, w) == <<j.ranks, r, side, w>>
Ends == UNION {{End(j, r, side, w) : r \in RanksOf(j), side \in {"left", "right"},
                                     w \in 1..j.wires} : j \in Jobs}
PeerOf ==
    [e \in Ends |-> IF e[3] = "right" THEN <<e[1], (e[2] + 1) % e[1], "left", e[4]>>
                    ELSE <<e[1], (e[2] + e[1] - 1) % e[1], "right", e[4]>>]

-----------------------------------------------------------------------------
(* What a call does: its lanes.  A lane has what it sends and receives, step *)
(* by step, and where a step's receive is summed up; where it sends to and   *)
(* receives from; by how many steps its waits lag behind.                    *)

CeilDiv(a, b) == (a + b - 1) \div b

(* The array of call c of rank r; n cells of one of the two receive buffers  *)
(* of a lane.                                                                *)
Out(r, c, n) == [k \in 1..n |-> <<r, <<"out", c>>, k>>]
Buffer(r, lane, slot, n) == [k \in 1..n |-> <<r, <<"buffer", lane, slot>>, k>>]

OneSlot(i) == 0

SlotOf(i) == i % 2

Lag(packets) == IF packets > 1 THEN 1 ELSE 0

AlsoFirstGather(i, half) == i <= half

(* 2 * i < send_plan.size(). *)
Scatters(i, half) == i < half

Step(out, in, into) == [send |-> out, recv |-> in, into |-> into]

(* direction < 0: to the right, from the left. *)
Lane(j, r, w, direction, lag, steps) ==
    LET right == End(j, r, "right", w)
        left == End(j, r, "left", w)
    IN  [to |-> IF direction < 0 THEN right ELSE left,
         from |-> IF direction < 0 THEN left ELSE right,
         lag |-> lag, steps |-> steps]

Direction(lane) == IF lane % 2 = 1 THEN -1 ELSE 1

(* all_reduce_impl: scatter-reduce, then gather, in packets. *)
ReduceLane(j, r, lane, data, direction) ==
    LET segment == CeilDiv(Len(data), j.ranks)
        buffer == Max({j.minPacket, Min({j.maxPacket, segment \div 2})})
        packets == CeilDiv(segment, buffer)
        half == (j.ranks - 1) * packets
        Packet(k, p) ==
            LET s == (r + k * direction) % j.ranks
                stop == Min({(s + 1) * segment, Len(data)})
            IN  SubSeq(data, Min({s * segment + p * buffer, stop}) + 1,
                             Min({s * segment + (p + 1) * buffer, stop}))
        StepOf(i) ==
            LET out == Packet(i \div packets, i % packets)
                in == Packet(i \div packets + 1, i % packets)
            IN  IF Scatters(i, half) THEN Step(out, Buffer(r, lane, SlotOf(i), Len(in)), in)
                ELSE Step(out, in, <<>>)
    IN  Lane(j, r, lane \div 2 + 1, direction, Lag(packets),
             [i \in 1..2 * half |-> StepOf(i - 1)])

(* all_reduce: arrays with fewer elements than ranks are padded with zeros.  *)
ReduceLanes(j, r, c, size) ==
    IF size < j.ranks THEN <<ReduceLane(j, r, 0, Out(r, c, j.ranks), -1)>>
    ELSE LET n == Max({Min({2 * j.wires, size \div (j.ranks * j.minSend)}), 1})
             step == CeilDiv(size, n)
         IN  [l \in 1..n |->
                ReduceLane(j, r, l - 1, SubSeq(Out(r, c, size), (l - 1) * step + 1,
                                               Min({size, l * step})),
                           Direction(l - 1))]

(* all_gather and all_gather_impl. *)
GatherLanes(j, r, c, size) ==
    LET n == Max({Min({2 * j.wires, size \div j.minSend}), 1})
        part == CeilDiv(size, n)
        Part(l, k) ==
            LET s == (r + k * Direction(l)) % j.ranks
            IN  SubSeq(Out(r, c, j.ranks * size), s * size + l * part + 1,
                       s * size + Min({size, (l + 1) * part}))
    IN  [l \in 1..n |->
           Lane(j, r, (l - 1) \div 2 + 1, Direction(l - 1), 0,
                [i \in 1..j.ranks - 1 |->
                   Step(Part(l - 1, i - 1), Part(l - 1, i), <<>>)])]

(* send and recv: to the right if the peer is there, else to the left; the   *)
(* other way round for recv, for the sake of two ranks.                      *)
SideOf(j, r, it) ==
    LET right == (r + 1) % j.ranks
        left == (r + j.ranks - 1) % j.ranks
    IN  IF it.kind = "send"
        THEN IF it.peer = right THEN "right" ELSE "left"
        ELSE IF it.peer = left THEN "left" ELSE "right"

PieceLanes(j, r, c, it) ==
    LET piece == Max({j.minPiece, CeilDiv(it.size, j.wires)})
        Piece(l) == SubSeq(Out(r, c, it.size), (l - 1) * piece + 1,
                           Min({it.size, l * piece}))
        Moves(l) == IF it.kind = "send" THEN Step(Piece(l), <<>>, <<>>)
                    ELSE Step(<<>>, Piece(l), <<>>)
    IN  [l \in 1..CeilDiv(it.size, piece) |->
           LET e == End(j, r, SideOf(j, r, it), l)
           IN  [to |-> e, from |-> e, lag |-> 0, steps |-> <<Moves(l)>>]]

Lanes(j, r, c) ==
    LET it == j.calls[r][c]
    IN  CASE it.kind = "all_reduce" -> ReduceLanes(j, r, c, it.size)
          [] it.kind = "all_gather" -> GatherLanes(j, r, c, it.size)
          [] OTHER -> PieceLanes(j, r, c, it)

(* The calls of the ranks fit: those of the same round go together.  Ranks   *)
(* do the same collectives, as the same calls; there is a recv for each      *)
(* send, and the other way round; the rounds of a rank's calls increase, but *)
(* for those that have nothing to do with each other: a send and a recv, or  *)
(* two of them with different peers.                                         *)
Collectives == {"all_reduce", "all_gather"}
Answers(j, round, r, c, q, d) ==
    LET it == j.calls[r][c]
        other == j.calls[q][d]
    IN  /\ {it.kind, other.kind} = {"send", "recv"}
        /\ it.peer = q /\ other.peer = r /\ it.size = other.size
        /\ round[r][c] = round[q][d]
Matched(j, round) ==
    /\ \A r \in RanksOf(j) : DOMAIN round[r] = DOMAIN j.calls[r]
    /\ \A r \in RanksOf(j) : \A c \in DOMAIN j.calls[r] :
        LET it == j.calls[r][c]
        IN  /\ it.kind \in Collectives => \A q \in RanksOf(j) :
                  /\ c \in DOMAIN j.calls[q] /\ j.calls[q][c].kind = it.kind
                  /\ j.calls[q][c].size = it.size /\ round[q][c] = round[r][c]
            /\ it.kind \notin Collectives =>
                  \E d \in DOMAIN j.calls[it.peer] : Answers(j, round, r, c, it.peer, d)
            /\ \A d \in DOMAIN j.calls[r] :
                  /\ c < d
                  /\ \/ it.kind \in Collectives \/ j.calls[r][d].kind \in Collectives
                     \/ it.kind = j.calls[r][d].kind /\ it.peer = j.calls[r][d].peer
                  => round[r][c] < round[r][d]

CellsOf(j) ==
    LET All == UNION {UNION {Range(Lanes(j, r, c)) : c \in DOMAIN j.calls[r]} :
                      r \in RanksOf(j)}
    IN  UNION {UNION {Range(s.send) \cup Range(s.recv) : s \in Range(l.steps)} : l \in All}
Cells == {x : x \in UNION {CellsOf(j) : j \in Jobs}}  \* as an enumeration

-----------------------------------------------------------------------------
VARIABLES job,          \* what is run
          plan,         \* the lanes of every call of every rank
          todo,         \* what the constructor of each rank has still to do
          listening,    \* <<rank, wire>> at which a rank awaits its left neighbour
          connected,    \* those to which the neighbour has connected
          tries,        \* attempts to connect that have failed
          gaveUp,       \* ranks whose constructor has thrown
          call,         \* the call each rank is in, or has finished last
          lanes,        \* where its lanes are: the step, and the place in it
          sends, recvs, \* the connections, as in Duplex
          pipe, mem

setupVars == <<job, plan, todo, listening, connected, tries, gaveUp>>
callVars == <<call, lanes>>
duplexVars == <<sends, recvs, pipe, mem>>
vars == <<setupVars, callVars, duplexVars>>

Element(c, r, k) == SetToBag({<<c, r, k>>})
Uninitialised == SetToBag({<<>>})

Conn == INSTANCE Duplex WITH
    Values <- UNION {[S -> Nat \ {0}] : S \in SUBSET (Nat \X Nat \X Nat \cup {<<>>})},
    Blocks <- Seq(Cells), Ids <- Nat \X Nat \X Nat

Ranks == RanksOf(job)
Plan(r) == plan[r][call[r]]

(* The constructor accepts from the left and connects to the right, wire by *)
(* wire; the last rank connects first.                                      *)
AllWires(j, what) == [w \in 1..j.wires |-> <<what, w>>]

AcceptsFirst(j, r) == AllWires(j, "accept") \o AllWires(j, "connect")

SetupOrder(j, r) ==
    IF r < (r + 1) % j.ranks THEN AcceptsFirst(j, r)
    ELSE AllWires(j, "connect") \o AllWires(j, "accept")

Init ==
    /\ job \in Jobs
    /\ plan = [r \in Ranks |-> [c \in DOMAIN job.calls[r] |-> Lanes(job, r, c)]]
    /\ todo = [r \in Ranks |-> SetupOrder(job, r)]
    /\ listening = {} /\ connected = {} /\ gaveUp = {}
    /\ tries = [r \in Ranks |-> 0]
    /\ call = [r \in Ranks |-> 0]
    /\ lanes = [r \in Ranks |-> <<>>]
    /\ sends = [e \in Ends |-> <<>>] /\ recvs = [e \in Ends |-> <<>>]
    /\ pipe = [e \in Ends |-> <<>>]
    /\ mem = [c \in Cells |-> IF c[2][1] = "buffer" THEN EmptyBag ELSE Uninitialised]

-----------------------------------------------------------------------------
(* Making the connections *)

MustDo(r, what) == todo[r] # <<>> /\ Head(todo[r])[1] = what
WireOf(r) == Head(todo[r])[2]

(* TCPSocket::listen: from here on a connection can be made. *)
Listen(r) ==
    /\ MustDo(r, "accept") /\ <<r, WireOf(r)>> \notin listening
    /\ listening' = listening \cup {<<r, WireOf(r)>>}
    /\ UNCHANGED <<job, plan, todo, connected, tries, gaveUp, callVars, duplexVars>>

(* accept returns; the socket that listened is closed. *)
Accept(r) ==
    /\ MustDo(r, "accept") /\ <<r, WireOf(r)>> \in listening \cap connected
    /\ listening' = listening \ {<<r, WireOf(r)>>}
    /\ todo' = [todo EXCEPT ![r] = Tail(@)]
    /\ UNCHANGED <<job, plan, connected, tries, gaveUp, callVars, duplexVars>>

Connect(r) ==
    LET there == <<(r + 1) % job.ranks, WireOf(r)>>
    IN  /\ MustDo(r, "connect") /\ there \in listening
        /\ connected' = connected \cup {there}
        /\ todo' = [todo EXCEPT ![r] = Tail(@)]
        /\ tries' = [tries EXCEPT ![r] = 0]
        /\ UNCHANGED <<job, plan, listening, gaveUp, callVars, duplexVars>>

(* Nobody listens: wait and try again, or throw. *)
ConnectFails(r) ==
    /\ MustDo(r, "connect") /\ <<(r + 1) % job.ranks, WireOf(r)>> \notin listening
    /\ tries' = [tries EXCEPT ![r] = @ + 1]
    /\ IF tries'[r] = Attempts
       THEN gaveUp' = gaveUp \cup {r} /\ todo' = [todo EXCEPT ![r] = <<>>]
       ELSE UNCHANGED <<gaveUp, todo>>
    /\ UNCHANGED <<job, plan, listening, connected, callVars, duplexVars>>

-----------------------------------------------------------------------------
(* The calls *)

(* What the array of the call holds when the lanes start: the input of an   *)
(* all_reduce has been copied, that of an all_gather is copied by the lanes *)
(* before anything else.                                                    *)
Initial(r, c, k) ==
    LET it == job.calls[r][c]
    IN  CASE it.kind = "all_reduce" -> IF k <= it.size THEN Element(c, r, k) ELSE EmptyBag
          [] it.kind = "all_gather" ->
               IF k \in r * it.size + 1..(r + 1) * it.size
               THEN Element(c, r, k - r * it.size) ELSE Uninitialised
          [] it.kind = "send" -> Element(c, r, k)
          [] it.kind = "recv" -> Uninitialised

Start(r) ==
    LET c == call[r] + 1
    IN  /\ todo[r] = <<>> /\ r \notin gaveUp
        /\ lanes[r] = <<>> /\ c \in DOMAIN job.calls[r]
        /\ call' = [call EXCEPT ![r] = c]
        /\ lanes' = [lanes EXCEPT ![r] = [l \in DOMAIN plan[r][c] |-> [step |-> 1, at |-> "send"]]]
        /\ mem' = [x \in Cells |-> IF x[1] = r /\ x[2] = <<"out", c>>
                                   THEN Initial(r, c, x[3]) ELSE mem[x]]
        /\ UNCHANGED <<setupVars, sends, recvs, pipe>>

(* The thread of the stream has waited for all lanes. *)
Finish(r) ==
    /\ lanes[r] # <<>> /\ \A l \in DOMAIN lanes[r] : lanes[r][l].at = "done"
    /\ lanes' = [lanes EXCEPT ![r] = <<>>]
    /\ UNCHANGED <<setupVars, call, duplexVars>>

At(r, l, place) == l \in DOMAIN lanes[r] /\ lanes[r][l].at = place
Goto(r, l, step, place) ==
    lanes' = [lanes EXCEPT ![r][l] = [step |-> step, at |-> place]]

StepSend(r, l) ==
    LET i == lanes[r][l].step
    IN  /\ At(r, l, "send")
        /\ Conn!PostSend(Plan(r)[l].to, <<call[r], l, i>>, Plan(r)[l].steps[i].send)
        /\ Goto(r, l, i, "recv")
        /\ UNCHANGED <<setupVars, call>>

(* Where a lane goes after step i. *)
NextStep(r, l, i) ==
    IF i < Len(Plan(r)[l].steps) THEN Goto(r, l, i + 1, "send")
    ELSE Goto(r, l, i + 1, "last")

StepRecv(r, l) ==
    LET i == lanes[r][l].step
    IN  /\ At(r, l, "recv")
        /\ Conn!PostRecv(Plan(r)[l].from, <<call[r], l, i>>, Plan(r)[l].steps[i].recv)
        /\ IF i > Plan(r)[l].lag THEN Goto(r, l, i, "wait") ELSE NextStep(r, l, i)
        /\ UNCHANGED <<setupVars, call>>

(* The futures of step i of the lane are ready. *)
Ready(r, l, i) ==
    LET Pending(queue, e) == \E k \in DOMAIN queue[e] : queue[e][k].id = <<call[r], l, i>>
    IN  ~Pending(sends, Plan(r)[l].to) /\ ~Pending(recvs, Plan(r)[l].from)

(* reduce_op: into[k] += from[k]. *)
Reduced(from, into) ==
    [x \in Cells |-> IF x \in Range(into)
                     THEN mem[x] (+) mem[from[CHOOSE k \in DOMAIN into : into[k] = x]]
                     ELSE mem[x]]

Awaited(r, l) == lanes[r][l].step - Plan(r)[l].lag

(* Wait for the step that lags behind, and sum up what it received. *)
StepWait(r, l) ==
    LET s == Plan(r)[l].steps[Awaited(r, l)]
    IN  /\ At(r, l, "wait") /\ Ready(r, l, Awaited(r, l))
        /\ mem' = Reduced(s.recv, s.into)
        /\ NextStep(r, l, lanes[r][l].step)
        /\ UNCHANGED <<setupVars, call, sends, recvs, pipe>>

(* sends[b].wait(), recvs[b].wait() after the loop. *)
LastWait(r, l) ==
    /\ At(r, l, "last") /\ Ready(r, l, lanes[r][l].step - 1)
    /\ Goto(r, l, lanes[r][l].step, "done")
    /\ UNCHANGED <<setupVars, call, duplexVars>>

Setup(r) == Listen(r) \/ Accept(r) \/ Connect(r) \/ ConnectFails(r)
LaneStep(r, l) == StepSend(r, l) \/ StepRecv(r, l) \/ StepWait(r, l) \/ LastWait(r, l)

(* A worker of a connection; a move of more cells is several of these.      *)
Worker(e) ==
    /\ \/ Conn!MoveOut(e, 1) \/ Conn!MoveIn(e, 1)
       \/ (Conn!Finished(sends[e]) \/ Conn!Finished(recvs[e])) /\ Conn!Retire(e)
    /\ UNCHANGED <<setupVars, callVars>>

Next ==
    \/ \E r \in Ranks :
          \/ Setup(r) \/ Start(r) \/ Finish(r)
          \/ \E l \in DOMAIN lanes[r] : LaneStep(r, l)
    \/ \E e \in Ends : Worker(e)

Spec == Init /\ [][Next]_vars

(* Every step uses something up, so it is enough that the processes as a    *)
(* whole do not stop while one of them can go on.                           *)
FairSpec == Spec /\ WF_vars(Next)

-----------------------------------------------------------------------------
(* Properties *)

Finished(r, c) == c < call[r] \/ (c = call[r] /\ lanes[r] = <<>>)

Width(r, c) ==
    LET it == job.calls[r][c]
    IN  IF it.kind = "all_gather" THEN job.ranks * it.size ELSE it.size

(* The calls up to the c-th of rank r of that kind and with that peer. *)
Upto(r, c, kind, peer) ==
    {i \in 1..c : job.calls[r][i].kind = kind /\ job.calls[r][i].peer = peer}

(* What cell k of the result of call c of rank r must hold.  What the n-th  *)
(* recv from a peer gives is what the peer's n-th send to the rank has sent. *)
Expected(r, c, k) ==
    LET it == job.calls[r][c]
        Answer(i) == /\ job.calls[it.peer][i].kind = "send" /\ job.calls[it.peer][i].peer = r
                     /\ Cardinality(Upto(it.peer, i, "send", r))
                           = Cardinality(Upto(r, c, "recv", it.peer))
    IN  CASE it.kind = "all_reduce" -> SetToBag({<<c, q, k>> : q \in Ranks})
          [] it.kind = "all_gather" ->
               Element(c, (k - 1) \div it.size, ((k - 1) % it.size) + 1)
          [] it.kind = "send" -> Element(c, r, k)
          [] it.kind = "recv" ->
               Element(CHOOSE i \in DOMAIN job.calls[it.peer] : Answer(i), it.peer, k)

(* Whatever the interleaving of ranks, lanes and connections, a call that   *)
(* has returned has the contribution of every rank to every element exactly *)
(* once, and no later call disturbs it.                                     *)
Result ==
    \A r \in Ranks : \A c \in 1..call[r] : \A k \in 1..Width(r, c) :
        Finished(r, c) => mem[<<r, <<"out", c>>, k>>] = Expected(r, c, k)

(* The cells of the requests of rank r in queue: <<cell, the request>>.     *)
Uses(queue, r) ==
    UNION {UNION {{<<x, e, q.id>> : x \in Range(q.cells)} : q \in Range(queue[e])} :
           e \in {e \in Ends : e[1] = job.ranks /\ e[2] = r}}
CellsIn(uses) == {u[1] : u \in uses}

(* Memory that is being filled is not being sent, is filled by one request  *)
(* only, and takes no part in a reduction; what is reduced into is not      *)
(* being sent.                                                              *)
NoOverlap ==
    \A r \in Ranks :
        LET out == Uses(sends, r)
            in == Uses(recvs, r)
        IN  /\ CellsIn(in) \cap CellsIn(out) = {}
            /\ \A u, v \in in : u[1] = v[1] => u = v
            /\ \A l \in DOMAIN lanes[r] :
                 At(r, l, "wait") /\ Ready(r, l, Awaited(r, l)) =>
                   LET s == Plan(r)[l].steps[Awaited(r, l)]
                   IN  s.into # <<>> =>
                         /\ (Range(s.recv) \cup Range(s.into)) \cap CellsIn(in) = {}
                         /\ Range(s.into) \cap CellsIn(out) = {}

(* With buffers of any size between the processes, the ring is made and     *)
(* every call of every rank returns, unless a rank has given up connecting. *)
Finishes ==
    <>(gaveUp # {} \/ \A r \in Ranks : todo[r] = <<>> /\ lanes[r] = <<>>
                                       /\ call[r] = Len(job.calls[r]))
=============================================================================
