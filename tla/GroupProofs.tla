----------------------------- MODULE GroupProofs -----------------------------
(***************************************************************************)
(* For any ranks, wires, sizes of packets, pieces and calls of a job:      *)
(*                                                                         *)
(* The memory that RingGroup's lanes hand to the connections is never      *)
(* handed out twice in a way that matters (NoOverlap), as what is queued   *)
(* at a connection belongs to a step that its lane has posted and not      *)
(* waited for (GroupInv), and LaneProofs says of these that they are       *)
(* apart.                                                                  *)
(*                                                                         *)
(* A call that has returned has left what it promises (Result), if the     *)
(* calls of the ranks fit.  Both ends of a connection go through its tags  *)
(* in the order of Earlier, so what is under way between them is what the  *)
(* one still has to receive and the other not any more to send (FlowInv),  *)
(* and what arrives as a tag is what was sent as that tag.  So memory      *)
(* holds what it must (MemInv), by the laws of LaneProofs.                 *)
(***************************************************************************)
EXTENDS LaneProofs

-----------------------------------------------------------------------------
(* What is queued: the inductive invariant *)

Id(c, l, i) == <<c, l, i>>
Request == [id : Nat \X Nat \X Nat, cells : Seq(Cells)]
Places == {"send", "recv", "wait", "last", "done"}

GroupTypeOK ==
    /\ job \in Jobs
    /\ plan = [r \in Ranks |-> [c \in DOMAIN job.calls[r] |-> Lanes(job, r, c)]]
    /\ call \in [Ranks -> Nat]
    /\ \A r \in Ranks : call[r] = 0 \/ call[r] \in DOMAIN job.calls[r]
    /\ DOMAIN lanes = Ranks
    /\ sends \in [Ends -> Seq(Request)] /\ recvs \in [Ends -> Seq(Request)]

(* The step of a lane, and what it may do next. *)
AtStep(L, s) ==
    /\ s = [step |-> s.step, at |-> s.at]
    /\ s.step \in Nat \ {0} /\ s.at \in Places
    /\ s.at \in {"send", "recv", "wait"} => s.step <= Len(L.steps)
    /\ s.at = "wait" => s.step > L.lag
    /\ s.at \in {"last", "done"} => s.step = Len(L.steps) + 1

LanesInPlan ==
    \A r \in Ranks : lanes[r] # <<>> =>
        /\ call[r] \in DOMAIN job.calls[r]
        /\ DOMAIN lanes[r] = DOMAIN Plan(r)
        /\ \A l \in DOMAIN lanes[r] : AtStep(Plan(r)[l], lanes[r][l])

(* The steps of a lane whose sends (receives) have been posted and not been  *)
(* waited for.                                                               *)
SendWindow(L, s) ==
    IF s.at = "done" THEN {}
    ELSE s.step - L.lag..(IF s.at \in {"recv", "wait"} THEN s.step ELSE s.step - 1)
RecvWindow(L, s) ==
    IF s.at = "done" THEN {}
    ELSE s.step - L.lag..(IF s.at = "wait" THEN s.step ELSE s.step - 1)

(* A request at end e is one of a lane that is under way. *)
SendOk(e, q) ==
    LET r == e[2]
        l == q.id[2]
        i == q.id[3]
    IN  /\ e[1] = job.ranks /\ r \in Ranks
        /\ q.id[1] = call[r] /\ l \in DOMAIN lanes[r] /\ Plan(r)[l].to = e
        /\ i \in SendWindow(Plan(r)[l], lanes[r][l]) /\ i \in DOMAIN Plan(r)[l].steps
        /\ Range(q.cells) \subseteq Range(Plan(r)[l].steps[i].send)
RecvOk(e, q) ==
    LET r == e[2]
        l == q.id[2]
        i == q.id[3]
    IN  /\ e[1] = job.ranks /\ r \in Ranks
        /\ q.id[1] = call[r] /\ l \in DOMAIN lanes[r] /\ Plan(r)[l].from = e
        /\ i \in RecvWindow(Plan(r)[l], lanes[r][l]) /\ i \in DOMAIN Plan(r)[l].steps
        /\ Range(q.cells) \subseteq Range(Plan(r)[l].steps[i].recv)

QueuesInWindow ==
    \A e \in Ends : /\ \A q \in Range(sends[e]) : SendOk(e, q)
                    /\ \A q \in Range(recvs[e]) : RecvOk(e, q)

GroupInv == GroupTypeOK /\ LanesInPlan /\ QueuesInWindow

LEMMA IdFacts ==
    ASSUME NEW c, NEW l, NEW i
    PROVE  /\ Id(c, l, i)[1] = c /\ Id(c, l, i)[2] = l /\ Id(c, l, i)[3] = i
           /\ c \in Nat /\ l \in Nat /\ i \in Nat => Id(c, l, i) \in Nat \X Nat \X Nat
  BY DEF Id

LEMMA IdIs ==
    ASSUME NEW x \in Nat \X Nat \X Nat
    PROVE  x = Id(x[1], x[2], x[3])
  BY DEF Id

LEMMA RequestFacts ==
    ASSUME NEW q \in Request
    PROVE  q.id \in Nat \X Nat \X Nat /\ q.cells \in Seq(Cells) /\ q = [id |-> q.id, cells |-> q.cells]
  BY DEF Request

LEMMA PlanFacts ==
    ASSUME GroupTypeOK, NEW r \in Ranks, call[r] \in DOMAIN job.calls[r]
    PROVE  /\ Plan(r) = Lanes(job, r, call[r]) /\ PlanOk(job, r, Plan(r)) /\ job \in Jobs
           /\ r \in RanksOf(job)
           /\ \A l \in DOMAIN Plan(r) : \A i \in DOMAIN Plan(r)[l].steps :
                 Plan(r)[l].steps[i].send \in Seq(Cells) /\ Plan(r)[l].steps[i].recv \in Seq(Cells)
  <1>1. job \in Jobs /\ r \in RanksOf(job)  BY DEF GroupTypeOK, Ranks
  <1>2. Plan(r) = Lanes(job, r, call[r])  BY DEF GroupTypeOK, Plan
  <1>3. PlanOk(job, r, Lanes(job, r, call[r]))  BY <1>1, LanesOk
  <1>4. \A l \in DOMAIN Lanes(job, r, call[r]) : \A i \in DOMAIN Lanes(job, r, call[r])[l].steps :
           /\ Lanes(job, r, call[r])[l].steps[i].send \in Seq(Cells)
           /\ Lanes(job, r, call[r])[l].steps[i].recv \in Seq(Cells)
    BY <1>1, StepsInCells
  <1> QED  BY <1>1, <1>2, <1>3, <1>4

(* A lane that is under way, and its steps. *)
LEMMA LaneFacts ==
    ASSUME GroupTypeOK, LanesInPlan, NEW r \in Ranks, NEW l \in DOMAIN lanes[r]
    PROVE  LET L == Plan(r)[l]
           IN  /\ call[r] \in DOMAIN job.calls[r] /\ DOMAIN lanes[r] = DOMAIN Plan(r)
               /\ l \in DOMAIN Plan(r) /\ l \in Nat /\ call[r] \in Nat
               /\ LaneOk(L, LaneMemory(L)) /\ L.lag \in {0, 1}
               /\ DOMAIN L.steps = 1..Len(L.steps) /\ Len(L.steps) \in Nat \ {0}
               /\ L.to \in Ends /\ L.to[1] = job.ranks /\ L.to[2] = r
               /\ L.from \in Ends /\ L.from[1] = job.ranks /\ L.from[2] = r
               /\ AtStep(L, lanes[r][l])
  <1> DEFINE L == Plan(r)[l]
  <1>1. lanes[r] # <<>>  OBVIOUS
  <1>2. call[r] \in DOMAIN job.calls[r] /\ DOMAIN lanes[r] = DOMAIN Plan(r) /\ AtStep(L, lanes[r][l])
    BY <1>1 DEF LanesInPlan
  <1>3. PlanOk(job, r, Plan(r)) /\ job \in Jobs /\ r \in RanksOf(job)  BY <1>2, PlanFacts
  <1>4. LaneOk(L, LaneMemory(L)) /\ L.to \in RankEnds(job, r) /\ L.from \in RankEnds(job, r)
    BY <1>2, <1>3 DEF PlanOk
  <1>5. l \in Nat /\ call[r] \in Nat
    <2>1. DOMAIN Plan(r) = 1..Len(Plan(r)) /\ Len(Plan(r)) \in Nat  BY <1>3 DEF PlanOk
    <2>2. l \in Nat  BY <1>2, <2>1
    <2>3. call[r] \in Nat  BY DEF GroupTypeOK
    <2> QED  BY <2>2, <2>3
  <1>6. L.to \in Ends /\ L.to[1] = job.ranks /\ L.to[2] = r  BY <1>3, <1>4, RankEndFacts
  <1>7. L.from \in Ends /\ L.from[1] = job.ranks /\ L.from[2] = r  BY <1>3, <1>4, RankEndFacts
  <1>8. L.lag \in {0, 1} /\ DOMAIN L.steps = 1..Len(L.steps) /\ Len(L.steps) \in Nat \ {0}
    BY <1>4 DEF LaneOk
  <1> HIDE DEF L
  <1> QED  BY <1>2, <1>4, <1>5, <1>6, <1>7, <1>8 DEF L

-----------------------------------------------------------------------------
(* The invariant implies NoOverlap *)

UseOf(x, e, i) == <<x, e, i>>

LEMMA UseFacts ==
    ASSUME NEW queue, NEW r, NEW u \in Uses(queue, r)
    PROVE  \E e \in Ends : \E q \in Range(queue[e]) : \E x \in Range(q.cells) :
              e[2] = r /\ u = UseOf(x, e, q.id) /\ u[1] = x
  <1>1. \E e \in {e \in Ends : e[1] = job.ranks /\ e[2] = r} : \E q \in Range(queue[e]) :
           \E x \in Range(q.cells) : u = UseOf(x, e, q.id)

    <2> DEFINE E == {e \in Ends : e[1] = job.ranks /\ e[2] = r}
               B(e, q) == {UseOf(x, e, q.id) : x \in Range(q.cells)}
               A(e) == UNION {B(e, q) : q \in Range(queue[e])}
    <2>1. Uses(queue, r) = UNION {A(e) : e \in E}  BY Zenon DEF Uses, UseOf
    <2> HIDE DEF E
    <2>2. PICK e \in E : u \in A(e)
      <3> HIDE DEF A
      <3> QED  BY <2>1
    <2>3. PICK q \in Range(queue[e]) : u \in B(e, q)
      <3> HIDE DEF B
      <3> QED  BY <2>2
    <2> QED  BY <2>2, <2>3 DEF E
  <1>2. PICK e \in {e \in Ends : e[1] = job.ranks /\ e[2] = r} : \E q \in Range(queue[e]) :
           \E x \in Range(q.cells) : u = UseOf(x, e, q.id)
    BY <1>1
  <1>3. PICK q \in Range(queue[e]) : \E x \in Range(q.cells) : u = UseOf(x, e, q.id)
    BY <1>2
  <1>4. PICK x \in Range(q.cells) : u = UseOf(x, e, q.id)  BY <1>3
  <1>5. u[1] = x  BY <1>4 DEF UseOf
  <1>6. e \in Ends /\ e[2] = r  BY <1>2
  <1> QED  BY <1>3, <1>4, <1>5, <1>6

LEMMA WindowsClose ==
    ASSUME NEW L, NEW s, L.lag \in {0, 1}, Len(L.steps) \in Nat \ {0}, AtStep(L, s)
    PROVE  /\ \A i \in SendWindow(L, s) : i \in Int
           /\ \A i \in RecvWindow(L, s) : i \in Int
           /\ \A i \in SendWindow(L, s), k \in RecvWindow(L, s) : Close(L, i, k) /\ Close(L, k, i)
           /\ \A i, k \in RecvWindow(L, s) : Close(L, i, k)
           /\ \A i, k \in SendWindow(L, s) : Close(L, i, k)
           /\ s.at = "wait" => /\ \A i \in RecvWindow(L, s) : Close(L, s.step - L.lag, i)
                               /\ \A i \in SendWindow(L, s) : Close(L, s.step - L.lag, i)
                               /\ s.step - L.lag \in 1..Len(L.steps)
  <1> DEFINE n == L.lag
             t == s.step
             a == t - n
  <1>1. n \in {0, 1} /\ t \in Nat \ {0} /\ a \in Int  BY DEF AtStep
  <1>2. \A i \in SendWindow(L, s) : i \in a..t  BY <1>1 DEF SendWindow
  <1>3. \A i \in RecvWindow(L, s) : i \in a..t  BY <1>1 DEF RecvWindow
  <1>4. \A i, k \in a..t : Close(L, i, k)  BY <1>1 DEF Close
  <1>5. a \in a..t  BY <1>1
  <1>6. s.at = "wait" => a \in 1..Len(L.steps)  BY <1>1 DEF AtStep
  <1> HIDE DEF n, t, a
  <1>7. \A i \in a..t : i \in Int  BY <1>1
  <1> QED  BY <1>2, <1>3, <1>4, <1>5, <1>6, <1>7 DEF a, t, n

(* What is being sent, and received into, by the lane that does so. *)
SentBy(r, l, i, x) ==
    /\ l \in DOMAIN lanes[r] /\ i \in SendWindow(Plan(r)[l], lanes[r][l])
    /\ i \in DOMAIN Plan(r)[l].steps /\ x \in Range(Plan(r)[l].steps[i].send)
FilledBy(r, l, i, x) ==
    /\ l \in DOMAIN lanes[r] /\ i \in RecvWindow(Plan(r)[l], lanes[r][l])
    /\ i \in DOMAIN Plan(r)[l].steps /\ x \in Range(Plan(r)[l].steps[i].recv)

LEMMA SendUses ==
    ASSUME GroupInv, NEW r \in Ranks, NEW u \in Uses(sends, r)
    PROVE  \E l, i : /\ SentBy(r, l, i, u[1])
                     /\ \E k \in DOMAIN sends[Plan(r)[l].to] :
                           sends[Plan(r)[l].to][k].id = Id(call[r], l, i)
  <1>1. PICK e \in Ends : \E q \in Range(sends[e]) : \E x \in Range(q.cells) :
           e[2] = r /\ u = UseOf(x, e, q.id) /\ u[1] = x
    BY UseFacts
  <1>2. PICK q \in Range(sends[e]) : \E x \in Range(q.cells) :
           e[2] = r /\ u = UseOf(x, e, q.id) /\ u[1] = x
    BY <1>1
  <1>3. u[1] \in Range(q.cells) /\ e[2] = r  BY <1>2
  <1>4. SendOk(e, q)  BY DEF GroupInv, QueuesInWindow
  <1>5. q \in Request
    <2>1. sends[e] \in Seq(Request)  BY DEF GroupInv, GroupTypeOK
    <2> QED  BY <2>1, RangeWithin
  <1> DEFINE l == q.id[2]
             i == q.id[3]
  <1>6. q.id = Id(call[r], l, i) /\ SentBy(r, l, i, u[1]) /\ Plan(r)[l].to = e
    <2>1. q.id \in Nat \X Nat \X Nat  BY <1>5, RequestFacts
    <2>2. q.id = Id(q.id[1], l, i)  BY <2>1, IdIs
    <2>3. q.id[1] = call[r] /\ SentBy(r, l, i, u[1]) /\ Plan(r)[l].to = e
      BY <1>3, <1>4 DEF SendOk, SentBy
    <2> QED  BY <2>2, <2>3
  <1>7. \E k \in DOMAIN sends[e] : sends[e][k] = q  BY DEF Range
  <1> HIDE DEF l, i
  <1> QED  BY <1>6, <1>7

LEMMA RecvUses ==
    ASSUME GroupInv, NEW r \in Ranks, NEW u \in Uses(recvs, r)
    PROVE  \E l, i : /\ FilledBy(r, l, i, u[1])
                     /\ u = UseOf(u[1], Plan(r)[l].from, Id(call[r], l, i))
                     /\ \E k \in DOMAIN recvs[Plan(r)[l].from] :
                           recvs[Plan(r)[l].from][k].id = Id(call[r], l, i)
  <1>1. PICK e \in Ends : \E q \in Range(recvs[e]) : \E x \in Range(q.cells) :
           e[2] = r /\ u = UseOf(x, e, q.id) /\ u[1] = x
    BY UseFacts
  <1>2. PICK q \in Range(recvs[e]) : \E x \in Range(q.cells) :
           e[2] = r /\ u = UseOf(x, e, q.id) /\ u[1] = x
    BY <1>1
  <1>3. u[1] \in Range(q.cells) /\ e[2] = r /\ u = UseOf(u[1], e, q.id)  BY <1>2
  <1>4. RecvOk(e, q)  BY DEF GroupInv, QueuesInWindow
  <1>5. q \in Request
    <2>1. recvs[e] \in Seq(Request)  BY DEF GroupInv, GroupTypeOK
    <2> QED  BY <2>1, RangeWithin
  <1> DEFINE l == q.id[2]
             i == q.id[3]
  <1>6. q.id = Id(call[r], l, i) /\ FilledBy(r, l, i, u[1]) /\ Plan(r)[l].from = e
    <2>1. q.id \in Nat \X Nat \X Nat  BY <1>5, RequestFacts
    <2>2. q.id = Id(q.id[1], l, i)  BY <2>1, IdIs
    <2>3. q.id[1] = call[r] /\ FilledBy(r, l, i, u[1]) /\ Plan(r)[l].from = e
      BY <1>3, <1>4 DEF RecvOk, FilledBy
    <2> QED  BY <2>2, <2>3
  <1>7. \E k \in DOMAIN recvs[e] : recvs[e][k] = q  BY DEF Range
  <1> HIDE DEF l, i
  <1> QED  BY <1>3, <1>6, <1>7

LEMMA LanesApart ==
    ASSUME GroupInv, NEW r \in Ranks, NEW l \in DOMAIN lanes[r], NEW m \in DOMAIN lanes[r], l # m
    PROVE  /\ LaneMemory(Plan(r)[l]) \cap LaneMemory(Plan(r)[m]) = {}
           /\ Plan(r)[l].to # Plan(r)[m].to /\ Plan(r)[l].from # Plan(r)[m].from
  <1>1. /\ call[r] \in DOMAIN job.calls[r] /\ l \in DOMAIN Plan(r) /\ m \in DOMAIN Plan(r)
    BY LaneFacts DEF GroupInv
  <1>2. PlanOk(job, r, Plan(r))  BY <1>1, PlanFacts DEF GroupInv
  <1> QED  BY <1>1, <1>2 DEF PlanOk

LEMMA InLaneMemory ==
    ASSUME NEW L, NEW i \in DOMAIN L.steps
    PROVE  /\ Range(L.steps[i].send) \subseteq LaneMemory(L)
           /\ Range(L.steps[i].recv) \subseteq LaneMemory(L)
           /\ Range(L.steps[i].into) \subseteq LaneMemory(L)
  BY DEF LaneMemory, StepMemory

LEMMA NotFilledWhileSent ==
    ASSUME GroupInv, NEW r \in Ranks, NEW x, NEW l, NEW i, SentBy(r, l, i, x),
           NEW m, NEW k, FilledBy(r, m, k, x)
    PROVE  FALSE
  <1> DEFINE L == Plan(r)[l]
             M == Plan(r)[m]
  <1>1. l \in DOMAIN lanes[r] /\ i \in SendWindow(L, lanes[r][l]) /\ i \in DOMAIN L.steps
        /\ x \in Range(L.steps[i].send)
    BY DEF SentBy
  <1>2. m \in DOMAIN lanes[r] /\ k \in RecvWindow(M, lanes[r][m]) /\ k \in DOMAIN M.steps
        /\ x \in Range(M.steps[k].recv)
    BY DEF FilledBy
  <1>3. l = m
    <2> SUFFICES ASSUME l # m PROVE FALSE  OBVIOUS
    <2>1. LaneMemory(L) \cap LaneMemory(M) = {}  BY <1>1, <1>2, LanesApart
    <2> HIDE DEF L, M
    <2> QED  BY <2>1, <1>1, <1>2, InLaneMemory
  <1>4. LaneOk(L, LaneMemory(L)) /\ L.lag \in {0, 1} /\ Len(L.steps) \in Nat \ {0} /\ AtStep(L, lanes[r][l])
    BY <1>1, LaneFacts DEF GroupInv
  <1>5. L = M  BY <1>3
  <1> HIDE DEF L, M
  <1>6. Close(L, k, i)  BY <1>1, <1>2, <1>3, <1>4, <1>5, WindowsClose
  <1>7. StepsApart(L.steps[k], L.steps[i])  BY <1>1, <1>2, <1>4, <1>5, <1>6 DEF LaneOk
  <1> QED  BY <1>1, <1>2, <1>5, <1>7 DEF StepsApart

LEMMA FilledOnce ==
    ASSUME GroupInv, NEW r \in Ranks, NEW x, NEW l, NEW i, FilledBy(r, l, i, x),
           NEW m, NEW k, FilledBy(r, m, k, x)
    PROVE  l = m /\ i = k
  <1> DEFINE L == Plan(r)[l]
             M == Plan(r)[m]
  <1>1. l \in DOMAIN lanes[r] /\ i \in RecvWindow(L, lanes[r][l]) /\ i \in DOMAIN L.steps
        /\ x \in Range(L.steps[i].recv)
    BY DEF FilledBy
  <1>2. m \in DOMAIN lanes[r] /\ k \in RecvWindow(M, lanes[r][m]) /\ k \in DOMAIN M.steps
        /\ x \in Range(M.steps[k].recv)
    BY DEF FilledBy
  <1>3. l = m
    <2> SUFFICES ASSUME l # m PROVE FALSE  OBVIOUS
    <2>1. LaneMemory(L) \cap LaneMemory(M) = {}  BY <1>1, <1>2, LanesApart
    <2> HIDE DEF L, M
    <2> QED  BY <2>1, <1>1, <1>2, InLaneMemory
  <1>4. LaneOk(L, LaneMemory(L)) /\ L.lag \in {0, 1} /\ Len(L.steps) \in Nat \ {0} /\ AtStep(L, lanes[r][l])
    BY <1>1, LaneFacts DEF GroupInv
  <1>5. L = M  BY <1>3
  <1> HIDE DEF L, M
  <1>6. Close(L, i, k)  BY <1>1, <1>2, <1>3, <1>4, <1>5, WindowsClose
  <1>7. i # k => Range(L.steps[i].recv) \cap Range(L.steps[k].recv) = {}
    BY <1>1, <1>2, <1>4, <1>5, <1>6 DEF LaneOk
  <1> QED  BY <1>1, <1>2, <1>3, <1>5, <1>7

(* What a lane waits for is not touched by what it has under way. *)
LEMMA AwaitedApart ==
    ASSUME GroupInv, NEW r \in Ranks, NEW l \in DOMAIN lanes[r], lanes[r][l].at = "wait",
           NEW m, NEW k, NEW x
    PROVE  LET a == Awaited(r, l)
               s == Plan(r)[l].steps[a]
           IN  /\ FilledBy(r, m, k, x) /\ (m # l \/ k # a)
                     => x \notin Range(s.recv) /\ x \notin Range(s.into)
               /\ SentBy(r, m, k, x) => x \notin Range(s.into)
               /\ a \in DOMAIN Plan(r)[l].steps
  <1> DEFINE L == Plan(r)[l]
             M == Plan(r)[m]
             a == Awaited(r, l)
             s == L.steps[a]
  <1>1. /\ LaneOk(L, LaneMemory(L)) /\ L.lag \in {0, 1} /\ Len(L.steps) \in Nat \ {0}
        /\ AtStep(L, lanes[r][l]) /\ DOMAIN L.steps = 1..Len(L.steps)
    BY LaneFacts DEF GroupInv
  <1>2. a = lanes[r][l].step - L.lag  BY DEF Awaited
  <1> HIDE DEF a
  <1>3. /\ \A i \in RecvWindow(L, lanes[r][l]) : Close(L, a, i)
        /\ \A i \in SendWindow(L, lanes[r][l]) : Close(L, a, i)
        /\ a \in 1..Len(L.steps)
    <2> HIDE DEF L
    <2> QED  BY <1>1, <1>2, WindowsClose
  <1>4. a \in DOMAIN L.steps  BY <1>1, <1>3
  <1>5. ASSUME FilledBy(r, m, k, x), m # l \/ k # a PROVE x \notin Range(s.recv) /\ x \notin Range(s.into)
    <2>1. m \in DOMAIN lanes[r] /\ k \in RecvWindow(M, lanes[r][m]) /\ k \in DOMAIN M.steps
          /\ x \in Range(M.steps[k].recv)
      BY <1>5 DEF FilledBy
    <2>2. CASE m # l
      <3>1. LaneMemory(L) \cap LaneMemory(M) = {}  BY <2>1, <2>2, LanesApart
      <3> HIDE DEF L, M
      <3> QED  BY <3>1, <1>4, <2>1, InLaneMemory
    <2>3. CASE m = l
      <3>1. k # a /\ M = L  BY <1>5, <2>3
      <3> HIDE DEF L, M
      <3>2. Close(L, a, k)  BY <1>3, <2>1, <2>3, <3>1
      <3>3. StepsApart(s, L.steps[k]) /\ Range(s.recv) \cap Range(L.steps[k].recv) = {}
        BY <1>1, <1>4, <2>1, <3>1, <3>2 DEF LaneOk
      <3> QED  BY <2>1, <3>1, <3>3 DEF StepsApart
    <2> QED  BY <2>2, <2>3
  <1>6. ASSUME SentBy(r, m, k, x) PROVE x \notin Range(s.into)
    <2>1. m \in DOMAIN lanes[r] /\ k \in SendWindow(M, lanes[r][m]) /\ k \in DOMAIN M.steps
          /\ x \in Range(M.steps[k].send)
      BY <1>6 DEF SentBy
    <2>2. CASE m # l
      <3>1. LaneMemory(L) \cap LaneMemory(M) = {}  BY <2>1, <2>2, LanesApart
      <3> HIDE DEF L, M
      <3> QED  BY <3>1, <1>4, <2>1, InLaneMemory
    <2>3. CASE m = l
      <3>1. M = L  BY <2>3
      <3> HIDE DEF L, M
      <3>2. Close(L, a, k)  BY <1>3, <2>1, <2>3, <3>1
      <3>3. StepsApart(s, L.steps[k])
        BY <1>1, <1>4, <2>1, <3>1, <3>2 DEF LaneOk
      <3> QED  BY <2>1, <3>1, <3>3 DEF StepsApart
    <2> QED  BY <2>2, <2>3
  <1> QED  BY <1>4, <1>5, <1>6 DEF a

LEMMA InvNoOverlap == GroupInv => NoOverlap
  <1> SUFFICES ASSUME GroupInv, NEW r \in Ranks
               PROVE  LET out == Uses(sends, r)
                          in == Uses(recvs, r)
                      IN  /\ CellsIn(in) \cap CellsIn(out) = {}
                          /\ \A u, v \in in : u[1] = v[1] => u = v
                          /\ \A l \in DOMAIN lanes[r] :
                               At(r, l, "wait") /\ Ready(r, l, Awaited(r, l)) =>
                                 LET s == Plan(r)[l].steps[Awaited(r, l)]
                                 IN  s.into # <<>> =>
                                       /\ (Range(s.recv) \cup Range(s.into)) \cap CellsIn(in) = {}
                                       /\ Range(s.into) \cap CellsIn(out) = {}
    BY DEF NoOverlap
  <1> DEFINE out == Uses(sends, r)
             in == Uses(recvs, r)
  <1>1. ASSUME NEW u \in in, NEW v \in out, u[1] = v[1] PROVE FALSE
    <2>1. PICK l, i : FilledBy(r, l, i, u[1])  BY RecvUses
    <2>2. PICK m, k : SentBy(r, m, k, v[1])  BY SendUses
    <2> QED  BY <1>1, <2>1, <2>2, NotFilledWhileSent
  <1>2. ASSUME NEW u \in in, NEW v \in in, u[1] = v[1] PROVE u = v
    <2>1. PICK l, i : FilledBy(r, l, i, u[1]) /\ u = UseOf(u[1], Plan(r)[l].from, Id(call[r], l, i))
      BY RecvUses
    <2>2. PICK m, k : FilledBy(r, m, k, v[1]) /\ v = UseOf(v[1], Plan(r)[m].from, Id(call[r], m, k))
      BY RecvUses
    <2>3. l = m /\ i = k  BY <1>2, <2>1, <2>2, FilledOnce
    <2> QED  BY <1>2, <2>1, <2>2, <2>3
  <1>3. ASSUME NEW l \in DOMAIN lanes[r], At(r, l, "wait"), Ready(r, l, Awaited(r, l))
        PROVE  LET s == Plan(r)[l].steps[Awaited(r, l)]
               IN  /\ \A u \in in : u[1] \notin Range(s.recv) /\ u[1] \notin Range(s.into)
                   /\ \A u \in out : u[1] \notin Range(s.into)
    <2> DEFINE a == Awaited(r, l)
               s == Plan(r)[l].steps[a]
    <2>1. lanes[r][l].at = "wait"  BY <1>3 DEF At
    <2>2. ASSUME NEW u \in in PROVE u[1] \notin Range(s.recv) /\ u[1] \notin Range(s.into)
      <3>1. PICK m, k : /\ FilledBy(r, m, k, u[1])
                        /\ \E n \in DOMAIN recvs[Plan(r)[m].from] :
                              recvs[Plan(r)[m].from][n].id = Id(call[r], m, k)
        BY RecvUses
      <3>2. m # l \/ k # a
        <4> SUFFICES ASSUME m = l, k = a PROVE FALSE  OBVIOUS
        <4>1. \A n \in DOMAIN recvs[Plan(r)[l].from] : recvs[Plan(r)[l].from][n].id # Id(call[r], l, a)
          BY <1>3, Zenon DEF Ready, Id
        <4> QED  BY <3>1, <4>1
      <3> QED  BY <2>1, <3>1, <3>2, AwaitedApart
    <2>3. ASSUME NEW u \in out PROVE u[1] \notin Range(s.into)
      <3>1. PICK m, k : SentBy(r, m, k, u[1])  BY SendUses
      <3> QED  BY <2>1, <3>1, AwaitedApart
    <2> QED  BY <2>2, <2>3
  <1>4. CellsIn(in) \cap CellsIn(out) = {}
    <2> HIDE DEF in, out
    <2> QED  BY <1>1 DEF CellsIn
  <1>5. ASSUME NEW l \in DOMAIN lanes[r], At(r, l, "wait"), Ready(r, l, Awaited(r, l))
        PROVE  LET s == Plan(r)[l].steps[Awaited(r, l)]
               IN  /\ (Range(s.recv) \cup Range(s.into)) \cap CellsIn(in) = {}
                   /\ Range(s.into) \cap CellsIn(out) = {}
    <2> DEFINE s == Plan(r)[l].steps[Awaited(r, l)]
    <2>1. /\ \A u \in in : u[1] \notin Range(s.recv) /\ u[1] \notin Range(s.into)
          /\ \A u \in out : u[1] \notin Range(s.into)
      BY <1>3, <1>5
    <2> HIDE DEF in, out, s
    <2>2. (Range(s.recv) \cup Range(s.into)) \cap CellsIn(in) = {} /\ Range(s.into) \cap CellsIn(out) = {}
      BY <2>1 DEF CellsIn
    <2> QED  BY <2>2 DEF s
  <1> HIDE DEF in, out
  <1> QED  BY <1>2, <1>4, <1>5 DEF in, out

-----------------------------------------------------------------------------
(* The queues *)

Queues == [Ends -> Seq(Request)]

(* No request names more than one did before. *)
Shrunk(new, old) ==
    \A e \in Ends : \A q \in Range(new[e]) :
        \E p \in Range(old[e]) : p.id = q.id /\ Range(q.cells) \subseteq Range(p.cells)

LEMMA ShrunkSelf == ASSUME NEW queue PROVE Shrunk(queue, queue)
  BY DEF Shrunk

LEMMA AppendRange ==
    ASSUME NEW S, NEW s \in Seq(S), NEW x \in S
    PROVE  Append(s, x) \in Seq(S) /\ \A y \in Range(Append(s, x)) : y \in Range(s) \/ y = x
  <1>1. Append(s, x) \in Seq(S) /\ Len(Append(s, x)) = Len(s) + 1  OBVIOUS
  <1>2. \A k \in 1..Len(s) + 1 : Append(s, x)[k] = IF k <= Len(s) THEN s[k] ELSE x  OBVIOUS
  <1>3. DOMAIN Append(s, x) = 1..Len(s) + 1 /\ DOMAIN s = 1..Len(s) /\ Len(s) \in Nat  OBVIOUS
  <1>4. ASSUME NEW k \in 1..Len(s) + 1 PROVE Append(s, x)[k] \in Range(s) \/ Append(s, x)[k] = x
    BY <1>2, <1>3 DEF Range
  <1> QED  BY <1>1, <1>3, <1>4 DEF Range

LEMMA PostedFacts ==
    ASSUME NEW queue \in Queues, NEW e \in Ends, NEW i \in Nat \X Nat \X Nat, NEW cells \in Seq(Cells)
    PROVE  /\ Conn!Posted(queue, e, i, cells) \in Queues
           /\ \A f \in Ends : \A q \in Range(Conn!Posted(queue, e, i, cells)[f]) :
                 q \in Range(queue[f]) \/ (f = e /\ q.id = i /\ q.cells = cells)
  <1> DEFINE n == [id |-> i, cells |-> cells]
             new == Conn!Posted(queue, e, i, cells)
  <1>1. n \in Request /\ n.id = i /\ n.cells = cells  BY DEF Request
  <1>2. new = IF cells = <<>> THEN queue ELSE [queue EXCEPT ![e] = Append(@, n)]
    BY Zenon DEF Conn!Posted, Conn!NewRequest
  <1> HIDE DEF n, new
  <1>3. CASE cells = <<>>
    <2>1. new = queue  BY <1>2, <1>3
    <2> QED  BY <2>1 DEF new
  <1>4. CASE cells # <<>>
    <2>1. new = [queue EXCEPT ![e] = Append(queue[e], n)]  BY <1>2, <1>4
    <2>2. queue[e] \in Seq(Request)  BY DEF Queues
    <2> DEFINE s == Append(queue[e], n)
    <2>3. s \in Seq(Request) /\ \A y \in Range(s) : y \in Range(queue[e]) \/ y = n
      BY <2>2, <1>1, AppendRange
    <2> HIDE DEF s
    <2>4. new \in Queues /\ new[e] = s /\ \A f \in Ends \ {e} : new[f] = queue[f]
      BY <2>1, <2>3 DEF Queues, s
    <2>5. ASSUME NEW f \in Ends, NEW q \in Range(new[f])
          PROVE  q \in Range(queue[f]) \/ (f = e /\ q.id = i /\ q.cells = cells)
      BY <2>3, <2>4, <1>1
    <2> QED  BY <2>4, <2>5 DEF new
  <1> QED  BY <1>3, <1>4

LEMMA AdvancedFacts ==
    ASSUME NEW q \in Request, Len(q.cells) >= 1
    PROVE  /\ Conn!Advanced(q, 1) \in Request /\ Conn!Advanced(q, 1).id = q.id
           /\ Conn!Advanced(q, 1).cells = Tail(q.cells)
           /\ Range(Conn!Advanced(q, 1).cells) \subseteq Range(q.cells)
  <1> DEFINE s == q.cells
             a == Conn!Advanced(q, 1)
  <1>1. s \in Seq(Cells) /\ q.id \in Nat \X Nat \X Nat /\ q = [id |-> q.id, cells |-> s]
    BY RequestFacts
  <1>2. a = [q EXCEPT !.cells = SubSeq(s, 1 + 1, Len(s))]  BY Zenon DEF Conn!Advanced
  <1>3. SubSeq(s, 1 + 1, Len(s)) = Tail(s) /\ Tail(s) \in Seq(Cells)
    <2>1. 1 + 1 = 2 /\ s # <<>>  BY <1>1
    <2> HIDE DEF s
    <2>2. Tail(s) = SubSeq(s, 2, Len(s))  BY <1>1, <2>1, TailIsSubSeq
    <2> QED  BY <1>1, <2>1, <2>2
  <1> HIDE DEF a
  <1>4. a = [id |-> q.id, cells |-> Tail(s)]
    <2> HIDE DEF s
    <2> QED  BY <1>1, <1>2, <1>3
  <1>5. a \in Request /\ a.id = q.id /\ a.cells = Tail(s)  BY <1>1, <1>3, <1>4 DEF Request
  <1>6. Range(Tail(s)) \subseteq Range(s)
    <2> HIDE DEF s
    <2>1. Len(s) >= 1  BY DEF s
    <2>2. DOMAIN Tail(s) = 1..Len(s) - 1 /\ DOMAIN s = 1..Len(s) /\ Len(s) \in Nat  BY <1>1, <2>1
    <2>3. \A k \in 1..Len(s) - 1 : Tail(s)[k] = s[k + 1] /\ k + 1 \in 1..Len(s)  BY <1>1, <2>1
    <2> QED  BY <2>2, <2>3 DEF Range
  <1> QED  BY <1>5, <1>6 DEF a

(* The first request of e has moved by a cell. *)
LEMMA HeadAdvanced ==
    ASSUME NEW queue \in Queues, NEW e \in Ends, queue[e] # <<>>, 1 <= Len(Head(queue[e]).cells)
    PROVE  LET new == [queue EXCEPT ![e][1] = Conn!Advanced(Head(queue[e]), 1)]
           IN  new \in Queues /\ Shrunk(new, queue)
  <1> DEFINE s == queue[e]
             h == Head(s)
             a == Conn!Advanced(h, 1)
             t == [s EXCEPT ![1] = a]
             new == [queue EXCEPT ![e][1] = a]
  <1>1. s \in Seq(Request) /\ s # <<>>  BY DEF Queues
  <1>2. h \in Request /\ h = s[1] /\ 1 \in DOMAIN s
    <2> HIDE DEF s
    <2> QED  BY <1>1
  <1>3. a \in Request /\ a.id = h.id /\ Range(a.cells) \subseteq Range(h.cells)
    <2> HIDE DEF s, h
    <2>1. Len(h.cells) >= 1
      <3>1. 1 <= Len(h.cells)  BY DEF h, s
      <3>2. h.cells \in Seq(Cells)  BY <1>2, RequestFacts
      <3> QED  BY <3>1, <3>2
    <2> QED  BY <1>2, <2>1, AdvancedFacts
  <1>4. new = [queue EXCEPT ![e] = t]  OBVIOUS
  <1> HIDE DEF s, h, a, new
  <1>5. t \in Seq(Request) /\ DOMAIN t = DOMAIN s /\ t[1] = a /\ \A k \in DOMAIN s \ {1} : t[k] = s[k]
    BY <1>1, <1>2, <1>3
  <1> HIDE DEF t
  <1>6. \A y \in Range(t) : y \in Range(s) \/ y = a  BY <1>5 DEF Range
  <1>7. h \in Range(s)  BY <1>2 DEF Range
  <1>8. new \in Queues /\ new[e] = t /\ \A f \in Ends \ {e} : new[f] = queue[f]
    BY <1>4, <1>5 DEF Queues
  <1>9. Shrunk(new, queue)
    <2> SUFFICES ASSUME NEW f \in Ends, NEW q \in Range(new[f])
                 PROVE  \E p \in Range(queue[f]) : p.id = q.id /\ Range(q.cells) \subseteq Range(p.cells)
      BY DEF Shrunk
    <2>1. CASE f # e  BY <2>1, <1>8
    <2>2. CASE f = e
      <3>1. q \in Range(t) /\ queue[f] = s  BY <2>2, <1>8 DEF s
      <3>2. CASE q \in Range(s)  BY <3>1, <3>2
      <3>3. CASE q = a  BY <3>1, <3>3, <1>3, <1>7
      <3> QED  BY <3>1, <3>2, <3>3, <1>6
    <2> QED  BY <2>1, <2>2
  <1> QED  BY <1>8, <1>9 DEF new, a, h, s

LEMMA HeadRetired ==
    ASSUME NEW queue \in Queues, NEW e \in Ends, queue[e] # <<>>
    PROVE  LET new == [queue EXCEPT ![e] = Tail(queue[e])]
           IN  new \in Queues /\ Shrunk(new, queue)
  <1> DEFINE s == queue[e]
             t == Tail(s)
             new == [queue EXCEPT ![e] = t]
  <1>1. s \in Seq(Request) /\ s # <<>>  BY DEF Queues
  <1> HIDE DEF s
  <1>2. t \in Seq(Request) /\ Range(t) \subseteq Range(s)
    <2>1. t \in Seq(Request) /\ DOMAIN t = 1..Len(s) - 1 /\ DOMAIN s = 1..Len(s) /\ Len(s) \in Nat
      BY <1>1
    <2>2. \A k \in 1..Len(s) - 1 : t[k] = s[k + 1] /\ k + 1 \in 1..Len(s)  BY <1>1
    <2> HIDE DEF t
    <2> QED  BY <2>1, <2>2 DEF Range
  <1> HIDE DEF t
  <1>3. new \in Queues /\ new[e] = t /\ \A f \in Ends \ {e} : new[f] = queue[f]
    BY <1>2 DEF Queues
  <1> HIDE DEF new
  <1>4. ASSUME NEW f \in Ends, NEW q \in Range(new[f])
        PROVE  \E p \in Range(queue[f]) : p.id = q.id /\ Range(q.cells) \subseteq Range(p.cells)
    BY <1>2, <1>3 DEF s
  <1>5. Shrunk(new, queue)  BY <1>4 DEF Shrunk
  <1> QED  BY <1>3, <1>5 DEF new, t, s

-----------------------------------------------------------------------------
(* Every step preserves the invariant *)

(* Nothing has changed for the requests of rank e[2]. *)
LEMMA RequestKept ==
    ASSUME NEW e, NEW q, NEW p, q.id = p.id, Range(q.cells) \subseteq Range(p.cells),
           UNCHANGED <<job, plan>>, call'[e[2]] = call[e[2]],
           DOMAIN lanes'[e[2]] = DOMAIN lanes[e[2]]
    PROVE  /\ SendOk(e, p) /\ (q.id[3] \in SendWindow(Plan(e[2])[q.id[2]], lanes[e[2]][q.id[2]]) =>
                                  q.id[3] \in SendWindow(Plan(e[2])[q.id[2]], lanes'[e[2]][q.id[2]]))
                => SendOk(e, q)'
           /\ RecvOk(e, p) /\ (q.id[3] \in RecvWindow(Plan(e[2])[q.id[2]], lanes[e[2]][q.id[2]]) =>
                                  q.id[3] \in RecvWindow(Plan(e[2])[q.id[2]], lanes'[e[2]][q.id[2]]))
                => RecvOk(e, q)'
  <1> DEFINE r == e[2]
             l == q.id[2]
             i == q.id[3]
             L == Plan(r)[l]
  <1>1. Plan(r)' = Plan(r) /\ Ranks' = Ranks  BY DEF Plan, Ranks
  <1>2. ASSUME SendOk(e, p), i \in SendWindow(L, lanes[r][l]) => i \in SendWindow(L, lanes'[r][l])
        PROVE  SendOk(e, q)'
    <2>1. /\ e[1] = job.ranks /\ r \in Ranks
          /\ q.id[1] = call[r] /\ l \in DOMAIN lanes[r] /\ L.to = e
          /\ i \in SendWindow(L, lanes[r][l]) /\ i \in DOMAIN L.steps
          /\ Range(p.cells) \subseteq Range(L.steps[i].send)
      BY <1>2 DEF SendOk
    <2>2. i \in SendWindow(L, lanes'[r][l])  BY <1>2, <2>1
    <2>3. Range(q.cells) \subseteq Range(L.steps[i].send)  BY <2>1
    <2> QED  BY <1>1, <2>1, <2>2, <2>3 DEF SendOk, SendWindow
  <1>3. ASSUME RecvOk(e, p), i \in RecvWindow(L, lanes[r][l]) => i \in RecvWindow(L, lanes'[r][l])
        PROVE  RecvOk(e, q)'
    <2>1. /\ e[1] = job.ranks /\ r \in Ranks
          /\ q.id[1] = call[r] /\ l \in DOMAIN lanes[r] /\ L.from = e
          /\ i \in RecvWindow(L, lanes[r][l]) /\ i \in DOMAIN L.steps
          /\ Range(p.cells) \subseteq Range(L.steps[i].recv)
      BY <1>3 DEF RecvOk
    <2>2. i \in RecvWindow(L, lanes'[r][l])  BY <1>3, <2>1
    <2>3. Range(q.cells) \subseteq Range(L.steps[i].recv)  BY <2>1
    <2> QED  BY <1>1, <2>1, <2>2, <2>3 DEF RecvOk, RecvWindow
  <1> QED  BY <1>2, <1>3

(* The steps of the connections. *)
LEMMA QueuesShrink ==
    ASSUME GroupInv, UNCHANGED <<job, plan, call, lanes>>,
           sends' \in Queues, Shrunk(sends', sends), recvs' \in Queues, Shrunk(recvs', recvs)
    PROVE  GroupInv'
  <1>1. GroupTypeOK'  BY DEF GroupInv, GroupTypeOK, Ranks, Queues
  <1>2. LanesInPlan'  BY DEF GroupInv, LanesInPlan, Ranks, Plan, AtStep
  <1>3. ASSUME NEW e \in Ends, NEW q \in Range(sends'[e]) PROVE SendOk(e, q)'
    <2>1. PICK p \in Range(sends[e]) : p.id = q.id /\ Range(q.cells) \subseteq Range(p.cells)
      BY <1>3 DEF Shrunk
    <2>2. SendOk(e, p)  BY DEF GroupInv, QueuesInWindow
    <2> QED  BY <2>1, <2>2, RequestKept
  <1>4. ASSUME NEW e \in Ends, NEW q \in Range(recvs'[e]) PROVE RecvOk(e, q)'
    <2>1. PICK p \in Range(recvs[e]) : p.id = q.id /\ Range(q.cells) \subseteq Range(p.cells)
      BY <1>4 DEF Shrunk
    <2>2. RecvOk(e, p)  BY DEF GroupInv, QueuesInWindow
    <2> QED  BY <2>1, <2>2, RequestKept
  <1> QED  BY <1>1, <1>2, <1>3, <1>4 DEF GroupInv, QueuesInWindow

LEMMA WorkerInv == ASSUME GroupInv, NEW e \in Ends, Worker(e) PROVE GroupInv'
  <1>1. sends \in Queues /\ recvs \in Queues  BY DEF GroupInv, GroupTypeOK, Queues
  <1>2. UNCHANGED <<job, plan, call, lanes>>  BY DEF Worker, setupVars, callVars
  <1>3. /\ sends' \in Queues /\ Shrunk(sends', sends)
        /\ recvs' \in Queues /\ Shrunk(recvs', recvs)
    <2>1. CASE Conn!MoveOut(e, 1)
      <3>1. /\ sends[e] # <<>> /\ 1 <= Len(Head(sends[e]).cells) /\ UNCHANGED recvs
            /\ sends' = [sends EXCEPT ![e][1] = Conn!Advanced(Head(sends[e]), 1)]
        BY <2>1 DEF Conn!MoveOut, Conn!CanSend
      <3>2. sends' \in Queues /\ Shrunk(sends', sends)  BY <1>1, <3>1, HeadAdvanced
      <3> QED  BY <1>1, <3>1, <3>2, ShrunkSelf
    <2>2. CASE Conn!MoveIn(e, 1)
      <3>1. /\ recvs[e] # <<>> /\ 1 <= Len(Head(recvs[e]).cells) /\ UNCHANGED sends
            /\ recvs' = [recvs EXCEPT ![e][1] = Conn!Advanced(Head(recvs[e]), 1)]
        BY <2>2 DEF Conn!MoveIn, Conn!CanReceive
      <3>2. recvs' \in Queues /\ Shrunk(recvs', recvs)  BY <1>1, <3>1, HeadAdvanced
      <3> QED  BY <1>1, <3>1, <3>2, ShrunkSelf
    <2>3. CASE Conn!Retire(e)
      <3>1. /\ UNCHANGED sends \/ (sends[e] # <<>> /\ sends' = [sends EXCEPT ![e] = Tail(sends[e])])
            /\ UNCHANGED recvs \/ (recvs[e] # <<>> /\ recvs' = [recvs EXCEPT ![e] = Tail(recvs[e])])
        BY <2>3 DEF Conn!Retire, Conn!Finished
      <3>2. sends' \in Queues /\ Shrunk(sends', sends)  BY <1>1, <3>1, HeadRetired, ShrunkSelf
      <3>3. recvs' \in Queues /\ Shrunk(recvs', recvs)  BY <1>1, <3>1, HeadRetired, ShrunkSelf
      <3> QED  BY <3>2, <3>3
    <2> QED  BY <2>1, <2>2, <2>3 DEF Worker
  <1> QED  BY <1>2, <1>3, QueuesShrink

LEMMA SetupInv == ASSUME GroupInv, NEW r \in Ranks, Setup(r) PROVE GroupInv'
  <1>1. UNCHANGED <<job, plan, call, lanes, sends, recvs>>
    BY DEF Setup, Listen, Accept, Connect, ConnectFails, callVars, duplexVars
  <1>2. sends \in Queues /\ recvs \in Queues  BY DEF GroupInv, GroupTypeOK, Queues
  <1> QED  BY <1>1, <1>2, ShrunkSelf, QueuesShrink

LEMMA GotoFacts ==
    ASSUME GroupTypeOK, NEW r \in Ranks, NEW l \in DOMAIN lanes[r], NEW i, NEW place,
           Goto(r, l, i, place)
    PROVE  /\ DOMAIN lanes' = Ranks
           /\ \A x \in Ranks : DOMAIN lanes'[x] = DOMAIN lanes[x]
           /\ \A x \in Ranks : \A m \in DOMAIN lanes[x] :
                 lanes'[x][m] = IF x = r /\ m = l THEN [step |-> i, at |-> place] ELSE lanes[x][m]
           /\ lanes'[r] # <<>> /\ \A x \in Ranks \ {r} : lanes'[x] = lanes[x]
  <1> DEFINE s == [step |-> i, at |-> place]
  <1>1. lanes' = [lanes EXCEPT ![r] = [lanes[r] EXCEPT ![l] = s]]  BY DEF Goto
  <1>2. DOMAIN lanes = Ranks  BY DEF GroupTypeOK
  <1> HIDE DEF s
  <1>3. DOMAIN lanes' = Ranks /\ lanes'[r] = [lanes[r] EXCEPT ![l] = s]
        /\ \A x \in Ranks \ {r} : lanes'[x] = lanes[x]
    BY <1>1, <1>2
  <1>4. DOMAIN lanes'[r] = DOMAIN lanes[r] /\ lanes'[r][l] = s
        /\ \A m \in DOMAIN lanes[r] \ {l} : lanes'[r][m] = lanes[r][m]
    BY <1>3
  <1>5. lanes'[r] # <<>>
    <2>1. DOMAIN <<>> = {}  OBVIOUS
    <2> QED  BY <2>1, <1>4
  <1> QED  BY <1>3, <1>4, <1>5 DEF s

Holds(queue, e, i) == \E k \in DOMAIN queue[e] : queue[e][k].id = i

LEMMA HoldsFacts ==
    ASSUME NEW queue, NEW e, NEW q \in Range(queue[e])
    PROVE  Holds(queue, e, q.id)
  BY DEF Holds, Range

(* A step of a lane: what it posts is in its window, and it forgets a step   *)
(* only when nothing of it is left in the queues.                            *)
LEMMA LaneMoves ==
    ASSUME GroupInv, UNCHANGED <<job, plan, call>>,
           NEW r \in Ranks, NEW l \in DOMAIN lanes[r], NEW i, NEW place, Goto(r, l, i, place),
           AtStep(Plan(r)[l], [step |-> i, at |-> place]),
           sends' \in Queues, recvs' \in Queues,
           \A e \in Ends : \A q \in Range(sends'[e]) :
              \/ q \in Range(sends[e])
              \/ /\ e = Plan(r)[l].to /\ q.id = Id(call[r], l, lanes[r][l].step)
                 /\ lanes[r][l].step \in SendWindow(Plan(r)[l], [step |-> i, at |-> place])
                 /\ lanes[r][l].step \in DOMAIN Plan(r)[l].steps
                 /\ q.cells = Plan(r)[l].steps[lanes[r][l].step].send,
           \A e \in Ends : \A q \in Range(recvs'[e]) :
              \/ q \in Range(recvs[e])
              \/ /\ e = Plan(r)[l].from /\ q.id = Id(call[r], l, lanes[r][l].step)
                 /\ lanes[r][l].step \in RecvWindow(Plan(r)[l], [step |-> i, at |-> place])
                 /\ lanes[r][l].step \in DOMAIN Plan(r)[l].steps
                 /\ q.cells = Plan(r)[l].steps[lanes[r][l].step].recv,
           \A k \in SendWindow(Plan(r)[l], lanes[r][l]) : k \in DOMAIN Plan(r)[l].steps =>
              \/ k \in SendWindow(Plan(r)[l], [step |-> i, at |-> place])
              \/ ~Holds(sends, Plan(r)[l].to, Id(call[r], l, k)),
           \A k \in RecvWindow(Plan(r)[l], lanes[r][l]) : k \in DOMAIN Plan(r)[l].steps =>
              \/ k \in RecvWindow(Plan(r)[l], [step |-> i, at |-> place])
              \/ ~Holds(recvs, Plan(r)[l].from, Id(call[r], l, k))
    PROVE  GroupInv'
  <1> DEFINE L == Plan(r)[l]
             s == [step |-> i, at |-> place]
             t == lanes[r][l].step
  <1>1. GroupTypeOK /\ LanesInPlan  BY DEF GroupInv
  <1>2. /\ DOMAIN lanes' = Ranks
        /\ \A x \in Ranks : DOMAIN lanes'[x] = DOMAIN lanes[x]
        /\ \A x \in Ranks : \A m \in DOMAIN lanes[x] :
              lanes'[x][m] = IF x = r /\ m = l THEN s ELSE lanes[x][m]
        /\ lanes'[r] # <<>> /\ \A x \in Ranks \ {r} : lanes'[x] = lanes[x]
    BY <1>1, GotoFacts
  <1>3. Ranks' = Ranks /\ \A x : Plan(x)' = Plan(x)  BY DEF Ranks, Plan
  <1>4. GroupTypeOK'  BY <1>1, <1>2, <1>3 DEF GroupTypeOK, Queues
  <1>5. lanes[r] # <<>>  OBVIOUS
  <1>6. LanesInPlan'
    <2> SUFFICES ASSUME NEW x \in Ranks, lanes'[x] # <<>>
                 PROVE  /\ call[x] \in DOMAIN job.calls[x] /\ DOMAIN lanes'[x] = DOMAIN Plan(x)
                        /\ \A m \in DOMAIN lanes'[x] : AtStep(Plan(x)[m], lanes'[x][m])
      BY <1>3 DEF LanesInPlan, AtStep
    <2>1. lanes[x] # <<>>  BY <1>2, <1>5
    <2>2. /\ call[x] \in DOMAIN job.calls[x] /\ DOMAIN lanes[x] = DOMAIN Plan(x)
          /\ \A m \in DOMAIN lanes[x] : AtStep(Plan(x)[m], lanes[x][m])
      BY <1>1, <2>1 DEF LanesInPlan
    <2>3. ASSUME NEW m \in DOMAIN lanes[x] PROVE AtStep(Plan(x)[m], lanes'[x][m])
      <3>1. CASE x = r /\ m = l  BY <3>1, <1>2
      <3>2. CASE ~(x = r /\ m = l)  BY <3>2, <1>2, <2>2
      <3> QED  BY <3>1, <3>2
    <2> QED  BY <1>2, <2>2, <2>3
  <1>7. ASSUME NEW e \in Ends, NEW q \in Range(sends'[e]) PROVE SendOk(e, q)'
    <2>1. CASE q \in Range(sends[e])
      <3>1. SendOk(e, q)  BY <2>1 DEF GroupInv, QueuesInWindow
      <3>2. e[2] \in Ranks /\ q.id[2] \in DOMAIN lanes[e[2]]  BY <3>1 DEF SendOk
      <3>3. DOMAIN lanes'[e[2]] = DOMAIN lanes[e[2]]  BY <1>2, <3>2
      <3>4. q.id[3] \in SendWindow(Plan(e[2])[q.id[2]], lanes[e[2]][q.id[2]]) =>
               q.id[3] \in SendWindow(Plan(e[2])[q.id[2]], lanes'[e[2]][q.id[2]])
        <4>1. CASE e[2] = r /\ q.id[2] = l
          <5>1. q.id[1] = call[r] /\ L.to = e /\ q.id[3] \in DOMAIN L.steps  BY <3>1, <4>1 DEF SendOk
          <5>2. q.id = Id(call[r], l, q.id[3])
            <6>1. sends[e] \in Seq(Request)  BY <1>1 DEF GroupTypeOK
            <6>2. q \in Request  BY <6>1, <2>1, RangeWithin
            <6>3. q.id \in Nat \X Nat \X Nat  BY <6>2, RequestFacts
            <6> QED  BY <4>1, <5>1, <6>3, IdIs
          <5>3. Holds(sends, L.to, Id(call[r], l, q.id[3]))
            <6>1. Holds(sends, e, q.id)  BY <2>1, HoldsFacts
            <6> QED  BY <5>1, <5>2, <6>1
          <5>4. lanes'[r][l] = s  BY <1>2
          <5> QED  BY <4>1, <5>1, <5>3, <5>4
        <4>2. CASE ~(e[2] = r /\ q.id[2] = l)
          <5>1. lanes'[e[2]][q.id[2]] = lanes[e[2]][q.id[2]]  BY <4>2, <1>2, <3>2
          <5> QED  BY <5>1
        <4> QED  BY <4>1, <4>2
      <3> QED  BY <3>1, <3>3, <3>4, RequestKept
    <2>2. CASE q \notin Range(sends[e])
      <3>1. /\ e = L.to /\ q.id = Id(call[r], l, t) /\ t \in SendWindow(L, s)
            /\ t \in DOMAIN L.steps /\ q.cells = L.steps[t].send
        BY <2>2
      <3>2. q.id[1] = call[r] /\ q.id[2] = l /\ q.id[3] = t  BY <3>1, IdFacts
      <3>3. e[1] = job.ranks /\ e[2] = r  BY <1>1, <3>1, LaneFacts
      <3>4. lanes'[r][l] = s /\ l \in DOMAIN lanes'[r]  BY <1>2
      <3> QED  BY <1>3, <3>1, <3>2, <3>3, <3>4 DEF SendOk, SendWindow
    <2> QED  BY <2>1, <2>2
  <1>8. ASSUME NEW e \in Ends, NEW q \in Range(recvs'[e]) PROVE RecvOk(e, q)'
    <2>1. CASE q \in Range(recvs[e])
      <3>1. RecvOk(e, q)  BY <2>1 DEF GroupInv, QueuesInWindow
      <3>2. e[2] \in Ranks /\ q.id[2] \in DOMAIN lanes[e[2]]  BY <3>1 DEF RecvOk
      <3>3. DOMAIN lanes'[e[2]] = DOMAIN lanes[e[2]]  BY <1>2, <3>2
      <3>4. q.id[3] \in RecvWindow(Plan(e[2])[q.id[2]], lanes[e[2]][q.id[2]]) =>
               q.id[3] \in RecvWindow(Plan(e[2])[q.id[2]], lanes'[e[2]][q.id[2]])
        <4>1. CASE e[2] = r /\ q.id[2] = l
          <5>1. q.id[1] = call[r] /\ L.from = e /\ q.id[3] \in DOMAIN L.steps  BY <3>1, <4>1 DEF RecvOk
          <5>2. q.id = Id(call[r], l, q.id[3])
            <6>1. recvs[e] \in Seq(Request)  BY <1>1 DEF GroupTypeOK
            <6>2. q \in Request  BY <6>1, <2>1, RangeWithin
            <6>3. q.id \in Nat \X Nat \X Nat  BY <6>2, RequestFacts
            <6> QED  BY <4>1, <5>1, <6>3, IdIs
          <5>3. Holds(recvs, L.from, Id(call[r], l, q.id[3]))
            <6>1. Holds(recvs, e, q.id)  BY <2>1, HoldsFacts
            <6> QED  BY <5>1, <5>2, <6>1
          <5>4. lanes'[r][l] = s  BY <1>2
          <5> QED  BY <4>1, <5>1, <5>3, <5>4
        <4>2. CASE ~(e[2] = r /\ q.id[2] = l)
          <5>1. lanes'[e[2]][q.id[2]] = lanes[e[2]][q.id[2]]  BY <4>2, <1>2, <3>2
          <5> QED  BY <5>1
        <4> QED  BY <4>1, <4>2
      <3> QED  BY <3>1, <3>3, <3>4, RequestKept
    <2>2. CASE q \notin Range(recvs[e])
      <3>1. /\ e = L.from /\ q.id = Id(call[r], l, t) /\ t \in RecvWindow(L, s)
            /\ t \in DOMAIN L.steps /\ q.cells = L.steps[t].recv
        BY <2>2
      <3>2. q.id[1] = call[r] /\ q.id[2] = l /\ q.id[3] = t  BY <3>1, IdFacts
      <3>3. e[1] = job.ranks /\ e[2] = r  BY <1>1, <3>1, LaneFacts
      <3>4. lanes'[r][l] = s /\ l \in DOMAIN lanes'[r]  BY <1>2
      <3> QED  BY <1>3, <3>1, <3>2, <3>3, <3>4 DEF RecvOk, RecvWindow
    <2> QED  BY <2>1, <2>2
  <1> QED  BY <1>4, <1>6, <1>7, <1>8 DEF GroupInv, QueuesInWindow

LEMMA StepSendInv ==
    ASSUME GroupInv, NEW r \in Ranks, NEW l \in DOMAIN lanes[r], StepSend(r, l)
    PROVE  GroupInv'
  <1> DEFINE L == Plan(r)[l]
             t == lanes[r][l].step
             id == Id(call[r], l, t)
  <1>0. PICK i, place : i = t /\ place = "recv"  OBVIOUS
  <1> DEFINE s == [step |-> i, at |-> place]
  <1>1. /\ lanes[r][l].at = "send" /\ Goto(r, l, i, place) /\ UNCHANGED <<job, plan, call>>
        /\ sends' = Conn!Posted(sends, L.to, id, L.steps[t].send) /\ UNCHANGED recvs
    BY <1>0 DEF StepSend, At, Conn!PostSend, setupVars, Id
  <1>2. /\ call[r] \in DOMAIN job.calls[r] /\ l \in DOMAIN Plan(r) /\ l \in Nat /\ call[r] \in Nat
        /\ L.lag \in {0, 1} /\ DOMAIN L.steps = 1..Len(L.steps) /\ Len(L.steps) \in Nat \ {0}
        /\ L.to \in Ends /\ AtStep(L, lanes[r][l])
    BY LaneFacts DEF GroupInv
  <1>3. t \in DOMAIN L.steps /\ t \in Nat \ {0} /\ AtStep(L, s)
    <2> HIDE DEF L
    <2> QED  BY <1>0, <1>1, <1>2 DEF AtStep, Places
  <1>4. L.steps[t].send \in Seq(Cells)  BY <1>2, <1>3, PlanFacts DEF GroupInv
  <1>5. id \in Nat \X Nat \X Nat
    <2> HIDE DEF t
    <2> QED  BY <1>2, <1>3, IdFacts
  <1>6. sends \in Queues /\ recvs \in Queues  BY DEF GroupInv, GroupTypeOK, Queues
  <1> HIDE DEF id
  <1>7. /\ sends' \in Queues
        /\ \A f \in Ends : \A q \in Range(sends'[f]) :
              q \in Range(sends[f]) \/ (f = L.to /\ q.id = id /\ q.cells = L.steps[t].send)
    <2> DEFINE e == L.to
               cs == L.steps[t].send
    <2>1. e \in Ends /\ cs \in Seq(Cells) /\ sends' = Conn!Posted(sends, e, id, cs)
      BY <1>1, <1>2, <1>4
    <2> HIDE DEF e, cs
    <2>2. /\ Conn!Posted(sends, e, id, cs) \in Queues
          /\ \A f \in Ends : \A q \in Range(Conn!Posted(sends, e, id, cs)[f]) :
                q \in Range(sends[f]) \/ (f = e /\ q.id = id /\ q.cells = cs)
      BY <2>1, <1>5, <1>6, PostedFacts
    <2> QED  BY <2>1, <2>2 DEF e, cs
  <1>8. /\ t \in SendWindow(L, s)
        /\ \A k \in SendWindow(L, lanes[r][l]) : k \in SendWindow(L, s)
        /\ \A k \in RecvWindow(L, lanes[r][l]) : k \in RecvWindow(L, s)
    <2> HIDE DEF L
    <2> QED  BY <1>0, <1>1, <1>2, <1>3 DEF SendWindow, RecvWindow
  <1>9. \A e \in Ends : \A q \in Range(sends'[e]) :
           \/ q \in Range(sends[e])
           \/ /\ e = L.to /\ q.id = Id(call[r], l, t) /\ t \in SendWindow(L, s)
              /\ t \in DOMAIN L.steps /\ q.cells = L.steps[t].send
    BY <1>3, <1>7, <1>8 DEF id
  <1>10. recvs' \in Queues /\ \A e \in Ends : \A q \in Range(recvs'[e]) : q \in Range(recvs[e])
    BY <1>1, <1>6
  <1>11. \A e \in Ends : \A q \in Range(recvs'[e]) :
           \/ q \in Range(recvs[e])
           \/ /\ e = L.from /\ q.id = Id(call[r], l, t) /\ t \in RecvWindow(L, s)
              /\ t \in DOMAIN L.steps /\ q.cells = L.steps[t].recv
    BY <1>10
  <1>12. \A k \in SendWindow(L, lanes[r][l]) : k \in DOMAIN L.steps =>
            k \in SendWindow(L, s) \/ ~Holds(sends, L.to, Id(call[r], l, k))
    BY <1>8
  <1>13. \A k \in RecvWindow(L, lanes[r][l]) : k \in DOMAIN L.steps =>
            k \in RecvWindow(L, s) \/ ~Holds(recvs, L.from, Id(call[r], l, k))
    BY <1>8
  <1>14. UNCHANGED <<job, plan, call>> /\ Goto(r, l, i, place) /\ AtStep(L, s)
         /\ sends' \in Queues /\ recvs' \in Queues
    BY <1>1, <1>3, <1>7, <1>10
  <1> QED  BY ONLY GroupInv, r \in Ranks, l \in DOMAIN lanes[r], <1>9, <1>11, <1>12, <1>13, <1>14, LaneMoves

(* Where a lane goes after step t. *)
After(L, t) ==
    IF t < Len(L.steps) THEN [step |-> t + 1, at |-> "send"] ELSE [step |-> t + 1, at |-> "last"]

LEMMA NextStepGoes ==
    ASSUME NEW r, NEW l, NEW t, NextStep(r, l, t)
    PROVE  \E i, place : Goto(r, l, i, place) /\ [step |-> i, at |-> place] = After(Plan(r)[l], t)
  BY DEF NextStep, After

LEMMA AfterFacts ==
    ASSUME NEW L, NEW t \in 1..Len(L.steps), Len(L.steps) \in Nat \ {0}, L.lag \in {0, 1}
    PROVE  /\ AtStep(L, After(L, t))
           /\ SendWindow(L, After(L, t)) = t + 1 - L.lag..t
           /\ RecvWindow(L, After(L, t)) = t + 1 - L.lag..t
  <1>1. CASE t < Len(L.steps)
    <2>1. After(L, t) = [step |-> t + 1, at |-> "send"]  BY <1>1 DEF After
    <2> QED  BY <1>1, <2>1 DEF AtStep, SendWindow, RecvWindow, Places
  <1>2. CASE ~(t < Len(L.steps))
    <2>1. After(L, t) = [step |-> t + 1, at |-> "last"] /\ t = Len(L.steps)  BY <1>2 DEF After
    <2> QED  BY <1>2, <2>1 DEF AtStep, SendWindow, RecvWindow, Places
  <1> QED  BY <1>1, <1>2

LEMMA StepRecvInv ==
    ASSUME GroupInv, NEW r \in Ranks, NEW l \in DOMAIN lanes[r], StepRecv(r, l)
    PROVE  GroupInv'
  <1> DEFINE L == Plan(r)[l]
             t == lanes[r][l].step
             id == Id(call[r], l, t)
  <1>1. /\ lanes[r][l].at = "recv" /\ UNCHANGED <<job, plan, call>>
        /\ IF t > L.lag THEN Goto(r, l, t, "wait") ELSE NextStep(r, l, t)
        /\ recvs' = Conn!Posted(recvs, L.from, id, L.steps[t].recv) /\ UNCHANGED sends
    BY DEF StepRecv, At, Conn!PostRecv, setupVars, Id
  <1>2. /\ call[r] \in DOMAIN job.calls[r] /\ l \in DOMAIN Plan(r) /\ l \in Nat /\ call[r] \in Nat
        /\ L.lag \in {0, 1} /\ DOMAIN L.steps = 1..Len(L.steps) /\ Len(L.steps) \in Nat \ {0}
        /\ L.from \in Ends /\ AtStep(L, lanes[r][l])
    BY LaneFacts DEF GroupInv
  <1>3. t \in DOMAIN L.steps /\ t \in Nat \ {0}
    <2> HIDE DEF L
    <2> QED  BY <1>1, <1>2 DEF AtStep, Places
  <1>4. L.steps[t].recv \in Seq(Cells)  BY <1>2, <1>3, PlanFacts DEF GroupInv
  <1>5. id \in Nat \X Nat \X Nat
    <2> HIDE DEF t
    <2> QED  BY <1>2, <1>3, IdFacts
  <1>6. sends \in Queues /\ recvs \in Queues  BY DEF GroupInv, GroupTypeOK, Queues
  <1> HIDE DEF id
  <1>7. /\ recvs' \in Queues
        /\ \A f \in Ends : \A q \in Range(recvs'[f]) :
              q \in Range(recvs[f]) \/ (f = L.from /\ q.id = id /\ q.cells = L.steps[t].recv)
    <2> DEFINE e == L.from
               cs == L.steps[t].recv
    <2>1. e \in Ends /\ cs \in Seq(Cells) /\ recvs' = Conn!Posted(recvs, e, id, cs)
      BY <1>1, <1>2, <1>4
    <2> HIDE DEF e, cs
    <2>2. /\ Conn!Posted(recvs, e, id, cs) \in Queues
          /\ \A f \in Ends : \A q \in Range(Conn!Posted(recvs, e, id, cs)[f]) :
                q \in Range(recvs[f]) \/ (f = e /\ q.id = id /\ q.cells = cs)
      BY <2>1, <1>5, <1>6, PostedFacts
    <2> QED  BY <2>1, <2>2 DEF e, cs
  <1>8. \E i, place : LET s == [step |-> i, at |-> place]
                      IN  /\ Goto(r, l, i, place) /\ AtStep(L, s) /\ t \in RecvWindow(L, s)
                          /\ \A k \in SendWindow(L, lanes[r][l]) : k \in DOMAIN L.steps => k \in SendWindow(L, s)
                          /\ \A k \in RecvWindow(L, lanes[r][l]) : k \in DOMAIN L.steps => k \in RecvWindow(L, s)
    <2>1. CASE t > L.lag
      <3> DEFINE s == [step |-> t, at |-> "wait"]
      <3>1. Goto(r, l, t, "wait")  BY <1>1, <2>1
      <3>2. /\ AtStep(L, s) /\ t \in RecvWindow(L, s)
            /\ \A k \in SendWindow(L, lanes[r][l]) : k \in DOMAIN L.steps => k \in SendWindow(L, s)
            /\ \A k \in RecvWindow(L, lanes[r][l]) : k \in DOMAIN L.steps => k \in RecvWindow(L, s)
        <4> HIDE DEF L
        <4> QED  BY <1>1, <1>2, <1>3, <2>1 DEF SendWindow, RecvWindow, AtStep, Places
      <3> QED  BY <3>1, <3>2
    <2>2. CASE ~(t > L.lag)
      <3>1. PICK i, place : Goto(r, l, i, place) /\ [step |-> i, at |-> place] = After(L, t)
        BY <1>1, <2>2, NextStepGoes
      <3> DEFINE s == [step |-> i, at |-> place]
      <3>2. /\ AtStep(L, s) /\ SendWindow(L, s) = t + 1 - L.lag..t /\ RecvWindow(L, s) = t + 1 - L.lag..t
        <4> HIDE DEF L
        <4> QED  BY <1>2, <1>3, <3>1, AfterFacts
      <3>3. SendWindow(L, lanes[r][l]) = t - L.lag..t /\ RecvWindow(L, lanes[r][l]) = t - L.lag..t - 1
        BY <1>1 DEF SendWindow, RecvWindow
      <3> HIDE DEF L, s
      <3>4. L.lag = 1 /\ t = 1  BY <1>2, <1>3, <2>2
      <3>5. /\ t \in RecvWindow(L, s)
            /\ \A k \in SendWindow(L, lanes[r][l]) : k \in DOMAIN L.steps => k \in SendWindow(L, s)
            /\ \A k \in RecvWindow(L, lanes[r][l]) : k \in DOMAIN L.steps => k \in RecvWindow(L, s)
        BY <1>2, <3>2, <3>3, <3>4
      <3> QED  BY <3>1, <3>2, <3>5 DEF s
    <2> QED  BY <2>1, <2>2
  <1>9. PICK i, place : LET s == [step |-> i, at |-> place]
                      IN  /\ Goto(r, l, i, place) /\ AtStep(L, s) /\ t \in RecvWindow(L, s)
                          /\ \A k \in SendWindow(L, lanes[r][l]) : k \in DOMAIN L.steps => k \in SendWindow(L, s)
                          /\ \A k \in RecvWindow(L, lanes[r][l]) : k \in DOMAIN L.steps => k \in RecvWindow(L, s)
    BY <1>8
  <1> DEFINE s == [step |-> i, at |-> place]
  <1>10. \A e \in Ends : \A q \in Range(recvs'[e]) :
           \/ q \in Range(recvs[e])
           \/ /\ e = L.from /\ q.id = Id(call[r], l, t) /\ t \in RecvWindow(L, s)
              /\ t \in DOMAIN L.steps /\ q.cells = L.steps[t].recv
    BY <1>3, <1>7, <1>9 DEF id
  <1>11. sends' \in Queues /\ \A e \in Ends : \A q \in Range(sends'[e]) : q \in Range(sends[e])
    BY <1>1, <1>6
  <1>12. \A e \in Ends : \A q \in Range(sends'[e]) :
           \/ q \in Range(sends[e])
           \/ /\ e = L.to /\ q.id = Id(call[r], l, t) /\ t \in SendWindow(L, s)
              /\ t \in DOMAIN L.steps /\ q.cells = L.steps[t].send
    BY <1>11
  <1>13. \A k \in SendWindow(L, lanes[r][l]) : k \in DOMAIN L.steps =>
            k \in SendWindow(L, s) \/ ~Holds(sends, L.to, Id(call[r], l, k))
    BY <1>9
  <1>14. \A k \in RecvWindow(L, lanes[r][l]) : k \in DOMAIN L.steps =>
            k \in RecvWindow(L, s) \/ ~Holds(recvs, L.from, Id(call[r], l, k))
    BY <1>9
  <1>15. UNCHANGED <<job, plan, call>> /\ Goto(r, l, i, place) /\ AtStep(L, s)
         /\ sends' \in Queues /\ recvs' \in Queues
    BY <1>1, <1>7, <1>9, <1>11
  <1> QED  BY ONLY GroupInv, r \in Ranks, l \in DOMAIN lanes[r], <1>10, <1>12, <1>13, <1>14, <1>15, LaneMoves

LEMMA ReadyIs ==
    ASSUME NEW r, NEW l, NEW i
    PROVE  Ready(r, l, i) <=> /\ ~Holds(sends, Plan(r)[l].to, Id(call[r], l, i))
                              /\ ~Holds(recvs, Plan(r)[l].from, Id(call[r], l, i))
  BY Zenon DEF Ready, Holds, Id

LEMMA StepWaitInv ==
    ASSUME GroupInv, NEW r \in Ranks, NEW l \in DOMAIN lanes[r], StepWait(r, l)
    PROVE  GroupInv'
  <1> DEFINE L == Plan(r)[l]
             t == lanes[r][l].step
             a == Awaited(r, l)
  <1>1. /\ lanes[r][l].at = "wait" /\ UNCHANGED <<job, plan, call, sends, recvs>>
        /\ Ready(r, l, a) /\ NextStep(r, l, t)
    BY DEF StepWait, At, setupVars
  <1>2. /\ L.lag \in {0, 1} /\ DOMAIN L.steps = 1..Len(L.steps) /\ Len(L.steps) \in Nat \ {0}
        /\ AtStep(L, lanes[r][l])
    BY LaneFacts DEF GroupInv
  <1>3. t \in 1..Len(L.steps) /\ t \in Nat \ {0} /\ a = t - L.lag
    <2> HIDE DEF L
    <2> QED  BY <1>1, <1>2 DEF AtStep, Places, Awaited, L
  <1>4. PICK i, place : Goto(r, l, i, place) /\ [step |-> i, at |-> place] = After(L, t)
    BY <1>1, NextStepGoes
  <1> DEFINE s == [step |-> i, at |-> place]
  <1>5. /\ AtStep(L, s) /\ SendWindow(L, s) = t + 1 - L.lag..t /\ RecvWindow(L, s) = t + 1 - L.lag..t
    <2> HIDE DEF L
    <2> QED  BY <1>2, <1>3, <1>4, AfterFacts
  <1>6. SendWindow(L, lanes[r][l]) = t - L.lag..t /\ RecvWindow(L, lanes[r][l]) = t - L.lag..t
    BY <1>1 DEF SendWindow, RecvWindow
  <1>7. ~Holds(sends, L.to, Id(call[r], l, a)) /\ ~Holds(recvs, L.from, Id(call[r], l, a))
    BY <1>1, ReadyIs
  <1>8. /\ \A k \in SendWindow(L, lanes[r][l]) : k \in SendWindow(L, s) \/ k = a
        /\ \A k \in RecvWindow(L, lanes[r][l]) : k \in RecvWindow(L, s) \/ k = a
    <2> HIDE DEF L, a, s
    <2> QED  BY <1>2, <1>3, <1>5, <1>6
  <1>9. sends \in Queues /\ recvs \in Queues  BY DEF GroupInv, GroupTypeOK, Queues
  <1> HIDE DEF a
  <1> QED  BY <1>1, <1>4, <1>5, <1>7, <1>8, <1>9, LaneMoves

LEMMA LastWaitInv ==
    ASSUME GroupInv, NEW r \in Ranks, NEW l \in DOMAIN lanes[r], LastWait(r, l)
    PROVE  GroupInv'
  <1> DEFINE L == Plan(r)[l]
             t == lanes[r][l].step
             a == t - 1
             s == [step |-> t, at |-> "done"]
  <1>1. /\ lanes[r][l].at = "last" /\ UNCHANGED <<job, plan, call, sends, recvs>>
        /\ Ready(r, l, a) /\ Goto(r, l, t, "done")
    BY DEF LastWait, At, setupVars, duplexVars
  <1>2. /\ L.lag \in {0, 1} /\ DOMAIN L.steps = 1..Len(L.steps) /\ Len(L.steps) \in Nat \ {0}
        /\ AtStep(L, lanes[r][l])
    BY LaneFacts DEF GroupInv
  <1>3. AtStep(L, s) /\ t \in Nat
    <2> HIDE DEF L
    <2> QED  BY <1>1, <1>2 DEF AtStep, Places
  <1>6. SendWindow(L, lanes[r][l]) = t - L.lag..t - 1 /\ RecvWindow(L, lanes[r][l]) = t - L.lag..t - 1
    BY <1>1 DEF SendWindow, RecvWindow
  <1>7. ~Holds(sends, L.to, Id(call[r], l, a)) /\ ~Holds(recvs, L.from, Id(call[r], l, a))
    BY <1>1, ReadyIs
  <1>8. /\ \A k \in SendWindow(L, lanes[r][l]) : k = a
        /\ \A k \in RecvWindow(L, lanes[r][l]) : k = a
    <2> HIDE DEF L
    <2> QED  BY <1>2, <1>3, <1>6
  <1>9. sends \in Queues /\ recvs \in Queues  BY DEF GroupInv, GroupTypeOK, Queues
  <1> HIDE DEF a
  <1> QED  BY <1>1, <1>3, <1>7, <1>8, <1>9, LaneMoves

(* A call starts, or ends, when no request of its rank is left. *)
LEMMA RankMoves ==
    ASSUME GroupInv, UNCHANGED <<job, plan, sends, recvs>>,
           NEW r \in Ranks, GroupTypeOK', LanesInPlan',
           \A x \in Ranks \ {r} : call'[x] = call[x] /\ lanes'[x] = lanes[x],
           \A l \in DOMAIN lanes[r] : lanes[r][l].at = "done"
    PROVE  GroupInv'
  <1>1. ASSUME NEW e \in Ends, NEW q \in Range(sends'[e]) PROVE SendOk(e, q)'
    <2>1. SendOk(e, q)  BY <1>1 DEF GroupInv, QueuesInWindow
    <2>2. e[2] \in Ranks /\ e[2] # r  BY <2>1 DEF SendOk, SendWindow
    <2>3. call'[e[2]] = call[e[2]] /\ lanes'[e[2]] = lanes[e[2]]  BY <2>2
    <2> QED  BY <2>1, <2>3, RequestKept
  <1>2. ASSUME NEW e \in Ends, NEW q \in Range(recvs'[e]) PROVE RecvOk(e, q)'
    <2>1. RecvOk(e, q)  BY <1>2 DEF GroupInv, QueuesInWindow
    <2>2. e[2] \in Ranks /\ e[2] # r  BY <2>1 DEF RecvOk, RecvWindow
    <2>3. call'[e[2]] = call[e[2]] /\ lanes'[e[2]] = lanes[e[2]]  BY <2>2
    <2> QED  BY <2>1, <2>3, RequestKept
  <1> QED  BY <1>1, <1>2 DEF GroupInv, QueuesInWindow

LEMMA StartInv == ASSUME GroupInv, NEW r \in Ranks, Start(r) PROVE GroupInv'
  <1> DEFINE c == call[r] + 1
             first == [step |-> 1, at |-> "send"]
             new == [l \in DOMAIN plan[r][c] |-> first]
  <1>1. /\ lanes[r] = <<>> /\ c \in DOMAIN job.calls[r]
        /\ call' = [call EXCEPT ![r] = c] /\ lanes' = [lanes EXCEPT ![r] = new]
        /\ UNCHANGED <<job, plan, sends, recvs>>
    BY DEF Start, setupVars
  <1>2. /\ GroupTypeOK /\ LanesInPlan /\ call \in [Ranks -> Nat] /\ DOMAIN lanes = Ranks
        /\ \A x \in Ranks : call[x] = 0 \/ call[x] \in DOMAIN job.calls[x]
    BY DEF GroupInv, GroupTypeOK
  <1>3. Ranks' = Ranks  BY <1>1 DEF Ranks
  <1>4. c \in Nat  BY <1>2
  <1>5. plan[r][c] = Lanes(job, r, c) /\ PlanOk(job, r, plan[r][c])
    <2>1. job \in Jobs /\ r \in RanksOf(job)  BY <1>2 DEF GroupTypeOK, Ranks
    <2>2. plan[r][c] = Lanes(job, r, c)  BY <1>1, <1>2 DEF GroupTypeOK
    <2> QED  BY <1>1, <2>1, <2>2, LanesOk
  <1> HIDE DEF c
  <1>6. ASSUME NEW l \in DOMAIN plan[r][c] PROVE AtStep(plan[r][c][l], first)
    <2>1. Len(plan[r][c][l].steps) \in Nat \ {0}  BY <1>5, <1>6 DEF PlanOk, LaneOk
    <2> QED  BY <2>1 DEF AtStep, Places
  <1> HIDE DEF first
  <1>7. /\ call' \in [Ranks -> Nat] /\ call'[r] = c /\ DOMAIN lanes' = Ranks /\ lanes'[r] = new
        /\ \A x \in Ranks \ {r} : call'[x] = call[x] /\ lanes'[x] = lanes[x]
    <2> HIDE DEF new
    <2> QED  BY <1>1, <1>2, <1>4
  <1>8. GroupTypeOK'
    <2>1. \A x \in Ranks : call'[x] = 0 \/ call'[x] \in DOMAIN job.calls[x]  BY <1>1, <1>2, <1>7
    <2> QED  BY <1>1, <1>2, <1>3, <1>7, <2>1 DEF GroupTypeOK
  <1>9. LanesInPlan'
    <2> SUFFICES ASSUME NEW x \in Ranks, lanes'[x] # <<>>
                 PROVE  /\ call'[x] \in DOMAIN job.calls[x]
                        /\ DOMAIN lanes'[x] = DOMAIN plan[x][call'[x]]
                        /\ \A l \in DOMAIN lanes'[x] : AtStep(plan[x][call'[x]][l], lanes'[x][l])
      <3>1. job' = job /\ plan' = plan  BY <1>1
      <3> QED  BY <1>3, <3>1 DEF LanesInPlan, AtStep, Plan
    <2>1. CASE x = r  BY <2>1, <1>1, <1>6, <1>7
    <2>2. CASE x # r
      <3>1. call'[x] = call[x] /\ lanes'[x] = lanes[x]  BY <2>2, <1>7
      <3> QED  BY <1>2, <3>1 DEF LanesInPlan, Plan
    <2> QED  BY <2>1, <2>2
  <1>10. \A l \in DOMAIN lanes[r] : lanes[r][l].at = "done"
    <2>1. DOMAIN lanes[r] = {}  BY <1>1
    <2> QED  BY <2>1
  <1> QED  BY <1>1, <1>7, <1>8, <1>9, <1>10, RankMoves

LEMMA FinishInv == ASSUME GroupInv, NEW r \in Ranks, Finish(r) PROVE GroupInv'
  <1>1. /\ \A l \in DOMAIN lanes[r] : lanes[r][l].at = "done"
        /\ lanes' = [lanes EXCEPT ![r] = <<>>] /\ UNCHANGED <<job, plan, call, sends, recvs>>
    BY DEF Finish, setupVars, duplexVars
  <1>2. GroupTypeOK /\ LanesInPlan /\ DOMAIN lanes = Ranks  BY DEF GroupInv, GroupTypeOK
  <1>3. DOMAIN lanes' = Ranks /\ lanes'[r] = <<>> /\ \A x \in Ranks \ {r} : lanes'[x] = lanes[x]
    BY <1>1, <1>2
  <1>4. Ranks' = Ranks /\ \A x : Plan(x)' = Plan(x)  BY <1>1 DEF Ranks, Plan
  <1>5. GroupTypeOK'  BY <1>1, <1>2, <1>3, <1>4 DEF GroupTypeOK
  <1>6. LanesInPlan'
    <2> SUFFICES ASSUME NEW x \in Ranks, lanes'[x] # <<>>
                 PROVE  /\ call[x] \in DOMAIN job.calls[x] /\ DOMAIN lanes'[x] = DOMAIN Plan(x)
                        /\ \A m \in DOMAIN lanes'[x] : AtStep(Plan(x)[m], lanes'[x][m])
      <3>1. job' = job /\ call' = call  BY <1>1
      <3> QED  BY <1>4, <3>1 DEF LanesInPlan, AtStep
    <2>1. x # r /\ lanes'[x] = lanes[x]  BY <1>3
    <2> QED  BY <1>2, <2>1 DEF LanesInPlan
  <1> QED  BY <1>1, <1>3, <1>5, <1>6, RankMoves

LEMMA GroupInvInit == ASSUME Init PROVE GroupInv
  <1>1. GroupTypeOK
    <2>1. \A e \in Ends : sends[e] \in Seq(Request) /\ recvs[e] \in Seq(Request)  BY DEF Init
    <2>2. sends \in [Ends -> Seq(Request)] /\ recvs \in [Ends -> Seq(Request)]
      BY <2>1 DEF Init
    <2>3. call \in [Ranks -> Nat] /\ \A r \in Ranks : call[r] = 0  BY DEF Init
    <2> QED  BY <2>2, <2>3 DEF Init, GroupTypeOK
  <1>2. LanesInPlan  BY DEF Init, LanesInPlan
  <1>3. QueuesInWindow
    <2>1. \A e \in Ends : Range(sends[e]) = {} /\ Range(recvs[e]) = {}  BY DEF Init, Range
    <2> QED  BY <2>1 DEF QueuesInWindow
  <1> QED  BY <1>1, <1>2, <1>3 DEF GroupInv

LEMMA GroupInvNext == ASSUME GroupInv, [Next]_vars PROVE GroupInv'
  <1>1. CASE UNCHANGED vars
    <2>1. UNCHANGED <<job, plan, call, lanes, sends, recvs>>
      BY <1>1 DEF vars, setupVars, callVars, duplexVars
    <2>2. sends \in Queues /\ recvs \in Queues  BY DEF GroupInv, GroupTypeOK, Queues
    <2> QED  BY <2>1, <2>2, ShrunkSelf, QueuesShrink
  <1>2. CASE \E e \in Ends : Worker(e)  BY <1>2, WorkerInv
  <1>3. ASSUME NEW r \in Ranks, Setup(r) PROVE GroupInv'  BY <1>3, SetupInv
  <1>4. ASSUME NEW r \in Ranks, Start(r) PROVE GroupInv'  BY <1>4, StartInv
  <1>5. ASSUME NEW r \in Ranks, Finish(r) PROVE GroupInv'  BY <1>5, FinishInv
  <1>6. ASSUME NEW r \in Ranks, NEW l \in DOMAIN lanes[r], LaneStep(r, l) PROVE GroupInv'
    <2>1. CASE StepSend(r, l)  BY <2>1, StepSendInv
    <2>2. CASE StepRecv(r, l)  BY <2>2, StepRecvInv
    <2>3. CASE StepWait(r, l)  BY <2>3, StepWaitInv
    <2>4. CASE LastWait(r, l)  BY <2>4, LastWaitInv
    <2> QED  BY <1>6, <2>1, <2>2, <2>3, <2>4 DEF LaneStep
  <1> QED  BY <1>1, <1>2, <1>3, <1>4, <1>5, <1>6 DEF Next

(* GroupInv is an invariant: whatever is queued at a connection belongs to a *)
(* step that its lane has posted and not waited for.                         *)
THEOREM GroupInvariant == Spec => []GroupInv
  <1>1. Init => GroupInv  BY GroupInvInit
  <1>2. GroupInv /\ [Next]_vars => GroupInv'  BY GroupInvNext
  <1> QED  BY <1>1, <1>2, PTL DEF Spec

(* Memory that is being filled is not being sent and is filled by one        *)
(* request only, and a reduction touches none of it: ring.cpp, all_reduce,   *)
(* all_gather, send and recv.                                                *)
THEOREM NoOverlapCorrect == Spec => []NoOverlap
  <1>1. GroupInv => NoOverlap  BY InvNoOverlap
  <1> QED  BY <1>1, GroupInvariant, PTL

-----------------------------------------------------------------------------
(* What is under way *)

QueueOf(d) == IF d = "send" THEN sends ELSE recvs
(* A lane that is at s has posted its step i. *)
PostedAt(d, s, i) ==
    i < s.step \/ (i = s.step /\ s.at \in (IF d = "send" THEN {"recv", "wait"} ELSE {"wait"}))
(* Cell k of step i of a lane that is under way has still to be moved: it has *)
(* not been posted, or is queued.                                             *)
LanePending(d, r, l, i, k) ==
    LET L == Plan(r)[l]
    IN  \/ ~PostedAt(d, lanes[r][l], i)
        \/ \E q \in Range(QueueOf(d)[EndOf(d, L)]) :
              q.id = Id(call[r], l, i) /\ k + Len(q.cells) > Len(MovedBy(d, L.steps[i]))
StillMoves(d, e, c, l, t) ==
    \/ c > call[e[2]]
    \/ c = call[e[2]] /\ lanes[e[2]] # <<>> /\ LanePending(d, e[2], l, t.step, t.cell)
(* The tags that have still to go through end e, and all that ever do. *)
Pending(d, e) ==
    {t \in Tags : \E c, l : Moves(job, d, e, c, l, t) /\ StillMoves(d, e, c, l, t)}
AllTags(d, e) == {t \in Tags : \E c, l : Moves(job, d, e, c, l, t)}
JobEnds == {e \in Ends : e[1] = job.ranks}

(* What is queued is the rest of what steps move, in the order of the steps. *)
RestOf(rest, cells) ==
    /\ Len(rest) <= Len(cells)
    /\ \A a \in 1..Len(rest) : rest[a] = cells[Len(cells) - Len(rest) + a]
StepCells(d, e, q) == MovedBy(d, Plan(e[2])[q.id[2]].steps[q.id[3]])
InOrder(Q) == \A n, m \in DOMAIN Q : n < m => Q[n].id[3] < Q[m].id[3]
ShapeOf(d) ==
    \A e \in JobEnds :
        /\ \A q \in Range(QueueOf(d)[e]) : RestOf(q.cells, StepCells(d, e, q))
        /\ InOrder(QueueOf(d)[e])
QueueShape == \A d \in Ways : ShapeOf(d)
(* The tag of the first cell of the first request. *)
FirstTag(d, e) ==
    LET q == Head(QueueOf(d)[e])
    IN  [round |-> Round(job)[e[2]][call[e[2]]], step |-> q.id[3],
         cell |-> Len(StepCells(d, e, q)) - Len(q.cells) + 1]

(* v is what end e sends as tag t. *)
Carries(e, t, v) ==
    \A c, l : Moves(job, "send", e, c, l, t) => v = SentValue(job, e[2], c, l, t.step, t.cell)
(* The pipe has the values of the tags G: those sent and not yet received. *)
Stream(e, G) ==
    /\ pipe[e] \in Seq(Range(pipe[e])) /\ Len(G) = Len(pipe[e])
    /\ Increasing(G)
    /\ Range(G) = Pending("recv", PeerOf[e]) \ Pending("send", e)
    /\ \A n \in DOMAIN G : Carries(e, G[n], pipe[e][n])
(* After a tag that is to be sent, all are. *)
Upper(e) == \A t \in Pending("send", e) : \A u \in AllTags("send", e) : Earlier(t, u) => u \in Pending("send", e)
Flow(e) ==
    /\ Upper(e)
    /\ Pending("send", e) \subseteq Pending("recv", PeerOf[e])
    /\ \E G \in Seq(Tags) : Stream(e, G)
FlowInv == DOMAIN pipe = Ends /\ \A e \in JobEnds : Flow(e)

-----------------------------------------------------------------------------
(* What the memory must hold *)

(* Step m of lane l has written x: it has received it, or has summed it up. *)
Done(r, l, m, x) ==
    LET s == Plan(r)[l].steps[m]
    IN  IF s.into = <<>> THEN \A k \in DOMAIN s.recv : s.recv[k] = x => ~LanePending("recv", r, l, m, k)
        ELSE m + Plan(r)[l].lag < lanes[r][l].step
DoneWriters(r, l, x) == {m \in Writers(Plan(r)[l], x) : Done(r, l, m, x)}
OutLane(r, l) ==
    \A x \in LaneMemory(Plan(r)[l]) :
        IsOut(x) => mem[x] = Value(job, r, call[r], l, DoneWriters(r, l, x), x[3])
(* A receive buffer has what has been received and not yet summed up. *)
BufLane(r, l) ==
    \A i \in DOMAIN Plan(r)[l].steps :
        LET L == Plan(r)[l] IN
        L.steps[i].into # <<>> /\ lanes[r][l].step <= i + L.lag =>
        \A k \in DOMAIN L.steps[i].recv : ~LanePending("recv", r, l, i, k) =>
            Carries(PeerOf[L.from], [round |-> Round(job)[r][call[r]], step |-> i, cell |-> k], mem[L.steps[i].recv[k]])
MemLane(r, l) == OutLane(r, l) /\ BufLane(r, l)
MemInv == \A r \in Ranks : \A l \in DOMAIN lanes[r] : MemLane(r, l)

(* The inductive invariant. *)
DataInv == GroupInv /\ QueueShape /\ FlowInv /\ MemInv /\ Result

-----------------------------------------------------------------------------
(* The lanes that are under way *)

(* The ends of a job. *)
LEMMA JobEndFacts ==
    ASSUME GroupTypeOK, NEW e \in JobEnds
    PROVE  /\ e \in Ends /\ e[1] = job.ranks /\ e[2] \in Ranks /\ job \in Jobs
           /\ PeerOf[e] \in JobEnds /\ PeerOf[PeerOf[e]] = e
           /\ e[3] \in {"left", "right"} /\ PeerOf[e][3] # e[3] /\ PeerOf[e][4] = e[4]
           /\ PeerOf[e][2] = IF e[3] = "right" THEN (e[2] + 1) % job.ranks
                             ELSE (e[2] + job.ranks - 1) % job.ranks
  <1>1. e \in Ends /\ e[1] = job.ranks /\ job \in Jobs  BY DEF JobEnds, GroupTypeOK
  <1>a. PICK j \in Jobs : \E r \in RanksOf(j), side \in {"left", "right"}, w \in 1..j.wires : e = End(j, r, side, w)
    BY <1>1 DEF Ends
  <1>2. PICK r \in RanksOf(j), side \in {"left", "right"}, w \in 1..j.wires : e = End(j, r, side, w)
    BY <1>a
  <1>3. j.ranks = job.ranks /\ e[2] = r /\ e[3] = side /\ e[4] = w /\ e[1] = j.ranks
    BY <1>1, <1>2 DEF End
  <1>4. job.ranks \in Nat /\ job.ranks >= 2  BY <1>1, JobFacts
  <1>5. r \in 0..job.ranks - 1 /\ e[2] \in Ranks  BY <1>3 DEF RanksOf, Ranks
  <1>9. job.ranks \in Nat \ {0} /\ r + 1 \in Int /\ r + job.ranks - 1 \in Int /\ job.ranks - 1 \in Int
    BY <1>4, <1>5
  <1>6. CASE side = "right"
    <2> DEFINE q == (r + 1) % job.ranks
    <2>1. q \in 0..job.ranks - 1  BY <1>9, ModRange
    <2>2. PeerOf[e] = <<job.ranks, q, "left", w>>
      BY <1>1, <1>2, <1>3, <1>6 DEF PeerOf, End
    <2>3. PeerOf[e] = End(j, q, "left", w) /\ q \in RanksOf(j)  BY <2>2, <2>1, <1>3 DEF End, RanksOf
    <2>4. PeerOf[e] \in Ends  BY <2>3 DEF Ends
    <2>5. PeerOf[e][1] = job.ranks /\ PeerOf[e][2] = q /\ PeerOf[e][3] = "left" /\ PeerOf[e][4] = w
      BY <2>2
    <2>6. PeerOf[PeerOf[e]] = <<job.ranks, (q + job.ranks - 1) % job.ranks, "right", w>>
      BY <2>4, <2>5 DEF PeerOf
    <2>7. (q + job.ranks - 1) % job.ranks = r
      <3>1. q + (job.ranks - 1) = q + job.ranks - 1 /\ (r + 1) + (job.ranks - 1) = r + job.ranks
        BY <2>1, <1>4, <1>5
      <3>2. (q + (job.ranks - 1)) % job.ranks = ((r + 1) + (job.ranks - 1)) % job.ranks
        BY <1>9, ModAdd
      <3>3. (r + job.ranks) % job.ranks = r  BY <1>9, <1>5, ModSmall
      <3>4. QED  BY <3>1, <3>2, <3>3
    <2>8. QED  BY <2>4, <2>5, <2>6, <2>7, <1>1, <1>2, <1>3, <1>5, <1>6 DEF JobEnds, End
  <1>7. CASE side = "left"
    <2> DEFINE q == (r + job.ranks - 1) % job.ranks
    <2>1. q \in 0..job.ranks - 1  BY <1>9, ModRange
    <2>2. PeerOf[e] = <<job.ranks, q, "right", w>>
      BY <1>1, <1>2, <1>3, <1>7 DEF PeerOf, End
    <2>3. PeerOf[e] = End(j, q, "right", w) /\ q \in RanksOf(j)
      BY <2>2, <2>1, <1>3 DEF End, RanksOf
    <2>4. PeerOf[e] \in Ends  BY <2>3 DEF Ends
    <2>5. PeerOf[e][1] = job.ranks /\ PeerOf[e][2] = q /\ PeerOf[e][3] = "right" /\ PeerOf[e][4] = w
      BY <2>2
    <2>6. PeerOf[PeerOf[e]] = <<job.ranks, (q + 1) % job.ranks, "left", w>>
      BY <2>4, <2>5 DEF PeerOf
    <2>7. (q + 1) % job.ranks = r
      <3>1. (r + job.ranks - 1) + 1 = r + job.ranks /\ r + job.ranks - 1 \in Int
        BY <2>1, <1>4, <1>5
      <3>2. (q + 1) % job.ranks = ((r + job.ranks - 1) + 1) % job.ranks
        BY <1>4, <1>5, <3>1, ModAdd
      <3>3. (r + job.ranks) % job.ranks = r  BY <1>4, <1>5, ModSmall
      <3>4. QED  BY <3>1, <3>2, <3>3
    <2>8. QED  BY <2>4, <2>5, <2>6, <2>7, <1>1, <1>2, <1>3, <1>5, <1>7 DEF JobEnds, End
  <1>8. QED  BY <1>6, <1>7

LEMMA StepFacts ==
    ASSUME NEW j \in Jobs, NEW r \in RanksOf(j), NEW c \in DOMAIN j.calls[r], NEW l \in DOMAIN Lanes(j, r, c),
           NEW i \in DOMAIN Lanes(j, r, c)[l].steps
    PROVE  LET s == Lanes(j, r, c)[l].steps[i]
           IN  /\ i \in Nat \ {0}
               /\ s.send \in Seq(Cells) /\ s.recv \in Seq(Cells)
               /\ s.into # <<>> => Len(s.into) = Len(s.recv)
               /\ Distinct(s.send) /\ Distinct(s.recv) /\ Distinct(s.into)
               /\ \A d \in Ways : MovedBy(d, s) \in Seq(Cells) /\ Len(MovedBy(d, s)) \in Nat
                                  /\ DOMAIN MovedBy(d, s) = 1..Len(MovedBy(d, s))
  <1> DEFINE L == Lanes(j, r, c)[l]
  <1>1. LaneOk(L, LaneMemory(L)) /\ DOMAIN L.steps = 1..Len(L.steps) /\ Len(L.steps) \in Nat \ {0}
    BY LanesFacts
  <1>2. StepTyped(LaneMemory(L), L.steps[i])  BY <1>1 DEF LaneOk
  <1>3. L.steps[i].send \in Seq(Cells) /\ L.steps[i].recv \in Seq(Cells)  BY StepsInCells
  <1>4. \A d \in Ways : MovedBy(d, L.steps[i]) \in Seq(Cells)  BY <1>3 DEF MovedBy
  <1>5. i \in Nat \ {0}  BY <1>1
  <1>6. \A d \in Ways : Len(MovedBy(d, L.steps[i])) \in Nat /\ DOMAIN MovedBy(d, L.steps[i]) = 1..Len(MovedBy(d, L.steps[i]))
    BY <1>4
  <1>7. QED  BY <1>2, <1>3, <1>4, <1>5, <1>6 DEF StepTyped

(* A lane that is under way is one of its call. *)
LEMMA LaneIs ==
    ASSUME GroupTypeOK, LanesInPlan, NEW r \in Ranks, lanes[r] # <<>>
    PROVE  /\ r \in RanksOf(job) /\ job \in Jobs /\ call[r] \in DOMAIN job.calls[r]
           /\ Plan(r) = Lanes(job, r, call[r]) /\ DOMAIN lanes[r] = DOMAIN Lanes(job, r, call[r])
  <1>1. call[r] \in DOMAIN job.calls[r] /\ DOMAIN lanes[r] = DOMAIN Plan(r)  BY DEF LanesInPlan
  <1>2. Plan(r) = Lanes(job, r, call[r]) /\ job \in Jobs /\ r \in RanksOf(job)  BY <1>1, PlanFacts
  <1>3. QED  BY <1>1, <1>2

LEMMA MovesSame ==
    ASSUME job' = job, NEW d, NEW e
    PROVE  /\ \A c, l, t : Moves(job', d, e, c, l, t) = Moves(job, d, e, c, l, t)
           /\ AllTags(d, e)' = AllTags(d, e) /\ JobEnds' = JobEnds
  BY DEF AllTags, JobEnds

(* What is pending is what is pending for the lanes that are under way. *)
(* The lanes under way have the same to send or receive as before. *)
LaneKept(d) ==
    /\ \A r \in Ranks : lanes'[r] = <<>> <=> lanes[r] = <<>>
    /\ \A r \in Ranks : \A l \in DOMAIN lanes[r] : \A i \in DOMAIN Plan(r)[l].steps :
          \A k \in DOMAIN MovedBy(d, Plan(r)[l].steps[i]) :
             LanePending(d, r, l, i, k)' <=> LanePending(d, r, l, i, k)
LanesKept == \A d \in Ways : LaneKept(d)

LEMMA PendingSame ==
    ASSUME GroupInv, UNCHANGED <<job, plan, call>>, NEW d \in Ways, LaneKept(d), NEW e \in JobEnds
    PROVE  Pending(d, e)' = Pending(d, e)
  <1>1. GroupTypeOK /\ LanesInPlan /\ e[2] \in Ranks  BY JobEndFacts DEF GroupInv
  <1>2. ASSUME NEW c, NEW l, NEW t \in Tags, Moves(job, d, e, c, l, t)
        PROVE  StillMoves(d, e, c, l, t)' <=> StillMoves(d, e, c, l, t)
    <2>1. CASE c = call[e[2]] /\ lanes[e[2]] # <<>>
      <3>1. Plan(e[2]) = Lanes(job, e[2], call[e[2]]) /\ DOMAIN lanes[e[2]] = DOMAIN Lanes(job, e[2], call[e[2]])
        BY <1>1, <2>1, LaneIs
      <3>2. l \in DOMAIN lanes[e[2]] /\ t.step \in DOMAIN Plan(e[2])[l].steps
            /\ t.cell \in DOMAIN MovedBy(d, Plan(e[2])[l].steps[t.step])
        BY <3>1, <2>1, <1>2 DEF Moves
      <3>3. LanePending(d, e[2], l, t.step, t.cell)' <=> LanePending(d, e[2], l, t.step, t.cell)
        BY <3>2, <1>1 DEF LaneKept
      <3>4. QED  BY <3>3, <2>1, <1>1 DEF StillMoves, LaneKept
    <2>2. CASE ~(c = call[e[2]] /\ lanes[e[2]] # <<>>)
      BY <2>2, <1>1 DEF StillMoves, LaneKept
    <2>3. QED  BY <2>1, <2>2
  <1>3. \A c, l, t : Moves(job', d, e, c, l, t) = Moves(job, d, e, c, l, t)  BY MovesSame
  <1>4. QED  BY <1>2, <1>3 DEF Pending

(* What the lanes of a rank share with another's steps: nothing. *)
LEMMA LanePendingKept ==
    ASSUME NEW d, NEW r, NEW l, NEW i, NEW k, UNCHANGED <<job, plan>>, call'[r] = call[r],
           lanes'[r][l] = lanes[r][l],
           QueueOf(d)'[EndOf(d, Plan(r)[l])] = QueueOf(d)[EndOf(d, Plan(r)[l])]
    PROVE  LanePending(d, r, l, i, k)' <=> LanePending(d, r, l, i, k)
  <1>1. Plan(r)' = Plan(r)  BY DEF Plan
  <1>2. QED  BY <1>1 DEF LanePending

(* The ends of the lanes that are under way. *)
LEMMA WayEnds ==
    ASSUME GroupTypeOK, LanesInPlan, NEW d \in Ways, NEW r \in Ranks, NEW l \in DOMAIN lanes[r], lanes[r] # <<>>
    PROVE  LET e == EndOf(d, Plan(r)[l])
           IN  /\ e \in JobEnds /\ e \in Ends /\ e[2] = r
               /\ \A x \in Ranks : \A m \in DOMAIN lanes[x] :
                     lanes[x] # <<>> /\ (x # r \/ m # l) => EndOf(d, Plan(x)[m]) # e
  <1>1. ASSUME NEW x \in Ranks, lanes[x] # <<>>, NEW m \in DOMAIN lanes[x]
        PROVE  /\ EndOf(d, Plan(x)[m]) \in JobEnds /\ EndOf(d, Plan(x)[m])[2] = x
    <2>1. LET L == Plan(x)[m]
          IN  /\ L.to \in Ends /\ L.to[1] = job.ranks /\ L.to[2] = x
              /\ L.from \in Ends /\ L.from[1] = job.ranks /\ L.from[2] = x
      BY LaneFacts
    <2>2. QED  BY <2>1 DEF EndOf, JobEnds
  <1>2. ASSUME NEW m \in DOMAIN lanes[r], m # l PROVE EndOf(d, Plan(r)[m]) # EndOf(d, Plan(r)[l])
    <2>1. /\ r \in RanksOf(job) /\ job \in Jobs /\ call[r] \in DOMAIN job.calls[r]
          /\ Plan(r) = Lanes(job, r, call[r]) /\ DOMAIN lanes[r] = DOMAIN Lanes(job, r, call[r])
      BY LaneIs
    <2>2. Plan(r)[l].to # Plan(r)[m].to /\ Plan(r)[l].from # Plan(r)[m].from
      BY <2>1, <1>2, LanesFacts
    <2>3. QED  BY <2>2 DEF EndOf
  <1>3. QED  BY <1>1, <1>2 DEF JobEnds

LEMMA SomeLane == ASSUME NEW r, NEW l \in DOMAIN lanes[r] PROVE lanes[r] # <<>>
  OBVIOUS

(* The steps of a lane that is under way. *)
LEMMA PlanSteps ==
    ASSUME GroupTypeOK, LanesInPlan, NEW r \in Ranks, NEW l \in DOMAIN lanes[r],
           NEW i \in DOMAIN Plan(r)[l].steps
    PROVE  LET s == Plan(r)[l].steps[i]
           IN  /\ i \in Nat \ {0}
               /\ s.send \in Seq(Cells) /\ s.recv \in Seq(Cells)
               /\ s.into # <<>> => Len(s.into) = Len(s.recv)
               /\ Distinct(s.send) /\ Distinct(s.recv) /\ Distinct(s.into)
               /\ \A d \in Ways : MovedBy(d, s) \in Seq(Cells) /\ Len(MovedBy(d, s)) \in Nat
                                  /\ DOMAIN MovedBy(d, s) = 1..Len(MovedBy(d, s))
  <1>1. /\ r \in RanksOf(job) /\ job \in Jobs /\ call[r] \in DOMAIN job.calls[r]
        /\ Plan(r) = Lanes(job, r, call[r]) /\ DOMAIN lanes[r] = DOMAIN Lanes(job, r, call[r])
    BY LaneIs, SomeLane
  <1>2. QED  BY <1>1, StepFacts

LEMMA AppendIsRange ==
    ASSUME NEW S, NEW q \in Seq(S), NEW x \in S
    PROVE  Range(Append(q, x)) = Range(q) \cup {x}
  <1>1. /\ Len(Append(q, x)) = Len(q) + 1 /\ DOMAIN Append(q, x) = 1..Len(q) + 1 /\ Len(q) \in Nat
        /\ \A n \in 1..Len(q) : Append(q, x)[n] = q[n]
        /\ Append(q, x)[Len(q) + 1] = x /\ DOMAIN q = 1..Len(q)
    OBVIOUS
  <1>2. \A n \in 1..Len(q) + 1 : n \in 1..Len(q) \/ n = Len(q) + 1  BY <1>1
  <1>3. \A n \in 1..Len(q) : n \in 1..Len(q) + 1  BY <1>1
  <1>4. Len(q) + 1 \in 1..Len(q) + 1  BY <1>1
  <1>5. Range(Append(q, x)) \subseteq Range(q) \cup {x}  BY <1>1, <1>2 DEF Range
  <1>6. Range(q) \subseteq Range(Append(q, x))  BY <1>1, <1>3 DEF Range
  <1>7. x \in Range(Append(q, x))  BY <1>1, <1>4 DEF Range
  <1>8. QED  BY <1>5, <1>6, <1>7

(* A lane goes on without posting. *)
LEMMA IdlePending ==
    ASSUME GroupInv, UNCHANGED <<job, plan, call>>, NEW d \in Ways,
           NEW r \in Ranks, NEW l \in DOMAIN lanes[r], NEW n, NEW place, Goto(r, l, n, place),
           QueueOf(d)' = QueueOf(d),
           \A i \in DOMAIN Plan(r)[l].steps :
              PostedAt(d, [step |-> n, at |-> place], i) <=> PostedAt(d, lanes[r][l], i)
    PROVE  LaneKept(d)
  <1>1. GroupTypeOK /\ LanesInPlan  BY DEF GroupInv
  <1>2. /\ \A x \in Ranks : DOMAIN lanes'[x] = DOMAIN lanes[x]
        /\ \A x \in Ranks : \A m \in DOMAIN lanes[x] :
              lanes'[x][m] = IF x = r /\ m = l THEN [step |-> n, at |-> place] ELSE lanes[x][m]
        /\ lanes'[r] # <<>> /\ \A x \in Ranks \ {r} : lanes'[x] = lanes[x]
    BY <1>1, GotoFacts
  <1>3. \A x \in Ranks : lanes'[x] = <<>> <=> lanes[x] = <<>>  BY <1>2, SomeLane
  <1>4. ASSUME NEW x \in Ranks, NEW m \in DOMAIN lanes[x], NEW i \in DOMAIN Plan(x)[m].steps, NEW k
        PROVE  LanePending(d, x, m, i, k)' <=> LanePending(d, x, m, i, k)
    <2>1. CASE x = r /\ m = l
      <3>1. Plan(r)' = Plan(r)  BY DEF Plan
      <3>2. lanes'[r][l] = [step |-> n, at |-> place]  BY <1>2
      <3>3. PostedAt(d, lanes'[r][l], i) <=> PostedAt(d, lanes[r][l], i)  BY <2>1, <1>4, <3>2
      <3>4. QED  BY <3>1, <3>3, <2>1 DEF LanePending
    <2>2. CASE ~(x = r /\ m = l)
      <3>1. lanes'[x][m] = lanes[x][m]  BY <2>2, <1>2
      <3>2. QED  BY <3>1, LanePendingKept
    <2>3. QED  BY <2>1, <2>2
  <1>5. QED  BY <1>3, <1>4 DEF LaneKept

(* A lane posts what it sends or receives in the step it is at. *)
LEMMA PostPending ==
    ASSUME GroupInv, UNCHANGED <<job, plan, call>>, NEW d \in Ways,
           NEW r \in Ranks, NEW l \in DOMAIN lanes[r], NEW n, NEW place, Goto(r, l, n, place),
           NEW s, s = lanes[r][l].step, s \in DOMAIN Plan(r)[l].steps,
           QueueOf(d)' = Conn!Posted(QueueOf(d), EndOf(d, Plan(r)[l]), Id(call[r], l, s),
                                     MovedBy(d, Plan(r)[l].steps[s])),
           ~PostedAt(d, lanes[r][l], s),
           \A i \in DOMAIN Plan(r)[l].steps :
              PostedAt(d, [step |-> n, at |-> place], i) <=> PostedAt(d, lanes[r][l], i) \/ i = s
    PROVE  LaneKept(d)
  <1>1. GroupTypeOK /\ LanesInPlan  BY DEF GroupInv
  <1>2. /\ \A x \in Ranks : DOMAIN lanes'[x] = DOMAIN lanes[x]
        /\ \A x \in Ranks : \A m \in DOMAIN lanes[x] :
              lanes'[x][m] = IF x = r /\ m = l THEN [step |-> n, at |-> place] ELSE lanes[x][m]
        /\ lanes'[r] # <<>> /\ \A x \in Ranks \ {r} : lanes'[x] = lanes[x]
    BY <1>1, GotoFacts
  <1>3. \A x \in Ranks : lanes'[x] = <<>> <=> lanes[x] = <<>>  BY <1>2, SomeLane
  <1> DEFINE E == EndOf(d, Plan(r)[l])
             cells == MovedBy(d, Plan(r)[l].steps[s])
             new == Conn!NewRequest(Id(call[r], l, s), cells)
  <1>4. /\ E \in JobEnds /\ E \in Ends /\ E[2] = r
        /\ \A x \in Ranks : \A m \in DOMAIN lanes[x] :
              lanes[x] # <<>> /\ (x # r \/ m # l) => EndOf(d, Plan(x)[m]) # E
    BY <1>1, SomeLane, WayEnds
  <1>5. QueueOf(d) \in Queues  BY <1>1 DEF GroupTypeOK, QueueOf, Queues
  <1>6. cells \in Seq(Cells) /\ Len(cells) \in Nat /\ DOMAIN cells = 1..Len(cells)
    BY <1>1, PlanSteps
  <1>7. \A f \in Ends : f # E => QueueOf(d)'[f] = QueueOf(d)[f]
    BY <1>5, <1>4 DEF Conn!Posted, Queues
  <1>8. cells # <<>> => QueueOf(d)'[E] = Append(QueueOf(d)[E], new)
    BY <1>5, <1>4 DEF Conn!Posted, Queues
  <1>9. cells = <<>> => QueueOf(d)'[E] = QueueOf(d)[E]
    BY <1>5, <1>4 DEF Conn!Posted, Queues
  <1>10. new.id = Id(call[r], l, s) /\ new.cells = cells  BY DEF Conn!NewRequest
  <1>14. new \in Request
    <2>1. call[r] \in Nat /\ l \in Nat  BY <1>1, LaneFacts
    <2>2. s \in Nat  BY <1>1, PlanSteps
    <2>3. Id(call[r], l, s) \in Nat \X Nat \X Nat  BY <2>1, <2>2, IdFacts
    <2> HIDE DEF cells
    <2>4. QED  BY <2>3, <1>6 DEF Conn!NewRequest, Request
  <1>11. cells # <<>> => Range(QueueOf(d)'[E]) = Range(QueueOf(d)[E]) \cup {new}
    <2> SUFFICES ASSUME cells # <<>> PROVE Range(Append(QueueOf(d)[E], new)) = Range(QueueOf(d)[E]) \cup {new}
      BY <1>8
    <2>1. QueueOf(d)[E] \in Seq(Request)  BY <1>4, <1>5 DEF Queues
    <2> DEFINE Q == QueueOf(d)[E]
    <2> HIDE DEF Q, new
    <2>2. Q \in Seq(Request)  BY <2>1 DEF Q
    <2>5. new \in Request  BY <1>14 DEF new
    <2>3. Range(Append(Q, new)) = Range(Q) \cup {new}  BY <2>2, <2>5, AppendIsRange
    <2>4. QED  BY <2>3 DEF Q
  <1>12. ASSUME NEW x \in Ranks, NEW m \in DOMAIN lanes[x], NEW i \in DOMAIN Plan(x)[m].steps,
                NEW k \in DOMAIN MovedBy(d, Plan(x)[m].steps[i])
        PROVE  LanePending(d, x, m, i, k)' <=> LanePending(d, x, m, i, k)
    <2>1. CASE x = r /\ m = l /\ i # s
      <3>1. Plan(r)' = Plan(r)  BY DEF Plan
      <3>2. lanes'[r][l] = [step |-> n, at |-> place]  BY <1>2
      <3>3. PostedAt(d, lanes'[r][l], i) <=> PostedAt(d, lanes[r][l], i)  BY <2>1, <1>12, <3>2
      <3>4. new.id # Id(call[r], l, i)  BY <1>10, <2>1, IdFacts
      <3>5. \A q : q.id = Id(call[r], l, i) => (q \in Range(QueueOf(d)'[E]) <=> q \in Range(QueueOf(d)[E]))
        BY <1>9, <1>11, <3>4
      <3>6. QED  BY <3>1, <3>3, <3>5, <2>1 DEF LanePending
    <2>2. CASE x = r /\ m = l /\ i = s
      <3>1. Plan(r)' = Plan(r)  BY DEF Plan
      <3>2. LanePending(d, r, l, s, k)  BY DEF LanePending
      <3>3. k \in 1..Len(cells) /\ cells # <<>>  BY <1>6, <1>12, <2>2
      <3> HIDE DEF new, cells, E
      <3>4. new \in Range(QueueOf(d)'[E])  BY <3>3, <1>11
      <3>8. new.cells = cells /\ Len(cells) \in Nat  BY <1>10, <1>6
      <3>5. k + Len(new.cells) > Len(cells)  BY <3>3, <3>8
      <3>9. QueueOf(d)'[E] = QueueOf(d)'[EndOf(d, Plan(r)'[l])] /\ cells = MovedBy(d, Plan(r)'[l].steps[s])
        BY <3>1 DEF E, cells
      <3>10. new.id = Id(call'[r], l, s)  BY <1>10
      <3>6. LanePending(d, r, l, s, k)'  BY <3>4, <3>5, <3>9, <3>10 DEF LanePending
      <3>7. QED  BY <2>2, <3>2, <3>6
    <2>3. CASE ~(x = r /\ m = l)
      <3>1. lanes'[x][m] = lanes[x][m] /\ lanes[x] # <<>>  BY <2>3, <1>2, SomeLane
      <3>2. EndOf(d, Plan(x)[m]) # E  BY <2>3, <1>4, <3>1
      <3>3. EndOf(d, Plan(x)[m]) \in Ends  BY <1>1, <3>1, WayEnds
      <3>4. QueueOf(d)'[EndOf(d, Plan(x)[m])] = QueueOf(d)[EndOf(d, Plan(x)[m])]
        BY <1>7, <3>2, <3>3
      <3>5. QED  BY <3>1, <3>4, LanePendingKept
    <2>4. QED  BY <2>1, <2>2, <2>3
  <1>13. QED  BY <1>3, <1>12 DEF LaneKept

-----------------------------------------------------------------------------
(* What lanes have moved *)

(* Nothing has been moved. *)
PendingKept == \A d \in Ways : \A e \in JobEnds : Pending(d, e)' = Pending(d, e)

LEMMA WayFacts ==
    /\ Ways = {"send", "recv"}
    /\ QueueOf("send") = sends /\ QueueOf("recv") = recvs
    /\ \A L : EndOf("send", L) = L.to /\ EndOf("recv", L) = L.from
    /\ \A s : MovedBy("send", s) = s.send /\ MovedBy("recv", s) = s.recv
    /\ \A s, i : PostedAt("send", s, i) <=> i < s.step \/ (i = s.step /\ s.at \in {"recv", "wait"})
    /\ \A s, i : PostedAt("recv", s, i) <=> i < s.step \/ (i = s.step /\ s.at \in {"wait"})
  BY DEF Ways, QueueOf, EndOf, MovedBy, PostedAt

LEMMA KeptPending ==
    ASSUME GroupInv, UNCHANGED <<job, plan, call>>, LanesKept
    PROVE  PendingKept
  BY PendingSame DEF LanesKept, PendingKept

LEMMA StepSendPending ==
    ASSUME GroupInv, NEW r \in Ranks, NEW l \in DOMAIN lanes[r], StepSend(r, l)
    PROVE  LanesKept
  <1>1. GroupTypeOK /\ LanesInPlan  BY DEF GroupInv
  <1>2. PICK s, place : s = lanes[r][l].step /\ place = "recv"  OBVIOUS
  <1>3. /\ UNCHANGED <<job, plan, call>> /\ Goto(r, l, s, place) /\ lanes[r][l].at = "send" /\ recvs' = recvs
        /\ sends' = Conn!Posted(sends, Plan(r)[l].to, Id(call[r], l, s), Plan(r)[l].steps[s].send)
    BY <1>2 DEF StepSend, At, setupVars, Conn!PostSend, Id
  <1>4. AtStep(Plan(r)[l], lanes[r][l]) /\ DOMAIN Plan(r)[l].steps = 1..Len(Plan(r)[l].steps)
        /\ Len(Plan(r)[l].steps) \in Nat
    BY <1>1, LaneFacts
  <1>5. s \in DOMAIN Plan(r)[l].steps /\ s \in Nat  BY <1>4, <1>3, <1>2 DEF AtStep
  <1>6. LaneKept("send")
    <2>1. ~PostedAt("send", lanes[r][l], s)  BY <1>2, <1>3, <1>5, WayFacts
    <2>2. \A i \in DOMAIN Plan(r)[l].steps :
             PostedAt("send", [step |-> s, at |-> place], i) <=> PostedAt("send", lanes[r][l], i) \/ i = s
      BY <1>2, <1>3, <1>5, WayFacts
    <2>3. QueueOf("send")' = Conn!Posted(QueueOf("send"), EndOf("send", Plan(r)[l]), Id(call[r], l, s),
                                         MovedBy("send", Plan(r)[l].steps[s]))
      BY <1>3, WayFacts DEF QueueOf
    <2>4. "send" \in Ways  BY WayFacts
    <2>5. UNCHANGED <<job, plan, call>> /\ Goto(r, l, s, place)  BY <1>3
    <2>6. s = lanes[r][l].step /\ s \in DOMAIN Plan(r)[l].steps  BY <1>2, <1>5
    <2>7. QED  BY <2>1, <2>2, <2>3, <2>4, <2>5, <2>6, PostPending
  <1>7. LaneKept("recv")
    <2>1. \A i \in DOMAIN Plan(r)[l].steps :
             PostedAt("recv", [step |-> s, at |-> place], i) <=> PostedAt("recv", lanes[r][l], i)
      BY <1>2, <1>3, <1>5, WayFacts
    <2>2. QueueOf("recv")' = QueueOf("recv") /\ "recv" \in Ways  BY <1>3 DEF QueueOf, Ways
    <2>3. UNCHANGED <<job, plan, call>> /\ Goto(r, l, s, place)  BY <1>3
    <2>4. QED  BY <2>1, <2>2, <2>3, IdlePending
  <1>8. QED  BY <1>6, <1>7, WayFacts DEF LanesKept

(* A lane goes to where it has posted all up to step t. *)
LEMMA AfterPosted ==
    ASSUME NEW L, NEW t \in Nat, NEW n, NEW place, [step |-> n, at |-> place] = After(L, t)
    PROVE  /\ n = t + 1 /\ place \in {"send", "last"}
           /\ \A d \in Ways, i \in Nat : PostedAt(d, [step |-> n, at |-> place], i) <=> i <= t
  <1>1. n = [step |-> n, at |-> place].step /\ place = [step |-> n, at |-> place].at  OBVIOUS
  <1>2. n = t + 1 /\ place \in {"send", "last"}  BY <1>1 DEF After
  <1>3. QED  BY <1>2 DEF PostedAt

LEMMA StepRecvPending ==
    ASSUME GroupInv, NEW r \in Ranks, NEW l \in DOMAIN lanes[r], StepRecv(r, l)
    PROVE  LanesKept
  <1>1. GroupTypeOK /\ LanesInPlan  BY DEF GroupInv
  <1>2. PICK s : s = lanes[r][l].step  OBVIOUS
  <1>3. /\ UNCHANGED <<job, plan, call>> /\ lanes[r][l].at = "recv" /\ sends' = sends
        /\ recvs' = Conn!Posted(recvs, Plan(r)[l].from, Id(call[r], l, s), Plan(r)[l].steps[s].recv)
        /\ Goto(r, l, s, "wait") \/ NextStep(r, l, s)
    BY <1>2 DEF StepRecv, At, setupVars, Conn!PostRecv, Id
  <1>4. AtStep(Plan(r)[l], lanes[r][l]) /\ DOMAIN Plan(r)[l].steps = 1..Len(Plan(r)[l].steps)
        /\ Len(Plan(r)[l].steps) \in Nat
    BY <1>1, LaneFacts
  <1>5. s \in DOMAIN Plan(r)[l].steps /\ s \in Nat  BY <1>4, <1>3, <1>2 DEF AtStep
  <1>6. PICK n, place : /\ Goto(r, l, n, place)
                        /\ \A d \in Ways, i \in Nat : PostedAt(d, [step |-> n, at |-> place], i) <=> i <= s
    <2>1. CASE Goto(r, l, s, "wait")
      <3>1. PICK place : place = "wait"  OBVIOUS
      <3>2. \A d \in Ways, i \in Nat : PostedAt(d, [step |-> s, at |-> place], i) <=> i <= s
        BY <3>1, <1>5 DEF PostedAt
      <3>3. Goto(r, l, s, place)  BY <2>1, <3>1
      <3>4. QED  BY <3>2, <3>3
    <2>2. CASE NextStep(r, l, s)
      <3>1. PICK n, place : Goto(r, l, n, place) /\ [step |-> n, at |-> place] = After(Plan(r)[l], s)
        BY <2>2, NextStepGoes
      <3>2. QED  BY <3>1, <1>5, AfterPosted
    <2>3. QED  BY <2>1, <2>2, <1>3
  <1>7. LaneKept("recv")
    <2>1. ~PostedAt("recv", lanes[r][l], s)  BY <1>2, <1>3, <1>5, WayFacts
    <2>2. \A i \in DOMAIN Plan(r)[l].steps :
             PostedAt("recv", [step |-> n, at |-> place], i) <=> PostedAt("recv", lanes[r][l], i) \/ i = s
      <3>1. \A i \in DOMAIN Plan(r)[l].steps : i \in Nat  BY <1>4
      <3>2. \A i \in Nat : PostedAt("recv", lanes[r][l], i) <=> i < s  BY <1>2, <1>3, <1>5, WayFacts
      <3>3. QED  BY <3>1, <3>2, <1>5, <1>6, WayFacts
    <2>3. QueueOf("recv")' = Conn!Posted(QueueOf("recv"), EndOf("recv", Plan(r)[l]), Id(call[r], l, s),
                                         MovedBy("recv", Plan(r)[l].steps[s]))
      BY <1>3, WayFacts DEF QueueOf
    <2>4. "recv" \in Ways  BY WayFacts
    <2>5. UNCHANGED <<job, plan, call>> /\ Goto(r, l, n, place)  BY <1>3, <1>6
    <2>6. s = lanes[r][l].step /\ s \in DOMAIN Plan(r)[l].steps  BY <1>2, <1>5
    <2>7. QED  BY <2>1, <2>2, <2>3, <2>4, <2>5, <2>6, PostPending
  <1>8. LaneKept("send")
    <2>1. \A i \in DOMAIN Plan(r)[l].steps :
             PostedAt("send", [step |-> n, at |-> place], i) <=> PostedAt("send", lanes[r][l], i)
      <3>1. \A i \in DOMAIN Plan(r)[l].steps : i \in Nat  BY <1>4
      <3>2. \A i \in Nat : PostedAt("send", lanes[r][l], i) <=> i <= s
        BY <1>2, <1>3, <1>5, WayFacts
      <3>3. QED  BY <3>1, <3>2, <1>5, <1>6, WayFacts
    <2>2. QueueOf("send")' = QueueOf("send") /\ "send" \in Ways  BY <1>3 DEF QueueOf, Ways
    <2>3. UNCHANGED <<job, plan, call>> /\ Goto(r, l, n, place)  BY <1>3, <1>6
    <2>4. QED  BY <2>1, <2>2, <2>3, IdlePending
  <1>9. QED  BY <1>7, <1>8, WayFacts DEF LanesKept

LEMMA StepWaitPending ==
    ASSUME GroupInv, NEW r \in Ranks, NEW l \in DOMAIN lanes[r], StepWait(r, l)
    PROVE  LanesKept
  <1>1. GroupTypeOK /\ LanesInPlan  BY DEF GroupInv
  <1>2. PICK s : s = lanes[r][l].step  OBVIOUS
  <1>3. /\ UNCHANGED <<job, plan, call>> /\ lanes[r][l].at = "wait" /\ sends' = sends
        /\ recvs' = recvs /\ NextStep(r, l, s)
    BY <1>2 DEF StepWait, At, setupVars
  <1>4. AtStep(Plan(r)[l], lanes[r][l]) /\ DOMAIN Plan(r)[l].steps = 1..Len(Plan(r)[l].steps)
        /\ Len(Plan(r)[l].steps) \in Nat
    BY <1>1, LaneFacts
  <1>5. s \in Nat  BY <1>4, <1>2 DEF AtStep
  <1>6. PICK n, place : Goto(r, l, n, place) /\ [step |-> n, at |-> place] = After(Plan(r)[l], s)
    BY <1>3, NextStepGoes
  <1>7. \A d \in Ways, i \in Nat : PostedAt(d, [step |-> n, at |-> place], i) <=> i <= s
    BY <1>6, <1>5, AfterPosted
  <1>8. ASSUME NEW d \in Ways PROVE LaneKept(d)
    <2>1. \A i \in Nat : PostedAt(d, lanes[r][l], i) <=> i <= s  BY <1>2, <1>3, <1>5 DEF PostedAt
    <2>2. \A i \in DOMAIN Plan(r)[l].steps : i \in Nat  BY <1>4
    <2>3. \A i \in DOMAIN Plan(r)[l].steps :
             PostedAt(d, [step |-> n, at |-> place], i) <=> PostedAt(d, lanes[r][l], i)
      BY <2>1, <2>2, <1>7
    <2>4. QueueOf(d)' = QueueOf(d)  BY <1>3 DEF QueueOf
    <2>5. UNCHANGED <<job, plan, call>> /\ Goto(r, l, n, place)  BY <1>3, <1>6
    <2>6. QED  BY <2>3, <2>4, <2>5, IdlePending
  <1>9. QED  BY <1>8 DEF LanesKept

LEMMA LastWaitPending ==
    ASSUME GroupInv, NEW r \in Ranks, NEW l \in DOMAIN lanes[r], LastWait(r, l)
    PROVE  LanesKept
  <1>1. GroupTypeOK /\ LanesInPlan  BY DEF GroupInv
  <1>2. PICK s, place : s = lanes[r][l].step /\ place = "done"  OBVIOUS
  <1>3. /\ UNCHANGED <<job, plan, call>> /\ lanes[r][l].at = "last" /\ sends' = sends
        /\ recvs' = recvs /\ Goto(r, l, s, place)
    BY <1>2 DEF LastWait, At, setupVars, duplexVars
  <1>4. ASSUME NEW d \in Ways PROVE LaneKept(d)
    <2>1. \A i \in DOMAIN Plan(r)[l].steps :
             PostedAt(d, [step |-> s, at |-> place], i) <=> PostedAt(d, lanes[r][l], i)
      BY <1>2, <1>3 DEF PostedAt
    <2>2. QueueOf(d)' = QueueOf(d)  BY <1>3 DEF QueueOf
    <2>3. UNCHANGED <<job, plan, call>> /\ Goto(r, l, s, place)  BY <1>3
    <2>4. QED  BY <2>1, <2>2, <2>3, IdlePending
  <1>5. QED  BY <1>4 DEF LanesKept

(* Nothing has happened to the lanes and the queues. *)
LEMMA StillPending ==
    ASSUME GroupInv, UNCHANGED <<job, plan, call, lanes>>, NEW d \in Ways, QueueOf(d)' = QueueOf(d)
    PROVE  LaneKept(d)
  <1>1. \A r \in Ranks : \A l, i, k : LanePending(d, r, l, i, k)' <=> LanePending(d, r, l, i, k)
    BY LanePendingKept
  <1>2. QED  BY <1>1 DEF LaneKept

LEMMA SetupPending == ASSUME GroupInv, NEW r \in Ranks, Setup(r) PROVE LanesKept
  <1>1. UNCHANGED <<job, plan, call, lanes, sends, recvs>>
    BY DEF Setup, Listen, Accept, Connect, ConnectFails, callVars, duplexVars
  <1>2. \A d : QueueOf(d)' = QueueOf(d)  BY <1>1 DEF QueueOf
  <1>3. QED  BY <1>1, <1>2, StillPending DEF LanesKept

(* A call starts, or has ended: nothing of it has been moved, or all has.   *)
LEMMA RankPending ==
    ASSUME GroupInv, UNCHANGED <<job, plan, sends, recvs>>, NEW r \in Ranks,
           \A x \in Ranks \ {r} : call'[x] = call[x] /\ lanes'[x] = lanes[x],
           \A d \in Ways : \A c, l, t :
              /\ c \in DOMAIN job.calls[r] /\ l \in DOMAIN Lanes(job, r, c)
              /\ t.step \in DOMAIN Lanes(job, r, c)[l].steps
              /\ t.cell \in DOMAIN MovedBy(d, Lanes(job, r, c)[l].steps[t.step])
              => ((c > call'[r] \/ (c = call'[r] /\ lanes'[r] # <<>> /\ LanePending(d, r, l, t.step, t.cell)'))
                  <=> (c > call[r] \/ (c = call[r] /\ lanes[r] # <<>> /\ LanePending(d, r, l, t.step, t.cell))))
    PROVE  PendingKept
  <1> SUFFICES ASSUME NEW d \in Ways, NEW e \in JobEnds PROVE Pending(d, e)' = Pending(d, e)
    BY DEF PendingKept
  <1>1. e[2] \in Ranks  BY JobEndFacts DEF GroupInv
  <1>2. ASSUME NEW c, NEW l, NEW t \in Tags, Moves(job, d, e, c, l, t)
        PROVE  StillMoves(d, e, c, l, t)' <=> StillMoves(d, e, c, l, t)
    <2>1. CASE e[2] = r  BY <2>1, <1>2 DEF Moves, StillMoves
    <2>2. CASE e[2] # r
      <3>1. call'[e[2]] = call[e[2]] /\ lanes'[e[2]] = lanes[e[2]]  BY <2>2, <1>1
      <3>2. QueueOf(d)' = QueueOf(d)  BY DEF QueueOf
      <3>3. Plan(e[2])' = Plan(e[2])  BY <3>1 DEF Plan
      <3>4. LanePending(d, e[2], l, t.step, t.cell)' <=> LanePending(d, e[2], l, t.step, t.cell)
        BY <3>1, <3>2, <3>3 DEF LanePending
      <3>5. QED  BY <3>1, <3>4 DEF StillMoves
    <2>3. QED  BY <2>1, <2>2
  <1>3. \A c, l, t : Moves(job', d, e, c, l, t) = Moves(job, d, e, c, l, t)  BY MovesSame
  <1>4. QED  BY <1>2, <1>3 DEF Pending

(* A lane that is done has nothing left. *)
LEMMA DonePending ==
    ASSUME GroupInv, NEW r \in Ranks, NEW l \in DOMAIN lanes[r], lanes[r][l].at = "done",
           NEW d \in Ways, NEW i \in DOMAIN Plan(r)[l].steps, NEW k
    PROVE  ~LanePending(d, r, l, i, k)
  <1>1. GroupTypeOK /\ LanesInPlan /\ QueuesInWindow  BY DEF GroupInv
  <1>2. AtStep(Plan(r)[l], lanes[r][l]) /\ DOMAIN Plan(r)[l].steps = 1..Len(Plan(r)[l].steps)
        /\ Len(Plan(r)[l].steps) \in Nat
    BY <1>1, LaneFacts
  <1>3. PostedAt(d, lanes[r][l], i)  BY <1>2 DEF AtStep, PostedAt
  <1> DEFINE e == EndOf(d, Plan(r)[l])
  <1>4. e \in JobEnds /\ e \in Ends /\ e[2] = r  BY <1>1, SomeLane, WayEnds
  <1>5. ASSUME NEW q \in Range(QueueOf(d)[e]), q.id = Id(call[r], l, i) PROVE FALSE
    <2>1. q.id[2] = l  BY <1>5, IdFacts
    <2>2. CASE d = "send"
      <3>1. SendOk(e, q)  BY <2>2, <1>1, <1>4 DEF QueuesInWindow, QueueOf
      <3>2. q.id[3] \in SendWindow(Plan(r)[l], lanes[r][l])  BY <3>1, <2>1, <1>4 DEF SendOk
      <3>3. QED  BY <3>2 DEF SendWindow
    <2>3. CASE d = "recv"
      <3>1. RecvOk(e, q)  BY <2>3, <1>1, <1>4 DEF QueuesInWindow, QueueOf
      <3>2. q.id[3] \in RecvWindow(Plan(r)[l], lanes[r][l])  BY <3>1, <2>1, <1>4 DEF RecvOk
      <3>3. QED  BY <3>2 DEF RecvWindow
    <2>4. QED  BY <2>2, <2>3 DEF Ways
  <1>6. QED  BY <1>3, <1>5 DEF LanePending

LEMMA FinishPending == ASSUME GroupInv, NEW r \in Ranks, Finish(r) PROVE PendingKept
  <1>1. GroupTypeOK /\ LanesInPlan  BY DEF GroupInv
  <1>2. /\ UNCHANGED <<job, plan, call, sends, recvs>> /\ lanes[r] # <<>>
        /\ \A l \in DOMAIN lanes[r] : lanes[r][l].at = "done"
        /\ lanes' = [lanes EXCEPT ![r] = <<>>]
    BY DEF Finish, setupVars, duplexVars
  <1>3. DOMAIN lanes = Ranks  BY <1>1 DEF GroupTypeOK
  <1>4. lanes'[r] = <<>> /\ \A x \in Ranks \ {r} : lanes'[x] = lanes[x]  BY <1>2, <1>3
  <1>5. Plan(r) = Lanes(job, r, call[r]) /\ DOMAIN lanes[r] = DOMAIN Lanes(job, r, call[r])
    BY <1>1, <1>2, LaneIs
  <1>6. ASSUME NEW d \in Ways, NEW l \in DOMAIN lanes[r], NEW i \in DOMAIN Plan(r)[l].steps, NEW k
        PROVE  ~LanePending(d, r, l, i, k)
    BY <1>2, DonePending
  <1>7. QED  BY <1>2, <1>4, <1>5, <1>6, RankPending

LEMMA StartPending == ASSUME GroupInv, NEW r \in Ranks, Start(r) PROVE PendingKept
  <1>1. GroupTypeOK /\ LanesInPlan  BY DEF GroupInv
  <1> DEFINE c == call[r] + 1
  <1>2. /\ UNCHANGED <<job, plan, sends, recvs>> /\ lanes[r] = <<>> /\ c \in DOMAIN job.calls[r]
        /\ call' = [call EXCEPT ![r] = c]
        /\ lanes' = [lanes EXCEPT ![r] = [l \in DOMAIN plan[r][c] |-> [step |-> 1, at |-> "send"]]]
    BY DEF Start, setupVars
  <1>3. DOMAIN lanes = Ranks /\ call \in [Ranks -> Nat] /\ job \in Jobs
        /\ plan = [x \in Ranks |-> [d \in DOMAIN job.calls[x] |-> Lanes(job, x, d)]]
    BY <1>1 DEF GroupTypeOK
  <1>4. plan[r][c] = Lanes(job, r, c)  BY <1>2, <1>3
  <1>5. /\ call'[r] = c /\ lanes'[r] = [l \in DOMAIN Lanes(job, r, c) |-> [step |-> 1, at |-> "send"]]
        /\ \A x \in Ranks \ {r} : call'[x] = call[x] /\ lanes'[x] = lanes[x]
    BY <1>2, <1>3, <1>4
  <1>6. ASSUME NEW d \in Ways, NEW l \in DOMAIN Lanes(job, r, c), NEW i \in DOMAIN Lanes(job, r, c)[l].steps, NEW k
        PROVE  LanePending(d, r, l, i, k)' /\ lanes'[r] # <<>>
    <2>1. lanes'[r][l].step = 1 /\ lanes'[r][l].at = "send"  BY <1>5
    <2>2. i \in Nat \ {0}  BY <1>2, <1>3, StepFacts DEF Ranks
    <2>3. ~PostedAt(d, lanes'[r][l], i)  BY <2>1, <2>2 DEF PostedAt
    <2>4. lanes'[r] # <<>>  BY <1>5
    <2>5. QED  BY <2>3, <2>4 DEF LanePending
  <1>7. \A x \in DOMAIN job.calls[r] : x \in Nat  BY <1>3, CallFacts DEF Ranks
  <1>8. call[r] \in Nat /\ c = call[r] + 1 /\ call'[r] = c  BY <1>3, <1>5
  <1> HIDE DEF c
  <1>9. \A x \in DOMAIN job.calls[r] : x > call[r] <=> x > c \/ x = c  BY <1>7, <1>8
  <1>10. ASSUME NEW d \in Ways, NEW x, NEW l, NEW t,
                /\ x \in DOMAIN job.calls[r] /\ l \in DOMAIN Lanes(job, r, x)
                /\ t.step \in DOMAIN Lanes(job, r, x)[l].steps
                /\ t.cell \in DOMAIN MovedBy(d, Lanes(job, r, x)[l].steps[t.step])
         PROVE  (x > call'[r] \/ (x = call'[r] /\ lanes'[r] # <<>> /\ LanePending(d, r, l, t.step, t.cell)'))
                    <=> (x > call[r] \/ (x = call[r] /\ lanes[r] # <<>> /\ LanePending(d, r, l, t.step, t.cell)))
    <2>1. CASE x = c
      <3>1. LanePending(d, r, l, t.step, t.cell)' /\ lanes'[r] # <<>>  BY <2>1, <1>10, <1>6
      <3>2. QED  BY <3>1, <2>1, <1>8, <1>9, <1>10
    <2>2. CASE x # c  BY <2>2, <1>8, <1>9, <1>10, <1>2
    <2>3. QED  BY <2>1, <2>2
  <1>11. QED  BY <1>2, <1>5, <1>10, RankPending

LEMMA HeadTailRange ==
    ASSUME NEW S, NEW q \in Seq(S), q # <<>>
    PROVE  Range(q) = {Head(q)} \cup Range(Tail(q))
  <1>1. /\ Len(q) \in Nat /\ Len(q) >= 1 /\ DOMAIN q = 1..Len(q) /\ DOMAIN Tail(q) = 1..Len(q) - 1
        /\ \A n \in 1..Len(q) - 1 : Tail(q)[n] = q[n + 1]
        /\ Head(q) = q[1]
    OBVIOUS
  <1>2. \A n \in 1..Len(q) : n = 1 \/ (n - 1 \in 1..Len(q) - 1 /\ (n - 1) + 1 = n)  BY <1>1
  <1>3. \A n \in 1..Len(q) - 1 : n + 1 \in 1..Len(q)  BY <1>1
  <1>4. Range(q) \subseteq {Head(q)} \cup Range(Tail(q))
    <2> SUFFICES ASSUME NEW n \in 1..Len(q), n # 1 PROVE q[n] \in Range(Tail(q))  BY <1>1 DEF Range
    <2>1. n - 1 \in DOMAIN Tail(q) /\ Tail(q)[n - 1] = q[n]  BY <1>1, <1>2
    <2>2. QED  BY <2>1 DEF Range
  <1>5. Range(Tail(q)) \subseteq Range(q)  BY <1>1, <1>3 DEF Range
  <1>6. Head(q) \in Range(q)  BY <1>1 DEF Range
  <1>7. QED  BY <1>4, <1>5, <1>6

(* The worker forgets a request of which nothing is left. *)
LEMMA RetirePending ==
    ASSUME GroupInv, UNCHANGED <<job, plan, call, lanes>>, NEW d \in Ways, NEW e \in Ends,
           QueueOf(d)[e] # <<>>, Head(QueueOf(d)[e]).cells = <<>>,
           QueueOf(d)' = [QueueOf(d) EXCEPT ![e] = Tail(QueueOf(d)[e])]
    PROVE  LaneKept(d)
  <1>1. GroupTypeOK /\ LanesInPlan  BY DEF GroupInv
  <1> DEFINE Q == QueueOf(d)
  <1>2. Q \in Queues  BY <1>1 DEF GroupTypeOK, QueueOf, Queues
  <1>3. Q[e] \in Seq(Request) /\ DOMAIN Q = Ends  BY <1>2 DEF Queues
  <1>4. Q'[e] = Tail(Q[e]) /\ \A f \in Ends \ {e} : Q'[f] = Q[f]  BY <1>3
  <1>5. Range(Q[e]) = {Head(Q[e])} \cup Range(Tail(Q[e]))  BY <1>3, HeadTailRange
  <1>6. ASSUME NEW r \in Ranks, NEW l \in DOMAIN lanes[r], NEW i \in DOMAIN Plan(r)[l].steps,
               NEW k \in DOMAIN MovedBy(d, Plan(r)[l].steps[i])
        PROVE  LanePending(d, r, l, i, k)' <=> LanePending(d, r, l, i, k)
    <2> DEFINE f == EndOf(d, Plan(r)[l])
    <2>1. f \in Ends  BY <1>1, SomeLane, WayEnds
    <2>2. CASE f # e  BY <2>2, <2>1, <1>4, LanePendingKept
    <2>3. CASE f = e
      <3>1. Plan(r)' = Plan(r)  BY DEF Plan
      <3>2. k <= Len(MovedBy(d, Plan(r)[l].steps[i])) /\ k \in Nat  BY <1>1, <1>6, PlanSteps
      <3>3. Len(Head(Q[e]).cells) = 0  OBVIOUS
      <3>4. ~(k + Len(Head(Q[e]).cells) > Len(MovedBy(d, Plan(r)[l].steps[i])))
        <4>1. Len(MovedBy(d, Plan(r)[l].steps[i])) \in Nat  BY <1>1, PlanSteps
        <4>2. QED  BY <3>2, <3>3, <4>1
      <3>5. QED  BY <3>1, <3>4, <1>4, <1>5, <2>3 DEF LanePending
    <2>4. QED  BY <2>2, <2>3
  <1>7. QED  BY <1>6 DEF LaneKept

-----------------------------------------------------------------------------
(* What is pending *)

(* A request belongs to a step that its lane has posted. *)
LEMMA RequestOk ==
    ASSUME GroupInv, NEW d \in Ways, NEW e \in JobEnds, NEW q \in Range(QueueOf(d)[e])
    PROVE  LET r == e[2]
               l == q.id[2]
               i == q.id[3]
           IN  /\ q \in Request /\ q.id = Id(call[r], l, i) /\ r \in Ranks /\ l \in DOMAIN lanes[r]
               /\ EndOf(d, Plan(r)[l]) = e /\ i \in DOMAIN Plan(r)[l].steps
               /\ PostedAt(d, lanes[r][l], i)
  <1>1. GroupTypeOK /\ LanesInPlan /\ QueuesInWindow  BY DEF GroupInv
  <1>2. e \in Ends /\ e[2] \in Ranks  BY <1>1, JobEndFacts
  <1>3. QueueOf(d)[e] \in Seq(Request)  BY <1>1, <1>2 DEF GroupTypeOK, QueueOf
  <1>4. q \in Request  BY <1>3, RangeWithin
  <1>5. q.id = Id(q.id[1], q.id[2], q.id[3])  BY <1>4, RequestFacts, IdIs
  <1> DEFINE r == e[2]
             l == q.id[2]
             i == q.id[3]
  <1>6. CASE d = "send"
    <2>1. SendOk(e, q)  BY <1>6, <1>1, <1>2 DEF QueuesInWindow, QueueOf
    <2>2. /\ q.id[1] = call[r] /\ l \in DOMAIN lanes[r] /\ Plan(r)[l].to = e
          /\ i \in SendWindow(Plan(r)[l], lanes[r][l]) /\ i \in DOMAIN Plan(r)[l].steps
      BY <2>1 DEF SendOk
    <2>3. AtStep(Plan(r)[l], lanes[r][l]) /\ Plan(r)[l].lag \in {0, 1}
      BY <1>1, <1>2, <2>2, LaneFacts
    <2>4. i < lanes[r][l].step \/ (i = lanes[r][l].step /\ lanes[r][l].at \in {"recv", "wait"})
      BY <2>2, <2>3 DEF SendWindow, AtStep
    <2>5. PostedAt(d, lanes[r][l], i)  BY <2>4, <1>6 DEF PostedAt
    <2>6. EndOf(d, Plan(r)[l]) = e  BY <2>2, <1>6 DEF EndOf
    <2>7. q.id = Id(call[r], l, i)  BY <1>5, <2>2
    <2>8. QED  BY <1>2, <1>4, <2>2, <2>5, <2>6, <2>7
  <1>7. CASE d = "recv"
    <2>1. RecvOk(e, q)  BY <1>7, <1>1, <1>2 DEF QueuesInWindow, QueueOf
    <2>2. /\ q.id[1] = call[r] /\ l \in DOMAIN lanes[r] /\ Plan(r)[l].from = e
          /\ i \in RecvWindow(Plan(r)[l], lanes[r][l]) /\ i \in DOMAIN Plan(r)[l].steps
      BY <2>1 DEF RecvOk
    <2>3. AtStep(Plan(r)[l], lanes[r][l]) /\ Plan(r)[l].lag \in {0, 1}
      BY <1>1, <1>2, <2>2, LaneFacts
    <2>4. i < lanes[r][l].step \/ (i = lanes[r][l].step /\ lanes[r][l].at \in {"wait"})
      BY <2>2, <2>3 DEF RecvWindow, AtStep
    <2>5. PostedAt(d, lanes[r][l], i)  BY <2>4, <1>7 DEF PostedAt
    <2>6. EndOf(d, Plan(r)[l]) = e  BY <2>2, <1>7 DEF EndOf
    <2>7. q.id = Id(call[r], l, i)  BY <1>5, <2>2
    <2>8. QED  BY <1>2, <1>4, <2>2, <2>5, <2>6, <2>7
  <1>8. QED  BY <1>6, <1>7 DEF Ways

LEMMA PostedBefore ==
    ASSUME NEW d, NEW s, s.step \in Int, NEW i \in Int, NEW m \in Int, PostedAt(d, s, i), m <= i
    PROVE  PostedAt(d, s, m)
  BY DEF PostedAt

(* The first cell of the first request is the first that is pending. *)
LEMMA FirstIsFirst ==
    ASSUME AllMatched, GroupInv, QueueShape, NEW d \in Ways, NEW e \in JobEnds,
           QueueOf(d)[e] # <<>>, 1 <= Len(Head(QueueOf(d)[e]).cells)
    PROVE  LET q == Head(QueueOf(d)[e])
           IN  /\ FirstTag(d, e) \in Pending(d, e)
               /\ Moves(job, d, e, call[e[2]], q.id[2], FirstTag(d, e))
               /\ \A u \in Pending(d, e) : u = FirstTag(d, e) \/ Earlier(FirstTag(d, e), u)
  <1>1. GroupTypeOK /\ LanesInPlan  BY DEF GroupInv
  <1>2. e \in Ends /\ e[1] = job.ranks /\ e[2] \in Ranks /\ job \in Jobs  BY <1>1, JobEndFacts
  <1> DEFINE Q == QueueOf(d)[e]
             q == Head(Q)
             r == e[2]
             l == q.id[2]
             i == q.id[3]
             t == FirstTag(d, e)
             n == Len(StepCells(d, e, q))
  <1>3. Q \in Seq(Request) /\ DOMAIN Q = 1..Len(Q) /\ Len(Q) \in Nat /\ Len(Q) >= 1 /\ q = Q[1] /\ 1 \in DOMAIN Q
    BY <1>1, <1>2 DEF GroupTypeOK, QueueOf
  <1>4. q \in Range(Q)  BY <1>3 DEF Range
  <1>5. /\ q \in Request /\ q.id = Id(call[r], l, i) /\ l \in DOMAIN lanes[r]
        /\ EndOf(d, Plan(r)[l]) = e /\ i \in DOMAIN Plan(r)[l].steps
        /\ PostedAt(d, lanes[r][l], i)
    BY <1>4, RequestOk
  <1>6. /\ r \in RanksOf(job) /\ call[r] \in DOMAIN job.calls[r] /\ lanes[r] # <<>>
        /\ Plan(r) = Lanes(job, r, call[r]) /\ DOMAIN lanes[r] = DOMAIN Lanes(job, r, call[r])
    BY <1>1, <1>2, <1>5, LaneIs, SomeLane
  <1>7. /\ i \in Nat /\ n \in Nat /\ StepCells(d, e, q) = MovedBy(d, Plan(r)[l].steps[i])
        /\ DOMAIN MovedBy(d, Plan(r)[l].steps[i]) = 1..n
    <2>1. StepCells(d, e, q) = MovedBy(d, Plan(r)[l].steps[i])  BY DEF StepCells
    <2> HIDE DEF q, r, l, i
    <2>2. i \in Nat \ {0} /\ Len(MovedBy(d, Plan(r)[l].steps[i])) \in Nat
          /\ DOMAIN MovedBy(d, Plan(r)[l].steps[i]) = 1..Len(MovedBy(d, Plan(r)[l].steps[i]))
      BY <1>1, <1>2, <1>5, PlanSteps DEF r
    <2>3. QED  BY <2>1, <2>2 DEF n
  <1>8. RestOf(q.cells, StepCells(d, e, q)) /\ InOrder(Q)  BY <1>4 DEF QueueShape, ShapeOf
  <1>9. Len(q.cells) <= n /\ Len(q.cells) \in Nat /\ 1 <= Len(q.cells)
    BY <1>8, <1>5, RequestFacts DEF RestOf
  <1>10. t.round = Round(job)[r][call[r]] /\ t.step = i /\ t.cell = n - Len(q.cells) + 1
    BY DEF FirstTag
  <1>11. t.cell \in 1..n /\ t.cell + Len(q.cells) = n + 1  BY <1>7, <1>9, <1>10
  <1>12. Round(job)[r][call[r]] \in Nat  BY <1>2, <1>6, RoundFacts
  <1>13. t \in Tags
    <2>1. n - Len(q.cells) + 1 \in Nat  BY <1>10, <1>11
    <2>2. t = [round |-> Round(job)[r][call[r]], step |-> i, cell |-> n - Len(q.cells) + 1]
      BY DEF FirstTag
    <2> HIDE DEF t, n, q, i, r
    <2>3. QED  BY <1>7, <1>12, <2>1, <2>2 DEF Tags
  <1>19. r = e[2]  OBVIOUS
  <1> HIDE DEF t, q, r, l, i, n, Q
  <1>14. Moves(job, d, e, call[r], l, t)  BY <1>19, <1>5, <1>6, <1>7, <1>10, <1>11 DEF Moves
  <1>15. LanePending(d, r, l, t.step, t.cell)
    <2>1. t.cell + Len(q.cells) > Len(MovedBy(d, Plan(r)[l].steps[i]))
      <3>1. n = Len(MovedBy(d, Plan(r)[l].steps[i]))  BY <1>7 DEF n
      <3>2. t.cell \in Nat /\ Len(q.cells) \in Nat /\ n \in Nat  BY <1>7, <1>9, <1>11
      <3>3. QED  BY <3>1, <3>2, <1>11
    <2>2. q \in Range(QueueOf(d)[EndOf(d, Plan(r)[l])])  BY <1>4, <1>5 DEF Q
    <2>3. QED  BY <2>1, <2>2, <1>5, <1>10 DEF LanePending
  <1>16. t \in Pending(d, e)  BY <1>19, <1>6, <1>13, <1>14, <1>15 DEF Pending, StillMoves
  <1>17. ASSUME NEW u \in Pending(d, e) PROVE u = t \/ Earlier(t, u)
    <2>1. PICK c, m : u \in Tags /\ Moves(job, d, e, c, m, u) /\ StillMoves(d, e, c, m, u)
      BY DEF Pending
    <2> USE <1>19
    <2>2. CASE c > call[r]
      <3>1. call[r] < c
        <4>1. c \in Nat /\ call[r] \in Nat
          <5>1. c \in DOMAIN job.calls[r]  BY <2>1 DEF Moves
          <5>2. QED  BY <5>1, <1>2, <1>6, CallFacts
        <4>2. QED  BY <4>1, <2>2
      <3>2. t.round < u.round  BY <3>1, <2>1, <1>14, <1>2, <1>6, MovesInOrder
      <3>3. QED  BY <3>2 DEF Earlier
    <2>3. CASE c = call[r]
      <3>1. LanePending(d, r, m, u.step, u.cell)
        <4>1. ~(call[r] > call[r])
          <5>1. call[r] \in Nat  BY <1>2, <1>6, CallFacts
          <5>2. QED  BY <5>1
        <4>2. QED  BY <2>1, <2>3, <4>1 DEF StillMoves
      <3>2. m \in DOMAIN lanes[r] /\ EndOf(d, Plan(r)[m]) = e /\ u.round = t.round
            /\ u.step \in DOMAIN Plan(r)[m].steps
        BY <2>1, <2>3, <1>6, <1>10 DEF Moves
      <3>3. m = l  BY <3>2, <1>1, <1>2, <1>5, <1>6, WayEnds
      <3>4. u.step \in Nat /\ u.cell \in Nat /\ u.round \in Nat  BY <2>1 DEF Tags
      <3>5. CASE ~PostedAt(d, lanes[r][l], u.step)
        <4>1. lanes[r][l].step \in Int
          <5>1. AtStep(Plan(r)[l], lanes[r][l])
            <6>1. r \in Ranks  BY <1>2
            <6>2. QED  BY <6>1, <1>1, <1>5, LaneFacts
          <5>2. QED  BY <5>1 DEF AtStep
        <4>4. i \in Int /\ u.step \in Int /\ PostedAt(d, lanes[r][l], i)  BY <3>4, <1>5, <1>7
        <4>2. ~(u.step <= i)  BY <4>1, <4>4, <3>5, PostedBefore
        <4>3. QED  BY <4>2, <3>2, <3>4, <1>7, <1>10 DEF Earlier
      <3>6. CASE \E p \in Range(Q) :
                    p.id = Id(call[r], l, u.step) /\ u.cell + Len(p.cells) > Len(MovedBy(d, Plan(r)[l].steps[u.step]))
        <4>1. PICK p \in Range(Q) :
                    p.id = Id(call[r], l, u.step) /\ u.cell + Len(p.cells) > Len(MovedBy(d, Plan(r)[l].steps[u.step]))
          BY <3>6
        <4>2. PICK k \in DOMAIN Q : p = Q[k]  BY DEF Range
        <4>3. p.id[3] = u.step  BY <4>1, IdFacts
        <4>4. CASE k = 1
          <5>1. p = q /\ u.step = i  BY <4>2, <4>3, <4>4, <1>3 DEF i
          <5>2. u.cell + Len(q.cells) > n  BY <5>1, <4>1, <1>7 DEF n
          <5>3. u.cell >= t.cell
            <6>1. t.cell \in Nat /\ Len(q.cells) \in Nat /\ n \in Nat /\ u.cell \in Nat
              BY <1>11, <3>4, <1>7, <1>9
            <6>2. QED  BY <6>1, <5>2, <1>11
          <5>4. u.cell = t.cell => u = t
            <6>1. u.step = t.step /\ u.round = t.round /\ u \in Tags /\ t \in Tags
              BY <5>1, <3>2, <1>10, <1>13, <2>1
            <6>2. QED  BY <6>1 DEF Tags
          <5>5. u.cell # t.cell => Earlier(t, u)
            BY <5>1, <5>3, <3>2, <1>10, <1>11, <3>4 DEF Earlier
          <5>6. QED  BY <5>4, <5>5
        <4>5. CASE k # 1
          <5>1. 1 < k  BY <4>5, <1>3
          <5>2. Q[1].id[3] < Q[k].id[3]  BY <5>1, <1>3, <1>8 DEF InOrder
          <5>3. i < u.step  BY <5>2, <4>2, <4>3, <1>3 DEF i
          <5>4. QED  BY <5>3, <3>2, <1>10 DEF Earlier
        <4>6. QED  BY <4>4, <4>5
      <3>7. QED  BY <3>1, <3>3, <3>5, <3>6, <1>5 DEF LanePending, Q
    <2>4. QED  BY <2>1, <2>2, <2>3 DEF StillMoves
  <1>18. QED  BY <1>14, <1>16, <1>17 DEF t, r, l, q, Q

(* The first request of e has moved by a cell: the others are as they were. *)
HeadStep(queue, e) == [queue EXCEPT ![e][1] = Conn!Advanced(Head(queue[e]), 1)]

LEMMA HeadMoved ==
    ASSUME NEW queue \in Queues, NEW e \in Ends, queue[e] # <<>>, 1 <= Len(Head(queue[e]).cells),
           NEW new, new = HeadStep(queue, e)
    PROVE  /\ DOMAIN new[e] = DOMAIN queue[e] /\ 1 \in DOMAIN queue[e] /\ DOMAIN queue[e] \subseteq Nat
           /\ queue[e][1] \in Request /\ Head(queue[e]) = queue[e][1]
           /\ new[e][1].id = queue[e][1].id /\ new[e][1].cells = Tail(queue[e][1].cells)
           /\ \A n \in DOMAIN queue[e] : n # 1 => new[e][n] = queue[e][n]
           /\ \A f \in Ends : f # e => new[f] = queue[f]
  <1> DEFINE Q == queue[e]
             a == Conn!Advanced(Head(Q), 1)
  <1>1. Q \in Seq(Request) /\ DOMAIN queue = Ends  BY DEF Queues
  <1>2. /\ DOMAIN Q = 1..Len(Q) /\ Len(Q) \in Nat /\ Len(Q) >= 1 /\ Head(Q) = Q[1] /\ 1 \in DOMAIN Q
        /\ Q[1] \in Request
    BY <1>1
  <1>3. a.id = Q[1].id /\ a.cells = Tail(Q[1].cells)  BY <1>2, AdvancedFacts
  <1>4. new = [queue EXCEPT ![e] = [Q EXCEPT ![1] = a]]  BY <1>1 DEF HeadStep
  <1> HIDE DEF a
  <1>5. new[e] = [Q EXCEPT ![1] = a] /\ \A f \in Ends : f # e => new[f] = queue[f]  BY <1>1, <1>4
  <1> HIDE DEF Q
  <1>6. DOMAIN new[e] = DOMAIN Q /\ new[e][1] = a /\ \A n \in DOMAIN Q : n # 1 => new[e][n] = Q[n]
    BY <1>5, <1>2
  <1>7. QED  BY <1>2, <1>3, <1>5, <1>6 DEF Q

(* Only the first cell is not pending any more. *)
LEMMA LaneMoved ==
    ASSUME GroupInv, QueueShape, UNCHANGED <<job, plan, call, lanes>>, NEW d \in Ways, NEW e \in JobEnds,
           QueueOf(d)[e] # <<>>, 1 <= Len(Head(QueueOf(d)[e]).cells),
           QueueOf(d)' = HeadStep(QueueOf(d), e),
           NEW r \in Ranks, NEW l \in DOMAIN lanes[r], NEW i \in DOMAIN Plan(r)[l].steps,
           NEW k \in DOMAIN MovedBy(d, Plan(r)[l].steps[i])
    PROVE  LanePending(d, r, l, i, k)' <=>
              /\ LanePending(d, r, l, i, k)
              /\ ~(EndOf(d, Plan(r)[l]) = e /\ i = FirstTag(d, e).step /\ k = FirstTag(d, e).cell)
  <1>1. GroupTypeOK /\ LanesInPlan  BY DEF GroupInv
  <1> DEFINE Q == QueueOf(d)[e]
             new == QueueOf(d)'[e]
             f == EndOf(d, Plan(r)[l])
  <1>2. QueueOf(d) \in Queues /\ e \in Ends  BY <1>1, JobEndFacts DEF GroupTypeOK, QueueOf, Queues
  <1>3. /\ DOMAIN new = DOMAIN Q /\ 1 \in DOMAIN Q /\ DOMAIN Q \subseteq Nat
        /\ Q[1] \in Request /\ Head(Q) = Q[1]
        /\ new[1].id = Q[1].id /\ new[1].cells = Tail(Q[1].cells)
        /\ \A n \in DOMAIN Q : n # 1 => new[n] = Q[n]
        /\ \A g \in Ends : g # e => QueueOf(d)'[g] = QueueOf(d)[g]
    <2>1. PICK old, upd : old = QueueOf(d) /\ upd = QueueOf(d)'  OBVIOUS
    <2>2. upd = HeadStep(old, e)  BY <2>1
    <2>3. old \in Queues /\ e \in Ends /\ old[e] # <<>> /\ 1 <= Len(Head(old[e]).cells)
      BY <2>1, <1>2
    <2>4. /\ DOMAIN upd[e] = DOMAIN old[e] /\ 1 \in DOMAIN old[e] /\ DOMAIN old[e] \subseteq Nat
          /\ old[e][1] \in Request /\ Head(old[e]) = old[e][1]
          /\ upd[e][1].id = old[e][1].id /\ upd[e][1].cells = Tail(old[e][1].cells)
          /\ \A n \in DOMAIN old[e] : n # 1 => upd[e][n] = old[e][n]
          /\ \A g \in Ends : g # e => upd[g] = old[g]
      BY ONLY <2>2, <2>3, HeadMoved
    <2>5. QED  BY <2>1, <2>4
  <1>8. k \in Nat
    <2>1. Len(MovedBy(d, Plan(r)[l].steps[i])) \in Nat
          /\ DOMAIN MovedBy(d, Plan(r)[l].steps[i]) = 1..Len(MovedBy(d, Plan(r)[l].steps[i]))
      BY <1>1, PlanSteps
    <2>2. QED  BY <2>1
  <1>4. f \in Ends  BY <1>1, SomeLane, WayEnds
  <1>5. CASE f # e
    <2>1. QueueOf(d)'[f] = QueueOf(d)[f]  BY <1>3, <1>4, <1>5
    <2>2. QED  BY <2>1, <1>5, LanePendingKept
  <1>6. CASE f = e
    <2>1. Q[1] \in Range(Q)  BY <1>3 DEF Range
    <2> DEFINE p == Q[1]
               n == Len(StepCells(d, e, p))
    <2>2. /\ p.id = Id(call[e[2]], p.id[2], p.id[3]) /\ p.id[2] \in DOMAIN lanes[e[2]] /\ e[2] \in Ranks
          /\ EndOf(d, Plan(e[2])[p.id[2]]) = e /\ p.id[3] \in DOMAIN Plan(e[2])[p.id[2]].steps
          /\ PostedAt(d, lanes[e[2]][p.id[2]], p.id[3])
      BY <2>1, RequestOk
    <2>3. e[2] = r /\ p.id[2] = l  BY <2>2, <1>6, <1>1, SomeLane, WayEnds
    <2>4. p.id = Id(call[r], l, p.id[3]) /\ PostedAt(d, lanes[r][l], p.id[3])  BY <2>2, <2>3
    <2>5. FirstTag(d, e).step = p.id[3] /\ FirstTag(d, e).cell = n - Len(p.cells) + 1
      BY <1>3 DEF FirstTag
    <2>6. StepCells(d, e, p) = MovedBy(d, Plan(r)[l].steps[p.id[3]])  BY <2>3 DEF StepCells
    <2>7. RestOf(p.cells, StepCells(d, e, p)) /\ InOrder(Q)  BY <2>1 DEF QueueShape, ShapeOf
    <2>8. p.cells \in Seq(Cells)  BY <1>3, RequestFacts
    <2>9. Len(p.cells) \in Nat /\ Len(p.cells) >= 1 /\ Len(Tail(p.cells)) = Len(p.cells) - 1
      BY <2>8, <1>3
    <2>10. n \in Nat /\ Len(p.cells) <= n
      <3>1. n \in Nat
        <4>1. p.id[3] \in DOMAIN Plan(r)[l].steps  BY <2>2, <2>3
        <4>2. Len(MovedBy(d, Plan(r)[l].steps[p.id[3]])) \in Nat  BY <4>1, <1>1, PlanSteps
        <4>3. QED  BY <4>2, <2>6
      <3>2. QED  BY <3>1, <2>7 DEF RestOf
    <2>11. Plan(r)' = Plan(r) /\ lanes' = lanes /\ call' = call  BY DEF Plan
    <2>12. \A m \in DOMAIN Q : m # 1 => Q[m].id[3] # p.id[3]
      <3> SUFFICES ASSUME NEW m \in DOMAIN Q, m # 1 PROVE Q[m].id[3] # p.id[3]  OBVIOUS
      <3>1. 1 < m
        <4>1. m \in Nat /\ DOMAIN Q = 1..Len(Q) /\ Len(Q) \in Nat
          <5>1. Q \in Seq(Request)  BY <1>2 DEF Queues
          <5>2. QED  BY <5>1
        <4>2. QED  BY <4>1
      <3>2. Q[1].id[3] < Q[m].id[3]  BY <3>1, <1>3, <2>7 DEF InOrder
      <3>3. p.id[3] \in Nat  BY <2>2, <2>3, <1>1, PlanSteps
      <3>4. QED  BY <3>2, <3>3
    <2>13. LanePending(d, r, l, i, k) <=>
              \/ ~PostedAt(d, lanes[r][l], i)
              \/ \E m \in DOMAIN Q : Q[m].id = Id(call[r], l, i) /\ k + Len(Q[m].cells) > Len(MovedBy(d, Plan(r)[l].steps[i]))
      BY <1>6 DEF LanePending, Range
    <2>14. LanePending(d, r, l, i, k)' <=>
              \/ ~PostedAt(d, lanes[r][l], i)
              \/ \E m \in DOMAIN Q : new[m].id = Id(call[r], l, i) /\ k + Len(new[m].cells) > Len(MovedBy(d, Plan(r)[l].steps[i]))
      <3>1. Range(new) = {new[m] : m \in DOMAIN Q}  BY <1>3 DEF Range
      <3>2. LanePending(d, r, l, i, k)' <=>
              \/ ~PostedAt(d, lanes[r][l], i)
              \/ \E q \in Range(new) : q.id = Id(call[r], l, i) /\ k + Len(q.cells) > Len(MovedBy(d, Plan(r)[l].steps[i]))
        BY <1>6, <2>11 DEF LanePending
      <3> HIDE DEF new, Q
      <3>3. QED  BY <3>1, <3>2
    <2> HIDE DEF Q, new, f, p, n
    <2>15. CASE i # p.id[3]
      <3>1. p.id # Id(call[r], l, i) /\ new[1].id # Id(call[r], l, i)
        <4>1. p.id # Id(call[r], l, i)  BY <2>15, IdFacts
        <4>2. QED  BY <4>1, <1>3 DEF p
      <3>2. \A m \in DOMAIN Q : new[m].id = Id(call[r], l, i) \/ Q[m].id = Id(call[r], l, i) => new[m] = Q[m]
        BY <3>1, <1>3 DEF p
      <3>3. \A m \in DOMAIN Q : new[m] # Q[m] => Q[m].id # Id(call[r], l, i) /\ new[m].id # Id(call[r], l, i)
        BY <3>2
      <3>4. (\E m \in DOMAIN Q : new[m].id = Id(call[r], l, i) /\ k + Len(new[m].cells) > Len(MovedBy(d, Plan(r)[l].steps[i])))
            <=> (\E m \in DOMAIN Q : Q[m].id = Id(call[r], l, i) /\ k + Len(Q[m].cells) > Len(MovedBy(d, Plan(r)[l].steps[i])))
        BY <3>2
      <3>5. QED  BY <3>4, <2>13, <2>14, <2>15, <2>5
    <2>16. CASE i = p.id[3]
      <3>1. PostedAt(d, lanes[r][l], i) /\ p.id = Id(call[r], l, i)  BY <2>4, <2>16
      <3>2. \A m \in DOMAIN Q : m # 1 => Q[m].id # Id(call[r], l, i) /\ new[m].id # Id(call[r], l, i)
        BY <2>12, <2>16, <1>3, IdFacts
      <3>3. Len(MovedBy(d, Plan(r)[l].steps[i])) = n  BY <2>6, <2>16 DEF n
      <3>4. LanePending(d, r, l, i, k) <=> k + Len(p.cells) > n
        BY <3>1, <3>2, <3>3, <2>13, <1>3 DEF p
      <3>5. LanePending(d, r, l, i, k)' <=> k + Len(Tail(p.cells)) > n
        BY <3>1, <3>2, <3>3, <2>14, <1>3 DEF p
      <3>6. k \in Nat  BY <1>8
      <3>7. QED  BY <3>4, <3>5, <3>6, <2>5, <2>9, <2>10, <2>16, <1>6 DEF f
    <2>17. QED  BY <2>15, <2>16
  <1>7. QED  BY <1>5, <1>6

LEMMA MovePending ==
    ASSUME AllMatched, GroupInv, QueueShape, UNCHANGED <<job, plan, call, lanes>>, NEW d \in Ways, NEW e \in JobEnds,
           QueueOf(d)[e] # <<>>, 1 <= Len(Head(QueueOf(d)[e]).cells),
           QueueOf(d)' = HeadStep(QueueOf(d), e)
    PROVE  /\ Pending(d, e)' = Pending(d, e) \ {FirstTag(d, e)}
           /\ \A f \in JobEnds : f # e => Pending(d, f)' = Pending(d, f)
  <1>1. GroupTypeOK /\ LanesInPlan  BY DEF GroupInv
  <1> DEFINE t == FirstTag(d, e)
             m == Head(QueueOf(d)[e]).id[2]
  <1>2. t \in Pending(d, e) /\ Moves(job, d, e, call[e[2]], m, t)
    BY FirstIsFirst
  <1>3. /\ e[2] \in Ranks /\ job \in Jobs /\ e \in Ends /\ e[1] = job.ranks /\ e[2] \in RanksOf(job)
    BY <1>1, JobEndFacts DEF Ranks
  <1>4. ASSUME NEW r \in Ranks, NEW l \in DOMAIN lanes[r], NEW i \in DOMAIN Plan(r)[l].steps,
               NEW k \in DOMAIN MovedBy(d, Plan(r)[l].steps[i])
        PROVE  LanePending(d, r, l, i, k)' <=>
                 (LanePending(d, r, l, i, k) /\ ~(EndOf(d, Plan(r)[l]) = e /\ i = t.step /\ k = t.cell))
    BY LaneMoved
  <1> HIDE DEF t, m
  <1>5. ASSUME NEW f \in JobEnds, NEW c, NEW l, NEW u \in Tags, Moves(job, d, f, c, l, u)
        PROVE  StillMoves(d, f, c, l, u)' <=> StillMoves(d, f, c, l, u) /\ ~(f = e /\ u = t)
    <2>1. f[2] \in Ranks /\ f \in Ends  BY <1>1, JobEndFacts
    <2>2. CASE c = call[f[2]] /\ lanes[f[2]] # <<>>
      <3>1. Plan(f[2]) = Lanes(job, f[2], call[f[2]]) /\ DOMAIN lanes[f[2]] = DOMAIN Lanes(job, f[2], call[f[2]])
            /\ call[f[2]] \in DOMAIN job.calls[f[2]]
        BY <1>1, <2>1, <2>2, LaneIs
      <3>2. /\ l \in DOMAIN lanes[f[2]] /\ u.step \in DOMAIN Plan(f[2])[l].steps
            /\ u.cell \in DOMAIN MovedBy(d, Plan(f[2])[l].steps[u.step])
            /\ EndOf(d, Plan(f[2])[l]) = f /\ u.round = Round(job)[f[2]][c]
        BY <3>1, <2>2, <1>5 DEF Moves
      <3>3. LanePending(d, f[2], l, u.step, u.cell)' <=>
               (LanePending(d, f[2], l, u.step, u.cell) /\ ~(f = e /\ u.step = t.step /\ u.cell = t.cell))
        BY <3>2, <2>1, <1>4
      <3>4. ~(c > call[f[2]])
        <4>1. call[f[2]] \in Nat  BY <1>1, <2>1 DEF GroupTypeOK
        <4>2. QED  BY <4>1, <2>2
      <3>5. f = e => (u = t <=> u.step = t.step /\ u.cell = t.cell)
        <4> SUFFICES ASSUME f = e PROVE u.step = t.step /\ u.cell = t.cell => u = t  OBVIOUS
        <4>1. t.round = u.round  BY <3>2, <2>2, <1>2 DEF Moves
        <4>2. t \in Tags  BY <1>2 DEF Pending
        <4>3. QED  BY <4>1, <4>2 DEF Tags
      <3>6. QED  BY <3>3, <3>4, <3>5, <2>2 DEF StillMoves
    <2>3. CASE ~(c = call[f[2]] /\ lanes[f[2]] # <<>>)
      <3>1. f = e /\ c > call[e[2]] => u # t
        <4> SUFFICES ASSUME f = e, c > call[e[2]], u = t PROVE FALSE  OBVIOUS
        <4>1. c \in Nat /\ call[e[2]] \in Nat
          <5>1. c \in DOMAIN job.calls[e[2]]  BY <1>5 DEF Moves
          <5>2. QED  BY <5>1, <1>1, <1>3, CallFacts DEF GroupTypeOK
        <4>2. call[e[2]] < c  BY <4>1
        <4>3. t.round < u.round  BY <4>2, <1>2, <1>5, <1>3, MovesInOrder
        <4>4. t.round \in Nat  BY <1>2 DEF Pending, Tags
        <4>5. QED  BY <4>3, <4>4
      <3>2. QED  BY <3>1, <2>3 DEF StillMoves
    <2>4. QED  BY <2>2, <2>3
  <1>6. \A f \in JobEnds : \A c, l, u : Moves(job', d, f, c, l, u) = Moves(job, d, f, c, l, u)
    BY MovesSame
  <1>7. \A f \in JobEnds : Pending(d, f)' = {u \in Pending(d, f) : ~(f = e /\ u = t)}
    BY <1>5, <1>6 DEF Pending
  <1>8. QED  BY <1>7 DEF t

-----------------------------------------------------------------------------
(* The shape of the queues *)
LEMMA ShapePosted ==
    ASSUME GroupInv, UNCHANGED <<job, plan, call>>, NEW d \in Ways, ShapeOf(d),
           NEW r \in Ranks, NEW l \in DOMAIN lanes[r], NEW s, s \in DOMAIN Plan(r)[l].steps,
           QueueOf(d)' = Conn!Posted(QueueOf(d), EndOf(d, Plan(r)[l]), Id(call[r], l, s),
                                     MovedBy(d, Plan(r)[l].steps[s])),
           ~PostedAt(d, lanes[r][l], s)
    PROVE  ShapeOf(d)'
  <1>1. GroupTypeOK /\ LanesInPlan  BY DEF GroupInv
  <1> DEFINE E == EndOf(d, Plan(r)[l])
             cells == MovedBy(d, Plan(r)[l].steps[s])
             new == Conn!NewRequest(Id(call[r], l, s), cells)
  <1>2. E \in JobEnds /\ E \in Ends /\ E[2] = r  BY <1>1, SomeLane, WayEnds
  <1>3. QueueOf(d) \in [Ends -> Seq(Request)]  BY <1>1 DEF GroupTypeOK, QueueOf
  <1>4. cells \in Seq(Cells) /\ Len(cells) \in Nat /\ DOMAIN cells = 1..Len(cells) /\ s \in Nat
    BY <1>1, PlanSteps
  <1>5. \A f \in Ends : f # E => QueueOf(d)'[f] = QueueOf(d)[f]
    BY <1>3, <1>2 DEF Conn!Posted
  <1>6. cells # <<>> => QueueOf(d)'[E] = Append(QueueOf(d)[E], new)
    BY <1>3, <1>2 DEF Conn!Posted
  <1>7. cells = <<>> => QueueOf(d)'[E] = QueueOf(d)[E]
    BY <1>3, <1>2 DEF Conn!Posted
  <1>8. new.id = Id(call[r], l, s) /\ new.cells = cells  BY DEF Conn!NewRequest
  <1>9. \A x : Plan(x)' = Plan(x)  BY DEF Plan
  <1>10. JobEnds' = JobEnds  BY DEF JobEnds
  <1> DEFINE Q == QueueOf(d)[E]
  <1>11. Q \in Seq(Request)  BY <1>2, <1>3
  <1>12. ASSUME NEW n \in DOMAIN Q PROVE Q[n].id[3] < s
    <2>1. Q[n] \in Range(Q)  BY DEF Range
    <2>2. /\ Q[n].id[2] \in DOMAIN lanes[r] /\ EndOf(d, Plan(r)[Q[n].id[2]]) = E
          /\ PostedAt(d, lanes[r][Q[n].id[2]], Q[n].id[3]) /\ Q[n].id[3] \in DOMAIN Plan(r)[Q[n].id[2]].steps
      <3> HIDE DEF E
      <3>1. /\ Q[n].id[2] \in DOMAIN lanes[E[2]] /\ EndOf(d, Plan(E[2])[Q[n].id[2]]) = E
            /\ PostedAt(d, lanes[E[2]][Q[n].id[2]], Q[n].id[3])
            /\ Q[n].id[3] \in DOMAIN Plan(E[2])[Q[n].id[2]].steps
        BY <2>1, <1>2, RequestOk
      <3>2. E[2] = r  BY <1>2
      <3>3. QED  BY <3>1, <3>2
    <2>3. Q[n].id[2] = l
      <3>1. PICK m : m = Q[n].id[2]  OBVIOUS
      <3>2. m \in DOMAIN lanes[r] /\ EndOf(d, Plan(r)[m]) = E  BY <3>1, <2>2
      <3>3. m = l  BY <3>2, <1>1, SomeLane, WayEnds
      <3>4. QED  BY <3>1, <3>3
    <2>4. PostedAt(d, lanes[r][l], Q[n].id[3]) /\ Q[n].id[3] \in Nat  BY <2>2, <2>3, <1>1, PlanSteps
    <2>5. lanes[r][l].step \in Int
      <3>1. AtStep(Plan(r)[l], lanes[r][l])  BY <1>1, LaneFacts
      <3>2. QED  BY <3>1 DEF AtStep
    <2>6. Q[n].id[3] \in Int /\ s \in Int  BY <2>4, <1>4
    <2>7. ~(s <= Q[n].id[3])  BY <2>4, <2>5, <2>6, PostedBefore
    <2>8. QED  BY <2>6, <2>7
  <1>13. StepCells(d, E, new) = cells
    <2>1. new.id[2] = l /\ new.id[3] = s  BY <1>8, IdFacts
    <2>2. QED  BY <2>1, <1>2 DEF StepCells
  <1>14. RestOf(new.cells, cells)  BY <1>4, <1>8 DEF RestOf
  <1>15. \A f \in JobEnds : \A q \in Range(QueueOf(d)[f]) : RestOf(q.cells, StepCells(d, f, q))
    BY DEF ShapeOf
  <1>16. \A f \in JobEnds : InOrder(QueueOf(d)[f])  BY DEF ShapeOf
  <1>17. \A f, q : StepCells(d, f, q)' = StepCells(d, f, q)  BY <1>9 DEF StepCells
  <1> HIDE DEF E, cells, new
  <1>18. CASE cells = <<>>
    <2>1. \A f \in JobEnds : QueueOf(d)'[f] = QueueOf(d)[f]  BY <1>5, <1>7, <1>18 DEF JobEnds
    <2>2. QED  BY <2>1, <1>10, <1>15, <1>16, <1>17 DEF ShapeOf
  <1>19. CASE cells # <<>>
    <2> DEFINE N == Append(Q, new)
    <2>1. QueueOf(d)'[E] = N  BY <1>6, <1>19
    <2> HIDE DEF Q
    <2>2. new.id[3] = s  BY <1>8, IdFacts
    <2>3. /\ DOMAIN N = 1..Len(Q) + 1 /\ Len(Q) \in Nat /\ DOMAIN Q = 1..Len(Q)
          /\ \A n \in DOMAIN Q : N[n] = Q[n]
          /\ N[Len(Q) + 1] = new
      BY <1>11
    <2> HIDE DEF N
    <2>4. \A n \in DOMAIN N : n \in DOMAIN Q \/ n = Len(Q) + 1  BY <2>3
    <2>5. InOrder(N)
      <3> SUFFICES ASSUME NEW n \in DOMAIN N, NEW k \in DOMAIN N, n < k PROVE N[n].id[3] < N[k].id[3]
        BY DEF InOrder
      <3>1. n \in DOMAIN Q  BY <2>3, <2>4
      <3>2. CASE k \in DOMAIN Q
        <4>1. InOrder(Q)  BY <1>2, <1>16 DEF Q
        <4>2. QED  BY <4>1, <3>1, <3>2, <2>3 DEF InOrder
      <3>3. CASE k = Len(Q) + 1  BY <3>1, <3>3, <2>2, <2>3, <1>12
      <3>4. QED  BY <3>2, <3>3, <2>4
    <2>6. \A q \in Range(N) : q \in Range(Q) \/ q = new  BY <2>3, <2>4 DEF Range
    <2>7. \A q \in Range(N) : RestOf(q.cells, StepCells(d, E, q))
      BY <2>6, <1>13, <1>14, <1>15, <1>2 DEF Q
    <2>8. \A f \in JobEnds : f # E => QueueOf(d)'[f] = QueueOf(d)[f]  BY <1>5 DEF JobEnds
    <2>9. QED  BY <2>1, <2>5, <2>7, <2>8, <1>10, <1>15, <1>16, <1>17 DEF ShapeOf
  <1>20. QED  BY <1>18, <1>19

LEMMA RestOfTail ==
    ASSUME NEW rest \in Seq(Cells), Len(rest) >= 1, NEW cells, Len(cells) \in Nat, RestOf(rest, cells)
    PROVE  RestOf(Tail(rest), cells)
  <1>1. /\ Len(rest) \in Nat /\ Len(Tail(rest)) = Len(rest) - 1
        /\ \A a \in 1..Len(rest) - 1 : Tail(rest)[a] = rest[a + 1]
    OBVIOUS
  <1>2. Len(rest) <= Len(cells) /\ \A a \in 1..Len(rest) : rest[a] = cells[Len(cells) - Len(rest) + a]
    BY DEF RestOf
  <1>3. ASSUME NEW a \in 1..Len(rest) - 1 PROVE Tail(rest)[a] = cells[Len(cells) - (Len(rest) - 1) + a]
    <2>1. a + 1 \in 1..Len(rest)  BY <1>1
    <2>2. rest[a + 1] = cells[Len(cells) - Len(rest) + (a + 1)]  BY <2>1, <1>2
    <2>3. Len(cells) - Len(rest) + (a + 1) = Len(cells) - (Len(rest) - 1) + a  BY <1>1
    <2>4. QED  BY <1>1, <2>2, <2>3
  <1>4. Len(rest) - 1 <= Len(cells)  BY <1>1, <1>2
  <1>5. QED  BY <1>1, <1>3, <1>4 DEF RestOf

LEMMA StepCellsSame ==
    ASSUME UNCHANGED <<job, plan>>
    PROVE  /\ JobEnds' = JobEnds /\ Ranks' = Ranks
           /\ \A d, e, q : call'[e[2]] = call[e[2]] => StepCells(d, e, q)' = StepCells(d, e, q)
  <1>1. JobEnds' = JobEnds /\ Ranks' = Ranks  BY DEF JobEnds, Ranks
  <1>2. \A x : call'[x] = call[x] => Plan(x)' = Plan(x)  BY DEF Plan
  <1>3. QED  BY <1>1, <1>2 DEF StepCells

LEMMA ShapeMoved ==
    ASSUME GroupInv, UNCHANGED <<job, plan, call, lanes>>, NEW d \in Ways, NEW e \in JobEnds, ShapeOf(d),
           QueueOf(d)[e] # <<>>, 1 <= Len(Head(QueueOf(d)[e]).cells),
           QueueOf(d)' = HeadStep(QueueOf(d), e)
    PROVE  ShapeOf(d)'
  <1>1. GroupTypeOK /\ LanesInPlan  BY DEF GroupInv
  <1>2. QueueOf(d) \in Queues /\ e \in Ends  BY <1>1, JobEndFacts DEF GroupTypeOK, QueueOf, Queues
  <1>3. PICK old, new : old = QueueOf(d) /\ new = QueueOf(d)'  OBVIOUS
  <1>4. new = HeadStep(old, e)  BY <1>3
  <1>5. old \in Queues /\ e \in Ends /\ old[e] # <<>> /\ 1 <= Len(Head(old[e]).cells)  BY <1>3, <1>2
  <1>6. /\ DOMAIN new[e] = DOMAIN old[e] /\ 1 \in DOMAIN old[e] /\ DOMAIN old[e] \subseteq Nat
        /\ old[e][1] \in Request /\ Head(old[e]) = old[e][1]
        /\ new[e][1].id = old[e][1].id /\ new[e][1].cells = Tail(old[e][1].cells)
        /\ \A n \in DOMAIN old[e] : n # 1 => new[e][n] = old[e][n]
        /\ \A g \in Ends : g # e => new[g] = old[g]
    BY ONLY <1>4, <1>5, HeadMoved
  <1>7. JobEnds' = JobEnds /\ \A f, q : StepCells(d, f, q)' = StepCells(d, f, q)  BY StepCellsSame
  <1>8. /\ \A f \in JobEnds : \A q \in Range(old[f]) : RestOf(q.cells, StepCells(d, f, q))
        /\ \A f \in JobEnds : InOrder(old[f])
    BY <1>3 DEF ShapeOf
  <1>9. RestOf(new[e][1].cells, StepCells(d, e, new[e][1]))
    <2> DEFINE p == old[e][1]
    <2>1. p \in Range(old[e])  BY <1>6 DEF Range
    <2>2. RestOf(p.cells, StepCells(d, e, p))  BY <2>1, <1>8
    <2>3. StepCells(d, e, new[e][1]) = StepCells(d, e, p)  BY <1>6 DEF StepCells
    <2>4. p.cells \in Seq(Cells)  BY <1>6, RequestFacts
    <2>5. Len(p.cells) >= 1  BY <1>5, <1>6, <2>4
    <2>6. Len(StepCells(d, e, p)) \in Nat
      <3>1. p \in Range(QueueOf(d)[e])  BY <2>1, <1>3
      <3>2. p.id[2] \in DOMAIN lanes[e[2]] /\ e[2] \in Ranks /\ p.id[3] \in DOMAIN Plan(e[2])[p.id[2]].steps
        BY <3>1, RequestOk
      <3> HIDE DEF p
      <3>3. Len(MovedBy(d, Plan(e[2])[p.id[2]].steps[p.id[3]])) \in Nat  BY <3>2, <1>1, PlanSteps
      <3>4. QED  BY <3>3 DEF StepCells
    <2> HIDE DEF p
    <2>7. RestOf(Tail(p.cells), StepCells(d, e, p))  BY <2>2, <2>4, <2>5, <2>6, RestOfTail
    <2>8. QED  BY <2>7, <2>3, <1>6 DEF p
  <1>10. \A q \in Range(new[e]) : RestOf(q.cells, StepCells(d, e, q))
    <2> SUFFICES ASSUME NEW n \in DOMAIN new[e] PROVE RestOf(new[e][n].cells, StepCells(d, e, new[e][n]))
      BY DEF Range
    <2>1. CASE n = 1  BY <2>1, <1>9
    <2>2. CASE n # 1
      <3>1. new[e][n] = old[e][n] /\ old[e][n] \in Range(old[e])  BY <2>2, <1>6 DEF Range
      <3>2. QED  BY <3>1, <1>8
    <2>3. QED  BY <2>1, <2>2
  <1>11. InOrder(new[e])
    <2>1. \A n \in DOMAIN old[e] : new[e][n].id = old[e][n].id  BY <1>6
    <2>2. InOrder(old[e])  BY <1>8
    <2>3. QED  BY <2>1, <2>2, <1>6 DEF InOrder
  <1>12. \A f \in JobEnds : f # e => new[f] = old[f]  BY <1>6 DEF JobEnds
  <1>13. \A f \in JobEnds : InOrder(new[f]) /\ \A q \in Range(new[f]) : RestOf(q.cells, StepCells(d, f, q))
    BY <1>8, <1>10, <1>11, <1>12
  <1>14. QED  BY <1>13, <1>7, <1>3 DEF ShapeOf

LEMMA ShapeRetired ==
    ASSUME GroupInv, UNCHANGED <<job, plan, call>>, NEW d \in Ways, NEW e \in Ends, ShapeOf(d),
           QueueOf(d)[e] # <<>>,
           QueueOf(d)' = [QueueOf(d) EXCEPT ![e] = Tail(QueueOf(d)[e])]
    PROVE  ShapeOf(d)'
  <1>1. GroupTypeOK  BY DEF GroupInv
  <1> DEFINE Q == QueueOf(d)[e]
             new == QueueOf(d)'
  <1>2. QueueOf(d) \in [Ends -> Seq(Request)]  BY <1>1 DEF GroupTypeOK, QueueOf
  <1>3. Q \in Seq(Request) /\ Q # <<>>  BY <1>2
  <1>4. new[e] = Tail(Q) /\ \A f \in Ends : f # e => new[f] = QueueOf(d)[f]  BY <1>2
  <1>5. JobEnds' = JobEnds /\ \A f, q : StepCells(d, f, q)' = StepCells(d, f, q)  BY StepCellsSame
  <1>6. /\ DOMAIN Q = 1..Len(Q) /\ Len(Q) \in Nat /\ DOMAIN Tail(Q) = 1..Len(Q) - 1
        /\ \A n \in 1..Len(Q) - 1 : Tail(Q)[n] = Q[n + 1] /\ n + 1 \in DOMAIN Q
    BY <1>3
  <1>7. /\ \A f \in JobEnds : \A q \in Range(QueueOf(d)[f]) : RestOf(q.cells, StepCells(d, f, q))
        /\ \A f \in JobEnds : InOrder(QueueOf(d)[f])
    BY DEF ShapeOf
  <1> HIDE DEF new, Q
  <1>8. Range(Tail(Q)) \subseteq Range(Q)  BY <1>6 DEF Range
  <1>9. ASSUME e \in JobEnds
        PROVE  InOrder(new[e]) /\ \A q \in Range(new[e]) : RestOf(q.cells, StepCells(d, e, q))
    <2>1. InOrder(Q)  BY <1>9, <1>7 DEF Q
    <2>2. \A n \in DOMAIN Tail(Q) : \A m \in DOMAIN Tail(Q) :
             n < m => Tail(Q)[n] = Q[n + 1] /\ Tail(Q)[m] = Q[m + 1] /\ n + 1 \in DOMAIN Q /\ m + 1 \in DOMAIN Q /\ n + 1 < m + 1
      BY <1>6
    <2>3. InOrder(Tail(Q))  BY <2>1, <2>2 DEF InOrder
    <2>4. QED  BY <2>3, <1>4, <1>7, <1>8, <1>9 DEF Q
  <1>10. \A f \in JobEnds : f # e => new[f] = QueueOf(d)[f]  BY <1>4 DEF JobEnds
  <1>11. \A f \in JobEnds : InOrder(new[f]) /\ \A q \in Range(new[f]) : RestOf(q.cells, StepCells(d, f, q))
    BY <1>7, <1>9, <1>10
  <1>12. QED  BY <1>11, <1>5 DEF ShapeOf, new

(* A rank has begun a new call, or none has. *)
LEMMA ShapeSame ==
    ASSUME GroupInv, UNCHANGED <<job, plan>>, NEW d \in Ways, ShapeOf(d), QueueOf(d)' = QueueOf(d),
           \A r \in Ranks : call'[r] = call[r] \/ lanes[r] = <<>>
    PROVE  ShapeOf(d)'
  <1>1. JobEnds' = JobEnds  BY StepCellsSame
  <1>2. ASSUME NEW e \in JobEnds, NEW q \in Range(QueueOf(d)[e])
        PROVE  StepCells(d, e, q)' = StepCells(d, e, q)
    <2>1. e[2] \in Ranks /\ q.id[2] \in DOMAIN lanes[e[2]]  BY RequestOk
    <2>2. lanes[e[2]] # <<>>  BY <2>1, SomeLane
    <2>3. call'[e[2]] = call[e[2]]  BY <2>1, <2>2
    <2>4. QED  BY <2>3, StepCellsSame
  <1>3. QED  BY <1>1, <1>2 DEF ShapeOf

-----------------------------------------------------------------------------
(* Which steps have written a cell *)

(* Which steps of a lane have written a cell *)

LEMMA WritersFacts ==
    ASSUME NEW L, NEW x, NEW m \in Writers(L, x)
    PROVE  /\ m \in DOMAIN L.steps /\ x \in Written(L.steps[m])
           /\ L.steps[m].into = <<>> => x \in Range(L.steps[m].recv)
           /\ L.steps[m].into # <<>> => x \in Range(L.steps[m].into)
  BY DEF Writers, Written

LEMMA OldDone ==
    ASSUME GroupInv, NEW r \in Ranks, NEW l \in DOMAIN lanes[r], NEW m \in DOMAIN Plan(r)[l].steps,
           m + Plan(r)[l].lag < lanes[r][l].step, NEW x
    PROVE  Done(r, l, m, x)
  <1>1. GroupTypeOK /\ LanesInPlan /\ QueuesInWindow  BY DEF GroupInv
  <1>2. PICK L : L = Plan(r)[l]  OBVIOUS
  <1>3. /\ AtStep(L, lanes[r][l]) /\ L.lag \in {0, 1} /\ DOMAIN L.steps = 1..Len(L.steps)
        /\ Len(L.steps) \in Nat /\ L.from \in Ends /\ call[r] \in Nat /\ l \in Nat /\ L.from[2] = r
    BY <1>1, <1>2, LaneFacts
  <1>4. m \in Nat /\ lanes[r][l].step \in Nat /\ m + L.lag < lanes[r][l].step
    BY <1>2, <1>3 DEF AtStep
  <1>5. m < lanes[r][l].step  BY <1>3, <1>4
  <1>6. ASSUME NEW k PROVE ~LanePending("recv", r, l, m, k)
    <2>1. PostedAt("recv", lanes[r][l], m)  BY <1>5, WayFacts
    <2>2. ASSUME NEW q \in Range(recvs[L.from]), q.id = Id(call[r], l, m) PROVE FALSE
      <3>1. RecvOk(L.from, q)  BY <1>1, <1>3 DEF QueuesInWindow
      <3>2. q.id[2] = l /\ q.id[3] = m  BY <2>2, IdFacts
      <3>3. m \in RecvWindow(L, lanes[r][l])  BY <3>1, <3>2, <1>2, <1>3 DEF RecvOk
      <3>4. m >= lanes[r][l].step - L.lag  BY <3>3, <1>3, <1>4 DEF RecvWindow
      <3>5. QED  BY <3>4, <1>3, <1>4
    <2>3. QED  BY <2>1, <2>2, <1>2, WayFacts DEF LanePending
  <1>7. QED  BY <1>6, <1>4, <1>2 DEF Done

LEMMA NotDone ==
    ASSUME GroupInv, NEW r \in Ranks, NEW l \in DOMAIN lanes[r], NEW x,
           NEW m \in Writers(Plan(r)[l], x), lanes[r][l].step < m
    PROVE  ~Done(r, l, m, x)
  <1>1. GroupTypeOK /\ LanesInPlan  BY DEF GroupInv
  <1>2. PICK L : L = Plan(r)[l]  OBVIOUS
  <1>3. AtStep(L, lanes[r][l]) /\ L.lag \in {0, 1} /\ DOMAIN L.steps = 1..Len(L.steps) /\ Len(L.steps) \in Nat
    BY <1>1, <1>2, LaneFacts
  <1>4. /\ m \in DOMAIN L.steps
        /\ L.steps[m].into = <<>> => x \in Range(L.steps[m].recv)
    BY <1>2, WritersFacts
  <1>5. m \in Nat /\ lanes[r][l].step \in Nat /\ lanes[r][l].step < m  BY <1>3, <1>4 DEF AtStep
  <1>6. ~(m + L.lag < lanes[r][l].step)  BY <1>3, <1>5
  <1>7. ~PostedAt("recv", lanes[r][l], m)  BY <1>5, WayFacts
  <1>8. \A k : LanePending("recv", r, l, m, k)  BY <1>7 DEF LanePending
  <1>9. CASE L.steps[m].into = <<>>
    <2>1. PICK k \in DOMAIN L.steps[m].recv : L.steps[m].recv[k] = x  BY <1>9, <1>4 DEF Range
    <2>2. QED  BY <2>1, <1>2, <1>8, <1>9 DEF Done
  <1>10. CASE L.steps[m].into # <<>>  BY <1>10, <1>2, <1>6 DEF Done
  <1>11. QED  BY <1>9, <1>10

(* Of a cell that step i, which is under way, uses: the steps before it     *)
(* have written it, and those after it have not.                            *)
LEMMA DoneBefore ==
    ASSUME GroupInv, NEW r \in Ranks, NEW l \in DOMAIN lanes[r], NEW i \in DOMAIN Plan(r)[l].steps,
           lanes[r][l].step <= i + Plan(r)[l].lag, i <= lanes[r][l].step, NEW x,
           \A m \in Writers(Plan(r)[l], x) : m # i => ~Close(Plan(r)[l], i, m)
    PROVE  \A m \in Writers(Plan(r)[l], x) : m # i => (Done(r, l, m, x) <=> m < i)
  <1>1. GroupTypeOK /\ LanesInPlan  BY DEF GroupInv
  <1>2. PICK L, s : L = Plan(r)[l] /\ s = lanes[r][l].step  OBVIOUS
  <1>3. AtStep(L, lanes[r][l]) /\ L.lag \in {0, 1} /\ DOMAIN L.steps = 1..Len(L.steps) /\ Len(L.steps) \in Nat
    BY <1>1, <1>2, LaneFacts
  <1>4. i \in Nat /\ s \in Nat /\ s <= i + L.lag /\ i <= s  BY <1>2, <1>3 DEF AtStep
  <1> SUFFICES ASSUME NEW m \in Writers(L, x), m # i PROVE Done(r, l, m, x) <=> m < i
    BY <1>2
  <1>5. m \in DOMAIN L.steps /\ m \in Nat  BY <1>3, WritersFacts
  <1>6. m + L.lag < i \/ i + L.lag < m  BY <1>2, <1>3, <1>4, <1>5 DEF Close
  <1>7. CASE m + L.lag < i
    <2>1. m + L.lag < s /\ m < i  BY <1>7, <1>3, <1>4, <1>5
    <2>2. Done(r, l, m, x)  BY <2>1, <1>2, <1>5, OldDone
    <2>3. QED  BY <2>1, <2>2
  <1>8. CASE i + L.lag < m
    <2>1. s < m /\ ~(m < i)  BY <1>8, <1>3, <1>4, <1>5
    <2>2. ~Done(r, l, m, x)  BY <2>1, <1>2, NotDone
    <2>3. QED  BY <2>1, <2>2
  <1>9. QED  BY <1>6, <1>7, <1>8

LEMMA WritersApart ==
    ASSUME NEW L, NEW S, LaneOk(L, S), NEW i \in DOMAIN L.steps, NEW x,
           NEW m \in Writers(L, x), Close(L, i, m)
    PROVE  /\ x \notin Range(L.steps[i].send)
           /\ m # i => x \notin Written(L.steps[i])
  <1>1. m \in DOMAIN L.steps /\ x \in Written(L.steps[m])  BY WritersFacts
  <1>2. Close(L, m, i)  BY DEF Close
  <1>3. x \in Range(L.steps[m].recv) \/ x \in Range(L.steps[m].into)  BY <1>1 DEF Written
  <1>4. StepsApart(L.steps[i], L.steps[m]) /\ StepsApart(L.steps[m], L.steps[i])
    BY <1>1, <1>2 DEF LaneOk
  <1>5. x \notin Range(L.steps[i].send)  BY <1>3, <1>4 DEF StepsApart
  <1>6. ASSUME m # i PROVE x \notin Written(L.steps[i])
    <2>1. /\ Range(L.steps[i].recv) \cap Range(L.steps[m].recv) = {}
          /\ Range(L.steps[i].into) \cap Range(L.steps[m].into) = {}
      BY <1>1, <1>6 DEF LaneOk
    <2>2. /\ Range(L.steps[i].into) \cap Range(L.steps[m].recv) = {}
          /\ Range(L.steps[m].into) \cap Range(L.steps[i].recv) = {}
      BY <1>4 DEF StepsApart
    <2>3. QED  BY <1>3, <2>1, <2>2 DEF Written
  <1>7. QED  BY <1>5, <1>6

LEMMA UnderWay ==
    ASSUME GroupInv, NEW r \in Ranks, NEW l \in DOMAIN lanes[r], NEW i,
           lanes[r][l].step <= i + Plan(r)[l].lag, i <= lanes[r][l].step, NEW x, i \in DOMAIN Plan(r)[l].steps
    PROVE  /\ x \in Range(Plan(r)[l].steps[i].send) => DoneWriters(r, l, x) = Before(Plan(r)[l], x, i)
           /\ x \in Written(Plan(r)[l].steps[i]) =>
                 DoneWriters(r, l, x) \ {i} = Before(Plan(r)[l], x, i) /\ i \in Writers(Plan(r)[l], x)
  <1>1. GroupTypeOK /\ LanesInPlan  BY DEF GroupInv
  <1>2. PICK L : L = Plan(r)[l]  OBVIOUS
  <1>3. /\ LaneOk(L, LaneMemory(L)) /\ L.lag \in {0, 1} /\ DOMAIN L.steps = 1..Len(L.steps)
        /\ Len(L.steps) \in Nat
    BY <1>1, <1>2, LaneFacts
  <1>4. i \in DOMAIN L.steps /\ i \in Nat /\ Close(L, i, i)
    <2>1. i \in DOMAIN L.steps /\ i \in Nat  BY <1>2, <1>3
    <2>2. QED  BY <2>1, <1>3 DEF Close
  <1>5. \A m \in Writers(L, x) : m \in Nat  BY <1>3, WritersFacts
  <1>6. x \in Range(L.steps[i].send) => \A m \in Writers(L, x) : m # i /\ ~Close(L, i, m)
    BY <1>3, <1>4, WritersApart
  <1>7. x \in Written(L.steps[i]) => \A m \in Writers(L, x) : m # i => ~Close(L, i, m)
    BY <1>3, <1>4, WritersApart
  <1>8. (x \in Range(L.steps[i].send) \/ x \in Written(L.steps[i])) =>
           \A m \in Writers(L, x) : m # i => (Done(r, l, m, x) <=> m < i)
    <2>1. (\A m \in Writers(L, x) : m # i => ~Close(L, i, m)) =>
             \A m \in Writers(L, x) : m # i => (Done(r, l, m, x) <=> m < i)
      BY <1>2, DoneBefore
    <2>2. QED  BY <2>1, <1>6, <1>7
  <1>9. ~(i < i)  BY <1>4
  <1>10. DoneWriters(r, l, x) = {m \in Writers(L, x) : Done(r, l, m, x)}  BY <1>2 DEF DoneWriters
  <1>11. Before(L, x, i) = {m \in Writers(L, x) : m < i}  BY DEF Before
  <1>12. ASSUME x \in Range(L.steps[i].send) PROVE DoneWriters(r, l, x) = Before(L, x, i)
    BY <1>6, <1>8, <1>10, <1>11, <1>12
  <1>13. ASSUME x \in Written(L.steps[i])
         PROVE  DoneWriters(r, l, x) \ {i} = Before(L, x, i) /\ i \in Writers(L, x)
    <2>1. i \in Writers(L, x)  BY <1>13, <1>4 DEF Writers
    <2>2. QED  BY <2>1, <1>8, <1>9, <1>10, <1>11, <1>13
  <1>14. QED  BY <1>12, <1>13, <1>2

-----------------------------------------------------------------------------
(* Steps, seen as steps of the queues and of the streams *)

LEMMA OneMore ==
    ASSUME NEW S, NEW q \in Seq(S), NEW f, NEW v, f[1] = v
    PROVE  q \o [k \in 1..1 |-> f[k]] = Append(q, v)
  <1> DEFINE one == [k \in 1..1 |-> f[k]]
  <1>1. one = <<v>>  OBVIOUS
  <1> HIDE DEF one
  <1>2. q \o <<v>> = Append(q, v)  OBVIOUS
  <1>3. QED  BY <1>1, <1>2 DEF one

LEMMA OneLess ==
    ASSUME NEW S, NEW q \in Seq(S), q # <<>>
    PROVE  SubSeq(q, 1 + 1, Len(q)) = Tail(q)
  OBVIOUS

(* What a worker does, seen as steps of the queues. *)
MovesOut(e) ==
    /\ e \in JobEnds /\ UNCHANGED <<job, plan, call, lanes>>
    /\ QueueOf("send")[e] # <<>> /\ 1 <= Len(Head(QueueOf("send")[e]).cells)
    /\ QueueOf("send")' = HeadStep(QueueOf("send"), e)
    /\ QueueOf("recv")' = QueueOf("recv") /\ mem' = mem
    /\ DOMAIN pipe' = DOMAIN pipe /\ \A f \in Ends : f # e => pipe'[f] = pipe[f]
    /\ pipe'[e] = Append(pipe[e], mem[Head(QueueOf("send")[e]).cells[1]])
MovesIn(e) ==
    /\ e \in JobEnds /\ UNCHANGED <<job, plan, call, lanes>>
    /\ QueueOf("recv")[e] # <<>> /\ 1 <= Len(Head(QueueOf("recv")[e]).cells)
    /\ QueueOf("recv")' = HeadStep(QueueOf("recv"), e)
    /\ QueueOf("send")' = QueueOf("send")
    /\ DOMAIN pipe' = DOMAIN pipe /\ \A f \in Ends : f # PeerOf[e] => pipe'[f] = pipe[f]
    /\ pipe[PeerOf[e]] # <<>> /\ pipe'[PeerOf[e]] = Tail(pipe[PeerOf[e]])
    /\ \A x \in Cells : mem'[x] = IF x = Head(QueueOf("recv")[e]).cells[1] THEN pipe[PeerOf[e]][1] ELSE mem[x]

LEMMA HeadInRange ==
    ASSUME NEW S, NEW q \in Seq(S), q # <<>>
    PROVE  Head(q) \in Range(q) /\ Head(q) \in S
  <1>1. 1 \in DOMAIN q /\ Head(q) = q[1]  OBVIOUS
  <1>2. QED  BY <1>1 DEF Range

LEMMA QueueEnd ==
    ASSUME GroupInv, NEW d \in Ways, NEW e \in Ends, QueueOf(d)[e] # <<>>
    PROVE  e \in JobEnds /\ Head(QueueOf(d)[e]) \in Range(QueueOf(d)[e]) /\ Head(QueueOf(d)[e]) \in Request
  <1>1. GroupTypeOK /\ QueuesInWindow  BY DEF GroupInv
  <1>2. QueueOf(d)[e] \in Seq(Request)  BY <1>1 DEF GroupTypeOK, QueueOf
  <1>3. PICK q : q = Head(QueueOf(d)[e]) /\ q \in Range(QueueOf(d)[e]) /\ q \in Request
    BY <1>2, HeadInRange
  <1>4. e[1] = job.ranks
    <2>1. CASE d = "send"
      <3>1. SendOk(e, q)  BY <1>1, <1>3, <2>1 DEF QueuesInWindow, QueueOf
      <3>2. QED  BY <3>1 DEF SendOk
    <2>2. CASE d = "recv"
      <3>1. RecvOk(e, q)  BY <1>1, <1>3, <2>2 DEF QueuesInWindow, QueueOf
      <3>2. QED  BY <3>1 DEF RecvOk
    <2>3. QED  BY <2>1, <2>2 DEF Ways
  <1>5. QED  BY <1>3, <1>4 DEF JobEnds

LEMMA MoveOutIs ==
    ASSUME GroupInv, FlowInv, NEW e \in Ends, UNCHANGED <<setupVars, callVars>>, Conn!MoveOut(e, 1)
    PROVE  MovesOut(e)
  <1>1. /\ sends[e] # <<>> /\ 1 <= Len(Head(sends[e]).cells) /\ UNCHANGED <<recvs, mem>>
        /\ sends' = HeadStep(sends, e)
        /\ pipe' = [pipe EXCEPT ![e] = @ \o [k \in 1..1 |-> mem[Head(sends[e]).cells[k]]]]
    BY DEF Conn!MoveOut, Conn!CanSend, HeadStep
  <1>2. e \in JobEnds  BY <1>1, WayFacts, QueueEnd
  <1>3. UNCHANGED <<job, plan, call, lanes>>  BY DEF setupVars, callVars
  <1> DEFINE cells == Head(sends[e]).cells
             more == [k \in 1..1 |-> mem[cells[k]]]
  <1>4. pipe[e] \in Seq(Range(pipe[e])) /\ DOMAIN pipe = Ends  BY <1>2 DEF FlowInv, Flow, Stream
  <1>5. pipe[e] \o more = Append(pipe[e], mem[cells[1]])
    <2> DEFINE f == [k \in 1..1 |-> mem[cells[k]]]
    <2>1. f[1] = mem[cells[1]]  OBVIOUS
    <2>2. more = [k \in 1..1 |-> f[k]]  OBVIOUS
    <2> HIDE DEF f, more, cells
    <2>3. QED  BY <2>1, <2>2, <1>4, OneMore
  <1>6. pipe' = [pipe EXCEPT ![e] = pipe[e] \o more]  BY <1>1
  <1> HIDE DEF more
  <1>7. /\ DOMAIN pipe' = DOMAIN pipe /\ \A f \in Ends : f # e => pipe'[f] = pipe[f]
        /\ pipe'[e] = Append(pipe[e], mem[cells[1]])
    BY <1>4, <1>5, <1>6
  <1>8. QED  BY <1>1, <1>2, <1>3, <1>7, WayFacts DEF MovesOut, QueueOf

LEMMA MoveInIs ==
    ASSUME GroupInv, FlowInv, NEW e \in Ends, UNCHANGED <<setupVars, callVars>>, Conn!MoveIn(e, 1)
    PROVE  MovesIn(e)
  <1> DEFINE cells == Head(recvs[e]).cells
             p == PeerOf[e]
  <1>1. /\ recvs[e] # <<>> /\ 1 <= Len(Head(recvs[e]).cells) /\ UNCHANGED sends
        /\ 1 <= Len(pipe[p])
        /\ recvs' = HeadStep(recvs, e)
        /\ pipe' = [pipe EXCEPT ![p] = SubSeq(@, 1 + 1, Len(@))]
        /\ mem' = [x \in Cells |-> IF \E k \in 1..1 : cells[k] = x
                                   THEN pipe[p][CHOOSE k \in 1..1 : cells[k] = x] ELSE mem[x]]
    BY DEF Conn!MoveIn, Conn!CanReceive, HeadStep
  <1>2. e \in JobEnds /\ p \in JobEnds /\ p \in Ends
    <2>1. e \in JobEnds  BY <1>1, WayFacts, QueueEnd
    <2>2. QED  BY <2>1, JobEndFacts DEF GroupInv, JobEnds
  <1>3. UNCHANGED <<job, plan, call, lanes>>  BY DEF setupVars, callVars
  <1>4. pipe[p] \in Seq(Range(pipe[p])) /\ DOMAIN pipe = Ends  BY <1>2 DEF FlowInv, Flow, Stream
  <1> HIDE DEF p
  <1>5. pipe[p] # <<>> /\ SubSeq(pipe[p], 1 + 1, Len(pipe[p])) = Tail(pipe[p])
    <2>1. pipe[p] # <<>>  BY <1>1, <1>4
    <2>2. QED  BY <2>1, <1>4, OneLess
  <1>6. /\ DOMAIN pipe' = DOMAIN pipe /\ \A f \in Ends : f # p => pipe'[f] = pipe[f]
        /\ pipe'[p] = Tail(pipe[p])
    BY <1>1, <1>2, <1>4, <1>5
  <1>7. \A x \in Cells : mem'[x] = IF x = cells[1] THEN pipe[p][1] ELSE mem[x]
    <2> HIDE DEF cells
    <2> SUFFICES ASSUME NEW x \in Cells PROVE mem'[x] = IF x = cells[1] THEN pipe[p][1] ELSE mem[x]
      OBVIOUS
    <2>1. (\E k \in 1..1 : cells[k] = x) <=> x = cells[1]  OBVIOUS
    <2>2. x = cells[1] => (CHOOSE k \in 1..1 : cells[k] = x) = 1  OBVIOUS
    <2>3. mem'[x] = IF \E k \in 1..1 : cells[k] = x
                    THEN pipe[p][CHOOSE k \in 1..1 : cells[k] = x] ELSE mem[x]
      BY <1>1
    <2>4. QED  BY <2>1, <2>2, <2>3
  <1>8. QED  BY <1>1, <1>2, <1>3, <1>5, <1>6, <1>7, WayFacts DEF MovesIn, QueueOf, p

(* The streams *)

LEMMA CarriesSame ==
    ASSUME job' = job, NEW e, NEW t, NEW v
    PROVE  Carries(e, t, v)' <=> Carries(e, t, v)
  <1>1. \A c, l : Moves(job', "send", e, c, l, t) = Moves(job, "send", e, c, l, t)  BY MovesSame
  <1>2. QED  BY <1>1 DEF Carries

LEMMA FlowSame ==
    ASSUME job' = job, NEW e \in JobEnds, Flow(e), pipe'[e] = pipe[e],
           Pending("send", e)' = Pending("send", e), Pending("recv", PeerOf[e])' = Pending("recv", PeerOf[e])
    PROVE  Flow(e)'
  <1>1. AllTags("send", e)' = AllTags("send", e)  BY MovesSame
  <1>2. Upper(e)'  BY <1>1 DEF Flow, Upper
  <1>3. (Pending("send", e) \subseteq Pending("recv", PeerOf[e]))'  BY DEF Flow
  <1>4. PICK G \in Seq(Tags) : Stream(e, G)  BY DEF Flow
  <1>5. \A n \in DOMAIN G : Carries(e, G[n], pipe[e][n])  BY <1>4 DEF Stream
  <1>6. \A n \in DOMAIN G : Carries(e, G[n], pipe[e][n])'
    <2> SUFFICES ASSUME NEW n \in DOMAIN G PROVE Carries(e, G[n], pipe[e][n])'  OBVIOUS
    <2>1. PICK v : v = pipe[e][n]  OBVIOUS
    <2>2. Carries(e, G[n], v)  BY <1>5, <2>1
    <2>3. Carries(e, G[n], v)'  BY <2>2, CarriesSame
    <2>4. v = pipe'[e][n]  BY <2>1
    <2>5. QED  BY <2>3, <2>4 DEF Carries
  <1>7. Stream(e, G)'  BY <1>4, <1>6 DEF Stream
  <1>8. QED  BY <1>2, <1>3, <1>4, <1>7 DEF Flow

LEMMA StillFlows ==
    ASSUME GroupInv, FlowInv, job' = job, pipe' = pipe, PendingKept
    PROVE  FlowInv'
  <1>1. JobEnds' = JobEnds  BY DEF JobEnds
  <1>2. \A e \in JobEnds : PeerOf[e] \in JobEnds  BY JobEndFacts DEF GroupInv
  <1>3. "send" \in Ways /\ "recv" \in Ways  BY WayFacts
  <1>4. \A e \in JobEnds : Pending("send", e)' = Pending("send", e) /\ Pending("recv", PeerOf[e])' = Pending("recv", PeerOf[e])
    BY <1>2, <1>3 DEF PendingKept
  <1>5. \A e \in JobEnds : Flow(e)'  BY <1>4, FlowSame DEF FlowInv
  <1>6. QED  BY <1>1, <1>5 DEF FlowInv

LEMMA SameTags ==
    ASSUME AllMatched, GroupTypeOK, NEW e \in JobEnds
    PROVE  AllTags("send", e) = AllTags("recv", PeerOf[e])
  <1>1. e \in Ends /\ e[1] = job.ranks /\ e[2] \in RanksOf(job) /\ job \in Jobs
    BY JobEndFacts DEF Ranks
  <1>2. \A c, l, t : Moves(job, "send", e, c, l, t) => \E d : Moves(job, "recv", PeerOf[e], d, l, t)
    BY <1>1, SentIsReceived
  <1>3. \A d, l, t : Moves(job, "recv", PeerOf[e], d, l, t) => \E c : Moves(job, "send", e, c, l, t)
    BY <1>1, ReceivedIsSent
  <1>4. QED  BY <1>2, <1>3 DEF AllTags

LEMMA MovedOnce ==
    ASSUME AllMatched, GroupTypeOK, NEW d \in Ways, NEW e \in JobEnds,
           NEW c, NEW l, NEW t, Moves(job, d, e, c, l, t), NEW x, NEW m, Moves(job, d, e, x, m, t), t.round \in Nat
    PROVE  x = c /\ m = l
  <1>1. e \in Ends /\ e[1] = job.ranks /\ e[2] \in RanksOf(job) /\ job \in Jobs
    BY JobEndFacts DEF Ranks
  <1>2. c \in DOMAIN job.calls[e[2]] /\ x \in DOMAIN job.calls[e[2]]  BY DEF Moves
  <1>3. c \in Nat /\ x \in Nat  BY <1>1, <1>2, CallFacts
  <1>4. ~(c < x)  BY <1>1, MovesInOrder
  <1>5. ~(x < c)  BY <1>1, MovesInOrder
  <1>6. x = c  BY <1>3, <1>4, <1>5
  <1>7. /\ l \in DOMAIN Lanes(job, e[2], c) /\ m \in DOMAIN Lanes(job, e[2], c)
        /\ EndOf(d, Lanes(job, e[2], c)[l]) = e /\ EndOf(d, Lanes(job, e[2], c)[m]) = e
    BY <1>6 DEF Moves
  <1>8. m # l => /\ Lanes(job, e[2], c)[l].to # Lanes(job, e[2], c)[m].to
                 /\ Lanes(job, e[2], c)[l].from # Lanes(job, e[2], c)[m].from
    BY <1>1, <1>2, <1>7, LanesFacts
  <1>9. m = l  BY <1>7, <1>8 DEF EndOf
  <1>10. QED  BY <1>6, <1>9

LEMMA PendingWithin == \A d, e : Pending(d, e) \subseteq AllTags(d, e) /\ AllTags(d, e) \subseteq Tags
  BY DEF Pending, AllTags

LEMMA CarriesSent ==
    ASSUME AllMatched, GroupTypeOK, NEW e \in JobEnds, NEW c, NEW l, NEW t \in Tags, Moves(job, "send", e, c, l, t)
    PROVE  Carries(e, t, SentValue(job, e[2], c, l, t.step, t.cell))
  <1>1. "send" \in Ways /\ t.round \in Nat  BY WayFacts DEF Tags
  <1>2. \A x, m : Moves(job, "send", e, x, m, t) => x = c /\ m = l  BY <1>1, MovedOnce
  <1>3. QED  BY <1>2 DEF Carries

LEMMA MoveOutPending ==
    ASSUME AllMatched, GroupInv, QueueShape, NEW e, MovesOut(e)
    PROVE  /\ e \in JobEnds /\ UNCHANGED <<job, plan, call, lanes>>
           /\ FirstTag("send", e) \in Pending("send", e)
           /\ Moves(job, "send", e, call[e[2]], Head(QueueOf("send")[e]).id[2], FirstTag("send", e))
           /\ \A u \in Pending("send", e) : u = FirstTag("send", e) \/ Earlier(FirstTag("send", e), u)
           /\ Pending("send", e)' = Pending("send", e) \ {FirstTag("send", e)}
           /\ \A f \in JobEnds : f # e => Pending("send", f)' = Pending("send", f)
           /\ \A f \in JobEnds : Pending("recv", f)' = Pending("recv", f)
  <1>1. PICK d, o : d = "send" /\ o = "recv"  OBVIOUS
  <1>2. d \in Ways /\ o \in Ways  BY <1>1, WayFacts
  <1>3. /\ e \in JobEnds /\ UNCHANGED <<job, plan, call, lanes>>
        /\ QueueOf(d)[e] # <<>> /\ 1 <= Len(Head(QueueOf(d)[e]).cells)
        /\ QueueOf(d)' = HeadStep(QueueOf(d), e) /\ QueueOf(o)' = QueueOf(o)
    BY <1>1 DEF MovesOut
  <1>4. /\ FirstTag(d, e) \in Pending(d, e)
        /\ Moves(job, d, e, call[e[2]], Head(QueueOf(d)[e]).id[2], FirstTag(d, e))
        /\ \A u \in Pending(d, e) : u = FirstTag(d, e) \/ Earlier(FirstTag(d, e), u)
    BY <1>2, <1>3, FirstIsFirst
  <1>5. /\ Pending(d, e)' = Pending(d, e) \ {FirstTag(d, e)}
        /\ \A f \in JobEnds : f # e => Pending(d, f)' = Pending(d, f)
    BY <1>2, <1>3, MovePending
  <1>6. LaneKept(o)  BY <1>2, <1>3, StillPending
  <1>7. \A f \in JobEnds : Pending(o, f)' = Pending(o, f)  BY <1>2, <1>3, <1>6, PendingSame
  <1>8. QED  BY <1>1, <1>3, <1>4, <1>5, <1>7

LEMMA MoveInPending ==
    ASSUME AllMatched, GroupInv, QueueShape, NEW e, MovesIn(e)
    PROVE  /\ e \in JobEnds /\ UNCHANGED <<job, plan, call, lanes>>
           /\ FirstTag("recv", e) \in Pending("recv", e)
           /\ Moves(job, "recv", e, call[e[2]], Head(QueueOf("recv")[e]).id[2], FirstTag("recv", e))
           /\ \A u \in Pending("recv", e) : u = FirstTag("recv", e) \/ Earlier(FirstTag("recv", e), u)
           /\ Pending("recv", e)' = Pending("recv", e) \ {FirstTag("recv", e)}
           /\ \A f \in JobEnds : f # e => Pending("recv", f)' = Pending("recv", f)
           /\ \A f \in JobEnds : Pending("send", f)' = Pending("send", f)
  <1>1. PICK d, o : d = "recv" /\ o = "send"  OBVIOUS
  <1>2. d \in Ways /\ o \in Ways  BY <1>1, WayFacts
  <1>3. /\ e \in JobEnds /\ UNCHANGED <<job, plan, call, lanes>>
        /\ QueueOf(d)[e] # <<>> /\ 1 <= Len(Head(QueueOf(d)[e]).cells)
        /\ QueueOf(d)' = HeadStep(QueueOf(d), e) /\ QueueOf(o)' = QueueOf(o)
    BY <1>1 DEF MovesIn
  <1>4. /\ FirstTag(d, e) \in Pending(d, e)
        /\ Moves(job, d, e, call[e[2]], Head(QueueOf(d)[e]).id[2], FirstTag(d, e))
        /\ \A u \in Pending(d, e) : u = FirstTag(d, e) \/ Earlier(FirstTag(d, e), u)
    BY <1>2, <1>3, FirstIsFirst
  <1>5. /\ Pending(d, e)' = Pending(d, e) \ {FirstTag(d, e)}
        /\ \A f \in JobEnds : f # e => Pending(d, f)' = Pending(d, f)
    BY <1>2, <1>3, MovePending
  <1>6. LaneKept(o)  BY <1>2, <1>3, StillPending
  <1>7. \A f \in JobEnds : Pending(o, f)' = Pending(o, f)  BY <1>2, <1>3, <1>6, PendingSame
  <1>8. QED  BY <1>1, <1>3, <1>4, <1>5, <1>7

(* A cell is sent: the stream of the end grows. *)
LEMMA FlowOut ==
    ASSUME AllMatched, GroupInv, QueueShape, FlowInv, NEW e, MovesOut(e),
           Carries(e, FirstTag("send", e), mem[Head(QueueOf("send")[e]).cells[1]])
    PROVE  FlowInv'
  <1>1. GroupTypeOK  BY DEF GroupInv
  <1> DEFINE A == AllTags("send", e)
             P == Pending("send", e)
             Q == Pending("recv", PeerOf[e])
  <1>0. PICK t, v : t = FirstTag("send", e) /\ v = mem[Head(QueueOf("send")[e]).cells[1]]  OBVIOUS
  <1>2. /\ e \in JobEnds /\ UNCHANGED <<job, plan, call, lanes>>
        /\ t \in P /\ \A u \in P : u = t \/ Earlier(t, u)
        /\ P' = P \ {t}
        /\ \A f \in JobEnds : f # e => Pending("send", f)' = Pending("send", f)
        /\ \A f \in JobEnds : Pending("recv", f)' = Pending("recv", f)
    BY <1>0, MoveOutPending
  <1>3. \A f \in JobEnds : PeerOf[f] \in JobEnds /\ f \in Ends  BY <1>1, JobEndFacts
  <1>4. JobEnds' = JobEnds  BY <1>2 DEF JobEnds
  <1>5. /\ DOMAIN pipe' = DOMAIN pipe /\ \A f \in Ends : f # e => pipe'[f] = pipe[f]
        /\ pipe'[e] = Append(pipe[e], v)
    BY <1>0 DEF MovesOut
  <1>6. \A f \in JobEnds : f # e => Flow(f)'  BY <1>2, <1>3, <1>5, FlowSame DEF FlowInv
  <1>7. Upper(e) /\ P \subseteq Q  BY <1>2 DEF FlowInv, Flow
  <1>8. PICK G \in Seq(Tags) : Stream(e, G)  BY <1>2 DEF FlowInv, Flow
  <1>9. A \subseteq Tags /\ P \subseteq A /\ Q \subseteq A
    BY <1>1, <1>2, SameTags, PendingWithin
  <1>10. Carries(e, t, v)  BY <1>0 DEF Carries
  <1>11. A' = A /\ Q' = Q  BY <1>2, <1>3, MovesSame
  <1>12. \A x \in P, u \in A : Earlier(x, u) => u \in P  BY <1>7 DEF Upper
  <1>13. /\ pipe[e] \in Seq(Range(pipe[e])) /\ Len(G) = Len(pipe[e]) /\ Increasing(G) /\ Range(G) = Q \ P
         /\ \A n \in DOMAIN G : Carries(e, G[n], pipe[e][n])
    BY <1>8 DEF Stream
  <1> HIDE DEF A, P, Q
  <1>14. Window(A, P \ {t}, Q) /\ Between(Append(G, t), P \ {t}, Q)
    <2>1. Window(A, P, Q)  BY <1>7, <1>9, <1>12 DEF Window, P, Q
    <2>2. Between(G, P, Q)  BY <1>13 DEF Between
    <2>3. FirstOf(P, t)  BY <1>2 DEF FirstOf
    <2>4. QED  BY <2>1, <2>2, <2>3, StreamGrows
  <1>15. Upper(e)'
    <2>1. \A x \in P', u \in A' : Earlier(x, u) => u \in P'  BY <1>2, <1>11, <1>14 DEF Window
    <2>2. QED  BY <2>1 DEF Upper, A, P
  <1>16. (Pending("send", e) \subseteq Pending("recv", PeerOf[e]))'
    BY <1>2, <1>11, <1>14 DEF P, Q, Window, Between
  <1>17. /\ pipe'[e] \in Seq(Range(pipe'[e])) /\ Len(Append(G, t)) = Len(pipe'[e])
    <2>1. PICK q, S : q = pipe[e] /\ S = Range(pipe[e]) \cup {v}  OBVIOUS
    <2>2. q \in Seq(S) /\ v \in S
      <3>1. q \in Seq(Range(q)) /\ Range(q) \subseteq S  BY <1>13, <2>1
      <3>2. Range(q) \in SUBSET S  BY <3>1
      <3>3. q \in Seq(S)  BY <3>1, <3>2, Retyped
      <3>4. QED  BY <3>3, <2>1
    <2>3. Append(q, v) \in Seq(S) /\ Len(Append(q, v)) = Len(q) + 1  BY <2>2
    <2>4. Range(Append(q, v)) = Range(q) \cup {v}  BY <2>2, AppendIsRange
    <2>5. S = Range(Append(q, v))  BY <2>1, <2>4
    <2>6. Len(Append(G, t)) = Len(G) + 1  BY <1>8, <1>2, <1>9
    <2>7. QED  BY <2>1, <2>3, <2>5, <2>6, <1>5, <1>13
  <1>18. \A n \in DOMAIN Append(G, t) : Carries(e, Append(G, t)[n], pipe[e][n])'
    <2> SUFFICES ASSUME NEW n \in DOMAIN Append(G, t) PROVE Carries(e, Append(G, t)[n], pipe[e][n])'
      OBVIOUS
    <2>1. PICK q, S : q = pipe[e] /\ S = Range(pipe[e])  OBVIOUS
    <2>2. q \in Seq(S) /\ Len(q) = Len(G)  BY <1>13, <2>1
    <2>3. PICK w, u : w = Append(q, v)[n] /\ u = Append(G, t)[n]  OBVIOUS
    <2>4. G \in Seq(Tags) /\ DOMAIN Append(G, t) = 1..Len(G) + 1 /\ Len(G) \in Nat /\ DOMAIN G = 1..Len(G)
      BY <1>8
    <2>5. Carries(e, u, w)
      <3>1. CASE n = Len(G) + 1
        <4>1. u = t /\ w = v  BY <3>1, <2>2, <2>3, <2>4
        <4>2. QED  BY <4>1, <1>10
      <3>2. CASE n # Len(G) + 1
        <4>1. n \in DOMAIN G /\ n \in 1..Len(q)  BY <3>2, <2>4, <2>2
        <4>2. u = G[n] /\ w = q[n]  BY <4>1, <2>2, <2>3, <2>4
        <4>3. Carries(e, G[n], pipe[e][n])  BY <1>13, <4>1
        <4>4. QED  BY <4>2, <4>3, <2>1
      <3>3. QED  BY <3>1, <3>2
    <2>6. Carries(e, u, w)'  BY <2>5, <1>2, CarriesSame
    <2>7. w = pipe'[e][n]  BY <2>1, <2>3, <1>5
    <2>8. QED  BY <2>3, <2>6, <2>7 DEF Carries
  <1>19. Stream(e, Append(G, t))'
    <2>1. Range(Append(G, t)) = Pending("recv", PeerOf[e])' \ Pending("send", e)'
      BY <1>2, <1>11, <1>14 DEF P, Q, Window, Between
    <2>2. QED  BY <2>1, <1>14, <1>17, <1>18 DEF Stream, Between
  <1>20. Flow(e)'  BY <1>14, <1>15, <1>16, <1>19 DEF Flow, Between
  <1>21. DOMAIN pipe' = Ends  BY <1>5 DEF FlowInv
  <1>22. QED  BY <1>4, <1>6, <1>20, <1>21 DEF FlowInv

(* A cell arrives: the stream of the peer shrinks. *)
LEMMA FlowIn ==
    ASSUME AllMatched, GroupInv, QueueShape, FlowInv, NEW e, MovesIn(e)
    PROVE  FlowInv' /\ Carries(PeerOf[e], FirstTag("recv", e), pipe[PeerOf[e]][1])
  <1>1. GroupTypeOK  BY DEF GroupInv
  <1> DEFINE p == PeerOf[e]
             A == AllTags("send", p)
             P == Pending("send", p)
             Q == Pending("recv", e)
  <1>0. PICK t : t = FirstTag("recv", e)  OBVIOUS
  <1>2. /\ e \in JobEnds /\ UNCHANGED <<job, plan, call, lanes>>
        /\ t \in Q /\ \A u \in Q : u = t \/ Earlier(t, u)
        /\ Q' = Q \ {t}
        /\ \A f \in JobEnds : f # e => Pending("recv", f)' = Pending("recv", f)
        /\ \A f \in JobEnds : Pending("send", f)' = Pending("send", f)
    BY <1>0, MoveInPending
  <1>3. /\ \A f \in JobEnds : PeerOf[f] \in JobEnds /\ f \in Ends /\ PeerOf[PeerOf[f]] = f
        /\ p \in JobEnds /\ p \in Ends /\ PeerOf[p] = e
    BY <1>1, <1>2, JobEndFacts
  <1>4. JobEnds' = JobEnds  BY <1>2 DEF JobEnds
  <1>5. /\ DOMAIN pipe' = DOMAIN pipe /\ \A f \in Ends : f # p => pipe'[f] = pipe[f]
        /\ pipe[p] # <<>> /\ pipe'[p] = Tail(pipe[p])
    BY DEF MovesIn
  <1>6. ASSUME NEW f \in JobEnds, f # p PROVE Flow(f)'
    <2>1. PeerOf[f] # e  BY <1>3, <1>6
    <2>2. PeerOf[f] \in JobEnds /\ f \in Ends  BY <1>3
    <2>3. Pending("recv", PeerOf[f])' = Pending("recv", PeerOf[f]) /\ Pending("send", f)' = Pending("send", f)
      BY <1>2, <2>1, <2>2
    <2>4. pipe'[f] = pipe[f] /\ Flow(f) /\ job' = job  BY <1>2, <1>5, <1>6, <2>2 DEF FlowInv
    <2>5. QED  BY <2>3, <2>4, FlowSame
  <1>7. Upper(p) /\ P \subseteq Q
    <2>1. Flow(p)  BY <1>3 DEF FlowInv
    <2>2. QED  BY <2>1, <1>3 DEF Flow
  <1>8. PICK G \in Seq(Tags) : Stream(p, G)  BY <1>3 DEF FlowInv, Flow
  <1>9. A \subseteq Tags /\ P \subseteq A /\ Q \subseteq A
    <2>1. A = AllTags("recv", PeerOf[p])  BY <1>1, <1>3, SameTags
    <2>2. A = AllTags("recv", e)  BY <2>1, <1>3
    <2>3. QED  BY <2>2, PendingWithin
  <1>11. A' = A /\ P' = P  BY <1>2, <1>3, MovesSame
  <1>12. \A x \in P, u \in A : Earlier(x, u) => u \in P  BY <1>7 DEF Upper
  <1>13. /\ pipe[p] \in Seq(Range(pipe[p])) /\ Len(G) = Len(pipe[p]) /\ Increasing(G) /\ Range(G) = Q \ P
         /\ \A n \in DOMAIN G : Carries(p, G[n], pipe[p][n])
    BY <1>3, <1>8 DEF Stream
  <1> HIDE DEF A, P, Q, p
  <1>14. t = G[1] /\ Window(A, P, Q \ {t}) /\ Between(Tail(G), P, Q \ {t})
    <2>1. Window(A, P, Q)  BY <1>7, <1>9, <1>12 DEF Window
    <2>2. Between(G, P, Q)  BY <1>13 DEF Between
    <2>3. FirstOf(Q, t)  BY <1>2 DEF FirstOf
    <2>4. G # <<>>
      <3>1. Len(pipe[p]) # 0  BY <1>13, <1>5
      <3>2. QED  BY <3>1, <1>13
    <2>5. QED  BY <2>1, <2>2, <2>3, <2>4, StreamShrinks
  <1>15. PICK q, S : q = pipe[p] /\ S = Range(pipe[p])  OBVIOUS
  <1>16. /\ q \in Seq(S) /\ q # <<>> /\ Len(q) = Len(G) /\ 1 \in DOMAIN G /\ DOMAIN G = 1..Len(G)
         /\ Len(G) \in Nat /\ pipe'[p] = Tail(q)
    <2>1. q \in Seq(S) /\ q # <<>> /\ Len(q) = Len(G) /\ pipe'[p] = Tail(q)  BY <1>5, <1>13, <1>15
    <2>2. Len(q) \in Nat /\ Len(q) >= 1  BY <2>1
    <2>3. QED  BY <2>1, <2>2
  <1>17. Carries(p, t, q[1])
    <2>1. Carries(p, G[1], pipe[p][1])  BY <1>13, <1>16
    <2>2. QED  BY <2>1, <1>14, <1>15
  <1>18. PICK H : H = Tail(G)  OBVIOUS
  <1>19. /\ H \in Seq(Tags) /\ Len(H) = Len(G) - 1 /\ DOMAIN H = 1..Len(G) - 1
         /\ \A n \in 1..Len(G) - 1 : H[n] = G[n + 1] /\ Tail(q)[n] = q[n + 1] /\ n + 1 \in DOMAIN G
         /\ Len(Tail(q)) = Len(G) - 1
    BY <1>8, <1>16, <1>18
  <1>20. \A n \in DOMAIN H : Carries(p, H[n], pipe[p][n])'
    <2> SUFFICES ASSUME NEW n \in DOMAIN H PROVE Carries(p, H[n], pipe[p][n])'  OBVIOUS
    <2>1. PICK w, u, f : w = Tail(q)[n] /\ u = H[n] /\ f = p  OBVIOUS
    <2>2. u = G[n + 1] /\ w = q[n + 1] /\ n + 1 \in DOMAIN G  BY <1>19, <2>1
    <2>3. Carries(p, G[n + 1], pipe[p][n + 1])  BY <1>13, <2>2
    <2>4. Carries(f, u, w)  BY <2>1, <2>2, <2>3, <1>15
    <2>5. Carries(f, u, w)'  BY <2>4, <1>2, CarriesSame
    <2>6. w = pipe'[p][n] /\ p' = f  BY <2>1, <1>16 DEF p
    <2>7. QED  BY <2>1, <2>5, <2>6 DEF Carries
  <1>21. pipe'[p] \in Seq(Range(pipe'[p]))
    <2>1. Tail(q) \in Seq(S)  BY <1>16
    <2>2. PICK z : z = Tail(q)  OBVIOUS
    <2>3. z \in Seq(Range(z))  BY <2>1, <2>2, Retyped
    <2>4. QED  BY <2>2, <2>3, <1>16
  <1>22. p' = p /\ PeerOf' = PeerOf  BY DEF p
  <1>23. Range(H) = Pending("recv", PeerOf[p])' \ Pending("send", p)'
    <2>1. Range(H) = (Q \ {t}) \ P  BY <1>14, <1>18 DEF Between
    <2>2. PeerOf[p] = e  BY <1>3
    <2>3. Q' = Pending("recv", e)' /\ P' = Pending("send", p)'  BY DEF Q, P
    <2>4. QED  BY <2>1, <2>2, <2>3, <1>2, <1>11
  <1>24. Flow(p)'
    <2>1. Increasing(H) /\ H \in Seq(Tags)  BY <1>14, <1>18 DEF Between
    <2>2. Stream(p, H)'  BY <2>1, <1>19, <1>20, <1>21, <1>16, <1>23 DEF Stream
    <2>3. \A x \in P', u \in A' : Earlier(x, u) => u \in P'  BY <1>11, <1>12
    <2>4. Upper(p)'  BY <2>3 DEF Upper, A, P
    <2>5. P' \subseteq Q'  BY <1>2, <1>11, <1>14 DEF Window
    <2>6. (Pending("send", p) \subseteq Pending("recv", PeerOf[p]))'  BY <2>5, <1>3, <1>22 DEF P, Q
    <2>7. QED  BY <2>1, <2>2, <2>4, <2>6 DEF Flow
  <1>25. DOMAIN pipe' = Ends  BY <1>5 DEF FlowInv
  <1>26. \A f \in JobEnds : Flow(f)'
    <2>1. PICK g : g = p /\ g = p'  BY <1>22
    <2>2. Flow(g)'  BY <2>1, <1>24 DEF Flow
    <2>3. QED  BY <2>1, <2>2, <1>6
  <1>27. QED  BY <1>0, <1>4, <1>15, <1>17, <1>25, <1>26 DEF FlowInv, p

-----------------------------------------------------------------------------
(* What the memory holds *)

(* What the memory holds *)

LEMMA LaneCells ==
    ASSUME GroupInv, NEW r \in Ranks, NEW l \in DOMAIN lanes[r]
    PROVE  LET L == Plan(r)[l]
           IN  /\ \A x \in LaneMemory(L) : x \in Cells /\ x[1] = r /\ (IsOut(x) => x = OutCell(r, call[r], x[3]))
               /\ \A i \in DOMAIN L.steps :
                     /\ \A x \in Range(L.steps[i].send) : IsOut(x)
                     /\ L.steps[i].into = <<>> => \A x \in Range(L.steps[i].recv) : IsOut(x)
                     /\ L.steps[i].into # <<>> =>
                           /\ \A x \in Range(L.steps[i].recv) : ~IsOut(x)
                           /\ \A x \in Range(L.steps[i].into) : IsOut(x)
                           /\ i + L.lag <= Len(L.steps)
  <1>1. GroupTypeOK /\ LanesInPlan  BY DEF GroupInv
  <1>2. lanes[r] # <<>>  BY SomeLane
  <1>3. /\ r \in RanksOf(job) /\ job \in Jobs /\ call[r] \in DOMAIN job.calls[r]
        /\ Plan(r) = Lanes(job, r, call[r]) /\ DOMAIN lanes[r] = DOMAIN Lanes(job, r, call[r])
    BY <1>1, <1>2, LaneIs
  <1>4. PICK c, L : c = call[r] /\ L = Lanes(job, r, c)[l]  OBVIOUS
  <1>5. /\ \A x \in LaneMemory(L) : x \in Cells /\ x[1] = r /\ (IsOut(x) => x = OutCell(r, c, x[3]))
        /\ \A i \in DOMAIN L.steps :
              /\ \A x \in Range(L.steps[i].send) : IsOut(x)
              /\ L.steps[i].into = <<>> => \A x \in Range(L.steps[i].recv) : IsOut(x)
              /\ L.steps[i].into # <<>> =>
                    /\ \A x \in Range(L.steps[i].recv) : ~IsOut(x)
                    /\ \A x \in Range(L.steps[i].into) : IsOut(x)
                    /\ i + L.lag <= Len(L.steps)
    <2>1. job \in Jobs /\ r \in RanksOf(job) /\ c \in DOMAIN job.calls[r] /\ l \in DOMAIN Lanes(job, r, c)
      BY <1>3, <1>4
    <2>2. QED  BY <2>1, <1>4, LaneShape
  <1>6. QED  BY <1>3, <1>4, <1>5

LEMMA DoneSame ==
    ASSUME UNCHANGED <<job, plan>>, NEW r, call'[r] = call[r], NEW l,
           NEW m \in DOMAIN Plan(r)[l].steps, NEW x,
           Plan(r)[l].steps[m].into # <<>> =>
              (m + Plan(r)[l].lag < lanes'[r][l].step <=> m + Plan(r)[l].lag < lanes[r][l].step),
           Plan(r)[l].steps[m].into = <<>> =>
              \A k \in DOMAIN Plan(r)[l].steps[m].recv :
                 LanePending("recv", r, l, m, k)' <=> LanePending("recv", r, l, m, k)
    PROVE  Done(r, l, m, x)' <=> Done(r, l, m, x)
  <1>1. Plan(r)' = Plan(r)  BY DEF Plan
  <1>2. PICK s : s = Plan(r)[l].steps[m]  OBVIOUS
  <1>4. CASE s.into = <<>>
    <2>1. Done(r, l, m, x) <=> \A k \in DOMAIN s.recv : s.recv[k] = x => ~LanePending("recv", r, l, m, k)
      BY <1>2, <1>4 DEF Done
    <2>2. Done(r, l, m, x)' <=> \A k \in DOMAIN s.recv : s.recv[k] = x => ~LanePending("recv", r, l, m, k)'
      BY <1>1, <1>2, <1>4 DEF Done
    <2>3. QED  BY <2>1, <2>2, <1>2, <1>4
  <1>5. CASE s.into # <<>>  BY <1>1, <1>2, <1>5 DEF Done
  <1>6. QED  BY <1>4, <1>5

LEMMA OutKept ==
    ASSUME UNCHANGED <<job, plan>>, NEW r, call'[r] = call[r], NEW l, OutLane(r, l),
           \A x \in LaneMemory(Plan(r)[l]) : IsOut(x) =>
              \/ mem'[x] = mem[x] /\ DoneWriters(r, l, x)' = DoneWriters(r, l, x)
              \/ mem'[x] = Value(job, r, call[r], l, DoneWriters(r, l, x)', x[3])
    PROVE  OutLane(r, l)'
  <1>1. Plan(r)' = Plan(r)  BY DEF Plan
  <1> SUFFICES ASSUME NEW x \in LaneMemory(Plan(r)[l]), IsOut(x)
               PROVE  mem'[x] = Value(job, r, call[r], l, DoneWriters(r, l, x)', x[3])
    BY <1>1 DEF OutLane
  <1>2. mem[x] = Value(job, r, call[r], l, DoneWriters(r, l, x), x[3])  BY DEF OutLane
  <1>3. QED  BY <1>2

LEMMA BufKept ==
    ASSUME UNCHANGED <<job, plan>>, NEW r, call'[r] = call[r], NEW l, BufLane(r, l),
           \A i \in DOMAIN Plan(r)[l].steps :
              Plan(r)[l].steps[i].into # <<>> /\ lanes'[r][l].step <= i + Plan(r)[l].lag =>
                 /\ lanes[r][l].step <= i + Plan(r)[l].lag
                 /\ \A k \in DOMAIN Plan(r)[l].steps[i].recv : ~LanePending("recv", r, l, i, k)' =>
                       \/ ~LanePending("recv", r, l, i, k)
                          /\ mem'[Plan(r)[l].steps[i].recv[k]] = mem[Plan(r)[l].steps[i].recv[k]]
                       \/ Carries(PeerOf[Plan(r)[l].from],
                                  [round |-> Round(job)[r][call[r]], step |-> i, cell |-> k],
                                  mem'[Plan(r)[l].steps[i].recv[k]])
    PROVE  BufLane(r, l)'
  <1>1. Plan(r)' = Plan(r)  BY DEF Plan
  <1> SUFFICES ASSUME NEW i \in DOMAIN Plan(r)[l].steps,
                      Plan(r)[l].steps[i].into # <<>>, lanes'[r][l].step <= i + Plan(r)[l].lag,
                      NEW k \in DOMAIN Plan(r)[l].steps[i].recv, ~LanePending("recv", r, l, i, k)'
               PROVE  Carries(PeerOf[Plan(r)[l].from],
                              [round |-> Round(job)[r][call[r]], step |-> i, cell |-> k],
                              mem[Plan(r)[l].steps[i].recv[k]])'
    BY <1>1 DEF BufLane
  <1>2. PICK e, t, v : /\ e = PeerOf[Plan(r)[l].from]
                       /\ t = [round |-> Round(job)[r][call[r]], step |-> i, cell |-> k]
                       /\ v = mem'[Plan(r)[l].steps[i].recv[k]]
    OBVIOUS
  <1>3. Carries(e, t, v)
    <2>1. \/ ~LanePending("recv", r, l, i, k) /\ v = mem[Plan(r)[l].steps[i].recv[k]]
          \/ Carries(e, t, v)
      BY <1>2
    <2>2. lanes[r][l].step <= i + Plan(r)[l].lag  OBVIOUS
    <2>3. ~LanePending("recv", r, l, i, k) => Carries(e, t, mem[Plan(r)[l].steps[i].recv[k]])
      BY <2>2, <1>2 DEF BufLane
    <2>4. QED  BY <2>1, <2>3
  <1>4. Carries(e, t, v)'  BY <1>3, CarriesSame
  <1>5. e' = e /\ e = PeerOf[Plan(r)'[l].from] /\ t = [round |-> Round(job')[r][call'[r]], step |-> i, cell |-> k]
        /\ v = mem'[Plan(r)'[l].steps[i].recv[k]]
    BY <1>1, <1>2
  <1> HIDE DEF Carries
  <1>6. QED  BY <1>4, <1>5

(* Nothing of memory has changed, and no lane has waited for a step. *)
Waited(r, l) ==
    \A m \in DOMAIN Plan(r)[l].steps :
        /\ m + Plan(r)[l].lag < lanes'[r][l].step <=> m + Plan(r)[l].lag < lanes[r][l].step
        /\ lanes'[r][l].step <= m + Plan(r)[l].lag <=> lanes[r][l].step <= m + Plan(r)[l].lag

LEMMA QuietLane ==
    ASSUME UNCHANGED <<job, plan>>, NEW r, call'[r] = call[r], NEW l, MemLane(r, l), Waited(r, l),
           \A i \in DOMAIN Plan(r)[l].steps : \A k \in DOMAIN Plan(r)[l].steps[i].recv :
              LanePending("recv", r, l, i, k)' <=> LanePending("recv", r, l, i, k),
           \A x \in LaneMemory(Plan(r)[l]) : mem'[x] = mem[x]
    PROVE  MemLane(r, l)'
  <1>1. Plan(r)' = Plan(r)  BY DEF Plan
  <1>2. ASSUME NEW x PROVE DoneWriters(r, l, x)' = DoneWriters(r, l, x)
    <2>1. \A m \in Writers(Plan(r)[l], x) : Done(r, l, m, x)' <=> Done(r, l, m, x)
      <3> SUFFICES ASSUME NEW m \in Writers(Plan(r)[l], x) PROVE Done(r, l, m, x)' <=> Done(r, l, m, x)
        OBVIOUS
      <3>1. m \in DOMAIN Plan(r)[l].steps  BY WritersFacts
      <3>2. m + Plan(r)[l].lag < lanes'[r][l].step <=> m + Plan(r)[l].lag < lanes[r][l].step
        BY <3>1 DEF Waited
      <3>3. QED  BY <3>1, <3>2, DoneSame
    <2>2. QED  BY <2>1, <1>1 DEF DoneWriters
  <1>3. OutLane(r, l)'  BY <1>2, OutKept DEF MemLane
  <1>4. ASSUME NEW i \in DOMAIN Plan(r)[l].steps, lanes'[r][l].step <= i + Plan(r)[l].lag
        PROVE  /\ lanes[r][l].step <= i + Plan(r)[l].lag
               /\ \A k \in DOMAIN Plan(r)[l].steps[i].recv : ~LanePending("recv", r, l, i, k)' =>
                    /\ ~LanePending("recv", r, l, i, k)
                    /\ mem'[Plan(r)[l].steps[i].recv[k]] = mem[Plan(r)[l].steps[i].recv[k]]
    <2>1. lanes[r][l].step <= i + Plan(r)[l].lag  BY <1>4 DEF Waited
    <2>2. ASSUME NEW k \in DOMAIN Plan(r)[l].steps[i].recv
          PROVE  /\ LanePending("recv", r, l, i, k)' <=> LanePending("recv", r, l, i, k)
                 /\ mem'[Plan(r)[l].steps[i].recv[k]] = mem[Plan(r)[l].steps[i].recv[k]]
      <3>1. Plan(r)[l].steps[i].recv[k] \in LaneMemory(Plan(r)[l])
        <4>1. Plan(r)[l].steps[i].recv[k] \in Range(Plan(r)[l].steps[i].recv)  BY DEF Range
        <4>2. QED  BY <4>1, InLaneMemory
      <3>2. QED  BY <3>1
    <2>3. QED  BY <2>1, <2>2
  <1>5. BufLane(r, l)'
    <2>1. \A i \in DOMAIN Plan(r)[l].steps :
             Plan(r)[l].steps[i].into # <<>> /\ lanes'[r][l].step <= i + Plan(r)[l].lag =>
                /\ lanes[r][l].step <= i + Plan(r)[l].lag
                /\ \A k \in DOMAIN Plan(r)[l].steps[i].recv : ~LanePending("recv", r, l, i, k)' =>
                      ~LanePending("recv", r, l, i, k)
                         /\ mem'[Plan(r)[l].steps[i].recv[k]] = mem[Plan(r)[l].steps[i].recv[k]]
      BY <1>4
    <2>2. QED  BY <2>1, BufKept DEF MemLane
  <1>6. QED  BY <1>3, <1>5 DEF MemLane

LEMMA QuietMem ==
    ASSUME GroupInv, MemInv, UNCHANGED <<job, plan, call, mem>>, LaneKept("recv"),
           \A r \in Ranks : DOMAIN lanes'[r] = DOMAIN lanes[r] /\ \A l \in DOMAIN lanes[r] : Waited(r, l)
    PROVE  MemInv'
  <1>1. Ranks' = Ranks  BY DEF Ranks
  <1>2. ASSUME NEW r \in Ranks, NEW l \in DOMAIN lanes[r] PROVE MemLane(r, l)'
    <2>1. \A i \in DOMAIN Plan(r)[l].steps : \A k \in DOMAIN Plan(r)[l].steps[i].recv :
             LanePending("recv", r, l, i, k)' <=> LanePending("recv", r, l, i, k)
      BY WayFacts DEF LaneKept
    <2>2. MemLane(r, l) /\ Waited(r, l)  BY DEF MemInv
    <2>3. QED  BY <2>1, <2>2, QuietLane
  <1>3. QED  BY <1>1, <1>2 DEF MemInv

LEMMA StillMem ==
    ASSUME GroupInv, MemInv, UNCHANGED <<job, plan, call, lanes, mem>>, LaneKept("recv")
    PROVE  MemInv'
  <1>1. \A r \in Ranks : DOMAIN lanes'[r] = DOMAIN lanes[r] /\ \A l \in DOMAIN lanes[r] : Waited(r, l)
    BY DEF Waited
  <1>2. QED  BY <1>1, QuietMem

(* A lane goes on, in its step or to the first ones. *)
LEMMA GoesOnMem ==
    ASSUME GroupInv, MemInv, UNCHANGED <<job, plan, call, mem>>, LanesKept,
           NEW r \in Ranks, NEW l \in DOMAIN lanes[r], NEW n, NEW place, Goto(r, l, n, place),
           NEW s, s = lanes[r][l].step, n = s \/ (n = s + 1 /\ s \in 1..Plan(r)[l].lag)
    PROVE  MemInv'
  <1>1. GroupTypeOK /\ LanesInPlan  BY DEF GroupInv
  <1>2. /\ \A x \in Ranks : DOMAIN lanes'[x] = DOMAIN lanes[x]
        /\ \A x \in Ranks : \A m \in DOMAIN lanes[x] :
              lanes'[x][m] = IF x = r /\ m = l THEN [step |-> n, at |-> place] ELSE lanes[x][m]
    BY <1>1, GotoFacts
  <1>3. ASSUME NEW x \in Ranks, NEW m \in DOMAIN lanes[x] PROVE Waited(x, m)
    <2>1. CASE x = r /\ m = l
      <3>1. PICK L : L = Plan(r)[l]  OBVIOUS
      <3>2. L.lag \in {0, 1} /\ DOMAIN L.steps = 1..Len(L.steps) /\ s \in Nat
        <4>1. L.lag \in {0, 1} /\ DOMAIN L.steps = 1..Len(L.steps) /\ AtStep(L, lanes[r][l])
          BY <1>1, <3>1, LaneFacts
        <4>2. QED  BY <4>1 DEF AtStep
      <3>3. lanes'[r][l].step = n  BY <1>2
      <3>4. \A i \in DOMAIN L.steps : i \in Nat /\ i >= 1  BY <3>2
      <3>5. \A i \in DOMAIN L.steps : /\ i + L.lag < n <=> i + L.lag < s
                                      /\ n <= i + L.lag <=> s <= i + L.lag
        BY <3>2, <3>4, <3>1
      <3>6. QED  BY <2>1, <3>1, <3>3, <3>5 DEF Waited
    <2>2. CASE ~(x = r /\ m = l)
      <3>1. lanes'[x][m] = lanes[x][m]  BY <1>2, <2>2
      <3>2. QED  BY <3>1 DEF Waited
    <2>3. QED  BY <2>1, <2>2
  <1>4. LaneKept("recv")  BY WayFacts DEF LanesKept
  <1>5. QED  BY <1>2, <1>3, <1>4, QuietMem

LEMMA StepSendMem ==
    ASSUME GroupInv, MemInv, NEW r \in Ranks, NEW l \in DOMAIN lanes[r], StepSend(r, l)
    PROVE  MemInv'
  <1>1. PICK s, place : s = lanes[r][l].step /\ place = "recv"  OBVIOUS
  <1>2. UNCHANGED <<job, plan, call, mem>> /\ Goto(r, l, s, place)
    BY <1>1 DEF StepSend, At, setupVars, Conn!PostSend
  <1>3. LanesKept  BY StepSendPending
  <1>4. QED  BY <1>1, <1>2, <1>3, GoesOnMem

LEMMA LastWaitMem ==
    ASSUME GroupInv, MemInv, NEW r \in Ranks, NEW l \in DOMAIN lanes[r], LastWait(r, l)
    PROVE  MemInv'
  <1>1. PICK s, place : s = lanes[r][l].step /\ place = "done"  OBVIOUS
  <1>2. UNCHANGED <<job, plan, call, mem>> /\ Goto(r, l, s, place)
    BY <1>1 DEF LastWait, At, setupVars, duplexVars
  <1>3. LanesKept  BY LastWaitPending
  <1>4. QED  BY <1>1, <1>2, <1>3, GoesOnMem

LEMMA StepRecvMem ==
    ASSUME GroupInv, MemInv, NEW r \in Ranks, NEW l \in DOMAIN lanes[r], StepRecv(r, l)
    PROVE  MemInv'
  <1>1. GroupTypeOK /\ LanesInPlan  BY DEF GroupInv
  <1>2. PICK s, L : s = lanes[r][l].step /\ L = Plan(r)[l]  OBVIOUS
  <1>3. /\ UNCHANGED <<job, plan, call, mem>> /\ lanes[r][l].at = "recv"
        /\ IF s > L.lag THEN Goto(r, l, s, "wait") ELSE NextStep(r, l, s)
    BY <1>2 DEF StepRecv, At, setupVars, Conn!PostRecv
  <1>4. LanesKept  BY StepRecvPending
  <1>5. L.lag \in {0, 1} /\ s \in Nat \ {0}
    <2>1. L.lag \in {0, 1} /\ AtStep(L, lanes[r][l])  BY <1>1, <1>2, LaneFacts
    <2>2. QED  BY <2>1, <1>2 DEF AtStep
  <1>6. PICK n, place : Goto(r, l, n, place) /\ (n = s \/ (n = s + 1 /\ s \in 1..L.lag))
    <2>1. CASE s > L.lag
      <3>1. PICK place : place = "wait"  OBVIOUS
      <3>2. Goto(r, l, s, place)  BY <1>3, <2>1, <3>1
      <3>3. QED  BY <3>2
    <2>2. CASE ~(s > L.lag)
      <3>1. NextStep(r, l, s)  BY <1>3, <2>2
      <3>2. PICK n, place : Goto(r, l, n, place) /\ [step |-> n, at |-> place] = After(L, s)
        BY <3>1, <1>2, NextStepGoes
      <3>3. n = s + 1  BY <3>2, <1>5, AfterPosted
      <3>4. s \in 1..L.lag  BY <1>5, <2>2
      <3>5. QED  BY <3>2, <3>3, <3>4
    <2>3. QED  BY <2>1, <2>2
  <1>7. n = s \/ (n = s + 1 /\ s \in 1..Plan(r)[l].lag)  BY <1>6, <1>2
  <1>8. QED  BY <1>2, <1>3, <1>4, <1>6, <1>7, GoesOnMem

LEMMA SetupMem == ASSUME GroupInv, MemInv, NEW r \in Ranks, Setup(r) PROVE MemInv'
  <1>1. UNCHANGED <<job, plan, call, lanes, mem>>
    BY DEF Setup, Listen, Accept, Connect, ConnectFails, callVars, duplexVars
  <1>2. LaneKept("recv")  BY SetupPending, WayFacts DEF LanesKept
  <1>3. QED  BY <1>1, <1>2, StillMem

LEMMA MoveOutMem == ASSUME GroupInv, MemInv, NEW e, MovesOut(e) PROVE MemInv'
  <1>1. PICK o : o = "recv"  OBVIOUS
  <1>2. UNCHANGED <<job, plan, call, lanes, mem>> /\ QueueOf(o)' = QueueOf(o) /\ o \in Ways
    BY <1>1, WayFacts DEF MovesOut
  <1>3. LaneKept(o)  BY <1>2, StillPending
  <1>4. QED  BY <1>1, <1>2, <1>3, StillMem

(* A worker forgets a request. *)
RetiresOf(e) ==
    /\ UNCHANGED <<job, plan, call, lanes, pipe, mem>>
    /\ \A d \in Ways : \/ QueueOf(d)' = QueueOf(d)
                       \/ /\ QueueOf(d)[e] # <<>> /\ Head(QueueOf(d)[e]).cells = <<>>
                          /\ QueueOf(d)' = [QueueOf(d) EXCEPT ![e] = Tail(QueueOf(d)[e])]
LEMMA RetireIs ==
    ASSUME NEW e \in Ends, UNCHANGED <<setupVars, callVars>>, Conn!Retire(e)
    PROVE  RetiresOf(e)
  <1>1. UNCHANGED <<job, plan, call, lanes, pipe, mem>>  BY DEF setupVars, callVars, Conn!Retire
  <1>2. \/ sends' = sends
        \/ sends[e] # <<>> /\ Head(sends[e]).cells = <<>> /\ sends' = [sends EXCEPT ![e] = Tail(sends[e])]
    BY DEF Conn!Retire, Conn!Finished
  <1>3. \/ recvs' = recvs
        \/ recvs[e] # <<>> /\ Head(recvs[e]).cells = <<>> /\ recvs' = [recvs EXCEPT ![e] = Tail(recvs[e])]
    BY DEF Conn!Retire, Conn!Finished
  <1>4. QED  BY <1>1, <1>2, <1>3 DEF RetiresOf, QueueOf, Ways

LEMMA RetireKept == ASSUME GroupInv, NEW e \in Ends, RetiresOf(e) PROVE LanesKept
  <1>1. UNCHANGED <<job, plan, call, lanes>>  BY DEF RetiresOf
  <1>2. ASSUME NEW d \in Ways PROVE LaneKept(d)
    <2>1. CASE QueueOf(d)' = QueueOf(d)  BY <1>1, <2>1, StillPending
    <2>2. CASE /\ QueueOf(d)[e] # <<>> /\ Head(QueueOf(d)[e]).cells = <<>>
               /\ QueueOf(d)' = [QueueOf(d) EXCEPT ![e] = Tail(QueueOf(d)[e])]
      BY <1>1, <2>2, RetirePending
    <2>3. QED  BY <2>1, <2>2 DEF RetiresOf
  <1>3. QED  BY <1>2 DEF LanesKept

LEMMA RetireMem == ASSUME GroupInv, MemInv, NEW e \in Ends, RetiresOf(e) PROVE MemInv'
  <1>1. LaneKept("recv")  BY RetireKept, WayFacts DEF LanesKept
  <1>2. UNCHANGED <<job, plan, call, lanes, mem>>  BY DEF RetiresOf
  <1>3. QED  BY <1>1, <1>2, StillMem

(* The first cell of the first request: cell k of step i of lane l. *)
CellOf(d, e, q, r, l, i, k) ==
    /\ r \in Ranks /\ l \in DOMAIN lanes[r] /\ i \in DOMAIN Plan(r)[l].steps
    /\ q \in Range(QueueOf(d)[e]) /\ EndOf(d, Plan(r)[l]) = e
    /\ FirstTag(d, e) = [round |-> Round(job)[r][call[r]], step |-> i, cell |-> k]
    /\ k \in DOMAIN MovedBy(d, Plan(r)[l].steps[i])
    /\ q.cells[1] = MovedBy(d, Plan(r)[l].steps[i])[k]
    /\ LanePending(d, r, l, i, k)
LEMMA FirstCell ==
    ASSUME GroupInv, QueueShape, NEW d \in Ways, NEW e \in JobEnds,
           QueueOf(d)[e] # <<>>, 1 <= Len(Head(QueueOf(d)[e]).cells),
           NEW q, q = Head(QueueOf(d)[e]), NEW r, r = e[2], NEW l, l = q.id[2], NEW i, i = q.id[3],
           NEW k, k = FirstTag(d, e).cell
    PROVE  CellOf(d, e, q, r, l, i, k)
  <1>1. GroupTypeOK /\ LanesInPlan  BY DEF GroupInv
  <1>2. q \in Range(QueueOf(d)[e]) /\ q \in Request
    <2>1. e \in Ends  BY DEF JobEnds
    <2>2. QED  BY <2>1, QueueEnd
  <1>3. /\ q.id = Id(call[r], l, i) /\ r \in Ranks /\ l \in DOMAIN lanes[r]
        /\ EndOf(d, Plan(r)[l]) = e /\ i \in DOMAIN Plan(r)[l].steps
    BY <1>2, RequestOk
  <1>4. PICK M : M = MovedBy(d, Plan(r)[l].steps[i])  OBVIOUS
  <1>5. M \in Seq(Cells) /\ Len(M) \in Nat /\ DOMAIN M = 1..Len(M)
    <2>1. MovedBy(d, Plan(r)[l].steps[i]) \in Seq(Cells)  BY <1>1, <1>3, PlanSteps
    <2>2. M \in Seq(Cells)  BY <2>1, <1>4
    <2>3. QED  BY <2>2
  <1>6. StepCells(d, e, q) = M  BY <1>4 DEF StepCells
  <1>7. RestOf(q.cells, M)  BY <1>2, <1>6 DEF QueueShape, ShapeOf
  <1>8. q.cells \in Seq(Cells)  BY <1>2, RequestFacts
  <1>9. /\ Len(q.cells) \in Nat /\ 1 <= Len(q.cells) /\ Len(q.cells) <= Len(M)
        /\ q.cells[1] = M[Len(M) - Len(q.cells) + 1]
    <2>1. Len(q.cells) \in Nat /\ 1 <= Len(q.cells) /\ 1 \in 1..Len(q.cells)  BY <1>8
    <2>2. /\ Len(q.cells) <= Len(M)
          /\ \A a \in 1..Len(q.cells) : q.cells[a] = M[Len(M) - Len(q.cells) + a]
      BY <1>7 DEF RestOf
    <2>3. QED  BY <2>1, <2>2
  <1>10. k = Len(M) - Len(q.cells) + 1
    <2>1. FirstTag(d, e).cell = Len(StepCells(d, e, q)) - Len(q.cells) + 1  BY DEF FirstTag
    <2>2. k = Len(StepCells(d, e, q)) - Len(q.cells) + 1  BY <2>1
    <2>3. Len(StepCells(d, e, q)) = Len(M)  BY <1>6
    <2>4. QED  BY <2>2, <2>3
  <1>11. k \in DOMAIN M /\ q.cells[1] = M[k] /\ k + Len(q.cells) > Len(M)
    <2>1. q.cells[1] = M[k]  BY <1>9, <1>10
    <2>2. PICK a, b : a = Len(M) /\ b = Len(q.cells)  OBVIOUS
    <2>3. a \in Nat /\ b \in Nat /\ 1 <= b /\ b <= a /\ k = a - b + 1  BY <2>2, <1>5, <1>9, <1>10
    <2>4. k \in 1..a /\ k + b > a  BY ONLY <2>3
    <2>5. QED  BY <2>1, <2>2, <2>4, <1>5
  <1>12. FirstTag(d, e) = [round |-> Round(job)[r][call[r]], step |-> i, cell |-> k]
    BY DEF FirstTag
  <1>13. LanePending(d, r, l, i, k)  BY <1>2, <1>3, <1>4, <1>11 DEF LanePending
  <1>14. QED  BY <1>2, <1>3, <1>4, <1>11, <1>12, <1>13 DEF CellOf

(* The requests of a queue are of the steps a lane has under way. *)
LEMMA InWindow ==
    ASSUME GroupInv, NEW d \in Ways, NEW e \in JobEnds, NEW q \in Range(QueueOf(d)[e]),
           NEW r, r = e[2], NEW l, l = q.id[2], NEW i, i = q.id[3]
    PROVE  /\ lanes[r][l].step <= i + Plan(r)[l].lag /\ i <= lanes[r][l].step
           /\ d = "recv" => lanes[r][l].at # "done" /\ i \in RecvWindow(Plan(r)[l], lanes[r][l])
  <1>1. GroupTypeOK /\ LanesInPlan /\ QueuesInWindow  BY DEF GroupInv
  <1>2. r \in Ranks /\ l \in DOMAIN lanes[r] /\ i \in DOMAIN Plan(r)[l].steps  BY RequestOk
  <1>3. PICK L, s : L = Plan(r)[l] /\ s = lanes[r][l]  OBVIOUS
  <1>4. L.lag \in {0, 1} /\ i \in Nat /\ s.step \in Nat
    <2>1. L.lag \in {0, 1} /\ DOMAIN L.steps = 1..Len(L.steps) /\ AtStep(L, s)
      BY <1>1, <1>2, <1>3, LaneFacts
    <2>2. QED  BY <2>1, <1>2, <1>3 DEF AtStep
  <1>5. e \in Ends  BY DEF JobEnds
  <1>6. CASE d = "send"
    <2>1. q \in Range(sends[e])  BY <1>6 DEF QueueOf
    <2>2. i \in SendWindow(L, s)  BY <2>1, <1>1, <1>3, <1>5 DEF QueuesInWindow, SendOk
    <2>3. QED  BY <2>2, <1>3, <1>4, <1>6 DEF SendWindow
  <1>7. CASE d = "recv"
    <2>1. q \in Range(recvs[e])  BY <1>7 DEF QueueOf
    <2>2. i \in RecvWindow(L, s)  BY <2>1, <1>1, <1>3, <1>5 DEF QueuesInWindow, RecvOk
    <2>3. QED  BY <2>2, <1>3, <1>4, <1>7 DEF RecvWindow
  <1>8. QED  BY <1>6, <1>7 DEF Ways

(* What is sent is what the lane is to send. *)
LEMMA SentCarries ==
    ASSUME AllMatched, GroupInv, QueueShape, MemInv, NEW e, MovesOut(e)
    PROVE  Carries(e, FirstTag("send", e), mem[Head(QueueOf("send")[e]).cells[1]])
  <1>1. GroupTypeOK /\ LanesInPlan  BY DEF GroupInv
  <1>2. PICK d, q, r, l, i, k : /\ d = "send" /\ q = Head(QueueOf(d)[e]) /\ r = e[2] /\ l = q.id[2] /\ i = q.id[3]
                                /\ k = FirstTag(d, e).cell
    OBVIOUS
  <1>3. /\ d \in Ways /\ e \in JobEnds
        /\ QueueOf(d)[e] # <<>> /\ 1 <= Len(Head(QueueOf(d)[e]).cells)
    BY <1>2, WayFacts DEF MovesOut
  <1>3a. CellOf(d, e, q, r, l, i, k)  BY <1>2, <1>3, FirstCell
  <1>4. /\ r \in Ranks /\ l \in DOMAIN lanes[r] /\ i \in DOMAIN Plan(r)[l].steps
        /\ q \in Range(QueueOf(d)[e]) /\ EndOf(d, Plan(r)[l]) = e
        /\ FirstTag(d, e) = [round |-> Round(job)[r][call[r]], step |-> i, cell |-> k]
        /\ k \in DOMAIN MovedBy(d, Plan(r)[l].steps[i])
        /\ q.cells[1] = MovedBy(d, Plan(r)[l].steps[i])[k]
    BY <1>3a DEF CellOf
  <1>5. lanes[r][l].step <= i + Plan(r)[l].lag /\ i <= lanes[r][l].step
    BY <1>2, <1>3, <1>4, InWindow
  <1>6. PICK L, x, t : L = Plan(r)[l] /\ x = q.cells[1] /\ t = FirstTag(d, e)  OBVIOUS
  <1>7. k \in DOMAIN L.steps[i].send /\ x = L.steps[i].send[k]  BY <1>2, <1>4, <1>6, WayFacts
  <1>8. x \in Range(L.steps[i].send)  BY <1>7 DEF Range
  <1>9. DoneWriters(r, l, x) = Before(L, x, i)
    BY <1>4, <1>5, <1>6, <1>8, UnderWay
  <1>10. x \in LaneMemory(L) /\ IsOut(x)
    <2>1. x \in LaneMemory(L)  BY <1>4, <1>6, <1>8, InLaneMemory
    <2>2. \A y \in Range(L.steps[i].send) : IsOut(y)  BY <1>4, <1>6, LaneCells
    <2>3. QED  BY <2>1, <2>2, <1>8
  <1>11. mem[x] = Value(job, r, call[r], l, Before(L, x, i), x[3])
    <2>1. OutLane(r, l)  BY <1>4 DEF MemInv, MemLane
    <2>2. mem[x] = Value(job, r, call[r], l, DoneWriters(r, l, x), x[3])
      BY <2>1, <1>6, <1>10 DEF OutLane
    <2>3. QED  BY <2>2, <1>9
  <1>12. t.step = i /\ t.cell = k  BY <1>4, <1>6
  <1>13. Moves(job, d, e, call[r], l, t) /\ t \in Tags
    <2>1. FirstTag(d, e) \in Pending(d, e) /\ Moves(job, d, e, call[e[2]], q.id[2], FirstTag(d, e))
      BY <1>2, <1>3, FirstIsFirst
    <2>2. QED  BY <2>1, <1>2, <1>6 DEF Pending
  <1>14. Plan(r) = Lanes(job, r, call[r])  BY <1>1, <1>4, SomeLane, LaneIs
  <1>15. SentValue(job, r, call[r], l, t.step, t.cell) = mem[x]
    BY <1>6, <1>7, <1>11, <1>12, <1>14 DEF SentValue
  <1>16. Carries(e, t, SentValue(job, e[2], call[r], l, t.step, t.cell))
    BY <1>1, <1>2, <1>3, <1>13, CarriesSent
  <1>17. QED  BY <1>2, <1>6, <1>15, <1>16

LEMMA ReceivedValue ==
    ASSUME AllMatched, GroupTypeOK, NEW e \in JobEnds, NEW c, NEW l, NEW t, Moves(job, "recv", e, c, l, t),
           NEW v, Carries(PeerOf[e], t, v),
           NEW r, r = e[2], NEW i, i = t.step, NEW k, k = t.cell
    PROVE  Arrives(job, r, c, l, i, k, v)
  <1>1. PICK f : f = PeerOf[e]  OBVIOUS
  <1>2. /\ f \in JobEnds /\ f \in Ends /\ f[1] = job.ranks /\ f[2] \in RanksOf(job) /\ PeerOf[f] = e /\ job \in Jobs
    <2>1. f \in JobEnds /\ PeerOf[f] = e  BY <1>1, JobEndFacts
    <2>2. QED  BY <2>1, JobEndFacts DEF Ranks
  <1>3. Moves(job, "recv", PeerOf[f], c, l, t)  BY <1>2
  <1>4. PICK d : Moves(job, "send", f, d, l, t)  BY <1>2, <1>3, ReceivedIsSent
  <1>5. v = SentValue(job, f[2], d, l, t.step, t.cell)  BY <1>1, <1>4 DEF Carries
  <1>6. PICK w : w = SentValue(job, f[2], d, l, i, k)  OBVIOUS
  <1>7. v = w  BY <1>5, <1>6
  <1>8. r = PeerOf[f][2]  BY <1>2
  <1>9. Arrives(job, r, c, l, i, k, SentValue(job, f[2], d, l, i, k))
    BY <1>2, <1>3, <1>4, <1>8, Transfer
  <1>10. QED  BY <1>6, <1>7, <1>9

(* A cell arrives: for the other lanes nothing changes. *)
LEMMA OtherLanes ==
    ASSUME GroupInv, QueueShape, MemInv, NEW e, MovesIn(e),
           NEW r \in Ranks, NEW l \in DOMAIN lanes[r], EndOf("recv", Plan(r)[l]) = e,
           Head(QueueOf("recv")[e]).cells[1] \in LaneMemory(Plan(r)[l]),
           NEW p \in Ranks, NEW m \in DOMAIN lanes[p], p # r \/ m # l
    PROVE  MemLane(p, m)'
  <1>1. GroupTypeOK /\ LanesInPlan  BY DEF GroupInv
  <1>2. PICK d, x : d = "recv" /\ x = Head(QueueOf(d)[e]).cells[1]  OBVIOUS
  <1>3. /\ d \in Ways /\ e \in JobEnds /\ UNCHANGED <<job, plan, call, lanes>>
        /\ QueueOf(d)[e] # <<>> /\ 1 <= Len(Head(QueueOf(d)[e]).cells)
        /\ QueueOf(d)' = HeadStep(QueueOf(d), e)
    BY <1>2, WayFacts DEF MovesIn
  <1>4. \A y \in Cells : y # x => mem'[y] = mem[y]  BY <1>2 DEF MovesIn
  <1>5. EndOf(d, Plan(p)[m]) # e
    <2>1. EndOf(d, Plan(r)[l]) = e /\ lanes[p] # <<>> /\ lanes[r] # <<>>  BY <1>2, SomeLane
    <2>2. \A a \in Ranks : \A b \in DOMAIN lanes[a] :
             lanes[a] # <<>> /\ (a # r \/ b # l) => EndOf(d, Plan(a)[b]) # EndOf(d, Plan(r)[l])
      BY <2>1, <1>1, <1>3, WayEnds
    <2>3. QED  BY <2>1, <2>2
  <1>6. ASSUME NEW i \in DOMAIN Plan(p)[m].steps, NEW k \in DOMAIN Plan(p)[m].steps[i].recv
        PROVE  LanePending(d, p, m, i, k)' <=> LanePending(d, p, m, i, k)
    <2>1. k \in DOMAIN MovedBy(d, Plan(p)[m].steps[i])  BY <1>2, WayFacts
    <2>2. LanePending(d, p, m, i, k)' <=>
                /\ LanePending(d, p, m, i, k)
                /\ ~(EndOf(d, Plan(p)[m]) = e /\ i = FirstTag(d, e).step /\ k = FirstTag(d, e).cell)
      BY <1>3, <2>1, LaneMoved
    <2>3. QED  BY <2>2, <1>5
  <1>7. ASSUME NEW y \in LaneMemory(Plan(p)[m]) PROVE mem'[y] = mem[y]
    <2>1. y \in Cells /\ y[1] = p  BY LaneCells
    <2>2. x[1] = r /\ x \in LaneMemory(Plan(r)[l])
      <3>1. x \in LaneMemory(Plan(r)[l])  BY <1>2
      <3>2. QED  BY <3>1, LaneCells
    <2>3. y # x
      <3>1. CASE p # r  BY <3>1, <2>1, <2>2
      <3>2. CASE p = r
        <4>1. LaneMemory(Plan(r)[l]) \cap LaneMemory(Plan(r)[m]) = {}  BY <3>2, LanesApart
        <4>2. QED  BY <4>1, <3>2, <2>2
      <3>3. QED  BY <3>1, <3>2
    <2>4. QED  BY <2>1, <2>3, <1>4
  <1>8. Waited(p, m)  BY <1>3 DEF Waited
  <1>9. MemLane(p, m)  BY DEF MemInv
  <1>10. \A i \in DOMAIN Plan(p)[m].steps : \A k \in DOMAIN Plan(p)[m].steps[i].recv :
            LanePending("recv", p, m, i, k)' <=> LanePending("recv", p, m, i, k)
    BY <1>2, <1>6
  <1>11. QED  BY <1>3, <1>7, <1>8, <1>9, <1>10, QuietLane

(* A cell arrives, as cell k of step i of lane l. *)
ArrivesAt(e, r, l, i, k, x, v) ==
    /\ UNCHANGED <<job, plan, call, lanes>>
    /\ r \in Ranks /\ l \in DOMAIN lanes[r] /\ i \in DOMAIN Plan(r)[l].steps
    /\ lanes[r][l].step <= i + Plan(r)[l].lag /\ i <= lanes[r][l].step
    /\ k \in DOMAIN Plan(r)[l].steps[i].recv /\ x = Plan(r)[l].steps[i].recv[k] /\ EndOf("recv", Plan(r)[l]) = e
    /\ \A y \in Cells : mem'[y] = IF y = x THEN v ELSE mem[y]
    /\ \A m \in DOMAIN Plan(r)[l].steps : \A a \in DOMAIN Plan(r)[l].steps[m].recv :
          LanePending("recv", r, l, m, a)' <=> LanePending("recv", r, l, m, a) /\ ~(m = i /\ a = k)
    /\ Carries(PeerOf[e], [round |-> Round(job)[r][call[r]], step |-> i, cell |-> k], v)
    /\ Arrives(job, r, call[r], l, i, k, v)

LEMMA MovesInAt ==
    ASSUME AllMatched, GroupInv, QueueShape, FlowInv, NEW e, MovesIn(e)
    PROVE  \E r, l, i, k : ArrivesAt(e, r, l, i, k, Head(QueueOf("recv")[e]).cells[1], pipe[PeerOf[e]][1])
  <1>1. GroupTypeOK /\ LanesInPlan  BY DEF GroupInv
  <1>2. PICK d, q, r, l, i, k : /\ d = "recv" /\ q = Head(QueueOf(d)[e]) /\ r = e[2] /\ l = q.id[2] /\ i = q.id[3]
                                /\ k = FirstTag(d, e).cell
    OBVIOUS
  <1>3. /\ d \in Ways /\ e \in JobEnds /\ UNCHANGED <<job, plan, call, lanes>>
        /\ QueueOf(d)[e] # <<>> /\ 1 <= Len(Head(QueueOf(d)[e]).cells)
        /\ QueueOf(d)' = HeadStep(QueueOf(d), e)
    BY <1>2, WayFacts DEF MovesIn
  <1>4. CellOf(d, e, q, r, l, i, k)  BY <1>2, <1>3, FirstCell
  <1>5. /\ r \in Ranks /\ l \in DOMAIN lanes[r] /\ i \in DOMAIN Plan(r)[l].steps
        /\ q \in Range(QueueOf(d)[e]) /\ EndOf(d, Plan(r)[l]) = e
        /\ FirstTag(d, e) = [round |-> Round(job)[r][call[r]], step |-> i, cell |-> k]
        /\ k \in DOMAIN MovedBy(d, Plan(r)[l].steps[i])
        /\ q.cells[1] = MovedBy(d, Plan(r)[l].steps[i])[k]
    BY <1>4 DEF CellOf
  <1>6. lanes[r][l].step <= i + Plan(r)[l].lag /\ i <= lanes[r][l].step
    BY <1>2, <1>3, <1>5, InWindow
  <1>7. PICK t, x, v : t = FirstTag(d, e) /\ x = q.cells[1] /\ v = pipe[PeerOf[e]][1]  OBVIOUS
  <1>8. k \in DOMAIN Plan(r)[l].steps[i].recv /\ x = Plan(r)[l].steps[i].recv[k]
    BY <1>2, <1>5, <1>7, WayFacts
  <1>9. \A y \in Cells : mem'[y] = IF y = x THEN v ELSE mem[y]  BY <1>2, <1>7 DEF MovesIn
  <1>10. ASSUME NEW m \in DOMAIN Plan(r)[l].steps, NEW a \in DOMAIN Plan(r)[l].steps[m].recv
         PROVE  LanePending(d, r, l, m, a)' <=> LanePending(d, r, l, m, a) /\ ~(m = i /\ a = k)
    <2>1. a \in DOMAIN MovedBy(d, Plan(r)[l].steps[m])  BY <1>2, WayFacts
    <2>2. LanePending(d, r, l, m, a)' <=>
                /\ LanePending(d, r, l, m, a)
                /\ ~(EndOf(d, Plan(r)[l]) = e /\ m = FirstTag(d, e).step /\ a = FirstTag(d, e).cell)
      BY <1>3, <1>5, <2>1, LaneMoved
    <2>3. t.step = i /\ t.cell = k  BY <1>5, <1>7
    <2>4. QED  BY <2>2, <2>3, <1>5, <1>7
  <1>11. Carries(PeerOf[e], t, v)  BY <1>2, <1>7, FlowIn
  <1>12. Arrives(job, r, call[r], l, i, k, v)
    <2>1. Moves(job, "recv", e, call[r], l, t)
      <3>1. Moves(job, d, e, call[e[2]], q.id[2], FirstTag(d, e))  BY <1>3, <1>2, FirstIsFirst
      <3>2. QED  BY <3>1, <1>2, <1>7
    <2>2. i = t.step /\ k = t.cell  BY <1>5, <1>7
    <2>3. QED  BY <1>1, <1>2, <1>3, <1>11, <2>1, <2>2, ReceivedValue
  <1>13. ArrivesAt(e, r, l, i, k, x, v)
    <2>1. Carries(PeerOf[e], [round |-> Round(job)[r][call[r]], step |-> i, cell |-> k], v)
      BY <1>5, <1>7, <1>11
    <2>2. EndOf("recv", Plan(r)[l]) = e  BY <1>2, <1>5
    <2>3. \A m \in DOMAIN Plan(r)[l].steps : \A a \in DOMAIN Plan(r)[l].steps[m].recv :
            LanePending("recv", r, l, m, a)' <=> LanePending("recv", r, l, m, a) /\ ~(m = i /\ a = k)
      BY <1>10, <1>2
    <2>4. QED  BY <1>3, <1>5, <1>6, <1>8, <1>9, <1>12, <2>1, <2>2, <2>3 DEF ArrivesAt
  <1>14. QED  BY <1>2, <1>7, <1>13

LEMMA ArrivesOut ==
    ASSUME GroupInv, NEW e, NEW r, NEW l, NEW i, NEW k, NEW x, NEW v, ArrivesAt(e, r, l, i, k, x, v), OutLane(r, l)
    PROVE  OutLane(r, l)'
  <1>1. GroupTypeOK /\ LanesInPlan  BY DEF GroupInv
  <1>2. /\ UNCHANGED <<job, plan, call, lanes>>
        /\ r \in Ranks /\ l \in DOMAIN lanes[r] /\ i \in DOMAIN Plan(r)[l].steps
        /\ lanes[r][l].step <= i + Plan(r)[l].lag /\ i <= lanes[r][l].step
        /\ \A y \in Cells : mem'[y] = IF y = x THEN v ELSE mem[y]
        /\ Arrives(job, r, call[r], l, i, k, v)
    BY DEF ArrivesAt
  <1>3. PICK L, s, c : L = Plan(r)[l] /\ s = L.steps[i] /\ c = call[r]  OBVIOUS
  <1>4. /\ L = Lanes(job, r, c)[l] /\ i \in DOMAIN L.steps
        /\ k \in DOMAIN s.recv /\ x = s.recv[k]
        /\ \A m \in DOMAIN L.steps : \A a \in DOMAIN L.steps[m].recv :
              LanePending("recv", r, l, m, a)' <=> LanePending("recv", r, l, m, a) /\ ~(m = i /\ a = k)
    <2>1. Plan(r) = Lanes(job, r, call[r])  BY <1>1, <1>2, SomeLane, LaneIs
    <2>2. /\ k \in DOMAIN s.recv /\ x = s.recv[k]
          /\ \A m \in DOMAIN L.steps : \A a \in DOMAIN L.steps[m].recv :
              LanePending("recv", r, l, m, a)' <=> LanePending("recv", r, l, m, a) /\ ~(m = i /\ a = k)
      BY <1>3 DEF ArrivesAt
    <2>3. QED  BY <2>1, <2>2, <1>2, <1>3
  <1>5. Plan(r)' = Plan(r)  BY <1>2 DEF Plan
  <1>6. \A y \in LaneMemory(L) : y \in Cells  BY <1>2, <1>3, LaneCells
  <1>7. ASSUME NEW y, NEW m \in Writers(L, y), m # i \/ y # x
        PROVE  Done(r, l, m, y)' <=> Done(r, l, m, y)
    <2>1. m \in DOMAIN L.steps  BY WritersFacts
    <2>2. CASE L.steps[m].into # <<>>  BY <2>1, <2>2, <1>2, <1>3, DoneSame
    <2>3. CASE L.steps[m].into = <<>>
      <3>1. \A a \in DOMAIN L.steps[m].recv : L.steps[m].recv[a] = y => ~(m = i /\ a = k)
        BY <1>7, <1>3, <1>4
      <3>2. Done(r, l, m, y) <=>
               \A a \in DOMAIN L.steps[m].recv : L.steps[m].recv[a] = y => ~LanePending("recv", r, l, m, a)
        BY <2>3, <1>3 DEF Done
      <3>3. Done(r, l, m, y)' <=>
               \A a \in DOMAIN L.steps[m].recv : L.steps[m].recv[a] = y => ~LanePending("recv", r, l, m, a)'
        BY <2>3, <1>3, <1>5 DEF Done
      <3>4. QED  BY <3>1, <3>2, <3>3, <2>1, <1>4
    <2>4. QED  BY <2>2, <2>3
  <1>8. ASSUME NEW y \in LaneMemory(L), y # x
        PROVE  mem'[y] = mem[y] /\ DoneWriters(r, l, y)' = DoneWriters(r, l, y)
    <2>1. mem'[y] = mem[y]  BY <1>2, <1>6, <1>8
    <2>2. \A m \in Writers(L, y) : Done(r, l, m, y)' <=> Done(r, l, m, y)  BY <1>7, <1>8
    <2>3. QED  BY <2>1, <2>2, <1>3, <1>5 DEF DoneWriters
  <1>9. ASSUME x \in LaneMemory(L), IsOut(x)
        PROVE  mem'[x] = Value(job, r, call[r], l, DoneWriters(r, l, x)', x[3])
    <2>1. x \in Range(s.recv)  BY <1>4 DEF Range
    <2>2. s.into = <<>>
      <3>1. s.into # <<>> => \A y \in Range(s.recv) : ~IsOut(y)  BY <1>2, <1>3, LaneCells
      <3>2. QED  BY <3>1, <2>1, <1>9
    <2>3. x \in Written(s)  BY <2>1, <2>2 DEF Written
    <2>4. DoneWriters(r, l, x) \ {i} = Before(L, x, i) /\ i \in Writers(L, x)
      BY <2>3, <1>2, <1>3, UnderWay
    <2>5. Done(r, l, i, x)'
      <3>1. Distinct(s.recv)  BY <1>1, <1>2, <1>3, PlanSteps
      <3>2. \A a \in DOMAIN s.recv : s.recv[a] = x => a = k  BY <3>1, <1>4 DEF Distinct
      <3>3. \A a \in DOMAIN s.recv : s.recv[a] = x => ~LanePending("recv", r, l, i, a)'
        BY <3>2, <1>3, <1>4
      <3>4. QED  BY <3>3, <2>2, <1>3, <1>5 DEF Done
    <2>6. DoneWriters(r, l, x)' = Before(L, x, i) \cup {i}
      <3>1. \A m \in Writers(L, x) : m # i => (Done(r, l, m, x)' <=> Done(r, l, m, x))  BY <1>7
      <3>2. DoneWriters(r, l, x)' = {m \in Writers(L, x) : Done(r, l, m, x)'}
        BY <1>3, <1>5 DEF DoneWriters
      <3>3. DoneWriters(r, l, x) = {m \in Writers(L, x) : Done(r, l, m, x)}  BY <1>3 DEF DoneWriters
      <3>4. QED  BY <3>1, <3>2, <3>3, <2>4, <2>5
    <2>7. v = Value(job, r, c, l, Before(L, x, i) \cup {i}, x[3])
      BY <2>2, <1>2, <1>3, <1>4 DEF Arrives
    <2>8. mem'[x] = v  BY <1>2, <1>6, <1>9
    <2>9. QED  BY <2>6, <2>7, <2>8, <1>3
  <1>10. QED
    <2>1. \A y \in LaneMemory(Plan(r)[l]) : IsOut(y) =>
             \/ mem'[y] = mem[y] /\ DoneWriters(r, l, y)' = DoneWriters(r, l, y)
             \/ mem'[y] = Value(job, r, call[r], l, DoneWriters(r, l, y)', y[3])
      BY <1>3, <1>8, <1>9
    <2>2. QED  BY <2>1, <1>2, OutKept

LEMMA ArrivesBuf ==
    ASSUME GroupInv, NEW e, NEW r, NEW l, NEW i, NEW k, NEW x, NEW v, ArrivesAt(e, r, l, i, k, x, v), BufLane(r, l)
    PROVE  BufLane(r, l)'
  <1>1. GroupTypeOK /\ LanesInPlan  BY DEF GroupInv
  <1>2. /\ UNCHANGED <<job, plan, call, lanes>>
        /\ r \in Ranks /\ l \in DOMAIN lanes[r]
        /\ \A y \in Cells : mem'[y] = IF y = x THEN v ELSE mem[y]
    BY DEF ArrivesAt
  <1>3. PICK L, n, f : L = Plan(r)[l] /\ n = lanes[r][l].step /\ f = PeerOf[L.from]  OBVIOUS
  <1>4. /\ i \in DOMAIN L.steps /\ n <= i + L.lag /\ i <= n
        /\ k \in DOMAIN L.steps[i].recv /\ x = L.steps[i].recv[k]
        /\ \A m \in DOMAIN L.steps : \A a \in DOMAIN L.steps[m].recv :
              LanePending("recv", r, l, m, a)' <=> LanePending("recv", r, l, m, a) /\ ~(m = i /\ a = k)
        /\ Carries(f, [round |-> Round(job)[r][call[r]], step |-> i, cell |-> k], v)
    BY <1>3, WayFacts DEF ArrivesAt
  <1>5. /\ LaneOk(L, LaneMemory(L)) /\ L.lag \in {0, 1} /\ DOMAIN L.steps = 1..Len(L.steps)
        /\ Len(L.steps) \in Nat /\ n \in Nat
    <2>1. /\ LaneOk(L, LaneMemory(L)) /\ L.lag \in {0, 1} /\ DOMAIN L.steps = 1..Len(L.steps)
          /\ Len(L.steps) \in Nat /\ AtStep(L, lanes[r][l])
      BY <1>1, <1>2, <1>3, LaneFacts
    <2>2. QED  BY <2>1, <1>3 DEF AtStep
  <1>6. \A y \in LaneMemory(L) : y \in Cells  BY <1>2, <1>3, LaneCells
  <1>7. ASSUME NEW m \in DOMAIN L.steps, n <= m + L.lag, NEW a \in DOMAIN L.steps[m].recv,
               ~LanePending("recv", r, l, m, a)'
        PROVE  \/ ~LanePending("recv", r, l, m, a) /\ mem'[L.steps[m].recv[a]] = mem[L.steps[m].recv[a]]
               \/ Carries(f, [round |-> Round(job)[r][call[r]], step |-> m, cell |-> a], mem'[L.steps[m].recv[a]])
    <2>1. L.steps[m].recv[a] \in Range(L.steps[m].recv)  BY DEF Range
    <2>2. L.steps[m].recv[a] \in Cells  BY <2>1, <1>6, InLaneMemory
    <2>3. CASE m = i /\ a = k
      <3>1. mem'[L.steps[m].recv[a]] = v  BY <2>2, <2>3, <1>2, <1>4
      <3>2. QED  BY <3>1, <2>3, <1>4
    <2>4. CASE ~(m = i /\ a = k)
      <3>1. ~LanePending("recv", r, l, m, a)  BY <2>4, <1>4, <1>7
      <3>2. L.steps[m].recv[a] # x
        <4>1. CASE m = i
          <5>1. Distinct(L.steps[i].recv)  BY <1>1, <1>2, <1>3, <1>4, PlanSteps
          <5>2. QED  BY <5>1, <4>1, <2>4, <1>4 DEF Distinct
        <4>2. CASE m # i
          <5>1. m <= n /\ m \in Nat /\ i \in Nat
            <6>1. PostedAt("recv", lanes[r][l], m)  BY <3>1 DEF LanePending
            <6>2. m < n \/ m = n  BY <6>1, <1>3, WayFacts
            <6>3. QED  BY <6>2, <1>4, <1>5
          <5>2. Close(L, i, m)
            <6>1. PICK g : g = L.lag  OBVIOUS
            <6>2. i <= m + g /\ m <= i + g  BY <5>1, <6>1, <1>4, <1>5, <1>7
            <6>3. QED  BY <6>1, <6>2 DEF Close
          <5>3. Range(L.steps[i].recv) \cap Range(L.steps[m].recv) = {}
            BY <5>2, <4>2, <1>4, <1>5 DEF LaneOk
          <5>4. x \in Range(L.steps[i].recv)  BY <1>4 DEF Range
          <5>5. QED  BY <5>3, <5>4, <2>1
        <4>3. QED  BY <4>1, <4>2
      <3>3. mem'[L.steps[m].recv[a]] = mem[L.steps[m].recv[a]]  BY <3>2, <2>2, <1>2
      <3>4. QED  BY <3>1, <3>3
    <2>5. QED  BY <2>3, <2>4
  <1>8. \A m \in DOMAIN Plan(r)[l].steps :
           Plan(r)[l].steps[m].into # <<>> /\ lanes'[r][l].step <= m + Plan(r)[l].lag =>
              /\ lanes[r][l].step <= m + Plan(r)[l].lag
              /\ \A a \in DOMAIN Plan(r)[l].steps[m].recv : ~LanePending("recv", r, l, m, a)' =>
                    \/ ~LanePending("recv", r, l, m, a)
                       /\ mem'[Plan(r)[l].steps[m].recv[a]] = mem[Plan(r)[l].steps[m].recv[a]]
                    \/ Carries(PeerOf[Plan(r)[l].from],
                               [round |-> Round(job)[r][call[r]], step |-> m, cell |-> a],
                               mem'[Plan(r)[l].steps[m].recv[a]])
    BY <1>2, <1>3, <1>7
  <1>9. QED  BY <1>2, <1>8, BufKept

LEMMA MoveInMem ==
    ASSUME AllMatched, GroupInv, QueueShape, FlowInv, MemInv, NEW e, MovesIn(e)
    PROVE  MemInv'
  <1>1. PICK x, v, r, l, i, k : /\ x = Head(QueueOf("recv")[e]).cells[1] /\ v = pipe[PeerOf[e]][1]
                                /\ ArrivesAt(e, r, l, i, k, x, v)
    BY MovesInAt
  <1>2. /\ UNCHANGED <<job, plan, call, lanes>> /\ r \in Ranks /\ l \in DOMAIN lanes[r]
        /\ i \in DOMAIN Plan(r)[l].steps /\ EndOf("recv", Plan(r)[l]) = e
        /\ k \in DOMAIN Plan(r)[l].steps[i].recv /\ x = Plan(r)[l].steps[i].recv[k]
    BY <1>1 DEF ArrivesAt
  <1>3. MemLane(r, l)'
    <2>1. OutLane(r, l) /\ BufLane(r, l)  BY <1>2 DEF MemInv, MemLane
    <2>2. OutLane(r, l)'  BY <2>1, <1>1, ArrivesOut
    <2>3. BufLane(r, l)'  BY <2>1, <1>1, ArrivesBuf
    <2>4. QED  BY <2>2, <2>3 DEF MemLane
  <1>4. x \in LaneMemory(Plan(r)[l])
    <2>1. x \in Range(Plan(r)[l].steps[i].recv)  BY <1>2 DEF Range
    <2>2. QED  BY <2>1, <1>2, InLaneMemory
  <1>5. \A p \in Ranks : \A m \in DOMAIN lanes[p] : p # r \/ m # l => MemLane(p, m)'
    BY <1>1, <1>2, <1>4, OtherLanes
  <1>6. Ranks' = Ranks  BY <1>2 DEF Ranks
  <1>7. QED  BY <1>2, <1>3, <1>5, <1>6 DEF MemInv

(* Lane l has waited for step a, and gone on. *)
WaitsAt(r, l, a, n) ==
    /\ UNCHANGED <<job, plan, call>>
    /\ r \in Ranks /\ l \in DOMAIN lanes[r] /\ a \in DOMAIN Plan(r)[l].steps
    /\ n = lanes[r][l].step /\ n = a + Plan(r)[l].lag /\ lanes'[r][l].step = n + 1
    /\ \A p \in Ranks : DOMAIN lanes'[p] = DOMAIN lanes[p]
    /\ \A p \in Ranks : \A m \in DOMAIN lanes[p] : p # r \/ m # l => lanes'[p][m] = lanes[p][m]
    /\ LaneKept("recv")
    /\ \A k \in DOMAIN Plan(r)[l].steps[a].recv : ~LanePending("recv", r, l, a, k)
    /\ \A y \in Cells : y \notin Range(Plan(r)[l].steps[a].into) => mem'[y] = mem[y]
    /\ \A k \in DOMAIN Plan(r)[l].steps[a].into : Plan(r)[l].steps[a].into[k] \in Cells =>
          mem'[Plan(r)[l].steps[a].into[k]]
             = mem[Plan(r)[l].steps[a].into[k]] (+) mem[Plan(r)[l].steps[a].recv[k]]

LEMMA ReducedFacts ==
    ASSUME NEW from, NEW into, Distinct(into), mem' = Reduced(from, into)
    PROVE  /\ \A y \in Cells : y \notin Range(into) => mem'[y] = mem[y]
           /\ \A k \in DOMAIN into : into[k] \in Cells => mem'[into[k]] = mem[into[k]] (+) mem[from[k]]
  <1>1. \A y \in Cells : mem'[y] = IF y \in Range(into)
                                   THEN mem[y] (+) mem[from[CHOOSE k \in DOMAIN into : into[k] = y]]
                                   ELSE mem[y]
    BY DEF Reduced
  <1>2. ASSUME NEW k \in DOMAIN into, into[k] \in Cells PROVE mem'[into[k]] = mem[into[k]] (+) mem[from[k]]
    <2>1. into[k] \in Range(into)  BY DEF Range
    <2>2. PICK m : m = CHOOSE b \in DOMAIN into : into[b] = into[k]  OBVIOUS
    <2>3. m \in DOMAIN into /\ into[m] = into[k]  BY <2>2
    <2>4. m = k  BY <2>3 DEF Distinct
    <2>5. mem'[into[k]] = mem[into[k]] (+) mem[from[CHOOSE b \in DOMAIN into : into[b] = into[k]]]
      BY <1>1, <1>2, <2>1
    <2>6. QED  BY <2>2, <2>4, <2>5
  <1>3. QED  BY <1>1, <1>2

LEMMA StepWaitIs ==
    ASSUME GroupInv, NEW r \in Ranks, NEW l \in DOMAIN lanes[r], StepWait(r, l)
    PROVE  \E a, n : WaitsAt(r, l, a, n)
  <1>1. GroupTypeOK /\ LanesInPlan  BY DEF GroupInv
  <1>2. PICK n, a, L : n = lanes[r][l].step /\ a = Awaited(r, l) /\ L = Plan(r)[l]  OBVIOUS
  <1>3. /\ UNCHANGED <<job, plan, call>> /\ lanes[r][l].at = "wait" /\ Ready(r, l, a)
        /\ mem' = Reduced(L.steps[a].recv, L.steps[a].into) /\ NextStep(r, l, n)
    BY <1>2 DEF StepWait, At, setupVars
  <1>4. /\ L.lag \in {0, 1} /\ DOMAIN L.steps = 1..Len(L.steps) /\ Len(L.steps) \in Nat /\ AtStep(L, lanes[r][l])
    BY <1>1, <1>2, LaneFacts
  <1>5. n \in Nat \ {0} /\ n > L.lag /\ n <= Len(L.steps)  BY <1>2, <1>3, <1>4 DEF AtStep
  <1>6. a = n - L.lag  BY <1>2 DEF Awaited
  <1>7. a \in DOMAIN L.steps /\ n = a + L.lag
    <2>1. PICK g, z : g = L.lag /\ z = Len(L.steps)  OBVIOUS
    <2>2. g \in {0, 1} /\ z \in Nat /\ n \in Nat \ {0} /\ n > g /\ n <= z /\ a = n - g
      BY <2>1, <1>4, <1>5, <1>6
    <2>3. a \in 1..z /\ n = a + g  BY ONLY <2>2
    <2>4. QED  BY <2>1, <2>3, <1>4
  <1>8. PICK i, place : Goto(r, l, i, place) /\ [step |-> i, at |-> place] = After(L, n)
    <2>1. NextStep(r, l, n)  BY <1>3
    <2>2. PICK i, place : Goto(r, l, i, place) /\ [step |-> i, at |-> place] = After(Plan(r)[l], n)
      BY <2>1, NextStepGoes
    <2>3. QED  BY <2>2, <1>2
  <1>9. i = n + 1  BY <1>5, <1>8, AfterPosted
  <1>10. /\ \A p \in Ranks : DOMAIN lanes'[p] = DOMAIN lanes[p]
         /\ \A p \in Ranks : \A m \in DOMAIN lanes[p] :
               lanes'[p][m] = IF p = r /\ m = l THEN [step |-> i, at |-> place] ELSE lanes[p][m]
    BY <1>1, <1>8, GotoFacts
  <1>11. LaneKept("recv")  BY StepWaitPending, WayFacts DEF LanesKept
  <1>12. ASSUME NEW k \in DOMAIN L.steps[a].recv PROVE ~LanePending("recv", r, l, a, k)
    <2>1. PICK d : d = "recv"  OBVIOUS
    <2>2. PostedAt("recv", lanes[r][l], a)
      <3>1. PICK g : g = L.lag  OBVIOUS
      <3>2. a < n \/ a = n  BY <3>1, <1>4, <1>5, <1>6
      <3>3. QED  BY <3>2, <1>2, <1>3, WayFacts
    <2>3. ~Holds(recvs, L.from, Id(call[r], l, a))  BY <1>2, <1>3, ReadyIs
    <2>4. \A q \in Range(recvs[L.from]) : q.id # Id(call[r], l, a)  BY <2>3, HoldsFacts
    <2>5. \A q \in Range(QueueOf("recv")[EndOf("recv", L)]) : q.id # Id(call[r], l, a)
      BY <2>4, WayFacts
    <2>6. QED  BY <2>2, <2>5, <1>2 DEF LanePending
  <1>13. Distinct(L.steps[a].into)  BY <1>1, <1>2, <1>7, PlanSteps
  <1>14. /\ \A y \in Cells : y \notin Range(L.steps[a].into) => mem'[y] = mem[y]
         /\ \A k \in DOMAIN L.steps[a].into : L.steps[a].into[k] \in Cells =>
               mem'[L.steps[a].into[k]] = mem[L.steps[a].into[k]] (+) mem[L.steps[a].recv[k]]
    BY <1>3, <1>13, ReducedFacts
  <1>15. lanes'[r][l].step = n + 1  BY <1>9, <1>10
  <1>16. \A p \in Ranks : \A m \in DOMAIN lanes[p] : p # r \/ m # l => lanes'[p][m] = lanes[p][m]
    BY <1>10
  <1>17. WaitsAt(r, l, a, n)
    BY <1>2, <1>3, <1>7, <1>10, <1>11, <1>12, <1>14, <1>15, <1>16 DEF WaitsAt
  <1>18. QED  BY <1>17

(* What has been summed up is what the lane is to have. *)
LEMMA WaitsSum ==
    ASSUME AllMatched, GroupInv, MemInv, NEW r, NEW l, NEW a, NEW n, WaitsAt(r, l, a, n),
           NEW k \in DOMAIN Plan(r)[l].steps[a].into, NEW y, y = Plan(r)[l].steps[a].into[k],
           y \in LaneMemory(Plan(r)[l]), IsOut(y), y \in Cells
    PROVE  mem'[y] = Value(job, r, call[r], l, Before(Plan(r)[l], y, a) \cup {a}, y[3])
  <1>1. GroupTypeOK /\ LanesInPlan  BY DEF GroupInv
  <1>2. PICK L, s, v, c : L = Plan(r)[l] /\ s = L.steps[a] /\ v = mem[s.recv[k]] /\ c = call[r]
    OBVIOUS
  <1>3. /\ r \in Ranks /\ l \in DOMAIN lanes[r] /\ a \in DOMAIN L.steps
        /\ n = lanes[r][l].step /\ n = a + L.lag
        /\ \A m \in DOMAIN s.recv : ~LanePending("recv", r, l, a, m)
        /\ mem'[y] = mem[y] (+) v
    BY <1>2 DEF WaitsAt
  <1>4. /\ L.lag \in {0, 1} /\ a \in Nat
    <2>1. L.lag \in {0, 1} /\ DOMAIN L.steps = 1..Len(L.steps)  BY <1>1, <1>2, <1>3, LaneFacts
    <2>2. QED  BY <2>1, <1>3
  <1>5. s.into # <<>> /\ k \in DOMAIN s.recv /\ y = s.into[k] /\ y \in Range(s.into)
    <2>1. y = s.into[k] /\ k \in DOMAIN s.into  BY <1>2
    <2>2. s.into # <<>>  BY <2>1
    <2>3. s.recv \in Seq(Cells) /\ Len(s.into) = Len(s.recv)  BY <1>1, <1>2, <1>3, <2>2, PlanSteps
    <2>4. LaneOk(L, LaneMemory(L))  BY <1>1, <1>2, <1>3, LaneFacts
    <2>5. s.into \in Seq(LaneMemory(L))  BY <2>4, <1>2, <1>3 DEF LaneOk, StepTyped
    <2>6. DOMAIN s.into = 1..Len(s.into) /\ DOMAIN s.recv = 1..Len(s.recv)  BY <2>3, <2>5
    <2>7. QED  BY <2>1, <2>2, <2>3, <2>6 DEF Range
  <1>6. lanes[r][l].step <= a + L.lag /\ a <= lanes[r][l].step
    <2>1. PICK g : g = L.lag  OBVIOUS
    <2>2. n = a + g /\ g \in {0, 1}  BY <2>1, <1>3, <1>4
    <2>3. n <= a + g /\ a <= n  BY ONLY <2>2, <1>4
    <2>4. QED  BY <2>1, <2>3, <1>3
  <1>7. DoneWriters(r, l, y) = Before(L, y, a)
    <2>1. y \in Written(s)  BY <1>5 DEF Written
    <2>2. DoneWriters(r, l, y) \ {a} = Before(L, y, a)
      <3>1. r \in Ranks /\ l \in DOMAIN lanes[r] /\ a \in DOMAIN Plan(r)[l].steps  BY <1>2, <1>3
      <3>2. lanes[r][l].step <= a + Plan(r)[l].lag /\ a <= lanes[r][l].step  BY <1>2, <1>6
      <3>3. y \in Written(Plan(r)[l].steps[a])  BY <1>2, <2>1
      <3>4. DoneWriters(r, l, y) \ {a} = Before(Plan(r)[l], y, a)  BY <3>1, <3>2, <3>3, UnderWay
      <3>5. QED  BY <3>4, <1>2
    <2>3. ~Done(r, l, a, y)
      <3>1. ~(a + L.lag < lanes[r][l].step)
        <4>1. PICK g : g = L.lag  OBVIOUS
        <4>2. QED  BY <4>1, <1>3, <1>4
      <3>2. QED  BY <3>1, <1>2, <1>5 DEF Done
    <2>4. a \notin DoneWriters(r, l, y)  BY <2>3 DEF DoneWriters
    <2>5. QED  BY <2>2, <2>4
  <1>8. OutLane(r, l) /\ BufLane(r, l)  BY <1>3 DEF MemInv, MemLane
  <1>9. mem[y] = Value(job, r, c, l, Before(L, y, a), y[3])  BY <1>2, <1>7, <1>8 DEF OutLane
  <1>10. PICK t, e : t = [round |-> Round(job)[r][c], step |-> a, cell |-> k] /\ e = L.from  OBVIOUS
  <1>11. Carries(PeerOf[e], t, v)  BY <1>2, <1>3, <1>5, <1>6, <1>8, <1>10 DEF BufLane
  <1>12. L = Lanes(job, r, c)[l] /\ c \in DOMAIN job.calls[r] /\ l \in DOMAIN Lanes(job, r, c)
    <2>1. /\ call[r] \in DOMAIN job.calls[r]
          /\ Plan(r) = Lanes(job, r, call[r]) /\ DOMAIN lanes[r] = DOMAIN Lanes(job, r, call[r])
      BY <1>1, <1>3, SomeLane, LaneIs
    <2>2. QED  BY <2>1, <1>2, <1>3
  <1>13. e \in JobEnds /\ e[2] = r
    <2>1. EndOf("recv", Plan(r)[l]) \in JobEnds /\ EndOf("recv", Plan(r)[l])[2] = r
      BY <1>1, <1>3, SomeLane, WayEnds, WayFacts
    <2>2. QED  BY <2>1, <1>2, <1>10, WayFacts
  <1>14. Moves(job, "recv", e, c, l, t)
    <2>1. /\ t.round = Round(job)[e[2]][c] /\ t.step = a /\ t.cell = k  BY <1>10, <1>13
    <2>2. EndOf("recv", L) = e /\ MovedBy("recv", s) = s.recv  BY <1>10, WayFacts
    <2>3. QED  BY <2>1, <2>2, <1>2, <1>3, <1>5, <1>12, <1>13 DEF Moves
  <1>15. Arrives(job, r, c, l, a, k, v)
    <2>1. r = e[2] /\ a = t.step /\ k = t.cell  BY <1>10, <1>13
    <2>2. QED  BY <2>1, <1>1, <1>11, <1>13, <1>14, ReceivedValue
  <1>16. Value(job, r, c, l, Before(L, y, a), y[3]) (+) v
            = Value(job, r, c, l, Before(L, y, a) \cup {a}, y[3])
    BY <1>2, <1>5, <1>12, <1>15 DEF Arrives
  <1>17. QED  BY <1>2, <1>3, <1>9, <1>16

LEMMA WaitsOut ==
    ASSUME AllMatched, GroupInv, MemInv, NEW r, NEW l, NEW a, NEW n, WaitsAt(r, l, a, n)
    PROVE  OutLane(r, l)'
  <1>1. GroupTypeOK /\ LanesInPlan  BY DEF GroupInv
  <1>2. PICK L, s : L = Plan(r)[l] /\ s = L.steps[a]  OBVIOUS
  <1>3. /\ UNCHANGED <<job, plan, call>>
        /\ r \in Ranks /\ l \in DOMAIN lanes[r] /\ a \in DOMAIN L.steps
        /\ n = lanes[r][l].step /\ n = a + L.lag /\ lanes'[r][l].step = n + 1
        /\ \A y \in Cells : y \notin Range(s.into) => mem'[y] = mem[y]
    BY <1>2 DEF WaitsAt
  <1>4. /\ L.lag \in {0, 1} /\ DOMAIN L.steps = 1..Len(L.steps)
    BY <1>1, <1>2, <1>3, LaneFacts
  <1>5. Plan(r)' = Plan(r)  BY <1>3 DEF Plan
  <1>6. \A y \in LaneMemory(L) : y \in Cells  BY <1>2, <1>3, LaneCells
  <1>7. ASSUME NEW y, NEW m \in Writers(L, y), m # a \/ y \notin Range(s.into)
        PROVE  Done(r, l, m, y)' <=> Done(r, l, m, y)
    <2>1. m \in DOMAIN L.steps /\ (L.steps[m].into # <<>> => y \in Range(L.steps[m].into))
      BY WritersFacts
    <2>2. L.steps[m].into # <<>> => m # a  BY <2>1, <1>2, <1>7
    <2>3. L.steps[m].into # <<>> => (m + L.lag < n + 1 <=> m + L.lag < n)
      <3>1. PICK g : g = L.lag  OBVIOUS
      <3>2. m \in Nat /\ a \in Nat /\ g \in {0, 1} /\ n = a + g  BY <2>1, <3>1, <1>3, <1>4
      <3>3. m # a => (m + g < n + 1 <=> m + g < n)  BY ONLY <3>2
      <3>4. QED  BY <2>2, <3>1, <3>3
    <2>4. L.steps[m].into = <<>> => \A k \in DOMAIN L.steps[m].recv :
             LanePending("recv", r, l, m, k)' <=> LanePending("recv", r, l, m, k)
      BY <2>1, <1>2, <1>3, WayFacts DEF WaitsAt, LaneKept
    <2>5. QED  BY <2>1, <2>3, <2>4, <1>2, <1>3, DoneSame
  <1>8. ASSUME NEW y \in LaneMemory(L), y \notin Range(s.into)
        PROVE  mem'[y] = mem[y] /\ DoneWriters(r, l, y)' = DoneWriters(r, l, y)
    <2>1. mem'[y] = mem[y]  BY <1>3, <1>6, <1>8
    <2>2. \A m \in Writers(L, y) : Done(r, l, m, y)' <=> Done(r, l, m, y)  BY <1>7, <1>8
    <2>3. QED  BY <2>1, <2>2, <1>2, <1>5 DEF DoneWriters
  <1>9. ASSUME NEW y \in LaneMemory(L), IsOut(y), y \in Range(s.into)
        PROVE  mem'[y] = Value(job, r, call[r], l, DoneWriters(r, l, y)', y[3])
    <2>1. PICK k \in DOMAIN s.into : y = s.into[k]  BY <1>9 DEF Range
    <2>2. mem'[y] = Value(job, r, call[r], l, Before(L, y, a) \cup {a}, y[3])
      <3>1. y \in Cells  BY <1>6, <1>9
      <3>2. k \in DOMAIN Plan(r)[l].steps[a].into /\ y = Plan(r)[l].steps[a].into[k] /\ y \in LaneMemory(Plan(r)[l])
        BY <2>1, <1>2, <1>9
      <3>3. mem'[y] = Value(job, r, call[r], l, Before(Plan(r)[l], y, a) \cup {a}, y[3])
        BY <3>1, <3>2, <1>9, WaitsSum
      <3>4. QED  BY <3>3, <1>2
    <2>3. lanes[r][l].step <= a + Plan(r)[l].lag /\ a <= lanes[r][l].step
      <3>1. PICK g : g = L.lag  OBVIOUS
      <3>2. n = a + g /\ g \in {0, 1} /\ a \in Nat  BY <3>1, <1>3, <1>4
      <3>3. n <= a + g /\ a <= n  BY ONLY <3>2
      <3>4. QED  BY <3>1, <3>3, <1>2, <1>3
    <2>4. DoneWriters(r, l, y) \ {a} = Before(L, y, a) /\ a \in Writers(L, y)
      <3>1. s.into # <<>>  BY <2>1
      <3>2. y \in Written(Plan(r)[l].steps[a])  BY <3>1, <1>2, <1>9 DEF Written
      <3>3. r \in Ranks /\ l \in DOMAIN lanes[r] /\ a \in DOMAIN Plan(r)[l].steps  BY <1>2, <1>3
      <3>4. DoneWriters(r, l, y) \ {a} = Before(Plan(r)[l], y, a) /\ a \in Writers(Plan(r)[l], y)
        BY <2>3, <3>2, <3>3, UnderWay
      <3>5. QED  BY <3>4, <1>2
    <2>5. Done(r, l, a, y)'
      <3>1. s.into # <<>>  BY <2>1
      <3>2. a + L.lag < lanes'[r][l].step
        <4>1. PICK g : g = L.lag  OBVIOUS
        <4>2. a \in Nat /\ g \in {0, 1} /\ n = a + g  BY <4>1, <1>3, <1>4
        <4>3. a + g < n + 1  BY ONLY <4>2
        <4>4. QED  BY <4>1, <4>3, <1>3
      <3>3. QED  BY <3>1, <3>2, <1>2, <1>5 DEF Done
    <2>6. DoneWriters(r, l, y)' = Before(L, y, a) \cup {a}
      <3>1. \A m \in Writers(L, y) : m # a => (Done(r, l, m, y)' <=> Done(r, l, m, y))  BY <1>7
      <3>2. DoneWriters(r, l, y)' = {m \in Writers(L, y) : Done(r, l, m, y)'}
        BY <1>2, <1>5 DEF DoneWriters
      <3>3. DoneWriters(r, l, y) = {m \in Writers(L, y) : Done(r, l, m, y)}  BY <1>2 DEF DoneWriters
      <3>4. QED  BY <3>1, <3>2, <3>3, <2>4, <2>5
    <2>7. QED  BY <2>2, <2>6
  <1>10. \A y \in LaneMemory(Plan(r)[l]) : IsOut(y) =>
            \/ mem'[y] = mem[y] /\ DoneWriters(r, l, y)' = DoneWriters(r, l, y)
            \/ mem'[y] = Value(job, r, call[r], l, DoneWriters(r, l, y)', y[3])
    BY <1>2, <1>8, <1>9
  <1>11. OutLane(r, l)  BY <1>3 DEF MemInv, MemLane
  <1>12. QED  BY <1>3, <1>10, <1>11, OutKept

LEMMA WaitsBuf ==
    ASSUME GroupInv, MemInv, NEW r, NEW l, NEW a, NEW n, WaitsAt(r, l, a, n)
    PROVE  BufLane(r, l)'
  <1>1. GroupTypeOK /\ LanesInPlan  BY DEF GroupInv
  <1>2. PICK L, s : L = Plan(r)[l] /\ s = L.steps[a]  OBVIOUS
  <1>3. /\ UNCHANGED <<job, plan, call>>
        /\ r \in Ranks /\ l \in DOMAIN lanes[r] /\ a \in DOMAIN L.steps
        /\ n = lanes[r][l].step /\ n = a + L.lag /\ lanes'[r][l].step = n + 1
        /\ \A y \in Cells : y \notin Range(s.into) => mem'[y] = mem[y]
    BY <1>2 DEF WaitsAt
  <1>4. /\ L.lag \in {0, 1} /\ DOMAIN L.steps = 1..Len(L.steps)
    BY <1>1, <1>2, <1>3, LaneFacts
  <1>5. ASSUME NEW m \in DOMAIN L.steps, n + 1 <= m + L.lag PROVE n <= m + L.lag
    <2>1. PICK g : g = L.lag  OBVIOUS
    <2>2. m \in Nat /\ n \in Nat /\ g \in {0, 1} /\ n + 1 <= m + g  BY <2>1, <1>3, <1>4, <1>5
    <2>3. n <= m + g  BY ONLY <2>2
    <2>4. QED  BY <2>1, <2>3
  <1>6. ASSUME NEW m \in DOMAIN L.steps, L.steps[m].into # <<>>, NEW k \in DOMAIN L.steps[m].recv
        PROVE  /\ LanePending("recv", r, l, m, k)' <=> LanePending("recv", r, l, m, k)
               /\ mem'[L.steps[m].recv[k]] = mem[L.steps[m].recv[k]]
    <2>1. LanePending("recv", r, l, m, k)' <=> LanePending("recv", r, l, m, k)
      BY <1>2, <1>3, WayFacts DEF WaitsAt, LaneKept
    <2>2. PICK y : y = L.steps[m].recv[k]  OBVIOUS
    <2>3. y \in Range(L.steps[m].recv)  BY <2>2 DEF Range
    <2>4. y \in LaneMemory(L)  BY <2>3, InLaneMemory
    <2>5. y \in Cells  BY <2>4, <1>2, <1>3, LaneCells
    <2>6. ~IsOut(y)
      <3>1. L.steps[m].into # <<>> => \A z \in Range(L.steps[m].recv) : ~IsOut(z)
        BY <1>2, <1>3, LaneCells
      <3>2. QED  BY <3>1, <2>3, <1>6
    <2>7. y \notin Range(s.into)
      <3>1. s.into # <<>> => \A z \in Range(s.into) : IsOut(z)  BY <1>2, <1>3, LaneCells
      <3>2. s.into = <<>> => Range(s.into) = {}  BY DEF Range
      <3>3. QED  BY <3>1, <3>2, <2>6
    <2>8. QED  BY <2>1, <2>2, <2>5, <2>7, <1>3
  <1>7. \A m \in DOMAIN Plan(r)[l].steps :
           Plan(r)[l].steps[m].into # <<>> /\ lanes'[r][l].step <= m + Plan(r)[l].lag =>
              /\ lanes[r][l].step <= m + Plan(r)[l].lag
              /\ \A k \in DOMAIN Plan(r)[l].steps[m].recv : ~LanePending("recv", r, l, m, k)' =>
                    /\ ~LanePending("recv", r, l, m, k)
                    /\ mem'[Plan(r)[l].steps[m].recv[k]] = mem[Plan(r)[l].steps[m].recv[k]]
    BY <1>2, <1>3, <1>5, <1>6
  <1>8. BufLane(r, l)  BY <1>3 DEF MemInv, MemLane
  <1>9. QED  BY <1>3, <1>7, <1>8, BufKept

LEMMA StepWaitMem ==
    ASSUME AllMatched, GroupInv, MemInv, NEW r \in Ranks, NEW l \in DOMAIN lanes[r], StepWait(r, l)
    PROVE  MemInv'
  <1>1. GroupTypeOK /\ LanesInPlan  BY DEF GroupInv
  <1>2. PICK a, n : WaitsAt(r, l, a, n)  BY StepWaitIs
  <1>3. /\ UNCHANGED <<job, plan, call>> /\ a \in DOMAIN Plan(r)[l].steps
        /\ \A p \in Ranks : DOMAIN lanes'[p] = DOMAIN lanes[p]
        /\ \A p \in Ranks : \A m \in DOMAIN lanes[p] : p # r \/ m # l => lanes'[p][m] = lanes[p][m]
        /\ LaneKept("recv")
        /\ \A y \in Cells : y \notin Range(Plan(r)[l].steps[a].into) => mem'[y] = mem[y]
    BY <1>2 DEF WaitsAt
  <1>4. MemLane(r, l)'  BY <1>2, WaitsOut, WaitsBuf DEF MemLane
  <1>5. ASSUME NEW p \in Ranks, NEW m \in DOMAIN lanes[p], p # r \/ m # l PROVE MemLane(p, m)'
    <2>1. Waited(p, m)  BY <1>3, <1>5 DEF Waited
    <2>2. \A i \in DOMAIN Plan(p)[m].steps : \A k \in DOMAIN Plan(p)[m].steps[i].recv :
             LanePending("recv", p, m, i, k)' <=> LanePending("recv", p, m, i, k)
      BY <1>3, WayFacts DEF LaneKept
    <2>3. ASSUME NEW y \in LaneMemory(Plan(p)[m]) PROVE mem'[y] = mem[y]
      <3>1. y \in Cells /\ y[1] = p  BY LaneCells
      <3>2. y \notin Range(Plan(r)[l].steps[a].into)
        <4> SUFFICES ASSUME y \in Range(Plan(r)[l].steps[a].into) PROVE FALSE  OBVIOUS
        <4>1. y \in LaneMemory(Plan(r)[l])  BY <1>3, InLaneMemory
        <4>2. y[1] = r  BY <4>1, LaneCells
        <4>3. p = r /\ m # l  BY <4>2, <3>1, <1>5
        <4>4. LaneMemory(Plan(r)[l]) \cap LaneMemory(Plan(r)[m]) = {}  BY <4>3, LanesApart
        <4>5. QED  BY <4>1, <4>3, <4>4
      <3>3. QED  BY <3>1, <3>2, <1>3
    <2>4. MemLane(p, m)  BY DEF MemInv
    <2>5. QED  BY <1>3, <2>1, <2>2, <2>3, <2>4, QuietLane
  <1>6. Ranks' = Ranks  BY <1>3 DEF Ranks
  <1>7. QED  BY <1>3, <1>4, <1>5, <1>6 DEF MemInv

(* A rank begins or ends a call; for the lanes of the others nothing changes. *)
LEMMA OtherRank ==
    ASSUME MemInv, UNCHANGED <<job, plan, sends, recvs>>, NEW p \in Ranks, call'[p] = call[p], lanes'[p] = lanes[p],
           NEW m \in DOMAIN lanes[p], \A y \in LaneMemory(Plan(p)[m]) : mem'[y] = mem[y]
    PROVE  MemLane(p, m)'
  <1>1. Waited(p, m)  BY DEF Waited
  <1>2. ASSUME NEW i, NEW k PROVE LanePending("recv", p, m, i, k)' <=> LanePending("recv", p, m, i, k)
    <2>1. PICK d : d = "recv"  OBVIOUS
    <2>2. QueueOf(d)' = QueueOf(d)  BY <2>1, WayFacts DEF QueueOf
    <2>3. QueueOf(d)'[EndOf(d, Plan(p)[m])] = QueueOf(d)[EndOf(d, Plan(p)[m])]  BY <2>2
    <2>4. LanePending(d, p, m, i, k)' <=> LanePending(d, p, m, i, k)  BY <2>3, LanePendingKept
    <2>5. QED  BY <2>1, <2>4
  <1>3. MemLane(p, m)  BY DEF MemInv
  <1>4. QED  BY <1>1, <1>2, <1>3, QuietLane

LEMMA FinishMem == ASSUME GroupInv, MemInv, NEW r \in Ranks, Finish(r) PROVE MemInv'
  <1>1. GroupTypeOK /\ LanesInPlan  BY DEF GroupInv
  <1>2. /\ UNCHANGED <<job, plan, call, sends, recvs, mem>>
        /\ lanes' = [lanes EXCEPT ![r] = <<>>]
    BY DEF Finish, setupVars, duplexVars
  <1>3. DOMAIN lanes = Ranks  BY <1>1 DEF GroupTypeOK
  <1>4. lanes'[r] = <<>> /\ \A x \in Ranks \ {r} : lanes'[x] = lanes[x]  BY <1>2, <1>3
  <1>5. Ranks' = Ranks  BY <1>2 DEF Ranks
  <1>6. ASSUME NEW p \in Ranks, NEW m \in DOMAIN lanes'[p] PROVE MemLane(p, m)'
    <2>1. p # r  BY <1>4
    <2>2. lanes'[p] = lanes[p] /\ call'[p] = call[p] /\ m \in DOMAIN lanes[p]  BY <2>1, <1>2, <1>4
    <2>3. QED  BY <2>2, <1>2, OtherRank
  <1>7. QED  BY <1>5, <1>6 DEF MemInv

Starts(r, c) ==
    /\ UNCHANGED <<job, plan, sends, recvs, pipe>> /\ lanes[r] = <<>> /\ c \in DOMAIN job.calls[r]
    /\ call'[r] = c /\ Plan(r)' = Lanes(job, r, c)
    /\ lanes'[r] = [l \in DOMAIN Lanes(job, r, c) |-> [step |-> 1, at |-> "send"]]
    /\ \A x \in Ranks \ {r} : call'[x] = call[x] /\ lanes'[x] = lanes[x]
    /\ \A x \in Cells : mem'[x] = IF x[1] = r /\ x[2] = <<"out", c>> THEN Initial(r, c, x[3]) ELSE mem[x]
    /\ job \in Jobs /\ r \in RanksOf(job)
LEMMA StartIs ==
    ASSUME GroupInv, NEW r \in Ranks, Start(r), NEW c, c = call[r] + 1
    PROVE  Starts(r, c)
  <1>1. GroupTypeOK /\ LanesInPlan  BY DEF GroupInv
  <1>2. /\ UNCHANGED <<job, plan, sends, recvs, pipe>> /\ lanes[r] = <<>> /\ c \in DOMAIN job.calls[r]
        /\ call' = [call EXCEPT ![r] = c]
        /\ lanes' = [lanes EXCEPT ![r] = [l \in DOMAIN plan[r][c] |-> [step |-> 1, at |-> "send"]]]
    BY DEF Start, setupVars
  <1>3. DOMAIN lanes = Ranks /\ call \in [Ranks -> Nat] /\ job \in Jobs /\ r \in RanksOf(job)
        /\ plan = [x \in Ranks |-> [d \in DOMAIN job.calls[x] |-> Lanes(job, x, d)]]
    BY <1>1 DEF GroupTypeOK, Ranks
  <1>4. plan[r][c] = Lanes(job, r, c)  BY <1>2, <1>3
  <1>5. /\ call'[r] = c /\ lanes'[r] = [l \in DOMAIN Lanes(job, r, c) |-> [step |-> 1, at |-> "send"]]
        /\ \A x \in Ranks \ {r} : call'[x] = call[x] /\ lanes'[x] = lanes[x]
    BY <1>2, <1>3, <1>4
  <1>6. Plan(r)' = Lanes(job, r, c)  BY <1>2, <1>4, <1>5 DEF Plan
  <1>7. mem' = [x \in Cells |-> IF x[1] = r /\ x[2] = <<"out", c>> THEN Initial(r, c, x[3]) ELSE mem[x]]
    BY DEF Start
  <1>8. \A x \in Cells : mem'[x] = IF x[1] = r /\ x[2] = <<"out", c>> THEN Initial(r, c, x[3]) ELSE mem[x]
    BY <1>7
  <1>9. QED  BY <1>2, <1>3, <1>5, <1>6, <1>8 DEF Starts

LEMMA FreshLane ==
    ASSUME GroupInv, NEW r \in Ranks, Start(r), NEW l \in DOMAIN lanes'[r]
    PROVE  MemLane(r, l)'
  <1>1. PICK c : c = call[r] + 1 /\ Starts(r, c)  BY StartIs
  <1>2. /\ UNCHANGED <<job, plan>> /\ c \in DOMAIN job.calls[r] /\ call'[r] = c /\ Plan(r)' = Lanes(job, r, c)
        /\ lanes'[r] = [k \in DOMAIN Lanes(job, r, c) |-> [step |-> 1, at |-> "send"]]
        /\ \A x \in Cells : mem'[x] = IF x[1] = r /\ x[2] = <<"out", c>> THEN Initial(r, c, x[3]) ELSE mem[x]
        /\ job \in Jobs /\ r \in RanksOf(job)
    BY <1>1 DEF Starts
  <1>3. PICK L : L = Lanes(job, r, c)[l]  OBVIOUS
  <1>4. l \in DOMAIN Lanes(job, r, c) /\ lanes'[r][l].step = 1 /\ lanes'[r][l].at = "send"  BY <1>2
  <1>5. Plan(r)'[l] = L  BY <1>2, <1>3
  <1>6. L.lag \in {0, 1} /\ DOMAIN L.steps = 1..Len(L.steps)  BY <1>2, <1>3, <1>4, LanesFacts
  <1>7. ASSUME NEW i \in DOMAIN L.steps, NEW k PROVE LanePending("recv", r, l, i, k)'
    <2>1. ~PostedAt("recv", lanes'[r][l], i)  BY <1>4, <1>6, WayFacts
    <2>2. QED  BY <2>1 DEF LanePending
  <1>8. ASSUME NEW x PROVE DoneWriters(r, l, x)' = {}
    <2>1. ASSUME NEW m \in Writers(L, x) PROVE ~Done(r, l, m, x)'
      <3>1. /\ m \in DOMAIN L.steps
            /\ L.steps[m].into = <<>> => x \in Range(L.steps[m].recv)
        BY WritersFacts
      <3>2. CASE L.steps[m].into = <<>>
        <4>1. PICK k \in DOMAIN L.steps[m].recv : L.steps[m].recv[k] = x  BY <3>1, <3>2 DEF Range
        <4>2. LanePending("recv", r, l, m, k)'  BY <1>7, <3>1
        <4>3. QED  BY <4>1, <4>2, <3>2, <1>5 DEF Done
      <3>3. CASE L.steps[m].into # <<>>
        <4>1. ~(m + L.lag < 1)  BY <3>1, <1>6
        <4>2. QED  BY <4>1, <3>3, <1>4, <1>5 DEF Done
      <3>4. QED  BY <3>2, <3>3
    <2>2. DoneWriters(r, l, x)' = {m \in Writers(L, x) : Done(r, l, m, x)'}  BY <1>5 DEF DoneWriters
    <2>3. QED  BY <2>1, <2>2
  <1>9. ASSUME NEW x \in LaneMemory(L), IsOut(x)
        PROVE  mem'[x] = Value(job, r, call'[r], l, {}, x[3])
    <2>1. x \in Cells /\ x = OutCell(r, c, x[3])  BY <1>2, <1>3, <1>4, <1>9, LaneShape
    <2>2. x[1] = r /\ x[2] = <<"out", c>>  BY <2>1 DEF OutCell
    <2>3. mem'[x] = Initial(r, c, x[3])  BY <2>1, <2>2, <1>2
    <2>4. Value(job, r, c, l, {}, x[3]) = Initial(r, c, x[3])
      <3>1. job \in Jobs /\ r \in Ranks /\ c \in DOMAIN job.calls[r] /\ l \in DOMAIN Lanes(job, r, c)
            /\ x \in LaneMemory(Lanes(job, r, c)[l]) /\ IsOut(x)
        BY <1>2, <1>3, <1>4, <1>9
      <3>2. QED  BY <3>1, InitialValue
    <2>5. QED  BY <2>3, <2>4, <1>2
  <1>10. OutLane(r, l)'
    <2>1. \A x \in LaneMemory(L) : IsOut(x) => mem'[x] = Value(job', r, call'[r], l, DoneWriters(r, l, x)', x[3])
      BY <1>2, <1>8, <1>9
    <2>2. QED  BY <2>1, <1>5 DEF OutLane
  <1>11. BufLane(r, l)'  BY <1>5, <1>7 DEF BufLane
  <1>12. QED  BY <1>10, <1>11 DEF MemLane

LEMMA StartMem == ASSUME GroupInv, MemInv, NEW r \in Ranks, Start(r) PROVE MemInv'
  <1>1. PICK c : c = call[r] + 1 /\ Starts(r, c)  BY StartIs
  <1>2. /\ UNCHANGED <<job, plan, sends, recvs>>
        /\ \A x \in Ranks \ {r} : call'[x] = call[x] /\ lanes'[x] = lanes[x]
        /\ \A x \in Cells : mem'[x] = IF x[1] = r /\ x[2] = <<"out", c>> THEN Initial(r, c, x[3]) ELSE mem[x]
    BY <1>1 DEF Starts
  <1>3. Ranks' = Ranks  BY <1>2 DEF Ranks
  <1>4. ASSUME NEW p \in Ranks, p # r, NEW m \in DOMAIN lanes'[p] PROVE MemLane(p, m)'
    <2>1. lanes'[p] = lanes[p] /\ call'[p] = call[p] /\ m \in DOMAIN lanes[p]  BY <1>2, <1>4
    <2>2. ASSUME NEW y \in LaneMemory(Plan(p)[m]) PROVE mem'[y] = mem[y]
      <3>1. y \in Cells /\ y[1] = p  BY <2>1, LaneCells
      <3>2. QED  BY <3>1, <1>2, <1>4
    <2>3. QED  BY <2>1, <2>2, <1>2, OtherRank
  <1>5. \A m \in DOMAIN lanes'[r] : MemLane(r, m)'  BY FreshLane
  <1>6. QED  BY <1>3, <1>4, <1>5 DEF MemInv

-----------------------------------------------------------------------------
(* The results *)

(* The results of the calls that are over. *)
LEMMA ExpectedSame ==
    ASSUME job' = job, NEW r, NEW c, NEW k
    PROVE  Expected(r, c, k)' = Expected(r, c, k) /\ Width(r, c)' = Width(r, c) /\ Ranks' = Ranks
  <1>1. Ranks' = Ranks /\ Width(r, c)' = Width(r, c)  BY DEF Ranks, Width
  <1>2. \A d, kind, peer : Upto(r, d, kind, peer)' = Upto(r, d, kind, peer)  BY DEF Upto
  <1>3. Expected(r, c, k)' = Expected(r, c, k)  BY <1>1 DEF Expected, Upto
  <1>4. QED  BY <1>1, <1>3

(* Cell k of the result of call c of rank r. *)
ResultAt(r, c, k) == mem[OutCell(r, c, k)] = Expected(r, c, k)
LEMMA ResultIs ==
    Result <=> \A r \in Ranks : \A c \in 1..call[r] : \A k \in 1..Width(r, c) : Finished(r, c) => ResultAt(r, c, k)
  BY DEF Result, ResultAt, OutCell

LEMMA ResultSame ==
    ASSUME job' = job, NEW r, NEW c, NEW k, ResultAt(r, c, k), mem'[OutCell(r, c, k)] = mem[OutCell(r, c, k)]
    PROVE  ResultAt(r, c, k)'
  BY ExpectedSame DEF ResultAt, OutCell

(* The cells of a result are in the memory of its lanes. *)
LEMMA ResultCells ==
    ASSUME AllMatched, GroupTypeOK, NEW r \in Ranks, NEW c \in 1..call[r], NEW k \in 1..Width(r, c)
    PROVE  OutCell(r, c, k) \in Cells
  <1>1. job \in Jobs /\ r \in RanksOf(job) /\ c \in DOMAIN job.calls[r]
    <2>1. job \in Jobs /\ (call[r] = 0 \/ call[r] \in DOMAIN job.calls[r]) /\ call[r] \in Nat
      BY DEF GroupTypeOK
    <2>2. job.calls[r] \in Seq(Call)  BY <2>1, JobFacts DEF Ranks
    <2>3. QED  BY <2>1, <2>2 DEF Ranks
  <1>2. PICK l \in DOMAIN Lanes(job, r, c) : OutCell(r, c, k) \in LaneMemory(Lanes(job, r, c)[l])
    BY <1>1, FinalValue
  <1>3. QED  BY <1>1, <1>2, LaneShape

LEMMA KeptResult ==
    ASSUME AllMatched, GroupTypeOK, Result, UNCHANGED <<job, call>>,
           \A r \in Ranks : lanes'[r] = <<>> <=> lanes[r] = <<>>,
           \A r \in Ranks : \A c \in 1..call[r] : \A k : Finished(r, c) /\ OutCell(r, c, k) \in Cells =>
              mem'[OutCell(r, c, k)] = mem[OutCell(r, c, k)]
    PROVE  Result'
  <1>1. Ranks' = Ranks  BY DEF Ranks
  <1>2. ASSUME NEW r \in Ranks, NEW c \in 1..call[r], NEW k \in 1..Width(r, c), Finished(r, c)' PROVE ResultAt(r, c, k)'
    <2>1. Finished(r, c)  BY <1>2 DEF Finished
    <2>2. ResultAt(r, c, k)  BY <2>1, ResultIs
    <2>3. mem'[OutCell(r, c, k)] = mem[OutCell(r, c, k)]  BY <2>1, ResultCells
    <2>4. QED  BY <2>2, <2>3, ResultSame
  <1>3. \A r, c : Width(r, c)' = Width(r, c)  BY ExpectedSame
  <1>4. \A r \in Ranks' : \A c \in 1..call'[r] : \A k \in 1..Width(r, c)' : Finished(r, c)' => ResultAt(r, c, k)'
    BY <1>1, <1>2, <1>3
  <1>5. QED  BY <1>4 DEF Result, ResultAt, OutCell

(* What a lane writes is of a call that is not over. *)
LEMMA LaneIsOther ==
    ASSUME GroupInv, NEW r \in Ranks, NEW l \in DOMAIN lanes[r], NEW y \in LaneMemory(Plan(r)[l]),
           NEW p \in Ranks, NEW c, Finished(p, c), NEW k
    PROVE  OutCell(p, c, k) # y
  <1>1. lanes[r] # <<>>  BY SomeLane
  <1>2. y[1] = r /\ (IsOut(y) => y = OutCell(r, call[r], y[3]))  BY LaneCells
  <1>3. SUFFICES ASSUME OutCell(p, c, k) = y PROVE FALSE  OBVIOUS
  <1>4. IsOut(y)  BY <1>3 DEF IsOut, OutCell
  <1>5. p = r /\ c = call[r]  BY <1>2, <1>3, <1>4, CellsDiffer
  <1>6. call[r] \in Nat  BY DEF GroupInv, GroupTypeOK
  <1>7. QED  BY <1>1, <1>5, <1>6 DEF Finished

LEMMA StillResult ==
    ASSUME AllMatched, GroupInv, Result, UNCHANGED <<job, call, mem>>, NEW d \in Ways, LaneKept(d)
    PROVE  Result'
  <1>1. GroupTypeOK  BY DEF GroupInv
  <1>2. \A r \in Ranks : lanes'[r] = <<>> <=> lanes[r] = <<>>  BY DEF LaneKept
  <1>3. \A r \in Ranks : \A c \in 1..call[r] : \A k : Finished(r, c) /\ OutCell(r, c, k) \in Cells =>
           mem'[OutCell(r, c, k)] = mem[OutCell(r, c, k)]
    OBVIOUS
  <1>4. QED  BY <1>1, <1>2, <1>3, KeptResult

LEMMA MoveInResult ==
    ASSUME AllMatched, GroupInv, QueueShape, FlowInv, Result, NEW e, MovesIn(e)
    PROVE  Result'
  <1>1. GroupTypeOK  BY DEF GroupInv
  <1>2. PICK x, v, r, l, i, k : ArrivesAt(e, r, l, i, k, x, v)  BY MovesInAt
  <1>3. /\ UNCHANGED <<job, call, lanes>> /\ r \in Ranks /\ l \in DOMAIN lanes[r] /\ i \in DOMAIN Plan(r)[l].steps
        /\ k \in DOMAIN Plan(r)[l].steps[i].recv /\ x = Plan(r)[l].steps[i].recv[k]
        /\ \A y \in Cells : mem'[y] = IF y = x THEN v ELSE mem[y]
    BY <1>2 DEF ArrivesAt
  <1>4. x \in LaneMemory(Plan(r)[l])
    <2>1. x \in Range(Plan(r)[l].steps[i].recv)  BY <1>3 DEF Range
    <2>2. QED  BY <2>1, <1>3, InLaneMemory
  <1>5. ASSUME NEW p \in Ranks, NEW c \in 1..call[p], NEW m, Finished(p, c), OutCell(p, c, m) \in Cells
        PROVE  mem'[OutCell(p, c, m)] = mem[OutCell(p, c, m)]
    <2>1. OutCell(p, c, m) # x  BY <1>3, <1>4, <1>5, LaneIsOther
    <2>2. QED  BY <2>1, <1>3, <1>5
  <1>6. \A p \in Ranks : lanes'[p] = <<>> <=> lanes[p] = <<>>  BY <1>3
  <1>7. QED  BY <1>1, <1>3, <1>5, <1>6, KeptResult

LEMMA StepWaitResult ==
    ASSUME AllMatched, GroupInv, Result, NEW r \in Ranks, NEW l \in DOMAIN lanes[r], StepWait(r, l)
    PROVE  Result'
  <1>1. GroupTypeOK  BY DEF GroupInv
  <1>2. PICK a, n : WaitsAt(r, l, a, n)  BY StepWaitIs
  <1>3. /\ UNCHANGED <<job, call>> /\ a \in DOMAIN Plan(r)[l].steps /\ LaneKept("recv")
        /\ \A y \in Cells : y \notin Range(Plan(r)[l].steps[a].into) => mem'[y] = mem[y]
    BY <1>2 DEF WaitsAt
  <1>4. ASSUME NEW p \in Ranks, NEW c \in 1..call[p], NEW m, Finished(p, c), OutCell(p, c, m) \in Cells
        PROVE  mem'[OutCell(p, c, m)] = mem[OutCell(p, c, m)]
    <2>1. Range(Plan(r)[l].steps[a].into) \subseteq LaneMemory(Plan(r)[l])  BY <1>3, InLaneMemory
    <2>2. OutCell(p, c, m) \notin LaneMemory(Plan(r)[l])  BY <1>4, LaneIsOther
    <2>3. QED  BY <2>1, <2>2, <1>3, <1>4
  <1>5. \A p \in Ranks : lanes'[p] = <<>> <=> lanes[p] = <<>>  BY <1>3 DEF LaneKept
  <1>6. QED  BY <1>1, <1>3, <1>4, <1>5, KeptResult

(* When all lanes are done, all that is written has been written. *)
LEMMA AllDone ==
    ASSUME GroupInv, NEW r \in Ranks, NEW l \in DOMAIN lanes[r], lanes[r][l].at = "done", NEW x
    PROVE  DoneWriters(r, l, x) = Writers(Plan(r)[l], x)
  <1>1. GroupTypeOK /\ LanesInPlan  BY DEF GroupInv
  <1>2. PICK L : L = Plan(r)[l]  OBVIOUS
  <1>3. /\ L.lag \in {0, 1} /\ DOMAIN L.steps = 1..Len(L.steps) /\ Len(L.steps) \in Nat /\ AtStep(L, lanes[r][l])
    BY <1>1, <1>2, LaneFacts
  <1>4. lanes[r][l].step = Len(L.steps) + 1  BY <1>3 DEF AtStep
  <1>5. ASSUME NEW m \in Writers(L, x) PROVE Done(r, l, m, x)
    <2>1. m \in DOMAIN L.steps  BY WritersFacts
    <2>2. CASE L.steps[m].into = <<>>
      <3>1. \A k : ~LanePending("recv", r, l, m, k)  BY <2>1, <1>2, DonePending, WayFacts
      <3>2. QED  BY <3>1, <2>2, <1>2 DEF Done
    <2>3. CASE L.steps[m].into # <<>>
      <3>1. m + L.lag <= Len(L.steps)  BY <2>1, <2>3, <1>2, LaneCells
      <3>2. m + L.lag < lanes[r][l].step
        <4>1. PICK g, z : g = L.lag /\ z = Len(L.steps)  OBVIOUS
        <4>2. m \in Int /\ g \in {0, 1} /\ z \in Nat /\ m + g <= z  BY <4>1, <3>1, <2>1, <1>3
        <4>3. m + g < z + 1  BY ONLY <4>2
        <4>4. QED  BY <4>1, <4>3, <1>4
      <3>3. QED  BY <3>2, <2>3, <1>2 DEF Done
    <2>4. QED  BY <2>2, <2>3
  <1>6. QED  BY <1>2, <1>5 DEF DoneWriters

LEMMA FinishResult ==
    ASSUME AllMatched, GroupInv, MemInv, Result, NEW r \in Ranks, Finish(r)
    PROVE  Result'
  <1>1. GroupTypeOK /\ LanesInPlan  BY DEF GroupInv
  <1>2. /\ UNCHANGED <<job, call, mem>> /\ lanes[r] # <<>>
        /\ \A l \in DOMAIN lanes[r] : lanes[r][l].at = "done"
        /\ lanes' = [lanes EXCEPT ![r] = <<>>]
    BY DEF Finish, setupVars, duplexVars
  <1>3. \A x \in Ranks \ {r} : lanes'[x] = lanes[x]  BY <1>1, <1>2 DEF GroupTypeOK
  <1>4. /\ r \in RanksOf(job) /\ job \in Jobs /\ call[r] \in DOMAIN job.calls[r]
        /\ Plan(r) = Lanes(job, r, call[r]) /\ DOMAIN lanes[r] = DOMAIN Lanes(job, r, call[r])
    BY <1>1, <1>2, LaneIs
  <1>5. ASSUME NEW k \in 1..Width(r, call[r]) PROVE ResultAt(r, call[r], k)
    <2>1. PICK c, x : c = call[r] /\ x = OutCell(r, c, k)  OBVIOUS
    <2>2. PICK l \in DOMAIN Lanes(job, r, c) :
             /\ x \in LaneMemory(Lanes(job, r, c)[l])
             /\ Value(job, r, c, l, Writers(Lanes(job, r, c)[l], x), k) = Expected(r, c, k)
      BY <2>1, <1>4, FinalValue
    <2>3. l \in DOMAIN lanes[r] /\ Plan(r)[l] = Lanes(job, r, c)[l]  BY <2>1, <2>2, <1>4
    <2>4. OutLane(r, l)  BY <2>3 DEF MemInv, MemLane
    <2>5. IsOut(x) /\ x[3] = k  BY <2>1 DEF IsOut, OutCell
    <2>6. mem[x] = Value(job, r, c, l, DoneWriters(r, l, x), k)
      BY <2>1, <2>2, <2>3, <2>4, <2>5 DEF OutLane
    <2>7. DoneWriters(r, l, x) = Writers(Plan(r)[l], x)  BY <2>3, <1>2, AllDone
    <2>8. QED  BY <2>1, <2>2, <2>3, <2>6, <2>7 DEF ResultAt
  <1>6. ASSUME NEW p \in Ranks, NEW c \in 1..call[p], NEW k \in 1..Width(p, c), Finished(p, c)'
        PROVE  ResultAt(p, c, k)'
    <2>1. ResultAt(p, c, k)
      <3>1. CASE p = r /\ c = call[r]  BY <3>1, <1>5, <1>6
      <3>2. CASE ~(p = r /\ c = call[r])
        <4>1. Finished(p, c)  BY <3>2, <1>2, <1>3, <1>6 DEF Finished
        <4>2. QED  BY <4>1, ResultIs
      <3>3. QED  BY <3>1, <3>2
    <2>2. QED  BY <2>1, <1>2, ResultSame
  <1>7. \A p, c : Width(p, c)' = Width(p, c)  BY <1>2, ExpectedSame
  <1>8. \A p \in Ranks' : \A c \in 1..call'[p] : \A k \in 1..Width(p, c)' : Finished(p, c)' => ResultAt(p, c, k)'
    BY <1>2, <1>6, <1>7 DEF Ranks
  <1>9. QED  BY <1>8 DEF Result, ResultAt, OutCell

LEMMA StartResult ==
    ASSUME AllMatched, GroupInv, Result, NEW r \in Ranks, Start(r)
    PROVE  Result'
  <1>1. PICK c : c = call[r] + 1 /\ Starts(r, c)  BY StartIs
  <1>2. /\ job' = job /\ lanes[r] = <<>> /\ c \in DOMAIN job.calls[r] /\ call'[r] = c
        /\ DOMAIN lanes'[r] = DOMAIN Lanes(job, r, c)
        /\ \A x \in Ranks \ {r} : call'[x] = call[x] /\ lanes'[x] = lanes[x]
        /\ \A x \in Cells : x[1] # r \/ x[2] # <<"out", c>> => mem'[x] = mem[x]
        /\ job \in Jobs /\ r \in RanksOf(job)
    BY <1>1 DEF Starts
  <1>3. GroupTypeOK /\ call[r] \in Nat  BY DEF GroupInv, GroupTypeOK
  <1>4. ASSUME NEW p \in Ranks, NEW d \in 1..call[p], p # r \/ d # c, NEW k \in 1..Width(p, d), Finished(p, d)
        PROVE  ResultAt(p, d, k)'
    <2>1. PICK x : x = OutCell(p, d, k)  OBVIOUS
    <2>2. x \in Cells  BY <2>1, <1>3, ResultCells
    <2>3. x[1] # r \/ x[2] # <<"out", c>>  BY <2>1, <1>4 DEF OutCell
    <2>4. mem'[x] = mem[x]  BY <2>2, <2>3, <1>2
    <2>5. ResultAt(p, d, k)  BY <1>4, ResultIs
    <2>6. QED  BY <2>1, <2>4, <2>5, <1>2, ResultSame
  <1>5. ASSUME NEW p \in Ranks, NEW d \in 1..call'[p], NEW k \in 1..Width(p, d), Finished(p, d)'
        PROVE  ResultAt(p, d, k)'
    <2>1. CASE p # r
      <3>1. d \in 1..call[p] /\ Finished(p, d)  BY <2>1, <1>2, <1>5 DEF Finished
      <3>2. QED  BY <3>1, <2>1, <1>4
    <2>2. CASE p = r /\ d # c
      <3>1. d \in 1..call[r] /\ (d < call[r] \/ d = call[r])  BY <2>2, <1>1, <1>2, <1>3, <1>5
      <3>2. Finished(r, d)  BY <3>1, <1>2 DEF Finished
      <3>3. QED  BY <3>1, <3>2, <2>2, <1>4
    <2>3. CASE p = r /\ d = c
      <3>1. lanes'[r] = <<>>  BY <2>3, <1>2, <1>3, <1>1, <1>5 DEF Finished
      <3>2. DOMAIN Lanes(job, r, c) = {}  BY <3>1, <1>2
      <3>3. \E l \in DOMAIN Lanes(job, r, c) : OutCell(r, c, k) \in LaneMemory(Lanes(job, r, c)[l])
        BY <2>3, <1>2, <1>5, FinalValue
      <3>4. QED  BY <3>2, <3>3
    <2>4. QED  BY <2>1, <2>2, <2>3
  <1>6. \A p, d : Width(p, d)' = Width(p, d)  BY <1>2, ExpectedSame
  <1>7. \A p \in Ranks' : \A d \in 1..call'[p] : \A k \in 1..Width(p, d)' : Finished(p, d)' => ResultAt(p, d, k)'
    BY <1>2, <1>5, <1>6 DEF Ranks
  <1>8. QED  BY <1>7 DEF Result, ResultAt, OutCell

(* The shape of the queues. *)
LEMMA StepSendShape ==
    ASSUME GroupInv, QueueShape, NEW r \in Ranks, NEW l \in DOMAIN lanes[r], StepSend(r, l)
    PROVE  QueueShape'
  <1>1. GroupTypeOK /\ LanesInPlan  BY DEF GroupInv
  <1>2. PICK s : s = lanes[r][l].step  OBVIOUS
  <1>3. /\ UNCHANGED <<job, plan, call>> /\ lanes[r][l].at = "send" /\ recvs' = recvs
        /\ sends' = Conn!Posted(sends, Plan(r)[l].to, Id(call[r], l, s), Plan(r)[l].steps[s].send)
    BY <1>2 DEF StepSend, At, setupVars, Conn!PostSend, Id
  <1>4. AtStep(Plan(r)[l], lanes[r][l]) /\ DOMAIN Plan(r)[l].steps = 1..Len(Plan(r)[l].steps)
        /\ Len(Plan(r)[l].steps) \in Nat
    BY <1>1, LaneFacts
  <1>5. s \in DOMAIN Plan(r)[l].steps /\ s \in Nat  BY <1>4, <1>3, <1>2 DEF AtStep
  <1>6. ~PostedAt("send", lanes[r][l], s)  BY <1>2, <1>3, <1>5, WayFacts
  <1>7. QueueOf("send")' = Conn!Posted(QueueOf("send"), EndOf("send", Plan(r)[l]), Id(call[r], l, s),
                                       MovedBy("send", Plan(r)[l].steps[s]))
    BY <1>3, WayFacts DEF QueueOf
  <1>8. ShapeOf("send") /\ ShapeOf("recv") /\ "send" \in Ways /\ "recv" \in Ways
    BY WayFacts DEF QueueShape
  <1>9. ShapeOf("send")'
    <2>1. UNCHANGED <<job, plan, call>>  BY <1>3
    <2>2. QED  BY <1>5, <1>6, <1>7, <1>8, <2>1, ShapePosted
  <1>10. ShapeOf("recv")'
    <2>1. QueueOf("recv")' = QueueOf("recv")  BY <1>3 DEF QueueOf
    <2>2. UNCHANGED <<job, plan>> /\ \A p \in Ranks : call'[p] = call[p] \/ lanes[p] = <<>>  BY <1>3
    <2>3. QED  BY <2>1, <2>2, <1>8, ShapeSame
  <1>11. QED  BY <1>9, <1>10, WayFacts DEF QueueShape

LEMMA StepRecvShape ==
    ASSUME GroupInv, QueueShape, NEW r \in Ranks, NEW l \in DOMAIN lanes[r], StepRecv(r, l)
    PROVE  QueueShape'
  <1>1. GroupTypeOK /\ LanesInPlan  BY DEF GroupInv
  <1>2. PICK s : s = lanes[r][l].step  OBVIOUS
  <1>3. /\ UNCHANGED <<job, plan, call>> /\ lanes[r][l].at = "recv" /\ sends' = sends
        /\ recvs' = Conn!Posted(recvs, Plan(r)[l].from, Id(call[r], l, s), Plan(r)[l].steps[s].recv)
    BY <1>2 DEF StepRecv, At, setupVars, Conn!PostRecv, Id
  <1>4. AtStep(Plan(r)[l], lanes[r][l]) /\ DOMAIN Plan(r)[l].steps = 1..Len(Plan(r)[l].steps)
        /\ Len(Plan(r)[l].steps) \in Nat
    BY <1>1, LaneFacts
  <1>5. s \in DOMAIN Plan(r)[l].steps /\ s \in Nat  BY <1>4, <1>3, <1>2 DEF AtStep
  <1>6. ~PostedAt("recv", lanes[r][l], s)  BY <1>2, <1>3, <1>5, WayFacts
  <1>7. QueueOf("recv")' = Conn!Posted(QueueOf("recv"), EndOf("recv", Plan(r)[l]), Id(call[r], l, s),
                                       MovedBy("recv", Plan(r)[l].steps[s]))
    BY <1>3, WayFacts DEF QueueOf
  <1>8. ShapeOf("send") /\ ShapeOf("recv") /\ "send" \in Ways /\ "recv" \in Ways
    BY WayFacts DEF QueueShape
  <1>9. ShapeOf("recv")'
    <2>1. UNCHANGED <<job, plan, call>>  BY <1>3
    <2>2. QED  BY <1>5, <1>6, <1>7, <1>8, <2>1, ShapePosted
  <1>10. ShapeOf("send")'
    <2>1. QueueOf("send")' = QueueOf("send")  BY <1>3 DEF QueueOf
    <2>2. UNCHANGED <<job, plan>> /\ \A p \in Ranks : call'[p] = call[p] \/ lanes[p] = <<>>  BY <1>3
    <2>3. QED  BY <2>1, <2>2, <1>8, ShapeSame
  <1>11. QED  BY <1>9, <1>10, WayFacts DEF QueueShape

LEMMA StillShape ==
    ASSUME GroupInv, QueueShape, UNCHANGED <<job, plan, sends, recvs>>,
           \A r \in Ranks : call'[r] = call[r] \/ lanes[r] = <<>>
    PROVE  QueueShape'
  <1>1. ASSUME NEW d \in Ways PROVE ShapeOf(d)'
    <2>1. QueueOf(d)' = QueueOf(d)  BY DEF QueueOf
    <2>2. ShapeOf(d)  BY DEF QueueShape
    <2>3. QED  BY <2>1, <2>2, ShapeSame
  <1>2. QED  BY <1>1 DEF QueueShape

LEMMA MoveShape ==
    ASSUME GroupInv, QueueShape, NEW d \in Ways, NEW o \in Ways, d # o, NEW e \in JobEnds,
           UNCHANGED <<job, plan, call, lanes>>,
           QueueOf(d)[e] # <<>>, 1 <= Len(Head(QueueOf(d)[e]).cells),
           QueueOf(d)' = HeadStep(QueueOf(d), e), QueueOf(o)' = QueueOf(o)
    PROVE  QueueShape'
  <1>1. ShapeOf(d) /\ ShapeOf(o)  BY DEF QueueShape
  <1>2. ShapeOf(d)'  BY <1>1, ShapeMoved
  <1>3. ShapeOf(o)'  BY <1>1, ShapeSame
  <1>4. QED  BY <1>2, <1>3 DEF QueueShape, Ways

LEMMA RetireShape ==
    ASSUME GroupInv, QueueShape, NEW e \in Ends, RetiresOf(e)
    PROVE  QueueShape'
  <1>1. UNCHANGED <<job, plan, call, lanes>>  BY DEF RetiresOf
  <1>2. ASSUME NEW d \in Ways PROVE ShapeOf(d)'
    <2>1. ShapeOf(d)  BY DEF QueueShape
    <2>2. CASE QueueOf(d)' = QueueOf(d)  BY <1>1, <2>1, <2>2, ShapeSame
    <2>3. CASE /\ QueueOf(d)[e] # <<>> /\ Head(QueueOf(d)[e]).cells = <<>>
               /\ QueueOf(d)' = [QueueOf(d) EXCEPT ![e] = Tail(QueueOf(d)[e])]
      BY <1>1, <2>1, <2>3, ShapeRetired
    <2>4. QED  BY <2>2, <2>3 DEF RetiresOf
  <1>3. QED  BY <1>2 DEF QueueShape

LEMMA DataInvInit == ASSUME AllMatched, Init PROVE DataInv
  <1>1. GroupInv  BY GroupInvInit
  <1>2. GroupTypeOK  BY <1>1 DEF GroupInv
  <1>3. /\ \A r \in Ranks : call[r] = 0 /\ lanes[r] = <<>>
        /\ \A e \in Ends : sends[e] = <<>> /\ recvs[e] = <<>> /\ pipe[e] = <<>>
        /\ DOMAIN pipe = Ends
    BY DEF Init
  <1>4. QueueShape
    <2>1. \A e \in JobEnds : \A d \in Ways : QueueOf(d)[e] = <<>>  BY <1>3 DEF QueueOf, JobEnds
    <2>2. \A e \in JobEnds : \A d \in Ways : Range(QueueOf(d)[e]) = {} /\ InOrder(QueueOf(d)[e])
      BY <2>1 DEF Range, InOrder
    <2>3. QED  BY <2>2 DEF QueueShape, ShapeOf
  <1>5. ASSUME NEW d, NEW e \in JobEnds PROVE Pending(d, e) = AllTags(d, e)
    <2>1. e[2] \in Ranks /\ job \in Jobs  BY <1>2, JobEndFacts
    <2>2. ASSUME NEW c, NEW l, NEW t, Moves(job, d, e, c, l, t) PROVE StillMoves(d, e, c, l, t)
      <3>1. c \in DOMAIN job.calls[e[2]]  BY <2>2 DEF Moves
      <3>2. c \in Nat \ {0}  BY <3>1, <2>1, CallFacts DEF Ranks
      <3>3. QED  BY <3>2, <2>1, <1>3 DEF StillMoves
    <2>3. QED  BY <2>2 DEF Pending, AllTags
  <1>6. ASSUME NEW e \in JobEnds PROVE Flow(e)
    <2>1. PeerOf[e] \in JobEnds /\ e \in Ends  BY <1>2, JobEndFacts
    <2>2. Pending("send", e) = AllTags("send", e) /\ Pending("recv", PeerOf[e]) = AllTags("send", e)
      BY <1>2, <1>5, <2>1, SameTags
    <2>3. PICK G : G = <<>>  OBVIOUS
    <2>4. pipe[e] \in Seq(Range(pipe[e])) /\ G \in Seq(Tags) /\ Len(G) = Len(pipe[e])
      <3>1. pipe[e] = <<>>  BY <2>1, <1>3
      <3>2. PICK S : S = Range(pipe[e])  OBVIOUS
      <3>3. <<>> \in Seq(S)  OBVIOUS
      <3>4. pipe[e] \in Seq(Range(pipe[e]))  BY <3>1, <3>2, <3>3
      <3>5. G \in Seq(Tags)  BY <2>3
      <3>6. Len(G) = Len(pipe[e])  BY <2>3, <3>1
      <3>7. QED  BY <3>4, <3>5, <3>6
    <2>5. Range(G) = {} /\ Increasing(G) /\ \A n \in DOMAIN G : Carries(e, G[n], pipe[e][n])
      BY <2>3 DEF Range, Increasing
    <2>6. Stream(e, G)  BY <2>2, <2>4, <2>5 DEF Stream
    <2>7. QED  BY <2>2, <2>4, <2>6 DEF Flow, Upper
  <1>7. MemInv
    <2>1. \A r \in Ranks : DOMAIN lanes[r] = {}  BY <1>3
    <2>2. QED  BY <2>1 DEF MemInv
  <1>8. Result
    <2>1. \A r \in Ranks : 1..call[r] = {}  BY <1>3
    <2>2. QED  BY <2>1 DEF Result
  <1>9. QED  BY <1>1, <1>3, <1>4, <1>6, <1>7, <1>8 DEF DataInv, FlowInv

(* A step that leaves what is under way and the memory alone. *)
LEMMA IdleData ==
    ASSUME AllMatched, DataInv, UNCHANGED <<job, plan, call, mem, pipe>>, LanesKept, GroupInv', QueueShape', MemInv'
    PROVE  DataInv'
  <1>1. GroupInv /\ QueueShape /\ FlowInv /\ MemInv /\ Result  BY DEF DataInv
  <1>2. PendingKept  BY <1>1, KeptPending
  <1>3. FlowInv'  BY <1>1, <1>2, StillFlows
  <1>4. Result'
    <2>1. PICK d : d \in Ways  BY WayFacts
    <2>2. LaneKept(d)  BY <2>1 DEF LanesKept
    <2>3. QED  BY <1>1, <2>1, <2>2, StillResult
  <1>5. QED  BY <1>3, <1>4 DEF DataInv

LEMMA SetupData == ASSUME AllMatched, DataInv, NEW r \in Ranks, Setup(r) PROVE DataInv'
  <1>1. GroupInv /\ QueueShape /\ MemInv  BY DEF DataInv
  <1>2. UNCHANGED <<job, plan, call, lanes, sends, recvs, mem, pipe>>
    BY DEF Setup, Listen, Accept, Connect, ConnectFails, callVars, duplexVars
  <1>3. GroupInv' /\ LanesKept /\ MemInv'  BY <1>1, SetupInv, SetupPending, SetupMem
  <1>4. QueueShape'  BY <1>1, <1>2, StillShape
  <1>5. QED  BY <1>2, <1>3, <1>4, IdleData

LEMMA StepSendData ==
    ASSUME AllMatched, DataInv, NEW r \in Ranks, NEW l \in DOMAIN lanes[r], StepSend(r, l)
    PROVE  DataInv'
  <1>1. GroupInv /\ QueueShape /\ MemInv  BY DEF DataInv
  <1>2. UNCHANGED <<job, plan, call, mem, pipe>>  BY DEF StepSend, setupVars, Conn!PostSend
  <1>3. GroupInv'  BY <1>1, StepSendInv
  <1>4. LanesKept  BY <1>1, StepSendPending
  <1>5. MemInv'  BY <1>1, StepSendMem
  <1>6. QueueShape'  BY <1>1, StepSendShape
  <1>7. QED  BY <1>2, <1>3, <1>4, <1>5, <1>6, IdleData

LEMMA StepRecvData ==
    ASSUME AllMatched, DataInv, NEW r \in Ranks, NEW l \in DOMAIN lanes[r], StepRecv(r, l)
    PROVE  DataInv'
  <1>1. GroupInv /\ QueueShape /\ MemInv  BY DEF DataInv
  <1>2. UNCHANGED <<job, plan, call, mem, pipe>>  BY DEF StepRecv, setupVars, Conn!PostRecv
  <1>3. GroupInv'  BY <1>1, StepRecvInv
  <1>4. LanesKept  BY <1>1, StepRecvPending
  <1>5. MemInv'  BY <1>1, StepRecvMem
  <1>6. QueueShape'  BY <1>1, StepRecvShape
  <1>7. QED  BY <1>2, <1>3, <1>4, <1>5, <1>6, IdleData

LEMMA LastWaitData ==
    ASSUME AllMatched, DataInv, NEW r \in Ranks, NEW l \in DOMAIN lanes[r], LastWait(r, l)
    PROVE  DataInv'
  <1>1. GroupInv /\ QueueShape /\ MemInv  BY DEF DataInv
  <1>2. UNCHANGED <<job, plan, call, sends, recvs, mem, pipe>>
    BY DEF LastWait, setupVars, duplexVars
  <1>3. GroupInv'  BY <1>1, LastWaitInv
  <1>4. LanesKept  BY <1>1, LastWaitPending
  <1>5. MemInv'  BY <1>1, LastWaitMem
  <1>6. QueueShape'  BY <1>1, <1>2, StillShape
  <1>7. QED  BY <1>2, <1>3, <1>4, <1>5, <1>6, IdleData

LEMMA StepWaitData ==
    ASSUME AllMatched, DataInv, NEW r \in Ranks, NEW l \in DOMAIN lanes[r], StepWait(r, l)
    PROVE  DataInv'
  <1>1. GroupInv /\ QueueShape /\ FlowInv /\ MemInv /\ Result  BY DEF DataInv
  <1>2. UNCHANGED <<job, plan, call, sends, recvs, pipe>>  BY DEF StepWait, setupVars
  <1>3. GroupInv'  BY <1>1, StepWaitInv
  <1>4. LanesKept  BY <1>1, StepWaitPending
  <1>5. MemInv'  BY <1>1, StepWaitMem
  <1>6. QueueShape'  BY <1>1, <1>2, StillShape
  <1>7. PendingKept  BY <1>1, <1>2, <1>4, KeptPending
  <1>8. FlowInv'  BY <1>1, <1>2, <1>7, StillFlows
  <1>9. Result'  BY <1>1, StepWaitResult
  <1>10. QED  BY <1>3, <1>5, <1>6, <1>8, <1>9 DEF DataInv

LEMMA StartData == ASSUME AllMatched, DataInv, NEW r \in Ranks, Start(r) PROVE DataInv'
  <1>1. GroupInv /\ QueueShape /\ FlowInv /\ MemInv /\ Result  BY DEF DataInv
  <1>2. PICK c : c = call[r] + 1 /\ Starts(r, c)  BY <1>1, StartIs
  <1>3. /\ UNCHANGED <<job, plan, sends, recvs, pipe>>
        /\ \A p \in Ranks : call'[p] = call[p] \/ lanes[p] = <<>>
    BY <1>2 DEF Starts
  <1>4. GroupInv' /\ MemInv'  BY <1>1, StartInv, StartMem
  <1>5. QueueShape'  BY <1>1, <1>3, StillShape
  <1>6. FlowInv'  BY <1>1, <1>3, StartPending, StillFlows
  <1>7. Result'  BY <1>1, StartResult
  <1>8. QED  BY <1>4, <1>5, <1>6, <1>7 DEF DataInv

LEMMA FinishData == ASSUME AllMatched, DataInv, NEW r \in Ranks, Finish(r) PROVE DataInv'
  <1>1. GroupInv /\ QueueShape /\ FlowInv /\ MemInv /\ Result  BY DEF DataInv
  <1>2. UNCHANGED <<job, plan, call, sends, recvs, pipe>>  BY DEF Finish, setupVars, duplexVars
  <1>3. GroupInv' /\ MemInv'  BY <1>1, FinishInv, FinishMem
  <1>4. QueueShape'  BY <1>1, <1>2, StillShape
  <1>5. FlowInv'  BY <1>1, <1>2, FinishPending, StillFlows
  <1>6. Result'  BY <1>1, FinishResult
  <1>7. QED  BY <1>3, <1>4, <1>5, <1>6 DEF DataInv

LEMMA WorkerData == ASSUME AllMatched, DataInv, NEW e \in Ends, Worker(e) PROVE DataInv'
  <1>1. GroupInv /\ QueueShape /\ FlowInv /\ MemInv /\ Result  BY DEF DataInv
  <1>2. GroupInv'  BY <1>1, WorkerInv
  <1>3. UNCHANGED <<setupVars, callVars>>  BY DEF Worker
  <1>4. CASE Conn!MoveOut(e, 1)
    <2>1. MovesOut(e)  BY <1>1, <1>3, <1>4, MoveOutIs
    <2>2. /\ e \in JobEnds /\ UNCHANGED <<job, plan, call, lanes, mem>>
          /\ QueueOf("send")[e] # <<>> /\ 1 <= Len(Head(QueueOf("send")[e]).cells)
          /\ QueueOf("send")' = HeadStep(QueueOf("send"), e) /\ QueueOf("recv")' = QueueOf("recv")
      BY <2>1 DEF MovesOut
    <2>3. QueueShape'  BY <1>1, <2>2, MoveShape, WayFacts
    <2>4. Carries(e, FirstTag("send", e), mem[Head(QueueOf("send")[e]).cells[1]])
      BY <1>1, <2>1, SentCarries
    <2>5. FlowInv'  BY <1>1, <2>1, <2>4, FlowOut
    <2>6. MemInv'  BY <1>1, <2>1, MoveOutMem
    <2>7. Result'
      <3>1. PICK d : d = "recv"  OBVIOUS
      <3>2. UNCHANGED <<job, plan, call, lanes, mem>> /\ QueueOf(d)' = QueueOf(d) /\ d \in Ways
        BY <2>2, <3>1, WayFacts
      <3>3. LaneKept(d)  BY <1>1, <3>2, StillPending
      <3>4. QED  BY <1>1, <3>2, <3>3, StillResult
    <2>8. QED  BY <1>2, <2>3, <2>5, <2>6, <2>7 DEF DataInv
  <1>5. CASE Conn!MoveIn(e, 1)
    <2>1. MovesIn(e)  BY <1>1, <1>3, <1>5, MoveInIs
    <2>2. /\ e \in JobEnds /\ UNCHANGED <<job, plan, call, lanes>>
          /\ QueueOf("recv")[e] # <<>> /\ 1 <= Len(Head(QueueOf("recv")[e]).cells)
          /\ QueueOf("recv")' = HeadStep(QueueOf("recv"), e) /\ QueueOf("send")' = QueueOf("send")
      BY <2>1 DEF MovesIn
    <2>3. QueueShape'  BY <1>1, <2>2, MoveShape, WayFacts
    <2>4. FlowInv'  BY <1>1, <2>1, FlowIn
    <2>5. MemInv'  BY <1>1, <2>1, MoveInMem
    <2>6. Result'  BY <1>1, <2>1, MoveInResult
    <2>7. QED  BY <1>2, <2>3, <2>4, <2>5, <2>6 DEF DataInv
  <1>6. CASE Conn!Retire(e)
    <2>1. RetiresOf(e)  BY <1>3, <1>6, RetireIs
    <2>2. UNCHANGED <<job, plan, call, mem, pipe>>  BY <2>1 DEF RetiresOf
    <2>3. LanesKept /\ MemInv' /\ QueueShape'  BY <1>1, <2>1, RetireKept, RetireMem, RetireShape
    <2>4. QED  BY <1>2, <2>2, <2>3, IdleData
  <1>7. QED  BY <1>4, <1>5, <1>6 DEF Worker

LEMMA StutterData ==
    ASSUME AllMatched, DataInv, UNCHANGED vars PROVE DataInv'
  <1>1. GroupInv /\ QueueShape /\ MemInv  BY DEF DataInv
  <1>2. UNCHANGED <<job, plan, call, lanes, sends, recvs, mem, pipe>>
    BY DEF vars, setupVars, callVars, duplexVars
  <1>3. \A d : QueueOf(d)' = QueueOf(d)  BY <1>2 DEF QueueOf
  <1>4. LanesKept  BY <1>1, <1>2, <1>3, StillPending DEF LanesKept
  <1>5. LaneKept("recv")  BY <1>4, WayFacts DEF LanesKept
  <1>6. MemInv'  BY <1>1, <1>2, <1>5, StillMem
  <1>7. QueueShape'  BY <1>1, <1>2, StillShape
  <1>8. GroupInv'  BY <1>1, GroupInvNext
  <1>9. QED  BY <1>2, <1>4, <1>6, <1>7, <1>8, IdleData

LEMMA DataInvNext == ASSUME AllMatched, DataInv, [Next]_vars PROVE DataInv'
  <1>1. CASE UNCHANGED vars  BY <1>1, StutterData
  <1>2. CASE \E e \in Ends : Worker(e)  BY <1>2, WorkerData
  <1>3. ASSUME NEW r \in Ranks, Setup(r) PROVE DataInv'  BY <1>3, SetupData
  <1>4. ASSUME NEW r \in Ranks, Start(r) PROVE DataInv'  BY <1>4, StartData
  <1>5. ASSUME NEW r \in Ranks, Finish(r) PROVE DataInv'  BY <1>5, FinishData
  <1>6. ASSUME NEW r \in Ranks, NEW l \in DOMAIN lanes[r], LaneStep(r, l) PROVE DataInv'
    <2>1. CASE StepSend(r, l)  BY <2>1, StepSendData
    <2>2. CASE StepRecv(r, l)  BY <2>2, StepRecvData
    <2>3. CASE StepWait(r, l)  BY <2>3, StepWaitData
    <2>4. CASE LastWait(r, l)  BY <2>4, LastWaitData
    <2> QED  BY <1>6, <2>1, <2>2, <2>3, <2>4 DEF LaneStep
  <1> QED  BY <1>1, <1>2, <1>3, <1>4, <1>5, <1>6 DEF Next

(* The streams of the connections, the queues and the memory stay as above, *)
(* whatever the order in which ranks, lanes and workers take their steps.   *)
THEOREM DataInvariant == ASSUME AllMatched PROVE Spec => []DataInv
  <1>1. Init => DataInv  BY DataInvInit
  <1>2. DataInv /\ [Next]_vars => DataInv'  BY DataInvNext
  <1> QED  BY <1>1, <1>2, PTL DEF Spec

(* Whatever the order of the steps: a call that has returned has left what it *)
(* promises (Result), if the calls of the ranks fit.  No code checks that     *)
(* they do: whoever calls has to see to it.                                   *)
THEOREM ResultCorrect == ASSUME AllMatched PROVE Spec => []Result
  <1>1. DataInv => Result  BY DEF DataInv
  <1> QED  BY <1>1, DataInvariant, PTL
=============================================================================
