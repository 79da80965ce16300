------------------------------ MODULE LaneProofs ------------------------------
(***************************************************************************)
(* Facts about the plans of RingGroup's calls, for any ranks, wires, sizes *)
(* of packets, pieces and calls of a job.                                  *)
(*                                                                         *)
(* The lanes of a call touch each other's memory nowhere (LanesOk:         *)
(* segments, packets, parts and pieces, rounded up as they are), and of    *)
(* one lane, no two steps that may be under way together do either         *)
(* (CutOk).                                                                *)
(*                                                                         *)
(* If the calls of the ranks fit (AllMatched): what a cell must hold is a  *)
(* function of the steps that have written it (Value), of those of its     *)
(* lane, as no other touches it.  A cell sent has a tag, <<round, step,    *)
(* cell>>; the tags of the two ends of a connection are the same           *)
(* (SentIsReceived).  What is sent as a tag makes what the receiver's cell *)
(* must hold next (Transfer), and in the end a cell must hold what the     *)
(* call promises (FinalValue).                                             *)
(***************************************************************************)
EXTENDS RingGroup, FiniteSetTheorems, SequenceTheorems, TLAPS

-----------------------------------------------------------------------------
(* Arithmetic *)

LEMMA MinOfTwo ==
    ASSUME NEW a \in Int, NEW b \in Int
    PROVE  Min({a, b}) = IF a <= b THEN a ELSE b
  BY DEF Min

LEMMA MaxOfTwo ==
    ASSUME NEW a \in Int, NEW b \in Int
    PROVE  Max({a, b}) = IF a <= b THEN b ELSE a
  BY DEF Max

LEMMA CeilFacts ==
    ASSUME NEW a \in Nat, NEW b \in Nat \ {0}
    PROVE  /\ CeilDiv(a, b) \in Nat
           /\ a <= CeilDiv(a, b) * b
           /\ CeilDiv(a, b) * b < a + b
           /\ a > 0 => CeilDiv(a, b) > 0
  <1> DEFINE q == (a + b - 1) \div b
             m == (a + b - 1) % b
  <1>1. a + b - 1 = b * q + m /\ m \in 0..b - 1 /\ q \in Int  OBVIOUS
  <1>2. q >= 0  OBVIOUS
  <1>3. CeilDiv(a, b) = q  BY DEF CeilDiv
  <1> HIDE DEF q, m
  <1>4. q * b = b * q /\ b * q = a + b - 1 - m  BY <1>1
  <1>5. a > 0 => q > 0
    <2> SUFFICES ASSUME a > 0, q = 0 PROVE FALSE  BY <1>1, <1>2
    <2>1. b * q = 0  OBVIOUS
    <2> QED  BY <2>1, <1>1
  <1> QED  BY <1>1, <1>2, <1>3, <1>4, <1>5

LEMMA DivFacts ==
    ASSUME NEW a \in Int, NEW b \in Nat \ {0}
    PROVE  a = b * (a \div b) + (a % b) /\ a % b \in 0..b - 1 /\ a \div b \in Int
  OBVIOUS

LEMMA TimesMonotone ==
    ASSUME NEW a \in Int, NEW b \in Int, a <= b, NEW c \in Nat
    PROVE  a * c <= b * c /\ a * c \in Int /\ b * c \in Int
  OBVIOUS

LEMMA SmallMultiple ==
    ASSUME NEW R \in Nat \ {0}, NEW x \in Int, R * x < R, -R < R * x
    PROVE  x = 0
  <1>1. CASE x >= 1
    <2>1. 1 * R <= x * R  BY <1>1, TimesMonotone
    <2> QED  BY <2>1
  <1>2. CASE x <= -1
    <2>1. x * R <= (-1) * R  BY <1>2, TimesMonotone
    <2> QED  BY <2>1
  <1> QED  BY <1>1, <1>2

(* A number that differs from m by a multiple of R. *)
LEMMA ModUnique ==
    ASSUME NEW R \in Nat \ {0}, NEW a \in Int, NEW x \in Int, NEW m \in 0..R - 1, a = R * x + m
    PROVE  a % R = m /\ a \div R = x
  <1> DEFINE q == a \div R
             n == a % R
  <1>1. a = R * q + n /\ n \in 0..R - 1 /\ q \in Int  BY DivFacts
  <1> HIDE DEF q, n
  <1>2. R * (x - q) = n - m
    <2>1. R * (x - q) = R * x - R * q  BY <1>1
    <2> QED  BY <2>1, <1>1
  <1>3. x - q = 0  BY <1>1, <1>2, SmallMultiple
  <1>4. n = m
    <2>1. R * (x - q) = 0  BY <1>3, <1>1
    <2> QED  BY <2>1, <1>1, <1>2
  <1> QED  BY <1>1, <1>3, <1>4 DEF q, n

LEMMA ModAdd ==
    ASSUME NEW R \in Nat \ {0}, NEW a \in Int, NEW b \in Int
    PROVE  ((a % R) + b) % R = (a + b) % R
  <1> DEFINE q == a \div R
             n == a % R
             x == (n + b) \div R
             m == (n + b) % R
  <1>1. a = R * q + n /\ n \in 0..R - 1 /\ q \in Int  BY DivFacts
  <1>2. n + b = R * x + m /\ m \in 0..R - 1 /\ x \in Int
    <2>1. n + b \in Int  BY <1>1
    <2> HIDE DEF n
    <2> QED  BY <2>1, DivFacts
  <1> HIDE DEF q, n, x, m
  <1>3. a + b = R * (q + x) + m
    <2>1. R * (q + x) = R * q + R * x  BY <1>1, <1>2
    <2>2. R * q \in Int /\ R * x \in Int  BY <1>1, <1>2
    <2>3. a + b = R * q + (n + b)  BY <1>1, <2>2
    <2>4. a + b = R * q + (R * x + m)  BY <1>2, <2>3
    <2> DEFINE u == R * q
               v == R * x
               w == R * (q + x)
    <2>5. u \in Int /\ v \in Int /\ m \in Int /\ w = u + v /\ a + b = u + (v + m)
      BY <1>2, <2>1, <2>2, <2>4
    <2> HIDE DEF u, v, w
    <2>6. a + b = w + m  BY <2>5
    <2> QED  BY <2>6 DEF w
  <1>4. (a + b) % R = m
    <2> DEFINE y == q + x
               z == a + b
    <2>1. y \in Int /\ z \in Int /\ z = R * y + m  BY <1>1, <1>2, <1>3
    <2> HIDE DEF y, z
    <2>2. z % R = m  BY <1>2, <2>1, ModUnique
    <2> QED  BY <2>2 DEF z
  <1> QED  BY <1>4 DEF m, n

LEMMA ModNear ==
    ASSUME NEW R \in Nat \ {0}, NEW a \in Int, NEW b \in Int,
           a % R = b % R, a - b < R, b - a < R
    PROVE  a = b
  <1> DEFINE q == a \div R
             x == b \div R
             m == a % R
  <1>1. a = R * q + m /\ q \in Int /\ m \in 0..R - 1  BY DivFacts
  <1>2. b = R * x + m /\ x \in Int  BY DivFacts
  <1> HIDE DEF q, x, m
  <1>3. R * (q - x) = a - b
    <2>1. R * (q - x) = R * q - R * x  BY <1>1, <1>2
    <2> QED  BY <2>1, <1>1, <1>2
  <1>4. q - x = 0  BY <1>1, <1>2, <1>3, SmallMultiple
  <1> QED  BY <1>1, <1>2, <1>4

LEMMA ModSmall ==
    ASSUME NEW R \in Nat \ {0}, NEW m \in 0..R - 1
    PROVE  m % R = m /\ (m + R) % R = m
  <1>1. m = R * 0 + m /\ m + R = R * 1 + m  OBVIOUS
  <1> QED  BY <1>1, ModUnique

LEMMA ModRange ==
    ASSUME NEW R \in Nat \ {0}, NEW a \in Int
    PROVE  a % R \in 0..R - 1
  OBVIOUS

-----------------------------------------------------------------------------
(* Pieces of memory *)

OutCell(r, c, k) == <<r, <<"out", c>>, k>>
BufferCell(r, lane, slot, k) == <<r, <<"buffer", lane, slot>>, k>>

(* The cells after the first a of the array of call c, up to the b-th.      *)
Cut(r, c, a, b) == [k \in 1..b - a |-> OutCell(r, c, a + k)]

Interval(r, c, a, b) == {OutCell(r, c, k) : k \in a + 1..b}
BufferCells(r, lane) == {BufferCell(r, lane, slot, k) : slot \in {0, 1}, k \in Nat}

LEMMA CellsDiffer ==
    ASSUME NEW r, NEW c, NEW k, NEW q, NEW d, NEW m
    PROVE  OutCell(r, c, k) = OutCell(q, d, m) => r = q /\ c = d /\ k = m
  BY DEF OutCell

LEMMA BufferCellsDiffer ==
    ASSUME NEW r, NEW lane, NEW slot, NEW k, NEW q, NEW other, NEW place, NEW m
    PROVE  BufferCell(r, lane, slot, k) = BufferCell(q, other, place, m) =>
              r = q /\ lane = other /\ slot = place /\ k = m
  BY DEF BufferCell

LEMMA BufferIsNotOut ==
    ASSUME NEW r, NEW lane, NEW slot, NEW k, NEW q, NEW d, NEW m
    PROVE  BufferCell(r, lane, slot, k) # OutCell(q, d, m)
  BY DEF BufferCell, OutCell

LEMMA OutIsCut == ASSUME NEW r, NEW c, NEW n \in Nat PROVE Out(r, c, n) = Cut(r, c, 0, n)
  <1>1. \A k \in 1..n : OutCell(r, c, 0 + k) = <<r, <<"out", c>>, k>>  BY DEF OutCell
  <1>2. n - 0 = n  OBVIOUS
  <1> QED  BY <1>1, <1>2, Zenon DEF Out, Cut

LEMMA CutFacts ==
    ASSUME NEW r, NEW c, NEW a \in Nat, NEW b \in Nat, a <= b
    PROVE  /\ DOMAIN Cut(r, c, a, b) = 1..b - a
           /\ Len(Cut(r, c, a, b)) = b - a /\ b - a \in Nat
           /\ Range(Cut(r, c, a, b)) = Interval(r, c, a, b)
           /\ \A k \in 1..b - a : Cut(r, c, a, b)[k] = OutCell(r, c, a + k)
           /\ (Cut(r, c, a, b) = <<>>) <=> (a = b)
  <1>1. DOMAIN Cut(r, c, a, b) = 1..b - a /\ b - a \in Nat  BY DEF Cut
  <1>2. Len(Cut(r, c, a, b)) = b - a  BY <1>1
  <1>3. \A k \in 1..b - a : Cut(r, c, a, b)[k] = OutCell(r, c, a + k)  BY DEF Cut
  <1>4. Range(Cut(r, c, a, b)) = Interval(r, c, a, b)
    <2>1. ASSUME NEW x \in Range(Cut(r, c, a, b)) PROVE x \in Interval(r, c, a, b)
      <3>1. PICK k \in 1..b - a : x = OutCell(r, c, a + k)  BY <1>1, <1>3 DEF Range
      <3>2. a + k \in a + 1..b  OBVIOUS
      <3> QED  BY <3>1, <3>2 DEF Interval
    <2>2. ASSUME NEW k \in a + 1..b PROVE OutCell(r, c, k) \in Range(Cut(r, c, a, b))
      <3>1. k - a \in 1..b - a /\ a + (k - a) = k  OBVIOUS
      <3>2. Cut(r, c, a, b)[k - a] = OutCell(r, c, k)  BY <3>1, <1>3
      <3> QED  BY <3>1, <3>2, <1>1 DEF Range
    <2> QED  BY <2>1, <2>2 DEF Interval
  <1>5. Cut(r, c, a, b) = <<>> <=> a = b
    <2>1. DOMAIN <<>> = {}  OBVIOUS
    <2>2. a = b => Cut(r, c, a, b) = <<>>  BY DEF Cut
    <2> QED  BY <1>1, <2>1, <2>2
  <1> QED  BY <1>1, <1>2, <1>3, <1>4, <1>5

PartOf(q, a, b) == SubSeq(q, a + 1, b)

LEMMA CutOfCut ==
    ASSUME NEW r, NEW c, NEW a \in Nat, NEW b \in Nat, a <= b,
           NEW x \in Nat, NEW y \in Nat, x <= y, y <= b - a
    PROVE  PartOf(Cut(r, c, a, b), x, y) = Cut(r, c, a + x, a + y)
  <1> DEFINE q == Cut(r, c, a, b)
  <1>1. SubSeq(q, x + 1, y) = [k \in 1..y - x |-> q[x + k]]
    <2>1. q \in Seq(Range(q)) /\ Len(q) = b - a
      <3>1. DOMAIN q = 1..b - a /\ b - a \in Nat  BY CutFacts
      <3>2. q = [k \in 1..b - a |-> q[k]]  BY DEF Cut
      <3>3. \A k \in 1..b - a : q[k] \in Range(q)  BY <3>1 DEF Range
      <3> HIDE DEF q
      <3> QED  BY <3>1, <3>2, <3>3
    <2> HIDE DEF q
    <2>2. SubSeq(q, x + 1, y) \in Seq(Range(q)) /\ Len(SubSeq(q, x + 1, y)) = y - x
      BY <2>1
    <2>3. \A k \in 1..y - x : SubSeq(q, x + 1, y)[k] = q[x + k]
      BY <2>1
    <2> DEFINE z == SubSeq(q, x + 1, y)
               n == y - x
    <2>4. z \in Seq(Range(q)) /\ Len(z) = n  BY <2>2
    <2> HIDE DEF z, n
    <2>5. z = [k \in 1..n |-> z[k]]  BY <2>4
    <2>6. [k \in 1..n |-> z[k]] = [k \in 1..n |-> q[x + k]]  BY <2>3, Zenon DEF z, n
    <2> QED  BY <2>5, <2>6, Zenon DEF z, n
  <1>2. \A k \in 1..y - x : q[x + k] = OutCell(r, c, (a + x) + k)
    <2>1. \A k \in 1..y - x : x + k \in 1..b - a /\ a + (x + k) = (a + x) + k  OBVIOUS
    <2> QED  BY <2>1 DEF Cut
  <1>3. (a + y) - (a + x) = y - x  OBVIOUS
  <1>4. Cut(r, c, a + x, a + y) = [k \in 1..y - x |-> OutCell(r, c, (a + x) + k)]
    BY <1>3 DEF Cut
  <1> HIDE DEF q
  <1>5. [k \in 1..y - x |-> q[x + k]] = [k \in 1..y - x |-> OutCell(r, c, (a + x) + k)]
    BY <1>2, Zenon
  <1> QED  BY <1>1, <1>4, <1>5, Zenon DEF q, PartOf

LEMMA BufferIs ==
    ASSUME NEW r, NEW lane, NEW slot, NEW n \in Nat
    PROVE  Buffer(r, lane, slot, n) = [k \in 1..n |-> BufferCell(r, lane, slot, k)]
  BY Zenon DEF Buffer, BufferCell

LEMMA JobFacts ==
    ASSUME NEW j \in Jobs
    PROVE  /\ j.ranks \in Nat /\ j.ranks >= 2
           /\ j.wires \in Nat \ {0} /\ j.minSend \in Nat \ {0} /\ j.minPacket \in Nat \ {0}
           /\ j.maxPacket \in Nat \ {0} /\ j.minPiece \in Nat \ {0}
           /\ 2 * j.wires <= j.minSend + 1
           /\ RanksOf(j) = 0..j.ranks - 1
           /\ j.calls \in [RanksOf(j) -> Seq(Call)]
  BY GroupAssumption DEF RanksOf

LEMMA CallFacts ==
    ASSUME NEW j \in Jobs, NEW r \in RanksOf(j), NEW c \in DOMAIN j.calls[r]
    PROVE  /\ j.calls[r][c] \in Call /\ j.calls[r][c].size \in Nat /\ j.calls[r] \in Seq(Call)
           /\ c \in Nat \ {0}
           /\ j.calls[r][c].kind \in {"all_reduce", "all_gather", "send", "recv"}
           /\ j.calls[r][c].kind \in {"send", "recv"} =>
                 j.calls[r][c].peer \in {(r + 1) % j.ranks, (r + j.ranks - 1) % j.ranks}
  <1>1. j.calls[r] \in Seq(Call)  BY JobFacts
  <1>2. j.calls[r][c] \in Call /\ c \in Nat \ {0}  BY <1>1
  <1>3. j.calls[r][c] \in Range(j.calls[r])  BY <1>1 DEF Range
  <1> QED  BY <1>1, <1>2, <1>3, GroupAssumption DEF Call, RanksOf

-----------------------------------------------------------------------------
(* The packets of an all_reduce of n cells *)

Segment(j, n) == CeilDiv(n, j.ranks)
PacketSize(j, n) == Max({j.minPacket, Min({j.maxPacket, Segment(j, n) \div 2})})
Packets(j, n) == CeilDiv(Segment(j, n), PacketSize(j, n))
Half(j, n) == (j.ranks - 1) * Packets(j, n)

Stop(j, n, s) == Min({(s + 1) * Segment(j, n), n})
(* Where packet p of segment s begins. *)
Edge(j, n, s, p) == Min({s * Segment(j, n) + p * PacketSize(j, n), Stop(j, n, s)})

LEMMA PacketFacts ==
    ASSUME NEW j \in Jobs, NEW n \in Nat \ {0}
    PROVE  /\ Segment(j, n) \in Nat \ {0} /\ PacketSize(j, n) \in Nat \ {0}
           /\ Packets(j, n) \in Nat \ {0}
           /\ n <= j.ranks * Segment(j, n)
           /\ Segment(j, n) <= Packets(j, n) * PacketSize(j, n)
           /\ Half(j, n) \in Nat \ {0} /\ Half(j, n) >= Packets(j, n)
  <1>1. j.ranks \in Nat \ {0} /\ j.ranks - 1 \in Nat \ {0} /\ j.minPacket \in Nat \ {0} /\ j.maxPacket \in Nat \ {0}
    BY JobFacts
  <1>2. Segment(j, n) \in Nat \ {0} /\ n <= Segment(j, n) * j.ranks
    <2> DEFINE R == j.ranks
    <2>1. R \in Nat \ {0}  BY <1>1
    <2> HIDE DEF R
    <2>2. CeilDiv(n, R) \in Nat /\ n <= CeilDiv(n, R) * R /\ CeilDiv(n, R) > 0  BY <2>1, CeilFacts
    <2> QED  BY <2>2 DEF Segment, R
  <1> DEFINE h == Segment(j, n) \div 2
             m == Min({j.maxPacket, h})
  <1>3. h \in Int  BY <1>2
  <1>4. m \in Int
    <2> HIDE DEF h
    <2> QED  BY <1>1, <1>3, MinOfTwo
  <1>5. PacketSize(j, n) \in Nat \ {0}
    <2>1. PacketSize(j, n) = Max({j.minPacket, m})  BY DEF PacketSize
    <2> HIDE DEF m
    <2> QED  BY <2>1, <1>1, <1>4, MaxOfTwo
  <1>6. Packets(j, n) \in Nat \ {0} /\ Segment(j, n) <= Packets(j, n) * PacketSize(j, n)
    <2> DEFINE a == Segment(j, n)
               b == PacketSize(j, n)
    <2>1. a \in Nat \ {0} /\ b \in Nat \ {0}  BY <1>2, <1>5
    <2> HIDE DEF a, b
    <2>2. CeilDiv(a, b) \in Nat /\ a <= CeilDiv(a, b) * b /\ CeilDiv(a, b) > 0  BY <2>1, CeilFacts
    <2> QED  BY <2>2 DEF Packets, a, b
  <1>7. Half(j, n) \in Nat \ {0} /\ Half(j, n) >= Packets(j, n)
    <2>1. 1 * Packets(j, n) <= (j.ranks - 1) * Packets(j, n)  BY <1>1, <1>6, TimesMonotone
    <2> QED  BY <2>1, <1>1, <1>6 DEF Half
  <1>8. j.ranks * Segment(j, n) = Segment(j, n) * j.ranks  BY <1>1, <1>2
  <1> QED  BY <1>2, <1>5, <1>6, <1>7, <1>8

LEMMA EdgeFacts ==
    ASSUME NEW j \in Jobs, NEW n \in Nat \ {0}, NEW s \in Nat, NEW p \in Nat
    PROVE  /\ Edge(j, n, s, p) \in Nat /\ Edge(j, n, s, p) <= n
           /\ Stop(j, n, s) \in Nat /\ Edge(j, n, s, p) <= Stop(j, n, s)
           /\ \A q \in Nat : p <= q => Edge(j, n, s, p) <= Edge(j, n, s, q)
           /\ \A t \in Nat, q \in Nat : s < t => Edge(j, n, s, p) <= Edge(j, n, t, q)
  <1> DEFINE g == Segment(j, n)
             b == PacketSize(j, n)
  <1>0. g \in Nat \ {0} /\ b \in Nat \ {0}  BY PacketFacts
  <1> HIDE DEF g, b
  <1> DEFINE G(t) == t * g
             B(q) == q * b
  <1>1. /\ \A t \in Nat : G(t) \in Nat /\ B(t) \in Nat
        /\ \A t, q \in Nat : t <= q => G(t) <= G(q) /\ B(t) <= B(q)
    BY <1>0, TimesMonotone
  <1>2. \A t \in Nat : Stop(j, n, t) = Min({G(t + 1), n})  BY DEF Stop, g
  <1>3. \A t, q \in Nat : Edge(j, n, t, q) = Min({G(t) + B(q), Stop(j, n, t)})  BY DEF Edge, g, b
  <1> HIDE DEF G, B
  <1>4. \A t \in Nat : /\ Stop(j, n, t) \in Nat /\ Stop(j, n, t) <= n /\ Stop(j, n, t) <= G(t + 1)
                       /\ \A m \in Nat : m <= n /\ m <= G(t + 1) => m <= Stop(j, n, t)
    <2> TAKE t \in Nat
    <2> DEFINE u == G(t + 1)
    <2>1. t + 1 \in Nat  OBVIOUS
    <2>2. u \in Nat  BY <2>1, <1>1
    <2>3. Stop(j, n, t) = Min({u, n})  BY <1>2
    <2> HIDE DEF u
    <2>4. Min({u, n}) = IF u <= n THEN u ELSE n  BY <2>2, MinOfTwo
    <2>5. /\ Stop(j, n, t) \in Nat /\ Stop(j, n, t) <= n /\ Stop(j, n, t) <= u
          /\ \A m \in Nat : m <= n /\ m <= u => m <= Stop(j, n, t)
      BY <2>2, <2>3, <2>4
    <2> QED  BY <2>5 DEF u
  <1>5. \A t, q \in Nat :
           Edge(j, n, t, q) = IF G(t) + B(q) <= Stop(j, n, t) THEN G(t) + B(q) ELSE Stop(j, n, t)
    <2> TAKE t, q \in Nat
    <2>1. G(t) + B(q) \in Int /\ Stop(j, n, t) \in Int  BY <1>1, <1>4
    <2>2. Edge(j, n, t, q) = Min({G(t) + B(q), Stop(j, n, t)})  BY <1>3
    <2> QED  BY <2>1, <2>2, MinOfTwo
  <1>6. ASSUME NEW t \in Nat, s < t PROVE Stop(j, n, s) <= G(t) /\ Stop(j, n, s) <= Stop(j, n, t)
    <2>1. s + 1 \in Nat /\ t + 1 \in Nat /\ s + 1 <= t /\ s + 1 <= t + 1  BY <1>6
    <2>2. G(s + 1) <= G(t) /\ G(s + 1) <= G(t + 1)  BY <2>1, <1>1
    <2>3. Stop(j, n, s) \in Nat /\ Stop(j, n, s) <= n /\ Stop(j, n, s) <= G(s + 1)  BY <1>4
    <2>4. Stop(j, n, s) <= G(t) /\ Stop(j, n, s) <= G(t + 1)
      BY <2>1, <2>2, <2>3, <1>1
    <2> QED  BY <2>3, <2>4, <1>4
  <1>7. Stop(j, n, s) \in Nat  BY <1>1, <1>4
  <1>8. Edge(j, n, s, p) \in Nat /\ Edge(j, n, s, p) <= n /\ Edge(j, n, s, p) <= Stop(j, n, s)
    <2>1. G(s) \in Nat /\ B(p) \in Nat /\ Stop(j, n, s) \in Nat /\ Stop(j, n, s) <= n  BY <1>1, <1>4
    <2>2. Edge(j, n, s, p) = IF G(s) + B(p) <= Stop(j, n, s) THEN G(s) + B(p) ELSE Stop(j, n, s)
      BY <1>5
    <2> QED  BY <2>1, <2>2
  <1>9. \A q \in Nat : p <= q => Edge(j, n, s, p) <= Edge(j, n, s, q)
    <2> SUFFICES ASSUME NEW q \in Nat, p <= q PROVE Edge(j, n, s, p) <= Edge(j, n, s, q)
      OBVIOUS
    <2>1. /\ G(s) \in Nat /\ B(p) \in Nat /\ B(q) \in Nat /\ B(p) <= B(q)
          /\ Stop(j, n, s) \in Nat
      BY <1>1, <1>4
    <2>2. \A x \in {p, q} : Edge(j, n, s, x) = IF G(s) + B(x) <= Stop(j, n, s) THEN G(s) + B(x)
                                             ELSE Stop(j, n, s)
      BY <1>5
    <2> QED  BY <2>1, <2>2
  <1>10. ASSUME NEW t \in Nat, NEW q \in Nat, s < t PROVE Edge(j, n, s, p) <= Edge(j, n, t, q)
    <2>1. Stop(j, n, s) <= G(t) /\ Stop(j, n, s) <= Stop(j, n, t)  BY <1>6, <1>10
    <2>2. G(t) \in Nat /\ B(q) \in Nat /\ Stop(j, n, t) \in Int  BY <1>1, <1>4
    <2>3. Stop(j, n, s) <= Edge(j, n, t, q)  BY <2>1, <2>2, <1>5, <1>7
    <2>4. Edge(j, n, t, q) \in Int  BY <2>2, <1>5
    <2> QED  BY <2>3, <2>4, <1>7, <1>8
  <1> QED  BY <1>7, <1>8, <1>9, <1>10

Seat(j, r, direction, k) == (r + k * direction) % j.ranks

Lo(j, n, off, s, p) == off + Edge(j, n, s, p)
Hi(j, n, off, s, p) == off + Edge(j, n, s, p + 1)
PacketCut(j, r, c, off, n, s, p) == Cut(r, c, Lo(j, n, off, s, p), Hi(j, n, off, s, p))

(* Step t of a lane that reduces n cells, counted from 0. *)
ReduceStep(j, r, c, lane, off, n, direction, t) ==
    LET k == t \div Packets(j, n)
        p == t % Packets(j, n)
        out == PacketCut(j, r, c, off, n, Seat(j, r, direction, k), p)
        in == PacketCut(j, r, c, off, n, Seat(j, r, direction, k + 1), p)
    IN  IF t < Half(j, n) THEN Step(out, Buffer(r, lane, t % 2, Len(in)), in)
        ELSE Step(out, in, <<>>)

LEMMA SeatFacts ==
    ASSUME NEW j \in Jobs, NEW r \in RanksOf(j), NEW d \in {-1, 1}, NEW k \in Int
    PROVE  /\ Seat(j, r, d, k) \in RanksOf(j) /\ Seat(j, r, d, k) \in Nat
           /\ Seat(j, r, d, k + 1) = (Seat(j, r, d, k) + d) % j.ranks
           /\ Seat(j, r, d, k + 1) # Seat(j, r, d, k)
           /\ Seat(j, r, d, 0) = r
  <1> DEFINE R == j.ranks
             a == r + k * d
  <1>1. R \in Nat \ {0} /\ R >= 2 /\ r \in 0..R - 1 /\ RanksOf(j) = 0..R - 1  BY JobFacts
  <1>2. a \in Int /\ r + (k + 1) * d = a + d
    <2>1. CASE d = 1  BY <2>1, <1>1
    <2>2. CASE d = -1  BY <2>2, <1>1
    <2> QED  BY <2>1, <2>2
  <1>3. Seat(j, r, d, k) = a % R /\ Seat(j, r, d, k + 1) = (a + d) % R
    BY <1>2 DEF Seat
  <1>4. Seat(j, r, d, 0) = r
    <2>1. r + 0 * d = r  BY <1>1
    <2> HIDE DEF R
    <2>2. r % R = r  BY <1>1, ModSmall
    <2> QED  BY <2>1, <2>2 DEF R, Seat
  <1> HIDE DEF R, a
  <1>5. a % R \in 0..R - 1  BY <1>1, <1>2, ModRange
  <1>6. (a + d) % R = ((a % R) + d) % R  
    <2>1. d \in Int  OBVIOUS
    <2> QED  BY <2>1, <1>1, <1>2, ModAdd
  <1>7. (a + d) % R # a % R
    <2> SUFFICES ASSUME (a + d) % R = a % R PROVE FALSE  OBVIOUS
    <2>1. a + d \in Int /\ (a + d) - a < R /\ a - (a + d) < R  BY <1>1, <1>2
    <2>2. a + d = a  BY <2>1, <1>1, <1>2, ModNear
    <2> QED  BY <2>2, <1>2
  <1> QED  BY <1>1, <1>3, <1>4, <1>5, <1>6, <1>7 DEF R

LEMMA SeatsDiffer ==
    ASSUME NEW j \in Jobs, NEW r \in RanksOf(j), NEW d \in {-1, 1}, NEW k \in Int, NEW m \in Int, m = k + 1
    PROVE  Seat(j, r, d, m) # Seat(j, r, d, k) /\ Seat(j, r, d, m) = (Seat(j, r, d, k) + d) % j.ranks
  <1> DEFINE x == Seat(j, r, d, k + 1)
             y == Seat(j, r, d, k)
  <1>1. x # y /\ x = (y + d) % j.ranks  BY SeatFacts
  <1>2. x = Seat(j, r, d, m)  OBVIOUS
  <1> HIDE DEF x, y
  <1> QED  BY <1>1, <1>2 DEF y

(* Lane `lane` of the all_reduce of the n cells after the first off. *)
ReduceLaneAt(j, r, c, lane, off, n, d) == ReduceLane(j, r, lane, Cut(r, c, off, off + n), d)
ReduceSteps(j, r, c, lane, off, n, d) ==
    [i \in 1..2 * Half(j, n) |-> ReduceStep(j, r, c, lane, off, n, d, i - 1)]
ToEnd(j, r, w, d) == IF d < 0 THEN End(j, r, "right", w) ELSE End(j, r, "left", w)
FromEnd(j, r, w, d) == IF d < 0 THEN End(j, r, "left", w) ELSE End(j, r, "right", w)
WireOfLane(lane) == (lane \div 2) + 1

LEMMA ReduceLaneIs ==
    ASSUME NEW j \in Jobs, NEW r \in RanksOf(j), NEW c, NEW lane \in Nat,
           NEW off \in Nat, NEW n \in Nat \ {0}, NEW d \in {-1, 1}
    PROVE  /\ ReduceLaneAt(j, r, c, lane, off, n, d).to = ToEnd(j, r, WireOfLane(lane), d)
           /\ ReduceLaneAt(j, r, c, lane, off, n, d).from = FromEnd(j, r, WireOfLane(lane), d)
           /\ ReduceLaneAt(j, r, c, lane, off, n, d).lag = Lag(Packets(j, n))
           /\ ReduceLaneAt(j, r, c, lane, off, n, d).steps = ReduceSteps(j, r, c, lane, off, n, d)
  <1> DEFINE D == Cut(r, c, off, off + n)
             L == ReduceLane(j, r, lane, D, d)
             P(s, p) == SubSeq(D, Min({s * Segment(j, n) + p * PacketSize(j, n), Min({(s + 1) * Segment(j, n), n})}) + 1,
                               Min({s * Segment(j, n) + (p + 1) * PacketSize(j, n), Min({(s + 1) * Segment(j, n), n})}))
             PP(k, p) == P(Seat(j, r, d, k), p)
             m == Packets(j, n)
             S(i) == LET out == PP(i \div m, i % m)
                         in == PP((i \div m) + 1, i % m)
                     IN  IF i < Half(j, n) THEN Step(out, Buffer(r, lane, i % 2, Len(in)), in)
                         ELSE Step(out, in, <<>>)
  <1>1. Len(D) = n
    <2>1. off + n \in Nat /\ off <= off + n /\ (off + n) - off = n  OBVIOUS
    <2> QED  BY <2>1, CutFacts
  <1> HIDE DEF D
  <1>2. L = Lane(j, r, (lane \div 2) + 1, d, Lag(m), [i \in 1..2 * Half(j, n) |-> S(i - 1)])
    BY <1>1 DEF ReduceLane, Segment, PacketSize, Packets, Half, Seat, Scatters, SlotOf
  <1>3. m \in Nat \ {0} /\ Half(j, n) \in Nat \ {0}  BY PacketFacts
  <1>4. ASSUME NEW s \in Nat, NEW p \in Nat
        PROVE  P(s, p) = PacketCut(j, r, c, off, n, s, p)
    <2> DEFINE x == Edge(j, n, s, p)
               y == Edge(j, n, s, p + 1)
    <2>1. x \in Nat /\ y \in Nat /\ x <= y /\ y <= n
      <3>1. p + 1 \in Nat /\ p <= p + 1  OBVIOUS
      <3> QED  BY <3>1, EdgeFacts
    <2>2. P(s, p) = SubSeq(D, x + 1, y)  BY DEF Edge, Stop
    <2>3. off + n \in Nat /\ off <= off + n /\ y <= (off + n) - off  BY <2>1
    <2> DEFINE e == off + n
    <2> HIDE DEF x, y, e
    <2>4. PartOf(Cut(r, c, off, e), x, y) = Cut(r, c, off + x, off + y)
      <3>1. e \in Nat /\ off <= e /\ y <= e - off  BY <2>3 DEF e
      <3> QED  BY <2>1, <3>1, CutOfCut
    <2> QED  BY <2>2, <2>4 DEF D, PacketCut, Lo, Hi, x, y, e, PartOf
  <1> HIDE DEF P
  <1>5. ASSUME NEW i \in Nat PROVE S(i) = ReduceStep(j, r, c, lane, off, n, d, i)
    <2>1. i \div m \in Nat /\ i % m \in Nat
      <3> HIDE DEF m
      <3>1. i = m * (i \div m) + (i % m) /\ i % m \in 0..m - 1 /\ i \div m \in Int  BY <1>3
      <3>2. i \div m >= 0  BY <1>3
      <3> QED  BY <3>1, <3>2
    <2>2. Seat(j, r, d, i \div m) \in Nat /\ Seat(j, r, d, (i \div m) + 1) \in Nat
      <3> DEFINE k == i \div m
      <3>1. k \in Int /\ k + 1 \in Int  BY <2>1
      <3> HIDE DEF k
      <3>2. Seat(j, r, d, k) \in Nat /\ Seat(j, r, d, k + 1) \in Nat  BY <3>1, SeatFacts
      <3> QED  BY <3>2 DEF k
    <2>3. /\ PP(i \div m, i % m) = PacketCut(j, r, c, off, n, Seat(j, r, d, i \div m), i % m)
          /\ PP((i \div m) + 1, i % m) = PacketCut(j, r, c, off, n, Seat(j, r, d, (i \div m) + 1), i % m)
      BY <2>1, <2>2, <1>4
    <2> QED  BY <2>3 DEF ReduceStep
  <1>6. [i \in 1..2 * Half(j, n) |-> S(i - 1)]
           = [i \in 1..2 * Half(j, n) |-> ReduceStep(j, r, c, lane, off, n, d, i - 1)]
    <2> HIDE DEF S
    <2>1. \A i \in 1..2 * Half(j, n) : i - 1 \in Nat  BY <1>3
    <2>2. \A i \in 1..2 * Half(j, n) : S(i - 1) = ReduceStep(j, r, c, lane, off, n, d, i - 1)
      BY <1>5, <2>1
    <2> QED  BY <2>2, Zenon
  <1> HIDE DEF S, L
  <1>7. L.to = (IF d < 0 THEN End(j, r, "right", (lane \div 2) + 1) ELSE End(j, r, "left", (lane \div 2) + 1))
    BY <1>2 DEF Lane
  <1>8. L.from = (IF d < 0 THEN End(j, r, "left", (lane \div 2) + 1) ELSE End(j, r, "right", (lane \div 2) + 1))
    BY <1>2 DEF Lane
  <1>9. L.lag = Lag(m) /\ L.steps = [i \in 1..2 * Half(j, n) |-> S(i - 1)]
    BY <1>2 DEF Lane
  <1>10. ReduceLaneAt(j, r, c, lane, off, n, d) = L  BY DEF ReduceLaneAt, L, D
  <1>11. /\ L.to = ToEnd(j, r, WireOfLane(lane), d) /\ L.from = FromEnd(j, r, WireOfLane(lane), d)
         /\ L.steps = ReduceSteps(j, r, c, lane, off, n, d)
    BY <1>6, <1>7, <1>8, <1>9, Zenon DEF ToEnd, FromEnd, WireOfLane, ReduceSteps
  <1> QED  BY <1>9, <1>10, <1>11

Distinct(q) == \A k, m \in DOMAIN q : q[k] = q[m] => k = m

(* Steps i and m may be under way at the same time. *)
Close(L, i, m) == i <= m + L.lag /\ m <= i + L.lag

StepTyped(S, s) ==
    /\ s.send \in Seq(S) /\ s.recv \in Seq(S) /\ s.into \in Seq(S)
    /\ s.into # <<>> => Len(s.into) = Len(s.recv)
    /\ Distinct(s.send) /\ Distinct(s.recv) /\ Distinct(s.into)

(* What steps that may be under way together do to each other's memory. *)
StepsApart(s, t) ==
    /\ Range(s.recv) \cap Range(t.send) = {}
    /\ Range(s.into) \cap (Range(t.send) \cup Range(t.recv)) = {}

LaneOk(L, S) ==
    /\ L.lag \in {0, 1}
    /\ DOMAIN L.steps = 1..Len(L.steps) /\ Len(L.steps) \in Nat \ {0}
    /\ \A i \in DOMAIN L.steps : StepTyped(S, L.steps[i])
    /\ \A i, m \in DOMAIN L.steps : Close(L, i, m) =>
          /\ StepsApart(L.steps[i], L.steps[m])
          /\ i # m => /\ Range(L.steps[i].recv) \cap Range(L.steps[m].recv) = {}
                      /\ Range(L.steps[i].into) \cap Range(L.steps[m].into) = {}

LEMMA CutOk ==
    ASSUME NEW r, NEW c, NEW a \in Nat, NEW b \in Nat, a <= b, NEW S, Interval(r, c, a, b) \subseteq S
    PROVE  /\ Cut(r, c, a, b) \in Seq(S) /\ Distinct(Cut(r, c, a, b))
  <1> DEFINE q == Cut(r, c, a, b)
  <1>1. /\ DOMAIN q = 1..b - a /\ b - a \in Nat /\ Range(q) = Interval(r, c, a, b)
        /\ \A k \in 1..b - a : q[k] = OutCell(r, c, a + k)
    BY CutFacts
  <1>2. q = [k \in 1..b - a |-> q[k]]  BY DEF Cut
  <1> HIDE DEF q
  <1>3. \A k \in 1..b - a : q[k] \in S  BY <1>1 DEF Range
  <1>4. Distinct(q)
    <2> SUFFICES ASSUME NEW k \in 1..b - a, NEW m \in 1..b - a, q[k] = q[m] PROVE k = m
      BY <1>1 DEF Distinct
    <2>1. OutCell(r, c, a + k) = OutCell(r, c, a + m)  BY <1>1
    <2>2. a + k = a + m  BY <2>1, CellsDiffer
    <2> QED  BY <2>2
  <1>5. q \in Seq(S)  BY <1>1, <1>2, <1>3
  <1> QED  BY <1>1, <1>4, <1>5 DEF q

LEMMA BufferFacts ==
    ASSUME NEW r, NEW lane, NEW slot \in {0, 1}, NEW n \in Nat
    PROVE  /\ Len(Buffer(r, lane, slot, n)) = n
           /\ Range(Buffer(r, lane, slot, n)) \subseteq BufferCells(r, lane)
           /\ \A k \in 1..n : Buffer(r, lane, slot, n)[k] = BufferCell(r, lane, slot, k)
           /\ DOMAIN Buffer(r, lane, slot, n) = 1..n
  <1> DEFINE q == Buffer(r, lane, slot, n)
  <1>1. q = [k \in 1..n |-> BufferCell(r, lane, slot, k)]  BY BufferIs
  <1>2. \A k \in 1..n : BufferCell(r, lane, slot, k) \in BufferCells(r, lane)
    BY DEF BufferCells
  <1> HIDE DEF q
  <1>4. Len(q) = n /\ DOMAIN q = 1..n  BY <1>1
  <1>5. Range(q) \subseteq BufferCells(r, lane)
    BY <1>1, <1>2 DEF Range
  <1>6. \A k \in 1..n : q[k] = BufferCell(r, lane, slot, k)
    BY <1>1
  <1> QED  BY <1>4, <1>5, <1>6 DEF q

LEMMA BufferLen ==
    ASSUME NEW r, NEW lane, NEW slot, NEW n \in Nat
    PROVE  Len(Buffer(r, lane, slot, n)) = n
  <1> DEFINE q == Buffer(r, lane, slot, n)
  <1>1. q = [k \in 1..n |-> BufferCell(r, lane, slot, k)]  BY BufferIs
  <1> HIDE DEF q
  <1>2. Len(q) = n  BY <1>1
  <1> QED  BY <1>2 DEF q

LEMMA BufferOk ==
    ASSUME NEW r, NEW lane, NEW slot \in {0, 1}, NEW n \in Nat, NEW S, BufferCells(r, lane) \subseteq S
    PROVE  Buffer(r, lane, slot, n) \in Seq(S) /\ Distinct(Buffer(r, lane, slot, n))
  <1> DEFINE q == Buffer(r, lane, slot, n)
  <1>1. q = [k \in 1..n |-> BufferCell(r, lane, slot, k)]  BY BufferIs
  <1>2. \A k \in 1..n : BufferCell(r, lane, slot, k) \in S
    BY DEF BufferCells
  <1>3. \A k, m \in 1..n : BufferCell(r, lane, slot, k) = BufferCell(r, lane, slot, m) => k = m
    BY BufferCellsDiffer
  <1> HIDE DEF q
  <1>4. q \in Seq(S) /\ Distinct(q)
    BY <1>1, <1>2, <1>3 DEF Distinct
  <1> QED  BY <1>4 DEF q

LEMMA SlotsApart ==
    ASSUME NEW r, NEW lane, NEW n \in Nat, NEW m \in Nat,
           NEW slot \in {0, 1}, NEW other \in {0, 1}, slot # other
    PROVE  Range(Buffer(r, lane, slot, n)) \cap Range(Buffer(r, lane, other, m)) = {}
  <1> DEFINE p == Buffer(r, lane, slot, n)
             q == Buffer(r, lane, other, m)
  <1>1. DOMAIN p = 1..n /\ \A k \in 1..n : p[k] = BufferCell(r, lane, slot, k)
    <2>1. p = [k \in 1..n |-> BufferCell(r, lane, slot, k)]  BY BufferIs
    <2> HIDE DEF p
    <2> QED  BY <2>1
  <1>2. DOMAIN q = 1..m /\ \A k \in 1..m : q[k] = BufferCell(r, lane, other, k)
    <2>1. q = [k \in 1..m |-> BufferCell(r, lane, other, k)]  BY BufferIs
    <2> HIDE DEF q
    <2> QED  BY <2>1
  <1> HIDE DEF p, q
  <1> SUFFICES ASSUME NEW i \in 1..n, NEW k \in 1..m, p[i] = q[k] PROVE FALSE
    BY <1>1, <1>2 DEF Range, p, q
  <1>3. BufferCell(r, lane, slot, i) = BufferCell(r, lane, other, k)  BY <1>1, <1>2
  <1>4. slot = other  BY <1>3, BufferCellsDiffer
  <1> QED  BY <1>4

LEMMA IntervalsApart ==
    ASSUME NEW r, NEW c, NEW a \in Nat, NEW b \in Nat, NEW x \in Nat, NEW y \in Nat,
           b <= x \/ y <= a
    PROVE  Interval(r, c, a, b) \cap Interval(r, c, x, y) = {}
  <1> SUFFICES ASSUME NEW k \in a + 1..b, NEW m \in x + 1..y, OutCell(r, c, k) = OutCell(r, c, m)
               PROVE  FALSE
    BY DEF Interval
  <1>1. k = m  BY CellsDiffer
  <1> QED  BY <1>1

LEMMA BuffersApart ==
    ASSUME NEW r, NEW c, NEW lane, NEW a, NEW b
    PROVE  BufferCells(r, lane) \cap Interval(r, c, a, b) = {}
  BY BufferIsNotOut DEF BufferCells, Interval

LEMMA IntervalWithin ==
    ASSUME NEW r, NEW c, NEW a \in Nat, NEW b \in Nat, NEW x \in Nat, NEW y \in Nat, x <= a, b <= y
    PROVE  Interval(r, c, a, b) \subseteq Interval(r, c, x, y)
  BY DEF Interval

-----------------------------------------------------------------------------
(* The lanes of an all_reduce *)

LEMMA PacketEdges ==
    ASSUME NEW j \in Jobs, NEW n \in Nat \ {0}, NEW off \in Nat, NEW s \in Nat, NEW p \in Nat
    PROVE  /\ Lo(j, n, off, s, p) \in Nat /\ Hi(j, n, off, s, p) \in Nat
           /\ off <= Lo(j, n, off, s, p) /\ Lo(j, n, off, s, p) <= Hi(j, n, off, s, p)
           /\ Hi(j, n, off, s, p) <= off + n
           /\ Hi(j, n, off, s, p) - Lo(j, n, off, s, p) = Edge(j, n, s, p + 1) - Edge(j, n, s, p)
  <1>1. p + 1 \in Nat /\ p <= p + 1  OBVIOUS
  <1>2. /\ Edge(j, n, s, p) \in Nat /\ Edge(j, n, s, p + 1) \in Nat
        /\ Edge(j, n, s, p) <= Edge(j, n, s, p + 1) /\ Edge(j, n, s, p + 1) <= n
    BY <1>1, EdgeFacts
  <1> QED  BY <1>2 DEF Lo, Hi

LEMMA PacketCutFacts ==
    ASSUME NEW j \in Jobs, NEW r, NEW c, NEW off \in Nat, NEW n \in Nat \ {0},
           NEW s \in Nat, NEW p \in Nat
    PROVE  /\ Len(PacketCut(j, r, c, off, n, s, p)) = Hi(j, n, off, s, p) - Lo(j, n, off, s, p)
           /\ Len(PacketCut(j, r, c, off, n, s, p)) \in Nat
           /\ Range(PacketCut(j, r, c, off, n, s, p))
                 = Interval(r, c, Lo(j, n, off, s, p), Hi(j, n, off, s, p))
           /\ Range(PacketCut(j, r, c, off, n, s, p)) \subseteq Interval(r, c, off, off + n)
  <1> DEFINE a == Lo(j, n, off, s, p)
             b == Hi(j, n, off, s, p)
             e == off + n
  <1>1. a \in Nat /\ b \in Nat /\ e \in Nat /\ off <= a /\ a <= b /\ b <= e  BY PacketEdges
  <1>2. PacketCut(j, r, c, off, n, s, p) = Cut(r, c, a, b)  BY DEF PacketCut
  <1> HIDE DEF a, b, e
  <1>5. Interval(r, c, a, b) \subseteq Interval(r, c, off, e)  BY <1>1, IntervalWithin
  <1>6. Len(Cut(r, c, a, b)) = b - a /\ b - a \in Nat /\ Range(Cut(r, c, a, b)) = Interval(r, c, a, b)
    BY <1>1, CutFacts
  <1> QED  BY <1>2, <1>5, <1>6 DEF a, b, e

LEMMA PacketRange ==
    ASSUME NEW j \in Jobs, NEW r, NEW c, NEW off \in Nat, NEW n \in Nat \ {0},
           NEW s \in Nat, NEW p \in Nat
    PROVE  Range(PacketCut(j, r, c, off, n, s, p))
              = Interval(r, c, Lo(j, n, off, s, p), Hi(j, n, off, s, p))
  <1> DEFINE a == Lo(j, n, off, s, p)
             b == Hi(j, n, off, s, p)
  <1>1. a \in Nat /\ b \in Nat /\ a <= b  BY PacketEdges
  <1>2. PacketCut(j, r, c, off, n, s, p) = Cut(r, c, a, b)  BY DEF PacketCut
  <1> HIDE DEF a, b
  <1>3. Range(Cut(r, c, a, b)) = Interval(r, c, a, b)  BY <1>1, CutFacts
  <1> QED  BY <1>2, <1>3 DEF a, b

LEMMA PacketCutOk ==
    ASSUME NEW j \in Jobs, NEW r, NEW c, NEW off \in Nat, NEW n \in Nat \ {0},
           NEW s \in Nat, NEW p \in Nat, NEW S, Interval(r, c, off, off + n) \subseteq S
    PROVE  PacketCut(j, r, c, off, n, s, p) \in Seq(S) /\ Distinct(PacketCut(j, r, c, off, n, s, p))
  <1> DEFINE a == Lo(j, n, off, s, p)
             b == Hi(j, n, off, s, p)
             e == off + n
  <1>1. a \in Nat /\ b \in Nat /\ e \in Nat /\ off <= a /\ a <= b /\ b <= e  BY PacketEdges
  <1>2. PacketCut(j, r, c, off, n, s, p) = Cut(r, c, a, b)  BY DEF PacketCut
  <1>3. Interval(r, c, off, e) \subseteq S  OBVIOUS
  <1> HIDE DEF a, b, e
  <1>4. Interval(r, c, a, b) \subseteq S  BY <1>1, <1>3, IntervalWithin
  <1> QED  BY <1>1, <1>2, <1>4, CutOk

LEMMA PacketsApart ==
    ASSUME NEW j \in Jobs, NEW r, NEW c, NEW off \in Nat, NEW n \in Nat \ {0},
           NEW s \in Nat, NEW p \in Nat, NEW t \in Nat, NEW q \in Nat, s # t \/ p # q
    PROVE  Range(PacketCut(j, r, c, off, n, s, p)) \cap Range(PacketCut(j, r, c, off, n, t, q)) = {}
  <1> DEFINE a == Lo(j, n, off, s, p)
             b == Hi(j, n, off, s, p)
             x == Lo(j, n, off, t, q)
             y == Hi(j, n, off, t, q)
  <1>1. p + 1 \in Nat /\ q + 1 \in Nat  OBVIOUS
  <1>2. a \in Nat /\ b \in Nat /\ x \in Nat /\ y \in Nat  BY PacketEdges
  <1>3. Edge(j, n, s, p + 1) <= Edge(j, n, t, q) \/ Edge(j, n, t, q + 1) <= Edge(j, n, s, p)
    <2>1. CASE s < t  BY <2>1, <1>1, EdgeFacts
    <2>2. CASE t < s  BY <2>2, <1>1, EdgeFacts
    <2>3. CASE s = t /\ p < q
      <3>1. p + 1 <= q  BY <2>3
      <3> QED  BY <3>1, <2>3, <1>1, EdgeFacts
    <2>4. CASE s = t /\ q < p
      <3>1. q + 1 <= p  BY <2>4
      <3> QED  BY <3>1, <2>4, <1>1, EdgeFacts
    <2> QED  BY <2>1, <2>2, <2>3, <2>4
  <1>4. b <= x \/ y <= a
    <2>1. /\ Edge(j, n, s, p + 1) \in Nat /\ Edge(j, n, t, q) \in Nat
          /\ Edge(j, n, t, q + 1) \in Nat /\ Edge(j, n, s, p) \in Nat
      BY <1>1, EdgeFacts
    <2> DEFINE e1 == Edge(j, n, s, p + 1)
               e2 == Edge(j, n, t, q)
               e3 == Edge(j, n, t, q + 1)
               e4 == Edge(j, n, s, p)
    <2>2. b = off + e1 /\ x = off + e2 /\ y = off + e3 /\ a = off + e4  BY DEF Lo, Hi
    <2>3. e1 \in Nat /\ e2 \in Nat /\ e3 \in Nat /\ e4 \in Nat /\ (e1 <= e2 \/ e3 <= e4)
      BY <2>1, <1>3
    <2> HIDE DEF a, b, x, y, e1, e2, e3, e4
    <2> QED  BY <1>2, <2>2, <2>3
  <1>5. Range(PacketCut(j, r, c, off, n, s, p)) = Interval(r, c, a, b)  BY PacketRange
  <1>6. Range(PacketCut(j, r, c, off, n, t, q)) = Interval(r, c, x, y)  BY PacketRange
  <1> HIDE DEF a, b, x, y
  <1> QED  BY <1>2, <1>4, <1>5, <1>6, IntervalsApart

ReduceOut(j, r, c, off, n, d, t) ==
    PacketCut(j, r, c, off, n, Seat(j, r, d, t \div Packets(j, n)), t % Packets(j, n))
ReduceIn(j, r, c, off, n, d, t) ==
    PacketCut(j, r, c, off, n, Seat(j, r, d, (t \div Packets(j, n)) + 1), t % Packets(j, n))
ReduceSlot(j, r, c, lane, off, n, d, t) ==
    Buffer(r, lane, t % 2, Len(ReduceIn(j, r, c, off, n, d, t)))

LEMMA ReduceStepIs ==
    ASSUME NEW j, NEW r, NEW c, NEW lane, NEW off, NEW n, NEW d, NEW t
    PROVE  LET s == ReduceStep(j, r, c, lane, off, n, d, t)
               in == ReduceIn(j, r, c, off, n, d, t)
           IN  /\ s.send = ReduceOut(j, r, c, off, n, d, t)
               /\ s.recv = IF t < Half(j, n) THEN ReduceSlot(j, r, c, lane, off, n, d, t) ELSE in
               /\ s.into = IF t < Half(j, n) THEN in ELSE <<>>
  <1> DEFINE s == ReduceStep(j, r, c, lane, off, n, d, t)
             in == ReduceIn(j, r, c, off, n, d, t)
             out == ReduceOut(j, r, c, off, n, d, t)
             slot == ReduceSlot(j, r, c, lane, off, n, d, t)
  <1>1. s = IF t < Half(j, n) THEN Step(out, slot, in) ELSE Step(out, in, <<>>)
    BY Zenon DEF ReduceStep, ReduceIn, ReduceOut, ReduceSlot
  <1> HIDE DEF s, in, out, slot
  <1>2. /\ s.send = out
        /\ s.recv = IF t < Half(j, n) THEN slot ELSE in
        /\ s.into = IF t < Half(j, n) THEN in ELSE <<>>
    BY <1>1 DEF Step
  <1> QED  BY <1>2 DEF s, in, out, slot

LEMMA StepPlace ==
    ASSUME NEW j \in Jobs, NEW n \in Nat \ {0}, NEW r \in RanksOf(j), NEW d \in {-1, 1}, NEW t \in Nat
    PROVE  /\ Seat(j, r, d, t \div Packets(j, n)) \in Nat
           /\ Seat(j, r, d, (t \div Packets(j, n)) + 1) \in Nat
           /\ Seat(j, r, d, (t \div Packets(j, n)) + 1) # Seat(j, r, d, t \div Packets(j, n))
           /\ t % Packets(j, n) \in Nat
           /\ t \div Packets(j, n) \in Nat
  <1> DEFINE m == Packets(j, n)
             k == t \div m
  <1>1. m \in Nat \ {0}  BY PacketFacts
  <1>2. k \in Nat /\ t % m \in Nat
    <2> HIDE DEF m
    <2>1. t \div m \in Int /\ t % m \in Nat  BY <1>1, DivFacts
    <2>2. t \div m >= 0  BY <1>1
    <2> QED  BY <2>1, <2>2
  <1> HIDE DEF m, k
  <1>3. k \in Int  BY <1>2
  <1>4. Seat(j, r, d, k) \in Nat /\ Seat(j, r, d, k + 1) # Seat(j, r, d, k)  BY <1>3, SeatFacts
  <1>5. Seat(j, r, d, k + 1) \in Nat
    <2> DEFINE e == k + 1
    <2>1. e \in Int  BY <1>3
    <2> HIDE DEF e
    <2>2. Seat(j, r, d, e) \in Nat  BY <2>1, SeatFacts
    <2> QED  BY <2>2 DEF e
  <1> QED  BY <1>2, <1>4, <1>5 DEF m, k

(* Neighbouring steps are about different packets, if there is more than one. *)
LEMMA NeighbourPackets ==
    ASSUME NEW m \in Nat \ {0}, NEW t \in Nat, NEW u \in Nat, t # u,
           t <= u + Lag(m), u <= t + Lag(m)
    PROVE  t % m # u % m /\ t % 2 # u % 2
  <1>1. m > 1 /\ t - u < 2 /\ u - t < 2  BY DEF Lag
  <1>2. t - u < m /\ u - t < m  BY <1>1
  <1>3. t \in Int /\ u \in Int  OBVIOUS
  <1>4. t % m # u % m
    <2> SUFFICES ASSUME t % m = u % m PROVE FALSE  OBVIOUS
    <2>1. t = u  BY <1>2, <1>3, ModNear
    <2> QED  BY <2>1
  <1>5. t % 2 # u % 2
    <2> SUFFICES ASSUME t % 2 = u % 2 PROVE FALSE  OBVIOUS
    <2>1. 2 \in Nat \ {0}  OBVIOUS
    <2>2. t = u  BY <1>1, <1>3, <2>1, ModNear
    <2> QED  BY <2>2
  <1> QED  BY <1>4, <1>5

LEMMA ReduceApart ==
    ASSUME NEW j \in Jobs, NEW n \in Nat \ {0}, NEW r \in RanksOf(j), NEW c, NEW d \in {-1, 1},
           NEW off \in Nat, NEW t \in Nat, NEW u \in Nat,
           t <= u + Lag(Packets(j, n)), u <= t + Lag(Packets(j, n))
    PROVE  /\ Range(ReduceIn(j, r, c, off, n, d, t)) \cap Range(ReduceOut(j, r, c, off, n, d, u)) = {}
           /\ t # u => Range(ReduceIn(j, r, c, off, n, d, t))
                          \cap Range(ReduceIn(j, r, c, off, n, d, u)) = {}
  <1> DEFINE m == Packets(j, n)
             a == Seat(j, r, d, t \div m)
             a1 == Seat(j, r, d, (t \div m) + 1)
             b == Seat(j, r, d, u \div m)
             b1 == Seat(j, r, d, (u \div m) + 1)
             p == t % m
             q == u % m
  <1>1. a1 \in Nat /\ a1 # a /\ p \in Nat  BY StepPlace
  <1>2. b \in Nat /\ b1 \in Nat /\ b1 # b /\ q \in Nat  BY StepPlace
  <1>3. t # u => p # q
    <2>1. m \in Nat \ {0}  BY PacketFacts
    <2>2. t <= u + Lag(m) /\ u <= t + Lag(m)  OBVIOUS
    <2> HIDE DEF m
    <2> QED  BY <2>1, <2>2, NeighbourPackets
  <1>4. t = u => a1 # b
    BY <1>1
  <1>5. /\ ReduceIn(j, r, c, off, n, d, t) = PacketCut(j, r, c, off, n, a1, p)
        /\ ReduceIn(j, r, c, off, n, d, u) = PacketCut(j, r, c, off, n, b1, q)
        /\ ReduceOut(j, r, c, off, n, d, u) = PacketCut(j, r, c, off, n, b, q)
    BY DEF ReduceIn, ReduceOut
  <1> HIDE DEF m, a, a1, b, b1, p, q
  <1>6. a1 # b \/ p # q  BY <1>3, <1>4
  <1>7. Range(PacketCut(j, r, c, off, n, a1, p)) \cap Range(PacketCut(j, r, c, off, n, b, q)) = {}
    BY <1>1, <1>2, <1>6, PacketsApart
  <1>8. t # u => Range(PacketCut(j, r, c, off, n, a1, p)) \cap Range(PacketCut(j, r, c, off, n, b1, q)) = {}
    BY <1>1, <1>2, <1>3, PacketsApart
  <1> QED  BY <1>5, <1>7, <1>8

ReduceCells(r, c, lane, off, n) == Interval(r, c, off, off + n) \cup BufferCells(r, lane)

LEMMA ReduceOutFacts ==
    ASSUME NEW j \in Jobs, NEW n \in Nat \ {0}, NEW r \in RanksOf(j), NEW c, NEW d \in {-1, 1},
           NEW off \in Nat, NEW t \in Nat, NEW S, Interval(r, c, off, off + n) \subseteq S
    PROVE  /\ ReduceOut(j, r, c, off, n, d, t) \in Seq(S)
           /\ Distinct(ReduceOut(j, r, c, off, n, d, t))
           /\ ReduceIn(j, r, c, off, n, d, t) \in Seq(S)
           /\ Distinct(ReduceIn(j, r, c, off, n, d, t))
  <1> DEFINE m == Packets(j, n)
             a == Seat(j, r, d, t \div m)
             a1 == Seat(j, r, d, (t \div m) + 1)
             p == t % m
  <1>1. a \in Nat /\ a1 \in Nat /\ p \in Nat  BY StepPlace
  <1>2. /\ ReduceIn(j, r, c, off, n, d, t) = PacketCut(j, r, c, off, n, a1, p)
        /\ ReduceOut(j, r, c, off, n, d, t) = PacketCut(j, r, c, off, n, a, p)
    BY DEF ReduceIn, ReduceOut
  <1> HIDE DEF m, a, a1, p
  <1>3. PacketCut(j, r, c, off, n, a, p) \in Seq(S) /\ Distinct(PacketCut(j, r, c, off, n, a, p))
    BY <1>1, PacketCutOk
  <1>4. PacketCut(j, r, c, off, n, a1, p) \in Seq(S) /\ Distinct(PacketCut(j, r, c, off, n, a1, p))
    BY <1>1, PacketCutOk
  <1> QED  BY <1>2, <1>3, <1>4

LEMMA RangeWithin == ASSUME NEW S, NEW q \in Seq(S) PROVE Range(q) \subseteq S
  BY DEF Range

LEMMA ReduceStepTyped ==
    ASSUME NEW j \in Jobs, NEW n \in Nat \ {0}, NEW r \in RanksOf(j), NEW c, NEW d \in {-1, 1},
           NEW lane, NEW off \in Nat, NEW t \in Nat
    PROVE  StepTyped(ReduceCells(r, c, lane, off, n), ReduceStep(j, r, c, lane, off, n, d, t))
  <1> DEFINE S == ReduceCells(r, c, lane, off, n)
             s == ReduceStep(j, r, c, lane, off, n, d, t)
             in == ReduceIn(j, r, c, off, n, d, t)
             out == ReduceOut(j, r, c, off, n, d, t)
             slot == ReduceSlot(j, r, c, lane, off, n, d, t)
  <1>1. Interval(r, c, off, off + n) \subseteq S /\ BufferCells(r, lane) \subseteq S
    BY DEF ReduceCells
  <1> HIDE DEF S
  <1>2. out \in Seq(S) /\ Distinct(out) /\ in \in Seq(S) /\ Distinct(in)  BY <1>1, ReduceOutFacts
  <1>3. slot \in Seq(S) /\ Distinct(slot) /\ Len(slot) = Len(in)
    <2> DEFINE h == Len(in)
               z == t % 2
    <2>1. h \in Nat /\ z \in {0, 1}
      <3> HIDE DEF in
      <3>1. h \in Nat  BY <1>2
      <3> QED  BY <3>1
    <2>2. slot = Buffer(r, lane, z, h)  BY DEF ReduceSlot
    <2> HIDE DEF slot, h, z
    <2>3. Buffer(r, lane, z, h) \in Seq(S) /\ Distinct(Buffer(r, lane, z, h))
      BY <2>1, <1>1, BufferOk
    <2>4. Len(Buffer(r, lane, z, h)) = h  BY <2>1, BufferLen
    <2> QED  BY <2>2, <2>3, <2>4 DEF h
  <1>4. s.send = out /\ s.recv = (IF t < Half(j, n) THEN slot ELSE in)
        /\ s.into = (IF t < Half(j, n) THEN in ELSE <<>>)
    BY ReduceStepIs
  <1>5. <<>> \in Seq(S) /\ Distinct(<<>>)  BY DEF Distinct
  <1> HIDE DEF s, in, out, slot
  <1>6. StepTyped(S, s)
    <2>1. CASE t < Half(j, n)
      <3>1. s.send = out /\ s.recv = slot /\ s.into = in  BY <2>1, <1>4
      <3> QED  BY <3>1, <1>2, <1>3 DEF StepTyped
    <2>2. CASE ~(t < Half(j, n))
      <3>1. s.send = out /\ s.recv = in /\ s.into = <<>>  BY <2>2, <1>4
      <3> QED  BY <3>1, <1>2, <1>5 DEF StepTyped
    <2> QED  BY <2>1, <2>2
  <1> QED  BY <1>6 DEF S, s

LEMMA ReduceSlotFacts ==
    ASSUME NEW j \in Jobs, NEW n \in Nat \ {0}, NEW r \in RanksOf(j), NEW c, NEW d \in {-1, 1},
           NEW lane, NEW off \in Nat, NEW t \in Nat
    PROVE  /\ Range(ReduceSlot(j, r, c, lane, off, n, d, t)) \subseteq BufferCells(r, lane)
           /\ \A u \in Nat : t % 2 # u % 2 =>
                 Range(ReduceSlot(j, r, c, lane, off, n, d, t))
                    \cap Range(ReduceSlot(j, r, c, lane, off, n, d, u)) = {}
  <1> DEFINE h(u) == Len(ReduceIn(j, r, c, off, n, d, u))
             z(u) == u % 2
  <1>1. ASSUME NEW u \in Nat PROVE h(u) \in Nat /\ z(u) \in {0, 1}
    <2> DEFINE S == Interval(r, c, off, off + n)
               in == ReduceIn(j, r, c, off, n, d, u)
    <2>1. Interval(r, c, off, off + n) \subseteq S  OBVIOUS
    <2>2. in \in Seq(S)  BY <2>1, ReduceOutFacts
    <2> HIDE DEF in, S
    <2>3. Len(in) \in Nat  BY <2>2
    <2>4. u % 2 \in {0, 1}  OBVIOUS
    <2> QED  BY <2>3, <2>4 DEF in
  <1>2. \A u : ReduceSlot(j, r, c, lane, off, n, d, u) = Buffer(r, lane, z(u), h(u))
    BY DEF ReduceSlot
  <1> HIDE DEF h, z
  <1>3. Range(Buffer(r, lane, z(t), h(t))) \subseteq BufferCells(r, lane)
    <2>1. z(t) \in {0, 1} /\ h(t) \in Nat  BY <1>1
    <2> QED  BY <2>1, BufferFacts
  <1>4. ASSUME NEW u \in Nat, z(t) # z(u)
        PROVE  Range(Buffer(r, lane, z(t), h(t))) \cap Range(Buffer(r, lane, z(u), h(u))) = {}
    <2>1. z(t) \in {0, 1} /\ h(t) \in Nat /\ z(u) \in {0, 1} /\ h(u) \in Nat  BY <1>1
    <2> QED  BY <2>1, <1>4, SlotsApart
  <1> QED  BY <1>2, <1>3, <1>4 DEF z

LEMMA ReduceStepsApart ==
    ASSUME NEW j \in Jobs, NEW n \in Nat \ {0}, NEW r \in RanksOf(j), NEW c, NEW d \in {-1, 1},
           NEW lane, NEW off \in Nat, NEW t \in Nat, NEW u \in Nat,
           t <= u + Lag(Packets(j, n)), u <= t + Lag(Packets(j, n))
    PROVE  LET s == ReduceStep(j, r, c, lane, off, n, d, t)
               v == ReduceStep(j, r, c, lane, off, n, d, u)
           IN  /\ StepsApart(s, v)
               /\ t # u => /\ Range(s.recv) \cap Range(v.recv) = {}
                           /\ Range(s.into) \cap Range(v.into) = {}
  <1> DEFINE s == ReduceStep(j, r, c, lane, off, n, d, t)
             v == ReduceStep(j, r, c, lane, off, n, d, u)
             I(x) == ReduceIn(j, r, c, off, n, d, x)
             O(x) == ReduceOut(j, r, c, off, n, d, x)
             B(x) == ReduceSlot(j, r, c, lane, off, n, d, x)
             A == Interval(r, c, off, off + n)
             C == BufferCells(r, lane)
             H(x) == x < Half(j, n)
  <1>1. /\ s.send = O(t) /\ s.recv = (IF H(t) THEN B(t) ELSE I(t))
        /\ s.into = (IF H(t) THEN I(t) ELSE <<>>)
    BY ReduceStepIs
  <1>2. /\ v.send = O(u) /\ v.recv = (IF H(u) THEN B(u) ELSE I(u))
        /\ v.into = (IF H(u) THEN I(u) ELSE <<>>)
    BY ReduceStepIs
  <1>3. ASSUME NEW x \in Nat
        PROVE  Range(I(x)) \subseteq A /\ Range(O(x)) \subseteq A /\ Range(B(x)) \subseteq C
    <2>1. Interval(r, c, off, off + n) \subseteq A  OBVIOUS
    <2>2. I(x) \in Seq(A) /\ O(x) \in Seq(A)  BY <2>1, ReduceOutFacts
    <2>3. Range(B(x)) \subseteq C  BY ReduceSlotFacts
    <2> HIDE DEF I, O, B, A, C
    <2> QED  BY <2>2, <2>3, RangeWithin
  <1>4. C \cap A = {}  BY BuffersApart
  <1>5. Range(I(t)) \cap Range(O(u)) = {}  BY ReduceApart
  <1>6. t # u => Range(I(t)) \cap Range(I(u)) = {}  BY ReduceApart
  <1>7. t # u => Range(B(t)) \cap Range(B(u)) = {}
    <2>1. t # u => t % 2 # u % 2
      <3> DEFINE m == Packets(j, n)
      <3>1. m \in Nat \ {0}  BY PacketFacts
      <3>2. t <= u + Lag(m) /\ u <= t + Lag(m)  OBVIOUS
      <3> HIDE DEF m
      <3> QED  BY <3>1, <3>2, NeighbourPackets
    <2> QED  BY <2>1, ReduceSlotFacts
  <1>8. t = u => H(t) = H(u)  OBVIOUS
  <1>9. Range(<<>>) = {}  BY DEF Range
  <1> HIDE DEF s, v, I, O, B, A, C, H
  <1>10. StepsApart(s, v)
    <2>1. Range(s.recv) \cap Range(v.send) = {}
      <3>1. CASE H(t)  BY <3>1, <1>1, <1>2, <1>3, <1>4
      <3>2. CASE ~H(t)  BY <3>2, <1>1, <1>2, <1>5
      <3> QED  BY <3>1, <3>2
    <2>2. Range(s.into) \cap Range(v.send) = {}
      <3>1. CASE H(t)  BY <3>1, <1>1, <1>2, <1>5
      <3>2. CASE ~H(t)  BY <3>2, <1>1, <1>9
      <3> QED  BY <3>1, <3>2
    <2>3. Range(s.into) \cap Range(v.recv) = {}
      <3>1. CASE ~H(t)  BY <3>1, <1>1, <1>9
      <3>2. CASE H(t) /\ H(u)  BY <3>2, <1>1, <1>2, <1>3, <1>4
      <3>3. CASE H(t) /\ ~H(u)  BY <3>3, <1>1, <1>2, <1>6, <1>8
      <3> QED  BY <3>1, <3>2, <3>3
    <2> QED  BY <2>1, <2>2, <2>3 DEF StepsApart
  <1>11. ASSUME t # u
         PROVE  Range(s.recv) \cap Range(v.recv) = {} /\ Range(s.into) \cap Range(v.into) = {}
    <2>1. Range(s.recv) \cap Range(v.recv) = {}
      <3>1. CASE H(t) /\ H(u)  BY <3>1, <1>1, <1>2, <1>7, <1>11
      <3>2. CASE ~H(t) /\ ~H(u)  BY <3>2, <1>1, <1>2, <1>6, <1>11
      <3>3. CASE H(t) /\ ~H(u)  BY <3>3, <1>1, <1>2, <1>3, <1>4
      <3>4. CASE ~H(t) /\ H(u)  BY <3>4, <1>1, <1>2, <1>3, <1>4
      <3> QED  BY <3>1, <3>2, <3>3, <3>4
    <2>2. Range(s.into) \cap Range(v.into) = {}
      <3>1. CASE ~H(t) \/ ~H(u)  BY <3>1, <1>1, <1>2, <1>9
      <3>2. CASE H(t) /\ H(u)  BY <3>2, <1>1, <1>2, <1>6, <1>11
      <3> QED  BY <3>1, <3>2
    <2> QED  BY <2>1, <2>2
  <1> QED  BY <1>10, <1>11 DEF s, v

LEMMA ReduceLaneOk ==
    ASSUME NEW j \in Jobs, NEW n \in Nat \ {0}, NEW r \in RanksOf(j), NEW c, NEW d \in {-1, 1},
           NEW lane \in Nat, NEW off \in Nat
    PROVE  LaneOk(ReduceLaneAt(j, r, c, lane, off, n, d), ReduceCells(r, c, lane, off, n))
  <1> DEFINE L == ReduceLaneAt(j, r, c, lane, off, n, d)
             S == ReduceCells(r, c, lane, off, n)
             V(i) == ReduceStep(j, r, c, lane, off, n, d, i - 1)
             M == 2 * Half(j, n)
  <1>1. L.lag = Lag(Packets(j, n)) /\ L.steps = [i \in 1..M |-> V(i)]
    <2>1. L.lag = Lag(Packets(j, n)) /\ L.steps = ReduceSteps(j, r, c, lane, off, n, d)
      BY ReduceLaneIs
    <2> HIDE DEF L
    <2>2. ReduceSteps(j, r, c, lane, off, n, d) = [i \in 1..M |-> V(i)]  BY Zenon DEF ReduceSteps
    <2> QED  BY <2>1, <2>2
  <1>2. M \in Nat \ {0}
    <2>1. Half(j, n) \in Nat \ {0}  BY PacketFacts
    <2> QED  BY <2>1
  <1>3. L.lag \in {0, 1}  BY <1>1 DEF Lag
  <1>4. ASSUME NEW i \in 1..M PROVE StepTyped(S, V(i))
    <2>1. i - 1 \in Nat  BY <1>2
    <2> QED  BY <2>1, ReduceStepTyped
  <1>5. ASSUME NEW i \in 1..M, NEW m \in 1..M, Close(L, i, m)
        PROVE  /\ StepsApart(V(i), V(m))
               /\ i # m => /\ Range(V(i).recv) \cap Range(V(m).recv) = {}
                           /\ Range(V(i).into) \cap Range(V(m).into) = {}
    <2> DEFINE t == i - 1
               u == m - 1
    <2>1. i \in Nat /\ m \in Nat /\ t \in Nat /\ u \in Nat /\ (t = u <=> i = m)  BY <1>2
    <2>2. i <= m + Lag(Packets(j, n)) /\ m <= i + Lag(Packets(j, n))  BY <1>5, <1>1 DEF Close
    <2>3. Lag(Packets(j, n)) \in Nat  BY DEF Lag
    <2>4. t <= u + Lag(Packets(j, n)) /\ u <= t + Lag(Packets(j, n))  BY <2>1, <2>2, <2>3
    <2> HIDE DEF t, u
    <2> DEFINE W(x) == ReduceStep(j, r, c, lane, off, n, d, x)
    <2>5. /\ StepsApart(W(t), W(u))
          /\ t # u => /\ Range(W(t).recv) \cap Range(W(u).recv) = {}
                      /\ Range(W(t).into) \cap Range(W(u).into) = {}
      BY <2>1, <2>4, ReduceStepsApart
    <2>6. V(i) = W(t) /\ V(m) = W(u)  BY DEF t, u
    <2> HIDE DEF V, W
    <2> QED  BY <2>1, <2>5, <2>6
  <1> HIDE DEF L, S, V, M
  <1>6. DOMAIN L.steps = 1..M /\ Len(L.steps) = M  BY <1>1, <1>2
  <1>7. \A i \in 1..M : L.steps[i] = V(i)  BY <1>1
  <1>8. LaneOk(L, S)
    <2>1. \A i \in DOMAIN L.steps : StepTyped(S, L.steps[i])  BY <1>4, <1>6, <1>7
    <2>2. ASSUME NEW i \in DOMAIN L.steps, NEW m \in DOMAIN L.steps, Close(L, i, m)
          PROVE  /\ StepsApart(L.steps[i], L.steps[m])
                 /\ i # m => /\ Range(L.steps[i].recv) \cap Range(L.steps[m].recv) = {}
                             /\ Range(L.steps[i].into) \cap Range(L.steps[m].into) = {}
      <3>1. i \in 1..M /\ m \in 1..M  BY <1>6
      <3>2. L.steps[i] = V(i) /\ L.steps[m] = V(m)  BY <3>1, <1>7
      <3> QED  BY <2>2, <3>1, <3>2, <1>5
    <2>3. DOMAIN L.steps = 1..Len(L.steps) /\ Len(L.steps) \in Nat \ {0}  BY <1>2, <1>6
    <2> QED  BY <1>3, <2>1, <2>2, <2>3 DEF LaneOk
  <1> QED  BY <1>8 DEF L, S

-----------------------------------------------------------------------------
(* The memory of a lane *)

StepMemory(s) == Range(s.send) \cup Range(s.recv) \cup Range(s.into)
LaneMemory(L) == UNION {StepMemory(L.steps[i]) : i \in DOMAIN L.steps}

LEMMA Retyped ==
    ASSUME NEW S, NEW T, NEW q \in Seq(S), Range(q) \subseteq T
    PROVE  q \in Seq(T)
  <1>1. DOMAIN q = 1..Len(q) /\ Len(q) \in Nat /\ q = [k \in 1..Len(q) |-> q[k]]  OBVIOUS
  <1>2. \A k \in 1..Len(q) : q[k] \in T  BY <1>1 DEF Range
  <1> QED  BY <1>1, <1>2

LEMMA LaneMemoryWithin ==
    ASSUME NEW L, NEW S, LaneOk(L, S)
    PROVE  LaneMemory(L) \subseteq S
  <1> SUFFICES ASSUME NEW i \in DOMAIN L.steps PROVE StepMemory(L.steps[i]) \subseteq S
    BY DEF LaneMemory
  <1> DEFINE s == L.steps[i]
  <1>1. StepTyped(S, s)  BY DEF LaneOk
  <1> HIDE DEF s
  <1>2. s.send \in Seq(S) /\ s.recv \in Seq(S) /\ s.into \in Seq(S)  BY <1>1 DEF StepTyped
  <1>3. Range(s.send) \subseteq S /\ Range(s.recv) \subseteq S /\ Range(s.into) \subseteq S
    BY <1>2, RangeWithin
  <1>4. StepMemory(s) \subseteq S  BY <1>3 DEF StepMemory
  <1> QED  BY <1>4 DEF s

LEMMA LaneOkInMemory ==
    ASSUME NEW L, NEW S, LaneOk(L, S), NEW T, LaneMemory(L) \subseteq T
    PROVE  LaneOk(L, T)
  <1>1. ASSUME NEW i \in DOMAIN L.steps PROVE StepTyped(T, L.steps[i])
    <2> DEFINE s == L.steps[i]
    <2>1. StepTyped(S, s) /\ StepMemory(s) \subseteq LaneMemory(L)  BY DEF LaneOk, LaneMemory
    <2> HIDE DEF s
    <2>2. Range(s.send) \subseteq T /\ Range(s.recv) \subseteq T /\ Range(s.into) \subseteq T
      BY <2>1 DEF StepMemory
    <2>3. s.send \in Seq(S) /\ s.recv \in Seq(S) /\ s.into \in Seq(S)  BY <2>1 DEF StepTyped
    <2>4. s.send \in Seq(T) /\ s.recv \in Seq(T) /\ s.into \in Seq(T)  BY <2>2, <2>3, Retyped
    <2>5. StepTyped(T, s)  BY <2>1, <2>4 DEF StepTyped
    <2> QED  BY <2>5 DEF s
  <1> QED  BY <1>1 DEF LaneOk

-----------------------------------------------------------------------------
(* Dividing a call into lanes *)

(* No lane is without cells: n lanes of CeilDiv(size, n), if n <= m + 1 and  *)
(* a lane would have at least m cells on average.                            *)
LEMMA LaneCount ==
    ASSUME NEW n \in Nat \ {0}, NEW m \in Nat, NEW size \in Nat \ {0},
           n = 1 \/ (n <= m + 1 /\ n * m <= size)
    PROVE  (n - 1) * CeilDiv(size, n) < size
  <1> DEFINE g == CeilDiv(size, n)
  <1>1. g \in Nat /\ size <= g * n /\ g * n < size + n /\ g > 0  BY CeilFacts
  <1> HIDE DEF g
  <1>2. CASE n = 1
    <2>1. (n - 1) * g = 0  BY <1>1, <1>2
    <2> QED  BY <2>1, <1>1 DEF g
  <1>3. CASE n > 1 /\ n <= m + 1 /\ n * m <= size
    <2>1. (n - 1) * g = g * n - g /\ g * n \in Nat  BY <1>1
    <2>2. CASE g >= n
      <3>1. g * n - g < size  BY <2>1, <2>2, <1>1
      <3> QED  BY <3>1, <2>1 DEF g
    <2>3. CASE g < n
      <3>1. n - 1 <= m /\ n - 1 \in Nat  BY <1>3
      <3>2. (n - 1) * n <= m * n  BY <3>1, TimesMonotone
      <3>3. m * n = n * m  OBVIOUS
      <3>4. (n - 1) * n <= size  BY <3>2, <3>3, <1>3
      <3>5. g <= n - 1  BY <2>3, <1>1
      <3>6. g * (n - 1) <= (n - 1) * (n - 1)  BY <3>1, <3>5, <1>1, TimesMonotone
      <3>7. (n - 1) * (n - 1) = (n - 1) * n - (n - 1) /\ (n - 1) * n \in Nat  BY <3>1
      <3>8. g * (n - 1) = (n - 1) * g  BY <1>1
      <3> DEFINE u == (n - 1) * n
                 v == (n - 1) * g
                 w == (n - 1) * (n - 1)
      <3>9. u <= size /\ v <= w /\ w = u - (n - 1) /\ u \in Nat
        BY <3>4, <3>6, <3>7, <3>8
      <3> HIDE DEF u, v, w
      <3>10. w \in Int /\ v \in Int
        <4>1. w \in Int  BY <3>9
        <4>2. v \in Int  BY <1>1, <3>1 DEF v
        <4> QED  BY <4>1, <4>2
      <3>11. v < size  BY <3>9, <3>10, <1>3
      <3> QED  BY <3>11 DEF v, g
    <2> QED  BY <2>2, <2>3, <1>1
  <1> QED  BY <1>2, <1>3

(* Where part l of the parts of g cells of a whole of size cells begins. *)
PartEdge(size, g, l) == Min({size, l * g})

LEMMA PartEdges ==
    ASSUME NEW size \in Nat, NEW g \in Nat, NEW l \in Nat
    PROVE  /\ PartEdge(size, g, l) \in Nat /\ PartEdge(size, g, l) <= size
           /\ \A m \in Nat : l <= m => PartEdge(size, g, l) <= PartEdge(size, g, m)
           /\ l * g <= size => PartEdge(size, g, l) = l * g
           /\ size <= l * g => PartEdge(size, g, l) = size
  <1>1. ASSUME NEW x \in Nat
        PROVE  x * g \in Nat /\ PartEdge(size, g, x) = IF size <= x * g THEN size ELSE x * g
    <2> DEFINE y == x * g
    <2>1. y \in Nat  OBVIOUS
    <2>2. PartEdge(size, g, x) = Min({size, y})  BY DEF PartEdge
    <2> HIDE DEF y
    <2>3. PartEdge(size, g, x) = IF size <= y THEN size ELSE y  BY <2>1, <2>2, MinOfTwo
    <2> QED  BY <2>1, <2>3 DEF y
  <1>2. ASSUME NEW m \in Nat, l <= m PROVE PartEdge(size, g, l) <= PartEdge(size, g, m)
    <2> DEFINE a == l * g
               b == m * g
    <2>1. a <= b  BY <1>2, TimesMonotone
    <2>2. /\ a \in Nat /\ PartEdge(size, g, l) = IF size <= a THEN size ELSE a
          /\ b \in Nat /\ PartEdge(size, g, m) = IF size <= b THEN size ELSE b
      BY <1>1
    <2> HIDE DEF a, b
    <2> QED  BY <2>1, <2>2
  <1> DEFINE z == l * g
  <1>3. z \in Nat /\ PartEdge(size, g, l) = IF size <= z THEN size ELSE z  BY <1>1
  <1> HIDE DEF z
  <1>4. /\ PartEdge(size, g, l) \in Nat /\ PartEdge(size, g, l) <= size
        /\ z <= size => PartEdge(size, g, l) = z
        /\ size <= z => PartEdge(size, g, l) = size
    BY <1>3
  <1> QED  BY <1>2, <1>4 DEF z

LEMMA DirectionFacts == ASSUME NEW x \in Nat PROVE Direction(x) \in {-1, 1}
  BY DEF Direction

RankEnds(j, r) == {End(j, r, side, w) : side \in {"left", "right"}, w \in 1..j.wires}

LEMMA EndsDiffer ==
    ASSUME NEW j, NEW r, NEW side, NEW w, NEW q, NEW other, NEW v
    PROVE  End(j, r, side, w) = End(j, q, other, v) => r = q /\ side = other /\ w = v
  BY DEF End

LEMMA RankEndFacts ==
    ASSUME NEW j \in Jobs, NEW r \in RanksOf(j), NEW e \in RankEnds(j, r)
    PROVE  e \in Ends /\ e[1] = j.ranks /\ e[2] = r /\ e[3] \in {"left", "right"} /\ e[4] \in 1..j.wires
  <1>1. PICK side \in {"left", "right"}, w \in 1..j.wires : e = End(j, r, side, w)  BY DEF RankEnds
  <1>2. e \in Ends  BY <1>1 DEF Ends
  <1> QED  BY <1>1, <1>2 DEF End

(* What a lane sends to and receives from. *)
LEMMA WireFacts ==
    ASSUME NEW j \in Jobs, NEW x \in Nat, x < 2 * j.wires
    PROVE  WireOfLane(x) \in 1..j.wires
  <1> DEFINE y == x \div 2
             w == j.wires
  <1>1. y \in Int /\ y >= 0 /\ 2 * y <= x  OBVIOUS
  <1>2. w \in Nat /\ x < 2 * w  BY JobFacts
  <1>3. WireOfLane(x) = y + 1  BY DEF WireOfLane
  <1> HIDE DEF y, w
  <1>4. y + 1 \in 1..w  BY <1>1, <1>2
  <1> QED  BY <1>3, <1>4 DEF w

LEMMA LaneEnds ==
    ASSUME NEW j \in Jobs, NEW r \in RanksOf(j), NEW x \in Nat, x < 2 * j.wires, NEW d \in {-1, 1}
    PROVE  /\ ToEnd(j, r, WireOfLane(x), d) \in RankEnds(j, r)
           /\ FromEnd(j, r, WireOfLane(x), d) \in RankEnds(j, r)
  <1> DEFINE w == WireOfLane(x)
  <1>1. w \in 1..j.wires  BY WireFacts
  <1> HIDE DEF w
  <1>2. ToEnd(j, r, w, d) \in RankEnds(j, r) /\ FromEnd(j, r, w, d) \in RankEnds(j, r)
    BY <1>1 DEF ToEnd, FromEnd, RankEnds
  <1> QED  BY <1>2 DEF w

LEMMA LaneEndsDiffer ==
    ASSUME NEW j \in Jobs, NEW r \in RanksOf(j), NEW x \in Nat, NEW y \in Nat, x # y
    PROVE  /\ ToEnd(j, r, WireOfLane(x), Direction(x)) # ToEnd(j, r, WireOfLane(y), Direction(y))
           /\ FromEnd(j, r, WireOfLane(x), Direction(x)) # FromEnd(j, r, WireOfLane(y), Direction(y))
  <1> DEFINE w == WireOfLane(x)
             v == WireOfLane(y)
             d == Direction(x)
             e == Direction(y)
  <1>1. w # v \/ d # e
    <2>1. x \div 2 # y \div 2 \/ x % 2 # y % 2
      <3>1. /\ x = 2 * (x \div 2) + (x % 2) /\ x % 2 \in 0..1 /\ x \div 2 \in Int
            /\ y = 2 * (y \div 2) + (y % 2) /\ y % 2 \in 0..1 /\ y \div 2 \in Int
        OBVIOUS
      <3> QED  BY <3>1
    <2>2. CASE x \div 2 # y \div 2
      <3>1. x \div 2 \in Int /\ y \div 2 \in Int  OBVIOUS
      <3> QED  BY <2>2, <3>1 DEF WireOfLane
    <2>3. CASE x % 2 # y % 2
      <3>1. x % 2 \in 0..1 /\ y % 2 \in 0..1  OBVIOUS
      <3> QED  BY <2>3, <3>1 DEF Direction
    <2> QED  BY <2>1, <2>2, <2>3
  <1>2. d \in {-1, 1} /\ e \in {-1, 1}  BY DirectionFacts
  <1> HIDE DEF w, v, d, e
  <1>3. ToEnd(j, r, w, d) # ToEnd(j, r, v, e) /\ FromEnd(j, r, w, d) # FromEnd(j, r, v, e)
    BY <1>1, <1>2, EndsDiffer DEF ToEnd, FromEnd
  <1> QED  BY <1>3 DEF w, v, d, e

(* The lanes of a call, which do not touch each other's memory. *)
PlanOk(j, r, P) ==
    /\ DOMAIN P = 1..Len(P) /\ Len(P) \in Nat
    /\ \A l \in DOMAIN P :
          /\ LaneOk(P[l], LaneMemory(P[l]))
          /\ P[l].to \in RankEnds(j, r) /\ P[l].from \in RankEnds(j, r)
    /\ \A l, m \in DOMAIN P : l # m =>
          /\ P[l].to # P[m].to /\ P[l].from # P[m].from
          /\ LaneMemory(P[l]) \cap LaneMemory(P[m]) = {}

-----------------------------------------------------------------------------
(* The lanes of an all_reduce *)

Padded(j, size) == IF size < j.ranks THEN j.ranks ELSE size
ReduceCount(j, size) ==
    IF size < j.ranks THEN 1 ELSE Max({Min({2 * j.wires, size \div (j.ranks * j.minSend)}), 1})
ReduceGrain(j, size) == CeilDiv(Padded(j, size), ReduceCount(j, size))
ReduceDir(j, size, l) == IF size < j.ranks THEN -1 ELSE Direction(l - 1)
ReduceOff(j, size, l) == (l - 1) * ReduceGrain(j, size)
ReduceLen(j, size, l) == PartEdge(Padded(j, size), ReduceGrain(j, size), l) - ReduceOff(j, size, l)

(* min(2 * wires, size / least), but at least 1. *)
LEMMA CountFacts ==
    ASSUME NEW j \in Jobs, NEW size \in Nat, NEW least \in Nat \ {0}
    PROVE  LET n == Max({Min({2 * j.wires, size \div least}), 1})
           IN  /\ n \in Nat \ {0} /\ n <= 2 * j.wires
               /\ n = 1 \/ (n <= j.minSend + 1 /\ n * least <= size)
  <1> DEFINE q == size \div least
             w == 2 * j.wires
             m == Min({w, q})
             n == Max({m, 1})
  <1>1. w \in Nat /\ w >= 1 /\ w <= j.minSend + 1 /\ j.minSend \in Nat  BY JobFacts
  <1>2. q \in Nat /\ q * least <= size
    <2>1. size = least * q + (size % least) /\ size % least \in 0..least - 1 /\ q \in Int  BY DivFacts
    <2>2. q >= 0  OBVIOUS
    <2>3. least * q = q * least  BY <2>1
    <2> QED  BY <2>1, <2>2, <2>3
  <1> HIDE DEF q, w
  <1>3. m = IF w <= q THEN w ELSE q  BY <1>1, <1>2, MinOfTwo
  <1>4. m \in Int  BY <1>1, <1>2, <1>3
  <1>5. n = IF m <= 1 THEN 1 ELSE m
    <2> HIDE DEF m
    <2> QED  BY <1>4, MaxOfTwo
  <1> HIDE DEF m, n
  <1>6. n \in Nat \ {0} /\ n <= w /\ n <= j.minSend + 1 /\ (n = 1 \/ n <= q)
    BY <1>1, <1>2, <1>3, <1>5
  <1>7. ASSUME n # 1 PROVE n * least <= size
    <2>1. n * least <= q * least  BY <1>6, <1>7, <1>2, TimesMonotone
    <2>2. n * least \in Int /\ q * least \in Int  BY <1>6, <1>2
    <2> QED  BY <2>1, <2>2, <1>2
  <1> QED  BY <1>6, <1>7 DEF q, w, m, n

LEMMA ReduceParts ==
    ASSUME NEW j \in Jobs, NEW size \in Nat
    PROVE  /\ ReduceCount(j, size) \in Nat \ {0} /\ ReduceCount(j, size) <= 2 * j.wires
           /\ ReduceGrain(j, size) \in Nat /\ Padded(j, size) \in Nat \ {0}
           /\ Padded(j, size) <= ReduceCount(j, size) * ReduceGrain(j, size)
           /\ (ReduceCount(j, size) - 1) * ReduceGrain(j, size) < Padded(j, size)
           /\ size < j.ranks => ReduceCount(j, size) = 1 /\ ReduceGrain(j, size) = j.ranks
  <1> DEFINE n == ReduceCount(j, size)
             p == Padded(j, size)
             R == j.ranks
             ms == j.minSend
             least == R * ms
  <1>1. R \in Nat /\ R >= 2 /\ ms \in Nat \ {0} /\ j.wires \in Nat \ {0}  BY JobFacts
  <1>2. p \in Nat \ {0}  BY <1>1 DEF Padded
  <1>3. least \in Nat \ {0} /\ ms <= least
    <2>1. 1 * ms <= R * ms  BY <1>1, TimesMonotone
    <2> QED  BY <2>1, <1>1
  <1>4. n \in Nat \ {0} /\ n <= 2 * j.wires /\ (n = 1 \/ (n <= ms + 1 /\ n * ms <= p))
    <2>1. CASE size < R  BY <2>1, <1>1 DEF ReduceCount
    <2>2. CASE ~(size < R)
      <3>1. n = Max({Min({2 * j.wires, size \div least}), 1}) /\ p = size
        BY <2>2 DEF ReduceCount, Padded
      <3> HIDE DEF n, p, least
      <3>2. n \in Nat \ {0} /\ n <= 2 * j.wires /\ (n = 1 \/ (n <= j.minSend + 1 /\ n * least <= size))
        BY <3>1, <1>3, CountFacts
      <3>3. ms * n <= least * n  BY <3>2, <1>1, <1>3, TimesMonotone
      <3>4. ms * n = n * ms /\ least * n = n * least  BY <3>2, <1>1, <1>3
      <3>5. n * ms \in Int /\ n * least \in Int  BY <3>2, <1>1, <1>3
      <3>6. n # 1 => n * ms <= size  BY <3>2, <3>3, <3>4, <3>5
      <3> QED  BY <3>1, <3>2, <3>6
    <2> QED  BY <2>1, <2>2
  <1>5. ReduceGrain(j, size) = CeilDiv(p, n)  BY DEF ReduceGrain
  <1>6. size < R => n = 1 /\ p = R  BY DEF ReduceCount, Padded
  <1> HIDE DEF n, p, least, ms, R
  <1>7. (n - 1) * CeilDiv(p, n) < p
    <2>1. n = 1 \/ (n <= ms + 1 /\ n * ms <= p)  BY <1>4
    <2>2. ms \in Nat  BY <1>1
    <2> QED  BY <1>2, <1>4, <2>1, <2>2, LaneCount
  <1>8. CeilDiv(p, n) \in Nat /\ p <= CeilDiv(p, n) * n /\ CeilDiv(p, n) * n < p + n  BY <1>2, <1>4, CeilFacts
  <1>9. CeilDiv(p, n) * n = n * CeilDiv(p, n)  BY <1>4, <1>8
  <1>10. size < R => CeilDiv(p, n) = R
    <2> SUFFICES ASSUME size < R PROVE CeilDiv(p, n) = R  OBVIOUS
    <2>1. n = 1 /\ p = R  BY <1>6
    <2>2. CeilDiv(p, n) * n = CeilDiv(p, n)  BY <2>1, <1>8
    <2> QED  BY <2>1, <2>2, <1>8, <1>1
  <1> QED  BY <1>2, <1>4, <1>5, <1>6, <1>7, <1>8, <1>9, <1>10 DEF n, p, R

(* The n parts of a whole of p cells, of g cells but the last. *)
LEMMA PartFacts ==
    ASSUME NEW n \in Nat \ {0}, NEW g \in Nat, NEW p \in Nat, (n - 1) * g < p, p <= n * g, NEW l \in 1..n
    PROVE  /\ (l - 1) * g \in Nat /\ PartEdge(p, g, l) \in Nat
           /\ (l - 1) * g < PartEdge(p, g, l) /\ PartEdge(p, g, l) <= p
           /\ \A m \in 1..n : l < m => PartEdge(p, g, l) <= (m - 1) * g
           /\ l = n => PartEdge(p, g, l) = p
           /\ l # n => PartEdge(p, g, l) = l * g
  <1>1. l \in Nat /\ l - 1 \in Nat /\ l - 1 <= n - 1 /\ n - 1 \in Nat  OBVIOUS
  <1>2. (l - 1) * g <= (n - 1) * g /\ (l - 1) * g \in Nat /\ (n - 1) * g \in Int
    BY <1>1, TimesMonotone
  <1>3. l * g = (l - 1) * g + g /\ l * g \in Nat  BY <1>1
  <1>4. g > 0
    <2> SUFFICES ASSUME g = 0 PROVE FALSE  OBVIOUS
    <2>1. n * g = 0 /\ (n - 1) * g = 0  BY <1>1
    <2> QED  BY <2>1
  <1>5. /\ PartEdge(p, g, l) \in Nat /\ PartEdge(p, g, l) <= p
        /\ l * g <= p => PartEdge(p, g, l) = l * g
        /\ p <= l * g => PartEdge(p, g, l) = p
    BY <1>1, PartEdges
  <1> DEFINE e == PartEdge(p, g, l)
             a == (l - 1) * g
             b == l * g
             z == (n - 1) * g
  <1> HIDE DEF e, a, b, z
  <1>6. a < e
    <2>1. a \in Nat /\ b = a + g /\ b \in Nat /\ a <= z /\ z < p /\ z \in Int
      BY <1>2, <1>3 DEF a, b, z
    <2>2. e \in Nat /\ (b <= p => e = b) /\ (p <= b => e = p)  BY <1>5 DEF e, b
    <2> QED  BY <2>1, <2>2, <1>4
  <1>7. ASSUME NEW m \in 1..n, l < m PROVE e <= (m - 1) * g
    <2>1. m - 1 \in Nat /\ l <= m - 1  BY <1>1, <1>7
    <2>2. b <= (m - 1) * g /\ (m - 1) * g \in Int  BY <1>1, <2>1, TimesMonotone DEF b
    <2>3. e <= b /\ e \in Nat /\ b \in Nat
      <3>1. e \in Nat /\ b \in Nat /\ (b <= p => e = b) /\ (p <= b => e = p)  BY <1>3, <1>5 DEF e, b
      <3> QED  BY <3>1
    <2> DEFINE y == (m - 1) * g
    <2> HIDE DEF y
    <2>4. b <= y /\ y \in Int  BY <2>2 DEF y
    <2>5. e <= y  BY <2>3, <2>4
    <2> QED  BY <2>5 DEF y
  <1>8. l = n => e = p
    <2>1. l = n => p <= l * g  OBVIOUS
    <2> QED  BY <2>1, <1>5 DEF e
  <1>9. l # n => e = b
    <2> SUFFICES ASSUME l # n PROVE e = b  OBVIOUS
    <2>1. l <= n - 1  BY <1>1
    <2>2. b <= z /\ z \in Int /\ b \in Int  BY <1>1, <2>1, TimesMonotone DEF b, z
    <2>3. z < p  BY DEF z
    <2>4. b <= p  BY <2>2, <2>3
    <2> QED  BY <2>4, <1>5 DEF e, b
  <1> QED  BY <1>2, <1>5, <1>6, <1>7, <1>8, <1>9 DEF e, a, b

LEMMA ReducePartFacts ==
    ASSUME NEW j \in Jobs, NEW size \in Nat, NEW l \in 1..ReduceCount(j, size)
    PROVE  /\ ReduceOff(j, size, l) \in Nat /\ ReduceLen(j, size, l) \in Nat \ {0}
           /\ ReduceOff(j, size, l) + ReduceLen(j, size, l)
                 = PartEdge(Padded(j, size), ReduceGrain(j, size), l)
           /\ ReduceOff(j, size, l) + ReduceLen(j, size, l) <= Padded(j, size)
           /\ \A m \in 1..ReduceCount(j, size) : l < m =>
                 ReduceOff(j, size, l) + ReduceLen(j, size, l) <= ReduceOff(j, size, m)
           /\ l - 1 \in Nat /\ l - 1 < 2 * j.wires
  <1> DEFINE n == ReduceCount(j, size)
             g == ReduceGrain(j, size)
             p == Padded(j, size)
             a == (l - 1) * g
             e == PartEdge(p, g, l)
             w == 2 * j.wires
  <1>1. /\ n \in Nat \ {0} /\ g \in Nat /\ p \in Nat /\ (n - 1) * g < p /\ p <= n * g
        /\ n <= w
    BY ReduceParts
  <1>2. l \in 1..n  OBVIOUS
  <1>9. w \in Int  BY JobFacts
  <1> HIDE DEF n, g, p, w
  <1>3. /\ a \in Nat /\ e \in Nat /\ a < e /\ e <= p
        /\ \A m \in 1..n : l < m => e <= (m - 1) * g
    BY <1>1, <1>2, PartFacts
  <1>4. /\ ReduceOff(j, size, l) = a /\ ReduceLen(j, size, l) = e - a
        /\ \A m : ReduceOff(j, size, m) = (m - 1) * g
    BY DEF ReduceOff, ReduceLen, g, p
  <1>5. l - 1 \in Nat /\ l - 1 < w  BY <1>1, <1>2, <1>9
  <1> HIDE DEF a, e
  <1>6. e - a \in Nat \ {0} /\ a + (e - a) = e  BY <1>3
  <1> QED  BY <1>3, <1>4, <1>5, <1>6 DEF n, w, e, g, p

LEMMA ReduceDirFacts ==
    ASSUME NEW j \in Jobs, NEW size \in Nat, NEW l \in 1..ReduceCount(j, size)
    PROVE  ReduceDir(j, size, l) \in {-1, 1}
  <1>1. l - 1 \in Nat  BY ReducePartFacts
  <1> QED  BY <1>1, DirectionFacts DEF ReduceDir

ReduceLaneOf(j, r, c, size, l) ==
    ReduceLaneAt(j, r, c, l - 1, ReduceOff(j, size, l), ReduceLen(j, size, l), ReduceDir(j, size, l))

LEMMA ReduceLanesAre ==
    ASSUME NEW j \in Jobs, NEW r \in RanksOf(j), NEW c, NEW size \in Nat
    PROVE  ReduceLanes(j, r, c, size) = [l \in 1..ReduceCount(j, size) |-> ReduceLaneOf(j, r, c, size, l)]
  <1> DEFINE n == ReduceCount(j, size)
             g == ReduceGrain(j, size)
             F(l) == ReduceLaneOf(j, r, c, size, l)
  <1>1. CASE size < j.ranks
    <2>1. n = 1 /\ g = j.ranks /\ Padded(j, size) = j.ranks  BY <1>1, ReduceParts DEF Padded
    <2>2. ReduceLanes(j, r, c, size) = <<ReduceLane(j, r, 0, Out(r, c, j.ranks), -1)>>
      BY <1>1 DEF ReduceLanes
    <2>3. j.ranks \in Nat /\ 1 \in 1..n  BY <2>1, JobFacts
    <2>4. ReduceOff(j, size, 1) = 0
      <3>1. (1 - 1) * g = 0  BY <2>1, <2>3
      <3> QED  BY <3>1 DEF ReduceOff
    <2>5. ReduceLen(j, size, 1) = j.ranks
      <3> DEFINE R == j.ranks
      <3>1. R \in Nat /\ R - 0 = R  BY <2>3
      <3> HIDE DEF R
      <3>2. PartEdge(R, R, 1) = R
        <4>1. Min({R, 1 * R}) = IF R <= 1 * R THEN R ELSE 1 * R
          <5>1. R \in Int /\ 1 * R \in Int  BY <3>1
          <5> QED  BY <5>1, MinOfTwo
        <4>2. 1 * R = R  BY <3>1
        <4> QED  BY <4>1, <4>2 DEF PartEdge
      <3>3. ReduceLen(j, size, 1) = R - 0  BY <3>2, <2>1, <2>4 DEF ReduceLen, R
      <3> QED  BY <3>1, <3>3 DEF R
    <2>6. ReduceDir(j, size, 1) = -1  BY <1>1 DEF ReduceDir
    <2>7. F(1) = ReduceLane(j, r, 0, Cut(r, c, 0, 0 + j.ranks), -1)
      <3>1. F(1) = ReduceLaneAt(j, r, c, 1 - 1, 0, j.ranks, -1)  BY <2>4, <2>5, <2>6 DEF ReduceLaneOf
      <3>2. 1 - 1 = 0  OBVIOUS
      <3> QED  BY <3>1, <3>2, Zenon DEF ReduceLaneAt
    <2>8. 0 + j.ranks = j.ranks  BY <2>3
    <2>9. F(1) = ReduceLane(j, r, 0, Out(r, c, j.ranks), -1)  BY <2>3, <2>7, <2>8, OutIsCut
    <2>10. 1..1 = {1}  OBVIOUS
    <2> HIDE DEF F, n
    <2>11. [l \in 1..n |-> F(l)] = <<F(1)>>  BY <2>1
    <2> QED  BY <2>2, <2>9, <2>11 DEF n, F
  <1>2. CASE ~(size < j.ranks)
    <2>1. /\ Padded(j, size) = size /\ g = CeilDiv(size, n)
          /\ n = Max({Min({2 * j.wires, size \div (j.ranks * j.minSend)}), 1})
      BY <1>2 DEF Padded, ReduceGrain, ReduceCount
    <2> DEFINE G(l) == ReduceLane(j, r, l - 1, SubSeq(Out(r, c, size), (l - 1) * g + 1,
                                               Min({size, l * g})), Direction(l - 1))
    <2>2. ReduceLanes(j, r, c, size) = [l \in 1..n |-> G(l)]
      <3> HIDE DEF n, g
      <3> QED  BY <1>2, <2>1 DEF ReduceLanes
    <2>3. ASSUME NEW l \in 1..n PROVE G(l) = F(l)
      <3> DEFINE a == ReduceOff(j, size, l)
                 m == ReduceLen(j, size, l)
                 e == PartEdge(size, g, l)
                 d == Direction(l - 1)
      <3>1. a \in Nat /\ m \in Nat \ {0} /\ a + m = e /\ a + m <= size  BY <2>1, ReducePartFacts
      <3>2. a = (l - 1) * g /\ e = Min({size, l * g})  BY DEF ReduceOff, PartEdge
      <3>3. F(l) = ReduceLaneAt(j, r, c, l - 1, a, m, d)  BY <1>2 DEF ReduceLaneOf, ReduceDir
      <3>4. G(l) = ReduceLane(j, r, l - 1, PartOf(Out(r, c, size), a, e), d)
        BY <3>2 DEF PartOf
      <3> HIDE DEF a, m, e, d, F, G
      <3>5. PartOf(Out(r, c, size), a, e) = Cut(r, c, a, a + m)
        <4>1. Out(r, c, size) = Cut(r, c, 0, size)  BY OutIsCut
        <4>2. e \in Nat /\ a <= e /\ e <= size - 0 /\ 0 <= size /\ 0 \in Nat  BY <3>1
        <4>3. PartOf(Cut(r, c, 0, size), a, e) = Cut(r, c, 0 + a, 0 + e)
          BY <3>1, <4>2, CutOfCut
        <4>4. 0 + a = a /\ 0 + e = a + m  BY <3>1
        <4> QED  BY <4>1, <4>3, <4>4
      <3> QED  BY <3>3, <3>4, <3>5 DEF ReduceLaneAt
    <2> HIDE DEF G, F, n
    <2>4. [l \in 1..n |-> G(l)] = [l \in 1..n |-> F(l)]  BY <2>3, Zenon
    <2> QED  BY <2>2, <2>4 DEF F, n
  <1> QED  BY <1>1, <1>2

LEMMA LaneBuffersApart ==
    ASSUME NEW r, NEW lane, NEW other, lane # other
    PROVE  BufferCells(r, lane) \cap BufferCells(r, other) = {}
  <1> SUFFICES ASSUME NEW s \in {0, 1}, NEW k \in Nat, NEW t \in {0, 1}, NEW m \in Nat,
                      BufferCell(r, lane, s, k) = BufferCell(r, other, t, m)
               PROVE  FALSE
    BY DEF BufferCells
  <1> QED  BY BufferCellsDiffer

LEMMA ReduceCellsApart ==
    ASSUME NEW r, NEW c, NEW lane, NEW other, lane # other,
           NEW a \in Nat, NEW n \in Nat, NEW b \in Nat, NEW m \in Nat,
           a + n <= b \/ b + m <= a
    PROVE  ReduceCells(r, c, lane, a, n) \cap ReduceCells(r, c, other, b, m) = {}
  <1> DEFINE x == a + n
             y == b + m
  <1>1. x \in Nat /\ y \in Nat /\ (x <= b \/ y <= a)  OBVIOUS
  <1>2. ReduceCells(r, c, lane, a, n) = Interval(r, c, a, x) \cup BufferCells(r, lane)
    BY DEF ReduceCells
  <1>3. ReduceCells(r, c, other, b, m) = Interval(r, c, b, y) \cup BufferCells(r, other)
    BY DEF ReduceCells
  <1> HIDE DEF x, y
  <1>4. Interval(r, c, a, x) \cap Interval(r, c, b, y) = {}  BY <1>1, IntervalsApart
  <1>5. BufferCells(r, lane) \cap Interval(r, c, b, y) = {}  BY BuffersApart
  <1>6. BufferCells(r, other) \cap Interval(r, c, a, x) = {}  BY BuffersApart
  <1>7. BufferCells(r, lane) \cap BufferCells(r, other) = {}  BY LaneBuffersApart
  <1> QED  BY <1>2, <1>3, <1>4, <1>5, <1>6, <1>7

LEMMA ReduceLaneOfFacts ==
    ASSUME NEW j \in Jobs, NEW r \in RanksOf(j), NEW c, NEW size \in Nat,
           NEW l \in 1..ReduceCount(j, size)
    PROVE  LET L == ReduceLaneOf(j, r, c, size, l)
           IN  /\ LaneOk(L, LaneMemory(L))
               /\ LaneMemory(L) \subseteq
                     ReduceCells(r, c, l - 1, ReduceOff(j, size, l), ReduceLen(j, size, l))
               /\ L.to = ToEnd(j, r, WireOfLane(l - 1), ReduceDir(j, size, l))
               /\ L.from = FromEnd(j, r, WireOfLane(l - 1), ReduceDir(j, size, l))
               /\ L.to \in RankEnds(j, r) /\ L.from \in RankEnds(j, r)
  <1> DEFINE a == ReduceOff(j, size, l)
             n == ReduceLen(j, size, l)
             d == ReduceDir(j, size, l)
             x == l - 1
             L == ReduceLaneAt(j, r, c, x, a, n, d)
             S == ReduceCells(r, c, x, a, n)
  <1>1. a \in Nat /\ n \in Nat \ {0} /\ x \in Nat /\ x < 2 * j.wires  BY ReducePartFacts
  <1>2. d \in {-1, 1}  BY ReduceDirFacts
  <1>3. ReduceLaneOf(j, r, c, size, l) = L  BY DEF ReduceLaneOf
  <1> HIDE DEF a, n, d, x
  <1>4. LaneOk(L, S)  BY <1>1, <1>2, ReduceLaneOk
  <1>5. L.to = ToEnd(j, r, WireOfLane(x), d) /\ L.from = FromEnd(j, r, WireOfLane(x), d)
    BY <1>1, <1>2, ReduceLaneIs
  <1>6. /\ ToEnd(j, r, WireOfLane(x), d) \in RankEnds(j, r)
        /\ FromEnd(j, r, WireOfLane(x), d) \in RankEnds(j, r)
    BY <1>1, <1>2, LaneEnds
  <1> HIDE DEF L, S
  <1>7. LaneMemory(L) \subseteq S  BY <1>4, LaneMemoryWithin
  <1>8. LaneOk(L, LaneMemory(L))  BY <1>4, LaneOkInMemory
  <1> QED  BY <1>3, <1>5, <1>6, <1>7, <1>8 DEF a, n, d, x, S

LEMMA ReducePlanOk ==
    ASSUME NEW j \in Jobs, NEW r \in RanksOf(j), NEW c, NEW size \in Nat
    PROVE  PlanOk(j, r, ReduceLanes(j, r, c, size))
  <1> DEFINE N == ReduceCount(j, size)
             F(l) == ReduceLaneOf(j, r, c, size, l)
             P == ReduceLanes(j, r, c, size)
             S(l) == ReduceCells(r, c, l - 1, ReduceOff(j, size, l), ReduceLen(j, size, l))
             T(l) == ToEnd(j, r, WireOfLane(l - 1), ReduceDir(j, size, l))
             U(l) == FromEnd(j, r, WireOfLane(l - 1), ReduceDir(j, size, l))
  <1>1. P = [l \in 1..N |-> F(l)]  BY ReduceLanesAre
  <1>2. N \in Nat  BY ReduceParts
  <1>3. ASSUME NEW l \in 1..N
        PROVE  /\ LaneOk(F(l), LaneMemory(F(l))) /\ LaneMemory(F(l)) \subseteq S(l)
               /\ F(l).to = T(l) /\ F(l).from = U(l)
               /\ F(l).to \in RankEnds(j, r) /\ F(l).from \in RankEnds(j, r)
    BY ReduceLaneOfFacts
  <1>4. ASSUME NEW l \in 1..N, NEW m \in 1..N, l # m PROVE S(l) \cap S(m) = {}
    <2> DEFINE a == ReduceOff(j, size, l)
               n == ReduceLen(j, size, l)
               b == ReduceOff(j, size, m)
               o == ReduceLen(j, size, m)
               x == l - 1
               y == m - 1
    <2>1. a \in Nat /\ n \in Nat /\ (l < m => a + n <= b) /\ x \in Nat  BY ReducePartFacts
    <2>2. b \in Nat /\ o \in Nat /\ (m < l => b + o <= a) /\ y \in Nat  BY ReducePartFacts
    <2>3. l < m \/ m < l  BY <1>4, <1>2
    <2>4. x # y  BY <1>4, <1>2
    <2> HIDE DEF a, n, b, o, x, y
    <2>5. ReduceCells(r, c, x, a, n) \cap ReduceCells(r, c, y, b, o) = {}
      BY <2>1, <2>2, <2>3, <2>4, ReduceCellsApart
    <2> QED  BY <2>5 DEF a, n, b, o, x, y
  <1>5. ASSUME NEW l \in 1..N, NEW m \in 1..N, l # m PROVE T(l) # T(m) /\ U(l) # U(m)
    <2>1. ~(size < j.ranks)
      <3>1. size < j.ranks => N = 1  BY ReduceParts
      <3>2. l = 1 /\ m = 1 => FALSE  BY <1>5
      <3> QED  BY <3>1, <3>2
    <2> DEFINE x == l - 1
               y == m - 1
    <2>2. ReduceDir(j, size, l) = Direction(x) /\ ReduceDir(j, size, m) = Direction(y)
      BY <2>1 DEF ReduceDir
    <2>3. x \in Nat /\ y \in Nat /\ x # y  BY <1>2, <1>5
    <2> HIDE DEF x, y
    <2>4. /\ ToEnd(j, r, WireOfLane(x), Direction(x)) # ToEnd(j, r, WireOfLane(y), Direction(y))
          /\ FromEnd(j, r, WireOfLane(x), Direction(x)) # FromEnd(j, r, WireOfLane(y), Direction(y))
      BY <2>3, LaneEndsDiffer
    <2> QED  BY <2>2, <2>4 DEF x, y
  <1> HIDE DEF N, F, P, S, T, U
  <1>6. DOMAIN P = 1..N /\ Len(P) = N  BY <1>1, <1>2
  <1>7. \A l \in 1..N : P[l] = F(l)  BY <1>1
  <1>8. ASSUME NEW l \in DOMAIN P, NEW m \in DOMAIN P, l # m
        PROVE  /\ P[l].to # P[m].to /\ P[l].from # P[m].from
               /\ LaneMemory(P[l]) \cap LaneMemory(P[m]) = {}
    <2>1. l \in 1..N /\ m \in 1..N /\ P[l] = F(l) /\ P[m] = F(m)  BY <1>6, <1>7
    <2>2. /\ LaneMemory(F(l)) \subseteq S(l) /\ F(l).to = T(l) /\ F(l).from = U(l)
          /\ LaneMemory(F(m)) \subseteq S(m) /\ F(m).to = T(m) /\ F(m).from = U(m)
      BY <2>1, <1>3
    <2>3. S(l) \cap S(m) = {} /\ T(l) # T(m) /\ U(l) # U(m)  BY <2>1, <1>4, <1>5, <1>8
    <2> QED  BY <2>1, <2>2, <2>3
  <1>9. PlanOk(j, r, P)  BY <1>2, <1>3, <1>6, <1>7, <1>8 DEF PlanOk
  <1> QED  BY <1>9 DEF P

-----------------------------------------------------------------------------
(* The lanes of an all_gather *)

GatherCount(j, size) == Max({Min({2 * j.wires, size \div j.minSend}), 1})
GatherGrain(j, size) == CeilDiv(size, GatherCount(j, size))
(* Lane x, counted from 0, has the cells after FromCell up to ToCell of what *)
(* each rank gives.                                                          *)
FromCell(j, size, x) == x * GatherGrain(j, size)
ToCell(j, size, x) == PartEdge(size, GatherGrain(j, size), x + 1)

LEMMA GatherParts ==
    ASSUME NEW j \in Jobs, NEW size \in Nat
    PROVE  /\ GatherCount(j, size) \in Nat \ {0} /\ GatherCount(j, size) <= 2 * j.wires
           /\ GatherGrain(j, size) \in Nat
           /\ size <= GatherCount(j, size) * GatherGrain(j, size)
           /\ size > 0 => (GatherCount(j, size) - 1) * GatherGrain(j, size) < size
           /\ size = 0 => GatherCount(j, size) = 1 /\ GatherGrain(j, size) = 0
  <1> DEFINE n == GatherCount(j, size)
             ms == j.minSend
  <1>1. ms \in Nat \ {0} /\ j.wires \in Nat \ {0}  BY JobFacts
  <1>2. n = Max({Min({2 * j.wires, size \div ms}), 1})  BY DEF GatherCount
  <1> HIDE DEF n
  <1>3. n \in Nat \ {0} /\ n <= 2 * j.wires /\ (n = 1 \/ (n <= ms + 1 /\ n * ms <= size))
    <2>1. ms \in Nat \ {0}  BY <1>1
    <2>2. ms = j.minSend  OBVIOUS
    <2> HIDE DEF ms
    <2> QED  BY <1>2, <2>1, <2>2, CountFacts
  <1>4. GatherGrain(j, size) = CeilDiv(size, n)  BY DEF GatherGrain, n
  <1> HIDE DEF ms
  <1>5. CeilDiv(size, n) \in Nat /\ size <= CeilDiv(size, n) * n /\ CeilDiv(size, n) * n < size + n
    BY <1>3, CeilFacts
  <1>6. CeilDiv(size, n) * n = n * CeilDiv(size, n)  BY <1>3, <1>5
  <1>7. size > 0 => (n - 1) * CeilDiv(size, n) < size
    <2> SUFFICES ASSUME size > 0 PROVE (n - 1) * CeilDiv(size, n) < size  OBVIOUS
    <2>1. size \in Nat \ {0} /\ ms \in Nat  BY <1>1
    <2>2. n = 1 \/ (n <= ms + 1 /\ n * ms <= size)  BY <1>3
    <2> QED  BY <1>3, <2>1, <2>2, LaneCount
  <1>8. size = 0 => n = 1 /\ CeilDiv(size, n) = 0
    <2> SUFFICES ASSUME size = 0 PROVE n = 1 /\ CeilDiv(size, n) = 0  OBVIOUS
    <2>1. n = 1
      <3> SUFFICES ASSUME n # 1 PROVE FALSE  OBVIOUS
      <3>1. n * ms <= 0 /\ 1 * ms <= n * ms  BY <1>1, <1>3, TimesMonotone
      <3>2. n * ms \in Int  BY <1>1, <1>3
      <3> QED  BY <3>1, <3>2, <1>1
    <2>2. CeilDiv(size, n) * n = CeilDiv(size, n)  BY <2>1, <1>5
    <2> QED  BY <2>1, <2>2, <1>5
  <1> QED  BY <1>3, <1>4, <1>5, <1>6, <1>7, <1>8 DEF n

LEMMA GatherCellFacts ==
    ASSUME NEW j \in Jobs, NEW size \in Nat, NEW x \in 0..GatherCount(j, size) - 1
    PROVE  /\ FromCell(j, size, x) \in Nat /\ ToCell(j, size, x) \in Nat
           /\ FromCell(j, size, x) <= ToCell(j, size, x) /\ ToCell(j, size, x) <= size
           /\ \A y \in 0..GatherCount(j, size) - 1 : x < y => ToCell(j, size, x) <= FromCell(j, size, y)
           /\ x \in Nat /\ x < 2 * j.wires
  <1> DEFINE n == GatherCount(j, size)
             g == GatherGrain(j, size)
             w == 2 * j.wires
  <1>1. /\ n \in Nat \ {0} /\ n <= w /\ g \in Nat /\ size <= n * g
        /\ size > 0 => (n - 1) * g < size
        /\ size = 0 => n = 1 /\ g = 0
    BY GatherParts
  <1>2. w \in Int  BY JobFacts
  <1>3. x \in 0..n - 1  OBVIOUS
  <1> HIDE DEF n, g, w
  <1>4. x \in Nat /\ x < w /\ x + 1 \in 1..n  BY <1>1, <1>2, <1>3
  <1> DEFINE l == x + 1
             a == x * g
             e == PartEdge(size, g, l)
  <1>5. /\ a \in Nat /\ e \in Nat /\ a <= e /\ e <= size
        /\ \A y \in 0..n - 1 : x < y => e <= y * g
    <2>1. CASE size > 0
      <3>1. l \in 1..n /\ l - 1 = x  BY <1>4
      <3> HIDE DEF l
      <3>2. /\ (l - 1) * g \in Nat /\ e \in Nat /\ (l - 1) * g < e /\ e <= size
            /\ \A m \in 1..n : l < m => e <= (m - 1) * g
        BY <2>1, <3>1, <1>1, PartFacts
      <3>3. ASSUME NEW y \in 0..n - 1, x < y PROVE e <= y * g
        <4> DEFINE m == y + 1
        <4>1. m \in 1..n /\ m - 1 = y /\ l < m
          BY <1>1, <1>4, <3>3 DEF l
        <4> HIDE DEF m
        <4>2. e <= (m - 1) * g  BY <3>2, <4>1
        <4> QED  BY <4>1, <4>2
      <3>4. a = (l - 1) * g  BY <3>1
      <3> HIDE DEF a, e
      <3>5. a \in Nat /\ e \in Nat /\ a < e  BY <3>2, <3>4
      <3> QED  BY <3>2, <3>3, <3>5
    <2>2. CASE size = 0
      <3>1. n = 1 /\ g = 0 /\ x = 0  BY <2>2, <1>1, <1>3
      <3>2. a = 0  BY <3>1
      <3>3. l \in Nat  BY <1>4
      <3> HIDE DEF l
      <3>4. e \in Nat /\ e <= size  BY <1>1, <3>3, PartEdges
      <3> HIDE DEF a, e
      <3>5. \A y \in 0..n - 1 : ~(x < y)  BY <3>1
      <3> QED  BY <2>2, <3>2, <3>4, <3>5
    <2> QED  BY <2>1, <2>2
  <1>6. FromCell(j, size, x) = a /\ ToCell(j, size, x) = e /\ \A y : FromCell(j, size, y) = y * g
    BY DEF FromCell, ToCell, g
  <1> HIDE DEF a, e
  <1> QED  BY <1>4, <1>5, <1>6 DEF n, w

GatherLo(j, size, s, x) == s * size + FromCell(j, size, x)
GatherHi(j, size, s, x) == s * size + ToCell(j, size, x)
GatherCut(j, r, c, size, s, x) == Cut(r, c, GatherLo(j, size, s, x), GatherHi(j, size, s, x))
GatherInterval(j, r, c, size, s, x) == Interval(r, c, GatherLo(j, size, s, x), GatherHi(j, size, s, x))

LEMMA GatherEdges ==
    ASSUME NEW j \in Jobs, NEW size \in Nat, NEW x \in 0..GatherCount(j, size) - 1, NEW s \in Nat
    PROVE  /\ GatherLo(j, size, s, x) \in Nat /\ GatherHi(j, size, s, x) \in Nat
           /\ GatherLo(j, size, s, x) <= GatherHi(j, size, s, x)
           /\ s * size <= GatherLo(j, size, s, x) /\ s * size \in Nat
           /\ GatherHi(j, size, s, x) <= s * size + size
           /\ \A t \in Nat : s < t => GatherHi(j, size, s, x) <= t * size
           /\ GatherHi(j, size, s, x) - GatherLo(j, size, s, x) = ToCell(j, size, x) - FromCell(j, size, x)
  <1> DEFINE a == FromCell(j, size, x)
             b == ToCell(j, size, x)
             z == s * size
  <1>1. a \in Nat /\ b \in Nat /\ a <= b /\ b <= size  BY GatherCellFacts
  <1>2. z \in Nat  OBVIOUS
  <1>3. GatherLo(j, size, s, x) = z + a /\ GatherHi(j, size, s, x) = z + b  BY DEF GatherLo, GatherHi
  <1> HIDE DEF a, b
  <1>4. ASSUME NEW t \in Nat, s < t PROVE z + b <= t * size
    <2>1. (s + 1) * size <= t * size
      <3>1. s + 1 \in Int /\ s + 1 <= t  BY <1>4
      <3> QED  BY <3>1, TimesMonotone
    <2>2. (s + 1) * size = z + size  OBVIOUS
    <2>3. t * size \in Nat  OBVIOUS
    <2> DEFINE y == t * size
    <2> HIDE DEF z, y
    <2>4. z + size <= y  BY <2>1, <2>2 DEF y
    <2>5. y \in Nat  BY <2>3 DEF y
    <2>6. z + b <= y  BY <2>4, <2>5, <1>1, <1>2
    <2> QED  BY <2>6 DEF y
  <1> HIDE DEF z
  <1>5. /\ z + a \in Nat /\ z + b \in Nat /\ z + a <= z + b /\ z <= z + a /\ z + b <= z + size
        /\ (z + b) - (z + a) = b - a
    BY <1>1, <1>2
  <1> QED  BY <1>2, <1>3, <1>4, <1>5 DEF a, b, z

LEMMA GatherIntervalsApart ==
    ASSUME NEW j \in Jobs, NEW r, NEW c, NEW size \in Nat,
           NEW x \in 0..GatherCount(j, size) - 1, NEW y \in 0..GatherCount(j, size) - 1,
           NEW s \in Nat, NEW t \in Nat, s # t \/ x # y
    PROVE  GatherInterval(j, r, c, size, s, x) \cap GatherInterval(j, r, c, size, t, y) = {}
  <1> DEFINE a == GatherLo(j, size, s, x)
             b == GatherHi(j, size, s, x)
             e == GatherLo(j, size, t, y)
             f == GatherHi(j, size, t, y)
             u == s * size
             v == t * size
  <1>1. a \in Nat /\ b \in Nat /\ u <= a /\ u \in Nat /\ (s < t => b <= v)  BY GatherEdges
  <1>2. e \in Nat /\ f \in Nat /\ v <= e /\ v \in Nat /\ (t < s => f <= u)  BY GatherEdges
  <1>3. b <= e \/ f <= a
    <2>1. CASE s < t
      <3> HIDE DEF a, b, e, f, u, v
      <3> QED  BY <2>1, <1>1, <1>2
    <2>2. CASE t < s
      <3> HIDE DEF a, b, e, f, u, v
      <3> QED  BY <2>2, <1>1, <1>2
    <2>3. CASE s = t
      <3>1. /\ x < y => ToCell(j, size, x) <= FromCell(j, size, y)
            /\ ToCell(j, size, x) \in Nat /\ FromCell(j, size, x) \in Nat /\ x \in Nat
        BY GatherCellFacts
      <3>2. /\ y < x => ToCell(j, size, y) <= FromCell(j, size, x)
            /\ ToCell(j, size, y) \in Nat /\ FromCell(j, size, y) \in Nat /\ y \in Nat
        BY GatherCellFacts
      <3>3. x < y \/ y < x  BY <2>3, <3>1, <3>2
      <3>4. /\ a = u + FromCell(j, size, x) /\ b = u + ToCell(j, size, x)
            /\ e = u + FromCell(j, size, y) /\ f = u + ToCell(j, size, y)
        BY <2>3 DEF GatherLo, GatherHi
      <3>5. u \in Nat  BY <1>1
      <3> HIDE DEF a, b, e, f, u
      <3> QED  BY <3>1, <3>2, <3>3, <3>4, <3>5
    <2> QED  BY <2>1, <2>2, <2>3
  <1> HIDE DEF a, b, e, f
  <1>4. Interval(r, c, a, b) \cap Interval(r, c, e, f) = {}  BY <1>1, <1>2, <1>3, IntervalsApart
  <1> QED  BY <1>4 DEF GatherInterval, a, b, e, f

GatherStep(j, r, c, size, x, i) ==
    Step(GatherCut(j, r, c, size, Seat(j, r, Direction(x), i - 1), x),
         GatherCut(j, r, c, size, Seat(j, r, Direction(x), i), x), <<>>)
GatherSteps(j, r, c, size, x) == [i \in 1..j.ranks - 1 |-> GatherStep(j, r, c, size, x, i)]
GatherLane(j, r, c, size, x) ==
    Lane(j, r, WireOfLane(x), Direction(x), 0, GatherSteps(j, r, c, size, x))
GatherCells(j, r, c, size, x) ==
    UNION {GatherInterval(j, r, c, size, s, x) : s \in RanksOf(j)}

LEMMA GatherCutOk ==
    ASSUME NEW j \in Jobs, NEW r, NEW c, NEW size \in Nat, NEW x \in 0..GatherCount(j, size) - 1,
           NEW s \in RanksOf(j), NEW S, GatherCells(j, r, c, size, x) \subseteq S
    PROVE  GatherCut(j, r, c, size, s, x) \in Seq(S) /\ Distinct(GatherCut(j, r, c, size, s, x))
  <1> DEFINE a == GatherLo(j, size, s, x)
             b == GatherHi(j, size, s, x)
  <1>1. s \in Nat  BY JobFacts
  <1>2. a \in Nat /\ b \in Nat /\ a <= b  BY <1>1, GatherEdges
  <1>3. GatherCut(j, r, c, size, s, x) = Cut(r, c, a, b)  BY DEF GatherCut
  <1>4. Interval(r, c, a, b) \subseteq S  BY DEF GatherCells, GatherInterval
  <1> HIDE DEF a, b
  <1> QED  BY <1>2, <1>3, <1>4, CutOk

LEMMA GatherCutRange ==
    ASSUME NEW j \in Jobs, NEW r, NEW c, NEW size \in Nat, NEW x \in 0..GatherCount(j, size) - 1,
           NEW s \in RanksOf(j)
    PROVE  Range(GatherCut(j, r, c, size, s, x)) = GatherInterval(j, r, c, size, s, x)
  <1> DEFINE a == GatherLo(j, size, s, x)
             b == GatherHi(j, size, s, x)
  <1>1. s \in Nat  BY JobFacts
  <1>2. a \in Nat /\ b \in Nat /\ a <= b  BY <1>1, GatherEdges
  <1>3. GatherCut(j, r, c, size, s, x) = Cut(r, c, a, b)  BY DEF GatherCut
  <1>4. Interval(r, c, a, b) = GatherInterval(j, r, c, size, s, x)  BY DEF GatherInterval
  <1> HIDE DEF a, b
  <1>5. Range(Cut(r, c, a, b)) = Interval(r, c, a, b)  BY <1>2, CutFacts
  <1> QED  BY <1>3, <1>4, <1>5

LEMMA GatherLaneOk ==
    ASSUME NEW j \in Jobs, NEW r \in RanksOf(j), NEW c, NEW size \in Nat,
           NEW x \in 0..GatherCount(j, size) - 1
    PROVE  LaneOk(GatherLane(j, r, c, size, x), GatherCells(j, r, c, size, x))
  <1> DEFINE L == GatherLane(j, r, c, size, x)
             S == GatherCells(j, r, c, size, x)
             R == j.ranks - 1
             d == Direction(x)
             V(i) == GatherStep(j, r, c, size, x, i)
             C(s) == GatherCut(j, r, c, size, s, x)
             I(s) == GatherInterval(j, r, c, size, s, x)
  <1>1. R \in Nat \ {0} /\ x \in Nat /\ d \in {-1, 1}
    <2>1. R \in Nat \ {0}  BY JobFacts
    <2>2. x \in Nat  BY GatherCellFacts
    <2> QED  BY <2>1, <2>2, DirectionFacts
  <1>2. L.lag = 0 /\ L.steps = [i \in 1..R |-> V(i)]
    BY Zenon DEF GatherLane, Lane, GatherSteps
  <1>3. ASSUME NEW i \in 1..R
        PROVE  \E s, t \in RanksOf(j) : /\ s # t /\ V(i).send = C(s) /\ V(i).recv = C(t)
                                        /\ V(i).into = <<>>
    <2> DEFINE k == i - 1
               s == Seat(j, r, d, k)
               t == Seat(j, r, d, k + 1)
    <2>1. k \in Int /\ k + 1 \in Int /\ k + 1 = i  BY <1>1
    <2>2. V(i) = Step(C(s), C(t), <<>>)  BY <2>1 DEF GatherStep
    <2>3. s # t
      <3> DEFINE m == k + 1
      <3>1. m \in Int /\ m = k + 1  BY <2>1
      <3> HIDE DEF k, d, m
      <3>2. Seat(j, r, d, m) # Seat(j, r, d, k)  BY <1>1, <2>1, <3>1, SeatsDiffer
      <3> QED  BY <3>2 DEF m
    <2>4. s \in RanksOf(j)
      <3> HIDE DEF k, d
      <3> QED  BY <1>1, <2>1, SeatFacts
    <2>5. t \in RanksOf(j)
      <3> DEFINE m == k + 1
      <3>1. m \in Int  BY <2>1
      <3> HIDE DEF k, d, m
      <3>2. Seat(j, r, d, m) \in RanksOf(j)  BY <1>1, <3>1, SeatFacts
      <3> QED  BY <3>2 DEF m
    <2> HIDE DEF s, t, C
    <2>6. V(i).send = C(s) /\ V(i).recv = C(t) /\ V(i).into = <<>>  BY <2>2 DEF Step
    <2> QED  BY <2>3, <2>4, <2>5, <2>6
  <1>4. ASSUME NEW s \in RanksOf(j), NEW t \in RanksOf(j), s # t
        PROVE  Range(C(s)) \cap Range(C(t)) = {}
    <2>1. s \in Nat /\ t \in Nat  BY JobFacts
    <2>2. I(s) \cap I(t) = {}  BY <2>1, <1>4, GatherIntervalsApart
    <2>3. Range(C(s)) = I(s) /\ Range(C(t)) = I(t)  BY GatherCutRange
    <2> QED  BY <2>2, <2>3
  <1>5. ASSUME NEW s \in RanksOf(j) PROVE C(s) \in Seq(S) /\ Distinct(C(s))
    BY GatherCutOk
  <1>6. <<>> \in Seq(S) /\ Distinct(<<>>) /\ Range(<<>>) = {}  BY DEF Distinct, Range
  <1> HIDE DEF L, S, R, d, V, C, I
  <1>7. DOMAIN L.steps = 1..R /\ Len(L.steps) = R /\ \A i \in 1..R : L.steps[i] = V(i)
    BY <1>1, <1>2
  <1>8. ASSUME NEW i \in 1..R PROVE StepTyped(S, V(i)) /\ StepsApart(V(i), V(i))
    <2>1. PICK s \in RanksOf(j), t \in RanksOf(j) :
             s # t /\ V(i).send = C(s) /\ V(i).recv = C(t) /\ V(i).into = <<>>
      BY <1>3
    <2>2. StepTyped(S, V(i))  BY <2>1, <1>5, <1>6 DEF StepTyped
    <2>3. Range(C(t)) \cap Range(C(s)) = {}  BY <2>1, <1>4
    <2>4. StepsApart(V(i), V(i))  BY <2>1, <2>3, <1>6 DEF StepsApart
    <2> QED  BY <2>2, <2>4
  <1>9. ASSUME NEW i \in 1..R, NEW m \in 1..R, Close(L, i, m) PROVE i = m
    BY <1>1, <1>2, <1>9 DEF Close
  <1>10. LaneOk(L, S)
    <2>1. \A i \in DOMAIN L.steps : StepTyped(S, L.steps[i])  BY <1>7, <1>8
    <2>2. ASSUME NEW i \in DOMAIN L.steps, NEW m \in DOMAIN L.steps, Close(L, i, m)
          PROVE  i = m /\ StepsApart(L.steps[i], L.steps[m])
      <3>1. i \in 1..R /\ m \in 1..R  BY <1>7
      <3>2. i = m  BY <3>1, <2>2, <1>9
      <3> QED  BY <3>1, <3>2, <1>7, <1>8
    <2>3. DOMAIN L.steps = 1..Len(L.steps) /\ Len(L.steps) \in Nat \ {0}  BY <1>1, <1>7
    <2>4. L.lag \in {0, 1}  BY <1>2
    <2> QED  BY <2>1, <2>2, <2>3, <2>4 DEF LaneOk
  <1> QED  BY <1>10 DEF L, S

LEMMA GatherPartIs ==
    ASSUME NEW j \in Jobs, NEW r, NEW c, NEW size \in Nat, NEW x \in 0..GatherCount(j, size) - 1,
           NEW s \in RanksOf(j)
    PROVE  SubSeq(Out(r, c, j.ranks * size), s * size + x * GatherGrain(j, size) + 1,
                  s * size + Min({size, (x + 1) * GatherGrain(j, size)}))
              = GatherCut(j, r, c, size, s, x)
  <1> DEFINE a == GatherLo(j, size, s, x)
             b == GatherHi(j, size, s, x)
             n == j.ranks * size
  <1>1. s \in Nat /\ j.ranks \in Nat /\ s < j.ranks  BY JobFacts
  <1>2. a \in Nat /\ b \in Nat /\ a <= b /\ b <= s * size + size  BY <1>1, GatherEdges
  <1>3. n \in Nat /\ b <= n
    <2> DEFINE R == j.ranks
               u == s * size
               v == (s + 1) * size
               w == R * size
    <2>1. R \in Nat /\ s + 1 <= R /\ s + 1 \in Int /\ w \in Nat  BY <1>1
    <2>2. v <= w  BY <2>1, TimesMonotone
    <2>3. v = u + size /\ u \in Nat  BY <1>1
    <2>4. b <= u + size /\ n = w  BY <1>2
    <2> HIDE DEF a, b, n, R, u, v, w
    <2>5. b <= w  BY <1>2, <2>1, <2>2, <2>3, <2>4
    <2> QED  BY <2>1, <2>4, <2>5
  <1>4. /\ a = s * size + x * GatherGrain(j, size)
        /\ b = s * size + Min({size, (x + 1) * GatherGrain(j, size)})
    BY DEF GatherLo, GatherHi, FromCell, ToCell, PartEdge
  <1>5. GatherCut(j, r, c, size, s, x) = Cut(r, c, a, b)  BY DEF GatherCut
  <1> HIDE DEF a, b, n
  <1>6. Out(r, c, n) = Cut(r, c, 0, n)  BY <1>3, OutIsCut
  <1>7. PartOf(Cut(r, c, 0, n), a, b) = Cut(r, c, a, b)
    <2>1. 0 \in Nat /\ 0 <= n /\ b <= n - 0 /\ 0 + a = a /\ 0 + b = b  BY <1>2, <1>3
    <2>2. PartOf(Cut(r, c, 0, n), a, b) = Cut(r, c, 0 + a, 0 + b)  BY <1>2, <1>3, <2>1, CutOfCut
    <2> QED  BY <2>1, <2>2
  <1>8. SubSeq(Out(r, c, n), a + 1, b) = Cut(r, c, a, b)  BY <1>6, <1>7 DEF PartOf
  <1> QED  BY <1>4, <1>5, <1>8 DEF n

LEMMA GatherLanesAre ==
    ASSUME NEW j \in Jobs, NEW r \in RanksOf(j), NEW c, NEW size \in Nat
    PROVE  GatherLanes(j, r, c, size)
              = [l \in 1..GatherCount(j, size) |-> GatherLane(j, r, c, size, l - 1)]
  <1> DEFINE n == GatherCount(j, size)
             g == GatherGrain(j, size)
             R == j.ranks - 1
             Part(x, k) == SubSeq(Out(r, c, j.ranks * size), Seat(j, r, Direction(x), k) * size + x * g + 1,
                                  Seat(j, r, Direction(x), k) * size + Min({size, (x + 1) * g}))
             A(l) == Lane(j, r, (l - 1) \div 2 + 1, Direction(l - 1), 0,
                          [i \in 1..R |-> Step(Part(l - 1, i - 1), Part(l - 1, i), <<>>)])
             F(l) == GatherLane(j, r, c, size, l - 1)
  <1>1. GatherLanes(j, r, c, size) = [l \in 1..n |-> A(l)]
    BY DEF GatherLanes, GatherCount, GatherGrain, Seat
  <1>2. n \in Nat /\ R \in Nat
    <2>1. n \in Nat  BY GatherParts
    <2>2. R \in Nat  BY JobFacts
    <2> QED  BY <2>1, <2>2
  <1>3. ASSUME NEW x \in 0..n - 1, NEW k \in Int
        PROVE  Part(x, k) = GatherCut(j, r, c, size, Seat(j, r, Direction(x), k), x)
    <2> DEFINE s == Seat(j, r, Direction(x), k)
    <2>1. s \in RanksOf(j)
      <3> DEFINE d == Direction(x)
      <3>1. x \in Nat  BY <1>2
      <3>2. d \in {-1, 1}  BY <3>1, DirectionFacts
      <3> HIDE DEF d
      <3>3. Seat(j, r, d, k) \in RanksOf(j)  BY <3>2, SeatFacts
      <3> QED  BY <3>3 DEF d
    <2> HIDE DEF s
    <2>2. SubSeq(Out(r, c, j.ranks * size), s * size + x * g + 1, s * size + Min({size, (x + 1) * g}))
             = GatherCut(j, r, c, size, s, x)
      BY <2>1, GatherPartIs
    <2> QED  BY <2>2 DEF s
  <1> HIDE DEF Part
  <1>4. ASSUME NEW l \in 1..n PROVE A(l) = F(l)
    <2> DEFINE x == l - 1
               B(i) == Step(Part(x, i - 1), Part(x, i), <<>>)
               D(i) == GatherStep(j, r, c, size, x, i)
    <2>1. x \in 0..n - 1  BY <1>2
    <2>2. ASSUME NEW i \in 1..R PROVE B(i) = D(i)
      <3>1. i - 1 \in Int /\ i \in Int  OBVIOUS
      <3> QED  BY <2>1, <3>1, <1>3 DEF GatherStep
    <2>3. F(l) = Lane(j, r, (x \div 2) + 1, Direction(x), 0, [i \in 1..R |-> D(i)])
      BY Zenon DEF GatherLane, GatherSteps, WireOfLane
    <2>4. A(l) = Lane(j, r, (x \div 2) + 1, Direction(x), 0, [i \in 1..R |-> B(i)])
      OBVIOUS
    <2> HIDE DEF B, D, F, A
    <2>5. [i \in 1..R |-> B(i)] = [i \in 1..R |-> D(i)]  BY <2>2, Zenon
    <2> QED  BY <2>3, <2>4, <2>5
  <1> HIDE DEF A, F, n
  <1>5. [l \in 1..n |-> A(l)] = [l \in 1..n |-> F(l)]  BY <1>4, Zenon
  <1> QED  BY <1>1, <1>5 DEF n, F

LEMMA GatherPlanOk ==
    ASSUME NEW j \in Jobs, NEW r \in RanksOf(j), NEW c, NEW size \in Nat
    PROVE  PlanOk(j, r, GatherLanes(j, r, c, size))
  <1> DEFINE N == GatherCount(j, size)
             F(l) == GatherLane(j, r, c, size, l - 1)
             P == GatherLanes(j, r, c, size)
             S(l) == GatherCells(j, r, c, size, l - 1)
             T(l) == ToEnd(j, r, WireOfLane(l - 1), Direction(l - 1))
             U(l) == FromEnd(j, r, WireOfLane(l - 1), Direction(l - 1))
  <1>1. P = [l \in 1..N |-> F(l)]  BY GatherLanesAre
  <1>2. N \in Nat  BY GatherParts
  <1>3. ASSUME NEW l \in 1..N
        PROVE  /\ LaneOk(F(l), LaneMemory(F(l))) /\ LaneMemory(F(l)) \subseteq S(l)
               /\ F(l).to = T(l) /\ F(l).from = U(l)
               /\ T(l) \in RankEnds(j, r) /\ U(l) \in RankEnds(j, r)
    <2> DEFINE x == l - 1
               L == GatherLane(j, r, c, size, x)
               W == GatherCells(j, r, c, size, x)
    <2>1. x \in 0..N - 1  BY <1>2
    <2>2. x \in Nat /\ x < 2 * j.wires  BY <2>1, GatherCellFacts
    <2>3. Direction(x) \in {-1, 1}  BY <2>2, DirectionFacts
    <2> HIDE DEF x
    <2>4. LaneOk(L, W)  BY <2>1, GatherLaneOk
    <2>5. /\ L.to = ToEnd(j, r, WireOfLane(x), Direction(x))
          /\ L.from = FromEnd(j, r, WireOfLane(x), Direction(x))
      BY Zenon DEF GatherLane, Lane, ToEnd, FromEnd
    <2>6. /\ ToEnd(j, r, WireOfLane(x), Direction(x)) \in RankEnds(j, r)
          /\ FromEnd(j, r, WireOfLane(x), Direction(x)) \in RankEnds(j, r)
      BY <2>2, <2>3, LaneEnds
    <2> HIDE DEF L, W
    <2>7. LaneMemory(L) \subseteq W  BY <2>4, LaneMemoryWithin
    <2>8. LaneOk(L, LaneMemory(L))  BY <2>4, LaneOkInMemory
    <2> QED  BY <2>5, <2>6, <2>7, <2>8 DEF x, L, W
  <1>4. ASSUME NEW l \in 1..N, NEW m \in 1..N, l # m PROVE S(l) \cap S(m) = {} /\ T(l) # T(m) /\ U(l) # U(m)
    <2> DEFINE x == l - 1
               y == m - 1
    <2>1. x \in 0..N - 1 /\ y \in 0..N - 1 /\ x # y /\ x \in Nat /\ y \in Nat  BY <1>2, <1>4
    <2> HIDE DEF x, y
    <2>2. GatherCells(j, r, c, size, x) \cap GatherCells(j, r, c, size, y) = {}
      <3>1. ASSUME NEW s \in RanksOf(j), NEW t \in RanksOf(j)
            PROVE  GatherInterval(j, r, c, size, s, x) \cap GatherInterval(j, r, c, size, t, y) = {}
        <4>1. s \in Nat /\ t \in Nat  BY JobFacts
        <4> QED  BY <2>1, <4>1, GatherIntervalsApart
      <3> QED  BY <3>1 DEF GatherCells
    <2>3. /\ ToEnd(j, r, WireOfLane(x), Direction(x)) # ToEnd(j, r, WireOfLane(y), Direction(y))
          /\ FromEnd(j, r, WireOfLane(x), Direction(x)) # FromEnd(j, r, WireOfLane(y), Direction(y))
      BY <2>1, LaneEndsDiffer
    <2> QED  BY <2>2, <2>3 DEF x, y
  <1> HIDE DEF N, F, P, S, T, U
  <1>6. DOMAIN P = 1..N /\ Len(P) = N  BY <1>1, <1>2
  <1>7. \A l \in 1..N : P[l] = F(l)  BY <1>1
  <1>8. ASSUME NEW l \in DOMAIN P, NEW m \in DOMAIN P, l # m
        PROVE  /\ P[l].to # P[m].to /\ P[l].from # P[m].from
               /\ LaneMemory(P[l]) \cap LaneMemory(P[m]) = {}
    <2>1. l \in 1..N /\ m \in 1..N /\ P[l] = F(l) /\ P[m] = F(m)  BY <1>6, <1>7
    <2>2. /\ LaneMemory(F(l)) \subseteq S(l) /\ F(l).to = T(l) /\ F(l).from = U(l)
          /\ LaneMemory(F(m)) \subseteq S(m) /\ F(m).to = T(m) /\ F(m).from = U(m)
      BY <2>1, <1>3
    <2>3. S(l) \cap S(m) = {} /\ T(l) # T(m) /\ U(l) # U(m)  BY <2>1, <1>4, <1>8
    <2> QED  BY <2>1, <2>2, <2>3
  <1>9. PlanOk(j, r, P)
    <2>1. ASSUME NEW l \in DOMAIN P
          PROVE  /\ LaneOk(P[l], LaneMemory(P[l]))
                 /\ P[l].to \in RankEnds(j, r) /\ P[l].from \in RankEnds(j, r)
      <3>1. l \in 1..N /\ P[l] = F(l)  BY <1>6, <1>7
      <3> QED  BY <3>1, <1>3
    <2>2. DOMAIN P = 1..Len(P) /\ Len(P) \in Nat  BY <1>2, <1>6
    <2> QED  BY <2>1, <2>2, <1>8 DEF PlanOk
  <1> QED  BY <1>9 DEF P

-----------------------------------------------------------------------------
(* The lanes of a send or a recv *)

PieceSize(j, size) == Max({j.minPiece, CeilDiv(size, j.wires)})
PieceCount(j, size) == CeilDiv(size, PieceSize(j, size))
PieceLo(j, size, l) == (l - 1) * PieceSize(j, size)
PieceHi(j, size, l) == PartEdge(size, PieceSize(j, size), l)
PieceCut(j, r, c, size, l) == Cut(r, c, PieceLo(j, size, l), PieceHi(j, size, l))
PieceStep(j, r, c, it, l) ==
    IF it.kind = "send" THEN Step(PieceCut(j, r, c, it.size, l), <<>>, <<>>)
    ELSE Step(<<>>, PieceCut(j, r, c, it.size, l), <<>>)
PieceEnd(j, r, it, l) == End(j, r, SideOf(j, r, it), l)
PieceLane(j, r, c, it, l) ==
    [to |-> PieceEnd(j, r, it, l), from |-> PieceEnd(j, r, it, l), lag |-> 0,
     steps |-> <<PieceStep(j, r, c, it, l)>>]

LEMMA PieceParts ==
    ASSUME NEW j \in Jobs, NEW size \in Nat
    PROVE  /\ PieceSize(j, size) \in Nat \ {0} /\ PieceCount(j, size) \in Nat
           /\ PieceCount(j, size) <= j.wires
           /\ size <= PieceCount(j, size) * PieceSize(j, size)
           /\ PieceCount(j, size) > 0 => (PieceCount(j, size) - 1) * PieceSize(j, size) < size
  <1> DEFINE w == j.wires
             q == CeilDiv(size, w)
             m == j.minPiece
             g == PieceSize(j, size)
             n == PieceCount(j, size)
  <1>1. w \in Nat \ {0} /\ m \in Nat \ {0}  BY JobFacts
  <1>2. g = Max({m, q}) /\ n = CeilDiv(size, g)  BY DEF PieceSize, PieceCount
  <1> HIDE DEF w, m, g, n
  <1>3. q \in Nat /\ size <= q * w  BY <1>1, CeilFacts
  <1> HIDE DEF q
  <1>4. g = IF m <= q THEN q ELSE m  BY <1>1, <1>2, <1>3, MaxOfTwo
  <1>5. g \in Nat \ {0} /\ q <= g  BY <1>1, <1>3, <1>4
  <1>6. n \in Nat /\ size <= n * g /\ n * g < size + g  BY <1>2, <1>5, CeilFacts
  <1>7. q * w <= g * w /\ q * w \in Int /\ g * w \in Int  BY <1>1, <1>3, <1>5, TimesMonotone
  <1>8. n <= w
    <2> SUFFICES ASSUME n > w PROVE FALSE  BY <1>1, <1>6
    <2>1. w + 1 \in Int /\ w + 1 <= n  BY <1>1, <1>6
    <2>2. (w + 1) * g <= n * g /\ (w + 1) * g \in Int /\ n * g \in Int  BY <1>5, <1>6, <2>1, TimesMonotone
    <2>3. (w + 1) * g = g * w + g  BY <1>1, <1>5
    <2> DEFINE a == (w + 1) * g
               b == n * g
               d == q * w
               e == g * w
    <2>4. a <= b /\ a \in Int /\ b \in Int /\ a = e + g /\ b < size + g /\ size <= d /\ d <= e
          /\ d \in Int /\ e \in Int
      BY <1>3, <1>6, <1>7, <2>2, <2>3
    <2> HIDE DEF a, b, d, e
    <2> QED  BY <2>4, <1>5
  <1>9. n > 0 => (n - 1) * g < size
    <2>1. (n - 1) * g = n * g - g /\ n * g \in Nat  BY <1>5, <1>6
    <2> DEFINE b == n * g
               y == (n - 1) * g
    <2>2. y = b - g /\ b \in Nat /\ b < size + g  BY <2>1, <1>6
    <2> HIDE DEF b, y
    <2>3. y < size  BY <2>2, <1>5
    <2> QED  BY <2>3 DEF y
  <1> QED  BY <1>5, <1>6, <1>8, <1>9 DEF g, n, w

LEMMA PieceEdges ==
    ASSUME NEW j \in Jobs, NEW size \in Nat, NEW l \in 1..PieceCount(j, size)
    PROVE  /\ PieceLo(j, size, l) \in Nat /\ PieceHi(j, size, l) \in Nat
           /\ PieceLo(j, size, l) < PieceHi(j, size, l) /\ PieceHi(j, size, l) <= size
           /\ \A m \in 1..PieceCount(j, size) : l < m => PieceHi(j, size, l) <= PieceLo(j, size, m)
           /\ l \in 1..j.wires /\ l \in Nat
  <1> DEFINE n == PieceCount(j, size)
             g == PieceSize(j, size)
             w == j.wires
  <1>1. /\ g \in Nat \ {0} /\ n \in Nat /\ n <= w /\ size <= n * g
        /\ n > 0 => (n - 1) * g < size
    BY PieceParts
  <1>2. w \in Nat  BY JobFacts
  <1>3. l \in 1..n  OBVIOUS
  <1>4. PieceHi(j, size, l) = PartEdge(size, g, l) /\ \A m : PieceLo(j, size, m) = (m - 1) * g
    BY DEF PieceHi, PieceLo
  <1> HIDE DEF n, g, w
  <1>5. n \in Nat \ {0} /\ (n - 1) * g < size /\ l \in 1..w  BY <1>1, <1>2, <1>3
  <1>6. /\ (l - 1) * g \in Nat /\ PartEdge(size, g, l) \in Nat
        /\ (l - 1) * g < PartEdge(size, g, l) /\ PartEdge(size, g, l) <= size
        /\ \A m \in 1..n : l < m => PartEdge(size, g, l) <= (m - 1) * g
    BY <1>1, <1>3, <1>5, PartFacts
  <1> QED  BY <1>3, <1>4, <1>5, <1>6 DEF n, w

LEMMA PieceIs ==
    ASSUME NEW j \in Jobs, NEW r, NEW c, NEW size \in Nat, NEW l \in 1..PieceCount(j, size)
    PROVE  SubSeq(Out(r, c, size), (l - 1) * PieceSize(j, size) + 1, Min({size, l * PieceSize(j, size)}))
              = PieceCut(j, r, c, size, l)
  <1> DEFINE a == PieceLo(j, size, l)
             b == PieceHi(j, size, l)
  <1>1. a \in Nat /\ b \in Nat /\ a < b /\ b <= size  BY PieceEdges
  <1>2. a = (l - 1) * PieceSize(j, size) /\ b = Min({size, l * PieceSize(j, size)})
    BY DEF PieceLo, PieceHi, PartEdge
  <1>3. PieceCut(j, r, c, size, l) = Cut(r, c, a, b)  BY DEF PieceCut
  <1> HIDE DEF a, b
  <1>4. Out(r, c, size) = Cut(r, c, 0, size)  BY OutIsCut
  <1>5. PartOf(Cut(r, c, 0, size), a, b) = Cut(r, c, a, b)
    <2>1. 0 \in Nat /\ 0 <= size /\ a <= b /\ b <= size - 0 /\ 0 + a = a /\ 0 + b = b  BY <1>1
    <2>2. PartOf(Cut(r, c, 0, size), a, b) = Cut(r, c, 0 + a, 0 + b)  BY <1>1, <2>1, CutOfCut
    <2> QED  BY <2>1, <2>2
  <1> QED  BY <1>2, <1>3, <1>4, <1>5 DEF PartOf

LEMMA PieceLanesAre ==
    ASSUME NEW j \in Jobs, NEW r, NEW c, NEW it, it.size \in Nat
    PROVE  PieceLanes(j, r, c, it) = [l \in 1..PieceCount(j, it.size) |-> PieceLane(j, r, c, it, l)]
  <1> DEFINE size == it.size
             n == PieceCount(j, size)
             g == PieceSize(j, size)
             Piece(l) == SubSeq(Out(r, c, size), (l - 1) * g + 1, Min({size, l * g}))
             Moves(l) == IF it.kind = "send" THEN Step(Piece(l), <<>>, <<>>)
                         ELSE Step(<<>>, Piece(l), <<>>)
             A(l) == [to |-> PieceEnd(j, r, it, l), from |-> PieceEnd(j, r, it, l),
                      lag |-> 0, steps |-> <<Moves(l)>>]
             F(l) == PieceLane(j, r, c, it, l)
  <1>1. PieceLanes(j, r, c, it) = [l \in 1..n |-> A(l)]
    BY DEF PieceLanes, PieceCount, PieceSize, PieceEnd
  <1>2. PieceLanes(j, r, c, it) = [l \in 1..n |-> F(l)]
    <2>1. ASSUME NEW l \in 1..n PROVE A(l) = F(l)
      <3>1. Piece(l) = PieceCut(j, r, c, size, l)  BY PieceIs
      <3> QED  BY <3>1 DEF PieceLane, PieceStep
    <2> HIDE DEF A, F
    <2>2. [l \in 1..n |-> A(l)] = [l \in 1..n |-> F(l)]  BY <2>1, Zenon
    <2> QED  BY <1>1, <2>2
  <1> QED  BY <1>2

LEMMA PieceLaneOk ==
    ASSUME NEW j \in Jobs, NEW r, NEW c, NEW it, it.size \in Nat, NEW l \in 1..PieceCount(j, it.size)
    PROVE  LET L == PieceLane(j, r, c, it, l)
           IN  LaneOk(L, Interval(r, c, PieceLo(j, it.size, l), PieceHi(j, it.size, l)))
  <1> DEFINE a == PieceLo(j, it.size, l)
             b == PieceHi(j, it.size, l)
             C == PieceCut(j, r, c, it.size, l)
             S == Interval(r, c, a, b)
             s == PieceStep(j, r, c, it, l)
             L == PieceLane(j, r, c, it, l)
  <1>1. a \in Nat /\ b \in Nat /\ a <= b  BY PieceEdges
  <1>2. C \in Seq(S) /\ Distinct(C)
    <2>1. S \subseteq S /\ C = Cut(r, c, a, b)  BY DEF PieceCut
    <2>2. S = Interval(r, c, a, b)  OBVIOUS
    <2> HIDE DEF a, b, C, S
    <2> QED  BY <1>1, <2>1, <2>2, CutOk
  <1>3. <<>> \in Seq(S) /\ Distinct(<<>>) /\ Range(<<>>) = {}  BY DEF Distinct, Range
  <1>4. L.lag = 0 /\ L.steps = <<s>>  BY DEF PieceLane
  <1>5. \/ s.send = C /\ s.recv = <<>> /\ s.into = <<>>
        \/ s.send = <<>> /\ s.recv = C /\ s.into = <<>>
    <2> HIDE DEF C
    <2> QED  BY DEF PieceStep, Step, C
  <1> HIDE DEF a, b, C, S, s, L
  <1>6. StepTyped(S, s) /\ StepsApart(s, s)
    <2>1. CASE s.send = C /\ s.recv = <<>> /\ s.into = <<>>
      BY <2>1, <1>2, <1>3 DEF StepTyped, StepsApart
    <2>2. CASE s.send = <<>> /\ s.recv = C /\ s.into = <<>>
      BY <2>2, <1>2, <1>3 DEF StepTyped, StepsApart
    <2> QED  BY <1>5, <2>1, <2>2
  <1>7. DOMAIN L.steps = {1} /\ L.steps[1] = s /\ Len(L.steps) = 1 /\ 1..1 = {1}  BY <1>4
  <1>8. LaneOk(L, S)
    <2>1. \A i \in DOMAIN L.steps : i = 1 /\ L.steps[i] = s  BY <1>7
    <2>2. DOMAIN L.steps = 1..Len(L.steps) /\ Len(L.steps) \in Nat \ {0}  BY <1>7
    <2> QED  BY <1>4, <1>6, <2>1, <2>2 DEF LaneOk
  <1> QED  BY <1>8 DEF L, S, a, b

LEMMA SideIs == ASSUME NEW j, NEW r, NEW it PROVE SideOf(j, r, it) \in {"left", "right"}
  BY DEF SideOf

LEMMA PiecePlanOk ==
    ASSUME NEW j \in Jobs, NEW r \in RanksOf(j), NEW c, NEW it, it.size \in Nat
    PROVE  PlanOk(j, r, PieceLanes(j, r, c, it))
  <1> DEFINE size == it.size
             N == PieceCount(j, size)
             F(l) == PieceLane(j, r, c, it, l)
             P == PieceLanes(j, r, c, it)
             S(l) == Interval(r, c, PieceLo(j, size, l), PieceHi(j, size, l))
             T(l) == PieceEnd(j, r, it, l)
  <1>1. P = [l \in 1..N |-> F(l)]  BY PieceLanesAre
  <1>2. N \in Nat  BY PieceParts
  <1>3. ASSUME NEW l \in 1..N
        PROVE  /\ LaneOk(F(l), LaneMemory(F(l))) /\ LaneMemory(F(l)) \subseteq S(l)
               /\ F(l).to = T(l) /\ F(l).from = T(l) /\ T(l) \in RankEnds(j, r)
    <2> DEFINE L == F(l)
               W == S(l)
    <2>1. LaneOk(L, W)  BY PieceLaneOk
    <2>2. L.to = T(l) /\ L.from = T(l)  BY DEF PieceLane
    <2>3. T(l) \in RankEnds(j, r)
      <3>1. l \in 1..j.wires  BY PieceEdges
      <3>2. SideOf(j, r, it) \in {"left", "right"}  BY SideIs
      <3> QED  BY <3>1, <3>2 DEF PieceEnd, RankEnds
    <2> HIDE DEF L, W, T
    <2>4. LaneMemory(L) \subseteq W  BY <2>1, LaneMemoryWithin
    <2>5. LaneOk(L, LaneMemory(L))  BY <2>1, LaneOkInMemory
    <2> QED  BY <2>2, <2>3, <2>4, <2>5 DEF L, W
  <1>4. ASSUME NEW l \in 1..N, NEW m \in 1..N, l # m PROVE S(l) \cap S(m) = {} /\ T(l) # T(m)
    <2> DEFINE a == PieceLo(j, size, l)
               b == PieceHi(j, size, l)
               x == PieceLo(j, size, m)
               y == PieceHi(j, size, m)
    <2>1. a \in Nat /\ b \in Nat /\ (l < m => b <= x) /\ l \in Nat  BY PieceEdges
    <2>2. x \in Nat /\ y \in Nat /\ (m < l => y <= a) /\ m \in Nat  BY PieceEdges
    <2>3. b <= x \/ y <= a
      <3>1. l < m \/ m < l  BY <1>4, <2>1, <2>2
      <3> QED  BY <3>1, <2>1, <2>2
    <2> HIDE DEF a, b, x, y
    <2>4. Interval(r, c, a, b) \cap Interval(r, c, x, y) = {}  BY <2>1, <2>2, <2>3, IntervalsApart
    <2>5. T(l) # T(m)  BY <1>4, EndsDiffer DEF PieceEnd
    <2> QED  BY <2>4, <2>5 DEF a, b, x, y
  <1> HIDE DEF N, F, P, S, T
  <1>6. DOMAIN P = 1..N /\ Len(P) = N  BY <1>1, <1>2
  <1>7. \A l \in 1..N : P[l] = F(l)  BY <1>1
  <1>8. ASSUME NEW l \in DOMAIN P, NEW m \in DOMAIN P, l # m
        PROVE  /\ P[l].to # P[m].to /\ P[l].from # P[m].from
               /\ LaneMemory(P[l]) \cap LaneMemory(P[m]) = {}
    <2>1. l \in 1..N /\ m \in 1..N /\ P[l] = F(l) /\ P[m] = F(m)  BY <1>6, <1>7
    <2>2. /\ LaneMemory(F(l)) \subseteq S(l) /\ F(l).to = T(l) /\ F(l).from = T(l)
          /\ LaneMemory(F(m)) \subseteq S(m) /\ F(m).to = T(m) /\ F(m).from = T(m)
      BY <2>1, <1>3
    <2>3. S(l) \cap S(m) = {} /\ T(l) # T(m)  BY <2>1, <1>4, <1>8
    <2> QED  BY <2>1, <2>2, <2>3
  <1>9. PlanOk(j, r, P)
    <2>1. ASSUME NEW l \in DOMAIN P
          PROVE  /\ LaneOk(P[l], LaneMemory(P[l]))
                 /\ P[l].to \in RankEnds(j, r) /\ P[l].from \in RankEnds(j, r)
      <3>1. l \in 1..N /\ P[l] = F(l)  BY <1>6, <1>7
      <3> QED  BY <3>1, <1>3
    <2>2. DOMAIN P = 1..Len(P) /\ Len(P) \in Nat  BY <1>2, <1>6
    <2> QED  BY <2>1, <2>2, <1>8 DEF PlanOk
  <1> QED  BY <1>9 DEF P

(* Whatever the call, its lanes do not touch each other's memory, nor do     *)
(* those steps of a lane that may be under way together.                     *)
THEOREM LanesOk ==
    ASSUME NEW j \in Jobs, NEW r \in RanksOf(j), NEW c \in DOMAIN j.calls[r]
    PROVE  PlanOk(j, r, Lanes(j, r, c))
  <1> DEFINE it == j.calls[r][c]
  <1>1. it.size \in Nat /\ it.kind \in {"all_reduce", "all_gather", "send", "recv"}  BY CallFacts
  <1>2. Lanes(j, r, c) = CASE it.kind = "all_reduce" -> ReduceLanes(j, r, c, it.size)
                           [] it.kind = "all_gather" -> GatherLanes(j, r, c, it.size)
                           [] OTHER -> PieceLanes(j, r, c, it)
    BY Zenon DEF Lanes
  <1> HIDE DEF it
  <1>3. PlanOk(j, r, ReduceLanes(j, r, c, it.size))
    <2> DEFINE n == it.size
    <2>1. n \in Nat  BY <1>1
    <2> HIDE DEF n
    <2>2. PlanOk(j, r, ReduceLanes(j, r, c, n))  BY <2>1, ReducePlanOk
    <2> QED  BY <2>2 DEF n
  <1>4. PlanOk(j, r, GatherLanes(j, r, c, it.size))
    <2> DEFINE n == it.size
    <2>1. n \in Nat  BY <1>1
    <2> HIDE DEF n
    <2>2. PlanOk(j, r, GatherLanes(j, r, c, n))  BY <2>1, GatherPlanOk
    <2> QED  BY <2>2 DEF n
  <1>5. PlanOk(j, r, PieceLanes(j, r, c, it))  BY <1>1, PiecePlanOk
  <1>6. CASE it.kind = "all_reduce"  BY <1>2, <1>3, <1>6
  <1>7. CASE it.kind = "all_gather"  BY <1>2, <1>4, <1>7
  <1>8. CASE it.kind \notin {"all_reduce", "all_gather"}  BY <1>2, <1>5, <1>8
  <1> QED  BY <1>6, <1>7, <1>8

LEMMA StepsInCells ==
    ASSUME NEW j \in Jobs, NEW r \in RanksOf(j), NEW c \in DOMAIN j.calls[r],
           NEW l \in DOMAIN Lanes(j, r, c), NEW i \in DOMAIN Lanes(j, r, c)[l].steps
    PROVE  LET s == Lanes(j, r, c)[l].steps[i]
           IN  s.send \in Seq(Cells) /\ s.recv \in Seq(Cells)
  <1> DEFINE P == Lanes(j, r, c)
             L == P[l]
             s == L.steps[i]
             All == UNION {UNION {Range(Lanes(j, q, d)) : d \in DOMAIN j.calls[q]} : q \in RanksOf(j)}
  <1>1. PlanOk(j, r, P)  BY LanesOk
  <1>2. StepTyped(LaneMemory(L), s)  BY <1>1 DEF PlanOk, LaneOk
  <1>3. L \in All
    <2>1. L \in Range(P)  BY DEF Range
    <2> HIDE DEF L
    <2> QED  BY <2>1
  <1>4. s \in Range(L.steps)  BY DEF Range
  <1> HIDE DEF P, L, s
  <1>5. Range(s.send) \cup Range(s.recv) \subseteq CellsOf(j)
    <2>1. CellsOf(j) = UNION {UNION {Range(v.send) \cup Range(v.recv) : v \in Range(M.steps)} : M \in All}
      BY Zenon DEF CellsOf
    <2> HIDE DEF All
    <2> QED  BY <2>1, <1>3, <1>4
  <1>6. CellsOf(j) \subseteq Cells  BY DEF Cells
  <1>7. s.send \in Seq(LaneMemory(L)) /\ s.recv \in Seq(LaneMemory(L))  BY <1>2 DEF StepTyped
  <1>8. s.send \in Seq(Cells) /\ s.recv \in Seq(Cells)
    <2>1. Range(s.send) \subseteq Cells /\ Range(s.recv) \subseteq Cells  BY <1>5, <1>6
    <2> QED  BY <2>1, <1>7, Retyped
  <1> QED  BY <1>8 DEF P, L, s

-----------------------------------------------------------------------------
(* What cells must hold *)

(* The calls of every job fit. *)
AllMatched == \A j \in Jobs : \E round \in [RanksOf(j) -> Seq(Nat)] : Matched(j, round)

Round(j) == CHOOSE round \in [RanksOf(j) -> Seq(Nat)] : Matched(j, round)

(* The steps of a lane that write cell x, and those before step n. *)
Written(s) == IF s.into = <<>> THEN Range(s.recv) ELSE Range(s.into)
Writers(L, x) == {m \in DOMAIN L.steps : x \in Written(L.steps[m])}
Before(L, x, n) == {m \in Writers(L, x) : m < n}

(* The ranks whose elements are in the sum once the steps W have written it: *)
(* rank r itself, and those that what arrives in a step has come through.    *)
Givers(j, r, size, l, W) ==
    LET packets == Packets(j, ReduceLen(j, size, l))
    IN  {r} \cup UNION {{Seat(j, r, ReduceDir(j, size, l), v) : v \in 1..((m - 1) \div packets) + 1} : m \in W}

(* The send that answers the recv that is call c of rank r. *)
Answering(j, r, c) ==
    CHOOSE d \in DOMAIN j.calls[j.calls[r][c].peer] :
        Answers(j, Round(j), r, c, j.calls[r][c].peer, d)

(* What cell k of the array of call c of rank r must hold once the steps W *)
(* of lane l have written it.                                              *)
Value(j, r, c, l, W, k) ==
    LET it == j.calls[r][c]
    IN  CASE it.kind = "all_reduce" ->
               IF k > it.size THEN EmptyBag ELSE SetToBag({<<c, g, k>> : g \in Givers(j, r, it.size, l, W)})
          [] it.kind = "all_gather" ->
               IF W # {} \/ k \in r * it.size + 1..(r + 1) * it.size
               THEN Element(c, (k - 1) \div it.size, ((k - 1) % it.size) + 1) ELSE Uninitialised
          [] it.kind = "send" -> Element(c, r, k)
          [] it.kind = "recv" ->
               IF W = {} THEN Uninitialised ELSE Element(Answering(j, r, c), it.peer, k)

(* What lane l sends as cell k of its step i. *)
SentValue(j, r, c, l, i, k) ==
    LET L == Lanes(j, r, c)[l]
        x == L.steps[i].send[k]
    IN  Value(j, r, c, l, Before(L, x, i), x[3])

(* What step i of lane l of call c of rank r makes of v, which arrives as its *)
(* cell k, is what the cell that it writes must hold then.                    *)
Arrives(j, r, c, l, i, k, v) ==
    LET L == Lanes(j, r, c)[l]
        s == L.steps[i]
    IN  /\ s.into = <<>> => v = Value(j, r, c, l, Before(L, s.recv[k], i) \cup {i}, s.recv[k][3])
        /\ s.into # <<>> => Value(j, r, c, l, Before(L, s.into[k], i), s.into[k][3]) (+) v
                               = Value(j, r, c, l, Before(L, s.into[k], i) \cup {i}, s.into[k][3])

-----------------------------------------------------------------------------
(* Tags *)

(* The tag of a cell that goes through a connection. *)
Tags == [round : Nat, step : Nat, cell : Nat]
Earlier(t, u) == \/ t.round < u.round
                 \/ t.round = u.round /\ (t.step < u.step \/ (t.step = u.step /\ t.cell < u.cell))
Increasing(G) == \A n, m \in DOMAIN G : n < m => Earlier(G[n], G[m])

(* Sends and recvs are treated alike. *)
Ways == {"send", "recv"}
MovedBy(d, s) == IF d = "send" THEN s.send ELSE s.recv
EndOf(d, L) == IF d = "send" THEN L.to ELSE L.from
(* Lane l of call c moves a cell of tag t through end e. *)
Moves(j, d, e, c, l, t) ==
    /\ c \in DOMAIN j.calls[e[2]] /\ l \in DOMAIN Lanes(j, e[2], c)
    /\ EndOf(d, Lanes(j, e[2], c)[l]) = e
    /\ t.round = Round(j)[e[2]][c]
    /\ t.step \in DOMAIN Lanes(j, e[2], c)[l].steps
    /\ t.cell \in DOMAIN MovedBy(d, Lanes(j, e[2], c)[l].steps[t.step])
(* A cell of an array, not of a receive buffer. *)
IsOut(x) == x[2][1] = "out"

-----------------------------------------------------------------------------
(* Streams of tags *)

LEMMA EarlierOrder ==
    ASSUME NEW t \in Tags, NEW u \in Tags
    PROVE  /\ Earlier(t, u) \/ t = u \/ Earlier(u, t)
           /\ ~(Earlier(t, u) /\ Earlier(u, t)) /\ ~Earlier(t, t)
  <1>1. t.round \in Nat /\ t.step \in Nat /\ t.cell \in Nat /\ u.round \in Nat /\ u.step \in Nat /\ u.cell \in Nat
    BY DEF Tags
  <1>2. t.round = u.round /\ t.step = u.step /\ t.cell = u.cell => t = u
    BY DEF Tags
  <1>3. QED  BY <1>1, <1>2 DEF Earlier

LEMMA EarlierTransitive ==
    ASSUME NEW t \in Tags, NEW u \in Tags, NEW v \in Tags, Earlier(t, u), Earlier(u, v)
    PROVE  Earlier(t, v)
  BY DEF Earlier, Tags

(* A stream: what P has still to send and Q has still to receive, of A.     *)
Window(A, P, Q) ==
    /\ A \subseteq Tags /\ Q \subseteq A /\ P \subseteq Q
    /\ \A t \in P, u \in A : Earlier(t, u) => u \in P
Between(G, P, Q) == G \in Seq(Tags) /\ Increasing(G) /\ Range(G) = Q \ P
FirstOf(P, t) == t \in P /\ \A u \in P : u = t \/ Earlier(t, u)

LEMMA StreamGrows ==
    ASSUME NEW A, NEW P, NEW Q, Window(A, P, Q), NEW G, Between(G, P, Q), NEW t, FirstOf(P, t),
           NEW R, R = P \ {t}
    PROVE  Window(A, R, Q) /\ Between(Append(G, t), R, Q)
  <1>0. /\ A \subseteq Tags /\ Q \subseteq A /\ P \subseteq Q /\ P \subseteq A /\ t \in P
        /\ \A v \in P, u \in A : Earlier(v, u) => u \in P
        /\ G \in Seq(Tags) /\ Increasing(G) /\ Range(G) = Q \ P
        /\ \A u \in P : u = t \/ Earlier(t, u)
    BY DEF Window, Between, FirstOf
  <1> USE <1>0
  <1>1. t \in Tags /\ t \in Q  OBVIOUS
  <1>2. ASSUME NEW v \in P \ {t}, NEW u \in A, Earlier(v, u) PROVE u \in P \ {t}
    <2>1. u \in P  BY <1>2
    <2>2. Earlier(t, v) /\ v \in Tags /\ u \in Tags  OBVIOUS
    <2>3. u # t  BY <2>2, <1>2, EarlierOrder
    <2>4. QED  BY <2>1, <2>3
  <1>3. ASSUME NEW n \in 1..Len(G) PROVE Earlier(G[n], t) /\ G[n] \in Q \ P
    <2>1. G[n] \in Range(G)  BY DEF Range
    <2>2. G[n] \in Q /\ G[n] \notin P /\ G[n] \in Tags /\ G[n] \in A  BY <2>1
    <2>3. ~Earlier(t, G[n]) /\ t # G[n]  BY <2>2
    <2>4. QED  BY <2>2, <2>3, EarlierOrder
  <1>4. /\ Append(G, t) \in Seq(Tags) /\ Len(Append(G, t)) = Len(G) + 1
        /\ DOMAIN Append(G, t) = 1..Len(G) + 1 /\ Len(G) \in Nat
        /\ \A n \in 1..Len(G) : Append(G, t)[n] = G[n]
        /\ Append(G, t)[Len(G) + 1] = t
    BY <1>1
  <1>5. Increasing(Append(G, t))
    <2> SUFFICES ASSUME NEW n \in 1..Len(G) + 1, NEW m \in 1..Len(G) + 1, n < m
                 PROVE  Earlier(Append(G, t)[n], Append(G, t)[m])
      BY <1>4 DEF Increasing
    <2>1. n \in 1..Len(G)  BY <1>4
    <2>2. CASE m = Len(G) + 1  BY <2>1, <2>2, <1>3, <1>4
    <2>3. CASE m # Len(G) + 1
      <3>1. m \in 1..Len(G) /\ n \in DOMAIN G /\ m \in DOMAIN G  BY <2>3, <2>1, <1>4
      <3>2. Earlier(G[n], G[m])  BY <3>1 DEF Increasing
      <3>3. QED  BY <3>1, <3>2, <2>1, <1>4
    <2>4. QED  BY <2>2, <2>3
  <1>6. Range(Append(G, t)) = Range(G) \cup {t}
    <2>1. ASSUME NEW n \in 1..Len(G) + 1 PROVE Append(G, t)[n] \in Range(G) \cup {t}
      <3>1. CASE n = Len(G) + 1  BY <3>1, <1>4
      <3>2. CASE n # Len(G) + 1
        <4>1. n \in 1..Len(G) /\ n \in DOMAIN G  BY <3>2, <1>4
        <4>2. QED  BY <4>1, <1>4 DEF Range
      <3>3. QED  BY <3>1, <3>2
    <2>2. ASSUME NEW n \in DOMAIN G PROVE G[n] \in Range(Append(G, t))
      <3>1. n \in 1..Len(G) /\ n \in 1..Len(G) + 1  BY <1>4
      <3>2. QED  BY <3>1, <1>4 DEF Range
    <2>3. t \in Range(Append(G, t))
      <3>1. Len(G) + 1 \in 1..Len(G) + 1  BY <1>4
      <3>2. QED  BY <3>1, <1>4 DEF Range
    <2>4. Range(Append(G, t)) \subseteq Range(G) \cup {t}  BY <2>1, <1>4 DEF Range
    <2>5. Range(G) \subseteq Range(Append(G, t))  BY <2>2 DEF Range
    <2>6. QED  BY <2>3, <2>4, <2>5
  <1>7. QED  BY <1>1, <1>2, <1>4, <1>5, <1>6 DEF Window, Between

LEMMA StreamShrinks ==
    ASSUME NEW A, NEW P, NEW Q, Window(A, P, Q), NEW G, Between(G, P, Q), G # <<>>, NEW t, FirstOf(Q, t),
           NEW R, R = Q \ {t}
    PROVE  t = G[1] /\ Window(A, P, R) /\ Between(Tail(G), P, R)
  <1>0. /\ A \subseteq Tags /\ Q \subseteq A /\ P \subseteq Q /\ P \subseteq A /\ t \in Q
        /\ \A v \in P, u \in A : Earlier(v, u) => u \in P
        /\ G \in Seq(Tags) /\ Increasing(G) /\ Range(G) = Q \ P
        /\ \A u \in Q : u = t \/ Earlier(t, u)
    BY DEF Window, Between, FirstOf
  <1> USE <1>0
  <1>1. Len(G) \in Nat /\ Len(G) >= 1 /\ 1 \in DOMAIN G /\ DOMAIN G = 1..Len(G)  OBVIOUS
  <1>2. G[1] \in Q /\ G[1] \notin P /\ G[1] \in Tags /\ G[1] \in A  BY <1>1 DEF Range
  <1>3. t \notin P
    <2> SUFFICES ASSUME t \in P PROVE FALSE  OBVIOUS
    <2>1. G[1] # t  BY <1>2
    <2>2. Earlier(t, G[1])  BY <1>2, <2>1
    <2>3. QED  BY <1>2, <2>2
  <1>4. PICK m \in DOMAIN G : G[m] = t
    <2>1. t \in Range(G)  BY <1>3
    <2>2. QED  BY <2>1 DEF Range
  <1>5. t = G[1]
    <2> SUFFICES ASSUME t # G[1] PROVE FALSE  OBVIOUS
    <2>1. 1 < m  BY <1>1, <1>4
    <2>2. Earlier(G[1], t)  BY <1>1, <1>4, <2>1 DEF Increasing
    <2>3. Earlier(t, G[1])  BY <1>2
    <2>4. QED  BY <2>2, <2>3, <1>2, EarlierOrder
  <1>6. /\ Tail(G) \in Seq(Tags) /\ Len(Tail(G)) = Len(G) - 1 /\ DOMAIN Tail(G) = 1..Len(G) - 1
        /\ \A n \in 1..Len(G) - 1 : Tail(G)[n] = G[n + 1]
    BY <1>1
  <1>7. Increasing(Tail(G))
    <2> SUFFICES ASSUME NEW n \in 1..Len(G) - 1, NEW k \in 1..Len(G) - 1, n < k
                 PROVE  Earlier(Tail(G)[n], Tail(G)[k])
      BY <1>6 DEF Increasing
    <2>1. n + 1 \in DOMAIN G /\ k + 1 \in DOMAIN G /\ n + 1 < k + 1  BY <1>1
    <2>2. Earlier(G[n + 1], G[k + 1])  BY <2>1 DEF Increasing
    <2>3. QED  BY <2>2, <1>6
  <1>8. Range(Tail(G)) = Range(G) \ {t}
    <2>1. ASSUME NEW n \in 1..Len(G) - 1 PROVE Tail(G)[n] \in Range(G) \ {t}
      <3>1. n + 1 \in DOMAIN G /\ 1 < n + 1  BY <1>1
      <3>2. Earlier(G[1], G[n + 1])  BY <3>1, <1>1 DEF Increasing
      <3>3. G[n + 1] # t  BY <3>2, <1>5, <1>2, EarlierOrder
      <3>4. QED  BY <3>1, <3>3, <1>6 DEF Range
    <2>2. ASSUME NEW n \in DOMAIN G, G[n] # t PROVE G[n] \in Range(Tail(G))
      <3>1. n # 1  BY <2>2, <1>5
      <3>2. n - 1 \in 1..Len(G) - 1 /\ (n - 1) + 1 = n  BY <3>1, <1>1
      <3>3. Tail(G)[n - 1] = G[n]  BY <3>2, <1>6
      <3>4. QED  BY <3>2, <3>3, <1>6 DEF Range
    <2>3. Range(Tail(G)) \subseteq Range(G) \ {t}  BY <2>1, <1>6 DEF Range
    <2>4. Range(G) \ {t} \subseteq Range(Tail(G))  BY <2>2 DEF Range
    <2>5. QED  BY <2>3, <2>4
  <1>9. QED  BY <1>3, <1>5, <1>6, <1>7, <1>8 DEF Window, Between

-----------------------------------------------------------------------------
(* What the ranks do together *)

LEMMA RoundFacts ==
    ASSUME AllMatched, NEW j \in Jobs
    PROVE  /\ Matched(j, Round(j)) /\ Round(j) \in [RanksOf(j) -> Seq(Nat)]
           /\ \A r \in RanksOf(j) : \A c \in DOMAIN j.calls[r] : Round(j)[r][c] \in Nat
  <1>1. \E round \in [RanksOf(j) -> Seq(Nat)] : Matched(j, round)  BY DEF AllMatched
  <1>2. Round(j) \in [RanksOf(j) -> Seq(Nat)] /\ Matched(j, Round(j))  BY <1>1 DEF Round
  <1>3. ASSUME NEW r \in RanksOf(j), NEW c \in DOMAIN j.calls[r] PROVE Round(j)[r][c] \in Nat
    <2>1. PICK s : s = Round(j)[r]  OBVIOUS
    <2>2. s \in Seq(Nat)  BY <1>2, <2>1
    <2>3. DOMAIN s = DOMAIN j.calls[r]  BY <1>2, <2>1 DEF Matched
    <2>4. QED  BY <2>1, <2>2, <2>3
  <1>4. QED  BY <1>2, <1>3

LEMMA CollectiveCalls ==
    ASSUME AllMatched, NEW j \in Jobs, NEW r \in RanksOf(j), NEW c \in DOMAIN j.calls[r],
           j.calls[r][c].kind \in Collectives, NEW q \in RanksOf(j)
    PROVE  /\ c \in DOMAIN j.calls[q] /\ j.calls[q][c].kind = j.calls[r][c].kind
           /\ j.calls[q][c].size = j.calls[r][c].size /\ Round(j)[q][c] = Round(j)[r][c]
  <1>1. Matched(j, Round(j))  BY RoundFacts
  <1>2. QED  BY <1>1 DEF Matched

LEMMA RoundsGrow ==
    ASSUME AllMatched, NEW j \in Jobs, NEW r \in RanksOf(j), NEW c \in DOMAIN j.calls[r],
           NEW d \in DOMAIN j.calls[r], c < d,
           \/ j.calls[r][c].kind \in Collectives \/ j.calls[r][d].kind \in Collectives
           \/ j.calls[r][c].kind = j.calls[r][d].kind /\ j.calls[r][c].peer = j.calls[r][d].peer
    PROVE  Round(j)[r][c] < Round(j)[r][d]
  <1>1. Matched(j, Round(j))  BY RoundFacts
  <1>2. QED  BY <1>1 DEF Matched

LEMMA CallAnswered ==
    ASSUME AllMatched, NEW j \in Jobs, NEW r \in RanksOf(j), NEW c \in DOMAIN j.calls[r],
           j.calls[r][c].kind \notin Collectives
    PROVE  \E d \in DOMAIN j.calls[j.calls[r][c].peer] : Answers(j, Round(j), r, c, j.calls[r][c].peer, d)
  <1>1. Matched(j, Round(j))  BY RoundFacts
  <1>2. QED  BY <1>1 DEF Matched

LEMMA AnswersBack ==
    ASSUME NEW j, NEW round, NEW r, NEW c, NEW q, NEW d, Answers(j, round, r, c, q, d)
    PROVE  Answers(j, round, q, d, r, c)
  BY DEF Answers

(* The ends of a job. *)
LEMMA PeerFacts ==
    ASSUME NEW j \in Jobs, NEW e \in Ends, e[1] = j.ranks
    PROVE  /\ e[2] \in RanksOf(j)
           /\ PeerOf[e] \in Ends /\ PeerOf[e][1] = j.ranks /\ PeerOf[PeerOf[e]] = e
           /\ e[3] \in {"left", "right"} /\ PeerOf[e][3] # e[3] /\ PeerOf[e][4] = e[4]
           /\ PeerOf[e][2] \in RanksOf(j)
           /\ PeerOf[e][2] = IF e[3] = "right" THEN (e[2] + 1) % j.ranks
                             ELSE (e[2] + j.ranks - 1) % j.ranks
  <1>a. PICK i \in Jobs : \E r \in RanksOf(i), side \in {"left", "right"}, w \in 1..i.wires : e = End(i, r, side, w)
    BY DEF Ends
  <1>2. PICK r \in RanksOf(i), side \in {"left", "right"}, w \in 1..i.wires : e = End(i, r, side, w)
    BY <1>a
  <1>3. i.ranks = j.ranks /\ e[2] = r /\ e[3] = side /\ e[4] = w /\ e[1] = i.ranks  BY <1>2 DEF End
  <1>4. j.ranks \in Nat /\ j.ranks >= 2  BY JobFacts
  <1>5. r \in 0..j.ranks - 1 /\ e[2] \in RanksOf(j)  BY <1>3 DEF RanksOf
  <1>9. j.ranks \in Nat \ {0} /\ r + 1 \in Int /\ r + j.ranks - 1 \in Int /\ j.ranks - 1 \in Int
    BY <1>4, <1>5
  <1>6. CASE side = "right"
    <2> DEFINE q == (r + 1) % j.ranks
    <2>1. q \in 0..j.ranks - 1  BY <1>9, ModRange
    <2>2. PeerOf[e] = <<j.ranks, q, "left", w>>
      BY <1>2, <1>3, <1>6 DEF PeerOf, End
    <2>3. PeerOf[e] = End(i, q, "left", w) /\ q \in RanksOf(i)  BY <2>2, <2>1, <1>3 DEF End, RanksOf
    <2>4. PeerOf[e] \in Ends  BY <2>3 DEF Ends
    <2>5. PeerOf[e][1] = j.ranks /\ PeerOf[e][2] = q /\ PeerOf[e][3] = "left" /\ PeerOf[e][4] = w
      BY <2>2
    <2>6. PeerOf[PeerOf[e]] = <<j.ranks, (q + j.ranks - 1) % j.ranks, "right", w>>
      BY <2>4, <2>5 DEF PeerOf
    <2>7. (q + j.ranks - 1) % j.ranks = r
      <3>1. q + (j.ranks - 1) = q + j.ranks - 1 /\ (r + 1) + (j.ranks - 1) = r + j.ranks
        BY <2>1, <1>4, <1>5
      <3>2. (q + (j.ranks - 1)) % j.ranks = ((r + 1) + (j.ranks - 1)) % j.ranks
        BY <1>9, ModAdd
      <3>3. (r + j.ranks) % j.ranks = r  BY <1>9, <1>5, ModSmall
      <3>4. QED  BY <3>1, <3>2, <3>3
    <2>8. q \in RanksOf(j)  BY <2>1 DEF RanksOf
    <2>9. e[2] \in RanksOf(j) /\ PeerOf[PeerOf[e]] = e
      BY <2>6, <2>7, <1>2, <1>3, <1>5, <1>6 DEF End
    <2>10. QED  BY <2>4, <2>5, <2>8, <2>9, <1>3, <1>6
  <1>7. CASE side = "left"
    <2> DEFINE q == (r + j.ranks - 1) % j.ranks
    <2>1. q \in 0..j.ranks - 1  BY <1>9, ModRange
    <2>2. PeerOf[e] = <<j.ranks, q, "right", w>>
      BY <1>2, <1>3, <1>7 DEF PeerOf, End
    <2>3. PeerOf[e] = End(i, q, "right", w) /\ q \in RanksOf(i)
      BY <2>2, <2>1, <1>3 DEF End, RanksOf
    <2>4. PeerOf[e] \in Ends  BY <2>3 DEF Ends
    <2>5. PeerOf[e][1] = j.ranks /\ PeerOf[e][2] = q /\ PeerOf[e][3] = "right" /\ PeerOf[e][4] = w
      BY <2>2
    <2>6. PeerOf[PeerOf[e]] = <<j.ranks, (q + 1) % j.ranks, "left", w>>
      BY <2>4, <2>5 DEF PeerOf
    <2>7. (q + 1) % j.ranks = r
      <3>1. (r + j.ranks - 1) + 1 = r + j.ranks /\ r + j.ranks - 1 \in Int
        BY <2>1, <1>4, <1>5
      <3>2. (q + 1) % j.ranks = ((r + j.ranks - 1) + 1) % j.ranks
        BY <1>4, <1>5, <3>1, ModAdd
      <3>3. (r + j.ranks) % j.ranks = r  BY <1>4, <1>5, ModSmall
      <3>4. QED  BY <3>1, <3>2, <3>3
    <2>8. q \in RanksOf(j)  BY <2>1 DEF RanksOf
    <2>9. e[2] \in RanksOf(j) /\ PeerOf[PeerOf[e]] = e
      BY <2>6, <2>7, <1>2, <1>3, <1>5, <1>7 DEF End
    <2>10. QED  BY <2>4, <2>5, <2>8, <2>9, <1>3, <1>7
  <1>8. QED  BY <1>6, <1>7

(* The lanes of call c of rank r. *)
LEMMA LanesFacts ==
    ASSUME NEW j \in Jobs, NEW r \in RanksOf(j), NEW c \in DOMAIN j.calls[r], NEW l \in DOMAIN Lanes(j, r, c)
    PROVE  LET L == Lanes(j, r, c)[l]
           IN  /\ l \in Nat /\ c \in Nat /\ LaneOk(L, LaneMemory(L)) /\ L.lag \in {0, 1}
               /\ DOMAIN L.steps = 1..Len(L.steps) /\ Len(L.steps) \in Nat \ {0}
               /\ L.to \in RankEnds(j, r) /\ L.from \in RankEnds(j, r)
               /\ \A m \in DOMAIN Lanes(j, r, c) : m # l =>
                     /\ L.to # Lanes(j, r, c)[m].to /\ L.from # Lanes(j, r, c)[m].from
                     /\ LaneMemory(L) \cap LaneMemory(Lanes(j, r, c)[m]) = {}
  <1>1. PlanOk(j, r, Lanes(j, r, c))  BY LanesOk
  <1>2. c \in Nat  BY CallFacts
  <1> DEFINE P == Lanes(j, r, c)
  <1>3. DOMAIN P = 1..Len(P) /\ Len(P) \in Nat  BY <1>1 DEF PlanOk
  <1>4. LaneOk(P[l], LaneMemory(P[l])) /\ P[l].to \in RankEnds(j, r) /\ P[l].from \in RankEnds(j, r)
    BY <1>1 DEF PlanOk
  <1>5. \A m \in DOMAIN P : m # l => /\ P[l].to # P[m].to /\ P[l].from # P[m].from
                                     /\ LaneMemory(P[l]) \cap LaneMemory(P[m]) = {}
    BY <1>1 DEF PlanOk
  <1>6. l \in Nat  BY <1>3
  <1>7. P[l].lag \in {0, 1} /\ DOMAIN P[l].steps = 1..Len(P[l].steps) /\ Len(P[l].steps) \in Nat \ {0}
    BY <1>4 DEF LaneOk
  <1>8. QED  BY <1>2, <1>4, <1>5, <1>6, <1>7

LEMMA CutHas ==
    ASSUME NEW r, NEW c, NEW a \in Nat, NEW b \in Nat, a <= b, NEW z, z = b - a
    PROVE  /\ z \in Nat /\ DOMAIN Cut(r, c, a, b) = 1..z /\ Len(Cut(r, c, a, b)) = z
           /\ \A k \in 1..z : Cut(r, c, a, b)[k] = OutCell(r, c, a + k) /\ Cut(r, c, a, b)[k][3] = a + k
           /\ z # 0 => Cut(r, c, a, b) # <<>>
  <1>1. z \in Nat  OBVIOUS
  <1>2. DOMAIN Cut(r, c, a, b) = 1..z  BY CutFacts
  <1>3. Len(Cut(r, c, a, b)) = z  BY CutFacts
  <1>4. \A k \in 1..z : Cut(r, c, a, b)[k] = OutCell(r, c, a + k)  BY DEF Cut
  <1>5. \A k : OutCell(r, c, a + k)[3] = a + k  BY DEF OutCell
  <1>6. z # 0 => Cut(r, c, a, b) # <<>>  BY CutFacts
  <1>7. QED  BY <1>1, <1>2, <1>3, <1>4, <1>5, <1>6

LEMMA BufferHas ==
    ASSUME NEW r, NEW lane, NEW slot \in {0, 1}, NEW n \in Nat
    PROVE  DOMAIN Buffer(r, lane, slot, n) = 1..n
  BY BufferIs

(* Where a step puts what it receives, in the end. *)
Target(s) == IF s.into = <<>> THEN s.recv ELSE s.into

(* What lane l of call c of rank p sends is what lane l of call d of rank q  *)
(* receives.                                                                 *)
Fits(L, M) ==
    /\ DOMAIN L.steps = DOMAIN M.steps
    /\ \A i \in DOMAIN L.steps :
          /\ DOMAIN L.steps[i].send = DOMAIN M.steps[i].recv
          /\ \A k \in DOMAIN L.steps[i].send : L.steps[i].send[k][3] = Target(M.steps[i])[k][3]
Meets(j, p, c, q, d, l) ==
    /\ c \in DOMAIN j.calls[p] /\ l \in DOMAIN Lanes(j, p, c)
    /\ d \in DOMAIN j.calls[q] /\ l \in DOMAIN Lanes(j, q, d)
    /\ Round(j)[p][c] = Round(j)[q][d]
    /\ Lanes(j, q, d)[l].from = PeerOf[Lanes(j, p, c)[l].to]
    /\ Fits(Lanes(j, p, c)[l], Lanes(j, q, d)[l])

(* The rank that a lane of that direction sends to. *)
NextRank(j, p, d) == IF d < 0 THEN (p + 1) % j.ranks ELSE (p + j.ranks - 1) % j.ranks

LEMMA SeatShift ==
    ASSUME NEW j \in Jobs, NEW p \in RanksOf(j), NEW d \in {-1, 1}, NEW q, q = NextRank(j, p, d), NEW k \in Nat
    PROVE  q \in RanksOf(j) /\ Seat(j, q, d, k + 1) = Seat(j, p, d, k)
  <1>1. PICK R : R = j.ranks  OBVIOUS
  <1>2. R \in Nat \ {0} /\ R >= 2 /\ p \in 0..R - 1 /\ p \in Int  BY <1>1, JobFacts DEF RanksOf
  <1>3. q \in 0..R - 1
    <2>1. (p + 1) % R \in 0..R - 1  BY <1>2, ModRange
    <2>2. (p + R - 1) % R \in 0..R - 1  BY <1>2, ModRange
    <2>3. QED  BY <1>1, <2>1, <2>2 DEF NextRank
  <1>4. CASE d = -1
    <2>1. q = (p + 1) % R  BY <1>1, <1>4 DEF NextRank
    <2>2. PICK a \in Int, b \in Int : a = p + 1 /\ b = -(k + 1)  BY <1>2
    <2>3. ((a % R) + b) % R = (a + b) % R  BY <1>2, ModAdd
    <2>4. a + b = p + k * d /\ (k + 1) * d = b  BY <1>2, <2>2, <1>4
    <2>5. Seat(j, q, d, k + 1) = (q + b) % R  BY <2>4, <1>1 DEF Seat
    <2>6. Seat(j, p, d, k) = (a + b) % R  BY <2>4, <1>1 DEF Seat
    <2>7. QED  BY <1>1, <1>3, <2>1, <2>2, <2>3, <2>5, <2>6 DEF RanksOf
  <1>5. CASE d = 1
    <2>1. q = (p + R - 1) % R  BY <1>1, <1>5 DEF NextRank
    <2>2. PICK a \in Int, b \in Int : a = p + R - 1 /\ b = k + 1  BY <1>2
    <2>3. ((a % R) + b) % R = (a + b) % R  BY <1>2, ModAdd
    <2>4. a + b = (p + k) + R /\ (k + 1) * d = b /\ p + k * d = p + k /\ p + k \in Int
      BY <1>2, <2>2, <1>5
    <2>5. Seat(j, q, d, k + 1) = (q + b) % R  BY <2>4, <1>1 DEF Seat
    <2>6. Seat(j, p, d, k) = (p + k) % R  BY <2>4, <1>1 DEF Seat
    <2>7. PICK m \in 0..R - 1, x \in Int : p + k = R * x + m /\ m = (p + k) % R
      BY <1>2, <2>4, DivFacts
    <2>8. (p + k) + R = R * (x + 1) + m /\ x + 1 \in Int /\ (p + k) + R \in Int  BY <1>2, <2>4, <2>7
    <2>9. ((p + k) + R) % R = m  BY <1>2, <2>8, ModUnique
    <2>10. QED  BY <1>1, <1>3, <2>1, <2>2, <2>3, <2>4, <2>5, <2>6, <2>7, <2>9 DEF RanksOf
  <1>6. QED  BY <1>4, <1>5

LEMMA NeighbourEnds ==
    ASSUME NEW j \in Jobs, NEW p \in RanksOf(j), NEW d \in {-1, 1}, NEW q, q = NextRank(j, p, d),
           NEW w \in 1..j.wires
    PROVE  /\ PeerOf[ToEnd(j, p, w, d)] = FromEnd(j, q, w, d) /\ ToEnd(j, p, w, d) \in Ends
           /\ PeerOf[ToEnd(j, p, w, d)][2] = q
  <1>1. ToEnd(j, p, w, d) \in Ends  BY DEF Ends, ToEnd
  <1>2. CASE d = -1  BY <1>1, <1>2 DEF PeerOf, ToEnd, FromEnd, End, NextRank
  <1>3. CASE d = 1  BY <1>1, <1>3 DEF PeerOf, ToEnd, FromEnd, End, NextRank
  <1>4. QED  BY <1>1, <1>2, <1>3

(* all_reduce *)
LEMMA ReduceFits ==
    ASSUME NEW j \in Jobs, NEW p \in RanksOf(j), NEW c, NEW size \in Nat, NEW l \in 1..ReduceCount(j, size),
           NEW q, q = NextRank(j, p, ReduceDir(j, size, l))
    PROVE  Fits(ReduceLaneOf(j, p, c, size, l), ReduceLaneOf(j, q, c, size, l))
  <1>1. PICK off, n, d : off = ReduceOff(j, size, l) /\ n = ReduceLen(j, size, l) /\ d = ReduceDir(j, size, l)
    OBVIOUS
  <1>2. off \in Nat /\ n \in Nat \ {0} /\ l - 1 \in Nat  BY <1>1, ReducePartFacts
  <1>3. d \in {-1, 1}  BY <1>1, ReduceDirFacts
  <1>4. q \in RanksOf(j) /\ \A k \in Nat : Seat(j, q, d, k + 1) = Seat(j, p, d, k)
    BY <1>1, <1>3, SeatShift
  <1>5. ASSUME NEW r \in RanksOf(j) PROVE ReduceLaneOf(j, r, c, size, l).steps = ReduceSteps(j, r, c, l - 1, off, n, d)
    BY <1>1, <1>2, <1>3, ReduceLaneIs DEF ReduceLaneOf
  <1>6. ReduceLaneOf(j, p, c, size, l).steps = ReduceSteps(j, p, c, l - 1, off, n, d)  BY <1>5
  <1>7. ReduceLaneOf(j, q, c, size, l).steps = ReduceSteps(j, q, c, l - 1, off, n, d)  BY <1>5, <1>4
  <1>8. ASSUME NEW i \in 1..2 * Half(j, n)
        PROVE  LET s == ReduceStep(j, p, c, l - 1, off, n, d, i - 1)
                   u == ReduceStep(j, q, c, l - 1, off, n, d, i - 1)
               IN  DOMAIN s.send = DOMAIN u.recv /\ \A k \in DOMAIN s.send : s.send[k][3] = Target(u)[k][3]
    <2>1. PICK t \in Nat : t = i - 1  BY PacketFacts, <1>2
    <2>2. PICK K \in Nat, x \in Nat : K = t \div Packets(j, n) /\ x = t % Packets(j, n)
      BY StepPlace, <1>2, <1>3, <2>1
    <2>3. PICK g \in Nat : g = Seat(j, p, d, K) /\ g = Seat(j, q, d, K + 1)
      <3>1. K \in Int  BY <2>2
      <3>2. Seat(j, p, d, K) \in Nat  BY <1>3, <3>1, SeatFacts
      <3>3. Seat(j, q, d, K + 1) = Seat(j, p, d, K)  BY <1>4, <2>2
      <3>4. QED  BY <3>2, <3>3
    <2>4. PICK a \in Nat, b \in Nat : a = Lo(j, n, off, g, x) /\ b = Hi(j, n, off, g, x) /\ a <= b
      <3>1. /\ Lo(j, n, off, g, x) \in Nat /\ Hi(j, n, off, g, x) \in Nat
            /\ Lo(j, n, off, g, x) <= Hi(j, n, off, g, x)
        BY <1>2, <2>2, <2>3, PacketEdges
      <3>2. QED  BY <3>1
    <2>5. ReduceOut(j, p, c, off, n, d, t) = Cut(p, c, a, b)
      BY <2>2, <2>3, <2>4 DEF ReduceOut, PacketCut
    <2>6. ReduceIn(j, q, c, off, n, d, t) = Cut(q, c, a, b)
      BY <2>2, <2>3, <2>4 DEF ReduceIn, PacketCut
    <2> DEFINE z == b - a
    <2>7. /\ z \in Nat /\ DOMAIN Cut(p, c, a, b) = 1..z /\ DOMAIN Cut(q, c, a, b) = 1..z
          /\ Len(Cut(q, c, a, b)) = z /\ (z # 0 => Cut(q, c, a, b) # <<>>)
          /\ \A k \in 1..z : Cut(p, c, a, b)[k][3] = Cut(q, c, a, b)[k][3]
      BY <2>4, CutHas
    <2> HIDE DEF z
    <2>8. PICK s, u : s = ReduceStep(j, p, c, l - 1, off, n, d, t) /\ u = ReduceStep(j, q, c, l - 1, off, n, d, t)
      OBVIOUS
    <2>9. s.send = Cut(p, c, a, b)  BY <2>5, <2>8, ReduceStepIs
    <2>10. /\ u.recv = IF t < Half(j, n) THEN ReduceSlot(j, q, c, l - 1, off, n, d, t) ELSE Cut(q, c, a, b)
           /\ u.into = IF t < Half(j, n) THEN Cut(q, c, a, b) ELSE <<>>
      BY <2>6, <2>8, ReduceStepIs
    <2>11. DOMAIN u.recv = 1..z
      <3>1. PICK slot \in {0, 1} : slot = t % 2  BY <2>1
      <3>2. ReduceSlot(j, q, c, l - 1, off, n, d, t) = Buffer(q, l - 1, slot, z)
        BY <2>6, <2>7, <3>1 DEF ReduceSlot
      <3>3. DOMAIN Buffer(q, l - 1, slot, z) = 1..z
        <4>1. z \in Nat  BY <2>7
        <4>2. QED  BY <4>1, BufferHas
      <3>4. QED  BY <2>7, <2>10, <3>2, <3>3
    <2>12. 1..z = {} \/ Target(u) = Cut(q, c, a, b)
      <3>1. CASE t < Half(j, n)
        <4>1. u.into = Cut(q, c, a, b)  BY <2>10, <3>1
        <4>2. z = 0 => 1..z = {}  OBVIOUS
        <4>3. QED  BY <4>1, <4>2, <2>7 DEF Target
      <3>2. CASE ~(t < Half(j, n))  BY <2>10, <3>2 DEF Target
      <3>3. QED  BY <3>1, <3>2
    <2>13. QED  BY <2>1, <2>7, <2>8, <2>9, <2>11, <2>12
  <1>9. QED  BY <1>6, <1>7, <1>8 DEF Fits, ReduceSteps

(* all_gather *)
LEMMA GatherFits ==
    ASSUME NEW j \in Jobs, NEW p \in RanksOf(j), NEW c, NEW size \in Nat, NEW x \in 0..GatherCount(j, size) - 1,
           NEW q, q = NextRank(j, p, Direction(x))
    PROVE  Fits(GatherLane(j, p, c, size, x), GatherLane(j, q, c, size, x))
  <1>1. PICK d : d = Direction(x)  OBVIOUS
  <1>2. x \in Nat /\ d \in {-1, 1}  BY <1>1, GatherCellFacts, DirectionFacts
  <1>3. q \in RanksOf(j) /\ \A k \in Nat : Seat(j, q, d, k + 1) = Seat(j, p, d, k)
    BY <1>1, <1>2, SeatShift
  <1>4. \A r : GatherLane(j, r, c, size, x).steps = GatherSteps(j, r, c, size, x)
    BY DEF GatherLane, Lane
  <1>5. ASSUME NEW i \in 1..j.ranks - 1
        PROVE  LET s == GatherStep(j, p, c, size, x, i)
                   u == GatherStep(j, q, c, size, x, i)
               IN  DOMAIN s.send = DOMAIN u.recv /\ \A k \in DOMAIN s.send : s.send[k][3] = Target(u)[k][3]
    <2>1. PICK t \in Nat : t = i - 1 /\ t + 1 = i  BY JobFacts
    <2>2. PICK g : g = Seat(j, p, d, t)  OBVIOUS
    <2>3. g \in RanksOf(j) /\ g \in Nat
      <3>1. t \in Int  BY <2>1
      <3>2. QED  BY <2>2, <1>2, <3>1, SeatFacts
    <2>4. Seat(j, q, d, i) = g
      <3>1. Seat(j, q, d, t + 1) = Seat(j, p, d, t)  BY <1>3
      <3>2. QED  BY <2>1, <2>2, <3>1
    <2>5. PICK a, b : a = GatherLo(j, size, g, x) /\ b = GatherHi(j, size, g, x)  OBVIOUS
    <2>6. a \in Nat /\ b \in Nat /\ a <= b  BY <2>3, <2>5, GatherEdges
    <2>7. GatherStep(j, p, c, size, x, i).send = Cut(p, c, a, b)
      BY <1>1, <2>1, <2>2, <2>5 DEF GatherStep, GatherCut, Step
    <2>8. GatherStep(j, q, c, size, x, i).recv = Cut(q, c, a, b) /\ GatherStep(j, q, c, size, x, i).into = <<>>
      BY <1>1, <2>4, <2>5 DEF GatherStep, GatherCut, Step
    <2>9. Target(GatherStep(j, q, c, size, x, i)) = Cut(q, c, a, b)  BY <2>8 DEF Target
    <2> DEFINE z == b - a
    <2>10. /\ DOMAIN Cut(p, c, a, b) = 1..z /\ DOMAIN Cut(q, c, a, b) = 1..z
           /\ \A k \in 1..z : Cut(p, c, a, b)[k][3] = Cut(q, c, a, b)[k][3]
      BY <2>6, CutHas
    <2>11. QED  BY <2>7, <2>8, <2>9, <2>10
  <1>6. PICK L, M : L = GatherLane(j, p, c, size, x) /\ M = GatherLane(j, q, c, size, x)  OBVIOUS
  <1>7. /\ DOMAIN L.steps = 1..j.ranks - 1 /\ DOMAIN M.steps = 1..j.ranks - 1
        /\ \A i \in 1..j.ranks - 1 : L.steps[i] = GatherStep(j, p, c, size, x, i) /\ M.steps[i] = GatherStep(j, q, c, size, x, i)
    BY <1>4, <1>6 DEF GatherSteps
  <1>8. Fits(L, M)  BY <1>5, <1>7 DEF Fits
  <1>9. QED  BY <1>6, <1>8

(* send and recv *)
LEMMA PieceFits ==
    ASSUME NEW j \in Jobs, NEW p, NEW c, NEW it, it.size \in Nat, it.kind = "send",
           NEW q, NEW d, NEW other, other.size = it.size, other.kind = "recv", NEW l \in 1..PieceCount(j, it.size)
    PROVE  Fits(PieceLane(j, p, c, it, l), PieceLane(j, q, d, other, l))
  <1>1. PICK a, b : a = PieceLo(j, it.size, l) /\ b = PieceHi(j, it.size, l)  OBVIOUS
  <1>2. a \in Nat /\ b \in Nat /\ a <= b  BY <1>1, PieceEdges
  <1>3. PieceStep(j, p, c, it, l).send = Cut(p, c, a, b)  BY <1>1 DEF PieceStep, PieceCut, Step
  <1>4. PieceStep(j, q, d, other, l).recv = Cut(q, d, a, b) /\ PieceStep(j, q, d, other, l).into = <<>>
    BY <1>1 DEF PieceStep, PieceCut, Step
  <1>5. Target(PieceStep(j, q, d, other, l)) = Cut(q, d, a, b)  BY <1>4 DEF Target
  <1> DEFINE z == b - a
  <1>6. /\ DOMAIN Cut(p, c, a, b) = 1..z /\ DOMAIN Cut(q, d, a, b) = 1..z
        /\ \A k \in 1..z : Cut(p, c, a, b)[k][3] = Cut(q, d, a, b)[k][3]
    BY <1>2, CutHas
  <1>7. /\ PieceLane(j, p, c, it, l).steps = <<PieceStep(j, p, c, it, l)>>
        /\ PieceLane(j, q, d, other, l).steps = <<PieceStep(j, q, d, other, l)>>
    BY DEF PieceLane
  <1>8. PICK L, M : L = PieceLane(j, p, c, it, l) /\ M = PieceLane(j, q, d, other, l)  OBVIOUS
  <1>9. PICK s, u : s = PieceStep(j, p, c, it, l) /\ u = PieceStep(j, q, d, other, l)  OBVIOUS
  <1>10. /\ DOMAIN L.steps = {1} /\ DOMAIN M.steps = {1} /\ L.steps[1] = s /\ M.steps[1] = u
    BY <1>7, <1>8, <1>9
  <1>11. DOMAIN s.send = DOMAIN u.recv /\ \A k \in DOMAIN s.send : s.send[k][3] = Target(u)[k][3]
    BY <1>3, <1>4, <1>5, <1>6, <1>9
  <1>12. Fits(L, M)  BY <1>10, <1>11 DEF Fits
  <1>13. QED  BY <1>8, <1>12

LEMMA SidesMeet ==
    ASSUME NEW j \in Jobs, NEW p \in RanksOf(j), NEW it, it.kind = "send", NEW q \in RanksOf(j), it.peer = q,
           NEW other, other.kind = "recv", other.peer = p,
           it.peer \in {(p + 1) % j.ranks, (p + j.ranks - 1) % j.ranks}, NEW w \in 1..j.wires
    PROVE  PeerOf[PieceEnd(j, p, it, w)] = PieceEnd(j, q, other, w)
  <1>1. PICK right, left : right = (p + 1) % j.ranks /\ left = (p + j.ranks - 1) % j.ranks  OBVIOUS
  <1>2. \A side \in {"left", "right"} : End(j, p, side, w) \in Ends  BY DEF Ends
  <1>3. End(j, p, "right", w) \in Ends /\ End(j, p, "left", w) \in Ends  BY <1>2
  <1>4. /\ PeerOf[End(j, p, "right", w)] = End(j, right, "left", w)
        /\ PeerOf[End(j, p, "left", w)] = End(j, left, "right", w)
    BY <1>1, <1>3 DEF PeerOf, End
  <1>5. /\ PeerOf[End(j, right, "left", w)] = End(j, p, "right", w)
        /\ PeerOf[End(j, left, "right", w)] = End(j, p, "left", w)
    <2>1. End(j, p, "right", w)[1] = j.ranks /\ End(j, p, "left", w)[1] = j.ranks  BY DEF End
    <2>2. QED  BY <1>3, <1>4, <2>1, PeerFacts
  <1>6. CASE q = right
    <2>1. SideOf(j, p, it) = "right"  BY <1>1, <1>6 DEF SideOf
    <2>2. (q + j.ranks - 1) % j.ranks = p
      <3>1. /\ End(j, right, "left", w) \in Ends /\ End(j, right, "left", w)[1] = j.ranks
            /\ End(j, right, "left", w)[2] = right /\ End(j, right, "left", w)[3] = "left"
        BY <1>6, <1>4, <1>3 DEF End, Ends
      <3>2. PeerOf[End(j, right, "left", w)][2] = (right + j.ranks - 1) % j.ranks
        BY <3>1, PeerFacts
      <3>3. QED  BY <1>5, <1>6, <3>2 DEF End
    <2>3. SideOf(j, q, other) = "left"  BY <2>2 DEF SideOf
    <2>4. QED  BY <2>1, <2>3, <1>4, <1>6 DEF PieceEnd
  <1>7. CASE q # right
    <2>1. q = left  BY <1>1, <1>7
    <2>2. SideOf(j, p, it) = "left"  BY <1>1, <1>7 DEF SideOf
    <2>3. (q + j.ranks - 1) % j.ranks # p
      <3>1. PICK R : R = j.ranks  OBVIOUS
      <3>2. R \in Nat \ {0} /\ R >= 2 /\ p \in 0..R - 1 /\ q \in 0..R - 1
        BY <3>1, JobFacts DEF RanksOf
      <3>3. SUFFICES ASSUME (q + R - 1) % R = p PROVE q = right  BY <1>7, <3>1
      <3>4. PICK a \in Int : a = q + R - 1  BY <3>2
      <3>5. ((a % R) + 1) % R = (a + 1) % R
        <4>1. PICK b \in Int : b = 1  OBVIOUS
        <4>2. ((a % R) + b) % R = (a + b) % R  BY <3>2, ModAdd
        <4>3. QED  BY <4>1, <4>2
      <3>6. a + 1 = q + R  BY <3>2, <3>4
      <3>7. (q + R) % R = q  BY <3>2, ModSmall
      <3>8. QED  BY <3>1, <3>3, <3>4, <3>5, <3>6, <3>7, <1>1
    <2>4. SideOf(j, q, other) = "right"  BY <2>3 DEF SideOf
    <2>5. QED  BY <2>1, <2>2, <2>4, <1>4 DEF PieceEnd
  <1>8. QED  BY <1>6, <1>7

LEMMA ReduceCall ==
    ASSUME NEW j \in Jobs, NEW r \in RanksOf(j), NEW c \in DOMAIN j.calls[r], j.calls[r][c].kind = "all_reduce",
           NEW size, size = j.calls[r][c].size
    PROVE  /\ size \in Nat /\ DOMAIN Lanes(j, r, c) = 1..ReduceCount(j, size)
           /\ \A l \in 1..ReduceCount(j, size) : Lanes(j, r, c)[l] = ReduceLaneOf(j, r, c, size, l)
  <1>1. size \in Nat  BY CallFacts
  <1>2. Lanes(j, r, c) = ReduceLanes(j, r, c, size)  BY DEF Lanes
  <1>3. ReduceLanes(j, r, c, size) = [l \in 1..ReduceCount(j, size) |-> ReduceLaneOf(j, r, c, size, l)]
    BY <1>1, ReduceLanesAre
  <1>4. QED  BY <1>1, <1>2, <1>3

LEMMA GatherCall ==
    ASSUME NEW j \in Jobs, NEW r \in RanksOf(j), NEW c \in DOMAIN j.calls[r], j.calls[r][c].kind = "all_gather",
           NEW size, size = j.calls[r][c].size
    PROVE  /\ size \in Nat /\ DOMAIN Lanes(j, r, c) = 1..GatherCount(j, size)
           /\ \A l \in 1..GatherCount(j, size) : Lanes(j, r, c)[l] = GatherLane(j, r, c, size, l - 1)
  <1>1. size \in Nat  BY CallFacts
  <1>2. Lanes(j, r, c) = GatherLanes(j, r, c, size)  BY DEF Lanes
  <1>3. GatherLanes(j, r, c, size) = [l \in 1..GatherCount(j, size) |-> GatherLane(j, r, c, size, l - 1)]
    BY <1>1, GatherLanesAre
  <1>4. QED  BY <1>1, <1>2, <1>3

LEMMA PieceLanesHave ==
    ASSUME NEW j \in Jobs, NEW r, NEW c, NEW it, it.size \in Nat
    PROVE  /\ DOMAIN PieceLanes(j, r, c, it) = 1..PieceCount(j, it.size)
           /\ \A l \in 1..PieceCount(j, it.size) : PieceLanes(j, r, c, it)[l] = PieceLane(j, r, c, it, l)
  <1>1. PieceLanes(j, r, c, it) = [l \in 1..PieceCount(j, it.size) |-> PieceLane(j, r, c, it, l)]
    BY PieceLanesAre
  <1>2. QED  BY <1>1

LEMMA PieceCall ==
    ASSUME NEW j \in Jobs, NEW r \in RanksOf(j), NEW c \in DOMAIN j.calls[r], j.calls[r][c].kind \in {"send", "recv"},
           NEW it, it = j.calls[r][c]
    PROVE  /\ it.size \in Nat /\ DOMAIN Lanes(j, r, c) = 1..PieceCount(j, it.size)
           /\ \A l \in 1..PieceCount(j, it.size) : Lanes(j, r, c)[l] = PieceLane(j, r, c, it, l)
           /\ it.peer \in RanksOf(j) /\ it.peer \in {(r + 1) % j.ranks, (r + j.ranks - 1) % j.ranks}
  <1>1. it.size \in Nat /\ it.peer \in {(r + 1) % j.ranks, (r + j.ranks - 1) % j.ranks}
    BY CallFacts
  <1>2. Lanes(j, r, c) = PieceLanes(j, r, c, it)  BY DEF Lanes
  <1>3. /\ DOMAIN PieceLanes(j, r, c, it) = 1..PieceCount(j, it.size)
        /\ \A l \in 1..PieceCount(j, it.size) : PieceLanes(j, r, c, it)[l] = PieceLane(j, r, c, it, l)
    BY <1>1, PieceLanesHave
  <1>4. PICK R, m : R = j.ranks /\ m = R - 1  OBVIOUS
  <1>5. R \in Nat \ {0} /\ r \in Int /\ r + 1 \in Int /\ r + R - 1 \in Int
    BY <1>4, JobFacts DEF RanksOf
  <1>6. (r + 1) % R \in 0..R - 1 /\ (r + R - 1) % R \in 0..R - 1  BY <1>5, ModRange
  <1>7. it.peer \in RanksOf(j)  BY <1>1, <1>4, <1>6 DEF RanksOf
  <1>8. QED  BY <1>1, <1>2, <1>3, <1>7

LEMMA ReduceMeets ==
    ASSUME AllMatched, NEW j \in Jobs, NEW p \in RanksOf(j), NEW c \in DOMAIN j.calls[p],
           j.calls[p][c].kind = "all_reduce", NEW l \in DOMAIN Lanes(j, p, c),
           NEW size, size = j.calls[p][c].size, NEW q, q = NextRank(j, p, ReduceDir(j, size, l))
    PROVE  q \in RanksOf(j) /\ Meets(j, p, c, q, c, l)
  <1>2. /\ size \in Nat /\ DOMAIN Lanes(j, p, c) = 1..ReduceCount(j, size)
        /\ Lanes(j, p, c)[l] = ReduceLaneOf(j, p, c, size, l)
    <2>1. /\ size \in Nat /\ DOMAIN Lanes(j, p, c) = 1..ReduceCount(j, size)
          /\ \A x \in 1..ReduceCount(j, size) : Lanes(j, p, c)[x] = ReduceLaneOf(j, p, c, size, x)
      BY ReduceCall
    <2>2. QED  BY <2>1
  <1>3. PICK d, w : d = ReduceDir(j, size, l) /\ w = WireOfLane(l - 1)  OBVIOUS
  <1>4. l \in 1..ReduceCount(j, size)  BY <1>2
  <1>5. d \in {-1, 1}  BY <1>2, <1>3, <1>4, ReduceDirFacts
  <1>6. l - 1 \in Nat /\ l - 1 < 2 * j.wires  BY <1>2, <1>4, ReducePartFacts
  <1>7. w \in 1..j.wires  BY <1>3, <1>6, WireFacts
  <1>8. ASSUME NEW r \in RanksOf(j)
        PROVE  /\ ReduceLaneOf(j, r, c, size, l).to = ToEnd(j, r, w, d)
               /\ ReduceLaneOf(j, r, c, size, l).from = FromEnd(j, r, w, d)
    BY <1>2, <1>3, <1>4, ReduceLaneOfFacts
  <1>9. q = NextRank(j, p, d)  BY <1>3
  <1>10. q \in RanksOf(j)
    <2>1. PICK k \in Nat : k = 0  OBVIOUS
    <2>2. QED  BY <1>5, <1>9, <2>1, SeatShift
  <1>11. PeerOf[ToEnd(j, p, w, d)] = FromEnd(j, q, w, d)
    BY <1>5, <1>7, <1>9, NeighbourEnds
  <1>13. j.calls[p][c].kind \in Collectives  BY DEF Collectives
  <1>14. /\ c \in DOMAIN j.calls[q] /\ j.calls[q][c].kind = "all_reduce"
         /\ j.calls[q][c].size = size /\ Round(j)[q][c] = Round(j)[p][c]
    BY <1>10, <1>13, CollectiveCalls
  <1>16. /\ DOMAIN Lanes(j, q, c) = 1..ReduceCount(j, size)
         /\ Lanes(j, q, c)[l] = ReduceLaneOf(j, q, c, size, l)
    BY <1>4, <1>14, <1>10, ReduceCall
  <1>17. Fits(Lanes(j, p, c)[l], Lanes(j, q, c)[l])
    <2>1. Fits(ReduceLaneOf(j, p, c, size, l), ReduceLaneOf(j, q, c, size, l))
      BY <1>2, <1>3, <1>4, <1>9, ReduceFits
    <2>2. QED  BY <2>1, <1>2, <1>16
  <1>18. Lanes(j, q, c)[l].from = PeerOf[Lanes(j, p, c)[l].to]  BY <1>2, <1>8, <1>11, <1>10, <1>16
  <1>19. QED  BY <1>2, <1>4, <1>14, <1>10, <1>16, <1>17, <1>18 DEF Meets

LEMMA GatherMeets ==
    ASSUME AllMatched, NEW j \in Jobs, NEW p \in RanksOf(j), NEW c \in DOMAIN j.calls[p],
           j.calls[p][c].kind = "all_gather", NEW l \in DOMAIN Lanes(j, p, c),
           NEW size, size = j.calls[p][c].size, NEW q, q = NextRank(j, p, Direction(l - 1))
    PROVE  q \in RanksOf(j) /\ Meets(j, p, c, q, c, l)
  <1>2. /\ size \in Nat /\ DOMAIN Lanes(j, p, c) = 1..GatherCount(j, size)
        /\ Lanes(j, p, c)[l] = GatherLane(j, p, c, size, l - 1)
    <2>1. /\ size \in Nat /\ DOMAIN Lanes(j, p, c) = 1..GatherCount(j, size)
          /\ \A x \in 1..GatherCount(j, size) : Lanes(j, p, c)[x] = GatherLane(j, p, c, size, x - 1)
      BY GatherCall
    <2>2. QED  BY <2>1
  <1>3. PICK y : y = l - 1  OBVIOUS
  <1>4. y \in 0..GatherCount(j, size) - 1 /\ l \in 1..GatherCount(j, size)
    <2>1. PICK z : z = GatherCount(j, size)  OBVIOUS
    <2>2. z \in Nat \ {0} /\ l \in 1..z  BY <1>2, <2>1, GatherParts
    <2>3. QED  BY <1>3, <2>1, <2>2
  <1>5. y \in Nat /\ y < 2 * j.wires  BY <1>2, <1>4, GatherCellFacts
  <1>6. PICK d, w : d = Direction(y) /\ w = WireOfLane(y)  OBVIOUS
  <1>7. d \in {-1, 1} /\ w \in 1..j.wires  BY <1>5, <1>6, DirectionFacts, WireFacts
  <1>8. \A r : GatherLane(j, r, c, size, y).to = ToEnd(j, r, w, d) /\ GatherLane(j, r, c, size, y).from = FromEnd(j, r, w, d)
    BY <1>6 DEF GatherLane, Lane, ToEnd, FromEnd
  <1>9. q = NextRank(j, p, d)  BY <1>3, <1>6
  <1>10. q \in RanksOf(j)
    <2>1. PICK k \in Nat : k = 0  OBVIOUS
    <2>2. QED  BY <1>7, <1>9, <2>1, SeatShift
  <1>11. PeerOf[ToEnd(j, p, w, d)] = FromEnd(j, q, w, d)
    BY <1>7, <1>9, NeighbourEnds
  <1>13. j.calls[p][c].kind \in Collectives  BY DEF Collectives
  <1>14. /\ c \in DOMAIN j.calls[q] /\ j.calls[q][c].kind = "all_gather"
         /\ j.calls[q][c].size = size /\ Round(j)[q][c] = Round(j)[p][c]
    BY <1>10, <1>13, CollectiveCalls
  <1>16. /\ DOMAIN Lanes(j, q, c) = 1..GatherCount(j, size)
         /\ Lanes(j, q, c)[l] = GatherLane(j, q, c, size, y)
    BY <1>3, <1>4, <1>14, <1>10, GatherCall
  <1>17. Fits(Lanes(j, p, c)[l], Lanes(j, q, c)[l])
    <2>1. Fits(GatherLane(j, p, c, size, y), GatherLane(j, q, c, size, y))
      BY <1>2, <1>4, <1>6, <1>9, GatherFits
    <2>2. QED  BY <2>1, <1>2, <1>3, <1>16
  <1>18. Lanes(j, q, c)[l].from = PeerOf[Lanes(j, p, c)[l].to]  BY <1>2, <1>3, <1>8, <1>11, <1>16
  <1>19. QED  BY <1>2, <1>4, <1>14, <1>10, <1>16, <1>17, <1>18 DEF Meets

LEMMA PieceMeets ==
    ASSUME AllMatched, NEW j \in Jobs, NEW p \in RanksOf(j), NEW c \in DOMAIN j.calls[p],
           j.calls[p][c].kind = "send", NEW l \in DOMAIN Lanes(j, p, c),
           NEW q, q = j.calls[p][c].peer, NEW d \in DOMAIN j.calls[q], Answers(j, Round(j), p, c, q, d)
    PROVE  q \in RanksOf(j) /\ Meets(j, p, c, q, d, l)
  <1>1. PICK it, other : it = j.calls[p][c] /\ other = j.calls[q][d]  OBVIOUS
  <1>2. /\ it.size \in Nat /\ DOMAIN Lanes(j, p, c) = 1..PieceCount(j, it.size)
        /\ Lanes(j, p, c)[l] = PieceLane(j, p, c, it, l)
        /\ q \in RanksOf(j) /\ q \in {(p + 1) % j.ranks, (p + j.ranks - 1) % j.ranks}
    <2>1. j.calls[p][c].kind \in {"send", "recv"}  OBVIOUS
    <2>2. /\ it.size \in Nat /\ DOMAIN Lanes(j, p, c) = 1..PieceCount(j, it.size)
          /\ \A x \in 1..PieceCount(j, it.size) : Lanes(j, p, c)[x] = PieceLane(j, p, c, it, x)
          /\ it.peer \in RanksOf(j) /\ it.peer \in {(p + 1) % j.ranks, (p + j.ranks - 1) % j.ranks}
      BY <1>1, <2>1, PieceCall
    <2>3. QED  BY <1>1, <2>2
  <1>3. /\ other.kind = "recv" /\ other.peer = p /\ other.size = it.size /\ Round(j)[p][c] = Round(j)[q][d]
    <2>1. {it.kind, other.kind} = {"send", "recv"}  BY <1>1 DEF Answers
    <2>2. other.kind = "recv"  BY <1>1, <2>1
    <2>3. QED  BY <1>1, <2>2 DEF Answers
  <1>4. /\ DOMAIN Lanes(j, q, d) = 1..PieceCount(j, it.size) /\ Lanes(j, q, d)[l] = PieceLane(j, q, d, other, l)
    <2>1. other.kind \in {"send", "recv"}  BY <1>3
    <2>2. QED  BY <1>1, <1>2, <1>3, <2>1, PieceCall
  <1>5. l \in 1..PieceCount(j, it.size) /\ l \in 1..j.wires  BY <1>2, PieceEdges
  <1>6. PeerOf[PieceEnd(j, p, it, l)] = PieceEnd(j, q, other, l)
    BY <1>1, <1>2, <1>3, <1>5, SidesMeet
  <1>7. Fits(PieceLane(j, p, c, it, l), PieceLane(j, q, d, other, l))
    BY <1>1, <1>2, <1>3, <1>5, PieceFits
  <1>8. /\ Lanes(j, p, c)[l].to = PieceEnd(j, p, it, l) /\ Lanes(j, q, d)[l].from = PieceEnd(j, q, other, l)
    BY <1>2, <1>4 DEF PieceLane
  <1>9. QED  BY <1>2, <1>3, <1>4, <1>5, <1>6, <1>7, <1>8 DEF Meets

LEMMA PreviousRank ==
    ASSUME NEW j \in Jobs, NEW q \in RanksOf(j), NEW d \in {-1, 1}
    PROVE  \E p \in RanksOf(j) : NextRank(j, p, d) = q
  <1>1. PICK R, m : R = j.ranks /\ m = R - 1  OBVIOUS
  <1>2. R \in Nat \ {0} /\ R >= 2 /\ q \in 0..R - 1 /\ m \in Int /\ RanksOf(j) = 0..R - 1
    BY <1>1, JobFacts DEF RanksOf
  <1>3. PICK one \in Int : one = 1  OBVIOUS
  <1>4. (q + R) % R = q  BY <1>2, ModSmall
  <1>5. CASE d = -1
    <2>1. PICK a \in Int : a = q + m  BY <1>2
    <2>2. ((a % R) + one) % R = (a + one) % R  BY <1>2, <1>3, ModAdd
    <2>3. a % R \in 0..R - 1  BY <1>2, ModRange
    <2>4. a + one = q + R  BY <1>1, <1>2, <1>3, <2>1
    <2>5. NextRank(j, a % R, d) = ((a % R) + 1) % R  BY <1>1, <1>5 DEF NextRank
    <2>6. QED  BY <1>2, <1>3, <1>4, <2>2, <2>3, <2>4, <2>5
  <1>6. CASE d = 1
    <2>1. PICK a \in Int : a = q + 1  BY <1>2
    <2>2. ((a % R) + m) % R = (a + m) % R  BY <1>2, <1>3, ModAdd
    <2>3. a % R \in 0..R - 1  BY <1>2, ModRange
    <2>4. a + m = q + R  BY <1>1, <1>2, <2>1
    <2>5. NextRank(j, a % R, d) = ((a % R) + R - 1) % R  BY <1>1, <1>6 DEF NextRank
    <2>6. (a % R) + m = (a % R) + R - 1  BY <1>1, <1>2, <2>3
    <2>7. QED  BY <1>2, <1>4, <2>2, <2>3, <2>4, <2>5, <2>6
  <1>7. QED  BY <1>5, <1>6

(* Whom lane l of call c of rank p sends to: call d of rank q. *)
Partner(j, p, c, l, q, d) ==
    LET it == j.calls[p][c]
    IN  /\ it.kind = "all_reduce" => d = c /\ q = NextRank(j, p, ReduceDir(j, it.size, l))
        /\ it.kind = "all_gather" => d = c /\ q = NextRank(j, p, Direction(l - 1))
        /\ it.kind = "send" => q = it.peer /\ Answers(j, Round(j), p, c, q, d)

LEMMA SentMeets ==
    ASSUME AllMatched, NEW j \in Jobs, NEW p \in RanksOf(j), NEW c \in DOMAIN j.calls[p],
           j.calls[p][c].kind # "recv", NEW l \in DOMAIN Lanes(j, p, c)
    PROVE  \E q \in RanksOf(j) : \E d : Meets(j, p, c, q, d, l) /\ Partner(j, p, c, l, q, d)
  <1>1. PICK kind, size : kind = j.calls[p][c].kind /\ size = j.calls[p][c].size  OBVIOUS
  <1>2. kind \in {"all_reduce", "all_gather", "send"}
    <2>1. kind \in {"all_reduce", "all_gather", "send", "recv"}  BY <1>1, CallFacts
    <2>2. QED  BY <1>1, <2>1
  <1>3. CASE kind = "all_reduce"
    <2>1. PICK q : q = NextRank(j, p, ReduceDir(j, size, l))  OBVIOUS
    <2>2. q \in RanksOf(j) /\ Meets(j, p, c, q, c, l)  BY <1>1, <1>3, <2>1, ReduceMeets
    <2>3. Partner(j, p, c, l, q, c)  BY <1>1, <1>3, <2>1 DEF Partner
    <2>4. QED  BY <2>2, <2>3
  <1>4. CASE kind = "all_gather"
    <2>1. PICK q : q = NextRank(j, p, Direction(l - 1))  OBVIOUS
    <2>2. q \in RanksOf(j) /\ Meets(j, p, c, q, c, l)  BY <1>1, <1>4, <2>1, GatherMeets
    <2>3. Partner(j, p, c, l, q, c)  BY <1>1, <1>4, <2>1 DEF Partner
    <2>4. QED  BY <2>2, <2>3
  <1>5. CASE kind = "send"
    <2>1. j.calls[p][c].kind \notin Collectives  BY <1>1, <1>5 DEF Collectives
    <2>2. PICK q : q = j.calls[p][c].peer  OBVIOUS
    <2>3. PICK d \in DOMAIN j.calls[q] : Answers(j, Round(j), p, c, q, d)
      BY <2>1, <2>2, CallAnswered
    <2>4. j.calls[p][c].kind = "send"  BY <1>1, <1>5
    <2>5. q \in RanksOf(j) /\ Meets(j, p, c, q, d, l)  BY <2>2, <2>3, <2>4, PieceMeets
    <2>6. Partner(j, p, c, l, q, d)  BY <2>2, <2>3, <2>4 DEF Partner
    <2>7. QED  BY <2>5, <2>6
  <1>6. QED  BY <1>2, <1>3, <1>4, <1>5

LEMMA ReceivedMeets ==
    ASSUME AllMatched, NEW j \in Jobs, NEW q \in RanksOf(j), NEW d \in DOMAIN j.calls[q],
           j.calls[q][d].kind # "send", NEW l \in DOMAIN Lanes(j, q, d)
    PROVE  \E p \in RanksOf(j) : \E c : Meets(j, p, c, q, d, l)
  <1>1. PICK kind, size : kind = j.calls[q][d].kind /\ size = j.calls[q][d].size  OBVIOUS
  <1>2. kind \in {"all_reduce", "all_gather", "recv"}
    <2>1. kind \in {"all_reduce", "all_gather", "send", "recv"}  BY <1>1, CallFacts
    <2>2. QED  BY <1>1, <2>1
  <1>3. CASE kind = "all_reduce"
    <2>1. size \in Nat /\ DOMAIN Lanes(j, q, d) = 1..ReduceCount(j, size)
      <3>1. j.calls[q][d].kind = "all_reduce"  BY <1>1, <1>3
      <3>2. QED  BY <1>1, <3>1, ReduceCall
    <2>2. ReduceDir(j, size, l) \in {-1, 1}  BY <2>1, ReduceDirFacts
    <2>3. PICK p \in RanksOf(j) : NextRank(j, p, ReduceDir(j, size, l)) = q  BY <2>2, PreviousRank
    <2>4. j.calls[q][d].kind \in Collectives  BY <1>1, <1>3 DEF Collectives
    <2>5. d \in DOMAIN j.calls[p] /\ j.calls[p][d].kind = "all_reduce" /\ j.calls[p][d].size = size
      BY <1>1, <1>3, <2>4, CollectiveCalls
    <2>6. DOMAIN Lanes(j, p, d) = 1..ReduceCount(j, size)  BY <2>5, ReduceCall
    <2>7. l \in DOMAIN Lanes(j, p, d)  BY <2>1, <2>6
    <2>8. Meets(j, p, d, q, d, l)  BY <2>3, <2>5, <2>7, ReduceMeets
    <2>9. QED  BY <2>8
  <1>4. CASE kind = "all_gather"
    <2>1. size \in Nat /\ DOMAIN Lanes(j, q, d) = 1..GatherCount(j, size)
      <3>1. j.calls[q][d].kind = "all_gather"  BY <1>1, <1>4
      <3>2. QED  BY <1>1, <3>1, GatherCall
    <2>2. Direction(l - 1) \in {-1, 1}
      <3>1. PICK z : z = GatherCount(j, size)  OBVIOUS
      <3>2. z \in Nat \ {0} /\ l \in 1..z  BY <2>1, <3>1, GatherParts
      <3>3. PICK x \in Nat : x = l - 1  BY <3>2
      <3>4. QED  BY <3>3, DirectionFacts
    <2>3. PICK p \in RanksOf(j) : NextRank(j, p, Direction(l - 1)) = q  BY <2>2, PreviousRank
    <2>4. j.calls[q][d].kind \in Collectives  BY <1>1, <1>4 DEF Collectives
    <2>5. d \in DOMAIN j.calls[p] /\ j.calls[p][d].kind = "all_gather" /\ j.calls[p][d].size = size
      BY <1>1, <1>4, <2>4, CollectiveCalls
    <2>6. DOMAIN Lanes(j, p, d) = 1..GatherCount(j, size)  BY <2>5, GatherCall
    <2>7. l \in DOMAIN Lanes(j, p, d)  BY <2>1, <2>6
    <2>8. Meets(j, p, d, q, d, l)  BY <2>3, <2>5, <2>7, GatherMeets
    <2>9. QED  BY <2>8
  <1>5. CASE kind = "recv"
    <2>1. PICK it : it = j.calls[q][d]  OBVIOUS
    <2>2. it.kind = "recv"  BY <1>1, <1>5, <2>1
    <2>3. it.kind \notin Collectives  BY <2>2 DEF Collectives
    <2>4. PICK p : p = it.peer  OBVIOUS
    <2>5. PICK c \in DOMAIN j.calls[p] : Answers(j, Round(j), q, d, p, c)
      BY <2>1, <2>3, <2>4, CallAnswered
    <2>6. Answers(j, Round(j), p, c, q, d)  BY <2>5, AnswersBack
    <2>7. /\ it.size \in Nat /\ DOMAIN Lanes(j, q, d) = 1..PieceCount(j, it.size) /\ p \in RanksOf(j)
      <3>1. j.calls[q][d].kind \in {"send", "recv"}  BY <2>1, <2>2
      <3>2. QED  BY <2>1, <2>4, <3>1, PieceCall
    <2>8. PICK other : other = j.calls[p][c]  OBVIOUS
    <2>9. other.kind = "send" /\ other.size = it.size /\ other.peer = q
      <3>1. {other.kind, it.kind} = {"send", "recv"}  BY <2>1, <2>6, <2>8 DEF Answers
      <3>2. other.kind = "send"  BY <2>2, <3>1
      <3>3. QED  BY <2>1, <2>6, <2>8, <3>2 DEF Answers
    <2>10. DOMAIN Lanes(j, p, c) = 1..PieceCount(j, it.size)
      <3>1. other.kind \in {"send", "recv"}  BY <2>9
      <3>2. QED  BY <2>5, <2>7, <2>8, <2>9, <3>1, PieceCall
    <2>11. l \in DOMAIN Lanes(j, p, c)  BY <2>7, <2>10
    <2>12. j.calls[p][c].kind = "send" /\ q = j.calls[p][c].peer  BY <2>8, <2>9
    <2>13. Meets(j, p, c, q, d, l)  BY <2>5, <2>6, <2>7, <2>11, <2>12, PieceMeets
    <2>14. QED  BY <2>7, <2>13
  <1>6. QED  BY <1>2, <1>3, <1>4, <1>5

LEMMA PieceSteps ==
    ASSUME NEW j \in Jobs, NEW r \in RanksOf(j), NEW c \in DOMAIN j.calls[r], j.calls[r][c].kind \in {"send", "recv"},
           NEW l \in DOMAIN Lanes(j, r, c), NEW L, L = Lanes(j, r, c)[l], NEW it, it = j.calls[r][c]
    PROVE  /\ DOMAIN L.steps = {1} /\ L.steps[1].into = <<>> /\ L.lag = 0
           /\ it.kind = "send" => L.steps[1].send = PieceCut(j, r, c, it.size, l) /\ L.steps[1].recv = <<>>
           /\ it.kind = "recv" => L.steps[1].recv = PieceCut(j, r, c, it.size, l) /\ L.steps[1].send = <<>>
           /\ l \in 1..PieceCount(j, it.size) /\ it.size \in Nat
           /\ L.to = PieceEnd(j, r, it, l) /\ L.from = PieceEnd(j, r, it, l)
  <1>1. /\ it.size \in Nat /\ DOMAIN Lanes(j, r, c) = 1..PieceCount(j, it.size)
        /\ \A x \in 1..PieceCount(j, it.size) : Lanes(j, r, c)[x] = PieceLane(j, r, c, it, x)
    BY PieceCall
  <1>2. l \in 1..PieceCount(j, it.size) /\ L = PieceLane(j, r, c, it, l)  BY <1>1
  <1>3. /\ L.steps = <<PieceStep(j, r, c, it, l)>> /\ L.lag = 0
        /\ L.to = PieceEnd(j, r, it, l) /\ L.from = PieceEnd(j, r, it, l)
    BY <1>2 DEF PieceLane
  <1>4. PICK s : s = PieceStep(j, r, c, it, l)  OBVIOUS
  <1>5. DOMAIN L.steps = {1} /\ L.steps[1] = s  BY <1>3, <1>4
  <1>6. s.into = <<>>  BY <1>4 DEF PieceStep, Step
  <1>7. it.kind = "send" => s.send = PieceCut(j, r, c, it.size, l) /\ s.recv = <<>>
    BY <1>4 DEF PieceStep, Step
  <1>8. it.kind = "recv" => s.recv = PieceCut(j, r, c, it.size, l) /\ s.send = <<>>
    BY <1>4 DEF PieceStep, Step
  <1>9. QED  BY <1>1, <1>2, <1>3, <1>5, <1>6, <1>7, <1>8

(* A send only sends, a recv only receives. *)
LEMMA MovesKind ==
    ASSUME NEW j \in Jobs, NEW d \in Ways, NEW e \in Ends, e[1] = j.ranks, e[2] \in RanksOf(j),
           NEW c, NEW l, NEW t, Moves(j, d, e, c, l, t)
    PROVE  /\ c \in DOMAIN j.calls[e[2]] /\ l \in DOMAIN Lanes(j, e[2], c)
           /\ EndOf(d, Lanes(j, e[2], c)[l]) = e /\ t.round = Round(j)[e[2]][c]
           /\ j.calls[e[2]][c].kind \in Collectives \/ j.calls[e[2]][c].kind = d
  <1>1. PICK r : r = e[2]  OBVIOUS
  <1>2. PICK L : L = Lanes(j, r, c)[l]  OBVIOUS
  <1>3. /\ c \in DOMAIN j.calls[r] /\ l \in DOMAIN Lanes(j, r, c) /\ EndOf(d, L) = e /\ t.round = Round(j)[r][c]
        /\ t.step \in DOMAIN L.steps /\ t.cell \in DOMAIN MovedBy(d, L.steps[t.step])
    BY <1>1, <1>2 DEF Moves
  <1>4. PICK kind : kind = j.calls[r][c].kind  OBVIOUS
  <1>5. kind \in {"all_reduce", "all_gather", "send", "recv"}  BY <1>1, <1>3, <1>4, CallFacts
  <1>6. d = "send" \/ d = "recv"  BY DEF Ways
  <1>7. kind \in {"send", "recv"} => kind = d
    <2>1. SUFFICES ASSUME kind \in {"send", "recv"}, kind # d PROVE FALSE  OBVIOUS
    <2>2. PICK it : it = j.calls[r][c]  OBVIOUS
    <2>3. /\ DOMAIN L.steps = {1}
          /\ it.kind = "send" => L.steps[1].recv = <<>>
          /\ it.kind = "recv" => L.steps[1].send = <<>>
      <3>1. j.calls[r][c].kind \in {"send", "recv"}  BY <1>4, <2>1
      <3>2. r \in RanksOf(j)  BY <1>1
      <3>3. QED  BY <1>2, <1>3, <2>2, <3>1, <3>2, PieceSteps
    <2>4. t.step = 1  BY <1>3, <2>3
    <2>5. MovedBy(d, L.steps[1]) = <<>>
      <3>1. CASE d = "send"  BY <3>1, <1>4, <2>1, <2>2, <2>3 DEF MovedBy
      <3>2. CASE d = "recv"  BY <3>2, <1>4, <2>1, <2>2, <2>3 DEF MovedBy
      <3>3. QED  BY <3>1, <3>2, <1>6
    <2>6. QED  BY <1>3, <2>4, <2>5
  <1>8. kind \in Collectives \/ kind = d  BY <1>5, <1>7 DEF Collectives
  <1>9. QED  BY <1>1, <1>2, <1>3, <1>4, <1>8

LEMMA MovesInOrder ==
    ASSUME AllMatched, NEW j \in Jobs, NEW d \in Ways, NEW e \in Ends, e[1] = j.ranks, e[2] \in RanksOf(j),
           NEW c, NEW l, NEW t, Moves(j, d, e, c, l, t),
           NEW x, NEW m, NEW u, Moves(j, d, e, x, m, u), c < x
    PROVE  t.round < u.round
  <1>1. PICK r : r = e[2]  OBVIOUS
  <1>2. PICK it, other : it = j.calls[r][c] /\ other = j.calls[r][x]  OBVIOUS
  <1>3. /\ c \in DOMAIN j.calls[r] /\ l \in DOMAIN Lanes(j, r, c) /\ EndOf(d, Lanes(j, r, c)[l]) = e
        /\ t.round = Round(j)[r][c] /\ (it.kind \in Collectives \/ it.kind = d)
    BY <1>1, <1>2, MovesKind
  <1>4. /\ x \in DOMAIN j.calls[r] /\ m \in DOMAIN Lanes(j, r, x) /\ EndOf(d, Lanes(j, r, x)[m]) = e
        /\ u.round = Round(j)[r][x] /\ (other.kind \in Collectives \/ other.kind = d)
    BY <1>1, <1>2, MovesKind
  <1>5. \/ it.kind \in Collectives \/ other.kind \in Collectives
        \/ it.kind = other.kind /\ it.peer = other.peer
    <2>1. SUFFICES ASSUME it.kind \notin Collectives, other.kind \notin Collectives
                   PROVE  it.kind = other.kind /\ it.peer = other.peer
      OBVIOUS
    <2>2. it.kind = d /\ other.kind = d  BY <1>3, <1>4, <2>1
    <2>3. d \in {"send", "recv"}  BY DEF Ways
    <2>4. ASSUME NEW y \in DOMAIN j.calls[r], NEW n \in DOMAIN Lanes(j, r, y), j.calls[r][y].kind = d,
                 EndOf(d, Lanes(j, r, y)[n]) = e
          PROVE  /\ SideOf(j, r, j.calls[r][y]) = e[3]
                 /\ j.calls[r][y].peer \in {(r + 1) % j.ranks, (r + j.ranks - 1) % j.ranks}
      <3>1. PICK a, L : a = j.calls[r][y] /\ L = Lanes(j, r, y)[n]  OBVIOUS
      <3>2. j.calls[r][y].kind \in {"send", "recv"}  BY <2>3, <2>4
      <3>3. r \in RanksOf(j)  BY <1>1
      <3>4. L.to = PieceEnd(j, r, a, n) /\ L.from = PieceEnd(j, r, a, n)
        BY <3>1, <3>2, <3>3, PieceSteps
      <3>5. e = PieceEnd(j, r, a, n)  BY <2>4, <3>1, <3>4 DEF EndOf
      <3>6. SideOf(j, r, a) = e[3]  BY <3>5 DEF PieceEnd, End
      <3>7. a.peer \in {(r + 1) % j.ranks, (r + j.ranks - 1) % j.ranks}
        BY <3>1, <3>2, <3>3, PieceCall
      <3>8. QED  BY <3>1, <3>6, <3>7
    <2>5. SideOf(j, r, it) = e[3] /\ it.peer \in {(r + 1) % j.ranks, (r + j.ranks - 1) % j.ranks}
      BY <1>2, <1>3, <2>2, <2>4
    <2>6. SideOf(j, r, other) = e[3] /\ other.peer \in {(r + 1) % j.ranks, (r + j.ranks - 1) % j.ranks}
      BY <1>2, <1>4, <2>2, <2>4
    <2>7. it.peer = other.peer  BY <2>2, <2>5, <2>6 DEF SideOf
    <2>8. QED  BY <2>2, <2>7
  <1>6. Round(j)[r][c] < Round(j)[r][x]  BY <1>1, <1>2, <1>3, <1>4, <1>5, RoundsGrow
  <1>7. QED  BY <1>3, <1>4, <1>6

LEMMA SentMet ==
    ASSUME AllMatched, NEW j \in Jobs, NEW e \in Ends, e[1] = j.ranks, e[2] \in RanksOf(j),
           NEW c, NEW l, NEW t, Moves(j, "send", e, c, l, t)
    PROVE  \E d : /\ Moves(j, "recv", PeerOf[e], d, l, t)
                  /\ Meets(j, e[2], c, PeerOf[e][2], d, l) /\ Partner(j, e[2], c, l, PeerOf[e][2], d)
  <1>1. PICK way \in Ways : way = "send"  BY DEF Ways
  <1>2. PICK p : p = e[2]  OBVIOUS
  <1>3. PICK L : L = Lanes(j, p, c)[l]  OBVIOUS
  <1>4. /\ c \in DOMAIN j.calls[p] /\ l \in DOMAIN Lanes(j, p, c) /\ L.to = e /\ t.round = Round(j)[p][c]
        /\ t.step \in DOMAIN L.steps /\ t.cell \in DOMAIN L.steps[t.step].send
    BY <1>2, <1>3 DEF Moves, EndOf, MovedBy
  <1>5. j.calls[p][c].kind \in Collectives \/ j.calls[p][c].kind = way
    BY <1>1, <1>2, MovesKind
  <1>6. j.calls[p][c].kind # "recv"  BY <1>1, <1>5 DEF Collectives
  <1>7. PICK q \in RanksOf(j) : \E d : Meets(j, p, c, q, d, l) /\ Partner(j, p, c, l, q, d)
    BY <1>2, <1>4, <1>6, SentMeets
  <1>8. PICK d : Meets(j, p, c, q, d, l) /\ Partner(j, p, c, l, q, d)  BY <1>7
  <1>9. PICK M : M = Lanes(j, q, d)[l]  OBVIOUS
  <1>10. /\ d \in DOMAIN j.calls[q] /\ l \in DOMAIN Lanes(j, q, d) /\ Round(j)[p][c] = Round(j)[q][d]
         /\ M.from = PeerOf[e] /\ Fits(L, M)
    BY <1>3, <1>4, <1>8, <1>9 DEF Meets
  <1>11. q = PeerOf[e][2]
    <2>1. M.from \in RankEnds(j, q)  BY <1>9, <1>10, LanesFacts
    <2>2. M.from[2] = q  BY <2>1, RankEndFacts
    <2>3. QED  BY <1>10, <2>2
  <1>12. t.step \in DOMAIN M.steps /\ t.cell \in DOMAIN M.steps[t.step].recv
    BY <1>4, <1>10 DEF Fits
  <1>13. Moves(j, "recv", PeerOf[e], d, l, t)
    BY <1>4, <1>9, <1>10, <1>11, <1>12 DEF Moves, EndOf, MovedBy
  <1>14. QED  BY <1>2, <1>8, <1>11, <1>13

(* Both ends of a connection cut a call alike, whatever the sizes: what one  *)
(* sends as a tag (ring.cpp, all_reduce_impl and the others), the other      *)
(* receives as that tag, and the other way round.                            *)
THEOREM SentIsReceived ==
    ASSUME AllMatched, NEW j \in Jobs, NEW e \in Ends, e[1] = j.ranks, e[2] \in RanksOf(j),
           NEW c, NEW l, NEW t, Moves(j, "send", e, c, l, t)
    PROVE  \E d : Moves(j, "recv", PeerOf[e], d, l, t)
  BY SentMet

LEMMA ReceivedIsSent ==
    ASSUME AllMatched, NEW j \in Jobs, NEW e \in Ends, e[1] = j.ranks, e[2] \in RanksOf(j),
           NEW d, NEW l, NEW t, Moves(j, "recv", PeerOf[e], d, l, t)
    PROVE  \E c : Moves(j, "send", e, c, l, t)
  <1>1. PICK way \in Ways : way = "recv"  BY DEF Ways
  <1>2. PICK f : f = PeerOf[e]  OBVIOUS
  <1>3. f \in Ends /\ f[1] = j.ranks /\ f[2] \in RanksOf(j) /\ PeerOf[f] = e  BY <1>2, PeerFacts
  <1>4. PICK q : q = f[2]  OBVIOUS
  <1>5. PICK M : M = Lanes(j, q, d)[l]  OBVIOUS
  <1>6. /\ d \in DOMAIN j.calls[q] /\ l \in DOMAIN Lanes(j, q, d) /\ M.from = f /\ t.round = Round(j)[q][d]
        /\ t.step \in DOMAIN M.steps /\ t.cell \in DOMAIN M.steps[t.step].recv
    BY <1>2, <1>4, <1>5 DEF Moves, EndOf, MovedBy
  <1>7. j.calls[q][d].kind \in Collectives \/ j.calls[q][d].kind = way
    <2>1. Moves(j, way, f, d, l, t)  BY <1>1, <1>2
    <2>2. QED  BY <1>3, <1>4, <2>1, MovesKind
  <1>8. j.calls[q][d].kind # "send"  BY <1>1, <1>7 DEF Collectives
  <1>9. q \in RanksOf(j)  BY <1>3, <1>4
  <1>10. PICK p \in RanksOf(j) : \E c : Meets(j, p, c, q, d, l)  BY <1>9, <1>6, <1>8, ReceivedMeets
  <1>11. PICK c : Meets(j, p, c, q, d, l)  BY <1>10
  <1>12. PICK L : L = Lanes(j, p, c)[l]  OBVIOUS
  <1>13. /\ c \in DOMAIN j.calls[p] /\ l \in DOMAIN Lanes(j, p, c) /\ Round(j)[p][c] = Round(j)[q][d]
         /\ M.from = PeerOf[L.to] /\ Fits(L, M)
    BY <1>5, <1>11, <1>12 DEF Meets
  <1>14. L.to \in Ends /\ L.to[1] = j.ranks /\ L.to[2] = p
    <2>1. L.to \in RankEnds(j, p)  BY <1>12, <1>13, LanesFacts
    <2>2. QED  BY <2>1, RankEndFacts
  <1>15. PeerOf[PeerOf[L.to]] = L.to  BY <1>14, PeerFacts
  <1>16. L.to = e /\ p = e[2]  BY <1>3, <1>6, <1>13, <1>14, <1>15
  <1>17. t.step \in DOMAIN L.steps /\ t.cell \in DOMAIN L.steps[t.step].send
    BY <1>6, <1>13 DEF Fits
  <1>18. Moves(j, "send", e, c, l, t)
    BY <1>6, <1>12, <1>13, <1>16, <1>17 DEF Moves, EndOf, MovedBy
  <1>19. QED  BY <1>18

-----------------------------------------------------------------------------
(* What a lane does with memory *)

LEMMA ReduceLaneHas ==
    ASSUME NEW j \in Jobs, NEW r \in RanksOf(j), NEW c \in DOMAIN j.calls[r], j.calls[r][c].kind = "all_reduce",
           NEW l \in DOMAIN Lanes(j, r, c), NEW L, L = Lanes(j, r, c)[l], NEW size, size = j.calls[r][c].size,
           NEW off, off = ReduceOff(j, size, l), NEW n, n = ReduceLen(j, size, l), NEW d, d = ReduceDir(j, size, l)
    PROVE  /\ size \in Nat /\ l \in 1..ReduceCount(j, size) /\ l - 1 \in Nat
           /\ off \in Nat /\ n \in Nat \ {0} /\ d \in {-1, 1} /\ off + n <= Padded(j, size)
           /\ Half(j, n) \in Nat \ {0} /\ Half(j, n) >= Packets(j, n) /\ Packets(j, n) \in Nat \ {0}
           /\ DOMAIN L.steps = 1..2 * Half(j, n) /\ L.lag = Lag(Packets(j, n))
           /\ \A i \in 1..2 * Half(j, n) : L.steps[i] = ReduceStep(j, r, c, l - 1, off, n, d, i - 1)
           /\ LaneMemory(L) \subseteq ReduceCells(r, c, l - 1, off, n)
  <1>1. /\ size \in Nat /\ DOMAIN Lanes(j, r, c) = 1..ReduceCount(j, size)
        /\ \A x \in 1..ReduceCount(j, size) : Lanes(j, r, c)[x] = ReduceLaneOf(j, r, c, size, x)
    BY ReduceCall
  <1>2. l \in 1..ReduceCount(j, size) /\ L = ReduceLaneOf(j, r, c, size, l)  BY <1>1
  <1>3. off \in Nat /\ n \in Nat \ {0} /\ off + n <= Padded(j, size) /\ l - 1 \in Nat
    BY <1>1, <1>2, ReducePartFacts
  <1>4. d \in {-1, 1}  BY <1>1, <1>2, ReduceDirFacts
  <1>5. Half(j, n) \in Nat \ {0} /\ Half(j, n) >= Packets(j, n) /\ Packets(j, n) \in Nat \ {0}
    BY <1>3, PacketFacts
  <1>6. /\ ReduceLaneAt(j, r, c, l - 1, off, n, d).lag = Lag(Packets(j, n))
        /\ ReduceLaneAt(j, r, c, l - 1, off, n, d).steps = ReduceSteps(j, r, c, l - 1, off, n, d)
    BY <1>3, <1>4, ReduceLaneIs
  <1>7. L.lag = Lag(Packets(j, n)) /\ L.steps = ReduceSteps(j, r, c, l - 1, off, n, d)
    BY <1>2, <1>6 DEF ReduceLaneOf
  <1>8. /\ DOMAIN L.steps = 1..2 * Half(j, n)
        /\ \A i \in 1..2 * Half(j, n) : L.steps[i] = ReduceStep(j, r, c, l - 1, off, n, d, i - 1)
    BY <1>7 DEF ReduceSteps
  <1>9. LaneMemory(L) \subseteq ReduceCells(r, c, l - 1, off, n)  BY <1>1, <1>2, ReduceLaneOfFacts
  <1>10. QED  BY <1>1, <1>2, <1>3, <1>4, <1>5, <1>7, <1>8, <1>9

LEMMA GatherLaneHas ==
    ASSUME NEW j \in Jobs, NEW r \in RanksOf(j), NEW c \in DOMAIN j.calls[r], j.calls[r][c].kind = "all_gather",
           NEW l \in DOMAIN Lanes(j, r, c), NEW L, L = Lanes(j, r, c)[l], NEW size, size = j.calls[r][c].size,
           NEW x, x = l - 1
    PROVE  /\ size \in Nat /\ x \in 0..GatherCount(j, size) - 1 /\ x \in Nat /\ Direction(x) \in {-1, 1}
           /\ DOMAIN L.steps = 1..j.ranks - 1 /\ L.lag = 0
           /\ \A i \in 1..j.ranks - 1 : L.steps[i] = GatherStep(j, r, c, size, x, i)
  <1>1. /\ size \in Nat /\ DOMAIN Lanes(j, r, c) = 1..GatherCount(j, size)
        /\ \A y \in 1..GatherCount(j, size) : Lanes(j, r, c)[y] = GatherLane(j, r, c, size, y - 1)
    BY GatherCall
  <1>2. PICK z : z = GatherCount(j, size)  OBVIOUS
  <1>3. z \in Nat \ {0} /\ l \in 1..z  BY <1>1, <1>2, GatherParts
  <1>4. x \in 0..z - 1 /\ x \in Nat  BY <1>3
  <1>5. L = GatherLane(j, r, c, size, x)  BY <1>1, <1>2, <1>3
  <1>6. L.lag = 0 /\ L.steps = GatherSteps(j, r, c, size, x)  BY <1>5 DEF GatherLane, Lane
  <1>7. DOMAIN L.steps = 1..j.ranks - 1 /\ \A i \in 1..j.ranks - 1 : L.steps[i] = GatherStep(j, r, c, size, x, i)
    BY <1>6 DEF GatherSteps
  <1>8. Direction(x) \in {-1, 1}  BY <1>4, DirectionFacts
  <1>9. QED  BY <1>1, <1>2, <1>4, <1>6, <1>7, <1>8

(* Whose cells are whose. *)
LEMMA IntervalOut ==
    ASSUME NEW r, NEW c, NEW a \in Nat, NEW b \in Nat, NEW x \in Interval(r, c, a, b)
    PROVE  IsOut(x) /\ x[1] = r /\ x = OutCell(r, c, x[3]) /\ x[3] \in a + 1..b
  <1>1. PICK k \in a + 1..b : x = OutCell(r, c, k)  BY DEF Interval
  <1>2. x[1] = r /\ x[3] = k /\ x[2][1] = "out"  BY <1>1 DEF OutCell
  <1>3. QED  BY <1>1, <1>2 DEF IsOut

LEMMA BufferNotOut ==
    ASSUME NEW r, NEW lane, NEW x \in BufferCells(r, lane)
    PROVE  ~IsOut(x) /\ x[1] = r
  <1>1. PICK slot, k : x = BufferCell(r, lane, slot, k)  BY DEF BufferCells
  <1>2. x[1] = r /\ x[2][1] = "buffer"  BY <1>1 DEF BufferCell
  <1>3. QED  BY <1>2 DEF IsOut

LEMMA InInterval ==
    ASSUME NEW r, NEW c, NEW a \in Nat, NEW b \in Nat, NEW k \in Nat, a < k, k <= b
    PROVE  OutCell(r, c, k) \in Interval(r, c, a, b)
  BY DEF Interval

(* What is received to be summed up is sent on, a lap of packets later. *)
LEMMA NextLap ==
    ASSUME NEW m \in Nat \ {0}, NEW t \in Nat
    PROVE  (t + m) \div m = (t \div m) + 1 /\ (t + m) % m = t % m
  <1>1. PICK x \in Int, y \in 0..m - 1 : t = m * x + y /\ x = t \div m /\ y = t % m  BY DivFacts
  <1>2. PICK u \in Int, z \in Int : u = t + m /\ z = x + 1  BY <1>1
  <1>3. u = m * z + y
    <2>1. m * (x + 1) = m * x + m  BY <1>1
    <2>2. t + m = (m * x + m) + y  BY <1>1
    <2>3. QED  BY <1>2, <2>1, <2>2
  <1>4. u % m = y /\ u \div m = z  BY <1>2, <1>3, <1>1, ModUnique
  <1>5. QED  BY <1>1, <1>2, <1>4

LEMMA InIsOut ==
    ASSUME NEW j \in Jobs, NEW r, NEW c, NEW off, NEW n \in Nat \ {0}, NEW d, NEW t \in Nat, NEW u, u = t + Packets(j, n)
    PROVE  ReduceOut(j, r, c, off, n, d, u) = ReduceIn(j, r, c, off, n, d, t)
  <1>1. Packets(j, n) \in Nat \ {0}  BY PacketFacts
  <1>2. u \div Packets(j, n) = (t \div Packets(j, n)) + 1 /\ u % Packets(j, n) = t % Packets(j, n)
    BY <1>1, NextLap
  <1>3. QED  BY <1>2 DEF ReduceOut, ReduceIn

(* What a lane does with memory. *)
Shaped(j, r, c, l) ==
    LET L == Lanes(j, r, c)[l]
    IN  /\ \A x \in LaneMemory(L) : x \in Cells /\ x[1] = r /\ (IsOut(x) => x = OutCell(r, c, x[3]))
        /\ \A i \in DOMAIN L.steps :
              /\ \A x \in Range(L.steps[i].send) : IsOut(x)
              /\ L.steps[i].into = <<>> => \A x \in Range(L.steps[i].recv) : IsOut(x)
              /\ L.steps[i].into # <<>> =>
                    /\ \A x \in Range(L.steps[i].recv) : ~IsOut(x)
                    /\ \A x \in Range(L.steps[i].into) : IsOut(x)
                    /\ i + L.lag <= Len(L.steps)

LEMMA ReduceShaped ==
    ASSUME NEW j \in Jobs, NEW r \in RanksOf(j), NEW c \in DOMAIN j.calls[r], j.calls[r][c].kind = "all_reduce",
           NEW l \in DOMAIN Lanes(j, r, c)
    PROVE  Shaped(j, r, c, l)
  <1>1. PICK size, L : size = j.calls[r][c].size /\ L = Lanes(j, r, c)[l]  OBVIOUS
  <1>2. PICK off, n, d : off = ReduceOff(j, size, l) /\ n = ReduceLen(j, size, l) /\ d = ReduceDir(j, size, l)
    OBVIOUS
  <1>3. /\ size \in Nat /\ l - 1 \in Nat /\ off \in Nat /\ n \in Nat \ {0} /\ d \in {-1, 1}
        /\ Half(j, n) \in Nat \ {0} /\ Half(j, n) >= Packets(j, n) /\ Packets(j, n) \in Nat \ {0}
        /\ DOMAIN L.steps = 1..2 * Half(j, n) /\ L.lag = Lag(Packets(j, n))
        /\ \A i \in 1..2 * Half(j, n) : L.steps[i] = ReduceStep(j, r, c, l - 1, off, n, d, i - 1)
        /\ LaneMemory(L) \subseteq ReduceCells(r, c, l - 1, off, n)
    BY <1>1, <1>2, ReduceLaneHas
  <1>4. PICK h \in Nat \ {0}, m \in Nat \ {0} : h = Half(j, n) /\ m = Packets(j, n) /\ h >= m
    BY <1>3
  <1>5. off + n \in Nat  BY <1>3
  <1>6. \A x \in LaneMemory(L) : x[1] = r /\ (IsOut(x) => x = OutCell(r, c, x[3]))
    <2>1. \A x \in Interval(r, c, off, off + n) : x[1] = r /\ x = OutCell(r, c, x[3])
      BY <1>3, <1>5, IntervalOut
    <2>2. \A x \in BufferCells(r, l - 1) : x[1] = r /\ ~IsOut(x)  BY BufferNotOut
    <2>3. \A x \in LaneMemory(L) : x \in Interval(r, c, off, off + n) \/ x \in BufferCells(r, l - 1)
      BY <1>3 DEF ReduceCells
    <2>4. QED  BY <2>1, <2>2, <2>3
  <1>7. ASSUME NEW i \in DOMAIN L.steps, NEW t, t = i - 1
        PROVE  /\ t \in Nat /\ L.steps[i].send = ReduceOut(j, r, c, off, n, d, t)
               /\ L.steps[i].recv = IF t < h THEN ReduceSlot(j, r, c, l - 1, off, n, d, t) ELSE ReduceIn(j, r, c, off, n, d, t)
               /\ L.steps[i].into = IF t < h THEN ReduceIn(j, r, c, off, n, d, t) ELSE <<>>
               /\ \A x \in Range(ReduceOut(j, r, c, off, n, d, t)) : IsOut(x)
               /\ \A x \in Range(ReduceIn(j, r, c, off, n, d, t)) : IsOut(x)
               /\ \A x \in Range(ReduceSlot(j, r, c, l - 1, off, n, d, t)) : ~IsOut(x)
    <2>1. t \in Nat /\ i \in 1..2 * h  BY <1>3, <1>4, <1>7
    <2>2. L.steps[i] = ReduceStep(j, r, c, l - 1, off, n, d, t)  BY <1>3, <1>4, <1>7, <2>1
    <2>3. PICK s : s = L.steps[i]  OBVIOUS
    <2>4. /\ s.send = ReduceOut(j, r, c, off, n, d, t)
          /\ s.recv = IF t < h THEN ReduceSlot(j, r, c, l - 1, off, n, d, t) ELSE ReduceIn(j, r, c, off, n, d, t)
          /\ s.into = IF t < h THEN ReduceIn(j, r, c, off, n, d, t) ELSE <<>>
      BY <1>4, <2>2, <2>3, ReduceStepIs
    <2>5. PICK a, b, S : a = off /\ b = off + n /\ S = Interval(r, c, off, off + n)  OBVIOUS
    <2>6. S \subseteq S /\ Interval(r, c, off, off + n) \subseteq S  BY <2>5
    <2>7. ReduceOut(j, r, c, off, n, d, t) \in Seq(S) /\ ReduceIn(j, r, c, off, n, d, t) \in Seq(S)
      BY <1>3, <2>1, <2>6, ReduceOutFacts
    <2>8. Range(ReduceOut(j, r, c, off, n, d, t)) \subseteq S /\ Range(ReduceIn(j, r, c, off, n, d, t)) \subseteq S
      BY <2>7, RangeWithin
    <2>9. \A x \in S : IsOut(x)  BY <1>3, <1>5, <2>5, IntervalOut
    <2>10. Range(ReduceSlot(j, r, c, l - 1, off, n, d, t)) \subseteq BufferCells(r, l - 1)
      BY <1>3, <2>1, ReduceSlotFacts
    <2>11. \A x \in BufferCells(r, l - 1) : ~IsOut(x)  BY BufferNotOut
    <2>12. QED  BY <2>1, <2>3, <2>4, <2>8, <2>9, <2>10, <2>11
  <1>8. \A x \in LaneMemory(L) : x \in Cells
    <2>1. ASSUME NEW i \in DOMAIN L.steps PROVE Range(L.steps[i].send) \subseteq Cells /\ Range(L.steps[i].recv) \subseteq Cells
      BY <1>1, <2>1, StepsInCells, RangeWithin
    <2>2. ASSUME NEW i \in DOMAIN L.steps, NEW x \in Range(L.steps[i].into) PROVE x \in Cells
      <3>1. PICK t : t = i - 1  OBVIOUS
      <3>2. /\ t \in Nat /\ L.steps[i].into = IF t < h THEN ReduceIn(j, r, c, off, n, d, t) ELSE <<>>
        BY <1>7, <3>1
      <3>3. t < h /\ x \in Range(ReduceIn(j, r, c, off, n, d, t))  BY <2>2, <3>2 DEF Range
      <3>4. PICK k : k = i + m  OBVIOUS
      <3>5. k \in DOMAIN L.steps /\ k - 1 = t + m
        <4>1. i \in 1..2 * h /\ DOMAIN L.steps = 1..2 * h  BY <1>3, <1>4, <2>2
        <4>2. i = t + 1  BY <3>1, <4>1
        <4>3. k \in 1..2 * h /\ k - 1 = t + m  BY <1>4, <3>2, <3>3, <3>4, <4>2
        <4>4. QED  BY <4>1, <4>3
      <3>6. PICK u : u = t + m  OBVIOUS
      <3>7. L.steps[k].send = ReduceOut(j, r, c, off, n, d, u)  BY <1>7, <3>5, <3>6
      <3>8. ReduceOut(j, r, c, off, n, d, u) = ReduceIn(j, r, c, off, n, d, t)
        BY <1>3, <1>4, <3>2, <3>6, InIsOut
      <3>9. QED  BY <2>1, <3>3, <3>5, <3>7, <3>8
    <2>3. QED  BY <2>1, <2>2 DEF LaneMemory, StepMemory
  <1>9. ASSUME NEW i \in DOMAIN L.steps
        PROVE  /\ \A x \in Range(L.steps[i].send) : IsOut(x)
               /\ L.steps[i].into = <<>> => \A x \in Range(L.steps[i].recv) : IsOut(x)
               /\ L.steps[i].into # <<>> =>
                     /\ \A x \in Range(L.steps[i].recv) : ~IsOut(x)
                     /\ \A x \in Range(L.steps[i].into) : IsOut(x)
                     /\ i + L.lag <= Len(L.steps)
    <2>1. PICK t, s : t = i - 1 /\ s = L.steps[i]  OBVIOUS
    <2>2. PICK in, slot : in = ReduceIn(j, r, c, off, n, d, t) /\ slot = ReduceSlot(j, r, c, l - 1, off, n, d, t)
      OBVIOUS
    <2>3. /\ t \in Nat /\ s.recv = (IF t < h THEN slot ELSE in) /\ s.into = (IF t < h THEN in ELSE <<>>)
          /\ \A x \in Range(s.send) : IsOut(x)
          /\ \A x \in Range(in) : IsOut(x)
          /\ \A x \in Range(slot) : ~IsOut(x)
      BY <1>7, <2>1, <2>2
    <2>4. t < h /\ in = <<>> => Range(slot) = {}
      <3>1. SUFFICES ASSUME in = <<>> PROVE Range(slot) = {}  OBVIOUS
      <3>2. Len(in) = 0  BY <3>1
      <3>3. PICK b \in {0, 1}, z \in Nat : b = t % 2 /\ z = Len(in)  BY <2>3, <3>2
      <3>4. slot = Buffer(r, l - 1, b, z)  BY <2>2, <3>3 DEF ReduceSlot
      <3>5. DOMAIN slot = 1..z  BY <3>4, BufferHas
      <3>6. QED  BY <3>2, <3>3, <3>5 DEF Range
    <2>5. t < h => i + L.lag <= Len(L.steps)
      <3>1. L.lag \in {0, 1}  BY <1>3 DEF Lag
      <3>2. DOMAIN L.steps = 1..2 * h  BY <1>3, <1>4
      <3>3. Len(L.steps) = 2 * h
        <4>1. DOMAIN L.steps = 1..Len(L.steps) /\ Len(L.steps) \in Nat \ {0}  BY <1>1, LanesFacts
        <4>2. PICK z \in Nat \ {0} : z = Len(L.steps)  BY <4>1
        <4>3. 1..z = 1..2 * h  BY <3>2, <4>1, <4>2
        <4>4. z \in 1..2 * h /\ 2 * h \in 1..z  BY <4>3, <4>2, <1>4
        <4>5. QED  BY <4>2, <4>4
      <3>4. i \in 1..2 * h  BY <3>2, <1>9
      <3>5. QED  BY <1>4, <2>1, <3>1, <3>3, <3>4
    <2>6. s.into = <<>> => \A x \in Range(s.recv) : IsOut(x)  BY <2>3, <2>4
    <2>7. s.into # <<>> => /\ \A x \in Range(s.recv) : ~IsOut(x)
                           /\ \A x \in Range(s.into) : IsOut(x) /\ t < h
      BY <2>3
    <2>8. s.into # <<>> => t < h  BY <2>3
    <2>9. QED  BY <2>1, <2>3, <2>5, <2>6, <2>7, <2>8
  <1>10. QED  BY <1>1, <1>6, <1>8, <1>9 DEF Shaped

LEMMA CutOut ==
    ASSUME NEW r, NEW c, NEW a \in Nat, NEW b \in Nat, a <= b, NEW x \in Range(Cut(r, c, a, b))
    PROVE  IsOut(x) /\ x[1] = r /\ x = OutCell(r, c, x[3]) /\ x[3] \in a + 1..b
  <1>1. Range(Cut(r, c, a, b)) = Interval(r, c, a, b)  BY CutFacts
  <1>2. x \in Interval(r, c, a, b)  BY <1>1
  <1>3. QED  BY <1>2, IntervalOut

(* A lane that sums nothing up. *)
LEMMA FlatShaped ==
    ASSUME NEW j \in Jobs, NEW r \in RanksOf(j), NEW c \in DOMAIN j.calls[r], NEW l \in DOMAIN Lanes(j, r, c),
           NEW L, L = Lanes(j, r, c)[l],
           \A i \in DOMAIN L.steps : L.steps[i].into = <<>>,
           \A i \in DOMAIN L.steps : \A x \in Range(L.steps[i].send) \cup Range(L.steps[i].recv) :
              IsOut(x) /\ x[1] = r /\ x = OutCell(r, c, x[3])
    PROVE  Shaped(j, r, c, l)
  <1>1. ASSUME NEW i \in DOMAIN L.steps PROVE Range(L.steps[i].send) \subseteq Cells /\ Range(L.steps[i].recv) \subseteq Cells
    BY <1>1, StepsInCells, RangeWithin
  <1>2. \A i \in DOMAIN L.steps : Range(L.steps[i].into) = {}  BY DEF Range
  <1>3. \A x \in LaneMemory(L) : x \in Cells /\ x[1] = r /\ (IsOut(x) => x = OutCell(r, c, x[3]))
    BY <1>1, <1>2 DEF LaneMemory, StepMemory
  <1>4. QED  BY <1>3 DEF Shaped

LEMMA GatherStepIs ==
    ASSUME NEW j, NEW r, NEW c, NEW size, NEW x, NEW i, NEW s, s = GatherStep(j, r, c, size, x, i)
    PROVE  /\ s.send = GatherCut(j, r, c, size, Seat(j, r, Direction(x), i - 1), x)
           /\ s.recv = GatherCut(j, r, c, size, Seat(j, r, Direction(x), i), x) /\ s.into = <<>>
  BY DEF GatherStep, Step

LEMMA GatherCutOut ==
    ASSUME NEW j \in Jobs, NEW r, NEW c, NEW size \in Nat, NEW x \in 0..GatherCount(j, size) - 1,
           NEW s \in Nat, NEW y \in Range(GatherCut(j, r, c, size, s, x))
    PROVE  /\ IsOut(y) /\ y[1] = r /\ y = OutCell(r, c, y[3])
           /\ y[3] \in GatherLo(j, size, s, x) + 1..GatherHi(j, size, s, x)
  <1>1. PICK a, b : a = GatherLo(j, size, s, x) /\ b = GatherHi(j, size, s, x)  OBVIOUS
  <1>2. a \in Nat /\ b \in Nat /\ a <= b  BY <1>1, GatherEdges
  <1>3. y \in Range(Cut(r, c, a, b))  BY <1>1 DEF GatherCut
  <1>4. IsOut(y) /\ y[1] = r /\ y = OutCell(r, c, y[3]) /\ y[3] \in a + 1..b  BY <1>2, <1>3, CutOut
  <1>5. QED  BY <1>1, <1>4

LEMMA GatherShaped ==
    ASSUME NEW j \in Jobs, NEW r \in RanksOf(j), NEW c \in DOMAIN j.calls[r], j.calls[r][c].kind = "all_gather",
           NEW l \in DOMAIN Lanes(j, r, c)
    PROVE  Shaped(j, r, c, l)
  <1>1. PICK size, L, x : size = j.calls[r][c].size /\ L = Lanes(j, r, c)[l] /\ x = l - 1  OBVIOUS
  <1>2. /\ size \in Nat /\ x \in 0..GatherCount(j, size) - 1 /\ x \in Nat /\ Direction(x) \in {-1, 1}
        /\ DOMAIN L.steps = 1..j.ranks - 1 /\ L.lag = 0
        /\ \A i \in 1..j.ranks - 1 : L.steps[i] = GatherStep(j, r, c, size, x, i)
    BY <1>1, GatherLaneHas
  <1>3. ASSUME NEW i \in DOMAIN L.steps
        PROVE  L.steps[i].into = <<>> /\ \A y \in Range(L.steps[i].send) \cup Range(L.steps[i].recv) :
                  IsOut(y) /\ y[1] = r /\ y = OutCell(r, c, y[3])
    <2>1. i \in 1..j.ranks - 1 /\ i \in Int /\ i - 1 \in Int  BY <1>2, JobFacts
    <2>2. PICK k, s : k = i - 1 /\ s = L.steps[i]  OBVIOUS
    <2>3. PICK a, b : a = Seat(j, r, Direction(x), i - 1) /\ b = Seat(j, r, Direction(x), i)
      OBVIOUS
    <2>4. b \in Nat  BY <1>2, <2>1, <2>3, SeatFacts
    <2>5. a \in Nat
      <3>1. k \in Int  BY <2>1, <2>2
      <3>2. Seat(j, r, Direction(x), k) \in Nat  BY <1>2, <3>1, SeatFacts
      <3>3. QED  BY <2>2, <2>3, <3>2
    <2>6. s = GatherStep(j, r, c, size, x, i)  BY <1>2, <2>1, <2>2
    <2>7. /\ s.send = GatherCut(j, r, c, size, a, x) /\ s.recv = GatherCut(j, r, c, size, b, x) /\ s.into = <<>>
      BY <2>3, <2>6, GatherStepIs
    <2>8. \A y \in Range(s.send) : IsOut(y) /\ y[1] = r /\ y = OutCell(r, c, y[3])
      BY <1>2, <2>5, <2>7, GatherCutOut
    <2>9. \A y \in Range(s.recv) : IsOut(y) /\ y[1] = r /\ y = OutCell(r, c, y[3])
      BY <1>2, <2>4, <2>7, GatherCutOut
    <2>10. QED  BY <2>2, <2>7, <2>8, <2>9
  <1>4. \A i \in DOMAIN L.steps : L.steps[i].into = <<>>  BY <1>3
  <1>5. \A i \in DOMAIN L.steps : \A y \in Range(L.steps[i].send) \cup Range(L.steps[i].recv) :
                  IsOut(y) /\ y[1] = r /\ y = OutCell(r, c, y[3])
    BY <1>3
  <1>6. QED  BY <1>1, <1>4, <1>5, FlatShaped

LEMMA PieceShaped ==
    ASSUME NEW j \in Jobs, NEW r \in RanksOf(j), NEW c \in DOMAIN j.calls[r], j.calls[r][c].kind \in {"send", "recv"},
           NEW l \in DOMAIN Lanes(j, r, c)
    PROVE  Shaped(j, r, c, l)
  <1>1. PICK it, L : it = j.calls[r][c] /\ L = Lanes(j, r, c)[l]  OBVIOUS
  <1>2. /\ DOMAIN L.steps = {1} /\ L.steps[1].into = <<>>
        /\ it.kind = "send" => L.steps[1].send = PieceCut(j, r, c, it.size, l) /\ L.steps[1].recv = <<>>
        /\ it.kind = "recv" => L.steps[1].recv = PieceCut(j, r, c, it.size, l) /\ L.steps[1].send = <<>>
        /\ l \in 1..PieceCount(j, it.size) /\ it.size \in Nat
    BY <1>1, PieceSteps
  <1>3. PICK a, b : a = PieceLo(j, it.size, l) /\ b = PieceHi(j, it.size, l)  OBVIOUS
  <1>4. a \in Nat /\ b \in Nat /\ a <= b  BY <1>2, <1>3, PieceEdges
  <1>5. PieceCut(j, r, c, it.size, l) = Cut(r, c, a, b)  BY <1>3 DEF PieceCut
  <1>6. \A x \in Range(Cut(r, c, a, b)) : IsOut(x) /\ x[1] = r /\ x = OutCell(r, c, x[3])
    BY <1>4, CutOut
  <1>7. PICK e : e = <<>>  OBVIOUS
  <1>8. Range(e) = {}  BY <1>7 DEF Range
  <1>9. it.kind = "send" \/ it.kind = "recv"  BY <1>1
  <1>10. \A i \in DOMAIN L.steps : L.steps[i].into = <<>>  BY <1>2
  <1>11. \A x \in Range(L.steps[1].send) : IsOut(x) /\ x[1] = r /\ x = OutCell(r, c, x[3])
    BY <1>2, <1>5, <1>6, <1>7, <1>8, <1>9
  <1>12. \A x \in Range(L.steps[1].recv) : IsOut(x) /\ x[1] = r /\ x = OutCell(r, c, x[3])
    BY <1>2, <1>5, <1>6, <1>7, <1>8, <1>9
  <1>13. \A i \in DOMAIN L.steps : \A x \in Range(L.steps[i].send) \cup Range(L.steps[i].recv) :
            IsOut(x) /\ x[1] = r /\ x = OutCell(r, c, x[3])
    BY <1>2, <1>11, <1>12
  <1>14. QED  BY <1>1, <1>10, <1>13, FlatShaped

LEMMA LaneShape ==
    ASSUME NEW j \in Jobs, NEW r \in RanksOf(j), NEW c \in DOMAIN j.calls[r], NEW l \in DOMAIN Lanes(j, r, c)
    PROVE  LET L == Lanes(j, r, c)[l]
           IN  /\ \A x \in LaneMemory(L) : x \in Cells /\ x[1] = r /\ (IsOut(x) => x = OutCell(r, c, x[3]))
               /\ \A i \in DOMAIN L.steps :
                     /\ \A x \in Range(L.steps[i].send) : IsOut(x)
                     /\ L.steps[i].into = <<>> => \A x \in Range(L.steps[i].recv) : IsOut(x)
                     /\ L.steps[i].into # <<>> =>
                           /\ \A x \in Range(L.steps[i].recv) : ~IsOut(x)
                           /\ \A x \in Range(L.steps[i].into) : IsOut(x)
                           /\ i + L.lag <= Len(L.steps)
  <1>1. PICK kind : kind = j.calls[r][c].kind  OBVIOUS
  <1>2. kind \in {"all_reduce", "all_gather", "send", "recv"}  BY <1>1, CallFacts
  <1>3. kind = "all_reduce" => Shaped(j, r, c, l)  BY <1>1, ReduceShaped
  <1>4. kind = "all_gather" => Shaped(j, r, c, l)  BY <1>1, GatherShaped
  <1>5. kind \in {"send", "recv"} => Shaped(j, r, c, l)  BY <1>1, PieceShaped
  <1>6. Shaped(j, r, c, l)  BY <1>2, <1>3, <1>4, <1>5
  <1>7. QED  BY <1>6 DEF Shaped

-----------------------------------------------------------------------------
(* Who has given what *)

(* Bags of what has been given. *)
Gifts(c, G, k) == SetToBag({<<c, g, k>> : g \in G})

LEMMA BagSum ==
    ASSUME NEW S, NEW T, S \cap T = {}
    PROVE  SetToBag(S) (+) SetToBag(T) = SetToBag(S \cup T)
  <1>1. PICK A, B : A = SetToBag(S) /\ B = SetToBag(T)  OBVIOUS
  <1>2. DOMAIN A = S /\ DOMAIN B = T /\ (\A e \in S : A[e] = 1) /\ (\A e \in T : B[e] = 1)
    BY <1>1 DEF SetToBag
  <1>3. A (+) B = [e \in S \cup T |-> (IF e \in S THEN A[e] ELSE 0) + (IF e \in T THEN B[e] ELSE 0)]
    BY <1>2 DEF (+)
  <1>4. \A e \in S \cup T : (IF e \in S THEN A[e] ELSE 0) + (IF e \in T THEN B[e] ELSE 0) = 1
    BY <1>2
  <1>5. A (+) B = [e \in S \cup T |-> 1]  BY <1>3, <1>4
  <1>6. QED  BY <1>1, <1>5 DEF SetToBag

LEMMA GiftsSum ==
    ASSUME NEW c, NEW k, NEW G, NEW H, G \cap H = {}
    PROVE  Gifts(c, G, k) (+) Gifts(c, H, k) = Gifts(c, G \cup H, k)
  <1> DEFINE S == {<<c, g, k>> : g \in G}
             T == {<<c, g, k>> : g \in H}
  <1>1. S \cap T = {}  OBVIOUS
  <1>2. S \cup T = {<<c, g, k>> : g \in G \cup H}  OBVIOUS
  <1>3. SetToBag(S) (+) SetToBag(T) = SetToBag(S \cup T)  BY <1>1, BagSum
  <1>4. QED  BY <1>2, <1>3 DEF Gifts

LEMMA EmptySum == EmptyBag (+) EmptyBag = EmptyBag
  <1>1. PICK S : S = {}  OBVIOUS
  <1>2. SetToBag(S) (+) SetToBag(S) = SetToBag(S \cup S)  BY <1>1, BagSum
  <1>3. S \cup S = S  OBVIOUS
  <1>4. QED  BY <1>1, <1>2, <1>3 DEF EmptyBag

LEMMA DivMonotone ==
    ASSUME NEW m \in Nat \ {0}, NEW a \in Nat, NEW b \in Nat, a <= b
    PROVE  a \div m \in Nat /\ b \div m \in Nat /\ a \div m <= b \div m
  <1>1. PICK x \in Int, y \in 0..m - 1 : a = m * x + y /\ x = a \div m  BY DivFacts
  <1>2. PICK z \in Int, w \in 0..m - 1 : b = m * z + w /\ z = b \div m  BY DivFacts
  <1>3. ASSUME NEW u \in Int, NEW v \in Int, u > v PROVE m * u >= m * v + m
    <2>1. PICK e \in Nat, f \in Int : e = u - v - 1 /\ f = v + 1  BY <1>3
    <2>2. m * e \in Nat  OBVIOUS
    <2>3. u = f + e  BY <2>1, <1>3
    <2>4. m * u = m * f + m * e  BY <2>3
    <2>5. m * f = m * v + m  BY <2>1
    <2>6. m * v \in Int /\ m * f \in Int /\ m * u \in Int  BY <1>3, <2>1
    <2>7. QED  BY <2>2, <2>4, <2>5, <2>6
  <1>4. m * x \in Int /\ m * z \in Int  BY <1>1, <1>2
  <1>5. ~(x > z)
    <2>1. SUFFICES ASSUME x > z PROVE FALSE  OBVIOUS
    <2>2. m * x >= m * z + m  BY <1>1, <1>2, <1>3, <2>1
    <2>3. QED  BY <2>2, <1>1, <1>2, <1>4
  <1>6. ~(0 > x)
    <2>1. SUFFICES ASSUME 0 > x PROVE FALSE  OBVIOUS
    <2>2. PICK o \in Int : o = 0  OBVIOUS
    <2>3. m * o >= m * x + m  BY <1>1, <1>3, <2>1, <2>2
    <2>4. m * o = 0  BY <2>2
    <2>5. QED  BY <2>3, <2>4, <1>1, <1>4
  <1>7. QED  BY <1>1, <1>2, <1>5, <1>6

LEMMA DivOfMultiple ==
    ASSUME NEW m \in Nat \ {0}, NEW u \in Nat
    PROVE  (u * m) \div m = u
  <1>1. PICK a \in Int, o \in 0..m - 1 : a = u * m /\ o = 0  OBVIOUS
  <1>2. a = m * u + o  BY <1>1
  <1>3. a \div m = u  BY <1>1, <1>2, ModUnique
  <1>4. QED  BY <1>1, <1>3

(* The seats. *)
LEMMA SeatsCover ==
    ASSUME NEW j \in Jobs, NEW r \in RanksOf(j), NEW d \in {-1, 1}, NEW a \in Nat, NEW g \in RanksOf(j)
    PROVE  \E v \in a..a + j.ranks - 1 : Seat(j, r, d, v) = g
  <1>1. PICK R : R = j.ranks  OBVIOUS
  <1>2. R \in Nat \ {0} /\ r \in 0..R - 1 /\ g \in 0..R - 1  BY <1>1, JobFacts DEF RanksOf
  <1>3. CASE d = 1
    <2>1. PICK b \in Int : b = g - r - a  BY <1>2
    <2>2. PICK q \in Int, y \in 0..R - 1 : b = R * q + y  BY <1>2, DivFacts
    <2>3. PICK v, w \in Int, z \in Int : v = a + y /\ w = r + v * d /\ z = -q  BY <1>2, <1>3
    <2>4. v \in a..a + R - 1 /\ w = r + a + y  BY <1>2, <1>3, <2>3
    <2>5. R * z = -(R * q) /\ R * q \in Int /\ R * z \in Int  BY <1>2, <2>3
    <2>6. w = R * z + g  BY <1>2, <2>1, <2>2, <2>4, <2>5
    <2>7. w % R = g  BY <1>2, <2>6, ModUnique
    <2>8. QED  BY <1>1, <2>3, <2>4, <2>7 DEF Seat
  <1>4. CASE d = -1
    <2>1. PICK b \in Int : b = r - g - a  BY <1>2
    <2>2. PICK q \in Int, y \in 0..R - 1 : b = R * q + y  BY <1>2, DivFacts
    <2>3. PICK v, w \in Int : v = a + y /\ w = r + v * d  BY <1>2, <1>4
    <2>4. v \in a..a + R - 1 /\ w = r - a - y  BY <1>2, <1>4, <2>3
    <2>5. R * q \in Int  BY <1>2
    <2>6. w = R * q + g  BY <1>2, <2>1, <2>2, <2>4, <2>5
    <2>7. w % R = g  BY <1>2, <2>6, ModUnique
    <2>8. QED  BY <1>1, <2>3, <2>4, <2>7 DEF Seat
  <1>5. QED  BY <1>3, <1>4

LEMMA SeatNear ==
    ASSUME NEW j \in Jobs, NEW r \in RanksOf(j), NEW d \in {-1, 1}, NEW u \in Int, NEW v \in Int,
           u - v < j.ranks, v - u < j.ranks, Seat(j, r, d, u) = Seat(j, r, d, v)
    PROVE  u = v
  <1>1. PICK R : R = j.ranks  OBVIOUS
  <1>2. R \in Nat \ {0} /\ r \in Int  BY <1>1, JobFacts DEF RanksOf
  <1>3. PICK a \in Int, b \in Int : a = r + u * d /\ b = r + v * d  BY <1>2
  <1>4. a - b < R /\ b - a < R /\ (a = b => u = v)  BY <1>1, <1>2, <1>3
  <1>5. a % R = b % R  BY <1>1, <1>3 DEF Seat
  <1>6. QED  BY <1>2, <1>4, <1>5, ModNear

(* L is lane l of call c of rank r, an all_reduce. *)
Reduces(j, r, c, l, L, size, off, n, d) ==
    /\ j.calls[r][c].kind = "all_reduce" /\ size = j.calls[r][c].size /\ L = Lanes(j, r, c)[l]
    /\ n = ReduceLen(j, size, l) /\ d = ReduceDir(j, size, l) /\ off = ReduceOff(j, size, l)
    /\ size \in Nat /\ l - 1 \in Nat /\ off \in Nat /\ n \in Nat \ {0} /\ d \in {-1, 1}
    /\ Half(j, n) \in Nat \ {0} /\ Half(j, n) >= Packets(j, n) /\ Packets(j, n) \in Nat \ {0}
    /\ DOMAIN L.steps = 1..2 * Half(j, n)
    /\ \A i \in 1..2 * Half(j, n) : L.steps[i] = ReduceStep(j, r, c, l - 1, off, n, d, i - 1)

LEMMA IsReduce ==
    ASSUME NEW j \in Jobs, NEW r \in RanksOf(j), NEW c \in DOMAIN j.calls[r], j.calls[r][c].kind = "all_reduce",
           NEW l \in DOMAIN Lanes(j, r, c)
    PROVE  \E L, size, off, n, d : Reduces(j, r, c, l, L, size, off, n, d)
  <1>1. PICK size, L : size = j.calls[r][c].size /\ L = Lanes(j, r, c)[l]  OBVIOUS
  <1>2. PICK off, n, d : off = ReduceOff(j, size, l) /\ n = ReduceLen(j, size, l) /\ d = ReduceDir(j, size, l)
    OBVIOUS
  <1>3. /\ size \in Nat /\ l - 1 \in Nat /\ off \in Nat /\ n \in Nat \ {0} /\ d \in {-1, 1}
        /\ Half(j, n) \in Nat \ {0} /\ Half(j, n) >= Packets(j, n) /\ Packets(j, n) \in Nat \ {0}
        /\ DOMAIN L.steps = 1..2 * Half(j, n)
        /\ \A i \in 1..2 * Half(j, n) : L.steps[i] = ReduceStep(j, r, c, l - 1, off, n, d, i - 1)
    BY <1>1, <1>2, ReduceLaneHas
  <1>4. Reduces(j, r, c, l, L, size, off, n, d)  BY <1>1, <1>2, <1>3 DEF Reduces
  <1>5. QED  BY <1>4

LEMMA ReduceStepHas ==
    ASSUME NEW j, NEW r, NEW c, NEW l, NEW L, NEW size, NEW off, NEW n, NEW d,
           Reduces(j, r, c, l, L, size, off, n, d), NEW i \in DOMAIN L.steps, NEW t, t = i - 1,
           NEW s, s = L.steps[i]
    PROVE  /\ t \in Nat /\ i \in Nat /\ i = t + 1 /\ t < 2 * Half(j, n) /\ s.send = ReduceOut(j, r, c, off, n, d, t)
           /\ s.recv = IF t < Half(j, n) THEN ReduceSlot(j, r, c, l - 1, off, n, d, t) ELSE ReduceIn(j, r, c, off, n, d, t)
           /\ s.into = IF t < Half(j, n) THEN ReduceIn(j, r, c, off, n, d, t) ELSE <<>>
  <1>1. i \in 1..2 * Half(j, n) /\ Half(j, n) \in Nat  BY DEF Reduces
  <1>2. t \in Nat /\ i \in Nat /\ i = t + 1 /\ t < 2 * Half(j, n)  BY <1>1
  <1>3. s = ReduceStep(j, r, c, l - 1, off, n, d, t)  BY <1>1 DEF Reduces
  <1>4. QED  BY <1>2, <1>3, ReduceStepIs

LEMMA ReduceWrites ==
    ASSUME NEW j, NEW r, NEW c, NEW l, NEW L, NEW size, NEW off, NEW n, NEW d,
           Reduces(j, r, c, l, L, size, off, n, d), NEW i \in DOMAIN L.steps, NEW t, t = i - 1
    PROVE  Written(L.steps[i]) = Range(ReduceIn(j, r, c, off, n, d, t))
  <1>1. PICK s : s = L.steps[i]  OBVIOUS
  <1>2. PICK in, slot, h : /\ in = ReduceIn(j, r, c, off, n, d, t) /\ slot = ReduceSlot(j, r, c, l - 1, off, n, d, t)
                           /\ h = Half(j, n)
    OBVIOUS
  <1>3. t \in Nat /\ s.recv = (IF t < h THEN slot ELSE in) /\ s.into = (IF t < h THEN in ELSE <<>>)
    BY <1>1, <1>2, ReduceStepHas
  <1>4. CASE ~(t < h)  BY <1>1, <1>2, <1>3, <1>4 DEF Written
  <1>5. CASE t < h /\ in # <<>>  BY <1>1, <1>2, <1>3, <1>5 DEF Written
  <1>6. CASE t < h /\ in = <<>>
    <2>1. Len(in) = 0  BY <1>6
    <2>2. PICK b \in {0, 1}, z \in Nat : b = t % 2 /\ z = Len(in)  BY <1>3, <2>1
    <2>3. slot = Buffer(r, l - 1, b, z)  BY <1>2, <2>2 DEF ReduceSlot
    <2>4. DOMAIN slot = 1..z  BY <2>3, BufferHas
    <2>5. Range(slot) = {}  BY <2>1, <2>2, <2>4 DEF Range
    <2>6. Range(in) = {}  BY <1>6 DEF Range
    <2>7. Written(s) = Range(slot)  BY <1>3, <1>6 DEF Written
    <2>8. QED  BY <1>1, <1>2, <2>5, <2>6, <2>7
  <1>7. QED  BY <1>4, <1>5, <1>6

(* Where a packet is. *)
LEMMA PacketsMeet ==
    ASSUME NEW j \in Jobs, NEW r, NEW c, NEW off \in Nat, NEW n \in Nat \ {0},
           NEW s \in Nat, NEW p \in Nat, NEW t \in Nat, NEW q \in Nat,
           NEW x, x \in Range(PacketCut(j, r, c, off, n, s, p)), x \in Range(PacketCut(j, r, c, off, n, t, q))
    PROVE  s = t /\ p = q
  <1>1. s # t \/ p # q => Range(PacketCut(j, r, c, off, n, s, p)) \cap Range(PacketCut(j, r, c, off, n, t, q)) = {}
    BY PacketsApart
  <1>2. QED  BY <1>1

(* Steps that write the same cell, or send what another has written. *)
Follows(j, r, d, n, t, u) ==
    /\ Seat(j, r, d, t \div Packets(j, n)) = Seat(j, r, d, (u \div Packets(j, n)) + 1)
    /\ t % Packets(j, n) = u % Packets(j, n)
Beside(j, r, d, n, t, u) ==
    /\ Seat(j, r, d, (t \div Packets(j, n)) + 1) = Seat(j, r, d, (u \div Packets(j, n)) + 1)
    /\ t % Packets(j, n) = u % Packets(j, n)

LEMMA InMeetsIn ==
    ASSUME NEW j \in Jobs, NEW r \in RanksOf(j), NEW c, NEW off \in Nat, NEW n \in Nat \ {0}, NEW d \in {-1, 1},
           NEW t \in Nat, NEW u \in Nat, NEW x,
           x \in Range(ReduceIn(j, r, c, off, n, d, t)), x \in Range(ReduceIn(j, r, c, off, n, d, u))
    PROVE  Beside(j, r, d, n, t, u)
  <1>1. PICK a, f, p, q : /\ a = Seat(j, r, d, (t \div Packets(j, n)) + 1) /\ f = Seat(j, r, d, (u \div Packets(j, n)) + 1)
                          /\ p = t % Packets(j, n) /\ q = u % Packets(j, n)
    OBVIOUS
  <1>2. a \in Nat /\ p \in Nat  BY <1>1, StepPlace
  <1>3. f \in Nat /\ q \in Nat  BY <1>1, StepPlace
  <1>4. /\ ReduceIn(j, r, c, off, n, d, t) = PacketCut(j, r, c, off, n, a, p)
        /\ ReduceIn(j, r, c, off, n, d, u) = PacketCut(j, r, c, off, n, f, q)
    BY <1>1 DEF ReduceIn, ReduceOut
  <1>5. a = f /\ p = q  BY <1>2, <1>3, <1>4, PacketsMeet
  <1>6. QED  BY <1>1, <1>5 DEF Beside

LEMMA OutMeetsIn ==
    ASSUME NEW j \in Jobs, NEW r \in RanksOf(j), NEW c, NEW off \in Nat, NEW n \in Nat \ {0}, NEW d \in {-1, 1},
           NEW t \in Nat, NEW u \in Nat, NEW x,
           x \in Range(ReduceOut(j, r, c, off, n, d, t)), x \in Range(ReduceIn(j, r, c, off, n, d, u))
    PROVE  Follows(j, r, d, n, t, u)
  <1>1. PICK a, f, p, q : /\ a = Seat(j, r, d, t \div Packets(j, n)) /\ f = Seat(j, r, d, (u \div Packets(j, n)) + 1)
                          /\ p = t % Packets(j, n) /\ q = u % Packets(j, n)
    OBVIOUS
  <1>2. a \in Nat /\ p \in Nat  BY <1>1, StepPlace
  <1>3. f \in Nat /\ q \in Nat  BY <1>1, StepPlace
  <1>4. /\ ReduceOut(j, r, c, off, n, d, t) = PacketCut(j, r, c, off, n, a, p)
        /\ ReduceIn(j, r, c, off, n, d, u) = PacketCut(j, r, c, off, n, f, q)
    BY <1>1 DEF ReduceIn, ReduceOut
  <1>5. a = f /\ p = q  BY <1>2, <1>3, <1>4, PacketsMeet
  <1>6. QED  BY <1>1, <1>5 DEF Follows

LEMMA SeatZero ==
    ASSUME NEW j \in Jobs, NEW r \in RanksOf(j), NEW d \in {-1, 1}
    PROVE  Seat(j, r, d, 0) = r
  <1>1. PICK o \in Int : o = 0  OBVIOUS
  <1>2. Seat(j, r, d, o) \in RanksOf(j) /\ Seat(j, r, d, 0) = r  BY <1>1, SeatFacts
  <1>3. QED  BY <1>2

(* A step sends what no earlier step of its lap has written. *)
LEMMA LapsBefore ==
    ASSUME NEW j \in Jobs, NEW r \in RanksOf(j), NEW c, NEW off \in Nat, NEW n \in Nat \ {0}, NEW d \in {-1, 1},
           NEW t \in Nat, NEW u \in Nat, u <= t, NEW m \in Nat \ {0}, m = Packets(j, n), NEW x,
           x \in Range(ReduceOut(j, r, c, off, n, d, t)), x \in Range(ReduceIn(j, r, c, off, n, d, u))
    PROVE  u \div m \in Nat /\ t \div m \in Nat /\ u \div m < t \div m
  <1>1. u \div m \in Nat /\ t \div m \in Nat /\ u \div m <= t \div m  BY DivMonotone
  <1>2. PICK K \in Nat, M \in Nat : K = t \div m /\ M = u \div m  BY <1>1
  <1>3. Seat(j, r, d, K) = Seat(j, r, d, M + 1)
    <2>1. /\ j \in Jobs /\ r \in RanksOf(j) /\ off \in Nat /\ n \in Nat \ {0} /\ d \in {-1, 1} /\ t \in Nat /\ u \in Nat
          /\ x \in Range(ReduceOut(j, r, c, off, n, d, t)) /\ x \in Range(ReduceIn(j, r, c, off, n, d, u))
      OBVIOUS
    <2>2. Follows(j, r, d, n, t, u)  BY ONLY <2>1, OutMeetsIn
    <2>3. QED  BY <2>2, <1>2 DEF Follows
  <1>4. PICK k \in Int, e \in Int : k = K /\ e = K + 1 /\ e = k + 1  BY <1>2
  <1>5. Seat(j, r, d, e) # Seat(j, r, d, k)  BY <1>4, SeatsDiffer
  <1>6. M # K  BY <1>3, <1>4, <1>5
  <1>7. QED  BY <1>1, <1>2, <1>6

LEMMA LapAgo ==
    ASSUME NEW m \in Nat \ {0}, NEW t \in Nat, t \div m # 0
    PROVE  \E u \in Nat : t = u + m /\ t \div m = (u \div m) + 1 /\ u \div m \in Nat
  <1>1. t >= m
    <2>1. SUFFICES ASSUME t < m PROVE FALSE  OBVIOUS
    <2>2. PICK o \in Int : o = 0  OBVIOUS
    <2>3. t = m * o + t /\ t \in 0..m - 1  BY <2>1, <2>2
    <2>4. t \div m = o  BY <2>3, ModUnique
    <2>5. QED  BY <2>2, <2>4
  <1>2. PICK u \in Nat : t = u + m
    <2>1. t - m \in Nat /\ t = (t - m) + m  BY <1>1
    <2>2. QED  BY <2>1
  <1>3. (u + m) \div m = (u \div m) + 1  BY NextLap
  <1>4. u <= u  OBVIOUS
  <1>5. u \div m \in Nat  BY <1>4, DivMonotone
  <1>6. QED  BY <1>2, <1>3, <1>5

SeatsOfSteps(j, r, d, m, W) == {r} \cup UNION {{Seat(j, r, d, v) : v \in 1..((y - 1) \div m) + 1} : y \in W}
SeatsTo(j, r, d, K) == {Seat(j, r, d, v) : v \in 0..K}

(* The seats that the sums of the steps W come from. *)
LEMMA SeatsGiven ==
    ASSUME NEW j \in Jobs, NEW r \in RanksOf(j), NEW d \in {-1, 1}, NEW m, NEW K \in Nat, NEW W,
           \A y \in W : (y - 1) \div m \in Nat /\ (y - 1) \div m < K,
           K # 0 => \E y \in W : K = ((y - 1) \div m) + 1
    PROVE  SeatsOfSteps(j, r, d, m, W) = SeatsTo(j, r, d, K)
  <1> DEFINE G == {r} \cup UNION {{Seat(j, r, d, v) : v \in 1..((y - 1) \div m) + 1} : y \in W}
  <1>1. Seat(j, r, d, 0) = r  BY SeatZero
  <1>2. ASSUME NEW g \in G PROVE g \in {Seat(j, r, d, v) : v \in 0..K}
    <2>1. CASE g = r
      <3>1. 0 \in 0..K  OBVIOUS
      <3>2. QED  BY <1>1, <2>1, <3>1
    <2>2. CASE g # r
      <3>1. PICK y \in W : g \in {Seat(j, r, d, v) : v \in 1..((y - 1) \div m) + 1}  BY <1>2, <2>2
      <3>2. PICK M \in Nat : M = (y - 1) \div m /\ M < K  OBVIOUS
      <3>3. PICK v \in 1..M + 1 : g = Seat(j, r, d, v)  BY <3>1, <3>2
      <3>4. v \in 0..K  BY <3>2, <3>3
      <3>5. QED  BY <3>3, <3>4
    <2>3. QED  BY <2>1, <2>2
  <1>3. ASSUME NEW v \in 0..K PROVE Seat(j, r, d, v) \in G
    <2>1. CASE v = 0  BY <1>1, <2>1
    <2>2. CASE v # 0
      <3>1. K # 0 /\ v \in 1..K  BY <2>2
      <3>2. PICK y \in W : K = ((y - 1) \div m) + 1  BY <3>1
      <3>3. v \in 1..((y - 1) \div m) + 1  BY <3>1, <3>2
      <3>4. QED  BY <3>3
    <2>3. QED  BY <2>1, <2>2
  <1>4. QED  BY <1>2, <1>3 DEF SeatsOfSteps, SeatsTo

(* What a step sends has been through all the seats before it. *)
LEMMA SentGivers ==
    ASSUME NEW j \in Jobs, NEW r \in RanksOf(j), NEW c, NEW l, NEW L, NEW size, NEW off, NEW n, NEW d,
           Reduces(j, r, c, l, L, size, off, n, d), NEW i \in DOMAIN L.steps,
           NEW x \in Range(L.steps[i].send), NEW W, W = Before(L, x, i),
           NEW K, K = (i - 1) \div Packets(j, n)
    PROVE  K \in Nat /\ Givers(j, r, size, l, W) = SeatsTo(j, r, d, K)
  <1>1. PICK m, h : m = Packets(j, n) /\ h = Half(j, n)  OBVIOUS
  <1>2. /\ n = ReduceLen(j, size, l) /\ d = ReduceDir(j, size, l)
        /\ size \in Nat /\ l - 1 \in Nat /\ off \in Nat /\ n \in Nat \ {0} /\ d \in {-1, 1}
        /\ h \in Nat \ {0} /\ h >= m /\ m \in Nat \ {0} /\ DOMAIN L.steps = 1..2 * h
    BY <1>1 DEF Reduces
  <1>3. PICK t : t = i - 1  OBVIOUS
  <1>4. t \in Nat /\ i = t + 1 /\ t < 2 * h /\ x \in Range(ReduceOut(j, r, c, off, n, d, t)) /\ K = t \div m
    <2>1. PICK s : s = L.steps[i]  OBVIOUS
    <2>2. t \in Nat /\ i = t + 1 /\ t < 2 * h /\ s.send = ReduceOut(j, r, c, off, n, d, t)
      BY <1>1, <1>3, <2>1, ReduceStepHas
    <2>3. QED  BY <1>1, <1>3, <2>1, <2>2
  <1>5. PICK o \in Nat \ {0}, k \in Nat \ {0}, a \in Nat, b \in {-1, 1} :
           o = n /\ k = m /\ a = off /\ b = d /\ k = Packets(j, o)
    BY <1>1, <1>2
  <1>6. PICK z \in Nat : z = t /\ z \div k = K /\ x \in Range(ReduceOut(j, r, c, a, o, b, z))
    BY <1>4, <1>5
  <1>7. K \in Nat
    <2>1. z <= z  OBVIOUS
    <2>2. z \div k \in Nat  BY <2>1, DivMonotone
    <2>3. QED  BY <1>6, <2>2
  <1>8. Givers(j, r, size, l, W) = SeatsOfSteps(j, r, b, k, W)
    BY <1>1, <1>2, <1>5 DEF Givers, SeatsOfSteps
  <1>9. ASSUME NEW y \in W PROVE (y - 1) \div k \in Nat /\ (y - 1) \div k < K
    <2>1. y \in DOMAIN L.steps /\ x \in Written(L.steps[y]) /\ y < i  BY <1>9 DEF Before, Writers
    <2>2. y \in 1..2 * h  BY <1>2, <2>1
    <2>3. PICK u \in Nat : u = y - 1 /\ u <= z  BY <1>4, <1>6, <2>1, <2>2
    <2>4. x \in Range(ReduceIn(j, r, c, off, n, d, u))  BY <2>1, <2>3, ReduceWrites
    <2>5. x \in Range(ReduceIn(j, r, c, a, o, b, u))  BY <2>4, <1>5
    <2>6. u \div k \in Nat /\ u \div k < z \div k  BY <1>5, <1>6, <2>3, <2>5, LapsBefore
    <2>7. QED  BY <1>6, <2>3, <2>6
  <1>10. K # 0 => \E y \in W : K = ((y - 1) \div k) + 1
    <2>1. SUFFICES ASSUME K # 0 PROVE \E y \in W : K = ((y - 1) \div k) + 1  OBVIOUS
    <2>2. z \div k # 0  BY <1>6, <2>1
    <2>3. PICK u \in Nat : z = u + k /\ z \div k = (u \div k) + 1  BY <2>2, LapAgo
    <2>4. PICK y \in Nat : y = u + 1 /\ y - 1 = u  BY <2>3
    <2>5. y < i /\ y \in DOMAIN L.steps
      <3>1. k > 0 /\ z < 2 * h /\ i = z + 1  BY <1>4, <1>5, <1>6
      <3>2. y < i /\ y \in 1..2 * h  BY <1>2, <3>1, <2>3, <2>4
      <3>3. QED  BY <1>2, <3>2
    <2>6. z = u + Packets(j, o)  BY <1>5, <2>3
    <2>7. ReduceOut(j, r, c, a, o, b, z) = ReduceIn(j, r, c, a, o, b, u)  BY <2>6, InIsOut
    <2>8. Written(L.steps[y]) = Range(ReduceIn(j, r, c, off, n, d, u))  BY <2>4, <2>5, ReduceWrites
    <2>9. x \in Written(L.steps[y])  BY <1>5, <1>6, <2>7, <2>8
    <2>10. y \in W  BY <2>5, <2>9 DEF Before, Writers
    <2>11. K = ((y - 1) \div k) + 1  BY <1>6, <2>3, <2>4
    <2>12. QED  BY <2>10, <2>11
  <1>11. \A y \in W : (y - 1) \div k \in Nat /\ (y - 1) \div k < K  BY <1>9
  <1>12. j \in Jobs /\ r \in RanksOf(j) /\ b \in {-1, 1}  OBVIOUS
  <1>13. SeatsOfSteps(j, r, b, k, W) = SeatsTo(j, r, b, K)
    BY ONLY <1>7, <1>10, <1>11, <1>12, SeatsGiven
  <1>14. QED  BY <1>5, <1>7, <1>8, <1>13

-----------------------------------------------------------------------------
(* What is sent is what must arrive *)

(* What is received where it is sent to is what was sent. *)
LEMMA Delivered ==
    ASSUME AllMatched, NEW j \in Jobs, NEW e \in Ends, e[1] = j.ranks, e[2] \in RanksOf(j),
           NEW c, NEW l, NEW t, Moves(j, "send", e, c, l, t),
           NEW d, NEW m, Moves(j, "recv", PeerOf[e], d, m, t)
    PROVE  m = l /\ Meets(j, e[2], c, PeerOf[e][2], d, l) /\ Partner(j, e[2], c, l, PeerOf[e][2], d)
  <1>1. PICK p, f, q : p = e[2] /\ f = PeerOf[e] /\ q = f[2]  OBVIOUS
  <1>2. f \in Ends /\ f[1] = j.ranks /\ q \in RanksOf(j)  BY <1>1, PeerFacts
  <1>3. PICK way \in Ways : way = "recv"  BY DEF Ways
  <1>4. PICK x : /\ Moves(j, "recv", PeerOf[e], x, l, t) /\ Meets(j, e[2], c, PeerOf[e][2], x, l)
                 /\ Partner(j, e[2], c, l, PeerOf[e][2], x)
    BY SentMet
  <1>5. Moves(j, way, f, x, l, t) /\ Moves(j, way, f, d, m, t)  BY <1>1, <1>3, <1>4
  <1>6. f[2] \in RanksOf(j)  BY <1>1, <1>2
  <1>7. /\ x \in DOMAIN j.calls[q] /\ l \in DOMAIN Lanes(j, q, x) /\ Lanes(j, q, x)[l].from = f
        /\ t.round = Round(j)[q][x]
    BY <1>1, <1>3, <1>5 DEF Moves, EndOf
  <1>8. /\ d \in DOMAIN j.calls[q] /\ m \in DOMAIN Lanes(j, q, d) /\ Lanes(j, q, d)[m].from = f
    BY <1>1, <1>3, <1>5 DEF Moves, EndOf
  <1>9. t.round \in Nat  BY <1>2, <1>7, RoundFacts
  <1>10. x \in Nat /\ d \in Nat  BY <1>2, <1>7, <1>8, CallFacts
  <1>11. ~(x < d)
    <2>1. SUFFICES ASSUME x < d PROVE FALSE  OBVIOUS
    <2>2. t.round < t.round  BY <1>2, <1>5, <1>6, <2>1, MovesInOrder
    <2>3. QED  BY <1>9, <2>2
  <1>12. ~(d < x)
    <2>1. SUFFICES ASSUME d < x PROVE FALSE  OBVIOUS
    <2>2. t.round < t.round  BY <1>2, <1>5, <1>6, <2>1, MovesInOrder
    <2>3. QED  BY <1>9, <2>2
  <1>13. d = x  BY <1>10, <1>11, <1>12
  <1>14. m = l
    <2>1. SUFFICES ASSUME m # l PROVE FALSE  OBVIOUS
    <2>2. m \in DOMAIN Lanes(j, q, x) /\ Lanes(j, q, x)[m].from = f  BY <1>8, <1>13
    <2>3. \A n \in DOMAIN Lanes(j, q, x) : n # l => Lanes(j, q, x)[l].from # Lanes(j, q, x)[n].from
      BY <1>2, <1>7, LanesFacts
    <2>4. QED  BY <1>7, <2>1, <2>2, <2>3
  <1>15. QED  BY <1>4, <1>13, <1>14

(* The send that answers a recv is the only one. *)
LEMMA AnsweringIs ==
    ASSUME AllMatched, NEW j \in Jobs, NEW p \in RanksOf(j), NEW c \in DOMAIN j.calls[p], NEW q \in RanksOf(j),
           NEW d \in DOMAIN j.calls[q], Answers(j, Round(j), p, c, q, d), j.calls[p][c].kind = "send"
    PROVE  Answering(j, q, d) = c /\ j.calls[q][d].peer = p /\ j.calls[q][d].kind = "recv"
  <1>1. PICK it, other : it = j.calls[p][c] /\ other = j.calls[q][d]  OBVIOUS
  <1>2. /\ {it.kind, other.kind} = {"send", "recv"} /\ it.peer = q /\ other.peer = p
        /\ Round(j)[p][c] = Round(j)[q][d]
    BY <1>1 DEF Answers
  <1>3. other.kind = "recv"  BY <1>1, <1>2
  <1>4. Answers(j, Round(j), q, d, p, c)  BY AnswersBack
  <1>5. PICK a : a = Answering(j, q, d)  OBVIOUS
  <1>6. a = CHOOSE y \in DOMAIN j.calls[p] : Answers(j, Round(j), q, d, p, y)
    BY <1>1, <1>2, <1>5 DEF Answering
  <1>7. a \in DOMAIN j.calls[p] /\ Answers(j, Round(j), q, d, p, a)  BY <1>4, <1>6
  <1>8. PICK third : third = j.calls[p][a]  OBVIOUS
  <1>9. {other.kind, third.kind} = {"send", "recv"} /\ third.peer = q /\ Round(j)[q][d] = Round(j)[p][a]
    BY <1>1, <1>7, <1>8 DEF Answers
  <1>10. third.kind = "send"  BY <1>3, <1>9
  <1>11. Round(j)[p][c] \in Nat /\ Round(j)[p][a] = Round(j)[p][c]  BY <1>2, <1>9, RoundFacts
  <1>12. a \in Nat /\ c \in Nat  BY <1>7, CallFacts
  <1>13. j.calls[p][a].kind = j.calls[p][c].kind /\ j.calls[p][a].peer = j.calls[p][c].peer
    BY <1>1, <1>2, <1>8, <1>9, <1>10
  <1>14. ~(a < c)
    <2>1. SUFFICES ASSUME a < c PROVE FALSE  OBVIOUS
    <2>2. Round(j)[p][a] < Round(j)[p][c]  BY <1>7, <1>13, <2>1, RoundsGrow
    <2>3. QED  BY <1>11, <2>2
  <1>15. ~(c < a)
    <2>1. SUFFICES ASSUME c < a PROVE FALSE  OBVIOUS
    <2>2. Round(j)[p][c] < Round(j)[p][a]  BY <1>7, <1>13, <2>1, RoundsGrow
    <2>3. QED  BY <1>11, <2>2
  <1>16. QED  BY <1>1, <1>2, <1>3, <1>5, <1>12, <1>14, <1>15

(* The same cells, on both sides. *)
LEMMA SameCells ==
    ASSUME NEW j, NEW p, NEW c, NEW q, NEW d, NEW l, Meets(j, p, c, q, d, l),
           NEW L, L = Lanes(j, p, c)[l], NEW M, M = Lanes(j, q, d)[l],
           NEW i \in DOMAIN L.steps, NEW k \in DOMAIN L.steps[i].send
    PROVE  /\ i \in DOMAIN M.steps /\ k \in DOMAIN M.steps[i].recv
           /\ L.steps[i].send[k][3] = Target(M.steps[i])[k][3]
  BY DEF Meets, Fits

LEMMA PieceTransfer ==
    ASSUME AllMatched, NEW j \in Jobs, NEW p \in RanksOf(j), NEW c, NEW q \in RanksOf(j), NEW d, NEW l,
           Meets(j, p, c, q, d, l), Partner(j, p, c, l, q, d), j.calls[p][c].kind = "send",
           NEW i \in DOMAIN Lanes(j, p, c)[l].steps, NEW k \in DOMAIN Lanes(j, p, c)[l].steps[i].send
    PROVE  Arrives(j, q, d, l, i, k, SentValue(j, p, c, l, i, k))
  <1>1. PICK L, M : L = Lanes(j, p, c)[l] /\ M = Lanes(j, q, d)[l]  OBVIOUS
  <1>2. PICK s, u : s = L.steps[i] /\ u = M.steps[i]  OBVIOUS
  <1>3. c \in DOMAIN j.calls[p] /\ d \in DOMAIN j.calls[q] /\ l \in DOMAIN Lanes(j, q, d)
    BY DEF Meets
  <1>4. i \in DOMAIN M.steps /\ s.send[k][3] = Target(u)[k][3]  BY <1>1, <1>2, SameCells
  <1>5. Answers(j, Round(j), p, c, q, d)  BY DEF Partner
  <1>6. Answering(j, q, d) = c /\ j.calls[q][d].peer = p /\ j.calls[q][d].kind = "recv"
    BY <1>3, <1>5, AnsweringIs
  <1>7. DOMAIN M.steps = {1} /\ M.steps[1].into = <<>>
    <2>1. j.calls[q][d].kind \in {"send", "recv"}  BY <1>6
    <2>2. PICK it : it = j.calls[q][d]  OBVIOUS
    <2>3. QED  BY <1>1, <1>3, <2>1, <2>2, PieceSteps
  <1>8. u.into = <<>>  BY <1>2, <1>4, <1>7
  <1>9. SentValue(j, p, c, l, i, k) = Element(c, p, s.send[k][3])
    BY <1>1, <1>2 DEF SentValue, Value
  <1>10. PICK W : W = Before(M, u.recv[k], i) \cup {i}  OBVIOUS
  <1>11. W # {}  BY <1>10
  <1>12. Value(j, q, d, l, W, u.recv[k][3]) = Element(c, p, u.recv[k][3])  BY <1>6, <1>11 DEF Value
  <1>13. Target(u) = u.recv  BY <1>8 DEF Target
  <1>14. QED  BY <1>1, <1>2, <1>4, <1>8, <1>9, <1>10, <1>12, <1>13 DEF Arrives

(* What lane x gathers from rank s is a piece of what rank s gives. *)
LEMMA OfItsRank ==
    ASSUME NEW j \in Jobs, NEW size \in Nat, NEW x \in 0..GatherCount(j, size) - 1, NEW s \in Nat,
           NEW k, k \in GatherLo(j, size, s, x) + 1..GatherHi(j, size, s, x)
    PROVE  k \in s * size + 1..(s + 1) * size
  <1>1. PICK a, b : a = FromCell(j, size, x) /\ b = ToCell(j, size, x)  OBVIOUS
  <1>2. a \in Nat /\ b \in Nat /\ a <= b /\ b <= size  BY <1>1, GatherCellFacts
  <1>3. PICK m \in Nat : m = s * size  OBVIOUS
  <1>4. (s + 1) * size = m + size  BY <1>3
  <1>5. k \in m + a + 1..m + b  BY <1>1, <1>3 DEF GatherLo, GatherHi
  <1>6. k \in m + 1..m + size  BY <1>2, <1>3, <1>5
  <1>7. QED  BY <1>3, <1>4, <1>6

(* What a lane of an all_gather sends it has: it is its own, or received. *)
LEMMA GatherHeld ==
    ASSUME NEW j \in Jobs, NEW r \in RanksOf(j), NEW c \in DOMAIN j.calls[r], j.calls[r][c].kind = "all_gather",
           NEW l \in DOMAIN Lanes(j, r, c), NEW L, L = Lanes(j, r, c)[l], NEW size, size = j.calls[r][c].size,
           NEW i \in DOMAIN L.steps, NEW y \in Range(L.steps[i].send)
    PROVE  Before(L, y, i) # {} \/ y[3] \in r * size + 1..(r + 1) * size
  <1>1. PICK x, d : x = l - 1 /\ d = Direction(x)  OBVIOUS
  <1>2. /\ size \in Nat /\ x \in 0..GatherCount(j, size) - 1 /\ x \in Nat /\ d \in {-1, 1}
        /\ DOMAIN L.steps = 1..j.ranks - 1
        /\ \A n \in 1..j.ranks - 1 : L.steps[n] = GatherStep(j, r, c, size, x, n)
    BY <1>1, GatherLaneHas
  <1>3. i \in 1..j.ranks - 1 /\ i \in Int /\ j.ranks \in Nat  BY <1>2, JobFacts
  <1>4. PICK k : k = i - 1  OBVIOUS
  <1>5. k \in Nat /\ k < i  BY <1>3, <1>4
  <1>6. L.steps[i].send = GatherCut(j, r, c, size, Seat(j, r, d, k), x)
    <2>1. PICK s : s = GatherStep(j, r, c, size, x, i)  OBVIOUS
    <2>2. s.send = GatherCut(j, r, c, size, Seat(j, r, d, i - 1), x)  BY <1>1, <2>1, GatherStepIs
    <2>3. QED  BY <1>2, <1>3, <1>4, <2>1, <2>2
  <1>7. y \in Range(GatherCut(j, r, c, size, Seat(j, r, d, k), x))  BY <1>6
  <1>8. CASE k = 0
    <2>1. Seat(j, r, d, k) = r  BY <1>2, <1>8, SeatZero
    <2>2. r \in Nat  BY JobFacts DEF RanksOf
    <2>3. y[3] \in GatherLo(j, size, r, x) + 1..GatherHi(j, size, r, x)
      BY <1>2, <1>7, <2>1, <2>2, GatherCutOut
    <2>4. y[3] \in r * size + 1..(r + 1) * size  BY <1>2, <2>2, <2>3, OfItsRank
    <2>5. QED  BY <2>4
  <1>9. CASE k # 0
    <2>1. k \in 1..j.ranks - 1 /\ k \in DOMAIN L.steps  BY <1>2, <1>3, <1>4, <1>5, <1>9
    <2>2. PICK s : s = L.steps[k]  OBVIOUS
    <2>3. s = GatherStep(j, r, c, size, x, k)  BY <1>2, <2>1, <2>2
    <2>4. s.recv = GatherCut(j, r, c, size, Seat(j, r, d, k), x) /\ s.into = <<>>
      BY <1>1, <2>3, GatherStepIs
    <2>5. y \in Written(L.steps[k])  BY <1>7, <2>2, <2>4 DEF Written
    <2>6. k \in Before(L, y, i)  BY <1>5, <2>1, <2>5 DEF Before, Writers
    <2>7. QED  BY <2>6
  <1>10. QED  BY <1>8, <1>9

LEMMA GatherTransfer ==
    ASSUME AllMatched, NEW j \in Jobs, NEW p \in RanksOf(j), NEW c, NEW q \in RanksOf(j), NEW d, NEW l,
           Meets(j, p, c, q, d, l), Partner(j, p, c, l, q, d), j.calls[p][c].kind = "all_gather",
           NEW i \in DOMAIN Lanes(j, p, c)[l].steps, NEW k \in DOMAIN Lanes(j, p, c)[l].steps[i].send
    PROVE  Arrives(j, q, d, l, i, k, SentValue(j, p, c, l, i, k))
  <1>1. PICK L, M : L = Lanes(j, p, c)[l] /\ M = Lanes(j, q, d)[l]  OBVIOUS
  <1>2. PICK s, u : s = L.steps[i] /\ u = M.steps[i]  OBVIOUS
  <1>3. /\ c \in DOMAIN j.calls[p] /\ d \in DOMAIN j.calls[q] /\ l \in DOMAIN Lanes(j, q, d)
        /\ l \in DOMAIN Lanes(j, p, c)
    BY DEF Meets
  <1>4. i \in DOMAIN M.steps /\ s.send[k][3] = Target(u)[k][3]  BY <1>1, <1>2, SameCells
  <1>5. d = c  BY DEF Partner
  <1>6. PICK size : size = j.calls[p][c].size  OBVIOUS
  <1>7. j.calls[q][d].kind = "all_gather" /\ j.calls[q][d].size = size
    <2>1. j.calls[p][c].kind \in Collectives  BY DEF Collectives
    <2>2. QED  BY <1>3, <1>5, <1>6, <2>1, CollectiveCalls
  <1>8. u.into = <<>>
    <2>1. PICK x : x = l - 1  OBVIOUS
    <2>2. DOMAIN M.steps = 1..j.ranks - 1 /\ \A n \in 1..j.ranks - 1 : M.steps[n] = GatherStep(j, q, d, size, x, n)
      BY <1>1, <1>3, <1>7, <2>1, GatherLaneHas
    <2>3. u = GatherStep(j, q, d, size, x, i)  BY <1>2, <1>4, <2>2
    <2>4. QED  BY <2>3, GatherStepIs
  <1>9. PICK y, V, W : y = s.send[k] /\ V = Before(L, y, i) /\ W = Before(M, u.recv[k], i) \cup {i}
    OBVIOUS
  <1>10. y \in Range(s.send)  BY <1>2, <1>1, <1>9 DEF Range
  <1>11. V # {} \/ y[3] \in p * size + 1..(p + 1) * size
    BY <1>1, <1>2, <1>3, <1>6, <1>9, <1>10, GatherHeld
  <1>12. SentValue(j, p, c, l, i, k) = Value(j, p, c, l, V, y[3])  BY <1>1, <1>2, <1>9 DEF SentValue
  <1>13. Value(j, p, c, l, V, y[3]) = Element(c, (y[3] - 1) \div size, ((y[3] - 1) % size) + 1)
    BY <1>6, <1>11 DEF Value
  <1>14. W # {}  BY <1>9
  <1>15. Value(j, q, d, l, W, u.recv[k][3]) = Element(c, (u.recv[k][3] - 1) \div size, ((u.recv[k][3] - 1) % size) + 1)
    BY <1>5, <1>7, <1>14 DEF Value
  <1>16. Target(u) = u.recv  BY <1>8 DEF Target
  <1>17. u.recv[k][3] = y[3]  BY <1>4, <1>9, <1>16
  <1>18. SentValue(j, p, c, l, i, k) = Value(j, q, d, l, W, u.recv[k][3])
    BY <1>12, <1>13, <1>15, <1>17
  <1>19. QED  BY <1>1, <1>2, <1>8, <1>9, <1>18 DEF Arrives

LEMMA GiversAreRanks ==
    ASSUME NEW j \in Jobs, NEW r \in RanksOf(j), NEW d \in {-1, 1}, NEW m, NEW W
    PROVE  SeatsOfSteps(j, r, d, m, W) \subseteq RanksOf(j)
  <1>1. \A v \in Int : Seat(j, r, d, v) \in RanksOf(j)  BY SeatFacts
  <1>2. ASSUME NEW g \in SeatsOfSteps(j, r, d, m, W) PROVE g \in RanksOf(j)
    <2>1. CASE g = r  BY <2>1
    <2>2. CASE g # r
      <3>1. PICK y \in W : g \in {Seat(j, r, d, v) : v \in 1..((y - 1) \div m) + 1}
        BY <1>2, <2>2 DEF SeatsOfSteps
      <3>2. PICK v \in 1..((y - 1) \div m) + 1 : g = Seat(j, r, d, v)  BY <3>1
      <3>3. v \in Int  BY <3>2
      <3>4. QED  BY <1>1, <3>2, <3>3
    <2>3. QED  BY <2>1, <2>2
  <1>3. QED  BY <1>2

LEMMA AllGive ==
    ASSUME NEW j \in Jobs, NEW r \in RanksOf(j), NEW d \in {-1, 1}, NEW m, NEW W, NEW i \in W,
           NEW K \in Nat, K = (i - 1) \div m, K + 2 >= j.ranks
    PROVE  SeatsOfSteps(j, r, d, m, W) = RanksOf(j)
  <1>1. PICK R \in Nat, o \in Nat : R = j.ranks /\ o = 0  BY JobFacts
  <1>2. R \in Nat  BY <1>1, JobFacts
  <1>3. ASSUME NEW g \in RanksOf(j) PROVE g \in SeatsOfSteps(j, r, d, m, W)
    <2>1. PICK v \in o..o + j.ranks - 1 : Seat(j, r, d, v) = g  BY <1>3, SeatsCover
    <2>2. v \in 0..K + 1  BY <1>1, <1>2, <2>1
    <2>3. CASE v = 0
      <3>1. g = r  BY <2>1, <2>3, SeatZero
      <3>2. QED  BY <3>1 DEF SeatsOfSteps
    <2>4. CASE v # 0
      <3>1. v \in 1..((i - 1) \div m) + 1  BY <2>2, <2>4
      <3>2. QED  BY <2>1, <3>1 DEF SeatsOfSteps
    <2>5. QED  BY <2>3, <2>4
  <1>4. QED  BY <1>3, GiversAreRanks

LEMMA AllBefore ==
    ASSUME NEW j \in Jobs, NEW r \in RanksOf(j), NEW d \in {-1, 1}, NEW K \in Nat, K + 1 >= j.ranks
    PROVE  SeatsTo(j, r, d, K) = RanksOf(j)
  <1>1. PICK R \in Nat, o \in Nat : R = j.ranks /\ o = 0  BY JobFacts
  <1>2. R \in Nat  BY <1>1, JobFacts
  <1>3. \A v \in Int : Seat(j, r, d, v) \in RanksOf(j)  BY SeatFacts
  <1>4. ASSUME NEW g \in RanksOf(j) PROVE g \in SeatsTo(j, r, d, K)
    <2>1. PICK v \in o..o + j.ranks - 1 : Seat(j, r, d, v) = g  BY <1>4, SeatsCover
    <2>2. v \in 0..K  BY <1>1, <1>2, <2>1
    <2>3. QED  BY <2>1, <2>2 DEF SeatsTo
  <1>5. SeatsTo(j, r, d, K) \subseteq RanksOf(j)  BY <1>3 DEF SeatsTo
  <1>6. QED  BY <1>4, <1>5

LEMMA NoneGives ==
    ASSUME NEW j, NEW r, NEW d, NEW m
    PROVE  SeatsOfSteps(j, r, d, m, {}) = {r}
  BY DEF SeatsOfSteps

OneMoreGives(j, p, q, d, m, i, K) ==
    /\ SeatsOfSteps(j, q, d, m, {i}) = {q} \cup SeatsTo(j, p, d, K)
    /\ {q} \cap SeatsTo(j, p, d, K) = {}

(* What a step adds is what the one before it in the ring had summed up. *)
LEMMA OneGives ==
    ASSUME NEW j \in Jobs, NEW p \in RanksOf(j), NEW d \in {-1, 1}, NEW q, q = NextRank(j, p, d),
           NEW m, NEW i, NEW K \in Nat, K = (i - 1) \div m, K + 1 < j.ranks
    PROVE  OneMoreGives(j, p, q, d, m, i, K)
  <1>1. q \in RanksOf(j)
    <2>1. PICK k \in Nat : k = 0  OBVIOUS
    <2>2. QED  BY <2>1, SeatShift
  <1>2. \A k \in Nat : Seat(j, q, d, k + 1) = Seat(j, p, d, k)  BY SeatShift
  <1>3. ASSUME NEW v \in 1..K + 1 PROVE Seat(j, q, d, v) \in SeatsTo(j, p, d, K)
    <2>1. PICK k \in Nat : k = v - 1 /\ v = k + 1 /\ k \in 0..K  BY <1>3
    <2>2. QED  BY <1>2, <2>1 DEF SeatsTo
  <1>4. ASSUME NEW k \in 0..K PROVE \E v \in 1..K + 1 : Seat(j, p, d, k) = Seat(j, q, d, v)
    <2>1. k + 1 \in 1..K + 1  BY <1>4
    <2>2. QED  BY <1>2, <1>4, <2>1
  <1>5. {Seat(j, q, d, v) : v \in 1..K + 1} = SeatsTo(j, p, d, K)
    <2>1. {Seat(j, q, d, v) : v \in 1..K + 1} \subseteq SeatsTo(j, p, d, K)  BY <1>3
    <2>2. SeatsTo(j, p, d, K) \subseteq {Seat(j, q, d, v) : v \in 1..K + 1}  BY <1>4 DEF SeatsTo
    <2>3. QED  BY <2>1, <2>2
  <1>6. SeatsOfSteps(j, q, d, m, {i}) = {q} \cup {Seat(j, q, d, v) : v \in 1..K + 1}
    BY DEF SeatsOfSteps
  <1>7. ASSUME NEW v \in 1..K + 1 PROVE Seat(j, q, d, v) # q
    <2>1. SUFFICES ASSUME Seat(j, q, d, v) = q PROVE FALSE  OBVIOUS
    <2>2. PICK o \in Int : o = 0  OBVIOUS
    <2>3. Seat(j, q, d, o) = q  BY <1>1, <2>2, SeatZero
    <2>4. PICK R : R = j.ranks  OBVIOUS
    <2>5. R \in Nat /\ v \in Int /\ K + 1 < R  BY <2>4, JobFacts
    <2>6. v - o < R /\ o - v < R  BY <2>2, <2>5, <1>7
    <2>7. Seat(j, q, d, v) = Seat(j, q, d, o)  BY <2>1, <2>3
    <2>8. v = o  BY <1>1, <2>4, <2>5, <2>6, <2>7, SeatNear
    <2>9. QED  BY <2>2, <2>8
  <1>8. q \notin SeatsTo(j, p, d, K)  BY <1>5, <1>7
  <1>9. QED  BY <1>5, <1>6, <1>8 DEF OneMoreGives

(* Where the scatter and the gather part. *)
LEMMA HalfWay ==
    ASSUME NEW j \in Jobs, NEW n \in Nat \ {0}, NEW t \in Nat, NEW K, K = t \div Packets(j, n)
    PROVE  K \in Nat /\ (t < Half(j, n) <=> K + 1 < j.ranks)
  <1>1. PICK m, R, h : m = Packets(j, n) /\ R = j.ranks /\ h = Half(j, n)  OBVIOUS
  <1>2. m \in Nat \ {0} /\ R \in Nat /\ R >= 2 /\ h \in Nat  BY <1>1, PacketFacts, JobFacts
  <1>3. PICK a \in Nat : a = R - 1  BY <1>2
  <1>4. h = a * m  BY <1>1, <1>3 DEF Half
  <1>5. t \in Int  OBVIOUS
  <1>6. PICK z \in Int, y \in 0..m - 1 : t = m * z + y /\ z = t \div m  BY <1>2, <1>5, DivFacts
  <1>7. z = K  BY <1>1, <1>6
  <1>8. t <= t /\ t \div m \in Nat
    <2>1. t <= t  OBVIOUS
    <2>2. QED  BY <1>2, <2>1, DivMonotone
  <1>9. (a * m) \div m = a  BY <1>2, DivOfMultiple
  <1>10. ASSUME ~(t < h) PROVE K >= a
    <2>1. h <= t  BY <1>2, <1>10
    <2>2. h \div m <= t \div m  BY <1>2, <2>1, DivMonotone
    <2>3. QED  BY <1>4, <1>6, <1>7, <1>9, <2>2
  <1>11. ASSUME K >= a PROVE ~(t < h)
    <2>1. PICK e \in Nat : e = z - a  BY <1>3, <1>7, <1>11, <1>6
    <2>2. z = a + e  BY <2>1, <1>3, <1>6
    <2>3. m * z = m * a + m * e  BY <1>2, <1>3, <2>1, <2>2
    <2>4. m * e \in Nat /\ m * a \in Nat /\ m * a = a * m  BY <1>2, <1>3, <2>1
    <2>5. t >= m * a  BY <1>6, <2>3, <2>4
    <2>6. QED  BY <1>2, <1>4, <2>4, <2>5
  <1>12. K \in Nat  BY <1>6, <1>7, <1>8
  <1>13. K >= a <=> ~(K + 1 < R)  BY <1>2, <1>3, <1>12
  <1>14. QED  BY <1>1, <1>10, <1>11, <1>12, <1>13

(* The steps of the scatter write different cells. *)
LEMMA ScatterFirst ==
    ASSUME NEW j \in Jobs, NEW r \in RanksOf(j), NEW c, NEW l, NEW L, NEW size, NEW off, NEW n, NEW d,
           Reduces(j, r, c, l, L, size, off, n, d), NEW i \in DOMAIN L.steps,
           i - 1 < Half(j, n), NEW y \in Range(L.steps[i].into)
    PROVE  Before(L, y, i) = {} /\ ((L.steps[i].into # <<>>) => i \in Writers(L, y))
  <1>1. PICK m, h, t : m = Packets(j, n) /\ h = Half(j, n) /\ t = i - 1  OBVIOUS
  <1>2. /\ off \in Nat /\ n \in Nat \ {0} /\ d \in {-1, 1}
        /\ h \in Nat \ {0} /\ m \in Nat \ {0} /\ DOMAIN L.steps = 1..2 * h
    BY <1>1 DEF Reduces
  <1>3. t \in Nat /\ i = t + 1 /\ t < h /\ L.steps[i].into = ReduceIn(j, r, c, off, n, d, t)
    <2>1. PICK s : s = L.steps[i]  OBVIOUS
    <2>2. t \in Nat /\ i = t + 1 /\ s.into = IF t < h THEN ReduceIn(j, r, c, off, n, d, t) ELSE <<>>
      BY <1>1, <2>1, ReduceStepHas
    <2>3. QED  BY <1>1, <2>1, <2>2
  <1>4. y \in Range(ReduceIn(j, r, c, off, n, d, t))  BY <1>3
  <1>5. ASSUME NEW z \in Before(L, y, i) PROVE FALSE
    <2>1. z \in DOMAIN L.steps /\ y \in Written(L.steps[z]) /\ z < i  BY <1>5 DEF Before, Writers
    <2>2. z \in 1..2 * h  BY <1>2, <2>1
    <2>3. PICK u \in Nat : u = z - 1 /\ u < t  BY <1>3, <2>1, <2>2
    <2>4. y \in Range(ReduceIn(j, r, c, off, n, d, u))  BY <2>1, <2>3, ReduceWrites
    <2>5. /\ j \in Jobs /\ r \in RanksOf(j) /\ off \in Nat /\ n \in Nat \ {0} /\ d \in {-1, 1} /\ t \in Nat /\ u \in Nat
          /\ y \in Range(ReduceIn(j, r, c, off, n, d, t)) /\ y \in Range(ReduceIn(j, r, c, off, n, d, u))
      BY <1>2, <1>3, <1>4, <2>4
    <2>6. Beside(j, r, d, n, t, u)  BY ONLY <2>5, InMeetsIn
    <2>7. PICK K, M : K = t \div m /\ M = u \div m  OBVIOUS
    <2>8. K \in Nat /\ K + 1 < j.ranks  BY <1>1, <1>2, <1>3, <2>7, HalfWay
    <2>9. M \in Nat /\ M + 1 < j.ranks
      <3>1. u < h  BY <1>2, <1>3, <2>3
      <3>2. QED  BY <1>1, <1>2, <2>3, <2>7, <3>1, HalfWay
    <2>10. Seat(j, r, d, K + 1) = Seat(j, r, d, M + 1) /\ t % m = u % m
      BY <1>1, <2>6, <2>7 DEF Beside
    <2>11. PICK R : R = j.ranks  OBVIOUS
    <2>12. PICK a \in Int, b \in Int : a = K + 1 /\ b = M + 1  BY <2>8, <2>9
    <2>13. R \in Nat /\ a - b < R /\ b - a < R  BY <2>8, <2>9, <2>11, <2>12, JobFacts
    <2>14. Seat(j, r, d, a) = Seat(j, r, d, b)  BY <2>10, <2>12
    <2>15. a = b  BY <1>2, <2>11, <2>13, <2>14, SeatNear
    <2>16. K = M  BY <2>8, <2>9, <2>12, <2>15
    <2>17. t \in Int /\ u \in Int  BY <1>3, <2>3
    <2>18. t = m * (t \div m) + (t % m)  BY <1>2, <2>17, DivFacts
    <2>19. u = m * (u \div m) + (u % m)  BY <1>2, <2>17, DivFacts
    <2>20. t = u  BY <2>7, <2>10, <2>16, <2>18, <2>19
    <2>21. QED  BY <1>3, <2>3, <2>20
  <1>6. L.steps[i].into # <<>> => i \in Writers(L, y)  BY DEF Writers, Written
  <1>7. QED  BY <1>5, <1>6

(* What has been summed up: in a packet, and in the padding. *)
LEMMA ReduceValue ==
    ASSUME NEW j, NEW r, NEW c, NEW l, NEW L, NEW size, NEW off, NEW n, NEW d,
           Reduces(j, r, c, l, L, size, off, n, d), NEW W, NEW k
    PROVE  Value(j, r, c, l, W, k) = IF k > size THEN EmptyBag ELSE Gifts(c, Givers(j, r, size, l, W), k)
  BY DEF Reduces, Value, Gifts

LEMMA ReduceGivers ==
    ASSUME NEW j, NEW r, NEW c, NEW l, NEW L, NEW size, NEW off, NEW n, NEW d,
           Reduces(j, r, c, l, L, size, off, n, d), NEW W
    PROVE  Givers(j, r, size, l, W) = SeatsOfSteps(j, r, d, Packets(j, n), W)
  BY DEF Reduces, Givers, SeatsOfSteps

(* In the scatter, a step adds to what its rank gives what all the ranks     *)
(* before it have given; in the gather, it passes on what all have given.    *)
LEMMA ScatterAdds ==
    ASSUME NEW j \in Jobs, NEW p \in RanksOf(j), NEW q \in RanksOf(j), NEW c, NEW l,
           NEW L, NEW M, NEW size, NEW off, NEW n, NEW d, q = NextRank(j, p, d),
           Reduces(j, p, c, l, L, size, off, n, d), Reduces(j, q, c, l, M, size, off, n, d),
           NEW i \in DOMAIN L.steps, i \in DOMAIN M.steps, i - 1 < Half(j, n),
           NEW x \in Range(L.steps[i].send), NEW y \in Range(M.steps[i].into), NEW k
    PROVE  Value(j, q, c, l, Before(M, y, i), k) (+) Value(j, p, c, l, Before(L, x, i), k)
              = Value(j, q, c, l, Before(M, y, i) \cup {i}, k)
  <1>1. PICK m, K : m = Packets(j, n) /\ K = (i - 1) \div m  OBVIOUS
  <1>2. PICK a, b, e : /\ a = Value(j, q, c, l, Before(M, y, i), k) /\ b = Value(j, p, c, l, Before(L, x, i), k)
                       /\ e = Value(j, q, c, l, Before(M, y, i) \cup {i}, k)
    OBVIOUS
  <1>3. n \in Nat \ {0} /\ d \in {-1, 1}  BY DEF Reduces
  <1>4. PICK t : t = i - 1  OBVIOUS
  <1>5. t \in Nat
    <2>1. PICK s : s = L.steps[i]  OBVIOUS
    <2>2. QED  BY <1>4, <2>1, ReduceStepHas
  <1>6. K \in Nat /\ K + 1 < j.ranks
    <2>1. K = t \div Packets(j, n) /\ t < Half(j, n)  BY <1>1, <1>4
    <2>2. QED  BY <1>3, <1>5, <2>1, HalfWay
  <1>7. Givers(j, p, size, l, Before(L, x, i)) = SeatsTo(j, p, d, K)
    <2>1. PICK W : W = Before(L, x, i)  OBVIOUS
    <2>2. K = (i - 1) \div Packets(j, n)  BY <1>1
    <2>3. Givers(j, p, size, l, W) = SeatsTo(j, p, d, K)  BY <2>1, <2>2, SentGivers
    <2>4. QED  BY <2>1, <2>3
  <1>8. Before(M, y, i) = {}  BY ScatterFirst
  <1>9. Givers(j, q, size, l, {}) = {q}
    <2>1. PICK W : W = {}  OBVIOUS
    <2>2. Givers(j, q, size, l, W) = SeatsOfSteps(j, q, d, m, W)  BY <1>1, ReduceGivers
    <2>3. SeatsOfSteps(j, q, d, m, {}) = {q}  BY NoneGives
    <2>4. QED  BY <2>1, <2>2, <2>3
  <1>10. /\ Givers(j, q, size, l, {i}) = {q} \cup SeatsTo(j, p, d, K)
         /\ {q} \cap SeatsTo(j, p, d, K) = {}
    <2>1. PICK W : W = {i}  OBVIOUS
    <2>2. Givers(j, q, size, l, W) = SeatsOfSteps(j, q, d, m, W)  BY <1>1, ReduceGivers
    <2>3. /\ j \in Jobs /\ p \in RanksOf(j) /\ d \in {-1, 1} /\ q = NextRank(j, p, d)
          /\ K \in Nat /\ K = (i - 1) \div m /\ K + 1 < j.ranks
      BY <1>1, <1>3, <1>6
    <2>4. OneMoreGives(j, p, q, d, m, i, K)  BY ONLY <2>3, OneGives
    <2>5. QED  BY <2>1, <2>2, <2>4 DEF OneMoreGives
  <1>11. PICK G, H : G = {q} /\ H = SeatsTo(j, p, d, K)  OBVIOUS
  <1>12. PICK V, U : V = {} /\ U = {i}  OBVIOUS
  <1>13. a = IF k > size THEN EmptyBag ELSE Gifts(c, G, k)
    <2>1. a = Value(j, q, c, l, V, k)  BY <1>2, <1>8, <1>12
    <2>2. Value(j, q, c, l, V, k) = IF k > size THEN EmptyBag ELSE Gifts(c, Givers(j, q, size, l, V), k)
      BY ReduceValue
    <2>3. QED  BY <2>1, <2>2, <1>9, <1>11, <1>12
  <1>14. b = IF k > size THEN EmptyBag ELSE Gifts(c, H, k)
    <2>1. PICK W : W = Before(L, x, i)  OBVIOUS
    <2>2. Value(j, p, c, l, W, k) = IF k > size THEN EmptyBag ELSE Gifts(c, Givers(j, p, size, l, W), k)
      BY ReduceValue
    <2>3. QED  BY <2>1, <2>2, <1>2, <1>7, <1>11
  <1>15. e = IF k > size THEN EmptyBag ELSE Gifts(c, G \cup H, k)
    <2>1. e = Value(j, q, c, l, U, k)
      <3>1. Before(M, y, i) \cup {i} = U  BY <1>8, <1>12
      <3>2. QED  BY <1>2, <3>1
    <2>2. Value(j, q, c, l, U, k) = IF k > size THEN EmptyBag ELSE Gifts(c, Givers(j, q, size, l, U), k)
      BY ReduceValue
    <2>3. QED  BY <2>1, <2>2, <1>10, <1>11, <1>12
  <1>16. a (+) b = e
    <2>1. CASE k > size  BY <2>1, <1>13, <1>14, <1>15, EmptySum
    <2>2. CASE ~(k > size)
      <3>1. G \cap H = {}  BY <1>10, <1>11
      <3>2. Gifts(c, G, k) (+) Gifts(c, H, k) = Gifts(c, G \cup H, k)  BY <3>1, GiftsSum
      <3>3. QED  BY <2>2, <3>2, <1>13, <1>14, <1>15
    <2>3. QED  BY <2>1, <2>2
  <1>17. QED  BY <1>2, <1>16

LEMMA GatherPasses ==
    ASSUME NEW j \in Jobs, NEW p \in RanksOf(j), NEW q \in RanksOf(j), NEW c, NEW l,
           NEW L, NEW M, NEW size, NEW off, NEW n, NEW d,
           Reduces(j, p, c, l, L, size, off, n, d), Reduces(j, q, c, l, M, size, off, n, d),
           NEW i \in DOMAIN L.steps, ~(i - 1 < Half(j, n)),
           NEW x \in Range(L.steps[i].send), NEW W, W = Before(L, x, i), NEW U, i \in U, NEW k
    PROVE  Value(j, p, c, l, W, k) = Value(j, q, c, l, U, k)
  <1>1. PICK m, K : m = Packets(j, n) /\ K = (i - 1) \div m  OBVIOUS
  <1>3. n \in Nat \ {0} /\ d \in {-1, 1}  BY DEF Reduces
  <1>4. PICK t : t = i - 1  OBVIOUS
  <1>5. t \in Nat
    <2>1. PICK s : s = L.steps[i]  OBVIOUS
    <2>2. QED  BY <1>4, <2>1, ReduceStepHas
  <1>6. K \in Nat /\ K + 1 >= j.ranks
    <2>1. K = t \div Packets(j, n) /\ ~(t < Half(j, n))  BY <1>1, <1>4
    <2>2. K \in Nat /\ ~(K + 1 < j.ranks)  BY <1>3, <1>5, <2>1, HalfWay
    <2>3. PICK R \in Nat : R = j.ranks  BY JobFacts
    <2>4. QED  BY <2>2, <2>3
  <1>7. Givers(j, p, size, l, W) = RanksOf(j)
    <2>1. K = (i - 1) \div Packets(j, n)  BY <1>1
    <2>2. Givers(j, p, size, l, W) = SeatsTo(j, p, d, K)  BY <2>1, SentGivers
    <2>3. SeatsTo(j, p, d, K) = RanksOf(j)  BY <1>3, <1>6, AllBefore
    <2>4. QED  BY <2>2, <2>3
  <1>8. Givers(j, q, size, l, U) = RanksOf(j)
    <2>1. Givers(j, q, size, l, U) = SeatsOfSteps(j, q, d, m, U)  BY <1>1, ReduceGivers
    <2>2. i \in U  OBVIOUS
    <2>3. K + 2 >= j.ranks
      <3>1. PICK R \in Nat : R = j.ranks  BY JobFacts
      <3>2. QED  BY <1>6, <3>1
    <2>4. SeatsOfSteps(j, q, d, m, U) = RanksOf(j)  BY <1>1, <1>3, <1>6, <2>2, <2>3, AllGive
    <2>5. QED  BY <2>1, <2>4
  <1>9. Value(j, p, c, l, W, k) = IF k > size THEN EmptyBag ELSE Gifts(c, RanksOf(j), k)
    <2>1. Value(j, p, c, l, W, k) = IF k > size THEN EmptyBag ELSE Gifts(c, Givers(j, p, size, l, W), k)
      BY ReduceValue
    <2>2. QED  BY <2>1, <1>7
  <1>10. Value(j, q, c, l, U, k) = IF k > size THEN EmptyBag ELSE Gifts(c, RanksOf(j), k)
    <2>1. Value(j, q, c, l, U, k) = IF k > size THEN EmptyBag ELSE Gifts(c, Givers(j, q, size, l, U), k)
      BY ReduceValue
    <2>2. QED  BY <2>1, <1>8
  <1>11. QED  BY <1>9, <1>10

Listed(cells) == Len(cells) \in Nat /\ DOMAIN cells = 1..Len(cells)
LEMMA InIsSeq ==
    ASSUME NEW j \in Jobs, NEW n \in Nat \ {0}, NEW r \in RanksOf(j), NEW c, NEW d \in {-1, 1},
           NEW off \in Nat, NEW t \in Nat
    PROVE  Listed(ReduceIn(j, r, c, off, n, d, t))
  <1>1. PICK S : S = Interval(r, c, off, off + n)  OBVIOUS
  <1>2. Interval(r, c, off, off + n) \subseteq S  BY <1>1
  <1>3. ReduceIn(j, r, c, off, n, d, t) \in Seq(S)  BY <1>2, ReduceOutFacts
  <1>4. PICK in \in Seq(S) : in = ReduceIn(j, r, c, off, n, d, t)  BY <1>3
  <1>5. Len(in) \in Nat /\ DOMAIN in = 1..Len(in)  OBVIOUS
  <1>6. QED  BY <1>4, <1>5 DEF Listed

LEMMA ReduceTransfer ==
    ASSUME AllMatched, NEW j \in Jobs, NEW p \in RanksOf(j), NEW c, NEW q \in RanksOf(j), NEW d, NEW l,
           Meets(j, p, c, q, d, l), Partner(j, p, c, l, q, d), j.calls[p][c].kind = "all_reduce",
           NEW i \in DOMAIN Lanes(j, p, c)[l].steps, NEW k \in DOMAIN Lanes(j, p, c)[l].steps[i].send
    PROVE  Arrives(j, q, d, l, i, k, SentValue(j, p, c, l, i, k))
  <1>1. PICK L, M : L = Lanes(j, p, c)[l] /\ M = Lanes(j, q, d)[l]  OBVIOUS
  <1>2. PICK s, u : s = L.steps[i] /\ u = M.steps[i]  OBVIOUS
  <1>3. /\ c \in DOMAIN j.calls[p] /\ d \in DOMAIN j.calls[q] /\ l \in DOMAIN Lanes(j, q, d)
        /\ l \in DOMAIN Lanes(j, p, c)
    BY DEF Meets
  <1>4. i \in DOMAIN M.steps /\ k \in DOMAIN u.recv /\ s.send[k][3] = Target(u)[k][3]
    BY <1>1, <1>2, SameCells
  <1>5. d = c /\ q = NextRank(j, p, ReduceDir(j, j.calls[p][c].size, l))  BY DEF Partner
  <1>6. j.calls[q][c].kind = "all_reduce" /\ j.calls[q][c].size = j.calls[p][c].size
    <2>1. j.calls[p][c].kind \in Collectives  BY DEF Collectives
    <2>2. QED  BY <1>3, <2>1, CollectiveCalls
  <1>7. PICK size, off, n, dir : Reduces(j, p, c, l, L, size, off, n, dir)
    <2>1. \E X, size, off, n, dir : Reduces(j, p, c, l, X, size, off, n, dir)  BY <1>3, IsReduce
    <2>2. PICK X, size, off, n, dir : Reduces(j, p, c, l, X, size, off, n, dir)  BY <2>1
    <2>3. X = L  BY <1>1, <2>2 DEF Reduces
    <2>4. QED  BY <2>2, <2>3
  <1>8. Reduces(j, q, c, l, M, size, off, n, dir)
    <2>1. \E X, a, b, e, f : Reduces(j, q, c, l, X, a, b, e, f)  BY <1>3, <1>5, <1>6, IsReduce
    <2>2. PICK X, a, b, e, f : Reduces(j, q, c, l, X, a, b, e, f)  BY <2>1
    <2>3. X = M /\ a = j.calls[q][c].size /\ e = ReduceLen(j, a, l) /\ f = ReduceDir(j, a, l) /\ b = ReduceOff(j, a, l)
      BY <1>1, <1>5, <2>2 DEF Reduces
    <2>4. size = j.calls[p][c].size /\ n = ReduceLen(j, size, l) /\ dir = ReduceDir(j, size, l) /\ off = ReduceOff(j, size, l)
      BY <1>7 DEF Reduces
    <2>5. a = size  BY <1>6, <2>3, <2>4
    <2>6. e = n /\ f = dir /\ b = off  BY <2>3, <2>4, <2>5
    <2>7. QED  BY <2>2, <2>3, <2>5, <2>6
  <1>9. q = NextRank(j, p, dir)  BY <1>5, <1>7 DEF Reduces
  <1>10. PICK t, in : t = i - 1 /\ in = ReduceIn(j, q, c, off, n, dir, t)  OBVIOUS
  <1>11. /\ t \in Nat /\ u.recv = IF t < Half(j, n) THEN ReduceSlot(j, q, c, l - 1, off, n, dir, t) ELSE in
         /\ u.into = IF t < Half(j, n) THEN in ELSE <<>>
    BY <1>2, <1>4, <1>8, <1>10, ReduceStepHas
  <1>12. PICK x, y : x = s.send[k] /\ y = Target(u)[k]  OBVIOUS
  <1>13. x \in Range(s.send)  BY <1>1, <1>2, <1>12 DEF Range
  <1>14. SentValue(j, p, c, l, i, k) = Value(j, p, c, l, Before(L, x, i), x[3])
    BY <1>1, <1>2, <1>12 DEF SentValue
  <1>15. x[3] = y[3]  BY <1>4, <1>12
  <1>16. i \in DOMAIN L.steps  BY <1>1
  <1>17. CASE t < Half(j, n)
    <2>1. u.into = in /\ u.recv = ReduceSlot(j, q, c, l - 1, off, n, dir, t)  BY <1>11, <1>17
    <2>2. Len(in) \in Nat /\ DOMAIN u.recv = 1..Len(in) /\ DOMAIN in = 1..Len(in)
      <3>0. off \in Nat /\ n \in Nat \ {0} /\ dir \in {-1, 1}  BY <1>8 DEF Reduces
      <3>a. /\ j \in Jobs /\ q \in RanksOf(j) /\ off \in Nat /\ n \in Nat \ {0} /\ dir \in {-1, 1}
            /\ t \in Nat /\ in = ReduceIn(j, q, c, off, n, dir, t)
        BY <3>0, <1>10, <1>11
      <3>b. Listed(ReduceIn(j, q, c, off, n, dir, t))  BY ONLY <3>a, InIsSeq
      <3>c. Listed(in)  BY ONLY <3>a, <3>b
      <3>1. Len(in) \in Nat /\ DOMAIN in = 1..Len(in)  BY ONLY <3>c DEF Listed
      <3>d. t \in Nat  BY <1>11
      <3>e. t % 2 \in {0, 1}  BY ONLY <3>d
      <3>2. PICK b \in {0, 1}, z \in Nat : b = t % 2 /\ z = Len(in)  BY ONLY <3>1, <3>e
      <3>3. u.recv = Buffer(q, l - 1, b, z)  BY <1>10, <2>1, <3>2 DEF ReduceSlot
      <3>4. DOMAIN u.recv = 1..z  BY <3>3, BufferHas
      <3>5. QED  BY <3>1, <3>2, <3>4
    <2>3. u.into # <<>>  BY <1>4, <2>1, <2>2
    <2>4. Target(u) = u.into  BY <2>3 DEF Target
    <2>5. y \in Range(u.into)  BY <1>4, <1>12, <2>1, <2>2, <2>4 DEF Range
    <2>6. i - 1 < Half(j, n)  BY <1>10, <1>17
    <2>7. Value(j, q, c, l, Before(M, y, i), y[3]) (+) Value(j, p, c, l, Before(L, x, i), y[3])
                = Value(j, q, c, l, Before(M, y, i) \cup {i}, y[3])
      <3>1. x \in Range(L.steps[i].send) /\ y \in Range(M.steps[i].into)  BY <1>2, <1>13, <2>5
      <3>2. PICK z : z = y[3]  OBVIOUS
      <3>3. Value(j, q, c, l, Before(M, y, i), z) (+) Value(j, p, c, l, Before(L, x, i), z)
                = Value(j, q, c, l, Before(M, y, i) \cup {i}, z)
        BY <1>4, <1>7, <1>8, <1>9, <1>16, <2>6, <3>1, ScatterAdds
      <3>4. QED  BY <3>2, <3>3
    <2>8. y = u.into[k]  BY <1>12, <2>4
    <2>9. QED  BY <1>1, <1>2, <1>5, <1>14, <1>15, <2>3, <2>7, <2>8 DEF Arrives
  <1>18. CASE ~(t < Half(j, n))
    <2>1. u.into = <<>>  BY <1>11, <1>18
    <2>2. y = u.recv[k]  BY <1>12, <2>1 DEF Target
    <2>3. ~(i - 1 < Half(j, n))  BY <1>10, <1>18
    <2>4. PICK U, V, z : U = Before(M, y, i) \cup {i} /\ V = Before(L, x, i) /\ z = y[3]  OBVIOUS
    <2>5. x \in Range(L.steps[i].send) /\ i \in U  BY <1>2, <1>13, <2>4
    <2>6. Value(j, p, c, l, V, z) = Value(j, q, c, l, U, z)
      <3>1. j \in Jobs /\ p \in RanksOf(j) /\ q \in RanksOf(j)  OBVIOUS
      <3>2. V = Before(L, x, i)  BY <2>4
      <3>3. QED  BY ONLY <3>1, <3>2, <1>7, <1>8, <1>16, <2>3, <2>5, GatherPasses
    <2>7. QED  BY <1>1, <1>2, <1>5, <1>14, <1>15, <2>1, <2>2, <2>4, <2>6 DEF Arrives
  <1>19. QED  BY <1>17, <1>18

(* The law of each kind of call: if each end holds what it must, what comes  *)
(* as a tag makes of the receiver's cell what it must hold next; in the      *)
(* scatter of an all_reduce, no contribution is summed up twice.             *)
THEOREM Transfer ==
    ASSUME AllMatched, NEW j \in Jobs, NEW e \in Ends, e[1] = j.ranks, e[2] \in RanksOf(j),
           NEW c, NEW l, NEW t, Moves(j, "send", e, c, l, t),
           NEW p, p = PeerOf[e][2], NEW d, NEW m, Moves(j, "recv", PeerOf[e], d, m, t),
           NEW i, i = t.step, NEW k, k = t.cell
    PROVE  Arrives(j, p, d, m, i, k, SentValue(j, e[2], c, l, i, k))
  <1>1. PICK r : r = e[2]  OBVIOUS
  <1>2. m = l /\ Meets(j, r, c, p, d, l) /\ Partner(j, r, c, l, p, d)
    <2>1. Moves(j, "send", e, c, l, t) /\ Moves(j, "recv", PeerOf[e], d, m, t)  OBVIOUS
    <2>2. m = l /\ Meets(j, e[2], c, PeerOf[e][2], d, l) /\ Partner(j, e[2], c, l, PeerOf[e][2], d)
      BY <2>1, Delivered
    <2>3. QED  BY <1>1, <2>2
  <1>3. /\ c \in DOMAIN j.calls[r] /\ l \in DOMAIN Lanes(j, r, c)
        /\ i \in DOMAIN Lanes(j, r, c)[l].steps /\ k \in DOMAIN Lanes(j, r, c)[l].steps[i].send
    BY <1>1 DEF Moves, MovedBy
  <1>4. r \in RanksOf(j) /\ p \in RanksOf(j)  BY <1>1, PeerFacts
  <1>5. PICK kind : kind = j.calls[r][c].kind  OBVIOUS
  <1>6. kind # "recv"
    <2>1. PICK way \in Ways : way = "send"  BY DEF Ways
    <2>2. Moves(j, way, e, c, l, t)  BY <2>1
    <2>3. j.calls[r][c].kind \in Collectives \/ j.calls[r][c].kind = way  BY <1>1, <2>2, MovesKind
    <2>4. QED  BY <1>5, <2>1, <2>3 DEF Collectives
  <1>7. kind \in {"all_reduce", "all_gather", "send", "recv"}  BY <1>3, <1>4, <1>5, CallFacts
  <1>8. CASE kind = "all_reduce"  BY <1>1, <1>2, <1>3, <1>4, <1>5, <1>8, ReduceTransfer
  <1>9. CASE kind = "all_gather"  BY <1>1, <1>2, <1>3, <1>4, <1>5, <1>9, GatherTransfer
  <1>10. CASE kind = "send"  BY <1>1, <1>2, <1>3, <1>4, <1>5, <1>10, PieceTransfer
  <1>11. QED  BY <1>6, <1>7, <1>8, <1>9, <1>10

-----------------------------------------------------------------------------
(* What cells hold at first *)

(* What cells hold before anything has been received. *)
LEMMA OwnElement ==
    ASSUME NEW r \in Nat, NEW size \in Nat, NEW k, k \in r * size + 1..(r + 1) * size
    PROVE  size > 0 /\ (k - 1) \div size = r /\ ((k - 1) % size) + 1 = k - r * size
  <1>1. PICK m \in Nat : m = r * size  OBVIOUS
  <1>2. (r + 1) * size = m + size  BY <1>1
  <1>3. k \in m + 1..m + size  BY <1>1, <1>2
  <1>4. size \in Nat \ {0}  BY <1>1, <1>3
  <1>5. PICK y \in 0..size - 1 : y = k - 1 - m  BY <1>1, <1>3, <1>4
  <1>6. PICK a \in Int : a = k - 1  BY <1>1, <1>3
  <1>7. size * r = m  BY <1>1
  <1>8. a = size * r + y  BY <1>1, <1>3, <1>5, <1>6, <1>7
  <1>9. r \in Int  OBVIOUS
  <1>10. a % size = y /\ a \div size = r  BY <1>4, <1>8, <1>9, ModUnique
  <1>11. QED  BY <1>1, <1>3, <1>4, <1>5, <1>6, <1>10

LEMMA InitialReduce ==
    ASSUME job \in Jobs, NEW r \in Ranks, NEW c \in DOMAIN job.calls[r], NEW l \in DOMAIN Lanes(job, r, c),
           NEW x \in LaneMemory(Lanes(job, r, c)[l]), IsOut(x), job.calls[r][c].kind = "all_reduce"
    PROVE  Value(job, r, c, l, {}, x[3]) = Initial(r, c, x[3])
  <1>1. PICK j \in Jobs : j = job  OBVIOUS
  <1>2. r \in RanksOf(j) /\ c \in DOMAIN j.calls[r] /\ l \in DOMAIN Lanes(j, r, c) /\ j.calls[r][c].kind = "all_reduce"
    BY <1>1 DEF Ranks
  <1>3. PICK L, size, off, n, d : Reduces(j, r, c, l, L, size, off, n, d)  BY <1>2, IsReduce
  <1>4. /\ L = Lanes(j, r, c)[l] /\ size = j.calls[r][c].size /\ size \in Nat
        /\ n = ReduceLen(j, size, l) /\ d = ReduceDir(j, size, l) /\ off = ReduceOff(j, size, l)
    BY <1>3 DEF Reduces
  <1>5. off \in Nat /\ n \in Nat \ {0} /\ LaneMemory(L) \subseteq ReduceCells(r, c, l - 1, off, n)
    BY <1>2, <1>4, ReduceLaneHas
  <1>6. x[3] \in Nat
    <2>1. x \in ReduceCells(r, c, l - 1, off, n)  BY <1>1, <1>4, <1>5
    <2>2. x \notin BufferCells(r, l - 1)  BY BufferNotOut
    <2>3. x \in Interval(r, c, off, off + n)  BY <2>1, <2>2 DEF ReduceCells
    <2>4. PICK b \in Nat : b = off + n  BY <1>5
    <2>5. x[3] \in off + 1..b  BY <1>5, <2>3, <2>4, IntervalOut
    <2>6. QED  BY <1>5, <2>4, <2>5
  <1>7. PICK k \in Nat : k = x[3]  BY <1>6
  <1>8. PICK W : W = {}  OBVIOUS
  <1>9. Value(j, r, c, l, W, k) = IF k > size THEN EmptyBag ELSE Gifts(c, Givers(j, r, size, l, W), k)
    BY <1>3, ReduceValue
  <1>10. Givers(j, r, size, l, W) = {r}
    <2>1. PICK m : m = Packets(j, n)  OBVIOUS
    <2>2. Givers(j, r, size, l, W) = SeatsOfSteps(j, r, d, m, W)  BY <1>3, <2>1, ReduceGivers
    <2>3. SeatsOfSteps(j, r, d, m, {}) = {r}  BY NoneGives
    <2>4. QED  BY <1>8, <2>2, <2>3
  <1>11. Gifts(c, {r}, k) = Element(c, r, k)
    <2>1. {<<c, g, k>> : g \in {r}} = {<<c, r, k>>}  OBVIOUS
    <2>2. QED  BY <2>1 DEF Gifts, Element
  <1>12. Initial(r, c, k) = IF k <= size THEN Element(c, r, k) ELSE EmptyBag
    BY <1>1, <1>4 DEF Initial
  <1>13. k > size <=> ~(k <= size)  BY <1>4
  <1>14. QED  BY <1>1, <1>7, <1>8, <1>9, <1>10, <1>11, <1>12, <1>13

LEMMA InitialValue ==
    ASSUME job \in Jobs, NEW r \in Ranks, NEW c \in DOMAIN job.calls[r], NEW l \in DOMAIN Lanes(job, r, c),
           NEW x \in LaneMemory(Lanes(job, r, c)[l]), IsOut(x)
    PROVE  Value(job, r, c, l, {}, x[3]) = Initial(r, c, x[3])
  <1>1. PICK kind, size, k : kind = job.calls[r][c].kind /\ size = job.calls[r][c].size /\ k = x[3]
    OBVIOUS
  <1>2. r \in RanksOf(job)  BY DEF Ranks
  <1>3. kind \in {"all_reduce", "all_gather", "send", "recv"} /\ size \in Nat
    BY <1>1, <1>2, CallFacts
  <1>4. CASE kind = "all_reduce"  BY <1>1, <1>4, InitialReduce
  <1>5. CASE kind = "all_gather"
    <2>1. r \in Nat  BY <1>2, JobFacts DEF RanksOf
    <2>2. Value(job, r, c, l, {}, k) = IF k \in r * size + 1..(r + 1) * size
                 THEN Element(c, (k - 1) \div size, ((k - 1) % size) + 1) ELSE Uninitialised
      BY <1>1, <1>5 DEF Value
    <2>3. Initial(r, c, k) = IF k \in r * size + 1..(r + 1) * size THEN Element(c, r, k - r * size) ELSE Uninitialised
      BY <1>1, <1>5 DEF Initial
    <2>4. CASE k \in r * size + 1..(r + 1) * size
      <3>1. (k - 1) \div size = r /\ ((k - 1) % size) + 1 = k - r * size
        BY <1>3, <2>1, <2>4, OwnElement
      <3>2. QED  BY <1>1, <2>2, <2>3, <2>4, <3>1
    <2>5. QED  BY <1>1, <2>2, <2>3, <2>4
  <1>6. CASE kind = "send"  BY <1>1, <1>6 DEF Value, Initial
  <1>7. CASE kind = "recv"  BY <1>1, <1>7 DEF Value, Initial
  <1>8. QED  BY <1>3, <1>4, <1>5, <1>6, <1>7

-----------------------------------------------------------------------------
(* What cells hold in the end *)

(* Each cell is in a lane, in a segment, in a packet. *)
LEMMA GrainOf ==
    ASSUME NEW g \in Nat \ {0}, NEW k \in Nat \ {0}
    PROVE  \E q \in Nat : q * g \in Nat /\ q * g < k /\ k <= q * g + g /\ (q + 1) * g = q * g + g
  <1>1. PICK l : l = CeilDiv(k, g)  OBVIOUS
  <1>2. k \in Nat /\ k > 0  OBVIOUS
  <1>3. l \in Nat /\ k <= l * g /\ l * g < k + g /\ l > 0  BY <1>1, <1>2, CeilFacts
  <1>4. PICK q \in Nat : q = l - 1 /\ l = q + 1  BY <1>3
  <1>5. PICK a : a = q * g  OBVIOUS
  <1>6. a \in Nat /\ l * g = a + g  BY <1>4, <1>5
  <1>7. a < k /\ k <= a + g  BY <1>2, <1>3, <1>6
  <1>8. QED  BY <1>4, <1>5, <1>6, <1>7

(* Cell k of p cells is in the l-th of the parts of g cells. *)
InPart(p, g, l, k) == (l - 1) * g < k /\ k <= PartEdge(p, g, l)

LEMMA InSomePart ==
    ASSUME NEW n \in Nat \ {0}, NEW g \in Nat, NEW p \in Nat, p <= n * g, NEW k \in 1..p
    PROVE  \E l \in 1..n : InPart(p, g, l, k)
  <1>1. g # 0
    <2>1. g = 0 => n * g = 0  OBVIOUS
    <2>2. 1 <= k /\ k <= p  OBVIOUS
    <2>3. PICK a : a = n * g  OBVIOUS
    <2>4. p <= a /\ (g = 0 => a = 0)  BY <2>1, <2>3
    <2>5. QED  BY <2>2, <2>4
  <1>2. k \in Nat \ {0} /\ g \in Nat \ {0}  BY <1>1
  <1>3. PICK q \in Nat : q * g \in Nat /\ q * g < k /\ k <= q * g + g /\ (q + 1) * g = q * g + g
    BY <1>2, GrainOf
  <1>4. PICK y \in Nat : y = q + 1 /\ y - 1 = q  BY <1>3
  <1>5. y <= n
    <2>1. SUFFICES ASSUME n <= q PROVE FALSE  BY <1>4
    <2>2. n * g <= q * g /\ n * g \in Int  BY <2>1, TimesMonotone
    <2>3. QED  BY <1>3, <2>2
  <1>6. k <= PartEdge(p, g, y)
    <2>1. PICK e, m : e = PartEdge(p, g, y) /\ m = y * g  OBVIOUS
    <2>2. e \in Nat /\ (m <= p => e = m) /\ (p <= m => e = p)  BY <1>4, <2>1, PartEdges
    <2>3. m = q * g + g  BY <1>3, <1>4, <2>1
    <2>4. k <= m /\ m \in Nat  BY <1>3, <2>3
    <2>5. k <= e  BY <2>2, <2>4
    <2>6. QED  BY <2>1, <2>5
  <1>7. y \in 1..n  BY <1>4, <1>5
  <1>8. (y - 1) * g < k  BY <1>3, <1>4
  <1>9. InPart(p, g, y, k)  BY <1>6, <1>8 DEF InPart
  <1>10. QED  BY <1>7, <1>9

LEMMA PacketOf ==
    ASSUME NEW j \in Jobs, NEW n \in Nat \ {0}, NEW k \in 1..n
    PROVE  \E s \in RanksOf(j) : \E p \in 0..Packets(j, n) - 1 : Edge(j, n, s, p) < k /\ k <= Edge(j, n, s, p + 1)
  <1>1. PICK g, b, m, R : g = Segment(j, n) /\ b = PacketSize(j, n) /\ m = Packets(j, n) /\ R = j.ranks
    OBVIOUS
  <1>2. /\ g \in Nat \ {0} /\ b \in Nat \ {0} /\ m \in Nat \ {0} /\ n <= R * g /\ g <= m * b
        /\ R \in Nat
    BY <1>1, PacketFacts, JobFacts
  <1>3. k \in Nat \ {0}  OBVIOUS
  <1>4. PICK s \in Nat : s * g \in Nat /\ s * g < k /\ k <= s * g + g /\ (s + 1) * g = s * g + g
    BY <1>2, <1>3, GrainOf
  <1>5. PICK a \in Nat : a = s * g  BY <1>4
  <1>a. a < k /\ k <= a + g /\ k \in Nat /\ g \in Nat  BY <1>2, <1>3, <1>4, <1>5
  <1>6. PICK o \in Nat \ {0} : o = k - a /\ o <= g /\ k = a + o
    <2>1. k - a \in Nat \ {0} /\ k - a <= g /\ k = a + (k - a)  BY <1>a
    <2>2. QED  BY <2>1
  <1>b. PICK p \in Nat : p * b \in Nat /\ p * b < o /\ o <= p * b + b /\ (p + 1) * b = p * b + b
    BY <1>2, <1>6, GrainOf
  <1>c. PICK c \in Nat : c = p * b  BY <1>b
  <1>7. c < o /\ o <= c + b /\ (p + 1) * b = c + b  BY <1>b, <1>c
  <1>8. s < R
    <2>1. SUFFICES ASSUME R <= s PROVE FALSE  BY <1>2
    <2>2. R * g <= s * g /\ R * g \in Int  BY <1>2, <2>1, TimesMonotone
    <2>3. QED  BY <1>2, <1>4, <2>2
  <1>9. p < m
    <2>1. SUFFICES ASSUME m <= p PROVE FALSE  BY <1>2
    <2>2. m * b <= p * b /\ m * b \in Int  BY <1>2, <2>1, TimesMonotone
    <2>3. m * b <= c  BY <1>c, <2>2
    <2>4. QED  BY <1>2, <1>6, <1>7, <2>2, <2>3
  <1>10. PICK stop : stop = Stop(j, n, s)  OBVIOUS
  <1>11. stop \in Nat /\ k <= stop
    <2>1. PICK e \in Nat : e = a + g /\ e = (s + 1) * g  BY <1>2, <1>4, <1>5
    <2>2. stop = Min({e, n})  BY <1>1, <1>10, <2>1 DEF Stop
    <2>3. stop = IF e <= n THEN e ELSE n  BY <2>2, MinOfTwo
    <2>4. k <= e  BY <1>4, <1>5, <2>1
    <2>5. QED  BY <2>3, <2>4
  <1>12. Edge(j, n, s, p) < k
    <2>1. PICK e \in Nat : e = a + c  OBVIOUS
    <2>2. Edge(j, n, s, p) = Min({e, stop})  BY <1>1, <1>5, <1>10, <1>c, <2>1 DEF Edge
    <2>3. Min({e, stop}) = IF e <= stop THEN e ELSE stop  BY <1>11, MinOfTwo
    <2>4. e < k  BY <1>6, <1>7, <2>1
    <2>5. QED  BY <1>11, <2>2, <2>3, <2>4
  <1>13. k <= Edge(j, n, s, p + 1)
    <2>1. PICK e \in Nat : e = a + (c + b)  BY <1>2
    <2>2. Edge(j, n, s, p + 1) = Min({e, stop})  BY <1>1, <1>5, <1>7, <1>10, <2>1 DEF Edge
    <2>3. Min({e, stop}) = IF e <= stop THEN e ELSE stop  BY <1>11, MinOfTwo
    <2>4. k <= e
      <3>1. b \in Nat /\ k \in Nat  BY <1>2, <1>a
      <3>2. k = a + o /\ o <= c + b /\ o \in Nat  BY <1>6, <1>7
      <3>3. QED  BY <2>1, <3>1, <3>2
    <2>5. QED  BY <1>11, <2>2, <2>3, <2>4
  <1>14. s \in RanksOf(j)  BY <1>1, <1>2, <1>8 DEF RanksOf
  <1>15. p \in 0..Packets(j, n) - 1  BY <1>1, <1>2, <1>9
  <1>16. QED  BY <1>12, <1>13, <1>14, <1>15

(* Cell k of the array of call c of rank r has v in the end. *)
Yields(j, r, c, k, v) ==
    \E l \in DOMAIN Lanes(j, r, c) :
        /\ OutCell(r, c, k) \in LaneMemory(Lanes(j, r, c)[l])
        /\ Value(j, r, c, l, Writers(Lanes(j, r, c)[l], OutCell(r, c, k)), k) = v

LastLap(R, m, t, K, v, p) ==
    /\ t \in Nat /\ K \in Nat /\ v = K + 1 /\ K + 2 >= R
    /\ t \div m = K /\ t % m = p /\ t < 2 * ((R - 1) * m)

(* The packets that arrive last. *)
LEMMA LastSteps ==
    ASSUME NEW m \in Nat \ {0}, NEW R \in Nat, R >= 2, NEW a \in Nat, a = R - 1, NEW v \in a..a + R - 1,
           NEW p \in 0..m - 1
    PROVE  \E t, K : LastLap(R, m, t, K, v, p)
  <1>1. PICK K \in Nat : v = K + 1 /\ K + 2 >= R /\ K + 1 <= 2 * a
    <2>1. v >= a /\ v <= 2 * a /\ a >= 1 /\ v \in Nat  OBVIOUS
    <2>2. v - 1 \in Nat /\ v = (v - 1) + 1 /\ (v - 1) + 2 >= R /\ (v - 1) + 1 <= 2 * a  BY <2>1
    <2>3. QED  BY <2>2
  <1>2. PICK b \in Nat : b = m * K  OBVIOUS
  <1>3. PICK t \in Nat : t = b + p  OBVIOUS
  <1>4. t \div m = K /\ t % m = p
    <2>1. t = m * K + p /\ t \in Int /\ K \in Int  BY <1>2, <1>3
    <2>2. QED  BY <2>1, ModUnique
  <1>5. t < 2 * (a * m)
    <2>1. PICK h \in Nat : h = a * m  OBVIOUS
    <2>2. PICK e \in Int : e = K + 1  OBVIOUS
    <2>3. PICK f \in Int : f = 2 * a  OBVIOUS
    <2>4. e <= f /\ m \in Nat  BY <1>1, <2>2, <2>3
    <2>5. e * m <= f * m  BY <2>2, <2>3, <2>4, TimesMonotone
    <2>6. e * m = b + m  BY <1>2, <2>2
    <2>7. f * m = 2 * h  BY <2>1, <2>3
    <2>8. t < b + m  BY <1>2, <1>3
    <2>9. QED  BY <1>2, <1>3, <2>1, <2>5, <2>6, <2>7, <2>8
  <1>6. LastLap(R, m, t, K, v, p)  BY <1>1, <1>4, <1>5 DEF LastLap
  <1>7. QED  BY <1>6

LEMMA ReduceHas ==
    ASSUME NEW j \in Jobs, NEW r \in RanksOf(j), NEW c, NEW off \in Nat, NEW n \in Nat \ {0},
           NEW k \in Nat, off < k, k <= off + n
    PROVE  \E s \in RanksOf(j) : \E p \in 0..Packets(j, n) - 1 : OutCell(r, c, k) \in Range(PacketCut(j, r, c, off, n, s, p))
  <1>1. PICK y \in 1..n : k = off + y
    <2>1. k - off \in 1..n /\ k = off + (k - off)  OBVIOUS
    <2>2. QED  BY <2>1
  <1>2. PICK s \in RanksOf(j) : \E p \in 0..Packets(j, n) - 1 : Edge(j, n, s, p) < y /\ y <= Edge(j, n, s, p + 1)
    BY PacketOf
  <1>3. PICK p \in 0..Packets(j, n) - 1 : Edge(j, n, s, p) < y /\ y <= Edge(j, n, s, p + 1)  BY <1>2
  <1>4. s \in Nat /\ p \in Nat  BY JobFacts, PacketFacts DEF RanksOf
  <1>5. PICK e, f : e = Edge(j, n, s, p) /\ f = Edge(j, n, s, p + 1)  OBVIOUS
  <1>6. e \in Nat /\ f \in Nat /\ e <= f
    <2>1. PICK q \in Nat : q = p + 1  BY <1>4
    <2>2. f = Edge(j, n, s, q)  BY <1>5, <2>1
    <2>3. e \in Nat /\ f \in Nat  BY <1>4, <1>5, <2>2, EdgeFacts
    <2>4. e < f  BY <1>3, <1>5, <2>3
    <2>5. QED  BY <2>3, <2>4
  <1>7. PICK a, b \in Nat : a = off + e /\ b = off + f  BY <1>6
  <1>8. a \in Nat /\ a <= b /\ a < k /\ k <= b  BY <1>1, <1>3, <1>5, <1>6, <1>7
  <1>9. PacketCut(j, r, c, off, n, s, p) = Cut(r, c, a, b)  BY <1>5, <1>7 DEF PacketCut, Lo, Hi
  <1>10. OutCell(r, c, k) \in Interval(r, c, a, b)  BY <1>8, InInterval
  <1>11. Range(Cut(r, c, a, b)) = Interval(r, c, a, b)  BY <1>8, CutFacts
  <1>12. QED  BY <1>9, <1>10, <1>11

LEMMA ReduceLaneOfCell ==
    ASSUME NEW j \in Jobs, NEW size \in Nat, NEW k \in 1..size
    PROVE  \E l \in 1..ReduceCount(j, size) : ReduceOff(j, size, l) < k /\ k <= ReduceOff(j, size, l) + ReduceLen(j, size, l)
  <1>1. PICK n, g, p : n = ReduceCount(j, size) /\ g = ReduceGrain(j, size) /\ p = Padded(j, size)
    OBVIOUS
  <1>2. n \in Nat \ {0} /\ g \in Nat /\ p \in Nat /\ p <= n * g  BY <1>1, ReduceParts
  <1>3. size <= p  BY <1>1, JobFacts DEF Padded
  <1>4. k \in 1..p  BY <1>2, <1>3
  <1>5. PICK l \in 1..n : InPart(p, g, l, k)  BY <1>2, <1>4, InSomePart
  <1>6. (l - 1) * g < k /\ k <= PartEdge(p, g, l)  BY <1>5 DEF InPart
  <1>7. ReduceOff(j, size, l) + ReduceLen(j, size, l) = PartEdge(p, g, l)  BY <1>1, ReducePartFacts
  <1>8. ReduceOff(j, size, l) < k  BY <1>1, <1>6 DEF ReduceOff
  <1>9. k <= ReduceOff(j, size, l) + ReduceLen(j, size, l)  BY <1>6, <1>7
  <1>10. QED  BY <1>1, <1>8, <1>9

LEMMA WrittenIn ==
    ASSUME NEW L, NEW i \in DOMAIN L.steps, NEW s, s = L.steps[i], NEW x \in Written(s)
    PROVE  x \in LaneMemory(L) /\ i \in Writers(L, x)
  <1>1. x \in StepMemory(s)
    <2>1. CASE s.into = <<>>  BY <2>1 DEF StepMemory, Written
    <2>2. CASE s.into # <<>>  BY <2>2 DEF StepMemory, Written
    <2>3. QED  BY <2>1, <2>2
  <1>2. x \in LaneMemory(L)  BY <1>1, Zenon DEF LaneMemory
  <1>3. i \in Writers(L, x)  BY DEF Writers
  <1>4. QED  BY <1>2, <1>3

LEMMA LastWriter ==
    ASSUME NEW j \in Jobs, NEW r \in RanksOf(j), NEW c, NEW l,
           NEW L, NEW size, NEW off, NEW n, NEW d,
           Reduces(j, r, c, l, L, size, off, n, d), NEW k \in Nat, off < k, k <= off + n
    PROVE  \E i \in DOMAIN L.steps : OutCell(r, c, k) \in Written(L.steps[i]) /\ (i - 1) \div Packets(j, n) \in Nat
                                     /\ ((i - 1) \div Packets(j, n)) + 2 >= j.ranks
  <1>1. PICK R, m, h : R = j.ranks /\ m = Packets(j, n) /\ h = Half(j, n)  OBVIOUS
  <1>2. R \in Nat /\ R >= 2 /\ m \in Nat \ {0} /\ off \in Nat /\ n \in Nat \ {0} /\ d \in {-1, 1}
        /\ DOMAIN L.steps = 1..2 * h /\ h \in Nat
    BY <1>1, JobFacts DEF Reduces
  <1>3. PICK x : x = OutCell(r, c, k)  OBVIOUS
  <1>4. PICK s \in RanksOf(j) : \E p \in 0..m - 1 : x \in Range(PacketCut(j, r, c, off, n, s, p))
    <2>1. off \in Nat /\ n \in Nat \ {0}  BY <1>2
    <2>2. QED  BY <1>1, <1>3, <2>1, ReduceHas
  <1>5. PICK p \in 0..m - 1 : x \in Range(PacketCut(j, r, c, off, n, s, p))  BY <1>4
  <1>6. PICK a \in Nat : a = R - 1  BY <1>2
  <1>7. PICK v \in a..a + R - 1 : Seat(j, r, d, v) = s
    <2>1. d \in {-1, 1} /\ j \in Jobs /\ r \in RanksOf(j) /\ s \in RanksOf(j) /\ a \in Nat  BY <1>2
    <2>2. \E y \in a..a + j.ranks - 1 : Seat(j, r, d, y) = s  BY ONLY <2>1, SeatsCover
    <2>3. QED  BY <1>1, <2>2
  <1>8. PICK t, K : LastLap(R, m, t, K, v, p)  BY <1>2, <1>6, LastSteps
  <1>9. /\ t \in Nat /\ K \in Nat /\ v = K + 1 /\ K + 2 >= R
        /\ t \div m = K /\ t % m = p /\ t < 2 * ((R - 1) * m)
    BY <1>8 DEF LastLap
  <1>10. h = (R - 1) * m  BY <1>1 DEF Half
  <1>11. PICK i \in 1..2 * h : i = t + 1 /\ t = i - 1  BY <1>2, <1>9, <1>10
  <1>12. i \in DOMAIN L.steps  BY <1>2
  <1>13. Written(L.steps[i]) = Range(ReduceIn(j, r, c, off, n, d, t))  BY <1>11, <1>12, ReduceWrites
  <1>14. ReduceIn(j, r, c, off, n, d, t) = PacketCut(j, r, c, off, n, s, p)
    BY <1>1, <1>7, <1>9 DEF ReduceIn
  <1>15. QED  BY <1>1, <1>3, <1>5, <1>9, <1>11, <1>12, <1>13, <1>14

LEMMA ReduceYields ==
    ASSUME NEW j \in Jobs, NEW r \in RanksOf(j), NEW c \in DOMAIN j.calls[r], j.calls[r][c].kind = "all_reduce",
           NEW k \in 1..j.calls[r][c].size
    PROVE  Yields(j, r, c, k, Gifts(c, RanksOf(j), k))
  <1>1. PICK size : size = j.calls[r][c].size  OBVIOUS
  <1>2. size \in Nat /\ DOMAIN Lanes(j, r, c) = 1..ReduceCount(j, size)  BY <1>1, ReduceCall
  <1>3. PICK l \in 1..ReduceCount(j, size) : ReduceOff(j, size, l) < k /\ k <= ReduceOff(j, size, l) + ReduceLen(j, size, l)
    BY <1>1, <1>2, ReduceLaneOfCell
  <1>4. l \in DOMAIN Lanes(j, r, c)  BY <1>2
  <1>5. PICK L, z, off, n, d : Reduces(j, r, c, l, L, z, off, n, d)  BY <1>4, IsReduce
  <1>6. z = size /\ L = Lanes(j, r, c)[l] /\ off < k /\ k <= off + n /\ k \in Nat /\ k <= size /\ d \in {-1, 1}
    BY <1>1, <1>3, <1>5 DEF Reduces
  <1>7. PICK x : x = OutCell(r, c, k)  OBVIOUS
  <1>8. PICK i \in DOMAIN L.steps : /\ x \in Written(L.steps[i]) /\ (i - 1) \div Packets(j, n) \in Nat
                                    /\ ((i - 1) \div Packets(j, n)) + 2 >= j.ranks
    BY <1>5, <1>6, <1>7, LastWriter
  <1>9. PICK m, K : m = Packets(j, n) /\ K = (i - 1) \div m  OBVIOUS
  <1>10. PICK W : W = Writers(L, x)  OBVIOUS
  <1>11. x \in LaneMemory(L) /\ i \in W
    <2>1. PICK s : s = L.steps[i]  OBVIOUS
    <2>2. x \in Written(s)  BY <1>8, <2>1
    <2>3. QED  BY <1>10, <2>1, <2>2, WrittenIn
  <1>12. SeatsOfSteps(j, r, d, m, W) = RanksOf(j)
    <2>1. K \in Nat /\ K = (i - 1) \div m /\ K + 2 >= j.ranks  BY <1>8, <1>9
    <2>2. QED  BY <1>6, <1>11, <2>1, AllGive
  <1>13. Givers(j, r, size, l, W) = RanksOf(j)  BY <1>5, <1>6, <1>9, <1>12, ReduceGivers
  <1>14. Value(j, r, c, l, W, k) = Gifts(c, RanksOf(j), k)
    <2>1. ~(k > size)  BY <1>1, <1>2
    <2>2. Value(j, r, c, l, W, k) = IF k > size THEN EmptyBag ELSE Gifts(c, Givers(j, r, size, l, W), k)
      BY <1>5, <1>6, ReduceValue
    <2>3. QED  BY <1>13, <2>1, <2>2
  <1>15. QED  BY <1>4, <1>6, <1>7, <1>10, <1>11, <1>14 DEF Yields

(* Cell k of what all ranks give is in the part of rank s that lane x has. *)
GatheredBy(j, size, k, s, x) == GatherLo(j, size, s, x) < k /\ k <= GatherHi(j, size, s, x)

LEMMA GatherLaneOfCell ==
    ASSUME NEW j \in Jobs, NEW size \in Nat, NEW k \in 1..j.ranks * size
    PROVE  \E s \in RanksOf(j) : \E x \in 0..GatherCount(j, size) - 1 : GatheredBy(j, size, k, s, x)
  <1>1. PICK R, b \in Nat : R = j.ranks /\ b = R * size
    <2>1. j.ranks \in Nat /\ j.ranks * size \in Nat  BY JobFacts
    <2>2. QED  BY <2>1
  <1>2. R \in Nat /\ k \in Nat \ {0} /\ k <= b  BY <1>1
  <1>3. size \in Nat \ {0}
    <2>1. size = 0 => b = 0  BY <1>1
    <2>2. QED  BY <1>2, <2>1
  <1>4. PICK s \in Nat : s * size \in Nat /\ s * size < k /\ k <= s * size + size /\ (s + 1) * size = s * size + size
    BY <1>2, <1>3, GrainOf
  <1>5. PICK a \in Nat : a = s * size  BY <1>4
  <1>6. a < k /\ k <= a + size  BY <1>4, <1>5
  <1>7. s < R
    <2>1. SUFFICES ASSUME R <= s PROVE FALSE  BY <1>2
    <2>2. R * size <= s * size  BY <1>2, <2>1, TimesMonotone
    <2>3. QED  BY <1>1, <1>2, <1>5, <1>6, <2>2
  <1>8. PICK y \in 1..size : k = a + y
    <2>1. k - a \in 1..size /\ k = a + (k - a)  BY <1>2, <1>3, <1>6
    <2>2. QED  BY <2>1
  <1>9. PICK n, g : n = GatherCount(j, size) /\ g = GatherGrain(j, size)  OBVIOUS
  <1>10. n \in Nat \ {0} /\ g \in Nat /\ size <= n * g  BY <1>9, GatherParts
  <1>11. PICK l \in 1..n : InPart(size, g, l, y)  BY <1>10, InSomePart
  <1>12. (l - 1) * g < y /\ y <= PartEdge(size, g, l)  BY <1>11 DEF InPart
  <1>13. PICK x \in 0..n - 1 : x = l - 1 /\ l = x + 1
    <2>1. l - 1 \in 0..n - 1 /\ l = (l - 1) + 1  BY <1>10
    <2>2. QED  BY <2>1
  <1>14. PICK e, f : e = FromCell(j, size, x) /\ f = ToCell(j, size, x)  OBVIOUS
  <1>15. e < y /\ y <= f  BY <1>9, <1>12, <1>13, <1>14 DEF FromCell, ToCell
  <1>16. e \in Nat /\ f \in Nat
    <2>1. x \in Nat /\ g \in Nat /\ l \in Nat  BY <1>10, <1>13
    <2>2. e = x * g  BY <1>9, <1>14 DEF FromCell
    <2>3. f = PartEdge(size, g, l)  BY <1>9, <1>13, <1>14 DEF ToCell
    <2>4. f \in Nat  BY <2>1, <2>3, PartEdges
    <2>5. QED  BY <2>1, <2>2, <2>4
  <1>17. GatherLo(j, size, s, x) = a + e /\ GatherHi(j, size, s, x) = a + f
    BY <1>5, <1>14 DEF GatherLo, GatherHi
  <1>18. a + e < k /\ k <= a + f  BY <1>8, <1>15, <1>16
  <1>19. GatheredBy(j, size, k, s, x)  BY <1>17, <1>18 DEF GatheredBy
  <1>20. s \in RanksOf(j)  BY <1>1, <1>2, <1>7 DEF RanksOf
  <1>21. x \in 0..GatherCount(j, size) - 1  BY <1>9
  <1>22. QED  BY <1>19, <1>20, <1>21

LEMMA GatherYields ==
    ASSUME NEW j \in Jobs, NEW r \in RanksOf(j), NEW c \in DOMAIN j.calls[r], j.calls[r][c].kind = "all_gather",
           NEW size, size = j.calls[r][c].size, NEW k \in 1..j.ranks * size
    PROVE  Yields(j, r, c, k, Element(c, (k - 1) \div size, ((k - 1) % size) + 1))
  <1>1. size \in Nat /\ DOMAIN Lanes(j, r, c) = 1..GatherCount(j, size)  BY GatherCall
  <1>2. GatherCount(j, size) \in Nat  BY <1>1, GatherParts
  <1>3. PICK s \in RanksOf(j) : \E x \in 0..GatherCount(j, size) - 1 : GatheredBy(j, size, k, s, x)
    BY <1>1, GatherLaneOfCell
  <1>4. PICK x \in 0..GatherCount(j, size) - 1 : GatheredBy(j, size, k, s, x)  BY <1>3
  <1>5. PICK l \in DOMAIN Lanes(j, r, c) : x = l - 1
    <2>1. x + 1 \in 1..GatherCount(j, size) /\ x = (x + 1) - 1  BY <1>2
    <2>2. QED  BY <1>1, <2>1
  <1>6. PICK L : L = Lanes(j, r, c)[l]  OBVIOUS
  <1>7. /\ x \in Nat /\ Direction(x) \in {-1, 1} /\ DOMAIN L.steps = 1..j.ranks - 1
        /\ \A i \in 1..j.ranks - 1 : L.steps[i] = GatherStep(j, r, c, size, x, i)
    BY <1>5, <1>6, GatherLaneHas
  <1>8. PICK z : z = OutCell(r, c, k)  OBVIOUS
  <1>9. s \in Nat  BY JobFacts DEF RanksOf
  <1>10. PICK a, b : a = GatherLo(j, size, s, x) /\ b = GatherHi(j, size, s, x)  OBVIOUS
  <1>11. a \in Nat /\ b \in Nat /\ a <= b  BY <1>1, <1>9, <1>10, GatherEdges
  <1>12. k \in Nat
    <2>1. j.ranks * size \in Nat  BY <1>1, JobFacts
    <2>2. QED  BY <2>1
  <1>13. a < k /\ k <= b  BY <1>4, <1>10 DEF GatheredBy
  <1>14. z \in Range(GatherCut(j, r, c, size, s, x))
    <2>1. z \in Interval(r, c, a, b)  BY <1>8, <1>11, <1>12, <1>13, InInterval
    <2>2. Range(Cut(r, c, a, b)) = Interval(r, c, a, b)  BY <1>11, CutFacts
    <2>3. QED  BY <1>10, <2>1, <2>2 DEF GatherCut
  <1>15. PICK d : d = Direction(x)  OBVIOUS
  <1>16. PICK o \in Nat : o = 0  OBVIOUS
  <1>17. PICK v \in o..o + j.ranks - 1 : Seat(j, r, d, v) = s
    <2>1. d \in {-1, 1} /\ j \in Jobs /\ r \in RanksOf(j) /\ s \in RanksOf(j) /\ o \in Nat
      BY <1>7, <1>15
    <2>2. QED  BY ONLY <2>1, SeatsCover
  <1>18. PICK W : W = Writers(L, z)  OBVIOUS
  <1>19. PICK R \in Nat : R = j.ranks /\ R >= 2  BY JobFacts
  <1>20. ASSUME NEW i \in 1..j.ranks - 1
         PROVE  /\ i \in DOMAIN L.steps /\ L.steps[i].into = <<>>
                /\ L.steps[i].send = GatherCut(j, r, c, size, Seat(j, r, d, i - 1), x)
                /\ L.steps[i].recv = GatherCut(j, r, c, size, Seat(j, r, d, i), x)
    <2>1. PICK in, out : /\ out = GatherCut(j, r, c, size, Seat(j, r, d, i - 1), x)
                         /\ in = GatherCut(j, r, c, size, Seat(j, r, d, i), x)
      OBVIOUS
    <2>2. GatherStep(j, r, c, size, x, i) = Step(out, in, <<>>)  BY <1>15, <2>1 DEF GatherStep
    <2>3. L.steps[i] = Step(out, in, <<>>)  BY <1>7, <2>2
    <2>4. L.steps[i].send = out /\ L.steps[i].recv = in /\ L.steps[i].into = <<>>  BY <2>3 DEF Step
    <2>5. i \in DOMAIN L.steps  BY <1>7
    <2>6. QED  BY <2>1, <2>4, <2>5
  <1>21. z \in LaneMemory(L) /\ (W # {} \/ k \in r * size + 1..(r + 1) * size)
    <2>1. CASE v = 0
      <3>1. PICK i \in 1..j.ranks - 1 : i = 1 /\ i - 1 = v
        <4>1. 1 \in 1..j.ranks - 1  BY <1>19
        <4>2. QED  BY <2>1, <4>1
      <3>2. s = r  BY <1>7, <1>15, <1>17, <2>1, SeatZero
      <3>3. L.steps[i].send = GatherCut(j, r, c, size, s, x)  BY <1>17, <1>20, <3>1
      <3>4. z \in StepMemory(L.steps[i])  BY <1>14, <3>3 DEF StepMemory
      <3>5. z \in LaneMemory(L)  BY <1>20, <3>4, Zenon DEF LaneMemory
      <3>6. k \in a + 1..b  BY <1>11, <1>12, <1>13
      <3>7. k \in GatherLo(j, size, s, x) + 1..GatherHi(j, size, s, x)  BY <1>10, <3>6
      <3>8. k \in s * size + 1..(s + 1) * size  BY <1>1, <1>9, <3>7, OfItsRank
      <3>9. QED  BY <3>2, <3>5, <3>8
    <2>2. CASE v # 0
      <3>1. v \in 1..j.ranks - 1  BY <1>16, <1>19, <2>2
      <3>2. PICK p : p = L.steps[v]  OBVIOUS
      <3>3. Written(p) = Range(GatherCut(j, r, c, size, s, x))
        BY <1>17, <1>20, <3>1, <3>2 DEF Written
      <3>4. z \in Written(p) /\ v \in DOMAIN L.steps  BY <1>14, <1>20, <3>1, <3>3
      <3>5. z \in LaneMemory(L) /\ v \in W  BY <1>18, <3>2, <3>4, WrittenIn
      <3>6. QED  BY <3>5
    <2>3. QED  BY <2>1, <2>2
  <1>22. Value(j, r, c, l, W, k) = Element(c, (k - 1) \div size, ((k - 1) % size) + 1)
    BY <1>21 DEF Value
  <1>23. QED  BY <1>5, <1>6, <1>8, <1>18, <1>21, <1>22 DEF Yields

LEMMA PieceLaneOfCell ==
    ASSUME NEW j \in Jobs, NEW r \in RanksOf(j), NEW c \in DOMAIN j.calls[r], j.calls[r][c].kind \in {"send", "recv"},
           NEW size, size = j.calls[r][c].size, NEW k \in 1..size
    PROVE  \E l \in DOMAIN Lanes(j, r, c) : OutCell(r, c, k) \in Range(PieceCut(j, r, c, size, l))
  <1>1. PICK n, g : n = PieceCount(j, size) /\ g = PieceSize(j, size)  OBVIOUS
  <1>2. size \in Nat /\ DOMAIN Lanes(j, r, c) = 1..n  BY <1>1, PieceCall
  <1>3. g \in Nat /\ n \in Nat /\ size <= n * g  BY <1>1, <1>2, PieceParts
  <1>4. n # 0
    <2>1. n = 0 => n * g = 0  BY <1>3
    <2>2. size >= 1  BY <1>2
    <2>3. QED  BY <1>2, <1>3, <2>1, <2>2
  <1>5. n \in Nat \ {0}  BY <1>3, <1>4
  <1>6. PICK l \in 1..n : InPart(size, g, l, k)  BY <1>2, <1>3, <1>5, InSomePart
  <1>7. PICK a, b : a = (l - 1) * g /\ b = PartEdge(size, g, l)  OBVIOUS
  <1>8. a < k /\ k <= b /\ k \in Nat  BY <1>2, <1>6, <1>7 DEF InPart
  <1>9. a \in Nat /\ b \in Nat
    <2>1. l \in Nat /\ l - 1 \in Nat  BY <1>5
    <2>2. b \in Nat  BY <1>2, <1>3, <1>7, <2>1, PartEdges
    <2>3. QED  BY <1>3, <1>7, <2>1, <2>2
  <1>10. a <= b  BY <1>8, <1>9
  <1>11. PieceCut(j, r, c, size, l) = Cut(r, c, a, b)  BY <1>1, <1>7 DEF PieceCut, PieceLo, PieceHi
  <1>12. OutCell(r, c, k) \in Interval(r, c, a, b)  BY <1>8, <1>9, InInterval
  <1>13. Range(Cut(r, c, a, b)) = Interval(r, c, a, b)  BY <1>9, <1>10, CutFacts
  <1>14. QED  BY <1>2, <1>11, <1>12, <1>13

LEMMA SendYields ==
    ASSUME NEW j \in Jobs, NEW r \in RanksOf(j), NEW c \in DOMAIN j.calls[r], j.calls[r][c].kind = "send",
           NEW k \in 1..j.calls[r][c].size
    PROVE  Yields(j, r, c, k, Element(c, r, k))
  <1>1. PICK it, size : it = j.calls[r][c] /\ size = it.size  OBVIOUS
  <1>2. j.calls[r][c].kind \in {"send", "recv"} /\ it.kind = "send"  BY <1>1
  <1>3. PICK l \in DOMAIN Lanes(j, r, c) : OutCell(r, c, k) \in Range(PieceCut(j, r, c, size, l))
    BY <1>1, <1>2, PieceLaneOfCell
  <1>4. PICK L, i : L = Lanes(j, r, c)[l] /\ i = 1  OBVIOUS
  <1>5. i \in DOMAIN L.steps /\ L.steps[i].send = PieceCut(j, r, c, size, l)
    BY <1>1, <1>2, <1>4, PieceSteps
  <1>6. PICK x : x = OutCell(r, c, k)  OBVIOUS
  <1>7. x \in StepMemory(L.steps[i])  BY <1>3, <1>5, <1>6 DEF StepMemory
  <1>8. x \in LaneMemory(L)  BY <1>5, <1>7, Zenon DEF LaneMemory
  <1>9. Value(j, r, c, l, Writers(L, x), k) = Element(c, r, k)  BY <1>1, <1>2 DEF Value
  <1>10. QED  BY <1>4, <1>6, <1>8, <1>9 DEF Yields

LEMMA RecvYields ==
    ASSUME NEW j \in Jobs, NEW r \in RanksOf(j), NEW c \in DOMAIN j.calls[r], j.calls[r][c].kind = "recv",
           NEW k \in 1..j.calls[r][c].size
    PROVE  Yields(j, r, c, k, Element(Answering(j, r, c), j.calls[r][c].peer, k))
  <1>1. PICK it, size : it = j.calls[r][c] /\ size = it.size  OBVIOUS
  <1>2. j.calls[r][c].kind \in {"send", "recv"} /\ it.kind = "recv"  BY <1>1
  <1>3. PICK l \in DOMAIN Lanes(j, r, c) : OutCell(r, c, k) \in Range(PieceCut(j, r, c, size, l))
    BY <1>1, <1>2, PieceLaneOfCell
  <1>4. PICK L, i : L = Lanes(j, r, c)[l] /\ i = 1  OBVIOUS
  <1>5. i \in DOMAIN L.steps /\ L.steps[i].recv = PieceCut(j, r, c, size, l) /\ L.steps[i].into = <<>>
    BY <1>1, <1>2, <1>4, PieceSteps
  <1>6. PICK x, s : x = OutCell(r, c, k) /\ s = L.steps[i]  OBVIOUS
  <1>7. x \in Written(s)  BY <1>3, <1>5, <1>6 DEF Written
  <1>8. x \in LaneMemory(L) /\ i \in Writers(L, x)  BY <1>5, <1>6, <1>7, WrittenIn
  <1>9. PICK W : W = Writers(L, x)  OBVIOUS
  <1>10. W # {}  BY <1>8, <1>9
  <1>11. Value(j, r, c, l, W, k) = Element(Answering(j, r, c), it.peer, k)
    BY <1>1, <1>2, <1>10 DEF Value
  <1>12. QED  BY <1>1, <1>4, <1>6, <1>8, <1>9, <1>11 DEF Yields

(* The n-th recv from a rank is answered by that rank's n-th send. *)
LEMMA AnswersHave ==
    ASSUME NEW j, NEW r, NEW c, NEW q, NEW d, Answers(j, Round(j), r, c, q, d)
    PROVE  /\ j.calls[r][c].kind \notin Collectives /\ j.calls[q][d].kind \notin Collectives
           /\ \A z : {j.calls[r][c].kind, z} = {"send", "recv"} => z = j.calls[q][d].kind
           /\ j.calls[r][c].peer = q /\ j.calls[q][d].peer = r
           /\ Round(j)[r][c] = Round(j)[q][d]
  <1>1. PICK a, b : a = j.calls[r][c].kind /\ b = j.calls[q][d].kind  OBVIOUS
  <1>2. {a, b} = {"send", "recv"} /\ j.calls[r][c].peer = q /\ j.calls[q][d].peer = r /\ Round(j)[r][c] = Round(j)[q][d]
    BY <1>1 DEF Answers
  <1>3. a \notin Collectives /\ b \notin Collectives  BY <1>2 DEF Collectives
  <1>4. ASSUME NEW z, {a, z} = {"send", "recv"} PROVE z = b  BY <1>2, <1>4
  <1>5. QED  BY <1>1, <1>2, <1>3, <1>4

LEMMA UptoHas ==
    ASSUME job \in Jobs, NEW r \in Ranks, NEW c \in DOMAIN job.calls[r], NEW kind, NEW q, NEW i
    PROVE  /\ i \in Upto(r, c, kind, q) <=> /\ i \in DOMAIN job.calls[r] /\ i <= c
                                            /\ job.calls[r][i].kind = kind /\ job.calls[r][i].peer = q
           /\ Upto(r, c, kind, q) \subseteq 1..c /\ IsFiniteSet(Upto(r, c, kind, q))
  <1>1. job.calls[r] \in Seq(Call)  BY CallFacts DEF Ranks
  <1>2. PICK n \in Nat : DOMAIN job.calls[r] = 1..n  BY <1>1
  <1>3. c \in Nat /\ c <= n  BY <1>2
  <1>4. \A k : k \in 1..c <=> k \in 1..n /\ k <= c  BY <1>3
  <1>5. IsFiniteSet(1..c)  BY <1>3, FS_Interval
  <1>6. Upto(r, c, kind, q) \in SUBSET (1..c)  BY DEF Upto
  <1>7. IsFiniteSet(Upto(r, c, kind, q))  BY <1>5, <1>6, FS_Subset
  <1>8. QED  BY <1>2, <1>4, <1>6, <1>7 DEF Upto

LEMMA EarlierPair ==
    ASSUME AllMatched, job \in Jobs, NEW r \in Ranks, NEW q \in Ranks, NEW c \in DOMAIN job.calls[r],
           NEW d \in DOMAIN job.calls[q], Answers(job, Round(job), r, c, q, d),
           NEW i \in Upto(r, c, job.calls[r][c].kind, q)
    PROVE  \E y \in Upto(q, d, job.calls[q][d].kind, r) : Answers(job, Round(job), r, i, q, y)
  <1>1. PICK j \in Jobs : j = job  OBVIOUS
  <1>2. r \in RanksOf(j) /\ q \in RanksOf(j) /\ c \in DOMAIN j.calls[r] /\ d \in DOMAIN j.calls[q]
    BY <1>1 DEF Ranks
  <1>3. PICK K, M : K = j.calls[r][c].kind /\ M = j.calls[q][d].kind  OBVIOUS
  <1>4. i \in DOMAIN j.calls[r] /\ i <= c /\ j.calls[r][i].kind = K /\ j.calls[r][i].peer = q
    BY <1>1, <1>3, UptoHas
  <1>5. Answers(j, Round(j), r, c, q, d)  BY <1>1
  <1>6. /\ K \notin Collectives /\ M \notin Collectives /\ j.calls[r][c].peer = q /\ j.calls[q][d].peer = r
        /\ Round(j)[r][c] = Round(j)[q][d] /\ \A z : {K, z} = {"send", "recv"} => z = M
    BY <1>3, <1>5, AnswersHave
  <1>7. PICK y \in DOMAIN j.calls[q] : Answers(j, Round(j), r, i, q, y)
    BY <1>2, <1>4, <1>6, CallAnswered
  <1>8. {j.calls[r][i].kind, j.calls[q][y].kind} = {"send", "recv"} /\ j.calls[q][y].peer = r
        /\ Round(j)[r][i] = Round(j)[q][y]
    BY <1>7 DEF Answers
  <1>9. j.calls[q][y].kind = M  BY <1>4, <1>6, <1>8
  <1>10. c \in Nat /\ i \in Nat /\ d \in Nat /\ y \in Nat  BY <1>2, <1>4, <1>7, CallFacts
  <1>11. PICK a, b : a = Round(j)[r][i] /\ b = Round(j)[r][c]  OBVIOUS
  <1>12. a \in Nat /\ b \in Nat  BY <1>2, <1>4, <1>11, RoundFacts
  <1>13. a <= b
    <2>1. CASE i = c  BY <1>11, <1>12, <2>1
    <2>2. CASE i # c
      <3>1. i < c  BY <1>4, <1>10, <2>2
      <3>2. j.calls[r][i].kind = j.calls[r][c].kind /\ j.calls[r][i].peer = j.calls[r][c].peer
        BY <1>3, <1>4, <1>6
      <3>3. Round(j)[r][i] < Round(j)[r][c]  BY <1>2, <1>4, <3>1, <3>2, RoundsGrow
      <3>4. QED  BY <1>11, <1>12, <3>3
    <2>3. QED  BY <2>1, <2>2
  <1>14. y <= d
    <2>1. SUFFICES ASSUME d < y PROVE FALSE  BY <1>10
    <2>2. j.calls[q][d].kind = j.calls[q][y].kind /\ j.calls[q][d].peer = j.calls[q][y].peer
      BY <1>3, <1>6, <1>8, <1>9
    <2>3. Round(j)[q][d] < Round(j)[q][y]  BY <1>2, <1>7, <2>1, <2>2, RoundsGrow
    <2>4. b < a  BY <1>6, <1>8, <1>11, <2>3
    <2>5. QED  BY <1>12, <1>13, <2>4
  <1>15. y \in Upto(q, d, M, r)  BY <1>1, <1>7, <1>8, <1>9, <1>14, UptoHas
  <1>16. QED  BY <1>1, <1>3, <1>7, <1>15

LEMMA PairsDiffer ==
    ASSUME AllMatched, NEW j \in Jobs, NEW r \in RanksOf(j), NEW q, NEW i \in DOMAIN j.calls[r], NEW k \in DOMAIN j.calls[r],
           j.calls[r][i].kind = j.calls[r][k].kind, NEW y,
           Answers(j, Round(j), r, i, q, y), Answers(j, Round(j), r, k, q, y)
    PROVE  i = k
  <1>1. j.calls[r][i].peer = q /\ j.calls[r][k].peer = q /\ Round(j)[r][i] = Round(j)[q][y] /\ Round(j)[r][k] = Round(j)[q][y]
    BY AnswersHave
  <1>2. PICK a, b : a = Round(j)[r][i] /\ b = Round(j)[r][k]  OBVIOUS
  <1>3. a \in Nat /\ b \in Nat /\ a = b  BY <1>1, <1>2, RoundFacts
  <1>4. i \in Nat /\ k \in Nat  BY CallFacts
  <1>5. j.calls[r][i].peer = j.calls[r][k].peer  BY <1>1
  <1>6. ~(i < k)
    <2>1. SUFFICES ASSUME i < k PROVE FALSE  OBVIOUS
    <2>2. a < b  BY <1>2, <1>5, <2>1, RoundsGrow
    <2>3. QED  BY <1>3, <2>2
  <1>7. ~(k < i)
    <2>1. SUFFICES ASSUME k < i PROVE FALSE  OBVIOUS
    <2>2. b < a  BY <1>2, <1>5, <2>1, RoundsGrow
    <2>3. QED  BY <1>3, <2>2
  <1>8. QED  BY <1>4, <1>6, <1>7

LEMMA AsMany ==
    ASSUME AllMatched, job \in Jobs, NEW r \in Ranks, NEW q \in Ranks, NEW c \in DOMAIN job.calls[r],
           NEW d \in DOMAIN job.calls[q], Answers(job, Round(job), r, c, q, d)
    PROVE  Cardinality(Upto(r, c, job.calls[r][c].kind, q)) <= Cardinality(Upto(q, d, job.calls[q][d].kind, r))
  <1>1. PICK K, M : K = job.calls[r][c].kind /\ M = job.calls[q][d].kind  OBVIOUS
  <1>2. PICK S, T : S = Upto(r, c, K, q) /\ T = Upto(q, d, M, r)  OBVIOUS
  <1>3. IsFiniteSet(S) /\ IsFiniteSet(T)  BY <1>2, UptoHas
  <1>4. ASSUME NEW x \in S PROVE \E y \in T : Answers(job, Round(job), r, x, q, y)
    BY <1>1, <1>2, EarlierPair
  <1>5. ASSUME NEW x \in S, NEW z \in S, NEW y, Answers(job, Round(job), r, x, q, y), Answers(job, Round(job), r, z, q, y)
        PROVE  x = z
    <2>1. x \in DOMAIN job.calls[r] /\ z \in DOMAIN job.calls[r] /\ job.calls[r][x].kind = job.calls[r][z].kind
      BY <1>2, UptoHas
    <2>2. r \in RanksOf(job)  BY DEF Ranks
    <2>3. QED  BY <1>5, <2>1, <2>2, PairsDiffer
  <1>6. PICK f : f = [x \in S |-> CHOOSE y \in T : Answers(job, Round(job), r, x, q, y)]  OBVIOUS
  <1>7. \A x \in S : f[x] \in T /\ Answers(job, Round(job), r, x, q, f[x])  BY <1>4, <1>6
  <1>8. f \in [S -> T]  BY <1>6, <1>7
  <1>9. \A x, z \in S : f[x] = f[z] => x = z
    <2>1. SUFFICES ASSUME NEW x \in S, NEW z \in S, f[x] = f[z] PROVE x = z  OBVIOUS
    <2>2. QED  BY <1>5, <1>7, <2>1
  <1>10. f \in Injection(S, T)  BY <1>8, <1>9 DEF Injection, IsInjective
  <1>11. QED  BY <1>1, <1>2, <1>3, <1>10, FS_Injection

LEMMA AsManyBoth ==
    ASSUME AllMatched, job \in Jobs, NEW r \in Ranks, NEW q \in Ranks, NEW c \in DOMAIN job.calls[r],
           NEW d \in DOMAIN job.calls[q], Answers(job, Round(job), r, c, q, d)
    PROVE  Cardinality(Upto(r, c, job.calls[r][c].kind, q)) = Cardinality(Upto(q, d, job.calls[q][d].kind, r))
  <1>1. PICK K, M : K = job.calls[r][c].kind /\ M = job.calls[q][d].kind  OBVIOUS
  <1>2. PICK S, T : S = Upto(r, c, K, q) /\ T = Upto(q, d, M, r)  OBVIOUS
  <1>3. IsFiniteSet(S) /\ IsFiniteSet(T)  BY <1>2, UptoHas
  <1>4. Cardinality(S) \in Nat /\ Cardinality(T) \in Nat  BY <1>3, FS_CardinalityType
  <1>5. Cardinality(S) <= Cardinality(T)  BY <1>1, <1>2, AsMany
  <1>6. Answers(job, Round(job), q, d, r, c)  BY AnswersBack
  <1>7. Cardinality(T) <= Cardinality(S)  BY <1>1, <1>2, <1>6, AsMany
  <1>8. QED  BY <1>1, <1>2, <1>4, <1>5, <1>7

LEMMA UptoGrows ==
    ASSUME job \in Jobs, NEW q \in Ranks, NEW i \in DOMAIN job.calls[q], NEW a \in DOMAIN job.calls[q], i < a,
           NEW kind, kind = job.calls[q][a].kind, NEW r, r = job.calls[q][a].peer
    PROVE  Cardinality(Upto(q, i, kind, r)) < Cardinality(Upto(q, a, kind, r))
  <1>1. PICK S, T : S = Upto(q, i, kind, r) /\ T = Upto(q, a, kind, r)  OBVIOUS
  <1>2. IsFiniteSet(S) /\ IsFiniteSet(T)  BY <1>1, UptoHas
  <1>3. i \in Nat /\ a \in Nat  BY CallFacts DEF Ranks
  <1>4. S \subseteq T
    <2>1. SUFFICES ASSUME NEW x \in S PROVE x \in T  OBVIOUS
    <2>2. x \in DOMAIN job.calls[q] /\ x <= i /\ job.calls[q][x].kind = kind /\ job.calls[q][x].peer = r
      BY <1>1, <2>1, UptoHas
    <2>3. x \in Nat  BY <2>2, CallFacts DEF Ranks
    <2>4. x <= a  BY <1>3, <2>2, <2>3
    <2>5. QED  BY <1>1, <2>2, <2>4, UptoHas
  <1>5. a \in T  BY <1>1, <1>3, UptoHas
  <1>6. a \notin S  BY <1>1, <1>3, UptoHas
  <1>7. S # T  BY <1>5, <1>6
  <1>8. Cardinality(S) \in Nat /\ Cardinality(T) \in Nat  BY <1>2, FS_CardinalityType
  <1>9. S \in SUBSET T  BY <1>4
  <1>10. Cardinality(S) <= Cardinality(T) /\ Cardinality(S) # Cardinality(T)
    BY <1>2, <1>7, <1>9, FS_Subset
  <1>11. QED  BY <1>1, <1>8, <1>10

(* The n-th send of rank q to rank r. *)
NthSend(r, q, n, i) ==
    /\ job.calls[q][i].kind = "send" /\ job.calls[q][i].peer = r
    /\ Cardinality(Upto(q, i, "send", r)) = n

LEMMA NthSendIs ==
    ASSUME AllMatched, job \in Jobs, NEW r \in Ranks, NEW c \in DOMAIN job.calls[r], job.calls[r][c].kind = "recv",
           NEW q, q = job.calls[r][c].peer, NEW n, n = Cardinality(Upto(r, c, "recv", q))
    PROVE  (CHOOSE i \in DOMAIN job.calls[q] : NthSend(r, q, n, i)) = Answering(job, r, c)
  <1>1. PICK j \in Jobs : j = job  OBVIOUS
  <1>2. r \in RanksOf(j) /\ c \in DOMAIN j.calls[r]  BY <1>1 DEF Ranks
  <1>3. j.calls[r][c].kind \in {"send", "recv"} /\ j.calls[r][c].kind \notin Collectives
    BY <1>1 DEF Collectives
  <1>4. q \in RanksOf(j)
    <2>1. PICK it : it = j.calls[r][c]  OBVIOUS
    <2>2. it.peer \in RanksOf(j)  BY <1>2, <1>3, <2>1, PieceCall
    <2>3. QED  BY <1>1, <2>1, <2>2
  <1>5. q \in Ranks  BY <1>1, <1>4 DEF Ranks
  <1>6. \E d \in DOMAIN j.calls[q] : Answers(j, Round(j), r, c, q, d)
    BY <1>1, <1>2, <1>3, CallAnswered
  <1>7. PICK a : a = Answering(job, r, c)  OBVIOUS
  <1>8. a = CHOOSE d \in DOMAIN j.calls[q] : Answers(j, Round(j), r, c, q, d)
    BY <1>1, <1>7 DEF Answering
  <1>9. a \in DOMAIN j.calls[q] /\ Answers(j, Round(j), r, c, q, a)  BY <1>6, <1>8
  <1>10. j.calls[q][a].kind = "send" /\ j.calls[q][a].peer = r
    <2>1. {j.calls[r][c].kind, j.calls[q][a].kind} = {"send", "recv"}  BY <1>9 DEF Answers
    <2>2. QED  BY <1>1, <1>9, <2>1 DEF Answers
  <1>11. NthSend(r, q, n, a)
    <2>1. Cardinality(Upto(r, c, job.calls[r][c].kind, q)) = Cardinality(Upto(q, a, job.calls[q][a].kind, r))
      <3>1. a \in DOMAIN job.calls[q] /\ Answers(job, Round(job), r, c, q, a)  BY <1>1, <1>9
      <3>2. QED  BY <1>5, <3>1, AsManyBoth
    <2>2. QED  BY <1>1, <1>10, <2>1 DEF NthSend
  <1>12. ASSUME NEW i \in DOMAIN job.calls[q], NthSend(r, q, n, i) PROVE i = a
    <2>1. PICK A, B : A = Cardinality(Upto(q, i, "send", r)) /\ B = Cardinality(Upto(q, a, "send", r))
      OBVIOUS
    <2>2. A = n /\ B = n  BY <1>11, <1>12, <2>1 DEF NthSend
    <2>3. IsFiniteSet(Upto(q, i, "send", r))  BY <1>5, UptoHas
    <2>4. A \in Nat  BY <2>1, <2>3, FS_CardinalityType
    <2>5. a \in DOMAIN job.calls[q]  BY <1>1, <1>9
    <2>6. i \in Nat /\ a \in Nat  BY <1>1, <1>4, <2>5, CallFacts
    <2>7. PICK send : send = "send"  OBVIOUS
    <2>8. send = job.calls[q][i].kind /\ r = job.calls[q][i].peer /\ send = job.calls[q][a].kind /\ r = job.calls[q][a].peer
      BY <1>1, <1>10, <1>12, <2>7 DEF NthSend
    <2>9. ~(i < a)
      <3>1. SUFFICES ASSUME i < a PROVE FALSE  OBVIOUS
      <3>2. Cardinality(Upto(q, i, send, r)) < Cardinality(Upto(q, a, send, r))
        BY <1>5, <2>5, <2>8, <3>1, UptoGrows
      <3>3. QED  BY <2>1, <2>2, <2>4, <2>7, <3>2
    <2>10. ~(a < i)
      <3>1. SUFFICES ASSUME a < i PROVE FALSE  OBVIOUS
      <3>2. Cardinality(Upto(q, a, send, r)) < Cardinality(Upto(q, i, send, r))
        BY <1>5, <2>5, <2>8, <3>1, UptoGrows
      <3>3. QED  BY <2>1, <2>2, <2>4, <2>7, <3>2
    <2>11. QED  BY <2>6, <2>9, <2>10
  <1>13. QED  BY <1>1, <1>7, <1>9, <1>11, <1>12

LEMMA FinalYields ==
    ASSUME AllMatched, job \in Jobs, NEW r \in Ranks, NEW c \in DOMAIN job.calls[r], NEW k \in 1..Width(r, c)
    PROVE  Yields(job, r, c, k, Expected(r, c, k))
  <1>1. PICK j \in Jobs : j = job  OBVIOUS
  <1>2. r \in RanksOf(j) /\ c \in DOMAIN j.calls[r]  BY <1>1 DEF Ranks
  <1>3. PICK kind, size : kind = j.calls[r][c].kind /\ size = j.calls[r][c].size  OBVIOUS
  <1>4. kind \in {"all_reduce", "all_gather", "send", "recv"}  BY <1>2, <1>3, CallFacts
  <1>5. Width(r, c) = IF kind = "all_gather" THEN j.ranks * size ELSE size  BY <1>1, <1>3 DEF Width
  <1>6. CASE kind = "all_reduce"
    <2>1. Yields(j, r, c, k, Gifts(c, RanksOf(j), k))  BY <1>2, <1>3, <1>5, <1>6, ReduceYields
    <2>2. Expected(r, c, k) = SetToBag({<<c, q, k>> : q \in Ranks})
      BY <1>1, <1>3, <1>6 DEF Expected
    <2>3. Gifts(c, RanksOf(j), k) = SetToBag({<<c, q, k>> : q \in Ranks})
      BY <1>1, Zenon DEF Gifts, Ranks
    <2>4. QED  BY <1>1, <2>1, <2>2, <2>3
  <1>7. CASE kind = "all_gather"
    <2>1. Yields(j, r, c, k, Element(c, (k - 1) \div size, ((k - 1) % size) + 1))
      BY <1>2, <1>3, <1>5, <1>7, GatherYields
    <2>2. Expected(r, c, k) = Element(c, (k - 1) \div size, ((k - 1) % size) + 1)
      BY <1>1, <1>3, <1>7 DEF Expected
    <2>3. QED  BY <1>1, <2>1, <2>2
  <1>8. CASE kind = "send"
    <2>1. Yields(j, r, c, k, Element(c, r, k))  BY <1>2, <1>3, <1>5, <1>8, SendYields
    <2>2. Expected(r, c, k) = Element(c, r, k)  BY <1>1, <1>3, <1>8 DEF Expected
    <2>3. QED  BY <1>1, <2>1, <2>2
  <1>9. CASE kind = "recv"
    <2>1. PICK q, n : q = job.calls[r][c].peer /\ n = Cardinality(Upto(r, c, "recv", q))  OBVIOUS
    <2>2. Yields(j, r, c, k, Element(Answering(j, r, c), q, k))
      BY <1>1, <1>2, <1>3, <1>5, <1>9, <2>1, RecvYields
    <2>3. Expected(r, c, k) = Element(CHOOSE i \in DOMAIN job.calls[q] : NthSend(r, q, n, i), q, k)
      BY <1>1, <1>3, <1>9, <2>1 DEF Expected, NthSend
    <2>4. (CHOOSE i \in DOMAIN job.calls[q] : NthSend(r, q, n, i)) = Answering(job, r, c)
      BY <1>1, <1>3, <1>9, <2>1, NthSendIs
    <2>5. QED  BY <1>1, <2>2, <2>3, <2>4
  <1>10. QED  BY <1>4, <1>6, <1>7, <1>8, <1>9

(* When all the steps that write it are done, each element of a call's array *)
(* is what the call promises; some lane has it, whatever the sizes.          *)
THEOREM FinalValue ==
    ASSUME AllMatched, job \in Jobs, NEW r \in Ranks, NEW c \in DOMAIN job.calls[r], NEW k \in 1..Width(r, c)
    PROVE  \E l \in DOMAIN Lanes(job, r, c) :
              LET L == Lanes(job, r, c)[l]
                  x == OutCell(r, c, k)
              IN  x \in LaneMemory(L) /\ Value(job, r, c, l, Writers(L, x), k) = Expected(r, c, k)
  <1>1. Yields(job, r, c, k, Expected(r, c, k))  BY FinalYields
  <1>2. QED  BY <1>1, Zenon DEF Yields
=============================================================================
