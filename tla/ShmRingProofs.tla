--------------------------- MODULE ShmRingProofs ---------------------------
(***************************************************************************)
(* For every capacity, batch size and number of deaths: what is published  *)
(* stays in its slot until the tail passes it (even if a new producer      *)
(* creates the ring again under a consumer), and, if none does that,       *)
(* pop_batch returns it once and in order, except for the batch that a     *)
(* consumer dies with: the ring is a bounded queue.                        *)
(***************************************************************************)
EXTENDS ShmRing, TLAPS

(* Two pointers less than a ring apart are at different slots.              *)
LEMMA Multiple ==
    ASSUME NEW c \in Nat \ {0}, NEW d \in Int, d # 0
    PROVE  c * d >= c \/ c * d =< -c
  <1>1. CASE d >= 1  BY <1>1, SMT
  <1>2. CASE d =< -1  BY <1>2, SMT
  <1> QED  BY <1>1, <1>2

LEMMA DivMod ==
    ASSUME NEW c \in Nat \ {0}, NEW a \in Nat
    PROVE  /\ a \div c \in Int /\ a % c \in 0..(c - 1)
           /\ a = c * (a \div c) + (a % c)
  OBVIOUS

LEMMA SlotsDiffer ==
    ASSUME NEW c \in Nat \ {0}, NEW a \in Nat, NEW b \in Nat, a < b, b - a < c
    PROVE  a % c # b % c
  <1> SUFFICES ASSUME a % c = b % c PROVE FALSE  OBVIOUS
  <1> DEFINE p == a \div c  q == b \div c
  <1>1. /\ p \in Int /\ a = c * p + (a % c)
        /\ q \in Int /\ b = c * q + (b % c)
    BY DivMod
  <1>2. a % c \in Int  BY DivMod
  <1> HIDE DEF p, q
  <1>3. b - a = c * (q - p)  BY <1>1, <1>2
  <1>4. q - p # 0  BY <1>1, <1>3
  <1>5. c * (q - p) >= c \/ c * (q - p) =< -c  BY <1>1, <1>4, Multiple
  <1> QED  BY <1>3, <1>5
-----------------------------------------------------------------------------
(* The weaker typing that holds even when the ring is created again under a *)
(* consumer.                                                                *)
Writing == {"write", "fill", "publish"}

Slots == [seq : Nat, item : Nat]

TypeInv ==
    /\ linked \in BOOLEAN /\ valid \in BOOLEAN
    /\ cap \in Nat \ {0} /\ head \in Nat /\ tail \in Nat
    /\ slots \in [0..(cap - 1) -> Slots]
    /\ ppc \in {"off", "create", "idle", "return"} \cup Writing
    /\ owner \in BOOLEAN /\ made \in 0..MaxPushes
    /\ cpc \in {"off", "idle", "copy", "return"} /\ cCap \in Nat \ {0}
    /\ cTail \in Nat /\ count \in Nat /\ records \in Seq(Slots)
    /\ crashes \in Nat
    /\ published \in Seq(Slots) /\ received \in Seq(Slots) /\ lost \subseteq Nat

(* The producer's side: it writes only where nothing waits, and publishes   *)
(* only what it has written; the tail never moves back under it.            *)
ProducerInv ==
    /\ head - tail =< cap /\ head =< made
    /\ ppc \in Writing => head - tail < cap /\ head < made
    /\ ppc = "publish" => slots[head % cap] = Record(head, made)
    /\ ppc = "create" => head = 0
    /\ ppc = "return" => head > 0
    /\ cpc = "copy" => cTail >= tail

UnreadInv == TypeInv /\ ProducerInv /\ Unread

LEMMA TypeInit == Init => TypeInv
  BY RingAssumption DEF Init, TypeInv, Blank, Zeros, Record, Slots, Writing

LEMMA SlotInRing == TypeInv => head % cap \in 0..(cap - 1)
  BY DivMod DEF TypeInv

LEMMA AppendItems ==
    ASSUME NEW S, NEW s \in Seq(S), NEW e \in S
    PROVE  /\ Append(s, e) \in Seq(S)
           /\ Len(Append(s, e)) = Len(s) + 1 /\ Append(s, e)[Len(s) + 1] = e
           /\ \A i \in 1..Len(s) : Append(s, e)[i] = s[i]
  OBVIOUS

LEMMA ConcatItems ==
    ASSUME NEW S, NEW s \in Seq(S), NEW t \in Seq(S)
    PROVE  /\ s \o t \in Seq(S) /\ Len(s \o t) = Len(s) + Len(t)
           /\ \A i \in 1..Len(s) : (s \o t)[i] = s[i]
           /\ \A i \in 1..Len(t) : (s \o t)[Len(s) + i] = t[i]
  OBVIOUS

LEMMA TypeStep == TypeInv /\ [Next]_vars => TypeInv'
  <1> SUFFICES ASSUME TypeInv, [Next]_vars PROVE TypeInv'  OBVIOUS
  <1> USE RingAssumption DEF TypeInv, Writing
  <1>1. CASE CheckFull  BY <1>1 DEF CheckFull, file, consumer, locals, history
  <1>2. CASE WriteRecord
    <2>1. Record(head, 0) \in Slots /\ Record(head, made) \in Slots
      BY DEF Record, Slots
    <2> QED
      BY <1>2, <2>1 DEF WriteRecord, consumer, locals, history
  <1>3. CASE SetHead
    <2>1. Record(head, made) \in Slots  BY DEF Record, Slots
    <2>2. published' \in Seq(Slots)  BY <1>3, <2>1, AppendItems DEF SetHead
    <2> QED  BY <1>3, <2>2 DEF SetHead, consumer, locals
  <1>4. CASE ReturnPush
    BY <1>4 DEF ReturnPush, file, consumer, locals
  <1>5. CASE \E n \in Batches : CheckEmpty(n)
    <2> PICK n \in Batches : CheckEmpty(n)  BY <1>5
    <2>1. n \in Nat /\ Batch(n) \in Nat  BY DEF Batch, CheckEmpty
    <2> QED  BY <2>1 DEF CheckEmpty, file, producer, history
  <1>6. CASE CopyRecord
    <2> DEFINE slot == (cTail + Len(records)) % cCap
               read == IF slot < cap THEN slots[slot] ELSE Zeros
    <2>1. slot \in Nat  BY DivMod
    <2>2. read \in Slots  BY <2>1 DEF Zeros, Record, Slots
    <2>3. records' = Append(records, read)  BY <1>6 DEF CopyRecord
    <2> HIDE DEF slot, read
    <2>4. records' \in Seq(Slots)  BY <2>2, <2>3
    <2> QED  BY <1>6, <2>4 DEF CopyRecord, file, producer, history
  <1>7. CASE SetTail  BY <1>7 DEF SetTail, producer, locals, history
  <1>8. CASE ReturnBatch
    <2>1. received' \in Seq(Slots)  BY <1>8, ConcatItems DEF ReturnBatch
    <2> QED  BY <1>8, <2>1 DEF ReturnBatch, Forgotten, file, producer
  <1>9. CASE CrashProducer  BY <1>9 DEF CrashProducer, file, consumer, locals, history
  <1>10. CASE CrashConsumer
    <2>1. InHand \subseteq Nat  BY DEF InHand
    <2> QED  BY <1>10, <2>1 DEF CrashConsumer, Forgotten, file, producer
  <1>11. CASE AttachProducer
    BY <1>11 DEF AttachProducer, file, consumer, locals, history
  <1>12. CASE AttachConsumer
    BY <1>12 DEF AttachConsumer, file, producer, locals, history
  <1>13. CASE CloseProducer
    BY <1>13 DEF CloseProducer, consumer, locals, history
  <1>14. CASE CloseConsumer
    BY <1>14 DEF CloseConsumer, file, producer, locals, history
  <1>15. CASE \E c \in Capacities : Create(c)
    <2> PICK c \in Capacities : Create(c)  BY <1>15
    <2>1. c \in Nat \ {0}  OBVIOUS
    <2>2. Blank(c) \in [0..(c - 1) -> Slots]  BY DEF Blank, Zeros, Record, Slots
    <2>3. /\ cap' = c /\ head' = 0 /\ tail' = 0 /\ slots' = Blank(c)
          /\ linked' = TRUE /\ valid' = FALSE /\ owner' = TRUE /\ ppc' = "create"
          /\ published' = <<>> /\ received' = <<>> /\ lost' = {}
          /\ UNCHANGED <<made, cpc, cCap, cTail, count, records, crashes>>
      BY DEF Create, consumer, locals
    <2>4. slots' \in [0..(cap' - 1) -> Slots]  BY <2>2, <2>3
    <2>5. published' \in Seq(Slots) /\ received' \in Seq(Slots)
      <3>1. <<>> \in Seq(Slots)  OBVIOUS
      <3> QED  BY <2>3, <3>1
    <2>6. head' \in Nat /\ tail' \in Nat /\ cap' \in Nat \ {0}  BY <2>1, <2>3
    <2> QED  BY <2>3, <2>4, <2>5, <2>6
  <1>16. CASE InitHeader  BY <1>16 DEF InitHeader, consumer, locals, history
  <1>17. CASE UNCHANGED vars
    BY <1>17 DEF vars, file, producer, consumer, locals, history
  <1> QED
    BY <1>1, <1>2, <1>3, <1>4, <1>5, <1>6, <1>7, <1>8, <1>9, <1>10, <1>11,
       <1>12, <1>13, <1>14, <1>15, <1>16, <1>17 DEF Next
-----------------------------------------------------------------------------
(* What is published stays where it is until the tail has passed it.        *)

(* A record that is written leaves every waiting one alone.                 *)
LEMMA WriteElsewhere ==
    ASSUME TypeInv, head - tail < cap, NEW n \in tail..(head - 1), NEW r
    PROVE  [slots EXCEPT ![head % cap] = r][n % cap] = slots[n % cap]
  <1>1. n \in Nat /\ n < head /\ head - n < cap  BY DEF TypeInv
  <1>2. n % cap \in 0..(cap - 1)  BY <1>1, DivMod DEF TypeInv
  <1>3. n % cap # head % cap  BY <1>1, SlotsDiffer DEF TypeInv
  <1> QED  BY <1>2, <1>3 DEF TypeInv

LEMMA UnreadInit == Init => UnreadInv
  <1> SUFFICES ASSUME Init PROVE ProducerInv /\ Unread
    BY TypeInit DEF UnreadInv
  <1> QED  BY RingAssumption DEF Init, ProducerInv, Unread, Writing

(* The number of a record that is published is the head, and those before   *)
(* it stay what they are.                                                   *)
LEMMA Published ==
    ASSUME TypeInv, Unread, SetHead
    PROVE  /\ published \in Seq(Slots) /\ Record(head, made) \in Slots
           /\ head \in Nat /\ head = Len(published) /\ head' = head + 1
           /\ Len(published') = head + 1 /\ published'[head + 1] = Record(head, made)
           /\ \A i \in 1..head : published'[i] = published[i]
  <1>1. published \in Seq(Slots) /\ Record(head, made) \in Slots
    BY DEF TypeInv, Record, Slots
  <1>2. head \in Nat /\ head = Len(published) /\ head' = head + 1
    BY DEF TypeInv, Unread, SetHead
  <1>3. published' = Append(published, Record(head, made))  BY DEF SetHead
  <1> QED  BY <1>1, <1>2, <1>3, AppendItems

LEMMA UnreadStep == UnreadInv /\ [Next]_vars => UnreadInv'
  <1> SUFFICES ASSUME UnreadInv, [Next]_vars PROVE ProducerInv' /\ Unread'
    BY TypeStep DEF UnreadInv
  <1>0. TypeInv /\ TypeInv' /\ ProducerInv /\ Unread
    BY TypeStep DEF UnreadInv
  <1>1. ASSUME UNCHANGED <<cap, head, tail, slots, published>>  PROVE Unread'
    BY <1>0, <1>1 DEF Unread
  <1>2. ASSUME UNCHANGED <<cap, head, tail, slots, made>>,
               ppc' \in {ppc, "off", "idle"},
               cpc' = "copy" => cpc = "copy" /\ cTail' = cTail
        PROVE  ProducerInv'
    BY <1>0, <1>2 DEF ProducerInv, Writing
  <1>3. CASE CheckFull
    <2>1. Unread'  BY <1>1, <1>3 DEF CheckFull, file, history
    <2>2. head - tail < cap  BY <1>0, <1>3 DEF CheckFull, Full, TypeInv
    <2>3. /\ ppc' = "write" /\ made' = made + 1
          /\ UNCHANGED <<cap, head, tail, cpc, cTail>>
      BY <1>3 DEF CheckFull, file, consumer, locals
    <2>4. head' =< made' /\ head' < made'
      BY <1>0, <2>3 DEF ProducerInv, TypeInv
    <2> QED  BY <1>0, <2>1, <2>2, <2>3, <2>4 DEF ProducerInv
  <1>4. CASE WriteRecord
    <2>1. ppc \in Writing /\ head - tail < cap
      BY <1>0, <1>4 DEF WriteRecord, ProducerInv, Writing
    <2>2. PICK r : slots' = [slots EXCEPT ![head % cap] = r]
      BY <1>4 DEF WriteRecord, Slot
    <2>3. UNCHANGED <<cap, head, tail, published, made, cpc, cTail>>
      BY <1>4 DEF WriteRecord, consumer, locals, history
    <2>4. Unread'
      <3>1. \A n \in tail..(head - 1) : slots'[n % cap] = slots[n % cap]
        BY <1>0, <2>1, <2>2, WriteElsewhere
      <3> QED  BY <1>0, <2>3, <3>1 DEF Unread
    <2>5. ppc' = "publish" => slots'[head % cap] = Record(head, made)
      BY <1>0, <1>4, SlotInRing DEF WriteRecord, Slot, TypeInv
    <2>6. ppc' # "create" /\ ppc' # "return"  BY <1>4 DEF WriteRecord
    <2> QED  BY <1>0, <2>1, <2>3, <2>4, <2>5, <2>6 DEF ProducerInv
  <1>5. CASE SetHead
    <2>1. head - tail < cap /\ head < made /\ slots[head % cap] = Record(head, made)
      BY <1>0, <1>5 DEF SetHead, ProducerInv, Writing
    <2>2. /\ head' = head + 1 /\ ppc' = "return"
          /\ UNCHANGED <<cap, tail, slots, made, cpc, cTail>>
      BY <1>5 DEF SetHead, consumer, locals
    <2>3. /\ Len(published') = head + 1 /\ published'[head + 1] = Record(head, made)
          /\ \A i \in 1..head : published'[i] = published[i]
      BY <1>0, <1>5, Published
    <2>4. ASSUME NEW n \in tail'..(head' - 1)
          PROVE  slots'[n % cap'] = published'[n + 1]
      <3>1. CASE n = head  BY <2>1, <2>2, <2>3, <3>1
      <3>2. CASE n # head
        <4>1. n \in tail..(head - 1) /\ n + 1 \in 1..head
          BY <1>0, <2>2, <3>2 DEF TypeInv
        <4> QED  BY <1>0, <2>2, <2>3, <4>1 DEF Unread
      <3> QED  BY <3>1, <3>2
    <2>5. Unread'  BY <2>2, <2>3, <2>4 DEF Unread
    <2>6. head' - tail' =< cap' /\ head' =< made' /\ head' > 0
      BY <1>0, <2>1, <2>2 DEF TypeInv
    <2> QED  BY <1>0, <2>2, <2>5, <2>6 DEF ProducerInv, Writing
  <1>6. CASE ReturnPush
    BY <1>1, <1>2, <1>6 DEF ReturnPush, file, consumer, locals
  <1>7. CASE \E n \in Batches : CheckEmpty(n)
    <2>1. UNCHANGED <<file, producer, history>> /\ cTail' = tail
      BY <1>7 DEF CheckEmpty
    <2>2. Unread'  BY <1>1, <2>1 DEF file, history
    <2> QED
      BY <1>0, <2>1, <2>2 DEF ProducerInv, Writing, TypeInv, file, producer
  <1>8. CASE CopyRecord
    BY <1>1, <1>2, <1>8 DEF CopyRecord, file, producer, history
  <1>9. CASE SetTail
    <2>1. /\ tail' = cTail + count /\ cpc' = "return" /\ cTail >= tail
          /\ UNCHANGED <<cap, head, slots, ppc, made, published>>
      BY <1>0, <1>9 DEF SetTail, ProducerInv, producer, history
    <2>2. tail' \in Nat /\ tail' >= tail  BY <1>0, <2>1 DEF TypeInv
    <2>3. Unread'
      <3>1. tail'..(head - 1) \subseteq tail..(head - 1)
        BY <1>0, <2>2 DEF TypeInv
      <3> QED  BY <1>0, <2>1, <3>1 DEF Unread
    <2>4. ppc \in Writing => head' - tail' < cap'
      BY <1>0, <2>1, <2>2 DEF ProducerInv, TypeInv
    <2>5. head' - tail' =< cap'  BY <1>0, <2>1, <2>2 DEF ProducerInv, TypeInv
    <2> QED  BY <1>0, <2>1, <2>3, <2>4, <2>5 DEF ProducerInv
  <1>10. CASE ReturnBatch
    BY <1>1, <1>2, <1>10 DEF ReturnBatch, file, producer
  <1>11. CASE CrashProducer
    BY <1>1, <1>2, <1>11 DEF CrashProducer, file, consumer, locals, history
  <1>12. CASE CrashConsumer
    BY <1>1, <1>2, <1>12 DEF CrashConsumer, file, producer
  <1>13. CASE AttachProducer
    BY <1>1, <1>2, <1>13 DEF AttachProducer, file, consumer, locals, history
  <1>14. CASE AttachConsumer
    BY <1>1, <1>2, <1>14 DEF AttachConsumer, file, producer, locals, history
  <1>15. CASE CloseProducer
    BY <1>1, <1>2, <1>15 DEF CloseProducer, consumer, locals, history
  <1>16. CASE CloseConsumer
    BY <1>1, <1>2, <1>16 DEF CloseConsumer, file, producer, locals, history
  <1>17. CASE \E c \in Capacities : Create(c)
    <2>1. /\ head' = 0 /\ tail' = 0 /\ published' = <<>> /\ ppc' = "create"
          /\ UNCHANGED <<made, cpc, cTail>>
      BY <1>17 DEF Create, consumer, locals
    <2> QED  BY <1>0, <2>1 DEF ProducerInv, Unread, Writing, TypeInv
  <1>18. CASE InitHeader
    <2>1. /\ head' = 0 /\ tail' = 0 /\ ppc' = "idle"
          /\ UNCHANGED <<cap, slots, made, cpc, cTail, published>>
      BY <1>18 DEF InitHeader, consumer, locals, history
    <2>2. head = 0  BY <1>0, <1>18 DEF InitHeader, ProducerInv
    <2>3. Unread'  BY <1>0, <2>1, <2>2 DEF Unread, TypeInv
    <2>4. ProducerInv'  BY <1>0, <2>1 DEF ProducerInv, Writing, TypeInv
    <2> QED  BY <2>3, <2>4
  <1>19. CASE UNCHANGED vars
    BY <1>1, <1>2, <1>19 DEF vars, file, producer, consumer, locals, history
  <1> QED
    BY <1>3, <1>4, <1>5, <1>6, <1>7, <1>8, <1>9, <1>10, <1>11, <1>12, <1>13,
       <1>14, <1>15, <1>16, <1>17, <1>18, <1>19 DEF Next

(* push never overwrites a record that waits nor publishes one half         *)
(* written, whoever dies and even when the ring is created again.           *)
THEOREM UnreadCorrect == Spec => []Unread
  <1>1. UnreadInv => Unread  BY DEF UnreadInv
  <1> QED  BY UnreadInit, UnreadStep, <1>1, PTL DEF Spec
-----------------------------------------------------------------------------
(* If no ring is created under a consumer, the consumer's view of it stays  *)
(* right: what it copies between reading the header and moving the tail is  *)
(* what was published.                                                      *)
CreateInv ==
    /\ ~valid => cpc = "off"
    /\ ppc = "create" => ~valid /\ tail = 0

(* From where the next record to be returned comes.                         *)
Returned == IF cpc = "return" THEN cTail ELSE tail

CopyInv ==
    /\ cpc # "off" => cCap = cap
    /\ tail =< head /\ count =< cap
    /\ cpc \notin {"copy", "return"} => count = 0
    /\ cpc = "copy" => cTail = tail /\ count =< head - tail
    /\ cpc = "return" => cTail + count = tail /\ Len(records) = count
    /\ cpc \in {"copy", "return"} =>
         /\ Len(records) =< count
         /\ \A i \in 1..Len(records) : records[i] = published[cTail + i]

NumberInv == \A n \in 1..head : published[n].seq = n - 1

AcceptedInv == accepted \subseteq {published[n] : n \in 1..head}

(* What has been returned and what has been lost make up all that lies      *)
(* before Returned.                                                         *)
ReceivedInv ==
    /\ Numbers \cup lost = 0..(Returned - 1) /\ Numbers \cap lost = {}
    /\ \A i \in 1..Len(received) : received[i] = published[received[i].seq + 1]
    /\ \A i, j \in 1..Len(received) : i < j => received[i].seq < received[j].seq

OrderInv ==
    UnreadInv /\ CreateInv /\ CopyInv /\ NumberInv /\ AcceptedInv /\ ReceivedInv

LEMMA OrderInit == Init => OrderInv
  <1> SUFFICES ASSUME Init PROVE OrderInv  OBVIOUS
  <1>1. UnreadInv  BY UnreadInit
  <1>2. CreateInv /\ CopyInv /\ NumberInv /\ AcceptedInv
    BY RingAssumption DEF Init, CreateInv, CopyInv, NumberInv, AcceptedInv
  <1>3. Numbers = {} /\ Returned = 0 /\ lost = {} /\ Len(received) = 0
    BY DEF Init, Numbers, Returned
  <1>4. ReceivedInv  BY <1>3 DEF ReceivedInv
  <1> QED  BY <1>1, <1>2, <1>4 DEF OrderInv

LEMMA CreateStep ==
    ASSUME WhileAttached = FALSE, TypeInv, CreateInv, [Next]_vars
    PROVE  CreateInv'
  <1> USE DEF CreateInv
  <1>1. ASSUME UNCHANGED <<valid, tail>>, cpc' = "off" \/ cpc # "off",
               ppc' = "create" => ppc = "create"
        PROVE  CreateInv'
    BY <1>1
  <1>2. CASE CheckFull \/ WriteRecord
    BY <1>1, <1>2 DEF CheckFull, WriteRecord, file, consumer
  <1>3. CASE SetHead \/ ReturnPush \/ CloseProducer
    BY <1>1, <1>3 DEF SetHead, ReturnPush, CloseProducer, file, consumer
  <1>4. CASE \E n \in Batches : CheckEmpty(n)
    BY <1>1, <1>4 DEF CheckEmpty, file, producer
  <1>5. CASE CopyRecord \/ ReturnBatch
    BY <1>1, <1>5 DEF CopyRecord, ReturnBatch, file, producer
  <1>6. CASE SetTail  BY <1>6 DEF SetTail, producer
  <1>7. CASE CrashProducer  BY <1>1, <1>7 DEF CrashProducer, file, consumer
  <1>8. CASE CrashConsumer  BY <1>1, <1>8 DEF CrashConsumer, file, producer
  <1>9. CASE AttachProducer  BY <1>1, <1>9 DEF AttachProducer, file, consumer
  <1>10. CASE AttachConsumer  BY <1>10 DEF AttachConsumer, file, producer
  <1>11. CASE CloseConsumer  BY <1>1, <1>11 DEF CloseConsumer, file, producer
  <1>12. CASE \E c \in Capacities : Create(c)  BY <1>12 DEF Create, consumer
  <1>13. CASE InitHeader  BY <1>13 DEF InitHeader
  <1>14. CASE UNCHANGED vars  BY <1>1, <1>14 DEF vars, file, producer, consumer
  <1> QED
    BY <1>2, <1>3, <1>4, <1>5, <1>6, <1>7, <1>8, <1>9, <1>10, <1>11, <1>12,
       <1>13, <1>14 DEF Next

(* What one step of the copy reads is the next record waiting.              *)
LEMMA CopyRight ==
    ASSUME UnreadInv, CopyInv, CopyRecord
    PROVE  /\ records' = Append(records, published[tail + Len(records) + 1])
           /\ published[tail + Len(records) + 1] \in Slots
  <1> DEFINE n == tail + Len(records)
  <1>a. TypeInv /\ Unread /\ cpc = "copy" /\ Len(records) < count
    BY DEF UnreadInv, CopyRecord
  <1>b. cTail = tail /\ cCap = cap /\ count =< head - tail
    BY <1>a DEF CopyInv
  <1>c. n \in tail..(head - 1) /\ n \in Nat  BY <1>a, <1>b DEF TypeInv
  <1>1. /\ n \in tail..(head - 1) /\ n \in Nat /\ cTail = tail /\ cCap = cap
        /\ head = Len(published) /\ published \in Seq(Slots)
    BY <1>a, <1>b, <1>c DEF TypeInv, Unread
  <1>2. slots[n % cap] = published[n + 1]  BY <1>1 DEF UnreadInv, Unread
  <1>3. n % cap < cap  BY <1>1, DivMod DEF UnreadInv, TypeInv
  <1>4. published[n + 1] \in Slots
    <2>1. n + 1 \in 1..Len(published)  BY <1>1 DEF UnreadInv, TypeInv
    <2> QED  BY <1>1, <2>1
  <1> QED  BY <1>1, <1>2, <1>3, <1>4 DEF CopyRecord

LEMMA CopyStep ==
    ASSUME WhileAttached = FALSE, UnreadInv, UnreadInv', CreateInv, CopyInv, [Next]_vars
    PROVE  CopyInv'
  <1>0. TypeInv /\ TypeInv' /\ ProducerInv /\ Unread  BY DEF UnreadInv
  <1>1. ASSUME UNCHANGED <<cap, cCap, head, tail, cpc, cTail, count, records, published>>
        PROVE  CopyInv'
    BY <1>1 DEF CopyInv
  <1>2. ASSUME UNCHANGED <<cap, head, tail>>, cpc' = "off" \/ cCap' = cap,
               cpc' \notin {"copy", "return"}, count' = 0
        PROVE  CopyInv'
    <2>1. tail' =< head' /\ count' =< cap' /\ (cpc' # "off" => cCap' = cap')
      BY <1>0, <1>2 DEF CopyInv, TypeInv
    <2> QED  BY <1>2, <2>1 DEF CopyInv
  <1>3. CASE CheckFull \/ WriteRecord \/ ReturnPush
    BY <1>1, <1>3 DEF CheckFull, WriteRecord, ReturnPush, file, consumer, locals, history
  <1>4. CASE SetHead
    <2>1. /\ head' = head + 1
          /\ UNCHANGED <<cap, tail, cpc, cCap, cTail, count, records>>
      BY <1>4 DEF SetHead, consumer, locals
    <2>2. \A i \in 1..head : published'[i] = published[i]
      BY <1>0, <1>4, Published
    <2>3. ASSUME cpc \in {"copy", "return"}, NEW i \in 1..Len(records)
          PROVE  records[i] = published'[cTail + i]
      <3>a. cTail + count =< head /\ Len(records) =< count
        <4>1. \/ cTail = tail /\ count =< head - tail
              \/ cTail + count = tail /\ tail =< head
          BY <2>3 DEF CopyInv
        <4>2. Len(records) =< count  BY <2>3 DEF CopyInv
        <4>3. cTail \in Nat /\ count \in Nat /\ head \in Nat /\ tail \in Nat
          BY <1>0 DEF TypeInv
        <4> QED  BY <4>1, <4>2, <4>3
      <3>1. cTail + i \in 1..head  BY <1>0, <2>3, <3>a DEF TypeInv
      <3> QED  BY <2>2, <2>3, <3>1 DEF CopyInv
    <2>4. tail' =< head' /\ (cpc = "copy" => count =< head' - tail')
      BY <1>0, <2>1 DEF TypeInv, CopyInv
    <2> QED  BY <2>1, <2>3, <2>4 DEF CopyInv
  <1>5. CASE \E n \in Batches : CheckEmpty(n)
    <2> PICK n \in Batches : CheckEmpty(n)  BY <1>5
    <2>1. /\ cTail' = tail /\ count' = Batch(n) /\ records' = <<>> /\ cpc' = "copy"
          /\ cpc = "idle" /\ head - tail > 0 /\ UNCHANGED <<cap, head, tail, cCap>>
      BY DEF CheckEmpty, file
    <2>2. count' =< head - tail /\ count' \in Nat /\ head - tail =< cap
      BY <1>0, <2>1, RingAssumption DEF Batch, TypeInv, ProducerInv
    <2>3. Len(records') = 0  BY <2>1
    <2>4. cCap' = cap' /\ tail' =< head' /\ count' =< cap'
      BY <1>0, <2>1, <2>2 DEF CopyInv, TypeInv
    <2> QED  BY <2>1, <2>2, <2>3, <2>4 DEF CopyInv
  <1>6. CASE CopyRecord
    <2> DEFINE k == Len(records)  e == published[tail + k + 1]
    <2>1. /\ cpc = "copy" /\ k < count
          /\ UNCHANGED <<cap, head, tail, cpc, cCap, cTail, count, published>>
      BY <1>6 DEF CopyRecord, file, history
    <2>2. records \in Seq(Slots) /\ e \in Slots /\ records' = Append(records, e)
      BY <1>0, <1>6, CopyRight DEF UnreadInv, TypeInv
    <2>3. k \in Nat /\ tail \in Nat /\ count \in Nat /\ cTail = tail
          /\ cTail + (k + 1) = tail + k + 1
      BY <1>0, <2>1 DEF TypeInv, CopyInv
    <2>4. e = published[cTail + (k + 1)]  BY <2>3
    <2> HIDE DEF e
    <2>5. /\ Len(records') = k + 1 /\ records'[k + 1] = e
          /\ \A i \in 1..k : records'[i] = records[i]
      BY <2>2, AppendItems
    <2>6. ASSUME NEW i \in 1..Len(records')  PROVE records'[i] = published[cTail + i]
      <3>1. CASE i = k + 1  BY <2>4, <2>5, <3>1
      <3>2. CASE i # k + 1
        <4>1. i \in 1..k  BY <2>3, <2>5, <3>2
        <4> QED  BY <2>1, <2>5, <4>1 DEF CopyInv
      <3> QED  BY <3>1, <3>2
    <2>7. Len(records') =< count  BY <2>1, <2>3, <2>5
    <2> QED  BY <2>1, <2>6, <2>7 DEF CopyInv
  <1>7. CASE SetTail
    <2>1. /\ cpc = "copy" /\ Len(records) = count /\ cpc' = "return"
          /\ tail' = cTail + count
          /\ UNCHANGED <<cap, head, cCap, cTail, count, records, published>>
      BY <1>7 DEF SetTail, locals, history
    <2>2. tail' =< head' /\ count' =< cap'  BY <1>0, <2>1 DEF TypeInv, CopyInv
    <2> QED  BY <2>1, <2>2 DEF CopyInv
  <1>8. CASE ReturnBatch
    BY <1>2, <1>8 DEF ReturnBatch, Forgotten, CopyInv, file
  <1>9. CASE CrashProducer \/ AttachProducer \/ CloseProducer
    BY <1>1, <1>9 DEF CrashProducer, AttachProducer, CloseProducer, file, consumer,
       locals, history
  <1>10. CASE CrashConsumer  BY <1>2, <1>10 DEF CrashConsumer, Forgotten, file
  <1>11. CASE AttachConsumer \/ CloseConsumer
    <2>1. count = 0  BY <1>11 DEF AttachConsumer, CloseConsumer, CopyInv
    <2> QED
      BY <1>2, <1>11, <2>1 DEF AttachConsumer, CloseConsumer, file, locals
  <1>12. CASE (\E c \in Capacities : Create(c)) \/ InitHeader
    <2>1. cpc = "off" /\ head' = 0 /\ tail' = 0 /\ UNCHANGED <<cpc, count>>
      BY <1>12 DEF Create, InitHeader, CreateInv, consumer, locals
    <2> QED  BY <1>0, <2>1 DEF CopyInv, TypeInv
  <1>13. CASE UNCHANGED vars
    BY <1>1, <1>13 DEF vars, file, producer, consumer, locals, history
  <1> QED
    BY <1>3, <1>4, <1>5, <1>6, <1>7, <1>8, <1>9, <1>10, <1>11, <1>12, <1>13
    DEF Next

LEMMA NumberStep ==
    ASSUME WhileAttached = FALSE, UnreadInv, UnreadInv', CreateInv, NumberInv, AcceptedInv,
           [Next]_vars
    PROVE  NumberInv' /\ AcceptedInv'
  <1>0. TypeInv /\ ProducerInv /\ Unread  BY DEF UnreadInv
  <1>1. ASSUME UNCHANGED <<head, published, accepted>>
        PROVE  NumberInv' /\ AcceptedInv'
    BY <1>1 DEF NumberInv, AcceptedInv
  <1>2. CASE SetHead
    <2>1. /\ head' = head + 1 /\ head \in Nat /\ published'[head + 1] = Record(head, made)
          /\ \A i \in 1..head : published'[i] = published[i]
      BY <1>0, <1>2, Published
    <2>2. ASSUME NEW n \in 1..head'  PROVE published'[n].seq = n - 1
      <3>1. CASE n = head + 1  BY <2>1, <3>1 DEF Record
      <3>2. CASE n # head + 1
        <4>1. n \in 1..head  BY <2>1, <3>2
        <4> QED  BY <2>1, <4>1 DEF NumberInv
      <3> QED  BY <3>1, <3>2
    <2>3. accepted' = accepted  BY <1>2 DEF SetHead
    <2>4. \A i \in 1..head : i \in 1..head'  BY <2>1
    <2> QED  BY <2>1, <2>2, <2>3, <2>4 DEF NumberInv, AcceptedInv
  <1>3. CASE ReturnPush
    <2>1. /\ accepted' = accepted \cup {published[head]}
          /\ UNCHANGED <<head, published>>
      BY <1>3 DEF ReturnPush, Reporting, file
    <2>2. head \in 1..head  BY <1>0, <1>3 DEF ReturnPush, ProducerInv, TypeInv
    <2> QED  BY <2>1, <2>2 DEF NumberInv, AcceptedInv
  <1>4. CASE \E c \in Capacities : Create(c)
    BY <1>4 DEF Create, NumberInv, AcceptedInv
  <1>5. CASE InitHeader
    BY <1>0, <1>1, <1>5 DEF InitHeader, ProducerInv, history
  <1>6. CASE \/ CheckFull \/ WriteRecord \/ (\E n \in Batches : CheckEmpty(n))
             \/ CopyRecord \/ SetTail \/ ReturnBatch
    BY <1>1, <1>6 DEF CheckFull, WriteRecord, CheckEmpty, CopyRecord, SetTail,
       ReturnBatch, file, history
  <1>7. CASE \/ CrashProducer \/ CrashConsumer \/ AttachProducer \/ AttachConsumer
             \/ CloseProducer \/ CloseConsumer \/ UNCHANGED vars
    BY <1>1, <1>7 DEF CrashProducer, CrashConsumer, AttachProducer, AttachConsumer,
       CloseProducer, CloseConsumer, vars, file, history
  <1> QED  BY <1>2, <1>3, <1>4, <1>5, <1>6, <1>7 DEF Next

LEMMA NumbersBehind ==
    ASSUME TypeInv, CopyInv, ReceivedInv
    PROVE  /\ Returned \in Nat /\ Returned =< head
           /\ \A i \in 1..Len(received) : received[i].seq \in 0..(Returned - 1)
           /\ lost \subseteq 0..(Returned - 1)
  <1>1. Returned \in Nat /\ Returned =< tail /\ tail =< head
    BY DEF Returned, TypeInv, CopyInv
  <1>2. \A i \in 1..Len(received) : i \in DOMAIN received  BY DEF TypeInv
  <1>3. \A i \in 1..Len(received) : received[i].seq \in Numbers
    BY <1>2 DEF Numbers
  <1>4. Numbers \subseteq 0..(Returned - 1) /\ lost \subseteq 0..(Returned - 1)
    BY DEF ReceivedInv
  <1>5. head \in Nat /\ tail \in Nat  BY DEF TypeInv
  <1>6. \A i \in 1..Len(received) : received[i].seq \in 0..(Returned - 1)
    BY <1>3, <1>4
  <1>7. Returned =< head  BY <1>1, <1>5
  <1> QED  BY <1>1, <1>4, <1>6, <1>7

(* A batch about to be returned holds the records from Returned to the      *)
(* tail, and only those.                                                    *)
LEMMA BatchNumbers ==
    ASSUME TypeInv, Unread, CopyInv, NumberInv, cpc = "return"
    PROVE  /\ Returned = cTail /\ tail = cTail + count /\ Len(records) = count
           /\ \A i \in 1..count : /\ records[i].seq = cTail + i - 1
                                  /\ records[i] = published[cTail + i]
  <1>1. Returned = cTail /\ cTail + count = tail /\ Len(records) = count /\ tail =< head
    BY DEF Returned, CopyInv
  <1>2. \A i \in 1..count : records[i] = published[cTail + i]  BY <1>1 DEF CopyInv
  <1>3. cTail \in Nat /\ count \in Nat /\ head \in Nat  BY DEF TypeInv
  <1>4. ASSUME NEW i \in 1..count  PROVE records[i].seq = cTail + i - 1
    <2>1. cTail + i \in 1..head  BY <1>1, <1>3
    <2>2. published[cTail + i].seq = (cTail + i) - 1  BY <2>1 DEF NumberInv
    <2>3. records[i] = published[cTail + i]  BY <1>2
    <2> QED  BY <1>3, <2>2, <2>3
  <1> QED  BY <1>1, <1>2, <1>4

LEMMA ReturnStep ==
    ASSUME TypeInv, Unread, CopyInv, NumberInv, ReceivedInv, ReturnBatch
    PROVE  ReceivedInv'
  <1> DEFINE L == Len(received)
  <1>1. /\ cpc = "return" /\ cpc' = "idle" /\ received' = received \o records
        /\ UNCHANGED <<tail, published, lost>>
    BY DEF ReturnBatch, file
  <1>2. /\ Returned = cTail /\ tail = cTail + count /\ Len(records) = count
        /\ \A i \in 1..count : /\ records[i].seq = cTail + i - 1
                               /\ records[i] = published[cTail + i]
    BY <1>1, BatchNumbers
  <1>3. Returned' = cTail + count  BY <1>1, <1>2 DEF Returned
  <1>4. L \in Nat /\ cTail \in Nat /\ count \in Nat  BY DEF TypeInv
  <1>5. /\ received' \in Seq(Slots) /\ Len(received') = L + count
        /\ \A i \in 1..L : received'[i] = received[i]
        /\ \A i \in 1..count : received'[L + i] = records[i]
    <2>1. received \in Seq(Slots) /\ records \in Seq(Slots)  BY DEF TypeInv
    <2> DEFINE s == received \o records
    <2>2. /\ s \in Seq(Slots) /\ Len(s) = L + Len(records)
          /\ \A i \in 1..L : s[i] = received[i]
          /\ \A i \in 1..Len(records) : s[L + i] = records[i]
      BY <2>1, ConcatItems
    <2>3. s = received'  BY <1>1
    <2> HIDE DEF s
    <2> QED  BY <1>2, <2>2, <2>3
  <1>6. /\ \A i \in 1..L : received[i].seq \in 0..(cTail - 1)
        /\ lost \subseteq 0..(cTail - 1)
    BY <1>2, NumbersBehind
  <1> HIDE DEF L
  <1>7. ASSUME NEW i \in 1..Len(received'), i \notin 1..L
        PROVE  \E k \in 1..count : i = L + k /\ received'[i] = records[k]
    <2>1. i - L \in 1..count /\ i = L + (i - L)  BY <1>4, <1>5, <1>7
    <2> QED  BY <1>5, <2>1
  <1>8. Numbers' = Numbers \cup cTail..(cTail + count - 1)
    <2>1. DOMAIN received' = 1..Len(received') /\ DOMAIN received = 1..L
      BY <1>5 DEF TypeInv, L
    <2>2. ASSUME NEW x \in Numbers'  PROVE x \in Numbers \cup cTail..(cTail + count - 1)
      <3>1. PICK i \in 1..Len(received') : x = received'[i].seq  BY <2>1 DEF Numbers
      <3>2. CASE i \in 1..L  BY <1>5, <2>1, <3>1, <3>2 DEF Numbers
      <3>3. CASE i \notin 1..L
        <4>1. PICK k \in 1..count : received'[i] = records[k]  BY <1>7, <3>3
        <4> QED  BY <1>2, <1>4, <3>1, <4>1
      <3> QED  BY <3>2, <3>3
    <2>3. ASSUME NEW x \in Numbers  PROVE x \in Numbers'
      <3>1. PICK i \in 1..L : x = received[i].seq  BY <2>1 DEF Numbers
      <3>2. i \in 1..Len(received') /\ received'[i].seq = x  BY <1>4, <1>5, <3>1
      <3> QED  BY <2>1, <3>2 DEF Numbers
    <2>4. ASSUME NEW x \in cTail..(cTail + count - 1)  PROVE x \in Numbers'
      <3> DEFINE k == x - cTail + 1
      <3>1. k \in 1..count /\ cTail + k - 1 = x  BY <1>4
      <3> HIDE DEF k
      <3>2. L + k \in 1..Len(received') /\ received'[L + k].seq = x
        <4>1. L + k \in 1..Len(received')  BY <1>4, <1>5, <3>1
        <4>2. received'[L + k] = records[k] /\ records[k].seq = cTail + k - 1
          BY <1>2, <1>5, <3>1
        <4> QED  BY <3>1, <4>1, <4>2
      <3> QED  BY <2>1, <3>2 DEF Numbers
    <2> QED  BY <2>2, <2>3, <2>4
  <1>9. Numbers \cup lost = 0..(cTail - 1) /\ Numbers \cap lost = {}
    BY <1>2 DEF ReceivedInv
  <1>10. Numbers' \cup lost' = 0..(Returned' - 1)
    BY <1>1, <1>3, <1>4, <1>8, <1>9
  <1>11. Numbers' \cap lost' = {}  BY <1>1, <1>4, <1>6, <1>8, <1>9
  <1>12. ASSUME NEW i \in 1..Len(received')
         PROVE  received'[i] = published'[received'[i].seq + 1]
    <2>1. CASE i \in 1..L  BY <1>1, <1>5, <2>1 DEF ReceivedInv, L
    <2>2. CASE i \notin 1..L
      <3>1. PICK k \in 1..count : received'[i] = records[k]  BY <1>7, <2>2
      <3>2. records[k].seq + 1 = cTail + k  BY <1>2, <1>4
      <3> QED  BY <1>1, <1>2, <3>1, <3>2
    <2> QED  BY <2>1, <2>2
  <1>13. ASSUME NEW i \in 1..Len(received'), NEW j \in 1..Len(received'), i < j
         PROVE  received'[i].seq < received'[j].seq
    <2>1. CASE j \in 1..L
      <3>1. i \in 1..L  BY <1>4, <1>5, <1>13, <2>1
      <3> QED  BY <1>5, <1>13, <2>1, <3>1 DEF ReceivedInv, L
    <2>2. CASE j \notin 1..L
      <3>1. PICK k \in 1..count : j = L + k /\ received'[j] = records[k]  BY <1>7, <2>2
      <3>2. received'[j].seq = cTail + k - 1  BY <1>2, <3>1
      <3>3. CASE i \in 1..L
        <4>1. received'[i].seq \in 0..(cTail - 1)  BY <1>5, <1>6, <3>3
        <4> QED  BY <1>4, <3>2, <4>1
      <3>4. CASE i \notin 1..L
        <4>1. PICK m \in 1..count : i = L + m /\ received'[i] = records[m]
          BY <1>7, <3>4
        <4>2. received'[i].seq = cTail + m - 1 /\ m < k
          BY <1>2, <1>4, <1>13, <3>1, <4>1
        <4> QED  BY <1>4, <3>2, <4>2
      <3> QED  BY <3>3, <3>4
    <2> QED  BY <2>1, <2>2
  <1> QED  BY <1>10, <1>11, <1>12, <1>13 DEF ReceivedInv

LEMMA ReceivedStep ==
    ASSUME WhileAttached = FALSE, UnreadInv, CreateInv, CopyInv, NumberInv, ReceivedInv,
           [Next]_vars
    PROVE  ReceivedInv'
  <1>0. TypeInv /\ ProducerInv /\ Unread  BY DEF UnreadInv
  <1>1. ASSUME UNCHANGED <<received, lost, published>>, Returned' = Returned
        PROVE  ReceivedInv'
    BY <1>1 DEF ReceivedInv, Numbers
  <1>2. ASSUME UNCHANGED <<received, lost, published, tail, cpc, cTail>>
        PROVE  ReceivedInv'
    BY <1>1, <1>2 DEF Returned
  <1>3. ASSUME UNCHANGED <<received, lost, published, tail>>, cpc # "return",
               cpc' # "return"
        PROVE  ReceivedInv'
    BY <1>1, <1>3 DEF Returned
  <1>4. CASE CheckFull \/ WriteRecord \/ ReturnPush
    BY <1>2, <1>4 DEF CheckFull, WriteRecord, ReturnPush, file, consumer, locals, history
  <1>5. CASE SetHead
    <2>1. UNCHANGED <<received, lost, tail, cpc, cTail>>
      BY <1>5 DEF SetHead, consumer, locals
    <2>2. Returned' = Returned /\ Numbers' = Numbers  BY <2>1 DEF Returned, Numbers
    <2>3. \A i \in 1..head : published'[i] = published[i]
      BY <1>0, <1>5, Published
    <2>4. \A i \in 1..Len(received) : received[i].seq + 1 \in 1..head
      BY <1>0, NumbersBehind DEF TypeInv
    <2> QED  BY <2>1, <2>2, <2>3, <2>4 DEF ReceivedInv
  <1>6. CASE \E n \in Batches : CheckEmpty(n)
    BY <1>3, <1>6 DEF CheckEmpty, file, history
  <1>7. CASE CopyRecord
    BY <1>3, <1>7 DEF CopyRecord, file, history
  <1>8. CASE SetTail
    <2>1. Returned' = Returned
      BY <1>8 DEF SetTail, Returned, CopyInv, locals
    <2> QED  BY <1>1, <1>8, <2>1 DEF SetTail, history
  <1>9. CASE ReturnBatch  BY <1>0, <1>9, ReturnStep
  <1>10. CASE CrashConsumer
    <2>1. /\ cpc' = "off" /\ lost' = lost \cup InHand
          /\ UNCHANGED <<received, published, tail>>
      BY <1>10 DEF CrashConsumer, file
    <2>2. CASE cpc # "return"
      BY <1>3, <2>1, <2>2 DEF InHand
    <2>3. CASE cpc = "return"
      <3>1. Returned = cTail /\ tail = cTail + count  BY <1>0, <2>3, BatchNumbers
      <3>2. Returned' = cTail + count /\ InHand = cTail..(cTail + count - 1)
        BY <2>1, <2>3, <3>1 DEF Returned, InHand
      <3>3. Numbers' = Numbers  BY <2>1 DEF Numbers
      <3>4. Numbers \cup lost = 0..(cTail - 1) /\ Numbers \cap lost = {}
        BY <3>1 DEF ReceivedInv
      <3>5. cTail \in Nat /\ count \in Nat  BY <1>0 DEF TypeInv
      <3>6. Numbers' \cup lost' = 0..(Returned' - 1)
        BY <2>1, <3>2, <3>3, <3>4, <3>5
      <3>7. Numbers' \cap lost' = {}  BY <2>1, <3>2, <3>3, <3>4, <3>5
      <3> QED  BY <2>1, <3>6, <3>7 DEF ReceivedInv
    <2> QED  BY <2>2, <2>3
  <1>11. CASE CrashProducer \/ AttachProducer \/ CloseProducer \/ UNCHANGED vars
    BY <1>2, <1>11 DEF CrashProducer, AttachProducer, CloseProducer, vars, file,
       consumer, locals, history
  <1>12. CASE AttachConsumer \/ CloseConsumer
    BY <1>3, <1>12 DEF AttachConsumer, CloseConsumer, file, history
  <1>13. CASE \E c \in Capacities : Create(c)
    <2>1. /\ cpc' = "off" /\ tail' = 0 /\ lost' = {} /\ received' = <<>>
      BY <1>13 DEF Create, consumer
    <2>2. Numbers' = {} /\ Returned' = 0 /\ Len(received') = 0
      BY <2>1 DEF Numbers, Returned
    <2> QED  BY <2>1, <2>2 DEF ReceivedInv
  <1>14. CASE InitHeader
    <2>1. /\ cpc = "off" /\ tail = 0 /\ tail' = 0 /\ cpc' = cpc
          /\ UNCHANGED <<received, lost, published>>
      BY <1>14 DEF InitHeader, CreateInv, consumer, history
    <2> QED  BY <1>3, <2>1
  <1> QED
    BY <1>4, <1>5, <1>6, <1>7, <1>8, <1>9, <1>10, <1>11, <1>12, <1>13, <1>14
    DEF Next

LEMMA OrderStep ==
    ASSUME WhileAttached = FALSE, OrderInv, [Next]_vars
    PROVE  OrderInv'
  <1>1. /\ UnreadInv /\ UnreadInv' /\ TypeInv
        /\ CreateInv /\ CopyInv /\ NumberInv /\ AcceptedInv /\ ReceivedInv
    BY UnreadStep DEF OrderInv, UnreadInv
  <1>2. CreateInv' /\ CopyInv'  BY <1>1, CreateStep, CopyStep
  <1>3. NumberInv' /\ AcceptedInv'  BY <1>1, NumberStep
  <1>4. ReceivedInv'  BY <1>1, ReceivedStep
  <1> QED  BY <1>1, <1>2, <1>3, <1>4 DEF OrderInv

LEMMA InOrderHolds == OrderInv => InOrder
  <1> SUFFICES ASSUME OrderInv PROVE InOrder  OBVIOUS
  <1>1. /\ TypeInv /\ Unread /\ CopyInv /\ NumberInv /\ AcceptedInv /\ ReceivedInv
    BY DEF OrderInv, UnreadInv
  <1>2. DOMAIN received = 1..Len(received)  BY <1>1 DEF TypeInv
  <1>3. Numbers \cup lost \cup InHand = 0..(tail - 1)
    <2>1. Numbers \cup lost = 0..(Returned - 1)  BY <1>1 DEF ReceivedInv
    <2>2. CASE cpc = "return"
      <3>1. Returned = cTail /\ tail = cTail + count  BY <1>1, <2>2, BatchNumbers
      <3>2. cTail \in Nat /\ count \in Nat  BY <1>1 DEF TypeInv
      <3>3. InHand = cTail..(cTail + count - 1)  BY <2>2 DEF InHand
      <3> QED  BY <2>1, <3>1, <3>2, <3>3
    <2>3. CASE cpc # "return"  BY <2>1, <2>3 DEF Returned, InHand
    <2> QED  BY <2>2, <2>3
  <1> QED  BY <1>1, <1>2, <1>3 DEF InOrder, ReceivedInv, AcceptedInv

LEMMA TypeHolds == OrderInv => TypeOK
  <1> SUFFICES ASSUME OrderInv PROVE TypeOK  OBVIOUS
  <1>0. TypeInv /\ Unread /\ CopyInv /\ AcceptedInv  BY DEF OrderInv, UnreadInv
  <1>1. count \in 0..cCap
    <2>1. count \in Nat /\ cap \in Nat /\ cCap \in Nat  BY <1>0 DEF TypeInv
    <2>2. CASE cpc \in {"copy", "return"}
      <3>1. cCap = cap /\ count =< cap  BY <1>0, <2>2 DEF CopyInv
      <3> QED  BY <2>1, <3>1
    <2>3. CASE cpc \notin {"copy", "return"}
      <3>1. count = 0  BY <1>0, <2>3 DEF CopyInv
      <3> QED  BY <2>1, <3>1
    <2> QED  BY <2>2, <2>3
  <1>2. accepted \subseteq Slots
    <2>1. \A n \in 1..head : published[n] \in Slots  BY <1>0 DEF TypeInv, Unread
    <2> QED  BY <1>0, <2>1 DEF AcceptedInv
  <1>3. made \in Nat  BY <1>0, RingAssumption DEF TypeInv
  <1> QED  BY <1>0, <1>1, <1>2, <1>3 DEF TypeInv, TypeOK, Slots, Writing

(* If no ring is created under a consumer, every variable stays in its      *)
(* domain and a batch fits in the ring.                                     *)
THEOREM RingTypeCorrect ==
    ASSUME WhileAttached = FALSE PROVE Spec => []TypeOK
  <1> USE TypeHolds
  <1>1. OrderInv /\ [Next]_vars => OrderInv'  BY OrderStep
  <1> QED  BY OrderInit, <1>1, PTL DEF Spec

(* If no ring is created under a consumer, pop_batch returns what has been  *)
(* published, each record once and in order, for every capacity and batch   *)
(* size and however many processes die; the only records missing are those  *)
(* of a consumer that dies after it has moved the tail and before it has    *)
(* returned them.                                                           *)
THEOREM InOrderCorrect ==
    ASSUME WhileAttached = FALSE PROVE Spec => []InOrder
  <1> USE InOrderHolds
  <1>1. OrderInv /\ [Next]_vars => OrderInv'  BY OrderStep
  <1> QED  BY OrderInit, <1>1, PTL DEF Spec
-----------------------------------------------------------------------------
(* A step of the ring is a step of the queue or none.                       *)

LEMMA SameItems ==
    ASSUME NEW S, NEW s \in Seq(S), NEW t \in Seq(S), Len(s) = Len(t),
           \A i \in 1..Len(s) : s[i] = t[i]
    PROVE  s = t
  OBVIOUS

(* A record put in at the back, and a batch taken from the front.           *)
LEMMA WaitingGrows ==
    ASSUME NEW S, NEW s \in Seq(S), NEW e \in S, NEW m \in Nat, m =< Len(s)
    PROVE  /\ SubSeq(Append(s, e), m + 1, Len(s) + 1) = Append(SubSeq(s, m + 1, Len(s)), e)
           /\ Len(SubSeq(s, m + 1, Len(s))) = Len(s) - m
  <1> DEFINE w == SubSeq(s, m + 1, Len(s))  t == Append(s, e)
             v == SubSeq(t, m + 1, Len(s) + 1)
  <1>1. /\ w \in Seq(S) /\ Len(w) = Len(s) - m
        /\ \A i \in 1..Len(w) : w[i] = s[m + i]
    OBVIOUS
  <1>2. /\ t \in Seq(S) /\ Len(t) = Len(s) + 1 /\ t[Len(s) + 1] = e
        /\ \A i \in 1..Len(s) : t[i] = s[i]
    BY AppendItems
  <1> HIDE DEF t
  <1>3. /\ v \in Seq(S) /\ Len(v) = Len(s) - m + 1
        /\ \A i \in 1..Len(v) : v[i] = t[m + i]
    BY <1>2
  <1> HIDE DEF w, v
  <1>4. /\ Append(w, e) \in Seq(S) /\ Len(Append(w, e)) = Len(v)
        /\ Append(w, e)[Len(w) + 1] = e /\ \A i \in 1..Len(w) : Append(w, e)[i] = w[i]
    BY <1>1, <1>3, AppendItems
  <1>a. Len(s) \in Nat /\ Len(w) \in Nat /\ Len(v) = Len(w) + 1  BY <1>1, <1>3
  <1>5. ASSUME NEW i \in 1..Len(v)  PROVE v[i] = Append(w, e)[i]
    <2>1. CASE i = Len(w) + 1
      <3>1. m + i = Len(s) + 1  BY <1>1, <2>1
      <3> QED  BY <1>2, <1>3, <1>4, <2>1, <3>1
    <2>2. CASE i # Len(w) + 1
      <3>1. i \in 1..Len(w) /\ m + i \in 1..Len(s)
        <4>1. Len(w) = Len(s) - m  BY <1>1
        <4> QED  BY <1>a, <2>2, <4>1
      <3> QED  BY <1>1, <1>2, <1>3, <1>4, <3>1
    <2> QED  BY <2>1, <2>2
  <1>6. v = Append(w, e)  BY <1>3, <1>4, <1>5, SameItems
  <1> QED  BY <1>1, <1>6 DEF w, v, t

LEMMA WaitingShrinks ==
    ASSUME NEW S, NEW s \in Seq(S), NEW m \in Nat, NEW r \in Seq(S),
           m + Len(r) =< Len(s), \A i \in 1..Len(r) : r[i] = s[m + i],
           NEW w, w = SubSeq(s, m + 1, Len(s))
    PROVE  /\ w \in Seq(S) /\ Len(w) = Len(s) - m
           /\ SubSeq(w, 1, Len(r)) = r
           /\ SubSeq(w, Len(r) + 1, Len(w)) = SubSeq(s, m + Len(r) + 1, Len(s))
  <1>1. w \in Seq(S) /\ Len(w) = Len(s) - m  OBVIOUS
  <1>2. \A i \in 1..Len(w) : w[i] = s[m + i]  OBVIOUS
  <1>3. SubSeq(w, 1, Len(r)) = r  BY <1>1, <1>2
  <1>4. SubSeq(w, Len(r) + 1, Len(w)) = SubSeq(s, m + Len(r) + 1, Len(s))
    BY <1>1, <1>2
  <1> QED  BY <1>1, <1>3, <1>4

LEMMA FifoStep ==
    ASSUME WhileAttached = FALSE, OrderInv, [Next]_vars
    PROVE  [Abstract!Next]_(Abstract!vars)
  <1>0. /\ TypeInv /\ ProducerInv /\ Unread /\ CreateInv /\ CopyInv
    BY DEF OrderInv, UnreadInv
  <1> DEFINE Queue == <<cap, Waiting, Reporting, accepted, Hand, received, crashes>>
  <1> SUFFICES \/ \E r \in [seq : 0..MaxPushes, item : 1..MaxPushes] : Abstract!Insert(r)
               \/ \E n \in 1..cap : Abstract!Take(n)
               \/ Abstract!Accept \/ Abstract!Return \/ Abstract!Die
               \/ \E c \in Capacities \cup {Capacity} : Abstract!Create(c)
               \/ UNCHANGED Queue
    BY DEF Abstract!Next, Abstract!vars
  <1>1. ASSUME UNCHANGED <<cap, head, tail, published, accepted, received, crashes>>,
               ppc' = ppc \/ (ppc # "return" /\ ppc' # "return"),
               UNCHANGED <<cpc, records>> \/ (cpc # "return" /\ cpc' # "return")
        PROVE  UNCHANGED Queue
    BY <1>1 DEF Waiting, Reporting, Hand
  <1>2. CASE CheckFull \/ WriteRecord
    BY <1>1, <1>2 DEF CheckFull, WriteRecord, file, consumer, locals, history
  <1>3. CASE SetHead
    <2> DEFINE r == Record(head, made)
    <2>1. /\ ppc = "publish" /\ ppc' = "return" /\ head' = head + 1
          /\ published' = Append(published, r)
          /\ UNCHANGED <<cap, tail, cpc, records, accepted, received, crashes>>
      BY <1>3 DEF SetHead, consumer, locals
    <2>2. /\ published \in Seq(Slots) /\ r \in Slots /\ head = Len(published)
          /\ published'[head + 1] = r
      BY <1>0, <1>3, Published
    <2>3. head \in 0..MaxPushes /\ made \in 1..MaxPushes
      BY <1>0, <2>1, RingAssumption DEF TypeInv, ProducerInv, Writing
    <2>4. r \in [seq : 0..MaxPushes, item : 1..MaxPushes]  BY <2>3 DEF Record
    <2> HIDE DEF r
    <2>5. tail \in Nat /\ tail =< Len(published) /\ head - tail < cap
      BY <1>0, <2>1, <2>2 DEF TypeInv, CopyInv, ProducerInv, Writing
    <2>6. Waiting' = Append(Waiting, r) /\ Len(Waiting) = head - tail
      BY <2>1, <2>2, <2>5, WaitingGrows DEF Waiting
    <2>7. Reporting = {} /\ Reporting' = {r} /\ Hand' = Hand
      BY <2>1, <2>2 DEF Reporting, Hand
    <2>8. Abstract!Insert(r)
      BY <2>1, <2>5, <2>6, <2>7 DEF Abstract!Insert
    <2> QED  BY <2>4, <2>8
  <1>4. CASE ReturnPush
    <2>1. /\ Waiting' = Waiting /\ Hand' = Hand /\ Reporting' = {}
          /\ accepted' = accepted \cup Reporting
          /\ UNCHANGED <<cap, received, crashes>>
      BY <1>4 DEF ReturnPush, Waiting, Hand, Reporting, file, consumer, locals
    <2>2. Abstract!Accept  BY <2>1 DEF Abstract!Accept
    <2> QED  BY <2>2
  <1>5. CASE \E n \in Batches : CheckEmpty(n)
    BY <1>1, <1>5 DEF CheckEmpty, file, producer, history
  <1>6. CASE CopyRecord
    BY <1>1, <1>6 DEF CopyRecord, file, producer, history
  <1>7. CASE SetTail
    <2>1. /\ cpc = "copy" /\ cpc' = "return" /\ Len(records) = count
          /\ tail' = cTail + count
          /\ UNCHANGED <<cap, head, ppc, published, records, accepted, received, crashes>>
      BY <1>7 DEF SetTail, producer, locals, history
    <2>2. /\ cTail = tail /\ count =< head - tail /\ count =< cap
          /\ \A i \in 1..count : records[i] = published[tail + i]
      BY <1>0, <2>1 DEF CopyInv
    <2>3. /\ published \in Seq(Slots) /\ records \in Seq(Slots) /\ tail \in Nat
          /\ head = Len(published) /\ head \in Nat /\ count \in Nat /\ cap \in Nat
      BY <1>0 DEF TypeInv, Unread
    <2>4. /\ Len(Waiting) = head - tail /\ SubSeq(Waiting, 1, count) = records
          /\ SubSeq(Waiting, count + 1, Len(Waiting)) = SubSeq(published, tail + count + 1, head)
      <3>1. /\ tail + Len(records) =< Len(published)
            /\ \A i \in 1..Len(records) : records[i] = published[tail + i]
            /\ Waiting = SubSeq(published, tail + 1, Len(published))
        BY <2>1, <2>2, <2>3 DEF Waiting
      <3>2. /\ Len(Waiting) = Len(published) - tail
            /\ SubSeq(Waiting, 1, Len(records)) = records
            /\ SubSeq(Waiting, Len(records) + 1, Len(Waiting))
                 = SubSeq(published, tail + Len(records) + 1, Len(published))
        BY <2>3, <3>1, WaitingShrinks
      <3> QED  BY <2>1, <2>3, <3>2
    <2>5. Waiting' = SubSeq(Waiting, count + 1, Len(Waiting))
      BY <2>1, <2>2, <2>4 DEF Waiting
    <2>6. Hand = <<>> /\ Hand' = SubSeq(Waiting, 1, count) /\ Reporting' = Reporting
      BY <2>1, <2>4 DEF Hand, Reporting
    <2>7. Abstract!Take(count)
      BY <2>1, <2>2, <2>4, <2>5, <2>6 DEF Abstract!Take
    <2>8. CASE count > 0
      <3>1. count \in 1..cap  BY <2>2, <2>3, <2>8
      <3> QED  BY <2>7, <3>1
    <2>9. CASE count = 0
      <3>1. records = <<>>  BY <2>1, <2>3, <2>9
      <3>2. tail' = tail  BY <2>1, <2>2, <2>3, <2>9
      <3>3. Hand' = Hand  BY <2>1, <2>6, <3>1 DEF Hand
      <3>4. Waiting' = Waiting  BY <2>1, <3>2 DEF Waiting
      <3> QED  BY <2>1, <2>6, <3>3, <3>4
    <2> QED  BY <2>3, <2>8, <2>9
  <1>8. CASE ReturnBatch
    <2>1. /\ Waiting' = Waiting /\ Reporting' = Reporting /\ Hand' = <<>>
          /\ received' = received \o Hand
          /\ UNCHANGED <<cap, accepted, crashes>>
      BY <1>8 DEF ReturnBatch, Waiting, Hand, Reporting, file, producer
    <2>2. Abstract!Return  BY <2>1 DEF Abstract!Return
    <2> QED  BY <2>2
  <1>9. CASE CrashProducer
    <2>1. /\ Waiting' = Waiting /\ Reporting' = {} /\ Hand' = Hand
          /\ crashes' = crashes + 1 /\ UNCHANGED <<cap, accepted, received>>
      BY <1>9 DEF CrashProducer, Waiting, Hand, Reporting, file, consumer, locals,
         history
    <2>2. Abstract!Die  BY <2>1 DEF Abstract!Die
    <2> QED  BY <2>2
  <1>10. CASE CrashConsumer
    <2>1. /\ Waiting' = Waiting /\ Reporting' = Reporting /\ Hand' = <<>>
          /\ crashes' = crashes + 1 /\ UNCHANGED <<cap, accepted, received>>
      BY <1>10 DEF CrashConsumer, Waiting, Hand, Reporting, file, producer
    <2>2. Abstract!Die  BY <2>1 DEF Abstract!Die
    <2> QED  BY <2>2
  <1>11. CASE AttachProducer \/ CloseProducer
    BY <1>1, <1>11 DEF AttachProducer, CloseProducer, file, consumer, locals, history
  <1>12. CASE AttachConsumer \/ CloseConsumer
    BY <1>1, <1>12 DEF AttachConsumer, CloseConsumer, file, producer, history
  <1>13. CASE \E c \in Capacities : Create(c)
    <2> PICK c \in Capacities : Create(c)  BY <1>13
    <2>1. /\ ppc = "off" /\ ppc' = "create" /\ cpc = "off" /\ cpc' = "off"
          /\ cap' = c /\ head' = 0 /\ tail' = 0 /\ published' = <<>>
          /\ accepted' = {} /\ received' = <<>> /\ crashes' = crashes
      BY DEF Create, consumer
    <2>2. Waiting' = <<>>  BY <2>1 DEF Waiting
    <2>3. Reporting = {} /\ Reporting' = {} /\ Hand = <<>> /\ Hand' = <<>>
      BY <2>1 DEF Reporting, Hand
    <2>4. Abstract!Create(c)  BY <2>1, <2>2, <2>3 DEF Abstract!Create
    <2> QED  BY <2>4
  <1>14. CASE InitHeader
    <2>1. head = 0 /\ tail = 0
      BY <1>0, <1>14 DEF InitHeader, ProducerInv, CreateInv
    <2> QED
      BY <1>1, <1>14, <2>1 DEF InitHeader, consumer, locals, history
  <1>15. CASE UNCHANGED vars
    BY <1>1, <1>15 DEF vars, file, producer, consumer, locals, history
  <1> QED
    BY <1>2, <1>3, <1>4, <1>5, <1>6, <1>7, <1>8, <1>9, <1>10, <1>11, <1>12,
       <1>13, <1>14, <1>15 DEF Next

(* The ring, with processes that die between any two of its steps, is a     *)
(* bounded queue that loses a batch only with the consumer that has taken   *)
(* it and not returned it.                                                  *)
THEOREM RingImplementsFifo ==
    ASSUME WhileAttached = FALSE PROVE Spec => ImplementsFifo
  <1>1. Init => Abstract!Init
    BY DEF Init, Abstract!Init, Waiting, Reporting, Hand
  <1>2. OrderInv /\ [Next]_vars => OrderInv'  BY OrderStep
  <1>3. OrderInv /\ [Next]_vars => [Abstract!Next]_(Abstract!vars)  BY FifoStep
  <1> QED
    BY OrderInit, <1>1, <1>2, <1>3, PTL DEF Spec, ImplementsFifo, Abstract!Spec
=============================================================================
