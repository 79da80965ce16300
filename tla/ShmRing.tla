------------------------------ MODULE ShmRing ------------------------------
(***************************************************************************)
(* python/mlx/quant/shm_ring.py: a ring of records in a file that two      *)
(* processes map, one that pushes and one that pops.  There is no lock; a  *)
(* step is one read or write of the mapping or the return of a call, and   *)
(* either process may die between two of its steps and be started again.   *)
(*                                                                         *)
(* Reading the header is one step: a process reads its own pointer, which  *)
(* nobody else moves, and the other's.  Writing a record is two, so that a *)
(* reader may find it half written; writes appear in program order.  A     *)
(* push that finds the ring full and a pop that finds it empty change      *)
(* nothing and are no step.                                                *)
(***************************************************************************)
EXTENDS Integers, Sequences

CONSTANTS Capacity,   \* of the ring as it is first created
          Capacities, \* of a ring created again over it
          Batches,    \* the values of max_records
          WhileAttached, \* may it be, while a consumer is attached?
          MaxPushes,  \* bound on the calls of push
          MaxCrashes  \* bound on the deaths of processes

ASSUME RingAssumption ==
    /\ Capacity \in Nat \ {0} /\ Capacities \subseteq Nat \ {0}
    /\ Batches \subseteq Nat /\ WhileAttached \in BOOLEAN
    /\ MaxPushes \in Nat /\ MaxCrashes \in Nat

VARIABLES
    (* the file *)
    linked,     \* does the path lead to it?
    valid,      \* does it have a header?
    cap, head, tail,
    slots,      \* the records, by slot number
    (* the producer *)
    ppc,        \* where it is in push, or "off"
    owner,      \* self.is_owner
    made,       \* how many records have been made; the number of the last
    (* the consumer *)
    cpc,        \* where it is in pop_batch, or "off"
    cCap,       \* self.capacity
    cTail, count, records, \* pop_batch's local variables
    (* the dead, and what has happened since the ring was created *)
    crashes,
    published,  \* the records that the head has passed, in order
    accepted,   \* those for which push has returned True
    received,   \* those that pop_batch has returned
    lost        \* the sequence numbers of those a consumer died with

file == <<linked, valid, cap, head, tail, slots>>
producer == <<ppc, owner, made>>
locals == <<cTail, count, records>>
consumer == <<cpc, cCap, locals>>
history == <<published, accepted, received, lost>>
vars == <<file, producer, consumer, crashes, history>>

Record(seq, item) == [seq |-> seq, item |-> item]
Zeros == Record(0, 0)
Blank(c) == [i \in 0..(c - 1) |-> Zeros]

Init ==
    /\ linked = TRUE /\ valid = TRUE /\ cap = Capacity /\ head = 0 /\ tail = 0
    /\ slots = Blank(Capacity)
    /\ ppc = "idle" /\ owner = TRUE /\ made = 0
    /\ cpc = "off" /\ cCap = Capacity /\ cTail = 0 /\ count = 0 /\ records = <<>>
    /\ crashes = 0
    /\ published = <<>> /\ accepted = {} /\ received = <<>> /\ lost = {}
-----------------------------------------------------------------------------
(* push *)

FullOneLate == head - tail > cap

Full == head - tail >= cap

CheckFull ==
    /\ ppc = "idle" /\ ~Full /\ made < MaxPushes
    /\ made' = made + 1 /\ ppc' = "write"
    /\ UNCHANGED <<file, owner, consumer, crashes, history>>

SlotSaturated(n) == IF n < cap THEN n ELSE cap - 1

Slot(n) == n % cap

(* The first half of the record is in the slot, then all of it.             *)
WriteRecord ==
    /\ \/ /\ ppc = "write" /\ ppc' = "fill"
          /\ slots' = [slots EXCEPT ![Slot(head)] = Record(head, 0)]
       \/ /\ ppc = "fill" /\ ppc' = "publish"
          /\ slots' = [slots EXCEPT ![Slot(head)] = Record(head, made)]
    /\ UNCHANGED <<linked, valid, cap, head, tail, owner, made, consumer, crashes,
                   history>>

SetHead ==
    /\ ppc = "publish" /\ ppc' = "return"
    /\ head' = head + 1 /\ published' = Append(published, Record(head, made))
    /\ UNCHANGED <<linked, valid, cap, tail, slots, owner, made, consumer, crashes,
                   accepted, received, lost>>

(* The record that the call in progress has published, if it has.           *)
Reporting == IF ppc = "return" THEN {published[head]} ELSE {}

ReturnPush ==
    /\ ppc = "return" /\ ppc' = "idle"
    /\ accepted' = accepted \cup Reporting
    /\ UNCHANGED <<file, owner, made, consumer, crashes, published, received, lost>>
-----------------------------------------------------------------------------
(* pop_batch *)

Batch(n) == IF head - tail < n THEN head - tail ELSE n

CheckEmpty(n) ==
    /\ cpc = "idle" /\ head - tail > 0
    /\ cTail' = tail /\ count' = Batch(n) /\ records' = <<>>
    /\ cpc' = "copy"
    /\ UNCHANGED <<file, producer, cCap, crashes, history>>

(* A slot past the end of a file that has become smaller reads as zeros, as *)
(* long as it is in the file's last page.                                   *)
CopyRecord ==
    /\ cpc = "copy" /\ Len(records) < count
    /\ LET slot == (cTail + Len(records)) % cCap
       IN  records' = Append(records, IF slot < cap THEN slots[slot] ELSE Zeros)
    /\ UNCHANGED <<file, producer, cpc, cCap, cTail, count, crashes, history>>

SetTail ==
    /\ cpc = "copy" /\ Len(records) = count
    /\ tail' = cTail + count /\ cpc' = "return"
    /\ UNCHANGED <<linked, valid, cap, head, slots, producer, cCap, locals, crashes,
                   history>>

Forgotten == cTail' = 0 /\ count' = 0 /\ records' = <<>>

ReturnBatch ==
    /\ cpc = "return" /\ cpc' = "idle" /\ Forgotten
    /\ received' = received \o records
    /\ UNCHANGED <<file, producer, cCap, crashes, published, accepted, lost>>
-----------------------------------------------------------------------------
(* Processes come and go *)

(* The numbers of the records that are only in the consumer's memory.       *)
InHand == IF cpc = "return" THEN cTail..(cTail + count - 1) ELSE {}

CrashProducer ==
    /\ ppc # "off" /\ crashes < MaxCrashes
    /\ crashes' = crashes + 1 /\ ppc' = "off"
    /\ UNCHANGED <<file, owner, made, consumer, history>>

CrashConsumer ==
    /\ cpc # "off" /\ crashes < MaxCrashes
    /\ crashes' = crashes + 1 /\ cpc' = "off" /\ Forgotten
    /\ lost' = lost \cup InHand
    /\ UNCHANGED <<file, producer, cCap, published, accepted, received>>

(* SharedMemoryRingBuffer(path) takes the capacity from the header.         *)
AttachProducer ==
    /\ ppc = "off" /\ linked /\ valid
    /\ ppc' = "idle" /\ owner' = FALSE
    /\ UNCHANGED <<file, made, consumer, crashes, history>>

AttachConsumer ==
    /\ cpc = "off" /\ linked /\ valid
    /\ cpc' = "idle" /\ cCap' = cap
    /\ UNCHANGED <<file, producer, locals, crashes, history>>

(* close: by the process that has created the ring it removes the file,     *)
(* which a consumer that has mapped it keeps.                               *)
CloseProducer ==
    /\ ppc = "idle" /\ ppc' = "off"
    /\ linked' = (linked /\ ~owner)
    /\ UNCHANGED <<valid, cap, head, tail, slots, owner, made, consumer, crashes,
                   history>>

CloseConsumer ==
    /\ cpc = "idle" /\ cpc' = "off"
    /\ UNCHANGED <<file, producer, cCap, locals, crashes, history>>

(* SharedMemoryRingBuffer(path, c, create=True): the file, if there is one, *)
(* is emptied and given its new size, its old mappings with it; then the    *)
(* header follows.  A new file beside one that a consumer still has mapped  *)
(* is another ring.                                                         *)
Create(c) ==
    /\ ppc = "off" /\ (cpc = "off" \/ (WhileAttached /\ linked))
    /\ ppc' = "create" /\ owner' = TRUE /\ linked' = TRUE /\ valid' = FALSE
    /\ cap' = c /\ head' = 0 /\ tail' = 0 /\ slots' = Blank(c)
    /\ published' = <<>> /\ accepted' = {} /\ received' = <<>> /\ lost' = {}
    /\ UNCHANGED <<made, consumer, crashes>>

InitHeader ==
    /\ ppc = "create" /\ ppc' = "idle"
    /\ valid' = TRUE /\ head' = 0 /\ tail' = 0
    /\ UNCHANGED <<linked, cap, slots, owner, made, consumer, crashes, history>>

Next ==
    \/ CheckFull \/ WriteRecord \/ SetHead \/ ReturnPush
    \/ (\E n \in Batches : CheckEmpty(n)) \/ CopyRecord \/ SetTail \/ ReturnBatch
    \/ CrashProducer \/ CrashConsumer
    \/ AttachProducer \/ AttachConsumer \/ CloseProducer \/ CloseConsumer
    \/ (\E c \in Capacities : Create(c)) \/ InitHeader

Spec == Init /\ [][Next]_vars
-----------------------------------------------------------------------------
(* Properties *)

(* Every variable stays in its domain; a batch is no longer than the ring.  *)
TypeOK ==
    /\ linked \in BOOLEAN /\ valid \in BOOLEAN
    /\ cap \in Nat \ {0} /\ head \in Nat /\ tail \in Nat
    /\ slots \in [0..(cap - 1) -> [seq : Nat, item : Nat]]
    /\ ppc \in {"off", "create", "idle", "write", "fill", "publish", "return"}
    /\ owner \in BOOLEAN /\ made \in Nat
    /\ cpc \in {"off", "idle", "copy", "return"} /\ cCap \in Nat \ {0}
    /\ cTail \in Nat /\ count \in 0..cCap /\ records \in Seq([seq : Nat, item : Nat])
    /\ crashes \in Nat
    /\ published \in Seq([seq : Nat, item : Nat])
    /\ accepted \subseteq [seq : Nat, item : Nat]
    /\ received \in Seq([seq : Nat, item : Nat]) /\ lost \subseteq Nat

Numbers == {received[i].seq : i \in DOMAIN received}

(* The records behind the tail have been returned by pop_batch, each once,  *)
(* whole and in order, or a consumer has died between moving the tail and   *)
(* returning them (shm_ring.py:205 and 206), or one is about to return      *)
(* them.  No other death, of either process, loses or repeats any, and what *)
(* push has accepted is among the records that are or were in the ring.     *)
InOrder ==
    /\ Numbers \cup lost \cup InHand = 0..(tail - 1)
    /\ Numbers \cap lost = {}
    /\ \A i \in DOMAIN received : received[i] = published[received[i].seq + 1]
    /\ \A i, j \in DOMAIN received : i < j => received[i].seq < received[j].seq
    /\ accepted \subseteq {published[n] : n \in 1..head}

(* A published record stays in its slot until the tail has passed it: push  *)
(* neither overwrites it nor leaves it half written.                        *)
Unread ==
    /\ head = Len(published)
    /\ \A n \in tail..(head - 1) : slots[n % cap] = published[n + 1]

(* "A producer may advance its pointers, but cannot resize an attached      *)
(* ring" (_verify_header).                                                  *)
AttachedGeometry == cpc # "off" => cCap = cap

(* What the queue holds, and what a consumer has taken and not returned.    *)
Waiting == SubSeq(published, tail + 1, head)
Hand == IF cpc = "return" THEN records ELSE <<>>

(* Head, tail and slots, with a process dying at any moment, implement      *)
(* BoundedFifo, as long as no ring is created over an attached one: only    *)
(* what is in the hand of a process that dies is lost.                      *)
Abstract == INSTANCE BoundedFifo WITH
    capacity <- cap, waiting <- Waiting, reporting <- Reporting, hand <- Hand,
    deaths <- crashes,
    Records <- [seq : 0..MaxPushes, item : 1..MaxPushes],
    Capacities <- Capacities \cup {Capacity}
ImplementsFifo == Abstract!Spec
=============================================================================
