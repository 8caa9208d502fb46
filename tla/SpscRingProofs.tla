--------------------------- MODULE SpscRingProofs ---------------------------
(***************************************************************************)
(* The SPSC ring is race-free and delivers in order, for every size, every *)
(* batch length and any number of laps.                                    *)
(***************************************************************************)
EXTENDS SpscRing, Sequences, SequenceTheorems, TLAPS

(* Sequence numbers less than a lap apart are in different slots.          *)
LEMMA DistinctSlots ==
  ASSUME NEW i \in Nat, NEW j \in Nat, i < j, j < i + Size
  PROVE  i % Size # j % Size
<1> DEFINE a == i \div Size
           b == j \div Size
<1>1. /\ i = Size * a + (i % Size) /\ j = Size * b + (j % Size)
      /\ a \in Nat /\ b \in Nat /\ i % Size \in Nat /\ j % Size \in Nat
  BY SizeAssumption
<1>2. SUFFICES ASSUME i % Size = j % Size PROVE FALSE
  OBVIOUS
<1> HIDE DEF a, b
<1>3. j - i = Size * (b - a)
  BY <1>1, <1>2, SizeAssumption
<1>4. b - a >= 1 \/ b - a <= 0
  BY <1>1
<1>5. b - a >= 1 => Size * (b - a) >= Size
  BY <1>1, SizeAssumption
<1>6. b - a <= 0 => Size * (b - a) <= 0
  BY <1>1, SizeAssumption
<1> QED BY <1>3, <1>4, <1>5, <1>6, SizeAssumption

(* What the producer may write: never more than the slots its copy of next *)
(* shows to be free.                                                       *)
ProducerInv ==
  /\ written <= take /\ take <= todo
  /\ cursor + take - cached_consumer <= Size
  /\ ppc # "write" => take = 0
  /\ call = "try_publish" => todo <= 1

(* What the consumer may read: never beyond its copy of cursor.            *)
ConsumerInv ==
  /\ next <= seq /\ seq <= cached_cursor
  /\ cpc = "read" => seq <= avail /\ avail <= cached_cursor
  /\ cpc # "read" => seq = next

(* Every item written and not freed is in its slot.                        *)
Contents ==
  \A k \in Nat : next <= k /\ k < cursor + written => slots[k % Size] = k

Inv == TypeOK /\ ProducerInv /\ ConsumerInv /\ Contents /\ InOrder

LEMMA SlotInRange == \A k \in Nat : k % Size \in 0 .. Size - 1
  BY SizeAssumption

(* The counters keep their order.                                          *)
LEMMA CountersStep ==
  ASSUME TypeOK, ProducerInv, ConsumerInv, [Next]_vars
  PROVE  TypeOK' /\ ProducerInv' /\ ConsumerInv'
<1> USE SizeAssumption, BoundAssumption DEF TypeOK, ProducerInv, ConsumerInv, prod, cons
<1>1. ASSUME NEW op \in {"try_publish", "publish_batch"}, NEW n \in Nat \ {0},
             op = "try_publish" => n = 1, Begin(op, n)
      PROVE  TypeOK' /\ ProducerInv' /\ ConsumerInv'
  BY <1>1 DEF Begin, HasRoom, StartWave
<1>2. CASE TryPublish
  BY <1>1, <1>2 DEF TryPublish
<1>3. CASE PublishBatch
  BY <1>1, <1>3 DEF PublishBatch
<1>4. CASE Refresh
  BY <1>4 DEF Refresh, Loaded, HasRoom, StartWave
<1>5. CASE WriteSlot
  BY <1>5 DEF WriteSlot
<1>6. CASE StoreCursor
  BY <1>6 DEF StoreCursor, WaveWritten
<1>7. CASE TryConsume
  BY <1>7 DEF TryConsume
<1>8. CASE Reload
  BY <1>8 DEF Reload
<1>9. CASE ConsumeBatch
  BY <1>9 DEF ConsumeBatch, Nothing, NoteCursor
<1>10. CASE ReadSlot
  <2>1. slots[seq % Size] \in Int
    BY SlotInRange
  <2> QED BY <1>10, <2>1 DEF ReadSlot
<1>11. CASE StoreNext
  BY <1>11 DEF StoreNext, RunRead
<1>12. CASE UNCHANGED vars
  BY <1>12 DEF vars
<1> QED
  BY <1>2, <1>3, <1>4, <1>5, <1>6, <1>7, <1>8, <1>9, <1>10, <1>11, <1>12
  DEF Next, Producer, Consumer

(* Writing a slot overwrites no item that is still to be read.             *)
LEMMA WriteIsSafe ==
  ASSUME TypeOK, ProducerInv, written < take,
         NEW k \in Nat, next <= k, k < cursor + written
  PROVE  k % Size # (cursor + written) % Size
<1>1. cursor + written \in Nat /\ cursor + written < k + Size
  BY SizeAssumption DEF TypeOK, ProducerInv
<1> QED BY <1>1, DistinctSlots

(* Every item is in its slot from when it is written until it is freed.    *)
LEMMA ContentsStep ==
  ASSUME Inv, [Next]_vars PROVE Contents'
<1> USE DEF Inv, Contents
<1>1. CASE WriteSlot
  <2>1. /\ written < take /\ written' = written + 1 /\ next' = next /\ cursor' = cursor
        /\ slots' = [slots EXCEPT ![(cursor + written) % Size] = cursor + written]
    BY <1>1 DEF WriteSlot, cons
  <2>2. SUFFICES ASSUME NEW k \in Nat, next <= k, k < cursor + written + 1
                 PROVE  slots'[k % Size] = k
    BY <2>1 DEF TypeOK
  <2>3. k % Size \in DOMAIN slots /\ (cursor + written) % Size \in DOMAIN slots
    BY SlotInRange DEF TypeOK
  <2>4. CASE k = cursor + written
    BY <2>1, <2>3, <2>4
  <2>5. CASE k < cursor + written
    BY <2>1, <2>2, <2>3, <2>5, WriteIsSafe
  <2> QED BY <2>2, <2>4, <2>5 DEF TypeOK
<1>2. CASE StoreCursor
  BY <1>2 DEF StoreCursor, WaveWritten, TypeOK, cons
<1>3. CASE StoreNext
  BY <1>3 DEF StoreNext, RunRead, TypeOK, ConsumerInv, prod
<1>4. ASSUME UNCHANGED <<slots, cursor, next>>, written' = written \/ written' = 0 PROVE Contents'
  BY <1>4 DEF TypeOK
<1>5. CASE Begin("try_publish", 1) \/ \E n \in 1 .. MaxBatch : Begin("publish_batch", n)
  BY <1>4, <1>5 DEF Begin, StartWave, cons
<1>6. CASE Refresh
  BY <1>4, <1>6 DEF Refresh, StartWave, cons
<1>7. CASE TryConsume \/ Reload \/ ConsumeBatch \/ ReadSlot \/ UNCHANGED vars
  BY <1>4, <1>7 DEF TryConsume, Reload, ConsumeBatch, ReadSlot, prod, vars
<1> QED
  BY <1>1, <1>2, <1>3, <1>5, <1>6, <1>7
  DEF Next, Producer, Consumer, TryPublish, PublishBatch

(* Only ReadSlot moves out and seq, and it finds item seq in its slot.     *)
LEMMA InOrderStep ==
  ASSUME Inv, [Next]_vars PROVE InOrder'
<1> USE DEF Inv, InOrder
<1>1. CASE ReadSlot
  <2>1. slots[seq % Size] = seq
    BY <1>1 DEF ReadSlot, Contents, TypeOK, ConsumerInv
  <2> QED BY <1>1, <2>1 DEF ReadSlot, TypeOK
<1>2. CASE StoreNext
  BY <1>2 DEF StoreNext, RunRead
<1>3. CASE TryConsume \/ Reload \/ ConsumeBatch \/ UNCHANGED vars
  BY <1>3 DEF TryConsume, Reload, ConsumeBatch, vars
<1>4. CASE TryPublish \/ PublishBatch \/ Refresh \/ WriteSlot \/ StoreCursor
  BY <1>4 DEF TryPublish, PublishBatch, Begin, Refresh, WriteSlot, StoreCursor, cons
<1> QED BY <1>1, <1>2, <1>3, <1>4 DEF Next, Producer, Consumer

(* The inductive invariant holds of every reachable state.                 *)
THEOREM InvHolds == Spec => []Inv
<1>1. Init => Inv
  BY SizeAssumption
  DEF Init, Inv, TypeOK, ProducerInv, ConsumerInv, Contents, InOrder
<1>2. Inv /\ [Next]_vars => Inv'
  BY CountersStep, ContentsStep, InOrderStep DEF Inv
<1> QED BY <1>1, <1>2, PTL DEF Spec

(* The producer never writes a slot whose item is still to be read, for    *)
(* every size, batch length and number of laps.                            *)
THEOREM NoSlotRaceHolds == Spec => []NoSlotRace
<1>1. Inv => NoSlotRace
  BY WriteIsSafe DEF Inv, NoSlotRace, TypeOK
<1> QED BY <1>1, InvHolds, PTL

(* try_consume and consume_batch hand over item 0, 1, 2, ... in order.     *)
THEOREM InOrderHolds == Spec => []InOrder
<1>1. Inv => InOrder
  BY DEF Inv
<1> QED BY <1>1, InvHolds, PTL

-----------------------------------------------------------------------------
(* Refinement.                                                             *)

(* The items of the channel, as the counters tell them.                    *)
InFlight == [i \in 1 .. cursor - seq |-> <<0, seq + i - 1>>]

RingQueue == [i \in 1 .. cursor - seq |-> <<0, slots[(seq + i - 1) % Size]>>]

LEMMA QueueIsInFlight == Inv => RingQueue = InFlight
<1> SUFFICES ASSUME Inv, NEW i \in 1 .. cursor - seq
             PROVE  slots[(seq + i - 1) % Size] = seq + i - 1
  BY DEF RingQueue, InFlight
<1>1. seq + i - 1 \in Nat /\ next <= seq + i - 1 /\ seq + i - 1 < cursor + written
  BY DEF Inv, TypeOK, ConsumerInv
<1> QED BY <1>1 DEF Inv, Contents

(* Sequences that agree at every place are equal.                          *)
LEMMA SameSeq ==
  ASSUME NEW S, NEW s \in Seq(S), NEW t \in Seq(S), Len(s) = Len(t),
         \A i \in 1 .. Len(s) : s[i] = t[i]
  PROVE  s = t
<1>1. s \in [1 .. Len(s) -> S] /\ t \in [1 .. Len(s) -> S]
  BY LenProperties
<1> QED BY <1>1

(* ReadSlot takes the head of the queue.                                   *)
LEMMA ReadIsReceive ==
  ASSUME Inv, ReadSlot
  PROVE  /\ InFlight # <<>> /\ Head(InFlight) = <<0, seq>> /\ out' = seq
         /\ InFlight' = Tail(InFlight)
<1>1. /\ seq' = seq + 1 /\ cursor' = cursor /\ seq < cursor
      /\ seq \in Nat /\ cursor \in Nat
  BY DEF Inv, ReadSlot, prod, TypeOK, ConsumerInv
<1>2. out' = seq
  BY DEF Inv, ReadSlot, Contents, TypeOK, ConsumerInv
<1>3. InFlight \in Seq({0} \X Nat) /\ Len(InFlight) = cursor - seq
  BY <1>1 DEF InFlight
<1>4. InFlight # <<>> /\ Head(InFlight) = <<0, seq>>
  BY <1>1, <1>3 DEF InFlight
<1>5. /\ InFlight' \in Seq({0} \X Nat) /\ Len(InFlight') = cursor - seq - 1
      /\ \A i \in 1 .. cursor - seq - 1 : InFlight'[i] = <<0, seq + i>>
  BY <1>1 DEF InFlight
<1>6. /\ Tail(InFlight) \in Seq({0} \X Nat) /\ Len(Tail(InFlight)) = cursor - seq - 1
      /\ \A i \in 1 .. cursor - seq - 1 : Tail(InFlight)[i] = InFlight[i + 1]
  BY <1>3, <1>4, HeadTailProperties
<1>7. \A i \in 1 .. cursor - seq - 1 : InFlight[i + 1] = <<0, seq + i>>
  BY <1>1 DEF InFlight
<1>8. InFlight' = Tail(InFlight)
  BY <1>5, <1>6, <1>7, SameSeq
<1> QED BY <1>2, <1>4, <1>8

(* StoreCursor appends the wave.                                           *)
LEMMA StoreIsSend ==
  ASSUME Inv, StoreCursor, take # 0
  PROVE  /\ take \in 1 .. Size /\ cursor' = cursor + take
         /\ Len(InFlight) + take <= Size
         /\ InFlight' = InFlight \o [i \in 1 .. take |-> <<0, cursor + i - 1>>]
<1>1. /\ cursor' = cursor + take /\ seq' = seq /\ take \in 1 .. Size /\ seq <= cursor
      /\ seq \in Nat /\ cursor \in Nat /\ cursor - seq + take <= Size
  BY SizeAssumption DEF Inv, StoreCursor, cons, TypeOK, ProducerInv, ConsumerInv
<1> DEFINE new == [i \in 1 .. take |-> <<0, cursor + i - 1>>]
<1>2. InFlight \in Seq({0} \X Nat) /\ Len(InFlight) = cursor - seq
  BY <1>1 DEF InFlight
<1>3. new \in Seq({0} \X Nat) /\ Len(new) = take
  BY <1>1
<1>4. /\ InFlight' \in Seq({0} \X Nat) /\ Len(InFlight') = (cursor - seq) + take
      /\ \A i \in 1 .. (cursor - seq) + take : InFlight'[i] = <<0, seq + i - 1>>
  BY <1>1 DEF InFlight
<1> HIDE DEF new
<1>5. /\ InFlight \o new \in Seq({0} \X Nat) /\ Len(InFlight \o new) = (cursor - seq) + take
      /\ \A i \in 1 .. (cursor - seq) + take : (InFlight \o new)[i] =
           IF i <= cursor - seq THEN InFlight[i] ELSE new[i - (cursor - seq)]
  <2>1. /\ InFlight \o new \in Seq({0} \X Nat) /\ Len(InFlight \o new) = Len(InFlight) + Len(new)
        /\ \A i \in 1 .. Len(InFlight) + Len(new) : (InFlight \o new)[i] =
             IF i <= Len(InFlight) THEN InFlight[i] ELSE new[i - Len(InFlight)]
    BY <1>2, <1>3, ConcatProperties, Zenon
  <2> QED BY <1>2, <1>3, <2>1, Zenon
<1>6. ASSUME NEW i \in 1 .. (cursor - seq) + take
      PROVE  <<0, seq + i - 1>> = IF i <= cursor - seq THEN InFlight[i] ELSE new[i - (cursor - seq)]
  <2>1. CASE i <= cursor - seq
    BY <1>1, <2>1 DEF InFlight
  <2>2. CASE ~(i <= cursor - seq)
    <3>1. i - (cursor - seq) \in 1 .. take
      BY <1>1, <2>2
    <3>2. cursor + (i - (cursor - seq)) - 1 = seq + i - 1
      BY <1>1
    <3> QED BY <2>2, <3>1, <3>2 DEF new
  <2> QED BY <2>1, <2>2
<1>7. InFlight' = InFlight \o new
  BY <1>4, <1>5, <1>6, SameSeq
<1> QED BY <1>1, <1>2, <1>7 DEF new

(* The ring implements the bounded FIFO channel, for every size and any    *)
(* number of laps: what consume_batch hands over is what was published, in *)
(* order, once.                                                            *)
THEOREM ImplementsChannel == Spec => RingIsChannel
<1> DEFINE Recv == IF out = -1 THEN <<>> ELSE <<0, out>>
           Sent == [p \in {0} |-> cursor]
           bar  == <<RingQueue, Sent, Recv>>
<1>1. Init => Ring!Init
  <2> SUFFICES ASSUME Init PROVE Ring!Init
    OBVIOUS
  <2>1. RingQueue = <<>>
    BY DEF Init, RingQueue
  <2> QED BY <2>1 DEF Init, Ring!Init, RingQueue
<1>2. Inv /\ Inv' /\ [Next]_vars => [Ring!Next]_bar
  <2> SUFFICES ASSUME Inv, Inv', [Next]_vars PROVE Ring!Next \/ UNCHANGED bar
    OBVIOUS
  <2>1. RingQueue = InFlight /\ RingQueue' = InFlight'
    <3>1. RingQueue = InFlight
      BY QueueIsInFlight
    <3>2. (RingQueue = InFlight)'
      BY QueueIsInFlight, PTL
    <3> QED BY <3>1, <3>2
  <2>2. CASE ReadSlot
    <3>1. /\ RingQueue # <<>> /\ Head(RingQueue) = <<0, seq>> /\ RingQueue' = Tail(RingQueue)
          /\ out' = seq
      BY <2>1, <2>2, ReadIsReceive
    <3>2. cursor' = cursor /\ out' # -1
      BY <3>1, <2>2 DEF ReadSlot, prod, Inv, TypeOK
    <3>3. Ring!Receive
      BY <3>1, <3>2 DEF Ring!Receive, RingQueue
    <3> QED BY <3>3 DEF Ring!Next
  <2>3. CASE StoreCursor /\ take # 0
    <3>1. /\ take \in 1 .. Size /\ cursor' = cursor + take
          /\ Len(RingQueue) + take <= Size
          /\ RingQueue' = RingQueue \o [i \in 1 .. take |-> <<0, cursor + i - 1>>]
      BY <2>1, <2>3, StoreIsSend
    <3>2. out' = out
      BY <2>3 DEF StoreCursor, cons
    <3>3. PICK n \in 1 .. Size : n = take
      BY <3>1
    <3>4. Ring!Send(0, n)
      BY <3>1, <3>2, <3>3 DEF Ring!Send, RingQueue
    <3> QED BY <3>4, Zenon DEF Ring!Next
  <2>4. ASSUME UNCHANGED <<cursor, seq, out>> PROVE UNCHANGED bar
    BY <2>1, <2>4 DEF InFlight
  <2>5. CASE StoreCursor /\ take = 0
    BY <2>4, <2>5 DEF StoreCursor, cons, Inv, TypeOK
  <2>6. CASE StoreNext
    BY <2>4, <2>6 DEF StoreNext, RunRead, prod
  <2>7. CASE TryConsume \/ Reload \/ ConsumeBatch \/ UNCHANGED vars
    BY <2>4, <2>7 DEF TryConsume, Reload, ConsumeBatch, prod, vars
  <2>8. CASE TryPublish \/ PublishBatch \/ Refresh \/ WriteSlot
    BY <2>4, <2>8 DEF TryPublish, PublishBatch, Begin, Refresh, WriteSlot, cons
  <2> QED
    BY <2>2, <2>3, <2>5, <2>6, <2>7, <2>8 DEF Next, Producer, Consumer
<1>3. [Ring!Next]_bar => [Ring!Next]_<<[i \in 1 .. cursor - seq |-> <<0, slots[(seq + i - 1) % Size]>>],
                                      [p \in {0} |-> cursor],
                                      IF out = -1 THEN <<>> ELSE <<0, out>> >>
  BY DEF RingQueue
<1> QED BY <1>1, <1>2, <1>3, InvHolds, PTL DEF Spec, RingIsChannel, Ring!Spec
=============================================================================
