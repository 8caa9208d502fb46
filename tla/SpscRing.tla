------------------------------ MODULE SpscRing ------------------------------
(***************************************************************************)
(* SpscRing: one producer thread and one consumer thread over an array of  *)
(* Size slots.  The producer publishes through cursor, the consumer frees  *)
(* slots through next, and each keeps a private copy of the other's.       *)
(*                                                                         *)
(* A step is one access to memory the threads share: a slot, cursor or     *)
(* next.  An acquire load may return an older value than the last one      *)
(* stored, but never one older than the thread has already seen.  Items    *)
(* are numbered in the order the producer hands them over.                 *)
(***************************************************************************)
EXTENDS Integers

CONSTANTS
  Size,       \* number of slots
  MaxBatch,   \* the longest run given to publish_batch
  MaxItems    \* bound on the items ever handed over

ASSUME SizeAssumption == Size \in Nat \ {0, 1}
ASSUME BoundAssumption == MaxBatch \in Nat \ {0} /\ MaxItems \in Nat

VARIABLES
  slots,             \* slots_
  cursor,            \* prod_.cursor
  cached_consumer,   \* prod_.cached_consumer
  next,              \* cons_.next
  cached_cursor,     \* cons_.cached_cursor
  ppc,               \* producer: "idle", "refresh", "write"
  call,              \* what the producer runs: "try_publish" or "publish_batch"
  todo,              \* items of the call not published yet (n - done)
  take,              \* items of this wave
  written,           \* of those, written to their slots
  cpc,               \* consumer: "idle", "load", "read"
  seq,               \* next sequence the consumer reads
  avail,             \* where this run of reads ends
  out                \* the item last handed to the consumer, -1 at first

prod == <<cursor, cached_consumer, ppc, call, todo, take, written>>
cons == <<next, cached_cursor, cpc, seq, avail, out>>
vars == <<slots, cursor, cached_consumer, next, cached_cursor, ppc, call, todo, take,
          written, cpc, seq, avail, out>>

Init ==
  /\ slots = [i \in 0 .. Size - 1 |-> -1]
  /\ cursor = 0 /\ cached_consumer = 0
  /\ ppc = "idle" /\ call = "try_publish" /\ todo = 0 /\ take = 0 /\ written = 0
  /\ next = 0 /\ cached_cursor = 0
  /\ cpc = "idle" /\ seq = 0 /\ avail = 0 /\ out = -1

-----------------------------------------------------------------------------
(* Producer: try_publish and publish_batch.                                *)

(* Slip: the full test lets one item too many in.                          *)
NotQuiteFull(c) == cursor - c <= Size

(* With the consumer at c, there is a free slot.                           *)
HasRoom(c) == cursor - c < Size

(* The wave the producer writes when it takes the consumer to be at c: one *)
(* item for try_publish; for publish_batch all that remains or what fits.  *)
StartWave(c, n, op) ==
  LET free == Size - (cursor - c) IN
  /\ take' = IF op = "publish_batch" /\ n > free THEN free ELSE n
  /\ written' = 0 /\ ppc' = "write"

(* The call, up to its first access to shared memory.                      *)
Begin(op, n) ==
  /\ ppc = "idle" /\ cursor + n <= MaxItems
  /\ call' = op /\ todo' = n
  /\ IF HasRoom(cached_consumer) THEN StartWave(cached_consumer, n, op)
     ELSE ppc' = "refresh" /\ UNCHANGED <<take, written>>
  /\ UNCHANGED <<slots, cursor, cached_consumer, cons>>

TryPublish == Begin("try_publish", 1)
PublishBatch == \E n \in 1 .. MaxBatch : Begin("publish_batch", n)

(* Slip: the spin tests the copy of next without loading it again.         *)
OnlyCopy == {cached_consumer}

(* What a load of next may return.                                         *)
Loaded == cached_consumer .. next

(* The ring looks full: load next again.  try_publish gives up if it still *)
(* does, publish_batch spins.                                              *)
Refresh ==
  /\ ppc = "refresh"
  /\ \E c \in Loaded :
       /\ cached_consumer' = c
       /\ IF HasRoom(c) THEN StartWave(c, todo, call)
          ELSE ppc' = (IF call = "publish_batch" THEN "refresh" ELSE "idle") /\ UNCHANGED <<take, written>>
  /\ UNCHANGED <<slots, cursor, call, todo, cons>>

WriteSlot ==
  /\ ppc = "write" /\ written < take
  /\ slots' = [slots EXCEPT ![(cursor + written) % Size] = cursor + written]
  /\ written' = written + 1
  /\ UNCHANGED <<cursor, cached_consumer, ppc, call, todo, take, cons>>

(* Slip: the cursor is stored before the slots are written.                *)
WaveStarted == written = 0

WaveWritten == written = take

(* The release store of cursor; publish_batch then takes its next wave.    *)
StoreCursor ==
  /\ ppc = "write" /\ WaveWritten
  /\ cursor' = cursor + take /\ todo' = todo - take
  /\ take' = 0 /\ written' = 0
  /\ ppc' = IF todo > take THEN "refresh" ELSE "idle"
  /\ UNCHANGED <<slots, cached_consumer, call, cons>>

-----------------------------------------------------------------------------
(* Consumer: try_consume and consume_batch.                                *)

(* try_consume reads one item if its copy of cursor shows one.             *)
TryConsume ==
  /\ cpc = "idle"
  /\ IF next < cached_cursor THEN cpc' = "read" /\ avail' = next + 1
     ELSE cpc' = "load" /\ UNCHANGED avail
  /\ UNCHANGED <<slots, prod, next, cached_cursor, seq, out>>

(* Its copy shows none: load cursor again, and give up if there is none.   *)
Reload ==
  /\ cpc = "load"
  /\ \E c \in cached_cursor .. cursor :
       /\ cached_cursor' = c
       /\ IF next < c THEN cpc' = "read" /\ avail' = next + 1
          ELSE cpc' = "idle" /\ UNCHANGED avail
  /\ UNCHANGED <<slots, prod, next, seq, out>>

(* Slip: a single item is left for later.                                  *)
AtMostOne(c) == c <= next + 1

(* The cursor c shows nothing to read.                                     *)
Nothing(c) == c = next

NoteCursor(c) == cached_cursor' = c

(* consume_batch loads cursor and reads all there is.                      *)
ConsumeBatch ==
  /\ cpc = "idle"
  /\ \E c \in cached_cursor .. cursor :
       IF Nothing(c) THEN UNCHANGED <<cpc, avail, cached_cursor>>
       ELSE cpc' = "read" /\ avail' = c /\ NoteCursor(c)
  /\ UNCHANGED <<slots, prod, next, seq, out>>

ReadSlot ==
  /\ cpc = "read" /\ seq < avail
  /\ out' = slots[seq % Size]
  /\ seq' = seq + 1
  /\ UNCHANGED <<slots, prod, next, cached_cursor, cpc, avail>>

(* Slip: the slots of a run are freed before the last one is read.         *)
AlmostRead == seq + 1 >= avail

RunRead == seq = avail

(* The release store of next frees the slots.                              *)
StoreNext ==
  /\ cpc = "read" /\ RunRead
  /\ next' = avail /\ seq' = avail
  /\ cpc' = "idle"
  /\ UNCHANGED <<slots, prod, cached_cursor, avail, out>>

-----------------------------------------------------------------------------

Producer == TryPublish \/ PublishBatch \/ Refresh \/ WriteSlot \/ StoreCursor
Consumer == TryConsume \/ Reload \/ ConsumeBatch \/ ReadSlot \/ StoreNext

Next == Producer \/ Consumer

Spec == Init /\ [][Next]_vars

(* A load that returns the last value stored.                              *)
FreshRefresh == Refresh /\ cached_consumer' = next
FreshConsume == ConsumeBatch /\ cached_cursor' = cursor

(* Both threads spin without blocking, the consumer in consume_batch, and  *)
(* a store becomes visible to a thread that keeps loading.  Nothing makes  *)
(* the producer start a call.                                              *)
FairSpec ==
  /\ Spec
  /\ WF_vars(WriteSlot \/ StoreCursor) /\ SF_vars(FreshRefresh)
  /\ WF_vars(Reload \/ ReadSlot \/ StoreNext) /\ SF_vars(FreshConsume)

-----------------------------------------------------------------------------

TypeOK ==
  /\ slots \in [0 .. Size - 1 -> Int]
  /\ cursor \in Nat /\ cached_consumer \in Nat /\ next \in Nat /\ cached_cursor \in Nat
  /\ todo \in Nat /\ take \in Nat /\ written \in Nat
  /\ seq \in Nat /\ avail \in Nat /\ out \in Int
  /\ ppc \in {"idle", "refresh", "write"} /\ cpc \in {"idle", "load", "read"}
  /\ call \in {"try_publish", "publish_batch"}
  /\ next <= cached_cursor /\ cached_cursor <= cursor /\ cached_consumer <= next
  /\ cursor - next <= Size

(* No slot is written while an item in it is still to be read: the threads *)
(* never touch the same slot, although neither sees the other's position   *)
(* but through a copy that may be stale.                                   *)
NoSlotRace ==
  ppc = "write" /\ written < take =>
    \A k \in next .. cursor + written - 1 : k % Size # (cursor + written) % Size

(* The consumer is handed item 0, 1, 2, ... without a gap, a repetition or *)
(* an item that was not there yet, through any number of laps.             *)
InOrder == out = seq - 1

(* The ring implements a bounded FIFO channel.                             *)
Ring == INSTANCE Channel WITH
  Producers <- {0},
  queue     <- [i \in 1 .. cursor - seq |-> <<0, slots[(seq + i - 1) % Size]>>],
  sent      <- [p \in {0} |-> cursor],
  received  <- IF out = -1 THEN <<>> ELSE <<0, out>>

RingIsChannel == Ring!Spec

(* Whatever is published is consumed.                                      *)
Delivered == \A k \in 0 .. MaxItems - 1 : cursor > k ~> seq > k

(* A call of the producer returns: publish_batch does not wait for ever on *)
(* a full ring, even for a batch longer than the ring.                     *)
PublishReturns == ppc # "idle" ~> ppc = "idle"
=============================================================================
