------------------------------ MODULE MpscRing ------------------------------
(***************************************************************************)
(* MpscRing: any number of producers claim positions with a compare-and-   *)
(* swap on enqueue; one consumer takes them in order.  A cell's own seq    *)
(* says whose turn it is: pos when free for the producer of position pos,  *)
(* pos + 1 once its item is there, pos + Size once it is consumed.         *)
(*                                                                         *)
(* A step is one access to memory the threads share.  A load may return an *)
(* older value; the compare-and-swap acts on the newest and may fail       *)
(* spuriously.  Item k of producer p is <<p, k>>.                          *)
(***************************************************************************)
EXTENDS Integers

CONSTANTS
  Producers,
  Size,       \* number of cells
  MaxItems    \* bound on the items of each producer

ASSUME SizeAssumption == Size \in Nat \ {0, 1}
ASSUME BoundAssumption == MaxItems \in Nat

VARIABLES
  seq, data,  \* cells_[i].seq and cells_[i].data
  enqueue,    \* enqueue_.value
  dequeue,    \* dequeue_.value
  pc,         \* pc[p]: "idle", "reload", "check", "cas", "write", "publish"
  pos,        \* pos[p]: the value of enqueue p saw last
  item,       \* item[p]: how many items p has published
  cpc,        \* consumer: "idle", "load", "read", "free"
  single,     \* it runs try_consume, not consume_batch
  cpos,       \* next position it reads
  out         \* the item last handed over, <<>> at first

prod == <<enqueue, pc, pos, item>>
cons == <<dequeue, cpc, single, cpos, out>>
vars == <<seq, data, enqueue, dequeue, pc, pos, item, cpc, single, cpos, out>>

Cell(n) == n % Size

Init ==
  /\ seq = [c \in 0 .. Size - 1 |-> c] /\ data = [c \in 0 .. Size - 1 |-> <<>>]
  /\ enqueue = 0 /\ dequeue = 0
  /\ pc = [p \in Producers |-> "idle"]
  /\ pos = [p \in Producers |-> 0]
  /\ item = [p \in Producers |-> 0]
  /\ cpc = "idle" /\ single = FALSE /\ cpos = 0 /\ out = <<>>

(* The values the seq of cell c takes in turn, up to n; a load returns one.*)
History(c, n) == {v \in c .. n : Cell(v) = c \/ Cell(v) = Cell(c + 1)}
Loads(c) == History(c, seq[c])

-----------------------------------------------------------------------------
(* try_publish                                                             *)

(* Load enqueue: on entry, and again when another producer sped ahead.     *)
LoadEnqueue(p) ==
  /\ pc[p] \in {"idle", "reload"} /\ item[p] < MaxItems
  /\ \E v \in pos[p] .. enqueue : pos' = [pos EXCEPT ![p] = v]
  /\ pc' = [pc EXCEPT ![p] = "check"]
  /\ UNCHANGED <<seq, data, enqueue, item, cons>>

(* Slip: a cell that is not free for this lap yet is claimed too.          *)
NotAhead(v, n) == v <= n

(* The seq v of the cell of position n: free for its producer.             *)
FreeFor(v, n) == v = n

CheckCell(p) ==
  /\ pc[p] = "check"
  /\ \E v \in Loads(Cell(pos[p])) :
       pc' = [pc EXCEPT ![p] = IF FreeFor(v, pos[p]) THEN "cas"
                               ELSE IF v < pos[p] THEN "idle"     \* full: false
                               ELSE "reload"]
  /\ UNCHANGED <<seq, data, enqueue, pos, item, cons>>

(* Slip: the claim is a load and a store, not one atomic step.             *)
ClaimAnyway(p) == enqueue >= pos[p]

CanClaim(p) == enqueue = pos[p]

Claim(p) ==
  /\ pc[p] = "cas" /\ CanClaim(p)
  /\ enqueue' = pos[p] + 1
  /\ pc' = [pc EXCEPT ![p] = "write"]
  /\ UNCHANGED <<seq, data, pos, item, cons>>

(* Lost, or failed spuriously: pos is what the failed swap loaded.         *)
ClaimFails(p) ==
  /\ pc[p] = "cas"
  /\ \E v \in pos[p] .. enqueue : pos' = [pos EXCEPT ![p] = v]
  /\ pc' = [pc EXCEPT ![p] = "check"]
  /\ UNCHANGED <<seq, data, enqueue, item, cons>>

WriteData(p) ==
  /\ pc[p] = "write"
  /\ data' = [data EXCEPT ![Cell(pos[p])] = <<p, item[p]>>]
  /\ pc' = [pc EXCEPT ![p] = "publish"]
  /\ UNCHANGED <<seq, enqueue, pos, item, cons>>

Publish(p) ==
  /\ pc[p] = "publish"
  /\ seq' = [seq EXCEPT ![Cell(pos[p])] = pos[p] + 1]
  /\ pc' = [pc EXCEPT ![p] = "idle"]
  /\ pos' = [pos EXCEPT ![p] = @ + 1]
  /\ item' = [item EXCEPT ![p] = @ + 1]
  /\ UNCHANGED <<data, enqueue, cons>>

-----------------------------------------------------------------------------
(* try_consume and consume_batch                                           *)

StartConsume ==
  /\ cpc = "idle"
  /\ single' \in BOOLEAN /\ cpc' = "load" /\ cpos' = dequeue
  /\ UNCHANGED <<seq, data, prod, dequeue, out>>

(* Slip: seq is compared with a position one too high.                     *)
PastReady(v) == v = cpos + 2

(* The seq v of the next cell shows its item.                              *)
Ready(v) == v = cpos + 1

(* The next cell is read, or the call ends at the first one not published. *)
LoadCell ==
  /\ cpc = "load"
  /\ \E v \in Loads(Cell(cpos)) :
       IF Ready(v) THEN cpc' = "read" /\ UNCHANGED dequeue
       ELSE cpc' = "idle" /\ dequeue' = cpos
  /\ UNCHANGED <<seq, data, prod, single, cpos, out>>

ReadData ==
  /\ cpc = "read"
  /\ out' = data[Cell(cpos)]
  /\ cpos' = cpos + 1 /\ cpc' = "free"
  /\ UNCHANGED <<seq, data, prod, dequeue, single>>

NextLap(n) == n + Size

(* The cell just read is free for the next lap; try_consume is done.       *)
FreeCell ==
  /\ cpc = "free"
  /\ seq' = [seq EXCEPT ![Cell(cpos - 1)] = NextLap(cpos - 1)]
  /\ IF single THEN cpc' = "idle" /\ dequeue' = cpos
     ELSE cpc' = "load" /\ UNCHANGED dequeue
  /\ UNCHANGED <<data, prod, single, cpos, out>>

-----------------------------------------------------------------------------

Finish(p) == Claim(p) \/ WriteData(p) \/ Publish(p)
Producer(p) == LoadEnqueue(p) \/ CheckCell(p) \/ ClaimFails(p) \/ Finish(p)
Consumer == StartConsume \/ LoadCell \/ ReadData \/ FreeCell

Next == Consumer \/ \E p \in Producers : Producer(p)

Spec == Init /\ [][Next]_vars

(* The consumer never stops polling, a producer that has claimed a cell    *)
(* goes on to publish it, and a store becomes visible to a thread that     *)
(* keeps loading.                                                          *)
FreshLoad == LoadCell /\ cpc' = "read"
FairSpec ==
  /\ Spec
  /\ WF_vars(Consumer) /\ SF_vars(FreshLoad)
  /\ \A p \in Producers : WF_vars(WriteData(p) \/ Publish(p))

-----------------------------------------------------------------------------

(* The cursors and the seq of every cell are positions.                    *)
TypeOK ==
  /\ seq \in [0 .. Size - 1 -> Nat]
  /\ data \in [0 .. Size - 1 -> {<<>>} \cup (Producers \X Nat)]
  /\ enqueue \in Nat /\ dequeue \in Nat /\ cpos \in Nat
  /\ pc \in [Producers -> {"idle", "reload", "check", "cas", "write", "publish"}]
  /\ pos \in [Producers -> Nat] /\ item \in [Producers -> Nat]
  /\ cpc \in {"idle", "load", "read", "free"}

Owns(p) == pc[p] \in {"write", "publish"}

(* A producer that has claimed a cell is alone with it until it publishes: *)
(* no other producer has it, and the consumer does not read it, however    *)
(* stale the values that led each of them there.                           *)
NoCellRace ==
  \A p \in Producers : Owns(p) =>
    /\ \A q \in Producers \ {p} : Owns(q) => Cell(pos[q]) # Cell(pos[p])
    /\ cpc = "read" => Cell(cpos) # Cell(pos[p])
    /\ cpc = "free" => Cell(cpos - 1) # Cell(pos[p])

(* The item at position n: in its cell, or still in its producer's hands.  *)
ItemAt(n) ==
  IF \E p \in Producers : Owns(p) /\ pos[p] = n
  THEN LET p == CHOOSE p \in Producers : Owns(p) /\ pos[p] = n IN <<p, item[p]>>
  ELSE data[Cell(n)]

Ring == INSTANCE Channel WITH
  queue    <- [i \in 1 .. enqueue - cpos |-> ItemAt(cpos + i - 1)],
  sent     <- [p \in Producers |-> item[p] + IF Owns(p) THEN 1 ELSE 0],
  received <- out

(* The ring implements a bounded FIFO channel whose order is the order of  *)
(* the claims: nothing is lost, duplicated or read half-written when a     *)
(* later producer finishes first, and each producer's items stay in order. *)
RingIsChannel == Ring!Spec

(* A claimed position is consumed, the gap before it included.             *)
Delivered == \A n \in 0 .. 2 * MaxItems - 1 : enqueue > n ~> cpos > n
=============================================================================
