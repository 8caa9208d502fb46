------------------------------ MODULE PinNode ------------------------------
(***************************************************************************)
(* PIN_Node: an occupancy mask over the slots, and a doubly linked chain   *)
(* through the occupied ones in order of arrival.  Slots are reused lowest *)
(* first, so a slot's index says nothing of its age, and a link of a free  *)
(* slot is whatever was last written there.                                *)
(*                                                                         *)
(* The payload of a slot is the order's seq, the stamp the sequencer gave  *)
(* it on arrival.                                                          *)
(***************************************************************************)
EXTENDS NodeFifo

CONSTANT MaxSeq   \* bound on the orders that arrive

ASSUME MaxSeqAssumption == MaxSeq \in Nat

VARIABLES
  mask,           \* occupancy_mask, as the set of its bits
  head_slot, tail_slot,
  next_in_time, prev_in_time,
  slots,          \* slots: the seq of the order last stored
  clock           \* seq of the next order to arrive

node == <<mask, head_slot, tail_slot, next_in_time, prev_in_time, slots>>
vars == <<mask, head_slot, tail_slot, next_in_time, prev_in_time, slots, clock>>

(* A node of the pool, zeroed by its vector, after its first reset.        *)
Init ==
  /\ mask = {} /\ head_slot = Nil /\ tail_slot = Nil
  /\ next_in_time = [s \in Slot |-> 0]
  /\ prev_in_time = [s \in Slot |-> 0]
  /\ slots = [s \in Slot |-> 0]
  /\ clock = 0

(* The node is popped from the freelist again; its links stay as they are. *)
Reset ==
  /\ mask' = {} /\ head_slot' = Nil /\ tail_slot' = Nil
  /\ UNCHANGED <<next_in_time, prev_in_time, slots, clock>>

(* Slip: the slot behind the newest order.                                 *)
SlotAfterTail(s) == s = IF tail_slot = Nil THEN 0 ELSE (tail_slot + 1) % Capacity

(* ctzll of the free bits.                                                 *)
FreeSlot(s) == s \notin mask /\ \A t \in Slot \ mask : s <= t

(* The new slot ends the chain; the old tail, if any, points to it.        *)
AppendLink(s) ==
  [t \in Slot |-> IF t = s THEN Nil ELSE IF t = tail_slot THEN s ELSE next_in_time[t]]

(* insert returns INVALID_INDEX on a full node.                            *)
InsertOrder ==
  /\ clock < MaxSeq
  /\ clock' = clock + 1
  /\ IF mask = Slot THEN UNCHANGED node
     ELSE \E s \in Slot :
       /\ FreeSlot(s)
       /\ mask' = mask \cup {s}
       /\ slots' = [slots EXCEPT ![s] = clock]
       /\ next_in_time' = AppendLink(s)
       /\ prev_in_time' = [prev_in_time EXCEPT ![s] = tail_slot]
       /\ head_slot' = IF tail_slot = Nil THEN s ELSE head_slot
       /\ tail_slot' = s

(* Slip: the newer neighbour keeps its link to the removed slot.           *)
UnlinkForwardOnly(s) == prev_in_time

(* The newer neighbour of s, if any, now follows the older one.            *)
UnlinkBack(s) ==
  [t \in Slot |-> IF t = next_in_time[s] THEN prev_in_time[s] ELSE prev_in_time[t]]

(* remove returns false for a slot out of range or already free.           *)
RemoveOrder(s) ==
  /\ IF s \notin mask THEN UNCHANGED node
     ELSE LET p == prev_in_time[s]
              n == next_in_time[s]
          IN
       /\ mask' = mask \ {s}
       /\ next_in_time' = [t \in Slot |-> IF t = p THEN n ELSE next_in_time[t]]
       /\ head_slot' = IF p = Nil THEN n ELSE head_slot
       /\ prev_in_time' = UnlinkBack(s)
       /\ tail_slot' = IF n = Nil THEN p ELSE tail_slot
       /\ UNCHANGED slots
  /\ UNCHANGED clock

Next == Reset \/ InsertOrder \/ \E s \in 0 .. Capacity : RemoveOrder(s)

Spec == Init /\ [][Next]_vars

-----------------------------------------------------------------------------

Link == Slot \cup {Nil}

TypeOK ==
  /\ mask \subseteq Slot
  /\ head_slot \in Link /\ tail_slot \in Link
  /\ next_in_time \in [Slot -> Link]
  /\ prev_in_time \in [Slot -> Link]
  /\ slots \in [Slot -> Nat]
  /\ clock \in Nat

(* t holds the first order that arrived after the one in s, among those    *)
(* still there.                                                            *)
NextInTime(s, t) ==
  /\ slots[s] < slots[t]
  /\ \A u \in mask : slots[u] <= slots[s] \/ slots[t] <= slots[u]

(* Time priority survives the reuse of slots: the head is the oldest order *)
(* of the node and the tail the newest, and the links of an occupied slot  *)
(* lead to the next newer and the next older order, with nothing between.  *)
TimeOrder ==
  /\ (head_slot = Nil) <=> (mask = {})
  /\ (tail_slot = Nil) <=> (mask = {})
  /\ mask # {} => head_slot \in mask /\ tail_slot \in mask
  /\ \A s \in mask :
       /\ slots[head_slot] <= slots[s] /\ slots[s] <= slots[tail_slot]
       /\ s # tail_slot => next_in_time[s] \in mask /\ NextInTime(s, next_in_time[s])
       /\ s # head_slot => prev_in_time[s] \in mask /\ NextInTime(prev_in_time[s], s)
  /\ tail_slot # Nil => next_in_time[tail_slot] = Nil
  /\ head_slot # Nil => prev_in_time[head_slot] = Nil

(* The slots from s on, along next_in_time; a walk no longer than the node.*)
Walk(s) ==
  LET from[k \in 0 .. Capacity, t \in Link] ==
        IF k = 0 \/ t = Nil THEN <<>> ELSE <<t>> \o from[k - 1, next_in_time[t]]
  IN  from[Capacity, s]

AsFifo == [fifo |-> Walk(head_slot), slots |-> [s \in mask |-> slots[s]]]

(* insert, remove and reset implement the operators the order book is      *)
(* modelled with: a walk along the chain always meets the orders in the    *)
(* sequence NodeFifo says, whatever slots were freed and refilled.         *)
NodeImplementsFifo ==
  /\ AsFifo = EmptyFifo
  /\ [][\/ AsFifo' = EmptyFifo
        \/ ~Full(AsFifo) /\ AsFifo' = Insert(AsFifo, clock)
        \/ \E s \in Slot : AsFifo' = RemoveSlot(AsFifo, s)]_AsFifo
=============================================================================
