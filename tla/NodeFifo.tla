------------------------------ MODULE NodeFifo ------------------------------
(***************************************************************************)
(* What a PIN node promises to the order book: the orders in its slots and *)
(* the sequence of its occupied slots, oldest first.  PinNode.tla shows    *)
(* that the occupancy mask and the links of the code implement this.       *)
(***************************************************************************)
EXTENDS Integers, Sequences, SequencesExt

CONSTANT Capacity   \* PIN_Node::CAPACITY (64 in the code)

ASSUME CapacityAssumption == Capacity \in Nat \ {0}

Nil  == -1
Slot == 0 .. Capacity - 1

EmptyFifo == [fifo |-> <<>>, slots |-> <<>>]

Full(node) == DOMAIN node.slots = Slot

(* Lowest free slot; last in arrival order.                                *)
InsertSlot(node) == Min(Slot \ DOMAIN node.slots)

Insert(node, o) ==
  [node EXCEPT !.fifo = Append(@, InsertSlot(node)),
               !.slots = (InsertSlot(node) :> o) @@ @]

RemoveSlot(node, slot) ==
  [node EXCEPT !.fifo = SelectSeq(@, LAMBDA s : s # slot),
               !.slots = Restrict(@, DOMAIN @ \ {slot})]
=============================================================================
