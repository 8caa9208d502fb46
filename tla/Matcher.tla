------------------------------ MODULE Matcher ------------------------------
(***************************************************************************)
(* MatcherT::submit over the order book.  The matcher thread is the only   *)
(* one that touches the book, so a step is what it does up to the next     *)
(* event it emits (where it may spin on a full egress sink): the entry of  *)
(* submit, one fill of the loops of cross and sweep_level, or the handling *)
(* of the residual.                                                        *)
(***************************************************************************)
EXTENDS OrderBook

VARIABLES
  in,   \* the incoming order, with what remains of it; NoOrder between orders
  ev    \* the event the last step handed to the sink; or NoEvent

vars == <<nodes, free_nodes, locators, levels, live_count, in, ev>>

Init == BookInit /\ in = NoOrder /\ ev = NoEvent

-----------------------------------------------------------------------------
(* submit, up to the crossing loop.                                        *)

(* A CANCEL goes straight to the slab; one that hits nothing is ignored.   *)
SubmitCancel(o) ==
  /\ o.type = "CANCEL"
  /\ IF CanCancel(o.id) THEN Cancel(o.id) ELSE UNCHANGED book
  /\ ev' = NoEvent
  /\ UNCHANGED in

(* The boundary gate: the book is not touched.                             *)
SubmitInadmissible(o) ==
  /\ ~is_admissible(o)
  /\ ev' = RejectEvent(o)
  /\ UNCHANGED <<book, in>>

SubmitOrder(o) ==
  /\ o.type # "CANCEL" /\ is_admissible(o)
  /\ in' = o /\ ev' = NoEvent
  /\ UNCHANGED book

-----------------------------------------------------------------------------
(* cross and sweep_level                                                   *)

Opp       == Opposite(in.side)
BestPrice == Best(Opp, DOMAIN levels[Opp])

Marketable ==
  /\ in.remaining # 0
  /\ DOMAIN levels[Opp] # {}
  /\ Crosses(in, BestPrice)

(* front_node drops the empty nodes at the head of the chain.              *)
LiveNodes(chain) == {i \in DOMAIN chain : nodes[chain[i]].fifo # <<>>}

(* Slip: the slab keeps the quantity from before a partial fill.           *)
KeepSlabEntry(id, remaining) == locators

(* note_partial_fill                                                       *)
NotePartialFill(id, remaining) ==
  [locators EXCEPT ![id] = [@ EXCEPT !.remaining = remaining]]

(* Slip: the lowest slot is taken for the oldest order.                    *)
LowestSlot(node) == Min(DOMAIN node.slots)

HeadSlot(node) == Head(node.fifo)

(* Slip: the new head of the chain keeps its link to the node given back.  *)
KeepPrev(n, skip) == nodes[n]

(* front_node: node n once the skip nodes before it are dropped.           *)
NewFront(n, skip) == [nodes[n] EXCEPT !.prev = IF skip > 0 THEN Nil ELSE @]

(* Slip: the aggregate quantity follows only the makers that leave.        *)
QtyOnRemoval(lvl, fill, leaves) ==
  IF leaves THEN [lvl EXCEPT !.total_qty = Monus(@, fill), !.order_count = Monus(@, 1)] ELSE lvl

(* The aggregates of a level after a fill; leaves: the maker is consumed.  *)
Filled(lvl, fill, leaves) ==
  [lvl EXCEPT !.total_qty = Monus(@, fill),
              !.order_count = IF leaves THEN Monus(@, 1) ELSE @]

(* One fill: the oldest order of the best level trades at its own price,   *)
(* and leaves the book when nothing remains of it.  front_node has given   *)
(* back the empty nodes before it; when it was the last order of its level *)
(* all nodes of the level go back and the level is erased.                 *)
Fill ==
  LET lvl   == levels[Opp][BestPrice]
      chain == Chain(lvl.head)
      skip  == Min(LiveNodes(chain)) - 1
      front == chain[skip + 1]
      slot  == HeadSlot(nodes[front])
      maker == nodes[front].slots[slot]
      fill  == Min({in.remaining, maker.remaining})
      left  == maker.remaining - fill
      node  == NewFront(front, skip)
      after == Filled([lvl EXCEPT !.head = front], fill, left = 0)
  IN  /\ in # NoOrder /\ Marketable
      /\ in' = [in EXCEPT !.remaining = @ - fill]
      /\ ev' = FillEvent(in, maker.id, BestPrice, fill)
      /\ nodes' = [nodes EXCEPT ![front] =
                     IF left = 0 THEN RemoveSlot(node, slot)
                     ELSE [node EXCEPT !.slots[slot].remaining = left]]
      /\ locators' = IF left = 0 THEN [locators EXCEPT ![maker.id] = FreeEntry]
                     ELSE NotePartialFill(maker.id, left)
      /\ live_count' = IF left = 0 THEN live_count - 1 ELSE live_count
      /\ IF after.order_count = 0
           THEN ReclaimLevel(lvl) /\ EraseLevel(Opp, BestPrice)
           ELSE /\ free_nodes' = free_nodes \o SubSeq(chain, 1, skip)
                /\ levels' = [levels EXCEPT ![Opp][BestPrice] = after]

-----------------------------------------------------------------------------
(* submit, after the crossing loop.                                        *)

Rests == in.remaining # 0 /\ in.type = "LIMIT"

Crossed == in # NoOrder /\ ~Marketable

RestResidual ==
  /\ Crossed /\ Rests /\ CanAdd(in)
  /\ Add(in)
  /\ in' = NoOrder /\ ev' = NoEvent

(* add refuses the residual, after undoing what it had begun.              *)
RejectResidual ==
  /\ Crossed /\ Rests /\ ~CanAdd(in)
  /\ AddFails(in)
  /\ in' = NoOrder /\ ev' = RejectEvent(in)

(* Nothing remains, or the residual of a MARKET or IOC order is discarded. *)
Discard ==
  /\ Crossed /\ ~Rests
  /\ in' = NoOrder /\ ev' = NoEvent
  /\ UNCHANGED book

Submit ==
  /\ in = NoOrder
  /\ \E o \in Submitted : SubmitCancel(o) \/ SubmitInadmissible(o) \/ SubmitOrder(o)

Next == Submit \/ Fill \/ RestResidual \/ RejectResidual \/ Discard

Spec == Init /\ [][Next]_vars

-----------------------------------------------------------------------------

TypeOK ==
  /\ DOMAIN nodes = Node /\ DOMAIN locators = SlabIds
  /\ \A n \in Node :
       /\ nodes[n].next \in Node \cup {Nil} /\ nodes[n].prev \in Node \cup {Nil}
       /\ nodes[n].fifo \in Seq(Slot) /\ DOMAIN nodes[n].slots \subseteq Slot
       /\ \A s \in DOMAIN nodes[n].slots :
            nodes[n].slots[s] \in [id : SlabIds, remaining : Nat \ {0}]
  /\ free_nodes \in Seq(Node)
  /\ \A s \in Side : DOMAIN levels[s] \subseteq ValidPrice
  /\ live_count \in Nat
  /\ in \in Order \cup {NoOrder}

(* The resting orders of a level in the order a sweep meets them.          *)
NodeOrders(n) == [i \in DOMAIN nodes[n].fifo |-> nodes[n].slots[nodes[n].fifo[i]]]

LevelOrders(lvl) ==
  LET chain == Chain(lvl.head)
      from[i \in 1 .. Len(chain) + 1] ==
        IF i > Len(chain) THEN <<>> ELSE NodeOrders(chain[i]) \o from[i + 1]
  IN  from[1]

LevelNodes(s, p) == Range(Chain(levels[s][p].head))

(* The chain of every level is linked both ways from head to tail and      *)
(* every node of it: what front_node, ensure_tail_with_space and           *)
(* free_level_nodes walk.                                                  *)
ChainsLinked ==
  \A s \in Side : \A p \in DOMAIN levels[s] :
    LET c == Chain(levels[s][p].head) IN
      /\ c # <<>> /\ Last(c) = levels[s][p].tail /\ nodes[Last(c)].next = Nil
      /\ \A i \in DOMAIN c : nodes[c[i]].prev = IF i = 1 THEN Nil ELSE c[i - 1]

(* Every pool node is in exactly one place: once on the freelist, or in    *)
(* the chain of exactly one level.  No sequence of adds, cancels and fills *)
(* leaks a node or frees it twice (alloc_node, free_node).                 *)
NodesConserved ==
  LET chains == {Chain(levels["BUY"][p].head) : p \in DOMAIN levels["BUY"]}
                  \cup {Chain(levels["SELL"][p].head) : p \in DOMAIN levels["SELL"]}
      places == chains \cup {free_nodes}
  IN  /\ \A c \in places : IsInjective(c)
      /\ \A c, d \in places : c # d => Range(c) \cap Range(d) = {}
      /\ UNION {Range(c) : c \in places} = Node
      /\ Cardinality(chains) = Cardinality(DOMAIN levels["BUY"]) + Cardinality(DOMAIN levels["SELL"])

(* The slab is never stale: an id is live exactly when its entry points at *)
(* the slot that holds it, and the price, side and remaining quantity it   *)
(* caches for cancel are those of the order there.                         *)
SlabMatchesBook ==
  /\ \A id \in SlabIds : locators[id].node # Nil =>
       LET loc == locators[id] IN
         /\ loc.price \in DOMAIN levels[loc.side]
         /\ loc.node \in LevelNodes(loc.side, loc.price)
         /\ loc.slot \in DOMAIN nodes[loc.node].slots
         /\ nodes[loc.node].slots[loc.slot] = [id |-> id, remaining |-> loc.remaining]
  /\ live_count = Cardinality({id \in SlabIds : locators[id].node # Nil})
  /\ live_count = Cardinality({ns \in Node \X Slot : ns[2] \in DOMAIN nodes[ns[1]].slots})

TotalQty(os) ==
  LET sum[i \in 0 .. Len(os)] == IF i = 0 THEN 0 ELSE os[i].remaining + sum[i - 1]
  IN  sum[Len(os)]

(* The aggregates of a level, which snapshots publish and which decide     *)
(* when it is erased, are those of the orders in it, and there is at least *)
(* one.                                                                    *)
AggregatesExact ==
  \A s \in Side : \A p \in DOMAIN levels[s] :
    LET os == LevelOrders(levels[s][p]) IN
      /\ levels[s][p].order_count = Len(os)
      /\ levels[s][p].total_qty = TotalQty(os)
      /\ os # <<>>

(* Between orders the book is not crossed: the best bid is below the best  *)
(* ask, whatever was rejected or cancelled on the way.                     *)
NeverCrossed ==
  in = NoOrder => \A b \in DOMAIN levels["BUY"], a \in DOMAIN levels["SELL"] : b < a

(* The engine implements price-time priority: its events and the queues    *)
(* read off its chains are those of PriceTimeBook.                         *)
Queues ==
  [s \in Side |-> [p \in ValidPrice |->
     IF p \notin DOMAIN levels[s] THEN <<>>
     ELSE LET os == LevelOrders(levels[s][p])
          IN  [i \in DOMAIN os |-> [id |-> os[i].id, qty |-> os[i].remaining]]]]

Abstract == INSTANCE PriceTimeBook WITH queue <- Queues, taker <- in, event <- ev

PriceTimePriority == Abstract!Spec
=============================================================================
