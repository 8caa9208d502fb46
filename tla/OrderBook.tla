----------------------------- MODULE OrderBook -----------------------------
(***************************************************************************)
(* OrderBookT: the resting orders live in the slots of pooled PIN nodes; a *)
(* price level is a doubly linked chain of nodes, and the id slab          *)
(* (locators_) says where an order is and caches what a cancel needs.      *)
(*                                                                         *)
(* Two structures appear here by what they provide.  The RB price index is *)
(* a function from prices to levels.  A PIN node is its NodeFifo.          *)
(***************************************************************************)
EXTENDS Orders, NodeFifo

CONSTANTS
  MaxNodes,   \* max_nodes: size of the node pool
  LevelCap    \* level_capacity: levels per side

ASSUME PoolAssumption ==
  MaxNodes \in Nat \ {0} /\ LevelCap \in Nat \ {0}

VARIABLES
  nodes,       \* nodes_
  free_nodes,  \* free_nodes_, a stack
  locators,    \* locators_
  levels,      \* levels["BUY"] is bids_, levels["SELL"] is asks_
  live_count   \* live_count_

book == <<nodes, free_nodes, locators, levels, live_count>>

Node == 0 .. MaxNodes - 1

(* PIN_Node::reset.                                                        *)
EmptyNode == [fifo |-> <<>>, slots |-> <<>>, next |-> Nil, prev |-> Nil]

(* A slab entry whose node is INVALID_INDEX; its other fields are not read.*)
FreeEntry == [node |-> Nil]

BookInit ==
  /\ nodes = [n \in Node |-> EmptyNode]
  /\ free_nodes = [i \in 1 .. MaxNodes |-> MaxNodes - i]
  /\ locators = [i \in SlabIds |-> FreeEntry]
  /\ levels = [s \in Side |-> <<>>]
  /\ live_count = 0

-----------------------------------------------------------------------------
(* The chain of nodes that starts at n, in order.                          *)
Chain(n) ==
  LET from[k \in 0 .. MaxNodes, m \in Node \cup {Nil}] ==
        IF k = 0 \/ m = Nil THEN <<>> ELSE <<m>> \o from[k - 1, nodes[m].next]
  IN  from[MaxNodes, n]

-----------------------------------------------------------------------------
(* add                                                                     *)

(* The price has no level yet.                                             *)
Inserts(o) == o.price \notin DOMAIN levels[o.side]

(* find_or_create_level and ensure_tail_with_space need a fresh node.      *)
NeedsNode(o) == Inserts(o) \/ Full(nodes[levels[o.side][o.price].tail])

(* The guards of add, in their order: the id is in range and not live, the *)
(* price index has room for a new level (try_emplace throws otherwise, and *)
(* add catches it), and the pool has a fresh node.                         *)
IdFree(o)    == o.id \in SlabIds /\ locators[o.id].node = Nil
LevelRoom(o) == Inserts(o) => Cardinality(DOMAIN levels[o.side]) < LevelCap
NodeRoom(o)  == NeedsNode(o) => free_nodes # <<>>

CanAdd(o) == IdFree(o) /\ LevelRoom(o) /\ NodeRoom(o)

(* A PriceLevel as try_emplace makes it: no node, no order.                *)
NewLevel == [head |-> Nil, tail |-> Nil, total_qty |-> 0, order_count |-> 0]

(* The levels of the order's side after try_emplace.                       *)
TryEmplace(o) ==
  [p \in DOMAIN levels[o.side] \cup {o.price} |->
     IF p \in DOMAIN levels[o.side] THEN levels[o.side][p] ELSE NewLevel]

(* add_impl: at the tail of its level, in a node popped from the freelist  *)
(* and linked behind the tail when that is full.                           *)
Add(o) ==
  LET lvls  == TryEmplace(o)
      tail  == lvls[o.price].tail
      n     == IF NeedsNode(o) THEN Last(free_nodes) ELSE tail
      node  == IF NeedsNode(o) THEN [EmptyNode EXCEPT !.prev = tail] ELSE nodes[n]
      lvl   == [lvls[o.price] EXCEPT !.head = IF Inserts(o) THEN n ELSE @, !.tail = n]
  IN  /\ nodes' = [m \in Node |->
                     IF m = n THEN Insert(node, [id |-> o.id, remaining |-> o.remaining])
                     ELSE IF m = tail THEN [nodes[m] EXCEPT !.next = n]
                     ELSE nodes[m]]
      /\ free_nodes' = IF NeedsNode(o) THEN Front(free_nodes) ELSE free_nodes
      /\ levels' = [levels EXCEPT ![o.side] =
                      [lvls EXCEPT ![o.price] =
                         [lvl EXCEPT !.total_qty = @ + o.remaining, !.order_count = @ + 1]]]
      /\ locators' = [locators EXCEPT ![o.id] =
                        [node |-> n, slot |-> InsertSlot(node), price |-> o.price,
                         remaining |-> o.remaining, side |-> o.side]]
      /\ live_count' = live_count + 1

(* Slip: the level made for the refused order stays.                       *)
KeepNewLevel(lvls, o) == lvls

(* book.erase(it) for a level made in vain; one that was there before      *)
(* stays.                                                                  *)
Rollback(lvls, o) == IF Inserts(o) THEN Restrict(lvls, DOMAIN lvls \ {o.price}) ELSE lvls

(* add returns false.  When it is the pool that is exhausted, the level is *)
(* there by then and has to go again.                                      *)
AddFails(o) ==
  /\ levels' = IF IdFree(o) /\ LevelRoom(o)
               THEN [levels EXCEPT ![o.side] = Rollback(TryEmplace(o), o)]
               ELSE levels
  /\ UNCHANGED <<nodes, free_nodes, locators, live_count>>

-----------------------------------------------------------------------------
(* cancel                                                                  *)

Monus(a, b) == IF a >= b THEN a - b ELSE 0

EraseLevel(side, p) ==
  levels' = [levels EXCEPT ![side] = Restrict(@, DOMAIN @ \ {p})]

CanCancel(id) == id \in SlabIds /\ locators[id].node # Nil

(* Slip: an emptied level is erased without giving its nodes back.         *)
ReclaimNothing(lvl) == UNCHANGED free_nodes

(* free_level_nodes                                                        *)
ReclaimLevel(lvl) == free_nodes' = free_nodes \o Chain(lvl.head)

(* Price, side and quantity come from the slab, not from the slot.  A slot *)
(* found free, or a level not found, ends the cancel early.                *)
Cancel(id) ==
  LET loc   == locators[id]
      found == /\ loc.slot \in DOMAIN nodes[loc.node].slots
               /\ loc.price \in DOMAIN levels[loc.side]
      lvl   == levels[loc.side][loc.price]
  IN  /\ locators' = [locators EXCEPT ![id] = FreeEntry]
      /\ live_count' = live_count - 1
      /\ nodes' = [nodes EXCEPT ![loc.node] = RemoveSlot(@, loc.slot)]
      /\ IF ~found THEN UNCHANGED <<free_nodes, levels>>
         ELSE IF lvl.order_count <= 1
         THEN ReclaimLevel(lvl) /\ EraseLevel(loc.side, loc.price)
         ELSE /\ levels' = [levels EXCEPT ![loc.side][loc.price].total_qty =
                                            Monus(@, loc.remaining),
                                          ![loc.side][loc.price].order_count = @ - 1]
              /\ UNCHANGED free_nodes
=============================================================================
