--------------------------- MODULE PriceTimeBook ---------------------------
(***************************************************************************)
(* What the matching engine promises: price-time priority, stated over one *)
(* queue of resting orders per side and price.  Nothing here knows of      *)
(* nodes, slots, slabs or pools.                                           *)
(***************************************************************************)
EXTENDS Orders, Sequences

VARIABLES
  queue,   \* queue[side][price]: the resting orders, oldest first
  taker,   \* the order being matched, with what remains of it; or NoOrder
  event    \* the event the last step emitted; or NoEvent

vars == <<queue, taker, event>>

LiveIds == UNION {{queue[s][p][i].id : i \in DOMAIN queue[s][p]} :
                    s \in Side, p \in ValidPrice}

(* The prices at which the side opposite to the taker rests.               *)
Opp      == Opposite(taker.side)
OppPrices == {p \in ValidPrice : queue[Opp][p] # <<>>}

Marketable ==
  /\ taker.remaining # 0
  /\ OppPrices # {}
  /\ Crosses(taker, Best(Opp, OppPrices))

Init ==
  /\ queue = [s \in Side |-> [p \in ValidPrice |-> <<>>]]
  /\ taker = NoOrder
  /\ event = NoEvent

(* The order with this id leaves its queue; the others keep their places.  *)
Cancel ==
  /\ taker = NoOrder /\ event' = NoEvent /\ UNCHANGED taker
  /\ \E o \in Submitted :
       /\ o.type = "CANCEL"
       /\ queue' = [s \in Side |-> [p \in ValidPrice |->
                      SelectSeq(queue[s][p], LAMBDA e : e.id # o.id)]]

Refuse ==
  /\ taker = NoOrder /\ UNCHANGED taker
  /\ \E o \in Submitted : ~is_admissible(o) /\ event' = RejectEvent(o)
  /\ UNCHANGED queue

Accept ==
  /\ taker = NoOrder /\ event' = NoEvent
  /\ taker' \in Submitted /\ taker'.type # "CANCEL" /\ is_admissible(taker')
  /\ UNCHANGED queue

(* The best price trades first, and at a price the oldest order.           *)
Fill ==
  LET p     == Best(Opp, OppPrices)
      maker == Head(queue[Opp][p])
      fill  == Min({taker.remaining, maker.qty})
  IN  /\ taker # NoOrder /\ Marketable
      /\ taker' = [taker EXCEPT !.remaining = @ - fill]
      /\ event' = FillEvent(taker, maker.id, p, fill)
      /\ queue' = [queue EXCEPT ![Opp][p] =
                     IF fill = maker.qty THEN Tail(@)
                     ELSE <<[maker EXCEPT !.qty = @ - fill]>> \o Tail(@)]

(* What a LIMIT order could not trade goes to the back of its queue, under *)
(* an id no resting order has, or is refused for want of room.             *)
Residual == taker # NoOrder /\ ~Marketable /\ taker.type = "LIMIT" /\ taker.remaining # 0

Rest ==
  /\ Residual /\ taker.id \in SlabIds \ LiveIds
  /\ queue' = [queue EXCEPT ![taker.side][taker.price] =
                 Append(@, [id |-> taker.id, qty |-> taker.remaining])]
  /\ taker' = NoOrder /\ event' = NoEvent

RefuseResidual ==
  /\ Residual
  /\ taker' = NoOrder /\ event' = RejectEvent(taker)
  /\ UNCHANGED queue

Done ==
  /\ taker # NoOrder /\ ~Marketable /\ ~Residual
  /\ taker' = NoOrder /\ event' = NoEvent
  /\ UNCHANGED queue

Next == Cancel \/ Refuse \/ Accept \/ Fill \/ Rest \/ RefuseResidual \/ Done

Spec == Init /\ [][Next]_vars
=============================================================================
