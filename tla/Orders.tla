------------------------------- MODULE Orders -------------------------------
(***************************************************************************)
(* Orders, the events they cause, and the comparisons the engine makes on  *)
(* them: domain/types.hpp, book/order.hpp and book/trade_event.hpp.        *)
(*                                                                         *)
(* An order id is a model value.  The book only asks of an id whether it   *)
(* is below the capacity of its slab, so the ids come in two sets.         *)
(***************************************************************************)
EXTENDS Integers, FiniteSetsExt

CONSTANTS
  SlabIds,     \* ids below id_capacity
  AlienIds,    \* ids at or above it
  MinPrice,    \* MIN_VALID_PRICE
  MaxPrice,    \* MAX_VALID_PRICE
  Submitted    \* the orders clients send

ASSUME PriceAssumption == MinPrice \in Nat \ {0} /\ MaxPrice \in Nat
ASSUME IdAssumption    == SlabIds \cap AlienIds = {}

Side      == {"BUY", "SELL"}
Opposite(side) == IF side = "BUY" THEN "SELL" ELSE "BUY"

Id         == SlabIds \cup AlienIds
ValidPrice == MinPrice .. MaxPrice

Order == [id : Id, side : Side, type : {"LIMIT", "MARKET", "IOC", "CANCEL"},
          price : Int, remaining : Nat]

ASSUME SubmittedAssumption == Submitted \subseteq Order

is_admissible(o) == o.type \in {"MARKET", "CANCEL"} \/ o.price \in ValidPrice

(* The price the matcher looks at first among the prices ps of a side: the *)
(* comparators of the two price maps.                                      *)
Best(side, ps) == IF side = "BUY" THEN Max(ps) ELSE Min(ps)

(* Slip: a limit does not reach an equal price.                            *)
CrossesStrictly(o, p) ==
  o.type = "MARKET" \/ IF o.side = "BUY" THEN o.price > p ELSE o.price < p

(* The incoming order o may trade at the resting price p.                  *)
Crosses(o, p) ==
  o.type = "MARKET" \/ IF o.side = "BUY" THEN o.price >= p ELSE o.price <= p

NoOrder == [type |-> "none"]
NoEvent == [status |-> "none"]

FillEvent(taker, maker, p, q) ==
  [status |-> "FILL", taker |-> taker.id, maker |-> maker, price |-> p, qty |-> q,
   side |-> taker.side]

RejectEvent(o) ==
  [status |-> "REJECTED", taker |-> o.id, price |-> o.price, side |-> o.side]
=============================================================================
