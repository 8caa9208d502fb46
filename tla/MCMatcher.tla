----------------------------- MODULE MCMatcher -----------------------------
(***************************************************************************)
(* Matcher on small alphabets of orders.  Every kind of order is there; an *)
(* order that never rests needs no id of its own.                          *)
(***************************************************************************)
EXTENDS Matcher

CONSTANTS Prices, Qtys, Taker   \* Taker: the id of MARKET and IOC orders

MCSubmitted ==
  [id : Id, side : Side, type : {"LIMIT"}, price : Prices, remaining : Qtys]
    \cup [id : SlabIds, side : {"SELL"}, type : {"LIMIT"}, price : {MaxPrice}, remaining : {0}]
    \cup [id : SlabIds, side : {"SELL"}, type : {"LIMIT"}, price : {MaxPrice + 1}, remaining : {1}]
    \cup [id : {Taker}, side : Side, type : {"LIMIT", "IOC"}, price : {MinPrice - 1}, remaining : {1}]
    \cup [id : {Taker}, side : Side, type : {"IOC"}, price : Prices, remaining : Qtys]
    \cup [id : {Taker}, side : Side, type : {"MARKET"}, price : {0}, remaining : Qtys]
    \cup [id : Id, side : {"BUY"}, type : {"CANCEL"}, price : {0}, remaining : {0}]

IdSymmetry == Permutations(SlabIds)
=============================================================================
