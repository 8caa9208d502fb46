---------------------------- MODULE MatcherProofs ----------------------------
(***************************************************************************)
(* MatcherT::submit never leaves the book crossed, for any orders, prices, *)
(* pool sizes and level capacity (NeverCrossed).                           *)
(***************************************************************************)
EXTENDS Matcher, WellFoundedInduction, TLAPS

Uncrossed == \A b \in DOMAIN levels["BUY"], a \in DOMAIN levels["SELL"] : b < a

(* The sides of the book are prices that may rest, and the order at hand   *)
(* passed the boundary gate.                                               *)
Inv ==
  /\ DOMAIN levels = Side
  /\ \A s \in Side : DOMAIN levels[s] \subseteq ValidPrice
  /\ in # NoOrder =>
       /\ DOMAIN in = {"id", "side", "type", "price", "remaining"}
       /\ in.side \in Side /\ in.type \in {"LIMIT", "MARKET", "IOC"}
       /\ in.type # "MARKET" => in.price \in ValidPrice
  /\ Uncrossed

-----------------------------------------------------------------------------
(* The best price of a side.                                               *)

LEMMA NatMin ==
  ASSUME NEW T \in SUBSET Nat, T # {}
  PROVE  \E x \in T : \A y \in T : x <= y
<1>1. \E x \in T : \A y \in T : ~(<<y, x>> \in OpToRel(<, Nat))
  BY NatLessThanWellFounded, WFMin
<1>2. \A x, y \in Nat : ~(<<y, x>> \in OpToRel(<, Nat)) => x <= y
  BY DEF OpToRel
<1> QED BY <1>1, <1>2

LEMMA MinBest ==
  ASSUME NEW ps \in SUBSET ValidPrice, ps # {}
  PROVE  Min(ps) \in ps /\ \A y \in ps : Min(ps) <= y
<1>1. ps \in SUBSET Nat
  BY PriceAssumption DEF ValidPrice
<1>2. \E x \in ps : \A y \in ps : x <= y
  BY <1>1, NatMin
<1> QED BY <1>2 DEF Min

LEMMA MaxBest ==
  ASSUME NEW ps \in SUBSET ValidPrice, ps # {}
  PROVE  Max(ps) \in ps /\ \A y \in ps : Max(ps) >= y
<1> DEFINE T == {MaxPrice - p : p \in ps}
<1>0. \A p \in ps : p \in Nat /\ MaxPrice - p \in Nat
  BY PriceAssumption DEF ValidPrice
<1>1. T \in SUBSET Nat /\ T # {}
  BY <1>0
<1>2. PICK x \in T : \A y \in T : x <= y
  BY <1>1, NatMin
<1>3. PICK p \in ps : x = MaxPrice - p
  BY <1>2
<1>4. \A y \in ps : p >= y
  <2> SUFFICES ASSUME NEW y \in ps PROVE p >= y
    OBVIOUS
  <2>1. MaxPrice - p <= MaxPrice - y
    BY <1>2, <1>3
  <2> QED BY <1>0, <2>1, PriceAssumption
<1> QED BY <1>4 DEF Max

-----------------------------------------------------------------------------
(* What a step does to the prices at which orders rest.                    *)

(* Only the residual of a limit order makes a price rest that did not.     *)
Shrinks ==
  /\ DOMAIN levels' = Side
  /\ \A s \in Side : DOMAIN levels'[s] \subseteq DOMAIN levels[s]

LEMMA EraseShrinks ==
  ASSUME DOMAIN levels = Side, NEW side, NEW p, EraseLevel(side, p)
  PROVE  Shrinks
BY DEF EraseLevel, Restrict, Shrinks

LEMMA CancelShrinks ==
  ASSUME DOMAIN levels = Side, NEW id, Cancel(id)
  PROVE  Shrinks
<1> DEFINE loc   == locators[id]
           lvl   == levels[loc.side][loc.price]
<1>1. CASE UNCHANGED levels
  BY <1>1 DEF Shrinks
<1>2. CASE EraseLevel(loc.side, loc.price)
  BY <1>2, EraseShrinks
<1>3. CASE levels' = [levels EXCEPT ![loc.side][loc.price].total_qty = Monus(@, loc.remaining),
                                    ![loc.side][loc.price].order_count = @ - 1]
  BY <1>3 DEF Shrinks
<1> QED BY <1>1, <1>2, <1>3 DEF Cancel

LEMMA FillShrinks ==
  ASSUME DOMAIN levels = Side, Fill
  PROVE  Shrinks
<1>1. CASE EraseLevel(Opp, BestPrice)
  BY <1>1, EraseShrinks
<1>2. ASSUME NEW after, levels' = [levels EXCEPT ![Opp][BestPrice] = after] PROVE Shrinks
  BY <1>2 DEF Shrinks
<1> QED BY <1>1, <1>2 DEF Fill

(* A level made for an order that is refused is erased again.              *)
LEMMA AddFailsShrinks ==
  ASSUME DOMAIN levels = Side, NEW o, AddFails(o)
  PROVE  Shrinks
<1> DEFINE lvls == TryEmplace(o)
<1>1. DOMAIN lvls = DOMAIN levels[o.side] \cup {o.price}
  BY DEF TryEmplace
<1>2. DOMAIN Rollback(lvls, o) \subseteq DOMAIN levels[o.side]
  <2>1. CASE Inserts(o)
    BY <1>1, <2>1 DEF Rollback, Restrict
  <2>2. CASE ~Inserts(o)
    BY <1>1, <2>2 DEF Rollback, Inserts
  <2> QED BY <2>1, <2>2
<1>3. CASE levels' = levels
  BY <1>3 DEF Shrinks
<1>4. CASE levels' = [levels EXCEPT ![o.side] = Rollback(lvls, o)]
  BY <1>2, <1>4 DEF Shrinks
<1> QED BY <1>3, <1>4 DEF AddFails

LEMMA ShrunkUncrossed ==
  ASSUME Inv, Shrinks
  PROVE  /\ DOMAIN levels' = Side
         /\ \A s \in Side : DOMAIN levels'[s] \subseteq ValidPrice
         /\ Uncrossed'
BY DEF Inv, Shrinks, Uncrossed, Side

(* A residual that no longer crosses is outside the best opposite price.   *)
LEMMA ResidualOutside ==
  ASSUME Inv, in # NoOrder, Rests, ~Marketable, NEW p \in DOMAIN levels[Opp]
  PROVE  IF in.side = "BUY" THEN in.price < p ELSE in.price > p
<1>1. in.side \in Side /\ Opp \in Side /\ in.price \in ValidPrice /\ in.type = "LIMIT"
  BY DEF Inv, Opp, Opposite, Side, Rests
<1>2. DOMAIN levels[Opp] \in SUBSET ValidPrice /\ DOMAIN levels[Opp] # {}
  BY <1>1 DEF Inv
<1>3. ~Crosses(in, BestPrice)
  BY <1>2 DEF Marketable, Rests
<1>4. p \in Int /\ in.price \in Int
  BY <1>1, <1>2, PriceAssumption DEF ValidPrice
<1>5. CASE in.side = "BUY"
  <2>1. BestPrice = Min(DOMAIN levels[Opp])
    BY <1>5 DEF BestPrice, Best, Opp, Opposite
  <2>2. BestPrice \in ValidPrice /\ BestPrice <= p
    BY <1>2, <2>1, MinBest
  <2>3. ~(in.price >= BestPrice)
    BY <1>1, <1>3, <1>5 DEF Crosses
  <2> QED BY <1>4, <1>5, <2>2, <2>3, PriceAssumption DEF ValidPrice
<1>6. CASE in.side = "SELL"
  <2>1. BestPrice = Max(DOMAIN levels[Opp])
    BY <1>6 DEF BestPrice, Best, Opp, Opposite
  <2>2. BestPrice \in ValidPrice /\ BestPrice >= p
    BY <1>2, <2>1, MaxBest
  <2>3. ~(in.price <= BestPrice)
    BY <1>1, <1>3, <1>6 DEF Crosses
  <2> QED BY <1>4, <1>6, <2>2, <2>3, PriceAssumption DEF ValidPrice
<1> QED BY <1>1, <1>5, <1>6 DEF Side

LEMMA RestUncrossed ==
  ASSUME Inv, RestResidual
  PROVE  /\ DOMAIN levels' = Side
         /\ \A s \in Side : DOMAIN levels'[s] \subseteq ValidPrice
         /\ Uncrossed'
<1>1. in # NoOrder /\ Rests /\ ~Marketable /\ Add(in)
  BY DEF RestResidual, Crossed
<1>2. in.side \in Side /\ in.price \in ValidPrice
  BY <1>1 DEF Inv, Rests
<1>3. /\ DOMAIN levels' = Side
      /\ DOMAIN levels'[in.side] = DOMAIN levels[in.side] \cup {in.price}
      /\ \A s \in Side \ {in.side} : levels'[s] = levels[s]
  BY <1>1, <1>2 DEF Add, TryEmplace, Inv
<1>4. \A s \in Side : DOMAIN levels'[s] \subseteq ValidPrice
  BY <1>2, <1>3 DEF Inv
<1>5. CASE in.side = "BUY"
  <2>1. Opp = "SELL" /\ levels'["SELL"] = levels["SELL"]
    BY <1>3, <1>5 DEF Opp, Opposite, Side
  <2>2. \A a \in DOMAIN levels["SELL"] : in.price < a
    BY <1>1, <1>5, <2>1, ResidualOutside
  <2> QED BY <1>3, <1>4, <1>5, <2>1, <2>2 DEF Inv, Uncrossed
<1>6. CASE in.side = "SELL"
  <2>1. Opp = "BUY" /\ levels'["BUY"] = levels["BUY"]
    BY <1>3, <1>6 DEF Opp, Opposite, Side
  <2>2. \A b \in DOMAIN levels["BUY"] : in.price > b
    BY <1>1, <1>6, <2>1, ResidualOutside
  <2>3. \A b \in DOMAIN levels["BUY"] : b < in.price
    BY <1>2, <2>1, <2>2, PriceAssumption DEF Inv, ValidPrice, Side
  <2> QED BY <1>3, <1>4, <1>6, <2>1, <2>3 DEF Inv, Uncrossed
<1> QED BY <1>2, <1>5, <1>6 DEF Side

-----------------------------------------------------------------------------

LEMMA InvStep == Inv /\ [Next]_vars => Inv'
<1> SUFFICES ASSUME Inv, [Next]_vars PROVE Inv'
  OBVIOUS
<1> DEFINE Gated == in' # NoOrder =>
             /\ DOMAIN in' = {"id", "side", "type", "price", "remaining"}
             /\ in'.side \in Side /\ in'.type \in {"LIMIT", "MARKET", "IOC"}
             /\ in'.type # "MARKET" => in'.price \in ValidPrice
<1>0. DOMAIN levels = Side
  BY DEF Inv
<1>1. CASE UNCHANGED vars
  BY <1>1 DEF vars, Inv, Uncrossed
<1>2. CASE Submit
  <2>1. PICK o \in Submitted : SubmitCancel(o) \/ SubmitInadmissible(o) \/ SubmitOrder(o)
    BY <1>2 DEF Submit
  <2>2. CASE SubmitCancel(o)
    <3>1. Shrinks /\ in' = in
      BY <1>0, <2>2, CancelShrinks DEF SubmitCancel, Shrinks, book
    <3> QED BY <3>1, ShrunkUncrossed DEF Inv
  <2>3. CASE SubmitInadmissible(o)
    BY <2>3 DEF SubmitInadmissible, book, Inv, Uncrossed
  <2>4. CASE SubmitOrder(o)
    <3>1. o \in Order /\ in' = o /\ levels' = levels
      BY <2>4, SubmittedAssumption DEF SubmitOrder, book
    <3>2. o.type # "CANCEL" /\ (o.type # "MARKET" => o.price \in ValidPrice)
      BY <2>4 DEF SubmitOrder, is_admissible
    <3>3. Gated
      BY <3>1, <3>2 DEF Order
    <3> QED BY <3>1, <3>3 DEF Inv, Uncrossed
  <2> QED BY <2>1, <2>2, <2>3, <2>4
<1>3. CASE Fill
  <2>1. PICK left : in # NoOrder /\ in' = [in EXCEPT !.remaining = left]
    BY <1>3 DEF Fill
  <2>2. Gated
    BY <2>1 DEF Inv
  <2> QED BY <1>0, <1>3, <2>2, FillShrinks, ShrunkUncrossed DEF Inv
<1>4. CASE RestResidual
  BY <1>4, RestUncrossed DEF RestResidual, Inv
<1>5. CASE RejectResidual
  <2>1. Shrinks /\ in' = NoOrder
    BY <1>0, <1>5, AddFailsShrinks DEF RejectResidual
  <2> QED BY <2>1, ShrunkUncrossed DEF Inv
<1>6. CASE Discard
  BY <1>6 DEF Discard, book, Inv, Uncrossed
<1> QED BY <1>1, <1>2, <1>3, <1>4, <1>5, <1>6 DEF Next

(* The invariant: cross stops only at a price the residual does not reach, *)
(* and cancels and fills never add a price to a side.                      *)
THEOREM InvHolds == Spec => []Inv
<1>1. Init => Inv
  BY DEF Init, BookInit, Inv, Uncrossed, Side, NoOrder
<1> QED BY <1>1, InvStep, PTL DEF Spec

(* Between orders the best bid is below the best ask, whatever submit      *)
(* traded, rested, rejected or cancelled before.                           *)
THEOREM NeverCrossedHolds == Spec => []NeverCrossed
<1>1. Inv => NeverCrossed
  BY DEF Inv, Uncrossed, NeverCrossed
<1> QED BY <1>1, InvHolds, PTL
=============================================================================
