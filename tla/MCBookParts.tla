---------------------------- MODULE MCBookParts ----------------------------
(***************************************************************************)
(* The two structures the order book is built on, the PIN node and the     *)
(* price index, which OrderBook sees by what they provide.  They share no  *)
(* state: a behaviour works on one while the other stays as it was made.   *)
(***************************************************************************)
EXTENDS PinNode

CONSTANTS Prices, Levels   \* of the price index

ASSUME IndexAssumption == Prices \subseteq Nat \ {0} /\ Levels \in Nat \ {0}

VARIABLES
  part,          \* what this behaviour works on: "node" or "index"
  before, tree

index == <<before, tree>>

Index == INSTANCE RbPriceIndex

PartsInit == part \in {"node", "index"} /\ Init /\ Index!Init

PartsNext ==
  /\ UNCHANGED part
  /\ \/ part = "node" /\ Next /\ UNCHANGED index
     \/ part = "index" /\ Index!Next /\ UNCHANGED vars

PartsSpec == PartsInit /\ [][PartsNext]_<<part, vars, index>>

-----------------------------------------------------------------------------

(* Every tree that try_emplace and erase build is a red-black tree, and    *)
(* the sentinel delete_fixup borrows is clean again.                       *)
RedBlack == Index!RedBlack

(* The neighbour links and begin_ of the price index follow the order of   *)
(* its prices, both ways, whatever rotations moved the nodes.              *)
NeighboursInOrder == Index!NeighboursInOrder

(* find reaches exactly the prices that the neighbour links list.          *)
SearchFindsLevels == Index!SearchFindsLevels

(* Whatever price is asked for, try_emplace and erase do what a bounded    *)
(* map of the order book's levels does.                                    *)
IndexIsMap == Index!IndexIsMap
=============================================================================
