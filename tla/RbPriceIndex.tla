---------------------------- MODULE RbPriceIndex ----------------------------
(***************************************************************************)
(* RBPriceIndex: a red-black tree over a pool of nodes, with a sentinel in *)
(* place of null, parent links, and links between neighbours in order, so  *)
(* that the best price and the successor of a node are found at once.      *)
(*                                                                         *)
(* A pool node is named by the price it holds: a price is in at most one   *)
(* node, and which of the free ones it gets makes no difference.  The pool *)
(* is then the number of nodes in use.  A tree is a value; the operators   *)
(* below take one to the next, store by store.                             *)
(***************************************************************************)
EXTENDS Integers, Sequences, FiniteSets, SequencesExt

CONSTANTS
  Prices,     \* the prices that occur
  Levels      \* capacity of the pool

VARIABLES
  before,     \* the comparator: "less" for asks, "greater" for bids
  tree        \* nodes_, root_, begin_, size_

vars == <<before, tree>>

NIL == 0   \* index of the sentinel

Before(p, q) == IF before = "less" THEN p < q ELSE p > q

(* Node{}                                                                  *)
Blank == [left |-> NIL, right |-> NIL, parent |-> NIL, pred |-> NIL, succ |-> NIL,
          color |-> "BLACK"]

Init ==
  /\ before \in {"less", "greater"}
  /\ tree = [node |-> [p \in Prices \cup {NIL} |-> Blank],
             root |-> NIL, begin |-> NIL, size |-> 0]

-----------------------------------------------------------------------------
(* The code writes every case out for left and for right; here d is the    *)
(* side and Other(d) the other one.                                        *)

Other(d) == IF d = "left" THEN "right" ELSE "left"

Parent(t, x) == t.node[x].parent
Color(t, x)  == t.node[x].color

Paint(t, x, c) == [t EXCEPT !.node[x].color = c]

(* Store c in a link of node x, unless x is the sentinel.                  *)
Relink(t, x, link, c) == IF x = NIL THEN t ELSE [t EXCEPT !.node[x][link] = c]

(* The link of p that holds its child x.                                   *)
LinkTo(t, p, x, d) == IF t.node[p][d] = x THEN d ELSE Other(d)

(* c takes the place of x below p, or at the root.                         *)
Replace(t, p, x, d, c) ==
  IF p = NIL THEN [t EXCEPT !.root = c] ELSE [t EXCEPT !.node[p][LinkTo(t, p, x, d)] = c]

(* Slip: the subtree between the two keys is not handed over.              *)
DropInner(t, x, d, c) == [t EXCEPT !.node[x][Other(d)] = NIL]

(* The subtree c between the two keys of a rotation goes to x.             *)
MoveInner(t, x, d, c) == Relink([t EXCEPT !.node[x][Other(d)] = c], c, "parent", x)

(* rotate_left and rotate_right                                            *)
Rotate(t, x, d) ==
  LET y == t.node[x][Other(d)]
      p == Parent(t, x)
      u == [MoveInner(t, x, d, t.node[y][d]) EXCEPT !.node[y].parent = p]
  IN  [Replace(u, p, x, d, y) EXCEPT !.node[y][d] = x, !.node[x].parent = y]

RECURSIVE InsertFixup(_, _)
InsertFixup(t, z) ==
  LET p  == Parent(t, z)
      gp == Parent(t, p)
      d  == IF p = t.node[gp].left THEN "left" ELSE "right"
      u  == t.node[gp][Other(d)]                            \* uncle
      inner == z = t.node[p][Other(d)]
      s  == IF inner THEN Rotate(t, p, d) ELSE t
      y  == IF inner THEN p ELSE z
      q  == Parent(s, y)
      g  == Parent(s, q)
  IN  IF Color(t, p) = "BLACK" THEN Paint(t, t.root, "BLACK")
      ELSE IF Color(t, u) = "RED"
      THEN InsertFixup(Paint(Paint(Paint(t, p, "BLACK"), u, "BLACK"), gp, "RED"), gp)
      ELSE InsertFixup(Rotate(Paint(Paint(s, q, "BLACK"), g, "RED"), g, Other(d)), y)

Transplant(t, u, v) ==
  [Replace(t, Parent(t, u), u, "left", v) EXCEPT !.node[v].parent = Parent(t, u)]

RECURSIVE DeleteFixup(_, _)
DeleteFixup(t, x) ==
  LET p  == Parent(t, x)
      d  == IF x = t.node[p].left THEN "left" ELSE "right"
      e  == Other(d)
      w1 == t.node[p][e]                                    \* sibling
      t1 == IF Color(t, w1) = "RED"
            THEN Rotate(Paint(Paint(t, w1, "BLACK"), p, "RED"), p, d) ELSE t
      w2 == t1.node[Parent(t1, x)][e]
      bothBlack == Color(t1, t1.node[w2].left) = "BLACK" /\ Color(t1, t1.node[w2].right) = "BLACK"
      t2 == IF Color(t1, t1.node[w2][e]) = "BLACK"
            THEN Rotate(Paint(Paint(t1, t1.node[w2][d], "BLACK"), w2, "RED"), w2, e) ELSE t1
      q  == Parent(t2, x)
      w3 == t2.node[q][e]
      t3 == Paint(Paint(Paint(t2, w3, Color(t2, q)), q, "BLACK"), t2.node[w3][e], "BLACK")
      t4 == Rotate(t3, q, d)
  IN  IF x = t.root \/ Color(t, x) = "RED" THEN Paint(t, x, "BLACK")
      ELSE IF bothBlack THEN DeleteFixup(Paint(t1, w2, "RED"), Parent(t1, x))
      ELSE DeleteFixup(t4, t4.root)

-----------------------------------------------------------------------------
(* find, try_emplace and erase                                             *)

(* The descent from x: where it ends (hit, if the price is there), the     *)
(* last node on the way, and the last ones turned right and left at.       *)
RECURSIVE Descend(_, _, _)
Descend(t, price, at) ==
  IF at.x = NIL \/ at.x = price THEN at
  ELSE Descend(t, price,
         IF Before(price, at.x) THEN [at EXCEPT !.y = at.x, !.succ = at.x, !.x = t.node[@].left]
         ELSE [at EXCEPT !.y = at.x, !.pred = at.x, !.x = t.node[@].right])

Search(t, price) == Descend(t, price, [x |-> t.root, y |-> NIL, pred |-> NIL, succ |-> NIL])

(* The predecessor of z links to it; without one it is the best.           *)
LinkBest(t, z, pred) == IF pred = NIL THEN [t EXCEPT !.begin = z] ELSE Relink(t, pred, "succ", z)

(* Slip: the successor's link back is forgotten.                           *)
KeepPred(t, z, succ) == t

LinkBack(t, z, succ) == Relink(t, succ, "pred", z)

(* Slip: one level more than the pool has nodes.                           *)
PoolOverdrawn == tree.size > Levels

(* alloc finds the free list empty and throws.                             *)
PoolEmpty == tree.size = Levels

(* try_emplace: the tree as it is when the price is found, or when alloc   *)
(* throws.                                                                 *)
Emplaced(p) ==
  LET at == Search(tree, p)
      t1 == [tree EXCEPT !.node[p] = [Blank EXCEPT !.parent = at.y, !.color = "RED",
                                                   !.pred = at.pred, !.succ = at.succ]]
      t2 == IF at.y = NIL THEN [t1 EXCEPT !.root = p]
            ELSE Relink(t1, at.y, IF Before(p, at.y) THEN "left" ELSE "right", p)
      t3 == LinkBack(LinkBest(t2, p, at.pred), p, at.succ)
  IN  IF at.x = p \/ PoolEmpty THEN tree
      ELSE [InsertFixup(t3, p) EXCEPT !.size = @ + 1]

(* Slip: the colour of the node erased, not of the one that moves.         *)
ErasedColor(t, z, y) == Color(t, z)

(* The colour the tree loses.                                              *)
LostColor(t, z, y) == Color(t, y)

(* What takes the successor's place when it moves up.                      *)
Orphan(t, y) == t.node[y].right

Scrub(t) == [t EXCEPT !.node[NIL].parent = NIL, !.node[NIL].color = "BLACK"]

(* erase.  A node given back is blank again when alloc hands it out.       *)
Erased(p) ==
  LET z  == Search(tree, p).x
      n  == tree.node[z]
      t1 == IF n.pred = NIL THEN [tree EXCEPT !.begin = n.succ] ELSE Relink(tree, n.pred, "succ", n.succ)
      t2 == Relink(t1, n.succ, "pred", n.pred)
      y  == IF n.left = NIL \/ n.right = NIL THEN z ELSE n.succ
      x  == IF n.left = NIL THEN n.right ELSE IF n.right = NIL THEN n.left ELSE Orphan(t2, y)
      lift == [Transplant(t2, y, x) EXCEPT !.node[y].right = n.right, !.node[n.right].parent = y]
      t3 == IF Parent(t2, y) = z THEN [t2 EXCEPT !.node[x].parent = y] ELSE lift
      t4 == IF y = z THEN Transplant(t2, z, x)
            ELSE [Transplant(t3, z, y) EXCEPT !.node[y].left = n.left, !.node[n.left].parent = y,
                                              !.node[y].color = n.color]
      t5 == IF LostColor(t2, z, y) = "BLACK" THEN DeleteFixup(t4, x) ELSE t4
  IN  IF z = NIL THEN tree
      ELSE [Scrub(t5) EXCEPT !.node[z] = Blank, !.size = @ - 1]

TryEmplace(p) == tree' = Emplaced(p)
Erase(p)      == tree' = Erased(p)

Next == /\ \E p \in Prices : TryEmplace(p) \/ Erase(p)
        /\ UNCHANGED before

Spec == Init /\ [][Next]_vars

-----------------------------------------------------------------------------

Index == Prices \cup {NIL}

(* Black height of the subtree at x; -1 when a link, the order of a parent *)
(* and its child, a colour or a height is wrong.                           *)
RECURSIVE CheckNode(_)
CheckNode(x) ==
  LET n == tree.node[x]
      good(d) == /\ n.color = "RED" => Color(tree, n[d]) = "BLACK"
                 /\ n[d] # NIL => /\ Parent(tree, n[d]) = x
                                  /\ IF d = "left" THEN Before(n[d], x) ELSE Before(x, n[d])
      lh == CheckNode(n.left)
      rh == CheckNode(n.right)
  IN  IF x = NIL THEN 1
      ELSE IF ~good("left") \/ ~good("right") \/ lh < 0 \/ lh # rh THEN -1
      ELSE lh + IF n.color = "BLACK" THEN 1 ELSE 0

(* Every tree the operations build is a red-black tree: what validate()    *)
(* tests, black root, no red child of a red node, equal black heights; and *)
(* the sentinel, whose parent delete_fixup borrows, is clean again.        *)
RedBlack ==
  /\ Color(tree, tree.root) = "BLACK" /\ CheckNode(tree.root) >= 0
  /\ tree.node[NIL] = Blank

(* The prices met from begin_ along the successor links.                   *)
Walk(t) ==
  LET n == Cardinality(Index)
      from[k \in 0 .. n, x \in Index] ==
        IF k = 0 \/ x = NIL THEN <<>> ELSE <<x>> \o from[k - 1, t.node[x].succ]
  IN  from[n, t.begin]

(* The neighbour links thread the levels best price first, and backwards,  *)
(* whatever rotations and grafts moved the nodes: begin() is the best      *)
(* price, and serialize_l2 meets every level once, in order.               *)
NeighboursInOrder ==
  LET walk == Walk(tree)
  IN  /\ Len(walk) = tree.size
      /\ \A i \in 1 .. Len(walk) :
           /\ tree.node[walk[i]].pred = IF i = 1 THEN NIL ELSE walk[i - 1]
           /\ i > 1 => Before(walk[i - 1], walk[i])

Keys(t) == Range(Walk(t))

(* The tree and the list agree: a search finds exactly the listed prices.  *)
SearchFindsLevels == \A p \in Prices : (Search(tree, p).x = p) <=> (p \in Keys(tree))

(* The index is what the order book takes it for: whatever price is asked  *)
(* for, try_emplace adds that price and no other unless Levels are there   *)
(* already, erase takes that price and no other away, and what is erased   *)
(* leaves room for another level.                                          *)
IndexIsMap ==
  LET keys == Keys(tree)
  IN  \A p \in Prices :
        /\ Keys(Emplaced(p)) = IF Cardinality(keys) < Levels THEN keys \cup {p} ELSE keys
        /\ Keys(Erased(p)) = keys \ {p}
=============================================================================
