--------------------------- MODULE PinNodeProofs ---------------------------
(***************************************************************************)
(* TimeOrder holds of a PIN node of any capacity, after any sequence of    *)
(* inserts, removes and resets.                                            *)
(***************************************************************************)
EXTENDS PinNode, TLAPS

(* The orders in a node have distinct stamps, all older than the next one  *)
(* to arrive.                                                              *)
Stamps ==
  /\ \A s \in mask : slots[s] < clock
  /\ \A s, t \in mask : slots[s] = slots[t] => s = t

Inv == TypeOK /\ Stamps /\ TimeOrder

(* Every step keeps the fields of the node in their ranges.                *)
LEMMA TypeOKStep == TypeOK /\ [Next]_vars => TypeOK'
<1> SUFFICES ASSUME TypeOK, [Next]_vars PROVE TypeOK'
  OBVIOUS
<1> USE CapacityAssumption DEF TypeOK, Slot, Link, Nil
<1>1. CASE Reset
  BY <1>1 DEF Reset
<1>2. CASE InsertOrder
  <2>1. clock' \in Nat
    BY <1>2 DEF InsertOrder
  <2>2. CASE mask = Slot
    BY <1>2, <2>1, <2>2 DEF InsertOrder, node
  <2>3. ASSUME NEW s \in Slot, mask' = mask \cup {s}, slots' = [slots EXCEPT ![s] = clock],
               next_in_time' = AppendLink(s),
               prev_in_time' = [prev_in_time EXCEPT ![s] = tail_slot],
               head_slot' = IF tail_slot = Nil THEN s ELSE head_slot, tail_slot' = s
        PROVE  TypeOK'
    BY <2>1, <2>3 DEF AppendLink
  <2> QED BY <1>2, <2>2, <2>3 DEF InsertOrder
<1>3. ASSUME NEW s \in 0 .. Capacity, RemoveOrder(s) PROVE TypeOK'
  BY <1>3 DEF RemoveOrder, UnlinkBack, node
<1>4. CASE UNCHANGED vars
  BY <1>4 DEF vars
<1> QED BY <1>1, <1>2, <1>3, <1>4 DEF Next

(* Stamps only grow: an order gets a stamp no order in the node has.       *)
LEMMA StampsStep == TypeOK /\ Stamps /\ [Next]_vars => Stamps'
<1> SUFFICES ASSUME TypeOK, Stamps, [Next]_vars PROVE Stamps'
  OBVIOUS
<1> USE DEF TypeOK, Stamps
<1>1. CASE Reset
  BY <1>1 DEF Reset
<1>2. CASE InsertOrder
  BY <1>2 DEF InsertOrder, FreeSlot, node
<1>3. ASSUME NEW s \in 0 .. Capacity, RemoveOrder(s) PROVE Stamps'
  BY <1>3 DEF RemoveOrder, node
<1>4. CASE UNCHANGED vars
  BY <1>4 DEF vars
<1> QED BY <1>1, <1>2, <1>3, <1>4 DEF Next

(* insert puts the newest order at the end of the chain.                   *)
LEMMA InsertKeepsOrder ==
  ASSUME Inv, InsertOrder PROVE TimeOrder'
<1>1. CASE mask = Slot
  BY <1>1 DEF InsertOrder, node, Inv, TimeOrder, NextInTime
<1>2. CASE mask # Slot
  <2>1. PICK s \in Slot :
          /\ s \notin mask
          /\ mask' = mask \cup {s}
          /\ slots' = [slots EXCEPT ![s] = clock]
          /\ next_in_time' = AppendLink(s)
          /\ prev_in_time' = [prev_in_time EXCEPT ![s] = tail_slot]
          /\ head_slot' = IF tail_slot = Nil THEN s ELSE head_slot
          /\ tail_slot' = s
    BY <1>2 DEF InsertOrder, FreeSlot
  <2>2. s # Nil /\ Nil \notin mask /\ mask \subseteq Slot
    BY CapacityAssumption DEF Slot, Nil, Inv, TypeOK
  <2>3. /\ slots'[s] = clock /\ \A t \in mask : slots'[t] = slots[t] /\ slots[t] \in Nat
        /\ next_in_time'[s] = Nil
        /\ \A t \in mask : next_in_time'[t] = IF t = tail_slot THEN s ELSE next_in_time[t]
        /\ prev_in_time'[s] = tail_slot /\ \A t \in mask : prev_in_time'[t] = prev_in_time[t]
        /\ clock \in Nat
    BY <2>1, <2>2 DEF AppendLink, Inv, TypeOK
  <2> QED
    BY <2>1, <2>2, <2>3 DEF Inv, TimeOrder, NextInTime, Stamps
<1> QED BY <1>1, <1>2

(* remove takes one order out; the order of the others is not disturbed.   *)
LEMMA RemoveKeepsOrder ==
  ASSUME Inv, NEW s \in 0 .. Capacity, RemoveOrder(s) PROVE TimeOrder'
<1>1. CASE s \notin mask
  BY <1>1 DEF RemoveOrder, node, Inv, TimeOrder, NextInTime
<1>2. CASE s \in mask
  <2>0. PICK p, n : p = prev_in_time[s] /\ n = next_in_time[s]
    OBVIOUS
  <2>1. /\ mask' = mask \ {s} /\ slots' = slots
        /\ next_in_time' = [t \in Slot |-> IF t = p THEN n ELSE next_in_time[t]]
        /\ prev_in_time' = [t \in Slot |-> IF t = n THEN p ELSE prev_in_time[t]]
        /\ head_slot' = IF p = Nil THEN n ELSE head_slot
        /\ tail_slot' = IF n = Nil THEN p ELSE tail_slot
    BY <1>2, <2>0 DEF RemoveOrder, UnlinkBack
  <2>2. Nil \notin mask /\ mask \subseteq Slot /\ \A t \in mask : slots[t] \in Nat
    BY CapacityAssumption DEF Slot, Nil, Inv, TypeOK
  <2>3. \A t \in mask : /\ next_in_time'[t] = IF t = p THEN n ELSE next_in_time[t]
                        /\ prev_in_time'[t] = IF t = n THEN p ELSE prev_in_time[t]
    BY <2>1, <2>2
  <2>4. /\ p = Nil <=> s = head_slot
        /\ n = Nil <=> s = tail_slot
        /\ p # Nil => p \in mask /\ NextInTime(p, s)
        /\ n # Nil => n \in mask /\ NextInTime(s, n)
    BY <1>2, <2>0, <2>2 DEF Inv, TimeOrder
  <2>5. /\ \A t, u \in mask : slots[t] = slots[u] => t = u
        /\ \A t \in mask : slots[head_slot] <= slots[t] /\ slots[t] <= slots[tail_slot]
        /\ head_slot \in mask /\ tail_slot \in mask
        /\ next_in_time[tail_slot] = Nil /\ prev_in_time[head_slot] = Nil
    BY <1>2, <2>2 DEF Inv, TimeOrder, Stamps
  <2>6. \A t \in mask :
          /\ t # tail_slot => next_in_time[t] \in mask /\ NextInTime(t, next_in_time[t])
          /\ t # head_slot => prev_in_time[t] \in mask /\ NextInTime(prev_in_time[t], t)
    BY DEF Inv, TimeOrder
  <2>7. ASSUME NEW t \in mask, NextInTime(t, s) PROVE t = p
    <3>1. p \in mask /\ NextInTime(p, s)
      BY <1>2, <2>2, <2>4, <2>5, <2>7 DEF NextInTime
    <3>2. slots[t] <= slots[p] /\ slots[p] <= slots[t]
      BY <1>2, <2>2, <2>7, <3>1 DEF NextInTime
    <3> QED BY <2>2, <2>5, <3>1, <3>2
  <2>8. ASSUME NEW t \in mask, NextInTime(s, t) PROVE t = n
    <3>1. n \in mask /\ NextInTime(s, n)
      BY <1>2, <2>2, <2>4, <2>5, <2>8 DEF NextInTime
    <3>2. slots[t] <= slots[n] /\ slots[n] <= slots[t]
      BY <1>2, <2>2, <2>8, <3>1 DEF NextInTime
    <3> QED BY <2>2, <2>5, <3>1, <3>2
  <2>10. ASSUME p # Nil, n # Nil PROVE NextInTime(p, n)'
    <3>1. p \in mask /\ n \in mask /\ NextInTime(p, s) /\ NextInTime(s, n)
      BY <2>4, <2>10
    <3>2. ASSUME NEW u \in mask, u # s PROVE slots[u] <= slots[p] \/ slots[n] <= slots[u]
      <4>1. slots[u] # slots[s]
        BY <1>2, <2>5, <3>2
      <4> QED BY <1>2, <2>2, <3>1, <4>1 DEF NextInTime
    <3>3. slots[p] < slots[n]
      BY <1>2, <2>2, <3>1 DEF NextInTime
    <3> QED BY <2>1, <3>2, <3>3 DEF NextInTime
  <2>11. p = Nil /\ n = Nil => mask' = {}
    BY <1>2, <2>1, <2>2, <2>4, <2>5
  <2>12. p # s /\ n # s
    BY <1>2, <2>2, <2>4 DEF NextInTime
  <2>13. /\ mask' # {} => head_slot' \in mask' /\ tail_slot' \in mask'
         /\ mask' = {} => head_slot' = Nil /\ tail_slot' = Nil
    BY <1>2, <2>1, <2>2, <2>4, <2>5, <2>11, <2>12
  <2>14. ASSUME NEW t \in mask' PROVE slots'[head_slot'] <= slots'[t] /\ slots'[t] <= slots'[tail_slot']
    BY <1>2, <2>1, <2>2, <2>4, <2>5 DEF NextInTime
  <2>15. ASSUME NEW t \in mask', t # tail_slot'
         PROVE  next_in_time'[t] \in mask' /\ NextInTime(t, next_in_time[t])'
    <3>1. t \in mask /\ t # s
      BY <2>1
    <3>2. CASE t = p
      <4>1. n \in mask' /\ n # Nil /\ p # Nil /\ next_in_time'[t] = n
        BY <3>1, <3>2, <2>1, <2>2, <2>3, <2>4, <2>12, <2>15
      <4> QED BY <3>2, <4>1, <2>10 DEF NextInTime
    <3>3. CASE t # p
      <4>1. t # tail_slot /\ next_in_time'[t] = next_in_time[t]
        BY <3>1, <3>3, <2>1, <2>3, <2>4, <2>15
      <4>2. next_in_time[t] \in mask' /\ NextInTime(t, next_in_time[t])
        BY <3>1, <3>3, <4>1, <2>1, <2>6, <2>7
      <4>3. NextInTime(t, next_in_time[t])'
        BY <4>1, <4>2, <2>1 DEF NextInTime
      <4> QED BY <4>1, <4>2, <4>3
    <3> QED BY <3>2, <3>3
  <2>16. ASSUME NEW t \in mask', t # head_slot'
         PROVE  prev_in_time'[t] \in mask' /\ NextInTime(prev_in_time[t], t)'
    <3>1. t \in mask /\ t # s
      BY <2>1
    <3>2. CASE t = n
      <4>1. p \in mask' /\ n # Nil /\ p # Nil /\ prev_in_time'[t] = p
        BY <3>1, <3>2, <2>1, <2>2, <2>3, <2>4, <2>12, <2>16
      <4> QED BY <3>2, <4>1, <2>10 DEF NextInTime
    <3>3. CASE t # n
      <4>1. t # head_slot /\ prev_in_time'[t] = prev_in_time[t]
        BY <3>1, <3>3, <2>1, <2>3, <2>4, <2>16
      <4>2. prev_in_time[t] \in mask' /\ NextInTime(prev_in_time[t], t)
        BY <3>1, <3>3, <4>1, <2>1, <2>6, <2>8
      <4>3. NextInTime(prev_in_time[t], t)'
        BY <4>1, <4>2, <2>1 DEF NextInTime
      <4> QED BY <4>1, <4>2, <4>3
    <3> QED BY <3>2, <3>3
  <2>17. /\ tail_slot' # Nil => next_in_time'[tail_slot'] = Nil
         /\ head_slot' # Nil => prev_in_time'[head_slot'] = Nil
    <3>1. n = Nil /\ p # Nil => next_in_time'[p] = Nil
      BY <2>3, <2>4
    <3>2. n # Nil => next_in_time'[tail_slot] = Nil
      <4>1. p # tail_slot
        BY <1>2, <2>2, <2>4, <2>5 DEF NextInTime
      <4> QED BY <2>3, <2>5, <4>1
    <3>3. p = Nil /\ n # Nil => prev_in_time'[n] = Nil
      BY <2>3, <2>4
    <3>4. p # Nil => prev_in_time'[head_slot] = Nil
      <4>1. n # head_slot
        BY <1>2, <2>2, <2>4, <2>5 DEF NextInTime
      <4> QED BY <2>3, <2>5, <4>1
    <3> QED BY <2>1, <3>1, <3>2, <3>3, <3>4
  <2> QED
    BY <2>1, <2>2, <2>13, <2>14, <2>15, <2>16, <2>17 DEF TimeOrder
<1> QED BY <1>1, <1>2

(* The inductive invariant holds of every reachable state.                 *)
THEOREM InvHolds == Spec => []Inv
<1>1. Init => Inv
  BY CapacityAssumption DEF Init, Inv, TypeOK, Stamps, TimeOrder, Slot, Link, Nil
<1>2. Inv /\ [Next]_vars => Inv'
  <2> SUFFICES ASSUME Inv, [Next]_vars PROVE Inv'
    OBVIOUS
  <2>1. TypeOK' /\ Stamps'
    BY TypeOKStep, StampsStep DEF Inv
  <2>2. TimeOrder'
    <3>1. CASE Reset
      BY <3>1 DEF Reset, TimeOrder, Nil
    <3>2. CASE InsertOrder
      BY <3>2, InsertKeepsOrder
    <3>3. ASSUME NEW s \in 0 .. Capacity, RemoveOrder(s) PROVE TimeOrder'
      BY <3>3, RemoveKeepsOrder
    <3>4. CASE UNCHANGED vars
      BY <3>4 DEF vars, Inv, TimeOrder, NextInTime
    <3> QED BY <3>1, <3>2, <3>3, <3>4 DEF Next
  <2> QED BY <2>1, <2>2 DEF Inv
<1> QED BY <1>1, <1>2, PTL DEF Spec

(* Strict time priority inside a node, for every capacity: the head is the *)
(* oldest order, the tail the newest, and the links skip nobody.           *)
THEOREM TimeOrderHolds == Spec => []TimeOrder
<1>1. Inv => TimeOrder
  BY DEF Inv
<1> QED BY <1>1, InvHolds, PTL
=============================================================================
