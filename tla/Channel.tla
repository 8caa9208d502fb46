------------------------------ MODULE Channel ------------------------------
(***************************************************************************)
(* What a ring promises to the threads at its ends: a bounded queue that   *)
(* loses, duplicates and invents nothing, and keeps the items of each      *)
(* producer in the order they were sent.  The k-th item of producer p is   *)
(* <<p, k>>, counting from 0.                                              *)
(***************************************************************************)
EXTENDS Integers, Sequences

CONSTANTS Producers, Size

VARIABLES
  queue,      \* the items sent and not yet received, oldest first
  sent,       \* sent[p]: how many items p has sent
  received    \* the last item received, <<>> before the first

Init ==
  /\ queue = <<>>
  /\ sent = [p \in Producers |-> 0]
  /\ received = <<>>

(* Producer p sends its next n items at once.                              *)
Send(p, n) ==
  /\ Len(queue) + n <= Size
  /\ queue' = queue \o [i \in 1 .. n |-> <<p, sent[p] + i - 1>>]
  /\ sent' = [sent EXCEPT ![p] = @ + n]
  /\ UNCHANGED received

Receive ==
  /\ queue # <<>>
  /\ received' = Head(queue)
  /\ queue' = Tail(queue)
  /\ UNCHANGED sent

Next == Receive \/ \E p \in Producers, n \in 1 .. Size : Send(p, n)

Spec == Init /\ [][Next]_<<queue, sent, received>>
=============================================================================
