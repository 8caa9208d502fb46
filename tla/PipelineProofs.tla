--------------------------- MODULE PipelineProofs ---------------------------
(***************************************************************************)
(* For any number of gateways, any ring sizes, marks and orders: what      *)
(* Sequencer::publish promises of the log (JournaledFirst), and that the   *)
(* shutdown cascade of main leaves nothing behind (NothingLeftBehind).     *)
(***************************************************************************)
EXTENDS Pipeline, SequenceTheorems, TLAPS

Order == Gateways \X Nat

InTypes    == inQ \in Seq(Order) /\ inSent \in [Gateways -> Nat] /\ inGot \in Order \cup {<<>>}
IngTypes   == ingQ \in Seq({"sequencer"} \X Nat) /\ ingSent \in [{"sequencer"} -> Nat]
EgTypes    == egQ \in Seq({"matcher"} \X Nat) /\ egSent \in [{"matcher"} -> Nat]
GwTypes    == gpc \in [Gateways -> {"poll", "push", "stopped"}] /\ main \in {"gateways", "threads", "done"}
SeqTypes   == /\ spc \in {"flag", "empty", "batch", "append", "push", "exit"}
              /\ journal \in Seq(Order)
MatchTypes == /\ mpc \in {"flag", "empty", "batch", "publish", "flush", "exit"}
              /\ left \in Nat /\ buf \in Nat /\ emitted \in Nat
PubTypes   == /\ ppc \in {"flag", "empty", "batch", "mark", "flush", "final", "exit"}
              /\ batch \in Nat /\ sent_ \in Nat /\ dropped_ \in Nat

Types ==
  InTypes /\ IngTypes /\ EgTypes /\ GwTypes /\ SeqTypes /\ MatchTypes /\ PubTypes

(* x precedes y: two orders of one gateway come in the order of pushing.   *)
Precedes(x, y) == x[1] = y[1] => x[2] < y[2]

(* The journal, the order in hand and the inbound ring are one stream, in  *)
(* which every gateway's orders are increasing.                            *)
Stream ==
  /\ \A i, j \in DOMAIN journal : i < j => Precedes(journal[i], journal[j])
  /\ \A i, j \in DOMAIN inQ : i < j => Precedes(inQ[i], inQ[j])
  /\ \A i \in DOMAIN journal, j \in DOMAIN inQ : Precedes(journal[i], inQ[j])
  /\ \A j \in DOMAIN inQ : inQ[j][2] < inSent[inQ[j][1]]
  /\ \A i \in DOMAIN journal : journal[i][2] < inSent[journal[i][1]]
  /\ spc = "append" =>
       /\ inGot \in Order
       /\ inGot[2] < inSent[inGot[1]]
       /\ \A i \in DOMAIN journal : Precedes(journal[i], inGot)
       /\ \A j \in DOMAIN inQ : Precedes(inGot, inQ[j])

(* Every order pushed is somewhere in that stream.                         *)
Covered ==
  \A g \in Gateways : \A k \in 0 .. inSent[g] - 1 :
    \/ \E i \in DOMAIN journal : journal[i] = <<g, k>>
    \/ \E j \in DOMAIN inQ : inQ[j] = <<g, k>>
    \/ spc = "append" /\ inGot = <<g, k>>

(* The seq of an order is its place in the journal.                        *)
Logged ==
  /\ Len(journal) = ingSent["sequencer"] + (IF spc = "push" THEN 1 ELSE 0)
  /\ spc = "push" => journal[Len(journal)] = inGot

(* A stage that saw its upstream done sees it done for good, and has left  *)
(* only after finding its ring empty.                                      *)
Drained ==
  /\ main # "gateways" => \A g \in Gateways : gpc[g] = "stopped"
  /\ gateway_stopped => main # "gateways"
  /\ spc = "empty" => gateway_stopped
  /\ sequencer_done => spc = "exit"
  /\ spc = "exit" => gateway_stopped /\ inQ = <<>>
  /\ mpc = "empty" => sequencer_done
  /\ matcher_done => mpc = "exit"
  /\ mpc = "exit" => sequencer_done /\ ingQ = <<>>
  /\ ppc = "empty" => matcher_done
  /\ ppc \in {"final", "exit"} => matcher_done /\ egQ = <<>>
  /\ main = "done" => spc = "exit" /\ mpc = "exit" /\ ppc = "exit"

(* Where the events are: in the sink, the egress ring, the publisher's     *)
(* batch, or out.                                                          *)
Events ==
  /\ emitted = egSent["matcher"] + buf
  /\ egSent["matcher"] = Len(egQ) + batch + sent_ + dropped_
  /\ left > 0 => mpc \in {"batch", "publish"}
  /\ buf > 0 => mpc \in {"batch", "publish", "flush"}
  /\ ppc = "exit" => batch = 0

Inv == Types /\ Stream /\ Covered /\ Logged /\ Drained /\ Events

-----------------------------------------------------------------------------
(* Queues.                                                                 *)

(* A push to the inbound ring appends the gateway's next order.            *)
LEMMA InboundSend ==
  ASSUME Types, NEW g \in Gateways, Inbound!Send(g, 1)
  PROVE  /\ inQ' \in Seq(Order) /\ inSent' \in [Gateways -> Nat] /\ inGot' = inGot
         /\ inSent' = [inSent EXCEPT ![g] = @ + 1]
         /\ Len(inQ') = Len(inQ) + 1
         /\ inQ'[Len(inQ) + 1] = <<g, inSent[g]>>
         /\ \A i \in 1 .. Len(inQ) : inQ'[i] = inQ[i]
<1> DEFINE one == [i \in 1 .. 1 |-> <<g, inSent[g] + i - 1>>]
<1>1. inSent[g] \in Nat /\ inQ \in Seq(Order)
  BY DEF Types, InTypes
<1>2. <<g, inSent[g] + 1 - 1>> = <<g, inSent[g]>> /\ <<g, inSent[g]>> \in Order
  BY <1>1 DEF Order
<1>3. one \in Seq(Order) /\ Len(one) = 1 /\ one[1] = <<g, inSent[g]>>
  BY <1>2
<1>4. inQ' = inQ \o one
  BY DEF Inbound!Send
<1> HIDE DEF one
<1>5. inQ' \in Seq(Order) /\ Len(inQ') = Len(inQ) + 1
  <2>1. inQ \o one \in Seq(Order) /\ Len(inQ \o one) = Len(inQ) + Len(one)
    BY ONLY <1>1, <1>3, ConcatProperties
  <2> QED BY <1>3, <1>4, <2>1
<1>6. inQ'[Len(inQ) + 1] = one[1] /\ \A i \in 1 .. Len(inQ) : inQ'[i] = inQ[i]
  BY ONLY <1>1, <1>3, <1>4, ConcatProperties
<1>7. inSent' = [inSent EXCEPT ![g] = @ + 1] /\ inGot' = inGot
  BY DEF Inbound!Send
<1> QED BY <1>1, <1>3, <1>5, <1>6, <1>7 DEF Types, InTypes

(* The sequencer takes the oldest order of the inbound ring.               *)
LEMMA InboundReceive ==
  ASSUME Types, Inbound!Receive
  PROVE  /\ inQ' \in Seq(Order) /\ inSent' = inSent /\ inGot' \in Order
         /\ Len(inQ) > 0 /\ Len(inQ') = Len(inQ) - 1
         /\ inGot' = inQ[1]
         /\ \A i \in 1 .. Len(inQ') : inQ'[i] = inQ[i + 1]
<1>1. inQ \in Seq(Order) /\ inQ # <<>> /\ inQ' = Tail(inQ) /\ inGot' = Head(inQ) /\ inSent' = inSent
  BY DEF Inbound!Receive, Types, InTypes
<1> QED BY <1>1

(* The other two rings: only how many items are in them matters.           *)
LEMMA IngressSend ==
  ASSUME Types, Ingress!Send("sequencer", 1)
  PROVE  /\ ingQ' \in Seq({"sequencer"} \X Nat) /\ ingSent' \in [{"sequencer"} -> Nat]
         /\ ingSent'["sequencer"] = ingSent["sequencer"] + 1
<1> DEFINE one == [i \in 1 .. 1 |-> <<"sequencer", ingSent["sequencer"] + i - 1>>]
<1>1. ingSent["sequencer"] \in Nat /\ ingQ \in Seq({"sequencer"} \X Nat)
  BY DEF Types, IngTypes
<1>2. one \in Seq({"sequencer"} \X Nat)
  BY <1>1
<1>3. ingQ' = ingQ \o one
  BY DEF Ingress!Send
<1> HIDE DEF one
<1>4. ingQ' \in Seq({"sequencer"} \X Nat)
  BY <1>1, <1>2, <1>3
<1> QED BY <1>1, <1>4 DEF Ingress!Send, Types, IngTypes

LEMMA IngressReceive ==
  ASSUME Types, Ingress!Receive
  PROVE  ingQ' \in Seq({"sequencer"} \X Nat) /\ ingSent' = ingSent /\ ingQ # <<>>
BY DEF Ingress!Receive, Types, IngTypes

LEMMA EgressSend ==
  ASSUME Types, NEW n \in Nat \ {0}, Egress!Send("matcher", n)
  PROVE  /\ egQ' \in Seq({"matcher"} \X Nat) /\ egSent' \in [{"matcher"} -> Nat]
         /\ egSent'["matcher"] = egSent["matcher"] + n
         /\ Len(egQ') = Len(egQ) + n
<1> DEFINE wave == [i \in 1 .. n |-> <<"matcher", egSent["matcher"] + i - 1>>]
<1>1. egSent["matcher"] \in Nat /\ egQ \in Seq({"matcher"} \X Nat)
  BY DEF Types, EgTypes
<1>2. wave \in Seq({"matcher"} \X Nat) /\ Len(wave) = n
  BY <1>1
<1>3. egQ' = egQ \o wave
  BY DEF Egress!Send
<1> HIDE DEF wave
<1>4. egQ' \in Seq({"matcher"} \X Nat) /\ Len(egQ') = Len(egQ) + n
  BY ONLY <1>1, <1>2, <1>3, ConcatProperties
<1> QED BY <1>1, <1>4 DEF Egress!Send, Types, EgTypes

LEMMA EgressReceive ==
  ASSUME Types, Egress!Receive
  PROVE  /\ egQ' \in Seq({"matcher"} \X Nat) /\ egSent' = egSent /\ egQ # <<>>
         /\ Len(egQ') = Len(egQ) - 1
BY DEF Egress!Receive, Types, EgTypes

-----------------------------------------------------------------------------
(* Init and the types.                                                     *)

LEMMA InitInv == Init => Inv
BY DEF Init, Inv, Types, InTypes, IngTypes, EgTypes, GwTypes, SeqTypes, MatchTypes, PubTypes, Stream, Covered, Logged, Drained, Events, Order,
       Inbound!Init, Ingress!Init, Egress!Init

LEMMA ChunkBounds ==
  ASSUME Types, batch > 0 PROVE Chunk \in Nat /\ 0 < Chunk /\ Chunk <= batch
BY SizesAssumption DEF Chunk, Types, PubTypes

(* What a step leaves alone keeps its type.                                *)
LEMMA TypesStay ==
  ASSUME Types
  PROVE  /\ UNCHANGED inbound => InTypes'
         /\ UNCHANGED ingress => IngTypes'
         /\ UNCHANGED egress => EgTypes'
         /\ UNCHANGED gws => GwTypes'
         /\ UNCHANGED seqr => SeqTypes'
         /\ UNCHANGED matcher => MatchTypes'
         /\ UNCHANGED publ => PubTypes'
<1>1. UNCHANGED inbound => InTypes'
  BY DEF Types, InTypes, inbound
<1>2. UNCHANGED ingress => IngTypes'
  BY DEF Types, IngTypes, ingress
<1>3. UNCHANGED egress => EgTypes'
  BY DEF Types, EgTypes, egress
<1>4. UNCHANGED gws => GwTypes'
  BY DEF Types, GwTypes, gws
<1>5. UNCHANGED seqr => SeqTypes'
  BY DEF Types, SeqTypes, seqr
<1>6. UNCHANGED matcher => MatchTypes'
  BY DEF Types, MatchTypes, matcher
<1>7. UNCHANGED publ => PubTypes'
  BY DEF Types, PubTypes, publ
<1> QED BY <1>1, <1>2, <1>3, <1>4, <1>5, <1>6, <1>7

LEMMA TypesStep == Types /\ Stream /\ [Next]_vars => Types'
<1> SUFFICES ASSUME Types, Stream, [Next]_vars PROVE Types'
  OBVIOUS
<1>1. CASE UNCHANGED vars
  <2>1. UNCHANGED <<inbound, ingress, egress, gws, seqr, matcher, publ>>
    BY <1>1 DEF vars, inbound, ingress, egress, gws, seqr, matcher, publ
  <2> QED BY <2>1, TypesStay DEF Types
<1>2. CASE Main
  <2>1. GwTypes'
    BY <1>2 DEF Main, OnSignal, JoinGateways, JoinThreads, Types, GwTypes
  <2>2. UNCHANGED <<inbound, ingress, egress, seqr, matcher, publ>>
    BY <1>2 DEF Main, OnSignal, JoinGateways, JoinThreads
  <2> QED BY <2>1, <2>2, TypesStay DEF Types
<1>3. ASSUME NEW g \in Gateways, Gateway(g) PROVE Types'
  <2>1. GwTypes'
    BY <1>3 DEF Gateway, ParseOrder, PushOrder, StopGateway, Types, GwTypes
  <2>2. UNCHANGED <<ingress, egress, seqr, matcher, publ>>
    BY <1>3 DEF Gateway, ParseOrder, PushOrder, StopGateway
  <2>3. InTypes'
    <3>1. CASE PushOrder(g)
      BY <3>1, InboundSend DEF PushOrder, Types, InTypes
    <3>2. CASE ParseOrder(g) \/ StopGateway(g)
      BY <3>2, TypesStay DEF ParseOrder, StopGateway
    <3> QED BY <1>3, <3>1, <3>2 DEF Gateway
  <2> QED BY <2>1, <2>2, <2>3, TypesStay DEF Types
<1>4. CASE Sequencer
  <2>1. CASE SeqTake
    <3>1. InTypes'
      BY <2>1, InboundReceive DEF SeqTake, Types, InTypes
    <3>2. SeqTypes'
      BY <2>1 DEF SeqTake, AfterStamp, Types, SeqTypes
    <3>3. UNCHANGED <<ingress, egress, gws, matcher, publ>>
      BY <2>1 DEF SeqTake
    <3> QED BY <3>1, <3>2, <3>3, TypesStay DEF Types
  <2>2. CASE SeqAppend
    <3>1. SeqTypes'
      BY <2>2 DEF SeqAppend, Types, SeqTypes, Stream
    <3>2. UNCHANGED <<inbound, ingress, egress, gws, matcher, publ>>
      BY <2>2 DEF SeqAppend
    <3> QED BY <3>1, <3>2, TypesStay DEF Types
  <2>3. CASE SeqPush
    <3>1. IngTypes'
      BY <2>3, IngressSend DEF SeqPush, IngTypes
    <3>2. SeqTypes'
      BY <2>3 DEF SeqPush, Types, SeqTypes
    <3>3. UNCHANGED <<inbound, egress, gws, matcher, publ>>
      BY <2>3 DEF SeqPush
    <3> QED BY <3>1, <3>2, <3>3, TypesStay DEF Types
  <2>4. CASE SeqLoadFlag \/ SeqTest \/ SeqBatchEnds
    <3>1. SeqTypes'
      BY <2>4 DEF SeqLoadFlag, SeqTest, SeqBatchEnds, Types, SeqTypes
    <3>2. UNCHANGED <<inbound, ingress, egress, gws, matcher, publ>>
      BY <2>4 DEF SeqLoadFlag, SeqTest, SeqBatchEnds
    <3> QED BY <3>1, <3>2, TypesStay DEF Types
  <2> QED BY <1>4, <2>1, <2>2, <2>3, <2>4 DEF Sequencer
<1>5. CASE Matcher
  <2>1. CASE MatchTake
    <3>1. IngTypes'
      BY <2>1, IngressReceive DEF MatchTake, Types, IngTypes
    <3>2. MatchTypes'
      BY <2>1, BoundsAssumption DEF MatchTake, Types, MatchTypes
    <3>3. UNCHANGED <<inbound, egress, gws, seqr, publ>>
      BY <2>1 DEF MatchTake
    <3> QED BY <3>1, <3>2, <3>3, TypesStay DEF Types
  <2>2. CASE PublishWave
    <3>1. PICK n \in 1 .. buf : Egress!Send("matcher", n) /\ buf' = buf - n
      BY <2>2 DEF PublishWave
    <3>2. n \in Nat \ {0} /\ buf' \in Nat
      BY <3>1 DEF Types, MatchTypes
    <3>3. EgTypes'
      BY <3>1, <3>2, EgressSend DEF EgTypes
    <3>4. MatchTypes'
      BY <2>2, <3>2 DEF PublishWave, Types, MatchTypes
    <3>5. UNCHANGED <<inbound, ingress, gws, seqr, publ>>
      BY <2>2 DEF PublishWave
    <3> QED BY <3>3, <3>4, <3>5, TypesStay DEF Types
  <2>3. CASE Emit \/ MatchLoadFlag \/ MatchTest \/ MatchBatchEnds \/ PublishDone
    <3>1. CASE Emit
      BY <3>1, TypesStay DEF Emit, Types, MatchTypes
    <3>2. CASE MatchLoadFlag \/ MatchTest
      BY <3>2, TypesStay DEF MatchLoadFlag, MatchTest, Types, MatchTypes
    <3>3. CASE MatchBatchEnds \/ PublishDone
      BY <3>3, TypesStay DEF MatchBatchEnds, PublishDone, AfterBatch, Types, MatchTypes
    <3> QED BY <2>3, <3>1, <3>2, <3>3
  <2> QED BY <1>5, <2>1, <2>2, <2>3 DEF Matcher
<1>6. CASE Publisher
  <2>1. CASE PubTake
    <3>1. EgTypes'
      BY <2>1, EgressReceive DEF PubTake, Types, EgTypes
    <3>2. PubTypes'
      BY <2>1 DEF PubTake, Types, PubTypes
    <3>3. UNCHANGED <<inbound, ingress, gws, seqr, matcher>>
      BY <2>1 DEF PubTake
    <3> QED BY <3>1, <3>2, <3>3, TypesStay DEF Types
  <2>2. CASE SendDatagram
    <3>1. Chunk \in Nat /\ Chunk <= batch
      BY <2>2, ChunkBounds DEF SendDatagram
    <3>2. PubTypes'
      BY <2>2, <3>1 DEF SendDatagram, Types, PubTypes
    <3>3. UNCHANGED <<inbound, ingress, egress, gws, seqr, matcher>>
      BY <2>2 DEF SendDatagram
    <3> QED BY <3>2, <3>3, TypesStay DEF Types
  <2>3. CASE PubLoadFlag \/ PubTest \/ PubBatchEnds \/ FlushDone
    <3>1. PubTypes'
      BY <2>3 DEF PubLoadFlag, PubTest, PubBatchEnds, FlushDone, Types, PubTypes
    <3>2. UNCHANGED <<inbound, ingress, egress, gws, seqr, matcher>>
      BY <2>3 DEF PubLoadFlag, PubTest, PubBatchEnds, FlushDone
    <3> QED BY <3>1, <3>2, TypesStay DEF Types
  <2> QED BY <1>6, <2>1, <2>2, <2>3 DEF Publisher
<1>7. CASE SnapshotThread
  <2>1. GwTypes'
    BY <1>7 DEF SnapshotThread, Types, GwTypes
  <2>2. UNCHANGED <<inbound, ingress, egress, seqr, matcher, publ>>
    BY <1>7 DEF SnapshotThread
  <2> QED BY <2>1, <2>2, TypesStay DEF Types
<1> QED BY <1>1, <1>2, <1>3, <1>4, <1>5, <1>6, <1>7 DEF Next

-----------------------------------------------------------------------------
(* The log and the events.                                                 *)

LEMMA LoggedStep == Inv /\ [Next]_vars => Logged'
<1> SUFFICES ASSUME Types, Logged, Stream, [Next]_vars PROVE Logged'
  BY DEF Inv
<1> USE DEF inbound, ingress, egress, gws, seqr, matcher, publ
<1>1. CASE SeqAppend
  <2>1. inGot \in Order /\ journal \in Seq(Order) /\ journal' = Append(journal, inGot)
    BY <1>1 DEF SeqAppend, Stream, Types, SeqTypes
  <2>2. Len(journal') = Len(journal) + 1 /\ journal'[Len(journal) + 1] = inGot
    BY ONLY <2>1, AppendProperties
  <2>3. Len(journal) \in Nat /\ ingSent["sequencer"] \in Nat
    BY <2>1 DEF Types, IngTypes
  <2>4. Len(journal) = ingSent["sequencer"] /\ spc' = "push" /\ inGot' = inGot /\ ingSent' = ingSent
    BY <1>1, <2>3 DEF SeqAppend, Logged
  <2> QED BY <2>2, <2>3, <2>4 DEF Logged
<1>2. CASE SeqPush
  BY <1>2, IngressSend DEF SeqPush, Logged, Types, IngTypes
<1>3. CASE SeqTake
  BY <1>3 DEF SeqTake, AfterStamp, Logged
<1>4. CASE MatchTake
  BY <1>4, IngressReceive DEF MatchTake, Logged
<1>5. ASSUME NEW g \in Gateways, Gateway(g) PROVE Logged'
  BY <1>5, InboundSend DEF Gateway, ParseOrder, PushOrder, StopGateway, Logged
<1>6. CASE SeqLoadFlag \/ SeqTest \/ SeqBatchEnds
  BY <1>6 DEF SeqLoadFlag, SeqTest, SeqBatchEnds, Logged
<1>7. CASE UNCHANGED vars \/ Main \/ Publisher
  BY <1>7 DEF Main, OnSignal, JoinGateways, JoinThreads, Publisher, PubLoadFlag, PubTest, PubTake,
              PubBatchEnds, SendDatagram, FlushDone, vars, Logged
<1>8. CASE MatchLoadFlag \/ MatchTest \/ Emit \/ PublishWave \/ MatchBatchEnds \/ PublishDone
  BY <1>8 DEF MatchLoadFlag, MatchTest, Emit, PublishWave, MatchBatchEnds, PublishDone, Logged
<1>9. CASE SnapshotThread
  BY <1>9 DEF SnapshotThread, Logged
<1> QED
  BY <1>1, <1>2, <1>3, <1>4, <1>5, <1>6, <1>7, <1>8, <1>9 DEF Next, Sequencer, Matcher

LEMMA EventsStep == Inv /\ [Next]_vars => Events'
<1> SUFFICES ASSUME Types, Events, Drained, [Next]_vars PROVE Events'
  BY DEF Inv
<1> USE DEF inbound, ingress, egress, gws, seqr, matcher, publ
<1>1. CASE PublishWave
  <2>1. PICK n \in 1 .. buf : Egress!Send("matcher", n) /\ buf' = buf - n
    BY <1>1 DEF PublishWave
  <2>2. n \in Nat \ {0}
    BY <2>1 DEF Types, MatchTypes
  <2>3. egSent'["matcher"] = egSent["matcher"] + n /\ Len(egQ') = Len(egQ) + n
    BY <2>1, <2>2, EgressSend
  <2>4. egSent["matcher"] \in Nat /\ Len(egQ) \in Nat
    BY DEF Types, EgTypes
  <2>5. /\ mpc \in {"publish", "flush"} /\ buf > 0
        /\ mpc' = mpc /\ left' = left /\ emitted' = emitted
        /\ ppc' = ppc /\ batch' = batch /\ sent_' = sent_ /\ dropped_' = dropped_
    BY <1>1 DEF PublishWave
  <2>6. emitted' = egSent'["matcher"] + buf'
    BY <2>1, <2>2, <2>3, <2>4, <2>5 DEF Events, Types, MatchTypes
  <2>7. egSent'["matcher"] = Len(egQ') + batch' + sent_' + dropped_'
    BY <2>2, <2>3, <2>4, <2>5 DEF Events, Types, PubTypes
  <2> QED BY <2>5, <2>6, <2>7 DEF Events
<1>2. CASE PubTake
  <2>1. Len(egQ') = Len(egQ) - 1 /\ egSent' = egSent /\ Len(egQ) \in Nat
    BY <1>2, EgressReceive DEF PubTake, Types, EgTypes
  <2> QED BY <1>2, <2>1 DEF PubTake, Events, Types, PubTypes
<1>3. CASE SendDatagram
  <2>1. Len(egQ) \in Nat /\ Chunk \in Nat
    BY <1>3, ChunkBounds DEF SendDatagram, Types, EgTypes
  <2> QED BY <1>3, <2>1 DEF SendDatagram, Events, Types, PubTypes
<1>4. CASE Emit
  <2>1. egSent["matcher"] \in Nat
    BY DEF Types, EgTypes
  <2> QED BY <1>4, <2>1 DEF Emit, Events, Types, MatchTypes
<1>5. CASE MatchTake
  BY <1>5, BoundsAssumption DEF MatchTake, Events, Types, MatchTypes
<1>6. CASE MatchLoadFlag \/ MatchTest \/ MatchBatchEnds \/ PublishDone
  <2>1. /\ emitted' = emitted /\ egSent' = egSent /\ buf' = buf /\ egQ' = egQ /\ left' = left
        /\ batch' = batch /\ sent_' = sent_ /\ dropped_' = dropped_ /\ ppc' = ppc
    BY <1>6 DEF MatchLoadFlag, MatchTest, MatchBatchEnds, PublishDone
  <2>2. left \in Nat /\ buf \in Nat
    BY DEF Types, MatchTypes
  <2>3. CASE mpc \in {"flag", "empty"}
    <3>1. ~(left > 0) /\ ~(buf > 0)
      BY <2>3 DEF Events
    <3> QED BY <2>1, <3>1 DEF Events
  <2>4. CASE MatchBatchEnds
    BY <2>1, <2>2, <2>4 DEF MatchBatchEnds, AfterBatch, Events
  <2>5. CASE PublishDone
    BY <2>1, <2>2, <2>5 DEF PublishDone, Events
  <2> QED BY <1>6, <2>3, <2>4, <2>5 DEF MatchLoadFlag, MatchTest
<1>7. CASE PubLoadFlag \/ PubTest \/ PubBatchEnds \/ FlushDone
  BY <1>7 DEF PubLoadFlag, PubTest, PubBatchEnds, FlushDone, Events, Types, PubTypes
<1>8. CASE UNCHANGED vars \/ Main \/ Sequencer
  BY <1>8 DEF Main, OnSignal, JoinGateways, JoinThreads, Sequencer, SeqLoadFlag, SeqTest, SeqTake,
              SeqAppend, SeqPush, SeqBatchEnds, vars, Events
<1>9. ASSUME NEW g \in Gateways, Gateway(g) PROVE Events'
  BY <1>9 DEF Gateway, ParseOrder, PushOrder, StopGateway, Events
<1>10. CASE SnapshotThread
  BY <1>10 DEF SnapshotThread, Events
<1> QED
  BY <1>1, <1>2, <1>3, <1>4, <1>5, <1>6, <1>7, <1>8, <1>9, <1>10 DEF Next, Matcher, Publisher

-----------------------------------------------------------------------------
(* The shutdown cascade.                                                   *)

LEMMA DrainedStep == Inv /\ [Next]_vars => Drained'
<1> SUFFICES ASSUME Types, Drained, [Next]_vars PROVE Drained'
  BY DEF Inv
<1> USE DEF inbound, ingress, egress, gws, seqr, matcher, publ
<1>1. CASE UNCHANGED vars
  BY <1>1 DEF vars, Drained
<1>2. CASE Main
  <2>1. CASE OnSignal
    BY <2>1 DEF OnSignal, Drained
  <2>2. CASE JoinGateways
    BY <2>2 DEF JoinGateways, AllStopped, Drained
  <2>3. CASE JoinThreads
    BY <2>3 DEF JoinThreads, Drained
  <2> QED BY <1>2, <2>1, <2>2, <2>3 DEF Main
<1>3. ASSUME NEW g \in Gateways, Gateway(g) PROVE Drained'
  <2>1. main = "gateways" \/ StopGateway(g)
    BY <1>3 DEF Gateway, ParseOrder, PushOrder, Drained
  <2>2. CASE StopGateway(g)
    BY <2>2 DEF StopGateway, Drained, Types, GwTypes
  <2>3. CASE ParseOrder(g)
    BY <2>1, <2>3 DEF ParseOrder, StopGateway, Drained
  <2>4. CASE PushOrder(g)
    BY <2>1, <2>4 DEF PushOrder, StopGateway, Drained
  <2> QED BY <1>3, <2>2, <2>3, <2>4 DEF Gateway
<1>4. CASE Sequencer
  <2>1. CASE SeqTest
    BY <2>1 DEF SeqTest, Empty, Drained
  <2>2. CASE SeqPush
    BY <2>2 DEF SeqPush, Drained
  <2>3. CASE SeqTake
    BY <2>3 DEF SeqTake, AfterStamp, Drained
  <2>4. CASE SeqAppend
    BY <2>4 DEF SeqAppend, Drained
  <2>5. CASE SeqLoadFlag
    BY <2>5 DEF SeqLoadFlag, Drained
  <2>6. CASE SeqBatchEnds
    BY <2>6 DEF SeqBatchEnds, Drained
  <2> QED BY <1>4, <2>1, <2>2, <2>3, <2>4, <2>5, <2>6 DEF Sequencer
<1>5. CASE Matcher
  <2>1. CASE MatchTest
    BY <2>1 DEF MatchTest, Empty, Drained
  <2>2. CASE PublishWave
    BY <2>2 DEF PublishWave, Drained
  <2>3. CASE MatchTake
    BY <2>3 DEF MatchTake, Drained
  <2>4. CASE Emit
    BY <2>4 DEF Emit, Drained
  <2>5. CASE MatchLoadFlag
    BY <2>5 DEF MatchLoadFlag, Drained
  <2>6. CASE MatchBatchEnds
    BY <2>6 DEF MatchBatchEnds, AfterBatch, Drained
  <2>7. CASE PublishDone
    BY <2>7 DEF PublishDone, Drained
  <2> QED BY <1>5, <2>1, <2>2, <2>3, <2>4, <2>5, <2>6, <2>7 DEF Matcher
<1>6. CASE Publisher
  <2>1. CASE PubTest
    BY <2>1 DEF PubTest, Empty, Drained
  <2>2. CASE PubTake
    BY <2>2 DEF PubTake, Drained
  <2>3. CASE SendDatagram
    BY <2>3 DEF SendDatagram, Drained
  <2>4. CASE FlushDone
    BY <2>4 DEF FlushDone, Drained
  <2>5. CASE PubLoadFlag
    BY <2>5 DEF PubLoadFlag, Drained
  <2>6. CASE PubBatchEnds
    BY <2>6 DEF PubBatchEnds, Drained
  <2> QED BY <1>6, <2>1, <2>2, <2>3, <2>4, <2>5, <2>6 DEF Publisher
<1>7. CASE SnapshotThread
  BY <1>7 DEF SnapshotThread, Drained
<1> QED BY <1>1, <1>2, <1>3, <1>4, <1>5, <1>6, <1>7 DEF Next

-----------------------------------------------------------------------------
(* The stream of orders.                                                   *)

(* Only a push, a take and an append touch it.                             *)
LEMMA StreamStays ==
  ASSUME [Next]_vars, ~SeqTake, ~SeqAppend, \A g \in Gateways : ~PushOrder(g)
  PROVE  /\ UNCHANGED <<journal, inQ, inSent, inGot>>
         /\ spc' = "append" <=> spc = "append"
<1> USE DEF inbound, ingress, egress, gws, seqr, matcher, publ
<1>1. CASE UNCHANGED vars \/ Main \/ SnapshotThread
  BY <1>1 DEF vars, Main, OnSignal, JoinGateways, JoinThreads, SnapshotThread
<1>2. ASSUME NEW g \in Gateways, ParseOrder(g) \/ StopGateway(g)
      PROVE  UNCHANGED <<journal, inQ, inSent, inGot>> /\ (spc' = "append" <=> spc = "append")
  BY <1>2 DEF ParseOrder, StopGateway
<1>3. CASE SeqLoadFlag \/ SeqTest \/ SeqPush \/ SeqBatchEnds
  BY <1>3 DEF SeqLoadFlag, SeqTest, SeqPush, SeqBatchEnds
<1>4. CASE Matcher
  BY <1>4 DEF Matcher, MatchLoadFlag, MatchTest, MatchTake, Emit, PublishWave, MatchBatchEnds, PublishDone
<1>5. CASE Publisher
  BY <1>5 DEF Publisher, PubLoadFlag, PubTest, PubTake, PubBatchEnds, SendDatagram, FlushDone
<1> QED BY <1>1, <1>2, <1>3, <1>4, <1>5 DEF Next, Gateway, Sequencer

LEMMA PushStep ==
  ASSUME Types, Stream, Covered, NEW g \in Gateways, PushOrder(g)
  PROVE  Stream' /\ Covered'
<1>1. /\ inSent' = [inSent EXCEPT ![g] = @ + 1] /\ inGot' = inGot
      /\ inQ' \in Seq(Order) /\ Len(inQ') = Len(inQ) + 1
      /\ inQ'[Len(inQ) + 1] = <<g, inSent[g]>>
      /\ \A i \in 1 .. Len(inQ) : inQ'[i] = inQ[i]
  BY InboundSend DEF PushOrder
<1>2. journal' = journal /\ spc' = spc
  BY DEF PushOrder, seqr
<1>3. inQ \in Seq(Order) /\ journal \in Seq(Order) /\ inSent \in [Gateways -> Nat]
  BY DEF Types, InTypes, SeqTypes
<1>4. DOMAIN inQ = 1 .. Len(inQ) /\ DOMAIN inQ' = 1 .. Len(inQ) + 1 /\ Len(inQ) \in Nat
  BY ONLY <1>1, <1>3
<1>5. \A j \in DOMAIN inQ' : (j \in DOMAIN inQ /\ inQ'[j] = inQ[j])
                               \/ (j = Len(inQ) + 1 /\ inQ'[j] = <<g, inSent[g]>>)
  BY ONLY <1>1, <1>4
<1>6. \A j \in DOMAIN inQ : j \in DOMAIN inQ' /\ inQ'[j] = inQ[j] /\ j < Len(inQ) + 1
  BY ONLY <1>1, <1>4
<1>7. Len(inQ) + 1 \in DOMAIN inQ' /\ inQ'[Len(inQ) + 1] = <<g, inSent[g]>>
  BY ONLY <1>1, <1>4
<1>8. \A h \in Gateways : inSent'[h] \in Nat /\ inSent[h] <= inSent'[h] /\ inSent'[g] = inSent[g] + 1
  <2>1. inSent' = [inSent EXCEPT ![g] = @ + 1] /\ inSent \in [Gateways -> Nat]
    BY <1>1, <1>3
  <2> QED BY ONLY <2>1, g \in Gateways
<1>9. \A x \in Order : x[2] < inSent[x[1]] => x[2] < inSent'[x[1]] /\ Precedes(x, <<g, inSent[g]>>)
  BY <1>3, <1>8 DEF Order, Precedes
<1>10. \A i \in DOMAIN journal : journal[i] \in Order
  BY <1>3
<1>11. \A j \in DOMAIN inQ : inQ[j] \in Order
  BY <1>3
<1>12. Stream'
  <2>1. \A i, j \in DOMAIN inQ' : i < j => Precedes(inQ'[i], inQ'[j])
    <3> SUFFICES ASSUME NEW i \in DOMAIN inQ', NEW j \in DOMAIN inQ', i < j
                 PROVE  Precedes(inQ'[i], inQ'[j])
      OBVIOUS
    <3>1. i # Len(inQ) + 1
      BY <1>4
    <3>2. i \in DOMAIN inQ /\ inQ'[i] = inQ[i]
      BY <1>5, <3>1
    <3>3. CASE inQ'[j] = <<g, inSent[g]>>
      BY <1>9, <1>11, <3>2, <3>3 DEF Stream
    <3>4. CASE j \in DOMAIN inQ /\ inQ'[j] = inQ[j]
      BY <3>2, <3>4 DEF Stream
    <3> QED BY <1>5, <3>3, <3>4
  <2>2. \A x \in Order : x[2] < inSent[x[1]] =>
          ((\A j \in DOMAIN inQ : Precedes(x, inQ[j])) => \A j \in DOMAIN inQ' : Precedes(x, inQ'[j]))
    BY <1>9, <1>5
  <2>3. \A i \in DOMAIN journal, j \in DOMAIN inQ' : Precedes(journal[i], inQ'[j])
    BY <1>10, <2>2 DEF Stream
  <2>4. \A j \in DOMAIN inQ' : inQ'[j][2] < inSent'[inQ'[j][1]]
    <3> SUFFICES ASSUME NEW j \in DOMAIN inQ' PROVE inQ'[j][2] < inSent'[inQ'[j][1]]
      OBVIOUS
    <3>1. CASE inQ'[j] = <<g, inSent[g]>>
      <4>1. inSent[g] \in Nat /\ inSent[g] < inSent'[g]
        BY <1>3, <1>8
      <4> QED BY <3>1, <4>1
    <3>2. CASE j \in DOMAIN inQ /\ inQ'[j] = inQ[j]
      BY <1>9, <1>11, <3>2 DEF Stream
    <3> QED BY <1>5, <3>1, <3>2
  <2>5. \A i \in DOMAIN journal : journal[i][2] < inSent'[journal[i][1]]
    BY <1>9, <1>10 DEF Stream
  <2>6. spc = "append" => /\ inGot \in Order
                          /\ inGot[2] < inSent'[inGot[1]]
                          /\ \A i \in DOMAIN journal : Precedes(journal[i], inGot)
                          /\ \A j \in DOMAIN inQ' : Precedes(inGot, inQ'[j])
    BY <1>9, <2>2 DEF Stream
  <2> QED BY <1>1, <1>2, <2>1, <2>3, <2>4, <2>5, <2>6 DEF Stream
<1>13. Covered'
  <2> SUFFICES ASSUME NEW h \in Gateways, NEW k \in 0 .. inSent'[h] - 1
               PROVE  \/ \E i \in DOMAIN journal : journal[i] = <<h, k>>
                      \/ \E j \in DOMAIN inQ' : inQ'[j] = <<h, k>>
                      \/ spc = "append" /\ inGot = <<h, k>>
    BY <1>1, <1>2 DEF Covered
  <2>1. CASE h = g /\ k = inSent[g]
    BY <1>7, <2>1
  <2>2. CASE k \in 0 .. inSent[h] - 1
    BY <1>6, <2>2 DEF Covered
  <2>3. k \in 0 .. inSent[h] - 1 \/ (h = g /\ k = inSent[g])
    <3>1. inSent[h] \in Nat /\ inSent'[h] = IF h = g THEN inSent[h] + 1 ELSE inSent[h]
      BY <1>1, <1>3
    <3> QED BY ONLY <3>1, k \in 0 .. inSent'[h] - 1
  <2> QED BY <2>1, <2>2, <2>3
<1> QED BY <1>12, <1>13

LEMMA TakeStep ==
  ASSUME Types, Stream, Covered, SeqTake
  PROVE  Stream' /\ Covered'
<1>1. /\ inSent' = inSent /\ inQ' \in Seq(Order) /\ inGot' \in Order
      /\ Len(inQ) > 0 /\ Len(inQ') = Len(inQ) - 1 /\ inGot' = inQ[1]
      /\ \A i \in 1 .. Len(inQ') : inQ'[i] = inQ[i + 1]
  BY InboundReceive DEF SeqTake
<1>2. journal' = journal /\ spc = "batch" /\ spc' = "append"
  BY DEF SeqTake, AfterStamp
<1>3. /\ inQ \in Seq(Order) /\ DOMAIN inQ = 1 .. Len(inQ) /\ DOMAIN inQ' = 1 .. Len(inQ) - 1
      /\ Len(inQ) \in Nat
  BY <1>1 DEF Types, InTypes
<1>4. Stream'
  <2>1. \A i \in DOMAIN inQ' : i + 1 \in DOMAIN inQ /\ inQ'[i] = inQ[i + 1] /\ 1 < i + 1
    BY <1>1, <1>3
  <2>2. 1 \in DOMAIN inQ
    BY <1>1, <1>3
  <2>3. \A i, j \in DOMAIN inQ' : i < j => i + 1 < j + 1
    BY <1>3
  <2>4. \A i, j \in DOMAIN inQ' : i < j => Precedes(inQ'[i], inQ'[j])
    BY <2>1, <2>3 DEF Stream
  <2>5. \A i \in DOMAIN journal, j \in DOMAIN inQ' : Precedes(journal[i], inQ'[j])
    BY <2>1 DEF Stream
  <2>6. \A j \in DOMAIN inQ' : inQ'[j][2] < inSent[inQ'[j][1]] /\ Precedes(inQ[1], inQ'[j])
    BY <2>1, <2>2 DEF Stream
  <2>7. inQ[1][2] < inSent[inQ[1][1]] /\ \A i \in DOMAIN journal : Precedes(journal[i], inQ[1])
    BY <2>2 DEF Stream
  <2> QED BY <1>1, <1>2, <2>4, <2>5, <2>6, <2>7 DEF Stream
<1>5. Covered'
  <2> SUFFICES ASSUME NEW g \in Gateways, NEW k \in 0 .. inSent[g] - 1
               PROVE  \/ \E i \in DOMAIN journal : journal[i] = <<g, k>>
                      \/ \E j \in DOMAIN inQ' : inQ'[j] = <<g, k>>
                      \/ inQ[1] = <<g, k>>
    BY <1>1, <1>2 DEF Covered
  <2>1. CASE \E i \in DOMAIN journal : journal[i] = <<g, k>>
    BY <2>1
  <2>2. ASSUME NEW j \in DOMAIN inQ, inQ[j] = <<g, k>>, j # 1
        PROVE  \E i \in DOMAIN inQ' : inQ'[i] = <<g, k>>
    <3>1. j - 1 \in 1 .. Len(inQ') /\ inQ'[j - 1] = inQ[j]
      BY <1>1, <1>3, <2>2
    <3> QED BY <1>1, <1>3, <2>2, <3>1
  <2> QED BY <1>2, <2>1, <2>2 DEF Covered
<1> QED BY <1>4, <1>5

LEMMA AppendStep ==
  ASSUME Types, Stream, Covered, SeqAppend
  PROVE  Stream' /\ Covered'
<1>1. /\ inQ' = inQ /\ inSent' = inSent /\ inGot' = inGot
      /\ spc = "append" /\ spc' = "push" /\ journal' = Append(journal, inGot)
  BY DEF SeqAppend, inbound
<1>2. inGot \in Order /\ journal \in Seq(Order) /\ inQ \in Seq(Order)
  BY <1>1 DEF Stream, Types, InTypes, SeqTypes
<1>3. /\ journal' \in Seq(Order) /\ Len(journal') = Len(journal) + 1
      /\ \A i \in 1 .. Len(journal) : journal'[i] = journal[i]
      /\ journal'[Len(journal) + 1] = inGot
  BY ONLY <1>1, <1>2, AppendProperties
<1>4. DOMAIN journal = 1 .. Len(journal) /\ DOMAIN journal' = 1 .. Len(journal) + 1 /\ Len(journal) \in Nat
  BY <1>2, <1>3
<1>5. \A i \in DOMAIN journal' : (i \in DOMAIN journal /\ journal'[i] = journal[i])
                                  \/ (i = Len(journal) + 1 /\ journal'[i] = inGot)
  BY ONLY <1>3, <1>4
<1>6. Stream'
  <2>1. \A i, j \in DOMAIN journal' : i < j => Precedes(journal'[i], journal'[j])
    <3> SUFFICES ASSUME NEW i \in DOMAIN journal', NEW j \in DOMAIN journal', i < j
                 PROVE  Precedes(journal'[i], journal'[j])
      OBVIOUS
    <3>1. i \in DOMAIN journal /\ journal'[i] = journal[i]
      BY <1>4, <1>5
    <3> QED BY <1>1, <1>5, <3>1 DEF Stream
  <2> QED BY <1>1, <1>5, <2>1 DEF Stream
<1>7. Covered'
  <2>1. \A i \in DOMAIN journal : i \in DOMAIN journal' /\ journal'[i] = journal[i]
    BY ONLY <1>3, <1>4
  <2>2. \E i \in DOMAIN journal' : journal'[i] = inGot
    BY <1>3, <1>4
  <2> QED BY <1>1, <2>1, <2>2 DEF Covered
<1> QED BY <1>6, <1>7

LEMMA StreamStep == Inv /\ [Next]_vars => Stream' /\ Covered'
<1> SUFFICES ASSUME Types, Stream, Covered, [Next]_vars PROVE Stream' /\ Covered'
  BY DEF Inv
<1>1. CASE SeqTake \/ SeqAppend \/ \E g \in Gateways : PushOrder(g)
  BY <1>1, TakeStep, AppendStep, PushStep
<1>2. CASE ~SeqTake /\ ~SeqAppend /\ \A g \in Gateways : ~PushOrder(g)
  <2>1. UNCHANGED <<journal, inQ, inSent, inGot>> /\ (spc' = "append" <=> spc = "append")
    BY <1>2, StreamStays
  <2> QED BY <2>1 DEF Stream, Covered
<1> QED BY <1>1, <1>2

-----------------------------------------------------------------------------
(* The properties.                                                         *)

(* The invariant the results below rest on: publish logs and pushes in     *)
(* step, no order leaves the stream, and each stage of the cascade ends    *)
(* after the one before it with its ring empty.                            *)
THEOREM InvHolds == Spec => []Inv
<1>1. Inv /\ [Next]_vars => Inv'
  BY TypesStep, StreamStep, LoggedStep, DrainedStep, EventsStep DEF Inv
<1> QED BY InitInv, <1>1, PTL DEF Spec

(* The gap-free part of JournaledFirst: an earlier order of the gateway of *)
(* a journaled one is neither in hand nor in the ring any more.            *)
LEMMA NoGaps ==
  ASSUME Types, Stream, Covered, NEW j \in DOMAIN journal, NEW k \in 0 .. journal[j][2] - 1
  PROVE  \E i \in 1 .. j - 1 : journal[i] = <<journal[j][1], k>>
<1> DEFINE g == journal[j][1]
<1>0. journal[j] \in Order /\ inSent \in [Gateways -> Nat]
  BY DEF Types, InTypes, SeqTypes
<1>1. g \in Gateways /\ journal[j][2] \in Nat /\ inSent[g] \in Nat /\ journal[j][2] < inSent[g]
  BY <1>0 DEF Order, Stream
<1>2. k \in 0 .. inSent[g] - 1 /\ k < journal[j][2]
  <2> DEFINE n == journal[j][2]
             m == inSent[g]
  <2>1. n \in Nat /\ m \in Nat /\ n < m /\ k \in 0 .. n - 1
    BY <1>1
  <2> HIDE DEF n, m
  <2>2. k \in 0 .. m - 1 /\ k < n
    BY ONLY <2>1
  <2> QED BY ONLY <2>2 DEF n, m
<1>3. <<g, k>>[1] = g /\ <<g, k>>[2] = k
  OBVIOUS
<1>4. ~Precedes(journal[j], <<g, k>>)
  BY ONLY <1>1, <1>2, <1>3, k \in 0 .. journal[j][2] - 1 DEF Precedes
<1>5. \E i \in DOMAIN journal : journal[i] = <<g, k>>
  BY <1>1, <1>2, <1>4 DEF Covered, Stream
<1>6. PICK i \in DOMAIN journal : journal[i] = <<g, k>>
  BY <1>5
<1>7. ~(j < i)
  BY <1>4, <1>6 DEF Stream
<1>8. i # j
  <2> SUFFICES ASSUME i = j PROVE FALSE
    OBVIOUS
  <2>1. journal[j][2] = k
    BY ONLY <1>3, <1>6, i = j
  <2> QED BY ONLY <1>1, <1>2, <2>1, k \in 0 .. journal[j][2] - 1
<1>9. i \in 1 .. j - 1
  <2>1. journal \in Seq(Order)
    BY DEF Types, SeqTypes
  <2>2. DOMAIN journal = 1 .. Len(journal) /\ Len(journal) \in Nat
    BY ONLY <2>1
  <2> QED BY ONLY <1>7, <1>8, <2>2, i \in DOMAIN journal, j \in DOMAIN journal
<1> QED BY <1>6, <1>9

(* publish writes ahead, once and in the order of matching, for any number *)
(* of gateways racing into the inbound ring.                               *)
THEOREM JournaledFirstHolds == Spec => []JournaledFirst
<1>1. Inv => JournaledFirst
  BY NoGaps DEF Inv, Logged, Stream, Precedes, JournaledFirst
<1> QED BY <1>1, InvHolds, PTL

(* After the shutdown cascade of main, however full the rings were when    *)
(* the signal came, every order was journaled and matched and every event  *)
(* went out or was counted as dropped.                                     *)
THEOREM NothingLeftBehindHolds == Spec => []NothingLeftBehind
<1>1. ASSUME Inv, main = "done" PROVE NothingLeftBehind
  <2>1. /\ spc = "exit" /\ mpc = "exit" /\ ppc = "exit"
        /\ inQ = <<>> /\ ingQ = <<>> /\ egQ = <<>>
    BY <1>1 DEF Inv, Drained
  <2>2. left = 0 /\ buf = 0 /\ batch = 0
    BY <1>1, <2>1 DEF Inv, Events, Types, MatchTypes
  <2>3. \A g \in Gateways : \A k \in 0 .. inSent[g] - 1 :
          \E i \in DOMAIN journal : journal[i] = <<g, k>>
    <3>1. Covered
      BY <1>1 DEF Inv
    <3> QED BY ONLY <2>1, <3>1 DEF Covered
  <2>4. Len(journal) = ingSent["sequencer"]
    BY <1>1, <2>1 DEF Inv, Logged, Types, IngTypes
  <2>5. sent_ + dropped_ = emitted
    BY <1>1, <2>1, <2>2 DEF Inv, Events, Types, EgTypes, PubTypes
  <2> QED BY <2>1, <2>2, <2>3, <2>4, <2>5 DEF NothingLeftBehind
<1>2. Inv => NothingLeftBehind
  BY <1>1 DEF NothingLeftBehind
<1> QED BY <1>2, InvHolds, PTL

=============================================================================
