------------------------------ MODULE Pipeline ------------------------------
(***************************************************************************)
(* The server: gateway threads, the sequencer, the matcher and the trade   *)
(* publisher, joined by three rings, the snapshot thread beside them, and  *)
(* main with its shutdown cascade.                                         *)
(* A ring is the Channel it was shown to implement (MpscRing, SpscRing);   *)
(* the wait for room in one is a step that is not enabled yet.             *)
(*                                                                         *)
(* Orders are abstracted to where they come from, <<gateway, k>>, and then *)
(* to their seq; how many events an order causes is the Matcher module's   *)
(* business and arbitrary here.                                            *)
(***************************************************************************)
EXTENDS Integers, Sequences, FiniteSets, Functions

CONSTANTS
  Gateways,
  InboundSize, IngressSize, EgressSize,   \* RING_MPSC, RING_IN, RING_OUT
  HWM,          \* EgressSink::HWM
  PubHWM,       \* PUB_HWM
  PerDatagram,  \* TRADES_PER_DGRAM
  MaxOrders,    \* bound on the orders of all gateways
  MaxEvents     \* bound on the events of one order

ASSUME SizesAssumption ==
  {InboundSize, IngressSize, EgressSize, HWM, PubHWM, PerDatagram} \subseteq Nat \ {0}
ASSUME BoundsAssumption == MaxOrders \in Nat /\ MaxEvents \in Nat

VARIABLES
  inQ, inSent, inGot,      \* the inbound MPSC ring
  ingQ, ingSent, ingGot,   \* the ingress ring
  egQ, egSent, egGot,      \* the egress ring
  signalled,               \* SIGINT or SIGTERM arrived: every gateway is told to stop
  gpc,                     \* gpc[g]: "poll", "push", "stopped"
  main,                    \* what main waits for: "gateways", "threads", "done"
  snap,                    \* snapshot thread: "loop", "exit"
  gateway_stopped, sequencer_done, matcher_done,
  spc,                     \* sequencer
  journal,                 \* the WAL: record i is journal[i + 1]
  mpc,                     \* matcher
  left,                    \* events the order being matched will still cause
  buf,                     \* EgressSink::buf: how many events it holds
  emitted,                 \* events emitted so far
  ppc,                     \* publisher
  batch,                   \* events it holds
  sent_, dropped_          \* UdpPublisher: events sent, and events dropped

inbound == <<inQ, inSent, inGot>>
ingress == <<ingQ, ingSent, ingGot>>
egress  == <<egQ, egSent, egGot>>
gws     == <<signalled, gpc, main, snap, gateway_stopped>>
seqr    == <<spc, journal, sequencer_done>>
matcher == <<mpc, left, buf, emitted, matcher_done>>
publ    == <<ppc, batch, sent_, dropped_>>
vars == <<inQ, inSent, inGot, ingQ, ingSent, ingGot, egQ, egSent, egGot, signalled, gpc,
          main, snap, gateway_stopped, sequencer_done, matcher_done, spc, journal, mpc,
          left, buf, emitted, ppc, batch, sent_, dropped_>>

Inbound == INSTANCE Channel WITH Producers <- Gateways, Size <- InboundSize,
             queue <- inQ, sent <- inSent, received <- inGot
Ingress == INSTANCE Channel WITH Producers <- {"sequencer"}, Size <- IngressSize,
             queue <- ingQ, sent <- ingSent, received <- ingGot
Egress  == INSTANCE Channel WITH Producers <- {"matcher"}, Size <- EgressSize,
             queue <- egQ, sent <- egSent, received <- egGot

Init ==
  /\ Inbound!Init /\ Ingress!Init /\ Egress!Init
  /\ signalled = FALSE /\ gpc = [g \in Gateways |-> "poll"] /\ main = "gateways"
  /\ snap = "loop" /\ gateway_stopped = FALSE /\ sequencer_done = FALSE /\ matcher_done = FALSE
  /\ spc = "flag" /\ journal = <<>>
  /\ mpc = "flag" /\ left = 0 /\ buf = 0 /\ emitted = 0
  /\ ppc = "flag" /\ batch = 0 /\ sent_ = 0 /\ dropped_ = 0

-----------------------------------------------------------------------------
(* Gateways and main.                                                      *)

(* A complete order was parsed.                                            *)
ParseOrder(g) ==
  /\ gpc[g] = "poll"
  /\ SumFunction(inSent) + Cardinality({h \in Gateways : gpc[h] = "push"}) < MaxOrders
  /\ gpc' = [gpc EXCEPT ![g] = "push"]
  /\ UNCHANGED <<inbound, ingress, egress, signalled, main, snap, gateway_stopped, seqr, matcher, publ>>

(* push: try_publish to the inbound ring succeeds.                         *)
PushOrder(g) ==
  /\ gpc[g] = "push"
  /\ Inbound!Send(g, 1)
  /\ gpc' = [gpc EXCEPT ![g] = "poll"]
  /\ UNCHANGED <<ingress, egress, signalled, main, snap, gateway_stopped, seqr, matcher, publ>>

(* epoll_wait returns the stop event and run returns.                      *)
StopGateway(g) ==
  /\ gpc[g] = "poll" /\ signalled
  /\ gpc' = [gpc EXCEPT ![g] = "stopped"]
  /\ UNCHANGED <<inbound, ingress, egress, signalled, main, snap, gateway_stopped, seqr, matcher, publ>>

OnSignal ==
  /\ signalled' = TRUE
  /\ UNCHANGED <<inbound, ingress, egress, gpc, main, snap, gateway_stopped, seqr, matcher, publ>>

(* Slip: main waits for one gateway only.                                  *)
OneStopped == \E g \in Gateways : gpc[g] = "stopped"

AllStopped == \A g \in Gateways : gpc[g] = "stopped"

JoinGateways ==
  /\ main = "gateways" /\ AllStopped
  /\ main' = "threads" /\ gateway_stopped' = TRUE
  /\ UNCHANGED <<inbound, ingress, egress, signalled, gpc, snap, seqr, matcher, publ>>

JoinThreads ==
  /\ main = "threads" /\ spc = "exit" /\ mpc = "exit" /\ ppc = "exit"
  /\ snap = "exit"
  /\ main' = "done"
  /\ UNCHANGED <<inbound, ingress, egress, signalled, gpc, snap, gateway_stopped, seqr, matcher, publ>>

(* The snapshot thread leaves its loop when the matcher is done.  What it  *)
(* sends, and that its last round ends, is SnapshotPool's business.        *)
SnapshotThread ==
  /\ snap = "loop" /\ matcher_done
  /\ snap' = "exit"
  /\ UNCHANGED <<inbound, ingress, egress, signalled, gpc, main, gateway_stopped, seqr, matcher, publ>>

-----------------------------------------------------------------------------
(* The three consumers run the same loop: while upstream has not stopped,  *)
(* or the ring is not empty, drain it in batches.                          *)

(* Slip: the sense of the second test is turned round.                     *)
NotEmpty(q) == q # <<>>

(* Upstream has stopped: the loop ends if nothing is left.                 *)
Empty(q) == q = <<>>

(* Sequencer::run                                                          *)
SeqLoadFlag ==
  /\ spc = "flag"
  /\ spc' = IF gateway_stopped THEN "empty" ELSE "batch"
  /\ UNCHANGED <<inbound, ingress, egress, gws, journal, sequencer_done, matcher, publ>>

SeqTest ==
  /\ spc = "empty"
  /\ IF Empty(inQ) THEN spc' = "exit" /\ sequencer_done' = TRUE
     ELSE spc' = "batch" /\ UNCHANGED sequencer_done
  /\ UNCHANGED <<inbound, ingress, egress, gws, journal, matcher, publ>>

(* Slip: an order may be handed on before it is logged.                    *)
LogOrNot == {"append", "push"}

(* publish logs the order first.                                           *)
AfterStamp == {"append"}

SeqTake ==
  /\ spc = "batch"
  /\ Inbound!Receive
  /\ spc' \in AfterStamp
  /\ UNCHANGED <<ingress, egress, gws, journal, sequencer_done, matcher, publ>>

SeqAppend ==
  /\ spc = "append"
  /\ journal' = Append(journal, inGot)
  /\ spc' = "push"
  /\ UNCHANGED <<inbound, ingress, egress, gws, sequencer_done, matcher, publ>>

SeqPush ==
  /\ spc = "push"
  /\ Ingress!Send("sequencer", 1)
  /\ spc' = "batch"
  /\ UNCHANGED <<inbound, egress, gws, journal, sequencer_done, matcher, publ>>

(* The batch ends at the first cell not seen published.                    *)
SeqBatchEnds ==
  /\ spc = "batch"
  /\ spc' = "flag"
  /\ UNCHANGED <<inbound, ingress, egress, gws, journal, sequencer_done, matcher, publ>>

-----------------------------------------------------------------------------
(* The matcher thread.                                                     *)

MatchLoadFlag ==
  /\ mpc = "flag"
  /\ mpc' = IF sequencer_done THEN "empty" ELSE "batch"
  /\ UNCHANGED <<inbound, ingress, egress, gws, seqr, left, buf, emitted, matcher_done, publ>>

MatchTest ==
  /\ mpc = "empty"
  /\ IF Empty(ingQ) THEN mpc' = "exit" /\ matcher_done' = TRUE
     ELSE mpc' = "batch" /\ UNCHANGED matcher_done
  /\ UNCHANGED <<inbound, ingress, egress, gws, seqr, left, buf, emitted, publ>>

(* submit is called for the next order; it will emit some events.          *)
MatchTake ==
  /\ mpc = "batch" /\ left = 0
  /\ Ingress!Receive
  /\ left' \in 0 .. MaxEvents
  /\ UNCHANGED <<inbound, egress, gws, seqr, mpc, buf, emitted, matcher_done, publ>>

(* EgressSink::try_publish: buffer the event, and publish at the mark.     *)
Emit ==
  /\ mpc = "batch" /\ left > 0
  /\ left' = left - 1
  /\ emitted' = emitted + 1
  /\ buf' = buf + 1
  /\ mpc' = IF buf' >= HWM THEN "publish" ELSE "batch"
  /\ UNCHANGED <<inbound, ingress, egress, gws, seqr, matcher_done, publ>>

(* publish_batch, wave by wave: as many as are left and seen to fit.       *)
PublishWave ==
  /\ mpc \in {"publish", "flush"} /\ buf > 0
  /\ \E n \in 1 .. buf : Egress!Send("matcher", n) /\ buf' = buf - n
  /\ UNCHANGED <<inbound, ingress, gws, seqr, mpc, left, emitted, matcher_done, publ>>

(* Slip: the tail of a batch stays in the sink.                            *)
SkipFlush == "flag"

(* After a batch the thread flushes the sink.                              *)
AfterBatch == "flush"

MatchBatchEnds ==
  /\ mpc = "batch" /\ left = 0
  /\ mpc' = AfterBatch
  /\ UNCHANGED <<inbound, ingress, egress, gws, seqr, left, buf, emitted, matcher_done, publ>>

(* publish_batch returns, in the middle of a batch or at its end.          *)
PublishDone ==
  /\ mpc \in {"publish", "flush"} /\ buf = 0
  /\ mpc' = IF mpc = "publish" THEN "batch" ELSE "flag"
  /\ UNCHANGED <<inbound, ingress, egress, gws, seqr, left, buf, emitted, matcher_done, publ>>

-----------------------------------------------------------------------------
(* The publisher thread.                                                   *)

PubLoadFlag ==
  /\ ppc = "flag"
  /\ ppc' = IF matcher_done THEN "empty" ELSE "batch"
  /\ UNCHANGED <<inbound, ingress, egress, gws, seqr, matcher, batch, sent_, dropped_>>

PubTest ==
  /\ ppc = "empty"
  /\ ppc' = IF Empty(egQ) THEN "final" ELSE "batch"
  /\ UNCHANGED <<inbound, ingress, egress, gws, seqr, matcher, batch, sent_, dropped_>>

PubTake ==
  /\ ppc = "batch"
  /\ Egress!Receive
  /\ batch' = batch + 1
  /\ ppc' = IF batch' >= PubHWM THEN "mark" ELSE "batch"
  /\ UNCHANGED <<inbound, ingress, gws, seqr, matcher, sent_, dropped_>>

PubBatchEnds ==
  /\ ppc = "batch"
  /\ ppc' = "flush"
  /\ UNCHANGED <<inbound, ingress, egress, gws, seqr, matcher, batch, sent_, dropped_>>

(* How many events the next datagram takes.                                *)
Chunk == IF batch < PerDatagram THEN batch ELSE PerDatagram

(* UdpPublisher::publish, one datagram: sent, or dropped for want of room. *)
SendDatagram ==
  /\ ppc \in {"mark", "flush", "final"} /\ batch > 0
  /\ batch' = batch - Chunk
  /\ \/ sent_' = sent_ + Chunk /\ UNCHANGED dropped_
     \/ dropped_' = dropped_ + Chunk /\ UNCHANGED sent_
  /\ UNCHANGED <<inbound, ingress, egress, gws, seqr, matcher, ppc>>

FlushDone ==
  /\ ppc \in {"mark", "flush", "final"} /\ batch = 0
  /\ ppc' = CASE ppc = "mark" -> "batch" [] ppc = "flush" -> "flag" [] ppc = "final" -> "exit"
  /\ UNCHANGED <<inbound, ingress, egress, gws, seqr, matcher, batch, sent_, dropped_>>

-----------------------------------------------------------------------------

Gateway(g) == ParseOrder(g) \/ PushOrder(g) \/ StopGateway(g)
Main       == OnSignal \/ JoinGateways \/ JoinThreads
Sequencer  == SeqLoadFlag \/ SeqTest \/ SeqTake \/ SeqAppend \/ SeqPush \/ SeqBatchEnds
Matcher    == MatchLoadFlag \/ MatchTest \/ MatchTake \/ Emit \/ PublishWave \/ MatchBatchEnds \/ PublishDone
Publisher  == PubLoadFlag \/ PubTest \/ PubTake \/ PubBatchEnds \/ SendDatagram \/ FlushDone

Next == Main \/ Sequencer \/ Matcher \/ Publisher \/ SnapshotThread \/ \E g \in Gateways : Gateway(g)

Spec == Init /\ [][Next]_vars

(* Every thread keeps running, and a ring hands over what was put into it  *)
(* (what MpscRing and SpscRing show of theirs; ReaderTerminates is what    *)
(* SnapshotPool shows of the snapshot thread).  Weak fairness is enough    *)
(* for a gateway because the orders that reach it are finitely many.       *)
FairSpec ==
  /\ Spec
  /\ \A g \in Gateways : WF_vars(PushOrder(g)) /\ WF_vars(StopGateway(g))
  /\ WF_vars(JoinGateways \/ JoinThreads) /\ WF_vars(SnapshotThread)
  /\ WF_vars(Sequencer) /\ SF_vars(SeqTake)
  /\ WF_vars(Matcher) /\ SF_vars(MatchTake)
  /\ WF_vars(Publisher) /\ SF_vars(PubTake)

-----------------------------------------------------------------------------

(* The journal is written ahead, once, and in the order of matching: the   *)
(* order with seq n, on its way to the matcher or matched, is record n,    *)
(* and the orders of a gateway are in it in the order they were pushed,    *)
(* each once and none left out.                                            *)
JournaledFirst ==
  /\ Len(journal) = ingSent["sequencer"] + (IF spc = "push" THEN 1 ELSE 0)
  /\ spc = "push" => journal[Len(journal)] = inGot
  /\ \A i, j \in DOMAIN journal :
       i < j /\ journal[i][1] = journal[j][1] => journal[i][2] < journal[j][2]
  /\ \A j \in DOMAIN journal : \A k \in 0 .. journal[j][2] - 1 :
       \E i \in 1 .. j - 1 : journal[i] = <<journal[j][1], k>>

(* No order is dropped: when the server has shut down, every order a       *)
(* gateway pushed has been journaled and every journaled one matched, and  *)
(* every event they caused went out or was counted as dropped by the       *)
(* publisher.                                                              *)
NothingLeftBehind ==
  main = "done" =>
    /\ \A g \in Gateways : \A k \in 0 .. inSent[g] - 1 :
         \E i \in DOMAIN journal : journal[i] = <<g, k>>
    /\ Len(journal) = ingSent["sequencer"] /\ ingQ = <<>> /\ left = 0
    /\ sent_ + dropped_ = emitted

(* A signal shuts the server down, however full the rings are, once the    *)
(* gateways have no more orders to read: all threads end and are joined.   *)
ShutdownCompletes == signalled ~> main = "done"

(* Whether the server is shut down or not, what the gateways pushed gets   *)
(* all the way through: no stage waits for ever on another, and no event   *)
(* stays in the sink or in the publisher's batch for want of further ones. *)
RunsDry ==
  []<>( /\ inQ = <<>> /\ ingQ = <<>> /\ egQ = <<>>
        /\ spc \notin {"append", "push"} /\ left = 0 /\ buf = 0 /\ batch = 0 )
=============================================================================
