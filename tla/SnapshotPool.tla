---------------------------- MODULE SnapshotPool ----------------------------
(***************************************************************************)
(* The triple-buffer pool through which the matcher thread (the only       *)
(* writer) hands L2 images of the book to the snapshot thread (the only    *)
(* reader): SnapshotPool in book/snapshot.hpp, driven by the two threads   *)
(* of main.cpp.                                                            *)
(*                                                                         *)
(* Every seq_cst access is one step, so a behaviour is an interleaving of  *)
(* the accesses in their single total order.  A buffer is abstracted to    *)
(* the feed_seq its header carries and the feed_seq its levels belong to;  *)
(* they are written, and read, in separate steps, so an image the reader   *)
(* catches half written is a state of the model.                           *)
(***************************************************************************)
EXTENDS Integers

CONSTANTS
  Slots,          \* number of buffers; main.cpp uses SNAP_SLOTS = 3
  ClaimRetries,   \* CLAIM_RETRIES
  MaxSeq          \* bound: the last Sequencer seq an image is taken at

ASSUME SlotsAssumption   == Slots \in Nat /\ Slots >= 3
ASSUME RetriesAssumption == ClaimRetries \in Nat \ {0}
ASSUME MaxSeqAssumption  == MaxSeq \in Nat

VARIABLES
  published,    \* published_: index of the live buffer, None before the first
  inUse,        \* in_use_[i].v
  buf,          \* buffers_[i]
  seq,          \* in.seq of the order whose image is being taken
  wpc,          \* the matcher thread: where it is in try_snapshot
  wj,           \* its loop variable j, and then the reserved index
  skipped,      \* some try_snapshot returned false
  matcherDone,  \* matcher_done
  rpc,          \* the snapshot thread: where it is in send_latest
  ridx,         \* its idx
  attempt,      \* the attempt counter of acquire
  final,        \* the reader is in the send_latest after its loop
  msg,          \* the datagram send_raw is assembling
  wire,         \* the last datagram that left the process
  sent,         \* how many did
  lastSeq,      \* last_seq
  sendOk        \* what the last send_raw returned

vars == <<published, inUse, buf, seq, wpc, wj, skipped, matcherDone, rpc, ridx,
          attempt, final, msg, wire, sent, lastSeq, sendOk>>

writerVars == <<published, buf, seq, wpc, wj, skipped, matcherDone>>
readerVars == <<inUse, rpc, ridx, attempt, final, msg, wire, sent, lastSeq, sendOk>>

None  == -1
Slot  == 0 .. Slots - 1
Image == [hdr : Int, lvl : Int]

Init ==
  /\ published = None
  /\ inUse = [i \in Slot |-> FALSE]
  /\ buf = [i \in Slot |-> [hdr |-> 0, lvl |-> 0]]
  /\ seq = 0 /\ wpc = "run" /\ wj = 0 /\ skipped = FALSE /\ matcherDone = FALSE
  /\ rpc = "poll" /\ ridx = None /\ attempt = 0 /\ final = FALSE
  /\ msg = [hdr |-> 0, lvl |-> 0]
  /\ wire = [hdr |-> 0, lvl |-> 0]
  /\ sent = 0 /\ lastSeq = None /\ sendOk = TRUE

-----------------------------------------------------------------------------
(* The matcher thread.                                                     *)

(* K orders were matched: try_snapshot is entered for the latest of them.  *)
BeginSnapshot ==
  /\ wpc = "run" /\ seq < MaxSeq
  /\ seq' = seq + 1
  /\ wpc' = "scan" /\ wj' = 0
  /\ UNCHANGED <<published, buf, skipped, matcherDone>> /\ UNCHANGED readerVars

(* Slip: the live buffer is not excluded.                                  *)
BusyUnlessLive(j) == inUse[j]

(* A slot the writer may not overwrite.  The code loads published_ once;   *)
(* this thread is its only writer, so the value cannot change under it.    *)
Busy(j) == j = published \/ inUse[j]

(* One iteration of reserve_free_slot: take slot wj, go on to the next, or *)
(* give up this cycle when it was the last one.                            *)
ReserveFreeSlot ==
  /\ wpc = "scan"
  /\ LET last == wj + 1 = Slots IN
       /\ wpc' = IF ~Busy(wj) THEN "levels" ELSE IF last THEN "run" ELSE "scan"
       /\ wj' = IF Busy(wj) /\ ~last THEN wj + 1 ELSE wj
       /\ skipped' = (skipped \/ (Busy(wj) /\ last))
  /\ UNCHANGED <<published, buf, seq, matcherDone>> /\ UNCHANGED readerVars

(* fill(): serialize_l2 stores the levels, then the header.                *)
FillLevels ==
  /\ wpc = "levels"
  /\ buf' = [buf EXCEPT ![wj].lvl = seq]
  /\ wpc' = "header"
  /\ UNCHANGED <<published, seq, wj, skipped, matcherDone>> /\ UNCHANGED readerVars

FillHeader ==
  /\ wpc = "header"
  /\ buf' = [buf EXCEPT ![wj].hdr = seq]
  /\ wpc' = "publish"
  /\ UNCHANGED <<published, seq, wj, skipped, matcherDone>> /\ UNCHANGED readerVars

Publish ==
  /\ wpc = "publish"
  /\ published' = wj
  /\ wpc' = "run"
  /\ UNCHANGED <<buf, seq, wj, skipped, matcherDone>> /\ UNCHANGED readerVars

(* The ingress ring is drained after the sequencer stopped.                *)
MatcherExit ==
  /\ wpc = "run"
  /\ wpc' = "exit" /\ matcherDone' = TRUE
  /\ UNCHANGED <<published, buf, seq, wj, skipped>> /\ UNCHANGED readerVars

-----------------------------------------------------------------------------
(* The snapshot thread.                                                    *)

(* The loop test: one more send_latest, the last one once matcher_done is  *)
(* seen.                                                                   *)
Poll ==
  /\ rpc = "poll"
  /\ final' = matcherDone
  /\ rpc' = "load" /\ attempt' = 0
  /\ UNCHANGED <<inUse, ridx, msg, wire, sent, lastSeq, sendOk>> /\ UNCHANGED writerVars

(* Slip: the loop tests matcher_done after send_latest, not before it.     *)
AfterSendLateTest == IF matcherDone THEN "exit" ELSE "poll"

(* Slip: the thread never leaves its loop.                                 *)
AfterSendForever == "poll"

(* Where the thread goes when a send_latest returns.                       *)
AfterSend == IF final THEN "exit" ELSE "poll"

(* acquire returns nullptr.                                                *)
GiveUp == attempt = ClaimRetries \/ published = None

(* acquire: the first load of published_.                                  *)
LoadPublished ==
  /\ rpc = "load"
  /\ IF GiveUp
       THEN rpc' = AfterSend /\ UNCHANGED ridx
       ELSE rpc' = "claim" /\ ridx' = published
  /\ UNCHANGED <<inUse, attempt, final, msg, wire, sent, lastSeq, sendOk>>
  /\ UNCHANGED writerVars

Claim ==
  /\ rpc = "claim"
  /\ inUse' = [inUse EXCEPT ![ridx] = TRUE]
  /\ rpc' = "recheck"
  /\ UNCHANGED <<ridx, attempt, final, msg, wire, sent, lastSeq, sendOk>>
  /\ UNCHANGED writerVars

(* Slip: acquire without its second load of published_.                    *)
AssumeStillLive == TRUE

StillLive == published = ridx

(* The second load of published_: is the claimed buffer still live?        *)
Recheck ==
  /\ rpc = "recheck"
  /\ rpc' = IF StillLive THEN "compare" ELSE "unclaim"
  /\ UNCHANGED <<inUse, ridx, attempt, final, msg, wire, sent, lastSeq, sendOk>>
  /\ UNCHANGED writerVars

(* Slip: a claim that lost is never taken back.                            *)
KeepFlag == inUse' = inUse

ClearFlag == inUse' = [inUse EXCEPT ![ridx] = FALSE]

Unclaim ==
  /\ rpc = "unclaim"
  /\ ClearFlag
  /\ attempt' = attempt + 1
  /\ rpc' = "load"
  /\ UNCHANGED <<ridx, final, msg, wire, sent, lastSeq, sendOk>> /\ UNCHANGED writerVars

Fresh == buf[ridx].hdr # lastSeq

(* Only a fresh generation is transmitted.                                 *)
CompareSeq ==
  /\ rpc = "compare"
  /\ rpc' = IF Fresh THEN "copyhdr" ELSE "release"
  /\ UNCHANGED <<inUse, ridx, attempt, final, msg, wire, sent, lastSeq, sendOk>>
  /\ UNCHANGED writerVars

(* send_raw copies the buffer from front to back.                          *)
CopyHeader ==
  /\ rpc = "copyhdr"
  /\ msg' = [msg EXCEPT !.hdr = buf[ridx].hdr]
  /\ rpc' = "copylvl"
  /\ UNCHANGED <<inUse, ridx, attempt, final, wire, sent, lastSeq, sendOk>>
  /\ UNCHANGED writerVars

CopyLevels ==
  /\ rpc = "copylvl"
  /\ msg' = [msg EXCEPT !.lvl = buf[ridx].lvl]
  /\ rpc' = "sendto"
  /\ UNCHANGED <<inUse, ridx, attempt, final, wire, sent, lastSeq, sendOk>>
  /\ UNCHANGED writerVars

(* send_raw returns; after a failure last_seq keeps its value, so the same *)
(* generation is tried again by a later poll.                              *)
SendReturns ==
  /\ rpc = "sendto"
  /\ \/ /\ sendOk' = TRUE
        /\ wire' = msg /\ sent' = sent + 1 /\ lastSeq' = buf[ridx].hdr
     \/ /\ sendOk' = FALSE
        /\ UNCHANGED <<wire, sent, lastSeq>>
  /\ rpc' = "release"
  /\ UNCHANGED <<inUse, ridx, attempt, final, msg>> /\ UNCHANGED writerVars

Release ==
  /\ rpc = "release"
  /\ ClearFlag
  /\ rpc' = AfterSend
  /\ UNCHANGED <<ridx, attempt, final, msg, wire, sent, lastSeq, sendOk>>
  /\ UNCHANGED writerVars

-----------------------------------------------------------------------------

(* Both threads returned; main joins them.                                 *)
Terminated ==
  /\ wpc = "exit" /\ rpc = "exit"
  /\ UNCHANGED vars

Writer == \/ BeginSnapshot \/ ReserveFreeSlot \/ FillLevels \/ FillHeader
          \/ Publish \/ MatcherExit

Reader == \/ Poll \/ LoadPublished \/ Claim \/ Recheck \/ Unclaim \/ CompareSeq
          \/ CopyHeader \/ CopyLevels \/ SendReturns \/ Release

Next == Writer \/ Reader \/ Terminated

Spec == Init /\ [][Next]_vars

(* Each side is a loop of its own thread that never waits for the other.   *)
FairSpec == Spec /\ WF_vars(Writer) /\ WF_vars(Reader)

-----------------------------------------------------------------------------

TypeOK ==
  /\ published \in Slot \cup {None}
  /\ inUse \in [Slot -> BOOLEAN]
  /\ buf \in [Slot -> Image]
  /\ seq \in Nat
  /\ wpc \in {"run", "scan", "levels", "header", "publish", "exit"}
  /\ wj \in Slot
  /\ skipped \in BOOLEAN
  /\ matcherDone \in BOOLEAN
  /\ rpc \in {"poll", "load", "claim", "recheck", "unclaim", "compare", "copyhdr",
              "copylvl", "sendto", "release", "exit"}
  /\ ridx \in Slot \cup {None}
  /\ rpc \notin {"poll", "load", "exit"} => ridx \in Slot
  /\ attempt \in Nat
  /\ final \in BOOLEAN
  /\ msg \in Image /\ wire \in Image
  /\ sent \in Nat
  /\ lastSeq \in Int
  /\ sendOk \in BOOLEAN

(* No datagram mixes two images: the levels of the last one sent belong to *)
(* the feed_seq in its header, however the writer ran meanwhile (the torn  *)
(* read the seq_cst handshake of acquire and reserve_free_slot excludes).  *)
NoTornRead == wire.hdr = wire.lvl

(* The writer always finds a free buffer, so no snapshot cycle is skipped: *)
(* "a single reader holds at most one -> at least one slot is always free" *)
(* although reserve_free_slot looks at the flags one at a time.            *)
WriterNeverSkips == ~skipped

(* A buffer does not change while it is the published one: a client of     *)
(* acquire may start reading it at any moment.                             *)
PublishedStable ==
  [][published # None /\ published' = published
       => buf'[published] = buf[published]]_vars

(* Images leave in increasing feed_seq, none of them twice: what "sends    *)
(* only NEW snapshots" promises a late joiner.                             *)
FreshGenerations == [][sent' # sent => lastSeq' > lastSeq]_vars

(* When the snapshot thread has ended, the last image the matcher ever     *)
(* published is the last one sent, unless its own send failed: the final   *)
(* send_latest reads matcher_done before it reads published_.              *)
FinalImageSent ==
  rpc = "exit" /\ sendOk /\ published # None => lastSeq = buf[published].hdr

(* The snapshot thread winds down once the matcher has: main's join of it  *)
(* returns.                                                                *)
ReaderTerminates == matcherDone ~> rpc = "exit"
=============================================================================
