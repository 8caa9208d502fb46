-------------------------------- MODULE Wal --------------------------------
(***************************************************************************)
(* The write-ahead log: Sequencer::publish appends every order to a mapped *)
(* file before it hands it to the matcher, and flushes the file now and    *)
(* then (io/journaler.hpp); replay reads it back after a crash.            *)
(*                                                                         *)
(* The file is a header and records, in words, cut into pages without      *)
(* regard to records.  Word SeqWord of a record holds its seq.  The kernel *)
(* may write any page back at any time; a page that was never written back *)
(* since a word was stored does not have it on disk.  A killed process     *)
(* leaves the mapped pages behind, a power failure only the disk.          *)
(***************************************************************************)
EXTENDS Integers

CONSTANTS
  HdrWords, RecWords, PageWords,  \* 8, 5 and 512 words of 8 bytes in the code
  SeqWord,                        \* 1: after the id
  WalCap,                         \* capacity_orders
  flush_interval, sync_every

ASSUME LayoutAssumption ==
  /\ {HdrWords, RecWords, PageWords, WalCap, flush_interval} \subseteq Nat \ {0}
  /\ SeqWord \in 0 .. RecWords - 1 /\ HdrWords <= PageWords
  /\ sync_every \in Nat

VARIABLES
  pc,           \* the sequencer: "idle", "copy", "push", "cadence", "stopped", "closed"
  filled,       \* record words stored in the mapping
  count,        \* header_->count
  pushed,       \* orders handed to the ingress ring
  since_flush, flush_no,
  synced_count,
  checkpoint,   \* the records the last MS_SYNC flush covered, [from, to)
  durable,      \* durable[p]: the words of page p below this one are on disk
  hdr,          \* the count on disk
  status,       \* "up", "killed", "powerless", "opened", "refused", "recovered"
  image,        \* what replay reads: "memory" or "disk"
  replayed      \* what it returned

seqr == <<pc, filled, count, pushed, since_flush, flush_no>>
disk == <<durable, hdr>>
rest == <<status, image, replayed>>
vars == <<pc, filled, count, pushed, since_flush, flush_no, synced_count, checkpoint,
          durable, hdr, status, image, replayed>>

(* Word w of record i, as a word of the file.                              *)
Word(i, w) == HdrWords + i * RecWords + w
Page == 0 .. (Word(WalCap, 0) - 1) \div PageWords
PageOf(x) == x \div PageWords

(* The words the mapping holds, and where page p of it ends.               *)
Stored == HdrWords + filled
InMemory(p) == IF Stored < (p + 1) * PageWords THEN Stored ELSE (p + 1) * PageWords

Init ==
  /\ pc = "idle" /\ filled = 0 /\ count = 0 /\ pushed = 0
  /\ since_flush = 0 /\ flush_no = 0 /\ synced_count = 0
  /\ checkpoint = [from |-> 0, to |-> 0]
  /\ durable = [p \in Page |-> 0] /\ hdr = 0
  /\ status = "up" /\ image = "memory" /\ replayed = 0

-----------------------------------------------------------------------------
(* Flushing.                                                               *)

(* These pages are on disk as they are in memory.                          *)
WriteBack(ps) ==
  /\ durable' = [p \in Page |-> IF p \in ps THEN InMemory(p) ELSE durable[p]]
  /\ hdr' = IF 0 \in ps THEN count ELSE hdr

(* The kernel's own writeback.                                             *)
KernelWriteBack ==
  /\ status \in {"up", "killed"}
  /\ \E p \in Page : p * PageWords < Stored /\ WriteBack({p})
  /\ UNCHANGED <<seqr, synced_count, checkpoint, rest>>

(* The pages dirtied since the last flush.                                 *)
DirtyPages ==
  {p \in Page : PageOf(Word(synced_count, 0)) <= p /\ p * PageWords < Word(count, 0)}

(* Slip: the page with the header is left out of a checkpoint.             *)
NoPage == {}

HeaderPage == {0}

(* sync_dirty: MS_SYNC waits for the pages, MS_ASYNC for nothing.  Either  *)
(* way the records count as flushed.                                       *)
FlushSync ==
  /\ WriteBack(DirtyPages \cup HeaderPage)
  /\ checkpoint' = [from |-> synced_count, to |-> count]
  /\ synced_count' = count

FlushAsync == synced_count' = count /\ UNCHANGED <<disk, checkpoint>>

-----------------------------------------------------------------------------
(* Sequencer::publish                                                      *)

(* append on a full log throws out of a noexcept function, which ends the  *)
(* process.                                                                *)
Stamp ==
  /\ status = "up" /\ pc = "idle"
  /\ IF count >= WalCap THEN status' = "killed" /\ UNCHANGED pc
     ELSE pc' = "copy" /\ UNCHANGED status
  /\ UNCHANGED <<filled, count, pushed, since_flush, flush_no, synced_count, checkpoint,
                 disk, image, replayed>>

RecordCopied == filled = (count + 1) * RecWords

CopyWord ==
  /\ status = "up" /\ pc = "copy" /\ ~RecordCopied
  /\ filled' = filled + 1
  /\ UNCHANGED <<pc, count, pushed, since_flush, flush_no, synced_count, checkpoint, disk, rest>>

AdvanceCount ==
  /\ status = "up" /\ pc = "copy" /\ RecordCopied
  /\ count' = count + 1
  /\ pc' = "push"
  /\ UNCHANGED <<filled, pushed, since_flush, flush_no, synced_count, checkpoint, disk, rest>>

(* Slip: the order is handed over before it is journaled.                  *)
PushFirst ==
  /\ status = "up" /\ pc = "copy"
  /\ pushed' = pushed + 1
  /\ pc' = "cadence"
  /\ UNCHANGED <<filled, count, since_flush, flush_no, synced_count, checkpoint, disk, rest>>

(* try_publish to the ingress ring succeeds at last.                       *)
Push ==
  /\ status = "up" /\ pc = "push"
  /\ pushed' = pushed + 1
  /\ pc' = "cadence"
  /\ UNCHANGED <<filled, count, since_flush, flush_no, synced_count, checkpoint, disk, rest>>

IntervalOver == since_flush + 1 >= flush_interval

Cadence ==
  /\ status = "up" /\ pc = "cadence"
  /\ pc' = "idle"
  /\ IF ~IntervalOver
     THEN /\ since_flush' = since_flush + 1
          /\ UNCHANGED <<flush_no, synced_count, checkpoint, disk>>
     ELSE /\ since_flush' = 0
          /\ flush_no' = IF sync_every = 0 THEN flush_no ELSE flush_no + 1
          /\ IF sync_every # 0 /\ flush_no' % sync_every = 0 THEN FlushSync ELSE FlushAsync
  /\ UNCHANGED <<filled, count, pushed, rest>>

(* run returns: the inbound ring is drained and a last checkpoint taken.   *)
RunEnds ==
  /\ status = "up" /\ pc = "idle"
  /\ FlushSync
  /\ pc' = "stopped"
  /\ UNCHANGED <<filled, count, pushed, since_flush, flush_no, rest>>

(* Slip: the destructor flushes only what is dirty since the last flush.   *)
DirtyOnly == DirtyPages \cup HeaderPage

WholeMapping == Page

(* ~Journaler                                                              *)
Close ==
  /\ status = "up" /\ pc = "stopped"
  /\ WriteBack(WholeMapping)
  /\ pc' = "closed"
  /\ UNCHANGED <<filled, count, pushed, since_flush, flush_no, synced_count, checkpoint, rest>>

-----------------------------------------------------------------------------
(* Crash and recovery.                                                     *)

Kill ==
  /\ status = "up"
  /\ status' = "killed"
  /\ UNCHANGED <<seqr, synced_count, checkpoint, disk, image, replayed>>

PowerFailure ==
  /\ status \in {"up", "killed"}
  /\ status' = "powerless" /\ image' = "disk"
  /\ UNCHANGED <<seqr, synced_count, checkpoint, disk, replayed>>

(* validate: a header that never reached the disk has no magic.            *)
HeaderValid == image = "memory" \/ durable[0] > 0

(* Opening the log again.                                                  *)
Open ==
  /\ status \in {"killed", "powerless"}
  /\ status' = IF HeaderValid THEN "opened" ELSE "refused"
  /\ UNCHANGED <<seqr, synced_count, checkpoint, disk, image, replayed>>

OnDisk(x) == x < durable[PageOf(x)]

(* Word x of the file is in the image replay reads.                        *)
Present(x) == IF image = "memory" THEN x < Stored ELSE OnDisk(x)

SeqOf(i) == IF Present(Word(i, SeqWord)) THEN i ELSE 0

InSequence(i) == SeqOf(i) = SeqOf(0) + i

(* replay: the records up to the first that breaks the sequence.           *)
Replay ==
  /\ status = "opened"
  /\ LET n == IF image = "memory" THEN count ELSE hdr
     IN  \E k \in 0 .. n : /\ \A i \in 0 .. k - 1 : InSequence(i)
                           /\ k < n => ~InSequence(k)
                           /\ replayed' = k
  /\ status' = "recovered"
  /\ UNCHANGED <<seqr, synced_count, checkpoint, disk, image>>

Done == status \in {"refused", "recovered"} /\ UNCHANGED vars

Next ==
  \/ Stamp \/ CopyWord \/ AdvanceCount \/ Push \/ Cadence \/ RunEnds \/ Close
  \/ KernelWriteBack \/ Kill \/ PowerFailure \/ Open \/ Replay \/ Done

Spec == Init /\ [][Next]_vars

-----------------------------------------------------------------------------

(* The variables have their types, and no cursor overtakes another.        *)
TypeOK ==
  /\ pc \in {"idle", "copy", "push", "cadence", "stopped", "closed"}
  /\ filled \in Nat /\ count \in 0 .. WalCap /\ pushed \in 0 .. count
  /\ since_flush \in Nat /\ flush_no \in Nat
  /\ synced_count \in 0 .. count /\ hdr \in 0 .. count
  /\ checkpoint \in [from : 0 .. count, to : 0 .. count]
  /\ durable \in [Page -> Nat]
  /\ status \in {"up", "killed", "powerless", "opened", "refused", "recovered"}
  /\ image \in {"memory", "disk"} /\ replayed \in 0 .. count

(* Record i is in the image as it was journaled.                           *)
Whole(i) == \A w \in 0 .. RecWords - 1 : Present(Word(i, w))

(* Journal before publish: when the process is killed at any point, even   *)
(* between two words of an append, replay gives back every order that had  *)
(* reached the matcher, and each of them as it was journaled.              *)
KilledLosesNothing ==
  status = "recovered" /\ image = "memory" =>
    pushed <= replayed /\ \A i \in 0 .. replayed - 1 : Whole(i)

(* After a graceful shutdown a power failure loses nothing.                *)
ClosedIsDurable ==
  status = "recovered" /\ pc = "closed" =>
    replayed = count /\ \A i \in 0 .. replayed - 1 : Whole(i)

(* An MS_SYNC flush has put its records and the count on disk, and once    *)
(* there was one the log can be opened after any failure.                  *)
CheckpointOnDisk ==
  /\ hdr >= checkpoint.to
  /\ \A i \in checkpoint.from .. checkpoint.to - 1 : \A w \in 0 .. RecWords - 1 :
       OnDisk(Word(i, w))
  /\ status = "refused" => checkpoint.to = 0 /\ pc \notin {"stopped", "closed"}

(* A power failure loses at most flush_interval * sync_every orders.       *)
LossWindow ==
  status = "recovered" /\ sync_every # 0 => count - replayed <= flush_interval * sync_every
=============================================================================
