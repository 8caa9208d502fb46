----------------------------- MODULE WalProofs -----------------------------
(***************************************************************************)
(* What a crash leaves of the log, for every layout of records and pages,  *)
(* every capacity and every flush cadence.                                 *)
(***************************************************************************)
EXTENDS Wal, TLAPS

-----------------------------------------------------------------------------
(* The layout.                                                             *)

LEMMA PageBounds ==
  ASSUME NEW x \in Nat
  PROVE  /\ PageOf(x) \in Nat
         /\ PageOf(x) * PageWords <= x /\ x < (PageOf(x) + 1) * PageWords
<1>1. PageWords \in Nat \ {0}
  BY LayoutAssumption
<1> DEFINE q == x \div PageWords
<1>2. q \in Nat /\ x % PageWords \in Nat /\ x % PageWords < PageWords
      /\ x = PageWords * q + (x % PageWords)
  BY <1>1
<1> HIDE DEF q
<1>3. q * PageWords <= x /\ x < (q + 1) * PageWords
  BY <1>1, <1>2
<1> QED BY <1>2, <1>3 DEF PageOf, q

LEMMA PageMonotone ==
  ASSUME NEW x \in Nat, NEW y \in Nat, x <= y
  PROVE  PageOf(x) <= PageOf(y)
<1> DEFINE a == PageOf(x)
           b == PageOf(y)
<1>1. a \in Nat /\ b \in Nat /\ a * PageWords <= x /\ y < (b + 1) * PageWords
  BY PageBounds
<1> HIDE DEF a, b
<1>2. SUFFICES ASSUME b + 1 <= a PROVE FALSE
  BY <1>1 DEF a, b
<1>3. (b + 1) * PageWords <= a * PageWords
  BY <1>1, <1>2, LayoutAssumption
<1>4. (b + 1) * PageWords \in Nat /\ a * PageWords \in Nat
  BY <1>1, LayoutAssumption
<1> QED BY <1>1, <1>3, <1>4

(* Records are back to back.                                               *)
LEMMA WordBounds ==
  ASSUME NEW i \in Nat, NEW w \in 0 .. RecWords - 1
  PROVE  /\ Word(i, w) \in Nat
         /\ \A n \in Nat : i < n => Word(i, w) < Word(n, 0)
         /\ \A n \in Nat : n <= i => Word(n, 0) <= Word(i, w)
<1>1. RecWords \in Nat \ {0} /\ HdrWords \in Nat
  BY LayoutAssumption
<1>2. i * RecWords \in Nat
  BY <1>1
<1>3. ASSUME NEW n \in Nat, i < n PROVE Word(i, w) < Word(n, 0)
  <2>1. (i + 1) * RecWords <= n * RecWords
    BY <1>1, <1>3
  <2>2. (i + 1) * RecWords = i * RecWords + RecWords /\ n * RecWords \in Nat
    BY <1>1
  <2> QED BY <1>1, <1>2, <2>1, <2>2 DEF Word
<1>4. ASSUME NEW n \in Nat, n <= i PROVE Word(n, 0) <= Word(i, w)
  <2>1. n * RecWords <= i * RecWords /\ n * RecWords \in Nat
    BY <1>1, <1>4
  <2> QED BY <1>1, <1>2, <2>1 DEF Word
<1> QED BY <1>1, <1>2, <1>3, <1>4 DEF Word

(* Where record n starts is a number.                                      *)
LEMMA WordBase == ASSUME NEW n \in Nat PROVE Word(n, 0) \in Nat
<1>1. RecWords \in Nat /\ HdrWords \in Nat
  BY LayoutAssumption
<1>2. n * RecWords \in Nat
  BY <1>1
<1> QED BY <1>1, <1>2 DEF Word

LEMMA ZeroPage == 0 \in Page
<1>1. Word(WalCap, 0) \in Nat /\ Word(WalCap, 0) >= 1
  <2>1. WalCap * RecWords \in Nat
    BY LayoutAssumption
  <2> QED BY <2>1, LayoutAssumption DEF Word
<1>2. PageOf(Word(WalCap, 0) - 1) \in Nat
  BY <1>1, PageBounds
<1> QED BY <1>2 DEF Page, PageOf

LEMMA RecordPage ==
  ASSUME NEW i \in 0 .. WalCap - 1, NEW w \in 0 .. RecWords - 1
  PROVE  PageOf(Word(i, w)) \in Page
<1>1. Word(i, w) \in Nat /\ Word(i, w) < Word(WalCap, 0)
  BY WordBounds, LayoutAssumption
<1>2. Word(WalCap, 0) \in Nat
  BY LayoutAssumption, WordBase
<1>3. PageOf(Word(i, w)) \in Nat /\ PageOf(Word(i, w)) <= PageOf(Word(WalCap, 0) - 1)
  BY <1>1, <1>2, PageBounds, PageMonotone
<1>4. PageOf(Word(WalCap, 0) - 1) \in Nat
  BY <1>1, <1>2, PageBounds
<1> QED BY <1>3, <1>4 DEF Page, PageOf

-----------------------------------------------------------------------------
(* The inductive invariant.                                                *)

(* Only while an order is appended are there words past the last record,   *)
(* and an order is handed over only after its record is counted.           *)
Appending ==
  /\ count * RecWords <= filled
  /\ pc # "copy" => filled = count * RecWords
  /\ pc = "copy" => count < WalCap /\ filled <= (count + 1) * RecWords
  /\ pc = "push" => pushed < count

(* The disk is behind the mapping.                                         *)
Behind == \A p \in Page : durable[p] <= InMemory(p)

(* After a checkpoint the header is on disk.                               *)
HeaderOnDisk ==
  /\ checkpoint.to > 0 \/ pc \in {"stopped", "closed"} => durable[0] > 0
  /\ status = "refused" => durable[0] = 0

(* After a graceful shutdown everything is.                                *)
AllOnDisk ==
  pc = "closed" =>
    hdr = count /\ \A i \in 0 .. count - 1 : \A w \in 0 .. RecWords - 1 : OnDisk(Word(i, w))

(* Replay has read the whole image.                                        *)
AllReplayed ==
  status = "recovered" /\ (image = "memory" \/ pc = "closed") => replayed = count

Records ==
  \A i \in checkpoint.from .. checkpoint.to - 1 : \A w \in 0 .. RecWords - 1 :
    OnDisk(Word(i, w))

Inv == /\ TypeOK /\ Appending /\ Behind /\ HeaderOnDisk /\ AllOnDisk /\ AllReplayed
       /\ hdr >= checkpoint.to /\ Records

LEMMA InitInv == Init => Inv
<1> SUFFICES ASSUME Init PROVE Inv
  OBVIOUS
<1> USE LayoutAssumption DEF Init
<1>1. TypeOK
  BY DEF TypeOK
<1>2. Appending /\ HeaderOnDisk /\ AllOnDisk /\ AllReplayed /\ hdr >= checkpoint.to /\ Records
  BY ZeroPage DEF Appending, HeaderOnDisk, AllOnDisk, AllReplayed, Records
<1>3. Behind
  <2> SUFFICES ASSUME NEW p \in Page PROVE 0 <= InMemory(p)
    BY DEF Behind
  <2>1. p \in Nat
    BY DEF Page
  <2>2. (p + 1) * PageWords \in Nat
    BY <2>1
  <2> QED BY <2>2 DEF InMemory, Stored
<1> QED BY <1>1, <1>2, <1>3 DEF Inv

(* A page in memory ends where a Nat says, and later than before.          *)
LEMMA MemoryGrows ==
  ASSUME TypeOK, filled' \in Nat, filled <= filled', NEW p \in Page
  PROVE  InMemory(p) \in Nat /\ InMemory(p) <= InMemory(p)' /\ InMemory(p)' \in Nat
<1>1. p \in Nat
  BY DEF Page
<1>2. (p + 1) * PageWords \in Nat
  BY <1>1, LayoutAssumption
<1> QED BY <1>2, LayoutAssumption DEF InMemory, Stored, TypeOK

(* A word that is stored is part of its page in memory.                    *)
LEMMA StoredInMemory ==
  ASSUME NEW x \in Nat, x < Stored
  PROVE  x < InMemory(PageOf(x))
BY PageBounds DEF InMemory

(* What a writeback does.                                                  *)
Grown ==
  /\ durable' \in [Page -> Nat] /\ hdr' \in 0 .. count
  /\ hdr <= hdr' /\ \A p \in Page : durable[p] <= durable'[p] /\ durable'[p] <= InMemory(p)

LEMMA WriteBackGrows ==
  ASSUME TypeOK, Behind, NEW ps, WriteBack(ps)
  PROVE  Grown /\ \A p \in Page \cap ps : durable'[p] = InMemory(p)
<1>1. \A p \in Page : InMemory(p) \in Nat
  <2> TAKE p \in Page
  <2>1. (p + 1) * PageWords \in Nat
    BY LayoutAssumption DEF Page
  <2> QED BY <2>1, LayoutAssumption DEF InMemory, Stored, TypeOK
<1>2. durable' \in [Page -> Nat]
  BY <1>1 DEF WriteBack, TypeOK
<1>3. \A p \in Page : durable'[p] = IF p \in ps THEN InMemory(p) ELSE durable[p]
  BY DEF WriteBack
<1>4. hdr' \in 0 .. count /\ hdr <= hdr'
  BY DEF WriteBack, TypeOK
<1> QED BY <1>1, <1>2, <1>3, <1>4 DEF Grown, Behind, TypeOK

(* A record that was copied is in memory, up to its last word.             *)
LEMMA CopiedStored ==
  ASSUME TypeOK, Appending, NEW i \in 0 .. count - 1, NEW w \in 0 .. RecWords - 1
  PROVE  /\ Word(i, w) \in Nat /\ Word(i, w) < Stored /\ Word(i, w) < Word(count, 0)
         /\ PageOf(Word(i, w)) \in Page /\ Word(i, w) < InMemory(PageOf(Word(i, w)))
<1>1. i \in Nat /\ count \in Nat /\ i < count /\ i \in 0 .. WalCap - 1
  BY LayoutAssumption DEF TypeOK
<1>2. Word(i, w) \in Nat /\ Word(i, w) < Word(count, 0)
  BY <1>1, WordBounds
<1>3. Word(count, 0) <= Stored
  <2>1. count * RecWords \in Nat
    BY <1>1, LayoutAssumption
  <2> QED BY <2>1, LayoutAssumption DEF Word, Stored, Appending, TypeOK
<1>4. Word(count, 0) \in Nat /\ Stored \in Nat
  <2>1. count * RecWords \in Nat
    BY <1>1, LayoutAssumption
  <2> QED BY <2>1, LayoutAssumption DEF Word, Stored, TypeOK
<1>5. Word(i, w) < Stored
  BY <1>2, <1>3, <1>4
<1> QED BY <1>1, <1>2, <1>5, RecordPage, StoredInMemory

(* A checkpoint puts the records since the last flush and the header on    *)
(* disk.                                                                   *)
LEMMA FlushSyncWrites ==
  ASSUME Inv, FlushSync
  PROVE  /\ Grown /\ hdr' = count /\ durable'[0] > 0
         /\ \A i \in synced_count .. count - 1 : \A w \in 0 .. RecWords - 1 :
              Word(i, w) < durable'[PageOf(Word(i, w))]
<1>1. /\ Grown
      /\ \A p \in Page \cap (DirtyPages \cup HeaderPage) : durable'[p] = InMemory(p)
  BY WriteBackGrows DEF FlushSync, Inv
<1>2. hdr' = count
  BY DEF FlushSync, WriteBack, HeaderPage
<1>3. durable'[0] > 0
  <2>1. durable'[0] = InMemory(0)
    BY <1>1, ZeroPage DEF HeaderPage
  <2>2. InMemory(0) > 0
    BY LayoutAssumption DEF InMemory, Stored, Inv, TypeOK
  <2> QED BY <2>1, <2>2
<1>4. ASSUME NEW i \in synced_count .. count - 1, NEW w \in 0 .. RecWords - 1
      PROVE  Word(i, w) < durable'[PageOf(Word(i, w))]
  <2>1. i \in 0 .. count - 1 /\ i \in Nat /\ synced_count \in Nat /\ synced_count <= i
        /\ count \in Nat
    BY DEF Inv, TypeOK
  <2> DEFINE x == Word(i, w)
  <2>2. /\ x \in Nat /\ x < Word(count, 0) /\ PageOf(x) \in Page
        /\ x < InMemory(PageOf(x))
    BY <2>1, CopiedStored DEF Inv
  <2>3. Word(synced_count, 0) \in Nat /\ Word(synced_count, 0) <= x
    BY <2>1, WordBounds, WordBase
  <2>4. Word(count, 0) \in Nat
    BY <2>1, WordBase
  <2> HIDE DEF x
  <2>5. PageOf(Word(synced_count, 0)) <= PageOf(x)
    BY <2>2, <2>3, PageMonotone
  <2>6. PageOf(x) * PageWords < Word(count, 0)
    <3>1. PageOf(x) \in Nat /\ PageOf(x) * PageWords <= x
      BY <2>2, PageBounds
    <3>2. PageOf(x) * PageWords \in Nat
      BY <3>1, LayoutAssumption
    <3> QED BY <3>1, <3>2, <2>2, <2>4
  <2>7. PageOf(x) \in DirtyPages
    BY <2>2, <2>5, <2>6 DEF DirtyPages
  <2>8. durable'[PageOf(x)] = InMemory(PageOf(x))
    BY <1>1, <2>2, <2>7
  <2> QED BY <2>2, <2>8 DEF x
<1> QED BY <1>1, <1>2, <1>3, <1>4

(* No step takes a word from the disk or from the mapping.                 *)
LEMMA DiskStep ==
  ASSUME Inv, [Next]_vars
  PROVE  Grown /\ filled' \in Nat /\ filled <= filled'
<1>1. (UNCHANGED disk) => Grown
  BY DEF Grown, disk, Inv, TypeOK, Behind
<1>2. FlushSync => Grown
  BY FlushSyncWrites
<1>3. \A ps : WriteBack(ps) => Grown
  BY WriteBackGrows DEF Inv
<1>4. CASE CopyWord
  BY <1>1, <1>4 DEF CopyWord, Inv, TypeOK
<1>5. CASE Cadence
  BY <1>1, <1>2, <1>5 DEF Cadence, FlushAsync, Inv, TypeOK, disk
<1>6. CASE RunEnds
  BY <1>2, <1>6 DEF RunEnds, Inv, TypeOK
<1>7. CASE Close
  BY <1>3, <1>7 DEF Close, Inv, TypeOK
<1>8. CASE KernelWriteBack
  BY <1>3, <1>8 DEF KernelWriteBack, seqr, Inv, TypeOK
<1>9. CASE \/ Stamp \/ AdvanceCount \/ Push \/ Kill \/ PowerFailure \/ Open \/ Replay
           \/ UNCHANGED vars
  BY <1>1, <1>9 DEF Stamp, AdvanceCount, Push, Kill, PowerFailure, Open, Replay, vars, disk, seqr,
                    Inv, TypeOK
<1> QED BY <1>4, <1>5, <1>6, <1>7, <1>8, <1>9 DEF Next, Done

LEMMA TypeStep ==
  ASSUME Inv, [Next]_vars
  PROVE  TypeOK' /\ count <= count'
<1>1. /\ durable' \in [Page -> Nat] /\ hdr' \in 0 .. count /\ filled' \in Nat
  BY DiskStep DEF Grown
<1> USE <1>1, LayoutAssumption DEF Inv, TypeOK, seqr, rest
<1>2. CASE Stamp
  BY <1>2 DEF Stamp
<1>3. CASE CopyWord
  BY <1>3 DEF CopyWord
<1>4. CASE AdvanceCount
  BY <1>4 DEF AdvanceCount, Appending
<1>5. CASE Push
  BY <1>5 DEF Push, Appending
<1>6. CASE Cadence
  <2>1. CASE ~IntervalOver
    BY <1>6, <2>1 DEF Cadence
  <2>2. CASE IntervalOver
    BY <1>6, <2>2 DEF Cadence, FlushSync, FlushAsync
  <2> QED BY <2>1, <2>2
<1>7. CASE RunEnds
  BY <1>7 DEF RunEnds, FlushSync
<1>8. CASE Close
  BY <1>8 DEF Close
<1>9. CASE KernelWriteBack
  BY <1>9 DEF KernelWriteBack
<1>10. CASE Kill \/ PowerFailure \/ Open
  BY <1>10 DEF Kill, PowerFailure, Open
<1>11. CASE Replay
  BY <1>11 DEF Replay
<1>12. CASE UNCHANGED vars
  BY <1>12 DEF vars
<1> QED BY <1>2, <1>3, <1>4, <1>5, <1>6, <1>7, <1>8, <1>9, <1>10, <1>11, <1>12 DEF Next, Done

LEMMA AppendingStep ==
  ASSUME Inv, [Next]_vars
  PROVE  Appending'
<1> USE LayoutAssumption DEF Inv, TypeOK, Appending, seqr, rest
<1>1. CASE Stamp
  <2>1. (count + 1) * RecWords = count * RecWords + RecWords /\ count * RecWords \in Nat
    OBVIOUS
  <2> QED BY <1>1, <2>1 DEF Stamp
<1>2. CASE CopyWord
  <2>1. (count + 1) * RecWords \in Nat /\ count * RecWords \in Nat
    OBVIOUS
  <2> QED BY <1>2, <2>1 DEF CopyWord, RecordCopied
<1>3. CASE AdvanceCount
  BY <1>3 DEF AdvanceCount, RecordCopied
<1>4. CASE Push \/ RunEnds \/ Close \/ KernelWriteBack \/ Kill \/ PowerFailure \/ Open \/ Replay
  BY <1>4 DEF Push, RunEnds, Close, KernelWriteBack, Kill, PowerFailure, Open, Replay
<1>5. CASE Cadence
  BY <1>5 DEF Cadence
<1>6. CASE UNCHANGED vars
  BY <1>6 DEF vars
<1> QED BY <1>1, <1>2, <1>3, <1>4, <1>5, <1>6 DEF Next, Done

LEMMA BehindStep ==
  ASSUME Inv, [Next]_vars
  PROVE  Behind'
<1> SUFFICES ASSUME NEW p \in Page PROVE durable'[p] <= InMemory(p)'
  BY DEF Behind
<1>1. /\ durable'[p] \in Nat /\ durable'[p] <= InMemory(p)
      /\ filled' \in Nat /\ filled <= filled'
  BY DiskStep DEF Grown
<1>2. InMemory(p) \in Nat /\ InMemory(p) <= InMemory(p)' /\ InMemory(p)' \in Nat
  BY <1>1, MemoryGrows DEF Inv
<1> QED BY <1>1, <1>2

(* A word on disk stays there.                                             *)
LEMMA OnDiskStays ==
  ASSUME Inv, Grown, NEW i \in 0 .. count - 1, NEW w \in 0 .. RecWords - 1, OnDisk(Word(i, w))
  PROVE  Word(i, w) < durable'[PageOf(Word(i, w))]
<1>1. Word(i, w) \in Nat /\ PageOf(Word(i, w)) \in Page
  BY CopiedStored DEF Inv
<1> QED BY <1>1 DEF Inv, TypeOK, Grown, OnDisk

LEMMA CheckpointStep ==
  ASSUME Inv, [Next]_vars
  PROVE  (hdr >= checkpoint.to /\ Records)'
<1>1. Grown
  BY DiskStep
<1>2. ASSUME checkpoint' = checkpoint
      PROVE  (hdr >= checkpoint.to /\ Records)'
  <2>1. (hdr >= checkpoint.to)'
    BY <1>1, <1>2 DEF Inv, TypeOK, Grown
  <2>2. ASSUME NEW i \in checkpoint.from .. checkpoint.to - 1, NEW w \in 0 .. RecWords - 1
        PROVE  Word(i, w) < durable'[PageOf(Word(i, w))]
    <3>1. i \in 0 .. count - 1 /\ OnDisk(Word(i, w))
      BY DEF Inv, TypeOK, Records
    <3> QED BY <1>1, <3>1, OnDiskStays
  <2> QED BY <1>2, <2>1, <2>2 DEF Records, OnDisk, PageOf, Word
<1>3. ASSUME FlushSync PROVE (hdr >= checkpoint.to /\ Records)'
  <2>1. checkpoint'.from = synced_count /\ checkpoint'.to = count
    BY <1>3 DEF FlushSync
  <2>2. /\ hdr' = count
        /\ \A i \in synced_count .. count - 1 : \A w \in 0 .. RecWords - 1 :
             Word(i, w) < durable'[PageOf(Word(i, w))]
    BY <1>3, FlushSyncWrites
  <2> QED BY <2>1, <2>2 DEF Records, OnDisk, PageOf, Word, Inv, TypeOK
<1>4. FlushSync \/ checkpoint' = checkpoint
  BY DEF Next, Stamp, CopyWord, AdvanceCount, Push, Cadence, FlushAsync, RunEnds, Close,
         KernelWriteBack, Kill, PowerFailure, Open, Replay, Done, vars
<1> QED BY <1>2, <1>3, <1>4

LEMMA HeaderStep ==
  ASSUME Inv, [Next]_vars
  PROVE  HeaderOnDisk'
<1>1. durable[0] \in Nat /\ durable'[0] \in Nat /\ durable[0] <= durable'[0]
  BY DiskStep, ZeroPage DEF Grown, Inv, TypeOK
<1>2. FlushSync => durable'[0] > 0
  BY FlushSyncWrites
<1> USE <1>1 DEF Inv, TypeOK, HeaderOnDisk, rest, disk
<1>3. CASE Stamp \/ CopyWord \/ AdvanceCount \/ Push \/ Kill \/ PowerFailure \/ Replay
  BY <1>3 DEF Stamp, CopyWord, AdvanceCount, Push, Kill, PowerFailure, Replay, seqr
<1>4. CASE Cadence
  BY <1>2, <1>4 DEF Cadence, FlushAsync
<1>5. CASE RunEnds
  BY <1>2, <1>5 DEF RunEnds
<1>6. CASE Close
  BY <1>6 DEF Close
<1>7. CASE KernelWriteBack
  BY <1>7 DEF KernelWriteBack, seqr
<1>8. CASE Open
  BY <1>8 DEF Open, HeaderValid, seqr
<1>9. CASE UNCHANGED vars
  BY <1>9 DEF vars
<1> QED BY <1>3, <1>4, <1>5, <1>6, <1>7, <1>8, <1>9 DEF Next, Done

LEMMA AllOnDiskStep ==
  ASSUME Inv, [Next]_vars
  PROVE  AllOnDisk'
<1> SUFFICES ASSUME pc' = "closed" PROVE AllOnDisk'
  BY DEF AllOnDisk
<1>1. Grown
  BY DiskStep
<1>2. CASE Close
  <2>1. WriteBack(Page) /\ count' = count
    BY <1>2 DEF Close, WholeMapping
  <2>2. \A p \in Page : durable'[p] = InMemory(p)
    BY <2>1, WriteBackGrows DEF Inv
  <2>3. hdr' = count
    BY <2>1, ZeroPage DEF WriteBack
  <2>4. ASSUME NEW i \in 0 .. count - 1, NEW w \in 0 .. RecWords - 1
        PROVE  Word(i, w) < durable'[PageOf(Word(i, w))]
    BY <2>2, CopiedStored DEF Inv
  <2> QED BY <2>1, <2>3, <2>4 DEF AllOnDisk, OnDisk, PageOf, Word
<1>3. CASE pc = "closed" /\ count' = count
  <2>1. hdr' = count
    BY <1>1, <1>3 DEF Inv, AllOnDisk, Grown, TypeOK
  <2>2. ASSUME NEW i \in 0 .. count - 1, NEW w \in 0 .. RecWords - 1
        PROVE  Word(i, w) < durable'[PageOf(Word(i, w))]
    BY <1>1, <1>3, OnDiskStays DEF Inv, AllOnDisk
  <2> QED BY <1>3, <2>1, <2>2 DEF AllOnDisk, OnDisk, PageOf, Word
<1>4. Close \/ (pc = "closed" /\ count' = count)
  BY DEF Next, Stamp, CopyWord, AdvanceCount, Push, Cadence, RunEnds,
         KernelWriteBack, Kill, PowerFailure, Open, Replay, Done, vars, seqr
<1> QED BY <1>2, <1>3, <1>4

(* When every record replay looks at is there, it stops at none of them.   *)
LEMMA ReplayTakesAll ==
  ASSUME Inv, image = "memory" \/ pc = "closed", Replay
  PROVE  replayed' = count
<1>1. ASSUME NEW i \in 0 .. count - 1 PROVE SeqOf(i) = i
  <2>1. SeqWord \in 0 .. RecWords - 1
    BY LayoutAssumption
  <2>2. Word(i, SeqWord) < Stored
    BY <2>1, CopiedStored DEF Inv
  <2>3. pc = "closed" => OnDisk(Word(i, SeqWord))
    BY <2>1 DEF Inv, AllOnDisk
  <2>4. Present(Word(i, SeqWord))
    BY <2>2, <2>3 DEF Present
  <2> QED BY <2>4 DEF SeqOf
<1>2. ASSUME NEW i \in 0 .. count - 1 PROVE InSequence(i)
  <2>1. 0 \in 0 .. count - 1
    BY DEF Inv, TypeOK
  <2>2. SeqOf(i) = i /\ SeqOf(0) = 0
    BY <1>1, <2>1
  <2> QED BY <2>2 DEF InSequence
<1>3. (IF image = "memory" THEN count ELSE hdr) = count
  BY DEF Inv, AllOnDisk
<1>4. PICK k \in 0 .. count : (k < count => ~InSequence(k)) /\ replayed' = k
  BY <1>3 DEF Replay
<1>5. k < count => k \in 0 .. count - 1
  BY <1>4 DEF Inv, TypeOK
<1> QED BY <1>2, <1>4, <1>5 DEF Inv, TypeOK

LEMMA AllReplayedStep ==
  ASSUME Inv, [Next]_vars
  PROVE  AllReplayed'
<1> USE DEF AllReplayed
<1>1. CASE Replay
  <2>1. UNCHANGED <<image, pc, count>>
    BY <1>1 DEF Replay, seqr
  <2> QED BY <1>1, <2>1, ReplayTakesAll
<1>2. CASE UNCHANGED vars
  BY <1>2 DEF vars, Inv
<1>3. CASE /\ ~Replay /\ Next /\ ~UNCHANGED vars
  <2>1. status' # "recovered"
    BY <1>3 DEF Next, Stamp, CopyWord, AdvanceCount, Push, Cadence, RunEnds, Close,
                KernelWriteBack, Kill, PowerFailure, Open, Done, rest
  <2> QED BY <2>1
<1> QED BY <1>1, <1>2, <1>3

LEMMA InvStep == Inv /\ [Next]_vars => Inv'
BY TypeStep, AppendingStep, BehindStep, HeaderStep, AllOnDiskStep, AllReplayedStep,
   CheckpointStep DEF Inv

(* The invariant the results below rest on: publish keeps the cursors in   *)
(* order, and sync_dirty and the destructor leave on disk what they claim. *)
THEOREM InvHolds == Spec => []Inv
BY InitInv, InvStep, PTL DEF Spec

-----------------------------------------------------------------------------
(* The properties.                                                         *)

(* A killed process loses no order the matcher may have seen: append comes *)
(* before try_publish, and count after the whole record.                   *)
THEOREM KilledLosesNothingHolds == Spec => []KilledLosesNothing
<1>1. Inv => KilledLosesNothing
  BY CopiedStored DEF Inv, TypeOK, AllReplayed, KilledLosesNothing, Whole, Present
<1> QED BY <1>1, InvHolds, PTL

(* After ~Journaler replay gives back every order, whole, whatever happens *)
(* to the machine then.                                                    *)
THEOREM ClosedIsDurableHolds == Spec => []ClosedIsDurable
<1>1. Inv => ClosedIsDurable
  BY CopiedStored DEF Inv, TypeOK, AllReplayed, AllOnDisk, ClosedIsDurable, Whole, Present
<1> QED BY <1>1, InvHolds, PTL

(* flush_sync has written its records and the count whatever the alignment *)
(* of records to pages, and the log can be opened from then on.            *)
THEOREM CheckpointOnDiskHolds == Spec => []CheckpointOnDisk
<1>1. Inv => CheckpointOnDisk
  BY DEF Inv, TypeOK, Records, HeaderOnDisk, CheckpointOnDisk
<1> QED BY <1>1, InvHolds, PTL

-----------------------------------------------------------------------------
(* The loss window when every flush is a checkpoint.                       *)

Cadenced ==
  /\ since_flush < flush_interval
  /\ count - synced_count <= since_flush + (IF pc \in {"push", "cadence"} THEN 1 ELSE 0)

Synced ==
  /\ synced_count <= hdr
  /\ \A i \in 0 .. synced_count - 1 : \A w \in 0 .. RecWords - 1 : OnDisk(Word(i, w))

Window == status = "recovered" => count - replayed <= flush_interval

SyncInv == Cadenced /\ Synced /\ Window

LEMMA CadencedStep ==
  ASSUME Inv, Cadenced, [Next]_vars
  PROVE  Cadenced'
<1> USE LayoutAssumption DEF Inv, TypeOK, Cadenced, seqr, rest
<1>1. CASE Stamp \/ CopyWord \/ AdvanceCount \/ Push
  BY <1>1 DEF Stamp, CopyWord, AdvanceCount, Push
<1>2. CASE Cadence
  BY <1>2 DEF Cadence, IntervalOver, FlushSync, FlushAsync
<1>3. CASE RunEnds
  BY <1>3 DEF RunEnds, FlushSync
<1>4. CASE Close \/ KernelWriteBack \/ Kill \/ PowerFailure \/ Open \/ Replay
  BY <1>4 DEF Close, KernelWriteBack, Kill, PowerFailure, Open, Replay
<1>5. CASE UNCHANGED vars
  BY <1>5 DEF vars
<1> QED BY <1>1, <1>2, <1>3, <1>4, <1>5 DEF Next, Done

LEMMA SyncedStep ==
  ASSUME sync_every = 1, Inv, Synced, [Next]_vars
  PROVE  Synced'
<1>1. Grown
  BY DiskStep
<1>2. ASSUME NEW i \in 0 .. synced_count - 1, NEW w \in 0 .. RecWords - 1
      PROVE  Word(i, w) < durable'[PageOf(Word(i, w))]
  <2>1. i \in 0 .. count - 1 /\ OnDisk(Word(i, w))
    BY DEF Inv, TypeOK, Synced
  <2> QED BY <1>1, <2>1, OnDiskStays
<1>3. CASE synced_count' = synced_count
  <2>1. synced_count' <= hdr'
    BY <1>1, <1>3 DEF Grown, Inv, TypeOK, Synced
  <2> QED BY <1>2, <1>3, <2>1 DEF Synced, OnDisk, PageOf, Word
<1>4. CASE FlushSync
  <2>1. synced_count' = count /\ hdr' = count
    BY <1>4, FlushSyncWrites DEF FlushSync
  <2>2. ASSUME NEW i \in 0 .. count - 1, NEW w \in 0 .. RecWords - 1
        PROVE  Word(i, w) < durable'[PageOf(Word(i, w))]
    <3>1. i \in 0 .. synced_count - 1 \/ i \in synced_count .. count - 1
      BY DEF Inv, TypeOK
    <3> QED BY <1>2, <1>4, <3>1, FlushSyncWrites
  <2> QED BY <2>1, <2>2 DEF Synced, OnDisk, PageOf, Word, Inv, TypeOK
<1>5. Cadence => FlushSync \/ synced_count' = synced_count
  <2>1. (flush_no + 1) % 1 = 0
    BY DEF Inv, TypeOK
  <2> QED BY <2>1 DEF Cadence
<1>6. FlushSync \/ synced_count' = synced_count
  BY <1>5 DEF Next, Stamp, CopyWord, AdvanceCount, Push, RunEnds, Close,
         KernelWriteBack, Kill, PowerFailure, Open, Replay, Done, vars
<1> QED BY <1>3, <1>4, <1>6

(* Replay gets at least as far as the last checkpoint.                     *)
LEMMA ReplayTakesSynced ==
  ASSUME Inv, Synced, Replay
  PROVE  synced_count <= replayed'
<1>1. ASSUME NEW i \in 0 .. synced_count - 1 PROVE SeqOf(i) = i
  <2>1. SeqWord \in 0 .. RecWords - 1 /\ i \in 0 .. count - 1
    BY LayoutAssumption DEF Inv, TypeOK
  <2>2. Word(i, SeqWord) < Stored
    BY <2>1, CopiedStored DEF Inv
  <2>3. OnDisk(Word(i, SeqWord))
    BY <2>1 DEF Synced
  <2> QED BY <2>2, <2>3 DEF SeqOf, Present
<1>2. ASSUME NEW i \in 0 .. synced_count - 1 PROVE InSequence(i)
  <2>1. 0 \in 0 .. synced_count - 1
    BY DEF Inv, TypeOK
  <2>2. SeqOf(i) = i /\ SeqOf(0) = 0
    BY <1>1, <2>1
  <2> QED BY <2>2 DEF InSequence
<1> DEFINE n == IF image = "memory" THEN count ELSE hdr
<1>3. n \in Nat /\ synced_count <= n
  BY DEF Inv, TypeOK, Synced
<1>4. PICK k \in 0 .. n : (k < n => ~InSequence(k)) /\ replayed' = k
  BY DEF Replay
<1> HIDE DEF n
<1>5. k < synced_count => k \in 0 .. synced_count - 1
  BY <1>3, <1>4 DEF Inv, TypeOK
<1> QED BY <1>2, <1>3, <1>4, <1>5 DEF Inv, TypeOK

LEMMA WindowStep ==
  ASSUME Inv, SyncInv, [Next]_vars
  PROVE  Window'
<1>1. CASE Replay
  <2>1. synced_count <= replayed' /\ replayed' \in Nat
    <3>1. replayed' \in Nat
      BY TypeStep DEF TypeOK
    <3> QED BY <1>1, <3>1, ReplayTakesSynced DEF SyncInv
  <2>2. count - synced_count <= flush_interval
    BY LayoutAssumption DEF SyncInv, Cadenced, Inv, TypeOK
  <2>3. count' = count
    BY <1>1 DEF Replay, seqr
  <2> QED BY <2>1, <2>2, <2>3, LayoutAssumption DEF Window, Inv, TypeOK
<1>2. CASE UNCHANGED vars
  BY <1>2 DEF vars, SyncInv, Window
<1>3. CASE /\ ~Replay /\ Next /\ ~UNCHANGED vars
  BY <1>3 DEF Next, Stamp, CopyWord, AdvanceCount, Push, Cadence, RunEnds, Close,
              KernelWriteBack, Kill, PowerFailure, Open, Done, rest, Window
<1> QED BY <1>1, <1>2, <1>3

(* With sync_every = 1 the loss window the configuration promises is kept: *)
(* at most flush_interval orders are lost by a power failure.  (With a     *)
(* larger sync_every it is not, since flush_async moves synced_count past  *)
(* records that the next flush_sync then leaves out.)                      *)
THEOREM LossWindowOfCheckpoints ==
  ASSUME sync_every = 1
  PROVE  Spec => []LossWindow
<1>1. Init => SyncInv
  BY LayoutAssumption DEF Init, SyncInv, Cadenced, Synced, Window
<1>2. Inv /\ SyncInv /\ [Next]_vars => SyncInv'
  BY CadencedStep, SyncedStep, WindowStep DEF SyncInv
<1>3. Inv /\ SyncInv => LossWindow
  BY LayoutAssumption DEF SyncInv, Window, LossWindow
<1> QED BY <1>1, <1>2, <1>3, InvHolds, PTL DEF Spec
=============================================================================
