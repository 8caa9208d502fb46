------------------------- MODULE SnapshotPoolProofs -------------------------
(***************************************************************************)
(* The snapshot pool never shows a torn image, never makes the matcher     *)
(* skip a cycle, and never loses the final image, for every number of      *)
(* slots >= 3, every retry bound and every length of run.                  *)
(***************************************************************************)
EXTENDS SnapshotPool, TLAPS

(* The writer owns slot wj.                                                *)
Filling == wpc \in {"levels", "header", "publish"}

(* The reader has loaded an index from published_.                         *)
Loaded  == rpc \notin {"poll", "load", "exit"}

(* The reader's flag is up; acquire has returned the buffer.               *)
Holding == rpc \in {"compare", "copyhdr", "copylvl", "sendto", "release"}
Flagged == Holding \/ rpc \in {"recheck", "unclaim"}

Whole(i) == buf[i].hdr = buf[i].lvl

(* The reader raises one flag at a time, on the index it loaded.           *)
FlagInv ==
  /\ \A i \in Slot : inUse[i] => Flagged /\ i = ridx
  /\ Flagged => inUse[ridx]
  /\ Loaded => published # None

(* Who may touch which buffer, and what is in it.                          *)
BufferInv ==
  /\ published # None => Whole(published)
  /\ Filling => wj # published
  /\ wpc \in {"header", "publish"} => buf[wj].lvl = seq
  /\ wpc = "publish" => buf[wj].hdr = seq
  /\ Holding => Whole(ridx) /\ (Filling => wj # ridx)
  /\ rpc = "copylvl" => msg.hdr = buf[ridx].hdr
  /\ rpc = "sendto" => msg.hdr = buf[ridx].hdr /\ msg.lvl = buf[ridx].hdr
  /\ wire.hdr = wire.lvl

(* At most one slot besides the live one was busy in this scan: the reader *)
(* that held it can since have moved only to the live one.                 *)
ScanInv ==
  /\ ~skipped
  /\ wpc = "scan" =>
       \A a \in 0 .. wj - 1 :
         a # published =>
           /\ Loaded => ridx = a \/ ridx = published
           /\ \A b \in 0 .. wj - 1 : b # published => a = b

(* Published images get newer, and the reader never runs ahead of them.    *)
OrderInv ==
  /\ lastSeq <= seq
  /\ published # None => lastSeq <= buf[published].hdr /\ buf[published].hdr <= seq
  /\ Holding => lastSeq <= buf[ridx].hdr /\ buf[ridx].hdr <= buf[published].hdr
  /\ rpc \in {"copyhdr", "copylvl", "sendto"} => buf[ridx].hdr # lastSeq
  /\ rpc = "release" /\ sendOk => lastSeq = buf[ridx].hdr

(* The last pass starts after the writer has stopped, so its first claim   *)
(* succeeds.                                                               *)
FinalInv ==
  /\ matcherDone <=> wpc = "exit"
  /\ final => matcherDone
  /\ rpc = "exit" => final
  /\ final /\ rpc = "load" => attempt = 0
  /\ final /\ Loaded => ridx = published
  /\ final => rpc \notin {"poll", "unclaim"}
  /\ FinalImageSent

Inv == TypeOK /\ FlagInv /\ BufferInv /\ ScanInv /\ OrderInv /\ FinalInv

-----------------------------------------------------------------------------

(* The types are preserved by every step.                                  *)
LEMMA TypeOKStep == Inv /\ [Next]_vars => TypeOK'
<1> SUFFICES ASSUME Inv, [Next]_vars PROVE TypeOK'
  OBVIOUS
<1> USE SlotsAssumption, RetriesAssumption, MaxSeqAssumption
    DEF Inv, TypeOK, Slot, None, Image
<1>1. CASE BeginSnapshot
  BY <1>1 DEF BeginSnapshot, readerVars
<1>2. CASE ReserveFreeSlot
  BY <1>2 DEF ReserveFreeSlot, readerVars, Busy
<1>3. CASE FillLevels
  <2>1. [buf[wj] EXCEPT !.lvl = seq] \in Image
    <3>1. buf[wj] \in [hdr : Int, lvl : Int] /\ seq \in Int
      OBVIOUS
    <3> QED
      BY <3>1
  <2>2. buf' = [buf EXCEPT ![wj] = [buf[wj] EXCEPT !.lvl = seq]]
    BY <1>3 DEF FillLevels
  <2>3. buf' \in [Slot -> Image]
    BY <2>1, <2>2
  <2> QED
    BY <1>3, <2>3 DEF FillLevels, readerVars
<1>4. CASE FillHeader
  <2>1. [buf[wj] EXCEPT !.hdr = seq] \in Image
    <3>1. buf[wj] \in [hdr : Int, lvl : Int] /\ seq \in Int
      OBVIOUS
    <3> QED
      BY <3>1
  <2>2. buf' = [buf EXCEPT ![wj] = [buf[wj] EXCEPT !.hdr = seq]]
    BY <1>4 DEF FillHeader
  <2>3. buf' \in [Slot -> Image]
    BY <2>1, <2>2
  <2> QED
    BY <1>4, <2>3 DEF FillHeader, readerVars
<1>5. CASE Publish
  BY <1>5 DEF Publish, readerVars
<1>6. CASE MatcherExit
  BY <1>6 DEF MatcherExit, readerVars
<1>7. CASE Poll
  BY <1>7 DEF Poll, writerVars
<1>8. CASE LoadPublished
  BY <1>8 DEF LoadPublished, writerVars, GiveUp, AfterSend
<1>9. CASE Claim
  BY <1>9 DEF Claim, writerVars
<1>10. CASE Recheck
  BY <1>10 DEF Recheck, writerVars, StillLive
<1>11. CASE Unclaim
  BY <1>11 DEF Unclaim, writerVars, ClearFlag
<1>12. CASE CompareSeq
  BY <1>12 DEF CompareSeq, writerVars, Fresh
<1>13. CASE CopyHeader
  BY <1>13 DEF CopyHeader, writerVars
<1>14. CASE CopyLevels
  BY <1>14 DEF CopyLevels, writerVars
<1>15. CASE SendReturns
  <2>1. sendOk' \in BOOLEAN
    BY <1>15 DEF SendReturns
  <2>2. wire' \in Image /\ sent' \in Nat /\ lastSeq' \in Int
    BY <1>15 DEF SendReturns
  <2> QED
    BY <1>15, <2>1, <2>2 DEF SendReturns, writerVars
<1>16. CASE Release
  BY <1>16 DEF Release, writerVars, ClearFlag, AfterSend
<1>17. CASE UNCHANGED vars
  BY <1>17 DEF vars
<1> QED
  BY <1>1, <1>2, <1>3, <1>4, <1>5, <1>6, <1>7, <1>8, <1>9, <1>10, <1>11,
     <1>12, <1>13, <1>14, <1>15, <1>16, <1>17 DEF Next, Writer, Reader,
     Terminated

(* The reader's single flag.                                               *)
LEMMA FlagInvStep == Inv /\ [Next]_vars => FlagInv'
<1> SUFFICES ASSUME Inv, [Next]_vars PROVE FlagInv'
  OBVIOUS
<1> USE SlotsAssumption, RetriesAssumption, MaxSeqAssumption
    DEF Inv, TypeOK, Slot, None, Image, FlagInv, Flagged, Holding, Loaded
<1>1. CASE BeginSnapshot
  BY <1>1 DEF BeginSnapshot, readerVars
<1>2. CASE ReserveFreeSlot
  BY <1>2 DEF ReserveFreeSlot, readerVars, Busy
<1>3. CASE FillLevels
  BY <1>3 DEF FillLevels, readerVars
<1>4. CASE FillHeader
  BY <1>4 DEF FillHeader, readerVars
<1>5. CASE Publish
  BY <1>5 DEF Publish, readerVars
<1>6. CASE MatcherExit
  BY <1>6 DEF MatcherExit, readerVars
<1>7. CASE Poll
  BY <1>7 DEF Poll, writerVars
<1>8. CASE LoadPublished
  BY <1>8 DEF LoadPublished, writerVars, GiveUp, AfterSend
<1>9. CASE Claim
  BY <1>9 DEF Claim, writerVars
<1>10. CASE Recheck
  BY <1>10 DEF Recheck, writerVars, StillLive
<1>11. CASE Unclaim
  BY <1>11 DEF Unclaim, writerVars, ClearFlag
<1>12. CASE CompareSeq
  BY <1>12 DEF CompareSeq, writerVars, Fresh
<1>13. CASE CopyHeader
  BY <1>13 DEF CopyHeader, writerVars
<1>14. CASE CopyLevels
  BY <1>14 DEF CopyLevels, writerVars
<1>15. CASE SendReturns
  BY <1>15 DEF SendReturns, writerVars
<1>16. CASE Release
  BY <1>16 DEF Release, writerVars, ClearFlag, AfterSend
<1>17. CASE UNCHANGED vars
  BY <1>17 DEF vars
<1> QED
  BY <1>1, <1>2, <1>3, <1>4, <1>5, <1>6, <1>7, <1>8, <1>9, <1>10, <1>11,
     <1>12, <1>13, <1>14, <1>15, <1>16, <1>17 DEF Next, Writer, Reader,
     Terminated

(* Exclusive access and whole images.                                      *)
LEMMA BufferInvStep == Inv /\ [Next]_vars => BufferInv'
<1> SUFFICES ASSUME Inv, [Next]_vars PROVE BufferInv'
  OBVIOUS
<1> USE SlotsAssumption, RetriesAssumption, MaxSeqAssumption
    DEF Inv, TypeOK, Slot, None, Image, BufferInv, FlagInv, Filling, Whole, Flagged, Holding
<1>1. CASE BeginSnapshot
  BY <1>1 DEF BeginSnapshot, readerVars
<1>2. CASE ReserveFreeSlot
  BY <1>2 DEF ReserveFreeSlot, readerVars, Busy
<1>3. CASE FillLevels
  BY <1>3 DEF FillLevels, readerVars
<1>4. CASE FillHeader
  BY <1>4 DEF FillHeader, readerVars
<1>5. CASE Publish
  BY <1>5 DEF Publish, readerVars
<1>6. CASE MatcherExit
  BY <1>6 DEF MatcherExit, readerVars
<1>7. CASE Poll
  BY <1>7 DEF Poll, writerVars
<1>8. CASE LoadPublished
  BY <1>8 DEF LoadPublished, writerVars, GiveUp, AfterSend
<1>9. CASE Claim
  BY <1>9 DEF Claim, writerVars
<1>10. CASE Recheck
  BY <1>10 DEF Recheck, writerVars, StillLive
<1>11. CASE Unclaim
  BY <1>11 DEF Unclaim, writerVars, ClearFlag
<1>12. CASE CompareSeq
  BY <1>12 DEF CompareSeq, writerVars, Fresh
<1>13. CASE CopyHeader
  BY <1>13 DEF CopyHeader, writerVars
<1>14. CASE CopyLevels
  BY <1>14 DEF CopyLevels, writerVars
<1>15. CASE SendReturns
  BY <1>15 DEF SendReturns, writerVars
<1>16. CASE Release
  BY <1>16 DEF Release, writerVars, ClearFlag, AfterSend
<1>17. CASE UNCHANGED vars
  BY <1>17 DEF vars
<1> QED
  BY <1>1, <1>2, <1>3, <1>4, <1>5, <1>6, <1>7, <1>8, <1>9, <1>10, <1>11,
     <1>12, <1>13, <1>14, <1>15, <1>16, <1>17 DEF Next, Writer, Reader,
     Terminated

(* One iteration of reserve_free_slot keeps ScanInv: a second busy slot,  *)
(* and so a last slot that is busy, would need a reader in two places.     *)
LEMMA ReserveScan == Inv /\ ReserveFreeSlot => ScanInv'
<1> SUFFICES ASSUME Inv, ReserveFreeSlot PROVE ScanInv'
  OBVIOUS
<1> DEFINE Seen(a) == a \in 0 .. wj - 1 /\ a # published
<1>1. wj \in Nat /\ Slots \in Nat /\ Slots >= 3 /\ wj < Slots
  BY SlotsAssumption DEF Inv, TypeOK, Slot
<1>2. \A a, b : Seen(a) /\ Seen(b) => a = b
  BY DEF Inv, ScanInv, ReserveFreeSlot
<1>3. \A a : Seen(a) /\ Loaded => ridx = a \/ ridx = published
  BY DEF Inv, ScanInv, ReserveFreeSlot
<1>4. inUse[wj] => Loaded /\ ridx = wj
  BY DEF Inv, TypeOK, FlagInv, Flagged, Holding, Loaded
<1>5. UNCHANGED <<published, ridx, rpc>> /\ (Loaded' <=> Loaded)
  BY DEF ReserveFreeSlot, readerVars, Loaded
<1>6. ~skipped
  BY DEF Inv, ScanInv
<1>7. CASE ~Busy(wj)
  BY <1>6, <1>7 DEF ReserveFreeSlot, ScanInv
<1>8. CASE Busy(wj)
  <2> DEFINE SeenNext(a) == a \in 0 .. wj /\ a # published
  <2>1. \A a : SeenNext(a) => Seen(a) \/ (a = wj /\ a # published)
    BY <1>1
  <2>2. wj # published => inUse[wj]
    BY <1>8 DEF Busy
  <2>3. wj # published => \A a : ~Seen(a)
    BY <1>1, <1>3, <1>4, <2>2
  <2>4. \A a, b : SeenNext(a) /\ SeenNext(b) => a = b
    BY <1>2, <2>1, <2>3
  <2>5. \A a : SeenNext(a) /\ Loaded => ridx = a \/ ridx = published
    BY <1>3, <1>4, <2>1, <2>2
  <2>6. wj + 1 # Slots
    <3> SUFFICES ASSUME wj + 1 = Slots PROVE FALSE
      OBVIOUS
    <3>1. 0 \in 0 .. wj /\ 1 \in 0 .. wj /\ 2 \in 0 .. wj
      BY <1>1
    <3>2. SeenNext(0) \/ published = 0
      BY <3>1
    <3>3. SeenNext(1) \/ published = 1
      BY <3>1
    <3>4. SeenNext(2) \/ published = 2
      BY <3>1
    <3> HIDE DEF SeenNext
    <3> QED
      BY <2>4, <3>2, <3>3, <3>4
  <2>7. wj' = wj + 1 /\ ~skipped'
    BY <1>6, <1>8, <2>6 DEF ReserveFreeSlot
  <2>8. \A a : a \in 0 .. wj' - 1 /\ a # published' => SeenNext(a)
    BY <1>1, <1>5, <2>7
  <2> HIDE DEF SeenNext
  <2> QED
    BY <1>5, <2>4, <2>5, <2>7, <2>8 DEF ScanInv
<1> QED
  BY <1>7, <1>8

(* The scan of reserve_free_slot meets at most one busy slot.              *)
LEMMA ScanInvStep == Inv /\ [Next]_vars => ScanInv'
<1> SUFFICES ASSUME Inv, [Next]_vars PROVE ScanInv'
  OBVIOUS
<1> USE SlotsAssumption, RetriesAssumption, MaxSeqAssumption
    DEF Inv, TypeOK, Slot, None, Image, ScanInv, FlagInv, Flagged, Holding, Loaded
<1>1. CASE BeginSnapshot
  BY <1>1 DEF BeginSnapshot, readerVars
<1>2. CASE ReserveFreeSlot
  BY <1>2, ReserveScan
<1>3. CASE FillLevels
  BY <1>3 DEF FillLevels, readerVars
<1>4. CASE FillHeader
  BY <1>4 DEF FillHeader, readerVars
<1>5. CASE Publish
  BY <1>5 DEF Publish, readerVars
<1>6. CASE MatcherExit
  BY <1>6 DEF MatcherExit, readerVars
<1>7. CASE Poll
  BY <1>7 DEF Poll, writerVars
<1>8. CASE LoadPublished
  BY <1>8 DEF LoadPublished, writerVars, GiveUp, AfterSend
<1>9. CASE Claim
  BY <1>9 DEF Claim, writerVars
<1>10. CASE Recheck
  BY <1>10 DEF Recheck, writerVars, StillLive
<1>11. CASE Unclaim
  BY <1>11 DEF Unclaim, writerVars, ClearFlag
<1>12. CASE CompareSeq
  BY <1>12 DEF CompareSeq, writerVars, Fresh
<1>13. CASE CopyHeader
  BY <1>13 DEF CopyHeader, writerVars
<1>14. CASE CopyLevels
  BY <1>14 DEF CopyLevels, writerVars
<1>15. CASE SendReturns
  BY <1>15 DEF SendReturns, writerVars
<1>16. CASE Release
  BY <1>16 DEF Release, writerVars, ClearFlag, AfterSend
<1>17. CASE UNCHANGED vars
  BY <1>17 DEF vars
<1> QED
  BY <1>1, <1>2, <1>3, <1>4, <1>5, <1>6, <1>7, <1>8, <1>9, <1>10, <1>11,
     <1>12, <1>13, <1>14, <1>15, <1>16, <1>17 DEF Next, Writer, Reader,
     Terminated

(* The order of the images.                                                *)
LEMMA OrderInvStep == Inv /\ [Next]_vars => OrderInv'
<1> SUFFICES ASSUME Inv, [Next]_vars PROVE OrderInv'
  OBVIOUS
<1> USE SlotsAssumption, RetriesAssumption, MaxSeqAssumption
    DEF Inv, TypeOK, Slot, None, Image, OrderInv, BufferInv, FlagInv, Filling, Flagged, Holding, Loaded, Whole
<1>1. CASE BeginSnapshot
  BY <1>1 DEF BeginSnapshot, readerVars
<1>2. CASE ReserveFreeSlot
  BY <1>2 DEF ReserveFreeSlot, readerVars, Busy
<1>3. CASE FillLevels
  BY <1>3 DEF FillLevels, readerVars
<1>4. CASE FillHeader
  BY <1>4 DEF FillHeader, readerVars
<1>5. CASE Publish
  <2>1. /\ published' = wj /\ wj # None /\ buf[wj].hdr = seq
        /\ UNCHANGED <<buf, seq, rpc, ridx, lastSeq, sendOk>>
    BY <1>5 DEF Publish, readerVars
  <2>2. lastSeq <= seq
    OBVIOUS
  <2>3. Holding => lastSeq <= buf[ridx].hdr
    OBVIOUS
  <2>4. Holding => buf[ridx].hdr <= seq
    <3>1. SUFFICES ASSUME Holding PROVE buf[ridx].hdr <= seq
      OBVIOUS
    <3>2. published # None /\ published \in Slot /\ ridx \in Slot
      BY <3>1
    <3>3. buf[ridx].hdr \in Int /\ buf[published].hdr \in Int /\ seq \in Int
      BY <3>2
    <3>4. buf[ridx].hdr <= buf[published].hdr /\ buf[published].hdr <= seq
      BY <3>1, <3>2
    <3> HIDE DEF Inv, Holding
    <3> QED BY <3>3, <3>4
  <2>5. /\ rpc \in {"copyhdr", "copylvl", "sendto"} => buf[ridx].hdr # lastSeq
        /\ rpc = "release" /\ sendOk => lastSeq = buf[ridx].hdr
    OBVIOUS
  <2>6. seq \in Int
    OBVIOUS
  <2> HIDE DEF Inv
  <2> QED
    BY <2>1, <2>2, <2>3, <2>4, <2>5, <2>6
<1>6. CASE MatcherExit
  BY <1>6 DEF MatcherExit, readerVars
<1>7. CASE Poll
  BY <1>7 DEF Poll, writerVars
<1>8. CASE LoadPublished
  BY <1>8 DEF LoadPublished, writerVars, GiveUp, AfterSend
<1>9. CASE Claim
  BY <1>9 DEF Claim, writerVars
<1>10. CASE Recheck
  BY <1>10 DEF Recheck, writerVars, StillLive
<1>11. CASE Unclaim
  BY <1>11 DEF Unclaim, writerVars, ClearFlag
<1>12. CASE CompareSeq
  BY <1>12 DEF CompareSeq, writerVars, Fresh
<1>13. CASE CopyHeader
  BY <1>13 DEF CopyHeader, writerVars
<1>14. CASE CopyLevels
  BY <1>14 DEF CopyLevels, writerVars
<1>15. CASE SendReturns
  BY <1>15 DEF SendReturns, writerVars
<1>16. CASE Release
  BY <1>16 DEF Release, writerVars, ClearFlag, AfterSend
<1>17. CASE UNCHANGED vars
  BY <1>17 DEF vars
<1> QED
  BY <1>1, <1>2, <1>3, <1>4, <1>5, <1>6, <1>7, <1>8, <1>9, <1>10, <1>11,
     <1>12, <1>13, <1>14, <1>15, <1>16, <1>17 DEF Next, Writer, Reader,
     Terminated

(* The last pass of the snapshot thread.                                   *)
LEMMA FinalInvStep == Inv /\ [Next]_vars => FinalInv'
<1> SUFFICES ASSUME Inv, [Next]_vars PROVE FinalInv'
  OBVIOUS
<1> USE SlotsAssumption, RetriesAssumption, MaxSeqAssumption
    DEF Inv, TypeOK, Slot, None, Image, FinalInv, OrderInv, BufferInv, FlagInv, FinalImageSent, Holding, Flagged, Filling, Loaded
<1>1. CASE BeginSnapshot
  BY <1>1 DEF BeginSnapshot, readerVars
<1>2. CASE ReserveFreeSlot
  BY <1>2 DEF ReserveFreeSlot, readerVars, Busy
<1>3. CASE FillLevels
  BY <1>3 DEF FillLevels, readerVars
<1>4. CASE FillHeader
  BY <1>4 DEF FillHeader, readerVars
<1>5. CASE Publish
  BY <1>5 DEF Publish, readerVars
<1>6. CASE MatcherExit
  BY <1>6 DEF MatcherExit, readerVars
<1>7. CASE Poll
  BY <1>7 DEF Poll, writerVars
<1>8. CASE LoadPublished
  BY <1>8 DEF LoadPublished, writerVars, GiveUp, AfterSend
<1>9. CASE Claim
  BY <1>9 DEF Claim, writerVars
<1>10. CASE Recheck
  BY <1>10 DEF Recheck, writerVars, StillLive
<1>11. CASE Unclaim
  BY <1>11 DEF Unclaim, writerVars, ClearFlag
<1>12. CASE CompareSeq
  BY <1>12 DEF CompareSeq, writerVars, Fresh
<1>13. CASE CopyHeader
  BY <1>13 DEF CopyHeader, writerVars
<1>14. CASE CopyLevels
  BY <1>14 DEF CopyLevels, writerVars
<1>15. CASE SendReturns
  BY <1>15 DEF SendReturns, writerVars
<1>16. CASE Release
  BY <1>16 DEF Release, writerVars, ClearFlag, AfterSend
<1>17. CASE UNCHANGED vars
  BY <1>17 DEF vars
<1> QED
  BY <1>1, <1>2, <1>3, <1>4, <1>5, <1>6, <1>7, <1>8, <1>9, <1>10, <1>11,
     <1>12, <1>13, <1>14, <1>15, <1>16, <1>17 DEF Next, Writer, Reader,
     Terminated

-----------------------------------------------------------------------------

(* Inv is an inductive invariant of the two threads.                       *)
THEOREM InvHolds == Spec => []Inv
<1>1. Init => Inv
  <2> SUFFICES ASSUME Init PROVE Inv
    OBVIOUS
  <2> USE SlotsAssumption DEF Init, None
  <2>1. TypeOK
    <3>1. inUse \in [Slot -> BOOLEAN]
      OBVIOUS
    <3>2. [hdr |-> 0, lvl |-> 0] \in Image
      BY DEF Image
    <3>3. buf \in [Slot -> Image] /\ msg \in Image /\ wire \in Image
      BY <3>2
    <3>4. wj \in Slot
      BY DEF Slot
    <3>5. /\ skipped \in BOOLEAN /\ matcherDone \in BOOLEAN
          /\ final \in BOOLEAN /\ sendOk \in BOOLEAN
      OBVIOUS
    <3>6. /\ published = -1 /\ seq = 0 /\ attempt = 0 /\ sent = 0 /\ lastSeq = -1
          /\ ridx = -1 /\ wpc = "run" /\ rpc = "poll"
      OBVIOUS
    <3> HIDE DEF Init
    <3> QED
      BY <3>1, <3>3, <3>4, <3>5, <3>6 DEF TypeOK
  <2>2. FlagInv /\ ScanInv
    BY DEF FlagInv, ScanInv, Flagged, Holding, Loaded, Slot
  <2>3. BufferInv /\ OrderInv
    BY DEF BufferInv, OrderInv, Filling, Holding
  <2>4. FinalInv
    BY DEF FinalInv, FinalImageSent, Loaded
  <2> QED
    BY <2>1, <2>2, <2>3, <2>4 DEF Inv
<1>2. Inv /\ [Next]_vars => Inv'
  BY TypeOKStep, FlagInvStep, BufferInvStep, ScanInvStep, OrderInvStep,
     FinalInvStep DEF Inv
<1> QED
  BY <1>1, <1>2, PTL DEF Spec

(* Whatever the interleaving, the datagram on the wire is one image        *)
(* (acquire / reserve_free_slot / send_raw).                               *)
THEOREM NoTornReadHolds == Spec => []NoTornRead
<1>1. Inv => NoTornRead
  BY DEF Inv, BufferInv, NoTornRead
<1> QED
  BY <1>1, InvHolds, PTL

(* With three or more slots reserve_free_slot always finds one, so         *)
(* try_snapshot never returns false.                                       *)
THEOREM WriterNeverSkipsHolds == Spec => []WriterNeverSkips
<1>1. Inv => WriterNeverSkips
  BY DEF Inv, ScanInv, WriterNeverSkips
<1> QED
  BY <1>1, InvHolds, PTL

(* The last published image is the last one sent when the snapshot thread  *)
(* has ended (the send_latest after its loop).                             *)
THEOREM FinalImageSentHolds == Spec => []FinalImageSent
<1>1. Inv => FinalImageSent
  BY DEF Inv, FinalInv
<1> QED
  BY <1>1, InvHolds, PTL

(* The live buffer is never written: try_snapshot fills only what          *)
(* reserve_free_slot returned.                                             *)
THEOREM PublishedStableHolds == Spec => PublishedStable
<1>1. Inv /\ [Next]_vars
        => [published # None /\ published' = published
              => buf'[published] = buf[published]]_vars
  <2> SUFFICES ASSUME Inv, Next, published # None, published' = published
               PROVE  buf'[published] = buf[published]
    BY DEF vars
  <2>1. CASE FillLevels
    BY <2>1 DEF Inv, TypeOK, BufferInv, Filling, FillLevels
  <2>2. CASE FillHeader
    BY <2>2 DEF Inv, TypeOK, BufferInv, Filling, FillHeader
  <2>3. CASE buf' = buf
    BY <2>3
  <2> QED
    BY <2>1, <2>2, <2>3
    DEF Next, Writer, Reader, Terminated, vars, writerVars, BeginSnapshot,
        ReserveFreeSlot, Publish, MatcherExit, Poll, LoadPublished, Claim,
        Recheck, Unclaim, CompareSeq, CopyHeader, CopyLevels, SendReturns, Release
<1> QED
  BY <1>1, InvHolds, PTL DEF Spec, PublishedStable

(* Every image sent is newer than the one before it (the feed_seq test of  *)
(* send_latest, with images published in increasing seq).                  *)
THEOREM FreshGenerationsHolds == Spec => FreshGenerations
<1>1. Inv /\ [Next]_vars => [sent' # sent => lastSeq' > lastSeq]_vars
  <2> SUFFICES ASSUME Inv, Next, sent' # sent
               PROVE  lastSeq' > lastSeq
    BY DEF vars
  <2>1. CASE SendReturns
    BY <2>1 DEF Inv, TypeOK, OrderInv, Holding, SendReturns, Image
  <2> QED
    BY <2>1
    DEF Next, Writer, Reader, Terminated, vars, readerVars, BeginSnapshot,
        ReserveFreeSlot, FillLevels, FillHeader, Publish, MatcherExit, Poll,
        LoadPublished, Claim, Recheck, Unclaim, CompareSeq, CopyHeader,
        CopyLevels, Release
<1> QED
  BY <1>1, InvHolds, PTL DEF Spec, FreshGenerations
=============================================================================
