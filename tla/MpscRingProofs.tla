--------------------------- MODULE MpscRingProofs ---------------------------
(***************************************************************************)
(* No two threads are ever at the same cell of the MPSC ring, and the ring *)
(* implements the bounded FIFO channel, for any number of producers, every *)
(* size and any number of laps.                                            *)
(***************************************************************************)
EXTENDS MpscRing, Sequences, SequenceTheorems, TLAPS

-----------------------------------------------------------------------------
(* Cells and laps.                                                         *)

LEMMA CellInRange ==
  ASSUME NEW n \in Nat
  PROVE  Cell(n) \in 0 .. Size - 1 /\ Cell(n + Size) = Cell(n)
<1>1. Cell(n) \in 0 .. Size - 1
  BY SizeAssumption DEF Cell
<1> DEFINE a == n \div Size
           r == n % Size
           b == (n + Size) \div Size
           t == (n + Size) % Size
<1>2. /\ n = Size * a + r /\ a \in Nat /\ r \in 0 .. Size - 1
      /\ n + Size = Size * b + t /\ b \in Nat /\ t \in 0 .. Size - 1
  BY SizeAssumption
<1> HIDE DEF a, r, b, t
<1>3. Size * (b - a - 1) = r - t
  BY <1>2, SizeAssumption
<1>4. b - a - 1 >= 1 => Size * (b - a - 1) >= Size
  BY <1>2, SizeAssumption
<1>5. b - a - 1 <= -1 => Size * (b - a - 1) <= -Size
  BY <1>2, SizeAssumption
<1>6. b - a - 1 = 0
  BY <1>2, <1>3, <1>4, <1>5, SizeAssumption
<1>7. r = t
  BY <1>2, <1>3, <1>6, SizeAssumption
<1> QED BY <1>1, <1>7 DEF Cell, r, t

(* Positions less than a lap apart have different cells.                   *)
LEMMA DistinctCells ==
  ASSUME NEW i \in Nat, NEW j \in Nat, i # j, i < j + Size, j < i + Size
  PROVE  Cell(i) # Cell(j)
<1> DEFINE a == i \div Size
           b == j \div Size
<1>1. /\ i = Size * a + (i % Size) /\ j = Size * b + (j % Size)
      /\ a \in Nat /\ b \in Nat /\ i % Size \in Nat /\ j % Size \in Nat
  BY SizeAssumption
<1>2. SUFFICES ASSUME i % Size = j % Size PROVE FALSE
  BY DEF Cell
<1> HIDE DEF a, b
<1>3. j - i = Size * (b - a)
  BY <1>1, <1>2, SizeAssumption
<1>4. b - a >= 1 => Size * (b - a) >= Size
  BY <1>1, SizeAssumption
<1>5. b - a <= -1 => Size * (b - a) <= -Size
  BY <1>1, SizeAssumption
<1>6. b - a = 0 => Size * (b - a) = 0
  BY <1>1, SizeAssumption
<1> QED BY <1>1, <1>3, <1>4, <1>5, <1>6, SizeAssumption

-----------------------------------------------------------------------------
(* The inductive invariant.                                                *)

(* Every position below has been consumed and its cell freed.              *)
freed == IF cpc = "free" THEN cpos - 1 ELSE cpos

(* The positions of one lap: taken up to enqueue, free from there.         *)
Window == freed \in Nat /\ freed <= enqueue /\ enqueue <= freed + Size

(* What the seq of each of them says.                                      *)
Turns ==
  /\ \A n \in Nat : freed <= n /\ n < enqueue => seq[Cell(n)] \in {n, n + 1}
  /\ \A n \in Nat : enqueue <= n /\ n < freed + Size => seq[Cell(n)] = n

(* A claimed cell still shows the seq its producer found, and a producer   *)
(* about to claim one knows that no older lap has it.                      *)
Claims ==
  \A p \in Producers :
    /\ Owns(p) => freed <= pos[p] /\ pos[p] < enqueue /\ seq[Cell(pos[p])] = pos[p]
    /\ pc[p] = "cas" => pos[p] <= seq[Cell(pos[p])]
    /\ \A q \in Producers : Owns(p) /\ Owns(q) /\ pos[p] = pos[q] => p = q

(* The cell the consumer is at has been published.                         *)
Consuming ==
  /\ cpc = "idle" => dequeue = cpos
  /\ cpc = "read" => cpos < enqueue /\ seq[Cell(cpos)] = cpos + 1
  /\ cpc = "free" => cpos - 1 < enqueue /\ seq[Cell(cpos - 1)] = cpos

Inv == TypeOK /\ Window /\ Turns /\ Claims /\ Consuming

LEMMA InitInv == Init => Inv
<1> SUFFICES ASSUME Init PROVE Inv
  OBVIOUS
<1> USE SizeAssumption DEF Init
<1>1. TypeOK /\ Window /\ Claims /\ Consuming
  BY DEF TypeOK, Window, Claims, Consuming, freed, Owns
<1>2. \A n \in Nat : n < Size => Cell(n) = n
  BY DEF Cell
<1>3. Turns
  BY <1>2 DEF Turns, freed
<1> QED BY <1>1, <1>3 DEF Inv

(* Nobody shares a cell with its owner.                                    *)
LEMMA InvRace == Inv => NoCellRace
<1> SUFFICES ASSUME Inv, NEW p \in Producers, Owns(p)
             PROVE  /\ \A q \in Producers \ {p} : Owns(q) => Cell(pos[q]) # Cell(pos[p])
                    /\ cpc = "read" => Cell(cpos) # Cell(pos[p])
                    /\ cpc = "free" => Cell(cpos - 1) # Cell(pos[p])
  BY DEF NoCellRace
<1>1. /\ pos[p] \in Nat /\ freed \in Nat /\ enqueue \in Nat /\ cpos \in Nat
      /\ freed <= pos[p] /\ pos[p] < enqueue /\ enqueue <= freed + Size
      /\ seq[Cell(pos[p])] = pos[p]
  BY DEF Inv, TypeOK, Window, Claims
<1>2. ASSUME NEW q \in Producers \ {p}, Owns(q) PROVE Cell(pos[q]) # Cell(pos[p])
  <2>1. pos[q] \in Nat /\ freed <= pos[q] /\ pos[q] < enqueue /\ pos[q] # pos[p]
    BY <1>2 DEF Inv, TypeOK, Claims
  <2> QED BY <1>1, <2>1, DistinctCells, SizeAssumption
<1>3. ASSUME cpc = "read" PROVE Cell(cpos) # Cell(pos[p])
  <2>1. freed = cpos /\ cpos < enqueue /\ seq[Cell(cpos)] = cpos + 1
    BY <1>3 DEF Inv, Consuming, freed
  <2>2. cpos # pos[p]
    BY <1>1, <2>1
  <2> QED BY <1>1, <2>1, <2>2, DistinctCells, SizeAssumption
<1>4. ASSUME cpc = "free" PROVE Cell(cpos - 1) # Cell(pos[p])
  <2>1. freed = cpos - 1 /\ freed < enqueue /\ seq[Cell(freed)] = freed + 1
    BY <1>1, <1>4 DEF Inv, Consuming, freed
  <2>2. freed # pos[p]
    BY <1>1, <2>1
  <2> QED BY <1>1, <2>1, <2>2, DistinctCells, SizeAssumption
<1> QED BY <1>2, <1>3, <1>4

LEMMA TypeStep ==
  ASSUME Inv, [Next]_vars
  PROVE  TypeOK'
<1> USE SizeAssumption DEF Inv, TypeOK, prod, cons
<1>1. ASSUME NEW p \in Producers, LoadEnqueue(p) PROVE TypeOK'
  BY <1>1 DEF LoadEnqueue
<1>2. ASSUME NEW p \in Producers, CheckCell(p) PROVE TypeOK'
  BY <1>2 DEF CheckCell
<1>3. ASSUME NEW p \in Producers, ClaimFails(p) PROVE TypeOK'
  BY <1>3 DEF ClaimFails
<1>4. ASSUME NEW p \in Producers, Claim(p) PROVE TypeOK'
  BY <1>4 DEF Claim
<1>5. ASSUME NEW p \in Producers, WriteData(p) PROVE TypeOK'
  <2>1. <<p, item[p]>> \in {<<>>} \cup (Producers \X Nat)
    OBVIOUS
  <2>2. data' \in [0 .. Size - 1 -> {<<>>} \cup (Producers \X Nat)]
    BY <1>5, <2>1, Zenon DEF WriteData
  <2>3. pc' \in [Producers -> {"idle", "reload", "check", "cas", "write", "publish"}]
    BY <1>5 DEF WriteData
  <2> QED BY <1>5, <2>2, <2>3 DEF WriteData
<1>10. ASSUME NEW p \in Producers, Publish(p) PROVE TypeOK'
  <2>1. pos[p] + 1 \in Nat /\ item[p] + 1 \in Nat
    OBVIOUS
  <2>2. seq' \in [0 .. Size - 1 -> Nat] /\ pos' \in [Producers -> Nat]
        /\ item' \in [Producers -> Nat]
    BY <1>10, <2>1, Zenon DEF Publish
  <2>3. pc' \in [Producers -> {"idle", "reload", "check", "cas", "write", "publish"}]
    BY <1>10 DEF Publish
  <2> QED BY <1>10, <2>2, <2>3, Zenon DEF Publish
<1>6. CASE StartConsume \/ ReadData
  BY <1>6 DEF StartConsume, ReadData
<1>7. CASE LoadCell
  BY <1>7, Zenon DEF LoadCell
<1>8. CASE FreeCell
  <2>1. cpos - 1 \in Nat /\ cpos - 1 + Size \in Nat
    BY <1>8 DEF FreeCell, Window, freed
  <2> QED BY <1>8, <2>1, CellInRange, Zenon DEF FreeCell, NextLap
<1>9. CASE UNCHANGED vars
  BY <1>9 DEF vars
<1> QED BY <1>1, <1>2, <1>3, <1>4, <1>5, <1>6, <1>7, <1>8, <1>9, <1>10, Zenon DEF Next, Producer, Finish, Consumer

(* The steps that store no seq and claim nothing leave the lap as it is.   *)
LEMMA QuietStep ==
  ASSUME Inv, UNCHANGED <<seq, enqueue>>, freed' = freed
  PROVE  Window' /\ Turns'
BY DEF Inv, Window, Turns, Cell

LEMMA ProducerQuiet ==
  ASSUME Inv, NEW p \in Producers,
         LoadEnqueue(p) \/ CheckCell(p) \/ ClaimFails(p) \/ WriteData(p)
  PROVE  Window' /\ Turns' /\ Claims' /\ Consuming'
<1>1. UNCHANGED <<seq, enqueue, cpc, cpos, dequeue>>
  BY DEF LoadEnqueue, CheckCell, ClaimFails, WriteData, cons
<1>2. Window' /\ Turns'
  BY <1>1, QuietStep DEF freed
<1>3. Consuming'
  BY <1>1 DEF Inv, Consuming, freed, Cell
<1>4. ASSUME NEW q \in Producers
      PROVE  /\ pc'[q] \in {"write", "publish"} => pc[q] \in {"write", "publish"} /\ pos'[q] = pos[q]
             /\ pc'[q] = "cas" => pos'[q] <= seq[Cell(pos'[q])]
  <2>1. CASE LoadEnqueue(p)
    BY <2>1 DEF LoadEnqueue, Inv, TypeOK, Claims
  <2>2. CASE CheckCell(p)
    <3>1. PICK v \in Loads(Cell(pos[p])) :
             pc' = [pc EXCEPT ![p] = IF FreeFor(v, pos[p]) THEN "cas"
                                     ELSE IF v < pos[p] THEN "idle" ELSE "reload"]
      BY <2>2, Zenon DEF CheckCell
    <3>2. v <= seq[Cell(pos[p])]
      BY <3>1 DEF Loads, History
    <3> QED BY <2>2, <3>1, <3>2 DEF CheckCell, FreeFor, Inv, TypeOK, Claims
  <2>3. CASE ClaimFails(p)
    BY <2>3 DEF ClaimFails, Inv, TypeOK, Claims
  <2>4. CASE WriteData(p)
    BY <2>4 DEF WriteData, Inv, TypeOK, Claims
  <2> QED BY <2>1, <2>2, <2>3, <2>4
<1>5. Claims'
  BY <1>1, <1>4 DEF Inv, Claims, Owns, freed, Cell
<1> QED BY <1>2, <1>3, <1>5

LEMMA ConsumerQuiet ==
  ASSUME Inv, StartConsume \/ LoadCell \/ ReadData
  PROVE  Window' /\ Turns' /\ Claims' /\ Consuming'
<1>1. UNCHANGED <<seq, prod>>
  BY DEF StartConsume, LoadCell, ReadData
<1>2. freed' = freed
  BY DEF StartConsume, LoadCell, ReadData, freed, Inv, TypeOK, Consuming
<1>3. Window' /\ Turns'
  BY <1>1, <1>2, QuietStep DEF prod
<1>4. Claims'
  BY <1>1, <1>2 DEF prod, Inv, Claims, Owns, Cell
<1>5. CASE StartConsume
  <2>1. cpc' = "load"
    BY <1>5 DEF StartConsume
  <2> QED BY <1>3, <1>4, <2>1 DEF Consuming
<1>6. CASE LoadCell
  <2>1. PICK v \in Loads(Cell(cpos)) :
           IF Ready(v) THEN cpc' = "read" /\ UNCHANGED dequeue ELSE cpc' = "idle" /\ dequeue' = cpos
    BY <1>6 DEF LoadCell
  <2>2. CASE Ready(v)
    <3>1. cpos + 1 <= seq[Cell(cpos)]
      BY <2>1, <2>2 DEF Ready, Loads, History
    <3>2. freed = cpos /\ cpos \in Nat /\ enqueue \in Nat
      BY <1>6 DEF LoadCell, freed, Inv, TypeOK
    <3>3. cpos < enqueue
      BY <3>1, <3>2, SizeAssumption DEF Inv, Window, Turns
    <3>4. seq[Cell(cpos)] = cpos + 1
      BY <3>1, <3>2, <3>3 DEF Inv, Turns
    <3>5. cpc' = "read" /\ cpos' = cpos /\ UNCHANGED <<seq, enqueue>>
      BY <1>1, <1>6, <2>1, <2>2 DEF LoadCell, prod
    <3> QED BY <1>3, <1>4, <3>3, <3>4, <3>5 DEF Consuming
  <2>3. CASE ~Ready(v)
    <3>1. cpc' = "idle" /\ dequeue' = cpos'
      BY <1>6, <2>1, <2>3 DEF LoadCell
    <3> QED BY <1>3, <1>4, <3>1 DEF Consuming
  <2> QED BY <2>2, <2>3
<1>7. CASE ReadData
  <2>1. /\ cpc' = "free" /\ cpos' - 1 = cpos /\ cpos' = cpos + 1 /\ UNCHANGED <<seq, enqueue>>
        /\ cpos < enqueue /\ seq[Cell(cpos)] = cpos + 1
    BY <1>1, <1>7 DEF ReadData, Inv, TypeOK, Consuming, prod
  <2> QED BY <1>3, <1>4, <2>1 DEF Consuming
<1> QED BY <1>3, <1>4, <1>5, <1>6, <1>7

(* A claim succeeds only on a cell that is free for this lap: had the ring *)
(* been full, the seq of the cell would be behind.                         *)
LEMMA ClaimStep ==
  ASSUME Inv, NEW p \in Producers, Claim(p)
  PROVE  Window' /\ Turns' /\ Claims' /\ Consuming'
<1>1. /\ enqueue = pos[p] /\ enqueue' = enqueue + 1 /\ pc[p] = "cas"
      /\ UNCHANGED <<seq, pos, cpc, cpos, dequeue>>
      /\ pc' = [pc EXCEPT ![p] = "write"]
  BY DEF Claim, CanClaim, cons
<1>2. freed' = freed /\ freed \in Nat /\ enqueue \in Nat /\ freed <= enqueue
      /\ enqueue <= freed + Size
  BY <1>1 DEF freed, Inv, Window, TypeOK
<1>3. enqueue <= seq[Cell(enqueue)]
  BY <1>1 DEF Inv, Claims
<1>4. enqueue # freed + Size
  <2> SUFFICES ASSUME enqueue = freed + Size PROVE FALSE
    OBVIOUS
  <2>1. Cell(enqueue) = Cell(freed)
    BY <1>2, CellInRange
  <2>2. seq[Cell(freed)] \in {freed, freed + 1}
    BY <1>2, SizeAssumption DEF Inv, Turns
  <2> QED BY <1>2, <1>3, <2>1, <2>2, SizeAssumption
<1>5. seq[Cell(enqueue)] = enqueue
  BY <1>2, <1>4, SizeAssumption DEF Inv, Turns
<1>6. Window'
  BY <1>1, <1>2, <1>4, SizeAssumption DEF Window
<1>7. Turns'
  <2>1. \A n \in Nat : freed <= n /\ n < enqueue + 1 => seq[Cell(n)] \in {n, n + 1}
    BY <1>2, <1>5 DEF Inv, Turns
  <2>2. \A n \in Nat : enqueue + 1 <= n /\ n < freed + Size => seq[Cell(n)] = n
    BY <1>2 DEF Inv, Turns
  <2> QED BY <1>1, <1>2, <2>1, <2>2 DEF Turns
<1>8. Consuming'
  BY <1>1, <1>2 DEF Inv, Consuming, TypeOK
<1>9. Claims'
  <2>1. ASSUME NEW q \in Producers
        PROVE  /\ Owns(q)' => freed <= pos[q] /\ pos[q] < enqueue + 1 /\ seq[Cell(pos[q])] = pos[q]
               /\ pc'[q] = "cas" => pos[q] <= seq[Cell(pos[q])]
    BY <1>1, <1>2, <1>5 DEF Inv, TypeOK, Claims, Owns
  <2>2. ASSUME NEW q \in Producers, NEW r \in Producers, Owns(q)', Owns(r)', pos[q] = pos[r]
        PROVE  q = r
    BY <1>1, <1>2, <2>2 DEF Inv, TypeOK, Claims, Owns
  <2> QED BY <1>1, <1>2, <2>1, <2>2 DEF Claims
<1> QED BY <1>6, <1>7, <1>8, <1>9

(* A store to the cell of position k, of this lap, changes no other.       *)
LEMMA OthersStay ==
  ASSUME Inv, NEW k \in Nat, NEW v, seq' = [seq EXCEPT ![Cell(k)] = v],
         freed <= k, k < freed + Size
  PROVE  /\ seq'[Cell(k)] = v
         /\ \A n \in Nat : freed <= n /\ n < freed + Size /\ n # k => seq'[Cell(n)] = seq[Cell(n)]
<1>1. seq'[Cell(k)] = v
  BY CellInRange DEF Inv, TypeOK
<1>2. ASSUME NEW n \in Nat, freed <= n, n < freed + Size, n # k
      PROVE  seq'[Cell(n)] = seq[Cell(n)]
  <2>1. Cell(n) # Cell(k)
    BY <1>2, DistinctCells, SizeAssumption DEF Inv, Window
  <2> QED BY <2>1, CellInRange DEF Inv, TypeOK
<1> QED BY <1>1, <1>2

(* No seq goes back.                                                       *)
LEMMA SeqGrows ==
  ASSUME Inv, NEW k \in Nat, NEW v \in Nat, seq' = [seq EXCEPT ![Cell(k)] = v],
         seq[Cell(k)] <= v, NEW n \in Nat
  PROVE  seq[Cell(n)] \in Nat /\ seq'[Cell(n)] \in Nat /\ seq[Cell(n)] <= seq'[Cell(n)]
<1>1. Cell(n) \in 0 .. Size - 1 /\ Cell(k) \in 0 .. Size - 1
  BY CellInRange
<1>2. seq[Cell(n)] \in Nat
  BY <1>1 DEF Inv, TypeOK
<1>3. CASE Cell(n) = Cell(k)
  <2>1. seq'[Cell(n)] = v
    BY <1>1, <1>3 DEF Inv, TypeOK
  <2> QED BY <1>2, <1>3, <2>1
<1>4. CASE Cell(n) # Cell(k)
  <2>1. seq'[Cell(n)] = seq[Cell(n)]
    BY <1>1, <1>4 DEF Inv, TypeOK
  <2> QED BY <1>2, <2>1
<1> QED BY <1>3, <1>4

LEMMA PublishStep ==
  ASSUME Inv, NEW p \in Producers, Publish(p)
  PROVE  Window' /\ Turns' /\ Claims' /\ Consuming'
<1> DEFINE k == pos[p]
<1>1. /\ seq' = [seq EXCEPT ![Cell(k)] = k + 1] /\ Owns(p)
      /\ pc' = [pc EXCEPT ![p] = "idle"] /\ pos' = [pos EXCEPT ![p] = @ + 1]
      /\ UNCHANGED <<enqueue, cpc, cpos, dequeue>>
  BY DEF Publish, cons, Owns
<1>2. /\ k \in Nat /\ freed \in Nat /\ enqueue \in Nat /\ cpos \in Nat /\ freed' = freed
      /\ freed <= k /\ k < enqueue /\ enqueue <= freed + Size /\ seq[Cell(k)] = k
  BY <1>1 DEF Inv, TypeOK, Window, Claims, freed
<1> HIDE DEF k
<1>3. /\ seq'[Cell(k)] = k + 1
      /\ \A n \in Nat : freed <= n /\ n < freed + Size /\ n # k => seq'[Cell(n)] = seq[Cell(n)]
  <2>1. k < freed + Size
    BY <1>2, SizeAssumption
  <2>2. seq' = [seq EXCEPT ![Cell(k)] = k + 1] /\ k \in Nat /\ freed <= k
    BY <1>1, <1>2
  <2> QED BY ONLY Inv, <2>1, <2>2, OthersStay, Zenon
<1>4. Window'
  BY <1>1, <1>2 DEF Window
<1>5. Turns'
  <2>1. \A n \in Nat : freed <= n /\ n < enqueue => seq'[Cell(n)] \in {n, n + 1}
    BY <1>2, <1>3, SizeAssumption DEF Inv, Turns
  <2>2. \A n \in Nat : enqueue <= n /\ n < freed + Size => seq'[Cell(n)] = n
    BY <1>2, <1>3, SizeAssumption DEF Inv, Turns
  <2> QED BY <1>1, <1>2, <2>1, <2>2 DEF Turns
<1>6. Consuming'
  <2>1. ASSUME cpc = "read" PROVE cpos < enqueue /\ seq'[Cell(cpos)] = cpos + 1
    <3>1. freed = cpos /\ cpos < enqueue /\ seq[Cell(cpos)] = cpos + 1
      BY <2>1 DEF Inv, Consuming, freed
    <3>2. cpos # k
      BY <1>2, <3>1
    <3> QED BY <1>2, <1>3, <3>1, <3>2, SizeAssumption
  <2>2. ASSUME cpc = "free" PROVE cpos - 1 < enqueue /\ seq'[Cell(cpos - 1)] = cpos
    <3>1. freed = cpos - 1 /\ freed < enqueue /\ seq[Cell(freed)] = cpos
      BY <2>2 DEF Inv, Consuming, freed
    <3>2. freed # k
      BY <1>2, <3>1
    <3> QED BY <1>2, <1>3, <3>1, <3>2, SizeAssumption
  <2>3. cpc = "idle" => dequeue = cpos
    BY DEF Inv, Consuming
  <2> QED BY <1>1, <2>1, <2>2, <2>3 DEF Consuming
<1>7. Claims'
  <2>1. ASSUME NEW q \in Producers, Owns(q)'
        PROVE  q # p /\ Owns(q) /\ pos'[q] = pos[q]
    BY <1>1, <2>1 DEF Inv, TypeOK, Owns
  <2>2. ASSUME NEW q \in Producers, Owns(q)'
        PROVE  freed <= pos'[q] /\ pos'[q] < enqueue /\ seq'[Cell(pos'[q])] = pos'[q]
    <3>1. q # p /\ Owns(q) /\ pos'[q] = pos[q]
      BY <2>1, <2>2
    <3>2. /\ pos[q] \in Nat /\ freed <= pos[q] /\ pos[q] < enqueue
          /\ seq[Cell(pos[q])] = pos[q] /\ pos[q] # pos[p]
      BY <1>1, <3>1 DEF Inv, TypeOK, Claims
    <3> QED BY <1>2, <1>3, <3>1, <3>2, SizeAssumption DEF k
  <2>3. ASSUME NEW q \in Producers, pc'[q] = "cas"
        PROVE  pos'[q] <= seq'[Cell(pos'[q])]
    <3>1. pc[q] = "cas" /\ pos'[q] = pos[q] /\ pos[q] \in Nat
      BY <1>1, <2>3 DEF Inv, TypeOK
    <3>2. pos[q] <= seq[Cell(pos[q])]
      BY <3>1 DEF Inv, Claims
    <3>3. /\ seq[Cell(pos[q])] \in Nat /\ seq'[Cell(pos[q])] \in Nat
          /\ seq[Cell(pos[q])] <= seq'[Cell(pos[q])]
      <4>1. k \in Nat /\ k + 1 \in Nat /\ seq[Cell(k)] <= k + 1
        BY <1>2
      <4>2. seq' = [seq EXCEPT ![Cell(k)] = k + 1]
        BY <1>1
      <4> QED BY ONLY Inv, <3>1, <4>1, <4>2, SeqGrows, Zenon
    <3> QED BY <3>1, <3>2, <3>3
  <2>4. ASSUME NEW q \in Producers, NEW r \in Producers, Owns(q)', Owns(r)', pos'[q] = pos'[r]
        PROVE  q = r
    BY <2>1, <2>4 DEF Inv, Claims
  <2> QED BY <1>1, <1>2, <2>2, <2>3, <2>4 DEF Claims
<1> QED BY <1>4, <1>5, <1>6, <1>7

(* Freeing a cell moves the lap on by one position, whose cell it is.      *)
LEMMA FreeStep ==
  ASSUME Inv, FreeCell
  PROVE  Window' /\ Turns' /\ Claims' /\ Consuming'
<1> DEFINE k == cpos - 1
<1>1. /\ cpc = "free" /\ seq' = [seq EXCEPT ![Cell(k)] = k + Size] /\ cpos' = cpos
      /\ cpc' \in {"idle", "load"} /\ (cpc' = "idle" => dequeue' = cpos)
      /\ UNCHANGED <<enqueue, pc, pos>>
  BY DEF FreeCell, NextLap, prod
<1>2. /\ k \in Nat /\ freed = k /\ freed' = k + 1 /\ enqueue \in Nat /\ k < enqueue
      /\ enqueue <= k + Size /\ seq[Cell(k)] = k + 1 /\ cpos = k + 1
  BY <1>1 DEF Inv, TypeOK, Window, Consuming, freed
<1> HIDE DEF k
<1>3. /\ seq'[Cell(k)] = k + Size
      /\ \A n \in Nat : k <= n /\ n < k + Size /\ n # k => seq'[Cell(n)] = seq[Cell(n)]
  <2>1. freed <= k /\ k < freed + Size
    BY <1>2, SizeAssumption
  <2>2. seq' = [seq EXCEPT ![Cell(k)] = k + Size] /\ k \in Nat
    BY <1>1, <1>2
  <2>3. /\ seq'[Cell(k)] = k + Size
        /\ \A n \in Nat : freed <= n /\ n < freed + Size /\ n # k => seq'[Cell(n)] = seq[Cell(n)]
    BY ONLY Inv, <2>1, <2>2, OthersStay, Zenon
  <2> QED BY <1>2, <2>3
<1>4. Window'
  BY <1>1, <1>2, SizeAssumption DEF Window
<1>5. Turns'
  <2>1. \A n \in Nat : k + 1 <= n /\ n < enqueue => seq'[Cell(n)] \in {n, n + 1}
    BY <1>2, <1>3, SizeAssumption DEF Inv, Turns
  <2>2. ASSUME NEW n \in Nat, enqueue <= n, n < k + 1 + Size
        PROVE  seq'[Cell(n)] = n
    <3>1. CASE n = k + Size
      BY <1>2, <1>3, <3>1, CellInRange
    <3>2. CASE n < k + Size
      BY <1>2, <1>3, <2>2, <3>2, SizeAssumption DEF Inv, Turns
    <3> QED BY <1>2, <2>2, <3>1, <3>2, SizeAssumption
  <2> QED BY <1>1, <1>2, <2>1, <2>2 DEF Turns
<1>6. Consuming'
  BY <1>1 DEF Consuming
<1>7. Claims'
  <2>1. ASSUME NEW q \in Producers, Owns(q)
        PROVE  k + 1 <= pos[q] /\ pos[q] < enqueue /\ seq'[Cell(pos[q])] = pos[q]
    <3>1. pos[q] \in Nat /\ k <= pos[q] /\ pos[q] < enqueue /\ seq[Cell(pos[q])] = pos[q]
      BY <1>2, <2>1 DEF Inv, TypeOK, Claims
    <3>2. pos[q] # k
      BY <1>2, <3>1
    <3> QED BY <1>2, <1>3, <3>1, <3>2, SizeAssumption
  <2>2. ASSUME NEW q \in Producers, pc[q] = "cas"
        PROVE  pos[q] <= seq'[Cell(pos[q])]
    <3>1. pos[q] \in Nat /\ pos[q] <= seq[Cell(pos[q])]
      BY <2>2 DEF Inv, TypeOK, Claims
    <3>2. k + Size \in Nat /\ seq[Cell(k)] <= k + Size
      BY <1>2, SizeAssumption
    <3>3. /\ seq[Cell(pos[q])] \in Nat /\ seq'[Cell(pos[q])] \in Nat
          /\ seq[Cell(pos[q])] <= seq'[Cell(pos[q])]
      BY <1>1, <1>2, <3>1, <3>2, SeqGrows, Zenon
    <3> QED BY <3>1, <3>3
  <2>3. \A q, r \in Producers : Owns(q) /\ Owns(r) /\ pos[q] = pos[r] => q = r
    BY DEF Inv, Claims
  <2> QED BY <1>1, <1>2, <2>1, <2>2, <2>3 DEF Claims, Owns
<1> QED BY <1>4, <1>5, <1>6, <1>7

LEMMA InvStep == Inv /\ [Next]_vars => Inv'
<1> SUFFICES ASSUME Inv, [Next]_vars PROVE Inv'
  OBVIOUS
<1>1. TypeOK'
  BY TypeStep
<1>2. CASE UNCHANGED vars
  BY <1>1, <1>2 DEF vars, Inv, Window, Turns, Claims, Consuming, freed, Owns, Cell
<1>3. CASE Consumer
  BY <1>1, <1>3, ConsumerQuiet, FreeStep DEF Inv, Consumer
<1>4. ASSUME NEW p \in Producers, Producer(p) PROVE Inv'
  BY <1>1, <1>4, ProducerQuiet, ClaimStep, PublishStep DEF Inv, Producer, Finish
<1> QED BY <1>2, <1>3, <1>4 DEF Next

(* The lap, the seq of its cells, the claims and the place of the consumer *)
(* agree in every state of try_publish, try_consume and consume_batch.     *)
THEOREM InvHolds == Spec => []Inv
BY InitInv, InvStep, PTL DEF Spec

(* A cell is used by one thread at a time: the compare-and-swap on         *)
(* enqueue and the seq of the cells keep producers apart from each other   *)
(* and from the consumer, in any number and over any number of laps, even  *)
(* if every load returns a stale value.                                    *)
THEOREM NoCellRaceHolds == Spec => []NoCellRace
<1> QED BY InvHolds, InvRace, PTL

-----------------------------------------------------------------------------
(* The ring implements the channel.                                        *)

(* Between the store of the item and the store of seq, the item is there.  *)
Written ==
  \A p \in Producers : pc[p] = "publish" => data[Cell(pos[p])] = <<p, item[p]>>

LEMMA WrittenStep == Inv /\ Written /\ [Next]_vars => Written'
<1> SUFFICES ASSUME Inv, Written, [Next]_vars, NEW q \in Producers, pc'[q] = "publish"
             PROVE  data'[Cell(pos'[q])] = <<q, item'[q]>>
  BY Zenon DEF Written, Cell
<1> USE DEF Inv, TypeOK
<1>1. ASSUME UNCHANGED <<data, item>>, pc[q] = "publish", pos'[q] = pos[q]
      PROVE  data'[Cell(pos'[q])] = <<q, item'[q]>>
  BY <1>1 DEF Written
<1>2. CASE UNCHANGED vars \/ Consumer
  BY <1>1, <1>2 DEF vars, Consumer, StartConsume, LoadCell, ReadData, FreeCell, prod
<1>3. ASSUME NEW p \in Producers, LoadEnqueue(p) \/ ClaimFails(p) \/ Claim(p)
      PROVE  data'[Cell(pos'[q])] = <<q, item'[q]>>
  BY <1>1, <1>3 DEF LoadEnqueue, ClaimFails, Claim
<1>4. ASSUME NEW p \in Producers, CheckCell(p)
      PROVE  data'[Cell(pos'[q])] = <<q, item'[q]>>
  BY <1>1, <1>4 DEF CheckCell
<1>5. ASSUME NEW p \in Producers, WriteData(p)
      PROVE  data'[Cell(pos'[q])] = <<q, item'[q]>>
  <2>1. /\ data' = [data EXCEPT ![Cell(pos[p])] = <<p, item[p]>>] /\ UNCHANGED <<pos, item>>
        /\ Owns(p) /\ pos[p] \in Nat /\ pos[q] \in Nat
        /\ pc' = [pc EXCEPT ![p] = "publish"]
    BY <1>5 DEF WriteData, Owns
  <2>2. Cell(pos[p]) \in 0 .. Size - 1 /\ Cell(pos[q]) \in 0 .. Size - 1
    BY <2>1, CellInRange
  <2>3. CASE q = p
    BY <2>1, <2>2, <2>3
  <2>4. CASE q # p
    <3>1. pc[q] = "publish"
      BY <2>1, <2>4
    <3>2. Cell(pos[q]) # Cell(pos[p])
      BY <2>1, <2>4, <3>1, InvRace DEF NoCellRace, Owns
    <3>3. data'[Cell(pos[q])] = data[Cell(pos[q])]
      BY <2>1, <2>2, <3>2
    <3> QED BY <2>1, <3>1, <3>3 DEF Written
  <2> QED BY <2>3, <2>4
<1>6. ASSUME NEW p \in Producers, Publish(p)
      PROVE  data'[Cell(pos'[q])] = <<q, item'[q]>>
  <2>1. q # p
    BY <1>6 DEF Publish
  <2>2. UNCHANGED data /\ item'[q] = item[q] /\ pos'[q] = pos[q] /\ pc[q] = "publish"
    BY <1>6, <2>1 DEF Publish
  <2> QED BY <2>2 DEF Written
<1> QED BY <1>2, <1>3, <1>4, <1>5, <1>6 DEF Next, Producer, Finish

LEMMA WrittenHolds == Spec => []Written
<1>1. Init => Written
  BY DEF Init, Written
<1> QED BY <1>1, WrittenStep, InvHolds, PTL DEF Spec

(* What ItemAt returns: one producer at most is at work on a position.     *)
LEMMA OwnedItem ==
  ASSUME Inv, NEW p \in Producers, Owns(p)
  PROVE  ItemAt(pos[p]) = <<p, item[p]>>
<1>1. \A q \in Producers : Owns(q) /\ pos[q] = pos[p] => q = p
  BY DEF Inv, Claims
<1>2. (CHOOSE q \in Producers : Owns(q) /\ pos[q] = pos[p]) = p
  BY <1>1
<1> QED BY <1>2, Zenon DEF ItemAt

LEMMA StoredItem ==
  ASSUME NEW n \in Nat, \A p \in Producers : Owns(p) => pos[p] # n
  PROVE  ItemAt(n) = data[Cell(n)]
BY DEF ItemAt

Items == {<<>>} \cup (Producers \X Nat)

LEMMA ItemType ==
  ASSUME Inv, NEW n \in Nat
  PROVE  ItemAt(n) \in Items
<1>1. CASE \E p \in Producers : Owns(p) /\ pos[p] = n
  <2>1. PICK p \in Producers : Owns(p) /\ pos[p] = n
    BY <1>1
  <2>2. ItemAt(n) = <<p, item[p]>>
    BY <2>1, OwnedItem
  <2> QED BY <2>2 DEF Inv, TypeOK, Items
<1>2. CASE \A p \in Producers : Owns(p) => pos[p] # n
  <2>1. ItemAt(n) = data[Cell(n)]
    BY <1>2, StoredItem
  <2>2. Cell(n) \in 0 .. Size - 1
    BY CellInRange
  <2>3. data \in [0 .. Size - 1 -> Items]
    BY DEF Inv, TypeOK, Items
  <2> QED BY ONLY <2>1, <2>2, <2>3
<1> QED BY <1>1, <1>2

(* The same after a step.                                                  *)
LEMMA OwnedItemNext ==
  ASSUME Inv', NEW p \in Producers, Owns(p)', NEW n, n = pos'[p]
  PROVE  ItemAt(n)' = <<p, item'[p]>>
<1>1. \A q \in Producers : Owns(q)' /\ pos'[q] = n => q = p
  BY DEF Inv, Claims
<1>2. (CHOOSE q \in Producers : Owns(q)' /\ pos'[q] = n) = p
  BY <1>1
<1> QED BY <1>2, Zenon DEF ItemAt

LEMMA StoredItemNext ==
  ASSUME NEW n \in Nat, \A p \in Producers : Owns(p)' => pos'[p] # n
  PROVE  ItemAt(n)' = data'[Cell(n)]
BY DEF ItemAt, Cell

(* The queue of the channel, and what its places hold.                     *)
RingQueue == [i \in 1 .. enqueue - cpos |-> ItemAt(cpos + i - 1)]
RingSent == [p \in Producers |-> item[p] + IF Owns(p) THEN 1 ELSE 0]

QueueOK ==
  /\ cpos \in Nat /\ enqueue \in Nat /\ cpos <= enqueue
  /\ RingQueue \in Seq(Items) /\ Len(RingQueue) = enqueue - cpos
  /\ \A i \in 1 .. enqueue - cpos, n \in Nat : n = cpos + i - 1 => RingQueue[i] = ItemAt(n)

LEMMA QueueShape == Inv => QueueOK
<1> SUFFICES ASSUME Inv PROVE QueueOK
  OBVIOUS
<1>1. cpos \in Nat /\ enqueue \in Nat /\ cpos <= enqueue
  BY DEF Inv, TypeOK, Window, Consuming, freed
<1>2. ASSUME NEW i \in 1 .. enqueue - cpos PROVE ItemAt(cpos + i - 1) \in Items
  <2>1. cpos + i - 1 \in Nat
    BY <1>1
  <2> QED BY <2>1, ItemType
<1>3. RingQueue \in [1 .. enqueue - cpos -> Items] /\ enqueue - cpos \in Nat
  BY <1>1, <1>2 DEF RingQueue
<1>4. RingQueue \in Seq(Items) /\ Len(RingQueue) = enqueue - cpos
  BY <1>3
<1>5. \A i \in 1 .. enqueue - cpos, n \in Nat : n = cpos + i - 1 => RingQueue[i] = ItemAt(n)
  BY DEF RingQueue
<1> QED BY <1>1, <1>4, <1>5 DEF QueueOK

LEMMA SameSeq ==
  ASSUME NEW S, NEW s \in Seq(S), NEW t \in Seq(S), Len(s) = Len(t),
         \A i \in 1 .. Len(s) : s[i] = t[i]
  PROVE  s = t
<1>1. s \in [1 .. Len(s) -> S] /\ t \in [1 .. Len(s) -> S]
  BY LenProperties
<1> QED BY <1>1

(* What a position in flight holds stays what it is.                       *)
Kept == \A n \in Nat : cpos <= n /\ n < enqueue => ItemAt(n)' = ItemAt(n)

LEMMA QuietQueue ==
  ASSUME QueueOK, QueueOK', Kept, UNCHANGED <<cpos, enqueue>>
  PROVE  RingQueue' = RingQueue
<1>1. ASSUME NEW i \in 1 .. enqueue - cpos PROVE RingQueue'[i] = RingQueue[i]
  <2>1. PICK n \in Nat : n = cpos + i - 1 /\ n < enqueue /\ cpos <= n
    <3>1. cpos + i - 1 \in Nat /\ cpos + i - 1 < enqueue /\ cpos <= cpos + i - 1
      BY DEF QueueOK
    <3> QED BY <3>1
  <2>2. RingQueue[i] = ItemAt(n)
    BY <2>1 DEF QueueOK
  <2>3. RingQueue'[i] = ItemAt(n)'
    BY <2>1 DEF QueueOK
  <2>4. ItemAt(n)' = ItemAt(n)
    BY <2>1 DEF Kept
  <2> QED BY <2>2, <2>3, <2>4
<1>2. /\ RingQueue \in Seq(Items) /\ RingQueue' \in Seq(Items)
      /\ Len(RingQueue) = enqueue - cpos /\ Len(RingQueue') = enqueue - cpos
  BY DEF QueueOK, Items
<1> QED BY ONLY <1>1, <1>2, SameSeq

(* A step of a thread that neither claims nor stores keeps the items.      *)
LEMMA ItemsStay ==
  ASSUME Inv, Inv', UNCHANGED <<data, item>>,
         \A q \in Producers : (Owns(q)' <=> Owns(q)) /\ (Owns(q) => pos'[q] = pos[q])
  PROVE  Kept
<1> SUFFICES ASSUME NEW n \in Nat PROVE ItemAt(n)' = ItemAt(n)
  BY DEF Kept
<1>1. CASE \E p \in Producers : Owns(p) /\ pos[p] = n
  <2>1. PICK p \in Producers : Owns(p) /\ pos[p] = n
    BY <1>1
  <2>2. ItemAt(n) = <<p, item[p]>>
    BY <2>1, OwnedItem
  <2>3. ItemAt(n)' = <<p, item'[p]>>
    BY <2>1, OwnedItemNext
  <2> QED BY <2>2, <2>3
<1>2. CASE \A p \in Producers : Owns(p) => pos[p] # n
  <2>1. ItemAt(n) = data[Cell(n)]
    BY <1>2, StoredItem
  <2>2. ItemAt(n)' = data'[Cell(n)]
    BY <1>2, StoredItemNext
  <2> QED BY <2>1, <2>2
<1> QED BY <1>1, <1>2

(* The store of an item touches no cell of another position in flight.     *)
LEMMA WriteKeeps ==
  ASSUME Inv, Inv', NEW p \in Producers, WriteData(p)
  PROVE  Kept
<1>1. /\ data' = [data EXCEPT ![Cell(pos[p])] = <<p, item[p]>>] /\ UNCHANGED <<pos, item>>
      /\ pc' = [pc EXCEPT ![p] = "publish"] /\ pc[p] = "write"
  BY DEF WriteData
<1>2. \A q \in Producers : Owns(q)' <=> Owns(q)
  BY <1>1 DEF Owns, Inv, TypeOK
<1>3. Owns(p) /\ pos[p] \in Nat /\ freed <= pos[p] /\ pos[p] < enqueue
  BY <1>1 DEF Owns, Inv, TypeOK, Claims
<1>4. /\ freed \in Nat /\ enqueue \in Nat /\ cpos \in Nat /\ freed <= cpos
      /\ enqueue <= freed + Size
  BY DEF Inv, TypeOK, Window, freed
<1> SUFFICES ASSUME NEW n \in Nat, cpos <= n, n < enqueue PROVE ItemAt(n)' = ItemAt(n)
  BY DEF Kept
<1>5. CASE \E q \in Producers : Owns(q) /\ pos[q] = n
  <2>1. PICK q \in Producers : Owns(q) /\ pos[q] = n
    BY <1>5
  <2>2. ItemAt(n) = <<q, item[q]>>
    BY <2>1, OwnedItem
  <2>3. ItemAt(n)' = <<q, item'[q]>>
    BY <1>1, <1>2, <2>1, OwnedItemNext
  <2> QED BY <1>1, <2>2, <2>3
<1>6. CASE \A q \in Producers : Owns(q) => pos[q] # n
  <2>1. ItemAt(n) = data[Cell(n)]
    BY <1>6, StoredItem
  <2>2. ItemAt(n)' = data'[Cell(n)]
    BY <1>1, <1>2, <1>6, StoredItemNext
  <2>3. Cell(n) # Cell(pos[p])
    BY <1>3, <1>4, <1>6, DistinctCells, SizeAssumption
  <2>4. Cell(n) \in 0 .. Size - 1
    BY CellInRange
  <2>5. data'[Cell(n)] = data[Cell(n)]
    BY <1>1, <2>3, <2>4 DEF Inv, TypeOK
  <2> QED BY <2>1, <2>2, <2>5
<1> QED BY <1>5, <1>6

(* Publishing moves the item from its producer's hands to its cell.        *)
LEMMA PublishKeeps ==
  ASSUME Inv, Inv', Written, NEW p \in Producers, Publish(p)
  PROVE  Kept /\ RingSent' = RingSent
<1>1. /\ data' = data /\ pc' = [pc EXCEPT ![p] = "idle"] /\ pc[p] = "publish"
      /\ pos' = [pos EXCEPT ![p] = @ + 1] /\ item' = [item EXCEPT ![p] = @ + 1]
  BY DEF Publish
<1>2. /\ ~Owns(p)' /\ Owns(p)
      /\ \A q \in Producers \ {p} :
           /\ Owns(q)' <=> Owns(q)
           /\ pos'[q] = pos[q] /\ item'[q] = item[q]
  BY <1>1 DEF Owns, Inv, TypeOK
<1>3. \A q \in Producers : Owns(q) /\ pos[q] = pos[p] => q = p
  BY <1>2 DEF Inv, Claims
<1>4. ASSUME NEW n \in Nat PROVE ItemAt(n)' = ItemAt(n)
  <2>1. CASE pos[p] = n
    <3>1. ItemAt(n) = <<p, item[p]>>
      BY <1>2, <2>1, OwnedItem
    <3>2. ItemAt(n)' = data'[Cell(n)]
      BY <1>2, <1>3, <2>1, StoredItemNext
    <3> QED BY <1>1, <2>1, <3>1, <3>2, Zenon DEF Written
  <2>2. CASE pos[p] # n /\ \E q \in Producers : Owns(q) /\ pos[q] = n
    <3>1. PICK q \in Producers : Owns(q) /\ pos[q] = n
      BY <2>2
    <3>2. ItemAt(n) = <<q, item[q]>>
      BY <3>1, OwnedItem
    <3>3. ItemAt(n)' = <<q, item'[q]>>
      BY <1>2, <2>2, <3>1, OwnedItemNext
    <3> QED BY <1>2, <2>2, <3>1, <3>2, <3>3
  <2>3. CASE pos[p] # n /\ \A q \in Producers : Owns(q) => pos[q] # n
    <3>1. ItemAt(n) = data[Cell(n)]
      BY <2>3, StoredItem
    <3>2. ItemAt(n)' = data'[Cell(n)]
      BY <1>2, <2>3, StoredItemNext
    <3> QED BY <1>1, <3>1, <3>2
  <2> QED BY <2>1, <2>2, <2>3
<1>5. ASSUME NEW q \in Producers
      PROVE  (item[q] + IF Owns(q) THEN 1 ELSE 0)' = item[q] + IF Owns(q) THEN 1 ELSE 0
  <2>1. CASE q = p
    <3>1. item'[p] = item[p] + 1 /\ item[p] \in Nat
      BY <1>1 DEF Inv, TypeOK
    <3> QED BY <1>2, <2>1, <3>1
  <2>2. CASE q # p
    BY <1>2, <2>2
  <2> QED BY <2>1, <2>2
<1> QED BY <1>4, <1>5 DEF Kept, RingSent

(* The claim appends the producer's next item.                             *)
LEMMA ClaimIsSend ==
  ASSUME Inv, Inv', NEW p \in Producers, Claim(p)
  PROVE  /\ Len(RingQueue) + 1 <= Size
         /\ RingQueue' = RingQueue \o <<<<p, item[p]>>>>
         /\ ~Owns(p) /\ item[p] \in Nat
         /\ RingSent' = [RingSent EXCEPT ![p] = @ + 1]
<1>1. /\ enqueue = pos[p] /\ enqueue' = enqueue + 1 /\ pc[p] = "cas"
      /\ UNCHANGED <<data, pos, item, cpos>> /\ pc' = [pc EXCEPT ![p] = "write"]
  BY DEF Claim, CanClaim, cons
<1>2. /\ ~Owns(p) /\ Owns(p)' /\ item[p] \in Nat
      /\ \A q \in Producers \ {p} : Owns(q)' <=> Owns(q)
  BY <1>1 DEF Owns, Inv, TypeOK
<1>3. QueueOK
  BY QueueShape
<1>4. QueueOK'
  BY QueueShape, PTL
<1>lens. /\ cpos \in Nat /\ enqueue \in Nat /\ cpos <= enqueue
         /\ Len(RingQueue) = enqueue - cpos
  BY <1>3 DEF QueueOK
<1>5. Len(RingQueue) + 1 <= Size
  <2>1. enqueue' <= freed' + Size /\ freed' \in Nat
    BY DEF Inv, Window
  <2>2. freed' <= cpos'
    <3>1. cpos' \in Nat
      BY DEF Inv, TypeOK
    <3>2. freed' = cpos' \/ freed' = cpos' - 1
      BY DEF freed
    <3> QED BY <3>1, <3>2
  <2>3. enqueue' = enqueue + 1 /\ cpos' = cpos
    BY <1>1
  <2>4. PICK f \in Nat, n \in Nat, e \in Nat, c \in Nat, l \in Nat :
          f = freed' /\ n = Size /\ e = enqueue /\ c = cpos /\ l = Len(RingQueue)
    BY <1>lens, <2>1, SizeAssumption
  <2>5. e + 1 <= f + n /\ f <= c /\ l = e - c
    BY ONLY <1>lens, <2>1, <2>2, <2>3, <2>4, Zenon
  <2>6. l + 1 <= n
    BY ONLY <2>5, f \in Nat, n \in Nat, e \in Nat, c \in Nat
  <2> QED BY ONLY <2>4, <2>6
<1>6. ASSUME NEW n \in Nat, n < enqueue PROVE ItemAt(n)' = ItemAt(n)
  <2>1. CASE \E q \in Producers : Owns(q) /\ pos[q] = n
    <3>1. PICK q \in Producers : Owns(q) /\ pos[q] = n
      BY <2>1
    <3>2. ItemAt(n) = <<q, item[q]>>
      BY <3>1, OwnedItem
    <3>3. Owns(q)'
      BY <1>2, <3>1
    <3>4. ItemAt(n)' = <<q, item'[q]>>
      BY <1>1, <3>1, <3>3, OwnedItemNext
    <3> QED BY <1>1, <3>2, <3>4
  <2>2. CASE \A q \in Producers : Owns(q) => pos[q] # n
    <3>1. ItemAt(n) = data[Cell(n)]
      BY <2>2, StoredItem
    <3>2. enqueue # n
      BY <1>6 DEF Inv, TypeOK
    <3>3. ItemAt(n)' = data'[Cell(n)]
      BY <1>1, <1>2, <2>2, <3>2, StoredItemNext
    <3> QED BY <1>1, <3>1, <3>3
  <2> QED BY <2>1, <2>2
<1>7. PICK e : e = enqueue
  OBVIOUS
<1>8. ItemAt(e)' = <<p, item[p]>>
  BY <1>1, <1>2, <1>7, OwnedItemNext
<1> DEFINE it == <<p, item[p]>>
           k == enqueue - cpos
<1>9. /\ k \in Nat /\ RingQueue \in Seq(Items) /\ Len(RingQueue) = k
      /\ RingQueue' \in Seq(Items) /\ Len(RingQueue') = k + 1
  BY <1>1, <1>3, <1>4 DEF QueueOK, Items
<1>10. it \in Items
  BY <1>2 DEF Items
<1>11. RingQueue'[k + 1] = it
  <2>1. k + 1 \in 1 .. enqueue' - cpos' /\ e = cpos' + (k + 1) - 1 /\ e \in Nat
    <3>1. enqueue' = enqueue + 1 /\ cpos' = cpos /\ cpos \in Nat /\ enqueue \in Nat
          /\ cpos <= enqueue
      BY <1>1, <1>lens
    <3> QED BY ONLY <3>1, <1>7
  <2>2. RingQueue'[k + 1] = ItemAt(e)'
    BY <1>4, <2>1, Zenon DEF QueueOK
  <2> QED BY <1>8, <2>2
<1>12. ASSUME NEW i \in 1 .. k PROVE RingQueue'[i] = RingQueue[i]
  <2>1. PICK n \in Nat : n = cpos + i - 1 /\ n < enqueue
    <3>1. cpos + i - 1 \in Nat /\ cpos + i - 1 < enqueue
      BY <1>lens
    <3> QED BY <3>1
  <2>2. RingQueue[i] = ItemAt(n)
    BY <1>3, <2>1 DEF QueueOK
  <2>3. i \in 1 .. enqueue' - cpos' /\ n = cpos' + i - 1
    BY <1>1, <1>lens, <2>1
  <2>4. RingQueue'[i] = ItemAt(n)'
    BY <1>4, <2>3, Zenon DEF QueueOK
  <2> QED BY <1>6, <2>1, <2>2, <2>4
<1>13. RingQueue' = RingQueue \o <<it>>
  <2> HIDE DEF it, k
  <2>1. /\ RingQueue \o <<it>> \in Seq(Items) /\ Len(RingQueue \o <<it>>) = k + 1
        /\ (RingQueue \o <<it>>)[k + 1] = it
        /\ \A i \in 1 .. k : (RingQueue \o <<it>>)[i] = RingQueue[i]
    BY ONLY <1>9, <1>10
  <2>2. ASSUME NEW i \in 1 .. k + 1 PROVE RingQueue'[i] = (RingQueue \o <<it>>)[i]
    BY ONLY <1>9, <1>11, <1>12, <2>1
  <2> QED BY ONLY <1>9, <2>1, <2>2, SameSeq
<1>14. RingSent' = [RingSent EXCEPT ![p] = @ + 1]
  <2>1. ASSUME NEW q \in Producers PROVE RingSent'[q] = [RingSent EXCEPT ![p] = @ + 1][q]
    <3>1. item' = item
      BY <1>1
    <3>2. CASE q = p
      BY ONLY <1>2, <3>1, <3>2, p \in Producers DEF RingSent
    <3>3. CASE q # p
      BY ONLY <1>2, <3>1, <3>3, p \in Producers, q \in Producers DEF RingSent
    <3> QED BY <3>2, <3>3
  <2> QED BY <2>1, Zenon DEF RingSent
<1> QED BY <1>2, <1>5, <1>13, <1>14 DEF it

(* The consumer takes the item at the head.                                *)
LEMMA ReadIsReceive ==
  ASSUME Inv, Inv', ReadData
  PROVE  RingQueue # <<>> /\ out' = Head(RingQueue) /\ RingQueue' = Tail(RingQueue)
<1>1. /\ cpc = "read" /\ cpos' = cpos + 1 /\ out' = data[Cell(cpos)]
      /\ UNCHANGED <<data, enqueue, pc, pos, item>>
  BY DEF ReadData, prod
<1>2. cpos < enqueue /\ seq[Cell(cpos)] = cpos + 1 /\ cpos \in Nat /\ enqueue \in Nat
  BY <1>1 DEF Inv, TypeOK, Consuming
<1>3. QueueOK
  BY QueueShape
<1>4. QueueOK'
  BY QueueShape, PTL
<1>5. ItemAt(cpos) = data[Cell(cpos)]
  <2>1. ASSUME NEW q \in Producers, Owns(q) PROVE pos[q] # cpos
    <3>1. pos[q] \in Nat /\ seq[Cell(pos[q])] = pos[q]
      BY <2>1 DEF Inv, TypeOK, Claims
    <3> QED BY <1>2, <3>1
  <2> QED BY <1>2, <2>1, StoredItem
<1>6. Kept
  BY <1>1, ItemsStay DEF Owns
<1> DEFINE k == enqueue - cpos - 1
<1>7. /\ k \in Nat /\ RingQueue \in Seq(Items) /\ Len(RingQueue) = k + 1
      /\ RingQueue' \in Seq(Items) /\ Len(RingQueue') = k
  BY <1>1, <1>2, <1>3, <1>4 DEF QueueOK, Items
<1>8. RingQueue[1] = ItemAt(cpos)
  BY <1>2, <1>3 DEF QueueOK
<1>9. ASSUME NEW i \in 1 .. k PROVE RingQueue'[i] = RingQueue[i + 1]
  <2>1. PICK n \in Nat : n = cpos + i /\ n < enqueue /\ cpos <= n
    <3>1. cpos + i \in Nat /\ cpos + i < enqueue /\ cpos <= cpos + i
      BY <1>2
    <3> QED BY <3>1
  <2>2. i + 1 \in 1 .. enqueue - cpos /\ n = cpos + (i + 1) - 1
    BY <1>2, <2>1
  <2>3. RingQueue[i + 1] = ItemAt(n)
    BY <1>3, <2>2 DEF QueueOK
  <2>4. i \in 1 .. enqueue' - cpos' /\ n = cpos' + i - 1
    BY <1>1, <1>2, <2>1
  <2>5. RingQueue'[i] = ItemAt(n)'
    BY <1>4, <2>4, Zenon DEF QueueOK
  <2> QED BY <1>6, <2>1, <2>3, <2>5 DEF Kept
<1> HIDE DEF k
<1>10. RingQueue # <<>> /\ Head(RingQueue) = RingQueue[1]
  BY ONLY <1>7
<1>11. /\ Tail(RingQueue) \in Seq(Items) /\ Len(Tail(RingQueue)) = k
       /\ \A i \in 1 .. k : Tail(RingQueue)[i] = RingQueue[i + 1]
  BY ONLY <1>7, <1>10, HeadTailProperties
<1>12. RingQueue' = Tail(RingQueue)
  BY ONLY <1>7, <1>9, <1>11, SameSeq
<1> QED BY <1>1, <1>5, <1>8, <1>10, <1>12

(* The steps the channel does not see.                                     *)
LEMMA ConsumerStutters ==
  ASSUME Inv, StartConsume \/ LoadCell \/ FreeCell
  PROVE  UNCHANGED <<data, item, cpos, enqueue, out, pc, pos>>
BY DEF StartConsume, LoadCell, FreeCell, prod, Inv, Consuming

LEMMA ProducerStutters ==
  ASSUME Inv, NEW p \in Producers, LoadEnqueue(p) \/ CheckCell(p) \/ ClaimFails(p)
  PROVE  /\ UNCHANGED <<data, item, cpos, enqueue, out>>
         /\ \A q \in Producers : (Owns(q)' <=> Owns(q)) /\ (Owns(q) => pos'[q] = pos[q])
<1>1. CASE LoadEnqueue(p)
  BY <1>1 DEF LoadEnqueue, cons, Owns, Inv, TypeOK
<1>2. CASE CheckCell(p)
  <2>1. PICK v \in Loads(Cell(pos[p])) :
           pc' = [pc EXCEPT ![p] = IF FreeFor(v, pos[p]) THEN "cas"
                                   ELSE IF v < pos[p] THEN "idle" ELSE "reload"]
    BY <1>2, Zenon DEF CheckCell
  <2>2. pc[p] = "check" /\ UNCHANGED <<data, item, cpos, enqueue, out, pos>>
    BY <1>2 DEF CheckCell, cons
  <2> QED BY <2>1, <2>2 DEF Owns, Inv, TypeOK
<1>3. CASE ClaimFails(p)
  BY <1>3 DEF ClaimFails, cons, Owns, Inv, TypeOK
<1> QED BY <1>1, <1>2, <1>3

LEMMA StutterStep ==
  ASSUME Inv, Inv', UNCHANGED <<data, item, cpos, enqueue, out>>,
         \A q \in Producers : (Owns(q)' <=> Owns(q)) /\ (Owns(q) => pos'[q] = pos[q])
  PROVE  UNCHANGED <<RingQueue, RingSent, out>>
<1>1. QueueOK
  BY QueueShape
<1>2. QueueOK'
  BY QueueShape, PTL
<1>3. Kept
  BY ItemsStay
<1>4. RingQueue' = RingQueue
  BY <1>1, <1>2, <1>3, QuietQueue
<1>5. RingSent' = RingSent
  BY DEF RingSent
<1> QED BY <1>4, <1>5

(* The ring implements the bounded FIFO channel, for any number of         *)
(* producers, every size and any number of laps: try_publish appends its   *)
(* item at the compare-and-swap, before the item is even written, and what *)
(* try_consume and consume_batch hand over is what was published, in the   *)
(* order of the claims, once.                                              *)
THEOREM ImplementsChannel == Spec => RingIsChannel
<1> DEFINE bar == <<RingQueue, RingSent, out>>
<1>1. Init => Ring!Init
  <2> SUFFICES ASSUME Init PROVE Ring!Init
    OBVIOUS
  <2>1. RingQueue = <<>>
    BY DEF Init, RingQueue
  <2>2. RingSent = [p \in Producers |-> 0]
    BY DEF Init, RingSent, Owns
  <2> QED BY <2>1, <2>2 DEF Init, Ring!Init, RingQueue, RingSent
<1>2. Inv /\ Inv' /\ Written /\ [Next]_vars => [Ring!Next]_bar
  <2> SUFFICES ASSUME Inv, Inv', Written, [Next]_vars PROVE Ring!Next \/ UNCHANGED bar
    OBVIOUS
  <2>1. QueueOK
    BY QueueShape
  <2>2. QueueOK'
    BY QueueShape, PTL
  <2>3. CASE ReadData
    <3>1. RingQueue # <<>> /\ out' = Head(RingQueue) /\ RingQueue' = Tail(RingQueue)
      BY <2>3, ReadIsReceive
    <3>2. RingSent' = RingSent
      BY <2>3 DEF ReadData, prod, RingSent, Owns
    <3>3. Ring!Receive
      BY <3>1, <3>2, Zenon DEF Ring!Receive, RingQueue, RingSent
    <3> QED BY <3>3 DEF Ring!Next
  <2>4. ASSUME NEW p \in Producers, Claim(p) PROVE Ring!Next
    <3>1. /\ Len(RingQueue) + 1 <= Size
          /\ RingQueue' = RingQueue \o <<<<p, item[p]>>>>
          /\ ~Owns(p) /\ item[p] \in Nat
          /\ RingSent' = [RingSent EXCEPT ![p] = @ + 1]
      BY <2>4, ClaimIsSend
    <3>2. PICK one \in 1 .. Size : one = 1
      BY SizeAssumption
    <3>3. [i \in 1 .. one |-> <<p, RingSent[p] + i - 1>>] = <<<<p, item[p]>>>>
      BY <3>1, <3>2 DEF RingSent
    <3>4. out' = out
      BY <2>4 DEF Claim, cons
    <3>5. Ring!Send(p, one)
      BY <3>1, <3>2, <3>3, <3>4, Zenon DEF Ring!Send, RingQueue, RingSent
    <3> QED BY <3>5, Zenon DEF Ring!Next
  <2>5. ASSUME NEW p \in Producers, WriteData(p) PROVE UNCHANGED bar
    <3>1. Kept /\ UNCHANGED <<item, cpos, enqueue, out>>
      BY <2>5, WriteKeeps, Zenon DEF WriteData, cons
    <3>2. \A q \in Producers : Owns(q)' <=> Owns(q)
      BY <2>5 DEF WriteData, Owns, Inv, TypeOK
    <3>3. RingSent' = RingSent
      BY <3>1, <3>2 DEF RingSent
    <3> QED BY <2>1, <2>2, <3>1, <3>3, QuietQueue
  <2>6. ASSUME NEW p \in Producers, Publish(p) PROVE UNCHANGED bar
    <3>1. Kept /\ RingSent' = RingSent
      BY <2>6, PublishKeeps
    <3>2. UNCHANGED <<cpos, enqueue, out>>
      BY <2>6 DEF Publish, cons
    <3> QED BY <2>1, <2>2, <3>1, <3>2, QuietQueue
  <2>7. ASSUME NEW p \in Producers, LoadEnqueue(p) \/ CheckCell(p) \/ ClaimFails(p)
        PROVE  UNCHANGED bar
    BY <2>7, ProducerStutters, StutterStep
  <2>8. CASE StartConsume \/ LoadCell \/ FreeCell \/ UNCHANGED vars
    <3>1. UNCHANGED <<data, item, cpos, enqueue, out, pc, pos>>
      BY <2>8, ConsumerStutters DEF vars
    <3> QED BY <3>1, StutterStep DEF Owns
  <2> QED
    BY <2>3, <2>4, <2>5, <2>6, <2>7, <2>8 DEF Next, Producer, Finish, Consumer
<1>3. [Ring!Next]_bar =>
        [Ring!Next]_<<[i \in 1 .. enqueue - cpos |-> ItemAt(cpos + i - 1)],
                      [p \in Producers |-> item[p] + IF Owns(p) THEN 1 ELSE 0], out>>
  BY DEF RingQueue, RingSent
<1> QED
  BY <1>1, <1>2, <1>3, InvHolds, WrittenHolds, PTL DEF Spec, RingIsChannel, Ring!Spec
=============================================================================
