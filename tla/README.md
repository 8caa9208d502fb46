# Titan-HFT: TLA+ verification

TLA+ models of the Titan-HFT matching engine and its server, the TLC runs that
check them on small instances, and TLAPS proofs for every value of the
constants. `PROJECT.json` holds the exact correspondence of definitions and
source lines, the runs, the mutants, the hazards and the theorems.

## The system

```
clients --TCP--> gateway threads --MPSC ring--> sequencer --ingress ring--> matcher --egress ring--> publisher --UDP-->
                                                   |                           |
                                              WAL (mmap)              snapshot pool --> snapshot thread --UDP-->
```

| Part | State | Operations | What makes it hard |
|---|---|---|---|
| PIN node (`pin_node.hpp`) | occupancy mask, arrival links, head, tail | insert, remove, reset | slots are reused out of order, links of free slots are stale |
| Order book (`order_book.hpp`) | slab by id, node chains per level, freelist, aggregates | add, cancel, reclaim | three ways to free a node, rollback of a half-made level, aggregates kept beside the chains |
| Price index (`rb_price_index.hpp`) | red-black tree in a pool, neighbour links, cached best | try_emplace, erase, find, iteration | rebalancing, the shared sentinel, links kept beside the tree |
| Matcher (`matcher.hpp`) | the book | submit: cancel, cross, rest or reject | partial fills followed by a refusal, emptied nodes in a chain |
| Snapshot pool (`snapshot.hpp`, `main.cpp`) | three buffers, published index, claim flags | try_snapshot; acquire, send, release | claim races with publication, last image at shutdown |
| SPSC rings (`spsc_ring.hpp`) | slots, two counters, two private copies | single and batched publish and consume | stale copies, waves, wrap-around |
| MPSC ring (`mpsc_ring.hpp`) | cells with sequence numbers, enqueue and dequeue | try_publish, try_consume, consume_batch | racing producers, gaps, laps, spurious failures |
| Sequencer and WAL (`sequencer.hpp`, `journaler.hpp`) | next seq, mapped file, flush cursor | publish, flush cadence, close, replay | crashes between two words, pages written back in any order |
| TCP gateway (`tcp_gateway.hpp`) | connections with a carried fragment | epoll loop, accept, read, parse, push, stop | edge-triggered readiness, split orders, reused descriptors |
| Server (`main.cpp`, `udp_publisher.hpp`) | threads, three done flags, egress sink, publisher batch | the thread loops, signal, drain | full rings, shutdown at any moment, dropped datagrams |
| Market maker (`bots/market_maker.cpp`) | inventory, its own orders, best prices, connection | quote, cancel, circuit breaker, apply fills | feed threads race with the quoting loop, events are lost or late, connections break |

What correctness means here: strict price-time priority; a book that is never
crossed and whose bookkeeping agrees with its orders; rings that lose,
duplicate and reorder nothing; an order is in the log before the matcher can
see it, and the log can be replayed; an image of the book is never a mixture
of two; a shutdown drains everything and ends; and the bot keeps at most one
quote a side in the market as long as its connection holds, leaves it when its
limit is reached, and never trades with itself.

## Modules

| Module | Models | Notes |
|---|---|---|
| `Orders` | orders, admissibility, events | shared definitions |
| `NodeFifo` | what a PIN node promises | used by the book |
| `PinNode` | the node itself, by mask and links | implements a FIFO of arrivals |
| `OrderBook` | `add`, `cancel`, slab, chains, freelist, aggregates | operators on a book record |
| `Matcher` | `submit`, one action per fill, rest, rejection | composed from `OrderBook`, `NodeFifo`, `Orders` |
| `PriceTimeBook` | abstract: price-time priority over a queue of orders | `Matcher` refines it |
| `RbPriceIndex` | the price index | recursive, checked by TLC only |
| `SnapshotPool` | pool, writer and reader threads | one seq_cst access per step |
| `Channel` | abstract: a bounded FIFO with several senders | both rings refine it |
| `SpscRing`, `MpscRing` | the rings | one shared access per step |
| `Wal` | sequencer, mapped log, crashes, opening, replay | words and pages |
| `TcpGateway` | one gateway, its clients, epoll | bytes are stream positions, `edges` the readiness not yet reported |
| `Pipeline` | all threads of the server, the drain and the joins | rings are instances of `Channel`; of the snapshot thread its exit |
| `MarketMaker` | the bot's three threads, and the exchange as one client sees it | one critical section or one send per step |
| `MCMatcher` | the orders TLC submits, symmetry | constants only |
| `MCBookParts` | `RbPriceIndex` and `PinNode`, one of them per behaviour | for TLC only |
| `*Proofs` | theorems about the module of that name | see below |

State corresponds to code by name wherever the language allows it
(`cached_consumer`, `synced_count`, `sequencer_done`, ...). A variable `pc`,
`wpc`, `mpc` and so on says where a thread is in its function; its values are
explained where it is declared. An action is a whole handler, or, in the
lock-free parts, the stretch up to the next access that another thread can see.
Small operators commented `Slip:` stand just before the definition they vary:
each is a plausible mistake in the code, and each property is violated when its
slip takes the place of the definition.

Choices worth knowing:

* **Memory model.** In the rings an acquire load may return any earlier value
  the modification order allows, not just the latest; a compare-and-swap acts
  on the latest and may fail spuriously. The snapshot pool uses seq_cst
  throughout, so there an interleaving is exact. In `Pipeline` a done flag is
  read first and the ring looked at in a further step, only if the flag was set,
  as the loops of the threads do.
* **Refused orders.** `add` makes a new level before it asks the pool for a
  node. `AddFails` does the same: the level goes into the book and, when there is
  no node, `Rollback` takes it out again. A pool node of the price index is named
  by its price, so the index's own free list appears as a count.
* **Matcher and index.** `OrderBook` sees the index as a function from prices
  to levels; `RbPriceIndex` shows, with `IndexIsMap` and `SearchFindsLevels`,
  that the tree is such a function, whatever price is asked for.
* **Matcher and pipeline.** In `Pipeline` an order causes an arbitrary number of
  events; which ones is `Matcher`'s business.
* **Log.** The sequencer starts with seq 0 and a fresh file, as `main` does. A
  full log throws inside a `noexcept` function: the process dies, which is `Kill`.
  After a crash `Open` maps the file and looks at its header; a file whose header
  page never reached the disk is refused.
* **Gateway.** A reset connection is reported as `EPOLLHUP` or as a failing
  `recv`. `recv` may return fewer bytes than have arrived.
* **Market maker.** Its threads share state under one mutex, so a step is a
  critical section; a send and the bookkeeping after it are two steps, as in the
  code. The exchange is what `Matcher` is to one client: commands in the order
  sent, trades with others at any time. The feed is a queue whose head may be
  lost. A broken connection loses a suffix of what is under way, and sends go on
  succeeding until the reset is seen. A `tcp_connect` that fails leaves the loop
  where it was, so it is a stuttering step. When a cycle starts is left open,
  which covers the timer and the mid moving.

## Runs

| Run | Bounds | Shows |
|---|---|---|
| `snapshot` | 3 slots (as in `main.cpp`), 2 claim retries, 5 images | no torn image is sent, the writer always finds a slot, the last image goes out, the reader ends |
| `matcher` | 3 ids and one outside the slab, 2 prices, quantities 1-2, 2 nodes of 2 slots, 2 levels per side | refinement of `PriceTimeBook`; chains, node conservation, slab and aggregates exact; never crossed; the pool runs out and a level made in vain is rolled back |
| `book_parts` | index: 9 prices, 8 levels, both comparators; node: capacity 4, 6 arrivals | red-black laws, neighbour links, search, bounded map; arrival order under every reuse of slots |
| `spsc` | 4 slots, batches up to 6, 11 items (nearly three laps) | no slot race, order, refinement of `Channel`, delivery, return of every publish |
| `mpsc` | 2 producers, 4 cells, 3 items each | no cell race, refinement of `Channel`, delivery across gaps |
| `wal` | header and records of 3 words, pages of 8, 8 records, checkpoints every 2 x 2 | a kill loses nothing pushed, a closed log is durable, a checkpoint puts on disk what it covers |
| `wal_loss_window` | as above with 7 records, a checkpoint every 3 orders | **violation**, see Findings |
| `gateway` | 2 descriptors, 2 sessions, orders of 3 bytes, reads of up to 6, 7 bytes, 2 events a batch, one failing call | reassembly however reads fall and descriptors are reused, no lost edge, nothing unread at a graceful close, `stop` works once the clients are silent |
| `pipeline` | 2 gateways with 3 orders, rings of 2, up to 1 event an order, both marks 2, one event a datagram | write-ahead in order, no order or event lost at shutdown, shutdown completes, everything gets through |
| `market_maker` | ids 1-6 (three requotes), quotes of 2, halt beyond 1, mids 2 and 5, one trade, one broken connection or lost event | one quote a side, and one more a side after a broken connection; the breaker leaves the market, no self-trade, the bot starts and reconnects |
| `market_maker_quotes` | as above without trades | **violation**, see Findings |
| `market_maker_unwind` | ids 1-5, 4 trades, nothing lost or broken | **violation**, see Findings |

Why these bounds are enough to be interesting: a node with 4 slots and 6
arrivals has head, middle and tail removals with reuse in between; 8 levels
reach every case of both fixups and its mirror image; the MPSC ring is passed
more than once by producers that can be a lap apart; pages of 8 words and
records of 3 put record boundaries on and across page boundaries; with orders
of 3 bytes and reads of 6 a read extends a fragment, holds two whole orders, or
ends one order, holds another and begins a third; 3 orders fill rings of 2 and
leave one waiting; three requotes leave room for a cycle that fails half way and
for the one that cancels the same ids again; the bot's two mids are far enough apart for a fresh bid to reach an
old ask, one fill passes its limit, and its price can fall to where no bid is
possible. Exhaustion of the price index is left to `book_parts`; in `matcher`
the node pool is what runs out. What the bounds leave out: chains in `matcher`
have two nodes at most, so no node is emptied between two others; in
`market_maker` a lost event and a broken connection do not come together, and the
breaker's own orders find nobody to trade with.

Type invariants are part of the proved invariants wherever a module has proofs,
so no run repeats them. That no generation of an image is sent twice
(`FreshGenerations`) is proved as well and not run.

`CHECK_DEADLOCK FALSE` is used where the system stops by design: after a
shutdown, a crash, or when a bound on inputs is reached.

### Fairness

* `snapshot`: weak fairness of each thread; neither blocks.
* `spsc`, `mpsc`: weak fairness of a call that has begun, and strong fairness
  of the load that returns the latest value. The standard asks that stores
  become visible in a finite time, and the spinning side loads again and again.
  No call is assumed to be started by the producers.
* `pipeline`: weak fairness of every thread, and strong fairness of taking
  an order out of a ring, which is what `Delivered` shows of the rings. Orders
  arriving are finitely many, so `ShutdownCompletes` too is about clients that
  fall silent; nothing is assumed of the signal.
* `gateway`: weak fairness of the gateway thread. Clients owe nothing, but
  `StopReturns` speaks only of behaviours in which they fall silent at last:
  `handle_conn` reads until `EAGAIN` and never looks at `stop_fd_`, so a client
  that keeps sending can keep `run` from returning, and with it the shutdown.
* `market_maker`: weak fairness of the loop of `main`, which sleeps 300 ms at
  most, and of a reset becoming visible to `send`; and, of the gateway, that an
  attempt to connect succeeds in the end. Nothing is assumed of the feeds, the
  listeners or the matching.

## Findings

* `wal_loss_window` (`journaler.hpp:133`): an asynchronous flush advances the
  cursor of the synchronous one, so the documented loss window of
  `flush_interval * sync_every` orders can be exceeded after a power failure.
  `LossWindowOfCheckpoints` proves the window where every flush is a checkpoint.
* `market_maker_unwind` (`market_maker.cpp:193`): the bot forgets an order when
  it sends the cancel and never records its IOC orders, so fills of both are not
  counted. Its inventory drifts from its position, and the breaker can sell a
  position that is short already.

* `market_maker_quotes` (`market_maker.cpp:373`): when the ask's send fails after
  the bid's succeeded, the bid's id is not among the current ones, and the next
  requote posts a fresh bid beside it: two live bids, where lines 30-31 and
  364-365 promise one. `QuotesBounded` shows what holds: each broken connection
  leaves at most one quote a side behind.

Further places where code and documents part, met while modelling and not the
subject of a run:

* After a power failure replay can accept a record behind the last checkpoint of
  which only the page with its seq was written (`sequencer.hpp:126`), although
  `sequencer.hpp:111-114` and section 5 of `ARCHITECTURE.md` say that a torn tail
  breaks the sequence and stops replay at the last good record. The properties of
  `wal` speak of whole records only after a kill, a checkpoint or a close.
* After an error of `accept4` other than `EAGAIN` queued connections wait until
  another client connects (`tcp_gateway.hpp:186`), although lines 33-36 and 179
  have every wave drained. `NoEdgeLost` excepts the listening socket in that case
  (`gave_up`), and in no other.
* `run` "returns once stop() wakes it" (`tcp_gateway.hpp:132`) only if no client
  keeps `handle_conn` reading (lines 217-222), see Fairness.
* `matcher.hpp:157-158` still speaks of the lowest occupied slot; the code takes
  the oldest order of the node, which is what price-time priority asks for.

In the breaker's branch failing sends are ignored, so a connection that breaks
while the bot is halted is not replaced; `KeepsQuoting` leaves that case out.

## Proofs

All theorems hold for every value of the constants that the named assumptions
admit, and the input bounds (`MaxSeq`, `MaxItems`, ...) are arbitrary there.

* **`SnapshotPoolProofs`** (from `Slots >= 3`, `ClaimRetries >= 1`):
  `NoTornRead`, `WriterNeverSkips`, `FinalImageSent`, `PublishedStable`,
  `FreshGenerations`. None is inductive. The invariant adds: a raised flag
  belongs to the reader's current index (`FlagInv`); the published buffer is
  whole, the one being filled is neither it nor the one held (`BufferInv`);
  during the scan at most one index before the cursor besides the published one
  was busy, and it is the reader's (`ScanInv`, why three slots are enough);
  images are ordered last sent <= held <= published (`OrderInv`); and what the
  reader knows in its final round (`FinalInv`).
* **`PinNodeProofs`** (from any capacity): `TimeOrder`. The invariant adds that
  arrival stamps are distinct and below the next one; insertion and removal have
  a lemma each.
* **`SpscRingProofs`** (from any size and batch length): `NoSlotRace`,
  `InOrder`, and `ImplementsChannel`, the refinement of `Channel`. The invariant
  says each private copy is behind the counter it copies and ahead of what it
  guards, and that slot `k % Size` holds item `k` for every item in flight;
  `DistinctSlots` is the arithmetic behind it.

* **`MpscRingProofs`** (from any size and any set of producers): `NoCellRace`,
  even if every load is stale, and `ImplementsChannel`, the refinement of
  `Channel`. The invariant: the positions claimed and not yet
  consumed span at most one lap (`Window`); the seq of a cell says whose turn it
  is (`Turns`); a producer past its compare-and-swap is the only one with its
  position (`Claims`); the consumer is at a published cell (`Consuming`).
  `DistinctCells` is the arithmetic behind it. An item is in the channel from the
  moment its cell is claimed.
* **`MatcherProofs`** (from `PriceAssumption`, `SubmittedAssumption`):
  `NeverCrossed`, for any orders, pools and capacities. The invariant drops
  "between orders": the sides never overlap, since fills and cancels only take
  prices away (`Shrinks`), a refused order leaves none behind
  (`AddFailsShrinks`), and a residual rests only where the best opposite
  price does not reach it (`ResidualOutside`, with `MinBest` and `MaxBest` by
  well-foundedness). It does not depend on the chains.
* **`PipelineProofs`** (from positive sizes and marks, any number of gateways):
  `JournaledFirst` and `NothingLeftBehind`. Journal, order in hand and inbound
  ring are one stream in which each gateway's orders increase (`Stream`) and
  none is missing (`Covered`); together they give that the journal has no gaps.
  `Drained` says that a stage ends after its upstream with its ring empty,
  `Events` where every event is.
* **`WalProofs`** (from `LayoutAssumption`: any sizes, a header within a page):
  `KilledLosesNothing`, `ClosedIsDurable`, `CheckpointOnDisk`, and `LossWindow` for
  `sync_every = 1`. The invariant orders the cursors pushed <= count <= words
  stored, says that what is durable was stored, and that after a checkpoint the
  pages of its records and the header are on disk; lemmas on pages and words
  (`PageBounds`, `WordBounds`, `RecordPage`) carry the arithmetic.
* **`TcpGatewayProofs`** (from any descriptors, buffer and batch sizes):
  `NoEdgeLost`, `GracefulCloseReadsAll` and `StreamReassembled`. The invariant
  (`Watched`): a connection with something to read is among the edges, in the
  batch at hand, or being read; likewise the listening socket unless
  `accept_loop` gave up on its last wave. `Reassembly` adds that of the bytes
  read of a session the whole orders are pushed and the rest is carried in the
  `Conn` of its descriptor; the lemmas on `parse_chunk` follow its three parts.

Only model-checked: all liveness (fairness and `ENABLED` are beyond the prover);
`RbPriceIndex`, whose operators are recursive; what `Matcher` shows of chains,
slab, aggregates and price-time priority, and `NodeImplementsFifo`, which rest on
what a recursion over data computes; `MarketMaker`.

## Not modelled

The arena (used only at construction), the web interface, benchmarks, scripts
and test tools; set-up failures of sockets and files, which end the process
before any thread exists; the checks of the log's header against foreign files;
printing and counters kept for display, the bot's cash among them; prefetching.
