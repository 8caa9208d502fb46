---------------------------- MODULE MarketMaker ----------------------------
(***************************************************************************)
(* The market-making bot (bots/market_maker.cpp) and the exchange it       *)
(* trades on.  The bot has three threads: the loop of main, which quotes   *)
(* and cancels over TCP, and two listeners, for the trade feed and for the *)
(* snapshots, which share the inventory, the book of its own orders and    *)
(* the best prices with it under one mutex.  A step of the model is a      *)
(* critical section, or one send.                                          *)
(*                                                                         *)
(* The exchange is Matcher seen by one client: it takes the client's       *)
(* orders in the order they were sent, other clients trade with them at    *)
(* any time, and every trade goes out on a feed that may be late and may   *)
(* lose datagrams.  A connection may break at any moment; what the gateway *)
(* had not read by then is gone.                                           *)
(***************************************************************************)
EXTENDS Integers, SequencesExt

CONSTANTS
  HALF_SPREAD, SKEW_THRESHOLD, MAX_SKEW, HALT_INV, QUOTE_QTY, FLATTEN_CHUNK,
  IOC_CROSS, SEED_MID, ID_BASE, ID_MAX,
  UNITS_PER_TICK,   \* 1 / SKEW_PER_UNIT
  Mids,             \* the prices snapshots and trades show
  MaxId,            \* bound: the bot posts orders with smaller ids only
  MaxTrades,        \* bound: trades with other clients
  MaxFaults         \* bound: broken connections and lost datagrams together

ASSUME KnobsAssumption ==
  /\ {SEED_MID, QUOTE_QTY, FLATTEN_CHUNK, UNITS_PER_TICK, ID_BASE} \subseteq Nat \ {0}
  /\ {HALF_SPREAD, SKEW_THRESHOLD, MAX_SKEW, HALT_INV, IOC_CROSS} \subseteq Nat
  /\ Mids \subseteq Nat \ {0} /\ MaxId <= ID_MAX

VARIABLES
  pc,          \* main: "top", "breaker", "send", "note"
  todo,        \* what this cycle has still to send
  cycle,       \* kind of the cycle, its mid, its new ids, and whether all was sent
  cur,         \* cur_bid_id and cur_ask_id, 0 for none
  next_id,
  gw,          \* gw_fd: "none", "up", "reset" (not noticed yet), "dead" (sends fail)
  orders,      \* g_orders: side and remaining by id
  inventory,   \* g_inventory
  best,        \* the mid of g_best_bid and g_best_ask, 0 unless g_have_mid
  traded,      \* g_last_trade_px # 0
  wire,        \* sent, and not yet executed by the matcher
  live,        \* the bot's orders that rest in the book
  feed,        \* trade events on their way
  pos,         \* the bot's true position
  trades, drops, losses

bot  == <<pc, todo, cycle, cur, next_id>>
mine == <<orders, inventory, traded>>
exch == <<wire, live, pos, trades>>
vars == <<pc, todo, cycle, cur, next_id, gw, orders, inventory, best, traded,
          wire, live, feed, pos, trades, drops, losses>>

Without(f, id) == Restrict(f, DOMAIN f \ {id})
Abs(n)         == IF n < 0 THEN -n ELSE n
Signed(side, q) == IF side = "BUY" THEN q ELSE -q

Idle == [kind |-> "none", mid |-> 0, bid |-> 0, ask |-> 0, ok |-> TRUE]

Init ==
  /\ pc = "top" /\ todo = <<>> /\ cycle = Idle
  /\ cur = [bid |-> 0, ask |-> 0] /\ next_id = ID_BASE /\ gw = "none"
  /\ orders = <<>> /\ inventory = 0 /\ best = 0 /\ traded = FALSE
  /\ wire = <<>> /\ live = <<>> /\ feed = <<>> /\ pos = 0
  /\ trades = 0 /\ drops = 0 /\ losses = 0

-----------------------------------------------------------------------------
(* The connection.                                                         *)

(* tcp_connect.  When it fails the loop sleeps and comes back to the same  *)
(* state: that is a stuttering step, taken any number of times.            *)
Connect ==
  /\ pc = "top" /\ gw = "none"
  /\ gw' = "up"
  /\ UNCHANGED <<bot, mine, best, exch, feed, drops, losses>>

(* The gateway has read a prefix of what is under way.                     *)
Drop ==
  /\ gw = "up" /\ drops + losses < MaxFaults
  /\ gw' = "reset" /\ drops' = drops + 1
  /\ \E n \in 0 .. Len(wire) : wire' = SubSeq(wire, 1, n)
  /\ UNCHANGED <<bot, mine, best, live, feed, pos, trades, losses>>

(* From now on send returns an error.                                      *)
ResetSeen ==
  /\ gw = "reset"
  /\ gw' = "dead"
  /\ UNCHANGED <<bot, mine, best, exch, feed, drops, losses>>

-----------------------------------------------------------------------------
(* The loop of main.                                                       *)

Cancel(id)              == [op |-> "CANCEL", id |-> id]
Order(op, id, side, px, q) == [op |-> op, id |-> id, side |-> side, px |-> px, rem |-> q]

NextId(n) == IF n >= ID_MAX THEN ID_BASE ELSE n

(* The skew in ticks, rounded and clamped.                                 *)
Skew(inv) ==
  LET ticks == (2 * Abs(inv) + UNITS_PER_TICK) \div (2 * UNITS_PER_TICK)
  IN  IF Abs(inv) <= SKEW_THRESHOLD THEN 0
      ELSE (IF inv > 0 THEN 1 ELSE -1) * Min({ticks, MAX_SKEW})

(* Slip: without a snapshot there is no mid.                               *)
SnapshotOnly == IF best # 0 THEN {best} ELSE {}

(* The mid the loop works with: the snapshot's, else that of a trade, else *)
(* the seed.                                                               *)
EffectiveMid == IF best # 0 THEN {best} ELSE IF traded THEN Mids ELSE {SEED_MID}

Halted == Abs(inventory) > HALT_INV

(* Slip: the fresh quotes go out before the prior ones are pulled.         *)
PostThenPull(pulls, quotes) == quotes \o pulls

(* Slip: one side is replaced after the other.                             *)
SideBySide(pulls, quotes) ==
  IF Len(pulls) < 2 \/ Len(quotes) < 2 THEN pulls \o quotes
  ELSE <<pulls[1], quotes[1], pulls[2], quotes[2]>>

PullThenPost(pulls, quotes) == pulls \o quotes

(* A cycle that requotes: the mid has moved, or REQUOTE_MS are over.       *)
Requote ==
  /\ pc = "top" /\ gw # "none" /\ ~Halted
  /\ next_id + 1 < MaxId
  /\ \E mid \in EffectiveMid :
       LET r     == mid - Skew(inventory)
           bid   == NextId(next_id)
           ask   == NextId(bid + 1)
           lower == r - HALF_SPREAD > 0
           pulls == SelectSeq(<<Cancel(cur.bid), Cancel(cur.ask)>>, LAMBDA c : c.id # 0)
           quote == (IF lower THEN <<Order("LIMIT", bid, "BUY", r - HALF_SPREAD, QUOTE_QTY)>>
                     ELSE <<>>)
                    \o <<Order("LIMIT", ask, "SELL", r + HALF_SPREAD, QUOTE_QTY)>>
       IN  /\ todo' = PullThenPost(pulls, quote)
           /\ cycle' = [kind |-> "quote", mid |-> 0, bid |-> IF lower THEN bid ELSE 0,
                        ask |-> ask, ok |-> TRUE]
           /\ next_id' = ask + 1
  /\ pc' = "send"
  /\ UNCHANGED <<cur, gw, mine, best, exch, feed, drops, losses>>

(* The circuit breaker opens on the inventory just read ...                *)
Breach ==
  /\ pc = "top" /\ gw # "none" /\ Halted
  /\ next_id < MaxId
  /\ \E mid \in EffectiveMid :
       cycle' = [kind |-> IF inventory > 0 THEN "sell" ELSE "buy", mid |-> mid,
                 bid |-> 0, ask |-> 0, ok |-> TRUE]
  /\ pc' = "breaker"
  /\ UNCHANGED <<todo, cur, next_id, gw, mine, best, exch, feed, drops, losses>>

(* Slip: only the side that adds to the position is pulled.                *)
AddingQuotes ==
  {id \in DOMAIN orders : (orders[id].side = "BUY") = (cycle.kind = "sell")}

RestingQuotes == DOMAIN orders

(* ... and pulls what is in the bot's book a moment later.                 *)
MassCancel ==
  /\ pc = "breaker"
  /\ LET ids   == SetToSeq(RestingQuotes)
         id    == NextId(next_id)
         reach == IF cycle.kind = "sell" THEN -IOC_CROSS ELSE IOC_CROSS
     IN  /\ todo' = [i \in 1 .. Len(ids) |-> Cancel(ids[i])]
                    \o <<Order("IOC", id, IF cycle.kind = "sell" THEN "SELL" ELSE "BUY",
                               cycle.mid + reach, FLATTEN_CHUNK)>>
         /\ next_id' = id + 1
  /\ pc' = "send"
  /\ UNCHANGED <<cycle, cur, gw, mine, best, exch, feed, drops, losses>>

(* send_all.  A broken connection takes what fits into its buffer until    *)
(* the reset is seen.                                                      *)
Send ==
  /\ pc = "send" /\ todo # <<>> /\ gw # "dead"
  /\ wire' = IF gw = "up" THEN Append(wire, Head(todo)) ELSE wire
  /\ pc' = "note"
  /\ UNCHANGED <<todo, cycle, cur, next_id, gw, mine, best, live, feed, pos, trades,
                 drops, losses>>

(* The result of fire counts, that of cancel_order is ignored.             *)
SendFails ==
  /\ pc = "send" /\ todo # <<>> /\ gw = "dead"
  /\ todo' = Tail(todo)
  /\ cycle' = [cycle EXCEPT !.ok = @ /\ Head(todo).op = "CANCEL"]
  /\ UNCHANGED <<pc, cur, next_id, gw, mine, best, exch, feed, drops, losses>>

(* After the send, under the mutex: cancel_order forgets the id, fire      *)
(* records a limit order, and only that.                                   *)
Note ==
  /\ pc = "note"
  /\ LET c == Head(todo)
     IN  orders' = CASE c.op = "CANCEL" -> Without(orders, c.id)
                     [] c.op = "LIMIT"  -> (c.id :> [side |-> c.side, rem |-> c.rem]) @@ orders
                     [] OTHER           -> orders
  /\ todo' = Tail(todo)
  /\ pc' = "send"
  /\ UNCHANGED <<cycle, cur, next_id, gw, inventory, best, traded, exch, feed, drops, losses>>

(* The end of a cycle.  When an order of a requote was not sent, the       *)
(* socket is closed and the current ids stay what they were.               *)
EndCycle ==
  /\ pc = "send" /\ todo = <<>>
  /\ cur' = IF cycle.ok \/ cycle.kind # "quote" THEN [bid |-> cycle.bid, ask |-> cycle.ask]
            ELSE cur
  /\ gw' = IF cycle.ok \/ cycle.kind # "quote" THEN gw ELSE "none"
  /\ cycle' = Idle /\ pc' = "top"
  /\ UNCHANGED <<todo, next_id, mine, best, exch, feed, drops, losses>>

-----------------------------------------------------------------------------
(* The listeners.                                                          *)

(* apply_fill_locked                                                       *)
Fill(s, id, q) ==
  IF id \notin DOMAIN s.orders THEN s
  ELSE LET o    == s.orders[id]
           take == Min({q, o.rem})
       IN  [orders |-> IF take = o.rem THEN Without(s.orders, id)
                       ELSE [s.orders EXCEPT ![id].rem = @ - take],
            inventory |-> s.inventory + Signed(o.side, take)]

(* trade_thread: one event.                                                *)
Deliver ==
  /\ feed # <<>>
  /\ LET ev == Head(feed)
         s  == Fill(Fill([orders |-> orders, inventory |-> inventory], ev.taker, ev.qty),
                    ev.maker, ev.qty)
     IN  IF ev.status = "REJECTED"
         THEN orders' = Without(orders, ev.taker) /\ UNCHANGED <<inventory, traded>>
         ELSE orders' = s.orders /\ inventory' = s.inventory /\ traded' = TRUE
  /\ feed' = Tail(feed)
  /\ UNCHANGED <<bot, gw, best, exch, drops, losses>>

Lose ==
  /\ feed # <<>> /\ drops + losses < MaxFaults
  /\ feed' = Tail(feed) /\ losses' = losses + 1
  /\ UNCHANGED <<bot, gw, mine, best, exch, drops>>

(* snapshot_thread: an image with both sides.  Only the start of a cycle    *)
(* reads the mid, so an image is shown just before one; a trade between    *)
(* other clients has no other effect.                                      *)
Snapshot ==
  /\ pc = "top" /\ gw # "none"
  /\ \E mid \in Mids \ {best} : best' = mid
  /\ UNCHANGED <<bot, gw, mine, exch, feed, drops, losses>>

-----------------------------------------------------------------------------
(* The exchange.                                                           *)

in == Head(wire)
Arrived(op) == wire # <<>> /\ in.op \in op
Admissible == in.px > 0
Event(status, taker, maker, q) == [status |-> status, taker |-> taker, maker |-> maker, qty |-> q]
outside == <<bot, gw, mine, best, drops, losses>>

(* The incoming order is left with q less, and gone when that is nothing.  *)
Reduce(q) == wire' = IF q = in.rem THEN Tail(wire) ELSE [wire EXCEPT ![1].rem = @ - q]
Hit(id, q) ==
  live' = IF q = live[id].rem THEN Without(live, id) ELSE [live EXCEPT ![id].rem = @ - q]

(* The bot's own orders that the incoming one can trade with.              *)
OwnHits ==
  {id \in DOMAIN live : /\ live[id].side # in.side
                        /\ IF in.side = "BUY" THEN in.px >= live[id].px ELSE in.px <= live[id].px}

ExecuteCancel ==
  /\ Arrived({"CANCEL"})
  /\ live' = Without(live, in.id) /\ wire' = Tail(wire)
  /\ UNCHANGED <<outside, feed, pos, trades>>

TradeWithOwn ==
  /\ Arrived({"LIMIT", "IOC"}) /\ Admissible
  /\ \E id \in OwnHits :
       LET q == Min({in.rem, live[id].rem})
       IN  Reduce(q) /\ Hit(id, q) /\ feed' = Append(feed, Event("FILL", in.id, id, q))
  /\ UNCHANGED <<outside, pos, trades>>

TradeWithOthers ==
  /\ Arrived({"LIMIT", "IOC"}) /\ Admissible /\ trades < MaxTrades
  /\ \E q \in 1 .. in.rem :
       /\ Reduce(q) /\ feed' = Append(feed, Event("FILL", in.id, 0, q))
       /\ pos' = pos + Signed(in.side, q)
  /\ trades' = trades + 1
  /\ UNCHANGED <<outside, live>>

(* What is left of a limit order rests, of an IOC order is discarded.      *)
Rest ==
  /\ Arrived({"LIMIT", "IOC"}) /\ Admissible /\ OwnHits = {}
  /\ live' = IF in.op = "IOC" THEN live
             ELSE (in.id :> [side |-> in.side, px |-> in.px, rem |-> in.rem]) @@ live
  /\ wire' = Tail(wire)
  /\ UNCHANGED <<outside, feed, pos, trades>>

(* A price out of bounds, or no room for a limit order's residual.         *)
Reject ==
  /\ Arrived({"LIMIT", "IOC"})
  /\ ~Admissible \/ (in.op = "LIMIT" /\ OwnHits = {})
  /\ wire' = Tail(wire) /\ feed' = Append(feed, Event("REJECTED", in.id, 0, 0))
  /\ UNCHANGED <<outside, live, pos, trades>>

(* Another client takes a resting quote.                                   *)
Taken ==
  /\ trades < MaxTrades
  /\ \E id \in DOMAIN live : \E q \in 1 .. live[id].rem :
       /\ Hit(id, q) /\ feed' = Append(feed, Event("FILL", 0, id, q))
       /\ pos' = pos + Signed(live[id].side, q)
  /\ trades' = trades + 1
  /\ UNCHANGED <<outside, wire>>

-----------------------------------------------------------------------------

Loop     == Requote \/ Breach \/ MassCancel \/ Send \/ SendFails \/ Note \/ EndCycle
Exchange == ExecuteCancel \/ TradeWithOwn \/ TradeWithOthers \/ Rest \/ Reject \/ Taken

Next == Connect \/ Loop \/ Drop \/ ResetSeen \/ Deliver \/ Lose \/ Snapshot \/ Exchange

(* The loop of main wakes up every 200 ms and a reset arrives.  That one   *)
(* of the attempts to connect succeeds is assumed of the gateway.          *)
Spec == Init /\ [][Next]_vars /\ WF_vars(Loop) /\ WF_vars(ResetSeen) /\ WF_vars(Connect)

-----------------------------------------------------------------------------

Resting(side) == {id \in DOMAIN live : live[id].side = side}

(* Cancel/replace: the book never collects stale quotes.  The bot has at   *)
(* most one bid and one ask resting at any instant.                        *)
AtMostOneQuote == \A side \in {"BUY", "SELL"} : Cardinality(Resting(side)) <= 1

(* What cancel/replace really bounds: while no connection has broken there *)
(* is at most one quote a side, and a broken one leaves at most one a side *)
(* behind for good, whatever part of the cycle was sent, swallowed by the  *)
(* dead socket or refused, and however often the old ids are cancelled     *)
(* again: they do not pile up from one requote to the next.                *)
QuotesBounded ==
  \A side \in {"BUY", "SELL"} : Cardinality(Resting(side)) <= 1 + drops

(* The breaker takes the bot out of the market: when the commands of its   *)
(* cycle have arrived no quote rests, although fills, rejections and lost  *)
(* events change the bot's book while it decides.                          *)
HaltedIsOut ==
  pc = "top" /\ cur.bid = 0 /\ cur.ask = 0 /\ wire = <<>> /\ drops = 0 => live = <<>>

(* The bot never trades with itself on one connection: neither a fresh     *)
(* quote at a mid that jumped nor an IOC order of the breaker meets a      *)
(* quote of its own.                                                       *)
NoSelfTrade ==
  drops = 0 /\ Arrived({"LIMIT", "IOC"}) => OwnHits = {}

IdsUsedUp == next_id + 1 >= MaxId

(* The bot primes an empty market from its seed price, and a connection    *)
(* that broke, in whatever cycle, is noticed and replaced, unless the      *)
(* breaker is open.  A gateway that accepts in the end is assumed.         *)
KeepsQuoting ==
  /\ <>(cur.ask # 0 \/ IdsUsedUp)
  /\ gw \in {"reset", "dead"} ~> gw = "up" \/ Halted \/ IdsUsedUp

(* The unwinding trades the position back toward flat: with nothing lost   *)
(* and nothing under way, a bot that sells because it is long is not short *)
(* already, and the other way round.                                       *)
UnwindsTowardFlat ==
  losses = 0 /\ drops = 0 /\ wire = <<>> /\ feed = <<>> =>
    ~(inventory > HALT_INV /\ pos < 0) /\ ~(inventory < -HALT_INV /\ pos > 0)
=============================================================================
