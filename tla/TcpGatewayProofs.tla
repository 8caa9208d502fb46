-------------------------- MODULE TcpGatewayProofs --------------------------
(***************************************************************************)
(* The epoll loop forgets nobody, and the orders pushed are the orders     *)
(* sent: for any number of connections, any size of a batch of events, of  *)
(* a chunk and of an order, and any behaviour of the clients.              *)
(***************************************************************************)
EXTENDS TcpGateway, TLAPS

Socket == [st : {"closed", "queued", "open"}, sent : Nat, read : Nat,
           peer : {"talks", "finished", "reset"}]

Types ==
  /\ sock \in [Fds -> Socket] /\ queue \in Seq(Fds)
  /\ edges \subseteq Fds \cup {LISTEN}
  /\ events \subseteq Fds \cup {LISTEN, STOP} /\ hup \subseteq events \cap Fds
  /\ pc \in {"wait", "dispatch", "accept", "recv", "stopped"}
  /\ pc = "recv" => cur \in Fds

(* The connections waiting to be accepted are different, and unread.       *)
Waiting ==
  /\ \A i \in 1 .. Len(queue) : sock[queue[i]].st = "queued"
  /\ \A i, j \in 1 .. Len(queue) : queue[i] = queue[j] => i = j
  /\ \A c \in Fds : sock[c].read <= sock[c].sent /\ (sock[c].st # "open" => sock[c].read = 0)

(* What epoll reports and what handle_conn works on are known connections. *)
Known ==
  /\ DOMAIN conns = Open
  /\ \A c \in Fds : c \in edges \cup events => sock[c].st = "open"
  /\ pc = "recv" => sock[cur].st = "open" /\ cur \notin events
  /\ \A c \in hup : sock[c].peer = "reset"

Readable(c) == sock[c].st = "open" /\ (Unread(c) > 0 \/ sock[c].peer # "talks")

(* Whoever has something to read is on the way to being read.              *)
Watched ==
  /\ pc = "wait" => events = {}
  /\ \A c \in Fds : Readable(c) => c \in edges \/ c \in events \/ (pc = "recv" /\ cur = c)
  /\ ~gave_up /\ queue # <<>> => LISTEN \in edges \/ LISTEN \in events \/ pc = "accept"

Inv == Types /\ Waiting /\ Known /\ Watched

LEMMA InitInv == Init => Inv
<1> SUFFICES ASSUME Init PROVE Inv
  OBVIOUS
<1>1. Types
  BY DEF Init, Types, Socket, Closed
<1>2. Waiting /\ Watched
  BY DEF Init, Waiting, Watched, Readable, Closed
<1>3. Known
  BY DEF Init, Known, Closed, Open
<1> QED BY <1>1, <1>2, <1>3 DEF Inv

LEMMA InvNoEdgeLost == Inv => NoEdgeLost
BY DEF Inv, Types, Watched, NoEdgeLost, Readable, Open

-----------------------------------------------------------------------------
(* The clients.                                                            *)

LEMMA ConnectStep ==
  ASSUME Inv, NEW c \in Fds, Connect(c)
  PROVE  Inv'
<1> USE DEF Inv, Connect
<1>1. /\ sock' \in [Fds -> Socket] /\ queue' \in Seq(Fds)
      /\ sock'[c] = [st |-> "queued", sent |-> 0, read |-> 0, peer |-> "talks"]
      /\ \A d \in Fds \ {c} : sock'[d] = sock[d]
      /\ sock[c].st = "closed"
  BY DEF Types, Socket, Closed
<1>2. Types'
  BY <1>1 DEF Types
<1>3. /\ Len(queue') = Len(queue) + 1 /\ Len(queue) \in Nat /\ queue'[Len(queue) + 1] = c
      /\ \A i \in 1 .. Len(queue) : queue'[i] = queue[i] /\ queue[i] \in Fds /\ queue[i] # c
  BY <1>1 DEF Types, Waiting
<1>4. Waiting'
  BY <1>1, <1>3 DEF Waiting, Types
<1>5. Known'
  <2>1. Open' = Open
    BY <1>1 DEF Open
  <2> QED BY <1>1, <2>1, FdsAssumption DEF Known, Types
<1>6. Watched'
  BY <1>1, FdsAssumption DEF Watched, Readable, Unread, Types
<1> QED BY <1>2, <1>4, <1>5, <1>6

LEMMA ClientStep ==
  ASSUME Inv, NEW c \in Fds, SendByte(c) \/ Finish(c) \/ Reset(c)
  PROVE  Inv'
<1> USE DEF Inv
<1>1. UNCHANGED <<queue, stopping, thread>>
  BY DEF SendByte, Finish, Reset, Leave, client
<1>2. /\ sock' \in [Fds -> Socket] /\ \A d \in Fds \ {c} : sock'[d] = sock[d]
      /\ sock'[c].st = sock[c].st /\ sock'[c].read = sock[c].read /\ sock[c].sent <= sock'[c].sent
      /\ sock[c].peer = "talks"
  <2>1. /\ sock \in [Fds -> Socket] /\ sock[c].peer = "talks" /\ sock[c] \in Socket
        /\ sock[c].sent \in Nat
    BY DEF SendByte, Finish, Reset, Leave, Talking, Types, Socket
  <2>2. CASE SendByte(c)
    <3>1. sock' = [sock EXCEPT ![c].sent = @ + 1]
      BY <2>2 DEF SendByte
    <3>2. [sock[c] EXCEPT !.sent = @ + 1] \in Socket
      BY <2>1 DEF Socket
    <3> QED BY <2>1, <3>1, <3>2 DEF Socket
  <2>3. ASSUME NEW how \in {"finished", "reset"}, Leave(c, how)
        PROVE  /\ sock' \in [Fds -> Socket] /\ \A d \in Fds \ {c} : sock'[d] = sock[d]
               /\ sock'[c].st = sock[c].st /\ sock'[c].read = sock[c].read
               /\ sock[c].sent <= sock'[c].sent
    <3>1. sock' = [sock EXCEPT ![c].peer = how]
      BY <2>3 DEF Leave
    <3>2. [sock[c] EXCEPT !.peer = how] \in Socket
      BY <2>1 DEF Socket
    <3> QED BY <2>1, <3>1, <3>2 DEF Socket
  <2> QED BY <2>1, <2>2, <2>3 DEF Finish, Reset
<1>3. edges' = IF sock[c].st = "open" THEN edges \cup {c} ELSE edges
  BY DEF SendByte, Finish, Reset, Leave, Raise
<1>4. Types'
  BY <1>1, <1>2, <1>3 DEF Types, thread
<1>5. Waiting'
  <2>1. \A d \in Fds : sock'[d].st = sock[d].st /\ sock'[d].read = sock[d].read
                       /\ sock[d].sent <= sock'[d].sent /\ sock'[d].sent \in Nat
                       /\ sock[d].sent \in Nat /\ sock[d].read \in Nat
    <3> TAKE d \in Fds
    <3>1. sock[d] \in Socket /\ sock'[d] \in Socket
      BY <1>2 DEF Types
    <3>2. sock[d].sent \in Nat /\ sock'[d].sent \in Nat /\ sock[d].read \in Nat
      BY <3>1 DEF Socket
    <3>3. CASE d = c
      BY <1>2, <3>2, <3>3
    <3>4. CASE d # c
      BY <1>2, <3>2, <3>4
    <3> QED BY <3>3, <3>4
  <2> QED BY <1>1, <2>1 DEF Waiting, Types
<1>6. Known'
  <2>1. Open' = Open
    BY <1>2 DEF Open
  <2>2. \A d \in hup : d # c
    BY <1>2 DEF Known
  <2> QED BY <1>1, <1>2, <1>3, <2>1, <2>2 DEF Known, Types, thread
<1>7. Watched'
  BY <1>1, <1>2, <1>3 DEF Watched, Readable, Unread, Types, thread
<1> QED BY <1>4, <1>5, <1>6, <1>7

-----------------------------------------------------------------------------
(* The loop of run.                                                        *)

(* Steps of the thread that touch neither sockets nor the table.           *)
LEMMA LoopStep ==
  ASSUME Inv, \/ Stop \/ BatchHandled \/ HandleStop \/ HandleListen \/ AcceptReturns
              \/ AcceptGivesUp \/ RecvDrained
  PROVE  Inv'
<1> USE DEF Inv
<1>1. UNCHANGED <<sock, queue, edges, conns>>
  BY DEF Stop, BatchHandled, HandleStop, HandleListen, AcceptReturns, AcceptGivesUp, RecvDrained,
         client, thread
<1>2. Waiting' /\ Open' = Open
  BY <1>1 DEF Waiting, Open
<1>3. CASE Stop
  BY <1>1, <1>2, <1>3 DEF Stop, thread, Types, Known, Watched, Readable, Unread
<1>4. CASE BatchHandled
  BY <1>1, <1>2, <1>4 DEF BatchHandled, Types, Known, Watched, Readable, Unread
<1>5. CASE HandleStop
  BY <1>1, <1>2, <1>5 DEF HandleStop, Types, Known, Watched, Readable, Unread
<1>6. CASE HandleListen
  BY <1>1, <1>2, <1>6, FdsAssumption DEF HandleListen, Types, Known, Watched, Readable, Unread
<1>7. CASE AcceptReturns
  BY <1>1, <1>2, <1>7 DEF AcceptReturns, AcceptDrained, Types, Known, Watched, Readable, Unread
<1>8. CASE AcceptGivesUp
  BY <1>1, <1>2, <1>8 DEF AcceptGivesUp, Types, Known, Watched, Readable, Unread
<1>9. CASE RecvDrained
  <2>1. ~Readable(cur)
    BY <1>9 DEF RecvDrained, Drained, Readable
  <2> QED BY <1>1, <1>2, <1>9, <2>1 DEF RecvDrained, Types, Known, Watched, Readable, Unread
<1> QED BY <1>3, <1>4, <1>5, <1>6, <1>7, <1>8, <1>9

LEMMA EpollWaitStep ==
  ASSUME Inv, EpollWait
  PROVE  Inv'
<1> USE DEF Inv
<1>1. /\ UNCHANGED <<sock, queue, conns, gave_up, stopping>> /\ pc = "wait" /\ pc' = "dispatch"
      /\ events = {} /\ edges' = edges \ events' /\ events' \subseteq edges \cup {STOP}
      /\ hup' = {c \in events' \cap Fds : sock[c].peer = "reset"}
  BY DEF EpollWait, client, Ready, Watched
<1>2. Waiting' /\ Open' = Open
  BY <1>1 DEF Waiting, Open
<1>3. Types'
  BY <1>1 DEF Types
<1>4. Known'
  BY <1>1, <1>2, FdsAssumption DEF Known, Types
<1>5. Watched'
  BY <1>1 DEF Watched, Readable, Unread
<1> QED BY <1>2, <1>3, <1>4, <1>5

-----------------------------------------------------------------------------
(* accept_loop                                                             *)

(* Taking the first of the queue leaves different ones.                    *)
LEMMA Dequeue ==
  ASSUME Inv, queue # <<>>, queue' = Tail(queue)
  PROVE  /\ Head(queue) \in Fds /\ sock[Head(queue)].st = "queued" /\ queue' \in Seq(Fds)
         /\ \A i \in 1 .. Len(queue') : /\ queue'[i] \in Fds /\ queue'[i] # Head(queue)
                                        /\ sock[queue'[i]].st = "queued"
         /\ \A i, j \in 1 .. Len(queue') : queue'[i] = queue'[j] => i = j
<1> USE DEF Inv, Types
<1>1. Len(queue) \in Nat /\ Len(queue) >= 1 /\ Head(queue) = queue[1] /\ queue[1] \in Fds
  OBVIOUS
<1>2. /\ queue' \in Seq(Fds) /\ Len(queue') = Len(queue) - 1
      /\ \A i \in 1 .. Len(queue') : queue'[i] = queue[i + 1] /\ i + 1 \in 1 .. Len(queue)
  BY <1>1
<1> QED BY <1>1, <1>2 DEF Waiting

LEMMA AcceptStep ==
  ASSUME Inv, Accept
  PROVE  Inv'
<1> USE DEF Inv
<1> DEFINE c == Head(queue)
<1>1. /\ c \in Fds /\ sock[c].st = "queued" /\ queue' \in Seq(Fds)
      /\ \A i \in 1 .. Len(queue') : /\ queue'[i] \in Fds /\ queue'[i] # c
                                     /\ sock[queue'[i]].st = "queued"
      /\ \A i, j \in 1 .. Len(queue') : queue'[i] = queue'[j] => i = j
  BY Dequeue DEF Accept
<1>2. /\ sock' = [sock EXCEPT ![c].st = "open"] /\ pc = "accept"
      /\ edges' = IF sock[c].sent > 0 \/ sock[c].peer # "talks" THEN edges \cup {c} ELSE edges
      /\ DOMAIN conns' = DOMAIN conns \cup {c}
      /\ UNCHANGED <<pc, events, hup, cur, gave_up>>
  BY DEF Accept
<1> HIDE DEF c
<1>3. sock[c] \in Socket /\ sock[c].read = 0
  BY <1>1 DEF Types, Waiting
<1>4. /\ sock' \in [Fds -> Socket] /\ \A d \in Fds \ {c} : sock'[d] = sock[d]
      /\ sock'[c].st = "open" /\ sock'[c].read = 0 /\ sock'[c].sent = sock[c].sent
      /\ sock'[c].peer = sock[c].peer
  <2>1. [sock[c] EXCEPT !.st = "open"] \in Socket
    BY <1>3 DEF Socket
  <2> QED BY <1>1, <1>2, <1>3, <2>1 DEF Types, Socket
<1>5. Types'
  BY <1>1, <1>2, <1>4 DEF Types
<1>6. Waiting'
  <2>1. \A d \in Fds : sock'[d].read <= sock'[d].sent /\ (sock'[d].st # "open" => sock'[d].read = 0)
    BY <1>1, <1>3, <1>4 DEF Waiting
  <2>2. \A i \in 1 .. Len(queue') : sock'[queue'[i]].st = "queued"
    BY <1>1, <1>4
  <2> QED BY <1>1, <2>1, <2>2 DEF Waiting
<1>7. Known'
  <2>1. Open' = Open \cup {c}
    BY <1>1, <1>4 DEF Open
  <2>2. \A d \in hup : sock'[d].peer = sock[d].peer
    BY <1>1, <1>4 DEF Types
  <2>3. \A d \in Fds : d \in edges' \cup events => sock'[d].st = "open"
    BY <1>1, <1>2, <1>4 DEF Known
  <2> QED BY <1>2, <2>1, <2>2, <2>3 DEF Known
<1>8. Watched'
  <2>1. ASSUME NEW d \in Fds, Readable(d)' PROVE d \in edges' \/ d \in events
    <3>1. CASE d = c
      BY <1>1, <1>2, <1>3, <1>4, <2>1, <3>1 DEF Readable, Unread, Socket
    <3>2. CASE d # c
      BY <1>2, <1>4, <2>1, <3>2 DEF Readable, Unread, Watched
    <3> QED BY <3>1, <3>2
  <2> QED BY <1>2, <2>1 DEF Watched
<1> QED BY <1>5, <1>6, <1>7, <1>8

LEMMA AcceptArmFailsStep ==
  ASSUME Inv, AcceptArmFails
  PROVE  Inv'
<1> USE DEF Inv
<1> DEFINE c == Head(queue)
<1>1. /\ c \in Fds /\ sock[c].st = "queued" /\ queue' \in Seq(Fds)
      /\ \A i \in 1 .. Len(queue') : /\ queue'[i] \in Fds /\ queue'[i] # c
                                     /\ sock[queue'[i]].st = "queued"
      /\ \A i, j \in 1 .. Len(queue') : queue'[i] = queue'[j] => i = j
  BY Dequeue DEF AcceptArmFails
<1>2. /\ sock' = [sock EXCEPT ![c] = Closed] /\ pc = "accept" /\ UNCHANGED gave_up
      /\ UNCHANGED <<edges, conns, pc, events, hup, cur>>
  BY DEF AcceptArmFails
<1> HIDE DEF c
<1>3. /\ sock' \in [Fds -> Socket] /\ \A d \in Fds \ {c} : sock'[d] = sock[d]
      /\ sock'[c].st = "closed" /\ sock'[c].read = 0 /\ sock'[c].sent = 0
  BY <1>1, <1>2 DEF Types, Socket, Closed
<1>4. Types'
  BY <1>1, <1>2, <1>3 DEF Types
<1>5. Waiting'
  BY <1>1, <1>3 DEF Waiting
<1>6. Known'
  <2>1. Open' = Open
    BY <1>1, <1>3 DEF Open
  <2>2. \A d \in hup : d # c
    BY <1>1 DEF Known, Types
  <2> QED BY <1>1, <1>2, <1>3, <2>1, <2>2 DEF Known, Types
<1>7. Watched'
  BY <1>1, <1>2, <1>3 DEF Watched, Readable, Unread
<1> QED BY <1>4, <1>5, <1>6, <1>7

-----------------------------------------------------------------------------
(* handle_conn                                                             *)

(* close_conn on a connection that is no longer in the batch.              *)
LEMMA CloseStep ==
  ASSUME Inv, NEW c \in Fds, sock[c].st = "open", close_conn(c), UNCHANGED <<queue, gave_up>>,
         events' = events \ {c}, hup' = hup \ {c}, pc' = "dispatch",
         pc \in {"dispatch", "recv"}, pc = "recv" => cur = c
  PROVE  Inv'
<1> USE DEF Inv
<1>1. /\ sock' \in [Fds -> Socket] /\ \A d \in Fds \ {c} : sock'[d] = sock[d]
      /\ sock'[c].st = "closed" /\ sock'[c].read = 0 /\ sock'[c].sent = 0
      /\ edges' = edges \ {c} /\ DOMAIN conns' = DOMAIN conns \ {c}
  BY DEF close_conn, EraseEntry, Types, Socket, Closed
<1>2. Types'
  BY <1>1 DEF Types
<1>3. Waiting'
  <2>1. \A i \in 1 .. Len(queue) : queue[i] \in Fds /\ queue[i] # c
    BY DEF Waiting, Types
  <2> QED BY <1>1, <2>1 DEF Waiting
<1>4. Known'
  <2>1. Open' = Open \ {c}
    BY <1>1 DEF Open
  <2> QED BY <1>1, <2>1 DEF Known, Types
<1>5. Watched'
  <2>1. ASSUME NEW d \in Fds, Readable(d)' PROVE d \in edges' \/ d \in events'
    <3>1. d # c /\ Readable(d)
      BY <1>1, <2>1 DEF Readable, Unread
    <3> QED BY <1>1, <3>1 DEF Watched
  <2>2. LISTEN # c
    BY FdsAssumption
  <2> QED BY <1>1, <2>1, <2>2 DEF Watched
<1> QED BY <1>2, <1>3, <1>4, <1>5

LEMMA HandleConnStep ==
  ASSUME Inv, NEW c \in Fds, HandleConn(c)
  PROVE  Inv'
<1> USE DEF Inv
<1>1. /\ pc = "dispatch" /\ c \in events /\ events' = events \ {c} /\ hup' = hup \ {c}
      /\ UNCHANGED <<queue, gave_up>> /\ sock[c].st = "open" /\ c \in DOMAIN conns
  BY DEF HandleConn, client, Known, Open
<1>2. CASE c \in hup
  <2>1. close_conn(c) /\ pc' = "dispatch"
    BY <1>1, <1>2 DEF HandleConn
  <2> QED BY <1>1, <2>1, CloseStep
<1>3. CASE c \notin hup
  <2>1. UNCHANGED <<sock, edges, conns>> /\ pc' = "recv" /\ cur' = c
    BY <1>1, <1>3 DEF HandleConn
  <2>2. Types' /\ Waiting'
    BY <1>1, <2>1 DEF Types, Waiting
  <2>3. Known'
    BY <1>1, <2>1 DEF Known, Open, Types
  <2>4. Watched'
    BY <1>1, <2>1, FdsAssumption DEF Watched, Readable, Unread
  <2> QED BY <2>2, <2>3, <2>4
<1> QED BY <1>2, <1>3

LEMMA RecvChunkStep ==
  ASSUME Inv, RecvChunk
  PROVE  Inv'
<1> USE DEF Inv
<1>1. PICK n \in 1 .. Unread(cur) :
        /\ sock' = [sock EXCEPT ![cur].read = @ + n]
        /\ \E k : conns' = [conns EXCEPT ![cur] = k]
  BY Zenon DEF RecvChunk
<1>2. /\ pc = "recv" /\ cur \in Fds /\ sock[cur].st = "open" /\ sock[cur] \in Socket
      /\ sock[cur].read \in Nat /\ sock[cur].sent \in Nat
      /\ UNCHANGED <<queue, edges, pc, events, hup, cur, gave_up>>
  BY DEF RecvChunk, Types, Known, Socket, client
<1>3. n \in Nat /\ sock[cur].read + n <= sock[cur].sent
  BY <1>1, <1>2 DEF Unread
<1>4. /\ sock' \in [Fds -> Socket] /\ \A d \in Fds \ {cur} : sock'[d] = sock[d]
      /\ sock'[cur].st = "open" /\ sock'[cur].read = sock[cur].read + n
      /\ sock'[cur].sent = sock[cur].sent /\ sock'[cur].peer = sock[cur].peer
  <2>1. [sock[cur] EXCEPT !.read = @ + n] \in Socket
    BY <1>2, <1>3 DEF Socket
  <2> QED BY <1>1, <1>2, <2>1 DEF Types, Socket
<1>5. Types'
  BY <1>2, <1>4 DEF Types
<1>6. Waiting'
  <2>1. \A i \in 1 .. Len(queue) : queue[i] \in Fds /\ queue[i] # cur
    BY <1>2 DEF Waiting, Types
  <2>2. \A d \in Fds : sock'[d].read <= sock'[d].sent /\ (sock'[d].st # "open" => sock'[d].read = 0)
    BY <1>3, <1>4 DEF Waiting
  <2> QED BY <1>2, <1>4, <2>1, <2>2 DEF Waiting
<1>7. Known'
  <2>1. Open' = Open
    BY <1>2, <1>4 DEF Open
  <2>2. DOMAIN conns' = DOMAIN conns
    BY <1>1
  <2> QED BY <1>2, <1>4, <2>1, <2>2 DEF Known, Types
<1>8. Watched'
  BY <1>2, <1>4 DEF Watched, Readable, Unread
<1> QED BY <1>5, <1>6, <1>7, <1>8

LEMMA RecvClosesStep ==
  ASSUME Inv, RecvCloses
  PROVE  Inv'
<1>1. /\ cur \in Fds /\ sock[cur].st = "open" /\ close_conn(cur) /\ UNCHANGED <<queue, gave_up>>
      /\ events' = events \ {cur} /\ hup' = hup \ {cur} /\ pc = "recv" /\ pc' = "dispatch"
  BY DEF RecvCloses, Inv, Types, Known, client
<1> QED BY <1>1, CloseStep

LEMMA InvStep == Inv /\ [Next]_vars => Inv'
<1> SUFFICES ASSUME Inv, [Next]_vars PROVE Inv'
  OBVIOUS
<1>1. CASE UNCHANGED vars
  BY <1>1 DEF vars, Inv, Types, Waiting, Known, Watched, Open, Readable, Unread
<1>2. CASE Client
  BY <1>2, ConnectStep, ClientStep, LoopStep DEF Client
<1>3. CASE Gateway
  BY <1>3, EpollWaitStep, LoopStep, AcceptStep, AcceptArmFailsStep, RecvChunkStep,
     RecvClosesStep, HandleConnStep DEF Gateway
<1> QED BY <1>1, <1>2, <1>3 DEF Next

(* Whoever has something to read is reported, under way or being read.     *)
THEOREM InvHolds == Spec => []Inv
BY InitInv, InvStep, PTL DEF Spec

(* While the thread sleeps in epoll_wait no edge-triggered event has been  *)
(* swallowed, unless accept_loop gave up: handle_conn leaves recv only at  *)
(* EAGAIN, and so does accept_loop accept4, though epoll_ctl may fail.     *)
THEOREM NoEdgeLostHolds == Spec => []NoEdgeLost
BY InvHolds, InvNoEdgeLost, PTL

(* close_conn on a connection that was not reset comes after the last byte *)
(* was read, whatever else was in the batch of events.                     *)
THEOREM GracefulCloseReadsAllHolds == Spec => GracefulCloseReadsAll
<1>1. ASSUME Inv, Next, NEW c \in Fds, sock[c].st = "open", sock'[c].st = "closed",
             sock[c].peer # "reset"
      PROVE  Unread(c) = 0
  <2>1. ASSUME NEW d \in Fds, Connect(d) \/ SendByte(d) \/ Finish(d) \/ Reset(d) PROVE FALSE
    <3>1. CASE Connect(d)
      BY <1>1, <3>1 DEF Connect, Closed, Inv, Types, Socket
    <3>2. CASE SendByte(d)
      BY <1>1, <3>2 DEF SendByte, Inv, Types, Socket
    <3>3. ASSUME NEW how, Leave(d, how) PROVE FALSE
      BY <1>1, <3>3 DEF Leave, Inv, Types, Socket
    <3> QED BY <2>1, <3>1, <3>2, <3>3 DEF Finish, Reset
  <2>2. CASE Accept \/ RecvChunk
    <3>1. CASE Accept
      <4>1. sock' = [sock EXCEPT ![Head(queue)].st = "open"]
        BY <3>1 DEF Accept
      <4> QED BY <1>1, <4>1 DEF Inv, Types, Socket
    <3>2. CASE RecvChunk
      <4>1. PICK n : sock' = [sock EXCEPT ![cur].read = @ + n]
        BY <3>2, Zenon DEF RecvChunk
      <4> QED BY <1>1, <4>1 DEF Inv, Types, Socket
    <3> QED BY <2>2, <3>1, <3>2
  <2>3. CASE AcceptArmFails
    <3>1. sock[Head(queue)].st = "queued"
      BY <1>1, <2>3, Dequeue DEF AcceptArmFails
    <3> QED BY <1>1, <2>3, <3>1 DEF AcceptArmFails, Inv, Types
  <2>4. ASSUME NEW d \in Fds, HandleConn(d) PROVE FALSE
    <3>1. CASE d \in hup
      BY <1>1, <2>4, <3>1 DEF HandleConn, close_conn, Inv, Types, Known
    <3>2. CASE d \notin hup
      BY <1>1, <2>4, <3>2 DEF HandleConn
    <3> QED BY <3>1, <3>2
  <2>5. CASE RecvCloses
    BY <1>1, <2>5 DEF RecvCloses, AtEnd, close_conn, Inv, Types
  <2>6. CASE \/ Stop \/ EpollWait \/ BatchHandled \/ HandleStop \/ HandleListen
             \/ AcceptReturns \/ AcceptGivesUp \/ RecvDrained
    BY <1>1, <2>6 DEF Stop, EpollWait, BatchHandled, HandleStop, HandleListen, AcceptReturns,
                      AcceptGivesUp, RecvDrained
  <2> QED BY <1>1, <2>1, <2>2, <2>3, <2>4, <2>5, <2>6 DEF Next, Client, Gateway
<1>2. Inv /\ [Next]_vars =>
        [\A c \in Fds : sock[c].st = "open" /\ sock'[c].st = "closed" /\ sock[c].peer # "reset" =>
           Unread(c) = 0]_vars
  BY <1>1
<1> QED BY <1>2, InvHolds, PTL DEF Spec, GracefulCloseReadsAll

-----------------------------------------------------------------------------
(* parse_chunk                                                             *)

(* The k-th order of a session.                                            *)
OrderAt(k) == [i \in 1 .. OrderBytes |-> (k - 1) * OrderBytes + i]

(* The bytes of s are those behind the first b of the session.             *)
Follow(s, b) == s \in Seq(Nat) /\ \A i \in 1 .. Len(s) : s[i] = b + i

(* conn carries the f bytes behind the first b of the session.             *)
Carries(conn, b, f) ==
  /\ conn \in [pending : [1 .. OrderBytes -> Nat], filled : 0 .. OrderBytes - 1]
  /\ conn.filled = f /\ \A i \in 1 .. f : conn.pending[i] = b + i

(* n bytes are q orders and f bytes.                                       *)
Splits(n, q, f) == q \in Nat /\ f \in 0 .. OrderBytes - 1 /\ n = q * OrderBytes + f

LEMMA Splitting ==
  ASSUME NEW n \in Nat
  PROVE  Splits(n, n \div OrderBytes, n % OrderBytes)
<1>1. OrderBytes \in Nat \ {0}
  BY SizesAssumption
<1>2. /\ n \div OrderBytes \in Nat /\ n % OrderBytes \in Nat /\ n % OrderBytes < OrderBytes
      /\ n = OrderBytes * (n \div OrderBytes) + (n % OrderBytes)
  BY <1>1
<1> DEFINE q == n \div OrderBytes
           f == n % OrderBytes
<1> HIDE DEF q, f
<1>3. q \in Nat /\ f \in Nat /\ f < OrderBytes /\ n = OrderBytes * q + f
  BY <1>2 DEF q, f
<1>4. f \in 0 .. OrderBytes - 1 /\ n = q * OrderBytes + f
  BY ONLY <1>1, <1>3
<1> QED BY <1>3, <1>4 DEF Splits, q, f

LEMMA SplitsUnique ==
  ASSUME NEW n \in Nat, NEW q, NEW f, Splits(n, q, f)
  PROVE  n \div OrderBytes = q
<1> DEFINE a == n \div OrderBytes
           b == n % OrderBytes
<1>1. Splits(n, a, b)
  BY Splitting
<1> HIDE DEF a, b
<1>2. /\ q \in Nat /\ a \in Nat /\ f \in Nat /\ b \in Nat /\ f < OrderBytes /\ b < OrderBytes
      /\ OrderBytes \in Nat /\ a * OrderBytes + b = q * OrderBytes + f
  BY <1>1, SizesAssumption DEF Splits
<1>3. (q - a) * OrderBytes = b - f
  BY ONLY <1>2
<1>4. q - a >= 1 => (q - a) * OrderBytes >= OrderBytes
  BY ONLY <1>2
<1>5. q - a <= -1 => (q - a) * OrderBytes <= -OrderBytes
  BY ONLY <1>2
<1>6. q = a
  BY ONLY <1>2, <1>3, <1>4, <1>5
<1> QED BY <1>6 DEF a

(* Whole orders in the middle of a chunk, and what is left behind them.    *)
LEMMA CutOrders ==
  ASSUME NEW q \in Nat, NEW rest, Follow(rest, q * OrderBytes), NEW w, NEW f, Splits(Len(rest), w, f)
  PROVE  /\ \A k \in 1 .. w : SubSeq(rest, (k - 1) * OrderBytes + 1, k * OrderBytes) = OrderAt(q + k)
         /\ LET tail == SubSeq(rest, w * OrderBytes + 1, Len(rest))
            IN  Follow(tail, (q + w) * OrderBytes) /\ Len(tail) = f
<1> DEFINE B == OrderBytes
<1>0. B \in Nat \ {0} /\ w \in Nat /\ f \in Nat /\ f < B /\ Len(rest) = w * B + f /\ rest \in Seq(Nat)
  BY SizesAssumption DEF Splits, Follow
<1>1. \A i \in 1 .. Len(rest) : rest[i] = q * B + i
  BY DEF Follow
<1> HIDE DEF B
<1>2. q * B \in Nat /\ w * B \in Nat /\ (q + w) * B = q * B + w * B
  BY ONLY <1>0, q \in Nat
<1>3. ASSUME NEW k \in 1 .. w
      PROVE  SubSeq(rest, (k - 1) * B + 1, k * B) = [i \in 1 .. B |-> ((q + k) - 1) * B + i]
  <2> DEFINE a == (k - 1) * B
             b == q * B
             e == w * B
             s == SubSeq(rest, a + 1, a + B)
  <2>1. /\ a \in Nat /\ k * B = a + B /\ ((q + k) - 1) * B = b + a
    BY ONLY <1>0, <1>3, q \in Nat
  <2>2. a + B <= e
    <3>1. w - k \in Nat
      BY ONLY <1>0, <1>3
    <3>2. e = k * B + (w - k) * B /\ (w - k) * B \in Nat
      BY ONLY <1>0, <1>3, <3>1
    <3> HIDE DEF e, a
    <3> QED BY ONLY <1>0, <2>1, <3>2
  <2> HIDE DEF a, b, e
  <2>3. b \in Nat /\ e \in Nat /\ Len(rest) = e + f /\ \A i \in 1 .. Len(rest) : rest[i] = b + i
    BY <1>0, <1>1, <1>2 DEF b, e
  <2>4. a + 1 \in 1 .. Len(rest) + 1 /\ a + B \in a .. Len(rest) /\ \A i \in 1 .. B : a + i \in 1 .. Len(rest)
    BY ONLY <1>0, <2>1, <2>2, <2>3
  <2>5. s \in Seq(Nat) /\ Len(s) = B /\ \A i \in 1 .. B : s[i] = rest[a + i]
    BY ONLY <1>0, <2>1, <2>2, <2>3, <2>4
  <2>6. s = [i \in 1 .. B |-> b + a + i]
    <3> HIDE DEF s
    <3>1. s = [i \in 1 .. B |-> s[i]]
      BY ONLY <1>0, <2>5
    <3> QED BY ONLY <2>1, <2>3, <2>4, <2>5, <3>1
  <2>7. (k - 1) * B + 1 = a + 1 /\ k * B = a + B /\ \A i \in 1 .. B : ((q + k) - 1) * B + i = b + a + i
    BY ONLY <2>1 DEF a
  <2>8. SubSeq(rest, (k - 1) * B + 1, k * B) = s
    BY ONLY <2>7, Zenon DEF s
  <2> HIDE DEF s
  <2> QED BY ONLY <2>6, <2>7, <2>8
<1>4. \A k \in 1 .. w : SubSeq(rest, (k - 1) * OrderBytes + 1, k * OrderBytes) = OrderAt(q + k)
  BY <1>3 DEF OrderAt, B
<1>5. LET tail == SubSeq(rest, w * B + 1, Len(rest))
      IN  Follow(tail, (q + w) * B) /\ Len(tail) = f
  <2> DEFINE b == q * B
             e == w * B
             s == SubSeq(rest, e + 1, Len(rest))
  <2>1. (q + w) * B = b + e /\ b \in Nat /\ e \in Nat
    BY <1>2
  <2>2. Len(rest) = e + f /\ \A i \in 1 .. Len(rest) : rest[i] = b + i
    BY <1>0, <1>1
  <2> HIDE DEF b, e
  <2>3. s \in Seq(Nat) /\ Len(s) = f /\ \A i \in 1 .. f : s[i] = rest[e + i] /\ e + i \in 1 .. Len(rest)
    BY ONLY <1>0, <2>1, <2>2
  <2> HIDE DEF s
  <2>4. \A i \in 1 .. Len(s) : s[i] = (b + e) + i
    BY ONLY <1>0, <2>1, <2>2, <2>3
  <2> QED BY <2>1, <2>3, <2>4, Zenon DEF Follow, s, e
<1> QED BY <1>4, <1>5, Zenon DEF B

(* What conn carries after the bytes t were copied to the start of it.     *)
LEMMA CopyStart ==
  ASSUME NEW o \in [1 .. OrderBytes -> Nat], NEW t, NEW b, Follow(t, b), Len(t) \in 0 .. OrderBytes - 1
  PROVE  Carries([pending |-> CopyBehind(o, 0, t), filled |-> Len(t)], b, Len(t))
<1>1. OrderBytes \in Nat \ {0} /\ t \in Seq(Nat) /\ \A i \in 1 .. Len(t) : t[i] = b + i
  BY SizesAssumption DEF Follow
<1>2. DOMAIN t = 1 .. Len(t) /\ \A i \in 1 .. Len(t) : t[i] \in Nat
  BY <1>1
<1> DEFINE c == CopyBehind(o, 0, t)
<1>3. c = [i \in 1 .. OrderBytes |-> IF i - 0 \in DOMAIN t THEN t[i - 0] ELSE o[i]]
  BY DEF CopyBehind
<1>4. c = [i \in 1 .. OrderBytes |-> IF i \in 1 .. Len(t) THEN t[i] ELSE o[i]]
  BY ONLY <1>1, <1>2, <1>3
<1> HIDE DEF c
<1>5. c \in [1 .. OrderBytes -> Nat] /\ \A i \in 1 .. Len(t) : i \in 1 .. OrderBytes /\ c[i] = t[i]
  BY ONLY <1>1, <1>2, <1>4, o \in [1 .. OrderBytes -> Nat], Len(t) \in 0 .. OrderBytes - 1
<1> QED BY <1>1, <1>5 DEF Carries, c

(* The rest of a chunk: orders out of it, and a start of the next one.     *)
Unpack(rest, o) ==
  LET whole == Len(rest) \div OrderBytes
      tail  == SubSeq(rest, whole * OrderBytes + 1, Len(rest))
  IN  [out  |-> [k \in 1 .. whole |-> SubSeq(rest, (k - 1) * OrderBytes + 1, k * OrderBytes)],
       conn |-> [pending |-> CopyBehind(o, 0, tail), filled |-> Len(tail)]]

(* The orders behind the first q of a session.                             *)
OrdersBehind(q, w) == [k \in 1 .. w |-> OrderAt(q + k)]

LEMMA UnpackOrders ==
  ASSUME NEW q \in Nat, NEW rest, Follow(rest, q * OrderBytes), NEW o \in [1 .. OrderBytes -> Nat]
  PROVE  \E w, f : /\ Splits(Len(rest), w, f) /\ Unpack(rest, o).out = OrdersBehind(q, w)
                   /\ Carries(Unpack(rest, o).conn, (q + w) * OrderBytes, f)
<1> DEFINE w == Len(rest) \div OrderBytes
           f == Len(rest) % OrderBytes
           tail == SubSeq(rest, w * OrderBytes + 1, Len(rest))
<1>1. Len(rest) \in Nat
  BY DEF Follow
<1>2. Splits(Len(rest), w, f)
  BY <1>1, Splitting
<1>3. /\ Unpack(rest, o).out = [k \in 1 .. w |-> SubSeq(rest, (k - 1) * OrderBytes + 1, k * OrderBytes)]
      /\ Unpack(rest, o).conn = [pending |-> CopyBehind(o, 0, tail), filled |-> Len(tail)]
  BY Zenon DEF Unpack
<1> HIDE DEF w, f
<1>4. /\ \A k \in 1 .. w : SubSeq(rest, (k - 1) * OrderBytes + 1, k * OrderBytes) = OrderAt(q + k)
      /\ Follow(tail, (q + w) * OrderBytes) /\ Len(tail) = f
  BY <1>2, CutOrders, Zenon
<1>5. Unpack(rest, o).out = OrdersBehind(q, w)
  BY ONLY <1>3, <1>4 DEF OrdersBehind
<1> HIDE DEF tail
<1>6. Carries(Unpack(rest, o).conn, (q + w) * OrderBytes, f)
  <2>1. Len(tail) \in 0 .. OrderBytes - 1
    BY <1>2, <1>4 DEF Splits
  <2>2. Carries([pending |-> CopyBehind(o, 0, tail), filled |-> Len(tail)], (q + w) * OrderBytes, Len(tail))
    BY ONLY <1>4, <2>1, o \in [1 .. OrderBytes -> Nat], CopyStart
  <2> QED BY ONLY <1>3, <1>4, <2>2
<1> QED BY <1>2, <1>5, <1>6

LEMMA OrdersCons ==
  ASSUME NEW q \in Nat, NEW w \in Nat
  PROVE  <<OrderAt(q + 1)>> \o OrdersBehind(q + 1, w) = OrdersBehind(q, w + 1)
<1> DEFINE s == <<OrderAt(q + 1)>>
           t == OrdersBehind(q + 1, w)
           u == OrdersBehind(q, w + 1)
<1>1. /\ Len(s) = 1 /\ Len(t) = w /\ s[1] = OrderAt(q + 1)
      /\ \A i \in 1 .. w : t[i] = OrderAt((q + 1) + i)
  BY DEF OrdersBehind
<1>2. s \o t = [i \in 1 .. w + 1 |-> IF i <= 1 THEN s[i] ELSE t[i - 1]]
  BY <1>1
<1> HIDE DEF s, t
<1>3. ASSUME NEW i \in 1 .. w + 1 PROVE (IF i <= 1 THEN s[i] ELSE t[i - 1]) = OrderAt(q + i)
  <2>1. CASE i <= 1
    <3>1. i = 1
      BY <1>3, <2>1
    <3> QED BY <1>1, <3>1
  <2>2. CASE ~(i <= 1)
    <3>1. i - 1 \in 1 .. w /\ (q + 1) + (i - 1) = q + i
      BY <1>3, <2>2
    <3> QED BY <1>1, <2>2, <3>1
  <2> QED BY <2>1, <2>2
<1>4. s \o t = u
  BY ONLY <1>2, <1>3 DEF OrdersBehind
<1> QED BY <1>4 DEF s, t, u

(* The next n bytes complete or continue the order conn carries.           *)
LEMMA CopyOn ==
  ASSUME NEW b \in Nat, NEW f, NEW conn, Carries(conn, b, f), NEW t, Follow(t, b + f),
         f + Len(t) <= OrderBytes, NEW c, c = CopyBehind(conn.pending, f, t)
  PROVE  c \in [1 .. OrderBytes -> Nat] /\ \A i \in 1 .. f + Len(t) : c[i] = b + i
<1>1. /\ OrderBytes \in Nat \ {0} /\ t \in Seq(Nat) /\ Len(t) \in Nat /\ f \in Nat
      /\ \A i \in 1 .. Len(t) : t[i] = (b + f) + i
      /\ conn.pending \in [1 .. OrderBytes -> Nat] /\ \A i \in 1 .. f : conn.pending[i] = b + i
  BY SizesAssumption DEF Follow, Carries
<1> DEFINE o == conn.pending
<1>2. c = [i \in 1 .. OrderBytes |-> IF i - f \in DOMAIN t THEN t[i - f] ELSE o[i]]
  BY DEF CopyBehind
<1>3. DOMAIN t = 1 .. Len(t)
  BY <1>1
<1> HIDE DEF o
<1>4. ASSUME NEW i \in 1 .. OrderBytes
      PROVE  /\ c[i] \in Nat
             /\ i \in 1 .. f => c[i] = o[i]
             /\ i \in f + 1 .. f + Len(t) => c[i] = (b + f) + (i - f)
  <2>1. c[i] = IF i - f \in 1 .. Len(t) THEN t[i - f] ELSE o[i]
    BY ONLY <1>2, <1>3, <1>4
  <2>2. o[i] \in Nat
    BY <1>1 DEF o
  <2>3. CASE i - f \in 1 .. Len(t)
    <3>1. c[i] = (b + f) + (i - f)
      BY ONLY <1>1, <2>1, <2>3
    <3>2. f \in Nat /\ Len(t) \in Nat /\ i \in Nat
      BY ONLY <1>1, <1>4
    <3>3. i > f
      BY ONLY <2>3, <3>2
    <3>4. i \notin 1 .. f /\ (b + f) + (i - f) \in Nat
      BY ONLY <3>2, <3>3, b \in Nat
    <3> QED BY ONLY <3>1, <3>4
  <2>4. CASE i - f \notin 1 .. Len(t)
    <3>1. c[i] = o[i]
      BY ONLY <2>1, <2>4
    <3>2. i \notin f + 1 .. f + Len(t)
      BY ONLY <1>1, <1>4, <2>4
    <3> QED BY ONLY <2>2, <3>1, <3>2
  <2> QED BY <2>3, <2>4
<1>5. c \in [1 .. OrderBytes -> Nat]
  <2>1. c = [i \in 1 .. OrderBytes |-> c[i]]
    BY ONLY <1>2
  <2> QED BY ONLY <1>4, <2>1
<1>6. ASSUME NEW i \in 1 .. f + Len(t) PROVE c[i] = b + i
  <2>1. i \in 1 .. OrderBytes
    BY <1>1, <1>6
  <2>2. CASE i <= f
    <3>1. i \in 1 .. f
      BY <1>1, <1>6, <2>2
    <3> QED BY <1>1, <1>4, <2>1, <3>1 DEF o
  <2>3. CASE i > f
    <3>1. i \in f + 1 .. f + Len(t)
      BY <1>1, <1>6, <2>3
    <3>2. c[i] = (b + f) + (i - f)
      BY <1>4, <2>1, <3>1
    <3> QED BY ONLY <1>1, <1>6, <3>2, b \in Nat
  <2> QED BY <1>1, <1>6, <2>2, <2>3
<1> QED BY <1>5, <1>6

(* What parse_chunk does with the n bytes behind the first r of a session. *)
ParsesTo(p, n, q, w, f) ==
  /\ w \in Nat /\ Splits(n, q + w, f)
  /\ p.out = OrdersBehind(q, w) /\ Carries(p.conn, (q + w) * OrderBytes, f)

Parses(p, n, q) == \E w, f : ParsesTo(p, n, q, w, f)

LEMMA ParseFresh ==
  ASSUME NEW q \in Nat, NEW n \in Nat, NEW conn, Carries(conn, q * OrderBytes, 0),
         NEW data, Follow(data, q * OrderBytes), Len(data) = n
  PROVE  Parses(parse_chunk(conn, data), q * OrderBytes + n, q)
<1> DEFINE o == CopyBehind(conn.pending, 0, SubSeq(data, 1, 0))
           rest == SubSeq(data, 0 + 1, Len(data))
<1>1. conn.filled = 0 /\ ~(conn.filled > 0)
  BY DEF Carries
<1>2. data \in Seq(Nat) /\ rest = data
  BY DEF Follow
<1>3. SubSeq(data, 1, 0) = <<>>
  BY <1>2
<1>4. o \in [1 .. OrderBytes -> Nat]
  <2>1. Follow(<<>>, q * OrderBytes + 0)
    BY DEF Follow
  <2>2. 0 + Len(<<>>) <= OrderBytes /\ q * OrderBytes \in Nat
    BY SizesAssumption
  <2> QED BY <1>3, <2>1, <2>2, CopyOn, Zenon
<1>5. parse_chunk(conn, data).out = <<>> \o Unpack(rest, o).out /\ parse_chunk(conn, data).conn = Unpack(rest, o).conn
  BY <1>1, Zenon DEF parse_chunk, Unpack
<1> HIDE DEF o, rest
<1>6. PICK w, f : /\ Splits(Len(rest), w, f) /\ Unpack(rest, o).out = OrdersBehind(q, w)
                  /\ Carries(Unpack(rest, o).conn, (q + w) * OrderBytes, f)
  BY <1>2, <1>4, UnpackOrders
<1>7. w \in Nat /\ <<>> \o OrdersBehind(q, w) = OrdersBehind(q, w)
  BY <1>6 DEF Splits, OrdersBehind
<1>8. Splits(q * OrderBytes + n, q + w, f)
  BY <1>2, <1>6, SizesAssumption DEF Splits
<1> QED BY <1>5, <1>6, <1>7, <1>8 DEF Parses, ParsesTo

LEMMA ParseCarried ==
  ASSUME NEW q \in Nat, NEW f \in Nat \ {0}, NEW n \in Nat, NEW conn, Carries(conn, q * OrderBytes, f),
         NEW data, Follow(data, q * OrderBytes + f), Len(data) = n
  PROVE  Parses(parse_chunk(conn, data), (q * OrderBytes + f) + n, q)
<1> DEFINE take == Min({Len(data), OrderBytes - f})
           t == SubSeq(data, 1, take)
           o == CopyBehind(conn.pending, f, t)
           b == q * OrderBytes
<1>1. conn.filled = f /\ conn.filled > 0 /\ f < OrderBytes /\ OrderBytes \in Nat \ {0}
  BY SizesAssumption DEF Carries
<1>2. take = IF n <= OrderBytes - f THEN n ELSE OrderBytes - f
  BY <1>1 DEF Min
<1>3. take \in 0 .. n /\ f + take <= OrderBytes /\ b \in Nat
  BY ONLY <1>1, <1>2, q \in Nat, f \in Nat, n \in Nat
<1>4. data \in Seq(Nat) /\ \A i \in 1 .. n : data[i] = (b + f) + i
  BY DEF Follow
<1> HIDE DEF take, b
<1>5. Follow(t, b + f) /\ Len(t) = take
  BY <1>3, <1>4 DEF Follow
<1>6. o \in [1 .. OrderBytes -> Nat] /\ \A i \in 1 .. f + take : o[i] = b + i
  <2>1. Carries(conn, b, f)
    BY DEF b
  <2>2. f + Len(t) <= OrderBytes
    BY <1>3, <1>5
  <2> HIDE DEF t, o
  <2> QED BY <1>3, <1>5, <2>1, <2>2, CopyOn DEF o
<1>7. CASE n < OrderBytes - f
  <2>1. take = n /\ f + take # OrderBytes
    BY ONLY <1>1, <1>2, <1>7, f \in Nat, n \in Nat
  <2>2. ~Whole(conn.filled + take)
    BY <1>1, <2>1 DEF Whole
  <2>3. parse_chunk(conn, data) = [out |-> <<>>, conn |-> [pending |-> o, filled |-> f + take]]
    BY <1>1, <2>2 DEF parse_chunk, take
  <2> HIDE DEF t, o
  <2>4. Carries([pending |-> o, filled |-> f + take], b, f + take)
    <3>1. f + take \in 0 .. OrderBytes - 1
      BY <1>1, <1>7, <2>1
    <3> QED BY <1>6, <3>1 DEF Carries
  <2>5. Splits((b + f) + n, q + 0, f + take)
    <3>1. f + take \in 0 .. OrderBytes - 1 /\ (b + f) + n = b + (f + take)
      BY <1>1, <1>3, <1>7, <2>1
    <3> QED BY <3>1 DEF Splits, b
  <2>6. OrdersBehind(q, 0) = <<>> /\ (q + 0) * OrderBytes = b
    BY DEF OrdersBehind, b
  <2> DEFINE w == 0
  <2>7. ParsesTo(parse_chunk(conn, data), (b + f) + n, q, w, f + take)
    BY <2>3, <2>4, <2>5, <2>6 DEF ParsesTo
  <2> HIDE DEF w
  <2> QED BY ONLY <2>7 DEF Parses, b
<1>8. CASE n >= OrderBytes - f
  <2> DEFINE rest == SubSeq(data, take + 1, Len(data))
  <2>1. take = OrderBytes - f /\ f + take = OrderBytes
    BY ONLY <1>1, <1>2, <1>8, f \in Nat, n \in Nat
  <2>2. Whole(conn.filled + take)
    BY <1>1, <2>1 DEF Whole
  <2>3. /\ parse_chunk(conn, data).out = <<o>> \o Unpack(rest, o).out
        /\ parse_chunk(conn, data).conn = Unpack(rest, o).conn
    BY <1>1, <2>2, Zenon DEF parse_chunk, Unpack, take
  <2>4. /\ rest \in Seq(Nat) /\ Len(rest) = n - take
        /\ \A i \in 1 .. Len(rest) : rest[i] = data[take + i] /\ take + i \in 1 .. n
    BY <1>3, <1>4
  <2> HIDE DEF t, rest
  <2>5. o = OrderAt(q + 1)
    <3>1. o = [i \in 1 .. OrderBytes |-> o[i]] /\ \A i \in 1 .. OrderBytes : o[i] = b + i
      BY <1>6, <2>1, Zenon
    <3>2. ((q + 1) - 1) * OrderBytes = b
      BY DEF b
    <3> HIDE DEF o
    <3> QED BY ONLY <3>1, <3>2 DEF OrderAt
  <2> HIDE DEF o
  <2>6. (q + 1) * OrderBytes = b + OrderBytes /\ b + OrderBytes = (b + f) + take
    BY <1>1, <1>3, <2>1 DEF b
  <2>7. Follow(rest, (q + 1) * OrderBytes)
    <3>1. ASSUME NEW i \in 1 .. Len(rest) PROVE rest[i] = (b + OrderBytes) + i
      <4>1. rest[i] = (b + f) + (take + i)
        BY ONLY <1>4, <2>4, <3>1
      <4>2. i \in Nat
        BY ONLY <1>3, <2>4, <3>1, n \in Nat
      <4> QED BY ONLY <1>1, <1>3, <2>6, <4>1, <4>2, f \in Nat, n \in Nat
    <3> QED BY <2>4, <2>6, <3>1 DEF Follow
  <2>8. PICK w, g : /\ Splits(Len(rest), w, g) /\ Unpack(rest, o).out = OrdersBehind(q + 1, w)
                    /\ Carries(Unpack(rest, o).conn, ((q + 1) + w) * OrderBytes, g)
    BY <1>6, <2>7, UnpackOrders
  <2>9. w \in Nat /\ g \in 0 .. OrderBytes - 1 /\ n - take = w * OrderBytes + g
    BY <2>4, <2>8 DEF Splits
  <2>10. <<o>> \o OrdersBehind(q + 1, w) = OrdersBehind(q, w + 1)
    BY <2>5, <2>9, OrdersCons, Zenon
  <2>11. q + (w + 1) = (q + 1) + w
    BY <2>9
  <2>12. Splits((b + f) + n, q + (w + 1), g)
    <3> DEFINE e == w * OrderBytes
    <3>1. e \in Nat /\ (q + (w + 1)) * OrderBytes = (b + OrderBytes) + e
      BY <1>1, <2>9 DEF b
    <3>2. n - take = e + g
      BY <2>9
    <3> HIDE DEF e
    <3>3. (b + f) + n = ((b + OrderBytes) + e) + g
      BY ONLY <1>1, <1>3, <2>6, <2>9, <3>1, <3>2, f \in Nat, n \in Nat
    <3> QED BY <2>9, <3>1, <3>3 DEF Splits
  <2>13. ParsesTo(parse_chunk(conn, data), (b + f) + n, q, w + 1, g)
    BY ONLY <2>3, <2>8, <2>9, <2>10, <2>11, <2>12 DEF ParsesTo
  <2> QED BY ONLY <2>13 DEF Parses, b
<1> QED BY <1>1, <1>7, <1>8

LEMMA OrdersConcat ==
  ASSUME NEW q \in Nat, NEW w \in Nat
  PROVE  OrdersBehind(0, q) \o OrdersBehind(q, w) = OrdersBehind(0, q + w)
<1> DEFINE s == OrdersBehind(0, q)
           t == OrdersBehind(q, w)
<1>1. /\ Len(s) = q /\ Len(t) = w /\ \A i \in 1 .. q : s[i] = OrderAt(0 + i)
      /\ \A i \in 1 .. w : t[i] = OrderAt(q + i)
  BY DEF OrdersBehind
<1>2. s \o t = [i \in 1 .. q + w |-> IF i <= q THEN s[i] ELSE t[i - q]]
  <2> DEFINE S == {OrderAt(i) : i \in Nat}
  <2>1. s \in Seq(S) /\ t \in Seq(S)
    BY DEF OrdersBehind
  <2> HIDE DEF s, t, S
  <2>2. /\ s \o t \in Seq(S) /\ Len(s \o t) = q + w
        /\ \A i \in 1 .. q + w : (s \o t)[i] = IF i <= q THEN s[i] ELSE t[i - q]
    BY ONLY <1>1, <2>1, q \in Nat, w \in Nat
  <2> DEFINE x == s \o t
  <2> HIDE DEF x
  <2>3. /\ x \in Seq(S) /\ Len(x) = q + w
        /\ \A i \in 1 .. q + w : x[i] = IF i <= q THEN s[i] ELSE t[i - q]
    BY ONLY <2>2 DEF x
  <2>4. x = [i \in 1 .. q + w |-> IF i <= q THEN s[i] ELSE t[i - q]]
    BY ONLY <2>3, q \in Nat, w \in Nat
  <2> QED BY ONLY <2>4 DEF x
<1> HIDE DEF s, t
<1>3. ASSUME NEW i \in 1 .. q + w PROVE (IF i <= q THEN s[i] ELSE t[i - q]) = OrderAt(0 + i)
  <2>1. CASE i <= q
    <3>1. i \in 1 .. q
      BY <1>3, <2>1
    <3> QED BY <1>1, <2>1, <3>1
  <2>2. CASE ~(i <= q)
    <3>1. i - q \in 1 .. w /\ q + (i - q) = 0 + i
      BY <1>3, <2>2
    <3> QED BY <1>1, <2>2, <3>1
  <2> QED BY <2>1, <2>2
<1>4. s \o t = OrdersBehind(0, q + w)
  BY ONLY <1>2, <1>3 DEF OrdersBehind
<1> QED BY <1>4 DEF s, t

-----------------------------------------------------------------------------
(* The sessions.                                                           *)

(* The q orders the read bytes hold are pushed, and the rest is carried.   *)
Session(c, q, f) ==
  /\ Splits(sock[c].read, q, f) /\ pushed[c] = OrdersBehind(0, q)
  /\ Carries(conns[c], q * OrderBytes, f)

Fine(c) ==
  /\ sock[c].st = "queued" => pushed[c] = <<>>
  /\ sock[c].st = "open" => \E q, f : Session(c, q, f)

Reassembly == DOMAIN pushed = Fds /\ \A c \in Fds : Fine(c)

Keeps(c) ==
  /\ sock'[c].st = sock[c].st /\ sock'[c].read = sock[c].read /\ pushed'[c] = pushed[c]
  /\ sock[c].st = "open" => conns'[c] = conns[c]

LEMMA FineKept ==
  ASSUME NEW c, Fine(c), Keeps(c)
  PROVE  Fine(c)'
BY DEF Fine, Keeps, Session

LEMMA AllKeep ==
  ASSUME Reassembly, pushed' = pushed, \A c \in Fds : Keeps(c)
  PROVE  Reassembly'
<1>1. \A c \in Fds : Fine(c)'
  BY FineKept DEF Reassembly
<1> QED BY <1>1 DEF Reassembly

LEMMA OthersKeep ==
  ASSUME Reassembly, DOMAIN pushed' = Fds, NEW x, Fine(x)', \A c \in Fds \ {x} : Keeps(c)
  PROVE  Reassembly'
<1>1. \A c \in Fds : Fine(c)'
  BY FineKept DEF Reassembly
<1> QED BY <1>1 DEF Reassembly

LEMMA ConnectReassembly ==
  ASSUME Inv, Reassembly, NEW c \in Fds, Connect(c)
  PROVE  Reassembly'
<1>1. /\ DOMAIN sock = Fds /\ DOMAIN pushed = Fds
      /\ sock' = [sock EXCEPT ![c] = [Closed EXCEPT !.st = "queued"]]
      /\ pushed' = [pushed EXCEPT ![c] = <<>>] /\ conns' = conns
  BY DEF Connect, Inv, Types, Reassembly
<1>2. Fine(c)'
  BY <1>1 DEF Fine, Closed
<1>3. \A d \in Fds \ {c} : Keeps(d)
  BY <1>1 DEF Keeps
<1> QED BY <1>1, <1>2, <1>3, OthersKeep

LEMMA TalkReassembly ==
  ASSUME Inv, Reassembly, NEW c \in Fds, SendByte(c) \/ Finish(c) \/ Reset(c)
  PROVE  Reassembly'
<1>1. sock \in [Fds -> Socket] /\ pushed' = pushed /\ conns' = conns
  BY DEF SendByte, Finish, Reset, Leave, thread, Inv, Types
<1>2. \A d \in Fds : sock'[d].st = sock[d].st /\ sock'[d].read = sock[d].read
  <2>1. CASE SendByte(c)
    BY <1>1, <2>1 DEF SendByte, Socket
  <2>2. ASSUME NEW how, Leave(c, how) PROVE \A d \in Fds : sock'[d].st = sock[d].st /\ sock'[d].read = sock[d].read
    BY <1>1, <2>2 DEF Leave, Socket
  <2> QED BY <2>1, <2>2 DEF Finish, Reset
<1>3. \A d \in Fds : Keeps(d)
  BY <1>1, <1>2 DEF Keeps
<1> QED BY <1>1, <1>3, AllKeep

LEMMA LoopReassembly ==
  ASSUME Reassembly, UNCHANGED <<sock, pushed, conns>>
  PROVE  Reassembly'
<1>1. \A d \in Fds : Keeps(d)
  BY DEF Keeps
<1> QED BY <1>1, AllKeep

LEMMA AcceptReassembly ==
  ASSUME Inv, Reassembly, Accept
  PROVE  Reassembly'
<1>0. PICK c : c = Head(queue)
  OBVIOUS
<1>1. c \in Fds /\ sock[c].st = "queued"
  BY <1>0, Dequeue DEF Accept
<1>2. /\ sock \in [Fds -> Socket] /\ sock' = [sock EXCEPT ![c].st = "open"] /\ pushed' = pushed
      /\ conns' = [x \in DOMAIN conns \cup {c} |-> IF x \in DOMAIN conns THEN conns[x] ELSE Conn]
      /\ DOMAIN conns = Open /\ sock[c].read = 0
  BY <1>0, <1>1 DEF Accept, Inv, Types, Known, Waiting
<1>3. /\ \A d \in Fds \ {c} : sock'[d] = sock[d]
      /\ sock'[c].st = "open" /\ sock'[c].read = 0
  BY <1>1, <1>2 DEF Socket
<1>4. conns'[c] = Conn /\ \A d \in Open : conns'[d] = conns[d]
  BY <1>1, <1>2 DEF Open
<1>5. pushed'[c] = <<>> /\ DOMAIN pushed = Fds
  BY <1>1, <1>2 DEF Reassembly, Fine
<1>6. Fine(c)'
  <2> DEFINE q == 0
  <2>1. Splits(0, q, 0) /\ <<>> = OrdersBehind(0, q) /\ Carries(Conn, q * OrderBytes, 0)
    BY SizesAssumption DEF Splits, OrdersBehind, Carries, Conn
  <2>2. Session(c, q, 0)'
    BY <1>3, <1>4, <1>5, <2>1 DEF Session
  <2> HIDE DEF q
  <2> QED BY <1>3, <2>2 DEF Fine
<1>7. \A d \in Fds \ {c} : Keeps(d)
  BY <1>2, <1>3, <1>4 DEF Keeps, Open
<1> QED BY <1>2, <1>5, <1>6, <1>7, OthersKeep

LEMMA ClosedReassembly ==
  ASSUME Inv, Reassembly, NEW c \in Fds, sock' = [sock EXCEPT ![c] = Closed], pushed' = pushed,
         \A d \in Open \ {c} : conns'[d] = conns[d]
  PROVE  Reassembly'
<1>1. DOMAIN sock = Fds /\ DOMAIN pushed = Fds
  BY DEF Inv, Types, Reassembly
<1>2. Fine(c)'
  BY <1>1 DEF Fine, Closed
<1>3. \A d \in Fds \ {c} : Keeps(d)
  BY <1>1 DEF Keeps, Open
<1> QED BY <1>1, <1>2, <1>3, OthersKeep

LEMMA RecvReassembly ==
  ASSUME Inv, Reassembly, RecvChunk
  PROVE  Reassembly'
<1> DEFINE c == cur
           r == sock[c].read
           Data(n) == [i \in 1 .. n |-> r + i]
           P(n) == parse_chunk(conns[c], Data(n))
<1>1. /\ c \in Fds /\ sock[c].st = "open" /\ sock \in [Fds -> Socket] /\ DOMAIN conns = Open
      /\ r \in Nat /\ sock[c].sent \in Nat /\ DOMAIN pushed = Fds /\ Fine(c)
  BY DEF RecvChunk, Inv, Types, Known, Socket, Reassembly
<1>2. PICK n \in 1 .. Unread(c) :
        /\ sock' = [sock EXCEPT ![c].read = @ + n]
        /\ pushed' = [pushed EXCEPT ![c] = @ \o P(n).out]
        /\ conns' = [conns EXCEPT ![c] = P(n).conn]
  BY Zenon DEF RecvChunk
<1>3. n \in Nat /\ c \in DOMAIN conns
  BY <1>1, <1>2 DEF Unread, Open
<1>4. PICK q, f : Session(c, q, f)
  BY <1>1 DEF Fine
<1> DEFINE p == P(n)
<1> HIDE DEF c, p
<1>5. /\ sock'[c].st = "open" /\ sock'[c].read = r + n /\ pushed'[c] = pushed[c] \o p.out
      /\ conns'[c] = p.conn /\ DOMAIN pushed' = Fds
      /\ \A d \in Fds \ {c} : sock'[d] = sock[d] /\ pushed'[d] = pushed[d]
      /\ \A d \in Open \ {c} : conns'[d] = conns[d]
  BY <1>1, <1>2, <1>3 DEF Socket, p
<1>6. Parses(p, r + n, q)
  <2>1. q \in Nat /\ f \in Nat /\ r = q * OrderBytes + f /\ Carries(conns[c], q * OrderBytes, f)
    BY <1>4 DEF Session, Splits
  <2>2. Follow(Data(n), q * OrderBytes + f) /\ Len(Data(n)) = n
    BY <1>1, <1>3, <2>1 DEF Follow
  <2> HIDE DEF r, Data
  <2>3. CASE f = 0
    <3>1. q * OrderBytes + f = q * OrderBytes
      BY <2>1, <2>3, SizesAssumption
    <3> QED BY <1>3, <2>1, <2>2, <2>3, <3>1, ParseFresh DEF p
  <2>4. CASE f # 0
    <3>1. f \in Nat \ {0}
      BY <2>1, <2>4
    <3> QED BY <1>3, <2>1, <2>2, <3>1, ParseCarried DEF p
  <2> QED BY <2>3, <2>4
<1>7. PICK w, g : ParsesTo(p, r + n, q, w, g)
  BY ONLY <1>6 DEF Parses
<1> DEFINE q2 == q + w
<1> HIDE DEF q2
<1>8. PICK d : d = c
  OBVIOUS
<1>9. Session(d, q2, g)'
  <2>1. q \in Nat /\ w \in Nat /\ pushed[c] = OrdersBehind(0, q)
    BY <1>4, <1>7 DEF Session, Splits, ParsesTo
  <2>2. pushed'[d] = OrdersBehind(0, q2)
    BY <1>5, <1>7, <1>8, <2>1, OrdersConcat, Zenon DEF ParsesTo, q2
  <2>3. Splits(sock'[d].read, q2, g) /\ Carries(conns'[d], q2 * OrderBytes, g)
    BY ONLY <1>5, <1>7, <1>8 DEF ParsesTo, q2
  <2> QED BY ONLY <2>2, <2>3 DEF Session
<1>10. Fine(d)'
  BY ONLY <1>5, <1>8, <1>9 DEF Fine
<1>11. \A e \in Fds \ {d} : Keeps(e)
  BY <1>5, <1>8 DEF Keeps, Open
<1> QED BY <1>5, <1>10, <1>11, OthersKeep

LEMMA ReassemblyStep == Inv /\ Reassembly /\ [Next]_vars => Reassembly'
<1> SUFFICES ASSUME Inv, Reassembly, [Next]_vars PROVE Reassembly'
  OBVIOUS
<1>1. CASE UNCHANGED vars
  BY <1>1, LoopReassembly DEF vars
<1>2. CASE Client
  <2>1. CASE Stop
    BY <2>1, LoopReassembly DEF Stop, thread
  <2> QED BY <1>2, <2>1, ConnectReassembly, TalkReassembly DEF Client
<1>3. CASE \/ EpollWait \/ BatchHandled \/ HandleStop \/ HandleListen \/ AcceptReturns
           \/ AcceptGivesUp \/ RecvDrained
  BY <1>3, LoopReassembly DEF EpollWait, BatchHandled, HandleStop, HandleListen, AcceptReturns,
                              AcceptGivesUp, RecvDrained
<1>4. CASE AcceptArmFails
  <2>1. Head(queue) \in Fds
    BY <1>4, Dequeue DEF AcceptArmFails
  <2>2. PICK c \in Fds : sock' = [sock EXCEPT ![c] = Closed]
    BY <1>4, <2>1, Zenon DEF AcceptArmFails
  <2> QED BY <1>4, <2>2, ClosedReassembly, Zenon DEF AcceptArmFails
<1>5. ASSUME NEW c \in Fds, close_conn(c), pushed' = pushed PROVE Reassembly'
  <2>1. \A d \in Open \ {c} : conns'[d] = conns[d]
    BY <1>5 DEF close_conn, EraseEntry, Inv, Known
  <2> QED BY <1>5, <2>1, ClosedReassembly, Zenon DEF close_conn
<1>6. ASSUME NEW c \in Fds, HandleConn(c) PROVE Reassembly'
  <2>1. CASE c \in hup
    BY <1>5, <1>6, <2>1 DEF HandleConn
  <2>2. CASE c \notin hup
    BY <1>6, <2>2, LoopReassembly DEF HandleConn
  <2> QED BY <2>1, <2>2
<1>7. CASE RecvCloses
  <2>1. cur \in Fds
    BY <1>7 DEF RecvCloses, Inv, Types
  <2>2. PICK c \in Fds : c = cur
    BY <2>1
  <2>3. close_conn(c) /\ pushed' = pushed
    BY <1>7, <2>2 DEF RecvCloses, close_conn, EraseEntry
  <2> QED BY <1>5, <2>3
<1> QED BY <1>1, <1>2, <1>3, <1>4, <1>6, <1>7, AcceptReassembly, RecvReassembly DEF Next, Gateway

(* Of the bytes read of a session the whole orders are pushed and the rest *)
(* is carried in the Conn of its descriptor.                               *)
THEOREM ReassemblyHolds == Spec => []Reassembly
<1>1. Init => Reassembly
  BY DEF Init, Reassembly, Fine, Closed
<1> QED BY <1>1, InvHolds, ReassemblyStep, PTL DEF Spec

(* parse_chunk pushes the orders the client sent, each once and in order,  *)
(* however recv cuts the stream and whoever had the descriptor before.     *)
THEOREM StreamReassembledHolds == Spec => []StreamReassembled
<1>1. Inv /\ Reassembly => StreamReassembled
  <2> SUFFICES ASSUME Inv, Reassembly, NEW c \in Open
               PROVE  pushed[c] = [k \in 1 .. sock[c].read \div OrderBytes |->
                                    [i \in 1 .. OrderBytes |-> (k - 1) * OrderBytes + i]]
    BY Zenon DEF StreamReassembled
  <2>1. c \in Fds /\ sock[c].st = "open" /\ sock[c].read \in Nat
    BY DEF Open, Inv, Types, Socket
  <2>2. PICK q, f : Session(c, q, f)
    BY <2>1 DEF Reassembly, Fine
  <2>3. sock[c].read \div OrderBytes = q
    BY <2>1, <2>2, SplitsUnique DEF Session
  <2>4. pushed[c] = [k \in 1 .. q |-> OrderAt(0 + k)]
    BY <2>2 DEF Session, OrdersBehind
  <2>5. pushed[c] = [k \in 1 .. q |-> OrderAt(k)]
    BY ONLY <2>4
  <2> QED BY <2>3, <2>5 DEF OrderAt
<1> QED BY <1>1, InvHolds, ReassemblyHolds, PTL
=============================================================================
