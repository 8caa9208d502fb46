----------------------------- MODULE TcpGateway -----------------------------
(***************************************************************************)
(* One gateway: its epoll loop, its connections and the reassembly of      *)
(* orders from the byte stream (net/tcp_gateway.hpp), with the clients and *)
(* the kernel around it.                                                   *)
(*                                                                         *)
(* A descriptor names a connection; the kernel hands a closed one out      *)
(* again, so a descriptor goes through several sessions.  The bytes of a   *)
(* session are the numbers 1, 2, 3 ...; order k consists of the bytes      *)
(* (k - 1) * OrderBytes + 1 .. k * OrderBytes, and what is pushed is the   *)
(* sequence of bytes found in the order.                                   *)
(***************************************************************************)
EXTENDS Integers, Sequences, FiniteSets, FiniteSetsExt

CONSTANTS
  Fds,           \* descriptors of connections
  OrderBytes,    \* sizeof(Order)
  READ_BUF,
  MAX_EVENTS,
  MaxBytes,      \* bound on the bytes of all sessions
  MaxSessions,   \* bound on the sessions
  MaxFaults      \* bound on the failures of accept4 and epoll_ctl

ASSUME SizesAssumption  == {OrderBytes, READ_BUF, MAX_EVENTS} \subseteq Nat \ {0}
ASSUME BoundsAssumption == {MaxBytes, MaxSessions, MaxFaults} \subseteq Nat

VARIABLES
  sock,        \* sock[c]: the kernel's view of the session of descriptor c
  queue,       \* the sessions waiting to be accepted, oldest first
  edges,       \* what epoll has an edge to report for
  stopping,    \* stop_fd_ is readable
  conns,       \* conns_: a function on the descriptors that are known
  pushed,      \* pushed[c]: the orders pushed for the session of c
  pc,          \* "wait", "dispatch", "accept", "recv", "stopped"
  events, hup, \* what epoll_wait returned and is not handled; those with EPOLLHUP
  cur,         \* the descriptor handle_conn works on
  gave_up,     \* the last accept_loop ended in an error other than EAGAIN
  sessions, bytes, faults

client == <<queue, sessions, bytes>>
thread == <<conns, pushed, pc, events, hup, cur, faults, gave_up>>
vars   == <<sock, queue, edges, stopping, conns, pushed, pc, events, hup, cur, gave_up,
            sessions, bytes, faults>>

LISTEN == "listen_fd_"
STOP   == "stop_fd_"
NoFd   == "none"

ASSUME FdsAssumption == Fds \cap {LISTEN, STOP, NoFd} = {}

Closed == [st |-> "closed", sent |-> 0, read |-> 0, peer |-> "talks"]
Conn   == [pending |-> [i \in 1 .. OrderBytes |-> 0], filled |-> 0]

Init ==
  /\ sock = [c \in Fds |-> Closed] /\ queue = <<>> /\ edges = {} /\ stopping = FALSE
  /\ conns = << >> /\ pushed = [c \in Fds |-> <<>>]
  /\ pc = "wait" /\ events = {} /\ hup = {} /\ cur = NoFd
  /\ sessions = 0 /\ bytes = 0 /\ faults = 0 /\ gave_up = FALSE

-----------------------------------------------------------------------------
(* Clients, and the edges the kernel raises for what they do.              *)

Connect(c) ==
  /\ sock[c].st = "closed" /\ sessions < MaxSessions
  /\ sock' = [sock EXCEPT ![c] = [Closed EXCEPT !.st = "queued"]]
  /\ queue' = Append(queue, c) /\ edges' = edges \cup {LISTEN}
  /\ pushed' = [pushed EXCEPT ![c] = <<>>]
  /\ sessions' = sessions + 1
  /\ UNCHANGED <<stopping, conns, pc, events, hup, cur, bytes, faults, gave_up>>

Talking(c) == sock[c].st # "closed" /\ sock[c].peer = "talks"

(* An edge is reported for a socket that epoll watches.                    *)
Raise(c) == edges' = IF sock[c].st = "open" THEN edges \cup {c} ELSE edges

(* One more byte arrives; several at once are several of these steps.      *)
SendByte(c) ==
  /\ Talking(c) /\ bytes < MaxBytes
  /\ bytes' = bytes + 1
  /\ sock' = [sock EXCEPT ![c].sent = @ + 1] /\ Raise(c)
  /\ UNCHANGED <<queue, sessions, stopping, thread>>

(* The client ends the stream, or resets the connection.                   *)
Leave(c, how) ==
  /\ Talking(c)
  /\ sock' = [sock EXCEPT ![c].peer = how] /\ Raise(c)
  /\ UNCHANGED <<client, stopping, thread>>

Finish(c) == Leave(c, "finished")
Reset(c)  == Leave(c, "reset")

(* stop, from the signal handler.                                          *)
Stop ==
  /\ ~stopping
  /\ stopping' = TRUE
  /\ UNCHANGED <<sock, client, edges, thread>>

-----------------------------------------------------------------------------
(* run                                                                     *)

Ready == edges \cup (IF stopping THEN {STOP} ELSE {})

(* epoll_wait reports up to MAX_EVENTS events; an edge is reported once.   *)
EpollWait ==
  /\ pc = "wait" /\ Ready # {}
  /\ events' \in SUBSET Ready /\ Cardinality(events') <= MAX_EVENTS
  /\ events' = Ready \/ Cardinality(events') = MAX_EVENTS
  /\ hup' = { c \in events' \cap Fds : sock[c].peer = "reset" }
  /\ edges' = edges \ events'
  /\ pc' = "dispatch"
  /\ UNCHANGED <<sock, client, stopping, conns, pushed, cur, faults, gave_up>>

BatchHandled ==
  /\ pc = "dispatch" /\ events = {}
  /\ pc' = "wait"
  /\ UNCHANGED <<sock, client, edges, stopping, conns, pushed, events, hup, cur, faults, gave_up>>

HandleStop ==
  /\ pc = "dispatch" /\ STOP \in events
  /\ pc' = "stopped" /\ stopping' = FALSE
  /\ UNCHANGED <<sock, client, edges, conns, pushed, events, hup, cur, faults, gave_up>>

HandleListen ==
  /\ pc = "dispatch" /\ LISTEN \in events
  /\ events' = events \ {LISTEN} /\ pc' = "accept" /\ gave_up' = FALSE
  /\ UNCHANGED <<sock, client, edges, stopping, conns, pushed, hup, cur, faults>>

-----------------------------------------------------------------------------
(* accept_loop                                                             *)

Accept ==
  /\ pc = "accept" /\ queue # <<>>
  /\ LET c == Head(queue) IN
       /\ sock' = [sock EXCEPT ![c].st = "open"]
       \* EPOLL_CTL_ADD reports a socket that is readable already
       /\ edges' = IF sock[c].sent > 0 \/ sock[c].peer # "talks" THEN edges \cup {c} ELSE edges
       \* emplace leaves an entry that is there already alone
       /\ conns' = [x \in DOMAIN conns \cup {c} |-> IF x \in DOMAIN conns THEN conns[x] ELSE Conn]
  /\ queue' = Tail(queue)
  /\ UNCHANGED <<stopping, pushed, pc, events, hup, cur, sessions, bytes, faults, gave_up>>

(* arm failed: the new connection is closed and the loop goes on.          *)
AcceptArmFails ==
  /\ pc = "accept" /\ queue # <<>> /\ faults < MaxFaults
  /\ sock' = [sock EXCEPT ![Head(queue)] = Closed]
  /\ queue' = Tail(queue) /\ faults' = faults + 1
  /\ UNCHANGED <<edges, stopping, conns, pushed, pc, events, hup, cur, sessions, bytes, gave_up>>

(* accept4 says EAGAIN.                                                    *)
AcceptDrained == queue = <<>>

AcceptReturns ==
  /\ pc = "accept" /\ AcceptDrained
  /\ pc' = "dispatch"
  /\ UNCHANGED <<sock, client, edges, stopping, conns, pushed, events, hup, cur, faults, gave_up>>

(* accept4 fails for another reason (EMFILE, ENFILE, ENOMEM ...), which    *)
(* leaves the connection in the queue, and accept_loop gives up.           *)
AcceptGivesUp ==
  /\ pc = "accept" /\ queue # <<>> /\ faults < MaxFaults
  /\ pc' = "dispatch" /\ faults' = faults + 1 /\ gave_up' = TRUE
  /\ UNCHANGED <<sock, client, edges, stopping, conns, pushed, events, hup, cur>>

-----------------------------------------------------------------------------
(* handle_conn                                                             *)

(* Slip: the entry of a closed connection stays in conns_.                 *)
KeepEntry(c) == conns

(* conns_.erase(fd)                                                        *)
EraseEntry(c) == [x \in DOMAIN conns \ {c} |-> conns[x]]

close_conn(c) ==
  /\ sock' = [sock EXCEPT ![c] = Closed] /\ edges' = edges \ {c}
  /\ conns' = EraseEntry(c)

HandleConn(c) ==
  /\ pc = "dispatch" /\ c \in events
  /\ events' = events \ {c} /\ hup' = hup \ {c}
  /\ IF c \in hup THEN close_conn(c) /\ UNCHANGED <<pc, cur>>
     ELSE /\ UNCHANGED <<sock, edges, conns>>
          /\ IF c \in DOMAIN conns THEN pc' = "recv" /\ cur' = c ELSE UNCHANGED <<pc, cur>>
  /\ UNCHANGED <<client, stopping, pushed, faults, gave_up>>

(* The carried order is complete.                                          *)
Whole(filled) == filled = OrderBytes

(* memcpy of bytes b into the order o, behind its first f bytes.           *)
CopyBehind(o, f, b) == [i \in 1 .. OrderBytes |-> IF i - f \in DOMAIN b THEN b[i - f] ELSE o[i]]

(* parse_chunk: the orders pushed for the bytes data, and what conn is     *)
(* afterwards.                                                             *)
parse_chunk(conn, data) ==
  LET take    == IF conn.filled = 0 THEN 0 ELSE Min({Len(data), OrderBytes - conn.filled})
      joined  == CopyBehind(conn.pending, conn.filled, SubSeq(data, 1, take))
      ends    == conn.filled > 0 /\ Whole(conn.filled + take)
      rest    == SubSeq(data, take + 1, Len(data))
      whole   == Len(rest) \div OrderBytes
      orders  == [k \in 1 .. whole |-> SubSeq(rest, (k - 1) * OrderBytes + 1, k * OrderBytes)]
      tail    == SubSeq(rest, whole * OrderBytes + 1, Len(rest))
  IN IF conn.filled > 0 /\ ~ends
     THEN [out |-> <<>>, conn |-> [pending |-> joined, filled |-> conn.filled + take]]
     ELSE [out  |-> (IF ends THEN <<joined>> ELSE <<>>) \o orders,
           conn |-> [pending |-> CopyBehind(joined, 0, tail), filled |-> Len(tail)]]

Unread(c) == sock[c].sent - sock[c].read

(* recv returns some of the bytes that have arrived; all are parsed.       *)
RecvChunk ==
  /\ pc = "recv" /\ Unread(cur) > 0
  /\ \E n \in 1 .. Unread(cur) :
       LET p == parse_chunk(conns[cur], [i \in 1 .. n |-> sock[cur].read + i]) IN
         /\ n <= READ_BUF
         /\ sock' = [sock EXCEPT ![cur].read = @ + n]
         /\ pushed' = [pushed EXCEPT ![cur] = @ \o p.out]
         /\ conns' = [conns EXCEPT ![cur] = p.conn]
  /\ UNCHANGED <<client, edges, stopping, pc, events, hup, cur, faults, gave_up>>

(* Slip: handle_conn returns after one chunk.                              *)
OneChunk(c) == sock[c].peer # "finished"

(* Slip: EAGAIN is taken for EINTR and recv tried again.                   *)
SpinOnEagain(c) == FALSE

(* recv says EAGAIN.                                                       *)
Drained(c) == Unread(c) = 0 /\ sock[c].peer = "talks"

RecvDrained ==
  /\ pc = "recv" /\ Drained(cur)
  /\ pc' = "dispatch" /\ cur' = NoFd
  /\ UNCHANGED <<sock, client, edges, stopping, conns, pushed, events, hup, faults, gave_up>>

(* Slip: the connection is closed once the peer has, read or not.          *)
FinSeen(c) == sock[c].peer = "finished"

(* recv returns 0: the peer has finished and everything has been read; or  *)
(* it fails because the connection was reset.                              *)
AtEnd(c) == (sock[c].peer = "finished" /\ Unread(c) = 0) \/ sock[c].peer = "reset"

RecvCloses ==
  /\ pc = "recv" /\ AtEnd(cur)
  /\ close_conn(cur)
  /\ pc' = "dispatch" /\ cur' = NoFd
  /\ UNCHANGED <<client, stopping, pushed, events, hup, faults, gave_up>>

-----------------------------------------------------------------------------

Client == Stop \/ \E c \in Fds : Connect(c) \/ SendByte(c) \/ Finish(c) \/ Reset(c)

Gateway ==
  \/ EpollWait \/ BatchHandled \/ HandleStop \/ HandleListen
  \/ Accept \/ AcceptArmFails \/ AcceptReturns \/ AcceptGivesUp
  \/ RecvChunk \/ RecvDrained \/ RecvCloses
  \/ \E c \in Fds : HandleConn(c)

Next == Client \/ Gateway

Spec == Init /\ [][Next]_vars

(* The gateway thread keeps running; nothing is assumed of the clients.    *)
FairSpec == Spec /\ WF_vars(Gateway)

-----------------------------------------------------------------------------

Open == { c \in Fds : sock[c].st = "open" }

(* However the stream is cut into chunks, and whatever session used the    *)
(* descriptor before, the orders pushed are the orders the client sent,    *)
(* each once and in order, up to the last one read completely.             *)
StreamReassembled ==
  \A c \in Open :
    pushed[c] = [k \in 1 .. sock[c].read \div OrderBytes |->
                  [i \in 1 .. OrderBytes |-> (k - 1) * OrderBytes + i]]

(* An edge is reported only once: while the thread sleeps in epoll_wait,   *)
(* a connection with something to read has one to come, and so has the     *)
(* listening socket with someone to accept, also when epoll_ctl refused    *)
(* some of them.  The one exception is accept_loop having given up on its  *)
(* last wave: then nobody is accepted until another client connects.       *)
NoEdgeLost ==
  pc = "wait" =>
    /\ ~gave_up /\ queue # <<>> => LISTEN \in edges
    /\ \A c \in Open : Unread(c) > 0 \/ sock[c].peer # "talks" => c \in edges

(* A connection that its client ended in good order is closed only after   *)
(* every byte it sent has been read.                                       *)
GracefulCloseReadsAll ==
  [][\A c \in Fds : sock[c].st = "open" /\ sock'[c].st = "closed" /\ sock[c].peer # "reset" =>
       Unread(c) = 0]_vars

(* A client connects or sends.                                             *)
Talk == \E c \in Fds : Connect(c) \/ SendByte(c)

(* stop makes run return, wherever the loop is and whatever it has still   *)
(* to read, accept or close, once the clients send and connect no more.    *)
(* While one goes on sending, recv may never say EAGAIN, and handle_conn   *)
(* does not look at stop_fd_.                                              *)
StopReturns ==
  <>[][~Talk]_vars => (stopping ~> pc = "stopped")
=============================================================================
