----------------------------- MODULE TcpServer -----------------------------
(***************************************************************************)
(* A modbus-TCP slave: the listening socket and its connections            *)
(* (implementations/posix/tcp-server.c), the adapter over them             *)
(* (mb-tcp-via-tcp-server.c), and the one struct emb_tcp_t                 *)
(* (emodbus/transport/tcp.c) that serves all of them, under a server that  *)
(* answers some requests and keeps silent on others (server.c: broadcasts  *)
(* and addresses of nobody).                                               *)
(*                                                                         *)
(* A connection is a bufferevent of libevent, which reads what the socket  *)
(* has into a buffer of its own and then calls back, once.  What the       *)
(* callback leaves there stays until another one comes for this            *)
(* connection.                                                             *)
(*                                                                         *)
(* A byte is <<request, position>>; headers are as in TcpLink.             *)
(***************************************************************************)
EXTENDS Integers, Sequences, FiniteSets

CONSTANTS Conn,         \* connections masters make
          NoConn,       \* tcp_client_id before the first event
          RequestSize,  \* sizes of the requests, in the order they are made
          HeaderSize,   \* bytes needed before the length is looked at
          RxBufSize,    \* emb_tcp_rx_buf_size
          GarbageSizes, \* frame sizes a misread header may give
          Limits        \* values of n_clients_limit; 0 for unlimited

Requests == 1..Len(RequestSize)

ASSUME SizesAssumption ==
    /\ RequestSize \in Seq(Nat) /\ HeaderSize \in Nat \ {0} /\ RxBufSize \in Nat
    /\ \A k \in DOMAIN RequestSize : RequestSize[k] >= HeaderSize /\ RequestSize[k] <= RxBufSize
    /\ HeaderSize <= RxBufSize
    /\ GarbageSizes \subseteq Nat /\ Limits \subseteq Nat
    /\ NoConn \notin Conn /\ IsFiniteSet(Conn)

VARIABLES
    limit,     \* n_clients_limit, set before the event loop runs
    counter,   \* clients_counter
    open,      \* connections that have a bufferevent
    gone,      \* connections closed or refused
    net,       \* bytes of each connection on their way here
    input,     \* the input buffer of each bufferevent
    output,    \* the output buffer of each: answers, [of, whole]
    writable,  \* bufferevents whose write event is pending
    clientId,  \* tcp_client_id
    rxBuf,     \* rx_buf[0 .. rx_pkt_counter - 1]
    rxLength,  \* curr_rx_length
    timer,     \* is rx_timeout_timer pending?
    asked,     \* bookkeeping: the requests made, [conn, silent]
    got,       \* bookkeeping: the answers each connection's master got
    disturbed  \* bookkeeping: something happened that may cost a request

connVars == <<limit, counter, open, gone>>
rxVars   == <<clientId, rxBuf, rxLength, timer>>
vars == <<connVars, net, input, output, writable, rxVars, asked, got, disturbed>>

Request(k) == [i \in 1..RequestSize[k] |-> <<k, i>>]
Byte == Requests \X (Nat \ {0})
Answer == [of : Requests \cup {0}, whole : BOOLEAN]

TypeOK ==
    /\ limit \in Limits /\ counter \in Nat
    /\ open \subseteq Conn /\ gone \subseteq Conn /\ open \cap gone = {}
    /\ net \in [Conn -> Seq(Byte)] /\ input \in [Conn -> Seq(Byte)]
    /\ output \in [Conn -> Seq(Answer)] /\ got \in [Conn -> Seq(Answer)]
    /\ writable \subseteq open
    /\ clientId \in Conn \cup {NoConn}
    /\ rxBuf \in Seq(Byte) /\ Len(rxBuf) < RxBufSize /\ rxLength \in Int
    /\ timer \in BOOLEAN
    /\ asked \in Seq([conn : Conn, silent : BOOLEAN]) /\ Len(asked) <= Len(RequestSize)
    /\ disturbed \in BOOLEAN

Init ==
    /\ limit \in Limits /\ counter = 0 /\ open = {} /\ gone = {}
    /\ net = [c \in Conn |-> <<>>] /\ input = [c \in Conn |-> <<>>]
    /\ output = [c \in Conn |-> <<>>] /\ got = [c \in Conn |-> <<>>]
    /\ writable = {}
    /\ clientId = NoConn /\ rxBuf = <<>> /\ rxLength = -1 /\ timer = FALSE
    /\ asked = <<>> /\ disturbed = FALSE

-----------------------------------------------------------------------------
\* Connections.

\* Mutation of Refuse: the counter is not set back.
RefuseCounted(c) ==
    /\ limit > 0 /\ counter + 1 > limit
    /\ gone' = gone \cup {c} /\ counter' = counter + 1
    /\ UNCHANGED <<open, writable>>

\* accept_conn_cb counts a connection before it looks at the limit.
Refuse(c) ==
    /\ limit > 0 /\ counter + 1 > limit
    /\ gone' = gone \cup {c}
    /\ UNCHANGED <<open, counter, writable>>

\* The write event of a new bufferevent is enabled with nothing to be written.
Admit(c) ==
    /\ limit = 0 \/ counter + 1 <= limit
    /\ open' = open \cup {c} /\ counter' = counter + 1
    /\ writable' = writable \cup {c}
    /\ UNCHANGED gone

Accept(c) ==
    /\ c \in Conn \ (open \cup gone)
    /\ Refuse(c) \/ Admit(c)
    /\ UNCHANGED <<limit, net, input, output, rxVars, asked, got, disturbed>>

\* event_callback: the connection is closed or broken, and freed with all it
\* holds.  What the transport has received from it stays in rx_buf.
Disconnect(c) ==
    /\ c \in open
    /\ open' = open \ {c} /\ gone' = gone \cup {c} /\ counter' = counter - 1
    /\ writable' = writable \ {c}
    /\ net' = [net EXCEPT ![c] = <<>>]
    /\ input' = [input EXCEPT ![c] = <<>>]
    /\ output' = [output EXCEPT ![c] = <<>>]
    /\ UNCHANGED <<limit, rxVars, asked, got, disturbed>>

\* The requests of c that its master has no answer to.
Outstanding(c) ==
    {k \in DOMAIN asked : /\ asked[k].conn = c
                          /\ \A i \in DOMAIN got[c] : got[c][i].of # k}

\* A master asks; it should not ask again before it has its answer or, where there
\* will be none, while its request is on its way.
Ask(c, silent) ==
    /\ c \in open /\ Len(asked) < Len(RequestSize)
    /\ asked' = Append(asked, [conn |-> c, silent |-> silent])
    /\ net' = [net EXCEPT ![c] = @ \o Request(Len(asked) + 1)]
    /\ disturbed' = (disturbed \/ \E k \in Outstanding(c) : ~asked[k].silent \/ net[c] # <<>>)
    /\ UNCHANGED <<connVars, input, output, writable, rxVars, got>>

-----------------------------------------------------------------------------
\* The transport.
Header(buf) == SubSeq(buf, 1, HeaderSize)
Aligned(buf) == \E k \in Requests : Header(buf) = SubSeq(Request(k), 1, HeaderSize)

\* The sizes the header of buf may be read as.
SizesRead(buf) == IF Aligned(buf) THEN {RequestSize[buf[1][1]]} ELSE GarbageSizes

\* The output buffers are `out' and the pending write events `more'; a frame of
\* that size is served, and an answer with its transaction number is sent on
\* connection c.  One put together from pieces may be taken for any request, may be
\* for nobody, and may be too long for rx_pdu; requests fit it.
ServeFrame(c, buf, size, out, more) ==
    LET whole == Aligned(buf) /\ SubSeq(buf, 1, size) = Request(buf[1][1])
        answer == [of |-> IF Aligned(buf) THEN buf[1][1] ELSE 0, whole |-> whole]
    IN  \/ /\ whole => asked[buf[1][1]].silent
           /\ output' = out /\ writable' = more
        \/ /\ whole => ~asked[buf[1][1]].silent
           /\ output' = [out EXCEPT ![c] = Append(@, answer)]
           /\ writable' = more \cup {c}

\* Mutations of ParsePacket: a frame is served when its last byte is missing; the
\* buffer is not emptied when full.
ParsePacketEarly(c, buf, out, more) ==
    IF Len(buf) < HeaderSize
    THEN rxLength' = -1 /\ rxBuf' = buf /\ output' = out /\ writable' = more
    ELSE \E size \in SizesRead(buf) :
            /\ rxLength' = size - Len(buf)
            /\ IF rxLength' > 1
               THEN /\ rxBuf' = IF Len(buf) = RxBufSize THEN <<>> ELSE buf
                    /\ output' = out /\ writable' = more
               ELSE rxBuf' = <<>> /\ ServeFrame(c, buf, size - 1, out, more)
ParsePacketFull(c, buf, out, more) ==
    IF Len(buf) < HeaderSize
    THEN rxLength' = -1 /\ rxBuf' = buf /\ output' = out /\ writable' = more
    ELSE \E size \in SizesRead(buf) :
            /\ rxLength' = size - Len(buf)
            /\ IF rxLength' > 0
               THEN rxBuf' = buf /\ output' = out /\ writable' = more
               ELSE rxBuf' = <<>> /\ ServeFrame(c, buf, size, out, more)

\* parse_packet and what emb_tcp_port_event does with its result.  What was read
\* after a whole frame is thrown away with it.
ParsePacket(c, buf, out, more) ==
    \/ /\ Len(buf) < HeaderSize
       /\ rxLength' = -1 /\ rxBuf' = buf
       /\ output' = out /\ writable' = more
    \/ /\ Len(buf) >= HeaderSize
       /\ \E size \in SizesRead(buf) :
             /\ rxLength' = size - Len(buf)
             /\ IF rxLength' > 0
                THEN /\ rxBuf' = IF Len(buf) = RxBufSize THEN <<>> ELSE buf
                     /\ output' = out /\ writable' = more
                ELSE rxBuf' = <<>> /\ ServeFrame(c, buf, size, out, more)

Room == RxBufSize - Len(rxBuf)
ToBeRead == IF rxLength >= 0 THEN rxLength ELSE Room
Least(a, b) == IF a < b THEN a ELSE b

\* A rest that does not fit makes the receiver forget what it has, but not the
\* length, and reads nothing.
Discard(c, buffered, out, more) ==
    /\ Room < rxLength
    /\ rxBuf' = <<>> /\ input' = [input EXCEPT ![c] = buffered]
    /\ output' = out /\ writable' = more
    /\ UNCHANGED <<rxLength, timer>>

\* read_from_port starts the receive timeout again; after a whole frame nothing
\* is asked for, and the event only resets the length.
ReadAndParse(c, buffered, out, more) ==
    LET n == Least(ToBeRead, Len(buffered)) IN
    /\ Room >= rxLength
    /\ timer' = (timer \/ ToBeRead > 0)
    /\ input' = [input EXCEPT ![c] = SubSeq(buffered, n + 1, Len(buffered))]
    /\ ParsePacket(clientId', rxBuf \o SubSeq(buffered, 1, n), out, more)

\* Mutation of DataReceived: the connection of the first event is remembered.
DataReceivedFirstId(c, buffered, out, more) ==
    /\ clientId' = IF clientId = NoConn THEN c ELSE clientId
    /\ Discard(c, buffered, out, more) \/ ReadAndParse(c, buffered, out, more)

\* emb_tcp_port_event, data received, for connection c, whose bufferevent holds
\* `buffered'.
DataReceived(c, buffered, out, more) ==
    /\ clientId' = c
    /\ Discard(c, buffered, out, more) \/ ReadAndParse(c, buffered, out, more)

\* A request that was received and whose master got no answer: it is one the
\* server keeps silent on, or the answer is not written yet, or never will be.
LeftUnanswered ==
    \E k \in DOMAIN asked :
        /\ k \in Outstanding(asked[k].conn)
        /\ k \notin {b[1] : b \in {net[asked[k].conn][i] : i \in DOMAIN net[asked[k].conn]}}

\* Part of another connection's request is in rx_buf; or the event after a whole
\* frame, which reads nothing, is still to come, and the frame was not answered.
Collides(c) ==
    \/ rxBuf # <<>> /\ asked[rxBuf[1][1]].conn # c
    \/ rxLength = 0 /\ LeftUnanswered

\* read_callback: libevent moves r bytes from the socket to the input buffer.
ReadCallback(c, r) ==
    /\ c \in open /\ r \in 1..Len(net[c])
    /\ net' = [net EXCEPT ![c] = SubSeq(@, r + 1, Len(@))]
    /\ disturbed' = (disturbed \/ Collides(c))
    /\ DataReceived(c, input[c] \o SubSeq(net[c], 1, r), output, writable)
    /\ UNCHANGED <<connVars, asked, got>>

\* Mutation of WriteCallback: the port is told nothing.
WriteCallbackMute(c) ==
    /\ c \in writable
    /\ writable' = writable \ {c}
    /\ got' = [got EXCEPT ![c] = @ \o output[c]]
    /\ output' = [output EXCEPT ![c] = <<>>]
    /\ UNCHANGED <<connVars, net, input, rxVars, asked, disturbed>>

\* write_callback: the output buffer has been written.  The port is told that
\* data were received, not sent: nothing else ends the skip after a whole frame
\* before the master's next request.
WriteCallback(c) ==
    /\ c \in writable
    /\ got' = [got EXCEPT ![c] = @ \o output[c]]
    /\ DataReceived(c, input[c], [output EXCEPT ![c] = <<>>], writable \ {c})
    /\ UNCHANGED <<connVars, net, asked, disturbed>>

\* Mutation of OnRxTimeout: the length is kept.
OnRxTimeoutKeep ==
    /\ timer /\ timer' = FALSE
    /\ rxBuf' = <<>>
    /\ disturbed' = (disturbed \/ rxBuf # <<>>)
    /\ UNCHANGED <<connVars, net, input, output, writable, clientId, rxLength, asked, got>>

\* on_rx_timeout, and emb_tcp_port_event for it.
OnRxTimeout ==
    /\ timer /\ timer' = FALSE
    /\ rxBuf' = <<>> /\ rxLength' = -1
    /\ disturbed' = (disturbed \/ rxBuf # <<>>)
    /\ UNCHANGED <<connVars, net, input, output, writable, clientId, asked, got>>

-----------------------------------------------------------------------------
Read(c) == \E r \in 1..Len(net[c]) : ReadCallback(c, r)

Next ==
    \/ \E c \in Conn : \/ Accept(c) \/ Disconnect(c)
                       \/ \E silent \in BOOLEAN : Ask(c, silent)
                       \/ Read(c) \/ WriteCallback(c)
    \/ OnRxTimeout

Spec == Init /\ [][Next]_vars

\* The event loop serves every connection and the timer.
FairSpec == Spec /\ WF_vars(OnRxTimeout)
                 /\ \A c \in Conn : WF_vars(Read(c)) /\ WF_vars(WriteCallback(c))

-----------------------------------------------------------------------------
\* Although one emb_tcp_t with one receive buffer and one tcp_client_id serves all
\* connections, the answer to a request goes to the connection that made it, once,
\* and the answers of a connection come in the order of its requests.
OwnConnection ==
    \A c \in Conn :
        LET sent == got[c] \o output[c] IN
        /\ \A i \in DOMAIN sent : sent[i].whole =>
              /\ sent[i].of \in DOMAIN asked
              /\ asked[sent[i].of].conn = c /\ ~asked[sent[i].of].silent
        /\ \A i, j \in DOMAIN sent :
              i < j /\ sent[i].whole /\ sent[j].whole => sent[i].of < sent[j].of

\* Pieces of requests are put together to one, and answered, only after the
\* requests of two connections met in rx_buf, a master asked again too soon, or
\* a request was interrupted for longer than the receive timeout.
WholeRequests ==
    \A c \in Conn : \A i \in DOMAIN (got[c] \o output[c]) :
        (got[c] \o output[c])[i].whole \/ disturbed

\* clients_counter counts the connections that are open, and keeps to the limit.
ClientsCounted ==
    /\ counter = Cardinality(open)
    /\ limit > 0 => counter <= limit

\* Whatever the receiver holds, or waits for, the receive timeout will end: unlike
\* the client's adapter this one cannot be stuck with a length that does not fit.
Timed == rxBuf # <<>> \/ rxLength > 0 => timer

\* The invariant of the server: types, the counter and the timer.
Inv == TypeOK /\ ClientsCounted /\ Timed

\* Every request the server answers is answered in the end, unless it was
\* disturbed or its connection closed.
ToBeAnswered(k) == k \in DOMAIN asked /\ ~asked[k].silent
Settled(k) == /\ k \in DOMAIN asked
              /\ \/ asked[k].conn \in gone
                 \/ [of |-> k, whole |-> TRUE] \in {got[asked[k].conn][i] : i \in DOMAIN got[asked[k].conn]}
Answered == \A k \in Requests : ToBeAnswered(k) ~> disturbed \/ Settled(k)
=============================================================================
