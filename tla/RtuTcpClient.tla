---------------------------- MODULE RtuTcpClient ----------------------------
(***************************************************************************)
(* A modbus-RTU master over TCP: struct emb_rtu_t (emodbus/transport/rtu.c)*)
(* behind implementations/posix/mb-rtu-via-tcp-client.c, on the connection *)
(* of TcpClient, with a layer above that has one request under way at a    *)
(* time (client.c) and a server at the other end that finds the ends of    *)
(* frames by their pauses.                                                 *)
(*                                                                         *)
(* A byte is <<request, position>>; the checksum is right for the whole    *)
(* bytes of one frame and for nothing else.  opened_flag is set and reset  *)
(* with the state of the connection.                                       *)
(***************************************************************************)
EXTENDS TcpClient

CONSTANTS OutSize,   \* sizes of the requests, in order
          InSize,    \* sizes of their answers
          RxBufSize  \* rx_buf_size (MAX_PDU_SIZE)

Requests == 1..Len(OutSize)

ASSUME SizesAssumption ==
    /\ OutSize \in Seq(Nat \ {0}) /\ InSize \in Seq(Nat \ {0})
    /\ Len(InSize) = Len(OutSize)
    /\ RxBufSize \in Nat /\ \A k \in DOMAIN InSize : InSize[k] <= RxBufSize

VARIABLES
    sockOut,   \* bytes on their way to the server
    sockIn,    \* bytes on their way here
    txFrame,   \* the request in tx_buf, 0 before the first
    txCounter, \* tx_buf_counter
    rxBuf,     \* rx_buf[0 .. rx_buf_counter - 1]
    charTimer, \* is char_timeout_timer pending?
    waiting,   \* is the layer above waiting for txFrame's answer (rx_pdu set)?
    answered,  \* bookkeeping: <<request, the request whose answer it got>>, in order
    served     \* bookkeeping: the requests the server has got, in order

netVars == <<sockOut, sockIn>>
txVars  == <<txFrame, txCounter>>
rxVars  == <<rxBuf, charTimer>>
aboveVars == <<waiting, answered>>
vars == <<tcpVars, netVars, txVars, rxVars, aboveVars, served>>

OutFrame(k) == [i \in 1..OutSize[k] |-> <<k, i>>]
InFrame(k)  == [i \in 1..InSize[k] |-> <<k, i>>]
Byte == Requests \X (Nat \ {0})

TypeOK ==
    /\ TcpTypeOK
    /\ sockOut \in Seq(Byte) /\ sockIn \in Seq(Byte)
    /\ txFrame \in 0..Len(OutSize)
    /\ txCounter \in 0..(IF txFrame = 0 THEN 0 ELSE OutSize[txFrame])
    /\ rxBuf \in Seq(Byte) /\ Len(rxBuf) <= RxBufSize
    /\ charTimer \in BOOLEAN /\ waiting \in BOOLEAN
    /\ answered \in Seq(Requests \X Requests) /\ served \in Seq(Requests)

\* emb_rtu_via_tcp_client_create.
Init ==
    /\ TcpInit
    /\ sockOut = <<>> /\ sockIn = <<>>
    /\ txFrame = 0 /\ txCounter = 0
    /\ rxBuf = <<>> /\ charTimer = FALSE
    /\ waiting = FALSE /\ answered = <<>> /\ served = <<>>

Opened == state = "connected"
NoConnection == sockIn' = <<>> /\ sockOut' = <<>>

-----------------------------------------------------------------------------
\* The connection.  Neither its loss nor a new one touches what the transport
\* has sent or received so far.

\* Mutation of OnConnect: what is in tx_buf is sent from its beginning.
OnConnectAnew ==
    /\ \E f \in Fd : Connect(f)
    /\ txCounter' = 0
    /\ UNCHANGED <<netVars, txFrame, rxVars, aboveVars, served>>

OnConnect ==
    /\ \E f \in Fd : Connect(f)
    /\ UNCHANGED <<netVars, txVars, rxVars, aboveVars, served>>
OnConnectFails ==
    /\ ConnectFails
    /\ UNCHANGED <<netVars, txVars, rxVars, aboveVars, served>>

\* The application's notifier, told of the connection, sends request k.
OnConnectThenLose(k) ==
    /\ \E f \in Fd : ConnectThenLose(f)
    /\ k = txFrame + 1 /\ k \in Requests /\ ~waiting
    /\ txFrame' = k /\ txCounter' = 0 /\ waiting' = TRUE
    /\ UNCHANGED <<netVars, rxVars, answered, served>>

Stop  == StopConnection /\ NoConnection /\ UNCHANGED <<txVars, rxVars, aboveVars, served>>
Start == StartConnection /\ UNCHANGED <<netVars, txVars, rxVars, aboveVars, served>>
Open  == OtherOpens /\ UNCHANGED <<netVars, txVars, rxVars, aboveVars, served>>
Close == OtherCloses /\ UNCHANGED <<netVars, txVars, rxVars, aboveVars, served>>

\* The last bytes of what was on its way are lost.
Break ==
    /\ PeerCloses
    /\ \E n \in 0..Len(sockIn) : sockIn' = SubSeq(sockIn, 1, n)
    /\ sockOut' = <<>>
    /\ UNCHANGED <<txVars, rxVars, aboveVars, served>>

-----------------------------------------------------------------------------
\* Sending.
TxPending == txFrame # 0 /\ txCounter < OutSize[txFrame]

SocketTakes(k, from, w) ==
    sockOut' = IF peerOpen THEN sockOut \o SubSeq(OutFrame(k), from + 1, from + w) ELSE sockOut

\* write_to_port and tcp_client_write: the socket takes all or some of the rest
\* of request k (and is asked for its write event then, if that is not pending
\* anyway); or the connection turns out to be lost, which is not an error for
\* the transport, so that the rest stays; or there is none, or no rest.
WriteRest(k, from, pending) ==
    \/ /\ Opened
       /\ \E w \in 1..(OutSize[k] - from) :
             /\ txCounter' = from + w /\ SocketTakes(k, from, w)
             /\ writeEvent' = (pending \/ w < OutSize[k] - from)
       /\ UNCHANGED <<files, sockFd, readFd, state, timer, assigned, peerOpen, ended, breaks, stops, sockIn>>
    \/ /\ Opened /\ from < OutSize[k] /\ ~peerOpen
       /\ Lose /\ NoConnection
       /\ txCounter' = from
    \/ /\ ~Opened \/ from = OutSize[k]
       /\ txCounter' = from /\ writeEvent' = pending
       /\ UNCHANGED <<files, sockFd, readFd, state, timer, assigned, peerOpen, ended, breaks, stops, netVars>>

\* emb_client_do_transaction, modbus_rtu_send_packet: the request replaces what
\* tx_buf held, sent or not.
DoTransaction(k) ==
    /\ ~waiting /\ k = txFrame + 1 /\ k \in Requests
    /\ txFrame' = k /\ waiting' = TRUE
    /\ WriteRest(k, 0, writeEvent)
    /\ UNCHANGED <<rxVars, answered, served>>

\* sock_fd_write_cb: the write event is not persistent.
OnWritable ==
    /\ writeEvent
    /\ IF txFrame = 0
       THEN /\ writeEvent' = FALSE
            /\ UNCHANGED <<files, sockFd, readFd, state, timer, assigned, peerOpen, ended, breaks, stops,
                           netVars, txCounter>>
       ELSE WriteRest(txFrame, txCounter, FALSE)
    /\ UNCHANGED <<txFrame, rxVars, aboveVars, served>>

\* The layer above gives up (emb_client_wait_timeout).
WaitTimeout ==
    /\ waiting /\ waiting' = FALSE
    /\ UNCHANGED <<tcpVars, netVars, txVars, rxVars, answered, served>>

-----------------------------------------------------------------------------
\* Receiving.
Room == RxBufSize - Len(rxBuf)
Readable == readFd # NoFd /\ (sockIn # <<>> \/ ~peerOpen)

\* Mutation of ReadSome: the room left in rx_buf is not looked at.
ReadSomeOverrun(r) ==
    /\ Readable /\ r \in 1..Len(sockIn)
    /\ rxBuf' = rxBuf \o SubSeq(sockIn, 1, r)
    /\ sockIn' = SubSeq(sockIn, r + 1, Len(sockIn))
    /\ charTimer' = TRUE
    /\ UNCHANGED <<tcpVars, sockOut, txVars, aboveVars, served>>

\* Some bytes are read, and the character timer is started anew.
ReadSome(r) ==
    /\ Readable /\ r \in 1..Room /\ r <= Len(sockIn)
    /\ rxBuf' = rxBuf \o SubSeq(sockIn, 1, r)
    /\ sockIn' = SubSeq(sockIn, r + 1, Len(sockIn))
    /\ charTimer' = TRUE
    /\ UNCHANGED <<tcpVars, sockOut, txVars, aboveVars, served>>

\* Mutation of ReadEnd: an answer that fills the buffer counts as one too many.
ReadEndEarly ==
    /\ Readable /\ (sockIn = <<>> \/ Room <= 1)
    /\ Lose /\ NoConnection
    /\ rxBuf' = <<>>
    /\ UNCHANGED <<charTimer, txVars, aboveVars, served>>

\* recv returns zero, at the end of the connection or because no room is left
\* in rx_buf: the connection is given up, and the transport forgets what it has.
ReadEnd ==
    /\ Readable /\ (sockIn = <<>> \/ Room = 0)
    /\ Lose /\ NoConnection
    /\ rxBuf' = <<>>
    /\ UNCHANGED <<charTimer, txVars, aboveVars, served>>

\* on_timer, emb_rtu_on_char_timeout: a frame that is whole goes up if somebody
\* waits, or is an error for him if the PDU he posted has no room for it, and the
\* buffer is empty in any case.  A wrong checksum is an error for the one who
\* waits, if there were enough bytes to have one.
AnswerHeard == waiting /\ \E k \in Requests : rxBuf = InFrame(k)
CharTimeout ==
    /\ charTimer /\ charTimer' = FALSE
    /\ rxBuf' = <<>>
    /\ \/ /\ AnswerHeard /\ waiting' = FALSE
          /\ answered' \in {answered, Append(answered, <<txFrame, rxBuf[1][1]>>)}
       \/ /\ ~AnswerHeard
          /\ waiting' = waiting \/ (rxBuf # <<>> /\ waiting' = FALSE)
          /\ UNCHANGED answered
    /\ UNCHANGED <<tcpVars, netVars, txVars, served>>

\* The server takes what has come before a pause for a frame, and answers those
\* that are.
ServerHears(n) ==
    /\ n \in 1..Len(sockOut)
    /\ sockOut' = SubSeq(sockOut, n + 1, Len(sockOut))
    /\ \/ \E k \in Requests :
             /\ SubSeq(sockOut, 1, n) = OutFrame(k)
             /\ served' = Append(served, k)
             /\ sockIn' = sockIn \o InFrame(k)
       \/ /\ \A k \in Requests : SubSeq(sockOut, 1, n) # OutFrame(k)
          /\ UNCHANGED <<served, sockIn>>
    /\ UNCHANGED <<tcpVars, txVars, rxVars, aboveVars>>

OnData == ReadEnd \/ \E r \in 1..RxBufSize : ReadSome(r)

Next ==
    \/ OnConnect \/ OnConnectFails \/ (\E k \in Requests : OnConnectThenLose(k))
    \/ Stop \/ Start \/ Open \/ Close \/ Break
    \/ (\E k \in Requests : DoTransaction(k)) \/ OnWritable \/ WaitTimeout
    \/ OnData \/ CharTimeout
    \/ \E n \in 1..Len(sockOut) : ServerHears(n)

Spec == Init /\ [][Next]_vars

\* The event loop serves its events and its timers; a server that can be reached
\* again and again is connected to in the end, and the rest of the process does
\* not keep all descriptors for ever.
FairSpec == Spec /\ WF_vars(OnWritable) /\ WF_vars(OnData) /\ SF_vars(OnConnect) /\ WF_vars(Close)

-----------------------------------------------------------------------------
\* The invariant of the master: types, and one socket at most.
Inv == TypeOK /\ OneSocket

\* A request is carried out at most once and in order, although what a broken
\* connection left of it in tx_buf is sent on the next one: no byte is sent
\* twice, and no request comes after the one that replaced it.
ServedOnce == \A i, j \in DOMAIN served : i < j => served[i] < served[j]

\* What tx_buf holds is sent in the end, however the connection breaks and
\* whether there was one when it was put there.  Three things leave it behind: the
\* connection is stopped; or it was lost inside the notifier of a new one, which
\* ends the tries; or it was started again after a stop, and the first try failed,
\* which is then the last.
LeavesInTheEnd == TxPending ~> (~TxPending \/ state = "default" \/ ended)

\* The client gives up a connection only when it was stopped or the other side
\* has closed it.  There is one exception: more bytes than rx_buf holds came
\* without a pause, those of more than one answer.
OfSeveral(bytes) == \E i, j \in DOMAIN bytes : bytes[i][1] # bytes[j][1]
GivenUpForAReason ==
    [][state = "connected" /\ state' = "disconnected" =>
          \/ ~peerOpen
          \/ OfSeveral(rxBuf \o sockIn)]_vars
=============================================================================
