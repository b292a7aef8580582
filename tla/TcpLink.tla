------------------------------ MODULE TcpLink ------------------------------
(***************************************************************************)
(* A modbus-TCP master: struct emb_tcp_t (emodbus/transport/tcp.c), its    *)
(* adapter (implementations/posix/mb-tcp-via-tcp-client.c) and the         *)
(* reconnecting socket under it (implementations/posix/tcp-client.c), with *)
(* a layer above that has one request under way at a time (client.c).      *)
(*                                                                         *)
(* A byte is <<request, position>>.  The header of a frame gives its       *)
(* length and the number of its request modulo IdMod (2^16 in the code);   *)
(* of a header put together from misplaced bytes the length can be         *)
(* anything, and the number is taken never to be the expected one.         *)
(* HeaderSize stands for the nine bytes parse_packet waits for.            *)
(***************************************************************************)
EXTENDS Integers, Sequences

CONSTANTS AnswerSize,    \* size of the answer to each request
          PduRoom,       \* size of the longest frame that rx_pdu has room for then
          RequestSize,   \* size of a request
          HeaderSize,    \* bytes needed before the length is looked at
          RxBufSize,     \* emb_tcp_rx_buf_size
          GarbageSizes,  \* frame sizes a misread header may give
          IdMod,         \* transaction numbers there are
          MaxBreaks      \* bound: connections that break

Requests == 1..Len(AnswerSize)

ASSUME SizesAssumption ==
    /\ AnswerSize \in Seq(Nat) /\ RequestSize \in Nat \ {0} /\ HeaderSize \in Nat \ {0}
    /\ \A k \in DOMAIN AnswerSize : AnswerSize[k] >= HeaderSize /\ AnswerSize[k] <= RxBufSize
    /\ PduRoom \in [DOMAIN AnswerSize -> Nat]
    /\ RxBufSize \in Nat /\ HeaderSize <= RxBufSize /\ GarbageSizes \subseteq Nat
    /\ IdMod \in Nat \ {0} /\ MaxBreaks \in Nat

VARIABLES
    state,      \* tcp_client_t::state (opened_flag is set and reset with it)
    timer,      \* timer_event: not pending, first_time_connect or reconnect
    writeEvent, \* is sock_event_write pending?
    peerOpen,   \* has the connection not been closed or reset from outside?
    sockIn,     \* bytes on their way here
    sockOut,    \* bytes on their way to the server
    rxBuf,      \* rx_buf[0 .. rx_pkt_counter - 1]
    rxLength,   \* curr_rx_length
    txRequest,  \* the request in tx_buf, 0 before the first
    txCounter,  \* tx_pkt_counter
    waiting,    \* is the layer above waiting for txRequest's answer (rx_pdu set)?
    results,    \* bookkeeping: what the layer above was told of each request
    torn,       \* bookkeeping: part of an answer was left over or thrown away
    unattended, \* bookkeeping: the timer was deleted after a loss of connection
    breaks      \* bookkeeping: connections broken so far

sockVars == <<state, timer, writeEvent, unattended>>
netVars  == <<peerOpen, sockIn, sockOut, breaks>>
rxVars   == <<rxBuf, rxLength>>
vars == <<sockVars, netVars, rxVars, torn, txRequest, txCounter, waiting, results>>

Request(k) == [i \in 1..RequestSize |-> <<k, i>>]
Answer(k)  == [i \in 1..AnswerSize[k] |-> <<k, i>>]
Id(k) == k % IdMod

None == [kind |-> "none", of |-> 0]
Outcome == [kind : {"none", "answer", "mixed", "error", "overflow", "timeout"},
            of : {0} \cup Requests]

TypeOK ==
    /\ state \in {"disconnected", "connected"}
    /\ timer \in {"none", "first", "reconnect"}
    /\ {writeEvent, peerOpen, waiting, torn, unattended} \subseteq BOOLEAN
    /\ \A s \in {sockIn, sockOut, rxBuf} : s \in Seq(Requests \X (Nat \ {0}))
    /\ Len(rxBuf) < RxBufSize
    /\ rxLength \in Int
    /\ txRequest \in {0} \cup Requests
    /\ txCounter \in 0..RequestSize
    /\ results \in [Requests -> Outcome]
    /\ breaks \in 0..MaxBreaks

\* emb_tcp_via_tcp_client_create, which starts the first connection.
Init ==
    /\ state = "disconnected" /\ timer = "first" /\ writeEvent = FALSE
    /\ peerOpen = FALSE /\ sockIn = <<>> /\ sockOut = <<>> /\ breaks = 0
    /\ rxBuf = <<>> /\ rxLength = -1 /\ torn = FALSE
    /\ txRequest = 0 /\ txCounter = 0 /\ waiting = FALSE
    /\ results = [k \in Requests |-> None]
    /\ unattended = FALSE

-----------------------------------------------------------------------------
\* The socket.

\* Mutation of LoseConnection: the timer is left to reconnect, which has deleted it.
LoseConnectionNoTimer ==
    /\ state' = "disconnected" /\ writeEvent' = FALSE
    /\ peerOpen' = FALSE /\ sockIn' = <<>> /\ sockOut' = <<>>
    /\ torn' = (torn \/ rxBuf # <<>>)
    /\ UNCHANGED <<timer, unattended, breaks>>

\* do_unconnect and start_reconnect_timer, from a read or a write that failed.
\* What the transport has received of an answer stays in rx_buf.
LoseConnection ==
    /\ state' = "disconnected" /\ writeEvent' = FALSE
    /\ timer' = "reconnect"
    /\ peerOpen' = FALSE /\ sockIn' = <<>> /\ sockOut' = <<>>
    /\ torn' = (torn \/ rxBuf # <<>>)
    /\ UNCHANGED <<unattended, breaks>>

\* do_connect succeeds, and reconnect or first_time_connect deletes the timer.
Connect ==
    /\ timer # "none" /\ state = "disconnected"
    /\ state' = "connected" /\ writeEvent' = TRUE
    /\ timer' = "none"
    /\ peerOpen' = TRUE
    /\ UNCHANGED <<unattended, sockIn, sockOut, breaks, rxVars, torn, txRequest, txCounter, waiting, results>>

\* Mutation of ConnectFails: the timer is not started again after the first try.
ConnectFailsForGood ==
    /\ timer # "none" /\ state = "disconnected"
    /\ timer' = IF timer = "first" THEN "none" ELSE timer
    /\ UNCHANGED <<state, writeEvent, unattended, netVars, rxVars, torn, txRequest, txCounter, waiting, results>>

\* do_connect fails; the first time the reconnection timer is started.
ConnectFails ==
    /\ timer # "none" /\ state = "disconnected"
    /\ timer' = "reconnect"
    /\ UNCHANGED <<state, writeEvent, unattended, netVars, rxVars, torn, txRequest, txCounter, waiting, results>>

\* The notifier of the new connection sends a request, and the write fails: the
\* timer is started inside do_connect, which still returns zero, and deleted by
\* reconnect or first_time_connect.
ConnectThenLose(k) ==
    /\ timer # "none" /\ state = "disconnected"
    /\ k = txRequest + 1 /\ k \in Requests /\ ~waiting
    /\ breaks < MaxBreaks
    /\ breaks' = breaks + 1
    /\ txRequest' = k /\ txCounter' = 0 /\ waiting' = TRUE
    /\ timer' = "none" /\ unattended' = TRUE
    /\ UNCHANGED <<state, writeEvent, peerOpen, sockIn, sockOut, rxVars, torn, results>>

-----------------------------------------------------------------------------
\* Sending.

\* write_to_port: the socket takes all or some of the rest of request k (and is
\* asked for its write event then, if that is not pending anyway), or the
\* connection turns out to be lost.
WriteRest(k, from, pending) ==
    \/ /\ state = "connected" /\ from < RequestSize
       /\ \E w \in 1..(RequestSize - from) :
             /\ txCounter' = from + w
             /\ sockOut' = IF peerOpen THEN sockOut \o SubSeq(Request(k), from + 1, from + w)
                                       ELSE sockOut
             /\ writeEvent' = (pending \/ w < RequestSize - from)
       /\ UNCHANGED <<state, timer, unattended, peerOpen, sockIn, breaks, torn>>
    \/ /\ state = "connected" /\ from < RequestSize
       /\ ~peerOpen
       /\ txCounter' = from
       /\ LoseConnection
    \/ /\ state # "connected" \/ from = RequestSize
       /\ txCounter' = from
       /\ writeEvent' = pending
       /\ UNCHANGED <<state, timer, unattended, netVars, torn>>

\* sock_fd_write_cb: the write event is not persistent.
OnWritable ==
    /\ writeEvent
    /\ WriteRest(txRequest, IF txRequest = 0 THEN RequestSize ELSE txCounter, FALSE)
    /\ UNCHANGED <<rxVars, txRequest, waiting, results>>

\* emb_client_do_transaction and modbus_tcp_send_packet: the request gets the
\* next number and replaces what tx_buf held.  Without a connection it stays
\* there, and is sent by the write event of the next connection.
DoTransaction(k) ==
    /\ ~waiting /\ k = txRequest + 1 /\ k \in Requests
    /\ txRequest' = k
    /\ waiting' = TRUE
    /\ WriteRest(k, 0, writeEvent)
    /\ UNCHANGED <<rxVars, results>>

\* The layer above gives up (emb_client_wait_timeout).
WaitTimeout ==
    /\ waiting
    /\ waiting' = FALSE
    /\ results' = [results EXCEPT ![txRequest] = [kind |-> "timeout", of |-> 0]]
    /\ UNCHANGED <<sockVars, netVars, rxVars, torn, txRequest, txCounter>>

-----------------------------------------------------------------------------
\* Receiving.

Header(buf) == SubSeq(buf, 1, HeaderSize)
Aligned(buf) == \E k \in Requests : Header(buf) = SubSeq(Answer(k), 1, HeaderSize)

\* The sizes the header of buf may be read as.
SizesRead(buf) == IF Aligned(buf) THEN {AnswerSize[buf[1][1]]} ELSE GarbageSizes

\* Mutations of IdMatches: the number is not compared, or with the one before.
AnyId(buf) == Aligned(buf)
IdBefore(buf) == Aligned(buf) /\ Id(buf[1][1]) = Id(txRequest - 1)

IdMatches(buf) == Aligned(buf) /\ Id(buf[1][1]) = Id(txRequest)

\* What a whole frame is for the request that is waited for: an answer to another
\* is an error (wrong_transaction_id), and so is one too large for the PDU of this
\* one (buffer_ovf).
Verdict(buf, size) ==
    IF ~IdMatches(buf) THEN [kind |-> "error", of |-> 0]
    ELSE [kind |-> IF size > PduRoom[txRequest] THEN "overflow"
                   ELSE IF SubSeq(buf, 1, size) = Answer(buf[1][1]) THEN "answer" ELSE "mixed",
          of   |-> buf[1][1]]

\* Without a buffer posted nothing happens.
DeliverTo(buf, size) ==
    IF ~waiting THEN UNCHANGED <<waiting, results>>
    ELSE /\ waiting' = FALSE
         /\ results' = [results EXCEPT ![txRequest] = Verdict(buf, size)]

\* Mutations of ParsePacket: curr_rx_length is not reset first; what was received
\* is not subtracted; the buffer is not emptied when full.
ParsePacketNoReset(buf) ==
    \/ Len(buf) < HeaderSize /\ rxBuf' = buf /\ UNCHANGED <<rxLength, waiting, results, torn>>
    \/ /\ Len(buf) >= HeaderSize
       /\ \E size \in SizesRead(buf) :
             /\ rxLength' = size - Len(buf)
             /\ IF rxLength' > 0
                THEN /\ rxBuf' = IF Len(buf) = RxBufSize THEN <<>> ELSE buf
                     /\ UNCHANGED <<waiting, results, torn>>
                ELSE rxBuf' = <<>> /\ torn' = (torn \/ rxLength' < 0) /\ DeliverTo(buf, size)
ParsePacketWhole(buf) ==
    \/ Len(buf) < HeaderSize /\ rxLength' = -1 /\ rxBuf' = buf /\ UNCHANGED <<waiting, results, torn>>
    \/ /\ Len(buf) >= HeaderSize
       /\ \E size \in SizesRead(buf) :
             IF size > Len(buf)
             THEN /\ rxLength' = size
                  /\ rxBuf' = IF Len(buf) = RxBufSize THEN <<>> ELSE buf
                  /\ UNCHANGED <<waiting, results, torn>>
             ELSE /\ rxLength' = 0 /\ rxBuf' = <<>>
                  /\ torn' = (torn \/ size < Len(buf)) /\ DeliverTo(buf, size)
ParsePacketFull(buf) ==
    \/ Len(buf) < HeaderSize /\ rxLength' = -1 /\ rxBuf' = buf /\ UNCHANGED <<waiting, results, torn>>
    \/ /\ Len(buf) >= HeaderSize
       /\ \E size \in SizesRead(buf) :
             /\ rxLength' = size - Len(buf)
             /\ IF rxLength' > 0
                THEN rxBuf' = buf /\ UNCHANGED <<waiting, results, torn>>
                ELSE rxBuf' = <<>> /\ torn' = (torn \/ rxLength' < 0) /\ DeliverTo(buf, size)

\* parse_packet, and what emb_tcp_port_event does with its result: the buffer
\* is emptied by a whole frame, with all that was read after it, and when full.
ParsePacket(buf) ==
    \/ /\ Len(buf) < HeaderSize
       /\ rxLength' = -1 /\ rxBuf' = buf
       /\ UNCHANGED <<waiting, results, torn>>
    \/ /\ Len(buf) >= HeaderSize
       /\ \E size \in SizesRead(buf) :
             /\ rxLength' = size - Len(buf)
             /\ IF rxLength' > 0
                THEN /\ rxBuf' = IF Len(buf) = RxBufSize THEN <<>> ELSE buf
                     /\ UNCHANGED <<waiting, results, torn>>
                ELSE /\ rxBuf' = <<>>
                     /\ torn' = (torn \/ rxLength' < 0)
                     /\ DeliverTo(buf, size)

Room == RxBufSize - Len(rxBuf)
Readable == state = "connected" /\ (sockIn # <<>> \/ ~peerOpen)

\* How much is asked for: the rest of the frame when it is known.
ToBeRead == IF rxLength >= 0 THEN rxLength ELSE Room

\* The rest does not fit: what was received is forgotten, but not the length.
DiscardFrame ==
    /\ Readable /\ Room < rxLength
    /\ rxBuf' = <<>>
    /\ UNCHANGED <<sockVars, netVars, rxLength, torn, txRequest, txCounter, waiting, results>>

\* After a whole frame nothing is read: the event only resets the length.
SkipEvent ==
    /\ Readable /\ Room >= rxLength /\ ToBeRead = 0
    /\ ParsePacket(rxBuf)
    /\ UNCHANGED <<sockVars, netVars, txRequest, txCounter>>

ReadSome ==
    /\ Readable /\ Room >= rxLength /\ sockIn # <<>>
    /\ \E r \in 1..ToBeRead :
          /\ r <= Len(sockIn)
          /\ sockIn' = SubSeq(sockIn, r + 1, Len(sockIn))
          /\ ParsePacket(rxBuf \o SubSeq(sockIn, 1, r))
    /\ UNCHANGED <<sockVars, peerOpen, sockOut, breaks, txRequest, txCounter>>

\* tcp_client_read finds the end of the connection and returns zero, on which
\* parse_packet looks at rx_buf once more and finds what it found before, but
\* forgets the length when no header is there.
ReadEnd ==
    /\ Readable /\ Room >= rxLength /\ ToBeRead > 0 /\ sockIn = <<>>
    /\ LoseConnection
    /\ rxLength' = IF Len(rxBuf) < HeaderSize THEN -1 ELSE rxLength
    /\ UNCHANGED <<rxBuf, txRequest, txCounter, waiting, results>>

OnData == DiscardFrame \/ SkipEvent \/ ReadSome \/ ReadEnd

-----------------------------------------------------------------------------
\* The server and the network.
TakeRequest(k) ==
    /\ peerOpen
    /\ Len(sockOut) >= RequestSize /\ SubSeq(sockOut, 1, RequestSize) = Request(k)
    /\ sockOut' = SubSeq(sockOut, RequestSize + 1, Len(sockOut))

Serve(k) == /\ TakeRequest(k)
            /\ sockIn' = sockIn \o Answer(k)
            /\ UNCHANGED <<sockVars, peerOpen, breaks, rxVars, torn, txRequest, txCounter, waiting, results>>
Ignore(k) == /\ TakeRequest(k)
             /\ UNCHANGED <<sockVars, peerOpen, sockIn, breaks, rxVars, torn, txRequest, txCounter, waiting, results>>

\* The connection breaks; the last bytes of what was on its way are lost.
Break ==
    /\ peerOpen /\ breaks < MaxBreaks
    /\ breaks' = breaks + 1
    /\ peerOpen' = FALSE
    /\ \E n \in 0..Len(sockIn) : sockIn' = SubSeq(sockIn, 1, n)
    /\ sockOut' = <<>>
    /\ UNCHANGED <<sockVars, rxVars, torn, txRequest, txCounter, waiting, results>>

OnTimer == Connect \/ ConnectFails \/ \E k \in Requests : ConnectThenLose(k)

Next ==
    \/ OnTimer \/ OnWritable \/ OnData
    \/ \E k \in Requests : DoTransaction(k) \/ Serve(k) \/ Ignore(k)
    \/ WaitTimeout
    \/ Break

Spec == Init /\ [][Next]_vars

\* The event loop serves the read event, the write event and the timer; a
\* server that can be reached again and again is connected to in the end.
FairSpec == Spec /\ WF_vars(OnData) /\ WF_vars(OnWritable) /\ SF_vars(Connect)

-----------------------------------------------------------------------------
\* A request is given its own answer, and that whole, although rx_buf survives
\* a reconnection; or else one that bears the number of a request made a
\* multiple of 2^16 before it, which alone can be glued together from two
\* answers.
OwnAnswer ==
    \A k \in Requests : results[k].kind \in {"answer", "mixed"} =>
        /\ results[k].of <= k /\ Id(results[k].of) = Id(k)
        /\ results[k].kind = "mixed" => results[k].of # k

\* An answer with a wrong transaction number, or one too large for the PDU, is
\* reported as an error of the request that is waited for, so a request may fail
\* although the server answers it in time: but only after one that timed out, or
\* because its own answer, whole, is larger than the PDU posted for it.  Too
\* large for it is never but an answer that bears its number.
ErrorAfterTimeout ==
    \A k \in Requests :
        /\ \/ results[k].kind = "error"
           \/ results[k].kind = "overflow" /\ results[k].of # k
           => \E j \in 1..(k - 1) : results[j].kind = "timeout"
        /\ results[k].kind = "overflow" =>
              LET of == results[k].of
              IN  of \in 1..k /\ Id(of) = Id(k) /\ AnswerSize[of] > PduRoom[k]

\* The receiver asks for more than it has room for, and so reads nothing any
\* more, on this connection or the next, only after an answer was torn.
StuckOnlyIfTorn == rxLength > Room => torn

\* tcp.h:80 has an event for "a packet-timeout time have passed, after a last
\* data receive", by which "we are clean the rx buffer" (tcp.c:202).  This
\* adapter never raises it: a receiver that is stuck stays so.
NotStuckForever == rxLength > Room ~> rxLength <= Room

\* Until then whatever arrives is read, the event after a whole frame, which
\* reads nothing, included.
ArrivalsAreRead == [](~torn) => (sockIn # <<>> ~> sockIn = <<>>)

\* A lost connection has its timer pending, so that it will be tried again; the
\* one exception is a loss inside the notifier of the connection itself.
Retries == state = "disconnected" => timer # "none" \/ unattended

\* The invariant of the link: types, what was told, when the receiver can be
\* stuck, and the timer.
Inv == TypeOK /\ ErrorAfterTimeout /\ StuckOnlyIfTorn /\ Retries

\* And a connection that is lost is set up again.
Reconnects == state = "disconnected" ~> state = "connected" \/ unattended
=============================================================================
