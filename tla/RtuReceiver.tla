---------------------------- MODULE RtuReceiver ----------------------------
(***************************************************************************)
(* The receiving half of struct emb_rtu_t (emodbus/transport/rtu.c) on a   *)
(* serial port (implementations/posix/mb-rtu-via-serial.c).  Frames have   *)
(* no marks on the line: a frame ends when no character arrived for the    *)
(* time of the character timer, and what was collected by then is checked  *)
(* as a whole.                                                             *)
(*                                                                         *)
(* A byte is <<frame, position>>.  The checksum is taken to be perfect: it *)
(* is right for the whole bytes of one frame and for nothing else.         *)
(***************************************************************************)
EXTENDS Naturals, Sequences

CONSTANTS InSize,     \* sizes of the frames the other side sends, in order
          RxBufSize,  \* rx_buf_size
          MaxData,    \* values of rx_pdu->max_size
          NoPdu,      \* rx_pdu = NULL
          MaxNoise    \* bound: bytes lost or damaged on the line

ASSUME InSizesAssumption ==
    /\ InSize \in Seq(Nat) /\ \A k \in DOMAIN InSize : InSize[k] >= 4
    /\ RxBufSize \in Nat /\ MaxData \subseteq Nat /\ MaxNoise \in Nat
    /\ NoPdu \notin MaxData

VARIABLES
    line,       \* bytes in the port's input queue
    rxBuffer,   \* rx_buffer[0 .. rx_buf_counter - 1]
    charTimer,  \* is char_timeout_timer pending?
    rxPdu,      \* transport.rx_pdu: its max_size, or NoPdu
    heard,      \* bookkeeping: frames the other side has sent
    noise,      \* bookkeeping: bytes lost
    received,   \* bookkeeping: packets handed to recv_packet
    disturbed   \* bookkeeping: something happened that may cost a frame

rxVars == <<line, rxBuffer, charTimer, rxPdu, heard, noise, received, disturbed>>

InFrame(k) == [i \in 1..InSize[k] |-> <<k, i>>]
InByte == (1..Len(InSize)) \X (Nat \ {0})

RxTypeOK ==
    /\ line \in Seq(InByte)
    /\ rxBuffer \in Seq(InByte) /\ Len(rxBuffer) <= RxBufSize
    /\ charTimer \in BOOLEAN
    /\ rxPdu \in MaxData \cup {NoPdu}
    /\ heard \in 0..Len(InSize) /\ noise \in 0..MaxNoise
    /\ received \in Seq(Seq(InByte))
    /\ disturbed \in BOOLEAN

RxInit ==
    /\ line = <<>> /\ rxBuffer = <<>> /\ charTimer = FALSE
    /\ rxPdu \in MaxData \cup {NoPdu}
    /\ heard = 0 /\ noise = 0 /\ received = <<>> /\ disturbed = FALSE

-----------------------------------------------------------------------------
\* No frame is on its way.
Quiet == line = <<>> /\ rxBuffer = <<>> /\ ~charTimer

\* Somebody waits for frame k, and the buffers are large enough for it.
Wanted(k) == rxPdu # NoPdu /\ InSize[k] - 4 <= rxPdu /\ InSize[k] <= RxBufSize

\* The other side, and the line between.
PeerSends ==
    /\ heard < Len(InSize)
    /\ heard' = heard + 1
    /\ line' = line \o InFrame(heard + 1)
    /\ disturbed' = (disturbed \/ ~Quiet \/ ~Wanted(heard + 1))
    /\ UNCHANGED <<rxBuffer, charTimer, rxPdu, noise, received>>

LoseByte(i) ==
    /\ noise < MaxNoise /\ i \in DOMAIN line
    /\ noise' = noise + 1
    /\ line' = SubSeq(line, 1, i - 1) \o SubSeq(line, i + 1, Len(line))
    /\ disturbed' = TRUE
    /\ UNCHANGED <<rxBuffer, charTimer, rxPdu, heard, received>>

\* The layer above posts a buffer or takes it back.
Post(p) ==
    /\ p # rxPdu
    /\ rxPdu' = p
    /\ disturbed' = (disturbed \/ ~Quiet)
    /\ UNCHANGED <<line, rxBuffer, charTimer, heard, noise, received>>

Room == RxBufSize - Len(rxBuffer)

\* Mutations of DataReceived: no look at the room left; the timer is started only
\* when there is enough for a frame.
DataReceivedOverrun(r) ==
    /\ r \in 1..Len(line)
    /\ rxBuffer' = rxBuffer \o SubSeq(line, 1, r)
    /\ line' = SubSeq(line, r + 1, Len(line))
    /\ charTimer' = TRUE
    /\ UNCHANGED <<rxPdu, heard, noise, received, disturbed>>
DataReceivedNoTimer(r) ==
    /\ r \in 1..Len(line) /\ r <= Room
    /\ rxBuffer' = rxBuffer \o SubSeq(line, 1, r)
    /\ line' = SubSeq(line, r + 1, Len(line))
    /\ charTimer' = (Len(rxBuffer') >= 4)
    /\ UNCHANGED <<rxPdu, heard, noise, received, disturbed>>

\* emb_rtu_port_event, data received: r bytes are read, and each such event
\* starts the character timer anew.
DataReceived(r) ==
    /\ r \in 1..Len(line) /\ r <= Room
    /\ rxBuffer' = rxBuffer \o SubSeq(line, 1, r)
    /\ line' = SubSeq(line, r + 1, Len(line))
    /\ charTimer' = TRUE
    /\ UNCHANGED <<rxPdu, heard, noise, received, disturbed>>

\* The read fails, or is of size zero as no room is left, which counts as a
\* failure: the buffer is emptied, and a pending timer stays.
ReadFails ==
    /\ line # <<>>
    /\ rxBuffer' = <<>>
    /\ disturbed' = TRUE
    /\ UNCHANGED <<line, charTimer, rxPdu, heard, noise, received>>

\* emd_rtu_reset_rx.
ResetRx ==
    /\ rxBuffer # <<>>
    /\ rxBuffer' = <<>>
    /\ disturbed' = TRUE
    /\ UNCHANGED <<line, charTimer, rxPdu, heard, noise, received>>

\* Mutation of ChecksumGood: no checksum is compared.
AnyChecksum(buf) == TRUE

ChecksumGood(buf) == \E k \in 1..heard : buf = InFrame(k)

\* Mutation of Accepted: the two bytes of the checksum are counted as data.
AcceptedShort ==
    Len(rxBuffer) >= 4 /\ ChecksumGood(rxBuffer) /\ rxPdu # NoPdu /\ Len(rxBuffer) - 2 <= rxPdu

\* parse_packet hands the packet up.
Accepted == /\ Len(rxBuffer) >= 4
            /\ ChecksumGood(rxBuffer)
            /\ rxPdu # NoPdu
            /\ Len(rxBuffer) - 4 <= rxPdu

\* emb_rtu_on_char_timeout: whatever parse_packet found (a packet, a wrong
\* checksum, nobody waiting, a packet too long for the buffer posted), the
\* receive buffer is empty after it.
CharTimeout ==
    /\ charTimer
    /\ charTimer' = FALSE
    /\ disturbed' = (disturbed \/ line # <<>>)
    /\ received' = IF Accepted THEN Append(received, rxBuffer) ELSE received
    /\ rxBuffer' = <<>>
    /\ UNCHANGED <<line, rxPdu, heard, noise>>

RxNext ==
    \/ PeerSends
    \/ \E i \in DOMAIN line : LoseByte(i)
    \/ \E p \in MaxData \cup {NoPdu} : Post(p)
    \/ \E r \in 1..RxBufSize : DataReceived(r)
    \/ ReadFails
    \/ ResetRx
    \/ CharTimeout

RxSpec == RxInit /\ [][RxNext]_rxVars

-----------------------------------------------------------------------------
\* Whatever is lost on the line and wherever the pauses fall, a packet handed
\* up by parse_packet is one frame of the other side, whole and by itself, and
\* no frame is handed up twice or out of order.
Intact ==
    /\ \A i \in DOMAIN received : \E k \in 1..heard : received[i] = InFrame(k)
    /\ \A i, j \in DOMAIN received : i < j => received[i][1][1] < received[j][1][1]

\* Nothing is left lying in rx_buffer to be glued to the next frame: as long as
\* it holds something, the timer that will empty it is pending.
BufferIsTimed == rxBuffer # <<>> => charTimer

\* The invariant of the receiver: types, within the bounds of rx_buffer, and
\* nothing left lying there.
RxInv == RxTypeOK /\ BufferIsTimed

\* Nothing is lost without a reason.  As long as every frame comes alone and
\* without a pause in it, no byte is lost, no read fails and a buffer that is
\* large enough waits for it, every frame is handed up, one of just the size of
\* rx_buffer or of rx_pdu included.
AllReceived == Quiet /\ ~disturbed => received = [k \in 1..heard |-> InFrame(k)]
=============================================================================
