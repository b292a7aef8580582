----------------------------- MODULE RtuSender -----------------------------
(***************************************************************************)
(* The sending half of struct emb_rtu_t (emodbus/transport/rtu.c) on a     *)
(* serial port (implementations/posix/mb-rtu-via-serial.c and              *)
(* serial-port.c).  A frame goes out in as many pieces as the port takes:  *)
(* the first one from modbus_rtu_send_packet, the rest from the port's     *)
(* write event.  The event loop may run in another thread than the caller  *)
(* of send_packet (examples/client.c does that).                           *)
(*                                                                         *)
(* A byte is <<frame, position>>.                                          *)
(***************************************************************************)
EXTENDS Naturals, Sequences

CONSTANTS OutSize,    \* sizes of the frames given to send_packet, in order
          TxBufSize   \* tx_buf_size

ASSUME SizesAssumption ==
    /\ OutSize \in Seq(Nat) /\ \A k \in DOMAIN OutSize : OutSize[k] >= 4
    /\ TxBufSize \in Nat

VARIABLES
    txFrame,    \* the frame in tx_buffer, 0 for none
    txSize,     \* tx_pkt_size
    txCounter,  \* tx_buf_counter
    writeEvent, \* is the port's (persistent) write event pending?
    stopping,   \* serial_port_write was called for zero bytes, before event_del
    out,        \* bytes the port took
    sent,       \* bookkeeping: frames given to send_packet
    cut,        \* bookkeeping: frames refused, overwritten or broken off
    stranded    \* bookkeeping: the frame whose write event a stop took away

vars == <<txFrame, txSize, txCounter, writeEvent, stopping, out, sent, cut, stranded>>

OutFrame(k) == [i \in 1..OutSize[k] |-> <<k, i>>]
Byte == (1..Len(OutSize)) \X (Nat \ {0})
TxPending == txCounter < txSize

TypeOK ==
    /\ txFrame \in 0..Len(OutSize) /\ sent \in 0..Len(OutSize) /\ stranded \in 0..Len(OutSize)
    /\ txSize \in 0..TxBufSize /\ txCounter \in 0..txSize
    /\ writeEvent \in BOOLEAN /\ stopping \in BOOLEAN
    /\ out \in Seq(Byte)
    /\ cut \subseteq 1..Len(OutSize)

Init ==
    /\ txFrame = 0 /\ txSize = 0 /\ txCounter = 0
    /\ writeEvent = FALSE /\ stopping = FALSE /\ out = <<>>
    /\ sent = 0 /\ cut = {} /\ stranded = 0

-----------------------------------------------------------------------------
\* The port takes w bytes of frame f, from the given place on.
PortTakes(f, from, w) == out' = out \o SubSeq(OutFrame(f), from + 1, from + w)

\* The frame that a new one in tx_buffer breaks off.
Overwritten == IF TxPending THEN {txFrame} ELSE {}

\* Mutations of LoadFrame: the counter is left where the frame before it ended;
\* the write event is asked for only when the port took everything.
LoadFrameKeepsCounter(k) ==
    /\ txSize' = OutSize[k]
    /\ \E w \in 1..OutSize[k] : PortTakes(k, 0, w) /\ txCounter' = txCounter + w
    /\ writeEvent' = TRUE
    /\ cut' = cut \cup Overwritten
LoadFrameEventLate(k) ==
    /\ txSize' = OutSize[k]
    /\ \E w \in 1..OutSize[k] :
          PortTakes(k, 0, w) /\ txCounter' = w /\ writeEvent' = (w = OutSize[k])
    /\ cut' = cut \cup Overwritten

\* modbus_rtu_send_packet: the frame replaces what tx_buffer held, sent or not,
\* and the port is offered it at once.
LoadFrame(k) ==
    /\ txSize' = OutSize[k]
    /\ \E w \in 1..OutSize[k] : PortTakes(k, 0, w) /\ txCounter' = w
    /\ writeEvent' = TRUE
    /\ cut' = cut \cup Overwritten

\* The same when the write fails (write() on a descriptor opened with O_NDELAY
\* returns -1, never 0, when the queue is full): the frame is dropped.
LoadFrameFails(k) ==
    /\ txSize' = 0 /\ txCounter' = 0
    /\ cut' = cut \cup Overwritten \cup {k}
    /\ UNCHANGED <<writeEvent, out>>

Fits(k) == k = sent + 1 /\ k \in DOMAIN OutSize /\ OutSize[k] <= TxBufSize

SendPacket(k) ==
    /\ Fits(k)
    /\ sent' = k /\ txFrame' = k
    /\ LoadFrame(k) \/ LoadFrameFails(k)
    /\ UNCHANGED <<stopping, stranded>>

\* A frame that does not fit is refused with modbus_buffer_overflow, and what
\* tx_buffer held stays.
RefusePacket(k) ==
    /\ k = sent + 1 /\ k \in DOMAIN OutSize /\ OutSize[k] > TxBufSize
    /\ sent' = k
    /\ cut' = cut \cup {k}
    /\ UNCHANGED <<txFrame, txSize, txCounter, writeEvent, stopping, out, stranded>>

\* emb_rtu_send_packet_sync (for callers in the thread of the event loop):
\* writes until the counter has reached the size, w bytes in all.  It has too
\* when a write failed, as that sets both to zero.
SendPacketSync(k, w) ==
    /\ Fits(k) /\ ~stopping
    /\ w \in 0..OutSize[k]
    /\ sent' = k /\ txFrame' = k
    /\ PortTakes(k, 0, w)
    /\ \/ w = OutSize[k] /\ txSize' = w /\ txCounter' = w /\ cut' = cut \cup Overwritten
       \/ w < OutSize[k] /\ txSize' = 0 /\ txCounter' = 0 /\ cut' = cut \cup Overwritten \cup {k}
    /\ writeEvent' = (writeEvent \/ w > 0)
    /\ UNCHANGED <<stopping, stranded>>

\* emd_rtu_reset_tx: what tx_buffer holds is dropped.
ResetTx ==
    /\ TxPending
    /\ txSize' = 0 /\ txCounter' = 0
    /\ cut' = cut \cup {txFrame}
    /\ UNCHANGED <<txFrame, writeEvent, stopping, out, sent, stranded>>

-----------------------------------------------------------------------------
\* emb_rtu_port_event, transmit buffer empty, in the event loop.
OnWriteEvent == writeEvent /\ ~stopping

\* Mutation of WriteMore: what the port took is counted only at the end.
WriteMoreUncounted(w) ==
    /\ OnWriteEvent /\ TxPending
    /\ w \in 1..(txSize - txCounter)
    /\ PortTakes(txFrame, txCounter, w)
    /\ txCounter' = IF txCounter + w = txSize THEN txSize ELSE txCounter
    /\ UNCHANGED <<txFrame, txSize, writeEvent, stopping, sent, cut, stranded>>

\* The port takes more of the frame...
WriteMore(w) ==
    /\ OnWriteEvent /\ TxPending
    /\ w \in 1..(txSize - txCounter)
    /\ PortTakes(txFrame, txCounter, w)
    /\ txCounter' = txCounter + w
    /\ UNCHANGED <<txFrame, txSize, writeEvent, stopping, sent, cut, stranded>>

\* ... or fails, and the rest is dropped.
WriteFails ==
    /\ OnWriteEvent /\ TxPending
    /\ txSize' = 0 /\ txCounter' = 0
    /\ cut' = cut \cup {txFrame}
    /\ UNCHANGED <<txFrame, writeEvent, stopping, out, sent, stranded>>

\* With nothing left serial_port_write is called for zero bytes, and deletes the
\* write event.  Between the two another thread may load a frame.
WriteDone ==
    /\ OnWriteEvent /\ ~TxPending
    /\ stopping' = TRUE
    /\ UNCHANGED <<txFrame, txSize, txCounter, writeEvent, out, sent, cut, stranded>>

StopEvent ==
    /\ stopping
    /\ stopping' = FALSE
    /\ writeEvent' = FALSE
    /\ stranded' = IF TxPending THEN txFrame ELSE stranded
    /\ UNCHANGED <<txFrame, txSize, txCounter, out, sent, cut>>

WriteEvent == (\E w \in 1..TxBufSize : WriteMore(w)) \/ WriteFails \/ WriteDone \/ StopEvent

Next ==
    \/ \E k \in 1..Len(OutSize) : SendPacket(k) \/ RefusePacket(k)
    \/ \E k \in 1..Len(OutSize), w \in 0..TxBufSize : SendPacketSync(k, w)
    \/ ResetTx
    \/ WriteEvent

Spec == Init /\ [][Next]_vars

\* The event loop serves the write event while it is pending.
FairSpec == Spec /\ WF_vars(WriteEvent)

-----------------------------------------------------------------------------
\* What is left of a frame has its write event pending, and nothing else would
\* ever send it.  The one exception: a frame loaded by another thread between
\* the last, empty write and event_del is left behind without its event.
RestIsScheduled == TxPending => writeEvent \/ stranded = txFrame

\* On the line, the frame in tx_buffer has come just as far as tx_buf_counter
\* says: no byte is left out or sent twice where two writes meet.
OnLine(s, n) == SubSeq(s, Len(s) - n + 1, Len(s))
CounterIsTruth ==
    txSize > 0 => OnLine(out, txCounter) = SubSeq(OutFrame(txFrame), 1, txCounter)

\* The invariant of the sender: types, a counter that is true, and a rest that is
\* not forgotten.
Inv == TypeOK /\ CounterIsTruth /\ RestIsScheduled

\* A frame that was not refused, overwritten, broken off or reset, and is not
\* being sent, went out whole and in one stretch.
WholeFrames ==
    \A k \in 1..sent : (k \notin cut /\ ~(k = txFrame /\ TxPending)) =>
        \E i \in 0..Len(out) :
            /\ i + OutSize[k] <= Len(out)
            /\ SubSeq(out, i + 1, i + OutSize[k]) = OutFrame(k)

\* Every frame leaves tx_buffer, but for one that is stranded.
SendingEnds == TxPending ~> (~TxPending \/ stranded = txFrame)
=============================================================================
