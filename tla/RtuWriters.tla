----------------------------- MODULE RtuWriters -----------------------------
(***************************************************************************)
(* emb_rtu_port_event when it sends (emodbus/transport/rtu.c), statement   *)
(* by statement, in the two threads it runs in: that of the caller of      *)
(* send_packet and that of the event loop, which examples/client.c has     *)
(* apart.  They share tx_buffer, tx_pkt_size and tx_buf_counter without a  *)
(* lock; libevent locks the write event.  RtuSender has each of these      *)
(* handlers in one step.                                                   *)
(*                                                                         *)
(* Loads and stores are single and in the order of the program; write()    *)
(* takes its bytes at one moment.  A byte is <<frame, position>>.  Frames  *)
(* that do not fit tx_buffer are not given (RtuSender refuses them).       *)
(***************************************************************************)
EXTENDS Integers, Sequences

CONSTANTS OutSize,   \* sizes of the frames given to send_packet, in order
          TxBufSize, \* tx_buf_size
          MaxOut     \* bound: the bytes that the port takes

ASSUME SizesAssumption ==
    /\ OutSize \in Seq(Nat) /\ TxBufSize \in Nat /\ MaxOut \in Nat
    /\ \A k \in DOMAIN OutSize : OutSize[k] \in 1..TxBufSize

VARIABLES
    txBuffer,   \* tx_buffer
    txSize,     \* tx_pkt_size
    txCounter,  \* tx_buf_counter
    writeEvent, \* is the port's (persistent) write event pending?
    out,        \* bytes the port took
    sent,       \* frames given to send_packet so far
    filled,     \* bytes of the last one that are in tx_buffer
    pc,         \* where each thread is
    local,      \* what each thread has read: size, from (the counter, for the pointer),
                \* less (the counter again, for the size), res, count
    failed,     \* bookkeeping: frames whose write failed
    hasty,      \* bookkeeping: frames given while the write event was pending, or
                \* the event loop was still in its handler
    view        \* bookkeeping: the state when a handler returned last, up to the
                \* first hasty frame

shared == <<txBuffer, txSize, txCounter, writeEvent, out>>
caller == <<sent, filled, hasty>>
vars == <<shared, caller, pc, local, failed, view>>

Thread == {"caller", "loop"}
Place == {"idle", "fill", "size", "reset",
          "args", "write", "load", "store", "add", "del", "drop size", "drop counter"}
OutFrame(k) == [i \in 1..OutSize[k] |-> <<k, i>>]
Byte == (1..Len(OutSize)) \X (1..TxBufSize)
Memory == <<0, 0>>  \* a byte that is no frame's
Unread == -1        \* what a thread has not read yet
Local == [size : {Unread} \cup 0..TxBufSize, from : {Unread} \cup 0..MaxOut,
          less : {Unread} \cup 0..MaxOut, res : 0..MaxOut, count : {Unread} \cup 0..MaxOut]

TypeOK ==
    /\ txBuffer \in [1..TxBufSize -> Byte \cup {Memory}]
    /\ txSize \in 0..TxBufSize /\ txCounter \in 0..MaxOut
    /\ writeEvent \in BOOLEAN
    /\ out \in Seq(Byte \cup {Memory}) /\ Len(out) <= MaxOut
    /\ sent \in 0..Len(OutSize) /\ filled \in 0..TxBufSize
    /\ pc \in [Thread -> Place]
    /\ local \in [Thread -> Local]
    /\ failed \subseteq 1..sent /\ hasty \subseteq 1..sent

Fresh == [size |-> Unread, from |-> Unread, less |-> Unread, res |-> 0, count |-> Unread]
Seen == [frame |-> sent, size |-> txSize, counter |-> txCounter, event |-> writeEvent,
         out |-> out, cut |-> failed]

Init ==
    /\ txBuffer = [i \in 1..TxBufSize |-> Memory]
    /\ txSize = 0 /\ txCounter = 0 /\ writeEvent = FALSE /\ out = <<>>
    /\ sent = 0 /\ filled = 0
    /\ pc = [t \in Thread |-> "idle"] /\ local = [t \in Thread |-> Fresh]
    /\ failed = {} /\ hasty = {}
    /\ view = Seen

At(t, here) == pc[t] = here
Goto(t, there) == pc' = [pc EXCEPT ![t] = there] /\ UNCHANGED view
Return(t) == /\ pc' = [pc EXCEPT ![t] = "idle"]
             /\ local' = [local EXCEPT ![t] = Fresh]
             /\ view' = IF hasty' = {} THEN Seen' ELSE view

-----------------------------------------------------------------------------
\* modbus_rtu_send_packet: the bytes of the frame, its size, the counter.
SendPacket ==
    /\ At("caller", "idle") /\ sent < Len(OutSize)
    /\ sent' = sent + 1 /\ filled' = 0
    /\ hasty' = IF writeEvent \/ ~At("loop", "idle") THEN hasty \cup {sent'} ELSE hasty
    /\ Goto("caller", "fill")
    /\ UNCHANGED <<shared, local, failed>>

Fill ==
    /\ At("caller", "fill")
    /\ filled' = filled + 1
    /\ txBuffer' = [txBuffer EXCEPT ![filled'] = <<sent, filled'>>]
    /\ Goto("caller", IF filled' = OutSize[sent] THEN "size" ELSE "fill")
    /\ UNCHANGED <<txSize, txCounter, writeEvent, out, sent, hasty, local, failed>>

SetSize ==
    /\ At("caller", "size")
    /\ txSize' = OutSize[sent]
    /\ Goto("caller", "reset")
    /\ UNCHANGED <<txBuffer, txCounter, writeEvent, out, caller, local, failed>>

\* Mutation of ResetCounter: the counter is left where the last frame ended.
ResetCounterForgotten ==
    /\ At("caller", "reset")
    /\ Goto("caller", "args")
    /\ UNCHANGED <<shared, caller, local, failed>>

ResetCounter ==
    /\ At("caller", "reset")
    /\ txCounter' = 0
    /\ Goto("caller", "args")
    /\ UNCHANGED <<txBuffer, txSize, writeEvent, out, caller, local, failed>>

\* The event loop runs the callback of the write event.
OnWriteEvent ==
    /\ At("loop", "idle") /\ writeEvent
    /\ Goto("loop", "args")
    /\ UNCHANGED <<shared, caller, local, failed>>

-----------------------------------------------------------------------------
\* emb_rtu_port_event, transmit buffer empty.  The arguments of write_to_port
\* are `tx_buffer + tx_buf_counter' and `tx_pkt_size - tx_buf_counter': three
\* loads, in an order that C leaves open.  (A load again of what has changed is
\* that load later.)
Ready(l) == l.size # Unread /\ l.from # Unread /\ l.less # Unread
Offered(l) == l.size - l.less
Loads(l) == {[l EXCEPT !.size = txSize], [l EXCEPT !.from = txCounter],
             [l EXCEPT !.less = txCounter]}

ReadArgs(t) ==
    /\ At(t, "args")
    /\ \E l \in Loads(local[t]) :
          /\ l # local[t]
          /\ local' = [local EXCEPT ![t] = l]
          /\ IF Ready(l) THEN Goto(t, IF Offered(l) = 0 THEN "del" ELSE "write")
                         ELSE Goto(t, "args")
    /\ UNCHANGED <<shared, caller, failed>>

\* serial_port_write with nothing to write: event_del, which waits for a callback
\* that runs in the other thread.
Delete(t) ==
    /\ At(t, "del") /\ (t = "caller" => At("loop", "idle"))
    /\ writeEvent' = FALSE
    /\ UNCHANGED <<txBuffer, txSize, txCounter, out, caller, failed>>
    /\ Return(t)

\* A byte that write() reads: one of tx_buffer, or of the memory behind it.
ByteAt(p) == IF p \in 1..TxBufSize THEN txBuffer[p] ELSE Memory

\* Mutation of Write: tx_buf_counter is not added to tx_buffer.
WriteFromStart(t) ==
    /\ At(t, "write")
    /\ LET l == local[t] IN
       \E w \in 1..MaxOut :
          /\ Len(out) + w <= MaxOut /\ (Offered(l) > 0 => w <= Offered(l))
          /\ out' = out \o [i \in 1..w |-> ByteAt(i)]
          /\ local' = [local EXCEPT ![t].res = w]
    /\ Goto(t, "load")
    /\ UNCHANGED <<txBuffer, txSize, txCounter, writeEvent, caller, failed>>

\* write() takes some of what it is offered.  (A difference below zero is a very
\* large one in 32 bits.)
Write(t) ==
    /\ At(t, "write")
    /\ LET l == local[t] IN
       \E w \in 1..MaxOut :
          /\ Len(out) + w <= MaxOut /\ (Offered(l) > 0 => w <= Offered(l))
          /\ out' = out \o [i \in 1..w |-> ByteAt(l.from + i)]
          /\ local' = [local EXCEPT ![t].res = w]
    /\ Goto(t, "load")
    /\ UNCHANGED <<txBuffer, txSize, txCounter, writeEvent, caller, failed>>

\* `*_wrote += res' is a load and a store.
LoadCounter(t) ==
    /\ At(t, "load")
    /\ local' = [local EXCEPT ![t] = [Fresh EXCEPT !.res = local[t].res, !.count = txCounter]]
    /\ Goto(t, "store")
    /\ UNCHANGED <<shared, caller, failed>>

StoreCounter(t) ==
    /\ At(t, "store")
    /\ txCounter' = local[t].count + local[t].res
    /\ Goto(t, "add")
    /\ UNCHANGED <<txBuffer, txSize, writeEvent, out, caller, local, failed>>

\* Mutation of AddEvent: only when all was taken.
AddEventAtEnd(t) ==
    /\ At(t, "add")
    /\ writeEvent' = (writeEvent \/ txCounter = txSize)
    /\ UNCHANGED <<txBuffer, txSize, txCounter, out, caller, failed>>
    /\ Return(t)

AddEvent(t) ==
    /\ At(t, "add")
    /\ writeEvent' = TRUE
    /\ UNCHANGED <<txBuffer, txSize, txCounter, out, caller, failed>>
    /\ Return(t)

\* write() fails: `tx_buf_counter = tx_pkt_size = 0'.
WriteFails(t) ==
    /\ At(t, "write")
    /\ failed' = failed \cup {sent}
    /\ Goto(t, "drop size")
    /\ UNCHANGED <<shared, caller, local>>
DropSize(t) ==
    /\ At(t, "drop size")
    /\ txSize' = 0
    /\ Goto(t, "drop counter")
    /\ UNCHANGED <<txBuffer, txCounter, writeEvent, out, caller, local, failed>>
DropCounter(t) ==
    /\ At(t, "drop counter")
    /\ txCounter' = 0
    /\ UNCHANGED <<txBuffer, txSize, writeEvent, out, caller, failed>>
    /\ Return(t)

PortEvent(t) ==
    \/ ReadArgs(t) \/ Delete(t)
    \/ Write(t) \/ LoadCounter(t) \/ StoreCounter(t) \/ AddEvent(t)
    \/ WriteFails(t) \/ DropSize(t) \/ DropCounter(t)

Next ==
    \/ SendPacket \/ Fill \/ SetSize \/ ResetCounter
    \/ OnWriteEvent
    \/ \E t \in Thread : PortEvent(t)

Spec == Init /\ [][Next]_vars

-----------------------------------------------------------------------------
Idle == \A t \in Thread : At(t, "idle")

\* What the port is offered is the rest of the frame that was given last, and
\* what is left of it when both threads have returned has its write event.  The
\* exception is a frame that was given too early, while the write event of the
\* one before was pending or its last handler was running.
RestIsOffered ==
    sent \notin hasty =>
        /\ \A t \in Thread : At(t, "write") =>
              LET l == local[t] IN
              /\ l.size = OutSize[sent] /\ l.from = l.less /\ l.from < l.size
              /\ \A i \in (l.from + 1)..l.size : txBuffer[i] = <<sent, i>>
        /\ Idle /\ txCounter # txSize => txCounter < txSize /\ writeEvent

\* The invariant of the two threads: types, and what the port is offered.
Inv == TypeOK /\ RestIsOffered

\* Two writes that meet spoil two frames: one that was not given too early, nor
\* the one after it, goes out whole and in one stretch, whatever the threads did
\* to the frames before it, and no byte of it goes out before.  One that lies
\* behind the frame after it, which is shorter, may go out again, but only since
\* a later frame was given too early.
Finished(k) == k < sent \/ (k = sent /\ Idle /\ ~writeEvent)
Again(k, p) == (\E h \in hasty : h > k + 1) /\ p > OutSize[k + 1]
WholeAndOnce(k) ==
    \E i \in 0..(Len(out) - OutSize[k]) :
        /\ SubSeq(out, i + 1, i + OutSize[k]) = OutFrame(k)
        /\ \A j \in DOMAIN out : out[j][1] = k =>
              \/ j \in (i + 1)..(i + OutSize[k])
              \/ j > i + OutSize[k] /\ Again(k, out[j][2])
DamageIsConfined ==
    \A k \in 1..sent :
        Finished(k) /\ {k, k + 1} \cap hasty = {} /\ k \notin failed => WholeAndOnce(k)

\* As long as no frame is given too early the two threads do what RtuSender does
\* with each handler in one step.
Sender == INSTANCE RtuSender WITH
    txFrame    <- view.frame,
    txSize     <- view.size,
    txCounter  <- view.counter,
    writeEvent <- view.event,
    stopping   <- At("loop", "del"),
    out        <- view.out,
    sent       <- view.frame,
    cut        <- view.cut,
    stranded   <- 0
HandlersAreAtomic == Sender!Init /\ [][hasty' # {} \/ Sender!Next]_(Sender!vars)
=============================================================================
