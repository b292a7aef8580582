------------------------------ MODULE RtuProofs ------------------------------
(***************************************************************************)
(* Theorems about the two halves of struct emb_rtu_t, RtuSender and        *)
(* RtuReceiver, for any frames, buffers and losses.                        *)
(*                                                                         *)
(* The sender: what the port took last is the part of the frame in         *)
(* tx_buffer that tx_buf_counter says.                                     *)
(*                                                                         *)
(* The receiver: that frames are handed up whole is the checksum's doing;  *)
(* that they are handed up once and in order is seen from where their      *)
(* bytes are: what is on the line was sent after what is in the buffer,    *)
(* and that after all that was handed up.  That none is lost without a     *)
(* reason is seen from one frame at most being on its way.                 *)
(***************************************************************************)
EXTENDS RtuSender, RtuReceiver, SequenceTheorems, TLAPS

(***************************************************************************)
(* The sender.                                                             *)
(***************************************************************************)
\* tx_buffer holds a whole frame of tx_pkt_size bytes.
FrameLoaded == txSize > 0 => txFrame \in DOMAIN OutSize /\ txSize = OutSize[txFrame]

\* The last bytes the port took are the first ones of that frame.
LastBytes ==
    txSize > 0 =>
        /\ txCounter <= Len(out)
        /\ \A i \in 1..txCounter : out[Len(out) - txCounter + i] = <<txFrame, i>>

IInv == TypeOK /\ FrameLoaded /\ LastBytes /\ RestIsScheduled

\* The number of a frame is one of those given to send_packet, and its size is one.
LEMMA Frames ==
    ASSUME NEW k \in 1..Len(OutSize)
    PROVE  k \in DOMAIN OutSize /\ OutSize[k] \in Nat /\ OutSize[k] >= 4
BY SizesAssumption DEF SizesAssumption

\* What the port takes is a stretch of the frame.
LEMMA Piece ==
    ASSUME NEW f \in 1..Len(OutSize), NEW from \in Nat, NEW w \in Nat, from + w <= OutSize[f]
    PROVE  /\ SubSeq(OutFrame(f), from + 1, from + w) \in Seq(Byte)
           /\ Len(SubSeq(OutFrame(f), from + 1, from + w)) = w
           /\ \A i \in 1..w : SubSeq(OutFrame(f), from + 1, from + w)[i] = <<f, from + i>>
<1>1. OutSize[f] \in Nat BY Frames
<1>2. ASSUME NEW i \in (from + 1)..(from + w)
      PROVE  OutFrame(f)[i] \in Byte /\ OutFrame(f)[i] = <<f, i>>
  <2>1. i \in 1..OutSize[f] /\ i \in Nat \ {0} BY <1>1
  <2>2. OutFrame(f)[i] = <<f, i>> BY <2>1 DEF OutFrame
  <2>3. <<f, i>> \in Byte BY <2>1 DEF Byte
  <2> QED BY <2>2, <2>3
<1>3. from + 1 \in Int /\ from + w \in Int OBVIOUS
<1> DEFINE piece == SubSeq(OutFrame(f), from + 1, from + w)
<1>4. /\ piece \in Seq(Byte)
      /\ Len(piece) = IF from + 1 <= from + w THEN (from + w) - (from + 1) + 1 ELSE 0
      /\ \A i \in 1..((from + w) - (from + 1) + 1) : piece[i] = OutFrame(f)[(from + 1) + i - 1]
  BY <1>2, <1>3, SubSeqProperties
<1> HIDE DEF piece
<1>5. Len(piece) = w BY <1>4
<1>6. ASSUME NEW i \in 1..w PROVE piece[i] = <<f, from + i>>
  <2>1. from + i \in (from + 1)..(from + w) /\ (from + 1) + i - 1 = from + i
        /\ i \in 1..((from + w) - (from + 1) + 1)
    OBVIOUS
  <2> QED BY <1>2, <1>4, <2>1
<1> QED BY <1>4, <1>5, <1>6 DEF piece

\* After it, the port has taken that much more.
LEMMA Taken ==
    ASSUME NEW f \in 1..Len(OutSize), NEW from \in Nat, NEW w \in Nat, from + w <= OutSize[f],
           out \in Seq(Byte), PortTakes(f, from, w)
    PROVE  /\ out' \in Seq(Byte)
           /\ Len(out') = Len(out) + w
           /\ \A i \in 1..Len(out) : out'[i] = out[i]
           /\ \A i \in 1..w : out'[Len(out) + i] = <<f, from + i>>
<1> DEFINE piece == SubSeq(OutFrame(f), from + 1, from + w)
<1>1. /\ piece \in Seq(Byte) /\ Len(piece) = w
      /\ \A i \in 1..w : piece[i] = <<f, from + i>>
  BY Piece
<1>2. out' = out \o piece BY DEF PortTakes
<1> HIDE DEF piece
<1>3. /\ out \o piece \in Seq(Byte) /\ Len(out \o piece) = Len(out) + Len(piece)
      /\ \A i \in 1..(Len(out) + Len(piece)) :
             (out \o piece)[i] = IF i <= Len(out) THEN out[i] ELSE piece[i - Len(out)]
  BY <1>1, ConcatProperties, Zenon
<1>4. Len(out) \in Nat BY LenProperties
<1> HIDE DEF Byte, PortTakes
<1> QED BY <1>1, <1>2, <1>3, <1>4

\* tx_buffer is loaded anew and w bytes of it are taken.
LEMMA Loaded ==
    ASSUME NEW k \in 1..Len(OutSize), NEW w \in 0..OutSize[k], out \in Seq(Byte),
           PortTakes(k, 0, w), txFrame' = k, txSize' = OutSize[k], txCounter' = w
    PROVE  FrameLoaded' /\ LastBytes'
<1>1. /\ Len(out') = Len(out) + w /\ Len(out) \in Nat /\ OutSize[k] \in Nat
      /\ \A i \in 1..w : out'[Len(out) + i] = <<k, i>>
  <2>1. OutSize[k] \in Nat /\ 0 \in Nat /\ w \in Nat /\ 0 + w <= OutSize[k] BY Frames
  <2>2. Len(out') = Len(out) + w /\ \A i \in 1..w : out'[Len(out) + i] = <<k, 0 + i>>
    BY <2>1, Taken
  <2>3. Len(out) \in Nat BY LenProperties
  <2>4. ASSUME NEW i \in 1..w PROVE out'[Len(out) + i] = <<k, i>>
    <3>1. 0 + i = i OBVIOUS
    <3> QED BY <2>2, <3>1
  <2> QED BY <2>1, <2>2, <2>3, <2>4
<1>2. FrameLoaded' BY Frames DEF FrameLoaded
<1>3. LastBytes'
  <2>1. w <= Len(out') /\ Len(out') - w = Len(out) BY <1>1
  <2> QED BY <1>1, <2>1 DEF LastBytes
<1> QED BY <1>2, <1>3

\* In the beginning nothing was sent.
LEMMA InitIInv == Init => IInv
<1> SUFFICES ASSUME Init PROVE IInv OBVIOUS
<1>1. Len(OutSize) \in Nat /\ TxBufSize \in Nat
  BY SizesAssumption, LenProperties DEF SizesAssumption
<1>2. out \in Seq(Byte) BY EmptySeq DEF Init
<1>3. /\ txFrame \in 0..Len(OutSize) /\ sent \in 0..Len(OutSize) /\ stranded \in 0..Len(OutSize)
      /\ txSize \in 0..TxBufSize /\ txCounter \in 0..txSize
  BY <1>1 DEF Init
<1>4. /\ writeEvent \in BOOLEAN /\ stopping \in BOOLEAN
      /\ cut \subseteq 1..Len(OutSize)
  BY Zenon DEF Init
<1>5. FrameLoaded /\ LastBytes /\ RestIsScheduled
  BY DEF Init, FrameLoaded, LastBytes, RestIsScheduled, TxPending
<1> QED BY <1>2, <1>3, <1>4, <1>5 DEF IInv, TypeOK

\* Nothing is left to be sent and no frame is in tx_buffer.
LEMMA Emptied ==
    ASSUME IInv, txSize' = 0, txCounter' = 0
    PROVE  (txSize \in 0..TxBufSize)' /\ (txCounter \in 0..txSize)'
           /\ FrameLoaded' /\ LastBytes' /\ RestIsScheduled'
BY SizesAssumption DEF IInv, FrameLoaded, LastBytes, RestIsScheduled, TxPending, SizesAssumption

\* A frame broken off is one of those given to send_packet.
LEMMA OverwrittenType == ASSUME TypeOK, FrameLoaded PROVE Overwritten \subseteq 1..Len(OutSize)
BY SizesAssumption DEF TypeOK, FrameLoaded, Overwritten, TxPending, SizesAssumption

\* Steps that leave tx_buffer and the line alone.
LEMMA BufferUntouched ==
    ASSUME IInv, txFrame' = txFrame, txSize' = txSize, txCounter' = txCounter, out' = out
    PROVE  /\ FrameLoaded' /\ LastBytes'
           /\ (txFrame \in 0..Len(OutSize) /\ txSize \in 0..TxBufSize)'
           /\ (txCounter \in 0..txSize /\ out \in Seq(Byte))'
<1>1. FrameLoaded' BY DEF IInv, FrameLoaded
<1>2. LastBytes' BY DEF IInv, LastBytes
<1> QED BY <1>1, <1>2 DEF IInv, TypeOK

\* Every step keeps the invariant.
LEMMA NextIInv == IInv /\ [Next]_vars => IInv'
<1> SUFFICES ASSUME IInv, [Next]_vars PROVE IInv' OBVIOUS
<1> USE DEF IInv
<1>1. ASSUME NEW k \in 1..Len(OutSize), SendPacket(k) PROVE IInv'
  <2>1. k \in DOMAIN OutSize /\ OutSize[k] \in Nat /\ OutSize[k] >= 4 /\ OutSize[k] <= TxBufSize
    BY <1>1, Frames DEF SendPacket, Fits
  <2>2. Overwritten \subseteq 1..Len(OutSize) BY OverwrittenType
  <2>3. CASE LoadFrame(k)
    <3>1. PICK w \in 1..OutSize[k] : PortTakes(k, 0, w) /\ txCounter' = w
      BY <2>3 DEF LoadFrame
    <3>2. FrameLoaded' /\ LastBytes'
      BY <1>1, <2>1, <2>3, <3>1, Loaded DEF LoadFrame, SendPacket, TypeOK
    <3>3. out' \in Seq(Byte)
      <4>1. 0 \in Nat /\ w \in Nat /\ 0 + w <= OutSize[k] BY <2>1
      <4> QED BY <3>1, <4>1, Taken DEF TypeOK
    <3>4. TypeOK' BY <1>1, <2>1, <2>2, <2>3, <3>1, <3>3, SizesAssumption
                  DEF TypeOK, LoadFrame, SendPacket, SizesAssumption
    <3>5. RestIsScheduled' BY <2>3 DEF LoadFrame, RestIsScheduled
    <3> QED BY <3>2, <3>4, <3>5
  <2>4. CASE LoadFrameFails(k)
    <3>1. TypeOK'
      <4>1. cut' \subseteq 1..Len(OutSize) BY <1>1, <2>2, <2>4 DEF TypeOK, LoadFrameFails
      <4>2. (txSize \in 0..TxBufSize)' /\ (txCounter \in 0..txSize)'
        BY <2>4, Emptied DEF LoadFrameFails
      <4> QED BY <1>1, <2>4, <4>1, <4>2 DEF TypeOK, LoadFrameFails, SendPacket
    <3> QED BY <2>4, <3>1, Emptied DEF LoadFrameFails
  <2> QED BY <1>1, <2>3, <2>4 DEF SendPacket
<1>2. ASSUME NEW k \in 1..Len(OutSize), RefusePacket(k) PROVE IInv'
  <2>1. /\ txFrame' = txFrame /\ txSize' = txSize /\ txCounter' = txCounter /\ out' = out
        /\ writeEvent' = writeEvent /\ stopping' = stopping /\ stranded' = stranded
        /\ sent' = k /\ cut' = cut \cup {k}
    BY <1>2 DEF RefusePacket
  <2>2. sent' \in 0..Len(OutSize) /\ cut' \subseteq 1..Len(OutSize) BY <2>1 DEF TypeOK
  <2>3. TypeOK' BY <2>1, <2>2, BufferUntouched DEF TypeOK
  <2>4. RestIsScheduled' BY <2>1 DEF RestIsScheduled, TxPending
  <2> QED BY <2>1, <2>3, <2>4, BufferUntouched
<1>3. ASSUME NEW k \in 1..Len(OutSize), NEW w \in 0..TxBufSize, SendPacketSync(k, w) PROVE IInv'
  <2>1. k \in DOMAIN OutSize /\ OutSize[k] \in Nat /\ OutSize[k] >= 4 /\ OutSize[k] <= TxBufSize
    BY <1>3, Frames DEF SendPacketSync, Fits
  <2>2. Overwritten \subseteq 1..Len(OutSize) BY OverwrittenType
  <2>3. out' \in Seq(Byte)
    <3>1. 0 \in Nat /\ w \in Nat /\ 0 + w <= OutSize[k] BY <1>3, <2>1 DEF SendPacketSync
    <3> QED BY <1>3, <3>1, Taken DEF SendPacketSync, TypeOK
  <2>4. CASE w = OutSize[k] /\ txSize' = w /\ txCounter' = w /\ cut' = cut \cup Overwritten
    <3>1. FrameLoaded' /\ LastBytes' BY <1>3, <2>1, <2>4, Loaded DEF SendPacketSync, TypeOK
    <3>2. TypeOK'
      <4>1. cut' \subseteq 1..Len(OutSize)
        BY <1>3, <2>2, <2>4 DEF TypeOK, SendPacketSync
      <4>2. txSize' \in 0..TxBufSize /\ txCounter' \in 0..txSize' BY <2>1, <2>4
      <4>3. writeEvent' \in BOOLEAN BY <1>3 DEF TypeOK, SendPacketSync
      <4> QED BY <1>3, <2>3, <4>1, <4>2, <4>3 DEF TypeOK, SendPacketSync
    <3>3. RestIsScheduled' BY <2>1, <2>4 DEF RestIsScheduled, TxPending
    <3> QED BY <3>1, <3>2, <3>3
  <2>5. CASE txSize' = 0 /\ txCounter' = 0 /\ cut' = cut \cup Overwritten \cup {k}
    <3>1. TypeOK'
      <4>1. cut' \subseteq 1..Len(OutSize)
        BY <1>3, <2>2, <2>5 DEF TypeOK, SendPacketSync
      <4>2. (txSize \in 0..TxBufSize)' /\ (txCounter \in 0..txSize)' BY <2>5, Emptied
      <4>3. writeEvent' \in BOOLEAN BY <1>3 DEF TypeOK, SendPacketSync
      <4> QED BY <1>3, <2>3, <4>1, <4>2, <4>3 DEF TypeOK, SendPacketSync
    <3> QED BY <2>5, <3>1, Emptied
  <2> QED BY <1>3, <2>4, <2>5 DEF SendPacketSync
<1>4. ASSUME ResetTx \/ WriteFails PROVE IInv'
  <2>1. txFrame \in 1..Len(OutSize)
    BY <1>4, SizesAssumption DEF TypeOK, FrameLoaded, ResetTx, WriteFails, TxPending, SizesAssumption
  <2>2. TypeOK'
    <3>1. cut' \subseteq 1..Len(OutSize) BY <1>4, <2>1 DEF TypeOK, ResetTx, WriteFails
    <3>2. (txSize \in 0..TxBufSize)' /\ (txCounter \in 0..txSize)'
      BY <1>4, Emptied DEF ResetTx, WriteFails
    <3> QED BY <1>4, <3>1, <3>2 DEF TypeOK, ResetTx, WriteFails
  <2> QED BY <1>4, <2>2, Emptied DEF ResetTx, WriteFails
<1>5. ASSUME NEW w \in 1..TxBufSize, WriteMore(w) PROVE IInv'
  <2>1. /\ txFrame \in 1..Len(OutSize) /\ txSize = OutSize[txFrame] /\ txCounter \in Nat /\ txSize \in Nat
        /\ w \in Nat /\ txCounter + w <= txSize /\ out \in Seq(Byte) /\ txSize > 0
    BY <1>5, SizesAssumption DEF TypeOK, FrameLoaded, WriteMore, TxPending, SizesAssumption
  <2>2. /\ out' \in Seq(Byte) /\ Len(out') = Len(out) + w
        /\ \A i \in 1..Len(out) : out'[i] = out[i]
        /\ \A i \in 1..w : out'[Len(out) + i] = <<txFrame, txCounter + i>>
    BY <1>5, <2>1, Taken DEF WriteMore
  <2>3. Len(out) \in Nat /\ txCounter <= Len(out) BY <2>1 DEF LastBytes
  <2>4. ASSUME NEW i \in 1..(txCounter + w)
        PROVE  out'[Len(out') - (txCounter + w) + i] = <<txFrame, i>>
    <3>1. CASE i <= txCounter
      <4>1. Len(out') - (txCounter + w) + i = Len(out) - txCounter + i
            /\ Len(out) - txCounter + i \in 1..Len(out)
        BY <2>1, <2>2, <2>3, <3>1
      <4>2. out[Len(out) - txCounter + i] = <<txFrame, i>>
        <5>1. i \in 1..txCounter BY <2>1, <3>1
        <5> QED BY <2>1, <5>1 DEF LastBytes
      <4>3. out'[Len(out) - txCounter + i] = out[Len(out) - txCounter + i] BY <2>2, <4>1
      <4> QED BY <4>1, <4>2, <4>3
    <3>2. CASE i > txCounter
      <4>1. Len(out') - (txCounter + w) + i = Len(out) + (i - txCounter) /\ i - txCounter \in 1..w
            /\ txCounter + (i - txCounter) = i
        BY <2>1, <2>2, <2>3, <3>2
      <4> QED BY <2>2, <4>1
    <3> QED BY <2>1, <3>1, <3>2
  <2>5. LastBytes'
    <3>1. txSize' = txSize /\ txFrame' = txFrame /\ txCounter' = txCounter + w
      BY <1>5 DEF WriteMore
    <3>2. txCounter + w <= Len(out') BY <2>1, <2>2, <2>3
    <3> QED BY <2>4, <3>1, <3>2 DEF LastBytes
  <2>6. TypeOK'
    <3>1. txCounter' = txCounter + w
          /\ UNCHANGED <<txFrame, txSize, writeEvent, stopping, sent, cut, stranded>>
      BY <1>5 DEF WriteMore
    <3>2. txCounter' \in 0..txSize' BY <2>1, <3>1
    <3> QED BY <2>2, <3>1, <3>2 DEF TypeOK
  <2>7. FrameLoaded' BY <1>5 DEF FrameLoaded, WriteMore
  <2>8. RestIsScheduled' BY <1>5 DEF RestIsScheduled, WriteMore, OnWriteEvent
  <2> QED BY <2>5, <2>6, <2>7, <2>8
<1>6. ASSUME WriteDone PROVE IInv'
  <2>1. /\ txFrame' = txFrame /\ txSize' = txSize /\ txCounter' = txCounter /\ out' = out
        /\ writeEvent' = writeEvent /\ stopping' = TRUE /\ stranded' = stranded
        /\ sent' = sent /\ cut' = cut
    BY <1>6 DEF WriteDone
  <2>2. TypeOK' BY <2>1, BufferUntouched DEF TypeOK
  <2>3. RestIsScheduled' BY <2>1 DEF RestIsScheduled, TxPending
  <2> QED BY <2>1, <2>2, <2>3, BufferUntouched
<1>7. ASSUME StopEvent PROVE IInv'
  <2>1. /\ txFrame' = txFrame /\ txSize' = txSize /\ txCounter' = txCounter /\ out' = out
        /\ writeEvent' = FALSE /\ stopping' = FALSE
        /\ stranded' = IF TxPending THEN txFrame ELSE stranded
        /\ sent' = sent /\ cut' = cut
    BY <1>7 DEF StopEvent
  <2>2. stranded' \in 0..Len(OutSize) BY <2>1 DEF TypeOK
  <2>3. TypeOK' BY <2>1, <2>2, BufferUntouched DEF TypeOK
  <2>4. RestIsScheduled' BY <2>1 DEF RestIsScheduled, TxPending
  <2> QED BY <2>1, <2>3, <2>4, BufferUntouched
<1>8. CASE UNCHANGED vars
  <2>1. /\ txFrame' = txFrame /\ txSize' = txSize /\ txCounter' = txCounter /\ out' = out
        /\ writeEvent' = writeEvent /\ stopping' = stopping /\ stranded' = stranded
        /\ sent' = sent /\ cut' = cut
    BY <1>8 DEF vars
  <2>2. TypeOK' BY <2>1, BufferUntouched DEF TypeOK
  <2>3. RestIsScheduled' BY <2>1 DEF RestIsScheduled, TxPending
  <2> QED BY <2>1, <2>2, <2>3, BufferUntouched
<1> QED BY <1>1, <1>2, <1>3, <1>4, <1>5, <1>6, <1>7, <1>8 DEF Next, WriteEvent

\* The invariant the theorems below are read off.
THEOREM Invariance == Spec => []IInv
BY InitIInv, NextIInv, PTL DEF Spec

\* The counter stays within the frame and the frame within tx_buffer, and no
\* byte is left out or sent twice where two writes of a frame meet
\* (emb_rtu_port_event, modbus_rtu_send_packet).  What is left of a frame has its
\* write event pending, but for the frame that a stop of the event stranded.
THEOREM InvCorrect == Spec => []Inv
<1>1. IInv => CounterIsTruth
  <2> SUFFICES ASSUME IInv, txSize > 0
               PROVE  OnLine(out, txCounter) = SubSeq(OutFrame(txFrame), 1, txCounter)
    BY DEF CounterIsTruth
  <2>1. /\ txFrame \in 1..Len(OutSize) /\ txSize = OutSize[txFrame] /\ txCounter \in Nat
        /\ txCounter <= OutSize[txFrame] /\ out \in Seq(Byte) /\ Len(out) \in Nat
    BY SizesAssumption DEF IInv, TypeOK, FrameLoaded, SizesAssumption
  <2>2. /\ txCounter <= Len(out)
        /\ \A i \in 1..txCounter : out[Len(out) - txCounter + i] = <<txFrame, i>>
    BY DEF IInv, LastBytes
  <2> DEFINE piece == SubSeq(OutFrame(txFrame), 0 + 1, 0 + txCounter)
             tail == OnLine(out, txCounter)
  <2>3. /\ piece \in Seq(Byte) /\ Len(piece) = txCounter
        /\ \A i \in 1..txCounter : piece[i] = <<txFrame, 0 + i>>
    <3>1. 0 \in Nat /\ 0 + txCounter <= OutSize[txFrame] BY <2>1
    <3> QED BY <2>1, <3>1, Piece
  <2>4. tail \in Seq(Byte) /\ Len(tail) = txCounter
    BY <2>1, <2>2 DEF OnLine
  <2>5. \A i \in 1..txCounter : tail[i] = <<txFrame, i>>
    BY <2>1, <2>2 DEF OnLine
  <2>6. piece = SubSeq(OutFrame(txFrame), 1, txCounter)
    BY <2>1
  <2> HIDE DEF piece, tail
  <2>7. ASSUME NEW i \in 1..txCounter PROVE piece[i] = tail[i]
    <3>1. 0 + i = i OBVIOUS
    <3> QED BY <2>3, <2>5, <3>1
  <2>8. piece = tail
    BY <2>3, <2>4, <2>7, SeqEqual
  <2> QED BY <2>6, <2>8 DEF tail
<1>2. IInv => Inv
  BY <1>1 DEF IInv, Inv
<1> QED BY <1>2, Invariance, PTL

-----------------------------------------------------------------------------
\* Frame k is on the line whole, byte by byte.
Whole(k) ==
    \E i \in 0..Len(out) :
        /\ i + OutSize[k] <= Len(out)
        /\ \A j \in 1..OutSize[k] : out[i + j] = <<k, j>>

\* A frame that was given to the transport and is neither broken off nor the one
\* being sent.
Finished(k) == k \in 1..sent /\ k \notin cut /\ ~(k = txFrame /\ TxPending)
AllWhole == \A k \in 1..Len(OutSize) : Finished(k) => Whole(k)

\* What was taken by the port stays where it is.
LEMMA LineGrows ==
    ASSUME IInv, [Next]_vars
    PROVE  /\ Len(out) \in Nat /\ Len(out') \in Nat /\ Len(out) <= Len(out')
           /\ \A i \in 1..Len(out) : out'[i] = out[i]
<1>1. out \in Seq(Byte) /\ Len(out) \in Nat
  BY LenProperties DEF IInv, TypeOK
<1>2. ASSUME NEW f \in 1..Len(OutSize), NEW from \in Nat, NEW w \in Nat, from + w <= OutSize[f],
             PortTakes(f, from, w)
      PROVE  /\ Len(out') \in Nat /\ Len(out) <= Len(out')
             /\ \A i \in 1..Len(out) : out'[i] = out[i]
  BY <1>1, <1>2, Taken
<1>3. ASSUME NEW k \in 1..Len(OutSize), NEW w \in 0..OutSize[k], PortTakes(k, 0, w)
      PROVE  /\ Len(out') \in Nat /\ Len(out) <= Len(out')
             /\ \A i \in 1..Len(out) : out'[i] = out[i]
  <2>1. 0 \in Nat /\ w \in Nat /\ 0 + w <= OutSize[k] BY Frames
  <2> QED BY <1>2, <1>3, <2>1
<1>4. ASSUME NEW k \in 1..Len(OutSize), LoadFrame(k)
      PROVE  /\ Len(out') \in Nat /\ Len(out) <= Len(out')
             /\ \A i \in 1..Len(out) : out'[i] = out[i]
  <2>1. PICK w \in 1..OutSize[k] : PortTakes(k, 0, w) BY <1>4 DEF LoadFrame
  <2>2. w \in 0..OutSize[k] BY Frames
  <2> QED BY <1>3, <2>1, <2>2
<1>5. ASSUME NEW k \in 1..Len(OutSize), NEW w \in 0..TxBufSize, SendPacketSync(k, w)
      PROVE  /\ Len(out') \in Nat /\ Len(out) <= Len(out')
             /\ \A i \in 1..Len(out) : out'[i] = out[i]
  BY <1>3, <1>5 DEF SendPacketSync
<1>6. ASSUME NEW w \in 1..TxBufSize, WriteMore(w)
      PROVE  /\ Len(out') \in Nat /\ Len(out) <= Len(out')
             /\ \A i \in 1..Len(out) : out'[i] = out[i]
  <2>1. /\ txFrame \in 1..Len(OutSize) /\ txCounter \in Nat /\ w \in Nat
        /\ txCounter + w <= OutSize[txFrame]
    BY <1>6, SizesAssumption
    DEF IInv, TypeOK, FrameLoaded, WriteMore, TxPending, SizesAssumption
  <2> QED BY <1>2, <1>6, <2>1 DEF WriteMore
<1>7. CASE UNCHANGED out BY <1>1, <1>7
<1> QED
  BY <1>1, <1>4, <1>5, <1>6, <1>7
  DEF Next, SendPacket, LoadFrameFails, RefusePacket, ResetTx, WriteEvent, WriteFails, WriteDone,
      StopEvent, vars

\* A frame that is finished after a step was so before, or is the one in
\* tx_buffer: what a new frame overwrites is broken off.
LEMMA FinishedBefore ==
    ASSUME IInv, [Next]_vars, NEW k \in 1..Len(OutSize), Finished(k)', ~(k = txFrame' /\ txSize' > 0)
    PROVE  Finished(k)
<1>1. /\ sent \in Nat /\ txSize \in Nat /\ txCounter \in Nat
      /\ TxPending => txSize > 0
  BY SizesAssumption DEF IInv, TypeOK, TxPending, SizesAssumption
<1>2. /\ k \in 1..sent' /\ k \notin cut'
  BY DEF Finished
<1>3. ASSUME NEW j \in 1..Len(OutSize), SendPacket(j) PROVE Finished(k)
  <2>1. sent' = j /\ txFrame' = j /\ j = sent + 1
        /\ cut \subseteq cut' /\ Overwritten \subseteq cut'
        /\ (txSize' = OutSize[j] \/ j \in cut')
    BY <1>3 DEF SendPacket, Fits, LoadFrame, LoadFrameFails
  <2>2. k # j BY <1>2, <2>1, Frames
  <2>3. k \in 1..sent BY <1>1, <1>2, <2>1, <2>2
  <2> QED BY <1>2, <2>1, <2>3 DEF Finished, Overwritten
<1>4. ASSUME NEW j \in 1..Len(OutSize), RefusePacket(j) PROVE Finished(k)
  <2>1. sent' = j /\ j = sent + 1 /\ cut' = cut \cup {j} /\ txFrame' = txFrame /\ txSize' = txSize
    BY <1>4 DEF RefusePacket
  <2>2. k \in 1..sent BY <1>1, <1>2, <2>1
  <2> QED BY <1>1, <1>2, <2>1, <2>2 DEF Finished
<1>5. ASSUME NEW j \in 1..Len(OutSize), NEW w \in 0..TxBufSize, SendPacketSync(j, w)
      PROVE  Finished(k)
  <2>1. sent' = j /\ txFrame' = j /\ j = sent + 1
        /\ cut \subseteq cut' /\ Overwritten \subseteq cut'
        /\ (txSize' = OutSize[j] \/ j \in cut')
    BY <1>5 DEF SendPacketSync, Fits
  <2>2. k # j BY <1>2, <2>1, Frames
  <2>3. k \in 1..sent BY <1>1, <1>2, <2>1, <2>2
  <2> QED BY <1>2, <2>1, <2>3 DEF Finished, Overwritten
<1>6. CASE ResetTx \/ WriteFails
  BY <1>2, <1>6 DEF ResetTx, WriteFails, Finished
<1>7. ASSUME UNCHANGED <<sent, cut, txFrame, txSize>> PROVE Finished(k)
  BY <1>1, <1>2, <1>7 DEF Finished
<1> QED
  BY <1>3, <1>4, <1>5, <1>6, <1>7 DEF Next, WriteEvent, WriteMore, WriteDone, StopEvent, vars

\* What is on the line whole stays so, and what is in tx_buffer and not pending
\* is what came last.
LEMMA WholeStep == IInv /\ IInv' /\ AllWhole /\ [Next]_vars => AllWhole'
<1> SUFFICES ASSUME IInv, IInv', AllWhole, [Next]_vars, NEW k \in 1..Len(OutSize), Finished(k)'
             PROVE  Whole(k)'
  BY DEF AllWhole
<1>1. OutSize[k] \in Nat /\ OutSize[k] > 0 BY Frames
<1>2. /\ Len(out) \in Nat /\ Len(out') \in Nat /\ Len(out) <= Len(out')
      /\ \A i \in 1..Len(out) : out'[i] = out[i]
  BY LineGrows
<1>3. CASE k = txFrame' /\ txSize' > 0
  <2>1. txSize' = OutSize[k] /\ txCounter' = OutSize[k]
    <3>1. txSize' = OutSize[k] /\ txCounter' \in 0..txSize' /\ ~(txCounter' < txSize')
      BY <1>3 DEF IInv, FrameLoaded, TypeOK, Finished, TxPending
    <3> QED BY <1>1, <3>1
  <2>2. /\ OutSize[k] <= Len(out')
        /\ \A j \in 1..OutSize[k] : out'[Len(out') - OutSize[k] + j] = <<k, j>>
    BY <1>3, <2>1 DEF IInv, LastBytes
  <2>3. Len(out') - OutSize[k] \in 0..Len(out') /\ (Len(out') - OutSize[k]) + OutSize[k] <= Len(out')
    BY <1>1, <1>2, <2>2
  <2> QED BY <2>2, <2>3 DEF Whole
<1>4. CASE ~(k = txFrame' /\ txSize' > 0)
  <2>1. Whole(k) BY <1>4, FinishedBefore DEF AllWhole
  <2>2. PICK i \in 0..Len(out) : /\ i + OutSize[k] <= Len(out)
                                 /\ \A j \in 1..OutSize[k] : out[i + j] = <<k, j>>
    BY <2>1 DEF Whole
  <2>3. ASSUME NEW j \in 1..OutSize[k] PROVE out'[i + j] = <<k, j>>
    <3>1. i + j \in 1..Len(out) BY <1>1, <1>2, <2>2
    <3> QED BY <1>2, <2>2, <3>1
  <2>4. i \in 0..Len(out') /\ i + OutSize[k] <= Len(out') BY <1>1, <1>2, <2>2
  <2> QED BY <2>3, <2>4 DEF Whole
<1> QED BY <1>3, <1>4

LEMMA CountedIsSeq ==
    ASSUME NEW S, NEW n \in Nat, NEW s \in [1..n -> S]
    PROVE  s \in Seq(S) /\ Len(s) = n
OBVIOUS

\* A frame that was not refused, overwritten, broken off or reset goes out whole
\* and in one stretch (modbus_rtu_send_packet, emb_rtu_port_event).
THEOREM FramesAreWhole == Spec => []WholeFrames
<1>1. Init => AllWhole
  BY DEF Init, AllWhole, Finished
<1>2. IInv /\ AllWhole => WholeFrames
  <2> SUFFICES ASSUME IInv, AllWhole, NEW k \in 1..sent, k \notin cut, ~(k = txFrame /\ TxPending)
               PROVE  \E i \in 0..Len(out) :
                          /\ i + OutSize[k] <= Len(out)
                          /\ SubSeq(out, i + 1, i + OutSize[k]) = OutFrame(k)
    BY DEF WholeFrames
  <2>1. k \in 1..Len(OutSize) /\ out \in Seq(Byte) /\ Len(out) \in Nat
    BY SizesAssumption, LenProperties DEF IInv, TypeOK, SizesAssumption
  <2>2. OutSize[k] \in Nat /\ OutSize[k] > 0 BY <2>1, Frames
  <2>3. PICK i \in 0..Len(out) : /\ i + OutSize[k] <= Len(out)
                                 /\ \A j \in 1..OutSize[k] : out[i + j] = <<k, j>>
    BY <2>1 DEF AllWhole, Finished, Whole
  <2> DEFINE stretch == SubSeq(out, i + 1, i + OutSize[k])
  <2>4. /\ Len(stretch) = OutSize[k]
        /\ \A j \in 1..OutSize[k] : stretch[j] = out[i + j]
        /\ stretch \in Seq(Byte)
    <3>1. i + 1 \in Int /\ i + OutSize[k] \in Int BY <2>2
    <3>2. \A j \in (i + 1)..(i + OutSize[k]) : out[j] \in Byte
      BY <2>1, <2>2, <2>3, ElementOfSeq
    <3>3. /\ stretch \in Seq(Byte)
          /\ Len(stretch) = IF i + 1 <= i + OutSize[k] THEN (i + OutSize[k]) - (i + 1) + 1 ELSE 0
          /\ \A j \in 1..((i + OutSize[k]) - (i + 1) + 1) : stretch[j] = out[(i + 1) + j - 1]
      BY <3>1, <3>2, SubSeqProperties
    <3> HIDE DEF stretch
    <3>4. Len(stretch) = OutSize[k] BY <2>2, <3>3
    <3>5. ASSUME NEW j \in 1..OutSize[k] PROVE stretch[j] = out[i + j]
      <4>1. j \in 1..((i + OutSize[k]) - (i + 1) + 1) /\ (i + 1) + j - 1 = i + j BY <2>2
      <4> QED BY <3>3, <4>1
    <3> QED BY <3>3, <3>4, <3>5
  <2>5. OutFrame(k) \in [1..OutSize[k] -> Byte] /\ \A j \in 1..OutSize[k] : OutFrame(k)[j] = <<k, j>>
    <3>1. \A j \in 1..OutSize[k] : <<k, j>> \in Byte BY <2>1, <2>2 DEF Byte
    <3> HIDE DEF Byte
    <3> QED BY <3>1 DEF OutFrame
  <2>6. OutFrame(k) \in Seq(Byte) /\ Len(OutFrame(k)) = OutSize[k]
    BY <2>2, <2>5, CountedIsSeq
  <2> HIDE DEF stretch
  <2>7. \A j \in 1..OutSize[k] : stretch[j] = OutFrame(k)[j] BY <2>3, <2>4, <2>5
  <2>8. stretch = OutFrame(k)
    <3> HIDE DEF Byte
    <3> QED BY <2>4, <2>6, <2>7, SeqEqual
  <2> QED BY <2>3, <2>8 DEF stretch
<1> QED BY <1>1, <1>2, WholeStep, Invariance, PTL DEF Spec

(***************************************************************************)
(* The receiver.                                                           *)
(***************************************************************************)
\* InByte b was sent before byte c.
Before(b, c) == b[1] < c[1] \/ (b[1] = c[1] /\ b[2] < c[2])

\* InByte b belongs to a frame the other side has sent.
Heard(b) == b[1] \in 1..heard /\ b[2] \in 1..InSize[b[1]]

\* InByte b was sent after all that was handed up.
AfterReceived(b) == \A i \in DOMAIN received : received[i][1][1] < b[1]

Stream(s) ==
    /\ \A i \in 1..Len(s) : Heard(s[i]) /\ AfterReceived(s[i])
    /\ \A i, j \in 1..Len(s) : i < j => Before(s[i], s[j])

\* The bytes in the buffer were sent before those on the line.
InOrder ==
    /\ Stream(rxBuffer) /\ Stream(line)
    /\ \A i \in 1..Len(rxBuffer), j \in 1..Len(line) : Before(rxBuffer[i], line[j])

RxIInv == RxTypeOK /\ BufferIsTimed /\ Intact /\ InOrder

-----------------------------------------------------------------------------
\* A frame has a size, of at least four bytes.
LEMMA InFrames ==
    ASSUME NEW k \in 1..Len(InSize)
    PROVE  InSize[k] \in Nat /\ InSize[k] >= 4
BY InSizesAssumption DEF InSizesAssumption

\* The bytes of a frame, numbered from one.
LEMMA InFrameBytes ==
    ASSUME NEW k \in 1..Len(InSize)
    PROVE  /\ InFrame(k) \in Seq(InByte) /\ Len(InFrame(k)) = InSize[k]
           /\ \A i \in 1..InSize[k] : InFrame(k)[i] = <<k, i>>
<1>1. InSize[k] \in Nat BY InFrames
<1>2. ASSUME NEW i \in 1..InSize[k] PROVE InFrame(k)[i] = <<k, i>> /\ InFrame(k)[i] \in InByte
  <2>1. InFrame(k)[i] = <<k, i>> BY DEF InFrame
  <2>2. i \in Nat \ {0} BY <1>1
  <2>3. <<k, i>> \in InByte BY <2>2 DEF InByte
  <2> QED BY <2>1, <2>3
<1>3. InFrame(k) = [i \in 1..InSize[k] |-> InFrame(k)[i]] BY DEF InFrame
<1>4. InFrame(k) \in [1..InSize[k] -> InByte]
  <2>1. InFrame(k) = [i \in 1..InSize[k] |-> <<k, i>>] BY DEF InFrame
  <2>2. \A i \in 1..InSize[k] : <<k, i>> \in InByte BY <1>2
  <2> QED BY <2>1, <2>2, Zenon
<1>5. InFrame(k) \in Seq(InByte) BY <1>1, <1>4, SeqDef
<1>6. Len(InFrame(k)) = InSize[k]
  <2>1. DOMAIN InFrame(k) = 1..InSize[k] BY DEF InFrame
  <2>2. DOMAIN InFrame(k) = 1..Len(InFrame(k)) /\ Len(InFrame(k)) \in Nat BY <1>5, LenProperties
  <2> QED BY <1>1, <2>1, <2>2
<1> QED BY <1>2, <1>5, <1>6

\* A frame handed up is one of those sent, and begins with its own first byte.
LEMMA FirstOfReceived ==
    ASSUME RxTypeOK, Intact, NEW i \in DOMAIN received
    PROVE  received[i][1][1] \in 1..heard
<1>1. PICK k \in 1..heard : received[i] = InFrame(k) BY DEF Intact
<1>2. heard \in 0..Len(InSize) /\ Len(InSize) \in Nat
  BY InSizesAssumption, LenProperties DEF RxTypeOK, InSizesAssumption
<1>3. k \in 1..Len(InSize) BY <1>2
<1>4. InFrame(k)[1] = <<k, 1>>
  <2>1. 1 \in 1..InSize[k] BY <1>3, InFrames
  <2> QED BY <1>3, <2>1, InFrameBytes
<1> QED BY <1>1, <1>4

\* The empty buffer is in order.
LEMMA EmptyStream == Stream(<<>>)
BY DEF Stream

-----------------------------------------------------------------------------
\* In the beginning nothing was sent, and nothing is in the buffer.
LEMMA RxInitIInv == RxInit => RxIInv
<1> SUFFICES ASSUME RxInit PROVE RxIInv OBVIOUS
<1>1. Len(InSize) \in Nat /\ RxBufSize \in Nat /\ MaxNoise \in Nat
  BY InSizesAssumption, LenProperties DEF InSizesAssumption
<1>2. line = <<>> /\ rxBuffer = <<>> /\ received = <<>> BY DEF RxInit
<1>3. Len(rxBuffer) = 0 /\ Len(line) = 0 /\ DOMAIN received = {} BY <1>2
<1>4. RxTypeOK
  <2>1. line \in Seq(InByte) /\ rxBuffer \in Seq(InByte) /\ received \in Seq(Seq(InByte))
    BY <1>2, EmptySeq
  <2>2. heard \in 0..Len(InSize) /\ noise \in 0..MaxNoise /\ Len(rxBuffer) <= RxBufSize
    BY <1>1, <1>3 DEF RxInit
  <2>3. charTimer \in BOOLEAN /\ disturbed \in BOOLEAN /\ rxPdu \in MaxData \cup {NoPdu}
    BY DEF RxInit
  <2> QED BY <2>1, <2>2, <2>3 DEF RxTypeOK
<1>5. BufferIsTimed BY <1>2 DEF BufferIsTimed
<1>6. Intact BY <1>3 DEF Intact
<1>7. InOrder BY <1>2, <1>3, EmptyStream DEF InOrder
<1> QED BY <1>4, <1>5, <1>6, <1>7 DEF RxIInv

\* A sequence made of bytes of another one, in the same order, is in order too.
LEMMA SubStream ==
    ASSUME NEW s, NEW t, NEW n \in Nat, Len(s) \in Nat, Len(t) = n, Stream(s),
           NEW at \in [1..n -> 1..Len(s)],
           \A i \in 1..n : t[i] = s[at[i]],
           \A i, j \in 1..n : i < j => at[i] < at[j]
    PROVE  Stream(t)
BY DEF Stream

\* Two parts of a stream, one behind the other.
LEMMA JoinStreams ==
    ASSUME NEW s \in Seq(InByte), NEW t \in Seq(InByte), Stream(s), Stream(t),
           \A i \in 1..Len(s), j \in 1..Len(t) : Before(s[i], t[j])
    PROVE  Stream(s \o t)
<1> DEFINE u == s \o t
<1>1. /\ u \in Seq(InByte) /\ Len(u) = Len(s) + Len(t)
      /\ \A i \in 1..(Len(s) + Len(t)) : u[i] = IF i <= Len(s) THEN s[i] ELSE t[i - Len(s)]
  BY ConcatProperties
<1>2. Len(s) \in Nat /\ Len(t) \in Nat BY LenProperties
<1> HIDE DEF u
<1>3. ASSUME NEW i \in 1..Len(u)
      PROVE  \/ i \in 1..Len(s) /\ u[i] = s[i]
             \/ i > Len(s) /\ i - Len(s) \in 1..Len(t) /\ u[i] = t[i - Len(s)]
  BY <1>1, <1>2
<1>4. \A i \in 1..Len(u) : Heard(u[i]) /\ AfterReceived(u[i])
  BY <1>3 DEF Stream
<1>5. ASSUME NEW i \in 1..Len(u), NEW j \in 1..Len(u), i < j PROVE Before(u[i], u[j])
  <2>1. CASE j \in 1..Len(s) /\ u[j] = s[j]
    <3>1. i \in 1..Len(s) /\ u[i] = s[i] BY <1>1, <1>2, <1>5, <2>1
    <3> QED BY <1>5, <2>1, <3>1 DEF Stream
  <2>2. CASE j > Len(s) /\ j - Len(s) \in 1..Len(t) /\ u[j] = t[j - Len(s)]
    <3>1. CASE i \in 1..Len(s) /\ u[i] = s[i] BY <2>2, <3>1
    <3>2. CASE i > Len(s) /\ i - Len(s) \in 1..Len(t) /\ u[i] = t[i - Len(s)]
      <4>1. i - Len(s) < j - Len(s) BY <1>2, <1>5
      <4> QED BY <2>2, <3>2, <4>1 DEF Stream
    <3> QED BY <1>3, <3>1, <3>2
  <2> QED BY <1>3, <2>1, <2>2
<1>6. Stream(u) BY <1>4, <1>5 DEF Stream
<1> QED BY <1>6 DEF u

\* The pieces a sequence is cut into by SubSeq.
LEMMA Cut ==
    ASSUME NEW s \in Seq(InByte), NEW m \in Nat, NEW n \in Nat, 1 <= m, n <= Len(s), m <= n + 1
    PROVE  /\ SubSeq(s, m, n) \in Seq(InByte) /\ Len(SubSeq(s, m, n)) = n - m + 1
           /\ \A i \in 1..(n - m + 1) : SubSeq(s, m, n)[i] = s[m + i - 1] /\ m + i - 1 \in 1..Len(s)
<1>1. Len(s) \in Nat BY LenProperties
<1>2. \A i \in m..n : s[i] \in InByte BY <1>1, ElementOfSeq
<1>3. m \in Int /\ n \in Int OBVIOUS
<1>4. /\ SubSeq(s, m, n) \in Seq(InByte)
      /\ Len(SubSeq(s, m, n)) = IF m <= n THEN n - m + 1 ELSE 0
      /\ \A i \in 1..(n - m + 1) : SubSeq(s, m, n)[i] = s[m + i - 1]
  BY <1>2, <1>3, SubSeqProperties
<1>5. Len(SubSeq(s, m, n)) = n - m + 1 BY <1>4
<1>6. \A i \in 1..(n - m + 1) : m + i - 1 \in 1..Len(s) BY <1>1
<1> QED BY <1>4, <1>5, <1>6

\* A stretch of a stream is one.
LEMMA CutStream ==
    ASSUME NEW s \in Seq(InByte), NEW m \in Nat, NEW n \in Nat, 1 <= m, n <= Len(s), m <= n + 1,
           Stream(s)
    PROVE  Stream(SubSeq(s, m, n))
<1> DEFINE t == SubSeq(s, m, n)
           k == n - m + 1
           at == [i \in 1..k |-> m + i - 1]
<1>1. /\ t \in Seq(InByte) /\ Len(t) = k
      /\ \A i \in 1..k : t[i] = s[m + i - 1] /\ m + i - 1 \in 1..Len(s)
  BY Cut
<1>2. k \in Nat /\ Len(s) \in Nat BY LenProperties
<1> HIDE DEF t
<1>3. /\ at \in [1..k -> 1..Len(s)]
      /\ \A i \in 1..k : t[i] = s[at[i]]
      /\ \A i, j \in 1..k : i < j => at[i] < at[j]
  BY <1>1, <1>2
<1> HIDE DEF at, k
<1>4. Len(t) = k /\ Len(s) \in Nat BY <1>1, <1>2
<1>5. Stream(t) BY <1>2, <1>3, <1>4, SubStream, Zenon
<1> QED BY <1>5 DEF t

-----------------------------------------------------------------------------
\* A stream stays one as long as nothing is sent or handed up.
LEMMA LineKept ==
    ASSUME NEW s, Stream(s), line' = s, heard' = heard, received' = received
    PROVE  Stream(line)'
BY DEF Stream, Heard, AfterReceived, Before

\* The same for the stream that becomes the contents of rx_buffer.
LEMMA BufferKept ==
    ASSUME NEW s, Stream(s), rxBuffer' = s, heard' = heard, received' = received
    PROVE  Stream(rxBuffer)'
BY DEF Stream, Heard, AfterReceived, Before

\* What was handed up stays as it is.
LEMMA IntactKept == ASSUME Intact, heard' = heard, received' = received PROVE Intact'
BY DEF Intact

\* The bytes of a new frame are younger than all there is.
LEMMA PeerSendsKeeps == ASSUME RxIInv, PeerSends PROVE RxIInv'
<1> DEFINE k == heard + 1
<1>1. /\ k \in 1..Len(InSize) /\ heard \in Nat /\ Len(line) \in Nat /\ Len(InSize) \in Nat
      /\ line \in Seq(InByte)
  BY InSizesAssumption, LenProperties DEF PeerSends, RxIInv, RxTypeOK, InSizesAssumption
<1>2. /\ line' = line \o InFrame(k) /\ heard' = k
      /\ rxBuffer' = rxBuffer /\ received' = received /\ charTimer' = charTimer
  BY DEF PeerSends
<1>3. /\ InFrame(k) \in Seq(InByte) /\ Len(InFrame(k)) = InSize[k] /\ InSize[k] \in Nat
      /\ \A i \in 1..InSize[k] : InFrame(k)[i] = <<k, i>>
  BY <1>1, InFrameBytes, InFrames
<1>4. /\ line' \in Seq(InByte) /\ Len(line') = Len(line) + InSize[k]
      /\ \A i \in 1..(Len(line) + InSize[k]) :
            line'[i] = IF i <= Len(line) THEN line[i] ELSE InFrame(k)[i - Len(line)]
  <2>1. /\ line \o InFrame(k) \in Seq(InByte)
        /\ Len(line \o InFrame(k)) = Len(line) + Len(InFrame(k))
        /\ \A i \in 1..(Len(line) + Len(InFrame(k))) :
              (line \o InFrame(k))[i] = IF i <= Len(line) THEN line[i] ELSE InFrame(k)[i - Len(line)]
    BY <1>1, <1>3, ConcatProperties
  <2> HIDE DEF k
  <2> QED BY <1>2, <1>3, <2>1
<1>5. ASSUME NEW i \in 1..Len(line')
      PROVE  \/ i \in 1..Len(line) /\ line'[i] = line[i]
             \/ i > Len(line) /\ i - Len(line) \in 1..InSize[k] /\ line'[i] = <<k, i - Len(line)>>
  <2>1. CASE i <= Len(line) BY <1>1, <1>4, <2>1
  <2>2. CASE i > Len(line)
    <3>1. i - Len(line) \in 1..InSize[k] BY <1>1, <1>3, <1>4, <2>2
    <3>2. line'[i] = InFrame(k)[i - Len(line)] BY <1>1, <1>3, <1>4, <2>2
    <3> QED BY <1>3, <2>2, <3>1, <3>2
  <2> QED BY <1>1, <2>1, <2>2
<1>6. ASSUME NEW b, Heard(b) PROVE Heard(b)' /\ b[1] < k
  BY <1>1, <1>2, <1>6 DEF Heard
<1>7. ASSUME NEW b, AfterReceived(b) PROVE AfterReceived(b)'
  BY <1>2, <1>7 DEF AfterReceived
<1>8. \A i \in DOMAIN received : received[i][1][1] \in 1..heard
  BY FirstOfReceived DEF RxIInv
<1> HIDE DEF k
<1>9. Stream(line)'
  <2>1. ASSUME NEW i \in 1..Len(line') PROVE (Heard(line[i]) /\ AfterReceived(line[i]))'
    <3>1. CASE i \in 1..Len(line) /\ line'[i] = line[i]
      <4>1. Heard(line[i]) /\ AfterReceived(line[i]) BY <3>1 DEF RxIInv, InOrder, Stream
      <4> QED BY <1>6, <1>7, <3>1, <4>1
    <3>2. CASE i > Len(line) /\ i - Len(line) \in 1..InSize[k] /\ line'[i] = <<k, i - Len(line)>>
      <4>1. Heard(line[i])' BY <1>1, <1>2, <3>2 DEF Heard, k
      <4>2. AfterReceived(line[i])' BY <1>1, <1>2, <1>8, <3>2 DEF AfterReceived, k
      <4> QED BY <4>1, <4>2
    <3> QED BY <1>5, <3>1, <3>2
  <2>2. ASSUME NEW i \in 1..Len(line'), NEW j \in 1..Len(line'), i < j
        PROVE  Before(line'[i], line'[j])
    <3>1. CASE j \in 1..Len(line) /\ line'[j] = line[j]
      <4>1. i \in 1..Len(line) /\ line'[i] = line[i] BY <1>1, <1>4, <2>2, <3>1
      <4> QED BY <2>2, <3>1, <4>1 DEF RxIInv, InOrder, Stream
    <3>2. CASE j > Len(line) /\ j - Len(line) \in 1..InSize[k] /\ line'[j] = <<k, j - Len(line)>>
      <4>1. CASE i \in 1..Len(line) /\ line'[i] = line[i]
        <5>1. line[i][1] < k BY <1>6, <4>1 DEF RxIInv, InOrder, Stream
        <5> QED BY <3>2, <4>1, <5>1 DEF Before
      <4>2. CASE i > Len(line) /\ i - Len(line) \in 1..InSize[k] /\ line'[i] = <<k, i - Len(line)>>
        <5>1. i - Len(line) < j - Len(line) BY <1>1, <2>2
        <5> QED BY <3>2, <4>2, <5>1 DEF Before
      <4> QED BY <1>5, <4>1, <4>2
    <3> QED BY <1>5, <3>1, <3>2
  <2> QED BY <2>1, <2>2 DEF Stream, Before
<1>10. Stream(rxBuffer)'
  BY <1>2, <1>6, <1>7 DEF RxIInv, InOrder, Stream, Before
<1>11. ASSUME NEW i \in 1..Len(rxBuffer), NEW j \in 1..Len(line')
       PROVE  Before(rxBuffer[i], line'[j])
  <2>1. CASE j \in 1..Len(line) /\ line'[j] = line[j] BY <2>1 DEF RxIInv, InOrder
  <2>2. CASE line'[j] = <<k, j - Len(line)>>
    <3>1. rxBuffer[i][1] < k BY <1>6 DEF RxIInv, InOrder, Stream
    <3> QED BY <2>2, <3>1 DEF Before
  <2> QED BY <1>5, <2>1, <2>2
<1>12. InOrder'
  <2>1. \A i \in 1..Len(rxBuffer'), j \in 1..Len(line') : Before(rxBuffer'[i], line'[j])
    BY <1>2, <1>11
  <2> QED BY <1>9, <1>10, <2>1 DEF InOrder
<1>13. Intact'
  <2>1. \A i \in DOMAIN received : \E n \in 1..k : received[i] = InFrame(n)
    BY <1>1 DEF RxIInv, Intact, k
  <2> QED BY <1>2, <2>1 DEF RxIInv, Intact
<1>14. BufferIsTimed' BY <1>2 DEF RxIInv, BufferIsTimed
<1>15. RxTypeOK'
  <2>1. heard' \in 0..Len(InSize) BY <1>1, <1>2
  <2>2. disturbed' \in BOOLEAN BY Zenon DEF PeerSends
  <2> QED BY <1>2, <1>4, <2>1, <2>2 DEF PeerSends, RxIInv, RxTypeOK
<1> QED BY <1>12, <1>13, <1>14, <1>15 DEF RxIInv

\* A line that lost a byte is still in order: what was before the byte and what
\* was behind it.
LEMMA LoseByteKeeps == ASSUME RxIInv, NEW i \in DOMAIN line, LoseByte(i) PROVE RxIInv'
<1> DEFINE n == Len(line)
           a == SubSeq(line, 1, i - 1)
           b == SubSeq(line, i + 1, n)
<1>1. /\ line \in Seq(InByte) /\ n \in Nat /\ i \in 1..n /\ noise \in 0..MaxNoise /\ MaxNoise \in Nat
  BY InSizesAssumption, LenProperties DEF RxIInv, RxTypeOK, InSizesAssumption
<1>2. /\ line' = a \o b /\ noise' = noise + 1 /\ noise < MaxNoise /\ disturbed' = TRUE
      /\ rxBuffer' = rxBuffer /\ charTimer' = charTimer /\ rxPdu' = rxPdu
      /\ heard' = heard /\ received' = received
  BY DEF LoseByte
<1>3. /\ 1 \in Nat /\ i - 1 \in Nat /\ i + 1 \in Nat /\ 1 <= 1 /\ i - 1 <= n /\ 1 <= (i - 1) + 1
      /\ 1 <= i + 1 /\ n <= n /\ i + 1 <= n + 1
  BY <1>1
<1>4. Stream(line) BY DEF RxIInv, InOrder
<1>5. /\ a \in Seq(InByte) /\ Len(a) = (i - 1) - 1 + 1
      /\ \A j \in 1..((i - 1) - 1 + 1) : a[j] = line[1 + j - 1] /\ 1 + j - 1 \in 1..n
  BY <1>1, <1>3, Cut
<1>6. /\ b \in Seq(InByte) /\ Len(b) = n - (i + 1) + 1
      /\ \A j \in 1..(n - (i + 1) + 1) : b[j] = line[(i + 1) + j - 1] /\ (i + 1) + j - 1 \in 1..n
  BY <1>1, <1>3, Cut
<1>7. Stream(a) BY <1>1, <1>3, <1>4, CutStream
<1>8. Stream(b) BY <1>1, <1>3, <1>4, CutStream
<1> HIDE DEF a, b, n
<1>9. ASSUME NEW j \in 1..Len(a)
      PROVE  j \in 1..n /\ j < i /\ a[j] = line[j]
  <2>1. j \in 1..((i - 1) - 1 + 1) /\ 1 + j - 1 = j BY <1>1, <1>5
  <2> QED BY <1>1, <1>5, <2>1
<1>10. ASSUME NEW j \in 1..Len(b)
       PROVE  i + j \in 1..n /\ i + j > i /\ b[j] = line[i + j]
  <2>1. j \in 1..(n - (i + 1) + 1) /\ (i + 1) + j - 1 = i + j BY <1>1, <1>6
  <2> QED BY <1>1, <1>6, <2>1
<1>11. ASSUME NEW j \in 1..Len(a), NEW k \in 1..Len(b) PROVE Before(a[j], b[k])
  <2>1. j < i + k /\ j \in 1..n /\ i + k \in 1..n BY <1>1, <1>9, <1>10
  <2>2. Before(line[j], line[i + k]) BY <1>4, <2>1 DEF Stream, n
  <2> QED BY <1>9, <1>10, <2>2
<1>12. Stream(a \o b) BY <1>5, <1>6, <1>7, <1>8, <1>11, JoinStreams
<1>13. /\ a \o b \in Seq(InByte) /\ Len(a \o b) = Len(a) + Len(b)
       /\ \A j \in 1..(Len(a) + Len(b)) : (a \o b)[j] = IF j <= Len(a) THEN a[j] ELSE b[j - Len(a)]
  BY <1>5, <1>6, ConcatProperties
<1>14. ASSUME NEW j \in 1..Len(line')
       PROVE  \E k \in 1..n : line'[j] = line[k]
  <2>1. Len(a) \in Nat /\ Len(b) \in Nat BY <1>5, <1>6, LenProperties
  <2>2. CASE j <= Len(a)
    <3>1. j \in 1..Len(a) /\ line'[j] = a[j] BY <1>2, <1>13, <2>1, <2>2
    <3> QED BY <1>9, <3>1
  <2>3. CASE j > Len(a)
    <3>1. j - Len(a) \in 1..Len(b) /\ line'[j] = b[j - Len(a)] BY <1>2, <1>13, <2>1, <2>3
    <3> QED BY <1>10, <3>1
  <2> QED BY <1>2, <1>13, <2>1, <2>2, <2>3
<1>15. Stream(line)' BY <1>2, <1>12, LineKept
<1>16. Stream(rxBuffer)' BY <1>2, BufferKept DEF RxIInv, InOrder
<1>17. ASSUME NEW j \in 1..Len(rxBuffer), NEW k \in 1..Len(line') PROVE Before(rxBuffer[j], line'[k])
  <2>1. PICK m \in 1..n : line'[k] = line[m] BY <1>14
  <2> QED BY <2>1 DEF RxIInv, InOrder, n
<1>18. InOrder'
  <2>1. \A j \in 1..Len(rxBuffer'), k \in 1..Len(line') : Before(rxBuffer'[j], line'[k])
    BY <1>2, <1>17
  <2> QED BY <1>15, <1>16, <2>1 DEF InOrder
<1>19. Intact' BY <1>2, IntactKept DEF RxIInv
<1>20. BufferIsTimed' BY <1>2 DEF RxIInv, BufferIsTimed
<1>21. RxTypeOK'
  <2>1. noise' \in 0..MaxNoise BY <1>1, <1>2
  <2> QED BY <1>2, <1>13, <2>1 DEF RxIInv, RxTypeOK
<1> QED BY <1>18, <1>19, <1>20, <1>21 DEF RxIInv

\* A read moves the oldest bytes of the line behind those of the buffer.
LEMMA DataReceivedKeeps ==
    ASSUME RxIInv, NEW r \in 1..RxBufSize, DataReceived(r) PROVE RxIInv'
<1> DEFINE n == Len(line)
           a == SubSeq(line, 1, r)
           b == SubSeq(line, r + 1, n)
<1>1. /\ line \in Seq(InByte) /\ n \in Nat /\ r \in 1..n
      /\ rxBuffer \in Seq(InByte) /\ Len(rxBuffer) \in Nat /\ RxBufSize \in Nat
      /\ Len(rxBuffer) + r <= RxBufSize
  BY InSizesAssumption, LenProperties DEF RxIInv, RxTypeOK, InSizesAssumption, DataReceived, Room
<1>2. /\ rxBuffer' = rxBuffer \o a /\ line' = b /\ charTimer' = TRUE
      /\ rxPdu' = rxPdu /\ noise' = noise /\ disturbed' = disturbed
      /\ heard' = heard /\ received' = received
  BY DEF DataReceived
<1>3. 1 \in Nat /\ r \in Nat /\ r + 1 \in Nat /\ 1 <= 1 /\ r <= n /\ 1 <= r + 1 /\ n <= n /\ r + 1 <= n + 1
  BY <1>1
<1>4. Stream(line) /\ Stream(rxBuffer) BY DEF RxIInv, InOrder
<1>5. /\ a \in Seq(InByte) /\ Len(a) = r - 1 + 1
      /\ \A j \in 1..(r - 1 + 1) : a[j] = line[1 + j - 1] /\ 1 + j - 1 \in 1..n
  BY <1>1, <1>3, Cut
<1>6. /\ b \in Seq(InByte) /\ Len(b) = n - (r + 1) + 1
      /\ \A j \in 1..(n - (r + 1) + 1) : b[j] = line[(r + 1) + j - 1] /\ (r + 1) + j - 1 \in 1..n
  BY <1>1, <1>3, Cut
<1>7. Stream(a) BY <1>1, <1>3, <1>4, CutStream
<1>8. Stream(b) BY <1>1, <1>3, <1>4, CutStream
<1> HIDE DEF a, b, n
<1>9. ASSUME NEW j \in 1..Len(a)
      PROVE  j \in 1..n /\ j <= r /\ a[j] = line[j]
  <2>1. j \in 1..(r - 1 + 1) /\ 1 + j - 1 = j BY <1>1, <1>5
  <2> QED BY <1>1, <1>5, <2>1
<1>10. ASSUME NEW j \in 1..Len(b)
       PROVE  r + j \in 1..n /\ r + j > r /\ b[j] = line[r + j]
  <2>1. j \in 1..(n - (r + 1) + 1) /\ (r + 1) + j - 1 = r + j BY <1>1, <1>6
  <2> QED BY <1>1, <1>6, <2>1
<1>11. ASSUME NEW j \in 1..Len(rxBuffer), NEW k \in 1..Len(a) PROVE Before(rxBuffer[j], a[k])
  BY <1>9 DEF RxIInv, InOrder, n
<1>12. Stream(rxBuffer \o a) BY <1>1, <1>4, <1>5, <1>7, <1>11, JoinStreams
<1>13. /\ rxBuffer \o a \in Seq(InByte) /\ Len(rxBuffer \o a) = Len(rxBuffer) + Len(a)
       /\ \A j \in 1..(Len(rxBuffer) + Len(a)) :
              (rxBuffer \o a)[j] = IF j <= Len(rxBuffer) THEN rxBuffer[j] ELSE a[j - Len(rxBuffer)]
  BY <1>1, <1>5, ConcatProperties
<1>14. Stream(rxBuffer)' BY <1>2, <1>12, BufferKept
<1>15. Stream(line)' BY <1>2, <1>8, LineKept
<1>16. ASSUME NEW j \in 1..Len(rxBuffer'), NEW k \in 1..Len(line') PROVE Before(rxBuffer'[j], line'[k])
  <2>1. r + k \in 1..n /\ r + k > r /\ line'[k] = line[r + k] BY <1>2, <1>10
  <2>2. Len(a) \in Nat BY <1>5, LenProperties
  <2>3. CASE j <= Len(rxBuffer)
    <3>1. j \in 1..Len(rxBuffer) /\ rxBuffer'[j] = rxBuffer[j] BY <1>1, <1>2, <1>13, <2>2, <2>3
    <3> QED BY <2>1, <3>1 DEF RxIInv, InOrder, n
  <2>4. CASE j > Len(rxBuffer)
    <3>1. j - Len(rxBuffer) \in 1..Len(a) /\ rxBuffer'[j] = a[j - Len(rxBuffer)]
      BY <1>1, <1>2, <1>13, <2>2, <2>4
    <3> DEFINE m == j - Len(rxBuffer)
    <3>2. m \in 1..n /\ m <= r /\ a[m] = line[m] BY <1>9, <3>1
    <3>3. m < r + k
      <4>1. k \in Nat /\ m \in Nat BY <1>1, <3>2, <1>2, <1>6
      <4> HIDE DEF m
      <4> QED BY <1>1, <2>1, <3>2, <4>1
    <3>4. Before(line[m], line[r + k])
      <4> HIDE DEF m
      <4> QED BY <1>4, <2>1, <3>2, <3>3 DEF Stream, n
    <3> QED BY <2>1, <3>1, <3>2, <3>4
  <2> QED BY <1>1, <1>2, <1>13, <2>2, <2>3, <2>4
<1>17. InOrder' BY <1>14, <1>15, <1>16 DEF InOrder
<1>18. Intact' BY <1>2, IntactKept DEF RxIInv
<1>19. BufferIsTimed' BY <1>2 DEF BufferIsTimed
<1>20. RxTypeOK'
  <2>1. Len(rxBuffer') <= RxBufSize BY <1>1, <1>2, <1>5, <1>13
  <2> QED BY <1>2, <1>6, <1>13, <2>1 DEF RxIInv, RxTypeOK
<1> QED BY <1>17, <1>18, <1>19, <1>20 DEF RxIInv

\* emd_rtu_reset_rx and a failed read empty the buffer.
LEMMA EmptyingKeeps == ASSUME RxIInv, ReadFails \/ ResetRx PROVE RxIInv'
<1>1. /\ rxBuffer' = <<>> /\ disturbed' = TRUE /\ line' = line /\ charTimer' = charTimer
      /\ rxPdu' = rxPdu /\ heard' = heard /\ noise' = noise /\ received' = received
  BY DEF ReadFails, ResetRx
<1>2. <<>> \in Seq(InByte) /\ Len(<<>>) = 0 /\ RxBufSize \in Nat
  BY EmptySeq, InSizesAssumption DEF InSizesAssumption
<1>3. RxTypeOK' BY <1>1, <1>2 DEF RxIInv, RxTypeOK
<1>4. InOrder'
  <2>1. Stream(line)' BY <1>1, LineKept DEF RxIInv, InOrder
  <2>2. Stream(rxBuffer)' BY <1>1, EmptyStream, BufferKept
  <2> QED BY <1>1, <1>2, <2>1, <2>2 DEF InOrder
<1>5. Intact' BY <1>1, IntactKept DEF RxIInv
<1> QED BY <1>1, <1>3, <1>4, <1>5 DEF RxIInv, BufferIsTimed

\* A buffer posted or taken back changes none of this.
LEMMA PostKeeps == ASSUME RxIInv, NEW p \in MaxData \cup {NoPdu}, Post(p) PROVE RxIInv'
<1>1. /\ rxPdu' = p /\ rxBuffer' = rxBuffer /\ line' = line /\ charTimer' = charTimer
      /\ heard' = heard /\ noise' = noise /\ received' = received
  BY DEF Post
<1>2. RxTypeOK'
  <2>1. disturbed' \in BOOLEAN BY Zenon DEF Post
  <2> QED BY <1>1, <2>1 DEF RxIInv, RxTypeOK
<1>3. InOrder'
  <2>1. Stream(line)' /\ Stream(rxBuffer)' BY <1>1, LineKept, BufferKept DEF RxIInv, InOrder
  <2> QED BY <1>1, <2>1 DEF RxIInv, InOrder
<1>4. Intact' BY <1>1, IntactKept DEF RxIInv
<1> QED BY <1>1, <1>2, <1>3, <1>4 DEF RxIInv, BufferIsTimed

\* The bytes of an accepted packet are those of one frame.  All that was handed
\* up before is older than it, and all that is still on the line younger.
LEMMA AcceptedFrame ==
    ASSUME RxIInv, Accepted
    PROVE  \E k \in 1..heard :
              /\ rxBuffer = InFrame(k) /\ rxBuffer[1] = <<k, 1>>
              /\ \A i \in DOMAIN received : received[i][1][1] < k
              /\ \A j \in 1..Len(line) : k < line[j][1]
<1>1. PICK k \in 1..heard : rxBuffer = InFrame(k) BY DEF Accepted, ChecksumGood
<1>2. k \in 1..Len(InSize)
  BY InSizesAssumption, LenProperties DEF RxIInv, RxTypeOK, InSizesAssumption
<1>3. InSize[k] \in Nat /\ InSize[k] >= 4 BY <1>2, InFrames
<1>4. Len(rxBuffer) = InSize[k] /\ \A i \in 1..InSize[k] : rxBuffer[i] = <<k, i>>
  BY <1>1, <1>2, InFrameBytes
<1>5. 1 \in 1..Len(rxBuffer) /\ InSize[k] \in 1..Len(rxBuffer) BY <1>3, <1>4
<1>6. rxBuffer[1] = <<k, 1>> /\ rxBuffer[InSize[k]] = <<k, InSize[k]>> BY <1>4, <1>5
<1>7. \A i \in DOMAIN received : received[i][1][1] < k
  <2>1. AfterReceived(rxBuffer[1]) BY <1>5 DEF RxIInv, InOrder, Stream
  <2> QED BY <1>6, <2>1 DEF AfterReceived
<1>8. ASSUME NEW j \in 1..Len(line) PROVE k < line[j][1]
  <2>1. Before(rxBuffer[InSize[k]], line[j]) BY <1>5 DEF RxIInv, InOrder
  <2>2. k < line[j][1] \/ (k = line[j][1] /\ InSize[k] < line[j][2])
    BY <1>6, <2>1 DEF Before
  <2>3. line[j][2] \in 1..InSize[line[j][1]] BY DEF RxIInv, InOrder, Stream, Heard
  <2> QED BY <1>3, <2>2, <2>3
<1> QED BY <1>1, <1>6, <1>7, <1>8

\* The character timer's handler empties the buffer; what it hands up is younger
\* than all before, and older than what the line still holds.
LEMMA CharTimeoutKeeps == ASSUME RxIInv, CharTimeout PROVE RxIInv'
<1>1. /\ rxBuffer' = <<>> /\ line' = line /\ charTimer' = FALSE
      /\ rxPdu' = rxPdu /\ heard' = heard /\ noise' = noise
  BY DEF CharTimeout
<1>2. <<>> \in Seq(InByte) /\ Len(<<>>) = 0 /\ RxBufSize \in Nat
  BY EmptySeq, InSizesAssumption DEF InSizesAssumption
<1>3. disturbed' \in BOOLEAN BY Zenon DEF CharTimeout
<1>4. BufferIsTimed' BY <1>1 DEF BufferIsTimed
<1>5. ASSUME received' \in Seq(Seq(InByte)) PROVE RxTypeOK'
  <2>1. rxBuffer' \in Seq(InByte) /\ Len(rxBuffer') <= RxBufSize BY <1>1, <1>2
  <2>2. line' \in Seq(InByte) /\ charTimer' \in BOOLEAN BY <1>1 DEF RxIInv, RxTypeOK
  <2>3. /\ rxPdu' \in MaxData \cup {NoPdu}
        /\ heard' \in 0..Len(InSize) /\ noise' \in 0..MaxNoise
    BY <1>1 DEF RxIInv, RxTypeOK
  <2> QED BY <1>3, <1>5, <2>1, <2>2, <2>3 DEF RxTypeOK
<1>6. CASE ~Accepted
  <2>1. received' = received BY <1>6 DEF CharTimeout
  <2>2. RxTypeOK' BY <1>5, <2>1 DEF RxIInv, RxTypeOK
  <2>3. InOrder'
    <3>1. Stream(line)' BY <1>1, <2>1, LineKept DEF RxIInv, InOrder
    <3>2. Stream(rxBuffer)' BY <1>1, <2>1, EmptyStream, BufferKept
    <3> QED BY <1>1, <1>2, <3>1, <3>2 DEF InOrder
  <2>4. Intact' BY <1>1, <2>1, IntactKept DEF RxIInv
  <2> QED BY <1>4, <2>2, <2>3, <2>4 DEF RxIInv
<1>7. CASE Accepted
  <2>1. PICK k \in 1..heard :
              /\ rxBuffer = InFrame(k) /\ rxBuffer[1] = <<k, 1>>
              /\ \A i \in DOMAIN received : received[i][1][1] < k
              /\ \A j \in 1..Len(line) : k < line[j][1]
    BY <1>7, AcceptedFrame
  <2> DEFINE n == Len(received)
  <2>2. received \in Seq(Seq(InByte)) /\ rxBuffer \in Seq(InByte) BY DEF RxIInv, RxTypeOK
  <2>3. n \in Nat /\ DOMAIN received = 1..n BY <2>2, LenProperties
  <2>4. received' = Append(received, rxBuffer) BY <1>7 DEF CharTimeout
  <2>5. received' \in Seq(Seq(InByte)) /\ Len(received') = n + 1 /\ DOMAIN received' = 1..(n + 1)
    BY <2>2, <2>4, AppendProperties, LenProperties
  <2>6. \A i \in 1..n : received'[i] = received[i] BY <2>2, <2>4, AppendProperties
  <2>7. received'[n + 1] = rxBuffer BY <2>2, <2>4, AppendProperties
  <2>8. received'[n + 1][1][1] = k BY <2>1, <2>7
  <2> HIDE DEF n
  <2>9. \A i \in 1..(n + 1) : i \in 1..n \/ i = n + 1 BY <2>3
  <2>10. RxTypeOK' BY <1>5, <2>5
  <2>11. Intact'
    <3>1. \A i \in 1..(n + 1) : \E f \in 1..heard : received'[i] = InFrame(f)
      BY <2>1, <2>3, <2>6, <2>7, <2>9 DEF RxIInv, Intact
    <3>2. ASSUME NEW i \in 1..(n + 1), NEW j \in 1..(n + 1), i < j
          PROVE  received'[i][1][1] < received'[j][1][1]
      <4>1. i \in 1..n BY <2>3, <3>2
      <4>2. CASE j \in 1..n BY <2>3, <2>6, <3>2, <4>1, <4>2 DEF RxIInv, Intact
      <4>3. CASE j = n + 1 BY <2>1, <2>3, <2>6, <2>8, <4>1, <4>3
      <4> QED BY <2>9, <4>2, <4>3
    <3> QED BY <1>1, <2>5, <3>1, <3>2 DEF Intact
  <2>12. Stream(line)'
    <3>1. ASSUME NEW j \in 1..Len(line) PROVE (Heard(line[j]) /\ AfterReceived(line[j]))'
      <4>1. Heard(line[j]) /\ AfterReceived(line[j]) BY DEF RxIInv, InOrder, Stream
      <4>2. Heard(line[j])' BY <1>1, <4>1 DEF Heard
      <4>3. \A i \in 1..(n + 1) : received'[i][1][1] < line[j][1]
        BY <2>1, <2>3, <2>6, <2>8, <2>9, <4>1 DEF AfterReceived
      <4> QED BY <1>1, <2>5, <4>2, <4>3 DEF AfterReceived
    <3>2. \A i, j \in 1..Len(line) : i < j => Before(line[i], line[j])
      BY DEF RxIInv, InOrder, Stream
    <3> QED BY <1>1, <3>1, <3>2 DEF Stream, Before
  <2>13. InOrder'
    <3>1. Stream(rxBuffer)' BY <1>1, <1>2 DEF Stream
    <3> QED BY <1>1, <1>2, <2>12, <3>1 DEF InOrder
  <2> QED BY <1>4, <2>10, <2>11, <2>13 DEF RxIInv
<1> QED BY <1>6, <1>7

\* Every step keeps the invariant.
LEMMA RxNextIInv == RxIInv /\ [RxNext]_rxVars => RxIInv'
<1> SUFFICES ASSUME RxIInv, [RxNext]_rxVars PROVE RxIInv' OBVIOUS
<1>1. CASE PeerSends BY <1>1, PeerSendsKeeps
<1>2. CASE \E i \in DOMAIN line : LoseByte(i) BY <1>2, LoseByteKeeps
<1>3. CASE \E p \in MaxData \cup {NoPdu} : Post(p) BY <1>3, PostKeeps
<1>4. CASE \E r \in 1..RxBufSize : DataReceived(r) BY <1>4, DataReceivedKeeps
<1>5. CASE ReadFails \/ ResetRx BY <1>5, EmptyingKeeps
<1>6. CASE CharTimeout BY <1>6, CharTimeoutKeeps
<1>7. CASE UNCHANGED rxVars
  <2>1. /\ line' = line /\ rxBuffer' = rxBuffer /\ charTimer' = charTimer /\ rxPdu' = rxPdu
        /\ heard' = heard /\ noise' = noise /\ received' = received /\ disturbed' = disturbed
    BY <1>7 DEF rxVars
  <2>2. InOrder'
    <3>1. Stream(line)' /\ Stream(rxBuffer)' BY <2>1, LineKept, BufferKept DEF RxIInv, InOrder
    <3> QED BY <2>1, <3>1 DEF RxIInv, InOrder
  <2>3. Intact' BY <2>1, IntactKept DEF RxIInv
  <2> QED BY <2>1, <2>2, <2>3 DEF RxIInv, RxTypeOK, BufferIsTimed
<1> QED BY <1>1, <1>2, <1>3, <1>4, <1>5, <1>6, <1>7 DEF RxNext

-----------------------------------------------------------------------------
\* The invariant the theorems below are read off.
THEOREM RxInvariance == RxSpec => []RxIInv
<1>1. RxInit => RxIInv BY RxInitIInv
<1>2. RxIInv /\ [RxNext]_rxVars => RxIInv' BY RxNextIInv
<1> QED BY <1>1, <1>2, PTL DEF RxSpec

\* emb_rtu_port_event never writes behind the end of rx_buffer, whatever its size
\* and whatever the line brings; and rx_buffer never holds bytes while the timer
\* whose callback empties it is not pending, through failed reads and
\* emd_rtu_reset_rx.
THEOREM RxInvCorrect == RxSpec => []RxInv
<1>1. RxIInv => RxInv BY DEF RxIInv, RxInv
<1> QED BY <1>1, RxInvariance, PTL

\* parse_packet hands up whole frames, each at most once and in the order they
\* were sent, for any sizes, losses, pauses and buffers posted.
THEOREM ReceivedIntact == RxSpec => []Intact
<1>1. RxIInv => Intact BY DEF RxIInv
<1> QED BY <1>1, RxInvariance, PTL

-----------------------------------------------------------------------------
\* While nothing was disturbed frames come one by one: between two of them
\* nothing is on its way and all were handed up, ...
Delivered(n) == received = [k \in 1..n |-> InFrame(k)]
Between == Quiet /\ Delivered(heard)

\* ... and otherwise one is, in the buffer and on the line, and nothing else.
OnTheWay ==
    /\ heard # 0 /\ Delivered(heard - 1) /\ Wanted(heard)
    /\ rxBuffer \o line = InFrame(heard)
OneByOne == ~disturbed => Between \/ OnTheWay

\* The next frame is handed up.
LEMMA OneMore ==
    ASSUME NEW n \in Nat, n < Len(InSize), Delivered(n)
    PROVE  Append(received, InFrame(n + 1)) = [k \in 1..(n + 1) |-> InFrame(k)]
<1> DEFINE all(m) == [k \in 1..m |-> InFrame(k)]
<1>1. Len(InSize) \in Nat
  BY InSizesAssumption, LenProperties DEF InSizesAssumption
<1>2. \A k \in 1..(n + 1) : InFrame(k) \in Seq(InByte)
  BY <1>1, InFrameBytes
<1>3. /\ all(n) \in Seq(Seq(InByte)) /\ Len(all(n)) = n
      /\ all(n + 1) \in Seq(Seq(InByte)) /\ Len(all(n + 1)) = n + 1
  <2>1. all(n) \in [1..n -> Seq(InByte)] /\ all(n + 1) \in [1..(n + 1) -> Seq(InByte)]
    BY <1>2
  <2>2. n + 1 \in Nat OBVIOUS
  <2> QED BY <2>1, <2>2, LenProperties, SeqDef
<1>4. received = all(n) BY DEF Delivered
<1> DEFINE new == Append(received, InFrame(n + 1))
<1>5. /\ new \in Seq(Seq(InByte)) /\ Len(new) = n + 1
      /\ \A i \in 1..n : new[i] = received[i]
      /\ new[n + 1] = InFrame(n + 1)
  <2>1. received \in Seq(Seq(InByte)) /\ Len(received) = n /\ InFrame(n + 1) \in Seq(InByte)
    BY <1>2, <1>3, <1>4
  <2> QED BY <2>1, AppendProperties
<1>6. \A i \in 1..(n + 1) : all(n + 1)[i] = InFrame(i) OBVIOUS
<1>7. \A i \in 1..n : received[i] = InFrame(i) BY <1>4
<1> HIDE DEF new, all
<1>8. ASSUME NEW i \in 1..(n + 1) PROVE new[i] = all(n + 1)[i]
  <2>1. all(n + 1)[i] = InFrame(i) BY <1>6
  <2>2. CASE i = n + 1 BY <1>5, <2>1, <2>2, Zenon
  <2>3. CASE i \in 1..n
    <3>1. received[i] = InFrame(i) /\ new[i] = received[i] BY <1>5, <1>7, <2>3, Zenon
    <3> QED BY <2>1, <3>1, Zenon
  <2>4. i = n + 1 \/ i \in 1..n OBVIOUS
  <2> QED BY <2>2, <2>3, <2>4, Zenon
<1>9. new = all(n + 1) BY <1>3, <1>5, <1>8, SeqEqual
<1> QED BY <1>9 DEF new, all

LEMMA InitOneByOne == RxInit => OneByOne
<1> SUFFICES ASSUME RxInit PROVE Between
  BY DEF OneByOne
<1>1. received = [k \in 1..0 |-> InFrame(k)]
  BY DEF RxInit
<1> QED BY <1>1 DEF RxInit, Between, Quiet, Delivered

LEMMA NextOneByOne == RxIInv /\ OneByOne /\ [RxNext]_rxVars => OneByOne'
<1> SUFFICES ASSUME RxIInv, OneByOne, [RxNext]_rxVars, ~disturbed' PROVE Between' \/ OnTheWay'
  BY DEF OneByOne
<1>1. /\ line \in Seq(InByte) /\ rxBuffer \in Seq(InByte) /\ disturbed \in BOOLEAN /\ charTimer \in BOOLEAN
      /\ heard \in 0..Len(InSize) /\ heard \in Nat /\ Len(InSize) \in Nat
      /\ Len(line) \in Nat /\ Len(rxBuffer) \in Nat
  BY InSizesAssumption, LenProperties DEF RxIInv, RxTypeOK, InSizesAssumption
<1>2. CASE PeerSends
  <2>1. /\ Quiet /\ Wanted(heard + 1) /\ ~disturbed /\ heard < Len(InSize) /\ heard' = heard + 1
        /\ line' = line \o InFrame(heard + 1)
        /\ UNCHANGED <<rxBuffer, charTimer, rxPdu, noise, received>>
    BY <1>1, <1>2 DEF PeerSends
  <2>2. heard + 1 \in 1..Len(InSize) BY <1>1, <2>1
  <2>3. InFrame(heard + 1) \in Seq(InByte) /\ Len(InFrame(heard + 1)) = InSize[heard + 1] /\ InSize[heard + 1] >= 4
    BY <2>2, InFrameBytes, InFrames
  <2>4. Delivered(heard)
    <3>1. CASE Between BY <3>1 DEF Between
    <3>2. CASE OnTheWay
      <4>1. rxBuffer \o line = <<>> BY <2>1 DEF Quiet
      <4>2. heard \in 1..Len(InSize) BY <1>1, <3>2 DEF OnTheWay
      <4>3. Len(InFrame(heard)) = InSize[heard] /\ InSize[heard] >= 4 /\ InSize[heard] \in Nat
        BY <4>2, InFrameBytes, InFrames
      <4>4. Len(InFrame(heard)) = 0 BY <3>2, <4>1 DEF OnTheWay
      <4> QED BY <4>3, <4>4
    <3> QED BY <2>1, <3>1, <3>2 DEF OneByOne
  <2>5. (rxBuffer \o line = InFrame(heard))'
    <3>1. rxBuffer = <<>> /\ line = <<>> BY <2>1 DEF Quiet
    <3>2. <<>> \o InFrame(heard + 1) = InFrame(heard + 1) BY <2>3
    <3>3. line' = InFrame(heard + 1) /\ rxBuffer' = <<>> BY <2>1, <3>1, <3>2
    <3>4. InFrame(heard)' = InFrame(heard + 1)
      <4>1. heard' = heard + 1 BY <2>1
      <4> QED BY <4>1 DEF InFrame
    <3> QED BY <3>2, <3>3, <3>4, Zenon
  <2>6. heard' # 0 /\ heard' - 1 = heard
    <3>1. heard \in Nat BY <1>1
    <3>2. heard' = heard + 1 BY <2>1
    <3> QED BY <3>1, <3>2
  <2>7. Delivered(heard - 1)'
    <3>1. received' = received /\ Delivered(heard) BY <2>1, <2>4
    <3>2. heard' - 1 = heard BY <2>6
    <3> QED BY <3>1, <3>2 DEF Delivered, InFrame
  <2>8. Wanted(heard)' BY <2>1 DEF Wanted
  <2> QED BY <2>5, <2>6, <2>7, <2>8 DEF OnTheWay
<1>3. CASE \E i \in DOMAIN line : LoseByte(i) BY <1>3 DEF LoseByte
<1>4. CASE \E p \in MaxData \cup {NoPdu} : Post(p)
  <2>1. /\ Quiet /\ ~disturbed
        /\ UNCHANGED <<line, rxBuffer, charTimer, heard, noise, received>>
    BY <1>1, <1>4 DEF Post
  <2>2. Between
    <3>1. ~OnTheWay
      <4>1. rxBuffer \o line = <<>> BY <2>1 DEF Quiet
      <4>2. ASSUME heard # 0 PROVE InFrame(heard) # <<>>
        <5>1. heard \in 1..Len(InSize) BY <1>1, <4>2
        <5>2. Len(InFrame(heard)) = InSize[heard] /\ InSize[heard] >= 4 /\ InSize[heard] \in Nat
          BY <5>1, InFrameBytes, InFrames
        <5> QED BY <5>2
      <4> QED BY <4>1, <4>2 DEF OnTheWay
    <3> QED BY <2>1, <3>1 DEF OneByOne
  <2> QED BY <2>1, <2>2 DEF Between, Quiet, Delivered
<1>5. CASE \E r \in 1..RxBufSize : DataReceived(r)
  <2>1. PICK r \in 1..RxBufSize : DataReceived(r) BY <1>5
  <2>2. /\ r \in 1..Len(line) /\ rxBuffer' = rxBuffer \o SubSeq(line, 1, r)
        /\ line' = SubSeq(line, r + 1, Len(line))
        /\ UNCHANGED <<rxPdu, heard, noise, received, disturbed>>
    BY <2>1 DEF DataReceived
  <2>3. ~Between BY <1>1, <2>2 DEF Between, Quiet
  <2>4. OnTheWay BY <2>2, <2>3 DEF OneByOne
  <2>5. rxBuffer' \o line' = rxBuffer \o line
    <3> DEFINE a == SubSeq(line, 1, r)
               b == SubSeq(line, r + 1, Len(line))
    <3>1. a \in Seq(InByte) /\ b \in Seq(InByte) /\ a \o b = line
      <4>1. /\ 1 \in Nat /\ r \in Nat /\ r + 1 \in Nat /\ 1 <= 1 /\ r <= Len(line) /\ 1 <= r + 1
            /\ Len(line) <= Len(line) /\ r + 1 <= Len(line) + 1
        BY <1>1, <2>2
      <4>2. /\ a \in Seq(InByte) /\ Len(a) = r - 1 + 1
            /\ \A i \in 1..(r - 1 + 1) : a[i] = line[1 + i - 1] /\ 1 + i - 1 \in 1..Len(line)
        BY <1>1, <4>1, Cut
      <4>3. /\ b \in Seq(InByte) /\ Len(b) = Len(line) - (r + 1) + 1
            /\ \A i \in 1..(Len(line) - (r + 1) + 1) :
                  b[i] = line[(r + 1) + i - 1] /\ (r + 1) + i - 1 \in 1..Len(line)
        BY <1>1, <4>1, Cut
      <4> HIDE DEF a, b
      <4>4. /\ a \o b \in Seq(InByte) /\ Len(a \o b) = Len(a) + Len(b)
            /\ \A i \in 1..(Len(a) + Len(b)) : (a \o b)[i] = IF i <= Len(a) THEN a[i] ELSE b[i - Len(a)]
        BY <4>2, <4>3, ConcatProperties
      <4>5. Len(a) = r /\ Len(b) = Len(line) - r /\ Len(a \o b) = Len(line)
        BY <1>1, <4>1, <4>2, <4>3, <4>4
      <4>6. ASSUME NEW i \in 1..Len(line) PROVE (a \o b)[i] = line[i]
        <5>1. CASE i <= r
          <6>1. (a \o b)[i] = a[i] /\ i \in 1..(r - 1 + 1) /\ 1 + i - 1 = i
            BY <1>1, <4>1, <4>4, <4>5, <5>1
          <6> QED BY <4>2, <6>1
        <5>2. CASE i > r
          <6> DEFINE m == i - r
          <6>1. (a \o b)[i] = b[m]
            BY <1>1, <4>1, <4>4, <4>5, <5>2
          <6>2. m \in 1..(Len(line) - (r + 1) + 1) /\ (r + 1) + m - 1 = i
            BY <1>1, <4>1, <5>2
          <6> HIDE DEF m
          <6>3. b[m] = line[(r + 1) + m - 1] BY <4>3, <6>2
          <6> QED BY <6>1, <6>2, <6>3, Zenon
        <5>3. i <= r \/ i > r BY <4>1
        <5> QED BY <5>1, <5>2, <5>3, Zenon
      <4> DEFINE ab == a \o b
      <4>7. ab \in Seq(InByte) /\ Len(ab) = Len(line) /\ \A i \in 1..Len(line) : ab[i] = line[i]
        BY <4>4, <4>5, <4>6
      <4> HIDE DEF ab
      <4>8. ab = line BY <1>1, <4>7, SeqEqual
      <4> QED BY <4>2, <4>3, <4>8 DEF ab
    <3> HIDE DEF a, b
    <3>2. rxBuffer \in Seq(InByte) /\ a \in Seq(InByte) /\ b \in Seq(InByte) BY <1>1, <3>1
    <3>3. (rxBuffer \o a) \o b = rxBuffer \o (a \o b) BY <3>2, ConcatAssociative
    <3>4. rxBuffer' = rxBuffer \o a /\ line' = b BY <2>2 DEF a, b
    <3> QED BY <3>1, <3>3, <3>4, Zenon
  <2>6. OnTheWay' BY <2>2, <2>4, <2>5 DEF OnTheWay, Delivered, Wanted, InFrame
  <2> QED BY <2>6
<1>6. CASE ReadFails \/ ResetRx BY <1>6 DEF ReadFails, ResetRx
<1>7. CASE CharTimeout
  <2>1. /\ charTimer /\ charTimer' = FALSE /\ ~disturbed /\ line = <<>> /\ rxBuffer' = <<>>
        /\ received' = IF Accepted THEN Append(received, rxBuffer) ELSE received
        /\ UNCHANGED <<line, rxPdu, heard, noise>>
    BY <1>1, <1>7 DEF CharTimeout
  <2>2. OnTheWay BY <2>1 DEF OneByOne, Between, Quiet
  <2>3. heard \in 1..Len(InSize) /\ heard - 1 \in Nat /\ heard - 1 < Len(InSize) /\ (heard - 1) + 1 = heard
    BY <1>1, <2>2 DEF OnTheWay
  <2>4. rxBuffer = InFrame(heard)
    <3>1. rxBuffer \o <<>> = rxBuffer BY <1>1
    <3> QED BY <2>1, <2>2, <3>1 DEF OnTheWay
  <2>5. Accepted
    <3>1. Len(rxBuffer) = InSize[heard] /\ InSize[heard] >= 4 BY <2>3, <2>4, InFrameBytes, InFrames
    <3>2. heard \in 1..heard BY <2>3
    <3>3. ChecksumGood(rxBuffer) BY <2>4, <3>2 DEF ChecksumGood
    <3>4. rxPdu # NoPdu /\ InSize[heard] - 4 <= rxPdu BY <2>2 DEF OnTheWay, Wanted
    <3> QED BY <3>1, <3>3, <3>4 DEF Accepted
  <2>6. received' = [k \in 1..heard |-> InFrame(k)]
    <3>1. Delivered(heard - 1) BY <2>2 DEF OnTheWay
    <3>2. Append(received, InFrame((heard - 1) + 1)) = [k \in 1..((heard - 1) + 1) |-> InFrame(k)]
      BY <2>3, <3>1, OneMore
    <3> QED BY <2>1, <2>3, <2>4, <2>5, <3>2
  <2>7. Between' BY <2>1, <2>6 DEF Between, Quiet, Delivered, InFrame
  <2> QED BY <2>7
<1>8. CASE UNCHANGED rxVars
  BY <1>8 DEF rxVars, OneByOne, Between, OnTheWay, Quiet, Delivered, Wanted, InFrame
<1> QED BY <1>2, <1>3, <1>4, <1>5, <1>6, <1>7, <1>8 DEF RxNext

\* Of frames that come alone, without a pause in them and with a buffer posted
\* that is large enough, parse_packet hands up every one, in order: no size, that
\* of rx_buffer or rx_pdu included, and no way the port cuts a frame into reads
\* costs one.
THEOREM NothingLost == RxSpec => []AllReceived
<1>1. RxInit => OneByOne BY InitOneByOne
<1>2. RxIInv /\ OneByOne /\ [RxNext]_rxVars => OneByOne' BY NextOneByOne
<1>3. RxIInv /\ OneByOne => AllReceived
  <2> SUFFICES ASSUME RxIInv, OneByOne, Quiet, ~disturbed PROVE received = [k \in 1..heard |-> InFrame(k)]
    BY DEF AllReceived
  <2>1. CASE Between BY <2>1 DEF Between, Delivered
  <2>2. CASE OnTheWay
    <3>1. heard \in 1..Len(InSize)
      BY <2>2, InSizesAssumption, LenProperties DEF OnTheWay, RxIInv, RxTypeOK, InSizesAssumption
    <3>2. Len(InFrame(heard)) = InSize[heard] /\ InSize[heard] >= 4 /\ InSize[heard] \in Nat
      BY <3>1, InFrameBytes, InFrames
    <3>3. rxBuffer \o line = <<>> BY DEF Quiet
    <3>4. Len(InFrame(heard)) = 0 BY <2>2, <3>3 DEF OnTheWay
    <3> QED BY <3>2, <3>4
  <2> QED BY <2>1, <2>2 DEF OneByOne
<1> QED BY <1>1, <1>2, <1>3, RxInvariance, PTL DEF RxSpec
=============================================================================
