-------------------------- MODULE TcpServerProofs --------------------------
(***************************************************************************)
(* TcpServer for any connections, requests, sizes and limits: the counter  *)
(* of connections and the receive timeout are right; an answer goes to the *)
(* connection that asked; and no request is put together from pieces of    *)
(* others without a disturbance.                                           *)
(*                                                                         *)
(* Nothing is said of whose bytes are in rx_buf to show that answers go to *)
(* the right connection.  It is enough that what is there is never a whole *)
(* request: then the last byte of each came with the event that completed  *)
(* it, and so from the connection that is answered.                        *)
(***************************************************************************)
EXTENDS TcpServer, SequenceTheorems, FiniteSetTheorems, TLAPS

\* The bytes of a connection that the transport has not read, and the answers to
\* it.
Stream(c) == input[c] \o net[c]
Answers(c) == got[c] \o output[c]

\* Bytes of requests that connection c made, each once and in order.
AskedBy(c, k) == k \in 1..Len(asked) /\ asked[k].conn = c
Made(c, s) ==
    /\ \A i \in 1..Len(s) : AskedBy(c, s[i][1]) /\ s[i][2] <= RequestSize[s[i][1]]
    /\ \A i, j \in 1..Len(s) :
          i < j => s[i][1] < s[j][1] \/ (s[i][1] = s[j][1] /\ s[i][2] < s[j][2])

\* Answers of connection c.
Owned(c, a) ==
    /\ \A i \in 1..Len(a) : a[i].whole => AskedBy(c, a[i].of) /\ ~asked[a[i].of].silent
    /\ \A i, j \in 1..Len(a) : i < j /\ a[i].whole /\ a[j].whole => a[i].of < a[j].of

\* What was answered is not on its way any more.
Ahead(a, s) == \A i \in 1..Len(a), j \in 1..Len(s) : a[i].whole => a[i].of < s[j][1]
InTurn(c, a, s) == Made(c, s) /\ Owned(c, a) /\ Ahead(a, s)

\* What is in rx_buf is not a whole request.
Partial == Len(rxBuf) >= HeaderSize /\ Aligned(rxBuf) => Len(rxBuf) < RequestSize[rxBuf[1][1]]

IInv == Inv /\ Partial /\ \A c \in Conn : InTurn(c, Answers(c), Stream(c))

-----------------------------------------------------------------------------
\* The constants.
LEMMA Sizes ==
    /\ Requests \subseteq Nat \ {0} /\ Requests = 1..Len(RequestSize) /\ Len(RequestSize) \in Nat
    /\ \A k \in Requests :
          RequestSize[k] \in Nat /\ RequestSize[k] >= HeaderSize /\ RequestSize[k] <= RxBufSize
    /\ HeaderSize \in Nat /\ HeaderSize > 0
    /\ RxBufSize \in Nat /\ RxBufSize >= HeaderSize /\ RxBufSize > 0
    /\ GarbageSizes \subseteq Nat /\ Limits \subseteq Nat /\ IsFiniteSet(Conn)
<1>1. RequestSize \in Seq(Nat) /\ Len(RequestSize) \in Nat /\ DOMAIN RequestSize = 1..Len(RequestSize)
    BY SizesAssumption, LenProperties DEF SizesAssumption
<1>2. ASSUME NEW k \in Requests
      PROVE  RequestSize[k] \in Nat /\ RequestSize[k] >= HeaderSize /\ RequestSize[k] <= RxBufSize
    BY <1>1, SizesAssumption, ElementOfSeq DEF SizesAssumption, Requests
<1>3. /\ HeaderSize \in Nat \ {0} /\ RxBufSize \in Nat /\ RxBufSize >= HeaderSize
      /\ GarbageSizes \subseteq Nat /\ Limits \subseteq Nat /\ IsFiniteSet(Conn)
    BY SizesAssumption DEF SizesAssumption
<1>4. Requests \subseteq Nat \ {0} /\ Requests = 1..Len(RequestSize)
    BY <1>1 DEF Requests
<1> QED
    BY <1>1, <1>2, <1>3, <1>4

LEMMA Bytes ==
    ASSUME NEW s \in Seq(Byte)
    PROVE  /\ Len(s) \in Nat /\ DOMAIN s = 1..Len(s)
           /\ \A i \in 1..Len(s) : /\ s[i] \in Byte /\ s[i] = <<s[i][1], s[i][2]>>
                                   /\ s[i][1] \in Requests /\ s[i][1] \in Nat /\ s[i][1] # 0
                                   /\ s[i][2] \in Nat /\ s[i][2] > 0
                                   /\ RequestSize[s[i][1]] \in Nat
<1>1. Len(s) \in Nat /\ DOMAIN s = 1..Len(s)
    BY LenProperties
<1>2. \A i \in 1..Len(s) : s[i] \in Byte
    BY <1>1, ElementOfSeq
<1>3. \A i \in 1..Len(s) : s[i][1] \in Requests /\ s[i][2] \in Nat \ {0} /\ s[i] = <<s[i][1], s[i][2]>>
    BY <1>2 DEF Byte
<1>4. \A k \in Requests : k \in Nat /\ k # 0 /\ RequestSize[k] \in Nat
    BY Sizes
<1>5. \A p \in Nat \ {0} : p \in Nat /\ p > 0
    OBVIOUS
<1> QED
    BY <1>1, <1>2, <1>3, <1>4, <1>5

\* Pieces of a sequence, and two together.
LEMMA Suffix ==
    ASSUME NEW S, NEW s \in Seq(S), NEW n \in Nat, n <= Len(s)
    PROVE  /\ SubSeq(s, n + 1, Len(s)) \in Seq(S)
           /\ Len(SubSeq(s, n + 1, Len(s))) = Len(s) - n
           /\ \A i \in 1..(Len(s) - n) : SubSeq(s, n + 1, Len(s))[i] = s[n + i]
           /\ SubSeq(s, 1, n) \in Seq(S)
           /\ Len(SubSeq(s, 1, n)) = n
           /\ \A i \in 1..n : SubSeq(s, 1, n)[i] = s[i]
BY LenProperties

LEMMA Joined ==
    ASSUME NEW S, NEW s \in Seq(S), NEW t \in Seq(S)
    PROVE  /\ s \o t \in Seq(S) /\ Len(s \o t) = Len(s) + Len(t)
           /\ Len(s) \in Nat /\ Len(t) \in Nat
           /\ \A i \in 1..Len(s) : (s \o t)[i] = s[i]
           /\ \A i \in 1..Len(t) : (s \o t)[Len(s) + i] = t[i]
           /\ \A i \in 1..Len(s \o t) :
                 \/ i \in 1..Len(s) /\ (s \o t)[i] = s[i]
                 \/ i - Len(s) \in 1..Len(t) /\ (s \o t)[i] = t[i - Len(s)]
<1> DEFINE st == s \o t
<1>1. Len(s) \in Nat /\ Len(t) \in Nat
    BY LenProperties
<1>2. /\ st \in Seq(S) /\ Len(st) = Len(s) + Len(t)
      /\ \A i \in 1..Len(s) + Len(t) : st[i] = IF i <= Len(s) THEN s[i] ELSE t[i - Len(s)]
    BY ConcatProperties
<1> HIDE DEF st
<1>3. \A i \in 1..Len(s) : st[i] = s[i]
    BY <1>1, <1>2
<1>4. ASSUME NEW i \in 1..Len(t) PROVE st[Len(s) + i] = t[i]
  <2>1. Len(s) + i \in 1..Len(s) + Len(t) /\ ~(Len(s) + i <= Len(s)) /\ (Len(s) + i) - Len(s) = i
      BY <1>1
  <2> QED
      BY <1>2, <2>1
<1>5. ASSUME NEW i \in 1..Len(st)
      PROVE  \/ i \in 1..Len(s) /\ st[i] = s[i]
             \/ i - Len(s) \in 1..Len(t) /\ st[i] = t[i - Len(s)]
    BY <1>1, <1>2
<1> QED
    BY <1>1, <1>2, <1>3, <1>4, <1>5 DEF st

LEMMA Regrouped ==
    ASSUME NEW S, NEW s \in Seq(S), NEW t \in Seq(S), NEW u \in Seq(S)
    PROVE  (s \o t) \o u = s \o (t \o u)
BY ConcatAssociative

LEMMA CountedIsSeq ==
    ASSUME NEW S, NEW n \in Nat, NEW s \in [1..n -> S]
    PROVE  s \in Seq(S) /\ Len(s) = n
OBVIOUS

\* Cutting a sequence and putting the parts together again.
LEMMA CutAndJoined ==
    ASSUME NEW S, NEW s \in Seq(S), NEW n \in Nat, n <= Len(s)
    PROVE  SubSeq(s, 1, n) \o SubSeq(s, n + 1, Len(s)) = s
<1>1. Len(s) \in Nat /\ 1 \in 1..(Len(s) + 1) /\ n \in (1 - 1)..Len(s) /\ Len(s) \in n..Len(s)
    BY LenProperties
<1>2. SubSeq(s, 1, n) \o SubSeq(s, n + 1, Len(s)) = SubSeq(s, 1, Len(s))
    BY <1>1, ConcatAdjacentSubSeq
<1> QED
    BY <1>2, SubSeqFull

-----------------------------------------------------------------------------
\* The frame of a request, and what it has in common with what was received.
LEMMA Frames ==
    ASSUME NEW k \in Requests
    PROVE  /\ Request(k) \in Seq(Byte) /\ Len(Request(k)) = RequestSize[k]
           /\ \A i \in 1..RequestSize[k] : Request(k)[i] = <<k, i>>
<1>1. \A i \in Nat \ {0} : <<k, i>> \in Byte
    BY DEF Byte
<1>2. RequestSize[k] \in Nat
    BY Sizes
<1>3. Request(k) \in [1..RequestSize[k] -> Byte]
    BY <1>1, <1>2 DEF Request
<1>4. \A i \in 1..RequestSize[k] : Request(k)[i] = <<k, i>>
    BY DEF Request
<1> QED
    BY <1>2, <1>3, <1>4, CountedIsSeq

LEMMA AlignedFirst ==
    ASSUME NEW buf \in Seq(Byte), Len(buf) >= HeaderSize, Aligned(buf)
    PROVE  buf[1][1] \in Requests /\ buf[1] = <<buf[1][1], 1>>
<1>1. PICK k \in Requests : Header(buf) = SubSeq(Request(k), 1, HeaderSize)
    BY DEF Aligned
<1>2. /\ HeaderSize \in Nat /\ 1 \in 1..HeaderSize /\ HeaderSize <= Len(Request(k))
      /\ Request(k) \in Seq(Byte) /\ Request(k)[1] = <<k, 1>>
  <2>1. /\ HeaderSize \in Nat /\ HeaderSize > 0
        /\ RequestSize[k] \in Nat /\ RequestSize[k] >= HeaderSize
      BY Sizes
  <2>2. 1 \in 1..HeaderSize /\ 1 \in 1..RequestSize[k]
      BY <2>1
  <2> QED
      BY <2>1, <2>2, Frames
<1>3. SubSeq(buf, 1, HeaderSize)[1] = buf[1]
    BY <1>2, Suffix
<1>4. SubSeq(Request(k), 1, HeaderSize)[1] = Request(k)[1]
    BY <1>2, Suffix
<1>5. buf[1] = <<k, 1>>
    BY <1>1, <1>2, <1>3, <1>4 DEF Header
<1> QED
    BY <1>5

LEMMA WholeFrame ==
    ASSUME NEW buf \in Seq(Byte), NEW size \in Nat, size <= Len(buf), NEW k \in Requests,
           SubSeq(buf, 1, size) = Request(k)
    PROVE  size = RequestSize[k] /\ \A i \in 1..size : buf[i] = <<k, i>>
<1>1. /\ Len(SubSeq(buf, 1, size)) = size
      /\ \A i \in 1..size : SubSeq(buf, 1, size)[i] = buf[i]
    BY Suffix
<1>2. Len(Request(k)) = RequestSize[k] /\ \A i \in 1..RequestSize[k] : Request(k)[i] = <<k, i>>
    BY Frames
<1> QED
    BY <1>1, <1>2

\* What parse_packet leaves, and answers.
Parse(c, buf, out, more) ==
    /\ rxLength' \in Int /\ rxBuf' \in Seq(Byte) /\ Len(rxBuf') < RxBufSize
    /\ rxBuf' \in {<<>>, buf}
    /\ rxLength' > 0 => buf # <<>>
    /\ Partial'
    /\ \/ output' = out /\ writable' = more
       \/ \E a \in Answer :
             /\ output' = [out EXCEPT ![c] = Append(@, a)]
             /\ writable' = more \cup {c}
             /\ a.whole => /\ a.of \in Requests /\ ~asked[a.of].silent
                           /\ Aligned(buf) /\ buf[1][1] = a.of
                           /\ RequestSize[a.of] <= Len(buf)
                           /\ buf[RequestSize[a.of]] = <<a.of, RequestSize[a.of]>>

LEMMA Parsed ==
    ASSUME NEW c \in Conn, NEW buf \in Seq(Byte), NEW out, NEW more, Len(buf) <= RxBufSize,
           ParsePacket(c, buf, out, more)
    PROVE  Parse(c, buf, out, more)
<1>1. /\ Len(buf) \in Nat /\ RxBufSize \in Nat /\ RxBufSize > 0
      /\ HeaderSize \in Nat /\ HeaderSize > 0 /\ HeaderSize <= RxBufSize
      /\ <<>> \in Seq(Byte) /\ Len(<<>>) = 0
    BY Sizes, LenProperties, EmptySeq
<1>2. CASE Len(buf) < HeaderSize
  <2>1. rxLength' = -1 /\ rxBuf' = buf /\ output' = out /\ writable' = more
      BY <1>1, <1>2 DEF ParsePacket
  <2>2. Partial'
      BY <1>1, <1>2, <2>1 DEF Partial
  <2>3. rxLength' \in Int /\ ~(rxLength' > 0)
      BY <2>1
  <2>4. Len(buf) < RxBufSize
      BY <1>1, <1>2
  <2> QED
      BY <2>1, <2>2, <2>3, <2>4 DEF Parse
<1>3. CASE Len(buf) >= HeaderSize
  <2>1. PICK size \in SizesRead(buf) :
           /\ rxLength' = size - Len(buf)
           /\ IF rxLength' > 0
              THEN /\ rxBuf' = IF Len(buf) = RxBufSize THEN <<>> ELSE buf
                   /\ output' = out /\ writable' = more
              ELSE rxBuf' = <<>> /\ ServeFrame(c, buf, size, out, more)
      BY <1>1, <1>3 DEF ParsePacket
  <2>2. size \in Nat /\ (Aligned(buf) => size = RequestSize[buf[1][1]])
    <3>1. CASE Aligned(buf)
        BY <1>3, <3>1, AlignedFirst, Sizes DEF SizesRead
    <3>2. CASE ~Aligned(buf)
        BY <3>2, Sizes DEF SizesRead
    <3> QED
        BY <3>1, <3>2
  <2>3. buf # <<>> /\ rxLength' \in Int
      BY <1>1, <1>3, <2>1, <2>2
  <2>4. CASE rxLength' > 0
    <3>1. rxBuf' = (IF Len(buf) = RxBufSize THEN <<>> ELSE buf) /\ output' = out /\ writable' = more
        BY <2>1, <2>4
    <3>2. rxBuf' \in {<<>>, buf} /\ rxBuf' \in Seq(Byte) /\ Len(rxBuf') < RxBufSize
      <4>1. CASE Len(buf) = RxBufSize
          BY <1>1, <3>1, <4>1
      <4>2. CASE Len(buf) # RxBufSize
          BY <1>1, <3>1, <4>2
      <4> QED
          BY <4>1, <4>2
    <3>3. Partial'
      <4>1. CASE rxBuf' = <<>>
          BY <1>1, <4>1 DEF Partial
      <4>2. CASE rxBuf' = buf
        <5>1. Aligned(buf) => Len(buf) < RequestSize[buf[1][1]]
            BY <1>1, <2>1, <2>2, <2>4
        <5> QED
            BY <4>2, <5>1 DEF Partial, Aligned, Header
      <4> QED
          BY <3>2, <4>1, <4>2
    <3> QED
        BY <2>3, <3>1, <3>2, <3>3 DEF Parse
  <2>5. CASE ~(rxLength' > 0)
    <3>1. rxBuf' = <<>> /\ ServeFrame(c, buf, size, out, more) /\ size <= Len(buf)
        BY <1>1, <2>1, <2>2, <2>5
    <3>2. Partial'
        BY <1>1, <3>1 DEF Partial
    <3> DEFINE whole == Aligned(buf) /\ SubSeq(buf, 1, size) = Request(buf[1][1])
               a == [of |-> IF Aligned(buf) THEN buf[1][1] ELSE 0, whole |-> whole]
    <3>3. a \in Answer
      <4>1. Aligned(buf) => buf[1][1] \in Requests
          BY <1>3, AlignedFirst
      <4>2. whole \in BOOLEAN
          BY Zenon
      <4>3. (IF Aligned(buf) THEN buf[1][1] ELSE 0) \in Requests \cup {0}
          BY <4>1
      <4> HIDE DEF whole
      <4> QED
          BY <4>2, <4>3 DEF Answer
    <3>4. \/ output' = out /\ writable' = more
          \/ /\ whole => ~asked[buf[1][1]].silent
             /\ output' = [out EXCEPT ![c] = Append(@, a)]
             /\ writable' = more \cup {c}
        BY <3>1, Zenon DEF ServeFrame
    <3>5. a.whole <=> whole
        OBVIOUS
    <3>6. whole => /\ a.of = buf[1][1] /\ a.of \in Requests /\ Aligned(buf)
                   /\ RequestSize[a.of] <= Len(buf)
                   /\ buf[RequestSize[a.of]] = <<a.of, RequestSize[a.of]>>
      <4> SUFFICES ASSUME whole PROVE /\ a.of = buf[1][1] /\ a.of \in Requests /\ Aligned(buf)
                                      /\ RequestSize[a.of] <= Len(buf)
                                      /\ buf[RequestSize[a.of]] = <<a.of, RequestSize[a.of]>>
          OBVIOUS
      <4>1. Aligned(buf) /\ SubSeq(buf, 1, size) = Request(buf[1][1])
          OBVIOUS
      <4>2. a.of = buf[1][1]
          BY <4>1
      <4>3. a.of \in Requests
          BY <1>3, <4>1, <4>2, AlignedFirst
      <4>4. SubSeq(buf, 1, size) = Request(a.of)
          BY <4>1, <4>2, Zenon
      <4> HIDE DEF a, whole
      <4>5. size = RequestSize[a.of] /\ \A i \in 1..size : buf[i] = <<a.of, i>>
          BY <2>2, <3>1, <4>3, <4>4, WholeFrame
      <4>6. RequestSize[a.of] \in 1..size
          BY <1>1, <2>2, <4>3, <4>5, Sizes
      <4> QED
          BY <3>1, <4>1, <4>2, <4>3, <4>5, <4>6
    <3> HIDE DEF a, whole
    <3>7. \/ output' = out /\ writable' = more
          \/ \E x \in Answer :
             /\ output' = [out EXCEPT ![c] = Append(@, x)]
             /\ writable' = more \cup {c}
             /\ x.whole => /\ x.of \in Requests /\ ~asked[x.of].silent
                           /\ Aligned(buf) /\ buf[1][1] = x.of
                           /\ RequestSize[x.of] <= Len(buf)
                           /\ buf[RequestSize[x.of]] = <<x.of, RequestSize[x.of]>>
      <4>1. CASE output' = out /\ writable' = more
          BY <4>1
      <4>2. CASE /\ whole => ~asked[buf[1][1]].silent
                 /\ output' = [out EXCEPT ![c] = Append(@, a)]
                 /\ writable' = more \cup {c}
        <5>1. a.whole => /\ a.of \in Requests /\ ~asked[a.of].silent
                         /\ Aligned(buf) /\ buf[1][1] = a.of
                         /\ RequestSize[a.of] <= Len(buf)
                         /\ buf[RequestSize[a.of]] = <<a.of, RequestSize[a.of]>>
            BY <3>5, <3>6, <4>2
        <5> QED
            BY <3>3, <4>2, <5>1
      <4> QED
          BY <3>4, <4>1, <4>2
    <3>8. rxBuf' \in Seq(Byte) /\ Len(rxBuf') < RxBufSize
        BY <1>1, <3>1
    <3> QED
        BY <2>3, <2>5, <3>1, <3>2, <3>7, <3>8 DEF Parse
  <2> QED
      BY <2>4, <2>5
<1> QED
    BY <1>1, <1>2, <1>3

\* What emb_tcp_port_event makes of what a bufferevent holds: n bytes of it are
\* read, and the last byte of a request that is answered is one of them.
ReceiverOK == /\ rxBuf \in Seq(Byte) /\ Len(rxBuf) < RxBufSize /\ rxLength \in Int /\ timer \in BOOLEAN
              /\ Timed /\ Partial
Reception(c, buffered, out, more) ==
    /\ ReceiverOK'
    /\ \E n \in 0..Len(buffered) :
          /\ input' = [input EXCEPT ![c] = SubSeq(buffered, n + 1, Len(buffered))]
          /\ \/ output' = out /\ writable' = more
             \/ \E a \in Answer :
                   /\ output' = [out EXCEPT ![c] = Append(@, a)]
                   /\ writable' = more \cup {c}
                   /\ a.whole => /\ a.of \in Requests /\ ~asked[a.of].silent
                                 /\ \E i \in 1..n : buffered[i] = <<a.of, RequestSize[a.of]>>

LEMMA Received ==
    ASSUME ReceiverOK, NEW c \in Conn, NEW buffered \in Seq(Byte), NEW out, NEW more,
           DataReceived(c, buffered, out, more)
    PROVE  Reception(c, buffered, out, more) /\ clientId' = c
<1>1. /\ rxBuf \in Seq(Byte) /\ Len(rxBuf) \in Nat /\ Len(rxBuf) < RxBufSize /\ RxBufSize \in Nat
      /\ rxLength \in Int /\ timer \in BOOLEAN /\ Len(buffered) \in Nat
      /\ HeaderSize \in Nat /\ HeaderSize > 0
    BY Sizes, LenProperties DEF ReceiverOK
<1>2. clientId' = c
    BY DEF DataReceived
<1>3. CASE Discard(c, buffered, out, more)
  <2>1. /\ Room < rxLength /\ rxBuf' = <<>> /\ input' = [input EXCEPT ![c] = buffered]
        /\ output' = out /\ writable' = more /\ rxLength' = rxLength /\ timer' = timer
      BY <1>3 DEF Discard
  <2>2. <<>> \in Seq(Byte) /\ Len(<<>>) = 0
      BY EmptySeq
  <2>3. rxLength > 0
      BY <1>1, <2>1 DEF Room
  <2>4. timer
      BY <2>3 DEF ReceiverOK, Timed
  <2>5. Partial'
      BY <1>1, <2>1, <2>2 DEF Partial
  <2>6. Timed'
      BY <2>1, <2>4 DEF Timed
  <2>7. ReceiverOK'
    <3>1. rxBuf' \in Seq(Byte) /\ Len(rxBuf') < RxBufSize
        BY <1>1, <2>1, <2>2
    <3>2. rxLength' \in Int /\ timer' \in BOOLEAN
        BY <1>1, <2>1
    <3> QED
        BY <2>5, <2>6, <3>1, <3>2 DEF ReceiverOK
  <2>8. SubSeq(buffered, 0 + 1, Len(buffered)) = buffered /\ 0 \in 0..Len(buffered)
      BY <1>1, SubSeqFull
  <2> QED
      BY <1>2, <2>1, <2>7, <2>8 DEF Reception
<1>4. CASE ReadAndParse(c, buffered, out, more)
  <2> DEFINE n == Least(ToBeRead, Len(buffered))
             piece == SubSeq(buffered, 1, n)
             buf == rxBuf \o piece
  <2>1. /\ Room >= rxLength
        /\ timer' = (timer \/ ToBeRead > 0)
        /\ input' = [input EXCEPT ![c] = SubSeq(buffered, n + 1, Len(buffered))]
        /\ ParsePacket(c, buf, out, more)
      BY <1>2, <1>4 DEF ReadAndParse
  <2>2. ToBeRead \in Nat /\ ToBeRead <= Room /\ Room \in Nat /\ (ToBeRead = 0 => rxLength = 0)
      BY <1>1, <2>1 DEF ToBeRead, Room
  <2>3. n \in Nat /\ n <= Len(buffered) /\ n <= ToBeRead
      BY <1>1, <2>2 DEF Least
  <2> HIDE DEF n
  <2>4. /\ piece \in Seq(Byte) /\ Len(piece) = n
        /\ \A i \in 1..n : piece[i] = buffered[i]
      BY <2>3, Suffix
  <2> HIDE DEF piece
  <2>5. /\ buf \in Seq(Byte) /\ Len(buf) = Len(rxBuf) + n /\ Len(buf) \in Nat
        /\ \A i \in 1..Len(rxBuf) : buf[i] = rxBuf[i]
        /\ \A i \in 1..n : buf[Len(rxBuf) + i] = piece[i]
    <3>1. rxBuf \in Seq(Byte) /\ piece \in Seq(Byte)
        BY <1>1, <2>4
    <3>2. /\ buf \in Seq(Byte) /\ Len(buf) = Len(rxBuf) + Len(piece)
          /\ \A i \in 1..Len(rxBuf) : buf[i] = rxBuf[i]
          /\ \A i \in 1..Len(piece) : buf[Len(rxBuf) + i] = piece[i]
        BY <3>1, Joined
    <3> HIDE DEF buf
    <3> QED
        BY <1>1, <2>3, <2>4, <3>2
  <2> HIDE DEF buf
  <2>6. Len(buf) <= RxBufSize
      BY <1>1, <2>2, <2>3, <2>5 DEF Room
  <2>7. Parse(c, buf, out, more)
      BY <2>1, <2>5, <2>6, Parsed
  <2>8. timer'  \/ (rxBuf' = <<>> /\ ~(rxLength' > 0))
    <3>1. CASE ToBeRead > 0
        BY <2>1, <3>1
    <3>2. CASE ~(ToBeRead > 0)
      <4>1. n = 0
          BY <2>2, <2>3, <3>2
      <4>2. CASE rxBuf # <<>>
          BY <2>1, <4>2 DEF ReceiverOK, Timed
      <4>3. CASE rxBuf = <<>>
        <5>1. Len(rxBuf) = 0 /\ Len(buf) = 0
            BY <2>5, <4>1, <4>3
        <5>2. buf = <<>>
            BY <2>5, <5>1, EmptySeq
        <5> QED
            BY <2>7, <5>2 DEF Parse
      <4> QED
          BY <4>2, <4>3
    <3> QED
        BY <3>1, <3>2
  <2>9. Timed'
      BY <2>8 DEF Timed
  <2>10. ReceiverOK'
    <3>1. timer' \in BOOLEAN
        BY <2>1
    <3> QED
        BY <2>7, <2>9, <3>1 DEF ReceiverOK, Parse
  <2>11. ASSUME NEW a \in Answer, a.of \in Requests, Aligned(buf), buf[1][1] = a.of,
                RequestSize[a.of] <= Len(buf),
                buf[RequestSize[a.of]] = <<a.of, RequestSize[a.of]>>
         PROVE  \E i \in 1..n : buffered[i] = <<a.of, RequestSize[a.of]>>
    <3> DEFINE L == RequestSize[a.of]
    <3>1. L \in Nat /\ L >= HeaderSize /\ L <= Len(buf)
        BY <2>11, Sizes
    <3>2. Len(rxBuf) < L
      <4>1. CASE Len(rxBuf) < HeaderSize
          BY <1>1, <3>1, <4>1
      <4>2. CASE Len(rxBuf) >= HeaderSize
        <5>1. rxBuf[1] = buf[1]
          <6>1. 1 \in 1..Len(rxBuf)
              BY <1>1, <4>2
          <6> QED
              BY <2>5, <6>1
        <5>2. Header(rxBuf) = Header(buf)
          <6> DEFINE h == SubSeq(rxBuf, 1, HeaderSize)
                     g == SubSeq(buf, 1, HeaderSize)
          <6>1. HeaderSize <= Len(buf)
              BY <1>1, <2>5, <4>2, <2>3
          <6>2. /\ h \in Seq(Byte) /\ Len(h) = HeaderSize
                /\ \A i \in 1..HeaderSize : h[i] = rxBuf[i]
              BY <1>1, <4>2, Suffix
          <6>3. /\ g \in Seq(Byte) /\ Len(g) = HeaderSize
                /\ \A i \in 1..HeaderSize : g[i] = buf[i]
              BY <1>1, <2>5, <6>1, Suffix
          <6>4. \A i \in 1..HeaderSize : buf[i] = rxBuf[i]
            <7>1. \A i \in 1..HeaderSize : i \in 1..Len(rxBuf)
                BY <1>1, <4>2
            <7> QED
                BY <2>5, <7>1
          <6> HIDE DEF h, g
          <6>5. h = g
              BY <1>1, <6>2, <6>3, <6>4, SeqEqual
          <6> QED
              BY <6>5 DEF h, g, Header
        <5>3. Aligned(rxBuf)
            BY <2>11, <5>2 DEF Aligned
        <5> QED
            BY <2>11, <4>2, <5>1, <5>3 DEF ReceiverOK, Partial
      <4>3. Len(rxBuf) < HeaderSize \/ Len(rxBuf) >= HeaderSize
          BY <1>1
      <4> QED
          BY <4>1, <4>2, <4>3, Zenon
    <3>3. buf[L] = <<a.of, L>>
        BY <2>11
    <3> HIDE DEF L
    <3> DEFINE m == L - Len(rxBuf)
    <3>4. m \in 1..n /\ Len(rxBuf) + m = L
      <4>1. /\ Len(rxBuf) \in Nat /\ L \in Nat /\ n \in Nat
            /\ Len(rxBuf) < L /\ L <= Len(rxBuf) + n
          BY <1>1, <2>3, <2>5, <3>1, <3>2
      <4> QED
          BY <4>1
    <3> HIDE DEF m
    <3>5. buf[L] = piece[m]
        BY <2>5, <3>4
    <3>6. piece[m] = buffered[m]
        BY <2>4, <3>4
    <3>7. \E i \in 1..n : buffered[i] = <<a.of, L>>
        BY <3>3, <3>4, <3>5, <3>6
    <3> QED
        BY <3>7 DEF L
  <2>12. n \in 0..Len(buffered)
      BY <1>1, <2>3
  <2>13. CASE output' = out /\ writable' = more
      BY <1>2, <2>1, <2>10, <2>12, <2>13 DEF Reception
  <2>14. ASSUME NEW a \in Answer,
                output' = [out EXCEPT ![c] = Append(@, a)], writable' = more \cup {c},
                a.whole => /\ a.of \in Requests /\ ~asked[a.of].silent
                           /\ Aligned(buf) /\ buf[1][1] = a.of
                           /\ RequestSize[a.of] <= Len(buf)
                           /\ buf[RequestSize[a.of]] = <<a.of, RequestSize[a.of]>>
         PROVE  Reception(c, buffered, out, more)
    <3>1. a.whole => /\ a.of \in Requests /\ ~asked[a.of].silent
                     /\ \E i \in 1..n : buffered[i] = <<a.of, RequestSize[a.of]>>
        BY <2>11, <2>14
    <3> QED
        BY <2>1, <2>10, <2>12, <2>14, <3>1 DEF Reception
  <2> QED
      BY <1>2, <2>7, <2>13, <2>14 DEF Parse
<1> QED
    BY <1>3, <1>4 DEF DataReceived

-----------------------------------------------------------------------------
\* What was answered, what is on its way, and what is read of it.
LEMMA AnswerTypes ==
    ASSUME NEW a \in Seq(Answer)
    PROVE  /\ Len(a) \in Nat /\ DOMAIN a = 1..Len(a)
           /\ \A i \in 1..Len(a) : a[i] \in Answer /\ a[i].of \in Nat /\ a[i].whole \in BOOLEAN
<1>1. Len(a) \in Nat /\ DOMAIN a = 1..Len(a) /\ \A i \in 1..Len(a) : a[i] \in Answer
    BY LenProperties, ElementOfSeq
<1>2. \A x \in Answer : x.of \in Requests \cup {0} /\ x.whole \in BOOLEAN
    BY DEF Answer
<1>3. Requests \cup {0} \subseteq Nat
    BY Sizes
<1> QED
    BY <1>1, <1>2, <1>3

LEMMA Typed ==
    ASSUME TypeOK, NEW c \in Conn
    PROVE  /\ input[c] \in Seq(Byte) /\ net[c] \in Seq(Byte) /\ Stream(c) \in Seq(Byte)
           /\ got[c] \in Seq(Answer) /\ output[c] \in Seq(Answer) /\ Answers(c) \in Seq(Answer)
<1>1. /\ input[c] \in Seq(Byte) /\ net[c] \in Seq(Byte)
      /\ got[c] \in Seq(Answer) /\ output[c] \in Seq(Answer)
    BY DEF TypeOK
<1> QED
    BY <1>1, Joined DEF Stream, Answers

LEMMA GotFirst ==
    ASSUME TypeOK, NEW c \in Conn
    PROVE  \A i \in 1..Len(got[c]) : i \in 1..Len(Answers(c)) /\ Answers(c)[i] = got[c][i]
<1>1. got[c] \in Seq(Answer) /\ output[c] \in Seq(Answer)
    BY Typed
<1>2. \A a, b \in Seq(Answer) :
         /\ Len(a \o b) = Len(a) + Len(b) /\ Len(a) \in Nat /\ Len(b) \in Nat
         /\ \A i \in 1..Len(a) : (a \o b)[i] = a[i]
    BY Joined
<1>3. /\ Len(Answers(c)) = Len(got[c]) + Len(output[c])
      /\ Len(got[c]) \in Nat /\ Len(output[c]) \in Nat
      /\ \A i \in 1..Len(got[c]) : Answers(c)[i] = got[c][i]
    BY <1>1, <1>2 DEF Answers
<1>4. \A m, n \in Nat : 1..m \subseteq 1..(m + n)
    OBVIOUS
<1>5. 1..Len(got[c]) \subseteq 1..(Len(got[c]) + Len(output[c]))
    BY <1>3, <1>4, Zenon
<1> QED
    BY <1>3, <1>5, Zenon

LEMMA InTurnRead ==
    ASSUME NEW c, NEW a \in Seq(Answer), NEW s \in Seq(Byte), InTurn(c, a, s),
           NEW n \in Nat, n <= Len(s), NEW t \in Seq(Byte), Len(t) = Len(s) - n,
           \A i \in 1..(Len(s) - n) : t[i] = s[n + i]
    PROVE  InTurn(c, a, t)
<1>1. Len(s) \in Nat /\ Len(t) \in Nat
    BY LenProperties
<1>2. ASSUME NEW i \in 1..Len(t) PROVE n + i \in 1..Len(s) /\ t[i] = s[n + i]
    BY <1>1
<1>3. Made(c, t)
  <2>1. ASSUME NEW i \in 1..Len(t) PROVE AskedBy(c, t[i][1]) /\ t[i][2] <= RequestSize[t[i][1]]
      BY <1>2 DEF InTurn, Made
  <2>2. ASSUME NEW i \in 1..Len(t), NEW j \in 1..Len(t), i < j
        PROVE  t[i][1] < t[j][1] \/ (t[i][1] = t[j][1] /\ t[i][2] < t[j][2])
    <3>1. n + i \in 1..Len(s) /\ n + j \in 1..Len(s) /\ n + i < n + j
        BY <1>2, <2>2
    <3>2. s[n + i][1] < s[n + j][1] \/ (s[n + i][1] = s[n + j][1] /\ s[n + i][2] < s[n + j][2])
        BY <3>1 DEF InTurn, Made
    <3>3. t[i] = s[n + i] /\ t[j] = s[n + j]
        BY <1>2
    <3> QED
        BY <3>2, <3>3, Zenon
  <2> QED
      BY <2>1, <2>2 DEF Made
<1>4. Ahead(a, t)
    BY <1>2 DEF InTurn, Ahead
<1> QED
    BY <1>3, <1>4 DEF InTurn

LEMMA InTurnAnswered ==
    ASSUME NEW c, NEW a \in Seq(Answer), NEW s \in Seq(Byte), InTurn(c, a, s),
           NEW n \in Nat, n <= Len(s), NEW t \in Seq(Byte), Len(t) = Len(s) - n,
           \A i \in 1..(Len(s) - n) : t[i] = s[n + i],
           NEW x \in Answer,
           x.whole => /\ x.of \in Requests /\ ~asked[x.of].silent
                      /\ \E i \in 1..n : s[i] = <<x.of, RequestSize[x.of]>>
    PROVE  InTurn(c, Append(a, x), t)
<1> DEFINE b == Append(a, x)
<1>1. /\ b \in Seq(Answer) /\ Len(b) = Len(a) + 1 /\ Len(a) \in Nat
      /\ \A i \in 1..Len(a) : b[i] = a[i]
      /\ b[Len(a) + 1] = x
    BY AppendProperties, LenProperties
<1> HIDE DEF b
<1>2. InTurn(c, a, t)
    BY InTurnRead
<1>3. ASSUME NEW i \in 1..Len(b) PROVE (i \in 1..Len(a) /\ b[i] = a[i]) \/ (i = Len(a) + 1 /\ b[i] = x)
    BY <1>1
<1>4. ASSUME x.whole
      PROVE  /\ AskedBy(c, x.of) /\ ~asked[x.of].silent
             /\ \A i \in 1..Len(a) : a[i].whole => a[i].of < x.of
             /\ \A j \in 1..Len(t) : x.of < t[j][1]
  <2>1. PICK i \in 1..n : s[i] = <<x.of, RequestSize[x.of]>>
      BY <1>4
  <2>2. i \in 1..Len(s) /\ s[i][1] = x.of /\ s[i][2] = RequestSize[x.of] /\ Len(s) \in Nat
      BY <2>1, LenProperties
  <2>3. AskedBy(c, x.of)
      BY <2>2 DEF InTurn, Made
  <2>4. ASSUME NEW k \in 1..Len(a), a[k].whole PROVE a[k].of < x.of
      BY <2>2, <2>4 DEF InTurn, Ahead
  <2>5. ASSUME NEW j \in 1..Len(t) PROVE x.of < t[j][1]
    <3>1. n + j \in 1..Len(s) /\ i < n + j /\ t[j] = s[n + j] /\ Len(t) \in Nat
        BY <2>2, LenProperties
    <3>2. s[i][1] < s[n + j][1] \/ (s[i][1] = s[n + j][1] /\ s[i][2] < s[n + j][2])
        BY <2>2, <3>1 DEF InTurn, Made
    <3>3. s[n + j][2] <= RequestSize[s[n + j][1]]
        BY <3>1 DEF InTurn, Made
    <3>4. s[n + j][2] \in Nat /\ RequestSize[x.of] \in Nat
        BY <1>4, <3>1, Bytes, Sizes
    <3>5. ~(s[i][1] = s[n + j][1] /\ s[i][2] < s[n + j][2])
        BY <2>2, <3>3, <3>4
    <3> QED
        BY <2>2, <3>1, <3>2, <3>5
  <2> QED
      BY <1>4, <2>3, <2>4, <2>5
<1>5. Owned(c, b)
  <2>1. ASSUME NEW i \in 1..Len(b), b[i].whole PROVE AskedBy(c, b[i].of) /\ ~asked[b[i].of].silent
    <3>1. CASE i \in 1..Len(a) /\ b[i] = a[i]
        BY <2>1, <3>1 DEF InTurn, Owned
    <3>2. CASE b[i] = x
        BY <1>4, <2>1, <3>2
    <3> QED
        BY <1>3, <3>1, <3>2
  <2>2. ASSUME NEW i \in 1..Len(b), NEW j \in 1..Len(b), i < j, b[i].whole, b[j].whole
        PROVE  b[i].of < b[j].of
    <3>1. i \in 1..Len(a) /\ b[i] = a[i]
        BY <1>1, <1>3, <2>2
    <3>2. CASE j \in 1..Len(a) /\ b[j] = a[j]
        BY <2>2, <3>1, <3>2 DEF InTurn, Owned
    <3>3. CASE b[j] = x
        BY <1>4, <2>2, <3>1, <3>3
    <3> QED
        BY <1>3, <3>2, <3>3
  <2> QED
      BY <2>1, <2>2 DEF Owned
<1>6. Ahead(b, t)
  <2>1. ASSUME NEW i \in 1..Len(b), NEW j \in 1..Len(t), b[i].whole PROVE b[i].of < t[j][1]
    <3>1. CASE i \in 1..Len(a) /\ b[i] = a[i]
        BY <1>2, <2>1, <3>1 DEF InTurn, Ahead
    <3>2. CASE b[i] = x
        BY <1>4, <2>1, <3>2
    <3> QED
        BY <1>3, <3>1, <3>2
  <2> QED
      BY <2>1 DEF Ahead
<1> QED
    BY <1>2, <1>5, <1>6 DEF InTurn, b

\* The same in the next state.
LEMMA InTurnLater ==
    ASSUME NEW c \in Conn, InTurn(c, Answers(c)', Stream(c)'), asked' = asked
    PROVE  InTurn(c, Answers(c), Stream(c))'
BY DEF InTurn, Made, Owned, Ahead, AskedBy

LEMMA InTurnElsewhere ==
    ASSUME NEW c \in Conn, InTurn(c, Answers(c), Stream(c)), asked' = asked,
           input'[c] = input[c], net'[c] = net[c], got'[c] = got[c], output'[c] = output[c]
    PROVE  InTurn(c, Answers(c), Stream(c))'
<1>1. Answers(c)' = Answers(c) /\ Stream(c)' = Stream(c)
    BY DEF Answers, Stream
<1> QED
    BY <1>1, InTurnLater

-----------------------------------------------------------------------------
LEMMA AppendedBehind ==
    ASSUME NEW S, NEW s \in Seq(S), NEW t \in Seq(S), NEW x \in S
    PROVE  s \o Append(t, x) = Append(s \o t, x)
<1>1. <<x>> \in Seq(S)
    OBVIOUS
<1>2. Append(t, x) = t \o <<x>>
    BY AppendIsConcat
<1>3. s \o t \in Seq(S)
    BY Joined
<1>4. Append(s \o t, x) = (s \o t) \o <<x>>
    BY <1>3, AppendIsConcat
<1>5. (s \o t) \o <<x>> = s \o (t \o <<x>>)
    BY <1>1, ConcatAssociative
<1> QED
    BY <1>2, <1>4, <1>5, Zenon

\* Of a stream cut in two, n bytes of the first part are read.
LEMMA StreamRead ==
    ASSUME NEW b \in Seq(Byte), NEW r \in Seq(Byte), NEW n \in 0..Len(b)
    PROVE  LET s == b \o r
               t == SubSeq(b, n + 1, Len(b)) \o r
           IN  /\ n <= Len(s) /\ t \in Seq(Byte) /\ Len(t) = Len(s) - n
               /\ \A i \in 1..(Len(s) - n) : t[i] = s[n + i]
               /\ \A i \in 1..n : s[i] = b[i]
<1> DEFINE s == b \o r
           p == SubSeq(b, n + 1, Len(b))
           t == p \o r
<1>1. Len(b) \in Nat /\ Len(r) \in Nat /\ n \in Nat /\ n <= Len(b)
    BY LenProperties
<1>2. p \in Seq(Byte) /\ Len(p) = Len(b) - n /\ \A i \in 1..(Len(b) - n) : p[i] = b[n + i]
    BY <1>1, Suffix
<1> HIDE DEF p
<1>3. /\ Len(s) = Len(b) + Len(r)
      /\ \A i \in 1..Len(b) : s[i] = b[i]
      /\ \A i \in 1..Len(r) : s[Len(b) + i] = r[i]
    BY Joined
<1>4. /\ t \in Seq(Byte) /\ Len(t) = Len(p) + Len(r)
      /\ \A i \in 1..Len(t) : \/ i \in 1..Len(p) /\ t[i] = p[i]
                              \/ i - Len(p) \in 1..Len(r) /\ t[i] = r[i - Len(p)]
    BY <1>2, Joined
<1> HIDE DEF s, t
<1>5. Len(t) = Len(s) - n /\ n <= Len(s)
    BY <1>1, <1>2, <1>3, <1>4
<1>6. ASSUME NEW i \in 1..(Len(s) - n) PROVE t[i] = s[n + i]
  <2>1. CASE i \in 1..Len(p) /\ t[i] = p[i]
    <3>1. p[i] = b[n + i] /\ n + i \in 1..Len(b)
        BY <1>1, <1>2, <2>1
    <3>2. s[n + i] = b[n + i]
        BY <1>3, <3>1
    <3> QED
        BY <2>1, <3>1, <3>2, Zenon
  <2>2. CASE i - Len(p) \in 1..Len(r) /\ t[i] = r[i - Len(p)]
    <3> DEFINE j == i - Len(p)
    <3>1. j \in 1..Len(r) /\ Len(b) + j = n + i /\ t[i] = r[j]
        BY <1>1, <1>2, <2>2
    <3> HIDE DEF j
    <3>2. s[Len(b) + j] = r[j]
        BY <1>3, <3>1
    <3> QED
        BY <3>1, <3>2, Zenon
  <2> QED
      BY <1>4, <1>5, <2>1, <2>2
<1>7. \A i \in 1..n : s[i] = b[i]
    BY <1>1, <1>3
<1> QED
    BY <1>4, <1>5, <1>6, <1>7 DEF s, t, p

\* An event with received data: whatever is read and answered, it is all in turn.
LEMMA ReceptionKeeps ==
    ASSUME IInv, NEW c \in open, NEW buffered \in Seq(Byte), NEW rest \in Seq(Byte),
           buffered \o rest = Stream(c), net' = [net EXCEPT ![c] = rest],
           NEW out \in [Conn -> Seq(Answer)], NEW more \in SUBSET open,
           got' \in [Conn -> Seq(Answer)], got'[c] \o out[c] = Answers(c),
           \A d \in Conn \ {c} : got'[d] = got[d] /\ out[d] = output[d],
           DataReceived(c, buffered, out, more),
           UNCHANGED <<connVars, asked>>, disturbed' \in BOOLEAN
    PROVE  IInv'
<1>1. /\ TypeOK /\ c \in Conn /\ ReceiverOK
      /\ net \in [Conn -> Seq(Byte)] /\ input \in [Conn -> Seq(Byte)]
      /\ got'[c] \in Seq(Answer) /\ out[c] \in Seq(Answer)
      /\ UNCHANGED <<limit, counter, open, gone, asked>>
    BY DEF IInv, Inv, TypeOK, ReceiverOK, connVars
<1>2. Reception(c, buffered, out, more) /\ clientId' = c
    BY <1>1, Received
<1>3. PICK n \in 0..Len(buffered) :
         /\ input' = [input EXCEPT ![c] = SubSeq(buffered, n + 1, Len(buffered))]
         /\ \/ output' = out /\ writable' = more
            \/ \E a \in Answer :
                  /\ output' = [out EXCEPT ![c] = Append(@, a)]
                  /\ writable' = more \cup {c}
                  /\ a.whole => /\ a.of \in Requests /\ ~asked[a.of].silent
                                /\ \E i \in 1..n : buffered[i] = <<a.of, RequestSize[a.of]>>
    BY <1>2 DEF Reception
<1> DEFINE p == SubSeq(buffered, n + 1, Len(buffered))
           s == buffered \o rest
           t == p \o rest
<1>4. p \in Seq(Byte)
  <2>1. n \in Nat /\ n <= Len(buffered)
      BY LenProperties
  <2> QED
      BY <2>1, Suffix
<1>5. /\ n \in Nat /\ n <= Len(s) /\ s \in Seq(Byte) /\ t \in Seq(Byte) /\ Len(t) = Len(s) - n
      /\ \A i \in 1..(Len(s) - n) : t[i] = s[n + i]
      /\ \A i \in 1..n : s[i] = buffered[i]
  <2>1. n \in Nat
      BY LenProperties
  <2>2. s \in Seq(Byte)
      BY Joined
  <2>3. /\ n <= Len(s) /\ t \in Seq(Byte) /\ Len(t) = Len(s) - n
        /\ \A i \in 1..(Len(s) - n) : t[i] = s[n + i]
        /\ \A i \in 1..n : s[i] = buffered[i]
      BY StreamRead
  <2> QED
      BY <2>1, <2>2, <2>3
<1> HIDE DEF p
<1>6. input'[c] = p /\ net'[c] = rest /\ \A d \in Conn \ {c} : input'[d] = input[d] /\ net'[d] = net[d]
    BY <1>1, <1>3 DEF p
<1>7. Stream(c)' = t /\ Stream(c) = s
    BY <1>6 DEF Stream
<1>8. input' \in [Conn -> Seq(Byte)] /\ net' \in [Conn -> Seq(Byte)]
    BY <1>1, <1>3, <1>4 DEF p
<1>9. Answers(c) \in Seq(Answer) /\ InTurn(c, Answers(c), s)
    BY <1>1, <1>7, Typed DEF IInv
<1> HIDE DEF s, t
<1>10. /\ output' \in [Conn -> Seq(Answer)] /\ writable' \subseteq open
       /\ \A d \in Conn \ {c} : output'[d] = output[d]
       /\ InTurn(c, Answers(c)', t)
  <2>1. CASE output' = out /\ writable' = more
    <3>1. Answers(c)' = Answers(c)
        BY <2>1 DEF Answers
    <3>2. InTurn(c, Answers(c), t)
        BY <1>5, <1>9, InTurnRead
    <3> QED
        BY <2>1, <3>1, <3>2
  <2>2. ASSUME NEW a \in Answer,
               output' = [out EXCEPT ![c] = Append(@, a)], writable' = more \cup {c},
               a.whole => /\ a.of \in Requests /\ ~asked[a.of].silent
                          /\ \E i \in 1..n : buffered[i] = <<a.of, RequestSize[a.of]>>
        PROVE  /\ output' \in [Conn -> Seq(Answer)] /\ writable' \subseteq open
               /\ \A d \in Conn \ {c} : output'[d] = output[d]
               /\ InTurn(c, Answers(c)', t)
    <3>1. Append(out[c], a) \in Seq(Answer)
        BY <1>1, AppendProperties
    <3>2. /\ output' \in [Conn -> Seq(Answer)] /\ output'[c] = Append(out[c], a)
          /\ \A d \in Conn \ {c} : output'[d] = output[d]
        BY <1>1, <2>2, <3>1
    <3>3. Answers(c)' = Append(Answers(c), a)
      <4>1. got'[c] \o Append(out[c], a) = Append(got'[c] \o out[c], a)
        <5>1. got'[c] \in Seq(Answer) /\ out[c] \in Seq(Answer)
            BY <1>1
        <5>2. \A x, y \in Seq(Answer), z \in Answer : x \o Append(y, z) = Append(x \o y, z)
            BY AppendedBehind
        <5> QED
            BY <5>1, <5>2, Zenon
      <4> QED
          BY <3>2, <4>1 DEF Answers
    <3>4. a.whole => /\ a.of \in Requests /\ ~asked[a.of].silent
                     /\ \E i \in 1..n : s[i] = <<a.of, RequestSize[a.of]>>
        BY <1>5, <2>2
    <3>5. InTurn(c, Append(Answers(c), a), t)
        BY <1>5, <1>9, <3>4, InTurnAnswered
    <3>6. writable' \subseteq open
        BY <2>2
    <3> QED
        BY <3>2, <3>3, <3>5, <3>6
  <2> QED
      BY <1>3, <2>1, <2>2
<1>11. ASSUME NEW d \in Conn PROVE InTurn(d, Answers(d), Stream(d))'
  <2>1. CASE d = c
      BY <1>1, <1>7, <1>10, <2>1, InTurnLater
  <2>2. CASE d # c
      BY <1>1, <1>6, <1>10, <2>2, InTurnElsewhere DEF IInv
  <2> QED
      BY <2>1, <2>2
<1>12. TypeOK'
  <2>1. /\ rxBuf' \in Seq(Byte) /\ Len(rxBuf') < RxBufSize /\ rxLength' \in Int /\ timer' \in BOOLEAN
      BY <1>2 DEF Reception, ReceiverOK
  <2>2. clientId' \in Conn \cup {NoConn}
      BY <1>1, <1>2
  <2> QED
      BY <1>1, <1>8, <1>10, <2>1, <2>2 DEF TypeOK
<1>13. ClientsCounted' /\ Timed' /\ Partial'
    BY <1>1, <1>2 DEF IInv, Inv, ClientsCounted, Reception, ReceiverOK
<1> QED
    BY <1>11, <1>12, <1>13 DEF IInv, Inv

LEMMA ReadCallbackKeeps ==
    ASSUME IInv, NEW c \in Conn, NEW r \in 1..Len(net[c]), ReadCallback(c, r)
    PROVE  IInv'
<1> DEFINE first == SubSeq(net[c], 1, r)
           rest == SubSeq(net[c], r + 1, Len(net[c]))
           buffered == input[c] \o first
<1>1. /\ TypeOK /\ c \in open /\ net' = [net EXCEPT ![c] = rest] /\ got' = got
      /\ DataReceived(c, buffered, output, writable)
      /\ UNCHANGED <<connVars, asked>> /\ disturbed' = (disturbed \/ Collides(c))
    BY DEF IInv, Inv, ReadCallback
<1>2. input[c] \in Seq(Byte) /\ net[c] \in Seq(Byte)
    BY <1>1, Typed
<1>3. r \in Nat /\ r <= Len(net[c])
    BY <1>2, LenProperties
<1>4. first \in Seq(Byte) /\ rest \in Seq(Byte)
    BY <1>2, <1>3, Suffix
<1>5. first \o rest = net[c]
    BY <1>2, <1>3, CutAndJoined
<1> HIDE DEF first, rest, buffered
<1>6. buffered \in Seq(Byte) /\ buffered \o rest = Stream(c)
  <2>1. input[c] \in Seq(Byte) /\ first \in Seq(Byte) /\ rest \in Seq(Byte)
      BY <1>2, <1>4
  <2>2. (input[c] \o first) \o rest = input[c] \o (first \o rest)
    <3>1. \A a, b, d \in Seq(Byte) : (a \o b) \o d = a \o (b \o d)
        BY Regrouped
    <3> QED
        BY <2>1, <3>1, Zenon
  <2>3. buffered \in Seq(Byte)
      BY <2>1, Joined DEF buffered
  <2>4. buffered \o rest = Stream(c)
      BY <1>5, <2>2, Zenon DEF Stream, buffered
  <2> QED
      BY <2>3, <2>4
<1>7. /\ output \in [Conn -> Seq(Answer)] /\ writable \in SUBSET open
      /\ got' \in [Conn -> Seq(Answer)] /\ disturbed' \in BOOLEAN
      /\ got'[c] \o output[c] = Answers(c)
      /\ \A d \in Conn \ {c} : got'[d] = got[d] /\ output[d] = output[d]
    BY <1>1 DEF TypeOK, Answers
<1> QED
    BY <1>1, <1>4, <1>6, <1>7, ReceptionKeeps

LEMMA WriteCallbackKeeps ==
    ASSUME IInv, NEW c \in Conn, WriteCallback(c)
    PROVE  IInv'
<1> DEFINE out == [output EXCEPT ![c] = <<>>]
           more == writable \ {c}
<1>1. /\ TypeOK /\ c \in open /\ got' = [got EXCEPT ![c] = @ \o output[c]]
      /\ DataReceived(c, input[c], out, more)
      /\ UNCHANGED <<connVars, net, asked, disturbed>>
    BY DEF IInv, Inv, TypeOK, WriteCallback
<1>2. /\ input[c] \in Seq(Byte) /\ net[c] \in Seq(Byte)
      /\ got[c] \in Seq(Answer) /\ output[c] \in Seq(Answer)
    BY <1>1, Typed
<1>3. input[c] \o net[c] = Stream(c)
    BY DEF Stream
<1>4. net' = [net EXCEPT ![c] = net[c]]
    BY <1>1 DEF TypeOK
<1>5. got[c] \o output[c] \in Seq(Answer) /\ <<>> \in Seq(Answer)
    BY <1>2, Joined, EmptySeq
<1>6. /\ got \in [Conn -> Seq(Answer)] /\ output \in [Conn -> Seq(Answer)]
    BY <1>1 DEF TypeOK
<1>7. /\ got' \in [Conn -> Seq(Answer)] /\ got'[c] = got[c] \o output[c]
      /\ \A d \in Conn \ {c} : got'[d] = got[d]
    BY <1>1, <1>5, <1>6
<1>8. /\ out \in [Conn -> Seq(Answer)] /\ out[c] = <<>>
      /\ \A d \in Conn \ {c} : out[d] = output[d]
    BY <1>5, <1>6
<1> HIDE DEF out
<1>9. got'[c] \o out[c] = Answers(c)
    BY <1>5, <1>7, <1>8, ConcatEmptySeq DEF Answers
<1>10. more \in SUBSET open /\ disturbed' \in BOOLEAN
    BY <1>1 DEF TypeOK
<1> HIDE DEF more
<1> QED
    BY <1>1, <1>2, <1>3, <1>4, <1>7, <1>8, <1>9, <1>10, ReceptionKeeps

LEMMA OnRxTimeoutKeeps == ASSUME IInv, OnRxTimeout PROVE IInv'
<1>1. /\ timer' = FALSE /\ rxBuf' = <<>> /\ rxLength' = -1
      /\ UNCHANGED <<limit, counter, open, gone, net, input, output, writable, clientId, asked, got>>
    BY DEF OnRxTimeout, connVars
<1>2. rxBuf' \in Seq(Byte) /\ Len(rxBuf') < RxBufSize /\ Len(rxBuf') = 0
  <2>1. <<>> \in Seq(Byte) /\ Len(<<>>) = 0
      BY EmptySeq
  <2>2. RxBufSize \in Nat /\ RxBufSize > 0
      BY Sizes
  <2>3. rxBuf' = <<>>
      BY <1>1, Zenon
  <2>4. 0 < RxBufSize
      BY <2>2
  <2>5. rxBuf' \in Seq(Byte) /\ Len(rxBuf') = 0
      BY <2>1, <2>3, Zenon
  <2> QED
      BY <2>4, <2>5
<1>3. TypeOK'
  <2>1. timer' = FALSE /\ rxLength' = -1
      BY <1>1, Zenon
  <2>2. disturbed' \in BOOLEAN
    <3>1. disturbed' = (disturbed \/ rxBuf # <<>>)
        BY DEF OnRxTimeout
    <3> QED
        BY <3>1, Zenon
  <2>3. /\ limit' \in Limits /\ counter' \in Nat
        /\ open' \subseteq Conn /\ gone' \subseteq Conn /\ open' \cap gone' = {}
        /\ net' \in [Conn -> Seq(Byte)] /\ input' \in [Conn -> Seq(Byte)]
        /\ output' \in [Conn -> Seq(Answer)] /\ got' \in [Conn -> Seq(Answer)]
        /\ writable' \subseteq open' /\ clientId' \in Conn \cup {NoConn}
        /\ asked' \in Seq([conn : Conn, silent : BOOLEAN]) /\ Len(asked') <= Len(RequestSize)
    <3>1. UNCHANGED <<limit, counter, open, gone, net, input, output, writable, clientId, asked, got>>
        BY <1>1, Zenon
    <3> QED
        BY <3>1 DEF IInv, Inv, TypeOK
  <2>4. rxLength' \in Int
      BY <2>1
  <2>5. timer' \in BOOLEAN
      BY <2>1, Zenon
  <2> QED
      BY <1>2, <2>2, <2>3, <2>4, <2>5 DEF TypeOK
<1>4. ClientsCounted' /\ Timed'
    BY <1>1 DEF IInv, Inv, ClientsCounted, Timed
<1>5. Partial'
    BY <1>2, Sizes DEF Partial
<1>6. \A c \in Conn : InTurn(c, Answers(c), Stream(c))'
    BY <1>1, InTurnElsewhere DEF IInv
<1> QED
    BY <1>3, <1>4, <1>5, <1>6 DEF IInv, Inv

-----------------------------------------------------------------------------
\* Connections come and go, and are counted.
LEMMA OpenIsFinite ==
    ASSUME TypeOK
    PROVE  IsFiniteSet(open) /\ Cardinality(open) \in Nat
<1>1. open \in SUBSET Conn /\ IsFiniteSet(Conn)
    BY Sizes DEF TypeOK
<1> QED
    BY <1>1, FS_Subset, FS_CardinalityType

LEMMA OpenTypes ==
    ASSUME TypeOK
    PROVE  open \subseteq Conn /\ gone \subseteq Conn /\ open \cap gone = {} /\ writable \subseteq open
BY Zenon DEF TypeOK

LEMMA OneMore ==
    ASSUME NEW S, NEW x, x \notin S, IsFiniteSet(S)
    PROVE  Cardinality(S \cup {x}) = Cardinality(S) + 1
BY FS_AddElement

LEMMA AcceptKeeps ==
    ASSUME IInv, NEW c \in Conn, Accept(c)
    PROVE  IInv'
<1>1. /\ c \in Conn \ (open \cup gone)
      /\ Refuse(c) \/ Admit(c)
      /\ UNCHANGED <<limit, net, input, output, clientId, rxBuf, rxLength, timer, asked, got, disturbed>>
    BY DEF Accept, rxVars
<1>2. /\ TypeOK /\ counter = Cardinality(open) /\ (limit > 0 => counter <= limit)
      /\ limit \in Nat /\ counter \in Nat
    BY Sizes DEF IInv, Inv, TypeOK, ClientsCounted
<1>3. open \subseteq Conn /\ gone \subseteq Conn /\ open \cap gone = {} /\ writable \subseteq open
    BY <1>2, OpenTypes, Zenon
<1>4. c \in Conn /\ c \notin open /\ c \notin gone
    BY <1>1, Zenon
<1>5. IsFiniteSet(open) /\ Cardinality(open \cup {c}) = Cardinality(open) + 1
  <2>1. IsFiniteSet(open)
      BY <1>2, OpenIsFinite, Zenon
  <2>2. c \notin open
      BY <1>4, Zenon
  <2> QED
      BY <2>1, <2>2, OneMore
<1>6. CASE Refuse(c)
  <2>1. gone' = gone \cup {c} /\ UNCHANGED <<open, counter, writable>>
      BY <1>6 DEF Refuse
  <2>2. TypeOK'
    <3>1. open' \subseteq Conn /\ gone' \subseteq Conn /\ open' \cap gone' = {} /\ writable' \subseteq open'
        BY <1>3, <1>4, <2>1
    <3> QED
        BY <1>1, <1>2, <2>1, <3>1 DEF TypeOK
  <2>3. ClientsCounted'
      BY <1>1, <1>2, <2>1 DEF ClientsCounted
  <2> QED
      BY <1>1, <2>2, <2>3, InTurnElsewhere DEF IInv, Inv, Timed, Partial, Aligned, Header
<1>7. CASE Admit(c)
  <2>1. /\ limit = 0 \/ counter + 1 <= limit
        /\ open' = open \cup {c} /\ counter' = counter + 1 /\ writable' = writable \cup {c}
        /\ gone' = gone
      BY <1>7 DEF Admit
  <2>2. TypeOK'
    <3>1. counter' \in Nat
        BY <1>2, <2>1
    <3>2. open' \subseteq Conn /\ open' \cap gone' = {} /\ writable' \subseteq open'
        BY <1>3, <1>4, <2>1
    <3> QED
        BY <1>1, <1>2, <2>1, <3>1, <3>2 DEF TypeOK
  <2>3. ClientsCounted'
    <3>1. counter' = Cardinality(open')
        BY <1>2, <1>5, <2>1
    <3>2. limit' > 0 => counter' <= limit'
        BY <1>1, <1>2, <2>1
    <3> QED
        BY <3>1, <3>2 DEF ClientsCounted
  <2> QED
      BY <1>1, <2>2, <2>3, InTurnElsewhere DEF IInv, Inv, Timed, Partial, Aligned, Header
<1> QED
    BY <1>1, <1>6, <1>7

LEMMA DisconnectKeeps ==
    ASSUME IInv, NEW c \in Conn, Disconnect(c)
    PROVE  IInv'
<1>1. /\ c \in open /\ open' = open \ {c} /\ gone' = gone \cup {c} /\ counter' = counter - 1
      /\ writable' = writable \ {c}
      /\ net' = [net EXCEPT ![c] = <<>>] /\ input' = [input EXCEPT ![c] = <<>>]
      /\ output' = [output EXCEPT ![c] = <<>>]
      /\ UNCHANGED <<limit, clientId, rxBuf, rxLength, timer, asked, got, disturbed>>
    BY DEF Disconnect, rxVars
<1>2. /\ TypeOK /\ counter = Cardinality(open) /\ (limit > 0 => counter <= limit)
      /\ limit \in Nat /\ counter \in Nat
    BY Sizes DEF IInv, Inv, TypeOK, ClientsCounted
<1>3. /\ Cardinality(open \ {c}) = Cardinality(open) - 1 /\ Cardinality(open \ {c}) \in Nat
  <2>1. IsFiniteSet(open) /\ IsFiniteSet(open \ {c})
      BY <1>2, OpenIsFinite, FS_RemoveElement
  <2> QED
      BY <1>1, <2>1, FS_RemoveElement, FS_CardinalityType
<1>4. <<>> \in Seq(Byte) /\ <<>> \in Seq(Answer)
    BY EmptySeq
<1>5. TypeOK'
  <2>1. /\ net' \in [Conn -> Seq(Byte)] /\ input' \in [Conn -> Seq(Byte)]
        /\ output' \in [Conn -> Seq(Answer)]
      BY <1>1, <1>2, <1>4 DEF TypeOK
  <2>2. counter' \in Nat
      BY <1>1, <1>2, <1>3
  <2>3. /\ open' \subseteq Conn /\ gone' \subseteq Conn /\ open' \cap gone' = {}
        /\ writable' \subseteq open'
      BY <1>1, <1>2 DEF TypeOK
  <2> QED
      BY <1>1, <1>2, <2>1, <2>2, <2>3 DEF TypeOK
<1>6. ClientsCounted'
  <2>1. counter' = Cardinality(open')
      BY <1>1, <1>2, <1>3
  <2>2. limit' > 0 => counter' <= limit'
      BY <1>1, <1>2
  <2> QED
      BY <2>1, <2>2 DEF ClientsCounted
<1>7. ASSUME NEW d \in Conn PROVE InTurn(d, Answers(d), Stream(d))'
  <2>1. CASE d = c
    <3>2. got[c] \in Seq(Answer) /\ output[c] \in Seq(Answer) /\ InTurn(c, Answers(c), Stream(c))
        BY <1>2, Typed DEF IInv
    <3>3. Stream(c)' = <<>> /\ Answers(c)' = got[c]
      <4>1. Stream(c)' = <<>> \o <<>>
          BY <1>1, <1>2 DEF Stream, TypeOK
      <4>2. Answers(c)' = got[c] \o <<>>
          BY <1>1, <1>2 DEF Answers, TypeOK
      <4> QED
        <5>1. <<>> \o <<>> = <<>>
            BY <1>4, ConcatEmptySeq
        <5>2. got[c] \o <<>> = got[c]
            BY <3>2, ConcatEmptySeq
        <5> QED
            BY <4>1, <4>2, <5>1, <5>2, Zenon
    <3>4. InTurn(c, got[c], <<>>)
      <4>1. \A i \in 1..Len(got[c]) : i \in 1..Len(Answers(c)) /\ Answers(c)[i] = got[c][i]
          BY <1>2, GotFirst
      <4>2. Owned(c, got[c])
          BY <3>2, <4>1 DEF InTurn, Owned
      <4>3. Made(c, <<>>) /\ Ahead(got[c], <<>>)
          BY DEF Made, Ahead
      <4> QED
          BY <4>2, <4>3 DEF InTurn
    <3> QED
        BY <1>1, <2>1, <3>3, <3>4, InTurnLater
  <2>2. CASE d # c
    <3>1. input'[d] = input[d] /\ net'[d] = net[d] /\ output'[d] = output[d] /\ got'[d] = got[d]
        BY <1>1, <1>2, <2>2 DEF TypeOK
    <3> QED
        BY <1>1, <3>1, InTurnElsewhere DEF IInv
  <2> QED
      BY <2>1, <2>2
<1>8. Timed' /\ Partial'
    BY <1>1 DEF IInv, Inv, Timed, Partial, Aligned, Header
<1> QED
    BY <1>5, <1>6, <1>7, <1>8 DEF IInv, Inv

-----------------------------------------------------------------------------
\* A new request is behind all others of its connection.
LEMMA AskKeeps ==
    ASSUME IInv, NEW c \in Conn, NEW silent \in BOOLEAN, Ask(c, silent)
    PROVE  IInv'
<1> PICK k : Len(asked) + 1 = k
    OBVIOUS
<1> PICK s : Stream(c) = s
    OBVIOUS
<1> DEFINE q == Request(k)
           t == s \o q
           Later(m) == m \in 1..Len(asked') /\ asked'[m].conn = c
<1>1. /\ TypeOK /\ Len(asked) < Len(RequestSize)
      /\ asked' = Append(asked, [conn |-> c, silent |-> silent])
      /\ net' = [net EXCEPT ![c] = @ \o q]
      /\ UNCHANGED <<limit, counter, open, gone, input, output, writable,
                     clientId, rxBuf, rxLength, timer, got>>
      /\ disturbed' = (disturbed \/ \E m \in Outstanding(c) : ~asked[m].silent \/ net[c] # <<>>)
    BY DEF IInv, Inv, Ask, connVars, rxVars
<1>2. /\ Len(asked) \in Nat /\ k \in Requests /\ k \in Nat
      /\ asked \in Seq([conn : Conn, silent : BOOLEAN])
  <2>1. asked \in Seq([conn : Conn, silent : BOOLEAN])
      BY <1>1 DEF TypeOK
  <2>2. Len(asked) \in Nat
      BY <2>1, LenProperties
  <2> QED
      BY <1>1, <2>1, <2>2, Sizes
<1>3. /\ asked' \in Seq([conn : Conn, silent : BOOLEAN]) /\ Len(asked') = k
      /\ \A m \in 1..Len(asked) : asked'[m] = asked[m]
      /\ asked'[k].conn = c
  <2>1. [conn |-> c, silent |-> silent] \in [conn : Conn, silent : BOOLEAN]
      OBVIOUS
  <2> QED
      BY <1>1, <1>2, <2>1, AppendProperties
<1>4. /\ q \in Seq(Byte) /\ Len(q) = RequestSize[k] /\ RequestSize[k] \in Nat
      /\ \A i \in 1..Len(q) : q[i] = <<k, i>>
    BY <1>2, Frames
<1> HIDE DEF q
<1>5. input[c] \in Seq(Byte) /\ net[c] \in Seq(Byte) /\ s \in Seq(Byte)
    BY <1>1, Typed, Joined DEF Stream
<1>6. Stream(c)' = t
  <2>1. net'[c] = net[c] \o q /\ input'[c] = input[c]
      BY <1>1, <1>5 DEF TypeOK
  <2>2. (input[c] \o net[c]) \o q = input[c] \o (net[c] \o q)
    <3>1. \A a, b, d \in Seq(Byte) : (a \o b) \o d = a \o (b \o d)
        BY Regrouped
    <3> QED
        BY <1>4, <1>5, <3>1, Zenon
  <2> QED
      BY <2>1, <2>2 DEF Stream
<1>7. /\ Len(t) = Len(s) + Len(q)
      /\ \A i \in 1..Len(t) : \/ i \in 1..Len(s) /\ t[i] = s[i]
                              \/ i - Len(s) \in 1..Len(q) /\ t[i] = q[i - Len(s)]
      /\ Len(s) \in Nat /\ Len(q) \in Nat
  <2>1. q \in Seq(Byte) /\ s \in Seq(Byte)
      BY <1>4, <1>5, Zenon
  <2> QED
      BY <2>1, Joined
<1> HIDE DEF t
<1>8. ASSUME NEW d \in Conn
      PROVE  InTurn(d, Answers(d), Stream(d)) /\ Answers(d)' = Answers(d)
    BY <1>1 DEF IInv, Answers
<1>9. ASSUME NEW d, NEW m, AskedBy(d, m)
      PROVE  AskedBy(d, m)' /\ asked'[m] = asked[m] /\ m < k /\ m \in Nat
    BY <1>2, <1>3, <1>9 DEF AskedBy
<1>10. ASSUME NEW d \in Conn PROVE Owned(d, Answers(d))'
    BY <1>8, <1>9 DEF InTurn, Owned
<1>11. ASSUME NEW d \in Conn, d # c PROVE Made(d, Stream(d))' /\ Ahead(Answers(d), Stream(d))'
  <2>1. Stream(d)' = Stream(d)
      BY <1>1, <1>11 DEF Stream, TypeOK
  <2> QED
      BY <1>8, <1>9, <2>1 DEF InTurn, Made, Ahead
<1>12. \A i \in 1..Len(t) : \/ i \in 1..Len(s) /\ t[i] = s[i]
                           \/ /\ i \notin 1..Len(s) /\ t[i][1] = k /\ t[i][2] = i - Len(s)
                              /\ i - Len(s) <= RequestSize[k] /\ i \in Nat
  <2> TAKE i \in 1..Len(t)
  <2>1. CASE i \in 1..Len(s) /\ t[i] = s[i]
      BY <2>1
  <2>2. CASE i - Len(s) \in 1..Len(q) /\ t[i] = q[i - Len(s)]
    <3>1. t[i] = <<k, i - Len(s)>>
        BY <1>4, <2>2
    <3>2. i \notin 1..Len(s) /\ i - Len(s) <= RequestSize[k] /\ i \in Nat
        BY <1>4, <1>7, <2>2
    <3> QED
        BY <3>1, <3>2
  <2> QED
      BY <1>7, <2>1, <2>2
<1> HIDE DEF Later
<1>13. InTurn(c, Answers(c), s) /\ Stream(c)' = t /\ Answers(c)' = Answers(c) /\ s \in Seq(Byte)
    BY <1>5, <1>6, <1>8
<1>14. ASSUME NEW i \in 1..Len(s)
       PROVE  /\ Later(s[i][1]) /\ s[i][2] <= RequestSize[s[i][1]]
              /\ s[i][1] < k /\ s[i][1] \in Nat
  <2>1. AskedBy(c, s[i][1]) /\ s[i][2] <= RequestSize[s[i][1]]
      BY <1>13 DEF InTurn, Made
  <2> QED
      BY <1>9, <2>1 DEF AskedBy, Later
<1>15. Made(c, Stream(c))'
  <2>1. ASSUME NEW i \in 1..Len(t) PROVE Later(t[i][1]) /\ t[i][2] <= RequestSize[t[i][1]]
    <3>1. Later(k)
        BY <1>2, <1>3 DEF Later
    <3>2. CASE i \in 1..Len(s) /\ t[i] = s[i]
        BY <1>14, <3>2
    <3>3. CASE t[i][1] = k /\ t[i][2] = i - Len(s) /\ i - Len(s) <= RequestSize[k]
        BY <3>1, <3>3, Zenon
    <3> QED
        BY <1>12, <3>2, <3>3
  <2>2. ASSUME NEW i \in 1..Len(t), NEW j \in 1..Len(t), i < j
        PROVE  t[i][1] < t[j][1] \/ (t[i][1] = t[j][1] /\ t[i][2] < t[j][2])
    <3>1. CASE j \in 1..Len(s) /\ t[j] = s[j]
      <4>1. i \in 1..Len(s) /\ t[i] = s[i]
          BY <1>7, <1>12, <2>2, <3>1
      <4> QED
          BY <1>13, <2>2, <3>1, <4>1 DEF InTurn, Made
    <3>2. CASE j \notin 1..Len(s) /\ t[j][1] = k /\ t[j][2] = j - Len(s)
      <4>1. CASE i \in 1..Len(s) /\ t[i] = s[i]
          BY <1>14, <3>2, <4>1
      <4>2. CASE t[i][1] = k /\ t[i][2] = i - Len(s)
        <5>1. i - Len(s) < j - Len(s)
            BY <1>7, <2>2
        <5> QED
            BY <3>2, <4>2, <5>1
      <4> QED
          BY <1>12, <4>1, <4>2
    <3> QED
        BY <1>12, <3>1, <3>2
  <2> QED
      BY <1>13, <2>1, <2>2 DEF Made, AskedBy, Later
<1>16. Ahead(Answers(c), Stream(c))'
  <2>1. ASSUME NEW i \in 1..Len(Answers(c)), NEW j \in 1..Len(t), Answers(c)[i].whole
        PROVE  Answers(c)[i].of < t[j][1]
    <3>1. CASE j \in 1..Len(s) /\ t[j] = s[j]
        BY <1>13, <2>1, <3>1 DEF InTurn, Ahead
    <3>2. CASE t[j][1] = k
      <4>1. AskedBy(c, Answers(c)[i].of)
          BY <1>13, <2>1 DEF InTurn, Owned
      <4> QED
          BY <1>9, <3>2, <4>1
    <3> QED
        BY <1>12, <3>1, <3>2
  <2> QED
      BY <1>13, <2>1 DEF Ahead
<1>17. \A d \in Conn : InTurn(d, Answers(d), Stream(d))'
    BY <1>10, <1>11, <1>15, <1>16 DEF InTurn
<1>18. TypeOK'
  <2>1. net' \in [Conn -> Seq(Byte)]
    <3>1. net[c] \o q \in Seq(Byte)
        BY <1>4, <1>5, Joined
    <3> QED
        BY <1>1, <3>1 DEF TypeOK
  <2>2. disturbed' \in BOOLEAN
      BY <1>1, Zenon DEF TypeOK
  <2>3. Len(asked') <= Len(RequestSize)
      BY <1>1, <1>2, <1>3, Sizes
  <2> QED
      BY <1>1, <1>3, <2>1, <2>2, <2>3 DEF TypeOK
<1>19. ClientsCounted' /\ Timed' /\ Partial'
    BY <1>1 DEF IInv, Inv, ClientsCounted, Timed, Partial, Aligned, Header
<1> QED
    BY <1>17, <1>18, <1>19 DEF IInv, Inv

-----------------------------------------------------------------------------
LEMMA InitIInv == Init => IInv
<1> SUFFICES ASSUME Init PROVE IInv
    OBVIOUS
<1>1. <<>> \in Seq(Byte) /\ <<>> \in Seq(Answer) /\ Len(<<>>) = 0 /\ RxBufSize > 0 /\ HeaderSize > 0
    BY EmptySeq, Sizes
<1>2. asked \in Seq([conn : Conn, silent : BOOLEAN]) /\ Len(asked) = 0 /\ 0 <= Len(RequestSize)
    BY EmptySeq, Sizes DEF Init
<1>3. rxBuf \in Seq(Byte) /\ Len(rxBuf) = 0
    BY <1>1 DEF Init
<1>4. TypeOK
  <2>1. /\ limit \in Limits /\ counter \in Nat /\ rxLength \in Int /\ Len(rxBuf) < RxBufSize
        /\ Len(asked) <= Len(RequestSize)
      BY <1>1, <1>2, <1>3 DEF Init
  <2>2. /\ open \subseteq Conn /\ gone \subseteq Conn /\ open \cap gone = {} /\ writable \subseteq open
        /\ clientId \in Conn \cup {NoConn} /\ timer \in BOOLEAN /\ disturbed \in BOOLEAN
      BY DEF Init
  <2>3. /\ net \in [Conn -> Seq(Byte)] /\ input \in [Conn -> Seq(Byte)]
        /\ output \in [Conn -> Seq(Answer)] /\ got \in [Conn -> Seq(Answer)]
      BY <1>1 DEF Init
  <2> QED
      BY <1>2, <1>3, <2>1, <2>2, <2>3 DEF TypeOK
<1>5. ClientsCounted
  <2>1. Cardinality({}) = 0
      BY FS_EmptySet
  <2>2. limit \in Nat /\ counter = 0 /\ open = {}
      BY Sizes DEF Init
  <2> QED
      BY <2>1, <2>2 DEF ClientsCounted
<1>6. Timed /\ Partial
  <2>1. Timed
      BY DEF Init, Timed
  <2>2. Partial
      BY <1>1, <1>3, Sizes DEF Partial
  <2> QED
      BY <2>1, <2>2
<1>7. ASSUME NEW c \in Conn PROVE InTurn(c, Answers(c), Stream(c))
  <2>1. Stream(c) = <<>> \o <<>> /\ Answers(c) = <<>> \o <<>>
      BY DEF Init, Stream, Answers
  <2>2. Len(Stream(c)) = 0 /\ Len(Answers(c)) = 0
      BY <2>1
  <2> QED
      BY <2>2 DEF InTurn, Made, Owned, Ahead
<1> QED
    BY <1>4, <1>5, <1>6, <1>7 DEF IInv, Inv

LEMMA NextIInv == IInv /\ [Next]_vars => IInv'
<1> SUFFICES ASSUME IInv, [Next]_vars PROVE IInv'
    OBVIOUS
<1>1. ASSUME NEW c \in Conn, Accept(c) PROVE IInv'
    BY <1>1, AcceptKeeps
<1>2. ASSUME NEW c \in Conn, Disconnect(c) PROVE IInv'
    BY <1>2, DisconnectKeeps
<1>3. ASSUME NEW c \in Conn, NEW silent \in BOOLEAN, Ask(c, silent) PROVE IInv'
    BY <1>3, AskKeeps
<1>4. ASSUME NEW c \in Conn, Read(c) PROVE IInv'
    BY <1>4, ReadCallbackKeeps DEF Read
<1>5. ASSUME NEW c \in Conn, WriteCallback(c) PROVE IInv'
    BY <1>5, WriteCallbackKeeps
<1>6. CASE OnRxTimeout
    BY <1>6, OnRxTimeoutKeeps
<1>7. CASE UNCHANGED vars
  <2>1. /\ UNCHANGED <<limit, counter, open, gone, net, input, output, writable>>
        /\ UNCHANGED <<clientId, rxBuf, rxLength, timer, asked, got, disturbed>>
      BY <1>7 DEF vars, connVars, rxVars
  <2>2. Inv' /\ Partial'
      BY <2>1 DEF IInv, Inv, TypeOK, ClientsCounted, Timed, Partial, Aligned, Header
  <2>3. \A c \in Conn : InTurn(c, Answers(c), Stream(c))'
      BY <2>1, InTurnElsewhere DEF IInv
  <2> QED
      BY <2>2, <2>3 DEF IInv
<1> QED
    BY <1>1, <1>2, <1>3, <1>4, <1>5, <1>6, <1>7 DEF Next

\* The inductive invariant: the types, the counter and the timer; rx_buf never holds
\* a whole request; and for each connection what it was answered, and what of its
\* requests is still unread, are in the order it asked.
THEOREM Invariance == Spec => []IInv
BY InitIInv, NextIInv, PTL DEF Spec

\* For any connections, requests, sizes and limits: the counter that accept_conn_cb
\* and event_callback keep is the number of open connections and within the limit,
\* and the receive timeout runs whenever the receiver holds or waits for something.
THEOREM InvCorrect == Spec => []Inv
<1>1. IInv => Inv
    BY DEF IInv
<1> QED
    BY <1>1, Invariance, PTL

\* One emb_tcp_t with one buffer and one tcp_client_id serves every connection, and
\* still a whole request is answered on the connection that made it, at most once,
\* and in the order of its requests.
THEOREM OwnConnectionCorrect == Spec => []OwnConnection
<1>1. IInv => OwnConnection
  <2> SUFFICES ASSUME IInv, NEW c \in Conn
               PROVE  LET sent == got[c] \o output[c] IN
                      /\ \A i \in DOMAIN sent : sent[i].whole =>
                            /\ sent[i].of \in DOMAIN asked
                            /\ asked[sent[i].of].conn = c /\ ~asked[sent[i].of].silent
                      /\ \A i, j \in DOMAIN sent :
                            i < j /\ sent[i].whole /\ sent[j].whole => sent[i].of < sent[j].of
      BY Zenon DEF OwnConnection
  <2>1. /\ Answers(c) \in Seq(Answer) /\ Owned(c, Answers(c))
        /\ asked \in Seq([conn : Conn, silent : BOOLEAN])
      BY Typed DEF IInv, Inv, TypeOK, InTurn
  <2>2. DOMAIN Answers(c) = 1..Len(Answers(c)) /\ DOMAIN asked = 1..Len(asked)
      BY <2>1, LenProperties
  <2> QED
      BY <2>1, <2>2 DEF Owned, AskedBy, Answers
<1> QED
    BY <1>1, Invariance, PTL

-----------------------------------------------------------------------------
\* What is received while nothing disturbs it: rx_buf holds the beginning of one
\* request, the rest of it is on its way, and every other connection has at most one
\* request, still whole, on its way.
Begins(s, k) == \A i \in 1..Len(s) : s[i] = <<k, i>>
Rest(s, k, m) == Len(s) = RequestSize[k] - m /\ \A i \in 1..Len(s) : s[i] = <<k, m + i>>
Holding(k) ==
    /\ k \in 1..Len(asked) /\ Begins(rxBuf, k) /\ Len(rxBuf) < RequestSize[k]
    /\ asked[k].conn \in gone \/ Rest(net[asked[k].conn], k, Len(rxBuf))
    /\ rxLength = -1 \/ rxLength = RequestSize[k] - Len(rxBuf)
HeldOf(c) == rxBuf # <<>> /\ asked[rxBuf[1][1]].conn = c
OneAtATime(c) ==
    net[c] = <<>> \/ HeldOf(c) \/ \E k \in 1..Len(asked) : AskedBy(c, k) /\ Rest(net[c], k, 0)
AllWhole(a) == \A i \in 1..Len(a) : a[i].whole
Undisturbed ==
    /\ \A c \in Conn : input[c] = <<>>
    /\ rxBuf # <<>> => Holding(rxBuf[1][1])
    /\ \A c \in Conn : OneAtATime(c)
    /\ rxBuf = <<>> => rxLength = -1 \/ (rxLength = 0 /\ LeftUnanswered)
    /\ \A c \in Conn : AllWhole(Answers(c))

\* What does not exceed what is asked for is read at once.
LEMMA ReadAll ==
    ASSUME rxBuf \in Seq(Byte), Len(rxBuf) < RxBufSize, rxLength \in Int,
           NEW c \in Conn, NEW buffered \in Seq(Byte), NEW out, NEW more,
           Len(rxBuf) + Len(buffered) <= RxBufSize, Len(rxBuf) + rxLength <= RxBufSize,
           rxLength >= 0 => Len(buffered) <= rxLength,
           DataReceived(c, buffered, out, more)
    PROVE  /\ input' = [input EXCEPT ![c] = <<>>]
           /\ ParsePacket(c, rxBuf \o buffered, out, more)
<1>1. Len(rxBuf) \in Nat /\ Len(buffered) \in Nat /\ RxBufSize \in Nat
    BY Sizes, LenProperties
<1>2. ~(Room < rxLength)
    BY <1>1 DEF Room
<1>3. ReadAndParse(c, buffered, out, more) /\ clientId' = c
    BY <1>2 DEF DataReceived, Discard
<1> DEFINE n == Least(ToBeRead, Len(buffered))
<1>4. n = Len(buffered)
    BY <1>1 DEF Least, ToBeRead, Room
<1> HIDE DEF n
<1>5. /\ input' = [input EXCEPT ![c] = SubSeq(buffered, n + 1, Len(buffered))]
      /\ ParsePacket(clientId', rxBuf \o SubSeq(buffered, 1, n), out, more)
    BY <1>3 DEF ReadAndParse, n
<1>6. SubSeq(buffered, Len(buffered) + 1, Len(buffered)) = <<>>
    BY <1>1, SubSeqEmpty
<1>7. SubSeq(buffered, 1, Len(buffered)) = buffered
    BY SubSeqFull
<1> QED
    BY <1>3, <1>4, <1>5, <1>6, <1>7, Zenon

\* An event with nothing to be read.
LEMMA NothingRead ==
    ASSUME rxBuf = <<>>, rxLength \in {-1, 0}, NEW c \in Conn, NEW out, NEW more,
           DataReceived(c, <<>>, out, more)
    PROVE  /\ input' = [input EXCEPT ![c] = <<>>]
           /\ rxBuf' = <<>> /\ rxLength' = -1 /\ output' = out
<1>1. /\ <<>> \in Seq(Byte) /\ Len(<<>>) = 0 /\ RxBufSize \in Nat /\ RxBufSize > 0
      /\ HeaderSize \in Nat /\ HeaderSize > 0
    BY Sizes, EmptySeq
<1>2. /\ rxBuf \in Seq(Byte) /\ Len(rxBuf) = 0
    BY <1>1, Zenon
<1>3. input' = [input EXCEPT ![c] = <<>>] /\ ParsePacket(c, rxBuf \o <<>>, out, more)
  <2>1. /\ Len(rxBuf) < RxBufSize /\ rxLength \in Int
        /\ Len(rxBuf) + Len(<<>>) <= RxBufSize /\ Len(rxBuf) + rxLength <= RxBufSize
        /\ rxLength >= 0 => Len(<<>>) <= rxLength
      BY <1>1, <1>2
  <2> QED
      BY <1>1, <1>2, <2>1, ReadAll
<1>4. rxBuf \o <<>> = <<>>
    BY <1>1, ConcatEmptySeq, Zenon
<1>5. ParsePacket(c, <<>>, out, more)
    BY <1>3, <1>4, Zenon
<1>6. Len(<<>>) < HeaderSize /\ ~(Len(<<>>) >= HeaderSize)
    BY <1>1
<1>7. rxLength' = -1 /\ rxBuf' = <<>> /\ output' = out
    BY <1>5, <1>6, Zenon DEF ParsePacket
<1> QED
    BY <1>3, <1>7, Zenon

\* The beginning of a request starts with its header.
LEMMA BeginningIsAligned ==
    ASSUME NEW k \in Requests, NEW buf \in Seq(Byte), Begins(buf, k),
           Len(buf) >= HeaderSize, Len(buf) <= RequestSize[k]
    PROVE  Aligned(buf) /\ buf[1][1] = k /\ SizesRead(buf) = {RequestSize[k]}
<1>1. /\ Len(buf) \in Nat /\ HeaderSize \in Nat /\ HeaderSize > 0 /\ RequestSize[k] \in Nat
      /\ HeaderSize <= RequestSize[k]
    BY Sizes, LenProperties
<1>2. /\ Request(k) \in Seq(Byte) /\ Len(Request(k)) = RequestSize[k]
      /\ \A i \in 1..RequestSize[k] : Request(k)[i] = <<k, i>>
    BY Frames
<1> DEFINE h == SubSeq(buf, 1, HeaderSize)
           g == SubSeq(Request(k), 1, HeaderSize)
<1>3. h \in Seq(Byte) /\ Len(h) = HeaderSize /\ \A i \in 1..HeaderSize : h[i] = buf[i]
    BY <1>1, Suffix
<1>4. g \in Seq(Byte) /\ Len(g) = HeaderSize /\ \A i \in 1..HeaderSize : g[i] = Request(k)[i]
    BY <1>1, <1>2, Suffix
<1> HIDE DEF h, g
<1>5. ASSUME NEW i \in 1..HeaderSize PROVE h[i] = g[i]
  <2>1. i \in 1..Len(buf) /\ i \in 1..RequestSize[k]
      BY <1>1
  <2>2. buf[i] = <<k, i>> /\ Request(k)[i] = <<k, i>>
      BY <1>2, <2>1 DEF Begins
  <2> QED
      BY <1>3, <1>4, <2>2
<1>6. h = g
    BY <1>1, <1>3, <1>4, <1>5, SeqEqual
<1>7. Aligned(buf)
    BY <1>6 DEF Aligned, Header, h, g
<1>8. buf[1][1] = k
  <2>1. 1 \in 1..Len(buf)
      BY <1>1
  <2>2. buf[1] = <<k, 1>>
      BY <2>1 DEF Begins
  <2> QED
      BY <2>2
<1>9. SizesRead(buf) = {RequestSize[k]}
    BY <1>7, <1>8, Zenon DEF SizesRead
<1> QED
    BY <1>7, <1>8, <1>9

\* A beginning that is not all is kept, and a whole request is served.
LEMMA BeginningIsParsed ==
    ASSUME NEW k \in Requests, NEW buf \in Seq(Byte), Begins(buf, k), Len(buf) <= RequestSize[k],
           NEW c \in Conn, NEW out, NEW more, ParsePacket(c, buf, out, more)
    PROVE  \/ /\ Len(buf) < RequestSize[k] /\ rxBuf' = buf /\ output' = out
              /\ rxLength' = -1 \/ rxLength' = RequestSize[k] - Len(buf)
           \/ /\ Len(buf) = RequestSize[k] /\ rxBuf' = <<>> /\ rxLength' = 0
              /\ \/ output' = out
                 \/ output' = [out EXCEPT ![c] = Append(@, [of |-> k, whole |-> TRUE])]
<1>1. /\ Len(buf) \in Nat /\ HeaderSize \in Nat /\ HeaderSize > 0 /\ RequestSize[k] \in Nat
      /\ HeaderSize <= RequestSize[k] /\ RequestSize[k] <= RxBufSize /\ RxBufSize \in Nat
    BY Sizes, LenProperties
<1>2. CASE Len(buf) < HeaderSize
  <2>1. rxLength' = -1 /\ rxBuf' = buf /\ output' = out
      BY <1>1, <1>2 DEF ParsePacket
  <2>2. Len(buf) < RequestSize[k]
      BY <1>1, <1>2
  <2> QED
      BY <2>1, <2>2
<1>3. CASE Len(buf) >= HeaderSize
  <2>1. Aligned(buf) /\ buf[1][1] = k /\ SizesRead(buf) = {RequestSize[k]}
      BY <1>3, BeginningIsAligned
  <2>2. PICK size \in SizesRead(buf) :
           /\ rxLength' = size - Len(buf)
           /\ IF rxLength' > 0
              THEN /\ rxBuf' = IF Len(buf) = RxBufSize THEN <<>> ELSE buf
                   /\ output' = out /\ writable' = more
              ELSE rxBuf' = <<>> /\ ServeFrame(c, buf, size, out, more)
      BY <1>1, <1>3 DEF ParsePacket
  <2>3. size = RequestSize[k]
      BY <2>1
  <2>4. rxLength' = RequestSize[k] - Len(buf)
      BY <2>2, <2>3
  <2>5. CASE Len(buf) < RequestSize[k]
    <3>1. rxLength' > 0 /\ Len(buf) # RxBufSize
        BY <1>1, <2>4, <2>5
    <3>2. rxBuf' = buf /\ output' = out
        BY <2>2, <3>1
    <3> QED
        BY <2>4, <2>5, <3>2
  <2>6. CASE Len(buf) = RequestSize[k]
    <3>1. rxLength' = 0 /\ ~(rxLength' > 0)
        BY <1>1, <2>4, <2>6
    <3>2. rxBuf' = <<>> /\ ServeFrame(c, buf, size, out, more)
        BY <2>2, <3>1
    <3>3. SubSeq(buf, 1, size) = Request(buf[1][1])
      <4>1. SubSeq(buf, 1, size) = buf
          BY <2>3, <2>6, SubSeqFull
      <4>2. /\ Request(k) \in Seq(Byte) /\ Len(Request(k)) = RequestSize[k]
            /\ \A i \in 1..RequestSize[k] : Request(k)[i] = <<k, i>>
          BY Frames
      <4>3. \A i \in 1..Len(buf) : buf[i] = Request(k)[i]
          BY <2>6, <4>2 DEF Begins
      <4>4. buf = Request(k)
          BY <2>6, <4>2, <4>3, SeqEqual
      <4> QED
          BY <2>1, <4>1, <4>4, Zenon
    <3> DEFINE whole == Aligned(buf) /\ SubSeq(buf, 1, size) = Request(buf[1][1])
               answer == [of |-> IF Aligned(buf) THEN buf[1][1] ELSE 0, whole |-> whole]
    <3>4. answer = [of |-> k, whole |-> TRUE]
      <4>1. whole = TRUE
          BY <2>1, <3>3, Zenon
      <4>2. (IF Aligned(buf) THEN buf[1][1] ELSE 0) = k
          BY <2>1, Zenon
      <4> QED
          BY <4>1, <4>2, Zenon
    <3>5. output' = out \/ output' = [out EXCEPT ![c] = Append(@, answer)]
        BY <3>2, Zenon DEF ServeFrame
    <3> QED
        BY <2>6, <3>1, <3>2, <3>4, <3>5, Zenon
  <2> QED
      BY <1>1, <2>5, <2>6
<1> QED
    BY <1>1, <1>2, <1>3

\* The next bytes of a request go behind the beginning of it.
LEMMA GoesOn ==
    ASSUME rxBuf \in Seq(Byte), Len(rxBuf) < RxBufSize, rxLength \in Int,
           NEW k \in Requests, Begins(rxBuf, k), Len(rxBuf) < RequestSize[k],
           rxLength = -1 \/ rxLength = RequestSize[k] - Len(rxBuf),
           NEW c \in Conn, NEW buffered \in Seq(Byte), NEW out, NEW more,
           Len(rxBuf) + Len(buffered) <= RequestSize[k],
           \A i \in 1..Len(buffered) : buffered[i] = <<k, Len(rxBuf) + i>>,
           DataReceived(c, buffered, out, more)
    PROVE  /\ input' = [input EXCEPT ![c] = <<>>]
           /\ \/ /\ Len(rxBuf) + Len(buffered) < RequestSize[k]
                 /\ rxBuf' = rxBuf \o buffered /\ output' = out
                 /\ Begins(rxBuf', k) /\ Len(rxBuf') = Len(rxBuf) + Len(buffered)
                 /\ rxLength' = -1 \/ rxLength' = RequestSize[k] - Len(rxBuf')
              \/ /\ Len(rxBuf) + Len(buffered) = RequestSize[k] /\ rxBuf' = <<>> /\ rxLength' = 0
                 /\ \/ output' = out
                    \/ output' = [out EXCEPT ![c] = Append(@, [of |-> k, whole |-> TRUE])]
<1> DEFINE buf == rxBuf \o buffered
<1>1. /\ Len(rxBuf) \in Nat /\ Len(buffered) \in Nat
      /\ RequestSize[k] \in Nat /\ RequestSize[k] <= RxBufSize /\ RxBufSize \in Nat
    BY Sizes, LenProperties
<1>2. /\ Len(rxBuf) + Len(buffered) <= RxBufSize /\ Len(rxBuf) + rxLength <= RxBufSize
      /\ rxLength >= 0 => Len(buffered) <= rxLength
    BY <1>1
<1>3. input' = [input EXCEPT ![c] = <<>>] /\ ParsePacket(c, buf, out, more)
    BY <1>2, ReadAll
<1>4. /\ buf \in Seq(Byte) /\ Len(buf) = Len(rxBuf) + Len(buffered)
      /\ \A i \in 1..Len(buf) : \/ i \in 1..Len(rxBuf) /\ buf[i] = rxBuf[i]
                                \/ i - Len(rxBuf) \in 1..Len(buffered) /\ buf[i] = buffered[i - Len(rxBuf)]
    BY Joined
<1> HIDE DEF buf
<1>5. Begins(buf, k)
  <2>1. ASSUME NEW i \in 1..Len(buf) PROVE buf[i] = <<k, i>>
    <3>1. CASE i \in 1..Len(rxBuf) /\ buf[i] = rxBuf[i]
        BY <3>1 DEF Begins
    <3>2. CASE i - Len(rxBuf) \in 1..Len(buffered) /\ buf[i] = buffered[i - Len(rxBuf)]
      <4>1. buffered[i - Len(rxBuf)] = <<k, Len(rxBuf) + (i - Len(rxBuf))>>
          BY <3>2
      <4>2. Len(rxBuf) + (i - Len(rxBuf)) = i
          BY <1>1, <1>4
      <4> QED
          BY <3>2, <4>1, <4>2, Zenon
    <3> QED
        BY <1>4, <3>1, <3>2
  <2> QED
      BY <2>1 DEF Begins
<1>6. Len(buf) <= RequestSize[k]
    BY <1>4
<1>7. \/ /\ Len(buf) < RequestSize[k] /\ rxBuf' = buf /\ output' = out
         /\ rxLength' = -1 \/ rxLength' = RequestSize[k] - Len(buf)
      \/ /\ Len(buf) = RequestSize[k] /\ rxBuf' = <<>> /\ rxLength' = 0
         /\ \/ output' = out
            \/ output' = [out EXCEPT ![c] = Append(@, [of |-> k, whole |-> TRUE])]
    BY <1>3, <1>4, <1>5, <1>6, BeginningIsParsed
<1>8. CASE /\ Len(buf) < RequestSize[k] /\ rxBuf' = buf /\ output' = out
           /\ rxLength' = -1 \/ rxLength' = RequestSize[k] - Len(buf)
  <2>1. Begins(rxBuf', k) /\ Len(rxBuf') = Len(buf)
      BY <1>5, <1>8, Zenon
  <2> QED
      BY <1>3, <1>4, <1>8, <2>1, Zenon DEF buf
<1>9. CASE /\ Len(buf) = RequestSize[k] /\ rxBuf' = <<>> /\ rxLength' = 0
           /\ \/ output' = out
              \/ output' = [out EXCEPT ![c] = Append(@, [of |-> k, whole |-> TRUE])]
    BY <1>3, <1>4, <1>9, Zenon
<1> QED
    BY <1>7, <1>8, <1>9

-----------------------------------------------------------------------------
\* Of what is on its way in an undisturbed connection nothing is answered yet.
LEMMA NotYetAnswered ==
    ASSUME IInv, Undisturbed, NEW c \in Conn, net[c] # <<>>
    PROVE  /\ AskedBy(c, net[c][1][1])
           /\ \A i \in 1..Len(Answers(c)) : Answers(c)[i].of # net[c][1][1]
           /\ \A i \in 1..Len(got[c]) : got[c][i].of # net[c][1][1]
           /\ net[c][1][1] \in Outstanding(c)
<1> PICK k : net[c][1][1] = k
    OBVIOUS
<1>1. /\ input[c] \in Seq(Byte) /\ net[c] \in Seq(Byte)
      /\ got[c] \in Seq(Answer) /\ output[c] \in Seq(Answer) /\ Answers(c) \in Seq(Answer)
    BY Typed DEF IInv, Inv
<1>2. Stream(c) = net[c]
  <2>1. input[c] = <<>>
      BY DEF Undisturbed
  <2> QED
      BY <1>1, <2>1, ConcatEmptySeq DEF Stream
<1>3. 1 \in 1..Len(net[c])
  <2>1. Len(net[c]) \in Nat /\ Len(net[c]) # 0
      BY <1>1, LenProperties, EmptySeq
  <2> QED
      BY <2>1
<1>4. InTurn(c, Answers(c), net[c]) /\ AllWhole(Answers(c))
    BY <1>2 DEF IInv, Undisturbed
<1>5. AskedBy(c, k)
    BY <1>3, <1>4 DEF InTurn, Made
<1>6. ASSUME NEW i \in 1..Len(Answers(c)) PROVE Answers(c)[i].of # k
  <2>1. Answers(c)[i].of < k
      BY <1>3, <1>4 DEF InTurn, Ahead, AllWhole
  <2>2. Answers(c)[i].of \in Nat
      BY <1>1, AnswerTypes
  <2> QED
      BY <2>1, <2>2
<1>7. ASSUME NEW i \in 1..Len(got[c]) PROVE got[c][i].of # k
  <2>1. \A j \in 1..Len(got[c]) : j \in 1..Len(Answers(c)) /\ Answers(c)[j] = got[c][j]
      BY GotFirst DEF IInv, Inv
  <2>2. i \in 1..Len(Answers(c))
      BY <2>1
  <2> QED
      BY <1>6, <2>1, <2>2
<1>8. k \in Outstanding(c)
  <2>1. DOMAIN got[c] = 1..Len(got[c])
      BY <1>1, LenProperties
  <2>2. DOMAIN asked = 1..Len(asked)
      BY LenProperties DEF IInv, Inv, TypeOK
  <2> QED
      BY <1>5, <1>7, <2>1, <2>2 DEF Outstanding, AskedBy
<1> QED
    BY <1>5, <1>6, <1>7, <1>8

LEMMA AskedIsConn ==
    ASSUME TypeOK, NEW k \in 1..Len(asked)
    PROVE  asked[k].conn \in Conn
<1>1. asked \in Seq([conn : Conn, silent : BOOLEAN])
    BY DEF TypeOK
<1>2. asked[k] \in [conn : Conn, silent : BOOLEAN]
    BY <1>1, ElementOfSeq
<1> QED
    BY <1>2

\* Elsewhere nothing changes.
LEMMA StillOneAtATime ==
    ASSUME NEW c \in Conn, net[c] = <<>> \/ \E k \in 1..Len(asked) : AskedBy(c, k) /\ Rest(net[c], k, 0),
           net'[c] = net[c], asked' = asked
    PROVE  OneAtATime(c)'
<1>1. CASE net[c] = <<>>
    BY <1>1 DEF OneAtATime
<1>2. ASSUME NEW k \in 1..Len(asked), AskedBy(c, k), Rest(net[c], k, 0)
      PROVE  OneAtATime(c)'
  <2>1. k \in 1..Len(asked') /\ asked'[k].conn = c /\ Rest(net'[c], k, 0)
      BY <1>2 DEF AskedBy
  <2> QED
      BY <2>1 DEF OneAtATime, AskedBy
<1> QED
    BY <1>1, <1>2

LEMMA ReadIsUndisturbed ==
    ASSUME IInv, Undisturbed, NEW c \in Conn, NEW r \in 1..Len(net[c]), ReadCallback(c, r),
           ~disturbed'
    PROVE  Undisturbed'
<1>1. /\ TypeOK /\ c \in open /\ ~Collides(c)
      /\ net' = [net EXCEPT ![c] = SubSeq(@, r + 1, Len(@))]
      /\ DataReceived(c, input[c] \o SubSeq(net[c], 1, r), output, writable)
      /\ gone' = gone /\ asked' = asked /\ got' = got
  <2>1. disturbed' = (disturbed \/ Collides(c))
      BY DEF ReadCallback
  <2>2. ~Collides(c)
      BY <2>1, Zenon
  <2> QED
      BY <2>2 DEF IInv, Inv, ReadCallback, connVars
<1>2. /\ net \in [Conn -> Seq(Byte)] /\ input \in [Conn -> Seq(Byte)]
      /\ output \in [Conn -> Seq(Answer)] /\ got \in [Conn -> Seq(Answer)]
      /\ rxBuf \in Seq(Byte) /\ Len(rxBuf) < RxBufSize /\ rxLength \in Int
      /\ asked \in Seq([conn : Conn, silent : BOOLEAN]) /\ c \notin gone
    BY <1>1 DEF TypeOK
<1>3. net[c] \in Seq(Byte) /\ Len(net[c]) \in Nat /\ r \in Nat /\ r > 0 /\ r <= Len(net[c])
  <2>1. net[c] \in Seq(Byte)
      BY <1>2
  <2>2. Len(net[c]) \in Nat
      BY <2>1, LenProperties
  <2> QED
      BY <2>1, <2>2
<1>4. net[c] # <<>> /\ Len(rxBuf) \in Nat
    BY <1>2, <1>3, LenProperties
<1>5. PICK k : /\ AskedBy(c, k) /\ Begins(rxBuf, k) /\ Len(rxBuf) < RequestSize[k]
               /\ Rest(net[c], k, Len(rxBuf))
               /\ rxLength = -1 \/ rxLength = RequestSize[k] - Len(rxBuf)
               /\ \A d \in Conn \ {c} : ~HeldOf(d)
  <2>1. CASE rxBuf # <<>>
    <3>1. asked[rxBuf[1][1]].conn = c
        BY <1>1, <2>1 DEF Collides
    <3>2. Holding(rxBuf[1][1])
        BY <2>1 DEF Undisturbed
    <3>3. \A d \in Conn \ {c} : ~HeldOf(d)
        BY <3>1 DEF HeldOf
    <3> QED
        BY <1>2, <3>1, <3>2, <3>3 DEF Holding, AskedBy
  <2>2. CASE rxBuf = <<>>
    <3>1. rxLength = -1
        BY <1>1, <2>2 DEF Undisturbed, Collides
    <3>2. PICK k \in 1..Len(asked) : AskedBy(c, k) /\ Rest(net[c], k, 0)
        BY <1>4, <2>2 DEF Undisturbed, OneAtATime, HeldOf
    <3>3. Len(rxBuf) = 0
        BY <2>2, EmptySeq
    <3>4. Begins(rxBuf, k)
        BY <3>3 DEF Begins
    <3>5. Len(rxBuf) < RequestSize[k]
      <4>1. Len(net[c]) = RequestSize[k] - 0
          BY <3>2 DEF Rest
      <4>2. k \in Requests
          BY <1>1, Sizes DEF TypeOK
      <4>3. RequestSize[k] \in Nat
          BY <4>2, Sizes
      <4> QED
          BY <1>3, <3>3, <4>1, <4>3
    <3>6. Rest(net[c], k, Len(rxBuf))
        BY <3>2, <3>3, Zenon
    <3>7. \A d \in Conn \ {c} : ~HeldOf(d)
        BY <2>2 DEF HeldOf
    <3> QED
        BY <3>1, <3>2, <3>4, <3>5, <3>6, <3>7
  <2> QED
      BY <2>1, <2>2
<1>6. k \in Requests /\ k \in 1..Len(asked) /\ k \in Nat /\ Len(asked) \in Nat /\ DOMAIN asked = 1..Len(asked)
      /\ RequestSize[k] \in Nat /\ asked[k].conn = c
  <2>1. k \in 1..Len(asked) /\ asked[k].conn = c
      BY <1>5 DEF AskedBy
  <2>2. Len(asked) \in Nat /\ Len(asked) <= Len(RequestSize) /\ DOMAIN asked = 1..Len(asked)
      BY <1>1, <1>2, LenProperties DEF TypeOK
  <2>3. k \in Requests
      BY <2>1, <2>2, Sizes
  <2> QED
      BY <2>1, <2>2, <2>3, Sizes
<1> DEFINE first == SubSeq(net[c], 1, r)
           rest == SubSeq(net[c], r + 1, Len(net[c]))
           L == Len(rxBuf) + r
<1>7. /\ first \in Seq(Byte) /\ Len(first) = r /\ \A i \in 1..r : first[i] = net[c][i]
      /\ rest \in Seq(Byte) /\ Len(rest) = Len(net[c]) - r
      /\ \A i \in 1..(Len(net[c]) - r) : rest[i] = net[c][r + i]
    BY <1>3, Suffix
<1>8. input[c] \o first = first
  <2>1. input[c] = <<>>
      BY DEF Undisturbed
  <2> QED
      BY <1>7, <2>1, ConcatEmptySeq, Zenon
<1>9. net'[c] = rest /\ \A d \in Conn \ {c} : net'[d] = net[d]
    BY <1>1, <1>2
<1>10. DataReceived(c, first, output, writable)
    BY <1>1, <1>8, Zenon
<1> HIDE DEF first, rest
<1>11. /\ Len(net[c]) = RequestSize[k] - Len(rxBuf)
       /\ \A i \in 1..Len(net[c]) : net[c][i] = <<k, Len(rxBuf) + i>>
    BY <1>5 DEF Rest
<1>12. /\ input' = [input EXCEPT ![c] = <<>>]
       /\ \/ /\ L < RequestSize[k] /\ output' = output
             /\ Begins(rxBuf', k) /\ Len(rxBuf') = L
             /\ rxLength' = -1 \/ rxLength' = RequestSize[k] - Len(rxBuf')
          \/ /\ L = RequestSize[k] /\ rxBuf' = <<>> /\ rxLength' = 0
             /\ \/ output' = output
                \/ output' = [output EXCEPT ![c] = Append(@, [of |-> k, whole |-> TRUE])]
  <2>1. Len(rxBuf) + Len(first) <= RequestSize[k] /\ Len(first) = r
      BY <1>3, <1>4, <1>6, <1>7, <1>11
  <2>2. \A i \in 1..Len(first) : first[i] = <<k, Len(rxBuf) + i>>
    <3>1. \A i \in 1..r : i \in 1..Len(net[c])
        BY <1>3
    <3> QED
        BY <1>7, <1>11, <3>1
  <2> QED
    <3>1. /\ rxBuf \in Seq(Byte) /\ Len(rxBuf) < RxBufSize /\ rxLength \in Int
          /\ first \in Seq(Byte) /\ k \in Requests /\ Len(first) = r
        BY <1>2, <1>6, <1>7
    <3>2. /\ Begins(rxBuf, k) /\ Len(rxBuf) < RequestSize[k]
          /\ rxLength = -1 \/ rxLength = RequestSize[k] - Len(rxBuf)
        BY <1>5
    <3>3. /\ input' = [input EXCEPT ![c] = <<>>]
          /\ \/ /\ Len(rxBuf) + Len(first) < RequestSize[k]
                /\ rxBuf' = rxBuf \o first /\ output' = output
                /\ Begins(rxBuf', k) /\ Len(rxBuf') = Len(rxBuf) + Len(first)
                /\ rxLength' = -1 \/ rxLength' = RequestSize[k] - Len(rxBuf')
             \/ /\ Len(rxBuf) + Len(first) = RequestSize[k] /\ rxBuf' = <<>> /\ rxLength' = 0
                /\ \/ output' = output
                   \/ output' = [output EXCEPT ![c] = Append(@, [of |-> k, whole |-> TRUE])]
        BY <1>10, <2>1, <2>2, <3>1, <3>2, GoesOn
    <3> QED
        BY <3>1, <3>3, Zenon
<1>13. Rest(net'[c], k, L)
  <2>1. Len(rest) = RequestSize[k] - L
      BY <1>3, <1>4, <1>6, <1>7, <1>11
  <2>2. ASSUME NEW i \in 1..Len(rest) PROVE rest[i] = <<k, L + i>>
    <3>1. r + i \in 1..Len(net[c]) /\ i \in 1..(Len(net[c]) - r) /\ Len(rxBuf) + (r + i) = L + i
        BY <1>3, <1>4, <1>7
    <3>2. rest[i] = net[c][r + i] /\ net[c][r + i] = <<k, Len(rxBuf) + (r + i)>>
        BY <1>7, <1>11, <3>1
    <3> QED
        BY <3>1, <3>2, Zenon
  <2> QED
      BY <1>9, <2>1, <2>2 DEF Rest
<1>14. \A d \in Conn : input'[d] = <<>>
    BY <1>2, <1>12 DEF Undisturbed
<1>15. ASSUME NEW d \in Conn \ {c} PROVE OneAtATime(d)'
    BY <1>1, <1>5, <1>9, StillOneAtATime DEF Undisturbed, OneAtATime
<1>16. CASE /\ L < RequestSize[k] /\ output' = output
            /\ Begins(rxBuf', k) /\ Len(rxBuf') = L
            /\ rxLength' = -1 \/ rxLength' = RequestSize[k] - Len(rxBuf')
  <2>1. rxBuf' # <<>> /\ rxBuf'[1][1] = k
    <3>1. L > 0 /\ 1 \in 1..L
        BY <1>3, <1>4
    <3>2. rxBuf' # <<>>
        BY <1>16, <3>1, EmptySeq
    <3>3. rxBuf'[1] = <<k, 1>>
        BY <1>16, <3>1 DEF Begins
    <3> QED
        BY <3>2, <3>3
  <2>2. Holding(rxBuf[1][1])'
    <3>1. Rest(net'[asked'[k].conn], k, Len(rxBuf'))
        BY <1>1, <1>6, <1>13, <1>16
    <3> QED
        BY <1>1, <1>6, <1>16, <2>1, <3>1 DEF Holding
  <2>3. OneAtATime(c)'
      BY <1>1, <1>6, <2>1 DEF OneAtATime, HeldOf
  <2>4. \A d \in Conn : AllWhole(Answers(d))'
      BY <1>1, <1>16 DEF Undisturbed, AllWhole, Answers
  <2>5. \A d \in Conn : OneAtATime(d)'
      BY <1>15, <2>3
  <2> QED
      BY <1>14, <2>1, <2>2, <2>4, <2>5 DEF Undisturbed
<1>17. CASE /\ L = RequestSize[k] /\ rxBuf' = <<>> /\ rxLength' = 0
            /\ \/ output' = output
               \/ output' = [output EXCEPT ![c] = Append(@, [of |-> k, whole |-> TRUE])]
  <2>1. net'[c] = <<>>
    <3>1. Len(rest) = 0
        BY <1>3, <1>4, <1>7, <1>11, <1>17
    <3> QED
        BY <1>7, <1>9, <3>1, EmptySeq
  <2>2. LeftUnanswered'
    <3>1. net[c][1][1] = k
      <4>1. 1 \in 1..Len(net[c])
          BY <1>3
      <4>2. net[c][1] = <<k, Len(rxBuf) + 1>>
          BY <1>11, <4>1
      <4> QED
          BY <4>2
    <3>2. k \in Outstanding(c)
        BY <1>4, <3>1, NotYetAnswered
    <3>3. k \in Outstanding(c)'
        BY <1>1, <3>2 DEF Outstanding
    <3>4. DOMAIN net'[c] = {}
        BY <2>1
    <3> QED
        BY <1>1, <1>6, <3>3, <3>4 DEF LeftUnanswered
  <2>3. OneAtATime(c)'
      BY <2>1 DEF OneAtATime
  <2>4. ASSUME NEW d \in Conn PROVE AllWhole(Answers(d))'
    <3>1. AllWhole(Answers(d))
        BY DEF Undisturbed
    <3>2. CASE output'[d] = output[d]
        BY <1>1, <3>1, <3>2 DEF AllWhole, Answers
    <3>3. CASE d = c /\ output' = [output EXCEPT ![c] = Append(@, [of |-> k, whole |-> TRUE])]
      <4> DEFINE a == [of |-> k, whole |-> TRUE]
      <4>1. /\ output'[c] = Append(output[c], a) /\ got[c] \in Seq(Answer) /\ output[c] \in Seq(Answer)
            /\ a \in Answer
          BY <1>2, <1>6, <3>3 DEF Answer
      <4>2. Answers(c)' = Append(Answers(c), a)
        <5>1. \A x, y \in Seq(Answer), z \in Answer : x \o Append(y, z) = Append(x \o y, z)
            BY AppendedBehind
        <5>2. got[c] \o Append(output[c], a) = Append(got[c] \o output[c], a)
            BY <4>1, <5>1, Zenon
        <5> QED
            BY <1>1, <4>1, <5>2 DEF Answers
      <4>3. a.whole
          OBVIOUS
      <4> HIDE DEF a
      <4>4. /\ Answers(c) \in Seq(Answer) /\ Len(Append(Answers(c), a)) = Len(Answers(c)) + 1
            /\ Len(Answers(c)) \in Nat
            /\ \A i \in 1..Len(Answers(c)) : Append(Answers(c), a)[i] = Answers(c)[i]
            /\ Append(Answers(c), a)[Len(Answers(c)) + 1] = a
          BY <1>1, <4>1, Typed, AppendProperties
      <4>5. ASSUME NEW i \in 1..Len(Append(Answers(c), a)) PROVE Append(Answers(c), a)[i].whole
        <5>1. CASE i \in 1..Len(Answers(c))
            BY <3>1, <3>3, <4>4, <5>1 DEF AllWhole
        <5>2. CASE i = Len(Answers(c)) + 1
            BY <4>3, <4>4, <5>2
        <5>3. i \in 1..Len(Answers(c)) \/ i = Len(Answers(c)) + 1
            BY <4>4
        <5> QED
            BY <5>1, <5>2, <5>3
      <4> QED
          BY <3>3, <4>2, <4>5 DEF AllWhole
    <3> QED
        BY <1>2, <1>17, <3>2, <3>3
  <2>5. \A d \in Conn : OneAtATime(d)'
      BY <1>15, <2>3
  <2> QED
      BY <1>14, <1>17, <2>2, <2>4, <2>5 DEF Undisturbed
<1> QED
    BY <1>12, <1>16, <1>17

\* Where nothing is received, rx_buf holds what it held.
LEMMA SameIsUndisturbed ==
    ASSUME IInv, Undisturbed,
           \A c \in Conn : input'[c] = <<>> /\ net'[c] = net[c] /\ Answers(c)' = Answers(c),
           rxBuf' = rxBuf, asked' = asked, gone \subseteq gone',
           \/ rxLength' = -1
           \/ rxBuf # <<>> /\ rxLength' = RequestSize[rxBuf[1][1]] - Len(rxBuf)
           \/ rxLength' = rxLength /\ got' = got /\ net' = net
    PROVE  Undisturbed'
<1>1. TypeOK
    BY DEF IInv, Inv
<1>2. ASSUME rxBuf # <<>> PROVE Holding(rxBuf[1][1])'
  <2> PICK k : rxBuf[1][1] = k
      OBVIOUS
  <2>1. Holding(k)
      BY <1>2 DEF Undisturbed
  <2>2. asked[k].conn \in Conn
    <3>1. k \in 1..Len(asked)
        BY <2>1 DEF Holding
    <3> QED
        BY <1>1, <3>1, AskedIsConn
  <2>3. asked'[k].conn \in gone' \/ Rest(net'[asked'[k].conn], k, Len(rxBuf'))
      BY <2>1, <2>2 DEF Holding
  <2>4. rxLength' = -1 \/ rxLength' = RequestSize[k] - Len(rxBuf')
      BY <1>2, <2>1 DEF Holding
  <2>5. k \in 1..Len(asked') /\ Begins(rxBuf', k) /\ Len(rxBuf') < RequestSize[k]
      BY <2>1 DEF Holding
  <2> QED
      BY <2>3, <2>4, <2>5 DEF Holding
<1>3. ASSUME NEW c \in Conn PROVE OneAtATime(c)'
  <2>1. OneAtATime(c) /\ net'[c] = net[c]
      BY DEF Undisturbed
  <2>2. CASE HeldOf(c)
      BY <2>2 DEF HeldOf, OneAtATime
  <2>3. CASE ~HeldOf(c)
      BY <2>1, <2>3, StillOneAtATime DEF OneAtATime
  <2> QED
      BY <2>2, <2>3
<1>4. rxBuf = <<>> => rxLength' = -1 \/ (rxLength' = 0 /\ LeftUnanswered')
  <2>1. CASE rxLength' = rxLength /\ got' = got /\ net' = net
    <3>1. LeftUnanswered => LeftUnanswered'
        BY <2>1 DEF LeftUnanswered, Outstanding
    <3> QED
        BY <2>1, <3>1 DEF Undisturbed
  <2> QED
      BY <2>1
<1>5. \A c \in Conn : AllWhole(Answers(c))'
    BY DEF Undisturbed, AllWhole
<1> QED
    BY <1>2, <1>3, <1>4, <1>5 DEF Undisturbed

LEMMA WriteIsUndisturbed ==
    ASSUME IInv, Undisturbed, NEW c \in Conn, WriteCallback(c)
    PROVE  Undisturbed'
<1> DEFINE out == [output EXCEPT ![c] = <<>>]
           more == writable \ {c}
<1>1. /\ TypeOK /\ got' = [got EXCEPT ![c] = @ \o output[c]]
      /\ DataReceived(c, input[c], out, more)
      /\ UNCHANGED <<gone, net, asked>>
    BY DEF IInv, Inv, WriteCallback, connVars
<1>2. /\ input \in [Conn -> Seq(Byte)] /\ output \in [Conn -> Seq(Answer)] /\ got \in [Conn -> Seq(Answer)]
      /\ rxBuf \in Seq(Byte) /\ Len(rxBuf) < RxBufSize /\ rxLength \in Int
      /\ asked \in Seq([conn : Conn, silent : BOOLEAN]) /\ Len(asked) <= Len(RequestSize)
    BY <1>1 DEF TypeOK
<1>3. input[c] = <<>>
    BY DEF Undisturbed
<1>4. DataReceived(c, <<>>, out, more)
    BY <1>1, <1>3, Zenon
<1>5. got[c] \in Seq(Answer) /\ output[c] \in Seq(Answer) /\ Answers(c) \in Seq(Answer)
    BY <1>1, Typed
<1>6. /\ got'[c] = Answers(c) /\ out[c] = <<>>
      /\ \A d \in Conn \ {c} : got'[d] = got[d] /\ out[d] = output[d]
    BY <1>1, <1>2 DEF Answers
<1> HIDE DEF out, more
<1>7. ASSUME output' = out PROVE \A d \in Conn : Answers(d)' = Answers(d)
  <2>1. Answers(c)' = Answers(c) \o <<>>
      BY <1>6, <1>7 DEF Answers
  <2>2. Answers(c) \o <<>> = Answers(c)
      BY <1>5, ConcatEmptySeq
  <2>3. \A d \in Conn \ {c} : Answers(d)' = Answers(d)
      BY <1>6, <1>7 DEF Answers
  <2> QED
      BY <2>1, <2>2, <2>3
<1>8. ASSUME input' = [input EXCEPT ![c] = <<>>] PROVE \A d \in Conn : input'[d] = <<>>
    BY <1>2, <1>8 DEF Undisturbed
<1>9. CASE rxBuf = <<>>
  <2>1. rxLength \in {-1, 0}
      BY <1>9 DEF Undisturbed
  <2>2. /\ input' = [input EXCEPT ![c] = <<>>]
        /\ rxBuf' = <<>> /\ rxLength' = -1 /\ output' = out
      BY <1>4, <1>9, <2>1, NothingRead
  <2>3. rxBuf' = rxBuf /\ gone \subseteq gone' /\ asked' = asked
      BY <1>1, <1>9, <2>2
  <2>4. \A d \in Conn : input'[d] = <<>> /\ net'[d] = net[d] /\ Answers(d)' = Answers(d)
      BY <1>1, <1>7, <1>8, <2>2
  <2> QED
      BY <2>2, <2>3, <2>4, SameIsUndisturbed
<1>10. CASE rxBuf # <<>>
  <2> PICK k : rxBuf[1][1] = k
      OBVIOUS
  <2>1. Holding(k)
      BY <1>10 DEF Undisturbed
  <2>2. k \in Requests /\ Len(rxBuf) \in Nat /\ RequestSize[k] \in Nat
    <3>1. k \in 1..Len(asked) /\ Len(asked) \in Nat
        BY <1>2, <2>1, LenProperties DEF Holding
    <3>2. k \in Requests
        BY <1>2, <3>1, Sizes
    <3>3. Len(rxBuf) \in Nat
        BY <1>2, LenProperties
    <3> QED
        BY <3>2, <3>3, Sizes
  <2>3. /\ input[c] \in Seq(Byte) /\ Len(input[c]) = 0
        /\ \A i \in 1..Len(input[c]) : input[c][i] = <<k, Len(rxBuf) + i>>
    <3>1. Len(input[c]) = 0 /\ input[c] \in Seq(Byte)
        BY <1>3, EmptySeq
    <3>2. 1..Len(input[c]) = {}
        BY <3>1
    <3> QED
        BY <3>1, <3>2, Zenon
  <2>4. /\ Len(rxBuf) + Len(input[c]) = Len(rxBuf) /\ Len(rxBuf) < RequestSize[k]
        /\ Len(rxBuf) + Len(input[c]) <= RequestSize[k]
      BY <2>1, <2>2, <2>3 DEF Holding
  <2>5. /\ Begins(rxBuf, k)
        /\ rxLength = -1 \/ rxLength = RequestSize[k] - Len(rxBuf)
      BY <2>1 DEF Holding
  <2>6. /\ input' = [input EXCEPT ![c] = <<>>]
        /\ \/ /\ Len(rxBuf) + Len(input[c]) < RequestSize[k]
              /\ rxBuf' = rxBuf \o input[c] /\ output' = out
              /\ Begins(rxBuf', k) /\ Len(rxBuf') = Len(rxBuf) + Len(input[c])
              /\ rxLength' = -1 \/ rxLength' = RequestSize[k] - Len(rxBuf')
           \/ /\ Len(rxBuf) + Len(input[c]) = RequestSize[k] /\ rxBuf' = <<>> /\ rxLength' = 0
              /\ \/ output' = out
                 \/ output' = [out EXCEPT ![c] = Append(@, [of |-> k, whole |-> TRUE])]
    <3>1. rxBuf \in Seq(Byte) /\ Len(rxBuf) < RxBufSize /\ rxLength \in Int
        BY <1>2
    <3> QED
        BY <1>1, <2>2, <2>3, <2>4, <2>5, <3>1, GoesOn
  <2>7. Len(rxBuf) + Len(input[c]) # RequestSize[k]
      BY <2>2, <2>4
  <2>8. /\ input' = [input EXCEPT ![c] = <<>>] /\ rxBuf' = rxBuf \o input[c] /\ output' = out
        /\ rxLength' = -1 \/ rxLength' = RequestSize[k] - Len(rxBuf')
      BY <2>6, <2>7, Zenon
  <2>9. rxBuf' = rxBuf
    <3>1. rxBuf \o <<>> = rxBuf
        BY <1>2, ConcatEmptySeq
    <3> QED
        BY <1>3, <2>8, <3>1, Zenon
  <2>10. rxLength' = -1 \/ (rxBuf # <<>> /\ rxLength' = RequestSize[rxBuf[1][1]] - Len(rxBuf))
      BY <1>10, <2>8, <2>9, Zenon
  <2>11. \A d \in Conn : input'[d] = <<>> /\ net'[d] = net[d] /\ Answers(d)' = Answers(d)
      BY <1>1, <1>7, <1>8, <2>8
  <2>12. gone \subseteq gone' /\ asked' = asked
      BY <1>1
  <2> QED
      BY <2>9, <2>10, <2>11, <2>12, SameIsUndisturbed
<1> QED
    BY <1>9, <1>10

LEMMA TimeoutIsUndisturbed ==
    ASSUME IInv, Undisturbed, OnRxTimeout, ~disturbed'
    PROVE  Undisturbed'
<1>1. rxBuf = <<>>
  <2>1. disturbed' = (disturbed \/ rxBuf # <<>>)
      BY DEF OnRxTimeout
  <2> QED
      BY <2>1, Zenon
<1>2. rxBuf' = <<>> /\ rxLength' = -1 /\ UNCHANGED <<gone, net, input, output, asked, got>>
    BY DEF OnRxTimeout, connVars
<1>3. \A c \in Conn : input'[c] = <<>> /\ net'[c] = net[c] /\ Answers(c)' = Answers(c)
    BY <1>2 DEF Undisturbed, Answers
<1>4. rxBuf' = rxBuf /\ asked' = asked /\ gone \subseteq gone'
    BY <1>1, <1>2
<1> QED
    BY <1>2, <1>3, <1>4, SameIsUndisturbed

LEMMA AcceptIsUndisturbed ==
    ASSUME IInv, Undisturbed, NEW c \in Conn, Accept(c)
    PROVE  Undisturbed'
<1>1. UNCHANGED <<net, input, output, rxBuf, rxLength, asked, got>>
    BY DEF Accept, rxVars
<1>2. gone \subseteq gone'
    BY DEF Accept, Refuse, Admit
<1>3. \A d \in Conn : input'[d] = <<>> /\ net'[d] = net[d] /\ Answers(d)' = Answers(d)
    BY <1>1 DEF Undisturbed, Answers
<1> QED
    BY <1>1, <1>2, <1>3, SameIsUndisturbed

\* A connection that goes may leave the beginning of a request in rx_buf.
LEMMA DisconnectIsUndisturbed ==
    ASSUME IInv, Undisturbed, NEW c \in Conn, Disconnect(c)
    PROVE  Undisturbed'
<1>1. /\ TypeOK /\ gone' = gone \cup {c}
      /\ net' = [net EXCEPT ![c] = <<>>] /\ input' = [input EXCEPT ![c] = <<>>]
      /\ output' = [output EXCEPT ![c] = <<>>]
      /\ UNCHANGED <<rxBuf, rxLength, asked, got>>
    BY DEF IInv, Inv, Disconnect, rxVars
<1>2. /\ net \in [Conn -> Seq(Byte)] /\ input \in [Conn -> Seq(Byte)]
      /\ output \in [Conn -> Seq(Answer)] /\ got \in [Conn -> Seq(Answer)]
      /\ asked \in Seq([conn : Conn, silent : BOOLEAN])
    BY <1>1 DEF TypeOK
<1>3. /\ net'[c] = <<>> /\ output'[c] = <<>>
      /\ \A d \in Conn \ {c} : net'[d] = net[d] /\ output'[d] = output[d]
    BY <1>1, <1>2
<1>4. \A d \in Conn : input'[d] = <<>>
    BY <1>1, <1>2 DEF Undisturbed
<1>5. \A k \in 1..Len(asked) : asked[k].conn \in Conn
    BY <1>1, AskedIsConn
<1>6. ASSUME rxBuf # <<>> PROVE Holding(rxBuf[1][1])'
  <2> PICK k : rxBuf[1][1] = k
      OBVIOUS
  <2>1. Holding(k)
      BY <1>6 DEF Undisturbed
  <2>2. asked'[k].conn \in gone' \/ Rest(net'[asked'[k].conn], k, Len(rxBuf'))
    <3>1. asked[k].conn \in Conn
        BY <1>5, <2>1 DEF Holding
    <3>2. CASE asked[k].conn = c
        BY <1>1, <3>2
    <3>3. CASE asked[k].conn # c
        BY <1>1, <1>3, <2>1, <3>1, <3>3 DEF Holding
    <3> QED
        BY <3>2, <3>3
  <2> QED
      BY <1>1, <2>1, <2>2 DEF Holding
<1>7. ASSUME NEW d \in Conn PROVE OneAtATime(d)'
  <2>1. CASE d = c
      BY <1>3, <2>1 DEF OneAtATime
  <2>2. CASE d # c
    <3>1. OneAtATime(d) /\ net'[d] = net[d]
        BY <1>3, <2>2 DEF Undisturbed
    <3>2. CASE HeldOf(d)
        BY <1>1, <3>2 DEF HeldOf, OneAtATime
    <3>3. CASE ~HeldOf(d)
        BY <1>1, <3>1, <3>3, StillOneAtATime DEF OneAtATime
    <3> QED
        BY <3>2, <3>3
  <2> QED
      BY <2>1, <2>2
<1>8. LeftUnanswered => LeftUnanswered'
  <2> SUFFICES ASSUME LeftUnanswered PROVE LeftUnanswered'
      OBVIOUS
  <2>1. PICK k \in DOMAIN asked :
           /\ k \in Outstanding(asked[k].conn)
           /\ k \notin {b[1] : b \in {net[asked[k].conn][i] : i \in DOMAIN net[asked[k].conn]}}
      BY DEF LeftUnanswered
  <2>2. asked[k].conn \in Conn
    <3>1. k \in 1..Len(asked)
        BY <1>2, LenProperties
    <3> QED
        BY <1>5, <3>1
  <2>3. k \in Outstanding(asked[k].conn)'
      BY <1>1, <2>1 DEF Outstanding
  <2>4. k \notin {b[1] : b \in {net'[asked[k].conn][i] : i \in DOMAIN net'[asked[k].conn]}}
    <3>1. CASE asked[k].conn = c
      <4>1. DOMAIN net'[c] = {}
          BY <1>3
      <4> QED
          BY <3>1, <4>1
    <3>2. CASE asked[k].conn # c
        BY <1>3, <2>1, <2>2, <3>2
    <3> QED
        BY <3>1, <3>2
  <2> QED
      BY <1>1, <2>3, <2>4 DEF LeftUnanswered
<1>9. ASSUME NEW d \in Conn PROVE AllWhole(Answers(d))'
  <2>1. AllWhole(Answers(d))
      BY DEF Undisturbed
  <2>2. CASE d # c
      BY <1>1, <1>3, <2>1, <2>2 DEF Answers, AllWhole
  <2>3. CASE d = c
    <3>1. got[c] \in Seq(Answer)
        BY <1>2
    <3>2. got[c] \o <<>> = got[c]
        BY <3>1, ConcatEmptySeq
    <3>3. Answers(c)' = got[c]
        BY <1>1, <1>3, <3>2 DEF Answers
    <3>4. \A i \in 1..Len(got[c]) : i \in 1..Len(Answers(c)) /\ Answers(c)[i] = got[c][i]
        BY <1>1, GotFirst
    <3> QED
        BY <2>1, <2>3, <3>3, <3>4 DEF AllWhole
  <2> QED
      BY <2>2, <2>3
<1> QED
    BY <1>1, <1>4, <1>6, <1>7, <1>8, <1>9 DEF Undisturbed

\* A master that asks when it should has nothing else on its way.
LEMMA AskIsUndisturbed ==
    ASSUME IInv, Undisturbed, NEW c \in Conn, NEW silent \in BOOLEAN, Ask(c, silent), ~disturbed'
    PROVE  Undisturbed'
<1> PICK k : Len(asked) + 1 = k
    OBVIOUS
<1> DEFINE q == Request(k)
<1>1. /\ TypeOK /\ c \in open /\ Len(asked) < Len(RequestSize)
      /\ asked' = Append(asked, [conn |-> c, silent |-> silent])
      /\ net' = [net EXCEPT ![c] = @ \o q]
      /\ UNCHANGED <<gone, input, output, rxBuf, rxLength, got>>
    BY DEF IInv, Inv, Ask, connVars, rxVars
<1>2. \A m \in Outstanding(c) : net[c] = <<>>
  <2>1. disturbed' = (disturbed \/ \E m \in Outstanding(c) : ~asked[m].silent \/ net[c] # <<>>)
      BY DEF Ask
  <2> QED
      BY <2>1, Zenon
<1>3. /\ net \in [Conn -> Seq(Byte)] /\ got \in [Conn -> Seq(Answer)]
      /\ asked \in Seq([conn : Conn, silent : BOOLEAN]) /\ rxBuf \in Seq(Byte) /\ c \notin gone
    BY <1>1 DEF TypeOK
<1>4. Len(asked) \in Nat /\ DOMAIN asked = 1..Len(asked) /\ k \in Requests /\ k \in Nat
  <2>1. Len(asked) \in Nat /\ DOMAIN asked = 1..Len(asked)
      BY <1>3, LenProperties
  <2> QED
      BY <1>1, <2>1, Sizes
<1>5. /\ Len(asked') = k /\ DOMAIN asked' = 1..k
      /\ \A m \in 1..Len(asked) : asked'[m] = asked[m]
      /\ asked'[k].conn = c
  <2>1. [conn |-> c, silent |-> silent] \in [conn : Conn, silent : BOOLEAN]
      OBVIOUS
  <2>2. /\ asked' \in Seq([conn : Conn, silent : BOOLEAN]) /\ Len(asked') = k
        /\ \A m \in 1..Len(asked) : asked'[m] = asked[m]
        /\ asked'[k].conn = c
      BY <1>1, <1>3, <1>4, <2>1, AppendProperties
  <2> QED
      BY <2>2, LenProperties
<1>6. /\ q \in Seq(Byte) /\ Len(q) = RequestSize[k] /\ RequestSize[k] \in Nat
      /\ \A i \in 1..Len(q) : q[i] = <<k, i>>
    BY <1>4, Frames, Sizes
<1> HIDE DEF q
<1>7. net[c] = <<>>
    BY <1>2, NotYetAnswered
<1>8. net'[c] = q /\ \A d \in Conn \ {c} : net'[d] = net[d]
  <2>1. <<>> \o q = q
      BY <1>6, ConcatEmptySeq
  <2>2. net'[c] = net[c] \o q
      BY <1>1, <1>3
  <2>3. net'[c] = q
      BY <1>7, <2>1, <2>2, Zenon
  <2>4. \A d \in Conn \ {c} : net'[d] = net[d]
      BY <1>1, <1>3
  <2> QED
      BY <2>3, <2>4, Zenon
<1>9. \A m \in 1..Len(asked) : m \in 1..Len(asked') /\ m # k /\ asked[m].conn \in Conn
  <2>1. \A m \in 1..Len(asked) : asked[m].conn \in Conn
      BY <1>1, AskedIsConn
  <2>2. \A m \in 1..Len(asked) : m \in 1..Len(asked') /\ m # k
      BY <1>4, <1>5
  <2> QED
      BY <2>1, <2>2
<1>10. ASSUME rxBuf # <<>> PROVE Holding(rxBuf[1][1])' /\ rxBuf[1][1] \in 1..Len(asked)
  <2> PICK m : rxBuf[1][1] = m
      OBVIOUS
  <2>1. Holding(m) /\ m \in 1..Len(asked)
      BY <1>10 DEF Undisturbed, Holding
  <2>2. asked[m].conn # c
    <3> SUFFICES ASSUME asked[m].conn = c PROVE FALSE
        OBVIOUS
    <3>1. Len(net[c]) = RequestSize[m] - Len(rxBuf) /\ Len(rxBuf) < RequestSize[m]
        BY <1>3, <2>1 DEF Holding, Rest
    <3>2. Len(net[c]) = 0
        BY <1>7, EmptySeq
    <3>3. RequestSize[m] \in Nat /\ Len(rxBuf) \in Nat
      <4>1. m \in Requests
          BY <1>1, <1>4, <2>1, Sizes
      <4>2. Len(rxBuf) \in Nat
          BY <1>3, LenProperties
      <4> QED
          BY <4>1, <4>2, Sizes
    <3> QED
        BY <3>1, <3>2, <3>3
  <2>3. /\ asked'[m].conn = asked[m].conn /\ net'[asked[m].conn] = net[asked[m].conn]
        /\ m \in 1..Len(asked')
      BY <1>5, <1>8, <1>9, <2>1, <2>2
  <2>4. Holding(m)'
      BY <1>1, <2>1, <2>3 DEF Holding
  <2> QED
      BY <1>1, <2>1, <2>4
<1>11. ASSUME NEW d \in Conn PROVE OneAtATime(d)'
  <2>1. CASE d = c
    <3>1. Rest(net'[c], k, 0)
      <4>1. \A i \in 1..Len(q) : q[i] = <<k, 0 + i>>
          BY <1>6
      <4> QED
          BY <1>6, <1>8, <4>1 DEF Rest
    <3>2. k \in 1..Len(asked') /\ asked'[k].conn = c
        BY <1>4, <1>5
    <3> QED
        BY <2>1, <3>1, <3>2 DEF OneAtATime, AskedBy
  <2>2. CASE d # c
    <3>1. OneAtATime(d) /\ net'[d] = net[d]
        BY <1>8, <2>2 DEF Undisturbed
    <3>2. CASE net[d] = <<>>
        BY <3>1, <3>2 DEF OneAtATime
    <3>3. CASE HeldOf(d)
      <4>1. asked'[rxBuf[1][1]] = asked[rxBuf[1][1]]
          BY <1>5, <1>10, <3>3 DEF HeldOf
      <4> QED
          BY <1>1, <3>3, <4>1 DEF HeldOf, OneAtATime
    <3>4. ASSUME NEW m \in 1..Len(asked), AskedBy(d, m), Rest(net[d], m, 0)
          PROVE  OneAtATime(d)'
      <4>1. m \in 1..Len(asked') /\ asked'[m].conn = d /\ Rest(net'[d], m, 0)
          BY <1>5, <1>9, <3>1, <3>4 DEF AskedBy
      <4> QED
          BY <4>1 DEF OneAtATime, AskedBy
    <3> QED
        BY <3>1, <3>2, <3>3, <3>4 DEF OneAtATime
  <2> QED
      BY <2>1, <2>2
<1>12. LeftUnanswered => LeftUnanswered'
  <2> SUFFICES ASSUME LeftUnanswered PROVE LeftUnanswered'
      OBVIOUS
  <2>1. PICK m \in DOMAIN asked :
           /\ m \in Outstanding(asked[m].conn)
           /\ m \notin {b[1] : b \in {net[asked[m].conn][i] : i \in DOMAIN net[asked[m].conn]}}
      BY DEF LeftUnanswered
  <2>2. /\ m \in 1..Len(asked') /\ m \in DOMAIN asked' /\ m # k /\ asked[m].conn \in Conn
        /\ asked'[m] = asked[m]
      BY <1>4, <1>5, <1>9, <2>1
  <2>3. m \in Outstanding(asked[m].conn)'
      BY <1>1, <2>1, <2>2 DEF Outstanding
  <2>4. m \notin {b[1] : b \in {net'[asked[m].conn][i] : i \in DOMAIN net'[asked[m].conn]}}
    <3>1. CASE asked[m].conn = c
      <4>1. DOMAIN q = 1..Len(q)
          BY <1>6, LenProperties
      <4>2. \A i \in DOMAIN q : q[i][1] = k
          BY <1>6, <4>1
      <4> QED
          BY <1>8, <2>2, <3>1, <4>2
    <3>2. CASE asked[m].conn # c
        BY <1>8, <2>1, <2>2, <3>2
    <3> QED
        BY <3>1, <3>2
  <2> QED
      BY <2>2, <2>3, <2>4 DEF LeftUnanswered
<1>13. \A d \in Conn : input'[d] = <<>> /\ AllWhole(Answers(d))'
    BY <1>1 DEF Undisturbed, AllWhole, Answers
<1> QED
    BY <1>1, <1>10, <1>11, <1>12, <1>13 DEF Undisturbed

LEMMA InitUndisturbed == Init => Undisturbed
<1> SUFFICES ASSUME Init PROVE Undisturbed
    OBVIOUS
<1>1. /\ rxBuf = <<>> /\ rxLength = -1
      /\ \A c \in Conn : input[c] = <<>> /\ net[c] = <<>> /\ got[c] = <<>> /\ output[c] = <<>>
    BY DEF Init
<1>2. ASSUME NEW c \in Conn PROVE AllWhole(Answers(c))
  <2>1. Answers(c) = <<>> \o <<>>
      BY <1>1 DEF Answers
  <2>2. Len(Answers(c)) = 0
      BY <2>1
  <2> QED
      BY <2>2 DEF AllWhole
<1> QED
    BY <1>1, <1>2 DEF Undisturbed, OneAtATime

LEMMA NextUndisturbed ==
    IInv /\ (~disturbed => Undisturbed) /\ [Next]_vars => (~disturbed => Undisturbed)'
<1> SUFFICES ASSUME IInv, ~disturbed => Undisturbed, [Next]_vars, ~disturbed'
             PROVE  Undisturbed'
    OBVIOUS
<1>1. ~disturbed
  <2>1. ASSUME NEW c \in Conn, Accept(c) \/ Disconnect(c) \/ WriteCallback(c) PROVE disturbed' = disturbed
      BY <2>1 DEF Accept, Disconnect, WriteCallback
  <2>2. ASSUME NEW c \in Conn, NEW silent \in BOOLEAN, Ask(c, silent) PROVE ~disturbed
    <3>1. disturbed' = (disturbed \/ \E m \in Outstanding(c) : ~asked[m].silent \/ net[c] # <<>>)
        BY <2>2 DEF Ask
    <3> QED
        BY <3>1, Zenon
  <2>3. ASSUME NEW c \in Conn, Read(c) PROVE ~disturbed
    <3>1. disturbed' = (disturbed \/ Collides(c))
        BY <2>3 DEF Read, ReadCallback
    <3> QED
        BY <3>1, Zenon
  <2>4. CASE OnRxTimeout
    <3>1. disturbed' = (disturbed \/ rxBuf # <<>>)
        BY <2>4 DEF OnRxTimeout
    <3> QED
        BY <3>1, Zenon
  <2>5. CASE UNCHANGED vars
      BY <2>5 DEF vars
  <2> QED
      BY <2>1, <2>2, <2>3, <2>4, <2>5, Zenon DEF Next
<1>2. Undisturbed
    BY <1>1
<1>3. ASSUME NEW c \in Conn, Accept(c) PROVE Undisturbed'
    BY <1>2, <1>3, AcceptIsUndisturbed
<1>4. ASSUME NEW c \in Conn, Disconnect(c) PROVE Undisturbed'
    BY <1>2, <1>4, DisconnectIsUndisturbed
<1>5. ASSUME NEW c \in Conn, NEW silent \in BOOLEAN, Ask(c, silent) PROVE Undisturbed'
    BY <1>2, <1>5, AskIsUndisturbed
<1>6. ASSUME NEW c \in Conn, Read(c) PROVE Undisturbed'
    BY <1>2, <1>6, ReadIsUndisturbed DEF Read
<1>7. ASSUME NEW c \in Conn, WriteCallback(c) PROVE Undisturbed'
    BY <1>2, <1>7, WriteIsUndisturbed
<1>8. CASE OnRxTimeout
    BY <1>2, <1>8, TimeoutIsUndisturbed
<1>9. CASE UNCHANGED vars
  <2>1. UNCHANGED <<gone, net, input, output, rxBuf, rxLength, asked, got>>
      BY <1>9 DEF vars, connVars, rxVars
  <2>2. \A c \in Conn : input'[c] = <<>> /\ net'[c] = net[c] /\ Answers(c)' = Answers(c)
      BY <1>2, <2>1 DEF Undisturbed, Answers
  <2> QED
      BY <1>2, <2>1, <2>2, SameIsUndisturbed
<1> QED
    BY <1>3, <1>4, <1>5, <1>6, <1>7, <1>8, <1>9 DEF Next

\* As long as nothing disturbed it, rx_buf holds the beginning of one request, and
\* the event after a whole frame comes before anything else is received.
THEOREM UndisturbedInvariance == Spec => [](IInv /\ (~disturbed => Undisturbed))
<1>1. Init => IInv /\ (~disturbed => Undisturbed)
    BY InitIInv, InitUndisturbed
<1>2. IInv /\ (~disturbed => Undisturbed) /\ [Next]_vars => (IInv /\ (~disturbed => Undisturbed))'
    BY NextIInv, NextUndisturbed
<1> QED
    BY <1>1, <1>2, PTL DEF Spec

\* Only a disturbance makes parse_packet take the bytes of several requests for one:
\* the requests of two connections met in rx_buf, a master asked again too soon, or a
\* request was interrupted for longer than the receive timeout.
THEOREM WholeRequestsCorrect == Spec => []WholeRequests
<1>1. IInv /\ (~disturbed => Undisturbed) => WholeRequests
  <2> SUFFICES ASSUME IInv, ~disturbed => Undisturbed PROVE WholeRequests
      OBVIOUS
  <2>1. ASSUME NEW c \in Conn, NEW i \in DOMAIN Answers(c), ~disturbed PROVE Answers(c)[i].whole
    <3>1. DOMAIN Answers(c) = 1..Len(Answers(c))
      <4>1. Answers(c) \in Seq(Answer)
          BY Typed DEF IInv, Inv
      <4> QED
          BY <4>1, LenProperties
    <3> QED
        BY <2>1, <3>1 DEF Undisturbed, AllWhole
  <2> QED
      BY <2>1 DEF WholeRequests, Answers
<1> QED
    BY <1>1, UndisturbedInvariance, PTL
=============================================================================
