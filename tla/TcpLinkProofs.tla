--------------------------- MODULE TcpLinkProofs ---------------------------
(***************************************************************************)
(* TcpLink for any number of requests, sizes, transaction numbers and      *)
(* breaks: a request is given its own answer whole, or one that bears its  *)
(* number; it fails only after another timed out, or for want of room for  *)
(* its answer; and the receiver asks for more than it has room for only    *)
(* after an answer was torn.                                               *)
(***************************************************************************)
EXTENDS TcpLink, SequenceTheorems, TLAPS

Byte == Requests \X (Nat \ {0})

\* What has come in and is not thrown away yet.
Incoming == rxBuf \o sockIn

\* The request under way and its timeout.
CallOK ==
    /\ waiting => txRequest # 0
    /\ txRequest # 0 /\ ~waiting => results[txRequest].kind # "none"
    /\ \A k \in Requests : k > txRequest => results[k].kind = "none"
ConnectionOK ==
    /\ peerOpen => state = "connected"
    /\ state = "disconnected" => sockIn = <<>>

\* Bytes sent: requests up to t, of which c bytes of the last, each once and in
\* order.
Queued(s, t, c) ==
    /\ \A i \in 1..Len(s) : s[i][1] < t \/ (s[i][1] = t /\ s[i][2] <= c)
    /\ \A i, j \in 1..Len(s) :
          i < j => s[i][1] < s[j][1] \/ (s[i][1] = s[j][1] /\ s[i][2] < s[j][2])

\* Bytes received: of answers to requests up to t, those of t's last and one
\* after the other.
Of(s, t) == \E i \in 1..Len(s) : s[i][1] = t
Latest(s, t) ==
    \A i \in 1..Len(s) :
        /\ s[i][1] <= t /\ s[i][2] <= AnswerSize[s[i][1]]
        /\ s[i][1] = t => \A j \in i..Len(s) : s[j] = <<t, s[i][2] + (j - i)>>

\* A request is answered once: what was answered is not on its way any more.
AnsweredOnce == Of(Incoming, txRequest) => txCounter = RequestSize /\ sockOut = <<>>

\* Answers one after the other, of which the last may not be whole.
First(s, i) == i - s[i][2] + 1
Last(s, i) == First(s, i) + AnswerSize[s[i][1]] - 1
Framed(s) ==
    \A i \in 1..Len(s) :
        /\ First(s, i) >= 1 /\ i <= Last(s, i)
        /\ \A j \in First(s, i)..Last(s, i) :
              j <= Len(s) => s[j] = <<s[i][1], j - First(s, i) + 1>>
Whole(s) == \A i \in 1..Len(s) : Last(s, i) <= Len(s)

\* Until an answer is torn, the receiver is in step with the frames.
InStep ==
    ~torn =>
        /\ Framed(Incoming)
        /\ peerOpen => Whole(Incoming)
        /\ Len(rxBuf) > 0 => Len(rxBuf) < AnswerSize[rxBuf[1][1]]
        /\ state = "disconnected" => rxBuf = <<>>

\* While no earlier request timed out, all were answered, and nothing but the
\* latest is on its way.
Fresh == \A j \in 1..(txRequest - 1) : results[j].kind # "timeout"
OnlyLatest ==
    /\ \A j \in 1..(txRequest - 1) : results[j].kind \in {"answer", "overflow"}
    /\ \A i \in 1..Len(Incoming) : Incoming[i] = <<txRequest, i>>
    /\ \A i \in 1..Len(sockOut) : sockOut[i][1] = txRequest
    /\ Len(rxBuf) > 0 => Len(rxBuf) < AnswerSize[txRequest]
    /\ rxLength > 0 => txRequest # 0 /\ rxLength = AnswerSize[txRequest] - Len(rxBuf)
    /\ txRequest # 0 => results[txRequest].kind \in {"none", "answer", "overflow", "timeout"}
    /\ txRequest # 0 /\ results[txRequest].kind \in {"answer", "overflow"} =>
          /\ Incoming = <<>> /\ rxLength <= 0
          /\ sockOut = <<>> /\ txCounter = RequestSize

IInv ==
    /\ TypeOK /\ CallOK /\ ConnectionOK
    /\ Queued(sockOut, txRequest, txCounter) /\ Latest(Incoming, txRequest) /\ AnsweredOnce
    /\ InStep
    /\ Fresh => OnlyLatest
    /\ OwnAnswer /\ ErrorAfterTimeout /\ StuckOnlyIfTorn /\ Retries

-----------------------------------------------------------------------------
\* The constants.
LEMMA Sizes ==
    /\ Requests \subseteq Nat \ {0}
    /\ \A k \in Requests : AnswerSize[k] \in Nat /\ AnswerSize[k] >= HeaderSize /\ AnswerSize[k] <= RxBufSize
    /\ RequestSize \in Nat /\ RequestSize > 0 /\ HeaderSize \in Nat /\ HeaderSize > 0
    /\ RxBufSize \in Nat /\ RxBufSize >= HeaderSize /\ RxBufSize > 0
    /\ IdMod \in Nat \ {0} /\ GarbageSizes \subseteq Nat
<1>1. AnswerSize \in Seq(Nat) /\ Len(AnswerSize) \in Nat /\ DOMAIN AnswerSize = 1..Len(AnswerSize)
    BY SizesAssumption, LenProperties DEF SizesAssumption
<1>2. ASSUME NEW k \in Requests
      PROVE  AnswerSize[k] \in Nat /\ AnswerSize[k] >= HeaderSize /\ AnswerSize[k] <= RxBufSize
    BY <1>1, SizesAssumption, ElementOfSeq DEF SizesAssumption, Requests
<1>3. /\ RequestSize \in Nat \ {0} /\ HeaderSize \in Nat \ {0} /\ RxBufSize \in Nat
      /\ RxBufSize >= HeaderSize /\ IdMod \in Nat \ {0} /\ GarbageSizes \subseteq Nat
    BY SizesAssumption DEF SizesAssumption
<1>4. Requests \subseteq Nat \ {0}
    BY <1>1 DEF Requests
<1> QED
    BY <1>2, <1>3, <1>4

LEMMA Bytes ==
    ASSUME NEW s \in Seq(Byte)
    PROVE  /\ Len(s) \in Nat /\ DOMAIN s = 1..Len(s)
           /\ \A i \in 1..Len(s) : /\ s[i] \in Byte /\ s[i] = <<s[i][1], s[i][2]>>
                                   /\ s[i][1] \in Requests /\ s[i][1] \in Nat /\ s[i][1] # 0
                                   /\ s[i][2] \in Nat /\ s[i][2] > 0
                                   /\ AnswerSize[s[i][1]] \in Nat
<1>1. Len(s) \in Nat /\ DOMAIN s = 1..Len(s)
    BY LenProperties
<1>2. \A i \in 1..Len(s) : s[i] \in Byte
    BY <1>1, ElementOfSeq
<1>3. \A i \in 1..Len(s) : s[i][1] \in Requests /\ s[i][2] \in Nat \ {0} /\ s[i] = <<s[i][1], s[i][2]>>
    BY <1>2 DEF Byte
<1>4. \A k \in Requests : k \in Nat /\ k # 0 /\ AnswerSize[k] \in Nat
    BY Sizes
<1>5. \A p \in Nat \ {0} : p \in Nat /\ p > 0
    OBVIOUS
<1> QED
    BY <1>1, <1>2, <1>3, <1>4, <1>5

\* Pieces of a sequence.
LEMMA Suffix ==
    ASSUME NEW S, NEW s \in Seq(S), NEW n \in Nat, n <= Len(s)
    PROVE  /\ SubSeq(s, n + 1, Len(s)) \in Seq(S)
           /\ Len(SubSeq(s, n + 1, Len(s))) = Len(s) - n
           /\ \A i \in 1..(Len(s) - n) : SubSeq(s, n + 1, Len(s))[i] = s[n + i]
           /\ SubSeq(s, 1, n) \in Seq(S)
           /\ Len(SubSeq(s, 1, n)) = n
           /\ \A i \in 1..n : SubSeq(s, 1, n)[i] = s[i]
BY LenProperties

LEMMA CountedIsSeq ==
    ASSUME NEW S, NEW n \in Nat, NEW s \in [1..n -> S]
    PROVE  s \in Seq(S) /\ Len(s) = n
OBVIOUS

\* The frames of a request and its answer, and a stretch of the former.
LEMMA Frames ==
    ASSUME NEW k \in Requests
    PROVE  /\ Answer(k) \in Seq(Byte) /\ Len(Answer(k)) = AnswerSize[k]
           /\ \A i \in 1..AnswerSize[k] : Answer(k)[i] = <<k, i>>
           /\ Request(k) \in Seq(Byte) /\ Len(Request(k)) = RequestSize
           /\ \A i \in 1..RequestSize : Request(k)[i] = <<k, i>>
<1>1. \A i \in Nat \ {0} : <<k, i>> \in Byte
    BY DEF Byte
<1>2. AnswerSize[k] \in Nat /\ RequestSize \in Nat
    BY Sizes
<1>3. Answer(k) \in [1..AnswerSize[k] -> Byte] /\ Request(k) \in [1..RequestSize -> Byte]
    BY <1>1, <1>2 DEF Answer, Request
<1>4. /\ \A i \in 1..AnswerSize[k] : Answer(k)[i] = <<k, i>>
      /\ \A i \in 1..RequestSize : Request(k)[i] = <<k, i>>
    BY DEF Answer, Request
<1> QED
    BY <1>2, <1>3, <1>4, CountedIsSeq

LEMMA Piece ==
    ASSUME NEW k \in Requests, NEW c \in Nat, NEW w \in Nat, c + w <= RequestSize
    PROVE  /\ SubSeq(Request(k), c + 1, c + w) \in Seq(Byte)
           /\ Len(SubSeq(Request(k), c + 1, c + w)) = w
           /\ \A i \in 1..w : SubSeq(Request(k), c + 1, c + w)[i] = <<k, c + i>>
<1> DEFINE piece == SubSeq(Request(k), c + 1, c + w)
<1>1. ASSUME NEW i \in (c + 1)..(c + w) PROVE Request(k)[i] = <<k, i>> /\ Request(k)[i] \in Byte
  <2>1. i \in 1..RequestSize /\ i \in Nat \ {0}
      BY Sizes
  <2>2. Request(k)[i] = <<k, i>>
      BY <2>1, Frames
  <2>3. <<k, i>> \in Byte
      BY <2>1 DEF Byte
  <2> QED
      BY <2>2, <2>3
<1>2. /\ piece \in Seq(Byte)
      /\ Len(piece) = IF c + 1 <= c + w THEN (c + w) - (c + 1) + 1 ELSE 0
      /\ \A i \in 1..((c + w) - (c + 1) + 1) : piece[i] = Request(k)[(c + 1) + i - 1]
  <2>1. c + 1 \in Int /\ c + w \in Int
      OBVIOUS
  <2> QED
      BY <1>1, <2>1, SubSeqProperties
<1> HIDE DEF piece
<1>3. Len(piece) = w
    BY <1>2
<1>4. ASSUME NEW i \in 1..w PROVE piece[i] = <<k, c + i>>
  <2>1. c + i \in (c + 1)..(c + w) /\ (c + 1) + i - 1 = c + i
        /\ i \in 1..((c + w) - (c + 1) + 1)
      OBVIOUS
  <2> QED
      BY <1>1, <1>2, <2>1
<1> QED
    BY <1>2, <1>3, <1>4 DEF piece

\* Bytes that are appended.
LEMMA Joined ==
    ASSUME NEW s \in Seq(Byte), NEW t \in Seq(Byte)
    PROVE  /\ s \o t \in Seq(Byte) /\ Len(s \o t) = Len(s) + Len(t)
           /\ Len(s) \in Nat /\ Len(t) \in Nat
           /\ \A i \in 1..Len(s) : (s \o t)[i] = s[i]
           /\ \A i \in 1..Len(t) : (s \o t)[Len(s) + i] = t[i]
           /\ \A i \in 1..Len(s \o t) :
                 \/ i \in 1..Len(s) /\ (s \o t)[i] = s[i]
                 \/ i - Len(s) \in 1..Len(t) /\ (s \o t)[i] = t[i - Len(s)]
<1> DEFINE st == s \o t
<1>1. Len(s) \in Nat /\ Len(t) \in Nat
    BY LenProperties
<1>2. /\ st \in Seq(Byte) /\ Len(st) = Len(s) + Len(t)
      /\ \A i \in 1..Len(s) + Len(t) : st[i] = IF i <= Len(s) THEN s[i] ELSE t[i - Len(s)]
    BY ConcatProperties
<1> HIDE DEF st
<1>3. \A i \in 1..Len(s) : st[i] = s[i]
    BY <1>1, <1>2
<1>4. ASSUME NEW i \in 1..Len(t) PROVE st[Len(s) + i] = t[i]
  <2>1. Len(s) + i \in 1..Len(s) + Len(t) /\ ~(Len(s) + i <= Len(s)) /\ (Len(s) + i) - Len(s) = i
      BY <1>1
  <2> QED
      BY <1>2, <2>1
<1>5. ASSUME NEW i \in 1..Len(st)
      PROVE  \/ i \in 1..Len(s) /\ st[i] = s[i]
             \/ i - Len(s) \in 1..Len(t) /\ st[i] = t[i - Len(s)]
    BY <1>1, <1>2
<1> QED
    BY <1>1, <1>2, <1>3, <1>4, <1>5 DEF st

LEMMA JoinedTwice ==
    ASSUME NEW s \in Seq(Byte), NEW t \in Seq(Byte), NEW u \in Seq(Byte)
    PROVE  s \o (t \o u) = (s \o t) \o u
BY ConcatAssociative

-----------------------------------------------------------------------------
\* Bytes sent.  w more bytes of k follow;
LEMMA QueuedMore ==
    ASSUME NEW o \in Seq(Byte), NEW k \in Requests, NEW c \in Nat, NEW w \in Nat \ {0},
           c + w <= RequestSize, Queued(o, k, c)
    PROVE  /\ Queued(o, k, c + w)
           /\ Queued(o \o SubSeq(Request(k), c + 1, c + w), k, c + w)
           /\ o \o SubSeq(Request(k), c + 1, c + w) \in Seq(Byte)
<1> DEFINE piece == SubSeq(Request(k), c + 1, c + w)
           more == o \o piece
<1>1. piece \in Seq(Byte) /\ Len(piece) = w /\ \A i \in 1..w : piece[i] = <<k, c + i>>
    BY Piece
<1>2. Len(o) \in Nat /\ \A i \in 1..Len(o) : o[i][1] \in Nat /\ o[i][2] \in Nat
    BY Bytes
<1> HIDE DEF piece
<1>3. /\ more \in Seq(Byte)
      /\ \A i \in 1..Len(more) : \/ i \in 1..Len(o) /\ more[i] = o[i]
                                 \/ i - Len(o) \in 1..Len(piece) /\ more[i] = piece[i - Len(o)]
    BY <1>1, Joined
<1> HIDE DEF more
<1>4. Len(more) \in Nat /\ k \in Nat
    BY <1>3, LenProperties, Sizes
<1>5. ASSUME NEW i \in 1..Len(more)
      PROVE  \/ i \in 1..Len(o) /\ more[i] = o[i] /\ (o[i][1] < k \/ (o[i][1] = k /\ o[i][2] <= c))
             \/ /\ i - Len(o) \in 1..w /\ more[i][1] = k /\ more[i][2] = c + (i - Len(o))
  <2>1. CASE i \in 1..Len(o) /\ more[i] = o[i]
      BY <2>1 DEF Queued
  <2>2. CASE i - Len(o) \in 1..w /\ more[i] = piece[i - Len(o)]
      BY <1>1, <2>2
  <2> QED
      BY <1>1, <1>3, <2>1, <2>2
<1>6. Queued(o, k, c + w)
    BY <1>2, <1>4 DEF Queued
<1>7. ASSUME NEW i \in 1..Len(more), NEW j \in 1..Len(more), i < j
      PROVE  more[i][1] < more[j][1] \/ (more[i][1] = more[j][1] /\ more[i][2] < more[j][2])
  <2>1. CASE j \in 1..Len(o) /\ more[j] = o[j]
    <3>1. i \in 1..Len(o)
        BY <1>2, <1>4, <1>7, <2>1
    <3>2. more[i] = o[i]
        BY <1>2, <1>5, <3>1
    <3> QED
        BY <1>7, <2>1, <3>1, <3>2 DEF Queued
  <2>2. CASE j - Len(o) \in 1..w /\ more[j][1] = k /\ more[j][2] = c + (j - Len(o))
    <3>1. CASE i \in 1..Len(o) /\ more[i] = o[i] /\ (o[i][1] < k \/ (o[i][1] = k /\ o[i][2] <= c))
      <4>1. c < c + (j - Len(o)) /\ o[i][2] \in Nat /\ c + (j - Len(o)) \in Nat
          BY <1>2, <1>4, <2>2, <3>1
      <4>2. o[i][2] <= c => o[i][2] < c + (j - Len(o))
          BY <4>1
      <4> QED
          BY <2>2, <3>1, <4>2
    <3>2. CASE i - Len(o) \in 1..w /\ more[i][1] = k /\ more[i][2] = c + (i - Len(o))
      <4>1. c + (i - Len(o)) < c + (j - Len(o))
          BY <1>2, <1>4, <1>7
      <4> QED
          BY <2>2, <3>2, <4>1
    <3> QED
        BY <1>5, <3>1, <3>2
  <2> QED
      BY <1>5, <2>1, <2>2
<1>8. \A i \in 1..Len(more) : more[i][1] < k \/ (more[i][1] = k /\ more[i][2] <= c + w)
    BY <1>2, <1>4, <1>5
<1> QED
    BY <1>3, <1>6, <1>7, <1>8 DEF Queued, more, piece

\* the next request follows;
LEMMA QueuedNext ==
    ASSUME NEW o \in Seq(Byte), NEW t \in Nat, NEW c \in Nat, Queued(o, t, c)
    PROVE  Queued(o, t + 1, 0)
<1>1. \A i \in 1..Len(o) : o[i][1] \in Nat
    BY Bytes
<1> QED
    BY <1>1 DEF Queued

LEMMA QueuedNothing == ASSUME NEW t, NEW c PROVE Queued(<<>>, t, c)
<1>1. \A i \in 1..Len(<<>>) : FALSE
    OBVIOUS
<1> QED
    BY <1>1 DEF Queued

\* the server takes a request: of the last one sent, nothing more is to come.
LEMMA QueuedTaken ==
    ASSUME NEW o \in Seq(Byte), NEW t \in Nat, NEW c \in 0..RequestSize, Queued(o, t, c),
           Len(o) >= RequestSize, NEW k \in Requests, SubSeq(o, 1, RequestSize) = Request(k)
    PROVE  LET rest == SubSeq(o, RequestSize + 1, Len(o)) IN
           /\ rest \in Seq(Byte) /\ Queued(rest, t, c)
           /\ o # <<>> /\ k <= t /\ o[1][1] = k
           /\ \A i \in 1..Len(rest) : \E j \in 1..Len(o) : rest[i] = o[j]
           /\ k = t => c = RequestSize /\ rest = <<>>
<1> DEFINE rest == SubSeq(o, RequestSize + 1, Len(o))
           R == RequestSize
<1>1. Len(o) \in Nat /\ \A i \in 1..Len(o) : o[i][1] \in Nat /\ o[i][2] \in Nat
    BY Bytes
<1>2. R \in Nat /\ R > 0 /\ R <= Len(o)
    BY Sizes
<1>3. /\ rest \in Seq(Byte) /\ Len(rest) = Len(o) - R
      /\ \A i \in 1..(Len(o) - R) : rest[i] = o[R + i]
      /\ \A i \in 1..R : SubSeq(o, 1, R)[i] = o[i]
    BY <1>2, Suffix
<1>4. o[1] = <<k, 1>> /\ o[R] = <<k, R>> /\ 1 \in 1..Len(o) /\ R \in 1..Len(o)
  <2>1. 1 \in 1..R /\ R \in 1..R /\ 1 \in 1..Len(o) /\ R \in 1..Len(o)
      BY <1>1, <1>2
  <2> QED
      BY <1>3, <2>1, Frames
<1> HIDE DEF rest, R
<1>5. \A i \in 1..Len(rest) : R + i \in 1..Len(o) /\ rest[i] = o[R + i]
    BY <1>1, <1>2, <1>3
<1>6. Queued(rest, t, c)
  <2>1. ASSUME NEW i \in 1..Len(rest)
        PROVE  rest[i][1] < t \/ (rest[i][1] = t /\ rest[i][2] <= c)
      BY <1>5 DEF Queued
  <2>2. ASSUME NEW i \in 1..Len(rest), NEW j \in 1..Len(rest), i < j
        PROVE  rest[i][1] < rest[j][1] \/ (rest[i][1] = rest[j][1] /\ rest[i][2] < rest[j][2])
    <3>1. R + i \in 1..Len(o) /\ R + j \in 1..Len(o) /\ R + i < R + j
        BY <1>2, <1>5, <2>2
    <3> QED
        BY <1>5, <3>1 DEF Queued
  <2> QED
      BY <2>1, <2>2 DEF Queued
<1>7. k \in Nat /\ (k < t \/ (k = t /\ R <= c))
  <2>1. o[R][1] = k /\ o[R][2] = R
      BY <1>4
  <2> QED
      BY <1>4, <2>1, Sizes DEF Queued
<1>8. ASSUME k = t PROVE c = R /\ rest = <<>>
  <2>1. c = R
      BY <1>2, <1>7, <1>8 DEF R
  <2>2. ASSUME Len(rest) # 0 PROVE FALSE
    <3>1. 1 \in 1..Len(rest) /\ R + 1 \in 1..Len(o) /\ R < R + 1
        BY <1>1, <1>2, <1>3, <2>2
    <3>2. o[R][1] = k /\ o[R][2] = R
        BY <1>4
    <3>3. o[R + 1][1] > k \/ (o[R + 1][1] = k /\ o[R + 1][2] > R)
        BY <1>1, <1>4, <3>1, <3>2 DEF Queued
    <3>4. o[R + 1][1] < t \/ (o[R + 1][1] = t /\ o[R + 1][2] <= c)
        BY <3>1 DEF Queued
    <3> QED
        BY <1>1, <1>2, <1>7, <1>8, <2>1, <3>1, <3>3, <3>4
  <2> QED
      BY <1>3, <2>1, <2>2
<1>9. o # <<>> /\ k <= t /\ o[1][1] = k
    BY <1>1, <1>2, <1>4, <1>7
<1> QED
    BY <1>3, <1>5, <1>6, <1>8, <1>9 DEF rest, R

-----------------------------------------------------------------------------
\* Bytes received.  t is s without its first d bytes, and maybe without some of
\* its last.
Part(t, s, d) ==
    /\ Len(t) + d <= Len(s)
    /\ \A i \in 1..Len(t) : t[i] = s[i + d]

LEMMA PartPlaces ==
    ASSUME NEW t \in Seq(Byte), NEW s \in Seq(Byte), NEW d \in Nat, Part(t, s, d)
    PROVE  /\ Len(t) \in Nat /\ Len(s) \in Nat /\ d \in Nat
           /\ \A i \in 1..Len(t) : i + d \in 1..Len(s) /\ t[i] = s[i + d]
<1>1. Len(t) \in Nat /\ Len(s) \in Nat /\ d \in Nat
    BY LenProperties DEF Part
<1> QED
    BY <1>1 DEF Part

LEMMA OfPart ==
    ASSUME NEW t \in Seq(Byte), NEW s \in Seq(Byte), NEW d \in Nat, Part(t, s, d), NEW k, Of(t, k)
    PROVE  Of(s, k)
BY PartPlaces DEF Of

LEMMA LatestPart ==
    ASSUME NEW t \in Seq(Byte), NEW s \in Seq(Byte), NEW d \in Nat, Part(t, s, d), NEW k \in Nat, Latest(s, k)
    PROVE  Latest(t, k)
<1>1. /\ Len(t) \in Nat /\ Len(s) \in Nat /\ d \in Nat
      /\ \A i \in 1..Len(t) : i + d \in 1..Len(s) /\ t[i] = s[i + d]
    BY PartPlaces
<1>2. ASSUME NEW i \in 1..Len(t), t[i][1] = k, NEW j \in i..Len(t)
      PROVE  t[j] = <<k, t[i][2] + (j - i)>>
  <2>1. j \in 1..Len(t) /\ j + d \in (i + d)..Len(s) /\ (j + d) - (i + d) = j - i
      BY <1>1
  <2>2. s[j + d] = <<k, s[i + d][2] + ((j + d) - (i + d))>>
      BY <1>1, <1>2, <2>1 DEF Latest
  <2> QED
      BY <1>1, <2>1, <2>2
<1>3. \A i \in 1..Len(t) : t[i][1] <= k /\ t[i][2] <= AnswerSize[t[i][1]]
    BY <1>1 DEF Latest
<1> QED
    BY <1>2, <1>3 DEF Latest

LEMMA LatestNext ==
    ASSUME NEW s \in Seq(Byte), NEW k \in Nat, Latest(s, k)
    PROVE  Latest(s, k + 1) /\ ~Of(s, k + 1)
<1>1. \A i \in 1..Len(s) : s[i][1] \in Nat /\ s[i][1] <= k
    BY Bytes DEF Latest
<1>2. \A i \in 1..Len(s) : s[i][1] <= k + 1 /\ s[i][1] # k + 1
    BY <1>1
<1> QED
    BY <1>2 DEF Latest, Of

LEMMA LatestAnswer ==
    ASSUME NEW s \in Seq(Byte), NEW t \in Nat, Latest(s, t), ~Of(s, t), NEW k \in Requests, k <= t
    PROVE  Latest(s \o Answer(k), t) /\ (Of(s \o Answer(k), t) => k = t)
<1> DEFINE a == Answer(k)
           more == s \o a
<1>1. /\ a \in Seq(Byte) /\ Len(a) = AnswerSize[k] /\ AnswerSize[k] \in Nat /\ k \in Nat
      /\ \A i \in 1..AnswerSize[k] : a[i] = <<k, i>>
    BY Frames, Sizes
<1> HIDE DEF a
<1>2. /\ more \in Seq(Byte) /\ Len(more) = Len(s) + Len(a) /\ Len(s) \in Nat
      /\ \A i \in 1..Len(more) : \/ i \in 1..Len(s) /\ more[i] = s[i]
                                 \/ i - Len(s) \in 1..Len(a) /\ more[i] = a[i - Len(s)]
    BY <1>1, Joined
<1> HIDE DEF more
<1>3. ASSUME NEW i \in 1..Len(more)
      PROVE  /\ more[i][1] <= t /\ more[i][2] <= AnswerSize[more[i][1]]
             /\ more[i][1] = t => k = t /\ i - Len(s) \in 1..AnswerSize[k]
  <2>1. CASE i \in 1..Len(s) /\ more[i] = s[i]
      BY <2>1 DEF Latest, Of
  <2>2. CASE i - Len(s) \in 1..Len(a) /\ more[i] = a[i - Len(s)]
    <3>1. more[i][1] = k /\ more[i][2] = i - Len(s) /\ i - Len(s) <= AnswerSize[k]
        BY <1>1, <2>2
    <3> QED
        BY <1>1, <2>2, <3>1
  <2> QED
      BY <1>2, <2>1, <2>2
<1>4. ASSUME NEW i \in 1..Len(more), more[i][1] = t, NEW j \in i..Len(more)
      PROVE  more[j] = <<t, more[i][2] + (j - i)>>
  <2>1. k = t /\ i - Len(s) \in 1..AnswerSize[k]
      BY <1>3, <1>4
  <2>2. /\ i \notin 1..Len(s) /\ j \notin 1..Len(s) /\ j \in 1..Len(more)
        /\ j - Len(s) \in 1..AnswerSize[k] /\ (i - Len(s)) + (j - i) = j - Len(s)
      BY <1>1, <1>2, <2>1
  <2>3. more[i] = <<k, i - Len(s)>> /\ more[j] = <<k, j - Len(s)>>
      BY <1>1, <1>2, <2>1, <2>2
  <2> QED
      BY <2>1, <2>2, <2>3
<1> QED
    BY <1>3, <1>4 DEF Latest, Of, more, a

\* Where the frame of a byte begins and ends.
LEMMA Ends ==
    ASSUME NEW s \in Seq(Byte), NEW i \in 1..Len(s)
    PROVE  /\ First(s, i) \in Int /\ Last(s, i) \in Int /\ i \in Int
           /\ AnswerSize[s[i][1]] \in Nat
           /\ Last(s, i) = First(s, i) + AnswerSize[s[i][1]] - 1
           /\ First(s, i) <= i
<1> DEFINE p == s[i][2]
           a == AnswerSize[s[i][1]]
<1>1. p \in Nat /\ p > 0 /\ a \in Nat /\ i \in Int
    BY Bytes
<1>2. First(s, i) = i - p + 1 /\ Last(s, i) = (i - p + 1) + a - 1
    BY DEF First, Last
<1> HIDE DEF p, a
<1>3. First(s, i) \in Int /\ Last(s, i) \in Int /\ First(s, i) <= i /\ Last(s, i) = First(s, i) + a - 1
    BY <1>1, <1>2
<1> QED
    BY <1>1, <1>3 DEF a

\* The beginning of a sequence of frames is one,
LEMMA FramedPart ==
    ASSUME NEW t \in Seq(Byte), NEW s \in Seq(Byte), Part(t, s, 0), Framed(s)
    PROVE  Framed(t)
<1>1. /\ Len(t) \in Nat /\ Len(s) \in Nat
      /\ \A i \in 1..Len(t) : i + 0 \in 1..Len(s) /\ t[i] = s[i + 0]
    BY PartPlaces
<1>2. \A i \in 1..Len(t) : i \in 1..Len(s) /\ t[i] = s[i]
    BY <1>1
<1>3. ASSUME NEW i \in 1..Len(t)
      PROVE  /\ First(t, i) = First(s, i) /\ Last(t, i) = Last(s, i)
             /\ First(t, i) \in Int /\ Last(t, i) \in Int
  <2>1. i \in 1..Len(s) /\ t[i] = s[i]
      BY <1>2
  <2>2. First(t, i) = First(s, i) /\ Last(t, i) = Last(s, i)
      BY <2>1 DEF First, Last
  <2>3. First(t, i) \in Int /\ Last(t, i) \in Int
      BY Ends
  <2> QED
      BY <2>2, <2>3
<1>4. ASSUME NEW i \in 1..Len(t), NEW j \in First(t, i)..Last(t, i), j <= Len(t)
      PROVE  t[j] = <<t[i][1], j - First(t, i) + 1>>
  <2>1. First(t, i) >= 1
      BY <1>2, <1>3 DEF Framed
  <2>2. j \in 1..Len(t)
      BY <1>1, <1>3, <1>4, <2>1
  <2>3. s[j] = <<s[i][1], j - First(s, i) + 1>>
    <3>1. i \in 1..Len(s) /\ j \in First(s, i)..Last(s, i) /\ j <= Len(s)
        BY <1>2, <1>3, <1>4, <2>2
    <3> QED
        BY <3>1 DEF Framed
  <2> QED
      BY <1>2, <1>3, <2>2, <2>3
<1> QED
    BY <1>2, <1>3, <1>4 DEF Framed

\* A frame that begins at f of which d bytes are taken away.
LEMMA Shifted ==
    ASSUME NEW i \in Int, NEW d \in Int, NEW p \in Int, NEW a \in Int
    PROVE  /\ i - p + 1 = ((i + d) - p + 1) - d
           /\ (i - p + 1) + a - 1 = (((i + d) - p + 1) + a - 1) - d
           /\ i - p + 1 \in Int /\ (i - p + 1) + a - 1 \in Int
           /\ (i + d) - p + 1 \in Int /\ ((i + d) - p + 1) + a - 1 \in Int
OBVIOUS

LEMMA Begun ==
    ASSUME NEW f \in Int, NEW d \in Int, d = d - f + 1, NEW i \in Nat, i >= 1
    PROVE  ~(i + d <= f + d - 1)
OBVIOUS

LEMMA Within ==
    ASSUME NEW f \in Int, NEW l \in Int, NEW d \in Nat, NEW n \in Nat, NEW j \in (f - d)..(l - d),
           f - d >= 1, j <= n
    PROVE  j \in 1..n /\ j + d \in f..l /\ (j + d) - f + 1 = j - (f - d) + 1
OBVIOUS

LEMMA Fewer ==
    ASSUME NEW l \in Int, NEW m \in Int, NEW d \in Nat, NEW n \in Nat, m + d = n
    PROVE  /\ l <= n => l - d <= m
           /\ \A i \in Int : i + d <= l => i <= l - d
           /\ l > d => l - d >= 1
OBVIOUS

\* the rest after its first frame is one,
LEMMA FramedRest ==
    ASSUME NEW t \in Seq(Byte), NEW s \in Seq(Byte), NEW d \in Nat, Part(t, s, d), Len(t) + d = Len(s), d >= 1,
           AnswerSize[s[1][1]] = d, Framed(s)
    PROVE  Framed(t) /\ (Whole(s) => Whole(t))
<1>1. /\ Len(t) \in Nat /\ Len(s) \in Nat /\ d \in Nat /\ 1 \in 1..Len(s) /\ d \in 1..Len(s)
      /\ \A i \in 1..Len(t) : i + d \in 1..Len(s) /\ t[i] = s[i + d]
    BY PartPlaces
<1>2. \A i \in 1..Len(s) : s[i][2] \in Nat /\ s[i][2] > 0 /\ AnswerSize[s[i][1]] \in Nat
    BY Bytes
<1>3. s[d] = <<s[1][1], d>>
  <2>1. First(s, 1) >= 1 /\ First(s, 1) = 1 - s[1][2] + 1
      BY <1>1 DEF Framed, First
  <2>2. First(s, 1) = 1 /\ Last(s, 1) = d
      BY <1>1, <1>2, <2>1 DEF Last
  <2>3. d \in First(s, 1)..Last(s, 1) /\ d - First(s, 1) + 1 = d /\ d <= Len(s)
      BY <1>1, <2>2
  <2> QED
      BY <1>1, <2>3 DEF Framed
<1>4. ASSUME NEW i \in 1..Len(t)
      PROVE  /\ First(t, i) = First(s, i + d) - d /\ Last(t, i) = Last(s, i + d) - d
             /\ First(t, i) \in Int /\ Last(t, i) \in Int
             /\ First(s, i + d) \in Int /\ Last(s, i + d) \in Int
  <2> DEFINE p == s[i + d][2]
             a == AnswerSize[s[i + d][1]]
  <2>1. p \in Nat /\ a \in Nat /\ i \in Int /\ d \in Int
      BY <1>1, <1>2
  <2>2. /\ First(t, i) = i - p + 1 /\ Last(t, i) = (i - p + 1) + a - 1
        /\ First(s, i + d) = (i + d) - p + 1 /\ Last(s, i + d) = ((i + d) - p + 1) + a - 1
      BY <1>1 DEF First, Last
  <2> HIDE DEF p, a
  <2>3. p \in Int
      BY <2>1
  <2>4. a \in Int
      BY <2>1
  <2>5. /\ i - p + 1 = ((i + d) - p + 1) - d
        /\ (i - p + 1) + a - 1 = (((i + d) - p + 1) + a - 1) - d
        /\ i - p + 1 \in Int /\ (i - p + 1) + a - 1 \in Int
        /\ (i + d) - p + 1 \in Int /\ ((i + d) - p + 1) + a - 1 \in Int
      BY <2>1, <2>3, <2>4, Shifted
  <2> QED
      BY <2>2, <2>5, Zenon
<1>5. ASSUME NEW i \in 1..Len(t) PROVE First(t, i) >= 1 /\ i <= Last(t, i)
  <2> DEFINE f == First(s, i + d)
             l == Last(s, i + d)
             k == s[i + d][1]
             a == AnswerSize[k]
  <2>1. f >= 1 /\ i + d <= l /\ f \in Int /\ l \in Int /\ i \in Nat /\ i >= 1
    <3>1. i + d \in 1..Len(s) /\ f \in Int /\ l \in Int
        BY <1>1, <1>4
    <3>2. f >= 1 /\ i + d <= l
        BY <3>1 DEF Framed
    <3> QED
        BY <1>1, <3>1, <3>2
  <2>2. l = f + a - 1 /\ a \in Nat
      BY <1>1, <1>2 DEF Last
  <2>3. First(t, i) = f - d /\ Last(t, i) = l - d
      BY <1>4
  <2>4. d \in f..l => s[d] = <<k, d - f + 1>>
    <3>1. i + d \in 1..Len(s) /\ d <= Len(s)
        BY <1>1
    <3> QED
        BY <3>1 DEF Framed
  <2>5. s[1][1] = k => d = a
      OBVIOUS
  <2> HIDE DEF f, l, a
  <2>6. ASSUME f <= d PROVE FALSE
    <3>1. d \in f..l /\ d \in Int
        BY <1>1, <2>1, <2>6
    <3>2. s[d] = <<k, d - f + 1>>
        BY <2>4, <3>1
    <3>3. s[1][1] = k /\ d = d - f + 1
        BY <1>3, <3>2
    <3>4. d = a
        BY <2>5, <3>3
    <3>5. ~(i + d <= f + d - 1)
        BY <2>1, <3>1, <3>3, Begun, Zenon
    <3>6. l = f + d - 1
        BY <2>2, <3>4, Zenon
    <3> QED
        BY <2>1, <3>5, <3>6, Zenon
  <2>7. i <= l - d
    <3>1. Len(t) \in Int /\ i \in Int /\ i + d <= l
        BY <1>1, <2>1
    <3> QED
        BY <1>1, <2>1, <3>1, Fewer
  <2>8. f - d >= 1
    <3>1. f > d
        BY <1>1, <2>1, <2>6
    <3> QED
        BY <1>1, <2>1, <3>1
  <2> QED
      BY <2>3, <2>7, <2>8, Zenon
<1>6. ASSUME NEW i \in 1..Len(t), NEW j \in First(t, i)..Last(t, i), j <= Len(t)
      PROVE  t[j] = <<t[i][1], j - First(t, i) + 1>>
  <2> DEFINE f == First(s, i + d)
             l == Last(s, i + d)
             g == First(t, i)
             m == Last(t, i)
  <2>1. g = f - d /\ m = l - d /\ g \in Int /\ f \in Int /\ l \in Int /\ g >= 1 /\ j \in g..m
      BY <1>4, <1>5, <1>6
  <2>2. \A n \in f..l : n <= Len(s) => s[n] = <<s[i + d][1], n - f + 1>>
      BY <1>1 DEF Framed
  <2> HIDE DEF f, l, g, m
  <2>3. j \in 1..Len(t) /\ j + d \in f..l /\ j + d <= Len(s) /\ (j + d) - f + 1 = j - g + 1
    <3>1. j \in (f - d)..(l - d) /\ f - d >= 1 /\ j <= Len(t) /\ Len(t) \in Nat
      <4>1. j \in (f - d)..(l - d) /\ f - d >= 1
          BY <2>1
      <4> QED
          BY <1>1, <1>6, <4>1, Zenon
    <3>2. j \in 1..Len(t) /\ j + d \in f..l /\ (j + d) - f + 1 = j - (f - d) + 1
        BY <2>1, <3>1, Within
    <3>3. j + d \in 1..Len(s)
        BY <1>1, <3>2, Zenon
    <3>4. j + d <= Len(s)
        BY <1>1, <3>3
    <3> QED
        BY <2>1, <3>2, <3>4, Zenon
  <2>4. t[j] = s[j + d] /\ t[i] = s[i + d]
      BY <1>1, <2>3
  <2>5. t[j] = <<t[i][1], j - g + 1>>
      BY <2>2, <2>3, <2>4
  <2> QED
      BY <2>5 DEF g
<1>7. ASSUME Whole(s), NEW i \in 1..Len(t) PROVE Last(t, i) <= Len(t)
  <2>1. Last(s, i + d) <= Len(s)
      BY <1>1, <1>7 DEF Whole
  <2> DEFINE l == Last(s, i + d)
  <2>2. Last(t, i) = l - d /\ l \in Int /\ l <= Len(s)
      BY <1>4, <2>1
  <2> HIDE DEF l
  <2>3. l - d <= Len(t)
    <3>1. Len(t) \in Int
        BY <1>1
    <3> QED
        BY <1>1, <2>2, <3>1, Fewer, Zenon
  <2> QED
      BY <2>2, <2>3, Zenon
<1> QED
    BY <1>5, <1>6, <1>7 DEF Framed, Whole

\* and an answer after whole frames makes one.
LEMMA FramedAnswer ==
    ASSUME NEW s \in Seq(Byte), Framed(s), Whole(s), NEW k \in Requests
    PROVE  Framed(s \o Answer(k)) /\ Whole(s \o Answer(k))
<1> DEFINE a == Answer(k)
           more == s \o a
           n == Len(s)
<1>1. /\ a \in Seq(Byte) /\ Len(a) = AnswerSize[k] /\ AnswerSize[k] \in Nat
      /\ \A i \in 1..AnswerSize[k] : a[i] = <<k, i>>
    BY Frames, Sizes
<1> HIDE DEF a
<1>2. /\ more \in Seq(Byte) /\ Len(more) = n + Len(a) /\ n \in Nat
      /\ \A i \in 1..n : more[i] = s[i]
      /\ \A i \in 1..Len(a) : more[n + i] = a[i]
    BY <1>1, Joined
<1>3. \A i \in 1..n : s[i][2] \in Nat /\ AnswerSize[s[i][1]] \in Nat
    BY Bytes
<1> HIDE DEF more, n
<1>4. \A j \in (n + 1)..(n + AnswerSize[k]) : more[j] = <<k, j - n>>
  <2>1. ASSUME NEW j \in (n + 1)..(n + AnswerSize[k]) PROVE more[j] = <<k, j - n>>
    <3>1. j - n \in 1..AnswerSize[k] /\ n + (j - n) = j
        BY <1>1, <1>2
    <3>2. more[n + (j - n)] = a[j - n]
        BY <1>1, <1>2, <3>1
    <3> QED
        BY <1>1, <3>1, <3>2
  <2> QED
      BY <2>1
<1>5. ASSUME NEW i \in 1..n
      PROVE  /\ First(more, i) >= 1 /\ i <= Last(more, i) /\ Last(more, i) <= Len(more)
             /\ \A j \in First(more, i)..Last(more, i) :
                   more[j] = <<more[i][1], j - First(more, i) + 1>>
  <2>1. First(more, i) = First(s, i) /\ Last(more, i) = Last(s, i) /\ more[i] = s[i]
      BY <1>2 DEF First, Last
  <2>2. First(s, i) >= 1 /\ i <= Last(s, i) /\ Last(s, i) <= n /\ First(s, i) \in Int /\ Last(s, i) \in Int
      BY <1>2, <1>3 DEF First, Last, Framed, Whole, n
  <2>3. ASSUME NEW j \in First(s, i)..Last(s, i) PROVE more[j] = <<s[i][1], j - First(s, i) + 1>>
    <3>1. j \in 1..n /\ j <= Len(s)
        BY <1>2, <2>2 DEF n
    <3> QED
        BY <1>2, <3>1 DEF Framed, n
  <2> QED
      BY <1>1, <1>2, <2>1, <2>2, <2>3
<1>6. ASSUME NEW i \in (n + 1)..(n + AnswerSize[k])
      PROVE  /\ First(more, i) >= 1 /\ i <= Last(more, i) /\ Last(more, i) <= Len(more)
             /\ \A j \in First(more, i)..Last(more, i) :
                   more[j] = <<more[i][1], j - First(more, i) + 1>>
  <2>1. more[i][1] = k /\ more[i][2] = i - n
      BY <1>4
  <2>2. First(more, i) = n + 1 /\ Last(more, i) = n + AnswerSize[k]
    <3>1. /\ First(more, i) = i - (i - n) + 1
          /\ Last(more, i) = (i - (i - n) + 1) + AnswerSize[k] - 1
        BY <2>1 DEF First, Last
    <3>2. i - (i - n) + 1 = n + 1 /\ (i - (i - n) + 1) + AnswerSize[k] - 1 = n + AnswerSize[k]
        BY <1>1, <1>2
    <3> QED
        BY <3>1, <3>2
  <2>3. \A j \in (n + 1)..(n + AnswerSize[k]) : j - (n + 1) + 1 = j - n
      BY <1>1, <1>2
  <2> QED
      BY <1>1, <1>2, <1>4, <2>1, <2>2, <2>3
<1>7. \A i \in 1..Len(more) : i \in 1..n \/ i \in (n + 1)..(n + AnswerSize[k])
    BY <1>1, <1>2
<1>8. Framed(more) /\ Whole(more)
    BY <1>5, <1>6, <1>7 DEF Framed, Whole
<1> QED
    BY <1>8 DEF more, a

-----------------------------------------------------------------------------
\* parse_packet.  The state it works on;
LEMMA Typed ==
    ASSUME TypeOK
    PROVE  /\ rxBuf \in Seq(Byte) /\ sockIn \in Seq(Byte) /\ sockOut \in Seq(Byte)
           /\ Incoming \in Seq(Byte) /\ Len(Incoming) = Len(rxBuf) + Len(sockIn)
           /\ Len(rxBuf) \in Nat /\ Len(sockIn) \in Nat /\ Len(sockOut) \in Nat
           /\ Len(rxBuf) < RxBufSize /\ rxLength \in Int
           /\ txRequest \in Nat /\ (txRequest # 0 => txRequest \in Requests)
           /\ txCounter \in 0..RequestSize /\ txCounter \in Nat
           /\ results \in [Requests -> Outcome]
<1>1. rxBuf \in Seq(Byte) /\ sockIn \in Seq(Byte) /\ sockOut \in Seq(Byte)
    BY DEF TypeOK, Byte
<1>2. Incoming \in Seq(Byte) /\ Len(Incoming) = Len(rxBuf) + Len(sockIn)
    BY <1>1, Joined DEF Incoming
<1>3. Len(rxBuf) \in Nat /\ Len(sockIn) \in Nat /\ Len(sockOut) \in Nat
    BY <1>1, LenProperties
<1>4. txRequest \in {0} \cup Requests /\ txCounter \in 0..RequestSize
    BY DEF TypeOK
<1>5. txRequest \in Nat /\ txCounter \in Nat
    BY <1>4, Sizes
<1> QED
    BY <1>1, <1>2, <1>3, <1>4, <1>5 DEF TypeOK

\* what a header gives away;
LEMMA SamePiece ==
    ASSUME NEW s \in Seq(Byte), NEW t \in Seq(Byte), NEW n \in Nat, n <= Len(s), n <= Len(t),
           \A i \in 1..n : s[i] = t[i]
    PROVE  SubSeq(s, 1, n) = SubSeq(t, 1, n)
<1> DEFINE a == SubSeq(s, 1, n)
           b == SubSeq(t, 1, n)
<1>1. /\ a \in Seq(Byte) /\ Len(a) = n /\ \A i \in 1..n : a[i] = s[i]
      /\ b \in Seq(Byte) /\ Len(b) = n /\ \A i \in 1..n : b[i] = t[i]
    BY Suffix
<1> HIDE DEF a, b
<1>2. a = b
    BY <1>1, SeqEqual
<1> QED
    BY <1>2 DEF a, b

LEMMA Front ==
    ASSUME NEW buf \in Seq(Byte), Len(buf) >= HeaderSize, NEW k \in Requests,
           \A j \in 1..Len(buf) : j <= AnswerSize[k] => buf[j] = <<k, j>>
    PROVE  /\ Aligned(buf) /\ buf[1][1] = k /\ SizesRead(buf) = {AnswerSize[k]}
           /\ AnswerSize[k] <= Len(buf) => SubSeq(buf, 1, AnswerSize[k]) = Answer(k)
<1> DEFINE a == Answer(k)
           n == AnswerSize[k]
<1>1. /\ a \in Seq(Byte) /\ Len(a) = n /\ \A i \in 1..n : a[i] = <<k, i>>
    BY Frames
<1>2. n \in Nat /\ n >= HeaderSize /\ HeaderSize \in Nat /\ HeaderSize > 0 /\ Len(buf) \in Nat
    BY Sizes, LenProperties
<1> HIDE DEF a, n
<1>3. 1 \in 1..Len(buf) /\ 1 <= n /\ 1 \in 1..n
    BY <1>2
<1>4. buf[1][1] = k
  <2>1. buf[1] = <<k, 1>>
      BY <1>3 DEF n
  <2> QED
      BY <2>1
<1>5. \A i \in 1..HeaderSize : i \in 1..Len(buf) /\ i <= n /\ i \in 1..n
    BY <1>2
<1>6. \A i \in 1..HeaderSize : buf[i] = a[i]
    BY <1>1, <1>5 DEF n
<1>7. Aligned(buf)
  <2>1. SubSeq(buf, 1, HeaderSize) = SubSeq(a, 1, HeaderSize)
      BY <1>1, <1>2, <1>6, SamePiece
  <2> QED
      BY <2>1 DEF Aligned, Header, a
<1>8. SizesRead(buf) = {n}
    BY <1>4, <1>7 DEF SizesRead, n
<1>9. ASSUME n <= Len(buf) PROVE SubSeq(buf, 1, n) = a
  <2>1. \A i \in 1..n : i \in 1..Len(buf) /\ i <= n
      BY <1>2, <1>9
  <2>2. \A i \in 1..n : buf[i] = a[i]
      BY <1>1, <2>1 DEF n
  <2>3. SubSeq(buf, 1, n) = SubSeq(a, 1, n)
      BY <1>1, <1>2, <1>9, <2>2, SamePiece
  <2>4. SubSeq(a, 1, n) = a
    <3> DEFINE b == SubSeq(a, 1, n)
    <3>1. b \in Seq(Byte) /\ Len(b) = n /\ \A i \in 1..n : b[i] = a[i]
        BY <1>1, <1>2, Suffix
    <3> HIDE DEF b
    <3>2. b = a
        BY <1>1, <3>1, SeqEqual
    <3> QED
        BY <3>2 DEF b
  <2> QED
      BY <2>3, <2>4
<1> QED
    BY <1>4, <1>7, <1>8, <1>9 DEF n, a

LEMMA FrontAligned ==
    ASSUME NEW buf \in Seq(Byte), Len(buf) >= HeaderSize
    PROVE  /\ Aligned(buf) => buf[1] = <<buf[1][1], 1>>
           /\ buf[1][1] \in Requests /\ SizesRead(buf) \subseteq Nat
<1>1. HeaderSize \in Nat /\ HeaderSize > 0 /\ Len(buf) \in Nat /\ 1 \in 1..Len(buf) /\ 1 \in 1..HeaderSize
    BY Sizes, LenProperties
<1>2. buf[1][1] \in Requests
    BY <1>1, Bytes
<1>3. ASSUME Aligned(buf) PROVE buf[1] = <<buf[1][1], 1>>
  <2>1. PICK k \in Requests : SubSeq(buf, 1, HeaderSize) = SubSeq(Answer(k), 1, HeaderSize)
      BY <1>3 DEF Aligned, Header
  <2>2. SubSeq(buf, 1, HeaderSize)[1] = buf[1]
      BY <1>1, Suffix
  <2>3. /\ Answer(k) \in Seq(Byte) /\ Len(Answer(k)) = AnswerSize[k] /\ AnswerSize[k] \in Nat
        /\ HeaderSize <= AnswerSize[k] /\ 1 \in 1..AnswerSize[k]
        /\ \A i \in 1..AnswerSize[k] : Answer(k)[i] = <<k, i>>
      BY <1>1, Frames, Sizes
  <2>4. SubSeq(Answer(k), 1, HeaderSize)[1] = <<k, 1>>
      BY <1>1, <2>3, Suffix
  <2>5. buf[1] = <<k, 1>>
      BY <2>1, <2>2, <2>4, Zenon
  <2>6. buf[1][1] = k
      BY <2>5
  <2> QED
      BY <2>5, <2>6, Zenon
<1>4. SizesRead(buf) \subseteq Nat
    BY <1>2, Sizes DEF SizesRead
<1> QED
    BY <1>2, <1>3, <1>4

\* its three outcomes;
Short(buf) ==
    /\ Len(buf) < HeaderSize
    /\ rxLength' = -1 /\ rxBuf' = buf
    /\ UNCHANGED <<waiting, results, torn>>
Longer(buf, size) ==
    /\ Len(buf) >= HeaderSize /\ size \in SizesRead(buf) /\ size > Len(buf)
    /\ rxLength' = size - Len(buf)
    /\ rxBuf' = IF Len(buf) = RxBufSize THEN <<>> ELSE buf
    /\ UNCHANGED <<waiting, results, torn>>
Complete(buf, size) ==
    /\ Len(buf) >= HeaderSize /\ size \in SizesRead(buf) /\ size <= Len(buf)
    /\ rxLength' = size - Len(buf) /\ rxBuf' = <<>>
    /\ torn' = (torn \/ rxLength' < 0)
    /\ DeliverTo(buf, size)

LEMMA ParseCases ==
    ASSUME NEW buf \in Seq(Byte), ParsePacket(buf)
    PROVE  Short(buf) \/ \E size \in Nat : Longer(buf, size) \/ Complete(buf, size)
<1>1. CASE Len(buf) < HeaderSize /\ rxLength' = -1 /\ rxBuf' = buf /\ UNCHANGED <<waiting, results, torn>>
    BY <1>1 DEF Short
<1>2. ASSUME Len(buf) >= HeaderSize, NEW size \in SizesRead(buf),
             rxLength' = size - Len(buf),
             IF rxLength' > 0
             THEN /\ rxBuf' = IF Len(buf) = RxBufSize THEN <<>> ELSE buf
                  /\ UNCHANGED <<waiting, results, torn>>
             ELSE /\ rxBuf' = <<>>
                  /\ torn' = (torn \/ rxLength' < 0)
                  /\ DeliverTo(buf, size)
      PROVE  size \in Nat /\ (Longer(buf, size) \/ Complete(buf, size))
  <2>1. size \in Nat /\ Len(buf) \in Nat
      BY <1>2, FrontAligned, LenProperties
  <2>2. /\ size - Len(buf) > 0 => size > Len(buf)
        /\ ~(size - Len(buf) > 0) => size <= Len(buf)
      BY <2>1
  <2>3. CASE rxLength' > 0
      BY <1>2, <2>1, <2>2, <2>3 DEF Longer
  <2>4. CASE ~(rxLength' > 0)
      BY <1>2, <2>1, <2>2, <2>4 DEF Complete
  <2> QED
      BY <2>1, <2>3, <2>4
<1>3. CASE /\ Len(buf) >= HeaderSize
           /\ \E size \in SizesRead(buf) :
                 /\ rxLength' = size - Len(buf)
                 /\ IF rxLength' > 0
                    THEN /\ rxBuf' = IF Len(buf) = RxBufSize THEN <<>> ELSE buf
                         /\ UNCHANGED <<waiting, results, torn>>
                    ELSE /\ rxBuf' = <<>>
                         /\ torn' = (torn \/ rxLength' < 0)
                         /\ DeliverTo(buf, size)
    BY <1>2, <1>3, Zenon
<1> QED
    BY <1>1, <1>3, Zenon DEF ParsePacket

\* and what is told then: of a frame that begins with the answer to the latest
\* request it is that answer, of any other never an answer of that number.
Told(r) == waiting' = FALSE /\ results' = [results EXCEPT ![txRequest] = r]
Own(t) == IF AnswerSize[t] > PduRoom[t] THEN [kind |-> "overflow", of |-> t]
                                        ELSE [kind |-> "answer", of |-> t]
TooLarge(r, t) == r.of \in 1..t /\ Id(r.of) = Id(t) /\ AnswerSize[r.of] > PduRoom[t]
Right(r) ==
    /\ r \in Outcome /\ r.kind \in {"error", "answer", "mixed", "overflow"}
    /\ r.kind = "overflow" => TooLarge(r, txRequest)
    /\ r.kind \in {"answer", "mixed"} =>
          r.of <= txRequest /\ Id(r.of) = Id(txRequest) /\ (r.kind = "mixed" => r.of # txRequest)

LEMMA Delivered ==
    ASSUME TypeOK, CallOK, NEW buf \in Seq(Byte), Latest(buf, txRequest),
           NEW size \in Nat, Complete(buf, size), waiting
    PROVE  /\ \E r : Told(r) /\ Right(r)
           /\ (Aligned(buf) /\ buf[1][1] = txRequest) => Told(Own(txRequest))
<1> DEFINE k == buf[1][1]
<1>1. /\ k \in Requests /\ k \in Nat /\ txRequest \in Requests /\ txRequest \in Nat /\ k <= txRequest
      /\ AnswerSize[k] \in Nat /\ Len(buf) \in Nat /\ 1 \in 1..Len(buf)
  <2>1. Len(buf) \in Nat /\ 1 \in 1..Len(buf)
      BY Sizes, LenProperties DEF Complete
  <2>2. txRequest \in Requests
      BY Typed DEF CallOK
  <2> QED
      BY <2>1, <2>2, Bytes, Sizes, Typed DEF Latest
<1> DEFINE error == [kind |-> "error", of |-> 0]
           overflow == [kind |-> "overflow", of |-> k]
           answer == [kind |-> "answer", of |-> k]
           mixed == [kind |-> "mixed", of |-> k]
           AllOfIt == SubSeq(buf, 1, size) = Answer(k)
           Large == size > PduRoom[txRequest]
<1>2. \/ ~IdMatches(buf) /\ Told(error)
      \/ IdMatches(buf) /\ Large /\ Told(overflow)
      \/ IdMatches(buf) /\ ~Large /\ AllOfIt /\ Told(answer)
      \/ IdMatches(buf) /\ ~Large /\ ~AllOfIt /\ Told(mixed)
  <2>1. Told(Verdict(buf, size))
      BY Zenon DEF Complete, DeliverTo, Told
  <2>2. /\ ~IdMatches(buf) => Verdict(buf, size) = error
        /\ IdMatches(buf) /\ Large => Verdict(buf, size) = overflow
        /\ IdMatches(buf) /\ ~Large /\ AllOfIt => Verdict(buf, size) = answer
        /\ IdMatches(buf) /\ ~Large /\ ~AllOfIt => Verdict(buf, size) = mixed
      BY DEF Verdict
  <2> HIDE DEF error, overflow, answer, mixed, AllOfIt, Large
  <2>3. CASE ~IdMatches(buf)
      BY <2>1, <2>2, <2>3, Zenon
  <2>4. CASE IdMatches(buf) /\ Large
      BY <2>1, <2>2, <2>4, Zenon
  <2>5. CASE IdMatches(buf) /\ ~Large /\ AllOfIt
      BY <2>1, <2>2, <2>5, Zenon
  <2>6. CASE IdMatches(buf) /\ ~Large /\ ~AllOfIt
      BY <2>1, <2>2, <2>6, Zenon
  <2> QED
      BY <2>3, <2>4, <2>5, <2>6, Zenon
<1>3. ASSUME Aligned(buf), k = txRequest PROVE AllOfIt /\ IdMatches(buf) /\ size = AnswerSize[k]
  <2>1. buf[1] = <<k, 1>> /\ Len(buf) >= HeaderSize
      BY <1>3, FrontAligned DEF Complete
  <2>2. \A j \in 1..Len(buf) : buf[j] = <<k, j>>
    <3>1. \A j \in 1..Len(buf) : j \in 1..Len(buf) /\ 1 + (j - 1) = j
        BY <1>1
    <3>2. buf[1][2] = 1
        BY <2>1
    <3>3. \A j \in 1..Len(buf) : buf[j] = <<txRequest, buf[1][2] + (j - 1)>>
        BY <1>1, <1>3 DEF Latest
    <3> QED
        BY <1>3, <3>1, <3>2, <3>3
  <2>3. /\ SizesRead(buf) = {AnswerSize[k]}
        /\ AnswerSize[k] <= Len(buf) => SubSeq(buf, 1, AnswerSize[k]) = Answer(k)
      BY <1>1, <2>1, <2>2, Front
  <2>4. size = AnswerSize[k] /\ size <= Len(buf)
      BY <2>3 DEF Complete
  <2>5. SubSeq(buf, 1, size) = Answer(k)
      BY <2>3, <2>4
  <2>6. IdMatches(buf)
      BY <1>3 DEF IdMatches
  <2> QED
      BY <2>4, <2>5, <2>6
<1>4. error \in Outcome /\ Right(error)
    BY DEF Outcome, Right
<1>5. ASSUME IdMatches(buf)
      PROVE  /\ Right(answer)
             /\ k # txRequest => Right(mixed)
             /\ Large => Right(overflow)
  <2>1. Id(k) = Id(txRequest)
      BY <1>5 DEF IdMatches
  <2>2. answer \in Outcome /\ mixed \in Outcome /\ overflow \in Outcome
      BY <1>1 DEF Outcome
  <2>3. ASSUME Large PROVE TooLarge(overflow, txRequest)
    <3>1. SizesRead(buf) = {AnswerSize[k]} /\ size \in SizesRead(buf)
        BY <1>5 DEF IdMatches, SizesRead, Complete
    <3>2. k \in 1..txRequest /\ AnswerSize[k] > PduRoom[txRequest] /\ overflow.of = k
        BY <1>1, <2>3, <3>1, Sizes
    <3> QED
        BY <2>1, <3>2 DEF TooLarge
  <2> QED
      BY <1>1, <2>1, <2>2, <2>3 DEF Right
<1>6. (Aligned(buf) /\ k = txRequest) /\ Large => Own(txRequest) = overflow
    BY <1>3 DEF Own
<1>7. (Aligned(buf) /\ k = txRequest) /\ ~Large => Own(txRequest) = answer
    BY <1>3 DEF Own
<1> HIDE DEF error, overflow, answer, mixed, AllOfIt, Large, k
<1>8. CASE ~IdMatches(buf) /\ Told(error)
    BY <1>3, <1>4, <1>8, Zenon DEF k
<1>9. CASE IdMatches(buf) /\ Large /\ Told(overflow)
    BY <1>5, <1>6, <1>9, Zenon DEF k
<1>10. CASE IdMatches(buf) /\ ~Large /\ AllOfIt /\ Told(answer)
    BY <1>5, <1>7, <1>10, Zenon DEF k
<1>11. CASE IdMatches(buf) /\ ~Large /\ ~AllOfIt /\ Told(mixed)
  <2>1. ~(Aligned(buf) /\ k = txRequest)
      BY <1>3, <1>11, Zenon
  <2>2. k # txRequest
      BY <1>11, <2>1, Zenon DEF IdMatches, k
  <2> QED
      BY <1>5, <1>11, <2>1, <2>2, Zenon DEF k
<1> QED
    BY <1>2, <1>8, <1>9, <1>10, <1>11, Zenon

\* A step of parse_packet keeps the types, either all the bytes or none, and
\* what was torn torn.
LEMMA ParsedTypes ==
    ASSUME TypeOK, NEW buf \in Seq(Byte), Len(buf) <= RxBufSize, ParsePacket(buf)
    PROVE  /\ rxBuf' = buf \/ rxBuf' = <<>>
           /\ rxBuf' \in Seq(Byte) /\ Len(rxBuf') < RxBufSize /\ rxLength' \in Int
           /\ torn' \in BOOLEAN /\ (torn => torn')
<1>1. Len(buf) \in Nat /\ HeaderSize \in Nat /\ RxBufSize \in Nat /\ HeaderSize <= RxBufSize /\ 0 < RxBufSize
    BY Sizes, LenProperties
<1>2. torn \in BOOLEAN
    BY DEF TypeOK
<1>3. <<>> \in Seq(Byte) /\ Len(<<>>) < RxBufSize
    BY <1>1
<1>4. CASE Short(buf)
  <2>1. Len(buf) < RxBufSize
      BY <1>1, <1>4 DEF Short
  <2> QED
      BY <1>2, <1>4, <2>1 DEF Short
<1>5. ASSUME NEW size \in Nat, Longer(buf, size)
      PROVE  /\ rxBuf' = buf \/ rxBuf' = <<>>
             /\ rxBuf' \in Seq(Byte) /\ Len(rxBuf') < RxBufSize /\ rxLength' \in Int
             /\ torn' = torn
  <2>1. rxLength' = size - Len(buf) /\ torn' = torn
      BY <1>5 DEF Longer
  <2>2. CASE Len(buf) = RxBufSize
      BY <1>1, <1>3, <1>5, <2>1, <2>2 DEF Longer
  <2>3. CASE Len(buf) # RxBufSize
    <3>1. rxBuf' = buf /\ Len(buf) < RxBufSize
        BY <1>1, <1>5, <2>3 DEF Longer
    <3> QED
        BY <1>1, <2>1, <3>1
  <2> QED
      BY <2>2, <2>3
<1>6. ASSUME NEW size \in Nat, Complete(buf, size)
      PROVE  /\ rxBuf' = <<>> /\ rxLength' \in Int
             /\ torn' \in BOOLEAN /\ (torn => torn')
  <2>1. rxLength' = size - Len(buf) /\ rxBuf' = <<>>
      BY <1>6 DEF Complete
  <2>2. torn' = (torn \/ rxLength' < 0)
      BY <1>6 DEF Complete
  <2> QED
      BY <1>1, <1>2, <2>1, <2>2
<1>7. CASE \E size \in Nat : Longer(buf, size) \/ Complete(buf, size)
  <2>1. PICK size \in Nat : Longer(buf, size) \/ Complete(buf, size)
      BY <1>7
  <2>2. CASE Longer(buf, size)
      BY <1>2, <1>5, <2>2, Zenon
  <2>3. CASE Complete(buf, size)
      BY <1>3, <1>6, <2>3
  <2> QED
      BY <2>1, <2>2, <2>3
<1> QED
    BY <1>4, <1>7, ParseCases

\* What the layer above is told.
LEMMA ParsedTold ==
    ASSUME TypeOK, CallOK, NEW buf \in Seq(Byte), Latest(buf, txRequest), ParsePacket(buf)
    PROVE  \/ UNCHANGED <<waiting, results>>
           \/ waiting /\ \E r : Told(r) /\ Right(r)
<1>1. CASE Short(buf)
    BY <1>1 DEF Short
<1>2. ASSUME NEW size \in Nat, Longer(buf, size)
      PROVE  UNCHANGED <<waiting, results>>
    BY <1>2 DEF Longer
<1>3. ASSUME NEW size \in Nat, Complete(buf, size), ~waiting
      PROVE  UNCHANGED <<waiting, results>>
    BY <1>3 DEF Complete, DeliverTo
<1>4. ASSUME NEW size \in Nat, Complete(buf, size), waiting
      PROVE  \E r : Told(r) /\ Right(r)
    BY <1>4, Delivered, Zenon
<1>5. CASE \E size \in Nat : Longer(buf, size) \/ Complete(buf, size)
    BY <1>2, <1>3, <1>4, <1>5, Zenon
<1> QED
    BY <1>1, <1>5, ParseCases, Zenon

\* In step with the frames, all of one frame is used up, or nothing.
LEMMA ParsedInStep ==
    ASSUME TypeOK, NEW buf \in Seq(Byte), Len(buf) <= RxBufSize, Framed(buf), ParsePacket(buf), ~torn'
    PROVE  /\ rxLength' <= RxBufSize - Len(rxBuf')
           /\ \/ /\ rxBuf' = buf
                 /\ Len(buf) > 0 => Len(buf) < AnswerSize[buf[1][1]]
              \/ rxBuf' = <<>> /\ Len(buf) >= 1 /\ AnswerSize[buf[1][1]] = Len(buf)
<1>1. /\ Len(buf) \in Nat /\ HeaderSize \in Nat /\ RxBufSize \in Nat
      /\ HeaderSize <= RxBufSize /\ 0 < RxBufSize /\ HeaderSize > 0
    BY Sizes, LenProperties
<1>2. ASSUME Len(buf) > 0
      PROVE  /\ buf[1][1] \in Requests /\ AnswerSize[buf[1][1]] \in Nat
             /\ AnswerSize[buf[1][1]] >= HeaderSize /\ AnswerSize[buf[1][1]] <= RxBufSize
    BY <1>1, <1>2, Bytes, Sizes
<1>3. ASSUME Len(buf) >= HeaderSize PROVE SizesRead(buf) = {AnswerSize[buf[1][1]]}
  <2> DEFINE k == buf[1][1]
             p == buf[1][2]
  <2>1. 1 \in 1..Len(buf) /\ k \in Requests /\ p \in Nat /\ p > 0 /\ AnswerSize[k] \in Nat
      BY <1>1, <1>3, Bytes
  <2>2. 1 - p + 1 >= 1
      BY <2>1 DEF Framed, First
  <2>3. p = 1
      BY <2>1, <2>2
  <2>4. First(buf, 1) = 1 /\ Last(buf, 1) = AnswerSize[k]
    <3>1. First(buf, 1) = 1 - p + 1 /\ Last(buf, 1) = (1 - p + 1) + AnswerSize[k] - 1
        BY DEF First, Last
    <3> QED
        BY <2>1, <2>3, <3>1
  <2>5. ASSUME NEW j \in 1..Len(buf), j <= AnswerSize[k] PROVE buf[j] = <<k, j>>
    <3>1. j \in First(buf, 1)..Last(buf, 1) /\ j <= Len(buf) /\ j - First(buf, 1) + 1 = j
        BY <1>1, <2>1, <2>4, <2>5
    <3> QED
        BY <2>1, <3>1 DEF Framed
  <2> QED
      BY <1>3, <2>1, <2>5, Front
<1>4. CASE Short(buf)
  <2>1. rxBuf' = buf /\ rxLength' = -1 /\ Len(buf) < HeaderSize
      BY <1>4 DEF Short
  <2>2. -1 <= RxBufSize - Len(buf)
      BY <1>1, <2>1
  <2>3. Len(buf) > 0 => Len(buf) < AnswerSize[buf[1][1]]
      BY <1>1, <1>2, <2>1
  <2> QED
      BY <2>1, <2>2, <2>3
<1>5. ASSUME NEW size \in Nat, Longer(buf, size)
      PROVE  /\ rxBuf' = buf /\ rxLength' <= RxBufSize - Len(buf)
             /\ Len(buf) < AnswerSize[buf[1][1]]
  <2>1. Len(buf) >= HeaderSize /\ size \in SizesRead(buf) /\ size > Len(buf) /\ rxLength' = size - Len(buf)
      BY <1>5 DEF Longer
  <2>2. size = AnswerSize[buf[1][1]] /\ size <= RxBufSize
      BY <1>1, <1>2, <1>3, <2>1
  <2>3. Len(buf) # RxBufSize /\ size - Len(buf) <= RxBufSize - Len(buf)
      BY <1>1, <2>1, <2>2
  <2>4. rxBuf' = buf
      BY <1>5, <2>3 DEF Longer
  <2> QED
      BY <2>1, <2>2, <2>3, <2>4
<1>6. ASSUME NEW size \in Nat, Complete(buf, size)
      PROVE  /\ rxBuf' = <<>> /\ rxLength' = 0 /\ Len(buf) >= 1
             /\ AnswerSize[buf[1][1]] = Len(buf)
  <2>1. /\ Len(buf) >= HeaderSize /\ size \in SizesRead(buf) /\ size <= Len(buf)
        /\ rxLength' = size - Len(buf) /\ rxBuf' = <<>>
      BY <1>6 DEF Complete
  <2>2. torn' = (torn \/ rxLength' < 0)
      BY <1>6 DEF Complete
  <2>3. ~(size - Len(buf) < 0)
      BY <2>1, <2>2
  <2>4. size = Len(buf)
      BY <1>1, <2>1, <2>3
  <2> QED
      BY <1>1, <1>3, <2>1, <2>4
<1>7. CASE \E size \in Nat : Longer(buf, size) \/ Complete(buf, size)
  <2>1. PICK size \in Nat : Longer(buf, size) \/ Complete(buf, size)
      BY <1>7
  <2>2. CASE Longer(buf, size)
      BY <1>5, <2>2
  <2>3. CASE Complete(buf, size)
    <3>1. 0 <= RxBufSize - Len(<<>>)
        BY <1>1
    <3> QED
        BY <1>6, <2>3, <3>1
  <2> QED
      BY <2>1, <2>2, <2>3
<1> QED
    BY <1>4, <1>7, ParseCases

\* And with nothing but the latest answer on its way that is the one told of.
LEMMA ParsedLatest ==
    ASSUME TypeOK, CallOK, NEW buf \in Seq(Byte), Len(buf) <= RxBufSize, Latest(buf, txRequest),
           \A i \in 1..Len(buf) : buf[i] = <<txRequest, i>>, ParsePacket(buf)
    PROVE  \/ /\ rxBuf' = buf /\ UNCHANGED <<waiting, results>>
              /\ Len(buf) > 0 => Len(buf) < AnswerSize[txRequest]
              /\ rxLength' > 0 => txRequest # 0 /\ rxLength' = AnswerSize[txRequest] - Len(buf)
           \/ /\ rxBuf' = <<>> /\ rxLength' = 0
              /\ txRequest \in Requests /\ AnswerSize[txRequest] = Len(buf) /\ Len(buf) >= 1
              /\ waiting => Told(Own(txRequest))
              /\ ~waiting => UNCHANGED <<waiting, results>>
<1> DEFINE t == txRequest
           n == Len(buf)
           a == AnswerSize[t]
<1>1. n \in Nat /\ HeaderSize \in Nat /\ RxBufSize \in Nat /\ HeaderSize <= RxBufSize /\ HeaderSize > 0
    BY Sizes, LenProperties
<1>2. ASSUME n > 0 PROVE t # 0 /\ t \in Requests /\ a \in Nat /\ a >= HeaderSize /\ a <= RxBufSize /\ n <= a
  <2>1. 1 \in 1..n /\ n \in 1..n
      BY <1>1, <1>2
  <2>2. /\ buf[1] = <<t, 1>> /\ buf[1][1] \in Requests /\ buf[n] = <<t, n>>
        /\ buf[n][2] <= AnswerSize[buf[n][1]]
      BY <2>1, Bytes DEF Latest
  <2>3. buf[1][1] = t
      BY <2>2
  <2>4. buf[n][1] = t
      BY <2>2
  <2>5. buf[n][2] = n
      BY <2>2
  <2>6. t \in Requests /\ n <= a
      BY <2>2, <2>3, <2>4, <2>5
  <2> QED
      BY <2>6, Sizes
<1>3. ASSUME n >= HeaderSize PROVE Aligned(buf) /\ buf[1][1] = t /\ SizesRead(buf) = {a} /\ n > 0
  <2>1. n > 0
      BY <1>1, <1>3
  <2> QED
      BY <1>2, <1>3, <2>1, Front
<1> HIDE DEF a, n
<1>4. CASE Short(buf)
  <2>1. rxBuf' = buf /\ rxLength' = -1 /\ n < HeaderSize /\ UNCHANGED <<waiting, results>>
      BY <1>4 DEF Short, n
  <2>2. n > 0 => n < a
      BY <1>1, <1>2, <2>1
  <2> QED
      BY <2>1, <2>2 DEF n, a
<1>5. ASSUME NEW size \in Nat, Longer(buf, size)
      PROVE  /\ rxBuf' = buf /\ UNCHANGED <<waiting, results>>
             /\ n < a /\ t # 0 /\ rxLength' = a - n
  <2>1. /\ n >= HeaderSize /\ size \in SizesRead(buf) /\ size > n /\ rxLength' = size - n
        /\ UNCHANGED <<waiting, results>>
      BY <1>5 DEF Longer, n
  <2>2. size = a /\ t # 0 /\ size <= RxBufSize
      BY <1>2, <1>3, <2>1
  <2>3. n # RxBufSize
      BY <1>1, <2>1, <2>2
  <2>4. rxBuf' = buf
      BY <1>5, <2>3 DEF Longer, n
  <2> QED
      BY <2>1, <2>2, <2>4
<1>6. ASSUME NEW size \in Nat, Complete(buf, size)
      PROVE  /\ rxBuf' = <<>> /\ rxLength' = 0 /\ t \in Requests /\ a = n /\ n >= 1
             /\ Aligned(buf) /\ buf[1][1] = t
  <2>1. /\ n >= HeaderSize /\ size \in SizesRead(buf) /\ size <= n
        /\ rxLength' = size - n /\ rxBuf' = <<>>
      BY <1>6 DEF Complete, n
  <2>2. size = a /\ t \in Requests /\ n <= a /\ n > 0
      BY <1>2, <1>3, <2>1
  <2>3. a = n /\ n >= 1 /\ size - n = 0
      BY <1>1, <2>1, <2>2
  <2> QED
      BY <1>3, <2>1, <2>2, <2>3
<1>7. CASE \E size \in Nat : Longer(buf, size) \/ Complete(buf, size)
  <2>1. PICK size \in Nat : Longer(buf, size) \/ Complete(buf, size)
      BY <1>7
  <2>2. CASE Longer(buf, size)
      BY <1>5, <2>2 DEF n, a
  <2>3. CASE Complete(buf, size)
    <3>1. waiting => Told(Own(txRequest))
        BY <1>6, <2>3, Delivered
    <3>2. ~waiting => UNCHANGED <<waiting, results>>
        BY <2>3 DEF Complete, DeliverTo
    <3> QED
        BY <1>6, <2>3, <3>1, <3>2 DEF n, a
  <2> QED
      BY <2>1, <2>2, <2>3
<1> QED
    BY <1>4, <1>7, ParseCases

-----------------------------------------------------------------------------
\* The layer above: what it was told is kept,
LEMMA ResultsKept ==
    ASSUME OwnAnswer, ErrorAfterTimeout, results' = results
    PROVE  OwnAnswer' /\ ErrorAfterTimeout'
BY DEF OwnAnswer, ErrorAfterTimeout

LEMMA CallKept ==
    ASSUME CallOK, UNCHANGED <<waiting, results, txRequest>>
    PROVE  CallOK' /\ (Fresh' => Fresh)
BY DEF CallOK, Fresh

\* it is told something,
LEMMA CallTold ==
    ASSUME TypeOK, CallOK, OwnAnswer, ErrorAfterTimeout, waiting,
           NEW r \in Outcome, Told(r), txRequest' = txRequest,
           r.kind # "none", r.kind = "error" => ~Fresh,
           r.kind = "overflow" => TooLarge(r, txRequest) /\ (r.of # txRequest => ~Fresh),
           r.kind \in {"answer", "mixed"} =>
              r.of <= txRequest /\ Id(r.of) = Id(txRequest) /\ (r.kind = "mixed" => r.of # txRequest)
    PROVE  /\ waiting' \in BOOLEAN /\ results' \in [Requests -> Outcome]
           /\ CallOK' /\ OwnAnswer' /\ ErrorAfterTimeout' /\ (Fresh' => Fresh)
           /\ results'[txRequest] = r
           /\ \A j \in 1..(txRequest - 1) : results'[j] = results[j]
<1> DEFINE t == txRequest
<1>1. t \in Requests /\ t \in Nat /\ results \in [Requests -> Outcome]
    BY Typed DEF CallOK
<1>2. \A j \in Requests : j \in Nat
    BY Sizes
<1>3. /\ waiting' = FALSE /\ results' \in [Requests -> Outcome] /\ results'[t] = r
      /\ \A j \in Requests : j # t => results'[j] = results[j]
    BY <1>1 DEF Told
<1>4. \A j \in 1..(t - 1) : j \in Requests /\ j # t
    BY <1>1, SizesAssumption DEF Requests, SizesAssumption
<1> HIDE DEF t
<1>5. CallOK'
  <2>1. \A k \in Requests : k > t => k # t
      BY <1>1, <1>2
  <2>2. \A k \in Requests : k > t => results'[k].kind = "none"
      BY <1>3, <2>1 DEF CallOK, t
  <2> QED
      BY <1>3, <2>2 DEF CallOK, t
<1>6. OwnAnswer'
  <2>1. ASSUME NEW k \in Requests, results'[k].kind \in {"answer", "mixed"}
        PROVE  /\ results'[k].of <= k /\ Id(results'[k].of) = Id(k)
               /\ results'[k].kind = "mixed" => results'[k].of # k
    <3>1. CASE k = t
        BY <1>3, <2>1, <3>1, Zenon DEF t
    <3>2. CASE k # t
        BY <1>3, <2>1, <3>2, Zenon DEF OwnAnswer
    <3> QED
        BY <3>1, <3>2
  <2> QED
      BY <2>1, Zenon DEF OwnAnswer
<1>7. Fresh' => Fresh
    BY <1>3, <1>4 DEF Fresh, t
<1>8. ErrorAfterTimeout'
  <2>1. ASSUME NEW k \in Requests,
               \/ results'[k].kind = "error"
               \/ results'[k].kind = "overflow" /\ results'[k].of # k
        PROVE  \E j \in 1..(k - 1) : results'[j].kind = "timeout"
    <3>1. CASE k = t
      <4>1. PICK j \in 1..(t - 1) : results[j].kind = "timeout"
          BY <1>3, <2>1, <3>1 DEF Fresh, t
      <4>2. results'[j].kind = "timeout"
          BY <1>3, <1>4, <4>1
      <4> QED
          BY <3>1, <4>1, <4>2
    <3>2. CASE k # t
      <4>1. results'[k] = results[k]
          BY <1>3, <3>2
      <4>2. ~(k > t)
          BY <2>1, <4>1 DEF CallOK, t
      <4>3. PICK j \in 1..(k - 1) : results[j].kind = "timeout"
          BY <2>1, <4>1, Zenon DEF ErrorAfterTimeout
      <4>4. j \in 1..(t - 1)
          BY <1>1, <1>2, <4>2
      <4>5. results'[j].kind = "timeout"
          BY <1>3, <1>4, <4>3, <4>4
      <4> QED
          BY <4>5
    <3> QED
        BY <3>1, <3>2
  <2>2. ASSUME NEW k \in Requests, results'[k].kind = "overflow" PROVE TooLarge(results'[k], k)
    <3>1. CASE k = t
        BY <1>3, <2>2, <3>1, Zenon DEF t
    <3>2. CASE k # t
        BY <1>3, <2>2, <3>2, Zenon DEF ErrorAfterTimeout, TooLarge
    <3> QED
        BY <3>1, <3>2
  <2> QED
      BY <2>1, <2>2, Zenon DEF ErrorAfterTimeout, TooLarge
<1>9. \A j \in 1..(t - 1) : results'[j] = results[j]
    BY <1>3, <1>4
<1> QED
    BY <1>3, <1>5, <1>6, <1>7, <1>8, <1>9 DEF t

\* or it makes the next request: if all before were answered nothing of theirs
\* is left.
LEMMA CallNext ==
    ASSUME TypeOK, CallOK, ~waiting, NEW k \in Requests, k = txRequest + 1,
           txRequest' = k, waiting' = TRUE, results' = results
    PROVE  /\ CallOK' /\ txRequest' \in {0} \cup Requests /\ waiting' \in BOOLEAN
           /\ Fresh' => Fresh /\ (txRequest # 0 => results[txRequest].kind # "timeout")
<1>1. txRequest \in Nat /\ k \in Nat /\ k # 0 /\ \A j \in Requests : j \in Nat
    BY Typed, Sizes
<1>2. CallOK'
  <2>1. \A j \in Requests : j > k => j > txRequest
      BY <1>1
  <2> QED
      BY <1>1, <2>1 DEF CallOK
<1>3. ASSUME Fresh'
      PROVE  Fresh /\ (txRequest # 0 => results[txRequest].kind # "timeout")
  <2>1. \A j \in 1..(txRequest' - 1) : results'[j].kind # "timeout"
      BY <1>3 DEF Fresh
  <2>2. \A j \in 1..txRequest : results[j].kind # "timeout"
      BY <1>1, <2>1
  <2>3. \A j \in 1..(txRequest - 1) : j \in 1..txRequest
      BY <1>1
  <2>4. txRequest # 0 => txRequest \in 1..txRequest
      BY <1>1
  <2> QED
      BY <2>2, <2>3, <2>4 DEF Fresh
<1> QED
    BY <1>2, <1>3

LEMMA Idle ==
    ASSUME TypeOK, CallOK, ~waiting, OnlyLatest,
           txRequest # 0 => results[txRequest].kind # "timeout"
    PROVE  /\ Incoming = <<>> /\ sockOut = <<>> /\ ~(rxLength > 0) /\ rxBuf = <<>>
           /\ \A j \in 1..txRequest : results[j].kind \in {"answer", "overflow"}
<1>1. /\ txRequest \in Nat /\ rxLength \in Int
      /\ Incoming \in Seq(Byte) /\ sockOut \in Seq(Byte) /\ Len(Incoming) \in Nat /\ Len(sockOut) \in Nat
      /\ Len(Incoming) = Len(rxBuf) + Len(sockIn) /\ Len(rxBuf) \in Nat /\ Len(sockIn) \in Nat
      /\ rxBuf \in Seq(Byte)
    BY Typed, LenProperties
<1>2. CASE txRequest # 0
  <2>1. results[txRequest].kind \in {"answer", "overflow"}
      BY <1>2 DEF CallOK, OnlyLatest
  <2>2. Incoming = <<>> /\ sockOut = <<>> /\ rxLength <= 0
      BY <1>2, <2>1 DEF OnlyLatest
  <2>3. ASSUME NEW j \in 1..txRequest PROVE results[j].kind \in {"answer", "overflow"}
    <3>1. j = txRequest \/ j \in 1..(txRequest - 1)
        BY <1>1
    <3> QED
        BY <2>1, <3>1 DEF OnlyLatest
  <2>4. ~(rxLength > 0)
      BY <1>1, <2>2
  <2> QED
      BY <1>1, <2>2, <2>3, <2>4
<1>3. CASE txRequest = 0
  <2>1. ~(rxLength > 0)
      BY <1>1, <1>3 DEF OnlyLatest
  <2>2. ASSUME Len(Incoming) # 0 PROVE FALSE
    <3>1. 1 \in 1..Len(Incoming)
        BY <1>1, <2>2
    <3>2. Incoming[1] = <<0, 1>> /\ Incoming[1][1] # 0
        BY <1>1, <1>3, <3>1, Bytes DEF OnlyLatest
    <3> QED
        BY <3>2
  <2>3. ASSUME Len(sockOut) # 0 PROVE FALSE
    <3>1. 1 \in 1..Len(sockOut)
        BY <1>1, <2>3
    <3>2. sockOut[1][1] = 0 /\ sockOut[1][1] # 0
        BY <1>1, <1>3, <3>1, Bytes DEF OnlyLatest
    <3> QED
        BY <3>2
  <2> QED
      BY <1>1, <1>3, <2>1, <2>2, <2>3
<1> QED
    BY <1>2, <1>3

-----------------------------------------------------------------------------
\* The connection.  Nothing but bytes on their way are lost:
LEMMA LatestKept ==
    ASSUME TypeOK, OnlyLatest, Incoming' \in Seq(Byte), Part(Incoming', Incoming, 0),
           UNCHANGED <<rxBuf, txRequest, results>>, rxLength' \in {-1, rxLength},
           sockOut' \in Seq(Byte),
           \A i \in 1..Len(sockOut') : sockOut'[i][1] = txRequest,
           txRequest # 0 /\ results[txRequest].kind \in {"answer", "overflow"} => sockOut' = <<>> /\ txCounter' = RequestSize
    PROVE  OnlyLatest'
<1>1. /\ Len(Incoming') \in Nat /\ Len(Incoming) \in Nat /\ Incoming \in Seq(Byte)
    BY Typed, LenProperties
<1>2. Len(Incoming') <= Len(Incoming) /\ \A i \in 1..Len(Incoming') : Incoming'[i] = Incoming[i + 0]
    BY <1>1 DEF Part
<1>3. \A i \in 1..Len(Incoming') : i \in 1..Len(Incoming) /\ i + 0 = i
    BY <1>1, <1>2
<1>4. \A i \in 1..Len(Incoming') : Incoming'[i] = <<txRequest, i>>
    BY <1>2, <1>3 DEF OnlyLatest
<1>5. Incoming = <<>> => Incoming' = <<>>
    BY <1>1, <1>2
<1>6. (rxLength' > 0 => rxLength' = rxLength) /\ (rxLength <= 0 => rxLength' <= 0)
    BY Typed
<1> QED
    BY <1>4, <1>5, <1>6 DEF OnlyLatest

LEMMA Shorter ==
    ASSUME NEW u \in Seq(Byte), NEW s \in Seq(Byte), NEW t \in Seq(Byte), Part(t, s, 0)
    PROVE  u \o t \in Seq(Byte) /\ Part(u \o t, u \o s, 0)
<1> DEFINE ut == u \o t
           us == u \o s
<1>1. /\ ut \in Seq(Byte) /\ Len(ut) = Len(u) + Len(t)
      /\ us \in Seq(Byte) /\ Len(us) = Len(u) + Len(s)
      /\ Len(u) \in Nat /\ Len(t) \in Nat /\ Len(s) \in Nat
      /\ \A i \in 1..Len(u) : us[i] = u[i]
      /\ \A i \in 1..Len(s) : us[Len(u) + i] = s[i]
      /\ \A i \in 1..Len(ut) : \/ i \in 1..Len(u) /\ ut[i] = u[i]
                               \/ i - Len(u) \in 1..Len(t) /\ ut[i] = t[i - Len(u)]
    BY Joined
<1> HIDE DEF ut, us
<1>2. Len(t) <= Len(s) /\ \A i \in 1..Len(t) : i \in 1..Len(s) /\ t[i] = s[i]
  <2>1. Len(t) + 0 <= Len(s) /\ \A i \in 1..Len(t) : t[i] = s[i + 0]
      BY DEF Part
  <2>2. \A i \in 1..Len(t) : i + 0 = i
      BY <1>1
  <2> QED
      BY <1>1, <2>1, <2>2
<1>3. ASSUME NEW i \in 1..Len(ut) PROVE ut[i] = us[i]
  <2>1. CASE i \in 1..Len(u) /\ ut[i] = u[i]
      BY <1>1, <2>1
  <2>2. CASE i - Len(u) \in 1..Len(t) /\ ut[i] = t[i - Len(u)]
    <3>1. Len(u) + (i - Len(u)) = i
        BY <1>1
    <3>2. t[i - Len(u)] = s[i - Len(u)] /\ us[Len(u) + (i - Len(u))] = s[i - Len(u)]
        BY <1>1, <1>2, <2>2
    <3> QED
        BY <2>2, <3>1, <3>2
  <2> QED
      BY <1>1, <2>1, <2>2
<1>4. \A i \in 1..Len(ut) : ut[i] = us[i + 0]
  <2>1. \A i \in 1..Len(ut) : i + 0 = i
      BY <1>1
  <2> QED
      BY <1>3, <2>1
<1>5. Len(ut) + 0 <= Len(us)
    BY <1>1, <1>2
<1>6. Part(ut, us, 0)
    BY <1>4, <1>5 DEF Part
<1> QED
    BY <1>1, <1>6 DEF ut, us

LEMMA NothingPart ==
    ASSUME NEW s \in Seq(Byte)
    PROVE  <<>> \in Seq(Byte) /\ Part(<<>>, s, 0) /\ Framed(<<>>) /\ Whole(<<>>)
<1>1. Len(<<>>) = 0 /\ Len(s) \in Nat /\ \A i \in 1..Len(<<>>) : FALSE
    BY LenProperties
<1>2. Framed(<<>>) /\ Whole(<<>>)
    BY <1>1 DEF Framed, Whole
<1>3. Part(<<>>, s, 0)
    BY <1>1 DEF Part
<1> QED
    BY <1>2, <1>3

\* do_connect.
LEMMA ConnectStep == ASSUME IInv, Connect PROVE IInv'
<1> USE DEF IInv
<1>1. UNCHANGED <<sockIn, sockOut, breaks, rxVars, torn, txRequest, txCounter, waiting, results>>
    BY DEF Connect
<1>2. TypeOK' /\ ConnectionOK' /\ Retries'
    BY DEF Connect, rxVars, TypeOK, ConnectionOK, Retries
<1>3. CallOK' /\ OwnAnswer' /\ ErrorAfterTimeout' /\ (Fresh' => Fresh)
    BY <1>1, CallKept, ResultsKept
<1>4. Incoming' = Incoming
    BY <1>1 DEF rxVars, Incoming
<1>5. AnsweredOnce' /\ Latest(Incoming, txRequest)' /\ Queued(sockOut, txRequest, txCounter)'
    BY <1>1, <1>4 DEF AnsweredOnce, Of
<1>6. InStep'
  <2>1. ASSUME ~torn PROVE Incoming = <<>>
    <3>1. sockIn = <<>> /\ rxBuf = <<>>
        BY <2>1 DEF Connect, ConnectionOK, InStep
    <3> QED
        BY <3>1 DEF Incoming
  <2>2. Framed(<<>>) /\ Whole(<<>>)
      BY NothingPart, Typed
  <2> QED
      BY <1>1, <1>4, <2>1, <2>2 DEF InStep, rxVars, Connect
<1>7. OnlyLatest => OnlyLatest'
    BY <1>1, <1>4 DEF OnlyLatest, rxVars
<1>8. StuckOnlyIfTorn'
    BY <1>1 DEF StuckOnlyIfTorn, Room, rxVars
<1> QED
    BY <1>2, <1>3, <1>5, <1>6, <1>7, <1>8

LEMMA ConnectFailsStep == ASSUME IInv, ConnectFails PROVE IInv'
<1> USE DEF IInv
<1>1. UNCHANGED <<state, peerOpen, sockIn, sockOut, rxBuf, rxLength, torn, txRequest, txCounter, waiting, results>>
    BY DEF ConnectFails, netVars, rxVars
<1>2. TypeOK' /\ ConnectionOK' /\ Retries'
    BY DEF ConnectFails, netVars, rxVars, TypeOK, ConnectionOK, Retries
<1>3. CallOK' /\ OwnAnswer' /\ ErrorAfterTimeout' /\ (Fresh' => Fresh)
    BY <1>1, CallKept, ResultsKept
<1>4. Incoming' = Incoming
    BY <1>1 DEF Incoming
<1>5. AnsweredOnce' /\ Latest(Incoming, txRequest)' /\ Queued(sockOut, txRequest, txCounter)'
    BY <1>1, <1>4 DEF AnsweredOnce, Of
<1>6. InStep'
    BY <1>1, <1>4 DEF InStep
<1>7. OnlyLatest => OnlyLatest'
    BY <1>1, <1>4 DEF OnlyLatest
<1>8. StuckOnlyIfTorn'
    BY <1>1 DEF StuckOnlyIfTorn, Room
<1> QED
    BY <1>2, <1>3, <1>5, <1>6, <1>7, <1>8

\* emb_client_wait_timeout.
LEMMA WaitTimeoutStep == ASSUME IInv, WaitTimeout PROVE IInv'
<1> USE DEF IInv
<1> DEFINE r == [kind |-> "timeout", of |-> 0]
<1>1. /\ UNCHANGED <<state, timer, writeEvent, unattended, peerOpen, sockIn, sockOut, breaks,
                     rxBuf, rxLength, torn, txRequest, txCounter>>
      /\ waiting /\ Told(r)
    BY DEF WaitTimeout, sockVars, netVars, rxVars, Told
<1>2. r \in Outcome /\ r.kind = "timeout"
    BY DEF Outcome
<1> HIDE DEF r
<1>3. /\ waiting' \in BOOLEAN /\ results' \in [Requests -> Outcome]
      /\ CallOK' /\ OwnAnswer' /\ ErrorAfterTimeout' /\ (Fresh' => Fresh)
      /\ results'[txRequest] = r
      /\ \A j \in 1..(txRequest - 1) : results'[j] = results[j]
    BY <1>1, <1>2, CallTold
<1>4. TypeOK' /\ ConnectionOK' /\ Retries'
    BY <1>1, <1>3 DEF TypeOK, ConnectionOK, Retries
<1>5. Incoming' = Incoming
    BY <1>1 DEF Incoming
<1>6. AnsweredOnce' /\ Latest(Incoming, txRequest)' /\ Queued(sockOut, txRequest, txCounter)'
    BY <1>1, <1>5 DEF AnsweredOnce, Of
<1>7. InStep' /\ StuckOnlyIfTorn'
    BY <1>1, <1>5 DEF InStep, StuckOnlyIfTorn, Room
<1>8. OnlyLatest => OnlyLatest'
    BY <1>1, <1>2, <1>3, <1>5 DEF OnlyLatest
<1> QED
    BY <1>3, <1>4, <1>6, <1>7, <1>8

\* Losing the connection, and what is on its way with it.
LEMMA PrefixKept ==
    ASSUME TypeOK, NEW t \in Nat, Latest(Incoming, t), rxBuf' = rxBuf,
           sockIn' \in Seq(Byte), Part(sockIn', sockIn, 0)
    PROVE  /\ Incoming' \in Seq(Byte) /\ Part(Incoming', Incoming, 0)
           /\ Latest(Incoming', t)
           /\ Of(Incoming', t) => Of(Incoming, t)
           /\ Framed(Incoming) => Framed(Incoming')
<1>1. /\ rxBuf \in Seq(Byte) /\ sockIn \in Seq(Byte) /\ Incoming \in Seq(Byte)
    BY Typed
<1>2. rxBuf \o sockIn' \in Seq(Byte) /\ Part(rxBuf \o sockIn', rxBuf \o sockIn, 0)
    BY <1>1, Shorter
<1>3. Incoming' = rxBuf \o sockIn' /\ Incoming = rxBuf \o sockIn
    BY DEF Incoming
<1>4. Incoming' \in Seq(Byte) /\ Part(Incoming', Incoming, 0)
    BY <1>2, <1>3
<1>5. Latest(Incoming', t)
    BY <1>1, <1>4, LatestPart
<1>6. Of(Incoming', t) => Of(Incoming, t)
    BY <1>1, <1>4, OfPart
<1>7. Framed(Incoming) => Framed(Incoming')
    BY <1>1, <1>4, FramedPart
<1> QED
    BY <1>4, <1>5, <1>6, <1>7

LEMMA LoseKept ==
    ASSUME IInv, LoseConnection, rxBuf' = rxBuf, rxLength' \in {-1, rxLength}
    PROVE  /\ {writeEvent', peerOpen', torn', unattended'} \subseteq BOOLEAN
           /\ state' \in {"disconnected", "connected"} /\ timer' \in {"none", "first", "reconnect"}
           /\ breaks' \in 0..MaxBreaks
           /\ sockIn' \in Seq(Byte) /\ Part(sockIn', sockIn, 0) /\ sockOut' = <<>>
           /\ ConnectionOK' /\ InStep' /\ StuckOnlyIfTorn' /\ Retries'
<1> USE DEF IInv
<1>1. /\ state' = "disconnected" /\ timer' = "reconnect" /\ peerOpen' = FALSE /\ writeEvent' = FALSE
      /\ sockIn' = <<>> /\ sockOut' = <<>> /\ unattended' = unattended /\ breaks' = breaks
    BY DEF LoseConnection
<1>2. torn \in BOOLEAN /\ torn' \in BOOLEAN /\ (~torn' => ~torn /\ rxBuf = <<>>)
    BY DEF LoseConnection, TypeOK
<1>3. sockIn' \in Seq(Byte) /\ Part(sockIn', sockIn, 0) /\ Framed(<<>>)
    BY <1>1, NothingPart, Typed
<1>5. InStep'
  <2>1. ASSUME ~torn' PROVE Incoming' = <<>> /\ rxBuf' = <<>>
    <3>1. rxBuf' = <<>> /\ sockIn' = <<>>
        BY <1>1, <1>2, <2>1
    <3> QED
        BY <3>1 DEF Incoming
  <2> QED
      BY <1>1, <1>3, <2>1 DEF InStep
<1>6. StuckOnlyIfTorn'
  <2>1. Room' = Room /\ Room \in Nat
      BY Typed, Sizes DEF Room
  <2>2. ~(-1 > Room)
      BY <2>1
  <2> QED
      BY <1>2, <2>1, <2>2 DEF StuckOnlyIfTorn
<1>7. ConnectionOK' /\ Retries'
    BY <1>1 DEF ConnectionOK, Retries
<1>8. unattended \in BOOLEAN /\ breaks \in 0..MaxBreaks
    BY DEF TypeOK
<1> QED
    BY <1>1, <1>2, <1>3, <1>5, <1>6, <1>7, <1>8

LEMMA ReadEndStep == ASSUME IInv, ReadEnd PROVE IInv'
<1> USE DEF IInv
<1>1. /\ LoseConnection /\ UNCHANGED <<rxBuf, txRequest, txCounter, waiting, results>>
      /\ rxLength' \in {-1, rxLength} /\ rxLength' \in Int
    BY Typed DEF ReadEnd
<1>2. /\ {writeEvent', peerOpen', torn', unattended'} \subseteq BOOLEAN
      /\ state' \in {"disconnected", "connected"} /\ timer' \in {"none", "first", "reconnect"}
      /\ breaks' \in 0..MaxBreaks
      /\ sockIn' \in Seq(Byte) /\ Part(sockIn', sockIn, 0) /\ sockOut' = <<>>
      /\ ConnectionOK' /\ InStep' /\ StuckOnlyIfTorn' /\ Retries'
    BY <1>1, LoseKept
<1>3. CallOK' /\ OwnAnswer' /\ ErrorAfterTimeout' /\ (Fresh' => Fresh)
    BY <1>1, CallKept, ResultsKept
<1>4. sockOut' \in Seq(Byte)
    BY <1>2
<1>5. TypeOK'
    BY <1>1, <1>2, <1>4 DEF TypeOK, Byte
<1>6. /\ Incoming' \in Seq(Byte) /\ Part(Incoming', Incoming, 0)
      /\ Latest(Incoming', txRequest) /\ (Of(Incoming', txRequest) => Of(Incoming, txRequest))
    BY <1>1, <1>2, PrefixKept, Typed
<1>7. AnsweredOnce'
    BY <1>1, <1>2, <1>6 DEF AnsweredOnce
<1>8. Queued(sockOut, txRequest, txCounter)'
    BY <1>2, QueuedNothing
<1>9. OnlyLatest => OnlyLatest'
  <2>1. \A i \in 1..Len(sockOut') : sockOut'[i][1] = txRequest
      BY <1>2
  <2> QED
      BY <1>1, <1>2, <1>4, <1>6, <2>1, LatestKept DEF OnlyLatest
<1>10. Latest(Incoming, txRequest)'
    BY <1>1, <1>6
<1> QED
    BY <1>2, <1>3, <1>5, <1>7, <1>8, <1>9, <1>10

\* The network.
LEMMA BreakStep == ASSUME IInv, Break PROVE IInv'
<1> USE DEF IInv
<1>1. /\ UNCHANGED <<state, timer, writeEvent, unattended, rxBuf, rxLength, torn,
                     txRequest, txCounter, waiting, results>>
      /\ peerOpen /\ peerOpen' = FALSE /\ sockOut' = <<>> /\ breaks < MaxBreaks /\ breaks' = breaks + 1
    BY DEF Break, sockVars, rxVars
<1>2. sockIn' \in Seq(Byte) /\ Part(sockIn', sockIn, 0)
  <2>1. PICK n \in 0..Len(sockIn) : sockIn' = SubSeq(sockIn, 1, n)
      BY DEF Break
  <2>2. sockIn \in Seq(Byte) /\ Len(sockIn) \in Nat
      BY Typed
  <2>3. n \in Nat /\ n <= Len(sockIn)
      BY <2>2
  <2>4. /\ sockIn' \in Seq(Byte) /\ Len(sockIn') = n
        /\ \A i \in 1..n : sockIn'[i] = sockIn[i]
      BY <2>1, <2>2, <2>3, Suffix
  <2>5. \A i \in 1..n : i + 0 = i
      OBVIOUS
  <2>6. n + 0 <= Len(sockIn) /\ \A i \in 1..Len(sockIn') : sockIn'[i] = sockIn[i + 0]
      BY <2>3, <2>4, <2>5
  <2> QED
      BY <2>4, <2>6 DEF Part
<1>3. /\ Incoming' \in Seq(Byte) /\ Part(Incoming', Incoming, 0)
      /\ Latest(Incoming, txRequest)'
      /\ Of(Incoming', txRequest) => Of(Incoming, txRequest)
      /\ Framed(Incoming) => Framed(Incoming')
    BY <1>1, <1>2, PrefixKept, Typed
<1>4. CallOK' /\ OwnAnswer' /\ ErrorAfterTimeout' /\ (Fresh' => Fresh)
    BY <1>1, CallKept, ResultsKept
<1>5. TypeOK'
  <2>1. breaks \in 0..MaxBreaks /\ MaxBreaks \in Nat
      BY SizesAssumption DEF TypeOK, SizesAssumption
  <2>2. breaks' \in 0..MaxBreaks
      BY <1>1, <2>1
  <2>3. sockOut' \in Seq(Byte)
      BY <1>1
  <2> QED
      BY <1>1, <1>2, <2>2, <2>3 DEF TypeOK, Byte
<1>6. ConnectionOK' /\ Retries'
    BY <1>1 DEF ConnectionOK, Retries
<1>7. AnsweredOnce'
    BY <1>1, <1>3 DEF AnsweredOnce
<1>8. Queued(sockOut, txRequest, txCounter)'
    BY <1>1, QueuedNothing
<1>9. InStep' /\ StuckOnlyIfTorn'
    BY <1>1, <1>3, <1>6 DEF InStep, StuckOnlyIfTorn, Room, ConnectionOK
<1>10. OnlyLatest => OnlyLatest'
  <2>1. \A i \in 1..Len(sockOut') : sockOut'[i][1] = txRequest
      BY <1>1
  <2>2. sockOut' \in Seq(Byte)
      BY <1>1
  <2> QED
      BY <1>1, <1>3, <2>1, <2>2, LatestKept DEF OnlyLatest
<1> QED
    BY <1>3, <1>4, <1>5, <1>6, <1>7, <1>8, <1>9, <1>10

\* The server takes a request,
LEMMA Taken ==
    ASSUME IInv, NEW k \in Requests, TakeRequest(k)
    PROVE  /\ sockOut' \in Seq(Byte) /\ Queued(sockOut', txRequest, txCounter)
           /\ k <= txRequest /\ ~Of(Incoming, txRequest)
           /\ (k = txRequest => txCounter = RequestSize /\ sockOut' = <<>>)
           /\ OnlyLatest => /\ k = txRequest /\ results[txRequest].kind \notin {"answer", "overflow"}
                            /\ Incoming = <<>> /\ sockOut' = <<>>
<1> USE DEF IInv
<1>1. /\ sockOut \in Seq(Byte) /\ txRequest \in Nat /\ txCounter \in 0..RequestSize
      /\ Incoming \in Seq(Byte) /\ Len(Incoming) \in Nat /\ Len(sockOut) \in Nat
      /\ k \in Nat /\ k # 0 /\ RequestSize > 0 /\ RequestSize \in Nat
    BY Typed, Sizes, LenProperties
<1>2. LET rest == SubSeq(sockOut, RequestSize + 1, Len(sockOut)) IN
      /\ rest \in Seq(Byte) /\ Queued(rest, txRequest, txCounter)
      /\ sockOut # <<>> /\ k <= txRequest /\ sockOut[1][1] = k
      /\ \A i \in 1..Len(rest) : \E j \in 1..Len(sockOut) : rest[i] = sockOut[j]
      /\ k = txRequest => txCounter = RequestSize /\ rest = <<>>
    BY <1>1, QueuedTaken DEF TakeRequest
<1>3. sockOut' = SubSeq(sockOut, RequestSize + 1, Len(sockOut))
    BY DEF TakeRequest
<1>4. ~Of(Incoming, txRequest)
    BY <1>2 DEF AnsweredOnce
<1>5. ASSUME OnlyLatest
      PROVE  /\ k = txRequest /\ results[txRequest].kind \notin {"answer", "overflow"} /\ Incoming = <<>>
  <2>1. 1 \in 1..Len(sockOut)
      BY <1>1 DEF TakeRequest
  <2>2. k = txRequest
      BY <1>2, <1>5, <2>1 DEF OnlyLatest
  <2>3. results[txRequest].kind \notin {"answer", "overflow"}
      BY <1>1, <1>2, <1>5, <2>2 DEF OnlyLatest
  <2>4. ASSUME Len(Incoming) # 0 PROVE FALSE
    <3>1. 1 \in 1..Len(Incoming)
        BY <1>1, <2>4
    <3>2. Incoming[1] = <<txRequest, 1>>
        BY <1>5, <3>1 DEF OnlyLatest
    <3>3. Incoming[1][1] = txRequest
        BY <3>2
    <3> QED
        BY <1>4, <3>1, <3>3 DEF Of
  <2> QED
      BY <1>1, <2>2, <2>3, <2>4
<1> QED
    BY <1>2, <1>3, <1>4, <1>5

\* and ignores it,
LEMMA IgnoreStep == ASSUME IInv, NEW k \in Requests, Ignore(k) PROVE IInv'
<1> USE DEF IInv
<1>1. /\ UNCHANGED <<state, timer, writeEvent, unattended, peerOpen, sockIn, breaks, rxBuf, rxLength,
                     torn, txRequest, txCounter, waiting, results>>
      /\ TakeRequest(k)
    BY DEF Ignore, sockVars, rxVars
<1>2. /\ sockOut' \in Seq(Byte) /\ Queued(sockOut', txRequest, txCounter)
      /\ ~Of(Incoming, txRequest)
      /\ OnlyLatest => sockOut' = <<>> /\ results[txRequest].kind \notin {"answer", "overflow"}
    BY <1>1, Taken
<1>3. Incoming' = Incoming
    BY <1>1 DEF Incoming
<1>4. TypeOK' /\ ConnectionOK' /\ Retries'
    BY <1>1, <1>2 DEF TypeOK, Byte, ConnectionOK, Retries
<1>5. CallOK' /\ OwnAnswer' /\ ErrorAfterTimeout' /\ (Fresh' => Fresh)
    BY <1>1, CallKept, ResultsKept
<1>6. AnsweredOnce' /\ Latest(Incoming, txRequest)' /\ Queued(sockOut, txRequest, txCounter)'
    BY <1>1, <1>2, <1>3 DEF AnsweredOnce
<1>7. InStep' /\ StuckOnlyIfTorn'
    BY <1>1, <1>3 DEF InStep, StuckOnlyIfTorn, Room
<1>8. OnlyLatest => OnlyLatest'
  <2>1. ASSUME OnlyLatest PROVE \A i \in 1..Len(sockOut') : sockOut'[i][1] = txRequest
      BY <1>2, <2>1
  <2> QED
      BY <1>1, <1>2, <1>3, <2>1 DEF OnlyLatest
<1> QED
    BY <1>4, <1>5, <1>6, <1>7, <1>8

\* or answers it.
LEMMA ServeStep == ASSUME IInv, NEW k \in Requests, Serve(k) PROVE IInv'
<1> USE DEF IInv
<1> DEFINE more == Incoming \o Answer(k)
<1>1. /\ UNCHANGED <<state, timer, writeEvent, unattended, peerOpen, breaks, rxBuf, rxLength,
                     torn, txRequest, txCounter, waiting, results>>
      /\ TakeRequest(k) /\ sockIn' = sockIn \o Answer(k) /\ peerOpen
    BY DEF Serve, sockVars, rxVars, TakeRequest
<1>2. /\ sockOut' \in Seq(Byte) /\ Queued(sockOut', txRequest, txCounter)
      /\ k <= txRequest /\ ~Of(Incoming, txRequest)
      /\ (k = txRequest => txCounter = RequestSize /\ sockOut' = <<>>)
      /\ OnlyLatest => /\ k = txRequest /\ results[txRequest].kind \notin {"answer", "overflow"}
                       /\ Incoming = <<>> /\ sockOut' = <<>>
    BY <1>1, Taken
<1>3. /\ rxBuf \in Seq(Byte) /\ sockIn \in Seq(Byte) /\ Answer(k) \in Seq(Byte)
      /\ Incoming \in Seq(Byte) /\ txRequest \in Nat /\ k \in Nat
    BY Typed, Frames, Sizes
<1>4. Incoming' = more
  <2>1. rxBuf \o (sockIn \o Answer(k)) = (rxBuf \o sockIn) \o Answer(k)
      BY <1>3, JoinedTwice
  <2> QED
      BY <1>1, <2>1 DEF Incoming
<1>5. sockIn' \in Seq(Byte) /\ more \in Seq(Byte)
    BY <1>1, <1>3, Joined
<1>6. Latest(more, txRequest) /\ (Of(more, txRequest) => k = txRequest)
    BY <1>2, <1>3, LatestAnswer
<1>7. TypeOK' /\ ConnectionOK' /\ Retries'
    BY <1>1, <1>2, <1>5 DEF TypeOK, Byte, ConnectionOK, Retries
<1>8. CallOK' /\ OwnAnswer' /\ ErrorAfterTimeout' /\ (Fresh' => Fresh)
    BY <1>1, CallKept, ResultsKept
<1> HIDE DEF more
<1>9. AnsweredOnce' /\ Latest(Incoming, txRequest)' /\ Queued(sockOut, txRequest, txCounter)'
    BY <1>1, <1>2, <1>4, <1>6 DEF AnsweredOnce
<1>10. InStep' /\ StuckOnlyIfTorn'
  <2>1. ~torn => Framed(more) /\ Whole(more)
      BY <1>1, <1>3, FramedAnswer DEF InStep, more
  <2> QED
      BY <1>1, <1>4, <2>1 DEF InStep, StuckOnlyIfTorn, Room
<1>11. OnlyLatest => OnlyLatest'
  <2>1. ASSUME OnlyLatest
        PROVE  /\ \A i \in 1..Len(Incoming') : Incoming'[i] = <<txRequest, i>>
               /\ \A i \in 1..Len(sockOut') : sockOut'[i][1] = txRequest
    <3>1. Incoming = <<>> /\ k = txRequest /\ sockOut' = <<>>
        BY <1>2, <2>1
    <3>2. Incoming' = Answer(k)
        BY <1>3, <1>4, <3>1 DEF more
    <3>3. Len(Answer(k)) = AnswerSize[k] /\ \A i \in 1..AnswerSize[k] : Answer(k)[i] = <<k, i>>
        BY Frames
    <3> QED
        BY <3>1, <3>2, <3>3
  <2> QED
      BY <1>1, <1>2, <2>1 DEF OnlyLatest
<1> QED
    BY <1>7, <1>8, <1>9, <1>10, <1>11

\* What does not fit is thrown away: only after an answer was torn, and then not
\* while the latest answer is alone on its way.
LEMMA DiscardFrameStep == ASSUME IInv, DiscardFrame PROVE IInv'
<1> USE DEF IInv
<1>1. /\ UNCHANGED <<state, timer, writeEvent, unattended, peerOpen, sockIn, sockOut, breaks, rxLength,
                     torn, txRequest, txCounter, waiting, results>>
      /\ rxBuf' = <<>> /\ Room < rxLength
    BY DEF DiscardFrame, sockVars, netVars
<1>2. /\ rxBuf \in Seq(Byte) /\ sockIn \in Seq(Byte) /\ Incoming \in Seq(Byte)
      /\ Len(rxBuf) \in Nat /\ Len(sockIn) \in Nat /\ Len(rxBuf) < RxBufSize /\ RxBufSize \in Nat
      /\ rxLength \in Int /\ Room \in Int /\ Room = RxBufSize - Len(rxBuf) /\ txRequest \in Nat
      /\ txRequest # 0 => txRequest \in Requests
    BY Typed, Sizes DEF Room
<1>3. torn
    BY <1>1, <1>2 DEF StuckOnlyIfTorn
<1>4. ~OnlyLatest
  <2>1. rxLength > 0
      BY <1>1, <1>2
  <2>2. ASSUME OnlyLatest PROVE FALSE
    <3>1. txRequest \in Requests /\ rxLength = AnswerSize[txRequest] - Len(rxBuf)
        BY <1>2, <2>1, <2>2 DEF OnlyLatest
    <3>2. AnswerSize[txRequest] \in Nat /\ AnswerSize[txRequest] <= RxBufSize
        BY <3>1, Sizes
    <3> QED
        BY <1>1, <1>2, <3>1, <3>2
  <2> QED
      BY <2>2
<1>5. Incoming' = sockIn
    BY <1>1, <1>2 DEF Incoming
<1>6. Part(sockIn, Incoming, Len(rxBuf))
  <2>1. /\ Len(Incoming) = Len(rxBuf) + Len(sockIn)
        /\ \A i \in 1..Len(sockIn) : Incoming[Len(rxBuf) + i] = sockIn[i]
      BY <1>2, Joined DEF Incoming
  <2>2. \A i \in 1..Len(sockIn) : Len(rxBuf) + i = i + Len(rxBuf)
      BY <1>2
  <2>3. Len(sockIn) + Len(rxBuf) <= Len(Incoming)
      BY <1>2, <2>1
  <2> QED
      BY <2>1, <2>2, <2>3 DEF Part
<1>7. /\ Latest(sockIn, txRequest)
      /\ Of(sockIn, txRequest) => Of(Incoming, txRequest)
    BY <1>2, <1>6, LatestPart, OfPart
<1>8. TypeOK' /\ ConnectionOK' /\ Retries'
  <2>1. rxBuf' \in Seq(Byte) /\ Len(rxBuf') < RxBufSize
      BY <1>1, Sizes
  <2> QED
      BY <1>1, <2>1 DEF TypeOK, Byte, ConnectionOK, Retries
<1>9. CallOK' /\ OwnAnswer' /\ ErrorAfterTimeout' /\ (Fresh' => Fresh)
    BY <1>1, CallKept, ResultsKept
<1>10. AnsweredOnce' /\ Latest(Incoming, txRequest)' /\ Queued(sockOut, txRequest, txCounter)'
    BY <1>1, <1>5, <1>7 DEF AnsweredOnce
<1>11. InStep' /\ StuckOnlyIfTorn'
    BY <1>1, <1>3 DEF InStep, StuckOnlyIfTorn
<1> QED
    BY <1>4, <1>8, <1>9, <1>10, <1>11

\* write_to_port: bytes of request k are sent after those of the ones before, or
\* the connection is lost.
LEMMA Written ==
    ASSUME IInv, NEW k, NEW from \in 0..RequestSize, NEW pending \in BOOLEAN,
           Queued(sockOut, k, from), from < RequestSize => k \in Requests,
           WriteRest(k, from, pending), UNCHANGED rxVars
    PROVE  /\ {writeEvent', peerOpen', torn', unattended'} \subseteq BOOLEAN
           /\ state' \in {"disconnected", "connected"} /\ timer' \in {"none", "first", "reconnect"}
           /\ breaks' \in 0..MaxBreaks /\ txCounter' \in 0..RequestSize
           /\ sockIn' \in Seq(Byte) /\ Part(sockIn', sockIn, 0) /\ sockOut' \in Seq(Byte)
           /\ Queued(sockOut', k, txCounter')
           /\ \A i \in 1..Len(sockOut') :
                 sockOut'[i][1] = k \/ \E j \in 1..Len(sockOut) : sockOut'[i] = sockOut[j]
           /\ from = RequestSize => txCounter' = from /\ sockOut' = sockOut
           /\ ConnectionOK' /\ InStep' /\ StuckOnlyIfTorn' /\ Retries'
<1> USE DEF IInv
<1>1. /\ sockOut \in Seq(Byte) /\ sockIn \in Seq(Byte) /\ Len(sockOut) \in Nat /\ Len(sockIn) \in Nat
      /\ RequestSize \in Nat /\ from \in Nat /\ from <= RequestSize
    BY Typed, Sizes
<1>2. UNCHANGED <<rxBuf, rxLength>>
    BY DEF rxVars
<1>3. Part(sockIn, sockIn, 0)
    BY <1>1 DEF Part
<1>4. ASSUME UNCHANGED <<state, timer, unattended, peerOpen, sockIn, breaks, torn>>,
             writeEvent' \in BOOLEAN
      PROVE  /\ {writeEvent', peerOpen', torn', unattended'} \subseteq BOOLEAN
             /\ state' \in {"disconnected", "connected"} /\ timer' \in {"none", "first", "reconnect"}
             /\ breaks' \in 0..MaxBreaks
             /\ sockIn' \in Seq(Byte) /\ Part(sockIn', sockIn, 0)
             /\ ConnectionOK' /\ InStep' /\ StuckOnlyIfTorn' /\ Retries'
  <2>1. Incoming' = Incoming
      BY <1>2, <1>4 DEF Incoming
  <2> QED
      BY <1>1, <1>2, <1>3, <1>4, <2>1
      DEF TypeOK, ConnectionOK, InStep, StuckOnlyIfTorn, Room, Retries
<1>5. CASE /\ state = "connected" /\ from < RequestSize
           /\ \E w \in 1..(RequestSize - from) :
                 /\ txCounter' = from + w
                 /\ sockOut' = IF peerOpen THEN sockOut \o SubSeq(Request(k), from + 1, from + w)
                                           ELSE sockOut
                 /\ writeEvent' = (pending \/ w < RequestSize - from)
           /\ UNCHANGED <<state, timer, unattended, peerOpen, sockIn, breaks, torn>>
  <2>1. PICK w \in 1..(RequestSize - from) :
           /\ txCounter' = from + w
           /\ sockOut' = IF peerOpen THEN sockOut \o SubSeq(Request(k), from + 1, from + w)
                                     ELSE sockOut
           /\ writeEvent' = (pending \/ w < RequestSize - from)
      BY <1>5
  <2>2. w \in Nat \ {0} /\ w \in Nat /\ from + w <= RequestSize /\ k \in Requests /\ from + w \in 0..RequestSize
      BY <1>1, <1>5
  <2> DEFINE piece == SubSeq(Request(k), from + 1, from + w)
  <2>3. /\ Queued(sockOut, k, from + w) /\ Queued(sockOut \o piece, k, from + w)
        /\ sockOut \o piece \in Seq(Byte)
      BY <1>1, <2>2, QueuedMore
  <2>4. piece \in Seq(Byte) /\ Len(piece) = w /\ \A i \in 1..w : piece[i] = <<k, from + i>>
      BY <1>1, <2>2, Piece
  <2> HIDE DEF piece
  <2>5. \A i \in 1..Len(sockOut \o piece) :
           \/ i \in 1..Len(sockOut) /\ (sockOut \o piece)[i] = sockOut[i]
           \/ i - Len(sockOut) \in 1..Len(piece) /\ (sockOut \o piece)[i] = piece[i - Len(sockOut)]
      BY <1>1, <2>4, Joined
  <2>6. ASSUME NEW i \in 1..Len(sockOut \o piece)
        PROVE  (sockOut \o piece)[i][1] = k \/ \E j \in 1..Len(sockOut) : (sockOut \o piece)[i] = sockOut[j]
    <3>1. CASE i \in 1..Len(sockOut) /\ (sockOut \o piece)[i] = sockOut[i]
        BY <3>1
    <3>2. CASE i - Len(sockOut) \in 1..w /\ (sockOut \o piece)[i] = piece[i - Len(sockOut)]
      <4>1. (sockOut \o piece)[i] = <<k, from + (i - Len(sockOut))>>
          BY <2>4, <3>2
      <4> QED
          BY <4>1
    <3> QED
        BY <2>4, <2>5, <3>1, <3>2
  <2>7. writeEvent' \in BOOLEAN
      BY <2>1
  <2>8. \/ sockOut' = sockOut
        \/ sockOut' = sockOut \o piece
      BY <2>1 DEF piece
  <2>9. /\ sockOut' \in Seq(Byte) /\ Queued(sockOut', k, txCounter') /\ txCounter' \in 0..RequestSize
        /\ \A i \in 1..Len(sockOut') :
              sockOut'[i][1] = k \/ \E j \in 1..Len(sockOut) : sockOut'[i] = sockOut[j]
    <3>1. CASE sockOut' = sockOut
        BY <1>1, <2>1, <2>2, <2>3, <3>1
    <3>2. CASE sockOut' = sockOut \o piece
        BY <2>1, <2>2, <2>3, <2>6, <3>2
    <3> QED
        BY <2>8, <3>1, <3>2
  <2>10. from # RequestSize
      BY <1>1, <1>5
  <2>11. UNCHANGED <<state, timer, unattended, peerOpen, sockIn, breaks, torn>>
      BY <1>5
  <2> QED
      BY <1>4, <2>7, <2>9, <2>10, <2>11, Zenon
<1>6. CASE state = "connected" /\ from < RequestSize /\ ~peerOpen /\ txCounter' = from /\ LoseConnection
  <2>1. /\ {writeEvent', peerOpen', torn', unattended'} \subseteq BOOLEAN
        /\ state' \in {"disconnected", "connected"} /\ timer' \in {"none", "first", "reconnect"}
        /\ breaks' \in 0..MaxBreaks
        /\ sockIn' \in Seq(Byte) /\ Part(sockIn', sockIn, 0) /\ sockOut' = <<>>
        /\ ConnectionOK' /\ InStep' /\ StuckOnlyIfTorn' /\ Retries'
      BY <1>2, <1>6, LoseKept
  <2>2. Queued(sockOut', k, txCounter')
      BY <2>1, QueuedNothing
  <2>3. sockOut' \in Seq(Byte) /\ \A i \in 1..Len(sockOut') : FALSE
      BY <2>1
  <2> QED
      BY <1>1, <1>6, <2>1, <2>2, <2>3
<1>7. CASE /\ txCounter' = from /\ writeEvent' = pending
           /\ UNCHANGED <<state, timer, unattended, netVars, torn>>
  <2>1. UNCHANGED <<state, timer, unattended, peerOpen, sockIn, sockOut, breaks, torn>>
      BY <1>7 DEF netVars
  <2>2. \A i \in 1..Len(sockOut') : \E j \in 1..Len(sockOut) : sockOut'[i] = sockOut[j]
      BY <2>1
  <2> QED
      BY <1>1, <1>4, <1>7, <2>1, <2>2
<1> QED
    BY <1>5, <1>6, <1>7 DEF WriteRest

LEMMA OnWritableStep == ASSUME IInv, OnWritable PROVE IInv'
<1> USE DEF IInv
<1> DEFINE t == txRequest
           from == IF t = 0 THEN RequestSize ELSE txCounter
<1>1. /\ UNCHANGED <<rxBuf, rxLength, txRequest, waiting, results>> /\ UNCHANGED rxVars
      /\ WriteRest(t, from, FALSE)
    BY DEF OnWritable, rxVars
<1>2. /\ t \in Nat /\ (t # 0 => t \in Requests) /\ sockOut \in Seq(Byte)
      /\ txCounter \in 0..RequestSize /\ RequestSize \in Nat
    BY Typed, Sizes
<1>3. from \in 0..RequestSize /\ (from < RequestSize => t \in Requests)
    BY <1>2
<1>4. Queued(sockOut, t, from)
  <2>1. CASE t = 0
    <3>1. \A i \in 1..Len(sockOut) : sockOut[i][1] \in Nat /\ sockOut[i][1] # 0
        BY <1>2, Bytes
    <3>2. \A i \in 1..Len(sockOut) : FALSE
        BY <2>1, <3>1 DEF Queued
    <3> QED
        BY <3>2 DEF Queued
  <2>2. CASE t # 0
      BY <2>2
  <2> QED
      BY <2>1, <2>2
<1>5. ASSUME Of(Incoming, t) \/ (t # 0 /\ txCounter = RequestSize) PROVE from = RequestSize
    BY <1>5 DEF AnsweredOnce
<1>6. t # 0 => from = txCounter
    OBVIOUS
<1> HIDE DEF from
<1>7. /\ {writeEvent', peerOpen', torn', unattended'} \subseteq BOOLEAN
      /\ state' \in {"disconnected", "connected"} /\ timer' \in {"none", "first", "reconnect"}
      /\ breaks' \in 0..MaxBreaks /\ txCounter' \in 0..RequestSize
      /\ sockIn' \in Seq(Byte) /\ Part(sockIn', sockIn, 0) /\ sockOut' \in Seq(Byte)
      /\ Queued(sockOut', t, txCounter')
      /\ \A i \in 1..Len(sockOut') :
            sockOut'[i][1] = t \/ \E j \in 1..Len(sockOut) : sockOut'[i] = sockOut[j]
      /\ from = RequestSize => txCounter' = from /\ sockOut' = sockOut
      /\ ConnectionOK' /\ InStep' /\ StuckOnlyIfTorn' /\ Retries'
    BY <1>1, <1>3, <1>4, Written
<1>8. /\ Incoming' \in Seq(Byte) /\ Part(Incoming', Incoming, 0)
      /\ Latest(Incoming', t) /\ (Of(Incoming', t) => Of(Incoming, t))
    BY <1>1, <1>2, <1>7, PrefixKept
<1>9. CallOK' /\ OwnAnswer' /\ ErrorAfterTimeout' /\ (Fresh' => Fresh)
    BY <1>1, CallKept, ResultsKept
<1>10. TypeOK'
    BY <1>1, <1>7 DEF TypeOK, Byte
<1>11. AnsweredOnce'
  <2>1. ASSUME Of(Incoming', t) PROVE txCounter' = RequestSize /\ sockOut' = <<>>
    <3>1. sockOut = <<>> /\ from = RequestSize
        BY <1>5, <1>8, <2>1 DEF AnsweredOnce
    <3> QED
        BY <1>7, <3>1
  <2> QED
      BY <1>1, <2>1 DEF AnsweredOnce
<1>12. ASSUME OnlyLatest PROVE OnlyLatest'
  <2>1. \A i \in 1..Len(sockOut') : sockOut'[i][1] = t
      BY <1>7, <1>12 DEF OnlyLatest
  <2>2. ASSUME t # 0, results[t].kind \in {"answer", "overflow"} PROVE sockOut' = <<>> /\ txCounter' = RequestSize
    <3>1. sockOut = <<>> /\ from = RequestSize
        BY <1>5, <1>12, <2>2 DEF OnlyLatest
    <3> QED
        BY <1>7, <3>1
  <2> QED
      BY <1>1, <1>7, <1>8, <1>12, <2>1, <2>2, LatestKept
<1>13. Latest(Incoming, txRequest)' /\ Queued(sockOut, txRequest, txCounter)'
    BY <1>1, <1>7, <1>8
<1> QED
    BY <1>7, <1>9, <1>10, <1>11, <1>12, <1>13

\* With nothing but the answer to the last request on its way, there is nothing
\* when the next is made.
LEMMA NextAlone ==
    ASSUME IInv, ~waiting, NEW k \in Requests, k = txRequest + 1,
           txRequest' = k, waiting' = TRUE, results' = results,
           UNCHANGED <<rxBuf, rxLength>>,
           Incoming' \in Seq(Byte), Part(Incoming', Incoming, 0), sockOut' \in Seq(Byte),
           \A i \in 1..Len(sockOut') :
              sockOut'[i][1] = k \/ \E j \in 1..Len(sockOut) : sockOut'[i] = sockOut[j]
    PROVE  Fresh' => OnlyLatest'
<1> USE DEF IInv
<1>1. ASSUME Fresh' PROVE OnlyLatest'
  <2>1. Fresh /\ (txRequest # 0 => results[txRequest].kind # "timeout")
      BY <1>1, CallNext
  <2>2. /\ Incoming = <<>> /\ sockOut = <<>> /\ ~(rxLength > 0) /\ rxBuf = <<>>
        /\ \A j \in 1..txRequest : results[j].kind \in {"answer", "overflow"}
      BY <2>1, Idle
  <2>3. txRequest \in Nat /\ k \in Nat /\ k - 1 = txRequest
    <3>1. txRequest \in Nat
        BY Typed
    <3> QED
        BY <3>1
  <2>4. Incoming' = <<>>
    <3>1. Len(Incoming') \in Nat
        BY LenProperties
    <3>2. Len(Incoming') + 0 <= 0
        BY <2>2 DEF Part
    <3> QED
        BY <3>1, <3>2
  <2>5. \A i \in 1..Len(sockOut') : sockOut'[i][1] = k
      BY <2>2
  <2>6. results'[k].kind = "none"
    <3>1. k > txRequest
        BY <2>3
    <3> QED
        BY <3>1 DEF CallOK
  <2>7. \A j \in 1..(txRequest' - 1) : results'[j].kind \in {"answer", "overflow"}
      BY <2>2, <2>3
  <2>8. /\ \A i \in 1..Len(Incoming') : Incoming'[i] = <<txRequest', i>>
        /\ ~(Len(rxBuf') > 0) /\ ~(rxLength' > 0)
      BY <2>2, <2>4
  <2> QED
      BY <2>5, <2>6, <2>7, <2>8 DEF OnlyLatest
<1> QED
    BY <1>1

\* emb_client_do_transaction and modbus_tcp_send_packet.
LEMMA DoTransactionStep == ASSUME IInv, NEW k \in Requests, DoTransaction(k) PROVE IInv'
<1> USE DEF IInv
<1>1. /\ UNCHANGED <<rxBuf, rxLength, results>> /\ UNCHANGED rxVars
      /\ ~waiting /\ k = txRequest + 1 /\ txRequest' = k /\ waiting' = TRUE
      /\ WriteRest(k, 0, writeEvent)
    BY DEF DoTransaction, rxVars
<1>2. /\ txRequest \in Nat /\ sockOut \in Seq(Byte) /\ txCounter \in Nat /\ RequestSize \in Nat
      /\ RequestSize > 0 /\ Incoming \in Seq(Byte) /\ writeEvent \in BOOLEAN /\ k \in Nat
    BY Typed, Sizes DEF TypeOK
<1>3. Queued(sockOut, k, 0)
    BY <1>1, <1>2, QueuedNext
<1>4. Latest(Incoming, k) /\ ~Of(Incoming, k)
    BY <1>1, <1>2, LatestNext
<1>5. 0 \in 0..RequestSize
    BY <1>2
<1>6. /\ {writeEvent', peerOpen', torn', unattended'} \subseteq BOOLEAN
      /\ state' \in {"disconnected", "connected"} /\ timer' \in {"none", "first", "reconnect"}
      /\ breaks' \in 0..MaxBreaks /\ txCounter' \in 0..RequestSize
      /\ sockIn' \in Seq(Byte) /\ Part(sockIn', sockIn, 0) /\ sockOut' \in Seq(Byte)
      /\ Queued(sockOut', k, txCounter')
      /\ \A i \in 1..Len(sockOut') :
            sockOut'[i][1] = k \/ \E j \in 1..Len(sockOut) : sockOut'[i] = sockOut[j]
      /\ ConnectionOK' /\ InStep' /\ StuckOnlyIfTorn' /\ Retries'
    BY <1>1, <1>2, <1>3, <1>5, Written
<1>7. /\ Incoming' \in Seq(Byte) /\ Part(Incoming', Incoming, 0)
      /\ Latest(Incoming', k) /\ ~Of(Incoming', k)
    BY <1>1, <1>2, <1>4, <1>6, PrefixKept
<1>8. CallOK' /\ txRequest' \in {0} \cup Requests /\ waiting' \in BOOLEAN
    BY <1>1, CallNext
<1>9. OwnAnswer' /\ ErrorAfterTimeout'
    BY <1>1, ResultsKept
<1>10. TypeOK'
    BY <1>1, <1>6, <1>8 DEF TypeOK, Byte
<1>11. AnsweredOnce' /\ Latest(Incoming, txRequest)' /\ Queued(sockOut, txRequest, txCounter)'
    BY <1>1, <1>6, <1>7 DEF AnsweredOnce
<1>12. Fresh' => OnlyLatest'
    BY <1>1, <1>6, <1>7, NextAlone
<1> QED
    BY <1>6, <1>8, <1>9, <1>10, <1>11, <1>12

LEMMA ConnectThenLoseStep == ASSUME IInv, NEW k \in Requests, ConnectThenLose(k) PROVE IInv'
<1> USE DEF IInv
<1>1. /\ UNCHANGED <<state, writeEvent, peerOpen, sockIn, sockOut, rxBuf, rxLength, torn, results>>
      /\ ~waiting /\ k = txRequest + 1 /\ txRequest' = k /\ waiting' = TRUE /\ txCounter' = 0
      /\ timer' = "none" /\ unattended' = TRUE /\ breaks < MaxBreaks /\ breaks' = breaks + 1
    BY DEF ConnectThenLose, rxVars
<1>2. /\ txRequest \in Nat /\ sockOut \in Seq(Byte) /\ txCounter \in Nat /\ RequestSize \in Nat
      /\ Incoming \in Seq(Byte) /\ k \in Nat /\ Len(Incoming) \in Nat
    BY Typed, Sizes, LenProperties
<1>3. Queued(sockOut, k, 0)
    BY <1>1, <1>2, QueuedNext
<1>4. Latest(Incoming, k) /\ ~Of(Incoming, k)
    BY <1>1, <1>2, LatestNext
<1>5. Incoming' = Incoming /\ Part(Incoming, Incoming, 0)
  <2>1. Incoming' = Incoming
      BY <1>1 DEF Incoming
  <2>2. \A i \in 1..Len(Incoming) : i + 0 = i
      BY <1>2
  <2> QED
      BY <1>2, <2>1, <2>2 DEF Part
<1>6. CallOK' /\ txRequest' \in {0} \cup Requests /\ waiting' \in BOOLEAN
    BY <1>1, CallNext
<1>7. OwnAnswer' /\ ErrorAfterTimeout'
    BY <1>1, ResultsKept
<1>8. TypeOK'
  <2>1. breaks \in 0..MaxBreaks /\ MaxBreaks \in Nat
      BY SizesAssumption DEF TypeOK, SizesAssumption
  <2>2. breaks' \in 0..MaxBreaks /\ txCounter' \in 0..RequestSize
      BY <1>1, <1>2, <2>1
  <2> QED
      BY <1>1, <1>6, <2>2 DEF TypeOK
<1>9. AnsweredOnce' /\ Latest(Incoming, txRequest)' /\ Queued(sockOut, txRequest, txCounter)'
    BY <1>1, <1>3, <1>4, <1>5 DEF AnsweredOnce
<1>10. InStep' /\ StuckOnlyIfTorn' /\ ConnectionOK' /\ Retries'
    BY <1>1, <1>5 DEF InStep, StuckOnlyIfTorn, Room, ConnectionOK, Retries
<1>11. Fresh' => OnlyLatest'
  <2>1. \A i \in 1..Len(sockOut') : \E j \in 1..Len(sockOut) : sockOut'[i] = sockOut[j]
      BY <1>1
  <2> QED
      BY <1>1, <1>2, <1>5, <2>1, NextAlone
<1> QED
    BY <1>6, <1>7, <1>8, <1>9, <1>10, <1>11

\* A step of parse_packet on the first bytes that have come in.
LEMMA Reading ==
    ASSUME IInv, NEW buf \in Seq(Byte), Len(buf) <= RxBufSize, ParsePacket(buf),
           sockIn' \in Seq(Byte), Len(buf) + Len(sockIn') = Len(Incoming),
           \A i \in 1..Len(buf) : buf[i] = Incoming[i],
           \A i \in 1..Len(sockIn') : sockIn'[i] = Incoming[i + Len(buf)],
           UNCHANGED <<state, timer, writeEvent, unattended, peerOpen, sockOut, breaks, txRequest, txCounter>>,
           state = "connected"
    PROVE  IInv'
<1> USE DEF IInv
<1> DEFINE t == txRequest
           n == Len(buf)
<1>1. /\ Incoming \in Seq(Byte) /\ Len(Incoming) \in Nat /\ n \in Nat /\ t \in Nat
      /\ Len(sockIn') \in Nat /\ (t # 0 => t \in Requests) /\ RequestSize \in Nat
    BY Typed, LenProperties, Sizes
<1>2. Part(buf, Incoming, 0)
  <2>1. n + 0 <= Len(Incoming) /\ \A i \in 1..n : i + 0 = i
      BY <1>1
  <2> QED
      BY <2>1 DEF Part
<1>3. Latest(buf, t)
    BY <1>1, <1>2, LatestPart
<1>4. /\ rxBuf' = buf \/ rxBuf' = <<>>
      /\ rxBuf' \in Seq(Byte) /\ Len(rxBuf') < RxBufSize /\ rxLength' \in Int
      /\ torn' \in BOOLEAN /\ (torn => torn')
    BY ParsedTypes
<1>5. Incoming' \in Seq(Byte)
    BY <1>4, Joined DEF Incoming
<1>6. ASSUME rxBuf' = buf
      PROVE  Incoming' = Incoming
  <2> DEFINE new == buf \o sockIn'
  <2>1. /\ new \in Seq(Byte) /\ Len(new) = Len(buf) + Len(sockIn')
        /\ \A i \in 1..Len(new) : \/ i \in 1..Len(buf) /\ new[i] = buf[i]
                                  \/ i - Len(buf) \in 1..Len(sockIn') /\ new[i] = sockIn'[i - Len(buf)]
      BY Joined
  <2> HIDE DEF new
  <2>2. ASSUME NEW i \in 1..Len(new) PROVE new[i] = Incoming[i]
    <3>1. CASE i \in 1..Len(buf) /\ new[i] = buf[i]
        BY <3>1
    <3>2. CASE i - Len(buf) \in 1..Len(sockIn') /\ new[i] = sockIn'[i - Len(buf)]
      <4>1. (i - Len(buf)) + Len(buf) = i
          BY <1>1, <2>1
      <4> QED
          BY <3>2, <4>1
    <3> QED
        BY <2>1, <3>1, <3>2
  <2>3. new = Incoming
      BY <1>1, <2>1, <2>2, SeqEqual
  <2>4. Incoming' = new
      BY <1>6 DEF Incoming, new
  <2> QED
      BY <2>3, <2>4
<1>7. ASSUME rxBuf' = <<>>
      PROVE  Incoming' = sockIn' /\ Part(Incoming', Incoming, n) /\ Len(Incoming') + n = Len(Incoming)
  <2>1. Incoming' = sockIn'
      BY <1>7 DEF Incoming
  <2>2. Len(sockIn') + n = Len(Incoming)
      BY <1>1
  <2> QED
      BY <1>1, <2>1, <2>2 DEF Part
<1>8. Latest(Incoming', t) /\ (Of(Incoming', t) => Of(Incoming, t))
  <2>1. CASE rxBuf' = buf
      BY <1>6, <2>1
  <2>2. CASE rxBuf' = <<>>
      BY <1>1, <1>5, <1>7, <2>2, LatestPart, OfPart
  <2> QED
      BY <1>4, <2>1, <2>2
<1> HIDE DEF n
<1>9. ASSUME OnlyLatest
      PROVE  \/ /\ rxBuf' = buf /\ UNCHANGED <<waiting, results>>
                /\ Len(buf) > 0 => Len(buf) < AnswerSize[t]
                /\ rxLength' > 0 => t # 0 /\ rxLength' = AnswerSize[t] - Len(buf)
             \/ /\ rxBuf' = <<>> /\ rxLength' = 0
                /\ t \in Requests /\ AnswerSize[t] = Len(buf) /\ Len(buf) >= 1
                /\ waiting => Told(Own(t))
                /\ ~waiting => UNCHANGED <<waiting, results>>
  <2>1. \A i \in 1..Len(buf) : i \in 1..Len(Incoming)
      BY <1>1 DEF n
  <2>2. \A i \in 1..Len(buf) : buf[i] = <<txRequest, i>>
      BY <1>9, <2>1 DEF OnlyLatest
  <2> QED
      BY <1>3, <2>2, ParsedLatest
<1>10. /\ waiting' \in BOOLEAN /\ results' \in [Requests -> Outcome]
       /\ CallOK' /\ OwnAnswer' /\ ErrorAfterTimeout' /\ (Fresh' => Fresh)
  <2>1. CASE UNCHANGED <<waiting, results>>
      BY <2>1, CallKept, ResultsKept DEF TypeOK
  <2>2. CASE waiting /\ \E r : Told(r) /\ Right(r)
    <3>1. PICK r : Told(r) /\ Right(r)
        BY <2>2
    <3>2. r.kind # "none"
        BY <3>1 DEF Right
    <3>3. ASSUME Fresh PROVE r = Own(t)
      <4>1. OnlyLatest
          BY <3>3
      <4>2. t \in Requests
          BY <1>1, <2>2 DEF CallOK
      <4>3. results \in [Requests -> Outcome]
          BY Typed
      <4>4. results'[t] = r /\ waiting' = FALSE
          BY <3>1, <4>2, <4>3 DEF Told
      <4>5. waiting' # waiting
          BY <2>2, <4>4
      <4>6. Told(Own(t))
          BY <1>9, <2>2, <4>1, <4>5
      <4>7. results'[t] = Own(t)
          BY <4>2, <4>3, <4>6 DEF Told
      <4> QED
          BY <4>4, <4>7
    <3>4. Own(t).kind # "error" /\ Own(t).of = t
        BY DEF Own
    <3>5. (r.kind = "error" => ~Fresh) /\ (r.of # t => ~Fresh)
        BY <3>3, <3>4
    <3> QED
        BY <2>2, <3>1, <3>2, <3>5, CallTold DEF Right
  <2> QED
      BY <1>3, <2>1, <2>2, ParsedTold
<1>11. TypeOK' /\ ConnectionOK' /\ Retries'
    BY <1>4, <1>10 DEF TypeOK, Byte, ConnectionOK, Retries
<1>12. AnsweredOnce' /\ Latest(Incoming, txRequest)' /\ Queued(sockOut, txRequest, txCounter)'
    BY <1>8 DEF AnsweredOnce
<1>13. InStep' /\ StuckOnlyIfTorn'
  <2>1. ASSUME ~torn'
        PROVE  /\ Framed(Incoming') /\ (peerOpen => Whole(Incoming'))
               /\ Len(rxBuf') > 0 => Len(rxBuf') < AnswerSize[rxBuf'[1][1]]
               /\ rxLength' <= RxBufSize - Len(rxBuf')
    <3>1. Framed(Incoming) /\ (peerOpen => Whole(Incoming))
        BY <1>4, <2>1 DEF InStep
    <3>2. Framed(buf)
        BY <1>1, <1>2, <3>1, FramedPart
    <3>3. /\ rxLength' <= RxBufSize - Len(rxBuf')
          /\ \/ /\ rxBuf' = buf
                /\ Len(buf) > 0 => Len(buf) < AnswerSize[buf[1][1]]
             \/ rxBuf' = <<>> /\ Len(buf) >= 1 /\ AnswerSize[buf[1][1]] = Len(buf)
        BY <2>1, <3>2, ParsedInStep
    <3>4. CASE /\ rxBuf' = buf
               /\ Len(buf) > 0 => Len(buf) < AnswerSize[buf[1][1]]
        BY <1>6, <3>1, <3>3, <3>4
    <3>5. CASE rxBuf' = <<>> /\ Len(buf) >= 1 /\ AnswerSize[buf[1][1]] = Len(buf)
      <4>1. buf[1] = Incoming[1]
        <5>1. 1 \in 1..Len(buf)
            BY <1>1, <3>5 DEF n
        <5> QED
            BY <5>1
      <4>2. AnswerSize[Incoming[1][1]] = n /\ n >= 1
          BY <3>5, <4>1 DEF n
      <4>3. Framed(Incoming') /\ (Whole(Incoming) => Whole(Incoming'))
          BY <1>1, <1>5, <1>7, <3>1, <3>5, <4>2, FramedRest
      <4> QED
          BY <3>1, <3>3, <3>5, <4>3
    <3> QED
        BY <3>3, <3>4, <3>5
  <2>2. InStep'
      BY <2>1 DEF InStep
  <2>3. StuckOnlyIfTorn'
    <3>1. Room' = RxBufSize - Len(rxBuf') /\ Len(rxBuf') \in Nat /\ RxBufSize \in Nat
        BY <1>4, LenProperties, Sizes DEF Room
    <3>2. rxLength' <= RxBufSize - Len(rxBuf') => ~(rxLength' > RxBufSize - Len(rxBuf'))
        BY <1>4, <3>1
    <3> QED
        BY <2>1, <3>1, <3>2 DEF StuckOnlyIfTorn
  <2> QED
      BY <2>2, <2>3
<1>14. ASSUME Fresh' PROVE OnlyLatest'
  <2>1. OnlyLatest
      BY <1>10, <1>14
  <2>2. CASE /\ rxBuf' = buf /\ UNCHANGED <<waiting, results>>
             /\ Len(buf) > 0 => Len(buf) < AnswerSize[t]
             /\ rxLength' > 0 => t # 0 /\ rxLength' = AnswerSize[t] - Len(buf)
    <3>1. Incoming' = Incoming
        BY <1>6, <2>2
    <3>2. ASSUME t # 0, results[t].kind \in {"answer", "overflow"} PROVE rxLength' <= 0
      <4>1. Incoming = <<>> /\ t \in Requests
          BY <1>1, <2>1, <3>2 DEF OnlyLatest
      <4>2. n = 0 /\ AnswerSize[t] \in Nat
          BY <1>1, <4>1, Sizes DEF n
      <4>3. Short(buf)
        <5>1. ~(Len(buf) >= HeaderSize)
            BY <4>2, Sizes DEF n
        <5> QED
            BY <5>1, ParseCases DEF Longer, Complete
      <4> QED
          BY <4>3 DEF Short
    <3> QED
        BY <2>1, <2>2, <3>1, <3>2 DEF OnlyLatest
  <2>3. CASE /\ rxBuf' = <<>> /\ rxLength' = 0
             /\ t \in Requests /\ AnswerSize[t] = Len(buf) /\ Len(buf) >= 1
             /\ waiting => Told(Own(t))
             /\ ~waiting => UNCHANGED <<waiting, results>>
    <3>1. Len(Incoming) = n
      <4>1. Len(Incoming) \in 1..Len(Incoming) /\ n <= Len(Incoming)
          BY <1>1, <2>3 DEF n
      <4>2. /\ Incoming[Len(Incoming)] = <<t, Len(Incoming)>>
            /\ Incoming[Len(Incoming)][2] <= AnswerSize[Incoming[Len(Incoming)][1]]
          BY <2>1, <4>1 DEF OnlyLatest, Latest
      <4>3. Incoming[Len(Incoming)][1] = t /\ Incoming[Len(Incoming)][2] = Len(Incoming)
          BY <4>2
      <4>4. Len(Incoming) <= AnswerSize[t]
          BY <4>2, <4>3
      <4> QED
          BY <1>1, <2>3, <4>1, <4>4 DEF n
    <3>2. Incoming' = <<>>
      <4>1. Len(Incoming') + n = n /\ Len(Incoming') \in Nat
          BY <1>5, <1>7, <2>3, <3>1, LenProperties
      <4> QED
          BY <1>1, <1>5, <4>1
    <3>3. sockOut = <<>> /\ txCounter = RequestSize
      <4>1. 1 \in 1..Len(Incoming)
          BY <1>1, <2>3, <3>1 DEF n
      <4>2. Incoming[1] = <<t, 1>>
          BY <2>1, <4>1 DEF OnlyLatest
      <4>3. Of(Incoming, t)
        <5>1. Incoming[1][1] = t
            BY <4>2
        <5> QED
            BY <4>1, <5>1 DEF Of
      <4> QED
          BY <4>3 DEF AnsweredOnce
    <3>4. \A j \in 1..(t - 1) : j \in Requests /\ j # t
        BY <1>1, <2>3, SizesAssumption DEF Requests, SizesAssumption
    <3>5. ASSUME Told(Own(t))
          PROVE  /\ results'[t].kind \in {"answer", "overflow"}
                 /\ \A j \in 1..(t - 1) : results'[j] = results[j]
      <4>1. Own(t).kind \in {"answer", "overflow"}
          BY DEF Own
      <4> QED
          BY <2>3, <3>4, <3>5, <4>1, Typed DEF Told
    <3>6. /\ results'[t].kind \in {"none", "answer", "overflow", "timeout"}
          /\ \A j \in 1..(t - 1) : results'[j].kind \in {"answer", "overflow"}
      <4>1. CASE waiting
          BY <2>1, <2>3, <3>5, <4>1 DEF OnlyLatest
      <4>2. CASE ~waiting
        <5>1. results' = results /\ t # 0
            BY <2>3, <4>2, Sizes
        <5> QED
            BY <2>1, <5>1 DEF OnlyLatest
      <4> QED
          BY <4>1, <4>2
    <3>7. /\ \A i \in 1..Len(Incoming') : Incoming'[i] = <<t, i>>
          /\ \A i \in 1..Len(sockOut) : sockOut[i][1] = t
          /\ ~(Len(rxBuf') > 0) /\ ~(rxLength' > 0) /\ rxLength' <= 0
        BY <2>3, <3>2, <3>3
    <3> QED
        BY <3>2, <3>3, <3>6, <3>7 DEF OnlyLatest
  <2> QED
      BY <1>9, <2>1, <2>2, <2>3
<1> QED
    BY <1>10, <1>11, <1>12, <1>13, <1>14

LEMMA SkipEventStep == ASSUME IInv, SkipEvent PROVE IInv'
<1> USE DEF IInv
<1>1. /\ UNCHANGED <<state, timer, writeEvent, unattended, peerOpen, sockOut, breaks, txRequest, txCounter>>
      /\ sockIn' = sockIn /\ state = "connected" /\ ParsePacket(rxBuf)
    BY DEF SkipEvent, Readable, sockVars, netVars
<1>2. /\ rxBuf \in Seq(Byte) /\ sockIn \in Seq(Byte) /\ Len(rxBuf) \in Nat /\ Len(sockIn) \in Nat
      /\ Len(rxBuf) < RxBufSize /\ RxBufSize \in Nat
    BY Typed, Sizes
<1>3. /\ Len(rxBuf) + Len(sockIn) = Len(Incoming)
      /\ \A i \in 1..Len(rxBuf) : rxBuf[i] = Incoming[i]
      /\ \A i \in 1..Len(sockIn) : sockIn[i] = Incoming[Len(rxBuf) + i]
    BY <1>2, Joined DEF Incoming
<1>4. \A i \in 1..Len(sockIn) : Len(rxBuf) + i = i + Len(rxBuf)
    BY <1>2
<1>5. Len(rxBuf) <= RxBufSize /\ \A i \in 1..Len(sockIn') : sockIn'[i] = Incoming[i + Len(rxBuf)]
    BY <1>1, <1>2, <1>3, <1>4
<1> HIDE DEF IInv
<1> QED
    BY <1>1, <1>2, <1>3, <1>5, Reading

LEMMA ReadSomeStep == ASSUME IInv, ReadSome PROVE IInv'
<1>1. TypeOK
    BY DEF IInv
<1>2. /\ UNCHANGED <<state, timer, writeEvent, unattended, peerOpen, sockOut, breaks, txRequest, txCounter>>
      /\ state = "connected" /\ Room >= rxLength
    BY DEF ReadSome, Readable, sockVars
<1>3. PICK r \in 1..ToBeRead : /\ r <= Len(sockIn)
                               /\ sockIn' = SubSeq(sockIn, r + 1, Len(sockIn))
                               /\ ParsePacket(rxBuf \o SubSeq(sockIn, 1, r))
    BY DEF ReadSome
<1>4. /\ rxBuf \in Seq(Byte) /\ sockIn \in Seq(Byte) /\ Len(rxBuf) \in Nat /\ Len(sockIn) \in Nat
      /\ Len(rxBuf) < RxBufSize /\ RxBufSize \in Nat /\ rxLength \in Int
      /\ Len(Incoming) = Len(rxBuf) + Len(sockIn)
    BY <1>1, Typed, Sizes
<1>5. r \in Nat /\ Len(rxBuf) + r <= RxBufSize
  <2>1. ToBeRead = IF rxLength >= 0 THEN rxLength ELSE RxBufSize - Len(rxBuf)
      BY DEF ToBeRead, Room
  <2>2. RxBufSize - Len(rxBuf) >= rxLength
      BY <1>2 DEF Room
  <2> QED
      BY <1>4, <2>1, <2>2
<1> DEFINE head == SubSeq(sockIn, 1, r)
           rest == SubSeq(sockIn, r + 1, Len(sockIn))
           buf == rxBuf \o head
<1>6. /\ rest \in Seq(Byte) /\ Len(rest) = Len(sockIn) - r
      /\ \A i \in 1..(Len(sockIn) - r) : rest[i] = sockIn[r + i]
      /\ head \in Seq(Byte) /\ Len(head) = r
      /\ \A i \in 1..r : head[i] = sockIn[i]
    BY <1>3, <1>4, <1>5, Suffix
<1> HIDE DEF head, rest
<1>7. /\ buf \in Seq(Byte) /\ Len(buf) = Len(rxBuf) + r
      /\ \A i \in 1..Len(buf) : \/ i \in 1..Len(rxBuf) /\ buf[i] = rxBuf[i]
                                \/ i - Len(rxBuf) \in 1..r /\ buf[i] = head[i - Len(rxBuf)]
    BY <1>4, <1>6, Joined
<1>8. /\ \A i \in 1..Len(rxBuf) : Incoming[i] = rxBuf[i]
      /\ \A i \in 1..Len(sockIn) : Incoming[Len(rxBuf) + i] = sockIn[i]
    BY <1>4, Joined DEF Incoming
<1> HIDE DEF buf
<1>9. ASSUME NEW i \in 1..Len(buf) PROVE buf[i] = Incoming[i]
  <2>1. CASE i \in 1..Len(rxBuf) /\ buf[i] = rxBuf[i]
      BY <1>8, <2>1
  <2>2. CASE i - Len(rxBuf) \in 1..r /\ buf[i] = head[i - Len(rxBuf)]
    <3>1. i - Len(rxBuf) \in 1..Len(sockIn) /\ Len(rxBuf) + (i - Len(rxBuf)) = i
        BY <1>3, <1>4, <1>5, <1>7, <2>2
    <3> QED
        BY <1>6, <1>8, <2>2, <3>1
  <2> QED
      BY <1>7, <2>1, <2>2
<1>10. ASSUME NEW i \in 1..Len(rest) PROVE rest[i] = Incoming[i + Len(buf)]
  <2>1. /\ i \in 1..(Len(sockIn) - r) /\ r + i \in 1..Len(sockIn)
        /\ Len(rxBuf) + (r + i) = i + Len(buf)
      BY <1>3, <1>4, <1>5, <1>6, <1>7
  <2> QED
      BY <1>6, <1>8, <2>1
<1>11. /\ Len(buf) <= RxBufSize /\ Len(buf) + Len(rest) = Len(Incoming)
    BY <1>3, <1>4, <1>5, <1>6, <1>7
<1>12. sockIn' = rest /\ ParsePacket(buf)
    BY <1>3 DEF rest, buf, head
<1>13. /\ sockIn' \in Seq(Byte) /\ Len(buf) + Len(sockIn') = Len(Incoming)
       /\ \A i \in 1..Len(sockIn') : sockIn'[i] = Incoming[i + Len(buf)]
    BY <1>6, <1>10, <1>11, <1>12
<1> QED
    BY <1>2, <1>7, <1>9, <1>11, <1>12, <1>13, Reading

-----------------------------------------------------------------------------
LEMMA InitIInv == ASSUME Init PROVE IInv
<1> USE DEF Init
<1>1. sockIn = <<>> /\ sockOut = <<>> /\ rxBuf = <<>> /\ <<>> \in Seq(Byte)
    OBVIOUS
<1>2. results \in [Requests -> Outcome]
    BY DEF None, Outcome
<1>3. TypeOK
  <2>1. \A s \in {sockIn, sockOut, rxBuf} : s \in Seq(Byte)
      BY <1>1
  <2>2. Len(rxBuf) < RxBufSize /\ txCounter \in 0..RequestSize /\ breaks \in 0..MaxBreaks
      BY <1>1, Sizes, SizesAssumption DEF SizesAssumption
  <2>3. /\ state \in {"disconnected", "connected"} /\ timer \in {"none", "first", "reconnect"}
        /\ rxLength \in Int /\ txRequest \in {0} \cup Requests
      OBVIOUS
  <2>4. {writeEvent, peerOpen, waiting, torn, unattended} \subseteq BOOLEAN
      OBVIOUS
  <2> HIDE DEF Init
  <2> QED
      BY <1>2, <2>1, <2>2, <2>3, <2>4 DEF TypeOK, Byte
<1>4. Incoming = <<>> /\ Len(Incoming) = 0
    BY DEF Incoming
<1>5. \A k \in Requests : results[k].kind = "none" /\ k # 0
    BY Sizes DEF None
<1>6. CallOK /\ ConnectionOK
    BY <1>5 DEF CallOK, ConnectionOK
<1>7. Queued(sockOut, txRequest, txCounter)
    BY QueuedNothing
<1>8. Latest(Incoming, txRequest) /\ AnsweredOnce
  <2>1. \A i \in 1..Len(Incoming) : FALSE
      BY <1>4
  <2> QED
      BY <2>1 DEF Latest, AnsweredOnce, Of
<1>9. InStep
  <2>1. Framed(<<>>) /\ Whole(<<>>)
      BY <1>1, NothingPart
  <2> QED
      BY <1>4, <2>1 DEF InStep
<1>10. OnlyLatest
  <2>1. \A j \in 1..(txRequest - 1) : FALSE
      OBVIOUS
  <2> QED
      BY <1>4, <2>1 DEF OnlyLatest
<1>11. OwnAnswer /\ ErrorAfterTimeout
    BY <1>5 DEF OwnAnswer, ErrorAfterTimeout
<1>12. StuckOnlyIfTorn /\ Retries
  <2>1. ~(-1 > RxBufSize - Len(<<>>))
      BY Sizes
  <2> QED
      BY <2>1 DEF StuckOnlyIfTorn, Room, Retries
<1> QED
    BY <1>3, <1>6, <1>7, <1>8, <1>9, <1>10, <1>11, <1>12 DEF IInv

LEMMA StepIInv == ASSUME IInv, [Next]_vars PROVE IInv'
<1>1. CASE UNCHANGED vars
  <2> USE DEF IInv
  <2>1. UNCHANGED <<state, timer, writeEvent, unattended, peerOpen, sockIn, sockOut, breaks,
                    rxBuf, rxLength, torn, txRequest, txCounter, waiting, results>>
      BY <1>1 DEF vars, sockVars, netVars, rxVars
  <2>2. Incoming' = Incoming
      BY <2>1 DEF Incoming
  <2>3. CallOK' /\ OwnAnswer' /\ ErrorAfterTimeout' /\ (Fresh' => Fresh)
      BY <2>1, CallKept, ResultsKept
  <2>4. TypeOK' /\ ConnectionOK' /\ Retries'
      BY <2>1 DEF TypeOK, ConnectionOK, Retries
  <2>5. AnsweredOnce' /\ Latest(Incoming, txRequest)' /\ Queued(sockOut, txRequest, txCounter)'
      BY <2>1, <2>2 DEF AnsweredOnce
  <2>6. InStep' /\ StuckOnlyIfTorn'
      BY <2>1, <2>2 DEF InStep, StuckOnlyIfTorn, Room
  <2>7. OnlyLatest => OnlyLatest'
      BY <2>1, <2>2 DEF OnlyLatest
  <2> QED
      BY <2>3, <2>4, <2>5, <2>6, <2>7
<1>2. CASE OnTimer
    BY <1>2, ConnectStep, ConnectFailsStep, ConnectThenLoseStep DEF OnTimer
<1>3. CASE OnData
    BY <1>3, DiscardFrameStep, SkipEventStep, ReadSomeStep, ReadEndStep DEF OnData
<1>4. CASE OnWritable
    BY <1>4, OnWritableStep
<1>5. CASE \E k \in Requests : DoTransaction(k) \/ Serve(k) \/ Ignore(k)
    BY <1>5, DoTransactionStep, ServeStep, IgnoreStep
<1>6. CASE WaitTimeout
    BY <1>6, WaitTimeoutStep
<1>7. CASE Break
    BY <1>7, BreakStep
<1> QED
    BY <1>1, <1>2, <1>3, <1>4, <1>5, <1>6, <1>7 DEF Next

LEMMA IInvAlways == Spec => []IInv
<1>1. Init => IInv
    BY InitIInv
<1>2. IInv /\ [Next]_vars => IInv'
    BY StepIInv
<1> QED
    BY <1>1, <1>2, PTL DEF Spec

\* An answer with a wrong number, which tcp.c reports as an error of the request
\* that is waited for, comes only after another request timed out; curr_rx_length
\* is more than rx_buf has room for only after part of an answer was left over or
\* thrown away; and a lost connection has its timer, but for a loss in the
\* notifier of the connection itself.
THEOREM InvCorrect == Spec => []Inv
<1>1. IInv => Inv
    BY DEF IInv, Inv
<1> QED
    BY <1>1, IInvAlways, PTL

\* Although rx_buf survives a reconnection, and with it the beginning of an answer
\* that the connection cut off, emb_tcp gives a request its own answer and that
\* whole, or one that bears the same number; what is glued together from two
\* answers is never taken for its own.
THEOREM OwnAnswerCorrect == Spec => []OwnAnswer
<1>1. IInv => OwnAnswer
    BY DEF IInv
<1> QED
    BY <1>1, IInvAlways, PTL
=============================================================================
