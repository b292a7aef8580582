------------------------- MODULE RtuTcpClientProofs -------------------------
(***************************************************************************)
(* RtuTcpClient for any frames, buffers, descriptors, breaks and stops:    *)
(* its types, that it has one socket at most, that it closes nobody else's *)
(* descriptor but by a stop, that no request is carried out twice, and     *)
(* that a connection is given up only for a reason.                        *)
(***************************************************************************)
EXTENDS RtuTcpClient, SequenceTheorems, TLAPS

\* The connection alone.
TcpInv == TcpTypeOK /\ OneSocket

LEMMA FdFacts == NoFd \notin Fd /\ \A f \in Fd : f \in Nat /\ f # NoFd
BY FdAssumption DEF FdAssumption, NoFd

LEMMA TcpInitInv == TcpInit => TcpInv
<1> SUFFICES ASSUME TcpInit PROVE TcpInv
    OBVIOUS
<1>1. /\ files = [f \in Fd |-> "free"] /\ sockFd = NoFd /\ readFd = NoFd /\ writeEvent = FALSE
      /\ state = "disconnected" /\ timer = "first" /\ assigned = FALSE
      /\ peerOpen = FALSE /\ ended = FALSE /\ breaks = 0 /\ stops = 0
    BY DEF TcpInit
<1>2. 0 \in 0..MaxBreaks /\ 0 \in 0..MaxStops
    BY BreaksAssumption DEF BreaksAssumption
<1>3. TcpTypeOK
    BY <1>1, <1>2 DEF TcpTypeOK
<1>4. OneSocket
    BY <1>1 DEF OneSocket
<1> QED
    BY <1>3, <1>4 DEF TcpInv

-----------------------------------------------------------------------------
\* The client's descriptors are those that are "client".
Clients(fs) == {f \in Fd : fs[f] = "client"}

LEMMA ClosedFacts ==
    ASSUME TcpInv
    PROVE  /\ Closed(sockFd) \in [Fd -> {"free", "client", "other"}]
           /\ Clients(Closed(sockFd)) = {}
           /\ \A f \in Fd : f # sockFd => Closed(sockFd)[f] = files[f]
<1>1. files \in [Fd -> {"free", "client", "other"}] /\ sockFd \in Fd \cup {NoFd}
    BY DEF TcpInv, TcpTypeOK
<1>2. Clients(files) = IF state = "connected" THEN {sockFd} ELSE {}
    BY DEF TcpInv, OneSocket, Clients
<1>3. CASE sockFd = NoFd
  <2>1. Closed(sockFd) = files
      BY <1>3 DEF Closed
  <2>2. sockFd \notin Fd
      BY <1>3, FdFacts
  <2>3. Clients(files) = {}
      BY <1>2, <2>2 DEF Clients
  <2> QED
      BY <1>1, <2>1, <2>3
<1>4. CASE sockFd # NoFd
  <2>1. Closed(sockFd) = [files EXCEPT ![sockFd] = "free"] /\ sockFd \in Fd
      BY <1>1, <1>4 DEF Closed
  <2> QED
      BY <1>1, <1>2, <2>1 DEF Clients
<1> QED
    BY <1>3, <1>4

LEMMA UnconnectInv ==
    ASSUME TcpInv, Unconnect, state' \in {"default", "disconnected"},
           timer' \in {"none", "delayed"}, timer' # "none" <=> state' = "disconnected",
           ended' = FALSE, assigned' \in BOOLEAN, breaks' \in 0..MaxBreaks, stops' \in 0..MaxStops
    PROVE  TcpInv'
<1>1. /\ readFd' = NoFd /\ writeEvent' = FALSE /\ peerOpen' = FALSE
      /\ files' = Closed(sockFd) /\ sockFd' = sockFd
    BY DEF Unconnect
<1>2. files' \in [Fd -> {"free", "client", "other"}] /\ Clients(files') = {}
    BY <1>1, ClosedFacts
<1>3. TcpTypeOK'
    BY <1>1, <1>2 DEF TcpTypeOK, TcpInv
<1>4. OneSocket'
    BY <1>1, <1>2 DEF OneSocket, Clients
<1> QED
    BY <1>3, <1>4 DEF TcpInv

LEMMA LoseInv == ASSUME TcpInv, state = "connected", Lose PROVE TcpInv'
<1>1. breaks \in 0..MaxBreaks /\ stops \in 0..MaxStops
    BY DEF TcpInv, TcpTypeOK
<1>2. ended = FALSE
    BY DEF TcpInv, TcpTypeOK, OneSocket
<1> QED
    BY <1>1, <1>2, UnconnectInv DEF Lose

LEMMA StopInv == ASSUME TcpInv, StopConnection PROVE TcpInv'
<1>1. breaks \in 0..MaxBreaks /\ stops' \in 0..MaxStops /\ assigned \in BOOLEAN
    BY BreaksAssumption DEF TcpInv, TcpTypeOK, StopConnection, BreaksAssumption
<1> QED
    BY <1>1, UnconnectInv DEF StopConnection

LEMMA ConnectInv == ASSUME TcpInv, NEW f \in Fd, Connect(f) PROVE TcpInv'
<1>1. state = "disconnected" /\ ended = FALSE
    BY DEF TcpInv, TcpTypeOK, OneSocket, Connect
<1>2. files \in [Fd -> {"free", "client", "other"}] /\ Clients(files) = {}
    BY <1>1 DEF TcpInv, TcpTypeOK, OneSocket, Clients
<1>3. /\ files' = [files EXCEPT ![f] = "client"] /\ sockFd' = f /\ readFd' = f
      /\ writeEvent' = TRUE /\ state' = "connected" /\ timer' = "none" /\ peerOpen' = TRUE
      /\ UNCHANGED <<assigned, ended, breaks, stops>>
    BY DEF Connect
<1>4. files' \in [Fd -> {"free", "client", "other"}] /\ Clients(files') = {f}
    BY <1>2, <1>3 DEF Clients
<1>5. TcpTypeOK'
    BY <1>3, <1>4 DEF TcpTypeOK, TcpInv
<1>6. OneSocket'
    BY <1>1, <1>3, <1>4 DEF OneSocket, Clients
<1> QED
    BY <1>5, <1>6 DEF TcpInv

LEMMA ConnectFailsInv == ASSUME TcpInv, ConnectFails PROVE TcpInv'
<1>1. state = "disconnected" /\ timer # "none"
    BY DEF TcpInv, OneSocket, ConnectFails
<1>2. sockFd' \in Fd \cup {NoFd}
    BY DEF ConnectFails, NextFd
<1>3. /\ timer' \in {"none", "first", "delayed", "once"} /\ assigned' = TRUE
      /\ ended' \in BOOLEAN /\ (timer' # "none" <=> ~ended')
    BY <1>1 DEF ConnectFails, FailedTimer, TcpInv, TcpTypeOK
<1>4. UNCHANGED <<files, readFd, writeEvent, state, peerOpen, breaks, stops>>
    BY DEF ConnectFails
<1>5. TcpTypeOK'
    BY <1>2, <1>3, <1>4 DEF TcpTypeOK, TcpInv
<1>6. OneSocket'
    BY <1>1, <1>3, <1>4 DEF OneSocket, TcpInv
<1> QED
    BY <1>5, <1>6 DEF TcpInv

LEMMA ConnectThenLoseInv == ASSUME TcpInv, NEW f \in Fd, ConnectThenLose(f) PROVE TcpInv'
<1>1. state = "disconnected"
    BY DEF TcpInv, OneSocket, ConnectThenLose
<1>2. breaks' \in 0..MaxBreaks
    BY BreaksAssumption DEF TcpInv, TcpTypeOK, ConnectThenLose, BreaksAssumption
<1>3. /\ sockFd' = f /\ timer' = "none" /\ assigned' = TRUE /\ ended' = TRUE
      /\ UNCHANGED <<files, readFd, writeEvent, state, peerOpen, stops>>
    BY DEF ConnectThenLose
<1>4. TcpTypeOK'
    BY <1>2, <1>3 DEF TcpTypeOK, TcpInv
<1>5. OneSocket'
    BY <1>1, <1>3 DEF OneSocket, TcpInv
<1> QED
    BY <1>4, <1>5 DEF TcpInv

LEMMA StartInv == ASSUME TcpInv, StartConnection PROVE TcpInv'
<1>1. /\ state = "default" /\ state' = "disconnected" /\ timer' \in {"first", "once"}
      /\ UNCHANGED <<files, sockFd, readFd, writeEvent, assigned, peerOpen, ended, breaks, stops>>
    BY DEF StartConnection
<1> QED
    BY <1>1 DEF TcpInv, TcpTypeOK, OneSocket

\* The rest of the process changes neither the client's descriptors nor its
\* events.
LEMMA OthersInv == ASSUME TcpInv, OtherOpens \/ OtherCloses PROVE TcpInv'
<1>1. UNCHANGED <<sockFd, readFd, writeEvent, state, timer, assigned, peerOpen, ended, breaks, stops>>
    BY DEF OtherOpens, OtherCloses
<1>2. files \in [Fd -> {"free", "client", "other"}]
    BY DEF TcpInv, TcpTypeOK
<1>3. \E f \in Fd : files[f] # "client"
                    /\ (files' = [files EXCEPT ![f] = "other"] \/ files' = [files EXCEPT ![f] = "free"])
    BY DEF OtherOpens, OtherCloses, NextFd
<1>4. files' \in [Fd -> {"free", "client", "other"}] /\ Clients(files') = Clients(files)
    BY <1>2, <1>3 DEF Clients
<1>5. TcpTypeOK'
    BY <1>1, <1>4 DEF TcpTypeOK, TcpInv
<1>6. OneSocket'
    BY <1>1, <1>4 DEF OneSocket, TcpInv, Clients
<1> QED
    BY <1>5, <1>6 DEF TcpInv

LEMMA PeerClosesInv == ASSUME TcpInv, PeerCloses PROVE TcpInv'
<1>1. breaks' \in 0..MaxBreaks
    BY BreaksAssumption DEF TcpInv, TcpTypeOK, PeerCloses, BreaksAssumption
<1>2. /\ peerOpen' = FALSE
      /\ UNCHANGED <<files, sockFd, readFd, writeEvent, state, timer, assigned, ended, stops>>
    BY DEF PeerCloses
<1> QED
    BY <1>1, <1>2 DEF TcpInv, TcpTypeOK, OneSocket

-----------------------------------------------------------------------------
\* What a step of the master is for its connection: one of the connection's own
\* steps, its loss while it is open, or a change of the write event.
WriteEventOnly ==
    /\ writeEvent' \in BOOLEAN /\ (writeEvent' => state = "connected")
    /\ UNCHANGED <<files, sockFd, readFd, state, timer, assigned, peerOpen, ended, breaks, stops>>
TcpStep ==
    \/ (\E f \in Fd : Connect(f)) \/ ConnectFails \/ (\E f \in Fd : ConnectThenLose(f))
    \/ StopConnection \/ StartConnection \/ OtherOpens \/ OtherCloses \/ PeerCloses
    \/ Lose /\ state = "connected"
    \/ WriteEventOnly

LEMMA WriteRestStep ==
    ASSUME TcpInv, NEW k, NEW from, NEW pending \in BOOLEAN,
           pending => writeEvent, WriteRest(k, from, pending)
    PROVE  TcpStep
<1> DEFINE same == UNCHANGED <<files, sockFd, readFd, state, timer, assigned, peerOpen, ended, breaks, stops>>
<1>1. writeEvent => state = "connected"
    BY DEF TcpInv, OneSocket
<1>2. CASE /\ state = "connected" /\ same
           /\ \E w \in 1..(OutSize[k] - from) : writeEvent' = (pending \/ w < OutSize[k] - from)
    BY <1>2 DEF TcpStep, WriteEventOnly
<1>3. CASE state = "connected" /\ Lose
    BY <1>3 DEF TcpStep
<1>4. CASE same /\ writeEvent' = pending
    BY <1>1, <1>4 DEF TcpStep, WriteEventOnly
<1> QED
    BY <1>2, <1>3, <1>4 DEF WriteRest, Opened

LEMMA NextTcpStep == ASSUME TcpInv, [Next]_vars PROVE TcpStep
<1>1. writeEvent \in BOOLEAN /\ (writeEvent => state = "connected")
      /\ (readFd # NoFd => state = "connected")
    BY DEF TcpInv, TcpTypeOK, OneSocket
<1>2. CASE UNCHANGED tcpVars
    BY <1>1, <1>2 DEF TcpStep, WriteEventOnly, tcpVars
<1>3. CASE OnConnect \/ OnConnectFails \/ \E k \in Requests : OnConnectThenLose(k)
    BY <1>3 DEF TcpStep, OnConnect, OnConnectFails, OnConnectThenLose
<1>4. CASE Stop \/ Start \/ Open \/ Close \/ Break
    BY <1>4 DEF TcpStep, Stop, Start, Open, Close, Break
<1>5. ASSUME NEW k \in Requests, DoTransaction(k) PROVE TcpStep
  <2>1. WriteRest(k, 0, writeEvent)
      BY <1>5 DEF DoTransaction
  <2> QED
      BY <1>1, <2>1, WriteRestStep
<1>6. CASE OnWritable
  <2>1. CASE txFrame = 0
      BY <1>1, <1>6, <2>1 DEF OnWritable, TcpStep, WriteEventOnly
  <2>2. CASE txFrame # 0
    <3>1. WriteRest(txFrame, txCounter, FALSE)
        BY <1>6, <2>2 DEF OnWritable
    <3> QED
        BY <3>1, WriteRestStep
  <2> QED
      BY <2>1, <2>2
<1>7. CASE OnData
  <2>1. ReadEnd => Lose /\ state = "connected"
      BY <1>1 DEF ReadEnd, Readable
  <2>2. (\E r \in 1..RxBufSize : ReadSome(r)) => UNCHANGED tcpVars
      BY DEF ReadSome
  <2> QED
      BY <1>2, <1>7, <2>1, <2>2 DEF OnData, TcpStep
<1>8. CASE WaitTimeout \/ CharTimeout \/ \E n \in 1..Len(sockOut) : ServerHears(n)
    BY <1>2, <1>8 DEF WaitTimeout, CharTimeout, ServerHears
<1>9. CASE UNCHANGED vars
    BY <1>2, <1>9 DEF vars
<1> QED
    BY <1>3, <1>4, <1>5, <1>6, <1>7, <1>8, <1>9 DEF Next

LEMMA TcpStepInv == ASSUME TcpInv, TcpStep PROVE TcpInv'
<1>1. CASE WriteEventOnly
    BY <1>1 DEF WriteEventOnly, TcpInv, TcpTypeOK, OneSocket
<1> QED
    BY <1>1, ConnectInv, ConnectFailsInv, ConnectThenLoseInv, StopInv, StartInv, OthersInv,
       PeerClosesInv, LoseInv DEF TcpStep

THEOREM TcpInvariance == Spec => []TcpInv
<1>1. Init => TcpInv
    BY TcpInitInv DEF Init
<1>2. TcpInv /\ [Next]_vars => TcpInv'
    BY NextTcpStep, TcpStepInv
<1> QED
    BY <1>1, <1>2, PTL DEF Spec

\* What a step of the connection may close of others.
LEMMA StepKeepsOthers ==
    ASSUME TcpInv, TcpStep, NEW f \in Fd, files[f] = "other", files'[f] # "other"
    PROVE  OtherCloses \/ (StopConnection /\ state # "connected" /\ f = sockFd)
<1>1. files \in [Fd -> {"free", "client", "other"}]
    BY DEF TcpInv, TcpTypeOK
<1>2. state = "connected" => sockFd \in Fd /\ files[sockFd] = "client"
    BY DEF TcpInv, OneSocket
<1>3. ASSUME NEW g \in Fd, Connect(g) PROVE FALSE
    BY <1>1, <1>3 DEF Connect, NextFd
<1>4. files' # files
    OBVIOUS
<1>5. CASE StopConnection
  <2>1. files' = Closed(sockFd)
      BY <1>5 DEF StopConnection, Unconnect
  <2> QED
      BY <1>2, <1>5, <2>1, ClosedFacts
<1>6. CASE Lose /\ state = "connected"
  <2>1. files' = Closed(sockFd)
      BY <1>6 DEF Lose, Unconnect
  <2> QED
      BY <1>2, <1>6, <2>1, ClosedFacts
<1>7. CASE OtherOpens
    BY <1>1, <1>7 DEF OtherOpens, NextFd
<1>8. CASE ConnectFails \/ (\E g \in Fd : ConnectThenLose(g)) \/ StartConnection \/ PeerCloses
           \/ WriteEventOnly
    BY <1>4, <1>8 DEF ConnectFails, ConnectThenLose, StartConnection, PeerCloses, WriteEventOnly
<1> QED
    BY <1>3, <1>5, <1>6, <1>7, <1>8 DEF TcpStep

\* The client closes no descriptor of the rest of the process, but for the
\* number a stop closes once more (do_unconnect, tcp_client_stop_connection).
THEOREM OthersAreKept == Spec => OthersKept
<1> DEFINE Keeps == \A f \in Fd : files[f] = "other" /\ files'[f] # "other" =>
                        \/ OtherCloses
                        \/ StopConnection /\ state # "connected" /\ f = sockFd
<1>1. TcpInv /\ [Next]_vars => [Keeps]_tcpVars
  <2> SUFFICES ASSUME TcpInv, [Next]_vars PROVE Keeps
      OBVIOUS
  <2>1. TcpStep
      BY NextTcpStep
  <2> QED
      BY <2>1, StepKeepsOthers
<1> QED
    BY <1>1, TcpInvariance, PTL DEF Spec, OthersKept

-----------------------------------------------------------------------------
\* The requests.  so are the bytes on their way to the server, sv the requests
\* it has got, and c bytes of request f were sent: the bytes come in the order
\* of the requests and of their places, none is one of a request that was got,
\* and nothing is beyond byte c of f.
Order(so, sv, f, c) ==
    /\ \A i, j \in DOMAIN so : i < j =>
          so[i][1] < so[j][1] \/ (so[i][1] = so[j][1] /\ so[i][2] < so[j][2])
    /\ \A i \in DOMAIN so :
          /\ so[i][2] <= OutSize[so[i][1]]
          /\ so[i][1] < f \/ (so[i][1] = f /\ so[i][2] <= c)
    /\ \A n \in DOMAIN sv : sv[n] < f \/ (sv[n] = f /\ c = OutSize[f])
    /\ \A n \in DOMAIN sv : \A i \in DOMAIN so : sv[n] < so[i][1]
    /\ \A i, j \in DOMAIN sv : i < j => sv[i] < sv[j]

OutInv ==
    /\ sockOut \in Seq(Byte) /\ served \in Seq(Requests)
    /\ txFrame \in 0..Len(OutSize)
    /\ txCounter \in 0..(IF txFrame = 0 THEN 0 ELSE OutSize[txFrame])
    /\ Order(sockOut, served, txFrame, txCounter)

InInv ==
    /\ sockIn \in Seq(Byte) /\ charTimer \in BOOLEAN
    /\ rxBuf \in Seq(Byte) /\ Len(rxBuf) <= RxBufSize

\* An answer is waited for only after a request.
AboveInv ==
    /\ waiting \in BOOLEAN /\ answered \in Seq(Requests \X Requests)
    /\ waiting => txFrame # 0

IInv == TcpInv /\ OutInv /\ InInv /\ AboveInv

LEMMA SizeFacts ==
    /\ Len(OutSize) \in Nat /\ RxBufSize \in Nat
    /\ \A k \in Requests : /\ k \in Nat \ {0}
                           /\ OutSize[k] \in Nat /\ OutSize[k] > 0
                           /\ InSize[k] \in Nat /\ InSize[k] > 0
<1>1. OutSize \in Seq(Nat \ {0}) /\ InSize \in Seq(Nat \ {0}) /\ Len(InSize) = Len(OutSize)
      /\ RxBufSize \in Nat
    BY SizesAssumption DEF SizesAssumption
<1>2. Len(OutSize) \in Nat
    BY <1>1, LenProperties
<1>3. ASSUME NEW k \in Requests PROVE OutSize[k] \in Nat \ {0} /\ InSize[k] \in Nat \ {0}
    BY <1>1, ElementOfSeq DEF Requests
<1> QED
    BY <1>1, <1>2, <1>3 DEF Requests

LEMMA ByteParts ==
    ASSUME NEW so \in Seq(Byte)
    PROVE  /\ Len(so) \in Nat /\ DOMAIN so = 1..Len(so)
           /\ \A i \in DOMAIN so : so[i] \in Byte /\ so[i][1] \in Nat /\ so[i][2] \in Nat
<1>1. Len(so) \in Nat /\ DOMAIN so = 1..Len(so)
    BY LenProperties
<1>2. ASSUME NEW i \in DOMAIN so PROVE so[i] \in Byte /\ so[i][1] \in Nat /\ so[i][2] \in Nat
  <2>1. so[i] \in Byte
      BY <1>1, ElementOfSeq
  <2> QED
      BY <2>1, SizeFacts DEF Byte, Requests
<1> QED
    BY <1>1, <1>2

LEMMA CountedIsSeq ==
    ASSUME NEW S, NEW n \in Nat, NEW s \in [1..n -> S]
    PROVE  s \in Seq(S) /\ Len(s) = n
OBVIOUS

\* A frame, and a stretch of one.
LEMMA Frame ==
    ASSUME NEW k \in Requests
    PROVE  /\ OutFrame(k) \in Seq(Byte) /\ Len(OutFrame(k)) = OutSize[k]
           /\ \A i \in 1..OutSize[k] : OutFrame(k)[i] = <<k, i>>
           /\ InFrame(k) \in Seq(Byte) /\ Len(InFrame(k)) = InSize[k]
           /\ \A i \in 1..InSize[k] : InFrame(k)[i] = <<k, i>>
<1>1. \A i \in Nat \ {0} : <<k, i>> \in Byte
    BY DEF Byte
<1>2. OutSize[k] \in Nat /\ InSize[k] \in Nat
    BY SizeFacts
<1>3. OutFrame(k) \in [1..OutSize[k] -> Byte] /\ InFrame(k) \in [1..InSize[k] -> Byte]
    BY <1>1, <1>2 DEF OutFrame, InFrame
<1>4. /\ \A i \in 1..OutSize[k] : OutFrame(k)[i] = <<k, i>>
      /\ \A i \in 1..InSize[k] : InFrame(k)[i] = <<k, i>>
    BY DEF OutFrame, InFrame
<1> QED
    BY <1>2, <1>3, <1>4, CountedIsSeq

LEMMA Piece ==
    ASSUME NEW f \in Requests, NEW c \in Nat, NEW w \in Nat, c + w <= OutSize[f]
    PROVE  /\ SubSeq(OutFrame(f), c + 1, c + w) \in Seq(Byte)
           /\ Len(SubSeq(OutFrame(f), c + 1, c + w)) = w
           /\ \A i \in 1..w : SubSeq(OutFrame(f), c + 1, c + w)[i] = <<f, c + i>>
<1> DEFINE piece == SubSeq(OutFrame(f), c + 1, c + w)
<1>1. \A i \in (c + 1)..(c + w) : OutFrame(f)[i] = <<f, i>> /\ OutFrame(f)[i] \in Byte
  <2>1. ASSUME NEW i \in (c + 1)..(c + w) PROVE i \in 1..OutSize[f] /\ i \in Nat \ {0}
      BY SizeFacts
  <2> QED
      BY <2>1, Frame DEF Byte
<1>2. /\ piece \in Seq(Byte)
      /\ Len(piece) = IF c + 1 <= c + w THEN (c + w) - (c + 1) + 1 ELSE 0
      /\ \A i \in 1..((c + w) - (c + 1) + 1) : piece[i] = OutFrame(f)[(c + 1) + i - 1]
  <2>1. c + 1 \in Int /\ c + w \in Int
      OBVIOUS
  <2> QED
      BY <1>1, <2>1, SubSeqProperties
<1> HIDE DEF piece
<1>3. Len(piece) = w
    BY <1>2
<1>4. ASSUME NEW i \in 1..w PROVE piece[i] = <<f, c + i>>
  <2>1. c + i \in (c + 1)..(c + w) /\ (c + 1) + i - 1 = c + i
        /\ i \in 1..((c + w) - (c + 1) + 1)
      OBVIOUS
  <2> QED
      BY <1>1, <1>2, <2>1
<1> QED
    BY <1>2, <1>3, <1>4 DEF piece

\* The first n elements of a sequence, and what follows them.
LEMMA Suffix ==
    ASSUME NEW S, NEW s \in Seq(S), NEW n \in Nat, n <= Len(s)
    PROVE  /\ SubSeq(s, n + 1, Len(s)) \in Seq(S)
           /\ Len(SubSeq(s, n + 1, Len(s))) = Len(s) - n
           /\ \A i \in 1..(Len(s) - n) : SubSeq(s, n + 1, Len(s))[i] = s[n + i]
           /\ SubSeq(s, 1, n) \in Seq(S)
           /\ Len(SubSeq(s, 1, n)) = n
           /\ \A i \in 1..n : SubSeq(s, 1, n)[i] = s[i]
BY LenProperties

\* w bytes more of f are sent, whether they get anywhere or not.
LEMMA OrderMore ==
    ASSUME NEW so \in Seq(Byte), NEW sv \in Seq(Requests), NEW f \in Requests, NEW c \in Nat,
           NEW w \in Nat \ {0}, c + w <= OutSize[f], Order(so, sv, f, c)
    PROVE  /\ Order(so, sv, f, c + w)
           /\ Order(so \o SubSeq(OutFrame(f), c + 1, c + w), sv, f, c + w)
           /\ so \o SubSeq(OutFrame(f), c + 1, c + w) \in Seq(Byte)
<1> DEFINE piece == SubSeq(OutFrame(f), c + 1, c + w)
           more == so \o piece
<1>1. /\ piece \in Seq(Byte) /\ Len(piece) = w
      /\ \A i \in 1..w : piece[i] = <<f, c + i>>
    BY Piece
<1>2. /\ Len(so) \in Nat /\ DOMAIN so = 1..Len(so)
      /\ \A i \in DOMAIN so : so[i] \in Byte /\ so[i][1] \in Nat /\ so[i][2] \in Nat
    BY ByteParts
<1> HIDE DEF piece
<1>3. /\ more \in Seq(Byte) /\ Len(more) = Len(so) + w
      /\ \A i \in 1..(Len(so) + w) : more[i] = IF i <= Len(so) THEN so[i] ELSE piece[i - Len(so)]
    BY <1>1, ConcatProperties
<1>4. DOMAIN more = 1..(Len(so) + w)
    BY <1>3, LenProperties
<1> HIDE DEF more
<1>5. ASSUME NEW i \in DOMAIN more
      PROVE  \/ i \in DOMAIN so /\ more[i] = so[i]
             \/ i - Len(so) \in 1..w /\ more[i] = <<f, c + (i - Len(so))>>
  <2>1. CASE i <= Len(so)
      BY <1>2, <1>3, <1>4, <2>1
  <2>2. CASE ~(i <= Len(so))
    <3>1. i - Len(so) \in 1..w
        BY <1>2, <1>4, <2>2
    <3>2. more[i] = piece[i - Len(so)]
        BY <1>3, <1>4, <2>2
    <3> QED
        BY <1>1, <3>1, <3>2
  <2> QED
      BY <2>1, <2>2
<1>6. c < OutSize[f] /\ f \in Nat /\ OutSize[f] \in Nat
    BY SizeFacts
<1>7. \A n \in DOMAIN sv : sv[n] < f
    BY <1>6 DEF Order
<1>8. Order(so, sv, f, c + w)
  <2>1. ASSUME NEW i \in DOMAIN so
        PROVE  so[i][1] < f \/ (so[i][1] = f /\ so[i][2] <= c + w)
      BY <1>2 DEF Order
  <2> QED
      BY <1>7, <2>1 DEF Order
<1>9. Order(more, sv, f, c + w)
  <2>1. ASSUME NEW i \in DOMAIN more, NEW j \in DOMAIN more, i < j
        PROVE  more[i][1] < more[j][1] \/ (more[i][1] = more[j][1] /\ more[i][2] < more[j][2])
    <3>1. CASE i \in DOMAIN so /\ more[i] = so[i] /\ j \in DOMAIN so /\ more[j] = so[j]
        BY <2>1, <3>1 DEF Order
    <3>2. CASE /\ i \in DOMAIN so /\ more[i] = so[i]
               /\ j - Len(so) \in 1..w /\ more[j] = <<f, c + (j - Len(so))>>
      <4>1. so[i][1] < f \/ (so[i][1] = f /\ so[i][2] <= c)
          BY <3>2 DEF Order
      <4> QED
          BY <1>2, <3>2, <4>1
    <3>3. CASE /\ i - Len(so) \in 1..w /\ more[i] = <<f, c + (i - Len(so))>>
               /\ j - Len(so) \in 1..w /\ more[j] = <<f, c + (j - Len(so))>>
        BY <1>2, <1>4, <2>1, <3>3
    <3>4. CASE i - Len(so) \in 1..w /\ j \in DOMAIN so
        BY <1>2, <1>4, <2>1, <3>4
    <3> QED
        BY <1>5, <3>1, <3>2, <3>3, <3>4
  <2>2. ASSUME NEW i \in DOMAIN more
        PROVE  /\ more[i][2] <= OutSize[more[i][1]]
               /\ more[i][1] < f \/ (more[i][1] = f /\ more[i][2] <= c + w)
    <3>1. CASE i \in DOMAIN so /\ more[i] = so[i]
        BY <1>8, <3>1 DEF Order
    <3>2. CASE i - Len(so) \in 1..w /\ more[i] = <<f, c + (i - Len(so))>>
        BY <1>2, <1>6, <3>2
    <3> QED
        BY <1>5, <3>1, <3>2
  <2>3. ASSUME NEW n \in DOMAIN sv, NEW i \in DOMAIN more PROVE sv[n] < more[i][1]
      BY <1>5, <1>7 DEF Order
  <2>4. \A i, j \in DOMAIN sv : i < j => sv[i] < sv[j]
      BY DEF Order
  <2> QED
      BY <1>7, <2>1, <2>2, <2>3, <2>4 DEF Order
<1> QED
    BY <1>3, <1>8, <1>9 DEF more, piece

\* The next request is put into tx_buf.
LEMMA OrderNext ==
    ASSUME NEW so \in Seq(Byte), NEW sv \in Seq(Requests), NEW f \in Nat, NEW c \in Nat,
           Order(so, sv, f, c)
    PROVE  Order(so, sv, f + 1, 0)
<1>1. \A i \in DOMAIN so : so[i][1] \in Nat
    BY ByteParts
<1>2. ASSUME NEW n \in DOMAIN sv PROVE sv[n] \in Nat
  <2>1. sv[n] \in Requests
      BY ElementOfSeq, LenProperties
  <2> QED
      BY <2>1, SizeFacts
<1> QED
    BY <1>1, <1>2 DEF Order

\* What was on its way is lost.
LEMMA OrderLost ==
    ASSUME NEW so, NEW sv, NEW f, NEW c, Order(so, sv, f, c)
    PROVE  Order(<<>>, sv, f, c)
<1>1. DOMAIN <<>> = {}
    OBVIOUS
<1> QED
    BY <1>1 DEF Order

\* The server has taken the first n bytes.
LEMMA OrderTaken ==
    ASSUME NEW so \in Seq(Byte), NEW sv, NEW f, NEW c, Order(so, sv, f, c), NEW n \in 1..Len(so)
    PROVE  Order(SubSeq(so, n + 1, Len(so)), sv, f, c)
<1> DEFINE rest == SubSeq(so, n + 1, Len(so))
<1>1. Len(so) \in Nat /\ DOMAIN so = 1..Len(so) /\ n \in Nat /\ n <= Len(so)
    BY LenProperties
<1>2. /\ rest \in Seq(Byte) /\ Len(rest) = Len(so) - n
      /\ \A i \in 1..(Len(so) - n) : rest[i] = so[n + i]
    BY <1>1, Suffix
<1>3. DOMAIN rest = 1..(Len(so) - n)
    BY <1>2, LenProperties
<1> HIDE DEF rest
<1>4. \A i \in DOMAIN rest : n + i \in DOMAIN so /\ rest[i] = so[n + i] /\ i \in Nat
    BY <1>1, <1>2, <1>3
<1>5. Order(rest, sv, f, c)
    BY <1>1, <1>4 DEF Order
<1> QED
    BY <1>5 DEF rest

\* They were request k.
LEMMA OrderServed ==
    ASSUME NEW so \in Seq(Byte), NEW sv \in Seq(Requests), NEW f \in Nat, NEW c \in Nat,
           Order(so, sv, f, c), f # 0 => f \in Requests /\ c <= OutSize[f],
           NEW n \in 1..Len(so), NEW k \in Requests, SubSeq(so, 1, n) = OutFrame(k)
    PROVE  Order(SubSeq(so, n + 1, Len(so)), Append(sv, k), f, c)
<1> DEFINE rest == SubSeq(so, n + 1, Len(so))
           more == Append(sv, k)
<1>1. /\ Len(so) \in Nat /\ DOMAIN so = 1..Len(so) /\ n \in Nat /\ n <= Len(so) /\ n \in DOMAIN so
      /\ \A i \in DOMAIN so : so[i][1] \in Nat /\ so[i][2] \in Nat
    BY ByteParts
<1>2. /\ rest \in Seq(Byte) /\ Len(rest) = Len(so) - n
      /\ \A i \in 1..(Len(so) - n) : rest[i] = so[n + i]
      /\ Len(SubSeq(so, 1, n)) = n
      /\ \A i \in 1..n : SubSeq(so, 1, n)[i] = so[i]
    BY <1>1, Suffix
<1>3. DOMAIN rest = 1..(Len(so) - n)
    BY <1>2, LenProperties
<1>4. Order(rest, sv, f, c)
    BY OrderTaken
<1> HIDE DEF rest
<1>5. n = OutSize[k] /\ so[n] = <<k, OutSize[k]>> /\ k \in Nat /\ OutSize[k] \in Nat
  <2>1. n = OutSize[k] /\ k \in Nat /\ OutSize[k] \in Nat /\ OutSize[k] > 0
      BY <1>2, Frame, SizeFacts
  <2>2. so[n] = OutFrame(k)[n]
      BY <1>1, <1>2
  <2> QED
      BY <2>1, <2>2, Frame
<1>6. k < f \/ (k = f /\ c = OutSize[f])
  <2>1. k < f \/ (k = f /\ OutSize[k] <= c)
      BY <1>1, <1>5 DEF Order
  <2>2. k # 0
      BY SizeFacts
  <2> QED
      BY <1>5, <2>1, <2>2
<1>7. ASSUME NEW i \in DOMAIN rest PROVE k < rest[i][1]
  <2>1. n + i \in DOMAIN so /\ rest[i] = so[n + i] /\ n < n + i
      BY <1>1, <1>2, <1>3
  <2>2. /\ so[n][1] < so[n + i][1] \/ (so[n][1] = so[n + i][1] /\ so[n][2] < so[n + i][2])
        /\ so[n + i][2] <= OutSize[so[n + i][1]]
      BY <1>1, <2>1 DEF Order
  <2> QED
      BY <1>1, <1>5, <2>1, <2>2
<1>8. \A i \in DOMAIN sv : sv[i] < k
    BY <1>1, <1>5 DEF Order
<1>9. /\ DOMAIN more = 1..(Len(sv) + 1) /\ Len(sv) \in Nat /\ DOMAIN sv = 1..Len(sv)
      /\ \A i \in 1..Len(sv) : more[i] = sv[i]
      /\ more[Len(sv) + 1] = k
    BY AppendProperties, LenProperties
<1> HIDE DEF more
<1>10. ASSUME NEW i \in DOMAIN more
       PROVE  (i \in DOMAIN sv /\ more[i] = sv[i]) \/ (i = Len(sv) + 1 /\ more[i] = k)
    BY <1>9
<1>11. ASSUME NEW i \in DOMAIN more, NEW j \in DOMAIN more, i < j PROVE more[i] < more[j]
  <2>1. i \in DOMAIN sv /\ more[i] = sv[i]
      BY <1>9, <1>11
  <2>2. CASE j \in DOMAIN sv /\ more[j] = sv[j]
      BY <1>4, <1>11, <2>1, <2>2 DEF Order
  <2>3. CASE more[j] = k
      BY <1>8, <2>1, <2>3
  <2> QED
      BY <1>10, <2>2, <2>3
<1>12. ASSUME NEW j \in DOMAIN more
       PROVE  /\ more[j] < f \/ (more[j] = f /\ c = OutSize[f])
              /\ \A i \in DOMAIN rest : more[j] < rest[i][1]
  <2>1. CASE j \in DOMAIN sv /\ more[j] = sv[j]
      BY <1>4, <2>1 DEF Order
  <2>2. CASE more[j] = k
      BY <1>6, <1>7, <2>2
  <2> QED
      BY <1>10, <2>1, <2>2
<1>13. Order(rest, more, f, c)
    BY <1>4, <1>11, <1>12 DEF Order
<1> QED
    BY <1>13 DEF rest, more

-----------------------------------------------------------------------------
LEMMA WriteRestOut ==
    ASSUME sockOut \in Seq(Byte), served \in Seq(Requests), NEW k \in Requests,
           NEW from \in 0..OutSize[k], Order(sockOut, served, k, from),
           NEW pending, WriteRest(k, from, pending)
    PROVE  /\ sockOut' \in Seq(Byte) /\ txCounter' \in 0..OutSize[k]
           /\ Order(sockOut', served, k, txCounter')
<1>1. OutSize[k] \in Nat /\ from \in Nat
    BY SizeFacts
<1>2. ASSUME NEW w \in 1..(OutSize[k] - from), txCounter' = from + w, SocketTakes(k, from, w)
      PROVE  /\ sockOut' \in Seq(Byte) /\ txCounter' \in 0..OutSize[k]
             /\ Order(sockOut', served, k, txCounter')
  <2>1. w \in Nat \ {0} /\ from + w <= OutSize[k] /\ from + w \in 0..OutSize[k]
      BY <1>1
  <2>2. /\ Order(sockOut, served, k, from + w)
        /\ Order(sockOut \o SubSeq(OutFrame(k), from + 1, from + w), served, k, from + w)
        /\ sockOut \o SubSeq(OutFrame(k), from + 1, from + w) \in Seq(Byte)
      BY <1>1, <2>1, OrderMore
  <2> QED
      BY <1>2, <2>1, <2>2 DEF SocketTakes
<1>3. CASE NoConnection /\ txCounter' = from
    BY <1>3, OrderLost, EmptySeq DEF NoConnection
<1>4. CASE txCounter' = from /\ sockOut' = sockOut
    BY <1>4
<1> QED
    BY <1>2, <1>3, <1>4 DEF WriteRest, netVars

LEMMA OutStep == ASSUME OutInv, [Next]_vars PROVE OutInv'
<1>1. /\ sockOut \in Seq(Byte) /\ served \in Seq(Requests) /\ txFrame \in Nat
      /\ Len(OutSize) \in Nat /\ txCounter \in Nat
      /\ txFrame # 0 => txFrame \in Requests /\ txCounter \in 0..OutSize[txFrame]
      /\ txFrame = 0 => txCounter = 0
      /\ Order(sockOut, served, txFrame, txCounter)
    BY SizeFacts DEF OutInv, Requests
<1>2. ASSUME sockOut' \in Seq(Byte), Order(sockOut', served, txFrame, txCounter),
             UNCHANGED <<txFrame, txCounter, served>>
      PROVE  OutInv'
    BY <1>2 DEF OutInv
<1>3. ASSUME NEW k \in Requests, txFrame' = k, txCounter' \in 0..OutSize[k], sockOut' \in Seq(Byte),
             Order(sockOut', served, k, txCounter'), UNCHANGED served
      PROVE  OutInv'
    BY <1>1, <1>3, SizeFacts DEF OutInv, Requests
<1>4. CASE \/ OnConnect \/ OnConnectFails \/ Start \/ Open \/ Close \/ WaitTimeout
           \/ (\E r \in 1..RxBufSize : ReadSome(r)) \/ CharTimeout \/ UNCHANGED vars
  <2>1. UNCHANGED <<sockOut, txFrame, txCounter, served>>
      BY <1>4 DEF OnConnect, OnConnectFails, Start, Open, Close, WaitTimeout, ReadSome,
                  CharTimeout, vars, netVars, txVars
  <2> QED
      BY <1>1, <1>2, <2>1
<1>5. CASE Stop \/ Break \/ ReadEnd
  <2>1. sockOut' = <<>> /\ UNCHANGED <<txFrame, txCounter, served>>
      BY <1>5 DEF Stop, Break, ReadEnd, NoConnection, txVars
  <2> QED
      BY <1>1, <1>2, <2>1, OrderLost, EmptySeq
<1>6. ASSUME NEW k \in Requests, OnConnectThenLose(k) PROVE OutInv'
  <2>1. /\ k = txFrame + 1 /\ txFrame' = k /\ txCounter' = 0
        /\ UNCHANGED <<sockOut, served>>
      BY <1>6 DEF OnConnectThenLose, netVars
  <2>2. Order(sockOut, served, k, 0)
      BY <1>1, <2>1, OrderNext
  <2> QED
      BY <1>1, <1>3, <2>1, <2>2, SizeFacts
<1>7. ASSUME NEW k \in Requests, DoTransaction(k) PROVE OutInv'
  <2>1. k = txFrame + 1 /\ txFrame' = k /\ WriteRest(k, 0, writeEvent) /\ UNCHANGED served
      BY <1>7 DEF DoTransaction
  <2>2. Order(sockOut, served, k, 0)
      BY <1>1, <2>1, OrderNext
  <2>3. /\ sockOut' \in Seq(Byte) /\ txCounter' \in 0..OutSize[k]
        /\ Order(sockOut', served, k, txCounter')
      BY <1>1, <2>1, <2>2, SizeFacts, WriteRestOut
  <2> QED
      BY <1>3, <2>1, <2>3
<1>8. CASE OnWritable
  <2>1. CASE txFrame = 0
    <3>1. UNCHANGED <<sockOut, txFrame, txCounter, served>>
        BY <1>8, <2>1 DEF OnWritable, netVars
    <3> QED
        BY <1>1, <1>2, <3>1
  <2>2. CASE txFrame # 0
    <3>1. WriteRest(txFrame, txCounter, FALSE) /\ UNCHANGED <<txFrame, served>>
        BY <1>8, <2>2 DEF OnWritable
    <3>2. /\ sockOut' \in Seq(Byte) /\ txCounter' \in 0..OutSize[txFrame]
          /\ Order(sockOut', served, txFrame, txCounter')
        BY <1>1, <2>2, <3>1, WriteRestOut
    <3> QED
        BY <1>1, <1>3, <2>2, <3>1, <3>2
  <2> QED
      BY <2>1, <2>2
<1>9. ASSUME NEW n \in 1..Len(sockOut), ServerHears(n) PROVE OutInv'
  <2>1. sockOut' = SubSeq(sockOut, n + 1, Len(sockOut)) /\ UNCHANGED <<txFrame, txCounter>>
      BY <1>9 DEF ServerHears, txVars
  <2>2. sockOut' \in Seq(Byte)
      BY <1>1, <2>1, LenProperties, Suffix
  <2>3. Order(sockOut', served, txFrame, txCounter)
      BY <1>1, <2>1, OrderTaken
  <2>4. ASSUME NEW k \in Requests, SubSeq(sockOut, 1, n) = OutFrame(k), served' = Append(served, k)
        PROVE  OutInv'
    <3>1. Order(sockOut', served', txFrame, txCounter)
      <4>1. txFrame # 0 => txFrame \in Requests /\ txCounter <= OutSize[txFrame]
          BY <1>1, SizeFacts
      <4>2. Order(SubSeq(sockOut, n + 1, Len(sockOut)), Append(served, k), txFrame, txCounter)
          BY <1>1, <2>4, <4>1, OrderServed
      <4> QED
          BY <2>1, <2>4, <4>2
    <3>2. served' \in Seq(Requests)
        BY <1>1, <2>4, AppendProperties
    <3> QED
        BY <2>1, <2>2, <3>1, <3>2 DEF OutInv
  <2> QED
      BY <1>2, <1>9, <2>1, <2>2, <2>3, <2>4 DEF ServerHears
<1> QED
    BY <1>4, <1>5, <1>6, <1>7, <1>8, <1>9 DEF Next, OnData

-----------------------------------------------------------------------------
LEMMA InStep == ASSUME InInv, [Next]_vars PROVE InInv'
<1>1. /\ sockIn \in Seq(Byte) /\ rxBuf \in Seq(Byte) /\ charTimer \in BOOLEAN
      /\ Len(rxBuf) <= RxBufSize /\ Len(rxBuf) \in Nat /\ Len(sockIn) \in Nat /\ RxBufSize \in Nat
    BY LenProperties, SizeFacts DEF InInv
<1>2. <<>> \in Seq(Byte) /\ Len(<<>>) = 0
    BY EmptySeq
<1>3. ASSUME sockIn' \in Seq(Byte), UNCHANGED rxVars PROVE InInv'
    BY <1>1, <1>3 DEF InInv, rxVars
<1>4. ASSUME NEW k, NEW from, NEW pending, WriteRest(k, from, pending), UNCHANGED rxVars
      PROVE  InInv'
  <2>1. sockIn' = sockIn \/ sockIn' = <<>>
      BY <1>4 DEF WriteRest, NoConnection, netVars
  <2> QED
      BY <1>1, <1>2, <1>3, <1>4, <2>1
<1>5. CASE \/ OnConnect \/ OnConnectFails \/ (\E k \in Requests : OnConnectThenLose(k))
           \/ Start \/ Open \/ Close \/ WaitTimeout \/ UNCHANGED vars
  <2>1. UNCHANGED sockIn /\ UNCHANGED rxVars
      BY <1>5 DEF OnConnect, OnConnectFails, OnConnectThenLose, Start, Open, Close, WaitTimeout,
                  vars, netVars
  <2> QED
      BY <1>1, <1>3, <2>1
<1>6. CASE Stop
    BY <1>2, <1>3, <1>6 DEF Stop, NoConnection
<1>7. CASE Break
  <2>1. PICK n \in 0..Len(sockIn) : sockIn' = SubSeq(sockIn, 1, n)
      BY <1>7 DEF Break
  <2>2. sockIn' \in Seq(Byte)
      BY <1>1, <2>1, Suffix
  <2> QED
      BY <1>3, <1>7, <2>2 DEF Break
<1>8. ASSUME NEW k \in Requests, DoTransaction(k) PROVE InInv'
    BY <1>4, <1>8 DEF DoTransaction
<1>9. CASE OnWritable
  <2>1. CASE txFrame = 0
      BY <1>1, <1>3, <1>9, <2>1 DEF OnWritable, netVars
  <2>2. CASE txFrame # 0
      BY <1>4, <1>9, <2>2 DEF OnWritable
  <2> QED
      BY <2>1, <2>2
<1>10. ASSUME NEW r \in 1..RxBufSize, ReadSome(r) PROVE InInv'
  <2>1. /\ r \in Nat /\ r <= Len(sockIn) /\ Len(rxBuf) + r <= RxBufSize
        /\ rxBuf' = rxBuf \o SubSeq(sockIn, 1, r)
        /\ sockIn' = SubSeq(sockIn, r + 1, Len(sockIn)) /\ charTimer' = TRUE
      BY <1>1, <1>10 DEF ReadSome, Room
  <2>2. SubSeq(sockIn, 1, r) \in Seq(Byte) /\ Len(SubSeq(sockIn, 1, r)) = r /\ sockIn' \in Seq(Byte)
      BY <1>1, <2>1, Suffix
  <2>3. rxBuf' \in Seq(Byte) /\ Len(rxBuf') = Len(rxBuf) + r
      BY <1>1, <2>1, <2>2, ConcatProperties
  <2> QED
      BY <2>1, <2>2, <2>3 DEF InInv
<1>11. CASE ReadEnd
  <2>1. sockIn' = <<>> /\ rxBuf' = <<>> /\ UNCHANGED charTimer
      BY <1>11 DEF ReadEnd, NoConnection
  <2> QED
      BY <1>1, <1>2, <2>1 DEF InInv
<1>12. CASE CharTimeout
  <2>1. UNCHANGED sockIn /\ rxBuf' = <<>> /\ charTimer' \in BOOLEAN
      BY <1>12 DEF CharTimeout, netVars
  <2>2. Len(rxBuf') <= RxBufSize
      BY <1>1, <1>2, <2>1
  <2> QED
      BY <1>1, <1>2, <2>1, <2>2 DEF InInv
<1>13. ASSUME NEW n \in 1..Len(sockOut), ServerHears(n) PROVE InInv'
  <2>1. ASSUME NEW k \in Requests, sockIn' = sockIn \o InFrame(k) PROVE sockIn' \in Seq(Byte)
      BY <1>1, <2>1, Frame, ConcatProperties
  <2> QED
      BY <1>1, <1>3, <1>13, <2>1 DEF ServerHears
<1> QED
    BY <1>5, <1>6, <1>7, <1>8, <1>9, <1>10, <1>11, <1>12, <1>13 DEF Next, OnData

LEMMA AboveStep == ASSUME AboveInv, OutInv, [Next]_vars PROVE AboveInv'
<1>1. /\ waiting \in BOOLEAN /\ answered \in Seq(Requests \X Requests)
      /\ waiting => txFrame \in Requests
    BY SizeFacts DEF AboveInv, OutInv, Requests
<1>2. CASE \/ OnConnect \/ OnConnectFails \/ Stop \/ Start \/ Open \/ Close \/ Break
           \/ OnWritable \/ OnData \/ (\E n \in 1..Len(sockOut) : ServerHears(n)) \/ UNCHANGED vars
  <2>1. UNCHANGED <<waiting, answered, txFrame>>
      BY <1>2 DEF OnConnect, OnConnectFails, Stop, Start, Open, Close, Break, OnWritable, OnData,
                  ReadEnd, ReadSome, ServerHears, vars, aboveVars, txVars
  <2> QED
      BY <2>1 DEF AboveInv
<1>3. ASSUME NEW k \in Requests, OnConnectThenLose(k) \/ DoTransaction(k) PROVE AboveInv'
  <2>1. txFrame' = k /\ waiting' = TRUE /\ UNCHANGED answered
      BY <1>3 DEF OnConnectThenLose, DoTransaction
  <2> QED
      BY <1>1, <2>1, SizeFacts DEF AboveInv
<1>4. CASE WaitTimeout
    BY <1>1, <1>4 DEF WaitTimeout, AboveInv
<1>5. CASE CharTimeout
  <2>1. UNCHANGED txFrame
      BY <1>5 DEF CharTimeout, txVars
  <2>2. CASE AnswerHeard
    <3>1. PICK k \in Requests : rxBuf = InFrame(k)
        BY <2>2 DEF AnswerHeard
    <3>2. rxBuf[1][1] = k
        BY <3>1, Frame, SizeFacts
    <3>3. waiting' = FALSE /\ answered' \in {answered, Append(answered, <<txFrame, k>>)}
        BY <1>5, <2>2, <3>2 DEF CharTimeout
    <3>4. <<txFrame, k>> \in Requests \X Requests
        BY <1>1, <2>2 DEF AnswerHeard
    <3>5. Append(answered, <<txFrame, k>>) \in Seq(Requests \X Requests)
        BY <1>1, <3>4, AppendProperties
    <3>6. answered' \in Seq(Requests \X Requests)
        BY <1>1, <3>3, <3>5
    <3> QED
        BY <3>3, <3>6 DEF AboveInv
  <2>3. CASE ~AnswerHeard
    <3>1. (waiting' = waiting \/ waiting' = FALSE) /\ UNCHANGED answered
        BY <1>5, <2>3 DEF CharTimeout
    <3>2. CASE waiting' = waiting
        BY <1>1, <2>1, <3>1, <3>2 DEF AboveInv, OutInv
    <3>3. CASE waiting' = FALSE
        BY <1>1, <3>1, <3>3 DEF AboveInv
    <3> QED
        BY <3>1, <3>2, <3>3
  <2> QED
      BY <2>2, <2>3
<1> QED
    BY <1>2, <1>3, <1>4, <1>5 DEF Next

-----------------------------------------------------------------------------
LEMMA InitIInv == Init => IInv
<1> SUFFICES ASSUME Init PROVE IInv
    OBVIOUS
<1>1. /\ TcpInit /\ sockOut = <<>> /\ sockIn = <<>> /\ txFrame = 0 /\ txCounter = 0
      /\ rxBuf = <<>> /\ charTimer = FALSE
      /\ waiting = FALSE /\ answered = <<>> /\ served = <<>>
    BY DEF Init
<1>2. (\A S : <<>> \in Seq(S)) /\ Len(<<>>) = 0
    BY EmptySeq
<1>3. Order(<<>>, <<>>, 0, 0)
  <2>1. DOMAIN <<>> = {}
      OBVIOUS
  <2> QED
      BY <2>1 DEF Order
<1>4. OutInv
    BY <1>1, <1>2, <1>3, SizeFacts DEF OutInv
<1>5. InInv
  <2>1. Len(rxBuf) <= RxBufSize
      BY <1>1, <1>2, SizeFacts
  <2>2. charTimer \in BOOLEAN
      BY <1>1
  <2> QED
      BY <1>1, <1>2, <2>1, <2>2 DEF InInv
<1>6. AboveInv
    BY <1>1, <1>2 DEF AboveInv
<1> QED
    BY <1>1, <1>4, <1>5, <1>6, TcpInitInv DEF IInv

\* The strengthened invariant holds.
THEOREM Invariance == Spec => []IInv
<1>1. Init => IInv
    BY InitIInv
<1>2. IInv /\ [Next]_vars => IInv'
    BY NextTcpStep, TcpStepInv, OutStep, InStep, AboveStep DEF IInv
<1> QED
    BY <1>1, <1>2, PTL DEF Spec

\* Every variable keeps its type, and there is one socket at most, the one in
\* sock_fd (do_connect, do_unconnect).
THEOREM InvCorrect == Spec => []Inv
<1>1. IInv => Inv
    BY DEF IInv, TcpInv, OutInv, InInv, AboveInv, Inv, TypeOK
<1> QED
    BY <1>1, Invariance, PTL

\* No request is carried out twice or after the one that replaced it
\* (write_to_port, emb_rtu_port_event, modbus_rtu_send_packet).
THEOREM OnceCorrect == Spec => []ServedOnce
<1>1. IInv => ServedOnce
    BY DEF IInv, OutInv, Order, ServedOnce
<1> QED
    BY <1>1, Invariance, PTL

-----------------------------------------------------------------------------
\* What comes back.  The bytes s, received or on their way, belong to answers of
\* requests in sv, which were got; they come in the order of the requests, and
\* those of one answer side by side.  One answer fits into the receive buffer, so
\* what does not fit is of several.
Answers(s, sv) ==
    /\ \A i \in DOMAIN s : /\ s[i][2] <= InSize[s[i][1]]
                           /\ \E n \in DOMAIN sv : sv[n] = s[i][1]
    /\ \A i, j \in DOMAIN s : i < j =>
          s[i][1] < s[j][1] \/ (s[i][1] = s[j][1] /\ s[j][2] = s[i][2] + (j - i))

Coming == Answers(rxBuf \o sockIn, served)

\* Two sequences of bytes, one after the other.
LEMMA Joined ==
    ASSUME NEW a \in Seq(Byte), NEW b \in Seq(Byte)
    PROVE  /\ a \o b \in Seq(Byte) /\ Len(a) \in Nat /\ Len(b) \in Nat
           /\ Len(a \o b) = Len(a) + Len(b)
           /\ DOMAIN (a \o b) = 1..(Len(a) + Len(b))
           /\ \A i \in 1..Len(a) : (a \o b)[i] = a[i]
           /\ \A i \in 1..Len(b) : (a \o b)[Len(a) + i] = b[i]
<1> DEFINE ab == a \o b
<1>1. Len(a) \in Nat /\ Len(b) \in Nat
    BY LenProperties
<1>2. /\ ab \in Seq(Byte) /\ Len(ab) = Len(a) + Len(b)
      /\ \A i \in 1..(Len(a) + Len(b)) : ab[i] = IF i <= Len(a) THEN a[i] ELSE b[i - Len(a)]
    BY ConcatProperties
<1>3. DOMAIN ab = 1..(Len(a) + Len(b))
    BY <1>2, LenProperties
<1> HIDE DEF ab
<1>4. ASSUME NEW i \in 1..Len(a) PROVE ab[i] = a[i]
  <2>1. i \in 1..(Len(a) + Len(b)) /\ i <= Len(a)
      BY <1>1
  <2> QED
      BY <1>2, <2>1
<1>5. ASSUME NEW i \in 1..Len(b) PROVE ab[Len(a) + i] = b[i]
  <2>1. /\ Len(a) + i \in 1..(Len(a) + Len(b)) /\ ~(Len(a) + i <= Len(a))
        /\ (Len(a) + i) - Len(a) = i
      BY <1>1
  <2> QED
      BY <1>2, <2>1
<1> QED
    BY <1>1, <1>2, <1>3, <1>4, <1>5 DEF ab

\* A stretch of such bytes.
LEMMA AnswersStretch ==
    ASSUME NEW s \in Seq(Byte), NEW sv, Answers(s, sv),
           NEW t \in Seq(Byte), NEW d \in Nat, Len(t) + d <= Len(s),
           \A i \in 1..Len(t) : t[i] = s[d + i]
    PROVE  Answers(t, sv)
<1>1. /\ Len(s) \in Nat /\ DOMAIN s = 1..Len(s) /\ Len(t) \in Nat /\ DOMAIN t = 1..Len(t)
    BY LenProperties
<1>2. ASSUME NEW i \in DOMAIN t PROVE d + i \in DOMAIN s /\ t[i] = s[d + i]
  <2>1. d + i \in DOMAIN s
      BY <1>1
  <2> QED
      BY <1>1, <2>1
<1>3. ASSUME NEW i \in DOMAIN t
      PROVE  t[i][2] <= InSize[t[i][1]] /\ \E n \in DOMAIN sv : sv[n] = t[i][1]
    BY <1>2 DEF Answers
<1>4. ASSUME NEW i \in DOMAIN t, NEW j \in DOMAIN t, i < j
      PROVE  t[i][1] < t[j][1] \/ (t[i][1] = t[j][1] /\ t[j][2] = t[i][2] + (j - i))
  <2>1. d + i < d + j /\ (d + j) - (d + i) = j - i
      BY <1>1, <1>4
  <2>2. \/ s[d + i][1] < s[d + j][1]
        \/ s[d + i][1] = s[d + j][1] /\ s[d + j][2] = s[d + i][2] + ((d + j) - (d + i))
      BY <1>2, <2>1 DEF Answers
  <2> QED
      BY <1>2, <2>1, <2>2
<1> QED
    BY <1>3, <1>4 DEF Answers

\* The answer to k, which the server has just got, follows them.
LEMMA AnswersMore ==
    ASSUME NEW s \in Seq(Byte), NEW sv \in Seq(Requests), Answers(s, sv), NEW k \in Requests,
           \A n \in DOMAIN sv : sv[n] < k,
           NEW t \in Seq(Byte), Len(t) = Len(s) + InSize[k],
           \A i \in 1..Len(s) : t[i] = s[i],
           \A i \in 1..InSize[k] : t[Len(s) + i] = <<k, i>>
    PROVE  Answers(t, Append(sv, k))
<1> DEFINE more == Append(sv, k)
<1>1. /\ Len(s) \in Nat /\ DOMAIN s = 1..Len(s) /\ DOMAIN t = 1..(Len(s) + InSize[k])
      /\ InSize[k] \in Nat /\ k \in Nat
    BY LenProperties, SizeFacts
<1>2. /\ DOMAIN sv \subseteq DOMAIN more /\ \A n \in DOMAIN sv : more[n] = sv[n]
      /\ \E n \in DOMAIN more : more[n] = k
  <2>1. /\ Len(sv) \in Nat /\ DOMAIN sv = 1..Len(sv) /\ DOMAIN more = 1..(Len(sv) + 1)
        /\ \A n \in 1..Len(sv) : more[n] = sv[n]
        /\ more[Len(sv) + 1] = k
      BY AppendProperties, LenProperties
  <2> HIDE DEF more
  <2>2. Len(sv) + 1 \in DOMAIN more /\ DOMAIN sv \subseteq DOMAIN more
      BY <2>1
  <2> QED
      BY <2>1, <2>2
<1> HIDE DEF more
<1>3. ASSUME NEW i \in DOMAIN t
      PROVE  \/ i \in DOMAIN s /\ t[i] = s[i]
             \/ i - Len(s) \in 1..InSize[k] /\ t[i] = <<k, i - Len(s)>>
  <2>1. CASE i <= Len(s)
      BY <1>1, <2>1
  <2>2. CASE ~(i <= Len(s))
    <3>1. i - Len(s) \in 1..InSize[k] /\ Len(s) + (i - Len(s)) = i
        BY <1>1, <2>2
    <3> QED
        BY <3>1
  <2> QED
      BY <2>1, <2>2
<1>4. ASSUME NEW i \in DOMAIN s
      PROVE  s[i][1] < k /\ s[i][2] <= InSize[s[i][1]] /\ \E n \in DOMAIN more : more[n] = s[i][1]
  <2>1. PICK n \in DOMAIN sv : sv[n] = s[i][1]
      BY DEF Answers
  <2> QED
      BY <1>2, <2>1 DEF Answers
<1>5. ASSUME NEW i \in DOMAIN t
      PROVE  t[i][2] <= InSize[t[i][1]] /\ \E n \in DOMAIN more : more[n] = t[i][1]
  <2>1. CASE i \in DOMAIN s /\ t[i] = s[i]
      BY <1>4, <2>1
  <2>2. CASE i - Len(s) \in 1..InSize[k] /\ t[i] = <<k, i - Len(s)>>
    <3>1. i - Len(s) <= InSize[k]
        BY <1>1, <2>2
    <3>2. t[i][1] = k /\ t[i][2] = i - Len(s)
        BY <2>2
    <3> QED
        BY <1>2, <3>1, <3>2
  <2> QED
      BY <1>3, <2>1, <2>2
<1>6. ASSUME NEW i \in DOMAIN t, NEW j \in DOMAIN t, i < j
      PROVE  t[i][1] < t[j][1] \/ (t[i][1] = t[j][1] /\ t[j][2] = t[i][2] + (j - i))
  <2>1. CASE j \in DOMAIN s /\ t[j] = s[j]
    <3>1. i \in DOMAIN s /\ t[i] = s[i]
      <4>1. i \in DOMAIN s
          BY <1>1, <1>6, <2>1
      <4> QED
          BY <1>1, <4>1
    <3> QED
        BY <1>6, <2>1, <3>1 DEF Answers
  <2>2. CASE j - Len(s) \in 1..InSize[k] /\ t[j] = <<k, j - Len(s)>>
    <3>1. t[j][1] = k /\ t[j][2] = j - Len(s)
        BY <2>2
    <3>2. CASE i \in DOMAIN s /\ t[i] = s[i]
        BY <1>4, <3>1, <3>2
    <3>3. CASE i - Len(s) \in 1..InSize[k] /\ t[i] = <<k, i - Len(s)>>
      <4>1. t[i][1] = k /\ t[i][2] = i - Len(s)
          BY <3>3
      <4>2. j - Len(s) = (i - Len(s)) + (j - i)
          BY <1>1
      <4> QED
          BY <3>1, <4>1, <4>2
    <3> QED
        BY <1>3, <3>2, <3>3
  <2> QED
      BY <1>3, <2>1, <2>2
<1>7. Answers(t, more)
    BY <1>5, <1>6 DEF Answers
<1> QED
    BY <1>7 DEF more

\* What is more than the receive buffer holds is of several answers.
LEMMA TooManyAreOfSeveral ==
    ASSUME NEW s \in Seq(Byte), NEW sv, Answers(s, sv), Len(s) > RxBufSize
    PROVE  OfSeveral(s)
<1> DEFINE l == Len(s)
<1>1. /\ l \in Nat /\ l >= 1 /\ RxBufSize \in Nat /\ DOMAIN s = 1..l
      /\ 1 \in DOMAIN s /\ l \in DOMAIN s
    BY LenProperties, SizeFacts
<1>2. /\ s[1][2] \in Nat /\ s[1][2] >= 1 /\ s[l][2] \in Nat
      /\ s[l][1] \in Requests /\ InSize[s[l][1]] <= RxBufSize /\ InSize[s[l][1]] \in Nat
  <2>1. s[1] \in Byte /\ s[l] \in Byte
      BY <1>1, ByteParts
  <2>2. s[l][1] \in Requests /\ s[1][2] \in Nat \ {0} /\ s[l][2] \in Nat \ {0}
      BY <2>1 DEF Byte
  <2>3. \A k \in Requests : InSize[k] <= RxBufSize
      BY SizesAssumption, LenProperties DEF SizesAssumption, Requests
  <2> QED
      BY <2>2, <2>3, SizeFacts
<1>3. s[l][2] <= InSize[s[l][1]]
    BY <1>1 DEF Answers
<1>4. SUFFICES ASSUME s[1][1] = s[l][1] PROVE FALSE
    BY <1>1 DEF OfSeveral
<1>5. s[l][1] \in Nat
    BY <1>2, SizeFacts
<1>6. 1 < l => s[l][2] = s[1][2] + (l - 1)
    BY <1>1, <1>4, <1>5 DEF Answers
<1>7. s[l][2] >= l
    BY <1>1, <1>2, <1>6
<1> QED
    BY <1>1, <1>2, <1>3, <1>7

LEMMA ComingInit == Init => Coming
<1> SUFFICES ASSUME Init PROVE Coming
    OBVIOUS
<1>1. rxBuf = <<>> /\ sockIn = <<>>
    BY DEF Init
<1>2. DOMAIN (rxBuf \o sockIn) = {}
    BY <1>1, EmptySeq, Joined
<1> QED
    BY <1>2 DEF Coming, Answers

LEMMA ComingStep == ASSUME OutInv, InInv, Coming, [Next]_vars PROVE Coming'
<1> DEFINE all == rxBuf \o sockIn
<1>1. /\ sockIn \in Seq(Byte) /\ rxBuf \in Seq(Byte) /\ served \in Seq(Requests)
      /\ Len(rxBuf) \in Nat /\ Len(sockIn) \in Nat
    BY LenProperties DEF InInv, OutInv
<1>2. /\ all \in Seq(Byte) /\ Len(all) = Len(rxBuf) + Len(sockIn)
      /\ \A i \in 1..Len(rxBuf) : all[i] = rxBuf[i]
      /\ \A i \in 1..Len(sockIn) : all[Len(rxBuf) + i] = sockIn[i]
    BY <1>1, Joined
<1>3. Answers(all, served)
    BY DEF Coming
<1>4. <<>> \in Seq(Byte) /\ Len(<<>>) = 0
    BY EmptySeq
<1> HIDE DEF all
<1>5. ASSUME UNCHANGED <<rxBuf, sockIn, served>> PROVE Coming'
    BY <1>5 DEF Coming
\* Some of what is on its way is lost.
<1>6. ASSUME NEW n \in 0..Len(sockIn), sockIn' = SubSeq(sockIn, 1, n), UNCHANGED <<rxBuf, served>>
      PROVE  Coming'
  <2> DEFINE t == rxBuf \o sockIn'
  <2>1. /\ n \in Nat /\ n <= Len(sockIn) /\ sockIn' \in Seq(Byte) /\ Len(sockIn') = n
        /\ \A i \in 1..n : sockIn'[i] = sockIn[i]
      BY <1>1, <1>6, Suffix
  <2>2. /\ t \in Seq(Byte) /\ Len(t) = Len(rxBuf) + n
        /\ \A i \in 1..Len(rxBuf) : t[i] = rxBuf[i]
        /\ \A i \in 1..n : t[Len(rxBuf) + i] = sockIn'[i]
      BY <1>1, <2>1, Joined
  <2> HIDE DEF t
  <2>3. ASSUME NEW i \in 1..Len(t) PROVE t[i] = all[0 + i]
    <3>1. CASE i <= Len(rxBuf)
        BY <1>1, <1>2, <2>1, <2>2, <3>1
    <3>2. CASE ~(i <= Len(rxBuf))
      <4>1. PICK m \in 1..n : i = Len(rxBuf) + m
        <5>1. i - Len(rxBuf) \in 1..n /\ i = Len(rxBuf) + (i - Len(rxBuf))
            BY <1>1, <2>1, <2>2, <3>2
        <5> QED
            BY <5>1
      <4>2. m \in 1..Len(sockIn) /\ 0 + i = i
          BY <1>1, <2>1, <4>1
      <4>3. t[i] = sockIn'[m] /\ sockIn'[m] = sockIn[m] /\ all[i] = sockIn[m]
          BY <1>2, <2>1, <2>2, <4>1, <4>2, Zenon
      <4> QED
          BY <4>2, <4>3
    <3> QED
        BY <3>1, <3>2
  <2>4. 0 \in Nat /\ Len(t) + 0 <= Len(all)
      BY <1>1, <1>2, <2>1, <2>2
  <2>5. Answers(t, served)
      BY <1>2, <1>3, <2>2, <2>3, <2>4, AnswersStretch
  <2> QED
      BY <1>6, <2>5 DEF Coming, t
<1>7. ASSUME sockIn' = <<>>, UNCHANGED <<rxBuf, served>> PROVE Coming'
  <2>1. 0 \in 0..Len(sockIn) /\ SubSeq(sockIn, 1, 0) = <<>>
      BY <1>1
  <2> QED
      BY <1>6, <1>7, <2>1
<1>8. ASSUME NEW k, NEW from, NEW pending, WriteRest(k, from, pending), UNCHANGED <<rxBuf, served>>
      PROVE  Coming'
  <2>1. sockIn' = sockIn \/ sockIn' = <<>>
      BY <1>8 DEF WriteRest, NoConnection, netVars
  <2> QED
      BY <1>5, <1>7, <1>8, <2>1
<1>9. CASE \/ OnConnect \/ OnConnectFails \/ (\E k \in Requests : OnConnectThenLose(k))
           \/ Start \/ Open \/ Close \/ WaitTimeout \/ UNCHANGED vars
  <2>1. UNCHANGED <<rxBuf, sockIn, served>>
      BY <1>9 DEF OnConnect, OnConnectFails, OnConnectThenLose, Start, Open, Close, WaitTimeout,
                  vars, netVars, rxVars
  <2> QED
      BY <1>5, <2>1
<1>10. CASE Stop
    BY <1>7, <1>10 DEF Stop, NoConnection, rxVars
<1>11. CASE Break
  <2>1. PICK n \in 0..Len(sockIn) : sockIn' = SubSeq(sockIn, 1, n)
      BY <1>11 DEF Break
  <2>2. UNCHANGED <<rxBuf, served>>
      BY <1>11 DEF Break, rxVars
  <2> QED
      BY <1>6, <2>1, <2>2
<1>12. ASSUME NEW k \in Requests, DoTransaction(k) PROVE Coming'
    BY <1>8, <1>12 DEF DoTransaction, rxVars
<1>13. CASE OnWritable
  <2>1. UNCHANGED <<rxBuf, served>>
      BY <1>13 DEF OnWritable, rxVars
  <2>2. CASE txFrame = 0
      BY <1>5, <1>13, <2>1, <2>2 DEF OnWritable, netVars
  <2>3. CASE txFrame # 0
      BY <1>8, <1>13, <2>1, <2>3 DEF OnWritable
  <2> QED
      BY <2>2, <2>3
\* Bytes go from the socket to the buffer.
<1>14. ASSUME NEW r \in 1..RxBufSize, ReadSome(r) PROVE Coming'
  <2> DEFINE t == rxBuf' \o sockIn'
             got == SubSeq(sockIn, 1, r)
  <2>1. /\ r \in Nat /\ r <= Len(sockIn) /\ rxBuf' = rxBuf \o got
        /\ sockIn' = SubSeq(sockIn, r + 1, Len(sockIn)) /\ served' = served
      BY <1>1, <1>14, SizeFacts DEF ReadSome
  <2>2. /\ got \in Seq(Byte) /\ Len(got) = r /\ \A i \in 1..r : got[i] = sockIn[i]
        /\ sockIn' \in Seq(Byte) /\ Len(sockIn') = Len(sockIn) - r
        /\ \A i \in 1..(Len(sockIn) - r) : sockIn'[i] = sockIn[r + i]
      BY <1>1, <2>1, Suffix
  <2> HIDE DEF got
  <2>3. /\ rxBuf' \in Seq(Byte) /\ Len(rxBuf') = Len(rxBuf) + r
        /\ \A i \in 1..Len(rxBuf) : rxBuf'[i] = rxBuf[i]
        /\ \A i \in 1..r : rxBuf'[Len(rxBuf) + i] = got[i]
    <3>1. /\ rxBuf \o got \in Seq(Byte) /\ Len(rxBuf \o got) = Len(rxBuf) + Len(got)
          /\ \A i \in 1..Len(rxBuf) : (rxBuf \o got)[i] = rxBuf[i]
          /\ \A i \in 1..Len(got) : (rxBuf \o got)[Len(rxBuf) + i] = got[i]
        BY <1>1, <2>2, Joined
    <3>2. Len(got) = r /\ rxBuf' = rxBuf \o got
        BY <2>1, <2>2
    <3> QED
        BY <3>1, <3>2, Zenon
  <2>4. /\ t \in Seq(Byte) /\ Len(t) = Len(rxBuf') + Len(sockIn')
        /\ \A i \in 1..Len(rxBuf') : t[i] = rxBuf'[i]
        /\ \A i \in 1..Len(sockIn') : t[Len(rxBuf') + i] = sockIn'[i]
      BY <2>2, <2>3, Joined
  <2> HIDE DEF t
  <2>5. Len(t) = Len(all) /\ Len(t) + 0 <= Len(all)
      BY <1>1, <1>2, <2>1, <2>2, <2>3, <2>4
  <2>6. ASSUME NEW i \in 1..Len(t) PROVE t[i] = all[i]
    <3>1. CASE i <= Len(rxBuf)
      <4>1. i \in 1..Len(rxBuf) /\ i \in 1..Len(rxBuf')
          BY <1>1, <2>1, <2>3, <3>1
      <4>2. t[i] = rxBuf'[i] /\ rxBuf'[i] = rxBuf[i] /\ all[i] = rxBuf[i]
          BY <1>2, <2>3, <2>4, <4>1, Zenon
      <4> QED
          BY <4>2
    <3>2. CASE Len(rxBuf) < i /\ i <= Len(rxBuf) + r
      <4>1. PICK m \in 1..r : i = Len(rxBuf) + m
        <5>1. i - Len(rxBuf) \in 1..r /\ i = Len(rxBuf) + (i - Len(rxBuf))
            BY <1>1, <2>1, <3>2
        <5> QED
            BY <5>1
      <4>2. m \in 1..Len(sockIn) /\ i \in 1..Len(rxBuf')
          BY <1>1, <2>1, <2>3, <3>2, <4>1
      <4>3. t[i] = rxBuf'[i] /\ rxBuf'[i] = got[m] /\ got[m] = sockIn[m] /\ all[i] = sockIn[m]
          BY <1>2, <2>2, <2>3, <2>4, <4>1, <4>2, Zenon
      <4> QED
          BY <4>3
    <3>3. CASE Len(rxBuf) + r < i
      <4>1. PICK m \in 1..(Len(sockIn) - r) : i = Len(rxBuf') + m
        <5>1. /\ i - Len(rxBuf') \in 1..(Len(sockIn) - r)
              /\ i = Len(rxBuf') + (i - Len(rxBuf'))
            BY <1>1, <1>2, <2>1, <2>3, <2>5, <3>3
        <5> QED
            BY <5>1
      <4>2. m \in 1..Len(sockIn')
          BY <2>2
      <4>3. r + m \in 1..Len(sockIn)
          BY <1>1, <2>1
      <4>4. i = Len(rxBuf) + (r + m)
          BY <1>1, <2>1, <2>3, <4>1
      <4>5. t[i] = sockIn'[m]
          BY <2>4, <4>1, <4>2, Zenon
      <4>6. sockIn'[m] = sockIn[r + m]
          BY <2>2, Zenon
      <4>7. all[i] = sockIn[r + m]
          BY <1>2, <4>3, <4>4, Zenon
      <4> QED
          BY <4>5, <4>6, <4>7
    <3> QED
        BY <1>1, <2>1, <2>5, <3>1, <3>2, <3>3
  <2>7. ASSUME NEW i \in 1..Len(t) PROVE t[i] = all[0 + i]
      BY <1>1, <1>2, <2>5, <2>6
  <2>8. Answers(t, served)
      BY <1>2, <1>3, <2>4, <2>5, <2>7, AnswersStretch
  <2> QED
      BY <2>1, <2>8 DEF Coming, t
<1>15. CASE ReadEnd
  <2>1. rxBuf' = <<>> /\ sockIn' = <<>>
      BY <1>15 DEF ReadEnd, NoConnection
  <2>2. DOMAIN (rxBuf' \o sockIn') = {}
      BY <1>4, <2>1, Joined
  <2> QED
      BY <2>2 DEF Coming, Answers
\* The buffer is emptied.
<1>16. CASE CharTimeout
  <2> DEFINE t == <<>> \o sockIn
  <2>1. rxBuf' = <<>> /\ sockIn' = sockIn /\ served' = served
      BY <1>16 DEF CharTimeout, netVars
  <2>2. /\ t \in Seq(Byte) /\ Len(t) = Len(sockIn)
        /\ \A i \in 1..Len(sockIn) : t[i] = sockIn[i]
    <3>1. t = sockIn
        BY <1>1, ConcatEmptySeq
    <3> QED
        BY <1>1, <3>1
  <2> HIDE DEF t
  <2>3. Len(t) + Len(rxBuf) <= Len(all)
      BY <1>1, <1>2, <2>2
  <2>4. \A i \in 1..Len(t) : t[i] = all[Len(rxBuf) + i]
      BY <1>2, <2>2
  <2>5. Answers(t, served)
      BY <1>1, <1>2, <1>3, <2>2, <2>3, <2>4, AnswersStretch
  <2> QED
      BY <2>1, <2>5 DEF Coming, t
\* An answer more.
<1>17. ASSUME NEW n \in 1..Len(sockOut), ServerHears(n) PROVE Coming'
  <2>1. rxBuf' = rxBuf
      BY <1>17 DEF ServerHears, rxVars
  <2>2. CASE UNCHANGED <<served, sockIn>>
      BY <1>5, <2>1, <2>2
  <2>3. ASSUME NEW k \in Requests, served' = Append(served, k), sockIn' = sockIn \o InFrame(k)
        PROVE  Coming'
    <3> DEFINE t == rxBuf \o (sockIn \o InFrame(k))
               in == sockIn \o InFrame(k)
    <3>1. \A m \in DOMAIN served : served[m] < k
      <4>1. OutInv'
          BY OutStep
      <4>2. \A i, j \in DOMAIN served' : i < j => served'[i] < served'[j]
          BY <4>1 DEF OutInv, Order
      <4>3. /\ Len(served) \in Nat /\ DOMAIN served = 1..Len(served)
            /\ DOMAIN served' = 1..(Len(served) + 1)
            /\ \A m \in 1..Len(served) : served'[m] = served[m]
            /\ served'[Len(served) + 1] = k
          BY <1>1, <2>3, AppendProperties, LenProperties
      <4>4. ASSUME NEW m \in DOMAIN served PROVE served[m] < k
        <5>1. /\ m \in DOMAIN served' /\ Len(served) + 1 \in DOMAIN served' /\ m < Len(served) + 1
              /\ m \in 1..Len(served)
            BY <4>3
        <5> QED
            BY <4>2, <4>3, <5>1
      <4> QED
          BY <4>4
    <3>2. /\ InFrame(k) \in Seq(Byte) /\ Len(InFrame(k)) = InSize[k] /\ InSize[k] \in Nat
          /\ \A i \in 1..InSize[k] : InFrame(k)[i] = <<k, i>>
        BY Frame, SizeFacts
    <3>3. /\ in \in Seq(Byte) /\ Len(in) = Len(sockIn) + InSize[k]
          /\ \A i \in 1..Len(sockIn) : in[i] = sockIn[i]
          /\ \A i \in 1..InSize[k] : in[Len(sockIn) + i] = <<k, i>>
      <4>1. /\ in \in Seq(Byte) /\ Len(in) = Len(sockIn) + Len(InFrame(k))
            /\ \A i \in 1..Len(sockIn) : in[i] = sockIn[i]
            /\ \A i \in 1..Len(InFrame(k)) : in[Len(sockIn) + i] = InFrame(k)[i]
          BY <1>1, <3>2, Joined
      <4> HIDE DEF in
      <4> QED
          BY <3>2, <4>1
    <3>4. /\ t \in Seq(Byte) /\ Len(t) = Len(rxBuf) + Len(in)
          /\ \A i \in 1..Len(rxBuf) : t[i] = rxBuf[i]
          /\ \A i \in 1..Len(in) : t[Len(rxBuf) + i] = in[i]
        BY <1>1, <3>3, Joined
    <3> HIDE DEF t, in
    <3>5. Len(t) = Len(all) + InSize[k]
        BY <1>1, <1>2, <3>2, <3>3, <3>4
    <3>6. ASSUME NEW i \in 1..Len(all) PROVE t[i] = all[i]
      <4>1. CASE i <= Len(rxBuf)
          BY <1>1, <1>2, <3>4, <4>1
      <4>2. CASE ~(i <= Len(rxBuf))
        <5>1. PICK m \in 1..Len(sockIn) : i = Len(rxBuf) + m
          <6>1. i - Len(rxBuf) \in 1..Len(sockIn) /\ i = Len(rxBuf) + (i - Len(rxBuf))
              BY <1>1, <1>2, <4>2
          <6> QED
              BY <6>1
        <5>2. m \in 1..Len(in)
            BY <1>1, <3>2, <3>3, <5>1
        <5>3. t[i] = in[m] /\ in[m] = sockIn[m] /\ all[i] = sockIn[m]
            BY <1>2, <3>3, <3>4, <5>1, <5>2, Zenon
        <5> QED
            BY <5>3
      <4> QED
          BY <4>1, <4>2
    <3>7. ASSUME NEW i \in 1..InSize[k] PROVE t[Len(all) + i] = <<k, i>>
      <4>1. Len(sockIn) + i \in 1..Len(in) /\ Len(all) + i = Len(rxBuf) + (Len(sockIn) + i)
          BY <1>1, <1>2, <3>2, <3>3
      <4>2. /\ t[Len(all) + i] = in[Len(sockIn) + i]
            /\ in[Len(sockIn) + i] = <<k, i>>
          BY <3>3, <3>4, <4>1, Zenon
      <4> QED
          BY <4>2
    <3>8. Answers(t, Append(served, k))
        BY <1>1, <1>2, <1>3, <3>1, <3>4, <3>5, <3>6, <3>7, AnswersMore
    <3> QED
        BY <2>1, <2>3, <3>8 DEF Coming, t
  <2> QED
      BY <1>17, <2>2, <2>3 DEF ServerHears
<1> QED
    BY <1>9, <1>10, <1>11, <1>12, <1>13, <1>14, <1>15, <1>16, <1>17 DEF Next, OnData

\* How a connection that is open comes to an end.
LEMMA GivenUpStep ==
    ASSUME IInv, Coming, [Next]_vars, state = "connected", state' = "disconnected"
    PROVE  ~peerOpen \/ OfSeveral(rxBuf \o sockIn)
<1>1. timer = "none"
    BY DEF IInv, TcpInv, OneSocket
<1>2. ASSUME NEW k, NEW from, NEW pending, WriteRest(k, from, pending) PROVE ~peerOpen
    BY <1>2 DEF WriteRest
<1>3. ASSUME NEW k \in Requests, DoTransaction(k) PROVE ~peerOpen
    BY <1>2, <1>3 DEF DoTransaction
<1>4. CASE OnWritable
    BY <1>2, <1>4 DEF OnWritable
<1>5. CASE ReadEnd
  <2>1. SUFFICES ASSUME peerOpen PROVE OfSeveral(rxBuf \o sockIn)
      OBVIOUS
  <2>2. sockIn # <<>> /\ Room = 0
      BY <1>5, <2>1 DEF ReadEnd, Readable
  <2>3. rxBuf \in Seq(Byte) /\ sockIn \in Seq(Byte)
      BY DEF IInv, InInv
  <2>4. Len(sockIn) \in Nat /\ Len(sockIn) > 0
      BY <2>2, <2>3, EmptySeq, LenProperties
  <2>5. Len(rxBuf) = RxBufSize
      BY <2>2, <2>3, SizeFacts, LenProperties DEF Room, IInv, InInv
  <2>6. rxBuf \o sockIn \in Seq(Byte) /\ Len(rxBuf \o sockIn) > RxBufSize
    <3>1. rxBuf \o sockIn \in Seq(Byte) /\ Len(rxBuf \o sockIn) = Len(rxBuf) + Len(sockIn)
        BY <2>3, Joined
    <3> QED
        BY <2>4, <2>5, <3>1, SizeFacts
  <2> QED
      BY <2>6, TooManyAreOfSeveral DEF Coming
<1>6. CASE OnConnect \/ OnConnectFails \/ (\E k \in Requests : OnConnectThenLose(k)) \/ Stop \/ Start
    BY <1>1, <1>6 DEF OnConnect, Connect, OnConnectFails, ConnectFails, OnConnectThenLose,
                      ConnectThenLose, Stop, StopConnection, Start, StartConnection
<1>7. CASE \/ Open \/ Close \/ Break \/ WaitTimeout \/ (\E r \in 1..RxBufSize : ReadSome(r))
           \/ CharTimeout \/ (\E n \in 1..Len(sockOut) : ServerHears(n)) \/ UNCHANGED vars
  <2>1. UNCHANGED state
      BY <1>7 DEF Open, OtherOpens, Close, OtherCloses, Break, PeerCloses, WaitTimeout, ReadSome,
                  CharTimeout, ServerHears, vars, tcpVars
  <2> QED
      BY <2>1
<1> QED
    BY <1>3, <1>4, <1>5, <1>6, <1>7 DEF Next, OnData

\* The client gives up a connection that nobody closed only when more came
\* without a pause than one answer can have (tcp_client_read, read_from_port).
THEOREM GivenUpCorrect == Spec => GivenUpForAReason
<1> DEFINE ForAReason == state = "connected" /\ state' = "disconnected" =>
                            ~peerOpen \/ OfSeveral(rxBuf \o sockIn)
<1>1. Init => Coming
    BY ComingInit
<1>2. IInv /\ Coming /\ [Next]_vars => Coming'
    BY ComingStep DEF IInv
<1>3. IInv /\ Coming /\ [Next]_vars => [ForAReason]_vars
    BY GivenUpStep
<1> QED
    BY <1>1, <1>2, <1>3, Invariance, PTL DEF Spec, GivenUpForAReason

=============================================================================
