---------------------------- MODULE ClientProofs ----------------------------
(***************************************************************************)
(* Proofs about Client, for any number of transactions, servers, functions *)
(* and transports.  The inductive invariant IInv adds to the checked       *)
(* invariants what they rest on: the callbacks a handler has still to make *)
(* belong to one call, which has ended, and go to different procs.         *)
(***************************************************************************)
EXTENDS Client, SequenceTheorems, TLAPS

\* The callbacks outstanding: at most one to each kind of procs, all about one
\* call that was accepted, is not running and has not been reported to them.
CallsOK ==
    /\ \A i, j \in DOMAIN calls : i # j => calls[i].to # calls[j].to
    /\ \A i, j \in DOMAIN calls : calls[i].id = calls[j].id
    /\ \A i \in DOMAIN calls :
          /\ calls[i].id \in 1..Len(asked)
          /\ calls[i].id = Len(asked) => currTransaction = NoTxn
          /\ calls[i].to = "request" => requestTold[calls[i].id] = 0

\* Where each call stands, as in EachCallAccounted.
CurrentOK ==
    /\ currTransaction # NoTxn => Len(asked) > 0 /\ requestTold[Len(asked)] = 0

\* Answers on their way are answers to calls that were made.
WireOK == \A m \in wire : m.id \in 1..Len(asked)

IInv == TypeOK /\ BufferPosted /\ CallsOK /\ CurrentOK /\ EachCallAccounted /\ WireOK

USE TxnAssumption, AddrAssumption, BoundAssumption

\* The initial states satisfy the invariant: nothing is asked, nothing posted.
LEMMA InitIInv == Init => IInv
<1> SUFFICES ASSUME Init PROVE IInv
    OBVIOUS
<1>1. TypeOK
  <2>1. calls \in Seq(Callback) /\ Len(calls) <= 2
      BY DEF Init
  <2>2. asked \in Seq([txn : Txn, addr : Addr]) /\ Len(asked) <= MaxCalls
      BY DEF Init
  <2>3. 0 \in 0..MaxCalls /\ 0 \in Nat
      OBVIOUS
  <2> QED
      BY <2>1, <2>2, <2>3, Zenon DEF Init, TypeOK
<1>2. BufferPosted
    BY DEF Init, BufferPosted
<1>3. CallsOK /\ CurrentOK /\ WireOK
    BY DEF Init, CallsOK, CurrentOK, WireOK
<1>4. EachCallAccounted
    BY DEF Init, EachCallAccounted, Owed, OwedTo, Call, Current
<1> QED
    BY <1>1, <1>2, <1>3, <1>4 DEF IInv

\* The callbacks a failed transaction gives rise to.
LEMMA ErrorCallsShape ==
    ASSUME NEW id \in Call, NEW a \in Addr \cup {NoAddr}, NEW res \in Result
    PROVE  LET e == ErrorCalls(id, a, res) IN
           /\ e \in Seq(Callback) /\ Len(e) = 2 /\ DOMAIN e = {1, 2}
           /\ e[1].to = "client" /\ e[2].to = "request"
           /\ e[1].id = id /\ e[2].id = id
BY DEF ErrorCalls, Callback

\* The callbacks of a correct response.
LEMMA ResponseCallsShape ==
    ASSUME NEW id \in Call, NEW a \in Addr
    PROVE  LET e == ResponseCalls(id, a) IN
           /\ e \in Seq(Callback) /\ Len(e) = 2 /\ DOMAIN e = {1, 2}
           /\ e[1].to = "request" /\ e[2].to = "client"
           /\ e[1].id = id /\ e[2].id = id
BY DEF ResponseCalls, Callback, Result

\* The one callback of a timeout.
LEMMA TimeoutCallsShape ==
    ASSUME NEW id \in Call, NEW a \in Addr
    PROVE  LET e == TimeoutCalls(id, a) IN
           /\ e \in Seq(Callback) /\ Len(e) = 1 /\ DOMAIN e = {1}
           /\ e[1].to = "request" /\ e[1].id = id
BY DEF TimeoutCalls, Callback, Result

\* What all ways of ending the current call have in common: the transaction is
\* forgotten and some callbacks about it, the request's among them, are due.
Ending(due) ==
    /\ Idle /\ currTransaction # NoTxn
    /\ ForgetTransaction
    /\ calls' = due
    /\ due \in Seq(Callback) /\ Len(due) <= 2
    /\ \A i, j \in DOMAIN due : i # j => due[i].to # due[j].to
    /\ \A i \in DOMAIN due : due[i].id = Len(asked)
    /\ \E i \in DOMAIN due : due[i].to = "request"

\* Ending the current call preserves the invariant, its types apart.
LEMMA EndingInv ==
    ASSUME IInv, NEW due, Ending(due)
    PROVE  BufferPosted' /\ CallsOK' /\ CurrentOK' /\ EachCallAccounted'
<1> USE DEF IInv, Ending, ForgetTransaction, Idle
<1>1. BufferPosted'
    BY DEF BufferPosted, TypeOK
<1>2. Len(asked) \in Nat /\ Len(asked) > 0 /\ requestTold[Len(asked)] = 0
    BY DEF CurrentOK, TypeOK
<1>3. CallsOK'
    BY <1>2 DEF CallsOK
<1>4. CurrentOK'
    BY DEF CurrentOK
<1>5. Owed = {} /\ Owed' = {Len(asked)}
    BY DEF Owed, OwedTo
<1>6. EachCallAccounted'
    BY <1>2, <1>5 DEF EachCallAccounted, Current, TypeOK, Call
<1> QED
    BY <1>1, <1>3, <1>4, <1>6

\* Accepting a transaction preserves the invariant.
LEMMA DoTransactionInv ==
    ASSUME IInv, NEW t \in Txn, NEW a \in Addr, NEW sent \in BOOLEAN,
           DoTransaction(t, a, sent)
    PROVE  IInv'
<1> USE DEF IInv, DoTransaction
<1>1. /\ asked' \in Seq([txn : Txn, addr : Addr])
      /\ Len(asked') = Len(asked) + 1 /\ Len(asked) \in Nat
      /\ Len(asked) + 1 \in Call
  <2>1. asked \in Seq([txn : Txn, addr : Addr])
      BY DEF TypeOK
  <2>2. [txn |-> t, addr |-> a] \in [txn : Txn, addr : Addr]
      OBVIOUS
  <2>3. asked' = Append(asked, [txn |-> t, addr |-> a])
      OBVIOUS
  <2>4. Len(asked) < MaxCalls
      OBVIOUS
  <2> HIDE DEF IInv, DoTransaction
  <2> QED
      BY <2>1, <2>2, <2>3, <2>4 DEF Call
<1>2. TypeOK'
  <2>1. wire' \in SUBSET [on : Transport, id : Call]
      BY <1>1 DEF TypeOK
  <2>2. Len(asked') <= MaxCalls
      BY <1>1 DEF TypeOK
  <2> QED
      BY <1>1, <2>1, <2>2 DEF TypeOK
<1>3. BufferPosted'
    BY DEF BufferPosted, TypeOK
<1>4. Owed' = Owed /\ \A c \in Owed : c \in 1..Len(asked)
    BY DEF Owed, OwedTo, CallsOK
<1>5. CallsOK'
    BY <1>1 DEF CallsOK
<1>6. CurrentOK'
    BY <1>1 DEF CurrentOK, EachCallAccounted, TypeOK
<1>7. ~swapped => currTransaction = NoTxn
    BY DEF BufferPosted, TypeOK
<1>8. EachCallAccounted'
  <2>1. ASSUME NEW c \in Call, c > Len(asked)
        PROVE  requestTold[c] = 0 /\ c \notin Owed
      BY <2>1, <1>1, <1>4 DEF EachCallAccounted, Call
  <2>2. ASSUME NEW c \in Call, c <= Len(asked), ~swapped
        PROVE  requestTold[c] = IF c \in Owed THEN 0 ELSE 1
      BY <2>2, <1>7 DEF EachCallAccounted
  <2>3. \A c \in Call : requestTold[c] <= 1 /\ c \in Nat
      BY DEF EachCallAccounted, Call
  <2>4. /\ Current' = Len(asked) + 1 /\ currTransaction' # NoTxn
        /\ swapped' = swapped /\ requestTold' = requestTold
      BY <1>1 DEF Current
  <2> QED
      BY <1>1, <1>4, <2>1, <2>2, <2>3, <2>4 DEF EachCallAccounted
<1>9. WireOK'
  <2>1. wire' \subseteq wire \cup {[on |-> transport, id |-> Len(asked) + 1]}
      OBVIOUS
  <2>2. \A m \in wire : m.id \in 1..Len(asked)
      BY DEF WireOK
  <2>3. \A m \in wire' : m.id \in 1..(Len(asked) + 1)
      BY <1>1, <2>1, <2>2
  <2> QED
      BY <1>1, <2>3 DEF WireOK
<1> QED
    BY <1>2, <1>3, <1>5, <1>6, <1>8, <1>9

\* An answer is judged to be one of the results, from an address of a server.
LEMMA VerdictType ==
    ASSUME IInv, NEW m \in wire, NEW exc \in BOOLEAN
    PROVE  Verdict(m, exc) \in Result /\ asked[m.id].addr \in Addr
<1>1. Verdict(m, exc) \in Result
    BY DEF Verdict, Result
<1>2. m.id \in 1..Len(asked) /\ asked \in Seq([txn : Txn, addr : Addr])
    BY DEF IInv, WireOK, TypeOK
<1>3. asked[m.id] \in [txn : Txn, addr : Addr]
    BY <1>2, ElementOfSeq
<1>4. asked[m.id].addr \in Addr
    BY <1>3
<1> QED
    BY <1>1, <1>4

\* Two callbacks that end the current call.
LEMMA EndingByTwo ==
    ASSUME IInv, Idle, currTransaction # NoTxn, ForgetTransaction,
           NEW due, calls' = due,
           due \in Seq(Callback), Len(due) = 2, DOMAIN due = {1, 2},
           due[1].to # due[2].to, due[1].id = Current, due[2].id = Current,
           due[1].to = "request" \/ due[2].to = "request"
    PROVE  Ending(due)
<1>1. \E i \in DOMAIN due : due[i].to = "request"
    OBVIOUS
<1>2. \A i, j \in DOMAIN due : i # j => due[i].to # due[j].to
    OBVIOUS
<1>3. \A i \in DOMAIN due : due[i].id = Len(asked)
    BY DEF Current
<1> QED
    BY <1>1, <1>2, <1>3 DEF Ending

\* Receiving an answer to the current transaction ends it.
LEMMA ReceiveEnds ==
    ASSUME IInv, NEW m \in wire, NEW exc \in BOOLEAN, ReceiveAnswer(m, exc),
           currTransaction # NoTxn
    PROVE  \E due : Ending(due)
<1> DEFINE v == Verdict(m, exc)
           a == asked[m.id].addr
           due == IF v = "ok" THEN ResponseCalls(Current, a)
                              ELSE ErrorCalls(Current, a, v)
<1>1. v \in Result /\ a \in Addr
    BY VerdictType
<1>2. Current \in Call
    BY DEF IInv, CurrentOK, TypeOK, Current, Call
<1>3. calls' = due /\ ForgetTransaction /\ Idle
    BY DEF ReceiveAnswer
<1> HIDE DEF v, a
<1>4. CASE v = "ok"
  <2>1. due = ResponseCalls(Current, a)
      BY <1>4
  <2> HIDE DEF due
  <2> QED
      BY <2>1, <1>1, <1>2, <1>3, ResponseCallsShape, EndingByTwo
<1>5. CASE v # "ok"
  <2>1. due = ErrorCalls(Current, a, v)
      BY <1>5
  <2> HIDE DEF due
  <2> QED
      BY <2>1, <1>1, <1>2, <1>3, ErrorCallsShape, EndingByTwo
<1> QED
    BY <1>4, <1>5

\* Receiving an answer preserves the invariant.
LEMMA ReceiveAnswerInv ==
    ASSUME IInv, NEW m \in wire, NEW exc \in BOOLEAN, ReceiveAnswer(m, exc)
    PROVE  IInv'
<1>1. CASE currTransaction = NoTxn
  <2>1. TypeOK'
      BY <1>1 DEF IInv, TypeOK, ReceiveAnswer, ForgetTransaction
  <2>2. BufferPosted'
      BY <1>1 DEF IInv, TypeOK, BufferPosted, ReceiveAnswer, ForgetTransaction
  <2>3. CallsOK' /\ CurrentOK' /\ WireOK'
      BY <1>1 DEF IInv, CallsOK, CurrentOK, WireOK, ReceiveAnswer, ForgetTransaction
  <2>4. EachCallAccounted'
      BY <1>1 DEF IInv, EachCallAccounted, Current, Owed, OwedTo, ReceiveAnswer,
                  ForgetTransaction
  <2> QED
      BY <2>1, <2>2, <2>3, <2>4 DEF IInv
<1>2. CASE currTransaction # NoTxn
  <2>1. Verdict(m, exc) \in Result /\ m.id \in Call
      BY VerdictType DEF IInv, TypeOK
  <2>2. Current \in Call
      BY <1>2 DEF IInv, CurrentOK, TypeOK, Current, Call
  <2>3. /\ outcome' = [outcome EXCEPT ![Current] = Verdict(m, exc)]
        /\ answeredBy' = [answeredBy EXCEPT ![Current] =
                              IF Verdict(m, exc) = "ok" THEN m.id ELSE 0]
        /\ wire' = wire \ {m} /\ ForgetTransaction
      BY <1>2 DEF ReceiveAnswer
  <2>4. PICK due : Ending(due)
      BY <1>2, ReceiveEnds
  <2>5. BufferPosted' /\ CallsOK' /\ CurrentOK' /\ EachCallAccounted'
      BY <2>4, EndingInv
  <2>6. WireOK'
      BY <2>3 DEF IInv, WireOK, ForgetTransaction
  <2>7. TypeOK'
    <3>1. calls' \in Seq(Callback) /\ Len(calls') <= 2
        BY <2>4 DEF Ending
    <3>2. outcome' \in [Call -> Result \cup {"none"}]
        BY <2>1, <2>3 DEF IInv, TypeOK
    <3>3. answeredBy' \in [Call -> 0..MaxCalls]
      <4>1. (IF Verdict(m, exc) = "ok" THEN m.id ELSE 0) \in 0..MaxCalls
          BY <2>1 DEF Call
      <4>2. answeredBy \in [Call -> 0..MaxCalls]
          BY DEF IInv, TypeOK
      <4> QED
          BY <4>1, <4>2, <2>3
    <3>4. wire' \in SUBSET [on : Transport, id : Call]
        BY <2>3 DEF IInv, TypeOK
    <3> QED
        BY <2>3, <3>1, <3>2, <3>3, <3>4 DEF IInv, TypeOK, ForgetTransaction
  <2> QED
      BY <2>5, <2>6, <2>7 DEF IInv
<1> QED
    BY <1>1, <1>2

\* A transport error ends the current transaction.
LEMMA TransportErrorEnds == ASSUME IInv, TransportError PROVE \E due : Ending(due)
<1> DEFINE due == ErrorCalls(Current, NoAddr, "transport")
<1>1. Current \in Call /\ Current = Len(asked)
    BY DEF IInv, CurrentOK, TypeOK, Current, Call, TransportError
<1>2. /\ due \in Seq(Callback) /\ Len(due) = 2 /\ DOMAIN due = {1, 2}
      /\ due[1].to = "client" /\ due[2].to = "request"
      /\ due[1].id = Current /\ due[2].id = Current
    BY <1>1, ErrorCallsShape DEF Result
<1>3. Ending(due)
  <2>1. /\ Idle /\ currTransaction # NoTxn /\ ForgetTransaction /\ calls' = due
      BY DEF TransportError
  <2> HIDE DEF due
  <2> QED
      BY <1>2, <2>1, EndingByTwo
<1> QED
    BY <1>3

\* A transport error preserves the invariant.
LEMMA TransportErrorInv == ASSUME IInv, TransportError PROVE IInv'
<1>1. Current \in Call
    BY DEF IInv, CurrentOK, TypeOK, Current, Call, TransportError
<1>3. PICK due : Ending(due)
    BY TransportErrorEnds
<1>4. BufferPosted' /\ CallsOK' /\ CurrentOK' /\ EachCallAccounted'
    BY <1>3, EndingInv
<1>5. WireOK'
    BY DEF IInv, WireOK, TransportError, ForgetTransaction
<1>6. TypeOK'
  <2>1. calls' \in Seq(Callback) /\ Len(calls') <= 2
      BY <1>3 DEF Ending
  <2>2. outcome' \in [Call -> Result \cup {"none"}]
      BY <1>1 DEF IInv, TypeOK, TransportError, Result
  <2> QED
      BY <2>1, <2>2 DEF IInv, TypeOK, TransportError, ForgetTransaction
<1> QED
    BY <1>4, <1>5, <1>6 DEF IInv

\* The response timeout ends the current transaction.
LEMMA TimeoutEnds ==
    ASSUME IInv, WaitTimeout, currTransaction # NoTxn
    PROVE  \E due : Ending(due)
<1> DEFINE due == TimeoutCalls(Current, currAddr)
<1>1. Current \in Call /\ Current = Len(asked) /\ currAddr \in Addr
    BY DEF IInv, CurrentOK, TypeOK, Current, Call
<1>2. /\ due \in Seq(Callback) /\ Len(due) = 1 /\ DOMAIN due = {1}
      /\ due[1].to = "request" /\ due[1].id = Current
    BY <1>1, TimeoutCallsShape
<1>3. calls' = due /\ Idle /\ ForgetTransaction
    BY DEF WaitTimeout
<1> HIDE DEF due
<1>4. Ending(due)
    BY <1>1, <1>2, <1>3 DEF Ending
<1> QED
    BY <1>4

\* The response timeout preserves the invariant.
LEMMA WaitTimeoutInv == ASSUME IInv, WaitTimeout PROVE IInv'
<1>1. CASE currTransaction = NoTxn
  <2>1. TypeOK'
      BY <1>1 DEF IInv, TypeOK, WaitTimeout, ForgetTransaction
  <2>2. BufferPosted'
      BY <1>1 DEF IInv, TypeOK, BufferPosted, WaitTimeout, ForgetTransaction
  <2>3. CallsOK' /\ CurrentOK' /\ WireOK'
      BY <1>1 DEF IInv, CallsOK, CurrentOK, WireOK, WaitTimeout, ForgetTransaction
  <2>4. EachCallAccounted'
      BY <1>1 DEF IInv, EachCallAccounted, Current, Owed, OwedTo, WaitTimeout,
                  ForgetTransaction
  <2> QED
      BY <2>1, <2>2, <2>3, <2>4 DEF IInv
<1>2. CASE currTransaction # NoTxn
  <2>1. Current \in Call
      BY <1>2 DEF IInv, CurrentOK, TypeOK, Current, Call
  <2>3. /\ ForgetTransaction
        /\ outcome' = [outcome EXCEPT ![Current] = "timeout"]
        /\ UNCHANGED <<wire, answeredBy>>
      BY <1>2 DEF WaitTimeout
  <2>4. PICK due : Ending(due)
      BY <1>2, TimeoutEnds
  <2>5. BufferPosted' /\ CallsOK' /\ CurrentOK' /\ EachCallAccounted'
      BY <2>4, EndingInv
  <2>6. WireOK'
      BY <2>3 DEF IInv, WireOK, ForgetTransaction
  <2>7. outcome' \in [Call -> Result \cup {"none"}]
      BY <2>1, <2>3 DEF IInv, TypeOK, Result
  <2>8. TypeOK'
    <3>1. calls' \in Seq(Callback) /\ Len(calls') <= 2
        BY <2>4 DEF Ending
    <3> QED
        BY <2>3, <2>7, <3>1 DEF IInv, TypeOK, ForgetTransaction
  <2> QED
      BY <2>5, <2>6, <2>8 DEF IInv
<1> QED
    BY <1>1, <1>2

\* Losing an answer preserves the invariant.
LEMMA LoseAnswerInv == ASSUME IInv, NEW m \in wire, LoseAnswer(m) PROVE IInv'
<1> USE DEF LoseAnswer, clientVars, ghostVars
<1>1. TypeOK'
    BY DEF IInv, TypeOK
<1>2. BufferPosted' /\ CallsOK' /\ CurrentOK' /\ WireOK'
    BY DEF IInv, BufferPosted, CallsOK, CurrentOK, WireOK
<1>3. EachCallAccounted'
    BY DEF IInv, EachCallAccounted, Owed, OwedTo, Current
<1> QED
    BY <1>1, <1>2, <1>3 DEF IInv

\* Changing the transport preserves the invariant.
LEMMA SetTransportInv == ASSUME IInv, NEW tr \in Transport, SetTransport(tr) PROVE IInv'
<1> USE DEF SetTransport, ghostVars
<1>1. TypeOK'
  <2>1. swapped' \in BOOLEAN
      BY DEF IInv, TypeOK
  <2> QED
      BY <2>1 DEF IInv, TypeOK
<1>2. BufferPosted'
    BY DEF IInv, TypeOK, BufferPosted
<1>3. CallsOK' /\ CurrentOK' /\ WireOK'
    BY DEF IInv, CallsOK, CurrentOK, WireOK
<1>4. EachCallAccounted'
    BY DEF IInv, EachCallAccounted, Owed, OwedTo, Current
<1> QED
    BY <1>1, <1>2, <1>3, <1>4 DEF IInv

\* A callback that returns preserves the invariant.
LEMMA CallbackReturnsInv == ASSUME IInv, CallbackReturns PROVE IInv'
<1> USE DEF CallbackReturns, clientVars, ghostVars
<1>1. TypeOK'
    BY DEF IInv, TypeOK
<1>2. BufferPosted' /\ CallsOK' /\ CurrentOK' /\ WireOK'
    BY DEF IInv, BufferPosted, CallsOK, CurrentOK, WireOK
<1>3. EachCallAccounted'
    BY DEF IInv, EachCallAccounted, Owed, OwedTo, Current
<1> QED
    BY <1>1, <1>2, <1>3 DEF IInv

\* What Head and Tail are, for any sequence.
LEMMA HeadAndTail ==
    ASSUME NEW S, NEW s \in Seq(S), s # <<>>
    PROVE  /\ Head(s) = s[1] /\ s[1] \in S /\ 1 \in DOMAIN s
           /\ Tail(s) \in Seq(S) /\ Len(Tail(s)) = Len(s) - 1
           /\ \A i \in DOMAIN Tail(s) :
                 i + 1 \in DOMAIN s /\ i + 1 # 1 /\ Tail(s)[i] = s[i + 1]
           /\ \A i \in DOMAIN s : i # 1 =>
                 i - 1 \in DOMAIN Tail(s) /\ Tail(s)[i - 1] = s[i]
OBVIOUS

\* The callback that is made next, and what it leaves to be made.
LEMMA NextCallback ==
    ASSUME TypeOK, calls # <<>>
    PROVE  /\ Head(calls) = calls[1] /\ calls[1] \in Callback
           /\ 1 \in DOMAIN calls
           /\ Tail(calls) \in Seq(Callback) /\ Len(Tail(calls)) <= 2
           /\ \A i \in DOMAIN Tail(calls) :
                 i + 1 \in DOMAIN calls /\ i + 1 # 1 /\ Tail(calls)[i] = calls[i + 1]
           /\ \A i \in DOMAIN calls : i # 1 =>
                 i - 1 \in DOMAIN Tail(calls) /\ Tail(calls)[i - 1] = calls[i]
<1> HIDE DEF Callback
<1>1. calls \in Seq(Callback) /\ Len(calls) <= 2 /\ Len(calls) \in Nat
    BY DEF TypeOK
<1>2. Len(Tail(calls)) = Len(calls) - 1
    BY <1>1, HeadAndTail
<1>3. Len(Tail(calls)) <= 2
    BY <1>1, <1>2
<1> QED
    BY <1>1, <1>3, HeadAndTail

\* Making a callback to a request's procs settles what was owed to it;
\* making one to the client's procs changes nothing in that.
LEMMA MakeCallbackOwed ==
    ASSUME IInv, MakeCallback
    PROVE  /\ Head(calls).to = "request" =>
                Head(calls).id \in Owed /\ Owed' = Owed \ {Head(calls).id}
           /\ Head(calls).to # "request" => Owed' = Owed
<1>1. /\ Head(calls) = calls[1] /\ 1 \in DOMAIN calls
      /\ \A i \in DOMAIN calls' :
            i + 1 \in DOMAIN calls /\ i + 1 # 1 /\ calls'[i] = calls[i + 1]
      /\ \A i \in DOMAIN calls : i # 1 =>
            i - 1 \in DOMAIN calls' /\ calls'[i - 1] = calls[i]
    BY NextCallback DEF IInv, MakeCallback
<1>2. \A i, j \in DOMAIN calls : i # j => calls[i].to # calls[j].to
    BY DEF IInv, CallsOK
<1>3. CASE calls[1].to = "request"
  <2>1. Owed = {calls[1].id}
      BY <1>1, <1>2, <1>3 DEF Owed, OwedTo
  <2>2. Owed' = {}
      BY <1>1, <1>2, <1>3 DEF Owed, OwedTo
  <2> QED
      BY <1>1, <1>3, <2>1, <2>2
<1>4. CASE calls[1].to # "request"
  <2>1. \A c : c \in Owed => c \in Owed'
      BY <1>1, <1>4 DEF Owed, OwedTo
  <2>2. \A c : c \in Owed' => c \in Owed
      BY <1>1 DEF Owed, OwedTo
  <2> QED
      BY <1>1, <1>4, <2>1, <2>2
<1> QED
    BY <1>3, <1>4

\* Making a callback preserves the invariant.
LEMMA MakeCallbackInv == ASSUME IInv, MakeCallback PROVE IInv'
<1> DEFINE f == Head(calls)
<1>1. /\ f = calls[1] /\ f \in Callback /\ 1 \in DOMAIN calls
      /\ calls' = Tail(calls)
      /\ calls' \in Seq(Callback) /\ Len(calls') <= 2
      /\ \A i \in DOMAIN calls' :
            i + 1 \in DOMAIN calls /\ i + 1 # 1 /\ calls'[i] = calls[i + 1]
    BY NextCallback DEF IInv, MakeCallback
<1>2. /\ f.id \in Call /\ f.id \in 1..Len(asked)
      /\ f.id = Len(asked) => currTransaction = NoTxn
      /\ f.to = "request" => requestTold[f.id] = 0
    BY <1>1 DEF IInv, CallsOK, Callback
<1>3. /\ UNCHANGED <<transport, rxPdu, currAddr, currTransaction, swapped, wire,
                     asked, outcome, answeredBy>>
      /\ inCallback' = TRUE
    BY DEF MakeCallback, clientVars
<1>4. requestTold' = IF f.to = "request" THEN [requestTold EXCEPT ![f.id] = @ + 1]
                                         ELSE requestTold
    BY DEF MakeCallback
<1>5. clientTold' \in [Call -> Nat] /\ requestTold' \in [Call -> Nat]
  <2>1. clientTold' = clientTold \/ clientTold' = [clientTold EXCEPT ![f.id] = @ + 1]
      BY DEF MakeCallback
  <2> HIDE DEF f, Call
  <2>2. f.id \in Call /\ clientTold \in [Call -> Nat] /\ requestTold \in [Call -> Nat]
      BY <1>2 DEF IInv, TypeOK
  <2>3. clientTold' \in [Call -> Nat]
      BY <2>1, <2>2
  <2>4. requestTold' \in [Call -> Nat]
      BY <1>4, <2>2
  <2> QED
      BY <2>3, <2>4
<1>6. TypeOK'
    BY <1>1, <1>3, <1>5 DEF IInv, TypeOK
<1>7. BufferPosted' /\ WireOK'
    BY <1>3 DEF IInv, BufferPosted, WireOK
<1>8. CurrentOK'
    BY <1>2, <1>3, <1>4 DEF IInv, CurrentOK, TypeOK
<1>9. CallsOK'
  <2>1. \A i, j \in DOMAIN calls' : i # j => calls'[i].to # calls'[j].to
      BY <1>1 DEF IInv, CallsOK, TypeOK
  <2>2. \A i, j \in DOMAIN calls' : calls'[i].id = calls'[j].id
      BY <1>1 DEF IInv, CallsOK
  <2>3. ASSUME NEW i \in DOMAIN calls'
        PROVE  /\ calls'[i].id \in 1..Len(asked')
               /\ calls'[i].id = Len(asked') => currTransaction' = NoTxn
               /\ calls'[i].to = "request" => requestTold'[calls'[i].id] = 0
    <3>1. /\ i + 1 \in DOMAIN calls /\ i + 1 # 1 /\ calls'[i] = calls[i + 1]
          /\ calls[i + 1].to # calls[1].to
        BY <1>1 DEF IInv, CallsOK
    <3>2. calls'[i].to = "request" => requestTold' = requestTold
        BY <1>1, <1>4, <3>1
    <3> QED
        BY <1>3, <3>1, <3>2 DEF IInv, CallsOK
  <2> QED
      BY <2>1, <2>2, <2>3 DEF CallsOK
<1>10. EachCallAccounted'
  <2> HIDE DEF f
  <2>1. \A c \in Call : c # f.id => requestTold'[c] = requestTold[c]
      BY <1>2, <1>4 DEF IInv, TypeOK
  <2>2. f.to = "request" => requestTold'[f.id] = 1
      BY <1>2, <1>4 DEF IInv, TypeOK
  <2>3. /\ f.to = "request" => f.id \in Owed /\ Owed' = Owed \ {f.id}
        /\ f.to # "request" => Owed' = Owed
      BY MakeCallbackOwed DEF f
  <2>4. Current' = Current /\ Current = Len(asked)
      BY <1>3 DEF Current
  <2>5. CASE f.to = "request"
    <3>1. f.id \notin Owed' /\ \A c \in Call : c # f.id => (c \in Owed' <=> c \in Owed)
        BY <2>3, <2>5
    <3>2. /\ requestTold'[f.id] <= 1 /\ ~(f.id > Len(asked))
          /\ ~(f.id = Current /\ currTransaction # NoTxn)
        BY <1>2, <2>2, <2>4, <2>5 DEF IInv, TypeOK
    <3>3. asked' = asked /\ currTransaction' = currTransaction /\ swapped' = swapped
        BY <1>3
    <3>4. EachCallAccounted
        BY DEF IInv
    <3> QED
        BY <2>1, <2>2, <2>4, <2>5, <3>1, <3>2, <3>3, <3>4 DEF EachCallAccounted
  <2>6. CASE f.to # "request"
      BY <1>3, <1>4, <2>3, <2>4, <2>6 DEF IInv, EachCallAccounted
  <2> QED
      BY <2>5, <2>6
<1> QED
    BY <1>6, <1>7, <1>8, <1>9, <1>10 DEF IInv

\* The invariant is inductive.
LEMMA NextIInv == IInv /\ [Next]_vars => IInv'
<1> SUFFICES ASSUME IInv, [Next]_vars PROVE IInv'
    OBVIOUS
<1>1. ASSUME NEW t \in Txn, NEW a \in Addr, NEW sent \in BOOLEAN, DoTransaction(t, a, sent)
      PROVE  IInv'
    BY <1>1, DoTransactionInv
<1>2. ASSUME NEW m \in wire, NEW exc \in BOOLEAN, ReceiveAnswer(m, exc) PROVE IInv'
    BY <1>2, ReceiveAnswerInv
<1>3. ASSUME NEW m \in wire, LoseAnswer(m) PROVE IInv'
    BY <1>3, LoseAnswerInv
<1>4. CASE TransportError
    BY <1>4, TransportErrorInv
<1>5. CASE WaitTimeout
    BY <1>5, WaitTimeoutInv
<1>6. ASSUME NEW tr \in Transport, SetTransport(tr) PROVE IInv'
    BY <1>6, SetTransportInv
<1>7. CASE MakeCallback
    BY <1>7, MakeCallbackInv
<1>8. CASE CallbackReturns
    BY <1>8, CallbackReturnsInv
<1>9. CASE UNCHANGED vars
  <2> USE <1>9 DEF vars, clientVars, ghostVars
  <2>1. TypeOK' /\ BufferPosted' /\ CallsOK' /\ CurrentOK' /\ WireOK'
      BY DEF IInv, TypeOK, BufferPosted, CallsOK, CurrentOK, WireOK
  <2>2. EachCallAccounted'
      BY DEF IInv, EachCallAccounted, Owed, OwedTo, Current
  <2> QED
      BY <2>1, <2>2 DEF IInv
<1> QED
    BY <1>1, <1>2, <1>3, <1>4, <1>5, <1>6, <1>7, <1>8, <1>9 DEF Next

\* The inductive invariant holds of every behaviour.
THEOREM Invariance == Spec => []IInv
BY InitIInv, NextIInv, PTL DEF Spec

\* Every variable of the client keeps its type, and the client is busy exactly
\* while a response buffer is posted (emb_client_do_transaction and the handlers).
THEOREM InvCorrect == Spec => []Inv
<1>1. IInv => Inv
    BY DEF IInv, Inv
<1> QED
    BY <1>1, Invariance, PTL

\* No accepted transaction is lost or reported twice.
THEOREM CallsAccounted == Spec => []EachCallAccounted
<1>1. IInv => EachCallAccounted
    BY DEF IInv
<1> QED
    BY <1>1, Invariance, PTL

-----------------------------------------------------------------------------
\* The promise's variables as KeepsPromise instantiates them.
InFlight == IF currTransaction = NoTxn THEN 0 ELSE Len(asked)
Reported == {c \in Call : requestTold[c] > 0}

\* The initial states keep the promise's initial condition.
LEMMA InitPromise == Init => Promise!Init
BY DEF Init, Promise!Init, Owed, OwedTo, Call

\* Accepting a transaction is the promise's Accept.
LEMMA AcceptStep ==
    ASSUME IInv, NEW t \in Txn, NEW a \in Addr, NEW sent \in BOOLEAN,
           DoTransaction(t, a, sent), ~swapped
    PROVE  Promise!Accept
<1>1. Len(asked') = Len(asked) + 1 /\ Len(asked) < MaxCalls
    BY DEF DoTransaction, IInv, TypeOK
<1>2. currTransaction = NoTxn /\ currTransaction' # NoTxn
    BY DEF DoTransaction, IInv, BufferPosted, TypeOK
<1>3. UNCHANGED <<calls, requestTold>>
    BY DEF DoTransaction
<1> QED
    BY <1>1, <1>2, <1>3 DEF Promise!Accept, Owed, OwedTo

\* Ending the current call, in whichever way, is the promise's End.
LEMMA EndStep ==
    ASSUME IInv, NEW due, Ending(due)
    PROVE  Promise!End
<1>1. Owed = {} /\ Owed' = {Len(asked)}
    BY DEF Owed, OwedTo, Ending, Idle
<1>2. Len(asked) # 0
    BY DEF IInv, CurrentOK, Ending, TypeOK
<1>3. /\ currTransaction # NoTxn /\ currTransaction' = NoTxn
      /\ UNCHANGED <<asked, requestTold>>
    BY DEF Ending, ForgetTransaction
<1> QED
    BY <1>1, <1>2, <1>3 DEF Promise!End

\* Making a callback is the promise's Report, or nothing to it.
LEMMA ReportStep ==
    ASSUME IInv, MakeCallback
    PROVE  (\E c \in Owed : Promise!Report(c)) \/ UNCHANGED Promise!vars
<1> DEFINE f == Head(calls)
<1>1. UNCHANGED <<asked, currTransaction>>
    BY DEF MakeCallback, clientVars
<1>2. CASE f.to = "request"
  <2>1. f.id \in Owed /\ Owed' = Owed \ {f.id}
      BY <1>2, MakeCallbackOwed
  <2>2. f.id \in Call /\ requestTold' = [requestTold EXCEPT ![f.id] = @ + 1]
      BY <1>2, NextCallback DEF MakeCallback, IInv, Callback
  <2>3. Reported' = Reported \cup {f.id}
      BY <2>2 DEF Reported, IInv, TypeOK
  <2>4. Promise!Report(f.id)
      BY <1>1, <2>1, <2>3 DEF Promise!Report, Reported
  <2> QED
      BY <2>1, <2>4 DEF Promise!Report
<1>3. CASE f.to # "request"
  <2>1. Owed' = Owed /\ requestTold' = requestTold
      BY <1>3, MakeCallbackOwed DEF MakeCallback
  <2>2. Reported' = Reported
      BY <2>1 DEF Reported
  <2>3. UNCHANGED Promise!vars
      BY <1>1, <2>1, <2>2 DEF Promise!vars, Reported
  <2> QED
      BY <2>3
<1> QED
    BY <1>2, <1>3

\* Every step of the client is a step of the promise or nothing to it, or
\* follows a change of the transport under a transaction.
LEMMA NextPromise == IInv /\ [Next]_vars => [Promise!Next \/ swapped']_(Promise!vars)
<1> SUFFICES ASSUME IInv, [Next]_vars
             PROVE  Promise!Next \/ swapped' \/ UNCHANGED Promise!vars
    OBVIOUS
<1>1. ASSUME NEW t \in Txn, NEW a \in Addr, NEW sent \in BOOLEAN, DoTransaction(t, a, sent)
      PROVE  Promise!Next \/ swapped'
  <2>1. CASE swapped
      BY <1>1, <2>1 DEF DoTransaction
  <2>2. CASE ~swapped
      BY <1>1, <2>2, AcceptStep DEF Promise!Next
  <2> QED
      BY <2>1, <2>2
<1>2. ASSUME ForgetTransaction, Idle, currTransaction = NoTxn, UNCHANGED calls
      PROVE  UNCHANGED Promise!vars
    BY <1>2 DEF ForgetTransaction, Promise!vars, Owed, OwedTo
<1>3. ASSUME NEW m \in wire, NEW exc \in BOOLEAN, ReceiveAnswer(m, exc)
      PROVE  Promise!Next \/ UNCHANGED Promise!vars
  <2>1. CASE currTransaction = NoTxn
      BY <1>2, <1>3, <2>1 DEF ReceiveAnswer
  <2>2. CASE currTransaction # NoTxn
      BY <1>3, <2>2, ReceiveEnds, EndStep DEF Promise!Next
  <2> QED
      BY <2>1, <2>2
<1>4. ASSUME NEW m \in wire, LoseAnswer(m) PROVE UNCHANGED Promise!vars
    BY <1>4 DEF LoseAnswer, clientVars, ghostVars, Promise!vars, Owed, OwedTo
<1>5. CASE TransportError
    BY <1>5, TransportErrorEnds, EndStep DEF Promise!Next
<1>6. ASSUME WaitTimeout PROVE Promise!Next \/ UNCHANGED Promise!vars
  <2>1. CASE currTransaction = NoTxn
      BY <1>2, <1>6, <2>1 DEF WaitTimeout
  <2>2. CASE currTransaction # NoTxn
      BY <1>6, <2>2, TimeoutEnds, EndStep DEF Promise!Next
  <2> QED
      BY <2>1, <2>2
<1>7. ASSUME NEW tr \in Transport, SetTransport(tr) PROVE UNCHANGED Promise!vars
    BY <1>7 DEF SetTransport, ghostVars, Promise!vars, Owed, OwedTo
<1>8. CASE MakeCallback
    BY <1>8, ReportStep DEF Promise!Next
<1>9. CASE CallbackReturns
    BY <1>9 DEF CallbackReturns, clientVars, ghostVars, Promise!vars, Owed, OwedTo
<1>10. CASE UNCHANGED vars
    BY <1>10 DEF vars, clientVars, ghostVars, Promise!vars, Owed, OwedTo
<1> QED
    BY <1>1, <1>3, <1>4, <1>5, <1>6, <1>7, <1>8, <1>9, <1>10 DEF Next

\* The client implements MasterPromise as long as its transport is not changed
\* under a transaction.
THEOREM PromiseKept == Spec => KeepsPromise
BY InitPromise, Invariance, NextPromise, PTL DEF Spec, KeepsPromise

-----------------------------------------------------------------------------
(***************************************************************************)
(* What the reports of Client say: whose answer a call got, which address  *)
(* is reported, and how often the client's own callbacks are called.       *)
(***************************************************************************)
\* The call that runs is the last one, and nothing is known of its end.
Known ==
    /\ Len(asked) > 0 => asked[Len(asked)].addr = currAddr
    /\ currTransaction # NoTxn =>
          /\ Len(asked) > 0 /\ asked[Len(asked)].txn = currTransaction
          /\ outcome[Len(asked)] = "none"
    /\ \A c \in Call : c > Len(asked) => outcome[c] = "none"

\* A server answers a call once, so that a call which succeeded although its
\* answer is still on its way got another one's.
OneAnswer ==
    /\ \A m, n \in wire : m.id = n.id => m = n
    /\ \A m \in wire : outcome[m.id] = "ok" => answeredBy[m.id] # m.id

\* GenuineAnswer, and that the answer was to no later call.
Like(d, c) == /\ asked[d].addr = asked[c].addr
              /\ FuncOf[asked[d].txn] = FuncOf[asked[c].txn]
Genuine ==
    \A c \in Call : outcome[c] = "ok" =>
        /\ answeredBy[c] \in 1..c
        /\ Like(answeredBy[c], c)
        /\ answeredBy[c] # c => \E e \in 1..(c - 1) : Like(e, c) /\ outcome[e] # "ok"

\* AddressReported, for all the callbacks that are due: an address that is
\* read when the callback is made (emb_client_on_error) is a stale one for the
\* request only, the client's own callback being the first.
Addressed ==
    \A i \in DOMAIN calls :
        IF calls[i].addr = NoAddr
        THEN /\ calls[i].res = "transport"
             /\ calls[i].to # "request" => i = 1 /\ ~inCallback /\ calls[i].id = Len(asked)
        ELSE calls[i].res = "wrong_address" \/ calls[i].addr = asked[calls[i].id].addr

AInv == Known /\ OneAnswer /\ Genuine /\ Addressed /\ ClientCallbackOnce

-----------------------------------------------------------------------------
\* The steps of the client, as far as they bear on reports.  A transaction is
\* accepted:
Accepts(t, a) ==
    /\ calls = <<>> \/ inCallback
    /\ currAddr' = a /\ currTransaction' = t
    /\ asked' = Append(asked, [txn |-> t, addr |-> a])
    /\ Len(asked) + 1 \in Call
    /\ \A m \in wire' : m \in wire \/ m = [on |-> transport, id |-> Len(asked) + 1]
    /\ UNCHANGED <<calls, inCallback, outcome, answeredBy, clientTold>>

\* it ends with result v, and the callbacks that are due say so:
Ends(v) ==
    /\ v \in Result
    /\ calls = <<>> /\ ~inCallback /\ ~inCallback'
    /\ currTransaction # NoTxn /\ currTransaction' = NoTxn
    /\ outcome' = [outcome EXCEPT ![Len(asked)] = v]
    /\ \A c \in Call : c # Len(asked) => answeredBy'[c] = answeredBy[c]
    /\ wire' \subseteq wire
    /\ v = "ok" => \E m \in wire \ wire' :
          /\ answeredBy'[Len(asked)] = m.id
          /\ asked[m.id].addr = currAddr
          /\ FuncOf[asked[m.id].txn] = FuncOf[currTransaction]
    /\ UNCHANGED <<asked, currAddr, clientTold>>

Due(v) ==
    /\ \A i \in DOMAIN calls' :
          /\ calls'[i].id = Len(asked)
          /\ IF calls'[i].addr = NoAddr
             THEN calls'[i].res = "transport" /\ (calls'[i].to # "request" => i = 1)
             ELSE calls'[i].res = "wrong_address" \/ calls'[i].addr = currAddr
    /\ (\E i \in DOMAIN calls' : calls'[i].to = "client") <=> v # "timeout"

\* or nothing happens that is reported.
Quiet ==
    /\ currTransaction' = currTransaction \/ currTransaction' = NoTxn
    /\ inCallback' => inCallback
    /\ wire' \subseteq wire
    /\ UNCHANGED <<asked, currAddr, calls, outcome, answeredBy, clientTold>>

LEMMA AcceptsStep ==
    ASSUME IInv, NEW t \in Txn, NEW a \in Addr, NEW sent \in BOOLEAN, DoTransaction(t, a, sent)
    PROVE  Accepts(t, a)
<1>1. Len(asked) + 1 \in Call
  <2>1. Len(asked) \in Nat /\ Len(asked) < MaxCalls
      BY LenProperties DEF IInv, TypeOK, DoTransaction
  <2> QED
      BY <2>1, BoundAssumption DEF Call, BoundAssumption
<1>2. wire' = wire \/ wire' = wire \cup {[on |-> transport, id |-> Len(asked) + 1]}
    BY DEF DoTransaction
<1> QED
    BY <1>1, <1>2 DEF DoTransaction, Accepts

\* The current call, while there is one.
LEMMA CurrentCall ==
    ASSUME IInv, currTransaction # NoTxn
    PROVE  Current = Len(asked) /\ Current \in Call /\ currAddr \in Addr /\ currAddr # NoAddr
BY AddrAssumption DEF IInv, CurrentOK, TypeOK, Current, Call, AddrAssumption

LEMMA ReceiveStep ==
    ASSUME IInv, NEW m \in wire, NEW exc \in BOOLEAN, ReceiveAnswer(m, exc),
           currTransaction # NoTxn
    PROVE  \E v : Ends(v) /\ Due(v)
<1> DEFINE v == Verdict(m, exc)
           a == asked[m.id].addr
<1>1. v \in Result /\ a \in Addr /\ a # NoAddr
    BY VerdictType, AddrAssumption DEF AddrAssumption
<1>2. Current = Len(asked) /\ Current \in Call
    BY CurrentCall
<1>3. /\ calls' = IF v = "ok" THEN ResponseCalls(Current, a) ELSE ErrorCalls(Current, a, v)
      /\ outcome' = [outcome EXCEPT ![Current] = v]
      /\ answeredBy' = [answeredBy EXCEPT ![Current] = IF v = "ok" THEN m.id ELSE 0]
      /\ wire' = wire \ {m} /\ Idle /\ ForgetTransaction
    BY DEF ReceiveAnswer
<1>4. /\ v # "timeout"
      /\ v = "wrong_address" \/ a = currAddr
      /\ v = "ok" => FuncOf[asked[m.id].txn] = FuncOf[currTransaction]
    BY DEF Verdict
<1>5. answeredBy \in [Call -> 0..MaxCalls]
    BY DEF IInv, TypeOK
<1> HIDE DEF v, a
<1>6. /\ \A c \in Call : c # Current => answeredBy'[c] = answeredBy[c]
      /\ v = "ok" => answeredBy'[Current] = m.id
    BY <1>2, <1>3, <1>5
<1>7. Ends(v)
    BY <1>1, <1>2, <1>3, <1>4, <1>6 DEF Ends, Idle, ForgetTransaction, a
<1>8. Due(v)
    BY <1>1, <1>2, <1>3, <1>4 DEF Due, ResponseCalls, ErrorCalls
<1> QED
    BY <1>7, <1>8

LEMMA ErrorStep == ASSUME IInv, TransportError PROVE \E v : Ends(v) /\ Due(v)
<1>1. Current = Len(asked) /\ currTransaction # NoTxn
    BY CurrentCall DEF TransportError
<1>2. /\ calls' = ErrorCalls(Current, NoAddr, "transport")
      /\ outcome' = [outcome EXCEPT ![Current] = "transport"]
      /\ UNCHANGED <<wire, answeredBy>> /\ Idle /\ ForgetTransaction
    BY DEF TransportError
<1>3. Ends("transport")
    BY <1>1, <1>2 DEF Ends, Idle, ForgetTransaction, Result
<1>4. Due("transport")
    BY <1>1, <1>2 DEF Due, ErrorCalls
<1> QED
    BY <1>3, <1>4

LEMMA TimeoutStep ==
    ASSUME IInv, WaitTimeout, currTransaction # NoTxn PROVE \E v : Ends(v) /\ Due(v)
<1>1. Current = Len(asked) /\ currAddr # NoAddr
    BY CurrentCall
<1>2. /\ calls' = TimeoutCalls(Current, currAddr)
      /\ outcome' = [outcome EXCEPT ![Current] = "timeout"]
      /\ UNCHANGED <<wire, answeredBy>> /\ Idle /\ ForgetTransaction
    BY DEF WaitTimeout
<1>3. Ends("timeout")
    BY <1>1, <1>2 DEF Ends, Idle, ForgetTransaction, Result
<1>4. Due("timeout")
    BY <1>1, <1>2 DEF Due, TimeoutCalls
<1> QED
    BY <1>3, <1>4

LEMMA Steps ==
    ASSUME IInv, [Next]_vars
    PROVE  \/ \E t \in Txn, a \in Addr : Accepts(t, a)
           \/ \E v : Ends(v) /\ Due(v)
           \/ Quiet
           \/ MakeCallback
<1>1. ASSUME NEW t \in Txn, NEW a \in Addr, NEW sent \in BOOLEAN, DoTransaction(t, a, sent)
      PROVE  \E u \in Txn, b \in Addr : Accepts(u, b)
    BY <1>1, AcceptsStep
<1>2. ASSUME NEW m \in wire, NEW exc \in BOOLEAN, ReceiveAnswer(m, exc)
      PROVE  Quiet \/ \E v : Ends(v) /\ Due(v)
  <2>1. CASE currTransaction = NoTxn
      BY <1>2, <2>1 DEF ReceiveAnswer, ForgetTransaction, Quiet
  <2> QED
      BY <1>2, <2>1, ReceiveStep
<1>3. CASE TransportError
    BY <1>3, ErrorStep
<1>4. CASE WaitTimeout
  <2>1. CASE currTransaction = NoTxn
      BY <1>4, <2>1 DEF WaitTimeout, ForgetTransaction, Quiet
  <2> QED
      BY <1>4, <2>1, TimeoutStep
<1>5. ASSUME NEW m \in wire, LoseAnswer(m) PROVE Quiet
    BY <1>5 DEF LoseAnswer, Quiet, clientVars, ghostVars
<1>6. ASSUME NEW tr \in Transport, SetTransport(tr) PROVE Quiet
    BY <1>6 DEF SetTransport, Quiet, ghostVars
<1>7. CASE CallbackReturns \/ UNCHANGED vars
    BY <1>7 DEF CallbackReturns, Quiet, vars, clientVars, ghostVars
<1> QED
    BY <1>1, <1>2, <1>3, <1>4, <1>5, <1>6, <1>7 DEF Next

-----------------------------------------------------------------------------
\* An accepted call is the last one, and the others are what they were.
LEMMA Accepted ==
    ASSUME IInv, NEW t \in Txn, NEW a \in Addr, Accepts(t, a)
    PROVE  /\ Len(asked) \in Nat /\ Len(asked') = Len(asked) + 1
           /\ asked'[Len(asked) + 1] = [txn |-> t, addr |-> a]
           /\ \A c \in 1..Len(asked) : asked'[c] = asked[c]
<1>1. asked \in Seq([txn : Txn, addr : Addr]) /\ [txn |-> t, addr |-> a] \in [txn : Txn, addr : Addr]
    BY DEF IInv, TypeOK
<1>2. asked' = Append(asked, [txn |-> t, addr |-> a])
    BY DEF Accepts
<1> QED
    BY <1>1, <1>2, AppendProperties, LenProperties

\* A transaction that ends is the last call.
LEMMA Ended ==
    ASSUME IInv, Known, NEW v, Ends(v)
    PROVE  /\ Len(asked) \in Call /\ Len(asked) \in Nat /\ Len(asked) > 0
           /\ outcome[Len(asked)] = "none" /\ outcome'[Len(asked)] = v
           /\ \A c \in Call : c # Len(asked) => outcome'[c] = outcome[c]
           /\ currTransaction # NoTxn
           /\ asked[Len(asked)].txn = currTransaction /\ asked[Len(asked)].addr = currAddr
<1>1. /\ Len(asked) \in Call /\ Len(asked) \in Nat /\ currTransaction # NoTxn
      /\ outcome \in [Call -> Result \cup {"none"}]
    BY CurrentCall, LenProperties DEF IInv, TypeOK, Ends, Current
<1>2. outcome' = [outcome EXCEPT ![Len(asked)] = v]
    BY DEF Ends
<1> QED
    BY <1>1, <1>2 DEF Known

LEMMA KnownStep ==
    ASSUME IInv, Known,
           \/ \E t \in Txn, a \in Addr : Accepts(t, a)
           \/ \E v : Ends(v)
           \/ Quiet \/ MakeCallback
    PROVE  Known'
<1>1. ASSUME NEW t \in Txn, NEW a \in Addr, Accepts(t, a) PROVE Known'
  <2>1. /\ Len(asked') = Len(asked) + 1 /\ Len(asked) \in Nat
        /\ asked'[Len(asked')] = [txn |-> t, addr |-> a]
      BY <1>1, Accepted
  <2>2. currAddr' = a /\ currTransaction' = t /\ outcome' = outcome /\ Len(asked) + 1 \in Call
      BY <1>1 DEF Accepts
  <2>3. \A c \in Call : c \in Nat
      BY DEF Call
  <2> QED
      BY <2>1, <2>2, <2>3 DEF Known
<1>2. ASSUME NEW v, Ends(v) PROVE Known'
  <2>1. currTransaction' = NoTxn /\ UNCHANGED <<asked, currAddr>>
      BY <1>2 DEF Ends
  <2>2. ASSUME NEW c \in Call, c > Len(asked) PROVE outcome'[c] = "none"
      BY <1>2, <2>2, Ended DEF Known
  <2> QED
      BY <2>1, <2>2 DEF Known
<1>3. CASE Quiet
    BY <1>3 DEF Quiet, Known
<1>4. CASE MakeCallback
    BY <1>4 DEF MakeCallback, clientVars, Known
<1> QED
    BY <1>1, <1>2, <1>3, <1>4

LEMMA OneAnswerStep ==
    ASSUME IInv, Known, OneAnswer,
           \/ \E t \in Txn, a \in Addr : Accepts(t, a)
           \/ \E v : Ends(v)
           \/ Quiet \/ MakeCallback
    PROVE  OneAnswer'
<1>1. \A m \in wire : m.id \in 1..Len(asked) /\ m.id \in Call
    BY DEF IInv, WireOK, TypeOK
<1>2. ASSUME NEW t \in Txn, NEW a \in Addr, Accepts(t, a) PROVE OneAnswer'
  <2>1. \A m \in wire' : m \in wire \/ m = [on |-> transport, id |-> Len(asked) + 1]
      BY <1>2 DEF Accepts
  <2>2. /\ Len(asked) \in Nat /\ outcome[Len(asked) + 1] = "none"
        /\ UNCHANGED <<outcome, answeredBy>>
      BY <1>2, Accepted DEF Accepts, Known
  <2> QED
      BY <1>1, <2>1, <2>2 DEF OneAnswer
<1>3. ASSUME NEW v, Ends(v) PROVE OneAnswer'
  <2>1. /\ \A c \in Call : c # Len(asked) => outcome'[c] = outcome[c] /\ answeredBy'[c] = answeredBy[c]
        /\ wire' \subseteq wire /\ outcome'[Len(asked)] = v
      BY <1>3, Ended DEF Ends
  <2>2. ASSUME NEW m \in wire', m.id = Len(asked), v = "ok" PROVE answeredBy'[m.id] # m.id
    <3>1. PICK n \in wire \ wire' : answeredBy'[Len(asked)] = n.id
        BY <1>3, <2>2 DEF Ends
    <3> QED
        BY <2>1, <2>2, <3>1 DEF OneAnswer
  <2> QED
      BY <1>1, <2>1, <2>2 DEF OneAnswer
<1>4. CASE Quiet
    BY <1>4 DEF Quiet, OneAnswer
<1>5. CASE MakeCallback
    BY <1>5 DEF MakeCallback, OneAnswer
<1> QED
    BY <1>2, <1>3, <1>4, <1>5

\* A call that ends with the answer to an earlier one: that one was given up, or
\* got an earlier one's in its turn.
LEMMA GenuineStep ==
    ASSUME IInv, Known, OneAnswer, Genuine,
           \/ \E t \in Txn, a \in Addr : Accepts(t, a)
           \/ \E v : Ends(v)
           \/ Quiet \/ MakeCallback
    PROVE  Genuine'
<1>1. \A c \in Call : c \in Nat \ {0}
    BY DEF Call
<1>2. ASSUME NEW t \in Txn, NEW a \in Addr, Accepts(t, a) PROVE Genuine'
  <2>1. UNCHANGED <<outcome, answeredBy>>
      BY <1>2 DEF Accepts
  <2>2. Len(asked) \in Nat /\ \A c \in 1..Len(asked) : asked'[c] = asked[c]
      BY <1>2, Accepted
  <2>3. ASSUME NEW c \in Call, outcome[c] = "ok" PROVE c \in 1..Len(asked)
      BY <1>1, <2>2, <2>3 DEF Known
  <2>4. ASSUME NEW c \in Call, outcome[c] = "ok"
        PROVE  /\ answeredBy[c] \in 1..c
               /\ Like(answeredBy[c], c)'
               /\ answeredBy[c] # c => \E e \in 1..(c - 1) : Like(e, c)' /\ outcome[e] # "ok"
    <3>1. c \in 1..Len(asked) /\ \A e \in 1..c : e \in 1..Len(asked)
        BY <2>2, <2>3, <2>4
    <3>2. \A e \in 1..c : Like(e, c) => Like(e, c)'
        BY <2>2, <3>1 DEF Like
    <3>3. \A e \in 1..(c - 1) : e \in 1..c
        BY <1>1
    <3> QED
        BY <2>1, <2>4, <3>2, <3>3 DEF Genuine
  <2> QED
      BY <2>1, <2>4 DEF Genuine
<1>3. ASSUME NEW v, Ends(v) PROVE Genuine'
  <2> DEFINE k == Len(asked)
  <2>1. /\ k \in Call /\ k \in Nat /\ k > 0 /\ outcome[k] = "none" /\ outcome'[k] = v
        /\ \A c \in Call : c # k => outcome'[c] = outcome[c] /\ answeredBy'[c] = answeredBy[c]
        /\ asked[k].txn = currTransaction /\ asked[k].addr = currAddr /\ asked' = asked
      BY <1>3, Ended DEF Ends
  <2> HIDE DEF k
  <2>2. \A d, c : Like(d, c)' <=> Like(d, c)
      BY <2>1 DEF Like
  <2>3. ASSUME NEW c \in Call, c # k, outcome'[c] = "ok"
        PROVE  /\ answeredBy'[c] \in 1..c
               /\ Like(answeredBy'[c], c)
               /\ answeredBy'[c] # c => \E e \in 1..(c - 1) : Like(e, c) /\ outcome'[e] # "ok"
    <3>1. outcome[c] = "ok" /\ answeredBy'[c] = answeredBy[c]
        BY <2>1, <2>3
    <3>2. c < k
        BY <1>1, <2>1, <2>3, <3>1 DEF Known, k
    <3>3. ASSUME NEW e \in 1..(c - 1), outcome[e] # "ok" PROVE outcome'[e] # "ok"
      <4>1. e \in Call /\ e # k
          BY <1>1, <2>1, <3>2, BoundAssumption DEF Call, BoundAssumption
      <4> QED
          BY <2>1, <3>3, <4>1
    <3>4. /\ answeredBy[c] \in 1..c /\ Like(answeredBy[c], c)
          /\ answeredBy[c] # c => \E e \in 1..(c - 1) : Like(e, c) /\ outcome[e] # "ok"
        BY <3>1 DEF Genuine
    <3> HIDE DEF Like
    <3> QED
        BY <3>1, <3>3, <3>4
  <2>4. ASSUME v = "ok"
        PROVE  /\ answeredBy'[k] \in 1..k
               /\ Like(answeredBy'[k], k)
               /\ answeredBy'[k] # k => \E e \in 1..(k - 1) : Like(e, k) /\ outcome'[e] # "ok"
    <3>1. PICK m \in wire \ wire' : /\ answeredBy'[k] = m.id
                                    /\ asked[m.id].addr = currAddr
                                    /\ FuncOf[asked[m.id].txn] = FuncOf[currTransaction]
        BY <1>3, <2>4 DEF Ends, k
    <3>2. m.id \in 1..k /\ m.id \in Call
        BY DEF IInv, WireOK, TypeOK, k
    <3>3. Like(m.id, k)
        BY <2>1, <3>1 DEF Like
    <3>4. ASSUME m.id # k PROVE \E e \in 1..(k - 1) : Like(e, k) /\ outcome'[e] # "ok"
      <4>1. m.id \in 1..(k - 1)
          BY <2>1, <3>2, <3>4
      <4>2. CASE outcome[m.id] # "ok"
          BY <2>1, <3>2, <3>3, <3>4, <4>1, <4>2
      <4>3. CASE outcome[m.id] = "ok"
        <5>1. answeredBy[m.id] # m.id
            BY <4>3 DEF OneAnswer
        <5>2. PICK e \in 1..(m.id - 1) : Like(e, m.id) /\ outcome[e] # "ok"
            BY <3>2, <4>3, <5>1 DEF Genuine
        <5>3. e \in 1..(k - 1) /\ e \in Call /\ e # k
            BY <1>1, <2>1, <3>2, <4>1, BoundAssumption DEF Call, BoundAssumption
        <5>4. Like(e, k)
            BY <3>3, <5>2 DEF Like
        <5>5. outcome'[e] # "ok"
            BY <2>1, <5>2, <5>3
        <5> QED
            BY <5>3, <5>4, <5>5
      <4> QED
          BY <4>2, <4>3
    <3> QED
        BY <3>1, <3>2, <3>3, <3>4
  <2> QED
      BY <2>1, <2>2, <2>3, <2>4 DEF Genuine
<1>4. CASE Quiet
    BY <1>4 DEF Quiet, Genuine, Like
<1>5. CASE MakeCallback
    BY <1>5 DEF MakeCallback, Genuine, Like
<1> QED
    BY <1>2, <1>3, <1>4, <1>5

\* While a callback runs the application may start the next transaction, which
\* changes curr_addr.
LEMMA AddressedStep ==
    ASSUME IInv, Known, Addressed,
           \/ \E t \in Txn, a \in Addr : Accepts(t, a)
           \/ \E v : Ends(v) /\ Due(v)
           \/ Quiet \/ MakeCallback
    PROVE  Addressed'
<1>1. \A i \in DOMAIN calls : calls[i].id \in 1..Len(asked)
    BY DEF IInv, CallsOK
<1>2. ASSUME NEW t \in Txn, NEW a \in Addr, Accepts(t, a) PROVE Addressed'
  <2>1. UNCHANGED <<calls, inCallback>> /\ (calls = <<>> \/ inCallback)
      BY <1>2 DEF Accepts
  <2>2. \A c \in 1..Len(asked) : asked'[c] = asked[c]
      BY <1>2, Accepted
  <2> QED
      BY <1>1, <2>1, <2>2 DEF Addressed
<1>3. ASSUME NEW v, Ends(v), Due(v) PROVE Addressed'
  <2>1. asked[Len(asked)].addr = currAddr /\ asked' = asked /\ ~inCallback'
      BY <1>3, Ended DEF Ends
  <2> QED
      BY <1>3, <2>1 DEF Due, Addressed
<1>4. CASE Quiet
    BY <1>4 DEF Quiet, Addressed
<1>5. CASE MakeCallback
  <2>1. /\ \A i \in DOMAIN calls' : i + 1 \in DOMAIN calls /\ i + 1 # 1 /\ calls'[i] = calls[i + 1]
        /\ asked' = asked
      BY <1>5, NextCallback DEF IInv, MakeCallback
  <2> QED
      BY <2>1 DEF Addressed
<1> QED
    BY <1>2, <1>3, <1>4, <1>5

\* A callback to the client's procs is the only one that is due to them.
LEMMA MakeCallbackOwedToClient ==
    ASSUME IInv, MakeCallback
    PROVE  /\ Head(calls).to = "client" =>
                /\ OwedTo("client") = {Head(calls).id} /\ OwedTo("client")' = {}
                /\ clientTold' = [clientTold EXCEPT ![Head(calls).id] = @ + 1]
           /\ Head(calls).to # "client" =>
                OwedTo("client")' = OwedTo("client") /\ clientTold' = clientTold
<1>1. /\ Head(calls) = calls[1] /\ 1 \in DOMAIN calls /\ calls[1] \in Callback
      /\ \A i \in DOMAIN calls' :
            i + 1 \in DOMAIN calls /\ i + 1 # 1 /\ calls'[i] = calls[i + 1]
      /\ \A i \in DOMAIN calls : i # 1 =>
            i - 1 \in DOMAIN calls' /\ calls'[i - 1] = calls[i]
    BY NextCallback DEF IInv, MakeCallback
<1>2. \A i, j \in DOMAIN calls : i # j => calls[i].to # calls[j].to
    BY DEF IInv, CallsOK
<1>3. CASE calls[1].to = "client"
  <2>1. OwedTo("client") = {calls[1].id}
      BY <1>1, <1>2, <1>3 DEF OwedTo
  <2>2. OwedTo("client")' = {}
      BY <1>1, <1>2, <1>3 DEF OwedTo
  <2>3. clientTold' = [clientTold EXCEPT ![Head(calls).id] = @ + 1]
      BY <1>1, <1>3 DEF MakeCallback
  <2> QED
      BY <1>1, <1>3, <2>1, <2>2, <2>3
<1>4. CASE calls[1].to # "client"
  <2>1. \A c : c \in OwedTo("client") => c \in OwedTo("client")'
      BY <1>1, <1>4 DEF OwedTo
  <2>2. \A c : c \in OwedTo("client")' => c \in OwedTo("client")
      BY <1>1 DEF OwedTo
  <2>3. calls[1].to = "request"
      BY <1>1, <1>4 DEF Callback
  <2>4. clientTold' = clientTold
      BY <1>1, <2>3 DEF MakeCallback
  <2> QED
      BY <1>1, <1>4, <2>1, <2>2, <2>4
<1> QED
    BY <1>3, <1>4

LEMMA ClientCallbackStep ==
    ASSUME IInv, Known, ClientCallbackOnce,
           \/ \E t \in Txn, a \in Addr : Accepts(t, a)
           \/ \E v : Ends(v) /\ Due(v)
           \/ Quiet \/ MakeCallback
    PROVE  ClientCallbackOnce'
<1>1. clientTold \in [Call -> Nat] /\ \A i \in DOMAIN calls : calls[i] \in Callback
  <2>1. calls \in Seq(Callback) /\ clientTold \in [Call -> Nat]
      BY DEF IInv, TypeOK
  <2> QED
      BY <2>1, ElementOfSeq, LenProperties
<1>2. ASSUME UNCHANGED <<calls, outcome, clientTold>> PROVE ClientCallbackOnce'
    BY <1>2 DEF ClientCallbackOnce, OwedTo
<1>3. CASE Quiet \/ \E t \in Txn, a \in Addr : Accepts(t, a)
    BY <1>2, <1>3 DEF Quiet, Accepts
<1>4. ASSUME NEW v, Ends(v), Due(v) PROVE ClientCallbackOnce'
  <2>1. /\ Len(asked) \in Call /\ outcome[Len(asked)] = "none" /\ outcome'[Len(asked)] = v
        /\ \A c \in Call : c # Len(asked) => outcome'[c] = outcome[c]
        /\ clientTold' = clientTold /\ calls = <<>> /\ v \in Result
      BY <1>4, Ended DEF Ends
  <2>2. OwedTo("client") = {}
      BY <2>1 DEF OwedTo
  <2>3. OwedTo("client")' = IF v = "timeout" THEN {} ELSE {Len(asked)}
      BY <1>4 DEF Due, OwedTo
  <2>4. v # "none"
      BY <2>1 DEF Result
  <2>5. ASSUME NEW c \in Call
        PROVE  clientTold'[c] + (IF c \in OwedTo("client")' THEN 1 ELSE 0)
                   = IF outcome'[c] \in {"none", "timeout"} THEN 0 ELSE 1
    <3>1. clientTold[c] = (IF outcome[c] \in {"none", "timeout"} THEN 0 ELSE 1) /\ clientTold[c] \in Nat
        BY <1>1, <2>2 DEF ClientCallbackOnce
    <3>2. CASE c = Len(asked)
        BY <2>1, <2>3, <2>4, <3>1, <3>2
    <3>3. CASE c # Len(asked)
        BY <2>1, <2>3, <3>1, <3>3
    <3> QED
        BY <3>2, <3>3
  <2> QED
      BY <2>5 DEF ClientCallbackOnce
<1>5. CASE MakeCallback
  <2> DEFINE f == Head(calls)
  <2>1. outcome' = outcome
      BY <1>5 DEF MakeCallback
  <2>2. /\ f.to = "client" => /\ OwedTo("client") = {f.id} /\ OwedTo("client")' = {}
                              /\ clientTold' = [clientTold EXCEPT ![f.id] = @ + 1]
        /\ f.to # "client" => OwedTo("client")' = OwedTo("client") /\ clientTold' = clientTold
      BY <1>5, MakeCallbackOwedToClient
  <2> HIDE DEF f
  <2>3. CASE f.to = "client"
    <3>1. ASSUME NEW c \in Call
          PROVE  clientTold'[c] + (IF c \in OwedTo("client")' THEN 1 ELSE 0)
                     = clientTold[c] + (IF c \in OwedTo("client") THEN 1 ELSE 0)
        BY <1>1, <2>2, <2>3
    <3> QED
        BY <2>1, <3>1 DEF ClientCallbackOnce
  <2>4. CASE f.to # "client"
      BY <2>1, <2>2, <2>4 DEF ClientCallbackOnce
  <2> QED
      BY <2>3, <2>4
<1> QED
    BY <1>3, <1>4, <1>5

-----------------------------------------------------------------------------
LEMMA InitAInv == Init => AInv
<1> SUFFICES ASSUME Init PROVE AInv
    OBVIOUS
<1>1. /\ currTransaction = NoTxn /\ calls = <<>> /\ wire = {} /\ asked = <<>>
      /\ outcome = [c \in Call |-> "none"] /\ clientTold = [c \in Call |-> 0]
    BY DEF Init
<1>2. Known /\ OneAnswer /\ Genuine
    BY <1>1 DEF Known, OneAnswer, Genuine
<1>3. Addressed
    BY <1>1 DEF Addressed
<1>4. ClientCallbackOnce
  <2>1. OwedTo("client") = {}
      BY <1>1 DEF OwedTo
  <2> QED
      BY <1>1, <2>1 DEF ClientCallbackOnce
<1> QED
    BY <1>2, <1>3, <1>4 DEF AInv

THEOREM AInvariance == Spec => []AInv
<1>1. Init => AInv
    BY InitAInv
<1>2. IInv /\ AInv /\ [Next]_vars => AInv'
  <2> SUFFICES ASSUME IInv, AInv, [Next]_vars PROVE AInv'
      OBVIOUS
  <2>1. \/ \E t \in Txn, a \in Addr : Accepts(t, a)
        \/ \E v : Ends(v) /\ Due(v)
        \/ Quiet \/ MakeCallback
      BY Steps
  <2>2. Known' /\ OneAnswer' /\ Genuine'
      BY <2>1, KnownStep, OneAnswerStep, GenuineStep DEF AInv
  <2>3. Addressed' /\ ClientCallbackOnce'
      BY <2>1, AddressedStep, ClientCallbackStep DEF AInv
  <2> QED
      BY <2>2, <2>3 DEF AInv
<1> QED
    BY <1>1, <1>2, Invariance, PTL DEF Spec

\* A call that succeeds got an answer of its server and its function: its own,
\* or that of an earlier one while such a one was given up
\* (emb_client_on_receive_pkt has no transaction number to go by).
THEOREM AnswersAreGenuine == Spec => []GenuineAnswer
<1>1. AInv => GenuineAnswer
    BY DEF AInv, Genuine, Like, GenuineAnswer
<1> QED
    BY <1>1, AInvariance, PTL

\* The client's procs are called once for each call that ended otherwise than
\* by a timeout, and the address that is reported is the one that was asked but
\* for the two cases of emb_client_on_receive_pkt and emb_client_on_error.
THEOREM ReportsAreRight == Spec => []ReportsRight
<1>1. ASSUME IInv, AInv PROVE AddressReported
  <2> SUFFICES ASSUME calls # <<>>, ~inCallback
               PROVE  \/ AddrOf(Head(calls)) = asked[Head(calls).id].addr
                      \/ Head(calls).res = "wrong_address"
                      \/ /\ Head(calls).res = "transport" /\ Head(calls).to = "request"
                         /\ Head(calls).id < Len(asked)
      BY DEF AddressReported
  <2>1. Head(calls) = calls[1] /\ 1 \in DOMAIN calls
      BY <1>1, NextCallback DEF IInv
  <2>2. calls[1].id \in 1..Len(asked) /\ Len(asked) \in Nat
      BY <1>1, <2>1, LenProperties DEF IInv, CallsOK, TypeOK
  <2>3. Len(asked) > 0 => asked[Len(asked)].addr = currAddr
      BY <1>1 DEF AInv, Known
  <2>4. CASE calls[1].addr = NoAddr
      BY <1>1, <2>1, <2>2, <2>3, <2>4 DEF AInv, Addressed, AddrOf
  <2>5. CASE calls[1].addr # NoAddr
      BY <1>1, <2>1, <2>5 DEF AInv, Addressed, AddrOf
  <2> QED
      BY <2>4, <2>5
<1>2. IInv /\ AInv => ReportsRight
    BY <1>1 DEF AInv, ReportsRight
<1> QED
    BY <1>2, Invariance, AInvariance, PTL
=============================================================================
