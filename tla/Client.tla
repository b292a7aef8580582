------------------------------- MODULE Client -------------------------------
(***************************************************************************)
(* struct emb_client_t (emodbus/client/client.c): the master side of       *)
(* Modbus, one transaction at a time over a transport that loses, delays   *)
(* and garbles answers.                                                    *)
(*                                                                         *)
(* The handlers run on one thread and are atomic up to the callbacks they  *)
(* make.  Each callback is a step of its own, because the application's    *)
(* code runs in it and may start the next transaction from there: `calls'  *)
(* holds the callbacks the running handler has still to make.              *)
(*                                                                         *)
(* Transactions are numbered in the order they were accepted; the number   *)
(* appears only in the environment's and the bookkeeping variables, the    *)
(* client itself has no such thing.                                        *)
(***************************************************************************)
EXTENDS Naturals, Sequences

CONSTANTS Txn,       \* transaction descriptors of the application
          Addr,      \* addresses of servers
          Func,      \* Modbus function codes
          FuncOf,    \* the function of each descriptor's request PDU
          Transport, \* transports the client can be attached to
          NoTxn,     \* the NULL descriptor
          NoAddr,    \* marks "cli->curr_addr, read when the callback is made"
          MaxCalls   \* bound: transactions accepted in a behaviour

ASSUME TxnAssumption  == NoTxn \notin Txn /\ FuncOf \in [Txn -> Func]
ASSUME AddrAssumption == NoAddr \notin Addr
ASSUME BoundAssumption == MaxCalls \in Nat

VARIABLES
    transport,       \* cli->transport
    rxPdu,           \* transport->rx_pdu: whose response buffer is posted
    currAddr,        \* cli->curr_addr
    currTransaction, \* cli->curr_transaction
    calls,           \* callbacks the running handler has still to make
    inCallback,      \* the application is inside a callback
    swapped,         \* bookkeeping: the transport was changed under a transaction
    wire,            \* answers on their way, [on, id]
    asked,           \* bookkeeping: the accepted calls, in order
    outcome,         \* bookkeeping: how each call ended
    answeredBy,      \* bookkeeping: whose answer each successful call got
    requestTold,     \* bookkeeping: reports to the transaction's callbacks
    clientTold       \* bookkeeping: reports to the client's callbacks

clientVars == <<transport, rxPdu, currAddr, currTransaction>>
ghostVars  == <<asked, outcome, answeredBy, requestTold, clientTold>>
vars == <<clientVars, calls, inCallback, swapped, wire, ghostVars>>

Call   == 1..MaxCalls
Result == {"ok", "wrong_address", "exception", "wrong_func", "transport", "timeout"}

\* A callback still to be made: to the client's or to the transaction's procs.
Callback == [to : {"client", "request"}, id : Call,
             addr : Addr \cup {NoAddr}, res : Result]

\* The call whose transaction is curr_transaction (the last one accepted).
Current == Len(asked)

TypeOK ==
    /\ transport \in Transport
    /\ rxPdu \in [Transport -> Txn \cup {NoTxn}]
    /\ currAddr \in Addr
    /\ currTransaction \in Txn \cup {NoTxn}
    /\ calls \in Seq(Callback) /\ Len(calls) <= 2
    /\ inCallback \in BOOLEAN /\ swapped \in BOOLEAN
    /\ wire \in SUBSET [on : Transport, id : Call]
    /\ asked \in Seq([txn : Txn, addr : Addr])
    /\ Len(asked) <= MaxCalls
    /\ outcome \in [Call -> Result \cup {"none"}]
    /\ answeredBy \in [Call -> 0..MaxCalls]
    /\ requestTold \in [Call -> Nat]
    /\ clientTold \in [Call -> Nat]

-----------------------------------------------------------------------------
\* The thread is in the event loop: no handler is running.
Idle == calls = <<>> /\ ~inCallback

\* Callbacks of a failed transaction: the client's on_error, then the
\* request's.  Both are given the address the handler was called with.
ErrorCalls(id, addr, res) ==
    << [to |-> "client",  id |-> id, addr |-> addr, res |-> res],
       [to |-> "request", id |-> id, addr |-> addr, res |-> res] >>

\* Callbacks of a correct response: the request's on_response first.
ResponseCalls(id, addr) ==
    << [to |-> "request", id |-> id, addr |-> addr, res |-> "ok"],
       [to |-> "client",  id |-> id, addr |-> addr, res |-> "ok"] >>

\* Mutations of the next definition, for the test of the properties: the client
\* is told as well (the source has that call commented out); nobody is told.
TimeoutCallsBoth(id, addr) == ErrorCalls(id, addr, "timeout")
TimeoutCallsNone(id, addr) == <<>>

\* The timeout is reported to the request only; cli->on_error is not called.
TimeoutCalls(id, addr) ==
    << [to |-> "request", id |-> id, addr |-> addr, res |-> "timeout"] >>

\* The address a callback is given.
AddrOf(f) == IF f.addr = NoAddr THEN currAddr ELSE f.addr

\* Mutations of Verdict: the sender's address is not compared; an exception is
\* decoded but yields no result.
VerdictAnyAddress(m, exc) ==
    IF exc THEN "exception"
    ELSE IF FuncOf[asked[m.id].txn] # FuncOf[currTransaction] THEN "wrong_func" ELSE "ok"
VerdictNoResult(m, exc) ==
    IF exc THEN "none" ELSE VerdictAnyAddress(m, exc)

\* What emb_client_on_receive_pkt makes of an answer, in the order it looks:
\* the address, the exception bit, the function.
Verdict(m, exc) ==
    CASE asked[m.id].addr # currAddr -> "wrong_address"
      [] asked[m.id].addr = currAddr /\ exc -> "exception"
      [] asked[m.id].addr = currAddr /\ ~exc
            /\ FuncOf[asked[m.id].txn] # FuncOf[currTransaction] -> "wrong_func"
      [] OTHER -> "ok"

-----------------------------------------------------------------------------
\* emb_client_init and the application's setup.
Init ==
    /\ transport \in Transport
    /\ rxPdu = [tr \in Transport |-> NoTxn]
    /\ currAddr \in Addr
    /\ currTransaction = NoTxn
    /\ calls = <<>> /\ inCallback = FALSE
    /\ swapped = FALSE
    /\ wire = {}
    /\ asked = <<>>
    /\ outcome = [c \in Call |-> "none"]
    /\ answeredBy = [c \in Call |-> 0]
    /\ requestTold = [c \in Call |-> 0]
    /\ clientTold = [c \in Call |-> 0]

\* Mutations of DoTransaction: the busy check comes after the address is
\* noted; there is no busy check.
DoTransactionAddressFirst(t, a, sent) ==
    /\ calls = <<>> \/ inCallback
    /\ Len(asked) < MaxCalls
    /\ currAddr' = a
    /\ IF rxPdu[transport] # NoTxn
       THEN UNCHANGED <<currTransaction, rxPdu, asked, wire>>
       ELSE /\ currTransaction' = t
            /\ rxPdu' = [rxPdu EXCEPT ![transport] = t]
            /\ asked' = Append(asked, [txn |-> t, addr |-> a])
            /\ wire' = wire \cup {[on |-> transport, id |-> Len(asked) + 1]}
    /\ UNCHANGED <<transport, calls, inCallback, swapped, outcome, answeredBy,
                   requestTold, clientTold>>
DoTransactionNotBusy(t, a, sent) ==
    /\ calls = <<>> \/ inCallback
    /\ Len(asked) < MaxCalls
    /\ currAddr' = a
    /\ currTransaction' = t
    /\ rxPdu' = [rxPdu EXCEPT ![transport] = t]
    /\ asked' = Append(asked, [txn |-> t, addr |-> a])
    /\ wire' = wire \cup {[on |-> transport, id |-> Len(asked) + 1]}
    /\ UNCHANGED <<transport, calls, inCallback, swapped, outcome, answeredBy,
                   requestTold, clientTold>>

\* emb_client_do_transaction, from the event loop or from inside a callback.
\* It returns -EBUSY and changes nothing while a response buffer is posted.
\* What send_packet returns is not looked at: a request the transport could
\* not take (sent = FALSE) is accepted all the same.
DoTransaction(t, a, sent) ==
    /\ calls = <<>> \/ inCallback
    /\ Len(asked) < MaxCalls
    /\ rxPdu[transport] = NoTxn
    /\ currAddr' = a
    /\ currTransaction' = t
    /\ rxPdu' = [rxPdu EXCEPT ![transport] = t]
    /\ asked' = Append(asked, [txn |-> t, addr |-> a])
    /\ wire' = IF sent THEN wire \cup {[on |-> transport, id |-> Len(asked) + 1]}
                       ELSE wire
    /\ UNCHANGED <<transport, calls, inCallback, swapped, outcome, answeredBy,
                   requestTold, clientTold>>

\* Mutations of ForgetTransaction: the buffer stays posted; the transaction
\* stays the current one.
ForgetKeepingBuffer ==
    /\ currTransaction' = NoTxn
    /\ UNCHANGED <<rxPdu, transport, currAddr, inCallback, swapped, asked,
                   requestTold, clientTold>>
ForgetKeepingTransaction ==
    /\ rxPdu' = [rxPdu EXCEPT ![transport] = NoTxn]
    /\ UNCHANGED <<currTransaction, transport, currAddr, inCallback, swapped, asked,
                   requestTold, clientTold>>

\* The handlers forget the transaction and take back its buffer before they
\* make any callback.
ForgetTransaction ==
    /\ currTransaction' = NoTxn
    /\ rxPdu' = [rxPdu EXCEPT ![transport] = NoTxn]
    /\ UNCHANGED <<transport, currAddr, inCallback, swapped, asked,
                   requestTold, clientTold>>

\* emb_client_on_receive_pkt, entered by a transport that has a buffer posted
\* (without one the transport drops the answer: LoseAnswer).
ReceiveAnswer(m, exc) ==
    /\ Idle
    /\ m \in wire /\ rxPdu[m.on] # NoTxn
    /\ wire' = wire \ {m}
    /\ ForgetTransaction
    /\ IF currTransaction = NoTxn
       THEN UNCHANGED <<calls, outcome, answeredBy>>
       ELSE LET v == Verdict(m, exc)
                a == asked[m.id].addr IN
            /\ calls' = IF v = "ok" THEN ResponseCalls(Current, a)
                                    ELSE ErrorCalls(Current, a, v)
            /\ outcome' = [outcome EXCEPT ![Current] = v]
            /\ answeredBy' = [answeredBy EXCEPT ![Current] = IF v = "ok" THEN m.id ELSE 0]

\* An answer that never arrives, or arrives when no buffer is posted.
LoseAnswer(m) ==
    /\ m \in wire
    /\ wire' = wire \ {m}
    /\ UNCHANGED <<clientVars, calls, inCallback, swapped, ghostVars>>

\* emb_client_on_error: a bad checksum, an answer too long for the buffer, an
\* answer whose transaction id is not the expected one, a read error.
TransportError ==
    /\ Idle
    /\ currTransaction # NoTxn
    /\ ForgetTransaction
    /\ calls' = ErrorCalls(Current, NoAddr, "transport")
    /\ outcome' = [outcome EXCEPT ![Current] = "transport"]
    /\ UNCHANGED <<wire, answeredBy>>

\* emb_client_wait_timeout, called by whoever keeps the response timer.
WaitTimeout ==
    /\ Idle
    /\ ForgetTransaction
    /\ IF currTransaction = NoTxn
       THEN UNCHANGED <<calls, outcome>>
       ELSE /\ calls' = TimeoutCalls(Current, currAddr)
            /\ outcome' = [outcome EXCEPT ![Current] = "timeout"]
    /\ UNCHANGED <<wire, answeredBy>>

\* emb_client_set_transport.  Nothing moves from the old transport to the new
\* one: a buffer posted on the old transport stays posted there.
SetTransport(tr) ==
    /\ Idle
    /\ tr # transport
    /\ swapped' = (swapped \/ currTransaction # NoTxn)
    /\ transport' = tr
    /\ UNCHANGED <<rxPdu, currAddr, currTransaction, calls, inCallback, wire, ghostVars>>

\* The running handler makes its next callback...
MakeCallback ==
    /\ calls # <<>> /\ ~inCallback
    /\ calls' = Tail(calls)
    /\ inCallback' = TRUE
    /\ LET f == Head(calls) IN
       IF f.to = "request"
       THEN /\ requestTold' = [requestTold EXCEPT ![f.id] = @ + 1]
            /\ UNCHANGED clientTold
       ELSE /\ clientTold' = [clientTold EXCEPT ![f.id] = @ + 1]
            /\ UNCHANGED requestTold
    /\ UNCHANGED <<clientVars, swapped, wire, asked, outcome, answeredBy>>

\* ... and gets the control back from it.
CallbackReturns ==
    /\ inCallback
    /\ inCallback' = FALSE
    /\ UNCHANGED <<clientVars, calls, swapped, wire, ghostVars>>

Next ==
    \/ \E t \in Txn, a \in Addr, sent \in BOOLEAN : DoTransaction(t, a, sent)
    \/ \E m \in wire, exc \in BOOLEAN : ReceiveAnswer(m, exc)
    \/ \E m \in wire : LoseAnswer(m)
    \/ TransportError
    \/ WaitTimeout
    \/ \E tr \in Transport : SetTransport(tr)
    \/ MakeCallback
    \/ CallbackReturns

Spec == Init /\ [][Next]_vars

\* The response timer is kept by the layer above the client, which has to call
\* emb_client_wait_timeout (client.h); callbacks are made and return.
Fairness ==
    /\ WF_vars(WaitTimeout)
    /\ WF_vars(MakeCallback)
    /\ WF_vars(CallbackReturns)

FairSpec == Spec /\ Fairness

-----------------------------------------------------------------------------
\* As long as the transport is changed between transactions only, the client
\* is busy exactly as long as its transport has its buffer: no
\* buffer stays posted for a transaction that ended (that would answer -EBUSY
\* for ever and hand out a buffer the caller has taken back), and no
\* transaction runs without a buffer to receive its answer in.
BufferPosted ==
    ~swapped =>
        \A tr \in Transport :
            rxPdu[tr] = IF tr = transport THEN currTransaction ELSE NoTxn

\* The invariant of the client: types, and a buffer exactly while it is busy.
Inv == TypeOK /\ BufferPosted

\* The calls whose report to the callbacks of `who' is outstanding.
OwedTo(who) == { calls[i].id : i \in {j \in DOMAIN calls : calls[j].to = who} }
Owed == OwedTo("request")

\* No transaction is reported twice, nor one that was not accepted; and none is
\* lost (again, unless the transport was changed under one): each accepted call
\* is the current one, or about to be reported, or has been reported once.
EachCallAccounted ==
    \A c \in Call :
        /\ requestTold[c] <= 1
        /\ c > Len(asked) => requestTold[c] = 0 /\ c \notin Owed
        /\ ~swapped /\ c <= Len(asked) =>
              requestTold[c] = IF c \in Owed \/ (c = Current /\ currTransaction # NoTxn)
                               THEN 0 ELSE 1

\* What the synchronous clients build on: their wake-up, the client's own
\* callbacks, is called once for each call that ended, except that it is not
\* called at all for one that timed out.
ClientCallbackOnce ==
    \A c \in Call :
        clientTold[c] + (IF c \in OwedTo("client") THEN 1 ELSE 0)
            = IF outcome[c] \in {"none", "timeout"} THEN 0 ELSE 1

\* A call succeeds on an answer from the server and of the function it asked.
\* There is no transaction number on a serial line, so the answer may be that
\* of an earlier call; only if an earlier call like it was given up, though.
GenuineAnswer ==
    \A c \in Call : outcome[c] = "ok" =>
        LET d == answeredBy[c]
            Like(e) == /\ asked[e].addr = asked[c].addr
                       /\ FuncOf[asked[e].txn] = FuncOf[asked[c].txn] IN
        /\ Like(d)
        /\ d # c => \E e \in 1..(c - 1) : Like(e) /\ outcome[e] # "ok"

\* The address in the report to a request's callbacks is the one the request
\* was sent to, with two exceptions: a complaint about the address names the
\* sender, and emb_client_on_error reads curr_addr again after the client's
\* on_error, which may have started another transaction meanwhile.
AddressReported ==
    (calls # <<>> /\ ~inCallback) =>
        LET f == Head(calls) IN
        \/ AddrOf(f) = asked[f.id].addr
        \/ f.res = "wrong_address"
        \/ f.res = "transport" /\ f.to = "request" /\ f.id < Len(asked)

\* So the reports are right: to the right address, and each to the client once.
ReportsRight == ClientCallbackOnce /\ AddressReported

\* Every accepted transaction is reported in the end, whatever the transport
\* does with its request and its answer, unless the transport was changed
\* under a transaction.
EveryCallReported ==
    \A c \in Call : (Len(asked) = c) ~> (requestTold[c] = 1 \/ swapped)

\* The client keeps the promise of MasterPromise as long as its transport is
\* not changed under a transaction.
Promise == INSTANCE MasterPromise WITH
    accepted <- Len(asked),
    inFlight <- IF currTransaction = NoTxn THEN 0 ELSE Len(asked),
    owed     <- Owed,
    reported <- {c \in Call : requestTold[c] > 0}

KeepsPromise == Promise!Init /\ [][Promise!Next \/ swapped']_(Promise!vars)
=============================================================================
