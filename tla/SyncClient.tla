----------------------------- MODULE SyncClient -----------------------------
(***************************************************************************)
(* The synchronous clients of implementations/posix: client.c (C) and      *)
(* client.cpp (C++, over client_t of cpp-wrap/emodbus.cpp).  The           *)
(* application's thread starts a transaction of the emb_client_t and waits *)
(* on a mutex that serves as a binary semaphore; the thread of the event   *)
(* loop runs the client's handlers and the response timer and posts it.    *)
(*                                                                         *)
(* Nothing guards the fields the two threads share, so a step here is an   *)
(* access to a shared field, and the handlers of client.c are played step  *)
(* by step: `todo' holds the rest of the handler that is running.  Calls   *)
(* are numbered; the numbers stand for the descriptors.                    *)
(***************************************************************************)
EXTENDS Naturals, Sequences

CONSTANT MaxCalls        \* bound: calls the application makes

ASSUME MaxCallsAssumption == MaxCalls \in Nat

Call == 1..MaxCalls
NoCall == 0

VARIABLES
    cpp,         \* which of the two: client.cpp or client.c (fixed)
    app,         \* where the application's thread is
    n,           \* the call it is in, or was in last
    curr,        \* client.curr_transaction
    rxPdu,       \* transport->rx_pdu
    token,       \* is the mutex free?
    timer,       \* is timeout_timer pending?
    result,      \* transact_result (C), client_t::result (C++)
    isTimeout,   \* is_timeout (C++ only)
    handler,     \* the handler the event loop runs
    todo,        \* the rest of that handler
    req,         \* its local variable req
    wire,        \* calls whose answer is on its way
    got,         \* bookkeeping: what each call returned
    ended,       \* bookkeeping: how the transaction of each call ended
    told,        \* bookkeeping: calls reported to the request's procs
    raced,       \* bookkeeping: the timer fired with no transaction running
    torn         \* bookkeeping: a handler came between two stores of do_transaction

appVars  == <<app, n>>
shared   == <<curr, rxPdu, token, timer, result, isTimeout>>
loopVars == <<handler, todo, req>>
ghosts   == <<got, ended, told, raced, torn>>
vars == <<cpp, appVars, shared, loopVars, wire, ghosts>>

Kind     == {"ok", "error", "timeout"}
Step     == {"flag", "read", "forget", "clear", "request", "result", "unlock"}

TypeOK ==
    /\ cpp \in BOOLEAN
    /\ app \in {"idle", "check", "post", "send", "arm", "lock", "del", "read"}
    /\ n \in 0..MaxCalls
    /\ {curr, rxPdu, req} \subseteq Call \cup {NoCall}
    /\ {token, timer, isTimeout, raced, torn} \subseteq BOOLEAN
    /\ result \in Kind
    /\ handler \in Kind
    /\ todo \in Seq(Step)
    /\ wire \cup told \subseteq Call
    /\ got \in [Call -> Kind \cup {"none", "busy"}]
    /\ ended \in [Call -> Kind \cup {"none"}]

Init ==
    /\ cpp \in BOOLEAN
    /\ app = "idle" /\ n = 0
    /\ curr = NoCall /\ rxPdu = NoCall
    /\ token = FALSE                \* pthread_mutex_trylock when created
    /\ timer = FALSE
    /\ result = "ok"
    /\ isTimeout = FALSE
    /\ handler = "ok" /\ todo = <<>> /\ req = NoCall
    /\ wire = {} /\ told = {}
    /\ got = [c \in Call |-> "none"] /\ ended = [c \in Call |-> "none"]
    /\ raced = FALSE /\ torn = FALSE

-----------------------------------------------------------------------------
(***************************************************************************)
(* The application's thread.                                               *)
(***************************************************************************)
AppStep(from, to) == app = from /\ app' = to

EnterCall ==
    /\ AppStep("idle", "check")
    /\ n < MaxCalls
    /\ n' = n + 1
    /\ UNCHANGED <<cpp, shared, loopVars, wire, ghosts>>

\* do_transaction returns -EBUSY.  The C++ client sleeps and tries again until
\* it does not, which is no step here; the C client returns it.
ReturnBusy ==
    /\ AppStep("check", "idle")
    /\ rxPdu # NoCall /\ ~cpp
    /\ got' = [got EXCEPT ![n] = "busy"]
    /\ UNCHANGED <<cpp, n, shared, loopVars, wire, ended, told, raced, torn>>

\* do_transaction: curr_transaction, then rx_pdu, then send_packet.
SetTransaction ==
    /\ AppStep("check", "post")
    /\ rxPdu = NoCall
    /\ curr' = n
    /\ UNCHANGED <<cpp, n, rxPdu, token, timer, result, isTimeout, loopVars, wire, ghosts>>

PostBuffer ==
    /\ AppStep("post", "send")
    /\ rxPdu' = n
    /\ UNCHANGED <<cpp, n, curr, token, timer, result, isTimeout, loopVars, wire, ghosts>>

SendRequest ==
    /\ AppStep("send", "arm")
    /\ wire' = wire \cup {n}
    /\ UNCHANGED <<cpp, n, shared, loopVars, ghosts>>

ArmTimer ==
    /\ AppStep("arm", "lock")
    /\ timer' = TRUE
    /\ isTimeout' = FALSE
    /\ UNCHANGED <<cpp, n, curr, rxPdu, token, result, loopVars, wire, ghosts>>

LockMutex ==
    /\ AppStep("lock", "del")
    /\ token
    /\ token' = FALSE
    /\ UNCHANGED <<cpp, n, curr, rxPdu, timer, result, isTimeout, loopVars, wire, ghosts>>

\* The event loop is inside timeout_cb.
InTimeoutCallback == todo # <<>> /\ handler = "timeout"

\* event_del from another thread waits for a running callback of the event.
DeleteTimer ==
    /\ AppStep("del", "read")
    /\ ~InTimeoutCallback
    /\ timer' = FALSE
    /\ UNCHANGED <<cpp, n, curr, rxPdu, token, result, isTimeout, loopVars, wire, ghosts>>

ReturnResult ==
    /\ AppStep("read", "idle")
    /\ got' = [got EXCEPT ![n] = IF cpp /\ isTimeout THEN "timeout" ELSE result]
    /\ UNCHANGED <<cpp, n, shared, loopVars, wire, ended, told, raced, torn>>

-----------------------------------------------------------------------------
(***************************************************************************)
(* The event loop's thread.  What each handler does, in source order:      *)
(*   flag     is_timeout = true (C++)                                      *)
(*   read     req = curr_transaction                                       *)
(*   forget   curr_transaction = NULL                                      *)
(*   clear    rx_pdu = NULL                                                *)
(*   request  the callback of the request's procs                          *)
(*   result   the result (and is_timeout = false where C++ does that)      *)
(*   unlock   pthread_mutex_unlock                                         *)
(***************************************************************************)

\* Mutations of Program: the result is stored after the caller is woken; the
\* request's procs see the response after the caller; the timeout leaves the
\* buffer posted; the timeout does not wake the caller.
ProgramResultLate ==
    [ok      |-> <<"read", "forget", "clear", "request", "unlock", "result">>,
     error   |-> <<"read", "forget", "clear", "unlock", "result", "request">>,
     timeout |-> <<"flag", "read", "clear", "forget", "request", "result", "unlock">>]
ProgramRequestLate ==
    [ok      |-> <<"read", "forget", "clear", "result", "unlock", "request">>,
     error   |-> <<"read", "forget", "clear", "result", "unlock", "request">>,
     timeout |-> <<"flag", "read", "clear", "forget", "request", "result", "unlock">>]
ProgramKeepsBuffer ==
    [ok      |-> <<"read", "forget", "clear", "request", "result", "unlock">>,
     error   |-> <<"read", "forget", "clear", "result", "unlock", "request">>,
     timeout |-> <<"flag", "read", "forget", "request", "result", "unlock">>]
ProgramNoWake ==
    [ok      |-> <<"read", "forget", "clear", "request", "result", "unlock">>,
     error   |-> <<"read", "forget", "clear", "result", "unlock", "request">>,
     timeout |-> <<"flag", "read", "clear", "forget", "request", "result">>]

Program ==
    [ok      |-> <<"read", "forget", "clear", "request", "result", "unlock">>,
     error   |-> <<"read", "forget", "clear", "result", "unlock", "request">>,
     timeout |-> <<"flag", "read", "clear", "forget", "request", "result", "unlock">>]

\* Mutation of WithoutTransaction: wait_timeout does not look whether there is
\* a transaction before it calls its procs.
CallsThroughNull ==
    [ok      |-> <<"forget", "clear">>,
     error   |-> <<>>,
     timeout |-> <<"clear", "request", "result", "unlock">>]

\* What is left of a handler that found curr_transaction = NULL.
WithoutTransaction ==
    [ok      |-> <<"forget", "clear">>,
     error   |-> <<>>,
     timeout |-> <<"clear", "result", "unlock">>]

LoopIdle == todo = <<>>
Start(h) == handler' = h /\ todo' = Program[h] /\ UNCHANGED req

\* An answer arrives and a buffer is posted.  It is the expected one, or one
\* that fails the checks of emb_client_on_receive_pkt and ends in an error.
AnswerArrives(c, h) ==
    /\ LoopIdle
    /\ c \in wire /\ rxPdu # NoCall
    /\ wire' = wire \ {c}
    /\ Start(h)
    /\ UNCHANGED <<cpp, appVars, shared, ghosts>>

\* An answer is lost, or arrives and no buffer is posted.
AnswerDropped(c) ==
    /\ c \in wire
    /\ wire' = wire \ {c}
    /\ UNCHANGED <<cpp, appVars, shared, loopVars, ghosts>>

\* The transport reports an error: a bad checksum, a broken connection.
TransportError ==
    /\ LoopIdle
    /\ Start("error")
    /\ UNCHANGED <<cpp, appVars, shared, wire, ghosts>>

\* The response timer expires; libevent takes it off its list and calls back.
TimerFires ==
    /\ LoopIdle
    /\ timer
    /\ timer' = FALSE
    /\ Start("timeout")
    /\ UNCHANGED <<cpp, appVars, curr, rxPdu, token, result, isTimeout, wire, ghosts>>

\* The next step of the running handler is s.
Does(s) == todo # <<>> /\ Head(todo) = s /\ todo' = Tail(todo) /\ UNCHANGED handler

RaiseFlag ==
    /\ Does("flag")
    /\ isTimeout' = TRUE
    /\ UNCHANGED <<cpp, appVars, curr, rxPdu, token, timer, result, req, wire, ghosts>>

ReadTransaction ==
    /\ todo # <<>> /\ Head(todo) = "read"
    /\ req' = curr
    /\ todo' = IF curr = NoCall THEN WithoutTransaction[handler] ELSE Tail(todo)
    /\ ended' = [c \in Call |-> IF c = curr THEN handler ELSE ended[c]]
    /\ raced' = (raced \/ (handler = "timeout" /\ curr = NoCall))
    /\ torn' = (torn \/ app = "post")
    /\ UNCHANGED <<cpp, appVars, shared, handler, wire, got, told>>

ForgetTransaction ==
    /\ Does("forget")
    /\ curr' = NoCall
    /\ UNCHANGED <<cpp, appVars, rxPdu, token, timer, result, isTimeout, req, wire, ghosts>>

ClearBuffer ==
    /\ Does("clear")
    /\ rxPdu' = NoCall
    /\ UNCHANGED <<cpp, appVars, curr, token, timer, result, isTimeout, req, wire, ghosts>>

CallRequest ==
    /\ Does("request")
    /\ told' = told \cup {req}
    /\ UNCHANGED <<cpp, appVars, shared, req, wire, got, ended, raced, torn>>

\* The C++ timeout leaves the result of the transaction before it in place.
SetResult ==
    /\ Does("result")
    /\ IF cpp /\ handler = "timeout"
       THEN UNCHANGED <<result, isTimeout>>
       ELSE /\ result' = handler
            /\ isTimeout' = FALSE
    /\ UNCHANGED <<cpp, appVars, curr, rxPdu, token, timer, req, wire, ghosts>>

UnlockMutex ==
    /\ Does("unlock")
    /\ token' = TRUE
    /\ UNCHANGED <<cpp, appVars, curr, rxPdu, timer, result, isTimeout, req, wire, ghosts>>

AppNext ==
    \/ EnterCall \/ ReturnBusy \/ SetTransaction \/ PostBuffer \/ SendRequest
    \/ ArmTimer \/ LockMutex \/ DeleteTimer \/ ReturnResult

HandlerNext ==
    \/ RaiseFlag \/ ReadTransaction \/ ForgetTransaction \/ ClearBuffer
    \/ CallRequest \/ SetResult \/ UnlockMutex

Next ==
    \/ AppNext
    \/ HandlerNext
    \/ \E c \in wire, h \in {"ok", "error"} : AnswerArrives(c, h)
    \/ \E c \in wire : AnswerDropped(c)
    \/ TransportError
    \/ TimerFires

Spec == Init /\ [][Next]_vars

\* Both threads are scheduled, and the event loop looks at its timers.
Fairness == WF_vars(AppNext) /\ WF_vars(HandlerNext) /\ WF_vars(TimerFires)

FairSpec == Spec /\ Fairness

-----------------------------------------------------------------------------
\* The two ways in which the threads can come into each other's way: the timer
\* fires for a transaction that has ended already (before event_del), and a
\* transport error comes between the two stores of do_transaction.
Undisturbed == ~raced /\ ~torn

\* Undisturbed, a call returns the way its own transaction ended.
OwnResult ==
    Undisturbed => \A c \in Call : got[c] \in Kind => got[c] = ended[c]

\* Undisturbed, a call leaves the client ready for the next: no buffer posted,
\* no timer pending, and the mutex locked again.
ReadyAgain ==
    Undisturbed /\ app = "idle" =>
        rxPdu = NoCall /\ curr = NoCall /\ ~timer /\ ~token

\* The invariant of the clients: types, and what a call leaves behind.
Inv == TypeOK /\ ReadyAgain

\* An application that got the response, or the timeout, of its call may reuse
\* the descriptor: the request's procs have been called.  (After an error they
\* may not have been: cli->on_error comes first, and wakes the caller.)
ToldBeforeReturn ==
    Undisturbed => \A c \in Call : got[c] \in {"ok", "timeout"} => c \in told

\* Whatever happens, a call to the C client returns; one to the C++ client,
\* which waits for the buffer to be taken back, does if nothing was disturbed.
EveryCallReturns ==
    \A c \in Call : (n = c /\ app # "idle")
                      ~> (got[c] # "none" \/ (cpp /\ ~Undisturbed))
=============================================================================
