-------------------------- MODULE SyncClientProofs --------------------------
(***************************************************************************)
(* SyncClient for any number of calls: every call that returns does so     *)
(* with the result of its own transaction, after the request's callback,   *)
(* and leaves the client ready for the next.                               *)
(***************************************************************************)
EXTENDS SyncClient, TLAPS

\* What is left of a handler is an end of what it does.
EndOf(t, p) ==
    /\ Len(t) <= Len(p)
    /\ \A i \in 1..Len(t) : t[i] = p[Len(p) - Len(t) + i]

\* How far the handler is: it has not looked at curr_transaction yet; it has, and
\* not woken the caller; it has nothing left but to call the request's procs.
Unread ==
    \/ handler \in {"ok", "error"} /\ Len(todo) = 6
    \/ handler = "timeout" /\ Len(todo) \in 6..7
Ending ==
    \/ handler \in {"ok", "timeout"} /\ Len(todo) \in 1..5
    \/ handler = "error" /\ Len(todo) \in 2..5

Running ==
    \/ EndOf(todo, Program[handler]) /\ (Unread \/ todo = <<>> \/ req # NoCall)
    \/ EndOf(todo, WithoutTransaction[handler])

\* The calls to come, and that a call that has not returned has no result.
Counted ==
    /\ app # "idle" => n # 0 /\ got[n] = "none"
    /\ curr <= n
    /\ \A c \in Call : c > n => got[c] = "none" /\ ended[c] = "none"

\* Outside of a transaction nothing is posted, pending or free, and the loop has
\* at most an error to report.
Outside ==
    app \in {"idle", "check", "post"} =>
        /\ rxPdu = NoCall /\ curr = (IF app = "post" THEN n ELSE NoCall)
        /\ ~timer /\ ~token
        /\ ~Ending /\ (todo # <<>> => handler = "error")
        /\ app # "idle" => ended[n] = "none"

\* The timer is pending, or its callback runs, while the caller waits.
Timed ==
    app \notin {"idle", "check", "post"} =>
    /\ timer => app \in {"lock", "del"}
    /\ todo # <<>> /\ handler = "timeout" => ~timer /\ app \in {"lock", "del"}

\* The transaction of the call is under way,
UnderWay ==
    /\ curr = n /\ rxPdu = n /\ ~token
    /\ app \in {"send", "arm", "lock"}
    /\ ~Ending
    /\ handler = "timeout" /\ Len(todo) = 6 => isTimeout

\* is being ended by a handler,
Told == ended[n] \in {"ok", "timeout"} => n \in told
Verdict == IF cpp /\ ended[n] = "timeout" THEN isTimeout ELSE result = ended[n] /\ ~isTimeout
BeingEnded ==
    /\ ended[n] = handler /\ req = n
    /\ ~token /\ app \in {"send", "arm", "lock"}
    /\ curr = IF Len(todo) = 5 \/ (handler = "timeout" /\ Len(todo) = 4) THEN n ELSE NoCall
    /\ rxPdu = IF Len(todo) = 5 \/ (handler # "timeout" /\ Len(todo) = 4) THEN n ELSE NoCall
    /\ handler = "timeout" /\ Len(todo) \in 2..5 => isTimeout
    /\ handler = "error" /\ Len(todo) = 2 => Verdict
    /\ handler # "error" /\ Len(todo) \in 1..2 => Told
    /\ handler # "error" /\ Len(todo) = 1 => Verdict

\* or has ended, and the caller has been woken.
Ended ==
    /\ curr = NoCall /\ rxPdu = NoCall
    /\ token <=> app \in {"send", "arm", "lock"}
    /\ Told
    /\ todo # <<>> => handler # "ok"
    /\ ended[n] = "timeout" => app \in {"lock", "del", "read"}
    /\ ~InTimeoutCallback => Verdict

Inside ==
    app \notin {"idle", "check", "post"} =>
        IF ended[n] = "none" THEN UnderWay
        ELSE IF Ending THEN BeingEnded ELSE Ended

Clean == EndOf(todo, Program[handler]) /\ Outside /\ Timed /\ Inside

IInv ==
    /\ TypeOK /\ Running /\ Counted /\ OwnResult /\ ToldBeforeReturn
    /\ Undisturbed => Clean

USE MaxCallsAssumption

-----------------------------------------------------------------------------
\* Sequences: what is left of an end is an end.
LEMMA TailOfEnd ==
    ASSUME NEW t \in Seq(Step), NEW p \in Seq(Step), t # <<>>, EndOf(t, p)
    PROVE  /\ Head(t) = p[Len(p) - Len(t) + 1]
           /\ Len(t) \in 1..Len(p) /\ Len(Tail(t)) = Len(t) - 1 /\ Tail(t) \in Seq(Step)
           /\ EndOf(Tail(t), p)
<1>1. Len(t) \in Nat /\ Len(p) \in Nat /\ Len(t) >= 1 /\ Len(t) <= Len(p)
    BY DEF EndOf
<1>2. Head(t) = t[1] /\ t[1] = p[Len(p) - Len(t) + 1]
    BY <1>1 DEF EndOf
<1>3. /\ Tail(t) \in Seq(Step) /\ Len(Tail(t)) = Len(t) - 1
      /\ \A i \in 1..(Len(t) - 1) : Tail(t)[i] = t[i + 1]
    BY <1>1
<1>4. ASSUME NEW i \in 1..Len(Tail(t)) PROVE Tail(t)[i] = p[Len(p) - Len(Tail(t)) + i]
  <2>1. i + 1 \in 1..Len(t) /\ Tail(t)[i] = t[i + 1]
      BY <1>1, <1>3
  <2>2. t[i + 1] = p[Len(p) - Len(t) + (i + 1)]
      BY <2>1 DEF EndOf
  <2>3. Len(p) - Len(t) + (i + 1) = Len(p) - Len(Tail(t)) + i
      BY <1>1, <1>3
  <2> QED
      BY <2>1, <2>2, <2>3
<1> QED
    BY <1>1, <1>2, <1>3, <1>4 DEF EndOf

\* The lengths of the handlers.
LEMMA Handlers ==
    /\ \A h \in Kind : Program[h] \in Seq(Step) /\ WithoutTransaction[h] \in Seq(Step)
    /\ \A h \in Kind : Len(Program[h]) = IF h = "timeout" THEN 7 ELSE 6
    /\ Len(WithoutTransaction["ok"]) = 2 /\ Len(WithoutTransaction["error"]) = 0
    /\ Len(WithoutTransaction["timeout"]) = 3
BY DEF Program, WithoutTransaction, Kind, Step

\* The steps of the handlers, one by one.
LEMMA ListedHandlers ==
    /\ Program["ok"][1] = "read" /\ Program["ok"][2] = "forget" /\ Program["ok"][3] = "clear"
    /\ Program["ok"][4] = "request" /\ Program["ok"][5] = "result" /\ Program["ok"][6] = "unlock"
    /\ Program["error"][1] = "read" /\ Program["error"][2] = "forget" /\ Program["error"][3] = "clear"
    /\ Program["error"][4] = "result" /\ Program["error"][5] = "unlock" /\ Program["error"][6] = "request"
    /\ Program["timeout"][1] = "flag" /\ Program["timeout"][2] = "read" /\ Program["timeout"][3] = "clear"
    /\ Program["timeout"][4] = "forget" /\ Program["timeout"][5] = "request" /\ Program["timeout"][6] = "result"
    /\ Program["timeout"][7] = "unlock"
    /\ WithoutTransaction["ok"][1] = "forget" /\ WithoutTransaction["ok"][2] = "clear"
    /\ WithoutTransaction["timeout"][1] = "clear" /\ WithoutTransaction["timeout"][2] = "result" /\ WithoutTransaction["timeout"][3] = "unlock"
BY DEF Program, WithoutTransaction

\* How far a handler is says what it does next.
LEMMA Stages ==
    ASSUME TypeOK, todo # <<>>, EndOf(todo, Program[handler])
    PROVE  /\ Len(todo) \in 1..7 /\ (handler # "timeout" => Len(todo) <= 6)
           /\ Head(todo) = "flag" <=> Len(todo) = 7
           /\ Head(todo) = "read" <=> Len(todo) = 6
           /\ Head(todo) = "forget" <=> Len(todo) = IF handler = "timeout" THEN 4 ELSE 5
           /\ Head(todo) = "clear" <=> Len(todo) = IF handler = "timeout" THEN 5 ELSE 4
           /\ Head(todo) = "request" <=> Len(todo) = IF handler = "error" THEN 1 ELSE 3
           /\ Head(todo) = "result" <=> Len(todo) = IF handler = "error" THEN 3 ELSE 2
           /\ Head(todo) = "unlock" <=> Len(todo) = IF handler = "error" THEN 2 ELSE 1
<1> DEFINE L == Len(todo)
<1>1. handler \in {"ok", "error", "timeout"} /\ todo \in Seq(Step)
    BY DEF TypeOK, Kind
<1>2. /\ Head(todo) = Program[handler][Len(Program[handler]) - L + 1]
      /\ L \in 1..Len(Program[handler])
    BY <1>1, TailOfEnd, Handlers DEF Kind
<1>3. CASE handler = "ok"
  <2>1. Len(Program[handler]) = 6 /\ Program[handler] = Program["ok"]
      BY <1>3, Handlers DEF Kind
  <2>2. L \in 1..6 /\ Head(todo) = Program["ok"][7 - L]
      BY <1>2, <2>1
  <2> HIDE DEF L
  <2>3. L = 1 => Head(todo) = "unlock"
      BY <2>2, ListedHandlers
  <2>4. L = 2 => Head(todo) = "result"
      BY <2>2, ListedHandlers
  <2>5. L = 3 => Head(todo) = "request"
      BY <2>2, ListedHandlers
  <2>6. L = 4 => Head(todo) = "clear"
      BY <2>2, ListedHandlers
  <2>7. L = 5 => Head(todo) = "forget"
      BY <2>2, ListedHandlers
  <2>8. L = 6 => Head(todo) = "read"
      BY <2>2, ListedHandlers
  <2>9. L = 1 \/ L = 2 \/ L = 3 \/ L = 4 \/ L = 5 \/ L = 6
      BY <2>2
  <2>10. handler # "timeout" /\ handler # "error"
      BY <1>3
  <2>11. /\ L \in 1..7 /\ (handler # "timeout" => L <= 6)
         /\ Head(todo) = "flag" <=> L = 7
         /\ Head(todo) = "read" <=> L = 6
         /\ Head(todo) = "forget" <=> L = IF handler = "timeout" THEN 4 ELSE 5
      BY <2>3, <2>4, <2>5, <2>6, <2>7, <2>8, <2>9, <2>10
  <2>12. /\ Head(todo) = "clear" <=> L = IF handler = "timeout" THEN 5 ELSE 4
         /\ Head(todo) = "request" <=> L = IF handler = "error" THEN 1 ELSE 3
         /\ Head(todo) = "result" <=> L = IF handler = "error" THEN 3 ELSE 2
         /\ Head(todo) = "unlock" <=> L = IF handler = "error" THEN 2 ELSE 1
      BY <2>3, <2>4, <2>5, <2>6, <2>7, <2>8, <2>9, <2>10
  <2> QED
      BY <2>11, <2>12 DEF L
<1>4. CASE handler = "error"
  <2>1. Len(Program[handler]) = 6 /\ Program[handler] = Program["error"]
      BY <1>4, Handlers DEF Kind
  <2>2. L \in 1..6 /\ Head(todo) = Program["error"][7 - L]
      BY <1>2, <2>1
  <2> HIDE DEF L
  <2>3. L = 1 => Head(todo) = "request"
      BY <2>2, ListedHandlers
  <2>4. L = 2 => Head(todo) = "unlock"
      BY <2>2, ListedHandlers
  <2>5. L = 3 => Head(todo) = "result"
      BY <2>2, ListedHandlers
  <2>6. L = 4 => Head(todo) = "clear"
      BY <2>2, ListedHandlers
  <2>7. L = 5 => Head(todo) = "forget"
      BY <2>2, ListedHandlers
  <2>8. L = 6 => Head(todo) = "read"
      BY <2>2, ListedHandlers
  <2>9. L = 1 \/ L = 2 \/ L = 3 \/ L = 4 \/ L = 5 \/ L = 6
      BY <2>2
  <2>10. handler # "timeout" /\ handler = "error"
      BY <1>4
  <2>11. /\ L \in 1..7 /\ (handler # "timeout" => L <= 6)
         /\ Head(todo) = "flag" <=> L = 7
         /\ Head(todo) = "read" <=> L = 6
         /\ Head(todo) = "forget" <=> L = IF handler = "timeout" THEN 4 ELSE 5
      BY <2>3, <2>4, <2>5, <2>6, <2>7, <2>8, <2>9, <2>10
  <2>12. /\ Head(todo) = "clear" <=> L = IF handler = "timeout" THEN 5 ELSE 4
         /\ Head(todo) = "request" <=> L = IF handler = "error" THEN 1 ELSE 3
         /\ Head(todo) = "result" <=> L = IF handler = "error" THEN 3 ELSE 2
         /\ Head(todo) = "unlock" <=> L = IF handler = "error" THEN 2 ELSE 1
      BY <2>3, <2>4, <2>5, <2>6, <2>7, <2>8, <2>9, <2>10
  <2> QED
      BY <2>11, <2>12 DEF L
<1>5. CASE handler = "timeout"
  <2>1. Len(Program[handler]) = 7 /\ Program[handler] = Program["timeout"]
      BY <1>5, Handlers DEF Kind
  <2>2. L \in 1..7 /\ Head(todo) = Program["timeout"][8 - L]
      BY <1>2, <2>1
  <2> HIDE DEF L
  <2>3. L = 1 => Head(todo) = "unlock"
      BY <2>2, ListedHandlers
  <2>4. L = 2 => Head(todo) = "result"
      BY <2>2, ListedHandlers
  <2>5. L = 3 => Head(todo) = "request"
      BY <2>2, ListedHandlers
  <2>6. L = 4 => Head(todo) = "forget"
      BY <2>2, ListedHandlers
  <2>7. L = 5 => Head(todo) = "clear"
      BY <2>2, ListedHandlers
  <2>8. L = 6 => Head(todo) = "read"
      BY <2>2, ListedHandlers
  <2>9. L = 7 => Head(todo) = "flag"
      BY <2>2, ListedHandlers
  <2>10. L = 1 \/ L = 2 \/ L = 3 \/ L = 4 \/ L = 5 \/ L = 6 \/ L = 7
      BY <2>2
  <2> QED
      BY <1>5, <2>3, <2>4, <2>5, <2>6, <2>7, <2>8, <2>9, <2>10 DEF L
<1> QED
    BY <1>1, <1>3, <1>4, <1>5

\* A handler that found no transaction neither looks again nor calls the
\* request's procs.
LEMMA StagesWithout ==
    ASSUME TypeOK, todo # <<>>, EndOf(todo, WithoutTransaction[handler])
    PROVE  Head(todo) \notin {"flag", "read", "request"}
<1> DEFINE L == Len(todo)
<1>1. handler \in {"ok", "error", "timeout"} /\ todo \in Seq(Step)
    BY DEF TypeOK, Kind
<1>2. /\ Head(todo) = WithoutTransaction[handler][Len(WithoutTransaction[handler]) - L + 1]
      /\ L \in 1..Len(WithoutTransaction[handler])
    BY <1>1, TailOfEnd, Handlers DEF Kind
<1>3. CASE handler = "ok"
  <2>1. Len(WithoutTransaction[handler]) = 2 /\ WithoutTransaction[handler] = WithoutTransaction["ok"]
      BY <1>3, Handlers DEF Kind
  <2>2. L \in 1..2 /\ Head(todo) = WithoutTransaction["ok"][3 - L]
      BY <1>2, <2>1
  <2> HIDE DEF L
  <2>3. L = 1 => Head(todo) = "clear"
      BY <2>2, ListedHandlers
  <2>4. L = 2 => Head(todo) = "forget"
      BY <2>2, ListedHandlers
  <2>5. L = 1 \/ L = 2
      BY <2>2
  <2> QED
      BY <1>3, <2>3, <2>4, <2>5 DEF L
<1>4. CASE handler = "error"
    BY <1>2, <1>4, Handlers
<1>5. CASE handler = "timeout"
  <2>1. Len(WithoutTransaction[handler]) = 3 /\ WithoutTransaction[handler] = WithoutTransaction["timeout"]
      BY <1>5, Handlers DEF Kind
  <2>2. L \in 1..3 /\ Head(todo) = WithoutTransaction["timeout"][4 - L]
      BY <1>2, <2>1
  <2> HIDE DEF L
  <2>3. L = 1 => Head(todo) = "unlock"
      BY <2>2, ListedHandlers
  <2>4. L = 2 => Head(todo) = "result"
      BY <2>2, ListedHandlers
  <2>5. L = 3 => Head(todo) = "clear"
      BY <2>2, ListedHandlers
  <2>6. L = 1 \/ L = 2 \/ L = 3
      BY <2>2
  <2> QED
      BY <1>5, <2>3, <2>4, <2>5, <2>6 DEF L
<1> QED
    BY <1>1, <1>3, <1>4, <1>5

-----------------------------------------------------------------------------
\* The initial states satisfy the invariant.
LEMMA InitIInv == Init => IInv
<1> SUFFICES ASSUME Init PROVE IInv
    OBVIOUS
<1>1. todo = <<>> /\ todo \in Seq(Step) /\ Len(todo) = 0 /\ handler = "ok" /\ 0 \in 0..MaxCalls
    BY DEF Init
<1>2. TypeOK
    BY <1>1 DEF Init, TypeOK, Kind, NoCall, Call
<1>3. EndOf(todo, Program[handler]) /\ Running
    BY <1>1, Handlers DEF EndOf, Running, Kind
<1>4. Counted /\ OwnResult /\ ToldBeforeReturn
    BY DEF Init, Counted, OwnResult, ToldBeforeReturn, Kind, NoCall, Call
<1>5. Outside /\ Timed /\ Inside
    BY <1>1 DEF Init, Outside, Timed, Inside, Ending
<1> QED
    BY <1>2, <1>3, <1>4, <1>5 DEF IInv, Clean

\* What is said of the handler holds on while the loop takes no step.
LEMMA LoopKept ==
    ASSUME Running, UNCHANGED loopVars
    PROVE  /\ Running' /\ (Ending' <=> Ending) /\ (InTimeoutCallback' <=> InTimeoutCallback)
           /\ EndOf(todo, Program[handler]) <=> EndOf(todo', Program[handler'])
BY DEF loopVars, Running, Ending, Unread, InTimeoutCallback

\* EnterCall: what is yet to come has no result.
LEMMA EnterCallKeeps == IInv /\ EnterCall => IInv'
<1> SUFFICES ASSUME IInv, EnterCall PROVE IInv'
    OBVIOUS
<1>1. Running' /\ (Ending' <=> Ending) /\ (EndOf(todo, Program[handler]) <=> EndOf(todo', Program[handler']))
    BY LoopKept DEF IInv, EnterCall
<1>2. TypeOK'
    BY DEF IInv, TypeOK, EnterCall, AppStep, Call, shared, loopVars, ghosts
<1>3. Counted'
    BY DEF IInv, TypeOK, Counted, EnterCall, AppStep, Call, NoCall, shared, loopVars, ghosts
<1>4. OwnResult' /\ ToldBeforeReturn'
    BY DEF IInv, EnterCall, OwnResult, ToldBeforeReturn, Undisturbed, shared, loopVars, ghosts
<1>5. ASSUME Undisturbed' PROVE Clean'
  <2>1. Clean
      BY <1>5 DEF IInv, EnterCall, Undisturbed, ghosts
  <2>2. Outside' /\ Timed' /\ Inside'
      BY <1>1, <2>1 DEF IInv, TypeOK, Clean, Outside, Timed, Inside, Counted, EnterCall, AppStep, Call, shared, loopVars, ghosts
  <2> QED
      BY <1>1, <2>1, <2>2 DEF Clean
<1> QED
    BY <1>1, <1>2, <1>3, <1>4, <1>5 DEF IInv

LEMMA ReturnBusyKeeps == IInv /\ ReturnBusy => IInv'
<1> SUFFICES ASSUME IInv, ReturnBusy PROVE IInv'
    OBVIOUS
<1>1. Running'
    BY LoopKept DEF IInv, ReturnBusy
<1>2. TypeOK'
    BY DEF IInv, TypeOK, ReturnBusy, AppStep, Call, shared, loopVars
<1>3. Counted'
    BY DEF IInv, TypeOK, Counted, ReturnBusy, AppStep, shared, loopVars
<1>4. ~Undisturbed'
    BY DEF IInv, Clean, Outside, ReturnBusy, AppStep, Undisturbed
<1> QED
    BY <1>1, <1>2, <1>3, <1>4 DEF IInv, OwnResult, ToldBeforeReturn

\* A step that neither moves the loop nor ends or reports anything.
LEMMA QuietStep ==
    ASSUME IInv, TypeOK', UNCHANGED <<n, loopVars, ghosts>>, curr' <= n,
           app' # "idle" => app # "idle",
           Undisturbed /\ Clean => Outside' /\ Timed' /\ Inside'
    PROVE  IInv'
<1>1. Running' /\ (EndOf(todo, Program[handler]) <=> EndOf(todo', Program[handler']))
    BY LoopKept DEF IInv
<1>2. Counted' /\ OwnResult' /\ ToldBeforeReturn' /\ (Undisturbed' <=> Undisturbed)
    BY DEF IInv, Counted, OwnResult, ToldBeforeReturn, Undisturbed, ghosts
<1> QED
    BY <1>1, <1>2 DEF IInv, Clean

LEMMA SetTransactionKeeps == IInv /\ SetTransaction => IInv'
<1> SUFFICES ASSUME IInv, SetTransaction PROVE IInv'
    OBVIOUS
<1>1. (Ending' <=> Ending) /\ (InTimeoutCallback' <=> InTimeoutCallback)
    BY LoopKept DEF IInv, SetTransaction
<1>2. n \in Call
    BY DEF IInv, TypeOK, Counted, SetTransaction, AppStep, Call
<1>3. TypeOK' /\ curr' <= n
    BY <1>2 DEF IInv, TypeOK, Counted, SetTransaction, AppStep, Call, shared, loopVars, ghosts
<1>4. ASSUME Undisturbed, Clean PROVE Outside' /\ Timed' /\ Inside'
    BY <1>1, <1>4 DEF Clean, Outside, Timed, Inside, SetTransaction, AppStep, shared, loopVars, ghosts
<1> QED
    BY <1>3, <1>4, QuietStep DEF SetTransaction, AppStep, ghosts, shared

LEMMA PostBufferKeeps == IInv /\ PostBuffer => IInv'
<1> SUFFICES ASSUME IInv, PostBuffer PROVE IInv'
    OBVIOUS
<1>1. (Ending' <=> Ending) /\ (InTimeoutCallback' <=> InTimeoutCallback)
    BY LoopKept DEF IInv, PostBuffer
<1>2. n \in Call
    BY DEF IInv, TypeOK, Counted, PostBuffer, AppStep, Call
<1>3. TypeOK' /\ curr' <= n
    BY <1>2 DEF IInv, TypeOK, Counted, PostBuffer, AppStep, Call, shared, loopVars, ghosts
<1>4. ASSUME Undisturbed, Clean PROVE Outside' /\ Timed' /\ Inside'
  <2>1. handler = "timeout" => Len(todo) = 0
      BY <1>4 DEF Clean, Outside, PostBuffer, AppStep, IInv, TypeOK
  <2>2. UnderWay' /\ ended'[n'] = "none"
      BY <1>1, <1>4, <2>1 DEF Clean, Outside, UnderWay, PostBuffer, AppStep, shared, loopVars, ghosts
  <2> QED
      BY <1>4, <2>2 DEF Clean, Outside, Timed, Inside, PostBuffer, AppStep, shared, loopVars, ghosts
<1> QED
    BY <1>3, <1>4, QuietStep DEF PostBuffer, AppStep, ghosts, shared

LEMMA SendRequestKeeps == IInv /\ SendRequest => IInv'
<1> SUFFICES ASSUME IInv, SendRequest PROVE IInv'
    OBVIOUS
<1>1. (Ending' <=> Ending) /\ (InTimeoutCallback' <=> InTimeoutCallback)
    BY LoopKept DEF IInv, SendRequest
<1>2. n \in Call
    BY DEF IInv, TypeOK, Counted, SendRequest, AppStep, Call
<1>3. TypeOK' /\ curr' <= n
    BY <1>2 DEF IInv, TypeOK, Counted, SendRequest, AppStep, Call, shared, loopVars, ghosts
<1>4. ASSUME Undisturbed, Clean PROVE Outside' /\ Timed' /\ Inside'
  <2>1. /\ UnderWay => UnderWay'
        /\ BeingEnded => BeingEnded'
        /\ Ended => Ended'
      BY <1>1 DEF UnderWay, BeingEnded, Ended, Told, Verdict, SendRequest, AppStep, shared, loopVars, ghosts
  <2> QED
      BY <1>1, <1>4, <2>1 DEF Clean, Outside, Timed, Inside, SendRequest, AppStep, shared, loopVars, ghosts
<1> QED
    BY <1>3, <1>4, QuietStep DEF SendRequest, AppStep, ghosts, shared

LEMMA ArmTimerKeeps == IInv /\ ArmTimer => IInv'
<1> SUFFICES ASSUME IInv, ArmTimer PROVE IInv'
    OBVIOUS
<1>1. (Ending' <=> Ending) /\ (InTimeoutCallback' <=> InTimeoutCallback)
    BY LoopKept DEF IInv, ArmTimer
<1>2. n \in Call
    BY DEF IInv, TypeOK, Counted, ArmTimer, AppStep, Call
<1>3. TypeOK' /\ curr' <= n
    BY <1>2 DEF IInv, TypeOK, Counted, ArmTimer, AppStep, Call, shared, loopVars, ghosts
<1>4. ASSUME Undisturbed, Clean PROVE Outside' /\ Timed' /\ Inside'
  <2>1. todo # <<>> => handler # "timeout"
      BY <1>4 DEF Clean, Timed, ArmTimer, AppStep
  <2>2. Len(todo) # 0 => todo # <<>>
      OBVIOUS
  <2>3. /\ UnderWay => UnderWay'
        /\ BeingEnded /\ Ending => BeingEnded'
        /\ Ended => Ended'
      BY <1>1, <2>1 DEF UnderWay, BeingEnded, Ended, Told, Verdict, Ending, ArmTimer, AppStep, shared, loopVars, ghosts
  <2> QED
      BY <1>1, <1>4, <2>1, <2>3 DEF Clean, Outside, Timed, Inside, ArmTimer, AppStep, shared, loopVars, ghosts
<1> QED
    BY <1>3, <1>4, QuietStep DEF ArmTimer, AppStep, ghosts, shared

LEMMA LockMutexKeeps == IInv /\ LockMutex => IInv'
<1> SUFFICES ASSUME IInv, LockMutex PROVE IInv'
    OBVIOUS
<1>1. (Ending' <=> Ending) /\ (InTimeoutCallback' <=> InTimeoutCallback)
    BY LoopKept DEF IInv, LockMutex
<1>2. n \in Call
    BY DEF IInv, TypeOK, Counted, LockMutex, AppStep, Call
<1>3. TypeOK' /\ curr' <= n
    BY <1>2 DEF IInv, TypeOK, Counted, LockMutex, AppStep, Call, shared, loopVars, ghosts
<1>4. ASSUME Undisturbed, Clean PROVE Outside' /\ Timed' /\ Inside'
  <2>1. ~UnderWay /\ ~BeingEnded
      BY DEF UnderWay, BeingEnded, LockMutex
  <2>2. Ended => Ended'
      BY <1>1 DEF Ended, Told, Verdict, LockMutex, AppStep, shared, loopVars, ghosts
  <2> QED
      BY <1>1, <1>4, <2>1, <2>2 DEF Clean, Outside, Timed, Inside, LockMutex, AppStep, shared, loopVars, ghosts
<1> QED
    BY <1>3, <1>4, QuietStep DEF LockMutex, AppStep, ghosts, shared

LEMMA DeleteTimerKeeps == IInv /\ DeleteTimer => IInv'
<1> SUFFICES ASSUME IInv, DeleteTimer PROVE IInv'
    OBVIOUS
<1>1. (Ending' <=> Ending) /\ (InTimeoutCallback' <=> InTimeoutCallback)
    BY LoopKept DEF IInv, DeleteTimer
<1>2. n \in Call
    BY DEF IInv, TypeOK, Counted, DeleteTimer, AppStep, Call
<1>3. TypeOK' /\ curr' <= n
    BY <1>2 DEF IInv, TypeOK, Counted, DeleteTimer, AppStep, Call, shared, loopVars, ghosts
<1>4. ASSUME Undisturbed, Clean PROVE Outside' /\ Timed' /\ Inside'
  <2>1. ~UnderWay /\ ~BeingEnded
      BY DEF UnderWay, BeingEnded, DeleteTimer, AppStep
  <2>2. Ended => Ended'
      BY <1>1 DEF Ended, Told, Verdict, DeleteTimer, AppStep, shared, loopVars, ghosts
  <2> QED
      BY <1>1, <1>4, <2>1, <2>2 DEF Clean, Outside, Timed, Inside, InTimeoutCallback, DeleteTimer, AppStep, shared, loopVars, ghosts
<1> QED
    BY <1>3, <1>4, QuietStep DEF DeleteTimer, AppStep, ghosts, shared

\* The caller returns: by then its transaction has ended and the event loop is
\* done with it, but for the request's callback after an error.
LEMMA ReturnResultKeeps == IInv /\ ReturnResult => IInv'
<1> SUFFICES ASSUME IInv, ReturnResult PROVE IInv'
    OBVIOUS
<1>1. /\ Running' /\ (Ending' <=> Ending)
      /\ EndOf(todo, Program[handler]) <=> EndOf(todo', Program[handler'])
    BY LoopKept DEF IInv, ReturnResult
<1>2. TypeOK'
    BY DEF IInv, TypeOK, ReturnResult, AppStep, shared, loopVars, ghosts, Kind
<1>3. Counted'
    BY DEF IInv, TypeOK, Counted, ReturnResult, AppStep, shared, loopVars, ghosts
<1>4. ASSUME Undisturbed'
      PROVE  /\ Clean /\ Undisturbed /\ Ended /\ ~Ending /\ ended[n] # "none"
             /\ todo # <<>> => handler = "error"
             /\ ~timer /\ ~token
  <2>1. Clean /\ Undisturbed
      BY <1>4 DEF IInv, ReturnResult, Undisturbed
  <2>2. Ended /\ ~Ending /\ ended[n] # "none"
      BY <2>1 DEF Clean, Inside, UnderWay, BeingEnded, ReturnResult, AppStep
  <2> QED
      BY <2>1, <2>2 DEF Clean, Timed, Ended, ReturnResult, AppStep, IInv, TypeOK, Kind
<1>5. ASSUME Undisturbed' PROVE OwnResult' /\ ToldBeforeReturn'
  <2>1. Verdict /\ Told
      BY <1>4, <1>5 DEF Ended, InTimeoutCallback
  <2>2. \A c \in Call : c # n => got'[c] = got[c]
      BY DEF ReturnResult, IInv, TypeOK
  <2>3. n \in Call => got'[n] = ended[n]
      BY <2>1 DEF Verdict, ReturnResult, IInv, TypeOK
  <2> QED
      BY <1>4, <1>5, <2>1, <2>2, <2>3 DEF IInv, OwnResult, ToldBeforeReturn, Told, ReturnResult
<1>6. ASSUME Undisturbed' PROVE Clean'
    BY <1>1, <1>4, <1>6 DEF Clean, Outside, Timed, Inside, Ended, ReturnResult, AppStep, shared, loopVars, ghosts
<1> QED
    BY <1>1, <1>2, <1>3, <1>5, <1>6 DEF IInv, OwnResult, ToldBeforeReturn

LEMMA AnswerDroppedKeeps == ASSUME NEW c \in wire, IInv, AnswerDropped(c) PROVE IInv'
<1>1. TypeOK' /\ curr' <= n
    BY DEF IInv, TypeOK, Counted, AnswerDropped, appVars, shared, loopVars, ghosts
<1>2. (Ending' <=> Ending) /\ (InTimeoutCallback' <=> InTimeoutCallback)
    BY LoopKept DEF IInv, AnswerDropped
<1>3. ASSUME Clean PROVE Outside' /\ Timed' /\ Inside'
  <2>1. /\ UnderWay => UnderWay'
        /\ BeingEnded => BeingEnded'
        /\ Ended => Ended'
      BY <1>2 DEF UnderWay, BeingEnded, Ended, Told, Verdict, AnswerDropped, appVars, shared, loopVars, ghosts
  <2> QED
      BY <1>2, <1>3, <2>1 DEF Clean, Outside, Timed, Inside, AnswerDropped, appVars, shared, loopVars, ghosts
<1> QED
    BY <1>1, <1>3, QuietStep DEF AnswerDropped, appVars, shared

-----------------------------------------------------------------------------
\* A handler begins: nothing is done yet.
LEMMA StartKeeps ==
    ASSUME IInv, NEW h \in Kind, todo = <<>>, Start(h), TypeOK',
           UNCHANGED <<cpp, appVars, curr, rxPdu, token, result, isTimeout, ghosts>>,
           timer' => timer /\ h # "timeout",
           h = "ok" => rxPdu # NoCall,
           h = "timeout" => timer
    PROVE  IInv'
<1>1. /\ Len(todo) = 0 /\ todo' # <<>> /\ Len(todo') = IF h = "timeout" THEN 7 ELSE 6
      /\ EndOf(todo', Program[handler'])
    BY Handlers DEF Start, EndOf
<1>2. handler' = h /\ Unread' /\ ~Ending' /\ ~Ending
    BY <1>1 DEF Start, Unread, Ending, Kind
<1>3. Running'
    BY <1>1, <1>2 DEF Running
<1>4. Counted' /\ OwnResult' /\ ToldBeforeReturn' /\ (Undisturbed' <=> Undisturbed)
    BY DEF IInv, Counted, OwnResult, ToldBeforeReturn, Undisturbed, appVars, ghosts
<1>5. ASSUME Clean PROVE Outside' /\ Timed' /\ Inside'
  <2>1. Outside'
      BY <1>1, <1>2, <1>5 DEF Clean, Outside, appVars, ghosts, Kind
  <2>2. Timed'
      BY <1>2, <1>5 DEF Clean, Timed, Outside, appVars
  <2>3. UnderWay => UnderWay'
      BY <1>1, <1>2 DEF UnderWay, appVars
  <2>4. Ended => Ended'
      BY <1>1, <1>2 DEF Ended, Told, Verdict, InTimeoutCallback, appVars, ghosts, Kind
  <2> QED
      BY <1>2, <1>5, <2>1, <2>2, <2>3, <2>4 DEF Clean, Inside, appVars, ghosts
<1> QED
    BY <1>1, <1>3, <1>4, <1>5 DEF IInv, Clean

LEMMA AnswerArrivesKeeps ==
    ASSUME NEW c \in wire, NEW h \in {"ok", "error"}, IInv, AnswerArrives(c, h) PROVE IInv'
<1>1. Program[h] \in Seq(Step) /\ h \in Kind
    BY Handlers DEF Kind
<1>2. TypeOK'
    BY <1>1 DEF IInv, TypeOK, AnswerArrives, Start, appVars, shared, ghosts, Kind
<1> QED
    BY <1>1, <1>2, StartKeeps DEF AnswerArrives, LoopIdle, shared, TypeOK, IInv

LEMMA TransportErrorKeeps == IInv /\ TransportError => IInv'
<1> SUFFICES ASSUME IInv, TransportError PROVE IInv'
    OBVIOUS
<1>1. Program["error"] \in Seq(Step) /\ "error" \in Kind
    BY Handlers DEF Kind
<1>2. TypeOK'
    BY <1>1 DEF IInv, TypeOK, TransportError, Start, appVars, shared, ghosts, Kind
<1> QED
    BY <1>1, <1>2, StartKeeps DEF TransportError, LoopIdle, shared

LEMMA TimerFiresKeeps == IInv /\ TimerFires => IInv'
<1> SUFFICES ASSUME IInv, TimerFires PROVE IInv'
    OBVIOUS
<1>1. Program["timeout"] \in Seq(Step) /\ "timeout" \in Kind
    BY Handlers DEF Kind
<1>2. TypeOK'
    BY <1>1 DEF IInv, TypeOK, TimerFires, Start, appVars, ghosts, Kind
<1> QED
    BY <1>1, <1>2, StartKeeps DEF TimerFires, LoopIdle

-----------------------------------------------------------------------------
\* A handler goes on: it is one step nearer to its end.
LEMMA DoesKeeps ==
    ASSUME TypeOK, Running, NEW s, s # "read", Does(s), req' = req
    PROVE  /\ Running' /\ todo # <<>> /\ Head(todo) = s
           /\ todo' \in Seq(Step) /\ Len(todo') = Len(todo) - 1 /\ Len(todo') \in Nat
           /\ EndOf(todo, Program[handler]) => EndOf(todo', Program[handler'])
<1>1. todo # <<>> /\ Head(todo) = s /\ todo' = Tail(todo) /\ handler' = handler
    BY DEF Does
<1>2. /\ todo \in Seq(Step) /\ handler \in Kind
      /\ Program[handler] \in Seq(Step) /\ WithoutTransaction[handler] \in Seq(Step)
    BY Handlers DEF TypeOK
<1>3. todo' \in Seq(Step) /\ Len(todo') = Len(todo) - 1 /\ Len(todo') \in Nat
    BY <1>1, <1>2
<1>4. EndOf(todo, Program[handler]) => EndOf(todo', Program[handler'])
    BY <1>1, <1>2, TailOfEnd
<1>5. EndOf(todo, WithoutTransaction[handler]) => EndOf(todo', WithoutTransaction[handler'])
    BY <1>1, <1>2, TailOfEnd
<1>6. ASSUME EndOf(todo, Program[handler]), Unread PROVE Unread'
  <2>1. Len(todo) # 6
      BY <1>1, <1>6, Stages
  <2> QED
      BY <1>1, <1>3, <1>6, <2>1 DEF Unread
<1> QED
    BY <1>1, <1>3, <1>4, <1>5, <1>6 DEF Running

\* What such a step has to show besides.
LEMMA HandlerStep ==
    ASSUME IInv, TypeOK', NEW s, s # "read", Does(s),
           UNCHANGED <<cpp, appVars, timer, req, got, ended, raced, torn>>,
           curr' <= n, told \subseteq told',
           Undisturbed /\ Clean => (Outside /\ Timed /\ Inside)'
    PROVE  IInv'
<1>1. Running' /\ (EndOf(todo, Program[handler]) => EndOf(todo', Program[handler']))
    BY DoesKeeps DEF IInv
<1>2. Counted' /\ OwnResult' /\ ToldBeforeReturn' /\ (Undisturbed' <=> Undisturbed)
    BY DEF IInv, Counted, OwnResult, ToldBeforeReturn, Undisturbed, appVars
<1> QED
    BY <1>1, <1>2 DEF IInv, Clean

\* In a clean state, a handler that has looked at curr_transaction and not woken
\* the caller is ending the transaction of the call.
LEMMA EndingInside ==
    ASSUME Clean, Ending
    PROVE  app \notin {"idle", "check", "post"} /\ BeingEnded /\ ended[n] # "none"
BY DEF Clean, Outside, Inside, UnderWay

LEMMA RaiseFlagKeeps == IInv /\ RaiseFlag => IInv'
<1> SUFFICES ASSUME IInv, RaiseFlag PROVE IInv'
    OBVIOUS
<1>1. /\ todo # <<>> /\ Head(todo) = "flag" /\ todo' \in Seq(Step)
      /\ Len(todo') = Len(todo) - 1 /\ handler' = handler
    BY DoesKeeps DEF IInv, RaiseFlag, Does
<1>2. TypeOK' /\ curr' <= n
    BY <1>1 DEF IInv, TypeOK, Counted, RaiseFlag, appVars, ghosts
<1>3. ASSUME Clean PROVE (Outside /\ Timed /\ Inside)'
  <2>1. Len(todo) = 7 /\ Len(todo') = 6 /\ todo' # <<>> /\ handler = "timeout"
      BY <1>1, <1>3, Stages DEF Clean, IInv
  <2>2. ~Ending /\ ~Ending'
      BY <1>1, <2>1 DEF Ending
  <2>3. UnderWay => UnderWay'
      BY <1>1, <2>1, <2>2 DEF UnderWay, RaiseFlag, appVars
  <2>4. Ended => Ended'
      BY <1>1, <2>1 DEF Ended, Told, InTimeoutCallback, RaiseFlag, appVars, ghosts
  <2> QED
      BY <1>1, <1>3, <2>1, <2>2, <2>3, <2>4
         DEF Clean, Outside, Timed, Inside, RaiseFlag, appVars, ghosts
<1> QED
    BY <1>2, <1>3, HandlerStep DEF RaiseFlag, appVars, ghosts
LEMMA ForgetTransactionKeeps == IInv /\ ForgetTransaction => IInv'
<1> SUFFICES ASSUME IInv, ForgetTransaction PROVE IInv'
    OBVIOUS
<1>1. /\ todo # <<>> /\ Head(todo) = "forget" /\ todo' \in Seq(Step)
      /\ Len(todo') = Len(todo) - 1 /\ handler' = handler
    BY DoesKeeps DEF IInv, ForgetTransaction, Does
<1>2. TypeOK' /\ curr' <= n
    BY <1>1 DEF IInv, TypeOK, Counted, ForgetTransaction, Kind, NoCall, shared, appVars, ghosts
<1>3. ASSUME Clean PROVE (Outside /\ Timed /\ Inside)'
  <2>1. /\ Len(todo) = IF handler = "timeout" THEN 4 ELSE 5
        /\ Len(todo') = IF handler = "timeout" THEN 3 ELSE 4
        /\ todo' # <<>> /\ handler \in Kind
      BY <1>1, <1>3, Stages DEF Clean, IInv, TypeOK
  <2>2. Ending /\ Ending'
      BY <1>1, <2>1 DEF Ending, Kind
  <2>3. app \notin {"idle", "check", "post"} /\ BeingEnded /\ ended[n] # "none"
      BY <1>3, <2>2, EndingInside
  <2>4. BeingEnded'
      BY <1>1, <2>1, <2>3 DEF BeingEnded, ForgetTransaction, appVars, ghosts
  <2> QED
      BY <1>1, <1>3, <2>1, <2>2, <2>3, <2>4
         DEF Clean, Outside, Timed, Inside, ForgetTransaction, appVars, ghosts
<1> QED
    BY <1>2, <1>3, HandlerStep DEF ForgetTransaction, appVars, shared, ghosts

LEMMA ClearBufferKeeps == IInv /\ ClearBuffer => IInv'
<1> SUFFICES ASSUME IInv, ClearBuffer PROVE IInv'
    OBVIOUS
<1>1. /\ todo # <<>> /\ Head(todo) = "clear" /\ todo' \in Seq(Step)
      /\ Len(todo') = Len(todo) - 1 /\ handler' = handler
    BY DoesKeeps DEF IInv, ClearBuffer, Does
<1>2. TypeOK' /\ curr' <= n
    BY <1>1 DEF IInv, TypeOK, Counted, ClearBuffer, Kind, NoCall, shared, appVars, ghosts
<1>3. ASSUME Clean PROVE (Outside /\ Timed /\ Inside)'
  <2>1. /\ Len(todo) = IF handler = "timeout" THEN 5 ELSE 4
        /\ Len(todo') = IF handler = "timeout" THEN 4 ELSE 3
        /\ todo' # <<>> /\ handler \in Kind
      BY <1>1, <1>3, Stages DEF Clean, IInv, TypeOK
  <2>2. Ending /\ Ending'
      BY <1>1, <2>1 DEF Ending, Kind
  <2>3. app \notin {"idle", "check", "post"} /\ BeingEnded /\ ended[n] # "none"
      BY <1>3, <2>2, EndingInside
  <2>4. BeingEnded'
      BY <1>1, <2>1, <2>3 DEF BeingEnded, ClearBuffer, appVars, ghosts
  <2> QED
      BY <1>1, <1>3, <2>1, <2>2, <2>3, <2>4
         DEF Clean, Outside, Timed, Inside, ClearBuffer, appVars, ghosts
<1> QED
    BY <1>2, <1>3, HandlerStep DEF ClearBuffer, appVars, shared, ghosts

LEMMA SetResultKeeps == IInv /\ SetResult => IInv'
<1> SUFFICES ASSUME IInv, SetResult PROVE IInv'
    OBVIOUS
<1>1. /\ todo # <<>> /\ Head(todo) = "result" /\ todo' \in Seq(Step)
      /\ Len(todo') = Len(todo) - 1 /\ handler' = handler
    BY DoesKeeps DEF IInv, SetResult, Does
<1>2. TypeOK' /\ curr' <= n
    BY <1>1 DEF IInv, TypeOK, Counted, SetResult, Kind, NoCall, shared, appVars, ghosts
<1>3. ASSUME Clean PROVE (Outside /\ Timed /\ Inside)'
  <2>1. /\ Len(todo) = IF handler = "error" THEN 3 ELSE 2
        /\ Len(todo') = IF handler = "error" THEN 2 ELSE 1
        /\ todo' # <<>> /\ handler \in Kind
      BY <1>1, <1>3, Stages DEF Clean, IInv, TypeOK
  <2>2. Ending /\ Ending'
      BY <1>1, <2>1 DEF Ending, Kind
  <2>3. app \notin {"idle", "check", "post"} /\ BeingEnded /\ ended[n] # "none"
      BY <1>3, <2>2, EndingInside
  <2>4. Verdict'
      BY <2>1, <2>3 DEF BeingEnded, Verdict, SetResult, appVars, ghosts
  <2>5. BeingEnded'
      BY <1>1, <2>1, <2>3, <2>4 DEF BeingEnded, Told, SetResult, appVars, ghosts
  <2> QED
      BY <1>1, <1>3, <2>1, <2>2, <2>3, <2>5
         DEF Clean, Outside, Timed, Inside, SetResult, appVars, ghosts
<1> QED
    BY <1>2, <1>3, HandlerStep DEF SetResult, appVars, shared, ghosts

LEMMA UnlockMutexKeeps == IInv /\ UnlockMutex => IInv'
<1> SUFFICES ASSUME IInv, UnlockMutex PROVE IInv'
    OBVIOUS
<1>1. /\ todo # <<>> /\ Head(todo) = "unlock" /\ todo' \in Seq(Step)
      /\ Len(todo') = Len(todo) - 1 /\ handler' = handler
    BY DoesKeeps DEF IInv, UnlockMutex, Does
<1>2. TypeOK' /\ curr' <= n
    BY <1>1 DEF IInv, TypeOK, Counted, UnlockMutex, Kind, NoCall, shared, appVars, ghosts
<1>3. ASSUME Clean PROVE (Outside /\ Timed /\ Inside)'
  <2>1. /\ Len(todo) = IF handler = "error" THEN 2 ELSE 1
        /\ Len(todo') = IF handler = "error" THEN 1 ELSE 0
        /\ todo' # <<>> => handler = "error"
        /\ handler \in Kind
      BY <1>1, <1>3, Stages DEF Clean, IInv, TypeOK
  <2>2. Ending /\ ~Ending'
      BY <1>1, <2>1 DEF Ending, Kind
  <2>3. app \notin {"idle", "check", "post"} /\ BeingEnded /\ ended[n] # "none"
      BY <1>3, <2>2, EndingInside
  <2>4. Verdict' /\ Told'
      BY <2>1, <2>3 DEF BeingEnded, Verdict, Told, UnlockMutex, appVars, ghosts
  <2>5. handler = "timeout" => app \in {"lock", "del"}
      BY <1>1, <1>3, <2>3 DEF Clean, Timed
  <2>6. Ended'
      BY <1>1, <2>1, <2>3, <2>4, <2>5 DEF BeingEnded, Ended, UnlockMutex, appVars, ghosts
  <2> QED
      BY <1>1, <1>3, <2>1, <2>2, <2>3, <2>6
         DEF Clean, Outside, Timed, Inside, UnlockMutex, appVars, ghosts
<1> QED
    BY <1>2, <1>3, HandlerStep DEF UnlockMutex, appVars, shared, ghosts

\* The request's procs are only called for a transaction that was found.
LEMMA CallRequestKeeps == IInv /\ CallRequest => IInv'
<1> SUFFICES ASSUME IInv, CallRequest PROVE IInv'
    OBVIOUS
<1>1. /\ todo # <<>> /\ Head(todo) = "request" /\ todo' \in Seq(Step)
      /\ Len(todo') = Len(todo) - 1 /\ Len(todo') \in Nat /\ handler' = handler
    BY DoesKeeps DEF IInv, CallRequest, Does
<1>2. req \in Call
  <2>1. EndOf(todo, Program[handler]) /\ (Unread \/ req # NoCall)
      BY <1>1, StagesWithout DEF IInv, Running
  <2>2. Len(todo) # 6 /\ Len(todo) # 7
      BY <1>1, <2>1, Stages DEF IInv
  <2> QED
      BY <2>1, <2>2 DEF Unread, IInv, TypeOK, NoCall
<1>3. TypeOK' /\ curr' <= n
    BY <1>1, <1>2 DEF IInv, TypeOK, Counted, CallRequest, appVars, shared
<1>4. ASSUME Clean PROVE (Outside /\ Timed /\ Inside)'
  <2>1. /\ Len(todo) = IF handler = "error" THEN 1 ELSE 3
        /\ Len(todo') = IF handler = "error" THEN 0 ELSE 2
        /\ handler \in Kind
      BY <1>1, <1>4, Stages DEF Clean, IInv, TypeOK
  <2>2. CASE handler = "error"
    <3>1. todo' = <<>> /\ ~Ending /\ ~Ending'
        BY <1>1, <2>1, <2>2 DEF Ending
    <3>2. /\ UnderWay => UnderWay'
          /\ Ended => Ended'
        BY <1>1, <2>1, <2>2, <3>1
           DEF UnderWay, Ended, Told, Verdict, InTimeoutCallback, CallRequest, appVars, shared
    <3> QED
        BY <1>1, <1>4, <2>2, <3>1, <3>2 DEF Clean, Outside, Timed, Inside, CallRequest, appVars, shared
  <2>3. CASE handler # "error"
    <3>1. todo' # <<>> /\ Ending /\ Ending'
        BY <1>1, <2>1, <2>3 DEF Ending, Kind
    <3>2. app \notin {"idle", "check", "post"} /\ BeingEnded /\ ended[n] # "none"
        BY <1>4, <3>1, EndingInside
    <3>3. Told'
        BY <3>2 DEF BeingEnded, Told, CallRequest, appVars
    <3>4. BeingEnded'
        BY <1>1, <2>1, <2>3, <3>2, <3>3 DEF BeingEnded, CallRequest, appVars, shared
    <3> QED
        BY <1>1, <1>4, <3>1, <3>2, <3>4 DEF Clean, Outside, Timed, Inside, CallRequest, appVars, shared
  <2> QED
      BY <2>2, <2>3
<1> QED
    BY <1>3, <1>4, HandlerStep DEF CallRequest, appVars, shared

\* The handler looks at curr_transaction.
LEMMA ReadTransactionKeeps == IInv /\ ReadTransaction => IInv'
<1> SUFFICES ASSUME IInv, ReadTransaction PROVE IInv'
    OBVIOUS
<1>1. /\ todo # <<>> /\ Head(todo) = "read" /\ handler' = handler
      /\ todo \in Seq(Step) /\ handler \in Kind
      /\ Program[handler] \in Seq(Step) /\ WithoutTransaction[handler] \in Seq(Step)
    BY Handlers DEF IInv, TypeOK, ReadTransaction
<1>2. EndOf(todo, Program[handler])
    BY <1>1, StagesWithout DEF IInv, Running
<1>3. Len(todo) = 6 /\ Len(Tail(todo)) = 5 /\ Tail(todo) \in Seq(Step) /\ EndOf(Tail(todo), Program[handler])
    BY <1>1, <1>2, Stages, TailOfEnd DEF IInv
<1>4. TypeOK'
    BY <1>1, <1>3 DEF IInv, TypeOK, ReadTransaction, appVars, shared
<1>5. Running'
  <2>1. CASE curr = NoCall
    <3>1. todo' = WithoutTransaction[handler']
        BY <1>1, <2>1 DEF ReadTransaction
    <3>2. EndOf(todo', WithoutTransaction[handler'])
        BY <1>1, <3>1 DEF EndOf
    <3> QED
        BY <3>2 DEF Running
  <2>2. CASE curr # NoCall
      BY <1>1, <1>3, <2>2 DEF ReadTransaction, Running
  <2> QED
      BY <2>1, <2>2
<1>6. Counted'
    BY DEF IInv, TypeOK, Counted, ReadTransaction, appVars, shared, Call
<1>7. ASSUME Undisturbed'
      PROVE  /\ Undisturbed /\ Clean /\ app # "post" /\ (handler = "timeout" => curr # NoCall)
             /\ ~Ending
  <2>1. ~raced /\ ~torn /\ app # "post" /\ ~(handler = "timeout" /\ curr = NoCall)
      BY <1>7, Zenon DEF Undisturbed, ReadTransaction
  <2>2. ~Ending
      BY <1>3 DEF Ending
  <2> QED
      BY <2>1, <2>2 DEF IInv, Undisturbed
<1>8. ASSUME Undisturbed', curr = NoCall PROVE OwnResult' /\ ToldBeforeReturn' /\ Clean'
  <2>1. ended' = ended /\ curr \notin Call
      BY <1>8 DEF ReadTransaction, IInv, TypeOK, NoCall, Call
  <2>2. OwnResult' /\ ToldBeforeReturn'
      BY <1>7, <1>8, <2>1 DEF IInv, OwnResult, ToldBeforeReturn, ReadTransaction
  <2>3. handler = "error" /\ ~InTimeoutCallback
    <3>1. CASE app \in {"idle", "check", "post"}
        BY <1>1, <1>7, <1>8, <3>1 DEF Clean, Outside, InTimeoutCallback
    <3>2. CASE app \notin {"idle", "check", "post"}
      <4>1. ~UnderWay
          BY <1>1, <1>8, <3>2 DEF UnderWay, IInv, Counted, NoCall, TypeOK
      <4> QED
          BY <1>1, <1>7, <1>8, <3>2, <4>1 DEF Clean, Inside, Ended, Kind, InTimeoutCallback
    <3> QED
        BY <3>1, <3>2
  <2>4. todo' = <<>> /\ Len(todo') = 0 /\ ~Ending' /\ ~InTimeoutCallback'
      BY <1>1, <1>8, <2>3 DEF ReadTransaction, WithoutTransaction, Ending, InTimeoutCallback
  <2>5. EndOf(todo', Program[handler'])
      BY <1>1, <2>4, Handlers DEF EndOf
  <2>6. Ended => Ended'
      BY <1>1, <2>1, <2>3, <2>4 DEF Ended, Told, Verdict, ReadTransaction, appVars, shared
  <2>7. app \notin {"idle", "check", "post"} => ~UnderWay
      BY <1>8 DEF UnderWay, IInv, Counted, NoCall, TypeOK
  <2>8. Outside' /\ Timed'
      BY <1>1, <1>7, <1>8, <2>1, <2>4 DEF Clean, Outside, Timed, ReadTransaction, appVars, shared
  <2>9. Inside'
      BY <1>7, <1>8, <2>1, <2>4, <2>6, <2>7 DEF Clean, Inside, ReadTransaction, appVars
  <2> QED
      BY <2>2, <2>5, <2>8, <2>9 DEF Clean
<1>9. ASSUME Undisturbed', curr # NoCall PROVE OwnResult' /\ ToldBeforeReturn' /\ Clean'
  <2>1. app \notin {"idle", "check", "post"}
      BY <1>7, <1>9 DEF Clean, Outside
  <2>2. UnderWay /\ ended[n] = "none" /\ n \in Call
      BY <1>7, <1>9, <2>1 DEF Clean, Inside, Ended, IInv, TypeOK, Counted, Call
  <2>3. /\ ended'[n] = handler /\ got[n] = "none"
        /\ \A c \in Call : c # n => ended'[c] = ended[c]
      BY <2>1, <2>2 DEF UnderWay, ReadTransaction, IInv, Counted
  <2>4. OwnResult' /\ ToldBeforeReturn'
      BY <1>7, <2>3 DEF IInv, OwnResult, ToldBeforeReturn, ReadTransaction, Kind
  <2>5. todo' = Tail(todo) /\ todo' # <<>> /\ Len(todo') = 5 /\ req' = n
    <3>1. todo' = Tail(todo) /\ req' = n
        BY <1>9, <2>2 DEF ReadTransaction, UnderWay
    <3>2. Len(todo') = 5 /\ Len(<<>>) = 0
        BY <1>3, <3>1
    <3>3. todo' # <<>>
        BY <3>2
    <3> QED
        BY <3>1, <3>2, <3>3
  <2>6. Ending'
      BY <1>1, <2>5 DEF Ending, Kind
  <2>7. handler = "timeout" => isTimeout
      BY <1>3, <2>2 DEF UnderWay
  <2>8. BeingEnded'
    <3>1. /\ curr' = n /\ rxPdu' = n /\ ~token' /\ app' \in {"send", "arm", "lock"} /\ n' = n
        BY <2>2 DEF UnderWay, ReadTransaction, appVars, shared
    <3>2. handler' = "timeout" => isTimeout'
        BY <1>1, <2>7 DEF ReadTransaction, shared
    <3>3. Len(todo') = 5 /\ 5 \notin {1, 2} /\ 5 \notin 1..2
        BY <2>5
    <3>4. ended'[n'] = handler' /\ req' = n'
        BY <1>1, <2>3, <2>5, <3>1
    <3>5. /\ curr' = IF Len(todo') = 5 \/ (handler' = "timeout" /\ Len(todo') = 4) THEN n' ELSE NoCall
          /\ rxPdu' = IF Len(todo') = 5 \/ (handler' # "timeout" /\ Len(todo') = 4) THEN n' ELSE NoCall
        BY <3>1, <3>3
    <3> QED
        BY <3>1, <3>2, <3>3, <3>4, <3>5, Zenon DEF BeingEnded
  <2>9. Outside' /\ Timed'
      BY <1>1, <1>7, <1>9, <2>1, <2>5 DEF Clean, Outside, Timed, ReadTransaction, appVars, shared
  <2>10. Inside'
      BY <1>1, <2>3, <2>6, <2>8 DEF Inside, ReadTransaction, appVars, Kind
  <2> QED
      BY <1>1, <1>3, <2>4, <2>5, <2>9, <2>10 DEF Clean
<1> QED
    BY <1>4, <1>5, <1>6, <1>8, <1>9 DEF IInv, OwnResult, ToldBeforeReturn

-----------------------------------------------------------------------------
\* Every step of either thread keeps the invariant.
LEMMA NextKeeps == IInv /\ [Next]_vars => IInv'
<1> SUFFICES ASSUME IInv, [Next]_vars PROVE IInv'
    OBVIOUS
<1>1. CASE AppNext
    BY <1>1, EnterCallKeeps, ReturnBusyKeeps, SetTransactionKeeps, PostBufferKeeps,
       SendRequestKeeps, ArmTimerKeeps, LockMutexKeeps, DeleteTimerKeeps, ReturnResultKeeps
       DEF AppNext
<1>2. CASE HandlerNext
    BY <1>2, RaiseFlagKeeps, ReadTransactionKeeps, ForgetTransactionKeeps, ClearBufferKeeps,
       CallRequestKeeps, SetResultKeeps, UnlockMutexKeeps DEF HandlerNext
<1>3. CASE \E c \in wire, h \in {"ok", "error"} : AnswerArrives(c, h)
    BY <1>3, AnswerArrivesKeeps
<1>4. CASE \E c \in wire : AnswerDropped(c)
    BY <1>4, AnswerDroppedKeeps
<1>5. CASE TransportError \/ TimerFires
    BY <1>5, TransportErrorKeeps, TimerFiresKeeps
<1>6. CASE UNCHANGED vars
    BY <1>6 DEF vars, appVars, shared, loopVars, ghosts, IInv, TypeOK, Running, Counted, OwnResult,
       ToldBeforeReturn, Undisturbed, Clean, Outside, Timed, Inside, UnderWay, BeingEnded, Ended,
       Ending, Unread, Told, Verdict, InTimeoutCallback
<1> QED
    BY <1>1, <1>2, <1>3, <1>4, <1>5, <1>6 DEF Next

\* The inductive invariant holds of every run.
LEMMA IInvAlways == Spec => []IInv
BY InitIInv, NextKeeps, PTL DEF Spec

\* Every variable of the synchronous clients keeps its type, and a call that was
\* neither met by a late timer nor torn by a transport error leaves no buffer
\* posted, no transaction, no timer and the mutex locked, ready for the next
\* (do_transaction and emb_client_do_request of posix/client.c and client.cpp).
THEOREM InvCorrect == Spec => []Inv
<1>1. IInv => Inv
    BY DEF IInv, Inv, ReadyAgain, Clean, Outside
<1> QED
    BY <1>1, IInvAlways, PTL

\* A call returns the way its own transaction ended, although nothing guards
\* transact_result and is_timeout, which both threads write.
THEOREM OwnResultCorrect == Spec => []OwnResult
<1>1. IInv => OwnResult
    BY DEF IInv
<1> QED
    BY <1>1, IInvAlways, PTL

\* When a call returns with a response or a timeout, the callback of its request
\* has been made: the handlers make it before they unlock the mutex.
THEOREM ToldFirst == Spec => []ToldBeforeReturn
<1>1. IInv => ToldBeforeReturn
    BY DEF IInv
<1> QED
    BY <1>1, IInvAlways, PTL
=============================================================================
