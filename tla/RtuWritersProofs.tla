-------------------------- MODULE RtuWritersProofs --------------------------
(***************************************************************************)
(* What RtuWriters offers to the port, proved for frames, buffers and      *)
(* pieces of any size.  The strengthening has two parts.  The first holds  *)
(* through all races: what a thread has counted and is about to count does *)
(* not exceed what the port took.  The second is about a frame that was    *)
(* not given too early: then the threads take turns, and what each has     *)
(* read is what is still there.  Two more invariants follow, each on top   *)
(* of this one: of how far the damage of a hasty frame goes (Confined),    *)
(* and of the refinement of RtuSender (ViewKept).                          *)
(***************************************************************************)
EXTENDS RtuWriters, TLAPS

\* The state of a thread that has read nothing yet, and of a system that has
\* been given nothing yet.
Base ==
    /\ \A t \in Thread : pc[t] \in {"idle", "fill", "size", "reset"} => local[t] = Fresh
    /\ \A t \in Thread : pc[t] = "write" => Ready(local[t])
    /\ pc["loop"] \notin {"fill", "size", "reset"}
    /\ writeEvent \/ (\E t \in Thread : pc[t] # "idle") => sent # 0
    /\ pc["caller"] = "fill" => filled < OutSize[sent]

\* What a thread has had taken by the port and not counted yet.
Taken(t) == IF pc[t] \in {"load", "store"} THEN local[t].res ELSE 0
Counted ==
    /\ txCounter + Taken("caller") + Taken("loop") <= Len(out)
    /\ \A t \in Thread : pc[t] = "store" =>
          local[t].count # Unread /\ local[t].count + Taken("caller") + Taken("loop") <= Len(out)

\* The frame is in tx_buffer, as far as it was filled in.
Loaded ==
    \A i \in 1..(IF pc["caller"] = "fill" THEN filled ELSE IF sent = 0 THEN 0 ELSE OutSize[sent]) :
        txBuffer[i] = <<sent, i>>

\* The caller sets the size and the counter alone.
Setting == pc["caller"] \in {"fill", "size", "reset"}
Alone ==
    /\ pc["caller"] # "idle" => pc["loop"] = "idle" /\ ~writeEvent
    /\ pc["caller"] = "reset" => txSize = OutSize[sent]
    /\ pc["caller"] = "args" => txSize = OutSize[sent] /\ txCounter = 0

\* Otherwise they are those of the frame, and a thread in the handler knows them.
Knows(t) ==
    LET l == local[t] IN
    /\ pc[t] = "args" => /\ l.size \in {Unread, txSize}
                         /\ l.from \in {Unread, txCounter} /\ l.less \in {Unread, txCounter}
    /\ pc[t] = "write" => /\ l.size = txSize /\ l.from = txCounter /\ l.less = txCounter
                          /\ txCounter < txSize
    /\ pc[t] \in {"load", "store"} => txCounter + l.res <= txSize
    /\ pc[t] = "store" => l.count = txCounter
    /\ pc[t] = "del" => t = "loop" /\ txCounter = txSize
    /\ pc[t] = "drop counter" => txSize = 0
Settled ==
    /\ txSize = 0 \/ (sent # 0 /\ txSize = OutSize[sent])
    /\ (\A t \in Thread : pc[t] # "drop counter") => txCounter <= txSize
    /\ Idle /\ txCounter # txSize => writeEvent
    /\ \A t \in Thread : Knows(t)

TakingTurns == sent \notin hasty => Loaded /\ Alone /\ (~Setting => Settled)

IInv == TypeOK /\ Base /\ Counted /\ TakingTurns

-----------------------------------------------------------------------------
LEMMA Sizes ==
    /\ TxBufSize \in Nat /\ MaxOut \in Nat /\ Len(OutSize) \in Nat
    /\ \A k \in 1..Len(OutSize) :
          /\ OutSize[k] \in 1..TxBufSize /\ OutSize[k] \in 0..TxBufSize /\ OutSize[k] \in Nat
<1>1. DOMAIN OutSize = 1..Len(OutSize) /\ TxBufSize \in Nat
    BY SizesAssumption DEF SizesAssumption
<1>2. ASSUME NEW k \in 1..Len(OutSize)
      PROVE  OutSize[k] \in 1..TxBufSize
    BY <1>1, SizesAssumption DEF SizesAssumption
<1> QED
    BY <1>1, <1>2, SizesAssumption DEF SizesAssumption

LEMMA InitIInv == Init => IInv
<1> SUFFICES ASSUME Init PROVE IInv
    OBVIOUS
<1> USE DEF Init, Thread
<1>1. TypeOK
  <2>1. /\ TxBufSize \in Nat /\ MaxOut \in Nat /\ Len(OutSize) \in Nat
      BY Sizes
  <2>2. Fresh \in Local
      BY <2>1 DEF Fresh, Local
  <2>3. out = <<>> /\ out \in Seq(Byte \cup {Memory}) /\ Len(out) = 0
      OBVIOUS
  <2>4. writeEvent \in BOOLEAN
      OBVIOUS
  <2>5. pc \in [Thread -> Place] /\ local \in [Thread -> Local]
      BY <2>2 DEF Place
  <2>6. txBuffer \in [1..TxBufSize -> Byte \cup {Memory}]
      OBVIOUS
  <2>7. /\ sent = 0 /\ filled = 0 /\ txSize = 0 /\ txCounter = 0
        /\ failed = {} /\ hasty = {}
      OBVIOUS
  <2> HIDE DEF Init
  <2> QED
      BY <2>1, <2>3, <2>4, <2>5, <2>6, <2>7 DEF TypeOK
<1>2. Base
    BY DEF Base
<1>3. Counted
  <2>1. pc["caller"] = "idle" /\ pc["loop"] = "idle" /\ txCounter = 0 /\ Len(out) = 0
      OBVIOUS
  <2> QED
      BY <2>1 DEF Counted, Taken
<1>4. TakingTurns
  <2>1. Loaded
      BY DEF Loaded
  <2>2. Alone
      BY DEF Alone
  <2>3. Settled
      BY DEF Settled, Knows, Idle, At
  <2> QED
      BY <2>1, <2>2, <2>3 DEF TakingTurns
<1> QED
    BY <1>1, <1>2, <1>3, <1>4 DEF IInv

-----------------------------------------------------------------------------
\* The steps of the caller before the handler.
LEMMA SendPacketKeeps == IInv /\ SendPacket => IInv'
<1> SUFFICES ASSUME IInv, SendPacket PROVE IInv'
    OBVIOUS
<1> USE DEF Thread
<1>1. /\ TypeOK /\ Base /\ Counted
      /\ pc["caller"] = "idle" /\ sent' = sent + 1 /\ sent < Len(OutSize)
      /\ filled' = 0 /\ pc' = [pc EXCEPT !["caller"] = "fill"]
      /\ hasty' = IF writeEvent \/ pc["loop"] # "idle" THEN hasty \cup {sent'} ELSE hasty
      /\ UNCHANGED <<txBuffer, txSize, txCounter, writeEvent, out, local, failed>>
    BY DEF IInv, SendPacket, At, Goto, shared
<1>2. /\ sent \in Nat /\ sent' \in 1..Len(OutSize) /\ Len(OutSize) \in Nat
      /\ pc \in [Thread -> Place]
    BY <1>1, SizesAssumption DEF TypeOK, SizesAssumption
<1>3. /\ pc'["caller"] = "fill" /\ pc'["loop"] = pc["loop"]
    BY <1>1, <1>2
<1>4. OutSize[sent'] \in 1..TxBufSize
    BY <1>2, Sizes
<1>5. TypeOK'
  <2>1. pc' \in [Thread -> Place]
      BY <1>1, <1>2 DEF Place
  <2>2. failed' \subseteq 1..sent' /\ hasty' \subseteq 1..sent'
    <3>1. failed \subseteq 1..sent' /\ hasty \subseteq 1..sent' /\ sent' \in 1..sent'
        BY <1>1, <1>2 DEF TypeOK
    <3> QED
        BY <1>1, <3>1
  <2> QED
      BY <1>1, <1>2, <2>1, <2>2, Sizes DEF TypeOK
<1>6. Base'
    BY <1>1, <1>2, <1>3, <1>4 DEF Base
<1>7. Counted'
    BY <1>1, <1>3 DEF Counted, Taken
<1>8. TakingTurns'
  <2> SUFFICES ASSUME sent' \notin hasty' PROVE Loaded' /\ Alone'
      BY <1>3 DEF TakingTurns, Setting
  <2>1. ~writeEvent /\ pc["loop"] = "idle"
      BY <1>1
  <2> QED
      BY <1>1, <1>3, <2>1 DEF Loaded, Alone
<1> QED
    BY <1>5, <1>6, <1>7, <1>8 DEF IInv

LEMMA FillKeeps == IInv /\ Fill => IInv'
<1> SUFFICES ASSUME IInv, Fill PROVE IInv'
    OBVIOUS
<1> USE DEF Thread
<1> DEFINE after == IF filled' = OutSize[sent] THEN "size" ELSE "fill"
<1>1. /\ TypeOK /\ Base /\ Counted /\ TakingTurns
      /\ pc["caller"] = "fill" /\ filled' = filled + 1
      /\ txBuffer' = [txBuffer EXCEPT ![filled'] = <<sent, filled'>>]
      /\ pc' = [pc EXCEPT !["caller"] = after]
      /\ UNCHANGED <<txSize, txCounter, writeEvent, out, sent, hasty, local, failed>>
    BY DEF IInv, Fill, At, Goto
<1>2. /\ sent \in 1..Len(OutSize) /\ filled \in Nat /\ filled' \in 1..OutSize[sent]
      /\ OutSize[sent] \in 1..TxBufSize /\ TxBufSize \in Nat
      /\ pc \in [Thread -> Place]
  <2>1. sent \in 1..Len(OutSize)
      BY <1>1, SizesAssumption DEF TypeOK, Base, SizesAssumption
  <2> QED
      BY <1>1, <2>1, Sizes, SizesAssumption DEF TypeOK, Base, SizesAssumption
<1>3. /\ pc'["caller"] = after /\ pc'["loop"] = pc["loop"]
    BY <1>1, <1>2
<1>4. <<sent, filled'>> \in Byte
    BY <1>2 DEF Byte
<1>5. TypeOK'
  <2>1. txBuffer' \in [1..TxBufSize -> Byte \cup {Memory}]
      BY <1>1, <1>4 DEF TypeOK
  <2>2. pc' \in [Thread -> Place]
      BY <1>1, <1>2 DEF Place
  <2> QED
      BY <1>1, <1>2, <2>1, <2>2 DEF TypeOK
<1>6. Base'
    BY <1>1, <1>2, <1>3 DEF Base
<1>7. Counted'
    BY <1>1, <1>3 DEF Counted, Taken
<1>8. TakingTurns'
  <2> SUFFICES ASSUME sent \notin hasty PROVE Loaded' /\ Alone'
      BY <1>1, <1>3 DEF TakingTurns, Setting
  <2>1. Loaded /\ Alone
      BY <1>1 DEF TakingTurns
  <2>2. Alone'
      BY <1>1, <1>3, <2>1 DEF Alone
  <2>3. \A i \in 1..filled' : txBuffer'[i] = <<sent, i>>
      BY <1>1, <1>2, <2>1 DEF Loaded, TypeOK
  <2>4. Loaded'
      BY <1>1, <1>2, <1>3, <2>3 DEF Loaded
  <2> QED
      BY <2>2, <2>4
<1> QED
    BY <1>5, <1>6, <1>7, <1>8 DEF IInv

LEMMA SetSizeKeeps == IInv /\ SetSize => IInv'
<1> SUFFICES ASSUME IInv, SetSize PROVE IInv'
    OBVIOUS
<1> USE DEF Thread
<1>1. /\ TypeOK /\ Base /\ Counted /\ TakingTurns
      /\ pc["caller"] = "size" /\ txSize' = OutSize[sent]
      /\ pc' = [pc EXCEPT !["caller"] = "reset"]
      /\ UNCHANGED <<txBuffer, txCounter, writeEvent, out, sent, filled, hasty, local, failed>>
    BY DEF IInv, SetSize, At, Goto, caller
<1>2. OutSize[sent] \in 0..TxBufSize /\ pc \in [Thread -> Place]
    BY <1>1, Sizes, SizesAssumption DEF TypeOK, Base, SizesAssumption
<1>3. pc'["caller"] = "reset" /\ pc'["loop"] = pc["loop"]
    BY <1>1, <1>2
<1>4. TypeOK'
    BY <1>1, <1>2 DEF TypeOK, Place
<1>5. Base'
    BY <1>1, <1>3 DEF Base
<1>6. Counted'
    BY <1>1, <1>3 DEF Counted, Taken
<1>7. TakingTurns'
    BY <1>1, <1>3 DEF TakingTurns, Loaded, Alone, Setting
<1> QED
    BY <1>4, <1>5, <1>6, <1>7 DEF IInv

LEMMA ResetCounterKeeps == IInv /\ ResetCounter => IInv'
<1> SUFFICES ASSUME IInv, ResetCounter PROVE IInv'
    OBVIOUS
<1> USE DEF Thread
<1>1. /\ TypeOK /\ Base /\ Counted /\ TakingTurns
      /\ pc["caller"] = "reset" /\ txCounter' = 0
      /\ pc' = [pc EXCEPT !["caller"] = "args"]
      /\ UNCHANGED <<txBuffer, txSize, writeEvent, out, sent, filled, hasty, local, failed>>
    BY DEF IInv, ResetCounter, At, Goto, caller
<1>2. pc \in [Thread -> Place] /\ txCounter \in Nat /\ txSize \in Nat /\ MaxOut \in Nat
    BY <1>1, SizesAssumption DEF TypeOK, SizesAssumption
<1>3. pc'["caller"] = "args" /\ pc'["loop"] = pc["loop"]
    BY <1>1, <1>2
<1>4. TypeOK'
  <2>1. pc' \in [Thread -> Place]
      BY <1>1, <1>2 DEF Place
  <2>2. txCounter' \in 0..MaxOut
      BY <1>1, <1>2
  <2> QED
      BY <1>1, <2>1, <2>2 DEF TypeOK
<1>5. Base'
    BY <1>1, <1>3 DEF Base
<1>6. Counted'
  <2>1. Taken("caller")' = Taken("caller") /\ Taken("loop")' = Taken("loop")
      BY <1>1, <1>3 DEF Taken
  <2>2. Taken("caller") \in Nat /\ Taken("loop") \in Nat /\ Len(out) \in Nat
      BY <1>1, <1>2 DEF Taken, TypeOK, Local
  <2> QED
      BY <1>1, <1>2, <1>3, <2>1, <2>2 DEF Counted
<1>7. TakingTurns'
  <2> SUFFICES ASSUME sent \notin hasty PROVE Loaded' /\ Alone' /\ Settled'
      BY <1>1 DEF TakingTurns
  <2>1. Loaded /\ Alone
      BY <1>1 DEF TakingTurns
  <2>2. Loaded' /\ Alone'
      BY <1>1, <1>3, <2>1 DEF Loaded, Alone
  <2>3. /\ sent # 0 /\ txSize' = OutSize[sent] /\ pc["loop"] = "idle" /\ local["caller"] = Fresh
      BY <1>1, <2>1 DEF Base, Alone
  <2>4. ASSUME NEW t \in Thread PROVE Knows(t)'
    <3>1. CASE t = "caller"
      <4>1. /\ pc'[t] = "args"
            /\ local'[t].size = Unread /\ local'[t].from = Unread
            /\ local'[t].less = Unread
          BY <1>1, <1>3, <2>3, <3>1 DEF Fresh
      <4> QED
          BY <4>1 DEF Knows
    <3>2. CASE t = "loop"
      <4>1. pc'[t] = "idle"
          BY <1>3, <2>3, <3>2
      <4> QED
          BY <4>1 DEF Knows
    <3> QED
        BY <3>1, <3>2
  <2>5. Settled'
    <3>1. txCounter' <= txSize'
        BY <1>1, <1>2
    <3>2. ~Idle'
        BY <1>3 DEF Idle, At
    <3> QED
        BY <1>1, <2>3, <2>4, <3>1, <3>2 DEF Settled
  <2> QED
      BY <2>2, <2>5
<1> QED
    BY <1>4, <1>5, <1>6, <1>7 DEF IInv

-----------------------------------------------------------------------------
\* The steps of the handler, which either thread may make.
Handler == {"args", "write", "load", "store", "add", "del", "drop size", "drop counter"}

\* The threads take turns: when one is in the handler, the other is not.
LEMMA Turn ==
    ASSUME IInv, NEW t \in Thread, pc[t] \in Handler, sent \notin hasty
    PROVE  /\ Loaded /\ Settled /\ ~Setting
           /\ t = "caller" => ~writeEvent
           /\ \A u \in Thread : u # t => pc[u] = "idle"
<1>1. Loaded /\ Alone /\ (~Setting => Settled)
    BY DEF IInv, TakingTurns
<1>2. CASE t = "caller"
    BY <1>1, <1>2 DEF Alone, Setting, Handler, Thread
<1>3. CASE t = "loop"
  <2>1. pc["loop"] # "idle"
      BY <1>3 DEF Handler
  <2>2. pc["caller"] = "idle"
      BY <1>1, <2>1 DEF Alone
  <2> QED
      BY <1>1, <1>3, <2>2 DEF Setting, Thread
<1> QED
    BY <1>2, <1>3 DEF Thread

\* What a step of the handler leaves alone...
HandlerStep(t) ==
    /\ pc[t] \in Handler /\ pc'[t] \in Handler \cup {"idle"}
    /\ pc' = [pc EXCEPT ![t] = pc'[t]]
    /\ local' = [local EXCEPT ![t] = local'[t]]
    /\ UNCHANGED <<txBuffer, sent, filled, hasty>>

\* ... and what has to be shown of the rest.
Typed(t) ==
    /\ txSize' \in 0..TxBufSize /\ txCounter' \in 0..MaxOut
    /\ writeEvent' \in BOOLEAN
    /\ out' \in Seq(Byte \cup {Memory}) /\ Len(out') <= MaxOut
    /\ local'[t] \in Local
    /\ failed' \subseteq 1..sent
Known(t) ==
    /\ pc'[t] = "idle" => local'[t] = Fresh
    /\ pc'[t] = "write" => Ready(local'[t])
InTurn(t) ==
    /\ txSize' = 0 \/ txSize' = OutSize[sent]
    /\ pc'[t] # "drop counter" => txCounter' <= txSize'
    /\ pc'[t] = "idle" /\ txCounter' # txSize' => writeEvent'
    /\ t = "caller" /\ pc'[t] # "idle" => ~writeEvent'
    /\ t = "caller" /\ pc'[t] = "args" => txSize' = OutSize[sent] /\ txCounter' = 0
    /\ Knows(t)'

LEMMA HandlerKeeps ==
    ASSUME IInv, NEW t \in Thread, HandlerStep(t), Typed(t), Known(t), Counted',
           sent \notin hasty => InTurn(t)
    PROVE  IInv'
<1>1. /\ TypeOK /\ Base
      /\ pc \in [Thread -> Place] /\ local \in [Thread -> Local] /\ sent # 0
    BY DEF IInv, TypeOK, Base, HandlerStep, Handler
<1>2. \A u \in Thread : u # t => pc'[u] = pc[u] /\ local'[u] = local[u]
    BY <1>1 DEF HandlerStep
<1>3. TypeOK'
  <2>1. pc' \in [Thread -> Place]
    <3>1. pc'[t] \in Place
        BY DEF HandlerStep, Handler, Place
    <3> QED
        BY <1>1, <3>1 DEF HandlerStep
  <2>2. local' \in [Thread -> Local]
      BY <1>1 DEF HandlerStep, Typed
  <2> QED
      BY <1>1, <2>1, <2>2 DEF TypeOK, HandlerStep, Typed
<1>4. Base'
  <2>1. /\ pc'[t] \notin {"fill", "size", "reset"} /\ pc[t] \notin {"fill", "size", "reset", "idle"}
      BY DEF HandlerStep, Handler
  <2>2. \A u \in Thread : /\ pc'[u] \in {"idle", "fill", "size", "reset"} => local'[u] = Fresh
                          /\ pc'[u] = "write" => Ready(local'[u])
      BY <1>1, <1>2, <2>1 DEF Base, Known
  <2>3. pc'["loop"] \notin {"fill", "size", "reset"}
      BY <1>1, <1>2, <2>1 DEF Base, Thread
  <2>4. pc'["caller"] = "fill" => filled' < OutSize[sent']
      BY <1>1, <1>2, <2>1 DEF Base, Thread, HandlerStep
  <2> QED
      BY <1>1, <2>2, <2>3, <2>4 DEF Base, HandlerStep
<1>5. TakingTurns'
  <2> SUFFICES ASSUME sent \notin hasty PROVE Loaded' /\ Alone' /\ Settled'
      BY DEF TakingTurns, HandlerStep
  <2>1. /\ Loaded /\ Settled /\ ~Setting
        /\ \A u \in Thread : u # t => pc[u] = "idle"
      BY Turn DEF HandlerStep
  <2>2. \A u \in Thread : u # t => pc'[u] = "idle"
      BY <1>2, <2>1
  <2>3. pc'["caller"] \notin {"fill", "size", "reset"} /\ pc["caller"] # "fill"
      BY <2>1, <2>2 DEF HandlerStep, Handler, Thread, Setting
  <2>4. Loaded'
      BY <2>1, <2>3 DEF Loaded, HandlerStep
  <2>5. Alone'
    <3>1. CASE t = "caller"
        BY <2>2, <2>3, <3>1 DEF Alone, InTurn, HandlerStep, Thread
    <3>2. CASE t = "loop"
        BY <2>2, <3>2 DEF Alone, Thread
    <3> QED
        BY <3>1, <3>2 DEF Thread
  <2>6. ASSUME NEW u \in Thread PROVE Knows(u)'
    <3>1. CASE u = t
        BY <3>1 DEF InTurn
    <3>2. CASE u # t
        BY <2>2, <3>2 DEF Knows
    <3> QED
        BY <3>1, <3>2
  <2>7. Settled'
    <3>1. (\A u \in Thread : pc'[u] # "drop counter") => txCounter' <= txSize'
        BY DEF InTurn
    <3>2. Idle' /\ txCounter' # txSize' => writeEvent'
        BY DEF InTurn, Idle, At
    <3>3. txSize' = 0 \/ (sent' # 0 /\ txSize' = OutSize[sent'])
        BY <1>1 DEF InTurn, HandlerStep
    <3> QED
        BY <2>6, <3>1, <3>2, <3>3 DEF Settled
  <2> QED
      BY <2>4, <2>5, <2>7
<1> QED
    BY <1>3, <1>4, <1>5 DEF IInv

LEMMA OnWriteEventKeeps == IInv /\ OnWriteEvent => IInv'
<1> SUFFICES ASSUME IInv, OnWriteEvent PROVE IInv'
    OBVIOUS
<1>1. /\ TypeOK /\ Base /\ Counted /\ TakingTurns
      /\ pc["loop"] = "idle" /\ writeEvent
      /\ pc' = [pc EXCEPT !["loop"] = "args"]
      /\ UNCHANGED <<txBuffer, txSize, txCounter, writeEvent, out, sent, filled, hasty, local, failed>>
    BY DEF IInv, OnWriteEvent, At, Goto, shared, caller
<1>2. pc \in [Thread -> Place] /\ sent # 0
    BY <1>1 DEF TypeOK, Base
<1>3. pc'["loop"] = "args" /\ pc'["caller"] = pc["caller"]
    BY <1>1, <1>2 DEF Thread
<1>4. TypeOK'
  <2>1. pc' \in [Thread -> Place]
      BY <1>1, <1>2 DEF Place
  <2> QED
      BY <1>1, <2>1 DEF TypeOK
<1>5. Base'
    BY <1>1, <1>2, <1>3 DEF Base, Thread
<1>6. Counted'
    BY <1>1, <1>3 DEF Counted, Taken, Thread
<1>7. TakingTurns'
  <2> SUFFICES ASSUME sent \notin hasty PROVE Loaded' /\ Alone' /\ Settled'
      BY <1>1 DEF TakingTurns
  <2>1. Loaded /\ Alone /\ pc["caller"] = "idle"
      BY <1>1 DEF TakingTurns, Alone
  <2>2. Settled
      BY <1>1, <2>1 DEF TakingTurns, Setting
  <2>3. Loaded' /\ Alone'
      BY <1>1, <1>3, <2>1 DEF Loaded, Alone
  <2>4. local["loop"] = Fresh
      BY <1>1 DEF Base, Thread
  <2>5. ASSUME NEW t \in Thread PROVE Knows(t)'
    <3>1. CASE t = "loop"
      <4>1. /\ local'["loop"].size = Unread /\ local'["loop"].from = Unread
            /\ local'["loop"].less = Unread
          BY <1>1, <2>4 DEF Fresh
      <4> QED
          BY <1>3, <3>1, <4>1 DEF Knows
    <3>2. CASE t = "caller"
        BY <1>3, <2>1, <3>2 DEF Knows
    <3> QED
        BY <3>1, <3>2 DEF Thread
  <2>6. txCounter' <= txSize'
      BY <1>1, <2>1, <2>2 DEF Settled, Thread
  <2>7. Settled'
      BY <1>1, <1>3, <2>2, <2>5, <2>6 DEF Settled, Idle, At, Thread
  <2> QED
      BY <2>3, <2>7
<1> QED
    BY <1>4, <1>5, <1>6, <1>7 DEF IInv

-----------------------------------------------------------------------------
\* What is counted and not counted yet are numbers.
LEMMA TakenType ==
    ASSUME TypeOK
    PROVE  /\ Taken("caller") \in Nat /\ Taken("loop") \in Nat
           /\ Len(out) \in Nat /\ txCounter \in Nat /\ txSize \in Nat
           /\ \A t \in Thread : /\ local[t].res \in 0..MaxOut
                               /\ local[t].size \in {Unread} \cup 0..TxBufSize
                               /\ local[t].from \in {Unread} \cup 0..MaxOut
                               /\ local[t].less \in {Unread} \cup 0..MaxOut
                               /\ local[t].count \in {Unread} \cup 0..MaxOut
                               /\ local[t] \in Local
<1>1. \A t \in Thread : /\ local[t] \in Local /\ local[t].res \in 0..MaxOut
                        /\ local[t].size \in {Unread} \cup 0..TxBufSize
                        /\ local[t].from \in {Unread} \cup 0..MaxOut
                        /\ local[t].less \in {Unread} \cup 0..MaxOut
                        /\ local[t].count \in {Unread} \cup 0..MaxOut
    BY DEF TypeOK, Local
<1>2. Taken("caller") \in Nat /\ Taken("loop") \in Nat
    BY <1>1, Sizes DEF Taken, Thread
<1> QED
    BY <1>1, <1>2, Sizes DEF TypeOK

\* Sums of what is counted and what is taken, a and b by the two threads.
LEMMA SumGrows ==
    ASSUME NEW c \in Nat, NEW a \in Nat, NEW b \in Nat, NEW a1 \in Nat, NEW b1 \in Nat,
           NEW w \in Nat, NEW n \in Nat, a1 + b1 = a + b + w, c + a + b <= n
    PROVE  c + a1 + b1 <= n + w
    OBVIOUS

LEMMA SumKeeps ==
    ASSUME NEW c \in Nat, NEW a \in Nat, NEW b \in Nat, NEW a1 \in Nat, NEW b1 \in Nat,
           NEW r \in Nat, NEW n \in Nat, NEW max \in Nat,
           a + b = a1 + b1 + r, c + a + b <= n, n <= max
    PROVE  c + r \in 0..max /\ c + r + a1 + b1 <= n /\ c + a1 + b1 <= n
    OBVIOUS

\* write() reads a byte of tx_buffer, or one of the memory behind it.
LEMMA ByteAtType ==
    ASSUME TypeOK, NEW p
    PROVE  ByteAt(p) \in Byte \cup {Memory}
BY DEF TypeOK, ByteAt

LEMMA FreshLocal == Fresh \in Local
    BY Sizes DEF Fresh, Local, Unread

\* A step that neither counts nor has anything taken.
LEMMA CountedStays ==
    ASSUME IInv, NEW t \in Thread, HandlerStep(t),
           pc[t] \notin {"load", "store"}, pc'[t] \notin {"load", "store"},
           txCounter' = txCounter \/ txCounter' = 0, out' = out
    PROVE  Counted'
<1>1. TypeOK /\ Counted /\ pc \in [Thread -> Place] /\ local \in [Thread -> Local]
    BY DEF IInv, TypeOK
<1>2. \A u \in Thread : u # t => pc'[u] = pc[u] /\ local'[u] = local[u]
    BY <1>1 DEF HandlerStep
<1>3. Taken("caller")' = Taken("caller") /\ Taken("loop")' = Taken("loop")
  <2>1. CASE t = "caller"
      BY <1>2, <2>1 DEF Taken, Thread
  <2>2. CASE t = "loop"
      BY <1>2, <2>2 DEF Taken, Thread
  <2> QED
      BY <2>1, <2>2 DEF Thread
<1>4. txCounter' + Taken("caller")' + Taken("loop")' <= Len(out')
  <2> DEFINE a == Taken("caller")
             b == Taken("loop")
  <2>1. a \in Nat /\ b \in Nat /\ Len(out) \in Nat /\ txCounter \in Nat
      BY <1>1, TakenType
  <2>2. txCounter + a + b <= Len(out)
      BY <1>1 DEF Counted
  <2>3. Taken("caller")' = a /\ Taken("loop")' = b /\ Len(out') = Len(out)
      BY <1>3
  <2> HIDE DEF a, b
  <2> QED
      BY <2>1, <2>2, <2>3
<1>5. ASSUME NEW u \in Thread, pc'[u] = "store"
      PROVE  local'[u].count # Unread
             /\ local'[u].count + Taken("caller")' + Taken("loop")' <= Len(out')
  <2>1. u # t
      BY <1>5
  <2> QED
      BY <1>1, <1>2, <1>3, <1>5, <2>1 DEF Counted
<1> QED
    BY <1>4, <1>5 DEF Counted

-----------------------------------------------------------------------------
LEMMA ReadArgsKeeps ==
    ASSUME IInv, NEW t \in Thread, ReadArgs(t)
    PROVE  IInv'
<1> PICK l \in Loads(local[t]) :
            /\ local' = [local EXCEPT ![t] = l]
            /\ IF Ready(l) THEN Goto(t, IF Offered(l) = 0 THEN "del" ELSE "write")
                           ELSE Goto(t, "args")
    BY DEF ReadArgs
<1>1. /\ TypeOK /\ Base /\ pc[t] = "args"
      /\ pc \in [Thread -> Place] /\ local \in [Thread -> Local]
      /\ UNCHANGED <<txBuffer, txSize, txCounter, writeEvent, out, sent, filled, hasty, failed>>
    BY DEF IInv, TypeOK, ReadArgs, At, shared, caller
<1>2. /\ pc'[t] = IF Ready(l) THEN IF Offered(l) = 0 THEN "del" ELSE "write" ELSE "args"
      /\ pc' = [pc EXCEPT ![t] = pc'[t]]
      /\ local'[t] = l
    BY <1>1 DEF Goto
<1>3. l \in Local
    BY <1>1, TakenType DEF TypeOK, Local, Loads
<1>4. HandlerStep(t)
    BY <1>1, <1>2 DEF HandlerStep, Handler
<1>5. Typed(t)
    BY <1>1, <1>2, <1>3 DEF Typed, TypeOK
<1>6. Known(t)
    BY <1>2 DEF Known
<1>7. Counted'
    BY <1>1, <1>2, <1>4, CountedStays
<1>8. ASSUME sent \notin hasty PROVE InTurn(t)
  <2>1. Settled /\ (t = "caller" => ~writeEvent) /\ \A u \in Thread : u # t => pc[u] = "idle"
      BY <1>1, <1>8, Turn DEF Handler
  <2>2. /\ Knows(t) /\ txCounter <= txSize
        /\ txSize = 0 \/ txSize = OutSize[sent]
      BY <1>1, <2>1 DEF Settled
  <2>3. t = "caller" => txSize = OutSize[sent] /\ txCounter = 0 /\ OutSize[sent] \in 1..TxBufSize
    <3> SUFFICES ASSUME t = "caller"
                 PROVE  txSize = OutSize[sent] /\ txCounter = 0 /\ OutSize[sent] \in 1..TxBufSize
        OBVIOUS
    <3>1. Alone
        BY <1>8 DEF IInv, TakingTurns
    <3>2. sent \in 1..Len(OutSize)
        BY <1>1, Sizes DEF Base, TypeOK
    <3> QED
        BY <1>1, <3>1, <3>2, Sizes DEF Alone
  <2>4. /\ l.size \in {Unread, txSize} /\ l.from \in {Unread, txCounter}
        /\ l.less \in {Unread, txCounter}
      BY <1>1, <1>2, <2>2, TakenType DEF Knows, Local, Loads
  <2>5. CASE ~Ready(l)
      BY <1>1, <1>2, <2>1, <2>2, <2>3, <2>4, <2>5 DEF InTurn, Knows
  <2>6. CASE Ready(l)
    <3>1. /\ l.size = txSize /\ l.from = txCounter /\ l.less = txCounter
          /\ Offered(l) = txSize - txCounter
        BY <2>4, <2>6 DEF Ready, Offered
    <3>2. txSize \in Nat /\ txCounter \in Nat
        BY <1>1, TakenType
    <3>3. CASE Offered(l) = 0
      <4>1. txCounter = txSize /\ pc'[t] = "del" /\ t # "caller"
          BY <1>2, <2>3, <2>6, <3>1, <3>2, <3>3, Sizes
      <4> QED
          BY <1>1, <2>2, <4>1 DEF InTurn, Knows, Thread
    <3>4. CASE Offered(l) # 0
      <4>1. txCounter < txSize /\ pc'[t] = "write"
          BY <1>2, <2>2, <2>6, <3>1, <3>2, <3>4
      <4> QED
          BY <1>1, <1>2, <2>1, <2>2, <3>1, <4>1 DEF InTurn, Knows
    <3> QED
        BY <3>3, <3>4
  <2> QED
      BY <2>5, <2>6
<1> QED
    BY <1>4, <1>5, <1>6, <1>7, <1>8, HandlerKeeps

LEMMA DeleteKeeps ==
    ASSUME IInv, NEW t \in Thread, Delete(t)
    PROVE  IInv'
<1>1. /\ TypeOK /\ Base /\ pc[t] = "del" /\ writeEvent' = FALSE
      /\ pc \in [Thread -> Place] /\ local \in [Thread -> Local]
      /\ UNCHANGED <<txBuffer, txSize, txCounter, out, sent, filled, hasty, failed>>
      /\ pc' = [pc EXCEPT ![t] = "idle"] /\ local' = [local EXCEPT ![t] = Fresh]
    BY DEF IInv, TypeOK, Delete, Return, At, caller
<1>2. pc'[t] = "idle" /\ local'[t] = Fresh
    BY <1>1
<1>3. HandlerStep(t)
    BY <1>1, <1>2 DEF HandlerStep, Handler
<1>4. Typed(t)
    BY <1>1, <1>2, FreshLocal DEF Typed, TypeOK
<1>5. Known(t)
    BY <1>2 DEF Known
<1>6. Counted'
    BY <1>1, <1>2, <1>3, CountedStays
<1>7. ASSUME sent \notin hasty PROVE InTurn(t)
  <2>1. Settled
      BY <1>1, <1>7, Turn DEF Handler
  <2>2. /\ t = "loop" /\ txCounter = txSize
        /\ txSize = 0 \/ txSize = OutSize[sent]
      BY <1>1, <2>1 DEF Settled, Knows
  <2>3. txCounter <= txSize
      BY <1>1, <2>2, TakenType
  <2> QED
      BY <1>1, <1>2, <2>2, <2>3 DEF InTurn, Knows
<1> QED
    BY <1>3, <1>4, <1>5, <1>6, <1>7, HandlerKeeps

LEMMA WriteKeeps ==
    ASSUME IInv, NEW t \in Thread, Write(t)
    PROVE  IInv'
<1> DEFINE l == local[t]
           bytes(w) == [i \in 1..w |-> ByteAt(l.from + i)]
<1> PICK w \in 1..MaxOut :
            /\ Len(out) + w <= MaxOut /\ (Offered(l) > 0 => w <= Offered(l))
            /\ out' = out \o bytes(w)
            /\ local' = [local EXCEPT ![t].res = w]
    BY DEF Write
<1>1. /\ TypeOK /\ Base /\ Counted /\ pc[t] = "write"
      /\ pc \in [Thread -> Place] /\ local \in [Thread -> Local]
      /\ pc' = [pc EXCEPT ![t] = "load"]
      /\ UNCHANGED <<txBuffer, txSize, txCounter, writeEvent, sent, filled, hasty, failed>>
    BY DEF IInv, TypeOK, Write, Goto, At, caller
<1>2. /\ l \in Local /\ l.res \in 0..MaxOut /\ l.size \in 0..TxBufSize
      /\ l.from \in 0..MaxOut /\ l.less \in 0..MaxOut
      /\ Len(out) \in Nat /\ txCounter \in Nat /\ txSize \in Nat /\ MaxOut \in Nat /\ TxBufSize \in Nat
  <2>1. Ready(l)
      BY <1>1 DEF Base
  <2> QED
      BY <1>1, <2>1, TakenType, Sizes DEF Ready
<1>3. w \in Nat /\ w \in 1..MaxOut
    BY <1>2
<1>4. pc'[t] = "load" /\ local'[t] = [l EXCEPT !.res = w] /\ local'[t].res = w
  <2>1. local'[t] = [l EXCEPT !.res = w]
      BY <1>1
  <2> QED
      BY <1>1, <1>2, <2>1 DEF Local
<1>5. bytes(w) \in Seq(Byte \cup {Memory}) /\ Len(bytes(w)) = w
  <2>1. ASSUME NEW i \in 1..w
        PROVE  bytes(w)[i] \in Byte \cup {Memory}
      BY <1>1, ByteAtType
  <2>2. bytes(w) \in [1..w -> Byte \cup {Memory}]
      BY <2>1
  <2>3. w \in Nat
      BY <1>2, <1>3
  <2> HIDE DEF bytes
  <2> QED
      BY <2>2, <2>3
<1>6. out' \in Seq(Byte \cup {Memory}) /\ Len(out') = Len(out) + w
  <2>1. out \in Seq(Byte \cup {Memory})
      BY <1>1 DEF TypeOK
  <2> HIDE DEF bytes
  <2> QED
      BY <1>5, <2>1
<1> HIDE DEF bytes
<1>7. HandlerStep(t)
  <2>1. local' = [local EXCEPT ![t] = local'[t]]
      BY <1>1, <1>4
  <2> QED
      BY <1>1, <1>4, <2>1 DEF HandlerStep, Handler
<1>8. Typed(t)
  <2>1. local'[t] \in Local
    <3>1. w \in 0..MaxOut
        BY <1>2, <1>3
    <3> QED
        BY <1>2, <1>4, <3>1 DEF Local
  <2> QED
      BY <1>1, <1>2, <1>3, <1>6, <2>1 DEF Typed, TypeOK
<1>9. Known(t)
    BY <1>4 DEF Known
<1>10. Counted'
  <2>1. \A u \in Thread : u # t => pc'[u] = pc[u] /\ local'[u] = local[u]
      BY <1>1
  <2>2. Taken(t) = 0 /\ Taken(t)' = w /\ \A u \in Thread : u # t => Taken(u)' = Taken(u)
      BY <1>1, <1>4, <2>1 DEF Taken
  <2>3. Taken("caller") \in Nat /\ Taken("loop") \in Nat
      BY <1>1, TakenType
  <2>4. Taken("caller")' + Taken("loop")' = Taken("caller") + Taken("loop") + w
      BY <1>3, <2>2, <2>3 DEF Thread
  <2>5. Taken("caller")' \in Nat /\ Taken("loop")' \in Nat
      BY <1>3, <2>2, <2>3, <1>2 DEF Thread
  <2>6. txCounter' + Taken("caller")' + Taken("loop")' <= Len(out')
    <3>1. txCounter + Taken("caller") + Taken("loop") <= Len(out)
        BY <1>1 DEF Counted
    <3>2. txCounter + Taken("caller")' + Taken("loop")' <= Len(out) + w
        BY <1>2, <1>3, <2>3, <2>4, <2>5, <3>1, SumGrows
    <3> QED
        BY <1>1, <1>6, <3>2
  <2>7. ASSUME NEW u \in Thread, pc'[u] = "store"
        PROVE  /\ local'[u].count # Unread
               /\ local'[u].count + Taken("caller")' + Taken("loop")' <= Len(out')
    <3>1. u # t
        BY <1>4, <2>7
    <3>2. /\ local'[u].count = local[u].count /\ local[u].count # Unread
          /\ local[u].count + Taken("caller") + Taken("loop") <= Len(out)
        BY <1>1, <2>1, <2>7, <3>1 DEF Counted
    <3>3. local[u].count \in Nat
        BY <1>1, <1>2, <3>2, TakenType
    <3>4. local[u].count + Taken("caller")' + Taken("loop")' <= Len(out) + w
        BY <1>2, <1>3, <2>3, <2>4, <2>5, <3>2, <3>3, SumGrows
    <3> QED
        BY <1>6, <3>2, <3>4
  <2> QED
      BY <2>6, <2>7 DEF Counted
<1>11. ASSUME sent \notin hasty PROVE InTurn(t)
  <2>1. Settled /\ (t = "caller" => ~writeEvent)
      BY <1>1, <1>11, Turn DEF Handler
  <2>2. /\ l.size = txSize /\ l.less = txCounter /\ txCounter < txSize
        /\ txSize = 0 \/ txSize = OutSize[sent]
      BY <1>1, <2>1 DEF Settled, Knows
  <2>3. txCounter + w <= txSize /\ txCounter <= txSize
    <3>1. Offered(l) = txSize - txCounter /\ (Offered(l) > 0 => w <= Offered(l))
        BY <2>2 DEF Offered
    <3> QED
        BY <1>2, <1>3, <2>2, <3>1
  <2>4. Knows(t)'
      BY <1>1, <1>4, <2>3 DEF Knows
  <2> QED
      BY <1>1, <1>4, <2>1, <2>2, <2>3, <2>4 DEF InTurn
<1> QED
    BY <1>7, <1>8, <1>9, <1>10, <1>11, HandlerKeeps

LEMMA LoadCounterKeeps ==
    ASSUME IInv, NEW t \in Thread, LoadCounter(t)
    PROVE  IInv'
<1> DEFINE l == [Fresh EXCEPT !.res = local[t].res, !.count = txCounter]
<1>1. /\ TypeOK /\ Base /\ Counted /\ pc[t] = "load"
      /\ pc \in [Thread -> Place] /\ local \in [Thread -> Local]
      /\ pc' = [pc EXCEPT ![t] = "store"]
      /\ local' = [local EXCEPT ![t] = l]
      /\ UNCHANGED <<txBuffer, txSize, txCounter, writeEvent, out, sent, filled, hasty, failed>>
    BY DEF IInv, TypeOK, LoadCounter, Goto, At, shared, caller
<1>2. /\ local[t].res \in 0..MaxOut /\ txCounter \in 0..MaxOut /\ txSize \in Nat /\ Len(out) \in Nat
    BY <1>1, TakenType DEF TypeOK
<1>3. l \in Local /\ l.res = local[t].res /\ l.count = txCounter
    BY <1>2 DEF Fresh, Local
<1>4. pc'[t] = "store" /\ local'[t] = l
    BY <1>1
<1> HIDE DEF l
<1>5. HandlerStep(t)
    BY <1>1, <1>4 DEF HandlerStep, Handler
<1>6. Typed(t)
    BY <1>1, <1>3, <1>4 DEF Typed, TypeOK
<1>7. Known(t)
    BY <1>4 DEF Known
<1>8. Counted'
  <2>1. \A u \in Thread : u # t => pc'[u] = pc[u] /\ local'[u] = local[u]
      BY <1>1
  <2>2. \A u \in Thread : Taken(u)' = Taken(u)
      BY <1>1, <1>3, <1>4, <2>1 DEF Taken
  <2>3. Taken("caller")' = Taken("caller") /\ Taken("loop")' = Taken("loop")
      BY <2>2 DEF Thread
  <2>4. txCounter # Unread
      BY <1>2, Sizes DEF Unread
  <2>5. ASSUME NEW u \in Thread, pc'[u] = "store"
        PROVE  /\ local'[u].count # Unread
               /\ local'[u].count + Taken("caller")' + Taken("loop")' <= Len(out')
    <3>1. CASE u = t
        BY <1>1, <1>3, <1>4, <2>3, <2>4, <3>1 DEF Counted
    <3>2. CASE u # t
        BY <1>1, <2>1, <2>3, <2>5, <3>2 DEF Counted
    <3> QED
        BY <3>1, <3>2
  <2>6. txCounter' + Taken("caller")' + Taken("loop")' <= Len(out')
      BY <1>1, <2>3 DEF Counted
  <2> QED
      BY <2>5, <2>6 DEF Counted
<1>9. ASSUME sent \notin hasty PROVE InTurn(t)
  <2>1. Settled /\ (t = "caller" => ~writeEvent)
      BY <1>1, <1>9, Turn DEF Handler
  <2>2. /\ txCounter + local[t].res <= txSize
        /\ txSize = 0 \/ txSize = OutSize[sent]
      BY <1>1, <2>1 DEF Settled, Knows
  <2>3. txCounter <= txSize
      BY <1>2, <2>2, Sizes
  <2>4. Knows(t)'
      BY <1>1, <1>3, <1>4, <2>2 DEF Knows
  <2> QED
      BY <1>1, <1>4, <2>1, <2>2, <2>3, <2>4 DEF InTurn
<1> QED
    BY <1>5, <1>6, <1>7, <1>8, <1>9, HandlerKeeps

LEMMA StoreCounterKeeps ==
    ASSUME IInv, NEW t \in Thread, StoreCounter(t)
    PROVE  IInv'
<1>1. /\ TypeOK /\ Base /\ Counted /\ pc[t] = "store"
      /\ pc \in [Thread -> Place] /\ local \in [Thread -> Local]
      /\ pc' = [pc EXCEPT ![t] = "add"]
      /\ txCounter' = local[t].count + local[t].res
      /\ UNCHANGED <<txBuffer, txSize, writeEvent, out, sent, filled, hasty, local, failed>>
    BY DEF IInv, TypeOK, StoreCounter, Goto, At, caller
<1>2. /\ local[t].res \in Nat /\ local[t].count \in Nat
      /\ local[t].count + Taken("caller") + Taken("loop") <= Len(out)
      /\ Taken("caller") \in Nat /\ Taken("loop") \in Nat
      /\ Len(out) \in Nat /\ Len(out) <= MaxOut /\ MaxOut \in Nat /\ txCounter \in Nat /\ txSize \in Nat
    BY <1>1, TakenType, Sizes DEF Counted, TypeOK
<1>3. pc'[t] = "add"
    BY <1>1
<1>4. HandlerStep(t)
    BY <1>1, <1>3 DEF HandlerStep, Handler
<1>5. \A u \in Thread : u # t => Taken(u)' = Taken(u) /\ pc'[u] = pc[u]
    BY <1>1 DEF Taken
<1>6. Taken(t) = local[t].res /\ Taken(t)' = 0
    BY <1>1, <1>3 DEF Taken
<1>7. /\ Taken("caller")' \in Nat /\ Taken("loop")' \in Nat
      /\ Taken("caller") + Taken("loop") = Taken("caller")' + Taken("loop")' + local[t].res
    BY <1>2, <1>5, <1>6 DEF Thread
<1>8. /\ txCounter' \in 0..MaxOut
      /\ txCounter' + Taken("caller")' + Taken("loop")' <= Len(out)
  <2> DEFINE c == local[t].count
             r == local[t].res
             a == Taken("caller")
             b == Taken("loop")
             a1 == Taken("caller")'
             b1 == Taken("loop")'
             n == Len(out)
  <2>1. /\ c \in Nat /\ r \in Nat /\ a \in Nat /\ b \in Nat /\ a1 \in Nat /\ b1 \in Nat
        /\ n \in Nat /\ MaxOut \in Nat
        /\ a + b = a1 + b1 + r /\ c + a + b <= n /\ n <= MaxOut
      BY <1>2, <1>7
  <2> HIDE DEF c, r, a, b, a1, b1, n
  <2>2. c + r \in 0..MaxOut /\ c + r + a1 + b1 <= n
      BY <2>1, SumKeeps
  <2>3. /\ local[t].count + local[t].res \in 0..MaxOut
        /\ local[t].count + local[t].res + Taken("caller")' + Taken("loop")' <= Len(out)
      BY <2>2 DEF c, r, a1, b1, n
  <2> QED
      BY <1>1, <2>3
<1>9. Typed(t)
    BY <1>1, <1>8 DEF Typed, TypeOK
<1>10. Known(t)
    BY <1>3 DEF Known
<1>11. Counted'
  <2>1. ASSUME NEW u \in Thread, pc'[u] = "store"
        PROVE  /\ local'[u].count # Unread
               /\ local'[u].count + Taken("caller")' + Taken("loop")' <= Len(out')
    <3>1. u # t
        BY <1>3, <2>1
    <3>2. /\ local[u].count # Unread
          /\ local[u].count + Taken("caller") + Taken("loop") <= Len(out)
        BY <1>1, <1>5, <2>1, <3>1 DEF Counted
    <3>3. local[u].count \in Nat
        BY <1>1, <3>2, TakenType, Sizes
    <3>4. local[u].count + Taken("caller")' + Taken("loop")' <= Len(out)
      <4> DEFINE c == local[u].count
                 r == local[t].res
                 a == Taken("caller")
                 b == Taken("loop")
                 a1 == Taken("caller")'
                 b1 == Taken("loop")'
                 n == Len(out)
      <4>1. /\ c \in Nat /\ r \in Nat /\ a \in Nat /\ b \in Nat /\ a1 \in Nat /\ b1 \in Nat
            /\ n \in Nat /\ a + b = a1 + b1 + r /\ c + a + b <= n
          BY <1>2, <1>7, <3>2, <3>3
      <4> HIDE DEF c, r, a, b, a1, b1, n
      <4>2. c + a1 + b1 <= n
          BY <4>1, SumKeeps
      <4> QED
          BY <4>2 DEF c, a1, b1, n
    <3> QED
        BY <1>1, <3>2, <3>4
  <2> QED
      BY <1>1, <1>8, <2>1 DEF Counted
<1>12. ASSUME sent \notin hasty PROVE InTurn(t)
  <2>1. Settled /\ (t = "caller" => ~writeEvent)
      BY <1>1, <1>12, Turn DEF Handler
  <2>2. /\ txCounter + local[t].res <= txSize /\ local[t].count = txCounter
        /\ txSize = 0 \/ txSize = OutSize[sent]
      BY <1>1, <2>1 DEF Settled, Knows
  <2>3. txCounter' <= txSize
      BY <1>1, <1>2, <2>2
  <2>4. Knows(t)'
      BY <1>3 DEF Knows
  <2> QED
      BY <1>1, <1>3, <2>1, <2>2, <2>3, <2>4 DEF InTurn
<1> QED
    BY <1>4, <1>9, <1>10, <1>11, <1>12, HandlerKeeps

LEMMA AddEventKeeps ==
    ASSUME IInv, NEW t \in Thread, AddEvent(t)
    PROVE  IInv'
<1>1. /\ TypeOK /\ Base /\ pc[t] = "add" /\ writeEvent' = TRUE
      /\ pc \in [Thread -> Place] /\ local \in [Thread -> Local]
      /\ UNCHANGED <<txBuffer, txSize, txCounter, out, sent, filled, hasty, failed>>
      /\ pc' = [pc EXCEPT ![t] = "idle"] /\ local' = [local EXCEPT ![t] = Fresh]
    BY DEF IInv, TypeOK, AddEvent, Return, At, caller
<1>2. pc'[t] = "idle" /\ local'[t] = Fresh
    BY <1>1
<1>3. HandlerStep(t)
    BY <1>1, <1>2 DEF HandlerStep, Handler
<1>4. Typed(t)
    BY <1>1, <1>2, FreshLocal DEF Typed, TypeOK
<1>5. Known(t)
    BY <1>2 DEF Known
<1>6. Counted'
    BY <1>1, <1>2, <1>3, CountedStays
<1>7. ASSUME sent \notin hasty PROVE InTurn(t)
  <2>1. Settled /\ \A u \in Thread : u # t => pc[u] = "idle"
      BY <1>1, <1>7, Turn DEF Handler
  <2>2. /\ txCounter <= txSize
        /\ txSize = 0 \/ txSize = OutSize[sent]
      BY <1>1, <2>1 DEF Settled
  <2> QED
      BY <1>1, <1>2, <2>2 DEF InTurn, Knows
<1> QED
    BY <1>3, <1>4, <1>5, <1>6, <1>7, HandlerKeeps

LEMMA WriteFailsKeeps ==
    ASSUME IInv, NEW t \in Thread, WriteFails(t)
    PROVE  IInv'
<1>1. /\ TypeOK /\ Base /\ pc[t] = "write" /\ failed' = failed \cup {sent}
      /\ pc \in [Thread -> Place] /\ local \in [Thread -> Local]
      /\ pc' = [pc EXCEPT ![t] = "drop size"]
      /\ UNCHANGED <<txBuffer, txSize, txCounter, writeEvent, out, sent, filled, hasty, local>>
    BY DEF IInv, TypeOK, WriteFails, Goto, At, shared, caller
<1>2. pc'[t] = "drop size"
    BY <1>1
<1>3. HandlerStep(t)
    BY <1>1, <1>2 DEF HandlerStep, Handler
<1>4. Typed(t)
  <2>1. sent # 0
      BY <1>1 DEF Base
  <2>2. Len(OutSize) \in Nat /\ sent \in 0..Len(OutSize)
      BY <1>1, Sizes DEF TypeOK
  <2>3. sent \in 1..sent
      BY <2>1, <2>2
  <2>4. failed' \subseteq 1..sent
      BY <1>1, <2>3 DEF TypeOK
  <2>5. local'[t] \in Local
      BY <1>1
  <2> QED
      BY <1>1, <2>4, <2>5 DEF Typed, TypeOK
<1>5. Known(t)
    BY <1>2 DEF Known
<1>6. Counted'
    BY <1>1, <1>2, <1>3, CountedStays
<1>7. ASSUME sent \notin hasty PROVE InTurn(t)
  <2>1. Settled /\ (t = "caller" => ~writeEvent) /\ \A u \in Thread : u # t => pc[u] = "idle"
      BY <1>1, <1>7, Turn DEF Handler
  <2>2. /\ txCounter <= txSize
        /\ txSize = 0 \/ txSize = OutSize[sent]
      BY <1>1, <2>1 DEF Settled
  <2> QED
      BY <1>1, <1>2, <2>1, <2>2 DEF InTurn, Knows
<1> QED
    BY <1>3, <1>4, <1>5, <1>6, <1>7, HandlerKeeps

LEMMA DropSizeKeeps ==
    ASSUME IInv, NEW t \in Thread, DropSize(t)
    PROVE  IInv'
<1>1. /\ TypeOK /\ Base /\ pc[t] = "drop size" /\ txSize' = 0
      /\ pc \in [Thread -> Place] /\ local \in [Thread -> Local]
      /\ pc' = [pc EXCEPT ![t] = "drop counter"]
      /\ UNCHANGED <<txBuffer, txCounter, writeEvent, out, sent, filled, hasty, local, failed>>
    BY DEF IInv, TypeOK, DropSize, Goto, At, caller
<1>2. pc'[t] = "drop counter"
    BY <1>1
<1>3. HandlerStep(t)
    BY <1>1, <1>2 DEF HandlerStep, Handler
<1>4. Typed(t)
  <2>1. 0 \in 0..TxBufSize
      BY Sizes
  <2>2. local'[t] \in Local
      BY <1>1
  <2> QED
      BY <1>1, <2>1, <2>2 DEF Typed, TypeOK
<1>5. Known(t)
    BY <1>2 DEF Known
<1>6. Counted'
    BY <1>1, <1>2, <1>3, CountedStays
<1>7. ASSUME sent \notin hasty PROVE InTurn(t)
  <2>1. t = "caller" => ~writeEvent
      BY <1>1, <1>7, Turn DEF Handler
  <2> QED
      BY <1>1, <1>2, <2>1 DEF InTurn, Knows
<1> QED
    BY <1>3, <1>4, <1>5, <1>6, <1>7, HandlerKeeps

LEMMA DropCounterKeeps ==
    ASSUME IInv, NEW t \in Thread, DropCounter(t)
    PROVE  IInv'
<1>1. /\ TypeOK /\ Base /\ pc[t] = "drop counter" /\ txCounter' = 0
      /\ pc \in [Thread -> Place] /\ local \in [Thread -> Local]
      /\ UNCHANGED <<txBuffer, txSize, writeEvent, out, sent, filled, hasty, failed>>
      /\ pc' = [pc EXCEPT ![t] = "idle"] /\ local' = [local EXCEPT ![t] = Fresh]
    BY DEF IInv, TypeOK, DropCounter, Return, At, caller
<1>2. pc'[t] = "idle" /\ local'[t] = Fresh
    BY <1>1
<1>3. HandlerStep(t)
    BY <1>1, <1>2 DEF HandlerStep, Handler
<1>4. Typed(t)
  <2>1. 0 \in 0..MaxOut
      BY Sizes
  <2> QED
      BY <1>1, <1>2, <2>1, FreshLocal DEF Typed, TypeOK
<1>5. Known(t)
    BY <1>2 DEF Known
<1>6. Counted'
    BY <1>1, <1>2, <1>3, CountedStays
<1>7. ASSUME sent \notin hasty PROVE InTurn(t)
  <2>1. Settled
      BY <1>1, <1>7, Turn DEF Handler
  <2>2. txSize = 0
      BY <1>1, <2>1 DEF Settled, Knows
  <2>3. txCounter' = 0 /\ txSize' = 0
      BY <1>1, <2>2
  <2>4. txCounter' = txSize' /\ txCounter' <= txSize'
      BY <2>3
  <2>5. Knows(t)'
      BY <1>2 DEF Knows
  <2> QED
      BY <1>1, <1>2, <2>2, <2>4, <2>5 DEF InTurn
<1> QED
    BY <1>3, <1>4, <1>5, <1>6, <1>7, HandlerKeeps

-----------------------------------------------------------------------------
LEMMA NextIInv == IInv /\ [Next]_vars => IInv'
<1> SUFFICES ASSUME IInv, [Next]_vars PROVE IInv'
    OBVIOUS
<1>1. CASE SendPacket
    BY <1>1, SendPacketKeeps
<1>2. CASE Fill
    BY <1>2, FillKeeps
<1>3. CASE SetSize
    BY <1>3, SetSizeKeeps
<1>4. CASE ResetCounter
    BY <1>4, ResetCounterKeeps
<1>5. CASE OnWriteEvent
    BY <1>5, OnWriteEventKeeps
<1>6. ASSUME NEW t \in Thread, PortEvent(t) PROVE IInv'
    BY <1>6, ReadArgsKeeps, DeleteKeeps, WriteKeeps, LoadCounterKeeps, StoreCounterKeeps,
       AddEventKeeps, WriteFailsKeeps, DropSizeKeeps, DropCounterKeeps DEF PortEvent
<1>7. CASE UNCHANGED vars
  <2>1. UNCHANGED <<txBuffer, txSize, txCounter, writeEvent, out, sent, filled, hasty, pc, local, failed>>
      BY <1>7 DEF vars, shared, caller
  <2>2. TypeOK' /\ Base' /\ Counted'
      BY <2>1 DEF IInv, TypeOK, Base, Counted, Taken
  <2>3. Loaded' <=> Loaded
      BY <2>1 DEF Loaded
  <2>4. (Alone' <=> Alone) /\ (Setting' <=> Setting)
      BY <2>1 DEF Alone, Setting
  <2>5. \A t \in Thread : Knows(t)' <=> Knows(t)
      BY <2>1 DEF Knows
  <2>6. Settled' <=> Settled
      BY <2>1, <2>5 DEF Settled, Idle, At
  <2> QED
      BY <2>1, <2>2, <2>3, <2>4, <2>6 DEF IInv, TakingTurns
<1> QED
    BY <1>1, <1>2, <1>3, <1>4, <1>5, <1>6, <1>7 DEF Next

\* The strengthening holds in every state: the counts that the two threads keep of
\* write()'s results never exceed what it took, and a frame not given too early is
\* sent by one thread at a time.
THEOREM Invariance == Spec => []IInv
<1>1. Init => IInv
    BY InitIInv
<1>2. IInv /\ [Next]_vars => IInv'
    BY NextIInv
<1> QED
    BY <1>1, <1>2, PTL DEF Spec

LEMMA IInvGivesInv == IInv => Inv
<1> SUFFICES ASSUME IInv, sent \notin hasty
             PROVE  /\ \A t \in Thread : At(t, "write") =>
                          LET l == local[t] IN
                          /\ l.size = OutSize[sent] /\ l.from = l.less /\ l.from < l.size
                          /\ \A i \in (l.from + 1)..l.size : txBuffer[i] = <<sent, i>>
                    /\ Idle /\ txCounter # txSize => txCounter < txSize /\ writeEvent
    BY DEF Inv, RestIsOffered, IInv
<1>1. TypeOK /\ Loaded /\ Alone /\ (~Setting => Settled)
    BY DEF IInv, TakingTurns
<1>2. ASSUME NEW t \in Thread, At(t, "write")
      PROVE  /\ local[t].size = OutSize[sent] /\ local[t].from = local[t].less
             /\ local[t].from < local[t].size
             /\ \A i \in (local[t].from + 1)..local[t].size : txBuffer[i] = <<sent, i>>
  <2>1. Settled /\ pc["caller"] # "fill"
      BY <1>2, Turn DEF At, Handler, Setting
  <2>2. /\ local[t].size = txSize /\ local[t].from = txCounter /\ local[t].less = txCounter
        /\ txCounter < txSize
        /\ txSize = 0 \/ (sent # 0 /\ txSize = OutSize[sent])
      BY <1>2, <2>1 DEF Settled, Knows, At
  <2>3. txCounter \in Nat /\ txSize \in Nat
      BY <1>1, TakenType
  <2>4. sent # 0 /\ txSize = OutSize[sent]
      BY <2>2, <2>3
  <2>5. \A i \in 1..OutSize[sent] : txBuffer[i] = <<sent, i>>
      BY <1>1, <2>1, <2>4 DEF Loaded
  <2> QED
      BY <2>2, <2>3, <2>4, <2>5
<1>3. ASSUME Idle, txCounter # txSize
      PROVE  txCounter < txSize /\ writeEvent
  <2>1. Settled
      BY <1>1, <1>3 DEF Idle, At, Thread, Setting
  <2>2. txCounter <= txSize /\ writeEvent
      BY <1>3, <2>1 DEF Settled, Idle, At
  <2> QED
      BY <1>1, <1>3, <2>2, TakenType
<1> QED
    BY <1>2, <1>3

\* What the port is offered is the rest of the frame given last, and what is left
\* of it has its write event (emb_rtu_port_event in two threads), unless that
\* frame was given while the one before was still being written.
THEOREM InvCorrect == Spec => []Inv
    BY Invariance, IInvGivesInv, PTL

-----------------------------------------------------------------------------
(***************************************************************************)
(* How far two writes that meet spoil what is sent.  What a hasty frame    *)
(* does to the counters is anyone's guess, but the bytes that go out come  *)
(* from tx_buffer, where a frame that was filled in covers those before    *)
(* it: what comes out of it again lay behind all frames given since.       *)
(***************************************************************************)
\* Nothing on the line or in tx_buffer is of a frame not given yet.
OfFramesGiven ==
    /\ \A i \in 1..TxBufSize : txBuffer[i][1] <= sent
    /\ \A i \in 1..Len(out) : out[i][1] <= sent

\* A byte of a frame keeps its place in tx_buffer, and the frames that were filled
\* in since, b is one, do not reach there.
InPlace == \A i \in 1..TxBufSize : txBuffer[i] = Memory \/ txBuffer[i][2] = i
NoneOlder(b) == \A i \in 1..OutSize[b] : txBuffer[i][1] >= b
Covered ==
    /\ InPlace
    /\ \A b \in 1..sent : (b = sent /\ pc["caller"] = "fill") \/ NoneOlder(b)

\* The last bytes on the line are the beginning of the frame that is being sent.
OnTheLine == IF Setting THEN 0 ELSE txCounter + Taken("caller") + Taken("loop")
EndsWith(k, n) ==
    /\ n <= Len(out)
    /\ \A i \in 1..(Len(out) - n) : out[i][1] # k
    /\ \A i \in 1..n : out[Len(out) - n + i] = <<k, i>>
BeingSent ==
    sent # 0 /\ sent \notin hasty /\ sent \notin failed =>
        /\ EndsWith(sent, OnTheLine)
        /\ ~Setting => txSize = OutSize[sent]
        /\ \A t \in Thread : pc[t] \notin {"drop size", "drop counter"}

\* The frames before it, if they were not met by another, are on the line in one
\* piece (behind the first i bytes); bytes of them may come again later.
InOnePiece(k, i) ==
    /\ i + OutSize[k] <= Len(out)
    /\ \A j \in 1..Len(out) : out[j][1] = k =>
          \/ j \in (i + 1)..(i + OutSize[k])
          \/ j > i + OutSize[k] /\ Again(k, out[j][2])
    /\ \A j \in 1..OutSize[k] : out[i + j] = <<k, j>>
WereSent ==
    \A k \in 1..(sent - 1) :
        k \notin hasty /\ k + 1 \notin hasty /\ k \notin failed => \E i \in Nat : InOnePiece(k, i)

Confined == Loaded /\ OfFramesGiven /\ Covered /\ BeingSent /\ WereSent

\* A step of the handler leaves the caller's variables alone.
LEMMA PortStep ==
    ASSUME IInv, NEW t \in Thread, PortEvent(t)
    PROVE  HandlerStep(t)
<1>1. pc \in [Thread -> Place] /\ local \in [Thread -> Local]
    BY DEF IInv, TypeOK
<1>2. CASE ReadArgs(t)
  <2> PICK l \in Loads(local[t]) :
               /\ local' = [local EXCEPT ![t] = l]
               /\ IF Ready(l) THEN Goto(t, IF Offered(l) = 0 THEN "del" ELSE "write")
                              ELSE Goto(t, "args")
      BY <1>2 DEF ReadArgs
  <2> QED
      BY <1>1, <1>2 DEF HandlerStep, Handler, ReadArgs, Goto, At, shared, caller
<1>3. CASE Delete(t)
    BY <1>1, <1>3 DEF HandlerStep, Handler, Delete, Return, At, caller
<1>4. CASE Write(t)
  <2> PICK w : local' = [local EXCEPT ![t].res = w]
      BY <1>4 DEF Write
  <2> QED
      BY <1>1, <1>4 DEF HandlerStep, Handler, Write, Goto, At, caller
<1>5. CASE LoadCounter(t)
    BY <1>1, <1>5 DEF HandlerStep, Handler, LoadCounter, Goto, At, shared, caller
<1>6. CASE StoreCounter(t)
    BY <1>1, <1>6 DEF HandlerStep, Handler, StoreCounter, Goto, At, caller
<1>7. CASE AddEvent(t)
    BY <1>1, <1>7 DEF HandlerStep, Handler, AddEvent, Return, At, caller
<1>8. CASE WriteFails(t)
    BY <1>1, <1>8 DEF HandlerStep, Handler, WriteFails, Goto, At, shared, caller
<1>9. CASE DropSize(t)
    BY <1>1, <1>9 DEF HandlerStep, Handler, DropSize, Goto, At, caller
<1>10. CASE DropCounter(t)
    BY <1>1, <1>10 DEF HandlerStep, Handler, DropCounter, Return, At, caller
<1> QED
    BY <1>2, <1>3, <1>4, <1>5, <1>6, <1>7, <1>8, <1>9, <1>10 DEF PortEvent


LEMMA FrameNumbers ==
    ASSUME TypeOK
    PROVE  /\ Len(out) \in Nat /\ DOMAIN out = 1..Len(out)
           /\ \A i \in 1..Len(out) : out[i][1] \in Nat
           /\ \A i \in 1..TxBufSize : txBuffer[i][1] \in Nat
<1>1. \A byte \in Byte \cup {Memory} : byte[1] \in Nat
  <2>1. Len(OutSize) \in Nat
      BY Sizes
  <2> QED
      BY <2>1 DEF Byte, Memory
<1>2. out \in Seq(Byte \cup {Memory}) /\ txBuffer \in [1..TxBufSize -> Byte \cup {Memory}]
    BY DEF TypeOK
<1>3. /\ Len(out) \in Nat /\ DOMAIN out = 1..Len(out)
      /\ \A i \in 1..Len(out) : out[i] \in Byte \cup {Memory}
    BY <1>2
<1>4. \A i \in 1..TxBufSize : txBuffer[i] \in Byte \cup {Memory}
    BY <1>2
<1> QED
    BY <1>1, <1>3, <1>4

\* What write() appends to the line: bytes of tx_buffer from where the thread has
\* read that it got to, and memory behind it.
Appended(t, w) ==
    /\ Len(out') = Len(out) + w
    /\ \A j \in 1..Len(out) : out'[j] = out[j]
    /\ \A i \in 1..w : out'[Len(out) + i] = ByteAt(local[t].from + i)

LEMMA WriteAppends ==
    ASSUME IInv, NEW t \in Thread, Write(t)
    PROVE  /\ pc[t] = "write" /\ Ready(local[t])
           /\ pc' = [pc EXCEPT ![t] = "load"]
           /\ UNCHANGED <<txBuffer, txSize, txCounter, writeEvent, sent, filled, hasty, failed, view>>
           /\ \E w \in Nat : /\ w > 0 /\ Appended(t, w)
                             /\ Offered(local[t]) > 0 => w <= Offered(local[t])
                             /\ local' = [local EXCEPT ![t].res = w]
<1> DEFINE l == local[t]
           bytes(w) == [i \in 1..w |-> ByteAt(l.from + i)]
<1> PICK w \in 1..MaxOut :
            /\ Len(out) + w <= MaxOut /\ (Offered(l) > 0 => w <= Offered(l))
            /\ out' = out \o bytes(w)
            /\ local' = [local EXCEPT ![t].res = w]
    BY DEF Write
<1>1. /\ TypeOK /\ Base /\ pc[t] = "write"
      /\ pc' = [pc EXCEPT ![t] = "load"]
      /\ UNCHANGED <<txBuffer, txSize, txCounter, writeEvent, sent, filled, hasty, failed, view>>
    BY DEF IInv, Write, Goto, At, caller
<1>2. Ready(l)
    BY <1>1 DEF Base
<1>3. out \in Seq(Byte \cup {Memory})
    BY <1>1 DEF TypeOK
<1>4. w \in Nat /\ w > 0
    BY Sizes
<1>5. bytes(w) \in Seq(Byte \cup {Memory}) /\ Len(bytes(w)) = w
  <2>1. ASSUME NEW i \in 1..w
        PROVE  bytes(w)[i] \in Byte \cup {Memory}
      BY <1>1, ByteAtType
  <2>2. bytes(w) \in [1..w -> Byte \cup {Memory}]
      BY <2>1
  <2> HIDE DEF bytes
  <2> QED
      BY <1>4, <2>2
<1>6. \A i \in 1..w : bytes(w)[i] = ByteAt(l.from + i)
    OBVIOUS
<1> HIDE DEF bytes
<1>7. /\ Len(out') = Len(out) + w
      /\ \A j \in 1..Len(out) : out'[j] = out[j]
      /\ \A i \in 1..w : out'[Len(out) + i] = bytes(w)[i]
  <2>1. \A p \in Seq(Byte \cup {Memory}) : Len(p) = w =>
            /\ Len(out \o p) = Len(out) + w
            /\ \A j \in 1..Len(out) : (out \o p)[j] = out[j]
            /\ \A i \in 1..w : (out \o p)[Len(out) + i] = p[i]
      BY <1>3, <1>4
  <2>2. out' = out \o bytes(w)
      OBVIOUS
  <2> QED
      BY <1>5, <2>1, <2>2, Zenon
<1>8. Appended(t, w)
    BY <1>6, <1>7 DEF Appended
<1> QED
    BY <1>1, <1>2, <1>4, <1>8

\* Of a frame that was given in time the port gets what follows.
LEMMA InTimeAppends ==
    ASSUME IInv, NEW t \in Thread, Write(t), sent \notin hasty,
           NEW w \in Nat, Appended(t, w), Offered(local[t]) > 0 => w <= Offered(local[t])
    PROVE  \A i \in 1..w : out'[Len(out) + i] = <<sent, txCounter + i>>
<1>1. pc[t] = "write"
    BY DEF Write, At
<1>2. Loaded /\ Settled /\ ~Setting /\ TypeOK
    BY <1>1, Turn DEF Handler, IInv
<1>3. txCounter \in Nat /\ txSize \in Nat /\ txSize <= TxBufSize /\ TxBufSize \in Nat
    BY <1>2, TakenType, Sizes DEF TypeOK
<1>4. /\ local[t].size = txSize /\ local[t].from = txCounter /\ local[t].less = txCounter
      /\ txCounter < txSize /\ (txSize = 0 \/ (sent # 0 /\ txSize = OutSize[sent]))
    BY <1>1, <1>2 DEF Settled, Knows
<1>5. Offered(local[t]) = txSize - txCounter /\ w <= txSize - txCounter
    BY <1>3, <1>4 DEF Offered
<1>6. \A j \in 1..txSize : txBuffer[j] = <<sent, j>>
    BY <1>2, <1>3, <1>4 DEF Loaded, Setting
<1>7. ASSUME NEW i \in 1..w PROVE out'[Len(out) + i] = <<sent, txCounter + i>>
  <2>1. txCounter + i \in 1..txSize /\ txCounter + i \in 1..TxBufSize
      BY <1>3, <1>5
  <2>2. out'[Len(out) + i] = ByteAt(txCounter + i)
      BY <1>4 DEF Appended
  <2> QED
      BY <1>6, <2>1, <2>2 DEF ByteAt
<1> QED
    BY <1>7

\* No other step has the port take anything.
LEMMA NothingAppended ==
    ASSUME Next, \A t \in Thread : ~Write(t)
    PROVE  out' = out
<1>1. CASE SendPacket \/ Fill \/ SetSize \/ ResetCounter \/ OnWriteEvent
    BY <1>1 DEF SendPacket, Fill, SetSize, ResetCounter, OnWriteEvent, shared
<1>2. ASSUME NEW t \in Thread, PortEvent(t) PROVE out' = out
    BY <1>2 DEF PortEvent, ReadArgs, Delete, LoadCounter, StoreCounter, AddEvent, WriteFails,
       DropSize, DropCounter, shared
<1> QED
    BY <1>1, <1>2 DEF Next

-----------------------------------------------------------------------------
\* tx_buffer holds the frame given last whatever happens: only the caller writes it.
LEMMA LoadedKeeps ==
    ASSUME IInv, Loaded, Next
    PROVE  Loaded'
<1>1. TypeOK /\ Base /\ pc \in [Thread -> Place]
    BY DEF IInv, TypeOK
<1>2. CASE SendPacket
  <2>1. pc'["caller"] = "fill" /\ filled' = 0
      BY <1>1, <1>2 DEF SendPacket, Goto, Thread
  <2> QED
      BY <2>1 DEF Loaded
<1>3. CASE Fill
  <2>1. /\ pc["caller"] = "fill" /\ filled' = filled + 1
        /\ txBuffer' = [txBuffer EXCEPT ![filled'] = <<sent, filled'>>]
        /\ pc'["caller"] = IF filled' = OutSize[sent] THEN "size" ELSE "fill"
        /\ sent' = sent
      BY <1>1, <1>3 DEF Fill, Goto, At, Thread
  <2>2. filled \in Nat /\ sent # 0 /\ filled' \in 1..OutSize[sent] /\ OutSize[sent] \in 1..TxBufSize
    <3>1. sent \in 1..Len(OutSize)
        BY <1>1, <2>1, Sizes DEF TypeOK, Base, Thread
    <3> QED
        BY <1>1, <2>1, <3>1, Sizes DEF TypeOK, Base
  <2>3. \A i \in 1..filled : txBuffer[i] = <<sent, i>>
      BY <2>1 DEF Loaded
  <2>4. \A i \in 1..filled' : txBuffer'[i] = <<sent, i>>
      BY <1>1, <2>1, <2>2, <2>3, Sizes DEF TypeOK
  <2> QED
      BY <2>1, <2>2, <2>4 DEF Loaded
<1>4. CASE SetSize \/ ResetCounter \/ OnWriteEvent
  <2>1. \/ txBuffer' = txBuffer /\ sent' = sent /\ pc["caller"] # "fill" /\ pc'["caller"] # "fill"
        \/ OnWriteEvent
      BY <1>1, <1>4 DEF SetSize, ResetCounter, Goto, At, Thread, caller
  <2>2. CASE OnWriteEvent
    <3>1. txBuffer' = txBuffer /\ sent' = sent /\ filled' = filled /\ pc'["caller"] = pc["caller"]
        BY <1>1, <2>2 DEF OnWriteEvent, Goto, At, Thread, caller, shared
    <3> QED
        BY <3>1 DEF Loaded
  <2> QED
      BY <2>1, <2>2 DEF Loaded
<1>5. ASSUME NEW t \in Thread, PortEvent(t) PROVE Loaded'
  <2>1. HandlerStep(t)
      BY <1>5, PortStep
  <2>2. pc'["caller"] = "fill" <=> pc["caller"] = "fill"
      BY <1>1, <2>1 DEF HandlerStep, Handler, Thread
  <2>3. txBuffer' = txBuffer /\ sent' = sent /\ filled' = filled
      BY <2>1 DEF HandlerStep
  <2> QED
      BY <2>2, <2>3 DEF Loaded
<1> QED
    BY <1>2, <1>3, <1>4, <1>5 DEF Next

LEMMA OfFramesGivenKeeps ==
    ASSUME IInv, OfFramesGiven, Next
    PROVE  OfFramesGiven'
<1>1. TypeOK /\ Base /\ IInv' /\ TypeOK'
  <2>1. IInv'
      BY NextIInv DEF IInv
  <2> QED
      BY <2>1 DEF IInv
<1>2. sent' \in Nat /\ sent \in Nat /\ sent <= sent'
  <2>1. sent' = sent \/ sent' = sent + 1
    <3>1. ASSUME NEW t \in Thread, PortEvent(t) PROVE sent' = sent
        BY <3>1, PortStep DEF HandlerStep
    <3> QED
        BY <3>1 DEF Next, SendPacket, Fill, SetSize, ResetCounter, OnWriteEvent, caller
  <2>2. sent \in Nat
      BY <1>1, Sizes DEF TypeOK
  <2> QED
      BY <2>1, <2>2
<1>3. ASSUME NEW i \in 1..TxBufSize PROVE txBuffer'[i][1] <= sent'
  <2>1. txBuffer[i][1] <= sent /\ txBuffer[i][1] \in Nat
      BY <1>1, FrameNumbers DEF OfFramesGiven
  <2>2. CASE txBuffer'[i] = txBuffer[i]
      BY <1>2, <2>1, <2>2
  <2>3. CASE Fill
    <3>1. txBuffer' = [txBuffer EXCEPT ![filled'] = <<sent, filled'>>] /\ sent' = sent
        BY <2>3 DEF Fill
    <3>2. txBuffer'[i] = txBuffer[i] \/ txBuffer'[i][1] = sent
        BY <1>1, <3>1 DEF TypeOK
    <3> QED
        BY <1>2, <2>2, <3>1, <3>2
  <2>4. CASE SendPacket \/ SetSize \/ ResetCounter \/ OnWriteEvent
    <3>1. txBuffer' = txBuffer
        BY <2>4 DEF SendPacket, SetSize, ResetCounter, OnWriteEvent, shared
    <3> QED
        BY <2>2, <3>1
  <2>5. ASSUME NEW t \in Thread, PortEvent(t) PROVE txBuffer'[i][1] <= sent'
    <3>1. txBuffer' = txBuffer
        BY <2>5, PortStep DEF HandlerStep
    <3> QED
        BY <2>2, <3>1
  <2> QED
      BY <2>3, <2>4, <2>5 DEF Next
<1>4. ASSUME NEW j \in 1..Len(out') PROVE out'[j][1] <= sent'
  <2>1. \A i \in 1..Len(out) : out[i][1] <= sent /\ out[i][1] \in Nat
      BY <1>1, FrameNumbers DEF OfFramesGiven
  <2>2. CASE out' = out
      BY <1>2, <2>1, <2>2
  <2>3. ASSUME NEW t \in Thread, Write(t) PROVE out'[j][1] <= sent'
    <3> PICK w \in Nat : Appended(t, w)
        BY <2>3, WriteAppends
    <3>1. Len(out) \in Nat
        BY <1>1, FrameNumbers
    <3>2. j <= Len(out) \/ (j - Len(out) \in 1..w /\ j = Len(out) + (j - Len(out)))
        BY <3>1 DEF Appended
    <3>3. CASE j <= Len(out)
      <4>1. j \in 1..Len(out)
          BY <3>1, <3>3 DEF Appended
      <4>2. out'[j] = out[j]
          BY <4>1 DEF Appended
      <4> QED
          BY <1>2, <2>1, <4>1, <4>2
    <3>4. CASE j - Len(out) \in 1..w /\ j = Len(out) + (j - Len(out))
      <4>1. \/ out'[j] = Memory
            \/ \E i \in 1..TxBufSize : out'[j] = txBuffer[i]
          BY <3>4 DEF Appended, ByteAt
      <4>2. CASE out'[j] = Memory
          BY <1>2, <4>2 DEF Memory
      <4>3. ASSUME NEW i \in 1..TxBufSize, out'[j] = txBuffer[i] PROVE out'[j][1] <= sent'
        <5>1. txBuffer[i][1] <= sent /\ txBuffer[i][1] \in Nat
            BY <1>1, FrameNumbers DEF OfFramesGiven
        <5> QED
            BY <1>2, <4>3, <5>1
      <4> QED
          BY <4>1, <4>2, <4>3
    <3> QED
        BY <3>2, <3>3, <3>4
  <2>4. CASE \A t \in Thread : ~Write(t)
      BY <2>2, <2>4, NothingAppended
  <2> QED
      BY <2>3, <2>4
<1> QED
    BY <1>3, <1>4 DEF OfFramesGiven

-----------------------------------------------------------------------------
LEMMA CoveredKeeps ==
    ASSUME IInv, Loaded, Covered, Next
    PROVE  Covered'
<1>1. TypeOK /\ Base /\ pc \in [Thread -> Place]
    BY DEF IInv, TypeOK
<1>2. /\ sent \in 0..Len(OutSize) /\ sent \in Nat /\ Len(OutSize) \in Nat /\ TxBufSize \in Nat
      /\ txBuffer \in [1..TxBufSize -> Byte \cup {Memory}]
    BY <1>1, Sizes DEF TypeOK
<1>3. \A b \in 1..sent : (b = sent /\ pc["caller"] = "fill") \/ NoneOlder(b)
    BY DEF Covered
<1>4. CASE SendPacket
  <2>1. /\ pc["caller"] = "idle" /\ pc'["caller"] = "fill" /\ sent' = sent + 1
        /\ UNCHANGED txBuffer
      BY <1>1, <1>4 DEF SendPacket, Goto, At, Thread, shared
  <2>2. ASSUME NEW b \in 1..sent', b # sent' PROVE NoneOlder(b)'
    <3>1. b \in 1..sent
        BY <1>2, <2>1, <2>2
    <3> QED
        BY <1>3, <2>1, <3>1 DEF NoneOlder
  <2> QED
      BY <2>1, <2>2 DEF Covered, InPlace
<1>5. CASE Fill
  <2>1. /\ pc["caller"] = "fill" /\ filled' = filled + 1
        /\ txBuffer' = [txBuffer EXCEPT ![filled'] = <<sent, filled'>>]
        /\ pc'["caller"] = IF filled' = OutSize[sent] THEN "size" ELSE "fill"
        /\ sent' = sent
      BY <1>1, <1>5 DEF Fill, Goto, At, Thread
  <2>2. ASSUME NEW i \in 1..TxBufSize
        PROVE  txBuffer'[i] = txBuffer[i] \/ (txBuffer'[i] = <<sent, i>>)
      BY <1>2, <2>1, <2>2
  <2>3. InPlace'
      BY <2>2 DEF Covered, InPlace
  <2>4. ASSUME NEW b \in 1..sent, ~(b = sent /\ pc'["caller"] = "fill") PROVE NoneOlder(b)'
    <3>1. OutSize[b] \in 0..TxBufSize
        BY <1>2, Sizes
    <3>2. CASE b = sent
      <4>1. filled' = OutSize[b] /\ pc'["caller"] # "fill"
          BY <2>1, <2>4, <3>2
      <4>2. Loaded'
          BY LoadedKeeps
      <4>3. \A i \in 1..OutSize[b] : txBuffer'[i] = <<sent, i>>
          BY <1>2, <2>1, <3>2, <4>1, <4>2 DEF Loaded
      <4> QED
          BY <1>2, <3>2, <4>3 DEF NoneOlder
    <3>3. CASE b # sent
      <4>1. NoneOlder(b) /\ b <= sent /\ b \in Nat
          BY <1>2, <1>3, <3>3
      <4>2. ASSUME NEW i \in 1..OutSize[b] PROVE txBuffer'[i][1] >= b
        <5>1. i \in 1..TxBufSize
            BY <1>2, <3>1
        <5> QED
            BY <2>2, <4>1, <5>1 DEF NoneOlder
      <4> QED
          BY <4>2 DEF NoneOlder
    <3> QED
        BY <3>2, <3>3
  <2> QED
      BY <2>1, <2>3, <2>4 DEF Covered
<1>6. CASE SetSize \/ ResetCounter \/ OnWriteEvent
  <2>1. /\ UNCHANGED <<txBuffer, sent>>
        /\ pc["caller"] = "fill" => pc'["caller"] = "fill"
      BY <1>1, <1>6 DEF SetSize, ResetCounter, OnWriteEvent, Goto, At, Thread, shared, caller
  <2> QED
      BY <1>3, <2>1 DEF Covered, InPlace, NoneOlder
<1>7. ASSUME NEW t \in Thread, PortEvent(t) PROVE Covered'
  <2>1. HandlerStep(t)
      BY <1>7, PortStep
  <2>2. /\ UNCHANGED <<txBuffer, sent>>
        /\ pc["caller"] = "fill" => pc'["caller"] = "fill"
      BY <1>1, <2>1 DEF HandlerStep, Handler, Thread
  <2> QED
      BY <1>3, <2>2 DEF Covered, InPlace, NoneOlder
<1> QED
    BY <1>4, <1>5, <1>6, <1>7 DEF Next

-----------------------------------------------------------------------------
\* What is on the line of the frame that is being sent, while nothing is taken.
LEMMA EndsWithKeeps ==
    ASSUME EndsWith(sent, OnTheLine), out' = out, sent' = sent, OnTheLine' = OnTheLine
    PROVE  EndsWith(sent, OnTheLine)'
    BY DEF EndsWith

\* One thread at a time counts.
LEMMA OnTheLineIs ==
    ASSUME IInv, NEW t \in Thread, pc[t] \in Handler, sent \notin hasty
    PROVE  /\ OnTheLine = txCounter + Taken(t) /\ Taken(t) \in Nat /\ txCounter \in Nat
           /\ \A u \in Thread : u # t => Taken(u) = 0
<1>1. TypeOK /\ ~Setting /\ \A u \in Thread : u # t => pc[u] = "idle"
    BY Turn DEF IInv
<1>2. \A u \in Thread : u # t => Taken(u) = 0
    BY <1>1 DEF Taken
<1>3. Taken("caller") \in Nat /\ Taken("loop") \in Nat /\ txCounter \in Nat
    BY <1>1, TakenType
<1>4. OnTheLine = txCounter + Taken("caller") + Taken("loop")
    BY <1>1 DEF OnTheLine
<1>5. CASE t = "caller"
    BY <1>2, <1>3, <1>4, <1>5 DEF Thread
<1>6. CASE t = "loop"
    BY <1>2, <1>3, <1>4, <1>6 DEF Thread
<1> QED
    BY <1>2, <1>5, <1>6 DEF Thread

LEMMA OnTheLineAfter ==
    ASSUME IInv, NEW t \in Thread, PortEvent(t), sent \notin hasty, Taken(t)' \in Nat, txCounter' \in Nat
    PROVE  OnTheLine' = txCounter' + Taken(t)'
<1>1. HandlerStep(t) /\ pc[t] \in Handler
    BY PortStep DEF HandlerStep
<1>2. pc \in [Thread -> Place] /\ local \in [Thread -> Local]
    BY DEF IInv, TypeOK
<1>3. ~Setting /\ \A u \in Thread : u # t => pc[u] = "idle"
    BY <1>1, Turn
<1>4. \A u \in Thread : u # t => pc'[u] = "idle"
    BY <1>1, <1>2, <1>3 DEF HandlerStep
<1>5. ~Setting'
    BY <1>1, <1>4 DEF Setting, HandlerStep, Handler, Thread
<1>6. \A u \in Thread : u # t => Taken(u)' = 0
    BY <1>4 DEF Taken
<1>7. OnTheLine' = txCounter' + Taken("caller")' + Taken("loop")'
    BY <1>5 DEF OnTheLine
<1>8. CASE t = "caller"
    BY <1>6, <1>7, <1>8 DEF Thread
<1>9. CASE t = "loop"
    BY <1>6, <1>7, <1>9 DEF Thread
<1> QED
    BY <1>8, <1>9 DEF Thread

LEMMA BeingSentKeeps ==
    ASSUME IInv, Loaded, OfFramesGiven, BeingSent, Next
    PROVE  BeingSent'
<1>1. /\ TypeOK /\ Base /\ pc \in [Thread -> Place] /\ local \in [Thread -> Local]
      /\ failed \subseteq 1..sent /\ sent \in Nat /\ Len(out) \in Nat
      /\ txCounter \in Nat /\ txSize \in Nat
    BY TakenType, Sizes DEF IInv, TypeOK
<1>2. CASE SendPacket
  <2>1. /\ sent' = sent + 1 /\ pc' = [pc EXCEPT !["caller"] = "fill"]
        /\ hasty' = IF writeEvent \/ pc["loop"] # "idle" THEN hasty \cup {sent'} ELSE hasty
        /\ out' = out
      BY <1>2 DEF SendPacket, Goto, At, shared
  <2>2. Setting'
      BY <1>1, <2>1 DEF Setting, Thread
  <2>3. \A i \in 1..Len(out) : out[i][1] # sent'
    <3>1. ASSUME NEW i \in 1..Len(out) PROVE out[i][1] # sent'
      <4>1. out[i][1] \in Nat /\ out[i][1] <= sent
          BY <1>1, FrameNumbers DEF OfFramesGiven
      <4> QED
          BY <1>1, <2>1, <4>1
    <3> QED
        BY <3>1
  <2>4. EndsWith(sent, OnTheLine)'
    <3>1. OnTheLine' = 0
        BY <2>2 DEF OnTheLine
    <3> QED
        BY <1>1, <2>1, <2>3, <3>1 DEF EndsWith
  <2>5. ASSUME sent' \notin hasty', NEW t \in Thread PROVE pc'[t] \notin {"drop size", "drop counter"}
      BY <1>1, <2>1, <2>5 DEF Thread
  <2> QED
      BY <2>2, <2>4, <2>5 DEF BeingSent
<1>3. CASE Fill \/ SetSize
  <2>1. /\ pc["caller"] \in {"fill", "size"} /\ pc'["caller"] \in {"fill", "size", "reset"}
        /\ pc'["loop"] = pc["loop"]
        /\ UNCHANGED <<out, sent, hasty, failed>>
      BY <1>1, <1>3 DEF Fill, SetSize, Goto, At, Thread, caller
  <2>2. Setting /\ Setting'
      BY <2>1 DEF Setting
  <2>3. OnTheLine = 0 /\ OnTheLine' = 0
      BY <2>2 DEF OnTheLine
  <2> QED
      BY <2>1, <2>2, <2>3, EndsWithKeeps DEF BeingSent, Thread
<1>4. CASE ResetCounter
  <2>1. /\ pc["caller"] = "reset" /\ pc' = [pc EXCEPT !["caller"] = "args"] /\ txCounter' = 0
        /\ UNCHANGED <<out, sent, hasty, failed, txSize>>
      BY <1>4 DEF ResetCounter, Goto, At, caller
  <2> SUFFICES ASSUME sent # 0, sent \notin hasty, sent \notin failed
               PROVE  /\ EndsWith(sent, OnTheLine)' /\ txSize = OutSize[sent]
                      /\ \A t \in Thread : pc'[t] \notin {"drop size", "drop counter"}
      BY <2>1 DEF BeingSent
  <2>2. pc["loop"] = "idle" /\ txSize = OutSize[sent]
      BY <2>1 DEF IInv, TakingTurns, Alone
  <2>3. pc'["caller"] = "args" /\ pc'["loop"] = "idle"
      BY <1>1, <2>1, <2>2 DEF Thread
  <2>4. Setting /\ ~Setting'
      BY <2>1, <2>3 DEF Setting
  <2>5. OnTheLine = 0 /\ OnTheLine' = 0
      BY <2>1, <2>3, <2>4 DEF OnTheLine, Taken
  <2> QED
      BY <2>1, <2>2, <2>3, <2>5, EndsWithKeeps DEF BeingSent, Thread
<1>5. CASE OnWriteEvent
  <2>1. /\ pc["loop"] = "idle" /\ pc' = [pc EXCEPT !["loop"] = "args"]
        /\ UNCHANGED <<out, sent, hasty, failed, txSize, txCounter, local>>
      BY <1>5 DEF OnWriteEvent, Goto, At, caller, shared
  <2>2. pc'["caller"] = pc["caller"] /\ pc'["loop"] = "args"
      BY <1>1, <2>1 DEF Thread
  <2>3. (Setting' <=> Setting) /\ Taken("caller")' = Taken("caller") /\ Taken("loop")' = Taken("loop")
      BY <2>1, <2>2 DEF Setting, Taken
  <2>4. OnTheLine' = OnTheLine
      BY <2>1, <2>3 DEF OnTheLine
  <2> QED
      BY <2>1, <2>2, <2>3, <2>4, EndsWithKeeps DEF BeingSent, Thread
<1>6. ASSUME NEW t \in Thread, PortEvent(t) PROVE BeingSent'
  <2>1. HandlerStep(t) /\ pc[t] \in Handler
      BY <1>6, PortStep DEF HandlerStep
  <2>2. sent' = sent /\ hasty' = hasty /\ failed \subseteq failed'
      BY <1>6, <2>1 DEF HandlerStep, PortEvent, ReadArgs, Delete, Write, LoadCounter, StoreCounter,
         AddEvent, WriteFails, DropSize, DropCounter
  <2> SUFFICES ASSUME sent # 0, sent \notin hasty, sent \notin failed'
               PROVE  /\ EndsWith(sent, OnTheLine)' /\ txSize' = OutSize[sent]
                      /\ \A u \in Thread : pc'[u] \notin {"drop size", "drop counter"}
      BY <2>2 DEF BeingSent
  <2>3. /\ Settled /\ ~Setting /\ \A u \in Thread : u # t => pc[u] = "idle"
      BY <2>1, Turn
  <2>4. /\ EndsWith(sent, OnTheLine) /\ txSize = OutSize[sent]
        /\ pc[t] \notin {"drop size", "drop counter"}
      BY <2>2, <2>3 DEF BeingSent
  <2>5. /\ OnTheLine = txCounter + Taken(t) /\ Taken(t) \in Nat
        /\ local[t].res \in Nat
      BY <1>1, <2>1, OnTheLineIs, TakenType, Sizes
  <2>6. ~WriteFails(t) /\ ~DropSize(t) /\ ~DropCounter(t)
      BY <2>4 DEF WriteFails, DropSize, DropCounter, At
  <2>7. txSize' = txSize
      BY <1>6, <2>6 DEF PortEvent, ReadArgs, Delete, Write, LoadCounter, StoreCounter, AddEvent, shared
  <2>8. pc'[t] \notin {"drop size", "drop counter"}
    <3>1. CASE ReadArgs(t)
        BY <1>1, <3>1 DEF ReadArgs, Goto
    <3>2. CASE Delete(t) \/ Write(t) \/ LoadCounter(t) \/ StoreCounter(t) \/ AddEvent(t)
        BY <1>1, <3>2 DEF Delete, Write, LoadCounter, StoreCounter, AddEvent, Goto, Return
    <3> QED
        BY <1>6, <2>6, <3>1, <3>2 DEF PortEvent
  <2>9. \A u \in Thread : pc'[u] \notin {"drop size", "drop counter"}
      BY <1>1, <2>1, <2>3, <2>8 DEF HandlerStep
  <2>10. CASE ReadArgs(t) \/ Delete(t) \/ AddEvent(t)
    <3>1. /\ out' = out /\ txCounter' = txCounter
          /\ pc[t] \notin {"load", "store"} /\ pc'[t] \notin {"load", "store"}
        BY <1>1, <2>10 DEF ReadArgs, Delete, AddEvent, Goto, Return, At, shared
    <3>2. Taken(t) = 0 /\ Taken(t)' = 0
        BY <3>1 DEF Taken
    <3>3. OnTheLine' = OnTheLine
        BY <1>1, <1>6, <2>5, <3>1, <3>2, OnTheLineAfter
    <3> QED
        BY <2>2, <2>4, <2>7, <2>9, <3>1, <3>3, EndsWithKeeps
  <2>11. CASE LoadCounter(t)
    <3>1. /\ out' = out /\ txCounter' = txCounter /\ pc[t] = "load" /\ pc'[t] = "store"
          /\ local'[t] = [Fresh EXCEPT !.res = local[t].res, !.count = txCounter]
        BY <1>1, <2>11 DEF LoadCounter, Goto, At, shared
    <3>2. Taken(t) = local[t].res /\ Taken(t)' = local[t].res
        BY <3>1 DEF Taken, Fresh
    <3>3. OnTheLine' = OnTheLine
        BY <1>1, <1>6, <2>5, <3>1, <3>2, OnTheLineAfter
    <3> QED
        BY <2>2, <2>4, <2>7, <2>9, <3>1, <3>3, EndsWithKeeps
  <2>12. CASE StoreCounter(t)
    <3>1. /\ out' = out /\ txCounter' = local[t].count + local[t].res
          /\ pc[t] = "store" /\ pc'[t] = "add"
        BY <1>1, <2>12 DEF StoreCounter, Goto, At
    <3>2. local[t].count = txCounter
        BY <2>3, <3>1 DEF Settled, Knows
    <3>3. Taken(t) = local[t].res /\ Taken(t)' = 0
        BY <3>1 DEF Taken
    <3>4. txCounter' = txCounter + local[t].res /\ txCounter' \in Nat
        BY <1>1, <2>5, <3>1, <3>2
    <3>5. OnTheLine' = txCounter' + 0
        BY <1>6, <3>3, <3>4, OnTheLineAfter
    <3>6. OnTheLine' = OnTheLine
        BY <2>5, <3>3, <3>4, <3>5
    <3> QED
        BY <2>2, <2>4, <2>7, <2>9, <3>1, <3>6, EndsWithKeeps
  <2>13. CASE Write(t)
    <3>1. /\ pc[t] = "write" /\ pc'[t] = "load" /\ txCounter' = txCounter
        BY <1>1, <2>13, WriteAppends
    <3>4. PICK w \in Nat : /\ Appended(t, w) /\ local' = [local EXCEPT ![t].res = w]
                           /\ Offered(local[t]) > 0 => w <= Offered(local[t])
        BY <2>13, WriteAppends
    <3>5. Taken(t) = 0 /\ Taken(t)' = w
      <4>1. local[t] \in Local
          BY <1>1
      <4>2. local'[t].res = w
          BY <1>1, <3>4, <4>1 DEF Local
      <4> QED
          BY <3>1, <4>2 DEF Taken
    <3>6. OnTheLine = txCounter /\ OnTheLine' = txCounter + w
        BY <1>1, <1>6, <2>5, <3>1, <3>5, OnTheLineAfter
    <3>7. /\ Len(out') = Len(out) + w
          /\ \A j \in 1..Len(out) : out'[j] = out[j]
        BY <3>4 DEF Appended
    <3>8. \A i \in 1..w : out'[Len(out) + i] = <<sent, txCounter + i>>
        BY <2>2, <2>13, <3>4, InTimeAppends
    <3>9. EndsWith(sent, OnTheLine)'
      <4> DEFINE c == txCounter
                 n == Len(out)
      <4>1. c \in Nat /\ n \in Nat /\ w \in Nat /\ c <= n
          BY <1>1, <2>4, <3>6 DEF EndsWith
      <4>2. /\ \A i \in 1..(n - c) : out[i][1] # sent
            /\ \A i \in 1..c : out[n - c + i] = <<sent, i>>
          BY <2>4, <3>6 DEF EndsWith
      <4>3. /\ Len(out') = n + w /\ \A j \in 1..n : out'[j] = out[j]
            /\ \A i \in 1..w : out'[n + i] = <<sent, c + i>>
          BY <3>7, <3>8
      <4>4. OnTheLine' = c + w
          BY <3>6
      <4> HIDE DEF c, n
      <4>5. c + w <= n + w /\ (n + w) - (c + w) = n - c
          BY <4>1
      <4>6. ASSUME NEW i \in 1..(n - c) PROVE out'[i][1] # sent
        <5>1. i \in 1..n
            BY <4>1
        <5> QED
            BY <4>2, <4>3, <5>1
      <4>7. ASSUME NEW i \in 1..(c + w) PROVE out'[n - c + i] = <<sent, i>>
        <5>1. CASE i <= c
          <6>1. i \in 1..c /\ n - c + i \in 1..n
              BY <4>1, <5>1
          <6> QED
              BY <4>2, <4>3, <6>1
        <5>2. CASE i > c
          <6>1. i - c \in 1..w /\ n - c + i = n + (i - c) /\ c + (i - c) = i
              BY <4>1, <5>2
          <6> QED
              BY <4>3, <6>1
        <5> QED
            BY <4>1, <5>1, <5>2
      <4> QED
          BY <2>2, <4>3, <4>4, <4>5, <4>6, <4>7 DEF EndsWith
    <3> QED
        BY <2>4, <2>7, <2>9, <3>9
  <2> QED
      BY <1>6, <2>6, <2>10, <2>11, <2>12, <2>13 DEF PortEvent
<1> QED
    BY <1>2, <1>3, <1>4, <1>5, <1>6 DEF Next

-----------------------------------------------------------------------------
\* When the threads have returned and the write event is gone, the frame went out.
LEMMA Finishes ==
    ASSUME IInv, BeingSent, sent # 0, sent \notin hasty, sent \notin failed, Idle, ~writeEvent
    PROVE  \E i \in Nat : InOnePiece(sent, i)
<1>1. /\ sent \in 1..Len(OutSize) /\ Len(out) \in Nat /\ txCounter \in Nat
      /\ OutSize[sent] \in Nat
    BY TakenType, Sizes DEF IInv, TypeOK
<1>2. pc["caller"] = "idle" /\ pc["loop"] = "idle" /\ ~Setting
    BY DEF Idle, At, Thread, Setting
<1>3. Settled
    BY <1>2 DEF IInv, TakingTurns
<1>4. txCounter = OutSize[sent]
    BY <1>2, <1>3 DEF Settled, BeingSent
<1>5. OnTheLine = OutSize[sent]
    BY <1>1, <1>2, <1>4 DEF OnTheLine, Taken
<1> DEFINE k == sent
           z == OutSize[k]
           n == Len(out)
<1>6. /\ n \in Nat /\ z \in Nat /\ z <= n
      /\ \A i \in 1..(n - z) : out[i][1] # k
      /\ \A i \in 1..z : out[n - z + i] = <<k, i>>
    BY <1>1, <1>2, <1>5 DEF BeingSent, EndsWith
<1> HIDE DEF z, n
<1>7. n - z \in Nat /\ (n - z) + z = n
    BY <1>6
<1>8. ASSUME NEW j \in 1..n, out[j][1] = k PROVE j \in (n - z + 1)..n
    BY <1>6, <1>8
<1>9. InOnePiece(k, n - z)
  <2>1. (n - z) + z <= n
      BY <1>6, <1>7
  <2>2. (n - z + 1)..n = (n - z + 1)..((n - z) + z)
      BY <1>7
  <2> QED
      BY <1>6, <1>8, <2>1, <2>2 DEF InOnePiece, z, n
<1> QED
    BY <1>7, <1>9

\* What was sent stays as it is when bytes of others, or of it again, are appended.
LEMMA InOnePieceKeeps ==
    ASSUME NEW k \in Nat, NEW i \in Nat, NEW w \in Nat, OutSize[k] \in Nat, Len(out) \in Nat,
           InOnePiece(k, i), hasty \subseteq hasty',
           Len(out') = Len(out) + w, \A j \in 1..Len(out) : out'[j] = out[j],
           \A j \in 1..w : out'[Len(out) + j][1] = k => Again(k, out'[Len(out) + j][2])
    PROVE  InOnePiece(k, i)'
<1> DEFINE z == OutSize[k]
           n == Len(out)
           again(p) == Again(k, p)
<1>1. /\ n \in Nat /\ z \in Nat /\ i + z <= n /\ Len(out') = n + w
      /\ \A j \in 1..n : out[j][1] = k => j \in (i + 1)..(i + z) \/ (j > i + z /\ again(out[j][2]))
      /\ \A j \in 1..z : out[i + j] = <<k, j>>
      /\ \A j \in 1..n : out'[j] = out[j]
      /\ \A j \in 1..w : out'[n + j][1] = k => again(out'[n + j][2])
    BY DEF InOnePiece
<1>2. ASSUME NEW p, again(p) PROVE Again(k, p)'
    BY <1>2 DEF Again
<1> HIDE DEF n, again
<1> SUFFICES /\ i + z <= n + w
             /\ \A j \in 1..(n + w) : out'[j][1] = k =>
                   j \in (i + 1)..(i + z) \/ (j > i + z /\ again(out'[j][2]))
             /\ \A j \in 1..z : out'[i + j] = <<k, j>>
    BY <1>1, <1>2 DEF InOnePiece
<1> HIDE DEF z
<1>3. i + z <= n + w
    BY <1>1
<1>4. ASSUME NEW j \in 1..(n + w), out'[j][1] = k
      PROVE  j \in (i + 1)..(i + z) \/ (j > i + z /\ again(out'[j][2]))
  <2>1. CASE j <= n
    <3>1. j \in 1..n
        BY <1>1, <2>1
    <3> QED
        BY <1>1, <1>4, <3>1
  <2>2. CASE j > n
    <3>1. j - n \in 1..w /\ n + (j - n) = j /\ j > i + z
        BY <1>1, <2>2
    <3> QED
        BY <1>1, <1>4, <3>1
  <2> QED
      BY <1>1, <2>1, <2>2
<1>5. ASSUME NEW j \in 1..z PROVE out'[i + j] = <<k, j>>
  <2>1. i + j \in 1..n
      BY <1>1
  <2> QED
      BY <1>1, <2>1
<1> QED
    BY <1>3, <1>4, <1>5

LEMMA InOnePieceStays ==
    ASSUME NEW k \in Nat, NEW i \in Nat, InOnePiece(k, i), hasty \subseteq hasty', out' = out
    PROVE  InOnePiece(k, i)'
<1>1. ASSUME NEW p, Again(k, p) PROVE Again(k, p)'
    BY <1>1 DEF Again
<1> QED
    BY <1>1 DEF InOnePiece

LEMMA WereSentKeeps ==
    ASSUME IInv, Confined, Next
    PROVE  WereSent'
<1>1. /\ TypeOK /\ Base /\ sent \in Nat /\ Len(OutSize) \in Nat /\ sent <= Len(OutSize) /\ Len(out) \in Nat
    BY Sizes, FrameNumbers DEF IInv, TypeOK
<1>2. /\ sent' = sent \/ (sent' = sent + 1 /\ SendPacket)
      /\ hasty \subseteq hasty' /\ failed \subseteq failed'
  <2>1. ASSUME NEW t \in Thread, PortEvent(t)
        PROVE  sent' = sent /\ hasty' = hasty /\ failed \subseteq failed'
      BY <2>1, PortStep DEF HandlerStep, PortEvent, ReadArgs, Delete, Write, LoadCounter,
         StoreCounter, AddEvent, WriteFails, DropSize, DropCounter
  <2> QED
      BY <2>1 DEF Next, SendPacket, Fill, SetSize, ResetCounter, OnWriteEvent, caller
<1> SUFFICES ASSUME NEW k \in 1..(sent' - 1), k \notin hasty', k + 1 \notin hasty', k \notin failed'
             PROVE  \E i \in Nat : InOnePiece(k, i)'
    BY DEF WereSent
<1>3. k \in Nat /\ k \notin hasty /\ k + 1 \notin hasty /\ k \notin failed
    BY <1>1, <1>2
<1>4. OutSize[k] \in Nat /\ k \in Nat
  <2>1. k \in 1..Len(OutSize)
    <3>1. SendPacket => sent < Len(OutSize)
        BY DEF SendPacket
    <3> QED
        BY <1>1, <1>2, <3>1
  <2> QED
      BY <2>1, Sizes
<1>5. CASE k = sent
  <2>1. /\ sent' = sent + 1 /\ SendPacket
      BY <1>1, <1>2, <1>5
  <2>2. ~writeEvent /\ Idle /\ out' = out
    <3>1. /\ pc["caller"] = "idle" /\ out' = out
          /\ hasty' = IF writeEvent \/ pc["loop"] # "idle" THEN hasty \cup {sent'} ELSE hasty
        BY <2>1 DEF SendPacket, At, shared
    <3>2. ~writeEvent /\ pc["loop"] = "idle"
        BY <1>5, <2>1, <3>1
    <3> QED
        BY <3>1, <3>2 DEF Idle, At, Thread
  <2>3. PICK i \in Nat : InOnePiece(k, i)
      BY <1>3, <1>5, <2>2, Finishes DEF Confined
  <2>4. InOnePiece(k, i)'
      BY <1>2, <1>3, <2>2, <2>3, InOnePieceStays
  <2> QED
      BY <2>4
<1>6. CASE k # sent
  <2>1. k \in 1..(sent - 1) /\ k + 1 \in 1..sent
      BY <1>1, <1>2, <1>6
  <2>2. PICK i \in Nat : InOnePiece(k, i)
      BY <1>3, <2>1 DEF Confined, WereSent
  <2>3. CASE out' = out
    <3>1. InOnePiece(k, i)'
        BY <1>2, <1>3, <2>2, <2>3, InOnePieceStays
    <3> QED
        BY <3>1
  <2>4. ASSUME NEW t \in Thread, Write(t) PROVE \E j \in Nat : InOnePiece(k, j)'
    <3>1. pc[t] = "write"
        BY <2>4, WriteAppends
    <3>2. PICK w \in Nat : /\ Appended(t, w)
                           /\ Offered(local[t]) > 0 => w <= Offered(local[t])
        BY <2>4, WriteAppends
    <3>3. ASSUME NEW j \in 1..w, out'[Len(out) + j][1] = k
          PROVE  Again(k, out'[Len(out) + j][2])
      <4>1. sent \in hasty
        <5> SUFFICES ASSUME sent \notin hasty PROVE FALSE
            OBVIOUS
        <5>1. out'[Len(out) + j] = <<sent, txCounter + j>>
            BY <2>4, <3>2, InTimeAppends
        <5> QED
            BY <1>6, <3>3, <5>1
      <4>2. sent > k + 1 /\ k + 1 \in Nat
          BY <1>1, <1>3, <2>1, <4>1
      <4>3. NoneOlder(k + 1) /\ InPlace
          BY <2>1, <4>2 DEF Confined, Covered
      <4> DEFINE p == local[t].from + j
      <4>4. out'[Len(out) + j] = ByteAt(p)
          BY <3>2 DEF Appended
      <4> HIDE DEF p
      <4>5. p \in 1..TxBufSize /\ out'[Len(out) + j] = txBuffer[p] /\ txBuffer[p] # Memory
        <5>1. ByteAt(p) # Memory
            BY <2>1, <3>3, <4>4 DEF Memory
        <5> QED
            BY <4>4, <5>1 DEF ByteAt
      <4>6. txBuffer[p][2] = p /\ txBuffer[p][1] = k
          BY <3>3, <4>3, <4>5 DEF InPlace
      <4>7. p > OutSize[k + 1]
        <5>1. OutSize[k + 1] \in Nat /\ p \in Nat
          <6>1. k + 1 \in 1..Len(OutSize)
              BY <1>1, <1>3, <2>1
          <6> QED
              BY <4>5, <6>1, Sizes
        <5>2. ~(p <= OutSize[k + 1])
          <6> SUFFICES ASSUME p <= OutSize[k + 1] PROVE FALSE
              OBVIOUS
          <6>1. p \in 1..OutSize[k + 1]
              BY <4>5, <5>1
          <6>2. k >= k + 1
              BY <4>3, <4>6, <6>1 DEF NoneOlder
          <6> QED
              BY <1>3, <6>2
        <5> QED
            BY <5>1, <5>2
      <4> QED
          BY <4>1, <4>2, <4>5, <4>6, <4>7 DEF Again
    <3>5. InOnePiece(k, i)'
        BY <1>1, <1>2, <1>3, <1>4, <2>2, <3>2, <3>3, InOnePieceKeeps DEF Appended
    <3> QED
        BY <3>5
  <2> QED
      BY <2>3, <2>4, NothingAppended
<1> QED
    BY <1>5, <1>6

LEMMA ConfinedNext == IInv /\ Confined /\ [Next]_vars => Confined'
<1> SUFFICES ASSUME IInv, Confined, [Next]_vars PROVE Confined'
    OBVIOUS
<1>1. CASE Next
    BY <1>1, LoadedKeeps, OfFramesGivenKeeps, CoveredKeeps, BeingSentKeeps, WereSentKeeps
       DEF Confined
<1>2. CASE UNCHANGED vars
  <2>1. UNCHANGED <<txBuffer, txSize, txCounter, out, sent, filled, hasty, pc, local, failed>>
      BY <1>2 DEF vars, shared, caller
  <2>2. Loaded' /\ OfFramesGiven'
      BY <2>1 DEF Confined, Loaded, OfFramesGiven
  <2>3. Covered'
      BY <2>1 DEF Confined, Covered, NoneOlder, InPlace
  <2>4. (Setting' <=> Setting) /\ Taken("caller")' = Taken("caller") /\ Taken("loop")' = Taken("loop")
      BY <2>1 DEF Setting, Taken
  <2>5. OnTheLine' = OnTheLine
      BY <2>1, <2>4 DEF OnTheLine
  <2>6. BeingSent'
      BY <2>1, <2>4, <2>5 DEF Confined, BeingSent, EndsWith
  <2>7. WereSent'
      BY <2>1 DEF Confined, WereSent, InOnePiece, Again
  <2> QED
      BY <2>2, <2>3, <2>6, <2>7 DEF Confined
<1> QED
    BY <1>1, <1>2

LEMMA InitConfined == Init => Confined
<1> SUFFICES ASSUME Init PROVE Confined
    OBVIOUS
<1>1. /\ sent = 0 /\ filled = 0 /\ txSize = 0 /\ Len(out) = 0 /\ TxBufSize \in Nat
      /\ \A i \in 1..TxBufSize : txBuffer[i] = Memory
      /\ pc["caller"] = "idle"
    BY Sizes DEF Init, Thread
<1>2. Loaded
    BY <1>1 DEF Loaded
<1>3. OfFramesGiven
    BY <1>1 DEF OfFramesGiven, Memory
<1>4. Covered /\ BeingSent /\ WereSent
    BY <1>1 DEF Covered, InPlace, BeingSent, WereSent
<1> QED
    BY <1>2, <1>3, <1>4 DEF Confined

LEMMA ConfinedGivesDamageIsConfined == IInv /\ Confined => DamageIsConfined
<1> SUFFICES ASSUME IInv, Confined,
                    NEW k \in 1..sent, Finished(k), {k, k + 1} \cap hasty = {}, k \notin failed
             PROVE  WholeAndOnce(k)
    BY DEF DamageIsConfined
<1>1. /\ sent \in Nat /\ Len(OutSize) \in Nat /\ sent <= Len(OutSize)
      /\ out \in Seq(Byte \cup {Memory})
    BY Sizes DEF IInv, TypeOK
<1>2. k \in 1..Len(OutSize) /\ k \in Nat
    BY <1>1
<1>3. OutSize[k] \in Nat /\ OutSize[k] > 0
    BY <1>2, Sizes
<1>4. k \notin hasty /\ k + 1 \notin hasty
    OBVIOUS
<1>5. PICK i \in Nat : InOnePiece(k, i)
  <2>1. CASE k < sent
    <3>1. k \in 1..(sent - 1)
        BY <1>1, <2>1
    <3> QED
        BY <1>4, <3>1 DEF Confined, WereSent
  <2>2. CASE k = sent /\ Idle /\ ~writeEvent
      BY <1>4, <2>2, Finishes DEF Confined
  <2> QED
      BY <2>1, <2>2 DEF Finished
<1> DEFINE z == OutSize[k]
           n == Len(out)
<1>6. /\ n \in Nat /\ i + z <= n /\ z \in Nat /\ z > 0
      /\ \A j \in 1..n : out[j][1] = k =>
            j \in (i + 1)..(i + z) \/ (j > i + z /\ Again(k, out[j][2]))
      /\ \A j \in 1..z : out[i + j] = <<k, j>>
    BY <1>1, <1>3, <1>5 DEF InOnePiece
<1>7. DOMAIN out = 1..n
    BY <1>1
<1> HIDE DEF z, n
<1>8. SubSeq(out, i + 1, i + z) = OutFrame(k)
  <2>1. \A j \in 1..z : i + j \in 1..n
      BY <1>6
  <2>2. SubSeq(out, i + 1, i + z) = [j \in 1..z |-> out[i + j]]
      BY <1>1, <1>6 DEF n
  <2>3. OutFrame(k) = [j \in 1..z |-> <<k, j>>]
      BY DEF OutFrame, z
  <2> QED
      BY <1>6, <2>2, <2>3
<1>9. i \in 0..(Len(out) - z)
  <2>1. i \in 0..(n - z)
      BY <1>6
  <2> QED
      BY <2>1 DEF n
<1>10. \A j \in DOMAIN out : out[j][1] = k =>
          j \in (i + 1)..(i + z) \/ (j > i + z /\ Again(k, out[j][2]))
    BY <1>6, <1>7
<1> QED
    BY <1>8, <1>9, <1>10 DEF WholeAndOnce, z

\* Two writes that meet (emb_rtu_port_event in two threads over one tx_buffer)
\* spoil two frames: one that was not given too early, nor the one after it, goes
\* out whole and in one piece, and only bytes of it that lie behind the next frame
\* may go out again, after a frame given too early.
THEOREM DamageIsConfinedCorrect == Spec => []DamageIsConfined
<1>1. Init => Confined
    BY InitConfined
<1>2. IInv /\ Confined /\ [Next]_vars => Confined'
    BY ConfinedNext
<1>3. IInv /\ Confined => DamageIsConfined
    BY ConfinedGivesDamageIsConfined
<1>4. Spec => []IInv
    BY Invariance
<1> QED
    BY <1>1, <1>2, <1>3, <1>4, PTL DEF Spec

-----------------------------------------------------------------------------
(***************************************************************************)
(* The two threads do what RtuSender does, with each of its handlers in    *)
(* one step, as long as no frame is hasty.  A handler takes effect when it *)
(* returns; until then `view' is the state it started from, and what it    *)
(* has done so far is known from there.                                    *)
(***************************************************************************)
Failing(t) == pc[t] \in {"drop size", "drop counter"}

\* The caller is in send_packet: all was sent before, the beginning of the frame
\* follows on the line, and a write that fails does so before any was taken.
WhileCaller ==
    /\ view.frame + 1 = sent /\ view.counter = view.size /\ view.event = FALSE
    /\ out = view.out \o SubSeq(OutFrame(sent), 1, OnTheLine)
    /\ failed = IF Failing("caller") THEN view.cut \cup {sent} ELSE view.cut
    /\ pc["caller"] \in {"write", "drop size", "drop counter"} => OnTheLine = 0
    /\ pc["caller"] \in {"write", "load", "store", "add"} => txSize = OutSize[sent]
    /\ pc["caller"] \in {"load", "store"} => local["caller"].res > 0
    /\ pc["caller"] = "add" => txCounter > 0

\* The loop is in the handler: the line has come further by what was taken in it.
WhileLoop ==
    /\ view.frame = sent /\ view.event = TRUE /\ writeEvent = TRUE
    /\ out = view.out \o SubSeq(OutFrame(sent), view.counter + 1, OnTheLine)
    /\ failed = IF Failing("loop") THEN view.cut \cup {sent} ELSE view.cut
    /\ pc["loop"] # "drop counter" => view.size = txSize
    /\ Failing("loop") => view.counter < view.size
    /\ pc["loop"] \in {"load", "store"} => local["loop"].res > 0
    /\ IF pc["loop"] = "add" THEN txCounter > view.counter ELSE txCounter = view.counter

ViewKept ==
    hasty = {} =>
        /\ view.out \in Seq(Byte \cup {Memory}) /\ view.size \in Nat
        /\ view.counter \in Nat /\ view.counter <= view.size
        /\ Idle => view = Seen
        /\ pc["caller"] # "idle" => WhileCaller
        /\ pc["loop"] # "idle" => WhileLoop

SenderStep == Sender!Next \/ UNCHANGED Sender!vars

-----------------------------------------------------------------------------
LEMMA NoMore ==
    ASSUME NEW s \in Seq(Byte \cup {Memory}), NEW f \in Seq(Byte \cup {Memory}), NEW c \in Nat
    PROVE  s \o SubSeq(f, c + 1, c) = s
<1>1. SubSeq(f, c + 1, c) = <<>>
    OBVIOUS
<1>2. s \o <<>> = s
    OBVIOUS
<1> QED
    BY <1>1, <1>2

LEMMA FrameType ==
    ASSUME NEW k \in 1..Len(OutSize)
    PROVE  OutFrame(k) \in Seq(Byte \cup {Memory}) /\ Len(OutFrame(k)) = OutSize[k]
<1>1. /\ OutSize[k] \in Nat /\ OutSize[k] \in 1..TxBufSize /\ TxBufSize \in Nat
      /\ Len(OutSize) \in Nat
    BY Sizes
<1>2. ASSUME NEW i \in 1..OutSize[k] PROVE <<k, i>> \in Byte \cup {Memory}
  <2>1. i \in 1..TxBufSize
      BY <1>1
  <2> QED
      BY <2>1 DEF Byte
<1>3. OutFrame(k) \in [1..OutSize[k] -> Byte \cup {Memory}]
    BY <1>2 DEF OutFrame
<1> QED
    BY <1>1, <1>3

\* A frame that is not hasty goes out of tx_buffer as it is.
LEMMA WriteTakesFrame ==
    ASSUME IInv, NEW t \in Thread, Write(t), sent \notin hasty
    PROVE  \E w \in Nat : /\ w > 0 /\ txCounter + w <= txSize
                          /\ local'[t].res = w
                          /\ out' = out \o SubSeq(OutFrame(sent), txCounter + 1, txCounter + w)
<1> DEFINE l == local[t]
<1>1. /\ pc[t] = "write" /\ local \in [Thread -> Local] /\ sent \in 1..Len(OutSize)
      /\ txCounter \in Nat /\ txSize \in Nat
    BY TakenType, Sizes DEF IInv, TypeOK, Base, Write, At
<1>2. Settled /\ Loaded /\ ~Setting
    BY <1>1, Turn DEF Handler
<1>3. /\ l.size = txSize /\ l.from = txCounter /\ l.less = txCounter
      /\ txCounter < txSize /\ txSize = OutSize[sent]
  <2>1. /\ l.size = txSize /\ l.from = txCounter /\ l.less = txCounter /\ txCounter < txSize
        /\ txSize = 0 \/ txSize = OutSize[sent]
      BY <1>1, <1>2 DEF Settled, Knows
  <2> QED
      BY <1>1, <2>1
<1>4. Offered(l) = txSize - txCounter /\ Offered(l) > 0
    BY <1>1, <1>3 DEF Offered
<1>5. PICK w \in 1..MaxOut :
            /\ Offered(l) > 0 => w <= Offered(l)
            /\ out' = out \o [i \in 1..w |-> ByteAt(l.from + i)]
            /\ local' = [local EXCEPT ![t].res = w]
    BY DEF Write
<1>6. w \in Nat /\ w > 0 /\ txCounter + w <= txSize
    BY <1>1, <1>4, <1>5, Sizes
<1>7. local'[t].res = w
  <2>1. l \in Local /\ local'[t] = [l EXCEPT !.res = w]
      BY <1>1, <1>5
  <2> QED
      BY <2>1 DEF Local
<1>8. ASSUME NEW i \in 1..w PROVE ByteAt(txCounter + i) = OutFrame(sent)[txCounter + i]
  <2>1. txCounter + i \in 1..OutSize[sent] /\ txCounter + i \in 1..TxBufSize
      BY <1>1, <1>3, <1>6, Sizes
  <2>2. txBuffer[txCounter + i] = <<sent, txCounter + i>>
      BY <1>1, <1>2, <2>1, Sizes DEF Loaded, Setting
  <2> QED
      BY <2>1, <2>2 DEF OutFrame, ByteAt
<1>9. SubSeq(OutFrame(sent), txCounter + 1, txCounter + w) = [i \in 1..w |-> ByteAt(txCounter + i)]
  <2> DEFINE f == OutFrame(sent)
             c == txCounter
  <2>1. f \in Seq(Byte \cup {Memory}) /\ c \in Nat /\ w \in Nat /\ c + w <= Len(f)
      BY <1>1, <1>3, <1>6, FrameType
  <2> HIDE DEF f, c
  <2>2. SubSeq(f, c + 1, c + w) = [i \in 1..w |-> f[c + i]]
      BY <2>1
  <2>3. \A i \in 1..w : ByteAt(c + i) = f[c + i]
      BY <1>8 DEF f, c
  <2>4. SubSeq(f, c + 1, c + w) = [i \in 1..w |-> ByteAt(c + i)]
      BY <2>2, <2>3
  <2> QED
      BY <2>4 DEF f, c
<1> QED
    BY <1>3, <1>5, <1>6, <1>7, <1>9

LEMMA NoSenderStep ==
    ASSUME view' = view, At("loop", "del")' <=> At("loop", "del")
    PROVE  SenderStep
<1>1. UNCHANGED <<view.frame, view.size, view.counter, view.event, view.out, view.cut>>
    OBVIOUS
<1>2. At("loop", "del")' = At("loop", "del")
    BY DEF At
<1>3. UNCHANGED Sender!vars
    BY <1>1, <1>2 DEF Sender!vars
<1> QED
    BY <1>3 DEF SenderStep

\* What a thread finds when it returns.
LEMMA Returned ==
    ASSUME NEW t \in Thread, IInv, Return(t), hasty' = {}, hasty = {}, pc[t] \in Handler,
           sent' = sent, out' \in Seq(Byte \cup {Memory}), txSize' \in Nat, txCounter' \in Nat,
           txCounter' <= txSize'
    PROVE  /\ view' = Seen' /\ ViewKept'
           /\ view'.frame = sent /\ view'.size = txSize' /\ view'.counter = txCounter'
           /\ view'.event = writeEvent' /\ view'.out = out' /\ view'.cut = failed'
           /\ ~At("loop", "del")'
<1>1. view' = Seen'
    BY DEF Return
<1>2. /\ view'.frame = sent /\ view'.size = txSize' /\ view'.counter = txCounter'
      /\ view'.event = writeEvent' /\ view'.out = out' /\ view'.cut = failed'
    BY <1>1 DEF Seen
<1>3. pc \in [Thread -> Place] /\ sent \notin hasty
    BY DEF IInv, TypeOK
<1>4. \A u \in Thread : u # t => pc[u] = "idle"
    BY <1>3, Turn
<1>5. \A u \in Thread : pc'[u] = "idle"
    BY <1>3, <1>4 DEF Return
<1>6. ViewKept'
    BY <1>1, <1>2, <1>5 DEF ViewKept, Thread
<1>7. ~At("loop", "del")'
    BY <1>5 DEF At, Thread
<1> QED
    BY <1>1, <1>2, <1>6, <1>7

-----------------------------------------------------------------------------
LEMMA SendPacketSimulates ==
    ASSUME IInv, ViewKept, SendPacket, hasty' = {}
    PROVE  ViewKept' /\ SenderStep
<1>1. /\ TypeOK /\ pc \in [Thread -> Place] /\ sent \in Nat /\ sent < Len(OutSize) /\ Len(OutSize) \in Nat
      /\ out \in Seq(Byte \cup {Memory})
      /\ pc["caller"] = "idle" /\ sent' = sent + 1 /\ pc' = [pc EXCEPT !["caller"] = "fill"]
      /\ hasty' = IF writeEvent \/ pc["loop"] # "idle" THEN hasty \cup {sent'} ELSE hasty
      /\ UNCHANGED <<txSize, txCounter, writeEvent, out, local, failed, view>>
    BY Sizes DEF IInv, TypeOK, SendPacket, Goto, At, shared
<1>2. hasty = {} /\ ~writeEvent /\ pc["loop"] = "idle"
    BY <1>1
<1>3. pc'["caller"] = "fill" /\ pc'["loop"] = "idle"
    BY <1>1, <1>2 DEF Thread
<1>4. Idle /\ ~Setting /\ sent \notin hasty
    BY <1>1, <1>2 DEF Idle, At, Thread, Setting
<1>5. txCounter = txSize
    BY <1>2, <1>4 DEF IInv, TakingTurns, Settled
<1>6. view = Seen
    BY <1>2, <1>4 DEF ViewKept
<1>7. /\ view.frame = sent /\ view.counter = view.size /\ view.event = FALSE
      /\ view.out = out /\ view.cut = failed
  <2>1. writeEvent = FALSE
      BY <1>1, <1>2 DEF TypeOK
  <2> QED
      BY <1>5, <1>6, <2>1 DEF Seen
<1>8. WhileCaller'
  <2>1. OnTheLine' = 0
      BY <1>3 DEF OnTheLine, Setting
  <2>2. out = out \o SubSeq(OutFrame(sent'), 1, 0)
    <3>1. sent' \in 1..Len(OutSize)
        BY <1>1
    <3>2. \A f \in Seq(Byte \cup {Memory}) : out \o SubSeq(f, 0 + 1, 0) = out
        BY <1>1, NoMore
    <3>3. OutFrame(sent') \in Seq(Byte \cup {Memory})
        BY <3>1, FrameType
    <3> QED
        BY <3>2, <3>3
  <2>3. ~Failing("caller")'
      BY <1>3 DEF Failing
  <2> QED
      BY <1>1, <1>3, <1>7, <2>1, <2>2, <2>3 DEF WhileCaller
<1>9. ViewKept'
    BY <1>1, <1>2, <1>3, <1>8 DEF ViewKept, Idle, At, Thread
<1>10. At("loop", "del")' <=> At("loop", "del")
    BY <1>2, <1>3 DEF At
<1> QED
    BY <1>1, <1>9, <1>10, NoSenderStep

\* The caller before the handler.
LEMMA CallerSimulates ==
    ASSUME IInv, ViewKept, Fill \/ SetSize \/ ResetCounter, hasty' = {}
    PROVE  ViewKept' /\ SenderStep
<1>1. /\ TypeOK /\ pc \in [Thread -> Place]
      /\ pc["caller"] \in {"fill", "size", "reset"} /\ pc'["caller"] \in {"fill", "size", "reset", "args"}
      /\ pc'["loop"] = pc["loop"]
      /\ pc'["caller"] = "args" => txCounter' = 0
      /\ UNCHANGED <<writeEvent, out, sent, hasty, local, failed, view>>
    BY DEF IInv, TypeOK, Fill, SetSize, ResetCounter, Goto, At, Thread, caller
<1>2. hasty = {} /\ sent \notin hasty
    BY <1>1
<1>3. pc["loop"] = "idle"
    BY <1>1, <1>2 DEF IInv, TakingTurns, Alone
<1>4. OnTheLine = 0 /\ OnTheLine' = 0
  <2>1. OnTheLine = 0
      BY <1>1 DEF OnTheLine, Setting
  <2>2. Taken("caller")' = 0 /\ Taken("loop")' = 0
      BY <1>1, <1>3 DEF Taken
  <2> QED
      BY <1>1, <2>1, <2>2 DEF OnTheLine, Setting
<1>5. WhileCaller'
  <2>1. WhileCaller
      BY <1>1, <1>2 DEF ViewKept
  <2>2. ~Failing("caller") /\ ~Failing("caller")'
      BY <1>1 DEF Failing
  <2> QED
      BY <1>1, <1>4, <2>1, <2>2 DEF WhileCaller
<1>6. ViewKept'
    BY <1>1, <1>2, <1>3, <1>5 DEF ViewKept, Idle, At, Thread
<1>7. At("loop", "del")' <=> At("loop", "del")
    BY <1>1 DEF At
<1> QED
    BY <1>1, <1>6, <1>7, NoSenderStep

LEMMA OnWriteEventSimulates ==
    ASSUME IInv, ViewKept, OnWriteEvent, hasty' = {}
    PROVE  ViewKept' /\ SenderStep
<1>1. /\ TypeOK /\ Base /\ pc \in [Thread -> Place] /\ sent \in Nat /\ sent \in 0..Len(OutSize) /\ Len(OutSize) \in Nat
      /\ out \in Seq(Byte \cup {Memory}) /\ txCounter \in Nat
      /\ pc["loop"] = "idle" /\ writeEvent = TRUE /\ pc' = [pc EXCEPT !["loop"] = "args"]
      /\ UNCHANGED <<txSize, txCounter, writeEvent, out, sent, hasty, local, failed, view>>
    BY Sizes, TakenType DEF IInv, TypeOK, OnWriteEvent, Goto, At, shared, caller
<1>2. hasty = {} /\ sent \notin hasty
    BY <1>1
<1>3. pc["caller"] = "idle"
    BY <1>1, <1>2 DEF IInv, TakingTurns, Alone
<1>4. pc'["caller"] = "idle" /\ pc'["loop"] = "args"
    BY <1>1, <1>3 DEF Thread
<1>5. view = Seen
    BY <1>1, <1>2, <1>3 DEF ViewKept, Idle, At, Thread
<1>6. /\ view.frame = sent /\ view.counter = txCounter /\ view.size = txSize /\ view.event = TRUE
      /\ view.out = out /\ view.cut = failed
    BY <1>1, <1>5 DEF Seen
<1>7. WhileLoop'
  <2>1. Taken("caller")' = 0 /\ Taken("loop")' = 0
      BY <1>4 DEF Taken
  <2>2. OnTheLine' = txCounter
      BY <1>1, <1>4, <2>1 DEF OnTheLine, Setting
  <2>3. out = out \o SubSeq(OutFrame(sent), txCounter + 1, txCounter)
    <3>1. sent \in 1..Len(OutSize)
        BY <1>1 DEF Base
    <3> QED
        BY <1>1, <3>1, FrameType, NoMore
  <2>4. ~Failing("loop")'
      BY <1>4 DEF Failing
  <2> QED
      BY <1>1, <1>4, <1>6, <2>2, <2>3, <2>4 DEF WhileLoop
<1>8. ViewKept'
    BY <1>1, <1>2, <1>4, <1>7 DEF ViewKept, Idle, At, Thread
<1>9. At("loop", "del")' <=> At("loop", "del")
    BY <1>1, <1>4 DEF At
<1> QED
    BY <1>1, <1>8, <1>9, NoSenderStep

-----------------------------------------------------------------------------
\* What is known when a thread makes a step of the handler.
LEMMA InHandler ==
    ASSUME IInv, ViewKept, NEW t \in Thread, pc[t] \in Handler, hasty = {}
    PROVE  /\ sent \notin hasty /\ sent \in 1..Len(OutSize) /\ OutSize[sent] \in Nat
           /\ txCounter \in Nat /\ txSize \in Nat /\ local[t].res \in Nat
           /\ out \in Seq(Byte \cup {Memory})
           /\ Settled /\ ~Setting /\ Knows(t) /\ \A u \in Thread : u # t => pc[u] = "idle"
           /\ OnTheLine = txCounter + Taken(t)
           /\ view.out \in Seq(Byte \cup {Memory}) /\ view.size \in Nat
           /\ view.counter \in Nat /\ view.counter <= view.size
           /\ t = "caller" => WhileCaller /\ writeEvent = FALSE
           /\ t = "loop" => WhileLoop
<1>1. /\ sent \notin hasty /\ sent \in 1..Len(OutSize) /\ OutSize[sent] \in Nat
      /\ txCounter \in Nat /\ txSize \in Nat /\ local[t].res \in Nat
      /\ out \in Seq(Byte \cup {Memory}) /\ writeEvent \in BOOLEAN
  <2>1. sent # 0 /\ sent \in 0..Len(OutSize) /\ Len(OutSize) \in Nat
      BY Sizes DEF IInv, TypeOK, Base, Handler
  <2>2. sent \in 1..Len(OutSize)
      BY <2>1
  <2> QED
      BY <2>2, Sizes, TakenType DEF IInv, TypeOK
<1>2. /\ Settled /\ ~Setting /\ (t = "caller" => ~writeEvent)
      /\ \A u \in Thread : u # t => pc[u] = "idle"
    BY <1>1, Turn
<1>3. Knows(t)
    BY <1>2 DEF Settled
<1>4. OnTheLine = txCounter + Taken(t)
    BY <1>1, OnTheLineIs
<1>5. pc[t] # "idle"
    BY DEF Handler
<1> QED
    BY <1>1, <1>2, <1>3, <1>4, <1>5 DEF ViewKept

LEMMA StillInHandler ==
    ASSUME IInv, ViewKept, NEW t \in Thread, HandlerStep(t), hasty = {}, view' = view, pc'[t] \in Handler,
           t = "caller" => WhileCaller', t = "loop" => WhileLoop'
    PROVE  ViewKept'
<1>1. pc \in [Thread -> Place] /\ \A u \in Thread : u # t => pc[u] = "idle"
    BY InHandler DEF HandlerStep, IInv, TypeOK
<1>2. \A u \in Thread : u # t => pc'[u] = "idle"
    BY <1>1 DEF HandlerStep
<1>3. ~Idle'
    BY DEF Idle, At, Handler
<1> QED
    BY <1>2, <1>3 DEF ViewKept, HandlerStep, Thread

\* The line is where the handler began if nothing was taken.
LEMMA LineBefore ==
    ASSUME IInv, ViewKept, NEW t \in Thread, pc[t] \in Handler, hasty = {}, Taken(t) = 0,
           t = "caller" => txCounter = 0, pc[t] # "add"
    PROVE  out = view.out
<1>1. /\ sent \in 1..Len(OutSize) /\ view.out \in Seq(Byte \cup {Memory})
      /\ OnTheLine = txCounter + 0 /\ txCounter \in Nat
    BY InHandler
<1>2. OnTheLine = txCounter
    BY <1>1
<1>3. /\ OutFrame(sent) \in Seq(Byte \cup {Memory})
      /\ \A f \in Seq(Byte \cup {Memory}), c \in Nat : view.out \o SubSeq(f, c + 1, c) = view.out
      /\ \A f \in Seq(Byte \cup {Memory}) : view.out \o SubSeq(f, 0 + 1, 0) = view.out
    BY <1>1, FrameType, NoMore
<1>4. CASE t = "caller"
  <2>1. out = view.out \o SubSeq(OutFrame(sent), 1, OnTheLine)
      BY <1>4, InHandler DEF WhileCaller
  <2>2. out = view.out \o SubSeq(OutFrame(sent), 0 + 1, 0)
      BY <1>2, <1>4, <2>1
  <2> QED
      BY <1>3, <2>2
<1>5. CASE t = "loop"
  <2>1. out = view.out \o SubSeq(OutFrame(sent), view.counter + 1, OnTheLine) /\ view.counter = txCounter
      BY <1>5, InHandler DEF WhileLoop
  <2> QED
      BY <1>1, <1>2, <1>3, <2>1
<1> QED
    BY <1>4, <1>5 DEF Thread

LEMMA ReadArgsSimulates ==
    ASSUME IInv, ViewKept, NEW t \in Thread, ReadArgs(t), hasty' = {}
    PROVE  ViewKept' /\ SenderStep
<1>1. /\ pc[t] = "args" /\ pc'[t] \in {"args", "write", "del"}
      /\ UNCHANGED <<txSize, txCounter, writeEvent, out, sent, hasty, failed, view>>
    BY DEF IInv, TypeOK, ReadArgs, Goto, At, shared, caller
<1>2. HandlerStep(t) /\ pc[t] \in Handler /\ pc'[t] \in Handler
    BY <1>1, PortStep DEF PortEvent, Handler
<1>3. hasty = {} /\ sent \notin hasty /\ IInv' /\ txCounter \in Nat /\ sent' \notin hasty'
    BY <1>1, <1>2, InHandler, NextIInv DEF Next, PortEvent
<1>4. Taken(t) = 0 /\ Taken(t)' = 0
    BY <1>1 DEF Taken
<1>5. OnTheLine = txCounter /\ OnTheLine' = txCounter
  <2>1. OnTheLine = txCounter + 0
      BY <1>2, <1>3, <1>4, InHandler
  <2>2. OnTheLine' = txCounter + 0
      BY <1>1, <1>3, <1>4, OnTheLineAfter DEF PortEvent
  <2> QED
      BY <1>3, <2>1, <2>2
<1>6. ~Failing(t) /\ ~Failing(t)'
    BY <1>1 DEF Failing
<1>7. pc'[t] = "del" => t = "loop" /\ txCounter = txSize
  <2>1. SUFFICES ASSUME pc'[t] = "del" PROVE t = "loop" /\ txCounter = txSize
      OBVIOUS
  <2>2. PICK l \in Loads(local[t]) :
              Ready(l) /\ Offered(l) = 0
      BY <2>1 DEF ReadArgs, Goto, IInv, TypeOK
  <2>3. Knows(t) /\ local[t] \in Local /\ txSize \in Nat
      BY <1>2, <1>3, InHandler DEF IInv, TypeOK
  <2>4. l.size \in {Unread, txSize} /\ l.less \in {Unread, txCounter}
      BY <1>1, <2>2, <2>3 DEF Knows, Local, Loads
  <2>5. txCounter = txSize
      BY <1>3, <2>2, <2>3, <2>4 DEF Ready, Offered
  <2>6. t = "caller" => txSize = OutSize[sent] /\ txCounter = 0
      BY <1>1, <1>3 DEF IInv, TakingTurns, Alone
  <2>7. OutSize[sent] # 0
    <3>1. sent \in 1..Len(OutSize)
        BY <1>2, <1>3, InHandler
    <3> QED
        BY <3>1, Sizes
  <2> QED
      BY <2>5, <2>6, <2>7 DEF Thread
<1>8. ViewKept'
  <2>1. ASSUME t = "caller" PROVE WhileCaller'
    <3>1. WhileCaller /\ txSize = OutSize[sent] /\ txCounter = 0
        BY <1>1, <1>2, <1>3, <2>1, InHandler DEF IInv, TakingTurns, Alone
    <3> QED
        BY <1>1, <1>5, <1>6, <1>7, <2>1, <3>1 DEF WhileCaller
  <2>2. ASSUME t = "loop" PROVE WhileLoop'
    <3>1. WhileLoop
        BY <1>2, <1>3, <2>2, InHandler
    <3> QED
        BY <1>1, <1>5, <1>6, <2>2, <3>1 DEF WhileLoop
  <2> QED
      BY <1>1, <1>2, <1>3, <2>1, <2>2, StillInHandler
<1>9. SenderStep
  <2>1. CASE pc'[t] = "del"
    <3>1. /\ view.event = TRUE /\ view.counter = txCounter /\ view.size = txSize /\ t = "loop"
        BY <1>1, <1>2, <1>3, <1>7, <2>1, InHandler DEF WhileLoop
    <3>2. ~(view.counter < view.size)
        BY <1>3, <1>7, <2>1, <3>1
    <3>3. At("loop", "del")' = TRUE /\ At("loop", "del") = FALSE
        BY <1>1, <2>1, <3>1 DEF At
    <3>4. Sender!WriteDone
        BY <1>1, <3>1, <3>2, <3>3 DEF Sender!WriteDone, Sender!OnWriteEvent, Sender!TxPending
    <3> QED
        BY <3>4 DEF SenderStep, Sender!Next, Sender!WriteEvent
  <2>2. CASE pc'[t] # "del"
    <3>1. At("loop", "del")' <=> At("loop", "del")
      <4>1. CASE t = "loop"
          BY <1>1, <2>2, <4>1 DEF At
      <4>2. CASE t = "caller"
          BY <1>2, <4>2 DEF At, HandlerStep, IInv, TypeOK, Thread
      <4> QED
          BY <4>1, <4>2 DEF Thread
    <3> QED
        BY <1>1, <3>1, NoSenderStep
  <2> QED
      BY <2>1, <2>2
<1> QED
    BY <1>8, <1>9

LEMMA DeleteSimulates ==
    ASSUME IInv, ViewKept, NEW t \in Thread, Delete(t), hasty' = {}
    PROVE  ViewKept' /\ SenderStep
<1>1. /\ pc[t] = "del" /\ writeEvent' = FALSE /\ Return(t)
      /\ UNCHANGED <<txSize, txCounter, out, sent, hasty, failed>>
    BY DEF Delete, At, caller
<1>2. pc[t] \in Handler /\ hasty = {}
    BY <1>1 DEF Handler
<1>3. /\ t = "loop" /\ txCounter = txSize /\ txCounter \in Nat /\ txSize \in Nat
      /\ out \in Seq(Byte \cup {Memory}) /\ WhileLoop
    BY <1>1, <1>2, InHandler DEF Knows
<1>4. txCounter <= txSize
    BY <1>3
<1>5. /\ ViewKept' /\ ~At("loop", "del")'
      /\ view'.frame = sent /\ view'.size = txSize /\ view'.counter = txCounter
      /\ view'.event = FALSE /\ view'.out = out /\ view'.cut = failed
    BY <1>1, <1>2, <1>3, <1>4, Returned
<1>6. /\ view.frame = sent /\ view.size = txSize /\ view.counter = txCounter
      /\ view.cut = failed /\ view.out = out
  <2>1. Taken(t) = 0 /\ ~Failing("loop")
      BY <1>1, <1>3 DEF Taken, Failing
  <2>2. view.out = out
      BY <1>1, <1>2, <1>3, <2>1, LineBefore
  <2> QED
      BY <1>1, <1>3, <2>1, <2>2 DEF WhileLoop
<1>7. ~(view.counter < view.size)
    BY <1>3, <1>6
<1>8. At("loop", "del") = TRUE /\ At("loop", "del")' = FALSE
    BY <1>1, <1>3, <1>5 DEF At
<1>9. Sender!StopEvent
    BY <1>5, <1>6, <1>7, <1>8 DEF Sender!StopEvent, Sender!TxPending
<1> QED
    BY <1>5, <1>9 DEF SenderStep, Sender!Next, Sender!WriteEvent

LEMMA DeleteElsewhere ==
    ASSUME IInv, NEW t \in Thread, HandlerStep(t), pc[t] # "del", pc'[t] # "del"
    PROVE  At("loop", "del")' <=> At("loop", "del")
<1>1. pc \in [Thread -> Place] /\ pc' = [pc EXCEPT ![t] = pc'[t]]
    BY DEF IInv, TypeOK, HandlerStep
<1>2. CASE t = "loop"
    BY <1>2 DEF At
<1>3. CASE t = "caller"
    BY <1>1, <1>3 DEF At, Thread
<1> QED
    BY <1>2, <1>3 DEF Thread

LEMMA WriteSimulates ==
    ASSUME IInv, ViewKept, NEW t \in Thread, Write(t), hasty' = {}
    PROVE  ViewKept' /\ SenderStep
<1>1. /\ pc[t] = "write" /\ pc'[t] = "load"
      /\ UNCHANGED <<txSize, txCounter, writeEvent, sent, hasty, failed, view>>
    BY DEF IInv, TypeOK, Write, Goto, At, caller
<1>2. /\ HandlerStep(t) /\ pc[t] \in Handler /\ pc'[t] \in Handler
      /\ hasty = {} /\ sent \notin hasty
    BY <1>1, PortStep DEF PortEvent, Handler
<1>3. PICK w \in Nat : /\ w > 0 /\ txCounter + w <= txSize
                       /\ local'[t].res = w
                       /\ out' = out \o SubSeq(OutFrame(sent), txCounter + 1, txCounter + w)
    BY <1>2, WriteTakesFrame
<1>4. Taken(t) = 0 /\ Taken(t)' = w /\ ~Failing(t) /\ ~Failing(t)'
    BY <1>1, <1>3 DEF Taken, Failing
<1>5. txCounter \in Nat /\ txSize \in Nat /\ OnTheLine = txCounter + 0
    BY <1>2, <1>4, InHandler
<1>6. OnTheLine' = txCounter + w
  <2>1. Taken(t)' \in Nat /\ txCounter' \in Nat
      BY <1>1, <1>4, <1>5
  <2>2. OnTheLine' = txCounter' + Taken(t)'
      BY <1>2, <2>1, OnTheLineAfter DEF PortEvent
  <2> QED
      BY <1>1, <1>4, <2>2
<1>7. t = "caller" => txCounter = 0
  <2>1. OnTheLine = txCounter
      BY <1>5
  <2>2. t = "caller" => OnTheLine = 0
      BY <1>1, <1>2, InHandler DEF WhileCaller
  <2> QED
      BY <2>1, <2>2
<1>8. out = view.out
    BY <1>1, <1>2, <1>4, <1>7, LineBefore
<1>9. ASSUME t = "caller" PROVE WhileCaller'
  <2>1. WhileCaller
      BY <1>2, <1>9, InHandler
  <2>2. out' = view.out \o SubSeq(OutFrame(sent), 1, OnTheLine')
    <3>1. OnTheLine' = w /\ txCounter + 1 = 1 /\ txCounter + w = w
        BY <1>6, <1>7, <1>9
    <3> QED
        BY <1>3, <1>8, <3>1
  <2> QED
      BY <1>1, <1>3, <1>4, <1>9, <2>1, <2>2 DEF WhileCaller
<1>10. ASSUME t = "loop" PROVE WhileLoop'
  <2>1. WhileLoop /\ view.counter = txCounter
      BY <1>1, <1>2, <1>10, InHandler DEF WhileLoop
  <2>2. out' = view.out \o SubSeq(OutFrame(sent), view.counter + 1, OnTheLine')
      BY <1>3, <1>6, <1>8, <2>1
  <2> QED
      BY <1>1, <1>3, <1>4, <1>10, <2>1, <2>2 DEF WhileLoop
<1>11. ViewKept'
    BY <1>1, <1>2, <1>9, <1>10, StillInHandler
<1>12. At("loop", "del")' <=> At("loop", "del")
    BY <1>1, <1>2, DeleteElsewhere
<1> QED
    BY <1>1, <1>11, <1>12, NoSenderStep

LEMMA LoadCounterSimulates ==
    ASSUME IInv, ViewKept, NEW t \in Thread, LoadCounter(t), hasty' = {}
    PROVE  ViewKept' /\ SenderStep
<1>1. /\ pc[t] = "load" /\ pc'[t] = "store"
      /\ local'[t] = [Fresh EXCEPT !.res = local[t].res, !.count = txCounter]
      /\ UNCHANGED <<txSize, txCounter, writeEvent, out, sent, hasty, failed, view>>
    BY DEF IInv, TypeOK, LoadCounter, Goto, At, shared, caller
<1>2. /\ HandlerStep(t) /\ pc[t] \in Handler /\ pc'[t] \in Handler
      /\ hasty = {} /\ sent \notin hasty
    BY <1>1, PortStep DEF PortEvent, Handler
<1>3. local'[t].res = local[t].res
    BY <1>1 DEF Fresh
<1>4. Taken(t) = local[t].res /\ Taken(t)' = local[t].res /\ ~Failing(t) /\ ~Failing(t)'
    BY <1>1, <1>3 DEF Taken, Failing
<1>5. txCounter \in Nat /\ local[t].res \in Nat /\ OnTheLine = txCounter + local[t].res
    BY <1>2, <1>4, InHandler
<1>6. OnTheLine' = OnTheLine
    BY <1>1, <1>2, <1>4, <1>5, OnTheLineAfter DEF PortEvent
<1>7. ASSUME t = "caller" PROVE WhileCaller'
  <2>1. WhileCaller
      BY <1>2, <1>7, InHandler
  <2> QED
      BY <1>1, <1>3, <1>4, <1>6, <1>7, <2>1 DEF WhileCaller
<1>8. ASSUME t = "loop" PROVE WhileLoop'
  <2>1. WhileLoop
      BY <1>2, <1>8, InHandler
  <2> QED
      BY <1>1, <1>3, <1>4, <1>6, <1>8, <2>1 DEF WhileLoop
<1>9. ViewKept'
    BY <1>1, <1>2, <1>7, <1>8, StillInHandler
<1>10. At("loop", "del")' <=> At("loop", "del")
    BY <1>1, <1>2, DeleteElsewhere
<1> QED
    BY <1>1, <1>9, <1>10, NoSenderStep

LEMMA StoreCounterSimulates ==
    ASSUME IInv, ViewKept, NEW t \in Thread, StoreCounter(t), hasty' = {}
    PROVE  ViewKept' /\ SenderStep
<1>1. /\ pc[t] = "store" /\ pc'[t] = "add"
      /\ txCounter' = local[t].count + local[t].res
      /\ UNCHANGED <<txSize, writeEvent, out, sent, hasty, failed, local, view>>
    BY DEF IInv, TypeOK, StoreCounter, Goto, At, caller
<1>2. /\ HandlerStep(t) /\ pc[t] \in Handler /\ pc'[t] \in Handler
      /\ hasty = {} /\ sent \notin hasty
    BY <1>1, PortStep DEF PortEvent, Handler
<1>3. Taken(t) = local[t].res /\ Taken(t)' = 0 /\ ~Failing(t) /\ ~Failing(t)'
    BY <1>1 DEF Taken, Failing
<1>4. /\ txCounter \in Nat /\ local[t].res \in Nat /\ OnTheLine = txCounter + local[t].res
      /\ local[t].count = txCounter
    BY <1>1, <1>2, <1>3, InHandler DEF Knows
<1>5. local[t].res > 0
    BY <1>1, <1>2, InHandler DEF WhileCaller, WhileLoop, Thread
<1>6. txCounter' = txCounter + local[t].res /\ txCounter' \in Nat /\ txCounter' > txCounter /\ txCounter' > 0
    BY <1>1, <1>4, <1>5
<1>7. OnTheLine' = OnTheLine
  <2>1. OnTheLine' = txCounter' + 0
      BY <1>2, <1>3, <1>6, OnTheLineAfter DEF PortEvent
  <2> QED
      BY <1>4, <1>6, <2>1
<1>8. ASSUME t = "caller" PROVE WhileCaller'
  <2>1. WhileCaller
      BY <1>2, <1>8, InHandler
  <2> QED
      BY <1>1, <1>3, <1>6, <1>7, <1>8, <2>1 DEF WhileCaller
<1>9. ASSUME t = "loop" PROVE WhileLoop'
  <2>1. WhileLoop
      BY <1>2, <1>9, InHandler
  <2>2. txCounter' > view.counter
      BY <1>1, <1>6, <1>9, <2>1 DEF WhileLoop
  <2> QED
      BY <1>1, <1>3, <1>7, <1>9, <2>1, <2>2 DEF WhileLoop
<1>10. ViewKept'
    BY <1>1, <1>2, <1>8, <1>9, StillInHandler
<1>11. At("loop", "del")' <=> At("loop", "del")
    BY <1>1, <1>2, DeleteElsewhere
<1> QED
    BY <1>1, <1>10, <1>11, NoSenderStep

\* The handler returns with what was taken: a frame was given, or more of it sent.
LEMMA AddEventSimulates ==
    ASSUME IInv, ViewKept, NEW t \in Thread, AddEvent(t), hasty' = {}
    PROVE  ViewKept' /\ SenderStep
<1>1. /\ pc[t] = "add" /\ writeEvent' = TRUE /\ Return(t)
      /\ UNCHANGED <<txSize, txCounter, out, sent, hasty, failed>>
    BY DEF AddEvent, At, caller
<1>2. pc[t] \in Handler /\ hasty = {}
    BY <1>1 DEF Handler
<1>3. /\ txCounter \in Nat /\ txSize \in Nat /\ out \in Seq(Byte \cup {Memory})
      /\ sent \in 1..Len(OutSize) /\ OutSize[sent] \in 1..TxBufSize /\ TxBufSize \in Nat
      /\ view.counter \in Nat
    BY <1>2, InHandler, Sizes
<1>4. txCounter <= txSize
    BY <1>1, <1>2, InHandler DEF Settled, Thread
<1>5. Taken(t) = 0 /\ ~Failing(t)
    BY <1>1 DEF Taken, Failing
<1>6. OnTheLine = txCounter
  <2>1. OnTheLine = txCounter + 0
      BY <1>2, <1>5, InHandler
  <2> QED
      BY <1>3, <2>1
<1>7. /\ ViewKept' /\ ~At("loop", "del")'
      /\ view'.frame = sent /\ view'.size = txSize /\ view'.counter = txCounter
      /\ view'.event = TRUE /\ view'.out = out /\ view'.cut = failed
    BY <1>1, <1>2, <1>3, <1>4, Returned
<1>8. ~At("loop", "del")
  <2>1. pc["loop"] = "idle" \/ t = "loop"
      BY <1>2, InHandler DEF Thread
  <2> QED
      BY <1>1, <2>1 DEF At
<1>9. At("loop", "del")' = At("loop", "del")
    BY <1>7, <1>8 DEF At
<1>10. CASE t = "caller"
  <2>1. WhileCaller
      BY <1>2, <1>10, InHandler
  <2>2. /\ view.frame + 1 = sent /\ view.counter = view.size /\ view.cut = failed
        /\ out = view.out \o SubSeq(OutFrame(sent), 1, txCounter)
        /\ txSize = OutSize[sent] /\ txCounter > 0
      BY <1>1, <1>5, <1>6, <1>10, <2>1 DEF WhileCaller
  <2>3. Sender!Overwritten = {}
      BY <1>3, <2>2 DEF Sender!Overwritten, Sender!TxPending
  <2>4. Sender!Fits(sent)
      BY <1>3, <2>2 DEF Sender!Fits
  <2>5. Sender!LoadFrame(sent)
    <3>1. txCounter \in 1..OutSize[sent]
        BY <1>3, <1>4, <2>2
    <3>2. 0 + 1 = 1 /\ 0 + txCounter = txCounter
        BY <1>3
    <3>3. Sender!OutFrame(sent) = OutFrame(sent)
        BY DEF Sender!OutFrame, OutFrame
    <3>4. Sender!PortTakes(sent, 0, txCounter)
        BY <1>7, <2>2, <3>2, <3>3 DEF Sender!PortTakes
    <3>5. view'.cut = view.cut \cup Sender!Overwritten
        BY <1>7, <2>2, <2>3
    <3> QED
        BY <1>7, <2>2, <3>1, <3>4, <3>5 DEF Sender!LoadFrame
  <2>6. Sender!SendPacket(sent)
      BY <1>7, <1>9, <2>4, <2>5 DEF Sender!SendPacket
  <2> QED
      BY <1>3, <1>7, <2>6 DEF SenderStep, Sender!Next
<1>11. CASE t = "loop"
  <2>1. /\ WhileLoop /\ view.size = txSize /\ txCounter > view.counter
        /\ view.frame = sent /\ view.event = TRUE /\ view.cut = failed
        /\ out = view.out \o SubSeq(OutFrame(sent), view.counter + 1, txCounter)
      BY <1>1, <1>2, <1>5, <1>6, <1>11, InHandler DEF WhileLoop
  <2> DEFINE w == txCounter - view.counter
  <2>2. /\ w \in 1..(view.size - view.counter) /\ view.counter + w = txCounter
        /\ view.counter < view.size /\ w \in 1..TxBufSize
    <3> DEFINE from == view.counter
    <3>1. txSize <= TxBufSize
        BY <1>3 DEF IInv, TypeOK
    <3>2. /\ from \in Nat /\ txCounter \in Nat /\ txSize \in Nat /\ TxBufSize \in Nat
          /\ from < txCounter /\ txCounter <= txSize /\ txSize <= TxBufSize
        BY <1>3, <1>4, <2>1, <3>1
    <3> HIDE DEF from
    <3>3. /\ txCounter - from \in 1..(txSize - from) /\ from + (txCounter - from) = txCounter
          /\ from < txSize /\ txCounter - from \in 1..TxBufSize
        BY <3>2
    <3> QED
        BY <2>1, <3>3 DEF from
  <2>3. Sender!PortTakes(view.frame, view.counter, w)
    <3>1. Sender!OutFrame(sent) = OutFrame(sent)
        BY DEF Sender!OutFrame, OutFrame
    <3>2. out = view.out \o SubSeq(OutFrame(sent), view.counter + 1, view.counter + w)
        BY <2>1, <2>2
    <3> HIDE DEF w
    <3> QED
        BY <1>7, <2>1, <3>1, <3>2 DEF Sender!PortTakes
  <2>4. Sender!OnWriteEvent /\ Sender!TxPending
      BY <1>8, <2>1, <2>2 DEF Sender!OnWriteEvent, Sender!TxPending
  <2>5. view'.counter = view.counter + w
      BY <1>7, <2>2
  <2> HIDE DEF w
  <2>6. Sender!WriteMore(w)
      BY <1>7, <1>9, <2>1, <2>2, <2>3, <2>4, <2>5 DEF Sender!WriteMore
  <2> QED
      BY <1>7, <2>2, <2>6 DEF SenderStep, Sender!Next, Sender!WriteEvent
<1> QED
    BY <1>10, <1>11 DEF Thread

LEMMA WriteFailsSimulates ==
    ASSUME IInv, ViewKept, NEW t \in Thread, WriteFails(t), hasty' = {}
    PROVE  ViewKept' /\ SenderStep
<1>1. /\ pc[t] = "write" /\ pc'[t] = "drop size" /\ failed' = failed \cup {sent}
      /\ UNCHANGED <<txSize, txCounter, writeEvent, out, sent, hasty, local, view>>
    BY DEF IInv, TypeOK, WriteFails, Goto, At, shared, caller
<1>2. /\ HandlerStep(t) /\ pc[t] \in Handler /\ pc'[t] \in Handler
      /\ hasty = {} /\ sent \notin hasty
    BY <1>1, PortStep DEF PortEvent, Handler
<1>3. Taken(t) = 0 /\ Taken(t)' = 0 /\ ~Failing(t) /\ Failing(t)'
    BY <1>1 DEF Taken, Failing
<1>4. /\ txCounter \in Nat /\ txCounter < txSize /\ OnTheLine = txCounter + 0
    BY <1>1, <1>2, <1>3, InHandler DEF Knows
<1>5. OnTheLine' = OnTheLine
  <2>1. Taken(t)' \in Nat /\ txCounter' \in Nat
    <3>1. Taken(t)' = 0 /\ txCounter' = txCounter
        BY <1>1, <1>3
    <3> QED
        BY <1>4, <3>1
  <2>2. OnTheLine' = txCounter' + Taken(t)'
      BY <1>2, <2>1, OnTheLineAfter DEF PortEvent
  <2> QED
      BY <1>1, <1>3, <1>4, <2>2
<1>6. ASSUME t = "caller" PROVE WhileCaller'
  <2>1. WhileCaller
      BY <1>2, <1>6, InHandler
  <2> QED
      BY <1>1, <1>3, <1>5, <1>6, <2>1 DEF WhileCaller
<1>7. ASSUME t = "loop" PROVE WhileLoop'
  <2>1. WhileLoop
      BY <1>2, <1>7, InHandler
  <2>2. view.counter < view.size
      BY <1>1, <1>4, <1>7, <2>1 DEF WhileLoop
  <2> QED
      BY <1>1, <1>3, <1>5, <1>7, <2>1, <2>2 DEF WhileLoop
<1>8. ViewKept'
    BY <1>1, <1>2, <1>6, <1>7, StillInHandler
<1>9. At("loop", "del")' <=> At("loop", "del")
    BY <1>1, <1>2, DeleteElsewhere
<1> QED
    BY <1>1, <1>8, <1>9, NoSenderStep

LEMMA DropSizeSimulates ==
    ASSUME IInv, ViewKept, NEW t \in Thread, DropSize(t), hasty' = {}
    PROVE  ViewKept' /\ SenderStep
<1>1. /\ pc[t] = "drop size" /\ pc'[t] = "drop counter"
      /\ UNCHANGED <<txCounter, writeEvent, out, sent, hasty, failed, local, view>>
    BY DEF IInv, TypeOK, DropSize, Goto, At, caller
<1>2. /\ HandlerStep(t) /\ pc[t] \in Handler /\ pc'[t] \in Handler
      /\ hasty = {} /\ sent \notin hasty
    BY <1>1, PortStep DEF PortEvent, Handler
<1>3. Taken(t) = 0 /\ Taken(t)' = 0 /\ Failing(t) /\ Failing(t)'
    BY <1>1 DEF Taken, Failing
<1>4. txCounter \in Nat /\ OnTheLine = txCounter + 0
    BY <1>2, <1>3, InHandler
<1>5. OnTheLine' = OnTheLine
  <2>1. Taken(t)' \in Nat /\ txCounter' \in Nat
    <3>1. Taken(t)' = 0 /\ txCounter' = txCounter
        BY <1>1, <1>3
    <3> QED
        BY <1>4, <3>1
  <2>2. OnTheLine' = txCounter' + Taken(t)'
      BY <1>2, <2>1, OnTheLineAfter DEF PortEvent
  <2> QED
      BY <1>1, <1>3, <1>4, <2>2
<1>6. ASSUME t = "caller" PROVE WhileCaller'
  <2>1. WhileCaller
      BY <1>2, <1>6, InHandler
  <2> QED
      BY <1>1, <1>3, <1>5, <1>6, <2>1 DEF WhileCaller
<1>7. ASSUME t = "loop" PROVE WhileLoop'
  <2>1. WhileLoop
      BY <1>2, <1>7, InHandler
  <2> QED
      BY <1>1, <1>3, <1>5, <1>7, <2>1 DEF WhileLoop
<1>8. ViewKept'
    BY <1>1, <1>2, <1>6, <1>7, StillInHandler
<1>9. At("loop", "del")' <=> At("loop", "del")
    BY <1>1, <1>2, DeleteElsewhere
<1> QED
    BY <1>1, <1>8, <1>9, NoSenderStep

\* The handler returns after a write that failed: the frame, or its rest, is dropped.
LEMMA DropCounterSimulates ==
    ASSUME IInv, ViewKept, NEW t \in Thread, DropCounter(t), hasty' = {}
    PROVE  ViewKept' /\ SenderStep
<1>1. /\ pc[t] = "drop counter" /\ txCounter' = 0 /\ Return(t)
      /\ UNCHANGED <<txSize, writeEvent, out, sent, hasty, failed>>
    BY DEF DropCounter, At, caller
<1>2. pc[t] \in Handler /\ hasty = {}
    BY <1>1 DEF Handler
<1>3. /\ txSize = 0 /\ out \in Seq(Byte \cup {Memory}) /\ txCounter \in Nat
      /\ sent \in 1..Len(OutSize) /\ OutSize[sent] \in 1..TxBufSize /\ TxBufSize \in Nat
      /\ view.counter \in Nat
  <2>1. /\ Knows(t) /\ out \in Seq(Byte \cup {Memory}) /\ txCounter \in Nat
        /\ sent \in 1..Len(OutSize) /\ view.counter \in Nat
      BY <1>2, InHandler
  <2> QED
      BY <1>1, <2>1, Sizes DEF Knows
<1>4. txSize' = 0 /\ txCounter' \in Nat /\ txSize' \in Nat /\ txCounter' <= txSize'
  <2>1. txSize' = 0 /\ txCounter' = 0
      BY <1>1, <1>3
  <2> QED
      BY <2>1
<1>5. Taken(t) = 0 /\ Failing(t)
    BY <1>1 DEF Taken, Failing
<1>6. OnTheLine = txCounter
  <2>1. OnTheLine = txCounter + 0
      BY <1>2, <1>5, InHandler
  <2> QED
      BY <1>3, <2>1
<1>7. /\ ViewKept' /\ ~At("loop", "del")'
      /\ view'.frame = sent /\ view'.size = 0 /\ view'.counter = 0
      /\ view'.event = writeEvent /\ view'.out = out /\ view'.cut = failed
    BY <1>1, <1>2, <1>3, <1>4, Returned
<1>8. ~At("loop", "del")
  <2>1. pc["loop"] = "idle" \/ t = "loop"
      BY <1>2, InHandler DEF Thread
  <2> QED
      BY <1>1, <2>1 DEF At
<1>9. At("loop", "del")' = At("loop", "del")
    BY <1>7, <1>8 DEF At
<1>10. t = "caller" => txCounter = 0
    BY <1>1, <1>2, <1>6, InHandler DEF WhileCaller
<1>11. out = view.out
    BY <1>1, <1>2, <1>5, <1>10, LineBefore
<1>12. CASE t = "caller"
  <2>1. WhileCaller /\ writeEvent = FALSE
      BY <1>2, <1>12, InHandler
  <2>2. /\ view.frame + 1 = sent /\ view.counter = view.size /\ failed = view.cut \cup {sent}
        /\ view.event = FALSE
      BY <1>5, <1>12, <2>1 DEF WhileCaller
  <2>3. Sender!Overwritten = {}
      BY <1>3, <2>2 DEF Sender!Overwritten, Sender!TxPending
  <2>4. Sender!Fits(sent)
      BY <1>3, <2>2 DEF Sender!Fits
  <2>5. view'.cut = view.cut \cup Sender!Overwritten \cup {sent}
      BY <1>7, <2>2, <2>3
  <2>6. Sender!LoadFrameFails(sent)
      BY <1>7, <1>11, <2>1, <2>2, <2>5 DEF Sender!LoadFrameFails
  <2>7. Sender!SendPacket(sent)
      BY <1>7, <1>9, <2>4, <2>6 DEF Sender!SendPacket
  <2> QED
      BY <1>3, <1>7, <2>7 DEF SenderStep, Sender!Next
<1>13. CASE t = "loop"
  <2>1. /\ view.counter < view.size /\ writeEvent = TRUE
        /\ view.frame = sent /\ view.event = TRUE /\ failed = view.cut \cup {sent}
      BY <1>2, <1>5, <1>13, InHandler DEF WhileLoop
  <2>2. Sender!OnWriteEvent /\ Sender!TxPending
      BY <1>8, <2>1 DEF Sender!OnWriteEvent, Sender!TxPending
  <2>3. Sender!WriteFails
      BY <1>7, <1>9, <1>11, <2>1, <2>2 DEF Sender!WriteFails
  <2> QED
      BY <1>7, <2>3 DEF SenderStep, Sender!Next, Sender!WriteEvent
<1> QED
    BY <1>12, <1>13 DEF Thread

-----------------------------------------------------------------------------
LEMMA NextSimulates ==
    IInv /\ ViewKept /\ [Next]_vars =>
        ViewKept' /\ [hasty' # {} \/ Sender!Next]_(Sender!vars)
<1> SUFFICES ASSUME IInv, ViewKept, [Next]_vars
             PROVE  ViewKept' /\ (hasty' # {} \/ SenderStep)
    BY DEF SenderStep
<1>1. CASE hasty' # {}
    BY <1>1 DEF ViewKept
<1>2. ASSUME hasty' = {}, Next PROVE ViewKept' /\ SenderStep
  <2>1. CASE SendPacket
      BY <1>2, <2>1, SendPacketSimulates
  <2>2. CASE Fill \/ SetSize \/ ResetCounter
      BY <1>2, <2>2, CallerSimulates
  <2>3. CASE OnWriteEvent
      BY <1>2, <2>3, OnWriteEventSimulates
  <2>4. ASSUME NEW t \in Thread, PortEvent(t) PROVE ViewKept' /\ SenderStep
      BY <1>2, <2>4, ReadArgsSimulates, DeleteSimulates, WriteSimulates, LoadCounterSimulates,
         StoreCounterSimulates, AddEventSimulates, WriteFailsSimulates, DropSizeSimulates,
         DropCounterSimulates DEF PortEvent
  <2> QED
      BY <1>2, <2>1, <2>2, <2>3, <2>4 DEF Next
<1>3. CASE UNCHANGED vars
  <2>1. UNCHANGED <<txSize, txCounter, writeEvent, out, sent, hasty, pc, local, failed, view>>
      BY <1>3 DEF vars, shared, caller
  <2>2. (Setting' <=> Setting) /\ Taken("caller")' = Taken("caller") /\ Taken("loop")' = Taken("loop")
      BY <2>1 DEF Setting, Taken
  <2>3. OnTheLine' = OnTheLine
      BY <2>1, <2>2 DEF OnTheLine
  <2>4. (Idle' <=> Idle) /\ Seen' = Seen
      BY <2>1 DEF Idle, At, Seen
  <2>5. (WhileCaller' <=> WhileCaller) /\ (WhileLoop' <=> WhileLoop)
      BY <2>1, <2>3 DEF WhileCaller, WhileLoop, Failing
  <2>6. ViewKept'
      BY <2>1, <2>4, <2>5 DEF ViewKept
  <2>7. At("loop", "del")' <=> At("loop", "del")
      BY <2>1 DEF At
  <2> QED
      BY <2>1, <2>6, <2>7, NoSenderStep
<1> QED
    BY <1>1, <1>2, <1>3

LEMMA InitView == Init => ViewKept /\ Sender!Init
<1> SUFFICES ASSUME Init PROVE ViewKept /\ Sender!Init
    OBVIOUS
<1>1. /\ view = Seen /\ sent = 0 /\ txSize = 0 /\ txCounter = 0 /\ writeEvent = FALSE
      /\ out = <<>> /\ failed = {} /\ pc["caller"] = "idle" /\ pc["loop"] = "idle"
    BY DEF Init, Thread
<1>2. /\ view.frame = 0 /\ view.size = 0 /\ view.counter = 0 /\ view.event = FALSE
      /\ view.out = <<>> /\ view.cut = {}
    BY <1>1 DEF Seen
<1>3. view.out \in Seq(Byte \cup {Memory})
    BY <1>2
<1>4. ViewKept
    BY <1>1, <1>2, <1>3 DEF ViewKept
<1>5. At("loop", "del") = FALSE
    BY <1>1 DEF At
<1>6. Sender!Init
    BY <1>2, <1>5 DEF Sender!Init
<1> QED
    BY <1>4, <1>6

\* While no frame is given too early, two threads in emb_rtu_port_event do what one
\* would that runs each handler in one step: RtuSender, with its state as it was
\* when a handler returned last.
THEOREM AtomicityCorrect == Spec => HandlersAreAtomic
<1>1. Init => ViewKept /\ Sender!Init
    BY InitView
<1>2. IInv /\ ViewKept /\ [Next]_vars =>
          ViewKept' /\ [hasty' # {} \/ Sender!Next]_(Sender!vars)
    BY NextSimulates
<1>3. Spec => []IInv
    BY Invariance
<1> QED
    BY <1>1, <1>2, <1>3, PTL DEF Spec, HandlersAreAtomic
=============================================================================
