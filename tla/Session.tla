------------------------------- MODULE Session -------------------------------
(***************************************************************************)
(* emb::client::proxy_t (cpp-wrap/emodbus.cpp) and the request classes it  *)
(* is made of, synchronous over a line that loses requests and answers,    *)
(* with the server of Server.tla at its other end.                         *)
(*                                                                         *)
(* All the calls of a proxy share one transaction_t.  Its two PDUs only    *)
(* ever grow, and the size the C code sees is that of the buffer modulo    *)
(* 256; building a request may fail and leave in the request PDU what was  *)
(* there before, which the proxy then sends, for it does not look at the   *)
(* result.  An application that uses the request classes itself does.      *)
(*                                                                         *)
(* A call is [do, by, r]: what is done with the registers r is about, and  *)
(* by whom, "proxy" or "app" (in vals are the operands; what do means is   *)
(* in Given and Wanted).  An answer that is late is lost: it finds no      *)
(* buffer posted (Client.tla has the one that meets the next transaction). *)
(***************************************************************************)
EXTENDS Server, RequestPdu

CONSTANTS
    Menus,     \* sets of calls: an application makes those of one of them
    TxRoom     \* the largest data_size the transport takes

\* rtu.c has room for 252 bytes between the address and the checksum, tcp.c for
\* 253.
ASSUME TxRoomAssumption == TxRoom \in 252..253

VARIABLES
    menu,      \* the calls this application makes
    reqSize,   \* transaction.req: buffer.size(), ...
    pdu,       \* ... the request in it, and ...
    pduSize,   \* ... data_size
    ansSize,   \* transaction.ans: buffer.size()
    call,      \* the running call, or the last
    phase,     \* "idle", "sent", "served"
    built,     \* make_req took the arguments of this call
    carried,   \* bookkeeping: the server did what it was asked
    result     \* what the last call returned, as in RemoteRegisters

transaction == <<reqSize, pdu, pduSize, ansSize>>
sessionVars == <<menu, transaction, call, phase, built, carried, result>>
allVars == <<vars, sessionVars>>

Calls == UNION Menus
Blank == [to |-> 1, fn |-> 0, addr |-> 0, qty |-> 0, vals |-> <<>>, raddr |-> 0, rqty |-> 0,
          bytes |-> TRUE, parts |-> <<>>]
NoCallYet == [do |-> "nothing", by |-> "app", r |-> Blank]

-----------------------------------------------------------------------------
\* The arguments of build_req: what proxy_t::holdings_t makes of assignments to
\* a register, of its bits and of ranges.
Given(c) ==
    LET v == c.r.vals[1] IN
    CASE c.do = "or"        -> [c.r EXCEPT !.fn = 22, !.vals = <<{0, 1} \ v, v>>]
      [] c.do = "and"       -> [c.r EXCEPT !.fn = 22, !.vals = <<{0, 1} \ v, {}>>]
      [] c.do = "set bit"   -> [c.r EXCEPT !.fn = 22, !.vals = <<{0, 1} \ v, v>>]
      [] c.do = "clear bit" -> [c.r EXCEPT !.fn = 22, !.vals = <<{0, 1} \ v, {}>>]
      [] OTHER -> c.r

\* The calls there are: the classes take as many values as they say, a bool for a
\* coil, and nothing to write where they read; the operators of a register have
\* one operand.  Left out are records beyond 9999, the last of a file: the builders
\* refuse them when they have already written some of the PDU.
Reading == {1, 2, 3, 4, 20, 23, 24}
IsGiven(g) ==
    /\ IsRequest(g) /\ g.bytes
    /\ g.fn = 5 => g.vals[1] \in {{}, {0}}
    /\ g.fn \in Reading \ {23} => g.vals = <<>>
    /\ g.fn = 21 => \A i \in DOMAIN g.parts : Len(g.parts[i].vals) = g.parts[i].qty
    /\ \A i \in DOMAIN g.parts : g.parts[i].addr <= 9999
IsCall(c) ==
    /\ c.do \in {"plain", "or", "and", "set bit", "clear bit"} /\ c.by \in {"proxy", "app"}
    /\ c.r \in RequestFields /\ (c.do # "plain" => c.r.fn = 22)
    /\ IsGiven(Given(c))
ASSUME CallsAssumption == \A c \in Calls : IsCall(c)

\* What the application wants: `and' is to keep the bits of its operand.
Wanted(c) == IF c.do = "and" THEN [c.r EXCEPT !.fn = 22, !.vals = <<c.r.vals[1], {}>>]
             ELSE Given(c)

\* Mutations of Resized: without the comparison; grows by what is asked for.
ResizedAnyway(size, n) == n
ResizedBy(size, n) == IF size < n THEN size + n ELSE size

\* pdu_t::resize: the buffer only grows; max_size has eight bits.
Resized(size, n) == IF size < n THEN n ELSE size
MaxSize(size) == size % 2^8

SessionTypeOK ==
    /\ menu \in Menus
    /\ reqSize \in Nat /\ ansSize \in Nat
    /\ pdu \in {Blank} \cup {InPdu(Given(c)) : c \in menu}
    /\ pduSize \in 0..255 /\ pduSize <= reqSize
    /\ call \in menu \cup {NoCallYet}
    /\ phase \in {"idle", "sent", "served"}
    /\ built \in BOOLEAN /\ carried \in BOOLEAN
    /\ behind = "intact" =>
          result = <<>> \/ (Len(result) = 1 /\ \A i \in DOMAIN result[1] : result[1][i] \in Word)

-----------------------------------------------------------------------------
SessionInit ==
    /\ Init
    /\ menu \in Menus
    /\ reqSize = 0 /\ ansSize = 0
    /\ pdu = Blank /\ pduSize = 0
    /\ call = NoCallYet
    /\ phase = "idle" /\ built = FALSE /\ carried = FALSE
    /\ result = <<>>

\* Mutation of BuildReq: the size of the answer is left as it is.
BuildReqAnswerAsIs(c, req) ==
    /\ reqSize' = Resized(reqSize, req.req)
    /\ UNCHANGED ansSize
    /\ built' = (req.legal /\ req.req <= MaxSize(reqSize'))
    /\ IF built' THEN pdu' = InPdu(Given(c)) /\ pduSize' = req.req
                 ELSE UNCHANGED <<pdu, pduSize>>

\* build_req of the classes: resize the request, resize the answer, make_req.
\* That looks at max_size and at the arguments before it touches the PDU, but for
\* the records beyond 9999 (see IsGiven).
BuildReq(c, req) ==
    /\ reqSize' = Resized(reqSize, req.req)
    /\ ansSize' = Resized(ansSize, req.ans)
    /\ built' = (req.legal /\ req.req <= MaxSize(reqSize'))
    /\ IF built' THEN pdu' = InPdu(Given(c)) /\ pduSize' = req.req
                 ELSE UNCHANGED <<pdu, pduSize>>

\* The request is handed to client_t::do_transaction.
Call(c, req) ==
    /\ BuildReq(c, req)
    /\ c.by = "app" => built'
    /\ phase' = "sent" /\ call' = c
    /\ carried' = FALSE /\ result' = <<>>
    /\ UNCHANGED <<menu, vars>>

\* The application sees that its request was not built.
CallRefused(c, req) ==
    /\ c.by = "app"
    /\ BuildReq(c, req)
    /\ ~built'
    /\ call' = c /\ result' = <<>>
    /\ UNCHANGED <<menu, phase, carried, vars>>

\* resize was given -EINVAL, and there is no such amount of memory.
CallBadAlloc(c, req) ==
    /\ Einval \in {req.req, req.ans}
    /\ reqSize' = IF req.req = Einval THEN reqSize ELSE Resized(reqSize, req.req)
    /\ call' = c /\ built' = FALSE /\ result' = <<>>
    /\ UNCHANGED <<menu, pdu, pduSize, ansSize, phase, carried, vars>>

\* The request classes, each with the builder of its function, and the proxy's
\* operations that use them.
CallWith(c, req) ==
    /\ phase = "idle"
    /\ Call(c, req) \/ CallRefused(c, req) \/ CallBadAlloc(c, req)
CallReadBits(c)      == c.r.fn \in {1, 2} /\ CallWith(c, ReadBitsReq(Given(c)))
CallWriteCoil(c)     == c.r.fn = 5        /\ CallWith(c, WriteCoilReq(Given(c)))
CallWriteCoils(c)    == c.r.fn = 15       /\ CallWith(c, WriteCoilsReq(Given(c)))
CallReadRegs(c)      == c.r.fn \in {3, 4} /\ CallWith(c, ReadRegsReq(Given(c)))
CallWriteReg(c)      == c.r.fn = 6        /\ CallWith(c, WriteRegReq(Given(c)))
CallWriteRegs(c)     == c.r.fn = 16       /\ CallWith(c, WriteRegsReq(Given(c)))
CallReadWriteRegs(c) == c.r.fn = 23       /\ CallWith(c, ReadWriteRegsReq(Given(c)))
CallMaskReg(c)       == c.r.fn = 22       /\ CallWith(c, MaskRegReq(Given(c)))
CallReadFile(c)      == c.r.fn = 20       /\ CallWith(c, ReadFileReq(Given(c)))
CallWriteFile(c)     == c.r.fn = 21       /\ CallWith(c, WriteFileReq(Given(c)))
CallReadFifo(c)      == c.r.fn = 24 /\ c.by = "app" /\ CallWith(c, ReadFifoReq(Given(c)))

\* The request arrives, and the server receives it (Server!Receive).  Nobody
\* learns whether it carries out a broadcast, and nothing is read by one.
RequestArrives ==
    /\ phase = "sent" /\ pduSize <= TxRoom
    /\ Receive(pdu)
    /\ phase' = "served"
    /\ carried' = \/ sent' # NoResponse /\ sent'.code = 0
                  \/ /\ pdu.to \in Broadcast /\ pdu.fn \notin Reading
                     /\ Mem' = Promise!Effect(Mem, Meant(pdu))
    /\ UNCHANGED <<menu, transaction, call, built, result>>

\* The request is refused by the transport, or lost, or not answered, or its
\* answer is lost: the call throws a timeout.
Timeout ==
    /\ phase # "idle"
    /\ phase' = "idle" /\ result' = <<>>
    /\ UNCHANGED <<menu, transaction, call, built, carried, vars>>

\* The answer has no room in the PDU, or is an exception: the call throws.
AnswerFails ==
    /\ phase = "served" /\ sent # NoResponse
    /\ sent.size > MaxSize(ansSize) \/ sent.code # 0
    /\ phase' = "idle" /\ result' = <<>>
    /\ UNCHANGED <<menu, transaction, call, built, carried, vars>>

\* The call returns what its accessors read from the answer (if that is the
\* answer to another function, let it be nothing).
Answered ==
    /\ phase = "served" /\ sent # NoResponse
    /\ sent.size <= MaxSize(ansSize) /\ sent.code = 0
    /\ phase' = "idle"
    /\ result' = << IF built THEN AnswerOf(Given(call), sent) ELSE <<>> >>
    /\ UNCHANGED <<menu, transaction, call, built, carried, vars>>

\* proxy_t::read_fifo builds its request in a transaction of its own, does not
\* send it, and returns what is in the empty answer.
ReadFifoOfProxy(c) ==
    /\ phase = "idle" /\ c.by = "proxy" /\ c.r.fn = 24
    /\ call' = c /\ built' = FALSE
    /\ result' = << <<>> >>
    /\ UNCHANGED <<menu, transaction, phase, carried, vars>>

SessionNext ==
    \/ \E c \in menu :
          \/ CallReadBits(c) \/ CallWriteCoil(c) \/ CallWriteCoils(c)
          \/ CallReadRegs(c) \/ CallWriteReg(c) \/ CallWriteRegs(c)
          \/ CallReadWriteRegs(c) \/ CallMaskReg(c)
          \/ CallReadFile(c) \/ CallWriteFile(c)
          \/ CallReadFifo(c) \/ ReadFifoOfProxy(c)
    \/ RequestArrives
    \/ Timeout
    \/ AnswerFails
    \/ Answered

SessionSpec == SessionInit /\ [][SessionNext]_allVars

-----------------------------------------------------------------------------
\* The session keeps the promise of RemoteRegisters: no call is carried out
\* twice or in part, one that returns was carried out, and what it read is what
\* the registers held.  Excused are the calls whose request could not be built
\* (the request of an earlier call is sent again in its stead, or with the
\* proxy's read_fifo none), `&=', which clears the bits of its operand, what the
\* server may refuse when it is written already, and all that comes after the
\* server wrote behind its PDU.
Remote == INSTANCE RemoteRegisters WITH
    mem    <- Mem,
    call   <- IF phase = "idle" THEN Blank ELSE Wanted(call),
    done   <- phase = "served" /\ carried,
    value  <- IF phase = "served" /\ carried /\ pdu.fn \in Reading THEN Reply.data ELSE <<>>,
    NoCall <- Blank
Excused ==
    \/ ~built'
    \/ call'.do = "and"
    \/ phase' = "served" /\ ~carried' /\ MayTear(asked')
    \/ behind' = "overwritten"
CallsAreKept == Remote!Init /\ [][Excused \/ Remote!Next]_(Remote!vars)

\* limits.h: what the protocol allows a client to ask for.
ReadBytes(r) == Sum(r.parts, LAMBDA p : 2 + 2 * p.qty)
FileBytes(r) == Sum(r.parts, LAMBDA p : 7 + 2 * p.qty)
Legal(r) ==
    CASE r.fn \in {1, 2} -> r.qty \in 1..2000
      [] r.fn \in {3, 4} -> r.qty \in 1..125
      [] r.fn = 15 -> r.qty \in 1..1968
      [] r.fn = 16 -> r.qty \in 1..123
      [] r.fn = 20 -> 7 * Len(r.parts) \in 7..245 /\ ReadBytes(r) <= 245
      [] r.fn = 21 -> FileBytes(r) \in 9..251
      [] r.fn = 23 -> r.qty \in 1..121 /\ r.rqty \in 1..125
      [] OTHER -> TRUE

\* What the protocol allows goes through whatever calls came before: it is
\* built, the transport takes it, the server does not complain about its
\* quantities, and the answer has room.  There are three exceptions: once a
\* buffer has grown to 256 bytes anything may fail for ever after, the server
\* refuses the smallest and the largest request to write a file, and a FIFO may
\* hold more than an answer can.
Spoiled == reqSize >= 2^8 \/ ansSize >= 2^8
LegalGoesThrough ==
    phase # "idle" /\ Legal(Given(call)) /\ ~Spoiled =>
        /\ built /\ pduSize <= TxRoom
        /\ phase = "served" /\ sent # NoResponse /\ behind = "intact" =>
              /\ sent.size <= MaxSize(ansSize)
              /\ sent.code = IllegalValue =>
                    \/ pdu.fn = 21 /\ FileBytes(pdu) \in {9, 251}
                    \/ pdu.fn = 24 /\ FifoSize - pdu.addr > 31

\* The invariant of the session: types, and what goes through.
SessionInv == SessionTypeOK /\ LegalGoesThrough

\* And it is never a call the protocol allows that makes a buffer as large, nor
\* one that has a server write behind a PDU of the size the library makes, but
\* for the FIFO, whose application decides how much there is.
OnlyIllegalSpoils ==
    [][/\ Spoiled' /\ ~Spoiled => ~Legal(Given(call'))
       /\ behind' # behind /\ txSize = 253 =>
            \/ Spoiled \/ ~Legal(Given(call))
            \/ pdu.fn = 24 /\ FifoSize - pdu.addr > 124]_allVars
=============================================================================
