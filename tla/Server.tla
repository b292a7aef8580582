------------------------------- MODULE Server -------------------------------
(***************************************************************************)
(* emb_super_server_t (emodbus/server/server.c) and the handlers of the    *)
(* Modbus functions beside it.  A request is dispatched, checked and       *)
(* applied in one call of the transport, so it is one step here.           *)
(*                                                                         *)
(* A word is the set of its bytes that are not zero, 0 the low and 1 the   *)
(* high one as this machine stores them; a word taken from or put in a PDU *)
(* as it is has its bytes in the other order (Swap).  A coil is the word   *)
(* {} or {0}.  The registers are the application's: an area of one of the  *)
(* kinds of modbus, or a file, whose cells are <<area, offset>>.  The      *)
(* application may refuse what it is asked to do.                          *)
(*                                                                         *)
(* A request has the fields to (slave address), fn (function), addr, qty   *)
(* and vals (words as they are in the PDU; for function 22 the two masks), *)
(* raddr and rqty (what function 23 reads), bytes (is the byte count the   *)
(* right one?) and parts (the sub-requests for files, of space, addr, qty  *)
(* and vals; a wrong reference type is a file that does not exist).  The   *)
(* handlers do not look at the size of the PDU but for functions 15 and    *)
(* 21: what a request left out is what the buffer held before.             *)
(***************************************************************************)
EXTENDS Integers, Sequences, FiniteSets, SequencesExt, FiniteSetsExt, Parts

CONSTANTS
    Areas,      \* records kind, start, size, reads and writes
    Files,      \* records kind (the file number), start = 0, size, reads and writes
    FileNumbers,\* the file numbers requests have
    Kinds,      \* those for which the server has a get_ function, "file" and "fifo" among them
    Tables,     \* the sets of function codes a get_function may know
    Slaves,     \* the addresses get_server knows
    Broadcast,  \* those of them with EMB_SRV_BROADCAST_FLAG
    TxSizes,    \* the sizes a tx_pdu may have
    FifoSize,   \* how many registers the application's FIFO has
    Requests    \* the requests masters make

Word == SUBSET {0, 1}
Spaces == {"coil", "discrete", "input", "holding"}

\* Areas and files are not empty, and no two of a kind overlap.
ASSUME AreasAssumption ==
    \A a \in Areas : /\ a.kind \in Spaces
                    /\ a.start \in Nat /\ a.size \in Nat \ {0}
                    /\ a.start + a.size <= 65536
ASSUME FilesAssumption ==
    /\ \A f \in Files : f.kind \in FileNumbers /\ f.start = 0 /\ f.size \in Nat \ {0}
    /\ FileNumbers \cap (Spaces \cup {"fifo"}) = {}
ASSUME ApartAssumption ==
    \A a, b \in Areas \cup Files :
        a # b /\ a.kind = b.kind => a.start + a.size <= b.start \/ b.start + b.size <= a.start
\* Its application counts them in a byte (fifo_count).
ASSUME FifoAssumption == FifoSize \in 0..255

\* tx_pdu has room for an exception; all that the library, its wrapper and its
\* examples make have MAX_PDU_DATA_SIZE = 253 bytes.
ASSUME TxSizesAssumption == TxSizes \subseteq 1..253

PartFields == [space : FileNumbers, addr : Nat, qty : Nat, vals : Seq(Word)]
RequestFields == [to : Nat, fn : Nat, addr : Nat, qty : Nat, vals : Seq(Word),
                  raddr : Nat, rqty : Nat, bytes : BOOLEAN, parts : Seq(PartFields)]

\* A request has the values its handler takes from the PDU: one for functions 5
\* and 6, two masks for 22, and as many as its quantity says for 15, 16 and 23.
\* A part of one for files may have been cut short.
IsRequest(r) ==
    /\ r \in RequestFields
    /\ r.fn \in {5, 6} => Len(r.vals) = 1 /\ r.qty = 1
    /\ r.fn = 22 => Len(r.vals) = 2 /\ r.qty = 1
    /\ r.fn \in {15, 16, 23} => Len(r.vals) = r.qty
    /\ r.fn = 15 => \A i \in DOMAIN r.vals : r.vals[i] \in {{}, {0}}
    /\ r.fn # 23 => r.rqty = 0
    /\ r.fn \notin {20, 21} => r.parts = <<>>
    /\ \A i \in DOMAIN r.parts : Len(r.parts[i].vals) <= r.parts[i].qty
ASSUME RequestsAssumption == \A r \in Requests : IsRequest(r)

VARIABLES
    store,     \* the registers: <<area, offset>> -> word
    txSize,    \* tx_pdu->max_size, as the application made it
    functions, \* the function codes its get_function knows
    asked,     \* the request received last
    sent,      \* the response sent for it
    behind     \* what lies behind the data of tx_pdu: "intact" or "overwritten"

vars == <<store, txSize, functions, asked, sent, behind>>

Swap(w) == {1 - b : b \in w}
Swapped(ws) == [i \in DOMAIN ws |-> Swap(ws[i])]

NoArea == [kind |-> "none", start |-> 0, size |-> 0, reads |-> FALSE, writes |-> FALSE]
Fifo == [kind |-> "fifo", start |-> 0, size |-> FifoSize, reads |-> TRUE, writes |-> FALSE]
CellSet == UNION {{a} \X (0..(a.size - 1)) : a \in Areas \cup Files \cup {Fifo}}
IsBit(c) == c[1].kind \in {"coil", "discrete"}

IllegalFunction == 1
IllegalAddress == 2
IllegalValue == 3
SlaveFailure == 4
AppResult == {0, SlaveFailure}

NoResponse == [fn |-> 0, code |-> 0, size |-> 0, count |-> -1, data |-> <<>>]
NoRequest == [fn |-> 0, to |-> -1]

TypeOK ==
    /\ store \in [CellSet -> Word]
    /\ \A c \in CellSet : IsBit(c) => store[c] \in {{}, {0}}
    /\ txSize \in TxSizes /\ functions \in Tables
    /\ asked \in Requests \cup {NoRequest}
    /\ DOMAIN sent = DOMAIN NoResponse
    /\ \A i \in DOMAIN sent.data : sent.data[i] \in Word
    /\ behind \in {"intact", "overwritten"}

Init ==
    /\ store = [c \in CellSet |-> IF IsBit(c) THEN {} ELSE {0}]
    /\ txSize \in TxSizes /\ functions \in Tables
    /\ asked = NoRequest
    /\ sent = NoResponse
    /\ behind = "intact"

-----------------------------------------------------------------------------
\* get_coils, get_holding_regs and the like: the area an address is in.
AreaAt(kind, addr) ==
    LET found == {a \in Areas : a.kind = kind /\ addr \in a.start..(a.start + a.size - 1)}
    IN  IF found = {} THEN NoArea ELSE CHOOSE a \in found : TRUE

FileOf(number) ==
    LET found == {f \in Files : f.kind = number}
    IN  IF found = {} THEN NoArea ELSE CHOOSE f \in found : TRUE

\* read_regs, read_bits and write_regs, write_bits of an area, by offset.
Load(st, area, offset, n) == [i \in 1..n |-> st[<<area, offset + i - 1>>]]
Store(st, area, offset, vals) ==
    [c \in DOMAIN st |-> IF c[1] = area /\ c[2] - offset + 1 \in DOMAIN vals
                         THEN vals[c[2] - offset + 1] ELSE st[c]]

\* A handler makes its checks in order and returns the code of the first that
\* fails, or 0.
Check(holds, code) == IF holds THEN 0 ELSE code
FirstFailing(codes) ==
    LET failing == {i \in DOMAIN codes : codes[i] # 0}
    IN  IF failing = {} THEN 0 ELSE codes[Min(failing)]

\* What a handler leaves: its result, the registers and, for 0, the response.
Result(code, st, response) ==
    [code |-> code, store |-> IF code = 0 THEN st ELSE store,
     response |-> IF code = 0 THEN response ELSE NoResponse]
ResultAnyway(code, st, response) == [Result(code, st, response) EXCEPT !.store = st]

Response(r, size, count, data) ==
    [fn |-> r.fn, code |-> 0, size |-> size, count |-> count, data |-> data]

\* emb_build_exception_pdu.
ExceptionPdu(r, code) == [fn |-> r.fn, code |-> code, size |-> 1, count |-> -1, data |-> <<>>]

-----------------------------------------------------------------------------
\* Functions 1 and 2.
ReadBits(r, rd) ==
    LET kind == IF r.fn = 1 THEN "coil" ELSE "discrete"
        area == AreaAt(kind, r.addr)
        bytes == (r.qty + 7) \div 8
    IN  Result(FirstFailing(<< Check(1 <= r.qty /\ r.qty <= 2000, IllegalValue),
                               Check(kind \in Kinds, SlaveFailure),
                               Check(area # NoArea, IllegalAddress),
                               Check(area.start + area.size >= r.addr + r.qty, IllegalAddress),
                               Check(area.reads, IllegalAddress),
                               Check(txSize >= 1 + bytes, SlaveFailure),
                               Check(rd = 0, rd) >>),
               store,
               Response(r, 1 + bytes, bytes, Load(store, area, r.addr - area.start, r.qty)))

\* Mutation of ReadRegs: the response is not held against tx_pdu.
ReadRegsUnbounded(r, rd) ==
    LET kind == IF r.fn = 3 THEN "holding" ELSE "input"
        area == AreaAt(kind, r.addr)
    IN  Result(FirstFailing(<< Check(kind \in Kinds, SlaveFailure),
                               Check(area # NoArea, IllegalAddress),
                               Check(1 <= r.qty /\ r.qty <= 125, IllegalValue),
                               Check(r.addr + r.qty <= area.start + area.size, IllegalAddress),
                               Check(rd = 0, rd) >>),
               store,
               Response(r, 1 + 2 * r.qty, 2 * r.qty,
                        Swapped(Load(store, area, r.addr - area.start, r.qty))))

\* Functions 3 and 4.
ReadRegs(r, rd) ==
    LET kind == IF r.fn = 3 THEN "holding" ELSE "input"
        area == AreaAt(kind, r.addr)
    IN  Result(FirstFailing(<< Check(kind \in Kinds, SlaveFailure),
                               Check(area # NoArea, IllegalAddress),
                               Check(1 <= r.qty /\ r.qty <= 125, IllegalValue),
                               Check(r.addr + r.qty <= area.start + area.size, IllegalAddress),
                               Check(area.reads, IllegalAddress),
                               Check(1 + 2 * r.qty <= txSize, SlaveFailure),
                               Check(rd = 0, rd) >>),
               store,
               Response(r, 1 + 2 * r.qty, 2 * r.qty,
                        Swapped(Load(store, area, r.addr - area.start, r.qty))))

\* Mutation of WriteCoil: a value that is neither is not refused, but passed on.
WriteCoilAnyValue(r, wr) ==
    LET area == AreaAt("coil", r.addr)
    IN  Result(FirstFailing(<< Check(area # NoArea, IllegalAddress),
                               Check(area.writes, IllegalAddress),
                               Check(txSize >= 4, SlaveFailure),
                               Check(wr = 0, wr) >>),
               Store(store, area, r.addr - area.start, <<r.vals[1]>>),
               Response(r, 4, -1, r.vals))

\* Function 5: 0xFF00 is on and 0 is off.
WriteCoil(r, wr) ==
    LET area == AreaAt("coil", r.addr)
        value == Swap(r.vals[1])
        coil == IF value = {1} THEN {0} ELSE {}
    IN  Result(FirstFailing(<< Check(value \in {{}, {1}}, IllegalValue),
                               Check("coil" \in Kinds, SlaveFailure),
                               Check(area # NoArea, IllegalAddress),
                               Check(area.writes, IllegalAddress),
                               Check(txSize >= 4, SlaveFailure),
                               Check(wr = 0, wr) >>),
               Store(store, area, r.addr - area.start, <<coil>>),
               Response(r, 4, -1, <<Swap(value)>>))

\* Function 6: the register is written before the room for the response is checked.
WriteReg(r, wr) ==
    LET area == AreaAt("holding", r.addr)
        value == Swap(r.vals[1])
        written == Store(store, area, r.addr - area.start, <<value>>)
        code == FirstFailing(<< Check("holding" \in Kinds, SlaveFailure),
                                Check(area # NoArea, IllegalAddress),
                                Check(area.writes, IllegalAddress),
                                Check(wr = 0, wr) >>)
    IN  IF code # 0 THEN Result(code, store, NoResponse)
        ELSE ResultAnyway(IF 4 > txSize THEN SlaveFailure ELSE 0, written,
                          Response(r, 4, -1, <<Swap(value)>>))

\* Function 15.
WriteCoils(r, wr) ==
    LET area == AreaAt("coil", r.addr)
    IN  Result(FirstFailing(<< Check(1 <= r.qty /\ r.qty <= 1968, IllegalValue),
                               Check(r.bytes, IllegalValue),
                               Check("coil" \in Kinds, SlaveFailure),
                               Check(area # NoArea, IllegalAddress),
                               Check(area.start + area.size >= r.addr + r.qty, IllegalAddress),
                               Check(area.writes, IllegalAddress),
                               Check(txSize >= 4, SlaveFailure),
                               Check(wr = 0, wr) >>),
               Store(store, area, r.addr - area.start, r.vals),
               Response(r, 4, -1, <<>>))

\* Mutation of WriteRegs: the room for the response is checked after the write.
WriteRegsEarly(r, wr) ==
    LET area == AreaAt("holding", r.addr)
        code == FirstFailing(<< Check(1 <= r.qty /\ r.qty <= 123 /\ r.bytes, IllegalValue),
                                Check(area # NoArea, IllegalAddress),
                                Check(r.addr + r.qty <= area.start + area.size, IllegalAddress),
                                Check(area.writes, IllegalAddress),
                                Check(wr = 0, wr) >>)
    IN  IF code # 0 THEN Result(code, store, NoResponse)
        ELSE ResultAnyway(IF 4 <= txSize THEN 0 ELSE SlaveFailure,
                          Store(store, area, r.addr - area.start, Swapped(r.vals)),
                          Response(r, 4, -1, <<>>))

\* Function 16.
WriteRegs(r, wr) ==
    LET area == AreaAt("holding", r.addr)
    IN  Result(FirstFailing(<< Check(1 <= r.qty /\ r.qty <= 123 /\ r.bytes, IllegalValue),
                               Check("holding" \in Kinds, SlaveFailure),
                               Check(area # NoArea, IllegalAddress),
                               Check(r.addr + r.qty <= area.start + area.size, IllegalAddress),
                               Check(area.writes, IllegalAddress),
                               Check(4 <= txSize, SlaveFailure),
                               Check(wr = 0, wr) >>),
               Store(store, area, r.addr - area.start, Swapped(r.vals)),
               Response(r, 4, -1, <<>>))

\* Function 22: tmp = (tmp & and_mask) | (or_mask & ~and_mask); this too is
\* written before the room for the response is checked.
MaskReg(r, rd, wr) ==
    LET area == AreaAt("holding", r.addr)
        masks == Swapped(r.vals)
        offset == r.addr - area.start
        code == FirstFailing(<< Check("holding" \in Kinds, SlaveFailure),
                                Check(area # NoArea, IllegalAddress),
                                Check(area.reads /\ area.writes, IllegalAddress),
                                Check(rd = 0, rd),
                                Check(wr = 0, wr) >>)
    IN  IF code # 0 THEN Result(code, store, NoResponse)
        ELSE LET tmp == store[<<area, offset>>]
                 value == (tmp \cap masks[1]) \cup (masks[2] \cap ({0, 1} \ masks[1]))
             IN  ResultAnyway(IF 6 > txSize THEN SlaveFailure ELSE 0,
                              Store(store, area, offset, <<value>>),
                              Response(r, 6, -1, Swapped(masks)))

\* Function 23: the read may fail after the write.
ReadWriteRegs(r, rd, wr) ==
    LET wrArea == AreaAt("holding", r.addr)
        rdArea == AreaAt("holding", r.raddr)
        written == Store(store, wrArea, r.addr - wrArea.start, Swapped(r.vals))
        code == FirstFailing(<< Check(1 <= r.rqty /\ r.rqty <= 125, IllegalValue),
                                Check(1 <= r.qty /\ r.qty <= 121, IllegalValue),
                                Check(r.bytes, IllegalValue),
                                Check("holding" \in Kinds, SlaveFailure),
                                Check(wrArea # NoArea, IllegalAddress),
                                Check(r.addr + r.qty <= wrArea.start + wrArea.size, IllegalAddress),
                                Check(wrArea.writes, IllegalFunction),
                                Check(rdArea # NoArea, IllegalAddress),
                                Check(r.raddr + r.rqty <= rdArea.start + rdArea.size,
                                      IllegalAddress),
                                Check(rdArea.reads, IllegalFunction),
                                Check(1 + 2 * r.rqty <= txSize, SlaveFailure),
                                Check(wr = 0, wr) >>)
    IN  IF code # 0 THEN Result(code, store, NoResponse)
        ELSE ResultAnyway(rd, written,
                          Response(r, 1 + 2 * r.rqty, 2 * r.rqty,
                                   Swapped(Load(written, rdArea, r.raddr - rdArea.start, r.rqty))))

\* Function 20: where the sub-response to each sub-request ends, of two bytes
\* and its registers, and where the handler takes it to end: byte_counter and
\* bytes have 8 bits.
PartEnds(r) == SumUpTo(r.parts, LAMBDA p : 2 + 2 * p.qty)
Counted(r, i) == PartEnds(r)[i] % 2^8

\* What the handler makes of one sub-request.  What lies outside a file is
\* refused by the application's read_file and write_file.
ReadPart(r, rd, i) ==
    LET part == r.parts[i]
        file == FileOf(part.space)
    IN  FirstFailing(<< Check("file" \in Kinds, SlaveFailure),
                        Check(file # NoArea, IllegalAddress),
                        Check(file.reads, IllegalAddress),
                        Check(txSize >= Counted(r, i), SlaveFailure),
                        Check(part.addr + part.qty <= file.size, IllegalAddress),
                        Check(rd = 0, rd) >>)

\* As many registers of a sub-response as lie within the count of the response.
Held(r, i) ==
    LET room == (Counted(r, Len(r.parts)) - PartEnds(r)[i - 1] - 2) \div 2
    IN  IF room < 0 THEN 0 ELSE IF room < r.parts[i].qty THEN room ELSE r.parts[i].qty

ReadFile(r, rd) ==
    LET n == Len(r.parts)
        count == Counted(r, n)
        data == [i \in 1..n |-> Swapped(Load(store, FileOf(r.parts[i].space),
                                             r.parts[i].addr, Held(r, i)))]
    IN  Result(IF 7 <= 7 * n /\ 7 * n <= 245
               THEN FirstFailing([i \in 1..n |-> ReadPart(r, rd, i)]) ELSE IllegalValue,
               store,
               Response(r, count + 1, count, FlattenSeq(data)))

\* The handler writes behind tx_pdu: it has written the head of a sub-response
\* before it looks at the room, and that look leaves out the count of the
\* response and is taken in by a counter that wrapped.
FileSpills(r, rd) ==
    /\ Len(r.parts) \in 1..35 /\ "file" \in Kinds
    /\ \E i \in DOMAIN r.parts :
          /\ FileOf(r.parts[i].space) # NoArea
          /\ \A j \in 1..(i - 1) : ReadPart(r, rd, j) = 0
          /\ \/ txSize < PartEnds(r)[i - 1] + 3
             \/ ReadPart(r, rd, i) = 0 /\ txSize < PartEnds(r)[i] + 1

\* Function 21: the request is the response, copied before the registers in it
\* are swapped; its parts are written one after the other, up to the first that
\* is refused.  The application refuses the part number failing.
WritePart(r, failing, done, i) ==
    LET part == r.parts[i]
        file == FileOf(part.space)
        code == FirstFailing(<< Check("file" \in Kinds, SlaveFailure),
                                Check(file # NoArea /\ file.writes, IllegalAddress),
                                Check(part.qty <= Len(part.vals), IllegalValue),
                                Check(part.addr + part.qty <= file.size, IllegalAddress),
                                Check(i # failing, SlaveFailure) >>)
    IN  IF done.code # 0 \/ code # 0
        THEN [done EXCEPT !.code = IF @ # 0 THEN @ ELSE code]
        ELSE [done EXCEPT !.store = Store(@, file, part.addr, Swapped(part.vals))]

WriteFile(r, failing) ==
    LET n == Len(r.parts)
        byteCount == Sum(r.parts, LAMBDA p : 7 + 2 * p.qty)
        dataSize == 1 + Sum(r.parts, LAMBDA p : 7 + 2 * Len(p.vals))
        code == FirstFailing(<< Check(9 < byteCount /\ byteCount < 251, IllegalValue),
                                Check(txSize >= dataSize, SlaveFailure) >>)
        done[i \in 0..n] == IF i = 0 THEN [code |-> 0, store |-> store]
                            ELSE WritePart(r, failing, done[i - 1], i)
    IN  IF code # 0 THEN Result(code, store, NoResponse)
        ELSE ResultAnyway(done[n].code, done[n].store,
                          Response(r, dataSize, -1,
                                   FlattenSeq([i \in 1..n |-> r.parts[i].vals])))

\* Function 24: the FIFO is the application's, and is not taken from.  The
\* application writes what it holds to tx_pdu before anybody looks at the room.
FifoCount(r) == IF r.addr < FifoSize THEN FifoSize - r.addr ELSE 0
ReadFifo(r, rd) ==
    LET count == FifoCount(r)
    IN  Result(FirstFailing(<< Check("fifo" \in Kinds, SlaveFailure),
                               Check(rd = 0, rd),
                               Check(count <= 31, IllegalValue),
                               Check(4 + 2 * count <= txSize, SlaveFailure) >>),
               store,
               Response(r, 4 + 2 * count, 2 + 2 * count,
                        Swapped(Load(store, Fifo, r.addr, count))))
FifoSpills(r, rd) == "fifo" \in Kinds /\ rd = 0 /\ 4 + 2 * FifoCount(r) > txSize

-----------------------------------------------------------------------------
\* get_server found a server, and get_function a handler: given are its result
\* and whether it writes behind tx_pdu.  What happens after that is undefined:
\* the server goes on here, but nothing is claimed of it any more.
Serve(r, result, spills) ==
    /\ r.to \in Slaves /\ r.fn \in functions
    /\ store' = result.store
    /\ sent' = IF r.to \in Broadcast THEN NoResponse
               ELSE IF result.code = 0 THEN result.response ELSE ExceptionPdu(r, result.code)
    /\ asked' = r
    /\ behind' = IF spills THEN "overwritten" ELSE behind
    /\ UNCHANGED <<txSize, functions>>

\* There is no handler for the function.
ServeUnknownFunction(r) ==
    /\ r.to \in Slaves /\ r.fn \notin functions
    /\ sent' = IF r.to \in Broadcast THEN NoResponse ELSE ExceptionPdu(r, IllegalFunction)
    /\ asked' = r
    /\ UNCHANGED <<store, txSize, functions, behind>>

\* There is no server at the address: the request is another's.
NotMine(r) ==
    /\ r.to \notin Slaves
    /\ sent' = NoResponse
    /\ asked' = r
    /\ UNCHANGED <<store, txSize, functions, behind>>

Receive(r) ==
    \/ NotMine(r)
    \/ ServeUnknownFunction(r)
    \/ \E rd \in AppResult :
          \/ r.fn \in {1, 2} /\ Serve(r, ReadBits(r, rd), FALSE)
          \/ r.fn \in {3, 4} /\ Serve(r, ReadRegs(r, rd), FALSE)
          \/ r.fn = 20 /\ Serve(r, ReadFile(r, rd), FileSpills(r, rd))
          \/ r.fn = 24 /\ Serve(r, ReadFifo(r, rd), FifoSpills(r, rd))
    \/ \E wr \in AppResult :
          \/ r.fn = 5 /\ Serve(r, WriteCoil(r, wr), FALSE)
          \/ r.fn = 6 /\ Serve(r, WriteReg(r, wr), FALSE)
          \/ r.fn = 15 /\ Serve(r, WriteCoils(r, wr), FALSE)
          \/ r.fn = 16 /\ Serve(r, WriteRegs(r, wr), FALSE)
    \/ \E rd, wr \in AppResult :
          \/ r.fn = 22 /\ Serve(r, MaskReg(r, rd, wr), FALSE)
          \/ r.fn = 23 /\ Serve(r, ReadWriteRegs(r, rd, wr), FALSE)
    \/ \E failing \in 0..Len(r.parts) :
          r.fn = 21 /\ Serve(r, WriteFile(r, failing), FALSE)

Next == \E r \in Requests : Receive(r)

Spec == Init /\ [][Next]_vars

-----------------------------------------------------------------------------
\* A request and a response in the terms of the master: registers in the byte
\* order of this machine.  Coils need no conversion; "on" is {0} either way.
HasRegs(fn) == fn \notin {1, 2, 5, 15}
Meant(r) ==
    [r EXCEPT !.vals = IF HasRegs(r.fn) THEN Swapped(@) ELSE @,
              !.parts = [i \in DOMAIN r.parts |-> [r.parts[i] EXCEPT !.vals = Swapped(@)]]]

Cells == {<<c[1].kind, c[1].start + c[2]>> : c \in CellSet}
CellAt == [x \in Cells |-> CHOOSE c \in CellSet : x = <<c[1].kind, c[1].start + c[2]>>]
Mem == [x \in Cells |-> store[CellAt[x]]]
Reply ==
    CASE sent = NoResponse -> [kind |-> "nothing"]
      [] sent # NoResponse /\ sent.code # 0 -> [kind |-> "exception", fn |-> sent.fn]
      [] OTHER -> [kind |-> "done", fn |-> sent.fn,
                   data |-> IF HasRegs(sent.fn) THEN Swapped(sent.data) ELSE sent.data]

Promise == INSTANCE RegisterFile WITH mem <- Mem, reply <- Reply,
                                      Requests <- {Meant(r) : r \in Requests}

\* The requests that may be refused after they were written, in whole or in part:
\* those of functions 6 and 22 check the room for the response last, the read of
\* function 23 comes after its write, and function 21 writes part by part.
MayTear(r) ==
    \/ r.fn = 6 /\ txSize < 4
    \/ r.fn = 22 /\ txSize < 6
    \/ r.fn = 23
    \/ r.fn = 21 /\ Len(r.parts) > 1

\* The bytes of the answer to a request for files or the FIFO, the two whose
\* handlers write before they look at the room.
AnswerBytes(r) ==
    CASE r.fn = 20 -> 1 + PartEnds(r)[Len(r.parts)]
      [] r.fn = 24 -> 4 + 2 * FifoCount(r)
      [] OTHER -> 0

\* Every request is carried out as a whole and answered truly, or refused with
\* nothing changed, but for those that MayTear; each is answered once, with its
\* own function, unless it is a broadcast or another server's.  This ends with
\* the first handler that writes behind tx_pdu, which only a request can bring
\* about whose answer has no room there.
WholeOrNothing ==
    [][\/ Promise!Receive(Meant(asked'))
       \/ MayTear(asked') /\ Promise!Tear(Meant(asked'))
       \/ behind = "intact" /\ behind' = "overwritten" /\ AnswerBytes(asked') > txSize
       \/ behind = "overwritten"]_vars

\* A response has room in tx_pdu, and its byte count counts what it carries.
Payload(r, response) ==
    LET n == Len(response.data)
    IN  CASE response.fn \in {1, 2} -> (n + 7) \div 8
          [] response.fn = 20 -> 2 * n + 2 * Len(r.parts)
          [] response.fn = 24 -> 2 * n + 2
          [] OTHER -> 2 * n
Fits(r, response) ==
    /\ response.size <= txSize
    /\ response.count # -1 =>
         /\ response.count = Payload(r, response)
         /\ response.size = response.count + (IF response.fn = 24 THEN 2 ELSE 1)
ResponseFits == Fits(asked, sent)

\* The invariant of the server: types, and sizes that agree as long as nothing
\* was written behind tx_pdu.
Inv == TypeOK /\ (behind = "intact" => ResponseFits)
=============================================================================
