---------------------------- MODULE RegisterFile ----------------------------
(***************************************************************************)
(* What a Modbus server promises its master: every request is carried out  *)
(* as a whole, and its answer says so and shows the registers and coils as *)
(* they are then, or it is refused and changes nothing.  The byte order of *)
(* the wire, the areas the application divides its registers into, sizes   *)
(* and buffers do not appear here.  Server.tla implements this.            *)
(*                                                                         *)
(* A cell is <<space, address>>; a space is one of those below or a file.  *)
(***************************************************************************)
EXTENDS Naturals, Sequences, SequencesExt

CONSTANTS Requests,  \* the requests masters make; for their fields see Server
          Slaves,    \* the addresses that are served
          Broadcast, \* those of them that are not answered
          FifoSize   \* how many registers a FIFO has
VARIABLES mem,      \* cell -> value
          reply     \* the answer to the request served last

cellsOf(s) == [i \in 1..s.qty |-> <<s.space, s.addr + i - 1>>]
Space(fn) == CASE fn \in {1, 5, 15} -> "coil" [] fn = 2 -> "discrete"
               [] fn = 4 -> "input" [] OTHER -> "holding"
Cells(r) == cellsOf([space |-> Space(r.fn), addr |-> r.addr, qty |-> r.qty])
ReadCells(r) == cellsOf([space |-> "holding", addr |-> r.raddr, qty |-> r.rqty])
FifoCells(r) == cellsOf([space |-> "fifo", addr |-> r.addr,
                         qty |-> IF r.addr < FifoSize THEN FifoSize - r.addr ELSE 0])
FileCells(r) == FlattenSeq([i \in DOMAIN r.parts |-> cellsOf(r.parts[i])])

Get(m, cells) == [i \in DOMAIN cells |-> m[cells[i]]]
Put(m, cells, vals) ==
    [c \in DOMAIN m |-> IF \E i \in DOMAIN cells \cap DOMAIN vals : cells[i] = c
                        THEN vals[CHOOSE i \in DOMAIN cells : cells[i] = c] ELSE m[c]]

\* vals[1] is the AND mask, vals[2] the OR mask.
Masked(v, masks) == (v \cap masks[1]) \cup (masks[2] \ masks[1])

\* The cells after 0, 1, 2 and so on of the parts of a request were written.
Written(m, parts) ==
    LET after[i \in 0..Len(parts)] ==
            IF i = 0 THEN m ELSE Put(after[i - 1], cellsOf(parts[i]), parts[i].vals)
    IN  after

\* The cells after a request was carried out.
Effect(m, r) ==
    CASE r.fn \in {5, 6, 15, 16, 23} -> Put(m, Cells(r), r.vals)
      [] r.fn = 22 -> Put(m, Cells(r), <<Masked(m[Cells(r)[1]], r.vals)>>)
      [] r.fn = 21 -> Written(m, r.parts)[Len(r.parts)]
      [] OTHER -> m

\* What the answer to it says: the cells read, as they are afterwards, or the
\* values that were written.
Answer(m, r) ==
    CASE r.fn \in 1..4 -> Get(m, Cells(r))
      [] r.fn = 20 -> Get(m, FileCells(r))
      [] r.fn = 23 -> Get(m, ReadCells(r))
      [] r.fn = 24 -> Get(m, FifoCells(r))
      [] r.fn \in {5, 6, 22} -> r.vals
      [] r.fn = 21 -> FlattenSeq([i \in DOMAIN r.parts |-> r.parts[i].vals])
      [] OTHER -> <<>>

Nothing == [kind |-> "nothing"]
Exception(r) == [kind |-> "exception", fn |-> r.fn]
Done(m, r) == [kind |-> "done", fn |-> r.fn, data |-> Answer(m, r)]

-----------------------------------------------------------------------------
AnswerWith(r, answer) ==
    reply' = IF r.to \in Slaves \ Broadcast THEN answer ELSE Nothing

\* The cells a request is about exist, and its values are all there.
Possible(r) ==
    /\ r.fn \notin {20, 21, 24} => Range(Cells(r)) \subseteq DOMAIN mem
    /\ Range(FileCells(r)) \subseteq DOMAIN mem
    /\ Range(ReadCells(r)) \subseteq DOMAIN mem
    /\ r.fn = 21 => \A i \in DOMAIN r.parts : Len(r.parts[i].vals) = r.parts[i].qty

CarryOut(r) ==
    /\ r.to \in Slaves /\ Possible(r)
    /\ AnswerWith(r, Done(Effect(mem, r), r))
    /\ mem' = Effect(mem, r)

Refuse(r) ==
    /\ AnswerWith(r, Exception(r))
    /\ mem' = mem

Receive(r) == Refuse(r) \/ CarryOut(r)

Next == \E r \in Requests : Receive(r)

\* What is not promised: the request is refused after it, or as many of its
\* parts as come before the one at fault, were written.
Tear(r) ==
    /\ \/ mem' = Effect(mem, r)
       \/ \E k \in 0..Len(r.parts) : mem' = Written(mem, r.parts)[k]
    /\ AnswerWith(r, Exception(r))
=============================================================================
