----------------------------- MODULE RequestPdu -----------------------------
(***************************************************************************)
(* The request builders and answer accessors of emodbus/client/*.c: for    *)
(* each function the sizes its calc functions give for the request and for *)
(* the answer, whether its make function takes the arguments, and what its *)
(* accessors read from an answer.  Requests are records as in Server, with *)
(* the words as this machine stores them; answers are Server's responses.  *)
(***************************************************************************)
EXTENDS Integers, Sequences, Parts

\* The result -EINVAL of a calc function.  pdu_t::resize takes it for the
\* unsigned 2^32 - 22; this number is as good, being greater than any size and
\* equal to it modulo 256.
Einval == 2^30 - 22

BytesOf(bits) == (bits + 7) \div 8
Request(req, ans, legal) == [req |-> req, ans |-> ans, legal |-> legal]
SwapWord(w) == {1 - b : b \in w}
SwapWords(ws) == [i \in DOMAIN ws |-> SwapWord(ws[i])]

\* read_bits.c: functions 1 and 2.
ReadBitsReq(r) ==
    LET legal == r.qty \in 1..2000
    IN  Request(4, IF legal THEN 1 + BytesOf(r.qty) ELSE Einval, legal)

\* read_regs.c: functions 3 and 4.
ReadRegsReq(r) ==
    LET legal == r.qty \in 1..125
    IN  Request(4, IF legal THEN 1 + 2 * r.qty ELSE Einval, legal)

\* write_coil.c, write_single_reg.c, write_mask_reg.c.
WriteCoilReq(r) == Request(4, 4, TRUE)
WriteRegReq(r) == Request(4, 4, TRUE)
MaskRegReq(r) == Request(6, 6, TRUE)

\* write_coils.c.
WriteCoilsReq(r) ==
    LET legal == r.qty \in 1..1968
    IN  Request(IF legal THEN 5 + BytesOf(r.qty) ELSE Einval, 4, legal)

\* write_multi_regs.c, read_write_regs.c: the sizes of any quantity.
WriteRegsReq(r) == Request(5 + 2 * r.qty, 4, r.qty \in 1..123)
ReadWriteRegsReq(r) ==
    Request(9 + 2 * r.qty, 1 + 2 * r.rqty, r.rqty \in 1..125 /\ r.qty \in 1..121)

\* Mutation of ReadFileReq: the two bytes in front of each answer are forgotten.
ReadFileReqShort(r) ==
    Request(1 + 7 * Len(r.parts), 1 + Sum(r.parts, LAMBDA p : 2 * p.qty), TRUE)

\* read_file_record.c, write_file_record.c: any number of parts of any length.
\* (Record numbers are taken to be at most 0x270F.)
ReadFileReq(r) ==
    Request(1 + 7 * Len(r.parts), 1 + Sum(r.parts, LAMBDA p : 2 + 2 * p.qty), TRUE)
WriteFileReq(r) ==
    LET size == 1 + Sum(r.parts, LAMBDA p : 7 + 2 * p.qty)
    IN  Request(size, size, TRUE)

\* read_fifo.c: the answer is that of 31 registers.
ReadFifoReq(r) == Request(2, 4 + 2 * 31, TRUE)

\* The words of a request as the make functions put them in the PDU: a coil is
\* 0xFF00 or 0, registers have their bytes swapped, bits are as they are.
InPdu(r) ==
    CASE r.fn = 5  -> [r EXCEPT !.vals = SwapWords([i \in DOMAIN r.vals |->
                                                     IF r.vals[i] = {} THEN {} ELSE {1}])]
      [] r.fn = 15 -> r
      [] OTHER -> [r EXCEPT !.vals = SwapWords(r.vals),
                            !.parts = [i \in DOMAIN r.parts |->
                                          [r.parts[i] EXCEPT !.vals = SwapWords(@)]]]

-----------------------------------------------------------------------------
\* emb_read_bits_get_bit of as many bits as were asked for.
ReadBitsAns(r, a) == SubSeq(a.data, 1, r.qty)

\* Mutation of ReadRegsAns: the registers are taken as they are in the PDU.
ReadRegsAnsRaw(a) == SubSeq(a.data, 1, a.count \div 2)

\* emb_read_regs_get_regs of as many registers as the byte count says.
ReadRegsAns(a) == SwapWords(SubSeq(a.data, 1, a.count \div 2))

\* emb_rdwr_regs_get_answ_regs, likewise.
ReadWriteRegsAns(a) == SwapWords(SubSeq(a.data, 1, a.count \div 2))

\* emb_read_file_next_subanswer until there is none; there are none if the byte
\* count is not that of the PDU.  Each has the length of its data in front.
ReadFileAns(a) == IF a.size = a.count + 1 THEN SwapWords(a.data) ELSE <<>>

\* emb_read_fifo_get_all_data: its count is that of the registers.
ReadFifoAns(a) == SwapWords(SubSeq(a.data, 1, (a.count - 2) \div 2))

\* What a call that asked for r makes of the answer.
AnswerOf(r, a) ==
    CASE r.fn \in {1, 2} -> ReadBitsAns(r, a)
      [] r.fn \in {3, 4} -> ReadRegsAns(a)
      [] r.fn = 20 -> ReadFileAns(a)
      [] r.fn = 23 -> ReadWriteRegsAns(a)
      [] r.fn = 24 -> ReadFifoAns(a)
      [] OTHER -> <<>>
=============================================================================
