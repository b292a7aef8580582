------------------------------ MODULE MCServer ------------------------------
(***************************************************************************)
(* Server for TLC: areas of two and one registers side by side, the second *)
(* of them read-only, two coils, an input and a discrete input, a file of  *)
(* two registers and one that cannot be written, a FIFO of two.  The       *)
(* addresses go one beyond the areas and the quantities from none to one   *)
(* more than there is, so every check of every handler fails for some      *)
(* request.  A tx_pdu of 3 bytes just has room for one register, one of 6  *)
(* for a mask but not for three registers, one of 11 for two sub-responses *)
(* of files but not of two registers each, and the library's own of 253    *)
(* for everything but what wraps the counter of function 20: 32 parts of   *)
(* three registers, or 26 of four.  A server has the functions for coils,  *)
(* for registers or for files and FIFOs: they share no registers, and the  *)
(* states would only multiply.                                             *)
(***************************************************************************)
EXTENDS Server

Area(kind, start, size, reads, writes) ==
    [kind |-> kind, start |-> start, size |-> size, reads |-> reads, writes |-> writes]
MCAreas == {Area("holding", 0, 2, TRUE, TRUE), Area("holding", 2, 1, TRUE, FALSE),
            Area("coil", 0, 2, TRUE, TRUE), Area("discrete", 0, 1, TRUE, FALSE),
            Area("input", 0, 1, TRUE, FALSE)}
MCFiles == {Area("file1", 0, 2, TRUE, TRUE), Area("file2", 0, 1, TRUE, FALSE),
            Area("file3", 0, 4, TRUE, FALSE)}
MCFileNumbers == {"file1", "file2", "file3", "file4"}
MCKinds == {"holding", "coil", "discrete", "input", "file", "fifo"}
MCTables == {{1, 2, 5, 15}, {3, 4, 6, 16, 22, 23}, {20, 21, 24}}
MCSlaves == {0, 1}
MCBroadcast == {0}
MCTxSizes == {3, 6, 11, 253}

Base == [to |-> 1, fn |-> 0, addr |-> 0, qty |-> 1, vals |-> <<>>, raddr |-> 0, rqty |-> 0,
         bytes |-> TRUE, parts |-> <<>>]
On == {0}
ReadRequests == {[Base EXCEPT !.fn = f, !.addr = a, !.qty = q] :
                    f \in 1..4, a \in 0..2, q \in 0..3}
WriteRequests == {[Base EXCEPT !.fn = f, !.addr = a, !.vals = <<w>>] :
                    f \in {5, 6}, a \in {1, 2}, w \in {On, {1}}}
MultiRequests == {[Base EXCEPT !.fn = f, !.addr = a, !.qty = q, !.vals = SubSeq(v, 1, q), !.bytes = b] :
                    f \in {15, 16}, a \in 0..1, q \in 0..2, v \in {<<On, {}>>}, b \in BOOLEAN}
MaskRequests == {[Base EXCEPT !.fn = 22, !.addr = a, !.vals = <<m, w>>] :
                    a \in {0, 2}, m \in {{1}}, w \in {{1}, {0, 1}}}
BothRequests == {[Base EXCEPT !.fn = 23, !.addr = a, !.qty = q, !.vals = SubSeq(<<On, {}>>, 1, q),
                              !.raddr = ra, !.rqty = rq] :
                    a \in 0..1, q \in 1..2, ra \in {1, 2}, rq \in 0..2}
Part(f, a, q, v) == [space |-> f, addr |-> a, qty |-> q, vals |-> v]
ReadParts == {Part("file1", 0, 2, <<>>), Part("file1", 1, 1, <<>>), Part("file2", 0, 1, <<>>),
              Part("file2", 0, 2, <<>>), Part("file4", 0, 1, <<>>)}
ManyParts(n, q) == [i \in 1..n |-> Part("file3", 0, q, <<>>)]
WriteParts == {Part("file1", 0, 2, <<On, {}>>), Part("file1", 1, 1, <<On>>), Part("file2", 0, 1, <<{}>>)}
CutPart == Part("file1", 0, 2, <<On>>)
FileRequests ==
    {[Base EXCEPT !.fn = 20, !.parts = ps] : ps \in UNION {[1..n -> ReadParts] : n \in 0..2}}
    \cup {[Base EXCEPT !.fn = 20, !.parts = ManyParts(n[1], n[2])] :
             n \in {<<25, 4>>, <<26, 4>>, <<31, 3>>, <<32, 3>>}}
    \cup {[Base EXCEPT !.fn = 21, !.parts = ps] : ps \in UNION {[1..n -> WriteParts] : n \in 1..2}}
    \cup {[Base EXCEPT !.fn = 21, !.parts = <<p, CutPart>>] : p \in WriteParts}
FifoRequests == {[Base EXCEPT !.fn = 24, !.addr = a] : a \in 0..2}
OtherRequests == {[Base EXCEPT !.fn = 7]}
Broadcasts == {[r EXCEPT !.to = t] :
                 t \in {0, 2}, r \in {s \in WriteRequests : s.addr = 1} \cup OtherRequests}
MCRequests == ReadRequests \cup WriteRequests \cup MultiRequests \cup MaskRequests \cup BothRequests
              \cup FileRequests \cup FifoRequests \cup OtherRequests \cup Broadcasts
=============================================================================
