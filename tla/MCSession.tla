------------------------------ MODULE MCSession ------------------------------
(***************************************************************************)
(* Session for TLC: two holding registers, two coils, a file of two        *)
(* registers and one of four, a FIFO of two, and 125 input registers, as   *)
(* many as a request can be about.  The quantities are small where         *)
(* registers are written and otherwise at the limits of the protocol, one  *)
(* beyond them, and where the size of a PDU passes 255 (26 times four      *)
(* registers also wrap the counter of function 20).  An application makes  *)
(* the calls of one menu; the one that mixes them has few of each.         *)
(***************************************************************************)
EXTENDS Session

Area(kind, start, size, writes) ==
    [kind |-> kind, start |-> start, size |-> size, reads |-> TRUE, writes |-> writes]
MCAreas == {Area("holding", 0, 2, TRUE), Area("coil", 0, 2, TRUE), Area("input", 0, 125, FALSE)}
MCFiles == {Area("file1", 0, 2, TRUE), Area("file2", 0, 4, FALSE)}
MCFileNumbers == {"file1", "file2"}
MCKinds == {"holding", "coil", "input", "file", "fifo"}
MCTables == {{1, 2, 3, 4, 5, 6, 15, 16, 20, 21, 22, 23, 24}}
MCSlaves == {0, 1}
MCBroadcast == {0}
MCTxSizes == {253}

On == {0}
Words(n) == [i \in 1..n |-> {1}]
Ask(do, by, fn, addr, qty, vals) ==
    [do |-> do, by |-> by, r |-> [Blank EXCEPT !.fn = fn, !.addr = addr, !.qty = qty, !.vals = vals]]
Proxy(fn, addr, qty, vals) == Ask("plain", "proxy", fn, addr, qty, vals)
App(fn, addr, qty, vals) == Ask("plain", "app", fn, addr, qty, vals)
Both(by, addr, qty, raddr, rqty) ==
    [do |-> "plain", by |-> by,
     r |-> [Blank EXCEPT !.fn = 23, !.addr = addr, !.qty = qty, !.vals = Words(qty),
                         !.raddr = raddr, !.rqty = rqty]]
Part(addr, qty, vals) == [space |-> "file1", addr |-> addr, qty |-> qty, vals |-> vals]
Fours(n) == [i \in 1..n |-> [space |-> "file2", addr |-> 0, qty |-> 4, vals |-> <<>>]]
FileCall(by, fn, parts) ==
    [do |-> "plain", by |-> by, r |-> [Blank EXCEPT !.fn = fn, !.parts = parts]]
Everyone(c) == [c EXCEPT !.r.to = 0]

Registers ==
    {Proxy(3, 0, 2, <<>>), Proxy(6, 1, 1, <<{1}>>), Proxy(16, 0, 2, <<{0}, {1}>>),
     Proxy(16, 0, 0, <<>>), Both("proxy", 0, 1, 0, 2),
     Ask("or", "proxy", 22, 0, 1, <<{1}>>), Ask("and", "proxy", 22, 0, 1, <<{0}>>),
     Ask("clear bit", "proxy", 22, 1, 1, <<{1}>>), Everyone(Proxy(6, 0, 1, <<{}>>))}
Coils ==
    {Proxy(1, 0, 2, <<>>), Proxy(1, 0, 2001, <<>>), Proxy(5, 0, 1, <<On>>), Proxy(5, 1, 1, <<{}>>),
     App(15, 0, 2, <<On, {}>>), App(15, 0, 0, <<>>), App(1, 0, 2000, <<>>),
     Everyone(Proxy(1, 0, 2, <<>>)), Proxy(2, 0, 1, <<>>)}
FilesAndFifos ==
    {FileCall("proxy", 20, <<Part(0, 1, <<>>), Part(1, 1, <<>>)>>),
     FileCall("proxy", 20, [i \in 1..35 |-> Part(0, 1, <<>>)]),
     FileCall("proxy", 20, [i \in 1..36 |-> Part(0, 1, <<>>)]),
     FileCall("proxy", 21, <<Part(0, 2, Words(2))>>),
     FileCall("proxy", 21, <<Part(1, 1, <<{0}>>)>>),
     FileCall("proxy", 21, <<Part(0, 122, Words(122))>>),
     FileCall("app", 21, <<Part(0, 2, <<{}, {}>>), Part(1, 1, <<{1}>>)>>),
     Everyone(FileCall("proxy", 21, <<Part(0, 1, <<{1}>>), Part(1, 1, <<{1}>>)>>)),
     Proxy(24, 0, 1, <<>>), App(24, 0, 1, <<>>)}
Limits ==
    {Proxy(4, 0, 125, <<>>), Proxy(4, 0, 126, <<>>),
     Proxy(16, 0, 123, Words(123)), Proxy(16, 0, 124, Words(124)), Proxy(16, 0, 126, Words(126)),
     Both("app", 0, 121, 0, 1),
     FileCall("proxy", 20, <<Part(0, 127, <<>>)>>), FileCall("proxy", 20, Fours(24)),
     FileCall("proxy", 20, Fours(26)),
     Ask("set bit", "proxy", 22, 1, 1, <<{0}>>)}
MCMenus == {Registers, Coils, FilesAndFifos, Limits}
=============================================================================
