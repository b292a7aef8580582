------------------------------ MODULE AreaTable ------------------------------
(***************************************************************************)
(* emb::server::server_t and super_server_t (cpp-wrap/emodbus.cpp): the    *)
(* areas of registers, the files and the servers an application registers, *)
(* and how the one that a request is about is looked up among them.        *)
(*                                                                         *)
(* The four kinds of areas, the files and the servers are kept in a vector *)
(* each, in the order of their registration, and what is registered is a   *)
(* pointer: an object can still be given another range afterwards.  Files  *)
(* have a number and servers an address, which is `start' here.  All the   *)
(* 16-bit arithmetic is that of the code.                                  *)
(***************************************************************************)
EXTENDS Integers, Sequences

CONSTANTS Object,    \* the application's areas, files and servers
          Classes,   \* the classes they are of
          Starts,    \* the first addresses, file numbers and server addresses it uses
          Sizes,     \* the sizes it gives to its areas
          Address,   \* the addresses requests are about, files and servers by number
          Quantity,  \* the quantities of registers they are about
          NoObject,  \* the NULL pointer
          MaxListed  \* bound: the length of a vector

Bits == {"coils", "discrete_inputs"}
Regs == {"holding_regs", "input_regs"}
AreaClass == Bits \cup Regs
Class == AreaClass \cup {"file_record", "server"}

\* As many addresses and sizes as 16 bits can tell apart, 2^16.
Span == 65536

ASSUME ObjectAssumption == NoObject \notin Object /\ Classes \subseteq Class
ASSUME RangeAssumption  == Starts \subseteq 0..(Span - 1) /\ Sizes \subseteq 0..(Span - 1)
ASSUME RequestAssumption == Address \subseteq 0..(Span - 1) /\ Quantity \subseteq 1..(Span - 1)
ASSUME BoundAssumption  == MaxListed \in Nat

VARIABLES
    object,  \* the fields of each object
    listed,  \* the vectors of the servers: class -> objects in order
    changed  \* bookkeeping: the objects that were changed after they were listed

areasVars == <<object, listed, changed>>

Fields == [class : Classes, start : Starts, size : Sizes \cup {0},
           reads : BOOLEAN, writes : BOOLEAN]

AreasTypeOK ==
    /\ object \in [Object -> Fields]
    /\ listed \in [Class -> Seq(Object)]
    /\ \A k \in Class : /\ Len(listed[k]) <= MaxListed
                        /\ \A i \in DOMAIN listed[k] : object[listed[k][i]].class = k
    /\ changed \in SUBSET Object

-----------------------------------------------------------------------------
\* The constructors of the classes: a range, and the callbacks set_funcs puts
\* there.  (Those without arguments leave the range as the memory was.)
Fresh(class, start, size, reads, writes) ==
    [class |-> class, start |-> start, size |-> size, reads |-> reads, writes |-> writes]
Coils(start, size)          == Fresh("coils", start, size, TRUE, TRUE)
DiscreteInputs(start, size) == Fresh("discrete_inputs", start, size, TRUE, FALSE)
InputRegs(start, size)      == Fresh("input_regs", start, size, TRUE, FALSE)
HoldingRegs(start, size)    == Fresh("holding_regs", start, size, TRUE, TRUE)
FileRecord(fileno)          == Fresh("file_record", fileno, 0, TRUE, TRUE)
ServerAt(address)           == Fresh("server", address, 0, FALSE, FALSE)

New ==
    LET areas == UNION {{Coils(s, n), DiscreteInputs(s, n), InputRegs(s, n), HoldingRegs(s, n)} :
                           s \in Starts, n \in Sizes}
        others == UNION {{FileRecord(s), ServerAt(s)} : s \in Starts}
    IN  {c \in areas \cup others : c.class \in Classes}

\* emb_is_ranges_cross: the ends are those of 32 bits.
PointInRange(start, end, point) == start < point /\ point < end

\* Mutation of RangesCross: a range around the other one is not found.
RangesCrossOneWay(start1, size1, start2, size2) ==
    \/ PointInRange(start1, start1 + size1, start2)
    \/ PointInRange(start1, start1 + size1, start2 + size2)

\* Do two ranges cross?  (A range around the other counts, one like it does not.)
RangesCross(start1, size1, start2, size2) ==
    LET end1 == start1 + size1
        end2 == start2 + size2
    IN  \/ PointInRange(start1, end1, start2)
        \/ PointInRange(start1, end1, end2)
        \/ PointInRange(start2, end2, start1)
        \/ PointInRange(start2, end2, end1)

\* What keeps an object from being registered beside another of its class.
InTheWay(one, other) ==
    IF object[one].class \in AreaClass
    THEN RangesCross(object[one].start, object[one].size, object[other].start, object[other].size)
    ELSE object[one].start = object[other].start

\* Mutation of Holds: the end is the first address behind the area.
HoldsOneMore(o, address) ==
    /\ object[o].start <= address
    /\ IF object[o].class \in AreaClass
       THEN address <= (object[o].start + object[o].size) % Span
       ELSE address = object[o].start

\* Is this the area, the file or the server with that address?  The end of an
\* area is its last address, in 16 bits.
Holds(o, address) ==
    /\ object[o].start <= address
    /\ IF object[o].class \in AreaClass
       THEN address <= (object[o].start + object[o].size - 1) % Span
       ELSE address = object[o].start

\* get_coils, get_discrete_inputs, get_holding_regs, get_input_regs, get_file
\* and _get_server: the first one that is.
Find(class, address) ==
    LET found == {i \in DOMAIN listed[class] : Holds(listed[class][i], address)}
    IN  IF found = {} THEN NoObject
        ELSE listed[class][CHOOSE i \in found : \A j \in found : i <= j]

\* What the handlers of server/*.c ask the area for that they found: the first
\* of qty registers, counted from its start.  Those of functions 5, 6 and 22,
\* which are about a single register, do not look at the end of the area.
Single == "single"
Several == "several"
Callback(class, address, qty, form) ==
    LET o == Find(class, address)
    IN  IF o = NoObject \/ (form = Several /\ object[o].start + object[o].size < address + qty)
        THEN [area |-> NoObject, offset |-> 0, qty |-> 0]
        ELSE [area |-> o, offset |-> address - object[o].start, qty |-> qty]

-----------------------------------------------------------------------------
\* The constructors of the objects and of the servers: nothing is registered.
AreasInit ==
    /\ object \in [Object -> New]
    /\ listed = [k \in Class |-> <<>>]
    /\ changed = {}

Refused(o) == \E i \in DOMAIN listed[object[o].class] : InTheWay(listed[object[o].class][i], o)

\* Mutation of Add: whatever is added is put beside the holding registers.
AddToHoldings(o) ==
    /\ ~Refused(o)
    /\ Len(listed["holding_regs"]) < MaxListed
    /\ listed' = [listed EXCEPT !["holding_regs"] = Append(@, o)]
    /\ UNCHANGED <<object, changed>>

\* Mutation of Add: the vector grows at its front.
AddInFront(o) ==
    /\ ~Refused(o)
    /\ Len(listed[object[o].class]) < MaxListed
    /\ listed' = [listed EXCEPT ![object[o].class] = <<o>> \o @]
    /\ UNCHANGED <<object, changed>>

\* add_coils, add_discrete_inputs, add_holding_regs, add_input_regs; add_file
\* and add_server are in the same form.  One that is in the way of another is
\* refused, and nothing changes.
Add(o) ==
    /\ ~Refused(o)
    /\ Len(listed[object[o].class]) < MaxListed
    /\ listed' = [listed EXCEPT ![object[o].class] = Append(@, o)]
    /\ UNCHANGED <<object, changed>>
Refuse(o) == Refused(o) /\ UNCHANGED areasVars

IsListed(o) == \E i \in DOMAIN listed[object[o].class] : listed[object[o].class][i] = o

Change(o, fields) ==
    /\ object' = [object EXCEPT ![o] = fields]
    /\ changed' = IF IsListed(o) THEN changed \cup {o} ELSE changed
    /\ UNCHANGED listed

\* set_start of an area, set_fileno of a file; set_size.
SetStart(o, start) ==
    /\ object[o].class # "server"
    /\ Change(o, [object[o] EXCEPT !.start = start])

SetSize(o, size) ==
    /\ object[o].class \in AreaClass
    /\ Change(o, [object[o] EXCEPT !.size = size])

AreasNext ==
    \/ \E o \in Object : Add(o) \/ Refuse(o)
    \/ \E o \in Object, start \in Starts : SetStart(o, start)
    \/ \E o \in Object, size \in Sizes : SetSize(o, size)

AreasSpec == AreasInit /\ [][AreasNext]_areasVars

-----------------------------------------------------------------------------
\* Two areas of a kind that were registered and left as they were have no
\* address in common, unless they are the same range (which the strict
\* comparisons of emb_is_ranges_cross do not see); files and servers have
\* numbers of their own.  This is what AreasAssumption of Server takes
\* for granted.
Shared(a, b) ==
    /\ a.start < b.start + b.size
    /\ b.start < a.start + a.size
    /\ a.size > 0 /\ b.size > 0
KeptApart ==
    \A k \in Class : \A i, j \in DOMAIN listed[k] :
        LET a == listed[k][i]
            b == listed[k][j]
        IN  i # j /\ a \notin changed /\ b \notin changed =>
                IF k \in AreaClass
                THEN Shared(object[a], object[b]) =>
                        /\ object[a].start = object[b].start
                        /\ object[a].size = object[b].size
                ELSE object[a].start # object[b].start

\* The invariant of the areas: types, and areas that are kept apart.
AreasInv == AreasTypeOK /\ KeptApart

\* Whatever was registered and changed since, the registers an area is asked
\* for are its own, and none has an address above 0xFFFF: an area that goes
\* beyond it is not found at all.  There is one exception: an area of no
\* registers at address 0 seems to go up to 0xFFFF, and the functions that do
\* not look at the end write to it.
ServedInside ==
    \A k \in AreaClass \cap Classes, address \in Address, qty \in Quantity,
       form \in {Single, Several} :
        LET c == Callback(k, address, IF form = Single THEN 1 ELSE qty, form)
            a == object[c.area]
        IN  c.area # NoObject =>
                \/ /\ c.offset >= 0 /\ c.offset + c.qty <= a.size
                   /\ a.start + c.offset = address
                   /\ address + c.qty <= Span
                \/ form = Single /\ a.start = 0 /\ a.size = 0

\* A registration does not take an address from the area, the file or the
\* server that had it: as long as no object is changed, a register that was
\* written is read back from the same area, overlapping ones or not.
NoTakeover ==
    [][\A k \in Classes, address \in Address :
          object' = object /\ Find(k, address) # NoObject
              => Find(k, address)' = Find(k, address)]_areasVars
=============================================================================
