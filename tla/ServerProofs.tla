---------------------------- MODULE ServerProofs ----------------------------
(***************************************************************************)
(* Three components, for every value of their constants.  Server: its      *)
(* invariant, and that it keeps the promise of RegisterFile.  Session: its *)
(* invariant, what the protocol allows goes through, and that it keeps the *)
(* promise of RemoteRegisters.  AreaTable: its invariant, and that a block *)
(* of registers is found where it was placed and nowhere else.             *)
(*                                                                         *)
(* Each handler of the server is a lemma about its Outcome: it changes     *)
(* nothing, or does what was promised, or tears as it may.  Serve makes a  *)
(* step of it.  The sums and the writes over the parts of a request are    *)
(* recursive functions; what they compute follows from Upwards, induction  *)
(* as a statement about sets.                                              *)
(***************************************************************************)
EXTENDS Session, AreaTable, WellFoundedInduction, TLAPS

\* Induction up to n, as a statement about sets.
LEMMA Upwards ==
    ASSUME NEW n \in Nat, NEW T, 0 \in T, \A i \in 0..(n - 1) : i \in T => i + 1 \in T
    PROVE  0..n \subseteq T
<1> SUFFICES ASSUME NEW m \in 0..n, m \notin T PROVE FALSE
    OBVIOUS
<1> DEFINE Bad == {i \in Nat : i <= n /\ i \notin T}
<1>1. Bad \subseteq Nat /\ m \in Bad
    OBVIOUS
<1>2. PICK x \in Bad : \A y \in Bad : ~(<<y, x>> \in OpToRel(<, Nat))
    BY <1>1, NatLessThanWellFounded, WFMin, Zenon
<1>3. \A y \in Bad : ~(y < x)
    BY <1>2 DEF OpToRel
<1>4. x # 0 /\ x - 1 \in 0..(n-1) /\ x - 1 \in Nat
    OBVIOUS
<1>5. x - 1 \in T
    BY <1>3, <1>4
<1> QED
    BY <1>4, <1>5

\* f[i] is what i steps of g make of a.
Steps(n, S) == [(1..n) \X S -> S]
Computes(f, n, S, a, g) ==
    f \in [0..n -> S] /\ f[0] = a /\ \A i \in 1..n : f[i] = g[<<i, f[i - 1]>>]

\* There is such a function.
LEMMA Recursion ==
    ASSUME NEW n \in Nat, NEW S, NEW a \in S, NEW g \in Steps(n, S)
    PROVE  \E f : Computes(f, n, S, a, g)
<1>0. g \in [(1..n) \X S -> S]
    BY DEF Steps
<1> DEFINE Good(f, m) == /\ f \in [0..m -> S]
                         /\ f[0] = a
                         /\ \A i \in 1..m : f[i] = g[<<i, f[i - 1]>>]
           T == {m \in 0..n : \E f : Good(f, m)}
<1>1. 0 \in T
  <2>1. Good([i \in 0..0 |-> a], 0)
      OBVIOUS
  <2> HIDE DEF Good
  <2>2. \E f : Good(f, 0)
      BY <2>1
  <2> QED
      BY <2>2
<1>2. ASSUME NEW m \in 0..(n - 1), m \in T PROVE m + 1 \in T
  <2>1. PICK f : Good(f, m)
      BY <1>2
  <2> DEFINE h == [i \in 0..(m + 1) |-> IF i = m + 1 THEN g[<<m + 1, f[m]>>] ELSE f[i]]
  <2>2. /\ m \in Nat /\ m + 1 \in 1..n /\ m + 1 \in 0..n
        /\ m \in 0..m /\ m \in 0..(m + 1) /\ m + 1 \in 0..(m + 1) /\ 0 \in 0..(m + 1)
        /\ m # m + 1 /\ 0 # m + 1
      OBVIOUS
  <2>3. f \in [0..m -> S] /\ f[m] \in S /\ g[<<m + 1, f[m]>>] \in S
      BY <1>0, <2>1, <2>2
  <2>4. h \in [0..(m + 1) -> S]
      BY <2>2, <2>3
  <2>5. h[0] = a /\ h[m + 1] = g[<<m + 1, h[m]>>]
      BY <2>1, <2>2
  <2>6. \A i \in 1..m : h[i] = f[i] /\ h[i - 1] = f[i - 1]
      BY <2>2
  <2>7. \A i \in 1..(m + 1) : h[i] = g[<<i, h[i - 1]>>]
    <3> SUFFICES ASSUME NEW i \in 1..(m + 1) PROVE h[i] = g[<<i, h[i - 1]>>]
        OBVIOUS
    <3>1. CASE i \in 1..m
        BY <2>1, <2>6, <3>1
    <3>2. CASE i = m + 1
      <4>1. i - 1 = m
          BY <2>2, <3>2
      <4> QED
          BY <2>5, <3>2, <4>1
    <3> QED
        BY <2>2, <3>1, <3>2
  <2>8. Good(h, m + 1)
      BY <2>4, <2>5, <2>7
  <2> HIDE DEF Good, h
  <2>9. \E k : Good(k, m + 1)
      BY <2>8
  <2> QED
      BY <2>2, <2>9
<1>3. n \in T
  <2> HIDE DEF T
  <2> QED
      BY <1>1, <1>2, Upwards
<1>4. PICK f : Good(f, n)
    BY <1>3
<1> QED
    BY <1>4 DEF Computes

-----------------------------------------------------------------------------
\* The code of the first check that fails.
LEMMA Least ==
    ASSUME NEW n \in Nat, NEW S \in SUBSET (1..n), S # {}
    PROVE  Min(S) \in S /\ \A i \in S : Min(S) <= i
<1>1. S \subseteq Nat
    OBVIOUS
<1>2. PICK x \in S : \A y \in S : ~(<<y, x>> \in OpToRel(<, Nat))
    BY <1>1, NatLessThanWellFounded, WFMin, Zenon
<1>3. \A y \in S : ~(y < x)
    BY <1>1, <1>2 DEF OpToRel
<1>4. \A y \in S : x <= y
    BY <1>1, <1>3
<1> QED
    BY <1>4 DEF Min

\* The code of a handler is that of one of its checks, or all of them hold.
LEMMA FirstFailingFacts ==
    ASSUME NEW n \in Nat, NEW codes, DOMAIN codes = 1..n
    PROVE  \/ FirstFailing(codes) = 0 /\ \A i \in 1..n : codes[i] = 0
           \/ \E i \in 1..n : codes[i] # 0 /\ FirstFailing(codes) = codes[i]
<1> DEFINE failing == {i \in DOMAIN codes : codes[i] # 0}
<1>1. CASE failing = {}
    BY <1>1 DEF FirstFailing
<1>2. CASE failing # {}
  <2>1. Min(failing) \in failing
      BY <1>2, Least
  <2> QED
      BY <1>2, <2>1 DEF FirstFailing
<1> QED
    BY <1>1, <1>2

-----------------------------------------------------------------------------
\* What a recursive function over the parts of a request computes.
LEMMA FlattenFacts ==
    ASSUME NEW S, NEW seqs \in Seq(Seq(S))
    PROVE  \E f \in [0..Len(seqs) -> Seq(S)] :
              /\ f[0] = <<>>
              /\ \A i \in 1..Len(seqs) : f[i] = f[i - 1] \o seqs[i]
              /\ FlattenSeq(seqs) = f[Len(seqs)]
<1> DEFINE n == Len(seqs)
<1>1. CASE n = 0
  <2>1. seqs = <<>>
      BY <1>1
  <2> DEFINE f == [i \in 0..n |-> <<>>]
  <2>2. /\ f \in [0..n -> Seq(S)] /\ f[0] = <<>> /\ FlattenSeq(seqs) = f[n]
        /\ \A i \in 1..n : f[i] = f[i - 1] \o seqs[i]
      BY <1>1, <2>1 DEF FlattenSeq
  <2> QED
      BY <2>2
<1>2. CASE n # 0
  <2> DEFINE g == [x \in (1..n) \X Seq(S) |-> x[2] \o seqs[x[1]]]
  <2>1. n \in Nat /\ <<>> \in Seq(S) /\ \A i \in 1..n : seqs[i] \in Seq(S)
      OBVIOUS
  <2>2. g \in Steps(n, Seq(S))
      BY DEF Steps
  <2> HIDE DEF n
  <2>3. PICK f : Computes(f, n, Seq(S), <<>>, g)
    <3> HIDE DEF g
    <3> QED
        BY <2>1, <2>2, Recursion, Zenon
  <2>4. f \in [0..n -> Seq(S)] /\ \A i \in 1..n : f[i - 1] \in Seq(S)
      BY <2>1, <2>3 DEF Computes
  <2>5. \A i \in 1..n : f[i] = f[i - 1] \o seqs[i]
      BY <2>3, <2>4 DEF Computes
  <2>6. f[0] = <<>>
      BY <2>3 DEF Computes
  <2> DEFINE Body(h) == [i \in 1..n |-> IF i = 1 THEN seqs[i] ELSE h[i - 1] \o seqs[i]]
             h0 == [i \in 1..n |-> f[i]]
  <2>7. h0 = Body(h0)
    <3>1. 1 \in 1..n /\ 1 - 1 = 0 /\ <<>> \o seqs[1] = seqs[1]
        BY <1>2, <2>1
    <3> SUFFICES ASSUME NEW i \in 1..n PROVE f[i] = IF i = 1 THEN seqs[i] ELSE h0[i - 1] \o seqs[i]
        OBVIOUS
    <3>2. CASE i = 1
        BY <2>5, <2>6, <3>1, <3>2
    <3>3. CASE i # 1
      <4>1. i - 1 \in 1..n
          BY <2>1, <3>3
      <4> QED
          BY <2>5, <3>3, <4>1
    <3> QED
        BY <3>2, <3>3
  <2> DEFINE h1 == CHOOSE h : h = Body(h)
  <2>8. h1 = Body(h1)
    <3> HIDE DEF Body, h0
    <3> QED
        BY <2>7
  <2>9. \A i \in 1..n : h1[i] = IF i = 1 THEN seqs[i] ELSE h1[i - 1] \o seqs[i]
    <3> HIDE DEF h1
    <3> QED
        BY <2>8
  <2>10. FlattenSeq(seqs) = h1[n]
      BY <1>2 DEF FlattenSeq, n
  <2> DEFINE T == {i \in 0..n : i = 0 \/ h1[i] = f[i]}
  <2>11. 0 \in T
      BY <2>1
  <2>12. ASSUME NEW i \in 0..(n - 1), i \in T PROVE i + 1 \in T
    <3> HIDE DEF h1
    <3>1. i + 1 \in 1..n /\ i + 1 \in 0..n /\ (i + 1) - 1 = i /\ (i + 1 = 1 <=> i = 0)
        BY <2>1
    <3>2. h1[i + 1] = IF i = 0 THEN seqs[i + 1] ELSE h1[i] \o seqs[i + 1]
        BY <2>9, <3>1
    <3>3. f[i + 1] = f[i] \o seqs[i + 1]
        BY <2>5, <3>1
    <3>4. <<>> \o seqs[i + 1] = seqs[i + 1]
        BY <2>1, <3>1
    <3>5. h1[i + 1] = f[i + 1]
        BY <2>12, <2>6, <3>2, <3>3, <3>4
    <3> QED
        BY <3>1, <3>5
  <2>13. n \in T
    <3> HIDE DEF T
    <3>1. 0..n \subseteq T
        BY <2>1, <2>11, <2>12, Upwards
    <3> QED
        BY <2>1, <3>1
  <2>14. h1[n] = f[n]
      BY <1>2, <2>13
  <2> QED
      BY <2>4, <2>5, <2>6, <2>10, <2>14 DEF n
<1> QED
    BY <1>1, <1>2

\* What Sum computes.
LEMMA SumFacts ==
    ASSUME NEW n \in Nat, NEW sizes \in [1..n -> Nat]
    PROVE  \E f \in [0..n -> Nat] :
              /\ f = [i \in 0..n |-> IF i = 0 THEN 0 ELSE f[i - 1] + sizes[i]]
              /\ f[0] = 0
              /\ \A i \in 1..n : f[i] = f[i - 1] + sizes[i]
<1> DEFINE g == [x \in (1..n) \X Nat |-> x[2] + sizes[x[1]]]
<1>1. g \in Steps(n, Nat) /\ 0 \in Nat
    BY DEF Steps
<1>2. PICK f : Computes(f, n, Nat, 0, g)
  <2> HIDE DEF g
  <2> QED
      BY <1>1, Recursion
<1>3. f \in [0..n -> Nat] /\ \A i \in 1..n : f[i - 1] \in Nat
    BY <1>2 DEF Computes
<1>4. \A i \in 1..n : f[i] = f[i - 1] + sizes[i]
    BY <1>2, <1>3 DEF Computes
<1>5. f[0] = 0
    BY <1>2 DEF Computes
<1>6. f = [i \in 0..n |-> IF i = 0 THEN 0 ELSE f[i - 1] + sizes[i]]
  <2> SUFFICES ASSUME NEW i \in 0..n PROVE f[i] = IF i = 0 THEN 0 ELSE f[i - 1] + sizes[i]
      BY <1>3
  <2>1. i = 0 \/ i \in 1..n
      OBVIOUS
  <2> QED
      BY <1>3, <1>4, <1>5, <2>1
<1> QED
    BY <1>3, <1>4, <1>5, <1>6

\* The counter of function 20.
LEMMA CounterFacts ==
    ASSUME NEW parts \in Seq(PartFields)
    PROVE  LET c == SumUpTo(parts, LAMBDA p : 2 + 2 * p.qty)
           IN  /\ c \in [0..Len(parts) -> Nat]
               /\ c[0] = 0
               /\ \A i \in 1..Len(parts) : c[i] = c[i - 1] + (2 + 2 * parts[i].qty)
<1> DEFINE n == Len(parts)
           Body(f) == [i \in 0..n |-> IF i = 0 THEN 0 ELSE f[i - 1] + (2 + 2 * parts[i].qty)]
           sizes == [i \in 1..n |-> 2 + 2 * parts[i].qty]
           c == CHOOSE f : f = Body(f)
<1>1. n \in Nat /\ \A i \in 1..n : parts[i].qty \in Nat
  <2> SUFFICES ASSUME NEW i \in 1..n PROVE parts[i].qty \in Nat
      OBVIOUS
  <2>1. parts[i] \in PartFields
      OBVIOUS
  <2> QED
      BY <2>1 DEF PartFields
<1>2. sizes \in [1..n -> Nat]
    BY <1>1
<1>3. PICK f \in [0..n -> Nat] : f = [i \in 0..n |-> IF i = 0 THEN 0 ELSE f[i - 1] + sizes[i]]
  <2> HIDE DEF sizes, n
  <2> QED
      BY <1>1, <1>2, SumFacts
<1>4. f = Body(f)
  <2> SUFFICES ASSUME NEW i \in 0..n
               PROVE f[i] = IF i = 0 THEN 0 ELSE f[i - 1] + (2 + 2 * parts[i].qty)
      BY <1>3
  <2>1. i = 0 \/ i \in 1..n
      BY <1>1
  <2> QED
      BY <1>3, <2>1
<1>5. c = Body(c)
  <2> HIDE DEF Body
  <2> QED
      BY <1>4
<1>6. c = SumUpTo(parts, LAMBDA p : 2 + 2 * p.qty)
    BY DEF SumUpTo
<1> HIDE DEF c, n
<1>7. c[0] = 0 /\ \A i \in 1..n : c[i] = c[i - 1] + (2 + 2 * parts[i].qty)
  <2> DEFINE d == Body(c)
  <2>1. \A i \in 0..n : d[i] = IF i = 0 THEN 0 ELSE c[i - 1] + (2 + 2 * parts[i].qty)
      OBVIOUS
  <2>2. c = d
      BY <1>5
  <2> HIDE DEF d
  <2>3. \A i \in 0..n : c[i] = IF i = 0 THEN 0 ELSE c[i - 1] + (2 + 2 * parts[i].qty)
      BY <2>1, <2>2, Zenon
  <2>4. 0 \in 0..n /\ \A i \in 1..n : i \in 0..n /\ i # 0
      BY <1>1
  <2> QED
      BY <2>3, <2>4, Zenon
<1>8. DOMAIN c = 0..n
    BY <1>5
<1> DEFINE T == {i \in 0..n : c[i] \in Nat}
<1>9. 0 \in T
    BY <1>1, <1>7
<1>10. ASSUME NEW i \in 0..(n - 1), i \in T PROVE i + 1 \in T
  <2>1. i + 1 \in 1..n /\ (i + 1) - 1 = i
      BY <1>1
  <2>2. c[i + 1] = c[i] + (2 + 2 * parts[i + 1].qty) /\ c[i] \in Nat /\ parts[i + 1].qty \in Nat
      BY <1>1, <1>7, <1>10, <2>1
  <2>3. c[i + 1] \in Nat
      BY <2>2
  <2> QED
      BY <2>1, <2>3
<1>11. 0..n \subseteq T
  <2> HIDE DEF T
  <2> QED
      BY <1>1, <1>9, <1>10, Upwards
<1>12. c \in [0..n -> Nat]
    BY <1>5, <1>11
<1> QED
    BY <1>6, <1>7, <1>12 DEF n

\* So the sub-responses end one after the other.
LEMMA PartEndsFacts ==
    ASSUME NEW r, r.parts \in Seq(PartFields)
    PROVE  LET ends == PartEnds(r)
               n == Len(r.parts)
           IN  /\ n \in Nat /\ ends \in [0..n -> Nat] /\ ends[0] = 0
               /\ \A i \in 1..n : r.parts[i].qty \in Nat /\ ends[i] = ends[i - 1] + (2 + 2 * r.parts[i].qty)
               /\ \A i \in 0..n : ends[i] <= ends[n]
<1> DEFINE ends == PartEnds(r)
           n == Len(r.parts)
<1>1. n \in Nat
    OBVIOUS
<1>2. ASSUME NEW i \in 1..n PROVE r.parts[i].qty \in Nat
  <2>1. r.parts[i] \in PartFields
      OBVIOUS
  <2> QED
      BY <2>1 DEF PartFields
<1>3. /\ ends \in [0..n -> Nat] /\ ends[0] = 0
      /\ \A i \in 1..n : ends[i] = ends[i - 1] + (2 + 2 * r.parts[i].qty)
    BY CounterFacts DEF PartEnds
<1> HIDE DEF ends, n
<1> DEFINE T == {k \in 0..n : ends[n - k] <= ends[n]}
<1>4. 0 \in T
    BY <1>1, <1>3
<1>5. ASSUME NEW k \in 0..(n - 1), k \in T PROVE k + 1 \in T
  <2>1. n - k \in 1..n /\ (n - k) - 1 = n - (k + 1) /\ k + 1 \in 0..n /\ n - (k + 1) \in 0..n
      BY <1>1
  <2>2. ends[n - k] = ends[n - (k + 1)] + (2 + 2 * r.parts[n - k].qty) /\ r.parts[n - k].qty \in Nat
      BY <1>2, <1>3, <2>1
  <2>3. ends[n - (k + 1)] \in Nat /\ ends[n] \in Nat /\ n \in 0..n /\ ends[n - k] <= ends[n]
      BY <1>1, <1>3, <1>5, <2>1
  <2>4. ends[n - (k + 1)] <= ends[n]
    <3> DEFINE a == ends[n - (k + 1)]
               b == ends[n - k]
               c == ends[n]
               q == r.parts[n - k].qty
    <3>1. a \in Nat /\ c \in Nat /\ q \in Nat /\ b = a + (2 + 2 * q) /\ b <= c
        BY <2>2, <2>3
    <3> HIDE DEF a, b, c, q
    <3>2. a <= c
        BY <3>1
    <3> QED
        BY <3>2 DEF a, c
  <2> QED
      BY <2>1, <2>4
<1>6. 0..n \subseteq T
  <2> HIDE DEF T
  <2> QED
      BY <1>1, <1>4, <1>5, Upwards
<1>7. ASSUME NEW i \in 0..n PROVE ends[i] <= ends[n]
  <2>1. n - i \in 0..n /\ n - (n - i) = i
      BY <1>1
  <2>2. n - i \in T
      BY <1>6, <2>1
  <2> QED
      BY <2>1, <2>2
<1> QED
    BY <1>1, <1>2, <1>3, <1>7 DEF ends, n

-----------------------------------------------------------------------------
\* The cells of the application and those of the master are the same.
AllAreas == Areas \cup Files \cup {Fifo}
MemOf(st) == [x \in Cells |-> st[CellAt[x]]]

\* Areas, files and the FIFO are where numbers are.
LEMMA AreaFacts ==
    /\ \A a \in AllAreas : a.start \in Nat /\ a.size \in Nat
    /\ \A a \in Areas \cup Files : a.size > 0 /\ a # NoArea /\ a.kind # "fifo"
    /\ \A a \in Areas : a.kind \in Spaces
    /\ \A a \in Files : a.kind \in FileNumbers /\ a.kind \notin Spaces /\ a.start = 0
<1>1. Fifo.start = 0 /\ Fifo.size \in Nat
    BY FifoAssumption DEF FifoAssumption, Fifo
<1>2. ASSUME NEW a \in Areas
      PROVE  /\ a.start \in Nat /\ a.size \in Nat /\ a.size > 0 /\ a.kind \in Spaces
             /\ a.kind # "fifo"
    BY AreasAssumption DEF AreasAssumption, Spaces
<1>3. ASSUME NEW a \in Files
      PROVE  /\ a.start = 0 /\ a.size \in Nat /\ a.size > 0 /\ a.kind \in FileNumbers
             /\ a.kind \notin Spaces /\ a.kind # "fifo"
    BY FilesAssumption DEF FilesAssumption
<1>4. NoArea.size = 0
    BY DEF NoArea
<1> QED
    BY <1>1, <1>2, <1>3, <1>4 DEF AllAreas

\* No two of them have a cell in common.
LEMMA CellsApart ==
    ASSUME NEW a \in AllAreas, NEW b \in AllAreas,
           NEW o \in 0..(a.size - 1), NEW q \in 0..(b.size - 1),
           a.kind = b.kind, a.start + o = b.start + q
    PROVE  a = b /\ o = q
<1>1. a.start \in Nat /\ a.size \in Nat /\ b.start \in Nat /\ b.size \in Nat
    BY AreaFacts
<1>2. a = b
  <2>1. CASE a \in Areas \cup Files /\ b \in Areas \cup Files
    <3> SUFFICES ASSUME a # b PROVE FALSE
        OBVIOUS
    <3>1. a.start + a.size <= b.start \/ b.start + b.size <= a.start
        BY <2>1, ApartAssumption DEF ApartAssumption
    <3> QED
        BY <1>1, <3>1
  <2>2. CASE a = Fifo \/ b = Fifo
    <3>1. Fifo.kind = "fifo"
        BY DEF Fifo
    <3> QED
        BY <2>2, <3>1, AreaFacts DEF AllAreas
  <2> QED
      BY <2>1, <2>2 DEF AllAreas
<1> QED
    BY <1>1, <1>2

\* The registers in the store are those of the areas.
LEMMA CellFacts ==
    /\ \A a \in AllAreas : \A o \in 0..(a.size - 1) : <<a, o>> \in CellSet
    /\ \A c \in CellSet : c[1] \in AllAreas /\ c[2] \in 0..(c[1].size - 1) /\ c = <<c[1], c[2]>>
BY DEF CellSet, AllAreas

\* A cell belongs to one register of one area.
LEMMA CellAtFacts ==
    /\ \A a \in AllAreas : \A o \in 0..(a.size - 1) :
          <<a.kind, a.start + o>> \in Cells /\ CellAt[<<a.kind, a.start + o>>] = <<a, o>>
    /\ \A x \in Cells : \E a \in AllAreas : \E o \in 0..(a.size - 1) : x = <<a.kind, a.start + o>>
<1>1. ASSUME NEW a \in AllAreas, NEW o \in 0..(a.size - 1)
      PROVE  <<a.kind, a.start + o>> \in Cells /\ CellAt[<<a.kind, a.start + o>>] = <<a, o>>
  <2> DEFINE x == <<a.kind, a.start + o>>
             d == CHOOSE c \in CellSet : x = <<c[1].kind, c[1].start + c[2]>>
             k == <<a, o>>
  <2>1. k \in CellSet /\ x = <<k[1].kind, k[1].start + k[2]>>
      BY CellFacts
  <2>2. x \in Cells
      BY <2>1 DEF Cells
  <2>3. CellAt[x] = d
      BY <2>2 DEF CellAt
  <2>4. d \in CellSet /\ x = <<d[1].kind, d[1].start + d[2]>>
    <3> HIDE DEF k
    <3> QED
        BY <2>1
  <2> HIDE DEF d
  <2>5. d[1] \in AllAreas /\ d[2] \in 0..(d[1].size - 1) /\ d = <<d[1], d[2]>>
      BY <2>4, CellFacts
  <2>6. a.kind = d[1].kind /\ a.start + o = d[1].start + d[2]
      BY <2>4
  <2>7. a = d[1] /\ o = d[2]
      BY <2>5, <2>6, CellsApart
  <2> QED
      BY <2>2, <2>3, <2>5, <2>7
<1>2. ASSUME NEW x \in Cells
      PROVE  \E a \in AllAreas : \E o \in 0..(a.size - 1) : x = <<a.kind, a.start + o>>
  <2>1. PICK c \in CellSet : x = <<c[1].kind, c[1].start + c[2]>>
      BY DEF Cells
  <2> QED
      BY <2>1, CellFacts
<1> QED
    BY <1>1, <1>2

\* What a cell holds is what the register holds.
LEMMA MemFacts ==
    ASSUME NEW st, NEW a \in AllAreas, NEW o \in 0..(a.size - 1)
    PROVE  <<a.kind, a.start + o>> \in Cells /\ MemOf(st)[<<a.kind, a.start + o>>] = st[<<a, o>>]
BY CellAtFacts DEF MemOf

\* A function on 1..n is a sequence.
LEMMA IsASeq ==
    ASSUME NEW S, NEW n \in Nat, NEW s \in [1..n -> S]
    PROVE  s \in Seq(S) /\ Len(s) = n /\ DOMAIN s = 1..n
OBVIOUS

\* What is loaded and stored by area and offset is what is read and written by
\* space and address.
Words(st) == st \in [CellSet -> Word]

\* Registers read from an area are the cells that were asked for.
LEMMA LoadFacts ==
    ASSUME NEW st, Words(st), NEW a \in AllAreas, NEW offset \in Nat, NEW n \in Nat,
           offset + n <= a.size, NEW s, s.space = a.kind, s.addr = a.start + offset, s.qty = n
    PROVE  /\ Load(st, a, offset, n) \in Seq(Word) /\ Len(Load(st, a, offset, n)) = n
           /\ Promise!Get(MemOf(st), Promise!cellsOf(s)) = Load(st, a, offset, n)
           /\ Promise!Range(Promise!cellsOf(s)) \subseteq Cells
           /\ Promise!cellsOf(s) \in Seq(Cells)
<1> DEFINE cells == Promise!cellsOf(s)
<1>1. a.start \in Nat /\ a.size \in Nat
    BY AreaFacts
<1>2. ASSUME NEW i \in 1..n
      PROVE  /\ offset + i - 1 \in 0..(a.size - 1)
             /\ <<a, offset + i - 1>> \in CellSet
             /\ a.start + offset + i - 1 = a.start + (offset + i - 1)
  <2>1. offset + i - 1 \in 0..(a.size - 1)
      BY <1>1
  <2>2. a.start + offset + i - 1 = a.start + (offset + i - 1)
      BY <1>1
  <2> QED
      BY <2>1, <2>2, CellFacts
<1>3. cells = [i \in 1..n |-> <<a.kind, a.start + offset + i - 1>>]
    BY DEF Promise!cellsOf
<1>4. ASSUME NEW i \in 1..n
      PROVE  cells[i] \in Cells /\ MemOf(st)[cells[i]] = st[<<a, offset + i - 1>>]
  <2>1. cells[i] = <<a.kind, a.start + (offset + i - 1)>>
      BY <1>2, <1>3
  <2> QED
      BY <1>2, <2>1, MemFacts
<1>5. Load(st, a, offset, n) = [i \in 1..n |-> st[<<a, offset + i - 1>>]]
    BY DEF Load
<1>6. \A i \in 1..n : st[<<a, offset + i - 1>>] \in Word
    BY <1>2 DEF Words
<1>7. Load(st, a, offset, n) \in Seq(Word) /\ Len(Load(st, a, offset, n)) = n
  <2>1. Load(st, a, offset, n) \in [1..n -> Word]
      BY <1>5, <1>6
  <2> HIDE DEF Words
  <2> QED
      BY <2>1, IsASeq
<1>8. DOMAIN cells = 1..n
    BY <1>3
<1> HIDE DEF cells
<1>9. Promise!Get(MemOf(st), cells) = Load(st, a, offset, n)
    BY <1>4, <1>5, <1>8 DEF Promise!Get
<1>10. Promise!Range(cells) \subseteq Cells /\ cells \in Seq(Cells)
  <2>1. cells \in [1..n -> Cells]
      BY <1>3, <1>4, <1>8
  <2> QED
      BY <2>1, IsASeq DEF Promise!Range
<1> QED
    BY <1>7, <1>9, <1>10 DEF cells

\* Registers written to an area are the cells that were asked for, and no others.
LEMMA StoreFacts ==
    ASSUME NEW st, Words(st), NEW a \in AllAreas, NEW offset \in Nat, NEW n \in Nat,
           offset + n <= a.size, NEW s, s.space = a.kind, s.addr = a.start + offset, s.qty = n,
           NEW vals \in Seq(Word), Len(vals) <= n
    PROVE  /\ Words(Store(st, a, offset, vals))
           /\ MemOf(Store(st, a, offset, vals))
                 = Promise!Put(MemOf(st), Promise!cellsOf(s), vals)
<1> DEFINE cells == Promise!cellsOf(s)
           st1 == Store(st, a, offset, vals)
<1>1. a.start \in Nat /\ a.size \in Nat /\ Len(vals) \in Nat /\ DOMAIN vals = 1..Len(vals)
    BY AreaFacts
<1>2. /\ DOMAIN st1 = CellSet
      /\ \A c \in CellSet : st1[c] = IF c[1] = a /\ c[2] - offset + 1 \in 1..Len(vals)
                                     THEN vals[c[2] - offset + 1] ELSE st[c]
    BY <1>1 DEF Store, Words
<1>3. Words(st1)
  <2>1. st1 = [c \in CellSet |-> st1[c]]
      BY <1>1 DEF Store, Words
  <2> HIDE DEF st1
  <2>2. \A c \in CellSet : st1[c] \in Word
      BY <1>1, <1>2 DEF Words
  <2> QED
      BY <2>1, <2>2 DEF Words
<1>4. /\ DOMAIN cells = 1..n
      /\ \A i \in 1..n : cells[i] = <<a.kind, a.start + offset + i - 1>>
    BY DEF Promise!cellsOf
<1>5. \A i, j \in 1..n : cells[i] = cells[j] => i = j
    BY <1>1, <1>4, SMTT(30)
<1> HIDE DEF cells, st1
<1>6. DOMAIN MemOf(st) = Cells /\ DOMAIN MemOf(st1) = Cells
      /\ MemOf(st1) = [x \in Cells |-> MemOf(st1)[x]]
    BY DEF MemOf
<1>7. ASSUME NEW x \in Cells
      PROVE  MemOf(st1)[x] = IF \E i \in DOMAIN cells \cap DOMAIN vals : cells[i] = x
                             THEN vals[CHOOSE i \in DOMAIN cells : cells[i] = x] ELSE MemOf(st)[x]
  <2>0. PICK b \in AllAreas : \E o \in 0..(b.size - 1) : x = <<b.kind, b.start + o>>
      BY CellAtFacts
  <2>1. PICK o \in 0..(b.size - 1) : x = <<b.kind, b.start + o>>
      BY <2>0
  <2>2. <<b, o>> \in CellSet /\ MemOf(st)[x] = st[<<b, o>>] /\ MemOf(st1)[x] = st1[<<b, o>>]
      BY <2>1, CellFacts, MemFacts
  <2>3. st1[<<b, o>>] = IF b = a /\ o - offset + 1 \in 1..Len(vals)
                        THEN vals[o - offset + 1] ELSE st[<<b, o>>]
      BY <1>2, <2>2
  <2>4. CASE \E i \in DOMAIN cells \cap DOMAIN vals : cells[i] = x
    <3>1. PICK i \in 1..n : i \in 1..Len(vals) /\ cells[i] = x
        BY <1>1, <1>4, <2>4
    <3>2. offset + i - 1 \in 0..(a.size - 1)
        BY <1>1
    <3>3. a.kind = b.kind /\ a.start + (offset + i - 1) = b.start + o
        BY <1>1, <1>4, <2>1, <3>1, SMTT(30)
    <3>4. a = b /\ offset + i - 1 = o
        BY <3>2, <3>3, CellsApart
    <3>5. o - offset + 1 = i
        BY <3>4
    <3>6. (CHOOSE j \in DOMAIN cells : cells[j] = x) = i
        BY <1>4, <1>5, <3>1
    <3> QED
        BY <2>2, <2>3, <2>4, <3>1, <3>4, <3>5, <3>6
  <2>5. CASE ~ \E i \in DOMAIN cells \cap DOMAIN vals : cells[i] = x
    <3>1. ASSUME b = a, o - offset + 1 \in 1..Len(vals) PROVE FALSE
      <4> DEFINE i == o - offset + 1
      <4>1. i \in 1..n /\ i \in 1..Len(vals)
          BY <1>1, <3>1
      <4>2. a.start + offset + i - 1 = b.start + o
          BY <1>1, <3>1
      <4> QED
          BY <1>1, <1>4, <2>1, <2>5, <3>1, <4>1, <4>2
    <3> QED
        BY <2>2, <2>3, <2>5, <3>1
  <2> QED
      BY <2>4, <2>5
<1>8. MemOf(st1) = Promise!Put(MemOf(st), cells, vals)
    BY <1>6, <1>7 DEF Promise!Put
<1> QED
    BY <1>3, <1>8 DEF st1, cells

-----------------------------------------------------------------------------
\* Byte order: swapped twice is as it was.
LEMMA SwapFacts == ASSUME NEW w \in Word PROVE Swap(w) \in Word /\ Swap(Swap(w)) = w
<1>1. w \subseteq {0, 1}
    BY DEF Word
<1>2. \A b \in w : 1 - (1 - b) = b
    BY <1>1
<1>3. Swap(w) \in Word
    BY <1>1 DEF Swap, Word
<1>4. \A x : x \in Swap(Swap(w)) <=> \E b \in w : x = 1 - (1 - b)
    BY DEF Swap
<1>5. \A x : x \in Swap(Swap(w)) <=> x \in w
    BY <1>2, <1>4
<1> QED
    BY <1>3, <1>5

\* Swapping bytes keeps the length of a sequence, and twice undoes it.
LEMMA SwappedFacts ==
    ASSUME NEW ws \in Seq(Word)
    PROVE  /\ Swapped(ws) \in Seq(Word) /\ Len(Swapped(ws)) = Len(ws)
           /\ \A i \in 1..Len(ws) : Swapped(ws)[i] = Swap(ws[i])
           /\ Swapped(Swapped(ws)) = ws
<1> DEFINE n == Len(ws)
<1>1. n \in Nat /\ DOMAIN ws = 1..n /\ \A i \in 1..n : ws[i] \in Word
    OBVIOUS
<1>2. Swapped(ws) = [i \in 1..n |-> Swap(ws[i])]
    BY <1>1 DEF Swapped
<1>3. Swapped(ws) \in [1..n -> Word]
    BY <1>1, <1>2, SwapFacts
<1>4. Swapped(ws) \in Seq(Word) /\ Len(Swapped(ws)) = n /\ DOMAIN Swapped(ws) = 1..n
  <2> HIDE DEF n
  <2> QED
      BY <1>1, <1>3, IsASeq
<1>5. Swapped(Swapped(ws)) = [i \in 1..n |-> Swap(Swap(ws[i]))]
    BY <1>2, <1>4 DEF Swapped
<1>6. ws = [i \in 1..n |-> ws[i]]
    BY <1>1
<1>7. Swapped(Swapped(ws)) = ws
    BY <1>1, <1>5, <1>6, SwapFacts
<1> QED
    BY <1>2, <1>4, <1>7

\* The fields of a request as its master means it.
LEMMA RequestFacts ==
    ASSUME NEW r, IsRequest(r)
    PROVE  /\ r.fn \in Nat /\ r.addr \in Nat /\ r.qty \in Nat /\ r.raddr \in Nat /\ r.rqty \in Nat
           /\ r.vals \in Seq(Word) /\ r.parts \in Seq(PartFields) /\ r.bytes \in BOOLEAN
BY DEF IsRequest, RequestFields

\* What a request means differs from it in its values alone.
LEMMA MeantFacts ==
    ASSUME NEW r, IsRequest(r)
    PROVE  LET m == Meant(r)
           IN  /\ m.to = r.to /\ m.fn = r.fn /\ m.addr = r.addr /\ m.qty = r.qty
               /\ m.raddr = r.raddr /\ m.rqty = r.rqty
               /\ m.vals = IF HasRegs(r.fn) THEN Swapped(r.vals) ELSE r.vals
               /\ m.parts = [i \in DOMAIN r.parts |->
                                [r.parts[i] EXCEPT !.vals = Swapped(r.parts[i].vals)]]
<1> DEFINE vals == IF HasRegs(r.fn) THEN Swapped(r.vals) ELSE r.vals
           parts == [i \in DOMAIN r.parts |-> [r.parts[i] EXCEPT !.vals = Swapped(r.parts[i].vals)]]
           m == [r EXCEPT !.vals = vals, !.parts = parts]
<1>1. Meant(r) = m
    BY DEF Meant
<1> HIDE DEF vals, parts
<1>2. r \in RequestFields
    BY DEF IsRequest
<1>3. /\ m.to = r.to /\ m.fn = r.fn /\ m.addr = r.addr /\ m.qty = r.qty
      /\ m.raddr = r.raddr /\ m.rqty = r.rqty /\ m.vals = vals /\ m.parts = parts
    BY <1>2 DEF RequestFields
<1> QED
    BY <1>1, <1>3 DEF vals, parts

\* So do its parts.
LEMMA MeantParts ==
    ASSUME NEW r, IsRequest(r)
    PROVE  /\ Meant(r).parts \in Seq(PartFields) /\ Len(Meant(r).parts) = Len(r.parts)
           /\ DOMAIN Meant(r).parts = 1..Len(r.parts) /\ DOMAIN r.parts = 1..Len(r.parts)
           /\ Len(r.parts) \in Nat
           /\ \A i \in 1..Len(r.parts) :
                 LET p == r.parts[i]
                     q == Meant(r).parts[i]
                 IN  /\ p \in PartFields /\ p.space \in FileNumbers
                     /\ p.addr \in Nat /\ p.qty \in Nat
                     /\ p.vals \in Seq(Word) /\ Len(p.vals) <= p.qty
                     /\ q.space = p.space /\ q.addr = p.addr /\ q.qty = p.qty
                     /\ q.vals = Swapped(p.vals)
<1> DEFINE n == Len(r.parts)
<1>1. n \in Nat /\ DOMAIN r.parts = 1..n /\ \A i \in 1..n : r.parts[i] \in PartFields
    BY RequestFacts
<1>2. ASSUME NEW i \in 1..n
      PROVE  LET p == r.parts[i]
                 q == [p EXCEPT !.vals = Swapped(p.vals)]
             IN  /\ p.space \in FileNumbers /\ p.addr \in Nat /\ p.qty \in Nat
                 /\ p.vals \in Seq(Word) /\ Len(p.vals) <= p.qty
                 /\ q.space = p.space /\ q.addr = p.addr /\ q.qty = p.qty
                 /\ q.vals = Swapped(p.vals) /\ q \in PartFields
  <2> DEFINE p == r.parts[i]
  <2>1. p \in PartFields /\ Len(p.vals) <= p.qty
      BY <1>1 DEF IsRequest
  <2> HIDE DEF p
  <2>2. p.space \in FileNumbers /\ p.addr \in Nat /\ p.qty \in Nat /\ p.vals \in Seq(Word)
      BY <2>1 DEF PartFields
  <2>3. Swapped(p.vals) \in Seq(Word)
      BY <2>2, SwappedFacts
  <2>4. LET q == [p EXCEPT !.vals = Swapped(p.vals)]
        IN  /\ q.space = p.space /\ q.addr = p.addr /\ q.qty = p.qty
            /\ q.vals = Swapped(p.vals) /\ q \in PartFields
      BY <2>1, <2>3 DEF PartFields
  <2> QED
      BY <2>1, <2>2, <2>4 DEF p
<1>3. Meant(r).parts = [i \in 1..n |-> [r.parts[i] EXCEPT !.vals = Swapped(r.parts[i].vals)]]
    BY <1>1, MeantFacts
<1>4. Meant(r).parts \in [1..n -> PartFields]
    BY <1>2, <1>3
<1>5. Meant(r).parts \in Seq(PartFields) /\ Len(Meant(r).parts) = n /\ DOMAIN Meant(r).parts = 1..n
  <2> HIDE DEF n
  <2> QED
      BY <1>1, <1>4, IsASeq
<1> QED
    BY <1>1, <1>2, <1>3, <1>5

-----------------------------------------------------------------------------
\* What a handler's result has to be, for the promise to be kept.
StoreOK(st) == Words(st) /\ \A c \in CellSet : IsBit(c) => st[c] \in {{}, {0}}

Effected(r, st) ==
    StoreOK(st) /\ MemOf(st) = Promise!Effect(MemOf(store), Meant(r))
AnswersTruly(r, st, data) ==
    /\ data \in Seq(Word)
    /\ (IF HasRegs(r.fn) THEN Swapped(data) ELSE data) = Promise!Answer(MemOf(st), Meant(r))
Carried(r, x) ==
    /\ r.fn # 0 /\ Promise!Possible(Meant(r)) /\ Effected(r, x.store)
    /\ \E size, count, data :
          /\ x.response = Response(r, size, count, data)
          /\ AnswersTruly(r, x.store, data)
    /\ Fits(r, x.response)
Torn(r, st) ==
    /\ MayTear(r)
    /\ \/ MemOf(st) = Promise!Effect(MemOf(store), Meant(r))
       \/ \E k \in 0..Len(r.parts) : MemOf(st) = Promise!Written(MemOf(store), Meant(r).parts)[k]
Outcome(r, x) ==
    /\ StoreOK(x.store)
    /\ x.code = 0 => Carried(r, x)
    /\ x.code # 0 => x.store = store \/ Torn(r, x.store)

\* The outcome of a handler that writes only when it returns 0.
LEMMA OutcomeOfResult ==
    ASSUME StoreOK(store), NEW r, r.fn # 0, NEW code, NEW st, NEW size, NEW count, NEW data,
           code = 0 => /\ Promise!Possible(Meant(r)) /\ Effected(r, st) /\ AnswersTruly(r, st, data)
                       /\ Fits(r, Response(r, size, count, data))
    PROVE  Outcome(r, Result(code, st, Response(r, size, count, data)))
<1> DEFINE x == Result(code, st, Response(r, size, count, data))
<1>1. /\ x.code = code /\ x.store = (IF code = 0 THEN st ELSE store)
      /\ code = 0 => x.response = Response(r, size, count, data)
    BY DEF Result
<1> HIDE DEF x
<1>2. CASE code = 0
  <2>1. x.store = st /\ x.response = Response(r, size, count, data)
      BY <1>1, <1>2
  <2>2. Carried(r, x)
      BY <1>2, <2>1 DEF Carried
  <2>3. StoreOK(x.store)
      BY <1>2, <2>1 DEF Effected
  <2>4. Outcome(r, x)
      BY <1>1, <1>2, <2>2, <2>3 DEF Outcome
  <2> QED
      BY <2>4 DEF x
<1>3. CASE code # 0
  <2>1. Outcome(r, x)
      BY <1>1, <1>3 DEF Outcome
  <2> QED
      BY <2>1 DEF x
<1> QED
    BY <1>2, <1>3

\* The outcome of one that has written before it knows.
LEMMA OutcomeAnyway ==
    ASSUME NEW r, r.fn # 0, NEW code, NEW st, NEW size, NEW count, NEW data, StoreOK(st),
           code # 0 => st = store \/ Torn(r, st),
           code = 0 => /\ Promise!Possible(Meant(r)) /\ Effected(r, st) /\ AnswersTruly(r, st, data)
                       /\ Fits(r, Response(r, size, count, data))
    PROVE  Outcome(r, ResultAnyway(code, st, Response(r, size, count, data)))
<1> DEFINE x == ResultAnyway(code, st, Response(r, size, count, data))
<1>1. /\ x.code = code /\ x.store = st
      /\ code = 0 => x.response = Response(r, size, count, data)
    BY DEF Result, ResultAnyway
<1> HIDE DEF x
<1>2. CASE code = 0
  <2>2. Carried(r, x)
      BY <1>1, <1>2 DEF Carried
  <2>4. Outcome(r, x)
      BY <1>1, <1>2, <2>2 DEF Outcome
  <2> QED
      BY <2>4 DEF x
<1>3. CASE code # 0
  <2>1. Outcome(r, x)
      BY <1>1, <1>3 DEF Outcome
  <2> QED
      BY <2>1 DEF x
<1> QED
    BY <1>2, <1>3

\* The outcome of one that found a fault first.
LEMMA OutcomeOfRefusal ==
    ASSUME StoreOK(store), NEW r, NEW code, code # 0, NEW st
    PROVE  Outcome(r, Result(code, st, NoResponse))
BY DEF Result, Outcome

\* A handler that goes on found all of its checks to hold.
LEMMA AllHold ==
    ASSUME NEW n \in Nat, NEW codes, DOMAIN codes = 1..n, FirstFailing(codes) = 0
    PROVE  \A i \in DOMAIN codes : codes[i] = 0
BY FirstFailingFacts

\* The fields of a response.
LEMMA ResponseFields ==
    ASSUME NEW r, NEW size, NEW count, NEW data
    PROVE  LET x == Response(r, size, count, data)
           IN  /\ x.fn = r.fn /\ x.code = 0 /\ x.size = size /\ x.count = count /\ x.data = data
BY DEF Response

\* A request that was looked up is about registers of the area that was found.
LEMMA AreaAtFacts ==
    ASSUME NEW kind, NEW addr \in Nat, AreaAt(kind, addr) # NoArea
    PROVE  LET a == AreaAt(kind, addr)
           IN  /\ a \in Areas /\ a \in AllAreas /\ a.kind = kind
               /\ a.start \in Nat /\ a.size \in Nat
               /\ addr - a.start \in Nat /\ addr - a.start + 1 <= a.size
               /\ addr = a.start + (addr - a.start)
<1> DEFINE found == {a \in Areas : a.kind = kind /\ addr \in a.start..(a.start + a.size - 1)}
           b == AreaAt(kind, addr)
<1>1. b \in found
    BY DEF AreaAt
<1> HIDE DEF b
<1>2. b \in Areas /\ b.kind = kind /\ addr \in b.start..(b.start + b.size - 1)
    BY <1>1
<1>3. b \in AllAreas /\ b.start \in Nat /\ b.size \in Nat
    BY <1>2, AreaFacts DEF AllAreas
<1>4. /\ addr - b.start \in Nat /\ addr - b.start + 1 <= b.size
      /\ addr = b.start + (addr - b.start)
    BY <1>2, <1>3
<1> QED
    BY <1>2, <1>3, <1>4 DEF b

\* So is a file that was looked up.
LEMMA FileOfFacts ==
    ASSUME NEW number, FileOf(number) # NoArea
    PROVE  LET f == FileOf(number)
           IN  /\ f \in Files /\ f \in AllAreas /\ f.kind = number
               /\ f.start = 0 /\ f.size \in Nat
<1> DEFINE found == {f \in Files : f.kind = number}
           b == FileOf(number)
<1>1. b \in found
    BY DEF FileOf
<1> HIDE DEF b
<1>2. b \in Files /\ b.kind = number
    BY <1>1
<1> QED
    BY <1>2, AreaFacts DEF AllAreas, b

\* A read of an area is a read of the cells.
LEMMA AreaRead ==
    ASSUME NEW st, Words(st), NEW kind, NEW addr \in Nat, NEW n \in Nat,
           AreaAt(kind, addr) # NoArea,
           addr + n <= AreaAt(kind, addr).start + AreaAt(kind, addr).size,
           NEW s, s.space = kind, s.addr = addr, s.qty = n
    PROVE  LET a == AreaAt(kind, addr)
               data == Load(st, a, addr - a.start, n)
           IN  /\ data \in Seq(Word) /\ Len(data) = n
               /\ Promise!Get(MemOf(st), Promise!cellsOf(s)) = data
               /\ Promise!Range(Promise!cellsOf(s)) \subseteq Cells
<1> DEFINE a == AreaAt(kind, addr)
           offset == addr - a.start
<1>1. a \in AllAreas /\ a.kind = kind /\ offset \in Nat /\ addr = a.start + offset
      /\ a.start \in Nat /\ a.size \in Nat
    BY AreaAtFacts
<1>2. offset + n <= a.size
    BY <1>1
<1> HIDE DEF a, offset
<1>3. s.space = a.kind /\ s.addr = a.start + offset
    BY <1>1
<1> QED
    BY <1>1, <1>2, <1>3, LoadFacts DEF a, offset

\* A write to an area is a write to the cells.
LEMMA AreaWrite ==
    ASSUME NEW st, StoreOK(st), NEW kind, NEW addr \in Nat,
           AreaAt(kind, addr) # NoArea,
           NEW s, s.space = kind, s.addr = addr, s.qty \in Nat,
           s.qty = 1 \/ addr + s.qty <= AreaAt(kind, addr).start + AreaAt(kind, addr).size,
           NEW vals \in Seq(Word), Len(vals) <= s.qty,
           kind \in {"coil", "discrete"} => \A i \in 1..Len(vals) : vals[i] \in {{}, {0}}
    PROVE  LET a == AreaAt(kind, addr)
               st1 == Store(st, a, addr - a.start, vals)
           IN  /\ StoreOK(st1)
               /\ MemOf(st1) = Promise!Put(MemOf(st), Promise!cellsOf(s), vals)
               /\ Promise!Range(Promise!cellsOf(s)) \subseteq Cells
<1> DEFINE a == AreaAt(kind, addr)
           offset == addr - a.start
           st1 == Store(st, a, offset, vals)
           n == s.qty
<1>1. a \in AllAreas /\ a.kind = kind /\ offset \in Nat /\ addr = a.start + offset
      /\ a.start \in Nat /\ a.size \in Nat /\ offset + 1 <= a.size
    BY AreaAtFacts
<1>2. offset + n <= a.size
    BY <1>1
<1>3. Words(st) /\ DOMAIN vals = 1..Len(vals)
    BY DEF StoreOK
<1> HIDE DEF a, offset, n
<1>4. s.space = a.kind /\ s.addr = a.start + offset /\ s.qty = n /\ n \in Nat /\ Len(vals) <= n
    BY <1>1 DEF n
<1>5. /\ Words(st1)
      /\ MemOf(st1) = Promise!Put(MemOf(st), Promise!cellsOf(s), vals)
      /\ Promise!Range(Promise!cellsOf(s)) \subseteq Cells
    BY <1>1, <1>2, <1>3, <1>4, LoadFacts, StoreFacts
<1>6. \A c \in CellSet : IsBit(c) => st1[c] \in {{}, {0}}
  <2> SUFFICES ASSUME NEW c \in CellSet, IsBit(c) PROVE st1[c] \in {{}, {0}}
      OBVIOUS
  <2>1. st[c] \in {{}, {0}}
      BY DEF StoreOK
  <2>2. st1[c] = IF c[1] = a /\ c[2] - offset + 1 \in 1..Len(vals)
                 THEN vals[c[2] - offset + 1] ELSE st[c]
      BY <1>3 DEF Store, Words
  <2>3. c[1] = a => kind \in {"coil", "discrete"}
      BY <1>1 DEF IsBit
  <2> QED
      BY <2>1, <2>2, <2>3
<1> QED
    BY <1>5, <1>6 DEF StoreOK, a, offset

-----------------------------------------------------------------------------
\* All cells a request has besides those of its function's own.
LEMMA PossibleFacts ==
    ASSUME NEW r, IsRequest(r)
    PROVE  /\ r.fn # 23 => Promise!ReadCells(Meant(r)) = <<>>
           /\ r.fn \notin {20, 21} => Promise!FileCells(Meant(r)) = <<>>
           /\ Promise!Range(<<>>) = {}
           /\ DOMAIN Mem = Cells
<1>1. ASSUME r.fn # 23 PROVE Promise!ReadCells(Meant(r)) = <<>>
  <2>1. Meant(r).rqty = 0
      BY <1>1, MeantFacts DEF IsRequest
  <2> QED
      BY <2>1 DEF Promise!ReadCells, Promise!cellsOf
<1>2. ASSUME r.fn \notin {20, 21} PROVE Promise!FileCells(Meant(r)) = <<>>
  <2>1. r.parts = <<>>
      BY <1>2 DEF IsRequest
  <2>2. DOMAIN Meant(r).parts = 1..0
      BY <2>1, MeantParts
  <2> DEFINE seqs == [i \in DOMAIN Meant(r).parts |-> Promise!cellsOf(Meant(r).parts[i])]
  <2>3. seqs = <<>>
      BY <2>2
  <2>4. Promise!FileCells(Meant(r)) = Promise!FlattenSeq(seqs)
      BY DEF Promise!FileCells
  <2> HIDE DEF seqs
  <2>5. Promise!FlattenSeq(<<>>) = <<>>
      BY DEF Promise!FlattenSeq
  <2> QED
      BY <2>3, <2>4, <2>5
<1>3. Promise!Range(<<>>) = {} /\ DOMAIN Mem = Cells
    BY DEF Promise!Range, Mem
<1> QED
    BY <1>1, <1>2, <1>3

\* Functions 1 and 2.
LEMMA ReadBitsOutcome ==
    ASSUME StoreOK(store), txSize \in Nat, NEW r, IsRequest(r), r.fn \in {1, 2}, NEW rd
    PROVE  Outcome(r, ReadBits(r, rd))
<1> DEFINE kind == IF r.fn = 1 THEN "coil" ELSE "discrete"
           area == AreaAt(kind, r.addr)
           bytes == (r.qty + 7) \div 8
           codes == << Check(1 <= r.qty /\ r.qty <= 2000, IllegalValue),
                       Check(kind \in Kinds, SlaveFailure),
                       Check(area # NoArea, IllegalAddress),
                       Check(area.start + area.size >= r.addr + r.qty, IllegalAddress),
                       Check(area.reads, IllegalAddress),
                       Check(txSize >= 1 + bytes, SlaveFailure),
                       Check(rd = 0, rd) >>
           data == Load(store, area, r.addr - area.start, r.qty)
           m == Meant(r)
           s == [space |-> Promise!Space(m.fn), addr |-> m.addr, qty |-> m.qty]
<1>1. ReadBits(r, rd) = Result(FirstFailing(codes), store, Response(r, 1 + bytes, bytes, data))
    BY DEF ReadBits
<1>2. r.addr \in Nat /\ r.qty \in Nat /\ m.fn = r.fn /\ m.addr = r.addr /\ m.qty = r.qty
    BY RequestFacts, MeantFacts
<1>3. s.space = kind /\ s.addr = r.addr /\ s.qty = r.qty /\ Promise!Cells(m) = Promise!cellsOf(s)
    BY <1>2 DEF Promise!Space, Promise!Cells
<1>4. DOMAIN codes = 1..7
    OBVIOUS
<1>5. ASSUME \A i \in 1..7 : codes[i] = 0
      PROVE  area # NoArea /\ area.start + area.size >= r.addr + r.qty /\ txSize >= 1 + bytes
  <2> HIDE DEF area, bytes, kind
  <2> QED
      BY <1>5 DEF Check, IllegalAddress, SlaveFailure
<1>6. ASSUME FirstFailing(codes) = 0
      PROVE  /\ Promise!Possible(m) /\ Effected(r, store) /\ AnswersTruly(r, store, data)
             /\ Fits(r, Response(r, 1 + bytes, bytes, data))
  <2>1. area # NoArea /\ area.start + area.size >= r.addr + r.qty /\ txSize >= 1 + bytes
    <3> HIDE DEF codes
    <3>1. \A i \in DOMAIN codes : codes[i] = 0
        BY <1>4, <1>6, 7 \in Nat, AllHold
    <3> QED
        BY <1>4, <1>5, <3>1
  <2>2. area.start \in Nat /\ area.size \in Nat
      BY <1>2, <2>1, AreaAtFacts
  <2>3. bytes \in Nat
      BY <1>2
  <2> HIDE DEF s, m, kind, codes
  <2>5. Words(store) /\ r.addr + r.qty <= area.start + area.size
      BY <1>2, <2>1, <2>2 DEF StoreOK
  <2>6. /\ data \in Seq(Word) /\ Len(data) = r.qty
        /\ Promise!Get(MemOf(store), Promise!Cells(m)) = data
        /\ Promise!Range(Promise!Cells(m)) \subseteq Cells
      BY <1>2, <1>3, <2>1, <2>5, AreaRead, SMTT(30)
  <2> HIDE DEF data
  <2>7. Effected(r, store)
      BY <1>2 DEF Promise!Effect, Effected, m
  <2>8. AnswersTruly(r, store, data)
      BY <1>2, <2>6 DEF Promise!Answer, AnswersTruly, HasRegs, m
  <2>9. Promise!Possible(m)
      BY <1>2, <2>6, PossibleFacts DEF Promise!Possible, m
  <2>10. Fits(r, Response(r, 1 + bytes, bytes, data))
    <3> DEFINE x == Response(r, 1 + bytes, bytes, data)
    <3>1. x.fn = r.fn /\ x.size = 1 + bytes /\ x.count = bytes /\ Len(x.data) = r.qty
        BY <2>6, ResponseFields
    <3> HIDE DEF x
    <3>2. Payload(r, x) = bytes
        BY <3>1 DEF Payload
    <3>3. x.size <= txSize /\ x.size = x.count + (IF x.fn = 24 THEN 2 ELSE 1)
      <4> HIDE DEF bytes
      <4> QED
          BY <2>1, <2>3, <3>1
    <3>4. Fits(r, x)
      <4> HIDE DEF bytes
      <4> QED
          BY <3>1, <3>2, <3>3 DEF Fits
    <3> QED
        BY <3>4 DEF x
  <2> QED
      BY <2>7, <2>8, <2>9, <2>10
<1> HIDE DEF codes, data, bytes, m
<1>7. Outcome(r, Result(FirstFailing(codes), store, Response(r, 1 + bytes, bytes, data)))
    BY <1>6, OutcomeOfResult DEF m
<1> QED
    BY <1>1, <1>7
-----------------------------------------------------------------------------
\* Functions on registers and coils of one area.
OwnSpan(r) == [space |-> Promise!Space(r.fn), addr |-> r.addr, qty |-> r.qty]

\* The registers a request is about, in the terms of RegisterFile.
LEMMA SpanFacts ==
    ASSUME NEW r, IsRequest(r)
    PROVE  /\ OwnSpan(r).space = Promise!Space(r.fn) /\ OwnSpan(r).addr = r.addr
           /\ OwnSpan(r).qty = r.qty
           /\ Promise!Cells(Meant(r)) = Promise!cellsOf(OwnSpan(r))
<1> DEFINE m == Meant(r)
<1>1. m.fn = r.fn /\ m.addr = r.addr /\ m.qty = r.qty
    BY MeantFacts
<1> HIDE DEF m
<1>2. Promise!Cells(m) = Promise!cellsOf(OwnSpan(r))
    BY <1>1 DEF Promise!Cells, OwnSpan
<1> QED
    BY <1>2 DEF OwnSpan, m

\* A request is possible if the registers it is about exist.
LEMMA PossibleIfThere ==
    ASSUME NEW r, IsRequest(r), r.fn \notin {20, 21, 23, 24},
           Promise!Range(Promise!Cells(Meant(r))) \subseteq Cells
    PROVE  Promise!Possible(Meant(r))
<1>1. Meant(r).fn = r.fn
    BY MeantFacts
<1>2. /\ Promise!Range(Promise!ReadCells(Meant(r))) = {}
      /\ Promise!Range(Promise!FileCells(Meant(r))) = {}
      /\ DOMAIN Mem = Cells
    BY PossibleFacts
<1> QED
    BY <1>1, <1>2 DEF Promise!Possible

\* A response without a byte count fits when there is room for it.
LEMMA FitsShort ==
    ASSUME NEW r, NEW size, NEW data, size <= txSize
    PROVE  Fits(r, Response(r, size, -1, data))
<1> DEFINE x == Response(r, size, -1, data)
<1>1. x.size = size /\ x.count = -1
    BY ResponseFields
<1> HIDE DEF x
<1>2. Fits(r, x)
    BY <1>1 DEF Fits
<1> QED
    BY <1>2 DEF x

\* One with registers counts their bytes.
LEMMA FitsRegs ==
    ASSUME NEW r, NEW n \in Nat, NEW data, Len(data) = n, txSize \in Nat,
           r.fn \notin {1, 2, 20, 24}, 1 + 2 * n <= txSize
    PROVE  Fits(r, Response(r, 1 + 2 * n, 2 * n, data))
<1> DEFINE x == Response(r, 1 + 2 * n, 2 * n, data)
<1>1. x.fn = r.fn /\ x.size = 1 + 2 * n /\ x.count = 2 * n /\ x.data = data
    BY ResponseFields
<1> HIDE DEF x
<1>2. Payload(r, x) = 2 * n
    BY <1>1 DEF Payload
<1>3. Fits(r, x)
    BY <1>1, <1>2 DEF Fits
<1> QED
    BY <1>3 DEF x

\* A write to one area has the effect that was promised.
LEMMA WriteEffected ==
    ASSUME StoreOK(store), NEW r, IsRequest(r), r.fn \in {5, 6, 15, 16, 23},
           NEW kind, kind = Promise!Space(r.fn), AreaAt(kind, r.addr) # NoArea,
           \/ r.qty = 1
           \/ r.addr + r.qty <= AreaAt(kind, r.addr).start + AreaAt(kind, r.addr).size,
           r.fn = 5 => r.vals[1] \in {{}, {0}},
           NEW vals, vals = Meant(r).vals
    PROVE  LET area == AreaAt(kind, r.addr)
           IN  /\ Effected(r, Store(store, area, r.addr - area.start, vals))
               /\ Promise!Range(Promise!Cells(Meant(r))) \subseteq Cells
<1> DEFINE area == AreaAt(kind, r.addr)
           st == Store(store, area, r.addr - area.start, vals)
           m == Meant(r)
           s == OwnSpan(r)
<1>1. r.addr \in Nat /\ r.qty \in Nat /\ r.vals \in Seq(Word) /\ m.fn = r.fn
    BY RequestFacts, MeantFacts
<1>2. Len(r.vals) = r.qty
    BY DEF IsRequest
<1>3. vals \in Seq(Word) /\ Len(vals) = r.qty
  <2>1. vals = Swapped(r.vals) \/ vals = r.vals
      BY MeantFacts
  <2> QED
      BY <1>1, <1>2, <2>1, SwappedFacts
<1>4. s.space = kind /\ s.addr = r.addr /\ s.qty = r.qty /\ Promise!Cells(m) = Promise!cellsOf(s)
    BY SpanFacts
<1>5. kind \in {"coil", "discrete"} => \A i \in 1..Len(vals) : vals[i] \in {{}, {0}}
  <2> SUFFICES ASSUME kind \in {"coil", "discrete"}
                PROVE  \A i \in 1..Len(vals) : vals[i] \in {{}, {0}}
      OBVIOUS
  <2>1. r.fn \in {5, 15}
      BY DEF Promise!Space
  <2>2. vals = r.vals /\ DOMAIN r.vals = 1..Len(vals)
    <3>1. ~HasRegs(r.fn)
        BY <2>1 DEF HasRegs
    <3>2. vals = r.vals
        BY <3>1, MeantFacts
    <3> QED
        BY <1>1, <3>2
  <2>3. CASE r.fn = 5
    <3>1. Len(vals) = 1
        BY <1>3, <2>3 DEF IsRequest
    <3> QED
        BY <2>2, <2>3, <3>1
  <2>4. CASE r.fn = 15
      BY <2>2, <2>4 DEF IsRequest
  <2> QED
      BY <2>1, <2>3, <2>4
<1> HIDE DEF s, m
<1>6. /\ StoreOK(st)
      /\ MemOf(st) = Promise!Put(MemOf(store), Promise!cellsOf(s), vals)
      /\ Promise!Range(Promise!cellsOf(s)) \subseteq Cells
  <2> DEFINE addr == r.addr
             a == AreaAt(kind, addr)
             st1 == Store(store, a, addr - a.start, vals)
  <2>1. Len(vals) <= s.qty /\ s.qty \in Nat
      BY <1>1, <1>3, <1>4
  <2>2. s.qty = 1 \/ addr + s.qty <= AreaAt(kind, addr).start + AreaAt(kind, addr).size
      BY <1>4
  <2>3. s.space = kind /\ s.addr = addr /\ addr \in Nat /\ AreaAt(kind, addr) # NoArea
      BY <1>1, <1>4
  <2>4. st = st1
      OBVIOUS
  <2> HIDE DEF addr, st
  <2>5. /\ StoreOK(st1)
        /\ MemOf(st1) = Promise!Put(MemOf(store), Promise!cellsOf(s), vals)
        /\ Promise!Range(Promise!cellsOf(s)) \subseteq Cells
    <3>1. StoreOK(store)
        OBVIOUS
    <3>2. vals \in Seq(Word) 
        BY <1>3
    <3>3. StoreOK(st1)
        BY ONLY <3>1, <3>2, <1>5, <2>1, <2>2, <2>3, AreaWrite
    <3>4. MemOf(st1) = Promise!Put(MemOf(store), Promise!cellsOf(s), vals)
        BY ONLY <3>1, <3>2, <1>5, <2>1, <2>2, <2>3, AreaWrite
    <3>5. Promise!Range(Promise!cellsOf(s)) \subseteq Cells
        BY ONLY <3>1, <3>2, <1>5, <2>1, <2>2, <2>3, AreaWrite
    <3> QED
        BY <3>3, <3>4, <3>5
  <2> QED
      BY <2>4, <2>5
<1>7. Promise!Effect(MemOf(store), m) = Promise!Put(MemOf(store), Promise!Cells(m), m.vals)
    BY <1>1 DEF Promise!Effect
<1> QED
    BY <1>4, <1>6, <1>7 DEF Effected, m

\* Functions 3 and 4.
LEMMA ReadRegsOutcome ==
    ASSUME StoreOK(store), txSize \in Nat, NEW r, IsRequest(r), r.fn \in {3, 4}, NEW rd
    PROVE  Outcome(r, ReadRegs(r, rd))
<1> DEFINE kind == IF r.fn = 3 THEN "holding" ELSE "input"
           area == AreaAt(kind, r.addr)
           codes == << Check(kind \in Kinds, SlaveFailure),
                       Check(area # NoArea, IllegalAddress),
                       Check(1 <= r.qty /\ r.qty <= 125, IllegalValue),
                       Check(r.addr + r.qty <= area.start + area.size, IllegalAddress),
                       Check(area.reads, IllegalAddress),
                       Check(1 + 2 * r.qty <= txSize, SlaveFailure),
                       Check(rd = 0, rd) >>
           words == Load(store, area, r.addr - area.start, r.qty)
           data == Swapped(words)
           size == 1 + 2 * r.qty
           count == 2 * r.qty
           m == Meant(r)
           s == OwnSpan(r)
<1>1. ReadRegs(r, rd) = Result(FirstFailing(codes), store, Response(r, size, count, data))
    BY DEF ReadRegs
<1>2. r.addr \in Nat /\ r.qty \in Nat /\ m.fn = r.fn
    BY RequestFacts, MeantFacts
<1>3. s.space = kind /\ s.addr = r.addr /\ s.qty = r.qty /\ Promise!Cells(m) = Promise!cellsOf(s)
    BY SpanFacts DEF Promise!Space
<1>4. DOMAIN codes = 1..7
    OBVIOUS
<1>5. ASSUME \A i \in 1..7 : codes[i] = 0
      PROVE  area # NoArea /\ r.addr + r.qty <= area.start + area.size /\ size <= txSize
  <2> HIDE DEF area, kind
  <2> QED
      BY <1>5 DEF Check, IllegalAddress, SlaveFailure
<1>6. ASSUME FirstFailing(codes) = 0
      PROVE  /\ Promise!Possible(m) /\ Effected(r, store) /\ AnswersTruly(r, store, data)
             /\ Fits(r, Response(r, size, count, data))
  <2>1. area # NoArea /\ r.addr + r.qty <= area.start + area.size /\ size <= txSize
    <3> HIDE DEF codes
    <3>1. \A i \in DOMAIN codes : codes[i] = 0
        BY <1>4, <1>6, 7 \in Nat, AllHold
    <3> QED
        BY <1>4, <1>5, <3>1
  <2> HIDE DEF s, m, kind, codes
  <2>2. Words(store)
      BY DEF StoreOK
  <2>3. /\ words \in Seq(Word) /\ Len(words) = r.qty
        /\ Promise!Get(MemOf(store), Promise!Cells(m)) = words
        /\ Promise!Range(Promise!Cells(m)) \subseteq Cells
      BY <1>2, <1>3, <2>1, <2>2, AreaRead, SMTT(30)
  <2> HIDE DEF words
  <2>4. data \in Seq(Word) /\ Len(data) = r.qty /\ Swapped(data) = words
      BY <2>3, SwappedFacts
  <2> HIDE DEF data
  <2>5. Effected(r, store)
      BY <1>2 DEF Promise!Effect, Effected, m
  <2>6. AnswersTruly(r, store, data)
    <3>1. HasRegs(r.fn)
        BY DEF HasRegs
    <3>2. Promise!Answer(MemOf(store), m) = words
        BY <1>2, <2>3 DEF Promise!Answer
    <3> QED
        BY <2>4, <3>1, <3>2 DEF AnswersTruly, m
  <2>7. Promise!Possible(m)
      BY <2>3, PossibleIfThere DEF m
  <2>8. Fits(r, Response(r, size, count, data))
      BY <1>2, <2>1, <2>4, FitsRegs
  <2> QED
      BY <2>5, <2>6, <2>7, <2>8
<1> HIDE DEF codes, data, m, size, count
<1>7. Outcome(r, Result(FirstFailing(codes), store, Response(r, size, count, data)))
    BY <1>6, OutcomeOfResult DEF m
<1> QED
    BY <1>1, <1>7

\* Function 24.
LEMMA ReadFifoOutcome ==
    ASSUME StoreOK(store), txSize \in Nat, NEW r, IsRequest(r), r.fn = 24, NEW rd
    PROVE  Outcome(r, ReadFifo(r, rd))
<1> DEFINE n == FifoCount(r)
           codes == << Check("fifo" \in Kinds, SlaveFailure),
                       Check(rd = 0, rd),
                       Check(n <= 31, IllegalValue),
                       Check(4 + 2 * n <= txSize, SlaveFailure) >>
           words == Load(store, Fifo, r.addr, n)
           data == Swapped(words)
           size == 4 + 2 * n
           count == 2 + 2 * n
           m == Meant(r)
           s == [space |-> "fifo", addr |-> m.addr,
                 qty |-> IF m.addr < FifoSize THEN FifoSize - m.addr ELSE 0]
<1>1. ReadFifo(r, rd) = Result(FirstFailing(codes), store, Response(r, size, count, data))
    BY DEF ReadFifo
<1>2. r.addr \in Nat /\ n \in Nat /\ m.fn = r.fn /\ m.addr = r.addr
  <2>1. r.addr \in Nat
      BY RequestFacts
  <2>2. n \in Nat
      BY <2>1, FifoAssumption DEF FifoAssumption, FifoCount
  <2> HIDE DEF n
  <2> QED
      BY <2>1, <2>2, MeantFacts
<1>3. s.space = "fifo" /\ s.addr = r.addr /\ s.qty = n /\ Promise!FifoCells(m) = Promise!cellsOf(s)
    BY <1>2 DEF Promise!FifoCells, FifoCount
<1>4. DOMAIN codes = 1..4
    OBVIOUS
<1>5. ASSUME \A i \in 1..4 : codes[i] = 0
      PROVE  size <= txSize
  <2> HIDE DEF n
  <2> QED
      BY <1>5 DEF Check, SlaveFailure
<1>6. ASSUME FirstFailing(codes) = 0
      PROVE  /\ Promise!Possible(m) /\ Effected(r, store) /\ AnswersTruly(r, store, data)
             /\ Fits(r, Response(r, size, count, data))
  <2>1. size <= txSize
    <3> HIDE DEF codes
    <3>1. \A i \in DOMAIN codes : codes[i] = 0
        BY <1>4, <1>6, 4 \in Nat, AllHold
    <3> QED
        BY <1>4, <1>5, <3>1
  <2>2. Words(store) /\ Fifo \in AllAreas /\ Fifo.kind = "fifo" /\ Fifo.start = 0
        /\ Fifo.size = FifoSize
      BY DEF StoreOK, AllAreas, Fifo
  <2>3. r.addr + n <= FifoSize \/ n = 0
      BY <1>2, FifoAssumption DEF FifoAssumption, FifoCount
  <2> HIDE DEF s, m, codes, n
  <2>4. /\ words \in Seq(Word) /\ Len(words) = n
        /\ Promise!Get(MemOf(store), Promise!FifoCells(m)) = words
    <3>1. CASE r.addr + n <= FifoSize
      <4> DEFINE a == Fifo
      <4>1. /\ Words(store) /\ a \in AllAreas /\ r.addr + n <= a.size
            /\ s.space = a.kind /\ s.addr = a.start + r.addr /\ s.qty = n
          BY <1>2, <1>3, <2>2, <3>1
      <4> HIDE DEF a
      <4>2. /\ Load(store, a, r.addr, n) \in Seq(Word) /\ Len(Load(store, a, r.addr, n)) = n
            /\ Promise!Get(MemOf(store), Promise!cellsOf(s)) = Load(store, a, r.addr, n)
          BY <1>2, <4>1, LoadFacts
      <4> QED
          BY <1>3, <4>2 DEF a
    <3>2. CASE n = 0
      <4>1. words = <<>>
          BY <3>2 DEF Load
      <4>2. Promise!cellsOf(s) = <<>>
          BY <1>3, <3>2 DEF Promise!cellsOf
      <4>3. Promise!Get(MemOf(store), <<>>) = <<>>
          BY DEF Promise!Get
      <4> HIDE DEF words
      <4> QED
          BY <1>3, <3>2, <4>1, <4>2, <4>3
    <3> QED
        BY <2>3, <3>1, <3>2
  <2> HIDE DEF words
  <2>5. data \in Seq(Word) /\ Len(data) = n /\ Swapped(data) = words
      BY <2>4, SwappedFacts
  <2> HIDE DEF data
  <2>6. Effected(r, store)
      BY <1>2 DEF Promise!Effect, Effected, m
  <2>7. AnswersTruly(r, store, data)
      BY <1>2, <2>4, <2>5 DEF Promise!Answer, AnswersTruly, HasRegs, m
  <2>8. Promise!Possible(m)
      BY <1>2, PossibleFacts DEF Promise!Possible, m
  <2>9. Fits(r, Response(r, size, count, data))
    <3> DEFINE x == Response(r, size, count, data)
    <3>1. x.fn = 24 /\ x.size = size /\ x.count = count /\ Len(x.data) = n
        BY <2>5, ResponseFields
    <3> HIDE DEF x
    <3>2. Payload(r, x) = count
        BY <1>2, <3>1 DEF Payload
    <3>3. Fits(r, x)
        BY <1>2, <2>1, <3>1, <3>2 DEF Fits
    <3> QED
        BY <3>3 DEF x
  <2> QED
      BY <2>6, <2>7, <2>8, <2>9
<1> HIDE DEF codes, data, m, size, count
<1>7. Outcome(r, Result(FirstFailing(codes), store, Response(r, size, count, data)))
    BY <1>6, OutcomeOfResult DEF m
<1> QED
    BY <1>1, <1>7

\* Function 15.
LEMMA WriteCoilsOutcome ==
    ASSUME StoreOK(store), txSize \in Nat, NEW r, IsRequest(r), r.fn = 15, NEW wr
    PROVE  Outcome(r, WriteCoils(r, wr))
<1> DEFINE area == AreaAt("coil", r.addr)
           codes == << Check(1 <= r.qty /\ r.qty <= 1968, IllegalValue),
                       Check(r.bytes, IllegalValue),
                       Check("coil" \in Kinds, SlaveFailure),
                       Check(area # NoArea, IllegalAddress),
                       Check(area.start + area.size >= r.addr + r.qty, IllegalAddress),
                       Check(area.writes, IllegalAddress),
                       Check(txSize >= 4, SlaveFailure),
                       Check(wr = 0, wr) >>
           st == Store(store, area, r.addr - area.start, r.vals)
           m == Meant(r)
<1>1. WriteCoils(r, wr) = Result(FirstFailing(codes), st, Response(r, 4, -1, <<>>))
    BY DEF WriteCoils
<1>2. r.addr \in Nat /\ r.qty \in Nat /\ m.fn = r.fn /\ m.vals = r.vals
  <2>1. HasRegs(r.fn) <=> FALSE
      BY DEF HasRegs
  <2> QED
      BY <2>1, RequestFacts, MeantFacts
<1>3. DOMAIN codes = 1..8
    OBVIOUS
<1>4. ASSUME \A i \in 1..8 : codes[i] = 0
      PROVE  area # NoArea /\ area.start + area.size >= r.addr + r.qty /\ 4 <= txSize
  <2> HIDE DEF area
  <2> QED
      BY <1>2, <1>4 DEF Check, IllegalAddress, SlaveFailure
<1>5. ASSUME FirstFailing(codes) = 0
      PROVE  /\ Promise!Possible(m) /\ Effected(r, st) /\ AnswersTruly(r, st, <<>>)
             /\ Fits(r, Response(r, 4, -1, <<>>))
  <2>1. area # NoArea /\ area.start + area.size >= r.addr + r.qty /\ 4 <= txSize
    <3> HIDE DEF codes
    <3>1. \A i \in DOMAIN codes : codes[i] = 0
        BY <1>3, <1>5, 8 \in Nat, AllHold
    <3> QED
        BY <1>3, <1>4, <3>1
  <2>2. area.start \in Nat /\ area.size \in Nat
      BY <1>2, <2>1, AreaAtFacts
  <2>3. r.addr + r.qty <= area.start + area.size
      BY <1>2, <2>1, <2>2
  <2>4. Promise!Space(r.fn) = "coil"
      BY DEF Promise!Space
  <2> HIDE DEF m, codes
  <2>5. Effected(r, st) /\ Promise!Range(Promise!Cells(m)) \subseteq Cells
      BY <1>2, <2>1, <2>3, <2>4, WriteEffected DEF m
  <2> HIDE DEF st
  <2>6. AnswersTruly(r, st, <<>>)
    <3>1. Promise!Answer(MemOf(st), m) = <<>>
        BY <1>2 DEF Promise!Answer
    <3>2. <<>> \in Seq(Word) /\ Swapped(<<>>) = <<>>
        BY DEF Swapped
    <3> QED
        BY <3>1, <3>2 DEF AnswersTruly, m
  <2>7. Promise!Possible(m)
      BY <2>5, PossibleIfThere DEF m
  <2>8. Fits(r, Response(r, 4, -1, <<>>))
      BY <2>1, FitsShort
  <2> QED
      BY <2>5, <2>6, <2>7, <2>8
<1> HIDE DEF codes, st, m
<1>6. Outcome(r, Result(FirstFailing(codes), st, Response(r, 4, -1, <<>>)))
    BY <1>5, OutcomeOfResult DEF m
<1> QED
    BY <1>1, <1>6

\* Function 16.
LEMMA WriteRegsOutcome ==
    ASSUME StoreOK(store), txSize \in Nat, NEW r, IsRequest(r), r.fn = 16, NEW wr
    PROVE  Outcome(r, WriteRegs(r, wr))
<1> DEFINE area == AreaAt("holding", r.addr)
           codes == << Check(1 <= r.qty /\ r.qty <= 123 /\ r.bytes, IllegalValue),
                       Check("holding" \in Kinds, SlaveFailure),
                       Check(area # NoArea, IllegalAddress),
                       Check(r.addr + r.qty <= area.start + area.size, IllegalAddress),
                       Check(area.writes, IllegalAddress),
                       Check(4 <= txSize, SlaveFailure),
                       Check(wr = 0, wr) >>
           st == Store(store, area, r.addr - area.start, Swapped(r.vals))
           m == Meant(r)
<1>1. WriteRegs(r, wr) = Result(FirstFailing(codes), st, Response(r, 4, -1, <<>>))
    BY DEF WriteRegs
<1>2. r.addr \in Nat /\ r.qty \in Nat /\ m.fn = r.fn /\ m.vals = Swapped(r.vals)
  <2>1. HasRegs(r.fn) <=> TRUE
      BY DEF HasRegs
  <2> QED
      BY <2>1, RequestFacts, MeantFacts
<1>3. DOMAIN codes = 1..7
    OBVIOUS
<1>4. ASSUME \A i \in 1..7 : codes[i] = 0
      PROVE  area # NoArea /\ area.start + area.size >= r.addr + r.qty /\ 4 <= txSize
  <2> HIDE DEF area
  <2> QED
      BY <1>2, <1>4 DEF Check, IllegalAddress, SlaveFailure
<1>5. ASSUME FirstFailing(codes) = 0
      PROVE  /\ Promise!Possible(m) /\ Effected(r, st) /\ AnswersTruly(r, st, <<>>)
             /\ Fits(r, Response(r, 4, -1, <<>>))
  <2>1. area # NoArea /\ area.start + area.size >= r.addr + r.qty /\ 4 <= txSize
    <3> HIDE DEF codes
    <3>1. \A i \in DOMAIN codes : codes[i] = 0
        BY <1>3, <1>5, 7 \in Nat, AllHold
    <3> QED
        BY <1>3, <1>4, <3>1
  <2>2. area.start \in Nat /\ area.size \in Nat
      BY <1>2, <2>1, AreaAtFacts
  <2>3. r.addr + r.qty <= area.start + area.size
      BY <1>2, <2>1, <2>2
  <2>4. Promise!Space(r.fn) = "holding"
      BY DEF Promise!Space
  <2> HIDE DEF m, codes
  <2>5. Effected(r, st) /\ Promise!Range(Promise!Cells(m)) \subseteq Cells
      BY <1>2, <2>1, <2>3, <2>4, WriteEffected DEF m
  <2> HIDE DEF st
  <2>6. AnswersTruly(r, st, <<>>)
    <3>1. Promise!Answer(MemOf(st), m) = <<>>
        BY <1>2 DEF Promise!Answer
    <3>2. <<>> \in Seq(Word) /\ Swapped(<<>>) = <<>>
        BY DEF Swapped
    <3> QED
        BY <3>1, <3>2 DEF AnswersTruly, m
  <2>7. Promise!Possible(m)
      BY <2>5, PossibleIfThere DEF m
  <2>8. Fits(r, Response(r, 4, -1, <<>>))
      BY <2>1, FitsShort
  <2> QED
      BY <2>5, <2>6, <2>7, <2>8
<1> HIDE DEF codes, st, m
<1>6. Outcome(r, Result(FirstFailing(codes), st, Response(r, 4, -1, <<>>)))
    BY <1>5, OutcomeOfResult DEF m
<1> QED
    BY <1>1, <1>6

\* Function 5: the value is on or off, or the request is refused.
LEMMA WriteCoilOutcome ==
    ASSUME StoreOK(store), txSize \in Nat, NEW r, IsRequest(r), r.fn = 5, NEW wr
    PROVE  Outcome(r, WriteCoil(r, wr))
<1> DEFINE area == AreaAt("coil", r.addr)
           value == Swap(r.vals[1])
           coil == IF value = {1} THEN {0} ELSE {}
           codes == << Check(value \in {{}, {1}}, IllegalValue),
                       Check("coil" \in Kinds, SlaveFailure),
                       Check(area # NoArea, IllegalAddress),
                       Check(area.writes, IllegalAddress),
                       Check(txSize >= 4, SlaveFailure),
                       Check(wr = 0, wr) >>
           st == Store(store, area, r.addr - area.start, <<coil>>)
           data == <<Swap(value)>>
           m == Meant(r)
<1>1. WriteCoil(r, wr) = Result(FirstFailing(codes), st, Response(r, 4, -1, data))
    BY DEF WriteCoil
<1>2. r.vals \in Seq(Word) /\ Len(r.vals) = 1 /\ r.qty = 1
    BY RequestFacts DEF IsRequest
<1>3. m.fn = r.fn /\ m.vals = r.vals
  <2>1. ~HasRegs(r.fn)
      BY DEF HasRegs
  <2> QED
      BY <2>1, MeantFacts
<1>4. r.vals[1] \in Word /\ Swap(value) = r.vals[1] /\ data = r.vals
    BY <1>2, SwapFacts
<1>5. DOMAIN codes = 1..6
    OBVIOUS
<1>6. ASSUME \A i \in 1..6 : codes[i] = 0
      PROVE  value \in {{}, {1}} /\ area # NoArea /\ 4 <= txSize
  <2> HIDE DEF area, value
  <2> QED
      BY <1>6 DEF Check, IllegalAddress, IllegalValue, SlaveFailure
<1>7. ASSUME FirstFailing(codes) = 0
      PROVE  /\ Promise!Possible(m) /\ Effected(r, st) /\ AnswersTruly(r, st, data)
             /\ Fits(r, Response(r, 4, -1, data))
  <2>1. value \in {{}, {1}} /\ area # NoArea /\ 4 <= txSize
    <3> HIDE DEF codes
    <3>1. \A i \in DOMAIN codes : codes[i] = 0
        BY <1>5, <1>7, 6 \in Nat, AllHold
    <3> QED
        BY <1>5, <1>6, <3>1
  <2>2. coil = r.vals[1] /\ coil \in {{}, {0}}
    <3>1. Swap({}) = {} /\ Swap({1}) = {0}
        BY DEF Swap
    <3> HIDE DEF value
    <3> QED
        BY <1>4, <2>1, <3>1
  <2> HIDE DEF value
  <2>3. <<coil>> = r.vals
      BY <1>2, <2>2
  <2> HIDE DEF m, codes, coil
  <2>4. Promise!Space(r.fn) = "coil"
      BY DEF Promise!Space
  <2>5. Effected(r, st) /\ Promise!Range(Promise!Cells(m)) \subseteq Cells
      BY <1>2, <1>3, <2>1, <2>2, <2>3, <2>4, WriteEffected DEF m
  <2> HIDE DEF st, data
  <2>6. AnswersTruly(r, st, data)
    <3>1. Promise!Answer(MemOf(st), m) = r.vals
        BY <1>3 DEF Promise!Answer
    <3>2. ~HasRegs(r.fn)
        BY DEF HasRegs
    <3> QED
        BY <1>2, <1>4, <3>1, <3>2 DEF AnswersTruly, m
  <2>7. Promise!Possible(m)
      BY <2>5, PossibleIfThere DEF m
  <2>8. Fits(r, Response(r, 4, -1, data))
      BY <2>1, FitsShort
  <2> QED
      BY <2>5, <2>6, <2>7, <2>8
<1> HIDE DEF codes, data, st, m
<1>8. Outcome(r, Result(FirstFailing(codes), st, Response(r, 4, -1, data)))
    BY <1>7, OutcomeOfResult DEF m
<1> QED
    BY <1>1, <1>8

\* Function 6.
LEMMA WriteRegOutcome ==
    ASSUME StoreOK(store), txSize \in Nat, NEW r, IsRequest(r), r.fn = 6, NEW wr
    PROVE  Outcome(r, WriteReg(r, wr))
<1> DEFINE area == AreaAt("holding", r.addr)
           value == Swap(r.vals[1])
           codes == << Check("holding" \in Kinds, SlaveFailure),
                       Check(area # NoArea, IllegalAddress),
                       Check(area.writes, IllegalAddress),
                       Check(wr = 0, wr) >>
           st == Store(store, area, r.addr - area.start, <<value>>)
           data == <<Swap(value)>>
           code == FirstFailing(codes)
           last == IF 4 > txSize THEN SlaveFailure ELSE 0
           m == Meant(r)
<1>1. WriteReg(r, wr) = IF code # 0 THEN Result(code, store, NoResponse)
                        ELSE ResultAnyway(last, st, Response(r, 4, -1, data))
    BY DEF WriteReg
<1>2. r.vals \in Seq(Word) /\ Len(r.vals) = 1 /\ r.qty = 1
    BY RequestFacts DEF IsRequest
<1>3. m.fn = r.fn /\ m.vals = Swapped(r.vals) /\ HasRegs(r.fn)
  <2>1. HasRegs(r.fn)
      BY DEF HasRegs
  <2> QED
      BY <2>1, MeantFacts
<1>4. r.vals[1] \in Word /\ Swap(value) = r.vals[1] /\ data = r.vals /\ <<value>> = m.vals
  <2>1. Len(Swapped(r.vals)) = 1 /\ Swapped(r.vals)[1] = value /\ Swapped(r.vals) \in Seq(Word)
      BY <1>2, SwappedFacts
  <2>2. <<value>> = Swapped(r.vals)
    <3> HIDE DEF value
    <3> QED
        BY <2>1
  <2> QED
      BY <1>2, <1>3, <2>2, SwapFacts
<1>5. DOMAIN codes = 1..4
    OBVIOUS
<1>6. ASSUME \A i \in 1..4 : codes[i] = 0
      PROVE  area # NoArea
  <2> HIDE DEF area
  <2> QED
      BY <1>6 DEF Check, IllegalAddress
<1>7. CASE code # 0
  <2> HIDE DEF code, st, data, last
  <2>1. Outcome(r, Result(code, store, NoResponse))
      BY <1>7, OutcomeOfRefusal
  <2> QED
      BY <1>1, <1>7, <2>1
<1>8. CASE code = 0
  <2>1. area # NoArea
    <3> HIDE DEF codes
    <3>1. \A i \in DOMAIN codes : codes[i] = 0
        BY <1>5, <1>8, 4 \in Nat, AllHold
    <3> QED
        BY <1>5, <1>6, <3>1
  <2> HIDE DEF m, codes, value, data
  <2>2. Promise!Space(r.fn) = "holding"
      BY DEF Promise!Space
  <2>3. Effected(r, st) /\ Promise!Range(Promise!Cells(m)) \subseteq Cells
      BY <1>2, <1>4, <2>1, <2>2, WriteEffected DEF m
  <2> HIDE DEF st
  <2>4. AnswersTruly(r, st, data)
    <3>1. Promise!Answer(MemOf(st), m) = m.vals
        BY <1>3 DEF Promise!Answer
    <3> QED
        BY <1>2, <1>3, <1>4, <3>1 DEF AnswersTruly, m
  <2>5. Promise!Possible(m)
      BY <2>3, PossibleIfThere DEF m
  <2>6. last = 0 => Fits(r, Response(r, 4, -1, data))
    <3>1. last = 0 => 4 <= txSize
        BY DEF SlaveFailure
    <3> QED
        BY <3>1, FitsShort
  <2>7. last # 0 => Torn(r, st)
      BY <2>3 DEF Torn, MayTear, Effected
  <2> HIDE DEF last
  <2>8. StoreOK(st)
      BY <2>3 DEF Effected
  <2>9. Outcome(r, ResultAnyway(last, st, Response(r, 4, -1, data)))
      BY <2>3, <2>4, <2>5, <2>6, <2>7, <2>8, OutcomeAnyway DEF m
  <2> HIDE DEF code
  <2> QED
      BY <1>1, <1>8, <2>9
<1> QED
    BY <1>7, <1>8

\* A sequence of two.
LEMMA TwoOf ==
    ASSUME NEW S, NEW s \in Seq(S), Len(s) = 2 PROVE s[1] \in S /\ s[2] \in S
<1>1. ASSUME NEW i \in 1..Len(s) PROVE s[i] \in S
    OBVIOUS
<1>2. 1 \in 1..Len(s) /\ 2 \in 1..Len(s)
    OBVIOUS
<1> QED
    BY <1>1, <1>2

\* Function 22.
LEMMA MaskRegOutcome ==
    ASSUME StoreOK(store), txSize \in Nat, NEW r, IsRequest(r), r.fn = 22, NEW rd, NEW wr
    PROVE  Outcome(r, MaskReg(r, rd, wr))
<1> DEFINE area == AreaAt("holding", r.addr)
           masks == Swapped(r.vals)
           offset == r.addr - area.start
           codes == << Check("holding" \in Kinds, SlaveFailure),
                       Check(area # NoArea, IllegalAddress),
                       Check(area.reads /\ area.writes, IllegalAddress),
                       Check(rd = 0, rd),
                       Check(wr = 0, wr) >>
           tmp == store[<<area, offset>>]
           value == (tmp \cap masks[1]) \cup (masks[2] \cap ({0, 1} \ masks[1]))
           st == Store(store, area, offset, <<value>>)
           data == Swapped(masks)
           code == FirstFailing(codes)
           last == IF 6 > txSize THEN SlaveFailure ELSE 0
           m == Meant(r)
           s == OwnSpan(r)
<1>1. MaskReg(r, rd, wr) = IF code # 0 THEN Result(code, store, NoResponse)
                           ELSE ResultAnyway(last, st, Response(r, 6, -1, data))
    BY DEF MaskReg
<1>2. r.vals \in Seq(Word) /\ Len(r.vals) = 2 /\ r.qty = 1 /\ r.addr \in Nat
    BY RequestFacts DEF IsRequest
<1>3. m.fn = r.fn /\ m.vals = masks /\ HasRegs(r.fn)
  <2>1. HasRegs(r.fn)
      BY DEF HasRegs
  <2> QED
      BY <2>1, MeantFacts
<1>4. /\ masks \in Seq(Word) /\ data = r.vals
      /\ masks[1] \subseteq {0, 1} /\ masks[2] \subseteq {0, 1}
  <2>1. masks \in Seq(Word) /\ Len(masks) = 2 /\ data = r.vals
      BY <1>2, SwappedFacts
  <2> HIDE DEF masks, data
  <2>2. masks[1] \in Word /\ masks[2] \in Word
      BY ONLY <2>1, TwoOf
  <2> QED
      BY <2>1, <2>2 DEF Word
<1>5. DOMAIN codes = 1..5
    OBVIOUS
<1>6. ASSUME \A i \in 1..5 : codes[i] = 0
      PROVE  area # NoArea
  <2>1. codes[2] = 0
      BY <1>6
  <2> HIDE DEF area
  <2> QED
      BY <2>1 DEF Check, IllegalAddress
<1>7. CASE code # 0
  <2> HIDE DEF code, st, data, last
  <2>1. Outcome(r, Result(code, store, NoResponse))
      BY <1>7, OutcomeOfRefusal
  <2> QED
      BY <1>1, <1>7, <2>1
<1>8. CASE code = 0
  <2>1. area # NoArea
    <3> HIDE DEF codes
    <3>1. \A i \in DOMAIN codes : codes[i] = 0
        BY <1>5, <1>8, 5 \in Nat, AllHold
    <3> QED
        BY <1>5, <1>6, <3>1
  <2> HIDE DEF m, codes, data, masks
  <2>2. s.space = "holding" /\ s.addr = r.addr /\ s.qty = 1 /\ Promise!Cells(m) = Promise!cellsOf(s)
      BY <1>2, SpanFacts DEF Promise!Space, m
  <2>3. /\ area \in AllAreas /\ area.kind = "holding" /\ area.start \in Nat /\ area.size \in Nat
        /\ offset \in Nat /\ offset + 1 <= area.size /\ r.addr = area.start + offset
      BY <1>2, <2>1, AreaAtFacts
  <2> HIDE DEF s, area, offset
  <2>4. Promise!Cells(m)[1] = <<"holding", r.addr>>
      BY <1>2, <2>2 DEF Promise!cellsOf
  <2>5. offset \in 0..(area.size - 1)
      BY <2>3
  <2>6. MemOf(store)[Promise!Cells(m)[1]] = tmp
      BY <2>3, <2>4, <2>5, MemFacts
  <2>7. tmp \in Word
      BY <2>3, <2>5, CellFacts DEF StoreOK, Words
  <2> HIDE DEF tmp
  <2>8. Promise!Masked(tmp, masks) = value /\ value \in Word
      BY <1>4, <2>7 DEF Promise!Masked, Word
  <2> HIDE DEF value
  <2>9. /\ StoreOK(st)
        /\ MemOf(st) = Promise!Put(MemOf(store), Promise!cellsOf(s), <<value>>)
        /\ Promise!Range(Promise!cellsOf(s)) \subseteq Cells
    <3> DEFINE addr == r.addr
               vals == <<value>>
               st1 == Store(store, AreaAt("holding", addr),
                            addr - AreaAt("holding", addr).start, vals)
    <3>1. st = st1
        BY DEF area, offset
    <3>2. vals \in Seq(Word) /\ Len(vals) <= s.qty /\ s.qty \in Nat /\ s.qty = 1
        BY <2>2, <2>8
    <3>3. s.space = "holding" /\ s.addr = addr /\ addr \in Nat /\ AreaAt("holding", addr) # NoArea
        BY <1>2, <2>1, <2>2 DEF area
    <3>4. StoreOK(store) /\ "holding" \notin {"coil", "discrete"}
        OBVIOUS
    <3> HIDE DEF addr, vals, st
    <3>5. StoreOK(st1)
        BY ONLY <3>2, <3>3, <3>4, AreaWrite
    <3>6. MemOf(st1) = Promise!Put(MemOf(store), Promise!cellsOf(s), vals)
        BY ONLY <3>2, <3>3, <3>4, AreaWrite
    <3>7. Promise!Range(Promise!cellsOf(s)) \subseteq Cells
        BY ONLY <3>2, <3>3, <3>4, AreaWrite
    <3> QED
        BY <3>1, <3>5, <3>6, <3>7 DEF vals
  <2> HIDE DEF st
  <2>10. Effected(r, st)
    <3>1. Promise!Effect(MemOf(store), m)
             = Promise!Put(MemOf(store), Promise!Cells(m),
                           <<Promise!Masked(MemOf(store)[Promise!Cells(m)[1]], m.vals)>>)
        BY <1>3 DEF Promise!Effect
    <3> QED
        BY <1>3, <2>2, <2>6, <2>8, <2>9, <3>1 DEF Effected, m
  <2>11. AnswersTruly(r, st, data)
    <3>1. Promise!Answer(MemOf(st), m) = m.vals
        BY <1>3 DEF Promise!Answer
    <3>2. Swapped(data) = masks
        BY <1>4 DEF masks
    <3> QED
        BY <1>2, <1>3, <1>4, <3>1, <3>2 DEF AnswersTruly, m
  <2>12. Promise!Possible(m)
      BY <2>2, <2>9, PossibleIfThere DEF m
  <2>13. last = 0 => Fits(r, Response(r, 6, -1, data))
    <3>1. last = 0 => 6 <= txSize
        BY DEF SlaveFailure
    <3> QED
        BY <3>1, FitsShort
  <2>14. last # 0 => Torn(r, st)
      BY <2>10 DEF Torn, MayTear, Effected
  <2> HIDE DEF last
  <2>15. Outcome(r, ResultAnyway(last, st, Response(r, 6, -1, data)))
      BY <2>9, <2>10, <2>11, <2>12, <2>13, <2>14, OutcomeAnyway DEF m
  <2> HIDE DEF code
  <2> QED
      BY <1>1, <1>8, <2>15
<1> QED
    BY <1>7, <1>8

\* Function 23.
LEMMA ReadWriteRegsOutcome ==
    ASSUME StoreOK(store), txSize \in Nat, NEW r, IsRequest(r), r.fn = 23, NEW rd, NEW wr
    PROVE  Outcome(r, ReadWriteRegs(r, rd, wr))
<1> DEFINE wrArea == AreaAt("holding", r.addr)
           rdArea == AreaAt("holding", r.raddr)
           codes == << Check(1 <= r.rqty /\ r.rqty <= 125, IllegalValue),
                       Check(1 <= r.qty /\ r.qty <= 121, IllegalValue),
                       Check(r.bytes, IllegalValue),
                       Check("holding" \in Kinds, SlaveFailure),
                       Check(wrArea # NoArea, IllegalAddress),
                       Check(r.addr + r.qty <= wrArea.start + wrArea.size, IllegalAddress),
                       Check(wrArea.writes, IllegalFunction),
                       Check(rdArea # NoArea, IllegalAddress),
                       Check(r.raddr + r.rqty <= rdArea.start + rdArea.size, IllegalAddress),
                       Check(rdArea.reads, IllegalFunction),
                       Check(1 + 2 * r.rqty <= txSize, SlaveFailure),
                       Check(wr = 0, wr) >>
           st == Store(store, wrArea, r.addr - wrArea.start, Swapped(r.vals))
           words == Load(st, rdArea, r.raddr - rdArea.start, r.rqty)
           data == Swapped(words)
           size == 1 + 2 * r.rqty
           count == 2 * r.rqty
           code == FirstFailing(codes)
           m == Meant(r)
           s == [space |-> "holding", addr |-> m.raddr, qty |-> m.rqty]
<1>1. ReadWriteRegs(r, rd, wr) = IF code # 0 THEN Result(code, store, NoResponse)
                                 ELSE ResultAnyway(rd, st, Response(r, size, count, data))
    BY DEF ReadWriteRegs
<1>2. r.addr \in Nat /\ r.qty \in Nat /\ r.raddr \in Nat /\ r.rqty \in Nat /\ HasRegs(r.fn)
    BY RequestFacts DEF HasRegs
<1>3. m.fn = r.fn /\ m.vals = Swapped(r.vals) /\ m.raddr = r.raddr /\ m.rqty = r.rqty
    BY <1>2, MeantFacts
<1>4. /\ s.space = "holding" /\ s.addr = r.raddr /\ s.qty = r.rqty
      /\ Promise!ReadCells(m) = Promise!cellsOf(s)
    BY <1>3 DEF Promise!ReadCells
<1>5. DOMAIN codes = 1..12
    OBVIOUS
<1>6. ASSUME \A i \in 1..12 : codes[i] = 0
      PROVE  /\ wrArea # NoArea /\ r.addr + r.qty <= wrArea.start + wrArea.size
             /\ rdArea # NoArea /\ r.raddr + r.rqty <= rdArea.start + rdArea.size
             /\ size <= txSize
  <2>1. codes[5] = 0 /\ codes[6] = 0 /\ codes[8] = 0 /\ codes[9] = 0 /\ codes[11] = 0
    <3> HIDE DEF codes
    <3> QED
        BY <1>6
  <2> HIDE DEF wrArea, rdArea
  <2> QED
      BY <2>1 DEF Check, IllegalAddress, SlaveFailure
<1>7. CASE code # 0
  <2> HIDE DEF code, st, data, size, count
  <2>1. Outcome(r, Result(code, store, NoResponse))
      BY <1>7, OutcomeOfRefusal
  <2> QED
      BY <1>1, <1>7, <2>1
<1>8. CASE code = 0
  <2>1. /\ wrArea # NoArea /\ r.addr + r.qty <= wrArea.start + wrArea.size
        /\ rdArea # NoArea /\ r.raddr + r.rqty <= rdArea.start + rdArea.size
        /\ size <= txSize
    <3> HIDE DEF codes
    <3>1. \A i \in DOMAIN codes : codes[i] = 0
        BY <1>5, <1>8, 12 \in Nat, AllHold
    <3> QED
        BY <1>5, <1>6, <3>1
  <2> HIDE DEF s, m, codes
  <2>2. Promise!Space(r.fn) = "holding"
      BY DEF Promise!Space
  <2>3. Effected(r, st) /\ Promise!Range(Promise!Cells(m)) \subseteq Cells
      BY <1>3, <2>1, <2>2, WriteEffected DEF m
  <2> HIDE DEF st, wrArea
  <2>4. StoreOK(st) /\ Words(st)
      BY <2>3 DEF Effected, StoreOK
  <2>5. /\ words \in Seq(Word) /\ Len(words) = r.rqty
        /\ Promise!Get(MemOf(st), Promise!ReadCells(m)) = words
        /\ Promise!Range(Promise!ReadCells(m)) \subseteq Cells
    <3> DEFINE addr == r.raddr
               n == r.rqty
               a == AreaAt("holding", addr)
               load == Load(st, a, addr - a.start, n)
    <3>1. /\ Words(st) /\ addr \in Nat /\ n \in Nat /\ a # NoArea /\ addr + n <= a.start + a.size
          /\ s.space = "holding" /\ s.addr = addr /\ s.qty = n
        BY <1>2, <1>4, <2>1, <2>4
    <3>2. load = words
        OBVIOUS
    <3> HIDE DEF addr, n, words
    <3>3. load \in Seq(Word) /\ Len(load) = n
        BY ONLY <3>1, AreaRead
    <3>4. Promise!Get(MemOf(st), Promise!cellsOf(s)) = load
        BY ONLY <3>1, AreaRead
    <3>5. Promise!Range(Promise!cellsOf(s)) \subseteq Cells
        BY ONLY <3>1, AreaRead
    <3> HIDE DEF load
    <3> QED
        BY <1>4, <3>2, <3>3, <3>4, <3>5 DEF n
  <2> HIDE DEF words
  <2>6. data \in Seq(Word) /\ Len(data) = r.rqty /\ Swapped(data) = words
      BY <2>5, SwappedFacts
  <2> HIDE DEF data
  <2>7. AnswersTruly(r, st, data)
    <3>1. Promise!Answer(MemOf(st), m) = words
        BY <1>3, <2>5 DEF Promise!Answer
    <3> QED
        BY <1>2, <2>6, <3>1 DEF AnswersTruly, m
  <2>8. Promise!Possible(m)
    <3>1. Promise!Range(Promise!FileCells(m)) = {} /\ DOMAIN Mem = Cells
        BY PossibleFacts DEF m
    <3> QED
        BY <1>3, <2>3, <2>5, <3>1 DEF Promise!Possible
  <2>9. Fits(r, Response(r, size, count, data))
    <3> DEFINE n == r.rqty
    <3>1. /\ n \in Nat /\ Len(data) = n /\ txSize \in Nat
          /\ r.fn \notin {1, 2, 20, 24} /\ 1 + 2 * n <= txSize
        BY <1>2, <2>1, <2>6
    <3> HIDE DEF n
    <3>2. Fits(r, Response(r, 1 + 2 * n, 2 * n, data))
        BY ONLY <3>1, FitsRegs
    <3> QED
        BY <3>2 DEF n
  <2>10. Torn(r, st)
      BY <2>3 DEF Torn, MayTear, Effected
  <2> HIDE DEF size, count
  <2>11. Outcome(r, ResultAnyway(rd, st, Response(r, size, count, data)))
      BY <2>3, <2>4, <2>7, <2>8, <2>9, <2>10, OutcomeAnyway DEF m
  <2> HIDE DEF code
  <2> QED
      BY <1>1, <1>8, <2>11
<1> QED
    BY <1>7, <1>8

-----------------------------------------------------------------------------
\* Requests for files: what is done to each part is done to them all.
LEMMA ConcatFacts ==
    ASSUME NEW S, NEW a \in Seq(S), NEW b \in Seq(S)
    PROVE  /\ a \o b \in Seq(S) /\ Len(a \o b) = Len(a) + Len(b)
           /\ Len(a) \in Nat /\ Len(b) \in Nat
           /\ \A i \in 1..(Len(a) + Len(b)) :
                 /\ i <= Len(a) => i \in 1..Len(a) /\ (a \o b)[i] = a[i]
                 /\ i > Len(a) => i - Len(a) \in 1..Len(b) /\ (a \o b)[i] = b[i - Len(a)]
OBVIOUS

\* Sequences with the same elements are the same.
LEMMA SameSeq ==
    ASSUME NEW S, NEW a \in Seq(S), NEW b \in Seq(S), Len(a) = Len(b),
           \A i \in 1..Len(a) : a[i] = b[i]
    PROVE  a = b
OBVIOUS

\* A map of sequences that goes by index.
IsMapOf(fs, s, g, S) ==
    fs \in Seq(S) /\ Len(fs) = Len(s) /\ \A i \in 1..Len(s) : fs[i] = g[s[i]]

\* To map a concatenation is to concatenate what was mapped.
LEMMA MapConcat ==
    ASSUME NEW S, NEW a \in Seq(S), NEW b \in Seq(S), NEW S1, NEW g, NEW fa, NEW fb, NEW fc,
           IsMapOf(fa, a, g, S1), IsMapOf(fb, b, g, S1), IsMapOf(fc, a \o b, g, S1)
    PROVE  fc = fa \o fb
<1>0. /\ fa \in Seq(S1) /\ fb \in Seq(S1) /\ fc \in Seq(S1)
      /\ Len(fa) = Len(a) /\ Len(fb) = Len(b) /\ Len(fc) = Len(a \o b)
      /\ \A i \in 1..Len(a) : fa[i] = g[a[i]]
      /\ \A i \in 1..Len(b) : fb[i] = g[b[i]]
      /\ \A i \in 1..Len(a \o b) : fc[i] = g[(a \o b)[i]]
    BY DEF IsMapOf
<1>1. /\ fa \o fb \in Seq(S1) /\ Len(fa \o fb) = Len(fc)
      /\ Len(a \o b) = Len(a) + Len(b)
  <2>1. Len(a \o b) = Len(a) + Len(b)
      BY ConcatFacts
  <2>2. fa \o fb \in Seq(S1) /\ Len(fa \o fb) = Len(fa) + Len(fb)
      BY <1>0, ConcatFacts
  <2> QED
      BY <1>0, <2>1, <2>2
<1>2. ASSUME NEW i \in 1..Len(fc) PROVE fc[i] = (fa \o fb)[i]
  <2>1. i \in 1..(Len(a) + Len(b)) /\ i \in 1..(Len(fa) + Len(fb)) /\ fc[i] = g[(a \o b)[i]]
      BY <1>0, <1>1
  <2>2. CASE i <= Len(a)
    <3>1. i \in 1..Len(a) /\ (a \o b)[i] = a[i] /\ (fa \o fb)[i] = fa[i]
        BY <1>0, <2>1, <2>2, ConcatFacts
    <3> QED
        BY <1>0, <2>1, <3>1
  <2>3. CASE i > Len(a)
    <3>1. i - Len(a) \in 1..Len(b) /\ (a \o b)[i] = b[i - Len(a)] /\ (fa \o fb)[i] = fb[i - Len(a)]
        BY <1>0, <2>1, <2>3, ConcatFacts
    <3> QED
        BY <1>0, <2>1, <3>1
  <2>4. i <= Len(a) \/ i > Len(a)
      BY <1>0, <2>1
  <2> QED
      BY <2>2, <2>3, <2>4
<1> QED
    BY <1>0, <1>1, <1>2, SameSeq

\* Thus for swapped words, ...
LEMMA SwappedConcat ==
    ASSUME NEW a \in Seq(Word), NEW b \in Seq(Word)
    PROVE  Swapped(a \o b) = Swapped(a) \o Swapped(b)
<1> DEFINE g == [w \in Word |-> Swap(w)]
<1>1. ASSUME NEW s \in Seq(Word)
      PROVE  /\ Swapped(s) \in Seq(Word) /\ Len(Swapped(s)) = Len(s)
             /\ \A i \in 1..Len(s) : Swapped(s)[i] = g[s[i]]
    BY SwappedFacts
<1> DEFINE fa == Swapped(a)
           fb == Swapped(b)
           fc == Swapped(a \o b)
<1>2. a \o b \in Seq(Word)
    BY ConcatFacts
<1>3. IsMapOf(fa, a, g, Word)
    BY <1>1 DEF IsMapOf
<1>4. IsMapOf(fb, b, g, Word)
    BY <1>1 DEF IsMapOf
<1>5. IsMapOf(fc, a \o b, g, Word)
    BY <1>1, <1>2 DEF IsMapOf
<1> HIDE DEF g, fa, fb, fc
<1>6. fc = fa \o fb
    BY <1>3, <1>4, <1>5, MapConcat
<1> QED
    BY <1>6 DEF fa, fb, fc

\* ... and for what cells hold.
LEMMA GetConcat ==
    ASSUME NEW a \in Seq(Cells), NEW b \in Seq(Cells), NEW m
    PROVE  Promise!Get(m, a \o b) = Promise!Get(m, a) \o Promise!Get(m, b)
<1> DEFINE S == {m[x] : x \in Cells}
<1>1. ASSUME NEW s \in Seq(Cells)
      PROVE  /\ Promise!Get(m, s) \in Seq(S) /\ Len(Promise!Get(m, s)) = Len(s)
             /\ \A i \in 1..Len(s) : Promise!Get(m, s)[i] = m[s[i]]
  <2>1. Promise!Get(m, s) = [i \in 1..Len(s) |-> m[s[i]]]
      BY DEF Promise!Get
  <2> QED
      BY <2>1
<1> DEFINE fa == Promise!Get(m, a)
           fb == Promise!Get(m, b)
           fc == Promise!Get(m, a \o b)
<1>2. a \o b \in Seq(Cells)
    BY ConcatFacts
<1>3. IsMapOf(fa, a, m, S)
    BY <1>1 DEF IsMapOf
<1>4. IsMapOf(fb, b, m, S)
    BY <1>1 DEF IsMapOf
<1>5. IsMapOf(fc, a \o b, m, S)
    BY <1>1, <1>2 DEF IsMapOf
<1> HIDE DEF S, fa, fb, fc
<1>6. fc = fa \o fb
    BY <1>3, <1>4, <1>5, MapConcat
<1> QED
    BY <1>6 DEF fa, fb, fc

\* The same for any number of sequences: swapped words, ...
LEMMA SwappedFlatten ==
    ASSUME NEW seqs \in Seq(Seq(Word)), NEW swapped \in Seq(Seq(Word)),
           Len(swapped) = Len(seqs), \A i \in 1..Len(seqs) : swapped[i] = Swapped(seqs[i])
    PROVE  /\ FlattenSeq(seqs) \in Seq(Word)
           /\ Swapped(FlattenSeq(seqs)) = FlattenSeq(swapped)
<1> DEFINE n == Len(seqs)
<1>1. PICK f \in [0..n -> Seq(Word)] :
         /\ f[0] = <<>> /\ \A i \in 1..n : f[i] = f[i - 1] \o seqs[i]
         /\ FlattenSeq(seqs) = f[n]
    BY FlattenFacts
<1>2. PICK g \in [0..n -> Seq(Word)] :
         /\ g[0] = <<>> /\ \A i \in 1..n : g[i] = g[i - 1] \o swapped[i]
         /\ FlattenSeq(swapped) = g[n]
  <2>1. PICK g \in [0..Len(swapped) -> Seq(Word)] :
           /\ g[0] = <<>> /\ \A i \in 1..Len(swapped) : g[i] = g[i - 1] \o swapped[i]
           /\ FlattenSeq(swapped) = g[Len(swapped)]
      BY FlattenFacts
  <2>2. Len(swapped) = n
      OBVIOUS
  <2> HIDE DEF n
  <2> QED
      BY <2>1, <2>2
<1> DEFINE T == {i \in 0..n : Swapped(f[i]) = g[i]}
<1>3. n \in Nat /\ \A i \in 1..n : seqs[i] \in Seq(Word)
    OBVIOUS
<1>4. 0 \in T
  <2>1. Swapped(<<>>) = <<>>
      BY DEF Swapped
  <2> QED
      BY <1>1, <1>2, <1>3, <2>1
<1> HIDE DEF n
<1>5. ASSUME NEW i \in 0..(n - 1), i \in T PROVE i + 1 \in T
  <2>1. i + 1 \in 1..n /\ i + 1 \in 0..n /\ i \in 0..n /\ (i + 1) - 1 = i
      BY <1>3
  <2>2. f[i + 1] = f[i] \o seqs[i + 1] /\ g[i + 1] = g[i] \o swapped[i + 1]
      BY <1>1, <1>2, <2>1
  <2>3. f[i] \in Seq(Word) /\ seqs[i + 1] \in Seq(Word)
      BY <1>1, <1>3, <2>1
  <2>4. Swapped(f[i + 1]) = Swapped(f[i]) \o Swapped(seqs[i + 1])
      BY <2>2, <2>3, SwappedConcat
  <2>5. swapped[i + 1] = Swapped(seqs[i + 1]) /\ Swapped(f[i]) = g[i]
      BY <1>5, <2>1 DEF n
  <2> QED
      BY <2>1, <2>2, <2>4, <2>5
<1>6. n \in T
  <2> HIDE DEF T
  <2>1. 0..n \subseteq T
      BY <1>3, <1>4, <1>5, Upwards
  <2> QED
      BY <1>3, <2>1
<1> QED
    BY <1>1, <1>2, <1>3, <1>6

\* ... and what cells hold.
LEMMA GetFlatten ==
    ASSUME NEW seqs \in Seq(Seq(Cells)), NEW m, NEW got \in Seq(Seq(Word)),
           Len(got) = Len(seqs), \A i \in 1..Len(seqs) : got[i] = Promise!Get(m, seqs[i])
    PROVE  /\ FlattenSeq(seqs) \in Seq(Cells)
           /\ Promise!Get(m, FlattenSeq(seqs)) = FlattenSeq(got)
<1> DEFINE n == Len(seqs)
<1>1. PICK f \in [0..n -> Seq(Cells)] :
         /\ f[0] = <<>> /\ \A i \in 1..n : f[i] = f[i - 1] \o seqs[i]
         /\ FlattenSeq(seqs) = f[n]
    BY FlattenFacts
<1>2. PICK g \in [0..n -> Seq(Word)] :
         /\ g[0] = <<>> /\ \A i \in 1..n : g[i] = g[i - 1] \o got[i]
         /\ FlattenSeq(got) = g[n]
  <2>1. PICK g \in [0..Len(got) -> Seq(Word)] :
           /\ g[0] = <<>> /\ \A i \in 1..Len(got) : g[i] = g[i - 1] \o got[i]
           /\ FlattenSeq(got) = g[Len(got)]
      BY FlattenFacts
  <2>2. Len(got) = n
      OBVIOUS
  <2> HIDE DEF n
  <2> QED
      BY <2>1, <2>2
<1> DEFINE T == {i \in 0..n : Promise!Get(m, f[i]) = g[i]}
<1>3. n \in Nat /\ \A i \in 1..n : seqs[i] \in Seq(Cells)
    OBVIOUS
<1>4. 0 \in T
  <2>1. Promise!Get(m, <<>>) = <<>>
      BY DEF Promise!Get
  <2> QED
      BY <1>1, <1>2, <1>3, <2>1
<1> HIDE DEF n
<1>5. ASSUME NEW i \in 0..(n - 1), i \in T PROVE i + 1 \in T
  <2>1. i + 1 \in 1..n /\ i + 1 \in 0..n /\ i \in 0..n /\ (i + 1) - 1 = i
      BY <1>3
  <2>2. f[i + 1] = f[i] \o seqs[i + 1] /\ g[i + 1] = g[i] \o got[i + 1]
      BY <1>1, <1>2, <2>1
  <2>3. f[i] \in Seq(Cells) /\ seqs[i + 1] \in Seq(Cells)
      BY <1>1, <1>3, <2>1
  <2>4. Promise!Get(m, f[i + 1]) = Promise!Get(m, f[i]) \o Promise!Get(m, seqs[i + 1])
    <3>1. Promise!Get(m, f[i] \o seqs[i + 1]) = Promise!Get(m, f[i]) \o Promise!Get(m, seqs[i + 1])
        BY <2>3, GetConcat
    <3> QED
        BY <2>2, <3>1
  <2>5. got[i + 1] = Promise!Get(m, seqs[i + 1]) /\ Promise!Get(m, f[i]) = g[i]
      BY <1>5, <2>1 DEF n
  <2> QED
      BY <2>1, <2>2, <2>4, <2>5
<1>6. n \in T
  <2> HIDE DEF T
  <2>1. 0..n \subseteq T
      BY <1>3, <1>4, <1>5, Upwards
  <2> QED
      BY <1>3, <2>1
<1> QED
    BY <1>1, <1>2, <1>3, <1>6

\* The counter of function 20 counts what its response carries: it is even.
LEMMA FlattenSize ==
    ASSUME NEW parts \in Seq(PartFields), NEW seqs \in Seq(Seq(Word)),
           Len(seqs) = Len(parts), \A i \in 1..Len(parts) : Len(seqs[i]) = parts[i].qty
    PROVE  SumUpTo(parts, LAMBDA p : 2 + 2 * p.qty)[Len(parts)]
              = 2 * Len(FlattenSeq(seqs)) + 2 * Len(parts)
<1> DEFINE n == Len(parts)
           c == SumUpTo(parts, LAMBDA p : 2 + 2 * p.qty)
<1>1. PICK f \in [0..n -> Seq(Word)] :
         /\ f[0] = <<>> /\ \A i \in 1..n : f[i] = f[i - 1] \o seqs[i]
         /\ FlattenSeq(seqs) = f[n]
  <2>1. PICK f \in [0..Len(seqs) -> Seq(Word)] :
           /\ f[0] = <<>> /\ \A i \in 1..Len(seqs) : f[i] = f[i - 1] \o seqs[i]
           /\ FlattenSeq(seqs) = f[Len(seqs)]
      BY FlattenFacts
  <2>2. Len(seqs) = n
      OBVIOUS
  <2> HIDE DEF n
  <2> QED
      BY <2>1, <2>2
<1>2. /\ c \in [0..n -> Nat] /\ c[0] = 0
      /\ \A i \in 1..n : c[i] = c[i - 1] + (2 + 2 * parts[i].qty)
    BY CounterFacts
<1> HIDE DEF c
<1> DEFINE T == {i \in 0..n : c[i] = 2 * Len(f[i]) + 2 * i}
<1>3. n \in Nat /\ \A i \in 1..n : seqs[i] \in Seq(Word)
    OBVIOUS
<1>4. 0 \in T
    BY <1>1, <1>2, <1>3
<1> HIDE DEF n
<1>5. ASSUME NEW i \in 0..(n - 1), i \in T PROVE i + 1 \in T
  <2>1. i + 1 \in 1..n /\ i + 1 \in 0..n /\ i \in 0..n /\ (i + 1) - 1 = i
      BY <1>3
  <2>2. f[i + 1] = f[i] \o seqs[i + 1] /\ c[i + 1] = c[i] + (2 + 2 * parts[i + 1].qty)
      BY <1>1, <1>2, <2>1
  <2>3. f[i] \in Seq(Word) /\ seqs[i + 1] \in Seq(Word)
      BY <1>1, <1>3, <2>1
  <2>4. Len(f[i + 1]) = Len(f[i]) + Len(seqs[i + 1])
        /\ Len(f[i]) \in Nat /\ Len(seqs[i + 1]) \in Nat
      BY <2>2, <2>3
  <2>5. Len(seqs[i + 1]) = parts[i + 1].qty /\ c[i] = 2 * Len(f[i]) + 2 * i
      BY <1>5, <2>1 DEF n
  <2>6. c[i + 1] = 2 * Len(f[i + 1]) + 2 * (i + 1)
    <3> DEFINE k == Len(f[i])
               l == Len(seqs[i + 1])
    <3>1. k \in Nat /\ l \in Nat /\ i \in Nat
        BY <1>3, <2>4
    <3>2. c[i + 1] = (2 * k + 2 * i) + (2 + 2 * l) /\ Len(f[i + 1]) = k + l
        BY <2>2, <2>4, <2>5
    <3> HIDE DEF k, l
    <3> QED
        BY <3>1, <3>2
  <2> QED
      BY <2>1, <2>6
<1>6. n \in T
  <2> HIDE DEF T
  <2>1. 0..n \subseteq T
      BY <1>3, <1>4, <1>5, Upwards
  <2> QED
      BY <1>3, <2>1
<1>7. c[n] = 2 * Len(f[n]) + 2 * n
    BY <1>6
<1> QED
    BY <1>1, <1>7 DEF c, n

\* A read of a file is a read of the cells.
LEMMA FileRead ==
    ASSUME NEW st, Words(st), NEW number, NEW addr \in Nat, NEW n \in Nat,
           FileOf(number) # NoArea, addr + n <= FileOf(number).size,
           NEW s, s.space = number, s.addr = addr, s.qty = n
    PROVE  LET data == Load(st, FileOf(number), addr, n)
           IN  /\ data \in Seq(Word) /\ Len(data) = n
               /\ Promise!Get(MemOf(st), Promise!cellsOf(s)) = data
               /\ Promise!cellsOf(s) \in Seq(Cells)
<1> DEFINE f == FileOf(number)
<1>1. f \in AllAreas /\ f.kind = number /\ f.start = 0 /\ f.size \in Nat
    BY FileOfFacts
<1> HIDE DEF f
<1>2. s.space = f.kind /\ s.addr = f.start + addr /\ addr + n <= f.size
    BY <1>1 DEF f
<1>3. /\ Load(st, f, addr, n) \in Seq(Word) /\ Len(Load(st, f, addr, n)) = n
      /\ Promise!Get(MemOf(st), Promise!cellsOf(s)) = Load(st, f, addr, n)
      /\ Promise!cellsOf(s) \in Seq(Cells)
    BY <1>1, <1>2, LoadFacts
<1> QED
    BY <1>3 DEF f

\* A write to a file is a write to the cells.
LEMMA FileWrite ==
    ASSUME NEW st, StoreOK(st), NEW number, NEW addr \in Nat, NEW n \in Nat,
           FileOf(number) # NoArea, addr + n <= FileOf(number).size,
           NEW s, s.space = number, s.addr = addr, s.qty = n,
           NEW vals \in Seq(Word), Len(vals) = n
    PROVE  LET st1 == Store(st, FileOf(number), addr, vals)
           IN  /\ StoreOK(st1)
               /\ MemOf(st1) = Promise!Put(MemOf(st), Promise!cellsOf(s), vals)
               /\ Promise!cellsOf(s) \in Seq(Cells)
<1> DEFINE f == FileOf(number)
           st1 == Store(st, f, addr, vals)
<1>1. f \in Files /\ f \in AllAreas /\ f.kind = number /\ f.start = 0 /\ f.size \in Nat
    BY FileOfFacts
<1> HIDE DEF f
<1>2. s.space = f.kind /\ s.addr = f.start + addr /\ addr + n <= f.size /\ Len(vals) <= n
    BY <1>1 DEF f
<1>3. Words(st) /\ DOMAIN vals = 1..Len(vals)
    BY DEF StoreOK
<1>4. Words(st1) /\ MemOf(st1) = Promise!Put(MemOf(st), Promise!cellsOf(s), vals)
    BY <1>1, <1>2, <1>3, StoreFacts
<1>5. Promise!cellsOf(s) \in Seq(Cells)
    BY <1>1, <1>2, <1>3, LoadFacts
<1>6. \A c \in CellSet : IsBit(c) => st1[c] \in {{}, {0}}
  <2> SUFFICES ASSUME NEW c \in CellSet, IsBit(c) PROVE st1[c] \in {{}, {0}}
      OBVIOUS
  <2>1. c[1] # f
      BY <1>1, AreaFacts DEF IsBit, Spaces
  <2>2. st1[c] = st[c]
      BY <1>3, <2>1 DEF Store, Words
  <2> QED
      BY <2>2 DEF StoreOK
<1> QED
    BY <1>4, <1>5, <1>6 DEF StoreOK, f

\* The cells of a list of parts are there when those of every part are.
LEMMA CellsOfParts ==
    ASSUME NEW r, IsRequest(r), NEW seqs \in Seq(Seq(Cells)), Len(seqs) = Len(r.parts),
           \A i \in 1..Len(r.parts) : seqs[i] = Promise!cellsOf(r.parts[i])
    PROVE  /\ Promise!FileCells(Meant(r)) = FlattenSeq(seqs)
           /\ Promise!Range(Promise!FileCells(Meant(r))) \subseteq Cells
<1> DEFINE n == Len(r.parts)
           m == Meant(r)
           cells == [i \in DOMAIN m.parts |-> Promise!cellsOf(m.parts[i])]
<1>1. DOMAIN m.parts = 1..n /\ n \in Nat
    BY MeantParts
<1>2. ASSUME NEW i \in 1..n PROVE Promise!cellsOf(m.parts[i]) = seqs[i]
  <2>1. /\ m.parts[i].space = r.parts[i].space /\ m.parts[i].addr = r.parts[i].addr
        /\ m.parts[i].qty = r.parts[i].qty
      BY MeantParts
  <2> QED
      BY <2>1 DEF Promise!cellsOf
<1>3. cells = seqs
  <2>1. seqs = [i \in 1..n |-> seqs[i]]
      OBVIOUS
  <2> HIDE DEF n, m
  <2> QED
      BY <1>1, <1>2, <2>1
<1>4. Promise!FileCells(m) = Promise!FlattenSeq(cells)
    BY DEF Promise!FileCells
<1>5. Promise!FlattenSeq(seqs) = FlattenSeq(seqs)
    BY DEF Promise!FlattenSeq, FlattenSeq
<1>6. FlattenSeq(seqs) \in Seq(Cells)
  <2>1. PICK f \in [0..Len(seqs) -> Seq(Cells)] : FlattenSeq(seqs) = f[Len(seqs)]
      BY FlattenFacts
  <2> QED
      BY <2>1
<1> HIDE DEF cells, m
<1>7. Promise!FileCells(m) = FlattenSeq(seqs)
    BY <1>3, <1>4, <1>5
<1>8. Promise!Range(FlattenSeq(seqs)) \subseteq Cells
    BY <1>6 DEF Promise!Range
<1> QED
    BY <1>7, <1>8 DEF m

\* Function 20: a sub-request that is answered passed every check.
LEMMA ReadPartFacts ==
    ASSUME NEW r, NEW rd, NEW i, ReadPart(r, rd, i) = 0
    PROVE  LET part == r.parts[i]
               file == FileOf(part.space)
           IN  /\ "file" \in Kinds /\ file # NoArea /\ part.addr + part.qty <= file.size
               /\ txSize >= Counted(r, i)
<1> DEFINE part == r.parts[i]
           file == FileOf(part.space)
           counted == Counted(r, i)
           codes == << Check("file" \in Kinds, SlaveFailure),
                       Check(file # NoArea, IllegalAddress),
                       Check(file.reads, IllegalAddress),
                       Check(txSize >= counted, SlaveFailure),
                       Check(part.addr + part.qty <= file.size, IllegalAddress),
                       Check(rd = 0, rd) >>
<1>1. FirstFailing(codes) = 0
    BY DEF ReadPart
<1> HIDE DEF part, file, counted
<1>2. DOMAIN codes = 1..6
    OBVIOUS
<1>3. \A j \in DOMAIN codes : codes[j] = 0
  <2> HIDE DEF codes
  <2> QED
      BY <1>1, <1>2, 6 \in Nat, AllHold
<1>4. codes[1] = 0 /\ codes[2] = 0 /\ codes[4] = 0 /\ codes[5] = 0
  <2> HIDE DEF codes
  <2> QED
      BY <1>2, <1>3
<1>5. "file" \in Kinds /\ file # NoArea /\ part.addr + part.qty <= file.size /\ txSize >= counted
    BY <1>4 DEF Check, IllegalAddress, SlaveFailure
<1> QED
    BY <1>5 DEF part, file, counted

\* Where no sub-response runs over the end of tx_pdu the counter did not wrap, and
\* the response holds all the registers.
LEMMA NothingSpilled ==
    ASSUME txSize \in Nat, txSize <= 253, NEW r, r.parts \in Seq(PartFields), NEW rd,
           Len(r.parts) \in 1..35, \A i \in 1..Len(r.parts) : ReadPart(r, rd, i) = 0,
           ~FileSpills(r, rd)
    PROVE  LET n == Len(r.parts)
           IN  /\ PartEnds(r)[n] + 1 <= txSize /\ Counted(r, n) = PartEnds(r)[n]
               /\ \A i \in 1..n : Held(r, i) = r.parts[i].qty
<1> DEFINE n == Len(r.parts)
           ends == PartEnds(r)
           counted == Counted(r, n)
<1>1. /\ n \in Nat /\ ends \in [0..n -> Nat]
      /\ \A i \in 1..n : r.parts[i].qty \in Nat /\ ends[i] = ends[i - 1] + (2 + 2 * r.parts[i].qty)
      /\ \A i \in 0..n : ends[i] <= ends[n]
    BY PartEndsFacts
<1>2. n \in 1..35 /\ DOMAIN r.parts = 1..n /\ \A i \in 1..n : ReadPart(r, rd, i) = 0
    OBVIOUS
<1>9. n \in 1..n /\ n \in 0..n /\ \A i \in 1..(n - 1) : i \in 1..n
  <2> HIDE DEF n
  <2> QED
      BY <1>2
<1>3. "file" \in Kinds /\ FileOf(r.parts[n].space) # NoArea
    BY <1>2, <1>9, ReadPartFacts
<1>4. ~(txSize < ends[n] + 1)
  <2>1. ~ /\ n \in 1..35 /\ "file" \in Kinds
          /\ \E i \in DOMAIN r.parts :
                /\ FileOf(r.parts[i].space) # NoArea
                /\ \A j \in 1..(i - 1) : ReadPart(r, rd, j) = 0
                /\ \/ txSize < ends[i - 1] + 3
                   \/ ReadPart(r, rd, i) = 0 /\ txSize < ends[i] + 1
      BY DEF FileSpills
  <2> HIDE DEF n, ends
  <2> QED
      BY <1>2, <1>3, <1>9, <2>1
<1>5. counted = ends[n] % 2^8
    BY DEF Counted
<1> HIDE DEF n, ends
<1>6. ends[n] \in Nat
    BY <1>1, <1>9
<1>7. ends[n] + 1 <= txSize /\ counted = ends[n]
    BY <1>4, <1>5, <1>6, 2^8 = 256
<1>8. ASSUME NEW i \in 1..n PROVE Held(r, i) = r.parts[i].qty
  <2> DEFINE q == r.parts[i].qty
             before == ends[i - 1]
             last == ends[n]
             room == (last - before - 2) \div 2
  <2>1. /\ i \in 0..n /\ i - 1 \in 0..n /\ q \in Nat /\ before \in Nat /\ last \in Nat
        /\ before + (2 + 2 * q) <= last
      BY <1>1, <1>6
  <2>2. Held(r, i) = IF room < 0 THEN 0 ELSE IF room < q THEN room ELSE q
      BY <1>7 DEF Held, n, ends
  <2> HIDE DEF q, before, last
  <2>3. room >= q
      BY <2>1
  <2>4. q \in Nat /\ room \in Int
      BY <2>1
  <2> HIDE DEF room
  <2>5. Held(r, i) = q
      BY <2>2, <2>3, <2>4
  <2> QED
      BY <2>5 DEF q
<1> QED
    BY <1>7, <1>8 DEF n, ends

\* A request that writes behind tx_pdu asks for more than tx_pdu can hold.
LEMMA SpillsAreLong ==
    ASSUME txSize \in Nat, NEW r, r.parts \in Seq(PartFields), r.fn = 20, NEW rd, FileSpills(r, rd)
    PROVE  AnswerBytes(r) > txSize
<1> DEFINE n == Len(r.parts)
           ends == PartEnds(r)
<1>1. /\ n \in Nat /\ ends \in [0..n -> Nat]
      /\ \A i \in 1..n : r.parts[i].qty \in Nat /\ ends[i] = ends[i - 1] + (2 + 2 * r.parts[i].qty)
      /\ \A i \in 0..n : ends[i] <= ends[n]
    BY PartEndsFacts
<1>2. AnswerBytes(r) = 1 + ends[n]
    BY DEF AnswerBytes
<1>3. PICK i \in 1..n : txSize < ends[i - 1] + 3 \/ txSize < ends[i] + 1
    BY DEF FileSpills
<1> HIDE DEF n, ends
<1> DEFINE q == r.parts[i].qty
           before == ends[i - 1]
           end == ends[i]
           last == ends[n]
<1>4. /\ q \in Nat /\ before \in Nat /\ end = before + (2 + 2 * q) /\ end <= last /\ last \in Nat
      /\ txSize < before + 3 \/ txSize < end + 1
  <2>1. i \in 0..n /\ i - 1 \in 0..n /\ n \in 0..n
      BY <1>1
  <2> QED
      BY <1>1, <1>3, <2>1
<1> HIDE DEF q, before, end, last
<1>5. 1 + last > txSize
    BY <1>4
<1> QED
    BY <1>2, <1>5 DEF last

\* The words of a response are words, however many they are.
LEMMA HeldFacts ==
    ASSUME StoreOK(store), NEW r, IsRequest(r), NEW rd, NEW i \in 1..Len(r.parts),
           ReadPart(r, rd, i) = 0
    PROVE  Swapped(Load(store, FileOf(r.parts[i].space), r.parts[i].addr, Held(r, i))) \in Seq(Word)
<1> DEFINE part == r.parts[i]
           number == part.space
           addr == part.addr
           held == Held(r, i)
           s == [part EXCEPT !.qty = held]
           load == Load(store, FileOf(number), addr, held)
<1>1. addr \in Nat /\ part.qty \in Nat
    BY MeantParts
<1>2. held \in 0..part.qty
  <2> DEFINE n == Len(r.parts)
             before == PartEnds(r)[i - 1]
             counted == Counted(r, n)
             room == (counted - before - 2) \div 2
             q == part.qty
  <2>1. r.parts \in Seq(PartFields) /\ n \in Nat /\ i - 1 \in 0..n /\ n \in 0..n
      BY RequestFacts
  <2>2. PartEnds(r)[n] \in Nat /\ before \in Nat
      BY <2>1, PartEndsFacts
  <2>3. counted \in Nat
      BY <2>2, 2^8 = 256 DEF Counted
  <2>4. held = IF room < 0 THEN 0 ELSE IF room < q THEN room ELSE q
      BY DEF Held
  <2> HIDE DEF n, before, counted, q, held, part
  <2>5. room \in Int
      BY <2>2, <2>3
  <2>6. q \in Nat
      BY <1>1 DEF q
  <2> HIDE DEF room
  <2>7. held \in 0..q
      BY <2>4, <2>5, <2>6
  <2> QED
      BY <2>7 DEF q
<1>3. FileOf(number) # NoArea /\ addr + part.qty <= FileOf(number).size
    BY ReadPartFacts
<1>4. FileOf(number) \in AllAreas /\ FileOf(number).start = 0 /\ FileOf(number).size \in Nat
    BY <1>3, FileOfFacts
<1> HIDE DEF held, addr
<1> DEFINE f == FileOf(number)
           q == part.qty
<1>5. f \in AllAreas /\ f.size \in Nat /\ held \in Nat /\ addr + held <= f.size /\ q \in Nat
  <2>1. q \in Nat /\ held \in 0..q /\ addr + q <= f.size /\ f.size \in Nat /\ f \in AllAreas
      BY <1>1, <1>2, <1>3, <1>4 DEF addr
  <2> HIDE DEF q, f
  <2> QED
      BY <1>1, <2>1
<1>6. \A j \in 1..held : store[<<f, addr + j - 1>>] \in Word
  <2> SUFFICES ASSUME NEW j \in 1..held PROVE store[<<f, addr + j - 1>>] \in Word
      OBVIOUS
  <2> HIDE DEF f
  <2>1. addr + j - 1 \in 0..(f.size - 1)
      BY <1>1, <1>5
  <2>2. <<f, addr + j - 1>> \in CellSet
      BY <1>5, <2>1, CellFacts
  <2> QED
      BY <2>2 DEF StoreOK, Words
<1>7. load \in [1..held -> Word]
    BY <1>6 DEF Load
<1> HIDE DEF load, f, part
<1>8. load \in Seq(Word)
    BY <1>5, <1>7, IsASeq
<1>9. Swapped(load) \in Seq(Word)
    BY <1>8, SwappedFacts
<1> QED
    BY <1>9 DEF load, addr, held, part

\* What the handler of function 20 does to the state, whether it spills or not.
LEMMA ReadFileTyped ==
    ASSUME StoreOK(store), NEW r, IsRequest(r), NEW rd
    PROVE  LET x == ReadFile(r, rd)
           IN  /\ x.store = store
               /\ x.code = 0 => /\ DOMAIN x.response = DOMAIN NoResponse
                                /\ x.response.data \in Seq(Word)
<1> DEFINE n == Len(r.parts)
           count == Counted(r, n)
           all == [i \in 1..n |-> ReadPart(r, rd, i)]
           code == IF 7 <= 7 * n /\ 7 * n <= 245 THEN FirstFailing(all) ELSE IllegalValue
           held == [i \in 1..n |-> Swapped(Load(store, FileOf(r.parts[i].space), r.parts[i].addr,
                                                Held(r, i)))]
           data == FlattenSeq(held)
           x == ReadFile(r, rd)
<1>1. x = Result(code, store, Response(r, count + 1, count, data))
    BY DEF ReadFile
<1>2. x.store = store /\ x.code = code
    BY <1>1 DEF Result
<1>3. ASSUME code = 0
      PROVE  DOMAIN x.response = DOMAIN NoResponse /\ x.response.data \in Seq(Word)
  <2>1. x.response = Response(r, count + 1, count, data)
      BY <1>1, <1>3 DEF Result
  <2>2. DOMAIN x.response = DOMAIN NoResponse /\ x.response.data = data
      BY <2>1 DEF Response, NoResponse
  <2>3. n \in Nat /\ FirstFailing(all) = 0
    <3>1. n \in Nat
        BY RequestFacts
    <3> HIDE DEF all, n
    <3> QED
        BY <1>3, <3>1 DEF IllegalValue
  <2>4. \A i \in 1..n : ReadPart(r, rd, i) = 0
    <3>1. DOMAIN all = 1..n
        OBVIOUS
    <3>2. \A i \in DOMAIN all : all[i] = 0
      <4> HIDE DEF all, n
      <4> QED
          BY <2>3, <3>1, AllHold
    <3> QED
        BY <3>2
  <2>5. \A i \in 1..n : held[i] \in Seq(Word)
      BY <2>4, HeldFacts
  <2>6. held \in Seq(Seq(Word)) /\ Len(held) = n
    <3>1. held \in [1..n -> Seq(Word)]
      <4>1. held = [i \in 1..n |-> held[i]]
          OBVIOUS
      <4> HIDE DEF held, n
      <4> QED
          BY <2>5, <4>1
    <3> HIDE DEF held, n
    <3> QED
        BY <2>3, <3>1, IsASeq
  <2> HIDE DEF held
  <2>7. data \in Seq(Word)
    <3>1. PICK f \in [0..Len(held) -> Seq(Word)] : FlattenSeq(held) = f[Len(held)]
        BY <2>6, FlattenFacts
    <3> QED
        BY <2>3, <2>6, <3>1
  <2> QED
      BY <2>2, <2>7
<1> QED
    BY <1>2, <1>3

\* Function 20, as long as it does not spill.
LEMMA ReadFileOutcome ==
    ASSUME StoreOK(store), txSize \in Nat, txSize <= 253, NEW r, IsRequest(r), r.fn = 20, NEW rd,
           ~FileSpills(r, rd)
    PROVE  Outcome(r, ReadFile(r, rd))
<1> DEFINE n == Len(r.parts)
           counter == PartEnds(r)
           file(i) == FileOf(r.parts[i].space)
           all == [i \in 1..n |-> ReadPart(r, rd, i)]
           code == IF 7 <= 7 * n /\ 7 * n <= 245 THEN FirstFailing(all) ELSE IllegalValue
           held == [i \in 1..n |-> Swapped(Load(store, file(i), r.parts[i].addr, Held(r, i)))]
           words == [i \in 1..n |-> Load(store, file(i), r.parts[i].addr, r.parts[i].qty)]
           swapped == [i \in 1..n |-> Swapped(words[i])]
           cells == [i \in 1..n |-> Promise!cellsOf(r.parts[i])]
           data == FlattenSeq(held)
           count == Counted(r, n)
           size == count + 1
           m == Meant(r)
<1>1. ReadFile(r, rd) = Result(code, store, Response(r, size, count, data))
    BY DEF ReadFile
<1>2. m.fn = r.fn /\ n \in Nat /\ r.parts \in Seq(PartFields)
    BY RequestFacts, MeantFacts, MeantParts
<1>3. ASSUME NEW i \in 1..n
      PROVE  r.parts[i].addr \in Nat /\ r.parts[i].qty \in Nat
    BY MeantParts
<1>4. ASSUME NEW i \in 1..n, ReadPart(r, rd, i) = 0
      PROVE  file(i) # NoArea /\ r.parts[i].addr + r.parts[i].qty <= file(i).size
    BY <1>4, ReadPartFacts
<1>5. ASSUME code = 0
      PROVE  /\ Promise!Possible(m) /\ Effected(r, store) /\ AnswersTruly(r, store, data)
             /\ Fits(r, Response(r, size, count, data))
  <2>1. n >= 1 /\ n <= 35 /\ FirstFailing(all) = 0
    <3> HIDE DEF all, n
    <3> QED
        BY <1>2, <1>5 DEF IllegalValue
  <2>2. \A i \in 1..n : ReadPart(r, rd, i) = 0
    <3>1. DOMAIN all = 1..n
        OBVIOUS
    <3>2. \A i \in DOMAIN all : all[i] = 0
      <4> HIDE DEF all, n
      <4> QED
          BY <1>2, <2>1, <3>1, AllHold
    <3> QED
        BY <3>2
  <2>18. /\ counter[n] + 1 <= txSize /\ count = counter[n]
         /\ \A i \in 1..n : Held(r, i) = r.parts[i].qty
    <3>1. n \in 1..35
      <4> HIDE DEF n
      <4> QED
          BY <1>2, <2>1
    <3> QED
        BY <1>2, <2>2, <3>1, NothingSpilled
  <2>19. held = swapped
      BY <2>18
  <2> HIDE DEF all, counter, count, m
  <2>3. ASSUME NEW i \in 1..n
        PROVE  /\ words[i] \in Seq(Word) /\ Len(words[i]) = r.parts[i].qty
               /\ Promise!Get(MemOf(store), cells[i]) = words[i]
               /\ cells[i] \in Seq(Cells)
    <3> DEFINE s == r.parts[i]
               number == s.space
               addr == s.addr
               q == s.qty
               load == Load(store, FileOf(number), addr, q)
    <3>1. /\ Words(store) /\ addr \in Nat /\ q \in Nat /\ FileOf(number) # NoArea
          /\ addr + q <= FileOf(number).size
          /\ s.space = number /\ s.addr = addr /\ s.qty = q
        BY <1>3, <1>4, <2>2 DEF StoreOK
    <3>2. words[i] = load /\ cells[i] = Promise!cellsOf(s)
        OBVIOUS
    <3> HIDE DEF s, addr, number, q, words, cells
    <3>3. load \in Seq(Word) /\ Len(load) = q
        BY ONLY <3>1, FileRead
    <3>4. Promise!Get(MemOf(store), Promise!cellsOf(s)) = load
        BY ONLY <3>1, FileRead
    <3>5. Promise!cellsOf(s) \in Seq(Cells)
        BY ONLY <3>1, FileRead
    <3> HIDE DEF load
    <3> QED
        BY <3>2, <3>3, <3>4, <3>5 DEF q, s
  <2>4. ASSUME NEW i \in 1..n
        PROVE  swapped[i] \in Seq(Word) /\ Len(swapped[i]) = r.parts[i].qty
               /\ Swapped(swapped[i]) = words[i]
    <3> DEFINE w == words[i]
    <3>1. swapped[i] = Swapped(w)
        OBVIOUS
    <3>2. w \in Seq(Word) /\ Len(w) = r.parts[i].qty
        BY <2>3
    <3> HIDE DEF words, swapped, w
    <3>3. Swapped(w) \in Seq(Word) /\ Len(Swapped(w)) = Len(w) /\ Swapped(Swapped(w)) = w
        BY <3>2, SwappedFacts
    <3> QED
        BY <3>1, <3>2, <3>3 DEF w
  <2>5. words \in Seq(Seq(Word)) /\ Len(words) = n
    <3>1. words \in [1..n -> Seq(Word)]
      <4>1. words = [i \in 1..n |-> words[i]]
          OBVIOUS
      <4> HIDE DEF words, n
      <4> QED
          BY <2>3, <4>1
    <3> HIDE DEF words, n
    <3> QED
        BY <1>2, <3>1, IsASeq
  <2>6. swapped \in Seq(Seq(Word)) /\ Len(swapped) = n
    <3>1. swapped \in [1..n -> Seq(Word)]
      <4>1. swapped = [i \in 1..n |-> swapped[i]]
          OBVIOUS
      <4> HIDE DEF swapped, n
      <4> QED
          BY <2>4, <4>1
    <3> HIDE DEF swapped, n
    <3> QED
        BY <1>2, <3>1, IsASeq
  <2>7. cells \in Seq(Seq(Cells)) /\ Len(cells) = n
    <3>1. cells \in [1..n -> Seq(Cells)]
      <4>1. cells = [i \in 1..n |-> cells[i]]
          OBVIOUS
      <4> HIDE DEF cells, n
      <4> QED
          BY <2>3, <4>1
    <3> HIDE DEF cells, n
    <3> QED
        BY <1>2, <3>1, IsASeq
  <2>8. \A i \in 1..n : cells[i] = Promise!cellsOf(r.parts[i])
      OBVIOUS
  <2> HIDE DEF words, swapped, cells, held
  <2>9. FlattenSeq(swapped) \in Seq(Word) /\ Swapped(FlattenSeq(swapped)) = FlattenSeq(words)
      BY <2>4, <2>5, <2>6, SwappedFlatten
  <2>10. Promise!Get(MemOf(store), FlattenSeq(cells)) = FlattenSeq(words)
      BY <2>3, <2>5, <2>7, GetFlatten
  <2>11. /\ Promise!FileCells(m) = FlattenSeq(cells)
         /\ Promise!Range(Promise!FileCells(m)) \subseteq Cells
      BY <2>7, <2>8, CellsOfParts DEF m
  <2>12. counter[n] = 2 * Len(data) + 2 * n
      BY <1>2, <2>4, <2>6, <2>19, FlattenSize DEF counter, PartEnds
  <2>13. data \in Seq(Word) /\ Len(data) \in Nat
      BY <2>9, <2>19
  <2>14. Effected(r, store)
      BY <1>2 DEF Promise!Effect, Effected, m
  <2>15. AnswersTruly(r, store, data)
    <3>1. HasRegs(r.fn)
        BY DEF HasRegs
    <3>2. Promise!Answer(MemOf(store), m) = FlattenSeq(words)
        BY <1>2, <2>10, <2>11 DEF Promise!Answer
    <3> QED
        BY <2>9, <2>19, <3>1, <3>2 DEF AnswersTruly, m
  <2>16. Promise!Possible(m)
    <3>1. Promise!ReadCells(m) = <<>> /\ Promise!Range(<<>>) = {} /\ DOMAIN Mem = Cells
        BY PossibleFacts DEF m
    <3> QED
        BY <1>2, <2>11, <3>1 DEF Promise!Possible
  <2>17. Fits(r, Response(r, size, count, data))
    <3> DEFINE x == Response(r, size, count, data)
               l == Len(data)
    <3>1. x.fn = 20 /\ x.size = size /\ x.count = count /\ Len(x.data) = l
        BY ResponseFields
    <3>2. l \in Nat /\ count = 2 * l + 2 * n /\ size = count + 1
        BY <2>12, <2>13, <2>18
    <3>4. size <= txSize
        BY <2>18
    <3> HIDE DEF x, size, count, l, n, data
    <3>5. Payload(r, x) = count
        BY <3>1, <3>2 DEF Payload, n
    <3>6. Fits(r, x)
        BY <3>1, <3>2, <3>4, <3>5 DEF Fits
    <3> QED
        BY <3>6 DEF x
  <2> QED
      BY <2>14, <2>15, <2>16, <2>17
<1> HIDE DEF code, data, size, count, held, m
<1>6. Outcome(r, Result(code, store, Response(r, size, count, data)))
    BY <1>5, OutcomeOfResult DEF m
<1> QED
    BY <1>1, <1>6

-----------------------------------------------------------------------------
\* Function 21 writes part by part.
LEMMA PutType ==
    ASSUME NEW m \in [Cells -> Word], NEW p \in PartFields
    PROVE  Promise!Put(m, Promise!cellsOf(p), p.vals) \in [Cells -> Word]
<1> DEFINE cells == Promise!cellsOf(p)
           vals == p.vals
<1>1. p.qty \in Nat /\ p.addr \in Nat /\ vals \in Seq(Word)
    BY DEF PartFields
<1>2. DOMAIN cells = 1..p.qty /\ \A i \in 1..p.qty : cells[i] = <<p.space, p.addr + i - 1>>
    BY DEF Promise!cellsOf
<1>3. ASSUME NEW i \in DOMAIN cells, NEW j \in DOMAIN cells, cells[i] = cells[j] PROVE i = j
  <2>1. p.addr + i - 1 = p.addr + j - 1
      BY <1>2, <1>3
  <2> QED
      BY <1>1, <1>2, <2>1
<1> HIDE DEF cells, vals
<1>4. ASSUME NEW x \in Cells, NEW i \in DOMAIN cells \cap DOMAIN vals, cells[i] = x
      PROVE  vals[CHOOSE j \in DOMAIN cells : cells[j] = x] \in Word
  <2> DEFINE j == CHOOSE j \in DOMAIN cells : cells[j] = x
  <2>1. j \in DOMAIN cells /\ cells[j] = x
      BY <1>4
  <2> HIDE DEF j
  <2>2. j = i
      BY <1>3, <1>4, <2>1
  <2>3. vals[i] \in Word
      BY <1>1
  <2> QED
      BY <2>2, <2>3 DEF j
<1>5. Promise!Put(m, cells, vals) \in [Cells -> Word]
    BY <1>4 DEF Promise!Put
<1> QED
    BY <1>5 DEF cells, vals

\* The cells after each part of a request was written.
LEMMA WrittenFacts ==
    ASSUME NEW m \in [Cells -> Word], NEW parts \in Seq(PartFields)
    PROVE  LET w == Promise!Written(m, parts)
           IN  /\ w[0] = m
               /\ \A i \in 1..Len(parts) :
                     w[i] = Promise!Put(w[i - 1], Promise!cellsOf(parts[i]), parts[i].vals)
<1> DEFINE n == Len(parts)
           S == [Cells -> Word]
           put(v, i) == Promise!Put(v, Promise!cellsOf(parts[i]), parts[i].vals)
           Body(f) == [i \in 0..n |-> IF i = 0 THEN m ELSE put(f[i - 1], i)]
           g == [x \in (1..n) \X S |-> put(x[2], x[1])]
           w == CHOOSE f : f = Body(f)
<1>1. n \in Nat /\ m \in S /\ \A i \in 1..n : parts[i] \in PartFields
    OBVIOUS
<1>2. ASSUME NEW v \in S, NEW i \in 1..n PROVE put(v, i) \in S
  <2> DEFINE p == parts[i]
  <2>1. p \in PartFields
      OBVIOUS
  <2> HIDE DEF p
  <2>2. Promise!Put(v, Promise!cellsOf(p), p.vals) \in [Cells -> Word]
      BY <2>1, PutType
  <2> QED
      BY <2>2 DEF p
<1> HIDE DEF put, n, S
<1>3. g \in Steps(n, S)
    BY <1>2 DEF Steps
<1>4. PICK f : Computes(f, n, S, m, g)
  <2> HIDE DEF g
  <2> QED
      BY <1>1, <1>3, Recursion, Zenon
<1>5. f \in [0..n -> S] /\ f[0] = m /\ \A i \in 1..n : f[i] = put(f[i - 1], i)
  <2>1. f \in [0..n -> S] /\ f[0] = m /\ \A i \in 1..n : f[i] = g[<<i, f[i - 1]>>]
      BY <1>4 DEF Computes
  <2>2. \A i \in 1..n : f[i - 1] \in S
      BY <1>1, <2>1
  <2> QED
      BY <2>1, <2>2
<1>6. f = Body(f)
  <2> SUFFICES ASSUME NEW i \in 0..n PROVE f[i] = IF i = 0 THEN m ELSE put(f[i - 1], i)
      BY <1>5
  <2>1. i = 0 \/ i \in 1..n
      BY <1>1
  <2> QED
      BY <1>5, <2>1
<1>7. w = Body(w)
  <2> HIDE DEF Body
  <2> QED
      BY <1>6
<1>8. w = Promise!Written(m, parts)
    BY DEF Promise!Written, put, n
<1> HIDE DEF w
<1>9. w[0] = m /\ \A i \in 1..n : w[i] = put(w[i - 1], i)
    BY <1>1, <1>7
<1> QED
    BY <1>8, <1>9 DEF put, n

\* What was done so far by function 21.
DoneType == [code : 0..4, store : [CellSet -> Word]]

\* One more part is written, or there is a fault.
LEMMA WritePartFacts ==
    ASSUME NEW r, IsRequest(r), NEW failing, NEW i \in 1..Len(r.parts), NEW d \in DoneType
    PROVE  LET e == WritePart(r, failing, d, i)
               p == r.parts[i]
           IN  /\ e \in DoneType
               /\ \/ e.code # 0 /\ e.store = d.store
                  \/ /\ d.code = 0 /\ e.code = 0
                     /\ Len(p.vals) = p.qty /\ Promise!cellsOf(p) \in Seq(Cells)
                     /\ StoreOK(d.store) =>
                          /\ StoreOK(e.store)
                          /\ MemOf(e.store) =
                               Promise!Put(MemOf(d.store), Promise!cellsOf(p), Swapped(p.vals))
<1> DEFINE e == WritePart(r, failing, d, i)
           p == r.parts[i]
           file == FileOf(p.space)
           vals == Swapped(p.vals)
           st == Store(d.store, file, p.addr, vals)
           codes == << Check("file" \in Kinds, SlaveFailure),
                       Check(file # NoArea /\ file.writes, IllegalAddress),
                       Check(p.qty <= Len(p.vals), IllegalValue),
                       Check(p.addr + p.qty <= file.size, IllegalAddress),
                       Check(i # failing, SlaveFailure) >>
           code == FirstFailing(codes)
<1>1. e = IF d.code # 0 \/ code # 0
          THEN [d EXCEPT !.code = IF d.code # 0 THEN d.code ELSE code]
          ELSE [d EXCEPT !.store = st]
    BY DEF WritePart
<1>2. p.space \in FileNumbers /\ p.addr \in Nat /\ p.qty \in Nat /\ p.vals \in Seq(Word)
      /\ Len(p.vals) <= p.qty
    BY MeantParts
<1>3. vals \in Seq(Word) /\ Len(vals) = Len(p.vals) /\ DOMAIN vals = 1..Len(vals)
  <2> DEFINE ws == p.vals
  <2>1. ws \in Seq(Word)
      BY <1>2
  <2> HIDE DEF ws
  <2>2. Swapped(ws) \in Seq(Word) /\ Len(Swapped(ws)) = Len(ws)
      BY <2>1, SwappedFacts
  <2> QED
      BY <2>2 DEF ws
<1>4. DOMAIN codes = 1..5
    OBVIOUS
<1>5. \A j \in 1..5 : codes[j] \in 0..4
  <2> HIDE DEF file, p
  <2> QED
      BY DEF Check, SlaveFailure, IllegalAddress, IllegalValue
<1>6. ASSUME \A j \in 1..5 : codes[j] = 0
      PROVE  file # NoArea /\ p.qty <= Len(p.vals) /\ p.addr + p.qty <= file.size
  <2> HIDE DEF file, p
  <2> QED
      BY <1>6 DEF Check, SlaveFailure, IllegalAddress, IllegalValue
<1> HIDE DEF codes
<1>7. code \in 0..4
    BY <1>4, <1>5, 5 \in Nat, FirstFailingFacts, SMTT(30)
<1>8. ASSUME code = 0
      PROVE  file # NoArea /\ p.qty <= Len(p.vals) /\ p.addr + p.qty <= file.size
  <2>1. \A j \in DOMAIN codes : codes[j] = 0
      BY <1>4, <1>8, 5 \in Nat, AllHold
  <2> QED
      BY <1>4, <1>6, <2>1
<1> HIDE DEF code, st, vals, e
<1>9. d.code \in 0..4 /\ d.store \in [CellSet -> Word]
    BY DEF DoneType
<1>10. CASE d.code # 0 \/ code # 0
  <2>1. e = [d EXCEPT !.code = IF d.code # 0 THEN d.code ELSE code]
      BY <1>1, <1>10
  <2>2. e.code = (IF d.code # 0 THEN d.code ELSE code) /\ e.store = d.store
      BY <2>1 DEF DoneType
  <2>3. e \in DoneType
      BY <1>7, <1>9, <2>1 DEF DoneType
  <2>4. e.code # 0 /\ e.store = d.store
      BY <1>10, <2>2
  <2> QED
      BY <2>3, <2>4 DEF e
<1>11. CASE d.code = 0 /\ code = 0
  <2>1. e = [d EXCEPT !.store = st]
      BY <1>1, <1>11
  <2>2. e.code = 0 /\ e.store = st
      BY <1>11, <2>1 DEF DoneType
  <2>3. st \in [CellSet -> Word]
    <3>1. ASSUME NEW j \in DOMAIN vals PROVE vals[j] \in Word
        BY <1>3
    <3> QED
        BY <1>9, <3>1 DEF st, Store
  <2>4. e \in DoneType
      BY <2>1, <2>3 DEF DoneType
  <2>5. file # NoArea /\ Len(p.vals) = p.qty /\ p.addr + p.qty <= file.size
    <3>1. Len(p.vals) \in Nat
        BY <1>2
    <3> HIDE DEF p
    <3> QED
        BY <1>2, <1>8, <1>11, <3>1
  <2>6. /\ Promise!cellsOf(p) \in Seq(Cells)
        /\ StoreOK(d.store) =>
             StoreOK(st) /\ MemOf(st) = Promise!Put(MemOf(d.store), Promise!cellsOf(p), vals)
    <3> DEFINE number == p.space
               addr == p.addr
               q == p.qty
               st0 == d.store
               st1 == Store(st0, FileOf(number), addr, vals)
    <3>1. /\ addr \in Nat /\ q \in Nat /\ FileOf(number) # NoArea /\ addr + q <= FileOf(number).size
          /\ p.space = number /\ p.addr = addr /\ p.qty = q
          /\ vals \in Seq(Word) /\ Len(vals) = q
        BY <1>2, <1>3, <2>5
    <3>2. st = st1
        BY DEF st
    <3>3. Words(st0)
        BY <1>9 DEF Words
    <3> HIDE DEF p, addr, number, q, st0
    <3>4. Promise!cellsOf(p) \in Seq(Cells)
        BY ONLY <3>1, <3>3, FileRead
    <3>5. StoreOK(st0) => StoreOK(st1)
        BY ONLY <3>1, FileWrite
    <3>6. StoreOK(st0) => MemOf(st1) = Promise!Put(MemOf(st0), Promise!cellsOf(p), vals)
        BY ONLY <3>1, FileWrite
    <3> QED
        BY <3>2, <3>4, <3>5, <3>6 DEF st0
  <2> HIDE DEF p
  <2>7. /\ d.code = 0 /\ e.code = 0 /\ Len(p.vals) = p.qty /\ Promise!cellsOf(p) \in Seq(Cells)
        /\ StoreOK(d.store) =>
             /\ StoreOK(e.store)
             /\ MemOf(e.store) = Promise!Put(MemOf(d.store), Promise!cellsOf(p), vals)
      BY <1>11, <2>2, <2>5, <2>6
  <2> QED
      BY <2>4, <2>7 DEF e, p, vals
<1> QED
    BY <1>10, <1>11

Progress(r, failing) ==
    CHOOSE f : f = [i \in 0..Len(r.parts) |-> IF i = 0 THEN [code |-> 0, store |-> store]
                                              ELSE WritePart(r, failing, f[i - 1], i)]

\* The state after each part is known.
LEMMA DoneFacts ==
    ASSUME store \in [CellSet -> Word], NEW r, IsRequest(r), NEW failing, NEW done,
           done = Progress(r, failing)
    PROVE  /\ done \in [0..Len(r.parts) -> DoneType]
           /\ done[0].code = 0 /\ done[0].store = store
           /\ \A i \in 1..Len(r.parts) : done[i] = WritePart(r, failing, done[i - 1], i)
<1> DEFINE n == Len(r.parts)
           S == DoneType
           d0 == [code |-> 0, store |-> store]
           step(d, i) == WritePart(r, failing, d, i)
           Body(f) == [i \in 0..n |-> IF i = 0 THEN d0 ELSE step(f[i - 1], i)]
           g == [x \in (1..n) \X S |-> step(x[2], x[1])]
<1>1. n \in Nat /\ d0 \in S /\ d0.code = 0 /\ d0.store = store
  <2>1. n \in Nat
      BY MeantParts
  <2> QED
      BY <2>1 DEF DoneType
<1>2. ASSUME NEW d \in S, NEW i \in 1..n PROVE step(d, i) \in S
    BY WritePartFacts
<1>3. done = CHOOSE f : f = Body(f)
    BY DEF Progress
<1> HIDE DEF step, n, S, d0
<1>4. g \in Steps(n, S)
    BY <1>2 DEF Steps
<1>5. PICK f : Computes(f, n, S, d0, g)
  <2> HIDE DEF g
  <2> QED
      BY <1>1, <1>4, Recursion, Zenon
<1>6. f \in [0..n -> S] /\ f[0] = d0 /\ \A i \in 1..n : f[i] = step(f[i - 1], i)
  <2>1. f \in [0..n -> S] /\ f[0] = d0 /\ \A i \in 1..n : f[i] = g[<<i, f[i - 1]>>]
      BY <1>5 DEF Computes
  <2>2. \A i \in 1..n : f[i - 1] \in S
      BY <1>1, <2>1
  <2> QED
      BY <2>1, <2>2
<1>7. f = Body(f)
  <2> SUFFICES ASSUME NEW i \in 0..n PROVE f[i] = IF i = 0 THEN d0 ELSE step(f[i - 1], i)
      BY <1>6
  <2>1. i = 0 \/ i \in 1..n
      BY <1>1
  <2> QED
      BY <1>6, <2>1
<1>8. done = Body(done)
  <2> HIDE DEF Body
  <2> QED
      BY <1>3, <1>7
<1>9. DOMAIN done = 0..n /\ done[0] = d0 /\ \A i \in 1..n : done[i] = step(done[i - 1], i)
    BY ONLY <1>1, <1>8
<1> DEFINE T == {i \in 0..n : done[i] \in S}
<1>10. 0 \in T
    BY <1>1, <1>9
<1>11. ASSUME NEW i \in 0..(n - 1), i \in T PROVE i + 1 \in T
  <2>1. i + 1 \in 1..n /\ i + 1 \in 0..n /\ (i + 1) - 1 = i
      BY <1>1
  <2>2. done[i + 1] = step(done[i], i + 1)
      BY <1>9, <2>1
  <2> QED
      BY <1>2, <1>11, <2>1, <2>2
<1>12. 0..n \subseteq T
  <2> HIDE DEF T
  <2> QED
      BY <1>1, <1>10, <1>11, Upwards
<1>13. done \in [0..n -> S]
    BY <1>8, <1>12
<1> QED
    BY <1>1, <1>9, <1>13 DEF n, S, d0, step

\* What the first i parts left is what was promised for as many as were written.
SoFar(r, done, i) ==
    LET w == Promise!Written(MemOf(store), Meant(r).parts)
    IN  /\ StoreOK(done[i].store)
        /\ \E k \in 0..i : MemOf(done[i].store) = w[k] /\ (done[i].code = 0 => k = i)
        /\ done[i].code = 0 => \A j \in 1..i : /\ Len(r.parts[j].vals) = r.parts[j].qty
                                               /\ Promise!cellsOf(r.parts[j]) \in Seq(Cells)
        /\ i <= 1 /\ done[i].code # 0 => done[i].store = store

\* After each part: all of them up to there were written, or up to the one at fault.
LEMMA DoneSoFar ==
    ASSUME StoreOK(store), NEW r, IsRequest(r), NEW failing, NEW done,
           done = Progress(r, failing), NEW i \in 0..Len(r.parts)
    PROVE  SoFar(r, done, i)
<1> DEFINE n == Len(r.parts)
           m == Meant(r)
           w == Promise!Written(MemOf(store), m.parts)
           Ready(j) == /\ Len(r.parts[j].vals) = r.parts[j].qty
                       /\ Promise!cellsOf(r.parts[j]) \in Seq(Cells)
           Goes(j) == /\ StoreOK(done[j].store)
                      /\ \E k \in 0..j : MemOf(done[j].store) = w[k] /\ (done[j].code = 0 => k = j)
                      /\ done[j].code = 0 => \A h \in 1..j : Ready(h)
                      /\ j <= 1 /\ done[j].code # 0 => done[j].store = store
           T == {j \in 0..n : Goes(j)}
<1>1. n \in Nat /\ m.parts \in Seq(PartFields) /\ Len(m.parts) = n
    BY MeantParts
<1>2. MemOf(store) \in [Cells -> Word]
  <2> SUFFICES ASSUME NEW x \in Cells PROVE store[CellAt[x]] \in Word
      BY DEF MemOf
  <2>1. PICK a \in AllAreas : \E o \in 0..(a.size - 1) : x = <<a.kind, a.start + o>>
      BY CellAtFacts
  <2>2. PICK o \in 0..(a.size - 1) : x = <<a.kind, a.start + o>>
      BY <2>1
  <2>3. CellAt[x] = <<a, o>> /\ <<a, o>> \in CellSet
      BY <2>2, CellAtFacts, CellFacts
  <2> QED
      BY <2>3 DEF StoreOK, Words
<1>3. /\ w[0] = MemOf(store)
      /\ \A j \in 1..n : w[j] = Promise!Put(w[j - 1], Promise!cellsOf(m.parts[j]), m.parts[j].vals)
  <2> DEFINE mem == MemOf(store)
             parts == m.parts
  <2>1. mem \in [Cells -> Word] /\ parts \in Seq(PartFields) /\ Len(parts) = n
      BY <1>1, <1>2
  <2> HIDE DEF mem, parts
  <2>2. LET v == Promise!Written(mem, parts)
        IN  /\ v[0] = mem
            /\ \A j \in 1..Len(parts) :
                  v[j] = Promise!Put(v[j - 1], Promise!cellsOf(parts[j]), parts[j].vals)
      BY <2>1, WrittenFacts
  <2> HIDE DEF n
  <2> QED
      BY <2>1, <2>2 DEF mem, parts
<1>4. /\ done \in [0..n -> DoneType] /\ done[0].code = 0 /\ done[0].store = store
      /\ \A j \in 1..n : done[j] = WritePart(r, failing, done[j - 1], j)
  <2>1. store \in [CellSet -> Word]
      BY DEF StoreOK, Words
  <2> QED
      BY <2>1, DoneFacts
<1>5. ASSUME NEW j \in 1..n
      PROVE  /\ Promise!cellsOf(m.parts[j]) = Promise!cellsOf(r.parts[j])
             /\ m.parts[j].vals = Swapped(r.parts[j].vals)
  <2>1. /\ m.parts[j].space = r.parts[j].space /\ m.parts[j].addr = r.parts[j].addr
        /\ m.parts[j].qty = r.parts[j].qty /\ m.parts[j].vals = Swapped(r.parts[j].vals)
      BY MeantParts
  <2> HIDE DEF m
  <2> QED
      BY <2>1 DEF Promise!cellsOf
<1> HIDE DEF w, m, Ready
<1>6. 0 \in T
  <2>1. 0 \in 0..n /\ 0 \in 0..0 /\ \A h \in 1..0 : FALSE
      BY <1>1
  <2>2. Goes(0)
      BY ONLY StoreOK(store), <1>3, <1>4, <2>1
  <2> HIDE DEF Goes
  <2> QED
      BY <2>1, <2>2
<1>7. ASSUME NEW j \in 0..(n - 1), j \in T PROVE j + 1 \in T
  <2> DEFINE d == done[j]
             e == done[j + 1]
             p == r.parts[j + 1]
  <2>1. j + 1 \in 1..n /\ j + 1 \in 0..n /\ j \in 0..n /\ (j + 1) - 1 = j
      BY <1>1
  <2>2. d \in DoneType /\ e = WritePart(r, failing, d, j + 1)
      BY <1>4, <2>1
  <2>3. Goes(j)
      BY <1>7
  <2>4. /\ StoreOK(d.store)
        /\ \E k \in 0..j : MemOf(d.store) = w[k] /\ (d.code = 0 => k = j)
        /\ d.code = 0 => \A h \in 1..j : Ready(h)
        /\ j <= 1 /\ d.code # 0 => d.store = store
      BY <2>3
  <2>5. \/ e.code # 0 /\ e.store = d.store
        \/ /\ d.code = 0 /\ e.code = 0
           /\ Len(p.vals) = p.qty /\ Promise!cellsOf(p) \in Seq(Cells)
           /\ StoreOK(d.store) =>
                /\ StoreOK(e.store)
                /\ MemOf(e.store) = Promise!Put(MemOf(d.store), Promise!cellsOf(p), Swapped(p.vals))
      BY <2>1, <2>2, WritePartFacts
  <2>6. w[j + 1] = Promise!Put(w[j], Promise!cellsOf(p), Swapped(p.vals))
      BY <1>3, <1>5, <2>1
  <2>7. j = 0 => d.store = store
      BY <1>4
  <2> HIDE DEF d, e, T
  <2>8. /\ StoreOK(e.store)
        /\ \E k \in 0..(j + 1) : MemOf(e.store) = w[k] /\ (e.code = 0 => k = j + 1)
        /\ e.code = 0 => \A h \in 1..(j + 1) : Ready(h)
        /\ j + 1 <= 1 /\ e.code # 0 => e.store = store
    <3>1. CASE e.code # 0 /\ e.store = d.store
      <4>1. PICK k \in 0..j : MemOf(d.store) = w[k]
          BY <2>4
      <4>2. k \in 0..(j + 1) /\ (j + 1 <= 1 => j = 0)
          BY <2>1
      <4> HIDE DEF Goes
      <4> QED
          BY <2>4, <2>7, <3>1, <4>1, <4>2
    <3>2. CASE /\ d.code = 0 /\ e.code = 0
               /\ Len(p.vals) = p.qty /\ Promise!cellsOf(p) \in Seq(Cells)
               /\ StoreOK(e.store)
               /\ MemOf(e.store) = Promise!Put(MemOf(d.store), Promise!cellsOf(p), Swapped(p.vals))
      <4>1. MemOf(d.store) = w[j]
          BY <2>4, <3>2
      <4>2. MemOf(e.store) = w[j + 1]
          BY <2>6, <3>2, <4>1
      <4>3. j + 1 \in 0..(j + 1)
          BY <2>1
      <4>4. Ready(j + 1)
          BY <3>2 DEF Ready
      <4>5. ASSUME NEW h \in 1..(j + 1) PROVE Ready(h)
        <5>1. h \in 1..j \/ h = j + 1
            BY <2>1
        <5> QED
            BY <2>4, <3>2, <4>4, <5>1
      <4> HIDE DEF Goes, p
      <4> QED
          BY <3>2, <4>2, <4>3, <4>5
    <3> QED
        BY <2>4, <2>5, <3>1, <3>2
  <2>9. Goes(j + 1)
      BY <2>8 DEF e
  <2> HIDE DEF Goes
  <2> QED
      BY <2>1, <2>9 DEF T
<1>8. i \in T
  <2> HIDE DEF T
  <2>1. 0..n \subseteq T
      BY <1>1, <1>6, <1>7, Upwards
  <2> QED
      BY <2>1
<1>9. Goes(i)
    BY <1>8
<1> QED
    BY <1>9 DEF SoFar, Ready, w, m

\* Function 21: some parts are written, and the code says whether all of them are.
LEMMA WriteFileOutcome ==
    ASSUME StoreOK(store), txSize \in Nat, NEW r, IsRequest(r), r.fn = 21, NEW failing
    PROVE  Outcome(r, WriteFile(r, failing))
<1> DEFINE n == Len(r.parts)
           byteCount == Sum(r.parts, LAMBDA p : 7 + 2 * p.qty)
           size == 1 + Sum(r.parts, LAMBDA p : 7 + 2 * Len(p.vals))
           codes == << Check(9 < byteCount /\ byteCount < 251, IllegalValue),
                       Check(txSize >= size, SlaveFailure) >>
           code == FirstFailing(codes)
           done == Progress(r, failing)
           last == done[n].code
           st == done[n].store
           seqs == [i \in 1..n |-> r.parts[i].vals]
           swapped == [i \in 1..n |-> Swapped(r.parts[i].vals)]
           cells == [i \in 1..n |-> Promise!cellsOf(r.parts[i])]
           data == FlattenSeq(seqs)
           m == Meant(r)
           w == Promise!Written(MemOf(store), m.parts)
<1>1. WriteFile(r, failing) = IF code # 0 THEN Result(code, store, NoResponse)
                              ELSE ResultAnyway(last, st, Response(r, size, -1, data))
    BY DEF WriteFile, Progress
<1>2. m.fn = r.fn /\ n \in Nat /\ Len(m.parts) = n /\ HasRegs(r.fn)
  <2>1. HasRegs(r.fn)
      BY DEF HasRegs
  <2> QED
      BY <2>1, MeantFacts, MeantParts
<1> HIDE DEF size, byteCount
<1>3. DOMAIN codes = 1..2
    OBVIOUS
<1>4. ASSUME \A i \in 1..2 : codes[i] = 0
      PROVE  txSize >= size
  <2>1. codes[2] = 0
      BY <1>4
  <2> QED
      BY <2>1 DEF Check, SlaveFailure
<1>5. CASE code # 0
  <2> HIDE DEF code, st, data, last
  <2>1. Outcome(r, Result(code, store, NoResponse))
      BY <1>5, OutcomeOfRefusal
  <2> QED
      BY <1>1, <1>5, <2>1
<1>6. CASE code = 0
  <2>1. size <= txSize
    <3> HIDE DEF codes
    <3>1. \A i \in DOMAIN codes : codes[i] = 0
        BY <1>3, <1>6, 2 \in Nat, AllHold
    <3>2. txSize >= size
        BY <1>3, <1>4, <3>1
    <3> QED
        BY <3>2
  <2>2. /\ StoreOK(st)
        /\ \E k \in 0..n : MemOf(st) = w[k] /\ (last = 0 => k = n)
        /\ last = 0 => \A j \in 1..n : /\ Len(r.parts[j].vals) = r.parts[j].qty
                                       /\ Promise!cellsOf(r.parts[j]) \in Seq(Cells)
        /\ n <= 1 /\ last # 0 => st = store
    <3>1. n \in 0..n
        BY <1>2
    <3>2. done = Progress(r, failing)
        OBVIOUS
    <3> HIDE DEF done
    <3>3. SoFar(r, done, n)
        BY <3>1, <3>2, DoneSoFar
    <3> QED
        BY <3>3 DEF SoFar
  <2>3. ASSUME NEW i \in 1..n
        PROVE  /\ r.parts[i].vals \in Seq(Word)
               /\ Swapped(r.parts[i].vals) \in Seq(Word)
               /\ m.parts[i].vals = Swapped(r.parts[i].vals)
    <3> DEFINE vals == r.parts[i].vals
    <3>1. vals \in Seq(Word) /\ m.parts[i].vals = Swapped(vals)
        BY MeantParts
    <3> HIDE DEF vals
    <3>2. Swapped(vals) \in Seq(Word)
        BY <3>1, SwappedFacts
    <3> QED
        BY <3>1, <3>2 DEF vals
  <2>4. DOMAIN m.parts = 1..n
      BY MeantParts
  <2> HIDE DEF m, codes, code, w, st, last
  <2>5. Promise!Effect(MemOf(store), m) = w[n]
      BY <1>2 DEF Promise!Effect, w
  <2>6. seqs \in Seq(Seq(Word)) /\ Len(seqs) = n
    <3>1. seqs \in [1..n -> Seq(Word)]
        BY <2>3
    <3> HIDE DEF seqs, n
    <3> QED
        BY <1>2, <3>1, IsASeq
  <2>7. swapped \in Seq(Seq(Word)) /\ Len(swapped) = n
    <3>1. swapped \in [1..n -> Seq(Word)]
        BY <2>3
    <3> HIDE DEF swapped, n
    <3> QED
        BY <1>2, <3>1, IsASeq
  <2>8. data \in Seq(Word) /\ Swapped(data) = FlattenSeq(swapped)
    <3>1. \A i \in 1..Len(seqs) : swapped[i] = Swapped(seqs[i])
      <4>1. \A i \in 1..n : swapped[i] = Swapped(seqs[i])
          OBVIOUS
      <4> QED
          BY <2>6, <4>1
    <3> HIDE DEF seqs, swapped, n
    <3>2. FlattenSeq(seqs) \in Seq(Word) /\ Swapped(FlattenSeq(seqs)) = FlattenSeq(swapped)
        BY <2>6, <2>7, <3>1, SwappedFlatten
    <3> QED
        BY <3>2
  <2>9. Promise!Answer(MemOf(st), m) = FlattenSeq(swapped)
    <3> DEFINE meant == [i \in DOMAIN m.parts |-> m.parts[i].vals]
    <3>1. meant = swapped
        BY <2>3, <2>4
    <3>2. Promise!Answer(MemOf(st), m) = Promise!FlattenSeq(meant)
        BY <1>2 DEF Promise!Answer
    <3> HIDE DEF meant, swapped
    <3>3. Promise!FlattenSeq(swapped) = FlattenSeq(swapped)
        BY DEF Promise!FlattenSeq, FlattenSeq
    <3> QED
        BY <3>1, <3>2, <3>3
  <2> HIDE DEF data, swapped, seqs
  <2>10. ASSUME last = 0
         PROVE  /\ Promise!Possible(m) /\ Effected(r, st) /\ AnswersTruly(r, st, data)
                /\ Fits(r, Response(r, size, -1, data))
    <3>1. MemOf(st) = w[n]
        BY <2>2, <2>10
    <3>2. Effected(r, st)
        BY <2>2, <2>5, <3>1 DEF Effected, m
    <3>3. AnswersTruly(r, st, data)
        BY <1>2, <2>8, <2>9 DEF AnswersTruly, m
    <3>4. cells \in Seq(Seq(Cells)) /\ Len(cells) = n
          /\ \A i \in 1..n : cells[i] = Promise!cellsOf(r.parts[i])
      <4>1. cells \in [1..n -> Seq(Cells)]
          BY <2>2, <2>10
      <4>2. \A i \in 1..n : cells[i] = Promise!cellsOf(r.parts[i])
          OBVIOUS
      <4> HIDE DEF cells, n
      <4> QED
          BY <1>2, <4>1, <4>2, IsASeq
    <3>5. Promise!Range(Promise!FileCells(m)) \subseteq Cells
      <4> HIDE DEF cells
      <4> QED
          BY <3>4, CellsOfParts DEF m
    <3>6. \A i \in DOMAIN m.parts : Len(m.parts[i].vals) = m.parts[i].qty
      <4> SUFFICES ASSUME NEW i \in 1..n PROVE Len(m.parts[i].vals) = m.parts[i].qty
          BY <2>4
      <4> DEFINE vals == r.parts[i].vals
      <4>1. vals \in Seq(Word) /\ m.parts[i].vals = Swapped(vals) /\ m.parts[i].qty = r.parts[i].qty
          BY MeantParts DEF m
      <4>2. Len(vals) = r.parts[i].qty
          BY <2>2, <2>10
      <4> HIDE DEF vals
      <4>3. Len(Swapped(vals)) = Len(vals)
          BY <4>1, SwappedFacts
      <4> QED
          BY <4>1, <4>2, <4>3
    <3>7. Promise!ReadCells(m) = <<>> /\ Promise!Range(<<>>) = {} /\ DOMAIN Mem = Cells
        BY PossibleFacts DEF m
    <3>8. Promise!Possible(m)
        BY <1>2, <3>5, <3>6, <3>7 DEF Promise!Possible
    <3>9. Fits(r, Response(r, size, -1, data))
        BY <2>1, FitsShort
    <3> QED
        BY <3>2, <3>3, <3>8, <3>9
  <2>11. ASSUME last # 0
         PROVE  st = store \/ Torn(r, st)
    <3>1. CASE n <= 1
        BY <2>2, <2>11, <3>1
    <3>2. CASE n > 1
        BY <2>2, <3>2 DEF Torn, MayTear, w, m
    <3> QED
        BY <1>2, <3>1, <3>2
  <2>12. StoreOK(st)
      BY <2>2
  <2>13. Outcome(r, ResultAnyway(last, st, Response(r, size, -1, data)))
      BY <2>10, <2>11, <2>12, OutcomeAnyway DEF m
  <2> QED
      BY <1>1, <1>6, <2>13
<1> QED
    BY <1>5, <1>6

-----------------------------------------------------------------------------
\* The server.
Kept(r) ==
    \/ Promise!Receive(Meant(r))
    \/ MayTear(r) /\ Promise!Tear(Meant(r))

\* What is known of the response that is sent.
Sound(r, response) ==
    /\ DOMAIN response = DOMAIN NoResponse
    /\ response.data \in Seq(Word)
    /\ Fits(r, response)

\* What a request needs to be served.
Ground == /\ StoreOK(store) /\ txSize \in TxSizes /\ functions \in Tables
          /\ behind \in {"intact", "overwritten"}

\* An exception has room in tx_pdu.
LEMMA TxFacts ==
    ASSUME Ground PROVE txSize \in Nat /\ txSize >= 1 /\ txSize <= 253
<1>1. txSize \in 1..253
    BY TxSizesAssumption DEF Ground, TxSizesAssumption
<1> QED
    BY <1>1

\* Each response that is sent fits: none, ...
LEMMA NoResponseSound == ASSUME Ground, NEW r PROVE Sound(r, NoResponse)
<1>1. NoResponse.size = 0 /\ NoResponse.count = -1 /\ NoResponse.data = <<>>
    BY DEF NoResponse
<1>2. Fits(r, NoResponse)
    BY <1>1, TxFacts DEF Fits
<1> QED
    BY <1>1, <1>2 DEF Sound

\* ... an exception, ...
LEMMA ExceptionSound ==
    ASSUME Ground, NEW r, NEW code PROVE Sound(r, ExceptionPdu(r, code))
<1> DEFINE x == ExceptionPdu(r, code)
<1>1. /\ x.size = 1 /\ x.count = -1 /\ x.data = <<>>
      /\ DOMAIN x = DOMAIN NoResponse
    BY DEF NoResponse, ExceptionPdu
<1> HIDE DEF x
<1>2. Fits(r, x)
    BY <1>1, TxFacts DEF Fits
<1>3. Sound(r, x)
    BY <1>1, <1>2 DEF Sound
<1> QED
    BY <1>3 DEF x

\* ... and one to a request that was carried out.
LEMMA CarriedSound ==
    ASSUME NEW r, NEW x, Carried(r, x) PROVE Sound(r, x.response)
<1>1. PICK size, count, data :
         x.response = Response(r, size, count, data) /\ AnswersTruly(r, x.store, data)
    BY DEF Carried
<1> DEFINE y == Response(r, size, count, data)
<1>2. y.data = data /\ DOMAIN y = DOMAIN NoResponse
    BY DEF Response, NoResponse
<1>3. data \in Seq(Word)
    BY <1>1 DEF AnswersTruly
<1>4. Fits(r, y)
    BY <1>1 DEF Carried
<1> HIDE DEF y
<1>5. Sound(r, y)
    BY <1>2, <1>3, <1>4 DEF Sound
<1> QED
    BY <1>1, <1>5 DEF y

\* The reply as the master sees it.
LEMMA ReplyFacts ==
    /\ sent' = NoResponse => Reply' = Promise!Nothing
    /\ \A r, code : code # 0 /\ IsRequest(r) /\ sent' = ExceptionPdu(r, code)
                      => Reply' = Promise!Exception(Meant(r))
<1>1. sent' = NoResponse => Reply' = Promise!Nothing
    BY DEF Reply, Promise!Nothing
<1>2. ASSUME NEW r, NEW code, code # 0, IsRequest(r), sent' = ExceptionPdu(r, code)
      PROVE  Reply' = Promise!Exception(Meant(r))
  <2>1. sent'.code = code /\ sent'.fn = r.fn /\ NoResponse.code = 0
      BY <1>2 DEF ExceptionPdu, NoResponse
  <2>2. Meant(r).fn = r.fn
      BY <1>2, MeantFacts
  <2> QED
      BY <1>2, <2>1, <2>2 DEF Reply, Promise!Exception
<1> QED
    BY <1>1, <1>2

\* A response says what the registers hold.
LEMMA ReplyDone ==
    ASSUME NEW r, IsRequest(r), NEW x, Carried(r, x), sent' = x.response
    PROVE  Reply' = Promise!Done(MemOf(x.store), Meant(r))
<1>1. PICK size, count, data :
         x.response = Response(r, size, count, data) /\ AnswersTruly(r, x.store, data)
    BY DEF Carried
<1>2. sent'.code = 0 /\ sent'.fn = r.fn /\ sent'.data = data /\ NoResponse.fn = 0 /\ r.fn # 0
    BY <1>1, ResponseFields DEF NoResponse, Carried
<1>3. sent' # NoResponse
    BY <1>2
<1>4. Meant(r).fn = r.fn
    BY MeantFacts
<1>5. (IF HasRegs(r.fn) THEN Swapped(data) ELSE data) = Promise!Answer(MemOf(x.store), Meant(r))
    BY <1>1 DEF AnswersTruly
<1>6. Reply' = [kind |-> "done", fn |-> r.fn,
                data |-> IF HasRegs(r.fn) THEN Swapped(data) ELSE data]
    BY <1>2, <1>3 DEF Reply
<1> QED
    BY <1>4, <1>5, <1>6 DEF Promise!Done

\* A refused request changes nothing.
LEMMA RefuseStep ==
    ASSUME Ground, NEW r, IsRequest(r), NEW code, code # 0,
           sent' = IF r.to \in Slaves \ Broadcast THEN ExceptionPdu(r, code) ELSE NoResponse,
           asked' = r, UNCHANGED <<store, txSize, functions>>,
           behind' \in {"intact", "overwritten"}
    PROVE  Ground' /\ Sound(r, sent') /\ Kept(r)
<1>3. Sound(r, sent')
    BY NoResponseSound, ExceptionSound
<1>4. Ground'
    BY DEF Ground, StoreOK, Words
<1>5. Promise!AnswerWith(Meant(r), Promise!Exception(Meant(r)))
  <2>1. Meant(r).to = r.to
      BY MeantFacts
  <2> QED
      BY <2>1, ReplyFacts DEF Promise!AnswerWith
<1>6. Mem' = Mem
    BY DEF Mem
<1> QED
    BY <1>3, <1>4, <1>5, <1>6 DEF Kept, Promise!Receive, Promise!Refuse

\* A handler's outcome makes a step of the promise.
LEMMA ServeStep ==
    ASSUME Ground, NEW r, IsRequest(r), NEW x, Outcome(r, x), NEW spills, Serve(r, x, spills)
    PROVE  Ground' /\ Sound(r, sent') /\ Kept(r)
<1>1. behind' \in {"intact", "overwritten"}
  <2>1. behind' = "overwritten" \/ behind' = behind
      BY Zenon DEF Serve
  <2> QED
      BY <2>1 DEF Ground
<1>2. /\ r.to \in Slaves /\ store' = x.store /\ asked' = r /\ UNCHANGED <<txSize, functions>>
      /\ sent' = IF r.to \in Broadcast THEN NoResponse
                 ELSE IF x.code = 0 THEN x.response ELSE ExceptionPdu(r, x.code)
    BY DEF Serve
<1>3. Meant(r).to = r.to
    BY MeantFacts
<1>4. Mem = MemOf(store) /\ Mem' = MemOf(x.store)
    BY <1>2 DEF Mem, MemOf
<1>5. Ground'
    BY <1>1, <1>2 DEF Outcome, Ground
<1>6. CASE x.code = 0
  <2>1. Carried(r, x)
      BY <1>6 DEF Outcome
  <2>2. Sound(r, sent')
      BY <1>2, <1>6, <2>1, NoResponseSound, CarriedSound
  <2>4. /\ Promise!Possible(Meant(r))
        /\ MemOf(x.store) = Promise!Effect(Mem, Meant(r))
      BY <1>4, <2>1 DEF Carried, Effected
  <2>5. Promise!AnswerWith(Meant(r), Promise!Done(MemOf(x.store), Meant(r)))
    <3>1. CASE r.to \in Broadcast
        BY <1>2, <1>3, <3>1, ReplyFacts DEF Promise!AnswerWith
    <3>2. CASE r.to \notin Broadcast
      <4>1. sent' = x.response
          BY <1>2, <1>6, <3>2
      <4> QED
          BY <1>2, <1>3, <2>1, <3>2, <4>1, ReplyDone DEF Promise!AnswerWith
    <3> QED
        BY <3>1, <3>2
  <2>6. Promise!CarryOut(Meant(r))
      BY <1>2, <1>3, <1>4, <2>4, <2>5 DEF Promise!CarryOut
  <2> QED
      BY <1>5, <2>2, <2>6 DEF Kept, Promise!Receive
<1>7. CASE x.code # 0
  <2>1. sent' = IF r.to \in Slaves \ Broadcast THEN ExceptionPdu(r, x.code) ELSE NoResponse
      BY <1>2, <1>7
  <2>2. CASE x.store = store
    <3> DEFINE code == x.code
    <3>1. /\ sent' = IF r.to \in Slaves \ Broadcast THEN ExceptionPdu(r, code) ELSE NoResponse
          /\ code # 0 /\ UNCHANGED <<store, txSize, functions>>
        BY <1>2, <1>7, <2>1, <2>2
    <3> HIDE DEF code
    <3> QED
        BY <1>1, <1>2, <3>1, RefuseStep
  <2>3. CASE Torn(r, x.store)
    <3>1. Sound(r, sent')
        BY <2>1, NoResponseSound, ExceptionSound
    <3>3. Promise!AnswerWith(Meant(r), Promise!Exception(Meant(r)))
        BY <1>3, <1>7, <2>1, ReplyFacts DEF Promise!AnswerWith
    <3>4. \/ Mem' = Promise!Effect(Mem, Meant(r))
          \/ \E k \in 0..Len(Meant(r).parts) : Mem' = Promise!Written(Mem, Meant(r).parts)[k]
      <4>1. Len(Meant(r).parts) = Len(r.parts)
          BY MeantParts
      <4> QED
          BY <1>4, <2>3, <4>1 DEF Torn
    <3>5. MayTear(r)
        BY <2>3 DEF Torn
    <3> QED
        BY <1>5, <3>1, <3>3, <3>4, <3>5 DEF Kept, Promise!Tear
  <2> QED
      BY <1>7, <2>2, <2>3 DEF Outcome
<1> QED
    BY <1>6, <1>7

\* What every request comes to.
Typed(response) == DOMAIN response = DOMAIN NoResponse /\ response.data \in Seq(Word)
Overrun(r) == behind' = "overwritten" /\ AnswerBytes(r) > txSize
AsPromised(r) ==
    /\ Ground' /\ Typed(sent') /\ asked' = r /\ UNCHANGED txSize
    /\ \/ behind' = behind /\ Sound(r, sent') /\ Kept(r)
       \/ Overrun(r)

\* A handler that does not spill does what is promised.
LEMMA ServedAsPromised ==
    ASSUME Ground, NEW r, IsRequest(r), NEW x, Outcome(r, x), Serve(r, x, FALSE)
    PROVE  AsPromised(r)
<1>1. Ground' /\ Sound(r, sent') /\ Kept(r)
    BY ServeStep
<1>2. asked' = r /\ UNCHANGED txSize /\ behind' = behind
    BY Zenon DEF Serve
<1> QED
    BY <1>1, <1>2 DEF AsPromised, Sound, Typed

\* So does a request that nobody serves.
LEMMA RefusedAsPromised ==
    ASSUME Ground, NEW r, IsRequest(r), NEW code, code # 0,
           sent' = IF r.to \in Slaves \ Broadcast THEN ExceptionPdu(r, code) ELSE NoResponse,
           asked' = r, UNCHANGED <<store, txSize, functions, behind>>
    PROVE  AsPromised(r)
<1>1. behind' \in {"intact", "overwritten"}
    BY DEF Ground
<1>2. Ground' /\ Sound(r, sent') /\ Kept(r)
    BY <1>1, RefuseStep
<1> QED
    BY <1>2 DEF AsPromised, Sound, Typed

\* Function 20 may spill, ...
LEMMA FileAsPromised ==
    ASSUME Ground, NEW r, IsRequest(r), NEW rd, r.fn = 20,
           Serve(r, ReadFile(r, rd), FileSpills(r, rd))
    PROVE  AsPromised(r)
<1> DEFINE x == ReadFile(r, rd)
<1>1. StoreOK(store) /\ txSize \in Nat /\ txSize <= 253
    BY TxFacts DEF Ground
<1>2. CASE ~FileSpills(r, rd)
  <2>1. Outcome(r, x)
      BY <1>1, <1>2, ReadFileOutcome
  <2>2. Serve(r, x, FALSE)
      BY <1>2, Zenon DEF Serve
  <2> QED
      BY <2>1, <2>2, ServedAsPromised
<1>3. CASE FileSpills(r, rd)
  <2>1. x.store = store /\ (x.code = 0 => Typed(x.response))
      BY <1>1, ReadFileTyped DEF Typed
  <2>2. behind' = "overwritten"
      BY <1>3, Zenon DEF Serve
  <2>3. /\ store' = x.store /\ asked' = r /\ UNCHANGED <<txSize, functions>>
        /\ sent' = IF r.to \in Broadcast THEN NoResponse
                   ELSE IF x.code = 0 THEN x.response ELSE ExceptionPdu(r, x.code)
      BY DEF Serve
  <2> HIDE DEF x
  <2>4. Typed(NoResponse) /\ Typed(ExceptionPdu(r, x.code))
      BY NoResponseSound, ExceptionSound DEF Typed, Sound
  <2>5. Typed(sent')
      BY <2>1, <2>3, <2>4
  <2>6. Ground'
      BY <2>1, <2>2, <2>3 DEF Ground, StoreOK, Words
  <2>7. AnswerBytes(r) > txSize
      BY <1>1, <1>3, RequestFacts, SpillsAreLong
  <2> QED
      BY <2>2, <2>3, <2>5, <2>6, <2>7 DEF AsPromised, Overrun
<1> QED
    BY <1>2, <1>3

\* ... and function 24.
LEMMA FifoAsPromised ==
    ASSUME Ground, NEW r, IsRequest(r), NEW rd, r.fn = 24,
           Serve(r, ReadFifo(r, rd), FifoSpills(r, rd))
    PROVE  AsPromised(r)
<1> DEFINE x == ReadFifo(r, rd)
<1>1. StoreOK(store) /\ txSize \in Nat
    BY TxFacts DEF Ground
<1>2. Outcome(r, x)
    BY <1>1, ReadFifoOutcome
<1>3. CASE ~FifoSpills(r, rd)
  <2>1. Serve(r, x, FALSE)
      BY <1>3, Zenon DEF Serve
  <2> QED
      BY <1>2, <2>1, ServedAsPromised
<1>4. CASE FifoSpills(r, rd)
  <2>1. Ground' /\ Sound(r, sent')
      BY <1>2, ServeStep
  <2>2. behind' = "overwritten"
      BY <1>4, Zenon DEF Serve
  <2>3. asked' = r /\ UNCHANGED txSize
      BY DEF Serve
  <2>4. AnswerBytes(r) > txSize
    <3>1. AnswerBytes(r) = 4 + 2 * FifoCount(r)
        BY DEF AnswerBytes
    <3> QED
        BY <1>4, <3>1 DEF FifoSpills
  <2> QED
      BY <2>1, <2>2, <2>3, <2>4 DEF AsPromised, Overrun, Sound, Typed
<1> QED
    BY <1>3, <1>4

\* Whatever the request and whatever the server makes of it.
LEMMA ReceiveStep ==
    ASSUME Ground, NEW r, IsRequest(r), Receive(r)
    PROVE  AsPromised(r)
<1>1. StoreOK(store) /\ txSize \in Nat
    BY TxFacts DEF Ground
<1>2. ASSUME NEW x, Outcome(r, x), Serve(r, x, FALSE) PROVE AsPromised(r)
    BY <1>2, ServedAsPromised
<1>3. CASE NotMine(r)
    BY <1>3, 1 # 0, RefusedAsPromised DEF NotMine
<1>4. CASE ServeUnknownFunction(r)
    BY <1>4, IllegalFunction # 0, RefusedAsPromised DEF ServeUnknownFunction, IllegalFunction
<1>5. ASSUME NEW rd \in AppResult, r.fn \in {1, 2}, Serve(r, ReadBits(r, rd), FALSE)
      PROVE  AsPromised(r)
    BY <1>1, <1>2, <1>5, ReadBitsOutcome
<1>6. ASSUME NEW rd \in AppResult, r.fn \in {3, 4}, Serve(r, ReadRegs(r, rd), FALSE)
      PROVE  AsPromised(r)
    BY <1>1, <1>2, <1>6, ReadRegsOutcome
<1>7. ASSUME NEW rd \in AppResult, r.fn = 20, Serve(r, ReadFile(r, rd), FileSpills(r, rd))
      PROVE  AsPromised(r)
    BY <1>7, FileAsPromised
<1>8. ASSUME NEW rd \in AppResult, r.fn = 24, Serve(r, ReadFifo(r, rd), FifoSpills(r, rd))
      PROVE  AsPromised(r)
    BY <1>8, FifoAsPromised
<1>9. ASSUME NEW wr \in AppResult, r.fn = 5, Serve(r, WriteCoil(r, wr), FALSE)
      PROVE  AsPromised(r)
    BY <1>1, <1>2, <1>9, WriteCoilOutcome
<1>10. ASSUME NEW wr \in AppResult, r.fn = 6, Serve(r, WriteReg(r, wr), FALSE)
       PROVE  AsPromised(r)
    BY <1>1, <1>2, <1>10, WriteRegOutcome
<1>11. ASSUME NEW wr \in AppResult, r.fn = 15, Serve(r, WriteCoils(r, wr), FALSE)
       PROVE  AsPromised(r)
    BY <1>1, <1>2, <1>11, WriteCoilsOutcome
<1>12. ASSUME NEW wr \in AppResult, r.fn = 16, Serve(r, WriteRegs(r, wr), FALSE)
       PROVE  AsPromised(r)
    BY <1>1, <1>2, <1>12, WriteRegsOutcome
<1>13. ASSUME NEW rd \in AppResult, NEW wr \in AppResult, r.fn = 22, Serve(r, MaskReg(r, rd, wr), FALSE)
       PROVE  AsPromised(r)
    BY <1>1, <1>2, <1>13, MaskRegOutcome
<1>14. ASSUME NEW rd \in AppResult, NEW wr \in AppResult, r.fn = 23,
              Serve(r, ReadWriteRegs(r, rd, wr), FALSE)
       PROVE  AsPromised(r)
    BY <1>1, <1>2, <1>14, ReadWriteRegsOutcome
<1>15. ASSUME NEW failing \in 0..Len(r.parts), r.fn = 21, Serve(r, WriteFile(r, failing), FALSE)
       PROVE  AsPromised(r)
    BY <1>1, <1>2, <1>15, WriteFileOutcome
<1> QED
    BY <1>3, <1>4, <1>5, <1>6, <1>7, <1>8, <1>9, <1>10, <1>11, <1>12, <1>13, <1>14, <1>15
    DEF Receive

\* The invariant holds at first ...
LEMMA InitInv == Init => Inv
<1> SUFFICES ASSUME Init PROVE Inv
    OBVIOUS
<1>1. TypeOK
  <2>1. \A c \in CellSet : store[c] \in Word /\ (IsBit(c) => store[c] = {})
      BY DEF Init, Word
  <2> QED
      BY <2>1 DEF Init, TypeOK, NoResponse
<1>2. Ground
    BY <1>1 DEF TypeOK, Ground, StoreOK, Words
<1>3. ResponseFits
    BY <1>2, NoResponseSound DEF Init, ResponseFits, Sound
<1> QED
    BY <1>1, <1>3 DEF Inv

\* A request that is among those masters make.
LEMMA RequestStep ==
    ASSUME Inv, NEW r \in Requests, Receive(r)
    PROVE  /\ Inv' /\ asked' = r
           /\ Kept(r) \/ (behind = "intact" /\ Overrun(r)) \/ behind = "overwritten"
<1>1. IsRequest(r) /\ Ground
    BY RequestsAssumption DEF RequestsAssumption, Inv, TypeOK, Ground, StoreOK, Words
<1>2. /\ Ground' /\ Typed(sent') /\ asked' = r /\ txSize' = txSize
      /\ (behind' = behind /\ Sound(r, sent') /\ Kept(r)) \/ Overrun(r)
    BY <1>1, ReceiveStep DEF AsPromised
<1>3. TypeOK'
    BY <1>2 DEF Ground, TypeOK, StoreOK, Words, Typed
<1>4. ASSUME behind' = "intact" PROVE ResponseFits'
    BY <1>2, <1>4 DEF ResponseFits, Sound, Fits, Overrun
<1>5. behind = "intact" \/ behind = "overwritten"
    BY <1>1 DEF Ground
<1> QED
    BY <1>2, <1>3, <1>4, <1>5 DEF Inv

\* ... and after every step.
LEMMA NextInv == Inv /\ [Next]_vars => Inv'
<1> SUFFICES ASSUME Inv, [Next]_vars PROVE Inv'
    OBVIOUS
<1>1. CASE Next
    BY <1>1, RequestStep DEF Next
<1>2. CASE UNCHANGED vars
    BY <1>2 DEF vars, Inv, TypeOK, ResponseFits, Fits
<1> QED
    BY <1>1, <1>2

\* Types, and sizes that agree: a response has room in tx_pdu and its byte count
\* counts what it carries, for every set of areas, files and requests, as long as
\* the handler of function 20 or 24 has not written behind tx_pdu.
THEOREM InvCorrect == Spec => []Inv
<1> QED
    BY InitInv, NextInv, PTL DEF Spec

\* Every request is carried out as a whole and answered truly, or refused with
\* nothing changed, but for those the code may refuse after it wrote, up to the
\* first that makes a handler write behind tx_pdu, and that is one whose answer
\* does not fit.
THEOREM PromiseKept == Spec => WholeOrNothing
<1>1. Inv /\ [Next]_vars => [\/ Kept(asked')
                             \/ behind = "intact" /\ Overrun(asked')
                             \/ behind = "overwritten"]_vars
    BY RequestStep DEF Next
<1>2. [\/ Kept(asked')
       \/ behind = "intact" /\ Overrun(asked')
       \/ behind = "overwritten"]_vars
      => [\/ Promise!Receive(Meant(asked'))
          \/ MayTear(asked') /\ Promise!Tear(Meant(asked'))
          \/ behind = "intact" /\ behind' = "overwritten" /\ AnswerBytes(asked') > txSize
          \/ behind = "overwritten"]_vars
    BY DEF Kept, Overrun
<1> QED
    BY <1>1, <1>2, InvCorrect, PTL DEF Spec, WholeOrNothing

-----------------------------------------------------------------------------
-----------------------------------------------------------------------------
\* Session: what its calls ask for, and what becomes of it.
\*
\* A request in a PDU is one that the server takes, and means what was given.
LEMMA SwapsAgree == \A ws : SwapWords(ws) = Swapped(ws)
BY DEF SwapWords, SwapWord, Swapped, Swap

\* The parts of a request with their words swapped.
Turned(parts) == [i \in DOMAIN parts |-> [parts[i] EXCEPT !.vals = Swapped(parts[i].vals)]]

\* Swapping the words of the parts changes nothing else, and twice undoes it.
LEMMA TurnedFacts ==
    ASSUME NEW parts \in Seq(PartFields)
    PROVE  /\ Turned(parts) \in Seq(PartFields) /\ Len(Turned(parts)) = Len(parts)
           /\ DOMAIN Turned(parts) = DOMAIN parts
           /\ \A i \in DOMAIN parts :
                 /\ Turned(parts)[i].space = parts[i].space /\ Turned(parts)[i].addr = parts[i].addr
                 /\ Turned(parts)[i].qty = parts[i].qty
                 /\ Len(Turned(parts)[i].vals) = Len(parts[i].vals)
           /\ Turned(Turned(parts)) = parts
<1> DEFINE n == Len(parts)
           t == Turned(parts)
<1>1. n \in Nat /\ DOMAIN parts = 1..n /\ \A i \in 1..n : parts[i] \in PartFields
    OBVIOUS
<1>2. ASSUME NEW p \in PartFields
      PROVE  LET q == [p EXCEPT !.vals = Swapped(p.vals)]
             IN  /\ q \in PartFields /\ q.space = p.space /\ q.addr = p.addr /\ q.qty = p.qty
                 /\ Len(q.vals) = Len(p.vals)
                 /\ [q EXCEPT !.vals = Swapped(q.vals)] = p
  <2> DEFINE ws == p.vals
             vs == Swapped(ws)
  <2>1. ws \in Seq(Word)
      BY DEF PartFields
  <2> HIDE DEF ws
  <2>2. vs \in Seq(Word) /\ Len(vs) = Len(ws) /\ Swapped(vs) = ws
      BY <2>1, SwappedFacts
  <2> HIDE DEF vs
  <2>3. LET q == [p EXCEPT !.vals = vs]
        IN  /\ q \in PartFields /\ q.space = p.space /\ q.addr = p.addr /\ q.qty = p.qty
            /\ q.vals = vs
            /\ [q EXCEPT !.vals = p.vals] = p
      BY <2>2 DEF PartFields
  <2> QED
      BY <2>2, <2>3 DEF ws, vs
<1>3. t = [i \in 1..n |-> [parts[i] EXCEPT !.vals = Swapped(parts[i].vals)]]
    BY <1>1 DEF Turned
<1> HIDE DEF t
<1>4. t \in [1..n -> PartFields]
    BY <1>1, <1>2, <1>3
<1>5. t \in Seq(PartFields) /\ Len(t) = n /\ DOMAIN t = 1..n
  <2> HIDE DEF n
  <2> QED
      BY <1>1, <1>4, IsASeq
<1>6. ASSUME NEW i \in 1..n
      PROVE  /\ t[i].space = parts[i].space /\ t[i].addr = parts[i].addr
             /\ t[i].qty = parts[i].qty /\ Len(t[i].vals) = Len(parts[i].vals)
             /\ [t[i] EXCEPT !.vals = Swapped(t[i].vals)] = parts[i]
  <2> DEFINE p == parts[i]
             q == [p EXCEPT !.vals = Swapped(p.vals)]
  <2>1. p \in PartFields
      BY <1>1
  <2>2. t[i] = q
      BY <1>3
  <2> HIDE DEF p
  <2>3. /\ q.space = p.space /\ q.addr = p.addr /\ q.qty = p.qty
        /\ Len(q.vals) = Len(p.vals) /\ [q EXCEPT !.vals = Swapped(q.vals)] = p
      BY <1>2, <2>1
  <2> QED
      BY <2>2, <2>3 DEF p
<1>7. Turned(t) = parts
  <2>1. Turned(t) = [i \in 1..n |-> [t[i] EXCEPT !.vals = Swapped(t[i].vals)]]
      BY <1>5 DEF Turned
  <2>2. parts = [i \in 1..n |-> parts[i]]
      BY <1>1
  <2> QED
      BY <1>6, <2>1, <2>2
<1> QED
    BY <1>1, <1>5, <1>6, <1>7 DEF t

\* Other values and parts make another request, the rest of it the same.
LEMMA RequestIs ==
    ASSUME NEW r \in RequestFields, NEW vals \in Seq(Word), NEW parts \in Seq(PartFields)
    PROVE  LET p == [r EXCEPT !.vals = vals, !.parts = parts]
           IN  /\ p \in RequestFields /\ p.vals = vals /\ p.parts = parts
               /\ p.to = r.to /\ p.fn = r.fn /\ p.addr = r.addr /\ p.qty = r.qty
               /\ p.raddr = r.raddr /\ p.rqty = r.rqty /\ p.bytes = r.bytes
               /\ [p EXCEPT !.vals = r.vals, !.parts = r.parts] = r
BY DEF RequestFields

\* What is different in the PDU.
Alike(p, g) ==
    /\ p.to = g.to /\ p.fn = g.fn /\ p.addr = g.addr /\ p.qty = g.qty
    /\ p.raddr = g.raddr /\ p.rqty = g.rqty /\ p.bytes = g.bytes
    /\ p.parts \in Seq(PartFields) /\ Len(p.parts) = Len(g.parts)
    /\ \A i \in 1..Len(g.parts) : /\ p.parts[i].qty = g.parts[i].qty
                                  /\ Len(p.parts[i].vals) = Len(g.parts[i].vals)

\* The server takes what is put in a PDU, and it means what was given.
LEMMA InPduFacts ==
    ASSUME NEW g, IsGiven(g)
    PROVE  /\ IsRequest(InPdu(g)) /\ Meant(InPdu(g)) = g /\ Alike(InPdu(g), g)
           /\ g.fn = 5 => Swap(InPdu(g).vals[1]) \in {{}, {1}}
<1>1. /\ IsRequest(g) /\ g \in RequestFields /\ g.vals \in Seq(Word) /\ g.parts \in Seq(PartFields)
      /\ g.qty \in Nat
  <2>1. IsRequest(g)
      BY DEF IsGiven
  <2>2. g \in RequestFields
      BY <2>1, Zenon DEF IsRequest
  <2>3. g.qty \in Nat /\ g.vals \in Seq(Word) /\ g.parts \in Seq(PartFields)
      BY <2>1, RequestFacts
  <2> QED
      BY <2>1, <2>2, <2>3
<1> DEFINE on == [i \in DOMAIN g.vals |-> IF g.vals[i] = {} THEN {} ELSE {1}]
           vals == IF g.fn = 5 THEN Swapped(on) ELSE IF g.fn = 15 THEN g.vals ELSE Swapped(g.vals)
           parts == IF g.fn \in {5, 15} THEN g.parts ELSE Turned(g.parts)
           p == [g EXCEPT !.vals = vals, !.parts = parts]
<1>2. InPdu(g) = p
  <2>1. SwapWords(on) = Swapped(on) /\ SwapWords(g.vals) = Swapped(g.vals)
      BY SwapsAgree, Zenon
  <2>2. [i \in DOMAIN g.parts |-> [g.parts[i] EXCEPT !.vals = SwapWords(g.parts[i].vals)]]
            = Turned(g.parts)
      BY SwapsAgree DEF Turned
  <2>3. CASE g.fn = 5
    <3>1. InPdu(g) = [g EXCEPT !.vals = Swapped(on)]
        BY <2>1, <2>3 DEF InPdu
    <3> HIDE DEF on
    <3>2. [g EXCEPT !.vals = Swapped(on), !.parts = g.parts] = [g EXCEPT !.vals = Swapped(on)]
        BY <1>1 DEF RequestFields
    <3> QED
        BY <2>3, <3>1, <3>2
  <2>4. CASE g.fn = 15
    <3>1. InPdu(g) = g
        BY <2>4 DEF InPdu
    <3>2. [g EXCEPT !.vals = g.vals, !.parts = g.parts] = g
        BY <1>1 DEF RequestFields
    <3> QED
        BY <2>4, <3>1, <3>2
  <2>5. CASE g.fn \notin {5, 15}
    <3>1. InPdu(g) = [g EXCEPT !.vals = SwapWords(g.vals),
                               !.parts = [i \in DOMAIN g.parts |->
                                    [g.parts[i] EXCEPT !.vals = SwapWords(g.parts[i].vals)]]]
        BY <2>5, Zenon DEF InPdu
    <3> QED
        BY <2>1, <2>2, <2>5, <3>1
  <2> QED
      BY <2>3, <2>4, <2>5
<1>3. g.fn = 5 => /\ on \in Seq(Word) /\ Len(on) = 1 /\ Swapped(Swapped(on)) = on
                  /\ Swapped(on) = g.vals /\ Swap(Swapped(on)[1]) \in {{}, {1}}
  <2> SUFFICES ASSUME g.fn = 5
               PROVE  /\ on \in Seq(Word) /\ Len(on) = 1 /\ Swapped(Swapped(on)) = on
                      /\ Swapped(on) = g.vals /\ Swap(Swapped(on)[1]) \in {{}, {1}}
      OBVIOUS
  <2>1. Len(g.vals) = 1 /\ DOMAIN g.vals = 1..1 /\ g.vals[1] \in {{}, {0}}
      BY <1>1 DEF IsGiven, IsRequest
  <2>2. \A i \in 1..1 : i = 1
      OBVIOUS
  <2>3. on \in [1..1 -> Word]
      BY <2>1 DEF Word
  <2>4. on \in Seq(Word) /\ Len(on) = 1
    <3> DEFINE n == 1
    <3>1. n \in Nat /\ on \in [1..n -> Word]
        BY <2>3
    <3> HIDE DEF n, on
    <3>2. on \in Seq(Word) /\ Len(on) = n
        BY <3>1, IsASeq
    <3> QED
        BY <3>2 DEF n
  <2>5. on[1] = IF g.vals[1] = {} THEN {} ELSE {1}
      BY <2>1
  <2> HIDE DEF on
  <2>6. /\ Swapped(on) \in Seq(Word) /\ Len(Swapped(on)) = 1 /\ Swapped(on)[1] = Swap(on[1])
        /\ Swapped(Swapped(on)) = on
      BY <2>4, SwappedFacts
  <2>7. Swap({}) = {} /\ Swap({1}) = {0} /\ Swap({0}) = {1}
      BY DEF Swap
  <2>8. Swapped(on)[1] = g.vals[1]
      BY <2>1, <2>5, <2>6, <2>7
  <2>9. Swapped(on) = g.vals
      BY <1>1, <2>1, <2>2, <2>6, <2>8
  <2> QED
      BY <2>1, <2>4, <2>6, <2>7, <2>8, <2>9
<1>4. Swapped(g.vals) \in Seq(Word) /\ Len(Swapped(g.vals)) = Len(g.vals)
      /\ Swapped(Swapped(g.vals)) = g.vals
  <2> DEFINE ws == g.vals
  <2>1. ws \in Seq(Word)
      BY <1>1
  <2> HIDE DEF ws
  <2> QED
      BY <2>1, SwappedFacts DEF ws
<1>5. vals \in Seq(Word) /\ Len(vals) = Len(g.vals)
    BY <1>1, <1>3, <1>4
<1>6. (IF HasRegs(g.fn) THEN Swapped(vals) ELSE vals) = g.vals
  <2>1. g.fn \in {1, 2} => Swapped(g.vals) = g.vals
    <3>1. g.fn \in {1, 2} => g.vals = <<>>
        BY DEF IsGiven, Reading
    <3>2. Swapped(<<>>) = <<>>
        BY DEF Swapped
    <3> QED
        BY <3>1, <3>2
  <2>2. HasRegs(g.fn) <=> g.fn \notin {1, 2, 5, 15}
      BY DEF HasRegs
  <2> HIDE DEF on
  <2> QED
      BY <1>3, <1>4, <2>1, <2>2
<1>7. /\ parts \in Seq(PartFields) /\ Len(parts) = Len(g.parts) /\ Turned(parts) = g.parts
      /\ DOMAIN parts = 1..Len(g.parts) /\ DOMAIN g.parts = 1..Len(g.parts)
      /\ \A i \in 1..Len(g.parts) : /\ parts[i].qty = g.parts[i].qty
                                    /\ Len(parts[i].vals) = Len(g.parts[i].vals)
  <2> DEFINE ps == g.parts
  <2>1. ps \in Seq(PartFields) /\ DOMAIN ps = 1..Len(ps)
      BY <1>1
  <2>2. g.fn \in {5, 15} => ps = <<>>
      BY <1>1 DEF IsRequest
  <2> HIDE DEF ps
  <2>3. Turned(<<>>) = <<>>
      BY DEF Turned
  <2>4. /\ Turned(ps) \in Seq(PartFields) /\ Len(Turned(ps)) = Len(ps) /\ Turned(Turned(ps)) = ps
        /\ DOMAIN Turned(ps) = DOMAIN ps
        /\ \A i \in DOMAIN ps : /\ Turned(ps)[i].qty = ps[i].qty
                                /\ Len(Turned(ps)[i].vals) = Len(ps[i].vals)
      BY <2>1, TurnedFacts
  <2>5. parts = ps \/ parts = Turned(ps)
      BY DEF ps
  <2>6. parts = ps => Turned(parts) = ps \/ g.fn \notin {5, 15}
      BY <2>2, <2>3
  <2>7. g.fn \notin {5, 15} => parts = Turned(ps)
      BY DEF ps
  <2> HIDE DEF parts
  <2> QED
      BY <2>1, <2>4, <2>5, <2>6, <2>7 DEF ps
<1> HIDE DEF vals, parts, on
<1>8. /\ p \in RequestFields /\ p.vals = vals /\ p.parts = parts
      /\ p.to = g.to /\ p.fn = g.fn /\ p.addr = g.addr /\ p.qty = g.qty
      /\ p.raddr = g.raddr /\ p.rqty = g.rqty /\ p.bytes = g.bytes
      /\ [p EXCEPT !.vals = g.vals, !.parts = g.parts] = g
    BY <1>1, <1>5, <1>7, RequestIs
<1> HIDE DEF p
<1>9. IsRequest(p)
  <2>1. \A i \in DOMAIN p.parts : Len(p.parts[i].vals) <= p.parts[i].qty
    <3>1. \A i \in 1..Len(g.parts) : Len(g.parts[i].vals) <= g.parts[i].qty
        BY <1>1, <1>7 DEF IsRequest
    <3> QED
        BY <1>7, <1>8, <3>1
  <2>2. p.fn = 15 => \A i \in DOMAIN p.vals : p.vals[i] \in {{}, {0}}
    <3>1. p.fn = 15 => p.vals = g.vals
        BY <1>8 DEF vals
    <3> QED
        BY <1>1, <1>8, <3>1 DEF IsRequest
  <2>3. p.fn \notin {20, 21} => p.parts = <<>>
    <3>1. p.fn \notin {20, 21} => g.parts = <<>>
        BY <1>1, <1>8 DEF IsRequest
    <3>2. Turned(<<>>) = <<>>
        BY DEF Turned
    <3> QED
        BY <1>8, <3>1, <3>2 DEF parts
  <2>4. /\ p.fn \in {5, 6} => Len(p.vals) = 1 /\ p.qty = 1
        /\ p.fn = 22 => Len(p.vals) = 2 /\ p.qty = 1
        /\ p.fn \in {15, 16, 23} => Len(p.vals) = p.qty
        /\ p.fn # 23 => p.rqty = 0
      BY <1>1, <1>5, <1>8 DEF IsRequest
  <2> QED
      BY <1>8, <2>1, <2>2, <2>3, <2>4 DEF IsRequest
<1>10. Meant(p) = g
  <2>1. Meant(p) = [p EXCEPT !.vals = IF HasRegs(p.fn) THEN Swapped(p.vals) ELSE p.vals,
                             !.parts = Turned(p.parts)]
      BY DEF Meant, Turned
  <2> QED
      BY <1>6, <1>7, <1>8, <2>1
<1>11. Alike(p, g)
    BY <1>7, <1>8 DEF Alike
<1>12. g.fn = 5 => Swap(p.vals[1]) \in {{}, {1}}
    BY <1>3, <1>8 DEF vals
<1> QED
    BY <1>2, <1>9, <1>10, <1>11, <1>12

-----------------------------------------------------------------------------
\* Session: the sums its requests are measured by.
WrittenBytes(r) == Sum(r.parts, LAMBDA p : 7 + 2 * Len(p.vals))

\* c[i] is the sum of the first i sizes.
AddsUp(c, sizes, n) ==
    DOMAIN c = 0..n /\ c[0] = 0 /\ \A i \in 1..n : c[i] = c[i - 1] + sizes[i]

\* There is one such sum, and it is a number.
LEMMA AddsUpFacts ==
    ASSUME NEW n \in Nat, NEW sizes \in [1..n -> Nat], NEW c, AddsUp(c, sizes, n)
    PROVE  c[n] \in Nat /\ \A d : AddsUp(d, sizes, n) => d[n] = c[n]
<1>1. /\ DOMAIN c = 0..n /\ c[0] = 0 /\ \A i \in 1..n : c[i] = c[i - 1] + sizes[i]
    BY DEF AddsUp
<1> DEFINE T == {i \in 0..n : c[i] \in Nat}
<1>2. c[n] \in Nat
  <2>1. 0 \in T
      BY <1>1
  <2>2. ASSUME NEW i \in 0..(n - 1), i \in T PROVE i + 1 \in T
    <3>1. i + 1 \in 0..n /\ i + 1 \in 1..n /\ (i + 1) - 1 = i
        OBVIOUS
    <3>2. c[i + 1] = c[i] + sizes[i + 1] /\ c[i] \in Nat /\ sizes[i + 1] \in Nat
        BY <1>1, <2>2, <3>1
    <3> QED
        BY <3>1, <3>2
  <2> HIDE DEF T
  <2>3. 0..n \subseteq T
      BY <2>1, <2>2, Upwards
  <2> QED
      BY <2>3 DEF T
<1>3. ASSUME NEW d, AddsUp(d, sizes, n) PROVE d[n] = c[n]
  <2>1. d[0] = 0 /\ \A i \in 1..n : d[i] = d[i - 1] + sizes[i]
      BY <1>3 DEF AddsUp
  <2> DEFINE Same == {i \in 0..n : d[i] = c[i]}
  <2>2. 0 \in Same
      BY <1>1, <2>1
  <2>3. ASSUME NEW i \in 0..(n - 1), i \in Same PROVE i + 1 \in Same
    <3>1. i + 1 \in 0..n /\ i + 1 \in 1..n /\ (i + 1) - 1 = i
        OBVIOUS
    <3> QED
        BY <1>1, <2>1, <2>3, <3>1
  <2> HIDE DEF Same
  <2>4. 0..n \subseteq Same
      BY <2>2, <2>3, Upwards
  <2> QED
      BY <2>4 DEF Same
<1> QED
    BY <1>2, <1>3

\* The parts of a request, by what they say their lengths are and by what they carry.
PartSizes(parts) == [i \in 1..Len(parts) |-> 7 + 2 * parts[i].qty]
\* The sums of the parts of a request: what it takes to write them, ...
LEMMA FileBytesFacts ==
    ASSUME NEW r, r.parts \in Seq(PartFields)
    PROVE  /\ PartSizes(r.parts) \in [1..Len(r.parts) -> Nat]
           /\ \E c : AddsUp(c, PartSizes(r.parts), Len(r.parts)) /\ FileBytes(r) = c[Len(r.parts)]
<1> DEFINE parts == r.parts
           n == Len(parts)
           sizes == PartSizes(parts)
           Body(f) == [i \in 0..n |-> IF i = 0 THEN 0 ELSE f[i - 1] + (7 + 2 * parts[i].qty)]
           c == CHOOSE f : f = Body(f)
<1>1. n \in Nat /\ \A i \in 1..n : 7 + 2 * parts[i].qty \in Nat
  <2> SUFFICES ASSUME NEW i \in 1..n PROVE 7 + 2 * parts[i].qty \in Nat
      OBVIOUS
  <2> DEFINE p == parts[i]
  <2>1. p \in PartFields
      OBVIOUS
  <2> HIDE DEF p
  <2>2. 7 + 2 * p.qty \in Nat
      BY <2>1, SMTT(30) DEF PartFields
  <2> QED
      BY <2>2 DEF p
<1>2. sizes \in [1..n -> Nat] /\ \A i \in 1..n : sizes[i] = 7 + 2 * parts[i].qty
    BY <1>1 DEF PartSizes
<1>3. PICK f \in [0..n -> Nat] : f = [i \in 0..n |-> IF i = 0 THEN 0 ELSE f[i - 1] + sizes[i]]
  <2> HIDE DEF sizes, n
  <2> QED
      BY <1>1, <1>2, SumFacts
<1>4. f = Body(f)
  <2> SUFFICES ASSUME NEW i \in 0..n
               PROVE f[i] = IF i = 0 THEN 0 ELSE f[i - 1] + (7 + 2 * parts[i].qty)
      BY <1>3
  <2>1. i = 0 \/ i \in 1..n
      BY <1>1
  <2> HIDE DEF sizes, n
  <2> QED
      BY <1>2, <1>3, <2>1
<1>5. c = Body(c)
  <2> HIDE DEF Body
  <2> QED
      BY <1>4
<1>6. c[n] = FileBytes(r)
    BY DEF FileBytes, Sum, SumUpTo
<1> HIDE DEF c, n, sizes
<1>7. DOMAIN c = 0..n /\ c[0] = 0 /\ \A i \in 1..n : c[i] = c[i - 1] + sizes[i]
  <2>1. DOMAIN c = 0..n
      BY <1>5
  <2>2. c[0] = 0
      BY <1>1, <1>5
  <2>3. ASSUME NEW i \in 1..n PROVE c[i] = c[i - 1] + (7 + 2 * parts[i].qty)
    <3>1. i \in 0..n /\ i # 0
        BY <1>1
    <3> QED
        BY <1>5, <3>1
  <2> QED
      BY <1>2, <2>1, <2>2, <2>3
<1>8. AddsUp(c, sizes, n)
    BY <1>7 DEF AddsUp
<1>9. \E d : AddsUp(d, sizes, n) /\ FileBytes(r) = d[n]
    BY <1>6, <1>8
<1> QED
    BY <1>2, <1>9 DEF sizes, n

CarriedSizes(parts) == [i \in 1..Len(parts) |-> 7 + 2 * Len(parts[i].vals)]
\* ... what of them is in the PDU, ...
LEMMA WrittenBytesFacts ==
    ASSUME NEW r, r.parts \in Seq(PartFields)
    PROVE  /\ CarriedSizes(r.parts) \in [1..Len(r.parts) -> Nat]
           /\ \E c : /\ AddsUp(c, CarriedSizes(r.parts), Len(r.parts))
                     /\ WrittenBytes(r) = c[Len(r.parts)]
<1> DEFINE parts == r.parts
           n == Len(parts)
           sizes == CarriedSizes(parts)
           Body(f) == [i \in 0..n |-> IF i = 0 THEN 0 ELSE f[i - 1] + (7 + 2 * Len(parts[i].vals))]
           c == CHOOSE f : f = Body(f)
<1>1. n \in Nat /\ \A i \in 1..n : 7 + 2 * Len(parts[i].vals) \in Nat
  <2> SUFFICES ASSUME NEW i \in 1..n PROVE 7 + 2 * Len(parts[i].vals) \in Nat
      OBVIOUS
  <2> DEFINE p == parts[i]
  <2>1. p \in PartFields
      OBVIOUS
  <2> HIDE DEF p
  <2>2. 7 + 2 * Len(p.vals) \in Nat
      BY <2>1 DEF PartFields
  <2> QED
      BY <2>2 DEF p
<1>2. sizes \in [1..n -> Nat] /\ \A i \in 1..n : sizes[i] = 7 + 2 * Len(parts[i].vals)
    BY <1>1 DEF CarriedSizes
<1>3. PICK f \in [0..n -> Nat] : f = [i \in 0..n |-> IF i = 0 THEN 0 ELSE f[i - 1] + sizes[i]]
  <2> HIDE DEF sizes, n
  <2> QED
      BY <1>1, <1>2, SumFacts
<1>4. f = Body(f)
  <2> SUFFICES ASSUME NEW i \in 0..n
               PROVE f[i] = IF i = 0 THEN 0 ELSE f[i - 1] + (7 + 2 * Len(parts[i].vals))
      BY <1>3
  <2>1. i = 0 \/ i \in 1..n
      BY <1>1
  <2> HIDE DEF sizes, n
  <2> QED
      BY <1>2, <1>3, <2>1
<1>5. c = Body(c)
  <2> HIDE DEF Body
  <2> QED
      BY <1>4
<1>6. c[n] = WrittenBytes(r)
    BY DEF WrittenBytes, Sum, SumUpTo
<1> HIDE DEF c, n, sizes
<1>7. DOMAIN c = 0..n /\ c[0] = 0 /\ \A i \in 1..n : c[i] = c[i - 1] + sizes[i]
  <2>1. DOMAIN c = 0..n
      BY <1>5
  <2>2. c[0] = 0
      BY <1>1, <1>5
  <2>3. ASSUME NEW i \in 1..n PROVE c[i] = c[i - 1] + (7 + 2 * Len(parts[i].vals))
    <3>1. i \in 0..n /\ i # 0
        BY <1>1
    <3> QED
        BY <1>5, <3>1
  <2> QED
      BY <1>2, <2>1, <2>2, <2>3
<1>8. AddsUp(c, sizes, n)
    BY <1>7 DEF AddsUp
<1>9. \E d : AddsUp(d, sizes, n) /\ WrittenBytes(r) = d[n]
    BY <1>6, <1>8
<1> QED
    BY <1>2, <1>9 DEF sizes, n

AnswerSizes(parts) == [i \in 1..Len(parts) |-> 2 + 2 * parts[i].qty]
\* ... and what it takes to read them.
LEMMA ReadBytesFacts ==
    ASSUME NEW r, r.parts \in Seq(PartFields)
    PROVE  /\ AnswerSizes(r.parts) \in [1..Len(r.parts) -> Nat]
           /\ \E c : AddsUp(c, AnswerSizes(r.parts), Len(r.parts)) /\ ReadBytes(r) = c[Len(r.parts)]
<1> DEFINE parts == r.parts
           n == Len(parts)
           sizes == AnswerSizes(parts)
           Body(f) == [i \in 0..n |-> IF i = 0 THEN 0 ELSE f[i - 1] + (2 + 2 * parts[i].qty)]
           c == CHOOSE f : f = Body(f)
<1>1. n \in Nat /\ \A i \in 1..n : 2 + 2 * parts[i].qty \in Nat
  <2> SUFFICES ASSUME NEW i \in 1..n PROVE 2 + 2 * parts[i].qty \in Nat
      OBVIOUS
  <2> DEFINE p == parts[i]
  <2>1. p \in PartFields
      OBVIOUS
  <2> HIDE DEF p
  <2>2. 2 + 2 * p.qty \in Nat
      BY <2>1, SMTT(30) DEF PartFields
  <2> QED
      BY <2>2 DEF p
<1>2. sizes \in [1..n -> Nat] /\ \A i \in 1..n : sizes[i] = 2 + 2 * parts[i].qty
    BY <1>1 DEF AnswerSizes
<1>3. PICK f \in [0..n -> Nat] : f = [i \in 0..n |-> IF i = 0 THEN 0 ELSE f[i - 1] + sizes[i]]
  <2> HIDE DEF sizes, n
  <2> QED
      BY <1>1, <1>2, SumFacts
<1>4. f = Body(f)
  <2> SUFFICES ASSUME NEW i \in 0..n
               PROVE f[i] = IF i = 0 THEN 0 ELSE f[i - 1] + (2 + 2 * parts[i].qty)
      BY <1>3
  <2>1. i = 0 \/ i \in 1..n
      BY <1>1
  <2> HIDE DEF sizes, n
  <2> QED
      BY <1>2, <1>3, <2>1
<1>5. c = Body(c)
  <2> HIDE DEF Body
  <2> QED
      BY <1>4
<1>6. c[n] = ReadBytes(r)
    BY DEF ReadBytes, Sum, SumUpTo
<1> HIDE DEF c, n, sizes
<1>7. DOMAIN c = 0..n /\ c[0] = 0 /\ \A i \in 1..n : c[i] = c[i - 1] + sizes[i]
  <2>1. DOMAIN c = 0..n
      BY <1>5
  <2>2. c[0] = 0
      BY <1>1, <1>5
  <2>3. ASSUME NEW i \in 1..n PROVE c[i] = c[i - 1] + (2 + 2 * parts[i].qty)
    <3>1. i \in 0..n /\ i # 0
        BY <1>1
    <3> QED
        BY <1>5, <3>1
  <2> QED
      BY <1>2, <2>1, <2>2, <2>3
<1>8. AddsUp(c, sizes, n)
    BY <1>7 DEF AddsUp
<1>9. \E d : AddsUp(d, sizes, n) /\ ReadBytes(r) = d[n]
    BY <1>6, <1>8
<1> QED
    BY <1>2, <1>9 DEF sizes, n

\* All of them are numbers.
LEMMA SumsAreNats ==
    ASSUME NEW r, r.parts \in Seq(PartFields)
    PROVE  FileBytes(r) \in Nat /\ WrittenBytes(r) \in Nat /\ ReadBytes(r) \in Nat
<1> DEFINE n == Len(r.parts)
           a == PartSizes(r.parts)
           b == CarriedSizes(r.parts)
           d == AnswerSizes(r.parts)
<1>1. n \in Nat
    OBVIOUS
<1>2. /\ a \in [1..n -> Nat] /\ b \in [1..n -> Nat] /\ d \in [1..n -> Nat]
      /\ \E c : AddsUp(c, a, n) /\ FileBytes(r) = c[n]
      /\ \E c : AddsUp(c, b, n) /\ WrittenBytes(r) = c[n]
      /\ \E c : AddsUp(c, d, n) /\ ReadBytes(r) = c[n]
    BY FileBytesFacts, WrittenBytesFacts, ReadBytesFacts
<1> HIDE DEF n, a, b, d
<1> QED
    BY <1>1, <1>2, AddsUpFacts

\* They are the same for requests with parts of the same lengths.
LEMMA SumsAgree ==
    ASSUME NEW r, r.parts \in Seq(PartFields), NEW g, g.parts \in Seq(PartFields),
           Len(r.parts) = Len(g.parts),
           \A i \in 1..Len(g.parts) : r.parts[i].qty = g.parts[i].qty
    PROVE  /\ FileBytes(r) = FileBytes(g) /\ ReadBytes(r) = ReadBytes(g)
           /\ (\A i \in 1..Len(g.parts) : Len(r.parts[i].vals) = g.parts[i].qty)
                 => WrittenBytes(r) = FileBytes(g)
<1> DEFINE n == Len(g.parts)
           a == PartSizes(g.parts)
           b == AnswerSizes(g.parts)
           v == CarriedSizes(r.parts)
<1>1. n \in Nat
    OBVIOUS
<1>2. /\ a \in [1..n -> Nat] /\ b \in [1..n -> Nat]
      /\ \E c : AddsUp(c, a, n) /\ FileBytes(g) = c[n]
      /\ \E c : AddsUp(c, b, n) /\ ReadBytes(g) = c[n]
    BY FileBytesFacts, ReadBytesFacts
<1>3. PartSizes(r.parts) = a /\ AnswerSizes(r.parts) = b
    BY DEF PartSizes, AnswerSizes
<1>4. /\ \E c : AddsUp(c, PartSizes(r.parts), n) /\ FileBytes(r) = c[n]
      /\ \E c : AddsUp(c, AnswerSizes(r.parts), n) /\ ReadBytes(r) = c[n]
      /\ \E c : AddsUp(c, v, n) /\ WrittenBytes(r) = c[n]
    BY FileBytesFacts, ReadBytesFacts, WrittenBytesFacts
<1>5. (\A i \in 1..n : Len(r.parts[i].vals) = g.parts[i].qty) => v = a
    BY DEF CarriedSizes, PartSizes
<1> HIDE DEF n, a, b, v
<1>6. FileBytes(r) = FileBytes(g) /\ ReadBytes(r) = ReadBytes(g)
    BY <1>1, <1>2, <1>3, <1>4, AddsUpFacts, SMTT(30)
<1>7. v = a => WrittenBytes(r) = FileBytes(g)
    BY <1>1, <1>2, <1>4, AddsUpFacts
<1> QED
    BY <1>5, <1>6, <1>7 DEF n

-----------------------------------------------------------------------------
\* How long an answer is, and what the server calls an illegal value.
AnswerSize(r) ==
    CASE r.fn \in {1, 2} -> 1 + (r.qty + 7) \div 8
      [] r.fn \in {3, 4} -> 1 + 2 * r.qty
      [] r.fn = 20 -> 1 + ReadBytes(r)
      [] r.fn = 21 -> 1 + WrittenBytes(r)
      [] r.fn = 22 -> 6
      [] r.fn = 23 -> 1 + 2 * r.rqty
      [] r.fn = 24 -> 66
      [] OTHER -> 4
Complaint(r) ==
    CASE r.fn \in {1, 2} -> ~(1 <= r.qty /\ r.qty <= 2000)
      [] r.fn \in {3, 4} -> ~(1 <= r.qty /\ r.qty <= 125)
      [] r.fn = 5 -> Swap(r.vals[1]) \notin {{}, {1}}
      [] r.fn = 15 -> ~(1 <= r.qty /\ r.qty <= 1968) \/ ~r.bytes
      [] r.fn = 16 -> ~(1 <= r.qty /\ r.qty <= 123) \/ ~r.bytes
      [] r.fn = 20 -> ~(7 <= 7 * Len(r.parts) /\ 7 * Len(r.parts) <= 245)
      [] r.fn = 21 -> \/ ~(9 < FileBytes(r) /\ FileBytes(r) < 251)
                      \/ \E i \in 1..Len(r.parts) : r.parts[i].qty > Len(r.parts[i].vals)
      [] r.fn = 23 -> ~(1 <= r.rqty /\ r.rqty <= 125) \/ ~(1 <= r.qty /\ r.qty <= 121) \/ ~r.bytes
      [] r.fn = 24 -> FifoSize - r.addr > 31
      [] OTHER -> FALSE
Shaped(r, x) ==
    /\ x.code = 0 => /\ x.response.code = 0 /\ x.response.size \in 0..AnswerSize(r)
                     /\ r.fn \in Reading => x.response.count # -1
    /\ x.code = IllegalValue => Complaint(r)

\* What is known of the size of a response is known of the result.
LEMMA ShapedResult ==
    ASSUME NEW r, NEW code, NEW st, NEW size, NEW count, NEW data,
           code = 0 => size \in 0..AnswerSize(r) /\ (r.fn \in Reading => count # -1),
           code = IllegalValue => Complaint(r)
    PROVE  /\ Shaped(r, Result(code, st, Response(r, size, count, data)))
           /\ Shaped(r, ResultAnyway(code, st, Response(r, size, count, data)))
           /\ code # 0 => Shaped(r, Result(code, st, NoResponse))
<1> DEFINE x == Result(code, st, Response(r, size, count, data))
           y == ResultAnyway(code, st, Response(r, size, count, data))
           z == Result(code, st, NoResponse)
<1>1. /\ x.code = code /\ y.code = code /\ z.code = code
      /\ code = 0 => /\ x.response.code = 0 /\ y.response.code = 0
                     /\ x.response.size = size /\ x.response.count = count
                     /\ y.response.size = size /\ y.response.count = count
    BY DEF Result, ResultAnyway, Response
<1> HIDE DEF x, y, z
<1>2. Shaped(r, x) /\ Shaped(r, y) /\ (code # 0 => Shaped(r, z))
    BY <1>1 DEF Shaped
<1> QED
    BY <1>2 DEF x, y, z

\* A code is that of one of the checks.
LEMMA OneFails ==
    ASSUME NEW n \in Nat, NEW codes, DOMAIN codes = 1..n, NEW c, c # 0, FirstFailing(codes) = c
    PROVE  \E i \in DOMAIN codes : codes[i] = c
BY FirstFailingFacts

\* The sizes and the complaints of each handler.
LEMMA ReadBitsShaped ==
    ASSUME NEW r, IsRequest(r), r.fn \in {1, 2}, NEW rd \in AppResult
    PROVE  Shaped(r, ReadBits(r, rd))
<1> DEFINE kind == IF r.fn = 1 THEN "coil" ELSE "discrete"
           area == AreaAt(kind, r.addr)
           bytes == (r.qty + 7) \div 8
           codes == << Check(1 <= r.qty /\ r.qty <= 2000, IllegalValue),
                       Check(kind \in Kinds, SlaveFailure),
                       Check(area # NoArea, IllegalAddress),
                       Check(area.start + area.size >= r.addr + r.qty, IllegalAddress),
                       Check(area.reads, IllegalAddress),
                       Check(txSize >= 1 + bytes, SlaveFailure),
                       Check(rd = 0, rd) >>
           data == Load(store, area, r.addr - area.start, r.qty)
<1>1. ReadBits(r, rd) = Result(FirstFailing(codes), store, Response(r, 1 + bytes, bytes, data))
    BY DEF ReadBits
<1>2. r.qty \in Nat
    BY RequestFacts
<1>3. DOMAIN codes = 1..7
    OBVIOUS
<1>4. ASSUME NEW i \in 1..7, codes[i] = IllegalValue PROVE ~(1 <= r.qty /\ r.qty <= 2000)
  <2> HIDE DEF area, bytes, kind
  <2> QED
      BY <1>2, <1>4 DEF Check, IllegalValue, IllegalAddress, SlaveFailure, AppResult
<1>5. ASSUME FirstFailing(codes) = IllegalValue PROVE Complaint(r)
  <2> HIDE DEF codes
  <2>1. IllegalValue # 0
      BY DEF IllegalValue
  <2>2. PICK i \in DOMAIN codes : codes[i] = IllegalValue
      BY ONLY <1>3, <1>5, <2>1, 7 \in Nat, OneFails
  <2> QED
      BY <1>3, <1>4, <2>2 DEF Complaint
<1>6. 1 + bytes \in 0..AnswerSize(r) /\ bytes # -1
    BY <1>2 DEF AnswerSize
<1> HIDE DEF codes, bytes, data
<1> QED
    BY <1>1, <1>5, <1>6, ShapedResult

\* Functions 3 and 4.
LEMMA ReadRegsShaped ==
    ASSUME NEW r, IsRequest(r), r.fn \in {3, 4}, NEW rd \in AppResult
    PROVE  Shaped(r, ReadRegs(r, rd))
<1> DEFINE kind == IF r.fn = 3 THEN "holding" ELSE "input"
           area == AreaAt(kind, r.addr)
           count == 2 * r.qty
           codes == << Check(kind \in Kinds, SlaveFailure),
                       Check(area # NoArea, IllegalAddress),
                       Check(1 <= r.qty /\ r.qty <= 125, IllegalValue),
                       Check(r.addr + r.qty <= area.start + area.size, IllegalAddress),
                       Check(area.reads, IllegalAddress),
                       Check(1 + 2 * r.qty <= txSize, SlaveFailure),
                       Check(rd = 0, rd) >>
           data == Swapped(Load(store, area, r.addr - area.start, r.qty))
<1>1. ReadRegs(r, rd) = Result(FirstFailing(codes), store, Response(r, 1 + count, count, data))
    BY DEF ReadRegs
<1>2. r.qty \in Nat
    BY RequestFacts
<1>3. DOMAIN codes = 1..7
    OBVIOUS
<1>4. ASSUME NEW i \in 1..7, codes[i] = IllegalValue PROVE ~(1 <= r.qty /\ r.qty <= 125)
  <2> HIDE DEF area, kind
  <2> QED
      BY <1>2, <1>4 DEF Check, IllegalValue, IllegalAddress, SlaveFailure, AppResult
<1>5. ASSUME FirstFailing(codes) = IllegalValue PROVE Complaint(r)
  <2> HIDE DEF codes
  <2>1. IllegalValue # 0
      BY DEF IllegalValue
  <2>2. PICK i \in DOMAIN codes : codes[i] = IllegalValue
      BY ONLY <1>3, <1>5, <2>1, 7 \in Nat, OneFails
  <2> QED
      BY <1>3, <1>4, <2>2 DEF Complaint
<1>6. 1 + count \in 0..AnswerSize(r) /\ count # -1
    BY <1>2 DEF AnswerSize
<1> HIDE DEF codes, count, data
<1> QED
    BY <1>1, <1>5, <1>6, ShapedResult

\* Function 24.
LEMMA ReadFifoShaped ==
    ASSUME NEW r, IsRequest(r), r.fn = 24, NEW rd \in AppResult
    PROVE  Shaped(r, ReadFifo(r, rd))
<1> DEFINE n == FifoCount(r)
           codes == << Check("fifo" \in Kinds, SlaveFailure),
                       Check(rd = 0, rd),
                       Check(n <= 31, IllegalValue),
                       Check(4 + 2 * n <= txSize, SlaveFailure) >>
           size == 4 + 2 * n
           count == 2 + 2 * n
           data == Swapped(Load(store, Fifo, r.addr, n))
<1>1. ReadFifo(r, rd) = Result(FirstFailing(codes), store, Response(r, size, count, data))
    BY DEF ReadFifo
<1>2. r.addr \in Nat /\ FifoSize \in Nat /\ n \in Nat /\ (n > 31 => FifoSize - r.addr > 31)
  <2>1. r.addr \in Nat /\ FifoSize \in Nat
      BY RequestFacts, FifoAssumption DEF FifoAssumption
  <2> QED
      BY <2>1 DEF FifoCount
<1>3. DOMAIN codes = 1..4
    OBVIOUS
<1> HIDE DEF n
<1>4. ASSUME NEW i \in 1..4, codes[i] = IllegalValue PROVE n > 31
    BY <1>2, <1>4 DEF Check, IllegalValue, SlaveFailure, AppResult
<1>5. ASSUME FirstFailing(codes) = 0 PROVE n <= 31
  <2>1. ASSUME \A i \in DOMAIN codes : codes[i] = 0 PROVE n <= 31
    <3>1. codes[3] = 0
        BY <1>3, <2>1
    <3> QED
        BY <3>1 DEF Check, IllegalValue
  <2> HIDE DEF codes
  <2> QED
      BY <1>3, <1>5, <2>1, 4 \in Nat, AllHold
<1>6. ASSUME FirstFailing(codes) = IllegalValue PROVE Complaint(r)
  <2> HIDE DEF codes
  <2>1. IllegalValue # 0
      BY DEF IllegalValue
  <2>2. PICK i \in DOMAIN codes : codes[i] = IllegalValue
      BY ONLY <1>3, <1>6, <2>1, 4 \in Nat, OneFails
  <2> QED
      BY <1>2, <1>3, <1>4, <2>2 DEF Complaint
<1>7. (FirstFailing(codes) = 0 => size \in 0..AnswerSize(r)) /\ count # -1
  <2> HIDE DEF codes
  <2> QED
      BY <1>2, <1>5 DEF AnswerSize
<1> HIDE DEF codes, size, count, data
<1> QED
    BY <1>1, <1>6, <1>7, ShapedResult

\* Function 5.
LEMMA WriteCoilShaped ==
    ASSUME NEW r, IsRequest(r), r.fn = 5, NEW wr \in AppResult
    PROVE  Shaped(r, WriteCoil(r, wr))
<1> DEFINE area == AreaAt("coil", r.addr)
           value == Swap(r.vals[1])
           coil == IF value = {1} THEN {0} ELSE {}
           codes == << Check(value \in {{}, {1}}, IllegalValue),
                       Check("coil" \in Kinds, SlaveFailure),
                       Check(area # NoArea, IllegalAddress),
                       Check(area.writes, IllegalAddress),
                       Check(txSize >= 4, SlaveFailure),
                       Check(wr = 0, wr) >>
           st == Store(store, area, r.addr - area.start, <<coil>>)
           data == <<Swap(value)>>
<1>1. WriteCoil(r, wr) = Result(FirstFailing(codes), st, Response(r, 4, -1, data))
    BY DEF WriteCoil
<1>2. DOMAIN codes = 1..6
    OBVIOUS
<1>3. ASSUME NEW i \in 1..6, codes[i] = IllegalValue PROVE value \notin {{}, {1}}
  <2> HIDE DEF area, value
  <2> QED
      BY <1>3 DEF Check, IllegalValue, IllegalAddress, SlaveFailure, AppResult
<1>4. ASSUME FirstFailing(codes) = IllegalValue PROVE Complaint(r)
  <2> HIDE DEF codes
  <2>1. IllegalValue # 0
      BY DEF IllegalValue
  <2>2. PICK i \in DOMAIN codes : codes[i] = IllegalValue
      BY ONLY <1>2, <1>4, <2>1, 6 \in Nat, OneFails
  <2> QED
      BY <1>2, <1>3, <2>2 DEF Complaint
<1>5. 4 \in 0..AnswerSize(r) /\ r.fn \notin Reading
    BY DEF AnswerSize, Reading
<1> HIDE DEF codes, st, data
<1> QED
    BY <1>1, <1>4, <1>5, ShapedResult

\* Function 6.
LEMMA WriteRegShaped ==
    ASSUME NEW r, IsRequest(r), r.fn = 6, NEW wr \in AppResult
    PROVE  Shaped(r, WriteReg(r, wr))
<1> DEFINE area == AreaAt("holding", r.addr)
           value == Swap(r.vals[1])
           codes == << Check("holding" \in Kinds, SlaveFailure),
                       Check(area # NoArea, IllegalAddress),
                       Check(area.writes, IllegalAddress),
                       Check(wr = 0, wr) >>
           code == FirstFailing(codes)
           room == IF 4 > txSize THEN SlaveFailure ELSE 0
           st == Store(store, area, r.addr - area.start, <<value>>)
           data == <<Swap(value)>>
<1>1. WriteReg(r, wr) = IF code # 0 THEN Result(code, store, NoResponse)
                        ELSE ResultAnyway(room, st, Response(r, 4, -1, data))
    BY DEF WriteReg
<1>2. DOMAIN codes = 1..4
    OBVIOUS
<1>3. ASSUME NEW i \in 1..4 PROVE codes[i] # IllegalValue
  <2> HIDE DEF area
  <2> QED
      BY DEF Check, IllegalValue, IllegalAddress, SlaveFailure, AppResult
<1>4. code # IllegalValue /\ room # IllegalValue
  <2>0. room # IllegalValue
      BY DEF IllegalValue, SlaveFailure
  <2>1. ASSUME FirstFailing(codes) = IllegalValue PROVE FALSE
    <3> HIDE DEF codes
    <3>1. IllegalValue # 0
        BY DEF IllegalValue
    <3>2. PICK i \in DOMAIN codes : codes[i] = IllegalValue
        BY ONLY <1>2, <2>1, <3>1, 4 \in Nat, OneFails
    <3> QED
        BY <1>2, <1>3, <3>2
  <2> QED
      BY <2>0, <2>1
<1>5. 4 \in 0..AnswerSize(r) /\ r.fn \notin Reading
    BY DEF AnswerSize, Reading
<1> HIDE DEF code, room, st, data
<1> QED
    BY <1>1, <1>4, <1>5, ShapedResult

\* Function 15.
LEMMA WriteCoilsShaped ==
    ASSUME NEW r, IsRequest(r), r.fn = 15, NEW wr \in AppResult
    PROVE  Shaped(r, WriteCoils(r, wr))
<1> DEFINE area == AreaAt("coil", r.addr)
           codes == << Check(1 <= r.qty /\ r.qty <= 1968, IllegalValue),
                       Check(r.bytes, IllegalValue),
                       Check("coil" \in Kinds, SlaveFailure),
                       Check(area # NoArea, IllegalAddress),
                       Check(area.start + area.size >= r.addr + r.qty, IllegalAddress),
                       Check(area.writes, IllegalAddress),
                       Check(txSize >= 4, SlaveFailure),
                       Check(wr = 0, wr) >>
           st == Store(store, area, r.addr - area.start, r.vals)
<1>1. WriteCoils(r, wr) = Result(FirstFailing(codes), st, Response(r, 4, -1, <<>>))
    BY DEF WriteCoils
<1>2. r.qty \in Nat
    BY RequestFacts
<1>3. DOMAIN codes = 1..8
    OBVIOUS
<1>4. ASSUME NEW i \in 1..8, codes[i] = IllegalValue
      PROVE  ~(1 <= r.qty /\ r.qty <= 1968) \/ ~r.bytes
  <2> HIDE DEF area
  <2> QED
      BY <1>2, <1>4 DEF Check, IllegalValue, IllegalAddress, SlaveFailure, AppResult
<1>5. ASSUME FirstFailing(codes) = IllegalValue PROVE Complaint(r)
  <2> HIDE DEF codes
  <2>1. IllegalValue # 0
      BY DEF IllegalValue
  <2>2. PICK i \in DOMAIN codes : codes[i] = IllegalValue
      BY ONLY <1>3, <1>5, <2>1, 8 \in Nat, OneFails
  <2> QED
      BY <1>3, <1>4, <2>2 DEF Complaint
<1>6. 4 \in 0..AnswerSize(r) /\ r.fn \notin Reading
    BY DEF AnswerSize, Reading
<1> HIDE DEF codes, st
<1> QED
    BY <1>1, <1>5, <1>6, ShapedResult

\* Function 16.
LEMMA WriteRegsShaped ==
    ASSUME NEW r, IsRequest(r), r.fn = 16, NEW wr \in AppResult
    PROVE  Shaped(r, WriteRegs(r, wr))
<1> DEFINE area == AreaAt("holding", r.addr)
           codes == << Check(1 <= r.qty /\ r.qty <= 123 /\ r.bytes, IllegalValue),
                       Check("holding" \in Kinds, SlaveFailure),
                       Check(area # NoArea, IllegalAddress),
                       Check(r.addr + r.qty <= area.start + area.size, IllegalAddress),
                       Check(area.writes, IllegalAddress),
                       Check(4 <= txSize, SlaveFailure),
                       Check(wr = 0, wr) >>
           st == Store(store, area, r.addr - area.start, Swapped(r.vals))
<1>1. WriteRegs(r, wr) = Result(FirstFailing(codes), st, Response(r, 4, -1, <<>>))
    BY DEF WriteRegs
<1>2. r.qty \in Nat
    BY RequestFacts
<1>3. DOMAIN codes = 1..7
    OBVIOUS
<1>4. ASSUME NEW i \in 1..7, codes[i] = IllegalValue PROVE ~(1 <= r.qty /\ r.qty <= 123) \/ ~r.bytes
  <2> HIDE DEF area
  <2> QED
      BY <1>2, <1>4 DEF Check, IllegalValue, IllegalAddress, SlaveFailure, AppResult
<1>5. ASSUME FirstFailing(codes) = IllegalValue PROVE Complaint(r)
  <2> HIDE DEF codes
  <2>1. IllegalValue # 0
      BY DEF IllegalValue
  <2>2. PICK i \in DOMAIN codes : codes[i] = IllegalValue
      BY ONLY <1>3, <1>5, <2>1, 7 \in Nat, OneFails
  <2> QED
      BY <1>3, <1>4, <2>2 DEF Complaint
<1>6. 4 \in 0..AnswerSize(r) /\ r.fn \notin Reading
    BY DEF AnswerSize, Reading
<1> HIDE DEF codes, st
<1> QED
    BY <1>1, <1>5, <1>6, ShapedResult

\* Function 22.
LEMMA MaskRegShaped ==
    ASSUME NEW r, IsRequest(r), r.fn = 22, NEW rd \in AppResult, NEW wr \in AppResult
    PROVE  Shaped(r, MaskReg(r, rd, wr))
<1> DEFINE area == AreaAt("holding", r.addr)
           masks == Swapped(r.vals)
           offset == r.addr - area.start
           codes == << Check("holding" \in Kinds, SlaveFailure),
                       Check(area # NoArea, IllegalAddress),
                       Check(area.reads /\ area.writes, IllegalAddress),
                       Check(rd = 0, rd),
                       Check(wr = 0, wr) >>
           code == FirstFailing(codes)
           room == IF 6 > txSize THEN SlaveFailure ELSE 0
           tmp == store[<<area, offset>>]
           value == (tmp \cap masks[1]) \cup (masks[2] \cap ({0, 1} \ masks[1]))
           st == Store(store, area, offset, <<value>>)
           data == Swapped(masks)
<1>1. MaskReg(r, rd, wr) = IF code # 0 THEN Result(code, store, NoResponse)
                           ELSE ResultAnyway(room, st, Response(r, 6, -1, data))
    BY DEF MaskReg
<1>2. DOMAIN codes = 1..5
    OBVIOUS
<1>3. ASSUME NEW i \in 1..5 PROVE codes[i] # IllegalValue
  <2> HIDE DEF area
  <2> QED
      BY DEF Check, IllegalValue, IllegalAddress, SlaveFailure, AppResult
<1>4. code # IllegalValue /\ room # IllegalValue
  <2>0. room # IllegalValue
      BY DEF IllegalValue, SlaveFailure
  <2>1. ASSUME FirstFailing(codes) = IllegalValue PROVE FALSE
    <3> HIDE DEF codes
    <3>1. IllegalValue # 0
        BY DEF IllegalValue
    <3>2. PICK i \in DOMAIN codes : codes[i] = IllegalValue
        BY ONLY <1>2, <2>1, <3>1, 5 \in Nat, OneFails
    <3> QED
        BY <1>2, <1>3, <3>2
  <2> QED
      BY <2>0, <2>1
<1>5. 6 \in 0..AnswerSize(r) /\ r.fn \notin Reading
    BY DEF AnswerSize, Reading
<1> HIDE DEF code, room, st, data
<1> QED
    BY <1>1, <1>4, <1>5, ShapedResult

\* Function 23.
LEMMA ReadWriteRegsShaped ==
    ASSUME NEW r, IsRequest(r), r.fn = 23, NEW rd \in AppResult, NEW wr \in AppResult
    PROVE  Shaped(r, ReadWriteRegs(r, rd, wr))
<1> DEFINE wrArea == AreaAt("holding", r.addr)
           rdArea == AreaAt("holding", r.raddr)
           written == Store(store, wrArea, r.addr - wrArea.start, Swapped(r.vals))
           codes == << Check(1 <= r.rqty /\ r.rqty <= 125, IllegalValue),
                       Check(1 <= r.qty /\ r.qty <= 121, IllegalValue),
                       Check(r.bytes, IllegalValue),
                       Check("holding" \in Kinds, SlaveFailure),
                       Check(wrArea # NoArea, IllegalAddress),
                       Check(r.addr + r.qty <= wrArea.start + wrArea.size, IllegalAddress),
                       Check(wrArea.writes, IllegalFunction),
                       Check(rdArea # NoArea, IllegalAddress),
                       Check(r.raddr + r.rqty <= rdArea.start + rdArea.size, IllegalAddress),
                       Check(rdArea.reads, IllegalFunction),
                       Check(1 + 2 * r.rqty <= txSize, SlaveFailure),
                       Check(wr = 0, wr) >>
           code == FirstFailing(codes)
           count == 2 * r.rqty
           data == Swapped(Load(written, rdArea, r.raddr - rdArea.start, r.rqty))
<1>1. ReadWriteRegs(r, rd, wr) = IF code # 0 THEN Result(code, store, NoResponse)
                                 ELSE ResultAnyway(rd, written, Response(r, 1 + count, count, data))
    BY DEF ReadWriteRegs
<1>2. r.qty \in Nat /\ r.rqty \in Nat
    BY RequestFacts
<1>3. DOMAIN codes = 1..12
    OBVIOUS
<1>4. ASSUME NEW i \in 1..12, codes[i] = IllegalValue
      PROVE  ~(1 <= r.rqty /\ r.rqty <= 125) \/ ~(1 <= r.qty /\ r.qty <= 121) \/ ~r.bytes
  <2> HIDE DEF wrArea, rdArea
  <2> QED
      BY <1>2, <1>4
      DEF Check, IllegalValue, IllegalAddress, IllegalFunction, SlaveFailure, AppResult
<1>5. ASSUME FirstFailing(codes) = IllegalValue PROVE Complaint(r)
  <2> HIDE DEF codes
  <2>1. IllegalValue # 0
      BY DEF IllegalValue
  <2>2. PICK i \in DOMAIN codes : codes[i] = IllegalValue
      BY ONLY <1>3, <1>5, <2>1, 12 \in Nat, OneFails
  <2> QED
      BY <1>3, <1>4, <2>2 DEF Complaint
<1>6. 1 + count \in 0..AnswerSize(r) /\ count # -1 /\ rd # IllegalValue
    BY <1>2 DEF AnswerSize, AppResult, IllegalValue, SlaveFailure
<1> HIDE DEF codes, count, data, written
<1> QED
    BY <1>1, <1>5, <1>6, ShapedResult

\* Function 20: no part complains.
LEMMA ReadFileShaped ==
    ASSUME NEW r, IsRequest(r), r.fn = 20, NEW rd \in AppResult
    PROVE  Shaped(r, ReadFile(r, rd))
<1> DEFINE n == Len(r.parts)
           all == [i \in 1..n |-> ReadPart(r, rd, i)]
           room == 7 <= 7 * n /\ 7 * n <= 245
           code == IF room THEN FirstFailing(all) ELSE IllegalValue
           data == FlattenSeq([i \in 1..n |-> Swapped(Load(store, FileOf(r.parts[i].space),
                                                           r.parts[i].addr, Held(r, i)))])
           count == Counted(r, n)
           size == count + 1
<1>1. ReadFile(r, rd) = Result(code, store, Response(r, size, count, data))
    BY DEF ReadFile
<1>2. n \in Nat /\ r.parts \in Seq(PartFields)
    BY RequestFacts
<1>3. ReadBytes(r) = PartEnds(r)[n]
    BY DEF ReadBytes, Sum, PartEnds
<1>4. count \in Nat /\ ReadBytes(r) \in Nat /\ count <= ReadBytes(r)
  <2> DEFINE last == PartEnds(r)[n]
  <2>1. last \in Nat
      BY <1>2, PartEndsFacts
  <2>2. count = last % 2^8
      BY DEF Counted
  <2> HIDE DEF last, count
  <2>3. count \in Nat /\ count <= last
      BY <2>1, <2>2, 2^8 = 256
  <2> QED
      BY <1>3, <2>1, <2>3 DEF last
<1>5. ASSUME NEW i \in 1..n PROVE ReadPart(r, rd, i) # IllegalValue
  <2> DEFINE file == FileOf(r.parts[i].space)
             these == << Check("file" \in Kinds, SlaveFailure),
                         Check(file # NoArea, IllegalAddress),
                         Check(file.reads, IllegalAddress),
                         Check(txSize >= Counted(r, i), SlaveFailure),
                         Check(r.parts[i].addr + r.parts[i].qty <= file.size, IllegalAddress),
                         Check(rd = 0, rd) >>
  <2>1. ReadPart(r, rd, i) = FirstFailing(these)
      BY DEF ReadPart
  <2> HIDE DEF file
  <2>2. DOMAIN these = 1..6
      OBVIOUS
  <2>3. ASSUME NEW j \in 1..6 PROVE these[j] # IllegalValue
      BY DEF Check, IllegalValue, IllegalAddress, SlaveFailure, AppResult
  <2>4. ASSUME FirstFailing(these) = IllegalValue PROVE FALSE
    <3> HIDE DEF these
    <3>1. IllegalValue # 0
        BY DEF IllegalValue
    <3>2. PICK j \in DOMAIN these : these[j] = IllegalValue
        BY ONLY <2>2, <2>4, <3>1, 6 \in Nat, OneFails
    <3> QED
        BY <2>2, <2>3, <3>2
  <2> QED
      BY <2>1, <2>4
<1>6. ASSUME code = IllegalValue PROVE Complaint(r)
  <2>1. DOMAIN all = 1..n /\ \A i \in 1..n : all[i] # IllegalValue
      BY <1>5
  <2> HIDE DEF all
  <2>2. IllegalValue # 0
      BY DEF IllegalValue
  <2>3. ~room
    <3> SUFFICES ASSUME room PROVE FALSE
        OBVIOUS
    <3>1. FirstFailing(all) = IllegalValue
        BY <1>6
    <3> HIDE DEF n
    <3>2. PICK i \in DOMAIN all : all[i] = IllegalValue
        BY ONLY <1>2, <2>1, <2>2, <3>1, OneFails
    <3> QED
        BY <2>1, <3>2
  <2> QED
      BY <2>3 DEF Complaint
<1> HIDE DEF all, count, data, n
<1>7. size \in 0..AnswerSize(r) /\ count # -1
    BY <1>4 DEF AnswerSize
<1> HIDE DEF code, size
<1> QED
    BY <1>1, <1>6, <1>7, ShapedResult

\* Function 21: a part complains when it was cut short.
LEMMA WritePartShaped ==
    ASSUME NEW r, IsRequest(r), NEW failing, NEW i \in 1..Len(r.parts), NEW d \in DoneType,
           WritePart(r, failing, d, i).code = IllegalValue
    PROVE  d.code = IllegalValue \/ r.parts[i].qty > Len(r.parts[i].vals)
<1> DEFINE p == r.parts[i]
           file == FileOf(p.space)
           codes == << Check("file" \in Kinds, SlaveFailure),
                       Check(file # NoArea /\ file.writes, IllegalAddress),
                       Check(p.qty <= Len(p.vals), IllegalValue),
                       Check(p.addr + p.qty <= file.size, IllegalAddress),
                       Check(i # failing, SlaveFailure) >>
           code == FirstFailing(codes)
           st == Store(d.store, file, p.addr, Swapped(p.vals))
<1>1. WritePart(r, failing, d, i) = IF d.code # 0 \/ code # 0
                                    THEN [d EXCEPT !.code = IF d.code # 0 THEN d.code ELSE code]
                                    ELSE [d EXCEPT !.store = st]
    BY DEF WritePart
<1>2. p.qty \in Nat /\ Len(p.vals) \in Nat
  <2>1. p.qty \in Nat /\ p.vals \in Seq(Word)
      BY MeantParts
  <2> QED
      BY <2>1
<1>3. DOMAIN codes = 1..5
    OBVIOUS
<1>4. ASSUME NEW j \in 1..5, codes[j] = IllegalValue PROVE p.qty > Len(p.vals)
  <2> HIDE DEF file, p
  <2> QED
      BY <1>2, <1>4 DEF Check, IllegalValue, IllegalAddress, SlaveFailure
<1> HIDE DEF p, st, codes
<1>5. d.code # IllegalValue => code = IllegalValue
    BY <1>1 DEF DoneType, IllegalValue
<1>6. ASSUME code = IllegalValue PROVE p.qty > Len(p.vals)
  <2>1. IllegalValue # 0 /\ FirstFailing(codes) = IllegalValue
      BY <1>6 DEF IllegalValue
  <2>2. PICK j \in DOMAIN codes : codes[j] = IllegalValue
      BY ONLY <1>3, <2>1, 5 \in Nat, OneFails
  <2> QED
      BY <1>3, <1>4, <2>2
<1> QED
    BY <1>5, <1>6 DEF p

\* Function 21: so does the request.
LEMMA WriteFileShaped ==
    ASSUME StoreOK(store), NEW r, IsRequest(r), r.fn = 21, NEW failing
    PROVE  Shaped(r, WriteFile(r, failing))
<1> DEFINE n == Len(r.parts)
           byteCount == Sum(r.parts, LAMBDA p : 7 + 2 * p.qty)
           size == 1 + Sum(r.parts, LAMBDA p : 7 + 2 * Len(p.vals))
           codes == << Check(9 < byteCount /\ byteCount < 251, IllegalValue),
                       Check(txSize >= size, SlaveFailure) >>
           code == FirstFailing(codes)
           done == Progress(r, failing)
           last == done[n].code
           st == done[n].store
           data == FlattenSeq([i \in 1..n |-> r.parts[i].vals])
           Short(i) == r.parts[i].qty > Len(r.parts[i].vals)
<1>1. WriteFile(r, failing) = IF code # 0 THEN Result(code, store, NoResponse)
                              ELSE ResultAnyway(last, st, Response(r, size, -1, data))
    BY DEF WriteFile, Progress
<1>2. byteCount = FileBytes(r) /\ size = 1 + WrittenBytes(r)
    BY DEF FileBytes, WrittenBytes, Sum, SumUpTo
<1>3. n \in Nat
    BY MeantParts
<1> HIDE DEF size, byteCount
<1>4. DOMAIN codes = 1..2
    OBVIOUS
<1>5. ASSUME NEW i \in 1..2, codes[i] = IllegalValue
      PROVE  ~(9 < FileBytes(r) /\ FileBytes(r) < 251)
    BY <1>2, <1>5 DEF Check, IllegalValue, SlaveFailure
<1>6. ASSUME code = IllegalValue PROVE Complaint(r)
  <2> HIDE DEF codes
  <2>1. IllegalValue # 0 /\ FirstFailing(codes) = IllegalValue
      BY <1>6 DEF IllegalValue
  <2>2. PICK i \in DOMAIN codes : codes[i] = IllegalValue
      BY ONLY <1>4, <2>1, 2 \in Nat, OneFails
  <2> QED
      BY <1>4, <1>5, <2>2 DEF Complaint
<1>7. ASSUME last = IllegalValue PROVE Complaint(r)
  <2>1. /\ done \in [0..n -> DoneType] /\ done[0].code = 0
        /\ \A i \in 1..n : done[i] = WritePart(r, failing, done[i - 1], i)
    <3>1. store \in [CellSet -> Word] /\ done = Progress(r, failing)
        BY DEF StoreOK, Words
    <3> HIDE DEF done
    <3> QED
        BY <3>1, DoneFacts
  <2> HIDE DEF done, last
  <2> DEFINE Goes(j) == done[j].code = IllegalValue => \E i \in 1..n : Short(i)
             T == {j \in 0..n : Goes(j)}
  <2>2. 0 \in T
      BY <1>3, <2>1 DEF IllegalValue
  <2>3. ASSUME NEW j \in 0..(n - 1), j \in T PROVE j + 1 \in T
    <3>1. j \in 0..n /\ j + 1 \in 0..n /\ j + 1 \in 1..n /\ (j + 1) - 1 = j
        BY <1>3
    <3> DEFINE k == j + 1
               d == done[j]
    <3>2. d \in DoneType /\ done[k] = WritePart(r, failing, d, k)
        BY <2>1, <3>1
    <3> HIDE DEF k, d, Short
    <3>3. ASSUME done[k].code = IllegalValue PROVE \E i \in 1..n : Short(i)
      <4>1. d.code = IllegalValue \/ r.parts[k].qty > Len(r.parts[k].vals)
          BY <3>1, <3>2, <3>3, WritePartShaped DEF k
      <4> QED
          BY <2>3, <3>1, <4>1 DEF k, d, Short
    <3> QED
        BY <3>1, <3>3 DEF k
  <2>4. n \in T
    <3> HIDE DEF T, n
    <3>1. 0..n \subseteq T
        BY <1>3, <2>2, <2>3, Upwards
    <3> QED
        BY <1>3, <3>1
  <2>5. \E i \in 1..n : Short(i)
      BY <1>7, <2>4 DEF last
  <2> QED
      BY <2>5 DEF Complaint
<1>8. size \in 0..AnswerSize(r) /\ r.fn \notin Reading
  <2>1. WrittenBytes(r) \in Nat
      BY RequestFacts, SumsAreNats
  <2> QED
      BY <1>2, <2>1 DEF AnswerSize, Reading
<1> HIDE DEF codes, st, data, last
<1> QED
    BY <1>1, <1>6, <1>7, <1>8, ShapedResult

-----------------------------------------------------------------------------
\* Session: what is known of an answer.
Measured(r, a) ==
    a # NoResponse =>
        /\ a.code = 0 => a.size \in 0..AnswerSize(r) /\ (r.fn \in Reading => a.count # -1)
        /\ a.code # 0 => a.size = 1
        /\ a.code = IllegalValue => Complaint(r)

\* The response is that of the result, or an exception.
LEMMA ServeMeasured ==
    ASSUME NEW r, NEW x, Shaped(r, x), NEW spills, Serve(r, x, spills)
    PROVE  Measured(r, sent')
<1>1. sent' = IF r.to \in Broadcast THEN NoResponse
              ELSE IF x.code = 0 THEN x.response ELSE ExceptionPdu(r, x.code)
    BY DEF Serve
<1>2. CASE r.to \in Broadcast
    BY <1>1, <1>2 DEF Measured
<1>3. CASE r.to \notin Broadcast /\ x.code = 0
    BY <1>1, <1>3 DEF Measured, Shaped, IllegalValue
<1>4. CASE r.to \notin Broadcast /\ x.code # 0
  <2>1. sent'.code = x.code /\ sent'.size = 1
      BY <1>1, <1>4 DEF ExceptionPdu
  <2> QED
      BY <1>4, <2>1 DEF Measured, Shaped
<1> QED
    BY <1>2, <1>3, <1>4

\* Whatever the request and whatever the server makes of it.
LEMMA ReceiveMeasured ==
    ASSUME Ground, NEW r, IsRequest(r), Receive(r)
    PROVE  Measured(r, sent')
<1>1. StoreOK(store)
    BY DEF Ground
<1>2. ASSUME NEW x, Shaped(r, x), NEW spills, Serve(r, x, spills) PROVE Measured(r, sent')
    BY <1>2, ServeMeasured
<1>3. CASE NotMine(r)
    BY <1>3 DEF NotMine, Measured
<1>4. CASE ServeUnknownFunction(r)
  <2>1. sent' = NoResponse \/ (sent'.code = 1 /\ sent'.size = 1)
      BY <1>4 DEF ServeUnknownFunction, ExceptionPdu, IllegalFunction
  <2> QED
      BY <2>1 DEF Measured, IllegalValue
<1>5. ASSUME NEW rd \in AppResult, r.fn \in {1, 2}, Serve(r, ReadBits(r, rd), FALSE)
      PROVE  Measured(r, sent')
    BY <1>2, <1>5, ReadBitsShaped
<1>6. ASSUME NEW rd \in AppResult, r.fn \in {3, 4}, Serve(r, ReadRegs(r, rd), FALSE)
      PROVE  Measured(r, sent')
    BY <1>2, <1>6, ReadRegsShaped
<1>7. ASSUME NEW rd \in AppResult, r.fn = 20, Serve(r, ReadFile(r, rd), FileSpills(r, rd))
      PROVE  Measured(r, sent')
    BY <1>2, <1>7, ReadFileShaped
<1>8. ASSUME NEW rd \in AppResult, r.fn = 24, Serve(r, ReadFifo(r, rd), FifoSpills(r, rd))
      PROVE  Measured(r, sent')
    BY <1>2, <1>8, ReadFifoShaped
<1>9. ASSUME NEW wr \in AppResult, r.fn = 5, Serve(r, WriteCoil(r, wr), FALSE)
      PROVE  Measured(r, sent')
    BY <1>2, <1>9, WriteCoilShaped
<1>10. ASSUME NEW wr \in AppResult, r.fn = 6, Serve(r, WriteReg(r, wr), FALSE)
       PROVE  Measured(r, sent')
    BY <1>2, <1>10, WriteRegShaped
<1>11. ASSUME NEW wr \in AppResult, r.fn = 15, Serve(r, WriteCoils(r, wr), FALSE)
       PROVE  Measured(r, sent')
    BY <1>2, <1>11, WriteCoilsShaped
<1>12. ASSUME NEW wr \in AppResult, r.fn = 16, Serve(r, WriteRegs(r, wr), FALSE)
       PROVE  Measured(r, sent')
    BY <1>2, <1>12, WriteRegsShaped
<1>13. ASSUME NEW rd \in AppResult, NEW wr \in AppResult, r.fn = 22, Serve(r, MaskReg(r, rd, wr), FALSE)
       PROVE  Measured(r, sent')
    BY <1>2, <1>13, MaskRegShaped
<1>14. ASSUME NEW rd \in AppResult, NEW wr \in AppResult, r.fn = 23,
              Serve(r, ReadWriteRegs(r, rd, wr), FALSE)
       PROVE  Measured(r, sent')
    BY <1>2, <1>14, ReadWriteRegsShaped
<1>15. ASSUME NEW failing \in 0..Len(r.parts), r.fn = 21, Serve(r, WriteFile(r, failing), FALSE)
       PROVE  Measured(r, sent')
    BY <1>1, <1>2, <1>15, WriteFileShaped
<1> QED
    BY <1>3, <1>4, <1>5, <1>6, <1>7, <1>8, <1>9, <1>10, <1>11, <1>12, <1>13, <1>14, <1>15
    DEF Receive

\* An answer that is no exception says that the request was carried out.
LEMMA AnswerIs ==
    ASSUME NEW r, IsRequest(r), Kept(r), sent' # NoResponse, sent'.code = 0
    PROVE  /\ Promise!CarryOut(Meant(r))
           /\ Reply' = Promise!Done(Promise!Effect(Mem, Meant(r)), Meant(r))
<1>1. Reply'.kind = "done"
    BY DEF Reply
<1>2. \/ Promise!CarryOut(Meant(r))
      \/ Promise!AnswerWith(Meant(r), Promise!Exception(Meant(r)))
    BY DEF Kept, Promise!Receive, Promise!Refuse, Promise!Tear
<1>3. ~Promise!AnswerWith(Meant(r), Promise!Exception(Meant(r)))
    BY <1>1 DEF Promise!AnswerWith, Promise!Exception, Promise!Nothing
<1>4. Promise!CarryOut(Meant(r))
    BY <1>2, <1>3
<1>5. Promise!AnswerWith(Meant(r), Promise!Done(Promise!Effect(Mem, Meant(r)), Meant(r)))
    BY <1>4 DEF Promise!CarryOut
<1>6. Reply' # Promise!Nothing
    BY <1>1 DEF Promise!Nothing
<1> QED
    BY <1>4, <1>5, <1>6 DEF Promise!AnswerWith

\* What the accessors read from it is what the registers hold.
ReadFrom(a) == IF HasRegs(a.fn) THEN Swapped(a.data) ELSE a.data
Told(r, a) ==
    /\ a.fn = r.fn /\ a.data \in Seq(Word)
    /\ r.fn \in {1, 2} => Len(a.data) = r.qty
    /\ r.fn \in {3, 4, 23} => a.count = 2 * Len(a.data)
    /\ r.fn = 20 => a.size = a.count + 1
    /\ r.fn = 24 => a.count = 2 * Len(a.data) + 2

\* An answer tells how much it carries, and what the registers hold.
LEMMA AnswerTold ==
    ASSUME NEW r, IsRequest(r), Kept(r), Sound(r, sent'), Measured(r, sent'),
           sent' # NoResponse, sent'.code = 0
    PROVE  Told(r, sent') /\ Reply'.data = ReadFrom(sent')
<1> DEFINE data == sent'.data
           m == Meant(r)
           answer == Promise!Answer(Promise!Effect(Mem, m), m)
<1>1. Reply' = Promise!Done(Promise!Effect(Mem, m), m) /\ m.fn = r.fn /\ m.qty = r.qty
    BY AnswerIs, MeantFacts
<1>2. Reply'.fn = sent'.fn /\ Reply'.data = ReadFrom(sent')
    BY DEF Reply, ReadFrom
<1>3. sent'.fn = r.fn /\ ReadFrom(sent') = answer
    BY <1>1, <1>2 DEF Promise!Done
<1>4. data \in Seq(Word) /\ r.qty \in Nat
    BY RequestFacts DEF Sound
<1>5. ASSUME r.fn \in {1, 2} PROVE Len(data) = r.qty
  <2>1. data = answer
      BY <1>3, <1>5 DEF ReadFrom, HasRegs
  <2>2. answer = Promise!Get(Promise!Effect(Mem, m), Promise!Cells(m))
      BY <1>1, <1>5 DEF Promise!Answer
  <2>3. DOMAIN answer = 1..r.qty
      BY <1>1, <2>2 DEF Promise!Get, Promise!Cells, Promise!cellsOf
  <2> QED
      BY <1>4, <2>1, <2>3
<1>6. ASSUME r.fn \in Reading
      PROVE  /\ sent'.count = Payload(r, sent')
             /\ sent'.size = sent'.count + (IF sent'.fn = 24 THEN 2 ELSE 1)
    BY <1>6 DEF Measured, Sound, Fits
<1>7. ASSUME r.fn \in {3, 4, 23} PROVE sent'.count = 2 * Len(data)
  <2>1. sent'.count = Payload(r, sent') /\ sent'.fn \notin {1, 2, 20, 24}
      BY <1>3, <1>6, <1>7 DEF Reading
  <2> QED
      BY <2>1 DEF Payload
<1>8. r.fn = 24 => sent'.count = 2 * Len(data) + 2
    BY <1>3, <1>6 DEF Payload, Reading
<1>9. r.fn = 20 => sent'.size = sent'.count + 1
    BY <1>3, <1>6 DEF Reading
<1> QED
    BY <1>2, <1>3, <1>4, <1>5, <1>7, <1>8, <1>9 DEF Told

\* The accessors read all of it.
LEMMA AccessorsRead ==
    ASSUME NEW g, NEW r, IsRequest(r), r.fn = g.fn, r.qty = g.qty, NEW a, Told(r, a)
    PROVE  /\ g.fn \in Reading => AnswerOf(g, a) = ReadFrom(a)
           /\ g.fn \notin Reading => AnswerOf(g, a) = <<>>
           /\ ReadFrom(a) \in Seq(Word)
<1> DEFINE data == a.data
           n == Len(data)
<1>1. a.fn = g.fn /\ data \in Seq(Word) /\ n \in Nat
    BY DEF Told
<1>2. SubSeq(data, 1, n) = data
    BY <1>1
<1>3. \A k : k = 2 * n => k \div 2 = n
  <2> HIDE DEF n
  <2> QED
      BY <1>1
<1>4. SwapWords(data) = Swapped(data)
    BY SwapsAgree
<1>5. Swapped(data) \in Seq(Word)
  <2> HIDE DEF data
  <2> QED
      BY <1>1, SwappedFacts
<1>6. CASE g.fn \in {1, 2}
  <2>0. AnswerOf(g, a) = ReadBitsAns(g, a)
      BY <1>6 DEF AnswerOf
  <2>1. AnswerOf(g, a) = SubSeq(data, 1, g.qty)
      BY <2>0 DEF ReadBitsAns
  <2>2. ReadFrom(a) = data /\ n = g.qty
      BY <1>1, <1>6 DEF ReadFrom, HasRegs, Told
  <2> QED
      BY <1>1, <1>2, <1>6, <2>1, <2>2 DEF Reading
<1>7. CASE g.fn \in {3, 4, 23}
  <2>1. AnswerOf(g, a) = SwapWords(SubSeq(data, 1, a.count \div 2))
      BY <1>7 DEF AnswerOf, ReadRegsAns, ReadWriteRegsAns
  <2>2. ReadFrom(a) = Swapped(data) /\ a.count = 2 * n
      BY <1>1, <1>7 DEF ReadFrom, HasRegs, Told
  <2> HIDE DEF n, data
  <2>3. AnswerOf(g, a) = ReadFrom(a)
      BY <1>2, <1>3, <1>4, <2>1, <2>2
  <2> QED
      BY <1>5, <1>7, <2>2, <2>3 DEF Reading
<1>8. CASE g.fn = 20
  <2>1. AnswerOf(g, a) = SwapWords(data)
      BY <1>8 DEF AnswerOf, ReadFileAns, Told
  <2>2. ReadFrom(a) = Swapped(data)
      BY <1>1, <1>8 DEF ReadFrom, HasRegs
  <2> QED
      BY <1>4, <1>5, <1>8, <2>1, <2>2 DEF Reading
<1>9. CASE g.fn = 24
  <2>1. AnswerOf(g, a) = SwapWords(SubSeq(data, 1, (a.count - 2) \div 2))
      BY <1>9 DEF AnswerOf, ReadFifoAns
  <2>2. ReadFrom(a) = Swapped(data) /\ a.count = 2 * n + 2
      BY <1>1, <1>9 DEF ReadFrom, HasRegs, Told
  <2> HIDE DEF n, data
  <2>3. a.count - 2 = 2 * n
      BY <1>1, <2>2
  <2>4. (a.count - 2) \div 2 = n
      BY <1>3, <2>3
  <2>5. AnswerOf(g, a) = ReadFrom(a)
      BY <1>2, <1>4, <2>1, <2>2, <2>4
  <2> QED
      BY <1>5, <1>9, <2>2, <2>5 DEF Reading
<1>10. CASE g.fn \notin Reading
  <2>1. AnswerOf(g, a) = <<>>
      BY <1>10 DEF AnswerOf, Reading
  <2> QED
      BY <1>1, <1>5, <1>10, <2>1 DEF ReadFrom
<1> QED
    BY <1>6, <1>7, <1>8, <1>9, <1>10 DEF Reading

-----------------------------------------------------------------------------
\* Session: the builder of a function, and what the protocol allows.
Functions == {1, 2, 3, 4, 5, 6, 15, 16, 20, 21, 22, 23, 24}
ReqFor(g) ==
    CASE g.fn \in {1, 2} -> ReadBitsReq(g)
      [] g.fn \in {3, 4} -> ReadRegsReq(g)
      [] g.fn = 5 -> WriteCoilReq(g)
      [] g.fn = 6 -> WriteRegReq(g)
      [] g.fn = 15 -> WriteCoilsReq(g)
      [] g.fn = 16 -> WriteRegsReq(g)
      [] g.fn = 20 -> ReadFileReq(g)
      [] g.fn = 21 -> WriteFileReq(g)
      [] g.fn = 22 -> MaskRegReq(g)
      [] g.fn = 23 -> ReadWriteRegsReq(g)
      [] OTHER -> ReadFifoReq(g)

\* It has room for what the protocol allows, and the server does not complain
\* about it, but for the limits of files and the length of a FIFO.
Excepted(p) ==
    \/ p.fn = 21 /\ FileBytes(p) \in {9, 251}
    \/ p.fn = 24 /\ FifoSize - p.addr > 31
Roomy(g, q) ==
    /\ q.req \in Nat /\ q.ans \in Nat
    /\ Legal(g) => /\ q.legal /\ q.req <= 252
                   /\ q.ans <= 252 /\ q.ans >= 1
                   /\ AnswerSize(InPdu(g)) <= q.ans
                   /\ Complaint(InPdu(g)) => Excepted(InPdu(g))

\* The PDU of a request is about as much as the request.
Agree(p, g) ==
    /\ g.qty \in Nat /\ g.rqty \in Nat /\ g.addr \in Nat /\ Len(g.parts) \in Nat
    /\ p.fn = g.fn /\ p.qty = g.qty /\ p.rqty = g.rqty /\ p.addr = g.addr /\ p.bytes
    /\ Len(p.parts) = Len(g.parts)
    /\ FileBytes(p) = FileBytes(g) /\ ReadBytes(p) = ReadBytes(g)
    /\ FileBytes(g) \in Nat /\ ReadBytes(g) \in Nat
    /\ g.fn = 21 => /\ WrittenBytes(p) = FileBytes(g)
                    /\ ~ \E i \in 1..Len(p.parts) : p.parts[i].qty > Len(p.parts[i].vals)
    /\ g.fn = 5 => Swap(p.vals[1]) \in {{}, {1}}

\* The server sees the quantities that were given.
LEMMA GivenFacts ==
    ASSUME NEW g, IsGiven(g)
    PROVE  Agree(InPdu(g), g)
<1> DEFINE p == InPdu(g)
<1>1. /\ g \in RequestFields /\ g.bytes /\ g.parts \in Seq(PartFields)
      /\ g.qty \in Nat /\ g.rqty \in Nat /\ g.addr \in Nat
    BY RequestFacts DEF IsGiven, IsRequest, RequestFields
<1>2. Alike(p, g) /\ IsRequest(p) /\ (g.fn = 5 => Swap(p.vals[1]) \in {{}, {1}})
    BY InPduFacts
<1>3. g.fn = 21 => \A i \in 1..Len(g.parts) : Len(g.parts[i].vals) = g.parts[i].qty
    BY <1>1 DEF IsGiven
<1> HIDE DEF p
<1>4. /\ p.parts \in Seq(PartFields) /\ Len(p.parts) = Len(g.parts)
      /\ \A i \in 1..Len(g.parts) : /\ p.parts[i].qty = g.parts[i].qty
                                    /\ Len(p.parts[i].vals) = Len(g.parts[i].vals)
    BY <1>2 DEF Alike
<1>5. /\ FileBytes(p) = FileBytes(g) /\ ReadBytes(p) = ReadBytes(g)
      /\ (\A i \in 1..Len(g.parts) : Len(p.parts[i].vals) = g.parts[i].qty)
            => WrittenBytes(p) = FileBytes(g)
    BY <1>1, <1>4, SumsAgree
<1>6. FileBytes(g) \in Nat /\ ReadBytes(g) \in Nat
    BY <1>1, SumsAreNats
<1>7. \A i \in 1..Len(p.parts) : p.parts[i].qty \in Nat
    BY <1>2, MeantParts
<1>8. g.fn = 21 => /\ \A i \in 1..Len(g.parts) : Len(p.parts[i].vals) = g.parts[i].qty
                   /\ ~ \E i \in 1..Len(p.parts) : p.parts[i].qty > Len(p.parts[i].vals)
    BY <1>3, <1>4, <1>7
<1>9. /\ p.fn = g.fn /\ p.qty = g.qty /\ p.rqty = g.rqty /\ p.addr = g.addr /\ p.bytes
    BY <1>1, <1>2 DEF Alike
<1>10. Agree(p, g)
    BY <1>1, <1>2, <1>4, <1>5, <1>6, <1>8, <1>9 DEF Agree
<1> QED
    BY <1>10 DEF p

\* A request that is built, answered and not complained of.
LEMMA BuiltRoomy ==
    ASSUME NEW g, NEW n \in Nat, NEW a \in Nat, NEW legal,
           Legal(g) => /\ legal /\ n <= 252 /\ a <= 252 /\ a >= 1
                       /\ AnswerSize(InPdu(g)) <= a
                       /\ Complaint(InPdu(g)) => Excepted(InPdu(g))
    PROVE  Roomy(g, Request(n, a, legal))
<1> DEFINE q == Request(n, a, legal)
<1>1. q.req = n /\ q.ans = a
    BY DEF Request
<1>2. q.legal = legal
    BY Zenon DEF Request
<1> HIDE DEF q
<1>3. Roomy(g, q)
    BY <1>1, <1>2 DEF Roomy
<1> QED
    BY <1>3 DEF q

\* The same limits as inequalities.
LEMMA InRange ==
    ASSUME NEW k \in Nat, NEW limit \in Nat
    PROVE  k \in 1..limit <=> 1 <= k /\ k <= limit
OBVIOUS

\* Eight bits to a byte.
LEMMA BytesFit ==
    ASSUME NEW k \in Nat
    PROVE  /\ (k + 7) \div 8 \in Nat
           /\ k <= 2000 => (k + 7) \div 8 <= 250
           /\ k <= 1968 => (k + 7) \div 8 <= 246
OBVIOUS

\* Each builder makes room: functions 1 and 2.
LEMMA ReadBitsRoomy ==
    ASSUME NEW g, IsGiven(g), g.fn \in {1, 2}
    PROVE  Roomy(g, ReqFor(g))
<1> DEFINE p == InPdu(g)
           k == g.qty
           legal == k \in 1..2000
           n == 4
           a == IF legal THEN 1 + (k + 7) \div 8 ELSE Einval
<1>1. Agree(p, g)
    BY GivenFacts
<1> HIDE DEF p
<1>2. k \in Nat /\ p.fn = g.fn /\ p.qty = k /\ p.bytes
    BY <1>1 DEF Agree
<1>3. ReqFor(g) = ReadBitsReq(g)
    BY DEF ReqFor
<1>4. ReadBitsReq(g) = Request(n, a, legal)
    BY DEF ReadBitsReq, BytesOf
<1>5. Legal(g) => legal
    <2>1. CASE g.fn = 1
        BY <2>1 DEF Legal
    <2>2. CASE g.fn = 2
        BY <2>2 DEF Legal
    <2> QED
        BY <2>1, <2>2
<1>6. AnswerSize(p) = 1 + (k + 7) \div 8
    BY <1>2 DEF AnswerSize
<1>7. Complaint(p) => ~(1 <= k /\ k <= 2000)
    BY <1>2 DEF Complaint
<1>8. legal <=> 1 <= k /\ k <= 2000
    <2> DEFINE limit == 2000
    <2>1. limit \in Nat
        OBVIOUS
    <2> HIDE DEF limit
    <2>2. k \in 1..limit <=> 1 <= k /\ k <= limit
        BY <1>2, <2>1, InRange
    <2> QED
        BY <2>2 DEF limit
<1> HIDE DEF legal, k
<1>9. n \in Nat /\ a \in Nat /\ (legal => n <= 252 /\ a <= 252 /\ a >= 1 /\ 1 + (k + 7) \div 8 <= a)
    BY <1>2, <1>8, BytesFit, SMT DEF Einval
<1> HIDE DEF n, a
<1>10. Roomy(g, Request(n, a, legal))
    BY <1>5, <1>6, <1>7, <1>8, <1>9, BuiltRoomy DEF p
<1> QED
    BY <1>3, <1>4, <1>10

\* Functions 3 and 4.
LEMMA ReadRegsRoomy ==
    ASSUME NEW g, IsGiven(g), g.fn \in {3, 4}
    PROVE  Roomy(g, ReqFor(g))
<1> DEFINE p == InPdu(g)
           k == g.qty
           legal == k \in 1..125
           n == 4
           a == IF legal THEN 1 + 2 * k ELSE Einval
<1>1. Agree(p, g)
    BY GivenFacts
<1> HIDE DEF p
<1>2. k \in Nat /\ p.fn = g.fn /\ p.qty = k /\ p.bytes
    BY <1>1 DEF Agree
<1>3. ReqFor(g) = ReadRegsReq(g)
    BY DEF ReqFor
<1>4. ReadRegsReq(g) = Request(n, a, legal)
    BY DEF ReadRegsReq, BytesOf
<1>5. Legal(g) => legal
    BY DEF Legal
<1>6. AnswerSize(p) = 1 + 2 * k
    BY <1>2 DEF AnswerSize
<1>7. Complaint(p) => ~(1 <= k /\ k <= 125)
    BY <1>2 DEF Complaint
<1>8. legal <=> 1 <= k /\ k <= 125
    <2> DEFINE limit == 125
    <2>1. limit \in Nat
        OBVIOUS
    <2> HIDE DEF limit
    <2>2. k \in 1..limit <=> 1 <= k /\ k <= limit
        BY <1>2, <2>1, InRange
    <2> QED
        BY <2>2 DEF limit
<1> HIDE DEF legal, k
<1>9. n \in Nat /\ a \in Nat /\ (legal => n <= 252 /\ a <= 252 /\ a >= 1 /\ 1 + 2 * k <= a)
    BY <1>2, <1>8, SMT DEF Einval
<1> HIDE DEF n, a
<1>10. Roomy(g, Request(n, a, legal))
    BY <1>5, <1>6, <1>7, <1>8, <1>9, BuiltRoomy DEF p
<1> QED
    BY <1>3, <1>4, <1>10

\* Function 15.
LEMMA WriteCoilsRoomy ==
    ASSUME NEW g, IsGiven(g), g.fn = 15
    PROVE  Roomy(g, ReqFor(g))
<1> DEFINE p == InPdu(g)
           k == g.qty
           legal == k \in 1..1968
           n == IF legal THEN 5 + (k + 7) \div 8 ELSE Einval
           a == 4
<1>1. Agree(p, g)
    BY GivenFacts
<1> HIDE DEF p
<1>2. k \in Nat /\ p.fn = g.fn /\ p.qty = k /\ p.bytes
    BY <1>1 DEF Agree
<1>3. ReqFor(g) = WriteCoilsReq(g)
    BY DEF ReqFor
<1>4. WriteCoilsReq(g) = Request(n, a, legal)
    BY DEF WriteCoilsReq, BytesOf
<1>5. Legal(g) => legal
    BY DEF Legal
<1>6. AnswerSize(p) = 4
    BY <1>2 DEF AnswerSize
<1>7. Complaint(p) => ~(1 <= k /\ k <= 1968)
    BY <1>2 DEF Complaint
<1>8. legal <=> 1 <= k /\ k <= 1968
    <2> DEFINE limit == 1968
    <2>1. limit \in Nat
        OBVIOUS
    <2> HIDE DEF limit
    <2>2. k \in 1..limit <=> 1 <= k /\ k <= limit
        BY <1>2, <2>1, InRange
    <2> QED
        BY <2>2 DEF limit
<1> HIDE DEF legal, k
<1>9. n \in Nat /\ a \in Nat /\ (legal => n <= 252 /\ a <= 252 /\ a >= 1 /\ 4 <= a)
    BY <1>2, <1>8, BytesFit, SMT DEF Einval
<1> HIDE DEF n, a
<1>10. Roomy(g, Request(n, a, legal))
    BY <1>5, <1>6, <1>7, <1>8, <1>9, BuiltRoomy DEF p
<1> QED
    BY <1>3, <1>4, <1>10

\* Function 16.
LEMMA WriteRegsRoomy ==
    ASSUME NEW g, IsGiven(g), g.fn = 16
    PROVE  Roomy(g, ReqFor(g))
<1> DEFINE p == InPdu(g)
           k == g.qty
           legal == k \in 1..123
           n == 5 + 2 * k
           a == 4
<1>1. Agree(p, g)
    BY GivenFacts
<1> HIDE DEF p
<1>2. k \in Nat /\ p.fn = g.fn /\ p.qty = k /\ p.bytes
    BY <1>1 DEF Agree
<1>3. ReqFor(g) = WriteRegsReq(g)
    BY DEF ReqFor
<1>4. WriteRegsReq(g) = Request(n, a, legal)
    BY DEF WriteRegsReq, BytesOf
<1>5. Legal(g) => legal
    BY DEF Legal
<1>6. AnswerSize(p) = 4
    BY <1>2 DEF AnswerSize
<1>7. Complaint(p) => ~(1 <= k /\ k <= 123)
    BY <1>2 DEF Complaint
<1>8. legal <=> 1 <= k /\ k <= 123
    <2> DEFINE limit == 123
    <2>1. limit \in Nat
        OBVIOUS
    <2> HIDE DEF limit
    <2>2. k \in 1..limit <=> 1 <= k /\ k <= limit
        BY <1>2, <2>1, InRange
    <2> QED
        BY <2>2 DEF limit
<1> HIDE DEF legal, k
<1>9. n \in Nat /\ a \in Nat /\ (legal => n <= 252 /\ a <= 252 /\ a >= 1 /\ 4 <= a)
    BY <1>2, <1>8, SMT DEF Einval
<1> HIDE DEF n, a
<1>10. Roomy(g, Request(n, a, legal))
    BY <1>5, <1>6, <1>7, <1>8, <1>9, BuiltRoomy DEF p
<1> QED
    BY <1>3, <1>4, <1>10

\* Function 23.
LEMMA ReadWriteRegsRoomy ==
    ASSUME NEW g, IsGiven(g), g.fn = 23
    PROVE  Roomy(g, ReqFor(g))
<1> DEFINE p == InPdu(g)
           q == ReqFor(g)
           n == 9 + 2 * g.qty
           a == 1 + 2 * g.rqty
           legal == g.rqty \in 1..125 /\ g.qty \in 1..121
<1>1. Agree(p, g)
    BY GivenFacts
<1> HIDE DEF p
<1>2. /\ g.qty \in Nat /\ g.rqty \in Nat /\ p.fn = g.fn /\ p.qty = g.qty /\ p.rqty = g.rqty
      /\ p.addr = g.addr /\ p.bytes
    BY <1>1 DEF Agree
<1>3. q = ReadWriteRegsReq(g)
    BY DEF ReqFor
<1>4. q = Request(n, a, legal)
    BY <1>3 DEF ReadWriteRegsReq
<1> HIDE DEF q
<1>5. Legal(g) => legal
    BY DEF Legal
<1>6. AnswerSize(p) = a /\ (Complaint(p) => ~legal)
    BY <1>2 DEF AnswerSize, Complaint
<1>7. n \in Nat /\ a \in Nat /\ a >= 1 /\ (legal => n <= 252 /\ a <= 252)
    BY <1>2
<1> HIDE DEF n, a, legal
<1>8. Roomy(g, q)
    BY <1>4, <1>5, <1>6, <1>7 DEF Roomy, Request, p
<1> QED
    BY <1>8 DEF q

\* Functions 5, 6 and 22.
LEMMA WriteOneRoomy ==
    ASSUME NEW g, IsGiven(g), g.fn \in {5, 6, 22}
    PROVE  Roomy(g, ReqFor(g))
<1> DEFINE p == InPdu(g)
           n == IF g.fn = 22 THEN 6 ELSE 4
<1>1. Agree(p, g)
    BY GivenFacts
<1> HIDE DEF p
<1>2. p.fn = g.fn /\ (g.fn = 5 => Swap(p.vals[1]) \in {{}, {1}})
    BY <1>1 DEF Agree
<1>3. ReqFor(g) = Request(n, n, TRUE)
    <2>1. CASE g.fn = 5
        BY <2>1 DEF ReqFor, WriteCoilReq
    <2>2. CASE g.fn = 6
        BY <2>2 DEF ReqFor, WriteRegReq
    <2>3. CASE g.fn = 22
        BY <2>3 DEF ReqFor, MaskRegReq
    <2> QED
        BY <2>1, <2>2, <2>3
<1>4. AnswerSize(p) = n
    BY <1>2 DEF AnswerSize
<1>5. ~Complaint(p)
    BY <1>2 DEF Complaint
<1>6. n \in Nat /\ n <= 252 /\ n >= 1
    OBVIOUS
<1> HIDE DEF n
<1> DEFINE legal == TRUE
<1>7. legal /\ ~Complaint(InPdu(g)) /\ AnswerSize(InPdu(g)) <= n
    BY <1>4, <1>5, <1>6 DEF p
<1> HIDE DEF legal
<1>8. Roomy(g, Request(n, n, legal))
    BY <1>6, <1>7, BuiltRoomy
<1> QED
    BY <1>3, <1>8 DEF legal

\* Function 20.
LEMMA ReadFileRoomy ==
    ASSUME NEW g, IsGiven(g), g.fn = 20
    PROVE  Roomy(g, ReqFor(g))
<1> DEFINE p == InPdu(g)
           q == ReqFor(g)
           k == Len(g.parts)
           b == ReadBytes(g)
           legal == 7 <= 7 * k /\ 7 * k <= 245
<1>1. Agree(p, g)
    BY GivenFacts
<1> HIDE DEF p
<1>2. p.fn = g.fn /\ Len(p.parts) = k /\ ReadBytes(p) = b /\ k \in Nat /\ b \in Nat
    BY <1>1 DEF Agree
<1>3. q = ReadFileReq(g)
    BY DEF ReqFor
<1> HIDE DEF q
<1>4. q = Request(1 + 7 * k, 1 + b, TRUE)
  <2> DEFINE sum == Sum(g.parts, LAMBDA s : 2 + 2 * s.qty)
  <2>1. ReadFileReq(g) = Request(1 + 7 * k, 1 + sum, TRUE)
      BY DEF ReadFileReq
  <2>2. sum = b
      BY DEF ReadBytes
  <2> HIDE DEF sum, b
  <2> QED
      BY <1>3, <2>1, <2>2
<1> HIDE DEF b
<1>5. Legal(g) => legal /\ b <= 245
    <2> SUFFICES ASSUME Legal(g)
                 PROVE  legal /\ b <= 245
        OBVIOUS
    <2>1. 7 * Len(g.parts) \in 7..245 /\ ReadBytes(g) <= 245
        BY DEF Legal
    <2> DEFINE m == 7 * Len(g.parts)
    <2>2. m \in 7..245
        BY <2>1
    <2> HIDE DEF m
    <2>3. 7 <= m /\ m <= 245
        BY <2>2
    <2>4. b <= 245
        BY <2>1 DEF b
    <2> QED
        BY <2>3, <2>4 DEF m
<1>6. AnswerSize(p) = 1 + b
    BY <1>2 DEF AnswerSize
<1>7. Complaint(p) => ~legal
    BY <1>2 DEF Complaint
<1> HIDE DEF k
<1> DEFINE true == TRUE
           n == 1 + 7 * k
           m == 1 + b
<1>8. /\ n \in Nat /\ m \in Nat /\ m >= 1 /\ true /\ AnswerSize(InPdu(g)) = m
      /\ Legal(g) => n <= 252 /\ m <= 252
    BY <1>2, <1>5, <1>6 DEF p
<1>9. Legal(g) => ~Complaint(InPdu(g))
    BY <1>5, <1>7 DEF p
<1> HIDE DEF true, n, m
<1>10. Roomy(g, Request(n, m, true))
    BY <1>8, <1>9, BuiltRoomy
<1> QED
    BY <1>4, <1>10 DEF q, n, m, true

\* Function 21.
LEMMA WriteFileRoomy ==
    ASSUME NEW g, IsGiven(g), g.fn = 21
    PROVE  Roomy(g, ReqFor(g))
<1> DEFINE p == InPdu(g)
           q == ReqFor(g)
           b == FileBytes(g)
<1>1. Agree(p, g)
    BY GivenFacts
<1> HIDE DEF p
<1>2. /\ p.fn = g.fn /\ FileBytes(p) = b /\ b \in Nat /\ WrittenBytes(p) = b
      /\ ~ \E i \in 1..Len(p.parts) : p.parts[i].qty > Len(p.parts[i].vals)
    BY <1>1 DEF Agree
<1>3. q = WriteFileReq(g)
    BY DEF ReqFor
<1> HIDE DEF q
<1>4. q = Request(1 + b, 1 + b, TRUE)
  <2> DEFINE sum == Sum(g.parts, LAMBDA s : 7 + 2 * s.qty)
  <2>1. WriteFileReq(g) = Request(1 + sum, 1 + sum, TRUE)
      BY DEF WriteFileReq
  <2>2. sum = b
      BY DEF FileBytes
  <2> HIDE DEF sum, b
  <2> QED
      BY <1>3, <2>1, <2>2
<1> HIDE DEF b
<1>5. Legal(g) => b \in 9..251
    BY DEF Legal, b
<1>6. AnswerSize(p) = 1 + b
    BY <1>2 DEF AnswerSize
<1>7. Complaint(p) => ~(9 < b /\ b < 251)
    BY <1>2 DEF Complaint
<1>8. Legal(g) /\ Complaint(p) => Excepted(p)
    BY <1>2, <1>5, <1>7 DEF Excepted
<1> DEFINE legal == TRUE
           n == 1 + b
<1>9. n \in Nat /\ n >= 1 /\ legal /\ AnswerSize(InPdu(g)) = n
    BY <1>2, <1>6 DEF p
<1>10. Legal(g) => n <= 252
  <2> SUFFICES ASSUME b \in 9..251 PROVE n <= 252
      BY <1>5
  <2> QED
      OBVIOUS
<1> HIDE DEF legal, n
<1>11. Legal(g) => /\ legal /\ n <= 252 /\ n <= 252 /\ n >= 1
                   /\ AnswerSize(InPdu(g)) <= n
                   /\ Complaint(InPdu(g)) => Excepted(InPdu(g))
    BY <1>8, <1>9, <1>10 DEF p
<1>12. Roomy(g, Request(n, n, legal))
    BY <1>9, <1>11, BuiltRoomy
<1> QED
    BY <1>4, <1>12 DEF q, n, legal

\* Function 24.
LEMMA ReadFifoRoomy ==
    ASSUME NEW g, IsGiven(g), g.fn = 24
    PROVE  Roomy(g, ReqFor(g))
<1> DEFINE p == InPdu(g)
           q == ReqFor(g)
<1>1. Agree(p, g)
    BY GivenFacts
<1> HIDE DEF p
<1>2. p.fn = g.fn
    BY <1>1 DEF Agree
<1>3. q = ReadFifoReq(g)
    BY DEF ReqFor
<1>4. q = Request(2, 66, TRUE)
    BY <1>3 DEF ReadFifoReq
<1> HIDE DEF q
<1>5. AnswerSize(p) = 66 /\ (Complaint(p) => Excepted(p))
    BY <1>2 DEF AnswerSize, Complaint, Excepted
<1>6. Roomy(g, q)
    BY <1>4, <1>5 DEF Roomy, Request, p
<1> QED
    BY <1>6 DEF q

\* Every function.
LEMMA RequestRoomy ==
    ASSUME NEW g, IsGiven(g), g.fn \in Functions
    PROVE  Roomy(g, ReqFor(g))
BY ReadBitsRoomy, ReadRegsRoomy, WriteOneRoomy, WriteCoilsRoomy, WriteRegsRoomy, ReadFileRoomy,
   WriteFileRoomy, ReadWriteRegsRoomy, ReadFifoRoomy DEF Functions

-----------------------------------------------------------------------------
\* Session: its invariant.
\*
\* What is known while a call is under way, and of its answer.
Underway(q) ==
    /\ call \in menu /\ Given(call).fn \in Functions
    /\ built <=> q.legal /\ q.req <= MaxSize(reqSize)
    /\ q.req <= reqSize /\ q.ans <= ansSize
    /\ built => pdu = InPdu(Given(call)) /\ pduSize = q.req
Served ==
    /\ Measured(pdu, sent)
    /\ sent # NoResponse /\ sent.code = 0 => carried
    /\ sent # NoResponse /\ sent.code = 0 /\ behind = "intact" => Told(pdu, sent)
SInv ==
    /\ Ground /\ SessionTypeOK
    /\ phase # "idle" => Underway(ReqFor(Given(call)))
    /\ phase = "served" => Served

\* The calls of an application.
LEMMA CallFacts ==
    ASSUME NEW c, c \in Calls
    PROVE  IsCall(c) /\ IsGiven(Given(c)) /\ Given(c).fn = c.r.fn
<1>1. IsCall(c)
    BY CallsAssumption DEF CallsAssumption
<1>2. IsGiven(Given(c)) /\ c.r \in RequestFields /\ (c.do # "plain" => c.r.fn = 22)
    BY <1>1 DEF IsCall
<1>3. CASE c.do = "plain"
  <2>1. Given(c) = c.r
      BY <1>3, Zenon DEF Given
  <2> QED
      BY <1>1, <1>2, <2>1
<1>4. CASE c.do # "plain"
  <2> DEFINE r == c.r
  <2>1. r.fn = 22 /\ r \in RequestFields
      BY <1>2, <1>4
  <2> HIDE DEF r
  <2>2. \A vals : [r EXCEPT !.fn = 22, !.vals = vals].fn = 22
      BY <2>1 DEF RequestFields
  <2>3. Given(c).fn = 22
      BY <2>1, <2>2, Zenon DEF Given, r
  <2> QED
      BY <1>1, <1>2, <1>4, <2>3
<1> QED
    BY <1>1, <1>2, <1>3, <1>4

\* An application makes the calls there are.
LEMMA MenuFacts == ASSUME SessionTypeOK, NEW c \in menu PROVE c \in Calls
BY DEF SessionTypeOK, Calls

\* The request in the PDU is one that the server takes.
LEMMA PduFacts ==
    ASSUME SessionTypeOK PROVE IsRequest(pdu)
<1>1. CASE pdu = Blank
  <2>1. /\ Blank.fn = 0 /\ Blank.vals = <<>> /\ Blank.parts = <<>> /\ Blank.rqty = 0
        /\ Blank \in RequestFields
      BY DEF Blank, RequestFields
  <2> QED
      BY <1>1, <2>1 DEF IsRequest
<1>2. CASE pdu # Blank
  <2>1. PICK c \in menu : pdu = InPdu(Given(c))
      BY <1>2 DEF SessionTypeOK
  <2>2. IsGiven(Given(c))
      BY MenuFacts, CallFacts
  <2> QED
      BY <2>1, <2>2, InPduFacts
<1> QED
    BY <1>1, <1>2

\* The calls that build a request.
Calling(c) ==
    \/ CallReadBits(c) \/ CallWriteCoil(c) \/ CallWriteCoils(c)
    \/ CallReadRegs(c) \/ CallWriteReg(c) \/ CallWriteRegs(c)
    \/ CallReadWriteRegs(c) \/ CallMaskReg(c)
    \/ CallReadFile(c) \/ CallWriteFile(c) \/ CallReadFifo(c)
\* Each has the builder of its function.
LEMMA CallingFacts ==
    ASSUME NEW c, c \in Calls, Calling(c)
    PROVE  /\ CallWith(c, ReqFor(Given(c))) /\ Given(c).fn \in Functions
           /\ Roomy(Given(c), ReqFor(Given(c)))
<1> DEFINE g == Given(c)
<1>1. IsGiven(g) /\ g.fn = c.r.fn
    BY CallFacts
<1>2. g.fn \in Functions
    BY <1>1 DEF Functions, Calling, CallReadBits, CallWriteCoil, CallWriteCoils, CallReadRegs,
                CallWriteReg, CallWriteRegs, CallReadWriteRegs, CallMaskReg, CallReadFile,
                CallWriteFile, CallReadFifo
<1>3. Roomy(g, ReqFor(g))
    BY <1>1, <1>2, RequestRoomy
<1>4. CallWith(c, ReqFor(g))
    BY <1>1 DEF ReqFor, Calling, CallReadBits, CallWriteCoil, CallWriteCoils, CallReadRegs,
                CallWriteReg, CallWriteRegs, CallReadWriteRegs, CallMaskReg, CallReadFile,
                CallWriteFile, CallReadFifo
<1> QED
    BY <1>2, <1>3, <1>4

\* The invariant of the session holds at first.
LEMMA SessionInitInv == SessionInit => SInv
<1> SUFFICES ASSUME SessionInit PROVE SInv
    OBVIOUS
<1>1. Ground
    BY InitInv DEF SessionInit, Inv, TypeOK, Ground, StoreOK, Words
<1>2. SessionTypeOK
  <2>1. /\ menu \in Menus /\ reqSize = 0 /\ ansSize = 0 /\ pdu = Blank /\ pduSize = 0
        /\ call = NoCallYet /\ phase = "idle" /\ built = FALSE /\ carried = FALSE
        /\ result = <<>>
      BY DEF SessionInit
  <2>2. pduSize \in 0..255 /\ pduSize <= reqSize /\ reqSize \in Nat /\ ansSize \in Nat
      BY <2>1
  <2> QED
      BY <2>1, <2>2 DEF SessionTypeOK
<1> QED
    BY <1>1, <1>2 DEF SessionInit, SInv

\* A step that leaves the server alone.
LEMMA GroundStays == ASSUME Ground, UNCHANGED vars PROVE Ground'
BY DEF Ground, vars, StoreOK, Words

\* A buffer that grows by a request.
LEMMA ResizedFacts ==
    ASSUME NEW size \in Nat, NEW n \in Nat
    PROVE  /\ Resized(size, n) \in Nat /\ Resized(size, n) >= size /\ Resized(size, n) >= n
           /\ MaxSize(size) \in 0..255 /\ MaxSize(size) <= size
           /\ size < 256 => MaxSize(size) = size
           /\ size < 256 /\ n < 256 => Resized(size, n) < 256
BY 2^8 = 256 DEF Resized, MaxSize

\* What a request that was made, or not, leaves in the transaction.
Rebuilt(c, q) ==
    /\ reqSize' \in Nat /\ ansSize' \in Nat
    /\ q.req <= reqSize' /\ q.ans <= ansSize'
    /\ built' <=> q.legal /\ q.req <= MaxSize(reqSize')
    /\ built' \in BOOLEAN
    /\ built' => pdu' = InPdu(Given(c)) /\ pduSize' = q.req
    /\ pdu' = pdu \/ pdu' = InPdu(Given(c))
    /\ pduSize' \in 0..255 /\ pduSize' <= reqSize'
\* That is what build_req does.
LEMMA BuildReqFacts ==
    ASSUME SessionTypeOK, NEW c \in menu, NEW q, q.req \in Nat, q.ans \in Nat, BuildReq(c, q)
    PROVE  Rebuilt(c, q)
<1> DEFINE n == q.req
           m == q.ans
<1>1. n \in Nat /\ m \in Nat /\ reqSize \in Nat /\ ansSize \in Nat
      /\ pduSize \in 0..255 /\ pduSize <= reqSize
    BY DEF SessionTypeOK
<1>2. /\ reqSize' = Resized(reqSize, n) /\ ansSize' = Resized(ansSize, m)
      /\ built' = (q.legal /\ n <= MaxSize(reqSize'))
      /\ IF built' THEN pdu' = InPdu(Given(c)) /\ pduSize' = n
                   ELSE pdu' = pdu /\ pduSize' = pduSize
    BY DEF BuildReq
<1> HIDE DEF n, m
<1>3. /\ reqSize' \in Nat /\ ansSize' \in Nat /\ n <= reqSize' /\ m <= ansSize'
      /\ reqSize <= reqSize'
    BY <1>1, <1>2, ResizedFacts
<1>4. MaxSize(reqSize') \in 0..255
    BY <1>3, ResizedFacts
<1>5. CASE built'
  <2>1. n <= MaxSize(reqSize') /\ pdu' = InPdu(Given(c)) /\ pduSize' = n
      BY <1>2, <1>5
  <2>2. pduSize' \in 0..255 /\ pduSize' <= reqSize'
      BY <1>1, <1>3, <1>4, <2>1
  <2> QED
      BY <1>2, <1>3, <1>5, <2>1, <2>2 DEF Rebuilt, n, m
<1>6. CASE ~built'
  <2>1. pdu' = pdu /\ pduSize' = pduSize
      BY <1>2, <1>6
  <2>2. pduSize' \in 0..255 /\ pduSize' <= reqSize'
      BY <1>1, <1>3, <2>1
  <2> QED
      BY <1>1, <1>2, <1>3, <1>6, <2>1, <2>2 DEF Rebuilt, n, m
<1> QED
    BY <1>5, <1>6

\* A call keeps the invariant.
LEMMA CallStep ==
    ASSUME SInv, NEW c \in menu, Calling(c) PROVE SInv'
<1> DEFINE q == ReqFor(Given(c))
<1>1. Ground /\ SessionTypeOK /\ c \in Calls
    BY MenuFacts DEF SInv
<1>2. CallWith(c, q) /\ Given(c).fn \in Functions /\ q.req \in Nat /\ q.ans \in Nat
    BY <1>1, CallingFacts DEF Roomy
<1> HIDE DEF q
<1>3. /\ phase = "idle" /\ menu \in Menus /\ phase \in {"idle", "sent", "served"}
      /\ built \in BOOLEAN /\ carried \in BOOLEAN /\ reqSize \in Nat /\ ansSize \in Nat
      /\ pduSize \in 0..255 /\ pduSize <= reqSize
      /\ pdu \in {Blank} \cup {InPdu(Given(d)) : d \in menu}
    BY <1>1, <1>2 DEF CallWith, SessionTypeOK
<1>4. CASE Call(c, q)
  <2>1. /\ BuildReq(c, q) /\ phase' = "sent" /\ call' = c /\ carried' = FALSE /\ result' = <<>>
        /\ menu' = menu /\ UNCHANGED vars
      BY <1>4 DEF Call
  <2>2. Rebuilt(c, q)
      BY <1>1, <1>2, <2>1, BuildReqFacts
  <2>3. pdu' \in ({Blank} \cup {InPdu(Given(d)) : d \in menu})'
      BY <1>3, <2>1, <2>2 DEF Rebuilt
  <2>4. SessionTypeOK'
      BY <1>3, <2>1, <2>2, <2>3 DEF SessionTypeOK, Rebuilt
  <2>5. Underway(q)'
      BY <1>1, <1>2, <2>1, <2>2 DEF Underway, Rebuilt, q
  <2> QED
      BY <1>1, <2>1, <2>4, <2>5, GroundStays DEF SInv, q
<1>5. CASE CallRefused(c, q)
  <2>1. /\ BuildReq(c, q) /\ phase' = phase /\ call' = c /\ carried' = carried /\ result' = <<>>
        /\ menu' = menu /\ UNCHANGED vars
      BY <1>5 DEF CallRefused
  <2>2. Rebuilt(c, q)
      BY <1>1, <1>2, <2>1, BuildReqFacts
  <2>3. pdu' \in ({Blank} \cup {InPdu(Given(d)) : d \in menu})'
      BY <1>3, <2>1, <2>2 DEF Rebuilt
  <2>4. SessionTypeOK'
      BY <1>3, <2>1, <2>2, <2>3 DEF SessionTypeOK, Rebuilt
  <2> QED
      BY <1>1, <1>3, <2>1, <2>4, GroundStays DEF SInv
<1>6. CASE CallBadAlloc(c, q)
  <2>1. /\ reqSize' = reqSize \/ reqSize' = Resized(reqSize, q.req)
        /\ call' = c /\ built' = FALSE /\ result' = <<>> /\ menu' = menu /\ pdu' = pdu
        /\ pduSize' = pduSize /\ ansSize' = ansSize /\ phase' = phase /\ carried' = carried
        /\ UNCHANGED vars
      BY <1>6 DEF CallBadAlloc
  <2>2. reqSize' \in Nat /\ pduSize' <= reqSize'
    <3> DEFINE n == q.req
    <3>1. n \in Nat /\ (reqSize' = reqSize \/ reqSize' = Resized(reqSize, n))
        BY <1>2, <2>1
    <3> HIDE DEF n
    <3>2. Resized(reqSize, n) \in Nat /\ reqSize <= Resized(reqSize, n)
        BY <1>3, <3>1, ResizedFacts
    <3> QED
        BY <1>3, <2>1, <3>1, <3>2
  <2>3. SessionTypeOK'
      BY <1>3, <2>1, <2>2 DEF SessionTypeOK
  <2> QED
      BY <1>1, <1>3, <2>1, <2>3, GroundStays DEF SInv
<1> QED
    BY <1>2, <1>4, <1>5, <1>6 DEF CallWith

\* A request that arrives keeps it: the answer is measured.
LEMMA ArrivesStep == ASSUME SInv, RequestArrives PROVE SInv'
<1>1. Ground /\ SessionTypeOK /\ IsRequest(pdu) /\ phase = "sent" /\ Underway(ReqFor(Given(call)))
    BY PduFacts DEF SInv, RequestArrives
<1>2. /\ Receive(pdu) /\ phase' = "served"
      /\ carried' \in BOOLEAN /\ (sent' # NoResponse /\ sent'.code = 0 => carried')
      /\ UNCHANGED <<menu, transaction, call, built, result>>
    BY DEF RequestArrives
<1>3. AsPromised(pdu)
    BY <1>1, <1>2, ReceiveStep
<1>4. Measured(pdu, sent')
    BY <1>1, <1>2, ReceiveMeasured
<1>5. behind' = "intact" => behind = "intact" /\ Sound(pdu, sent') /\ Kept(pdu)
    BY <1>3 DEF AsPromised, Overrun
<1>9. sent' # NoResponse /\ sent'.code = 0 /\ behind' = "intact" => Told(pdu, sent')
    BY <1>1, <1>4, <1>5, AnswerTold
<1>6. SessionTypeOK'
    BY <1>1, <1>2, <1>5 DEF SessionTypeOK, transaction
<1>7. Underway(ReqFor(Given(call)))'
    BY <1>1, <1>2 DEF Underway, transaction
<1>8. Served'
    BY <1>2, <1>4, <1>9 DEF Served, transaction
<1> QED
    BY <1>2, <1>3, <1>6, <1>7, <1>8 DEF SInv, AsPromised

\* What a call returns.
LEMMA AnsweredFacts ==
    ASSUME SInv, phase = "served", sent # NoResponse, sent.code = 0, built, behind = "intact"
    PROVE  /\ carried /\ AnswerOf(Given(call), sent) \in Seq(Word)
           /\ AnswerOf(Given(call), sent) = IF Given(call).fn \in Reading THEN ReadFrom(sent)
                                            ELSE <<>>
<1> DEFINE g == Given(call)
<1>1. /\ call \in Calls /\ pdu = InPdu(g) /\ carried /\ Told(pdu, sent)
    BY MenuFacts DEF SInv, Underway, Served
<1>2. IsGiven(g) /\ IsRequest(pdu)
    BY <1>1, CallFacts, PduFacts DEF SInv
<1>3. pdu.fn = g.fn /\ pdu.qty = g.qty
    BY <1>1, <1>2, InPduFacts DEF Alike
<1> HIDE DEF g
<1>4. /\ g.fn \in Reading => AnswerOf(g, sent) = ReadFrom(sent)
      /\ g.fn \notin Reading => AnswerOf(g, sent) = <<>>
      /\ ReadFrom(sent) \in Seq(Word)
    BY <1>1, <1>2, <1>3, AccessorsRead
<1>5. <<>> \in Seq(Word)
    OBVIOUS
<1> QED
    BY <1>1, <1>4, <1>5 DEF g

\* So does the end of a call, and a call that is not sent.
LEMMA OtherSteps ==
    ASSUME SInv, Timeout \/ AnswerFails \/ Answered \/ (\E c \in menu : ReadFifoOfProxy(c))
                 \/ UNCHANGED allVars
    PROVE  SInv'
<1>1. Ground /\ SessionTypeOK
    BY DEF SInv
<1>2. CASE Timeout
    BY <1>1, <1>2, GroundStays DEF Timeout, SInv, SessionTypeOK, transaction, vars
<1>3. CASE AnswerFails
    BY <1>1, <1>3, GroundStays DEF AnswerFails, SInv, SessionTypeOK, transaction, vars
<1>4. CASE Answered
  <2> DEFINE read == IF built THEN AnswerOf(Given(call), sent) ELSE <<>>
  <2>1. behind = "intact" => read \in Seq(Word)
    <3>1. <<>> \in Seq(Word)
        OBVIOUS
    <3> QED
        BY <1>4, <3>1, AnsweredFacts DEF Answered
  <2>2. result' = <<read>> /\ phase' = "idle"
        /\ UNCHANGED <<menu, transaction, call, built, carried, vars>>
      BY <1>4 DEF Answered
  <2> HIDE DEF read
  <2>3. behind' = "intact" =>
          Len(result') = 1 /\ \A i \in DOMAIN result'[1] : result'[1][i] \in Word
      BY <2>1, <2>2 DEF vars
  <2>4. SessionTypeOK'
      BY <1>1, <2>2, <2>3 DEF SessionTypeOK, transaction
  <2> QED
      BY <1>1, <2>2, <2>4, GroundStays DEF SInv
<1>5. ASSUME NEW c \in menu, ReadFifoOfProxy(c) PROVE SInv'
  <2>1. /\ result' = << <<>> >> /\ call' = c /\ built' = FALSE /\ phase = "idle"
        /\ UNCHANGED <<menu, transaction, phase, carried, vars>>
      BY <1>5 DEF ReadFifoOfProxy
  <2>2. Len(result') = 1 /\ \A i \in DOMAIN result'[1] : result'[1][i] \in Word
      BY <2>1
  <2>3. SessionTypeOK'
      BY <1>1, <2>1, <2>2 DEF SessionTypeOK, transaction
  <2> QED
      BY <1>1, <2>1, <2>3, GroundStays DEF SInv
<1>6. CASE UNCHANGED allVars
  <2>1. UNCHANGED <<menu, reqSize, pdu, pduSize, ansSize, call, phase, built, carried, result>>
        /\ UNCHANGED vars
      BY <1>6 DEF allVars, sessionVars, transaction
  <2>2. SessionTypeOK'
      BY <1>1, <2>1 DEF SessionTypeOK, vars
  <2>3. phase # "idle" => Underway(ReqFor(Given(call)))'
      BY <2>1 DEF SInv, Underway
  <2>4. phase = "served" => Served'
      BY <2>1 DEF SInv, Served, vars
  <2> QED
      BY <1>1, <2>1, <2>2, <2>3, <2>4, GroundStays DEF SInv
<1> QED
    BY <1>2, <1>3, <1>4, <1>5, <1>6

\* Every step keeps it.
LEMMA SessionNextInv == SInv /\ [SessionNext]_allVars => SInv'
BY CallStep, ArrivesStep, OtherSteps DEF SessionNext, Calling

\* The room for an answer is a number of bytes.
LEMMA AnswerSizeIsNat ==
    ASSUME NEW r, IsRequest(r) PROVE AnswerSize(r) \in Nat
<1> DEFINE bits == (r.qty + 7) \div 8
           read == ReadBytes(r)
           written == WrittenBytes(r)
<1>1. r.qty \in Nat /\ r.rqty \in Nat /\ r.parts \in Seq(PartFields)
    BY RequestFacts DEF IsRequest, RequestFields
<1>2. bits \in Nat
    BY <1>1, BytesFit
<1>3. read \in Nat /\ written \in Nat
    BY <1>1, SumsAreNats
<1>4. AnswerSize(r) \in {1 + bits, 1 + 2 * r.qty, 1 + read, 1 + written, 6, 1 + 2 * r.rqty, 66, 4}
    BY DEF AnswerSize
<1> HIDE DEF bits, read, written
<1> QED
    BY <1>1, <1>2, <1>3, <1>4

\* What the protocol allows goes through.
LEMMA GoesThrough == SInv => LegalGoesThrough
<1> SUFFICES ASSUME SInv, phase # "idle", Legal(Given(call)), ~Spoiled
             PROVE  /\ built /\ pduSize <= TxRoom
                    /\ phase = "served" /\ sent # NoResponse /\ behind = "intact" =>
                          /\ sent.size <= MaxSize(ansSize)
                          /\ sent.code = IllegalValue =>
                                \/ pdu.fn = 21 /\ FileBytes(pdu) \in {9, 251}
                                \/ pdu.fn = 24 /\ FifoSize - pdu.addr > 31
    BY DEF LegalGoesThrough
<1> DEFINE g == Given(call)
           q == ReqFor(g)
           n == q.req
           a == q.ans
<1>1. SessionTypeOK /\ Underway(q) /\ call \in Calls
    BY MenuFacts DEF SInv, Underway
<1>2. IsGiven(g) /\ g.fn \in Functions
    BY <1>1, CallFacts DEF Underway
<1>3. /\ q.legal /\ n \in Nat /\ a \in Nat /\ n <= 252 /\ a <= 252 /\ a >= 1
      /\ AnswerSize(InPdu(g)) <= a /\ (Complaint(InPdu(g)) => Excepted(InPdu(g)))
    BY <1>2, RequestRoomy DEF Roomy
<1> HIDE DEF q, g
<1>4. reqSize \in Nat /\ ansSize \in Nat /\ reqSize < 256 /\ ansSize < 256
    BY <1>1, 2^8 = 256 DEF SessionTypeOK, Spoiled
<1>5. MaxSize(reqSize) = reqSize /\ MaxSize(ansSize) = ansSize
    BY <1>4, ResizedFacts
<1>6. n <= reqSize /\ a <= ansSize
    BY <1>1 DEF Underway
<1>7. built /\ pdu = InPdu(g) /\ pduSize = n
    BY <1>1, <1>3, <1>5, <1>6 DEF Underway, g
<1> HIDE DEF n, a
<1>8. pduSize <= TxRoom
    BY <1>3, <1>7, TxRoomAssumption DEF TxRoomAssumption
<1>9. ASSUME phase = "served", sent # NoResponse
      PROVE  /\ sent.size <= MaxSize(ansSize)
             /\ sent.code = IllegalValue => Excepted(pdu)
  <2>1. Measured(pdu, sent)
      BY <1>9 DEF SInv, Served
  <2>2. /\ sent.code = 0 => sent.size \in 0..AnswerSize(pdu)
        /\ sent.code # 0 => sent.size = 1
        /\ sent.code = IllegalValue => Complaint(pdu)
      BY <1>9, <2>1 DEF Measured
  <2>3. AnswerSize(pdu) <= a /\ (Complaint(pdu) => Excepted(pdu))
      BY <1>3, <1>7
  <2>4. CASE sent.code = 0
    <3> DEFINE size == AnswerSize(pdu)
    <3>1. size \in Nat /\ size <= a /\ sent.size \in 0..size /\ sent.code # IllegalValue
        BY <1>1, <2>2, <2>3, <2>4, PduFacts, AnswerSizeIsNat DEF IllegalValue
    <3> HIDE DEF size
    <3>2. sent.size <= ansSize
        BY <1>3, <1>4, <1>6, <3>1
    <3> QED
        BY <1>5, <3>1, <3>2
  <2>5. CASE sent.code # 0
      BY <1>3, <1>4, <1>5, <1>6, <2>2, <2>3, <2>5
  <2> QED
      BY <2>4, <2>5
<1> QED
    BY <1>7, <1>8, <1>9 DEF Excepted

\* The invariant of the session is what a run checks.
LEMMA SessionInvFollows == SInv => SessionInv
BY GoesThrough DEF SInv, SessionInv

\* Whatever calls came before, what the protocol allows is built, transmitted, and
\* has room for its answer, unless an illegal call made a buffer of 256 bytes.
THEOREM SessionInvCorrect == SessionSpec => []SessionInv
<1> QED
    BY SessionInitInv, SessionNextInv, SessionInvFollows, PTL DEF SessionSpec

\* A call that the protocol allows keeps the buffers small.
LEMMA LegalStaysSmall ==
    ASSUME SInv, NEW c \in menu, Calling(c), Legal(Given(c)), ~Spoiled
    PROVE  ~Spoiled'
<1> DEFINE q == ReqFor(Given(c))
           n == q.req
           a == q.ans
<1>1. SessionTypeOK /\ c \in Calls
    BY MenuFacts DEF SInv
<1>2. CallWith(c, q) /\ n \in Nat /\ a \in Nat /\ n <= 252 /\ a <= 252
    BY <1>1, CallingFacts DEF Roomy
<1> HIDE DEF q
<1>3. \/ reqSize' = reqSize \/ reqSize' = Resized(reqSize, n)
    BY <1>2 DEF CallWith, Call, CallRefused, CallBadAlloc, BuildReq
<1>4. \/ ansSize' = ansSize \/ ansSize' = Resized(ansSize, a)
    BY <1>2 DEF CallWith, Call, CallRefused, CallBadAlloc, BuildReq
<1> HIDE DEF n, a
<1>5. reqSize \in Nat /\ ansSize \in Nat /\ reqSize < 256 /\ ansSize < 256
    BY <1>1, 2^8 = 256 DEF SessionTypeOK, Spoiled
<1>6. Resized(reqSize, n) < 256 /\ Resized(ansSize, a) < 256
    BY <1>2, <1>5, ResizedFacts
<1>7. reqSize' < 256 /\ ansSize' < 256 /\ reqSize' \in Nat /\ ansSize' \in Nat
  <2>1. Resized(reqSize, n) \in Nat /\ Resized(ansSize, a) \in Nat
      BY <1>2, <1>5, ResizedFacts
  <2> QED
      BY <1>3, <1>4, <1>5, <1>6, <2>1
<1> QED
    BY <1>7, 2^8 = 256 DEF Spoiled

\* It takes a call the protocol does not allow to make one of 256 bytes.
LEMMA SpoilingStep ==
    ASSUME SInv, [SessionNext]_allVars, Spoiled', ~Spoiled
    PROVE  ~Legal(Given(call'))
<1>1. CASE UNCHANGED transaction
    BY <1>1 DEF transaction, Spoiled
<1>2. ASSUME NEW c \in menu, Calling(c) PROVE ~Legal(Given(call'))
  <2>1. c \in Calls /\ CallWith(c, ReqFor(Given(c)))
      BY <1>2, MenuFacts, CallingFacts DEF SInv
  <2>2. call' = c
      BY <2>1 DEF CallWith, Call, CallRefused, CallBadAlloc
  <2> QED
      BY <1>2, <2>2, LegalStaysSmall
<1>3. CASE \E c \in menu : ReadFifoOfProxy(c)
    BY <1>1, <1>3 DEF ReadFifoOfProxy
<1>4. CASE RequestArrives \/ Timeout \/ AnswerFails \/ Answered
    BY <1>1, <1>4 DEF RequestArrives, Timeout, AnswerFails, Answered
<1>5. CASE UNCHANGED allVars
    BY <1>1, <1>5 DEF allVars, sessionVars
<1> QED
    BY <1>2, <1>3, <1>4, <1>5 DEF SessionNext, Calling

\* It takes one, too, to have a server write behind its PDU, unless its FIFO does.
OverrunExcused ==
    \/ Spoiled \/ ~Legal(Given(call))
    \/ pdu.fn = 24 /\ FifoSize - pdu.addr > 124
LEMMA OverrunStep ==
    ASSUME SInv, [SessionNext]_allVars, behind' # behind, txSize = 253
    PROVE  OverrunExcused
<1>1. RequestArrives
  <2>1. ASSUME NEW c \in menu, Calling(c) PROVE UNCHANGED vars
    <3>1. c \in Calls /\ CallWith(c, ReqFor(Given(c)))
        BY <2>1, MenuFacts, CallingFacts DEF SInv
    <3> QED
        BY <3>1 DEF CallWith, Call, CallRefused, CallBadAlloc
  <2>2. (\E c \in menu : ReadFifoOfProxy(c)) \/ Timeout \/ AnswerFails \/ Answered \/ UNCHANGED allVars
           => UNCHANGED vars
      BY DEF ReadFifoOfProxy, Timeout, AnswerFails, Answered, allVars
  <2>3. ~UNCHANGED vars
      BY DEF vars
  <2> QED
      BY <2>1, <2>2, <2>3 DEF SessionNext, Calling
<1>2. Receive(pdu) /\ phase = "sent" /\ Ground /\ IsRequest(pdu) /\ SessionTypeOK
    BY <1>1, PduFacts DEF RequestArrives, SInv
<1>3. AnswerBytes(pdu) > 253
    BY <1>2, ReceiveStep DEF AsPromised, Overrun
<1>4. pdu.fn \in {20, 24}
    BY <1>3 DEF AnswerBytes
<1>5. CASE pdu.fn = 24
  <2> DEFINE count == FifoCount(pdu)
  <2>1. AnswerBytes(pdu) = 4 + 2 * count
      BY <1>5 DEF AnswerBytes
  <2>2. pdu.addr \in Nat /\ FifoSize \in Nat
      BY <1>2, RequestFacts, FifoAssumption DEF FifoAssumption
  <2>3. count \in Nat /\ (count # 0 => FifoSize - pdu.addr = count)
      BY <2>2 DEF FifoCount
  <2> HIDE DEF count
  <2>4. count > 124
      BY <1>3, <2>1, <2>3
  <2> QED
      BY <1>5, <2>3, <2>4 DEF OverrunExcused
<1>6. CASE pdu.fn = 20
  <2> SUFFICES ASSUME ~Spoiled, Legal(Given(call)) PROVE FALSE
      BY DEF OverrunExcused
  <2> DEFINE g == Given(call)
  <2>1. built
      BY <1>2, GoesThrough DEF LegalGoesThrough
  <2>2. call \in Calls /\ pdu = InPdu(g)
      BY <1>2, <2>1, MenuFacts DEF SInv, Underway
  <2>3. IsGiven(g)
      BY <2>2, CallFacts
  <2>4. pdu.fn = g.fn /\ ReadBytes(pdu) = ReadBytes(g) /\ ReadBytes(g) \in Nat
      BY <2>2, <2>3, GivenFacts DEF Agree
  <2>5. ReadBytes(g) <= 245
      BY <1>6, <2>4 DEF Legal
  <2>6. AnswerBytes(pdu) = 1 + ReadBytes(pdu)
    <3>1. AnswerBytes(pdu) = 1 + PartEnds(pdu)[Len(pdu.parts)]
        BY <1>6 DEF AnswerBytes
    <3>2. PartEnds(pdu)[Len(pdu.parts)] = ReadBytes(pdu)
        BY DEF ReadBytes, Sum, PartEnds
    <3> QED
        BY <3>1, <3>2
  <2> DEFINE b == ReadBytes(g)
  <2>7. b \in Nat /\ b <= 245 /\ 1 + b > 253
      BY <1>3, <2>4, <2>5, <2>6
  <2> HIDE DEF b
  <2> QED
      BY <2>7
<1> QED
    BY <1>4, <1>5, <1>6

\* A buffer of 256 bytes, after which anything may fail, is never the work of a
\* call that the protocol allows; nor does such a call have a server write behind
\* a PDU of 253 bytes, unless its FIFO holds more than 124 registers.
THEOREM SpoiledByIllegal == SessionSpec => OnlyIllegalSpoils
<1>1. SInv /\ [SessionNext]_allVars
        => [/\ Spoiled' /\ ~Spoiled => ~Legal(Given(call'))
            /\ behind' # behind /\ txSize = 253 => OverrunExcused]_allVars
    BY SpoilingStep, OverrunStep
<1>2. [/\ Spoiled' /\ ~Spoiled => ~Legal(Given(call'))
       /\ behind' # behind /\ txSize = 253 => OverrunExcused]_allVars
        => [/\ Spoiled' /\ ~Spoiled => ~Legal(Given(call'))
            /\ behind' # behind /\ txSize = 253 =>
                  \/ Spoiled \/ ~Legal(Given(call))
                  \/ pdu.fn = 24 /\ FifoSize - pdu.addr > 124]_allVars
    BY DEF OverrunExcused
<1> QED
    BY <1>1, <1>2, SessionInitInv, SessionNextInv, PTL DEF SessionSpec, OnlyIllegalSpoils

-----------------------------------------------------------------------------
\* Session: the promise of RemoteRegisters.
\*
\* Both sides mean the same by what a request does and what it reads.
LEMMA SameEffect == \A m, r : Remote!File!Effect(m, r) = Promise!Effect(m, r)
BY DEF Remote!File!Effect, Remote!File!Put, Remote!File!Cells, Remote!File!cellsOf,
       Remote!File!Space, Remote!File!Masked, Remote!File!Written,
       Promise!Effect, Promise!Put, Promise!Cells, Promise!cellsOf, Promise!Space,
       Promise!Masked, Promise!Written

\* And by what it reads.
LEMMA SameAnswer == \A m, r : Remote!File!Answer(m, r) = Promise!Answer(m, r)
BY DEF Remote!File!Answer, Remote!File!Get, Remote!File!Cells, Remote!File!cellsOf,
       Remote!File!Space, Remote!File!ReadCells, Remote!File!FileCells, Remote!File!FifoCells,
       Promise!Answer, Promise!Get, Promise!Cells, Promise!cellsOf, Promise!Space,
       Promise!ReadCells, Promise!FileCells, Promise!FifoCells

\* The variables of the promise.
RemoteCall == IF phase = "idle" THEN Blank ELSE Wanted(call)
RemoteDone == phase = "served" /\ carried
RemoteValue == IF phase = "served" /\ carried /\ pdu.fn \in Reading THEN Reply.data ELSE <<>>
RemoteStays == /\ Mem' = Mem /\ RemoteCall' = RemoteCall /\ (RemoteDone' <=> RemoteDone)
               /\ RemoteValue' = RemoteValue /\ result' = result

\* Nothing that was promised changes.
LEMMA RemoteStutter == RemoteStays => UNCHANGED Remote!vars
BY DEF RemoteStays, RemoteCall, RemoteDone, RemoteValue, Remote!vars

\* The actions of the promise in terms of those variables.
LEMMA RemoteBegin ==
    ASSUME RemoteCall = Blank, RemoteCall' # Blank, ~RemoteDone', RemoteValue' = <<>>,
           result' = <<>>, Mem' = Mem
    PROVE  Remote!Begin
BY DEF RemoteCall, RemoteDone, RemoteValue, Remote!Begin

\* The server carries it out.
LEMMA RemoteCarryOut ==
    ASSUME RemoteCall # Blank, ~RemoteDone, RemoteDone', Mem' = Promise!Effect(Mem, RemoteCall),
           RemoteValue' = IF RemoteCall.fn \in Reading THEN Promise!Answer(Mem', RemoteCall)
                          ELSE <<>>,
           RemoteCall' = RemoteCall, result' = result
    PROVE  Remote!CarryOut
BY SameEffect, SameAnswer
   DEF RemoteCall, RemoteDone, RemoteValue, Remote!CarryOut, Remote!Reads, Reading

\* The call returns.
LEMMA RemoteReturn ==
    ASSUME RemoteCall # Blank, RemoteDone, RemoteCall' = Blank, result' = <<RemoteValue>>,
           Mem' = Mem
    PROVE  Remote!Return
BY DEF RemoteCall, RemoteDone, RemoteValue, Remote!Return

\* The call fails.
LEMMA RemoteFail ==
    ASSUME RemoteCall' = Blank, result' = <<>>, Mem' = Mem
    PROVE  Remote!Fail
BY DEF RemoteCall, RemoteDone, RemoteValue, Remote!Fail

\* A step that leaves the server alone changes no register.
LEMMA MemStays == ASSUME UNCHANGED vars PROVE Mem' = Mem /\ Reply' = Reply
BY DEF vars, Mem, Reply

\* A call is never for nothing.
LEMMA WantedFacts ==
    ASSUME NEW c, c \in Calls, Given(c).fn \in Functions
    PROVE  Wanted(c) # Blank /\ (c.do # "and" => Wanted(c) = Given(c))
<1>1. Blank.fn = 0
    BY DEF Blank
<1>2. CASE c.do # "and"
    BY <1>1, <1>2 DEF Wanted, Functions
<1>3. CASE c.do = "and"
  <2> DEFINE r == c.r
             vals == <<c.r.vals[1], {}>>
  <2>1. r \in RequestFields
      BY CallFacts DEF IsCall
  <2>2. Wanted(c) = [r EXCEPT !.fn = 22, !.vals = vals]
      BY <1>3 DEF Wanted
  <2> HIDE DEF r, vals
  <2>3. [r EXCEPT !.fn = 22, !.vals = vals].fn = 22
      BY <2>1 DEF RequestFields
  <2>4. Wanted(c).fn = 22
      BY <2>2, <2>3
  <2> QED
      BY <1>1, <1>3, <2>4
<1> QED
    BY <1>2, <1>3

\* A call that was built begins.
LEMMA CallKept ==
    ASSUME SInv, NEW c \in menu, Calling(c), built' PROVE Remote!Begin
<1>1. c \in Calls /\ CallWith(c, ReqFor(Given(c))) /\ Given(c).fn \in Functions
    BY MenuFacts, CallingFacts DEF SInv
<1>2. /\ phase = "idle" /\ phase' = "sent" /\ call' = c /\ result' = <<>>
      /\ UNCHANGED vars
    BY <1>1 DEF CallWith, Call, CallRefused, CallBadAlloc
<1>3. Wanted(c) # Blank
    BY <1>1, WantedFacts
<1>4. RemoteCall = Blank /\ RemoteCall' = Wanted(c) /\ ~RemoteDone' /\ RemoteValue' = <<>>
    BY <1>2 DEF RemoteCall, RemoteDone, RemoteValue
<1> QED
    BY <1>2, <1>3, <1>4, MemStays, RemoteBegin

\* Only an answer that is no exception says that it was done.
LEMMA ReplyIsDone ==
    ASSUME Reply'.kind = "done" PROVE sent' # NoResponse /\ sent'.code = 0
BY DEF Reply

\* A request that arrives is carried out, or changes nothing, unless it is excused.
LEMMA ArrivesKept ==
    ASSUME SInv, RequestArrives, ~Excused PROVE Remote!CarryOut \/ UNCHANGED Remote!vars
<1> DEFINE g == Given(call)
           fn == pdu.fn
<1>1. /\ Receive(pdu) /\ phase = "sent" /\ phase' = "served"
      /\ carried' <=> \/ sent' # NoResponse /\ sent'.code = 0
                      \/ /\ pdu.to \in Broadcast /\ fn \notin Reading
                         /\ Mem' = Promise!Effect(Mem, Meant(pdu))
      /\ call' = call /\ built' = built /\ result' = result /\ pdu' = pdu
    BY DEF RequestArrives, transaction
<1>2. built /\ call.do # "and" /\ (carried' \/ ~MayTear(asked')) /\ behind' # "overwritten"
    BY <1>1 DEF Excused
<1>3. Ground /\ SessionTypeOK /\ IsRequest(pdu) /\ call \in Calls /\ pdu = InPdu(g)
      /\ g.fn \in Functions
    BY <1>1, <1>2, MenuFacts, PduFacts DEF SInv, Underway
<1>4. Kept(pdu) /\ asked' = pdu
    BY <1>1, <1>2, <1>3, ReceiveStep DEF AsPromised, Overrun
<1>5. Wanted(call) = g /\ Wanted(call) # Blank
    BY <1>2, <1>3, WantedFacts
<1>6. Meant(pdu) = g /\ fn = g.fn /\ pdu.to = g.to
  <2>1. IsGiven(g)
      BY <1>3, CallFacts
  <2> QED
      BY <1>3, <2>1, InPduFacts DEF Alike
<1> HIDE DEF g
<1>7. RemoteCall = g /\ RemoteCall' = g /\ g # Blank /\ ~RemoteDone /\ (RemoteDone' <=> carried')
    BY <1>1, <1>5 DEF RemoteCall, RemoteDone, g
<1>8. CASE carried'
  <2>1. /\ Mem' = Promise!Effect(Mem, g)
        /\ fn \in Reading => Reply'.data = Promise!Answer(Mem', g)
    <3>1. CASE sent' # NoResponse /\ sent'.code = 0
      <4>1. /\ Promise!CarryOut(g)
            /\ Reply' = Promise!Done(Promise!Effect(Mem, g), g)
          BY <1>3, <1>4, <1>6, <3>1, AnswerIs
      <4>2. Mem' = Promise!Effect(Mem, g)
          BY <4>1 DEF Promise!CarryOut
      <4> QED
          BY <4>1, <4>2 DEF Promise!Done
    <3>2. CASE ~(sent' # NoResponse /\ sent'.code = 0)
        BY <1>1, <1>6, <1>8, <3>2
    <3> QED
        BY <3>1, <3>2
  <2>2. RemoteValue' = IF g.fn \in Reading THEN Promise!Answer(Mem', g) ELSE <<>>
      BY <1>1, <1>6, <1>8, <2>1 DEF RemoteValue
  <2>3. Remote!CarryOut
      BY <1>1, <1>7, <1>8, <2>1, <2>2, RemoteCarryOut
  <2> QED
      BY <2>3
<1>9. CASE ~carried'
  <2>1. ~MayTear(pdu) /\ Promise!Receive(g)
      BY <1>2, <1>4, <1>6, <1>9 DEF Kept
  <2>2. Mem' = Mem
    <3>1. CASE Promise!Refuse(g)
        BY <3>1 DEF Promise!Refuse
    <3>2. CASE Promise!CarryOut(g)
      <4>1. /\ g.to \in Slaves /\ Mem' = Promise!Effect(Mem, g)
            /\ Promise!AnswerWith(g, Promise!Done(Promise!Effect(Mem, g), g))
          BY <3>2 DEF Promise!CarryOut
      <4>2. g.to \in Broadcast
        <5> SUFFICES ASSUME g.to \notin Broadcast PROVE FALSE
            OBVIOUS
        <5>1. Reply'.kind = "done"
            BY <4>1 DEF Promise!AnswerWith, Promise!Done
        <5> QED
            BY <1>1, <1>9, <5>1, ReplyIsDone
      <4>3. g.fn \in Reading \ {23}
          BY <1>1, <1>6, <1>9, <2>1, <4>1, <4>2 DEF MayTear
      <4>4. Promise!Effect(Mem, g) = Mem
          BY <4>3 DEF Promise!Effect, Reading
      <4> QED
          BY <4>1, <4>4
    <3> QED
        BY <2>1, <3>1, <3>2 DEF Promise!Receive
  <2>3. RemoteValue = <<>> /\ RemoteValue' = <<>>
      BY <1>1, <1>9 DEF RemoteValue
  <2>4. RemoteStays
      BY <1>1, <1>7, <1>9, <2>2, <2>3 DEF RemoteStays
  <2> QED
      BY <2>4, RemoteStutter
<1> QED
    BY <1>8, <1>9

\* An answer that arrives is returned.
LEMMA AnsweredKept ==
    ASSUME SInv, Answered, built', behind' # "overwritten" PROVE Remote!Return
<1>1. /\ phase = "served" /\ sent # NoResponse /\ sent.code = 0 /\ built /\ phase' = "idle"
      /\ result' = << AnswerOf(Given(call), sent) >> /\ UNCHANGED vars /\ behind = "intact"
    BY DEF Answered, vars, SInv, Ground
<1>2. /\ carried
      /\ AnswerOf(Given(call), sent) = IF Given(call).fn \in Reading THEN ReadFrom(sent) ELSE <<>>
    BY <1>1, AnsweredFacts
<1>3. call \in Calls /\ pdu = InPdu(Given(call)) /\ Given(call).fn \in Functions
    BY <1>1, MenuFacts DEF SInv, Underway
<1>4. pdu.fn = Given(call).fn
    BY <1>3, CallFacts, InPduFacts DEF Alike
<1>5. Reply.data = ReadFrom(sent)
    BY <1>1 DEF Reply, ReadFrom
<1>6. RemoteDone /\ RemoteCall # Blank /\ RemoteCall' = Blank
    BY <1>1, <1>2, <1>3, WantedFacts DEF RemoteDone, RemoteCall
<1>7. result' = <<RemoteValue>>
    BY <1>1, <1>2, <1>4, <1>5 DEF RemoteValue
<1> QED
    BY <1>1, <1>6, <1>7, MemStays, RemoteReturn

\* Every step is one of the promise, or excused.
LEMMA RemoteStep ==
    ASSUME SInv, [SessionNext]_allVars
    PROVE  Excused \/ Remote!Next \/ UNCHANGED Remote!vars
<1>1. ASSUME NEW c \in menu, Calling(c) PROVE Excused \/ Remote!Next
    BY <1>1, CallKept DEF Excused, Remote!Next
<1>2. CASE RequestArrives
    BY <1>2, ArrivesKept DEF Remote!Next
<1>3. CASE Timeout \/ AnswerFails
  <2>1. phase' = "idle" /\ result' = <<>> /\ UNCHANGED vars
      BY <1>3 DEF Timeout, AnswerFails
  <2>2. RemoteCall' = Blank
      BY <2>1 DEF RemoteCall
  <2> QED
      BY <2>1, <2>2, MemStays, RemoteFail DEF Remote!Next
<1>4. CASE Answered
    BY <1>4, AnsweredKept DEF Excused, Remote!Next
<1>5. ASSUME NEW c \in menu, ReadFifoOfProxy(c) PROVE Excused
    BY <1>5 DEF ReadFifoOfProxy, Excused
<1>6. CASE UNCHANGED allVars
  <2>1. /\ phase' = phase /\ call' = call /\ carried' = carried /\ pdu' = pdu /\ result' = result
        /\ UNCHANGED vars
      BY <1>6 DEF allVars, sessionVars, transaction
  <2>2. RemoteStays
      BY <2>1, MemStays DEF RemoteStays, RemoteCall, RemoteDone, RemoteValue
  <2> QED
      BY <2>2, RemoteStutter
<1> QED
    BY <1>1, <1>2, <1>3, <1>4, <1>5, <1>6 DEF SessionNext, Calling

\* At first nothing is called.
LEMMA RemoteInit == SessionInit => Remote!Init
BY DEF SessionInit, Remote!Init

\* No call of a proxy is carried out twice or in part; one that returns was
\* carried out, and returns what the registers held then.  It implements the
\* promise of RemoteRegisters but for the calls that are excused by name.
THEOREM CallsKept == SessionSpec => CallsAreKept
<1>1. SInv /\ [SessionNext]_allVars => [Excused \/ Remote!Next]_(Remote!vars)
    BY RemoteStep
<1> QED
    BY <1>1, RemoteInit, SessionInitInv, SessionNextInv, PTL DEF SessionSpec, CallsAreKept

\* Addresses are those of the protocol.
LEMMA Addresses ==
    ASSUME NEW x \in 0..(Span - 1) PROVE x \in Nat /\ x \in Int /\ 0 <= x /\ x <= 65535
<1> DEFINE n == Span - 1
<1>1. n \in Nat /\ n <= 65535
    BY DEF Span
<1>2. x \in 0..n
    OBVIOUS
<1> HIDE DEF n
<1> QED
    BY <1>1, <1>2

\* What a new object may be, its fields are.
LEMMA NewIsFields == ASSUME NEW c \in New PROVE c \in Fields /\ c.class \in Class
<1>1. c.class \in Classes
    BY DEF New
<1>2. CASE \E st \in Starts, n \in Sizes :
              c \in {Coils(st, n), DiscreteInputs(st, n), InputRegs(st, n), HoldingRegs(st, n)}
  <2>1. PICK st \in Starts, n \in Sizes :
            c \in {Coils(st, n), DiscreteInputs(st, n), InputRegs(st, n), HoldingRegs(st, n)}
      BY <1>2
  <2>2. \E k, r, w : r \in BOOLEAN /\ w \in BOOLEAN /\
            c = [class |-> k, start |-> st, size |-> n, reads |-> r, writes |-> w]
      BY <2>1 DEF Coils, DiscreteInputs, InputRegs, HoldingRegs, Fresh
  <2> QED
      BY <1>1, <2>2, ObjectAssumption DEF Fields, ObjectAssumption
<1>3. CASE \E st \in Starts : c \in {FileRecord(st), ServerAt(st)}
  <2>1. PICK st \in Starts : c \in {FileRecord(st), ServerAt(st)}
      BY <1>3
  <2>2. \E k, r, w : r \in BOOLEAN /\ w \in BOOLEAN /\
            c = [class |-> k, start |-> st, size |-> 0, reads |-> r, writes |-> w]
      BY <2>1 DEF FileRecord, ServerAt, Fresh
  <2> QED
      BY <1>1, <2>2, ObjectAssumption DEF Fields, ObjectAssumption
<1> QED
    BY <1>2, <1>3 DEF New

\* A listed object after one more was appended to its vector.
LEMMA AppendFacts ==
    ASSUME NEW S, NEW s \in Seq(S), NEW e \in S
    PROVE  /\ Append(s, e) \in Seq(S) /\ Len(Append(s, e)) = Len(s) + 1
           /\ DOMAIN Append(s, e) = 1..(Len(s) + 1) /\ DOMAIN s = 1..Len(s) /\ Len(s) \in Nat
           /\ \A i \in DOMAIN s : Append(s, e)[i] = s[i]
           /\ Append(s, e)[Len(s) + 1] = e
OBVIOUS

\* The invariant of the areas holds at first.
LEMMA AreasInitInv == AreasInit => AreasInv
<1> SUFFICES ASSUME AreasInit PROVE AreasInv
    OBVIOUS
<1>1. object \in [Object -> Fields]
    BY NewIsFields DEF AreasInit
<1>2. listed \in [Class -> Seq(Object)] /\ \A k \in Class : listed[k] = <<>>
    BY DEF AreasInit
<1>3. AreasTypeOK
    BY <1>1, <1>2, BoundAssumption DEF AreasTypeOK, AreasInit, BoundAssumption
<1>4. KeptApart
    BY <1>2 DEF KeptApart
<1> QED
    BY <1>3, <1>4 DEF AreasInv

-----------------------------------------------------------------------------
\* A registration keeps the types and keeps apart what it adds.
LEMMA AddKeepsInv == ASSUME AreasInv, NEW o \in Object, Add(o) PROVE AreasInv'
<1> DEFINE k0 == object[o].class
           old == listed[k0]
<1>1. /\ object \in [Object -> Fields] /\ listed \in [Class -> Seq(Object)]
      /\ object' = object /\ changed' = changed
      /\ listed' = [listed EXCEPT ![k0] = Append(old, o)] /\ Len(old) < MaxListed
    BY DEF AreasInv, AreasTypeOK, Add
<1>2. k0 \in Class
    BY <1>1, ObjectAssumption DEF Fields, ObjectAssumption
<1> HIDE DEF k0
<1>3. /\ old \in Seq(Object) /\ listed'[k0] = Append(old, o)
      /\ \A k \in Class : k # k0 => listed'[k] = listed[k]
    BY <1>1, <1>2
<1>4. /\ Append(old, o) \in Seq(Object) /\ Len(Append(old, o)) = Len(old) + 1
      /\ DOMAIN Append(old, o) = 1..(Len(old) + 1) /\ DOMAIN old = 1..Len(old) /\ Len(old) \in Nat
      /\ \A i \in DOMAIN old : Append(old, o)[i] = old[i]
      /\ Append(old, o)[Len(old) + 1] = o
    BY <1>3, AppendFacts
<1>5. AreasTypeOK'
  <2>1. listed' \in [Class -> Seq(Object)]
      BY <1>1, <1>3, <1>4
  <2>2. ASSUME NEW k \in Class
        PROVE  /\ Len(listed'[k]) <= MaxListed
               /\ \A i \in DOMAIN listed'[k] : object'[listed'[k][i]].class = k
    <3>1. CASE k # k0
        BY <1>1, <1>3, <3>1 DEF AreasInv, AreasTypeOK
    <3>2. CASE k = k0
      <4>1. \A i \in DOMAIN old : object[old[i]].class = k0
          BY <1>2 DEF AreasInv, AreasTypeOK
      <4>2. object[o].class = k0
          BY DEF k0
      <4>3. ASSUME NEW i \in 1..(Len(old) + 1) PROVE object[Append(old, o)[i]].class = k0
          BY <1>4, <4>1, <4>2
      <4>4. Len(Append(old, o)) <= MaxListed
          BY <1>1, <1>4, BoundAssumption DEF BoundAssumption
      <4> QED
          BY <1>1, <1>3, <1>4, <3>2, <4>3, <4>4
    <3> QED
        BY <3>1, <3>2
  <2> QED
      BY <1>1, <2>1, <2>2 DEF AreasInv, AreasTypeOK
<1>6. KeptApart'
  <2> DEFINE Apart(k, a, b) ==
          a \notin changed /\ b \notin changed =>
              IF k \in AreaClass
              THEN Shared(object[a], object[b]) =>
                      /\ object[a].start = object[b].start
                      /\ object[a].size = object[b].size
              ELSE object[a].start # object[b].start
  <2>1. \A k \in Class : \A i, j \in DOMAIN listed[k] :
            i # j => Apart(k, listed[k][i], listed[k][j])
      BY DEF AreasInv, KeptApart
  <2>2. ASSUME NEW i \in DOMAIN old
        PROVE  Apart(k0, old[i], o) /\ Apart(k0, o, old[i])
    <3>1. ~InTheWay(old[i], o) /\ object[old[i]].class = k0
        BY <1>2 DEF Add, Refused, k0, AreasInv, AreasTypeOK
    <3>2. object[old[i]] \in Fields /\ object[o] \in Fields
        BY <1>1, <1>3, <1>4
    <3>3. /\ object[old[i]].start \in Int /\ object[old[i]].size \in Nat
          /\ object[o].start \in Int /\ object[o].size \in Nat
      <4>1. Starts \subseteq Int /\ Sizes \cup {0} \subseteq Nat
        <5>1. \A x \in 0..(Span - 1) : x \in Nat /\ x \in Int
            BY Addresses
        <5> QED
            BY <5>1, RangeAssumption DEF RangeAssumption
      <4> QED
          BY <3>2, <4>1 DEF Fields
    <3>4. CASE k0 \in AreaClass
      <4>1. ~RangesCross(object[old[i]].start, object[old[i]].size, object[o].start, object[o].size)
          BY <3>1, <3>4 DEF InTheWay
      <4> QED
          BY <3>3, <3>4, <4>1 DEF RangesCross, PointInRange, Shared
    <3>5. CASE k0 \notin AreaClass
        BY <3>1, <3>5 DEF InTheWay
    <3> QED
        BY <3>4, <3>5
  <2> HIDE DEF Apart
  <2>3. ASSUME NEW k \in Class, NEW i \in DOMAIN listed'[k], NEW j \in DOMAIN listed'[k], i # j
        PROVE  Apart(k, listed'[k][i], listed'[k][j])
    <3>1. CASE k # k0
        BY <1>3, <2>1, <2>3, <3>1
    <3>2. CASE k = k0 /\ i \in DOMAIN old /\ j \in DOMAIN old
        BY <1>2, <1>3, <1>4, <2>1, <2>3, <3>2
    <3>3. CASE k = k0 /\ i \in DOMAIN old /\ j = Len(old) + 1
        BY <1>3, <1>4, <2>2, <3>3
    <3>4. CASE k = k0 /\ i = Len(old) + 1 /\ j \in DOMAIN old
        BY <1>3, <1>4, <2>2, <3>4
    <3>5. k = k0 => i \in 1..(Len(old) + 1) /\ j \in 1..(Len(old) + 1)
        BY <1>3, <1>4
    <3> QED
        BY <1>4, <2>3, <3>1, <3>2, <3>3, <3>4, <3>5
  <2>4. \A k \in Class : \A i, j \in DOMAIN listed'[k] :
            i # j => Apart(k, listed'[k][i], listed'[k][j])
      BY <2>3
  <2>5. object' = object /\ changed' = changed
      BY <1>1
  <2> QED
      BY <2>4, <2>5 DEF KeptApart, Apart, Shared
<1> QED
    BY <1>5, <1>6 DEF AreasInv

\* An object that is given another range may be in the way of others, but not
\* of those that are still as they were when they were registered.
LEMMA ChangeKeepsInv ==
    ASSUME AreasInv, NEW o \in Object, NEW fields \in Fields, fields.class = object[o].class,
           Change(o, fields)
    PROVE  AreasInv'
<1>1. /\ object \in [Object -> Fields] /\ listed \in [Class -> Seq(Object)]
      /\ object' = [object EXCEPT ![o] = fields] /\ listed' = listed
      /\ changed' = IF IsListed(o) THEN changed \cup {o} ELSE changed
      /\ changed \in SUBSET Object
    BY DEF AreasInv, AreasTypeOK, Change
<1>2. \A a \in Object : object'[a].class = object[a].class
    BY <1>1
<1>3. \A k \in Class : \A i \in DOMAIN listed[k] : listed[k][i] \in Object
    BY <1>1
<1>4. AreasTypeOK'
  <2>1. object' \in [Object -> Fields] /\ changed' \in SUBSET Object
      BY <1>1
  <2> QED
      BY <1>1, <1>2, <1>3, <2>1 DEF AreasInv, AreasTypeOK
<1>5. ASSUME NEW k \in Class, NEW i \in DOMAIN listed[k], listed[k][i] \notin changed'
      PROVE  listed[k][i] # o /\ listed[k][i] \notin changed
  <2>1. object[listed[k][i]].class = k
      BY DEF AreasInv, AreasTypeOK
  <2>2. listed[k][i] = o => IsListed(o)
      BY <2>1 DEF IsListed
  <2> QED
      BY <1>1, <1>5, <2>2
<1>6. KeptApart'
  <2> SUFFICES ASSUME NEW k \in Class, NEW i \in DOMAIN listed[k], NEW j \in DOMAIN listed[k],
                      i # j, listed[k][i] \notin changed', listed[k][j] \notin changed'
               PROVE  IF k \in AreaClass
                      THEN Shared(object'[listed[k][i]], object'[listed[k][j]]) =>
                              /\ object'[listed[k][i]].start = object'[listed[k][j]].start
                              /\ object'[listed[k][i]].size = object'[listed[k][j]].size
                      ELSE object'[listed[k][i]].start # object'[listed[k][j]].start
      BY <1>1 DEF KeptApart, Shared
  <2>1. /\ listed[k][i] # o /\ listed[k][i] \notin changed
        /\ listed[k][j] # o /\ listed[k][j] \notin changed
      BY <1>5
  <2>2. object'[listed[k][i]] = object[listed[k][i]] /\ object'[listed[k][j]] = object[listed[k][j]]
      BY <1>1, <1>3, <2>1
  <2> QED
      BY <2>1, <2>2 DEF AreasInv, KeptApart
<1> QED
    BY <1>4, <1>6 DEF AreasInv

\* Every step keeps the invariant.
LEMMA AreasNextInv == ASSUME AreasInv, [AreasNext]_areasVars PROVE AreasInv'
<1>1. CASE UNCHANGED areasVars
    BY <1>1 DEF areasVars, AreasInv, AreasTypeOK, KeptApart, Shared
<1>2. ASSUME NEW o \in Object, Add(o) PROVE AreasInv'
    BY <1>2, AddKeepsInv
<1>3. ASSUME NEW o \in Object, Refuse(o) PROVE AreasInv'
    BY <1>1, <1>3 DEF Refuse
<1>4. ASSUME NEW o \in Object PROVE object[o] \in Fields
    BY DEF AreasInv, AreasTypeOK
<1>5. ASSUME NEW o \in Object, NEW start \in Starts, SetStart(o, start) PROVE AreasInv'
  <2>1. /\ [object[o] EXCEPT !.start = start] \in Fields
        /\ [object[o] EXCEPT !.start = start].class = object[o].class
      BY <1>4 DEF Fields
  <2> QED
      BY <1>5, <2>1, ChangeKeepsInv DEF SetStart
<1>6. ASSUME NEW o \in Object, NEW size \in Sizes, SetSize(o, size) PROVE AreasInv'
  <2>1. /\ [object[o] EXCEPT !.size = size] \in Fields
        /\ [object[o] EXCEPT !.size = size].class = object[o].class
      BY <1>4 DEF Fields
  <2> QED
      BY <1>6, <2>1, ChangeKeepsInv DEF SetSize
<1> QED
    BY <1>1, <1>2, <1>3, <1>5, <1>6 DEF AreasNext

\* Areas of a kind that were registered and left as they were have no register
\* in common, but for those of the very same range (server_t::add_coils and the
\* like, emb_is_ranges_cross).
THEOREM AreasInvCorrect == AreasSpec => []AreasInv
BY AreasInitInv, AreasNextInv, PTL DEF AreasSpec

-----------------------------------------------------------------------------
\* A set of natural numbers that is not empty has a least one.
LEMMA SmallestOf ==
    ASSUME NEW T, T \subseteq Nat, T # {}
    PROVE  \E i \in T : \A j \in T : i <= j
<1> DEFINE R == {p \in Nat \X Nat : p[1] < p[2]}
<1>1. IsWellFoundedOn(R, Nat)
    BY NatLessThanWellFounded, Zenon DEF OpToRel
<1> HIDE DEF R
<1>2. \E x \in T : \A y \in T : ~ (<<y, x>> \in R)
    BY <1>1, WFMin
<1>3. PICK x \in T : \A y \in T : ~ (<<y, x>> \in R)
    BY <1>2
<1>4. ASSUME NEW y \in T PROVE x <= y
  <2>1. <<y, x>> \notin R /\ <<y, x>> \in Nat \X Nat
      BY <1>3
  <2>2. ~(y < x)
      BY <2>1 DEF R
  <2> QED
      BY <2>2
<1> QED
    BY <1>4

\* And CHOOSE finds it.
LEMMA ChooseSmallest ==
    ASSUME NEW T, T \subseteq Nat, NEW m \in T, \A j \in T : m <= j
    PROVE  (CHOOSE i \in T : \A j \in T : i <= j) = m
<1> DEFINE c == CHOOSE i \in T : \A j \in T : i <= j
<1>1. c \in T /\ \A j \in T : c <= j
    OBVIOUS
<1> HIDE DEF c
<1>2. c <= m /\ m <= c /\ c \in Nat /\ m \in Nat
    BY <1>1
<1>3. c = m
    BY <1>2
<1> QED
    BY <1>3 DEF c

\* The look-up finds the first that matches, or nothing.
LEMMA FindFacts ==
    ASSUME NEW seq \in Seq(Object), NEW k \in Class, listed[k] = seq, NEW address
    PROVE  \/ /\ Find(k, address) = NoObject
              /\ \A i \in DOMAIN seq : ~Holds(seq[i], address)
           \/ \E i \in DOMAIN seq :
                 /\ Find(k, address) = seq[i] /\ Holds(seq[i], address)
                 /\ \A j \in DOMAIN seq : Holds(seq[j], address) => i <= j
<1> DEFINE found == {i \in DOMAIN listed[k] : Holds(listed[k][i], address)}
<1>1. CASE found = {}
    BY <1>1 DEF Find
<1>2. CASE found # {}
  <2>1. found \subseteq Nat
    <3>1. DOMAIN listed[k] = 1..Len(seq)
        OBVIOUS
    <3> QED
        BY <3>1
  <2>2. \E i \in found : \A j \in found : i <= j
    <3> HIDE DEF found
    <3> QED
        BY <1>2, <2>1, SmallestOf
  <2>3. PICK i \in found : /\ \A j \in found : i <= j
                           /\ i = CHOOSE i0 \in found : \A j \in found : i0 <= j
      BY <2>2
  <2>4. Find(k, address) = listed[k][i]
      BY <1>2, <2>3 DEF Find
  <2> QED
      BY <2>3, <2>4
<1> QED
    BY <1>1, <1>2

-----------------------------------------------------------------------------
\* The 16 bits of an end.
LEMMA Ends ==
    ASSUME NEW x \in Int, -1 <= x, x < 2 * 65536
    PROVE  x % Span = IF x = -1 THEN 65535 ELSE IF x < 65536 THEN x ELSE x - 65536
BY SMTT(30) DEF Span

LEMMA AddressBounds ==
    0 \in 0..(Span - 1) /\ \A x \in 0..(Span - 1) : x \in Int /\ 0 <= x /\ x < Span
BY DEF Span

\* The arithmetic of the two checks, of the look-up and of the handlers: what
\* both let pass is in range, but for the one range that is empty.
LEMMA RangesAgree ==
    ASSUME NEW st \in Int, 0 <= st, st < Span, NEW sz \in Int, 0 <= sz, sz < Span,
           NEW address \in Int, 0 <= address, address < Span, NEW qty \in Int, 1 <= qty,
           st <= address, address <= (st + sz - 1) % Span
    PROVE  /\ address - st >= 0 /\ st + (address - st) = address
           /\ ~(st + sz < address + qty) => address - st + qty <= sz /\ address + qty <= Span
           /\ qty = 1 => \/ address - st + qty <= sz /\ address + qty <= Span
                         \/ st = 0 /\ sz = 0
<1>1. /\ st \in Int /\ 0 <= st /\ st <= 65535
      /\ sz \in Int /\ 0 <= sz /\ sz <= 65535
      /\ address \in Int /\ 0 <= address /\ address <= 65535
      /\ st <= address /\ qty \in Int /\ 1 <= qty
    BY DEF Span
<1> DEFINE last == st + sz - 1
<1>2. last \in Int /\ -1 <= last /\ last < 2 * 65536
    BY ONLY <1>1
<1>3. /\ last = -1 => st = 0 /\ sz = 0
      /\ last >= 65536 => ~(address <= last - 65536)
      /\ last < 65536 => st + sz <= 65536
    BY ONLY <1>1
<1>4. address <= last % Span
    OBVIOUS
<1>5. (st = 0 /\ sz = 0) \/ (address <= last /\ st + sz <= 65536)
  <2> HIDE DEF last
  <2>1. last % Span = IF last = -1 THEN 65535 ELSE IF last < 65536 THEN last ELSE last - 65536
      BY ONLY <1>2, Ends
  <2>2. ASSUME last >= 65536 PROVE FALSE
    <3>1. last % Span = last - 65536
        BY ONLY <1>2, <2>1, <2>2
    <3> QED
        BY ONLY <1>3, <1>4, <2>2, <3>1
  <2>3. ASSUME last < 65536, last # -1 PROVE address <= last
    <3>1. last % Span = last
        BY ONLY <1>2, <2>1, <2>3
    <3> QED
        BY ONLY <1>4, <3>1
  <2> QED
      BY ONLY <1>2, <1>3, <2>2, <2>3
<1>6. /\ address - st >= 0 /\ st + (address - st) = address
      /\ ~(st + sz < address + qty) => address - st + qty <= sz
      /\ qty = 1 => address - st + qty <= sz \/ (st = 0 /\ sz = 0)
    BY ONLY <1>1, <1>5
<1>7. address - st + qty <= sz => address + qty <= 65536
    BY ONLY <1>1, <1>5
<1>8. address - st + qty <= sz => address + qty <= Span
    BY ONLY <1>7 DEF Span
<1> QED
    BY <1>6, <1>8, Zenon

\* What an area is asked for lies in it, or it is the one without registers.
LEMMA CallbackInside ==
    ASSUME AreasTypeOK, NEW k \in AreaClass \cap Classes, NEW address \in 0..(Span - 1),
           NEW qty \in Int, 1 <= qty, NEW form \in {Single, Several}, form = Single => qty = 1,
           Callback(k, address, qty, form).area # NoObject
    PROVE  LET c == Callback(k, address, qty, form)
               a == object[c.area]
           IN  \/ /\ c.offset >= 0 /\ c.offset + c.qty <= a.size
                  /\ a.start + c.offset = address
                  /\ address + c.qty <= Span
               \/ form = Single /\ a.start = 0 /\ a.size = 0
<1> DEFINE o == Find(k, address)
           st == object[o].start
           sz == object[o].size
<1>1. k \in Class /\ listed[k] \in Seq(Object)
    BY DEF AreasTypeOK, Class
<1>2. /\ o # NoObject
      /\ form = Several => ~(st + sz < address + qty)
      /\ Callback(k, address, qty, form) = [area |-> o, offset |-> address - st, qty |-> qty]
    BY DEF Callback
<1>3. PICK i \in DOMAIN listed[k] : o = listed[k][i] /\ Holds(o, address)
    BY <1>1, <1>2, FindFacts
<1>4. o \in Object /\ object[o] \in Fields /\ object[o].class = k
    BY <1>1, <1>3 DEF AreasTypeOK
<1>5. /\ st \in Int /\ 0 <= st /\ st < Span
      /\ sz \in Int /\ 0 <= sz /\ sz < Span
      /\ address \in Int /\ 0 <= address /\ address < Span
  <2>1. st \in Starts /\ sz \in Sizes \cup {0}
      BY <1>4 DEF Fields
  <2>2. \A x : x \in Starts \/ x \in Sizes => x \in 0..(Span - 1)
      BY RangeAssumption, Zenon DEF RangeAssumption
  <2>3. 0 \in 0..(Span - 1)
      BY AddressBounds, Zenon
  <2> HIDE DEF st, sz
  <2> QED
      BY <2>1, <2>2, <2>3, AddressBounds, Zenon
<1>6. st <= address /\ address <= (st + sz - 1) % Span
  <2>1. object[o].class \in AreaClass
      BY <1>4
  <2> QED
      BY <1>3, <2>1, Zenon DEF Holds
<1> HIDE DEF o, st, sz
<1>7. /\ address - st >= 0 /\ st + (address - st) = address
      /\ ~(st + sz < address + qty) => address - st + qty <= sz /\ address + qty <= Span
      /\ qty = 1 => \/ address - st + qty <= sz /\ address + qty <= Span
                    \/ st = 0 /\ sz = 0
  <2>1. qty \in Int /\ 1 <= qty
      OBVIOUS
  <2> QED
      BY ONLY <1>5, <1>6, <2>1, RangesAgree
<1>8. \/ /\ address - st >= 0 /\ address - st + qty <= sz
         /\ st + (address - st) = address
         /\ address + qty <= Span
      \/ form = Single /\ st = 0 /\ sz = 0
    BY <1>2, <1>7, Zenon
<1> QED
    BY <1>2, <1>8 DEF st, sz

\* Whatever was registered and changed, a callback is asked for registers of its
\* area only, but for areas without any at address 0 (server_t::get_coils and
\* the like; the handlers of server/*.c).
THEOREM OnlyServedInside == AreasSpec => []ServedInside
<1>1. AreasInv => ServedInside
  <2> SUFFICES ASSUME AreasInv, NEW k \in AreaClass \cap Classes, NEW address \in Address,
                      NEW qty \in Quantity, NEW form \in {Single, Several},
                      NEW q, q = IF form = Single THEN 1 ELSE qty,
                      Callback(k, address, q, form).area # NoObject
               PROVE  LET c == Callback(k, address, q, form)
                          a == object[c.area]
                      IN  \/ /\ c.offset >= 0 /\ c.offset + c.qty <= a.size
                             /\ a.start + c.offset = address
                             /\ address + c.qty <= Span
                          \/ form = Single /\ a.start = 0 /\ a.size = 0
      BY DEF ServedInside
  <2>1. /\ q \in Int /\ 1 <= q /\ (form = Single => q = 1)
        /\ address \in 0..(Span - 1) /\ AreasTypeOK
    <3>1. q \in Int /\ 1 <= q /\ (form = Single => q = 1)
      <4>1. qty \in 1..(Span - 1)
          BY RequestAssumption, Zenon DEF RequestAssumption
      <4>2. qty \in Int /\ 1 <= qty
          BY ONLY <4>1 DEF Span
      <4> QED
          BY <4>2
    <3>2. address \in 0..(Span - 1)
        BY RequestAssumption, Zenon DEF RequestAssumption
    <3> QED
        BY <3>1, <3>2 DEF AreasInv
  <2> QED
      BY <2>1, CallbackInside
<1> QED
    BY <1>1, AreasInvCorrect, PTL

-----------------------------------------------------------------------------
\* A registration is found after those that were there.
LEMMA AddKeepsFound ==
    ASSUME AreasInv, NEW o \in Object, Add(o), NEW k \in Class, NEW address,
           Find(k, address) # NoObject
    PROVE  Find(k, address)' = Find(k, address)
<1> DEFINE old == listed[k]
           found == {i \in DOMAIN listed[k] : Holds(listed[k][i], address)}
           later == {i \in DOMAIN listed'[k] : Holds(listed[k]'[i], address)}
<1>1. /\ old \in Seq(Object) /\ object' = object
      /\ listed'[k] = old \/ (listed'[k] = Append(old, o))
    BY DEF AreasInv, AreasTypeOK, Add
<1>2. PICK m \in DOMAIN old : /\ Find(k, address) = old[m] /\ Holds(old[m], address)
                              /\ \A j \in DOMAIN old : Holds(old[j], address) => m <= j
    BY <1>1, FindFacts
<1>3. /\ m \in DOMAIN listed'[k] /\ listed'[k][m] = old[m]
      /\ DOMAIN listed'[k] \subseteq 1..(Len(old) + 1) /\ DOMAIN old = 1..Len(old)
      /\ Len(old) \in Nat
      /\ \A j \in DOMAIN old : listed'[k][j] = old[j]
    BY <1>1, <1>2, AppendFacts
<1>4. later \subseteq Nat /\ m \in later
    BY <1>2, <1>3
<1>5. ASSUME NEW j \in later PROVE m <= j
  <2>1. CASE j \in DOMAIN old
      BY <1>2, <1>3, <2>1
  <2>2. CASE j \notin DOMAIN old
      BY <1>2, <1>3, <2>2
  <2> QED
      BY <2>1, <2>2
<1>6. (CHOOSE i \in later : \A j \in later : i <= j) = m
    BY <1>4, <1>5, ChooseSmallest
<1>7. Find(k, address)' = IF later = {} THEN NoObject
                          ELSE listed'[k][CHOOSE i \in later : \A j \in later : i <= j]
  <2>1. Find(k, address)' = IF found' = {} THEN NoObject
                            ELSE listed'[k][CHOOSE i \in found' : \A j \in found' : i <= j]
      BY DEF Find
  <2>2. found' = later
      BY <1>1 DEF Holds
  <2> HIDE DEF found, later
  <2> QED
      BY <2>1, <2>2
<1> QED
    BY <1>2, <1>3, <1>4, <1>6, <1>7

\* No registration takes an address from an earlier one (the vectors of
\* server_t and super_server_t grow at their end).
THEOREM NoneTakenOver == AreasSpec => NoTakeover
<1> DEFINE Keeps == \A k \in Classes, address \in Address :
                        object' = object /\ Find(k, address) # NoObject
                            => Find(k, address)' = Find(k, address)
<1>1. ASSUME AreasInv, [AreasNext]_areasVars PROVE [Keeps]_areasVars
  <2> SUFFICES ASSUME NEW k \in Classes, NEW address \in Address,
                      object' = object, Find(k, address) # NoObject
               PROVE  Find(k, address)' = Find(k, address)
      OBVIOUS
  <2>1. listed' = listed => Find(k, address)' = Find(k, address)
    <3> DEFINE found == {i \in DOMAIN listed[k] : Holds(listed[k][i], address)}
    <3>1. Find(k, address)' = IF found' = {} THEN NoObject
                              ELSE listed'[k][CHOOSE i \in found' : \A j \in found' : i <= j]
        BY DEF Find
    <3>2. Find(k, address) = IF found = {} THEN NoObject
                             ELSE listed[k][CHOOSE i \in found : \A j \in found : i <= j]
        BY DEF Find
    <3>3. listed' = listed => found' = found
        BY DEF Holds
    <3> HIDE DEF found
    <3> QED
        BY <3>1, <3>2, <3>3
  <2>2. k \in Class
      BY ObjectAssumption DEF ObjectAssumption
  <2>3. ASSUME NEW o \in Object, Add(o) PROVE Find(k, address)' = Find(k, address)
      BY <1>1, <2>2, <2>3, AddKeepsFound
  <2>4. \/ listed' = listed
        \/ \E o \in Object : Add(o)
      BY <1>1 DEF AreasNext, areasVars, Refuse, SetStart, SetSize, Change
  <2> QED
      BY <2>1, <2>3, <2>4
<1> QED
    BY <1>1, AreasInvCorrect, PTL DEF AreasSpec, NoTakeover
=============================================================================
