-------------------------------- MODULE Parts --------------------------------
(***************************************************************************)
(* Sums over the parts of a request for files, which the builders of the   *)
(* client and the handlers of the server form to get the size of a PDU.    *)
(***************************************************************************)
EXTENDS Naturals, Sequences

\* The sums of the sizes of the first 0, 1, 2 and so on parts.
SumUpTo(parts, size(_)) ==
    LET sum[i \in 0..Len(parts)] == IF i = 0 THEN 0 ELSE sum[i - 1] + size(parts[i])
    IN  sum

Sum(parts, size(_)) == SumUpTo(parts, size)[Len(parts)]
=============================================================================
