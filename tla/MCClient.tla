------------------------------ MODULE MCClient ------------------------------
(***************************************************************************)
(* Small instance of Client: two descriptors of different functions, two   *)
(* servers, two transports.                                                *)
(***************************************************************************)
EXTENDS Client

CONSTANTS t1, t2, f1, f2

MCFuncOf == [t \in {t1, t2} |-> IF t = t1 THEN f1 ELSE f2]
=============================================================================
