--------------------------- MODULE MCRtuTcpClient ---------------------------
(***************************************************************************)
(* RtuTcpClient for TLC: two requests of two bytes, so that one can be     *)
(* sent in parts, with answers of two and of three, the second of which    *)
(* fills the receive buffer; two descriptors, a connection that breaks and *)
(* is stopped.                                                             *)
(***************************************************************************)
EXTENDS RtuTcpClient

MCOutSize == <<2, 2>>
MCInSize == <<2, 3>>
=============================================================================
