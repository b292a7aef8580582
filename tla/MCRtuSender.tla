---------------------------- MODULE MCRtuSender ----------------------------
(***************************************************************************)
(* Small instance of RtuSender: four frames, of which the second does not  *)
(* fit the transmit buffer; three others overwrite or follow each other.   *)
(***************************************************************************)
EXTENDS RtuSender

MCOutSize == <<4, 6, 5, 4>>
=============================================================================
