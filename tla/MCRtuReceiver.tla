--------------------------- MODULE MCRtuReceiver ---------------------------
(***************************************************************************)
(* Small instance of RtuReceiver.  A frame has at least four bytes: frames *)
(* of four, five and four bytes come in, so that the data of the second    *)
(* fits one of the two buffers posted; the receive buffer takes a frame of *)
(* five and no more, so that two frames without a pause fill it.           *)
(***************************************************************************)
EXTENDS RtuReceiver

MCInSize == <<4, 5, 4>>
=============================================================================
