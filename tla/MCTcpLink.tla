----------------------------- MODULE MCTcpLink -----------------------------
(***************************************************************************)
(* Small instance of TcpLink: four requests, answers of two and three      *)
(* bytes, of which two are header; a misread header gives a frame of two   *)
(* bytes, one as long as the buffer, or one longer than it; transaction    *)
(* numbers start again after two, so that the third request has the number *)
(* of the first and the fourth that of the second.  The PDU of the first   *)
(* has no room for its own answer, that of the fourth none for the late    *)
(* answer of the second.                                                   *)
(***************************************************************************)
EXTENDS TcpLink

MCAnswerSize == <<3, 3, 3, 2>>
MCPduRoom == <<2, 3, 3, 2>>
=============================================================================
