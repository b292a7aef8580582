---------------------------- MODULE MCTcpServer ----------------------------
(***************************************************************************)
(* Small instance of TcpServer: two connections and two requests of three  *)
(* bytes, of which two are header; a misread header gives a frame of two   *)
(* bytes, one as long as the buffer, or one longer than it.                *)
(***************************************************************************)
EXTENDS TcpServer

MCRequestSize == <<3, 3>>
=============================================================================
