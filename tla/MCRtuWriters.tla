---------------------------- MODULE MCRtuWriters ----------------------------
(***************************************************************************)
(* RtuWriters for TLC: four frames of one and two bytes, so that the size  *)
(* changes in both directions under a counter that was not reset yet, and  *)
(* a byte of the second one lies behind two shorter frames; the port takes *)
(* as many bytes as the frames have.  Frames are shorter than real ones:   *)
(* two bytes can be taken in two pieces.                                   *)
(***************************************************************************)
EXTENDS RtuWriters

MCOutSize == <<1, 2, 1, 1>>
=============================================================================
