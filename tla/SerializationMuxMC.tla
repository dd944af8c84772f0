------------------------- MODULE SerializationMuxMC -------------------------
(***************************************************************************)
(* Three types: one without fields, one whose size needs both size bytes,  *)
(* and one whose payload is too large by a byte when bytes hold 0 .. 3.    *)
(***************************************************************************)
EXTENDS SerializationMux

MCFieldSizes == << << >>, <<4, 2>>, <<8, 8>> >>
=============================================================================
