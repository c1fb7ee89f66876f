---------------------------- MODULE MCBeamResult ----------------------------
(***************************************************************************)
(* Small instances of BeamResult, with the data of MCBeamDecode.           *)
(***************************************************************************)
EXTENDS BeamResult, MCBeamDecode
=============================================================================
