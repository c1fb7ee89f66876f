---------------------------- MODULE MCBeamDecode ----------------------------
(***************************************************************************)
(* Small instances of BeamDecode.                                          *)
(***************************************************************************)
EXTENDS BeamDecode, MCBeamValues
=============================================================================
