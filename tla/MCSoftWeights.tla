---------------------------- MODULE MCSoftWeights ----------------------------
(***************************************************************************)
(* Small instances of SoftWeights, with the data of MCBeamDecode.          *)
(***************************************************************************)
EXTENDS SoftWeights, MCBeamDecode
=============================================================================
