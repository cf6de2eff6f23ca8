------------------------------ MODULE MCCamDisk ------------------------------
(* The cam disk for TLC.  The configurations give the constants.            *)
EXTENDS CamDisk, TLC
=============================================================================
