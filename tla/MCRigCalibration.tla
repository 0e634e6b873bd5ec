------------------------- MODULE MCRigCalibration --------------------------
(* Two phones, two calibrations and AR sessions that restart, for TLC. *)
EXTENDS RigCalibration
=============================================================================
