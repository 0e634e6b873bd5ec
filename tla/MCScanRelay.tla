----------------------------- MODULE MCScanRelay -----------------------------
(* An owner between two worlds and a viewer that comes and goes, for TLC. *)
EXTENDS ScanRelay
=============================================================================
