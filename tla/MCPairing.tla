----------------------------- MODULE MCPairing ------------------------------
(* Instance of Pairing for TLC; values are chosen in the cfg files. *)
EXTENDS Pairing
=============================================================================
