------------------------- MODULE MCCaptureDispatch -------------------------
(* Two phones and their reconnects, for TLC. *)
EXTENDS CaptureDispatch, TLC

CONSTANTS phone1, phone2

TwoPhones == <<phone1, phone2>>

\* One phone reconnects.
MCConns == (phone1 :> 1) @@ (phone2 :> 2)
=============================================================================
