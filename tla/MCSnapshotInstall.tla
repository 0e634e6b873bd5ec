----------------------- MODULE MCSnapshotInstall ------------------------
(* One player, three frames and two bindings, for TLC. *)
EXTENDS SnapshotInstall

\* Nothing but frames and reinstalls; all troubles; those that leave what is shown
\* and what can be hit in agreement, one way and the other.
Mixed == {{}, Troubles, {"live", "upload"}, {"clear", "world"}}

Calm == {{}}
=============================================================================
