--------------------------- MODULE FrameMatching ----------------------------
(***************************************************************************)
(* What pairing promises, without queues, windows or search order: frames  *)
(* wait, two matching frames leave together as one pair, and a waiting     *)
(* frame may be lost.  A frame takes part in one pair at most, because     *)
(* only a frame that never waited or still waits can be emitted.           *)
(***************************************************************************)
EXTENDS Integers

CONSTANTS First, Second, SkewLimit, UncertaintyLimit, RequireCaptureId

VARIABLES
    waiting,    \* the frames that may still be paired
    emitted,    \* the pairs handed to the pipeline
    arrived     \* the number of frames that arrived; frame ids are below it

vars == <<waiting, emitted, arrived>>

Close(f, g) == f.time - g.time <= SkewLimit /\ g.time - f.time <= SkewLimit

Matching(p) ==
    /\ p.first.device = First /\ p.second.device = Second
    /\ p.first.uncertainty <= UncertaintyLimit
    /\ p.second.uncertainty <= UncertaintyLimit
    /\ RequireCaptureId => p.first.capture = p.second.capture
    /\ Close(p.first, p.second)

Init == waiting = {} /\ emitted = {} /\ arrived = 0

\* A frame arrives and is refused (W = {}) or waits, at the expense of others.
Wait ==
    /\ arrived' = arrived + 1
    /\ \A f \in waiting' \ waiting : f.id = arrived
    /\ UNCHANGED emitted

\* A frame arrives and leaves at once with one that waited.
Emit ==
    /\ arrived' = arrived + 1
    /\ waiting' \subseteq waiting
    /\ \E p \in emitted' :
         /\ emitted' = emitted \cup {p}
         /\ Matching(p)
         /\ {p.first, p.second} \cap waiting' = {}
         /\ \/ p.first.id = arrived /\ p.second \in waiting
            \/ p.second.id = arrived /\ p.first \in waiting

Lose ==
    /\ waiting' \subseteq waiting
    /\ UNCHANGED <<emitted, arrived>>

Next == Wait \/ Emit \/ Lose

Spec == Init /\ [][Next]_vars

=============================================================================
