----------------------------- MODULE BoardSession -----------------------------
(***************************************************************************)
(* What a board calibration accepts (calibration/session.py) and what it   *)
(* solves from it (calibration/charuco.py).  RigCalibration has the        *)
(* session's lifetime; here are its observations.                          *)
(*                                                                         *)
(* Phones stand along a line over a board that lies flat on the floor.  A  *)
(* pose is a place on that line, a height (centimetres) and a tilt from    *)
(* straight down (degrees).  A planar board has two poses that look alike, *)
(* the true one and its mirror image across the line of sight.  Residuals  *)
(* are in tenths of a pixel.                                               *)
(***************************************************************************)
EXTENDS Medians, Sequences, SequencesExt

CONSTANTS
    Devices,
    Views,                  \* Views[d]: what d's images of the board may be like
    Boards,                 \* places the board is put
    Steps,                  \* Steps[d]: ways phone d is moved, [cm, deg]
    Start,                  \* Start[d]: [cm, deg] of phone d at first
    Required,               \* REQUIRED_OBSERVATIONS
    MoveCm, MoveDeg,        \* changed_frame: a phone moved
    AgreeCm, AgreeDeg,      \* solve: observations disagree
    MaxResidual,            \* max_reprojection_px
    MinCorners, MinCoverage,
    MaxGravity,             \* MAX_GRAVITY_ERROR_DEG
    MaxMoves, MaxSteps, MaxSessions     \* bounds: moves of the board, of the phones; sessions

\* The fourth observation is the first that is held out.  The weights of the
\* observations are no fractions here: those of accepted ones are still positive.
ASSUME BoardAssumption ==
    /\ Required \in Nat /\ Required >= 4
    /\ MoveCm \in Nat /\ MoveDeg \in Nat /\ AgreeCm \in Nat /\ AgreeDeg \in Nat
    /\ MinCorners \in Nat \ {0} /\ MaxResidual \in Nat /\ MaxResidual <= 100 * MinCorners
    /\ MaxGravity \in Nat /\ Boards \subseteq Int
    /\ MaxMoves \in Nat /\ MaxSteps \in Nat /\ MaxSessions \in Nat \ {0}
    /\ \A d \in Devices :
          /\ Start[d].cm \in Int /\ Start[d].deg \in Int
          /\ \A step \in Steps[d] : step.cm \in Int /\ step.deg \in Int
          /\ \A view \in Views[d] :
                /\ view.corners \in Nat
                /\ \A fit \in view.fits : fit.residual \in Nat /\ fit.height \in Int

VARIABLES
    board, moves,   \* where the board lies, how often it was moved
    phone,          \* phone[d]: where it stands, and its AR session with its origin
    steps,          \* how often a phone was moved
    state,          \* of the session: "collecting", "validating", "failed", "ready"
    baseline,       \* baseline[d]: metadata of the first accepted frame, None before
    obs,            \* obs[d]: the accepted observations
    rig             \* the solved cameras, None before

world == <<board, moves, phone, steps>>
session == <<state, baseline, obs, rig>>
vars == <<world, session>>

None == [at |-> 0]

Init ==
    /\ board \in Boards /\ moves = 0
    /\ phone = [d \in Devices |-> [cm |-> Start[d].cm, deg |-> Start[d].deg,
                                   session |-> 1, origin |-> Start[d].cm]]
    /\ steps = 0
    /\ state = "collecting"
    /\ baseline = [d \in Devices |-> None]
    /\ obs = [d \in Devices |-> <<>>]
    /\ rig = None

Distance(a, b) == IF a < b THEN b - a ELSE a - b

-----------------------------------------------------------------------------
(* The board and the phones. *)

MoveBoard(place) ==
    /\ moves < MaxMoves /\ place # board
    /\ board' = place /\ moves' = moves + 1
    /\ UNCHANGED <<phone, steps, session>>

Moved(p, step) ==
    [cm |-> p.cm + step.cm, deg |-> p.deg + step.deg, session |-> p.session, origin |-> p.origin]

MovePhone(d, step) ==
    /\ steps < MaxSteps
    /\ steps' = steps + 1
    /\ phone' = [phone EXCEPT ![d] = Moved(@, step)]
    /\ UNCHANGED <<board, moves, session>>

\* A new AR session takes the place where it starts for its origin.
Restarted(p) == [cm |-> p.cm, deg |-> p.deg, session |-> p.session + 1, origin |-> p.cm]

NewSession(d) ==
    /\ phone[d].session < MaxSessions
    /\ phone' = [phone EXCEPT ![d] = Restarted(@)]
    /\ UNCHANGED <<board, moves, steps, session>>

-----------------------------------------------------------------------------
(* One frame: observe_frame. *)

\* A pose solvePnP finds for the board in a view of d.
Pose(d, fit) ==
    LET side == IF fit.mirrored THEN -1 ELSE 1
    IN  [at |-> side * (phone[d].cm - board), tilt |-> side * phone[d].deg,
         height |-> fit.height, residual |-> fit.residual, front |-> fit.front]

Poses(d, view) == {Pose(d, fit) : fit \in view.fits}

GravityError(pose, up) == Distance(pose.tilt, up)

\* The poses on the printed side of the board, when there are any.
Plausible(poses) ==
    LET front == {p \in poses : p.front}
        printed == {p \in front : p.height > 0}
    IN  IF printed # {} THEN printed ELSE front

NearBest(poses) ==
    LET best == Min({p.residual : p \in poses})
    IN  {p \in poses : p.residual <= Max({10, best + 10})}

\* Among the fits that are nearly the best, the one gravity agrees with.
PickCandidate(poses, up) ==
    LET near == NearBest(Plausible(poses))
    IN  CHOOSE p \in near : \A q \in near : GravityError(p, up) <= GravityError(q, up)

Observed(d, view) == PickCandidate(Poses(d, view), phone[d].deg)

IsObservation(d, view) ==
    /\ view.corners >= MinCorners
    /\ view.coverage >= MinCoverage
    /\ Plausible(Poses(d, view)) # {}
    /\ Observed(d, view).residual <= MaxResidual

-----------------------------------------------------------------------------
(* BoardCalibrationSession.offer. *)

\* The pose is the one ARKit reports, from the origin of its session.
FrameMetadata(d, view) ==
    [session |-> phone[d].session, layout |-> view.layout,
     at |-> phone[d].cm - phone[d].origin, deg |-> phone[d].deg]

\* Bug: the pose alone tells whether a phone was moved.
ChangedPose(now, base) ==
    Distance(now.at, base.at) > MoveCm \/ Distance(now.deg, base.deg) > MoveDeg

ChangedFrame(now, base) ==
    \/ now.session # base.session \/ now.layout # base.layout
    \/ Distance(now.at, base.at) > MoveCm
    \/ Distance(now.deg, base.deg) > MoveDeg

\* What is kept of a frame; where the board and the phone really were beside it.
Observation(d, view) ==
    LET p == Observed(d, view)
    IN  [at |-> p.at, tilt |-> p.tilt, height |-> p.height, residual |-> p.residual,
         corners |-> view.corners, up |-> phone[d].deg, board |-> board, cm |-> phone[d].cm]

Full(seq) == Len(seq) >= Required

(***************************************************************************)
(* A frame of d is offered.  One that is tracked badly, has no usable pose *)
(* or intrinsics, was accepted before, or shows the board badly is only    *)
(* counted.  A phone that has its observations is still watched for        *)
(* movement, but no longer observes the board.                             *)
(***************************************************************************)
Offer(d, view) ==
    /\ state = "collecting" /\ view.tracked
    /\ LET now == FrameMetadata(d, view)
           kept == Append(obs[d], Observation(d, view))
       IN  IF baseline[d] # None /\ ChangedFrame(now, baseline[d])
           THEN /\ state' = "failed"
                /\ UNCHANGED <<baseline, obs>>
           ELSE /\ ~Full(obs[d])
                /\ IsObservation(d, view)
                /\ baseline' = [baseline EXCEPT ![d] = IF @ = None THEN now ELSE @]
                /\ obs' = [obs EXCEPT ![d] = kept]
                /\ state' = IF Full(kept) /\ \A e \in Devices \ {d} : Full(obs[e])
                            THEN "validating" ELSE state
    /\ UNCHANGED <<rig, world>>

-----------------------------------------------------------------------------
(* solve_camera, validate_solution and BoardCalibrationSession.solve. *)

\* Every fourth observation is held out.
Held(d) == {i \in DOMAIN obs[d] : i % 4 = 0}
Trained(d) == DOMAIN obs[d] \ Held(d)

\* Views with many corners and a low residual count for more.
Weight(o) == (100 * o.corners) \div Max({o.residual, 1})

\* The values of f at 1..n, those it has, added up.
SumOf(f, n) ==
    LET Upto[k \in Nat] ==
          IF k = 0 THEN 0 ELSE Upto[k - 1] + (IF k \in DOMAIN f THEN f[k] ELSE 0)
    IN  Upto[n]

\* The weighted mean of the observations in S.
MeanTilt(d, S) ==
    LET weight == [i \in S |-> Weight(obs[d][i])]
        turned == [i \in S |-> weight[i] * obs[d][i].tilt]
    IN  SumOf(turned, Len(obs[d])) \div SumOf(weight, Len(obs[d]))

\* The observations near the mean of those that train.
Kept(d) == {i \in Trained(d) : Distance(obs[d][i].tilt, MeanTilt(d, Trained(d))) <= AgreeDeg}

\* Robust position, averaged rotation, of the kept observations.
SolveCamera(d) ==
    [at |-> Median([i \in Kept(d) |-> obs[d][i].at]), tilt |-> MeanTilt(d, Kept(d)),
     height |-> Median([i \in Kept(d) |-> obs[d][i].height])]

Agrees(o, camera) ==
    /\ Distance(o.at, camera.at) <= AgreeCm
    /\ Distance(o.tilt, camera.tilt) <= AgreeDeg

\* Bug: the held out observations alone are compared with the solution.
HeldAgree(d, camera) == \A i \in Held(d) : Agrees(obs[d][i], camera)

\* All observations agree with the solution, also those that solving left out.
AllAgree(d, camera) == \A i \in DOMAIN obs[d] : Agrees(obs[d][i], camera)

\* Bug: the phone's own measurement of gravity is not looked at.
AnyTilt(d, camera) == camera.height > 0

UprightBy(d, camera) ==
    Median([i \in DOMAIN obs[d] |-> Distance(camera.tilt, obs[d][i].up)]) <= MaxGravity

IsValid(d) ==
    /\ Kept(d) # {}
    /\ LET camera == SolveCamera(d)
       IN  AllAgree(d, camera) /\ camera.height > 0 /\ UprightBy(d, camera)

Solve ==
    /\ state = "validating"
    /\ IF \A d \in Devices : IsValid(d)
       THEN state' = "ready" /\ rig' = [d \in Devices |-> SolveCamera(d)]
       ELSE state' = "failed" /\ UNCHANGED rig
    /\ UNCHANGED <<baseline, obs, world>>

Next ==
    \/ \E place \in Boards : MoveBoard(place)
    \/ \E d \in Devices : \E step \in Steps[d] : MovePhone(d, step)
    \/ \E d \in Devices : NewSession(d)
    \/ \E d \in Devices : \E view \in Views[d] : Offer(d, view)
    \/ Solve

Spec == Init /\ [][Next]_vars

-----------------------------------------------------------------------------
(* Properties. *)

(***************************************************************************)
(* The observations of a phone were taken from one place, give or take the *)
(* tolerance on each side of the baseline: also over a new AR session,     *)
(* whose poses start from nought wherever the phone then stands            *)
(* (changed_frame).                                                        *)
(***************************************************************************)
StoodStill ==
    \A d \in Devices : \A i, j \in DOMAIN obs[d] :
        Distance(obs[d][i].cm, obs[d][j].cm) <= 2 * MoveCm

(***************************************************************************)
(* A rig is not solved from observations of a phone between which the      *)
(* board was moved, although the median hides the ones before the move     *)
(* (solve: "A moved board must not yield a plausible median pose").        *)
(***************************************************************************)
BoardStillForEach ==
    state = "ready" =>
        \A d \in Devices : \A i, j \in DOMAIN obs[d] :
            Distance(obs[d][i].board, obs[d][j].board) <= 2 * (AgreeCm + MoveCm)

(***************************************************************************)
(* A solved camera is tilted as its phone was: an image that shows the     *)
(* mirrored pose best in every frame is found out by gravity (solve).      *)
(***************************************************************************)
SolvedUpright ==
    state = "ready" =>
        \A d \in Devices : Distance(rig[d].tilt, baseline[d].deg) <= MaxGravity + MoveDeg

===============================================================================
