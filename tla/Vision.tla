------------------------------- MODULE Vision -------------------------------
(***************************************************************************)
(* From the images of a capture to its skeleton: detection on an upright   *)
(* copy of each view's raster (vision/detector.py), with crops around the  *)
(* wrists whose hands were not found, and the fusion of the views.         *)
(*                                                                         *)
(* What the models see in an image is an input, a shot: the landmarks of   *)
(* the body where they are in the transmitted raster, with visibility and  *)
(* presence, the hands of the whole image and those of each crop, model    *)
(* priors, and the depth samples around each pixel.                        *)
(***************************************************************************)
EXTENDS LandmarkFusion, HandAssociation

CONSTANTS
    Width, Height,          \* size of the transmitted raster
    Sources,                \* the views in the order they are processed
    Origin, Direction,      \* where each device stands and looks
    Shots,                  \* Shots[d]: what device d may see
    MinVisibility,          \* min_landmark_visibility, min_landmark_presence
    CropFallback,           \* crop_fallback
    Subject,                \* where the landmarks of the body really are
    Shifts                  \* what a forced assembly may do to the rear view

Raster == (0 .. Width - 1) \X (0 .. Height - 1)

(***************************************************************************)
(* The models see hands and a body, or none; their landmarks may lie       *)
(* outside the raster.                                                     *)
(***************************************************************************)
IsHands(hands) ==
    /\ hands \in Seq(Range(hands))
    /\ \A i \in DOMAIN hands :
          /\ IsHand(hands[i])
          /\ \A n \in DOMAIN hands[i].landmarks : hands[i].landmarks[n] \in Int \X Int
          /\ DOMAIN hands[i].prior \subseteq HandNames

IsShot(shot) ==
    /\ shot.up \in {"top", "bottom", "left", "right", "unknown"}
    /\ \A n \in DOMAIN shot.pose : n \in PoseNames /\ shot.pose[n].pixel \in Int \X Int
    /\ IsHands(shot.hands) /\ \A s \in Sides : IsHands(shot.crops[s])
    /\ DOMAIN shot.depth = Raster /\ \A p \in Raster : IsWindow(shot.depth[p])
    /\ shot.prior # <<>> => DOMAIN shot.prior = PoseNames /\ \A n \in PoseNames : shot.prior[n] \in Int

ASSUME VisionAssumption ==
    /\ Width \in Nat \ {0} /\ Height \in Nat \ {0}
    /\ Sources \in Seq(Range(Sources)) /\ Len(Sources) = 2 /\ Sources[1] # Sources[2]
    /\ \A d \in Range(Sources) :
          /\ Origin[d] \in Int /\ Direction[d] \in {1, -1}
          /\ \A shot \in Shots[d] : IsShot(shot)
    /\ Shifts \subseteq Int
    /\ \A n \in PoseNames : Subject[n] \in Int
    /\ \A p, q \in Raster : Crossing(p, q).at \in Int

VARIABLES
    shots,                  \* what each device saw
    detections,             \* the detection made of it
    views,                  \* the views that are fused, with their observations
    fusion                  \* the outcome of fuse_landmarks

visionVars == <<shots, detections, views, fusion>>

-----------------------------------------------------------------------------
(***************************************************************************)
(* np.rot90 turns counter-clockwise.                                       *)
(***************************************************************************)
UprightRotation(up) ==
    CASE up \in {"top", "unknown"} -> 0
      [] up = "bottom" -> 2
      [] up = "left" -> 3
      [] up = "right" -> 1

Rot90(pixel, k) ==
    LET x == pixel[1]  y == pixel[2]
    IN  CASE k = 0 -> pixel
          [] k = 1 -> <<y, Width - 1 - x>>
          [] k = 2 -> <<Width - 1 - x, Height - 1 - y>>
          [] k = 3 -> <<Height - 1 - y, x>>

UnrotateLandmark(pixel, k) ==
    LET x == pixel[1]  y == pixel[2]
    IN  CASE k = 0 -> pixel
          [] k = 1 -> <<Width - 1 - y, x>>
          [] k = 2 -> <<Width - 1 - x, Height - 1 - y>>
          [] k = 3 -> <<y, Height - 1 - x>>

Inside(pixel, k) ==
    /\ pixel[1] \in 0 .. (IF k \in {1, 3} THEN Height ELSE Width) - 1
    /\ pixel[2] \in 0 .. (IF k \in {1, 3} THEN Width ELSE Height) - 1

(***************************************************************************)
(* The landmarks the pose model finds in the upright copy.                 *)
(***************************************************************************)
PoseToObservations(pose, k) ==
    [n \in DOMAIN pose |->
        LET seen == Rot90(pose[n].pixel, k)
        IN  [pixel |-> seen,
             valid |-> Inside(seen, k) /\ pose[n].visibility >= MinVisibility
                       /\ pose[n].presence >= MinVisibility]]

HandToCandidate(hand, k) ==
    [n \in DOMAIN hand.landmarks |->
        LET seen == Rot90(hand.landmarks[n], k)
        IN  [pixel |-> seen, valid |-> Inside(seen, k)]]

Elbow(side) == IF side = "left" THEN "left_elbow" ELSE "right_elbow"

BodyArms(body) ==
    [s \in Sides |-> [wrist |-> Wrist(s) \in DOMAIN body /\ body[Wrist(s)].valid,
                      elbow |-> Elbow(s) \in DOMAIN body /\ body[Elbow(s)].valid]]

(***************************************************************************)
(* Hands of the whole image first, then those of the crops, left first.    *)
(***************************************************************************)
Candidates(shot, arms) ==
    LET crops == IF CropFallback THEN HandsNeedCrops(shot.hands, arms) ELSE {}
        Crop(s) == IF s \in crops THEN shot.crops[s] ELSE <<>>
    IN  shot.hands \o Crop("left") \o Crop("right")

Unrotated(landmarks, k) ==
    [n \in DOMAIN landmarks |-> [landmarks[n] EXCEPT !.pixel = UnrotateLandmark(@, k)]]

NoDetection == [body |-> <<>>, hands |-> [s \in Sides |-> <<>>], prior |-> <<>>, handPriors |-> <<>>]

WithHands(shot, body, cands, found, k) ==
    LET withPrior == {s \in DOMAIN found : cands[found[s]].prior # <<>>}
    IN  [body |-> body,
         hands |-> [s \in Sides |-> IF s \in DOMAIN found THEN HandToCandidate(cands[found[s]], k)
                                                          ELSE <<>>],
         prior |-> shot.prior,
         handPriors |-> [s \in withPrior |-> cands[found[s]].prior]]

BuildViewDetection(shot, body, k) ==
    LET cands == Candidates(shot, BodyArms(body))
    IN  WithHands(shot, body, cands, AssociateHands(cands, BodyArms(body)), k)

DetectUpright(shot, k) ==
    IF shot.pose = <<>> THEN NoDetection
    ELSE BuildViewDetection(shot, PoseToObservations(shot.pose, k), k)

DetectView(shot) ==
    LET k == UprightRotation(shot.up)
        found == DetectUpright(shot, k)
    IN  [found EXCEPT !.body = Unrotated(@, k), !.hands = [s \in Sides |-> Unrotated(@[s], k)]]

-----------------------------------------------------------------------------
NoFusion == [status |-> "none", landmarks |-> <<>>]

VisionInit ==
    /\ shots = <<>>
    /\ detections = <<>>
    /\ views = <<>>
    /\ fusion = NoFusion

Detect(d, shot) ==
    /\ d \notin DOMAIN shots
    /\ shots' = Over(shots, [e \in {d} |-> shot])
    /\ detections' = Over(detections, [e \in {d} |-> DetectView(shot)])
    /\ UNCHANGED <<views, fusion>>

(***************************************************************************)
(* A forced assembly warps every view but the first into the body's space. *)
(***************************************************************************)
ViewInput(d, warp) ==
    LET found == detections[d]
    IN  WithObservations([forced |-> warp # 0, warp |-> warp,
                          origin |-> Origin[d], direction |-> Direction[d], depth |-> shots[d].depth,
                          body |-> found.body, hands |-> found.hands,
                          prior |-> found.prior, handPriors |-> found.handPriors,
                          seen |-> <<>>, samples |-> <<>>])

FusionViews(warp) ==
    /\ DOMAIN detections = Range(Sources) /\ views = <<>>
    /\ views' = <<ViewInput(Sources[1], 0), ViewInput(Sources[2], warp)>>
    /\ UNCHANGED <<shots, detections, fusion>>

Fuse ==
    /\ views # <<>> /\ fusion = NoFusion
    /\ fusion' = FuseLandmarks(views)
    /\ UNCHANGED <<shots, detections, views>>

NextCapture ==
    /\ fusion # NoFusion
    /\ shots' = <<>> /\ detections' = <<>> /\ views' = <<>> /\ fusion' = NoFusion

VisionNext ==
    \/ \E i \in DOMAIN Sources : \E shot \in Shots[Sources[i]] : Detect(Sources[i], shot)
    \/ \E warp \in Shifts \cup {0} : FusionViews(warp)
    \/ Fuse
    \/ NextCapture

VisionSpec == VisionInit /\ [][VisionNext]_visionVars

-----------------------------------------------------------------------------

(***************************************************************************)
(* The two hands of a view are different candidates, and none was taken    *)
(* while a hand left over would do almost as well, whether the hands came  *)
(* from the whole image or from a crop.                                    *)
(***************************************************************************)
HandsUnambiguous ==
    \A d \in DOMAIN detections :
        LET arms == BodyArms(detections[d].body)
            cands == Candidates(shots[d], arms)
            hand == AssociateHands(cands, arms)
        IN  \A s \in DOMAIN hand :
                /\ \A t \in DOMAIN hand \ {s} : hand[t] # hand[s]
                /\ \A i \in DOMAIN cands \ Range(hand) :
                       ScoreCandidate(cands[hand[s]], arms, s) - ScoreCandidate(cands[i], arms, s)
                           >= MinMargin

(***************************************************************************)
(* A landmark placed by the depth of one view lies on a surface of enough  *)
(* samples of its window: near a silhouette's edge it is not put between   *)
(* the body and what is behind it.                                         *)
(***************************************************************************)
OnTheSurface ==
    LET Near(i, n) ==
            LET z == OpticalDepth(views[i], fusion.landmarks[n].at - views[i].warp)
                window == views[i].depth[views[i].seen[n].pixel]
            IN  {j \in DOMAIN window : Usable(window[j]) /\ Gap(window[j].z, z) <= 2 * Discontinuity}
    IN  \A n \in DOMAIN fusion.landmarks :
            LET lm == fusion.landmarks[n]
            IN  (lm.source = "depth_neighborhood" /\ Cardinality(lm.by) = 1) =>
                    \E i \in lm.by : Cardinality(Near(i, n)) >= MinSupport

(***************************************************************************)
(* Whenever a pose prior was registered, no landmark of the unwarped body  *)
(* is farther from the subject than the gate and the residual allow:       *)
(* what stood in front of a joint does not become the joint.               *)
(***************************************************************************)
PoseRegistered == RegisterPose(views, ObservedLandmarks(views)).ok

SkeletonNearSubject ==
    (fusion.status = "fused" /\ ~views[2].forced /\ PoseRegistered) =>
        \A n \in DOMAIN fusion.landmarks \cap PoseNames :
            Gap(fusion.landmarks[n].at, Subject[n]) <= PoseGate + MaxRms

=============================================================================
