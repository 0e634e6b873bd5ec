--------------------------- MODULE LandmarkFusion ---------------------------
(***************************************************************************)
(* How the views of a capture become one skeleton (vision/landmarks.py,    *)
(* triangulation.py, registration.py).  The stage is a line along which    *)
(* the views look from their origins: positions and depths are integers    *)
(* (centimetres), where two rays meet is a table, and the similarity that  *)
(* fits a model prior to the stage is a shift.                             *)
(*                                                                         *)
(* A landmark found nowhere is not in the domain of the function that      *)
(* holds the landmarks.  Confidences are left out, but not the look-up of  *)
(* the nose's that fails.                                                  *)
(***************************************************************************)
EXTENDS DepthSampling, FiniteSetsExt

CONSTANTS
    PoseNames, HandNames,       \* the model's landmarks
    HandName(_, _),             \* the canonical name of a hand's landmark
    PoseAnchors, HandAnchors,   \* POSE_ANCHOR_NAMES, HAND_ANCHOR_NAMES
    MinAnchors, MinHandAnchors, \* min_anchors, min_hand_anchors
    Huber,                      \* huber_delta_m
    MaxRms, MaxHandRms,         \* max_rms_residual_m, max_hand_rms_residual_m
    Crossing(_, _),             \* where the rays of two pixels meet
    MinAngle, MaxReprojection,  \* min_ray_angle_deg, max_reprojection_px
    MaxBehind, MaxInFront,      \* max_behind_surface_m, max_in_front_of_surface_m
    MinVeto,                    \* min_depth_support_for_veto
    MinQuality,                 \* min_depth_quality
    Agreement,                  \* two_view_depth_agreement_m
    HeadBack,                   \* head_center_back_offset_m
    PoseGate, HandGate          \* single_view_depth_prior_gate_m, ..._hand_...

\* Names are prefixed with the part they are of; what is constructed is not a model's landmark.
ASSUME FusionAssumption ==
    /\ IsFiniteSet(PoseAnchors) /\ PoseAnchors \subseteq PoseNames
    /\ \A side \in {"left", "right"} : \A s \in HandNames : HandName(side, s) \notin PoseNames
    /\ {"pelvis_center", "head_center"} \cap PoseNames = {}
    /\ MaxRms \in Nat /\ PoseGate \in Nat /\ MinQuality \in Nat \ {0}

Absent == [source |-> "unavailable"]
Rejected == [ok |-> FALSE]

\* What f has, and what g has where f has nothing.
Over(f, g) == [n \in DOMAIN f \cup DOMAIN g |-> IF n \in DOMAIN f THEN f[n] ELSE g[n]]

(***************************************************************************)
(* The observations of one view by canonical name.                         *)
(***************************************************************************)
Named(side, hand) ==
    [n \in {HandName(side, s) : s \in DOMAIN hand} |->
        hand[CHOOSE s \in DOMAIN hand : HandName(side, s) = n]]

Canonical2D(view) ==
    Over(view.body, Over(Named("left", view.hands["left"]), Named("right", view.hands["right"])))

DepthObservations(view) ==
    LET samples == ObserveLandmarks(view, Canonical2D(view))
    IN  [n \in DOMAIN samples |-> [samples[n] EXCEPT !.at = @ + view.warp]]

WithObservations(view) ==
    [view EXCEPT !.seen = Canonical2D(view), !.samples = DepthObservations(view)]

(***************************************************************************)
(* A ray intersection is used when the rays are not near parallel, meet in *)
(* front of both cameras and project back to the pixels they came from.    *)
(***************************************************************************)
Triangulate(a, b) ==
    LET c == Crossing(a, b)
    IN  IF \/ c.angle < MinAngle \/ c.angle > 180 - MinAngle
           \/ c.s <= 0 \/ c.t <= 0
           \/ c.error > MaxReprojection
        THEN Rejected
        ELSE [ok |-> TRUE, at |-> c.at]

OpticalDepth(view, at) == view.direction * (at - view.origin)

CompatibleWithDepth(view, sample, at) ==
    sample.support >= MinVeto =>
        OpticalDepth(view, at) \in sample.z - MaxInFront .. sample.z + MaxBehind

(***************************************************************************)
(* Triangulation first, then the depth that two views agree on, then the   *)
(* better of the depths; the first view wins ties.                         *)
(***************************************************************************)
DepthHere(views, name) ==
    {i \in DOMAIN views : name \in DOMAIN views[i].samples /\ views[i].samples[name].quality >= MinQuality}

ValidIn(views, name) == {i \in DOMAIN views : name \in DOMAIN views[i].seen /\ views[i].seen[name].valid}

TriangulatedHere(views, name) ==
    IF (\E i \in DOMAIN views : views[i].forced) \/ ValidIn(views, name) # {1, 2} THEN Rejected
    ELSE LET t == Triangulate(views[1].seen[name].pixel, views[2].seen[name].pixel)
         IN  IF t.ok /\ \A i \in DepthHere(views, name) :
                            CompatibleWithDepth(views[i], views[i].samples[name], t.at)
             THEN t ELSE Rejected

Average(a, b) == (a.at * a.quality + b.at * b.quality) \div (a.quality + b.quality)

FuseObserved(views, name) ==
    LET t == TriangulatedHere(views, name)
        here == DepthHere(views, name)
        Sample(i) == views[i].samples[name]
        best == CHOOSE i \in here : \A j \in here : \/ Sample(j).quality < Sample(i).quality
                                                    \/ Sample(j).quality = Sample(i).quality /\ i <= j
    IN  IF t.ok THEN [at |-> t.at, source |-> "triangulated", by |-> {1, 2}]
        ELSE IF here = {} THEN Absent
        ELSE IF here = {1, 2} /\ Gap(Sample(1).at, Sample(2).at) <= Agreement
        THEN [at |-> Average(Sample(1), Sample(2)), source |-> "depth_neighborhood", by |-> {1, 2}]
        ELSE [at |-> Sample(best).at, source |-> "depth_neighborhood", by |-> {best}]

FoundIn(views) == UNION {DOMAIN views[i].seen : i \in DOMAIN views}

ObservedLandmarks(views) ==
    LET lm == [n \in FoundIn(views) |-> FuseObserved(views, n)]
    IN  [n \in {m \in FoundIn(views) : lm[m] # Absent} |-> lm[n]]

(***************************************************************************)
(* A prior is fitted to the anchors that were observed: most of them must  *)
(* agree, closely.  Anchors in one place determine nothing.                *)
(***************************************************************************)
Register(prior, anchors, least, maxRms) ==
    LET shift == Median([n \in DOMAIN anchors |-> anchors[n] - prior[n]])
        Residual(n) == Gap(anchors[n], prior[n] + shift)
        inliers == {n \in DOMAIN anchors : Residual(n) <= 2 * Huber}
        rms == MapThenSumSet(Residual, inliers) \div Cardinality(inliers)
    IN  IF \/ Cardinality(DOMAIN anchors) < least
           \/ \A n, m \in DOMAIN anchors : anchors[n] = anchors[m]
           \/ \A n, m \in DOMAIN anchors : prior[n] = prior[m]
           \/ Cardinality(inliers) < least
           \/ rms > maxRms
        THEN Rejected
        ELSE [ok |-> TRUE, shift |-> shift, rms |-> rms,
              stage |-> [n \in DOMAIN prior |-> prior[n] + shift]]

(***************************************************************************)
(* The prior of the view that fits best; the first view wins ties.         *)
(***************************************************************************)
BestOf(fits) ==
    IF fits[2].ok /\ (~fits[1].ok \/ fits[2].rms < fits[1].rms) THEN fits[2] ELSE fits[1]

RegisterPose(views, observed) ==
    LET anchors == [n \in PoseAnchors \cap DOMAIN observed |-> observed[n].at]
    IN  BestOf([i \in DOMAIN views |->
            IF views[i].prior = <<>> THEN Rejected
            ELSE Register(views[i].prior, anchors, MinAnchors, MaxRms)])

RegisterHand(views, side, observed) ==
    LET anchors == [n \in {a \in HandAnchors : HandName(side, a) \in DOMAIN observed}
                     |-> observed[HandName(side, n)].at]
    IN  BestOf([i \in DOMAIN views |->
            IF side \notin DOMAIN views[i].handPriors THEN Rejected
            ELSE Register(views[i].handPriors[side], anchors, MinHandAnchors, MaxHandRms)])

(***************************************************************************)
(* A lone sample far from the prior is of something in front of it.        *)
(***************************************************************************)
\* Bug: what two views agree on is gated, a lone sample is not.
OccluderHitAgreed(lm, at, gate) ==
    lm.source = "depth_neighborhood" /\ Cardinality(lm.by) # 1 /\ Gap(lm.at, at) > gate

OccluderHit(lm, at, gate) ==
    lm.source = "depth_neighborhood" /\ Cardinality(lm.by) = 1 /\ Gap(lm.at, at) > gate

WithPrior(filled, stage, gate) ==
    [n \in DOMAIN filled \cup DOMAIN stage |->
        IF n \notin DOMAIN filled THEN [at |-> stage[n], source |-> "registered_model_prior", by |-> {}]
        ELSE IF n \in DOMAIN stage /\ OccluderHit(filled[n], stage[n], gate)
        THEN [at |-> stage[n], source |-> "registered_model_prior", by |-> {}]
        ELSE filled[n]]

WithPose(views, observed) ==
    LET fit == RegisterPose(views, observed)
    IN  IF fit.ok THEN WithPrior(observed, fit.stage, PoseGate) ELSE observed

(***************************************************************************)
(* A hand hangs from the body's wrist, unless that is a prior itself.      *)
(***************************************************************************)
Wrist(side) == IF side = "left" THEN "left_wrist" ELSE "right_wrist"

Attached(filled, side, stage) ==
    LET w == Wrist(side)
        attach == IF w \in DOMAIN filled /\ filled[w].source # "registered_model_prior"
                  THEN filled[w].at - stage["wrist"] ELSE 0
    IN  Named(side, [n \in DOMAIN stage |-> stage[n] + attach])

WithHand(views, observed, filled, side) ==
    LET fit == RegisterHand(views, side, observed)
    IN  IF fit.ok THEN WithPrior(filled, Attached(filled, side, fit.stage), HandGate) ELSE filled

(***************************************************************************)
(* The constructed landmarks.  Without both ears the head lies behind the  *)
(* face, away from where it looks, with half the confidence of the nose.   *)
(***************************************************************************)
Middle(filled, a, b) == [at |-> (filled[a].at + filled[b].at) \div 2, source |-> "derived", by |-> {}]

Face == {"nose", "left_eye", "right_eye", "left_ear", "right_ear"}

Facing(filled) ==
    LET face == Face \cap DOMAIN filled
    IN  MapThenSumSet(LAMBDA n : filled[n].at, face) \div Cardinality(face)
        - (filled["left_shoulder"].at + filled["right_shoulder"].at) \div 2

FromFace(filled) ==
    /\ ~ {"left_ear", "right_ear"} \subseteq DOMAIN filled
    /\ Face \cap DOMAIN filled # {}
    /\ {"left_shoulder", "right_shoulder"} \subseteq DOMAIN filled
    /\ Facing(filled) # 0

HeadCenter(filled) ==
    LET ahead == IF Facing(filled) > 0 THEN 1 ELSE -1
    IN  [at |-> (filled["left_shoulder"].at + filled["right_shoulder"].at) \div 2
                + Facing(filled) - ahead * HeadBack,
         source |-> "derived", by |-> {}]

Derive(filled) ==
    LET hips == {"left_hip", "right_hip"} \subseteq DOMAIN filled
        ears == {"left_ear", "right_ear"} \subseteq DOMAIN filled
        built == (IF hips THEN {"pelvis_center"} ELSE {})
                 \cup (IF ears \/ FromFace(filled) THEN {"head_center"} ELSE {})
    IN  [n \in built |-> IF n = "pelvis_center" THEN Middle(filled, "left_hip", "right_hip")
                         ELSE IF ears THEN Middle(filled, "left_ear", "right_ear")
                         ELSE HeadCenter(filled)]

LookupFails(filled) == FromFace(filled) /\ "nose" \notin DOMAIN filled

Completed(filled) ==
    IF LookupFails(filled) THEN [status |-> "KeyError", landmarks |-> <<>>]
    ELSE [status |-> "fused", landmarks |-> Over(Derive(filled), filled)]

FuseLandmarks(views) ==
    LET observed == ObservedLandmarks(views)
        left == WithHand(views, observed, WithPose(views, observed), "left")
    IN  Completed(WithHand(views, observed, left, "right"))
=============================================================================
