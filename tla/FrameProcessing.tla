--------------------------- MODULE FrameProcessing ---------------------------
(***************************************************************************)
(* A paired capture on its way to a published character frame              *)
(* (pipeline/processor.py, assembler.py, the end of _handle_rgbd_locked):  *)
(* both views are reconstructed, brought into one frame, fused, fitted,    *)
(* assembled, encoded and published.  The worker thread takes these steps; *)
(* between them the event loop may ask for a registration, and between two *)
(* pairs it may install a new rig.                                         *)
(*                                                                         *)
(* The placement of a view is one number, the correction of its stage pose.*)
(* A pair is what its frames show: a body (see BodyFitting) whose points   *)
(* name the view they come from, and the profile of each view (see         *)
(* BodyMerge).                                                             *)
(***************************************************************************)
EXTENDS BodyFitting, BodyMerge

CONSTANTS
    Views,          \* the two devices, <<pair.first, pair.second>>
    Reference,      \* front_device_id
    Pairs,          \* what a pair may show: [body, profile, tracking, landmarks]
    Profiles,       \* the profiles a view may have, by name
    Budget,         \* max_points of the settings
    Shifts,         \* what a registration may want to move a view by
    MaxRefine,      \* the farthest a refinement may move a view
    MaxRigs, MaxFrames      \* bounds of the model: rigs installed, frames assembled

\* A side of a body as the quantiles give it; a width is an even number of
\* centimetres, so that its half is exact.
IsProfile(v) ==
    /\ v.floor \in Int /\ v.top \in Int
    /\ \A j \in DOMAIN v.joints : v.joints[j] \in Int
    /\ \A y \in DOMAIN v.at : /\ v.at[y].left \in Int /\ v.at[y].right \in Int
                             /\ v.at[y].inner \in Int /\ v.at[y].middle \in Int
                             /\ v.at[y].count \in Nat
                             /\ v.at[y].left % 2 = 0 /\ v.at[y].right % 2 = 0

\* What fuse_landmarks returns: canonical names, and no valid landmark without
\* a finite position.
AreLandmarks(landmarks) ==
    /\ IsSequence(landmarks) /\ Len(landmarks) <= MaxLandmarks
    /\ \A i \in DOMAIN landmarks :
          landmarks[i] \in [valid : BOOLEAN, position : {"none", "finite"}, name : {landmarks[i].name}]
          /\ landmarks[i].name # ""

ASSUME ProcessingAssumption ==
    /\ IsSequence(Views) /\ Len(Views) = 2 /\ Views[1] # Views[2]
    /\ Reference \in {Views[1], Views[2]}
    /\ Shifts \subseteq Int /\ MaxRefine \in Nat /\ Budget \in Nat
    /\ \A name \in DOMAIN Profiles : IsProfile(Profiles[name])
    /\ \A pair \in Pairs :
          /\ \A i \in DOMAIN Required :
                LET place == pair.body.place[Required[i].id]
                IN  /\ place.spread \in Nat
                    /\ \A k \in DOMAIN Required[i].dimensions : place.measured[k] \in Int
          /\ IsFiniteSet(pair.body.cloud)
          /\ \A i \in DOMAIN Views : pair.profile[Views[i]] \in DOMAIN Profiles
          /\ AreLandmarks(pair.landmarks)

VARIABLES
    opposing,       \* opposing_body_merge
    rig,            \* the calibration in use: its number, and whether it has a board
    corrections,    \* _corrections: corrections of views registered on the body
    requested,      \* _register_requested
    mergeStatus,    \* body_merge_status
    subject,        \* SubjectDimensions of the fitter
    nextFrameId,    \* of the FrameAssembler
    work,           \* the process() call that runs
    published       \* the last frame published and its message

vars == <<opposing, rig, corrections, requested, mergeStatus, subject,
          nextFrameId, work, published>>

Devices == {Views[1], Views[2]}

Idle == [step |-> "idle"]
Nothing == [frameId |-> 0]

InitialMerge == IF opposing THEN "waiting" ELSE "disabled"

Init ==
    /\ opposing \in BOOLEAN
    /\ rig \in [id : {1}, board : BOOLEAN]
    /\ corrections = <<>> /\ requested = FALSE
    /\ mergeStatus = InitialMerge
    /\ subject = Stranger
    /\ nextFrameId = 1 /\ work = Idle /\ published = Nothing

(***************************************************************************)
(* Reconstruction.  A view is where its points were put and how many are   *)
(* left (a forced opposing assembly crops to the stage only afterwards).   *)
(* Intrinsics that cannot be right raise an error before anything changes. *)
(***************************************************************************)
EffectivePlacement(dev) ==
    IF rig.board \/ opposing \/ dev \notin DOMAIN corrections THEN 0 ELSE corrections[dev]

PointsFrom(body, dev) == {p \in body.cloud : p.view = dev}

NoWarp == [profile |-> <<>>, shift |-> 0]

\* Bug: a correction is not applied to the points.
ReconstructViewUncorrected(body, dev, placement) ==
    [points |-> PointsFrom(body, dev), placement |-> 0, warp |-> NoWarp]

ReconstructView(body, dev, placement) ==
    [points |-> PointsFrom(body, dev), placement |-> placement, warp |-> NoWarp]

Viewed(pair, mode, effective) ==
    [step |-> "viewed", pair |-> pair, mode |-> mode, effective |-> effective, warps |-> <<>>,
     clouds |-> [dev \in Devices |-> ReconstructView(pair.body, dev, effective[dev])]]

Process(pair, mode) ==
    /\ work = Idle /\ nextFrameId <= MaxFrames
    /\ work' = Viewed(pair, mode, [dev \in Devices |-> EffectivePlacement(dev)])
    /\ UNCHANGED <<opposing, rig, corrections, requested, mergeStatus, subject,
                   nextFrameId, published>>

(***************************************************************************)
(* The views with their final calibrations, warps and points.              *)
(***************************************************************************)
Aligned(effective, warps, clouds) ==
    [step |-> "aligned", pair |-> work.pair, mode |-> work.mode,
     effective |-> effective, warps |-> warps, clouds |-> clouds]

WarpOf(warps, dev) == IF dev \in DOMAIN warps THEN warps[dev] ELSE NoWarp

Warped(cloud, warp) == [points |-> cloud.points, placement |-> cloud.placement, warp |-> warp]

(***************************************************************************)
(* Registration of the other view onto the reference.  The first pass may  *)
(* move a view anywhere; once it has a correction, a refinement that wants *)
(* to move it far has locked onto a wrong match and is dropped.            *)
(***************************************************************************)
Others == Devices \ {Reference}

Register(dev, match) ==
    IF ~match.good \/ (dev \in DOMAIN corrections /\ match.shift \notin -MaxRefine .. MaxRefine)
    THEN corrections
    ELSE [d \in DOMAIN corrections \cup {dev} |->
            IF d = dev THEN (IF dev \in DOMAIN corrections THEN corrections[dev] ELSE 0) + match.shift
            ELSE corrections[d]]

RegisterViews ==
    /\ work.step = "viewed" /\ ~opposing /\ requested /\ ~rig.board
    /\ requested' = FALSE
    /\ \E dev \in Others, match \in [good : BOOLEAN, shift : Shifts] :
          /\ corrections' = Register(dev, match)
          /\ work' = Aligned(
                [d \in Devices |-> IF d \in DOMAIN corrections' THEN corrections'[d] ELSE 0], <<>>,
                [d \in Devices |-> IF d \in DOMAIN corrections'
                                   THEN ReconstructView(work.pair.body, d, corrections'[d])
                                   ELSE work.clouds[d]])
    /\ UNCHANGED <<opposing, rig, mergeStatus, subject, nextFrameId, published>>

(***************************************************************************)
(* A registration must never follow a forced opposing assembly: the        *)
(* request is thrown away.  The rear view is warped only when the assembly *)
(* succeeds.                                                               *)
(***************************************************************************)
ProfileOf(dev) == Profiles[work.pair.profile[dev]]

Merge ==
    IF ~work.pair.tracking THEN Rejected("tracking_not_normal")
    ELSE AssembleBody(ProfileOf(Reference), ProfileOf(CHOOSE dev \in Others : TRUE))

AssembleOpposingBody ==
    /\ work.step = "viewed" /\ opposing
    /\ requested' = FALSE
    /\ mergeStatus' = Merge.state
    /\ work' = IF Merge.state = "applied"
               THEN Aligned(work.effective, [dev \in Others |-> Merge.warp],
                            [dev \in Devices |-> IF dev \in Others THEN Warped(work.clouds[dev], Merge.warp)
                                                 ELSE work.clouds[dev]])
               ELSE Aligned(work.effective, <<>>, work.clouds)
    /\ UNCHANGED <<opposing, rig, corrections, subject, nextFrameId, published>>

KeepViews ==
    /\ work.step = "viewed" /\ ~opposing /\ ~(requested /\ ~rig.board)
    /\ work' = Aligned(work.effective, <<>>, work.clouds)
    /\ UNCHANGED <<opposing, rig, corrections, requested, mergeStatus, subject,
                   nextFrameId, published>>

(***************************************************************************)
(* Fusion and fitting.  The points of a pair lie in different voxels, so   *)
(* that one of each is all of them; a cloud beyond the budget is reduced   *)
(* to a random selection of its points.  A fit teaches the fitter at once; *)
(* only tests call set_planted, so feet are classified automatically.      *)
(***************************************************************************)
Subsamples(points) ==
    IF Cardinality(points) <= Budget THEN {points} ELSE kSubset(Budget, points)

MergeClouds(clouds) == Subsamples(UNION {clouds[dev].points : dev \in Devices})

FitFrame ==
    /\ work.step = "aligned"
    /\ \E merged \in MergeClouds(work.clouds) :
          LET fit == FitCharacter([place |-> work.pair.body.place, cloud |-> merged],
                                  subject, "automatic")
          IN  /\ subject' = fit.subject
              /\ work' = [step |-> "fitted", landmarks |-> work.pair.landmarks, mode |-> work.mode,
                          cloud |-> merged, typed |-> fit.typed, outcomes |-> fit.outcomes]
    /\ UNCHANGED <<opposing, rig, corrections, requested, mergeStatus,
                   nextFrameId, published>>

(***************************************************************************)
(* Assembly takes a frame number only when it succeeds; an empty live      *)
(* frame is assembled but not published.                                   *)
(***************************************************************************)
CharacterFrameOf(w) ==
    [mode |-> w.mode, frameId |-> nextFrameId, sources |-> 2, landmarks |-> w.landmarks,
     colliders |-> [i \in DOMAIN w.typed |-> ToTransport(w.typed[i])],
     cloud |-> LET n == Cardinality(w.cloud)
               IN  [count |-> n, rgbaCount |-> n, maskCount |-> n, finite |-> TRUE, opaque |-> TRUE,
                    mask |-> {i - 1 : i \in {i \in DOMAIN Views : \E p \in w.cloud : p.view = Views[i]}}]]

PublishFrame ==
    /\ work.step = "fitted"
    /\ LET frame == CharacterFrameOf(work)
           encoded == EncodeCharacterFrame(frame, 1)
           assembled == Assembles(rig.id, rig.id, frame.cloud, frame.landmarks, frame.colliders)
       IN  /\ nextFrameId' = IF assembled THEN nextFrameId + 1 ELSE nextFrameId
           /\ published' = IF /\ assembled
                              /\ ~(work.mode = "live" /\ work.cloud = {})
                              /\ encoded.code = "ok"
                           THEN [frameId |-> nextFrameId, typed |-> work.typed,
                                 landmarks |-> frame.landmarks, message |-> encoded.message]
                           ELSE published
    /\ work' = Idle
    /\ UNCHANGED <<opposing, rig, corrections, requested, mergeStatus, subject>>

(***************************************************************************)
(* The event loop.  A new rig comes with a new processor and a new fitter, *)
(* which keep only the assembler.                                          *)
(***************************************************************************)
RequestRegistration ==
    /\ ~requested /\ requested' = TRUE
    /\ UNCHANGED <<opposing, rig, corrections, mergeStatus, subject, nextFrameId,
                   work, published>>

InstallRig ==
    /\ work = Idle /\ rig.id < MaxRigs
    /\ rig' = [id |-> rig.id + 1, board |-> TRUE]
    /\ corrections' = <<>> /\ requested' = FALSE
    /\ mergeStatus' = InitialMerge
    /\ subject' = Stranger
    /\ UNCHANGED <<opposing, nextFrameId, work, published>>

Next ==
    \/ \E pair \in Pairs, mode \in {"snapshot", "live"} : Process(pair, mode)
    \/ RegisterViews \/ AssembleOpposingBody \/ KeepViews
    \/ FitFrame \/ PublishFrame
    \/ RequestRegistration
    \/ InstallRig

Spec == Init /\ [][Next]_vars
-----------------------------------------------------------------------------
(***************************************************************************)
(* Whatever registration, opposing assembly or a new rig did to the views  *)
(* on the way, the points that are fused were put where the calibrations   *)
(* and warps given to the fitter say; and a rig with a board, or a forced  *)
(* assembly, is never corrected by what a body looked like                 *)
(* (processor.py:130-136, 272-319, 337-344).                               *)
(***************************************************************************)
FusedWhereFitted ==
    work.step \in {"viewed", "aligned"} =>
        \A dev \in Devices :
            /\ work.clouds[dev].placement = work.effective[dev]
            /\ work.clouds[dev].warp = WarpOf(work.warps, dev)
            /\ rig.board \/ opposing => work.effective[dev] = 0

(***************************************************************************)
(* After a forced assembly the two views make one body: at every height    *)
(* the warp was measured at, the rear view's silhouette is the front's,    *)
(* its points are behind the front's by the thickness of a body, and its   *)
(* inner side meets the front's or is farther back for that thickness      *)
(* alone - although the warp is measured on a raised copy of the view and  *)
(* applied to the points where they were (body_merge.py:60-81, 150-176).   *)
(***************************************************************************)
OpposingViewsMeet ==
    work.step = "aligned" =>
        \A dev \in DOMAIN work.warps : \A i \in DOMAIN work.warps[dev].profile :
            LET warp == work.warps[dev]
                y == warp.profile[i].y
                f == ProfileOf(Reference).at[y]
                r == ProfileOf(dev).at[y - warp.shift]
                Moved(x, z) == Applied(warp, [x |-> x, y |-> y - warp.shift, z |-> z])
            IN  /\ Moved(r.left, 0).x = f.left /\ Moved(r.right, 0).x = f.right
                /\ Moved(r.left, r.inner).z <= f.inner + SeamOverlap
                /\ Moved(r.left, r.middle).z <= f.middle - MinThickness
                /\ \/ Moved(r.left, r.inner).z = f.inner + SeamOverlap
                   \/ Moved(r.left, r.middle).z = f.middle - MinThickness

(***************************************************************************)
(* A collider is labelled "observed" only when enough points of this very  *)
(* frame measured it, however many segments compete for them               *)
(* (fit_capsule.py:115-136, fit_hand.py:146-194, contracts.md:496).        *)
(***************************************************************************)
ObservedMeansMeasured ==
    work.step = "fitted" =>
        \A i \in DOMAIN Required :
            LET c == work.typed[i]
                updates == work.outcomes[i].updates
            IN  c.enabled /\ Required[i].id # "torso.pelvis" =>
                    (c.source = "observed" <=> updates # <<>>)
                    /\ \A k \in DOMAIN updates :
                          updates[k].est.samples \in MinSupport[Required[i].part] .. Cardinality(work.cloud)

(***************************************************************************)
(* What a pose teaches is kept: until another rig is installed a measured  *)
(* dimension is only replaced by a well-sampled one, and a well-sampled    *)
(* one only by a clearly tighter one (subject.py:13-15, 37-49).            *)
(***************************************************************************)
SubjectNeverRegresses ==
    [][\A d \in Dimensions :
          rig' = rig /\ subject'[d] # subject[d] /\ subject[d].source = "observed" =>
              /\ subject'[d].source = "observed" /\ subject'[d].samples >= MinSamples
              /\ subject[d].samples < MinSamples \/ subject'[d].spread < subject[d].spread]_vars

(***************************************************************************)
(* A collider that failed validation teaches nothing: what the subject     *)
(* learns was measured by a collider that is part of the frame             *)
(* (fitter.py:166-176).                                                    *)
(***************************************************************************)
LearnedFromValidated ==
    [][rig' = rig =>
          \A d \in Dimensions : subject'[d] # subject[d] =>
              \E i \in DOMAIN Required :
                  /\ work'.step = "fitted" /\ work'.typed[i].enabled
                  /\ \E k \in DOMAIN work'.outcomes[i].updates :
                        work'.outcomes[i].updates[k] = [of |-> d, est |-> subject'[d]]]_vars

(***************************************************************************)
(* A frame with points that is published is decoded by the backend's own   *)
(* decoder and by the mod's, and they find in it the landmarks that were   *)
(* valid and the colliders that were enabled, no more and no less          *)
(* (character_codec.py, character_decode.py:3-8).                          *)
(***************************************************************************)
PublishedIsReadable ==
    published # Nothing /\ published.message.header.pointCount > 0 =>
        LET m == published.message
        IN  /\ DecodeCharacterFrame(m) = "ok" /\ JavaDecode(m) = "ok"
            /\ \A i \in DOMAIN published.landmarks :
                  DecodedLandmark(m.header.landmarks[i]) = DecodedLandmark(published.landmarks[i])
            /\ \A i \in DOMAIN Required :
                  /\ m.header.colliders[i].id = Required[i].id
                  /\ m.header.colliders[i].valid <=> published.typed[i].enabled

=============================================================================
