---------------------------- MODULE DepthSampling ----------------------------
(***************************************************************************)
(* The surface depth at a landmark (vision/depth_sampling.py): a window    *)
(* around its pixel, grown while too few samples support it, from which    *)
(* samples across a depth discontinuity are dropped.                       *)
(*                                                                         *)
(* A window is a function from its places to samples, each with its ring   *)
(* (the distance from the landmark's pixel), depth, and what the masks and *)
(* the sensor say of it.  Depths are in centimetres.                       *)
(***************************************************************************)
EXTENDS Medians

CONSTANTS
    Radius, MaxRadius,      \* radius_px, max_radius_px
    MinSupport,             \* min_support
    Discontinuity,          \* discontinuity_abs_m, wider than the relative one here
    MaskSource,             \* mask_source: "depth", "mediapipe" or "union"
    MaxRange,               \* max_range_m
    DepthMin, DepthMax,     \* depth_min_m, depth_max_m
    FullSupport, FullSpread \* support and spread at which the quality saturates

ASSUME SamplingAssumption ==
    /\ Radius \in Nat /\ MaxRadius \in Nat /\ Radius <= MaxRadius
    /\ MinSupport \in Nat \ {0} /\ FullSupport \in Nat \ {0} /\ FullSpread \in Nat \ {0}
    /\ Discontinuity \in Nat /\ DepthMin \in Nat /\ DepthMax \in Nat

IsWindow(window) ==
    /\ IsFiniteSet(DOMAIN window)
    /\ \A i \in DOMAIN window : window[i].ring \in Nat /\ window[i].z \in Int

NoSample == [support |-> 0]

Gap(a, b) == IF a < b THEN b - a ELSE a - b

Depths(window, S) == [i \in S |-> window[i].z]

(***************************************************************************)
(* Samples near the pixel weigh more: 1 / (1 + distance), in sixtieths.    *)
(* A sample counts as often as it weighs; the weighted median is the least *)
(* depth up to which half of the weight lies.                              *)
(***************************************************************************)
NearWeight(sample) == 60 \div (1 + sample.ring)

Heavy(window, S) == {p \in S \X (1 .. 60) : p[2] <= NearWeight(window[p[1]])}

WeightedMedian(window, S) ==
    LET half == {z \in Range(Depths(window, S)) :
                    2 * Cardinality({p \in Heavy(window, S) : window[p[1]].z <= z})
                        >= Cardinality(Heavy(window, S))}
    IN  CHOOSE z \in half : \A y \in half : z <= y

(***************************************************************************)
(* The silhouette may come from the colour image, from the depth image, or *)
(* from either.                                                            *)
(***************************************************************************)
InMask(sample) ==
    \/ MaskSource # "mediapipe" /\ sample.lidar
    \/ MaskSource # "depth" /\ sample.rgb

Usable(sample) == InMask(sample) /\ sample.sure /\ sample.z \in DepthMin .. DepthMax

InWindow(window, radius) == {i \in DOMAIN window : window[i].ring <= radius /\ Usable(window[i])}

\* Bug: samples across the discontinuity stay.
SameSurfaceAcross(window, S) == S

SameSurface(window, S) ==
    {i \in S : Gap(window[i].z, Median(Depths(window, S))) <= Discontinuity}

DepthOf(window, kept) ==
    LET depth == WeightedMedian(window, kept)
    IN  [z |-> depth, support |-> Cardinality(kept),
         spread |-> Median([i \in kept |-> Gap(window[i].z, depth)])]

RobustDepthAt(window) ==
    LET Kept(r) == SameSurface(window, InWindow(window, r))
        radii == {r \in Radius .. MaxRadius :
                     /\ Cardinality(InWindow(window, r)) >= MinSupport
                     /\ Cardinality(Kept(r)) >= MinSupport}
    IN  IF radii = {} THEN NoSample
        ELSE DepthOf(window, Kept(CHOOSE r \in radii : \A q \in radii : r <= q))

(***************************************************************************)
(* In percent: half for support, half for a tight spread.                  *)
(***************************************************************************)
Quality(sample) ==
    (IF sample.support >= FullSupport THEN 50 ELSE (50 * sample.support) \div FullSupport)
    + (IF sample.spread >= FullSpread THEN 0 ELSE 50 - (50 * sample.spread) \div FullSpread)

(***************************************************************************)
(* The valid landmarks of a view that have a surface within range, on the  *)
(* stage: a view sits at its origin and looks along its direction.         *)
(***************************************************************************)
OnStage(view, sample) ==
    [at |-> view.origin + view.direction * sample.z, z |-> sample.z,
     support |-> sample.support, quality |-> Quality(sample)]

ObserveLandmarks(view, landmarks) ==
    LET sample == [n \in {m \in DOMAIN landmarks : landmarks[m].valid} |->
                      RobustDepthAt(view.depth[landmarks[n].pixel])]
        backed == {n \in DOMAIN sample : sample[n] # NoSample /\ sample[n].z <= MaxRange}
    IN  [n \in backed |-> OnStage(view, sample[n])]
=============================================================================
