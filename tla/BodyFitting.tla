----------------------------- MODULE BodyFitting -----------------------------
(***************************************************************************)
(* Colliders from landmarks and a merged cloud, and what the fits teach    *)
(* about the subject (colliders/fitter.py, fit_*.py, subject.py).  Each    *)
(* fitter is a ladder: disabled without the landmarks that place the       *)
(* collider; measured from the surface points that belong to it when there *)
(* are enough; otherwise sized by what earlier poses taught, or by a       *)
(* global default, with a label that says so.                              *)
(*                                                                         *)
(* What one pose shows of the body is a record: for every collider what    *)
(* its landmarks give (place), and the cloud as a set of points with their *)
(* distance to each body segment.                                          *)
(***************************************************************************)
EXTENDS CharacterWire

CONSTANTS
    Default,        \* Default[d]: the global default of dimension d
    MinSamples,     \* subject_min_samples
    MinSupport,     \* MinSupport[part]: points a measured fit needs
    FingerExtent,   \* hand_min_finger_extent_m
    Reach           \* 0.25 m: a point farther from every segment belongs to none

ASSUME FittingAssumption ==
    /\ MinSamples \in Nat /\ Reach \in Nat
    /\ \A d \in DOMAIN Default : Default[d] \in Nat
    /\ \A i \in DOMAIN Required :
          /\ IsSequence(Required[i].dimensions) /\ Required[i].dimensions # <<>>
          /\ Range(Required[i].dimensions) \subseteq DOMAIN Default
          /\ Required[i].part = "hand" => Len(Required[i].dimensions) >= 2
          /\ MinSupport[Required[i].part] \in Nat
    /\ \A i, j \in DOMAIN Required :
          i # j => Range(Required[i].dimensions) \cap Range(Required[j].dimensions) = {}
                   \/ "torso.pelvis" \in {Required[i].id, Required[j].id}

Dimensions == DOMAIN Default

Sources == {"observed", "subject_default", "global_default"}

(***************************************************************************)
(* What is known of the subject: one estimate per dimension.               *)
(***************************************************************************)
Estimate(value, samples, spread) ==
    [value |-> value, source |-> "observed", samples |-> samples, spread |-> spread]

GlobalDefault(d) ==
    [value |-> Default[d], source |-> "global_default", samples |-> 0, spread |-> 0]

Stranger == [d \in Dimensions |-> GlobalDefault(d)]

Rank == [s \in Sources |-> CASE s = "observed" -> 2 [] s = "subject_default" -> 1 [] OTHER -> 0]

\* Bug: a well-sampled estimate replaces any other of its rank.
IsBetterThanIfSampled(est, other) ==
    IF Rank[est.source] # Rank[other.source] THEN Rank[est.source] > Rank[other.source]
    ELSE est.samples >= MinSamples

IsBetterThan(est, other) ==
    IF Rank[est.source] # Rank[other.source] THEN Rank[est.source] > Rank[other.source]
    ELSE /\ est.samples >= MinSamples
         /\ other.samples < MinSamples \/ 4 * est.spread < 3 * other.spread

Updated(current, est) == IF IsBetterThan(est, current) THEN est ELSE current

AsSubjectDefault(subject, d) ==
    IF subject[d].source = "observed" THEN [subject[d] EXCEPT !.source = "subject_default"]
    ELSE subject[d]

(***************************************************************************)
(* Which segment of the body a point belongs to: the nearest, measured     *)
(* outside its expected radius.  A torso is as wide as its shoulders and   *)
(* hips; every other segment as the subject.  A fitter takes the points of *)
(* its segments that lie within its own bounds.                            *)
(***************************************************************************)
BodySegments(body) == SelectSeq(Required, LAMBDA spec : body.place[spec.id].at # "missing")

ExpectedRadius(body, subject, spec) ==
    IF spec.part = "torso" THEN body.place[spec.id].halfWidth
    ELSE IF spec.part \in {"hand", "foot"} THEN subject[spec.dimensions[1]].value \div 2
    ELSE subject[spec.dimensions[1]].value

AssignPoints(point, segments, body, subject) ==
    LET outside == [i \in DOMAIN segments |->
                      point.distance[segments[i].id] - ExpectedRadius(body, subject, segments[i])]
        best == CHOOSE i \in DOMAIN segments :
                    \A j \in DOMAIN segments :
                        outside[i] < outside[j] \/ (outside[i] = outside[j] /\ i <= j)
    IN  IF segments = <<>> THEN "none"
        ELSE IF point.distance[segments[best].id] > Reach THEN "none" ELSE segments[best].id

PointsOf(spec, body, subject) ==
    Cardinality({p \in body.cloud :
                    /\ AssignPoints(p, BodySegments(body), body, subject) \in spec.segments
                    /\ spec.id \in p.within})

(***************************************************************************)
(* The fitters.  place.base is the quality of the landmarks, place.quality *)
(* that of landmarks and surface together, in percent.                     *)
(***************************************************************************)
Least(a, b) == IF a <= b THEN a ELSE b

Greatest(a, b) == IF a >= b THEN a ELSE b

SourceQuality(source, base) ==
    Least(CASE source = "observed" -> 100 [] source = "subject_default" -> 60 [] OTHER -> 35, base)

\* Bug: the label of the best of the sources.
Strongest(sources) == CHOOSE s \in sources : \A t \in sources : Rank[s] >= Rank[t]

Weakest(sources) == CHOOSE s \in sources : \A t \in sources : Rank[s] <= Rank[t]

Fitted(spec, place, size, source, base) ==
    [id |-> spec.id, type |-> spec.type, enabled |-> TRUE, source |-> source,
     quality |-> SourceQuality(source, base), vectors |-> "finite",
     size |-> Least(size, spec.cap), span |-> place.span, axes |-> "orthonormal",
     inStage |-> place.inStage]

FitUnplaced(spec) == [collider |-> Disabled(spec), updates |-> <<>>]

(***************************************************************************)
(* A limb and a head teach the radius of the collider, which is clipped to *)
(* the anatomical cap; a hand, a foot and a chest teach what was measured  *)
(* before the box is clipped.  A pelvis teaches nothing.                   *)
(***************************************************************************)
FitMeasured(spec, place, points) ==
    LET learned(i) == IF spec.part \in {"limb", "head"} THEN Least(place.measured[i], spec.cap)
                      ELSE place.measured[i]
    IN  [collider |-> Fitted(spec, place, place.measured[1], "observed", place.quality),
         updates |-> IF spec.id = "torso.pelvis" THEN <<>>
                     ELSE [i \in DOMAIN spec.dimensions |->
                              [of |-> spec.dimensions[i],
                               est |-> Estimate(learned(i), points, place.spread)]]]

FitFromSubject(spec, place, subject) ==
    LET known == [i \in DOMAIN spec.dimensions |-> AsSubjectDefault(subject, spec.dimensions[i])]
    IN  [collider |-> Fitted(spec, place, known[1].value,
                             Weakest({known[i].source : i \in DOMAIN known}), place.base),
         updates |-> <<>>]

FitFromSurface(spec, place, points, subject) ==
    IF place.at # "apart" THEN FitUnplaced(spec)
    ELSE IF points >= MinSupport[spec.part] THEN FitMeasured(spec, place, points)
    ELSE FitFromSubject(spec, place, subject)

(***************************************************************************)
(* A hand with orientation but no visible extent is sized by the subject;  *)
(* one with extent but no surface has the width of its landmarks and the   *)
(* subject's thickness.                                                    *)
(***************************************************************************)
FitHand(spec, place, points, subject) ==
    LET surface == IF points >= MinSupport[spec.part] THEN place.surface ELSE 0
        thickness == AsSubjectDefault(subject, spec.dimensions[2])
    IN  IF place.at # "apart" THEN FitUnplaced(spec)
        ELSE IF Greatest(place.fingers, surface) < FingerExtent THEN FitFromSubject(spec, place, subject)
        ELSE IF points >= MinSupport[spec.part] THEN FitMeasured(spec, place, points)
        ELSE [collider |-> Fitted(spec, place, place.measured[1],
                                  Weakest({"observed", thickness.source}), place.quality),
              updates |-> <<>>]

(***************************************************************************)
(* A foot in the air takes its vertical from the ankle; a planted one from *)
(* the floor.  planted is the operator's word for it, or "automatic".      *)
(***************************************************************************)
FitFoot(spec, place, points, subject, planted) ==
    LET onFloor == IF planted = "automatic" THEN place.nearFloor ELSE planted = "planted"
    IN  IF ~onFloor /\ ~place.ankle THEN FitUnplaced(spec)
        ELSE FitFromSurface(spec, place, points, subject)

FitOne(spec, body, subject, planted) ==
    LET place == body.place[spec.id]
        points == PointsOf(spec, body, subject)
    IN  IF spec.part = "hand" THEN FitHand(spec, place, points, subject)
        ELSE IF spec.part = "foot" THEN FitFoot(spec, place, points, subject, planted)
        ELSE FitFromSurface(spec, place, points, subject)

(***************************************************************************)
(* A collider that failed validation must not teach the subject.  No two   *)
(* colliders teach the same dimension.                                     *)
(***************************************************************************)
\* Bug: every outcome teaches, validated or not.
LessonsFromAll(outcomes, typed) ==
    UNION {{outcomes[i].updates[k] : k \in DOMAIN outcomes[i].updates} : i \in DOMAIN Required}

Lessons(outcomes, typed) ==
    UNION {{outcomes[i].updates[k] : k \in DOMAIN outcomes[i].updates} :
              i \in {i \in DOMAIN Required : typed[i].enabled}}

ApplySubjectUpdates(subject, outcomes, typed) ==
    [d \in Dimensions |->
        IF \E u \in Lessons(outcomes, typed) : u.of = d
        THEN Updated(subject[d], (CHOOSE u \in Lessons(outcomes, typed) : u.of = d).est)
        ELSE subject[d]]

FitCharacter(body, subject, planted) ==
    LET outcomes == [i \in DOMAIN Required |-> FitOne(Required[i], body, subject, planted)]
        typed == FinalizeColliderSet([i \in DOMAIN Required |-> outcomes[i].collider])
    IN  [typed |-> typed, outcomes |-> outcomes,
         subject |-> ApplySubjectUpdates(subject, outcomes, typed)]
=============================================================================
