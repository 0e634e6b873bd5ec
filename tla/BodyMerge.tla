------------------------------ MODULE BodyMerge ------------------------------
(***************************************************************************)
(* The forced assembly of a front and a rear view into one body            *)
(* (reconstruction/body_merge.py).  The rear view is raised, moved and     *)
(* widened, height by height, until its silhouette is the front's and its  *)
(* inner side meets the front's.  Lengths are in centimetres, rounded      *)
(* down; lateral is x, height y, towards the front z.                      *)
(*                                                                         *)
(* A view is what _core keeps of its points, as a profile: how many there  *)
(* are in a band around each height and the quantiles the code takes of    *)
(* them.  inner is the side that faces the other view.                     *)
(***************************************************************************)
EXTENDS Medians, FiniteSetsExt

CONSTANTS
    MinThickness,   \* min_thickness_m
    SeamOverlap     \* seam_overlap_m

ASSUME BodyMergeAssumption == MinThickness \in Nat /\ SeamOverlap \in Nat

Joints == {"shoulder", "hip", "knee", "ankle"}

Smaller(a, b) == IF a <= b THEN a ELSE b

(***************************************************************************)
(* joints: the height of a joint whose left and right anchor were both     *)
(* seen well.                                                              *)
(***************************************************************************)
Core(v) == IF v.points < 100 THEN "insufficient_person_depth"
           ELSE IF v.core < 100 THEN "torso_not_visible"
           ELSE IF v.top - v.floor < 60 THEN "body_height_too_small"
           ELSE "ok"

ShoulderHeight(v) ==
    IF "shoulder" \in DOMAIN v.joints THEN v.joints["shoulder"]
    ELSE v.floor + (8 * (v.top - v.floor)) \div 10

VerticalShift(front, rear) ==
    LET common == Joints \cap DOMAIN front.joints \cap DOMAIN rear.joints
    IN  IF common = {} THEN front.floor - rear.floor
        ELSE Median([j \in common |-> front.joints[j] - rear.joints[j]])

(***************************************************************************)
(* Twelve heights from the shins to the chest, those where both views have *)
(* points and some width.  A profile keeps the numbers of its heights.     *)
(***************************************************************************)
Height(front, k) ==
    LET low == front.floor + 8
        high == ShoulderHeight(front) - 4
    IN  low + ((k - 1) * (high - low)) \div 11

NoSlice == [count |-> 0, left |-> 0, right |-> 0, inner |-> 0, middle |-> 0]

SliceAt(v, y) == IF y \in DOMAIN v.at THEN v.at[y] ELSE NoSlice

Width(slice) == slice.right - slice.left

Visible(f, r) ==
    Smaller(f.count, r.count) >= 20 /\ Smaller(Width(f), Width(r)) >= 6

\* Bug: the rear view is sampled where it was before it was raised.
RearSliceUnraised(rear, y, dy) == SliceAt(rear, y)

RearSlice(rear, y, dy) == SliceAt(rear, y - dy)

(***************************************************************************)
(* The inner sides meet, unless that would leave the body too thin.        *)
(***************************************************************************)
DepthShift(f, r) == Smaller(f.inner - r.inner + SeamOverlap, f.middle - r.middle - MinThickness)

WarpSlice(y, f, r) ==
    [y |-> y, dz |-> DepthShift(f, r),
     sx |-> (r.left + r.right) \div 2, tx |-> (f.left + f.right) \div 2,
     sw |-> Width(r) \div 2, tw |-> Width(f) \div 2]

Profile(front, rear, dy) ==
    LET f(k) == SliceAt(front, Height(front, k))
        r(k) == RearSlice(rear, Height(front, k), dy)
    IN  [k \in {k \in 1 .. 12 : Visible(f(k), r(k))} |-> WarpSlice(Height(front, k), f(k), r(k))]

(***************************************************************************)
(* Legs and chest must both be constrained, and a view twice as wide as    *)
(* the other shows somebody else.                                          *)
(***************************************************************************)
Constrained(profile, front) ==
    /\ Cardinality(DOMAIN profile) >= 5
    /\ LET lowest == profile[Min(DOMAIN profile)].y
           highest == profile[Max(DOMAIN profile)].y
       IN  /\ highest - lowest >= 45
           /\ lowest <= front.floor + 30 /\ highest >= ShoulderHeight(front) - 25

Compatible(profile) ==
    \A i \in DOMAIN profile : profile[i].sw <= 2 * profile[i].tw /\ profile[i].tw <= 2 * profile[i].sw

Rejected(reason) == [state |-> reason, warp |-> <<>>]

AssembleBody(front, rear) ==
    LET dy == VerticalShift(front, rear)
        profile == Profile(front, rear, dy)
    IN  IF Core(front) # "ok" THEN Rejected(Core(front))
        ELSE IF Core(rear) # "ok" THEN Rejected(Core(rear))
        ELSE IF ~Constrained(profile, front) THEN Rejected("torso_and_legs_not_visible_in_both_views")
        ELSE IF ~Compatible(profile) THEN Rejected("body_profiles_incompatible")
        ELSE [state |-> "applied", warp |-> [profile |-> profile, shift |-> dy]]
-----------------------------------------------------------------------------
(* The warp, on a point of the rear view.                                  *)

\* np.interp: between two heights a share of each, the end values beyond them.
Interp(y, profile, field) ==
    LET below == {k \in DOMAIN profile : profile[k].y <= y}
        above == DOMAIN profile \ below
        lower == profile[Max(below)]
        upper == profile[Min(above)]
    IN  IF below = {} THEN upper[field]
        ELSE IF above = {} THEN lower[field]
        ELSE lower[field] + ((upper[field] - lower[field]) * (y - lower.y)) \div (upper.y - lower.y)

Magnitude(x) == IF x < 0 THEN -x ELSE x
Sign(x) == IF x < 0 THEN -1 ELSE IF x = 0 THEN 0 ELSE 1

(***************************************************************************)
(* Inside the body the width is scaled; arms are moved along with it.      *)
(***************************************************************************)
Widened(x, from, to) ==
    IF Magnitude(x) <= from THEN (x * to) \div from ELSE x + Sign(x) * (to - from)

Applied(warp, p) ==
    LET y == p.y + warp.shift
        At(field) == Interp(y, warp.profile, field)
    IN  [x |-> At("tx") + Widened(p.x - At("sx"), At("sw"), At("tw")), y |-> y, z |-> p.z + At("dz")]
=============================================================================
