-------------------------- MODULE MCFrameProcessing --------------------------
(***************************************************************************)
(* Instance of FrameProcessing: a forearm and the hand behind its wrist,   *)
(* which compete for the same points, and a foot.  Lengths are in units of *)
(* about 4 cm, qualities in percent, points in hundreds.                   *)
(***************************************************************************)
EXTENDS FrameProcessing

MCMaxPayload == [t \in {1, 2} |-> 100]
MCElementSize == [e \in {"float32_le", "uint8", "xyzrgba16_le"} |->
                    CASE e = "float32_le" -> 4 [] e = "uint8" -> 1 [] OTHER -> 16]
MCIdBytes(id) == 4

Spec3(id, part, type, cap, minQuality, dimensions) ==
    [id |-> id, part |-> part, type |-> type, cap |-> cap, minQuality |-> minQuality,
     dimensions |-> dimensions, segments |-> {id}]

MCRequired ==
    <<Spec3("forearm", "limb", "capsule", 4, 15, <<"forearm_radius">>),
      Spec3("hand", "hand", "obb", 4, 25, <<"hand_width", "hand_thickness">>),
      Spec3("foot", "foot", "obb", 4, 25, <<"foot_width", "foot_thickness">>)>>

MCDefault == [d \in {"forearm_radius", "hand_width", "hand_thickness", "foot_width", "foot_thickness"} |->
                IF d \in {"forearm_radius", "hand_thickness"} THEN 1 ELSE 2]
MCMinSupport == [p \in {"limb", "hand", "foot"} |-> 1]

Place(at, measured, spread, base, inStage, fingers) ==
    [at |-> at, measured |-> <<measured, measured>>, spread |-> spread, base |-> base,
     inStage |-> inStage, fingers |-> fingers, quality |-> (base + 100) \div 2, span |-> 5,
     surface |-> 2, nearFloor |-> FALSE, ankle |-> FALSE]

(* Points near the wrist, and points of the palm; a hand that is believed  *)
(* to be wide takes the first from the forearm.                            *)
Point(view, n, toForearm, toHand) ==
    [view |-> view, n |-> n, within |-> {"forearm", "hand"},
     distance |-> ("forearm" :> toForearm @@ "hand" :> toHand @@ "foot" :> 6)]

Wrist == Point("front", 1, 1, 2)
Palm == {Point("rear", 2, 3, 2), Point("rear", 3, 3, 2)}

Clouds == {{}, {Wrist}, {Wrist} \cup Palm}

Body(f, h, s, in, w, b, e, c) ==
    [place |-> ("forearm" :> Place(f, 2, s, 50, in, 0)
                @@ "hand" :> Place(h, w, s, b, TRUE, e)
                @@ "foot" :> [Place("apart", 2, 1, 60, TRUE, 0) EXCEPT !.nearFloor = e = 0]),
     cloud |-> c]

Bodies ==
    {Body("apart", "apart", s, TRUE, w, 60, 5, c) : s \in {3, 4}, w \in {2, 6}, c \in Clouds}
    \cup UNION {{Body("missing", "apart", 3, TRUE, 2, 60, 5, c),
                 Body("apart", "coincident", 3, TRUE, 2, 60, 5, c),
                 Body("apart", "apart", 3, FALSE, 2, 60, 5, c),
                 Body("apart", "apart", 3, TRUE, 6, 20, 0, c)} : c \in Clouds}

Shown(valid, position) == <<[valid |-> valid, position |-> position, name |-> "wrist"],
                            [valid |-> TRUE, position |-> "finite", name |-> "elbow"]>>

(* Two sides of a body: how deep it is at a height, in centimetres.  The   *)
(* rear phone stands lower, hence sees everything raise centimetres lower, *)
(* and aside.                                                              *)
Slice(count, left, right, inner, middle) ==
    [count |-> count, left |-> left, right |-> right, inner |-> inner, middle |-> middle]

Bulge(y) == IF y < 80 THEN 4 ELSE IF y < 110 THEN 10 ELSE 6

FrontSide == [points |-> 900, core |-> 800, floor |-> 0, top |-> 170,
          joints |-> ("shoulder" :> 140 @@ "hip" :> 90 @@ "knee" :> 50),
          at |-> [y \in 0 .. 170 |-> Slice(40, -20, 20, 100, 100 + Bulge(y))]]

RearSide(gap, raise, half, visible) ==
    [points |-> 900, core |-> 800, floor |-> -raise, top |-> 170 - raise,
     joints |-> ("shoulder" :> 138 - raise @@ "hip" :> 90 - raise @@ "ankle" :> 10 - raise),
     at |-> [y \in -60 .. 230 |->
                Slice(IF y + raise \in visible THEN 40 ELSE 10, 30 - half, 30 + half,
                      100 - gap, 100 - gap - Bulge(y + raise))]]

MCProfiles ==
    "front" :> FrontSide
    @@ "near" :> RearSide(-5, 6, 16, 0 .. 170)
    @@ "apart" :> RearSide(30, 14, 24, 0 .. 130)
    @@ "legless" :> RearSide(30, 14, 24, 60 .. 170)
    @@ "headless" :> RearSide(30, 14, 24, 0 .. 100)
    @@ "narrow" :> RearSide(30, 0, 8, 0 .. 170)
    @@ "blind" :> [RearSide(30, 0, 20, 0 .. 170) EXCEPT !.joints = <<>>, !.floor = 2]
    @@ "seated" :> [RearSide(30, 0, 20, 0 .. 170) EXCEPT !.top = 50]
    @@ "sparse" :> [RearSide(30, 0, 20, 0 .. 170) EXCEPT !.core = 60]

Faces(rear) == "front" :> "front" @@ "rear" :> rear

MCPairs ==
    {[body |-> b, profile |-> Faces("apart"), tracking |-> TRUE, landmarks |-> Shown(TRUE, "finite")] :
        b \in Bodies}
    \cup {[body |-> CHOOSE b \in Bodies : b.cloud # {}, profile |-> Faces("near"), tracking |-> t,
            landmarks |-> l] :
             t \in BOOLEAN, l \in {Shown(FALSE, "none"), Shown(FALSE, "finite")}}
    \cup {[body |-> CHOOSE b \in Bodies : b.cloud = {}, profile |-> Faces(p), tracking |-> TRUE,
            landmarks |-> Shown(TRUE, "finite")] : p \in DOMAIN MCProfiles \ {"front"}}
MCViews == <<"front", "rear">>
MCShifts == {-3, 1}
=============================================================================
