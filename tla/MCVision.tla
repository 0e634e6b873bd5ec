------------------------------- MODULE MCVision -------------------------------
(***************************************************************************)
(* Instance of Vision: two phones that face each other, four metres apart, *)
(* and a subject between them who raises the left hand.  Lengths are in    *)
(* centimetres, scores and qualities in percent.                           *)
(***************************************************************************)
EXTENDS Vision, TLC

MCSources == <<"front", "rear">>
MCOrigin == ("front" :> 0) @@ ("rear" :> 400)
MCDirection == ("front" :> 1) @@ ("rear" :> -1)

MCSubject ==
    [nose |-> 190, left_eye |-> 192, left_ear |-> 198, right_ear |-> 198,
     left_shoulder |-> 200, right_shoulder |-> 202, left_hip |-> 206, right_hip |-> 205,
     left_elbow |-> 192, left_wrist |-> 180]
MCPoseNames == DOMAIN MCSubject
MCPoseAnchors == {"left_shoulder", "right_shoulder", "left_hip", "right_hip", "left_elbow"}

Palm == [wrist |-> 180, index_mcp |-> 174, index_tip |-> 166]
MCHandNames == DOMAIN Palm
MCHandAnchors == {"wrist", "index_mcp"}
MCHandName(side, name) ==
    CASE name = "wrist" -> side \o "_hand"
      [] name = "index_mcp" -> side \o "_index_mcp"
      [] OTHER -> side \o "_index_tip"

(* Each landmark has its pixel.                                            *)
Pixel == [nose |-> <<0, 0>>, left_eye |-> <<1, 0>>, left_ear |-> <<2, 0>>, right_ear |-> <<3, 0>>,
          left_shoulder |-> <<4, 0>>, right_shoulder |-> <<0, 1>>, left_hip |-> <<1, 1>>,
          right_hip |-> <<2, 1>>, left_elbow |-> <<3, 1>>, left_wrist |-> <<4, 1>>,
          wrist |-> <<0, 2>>, index_mcp |-> <<1, 2>>, index_tip |-> <<2, 2>>]
At == MCSubject @@ Palm
AtPixel(pixel) == CHOOSE n \in DOMAIN Pixel : Pixel[n] = pixel

(* The rays of the opposing phones are parallel but where they are not.    *)
Meet(angle, s, at, error) == [angle |-> angle, s |-> s, t |-> 100, at |-> at, error |-> error]
MCCrossing(a, b) ==
    IF a # b \/ a \notin Range(Pixel) THEN Meet(2, 0, 0, 0)
    ELSE LET n == AtPixel(a)
         IN  CASE n = "left_shoulder" -> Meet(170, 100, At[n] + 4, 2)
               [] n = "right_shoulder" -> Meet(160, -100, At[n], 2)
               [] n = "left_hip" -> Meet(170, 100, At[n] - 20, 2)
               [] n = "right_hip" -> Meet(170, 100, At[n], 9)
               [] OTHER -> Meet(178, 100, At[n], 0)

(* Windows: a surface, one whose other part lies farther away, and one too *)
(* small to support a landmark.                                            *)
Sample(ring, z, lidar, sure) == [ring |-> ring, z |-> z, rgb |-> TRUE, lidar |-> lidar, sure |-> sure]
Surface(z) == <<Sample(0, z, TRUE, TRUE), Sample(1, z + 1, TRUE, TRUE), Sample(1, z, TRUE, TRUE),
                Sample(1, z + 150, FALSE, TRUE), Sample(1, z - 1, TRUE, TRUE)>>
Edge(z) == <<Sample(2, z, TRUE, TRUE), Sample(2, z, TRUE, TRUE), Sample(2, z + 1, TRUE, TRUE),
             Sample(0, z + 40, TRUE, TRUE), Sample(1, z + 40, TRUE, TRUE)>>
Sliver(z) == <<Sample(0, z, TRUE, TRUE), Sample(1, z, TRUE, FALSE), Sample(1, z + 150, FALSE, TRUE)>>

Depth(d, n) == IF d = "front" THEN At[n] ELSE 400 - At[n]

(* covered: the landmark something stands before; thin: those with too     *)
(* little surface.                                                         *)
Windows(d, covered, edge, thin) ==
    [p \in Raster |->
        LET n == AtPixel(p)
        IN  IF p \notin Range(Pixel) THEN <<>>
            ELSE IF n \in covered THEN Surface(Depth(d, n) - 40)
            ELSE IF n \in thin THEN Sliver(Depth(d, n))
            ELSE IF n \in edge THEN Edge(Depth(d, n))
            ELSE Surface(Depth(d, n))]

Pose(unseen) ==
    [n \in MCPoseNames |-> [pixel |-> Pixel[n], visibility |-> IF n \in unseen THEN 20 ELSE 90,
                            presence |-> 90]]
Prior == [n \in MCPoseNames |-> MCSubject[n] - 205]

Hand(toLeft, toRight, label) ==
    [distance |-> ("left" :> toLeft) @@ ("right" :> toRight), direction |-> ("left" :> 80) @@ ("right" :> 0),
     label |-> label, sure |-> 60, landmarks |-> [n \in MCHandNames |-> Pixel[n]],
     prior |-> [n \in MCHandNames |-> Palm[n] - 175]]
Good == Hand(80, Far, "right")
Other == Hand(75, Far, "right")
Between == Hand(60, 50, "none")

Crops(left) == ("left" :> left) @@ ("right" :> <<>>)

Shot(d, up, unseen, hands, crop, covered, edge, thin) ==
    [up |-> up, pose |-> Pose(unseen), prior |-> Prior, hands |-> hands, crops |-> Crops(crop),
     depth |-> Windows(d, covered, edge, thin)]

(* Every way the front phone may be propped, hands found at once, in a      *)
(* crop, twice or not, joints and fingers behind something, at an edge,     *)
(* unseen or without support; the rear phone sees fewer of them.            *)
Few(d, all, some) == IF d = "front" THEN all ELSE some

ShotsOf(d) ==
    {Shot(d, up, {}, <<Good>>, <<>>, {}, {}, {}) :
        up \in Few(d, {"top", "bottom", "left", "right"}, {"bottom", "right"})}
    \cup {Shot(d, "top", {}, hands, crop, {}, {}, {}) :
            hands \in Few(d, {<<>>, <<Between>>, <<Other, Good>>}, {<<>>}),
            crop \in Few(d, {<<>>, <<Good>>, <<Other, Between>>}, {<<>>, <<Good>>})}
    \cup {Shot(d, "left", {}, <<Good>>, <<>>, covered, edge, {}) :
            covered \in Few(d, {{}, {"left_wrist"}, {"right_hip"}, {"left_wrist", "index_tip"}}, {{"left_wrist"}}),
            edge \in {{}, {"nose", "left_elbow", "wrist"}}}
    \cup {Shot(d, "top", unseen, <<>>, <<>>, {}, {}, thin) :
            unseen \in {{"left_ear"}, {"nose", "right_ear", "left_hip", "right_hip", "left_elbow"}}
                       \cup Few(d, {{"nose", "right_ear"}}, {}),
            thin \in {{}, {"nose", "left_wrist"}}}
    \cup {[Shot(d, "right", {}, <<>>, <<>>, {}, {}, {}) EXCEPT !.pose = <<>>, !.prior = <<>>]}

MCShots == ("front" :> ShotsOf("front")) @@ ("rear" :> ShotsOf("rear"))

MCShifts == {-6}
=============================================================================
