---------------------------- MODULE CameraProofs ----------------------------
(***************************************************************************)
(* Proofs about what is computed from the cameras' images: BoardSession    *)
(* for any phones, views, moves and tolerances, and Vision for any shots,  *)
(* rasters, windows, tolerances and rays.  Both rest on medians.           *)
(*                                                                         *)
(* The observations of a phone are all taken from one place                *)
(* (PhonesStoodStill). What the code compares is a pose relative to the    *)
(* origin of an AR session, and the origin is not among the metadata it    *)
(* keeps. OnePlace ties the baseline to where the first observation was    *)
(* really taken for as long as the session lasts; sessions only grow, so a *)
(* later one is never taken for the baseline's.                            *)
(*                                                                         *)
(* A solved camera is tilted as its phone was (CamerasUpright), and was    *)
(* solved from observations of one place of the board (BoardsStoodStill).  *)
(* Every observation is the true pose or its mirror image (Faithful), and  *)
(* of the solution only this is used: its position is a median and its     *)
(* tilt a weighted mean, numbers both (MedianBetween, SumSteps), and it    *)
(* passed the checks of solve (Checked).                                   *)
(*                                                                         *)
(* A hand that is taken leads every hand left over by the margin           *)
(* (HandsUnambiguousAlways): what has a margin leads every rival           *)
(* (MarginLeads), and only candidates of the other arm stop being rivals.  *)
(* A depth lies on a surface of its window (OnTheSurfaceAlways): weighted  *)
(* or not, a median of the kept samples is near each of them, since all    *)
(* are near the median of the window (DepthOnSurface).  The skeleton is    *)
(* near the subject where most of what was observed is                     *)
(* (SkeletonStaysNear): where most values lie, their median lies           *)
(* (MedianOfMost), so the prior is near, and what one view placed is       *)
(* either near the prior or replaced by it (PoseNear).  The fusion is      *)
(* computed from the views, the views from the detections and these from   *)
(* the shots of one capture: VisionInv.                                    *)
(***************************************************************************)
EXTENDS BoardSession, Vision, FiniteSetTheorems, WellFoundedInduction, TLAPS

Phones == [cm : Int, deg : Int, session : Nat, origin : Int]

IsSeq(s) == s \in Seq({s[i] : i \in DOMAIN s})

Measured(seq) ==
    /\ IsSeq(seq)
    /\ \A i \in DOMAIN seq : seq[i].cm \in Int /\ Distance(seq[i].cm, seq[1].cm) <= MoveCm

\* The baseline b of a phone p and its observations seq.
OnePlace(b, p, seq) ==
    /\ b = None => seq = <<>>
    /\ b # None =>
         /\ b.session \in Nat /\ b.session <= p.session
         /\ b.at \in Int
         /\ seq # <<>>
         /\ b.session = p.session => b.at = seq[1].cm - p.origin

IInv ==
    /\ phone \in [Devices -> Phones]
    /\ baseline = [d \in Devices |-> baseline[d]]
    /\ obs = [d \in Devices |-> obs[d]]
    /\ \A d \in Devices : Measured(obs[d]) /\ OnePlace(baseline[d], phone[d], obs[d])

-----------------------------------------------------------------------------
LEMMA Appended ==
  ASSUME NEW s, IsSeq(s), NEW x
  PROVE  /\ IsSeq(Append(s, x))
         /\ Len(s) \in Nat
         /\ DOMAIN s = 1 .. Len(s)
         /\ DOMAIN Append(s, x) = 1 .. Len(s) + 1
         /\ \A i \in 1 .. Len(s) : Append(s, x)[i] = s[i]
         /\ Append(s, x)[Len(s) + 1] = x
         /\ s = <<>> <=> Len(s) = 0
         /\ Append(s, x) # <<>>
<1> DEFINE S == {s[i] : i \in DOMAIN s} \cup {x}
<1>1. s \in Seq(S)
  BY DEF IsSeq
<1> HIDE DEF S
<1>2. x \in S
  BY DEF S
<1>3. /\ Append(s, x) \in Seq(S) /\ Len(s) \in Nat /\ DOMAIN s = 1 .. Len(s)
      /\ DOMAIN Append(s, x) = 1 .. Len(s) + 1
      /\ \A i \in 1 .. Len(s) : Append(s, x)[i] = s[i]
      /\ Append(s, x)[Len(s) + 1] = x
      /\ s = <<>> <=> Len(s) = 0
  BY <1>1, <1>2
<1>4. Append(s, x) # <<>>
  BY <1>3
<1>5. IsSeq(Append(s, x))
  BY <1>3 DEF IsSeq
<1> QED BY <1>3, <1>4, <1>5

LEMMA InitIInv == Init => IInv
<1> SUFFICES ASSUME Init PROVE IInv
  OBVIOUS
<1>1. phone \in [Devices -> Phones]
  BY BoardAssumption DEF Init, Phones
<1>2. /\ baseline = [d \in Devices |-> baseline[d]] /\ obs = [d \in Devices |-> obs[d]]
      /\ \A d \in Devices : baseline[d] = None /\ obs[d] = <<>>
  BY DEF Init
<1>3. IsSeq(<<>>)
  BY DEF IsSeq
<1> QED BY <1>1, <1>2, <1>3 DEF IInv, Measured, OnePlace

-----------------------------------------------------------------------------
(* The phones. *)

LEMMA MovedTyped ==
  ASSUME NEW p \in Phones, NEW step, step.cm \in Int, step.deg \in Int
  PROVE  /\ Moved(p, step) \in Phones
         /\ Moved(p, step).session = p.session
         /\ Moved(p, step).origin = p.origin
BY DEF Moved, Phones

LEMMA RestartedTyped ==
  ASSUME NEW p \in Phones
  PROVE  Restarted(p) \in Phones /\ Restarted(p).session = p.session + 1 /\ p.session \in Nat
BY DEF Restarted, Phones

LEMMA MovedPhone ==
  ASSUME IInv, NEW d \in Devices, NEW step \in Steps[d], MovePhone(d, step)
  PROVE  IInv'
<1>1. step.cm \in Int /\ step.deg \in Int /\ phone[d] \in Phones
  BY BoardAssumption DEF IInv
<1>2. phone' = [phone EXCEPT ![d] = Moved(phone[d], step)] /\ UNCHANGED <<baseline, obs>>
  BY DEF MovePhone, session
<1>3. /\ phone' \in [Devices -> Phones]
      /\ \A e \in Devices : phone'[e].session = phone[e].session /\ phone'[e].origin = phone[e].origin
  BY <1>1, <1>2, MovedTyped DEF IInv
<1>4. ASSUME NEW e \in Devices PROVE Measured(obs[e]) /\ OnePlace(baseline[e], phone'[e], obs[e])
  BY <1>3 DEF IInv, OnePlace
<1> QED BY <1>2, <1>3, <1>4 DEF IInv

LEMMA RestartedSession ==
  ASSUME IInv, NEW d \in Devices, NewSession(d)
  PROVE  IInv'
<1>1. phone[d] \in Phones
  BY DEF IInv
<1>2. phone' = [phone EXCEPT ![d] = Restarted(phone[d])] /\ UNCHANGED <<baseline, obs>>
  BY DEF NewSession, session
<1>3. /\ phone' \in [Devices -> Phones]
      /\ phone'[d].session = phone[d].session + 1 /\ phone[d].session \in Nat
      /\ \A e \in Devices \ {d} : phone'[e] = phone[e]
  BY <1>1, <1>2, RestartedTyped DEF IInv
<1>4. ASSUME NEW e \in Devices PROVE Measured(obs[e]) /\ OnePlace(baseline[e], phone'[e], obs[e])
  <2>1. Measured(obs[e]) /\ OnePlace(baseline[e], phone[e], obs[e])
    BY DEF IInv
  <2>2. CASE e # d
    BY <1>3, <2>1, <2>2
  <2>3. CASE e = d
    BY <1>3, <2>1, <2>3 DEF OnePlace
  <2> QED BY <2>2, <2>3
<1> QED BY <1>2, <1>3, <1>4 DEF IInv

-----------------------------------------------------------------------------
(* A frame. *)

LEMMA MetadataIsSome ==
  ASSUME NEW d \in Devices, NEW view
  PROVE  FrameMetadata(d, view) # None
<1>1. "session" \in DOMAIN FrameMetadata(d, view) /\ "session" \notin DOMAIN None
  BY DEF FrameMetadata, None
<1> QED BY <1>1

\* What an accepted frame adds to the observations of its phone.
LEMMA AcceptedFrame ==
  ASSUME NEW p \in Phones, NEW b, NEW seq, Measured(seq), OnePlace(b, p, seq),
         NEW now, NEW o,
         now # None, now.session = p.session, now.at = p.cm - p.origin,
         b = None \/ ~ChangedFrame(now, b),
         o.cm = p.cm
  PROVE  Measured(Append(seq, o)) /\ OnePlace(IF b = None THEN now ELSE b, p, Append(seq, o))
<1> DEFINE kept == Append(seq, o)
<1>1. /\ IsSeq(kept) /\ Len(seq) \in Nat
      /\ DOMAIN kept = 1 .. Len(seq) + 1 /\ DOMAIN seq = 1 .. Len(seq)
      /\ \A i \in 1 .. Len(seq) : kept[i] = seq[i]
      /\ kept[Len(seq) + 1] = o
      /\ seq = <<>> <=> Len(seq) = 0
      /\ kept # <<>>
  BY Appended DEF Measured
<1> HIDE DEF kept
<1>2. p.cm \in Int /\ p.origin \in Int /\ p.session \in Nat /\ MoveCm \in Nat
  BY BoardAssumption DEF Phones
<1>3. CASE b = None
  <2>1. Len(seq) = 0 /\ DOMAIN kept = 1 .. 1 /\ kept[1] = o
    BY <1>1, <1>3 DEF OnePlace
  <2>2. Measured(kept)
    BY <1>1, <1>2, <2>1 DEF Measured, Distance
  <2>3. OnePlace(now, p, kept)
    BY <1>1, <1>2, <2>1 DEF OnePlace
  <2> QED BY <1>3, <2>2, <2>3 DEF kept
<1>4. CASE b # None
  <2>1. /\ b.session \in Nat /\ b.at \in Int /\ b.session = p.session
        /\ b.at = seq[1].cm - p.origin /\ seq # <<>>
    BY <1>4 DEF OnePlace, ChangedFrame
  <2>2. Distance(now.at, b.at) <= MoveCm
    BY <1>2, <1>4, <2>1 DEF ChangedFrame, Distance
  <2>3. Len(seq) >= 1 /\ 1 \in DOMAIN seq /\ seq[1].cm \in Int /\ kept[1] = seq[1]
    BY <1>1, <2>1 DEF Measured
  <2>4. Distance(p.cm, seq[1].cm) <= MoveCm
    BY <1>2, <2>1, <2>2, <2>3 DEF Distance
  <2>5. Measured(kept)
    BY <1>1, <1>2, <2>3, <2>4 DEF Measured
  <2>6. OnePlace(b, p, kept)
    BY <1>1, <2>1, <2>3, <1>4 DEF OnePlace
  <2> QED BY <1>4, <2>5, <2>6 DEF kept
<1> QED BY <1>3, <1>4

LEMMA OfferedFrame ==
  ASSUME IInv, NEW d \in Devices, NEW view \in Views[d], Offer(d, view)
  PROVE  IInv'
<1> DEFINE now == FrameMetadata(d, view)
           o == Observation(d, view)
           b == baseline[d]
<1>1. /\ now # None /\ now.session = phone[d].session /\ now.at = phone[d].cm - phone[d].origin
      /\ o.cm = phone[d].cm
  BY MetadataIsSome DEF FrameMetadata, Observation
<1>2. phone' = phone
  BY DEF Offer, world
<1>3. CASE b # None /\ ChangedFrame(now, b)
  BY <1>2, <1>3 DEF Offer, IInv
<1>4. CASE ~(b # None /\ ChangedFrame(now, b))
  <2>1. /\ baseline' = [baseline EXCEPT ![d] = IF b = None THEN now ELSE b]
        /\ obs' = [obs EXCEPT ![d] = Append(obs[d], o)]
    BY <1>4 DEF Offer
  <2>2. phone[d] \in Phones /\ Measured(obs[d]) /\ OnePlace(b, phone[d], obs[d])
    BY DEF IInv
  <2> HIDE DEF now, o, b
  <2>3. /\ Measured(Append(obs[d], o))
        /\ OnePlace(IF b = None THEN now ELSE b, phone[d], Append(obs[d], o))
    BY <1>1, <1>4, <2>2, AcceptedFrame
  <2>4. /\ baseline' = [e \in Devices |-> baseline'[e]] /\ obs' = [e \in Devices |-> obs'[e]]
        /\ baseline'[d] = (IF b = None THEN now ELSE b) /\ obs'[d] = Append(obs[d], o)
        /\ \A e \in Devices \ {d} : baseline'[e] = baseline[e] /\ obs'[e] = obs[e]
    BY <2>1 DEF IInv
  <2> QED BY <1>2, <2>3, <2>4 DEF IInv
<1> QED BY <1>3, <1>4

LEMMA StepIInv == IInv /\ [Next]_vars => IInv'
<1> SUFFICES ASSUME IInv, [Next]_vars PROVE IInv'
  OBVIOUS
<1>1. CASE \/ \E place \in Boards : MoveBoard(place)
           \/ Solve \/ UNCHANGED vars
  <2>1. UNCHANGED <<phone, baseline, obs>>
    BY <1>1 DEF MoveBoard, Solve, vars, world, session
  <2> QED BY <2>1 DEF IInv
<1> QED BY <1>1, MovedPhone, RestartedSession, OfferedFrame DEF Next

(***************************************************************************)
(* Both ends of two observations are within the tolerance of the first.    *)
(***************************************************************************)
LEMMA Still == IInv => StoodStill
<1> SUFFICES ASSUME IInv, NEW d \in Devices, NEW i \in DOMAIN obs[d], NEW j \in DOMAIN obs[d]
             PROVE  Distance(obs[d][i].cm, obs[d][j].cm) <= 2 * MoveCm
  BY DEF StoodStill
<1>1. /\ obs[d][i].cm \in Int /\ obs[d][j].cm \in Int
      /\ Distance(obs[d][i].cm, obs[d][1].cm) <= MoveCm
      /\ Distance(obs[d][j].cm, obs[d][1].cm) <= MoveCm
  BY DEF IInv, Measured
<1>2. obs[d][1].cm \in Int
  <2>1. IsSeq(obs[d])
    BY DEF IInv, Measured
  <2>2. DOMAIN obs[d] = 1 .. Len(obs[d]) /\ Len(obs[d]) \in Nat
    BY <2>1, Appended
  <2>3. 1 \in DOMAIN obs[d]
    BY <2>2
  <2> QED BY <2>3 DEF IInv, Measured
<1> QED BY <1>1, <1>2, BoardAssumption DEF Distance

(***************************************************************************)
(* The observations of one phone come from one place although only poses   *)
(* relative to an AR session are compared (changed_frame).                 *)
(***************************************************************************)
THEOREM PhonesStoodStill == Spec => []StoodStill
<1>1. Spec => []IInv
  BY InitIInv, StepIInv, PTL DEF Spec
<1> QED BY <1>1, Still, PTL
-----------------------------------------------------------------------------
(* Medians. *)

LEMMA LessWellFounded ==
  \E R : IsWellFoundedOn(R, Nat) /\ \A x, y \in Nat : <<y, x>> \in R <=> y < x
<1> DEFINE R == OpToRel(<, Nat)
<1>1. IsWellFoundedOn(R, Nat)
  BY NatLessThanWellFounded
<1>2. \A x, y \in Nat : <<y, x>> \in R <=> y < x
  BY DEF OpToRel
<1> QED BY <1>1, <1>2, Zenon

LEMMA Least ==
  ASSUME NEW T, T \subseteq Nat, T # {}
  PROVE  \E x \in T : \A y \in T : x <= y
<1>1. PICK R : IsWellFoundedOn(R, Nat) /\ \A x, y \in Nat : <<y, x>> \in R <=> y < x
  BY LessWellFounded
<1>2. PICK x \in T : \A y \in T : ~ (<<y, x>> \in R)
  BY <1>1, WFMin
<1>3. ASSUME NEW y \in T PROVE x <= y
  <2>1. x \in Nat /\ y \in Nat
    OBVIOUS
  <2>2. ~(y < x)
    BY <1>1, <1>2, <2>1, Zenon
  <2> QED BY <2>1, <2>2
<1> QED BY <1>3

\* What has the least measure.
LEMMA LeastBy ==
  ASSUME NEW S, S # {}, NEW size, \A x \in S : size[x] \in Nat
  PROVE  \E x \in S : \A y \in S : size[x] <= size[y]
<1> DEFINE T == {size[x] : x \in S}
<1>1. PICK n \in T : \A k \in T : n <= k
  BY Least
<1>2. PICK x \in S : size[x] = n
  BY <1>1
<1> QED BY <1>1, <1>2

\* Numbers for the members of a finite set.
Numbers(f) == IsFiniteSet(DOMAIN f) /\ DOMAIN f # {} /\ \A i \in DOMAIN f : f[i] \in Int

LEMMA CountGrows ==
  ASSUME NEW f, Numbers(f), NEW x \in Range(f), NEW y \in Range(f), y < x
  PROVE  AtMost(f, y) \in Nat /\ AtMost(f, x) \in Nat /\ AtMost(f, y) < AtMost(f, x)
<1> DEFINE below == {i \in DOMAIN f : f[i] <= y}
           all == {i \in DOMAIN f : f[i] <= x}
<1>1. x \in Int /\ y \in Int
  BY DEF Numbers, Range
<1>2. PICK i \in DOMAIN f : f[i] = x
  BY DEF Range
<1>3. i \in all /\ i \notin below /\ below \subseteq all
  BY <1>1, <1>2 DEF Numbers
<1>4. IsFiniteSet(all)
  BY FS_Subset DEF Numbers
<1> HIDE DEF below, all
<1>5. /\ Cardinality(all) \in Nat /\ Cardinality(below) \in Nat
      /\ Cardinality(below) <= Cardinality(all) /\ Cardinality(below) # Cardinality(all)
  BY <1>3, <1>4, FS_Subset, FS_CardinalityType
<1> QED BY <1>5 DEF AtMost, below, all

LEMMA Greatest ==
  ASSUME NEW f, Numbers(f)
  PROVE  \E x \in Range(f) : AtMost(f, x) = Cardinality(DOMAIN f)
<1> DEFINE above == [i \in DOMAIN f |-> Cardinality({j \in DOMAIN f : f[i] < f[j]})]
<1>1. ASSUME NEW i \in DOMAIN f PROVE IsFiniteSet({j \in DOMAIN f : f[i] < f[j]}) /\ above[i] \in Nat
  BY FS_Subset, FS_CardinalityType DEF Numbers
<1>2. PICK i \in DOMAIN f : \A j \in DOMAIN f : above[i] <= above[j]
  <2> HIDE DEF above
  <2> QED BY <1>1, LeastBy DEF Numbers
<1>3. ASSUME NEW j \in DOMAIN f, f[i] < f[j] PROVE FALSE
  <2> DEFINE S == {k \in DOMAIN f : f[i] < f[k]}
             T == {k \in DOMAIN f : f[j] < f[k]}
  <2>1. T \subseteq S /\ j \in S /\ j \notin T
    BY <1>3 DEF Numbers
  <2>2. IsFiniteSet(S) /\ above[i] = Cardinality(S) /\ above[j] = Cardinality(T)
    BY <1>1
  <2>3. above[i] \in Nat /\ above[j] \in Nat /\ above[i] <= above[j]
    BY <1>1, <1>2
  <2> HIDE DEF S, T, above
  <2>4. Cardinality(T) <= Cardinality(S) /\ Cardinality(S) # Cardinality(T)
    BY <2>1, <2>2, FS_Subset
  <2> QED BY <2>2, <2>3, <2>4
<1>4. {j \in DOMAIN f : f[j] <= f[i]} = DOMAIN f
  BY <1>3 DEF Numbers
<1> QED BY <1>4 DEF AtMost, Range

LEMMA SmallestExists ==
  ASSUME NEW f, Numbers(f), NEW k \in Int, k <= Cardinality(DOMAIN f)
  PROVE  /\ Smallest(f, k) \in Range(f) /\ AtMost(f, Smallest(f, k)) >= k
         /\ \A y \in Range(f) : y < Smallest(f, k) => AtMost(f, y) < k
<1> DEFINE X == {x \in Range(f) : AtMost(f, x) >= k}
           size == [x \in X |-> AtMost(f, x)]
<1>1. ASSUME NEW x PROVE AtMost(f, x) \in Nat
  BY FS_Subset, FS_CardinalityType DEF Numbers, AtMost
<1>2. Cardinality(DOMAIN f) \in Nat
  BY FS_CardinalityType DEF Numbers
<1>3. X # {}
  BY <1>2, Greatest
<1>4. PICK x \in X : \A y \in X : AtMost(f, x) <= AtMost(f, y)
  <2>1. \A y \in X : size[y] \in Nat
    BY <1>1
  <2>2. \A y \in X : size[y] = AtMost(f, y)
    OBVIOUS
  <2> HIDE DEF X, size
  <2>3. PICK x \in X : \A y \in X : size[x] <= size[y]
    BY <1>3, <2>1, LeastBy
  <2> QED BY <2>2, <2>3
<1>5. ASSUME NEW y \in Range(f), y < x PROVE AtMost(f, y) < k
  <2>1. AtMost(f, y) < AtMost(f, x) /\ AtMost(f, y) \in Nat /\ AtMost(f, x) \in Nat
    BY <1>5, CountGrows
  <2> QED BY <1>4, <2>1
<1> QED BY <1>4, <1>5 DEF Smallest

LEMMA SmallestRises ==
  ASSUME NEW f, Numbers(f), NEW j \in Int, NEW k \in Int, j <= k, k <= Cardinality(DOMAIN f)
  PROVE  Smallest(f, j) \in Int /\ Smallest(f, k) \in Int /\ Smallest(f, j) <= Smallest(f, k)
<1>1. Cardinality(DOMAIN f) \in Nat
  BY FS_CardinalityType DEF Numbers
<1>2. j <= Cardinality(DOMAIN f)
  BY <1>1
<1> DEFINE x == Smallest(f, j)
           z == Smallest(f, k)
<1>3. /\ x \in Range(f) /\ z \in Range(f) /\ AtMost(f, z) >= k
      /\ \A y \in Range(f) : y < x => AtMost(f, y) < j
  BY <1>2, SmallestExists
<1>4. AtMost(f, z) \in Nat
  BY FS_Subset, FS_CardinalityType DEF Numbers, AtMost
<1>5. x \in Int /\ z \in Int
  BY <1>3 DEF Numbers, Range
<1> HIDE DEF x, z
<1>6. ~(z < x)
  BY <1>3, <1>4
<1> QED BY <1>5, <1>6 DEF x, z

\* A median is no less than one of the values.
LEMMA MedianBetween ==
  ASSUME NEW f, Numbers(f)
  PROVE  Median(f) \in Int /\ \E i \in DOMAIN f : f[i] <= Median(f)
<1> DEFINE n == Cardinality(DOMAIN f)
           j == (n + 1) \div 2
           k == n \div 2 + 1
           x == Smallest(f, j)
           z == Smallest(f, k)
<1>1. n \in Nat /\ n # 0
  BY FS_CardinalityType, FS_EmptySet DEF Numbers
<1>2. Median(f) = (x + z) \div 2
  BY DEF Median, TwiceMedian
<1> HIDE DEF n
<1>3. j \in Int /\ k \in Int /\ j <= k /\ k <= n
  BY <1>1
<1> HIDE DEF j, k
<1>4. x \in Int /\ z \in Int /\ x <= z /\ x \in Range(f)
  <2>1. j <= n
    BY <1>1, <1>3
  <2> QED BY <1>3, <2>1, SmallestRises, SmallestExists DEF n
<1> HIDE DEF x, z
<1>5. Median(f) \in Int /\ x <= Median(f)
  BY <1>2, <1>4
<1>6. PICK i \in DOMAIN f : f[i] = x
  BY <1>4 DEF Range
<1> QED BY <1>5, <1>6
-----------------------------------------------------------------------------
(* Sums.  The recursion has a solution: for each n a function on 0..n adds   *)
(* up, and those functions agree.                                            *)

Summand(f, k) == IF k \in DOMAIN f THEN f[k] ELSE 0

AddsUp(f, n, h) ==
    h[0] = 0 /\ \A k \in 1..n : h[k] = h[k - 1] + Summand(f, k)

LEMMA SumReaches ==
  ASSUME NEW f, NEW n \in Nat
  PROVE  \E h : AddsUp(f, n, h)
<1> DEFINE T == {m \in Nat : ~ \E h : AddsUp(f, m, h)}
<1> SUFFICES ASSUME T # {} PROVE FALSE
  OBVIOUS
<1>1. PICK m \in T : \A k \in T : m <= k
  BY Least
<1>2. m # 0
  <2>1. AddsUp(f, 0, [k \in 0..0 |-> 0])
    BY DEF AddsUp
  <2> QED BY <1>1, <2>1
<1>3. m - 1 \in Nat /\ m - 1 \notin T
  BY <1>1, <1>2
<1>4. PICK h : AddsUp(f, m - 1, h)
  BY <1>3
<1> DEFINE top == h[m - 1] + Summand(f, m)
           g == [k \in 0..m |-> IF k = m THEN top ELSE h[k]]
<1>5. AddsUp(f, m, g)
  <2>1. g[0] = 0
    BY <1>1, <1>2, <1>4 DEF AddsUp
  <2>2. ASSUME NEW k \in 1..m PROVE g[k] = g[k - 1] + Summand(f, k)
    <3>1. k \in Nat /\ k - 1 \in 0..m /\ k - 1 # m /\ k \in 0..m /\ m \in Nat
      BY <1>1
    <3>2. g[k - 1] = h[k - 1]
      BY <3>1
    <3>3. CASE k = m
      BY <3>1, <3>2, <3>3
    <3>4. CASE k # m
      <4>1. k \in 1..(m - 1) /\ g[k] = h[k]
        BY <3>1, <3>4
      <4> QED BY <1>4, <3>2, <4>1 DEF AddsUp
    <3> QED BY <3>3, <3>4
  <2> QED BY <2>1, <2>2 DEF AddsUp
<1> QED BY <1>1, <1>5

LEMMA SumsAgree ==
  ASSUME NEW f, NEW m \in Nat, NEW n \in Nat, m <= n, NEW g, NEW h, AddsUp(f, m, g), AddsUp(f, n, h)
  PROVE  g[m] = h[m]
<1> DEFINE T == {k \in 0..m : g[k] # h[k]}
<1> SUFFICES ASSUME T # {} PROVE FALSE
  OBVIOUS
<1>5. T \subseteq Nat
  OBVIOUS
<1>1. PICK k \in T : \A l \in T : k <= l
  BY <1>5, Least
<1>2. k # 0
  BY <1>1 DEF AddsUp
<1>3. k \in 1..m /\ k \in 1..n /\ k - 1 \in 0..m /\ k - 1 \notin T
  BY <1>1, <1>2
<1>4. g[k - 1] = h[k - 1]
  BY <1>3
<1> QED BY <1>1, <1>3, <1>4 DEF AddsUp

LEMMA SumSteps ==
  ASSUME NEW f
  PROVE  /\ SumOf(f, 0) = 0
         /\ \A n \in Nat \ {0} : SumOf(f, n) = SumOf(f, n - 1) + Summand(f, n)
<1> DEFINE H(n) == CHOOSE h : AddsUp(f, n, h)
           F == [n \in Nat |-> H(n)[n]]
           Step(u) == [k \in Nat |-> IF k = 0 THEN 0 ELSE u[k - 1] + (IF k \in DOMAIN f THEN f[k] ELSE 0)]
           Upto == CHOOSE u : u = Step(u)
<1>1. \A n \in Nat : AddsUp(f, n, H(n))
  BY SumReaches
<1> HIDE DEF H
<1>2. F[0] = 0
  BY <1>1 DEF AddsUp
<1>3. ASSUME NEW n \in Nat \ {0} PROVE F[n] = F[n - 1] + Summand(f, n)
  <2>1. n - 1 \in Nat /\ n - 1 <= n /\ n \in 1..n /\ F[n] = H(n)[n] /\ F[n - 1] = H(n - 1)[n - 1]
    OBVIOUS
  <2>2. H(n)[n] = H(n)[n - 1] + Summand(f, n)
    BY <1>1, <2>1 DEF AddsUp
  <2> DEFINE m == n - 1
  <2>3. m \in Nat /\ m <= n /\ AddsUp(f, m, H(m)) /\ AddsUp(f, n, H(n))
    BY <1>1, <2>1
  <2> HIDE DEF m
  <2>4. H(m)[m] = H(n)[m]
    BY <2>3, SumsAgree
  <2> QED BY <2>1, <2>2, <2>4 DEF m
<1> HIDE DEF F
<1>4. F = Step(F)
  <2>1. F = [k \in Nat |-> F[k]]
    BY DEF F
  <2>2. \A k \in Nat : F[k] = IF k = 0 THEN 0 ELSE F[k - 1] + (IF k \in DOMAIN f THEN f[k] ELSE 0)
    BY <1>2, <1>3 DEF Summand
  <2> QED BY <2>1, <2>2
<1>5. Upto = Step(Upto)
  <2> HIDE DEF Step
  <2> QED BY <1>4
<1>6. \A n : SumOf(f, n) = Upto[n]
  BY DEF SumOf
<1> HIDE DEF Upto
<1>7. Upto[0] = 0 /\ \A n \in Nat \ {0} : Upto[n] = Upto[n - 1] + Summand(f, n)
  BY <1>5 DEF Summand
<1> QED BY <1>6, <1>7

LEMMA SumTyped ==
  ASSUME NEW f, \A k \in DOMAIN f : f[k] \in Int, NEW n \in Nat
  PROVE  SumOf(f, n) \in Int
<1> DEFINE T == {m \in Nat : SumOf(f, m) \notin Int}
<1> SUFFICES ASSUME T # {} PROVE FALSE
  OBVIOUS
<1>1. PICK m \in T : \A k \in T : m <= k
  BY Least
<1>2. m # 0
  BY <1>1, SumSteps
<1>3. m - 1 \in Nat /\ m - 1 \notin T
  BY <1>1, <1>2
<1>4. SumOf(f, m - 1) \in Int /\ Summand(f, m) \in Int
  BY <1>3 DEF Summand
<1>5. SumOf(f, m) = SumOf(f, m - 1) + Summand(f, m)
  BY <1>1, <1>2, SumSteps
<1> QED BY <1>1, <1>4, <1>5

\* A sum of positive numbers is positive once it has a summand.
LEMMA SumPositive ==
  ASSUME NEW f, \A k \in DOMAIN f : f[k] \in Nat \ {0}, NEW i \in DOMAIN f, i \in Nat \ {0},
         NEW n \in Nat, i <= n
  PROVE  SumOf(f, n) \in Nat \ {0}
<1> DEFINE Good(m) == SumOf(f, m) \in Nat /\ (i <= m => SumOf(f, m) # 0)
           T == {m \in Nat : ~Good(m)}
<1> SUFFICES ASSUME T # {} PROVE FALSE
  OBVIOUS
<1>1. PICK m \in T : \A k \in T : m <= k
  BY Least
<1>2. m # 0
  BY <1>1, SumSteps
<1>3. m - 1 \in Nat /\ m - 1 \notin T
  BY <1>1, <1>2
<1>4. /\ SumOf(f, m - 1) \in Nat /\ (i <= m - 1 => SumOf(f, m - 1) # 0)
      /\ Summand(f, m) \in Nat /\ (i = m => Summand(f, m) # 0)
  BY <1>3 DEF Summand
<1>5. SumOf(f, m) = SumOf(f, m - 1) + Summand(f, m)
  BY <1>1, <1>2, SumSteps
<1>6. SumOf(f, m) \in Nat /\ (SumOf(f, m - 1) # 0 \/ Summand(f, m) # 0 => SumOf(f, m) # 0)
  BY <1>4, <1>5
<1>7. i <= m => i <= m - 1 \/ i = m
  BY <1>1
<1>8. Good(m)
  BY <1>4, <1>6, <1>7
<1> QED BY <1>1, <1>8
-----------------------------------------------------------------------------
(* What an observation says. *)

\* A pose is the true one or its mirror image.
Faithful(o) ==
    /\ o.at \in Int /\ o.tilt \in Int /\ o.height \in Int
    /\ o.up \in Int /\ o.board \in Int /\ o.cm \in Int
    /\ o.residual \in Nat /\ o.residual <= MaxResidual
    /\ o.corners \in Nat /\ o.corners >= MinCorners
    /\ \/ o.at = o.cm - o.board /\ o.tilt = o.up
       \/ o.at = -(o.cm - o.board) /\ o.tilt = -o.up

\* The observations of a phone with the baseline b.
Upright(b, seq) ==
    /\ b # None => b.deg \in Int
    /\ \A i \in DOMAIN seq :
          Faithful(seq[i]) /\ b # None /\ Distance(seq[i].up, b.deg) <= MoveDeg

LEMMA PosesTyped ==
  ASSUME NEW d \in Devices, NEW view \in Views[d], phone[d] \in Phones, board \in Int,
         NEW p \in Poses(d, view)
  PROVE  /\ p.at \in Int /\ p.tilt \in Int /\ p.height \in Int /\ p.residual \in Nat
         /\ \/ p.at = phone[d].cm - board /\ p.tilt = phone[d].deg
            \/ p.at = -(phone[d].cm - board) /\ p.tilt = -phone[d].deg
<1>1. PICK fit \in view.fits : p = Pose(d, fit)
  BY DEF Poses
<1>2. fit.residual \in Nat /\ fit.height \in Int
  BY BoardAssumption
<1>3. phone[d].cm \in Int /\ phone[d].deg \in Int
  BY DEF Phones
<1> DEFINE side == IF fit.mirrored THEN -1 ELSE 1
<1>4. /\ p.at = side * (phone[d].cm - board) /\ p.tilt = side * phone[d].deg
      /\ p.height = fit.height /\ p.residual = fit.residual
  BY <1>1 DEF Pose
<1>5. CASE fit.mirrored
  BY <1>2, <1>3, <1>4, <1>5
<1>6. CASE ~fit.mirrored
  BY <1>2, <1>3, <1>4, <1>6
<1> QED BY <1>5, <1>6

LEMMA NearBestSome ==
  ASSUME NEW poses, poses # {}, \A p \in poses : p.residual \in Nat
  PROVE  NearBest(poses) # {} /\ NearBest(poses) \subseteq poses
<1> DEFINE all == {p.residual : p \in poses}
           best == Min(all)
<1>1. all \subseteq Nat /\ all # {}
  OBVIOUS
<1>2. best \in all
  <2>1. PICK x \in all : \A y \in all : x <= y
    BY <1>1, Least
  <2> HIDE DEF all
  <2> QED BY <2>1 DEF Min
<1>3. PICK p \in poses : p.residual = best
  BY <1>2
<1>4. best \in Nat
  BY <1>1, <1>2
<1> HIDE DEF all, best
<1>5. best <= Max({10, best + 10})
  <2> DEFINE pair == {10, best + 10}
  <2>1. \E x \in pair : \A y \in pair : x >= y
    BY <1>4
  <2>2. Max(pair) \in pair /\ \A y \in pair : Max(pair) >= y
    <3> HIDE DEF pair
    <3> QED BY <2>1 DEF Max
  <2> QED BY <1>4, <2>2
<1> QED BY <1>3, <1>5 DEF NearBest, best, all

LEMMA ObservedPose ==
  ASSUME NEW d \in Devices, NEW view \in Views[d], phone[d] \in Phones, board \in Int,
         Plausible(Poses(d, view)) # {}
  PROVE  Observed(d, view) \in Poses(d, view)
<1> DEFINE near == NearBest(Plausible(Poses(d, view)))
           up == phone[d].deg
           size == [p \in near |-> GravityError(p, up)]
<1>1. Plausible(Poses(d, view)) \subseteq Poses(d, view)
  BY DEF Plausible
<1>2. near # {} /\ near \subseteq Poses(d, view)
  BY <1>1, PosesTyped, NearBestSome
<1>3. \A p \in near : size[p] = GravityError(p, up) /\ size[p] \in Nat
  <2> SUFFICES ASSUME NEW p \in near PROVE GravityError(p, up) \in Nat
    OBVIOUS
  <2>1. p.tilt \in Int /\ up \in Int
    BY <1>2, PosesTyped DEF Phones
  <2> QED BY <2>1 DEF GravityError, Distance
<1>4. Observed(d, view) = CHOOSE p \in near : \A q \in near : GravityError(p, up) <= GravityError(q, up)
  BY DEF Observed, PickCandidate
<1> HIDE DEF near, size, up
<1>5. PICK p \in near : \A q \in near : size[p] <= size[q]
  BY <1>2, <1>3, LeastBy
<1>6. \E x \in near : \A q \in near : GravityError(x, up) <= GravityError(q, up)
  BY <1>3, <1>5
<1> QED BY <1>2, <1>4, <1>6

LEMMA ObservationFaithful ==
  ASSUME NEW d \in Devices, NEW view \in Views[d], phone[d] \in Phones, board \in Int,
         IsObservation(d, view)
  PROVE  Faithful(Observation(d, view)) /\ Observation(d, view).up = phone[d].deg
<1> DEFINE p == Observed(d, view)
           o == Observation(d, view)
<1>1. p \in Poses(d, view) /\ view.corners >= MinCorners /\ p.residual <= MaxResidual
  BY ObservedPose DEF IsObservation
<1>2. /\ p.at \in Int /\ p.tilt \in Int /\ p.height \in Int /\ p.residual \in Nat
      /\ \/ p.at = phone[d].cm - board /\ p.tilt = phone[d].deg
         \/ p.at = -(phone[d].cm - board) /\ p.tilt = -phone[d].deg
  BY <1>1, PosesTyped
<1>3. view.corners \in Nat /\ phone[d].cm \in Int /\ phone[d].deg \in Int
  BY BoardAssumption DEF Phones
<1>4. /\ o.at = p.at /\ o.tilt = p.tilt /\ o.height = p.height /\ o.residual = p.residual
      /\ o.corners = view.corners /\ o.up = phone[d].deg /\ o.board = board /\ o.cm = phone[d].cm
  BY DEF Observation
<1> HIDE DEF p, o
<1>5. Faithful(o)
  BY <1>1, <1>2, <1>3, <1>4 DEF Faithful
<1> QED BY <1>4, <1>5 DEF o
-----------------------------------------------------------------------------
(* What is solved. *)

LEMMA WeightPositive ==
  ASSUME NEW o, Faithful(o)
  PROVE  Weight(o) \in Nat \ {0}
<1> DEFINE pair == {o.residual, 1}
           a == 100 * o.corners
           b == Max(pair)
<1>1. o.residual \in Nat /\ o.corners \in Nat /\ o.residual <= a /\ 1 <= a /\ a \in Nat
  <2>1. /\ o.residual \in Nat /\ o.corners \in Nat /\ o.residual <= MaxResidual /\ o.corners >= MinCorners
        /\ MinCorners \in Nat \ {0} /\ MaxResidual \in Nat /\ MaxResidual <= 100 * MinCorners
    BY BoardAssumption DEF Faithful
  <2> QED BY <2>1
<1>2. b \in pair /\ b >= 1
  <2>1. \E x \in pair : \A y \in pair : x >= y
    BY <1>1
  <2>2. Max(pair) \in pair /\ \A y \in pair : Max(pair) >= y
    <3> HIDE DEF pair
    <3> QED BY <2>1 DEF Max
  <2> QED BY <2>2
<1>3. b \in Nat /\ b <= a
  BY <1>1, <1>2
<1>4. Weight(o) = a \div b
  BY DEF Weight
<1> HIDE DEF a, b
<1>5. a \div b \in Int /\ a \div b >= 1
  BY <1>1, <1>2, <1>3
<1> QED BY <1>4, <1>5

\* The observations of d are faithful.
Known(d) == Measured(obs[d]) /\ Upright(baseline[d], obs[d])

LEMMA ObsNumbered ==
  ASSUME NEW d \in Devices, Known(d)
  PROVE  Len(obs[d]) \in Nat /\ DOMAIN obs[d] = 1 .. Len(obs[d]) /\ IsFiniteSet(DOMAIN obs[d])
<1>1. Len(obs[d]) \in Nat /\ DOMAIN obs[d] = 1 .. Len(obs[d])
  BY Appended DEF Known, Measured
<1> QED BY <1>1, FS_Interval

LEMMA MeanTyped ==
  ASSUME NEW d \in Devices, Known(d), NEW S, S \subseteq DOMAIN obs[d], S # {}
  PROVE  MeanTilt(d, S) \in Int
<1> DEFINE weight == [i \in S |-> Weight(obs[d][i])]
           turned == [i \in S |-> weight[i] * obs[d][i].tilt]
           n == Len(obs[d])
<1>1. n \in Nat /\ S \subseteq 1..n
  BY ObsNumbered
<1>2. ASSUME NEW i \in S PROVE weight[i] \in Nat \ {0} /\ turned[i] \in Int
  <2>1. Faithful(obs[d][i])
    BY DEF Known, Upright
  <2>2. weight[i] \in Nat \ {0} /\ obs[d][i].tilt \in Int
    BY <2>1, WeightPositive DEF Faithful
  <2> QED BY <2>2
<1>3. DOMAIN weight = S /\ DOMAIN turned = S
  OBVIOUS
<1>4. MeanTilt(d, S) = SumOf(turned, n) \div SumOf(weight, n)
  BY DEF MeanTilt
<1> HIDE DEF weight, turned, n
<1>5. SumOf(turned, n) \in Int
  BY <1>1, <1>2, <1>3, SumTyped
<1>6. PICK i \in S : TRUE
  OBVIOUS
<1>7. i \in DOMAIN weight /\ i \in Nat \ {0} /\ i <= n
  <2>1. i \in 1..n
    BY <1>1, <1>6
  <2> QED BY <1>1, <1>3, <1>6, <2>1
<1>9. \A k \in DOMAIN weight : weight[k] \in Nat \ {0}
  BY <1>2, <1>3
<1>8. SumOf(weight, n) \in Nat \ {0}
  BY <1>1, <1>7, <1>9, SumPositive
<1> QED BY <1>4, <1>5, <1>8

\* What the checks of solve leave of a camera and the observations seq.
Checked(camera, seq) ==
    /\ camera.at \in Int /\ camera.tilt \in Int
    /\ seq # <<>>
    /\ \A i \in DOMAIN seq : Agrees(seq[i], camera)
    /\ \E i \in DOMAIN seq : Distance(camera.tilt, seq[i].up) <= MaxGravity

LEMMA SolvedChecked ==
  ASSUME NEW d \in Devices, Known(d), IsValid(d)
  PROVE  Checked(SolveCamera(d), obs[d])
<1> DEFINE camera == SolveCamera(d)
           places == [i \in Kept(d) |-> obs[d][i].at]
           leans == [i \in DOMAIN obs[d] |-> Distance(camera.tilt, obs[d][i].up)]
<1>1. Kept(d) \subseteq DOMAIN obs[d] /\ Kept(d) # {}
  BY DEF IsValid, Kept, Trained
<1>2. /\ AllAgree(d, camera) /\ UprightBy(d, camera)
      /\ camera.at = Median(places) /\ camera.tilt = MeanTilt(d, Kept(d))
  BY DEF IsValid, SolveCamera
<1>3. camera.tilt \in Int
  BY <1>1, <1>2, MeanTyped
<1>4. \A i \in DOMAIN obs[d] : obs[d][i].at \in Int /\ obs[d][i].up \in Int
  BY DEF Known, Upright, Faithful
<1>5. IsFiniteSet(DOMAIN obs[d]) /\ IsFiniteSet(Kept(d))
  BY <1>1, ObsNumbered, FS_Subset
<1> HIDE DEF camera
<1>6. Numbers(places)
  BY <1>1, <1>4, <1>5 DEF Numbers
<1>7. Numbers(leans)
  BY <1>1, <1>3, <1>4, <1>5 DEF Numbers, Distance
<1>8. Median(leans) <= MaxGravity
  BY <1>2 DEF UprightBy
<1>9. \A i \in DOMAIN obs[d] : leans[i] = Distance(camera.tilt, obs[d][i].up) /\ leans[i] \in Int
  BY <1>7 DEF Numbers
<1>10. DOMAIN leans = DOMAIN obs[d]
  OBVIOUS
<1> HIDE DEF leans, places
<1>11. camera.at \in Int
  BY <1>2, <1>6, MedianBetween
<1>12. PICK i \in DOMAIN obs[d] : leans[i] <= Median(leans) /\ Median(leans) \in Int
  BY <1>7, <1>10, MedianBetween
<1>13. Distance(camera.tilt, obs[d][i].up) <= MaxGravity
  BY <1>8, <1>9, <1>12, BoardAssumption
<1>14. obs[d] # <<>>
  BY <1>1
<1> QED BY <1>2, <1>3, <1>11, <1>13, <1>14 DEF Checked, AllAgree, camera

SInv ==
    /\ IInv
    /\ board \in Int
    /\ \A d \in Devices : Upright(baseline[d], obs[d])
    /\ state = "ready" => \A d \in Devices : Checked(rig[d], obs[d])

LEMMA InitSInv == Init => SInv
BY InitIInv, BoardAssumption DEF Init, SInv, Upright

\* An accepted frame is as its phone was when the session began.
LEMMA AcceptedUpright ==
  ASSUME NEW b, NEW seq, IsSeq(seq), Upright(b, seq), NEW now, now # None, now.deg \in Int,
         b = None \/ ~ChangedFrame(now, b), b = None => seq = <<>>,
         NEW o, Faithful(o), o.up = now.deg
  PROVE  Upright(IF b = None THEN now ELSE b, Append(seq, o))
<1> DEFINE kept == Append(seq, o)
           base == IF b = None THEN now ELSE b
<1>1. /\ Len(seq) \in Nat
      /\ DOMAIN kept = 1 .. Len(seq) + 1 /\ DOMAIN seq = 1 .. Len(seq)
      /\ \A i \in 1 .. Len(seq) : kept[i] = seq[i]
      /\ kept[Len(seq) + 1] = o
      /\ seq = <<>> <=> Len(seq) = 0
  BY Appended
<1>2. base # None /\ base.deg \in Int
  BY DEF Upright
<1>3. Distance(o.up, base.deg) <= MoveDeg
  <2>1. CASE b = None
    BY <2>1, BoardAssumption DEF Distance
  <2>2. CASE b # None
    BY <1>2, <2>2, BoardAssumption DEF ChangedFrame, Distance
  <2> QED BY <2>1, <2>2
<1>4. \A i \in DOMAIN seq : Faithful(seq[i]) /\ Distance(seq[i].up, base.deg) <= MoveDeg
  BY DEF Upright
<1> HIDE DEF kept, base
<1>5. Upright(base, kept)
  BY <1>1, <1>2, <1>3, <1>4 DEF Upright
<1> QED BY <1>5 DEF kept, base

LEMMA OfferedSInv ==
  ASSUME SInv, IInv', NEW d \in Devices, NEW view \in Views[d], Offer(d, view)
  PROVE  SInv'
<1> DEFINE now == FrameMetadata(d, view)
           o == Observation(d, view)
           b == baseline[d]
<1>1. phone[d] \in Phones /\ IsSeq(obs[d]) /\ (b = None => obs[d] = <<>>) /\ Upright(b, obs[d]) /\ board \in Int
  BY DEF SInv, IInv, Measured, OnePlace
<1>2. board' = board
  BY DEF Offer, world
<1>3. state' # "ready"
  BY DEF Offer
<1>4. CASE b # None /\ ChangedFrame(now, b)
  <2>1. UNCHANGED <<baseline, obs>>
    BY <1>4 DEF Offer
  <2> QED BY <1>2, <1>3, <2>1 DEF SInv
<1>5. CASE ~(b # None /\ ChangedFrame(now, b))
  <2>1. /\ baseline' = [baseline EXCEPT ![d] = IF b = None THEN now ELSE b]
        /\ obs' = [obs EXCEPT ![d] = Append(obs[d], o)]
        /\ IsObservation(d, view)
    BY <1>5 DEF Offer
  <2>2. now # None /\ now.deg = phone[d].deg /\ now.deg \in Int
    BY <1>1, MetadataIsSome DEF FrameMetadata, Phones
  <2>3. Faithful(o) /\ o.up = now.deg
    BY <1>1, <2>1, <2>2, ObservationFaithful
  <2> HIDE DEF now, o, b
  <2>4. Upright(IF b = None THEN now ELSE b, Append(obs[d], o))
    BY <1>1, <1>5, <2>2, <2>3, AcceptedUpright
  <2>5. /\ baseline'[d] = (IF b = None THEN now ELSE b) /\ obs'[d] = Append(obs[d], o)
        /\ \A e \in Devices \ {d} : baseline'[e] = baseline[e] /\ obs'[e] = obs[e]
    BY <2>1 DEF SInv, IInv
  <2>6. \A e \in Devices : Upright(baseline'[e], obs'[e])
    BY <2>4, <2>5 DEF SInv
  <2> QED BY <1>1, <1>2, <1>3, <2>6 DEF SInv
<1> QED BY <1>4, <1>5

LEMMA StepSInv == SInv /\ [Next]_vars => SInv'
<1> SUFFICES ASSUME SInv, [Next]_vars PROVE SInv'
  OBVIOUS
<1>1. IInv'
  BY StepIInv DEF SInv
<1>2. CASE (\E place \in Boards : MoveBoard(place)) \/ UNCHANGED vars
  <2>1. UNCHANGED <<baseline, obs, rig, state>> /\ board' \in Int
    BY <1>2, BoardAssumption DEF MoveBoard, vars, session, world, SInv
  <2> QED BY <1>1, <2>1 DEF SInv
<1>3. CASE \E d \in Devices : NewSession(d) \/ \E step \in Steps[d] : MovePhone(d, step)
  <2>1. UNCHANGED <<baseline, obs, rig, state, board>>
    BY <1>3 DEF NewSession, MovePhone, session
  <2> QED BY <1>1, <2>1 DEF SInv
<1>4. CASE Solve
  <2>1. UNCHANGED <<baseline, obs, board>>
    BY <1>4 DEF Solve, world
  <2>2. state' = "ready" => \A d \in Devices : Checked(rig'[d], obs[d])
    <3> SUFFICES ASSUME state' = "ready", NEW d \in Devices PROVE Checked(rig'[d], obs[d])
      OBVIOUS
    <3>1. IsValid(d) /\ rig' = [e \in Devices |-> SolveCamera(e)]
      BY <1>4 DEF Solve
    <3>2. rig'[d] = SolveCamera(d)
      BY <3>1
    <3>3. Known(d)
      BY DEF SInv, IInv, Known
    <3> QED BY <3>1, <3>2, <3>3, SolvedChecked
  <2> QED BY <1>1, <2>1, <2>2 DEF SInv
<1> QED BY <1>1, <1>2, <1>3, <1>4, OfferedSInv DEF Next

LEMMA Standing == Spec => []SInv
BY InitSInv, StepSInv, PTL DEF Spec

(***************************************************************************)
(* A camera is solved only when it is tilted as its phone measured gravity *)
(* (solve): the median of the deviations is no less than one of them, and  *)
(* that observation is tilted as the baseline is.                          *)
(***************************************************************************)
THEOREM CamerasUpright == Spec => []SolvedUpright
<1>1. SInv => SolvedUpright
  <2> SUFFICES ASSUME SInv, state = "ready", NEW d \in Devices
               PROVE  Distance(rig[d].tilt, baseline[d].deg) <= MaxGravity + MoveDeg
    BY DEF SolvedUpright
  <2>1. Checked(rig[d], obs[d]) /\ Upright(baseline[d], obs[d])
    BY DEF SInv
  <2>2. PICK i \in DOMAIN obs[d] : Distance(rig[d].tilt, obs[d][i].up) <= MaxGravity
    BY <2>1 DEF Checked
  <2>3. /\ obs[d][i].up \in Int /\ baseline[d].deg \in Int /\ rig[d].tilt \in Int
        /\ Distance(obs[d][i].up, baseline[d].deg) <= MoveDeg
    BY <2>1 DEF Upright, Faithful, Checked
  <2> QED BY <2>2, <2>3, BoardAssumption DEF Distance
<1> QED BY <1>1, Standing, PTL

\* Every phone is tilted so far that its mirror image would disagree with it.
Tilted == \A d \in Devices : Distance(baseline[d].deg, 0) > AgreeDeg + MoveDeg

(***************************************************************************)
(* A rig is not solved from observations of a phone between which the      *)
(* board was moved (solve: all observations are compared with the camera). *)
(* A phone that looks straight down could mistake a board that was moved   *)
(* to the other side for the mirror image of the first one.                *)
(***************************************************************************)
THEOREM BoardsStoodStill == Spec => [](Tilted => BoardStillForEach)
<1>1. SInv => (Tilted => BoardStillForEach)
  <2> SUFFICES ASSUME SInv, Tilted, state = "ready", NEW d \in Devices,
                      NEW i \in DOMAIN obs[d], NEW j \in DOMAIN obs[d]
               PROVE  Distance(obs[d][i].board, obs[d][j].board) <= 2 * (AgreeCm + MoveCm)
    BY DEF BoardStillForEach
  <2> DEFINE p == obs[d][i]
             q == obs[d][j]
             base == baseline[d].deg
             camera == rig[d]
  <2>1. Checked(camera, obs[d]) /\ Upright(baseline[d], obs[d])
    BY DEF SInv
  <2>2. Faithful(p) /\ Faithful(q) /\ Distance(p.up, base) <= MoveDeg /\ Distance(q.up, base) <= MoveDeg
    BY <2>1 DEF Upright
  <2>3. Agrees(p, camera) /\ Agrees(q, camera) /\ camera.at \in Int /\ camera.tilt \in Int
    BY <2>1 DEF Checked
  <2>4. base \in Int /\ Distance(base, 0) > AgreeDeg + MoveDeg
    BY <2>1, <2>2 DEF Upright, Tilted
  <2>5. Distance(p.cm, q.cm) <= 2 * MoveCm
    BY Still DEF SInv, StoodStill
  <2>6. /\ MoveCm \in Nat /\ MoveDeg \in Nat /\ AgreeCm \in Nat /\ AgreeDeg \in Nat
    BY BoardAssumption
  <2> HIDE DEF p, q, base, camera
  <2>7. /\ Distance(p.at, camera.at) <= AgreeCm /\ Distance(q.at, camera.at) <= AgreeCm
        /\ Distance(p.tilt, camera.tilt) <= AgreeDeg /\ Distance(q.tilt, camera.tilt) <= AgreeDeg
    BY <2>3 DEF Agrees
  <2>8. /\ p.at \in Int /\ q.at \in Int /\ p.tilt \in Int /\ q.tilt \in Int /\ p.up \in Int /\ q.up \in Int
        /\ p.board \in Int /\ q.board \in Int /\ p.cm \in Int /\ q.cm \in Int
    BY <2>2 DEF Faithful
  <2>9. Distance(p.at, q.at) <= 2 * AgreeCm /\ Distance(p.tilt, q.tilt) <= 2 * AgreeDeg
    BY <2>3, <2>6, <2>7, <2>8 DEF Distance
  <2>10. \/ p.at = p.cm - p.board /\ q.at = q.cm - q.board
         \/ p.at = -(p.cm - p.board) /\ q.at = -(q.cm - q.board)
    <3>1. ~(p.tilt = p.up /\ q.tilt = -q.up) /\ ~(p.tilt = -p.up /\ q.tilt = q.up)
      BY <2>2, <2>4, <2>6, <2>8, <2>9 DEF Distance
    <3> QED BY <2>2, <3>1 DEF Faithful
  <2>11. Distance(p.board, q.board) <= 2 * (AgreeCm + MoveCm)
    BY <2>5, <2>6, <2>8, <2>9, <2>10 DEF Distance
  <2> QED BY <2>11 DEF p, q
<1> QED BY <1>1, Standing, PTL

-----------------------------------------------------------------------------
(* Hands (HandAssociation). *)

\* The greatest of finitely many numbers.
LEMMA GreatestIs ==
  ASSUME NEW T, IsFiniteSet(T), T # {}, T \subseteq Int
  PROVE  Max(T) \in T /\ \A y \in T : y <= Max(T)
<1> DEFINE f == [x \in T |-> x]
<1>1. Numbers(f) /\ DOMAIN f = T /\ Range(f) = T
  BY DEF Numbers, Range
<1>2. \A x \in T : AtMost(f, x) = Cardinality({y \in T : y <= x})
  BY DEF AtMost
<1> HIDE DEF f
<1>3. PICK x \in T : Cardinality({y \in T : y <= x}) = Cardinality(T)
  BY <1>1, <1>2, Greatest
<1>4. {y \in T : y <= x} = T
  BY <1>3, FS_Subset
<1>5. x \in Int /\ \A y \in T : x >= y
  BY <1>4
<1>6. Max(T) \in T /\ \A y \in T : Max(T) >= y
  BY <1>5 DEF Max
<1> DEFINE top == Max(T)
<1>7. top \in Int /\ \A y \in T : top >= y
  BY <1>6
<1> HIDE DEF top
<1>8. \A y \in T : y <= top
  BY <1>7
<1> QED BY <1>6, <1>8 DEF top

\* Candidates that are numbered and scored in integers.
HandsFound(cands) ==
    IsFiniteSet(DOMAIN cands) /\ \A i \in DOMAIN cands : i \in Nat /\ IsHand(cands[i])

LEMMA ScoreTyped ==
  ASSUME NEW cand, IsHand(cand), NEW arms, NEW side \in Sides
  PROVE  ScoreCandidate(cand, arms, side) \in Int
<1>1. cand.distance[side] \in Int /\ cand.direction[side] \in Int /\ cand.sure \in Int
  BY DEF IsHand
<1>2. DirectionWeight \in Int /\ HandednessWeight \in Int
  BY AssociationAssumption
<1>3. HandednessScore(cand, side) \in Int
  BY <1>1 DEF HandednessScore
<1>4. (DirectionWeight * cand.direction[side]) \div 100 \in Int
  BY <1>1, <1>2
<1>5. (HandednessWeight * HandednessScore(cand, side)) \div 100 \in Int
  BY <1>2, <1>3
<1> DEFINE along == (DirectionWeight * cand.direction[side]) \div 100
           handed == (HandednessWeight * HandednessScore(cand, side)) \div 100
<1>6. ScoreCandidate(cand, arms, side) =
          IF ~arms[side].wrist \/ cand.distance[side] = Far THEN Far
          ELSE cand.distance[side] + (IF arms[side].elbow THEN along ELSE 0) + handed
  BY DEF ScoreCandidate
<1> HIDE DEF along, handed
<1> QED BY <1>1, <1>4, <1>5, <1>6 DEF along, handed, Far

\* Who has a margin leads every rival by it.
LEMMA MarginLeads ==
  ASSUME NEW cands, HandsFound(cands), NEW arms, NEW used,
         NEW i \in DOMAIN cands, NEW side \in Sides, Margin(cands, arms, used, i, side) >= MinMargin
  PROVE  \A j \in DOMAIN cands \ (used \cup {i}) :
            ScoreCandidate(cands[i], arms, side) - ScoreCandidate(cands[j], arms, side) >= MinMargin
<1> DEFINE R == {ScoreCandidate(cands[j], arms, side) : j \in DOMAIN cands \ (used \cup {i})}
           own == ScoreCandidate(cands[i], arms, Mirror(side))
           T == R \cup {own}
           s == ScoreCandidate(cands[i], arms, side)
<1>1. Mirror(side) \in Sides
  BY DEF Mirror, Sides
<1>2. own \in Int /\ s \in Int
  BY <1>1, ScoreTyped DEF HandsFound
<1>3. R \subseteq Int
  BY ScoreTyped DEF HandsFound
<1>4. IsFiniteSet(R)
  <2> DEFINE J == DOMAIN cands \ (used \cup {i})
             f == [j \in J |-> ScoreCandidate(cands[j], arms, side)]
  <2>1. IsFiniteSet(J)
    BY FS_Subset DEF HandsFound
  <2>2. f \in Surjection(J, R)
    BY DEF Surjection
  <2> QED BY <2>1, <2>2, FS_Surjection
<1>5. Margin(cands, arms, used, i, side) = s - Max(T)
  BY DEF Margin
<1>6. \A j \in DOMAIN cands \ (used \cup {i}) : ScoreCandidate(cands[j], arms, side) \in R
  OBVIOUS
<1> HIDE DEF R, own, s
<1>7. IsFiniteSet(T) /\ T # {} /\ T \subseteq Int
  BY <1>2, <1>3, <1>4, FS_AddElement
<1> HIDE DEF T
<1>8. Max(T) \in Int /\ \A y \in T : y <= Max(T)
  BY <1>7, GreatestIs
<1>9. \A y \in R : y \in Int /\ s - y >= MinMargin
  <2> SUFFICES ASSUME NEW y \in R PROVE y \in Int /\ s - y >= MinMargin
    OBVIOUS
  <2>1. y \in Int /\ y <= Max(T)
    BY <1>3, <1>8 DEF T
  <2>2. s - Max(T) >= MinMargin /\ MinMargin \in Int
    BY <1>5, AssociationAssumption
  <2> QED BY <1>2, <1>8, <2>1, <2>2
<1> QED BY <1>6, <1>9 DEF s

\* Of any pairs one is tried first.
LEMMA FirstIsOne ==
  ASSUME NEW cands, HandsFound(cands), NEW arms,
         NEW pairs, pairs \subseteq Scored(cands, arms), pairs # {}
  PROVE  FirstOf(cands, arms, pairs) \in pairs
<1> DEFINE Score(a) == ScoreCandidate(cands[a[1]], arms, a[2])
           A == Scored(cands, arms)
           score == [a \in A |-> Score(a)]
           place == [a \in A |-> Place(a)]
<1>1. \A a \in A : a \in (DOMAIN cands) \X Sides
  BY DEF Scored
<1>2. \A a \in A : score[a] \in Int
  BY <1>1, ScoreTyped DEF HandsFound
<1>3. \A a \in A : place[a] \in Nat
  BY <1>1 DEF HandsFound, Place
<1>4. \A a, b \in A : place[a] = place[b] => a = b
  <2> SUFFICES ASSUME NEW a \in A, NEW b \in A, place[a] = place[b] PROVE a = b
    OBVIOUS
  <2>1. /\ a = <<a[1], a[2]>> /\ b = <<b[1], b[2]>> /\ a[1] \in Nat /\ b[1] \in Nat
        /\ a[2] \in {"left", "right"} /\ b[2] \in {"left", "right"}
    BY <1>1 DEF HandsFound, Sides
  <2>2. a[1] = b[1] /\ a[2] = b[2]
    BY <2>1 DEF Place
  <2> QED BY <2>1, <2>2, Zenon
<1>5. \A a, b \in A : Before(cands, arms, a, b)
                        <=> score[a] > score[b] \/ (score[a] = score[b] /\ place[a] < place[b])
  BY DEF Before
<1>6. IsFiniteSet(A)
  <2>1. IsFiniteSet(Sides)
    <3>1. IsFiniteSet({"left"})
      BY FS_Singleton
    <3>2. Sides = {"left"} \cup {"right"}
      BY DEF Sides
    <3> QED BY <3>1, <3>2, FS_AddElement
  <2>2. IsFiniteSet((DOMAIN cands) \X Sides)
    BY <2>1, FS_Product DEF HandsFound
  <2> QED BY <1>1, <2>2, FS_Subset
<1> HIDE DEF score, place
<1> DEFINE Ahead(a) == {b \in A : Before(cands, arms, b, a)}
           rank == [a \in pairs |-> Cardinality(Ahead(a))]
<1>7. \A a \in pairs : IsFiniteSet(Ahead(a)) /\ rank[a] = Cardinality(Ahead(a)) /\ rank[a] \in Nat
  BY <1>6, FS_Subset, FS_CardinalityType
<1>8. PICK a \in pairs : \A b \in pairs : rank[a] <= rank[b]
  <2> HIDE DEF rank
  <2> QED BY <1>7, LeastBy
<1>9. ASSUME NEW b \in pairs, b # a PROVE Before(cands, arms, a, b)
  <2>1. a \in A /\ b \in A
    OBVIOUS
  <2>2. Before(cands, arms, a, b) \/ Before(cands, arms, b, a)
    BY <1>2, <1>3, <1>4, <1>5, <1>9, <2>1
  <2>3. CASE Before(cands, arms, b, a)
    <3>1. Ahead(b) \subseteq Ahead(a)
      <4> SUFFICES ASSUME NEW c \in A, Before(cands, arms, c, b) PROVE Before(cands, arms, c, a)
        OBVIOUS
      <4> QED BY <1>2, <1>3, <1>5, <2>1, <2>3
    <3>2. b \in Ahead(a) /\ b \notin Ahead(b)
      BY <1>2, <1>3, <1>5, <2>1, <2>3
    <3>3. /\ IsFiniteSet(Ahead(a)) /\ Cardinality(Ahead(a)) \in Nat /\ Cardinality(Ahead(b)) \in Nat
          /\ Cardinality(Ahead(a)) <= Cardinality(Ahead(b))
      BY <1>7, <1>8
    <3> HIDE DEF Ahead
    <3>4. Cardinality(Ahead(b)) <= Cardinality(Ahead(a)) /\ Cardinality(Ahead(a)) # Cardinality(Ahead(b))
      BY <3>1, <3>2, <3>3, FS_Subset
    <3> QED BY <3>3, <3>4
  <2> QED BY <2>2, <2>3
<1>10. \A b \in pairs \ {a} : Before(cands, arms, a, b)
  BY <1>9
<1> QED BY <1>10 DEF FirstOf

\* No hand goes to both arms, and none that is left over is nearly as good.
HandsClear(cands, arms, hand) ==
    \A s \in DOMAIN hand :
        /\ \A t \in DOMAIN hand \ {s} : hand[t] # hand[s]
        /\ \A i \in DOMAIN cands \ Range(hand) :
               ScoreCandidate(cands[hand[s]], arms, s) - ScoreCandidate(cands[i], arms, s) >= MinMargin

LEMMA AssociationClear ==
  ASSUME NEW cands, HandsFound(cands), NEW arms
  PROVE  HandsClear(cands, arms, AssociateHands(cands, arms))
<1> DEFINE A == Scored(cands, arms)
           clear == Clear(cands, arms, {}, A)
           a == FirstOf(cands, arms, clear)
           others == {b \in A : Before(cands, arms, a, b) /\ b[1] # a[1] /\ b[2] # a[2]}
           rest == Clear(cands, arms, {a[1]}, others)
           b == FirstOf(cands, arms, rest)
           hand == AssociateHands(cands, arms)
<1>1. hand = IF clear = {} THEN <<>>
             ELSE IF rest = {} THEN [s \in {a[2]} |-> a[1]]
             ELSE [s \in {a[2], b[2]} |-> IF s = a[2] THEN a[1] ELSE b[1]]
  BY DEF AssociateHands, AssociateAfter, Both
<1>2. clear \subseteq A /\ rest \subseteq others /\ others \subseteq A
  BY DEF Clear
<1>3. \A c \in A : c[1] \in DOMAIN cands /\ c[2] \in Sides
  BY DEF Scored
<1>4. \A c \in clear : Margin(cands, arms, {}, c[1], c[2]) >= MinMargin
  BY DEF Clear
<1>5. \A c \in rest : Margin(cands, arms, {a[1]}, c[1], c[2]) >= MinMargin
  BY DEF Clear
<1>6. \A c \in rest : c[1] # a[1] /\ c[2] # a[2]
  BY <1>2
<1> HIDE DEF A, clear, others, rest
<1> SUFFICES HandsClear(cands, arms, hand)
  OBVIOUS
<1> HIDE DEF hand
<1>7. CASE clear = {}
  <2>1. hand = <<>>
    BY <1>1, <1>7
  <2> QED BY <2>1 DEF HandsClear
<1>8. CASE clear # {}
  <2>1. a \in clear
    BY <1>2, <1>8, FirstIsOne DEF A
  <2>2. a[1] \in DOMAIN cands /\ a[2] \in Sides /\ Margin(cands, arms, {}, a[1], a[2]) >= MinMargin
    BY <1>2, <1>3, <1>4, <2>1
  <2>3. \A j \in DOMAIN cands \ {a[1]} :
           ScoreCandidate(cands[a[1]], arms, a[2]) - ScoreCandidate(cands[j], arms, a[2]) >= MinMargin
    BY <2>2, MarginLeads
  <2>4. CASE rest = {}
    <3>1. hand = [s \in {a[2]} |-> a[1]]
      BY <1>1, <1>8, <2>4
    <3> HIDE DEF a
    <3>2. DOMAIN hand = {a[2]} /\ hand[a[2]] = a[1] /\ a[1] \in Range(hand)
      BY <3>1 DEF Range
    <3>3. \A s \in DOMAIN hand : s = a[2]
      BY <3>2
    <3> QED BY <2>3, <3>2, <3>3, Zenon DEF HandsClear
  <2>5. CASE rest # {}
    <3>1. b \in rest
      <4>1. rest \subseteq A
        BY <1>2
      <4> QED BY <2>5, <4>1, FirstIsOne DEF A
    <3>2. /\ b[1] \in DOMAIN cands /\ b[2] \in Sides /\ b[1] # a[1] /\ b[2] # a[2]
          /\ Margin(cands, arms, {a[1]}, b[1], b[2]) >= MinMargin
      BY <1>2, <1>3, <1>5, <1>6, <3>1
    <3>3. \A j \in DOMAIN cands \ ({a[1]} \cup {b[1]}) :
             ScoreCandidate(cands[b[1]], arms, b[2]) - ScoreCandidate(cands[j], arms, b[2]) >= MinMargin
      BY <3>2, MarginLeads
    <3>4. hand = [s \in {a[2], b[2]} |-> IF s = a[2] THEN a[1] ELSE b[1]]
      BY <1>1, <1>8, <2>5
    <3> HIDE DEF a, b
    <3>5. /\ DOMAIN hand = {a[2], b[2]} /\ hand[a[2]] = a[1] /\ hand[b[2]] = b[1]
          /\ a[1] \in Range(hand) /\ b[1] \in Range(hand)
      BY <3>2, <3>4 DEF Range
    <3> QED BY <2>3, <3>2, <3>3, <3>5 DEF HandsClear
  <2> QED BY <2>4, <2>5
<1> QED BY <1>7, <1>8

LEMMA AssociatesCandidates ==
  ASSUME NEW cands, HandsFound(cands), NEW arms, NEW s \in DOMAIN AssociateHands(cands, arms)
  PROVE  AssociateHands(cands, arms)[s] \in DOMAIN cands
<1> DEFINE A == Scored(cands, arms)
           clear == Clear(cands, arms, {}, A)
           a == FirstOf(cands, arms, clear)
           others == {b \in A : Before(cands, arms, a, b) /\ b[1] # a[1] /\ b[2] # a[2]}
           rest == Clear(cands, arms, {a[1]}, others)
           b == FirstOf(cands, arms, rest)
           hand == AssociateHands(cands, arms)
<1>1. hand = IF clear = {} THEN <<>>
             ELSE IF rest = {} THEN [t \in {a[2]} |-> a[1]]
             ELSE [t \in {a[2], b[2]} |-> IF t = a[2] THEN a[1] ELSE b[1]]
  BY DEF AssociateHands, AssociateAfter, Both
<1>2. clear \subseteq A /\ rest \subseteq A
  BY DEF Clear
<1>3. \A c \in A : c[1] \in DOMAIN cands
  BY DEF Scored
<1> HIDE DEF clear, rest
<1>4. clear # {} => a[1] \in DOMAIN cands
  BY <1>2, <1>3, FirstIsOne
<1>5. rest # {} => b[1] \in DOMAIN cands
  BY <1>2, <1>3, FirstIsOne
<1> SUFFICES ASSUME s \in DOMAIN hand PROVE hand[s] \in DOMAIN cands
  OBVIOUS
<1> HIDE DEF hand, a, b
<1>6. clear # {}
  <2> SUFFICES ASSUME clear = {} PROVE FALSE
    OBVIOUS
  <2>1. hand = <<>>
    BY <1>1
  <2> QED BY <2>1
<1> QED BY <1>1, <1>4, <1>5, <1>6

-----------------------------------------------------------------------------
(* What a capture's detections are made of (Vision). *)

LEMMA HandsJoined ==
  ASSUME NEW a, NEW b, IsHands(a), IsHands(b)
  PROVE  IsHands(a \o b)
<1> DEFINE S == Range(a) \cup Range(b)
           P(h) == /\ IsHand(h)
                   /\ \A n \in DOMAIN h.landmarks : h.landmarks[n] \in Int \X Int
                   /\ DOMAIN h.prior \subseteq HandNames
           c == a \o b
<1>1. a \in Seq(Range(a)) /\ b \in Seq(Range(b))
  BY DEF IsHands
<1>2. (\A i \in DOMAIN a : P(a[i])) /\ (\A i \in DOMAIN b : P(b[i]))
  BY DEF IsHands
<1>3. a \in Seq(S) /\ b \in Seq(S)
  <2> DEFINE A == Range(a)
             B == Range(b)
  <2>1. a \in Seq(A) /\ b \in Seq(B)
    BY <1>1
  <2> HIDE DEF A, B
  <2>2. a \in Seq(A \cup B) /\ b \in Seq(A \cup B)
    BY <2>1
  <2> QED BY <2>2 DEF A, B
<1> HIDE DEF P, S
<1>4. /\ c \in Seq(S) /\ Len(a) \in Nat /\ Len(b) \in Nat /\ Len(c) = Len(a) + Len(b)
      /\ DOMAIN a = 1 .. Len(a) /\ DOMAIN b = 1 .. Len(b) /\ DOMAIN c = 1 .. Len(c)
  BY <1>3
<1>5. \A i \in DOMAIN c : c[i] = IF i <= Len(a) THEN a[i] ELSE b[i - Len(a)]
  BY <1>3, <1>4
<1> HIDE DEF c
<1>6. \A i \in DOMAIN c : P(c[i])
  <2> SUFFICES ASSUME NEW i \in DOMAIN c PROVE P(c[i])
    OBVIOUS
  <2>1. CASE i <= Len(a)
    BY <1>2, <1>4, <1>5, <2>1
  <2>2. CASE ~(i <= Len(a))
    <3>1. i - Len(a) \in DOMAIN b /\ c[i] = b[i - Len(a)]
      BY <1>4, <1>5, <2>2
    <3> QED BY <1>2, <3>1
  <2> QED BY <2>1, <2>2
<1>7. c \in Seq(Range(c))
  <2>1. \A i \in DOMAIN c : c[i] \in Range(c)
    BY DEF Range
  <2> QED BY <1>4, <2>1
<1> QED BY <1>6, <1>7 DEF IsHands, P, c

LEMMA HandsNumbered ==
  ASSUME NEW hands, IsHands(hands)
  PROVE  HandsFound(hands)
<1> DEFINE S == Range(hands)
<1>1. hands \in Seq(S) /\ \A i \in DOMAIN hands : IsHand(hands[i])
  BY DEF IsHands
<1> HIDE DEF S
<1>2. Len(hands) \in Nat /\ DOMAIN hands = 1 .. Len(hands)
  BY <1>1
<1>3. IsFiniteSet(1 .. Len(hands))
  BY <1>2, FS_Interval
<1> QED BY <1>1, <1>2, <1>3 DEF HandsFound

LEMMA CandidatesAreHands ==
  ASSUME NEW shot, IsShot(shot), NEW arms
  PROVE  IsHands(Candidates(shot, arms))
<1> DEFINE crops == IF CropFallback THEN HandsNeedCrops(shot.hands, arms) ELSE {}
           Crop(s) == IF s \in crops THEN shot.crops[s] ELSE <<>>
<1>1. IsHands(<<>>)
  BY DEF IsHands
<1>2. IsHands(shot.hands) /\ \A s \in Sides : IsHands(shot.crops[s])
  BY DEF IsShot
<1> HIDE DEF crops
<1>3. IsHands(Crop("left")) /\ IsHands(Crop("right"))
  BY <1>1, <1>2 DEF Sides
<1>4. Candidates(shot, arms) = shot.hands \o Crop("left") \o Crop("right")
  BY DEF Candidates, crops
<1> HIDE DEF Crop
<1>5. IsHands(shot.hands \o Crop("left"))
  BY <1>2, <1>3, HandsJoined
<1> QED BY <1>3, <1>4, <1>5, HandsJoined

(***************************************************************************)
(* Whichever way the phone is propped, a landmark that is found in the     *)
(* upright copy is put back where it is in the transmitted raster, and it  *)
(* is inside the one exactly when it is inside the other                   *)
(* (_unrotate_landmark, detector.py:212, against np.rot90).                *)
(***************************************************************************)
THEOREM UprightAndBack ==
  ASSUME NEW p \in Int \X Int, NEW k \in {0, 1, 2, 3}
  PROVE  UnrotateLandmark(Rot90(p, k), k) = p /\ (Inside(Rot90(p, k), k) <=> p \in Raster)
<1>1. Width \in Int /\ Height \in Int
  BY VisionAssumption
<1> DEFINE x == p[1]
           y == p[2]
<1>2. p = <<x, y>> /\ x \in Int /\ y \in Int
  OBVIOUS
<1>3. p \in Raster <=> x \in 0 .. Width - 1 /\ y \in 0 .. Height - 1
  BY <1>2 DEF Raster
<1>4. /\ UnrotateLandmark(Rot90(p, k), k) =
            CASE k = 0 -> p
              [] k = 1 -> <<Width - 1 - (Width - 1 - x), y>>
              [] k = 2 -> <<Width - 1 - (Width - 1 - x), Height - 1 - (Height - 1 - y)>>
              [] k = 3 -> <<x, Height - 1 - (Height - 1 - y)>>
  BY <1>1 DEF UnrotateLandmark, Rot90
<1>5. UnrotateLandmark(Rot90(p, k), k) = p
  <2>1. Width - 1 - (Width - 1 - x) = x /\ Height - 1 - (Height - 1 - y) = y
    BY <1>1, <1>2
  <2> HIDE DEF x, y
  <2> QED BY <1>2, <1>4, <2>1
<1>6. Inside(Rot90(p, k), k) <=> x \in 0 .. Width - 1 /\ y \in 0 .. Height - 1
  BY <1>1, <1>2 DEF Inside, Rot90
<1> QED BY <1>3, <1>5, <1>6

\* Valid landmarks lie in the raster.
OnRaster(lms) == \A n \in DOMAIN lms : lms[n].valid => lms[n].pixel \in Raster

LEMMA RotationKnown ==
  ASSUME NEW shot, IsShot(shot)
  PROVE  UprightRotation(shot.up) \in {0, 1, 2, 3}
BY DEF IsShot, UprightRotation

LEMMA BodyOnRaster ==
  ASSUME NEW shot, IsShot(shot), NEW k \in {0, 1, 2, 3}
  PROVE  OnRaster(Unrotated(PoseToObservations(shot.pose, k), k))
<1> DEFINE lms == PoseToObservations(shot.pose, k)
           back == Unrotated(lms, k)
<1>1. DOMAIN lms = DOMAIN shot.pose /\ DOMAIN back = DOMAIN shot.pose
  BY DEF PoseToObservations, Unrotated
<1> SUFFICES ASSUME NEW n \in DOMAIN shot.pose, back[n].valid PROVE back[n].pixel \in Raster
  BY <1>1 DEF OnRaster
<1> DEFINE p == shot.pose[n].pixel
           seen == Rot90(p, k)
           ok == Inside(seen, k) /\ shot.pose[n].visibility >= MinVisibility
                 /\ shot.pose[n].presence >= MinVisibility
<1>2. p \in Int \X Int
  BY DEF IsShot
<1>3. lms[n] = [pixel |-> seen, valid |-> ok]
  BY DEF PoseToObservations
<1>4. back[n] = [lms[n] EXCEPT !.pixel = UnrotateLandmark(@, k)]
  BY <1>1 DEF Unrotated
<1>5. ok => Inside(seen, k)
  OBVIOUS
<1> HIDE DEF lms, back, seen, ok
<1>6. back[n].valid = ok /\ back[n].pixel = UnrotateLandmark(seen, k)
  BY <1>3, <1>4
<1> QED BY <1>2, <1>5, <1>6, UprightAndBack DEF seen

LEMMA HandOnRaster ==
  ASSUME NEW hand, \A n \in DOMAIN hand.landmarks : hand.landmarks[n] \in Int \X Int,
         NEW k \in {0, 1, 2, 3}
  PROVE  OnRaster(Unrotated(HandToCandidate(hand, k), k))
<1> DEFINE lms == HandToCandidate(hand, k)
           back == Unrotated(lms, k)
<1>1. DOMAIN lms = DOMAIN hand.landmarks /\ DOMAIN back = DOMAIN hand.landmarks
  BY DEF HandToCandidate, Unrotated
<1> SUFFICES ASSUME NEW n \in DOMAIN hand.landmarks, back[n].valid PROVE back[n].pixel \in Raster
  BY <1>1 DEF OnRaster
<1> DEFINE p == hand.landmarks[n]
           seen == Rot90(p, k)
<1>2. p \in Int \X Int
  OBVIOUS
<1>3. lms[n] = [pixel |-> seen, valid |-> Inside(seen, k)]
  BY DEF HandToCandidate
<1>4. back[n] = [lms[n] EXCEPT !.pixel = UnrotateLandmark(@, k)]
  BY <1>1 DEF Unrotated
<1> HIDE DEF lms, back, seen
<1>5. back[n].valid = lms[n].valid /\ back[n].pixel = UnrotateLandmark(seen, k) /\ (lms[n].valid => Inside(seen, k))
  BY <1>3, <1>4
<1> QED BY <1>2, <1>5, UprightAndBack DEF seen

LEMMA DetectionOnRaster ==
  ASSUME NEW shot, IsShot(shot)
  PROVE  /\ OnRaster(DetectView(shot).body)
         /\ \A s \in Sides : OnRaster(DetectView(shot).hands[s])
         /\ DOMAIN DetectView(shot).body \subseteq PoseNames
         /\ DetectView(shot).prior \in {<<>>, shot.prior}
         /\ \A s \in DOMAIN DetectView(shot).handPriors : DOMAIN DetectView(shot).handPriors[s] \subseteq HandNames
<1> DEFINE k == UprightRotation(shot.up)
           found == DetectUpright(shot, k)
           view == DetectView(shot)
<1>1. k \in {0, 1, 2, 3}
  BY RotationKnown
<1> HIDE DEF k
<1>2. view = [found EXCEPT !.body = Unrotated(@, k), !.hands = [s \in Sides |-> Unrotated(@[s], k)]]
  BY DEF DetectView, k
<1>3. CASE shot.pose = <<>>
  <2>1. found = [body |-> <<>>, hands |-> [s \in Sides |-> <<>>], prior |-> <<>>, handPriors |-> <<>>]
    BY <1>3 DEF DetectUpright, NoDetection
  <2> HIDE DEF found
  <2>2. /\ view.body = Unrotated(<<>>, k) /\ view.prior = <<>> /\ view.handPriors = <<>>
        /\ \A s \in Sides : view.hands[s] = Unrotated(<<>>, k)
    BY <1>2, <2>1
  <2>3. DOMAIN Unrotated(<<>>, k) = {}
    BY DEF Unrotated
  <2> HIDE DEF view
  <2> QED BY <2>2, <2>3 DEF OnRaster, view
<1>4. CASE shot.pose # <<>>
  <2> DEFINE body == PoseToObservations(shot.pose, k)
             cands == Candidates(shot, BodyArms(body))
             hand == AssociateHands(cands, BodyArms(body))
             withPrior == {s \in DOMAIN hand : cands[hand[s]].prior # <<>>}
             hands == [s \in Sides |-> IF s \in DOMAIN hand THEN HandToCandidate(cands[hand[s]], k) ELSE <<>>]
             priors == [s \in withPrior |-> cands[hand[s]].prior]
  <2>1. found = [body |-> body, hands |-> hands, prior |-> shot.prior, handPriors |-> priors]
    BY <1>4 DEF DetectUpright, BuildViewDetection, WithHands
  <2>2. OnRaster(Unrotated(body, k)) /\ DOMAIN Unrotated(body, k) = DOMAIN shot.pose
    BY <1>1, BodyOnRaster DEF Unrotated, PoseToObservations
  <2>3. IsHands(cands) /\ HandsFound(cands)
    BY CandidatesAreHands, HandsNumbered
  <2>4. ASSUME NEW s \in Sides PROVE OnRaster(Unrotated(hands[s], k))
    <3>1. CASE s \in DOMAIN hand
      <4>1. hand[s] \in DOMAIN cands
        BY <2>3, <3>1, AssociatesCandidates
      <4>2. \A n \in DOMAIN cands[hand[s]].landmarks : cands[hand[s]].landmarks[n] \in Int \X Int
        BY <2>3, <4>1 DEF IsHands
      <4>3. hands[s] = HandToCandidate(cands[hand[s]], k)
        BY <3>1
      <4> HIDE DEF hands, hand, cands
      <4> QED BY <1>1, <4>2, <4>3, HandOnRaster
    <3>2. CASE s \notin DOMAIN hand
      <4>1. hands[s] = <<>>
        BY <3>2
      <4> HIDE DEF hands
      <4> QED BY <4>1 DEF Unrotated, OnRaster
    <3> QED BY <3>1, <3>2
  <2>7. ASSUME NEW s \in DOMAIN priors PROVE DOMAIN priors[s] \subseteq HandNames
    <3>1. s \in DOMAIN hand /\ priors[s] = cands[hand[s]].prior
      OBVIOUS
    <3> HIDE DEF priors, withPrior
    <3>2. hand[s] \in DOMAIN cands
      BY <2>3, <3>1, AssociatesCandidates
    <3>3. DOMAIN cands[hand[s]].prior \subseteq HandNames
      BY <2>3, <3>2 DEF IsHands
    <3> HIDE DEF hand, cands
    <3> QED BY <3>1, <3>3
  <2> HIDE DEF found, body, hands, priors
  <2>5. /\ view.body = Unrotated(body, k) /\ view.prior = shot.prior /\ view.handPriors = priors
        /\ \A s \in Sides : view.hands[s] = Unrotated(hands[s], k)
    BY <1>2, <2>1
  <2>6. DOMAIN shot.pose \subseteq PoseNames
    BY DEF IsShot
  <2> HIDE DEF view
  <2> QED BY <2>2, <2>4, <2>5, <2>6, <2>7 DEF view
<1> QED BY <1>3, <1>4

-----------------------------------------------------------------------------
(* The inductive invariant of Vision. *)

\* What is detected is detected in what was seen.
Captured ==
    /\ DOMAIN shots \subseteq Range(Sources) /\ DOMAIN detections = DOMAIN shots
    /\ \A d \in DOMAIN shots : shots[d] \in Shots[d] /\ detections[d] = DetectView(shots[d])

\* The views that are fused are those of the capture.
Paired(warp) == views = <<ViewInput(Sources[1], 0), ViewInput(Sources[2], warp)>>

Assembled ==
    views # <<>> => DOMAIN shots = Range(Sources) /\ \E warp \in Shifts \cup {0} : Paired(warp)

Fused == fusion = NoFusion \/ (views # <<>> /\ fusion = FuseLandmarks(views))

VisionInv == Captured /\ Assembled /\ Fused

LEMMA InitVisionInv == VisionInit => VisionInv
BY DEF VisionInit, VisionInv, Captured, Assembled, Fused

LEMMA DetectKeeps ==
  ASSUME VisionInv, NEW i \in DOMAIN Sources, NEW shot \in Shots[Sources[i]], Detect(Sources[i], shot)
  PROVE  VisionInv'
<1> DEFINE d == Sources[i]
<1>1. d \in Range(Sources)
  BY DEF Range
<1>2. /\ d \notin DOMAIN shots /\ shots' = Over(shots, [e \in {d} |-> shot])
      /\ detections' = Over(detections, [e \in {d} |-> DetectView(shot)]) /\ views' = views /\ fusion' = fusion
  BY DEF Detect
<1> HIDE DEF d
<1>3. /\ DOMAIN shots' = DOMAIN shots \cup {d} /\ shots'[d] = shot
      /\ \A e \in DOMAIN shots : shots'[e] = shots[e]
  BY <1>2 DEF Over
<1>4. DOMAIN detections = DOMAIN shots
  BY DEF VisionInv, Captured
<1>5. /\ DOMAIN detections' = DOMAIN detections \cup {d} /\ detections'[d] = DetectView(shot)
      /\ \A e \in DOMAIN detections : detections'[e] = detections[e]
  BY <1>2, <1>4 DEF Over
<1>6. shot \in Shots[d]
  BY DEF d
<1>7. Captured'
  <2>1. DOMAIN shots' \subseteq Range(Sources) /\ DOMAIN detections' = DOMAIN shots'
    BY <1>1, <1>3, <1>4, <1>5 DEF VisionInv, Captured
  <2>2. ASSUME NEW e \in DOMAIN shots' PROVE shots'[e] \in Shots[e] /\ detections'[e] = DetectView(shots'[e])
    <3>1. CASE e = d
      BY <1>3, <1>5, <1>6, <3>1
    <3>2. CASE e # d
      <4>1. e \in DOMAIN shots /\ shots[e] \in Shots[e] /\ detections[e] = DetectView(shots[e])
        BY <1>3, <2>2, <3>2 DEF VisionInv, Captured
      <4> QED BY <1>3, <1>4, <1>5, <4>1
    <3> QED BY <3>1, <3>2
  <2>3. Captured' <=> /\ DOMAIN shots' \subseteq Range(Sources) /\ DOMAIN detections' = DOMAIN shots'
                      /\ \A e \in DOMAIN shots' : shots'[e] \in Shots[e] /\ detections'[e] = DetectView(shots'[e])
    BY DEF Captured
  <2> QED BY <2>1, <2>2, <2>3
<1>8. views = <<>>
  BY <1>1, <1>2 DEF VisionInv, Assembled
<1>9. Assembled'
  BY <1>2, <1>8 DEF Assembled
<1>10. fusion = NoFusion
  BY <1>8 DEF VisionInv, Fused
<1>11. Fused'
  BY <1>2, <1>10 DEF Fused, NoFusion
<1> QED BY <1>7, <1>9, <1>11 DEF VisionInv

LEMMA ViewsKept ==
  ASSUME shots' = shots, detections' = detections, views' = views, NEW warp
  PROVE  Paired(warp)' <=> Paired(warp)
BY DEF Paired, ViewInput

LEMMA StepVisionInv == VisionInv /\ [VisionNext]_visionVars => VisionInv'
<1> SUFFICES ASSUME VisionInv, [VisionNext]_visionVars PROVE VisionInv'
  OBVIOUS
<1>1. ASSUME NEW i \in DOMAIN Sources, NEW shot \in Shots[Sources[i]], Detect(Sources[i], shot)
      PROVE  VisionInv'
  BY <1>1, DetectKeeps
<1>2. ASSUME NEW warp \in Shifts \cup {0}, FusionViews(warp) PROVE VisionInv'
  <2>1. /\ shots' = shots /\ detections' = detections /\ fusion' = fusion /\ views = <<>>
        /\ DOMAIN detections = Range(Sources)
        /\ views' = <<ViewInput(Sources[1], 0), ViewInput(Sources[2], warp)>>
    BY <1>2 DEF FusionViews
  <2>2. Captured' /\ DOMAIN shots = Range(Sources)
    BY <2>1 DEF VisionInv, Captured
  <2>3. Paired(warp)'
    BY <2>1 DEF Paired, ViewInput
  <2>4. Assembled'
    BY <2>1, <2>2, <2>3 DEF Assembled
  <2>5. Fused'
    BY <2>1 DEF VisionInv, Fused, NoFusion
  <2> QED BY <2>2, <2>4, <2>5 DEF VisionInv
<1>3. CASE Fuse
  <2>1. /\ shots' = shots /\ detections' = detections /\ views' = views /\ views # <<>>
        /\ fusion' = FuseLandmarks(views)
    BY <1>3 DEF Fuse
  <2>2. Captured'
    BY <2>1 DEF VisionInv, Captured
  <2>3. Assembled'
    BY <2>1, ViewsKept DEF VisionInv, Assembled
  <2>4. FuseLandmarks(views') = FuseLandmarks(views)
    BY <2>1
  <2>5. Fused'
    BY <2>1, <2>4 DEF Fused
  <2> QED BY <2>2, <2>3, <2>5 DEF VisionInv
<1>4. CASE NextCapture
  <2>1. shots' = <<>> /\ detections' = <<>> /\ views' = <<>> /\ fusion' = NoFusion
    BY <1>4 DEF NextCapture
  <2> QED BY <2>1 DEF VisionInv, Captured, Assembled, Fused
<1>5. CASE UNCHANGED visionVars
  <2>1. shots' = shots /\ detections' = detections /\ views' = views /\ fusion' = fusion
    BY <1>5 DEF visionVars
  <2>2. Captured'
    BY <2>1 DEF VisionInv, Captured
  <2>3. Assembled'
    BY <2>1, ViewsKept DEF VisionInv, Assembled
  <2>4. Fused'
    BY <2>1 DEF VisionInv, Fused, NoFusion
  <2> QED BY <2>2, <2>3, <2>4 DEF VisionInv
<1> QED BY <1>1, <1>2, <1>3, <1>4, <1>5 DEF VisionNext

LEMMA Seen == VisionSpec => []VisionInv
BY InitVisionInv, StepVisionInv, PTL DEF VisionSpec

LEMMA ShotSeen ==
  ASSUME VisionInv, NEW d \in DOMAIN shots
  PROVE  IsShot(shots[d])
<1>1. d \in Range(Sources) /\ shots[d] \in Shots[d]
  BY DEF VisionInv, Captured
<1> QED BY <1>1, VisionAssumption

(***************************************************************************)
(* No candidate is taken for both hands, and none that is left over scores *)
(* within the margin of the one that was taken (associate_hands,           *)
(* hand_association.py:221).                                               *)
(***************************************************************************)
THEOREM HandsUnambiguousAlways == VisionSpec => []HandsUnambiguous
<1>1. VisionInv => HandsUnambiguous
  <2> SUFFICES ASSUME VisionInv, NEW d \in DOMAIN detections
               PROVE  LET arms == BodyArms(detections[d].body)
                          cands == Candidates(shots[d], arms)
                      IN  HandsClear(cands, arms, AssociateHands(cands, arms))
    BY DEF HandsUnambiguous, HandsClear
  <2> DEFINE arms == BodyArms(detections[d].body)
             cands == Candidates(shots[d], arms)
  <2>1. IsShot(shots[d])
    BY ShotSeen DEF VisionInv, Captured
  <2>2. HandsFound(cands)
    BY <2>1, CandidatesAreHands, HandsNumbered
  <2> HIDE DEF cands, arms
  <2>3. HandsClear(cands, arms, AssociateHands(cands, arms))
    BY <2>2, AssociationClear
  <2> QED BY <2>3 DEF cands, arms
<1> QED BY <1>1, Seen, PTL

-----------------------------------------------------------------------------
(* Depth (DepthSampling). *)

LEMMA NearFinite ==
  ASSUME NEW window, IsWindow(window), NEW S, S \subseteq DOMAIN window
  PROVE  /\ IsFiniteSet(S) /\ IsFiniteSet(Heavy(window, S))
         /\ DOMAIN Depths(window, S) = S /\ \A i \in S : Depths(window, S)[i] = window[i].z
         /\ \A i \in S : window[i].z \in Int
         /\ S # {} => Numbers(Depths(window, S))
<1>1. IsFiniteSet(S) /\ \A i \in S : window[i].z \in Int
  BY FS_Subset DEF IsWindow
<1>2. IsFiniteSet(S \X (1 .. 60))
  <2>1. IsFiniteSet(1 .. 60)
    <3> DEFINE most == 60
    <3>1. most \in Int
      OBVIOUS
    <3> HIDE DEF most
    <3>2. IsFiniteSet(1 .. most)
      BY <3>1, FS_Interval
    <3> QED BY <3>2 DEF most
  <2> QED BY <1>1, <2>1, FS_Product
<1>3. IsFiniteSet(Heavy(window, S))
  BY <1>2, FS_Subset DEF Heavy
<1>4. DOMAIN Depths(window, S) = S /\ \A i \in S : Depths(window, S)[i] = window[i].z
  BY DEF Depths
<1>5. S # {} => Numbers(Depths(window, S))
  BY <1>1, <1>4 DEF Numbers
<1> QED BY <1>1, <1>3, <1>4, <1>5

\* The least of finitely many numbers.
LEMMA LeastIs ==
  ASSUME NEW T, IsFiniteSet(T), T # {}, T \subseteq Int
  PROVE  (CHOOSE z \in T : \A y \in T : z <= y) \in T
<1> DEFINE M == {0 - x : x \in T}
           f == [x \in T |-> 0 - x]
<1>1. f \in Surjection(T, M)
  BY DEF Surjection
<1>2. IsFiniteSet(M)
  BY <1>1, FS_Surjection
<1>3. M # {} /\ M \subseteq Int /\ \A x \in T : 0 - x \in M
  <2>1. M # {} /\ \A x \in T : 0 - x \in M
    OBVIOUS
  <2>2. ASSUME NEW y \in M PROVE y \in Int
    <3>1. PICK x \in T : y = 0 - x
      BY <2>2
    <3> QED BY <3>1
  <2> QED BY <2>1, <2>2
<1>4. \A y \in M : \E x \in T : y = 0 - x
  OBVIOUS
<1> DEFINE top == Max(M)
<1> HIDE DEF M
<1>5. top \in M /\ \A y \in M : y <= top
  BY <1>2, <1>3, GreatestIs
<1> HIDE DEF top
<1>6. PICK x \in T : top = 0 - x
  BY <1>4, <1>5
<1>7. \A y \in T : x <= y
  <2> SUFFICES ASSUME NEW y \in T PROVE x <= y
    OBVIOUS
  <2>1. 0 - y <= 0 - x
    BY <1>3, <1>5, <1>6
  <2> QED BY <2>1
<1> QED BY <1>7

\* The weighted median is one of the depths.
LEMMA MedianIsDepth ==
  ASSUME NEW window, IsWindow(window), NEW S, S \subseteq DOMAIN window, S # {}
  PROVE  \E i \in S : WeightedMedian(window, S) = window[i].z
<1> DEFINE H == Heavy(window, S)
           f == Depths(window, S)
           half == {z \in Range(f) : 2 * Cardinality({p \in H : window[p[1]].z <= z}) >= Cardinality(H)}
<1>1. /\ IsFiniteSet(S) /\ IsFiniteSet(H) /\ DOMAIN f = S /\ \A i \in S : f[i] = window[i].z
      /\ Numbers(f) /\ \A i \in S : window[i].z \in Int
  BY NearFinite
<1>2. Range(f) \subseteq Int /\ Range(f) # {}
  BY <1>1 DEF Range, Numbers
<1>3. IsFiniteSet(Range(f))
  <2>1. f = [i \in S |-> f[i]]
    BY DEF Depths
  <2>2. Range(f) = {f[i] : i \in S}
    BY <1>1 DEF Range
  <2> HIDE DEF f
  <2>3. \A y \in Range(f) : \E i \in S : f[i] = y
    BY <2>2
  <2>4. f \in Surjection(S, Range(f))
    BY <2>1, <2>2, <2>3, Zenon DEF Surjection
  <2> QED BY <1>1, <2>4, FS_Surjection
<1> DEFINE top == Max(Range(f))
<1>4. top \in Range(f) /\ \A y \in Range(f) : y <= top
  BY <1>2, <1>3, GreatestIs
<1>5. {p \in H : window[p[1]].z <= top} = H
  <2>1. \A p \in H : p[1] \in S
    BY DEF Heavy
  <2>2. \A i \in S : window[i].z \in Range(f)
    BY <1>1 DEF Range
  <2> HIDE DEF H, top, f
  <2> QED BY <1>4, <2>1, <2>2
<1>6. Cardinality(H) \in Nat
  BY <1>1, FS_CardinalityType
<1>7. top \in half
  <2> DEFINE n == Cardinality({p \in H : window[p[1]].z <= top})
  <2>0. n = Cardinality(H)
    BY <1>5
  <2> HIDE DEF n
  <2>1. 2 * n >= Cardinality(H)
    BY <1>6, <2>0
  <2>2. top \in half <=> (top \in Range(f) /\ 2 * n >= Cardinality(H))
    BY DEF n
  <2> HIDE DEF H, top, f, half
  <2> QED BY <1>4, <2>1, <2>2
<1>8. WeightedMedian(window, S) = CHOOSE z \in half : \A y \in half : z <= y
  BY DEF WeightedMedian
<1>9. half \subseteq Range(f)
  OBVIOUS
<1>10. \A z \in Range(f) : \E i \in S : z = window[i].z
  BY <1>1 DEF Range
<1> HIDE DEF half, f
<1>11. IsFiniteSet(half) /\ half # {} /\ half \subseteq Int
  BY <1>2, <1>3, <1>7, <1>9, FS_Subset
<1>12. WeightedMedian(window, S) \in half
  BY <1>8, <1>11, LeastIs
<1> QED BY <1>9, <1>10, <1>12

\* Two gaps to one place add up.
LEMMA GapsAdd ==
  ASSUME NEW a \in Int, NEW b \in Int, NEW c \in Int, NEW d \in Int, NEW e \in Int,
         Gap(a, b) <= d, Gap(c, b) <= e
  PROVE  Gap(a, c) <= d + e /\ Gap(a, c) \in Nat
BY DEF Gap

\* The samples of a window that lie on the surface at a depth.
OnSurface(window, z) == {j \in DOMAIN window : Usable(window[j]) /\ Gap(window[j].z, z) <= 2 * Discontinuity}

Sound(window, sample) ==
    /\ sample.z \in Int /\ sample.support \in Nat /\ sample.spread \in Int
    /\ Cardinality(OnSurface(window, sample.z)) >= MinSupport

LEMMA DepthOnSurface ==
  ASSUME NEW window, IsWindow(window), RobustDepthAt(window) # NoSample
  PROVE  Sound(window, RobustDepthAt(window))
<1> DEFINE Same(q) == SameSurface(window, InWindow(window, q))
           radii == {q \in Radius .. MaxRadius :
                        /\ Cardinality(InWindow(window, q)) >= MinSupport
                        /\ Cardinality(Same(q)) >= MinSupport}
           r == CHOOSE q \in radii : \A p \in radii : q <= p
           W == InWindow(window, r)
           K == Same(r)
           depth == WeightedMedian(window, K)
           gaps == [i \in K |-> Gap(window[i].z, depth)]
           m == Median(Depths(window, W))
           sample == RobustDepthAt(window)
<1>1. /\ radii # {}
      /\ sample = [z |-> depth, support |-> Cardinality(K), spread |-> Median(gaps)]
  BY DEF RobustDepthAt, DepthOf
<1>2. Radius \in Nat /\ MaxRadius \in Nat /\ MinSupport \in Nat /\ MinSupport # 0 /\ Discontinuity \in Nat
  BY SamplingAssumption
<1>3. r \in radii
  <2>1. IsFiniteSet(Radius .. MaxRadius) /\ radii \subseteq Radius .. MaxRadius /\ radii \subseteq Int
    BY <1>2, FS_Interval
  <2> HIDE DEF radii
  <2>2. IsFiniteSet(radii)
    BY <2>1, FS_Subset
  <2> QED BY <1>1, <2>1, <2>2, LeastIs
<1>4. Cardinality(K) >= MinSupport
  BY <1>3
<1>5. K = {i \in W : Gap(window[i].z, m) <= Discontinuity}
  BY DEF SameSurface
<1>6. W = {i \in DOMAIN window : window[i].ring <= r /\ Usable(window[i])}
  BY DEF InWindow
<1> HIDE DEF r, W, K
<1>7. K \subseteq W /\ W \subseteq DOMAIN window
  BY <1>5, <1>6
<1>8. IsFiniteSet(K) /\ Cardinality(K) \in Nat /\ K # {}
  <2>1. IsFiniteSet(K)
    BY <1>7, NearFinite
  <2>2. Cardinality(K) \in Nat
    BY <2>1, FS_CardinalityType
  <2>3. K # {}
    BY <1>2, <1>4, <2>2, FS_EmptySet
  <2> QED BY <2>1, <2>2, <2>3
<1>9. m \in Int
  BY <1>7, <1>8, NearFinite, MedianBetween
<1>10. \A i \in W : window[i].z \in Int
  BY <1>7, NearFinite
<1>11. PICK k \in K : depth = window[k].z
  BY <1>7, <1>8, MedianIsDepth
<1> HIDE DEF depth, m
<1>12. depth \in Int /\ Gap(depth, m) <= Discontinuity
  BY <1>5, <1>7, <1>10, <1>11
<1>13. ASSUME NEW i \in K
       PROVE  /\ i \in OnSurface(window, depth) /\ gaps[i] \in Int
  <2>1. i \in W /\ window[i].z \in Int /\ Gap(window[i].z, m) <= Discontinuity
    BY <1>5, <1>10
  <2>2. Gap(window[i].z, depth) <= Discontinuity + Discontinuity /\ Gap(window[i].z, depth) \in Nat
    BY <1>2, <1>9, <1>12, <2>1, GapsAdd
  <2>3. i \in DOMAIN window /\ Usable(window[i])
    BY <1>6, <2>1
  <2>4. Gap(window[i].z, depth) <= 2 * Discontinuity
    BY <1>2, <2>2
  <2> QED BY <2>2, <2>3, <2>4 DEF OnSurface
<1>14. Cardinality(OnSurface(window, depth)) >= MinSupport
  <2> DEFINE O == OnSurface(window, depth)
  <2>1. IsFiniteSet(O) /\ Cardinality(O) \in Nat
    BY FS_Subset, FS_CardinalityType DEF IsWindow, OnSurface
  <2>2. K \subseteq O
    BY <1>13
  <2> HIDE DEF O
  <2>3. Cardinality(K) <= Cardinality(O)
    BY <2>1, <2>2, FS_Subset
  <2> QED BY <1>2, <1>4, <1>8, <2>1, <2>3 DEF O
<1>15. Median(gaps) \in Int
  <2>1. Numbers(gaps)
    BY <1>8, <1>13 DEF Numbers
  <2> HIDE DEF gaps
  <2> QED BY <2>1, MedianBetween
<1> DEFINE spread == Median(gaps)
<1> HIDE DEF spread, gaps
<1>16. sample.z = depth /\ sample.support = Cardinality(K) /\ sample.spread = spread
  BY <1>1 DEF spread, gaps
<1> HIDE DEF sample
<1>17. spread \in Int
  BY <1>15 DEF spread
<1> QED BY <1>8, <1>12, <1>14, <1>16, <1>17 DEF Sound, sample

LEMMA QualityTyped ==
  ASSUME NEW sample, sample.support \in Nat, sample.spread \in Int
  PROVE  Quality(sample) \in Int
<1>1. FullSupport \in Nat \ {0} /\ FullSpread \in Nat \ {0}
  BY SamplingAssumption
<1>2. (50 * sample.support) \div FullSupport \in Int
  BY <1>1
<1>3. (50 * sample.spread) \div FullSpread \in Int
  BY <1>1
<1> DEFINE a == (50 * sample.support) \div FullSupport
           b == (50 * sample.spread) \div FullSpread
<1>4. Quality(sample) = (IF sample.support >= FullSupport THEN 50 ELSE a)
                        + (IF sample.spread >= FullSpread THEN 0 ELSE 50 - b)
  BY DEF Quality
<1> HIDE DEF a, b
<1> QED BY <1>2, <1>3, <1>4 DEF a, b

-----------------------------------------------------------------------------
(* Fusion (LandmarkFusion). *)

\* What is known of the depth samples of a view that is fused.
Sampled(view, n) ==
    LET s == view.samples[n]
        window == view.depth[view.seen[n].pixel]
    IN  /\ s.at = view.origin + view.direction * s.z + view.warp
        /\ s.z \in Int /\ s.quality \in Int /\ s.support \in Nat
        /\ Cardinality(OnSurface(window, s.z)) >= MinSupport

IsView(view) ==
    /\ view.origin \in Int /\ view.direction \in {1, -1} /\ view.warp \in Int
    /\ OnRaster(view.seen)
    /\ \A n \in DOMAIN view.samples : n \in DOMAIN view.seen /\ Sampled(view, n)
    /\ view.prior # <<>> => DOMAIN view.prior = PoseNames
    /\ \A s \in DOMAIN view.handPriors : DOMAIN view.handPriors[s] \subseteq HandNames

LEMMA NamedOnRaster ==
  ASSUME NEW side, NEW hand, OnRaster(hand)
  PROVE  OnRaster(Named(side, hand))
<1> DEFINE names == {HandName(side, s) : s \in DOMAIN hand}
           pick == [n \in names |-> CHOOSE s \in DOMAIN hand : HandName(side, s) = n]
<1>1. \A n \in names : pick[n] \in DOMAIN hand
  OBVIOUS
<1>2. DOMAIN Named(side, hand) = names /\ \A n \in names : Named(side, hand)[n] = hand[pick[n]]
  BY DEF Named
<1> HIDE DEF pick, names
<1> QED BY <1>1, <1>2 DEF OnRaster

LEMMA OverOnRaster ==
  ASSUME NEW f, OnRaster(f), NEW g, OnRaster(g)
  PROVE  OnRaster(Over(f, g))
BY DEF OnRaster, Over

\* A view of the capture is one whose samples are sound.
LEMMA ViewSound ==
  ASSUME VisionInv, NEW d \in Range(Sources), d \in DOMAIN shots, NEW warp \in Int
  PROVE  IsView(ViewInput(d, warp))
<1> DEFINE shot == shots[d]
           found == detections[d]
           base == [forced |-> warp # 0, warp |-> warp,
                    origin |-> Origin[d], direction |-> Direction[d], depth |-> shot.depth,
                    body |-> found.body, hands |-> found.hands,
                    prior |-> found.prior, handPriors |-> found.handPriors,
                    seen |-> <<>>, samples |-> <<>>]
           seen == Canonical2D(base)
           samples == DepthObservations(base)
           view == ViewInput(d, warp)
<1>1. IsShot(shot)
  BY ShotSeen
<1>2. found = DetectView(shot)
  BY DEF VisionInv, Captured
<1>3. /\ OnRaster(found.body) /\ \A s \in Sides : OnRaster(found.hands[s])
      /\ found.prior \in {<<>>, shot.prior}
      /\ \A s \in DOMAIN found.handPriors : DOMAIN found.handPriors[s] \subseteq HandNames
  BY <1>1, <1>2, DetectionOnRaster
<1>4. Origin[d] \in Int /\ Direction[d] \in {1, -1}
  BY VisionAssumption
<1>5. view = [base EXCEPT !.seen = seen, !.samples = samples]
  BY DEF ViewInput, WithObservations
<1>6. /\ base.warp = warp /\ base.origin = Origin[d] /\ base.direction = Direction[d]
      /\ base.depth = shot.depth /\ base.body = found.body /\ base.hands = found.hands
  OBVIOUS
<1>7. /\ view.warp = warp /\ view.origin = Origin[d] /\ view.direction = Direction[d]
      /\ view.depth = shot.depth /\ view.seen = seen /\ view.samples = samples
      /\ view.prior = found.prior /\ view.handPriors = found.handPriors
  <2> HIDE DEF seen, samples, found, shot
  <2> QED BY <1>5
<1>8. OnRaster(seen)
  <2>1. OnRaster(Named("left", found.hands["left"])) /\ OnRaster(Named("right", found.hands["right"]))
    BY <1>3, NamedOnRaster DEF Sides
  <2>2. seen = Over(found.body, Over(Named("left", found.hands["left"]), Named("right", found.hands["right"])))
    BY <1>6 DEF Canonical2D
  <2> HIDE DEF seen, found
  <2> QED BY <1>3, <2>1, <2>2, OverOnRaster
<1> DEFINE spots == {m \in DOMAIN seen : seen[m].valid}
           robust == [n \in spots |-> RobustDepthAt(base.depth[seen[n].pixel])]
           backed == {n \in DOMAIN robust : robust[n] # NoSample /\ robust[n].z <= MaxRange}
           onStage == ObserveLandmarks(base, seen)
<1>9. onStage = [n \in backed |-> [at |-> base.origin + base.direction * robust[n].z, z |-> robust[n].z,
                               support |-> robust[n].support, quality |-> Quality(robust[n])]]
  BY DEF ObserveLandmarks, OnStage
<1>10. samples = [n \in DOMAIN onStage |-> [onStage[n] EXCEPT !.at = @ + base.warp]]
  BY DEF DepthObservations
<1>11. \A n \in backed : n \in spots /\ robust[n] = RobustDepthAt(shot.depth[seen[n].pixel]) /\ robust[n] # NoSample
  BY <1>6
<1> HIDE DEF base, seen, samples, found, shot, view, onStage, robust, backed
<1>12. ASSUME NEW n \in DOMAIN samples PROVE n \in DOMAIN seen /\ Sampled(view, n)
  <2> DEFINE rob == robust[n]
             window == shot.depth[seen[n].pixel]
  <2>1. n \in backed /\ n \in DOMAIN onStage
    BY <1>9, <1>10
  <2>2. n \in DOMAIN seen /\ seen[n].valid /\ rob = RobustDepthAt(window) /\ rob # NoSample
    BY <1>11, <2>1
  <2>3. IsWindow(window)
    BY <1>1, <1>8, <2>2 DEF IsShot, OnRaster
  <2>4. Sound(window, rob)
    BY <2>2, <2>3, DepthOnSurface
  <2> DEFINE quality == Quality(rob)
             place == Origin[d] + Direction[d] * rob.z
  <2>5. quality \in Int
    BY <2>4, QualityTyped DEF Sound
  <2>6. onStage[n] = [at |-> place, z |-> rob.z, support |-> rob.support, quality |-> quality]
    BY <1>6, <1>9, <2>1
  <2>7. samples[n] = [onStage[n] EXCEPT !.at = @ + warp]
    BY <1>6, <1>10, <2>1
  <2> HIDE DEF place, quality, rob
  <2>8. samples[n] = [at |-> place + warp, z |-> rob.z, support |-> rob.support, quality |-> quality]
    BY <2>6, <2>7
  <2> HIDE DEF window
  <2>9. /\ view.samples[n] = samples[n] /\ view.depth[view.seen[n].pixel] = window
        /\ view.origin = Origin[d] /\ view.direction = Direction[d] /\ view.warp = warp
    BY <1>7 DEF window
  <2>10. Sampled(view, n)
    BY <2>4, <2>5, <2>8, <2>9 DEF Sampled, Sound, place
  <2> QED BY <2>2, <2>10
<1>13. view.prior # <<>> => DOMAIN view.prior = PoseNames
  BY <1>1, <1>3, <1>7 DEF IsShot
<1>14. IsView(view)
  BY <1>3, <1>4, <1>7, <1>8, <1>12, <1>13 DEF IsView
<1> QED BY <1>14 DEF view

(***************************************************************************)
(* What is fused from the landmarks of the views.                          *)
(***************************************************************************)
Pair(vs) == DOMAIN vs = {1, 2} /\ IsView(vs[1]) /\ IsView(vs[2])

\* What depth placed was observed.
FromObserved(vs, lms) ==
    \A n \in DOMAIN lms : lms[n].source = "depth_neighborhood" => lms[n] = FuseObserved(vs, n)

LEMMA PriorKeeps ==
  ASSUME NEW vs, NEW lms, FromObserved(vs, lms), NEW stage, NEW gate
  PROVE  FromObserved(vs, WithPrior(lms, stage, gate))
<1> DEFINE out == WithPrior(lms, stage, gate)
           placed(n) == [at |-> stage[n], source |-> "registered_model_prior", by |-> {}]
<1> SUFFICES ASSUME NEW n \in DOMAIN out, out[n].source = "depth_neighborhood"
             PROVE  out[n] = FuseObserved(vs, n)
  BY DEF FromObserved
<1>1. out[n] = placed(n) \/ (n \in DOMAIN lms /\ out[n] = lms[n])
  BY DEF WithPrior
<1>2. placed(n).source = "registered_model_prior"
  OBVIOUS
<1> HIDE DEF out, placed
<1> QED BY <1>1, <1>2 DEF FromObserved

LEMMA HandKeeps ==
  ASSUME NEW vs, NEW observed, NEW lms, FromObserved(vs, lms), NEW side
  PROVE  FromObserved(vs, WithHand(vs, observed, lms, side))
BY PriorKeeps DEF WithHand

LEMMA ObservedIsFused ==
  ASSUME NEW vs
  PROVE  FromObserved(vs, ObservedLandmarks(vs))
BY DEF ObservedLandmarks, FromObserved

LEMMA PoseKeeps ==
  ASSUME NEW vs, NEW lms, FromObserved(vs, lms)
  PROVE  FromObserved(vs, WithPose(vs, lms))
BY PriorKeeps DEF WithPose

LEMMA DeriveSource ==
  ASSUME NEW lms, NEW n \in DOMAIN Derive(lms)
  PROVE  Derive(lms)[n].source = "derived"
BY DEF Derive, Middle, HeadCenter

LEMMA FusionIsObserved ==
  ASSUME NEW vs
  PROVE  FromObserved(vs, FuseLandmarks(vs).landmarks)
<1> DEFINE observed == ObservedLandmarks(vs)
           left == WithHand(vs, observed, WithPose(vs, observed), "left")
           filled == WithHand(vs, observed, left, "right")
           out == FuseLandmarks(vs)
<1>1. FromObserved(vs, filled)
  BY ObservedIsFused, PoseKeeps, HandKeeps
<1>2. out = IF LookupFails(filled) THEN [status |-> "KeyError", landmarks |-> <<>>]
            ELSE [status |-> "fused", landmarks |-> Over(Derive(filled), filled)]
  BY DEF FuseLandmarks, Completed
<1> HIDE DEF filled, out
<1>3. CASE LookupFails(filled)
  <2>1. out.landmarks = <<>>
    BY <1>2, <1>3
  <2> QED BY <2>1 DEF FromObserved, out
<1>4. CASE ~ LookupFails(filled)
  <2> DEFINE lms == Over(Derive(filled), filled)
  <2>1. out.landmarks = lms
    BY <1>2, <1>4
  <2>2. \A n \in DOMAIN lms : \/ n \in DOMAIN Derive(filled) /\ lms[n] = Derive(filled)[n]
                              \/ n \in DOMAIN filled /\ lms[n] = filled[n]
    BY DEF Over
  <2> HIDE DEF lms
  <2>3. FromObserved(vs, lms)
    BY <1>1, <2>2, DeriveSource DEF FromObserved
  <2> QED BY <2>1, <2>3 DEF out
<1> QED BY <1>3, <1>4

\* Of at most two numbered samples one is foremost.
LEMMA Foremost ==
  ASSUME NEW here, here \subseteq {1, 2}, here # {}, NEW Q, \A i \in here : Q[i] \in Int
  PROVE  \E i \in here : \A j \in here : Q[j] < Q[i] \/ (Q[j] = Q[i] /\ i <= j)
<1> DEFINE First(i) == \A j \in here : Q[j] < Q[i] \/ (Q[j] = Q[i] /\ i <= j)
<1>1. CASE 1 \in here /\ 2 \in here
  <2>1. Q[1] \in Int /\ Q[2] \in Int /\ \A j \in here : j = 1 \/ j = 2
    BY <1>1
  <2>2. First(1) \/ First(2)
    BY <2>1
  <2> QED BY <1>1, <2>2
<1>2. CASE 1 \notin here
  <2>1. here = {2}
    BY <1>2
  <2> QED BY <2>1
<1>3. CASE 2 \notin here
  <2>1. here = {1}
    BY <1>3
  <2> QED BY <2>1
<1> QED BY <1>1, <1>2, <1>3

\* A lone sample is one of a view that saw the landmark.
LEMMA LoneSample ==
  ASSUME NEW vs, Pair(vs), NEW n, FuseObserved(vs, n).source = "depth_neighborhood",
         Cardinality(FuseObserved(vs, n).by) = 1
  PROVE  \E i \in {1, 2} : /\ n \in DOMAIN vs[i].samples
                           /\ FuseObserved(vs, n).by = {i} /\ FuseObserved(vs, n).at = vs[i].samples[n].at
<1> DEFINE t == TriangulatedHere(vs, n)
           here == DepthHere(vs, n)
           Sample(i) == vs[i].samples[n]
           best == CHOOSE i \in here : \A j \in here : \/ Sample(j).quality < Sample(i).quality
                                                       \/ Sample(j).quality = Sample(i).quality /\ i <= j
           lm == FuseObserved(vs, n)
           crossed == [at |-> t.at, source |-> "triangulated", by |-> {1, 2}]
           both == [at |-> Average(Sample(1), Sample(2)), source |-> "depth_neighborhood", by |-> {1, 2}]
           lone == [at |-> Sample(best).at, source |-> "depth_neighborhood", by |-> {best}]
<1>1. \/ lm = crossed
      \/ lm = Absent
      \/ lm = both
      \/ lm = lone /\ here # {}
  BY DEF FuseObserved
<1>2. \A i \in here : i \in {1, 2} /\ n \in DOMAIN vs[i].samples /\ Sample(i).quality \in Int
  BY DEF DepthHere, Pair, IsView, Sampled
<1>3. here # {} => best \in here
  <2> DEFINE Q == [i \in here |-> Sample(i).quality]
             First(i) == \A j \in here : \/ Sample(j).quality < Sample(i).quality
                                         \/ Sample(j).quality = Sample(i).quality /\ i <= j
  <2> HIDE DEF here
  <2> SUFFICES ASSUME here # {} PROVE \E i \in here : First(i)
    BY Zenon
  <2>1. here \subseteq {1, 2} /\ \A i \in here : Q[i] \in Int
    BY <1>2
  <2>2. \A i \in here : Q[i] = Sample(i).quality
    OBVIOUS
  <2> HIDE DEF Q, Sample
  <2>3. PICK i \in here : \A j \in here : Q[j] < Q[i] \/ (Q[j] = Q[i] /\ i <= j)
    BY <2>1, Foremost
  <2>4. First(i)
    BY <2>2, <2>3
  <2> QED BY <2>4, Zenon
<1> HIDE DEF t, here, best
<1>4. Cardinality({1, 2}) # 1
  <2>1. IsFiniteSet({1}) /\ Cardinality({1}) = 1
    BY FS_Singleton
  <2>2. {1, 2} = {1} \cup {2} /\ 2 \notin {1}
    OBVIOUS
  <2>3. Cardinality({1, 2}) = 1 + 1
    BY <2>1, <2>2, FS_AddElement
  <2> QED BY <2>3
<1>5. /\ crossed.source = "triangulated" /\ Absent.source = "unavailable" /\ both.by = {1, 2}
      /\ lone.by = {best} /\ lone.at = Sample(best).at
  BY DEF Absent
<1> HIDE DEF crossed, both, lone, lm
<1>6. lm = lone /\ best \in here
  BY <1>1, <1>3, <1>4, <1>5 DEF lm
<1> QED BY <1>2, <1>5, <1>6 DEF lm

\* The views of a capture.
LEMMA ViewsAre ==
  ASSUME VisionInv, views # <<>>
  PROVE  Pair(views)
<1>1. DOMAIN shots = Range(Sources)
  BY DEF VisionInv, Assembled
<1>2. PICK warp \in Shifts \cup {0} : views = <<ViewInput(Sources[1], 0), ViewInput(Sources[2], warp)>>
  BY DEF VisionInv, Assembled, Paired
<1>3. warp \in Int /\ Sources[1] \in Range(Sources) /\ Sources[2] \in Range(Sources)
  BY VisionAssumption DEF Range
<1> DEFINE front == ViewInput(Sources[1], 0)
           rear == ViewInput(Sources[2], warp)
<1>4. IsView(front) /\ IsView(rear)
  BY <1>1, <1>3, ViewSound
<1> HIDE DEF front, rear
<1>5. views = <<front, rear>>
  BY <1>2 DEF front, rear
<1>6. DOMAIN views = {1, 2} /\ views[1] = front /\ views[2] = rear
  BY <1>5
<1> QED BY <1>4, <1>6 DEF Pair

(***************************************************************************)
(* A lone depth lies on a surface that its window supports                 *)
(* (robust_depth_at, depth_sampling.py:85, and fuse_landmarks,             *)
(* landmarks.py:399).                                                      *)
(***************************************************************************)
THEOREM OnTheSurfaceAlways == VisionSpec => []OnTheSurface
<1>1. VisionInv => OnTheSurface
  <2> DEFINE lms == fusion.landmarks
             Near(i, n) ==
                 LET z == OpticalDepth(views[i], lms[n].at - views[i].warp)
                     window == views[i].depth[views[i].seen[n].pixel]
                 IN  {j \in DOMAIN window : Usable(window[j]) /\ Gap(window[j].z, z) <= 2 * Discontinuity}
  <2> SUFFICES ASSUME VisionInv, NEW n \in DOMAIN lms, lms[n].source = "depth_neighborhood",
                      Cardinality(lms[n].by) = 1
               PROVE  \E i \in lms[n].by : Cardinality(Near(i, n)) >= MinSupport
    BY DEF OnTheSurface
  <2>1. views # <<>> /\ fusion = FuseLandmarks(views)
    <3>1. fusion # NoFusion
      <4> SUFFICES ASSUME fusion = NoFusion PROVE FALSE
        OBVIOUS
      <4>1. lms = <<>>
        BY DEF NoFusion
      <4> HIDE DEF lms
      <4> QED BY <4>1
    <3> QED BY <3>1 DEF VisionInv, Fused
  <2>2. lms[n] = FuseObserved(views, n)
    BY <2>1, FusionIsObserved DEF FromObserved
  <2>3. Pair(views)
    BY <2>1, ViewsAre
  <2>4. PICK i \in {1, 2} : /\ n \in DOMAIN views[i].samples
                            /\ lms[n].by = {i} /\ lms[n].at = views[i].samples[n].at
    BY <2>2, <2>3, LoneSample
  <2> DEFINE v == views[i]
             s == v.samples[n]
             window == v.depth[v.seen[n].pixel]
  <2>5. IsView(v)
    BY <2>3 DEF Pair
  <2>6. Sampled(v, n)
    BY <2>4, <2>5 DEF IsView
  <2>7. /\ s.at = v.origin + v.direction * s.z + v.warp /\ s.z \in Int
        /\ Cardinality(OnSurface(window, s.z)) >= MinSupport
    BY <2>6 DEF Sampled
  <2>8. v.origin \in Int /\ v.direction \in {1, -1} /\ v.warp \in Int
    BY <2>5 DEF IsView
  <2>9. OpticalDepth(v, lms[n].at - v.warp) = s.z
    <3> DEFINE o == v.origin
               w == v.warp
               z == s.z
    <3>1. OpticalDepth(v, lms[n].at - v.warp) = v.direction * ((o + v.direction * z + w) - w - o)
      BY <2>4, <2>7 DEF OpticalDepth
    <3>2. o \in Int /\ w \in Int /\ z \in Int
      BY <2>7, <2>8
    <3> HIDE DEF o, w, z, lms, v, s
    <3>3. CASE v.direction = 1
      BY <3>1, <3>2, <3>3 DEF z
    <3>4. CASE v.direction = -1
      BY <3>1, <3>2, <3>4 DEF z
    <3> QED BY <2>8, <3>3, <3>4
  <2>10. Near(i, n) = OnSurface(window, s.z)
    BY <2>9 DEF OnSurface
  <2>11. Cardinality(Near(i, n)) >= MinSupport
    BY <2>7, <2>10
  <2> QED BY <2>4, <2>11
<1> QED BY <1>1, Seen, PTL

-----------------------------------------------------------------------------
(* Registration (LandmarkFusion). *)

LEMMA GapIs ==
  ASSUME NEW a \in Int, NEW b \in Int, NEW d \in Int
  PROVE  (Gap(a, b) <= d <=> (a - b <= d /\ b - a <= d)) /\ Gap(a, b) = Gap(b, a)
BY DEF Gap

\* Where most of the values lie, the median lies.
LEMMA MedianOfMost ==
  ASSUME NEW f, Numbers(f), NEW lo \in Int, NEW hi \in Int,
         2 * Cardinality({i \in DOMAIN f : lo <= f[i] /\ f[i] <= hi}) > Cardinality(DOMAIN f)
  PROVE  Median(f) \in Int /\ lo <= Median(f) /\ Median(f) <= hi
<1> DEFINE n == Cardinality(DOMAIN f)
           In == {i \in DOMAIN f : lo <= f[i] /\ f[i] <= hi}
           m == Cardinality(In)
           j == (n + 1) \div 2
           k == n \div 2 + 1
           x == Smallest(f, j)
           z == Smallest(f, k)
<1>1. n \in Nat /\ n # 0 /\ m \in Nat /\ m <= n /\ 2 * m > n
  <2>1. IsFiniteSet(DOMAIN f) /\ In \subseteq DOMAIN f
    BY DEF Numbers
  <2>2. IsFiniteSet(In) /\ m <= n
    BY <2>1, FS_Subset
  <2>3. m \in Nat /\ n \in Nat /\ n # 0
    BY <2>1, <2>2, FS_CardinalityType, FS_EmptySet DEF Numbers
  <2> QED BY <2>2, <2>3
<1>2. Median(f) = (x + z) \div 2
  BY DEF Median, TwiceMedian
<1>3. \A y : IsFiniteSet({i \in DOMAIN f : f[i] <= y}) /\ AtMost(f, y) \in Nat
  BY FS_Subset, FS_CardinalityType DEF Numbers, AtMost
\* No fewer than lo lie below.
<1>4. ASSUME NEW y \in Int, y < lo PROVE AtMost(f, y) <= n - m
  <2> DEFINE B == {i \in DOMAIN f : f[i] <= y}
  <2>1. B \cap In = {}
    BY <1>4 DEF Numbers
  <2>2. IsFiniteSet(B) /\ IsFiniteSet(In) /\ B \cup In \subseteq DOMAIN f /\ IsFiniteSet(DOMAIN f)
    BY <1>3, FS_Subset DEF Numbers
  <2>3. AtMost(f, y) = Cardinality(B) /\ Cardinality(B) \in Nat
    BY <1>3 DEF AtMost
  <2> HIDE DEF B, In
  <2>4. Cardinality(B \cup In) = Cardinality(B) + Cardinality(In) - Cardinality({})
    BY <2>1, <2>2, FS_Union
  <2>5. Cardinality({}) = 0
    BY FS_EmptySet
  <2>6. Cardinality(B \cup In) <= n
    BY <2>2, FS_Subset
  <2> QED BY <1>1, <2>3, <2>4, <2>5, <2>6
\* Most are at most hi.
<1>5. ASSUME NEW y \in Int, hi <= y PROVE AtMost(f, y) >= m
  <2> DEFINE B == {i \in DOMAIN f : f[i] <= y}
  <2>1. In \subseteq B
    BY <1>5 DEF Numbers
  <2>2. IsFiniteSet(B) /\ AtMost(f, y) = Cardinality(B)
    BY <1>3 DEF AtMost
  <2> HIDE DEF B, In
  <2>3. Cardinality(In) <= Cardinality(B)
    BY <2>1, <2>2, FS_Subset
  <2> QED BY <2>2, <2>3
\* There is one of them.
<1>6. PICK i \in DOMAIN f : lo <= f[i] /\ f[i] <= hi /\ f[i] \in Int
  <2>1. In # {}
    BY <1>1, FS_EmptySet
  <2> QED BY <2>1 DEF Numbers
<1> HIDE DEF n, m, In
<1>7. j \in Int /\ k \in Int /\ j <= k /\ k <= n /\ j >= 1 /\ n - m < j /\ k <= m
  BY <1>1
<1>8. /\ x \in Range(f) /\ AtMost(f, x) >= j
      /\ z \in Range(f) /\ AtMost(f, z) >= k /\ \A y \in Range(f) : y < z => AtMost(f, y) < k
  <2>1. j <= Cardinality(DOMAIN f) /\ k <= Cardinality(DOMAIN f)
    BY <1>1, <1>7 DEF n
  <2> HIDE DEF j, k
  <2> QED BY <1>7, <2>1, SmallestExists
<1>9. x <= z
  <2>1. k <= Cardinality(DOMAIN f)
    BY <1>7 DEF n
  <2> HIDE DEF j, k
  <2> QED BY <1>7, <2>1, SmallestRises
<1>10. x \in Int /\ z \in Int
  BY <1>8 DEF Numbers, Range
<1> HIDE DEF x, z, j, k
<1>11. lo <= x
  <2> SUFFICES ASSUME x < lo PROVE FALSE
    BY <1>10
  <2> DEFINE a == AtMost(f, x)
  <2>1. a <= n - m
    BY <1>4, <1>10
  <2>2. a \in Nat /\ a >= j
    BY <1>3, <1>8
  <2> HIDE DEF a
  <2> QED BY <1>1, <1>7, <2>1, <2>2
\* The greatest value that is at most hi has most of them up to it.
<1>12. z <= hi
  <2> SUFFICES ASSUME hi < z PROVE FALSE
    BY <1>10
  <2> DEFINE T == {y \in Range(f) : y <= hi}
  <2>1. IsFiniteSet(T) /\ T # {} /\ T \subseteq Int
    <3>1. f[i] \in T
      BY <1>6 DEF Range
    <3>2. T \subseteq Int
      BY DEF Numbers, Range
    <3>3. IsFiniteSet(T)
      <4> DEFINE D == {e \in DOMAIN f : f[e] <= hi}
                 g == [e \in D |-> f[e]]
      <4>1. IsFiniteSet(D)
        BY <1>3
      <4>2. g \in Surjection(D, T)
        BY DEF Surjection, Range
      <4> QED BY <4>1, <4>2, FS_Surjection
    <3> QED BY <3>1, <3>2, <3>3
  <2>2. \A e \in DOMAIN f : f[e] <= hi => f[e] \in T
    BY DEF Range
  <2>3. \A y \in T : y \in Range(f) /\ y <= hi
    OBVIOUS
  <2> DEFINE top == Max(T)
  <2> HIDE DEF T
  <2>4. top \in T /\ \A y \in T : y <= top
    BY <2>1, GreatestIs
  <2>5. top \in Range(f) /\ top \in Int /\ top <= hi
    BY <2>1, <2>3, <2>4
  <2>6. AtMost(f, top) = AtMost(f, hi)
    <3>1. \A e \in DOMAIN f : f[e] <= hi <=> f[e] <= top
      <4> SUFFICES ASSUME NEW e \in DOMAIN f PROVE f[e] <= hi <=> f[e] <= top
        OBVIOUS
      <4>1. f[e] \in Int
        BY DEF Numbers
      <4>2. f[e] <= hi => f[e] <= top
        BY <2>2, <2>4
      <4> HIDE DEF top
      <4>3. f[e] <= top => f[e] <= hi
        BY <2>5, <4>1
      <4> QED BY <4>2, <4>3
    <3> HIDE DEF top
    <3>2. {e \in DOMAIN f : f[e] <= hi} = {e \in DOMAIN f : f[e] <= top}
      BY <3>1
    <3> QED BY <3>2 DEF AtMost
  <2> HIDE DEF top
  <2>7. AtMost(f, hi) >= m
    BY <1>5
  <2>8. AtMost(f, top) < k
    BY <1>8, <1>10, <2>5
  <2> DEFINE a == AtMost(f, hi)
  <2>9. a \in Nat /\ a >= m /\ a < k
    BY <1>3, <2>6, <2>7, <2>8
  <2> HIDE DEF a
  <2> QED BY <1>1, <1>7, <2>9
<1>13. lo <= (x + z) \div 2 /\ (x + z) \div 2 <= hi /\ (x + z) \div 2 \in Int
  BY <1>9, <1>10, <1>11, <1>12
<1> QED BY <1>2, <1>13

\* A registered prior is shifted to the stage.
LEMMA RegisteredShape ==
  ASSUME NEW prior, NEW anchors, NEW least, NEW maxRms, Register(prior, anchors, least, maxRms).ok
  PROVE  /\ DOMAIN anchors # {}
         /\ Register(prior, anchors, least, maxRms).stage
                = [n \in DOMAIN prior |-> prior[n] + Median([m \in DOMAIN anchors |-> anchors[m] - prior[m]])]
<1> DEFINE shift == Median([n \in DOMAIN anchors |-> anchors[n] - prior[n]])
           fit == Register(prior, anchors, least, maxRms)
           Residual(n) == Gap(anchors[n], prior[n] + shift)
           inliers == {n \in DOMAIN anchors : Residual(n) <= 2 * Huber}
           rms == MapThenSumSet(Residual, inliers) \div Cardinality(inliers)
           stage == [n \in DOMAIN prior |-> prior[n] + shift]
           bad == \/ Cardinality(DOMAIN anchors) < least
                  \/ \A n, m \in DOMAIN anchors : anchors[n] = anchors[m]
                  \/ \A n, m \in DOMAIN anchors : prior[n] = prior[m]
                  \/ Cardinality(inliers) < least
                  \/ rms > maxRms
<1>1. fit = IF bad THEN Rejected ELSE [ok |-> TRUE, shift |-> shift, rms |-> rms, stage |-> stage]
  BY DEF Register
<1>2. DOMAIN anchors = {} => bad
  OBVIOUS
<1>3. fit.ok
  OBVIOUS
<1> SUFFICES DOMAIN anchors # {} /\ fit.stage = stage
  OBVIOUS
<1> HIDE DEF bad, rms, stage, shift, fit
<1>4. ~bad
  BY <1>1, <1>3 DEF Rejected
<1> QED BY <1>1, <1>2, <1>4

\* A prior of the subject's shape that is fitted to anchors most of which are near is near.
LEMMA FitNear ==
  ASSUME NEW prior, NEW c \in Int, DOMAIN prior = PoseNames, \A n \in PoseNames : prior[n] = Subject[n] + c,
         NEW anchors, DOMAIN anchors \subseteq PoseAnchors, \A n \in DOMAIN anchors : anchors[n] \in Int,
         2 * Cardinality({n \in DOMAIN anchors : Gap(anchors[n], Subject[n]) <= MaxRms})
             > Cardinality(DOMAIN anchors),
         Register(prior, anchors, MinAnchors, MaxRms).ok
  PROVE  LET stage == Register(prior, anchors, MinAnchors, MaxRms).stage
         IN  /\ DOMAIN stage = PoseNames
             /\ \A n \in PoseNames : stage[n] \in Int /\ Gap(stage[n], Subject[n]) <= MaxRms
<1> DEFINE off == [n \in DOMAIN anchors |-> anchors[n] - prior[n]]
           shift == Median(off)
           fit == Register(prior, anchors, MinAnchors, MaxRms)
<1>1. fit.stage = [n \in DOMAIN prior |-> prior[n] + shift] /\ DOMAIN anchors # {}
  BY RegisteredShape
<1>2. MaxRms \in Nat /\ IsFiniteSet(PoseAnchors) /\ PoseAnchors \subseteq PoseNames
  BY FusionAssumption
<1>3. \A n \in PoseNames : Subject[n] \in Int
  BY VisionAssumption
<1>4. ASSUME NEW n \in DOMAIN anchors
      PROVE  /\ off[n] \in Int
             /\ Gap(anchors[n], Subject[n]) <= MaxRms <=> (- c - MaxRms <= off[n] /\ off[n] <= MaxRms - c)
  <2>1. anchors[n] \in Int /\ Subject[n] \in Int /\ n \in PoseNames /\ off[n] = anchors[n] - (Subject[n] + c)
    BY <1>2, <1>3
  <2>2. Gap(anchors[n], Subject[n]) <= MaxRms
            <=> (anchors[n] - Subject[n] <= MaxRms /\ Subject[n] - anchors[n] <= MaxRms)
    BY <1>2, <2>1, GapIs
  <2> HIDE DEF off
  <2> QED BY <1>2, <2>1, <2>2
<1>5. DOMAIN off = DOMAIN anchors
  OBVIOUS
<1> DEFINE lo == - c - MaxRms
           hi == MaxRms - c
<1>6. lo \in Int /\ hi \in Int
  BY <1>2
<1>7. {n \in DOMAIN off : lo <= off[n] /\ off[n] <= hi}
          = {n \in DOMAIN anchors : Gap(anchors[n], Subject[n]) <= MaxRms}
  BY <1>4, <1>5
<1>8. Numbers(off)
  <2>1. IsFiniteSet(DOMAIN anchors)
    BY <1>2, FS_Subset
  <2> QED BY <1>1, <1>4, <1>5, <2>1 DEF Numbers
<1> HIDE DEF off, lo, hi
<1>9. 2 * Cardinality({n \in DOMAIN off : lo <= off[n] /\ off[n] <= hi}) > Cardinality(DOMAIN off)
  BY <1>5, <1>7
<1>10. shift \in Int /\ lo <= shift /\ shift <= hi
  BY <1>6, <1>8, <1>9, MedianOfMost
<1> HIDE DEF shift, fit
<1>11. ASSUME NEW n \in PoseNames
       PROVE  fit.stage[n] \in Int /\ Gap(fit.stage[n], Subject[n]) <= MaxRms
  <2>1. Subject[n] \in Int /\ fit.stage[n] = Subject[n] + c + shift
    BY <1>1, <1>3
  <2>2. - c - MaxRms <= shift /\ shift <= MaxRms - c
    BY <1>10 DEF lo, hi
  <2> DEFINE s == fit.stage[n]
  <2> HIDE DEF s
  <2>3. s \in Int /\ s - Subject[n] <= MaxRms /\ Subject[n] - s <= MaxRms
    BY <1>2, <1>10, <2>1, <2>2 DEF s
  <2>4. Gap(s, Subject[n]) <= MaxRms
    BY <1>2, <2>1, <2>3, GapIs
  <2> QED BY <2>3, <2>4 DEF s
<1>12. DOMAIN fit.stage = PoseNames
  BY <1>1
<1> QED BY <1>11, <1>12 DEF fit

\* What the observed landmarks are.
LEMMA ObservedCases ==
  ASSUME NEW vs, Pair(vs), NEW n, FuseObserved(vs, n) # Absent
  PROVE  LET lm == FuseObserved(vs, n)
         IN  /\ lm.at \in Int
             /\ \/ lm.by = {1, 2}
                \/ lm.source = "depth_neighborhood" /\ Cardinality(lm.by) = 1
<1> DEFINE t == TriangulatedHere(vs, n)
           here == DepthHere(vs, n)
           Sample(i) == vs[i].samples[n]
           best == CHOOSE i \in here : \A j \in here : \/ Sample(j).quality < Sample(i).quality
                                                       \/ Sample(j).quality = Sample(i).quality /\ i <= j
           lm == FuseObserved(vs, n)
           crossed == [at |-> t.at, source |-> "triangulated", by |-> {1, 2}]
           both == [at |-> Average(Sample(1), Sample(2)), source |-> "depth_neighborhood", by |-> {1, 2}]
           lone == [at |-> Sample(best).at, source |-> "depth_neighborhood", by |-> {best}]
<1>1. \/ t.ok /\ lm = crossed
      \/ lm = Absent
      \/ here = {1, 2} /\ lm = both
      \/ here # {} /\ lm = lone
  BY DEF FuseObserved
<1>2. ASSUME NEW i \in here
      PROVE  i \in {1, 2} /\ Sample(i).at \in Int /\ Sample(i).quality \in Nat \ {0}
  <2> DEFINE v == vs[i]
             s == v.samples[n]
  <2>1. i \in {1, 2} /\ n \in DOMAIN v.samples /\ s.quality >= MinQuality
    BY <1>2 DEF DepthHere, Pair
  <2>2. IsView(v)
    BY <2>1 DEF Pair
  <2>3. Sampled(v, n) /\ v.origin \in Int /\ v.direction \in {1, -1} /\ v.warp \in Int
    BY <2>1, <2>2 DEF IsView
  <2> HIDE DEF v
  <2>4. s.at = v.origin + v.direction * s.z + v.warp /\ s.z \in Int /\ s.quality \in Int
    BY <2>3 DEF Sampled
  <2> DEFINE z == s.z
  <2> HIDE DEF s, z
  <2>5. s.at \in Int
    <3>1. z \in Int /\ s.at = v.origin + v.direction * z + v.warp
      BY <2>4 DEF z
    <3>2. CASE v.direction = 1
      BY <2>3, <3>1, <3>2
    <3>3. CASE v.direction = -1
      BY <2>3, <3>1, <3>3
    <3> QED BY <2>3, <3>2, <3>3
  <2>6. s.quality \in Nat \ {0}
    <3> DEFINE q == s.quality
    <3> HIDE DEF q
    <3>1. q \in Int /\ q >= MinQuality /\ MinQuality \in Nat \ {0}
      BY <2>1, <2>4, FusionAssumption DEF q
    <3>2. q \in Nat \ {0}
      BY <3>1
    <3> QED BY <3>2 DEF q
  <2> QED BY <2>1, <2>5, <2>6 DEF s, v
<1>3. here # {} => best \in here
  <2> DEFINE Q == [i \in here |-> Sample(i).quality]
             First(i) == \A j \in here : \/ Sample(j).quality < Sample(i).quality
                                         \/ Sample(j).quality = Sample(i).quality /\ i <= j
  <2> HIDE DEF here
  <2> SUFFICES ASSUME here # {} PROVE \E i \in here : First(i)
    BY Zenon
  <2>1. here \subseteq {1, 2} /\ \A i \in here : Q[i] \in Int
    BY <1>2
  <2>2. \A i \in here : Q[i] = Sample(i).quality
    OBVIOUS
  <2> HIDE DEF Q, Sample
  <2>3. PICK i \in here : \A j \in here : Q[j] < Q[i] \/ (Q[j] = Q[i] /\ i <= j)
    BY <2>1, Foremost
  <2>4. First(i)
    BY <2>2, <2>3
  <2> QED BY <2>4, Zenon
<1>4. t.ok => t.at \in Int
  <2> DEFINE Sight(i) == vs[i].seen[n]
  <2> SUFFICES ASSUME t.ok PROVE t.at \in Int
    OBVIOUS
  <2> DEFINE crossing == Triangulate(Sight(1).pixel, Sight(2).pixel)
  <2>1. ValidIn(vs, n) = {1, 2} /\ t = crossing
    <3>1. Rejected.ok = FALSE
      BY DEF Rejected
    <3> HIDE DEF crossing
    <3>2. \/ t = Rejected
          \/ ValidIn(vs, n) = {1, 2} /\ t = crossing
      BY DEF TriangulatedHere, crossing
    <3> HIDE DEF t
    <3> QED BY <3>1, <3>2
  <2>2. \A i \in {1, 2} : n \in DOMAIN vs[i].seen /\ Sight(i).valid
    BY <2>1 DEF ValidIn
  <2>3. OnRaster(vs[1].seen) /\ OnRaster(vs[2].seen)
    BY DEF Pair, IsView
  <2>4. Sight(1).pixel \in Raster /\ Sight(2).pixel \in Raster
    BY <2>2, <2>3 DEF OnRaster
  <2> DEFINE c == Crossing(Sight(1).pixel, Sight(2).pixel)
  <2>5. c.at \in Int
    BY <2>4, VisionAssumption
  <2>6. crossing = Rejected \/ crossing = [ok |-> TRUE, at |-> c.at]
    BY DEF Triangulate
  <2>7. crossing.ok
    BY <2>1
  <2> HIDE DEF crossing, c, t
  <2>8. crossing.at = c.at
    BY <2>6, <2>7 DEF Rejected
  <2> QED BY <2>1, <2>5, <2>8
<1>5. here = {1, 2} => both.at \in Int
  <2> SUFFICES ASSUME here = {1, 2} PROVE both.at \in Int
    OBVIOUS
  <2> DEFINE a == Sample(1).at
             b == Sample(2).at
             p == Sample(1).quality
             q == Sample(2).quality
  <2>1. a \in Int /\ b \in Int /\ p \in Nat \ {0} /\ q \in Nat \ {0}
    BY <1>2
  <2>2. both.at = (a * p + b * q) \div (p + q)
    BY DEF Average
  <2> HIDE DEF a, b, p, q, both, Sample
  <2>3. a * p + b * q \in Int /\ p + q \in Nat \ {0}
    BY <2>1
  <2> DEFINE num == a * p + b * q
             den == p + q
  <2> HIDE DEF num, den
  <2>4. num \div den \in Int
    BY <2>3 DEF num, den
  <2> QED BY <2>2, <2>4 DEF num, den
<1>6. here # {} => lone.at \in Int
  BY <1>2, <1>3
<1>7. Cardinality({best}) = 1
  BY FS_Singleton
<1>8. /\ crossed.at = t.at /\ crossed.by = {1, 2} /\ both.by = {1, 2}
      /\ lone.source = "depth_neighborhood" /\ Cardinality(lone.by) = 1
  BY <1>7
<1> HIDE DEF crossed, both, lone, t, here, lm, best
<1>9. lm # Absent
  BY DEF lm
<1>10. lm.at \in Int /\ (lm.by = {1, 2} \/ (lm.source = "depth_neighborhood" /\ Cardinality(lm.by) = 1))
  BY <1>1, <1>4, <1>5, <1>6, <1>8, <1>9
<1> QED BY <1>10 DEF lm

(***************************************************************************)
(* The premise of the next theorem: the models know the pose of the        *)
(* subject up to where it stands, most of the anchors that were observed   *)
(* are near the subject, and so is what both views place.  Of the          *)
(* landmarks that one view places nothing is asked.                        *)
(***************************************************************************)
WellSeen(vs) ==
    LET observed == ObservedLandmarks(vs)
        anchors == PoseAnchors \cap DOMAIN observed
    IN  /\ \A i \in {1, 2} : vs[i].prior # <<>> =>
              \E c \in Int : \A n \in PoseNames : vs[i].prior[n] = Subject[n] + c
        /\ 2 * Cardinality({n \in anchors : Gap(observed[n].at, Subject[n]) <= MaxRms}) > Cardinality(anchors)
        /\ \A n \in PoseNames \cap DOMAIN observed :
              observed[n].by = {1, 2} => Gap(observed[n].at, Subject[n]) <= PoseGate + MaxRms

\* The landmarks of the body are near the subject's.
NearSubject(lms) ==
    \A n \in PoseNames \cap DOMAIN lms : Gap(lms[n].at, Subject[n]) <= PoseGate + MaxRms

LEMMA PoseNear ==
  ASSUME NEW vs, Pair(vs), WellSeen(vs), RegisterPose(vs, ObservedLandmarks(vs)).ok
  PROVE  NearSubject(WithPose(vs, ObservedLandmarks(vs)))
<1> DEFINE observed == ObservedLandmarks(vs)
           anchors == [n \in PoseAnchors \cap DOMAIN observed |-> observed[n].at]
           fits == [i \in DOMAIN vs |-> IF vs[i].prior = <<>> THEN Rejected
                                        ELSE Register(vs[i].prior, anchors, MinAnchors, MaxRms)]
           fit == RegisterPose(vs, observed)
           stage == fit.stage
           out == WithPose(vs, observed)
<1>1. \A n \in DOMAIN observed :
         /\ observed[n].at \in Int
         /\ \/ observed[n].by = {1, 2}
            \/ observed[n].source = "depth_neighborhood" /\ Cardinality(observed[n].by) = 1
  <2> SUFFICES ASSUME NEW n \in DOMAIN observed
               PROVE  /\ observed[n].at \in Int
                      /\ \/ observed[n].by = {1, 2}
                         \/ observed[n].source = "depth_neighborhood" /\ Cardinality(observed[n].by) = 1
    OBVIOUS
  <2>1. observed[n] = FuseObserved(vs, n) /\ FuseObserved(vs, n) # Absent
    BY DEF ObservedLandmarks
  <2> HIDE DEF observed
  <2> QED BY <2>1, ObservedCases
<1>2. fit = BestOf(fits)
  BY DEF RegisterPose
<1>3. DOMAIN fits = {1, 2} /\ \A i \in {1, 2} :
          fits[i] = IF vs[i].prior = <<>> THEN Rejected ELSE Register(vs[i].prior, anchors, MinAnchors, MaxRms)
  BY DEF Pair
<1>4. fit.ok
  OBVIOUS
<1>5. DOMAIN anchors = PoseAnchors \cap DOMAIN observed /\ \A n \in DOMAIN anchors : anchors[n] = observed[n].at
  OBVIOUS
<1>6. /\ \A i \in {1, 2} : vs[i].prior # <<>> => \E c \in Int : \A n \in PoseNames : vs[i].prior[n] = Subject[n] + c
      /\ 2 * Cardinality({n \in PoseAnchors \cap DOMAIN observed : Gap(observed[n].at, Subject[n]) <= MaxRms})
             > Cardinality(PoseAnchors \cap DOMAIN observed)
      /\ \A n \in PoseNames \cap DOMAIN observed :
            observed[n].by = {1, 2} => Gap(observed[n].at, Subject[n]) <= PoseGate + MaxRms
  BY DEF WellSeen
<1>7. out = WithPrior(observed, stage, PoseGate)
  BY <1>4 DEF WithPose
<1> SUFFICES NearSubject(out)
  OBVIOUS
<1> HIDE DEF fits, anchors, observed, fit, out
<1>8. PICK i \in {1, 2} : vs[i].prior # <<>> /\ fit = Register(vs[i].prior, anchors, MinAnchors, MaxRms)
  <2>1. fit = fits[1] \/ fit = fits[2]
    BY <1>2 DEF BestOf
  <2> QED BY <1>3, <1>4, <2>1 DEF Rejected
<1>9. DOMAIN vs[i].prior = PoseNames
  BY <1>8 DEF Pair, IsView
<1>10. PICK c \in Int : \A n \in PoseNames : vs[i].prior[n] = Subject[n] + c
  BY <1>6, <1>8
<1>11. {n \in DOMAIN anchors : Gap(anchors[n], Subject[n]) <= MaxRms}
           = {n \in PoseAnchors \cap DOMAIN observed : Gap(observed[n].at, Subject[n]) <= MaxRms}
  BY <1>5
<1>12. 2 * Cardinality({n \in DOMAIN anchors : Gap(anchors[n], Subject[n]) <= MaxRms}) > Cardinality(DOMAIN anchors)
  BY <1>5, <1>6, <1>11
<1>13. DOMAIN anchors \subseteq PoseAnchors /\ \A n \in DOMAIN anchors : anchors[n] \in Int
  BY <1>1, <1>5
<1>14. /\ DOMAIN stage = PoseNames
       /\ \A n \in PoseNames : stage[n] \in Int /\ Gap(stage[n], Subject[n]) <= MaxRms
  <2> DEFINE prior == vs[i].prior
  <2>1. Register(prior, anchors, MinAnchors, MaxRms).ok /\ fit = Register(prior, anchors, MinAnchors, MaxRms)
    BY <1>4, <1>8
  <2>2. DOMAIN prior = PoseNames /\ \A n \in PoseNames : prior[n] = Subject[n] + c
    BY <1>9, <1>10
  <2> HIDE DEF prior
  <2> QED BY <1>12, <1>13, <2>1, <2>2, FitNear
<1>15. MaxRms \in Nat /\ PoseGate \in Nat /\ \A n \in PoseNames : Subject[n] \in Int
  BY FusionAssumption, VisionAssumption
<1> HIDE DEF stage
<1>16. ASSUME NEW n \in PoseNames \cap DOMAIN out PROVE Gap(out[n].at, Subject[n]) <= PoseGate + MaxRms
  <2> DEFINE placed == [at |-> stage[n], source |-> "registered_model_prior", by |-> {}]
             s == Subject[n]
             p == stage[n]
  <2>1. s \in Int /\ p \in Int /\ Gap(p, s) <= MaxRms /\ n \in DOMAIN stage
    BY <1>14, <1>15
  <2>2. placed.at = p
    OBVIOUS
  <2>3. \/ out[n] = placed
        \/ n \in DOMAIN observed /\ out[n] = observed[n] /\ ~ OccluderHit(observed[n], p, PoseGate)
    BY <1>7, <2>1 DEF WithPrior
  <2> HIDE DEF placed, s, p
  <2>4. CASE out[n] = placed
    <3>1. p - s <= MaxRms /\ s - p <= MaxRms
      BY <1>15, <2>1, GapIs
    <3>2. Gap(p, s) <= PoseGate + MaxRms
      <4>1. p - s <= PoseGate + MaxRms /\ s - p <= PoseGate + MaxRms /\ PoseGate + MaxRms \in Int
        BY <1>15, <2>1, <3>1
      <4> QED BY <2>1, <4>1, GapIs
    <3> QED BY <2>2, <2>4, <3>2 DEF s
  <2>5. CASE n \in DOMAIN observed /\ out[n] = observed[n] /\ ~ OccluderHit(observed[n], p, PoseGate)
    <3> DEFINE a == observed[n].at
    <3>1. a \in Int
      BY <1>1, <2>5
    <3>2. CASE observed[n].by = {1, 2}
      BY <1>6, <2>5, <3>2
    <3>3. CASE observed[n].source = "depth_neighborhood" /\ Cardinality(observed[n].by) = 1
      <4>1. ~ (Gap(a, p) > PoseGate)
        BY <2>5, <3>3 DEF OccluderHit
      <4> HIDE DEF a
      <4>2. Gap(a, p) <= PoseGate
        BY <1>15, <2>1, <3>1, <4>1 DEF Gap
      <4>3. Gap(s, p) <= MaxRms
        BY <1>15, <2>1, GapIs
      <4>4. Gap(a, s) <= PoseGate + MaxRms
        BY <1>15, <2>1, <3>1, <4>2, <4>3, GapsAdd
      <4> QED BY <2>5, <4>4 DEF a, s
    <3> QED BY <1>1, <2>5, <3>2, <3>3
  <2> QED BY <2>3, <2>4, <2>5
<1> QED BY <1>16 DEF NearSubject

\* A hand's landmarks are none of the body's.
LEMMA HandNear ==
  ASSUME NEW vs, Pair(vs), NEW observed, NEW lms, NearSubject(lms), NEW side \in Sides
  PROVE  NearSubject(WithHand(vs, observed, lms, side))
<1> DEFINE anchors == [n \in {a \in HandAnchors : HandName(side, a) \in DOMAIN observed}
                          |-> observed[HandName(side, n)].at]
           fits == [i \in DOMAIN vs |-> IF side \notin DOMAIN vs[i].handPriors THEN Rejected
                        ELSE Register(vs[i].handPriors[side], anchors, MinHandAnchors, MaxHandRms)]
           fit == RegisterHand(vs, side, observed)
           attach == IF Wrist(side) \in DOMAIN lms /\ lms[Wrist(side)].source # "registered_model_prior"
                     THEN lms[Wrist(side)].at - fit.stage["wrist"] ELSE 0
           hand == [n \in DOMAIN fit.stage |-> fit.stage[n] + attach]
           stage == Named(side, hand)
           out == WithHand(vs, observed, lms, side)
<1>1. fit = BestOf(fits)
  BY DEF RegisterHand
<1>2. \A i \in {1, 2} :
          fits[i] = IF side \notin DOMAIN vs[i].handPriors THEN Rejected
                    ELSE Register(vs[i].handPriors[side], anchors, MinHandAnchors, MaxHandRms)
  BY DEF Pair
<1>3. out = IF fit.ok THEN WithPrior(lms, stage, HandGate) ELSE lms
  BY DEF WithHand, Attached
<1>4. DOMAIN hand = DOMAIN fit.stage
  OBVIOUS
<1> SUFFICES NearSubject(out)
  OBVIOUS
<1> HIDE DEF anchors, fits, fit, hand, out
<1>5. CASE fit.ok
  <2>1. fit = fits[1] \/ fit = fits[2]
    BY <1>1 DEF BestOf
  <2>2. PICK i \in {1, 2} : /\ side \in DOMAIN vs[i].handPriors
                            /\ fit = Register(vs[i].handPriors[side], anchors, MinHandAnchors, MaxHandRms)
    BY <1>2, <1>5, <2>1 DEF Rejected
  <2> DEFINE prior == vs[i].handPriors[side]
  <2>3. DOMAIN prior \subseteq HandNames
    BY <2>2 DEF Pair, IsView
  <2> HIDE DEF prior
  <2>4. DOMAIN fit.stage = DOMAIN prior
    <3>1. fit = Register(prior, anchors, MinHandAnchors, MaxHandRms)
      BY <2>2 DEF prior
    <3>2. Register(prior, anchors, MinHandAnchors, MaxHandRms).ok
      BY <1>5, <3>1
    <3>3. Register(prior, anchors, MinHandAnchors, MaxHandRms).stage
              = [n \in DOMAIN prior |-> prior[n] + Median([m \in DOMAIN anchors |-> anchors[m] - prior[m]])]
      BY <3>2, RegisteredShape
    <3> QED BY <3>1, <3>3
  <2>5. DOMAIN stage \cap PoseNames = {}
    <3>1. DOMAIN stage = {HandName(side, s) : s \in DOMAIN hand}
      BY DEF Named
    <3>2. \A s \in DOMAIN hand : HandName(side, s) \notin PoseNames
      BY <1>4, <2>3, <2>4, FusionAssumption DEF Sides
    <3> HIDE DEF stage
    <3> QED BY <3>1, <3>2
  <2> HIDE DEF stage
  <2>6. out = WithPrior(lms, stage, HandGate)
    BY <1>3, <1>5
  <2>7. ASSUME NEW n \in PoseNames \cap DOMAIN out PROVE n \in DOMAIN lms /\ out[n] = lms[n]
    BY <2>5, <2>6 DEF WithPrior
  <2> QED BY <2>7 DEF NearSubject
<1>6. CASE ~ fit.ok
  BY <1>3, <1>6
<1> QED BY <1>5, <1>6

(***************************************************************************)
(* Whenever a pose prior was registered in a capture that was well seen,   *)
(* no landmark of the body is farther from the subject than the gate and   *)
(* the residual allow, whatever one view took for a joint                  *)
(* (_gate_single_view_depth, landmarks.py:253, and fuse_landmarks,         *)
(* landmarks.py:399).                                                      *)
(***************************************************************************)
THEOREM SkeletonStaysNear == VisionSpec => [](WellSeen(views) => SkeletonNearSubject)
<1>1. VisionInv => (WellSeen(views) => SkeletonNearSubject)
  <2> SUFFICES ASSUME VisionInv, WellSeen(views), fusion.status = "fused", PoseRegistered
               PROVE  \A n \in DOMAIN fusion.landmarks \cap PoseNames :
                          Gap(fusion.landmarks[n].at, Subject[n]) <= PoseGate + MaxRms
    BY DEF SkeletonNearSubject
  <2> DEFINE observed == ObservedLandmarks(views)
             pose == WithPose(views, observed)
             left == WithHand(views, observed, pose, "left")
             filled == WithHand(views, observed, left, "right")
  <2>1. views # <<>> /\ fusion = FuseLandmarks(views)
    BY DEF VisionInv, Fused, NoFusion
  <2>2. Pair(views)
    BY <2>1, ViewsAre
  <2>3. NearSubject(pose)
    BY <2>2, PoseNear DEF PoseRegistered
  <2> HIDE DEF pose, observed
  <2>4. NearSubject(left)
    BY <2>2, <2>3, HandNear DEF Sides
  <2> HIDE DEF left
  <2>5. NearSubject(filled)
    BY <2>2, <2>4, HandNear DEF Sides
  <2>6. fusion = IF LookupFails(filled) THEN [status |-> "KeyError", landmarks |-> <<>>]
                 ELSE [status |-> "fused", landmarks |-> Over(Derive(filled), filled)]
    BY <2>1 DEF FuseLandmarks, Completed, filled, left, pose, observed
  <2> HIDE DEF filled
  <2>7. fusion.landmarks = Over(Derive(filled), filled)
    BY <2>6
  <2>8. DOMAIN Derive(filled) \cap PoseNames = {}
    BY FusionAssumption DEF Derive
  <2>9. \A n \in DOMAIN fusion.landmarks \cap PoseNames : n \in DOMAIN filled /\ fusion.landmarks[n] = filled[n]
    BY <2>7, <2>8 DEF Over
  <2> QED BY <2>5, <2>9 DEF NearSubject
<1> QED BY <1>1, Seen, PTL
=============================================================================
