--------------------------- MODULE HandAssociation ---------------------------
(***************************************************************************)
(* Which detected hand belongs to which arm (vision/hand_association.py).  *)
(* A candidate has, for each side, the score of its distance to the wrist  *)
(* (Far when it is out of reach), its direction along the forearm, and the *)
(* handedness the hand model reports.  Of an arm the wrist and the elbow   *)
(* are seen or not.  Scores are in percent.  No caller passes a            *)
(* cross-view agreement.                                                   *)
(***************************************************************************)
EXTENDS Integers, FiniteSets, FiniteSetsExt, Functions, Sequences

CONSTANTS
    MinMargin,          \* min_margin
    DirectionWeight, HandednessWeight

ASSUME AssociationAssumption ==
    MinMargin \in Nat /\ DirectionWeight \in Nat /\ HandednessWeight \in Nat

Sides == {"left", "right"}
Mirror(side) == IF side = "left" THEN "right" ELSE "left"

Far == -1000

IsHand(cand) ==
    /\ \A s \in Sides : cand.distance[s] \in Int /\ cand.direction[s] \in Int
    /\ cand.sure \in Int

(***************************************************************************)
(* The hand model assumes a mirrored image; captures are not mirrored.     *)
(***************************************************************************)
AnatomicalSide(label) == Mirror(label)

HandednessScore(cand, side) ==
    IF cand.label = "none" THEN 0
    ELSE IF AnatomicalSide(cand.label) = side THEN cand.sure ELSE -cand.sure

ScoreCandidate(cand, arms, side) ==
    IF ~arms[side].wrist \/ cand.distance[side] = Far THEN Far
    ELSE cand.distance[side]
         + (IF arms[side].elbow THEN (DirectionWeight * cand.direction[side]) \div 100 ELSE 0)
         + (HandednessWeight * HandednessScore(cand, side)) \div 100

(***************************************************************************)
(* Pairs of a candidate and a side that have a score, the best first; of   *)
(* equal ones the first candidate, left first.                             *)
(***************************************************************************)
Scored(cands, arms) ==
    {a \in (DOMAIN cands) \X Sides : ScoreCandidate(cands[a[1]], arms, a[2]) # Far}

Place(a) == 2 * a[1] + (IF a[2] = "left" THEN 0 ELSE 1)

Before(cands, arms, a, b) ==
    LET Score(c) == ScoreCandidate(cands[c[1]], arms, c[2])
    IN  Score(a) > Score(b) \/ (Score(a) = Score(b) /\ Place(a) < Place(b))

FirstOf(cands, arms, pairs) ==
    CHOOSE a \in pairs : \A b \in pairs \ {a} : Before(cands, arms, a, b)

\* Bug: a hand is compared with its own other side only.
MarginOverSelf(cands, arms, used, i, side) ==
    ScoreCandidate(cands[i], arms, side) - ScoreCandidate(cands[i], arms, Mirror(side))

Margin(cands, arms, used, i, side) ==
    LET rivals == {ScoreCandidate(cands[j], arms, side) : j \in DOMAIN cands \ (used \cup {i})}
    IN  ScoreCandidate(cands[i], arms, side)
        - Max(rivals \cup {ScoreCandidate(cands[i], arms, Mirror(side))})

Clear(cands, arms, used, pairs) ==
    {a \in pairs : Margin(cands, arms, used, a[1], a[2]) >= MinMargin}

(***************************************************************************)
(* At most one candidate for a side and one side for a candidate.  The     *)
(* pairs are tried in their order, each once: the second association comes *)
(* behind the first, whose candidate is no rival any more.                 *)
(***************************************************************************)
Both(a, b) == [s \in {a[2], b[2]} |-> IF s = a[2] THEN a[1] ELSE b[1]]

AssociateAfter(cands, arms, a) ==
    LET others == {b \in Scored(cands, arms) :
                      Before(cands, arms, a, b) /\ b[1] # a[1] /\ b[2] # a[2]}
        rest == Clear(cands, arms, {a[1]}, others)
    IN  IF rest = {} THEN [s \in {a[2]} |-> a[1]]
        ELSE Both(a, FirstOf(cands, arms, rest))

AssociateHands(cands, arms) ==
    LET clear == Clear(cands, arms, {}, Scored(cands, arms))
    IN  IF clear = {} THEN <<>>
        ELSE AssociateAfter(cands, arms, FirstOf(cands, arms, clear))

(***************************************************************************)
(* The sides to look at again in a crop around the wrist.                  *)
(***************************************************************************)
HandsNeedCrops(cands, arms) ==
    {s \in Sides : arms[s].wrist /\ s \notin DOMAIN AssociateHands(cands, arms)}
=============================================================================
