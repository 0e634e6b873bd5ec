------------------------------- MODULE Pairer -------------------------------
(***************************************************************************)
(* The two-phone frame pairer of capture/pairing.py as operators over its  *)
(* pair of bounded queues.  A frame is a record with the fields the pairer *)
(* looks at: the device and capture it belongs to, its normalized capture  *)
(* time and its clock uncertainty, all in milliseconds.  `id' stands for   *)
(* the identity of the Python object.                                      *)
(***************************************************************************)
EXTENDS Integers, Sequences

CONSTANTS
    First, Second,      \* the two configured device ids, in configured order
    SkewLimit,          \* pair_skew_limit_ms
    UncertaintyLimit,   \* clock_uncertainty_limit_ms
    RequireCaptureId,   \* require_capture_id
    Window              \* maxlen of each device queue

Devices == {First, Second}

ASSUME PairerAssumption ==
    /\ First # Second
    /\ SkewLimit \in Nat
    /\ UncertaintyLimit \in Nat
    /\ RequireCaptureId \in BOOLEAN
    /\ Window \in Nat \ {0}

EmptyQueues == [d \in Devices |-> <<>>]

Other(d) == IF d = First THEN Second ELSE First

Skew(f, g) == IF f.time >= g.time THEN f.time - g.time ELSE g.time - f.time

\* The candidates the search considers at all.
Comparable(f, g) == RequireCaptureId => f.capture = g.capture

CandidatesIn(q, f) == {i \in DOMAIN q : Comparable(q[i], f)}

\* The strict `<' of the scan keeps the earliest of several closest candidates.
IsBest(q, f, i) ==
    /\ i \in CandidatesIn(q, f)
    /\ \A j \in CandidatesIn(q, f) :
         \/ Skew(q[i], f) < Skew(q[j], f)
         \/ Skew(q[i], f) = Skew(q[j], f) /\ i <= j

WithinSkew(f, g) == Comparable(f, g) /\ Skew(f, g) <= SkewLimit

\* Bugs the properties of Pairing must notice: the neighbour of the partner is
\* removed instead; a full queue sacrifices its newest frame; the
\* pair is left in order of arrival.
WithoutNeighbour(q, i) == [j \in 1..(Len(q) - 1) |-> IF j <= i THEN q[j] ELSE q[j + 1]]
RetainOldest(q, f) == IF Len(q) = Window THEN [q EXCEPT ![Window] = f] ELSE Append(q, f)
BuildPairAsArrived(arriving, partner) == [first |-> arriving, second |-> partner]

\* deque.remove and deque(maxlen=...).append
Without(q, i) == [j \in 1..(Len(q) - 1) |-> IF j < i THEN q[j] ELSE q[j + 1]]

Retain(q, f) == IF Len(q) = Window THEN Append(Tail(q), f) ELSE Append(q, f)

\* The pair is ordered by configured device, whichever frame arrived last.
BuildPair(arriving, partner) ==
    IF arriving.device = First
    THEN [first |-> arriving, second |-> partner]
    ELSE [first |-> partner, second |-> arriving]

Rejected(reason) == [pair |-> <<>>, reason |-> reason]

(***************************************************************************)
(* Offer(q, f) relates the queues and a frame to the queues and the        *)
(* outcome that Pairer.offer leaves: the two early refusals, the pair that *)
(* removes its partner, or the frame retained in its own queue.            *)
(***************************************************************************)
Unauthorized(f) == f.device \notin Devices

TooUncertain(f) == f.uncertainty > UncertaintyLimit

\* Bugs: the partner stays in its queue; only the newest candidate is searched.
PairsKeepingPartner(q, f, i, newq, outcome) ==
    LET other == q[Other(f.device)] IN
    /\ IsBest(other, f, i)
    /\ Skew(other[i], f) <= SkewLimit
    /\ newq = q
    /\ outcome = [pair |-> <<BuildPair(f, other[i])>>, reason |-> "none"]
RetainsUnlessNewestFits(q, f, newq, outcome) ==
    LET other == q[Other(f.device)] IN
    /\ other # <<>> => ~WithinSkew(other[Len(other)], f)
    /\ newq = [q EXCEPT ![f.device] = Retain(q[f.device], f)]
    /\ outcome = Rejected("none")

Pairs(q, f, i, newq, outcome) ==
    LET other == q[Other(f.device)] IN
    /\ IsBest(other, f, i)
    /\ Skew(other[i], f) <= SkewLimit
    /\ newq = [q EXCEPT ![Other(f.device)] = Without(other, i)]
    /\ outcome = [pair |-> <<BuildPair(f, other[i])>>, reason |-> "none"]

Retains(q, f, newq, outcome) ==
    LET other == q[Other(f.device)] IN
    /\ \A i \in DOMAIN other : ~WithinSkew(other[i], f)
    /\ newq = [q EXCEPT ![f.device] = Retain(q[f.device], f)]
    /\ outcome = Rejected(IF CandidatesIn(other, f) = {} THEN "none" ELSE "pair_skew_exceeded")

Offer(q, f, newq, outcome) ==
    \/ Unauthorized(f) /\ newq = q /\ outcome = Rejected("unauthorized_device")
    \/ /\ ~Unauthorized(f) /\ TooUncertain(f)
       /\ newq = q /\ outcome = Rejected("clock_uncertainty_exceeded")
    \/ /\ ~Unauthorized(f) /\ ~TooUncertain(f)
       /\ \/ \E i \in DOMAIN q[Other(f.device)] : Pairs(q, f, i, newq, outcome)
          \/ Retains(q, f, newq, outcome)

=============================================================================
