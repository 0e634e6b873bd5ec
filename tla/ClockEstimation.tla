--------------------------- MODULE ClockEstimation ---------------------------
(***************************************************************************)
(* The offset between a phone's clock and the backend's, estimated from    *)
(* round trips (capture/clock.py).  An offset is kept in half units, the   *)
(* median and the uncertainty in quarter units, so that nothing is rounded.*)
(***************************************************************************)
EXTENDS Medians, SequencesExt

CONSTANTS
    Keep,           \* samples kept, 8 in the code
    MaxDelay,       \* max_delay_s
    MaxJump         \* a larger jump of the offset is another clock, 1 s in the code

ASSUME ClockAssumption == Keep \in Nat \ {0} /\ MaxDelay \in Nat /\ MaxJump \in Nat

(***************************************************************************)
(* A probe leaves at t0, reaches the phone at t1, is answered at t2 by the *)
(* phone's clock and comes back at t3.                                     *)
(***************************************************************************)
Sample(t0, t1, t2, t3) == [offset |-> (t1 - t0) + (t2 - t3), delay |-> (t3 - t0) - (t2 - t1)]

Offsets(samples) == {samples[i].offset : i \in DOMAIN samples}

Median4(samples) == TwiceMedian([i \in DOMAIN samples |-> samples[i].offset])

Uncertainty4(samples) ==
    LET spread == Max(Offsets(samples)) - Min(Offsets(samples))
        best == 2 * Min({samples[i].delay : i \in DOMAIN samples})
    IN  Max({spread, best})

Apart(a, b) == IF a < b THEN b - a ELSE a - b

\* Bug: what the phone's earlier clock taught is kept.
NeverAnotherClock(samples, s) == FALSE

AnotherClock(samples, s) ==
    samples # <<>> /\ Apart(2 * s.offset, Median4(samples)) > 4 * MaxJump

(***************************************************************************)
(* The list is ordered by delay; of equal delays the later sample is       *)
(* behind, and what is beyond the last place is dropped.                   *)
(***************************************************************************)
Insert(samples, s) ==
    LET place == Cardinality({i \in DOMAIN samples : samples[i].delay <= s.delay}) + 1
        longer == InsertAt(samples, place, s)
    IN  SubSeq(longer, 1, Min({Keep, Len(longer)}))

RecordPong(samples, s) ==
    IF s.delay < 0 \/ s.delay > MaxDelay THEN samples
    ELSE Insert(IF AnotherClock(samples, s) THEN <<>> ELSE samples, s)
=============================================================================
