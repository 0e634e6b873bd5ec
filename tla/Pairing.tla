------------------------------ MODULE Pairing -------------------------------
(***************************************************************************)
(* The life of one Pairer: frames of both phones are offered in any order, *)
(* with any clock-normalized time and uncertainty, and a phone's queue is  *)
(* dropped when it reconnects (AppRuntime.register_capture).               *)
(***************************************************************************)
EXTENDS Pairer

CONSTANTS
    Strangers,          \* device ids that are not configured
    Captures,           \* capture ids
    Times,              \* normalized capture times
    Uncertainties,      \* clock uncertainties
    MaxFrames           \* bound: frames offered in a behaviour

ASSUME PairingAssumption ==
    /\ Strangers \cap Devices = {}
    /\ Times \subseteq Nat
    /\ Uncertainties \subseteq Nat
    /\ MaxFrames \in Nat

VARIABLES
    queues,     \* queues[d]: the retained frames of device d, oldest first
    outcome,    \* what the last offer returned
    arrived,    \* number of frames offered so far
    emitted     \* history: the pairs emitted so far

vars == <<queues, outcome, arrived, emitted>>

Frame == [id : Nat, device : Devices \cup Strangers, capture : Captures,
          time : Times, uncertainty : Uncertainties]

Pair == [first : Frame, second : Frame]

Reasons == {"none", "unauthorized_device", "clock_uncertainty_exceeded", "pair_skew_exceeded"}

Init ==
    /\ queues = EmptyQueues
    /\ outcome = Rejected("none")
    /\ arrived = 0
    /\ emitted = {}

OfferFrame(f) ==
    /\ arrived < MaxFrames
    /\ f.id = arrived
    /\ arrived' = arrived + 1
    /\ Offer(queues, f, queues', outcome')
    /\ emitted' = emitted \cup {outcome'.pair[i] : i \in DOMAIN outcome'.pair}

ClearDevice(d) ==
    /\ queues' = [queues EXCEPT ![d] = <<>>]
    /\ UNCHANGED <<outcome, arrived, emitted>>

Next ==
    \/ \E d \in Devices \cup Strangers, c \in Captures, t \in Times, u \in Uncertainties :
         OfferFrame([id |-> arrived, device |-> d, capture |-> c, time |-> t, uncertainty |-> u])
    \/ \E d \in Devices : ClearDevice(d)

Spec == Init /\ [][Next]_vars

-----------------------------------------------------------------------------
Elements(q) == {q[i] : i \in DOMAIN q}

Waiting == UNION {Elements(queues[d]) : d \in Devices}

TypeOK ==
    /\ queues \in [Devices -> Seq(Frame)]
    /\ outcome.pair \in Seq(Pair) /\ Len(outcome.pair) <= 1
    /\ outcome.reason \in Reasons
    /\ arrived \in Nat
    /\ emitted \subseteq Pair

Disciplined(q, d, n) ==
    /\ Len(q) <= Window
    /\ \A i \in DOMAIN q :
         q[i].device = d /\ q[i].uncertainty <= UncertaintyLimit /\ q[i].id < n
    /\ \A i, j \in DOMAIN q : i < j => q[i].id < q[j].id

\* A deque never exceeds its maxlen and only holds admissible frames of its own
\* phone, oldest first.
QueueDiscipline == \A d \in Devices : Disciplined(queues[d], d, arrived)

\* Every pair ever emitted holds one admissible frame of each phone, in the
\* configured order, close enough in time and of the same capture when that is
\* required: neither the order of arrival nor the depth of the queues matters.
PairsSound ==
    \A p \in emitted :
        /\ p.first.device = First /\ p.second.device = Second
        /\ p.first.uncertainty <= UncertaintyLimit /\ p.second.uncertainty <= UncertaintyLimit
        /\ RequireCaptureId => p.first.capture = p.second.capture
        /\ Skew(p.first, p.second) <= SkewLimit

\* "A consumed frame is never reused" (docs/workflows/02-python-backend.md:145):
\* no frame is in two pairs, and no frame of a pair still waits in a queue.
ConsumedOnce ==
    /\ \A p, q \in emitted :
         p # q => {p.first.id, p.second.id} \cap {q.first.id, q.second.id} = {}
    /\ \A p \in emitted : \A f \in Waiting : f.id \notin {p.first.id, p.second.id}

\* A partner is never overlooked: the two queues never hold frames that could
\* form a pair, whatever evictions, disconnects and skewed candidates came before.
NoMatchLeftWaiting ==
    \A f \in Elements(queues[First]), g \in Elements(queues[Second]) : ~WithinSkew(f, g)

\* A waiting frame disappears only into a pair, with its phone's reconnect, or as
\* the oldest of a full queue that its own phone pushes out.
LostOnlyAsOldest ==
    [][\A d \in Devices : \A i \in DOMAIN queues[d] :
         LET f == queues[d][i] IN
         \/ \E j \in DOMAIN queues'[d] : queues'[d][j] = f
         \/ \E p \in emitted' \ emitted : f \in {p.first, p.second}
         \/ queues'[d] = <<>> /\ arrived' = arrived
         \/ i = 1 /\ Len(queues[d]) = Window /\ Len(queues'[d]) = Window]_vars

\* The inductive invariant behind the four above: ids are given out in order of
\* arrival, so a frame of one queue is never a frame of the other or of a later pair.
IdsArrived ==
    /\ \A p \in emitted : p.first.id < arrived /\ p.second.id < arrived
    /\ \A f \in Elements(queues[First]), g \in Elements(queues[Second]) : f.id # g.id

IInv ==
    /\ TypeOK
    /\ QueueDiscipline
    /\ PairsSound
    /\ ConsumedOnce
    /\ NoMatchLeftWaiting
    /\ IdsArrived

Matched == INSTANCE FrameMatching WITH waiting <- Waiting

\* The pairer implements atomic matching: pairs are emitted by one arrival each,
\* out of frames that really waited.
ImplementsMatching == Matched!Spec

=============================================================================
