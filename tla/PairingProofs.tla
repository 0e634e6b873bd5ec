--------------------------- MODULE PairingProofs ----------------------------
(***************************************************************************)
(* Proofs about Pairing: type correctness, the discipline of the queues,   *)
(* soundness of the pairs, and that frames are consumed once and never     *)
(* overlooked, for every window, limit, capture and time.                  *)
(***************************************************************************)
EXTENDS Pairing, SequenceTheorems, TLAPS

-----------------------------------------------------------------------------
(* Facts about the two queue operations. *)

LEMMA WithoutFacts ==
    ASSUME NEW S, NEW q \in Seq(S), NEW i \in DOMAIN q
    PROVE  /\ Without(q, i) \in Seq(S)
           /\ Len(Without(q, i)) = Len(q) - 1
           /\ DOMAIN Without(q, i) = 1..(Len(q) - 1)
           /\ \A j \in 1..(Len(q) - 1) :
                Without(q, i)[j] = IF j < i THEN q[j] ELSE q[j + 1]
<1>1. /\ Len(q) \in Nat
      /\ DOMAIN q = 1..Len(q)
      /\ \A j \in 1..Len(q) : q[j] \in S
  OBVIOUS
<1>2. Len(q) - 1 \in Nat
  BY <1>1
<1>3. \A j \in 1..(Len(q) - 1) : (IF j < i THEN q[j] ELSE q[j + 1]) \in S
  BY <1>1
<1>4. Without(q, i) \in [1..(Len(q) - 1) -> S]
  BY <1>3 DEF Without
<1>5. Without(q, i) \in Seq(S)
  BY <1>2, <1>4, SeqDef
<1>6. DOMAIN Without(q, i) = 1..(Len(q) - 1)
  BY DEF Without
<1>7. Len(Without(q, i)) = Len(q) - 1
  BY <1>2, <1>5, <1>6
<1>8. QED
  BY <1>5, <1>6, <1>7 DEF Without

LEMMA RetainFullFacts ==
    ASSUME NEW q \in Seq(Frame), NEW f \in Frame, Len(q) = Window
    PROVE  /\ Retain(q, f) \in Seq(Frame)
           /\ DOMAIN q = 1..Window
           /\ DOMAIN Retain(q, f) = 1..Window
           /\ Len(Retain(q, f)) = Window
           /\ Retain(q, f)[Window] = f
           /\ \A j \in 1..(Window - 1) : Retain(q, f)[j] = q[j + 1]
<1>1. Window \in Nat \ {0}
  BY PairerAssumption
<1>2. /\ Tail(q) \in Seq(Frame) /\ Len(Tail(q)) = Len(q) - 1
      /\ \A j \in 1..(Len(q) - 1) : Tail(q)[j] = q[j + 1]
  BY <1>1
<1>3. Retain(q, f) = Append(Tail(q), f)
  BY DEF Retain
<1>4. QED
  BY <1>1, <1>2, <1>3

LEMMA RetainRoomFacts ==
    ASSUME NEW q \in Seq(Frame), NEW f \in Frame, Len(q) # Window
    PROVE  /\ Retain(q, f) \in Seq(Frame)
           /\ DOMAIN q = 1..Len(q)
           /\ DOMAIN Retain(q, f) = 1..(Len(q) + 1)
           /\ Len(Retain(q, f)) = Len(q) + 1
           /\ Retain(q, f)[Len(q) + 1] = f
           /\ \A j \in 1..Len(q) : Retain(q, f)[j] = q[j]
<1>1. Retain(q, f) = Append(q, f)
  BY DEF Retain
<1>2. QED
  BY <1>1

(* A partner leaves no trace in a disciplined queue. *)
LEMMA WithoutDisciplined ==
    ASSUME NEW q \in Seq(Frame), NEW i \in DOMAIN q, NEW d, NEW n \in Nat,
           Disciplined(q, d, n)
    PROVE  /\ Disciplined(Without(q, i), d, n)
           /\ Elements(Without(q, i)) \subseteq Elements(q)
           /\ \A f \in Elements(Without(q, i)) : f.id # q[i].id
<1>1. /\ Without(q, i) \in Seq(Frame)
      /\ Len(Without(q, i)) = Len(q) - 1
      /\ DOMAIN Without(q, i) = 1..(Len(q) - 1)
      /\ \A j \in 1..(Len(q) - 1) : Without(q, i)[j] = IF j < i THEN q[j] ELSE q[j + 1]
  BY WithoutFacts
<1>2. Len(q) \in Nat /\ DOMAIN q = 1..Len(q) /\ Window \in Nat
  BY PairerAssumption
<1>3. \A j \in DOMAIN q : q[j].id \in Nat
  <2>1. \A j \in DOMAIN q : q[j] \in Frame
    BY <1>2
  <2>2. QED
    BY <2>1 DEF Frame
<1>4. \A j \in DOMAIN Without(q, i) :
        \E k \in DOMAIN q : Without(q, i)[j] = q[k] /\ k # i /\ (k = j \/ k = j + 1)
  <2> SUFFICES ASSUME NEW j \in DOMAIN Without(q, i)
               PROVE  \E k \in DOMAIN q :
                         Without(q, i)[j] = q[k] /\ k # i /\ (k = j \/ k = j + 1)
    OBVIOUS
  <2>0. j \in 1..(Len(q) - 1) /\ i \in 1..Len(q)
    BY <1>1, <1>2
  <2>1. CASE j < i
    <3>1. j \in DOMAIN q /\ Without(q, i)[j] = q[j] /\ j # i
      BY <1>1, <1>2, <2>0, <2>1
    <3>2. QED
      BY <3>1
  <2>2. CASE ~(j < i)
    <3>1. j + 1 \in DOMAIN q /\ Without(q, i)[j] = q[j + 1] /\ j + 1 # i
      BY <1>1, <1>2, <2>0, <2>2
    <3>2. QED
      BY <3>1
  <2>3. QED
    BY <2>1, <2>2
<1>5. Elements(Without(q, i)) \subseteq Elements(q)
  BY <1>4 DEF Elements
<1>6. \A f \in Elements(Without(q, i)) : f.id # q[i].id
  <2>1. \A k \in DOMAIN q : k # i => q[k].id # q[i].id
    BY <1>2, <1>3 DEF Disciplined
  <2>2. QED
    BY <1>4, <2>1 DEF Elements
<1>7. \A j, k \in DOMAIN Without(q, i) :
        j < k => Without(q, i)[j].id < Without(q, i)[k].id
  <2> SUFFICES ASSUME NEW j \in 1..(Len(q) - 1), NEW k \in 1..(Len(q) - 1), j < k
               PROVE  Without(q, i)[j].id < Without(q, i)[k].id
    BY <1>1
  <2>1. PICK a \in DOMAIN q : Without(q, i)[j] = q[a] /\ a = IF j < i THEN j ELSE j + 1
    BY <1>1, <1>2
  <2>2. PICK b \in DOMAIN q : Without(q, i)[k] = q[b] /\ b = IF k < i THEN k ELSE k + 1
    BY <1>1, <1>2
  <2>3. a < b
    BY <1>2, <2>1, <2>2
  <2>4. QED
    BY <2>1, <2>2, <2>3 DEF Disciplined
<1>8. QED
  BY <1>1, <1>2, <1>4, <1>5, <1>6, <1>7 DEF Disciplined

(* A frame that arrives now may be retained; all others were there before. *)
LEMMA RetainDisciplined ==
    ASSUME NEW q \in Seq(Frame), NEW f \in Frame, Disciplined(q, f.device, f.id),
           f.uncertainty <= UncertaintyLimit
    PROVE  /\ Retain(q, f) \in Seq(Frame)
           /\ Disciplined(Retain(q, f), f.device, f.id + 1)
           /\ Elements(Retain(q, f)) \subseteq Elements(q) \cup {f}
<1> DEFINE r == Retain(q, f)
<1>1. f.id \in Nat /\ Window \in Nat \ {0} /\ Len(q) \in Nat /\ Len(q) <= Window
  BY PairerAssumption DEF Frame, Disciplined
<1>2. \A i \in DOMAIN q :
        q[i].id \in Nat /\ q[i].device = f.device /\ q[i].uncertainty <= UncertaintyLimit
        /\ q[i].id < f.id
  <2>1. \A i \in DOMAIN q : q[i] \in Frame
    OBVIOUS
  <2>2. QED
    BY <2>1 DEF Disciplined, Frame
<1>3. \A i, j \in DOMAIN q : i < j => q[i].id < q[j].id
  BY DEF Disciplined
<1>4. CASE Len(q) = Window
  <2>1. /\ r \in Seq(Frame) /\ Len(r) = Window
        /\ DOMAIN q = 1..Window /\ DOMAIN r = 1..Window
        /\ r[Window] = f
        /\ \A j \in 1..(Window - 1) : r[j] = q[j + 1]
    BY <1>4, RetainFullFacts
  <2> HIDE DEF r
  <2>2. \A j \in 1..Window : r[j] = f \/ \E i \in DOMAIN q : r[j] = q[i]
    <3> SUFFICES ASSUME NEW j \in 1..Window, j # Window
                 PROVE  \E i \in DOMAIN q : r[j] = q[i]
      BY <2>1
    <3>1. j + 1 \in DOMAIN q /\ r[j] = q[j + 1]
      BY <1>1, <2>1
    <3>2. QED
      BY <3>1
  <2>3. \A i, j \in DOMAIN r : i < j => r[i].id < r[j].id
    <3> SUFFICES ASSUME NEW i \in 1..Window, NEW j \in 1..Window, i < j
                 PROVE  r[i].id < r[j].id
      BY <2>1
    <3>1. i + 1 \in DOMAIN q /\ r[i] = q[i + 1]
      BY <1>1, <2>1
    <3>2. CASE j = Window
      BY <1>2, <2>1, <3>1, <3>2
    <3>3. CASE j # Window
      <4>1. j + 1 \in DOMAIN q /\ r[j] = q[j + 1] /\ i + 1 < j + 1
        BY <1>1, <2>1, <3>3
      <4>2. QED
        BY <1>3, <3>1, <4>1
    <3>4. QED
      BY <3>2, <3>3
  <2>4. Elements(r) \subseteq Elements(q) \cup {f}
    BY <2>1, <2>2 DEF Elements
  <2>5. \A j \in DOMAIN r :
          r[j].device = f.device /\ r[j].uncertainty <= UncertaintyLimit /\ r[j].id < f.id + 1
    BY <1>1, <1>2, <2>1, <2>2
  <2>6. Disciplined(r, f.device, f.id + 1)
    BY <1>1, <2>1, <2>3, <2>5 DEF Disciplined
  <2>7. QED
    BY <2>1, <2>4, <2>6 DEF r
<1>5. CASE Len(q) # Window
  <2>1. /\ r \in Seq(Frame) /\ Len(r) = Len(q) + 1
        /\ DOMAIN q = 1..Len(q) /\ DOMAIN r = 1..(Len(q) + 1)
        /\ r[Len(q) + 1] = f
        /\ \A j \in 1..Len(q) : r[j] = q[j]
    BY <1>5, RetainRoomFacts
  <2> HIDE DEF r
  <2>2. \A j \in DOMAIN r : r[j] = f \/ \E i \in DOMAIN q : r[j] = q[i]
    <3> SUFFICES ASSUME NEW j \in 1..(Len(q) + 1), j # Len(q) + 1
                 PROVE  \E i \in DOMAIN q : r[j] = q[i]
      BY <2>1
    <3>1. j \in DOMAIN q /\ r[j] = q[j]
      BY <1>1, <2>1
    <3>2. QED
      BY <3>1
  <2>3. \A i, j \in DOMAIN r : i < j => r[i].id < r[j].id
    BY <1>1, <1>2, <1>3, <2>1
  <2>4. Elements(r) \subseteq Elements(q) \cup {f}
    BY <2>2 DEF Elements
  <2>5. \A j \in DOMAIN r :
          r[j].device = f.device /\ r[j].uncertainty <= UncertaintyLimit /\ r[j].id < f.id + 1
    BY <1>1, <1>2, <2>2
  <2>6. Len(r) <= Window
    <3>1. Len(q) + 1 <= Window
      BY <1>1, <1>5
    <3>2. Len(r) = Len(q) + 1
      BY <2>1
    <3>3. QED
      BY <3>1, <3>2
  <2>7. Disciplined(r, f.device, f.id + 1)
    BY <2>3, <2>5, <2>6 DEF Disciplined
  <2>8. QED
    BY <2>1, <2>4, <2>7 DEF r
<1>6. QED
  BY <1>4, <1>5
-----------------------------------------------------------------------------
(* The three ways an offer ends, and the reconnect, preserve the invariant. *)

LEMMA DevicesFacts ==
    ASSUME NEW d \in Devices
    PROVE  /\ Other(d) \in Devices /\ Other(d) # d /\ Other(Other(d)) = d
           /\ Devices = {d, Other(d)}
           /\ First \in Devices /\ Second \in Devices /\ First # Second
BY PairerAssumption DEF Devices, Other

LEMMA DisciplinedLater ==
    ASSUME NEW q \in Seq(Frame), NEW d, NEW n \in Nat, Disciplined(q, d, n)
    PROVE  Disciplined(q, d, n + 1)
<1>1. \A i \in DOMAIN q : q[i] \in Frame
  OBVIOUS
<1>2. \A i \in DOMAIN q : q[i].id \in Nat /\ q[i].id < n + 1
  BY <1>1 DEF Disciplined, Frame
<1>3. QED
  BY <1>2 DEF Disciplined

LEMMA RefusePreserves ==
    ASSUME IInv, queues' = queues, emitted' = emitted, arrived' = arrived + 1,
           NEW r \in Reasons, outcome' = Rejected(r)
    PROVE  IInv'
<1>1. TypeOK'
  BY DEF IInv, TypeOK, Rejected
<1>2. QueueDiscipline'
  BY DisciplinedLater DEF IInv, TypeOK, QueueDiscipline
<1>3. PairsSound' /\ ConsumedOnce' /\ NoMatchLeftWaiting'
  BY DEF IInv, PairsSound, ConsumedOnce, NoMatchLeftWaiting, Waiting
<1>4. IdsArrived'
  <2>1. \A p \in emitted : p.first.id \in Nat /\ p.second.id \in Nat
    BY DEF IInv, TypeOK, Pair, Frame
  <2>2. arrived \in Nat
    BY DEF IInv, TypeOK
  <2>3. QED
    BY <2>1, <2>2 DEF IInv, IdsArrived
<1>5. QED
  BY <1>1, <1>2, <1>3, <1>4 DEF IInv

LEMMA ClearPreserves ==
    ASSUME IInv, NEW d \in Devices, ClearDevice(d)
    PROVE  IInv'
<1>1. /\ queues' \in [Devices -> Seq(Frame)]
      /\ queues'[d] = <<>> /\ \A e \in Devices : e # d => queues'[e] = queues[e]
      /\ outcome' = outcome /\ arrived' = arrived /\ emitted' = emitted
  BY DEF ClearDevice, IInv, TypeOK
<1>2. \A e \in Devices : Elements(queues'[e]) \subseteq Elements(queues[e])
  BY <1>1 DEF Elements
<1>3. TypeOK'
  BY <1>1 DEF IInv, TypeOK
<1>4. QueueDiscipline'
  <2>1. Disciplined(<<>>, d, arrived)
    BY PairerAssumption DEF Disciplined
  <2>2. QED
    BY <1>1, <2>1 DEF IInv, QueueDiscipline
<1>5. PairsSound'
  BY <1>1 DEF IInv, PairsSound
<1>6. ConsumedOnce'
  BY <1>1, <1>2 DEF IInv, ConsumedOnce, Waiting
<1>7. NoMatchLeftWaiting'
  BY <1>2, DevicesFacts DEF IInv, NoMatchLeftWaiting
<1>8. IdsArrived'
  BY <1>1, <1>2, DevicesFacts DEF IInv, IdsArrived
<1>9. QED
  BY <1>3, <1>4, <1>5, <1>6, <1>7, <1>8 DEF IInv

LEMMA SkewSymmetric ==
    ASSUME NEW f \in Frame, NEW g \in Frame
    PROVE  Skew(f, g) = Skew(g, f) /\ (WithinSkew(f, g) <=> WithinSkew(g, f))
<1>1. f.time \in Nat /\ g.time \in Nat
  BY PairingAssumption DEF Frame
<1>2. Skew(f, g) = Skew(g, f)
  BY <1>1 DEF Skew
<1>3. QED
  BY <1>2 DEF WithinSkew, Comparable

LEMMA PairPreserves ==
    ASSUME IInv, NEW f \in Frame, f.id = arrived, arrived' = arrived + 1,
           f.device \in Devices, f.uncertainty <= UncertaintyLimit,
           NEW i \in DOMAIN queues[Other(f.device)],
           Pairs(queues, f, i, queues', outcome'),
           emitted' = emitted \cup {outcome'.pair[k] : k \in DOMAIN outcome'.pair}
    PROVE  IInv'
<1> DEFINE d == f.device
           o == Other(f.device)
           g == queues[o][i]
           p == BuildPair(f, g)
<1>1. /\ o \in Devices /\ o # d /\ Devices = {d, o} /\ d \in Devices
      /\ First \in Devices /\ Second \in Devices /\ First # Second
  BY DevicesFacts
<1>2. /\ queues \in [Devices -> Seq(Frame)]
      /\ arrived \in Nat /\ emitted \subseteq Pair
      /\ \A e \in Devices : Disciplined(queues[e], e, arrived)
  BY DEF IInv, TypeOK, QueueDiscipline
<1>3. queues[o] \in Seq(Frame) /\ queues[d] \in Seq(Frame) /\ i \in DOMAIN queues[o]
  BY <1>1, <1>2
<1>4. /\ g \in Frame /\ g \in Elements(queues[o])
      /\ g.device = o /\ g.uncertainty <= UncertaintyLimit /\ g.id < arrived
  BY <1>1, <1>2, <1>3 DEF Disciplined, Elements
<1>5. /\ queues' = [queues EXCEPT ![o] = Without(queues[o], i)]
      /\ outcome' = [pair |-> <<p>>, reason |-> "none"]
      /\ Skew(g, f) <= SkewLimit /\ Comparable(g, f)
  BY DEF Pairs, IsBest, CandidatesIn
<1>6. emitted' = emitted \cup {p}
  BY <1>5
<1>7. p \in Pair /\ {p.first, p.second} = {f, g} /\ p.first.device = First /\ p.second.device = Second
  <2>1. CASE d = First
    BY <1>1, <1>4, <2>1 DEF BuildPair, Pair, Other
  <2>2. CASE d # First
    <3>1. d = Second /\ o = First
      BY <1>1, <2>2 DEF Devices, Other
    <3>2. QED
      BY <1>4, <2>2, <3>1 DEF BuildPair, Pair
  <2>3. QED
    BY <2>1, <2>2
<1> HIDE DEF p, g, o, d
<1>8. /\ Without(queues[o], i) \in Seq(Frame)
      /\ Disciplined(Without(queues[o], i), o, arrived)
      /\ Elements(Without(queues[o], i)) \subseteq Elements(queues[o])
      /\ \A h \in Elements(Without(queues[o], i)) : h.id # g.id
  BY <1>1, <1>2, <1>3, WithoutFacts, WithoutDisciplined DEF g
<1>9. /\ queues' \in [Devices -> Seq(Frame)]
      /\ queues'[o] = Without(queues[o], i) /\ queues'[d] = queues[d]
      /\ \A e \in Devices : Elements(queues'[e]) \subseteq Elements(queues[e])
  BY <1>1, <1>2, <1>5, <1>8
<1>10. TypeOK'
  <2>1. outcome'.pair \in Seq(Pair) /\ Len(outcome'.pair) <= 1 /\ outcome'.reason \in Reasons
    BY <1>5, <1>7 DEF Reasons
  <2>2. QED
    BY <1>2, <1>6, <1>7, <1>9, <2>1 DEF TypeOK
<1>11. QueueDiscipline'
  <2>1. Disciplined(queues'[o], o, arrived + 1) /\ Disciplined(queues'[d], d, arrived + 1)
    BY <1>1, <1>2, <1>3, <1>8, <1>9, DisciplinedLater
  <2>2. QED
    BY <1>1, <2>1 DEF QueueDiscipline
<1>12. PairsSound'
  <2>1. /\ p.first.uncertainty <= UncertaintyLimit /\ p.second.uncertainty <= UncertaintyLimit
        /\ RequireCaptureId => p.first.capture = p.second.capture
        /\ Skew(p.first, p.second) <= SkewLimit
    BY <1>4, <1>5, <1>7, SkewSymmetric DEF Comparable
  <2>2. QED
    BY <1>6, <1>7, <2>1 DEF IInv, PairsSound
<1>13. ConsumedOnce'
  <2>1. \A h \in Waiting' : h.id # f.id /\ h.id # g.id
    <3>1. \A h \in Elements(queues'[o]) : h.id # f.id /\ h.id # g.id
      <4>1. \A h \in Elements(queues[o]) : h \in Frame /\ h.id < arrived
        BY <1>1, <1>2, <1>3 DEF Elements, Disciplined
      <4>2. QED
        BY <1>2, <1>8, <1>9, <4>1 DEF Frame
    <3>2. \A h \in Elements(queues'[d]) : h.id # f.id /\ h.id # g.id
      <4>1. \A h \in Elements(queues[d]) : h \in Frame /\ h.id < arrived
        BY <1>1, <1>2, <1>3 DEF Elements, Disciplined
      <4>2. \A h \in Elements(queues[d]) : h.id # g.id
        BY <1>1, <1>4 DEF IInv, IdsArrived, Devices
      <4>3. QED
        BY <1>2, <1>9, <4>1, <4>2 DEF Frame
    <3>3. QED
      BY <1>1, <3>1, <3>2 DEF Waiting
  <2>2. \A q \in emitted : {p.first.id, p.second.id} \cap {q.first.id, q.second.id} = {}
    <3> SUFFICES ASSUME NEW q \in emitted
                 PROVE  {f.id, g.id} \cap {q.first.id, q.second.id} = {}
      BY <1>7
    <3>1. q.first.id < arrived /\ q.second.id < arrived
          /\ q.first.id \in Nat /\ q.second.id \in Nat
      BY <1>2 DEF IInv, IdsArrived, Pair, Frame
    <3>2. g.id \notin {q.first.id, q.second.id}
      BY <1>1, <1>4 DEF IInv, ConsumedOnce, Waiting
    <3>3. QED
      BY <1>2, <3>1, <3>2
  <2>3. Waiting' \subseteq Waiting
    BY <1>9 DEF Waiting
  <2>4. \A q \in emitted : \A h \in Waiting' : h.id \notin {q.first.id, q.second.id}
    BY <2>3 DEF IInv, ConsumedOnce
  <2>5. \A h \in Waiting' : h.id \notin {p.first.id, p.second.id}
    BY <1>7, <2>1
  <2>6. \A q, r \in emitted :
          q # r => {q.first.id, q.second.id} \cap {r.first.id, r.second.id} = {}
    BY DEF IInv, ConsumedOnce
  <2>7. QED
    BY <1>6, <2>2, <2>4, <2>5, <2>6 DEF ConsumedOnce
<1>14. NoMatchLeftWaiting'
  BY <1>1, <1>9 DEF IInv, NoMatchLeftWaiting
<1>15. IdsArrived'
  <2>1. \A q \in emitted : q.first.id < arrived + 1 /\ q.second.id < arrived + 1
    BY <1>2 DEF IInv, IdsArrived, Pair, Frame
  <2>2. p.first.id < arrived + 1 /\ p.second.id < arrived + 1
    <3>1. \A h \in {f, g} : h.id < arrived + 1
      BY <1>2, <1>4 DEF Frame
    <3>2. p.first \in {f, g} /\ p.second \in {f, g}
      BY <1>7
    <3>3. QED
      BY <3>1, <3>2
  <2>3. QED
    BY <1>1, <1>6, <1>9, <2>1, <2>2 DEF IInv, IdsArrived
<1>16. QED
  BY <1>10, <1>11, <1>12, <1>13, <1>14, <1>15 DEF IInv

LEMMA RetainPreserves ==
    ASSUME IInv, NEW f \in Frame, f.id = arrived, arrived' = arrived + 1,
           f.device \in Devices, f.uncertainty <= UncertaintyLimit,
           Retains(queues, f, queues', outcome'),
           emitted' = emitted \cup {outcome'.pair[k] : k \in DOMAIN outcome'.pair}
    PROVE  IInv'
<1> DEFINE d == f.device
           o == Other(f.device)
<1>1. /\ o \in Devices /\ o # d /\ Devices = {d, o} /\ d \in Devices
      /\ First \in Devices /\ Second \in Devices /\ First # Second
  BY DevicesFacts
<1>2. /\ queues \in [Devices -> Seq(Frame)]
      /\ arrived \in Nat /\ emitted \subseteq Pair
      /\ \A e \in Devices : Disciplined(queues[e], e, arrived)
  BY DEF IInv, TypeOK, QueueDiscipline
<1>3. queues[o] \in Seq(Frame) /\ queues[d] \in Seq(Frame)
  BY <1>1, <1>2
<1>4. /\ queues' = [queues EXCEPT ![d] = Retain(queues[d], f)]
      /\ \A h \in Elements(queues[o]) : ~WithinSkew(h, f)
  BY DEF Retains, Elements
<1>5. \E r \in Reasons : outcome' = Rejected(r)
  BY DEF Retains, Reasons
<1>6. emitted' = emitted
  BY <1>5 DEF Rejected
<1>7. /\ Retain(queues[d], f) \in Seq(Frame)
      /\ Disciplined(Retain(queues[d], f), d, arrived + 1)
      /\ Elements(Retain(queues[d], f)) \subseteq Elements(queues[d]) \cup {f}
  BY <1>1, <1>2, <1>3, RetainDisciplined
<1> HIDE DEF o, d
<1>8. /\ queues' \in [Devices -> Seq(Frame)]
      /\ queues'[d] = Retain(queues[d], f) /\ queues'[o] = queues[o]
      /\ Elements(queues'[d]) \subseteq Elements(queues[d]) \cup {f}
      /\ Elements(queues'[o]) = Elements(queues[o])
  BY <1>1, <1>2, <1>4, <1>7
<1>9. \A e \in Devices : \A h \in Elements(queues[e]) : h \in Frame /\ h.id \in Nat /\ h.id < arrived
  <2> SUFFICES ASSUME NEW e \in Devices, NEW i \in DOMAIN queues[e]
               PROVE  LET h == queues[e][i] IN h \in Frame /\ h.id \in Nat /\ h.id < arrived
    BY DEF Elements
  <2>1. queues[e] \in Seq(Frame)
    BY <1>2
  <2>2. queues[e][i] \in Frame
    BY <2>1
  <2>3. QED
    BY <1>2, <2>2 DEF Disciplined, Frame
<1>10. TypeOK'
  BY <1>2, <1>5, <1>6, <1>8 DEF TypeOK, Rejected
<1>11. QueueDiscipline'
  <2>1. Disciplined(queues'[o], o, arrived + 1) /\ Disciplined(queues'[d], d, arrived + 1)
    BY <1>1, <1>2, <1>3, <1>7, <1>8, DisciplinedLater
  <2>2. QED
    BY <1>1, <2>1 DEF QueueDiscipline
<1>12. PairsSound'
  BY <1>6 DEF IInv, PairsSound
<1>13. ConsumedOnce'
  <2>1. Waiting' \subseteq Waiting \cup {f}
    BY <1>1, <1>8 DEF Waiting
  <2>2. \A q \in emitted : f.id \notin {q.first.id, q.second.id}
    BY <1>2 DEF IInv, IdsArrived, Pair, Frame
  <2>3. QED
    BY <1>6, <2>1, <2>2 DEF IInv, ConsumedOnce
<1>14. NoMatchLeftWaiting'
  <2>1. \A h \in Elements(queues[o]) : ~WithinSkew(h, f) /\ ~WithinSkew(f, h)
    BY <1>1, <1>4, <1>9, SkewSymmetric DEF d, o
  <2>2. CASE d = First /\ o = Second
    BY <1>8, <2>1, <2>2 DEF IInv, NoMatchLeftWaiting
  <2>3. CASE d = Second /\ o = First
    BY <1>8, <2>1, <2>3 DEF IInv, NoMatchLeftWaiting
  <2>4. QED
    BY <1>1, <2>2, <2>3 DEF Devices
<1>15. IdsArrived'
  <2>1. \A q \in emitted : q.first.id < arrived + 1 /\ q.second.id < arrived + 1
    BY <1>2 DEF IInv, IdsArrived, Pair, Frame
  <2>2. \A h \in Elements(queues'[d]), g \in Elements(queues'[o]) : h.id # g.id
    <3>1. \A h \in Elements(queues[d]), g \in Elements(queues[o]) : h.id # g.id
      BY <1>1 DEF IInv, IdsArrived, Devices
    <3>2. \A g \in Elements(queues[o]) : f.id # g.id
      BY <1>1, <1>2, <1>9
    <3>3. QED
      BY <1>8, <3>1, <3>2
  <2>3. QED
    BY <1>1, <1>6, <2>1, <2>2 DEF Devices, IdsArrived
<1>16. QED
  BY <1>10, <1>11, <1>12, <1>13, <1>14, <1>15 DEF IInv

-----------------------------------------------------------------------------
(* The invariant, and what follows from it. *)

LEMMA InitIInv == Init => IInv
<1> SUFFICES ASSUME Init PROVE IInv
  OBVIOUS
<1>1. /\ queues = [d \in Devices |-> <<>>] /\ arrived = 0 /\ emitted = {}
      /\ outcome = Rejected("none")
  BY DEF Init, EmptyQueues
<1>2. TypeOK
  BY <1>1 DEF TypeOK, Rejected, Reasons
<1>3. QueueDiscipline
  BY <1>1, PairerAssumption DEF QueueDiscipline, Disciplined
<1>4. PairsSound /\ ConsumedOnce
  BY <1>1 DEF PairsSound, ConsumedOnce
<1>5. First \in Devices /\ Second \in Devices
  BY DEF Devices
<1>6. NoMatchLeftWaiting /\ IdsArrived
  BY <1>1, <1>5 DEF NoMatchLeftWaiting, IdsArrived, Elements
<1>7. QED
  BY <1>2, <1>3, <1>4, <1>6 DEF IInv

LEMMA OfferPreserves ==
    ASSUME IInv, NEW f \in Frame, OfferFrame(f)
    PROVE  IInv'
<1>1. /\ f.id = arrived /\ arrived' = arrived + 1
      /\ emitted' = emitted \cup {outcome'.pair[i] : i \in DOMAIN outcome'.pair}
      /\ Offer(queues, f, queues', outcome')
  BY DEF OfferFrame
<1>2. f.uncertainty \in Nat /\ UncertaintyLimit \in Nat
  BY PairerAssumption, PairingAssumption DEF Frame
<1>3. CASE \E r \in Reasons : queues' = queues /\ outcome' = Rejected(r)
  <2>1. PICK r \in Reasons : queues' = queues /\ outcome' = Rejected(r)
    BY <1>3
  <2>2. emitted' = emitted
    BY <1>1, <2>1 DEF Rejected
  <2>3. QED
    BY <1>1, <2>1, <2>2, RefusePreserves
<1>4. CASE f.device \in Devices /\ f.uncertainty <= UncertaintyLimit
           /\ \E i \in DOMAIN queues[Other(f.device)] : Pairs(queues, f, i, queues', outcome')
  BY <1>1, <1>4, PairPreserves
<1>5. CASE f.device \in Devices /\ f.uncertainty <= UncertaintyLimit
           /\ Retains(queues, f, queues', outcome')
  BY <1>1, <1>5, RetainPreserves
<1>6. QED
  BY <1>1, <1>2, <1>3, <1>4, <1>5 DEF Offer, Unauthorized, TooUncertain, Reasons

(* Whatever frames the phones send and however often they reconnect, the     *)
(* inductive invariant of the pairer holds.                                  *)
THEOREM Invariance == Spec => []IInv
<1>1. IInv /\ [Next]_vars => IInv'
  <2> SUFFICES ASSUME IInv, [Next]_vars PROVE IInv'
    OBVIOUS
  <2>1. ASSUME NEW d \in Devices \cup Strangers, NEW c \in Captures, NEW t \in Times,
               NEW u \in Uncertainties,
               OfferFrame([id |-> arrived, device |-> d, capture |-> c, time |-> t,
                           uncertainty |-> u])
        PROVE  IInv'
    <3>1. [id |-> arrived, device |-> d, capture |-> c, time |-> t, uncertainty |-> u] \in Frame
      BY DEF IInv, TypeOK, Frame
    <3>2. QED
      BY <2>1, <3>1, OfferPreserves
  <2>2. ASSUME NEW d \in Devices, ClearDevice(d)
        PROVE  IInv'
    BY <2>2, ClearPreserves
  <2>3. CASE UNCHANGED vars
    BY <2>3 DEF vars, IInv, TypeOK, QueueDiscipline, PairsSound, ConsumedOnce,
                NoMatchLeftWaiting, IdsArrived, Waiting
  <2>4. QED
    BY <2>1, <2>2, <2>3 DEF Next
<1>2. QED
  BY <1>1, InitIInv, PTL DEF Spec

(* Every reachable state of the pairer is well typed and every queue keeps   *)
(* its bound and its order of arrival (the deques of Pairer).                *)
THEOREM TypeCorrect == Spec => [](TypeOK /\ QueueDiscipline)
<1>1. IInv => TypeOK /\ QueueDiscipline
  BY DEF IInv
<1>2. QED
  BY <1>1, Invariance, PTL

(* A frame that Pairer.offer consumed is never in a second pair and never    *)
(* found in a queue again.                                                   *)
THEOREM FramesConsumedOnce == Spec => []ConsumedOnce
<1>1. IInv => ConsumedOnce
  BY DEF IInv
<1>2. QED
  BY <1>1, Invariance, PTL

(* Every pair Pairer.offer returns joins one admissible frame of each phone, *)
(* of the same capture when required, within the skew limit.                 *)
THEOREM PairsAlwaysSound == Spec => []PairsSound
<1>1. IInv => PairsSound
  BY DEF IInv
<1>2. QED
  BY <1>1, Invariance, PTL

(* Two frames that could form a pair never wait in the queues of Pairer.     *)
THEOREM NoMatchOverlooked == Spec => []NoMatchLeftWaiting
<1>1. IInv => NoMatchLeftWaiting
  BY DEF IInv
<1>2. QED
  BY <1>1, Invariance, PTL

-----------------------------------------------------------------------------
(* The refinement of atomic matching. *)

LEMMA InitMatched == Init => Matched!Init
BY DEF Init, Matched!Init, EmptyQueues, Waiting, Elements

LEMMA StepMatched == IInv /\ IInv' /\ [Next]_vars => [Matched!Next]_(Matched!vars)
<1> SUFFICES ASSUME IInv, IInv', [Next]_vars PROVE [Matched!Next]_(Matched!vars)
  OBVIOUS
<1>1. ASSUME NEW f \in Frame, OfferFrame(f)
      PROVE  Matched!Wait \/ Matched!Emit
  <2>1. /\ f.id = arrived /\ arrived' = arrived + 1
        /\ emitted' = emitted \cup {outcome'.pair[i] : i \in DOMAIN outcome'.pair}
        /\ Offer(queues, f, queues', outcome')
    BY <1>1 DEF OfferFrame
  <2>2. queues \in [Devices -> Seq(Frame)]
    BY DEF IInv, TypeOK
  <2>3. CASE \E r \in Reasons : queues' = queues /\ outcome' = Rejected(r)
    BY <2>1, <2>3 DEF Rejected, Waiting, Matched!Wait
  <2>4. CASE Retains(queues, f, queues', outcome') /\ f.device \in Devices
             /\ f.uncertainty <= UncertaintyLimit
    <3>1. emitted' = emitted
      BY <2>1, <2>4 DEF Retains, Rejected
    <3>2. Elements(Retain(queues[f.device], f)) \subseteq Elements(queues[f.device]) \cup {f}
      <4>1. Disciplined(queues[f.device], f.device, f.id) /\ queues[f.device] \in Seq(Frame)
        BY <2>1, <2>2, <2>4 DEF IInv, QueueDiscipline
      <4>2. QED
        BY <2>4, <4>1, RetainDisciplined
    <3>3. queues' = [queues EXCEPT ![f.device] = Retain(queues[f.device], f)]
      BY <2>4 DEF Retains
    <3>4. \A e \in Devices : Elements(queues'[e]) \subseteq Elements(queues[e]) \cup {f}
      BY <2>2, <3>2, <3>3
    <3>5. Waiting' \subseteq Waiting \cup {f}
      BY <3>4 DEF Waiting
    <3>6. QED
      BY <2>1, <3>1, <3>5 DEF Matched!Wait
  <2>5. CASE f.device \in Devices /\ f.uncertainty <= UncertaintyLimit
             /\ \E i \in DOMAIN queues[Other(f.device)] : Pairs(queues, f, i, queues', outcome')
    <3>1. PICK i \in DOMAIN queues[Other(f.device)] : Pairs(queues, f, i, queues', outcome')
      BY <2>5
    <3> DEFINE o == Other(f.device)
               g == queues[o][i]
               p == BuildPair(f, g)
    <3>2. /\ queues' = [queues EXCEPT ![o] = Without(queues[o], i)]
          /\ outcome' = [pair |-> <<p>>, reason |-> "none"]
      BY <3>1 DEF Pairs
    <3>3. emitted' = emitted \cup {p}
      BY <2>1, <3>2
    <3>4. o \in Devices /\ queues[o] \in Seq(Frame) /\ g \in Elements(queues[o])
      BY <2>2, <2>5, DevicesFacts DEF Elements
    <3>5. g \in Waiting /\ g \in Frame
      BY <3>4, ElementOfSeq DEF Waiting
    <3>6. (p.first = f /\ p.second = g) \/ (p.first = g /\ p.second = f)
      BY DEF BuildPair
    <3> HIDE DEF p
    <3>7. p \in emitted' /\ p \in Pair
      BY <3>3 DEF IInv, TypeOK
    <3>8. Matched!Matching(p)
      <4>1. p.first.time \in Nat /\ p.second.time \in Nat /\ SkewLimit \in Nat
        BY <3>7, PairingAssumption, PairerAssumption DEF Pair, Frame
      <4>2. Skew(p.first, p.second) <= SkewLimit
        BY <3>7 DEF IInv, PairsSound
      <4>3. Matched!Close(p.first, p.second)
        BY <4>1, <4>2 DEF Skew, Matched!Close
      <4>4. QED
        BY <3>7, <4>3 DEF IInv, PairsSound, Matched!Matching
    <3>9. {p.first, p.second} \cap Waiting' = {}
      BY <3>7 DEF IInv, ConsumedOnce
    <3>10. Waiting' \subseteq Waiting
      <4>1. Disciplined(queues[o], o, arrived) /\ arrived \in Nat
        BY <3>4 DEF IInv, TypeOK, QueueDiscipline
      <4>2. Elements(Without(queues[o], i)) \subseteq Elements(queues[o])
        BY <3>1, <3>4, <4>1, WithoutDisciplined
      <4>3. \A e \in Devices : Elements(queues'[e]) \subseteq Elements(queues[e])
        BY <2>2, <3>2, <4>2
      <4>4. QED
        BY <4>3 DEF Waiting
    <3>11. \/ p.first.id = arrived /\ p.second \in Waiting
           \/ p.second.id = arrived /\ p.first \in Waiting
      BY <2>1, <3>5, <3>6
    <3>12. QED
      BY <2>1, <3>3, <3>7, <3>8, <3>9, <3>10, <3>11 DEF Matched!Emit
  <2>6. f.uncertainty \in Nat /\ UncertaintyLimit \in Nat
    BY PairerAssumption, PairingAssumption DEF Frame
  <2>7. QED
    BY <2>1, <2>3, <2>4, <2>5, <2>6 DEF Offer, Unauthorized, TooUncertain, Reasons
<1>2. ASSUME NEW d \in Devices, ClearDevice(d)
      PROVE  Matched!Lose
  <2>1. queues \in [Devices -> Seq(Frame)]
    BY DEF IInv, TypeOK
  <2>2. \A e \in Devices : Elements(queues'[e]) \subseteq Elements(queues[e])
    BY <1>2, <2>1 DEF ClearDevice, Elements
  <2>3. QED
    BY <1>2, <2>2 DEF ClearDevice, Waiting, Matched!Lose
<1>3. CASE UNCHANGED vars
  BY <1>3 DEF vars, Matched!vars, Waiting
<1>4. CASE Next
  <2>1. ASSUME NEW d \in Devices \cup Strangers, NEW c \in Captures, NEW t \in Times,
               NEW u \in Uncertainties,
               OfferFrame([id |-> arrived, device |-> d, capture |-> c, time |-> t,
                           uncertainty |-> u])
        PROVE  Matched!Next
    <3>1. [id |-> arrived, device |-> d, capture |-> c, time |-> t, uncertainty |-> u] \in Frame
      BY DEF IInv, TypeOK, Frame
    <3>2. QED
      BY <2>1, <3>1, <1>1 DEF Matched!Next
  <2>2. QED
    BY <1>2, <1>4, <2>1 DEF Next, Matched!Next
<1>5. QED
  BY <1>3, <1>4

(* Pairer implements atomic matching: every pair leaves with one arrival and *)
(* out of frames that really waited (capture/pairing.py, Pairer.offer).      *)
THEOREM Refinement == Spec => ImplementsMatching
<1>1. QED
  BY InitMatched, StepMatched, Invariance, PTL DEF Spec, ImplementsMatching, Matched!Spec

-----------------------------------------------------------------------------
(* What becomes of a waiting frame. *)

Accounted(d, i) ==
    LET f == queues[d][i] IN
    \/ \E j \in DOMAIN queues'[d] : queues'[d][j] = f
    \/ \E p \in emitted' \ emitted : f \in {p.first, p.second}
    \/ queues'[d] = <<>> /\ arrived' = arrived
    \/ i = 1 /\ Len(queues[d]) = Window /\ Len(queues'[d]) = Window

LEMMA RetainAccounts ==
    ASSUME IInv, NEW f \in Frame, f.device \in Devices, Retains(queues, f, queues', outcome'),
           NEW d \in Devices, NEW i \in DOMAIN queues[d]
    PROVE  Accounted(d, i)
<1>1. /\ queues \in [Devices -> Seq(Frame)] /\ queues[d] \in Seq(Frame)
      /\ Window \in Nat \ {0}
  BY PairerAssumption DEF IInv, TypeOK
<1>2. queues' = [queues EXCEPT ![f.device] = Retain(queues[f.device], f)]
  BY DEF Retains
<1>3. CASE d # f.device
  <2>1. queues'[d] = queues[d]
    BY <1>1, <1>2, <1>3
  <2> QED BY <2>1 DEF Accounted
<1>4. CASE d = f.device /\ Len(queues[d]) # Window
  <2>1. queues'[d] = Retain(queues[d], f)
    BY <1>1, <1>2, <1>4
  <2>2. /\ DOMAIN queues[d] = 1..Len(queues[d])
        /\ DOMAIN Retain(queues[d], f) = 1..(Len(queues[d]) + 1)
        /\ \A j \in 1..Len(queues[d]) : Retain(queues[d], f)[j] = queues[d][j]
    BY <1>1, <1>4, RetainRoomFacts
  <2>3. i \in DOMAIN queues'[d] /\ queues'[d][i] = queues[d][i]
    BY <1>1, <2>1, <2>2
  <2> QED BY <2>3 DEF Accounted
<1>5. CASE d = f.device /\ Len(queues[d]) = Window
  <2>1. queues'[d] = Retain(queues[d], f)
    BY <1>1, <1>2, <1>5
  <2>retained. /\ DOMAIN queues[d] = 1..Window /\ DOMAIN Retain(queues[d], f) = 1..Window
        /\ Len(Retain(queues[d], f)) = Window
        /\ \A j \in 1..(Window - 1) : Retain(queues[d], f)[j] = queues[d][j + 1]
    BY <1>1, <1>5, RetainFullFacts
  <2>2. /\ DOMAIN queues[d] = 1..Window /\ DOMAIN queues'[d] = 1..Window
        /\ Len(queues'[d]) = Window
        /\ \A j \in 1..(Window - 1) : queues'[d][j] = queues[d][j + 1]
    BY <2>1, <2>retained
  <2>3. CASE i = 1
    BY <1>5, <2>2, <2>3 DEF Accounted
  <2>4. CASE i # 1
    <3>1. i - 1 \in 1..(Window - 1) /\ i - 1 \in 1..Window /\ (i - 1) + 1 = i
      BY <1>1, <2>2, <2>4
    <3>2. i - 1 \in DOMAIN queues'[d] /\ queues'[d][i - 1] = queues[d][i]
      BY <2>2, <3>1
    <3> QED BY <3>2 DEF Accounted
  <2> QED BY <2>3, <2>4
<1> QED BY <1>3, <1>4, <1>5

LEMMA PairAccounts ==
    ASSUME IInv, NEW f \in Frame, f.device \in Devices, NEW k \in DOMAIN queues[Other(f.device)],
           Pairs(queues, f, k, queues', outcome'),
           emitted' = emitted \cup {outcome'.pair[i] : i \in DOMAIN outcome'.pair},
           NEW d \in Devices, NEW i \in DOMAIN queues[d]
    PROVE  Accounted(d, i)
<1> DEFINE o == Other(f.device)
           g == queues[o][k]
           p == BuildPair(f, g)
<1>1. /\ queues' = [queues EXCEPT ![o] = Without(queues[o], k)]
      /\ outcome' = [pair |-> <<p>>, reason |-> "none"]
  BY DEF Pairs
<1>2. o \in Devices /\ queues \in [Devices -> Seq(Frame)] /\ queues[o] \in Seq(Frame)
  BY DevicesFacts DEF IInv, TypeOK
<1>3. CASE d # o
  <2>1. queues'[d] = queues[d]
    BY <1>1, <1>2, <1>3
  <2> QED BY <2>1 DEF Accounted
<1>4. CASE d = o /\ i = k
  <2>1. p \in emitted'
    BY <1>1
  <2>2. g \in {p.first, p.second}
    BY DEF BuildPair
  <2>3. g \in Waiting
    BY <1>2 DEF Waiting, Elements
  <2>4. p \notin emitted
    BY <2>2, <2>3 DEF IInv, ConsumedOnce
  <2> QED BY <1>4, <2>1, <2>2, <2>4 DEF Accounted
<1>5. CASE d = o /\ i # k
  <2>1. queues'[d] = Without(queues[d], k)
    BY <1>1, <1>2, <1>5
  <2>retained. queues[d] \in Seq(Frame) /\ k \in DOMAIN queues[d]
    BY <1>2, <1>5
  <2>without. /\ DOMAIN Without(queues[d], k) = 1..(Len(queues[d]) - 1)
        /\ \A j \in 1..(Len(queues[d]) - 1) :
             Without(queues[d], k)[j] = IF j < k THEN queues[d][j] ELSE queues[d][j + 1]
    BY <2>retained, WithoutFacts
  <2>2. /\ DOMAIN queues'[d] = 1..(Len(queues[d]) - 1)
        /\ \A j \in 1..(Len(queues[d]) - 1) :
             queues'[d][j] = IF j < k THEN queues[d][j] ELSE queues[d][j + 1]
    BY <2>1, <2>without
  <2>3. /\ Len(queues[d]) \in Nat /\ i \in 1..Len(queues[d]) /\ k \in 1..Len(queues[d])
    BY <1>2, <1>5
  <2>4. CASE i < k
    <3>1. i \in DOMAIN queues'[d] /\ queues'[d][i] = queues[d][i]
      BY <2>2, <2>3, <2>4
    <3> QED BY <3>1 DEF Accounted
  <2>5. CASE i > k
    <3>1. i - 1 \in DOMAIN queues'[d] /\ queues'[d][i - 1] = queues[d][i]
      BY <2>2, <2>3, <2>5
    <3> QED BY <3>1 DEF Accounted
  <2> QED BY <1>5, <2>3, <2>4, <2>5
<1> QED BY <1>3, <1>4, <1>5

LEMMA OfferAccounts ==
    ASSUME IInv, NEW f \in Frame, OfferFrame(f), NEW d \in Devices, NEW i \in DOMAIN queues[d]
    PROVE  Accounted(d, i)
<1>1. /\ emitted' = emitted \cup {outcome'.pair[j] : j \in DOMAIN outcome'.pair}
      /\ Offer(queues, f, queues', outcome')
  BY DEF OfferFrame
<1>2. CASE queues' = queues
  BY <1>2 DEF Accounted
<1>3. CASE f.device \in Devices /\ Retains(queues, f, queues', outcome')
  BY <1>3, RetainAccounts
<1>4. CASE f.device \in Devices
           /\ \E k \in DOMAIN queues[Other(f.device)] : Pairs(queues, f, k, queues', outcome')
  BY <1>1, <1>4, PairAccounts
<1> QED BY <1>1, <1>2, <1>3, <1>4 DEF Offer, Unauthorized

(* A frame that waits leaves its queue in a pair, with a reconnect of its    *)
(* phone, or as the oldest of a full queue, in no other way (Pairer.offer,   *)
(* clear_device).                                                            *)
THEOREM NothingElseLost == Spec => LostOnlyAsOldest
<1>1. IInv /\ [Next]_vars => [\A d \in Devices : \A i \in DOMAIN queues[d] : Accounted(d, i)]_vars
  <2> SUFFICES ASSUME IInv, Next, NEW d \in Devices, NEW i \in DOMAIN queues[d]
               PROVE  Accounted(d, i)
    OBVIOUS
  <2>1. ASSUME NEW e \in Devices \cup Strangers, NEW c \in Captures, NEW t \in Times,
               NEW u \in Uncertainties,
               OfferFrame([id |-> arrived, device |-> e, capture |-> c, time |-> t,
                           uncertainty |-> u])
        PROVE  Accounted(d, i)
    <3>1. [id |-> arrived, device |-> e, capture |-> c, time |-> t, uncertainty |-> u] \in Frame
      BY DEF IInv, TypeOK, Frame
    <3> QED BY <2>1, <3>1, OfferAccounts
  <2>2. ASSUME NEW e \in Devices, ClearDevice(e)
        PROVE  Accounted(d, i)
    <3>1. queues'[d] = queues[d] \/ (queues'[d] = <<>> /\ arrived' = arrived)
      BY <2>2 DEF ClearDevice, IInv, TypeOK
    <3> QED BY <3>1 DEF Accounted
  <2> QED BY <2>1, <2>2 DEF Next
<1>2. Spec => [][\A d \in Devices : \A i \in DOMAIN queues[d] : Accounted(d, i)]_vars
  BY <1>1, Invariance, PTL DEF Spec
<1> QED BY <1>2 DEF LostOnlyAsOldest, Accounted

=============================================================================
