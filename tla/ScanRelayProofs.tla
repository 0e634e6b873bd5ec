--------------------------- MODULE ScanRelayProofs ---------------------------
(***************************************************************************)
(* Proofs about ScanRelay for any number of viewers, worlds, installs,     *)
(* parts of a scan and payloads under way: parts that were under way at a  *)
(* clear never bring a scan back, and viewers show what the server holds.  *)
(*                                                                         *)
(* The first rests on the order of installs (InstallsInOrder).  The second *)
(* looks at what a viewer will show when it has read what is on the way    *)
(* (Finally).  It needs that publications reach a viewer in the order of   *)
(* their numbers (Numbered), their parts one behind the other (Whole), and *)
(* that the server holds a visual of a world the owner has left for less   *)
(* than a tick (VisualKnown): before the next publication it is removed,   *)
(* so no viewer of the first world is left with what it showed.            *)
(***************************************************************************)
EXTENDS ScanRelay, SequenceTheorems, TLAPS

IsSeq(s) == s \in Seq({s[i] : i \in DOMAIN s})

Payload == [pub : Nat, scan : Nat, part : Nat]
Transfer == [pub : Nat, scan : Nat, parts : SUBSET Nat]
Accepted == [scan : Nat, world : Worlds]

Types ==
    /\ installs \in Nat /\ sequence \in Nat /\ lastCleared \in Nat
    /\ IsSeq(up) /\ accepted \in Seq(Accepted)
    /\ IsSeq(out) /\ \A k \in DOMAIN out : out[k].type = "part"
    /\ world \in Worlds
    /\ at \in [Viewers -> Worlds \cup {"away", "moved"}]
    /\ down \in [Viewers -> Seq(Payload)]
    /\ latest \in [Viewers -> Nat] /\ shown \in [Viewers -> Nat]
    /\ receiving \in [Viewers -> Transfer]

\* An install under way is newer than all that were accepted, and these are newer than
\* the last clear.
Ahead(installed, channel, low, high) ==
    \A k \in DOMAIN channel : channel[k].type = "install" =>
        /\ channel[k].scan \in Nat /\ channel[k].scan <= high
        /\ low < channel[k].scan
        /\ \A i \in DOMAIN installed : installed[i].scan < channel[k].scan
        /\ \A l \in DOMAIN channel :
             k < l /\ channel[l].type = "install" => channel[k].scan < channel[l].scan

InstallsInOrder ==
    /\ lastCleared <= installs
    /\ \A i \in DOMAIN accepted : lastCleared < accepted[i].scan /\ accepted[i].scan <= installs
    /\ Ahead(accepted, up, lastCleared, installs)

VisualKnown ==
    /\ \/ visual = NoVisual
       \/ visual.pub \in 1 .. sequence /\ visual.scan \in Nat /\ visual.world \in Worlds
    /\ visual.world \notin {world, "none"} => ~ticked

\* Of a queue q to a viewer that knows the publication last and receives got.
Numbered(q, last, got, top) ==
    /\ last <= top /\ got.pub <= top
    /\ \A k \in DOMAIN q : q[k].pub \in 1 .. top /\ last <= q[k].pub
    /\ \A k, l \in DOMAIN q : k < l => q[k].pub <= q[l].pub

Following(p) == [pub |-> p.pub, scan |-> p.scan, part |-> p.part + 1]

\* Up to the last part each part is followed by the next one; a later part follows the one
\* before it or is the next of those the viewer has; any other payload is newer than
\* all before it.
Continues(q, got, k) ==
    /\ q[k].part \in 0 .. Parts
    /\ q[k].part \in 1 .. Parts - 1 => k + 1 \in DOMAIN q /\ q[k + 1] = Following(q[k])
    /\ q[k].part > 1 =>
         \/ k = 1 /\ got = [pub |-> q[k].pub, scan |-> q[k].scan, parts |-> 1 .. q[k].part - 1]
         \/ k > 1 /\ q[k] = Following(q[k - 1])
    /\ q[k].part <= 1 =>
         /\ got.pub < q[k].pub
         /\ \A j \in DOMAIN q : j < k => q[j].pub < q[k].pub

Whole(q, got) == \A k \in DOMAIN q : Continues(q, got, k)

\* What is shown when q has been read and now is shown.
Finally(q, now) ==
    IF q = <<>> THEN now ELSE IF q[Len(q)].part = 0 THEN 0 ELSE q[Len(q)].pub

Held(w) == IF visual.world = w THEN visual.pub ELSE 0

Away(v) ==
    at[v] = "away" => latest[v] = 0 /\ shown[v] = 0 /\ receiving[v] = None /\ down[v] = <<>>

ViewerInv(v) ==
    /\ Away(v)
    /\ Numbered(down[v], latest[v], receiving[v], sequence)
    /\ ~troubled =>
         /\ Whole(down[v], receiving[v])
         /\ at[v] \in Worlds /\ visual.world \in {world, "none"} =>
              Finally(down[v], shown[v]) = Held(at[v])

IInv == Types /\ InstallsInOrder /\ VisualKnown /\ \A v \in Viewers : ViewerInv(v)

-----------------------------------------------------------------------------
(* Queues. *)

LEMMA OwnRange ==
  ASSUME NEW S, NEW s \in Seq(S)
  PROVE  IsSeq(s)
BY DEF IsSeq

LEMMA Appended ==
  ASSUME NEW s, IsSeq(s), NEW x
  PROVE  /\ IsSeq(Append(s, x))
         /\ Len(s) \in Nat /\ DOMAIN s = 1 .. Len(s)
         /\ DOMAIN Append(s, x) = 1 .. Len(s) + 1
         /\ \A i \in 1 .. Len(s) : Append(s, x)[i] = s[i]
         /\ Append(s, x)[Len(s) + 1] = x
<1> DEFINE S == {s[i] : i \in DOMAIN s} \cup {x}
<1>1. s \in Seq(S)
  BY DEF IsSeq
<1> HIDE DEF S
<1>2. x \in S
  BY DEF S
<1>3. /\ Append(s, x) \in Seq(S) /\ Len(s) \in Nat /\ DOMAIN s = 1 .. Len(s)
      /\ DOMAIN Append(s, x) = 1 .. Len(s) + 1
      /\ \A i \in 1 .. Len(s) : Append(s, x)[i] = s[i]
      /\ Append(s, x)[Len(s) + 1] = x
  BY <1>1, <1>2
<1> QED BY <1>3, OwnRange

LEMMA Read ==
  ASSUME NEW s, IsSeq(s), s # <<>>
  PROVE  /\ IsSeq(Tail(s))
         /\ Len(s) \in Nat \ {0} /\ DOMAIN s = 1 .. Len(s)
         /\ DOMAIN Tail(s) = 1 .. Len(s) - 1
         /\ \A i \in 1 .. Len(s) - 1 : Tail(s)[i] = s[i + 1]
         /\ Head(s) = s[1]
<1> DEFINE S == {s[i] : i \in DOMAIN s}
<1>1. s \in Seq(S)
  BY DEF IsSeq
<1> HIDE DEF S
<1>2. /\ Tail(s) \in Seq(S) /\ Len(s) \in Nat \ {0} /\ DOMAIN s = 1 .. Len(s)
      /\ DOMAIN Tail(s) = 1 .. Len(s) - 1
      /\ \A i \in 1 .. Len(s) - 1 : Tail(s)[i] = s[i + 1]
      /\ Head(s) = s[1]
  BY <1>1
<1> QED BY <1>2, OwnRange

LEMMA PartsFacts ==
  ASSUME NEW pub \in Nat, NEW scan \in Nat
  PROVE  /\ PartsOf(pub, scan) \in Seq(Payload)
         /\ Len(PartsOf(pub, scan)) = Parts
         /\ \A i \in 1 .. Parts : PartsOf(pub, scan)[i] = [pub |-> pub, scan |-> scan, part |-> i]
<1>1. Parts \in Nat
  BY RelayAssumption
<1>2. PartsOf(pub, scan) \in [1 .. Parts -> Payload]
  BY <1>1 DEF PartsOf, All, Payload
<1>3. PartsOf(pub, scan) \in Seq(Payload)
  BY <1>1, <1>2
<1>4. Len(PartsOf(pub, scan)) = Parts
  BY <1>1, <1>3 DEF PartsOf, All
<1> QED BY <1>3, <1>4 DEF PartsOf, All

LEMMA Joined ==
  ASSUME NEW q \in Seq(Payload), NEW pub \in Nat, NEW scan \in Nat
  PROVE  /\ q \o PartsOf(pub, scan) \in Seq(Payload)
         /\ Len(q) \in Nat /\ Parts \in Nat \ {0} /\ DOMAIN q = 1 .. Len(q)
         /\ DOMAIN (q \o PartsOf(pub, scan)) = 1 .. Len(q) + Parts
         /\ Len(q \o PartsOf(pub, scan)) = Len(q) + Parts
         /\ \A i \in 1 .. Len(q) : (q \o PartsOf(pub, scan))[i] = q[i]
         /\ \A i \in Len(q) + 1 .. Len(q) + Parts :
              (q \o PartsOf(pub, scan))[i] = [pub |-> pub, scan |-> scan, part |-> i - Len(q)]
<1> DEFINE r == PartsOf(pub, scan)
<1>1. /\ r \in Seq(Payload) /\ Len(r) = Parts /\ Parts \in Nat \ {0}
      /\ \A i \in 1 .. Parts : r[i] = [pub |-> pub, scan |-> scan, part |-> i]
  BY PartsFacts, RelayAssumption
<1> HIDE DEF r
<1>2. /\ q \o r \in Seq(Payload) /\ Len(q \o r) = Len(q) + Len(r)
      /\ \A i \in 1 .. Len(q) + Len(r) :
           (q \o r)[i] = IF i <= Len(q) THEN q[i] ELSE r[i - Len(q)]
  BY <1>1, ConcatProperties
<1>3. Len(q) \in Nat /\ DOMAIN q = 1 .. Len(q) /\ DOMAIN (q \o r) = 1 .. Len(q) + Len(r)
  BY <1>1, <1>2
<1>4. \A i \in Len(q) + 1 .. Len(q) + Parts :
        (q \o r)[i] = [pub |-> pub, scan |-> scan, part |-> i - Len(q)]
  BY <1>1, <1>2, <1>3
<1>5. \A i \in 1 .. Len(q) : (q \o r)[i] = q[i]
  BY <1>1, <1>2, <1>3
<1> QED BY <1>1, <1>2, <1>3, <1>4, <1>5 DEF r

LEMMA AppendedPayload ==
  ASSUME NEW q \in Seq(Payload), NEW p \in Payload
  PROVE  /\ Append(q, p) \in Seq(Payload)
         /\ Len(q) \in Nat /\ DOMAIN q = 1 .. Len(q)
         /\ DOMAIN Append(q, p) = 1 .. Len(q) + 1 /\ Len(Append(q, p)) = Len(q) + 1
         /\ \A i \in 1 .. Len(q) : Append(q, p)[i] = q[i]
         /\ Append(q, p)[Len(q) + 1] = p
OBVIOUS

LEMMA ReadPayload ==
  ASSUME NEW q \in Seq(Payload), q # <<>>
  PROVE  /\ Tail(q) \in Seq(Payload) /\ Head(q) \in Payload /\ Head(q) = q[1]
         /\ Len(q) \in Nat \ {0} /\ DOMAIN q = 1 .. Len(q) /\ \A i \in 1 .. Len(q) : q[i] \in Payload
         /\ DOMAIN Tail(q) = 1 .. Len(q) - 1 /\ Len(Tail(q)) = Len(q) - 1
         /\ \A i \in 1 .. Len(q) - 1 : Tail(q)[i] = q[i + 1]
         /\ Tail(q) = <<>> <=> Len(q) = 1
<1>1. /\ Tail(q) \in Seq(Payload) /\ Head(q) \in Payload /\ Head(q) = q[1]
      /\ Len(q) \in Nat \ {0} /\ DOMAIN q = 1 .. Len(q)
      /\ Len(Tail(q)) = Len(q) - 1
  OBVIOUS
<1>2. \A i \in 1 .. Len(q) : q[i] \in Payload
  OBVIOUS
<1>3. /\ DOMAIN Tail(q) = 1 .. Len(q) - 1
      /\ \A i \in 1 .. Len(q) - 1 : Tail(q)[i] = q[i + 1]
  OBVIOUS
<1>4. Tail(q) = <<>> <=> Len(q) = 1
  <2>1. \A r \in Seq(Payload) : r = <<>> <=> Len(r) = 0
    OBVIOUS
  <2> QED BY <1>1, <2>1
<1> QED BY <1>1, <1>2, <1>3, <1>4

-----------------------------------------------------------------------------
(* The order of installs. *)

LEMMA InstallSentAhead ==
  ASSUME NEW acc, NEW ch, IsSeq(ch), NEW low \in Nat, NEW high \in Nat, low <= high,
         Ahead(acc, ch, low, high), \A i \in DOMAIN acc : acc[i].scan \in Nat /\ acc[i].scan <= high
  PROVE  Ahead(acc, Append(ch, [type |-> "install", scan |-> high + 1]), low, high + 1)
<1> DEFINE m == [type |-> "install", scan |-> high + 1]
           sent == Append(ch, m)
<1>1. /\ Len(ch) \in Nat /\ DOMAIN ch = 1 .. Len(ch) /\ DOMAIN sent = 1 .. Len(ch) + 1
      /\ \A i \in 1 .. Len(ch) : sent[i] = ch[i]
      /\ sent[Len(ch) + 1] = m
  BY Appended
<1>2. m.type = "install" /\ m.scan = high + 1
  OBVIOUS
<1> HIDE DEF m, sent
<1>3. SUFFICES ASSUME NEW k \in DOMAIN sent, sent[k].type = "install"
               PROVE  /\ sent[k].scan \in Nat /\ sent[k].scan <= high + 1 /\ low < sent[k].scan
                      /\ \A i \in DOMAIN acc : acc[i].scan < sent[k].scan
                      /\ \A l \in DOMAIN sent :
                           k < l /\ sent[l].type = "install" => sent[k].scan < sent[l].scan
  BY DEF Ahead, sent, m
<1>4. CASE k = Len(ch) + 1
  BY <1>1, <1>2, <1>4
<1>5. CASE k \in DOMAIN ch
  <2>1. /\ ch[k].scan \in Nat /\ ch[k].scan <= high /\ low < ch[k].scan
        /\ \A i \in DOMAIN acc : acc[i].scan < ch[k].scan
        /\ \A l \in DOMAIN ch : k < l /\ ch[l].type = "install" => ch[k].scan < ch[l].scan
    BY <1>1, <1>3, <1>5 DEF Ahead
  <2> QED BY <1>1, <1>2, <1>5, <2>1
<1> QED BY <1>1, <1>3, <1>4, <1>5

LEMMA OtherSentAhead ==
  ASSUME NEW acc, NEW ch, IsSeq(ch), NEW low, NEW high, Ahead(acc, ch, low, high),
         NEW m, m.type # "install"
  PROVE  Ahead(acc, Append(ch, m), low, high)
<1>1. /\ Len(ch) \in Nat /\ DOMAIN ch = 1 .. Len(ch) /\ DOMAIN Append(ch, m) = 1 .. Len(ch) + 1
      /\ \A i \in 1 .. Len(ch) : Append(ch, m)[i] = ch[i]
      /\ Append(ch, m)[Len(ch) + 1] = m
  BY Appended
<1> QED BY <1>1 DEF Ahead

LEMMA ReadAhead ==
  ASSUME NEW acc, NEW ch, IsSeq(ch), ch # <<>>, NEW low, NEW high, Ahead(acc, ch, low, high)
  PROVE  Ahead(acc, Tail(ch), low, high)
<1>1. /\ Len(ch) \in Nat \ {0} /\ DOMAIN ch = 1 .. Len(ch) /\ DOMAIN Tail(ch) = 1 .. Len(ch) - 1
      /\ \A i \in 1 .. Len(ch) - 1 : Tail(ch)[i] = ch[i + 1]
  BY Read
<1> QED BY <1>1 DEF Ahead

\* An accepted install is older than those behind it.
LEMMA AcceptedAhead ==
  ASSUME NEW acc \in Seq(Accepted), NEW ch, IsSeq(ch), ch # <<>>, NEW low, NEW high,
         Ahead(acc, ch, low, high), Head(ch).type = "install", NEW w \in Worlds
  PROVE  /\ Head(ch).scan \in Nat /\ low < Head(ch).scan /\ Head(ch).scan <= high
         /\ Append(acc, [scan |-> Head(ch).scan, world |-> w]) \in Seq(Accepted)
         /\ Ahead(Append(acc, [scan |-> Head(ch).scan, world |-> w]), Tail(ch), low, high)
<1> DEFINE new == [scan |-> Head(ch).scan, world |-> w]
<1>1. /\ Len(ch) \in Nat \ {0} /\ DOMAIN ch = 1 .. Len(ch) /\ DOMAIN Tail(ch) = 1 .. Len(ch) - 1
      /\ \A i \in 1 .. Len(ch) - 1 : Tail(ch)[i] = ch[i + 1]
      /\ Head(ch) = ch[1]
  BY Read
<1>2. /\ ch[1].scan \in Nat /\ low < ch[1].scan /\ ch[1].scan <= high
      /\ \A l \in DOMAIN ch : 1 < l /\ ch[l].type = "install" => ch[1].scan < ch[l].scan
  BY <1>1 DEF Ahead
<1>3. new \in Accepted /\ new.scan = ch[1].scan
  BY <1>1, <1>2 DEF Accepted
<1> HIDE DEF new
<1>4. /\ Append(acc, new) \in Seq(Accepted)
      /\ \A i \in DOMAIN Append(acc, new) :
           (i \in DOMAIN acc /\ Append(acc, new)[i] = acc[i]) \/ Append(acc, new)[i] = new
  BY <1>3
<1>5. Ahead(acc, Tail(ch), low, high)
  BY ReadAhead
<1>6. \A l \in DOMAIN Tail(ch) : Tail(ch)[l].type = "install" => ch[1].scan < Tail(ch)[l].scan
  BY <1>1, <1>2
<1>7. Ahead(Append(acc, new), Tail(ch), low, high)
  BY <1>3, <1>4, <1>5, <1>6 DEF Ahead
<1> QED BY <1>1, <1>2, <1>4, <1>7 DEF new

-----------------------------------------------------------------------------
(* The order of what a viewer is sent. *)

LEMMA NumberedLater ==
  ASSUME NEW q, NEW last, NEW got, NEW top \in Nat, NEW later \in Nat, top <= later,
         last \in Nat, got.pub \in Nat, Numbered(q, last, got, top)
  PROVE  Numbered(q, last, got, later)
BY DEF Numbered

\* r is q and behind it the removal, or all parts, of a publication.
Removed(q, r, pub) ==
    /\ r \in Seq(Payload) /\ Len(r) = Len(q) + 1
    /\ \A i \in 1 .. Len(q) : r[i] = q[i]
    /\ r[Len(q) + 1].pub = pub /\ r[Len(q) + 1].part = 0

Published(q, r, pub, scan) ==
    /\ r \in Seq(Payload) /\ Len(r) = Len(q) + Parts
    /\ \A i \in 1 .. Len(q) : r[i] = q[i]
    /\ \A i \in Len(q) + 1 .. Len(q) + Parts :
         r[i].pub = pub /\ r[i].scan = scan /\ r[i].part = i - Len(q)

LEMMA RemovalAppended ==
  ASSUME NEW q \in Seq(Payload), NEW pub \in Nat
  PROVE  Removed(q, Append(q, [pub |-> pub, scan |-> 0, part |-> 0]), pub)
<1> DEFINE m == [pub |-> pub, scan |-> 0, part |-> 0]
<1>1. m \in Payload /\ m.pub = pub /\ m.part = 0
  BY DEF Payload
<1> HIDE DEF m
<1>2. /\ Append(q, m) \in Seq(Payload) /\ Len(Append(q, m)) = Len(q) + 1
      /\ \A i \in 1 .. Len(q) : Append(q, m)[i] = q[i]
      /\ Append(q, m)[Len(q) + 1] = m
  BY <1>1, AppendedPayload
<1>3. Removed(q, Append(q, m), pub)
  BY <1>1, <1>2 DEF Removed
<1> QED BY <1>3 DEF m

LEMMA PartsAppended ==
  ASSUME NEW q \in Seq(Payload), NEW pub \in Nat, NEW scan \in Nat
  PROVE  Published(q, q \o PartsOf(pub, scan), pub, scan)
<1> DEFINE r == q \o PartsOf(pub, scan)
<1>1. /\ r \in Seq(Payload) /\ Len(r) = Len(q) + Parts
      /\ \A i \in 1 .. Len(q) : r[i] = q[i]
      /\ \A i \in Len(q) + 1 .. Len(q) + Parts :
           r[i] = [pub |-> pub, scan |-> scan, part |-> i - Len(q)]
  BY Joined
<1> HIDE DEF r
<1>2. \A i \in Len(q) + 1 .. Len(q) + Parts :
        r[i].pub = pub /\ r[i].scan = scan /\ r[i].part = i - Len(q)
  <2> SUFFICES ASSUME NEW i \in Len(q) + 1 .. Len(q) + Parts
               PROVE  r[i].pub = pub /\ r[i].scan = scan /\ r[i].part = i - Len(q)
    OBVIOUS
  <2>1. r[i] = [pub |-> pub, scan |-> scan, part |-> i - Len(q)]
    BY <1>1
  <2> QED BY <2>1
<1>3. Published(q, r, pub, scan)
  BY <1>1, <1>2 DEF Published
<1> QED BY <1>3 DEF r

LEMMA RemovalSent ==
  ASSUME NEW q \in Seq(Payload), NEW last \in Nat, NEW got \in Transfer, NEW top \in Nat,
         Numbered(q, last, got, top), NEW pub \in Nat, top < pub, NEW r, Removed(q, r, pub)
  PROVE  /\ Numbered(r, last, got, pub)
         /\ Whole(q, got) => Whole(r, got)
         /\ \A now : Finally(r, now) = 0
<1>1. r[Len(q) + 1].pub = pub /\ r[Len(q) + 1].part = 0
  BY DEF Removed
<1>2. /\ Len(q) \in Nat /\ DOMAIN q = 1 .. Len(q)
      /\ DOMAIN r = 1 .. Len(q) + 1 /\ Len(r) = Len(q) + 1
      /\ \A i \in 1 .. Len(q) : r[i] = q[i]
  BY DEF Removed
<1>3. got.pub \in Nat /\ \A k \in DOMAIN q : q[k].pub \in 1 .. top
  BY DEF Transfer, Numbered
<1>4. Numbered(r, last, got, pub)
  <2>1. \A k \in DOMAIN r : \/ k \in DOMAIN q /\ r[k].pub = q[k].pub /\ r[k].pub \in 1 .. top
                            \/ k = Len(q) + 1 /\ r[k].pub = pub
    BY <1>1, <1>2, <1>3
  <2>2. /\ last <= top /\ got.pub <= top
        /\ \A k \in DOMAIN q : last <= q[k].pub
        /\ \A k, l \in DOMAIN q : k < l => q[k].pub <= q[l].pub
    BY DEF Numbered
  <2>3. \A k \in DOMAIN r : r[k].pub \in 1 .. pub /\ last <= r[k].pub
    BY <2>1, <2>2
  <2>4. \A k, l \in DOMAIN r : k < l => r[k].pub <= r[l].pub
    BY <1>2, <2>1, <2>2
  <2> QED BY <1>3, <2>2, <2>3, <2>4 DEF Numbered
<1>5. \A now : Finally(r, now) = 0
  BY <1>1, <1>2 DEF Finally
<1>6. ASSUME Whole(q, got), NEW k \in DOMAIN r
      PROVE  Continues(r, got, k)
  <2>1. CASE k = Len(q) + 1
    <3>1. \A j \in DOMAIN r : j < k => r[j].pub < pub
      BY <1>2, <1>3, <2>1
    <3>2. got.pub < pub /\ Parts \in Nat
      BY <1>3, RelayAssumption DEF Numbered
    <3>3. r[k].part = 0 /\ r[k].pub = pub
      BY <1>1, <1>2, <2>1
    <3> QED BY <3>1, <3>2, <3>3 DEF Continues
  <2>2. CASE k \in DOMAIN q
    <3>1. Continues(q, got, k)
      BY <1>6, <2>2 DEF Whole
    <3>2. r[k] = q[k] /\ (k + 1 \in DOMAIN q => r[k + 1] = q[k + 1])
          /\ (k > 1 => r[k - 1] = q[k - 1])
          /\ \A j \in DOMAIN r : j < k => j \in DOMAIN q /\ r[j] = q[j]
      BY <1>2, <2>2
    <3> QED BY <1>2, <3>1, <3>2 DEF Continues
  <2> QED BY <1>2, <2>1, <2>2
<1> QED BY <1>2, <1>4, <1>5, <1>6 DEF Whole

LEMMA PublicationSent ==
  ASSUME NEW q \in Seq(Payload), NEW last \in Nat, NEW got \in Transfer, NEW top \in Nat,
         NEW pub \in Nat, top < pub, NEW scan \in Nat,
         Numbered(q, last, got, top), NEW r, Published(q, r, pub, scan)
  PROVE  /\ Numbered(r, last, got, pub)
         /\ Whole(q, got) => Whole(r, got)
         /\ \A now : Finally(r, now) = pub
<1>1. /\ Len(q) \in Nat /\ Parts \in Nat \ {0} /\ DOMAIN q = 1 .. Len(q)
      /\ DOMAIN r = 1 .. Len(q) + Parts
      /\ \A i \in DOMAIN r : r[i] \in Payload
      /\ Len(r) = Len(q) + Parts
  BY RelayAssumption DEF Published
<1>2. /\ \A i \in 1 .. Len(q) : r[i] = q[i]
      /\ \A i \in Len(q) + 1 .. Len(q) + Parts :
           r[i].pub = pub /\ r[i].scan = scan /\ r[i].part = i - Len(q)
  BY DEF Published
<1>3. got.pub \in Nat /\ \A k \in DOMAIN q : q[k].pub \in 1 .. top
  BY DEF Transfer, Numbered
<1>4. Numbered(r, last, got, pub)
  <2>1. \A k \in DOMAIN r : \/ k \in DOMAIN q /\ r[k].pub = q[k].pub /\ r[k].pub \in 1 .. top
                            \/ k > Len(q) /\ r[k].pub = pub
    BY <1>1, <1>2, <1>3
  <2>2. /\ last <= top /\ got.pub <= top
        /\ \A k \in DOMAIN q : last <= q[k].pub
        /\ \A k, l \in DOMAIN q : k < l => q[k].pub <= q[l].pub
    BY DEF Numbered
  <2>3. \A k \in DOMAIN r : r[k].pub \in 1 .. pub /\ last <= r[k].pub
    BY <2>1, <2>2
  <2>4. \A k, l \in DOMAIN r : k < l => r[k].pub <= r[l].pub
    BY <1>1, <2>1, <2>2
  <2> QED BY <1>3, <2>2, <2>3, <2>4 DEF Numbered
<1>5. \A now : Finally(r, now) = pub
  BY <1>1, <1>2 DEF Finally
<1>6. ASSUME Whole(q, got), NEW k \in DOMAIN r
      PROVE  Continues(r, got, k)
  <2>1. CASE k \in Len(q) + 1 .. Len(q) + Parts
    <3>1. r[k].pub = pub /\ r[k].scan = scan /\ r[k].part = k - Len(q) /\ r[k].part \in 0 .. Parts
      BY <1>1, <1>2, <2>1
    <3>2. r[k].part \in 1 .. Parts - 1 => k + 1 \in DOMAIN r /\ r[k + 1] = Following(r[k])
      <4>1. SUFFICES ASSUME r[k].part \in 1 .. Parts - 1
                     PROVE  k + 1 \in DOMAIN r /\ r[k + 1] = Following(r[k])
        OBVIOUS
      <4>2. k + 1 \in Len(q) + 1 .. Len(q) + Parts /\ k + 1 \in DOMAIN r
        BY <1>1, <3>1, <4>1
      <4>3. /\ r[k + 1] \in Payload
            /\ r[k + 1].pub = pub /\ r[k + 1].scan = scan /\ r[k + 1].part = r[k].part + 1
        BY <1>1, <1>2, <3>1, <4>2
      <4> QED BY <3>1, <4>2, <4>3 DEF Following, Payload
    <3>3. r[k].part > 1 => k > 1 /\ r[k] = Following(r[k - 1])
      <4>1. SUFFICES ASSUME r[k].part > 1 PROVE k > 1 /\ r[k] = Following(r[k - 1])
        OBVIOUS
      <4>2. /\ k > 1 /\ r[k] \in Payload
            /\ r[k - 1].pub = pub /\ r[k - 1].scan = scan /\ r[k - 1].part + 1 = r[k].part
        BY <1>1, <1>2, <3>1, <4>1
      <4> QED BY <3>1, <4>2 DEF Following, Payload
    <3>4. r[k].part <= 1 => got.pub < r[k].pub /\ \A j \in DOMAIN r : j < k => r[j].pub < r[k].pub
      <4>1. ASSUME r[k].part <= 1 PROVE k = Len(q) + 1
        BY <1>1, <2>1, <3>1, <4>1
      <4>2. got.pub < pub
        BY <1>3 DEF Numbered
      <4>3. \A j \in DOMAIN q : q[j].pub < pub
        BY <1>3
      <4> QED BY <1>1, <1>2, <3>1, <4>1, <4>2, <4>3
    <3> QED BY <3>1, <3>2, <3>3, <3>4 DEF Continues
  <2>2. CASE k \in DOMAIN q
    <3>1. Continues(q, got, k)
      BY <1>6, <2>2 DEF Whole
    <3>2. r[k] = q[k] /\ (k + 1 \in DOMAIN q => k + 1 \in DOMAIN r /\ r[k + 1] = q[k + 1])
          /\ (k > 1 => r[k - 1] = q[k - 1])
          /\ \A j \in DOMAIN r : j < k => j \in DOMAIN q /\ r[j] = q[j]
      BY <1>1, <1>2, <2>2
    <3> QED BY <3>1, <3>2 DEF Continues
  <2> QED BY <1>1, <2>1, <2>2
<1> QED BY <1>1, <1>4, <1>5, <1>6 DEF Whole

LEMMA Nothing ==
  /\ None \in Transfer
  /\ \A got : Whole(<<>>, got)
  /\ \A now : Finally(<<>>, now) = now
  /\ \A top \in Nat : Numbered(<<>>, 0, None, top)
BY DEF None, Transfer, Whole, Finally, Numbered

\* What remains when a payload has been read, if the transfer then is what it should be.
LEMMA RestWhole ==
  ASSUME NEW q \in Seq(Payload), q # <<>>, NEW got, NEW last, NEW top \in Nat,
         Numbered(q, last, got, top), Whole(q, got),
         NEW rest, rest = IF q[1].part \in 1 .. Parts - 1
                          THEN [pub |-> q[1].pub, scan |-> q[1].scan, parts |-> 1 .. q[1].part]
                          ELSE None
  PROVE  Whole(Tail(q), rest)
<1>1. /\ Len(q) \in Nat \ {0} /\ DOMAIN q = 1 .. Len(q) /\ \A i \in 1 .. Len(q) : q[i] \in Payload
      /\ DOMAIN Tail(q) = 1 .. Len(q) - 1
      /\ \A i \in 1 .. Len(q) - 1 : Tail(q)[i] = q[i + 1]
  BY ReadPayload
<1>2. Parts \in Nat \ {0}
  BY RelayAssumption
<1>3. SUFFICES ASSUME NEW k \in 1 .. Len(q) - 1
               PROVE  Continues(Tail(q), rest, k)
  BY <1>1 DEF Whole
<1>4. Continues(q, got, k + 1) /\ Continues(q, got, 1) /\ Tail(q)[k] = q[k + 1] /\ k + 1 \in DOMAIN q
  BY <1>1 DEF Whole
<1>5. q[k + 1] \in Payload /\ q[1] \in Payload /\ q[1].pub \in 1 .. top /\ q[k + 1].pub \in 1 .. top
  BY <1>1 DEF Numbered
<1>6. q[k + 1].part \in 1 .. Parts - 1 =>
        k + 1 \in DOMAIN Tail(q) /\ Tail(q)[k + 1] = Following(Tail(q)[k])
  BY <1>1, <1>4 DEF Continues
<1>7. ASSUME q[k + 1].part > 1
      PROVE  \/ k = 1 /\ rest = [pub |-> q[k + 1].pub, scan |-> q[k + 1].scan,
                                 parts |-> 1 .. q[k + 1].part - 1]
             \/ k > 1 /\ Tail(q)[k] = Following(Tail(q)[k - 1])
  <2>1. q[k + 1] = Following(q[k])
    BY <1>1, <1>4, <1>7 DEF Continues
  <2>2. CASE k > 1
    <3>1. Tail(q)[k - 1] = q[k]
      BY <1>1, <2>2
    <3> QED BY <1>4, <2>1, <2>2, <3>1
  <2>3. CASE k = 1
    <3>1. /\ q[k + 1].part = q[1].part + 1 /\ q[k + 1].pub = q[1].pub /\ q[k + 1].scan = q[1].scan
          /\ q[1].part \in Nat
      BY <1>5, <2>1, <2>3 DEF Following, Payload
    <3>2. q[1].part \in 1 .. Parts - 1
      BY <1>2, <1>4, <1>7, <3>1 DEF Continues
    <3>3. q[k + 1].part - 1 = q[1].part
      BY <3>1
    <3> QED BY <2>3, <3>1, <3>2, <3>3
  <2> QED BY <2>2, <2>3
<1>8. ASSUME q[k + 1].part <= 1
      PROVE  /\ rest.pub < q[k + 1].pub
             /\ \A j \in DOMAIN Tail(q) : j < k => Tail(q)[j].pub < q[k + 1].pub
  <2>1. \A j \in DOMAIN q : j < k + 1 => q[j].pub < q[k + 1].pub
    BY <1>4, <1>8 DEF Continues
  <2>2. rest.pub \in {0, q[1].pub}
    BY DEF None
  <2>3. rest.pub < q[k + 1].pub
    BY <1>1, <1>5, <2>1, <2>2
  <2> QED BY <1>1, <2>1, <2>3
<1> QED BY <1>4, <1>6, <1>7, <1>8 DEF Continues

LEMMA RestNumbered ==
  ASSUME NEW q \in Seq(Payload), q # <<>>, NEW got, NEW last \in Nat, NEW top \in Nat,
         Numbered(q, last, got, top), NEW rest, rest.pub \in {0, got.pub, q[1].pub},
         got.pub \in Nat
  PROVE  /\ Numbered(Tail(q), q[1].pub, rest, top) /\ q[1].pub \in Nat /\ last <= q[1].pub
         /\ Numbered(Tail(q), last, rest, top)
<1>1. /\ Len(q) \in Nat \ {0} /\ DOMAIN q = 1 .. Len(q)
      /\ DOMAIN Tail(q) = 1 .. Len(q) - 1
      /\ \A i \in 1 .. Len(q) - 1 : Tail(q)[i] = q[i + 1]
  BY ReadPayload
<1>2. q[1].pub \in 1 .. top /\ last <= q[1].pub /\ got.pub <= top
  BY <1>1 DEF Numbered
<1>3. \A k \in 1 .. Len(q) - 1 : q[k + 1].pub \in 1 .. top /\ q[1].pub <= q[k + 1].pub
                                 /\ last <= q[k + 1].pub
  BY <1>1 DEF Numbered
<1>4. \A k, l \in DOMAIN Tail(q) : k < l => Tail(q)[k].pub <= Tail(q)[l].pub
  <2>1. SUFFICES ASSUME NEW k \in 1 .. Len(q) - 1, NEW l \in 1 .. Len(q) - 1, k < l
                 PROVE  q[k + 1].pub <= q[l + 1].pub
    BY <1>1
  <2>2. k + 1 \in DOMAIN q /\ l + 1 \in DOMAIN q /\ k + 1 < l + 1
    BY <1>1, <2>1
  <2> QED BY <2>2 DEF Numbered
<1> QED BY <1>1, <1>2, <1>3, <1>4 DEF Numbered

\* Reading a payload brings a viewer nearer to what it finally shows, and no further.
LEMMA RestFinally ==
  ASSUME NEW q \in Seq(Payload), q # <<>>, NEW got, NEW now, Whole(q, got)
  PROVE  /\ q[1].part = 0 => Finally(Tail(q), 0) = Finally(q, now)
         /\ q[1].part = Parts => Finally(Tail(q), q[1].pub) = Finally(q, now)
         /\ q[1].part \in 1 .. Parts - 1 => Finally(Tail(q), now) = Finally(q, now)
<1>1. /\ Len(q) \in Nat \ {0} /\ DOMAIN q = 1 .. Len(q)
      /\ DOMAIN Tail(q) = 1 .. Len(q) - 1 /\ Len(Tail(q)) = Len(q) - 1
      /\ \A i \in 1 .. Len(q) - 1 : Tail(q)[i] = q[i + 1]
      /\ Tail(q) = <<>> <=> Len(q) = 1
  BY ReadPayload
<1>2. Continues(q, got, 1) /\ Parts \in Nat \ {0}
  BY <1>1, RelayAssumption DEF Whole
<1>3. CASE Len(q) # 1
  <2>1. Tail(q)[Len(Tail(q))] = q[Len(q)]
    BY <1>1, <1>3
  <2> QED BY <1>1, <1>3, <2>1 DEF Finally
<1>4. CASE Len(q) = 1
  <2>1. q[1].part \notin 1 .. Parts - 1
    BY <1>1, <1>2, <1>4 DEF Continues
  <2> QED BY <1>1, <1>2, <1>4, <2>1 DEF Finally
<1> QED BY <1>3, <1>4

-----------------------------------------------------------------------------
(* What the server does to its visual and to a viewer. *)

LEMMA WorldsApart ==
  /\ "none" \notin Worlds /\ "away" \notin Worlds /\ "moved" \notin Worlds
  /\ NoVisual.world = "none" /\ NoVisual.pub = 0 /\ NoVisual.scan = 0
BY RelayAssumption DEF NoVisual

LEMMA PublishTyped ==
  ASSUME Types, VisualKnown, NEW i \in DOMAIN accepted, Publish(accepted[i]), UNCHANGED world
  PROVE  /\ accepted[i].scan \in Nat /\ accepted[i].world \in Worlds
         /\ down' \in [Viewers -> Seq(Payload)] /\ sequence' \in Nat
         /\ VisualKnown'
<1>1. accepted[i].scan \in Nat /\ accepted[i].world \in Worlds /\ sequence + 1 \in Nat
  <2>1. accepted \in Seq(Accepted) /\ sequence \in Nat
    BY DEF Types
  <2>2. accepted[i] \in Accepted
    BY <2>1
  <2> QED BY <2>1, <2>2 DEF Accepted
<1>2. down' \in [Viewers -> Seq(Payload)]
  <2>1. \A v \in Viewers :
          down[v] \in Seq(Payload) /\ down[v] \o PartsOf(sequence + 1, accepted[i].scan) \in Seq(Payload)
    BY <1>1, Joined DEF Types
  <2> QED BY <2>1 DEF Publish
<1>3. VisualKnown'
  <2>1. /\ visual'.pub = sequence + 1 /\ visual'.scan = accepted[i].scan
        /\ visual'.world = accepted[i].world
        /\ sequence' = sequence + 1 /\ ~ticked'
    BY DEF Publish
  <2> QED BY <1>1, <2>1 DEF VisualKnown, Types
<1> QED BY <1>1, <1>2, <1>3 DEF Publish

LEMMA PublishSeen ==
  ASSUME Types, VisualKnown, NEW i \in DOMAIN accepted, Publish(accepted[i]),
         UNCHANGED <<world, at, latest, receiving, shown, troubled>>,
         NEW v \in Viewers, ViewerInv(v)
  PROVE  ViewerInv(v)'
<1> DEFINE w == accepted[i].world
           n == accepted[i].scan
<1>1. /\ down[v] \in Seq(Payload) /\ latest[v] \in Nat /\ receiving[v] \in Transfer
      /\ sequence \in Nat /\ n \in Nat /\ w \in Worlds /\ world \in Worlds
      /\ receiving[v].pub \in Nat
  BY PublishTyped DEF Types, Transfer
<1>2. /\ sequence' = sequence + 1 /\ ticked
      /\ visual'.pub = sequence + 1 /\ visual'.world = w
      /\ down'[v] = IF at[v] = w THEN down[v] \o PartsOf(sequence + 1, n) ELSE down[v]
  BY DEF Publish, Spaced
<1>3. Numbered(down[v], latest[v], receiving[v], sequence)
  BY DEF ViewerInv
<1>4. CASE at[v] = w
  <2>1. Published(down[v], down'[v], sequence + 1, n)
    BY <1>1, <1>2, <1>4, PartsAppended
  <2>2. /\ Numbered(down'[v], latest[v], receiving[v], sequence + 1)
        /\ Whole(down[v], receiving[v]) => Whole(down'[v], receiving[v])
        /\ Finally(down'[v], shown[v]) = sequence + 1
    <3> DEFINE m == sequence + 1
    <3>1. m \in Nat /\ sequence < m /\ Published(down[v], down'[v], m, n)
      BY <1>1, <2>1
    <3> HIDE DEF m
    <3>2. /\ Numbered(down'[v], latest[v], receiving[v], m)
          /\ Whole(down[v], receiving[v]) => Whole(down'[v], receiving[v])
          /\ \A now : Finally(down'[v], now) = m
      BY <1>1, <1>3, <3>1, PublicationSent
    <3> QED BY <3>2 DEF m
  <2>3. at[v] # "away"
    BY <1>1, <1>4, WorldsApart
  <2> QED BY <1>2, <1>4, <2>2, <2>3 DEF ViewerInv, Away, Held
<1>5. CASE at[v] # w
  <2>1. Numbered(down[v], latest[v], receiving[v], sequence + 1)
    BY <1>1, <1>3, NumberedLater
  <2>2. ASSUME ~troubled, at[v] \in Worlds, w = world
        PROVE  Finally(down[v], shown[v]) = 0
    <3>1. visual.world \in {world, "none"}
      BY <1>2 DEF VisualKnown
    <3> QED BY <1>5, <2>2, <3>1, WorldsApart DEF ViewerInv, Held
  <2>3. w # "none"
    BY <1>1, WorldsApart
  <2> QED BY <1>2, <1>5, <2>1, <2>2, <2>3 DEF ViewerInv, Away, Held
<1> QED BY <1>4, <1>5

LEMMA RemoveTyped ==
  ASSUME Types, VisualKnown, RemoveVisual
  PROVE  /\ down' \in [Viewers -> Seq(Payload)] /\ sequence' \in Nat
         /\ VisualKnown' /\ visual' = NoVisual
<1>1. visual' = NoVisual
  BY DEF RemoveVisual
<1>2. VisualKnown'
  BY <1>1, WorldsApart DEF VisualKnown
<1>3. \A v \in Viewers :
        /\ down[v] \in Seq(Payload)
        /\ Append(down[v], [pub |-> sequence + 1, scan |-> 0, part |-> 0]) \in Seq(Payload)
  BY AppendedPayload DEF Types, Payload
<1>4. down' \in [Viewers -> Seq(Payload)] /\ sequence' \in Nat
  <2>1. down \in [Viewers -> Seq(Payload)] /\ sequence \in Nat
    BY DEF Types
  <2>2. CASE visual = NoVisual
    BY <2>1, <2>2 DEF RemoveVisual
  <2>3. CASE visual # NoVisual
    <3>1. sequence' = sequence + 1
      BY <2>3 DEF RemoveVisual
    <3>2. down' \in [Viewers -> Seq(Payload)]
      BY <1>3, <2>3 DEF RemoveVisual
    <3> QED BY <2>1, <3>1, <3>2
  <2> QED BY <2>2, <2>3
<1> QED BY <1>1, <1>2, <1>4

LEMMA RemoveSeen ==
  ASSUME Types, VisualKnown, RemoveVisual, UNCHANGED <<at, latest, receiving, shown, troubled>>,
         NEW v \in Viewers, ViewerInv(v)
  PROVE  ViewerInv(v)'
<1>1. /\ down[v] \in Seq(Payload) /\ latest[v] \in Nat /\ receiving[v] \in Transfer
      /\ sequence \in Nat /\ receiving[v].pub \in Nat
      /\ Numbered(down[v], latest[v], receiving[v], sequence)
  BY DEF Types, Transfer, ViewerInv
<1>2. visual' = NoVisual
  BY DEF RemoveVisual
<1>3. \A w \in Worlds : Held(w)' = 0
  BY <1>2, WorldsApart DEF Held
<1>4. CASE visual = NoVisual
  <2>1. UNCHANGED <<visual, sequence, down>>
    BY <1>4 DEF RemoveVisual
  <2>2. visual.world = "none" /\ \A w \in Worlds : Held(w) = 0
    BY <1>4, WorldsApart DEF Held
  <2> QED BY <1>3, <2>1, <2>2 DEF ViewerInv, Away
<1>5. CASE visual # NoVisual
  <2>1. /\ sequence' = sequence + 1
        /\ down'[v] = IF at[v] # "away"
                      THEN Append(down[v], [pub |-> sequence + 1, scan |-> 0, part |-> 0])
                      ELSE down[v]
    BY <1>5 DEF RemoveVisual, Present
  <2>2. CASE at[v] = "away"
    <3>1. Numbered(down[v], latest[v], receiving[v], sequence + 1)
      BY <1>1, NumberedLater
    <3>2. at[v] \notin Worlds
      BY <2>2, WorldsApart
    <3> QED BY <2>1, <2>2, <3>1, <3>2 DEF ViewerInv, Away
  <2>3. CASE at[v] # "away"
    <3>1. Removed(down[v], down'[v], sequence + 1)
      BY <1>1, <2>1, <2>3, RemovalAppended
    <3>2. /\ Numbered(down'[v], latest[v], receiving[v], sequence + 1)
          /\ Whole(down[v], receiving[v]) => Whole(down'[v], receiving[v])
          /\ Finally(down'[v], shown[v]) = 0
      <4> DEFINE m == sequence + 1
      <4>1. m \in Nat /\ sequence < m /\ Removed(down[v], down'[v], m)
        BY <1>1, <3>1
      <4> HIDE DEF m
      <4>2. /\ Numbered(down'[v], latest[v], receiving[v], m)
            /\ Whole(down[v], receiving[v]) => Whole(down'[v], receiving[v])
            /\ \A now : Finally(down'[v], now) = 0
        BY <1>1, <4>1, RemovalSent
      <4> QED BY <4>2 DEF m
    <3> QED BY <1>3, <2>1, <2>3, <3>2 DEF ViewerInv, Away
  <2> QED BY <2>2, <2>3
<1> QED BY <1>4, <1>5

LEMMA QuietSeen ==
  ASSUME UNCHANGED <<visual, sequence, down, world, at, latest, receiving, shown, troubled>>,
         NEW v \in Viewers, ViewerInv(v)
  PROVE  ViewerInv(v)'
BY DEF ViewerInv, Away, Held

-----------------------------------------------------------------------------
(* What a viewer does. *)

ViewerTypes ==
    /\ at \in [Viewers -> Worlds \cup {"away", "moved"}]
    /\ down \in [Viewers -> Seq(Payload)]
    /\ latest \in [Viewers -> Nat] /\ shown \in [Viewers -> Nat]
    /\ receiving \in [Viewers -> Transfer]

LEMMA Alone ==
  ASSUME UNCHANGED <<visual, sequence, world, troubled>>, NEW u \in Viewers, ViewerInv(u),
         at'[u] = at[u], down'[u] = down[u], latest'[u] = latest[u],
         receiving'[u] = receiving[u], shown'[u] = shown[u]
  PROVE  ViewerInv(u)'
BY DEF ViewerInv, Away, Held

LEMMA JoinSeen ==
  ASSUME Types, VisualKnown, NEW v \in Viewers, \A u \in Viewers : ViewerInv(u),
         NEW w \in Worlds, Join(v, w)
  PROVE  ViewerTypes' /\ \A u \in Viewers : ViewerInv(u)'
<1> DEFINE r == IF visual.world = w THEN PartsOf(visual.pub, visual.scan) ELSE <<>>
<1>1. /\ ViewerTypes /\ sequence \in Nat /\ world \in Worlds
      /\ at' = [at EXCEPT ![v] = w] /\ down' = [down EXCEPT ![v] = r]
      /\ at[v] = "away" /\ UNCHANGED <<visual, sequence, world, latest, receiving, shown, troubled>>
  BY DEF Types, ViewerTypes, Join, serverVars
<1>2. latest[v] = 0 /\ shown[v] = 0 /\ receiving[v] = None
  BY <1>1 DEF ViewerInv, Away
<1>3. r \in Seq(Payload) /\ Numbered(r, 0, None, sequence) /\ Whole(r, None)
      /\ Finally(r, 0) = Held(w)
  <2>1. CASE visual.world # w
    BY <1>1, <2>1, Nothing DEF Held
  <2>2. CASE visual.world = w
    <3>1. visual.pub \in 1 .. sequence /\ visual.scan \in Nat
      BY <2>2, WorldsApart DEF VisualKnown
    <3> DEFINE n == visual.pub
    <3>2. n \in Nat /\ 0 < n /\ n <= sequence /\ r = PartsOf(n, visual.scan)
      BY <1>1, <2>2, <3>1
    <3>3. r \in Seq(Payload)
      BY <3>1, <3>2, PartsFacts
    <3>4. <<>> \in Seq(Payload) /\ <<>> \o r = r
      BY <3>3, ConcatEmptySeq
    <3>5. Published(<<>>, r, n, visual.scan)
      BY <3>1, <3>2, <3>4, PartsAppended
    <3> HIDE DEF n, r
    <3>6. Numbered(r, 0, None, n) /\ Whole(r, None) /\ Finally(r, 0) = n
      <4> DEFINE zero == 0
                 before == <<>>
      <4>1. /\ zero \in Nat /\ zero < n /\ before \in Seq(Payload) /\ None \in Transfer
            /\ Numbered(before, zero, None, zero) /\ Whole(before, None)
            /\ Published(before, r, n, visual.scan)
        BY <3>2, <3>4, <3>5, Nothing
      <4> HIDE DEF zero, before
      <4>2. /\ Numbered(r, zero, None, n)
            /\ Whole(before, None) => Whole(r, None)
            /\ \A now : Finally(r, now) = n
        BY <3>1, <3>2, <4>1, PublicationSent
      <4> QED BY <4>1, <4>2 DEF zero
    <3>7. Numbered(r, 0, None, sequence)
      BY <1>1, <3>2, <3>6, NumberedLater DEF None
    <3> QED BY <2>2, <3>3, <3>6, <3>7 DEF Held, n
  <2> QED BY <2>1, <2>2
<1> HIDE DEF r
<1>4. ViewerTypes'
  BY <1>1, <1>3 DEF ViewerTypes
<1>5. at'[v] = w /\ down'[v] = r /\ w # "away"
  BY <1>1, WorldsApart DEF ViewerTypes
<1>6. ViewerInv(v)'
  BY <1>1, <1>2, <1>3, <1>5 DEF ViewerInv, Away, Held
<1>7. ASSUME NEW u \in Viewers, u # v PROVE ViewerInv(u)'
  BY <1>1, <1>7, Alone DEF ViewerTypes
<1> QED BY <1>4, <1>6, <1>7

LEMMA LeaveSeen ==
  ASSUME Types, NEW v \in Viewers, \A u \in Viewers : ViewerInv(u), Leave(v) \/ Travel(v)
  PROVE  ViewerTypes' /\ \A u \in Viewers : ViewerInv(u)'
<1>1. ViewerTypes /\ sequence \in Nat /\ UNCHANGED <<visual, sequence, world, troubled>>
  BY DEF Types, ViewerTypes, Leave, Travel, serverVars
<1>2. CASE Leave(v)
  <2>1. /\ ViewerTypes' /\ at'[v] = "away" /\ down'[v] = <<>>
        /\ latest'[v] = 0 /\ shown'[v] = 0 /\ receiving'[v] = None
    BY <1>1, <1>2, Nothing DEF ViewerTypes, Leave
  <2>2. ViewerInv(v)'
    BY <1>1, <2>1, Nothing, WorldsApart DEF ViewerInv, Away
  <2>3. ASSUME NEW u \in Viewers, u # v PROVE ViewerInv(u)'
    BY <1>1, <1>2, <2>3, Alone DEF ViewerTypes, Leave
  <2> QED BY <2>1, <2>2, <2>3
<1>3. CASE Travel(v)
  <2>1. /\ ViewerTypes' /\ at'[v] = "moved" /\ at[v] # "away"
        /\ UNCHANGED <<down, latest, receiving, shown>>
    BY <1>1, <1>3, WorldsApart DEF ViewerTypes, Travel
  <2>2. ViewerInv(v)'
    BY <1>1, <2>1, WorldsApart DEF ViewerInv, Away
  <2>3. ASSUME NEW u \in Viewers, u # v PROVE ViewerInv(u)'
    BY <1>1, <1>3, <2>3, Alone DEF ViewerTypes, Travel
  <2> QED BY <2>1, <2>2, <2>3
<1> QED BY <1>2, <1>3

LEMMA ExpireSeen ==
  ASSUME Types, NEW v \in Viewers, \A u \in Viewers : ViewerInv(u), Expire(v)
  PROVE  ViewerTypes' /\ \A u \in Viewers : ViewerInv(u)'
<1>1. /\ ViewerTypes /\ sequence \in Nat /\ troubled
      /\ UNCHANGED <<visual, sequence, world, troubled, at, down, latest, shown>>
      /\ receiving' = [receiving EXCEPT ![v] = None]
  BY DEF Types, ViewerTypes, Expire, serverVars
<1>2. ViewerTypes' /\ receiving'[v] = None
  BY <1>1, Nothing DEF ViewerTypes
<1>3. ViewerInv(v)'
  <2>1. Numbered(down[v], latest[v], None, sequence)
    BY <1>1 DEF ViewerInv, Numbered, None
  <2> QED BY <1>1, <1>2, <2>1 DEF ViewerInv, Away
<1>4. ASSUME NEW u \in Viewers, u # v PROVE ViewerInv(u)'
  BY <1>1, <1>4, Alone DEF ViewerTypes
<1> QED BY <1>2, <1>3, <1>4

LEMMA RemovalSeen ==
  ASSUME Types, NEW v \in Viewers, \A u \in Viewers : ViewerInv(u), OnSharedScanRemoved(v)
  PROVE  ViewerTypes' /\ \A u \in Viewers : ViewerInv(u)'
<1> DEFINE q == down[v]
<1>1. /\ ViewerTypes /\ sequence \in Nat
      /\ UNCHANGED <<visual, sequence, world, troubled, at>>
      /\ q # <<>> /\ down' = [down EXCEPT ![v] = Tail(q)]
      /\ q \in Seq(Payload) /\ Head(q).part = 0
  BY DEF Types, ViewerTypes, OnSharedScanRemoved, serverVars
<1>2. /\ Numbered(q, latest[v], receiving[v], sequence) /\ latest[v] \in Nat
      /\ receiving[v].pub \in Nat
  BY <1>1 DEF ViewerInv, ViewerTypes, Transfer
<1>3. Head(q) = q[1] /\ Tail(q) \in Seq(Payload)
  BY <1>1, ReadPayload
<1>4. /\ Numbered(Tail(q), q[1].pub, None, sequence) /\ q[1].pub \in Nat /\ latest[v] <= q[1].pub
  <2>1. None.pub = 0
    BY DEF None
  <2> QED BY <1>1, <1>2, <2>1, RestNumbered
<1>5. /\ latest' = [latest EXCEPT ![v] = q[1].pub] /\ shown' = [shown EXCEPT ![v] = 0]
      /\ receiving' = [receiving EXCEPT ![v] = None]
  <2>1. ~(Head(q).pub < latest[v])
    BY <1>2, <1>3, <1>4
  <2> QED BY <1>3, <2>1 DEF OnSharedScanRemoved
<1> HIDE DEF q
<1>6. ViewerTypes'
  BY <1>1, <1>3, <1>4, <1>5, Nothing DEF ViewerTypes
<1>7. /\ down'[v] = Tail(q) /\ latest'[v] = q[1].pub /\ shown'[v] = 0 /\ receiving'[v] = None
      /\ at[v] # "away"
  BY <1>1, <1>5 DEF ViewerTypes, ViewerInv, Away, q
<1>8. ASSUME ~troubled
      PROVE  Whole(Tail(q), None) /\ Finally(Tail(q), 0) = Finally(q, shown[v])
  <2>1. Whole(q, receiving[v])
    BY <1>8 DEF ViewerInv, q
  <2>2. q[1].part \notin 1 .. Parts - 1
    BY <1>1, <1>3
  <2> QED BY <1>1, <1>2, <1>3, <2>1, <2>2, RestWhole, RestFinally
<1>9. ViewerInv(v)'
  BY <1>1, <1>4, <1>7, <1>8 DEF ViewerInv, Away, Held, q
<1>10. ASSUME NEW u \in Viewers, u # v PROVE ViewerInv(u)'
  BY <1>1, <1>5, <1>10, Alone DEF ViewerTypes
<1> QED BY <1>6, <1>9, <1>10

LEMMA ChunkSeen ==
  ASSUME Types, NEW v \in Viewers, \A u \in Viewers : ViewerInv(u), OnSharedScanChunk(v)
  PROVE  ViewerTypes' /\ \A u \in Viewers : ViewerInv(u)'
<1> DEFINE q == down[v]
           t == Assembled(receiving[v], q[1].pub, q[1], FALSE)
           rest == IF t.parts = All THEN None ELSE t
<1>1. /\ ViewerTypes /\ sequence \in Nat
      /\ UNCHANGED <<visual, sequence, world, troubled, at>>
      /\ q # <<>> /\ down' = [down EXCEPT ![v] = Tail(q)]
      /\ q \in Seq(Payload) /\ Head(q).part # 0
  BY DEF Types, ViewerTypes, OnSharedScanChunk, serverVars
<1>2. /\ Numbered(q, latest[v], receiving[v], sequence) /\ latest[v] \in Nat
      /\ receiving[v] \in Transfer /\ receiving[v].pub \in Nat
  BY <1>1 DEF ViewerInv, ViewerTypes, Transfer
<1>3. Head(q) = q[1] /\ Tail(q) \in Seq(Payload) /\ q[1] \in Payload
  BY <1>1, ReadPayload
<1>4. /\ q[1].pub \in Nat /\ q[1].scan \in Nat /\ q[1].part \in Nat
      /\ t \in Transfer /\ t.pub = q[1].pub
  <2>1. q[1].pub \in Nat /\ q[1].scan \in Nat /\ q[1].part \in Nat
    BY <1>3 DEF Payload
  <2> QED BY <1>2, <2>1 DEF Assembled, Transfer
<1>5. rest \in Transfer /\ rest.pub \in {0, q[1].pub}
  BY <1>4, Nothing DEF None
<1> HIDE DEF t
<1>6. /\ Numbered(Tail(q), q[1].pub, rest, sequence) /\ latest[v] <= q[1].pub
  BY <1>1, <1>2, <1>5, RestNumbered
<1>7. PICK uploaded \in {TRUE, ~troubled} :
        /\ latest' = [latest EXCEPT ![v] = q[1].pub]
        /\ receiving' = [receiving EXCEPT ![v] = rest]
        /\ shown' = [shown EXCEPT ![v] = IF t.parts = All /\ uploaded THEN q[1].pub ELSE @]
  <2>1. ~(q[1].pub < latest[v])
    BY <1>2, <1>4, <1>6
  <2> QED BY <1>3, <2>1 DEF OnSharedScanChunk, t
<1> HIDE DEF q, rest
<1>8. ViewerTypes'
  BY <1>1, <1>3, <1>4, <1>5, <1>7 DEF ViewerTypes
<1>9. /\ down'[v] = Tail(q) /\ latest'[v] = q[1].pub /\ receiving'[v] = rest
      /\ shown'[v] = IF t.parts = All /\ uploaded THEN q[1].pub ELSE shown[v]
      /\ at[v] # "away"
  BY <1>1, <1>7 DEF ViewerTypes, ViewerInv, Away, q
<1>10. ASSUME ~troubled
       PROVE  Whole(Tail(q), rest) /\ Finally(Tail(q), shown'[v]) = Finally(q, shown[v])
  <2>1. Whole(q, receiving[v])
    BY <1>10 DEF ViewerInv, q
  <2>2. Continues(q, receiving[v], 1) /\ Parts \in Nat \ {0}
    BY <1>1, <2>1, ReadPayload, RelayAssumption DEF Whole
  <2>3. q[1].part \in 1 .. Parts
    BY <1>1, <1>3, <2>2 DEF Continues
  <2>4. t = [pub |-> q[1].pub, scan |-> q[1].scan, parts |-> 1 .. q[1].part]
    <3>1. CASE q[1].part = 1
      <4>1. receiving[v].pub # q[1].pub
        BY <1>2, <1>4, <2>2, <3>1 DEF Continues
      <4>2. 1 .. 1 = {1}
        OBVIOUS
      <4> QED BY <3>1, <4>1, <4>2 DEF t, Assembled
    <3>2. CASE q[1].part > 1
      <4>1. receiving[v] = [pub |-> q[1].pub, scan |-> q[1].scan, parts |-> 1 .. q[1].part - 1]
        BY <2>2, <3>2 DEF Continues
      <4>2. (1 .. q[1].part - 1) \cup {q[1].part} = 1 .. q[1].part
        BY <1>4, <3>2
      <4>3. t = [receiving[v] EXCEPT !.parts = @ \cup {q[1].part}]
        BY <4>1 DEF t, Assembled
      <4>4. /\ t.pub = q[1].pub /\ t.scan = q[1].scan
            /\ t.parts = (1 .. q[1].part - 1) \cup {q[1].part}
        BY <1>2, <4>1, <4>3 DEF Transfer
      <4> QED BY <1>4, <4>2, <4>4 DEF Transfer
    <3> QED BY <2>3, <3>1, <3>2
  <2>5. t.parts = All <=> q[1].part = Parts
    <3>1. t.parts = 1 .. q[1].part
      BY <2>4
    <3>2. q[1].part # Parts => Parts \in All /\ Parts \notin 1 .. q[1].part
      BY <2>2, <2>3 DEF All
    <3> QED BY <3>1, <3>2 DEF All
  <2>6. rest = IF q[1].part \in 1 .. Parts - 1
               THEN [pub |-> q[1].pub, scan |-> q[1].scan, parts |-> 1 .. q[1].part] ELSE None
    BY <2>2, <2>3, <2>4, <2>5 DEF rest
  <2>7. Whole(Tail(q), rest)
    BY <1>1, <1>2, <2>1, <2>6, RestWhole
  <2>8. /\ q[1].part = Parts => Finally(Tail(q), q[1].pub) = Finally(q, shown[v])
        /\ q[1].part \in 1 .. Parts - 1 => Finally(Tail(q), shown[v]) = Finally(q, shown[v])
    BY <1>1, <2>1, RestFinally
  <2>9. q[1].part = Parts \/ q[1].part \in 1 .. Parts - 1
    BY <2>2, <2>3
  <2> QED BY <1>9, <1>10, <2>2, <2>5, <2>7, <2>8, <2>9
<1>11. ViewerInv(v)'
  BY <1>1, <1>6, <1>9, <1>10 DEF ViewerInv, Away, Held, q
<1>12. ASSUME NEW u \in Viewers, u # v PROVE ViewerInv(u)'
  BY <1>1, <1>7, <1>12, Alone DEF ViewerTypes
<1> QED BY <1>8, <1>11, <1>12

LEMMA ViewerStep ==
  ASSUME IInv, NEW v \in Viewers,
         \/ \E w \in Worlds : Join(v, w)
         \/ Leave(v) \/ Travel(v) \/ OnSharedScanChunk(v) \/ OnSharedScanRemoved(v) \/ Expire(v)
  PROVE  IInv'
<1>1. Types /\ InstallsInOrder /\ VisualKnown /\ \A u \in Viewers : ViewerInv(u)
  BY DEF IInv
<1>2. ViewerTypes' /\ \A u \in Viewers : ViewerInv(u)'
  BY <1>1, JoinSeen, LeaveSeen, ExpireSeen, RemovalSeen, ChunkSeen
<1>3. UNCHANGED <<ownerVars, world, serverVars, troubled>>
  BY DEF Join, Leave, Travel, OnSharedScanChunk, OnSharedScanRemoved, Expire
<1>4. Types'
  BY <1>1, <1>2, <1>3 DEF Types, ViewerTypes, ownerVars, serverVars
<1>5. InstallsInOrder' /\ VisualKnown'
  BY <1>1, <1>3 DEF InstallsInOrder, VisualKnown, ownerVars, serverVars
<1> QED BY <1>1, <1>2, <1>4, <1>5 DEF IInv

-----------------------------------------------------------------------------
(* What the owner and the server do. *)

LEMMA QuietStep ==
  ASSUME Types, VisualKnown, \A v \in Viewers : ViewerInv(v),
         UNCHANGED <<world, visual, sequence, ticked, viewerVars, troubled>>
  PROVE  ViewerTypes' /\ sequence' \in Nat /\ VisualKnown' /\ \A v \in Viewers : ViewerInv(v)'
<1>1. ViewerTypes' /\ sequence' \in Nat /\ VisualKnown'
  BY DEF Types, ViewerTypes, VisualKnown, viewerVars
<1>2. \A v \in Viewers : ViewerInv(v)'
  BY QuietSeen DEF viewerVars
<1> QED BY <1>1, <1>2

LEMMA OwnerStep ==
  ASSUME IInv, SendInstall \/ SendClear \/ OnAck \/ SendPart
  PROVE  IInv'
<1>1. Types /\ InstallsInOrder /\ VisualKnown /\ \A u \in Viewers : ViewerInv(u)
  BY DEF IInv
<1>2. UNCHANGED <<world, serverVars, viewerVars, troubled>>
  BY DEF SendInstall, SendClear, OnAck, SendPart
<1>3. ViewerTypes' /\ VisualKnown' /\ \A u \in Viewers : ViewerInv(u)'
  BY <1>1, <1>2, QuietStep DEF serverVars
<1>4. /\ installs \in Nat /\ lastCleared \in Nat /\ lastCleared <= installs
      /\ IsSeq(up) /\ IsSeq(out) /\ Ahead(accepted, up, lastCleared, installs)
      /\ \A i \in DOMAIN accepted :
           /\ accepted[i].scan \in Nat
           /\ lastCleared < accepted[i].scan /\ accepted[i].scan <= installs
  <2>1. accepted \in Seq(Accepted)
    BY <1>1 DEF Types
  <2>2. \A i \in DOMAIN accepted : accepted[i].scan \in Nat
    <3>1. \A i \in DOMAIN accepted : accepted[i] \in Accepted
      BY <2>1
    <3> QED BY <3>1 DEF Accepted
  <2> QED BY <1>1, <2>2 DEF Types, InstallsInOrder
<1> DEFINE Sent ==
      /\ installs' \in Nat /\ installs <= installs' /\ IsSeq(up')
      /\ Ahead(accepted, up', lastCleared, installs')
      /\ IsSeq(out') /\ \A k \in DOMAIN out' : out'[k].type = "part"
<1>5. ASSUME SendInstall PROVE Sent
  <2>1. /\ installs' = installs + 1 /\ out' = out
        /\ up' = Append(up, [type |-> "install", scan |-> installs + 1])
    BY <1>5 DEF SendInstall, Send
  <2>2. IsSeq(up') /\ Ahead(accepted, up', lastCleared, installs')
    BY <1>4, <2>1, Appended, InstallSentAhead
  <2>3. Sent
    BY <1>1, <1>4, <2>1, <2>2 DEF Types
  <2> QED BY <2>3
<1>6. ASSUME SendClear PROVE Sent
  <2>1. installs' = installs /\ out' = out /\ up' = Append(up, [type |-> "clear"])
    BY <1>6 DEF SendClear, Send
  <2>2. [type |-> "clear"].type # "install"
    OBVIOUS
  <2>3. IsSeq(up') /\ Ahead(accepted, up', lastCleared, installs')
    BY <1>4, <2>1, <2>2, Appended, OtherSentAhead
  <2> QED BY <1>1, <1>4, <2>1, <2>3 DEF Types
<1>7. ASSUME OnAck PROVE Sent
  <2>1. installs' = installs /\ up' = up
    BY <1>7 DEF OnAck
  <2>2. IsSeq(out') /\ \A k \in DOMAIN out' : out'[k].type = "part"
    <3> DEFINE parts == [i \in All |-> [type |-> "part", scan |-> Head(answers), part |-> i]]
    <3>1. IsSeq(parts) /\ \A k \in DOMAIN parts : parts[k].type = "part"
      <4>1. Parts \in Nat
        BY RelayAssumption
      <4>2. parts \in Seq({parts[i] : i \in 1 .. Parts}) /\ DOMAIN parts = 1 .. Parts
        BY <4>1 DEF All
      <4> QED BY <4>2, OwnRange DEF All
    <3>2. out' = parts \/ out' = out \/ out' = <<>>
      BY <1>7 DEF OnAck
    <3>3. IsSeq(<<>>) /\ DOMAIN <<>> = {}
      BY DEF IsSeq
    <3> HIDE DEF parts
    <3> QED BY <1>1, <3>1, <3>2, <3>3 DEF Types
  <2> QED BY <1>4, <2>1, <2>2
<1>8. ASSUME SendPart PROVE Sent
  <2>1. /\ installs' = installs /\ out # <<>> /\ out' = Tail(out)
        /\ up' = Append(up, Head(out))
    BY <1>8 DEF SendPart, Send
  <2>2. /\ IsSeq(out') /\ \A k \in DOMAIN out' : out'[k].type = "part"
        /\ Head(out).type = "part"
    <3>1. /\ IsSeq(Tail(out)) /\ Len(out) \in Nat \ {0} /\ DOMAIN out = 1 .. Len(out)
          /\ DOMAIN Tail(out) = 1 .. Len(out) - 1
          /\ \A i \in 1 .. Len(out) - 1 : Tail(out)[i] = out[i + 1]
          /\ Head(out) = out[1]
      BY <1>4, <2>1, Read
    <3>2. \A k \in DOMAIN out : out[k].type = "part"
      BY <1>1 DEF Types
    <3> QED BY <2>1, <3>1, <3>2
  <2>3. IsSeq(up') /\ Ahead(accepted, up', lastCleared, installs')
    <3>1. Head(out).type # "install"
      BY <2>2
    <3> QED BY <1>4, <2>1, <3>1, Appended, OtherSentAhead
  <2> QED BY <1>4, <2>1, <2>2, <2>3
<1>9. Sent
  BY <1>5, <1>6, <1>7, <1>8
<1>10. Types'
  BY <1>1, <1>2, <1>3, <1>9 DEF Types, ViewerTypes, serverVars
<1>11. InstallsInOrder'
  <2>1. \A i \in DOMAIN accepted : accepted[i].scan <= installs'
    BY <1>4, <1>9
  <2> QED BY <1>2, <1>4, <1>9, <2>1 DEF InstallsInOrder, serverVars
<1> QED BY <1>3, <1>10, <1>11 DEF IInv

\* A step of the server that reads a payload of the owner, or none, and touches its visual
\* in one of three ways.
Touches ==
    \/ UNCHANGED <<visual, sequence, down>> /\ VisualKnown'
    \/ RemoveVisual
    \/ \E i \in DOMAIN accepted : Publish(accepted[i]) /\ UNCHANGED world

LEMMA TouchesSeen ==
  ASSUME Types, VisualKnown, \A v \in Viewers : ViewerInv(v), Touches, world' \in Worlds,
         UNCHANGED world \/ RemoveVisual,
         UNCHANGED <<at, latest, receiving, shown, troubled>>
  PROVE  ViewerTypes' /\ sequence' \in Nat /\ VisualKnown' /\ \A v \in Viewers : ViewerInv(v)'
<1>1. ViewerTypes /\ sequence \in Nat
  BY DEF Types, ViewerTypes
<1>2. CASE RemoveVisual
  BY <1>1, <1>2, RemoveTyped, RemoveSeen DEF ViewerTypes
<1>3. CASE UNCHANGED <<visual, sequence, down, world>> /\ VisualKnown'
  BY <1>1, <1>3, QuietSeen DEF ViewerTypes
<1>4. ASSUME NEW i \in DOMAIN accepted, Publish(accepted[i]), UNCHANGED world
      PROVE  ViewerTypes' /\ sequence' \in Nat /\ VisualKnown' /\ \A v \in Viewers : ViewerInv(v)'
  BY <1>1, <1>4, PublishTyped, PublishSeen DEF ViewerTypes
<1> QED BY <1>2, <1>3, <1>4 DEF Touches

LEMMA ServerStep ==
  ASSUME IInv, OnInstall \/ OnClear \/ OnScanChunk \/ ChangeWorld \/ Tick \/ OwnerLeaves
  PROVE  IInv' /\ (visual'.scan # visual.scan => visual'.scan \notin 1 .. lastCleared)
<1>1. Types /\ InstallsInOrder /\ VisualKnown /\ \A u \in Viewers : ViewerInv(u)
  BY DEF IInv
<1>2. /\ installs \in Nat /\ lastCleared \in Nat /\ lastCleared <= installs
      /\ IsSeq(up) /\ IsSeq(out) /\ accepted \in Seq(Accepted)
      /\ \A k \in DOMAIN out : out[k].type = "part"
      /\ Ahead(accepted, up, lastCleared, installs) /\ world \in Worlds
      /\ \A i \in DOMAIN accepted :
           /\ accepted[i] \in Accepted /\ accepted[i].scan \in Nat
           /\ lastCleared < accepted[i].scan /\ accepted[i].scan <= installs
  <2>1. /\ accepted \in Seq(Accepted) /\ installs \in Nat /\ lastCleared \in Nat /\ world \in Worlds
        /\ IsSeq(up) /\ IsSeq(out) /\ \A k \in DOMAIN out : out[k].type = "part"
    BY <1>1 DEF Types
  <2>2. \A i \in DOMAIN accepted : accepted[i] \in Accepted
    BY <2>1
  <2>3. \A i \in DOMAIN accepted : accepted[i].scan \in Nat
    BY <2>2 DEF Accepted
  <2> QED BY <1>1, <2>1, <2>2, <2>3 DEF InstallsInOrder
<1>3. UNCHANGED <<installs, at, latest, receiving, shown, troubled>>
  BY DEF OnInstall, OnClear, OnScanChunk, ChangeWorld, Tick, OwnerLeaves, ownerVars, viewerVars
<1>4. /\ world' \in Worlds /\ (UNCHANGED world \/ RemoveVisual)
      /\ Touches
  <2>1. CASE OnInstall
    BY <1>1, <1>2, <2>1 DEF OnInstall, Touches, viewerVars, VisualKnown
  <2>2. CASE OnClear
    BY <1>2, <2>2 DEF OnClear, Touches
  <2>3. CASE OnScanChunk
    <3>1. UNCHANGED world
      BY <2>3 DEF OnScanChunk
    <3>2. UNCHANGED <<visual, sequence, ticked, down>> \/ \E i \in DOMAIN accepted : Publish(accepted[i])
      BY <2>3 DEF OnScanChunk
    <3> QED BY <1>1, <1>2, <3>1, <3>2 DEF Touches, VisualKnown
  <2>4. CASE ChangeWorld
    BY <2>4 DEF ChangeWorld, Touches
  <2>5. CASE Tick
    BY <1>1, <1>2, <2>5 DEF Tick, Touches, VisualKnown
  <2>6. CASE OwnerLeaves
    BY <1>2, <2>6 DEF OwnerLeaves, Touches
  <2> QED BY <2>1, <2>2, <2>3, <2>4, <2>5, <2>6
<1>5. ViewerTypes' /\ sequence' \in Nat /\ VisualKnown' /\ \A v \in Viewers : ViewerInv(v)'
  BY <1>1, <1>3, <1>4, TouchesSeen
<1>6. visual'.scan # visual.scan => visual'.scan \notin 1 .. lastCleared
  <2>1. CASE RemoveVisual
    BY <1>1, <2>1, RemoveTyped, WorldsApart
  <2>2. ASSUME NEW i \in DOMAIN accepted, Publish(accepted[i])
        PROVE  visual'.scan \notin 1 .. lastCleared
    <3>1. visual'.scan = accepted[i].scan
      BY <2>2 DEF Publish
    <3> QED BY <1>2, <3>1
  <2> QED BY <1>4, <2>1, <2>2 DEF Touches
<1> DEFINE Ordered ==
      /\ lastCleared' \in Nat /\ lastCleared' <= installs
      /\ IsSeq(up') /\ IsSeq(out') /\ accepted' \in Seq(Accepted)
      /\ \A k \in DOMAIN out' : out'[k].type = "part"
      /\ Ahead(accepted', up', lastCleared', installs)
      /\ \A i \in DOMAIN accepted' :
           lastCleared' < accepted'[i].scan /\ accepted'[i].scan <= installs
<1>7. ASSUME OnInstall PROVE Ordered
  <2>1. /\ up # <<>> /\ up' = Tail(up) /\ Head(up).type = "install"
        /\ accepted' = Append(accepted, [scan |-> Head(up).scan, world |-> world])
        /\ UNCHANGED <<out, lastCleared>>
    BY <1>7 DEF OnInstall, Arrives
  <2>2. IsSeq(up')
    BY <1>2, <2>1, Read
  <2>3. /\ Head(up).scan \in Nat /\ lastCleared < Head(up).scan /\ Head(up).scan <= installs
        /\ accepted' \in Seq(Accepted) /\ Ahead(accepted', up', lastCleared, installs)
    BY <1>2, <2>1, AcceptedAhead
  <2>4. \A i \in DOMAIN accepted' : lastCleared < accepted'[i].scan /\ accepted'[i].scan <= installs
    <3> DEFINE new == [scan |-> Head(up).scan, world |-> world]
    <3>1. new \in Accepted /\ new.scan = Head(up).scan
      BY <1>2, <2>3 DEF Accepted
    <3>2. accepted' = Append(accepted, new)
      BY <2>1
    <3> HIDE DEF new
    <3>3. \A i \in DOMAIN accepted' :
            (i \in DOMAIN accepted /\ accepted'[i] = accepted[i]) \/ accepted'[i] = new
      BY <1>2, <3>1, <3>2
    <3> QED BY <1>2, <2>3, <3>1, <3>3
  <2> QED BY <1>2, <2>1, <2>2, <2>3, <2>4
<1>8. ASSUME OnClear PROVE Ordered
  <2>1. /\ up # <<>> /\ up' = Tail(up) /\ accepted' = <<>> /\ out' = out
        /\ lastCleared' = IF accepted = <<>> THEN lastCleared ELSE Last(accepted).scan
    BY <1>8 DEF OnClear, Arrives, ForgetAccepted
  <2>2. IsSeq(up') /\ Ahead(accepted, up', lastCleared, installs)
    BY <1>2, <2>1, Read, ReadAhead
  <2>3. accepted' \in Seq(Accepted) /\ DOMAIN accepted' = {}
    BY <2>1
  <2>4. \/ lastCleared' = lastCleared
        \/ \E i \in DOMAIN accepted : lastCleared' = accepted[i].scan
    <3>1. CASE accepted = <<>>
      BY <2>1, <3>1
    <3>2. CASE accepted # <<>>
      <4>1. Len(accepted) \in DOMAIN accepted
        BY <1>2, <3>2
      <4> QED BY <2>1, <3>2, <4>1 DEF Last
    <3> QED BY <3>1, <3>2
  <2>5. lastCleared' \in Nat /\ lastCleared' <= installs
    BY <1>2, <2>4
  <2>6. Ahead(accepted', up', lastCleared', installs)
    <3>1. \A k \in DOMAIN up' : up'[k].type = "install" => lastCleared' < up'[k].scan
      BY <2>2, <2>4 DEF Ahead
    <3> QED BY <2>2, <2>3, <3>1 DEF Ahead
  <2> QED BY <1>2, <2>1, <2>2, <2>3, <2>5, <2>6
<1>9. ASSUME OnScanChunk PROVE Ordered
  <2>1. up # <<>> /\ up' = Tail(up) /\ UNCHANGED <<accepted, out, lastCleared>>
    BY <1>9 DEF OnScanChunk, Arrives
  <2>2. IsSeq(up') /\ Ahead(accepted, up', lastCleared, installs)
    BY <1>2, <2>1, Read, ReadAhead
  <2> QED BY <1>2, <2>1, <2>2
<1>10. ASSUME ChangeWorld \/ Tick PROVE Ordered
  <2>1. UNCHANGED <<up, accepted, out, lastCleared>>
    BY <1>10 DEF ChangeWorld, Tick, ownerVars
  <2> QED BY <1>2, <2>1
<1>11. ASSUME OwnerLeaves PROVE Ordered
  <2>1. accepted' = <<>> /\ out' = <<>> /\ up' = <<>> /\ UNCHANGED lastCleared
    BY <1>11 DEF OwnerLeaves
  <2>2. IsSeq(<<>>) /\ <<>> \in Seq(Accepted) /\ DOMAIN <<>> = {}
    BY DEF IsSeq
  <2> QED BY <1>2, <2>1, <2>2 DEF Ahead
<1>12. Ordered
  BY <1>7, <1>8, <1>9, <1>10, <1>11
<1>13. Types' /\ InstallsInOrder'
  BY <1>2, <1>3, <1>4, <1>5, <1>12 DEF Types, ViewerTypes, InstallsInOrder
<1> QED BY <1>5, <1>6, <1>13 DEF IInv

LEMMA InitIInv == Init => IInv
<1> SUFFICES ASSUME Init PROVE IInv
  OBVIOUS
<1>1. IsSeq(<<>>) /\ DOMAIN <<>> = {} /\ <<>> \in Seq(Accepted) /\ <<>> \in Seq(Payload)
  BY DEF IsSeq
<1>2. Types
  BY <1>1, Nothing DEF Init, Types
<1>3. InstallsInOrder /\ VisualKnown
  BY <1>1, WorldsApart DEF Init, InstallsInOrder, Ahead, VisualKnown
<1>4. ASSUME NEW v \in Viewers PROVE ViewerInv(v)
  <2>1. /\ at[v] = "away" /\ down[v] = <<>> /\ latest[v] = 0 /\ shown[v] = 0
        /\ receiving[v] = None /\ sequence = 0
    BY DEF Init
  <2> QED BY <2>1, Nothing, WorldsApart DEF ViewerInv, Away
<1> QED BY <1>2, <1>3, <1>4 DEF IInv

LEMMA StutterStep ==
  ASSUME IInv, UNCHANGED vars
  PROVE  IInv'
<1>1. Types /\ InstallsInOrder /\ VisualKnown /\ \A u \in Viewers : ViewerInv(u)
  BY DEF IInv
<1>2. ViewerTypes' /\ VisualKnown' /\ \A u \in Viewers : ViewerInv(u)'
  BY <1>1, QuietStep DEF vars, serverVars
<1>3. Types' /\ InstallsInOrder'
  BY <1>1, <1>2 DEF vars, ownerVars, serverVars, Types, ViewerTypes, InstallsInOrder
<1> QED BY <1>2, <1>3 DEF IInv

LEMMA Invariance == Spec => []IInv
<1>1. IInv /\ [Next]_vars => IInv'
  BY OwnerStep, ServerStep, ViewerStep, StutterStep DEF Next
<1> QED BY <1>1, InitIInv, PTL DEF Spec

-----------------------------------------------------------------------------
\* Once it has read what it was sent, a viewer shows the publication the server holds for
\* the world it joined, or nothing (broadcast, replaySharedVisuals, removeSharedVisual,
\* ScanTransfer).
THEOREM ViewersCatchUp == Spec => []ViewersAgree
<1>1. IInv => ViewersAgree
  <2> SUFFICES ASSUME IInv, NEW v \in Viewers, ~troubled, at[v] \in Worlds, down[v] = <<>>,
                      visual.world \in {world, "none"}
               PROVE  shown[v] = IF visual.world = at[v] THEN visual.pub ELSE 0
    BY DEF ViewersAgree
  <2>1. Finally(down[v], shown[v]) = Held(at[v])
    BY DEF IInv, ViewerInv
  <2> QED BY <2>1 DEF Finally, Held
<1> QED BY <1>1, Invariance, PTL

\* A scan that was cleared is never published again, whatever parts of it were still under
\* way (handleClear, acceptedInstalls).
THEOREM ClearedNotRevived == Spec => ClearedStaysCleared
<1>1. IInv /\ [Next]_vars => [visual'.scan # visual.scan => visual'.scan \notin 1 .. lastCleared]_vars
  <2> SUFFICES ASSUME IInv, Next, visual'.scan # visual.scan
               PROVE  visual'.scan \notin 1 .. lastCleared
    OBVIOUS
  <2>1. CASE UNCHANGED visual
    BY <2>1
  <2>2. CASE OnInstall \/ OnClear \/ OnScanChunk \/ ChangeWorld \/ Tick \/ OwnerLeaves
    BY <2>2, ServerStep
  <2> QED
    BY <2>1, <2>2 DEF Next, SendInstall, SendClear, OnAck, SendPart, Join, Leave, Travel,
                      OnSharedScanChunk, OnSharedScanRemoved, Expire, serverVars
<1> QED BY <1>1, Invariance, PTL DEF Spec, ClearedStaysCleared

\* A late part may publish a scan in a world its owner has left, but the server holds such
\* a visual only until its next tick, and publishes nothing else before that
\* (AFTER_PLAYER_CHANGE_WORLD, onTick).
THEOREM LeftWorldUntilTick == Spec => [](visual.world \notin {world, "none"} => ~ticked)
<1>1. IInv => (visual.world \notin {world, "none"} => ~ticked)
  BY DEF IInv, VisualKnown
<1> QED BY <1>1, Invariance, PTL

=============================================================================
