------------------------ MODULE SnapshotInstallProofs ------------------------
(***************************************************************************)
(* Proofs about SnapshotInstall for any number of frames, sessions,        *)
(* bindings, pending installs and payloads under way, and every situation. *)
(*                                                                         *)
(* What the client shows the server has accepted (AcceptedBeforeShown) and *)
(* nothing can be hit while tracking is lost (LostIsSafe) rest on the      *)
(* order of what is on its way. Installs travel in the order of their      *)
(* frames, between the cursor of the server and the latest frame of the    *)
(* client (Ordered), so no acceptance is ahead of the cursor (Covered).    *)
(* During a run of unusable frames a clear travels behind every install    *)
(* (Silenced): the flag of the run is what keeps it there.                 *)
(*                                                                         *)
(* The answers to clears are told apart (AnswersToldApart) because the way *)
(* from the client to the server and back is one queue: Way is what the    *)
(* client will read, then what the server will, and each step of the       *)
(* server moves a payload past nothing but payloads of another kind        *)
(* (Comes).                                                                *)
(*                                                                         *)
(* What can be hit is what is shown, and the reverse                       *)
(* (HitsFollowThePicture, ShownIsHittable), because of the snapshot the    *)
(* client asked for last: while no clear travels behind it, it is pending, *)
(* or shown, or came too late.                                             *)
(***************************************************************************)
EXTENDS SnapshotInstall, FiniteSetTheorems, WellFoundedInduction, TLAPS

IsSeq(s) == s \in Seq({s[i] : i \in DOMAIN s})

Frame(m) == m.snapshot.frame

Ordered(channel, low, high) ==
    \A i \in DOMAIN channel : channel[i].type = "install" =>
        /\ Frame(channel[i]) \in Nat \ {0}
        /\ low <= Frame(channel[i]) /\ Frame(channel[i]) <= high
        /\ \A j \in DOMAIN channel :
              i < j /\ channel[j].type = "install" => Frame(channel[i]) <= Frame(channel[j])

Covered(channel, top) ==
    \A i \in DOMAIN channel : channel[i].type = "ack" /\ channel[i].accepted =>
        Frame(channel[i]) \in Nat \ {0} /\ Frame(channel[i]) <= top

Silenced(channel, snapshot) ==
    /\ \A i \in DOMAIN channel : channel[i].type = "install" =>
          \E j \in DOMAIN channel : i < j /\ channel[j].type = "clear"
    /\ snapshot # None => \E j \in DOMAIN channel : channel[j].type = "clear"

Channels == IsSeq(toServer) /\ IsSeq(toClient)

InstallsInOrder ==
    latest \in Nat /\ cursor \in Nat /\ cursor <= latest /\ Ordered(toServer, cursor, latest)

AcksCovered == Covered(toClient, cursor)

ActiveCovered ==
    active # None => active.frame \in Nat \ {0} /\ active.frame <= cursor /\ active.binding = mine

PendingMine == \A p \in pending : p.binding = mine

LostSilenced ==
    /\ ~joined => ~streak
    /\ streak => ~usable /\ Silenced(toServer, stored)

IInv == Channels /\ InstallsInOrder /\ AcksCovered /\ ActiveCovered /\ PendingMine /\ LostSilenced

-----------------------------------------------------------------------------
(* Channels. *)

LEMMA OwnRange ==
  ASSUME NEW S, NEW s \in Seq(S)
  PROVE  IsSeq(s)
BY DEF IsSeq

LEMMA Appended ==
  ASSUME NEW s, IsSeq(s), NEW x
  PROVE  /\ IsSeq(Append(s, x))
         /\ Len(s) \in Nat
         /\ DOMAIN s = 1 .. Len(s)
         /\ DOMAIN Append(s, x) = 1 .. Len(s) + 1
         /\ \A i \in 1 .. Len(s) : Append(s, x)[i] = s[i]
         /\ Append(s, x)[Len(s) + 1] = x
<1> DEFINE S == {s[i] : i \in DOMAIN s} \cup {x}
<1>1. s \in Seq(S)
  BY DEF IsSeq
<1> HIDE DEF S
<1>2. x \in S
  BY DEF S
<1>3. /\ Append(s, x) \in Seq(S) /\ Len(s) \in Nat /\ DOMAIN s = 1 .. Len(s)
      /\ DOMAIN Append(s, x) = 1 .. Len(s) + 1
      /\ \A i \in 1 .. Len(s) : Append(s, x)[i] = s[i]
      /\ Append(s, x)[Len(s) + 1] = x
  BY <1>1, <1>2
<1>4. IsSeq(Append(s, x))
  BY <1>3 DEF IsSeq
<1> QED BY <1>3, <1>4

LEMMA Received ==
  ASSUME NEW s, IsSeq(s), s # <<>>
  PROVE  /\ IsSeq(Tail(s))
         /\ Len(s) \in Nat /\ Len(s) >= 1
         /\ DOMAIN s = 1 .. Len(s)
         /\ DOMAIN Tail(s) = 1 .. Len(s) - 1
         /\ \A i \in 1 .. Len(s) - 1 : Tail(s)[i] = s[i + 1]
         /\ Head(s) = s[1]
<1> DEFINE S == {s[i] : i \in DOMAIN s}
<1>1. s \in Seq(S)
  BY DEF IsSeq
<1> HIDE DEF S
<1>2. /\ Tail(s) \in Seq(S) /\ Len(s) \in Nat /\ Len(s) >= 1
      /\ DOMAIN s = 1 .. Len(s)
      /\ DOMAIN Tail(s) = 1 .. Len(s) - 1
      /\ \A i \in 1 .. Len(s) - 1 : Tail(s)[i] = s[i + 1]
      /\ Head(s) = s[1]
  BY <1>1
<1>3. IsSeq(Tail(s))
  BY <1>2, OwnRange
<1> QED BY <1>2, <1>3

LEMMA Empty == IsSeq(<<>>) /\ DOMAIN <<>> = {}
BY DEF IsSeq

LEMMA InstallSent ==
  ASSUME NEW ch, IsSeq(ch), NEW low \in Nat, NEW high \in Nat, NEW top \in Nat \ {0},
         NEW s, s.frame = top, Ordered(ch, low, high), high <= top, low <= top
  PROVE  Ordered(Append(ch, InstallPayload(s)), low, top)
<1> DEFINE sent == Append(ch, InstallPayload(s))
<1>1. /\ Len(ch) \in Nat /\ DOMAIN ch = 1 .. Len(ch) /\ DOMAIN sent = 1 .. Len(ch) + 1
      /\ \A i \in 1 .. Len(ch) : sent[i] = ch[i]
      /\ sent[Len(ch) + 1] = InstallPayload(s)
  BY Appended
<1>2. Frame(InstallPayload(s)) = top
  BY DEF Frame, InstallPayload
<1> HIDE DEF sent
<1>3. SUFFICES ASSUME NEW i \in DOMAIN sent, sent[i].type = "install"
               PROVE  /\ Frame(sent[i]) \in Nat \ {0}
                      /\ low <= Frame(sent[i]) /\ Frame(sent[i]) <= top
                      /\ \A j \in DOMAIN sent :
                            i < j /\ sent[j].type = "install" => Frame(sent[i]) <= Frame(sent[j])
  BY DEF Ordered, sent
<1>4. CASE i = Len(ch) + 1
  BY <1>1, <1>2, <1>4
<1>5. CASE i \in DOMAIN ch
  <2>1. /\ Frame(ch[i]) \in Nat \ {0} /\ low <= Frame(ch[i]) /\ Frame(ch[i]) <= high
        /\ \A j \in DOMAIN ch : i < j /\ ch[j].type = "install" => Frame(ch[i]) <= Frame(ch[j])
    BY <1>1, <1>3, <1>5 DEF Ordered
  <2> QED BY <1>1, <1>2, <1>5, <2>1
<1> QED BY <1>1, <1>3, <1>4, <1>5

LEMMA OtherSent ==
  ASSUME NEW ch, IsSeq(ch), NEW low \in Nat, NEW high \in Nat, NEW m, m.type # "install",
         Ordered(ch, low, high)
  PROVE  Ordered(Append(ch, m), low, high)
<1>1. /\ Len(ch) \in Nat /\ DOMAIN ch = 1 .. Len(ch) /\ DOMAIN Append(ch, m) = 1 .. Len(ch) + 1
      /\ \A i \in 1 .. Len(ch) : Append(ch, m)[i] = ch[i]
      /\ Append(ch, m)[Len(ch) + 1] = m
  BY Appended
<1> QED BY <1>1 DEF Ordered

LEMMA OrderedRaised ==
  ASSUME NEW ch, NEW low \in Nat, NEW high \in Nat, NEW top \in Nat, high <= top,
         Ordered(ch, low, high)
  PROVE  Ordered(ch, low, top)
BY DEF Ordered

LEMMA OrderedRead ==
  ASSUME NEW ch, IsSeq(ch), ch # <<>>, NEW low \in Nat, NEW high \in Nat, Ordered(ch, low, high)
  PROVE  /\ Ordered(Tail(ch), low, high)
         /\ Head(ch).type = "install" =>
              /\ Frame(Head(ch)) \in Nat \ {0} /\ Frame(Head(ch)) <= high
              /\ low <= Frame(Head(ch))
              /\ Ordered(Tail(ch), Frame(Head(ch)), high)
<1>1. /\ Len(ch) \in Nat /\ Len(ch) >= 1
      /\ DOMAIN ch = 1 .. Len(ch) /\ DOMAIN Tail(ch) = 1 .. Len(ch) - 1
      /\ \A i \in 1 .. Len(ch) - 1 : Tail(ch)[i] = ch[i + 1]
      /\ Head(ch) = ch[1]
  BY Received
<1>2. Ordered(Tail(ch), low, high)
  BY <1>1 DEF Ordered
<1>3. ASSUME Head(ch).type = "install"
      PROVE  /\ Frame(Head(ch)) \in Nat \ {0} /\ Frame(Head(ch)) <= high
             /\ low <= Frame(Head(ch))
             /\ Ordered(Tail(ch), Frame(Head(ch)), high)
  <2>1. /\ Frame(ch[1]) \in Nat \ {0} /\ low <= Frame(ch[1]) /\ Frame(ch[1]) <= high
        /\ \A j \in DOMAIN ch : 1 < j /\ ch[j].type = "install" => Frame(ch[1]) <= Frame(ch[j])
    BY <1>1, <1>3 DEF Ordered
  <2>2. Ordered(Tail(ch), Frame(ch[1]), high)
    BY <1>1, <1>2, <2>1 DEF Ordered
  <2> QED BY <1>1, <2>1, <2>2
<1> QED BY <1>2, <1>3

LEMMA CoveredRaised ==
  ASSUME NEW ch, NEW low \in Nat, NEW top \in Nat, low <= top, Covered(ch, low)
  PROVE  Covered(ch, top)
BY DEF Covered

LEMMA AnswerSent ==
  ASSUME NEW ch, IsSeq(ch), NEW top \in Nat, Covered(ch, top), NEW m,
         m.type = "ack" /\ m.accepted => Frame(m) \in Nat \ {0} /\ Frame(m) <= top
  PROVE  Covered(Append(ch, m), top)
<1>1. /\ Len(ch) \in Nat /\ DOMAIN ch = 1 .. Len(ch) /\ DOMAIN Append(ch, m) = 1 .. Len(ch) + 1
      /\ \A i \in 1 .. Len(ch) : Append(ch, m)[i] = ch[i]
      /\ Append(ch, m)[Len(ch) + 1] = m
  BY Appended
<1> QED BY <1>1 DEF Covered

LEMMA CoveredRead ==
  ASSUME NEW ch, IsSeq(ch), ch # <<>>, NEW top, Covered(ch, top)
  PROVE  /\ Covered(Tail(ch), top)
         /\ Head(ch).type = "ack" /\ Head(ch).accepted =>
              Frame(Head(ch)) \in Nat \ {0} /\ Frame(Head(ch)) <= top
<1>1. /\ Len(ch) \in Nat /\ Len(ch) >= 1
      /\ DOMAIN ch = 1 .. Len(ch) /\ DOMAIN Tail(ch) = 1 .. Len(ch) - 1
      /\ \A i \in 1 .. Len(ch) - 1 : Tail(ch)[i] = ch[i + 1]
      /\ Head(ch) = ch[1]
  BY Received
<1>2. \A i \in 1 .. Len(ch) - 1 : i + 1 \in DOMAIN ch
  BY <1>1
<1> QED BY <1>1, <1>2 DEF Covered

\* Behind a clear nothing survives.
LEMMA ClearSilences ==
  ASSUME NEW ch, IsSeq(ch), NEW keep, NEW snapshot
  PROVE  Silenced(Append(ch, ClearPayload(keep)), snapshot)
<1>1. /\ Len(ch) \in Nat /\ DOMAIN Append(ch, ClearPayload(keep)) = 1 .. Len(ch) + 1
      /\ Append(ch, ClearPayload(keep))[Len(ch) + 1] = ClearPayload(keep)
  BY Appended
<1>2. ClearPayload(keep).type = "clear"
  BY DEF ClearPayload
<1> QED BY <1>1, <1>2 DEF Silenced

LEMMA InstallReadSilenced ==
  ASSUME NEW ch, IsSeq(ch), ch # <<>>, NEW before, Silenced(ch, before),
         Head(ch).type = "install", NEW after
  PROVE  Silenced(Tail(ch), after)
<1>1. /\ Len(ch) \in Nat /\ Len(ch) >= 1
      /\ DOMAIN ch = 1 .. Len(ch) /\ DOMAIN Tail(ch) = 1 .. Len(ch) - 1
      /\ \A i \in 1 .. Len(ch) - 1 : Tail(ch)[i] = ch[i + 1]
      /\ Head(ch) = ch[1]
  BY Received
<1>2. PICK j \in DOMAIN ch : 1 < j /\ ch[j].type = "clear"
  BY <1>1 DEF Silenced
<1>3. j - 1 \in DOMAIN Tail(ch) /\ Tail(ch)[j - 1].type = "clear"
  BY <1>1, <1>2
<1>4. ASSUME NEW i \in DOMAIN Tail(ch), Tail(ch)[i].type = "install"
      PROVE  \E k \in DOMAIN Tail(ch) : i < k /\ Tail(ch)[k].type = "clear"
  <2>1. i + 1 \in DOMAIN ch /\ ch[i + 1].type = "install"
    BY <1>1, <1>4
  <2>2. PICK k \in DOMAIN ch : i + 1 < k /\ ch[k].type = "clear"
    BY <2>1 DEF Silenced
  <2>3. k - 1 \in DOMAIN Tail(ch) /\ i < k - 1 /\ Tail(ch)[k - 1].type = "clear"
    BY <1>1, <2>2, <1>4
  <2> QED BY <2>3
<1> QED BY <1>3, <1>4 DEF Silenced

LEMMA ClearReadSilenced ==
  ASSUME NEW ch, IsSeq(ch), ch # <<>>, NEW before, Silenced(ch, before)
  PROVE  Silenced(Tail(ch), None)
<1>1. /\ Len(ch) \in Nat /\ Len(ch) >= 1
      /\ DOMAIN ch = 1 .. Len(ch) /\ DOMAIN Tail(ch) = 1 .. Len(ch) - 1
      /\ \A i \in 1 .. Len(ch) - 1 : Tail(ch)[i] = ch[i + 1]
  BY Received
<1>4. ASSUME NEW i \in DOMAIN Tail(ch), Tail(ch)[i].type = "install"
      PROVE  \E k \in DOMAIN Tail(ch) : i < k /\ Tail(ch)[k].type = "clear"
  <2>1. i + 1 \in DOMAIN ch /\ ch[i + 1].type = "install"
    BY <1>1, <1>4
  <2>2. PICK k \in DOMAIN ch : i + 1 < k /\ ch[k].type = "clear"
    BY <2>1 DEF Silenced
  <2>3. k - 1 \in DOMAIN Tail(ch) /\ i < k - 1 /\ Tail(ch)[k - 1].type = "clear"
    BY <1>1, <2>2, <1>4
  <2> QED BY <2>3
<1> QED BY <1>4 DEF Silenced

-----------------------------------------------------------------------------
(* Payloads by their kind. *)

LEMMA Kinds ==
  /\ \A s : InstallPayload(s).type = "install" /\ InstallPayload(s).snapshot = s
  /\ \A keep : ClearPayload(keep).type = "clear"
  /\ \A s, ok : Ack(s, ok).type = "ack" /\ Ack(s, ok).snapshot = s
  /\ \A keep : Cleared(keep).type = "cleared"
  /\ WorldChanged.type = "world"
  /\ \A b : AvatarState(b).type = "avatar"
  /\ \A f, size, b : Placed(f, size, b).frame = f /\ Placed(f, size, b).binding = b
BY DEF InstallPayload, ClearPayload, Ack, Cleared, WorldChanged, AvatarState, Placed

LEMMA InitIInv == Init => IInv
<1> SUFFICES ASSUME Init PROVE IInv
  OBVIOUS
<1>1. /\ latest = 0 /\ ~usable /\ pending = {} /\ active = None /\ ~streak
      /\ stored = None /\ cursor = 0 /\ toServer = <<>> /\ toClient = <<>>
  BY DEF Init
<1> QED BY <1>1, Empty DEF IInv, Channels, InstallsInOrder, AcksCovered, ActiveCovered, PendingMine,
                           LostSilenced, Ordered, Covered, Silenced

(* What a step of the client puts on its way, if anything. *)

InstallsLatest(p) ==
    \E s : /\ Install(p, s) /\ s.frame = latest' /\ s.binding = mine'
           /\ latest' # 0 /\ usable' /\ p \subseteq pending

ClientSends ==
    \/ UNCHANGED toServer
    \/ \E p : InstallsLatest(p)
    \/ \E keep : toServer' = Append(toServer, ClearPayload(keep))

LEMMA SentInOrder ==
  ASSUME IInv, ClientSends, latest' \in Nat, latest <= latest', cursor' = cursor
  PROVE  IsSeq(toServer') /\ InstallsInOrder'
<1>1. /\ IsSeq(toServer) /\ latest \in Nat /\ cursor \in Nat /\ cursor <= latest
      /\ Ordered(toServer, cursor, latest)
  BY DEF IInv, Channels, InstallsInOrder
<1>2. cursor <= latest'
  BY <1>1
<1>3. CASE UNCHANGED toServer
  BY <1>1, <1>2, <1>3, OrderedRaised DEF InstallsInOrder
<1>4. ASSUME NEW p, InstallsLatest(p) PROVE IsSeq(toServer') /\ InstallsInOrder'
  <2>1. PICK s : Install(p, s) /\ s.frame = latest' /\ latest' # 0
    BY <1>4 DEF InstallsLatest
  <2>2. toServer' = Append(toServer, InstallPayload(s))
    BY <2>1 DEF Install
  <2>3. Ordered(toServer', cursor, latest')
    BY <1>1, <1>2, <2>1, <2>2, InstallSent
  <2> QED BY <1>1, <1>2, <2>2, <2>3, Appended DEF InstallsInOrder
<1>5. ASSUME NEW keep, toServer' = Append(toServer, ClearPayload(keep))
      PROVE  IsSeq(toServer') /\ InstallsInOrder'
  <2>1. Ordered(toServer', cursor, latest)
    BY <1>1, <1>5, OtherSent, Kinds
  <2> QED BY <1>1, <1>2, <1>5, <2>1, Appended, OrderedRaised DEF InstallsInOrder
<1> QED BY <1>3, <1>4, <1>5 DEF ClientSends

ClientStep ==
    \/ Join \/ Receive \/ Reinstall \/ Clear
    \/ OnWorldChanged \/ OnCleared \/ OnAckIgnored \/ OnAckActivates \/ OnAvatarState

LEMMA ClearSends ==
  ASSUME NEW keep, SendClear(keep)
  PROVE  ClientSends
BY DEF SendClear, ClientSends

LEMMA InstallSends ==
  ASSUME NEW p, NEW f, NEW size, NEW b, Install(p, Placed(f, size, b)),
         f = latest', b = mine', latest' # 0, usable', p \subseteq pending
  PROVE  ClientSends
<1>1. Placed(f, size, b).frame = f /\ Placed(f, size, b).binding = b
  BY Kinds
<1>2. InstallsLatest(p)
  BY <1>1 DEF InstallsLatest
<1> QED BY <1>2 DEF ClientSends

LEMMA ClientStepSends ==
  ASSUME IInv, ClientStep
  PROVE  /\ ClientSends /\ UNCHANGED serverVars
         /\ latest' \in Nat /\ latest <= latest'
<1>1. latest \in Nat
  BY DEF IInv, InstallsInOrder
<1>2. CASE Join
  <2>1. UNCHANGED <<latest, usable, mine, serverVars>>
    BY <1>2 DEF Join
  <2>2. UNCHANGED toServer \/ (Install(pending, Placed(latest, scale, mine)) /\ latest # 0 /\ usable)
    BY <1>2 DEF Join
  <2>3. ClientSends
    BY <2>1, <2>2, InstallSends DEF ClientSends
  <2> QED BY <1>1, <2>1, <2>3
<1>3. CASE Receive
  <2>1. PICK f \in Frames : f > latest /\ (ReceiveEmpty(f) \/ ReceiveUsable(f))
    BY <1>3 DEF Receive
  <2>2. f \in Nat \ {0}
    BY InstallAssumption DEF Frames
  <2>3. mine' = mine /\ UNCHANGED serverVars
    BY <1>3 DEF Receive
  <2>4. latest' = f
    BY <2>1 DEF ReceiveEmpty, ReceiveUsable
  <2>5. ASSUME ReceiveEmpty(f) PROVE ClientSends
    <3>1. UNCHANGED toServer \/ SendClear(TRUE)
      BY <2>5 DEF ReceiveEmpty
    <3> QED BY <3>1, ClearSends DEF ClientSends
  <2>6. ASSUME ReceiveUsable(f) PROVE ClientSends
    <3>1. UNCHANGED toServer \/ Install(pending, Placed(f, scale', mine))
      BY <2>6 DEF ReceiveUsable
    <3>2. usable'
      BY <2>6 DEF ReceiveUsable
    <3> QED BY <2>2, <2>3, <2>4, <3>1, <3>2, InstallSends DEF ClientSends
  <2>7. ClientSends
    BY <2>1, <2>5, <2>6
  <2> QED BY <1>1, <2>1, <2>2, <2>3, <2>4, <2>7
<1>4. CASE Reinstall
  <2>1. UNCHANGED <<latest, usable, mine, serverVars>>
    BY <1>4 DEF Reinstall
  <2>2. UNCHANGED toServer \/ (Install(pending, Placed(latest, scale', mine)) /\ latest # 0 /\ usable)
    BY <1>4 DEF Reinstall
  <2>3. ClientSends
    BY <2>1, <2>2, InstallSends DEF ClientSends
  <2> QED BY <1>1, <2>1, <2>3
<1>5. CASE Clear
  <2>1. UNCHANGED <<latest, serverVars>> /\ SendClear(FALSE)
    BY <1>5 DEF Clear
  <2>2. ClientSends
    BY <2>1, ClearSends
  <2> QED BY <1>1, <2>1, <2>2
<1>6. CASE OnWorldChanged \/ OnCleared \/ OnAckIgnored
  <2>1. UNCHANGED <<latest, serverVars, toServer>>
    BY <1>6 DEF OnWorldChanged, OnCleared, OnAckIgnored
  <2> QED BY <1>1, <2>1 DEF ClientSends
<1>7. CASE OnAckActivates
  <2>1. UNCHANGED <<latest, serverVars>> /\ (UNCHANGED toServer \/ SendClear(TRUE))
    BY <1>7 DEF OnAckActivates
  <2>2. ClientSends
    BY <2>1, ClearSends DEF ClientSends
  <2> QED BY <1>1, <2>1, <2>2
<1>8. CASE OnAvatarState
  <2>1. UNCHANGED <<latest, usable, serverVars>>
    BY <1>8 DEF OnAvatarState
  <2>2. \/ UNCHANGED toServer
        \/ /\ Install({}, Placed(latest, scale', Head(toClient).binding))
           /\ mine' = Head(toClient).binding /\ latest # 0 /\ usable
    BY <1>8 DEF OnAvatarState
  <2>3. ClientSends
    BY <2>1, <2>2, InstallSends DEF ClientSends
  <2> QED BY <1>1, <2>1, <2>3
<1> QED BY <1>2, <1>3, <1>4, <1>5, <1>6, <1>7, <1>8 DEF ClientStep

\* What the server reads of an install.
LEMMA InstallRead ==
  ASSUME IInv, OnInstall
  PROVE  /\ toServer # <<>> /\ Head(toServer).type = "install" /\ toServer' = Tail(toServer)
         /\ \E ok \in BOOLEAN :
              /\ toClient' = Append(toClient, Ack(Head(toServer).snapshot, ok))
              /\ cursor' = IF ok THEN Head(toServer).snapshot.frame ELSE cursor
         /\ UNCHANGED <<joined, clientVars>>
BY DEF OnInstall, FromClient

LEMMA OrderStep == IInv /\ [Next]_vars => IsSeq(toServer') /\ InstallsInOrder'
<1> SUFFICES ASSUME IInv, [Next]_vars PROVE IsSeq(toServer') /\ InstallsInOrder'
  OBVIOUS
<1>1. /\ IsSeq(toServer) /\ latest \in Nat /\ cursor \in Nat /\ cursor <= latest
      /\ Ordered(toServer, cursor, latest)
  BY DEF IInv, Channels, InstallsInOrder
<1>2. CASE ClientStep
  BY <1>2, ClientStepSends, SentInOrder DEF serverVars
<1>3. CASE Leave
  <2>1. toServer' = <<>> /\ cursor' = 0 /\ latest' = latest
    BY <1>3 DEF Leave
  <2> QED BY <1>1, <2>1, Empty DEF InstallsInOrder, Ordered
<1>4. CASE OnInstall
  <2>1. /\ toServer # <<>> /\ Head(toServer).type = "install" /\ toServer' = Tail(toServer)
        /\ cursor' = Frame(Head(toServer)) \/ cursor' = cursor
        /\ latest' = latest
    BY <1>4, InstallRead DEF Frame, clientVars
  <2>2. /\ Frame(Head(toServer)) \in Nat /\ Frame(Head(toServer)) <= latest
        /\ Ordered(Tail(toServer), Frame(Head(toServer)), latest)
        /\ Ordered(Tail(toServer), cursor, latest)
    BY <1>1, <2>1, OrderedRead
  <2> QED BY <1>1, <2>1, <2>2, Received DEF InstallsInOrder
<1>5. CASE OnClear
  <2>1. toServer # <<>> /\ toServer' = Tail(toServer) /\ UNCHANGED <<cursor, latest>>
    BY <1>5 DEF OnClear, FromClient, clientVars
  <2> QED BY <1>1, <2>1, OrderedRead, Received DEF InstallsInOrder
<1>6. CASE Expire \/ ChangeWorld \/ Rebind \/ UNCHANGED vars
  <2>1. UNCHANGED <<toServer, cursor, latest>>
    BY <1>6 DEF Expire, ChangeWorld, Rebind, vars, clientVars, serverVars
  <2> QED BY <1>1, <2>1 DEF InstallsInOrder
<1> QED BY <1>2, <1>3, <1>4, <1>5, <1>6 DEF Next, ClientStep

LEMMA AnswerStep == IInv /\ [Next]_vars => IsSeq(toClient') /\ AcksCovered'
<1> SUFFICES ASSUME IInv, [Next]_vars PROVE IsSeq(toClient') /\ AcksCovered'
  OBVIOUS
<1>1. IsSeq(toServer) /\ IsSeq(toClient) /\ cursor \in Nat /\ Covered(toClient, cursor)
  BY DEF IInv, Channels, InstallsInOrder, AcksCovered
<1>2. ASSUME UNCHANGED toClient, cursor' = cursor PROVE IsSeq(toClient') /\ AcksCovered'
  BY <1>1, <1>2 DEF AcksCovered
<1>3. ASSUME NEW m, toClient' = Append(toClient, m), m.type # "ack", cursor' = cursor
      PROVE  IsSeq(toClient') /\ AcksCovered'
  BY <1>1, <1>3, Appended, AnswerSent DEF AcksCovered
<1>4. CASE Join
  <2>1. toClient' = Append(<<>>, AvatarState(bound)) /\ cursor' = cursor
    BY <1>4 DEF Join, serverVars
  <2>2. Covered(<<>>, cursor) /\ IsSeq(<<>>)
    BY Empty DEF Covered
  <2> QED BY <1>1, <2>1, <2>2, Appended, AnswerSent, Kinds DEF AcksCovered
<1>5. CASE Receive \/ Reinstall \/ Clear \/ Expire \/ UNCHANGED vars
  <2>1. UNCHANGED <<toClient, cursor>>
    BY <1>5 DEF Receive, Reinstall, Clear, Expire, vars, serverVars
  <2> QED BY <1>2, <2>1
<1>6. CASE OnWorldChanged \/ OnCleared \/ OnAckIgnored \/ OnAckActivates \/ OnAvatarState
  <2>1. toClient # <<>> /\ toClient' = Tail(toClient) /\ cursor' = cursor
    BY <1>6 DEF OnWorldChanged, OnCleared, OnAckIgnored, OnAckActivates, OnAvatarState, FromServer,
                serverVars
  <2> QED BY <1>1, <2>1, Received, CoveredRead DEF AcksCovered
<1>7. CASE OnInstall
  <2>1. /\ toServer # <<>> /\ Head(toServer).type = "install"
        /\ \E ok \in BOOLEAN :
              /\ toClient' = Append(toClient, Ack(Head(toServer).snapshot, ok))
              /\ cursor' = IF ok THEN Head(toServer).snapshot.frame ELSE cursor
    BY <1>7, InstallRead
  <2>2. PICK ok \in BOOLEAN :
              /\ toClient' = Append(toClient, Ack(Head(toServer).snapshot, ok))
              /\ cursor' = IF ok THEN Frame(Head(toServer)) ELSE cursor
    BY <2>1 DEF Frame
  <2>3. Frame(Head(toServer)) \in Nat \ {0} /\ cursor <= Frame(Head(toServer))
    BY <2>1, OrderedRead DEF IInv, Channels, InstallsInOrder
  <2> DEFINE m == Ack(Head(toServer).snapshot, ok)
  <2>4. m.accepted = ok /\ Frame(m) = Frame(Head(toServer)) /\ m.type = "ack"
    BY DEF Ack, Frame
  <2>5. cursor' \in Nat /\ cursor <= cursor'
    BY <1>1, <2>2, <2>3
  <2>6. ok => Frame(m) \in Nat \ {0} /\ Frame(m) <= cursor'
    <3>1. ok => cursor' = Frame(Head(toServer))
      BY <2>2
    <3> HIDE DEF m
    <3> QED BY <2>3, <2>4, <3>1
  <2>7. Covered(toClient, cursor')
    BY <1>1, <2>5, CoveredRaised
  <2> HIDE DEF m
  <2> QED BY <1>1, <2>2, <2>4, <2>5, <2>6, <2>7, Appended, AnswerSent DEF AcksCovered, m
<1>8. CASE OnClear \/ ChangeWorld \/ Rebind
  <2>1. cursor' = cursor
    BY <1>8 DEF OnClear, ChangeWorld, Rebind
  <2>2. \/ toClient' = Append(toClient, Cleared(Head(toServer).keep))
        \/ toClient' = Append(toClient, WorldChanged)
        \/ toClient' = Append(toClient, AvatarState(bound'))
    BY <1>8 DEF OnClear, ChangeWorld, Rebind
  <2> QED BY <1>3, <2>1, <2>2, Kinds
<1>9. CASE Leave
  <2>1. toClient' = <<>> /\ cursor' = 0
    BY <1>9 DEF Leave
  <2> QED BY <2>1, Empty DEF AcksCovered, Covered
<1> QED BY <1>4, <1>5, <1>6, <1>7, <1>8, <1>9 DEF Next

-----------------------------------------------------------------------------
(* What is shown. *)

\* Within a connection the cursor never falls.
LEMMA CursorRises == IInv /\ [Next]_vars => Leave \/ (cursor' \in Nat /\ cursor <= cursor')
<1> SUFFICES ASSUME IInv, [Next]_vars, ~Leave PROVE cursor' \in Nat /\ cursor <= cursor'
  OBVIOUS
<1>1. IsSeq(toServer) /\ cursor \in Nat /\ latest \in Nat /\ Ordered(toServer, cursor, latest)
  BY DEF IInv, Channels, InstallsInOrder
<1>2. CASE OnInstall
  <2>1. /\ toServer # <<>> /\ Head(toServer).type = "install"
        /\ cursor' = Frame(Head(toServer)) \/ cursor' = cursor
    BY <1>2, InstallRead DEF Frame
  <2>2. Frame(Head(toServer)) \in Nat /\ cursor <= Frame(Head(toServer))
    BY <1>1, <2>1, OrderedRead
  <2> QED BY <1>1, <2>1, <2>2
<1>3. CASE ~OnInstall
  <2>1. cursor' = cursor
    <3>1. CASE ClientStep
      BY <3>1, ClientStepSends DEF serverVars
    <3>2. CASE OnClear \/ Expire \/ ChangeWorld \/ Rebind \/ UNCHANGED vars
      BY <3>2 DEF OnClear, Expire, ChangeWorld, Rebind, vars, serverVars
    <3> QED BY <1>3, <3>1, <3>2 DEF Next, ClientStep
  <2> QED BY <1>1, <2>1
<1> QED BY <1>2, <1>3

LEMMA ActiveStep == IInv /\ [Next]_vars => ActiveCovered'
<1> SUFFICES ASSUME IInv, [Next]_vars PROVE ActiveCovered'
  OBVIOUS
<1>1. cursor \in Nat /\ (active # None =>
        active.frame \in Nat \ {0} /\ active.frame <= cursor /\ active.binding = mine)
  BY DEF IInv, InstallsInOrder, ActiveCovered
<1>2. CASE active' = None
  BY <1>2 DEF ActiveCovered
<1>3. ASSUME UNCHANGED <<active, mine>>, ~Leave PROVE ActiveCovered'
  <2>1. cursor' \in Nat /\ cursor <= cursor'
    BY <1>3, CursorRises
  <2> QED BY <1>1, <1>3, <2>1 DEF ActiveCovered
<1>4. CASE OnAckActivates
  <2>1. /\ toClient # <<>> /\ Head(toClient).type = "ack" /\ Head(toClient).accepted
        /\ UNCHANGED <<mine, cursor>>
    BY <1>4 DEF OnAckActivates, FromServer, Accepted, serverVars
  <2>2. PICK p \in Match(Head(toClient)) : active' = p \/ active' = active
    BY <1>4 DEF OnAckActivates
  <2>3. p \in pending /\ p.frame = Frame(Head(toClient)) /\ p.binding = mine
    BY <2>2 DEF Match, Frame, IInv, PendingMine
  <2>4. Frame(Head(toClient)) \in Nat \ {0} /\ Frame(Head(toClient)) <= cursor
    BY <2>1, CoveredRead DEF IInv, Channels, AcksCovered
  <2> QED BY <1>1, <2>1, <2>2, <2>3, <2>4 DEF ActiveCovered
<1>5. CASE Leave
  <2>1. active' = None
    BY <1>5 DEF Leave
  <2> QED BY <1>2, <2>1
<1>6. CASE Join \/ Receive \/ Reinstall \/ Clear \/ OnAckIgnored
  <2>1. UNCHANGED <<active, mine>>
    BY <1>6 DEF Join, Receive, ReceiveEmpty, ReceiveUsable, Reinstall, Clear, OnAckIgnored
  <2> QED BY <1>3, <1>5, <2>1
<1>7. CASE OnWorldChanged \/ OnCleared
  <2>1. UNCHANGED mine /\ (UNCHANGED active \/ active' = None)
    BY <1>7 DEF OnWorldChanged, OnCleared, ClearLocal
  <2> QED BY <1>2, <1>3, <1>5, <2>1
<1>8. CASE OnAvatarState
  <2>1. UNCHANGED <<active, mine>> \/ active' = None
    BY <1>8 DEF OnAvatarState
  <2> QED BY <1>2, <1>3, <1>5, <2>1
<1>9. CASE OnInstall \/ OnClear \/ Expire \/ ChangeWorld \/ Rebind \/ UNCHANGED vars
  <2>1. UNCHANGED <<active, mine>>
    BY <1>9 DEF OnInstall, OnClear, Expire, ChangeWorld, Rebind, vars, clientVars
  <2> QED BY <1>3, <1>5, <2>1
<1> QED BY <1>4, <1>5, <1>6, <1>7, <1>8, <1>9 DEF Next

LEMMA InstallPends ==
  ASSUME NEW p, NEW f, NEW size, NEW b, Install(p, Placed(f, size, b)),
         \A q \in p : q.binding = b
  PROVE  \A q \in pending' : q.binding = b
<1>1. pending' \subseteq p \cup {Placed(f, size, b)}
  BY DEF Install, Evicted, Put
<1> QED BY <1>1, Kinds

LEMMA PendingStep == IInv /\ [Next]_vars => PendingMine'
<1> SUFFICES ASSUME IInv, [Next]_vars PROVE PendingMine'
  OBVIOUS
<1>1. \A p \in pending : p.binding = mine
  BY DEF IInv, PendingMine
<1>2. ASSUME pending' \subseteq pending, mine' = mine PROVE PendingMine'
  BY <1>1, <1>2 DEF PendingMine
<1>3. ASSUME NEW f, NEW size, Install(pending, Placed(f, size, mine)), mine' = mine
      PROVE  PendingMine'
  BY <1>1, <1>3, InstallPends DEF PendingMine
<1>4. CASE Join \/ Reinstall
  <2>1. /\ mine' = mine
        /\ \/ UNCHANGED pending
           \/ Install(pending, Placed(latest, scale, mine))
           \/ Install(pending, Placed(latest, scale', mine))
    BY <1>4 DEF Join, Reinstall
  <2> QED BY <1>2, <1>3, <2>1
<1>5. CASE Receive
  <2>1. PICK f \in Frames : ReceiveEmpty(f) \/ ReceiveUsable(f)
    BY <1>5 DEF Receive
  <2>2. mine' = mine
    BY <1>5 DEF Receive
  <2>3. \/ pending' = {} \/ UNCHANGED pending
        \/ Install(pending, Placed(f, scale', mine))
    BY <2>1 DEF ReceiveEmpty, ReceiveUsable
  <2> QED BY <1>2, <1>3, <2>2, <2>3
<1>6. CASE OnAvatarState
  <2>1. \/ UNCHANGED <<pending, mine>>
        \/ mine' = Head(toClient).binding /\ pending' = {}
        \/ /\ mine' = Head(toClient).binding
           /\ Install({}, Placed(latest, scale', Head(toClient).binding))
    BY <1>6 DEF OnAvatarState
  <2>2. CASE pending' = {}
    BY <2>2 DEF PendingMine
  <2> QED BY <1>2, <2>1, <2>2, InstallPends DEF PendingMine
<1>7. CASE Clear \/ OnWorldChanged \/ OnCleared \/ OnAckIgnored \/ OnAckActivates \/ Leave
  <2>1. mine' = mine /\ pending' \subseteq pending
    BY <1>7 DEF Clear, OnWorldChanged, OnCleared, OnAckIgnored, OnAckActivates, Leave, ClearLocal
  <2> QED BY <1>2, <2>1
<1>8. CASE OnInstall \/ OnClear \/ Expire \/ ChangeWorld \/ Rebind \/ UNCHANGED vars
  <2>1. UNCHANGED <<pending, mine>>
    BY <1>8 DEF OnInstall, OnClear, Expire, ChangeWorld, Rebind, vars, clientVars
  <2> QED BY <1>2, <2>1
<1> QED BY <1>4, <1>5, <1>6, <1>7, <1>8 DEF Next

(* What can be hit. *)

LEMMA SilenceStep == IInv /\ [Next]_vars => LostSilenced'
<1> SUFFICES ASSUME IInv, [Next]_vars PROVE LostSilenced'
  OBVIOUS
<1>1. IsSeq(toServer) /\ (~joined => ~streak) /\ (streak => ~usable /\ Silenced(toServer, stored))
  BY DEF IInv, Channels, LostSilenced
<1>2. CASE ~streak'
  BY <1>2 DEF LostSilenced
<1>3. ASSUME streak' => streak, UNCHANGED <<joined, usable, toServer>>,
             UNCHANGED stored \/ stored' = None
      PROVE  LostSilenced'
  BY <1>1, <1>3 DEF LostSilenced, Silenced
<1>4. ASSUME NEW keep, SendClear(keep), joined', ~usable' \/ ~streak'
      PROVE  LostSilenced'
  <2>1. Silenced(toServer', stored')
    BY <1>1, <1>4, ClearSilences DEF SendClear
  <2> QED BY <1>4, <2>1 DEF LostSilenced
<1>5. CASE Join
  <2>1. ~joined /\ UNCHANGED streak
    BY <1>5 DEF Join
  <2> QED BY <1>1, <1>2, <2>1
<1>6. CASE Leave
  <2>1. ~streak'
    BY <1>6 DEF Leave
  <2> QED BY <1>2, <2>1
<1>7. CASE Receive
  <2>1. PICK f \in Frames : ReceiveEmpty(f) \/ ReceiveUsable(f)
    BY <1>7 DEF Receive
  <2>2. UNCHANGED <<joined, stored>>
    BY <1>7 DEF Receive, serverVars
  <2>3. ASSUME ReceiveUsable(f) PROVE LostSilenced'
    BY <1>2, <2>3 DEF ReceiveUsable, StreakOver
  <2>4. ASSUME ReceiveEmpty(f) PROVE LostSilenced'
    <3>1. /\ ~usable'
          /\ \/ joined /\ SendClear(TRUE)
             \/ ~(joined /\ ~streak) /\ UNCHANGED <<streak, toServer>>
      BY <2>4 DEF ReceiveEmpty
    <3>2. ASSUME joined, SendClear(TRUE) PROVE LostSilenced'
      BY <1>4, <2>2, <3>1, <3>2
    <3>3. ASSUME UNCHANGED <<streak, toServer>> PROVE LostSilenced'
      BY <1>1, <2>2, <3>1, <3>3 DEF LostSilenced
    <3> QED BY <3>1, <3>2, <3>3
  <2> QED BY <2>1, <2>3, <2>4
<1>8. CASE Reinstall
  <2>1. /\ UNCHANGED <<joined, usable, stored, streak>>
        /\ usable \/ UNCHANGED toServer
    BY <1>8 DEF Reinstall, serverVars
  <2>2. CASE streak
    BY <1>1, <1>3, <2>1, <2>2
  <2> QED BY <1>2, <2>1, <2>2
<1>9. CASE Clear
  <2>1. joined' /\ SendClear(FALSE) /\ UNCHANGED <<usable, streak>>
    BY <1>9 DEF Clear
  <2> QED BY <1>1, <1>4, <2>1
<1>10. CASE OnWorldChanged \/ OnCleared \/ OnAckIgnored
  <2>1. UNCHANGED <<joined, usable, streak, stored, toServer>>
    BY <1>10 DEF OnWorldChanged, OnCleared, OnAckIgnored, serverVars
  <2> QED BY <1>3, <2>1
<1>11. CASE OnAckActivates
  <2>1. /\ UNCHANGED <<joined, usable, streak, stored>>
        /\ UNCHANGED toServer \/ SendClear(TRUE)
    BY <1>11 DEF OnAckActivates, serverVars
  <2>2. CASE UNCHANGED toServer
    BY <1>3, <2>1, <2>2
  <2>3. ASSUME SendClear(TRUE), streak PROVE LostSilenced'
    BY <1>1, <1>4, <2>1, <2>3
  <2> QED BY <1>2, <2>1, <2>2, <2>3
<1>12. CASE OnAvatarState
  <2>1. /\ UNCHANGED <<joined, usable, stored, streak>>
        /\ usable \/ UNCHANGED toServer
    BY <1>12 DEF OnAvatarState, serverVars
  <2>2. CASE streak
    BY <1>1, <1>3, <2>1, <2>2
  <2> QED BY <1>2, <2>1, <2>2
<1>13. CASE OnInstall
  <2>1. /\ toServer # <<>> /\ Head(toServer).type = "install" /\ toServer' = Tail(toServer)
        /\ UNCHANGED <<joined, usable, streak>>
    BY <1>13, InstallRead DEF clientVars
  <2>2. streak => Silenced(toServer', stored')
    BY <1>1, <2>1, InstallReadSilenced
  <2> QED BY <1>1, <2>1, <2>2 DEF LostSilenced
<1>14. CASE OnClear
  <2>1. /\ toServer # <<>> /\ toServer' = Tail(toServer) /\ stored' = None
        /\ UNCHANGED <<joined, usable, streak>>
    BY <1>14 DEF OnClear, FromClient, clientVars
  <2>2. streak => Silenced(toServer', stored')
    BY <1>1, <2>1, ClearReadSilenced
  <2> QED BY <1>1, <2>1, <2>2 DEF LostSilenced
<1>15. CASE Expire \/ ChangeWorld \/ Rebind \/ UNCHANGED vars
  <2>1. /\ UNCHANGED <<joined, usable, streak, toServer>>
        /\ UNCHANGED stored \/ stored' = None
    BY <1>15 DEF Expire, ChangeWorld, Rebind, vars, clientVars, serverVars
  <2> QED BY <1>3, <2>1
<1> QED BY <1>5, <1>6, <1>7, <1>8, <1>9, <1>10, <1>11, <1>12, <1>13, <1>14, <1>15 DEF Next

LEMMA StepIInv == IInv /\ [Next]_vars => IInv'
BY OrderStep, AnswerStep, ActiveStep, PendingStep, SilenceStep DEF IInv, Channels

LEMMA Invariance == Spec => []IInv
<1>1. Init => IInv
  BY InitIInv
<1>2. IInv /\ [Next]_vars => IInv'
  BY StepIInv
<1> QED BY <1>1, <1>2, PTL DEF Spec

-----------------------------------------------------------------------------
(* The flags of the clears. *)

\* Clears that keep their order and their flags on the way to another channel.
LEMMA Carried ==
  ASSUME NEW flags, NEW ch, InStep(flags, ch), NEW next, NEW move,
         \A k \in ClearsIn(ch) : move[k] \in ClearsIn(next) /\ next[move[k]].keep = ch[k].keep,
         \A k, l \in ClearsIn(ch) : k < l => move[k] < move[l],
         \A k \in ClearsIn(next) : \E l \in ClearsIn(ch) : move[l] = k
  PROVE  InStep(flags, next)
<1>1. PICK at \in [DOMAIN flags -> ClearsIn(ch)] :
        /\ \A i, j \in DOMAIN flags : i < j => at[i] < at[j]
        /\ \A k \in ClearsIn(ch) : \E i \in DOMAIN flags : at[i] = k
        /\ \A i \in DOMAIN flags : ch[at[i]].keep = flags[i]
  BY DEF InStep
<1> DEFINE moved == [i \in DOMAIN flags |-> move[at[i]]]
<1>2. moved \in [DOMAIN flags -> ClearsIn(next)]
  BY <1>1
<1>3. \A i, j \in DOMAIN flags : i < j => moved[i] < moved[j]
  BY <1>1
<1>4. \A k \in ClearsIn(next) : \E i \in DOMAIN flags : moved[i] = k
  BY <1>1
<1>5. \A i \in DOMAIN flags : next[moved[i]].keep = flags[i]
  BY <1>1
<1> HIDE DEF moved
<1> QED BY <1>2, <1>3, <1>4, <1>5 DEF InStep

\* What is on its way, seen from the client.
LEMMA OnTheWay ==
  ASSUME NEW near, IsSeq(near), NEW far, IsSeq(far)
  PROVE  /\ Len(near) \in Nat /\ Len(far) \in Nat
         /\ DOMAIN near = 1 .. Len(near) /\ DOMAIN far = 1 .. Len(far)
         /\ DOMAIN (near \o far) = 1 .. Len(near) + Len(far)
         /\ \A k \in 1 .. Len(near) : (near \o far)[k] = near[k]
         /\ \A k \in Len(near) + 1 .. Len(near) + Len(far) : (near \o far)[k] = far[k - Len(near)]
<1> DEFINE S == {near[i] : i \in DOMAIN near} \cup {far[i] : i \in DOMAIN far}
<1>1. near \in Seq(S) /\ far \in Seq(S)
  BY DEF IsSeq
<1> HIDE DEF S
<1> QED BY <1>1

LEMMA OtherUnderWay ==
  ASSUME NEW flags, NEW near, IsSeq(near), NEW far, IsSeq(far), InStep(flags, near \o far),
         NEW m, m.type \notin {"clear", "cleared"}
  PROVE  InStep(flags, near \o Append(far, m)) /\ InStep(flags, Append(near, m) \o far)
<1> DEFINE ch == near \o far
           behind == near \o Append(far, m)
           between == Append(near, m) \o far
           same == [k \in DOMAIN ch |-> k]
           shift == [k \in DOMAIN ch |-> IF k <= Len(near) THEN k ELSE k + 1]
<1>1. /\ Len(near) \in Nat /\ Len(far) \in Nat
      /\ DOMAIN near = 1 .. Len(near) /\ DOMAIN far = 1 .. Len(far)
      /\ DOMAIN ch = 1 .. Len(near) + Len(far)
      /\ \A k \in 1 .. Len(near) : ch[k] = near[k]
      /\ \A k \in Len(near) + 1 .. Len(near) + Len(far) : ch[k] = far[k - Len(near)]
  BY OnTheWay
<1>2. /\ IsSeq(Append(far, m)) /\ Len(Append(far, m)) = Len(far) + 1
      /\ \A k \in 1 .. Len(far) : Append(far, m)[k] = far[k]
      /\ Append(far, m)[Len(far) + 1] = m
  BY Appended, <1>1, OnTheWay
<1>3. /\ IsSeq(Append(near, m)) /\ Len(Append(near, m)) = Len(near) + 1
      /\ \A k \in 1 .. Len(near) : Append(near, m)[k] = near[k]
      /\ Append(near, m)[Len(near) + 1] = m
  BY Appended, <1>1, OnTheWay
<1>4. /\ DOMAIN behind = 1 .. Len(near) + Len(far) + 1
      /\ \A k \in DOMAIN ch : behind[k] = ch[k]
      /\ behind[Len(near) + Len(far) + 1] = m
  BY <1>1, <1>2, OnTheWay
<1>5. /\ DOMAIN between = 1 .. Len(near) + Len(far) + 1
      /\ \A k \in 1 .. Len(near) : between[k] = ch[k]
      /\ between[Len(near) + 1] = m
      /\ \A k \in Len(near) + 1 .. Len(near) + Len(far) : between[k + 1] = ch[k]
  BY <1>1, <1>3, OnTheWay
<1> HIDE DEF ch, behind, between
<1>6. ClearsIn(behind) = ClearsIn(ch)
  BY <1>1, <1>4 DEF ClearsIn
<1>7. InStep(flags, behind)
  BY <1>4, <1>6 DEF InStep, ClearsIn, ch
<1>8. \A k \in ClearsIn(ch) : shift[k] \in ClearsIn(between) /\ between[shift[k]].keep = ch[k].keep
  BY <1>1, <1>5 DEF ClearsIn
<1>9. \A k, l \in ClearsIn(ch) : k < l => shift[k] < shift[l]
  BY <1>1 DEF ClearsIn
<1>10. ASSUME NEW k \in ClearsIn(between) PROVE \E l \in ClearsIn(ch) : shift[l] = k
  <2>1. CASE k <= Len(near)
    BY <1>1, <1>5, <1>10, <2>1 DEF ClearsIn
  <2>2. CASE k > Len(near)
    <3>1. k - 1 \in ClearsIn(ch) /\ shift[k - 1] = k
      BY <1>1, <1>5, <1>10, <2>2 DEF ClearsIn
    <3> QED BY <3>1
  <2> QED BY <1>1, <1>5, <1>10, <2>1, <2>2 DEF ClearsIn
<1> HIDE DEF shift
<1>11. InStep(flags, between)
  <2>1. InStep(flags, ch)
    BY DEF ch
  <2> QED BY <1>8, <1>9, <1>10, <2>1, Carried
<1> QED BY <1>7, <1>11 DEF behind, between

LEMMA ClearUnderWay ==
  ASSUME NEW flags, IsSeq(flags), NEW near, IsSeq(near), NEW far, IsSeq(far),
         InStep(flags, near \o far), NEW keep
  PROVE  InStep(Append(flags, keep), near \o Append(far, ClearPayload(keep)))
<1> DEFINE ch == near \o far
           m == ClearPayload(keep)
           next == near \o Append(far, m)
           all == Append(flags, keep)
           last == Len(near) + Len(far) + 1
<1>1. /\ Len(near) \in Nat /\ Len(far) \in Nat
      /\ DOMAIN ch = 1 .. Len(near) + Len(far)
      /\ \A k \in 1 .. Len(near) : ch[k] = near[k]
      /\ \A k \in Len(near) + 1 .. Len(near) + Len(far) : ch[k] = far[k - Len(near)]
  BY OnTheWay
<1>2. /\ IsSeq(Append(far, m)) /\ Len(Append(far, m)) = Len(far) + 1
      /\ \A k \in 1 .. Len(far) : Append(far, m)[k] = far[k]
      /\ Append(far, m)[Len(far) + 1] = m
  BY Appended, <1>1, OnTheWay
<1>3. m.type = "clear" /\ m.keep = keep
  BY DEF ClearPayload
<1> HIDE DEF m
<1>4. /\ DOMAIN next = 1 .. last
      /\ \A k \in DOMAIN ch : next[k] = ch[k]
      /\ next[last] = m
  BY <1>1, <1>2, OnTheWay
<1>5. /\ Len(flags) \in Nat /\ DOMAIN flags = 1 .. Len(flags) /\ DOMAIN all = 1 .. Len(flags) + 1
      /\ \A i \in DOMAIN flags : all[i] = flags[i]
      /\ all[Len(flags) + 1] = keep
  BY Appended
<1> HIDE DEF ch, next, all
<1>6. ClearsIn(next) = ClearsIn(ch) \cup {last}
  BY <1>1, <1>3, <1>4 DEF ClearsIn
<1>7. PICK at \in [DOMAIN flags -> ClearsIn(ch)] :
        /\ \A i, j \in DOMAIN flags : i < j => at[i] < at[j]
        /\ \A k \in ClearsIn(ch) : \E i \in DOMAIN flags : at[i] = k
        /\ \A i \in DOMAIN flags : ch[at[i]].keep = flags[i]
  BY DEF InStep, ch
<1> DEFINE more == [i \in DOMAIN all |-> IF i = Len(flags) + 1 THEN last ELSE at[i]]
<1>8. more \in [DOMAIN all -> ClearsIn(next)]
  BY <1>5, <1>6, <1>7
<1>9. \A i, j \in DOMAIN all : i < j => more[i] < more[j]
  <2> SUFFICES ASSUME NEW i \in DOMAIN all, NEW j \in DOMAIN all, i < j PROVE more[i] < more[j]
    OBVIOUS
  <2>1. i \in DOMAIN flags /\ more[i] = at[i] /\ at[i] \in DOMAIN ch
    BY <1>5, <1>7 DEF ClearsIn
  <2>2. j \in DOMAIN flags \/ j = Len(flags) + 1
    BY <1>5
  <2> QED BY <1>1, <1>5, <1>7, <2>1, <2>2
<1>10. \A k \in ClearsIn(next) : \E i \in DOMAIN all : more[i] = k
  <2> SUFFICES ASSUME NEW k \in ClearsIn(next) PROVE \E i \in DOMAIN all : more[i] = k
    OBVIOUS
  <2>1. CASE k = last
    BY <1>5, <2>1
  <2>2. CASE k \in ClearsIn(ch)
    <3>1. PICK i \in DOMAIN flags : at[i] = k
      BY <1>7, <2>2
    <3> QED BY <1>5, <3>1
  <2> QED BY <1>6, <2>1, <2>2
<1>11. \A i \in DOMAIN all : next[more[i]].keep = all[i]
  <2> SUFFICES ASSUME NEW i \in DOMAIN all PROVE next[more[i]].keep = all[i]
    OBVIOUS
  <2>1. CASE i = Len(flags) + 1
    BY <1>3, <1>4, <1>5, <2>1
  <2>2. CASE i \in DOMAIN flags
    <3>1. more[i] = at[i] /\ at[i] \in DOMAIN ch
      BY <1>5, <1>7, <2>2 DEF ClearsIn
    <3> QED BY <1>4, <1>5, <1>7, <2>2, <3>1
  <2> QED BY <1>5, <2>1, <2>2
<1> HIDE DEF more
<1>12. InStep(all, next)
  BY <1>8, <1>9, <1>10, <1>11 DEF InStep
<1> QED BY <1>12 DEF all, next, m

LEMMA OtherRead ==
  ASSUME NEW flags, NEW near, IsSeq(near), near # <<>>, NEW far, IsSeq(far),
         InStep(flags, near \o far), Head(near).type \notin {"clear", "cleared"}
  PROVE  InStep(flags, Tail(near) \o far)
<1> DEFINE ch == near \o far
           next == Tail(near) \o far
           move == [k \in DOMAIN ch |-> k - 1]
<1>1. /\ Len(near) \in Nat /\ Len(far) \in Nat /\ Len(near) >= 1
      /\ DOMAIN ch = 1 .. Len(near) + Len(far)
      /\ \A k \in 1 .. Len(near) : ch[k] = near[k]
      /\ \A k \in Len(near) + 1 .. Len(near) + Len(far) : ch[k] = far[k - Len(near)]
  BY OnTheWay, Received
<1>2. /\ IsSeq(Tail(near)) /\ DOMAIN Tail(near) = 1 .. Len(near) - 1
      /\ \A k \in 1 .. Len(near) - 1 : Tail(near)[k] = near[k + 1]
      /\ Head(near) = near[1]
  BY Received
<1>3. Len(Tail(near)) = Len(near) - 1
  BY <1>1, <1>2, Empty, OnTheWay
<1>4. /\ DOMAIN next = 1 .. Len(near) + Len(far) - 1
      /\ \A k \in 1 .. Len(near) + Len(far) - 1 : next[k] = ch[k + 1]
  BY <1>1, <1>2, <1>3, OnTheWay
<1>5. ch[1].type \notin {"clear", "cleared"}
  BY <1>1, <1>2
<1>6. InStep(flags, ch)
  OBVIOUS
<1> HIDE DEF ch, next
<1>7. \A k \in ClearsIn(ch) : k \in 2 .. Len(near) + Len(far)
  BY <1>1, <1>5 DEF ClearsIn
<1>8. \A k \in ClearsIn(ch) : move[k] \in ClearsIn(next) /\ next[move[k]].keep = ch[k].keep
  BY <1>1, <1>4, <1>7 DEF ClearsIn
<1>9. \A k, l \in ClearsIn(ch) : k < l => move[k] < move[l]
  BY <1>1 DEF ClearsIn
<1>10. \A k \in ClearsIn(next) : k + 1 \in ClearsIn(ch) /\ move[k + 1] = k
  BY <1>1, <1>4 DEF ClearsIn
<1>11. \A k \in ClearsIn(next) : \E l \in ClearsIn(ch) : move[l] = k
  BY <1>10
<1> HIDE DEF move
<1>12. InStep(flags, next)
  BY <1>6, <1>8, <1>9, <1>11, Carried
<1> QED BY <1>12 DEF next

\* The oldest flag is that of the clear that is answered first.
LEMMA ClearedRead ==
  ASSUME NEW flags, IsSeq(flags), NEW near, IsSeq(near), near # <<>>, NEW far, IsSeq(far),
         InStep(flags, near \o far), Head(near).type = "cleared"
  PROVE  /\ flags # <<>> /\ Head(flags) = Head(near).keep
         /\ InStep(Tail(flags), Tail(near) \o far)
<1> DEFINE ch == near \o far
           next == Tail(near) \o far
           rest == Tail(flags)
<1>1. /\ Len(near) \in Nat /\ Len(far) \in Nat /\ Len(near) >= 1
      /\ DOMAIN ch = 1 .. Len(near) + Len(far)
      /\ \A k \in 1 .. Len(near) : ch[k] = near[k]
      /\ \A k \in Len(near) + 1 .. Len(near) + Len(far) : ch[k] = far[k - Len(near)]
  BY OnTheWay, Received
<1>2. /\ IsSeq(Tail(near)) /\ DOMAIN Tail(near) = 1 .. Len(near) - 1
      /\ \A k \in 1 .. Len(near) - 1 : Tail(near)[k] = near[k + 1]
      /\ Head(near) = near[1]
  BY Received
<1>3. Len(Tail(near)) = Len(near) - 1
  BY <1>1, <1>2, Empty, OnTheWay
<1>4. /\ DOMAIN next = 1 .. Len(near) + Len(far) - 1
      /\ \A k \in 1 .. Len(near) + Len(far) - 1 : next[k] = ch[k + 1]
  BY <1>1, <1>2, <1>3, OnTheWay
<1>5. ch[1] = Head(near)
  BY <1>1, <1>2
<1>6. InStep(flags, ch)
  OBVIOUS
<1> HIDE DEF ch, next
<1>7. 1 \in ClearsIn(ch)
  BY <1>1, <1>5 DEF ClearsIn
<1>8. PICK at \in [DOMAIN flags -> ClearsIn(ch)] :
        /\ \A i, j \in DOMAIN flags : i < j => at[i] < at[j]
        /\ \A k \in ClearsIn(ch) : \E i \in DOMAIN flags : at[i] = k
        /\ \A i \in DOMAIN flags : ch[at[i]].keep = flags[i]
  BY <1>6 DEF InStep
<1>9. PICK one \in DOMAIN flags : at[one] = 1
  BY <1>7, <1>8
<1>10. flags # <<>>
  BY <1>9, Empty
<1>11. /\ Len(flags) \in Nat /\ Len(flags) >= 1 /\ DOMAIN flags = 1 .. Len(flags)
       /\ DOMAIN rest = 1 .. Len(flags) - 1
       /\ \A i \in 1 .. Len(flags) - 1 : rest[i] = flags[i + 1]
       /\ Head(flags) = flags[1]
  BY <1>10, Received
<1> HIDE DEF rest
<1>12. \A k \in ClearsIn(ch) : k \in 1 .. Len(near) + Len(far)
  BY <1>1 DEF ClearsIn
<1>13. one = 1
  <2>1. 1 \in DOMAIN flags /\ at[1] \in ClearsIn(ch)
    BY <1>8, <1>11
  <2>2. 1 < one => at[1] < 1
    BY <1>8, <1>9, <2>1
  <2> QED BY <1>1, <1>9, <1>11, <1>12, <2>1, <2>2
<1>14. Head(flags) = Head(near).keep
  BY <1>5, <1>8, <1>9, <1>11, <1>13
<1> DEFINE less == [i \in DOMAIN rest |-> at[i + 1] - 1]
<1>15. \A i \in DOMAIN rest : at[i + 1] \in ClearsIn(ch) /\ at[i + 1] > 1
  <2> SUFFICES ASSUME NEW i \in DOMAIN rest PROVE at[i + 1] \in ClearsIn(ch) /\ at[i + 1] > 1
    OBVIOUS
  <2>1. i + 1 \in DOMAIN flags /\ 1 < i + 1 /\ 1 \in DOMAIN flags
    BY <1>11
  <2>2. at[1] < at[i + 1]
    BY <1>8, <2>1
  <2> QED BY <1>8, <1>9, <1>13, <2>1, <2>2
<1>16. \A k \in ClearsIn(ch) : k > 1 => k - 1 \in ClearsIn(next) /\ next[k - 1].keep = ch[k].keep
  BY <1>1, <1>4 DEF ClearsIn
<1>17. less \in [DOMAIN rest -> ClearsIn(next)]
  BY <1>15, <1>16
<1>18. \A i, j \in DOMAIN rest : i < j => less[i] < less[j]
  <2> SUFFICES ASSUME NEW i \in DOMAIN rest, NEW j \in DOMAIN rest, i < j PROVE less[i] < less[j]
    OBVIOUS
  <2>1. i + 1 \in DOMAIN flags /\ j + 1 \in DOMAIN flags /\ i + 1 < j + 1
    BY <1>11
  <2>2. at[i + 1] < at[j + 1]
    BY <1>8, <2>1
  <2>3. at[i + 1] \in Nat /\ at[j + 1] \in Nat
    BY <1>1, <1>12, <1>15
  <2> QED BY <2>2, <2>3
<1>19. \A k \in ClearsIn(next) : \E i \in DOMAIN rest : less[i] = k
  <2> SUFFICES ASSUME NEW k \in ClearsIn(next) PROVE \E i \in DOMAIN rest : less[i] = k
    OBVIOUS
  <2>1. k \in Nat /\ k >= 1 /\ k + 1 \in ClearsIn(ch)
    BY <1>1, <1>4 DEF ClearsIn
  <2>2. PICK i \in DOMAIN flags : at[i] = k + 1
    BY <1>8, <2>1
  <2>3. i # 1
    BY <1>9, <1>13, <2>1, <2>2
  <2>4. i - 1 \in DOMAIN rest /\ (i - 1) + 1 = i
    BY <1>11, <2>2, <2>3
  <2>5. less[i - 1] = (k + 1) - 1
    BY <2>2, <2>4
  <2> QED BY <2>1, <2>4, <2>5
<1>20. \A i \in DOMAIN rest : next[less[i]].keep = rest[i]
  <2> SUFFICES ASSUME NEW i \in DOMAIN rest PROVE next[less[i]].keep = rest[i]
    OBVIOUS
  <2>1. next[less[i]].keep = ch[at[i + 1]].keep
    BY <1>15, <1>16
  <2>2. i + 1 \in DOMAIN flags /\ rest[i] = flags[i + 1]
    BY <1>11
  <2> QED BY <1>8, <2>1, <2>2
<1> HIDE DEF less
<1>21. InStep(rest, next)
  BY <1>17, <1>18, <1>19, <1>20 DEF InStep
<1> QED BY <1>10, <1>14, <1>21 DEF rest, next

\* The server answers in place: a clear stays the clear it is.
LEMMA Answered ==
  ASSUME NEW flags, NEW near, IsSeq(near), NEW far, IsSeq(far), far # <<>>,
         InStep(flags, near \o far), NEW m,
         \/ /\ m.type \notin {"clear", "cleared"}
            /\ Head(far).type \notin {"clear", "cleared"}
         \/ /\ m.type = "cleared" /\ Head(far).type = "clear"
            /\ m.keep = Head(far).keep
  PROVE  InStep(flags, Append(near, m) \o Tail(far))
<1> DEFINE ch == near \o far
           next == Append(near, m) \o Tail(far)
           same == [k \in DOMAIN ch |-> k]
<1>1. /\ Len(near) \in Nat /\ Len(far) \in Nat /\ Len(far) >= 1
      /\ DOMAIN ch = 1 .. Len(near) + Len(far)
      /\ \A k \in 1 .. Len(near) : ch[k] = near[k]
      /\ \A k \in Len(near) + 1 .. Len(near) + Len(far) : ch[k] = far[k - Len(near)]
  BY OnTheWay, Received
<1>2. /\ IsSeq(Tail(far)) /\ DOMAIN Tail(far) = 1 .. Len(far) - 1
      /\ \A k \in 1 .. Len(far) - 1 : Tail(far)[k] = far[k + 1]
      /\ Head(far) = far[1]
  BY Received
<1>3. Len(Tail(far)) = Len(far) - 1
  BY <1>1, <1>2, Empty, OnTheWay
<1>4. /\ IsSeq(Append(near, m)) /\ Len(Append(near, m)) = Len(near) + 1
      /\ \A k \in 1 .. Len(near) : Append(near, m)[k] = near[k]
      /\ Append(near, m)[Len(near) + 1] = m
  BY Appended, <1>1, OnTheWay
<1>5. DOMAIN next = 1 .. Len(near) + Len(far)
  BY <1>1, <1>2, <1>3, <1>4, OnTheWay
<1>6. \A k \in 1 .. Len(near) : next[k] = ch[k]
  BY <1>1, <1>2, <1>3, <1>4, OnTheWay
<1>7. next[Len(near) + 1] = m /\ ch[Len(near) + 1] = Head(far)
  BY <1>1, <1>2, <1>3, <1>4, OnTheWay
<1>8. \A k \in Len(near) + 2 .. Len(near) + Len(far) : next[k] = ch[k]
  BY <1>1, <1>2, <1>3, <1>4, OnTheWay
<1>9. InStep(flags, ch)
  OBVIOUS
<1> HIDE DEF ch, next
<1>10. ASSUME NEW k \in DOMAIN ch
       PROVE  /\ k \in ClearsIn(ch) <=> k \in ClearsIn(next)
              /\ k \in ClearsIn(ch) => next[k].keep = ch[k].keep
  <2>1. CASE k = Len(near) + 1
    BY <1>1, <1>5, <1>7, <2>1 DEF ClearsIn
  <2>2. CASE k # Len(near) + 1
    BY <1>1, <1>5, <1>6, <1>8, <2>2 DEF ClearsIn
  <2> QED BY <2>1, <2>2
<1>11. \A k \in ClearsIn(ch) : same[k] \in ClearsIn(next) /\ next[same[k]].keep = ch[k].keep
  BY <1>10 DEF ClearsIn
<1>12. \A k, l \in ClearsIn(ch) : k < l => same[k] < same[l]
  BY DEF ClearsIn
<1>13. \A k \in ClearsIn(next) : k \in ClearsIn(ch) /\ same[k] = k
  BY <1>1, <1>5, <1>10 DEF ClearsIn
<1>14. \A k \in ClearsIn(next) : \E l \in ClearsIn(ch) : same[l] = k
  BY <1>13
<1> HIDE DEF same
<1>15. InStep(flags, next)
  BY <1>9, <1>11, <1>12, <1>14, Carried
<1> QED BY <1>15 DEF next

\* Nothing is under way or stored without a connection.
Apart == ~joined => toServer = <<>> /\ toClient = <<>> /\ stored = None

FlagsInv == Channels /\ IsSeq(retain) /\ Apart /\ FlagsInStep

LEMMA ApartStep == Apart /\ [Next]_vars => Apart'
<1> SUFFICES ASSUME Apart, [Next]_vars PROVE Apart'
  OBVIOUS
<1>1. ~joined => toServer = <<>> /\ toClient = <<>> /\ stored = None
  BY DEF Apart
<1>2. CASE Join \/ Leave
  BY <1>2 DEF Join, Leave, Apart
<1>3. CASE Receive
  <2>1. PICK f \in Frames : ReceiveEmpty(f) \/ ReceiveUsable(f)
    BY <1>3 DEF Receive
  <2>2. UNCHANGED <<joined, toClient, stored>> /\ (joined \/ UNCHANGED toServer)
    BY <1>3, <2>1 DEF Receive, ReceiveEmpty, ReceiveUsable, serverVars
  <2> QED BY <1>1, <2>2 DEF Apart
<1>4. CASE Reinstall \/ Clear
  <2>1. joined /\ joined' = joined
    BY <1>4 DEF Reinstall, Clear
  <2> QED BY <2>1 DEF Apart
<1>5. CASE OnWorldChanged \/ OnCleared \/ OnAckIgnored \/ OnAckActivates \/ OnAvatarState
  <2>1. UNCHANGED joined /\ toClient # <<>>
    BY <1>5 DEF OnWorldChanged, OnCleared, OnAckIgnored, OnAckActivates, OnAvatarState, FromServer
  <2> QED BY <1>1, <2>1 DEF Apart
<1>6. CASE OnInstall \/ OnClear
  <2>1. UNCHANGED joined /\ toServer # <<>>
    BY <1>6 DEF OnInstall, OnClear, FromClient
  <2> QED BY <1>1, <2>1 DEF Apart
<1>7. CASE ChangeWorld \/ Expire
  <2>1. UNCHANGED joined /\ stored # None
    BY <1>7 DEF ChangeWorld, Expire
  <2> QED BY <1>1, <2>1 DEF Apart
<1>8. CASE Rebind
  <2>1. joined /\ UNCHANGED joined
    BY <1>8 DEF Rebind
  <2> QED BY <2>1 DEF Apart
<1>9. CASE UNCHANGED vars
  BY <1>1, <1>9 DEF vars, serverVars, Apart
<1> QED BY <1>2, <1>3, <1>4, <1>5, <1>6, <1>7, <1>8, <1>9 DEF Next

\* What a client that has just read, or not, sends besides installs: a clear with
\* its flag, or nothing.
LEMMA FlagsSent ==
  ASSUME IsSeq(retain), NEW near, IsSeq(near), IsSeq(toServer), InStep(retain, near \o toServer),
         toClient' = near,
         \/ UNCHANGED <<toServer, retain>>
         \/ UNCHANGED retain /\ \E s : toServer' = Append(toServer, InstallPayload(s))
         \/ \E keep : SendClear(keep)
  PROVE  IsSeq(retain') /\ FlagsInStep'
<1>1. CASE UNCHANGED <<toServer, retain>>
  BY <1>1 DEF FlagsInStep
<1>2. ASSUME UNCHANGED retain, NEW s, toServer' = Append(toServer, InstallPayload(s))
      PROVE  IsSeq(retain') /\ FlagsInStep'
  BY <1>2, Kinds, OtherUnderWay DEF FlagsInStep
<1>3. ASSUME NEW keep, SendClear(keep) PROVE IsSeq(retain') /\ FlagsInStep'
  <2>1. retain' = Append(retain, keep) /\ toServer' = Append(toServer, ClearPayload(keep))
    BY <1>3 DEF SendClear
  <2> QED BY <2>1, Appended, ClearUnderWay DEF FlagsInStep
<1> QED BY <1>1, <1>2, <1>3

LEMMA NoFlags == InStep(<<>>, <<>> \o <<>>)
<1>1. DOMAIN (<<>> \o <<>>) = {}
  BY Empty, OnTheWay
<1>2. ClearsIn(<<>> \o <<>>) = {}
  BY <1>1 DEF ClearsIn
<1> DEFINE at == [i \in DOMAIN <<>> |-> 0]
<1>3. at \in [DOMAIN <<>> -> {}]
  BY Empty
<1> HIDE DEF at
<1> QED BY <1>2, <1>3, Empty DEF InStep

LEMMA FlagsStep == FlagsInv /\ [Next]_vars => IsSeq(retain') /\ FlagsInStep'
<1> SUFFICES ASSUME FlagsInv, [Next]_vars PROVE IsSeq(retain') /\ FlagsInStep'
  OBVIOUS
<1>1. /\ IsSeq(toServer) /\ IsSeq(toClient) /\ IsSeq(retain) /\ InStep(retain, toClient \o toServer)
      /\ ~joined => toServer = <<>> /\ toClient = <<>>
  BY DEF FlagsInv, Channels, Apart, FlagsInStep
<1>2. ASSUME UNCHANGED <<toClient, toServer, retain>> PROVE IsSeq(retain') /\ FlagsInStep'
  BY <1>1, <1>2 DEF FlagsInStep
<1>3. ASSUME NEW m, m.type \notin {"clear", "cleared"}, toClient' = Append(toClient, m),
             UNCHANGED <<toServer, retain>>
      PROVE  IsSeq(retain') /\ FlagsInStep'
  BY <1>1, <1>3, OtherUnderWay DEF FlagsInStep
<1>4. CASE Join
  <2> DEFINE near == Append(toClient, AvatarState(bound))
  <2>1. /\ toClient' = near /\ UNCHANGED retain
        /\ UNCHANGED toServer \/ Install(pending, Placed(latest, scale, mine))
    BY <1>1, <1>4 DEF Join
  <2>2. AvatarState(bound).type = "avatar"
    BY Kinds
  <2>3. IsSeq(near) /\ InStep(retain, near \o toServer)
    BY <1>1, <2>2, Appended, OtherUnderWay
  <2> HIDE DEF near
  <2> QED BY <1>1, <2>1, <2>3, FlagsSent DEF Install
<1>5. CASE Leave
  <2>1. toServer' = <<>> /\ toClient' = <<>> /\ retain' = <<>>
    BY <1>5 DEF Leave
  <2> QED BY <2>1, NoFlags, Empty DEF FlagsInStep
<1>6. CASE Receive
  <2>1. PICK f \in Frames : ReceiveEmpty(f) \/ ReceiveUsable(f)
    BY <1>6 DEF Receive
  <2>2. /\ UNCHANGED toClient
        /\ \/ UNCHANGED <<toServer, retain>>
           \/ UNCHANGED retain /\ Install(pending, Placed(f, scale', mine))
           \/ SendClear(TRUE)
    BY <1>6, <2>1 DEF Receive, ReceiveEmpty, ReceiveUsable
  <2> QED BY <1>1, <2>2, FlagsSent DEF Install
<1>7. CASE Reinstall
  <2>1. /\ UNCHANGED <<toClient, retain>>
        /\ UNCHANGED toServer \/ Install(pending, Placed(latest, scale', mine))
    BY <1>7 DEF Reinstall
  <2> QED BY <1>1, <2>1, FlagsSent DEF Install
<1>8. CASE Clear
  <2>1. UNCHANGED toClient /\ SendClear(FALSE)
    BY <1>8 DEF Clear
  <2> QED BY <1>1, <2>1, FlagsSent
<1>9. ASSUME toClient # <<>>, toClient' = Tail(toClient), Head(toClient).type \notin {"clear", "cleared"},
             \/ UNCHANGED <<toServer, retain>>
             \/ UNCHANGED retain /\ \E s : toServer' = Append(toServer, InstallPayload(s))
             \/ \E keep : SendClear(keep)
      PROVE  IsSeq(retain') /\ FlagsInStep'
  <2>1. IsSeq(Tail(toClient)) /\ InStep(retain, Tail(toClient) \o toServer)
    BY <1>1, <1>9, Received, OtherRead
  <2> QED BY <1>1, <1>9, <2>1, FlagsSent
<1>10. CASE OnWorldChanged \/ OnAckIgnored
  <2>1. /\ toClient # <<>> /\ toClient' = Tail(toClient)
        /\ Head(toClient).type \in {"world", "ack"}
        /\ UNCHANGED <<toServer, retain>>
    BY <1>10 DEF OnWorldChanged, OnAckIgnored, FromServer
  <2> QED BY <1>9, <2>1
<1>11. CASE OnAckActivates
  <2>1. /\ toClient # <<>> /\ toClient' = Tail(toClient) /\ Head(toClient).type = "ack"
        /\ UNCHANGED <<toServer, retain>> \/ SendClear(TRUE)
    BY <1>11 DEF OnAckActivates, FromServer
  <2> QED BY <1>9, <2>1
<1>12. CASE OnAvatarState
  <2>1. /\ toClient # <<>> /\ toClient' = Tail(toClient) /\ Head(toClient).type = "avatar"
        /\ UNCHANGED retain
        /\ UNCHANGED toServer \/ Install({}, Placed(latest, scale', Head(toClient).binding))
    BY <1>12 DEF OnAvatarState, FromServer
  <2> QED BY <1>9, <2>1 DEF Install
<1>13. CASE OnCleared
  <2>1. /\ toClient # <<>> /\ toClient' = Tail(toClient) /\ Head(toClient).type = "cleared"
        /\ UNCHANGED toServer
    BY <1>13 DEF OnCleared, FromServer
  <2>2. retain # <<>> /\ InStep(Tail(retain), Tail(toClient) \o toServer)
    BY <1>1, <2>1, ClearedRead
  <2>3. retain' = Tail(retain)
    BY <1>13, <2>2 DEF OnCleared
  <2> QED BY <1>1, <2>1, <2>2, <2>3, Received DEF FlagsInStep
<1>14. CASE OnInstall
  <2>1. /\ toServer # <<>> /\ Head(toServer).type = "install" /\ toServer' = Tail(toServer)
        /\ \E ok \in BOOLEAN : toClient' = Append(toClient, Ack(Head(toServer).snapshot, ok))
        /\ UNCHANGED retain
    BY <1>14 DEF OnInstall, FromClient, clientVars
  <2>2. PICK m : m.type = "ack" /\ toClient' = Append(toClient, m)
    BY <2>1, Kinds
  <2> QED BY <1>1, <2>1, <2>2, Answered DEF FlagsInStep
<1>15. CASE OnClear
  <2> DEFINE m == Cleared(Head(toServer).keep)
  <2>1. /\ toServer # <<>> /\ Head(toServer).type = "clear" /\ toServer' = Tail(toServer)
        /\ toClient' = Append(toClient, m)
        /\ UNCHANGED retain
    BY <1>15 DEF OnClear, FromClient, clientVars
  <2>2. m.type = "cleared" /\ m.keep = Head(toServer).keep
    BY DEF Cleared
  <2> HIDE DEF m
  <2> QED BY <1>1, <2>1, <2>2, Answered DEF FlagsInStep
<1>16. CASE Expire \/ UNCHANGED vars
  <2>1. UNCHANGED <<toClient, toServer, retain>>
    BY <1>16 DEF Expire, vars, clientVars
  <2> QED BY <1>2, <2>1
<1>17. CASE ChangeWorld \/ Rebind
  <2>1. /\ toClient' = Append(toClient, WorldChanged) \/ toClient' = Append(toClient, AvatarState(bound'))
        /\ UNCHANGED <<toServer, retain>>
    BY <1>17 DEF ChangeWorld, Rebind, clientVars
  <2> QED BY <1>3, <2>1, Kinds
<1> QED BY <1>4, <1>5, <1>6, <1>7, <1>8, <1>10, <1>11, <1>12, <1>13, <1>14, <1>15, <1>16, <1>17 DEF Next

\* The flags of the client are those of the clears under way, in their order, for
\* any number of clears and of payloads between them.
THEOREM AnswersToldApart == Spec => []FlagsInStep
<1>1. Init => FlagsInv
  <2> SUFFICES ASSUME Init PROVE FlagsInv
    OBVIOUS
  <2>1. toServer = <<>> /\ toClient = <<>> /\ retain = <<>> /\ stored = None
    BY DEF Init
  <2> QED BY <2>1, NoFlags, Empty DEF FlagsInv, Channels, Apart, FlagsInStep
<1>2. IInv /\ IInv' /\ FlagsInv /\ [Next]_vars => FlagsInv'
  BY ApartStep, FlagsStep DEF FlagsInv, IInv
<1> QED BY <1>1, <1>2, Invariance, PTL DEF Spec, FlagsInv

\* What the client shows was accepted by the server, is no newer than what it
\* accepted last and has the binding the client knows.
THEOREM AcceptedBeforeShown == Spec => []ClientNeverAhead
<1>1. IInv => ClientNeverAhead
  <2> SUFFICES ASSUME IInv, active # None
               PROVE  /\ cursor # 0 /\ ~Older(cursor, active.frame)
                      /\ Session(active.frame) <= Session(cursor)
                      /\ active.binding = mine
    BY DEF ClientNeverAhead
  <2>1. /\ active.frame \in Nat \ {0} /\ active.frame <= cursor /\ active.binding = mine
        /\ cursor \in Nat
    BY DEF IInv, ActiveCovered, InstallsInOrder
  <2>2. SecondSession \in Nat
    BY InstallAssumption
  <2> QED BY <2>1, <2>2 DEF Older, Session
<1> QED BY <1>1, Invariance, PTL

\* Once the server has read what was sent since tracking was lost, nothing can be
\* hit.
THEOREM LostIsSafe == Spec => []NoHitsWithoutTracking
<1>1. IInv => NoHitsWithoutTracking
  BY Empty DEF IInv, LostSilenced, Silenced, NoHitsWithoutTracking
<1> QED BY <1>1, Invariance, PTL

-----------------------------------------------------------------------------
(* What is shown and what can be hit.  The client and the server agree when  *)
(* all is read because of the snapshot the client asked for last: on its way *)
(* it is pending, or what is shown already.                                  *)

Way == toClient \o toServer

\* The installs and their answers, in the order the client sent them.
Asks(channel) == {k \in DOMAIN channel : channel[k].type \in {"install", "ack"}}
Last(channel, k) == k \in Asks(channel) /\ \A j \in Asks(channel) : j <= k
Marks(channel) == Asks(channel) \cup ClearsIn(channel)

\* next holds the installs and clears of channel but for those gone, in their order.
Comes(channel, next, from, gone) ==
    /\ \A i \in Asks(next) :
          from[i] \in Asks(channel) \ gone /\ next[i].snapshot = channel[from[i]].snapshot
    /\ \A i \in ClearsIn(next) :
          from[i] \in ClearsIn(channel) \ gone /\ next[i].keep = channel[from[i]].keep
    /\ \A i, j \in Marks(next) : i < j <=> from[i] < from[j]
    /\ \A k \in Marks(channel) \ gone : \E i \in Marks(next) : from[i] = k

\* next is channel with m at its end.
Grown(channel, m, next) ==
    \E n \in Nat :
        /\ DOMAIN channel = 1..n /\ DOMAIN next = 1 .. n + 1
        /\ \A k \in 1..n : next[k] = channel[k]
        /\ next[n + 1] = m

LEMMA MarksApart ==
  ASSUME NEW c
  PROVE  /\ Asks(c) \cap ClearsIn(c) = {}
         /\ Asks(c) \subseteq DOMAIN c /\ ClearsIn(c) \subseteq DOMAIN c /\ Marks(c) \subseteq DOMAIN c
BY DEF Asks, ClearsIn, Marks

LEMMA SendGrows ==
  ASSUME NEW near, IsSeq(near), NEW far, IsSeq(far), NEW m
  PROVE  Grown(near \o far, m, near \o Append(far, m))
<1> DEFINE ch == near \o far
           next == near \o Append(far, m)
<1>1. /\ Len(near) \in Nat /\ Len(far) \in Nat
      /\ DOMAIN ch = 1 .. Len(near) + Len(far)
      /\ \A k \in 1 .. Len(near) : ch[k] = near[k]
      /\ \A k \in Len(near) + 1 .. Len(near) + Len(far) : ch[k] = far[k - Len(near)]
  BY OnTheWay
<1>2. /\ IsSeq(Append(far, m)) /\ Len(Append(far, m)) = Len(far) + 1
      /\ \A k \in 1 .. Len(far) : Append(far, m)[k] = far[k]
      /\ Append(far, m)[Len(far) + 1] = m
  BY Appended, <1>1, OnTheWay
<1>3. /\ DOMAIN next = 1 .. Len(near) + Len(far) + 1
      /\ \A k \in DOMAIN ch : next[k] = ch[k]
      /\ next[Len(near) + Len(far) + 1] = m
  BY <1>1, <1>2, OnTheWay
<1> HIDE DEF ch, next
<1>4. Len(near) + Len(far) \in Nat
  BY <1>1
<1>5. Grown(ch, m, next)
  BY <1>1, <1>3, <1>4 DEF Grown
<1> QED BY <1>5 DEF ch, next

LEMMA ReadComes ==
  ASSUME NEW near, IsSeq(near), near # <<>>, NEW far, IsSeq(far)
  PROVE  /\ \E from : Comes(near \o far, Tail(near) \o far, from, {1})
         /\ (near \o far)[1] = Head(near) /\ 1 \in DOMAIN (near \o far)
         /\ \A k \in DOMAIN (near \o far) : k \in Nat /\ k >= 1
<1> DEFINE ch == near \o far
           next == Tail(near) \o far
           from == [k \in DOMAIN next |-> k + 1]
<1>1. /\ Len(near) \in Nat /\ Len(far) \in Nat /\ Len(near) >= 1
      /\ DOMAIN ch = 1 .. Len(near) + Len(far)
      /\ \A k \in 1 .. Len(near) : ch[k] = near[k]
      /\ \A k \in Len(near) + 1 .. Len(near) + Len(far) : ch[k] = far[k - Len(near)]
  BY OnTheWay, Received
<1>2. /\ IsSeq(Tail(near)) /\ DOMAIN Tail(near) = 1 .. Len(near) - 1
      /\ \A k \in 1 .. Len(near) - 1 : Tail(near)[k] = near[k + 1]
      /\ Head(near) = near[1]
  BY Received
<1>3. Len(Tail(near)) = Len(near) - 1
  BY <1>1, <1>2, Empty, OnTheWay
<1>4. /\ DOMAIN next = 1 .. Len(near) + Len(far) - 1
      /\ \A k \in 1 .. Len(near) + Len(far) - 1 : next[k] = ch[k + 1]
  BY <1>1, <1>2, <1>3, OnTheWay
<1>5. ch[1] = Head(near) /\ 1 \in DOMAIN ch /\ \A k \in DOMAIN ch : k \in Nat /\ k >= 1
  BY <1>1, <1>2
<1> HIDE DEF ch, next
<1>6. \A i \in Asks(next) : from[i] \in Asks(ch) \ {1} /\ next[i].snapshot = ch[from[i]].snapshot
  BY <1>1, <1>4 DEF Asks
<1>7. \A i \in ClearsIn(next) : from[i] \in ClearsIn(ch) \ {1} /\ next[i].keep = ch[from[i]].keep
  BY <1>1, <1>4 DEF ClearsIn
<1>8. \A i, j \in Marks(next) : i < j <=> from[i] < from[j]
  BY <1>1, <1>4, MarksApart
<1>9. ASSUME NEW k \in Marks(ch) \ {1} PROVE \E i \in Marks(next) : from[i] = k
  <2>1. k - 1 \in DOMAIN next /\ from[k - 1] = k /\ next[k - 1] = ch[k]
    BY <1>1, <1>4, <1>9, MarksApart
  <2>2. k - 1 \in Marks(next)
    BY <1>9, <2>1 DEF Marks, Asks, ClearsIn
  <2> QED BY <2>1, <2>2
<1> HIDE DEF from
<1>10. Comes(ch, next, from, {1})
  BY <1>6, <1>7, <1>8, <1>9 DEF Comes
<1> QED BY <1>5, <1>10 DEF ch, next

LEMMA InsertComes ==
  ASSUME NEW near, IsSeq(near), NEW far, IsSeq(far), NEW m,
         m.type \notin {"clear", "cleared", "install", "ack"}
  PROVE  \E from : Comes(near \o far, Append(near, m) \o far, from, {})
<1> DEFINE ch == near \o far
           next == Append(near, m) \o far
           from == [k \in DOMAIN next |-> IF k <= Len(near) THEN k ELSE k - 1]
<1>1. /\ Len(near) \in Nat /\ Len(far) \in Nat
      /\ DOMAIN ch = 1 .. Len(near) + Len(far)
      /\ \A k \in 1 .. Len(near) : ch[k] = near[k]
      /\ \A k \in Len(near) + 1 .. Len(near) + Len(far) : ch[k] = far[k - Len(near)]
  BY OnTheWay
<1>2. /\ IsSeq(Append(near, m)) /\ Len(Append(near, m)) = Len(near) + 1
      /\ \A k \in 1 .. Len(near) : Append(near, m)[k] = near[k]
      /\ Append(near, m)[Len(near) + 1] = m
  BY Appended, <1>1, OnTheWay
<1>3. /\ DOMAIN next = 1 .. Len(near) + Len(far) + 1
      /\ \A k \in 1 .. Len(near) : next[k] = ch[k]
      /\ next[Len(near) + 1] = m
      /\ \A k \in Len(near) + 1 .. Len(near) + Len(far) : next[k + 1] = ch[k]
  BY <1>1, <1>2, OnTheWay
<1> HIDE DEF ch, next
<1>4. \A k \in Marks(next) : k # Len(near) + 1
  BY <1>3 DEF Marks, Asks, ClearsIn
<1>5. \A k \in Marks(next) : from[k] \in DOMAIN ch /\ next[k] = ch[from[k]]
  <2> TAKE k \in Marks(next)
  <2>1. k \in DOMAIN next /\ k # Len(near) + 1
    BY <1>4, MarksApart
  <2>2. CASE k <= Len(near)
    BY <1>1, <1>3, <2>1, <2>2
  <2>3. CASE k > Len(near) + 1
    <3>1. from[k] = k - 1 /\ k - 1 \in Len(near) + 1 .. Len(near) + Len(far)
      BY <1>1, <1>3, <2>1, <2>3
    <3>2. next[(k - 1) + 1] = ch[k - 1] /\ (k - 1) + 1 = k
      BY <1>1, <1>3, <3>1, <2>1
    <3> QED BY <1>1, <3>1, <3>2
  <2> QED BY <1>1, <1>3, <2>1, <2>2, <2>3
<1>6. \A i \in Asks(next) : from[i] \in Asks(ch) /\ next[i].snapshot = ch[from[i]].snapshot
  BY <1>5 DEF Asks, Marks
<1>7. \A i \in ClearsIn(next) : from[i] \in ClearsIn(ch) /\ next[i].keep = ch[from[i]].keep
  BY <1>5 DEF ClearsIn, Marks
<1>8. \A i, j \in Marks(next) : i < j <=> from[i] < from[j]
  BY <1>1, <1>3, <1>4, MarksApart
<1>9. ASSUME NEW k \in Marks(ch) PROVE \E i \in Marks(next) : from[i] = k
  <2>1. CASE k <= Len(near)
    <3>1. k \in DOMAIN next /\ from[k] = k /\ next[k] = ch[k]
      BY <1>1, <1>3, <1>9, <2>1, MarksApart
    <3>2. k \in Marks(next)
      BY <1>9, <3>1 DEF Marks, Asks, ClearsIn
    <3> QED BY <3>1, <3>2
  <2>2. CASE k > Len(near)
    <3>1. k + 1 \in DOMAIN next /\ from[k + 1] = k /\ next[k + 1] = ch[k]
      BY <1>1, <1>3, <1>9, <2>2, MarksApart
    <3>2. k + 1 \in Marks(next)
      BY <1>9, <3>1 DEF Marks, Asks, ClearsIn
    <3> QED BY <3>1, <3>2
  <2> QED BY <1>1, <1>9, <2>1, <2>2, MarksApart
<1> HIDE DEF from
<1>10. Comes(ch, next, from, {})
  BY <1>6, <1>7, <1>8, <1>9 DEF Comes
<1> QED BY <1>10 DEF ch, next

LEMMA AnswerComes ==
  ASSUME NEW near, IsSeq(near), NEW far, IsSeq(far), far # <<>>, NEW m,
         \/ m.type = "ack" /\ Head(far).type = "install" /\ m.snapshot = Head(far).snapshot
         \/ m.type = "cleared" /\ Head(far).type = "clear" /\ m.keep = Head(far).keep
  PROVE  \E from : Comes(near \o far, Append(near, m) \o Tail(far), from, {})
<1> DEFINE ch == near \o far
           next == Append(near, m) \o Tail(far)
           from == [k \in DOMAIN ch |-> k]
<1>1. /\ Len(near) \in Nat /\ Len(far) \in Nat /\ Len(far) >= 1
      /\ DOMAIN ch = 1 .. Len(near) + Len(far)
      /\ \A k \in 1 .. Len(near) : ch[k] = near[k]
      /\ \A k \in Len(near) + 1 .. Len(near) + Len(far) : ch[k] = far[k - Len(near)]
  BY OnTheWay, Received
<1>2. /\ IsSeq(Tail(far)) /\ DOMAIN Tail(far) = 1 .. Len(far) - 1
      /\ \A k \in 1 .. Len(far) - 1 : Tail(far)[k] = far[k + 1]
      /\ Head(far) = far[1]
  BY Received
<1>3. Len(Tail(far)) = Len(far) - 1
  BY <1>1, <1>2, Empty, OnTheWay
<1>4. /\ IsSeq(Append(near, m)) /\ Len(Append(near, m)) = Len(near) + 1
      /\ \A k \in 1 .. Len(near) : Append(near, m)[k] = near[k]
      /\ Append(near, m)[Len(near) + 1] = m
  BY Appended, <1>1, OnTheWay
<1>5. DOMAIN next = 1 .. Len(near) + Len(far)
  BY <1>1, <1>2, <1>3, <1>4, OnTheWay
<1>6. \A k \in 1 .. Len(near) : next[k] = ch[k]
  BY <1>1, <1>2, <1>3, <1>4, OnTheWay
<1>7. next[Len(near) + 1] = m /\ ch[Len(near) + 1] = Head(far)
  BY <1>1, <1>2, <1>3, <1>4, OnTheWay
<1>8. \A k \in Len(near) + 2 .. Len(near) + Len(far) : next[k] = ch[k]
  BY <1>1, <1>2, <1>3, <1>4, OnTheWay
<1> HIDE DEF ch, next
<1>10. ASSUME NEW k \in DOMAIN ch
       PROVE  /\ k \in ClearsIn(ch) <=> k \in ClearsIn(next)
              /\ k \in Asks(ch) <=> k \in Asks(next)
              /\ k \in ClearsIn(ch) => next[k].keep = ch[k].keep
              /\ k \in Asks(ch) => next[k].snapshot = ch[k].snapshot
  <2>1. CASE k = Len(near) + 1
    BY <1>1, <1>5, <1>7, <2>1 DEF ClearsIn, Asks
  <2>2. CASE k # Len(near) + 1
    BY <1>1, <1>5, <1>6, <1>8, <2>2 DEF ClearsIn, Asks
  <2> QED BY <2>1, <2>2
<1>11. DOMAIN ch = DOMAIN next
  BY <1>1, <1>5
<1>12. \A k \in DOMAIN ch : from[k] = k
  OBVIOUS
<1> HIDE DEF from
<1>13. Comes(ch, next, from, {})
  BY <1>10, <1>11, <1>12, MarksApart DEF Comes, Marks
<1> QED BY <1>13 DEF ch, next

-----------------------------------------------------------------------------
(* What the client waits for. *)

Framed(channel, top) ==
    \A i \in Asks(channel) :
        /\ Frame(channel[i]) \in Nat \ {0} /\ Frame(channel[i]) <= top
        /\ \A j \in Asks(channel) : i < j => Frame(channel[i]) <= Frame(channel[j])

Above(channel, shown) == shown # None => \A i \in Asks(channel) : shown.frame <= Frame(channel[i])

\* What is pending was asked for, and what was asked for last is among it.
Waiting(channel, own, open) ==
    /\ \A p, q \in open : p.frame = q.frame => p = q
    /\ \A p \in open : /\ p.binding = own
                       /\ \E k \in Asks(channel) :
                             Frame(channel[k]) = p.frame /\ channel[k].snapshot.binding = own
    /\ open # {} => \E k : Last(channel, k) /\ channel[k].snapshot \in open

View(channel, top, own, open, shown) ==
    top \in Nat /\ Framed(channel, top) /\ Above(channel, shown) /\ Waiting(channel, own, open)

LEMMA LastComes ==
  ASSUME NEW c, NEW next, NEW from, NEW gone, Comes(c, next, from, gone), NEW k,
         Last(c, k), k \notin gone, DOMAIN c \subseteq Nat, DOMAIN next \subseteq Nat
  PROVE  \E i : Last(next, i) /\ from[i] = k /\ next[i].snapshot = c[k].snapshot
<1>1. k \in Asks(c) /\ \A j \in Asks(c) : j <= k
  BY DEF Last
<1>2. PICK i \in Marks(next) : from[i] = k
  BY <1>1 DEF Comes, Marks
<1>3. i \in Asks(next)
  <2>1. i \in ClearsIn(next) => k \in ClearsIn(c)
    BY <1>2 DEF Comes
  <2> QED BY <1>1, <1>2, <2>1, MarksApart DEF Marks
<1>4. ASSUME NEW j \in Asks(next) PROVE j <= i
  <2>1. from[j] \in Asks(c)
    BY DEF Comes
  <2>2. ~(k < from[j])
    BY <1>1, <2>1, MarksApart
  <2>3. i < j => from[i] < from[j]
    BY <1>3 DEF Comes, Marks
  <2> QED BY <1>2, <1>3, <2>2, <2>3, MarksApart
<1>5. next[i].snapshot = c[k].snapshot
  BY <1>2, <1>3 DEF Comes
<1> QED BY <1>2, <1>3, <1>4, <1>5 DEF Last

LEMMA FramedComes ==
  ASSUME NEW c, NEW next, NEW from, NEW gone, Comes(c, next, from, gone), NEW top, NEW shown,
         Framed(c, top), Above(c, shown)
  PROVE  Framed(next, top) /\ Above(next, shown)
<1>1. \A i \in Asks(next) : from[i] \in Asks(c) /\ Frame(next[i]) = Frame(c[from[i]])
  BY DEF Comes, Frame
<1>2. \A i, j \in Asks(next) : i < j => from[i] < from[j]
  BY DEF Comes, Marks
<1> QED BY <1>1, <1>2 DEF Framed, Above

\* Payloads that are no install and no answer to one come and go.
LEMMA ViewComes ==
  ASSUME NEW c, NEW next, NEW from, NEW gone, Comes(c, next, from, gone),
         Asks(c) \cap gone = {}, DOMAIN c \subseteq Nat, DOMAIN next \subseteq Nat,
         NEW top, NEW own, NEW open, NEW shown, View(c, top, own, open, shown)
  PROVE  View(next, top, own, open, shown)
<1>1. Framed(next, top) /\ Above(next, shown)
  BY FramedComes DEF View
<1>2. ASSUME NEW p \in open
      PROVE  \E k \in Asks(next) : Frame(next[k]) = p.frame /\ next[k].snapshot.binding = own
  <2>1. PICK k \in Asks(c) : Frame(c[k]) = p.frame /\ c[k].snapshot.binding = own
    BY DEF View, Waiting
  <2>2. PICK i \in Marks(next) : from[i] = k
    BY DEF Comes, Marks
  <2>3. i \in Asks(next)
    <3>1. i \in ClearsIn(next) => k \in ClearsIn(c)
      BY <2>2 DEF Comes
    <3> QED BY <2>2, <3>1, MarksApart DEF Marks
  <2>4. next[i].snapshot = c[k].snapshot
    BY <2>2, <2>3 DEF Comes
  <2> QED BY <2>1, <2>3, <2>4 DEF Frame
<1>3. ASSUME open # {} PROVE \E k : Last(next, k) /\ next[k].snapshot \in open
  <2>1. PICK k : Last(c, k) /\ c[k].snapshot \in open
    BY <1>3 DEF View, Waiting
  <2>2. k \notin gone
    BY <2>1 DEF Last
  <2> QED BY <2>1, <2>2, LastComes
<1> QED BY <1>1, <1>2, <1>3 DEF View, Waiting

\* An answer is read: what it answers is pending no more.
LEMMA ViewAnswered ==
  ASSUME NEW c, NEW next, NEW from, Comes(c, next, from, {1}), 1 \in Asks(c),
         DOMAIN c \subseteq Nat, DOMAIN next \subseteq Nat, \A k \in DOMAIN c : k >= 1,
         NEW top, NEW own, NEW open, NEW shown, View(c, top, own, open, shown),
         NEW rest, rest = {p \in open : ~(p.frame = Frame(c[1]) /\ c[1].snapshot.binding = own)},
         NEW seen, seen = shown \/ seen = None \/ seen.frame = Frame(c[1])
  PROVE  View(next, top, own, rest, seen)
<1>1. Framed(c, top) /\ Above(c, shown) /\ Waiting(c, own, open) /\ top \in Nat
  BY DEF View
<1>2. Framed(next, top) /\ Above(next, shown)
  BY <1>1, FramedComes
<1>3. \A i \in Asks(next) : from[i] \in Asks(c) /\ from[i] # 1 /\ Frame(next[i]) = Frame(c[from[i]])
  BY DEF Comes, Frame
<1>4. \A k \in Asks(c) : k # 1 => 1 < k
  BY MarksApart
<1>5. Above(next, seen)
  <2>1. ASSUME seen.frame = Frame(c[1]) PROVE Above(next, seen)
    BY <1>1, <1>3, <1>4, <2>1 DEF Above, Framed
  <2>2. ASSUME seen = None PROVE Above(next, seen)
    BY <2>2 DEF Above
  <2> QED BY <1>2, <2>1, <2>2
<1>6. ASSUME NEW p \in rest
      PROVE  \E k \in Asks(c) : k # 1 /\ Frame(c[k]) = p.frame /\ c[k].snapshot.binding = own
  <2>1. PICK k \in Asks(c) : Frame(c[k]) = p.frame /\ c[k].snapshot.binding = own
    BY <1>1, <1>6 DEF Waiting
  <2> QED BY <1>6, <2>1
<1>7. ASSUME NEW p \in rest
      PROVE  \E k \in Asks(next) : Frame(next[k]) = p.frame /\ next[k].snapshot.binding = own
  <2>1. PICK k \in Asks(c) : k # 1 /\ Frame(c[k]) = p.frame /\ c[k].snapshot.binding = own
    BY <1>6
  <2>2. PICK i \in Marks(next) : from[i] = k
    BY <2>1 DEF Comes, Marks
  <2>3. i \in Asks(next)
    <3>1. i \in ClearsIn(next) => k \in ClearsIn(c)
      BY <2>2 DEF Comes
    <3> QED BY <2>1, <2>2, <3>1, MarksApart DEF Marks
  <2>4. next[i].snapshot = c[k].snapshot
    BY <2>2, <2>3 DEF Comes
  <2> QED BY <2>1, <2>3, <2>4 DEF Frame
<1>8. ASSUME NEW g \in rest PROVE \E k : Last(next, k) /\ next[k].snapshot \in rest
  <2>1. PICK k : Last(c, k) /\ c[k].snapshot \in open
    BY <1>1, <1>8 DEF Waiting
  <2>2. PICK l \in Asks(c) : l # 1 /\ Frame(c[l]) = g.frame /\ c[l].snapshot.binding = own
    BY <1>6, <1>8
  <2>3. k \in Asks(c) /\ l <= k /\ 1 < l /\ k # 1
    BY <1>4, <2>1, <2>2, MarksApart DEF Last
  <2>4. /\ Frame(c[1]) \in Nat /\ Frame(c[l]) \in Nat /\ Frame(c[k]) \in Nat
        /\ Frame(c[1]) <= Frame(c[l])
    BY <1>1, <2>2, <2>3 DEF Framed
  <2>5. Frame(c[l]) <= Frame(c[k])
    <3>1. l < k => Frame(c[l]) <= Frame(c[k])
      BY <1>1, <2>2, <2>3 DEF Framed
    <3>2. l \in Nat /\ k \in Nat
      BY <2>2, <2>3, MarksApart
    <3>3. l = k => Frame(c[l]) <= Frame(c[k])
      BY <2>4
    <3> QED BY <2>3, <3>1, <3>2, <3>3
  <2>6. c[k].snapshot \in rest
    <3>1. SUFFICES ASSUME c[k].snapshot.frame = Frame(c[1]), c[1].snapshot.binding = own PROVE FALSE
      BY <2>1
    <3>2. Frame(c[k]) = Frame(c[1])
      BY <3>1 DEF Frame
    <3>3. g.frame = Frame(c[1])
      BY <2>2, <2>4, <2>5, <3>2
    <3> QED BY <1>8, <3>1, <3>3
  <2>7. PICK i : Last(next, i) /\ next[i].snapshot = c[k].snapshot
    BY <2>1, <2>3, LastComes
  <2> QED BY <2>6, <2>7
<1>9. \A p, q \in rest : p.frame = q.frame => p = q
  BY <1>1 DEF Waiting
<1>10. \A p \in rest : p.binding = own
  BY <1>1 DEF Waiting
<1>11. Waiting(next, own, rest)
  BY <1>7, <1>8, <1>9, <1>10 DEF Waiting
<1> QED BY <1>1, <1>2, <1>5, <1>11 DEF View

LEMMA LessWellFounded ==
  \E R : IsWellFoundedOn(R, Nat) /\ \A x, y \in Nat : <<y, x>> \in R <=> y < x
<1> DEFINE R == OpToRel(<, Nat)
<1>1. IsWellFoundedOn(R, Nat)
  BY NatLessThanWellFounded
<1>2. \A x, y \in Nat : <<y, x>> \in R <=> y < x
  BY DEF OpToRel
<1> QED BY <1>1, <1>2, Zenon

LEMMA Least ==
  ASSUME NEW T, T \subseteq Nat, T # {}
  PROVE  \E x \in T : \A y \in T : x <= y
<1>1. PICK R : IsWellFoundedOn(R, Nat) /\ \A x, y \in Nat : <<y, x>> \in R <=> y < x
  BY LessWellFounded
<1>2. PICK x \in T : \A y \in T : ~ (<<y, x>> \in R)
  BY <1>1, WFMin
<1>3. ASSUME NEW y \in T PROVE x <= y
  <2>1. x \in Nat /\ y \in Nat
    OBVIOUS
  <2>2. ~(y < x)
    BY <1>1, <1>2, <2>1, Zenon
  <2> QED BY <2>1, <2>2
<1> QED BY <1>3

\* The newest snapshot is never the one pushed out.
LEMMA NewestStays ==
  ASSUME NEW open, NEW s, s.frame \in Nat, \A p \in open : p.frame \in Nat /\ p.frame <= s.frame,
         \A p, q \in open : p.frame = q.frame => p = q
  PROVE  s \in Evicted(Put(open, s)) /\ Evicted(Put(open, s)) \subseteq Put(open, s)
<1> DEFINE all == Put(open, s)
<1>1. /\ s \in all
      /\ \A p \in all : p.frame \in Nat /\ p.frame <= s.frame
      /\ \A p, q \in all : p.frame = q.frame => p = q
  BY DEF Put
<1> HIDE DEF all
<1>2. Evicted(all) \subseteq all
  BY DEF Evicted
<1>3. ASSUME Cardinality(all) > MaxPending PROVE s \in Evicted(all)
  <2> DEFINE frames == {p.frame : p \in all}
             gone == CHOOSE q \in all : \A r \in all : q.frame <= r.frame
  <2>1. frames \subseteq Nat /\ frames # {}
    BY <1>1
  <2>2. PICK least \in frames : \A y \in frames : least <= y
    BY <2>1, Least
  <2>3. \E q \in all : \A r \in all : q.frame <= r.frame
    <3>1. PICK q \in all : q.frame = least
      OBVIOUS
    <3>2. \A r \in all : r.frame \in frames
      OBVIOUS
    <3> HIDE DEF frames
    <3> QED BY <2>2, <3>1, <3>2
  <2>4. gone \in all /\ \A r \in all : gone.frame <= r.frame
    BY <2>3
  <2>5. Evicted(all) = all \ {gone}
    BY <1>3 DEF Evicted
  <2> HIDE DEF gone
  <2>6. ASSUME gone = s PROVE FALSE
    <3>1. ASSUME NEW r \in all PROVE r = s
      <4>1. r.frame = s.frame
        BY <1>1, <2>4, <2>6
      <4> QED BY <1>1, <4>1
    <3>2. all = {s}
      BY <1>1, <3>1
    <3>3. Cardinality(all) = 1
      BY <3>2, FS_Singleton
    <3> QED BY <1>3, <3>3, InstallAssumption
  <2> QED BY <1>1, <2>5, <2>6
<1>4. ASSUME ~(Cardinality(all) > MaxPending) PROVE s \in Evicted(all)
  BY <1>1, <1>4 DEF Evicted
<1>5. s \in Evicted(all)
  BY <1>3, <1>4
<1> QED BY <1>2, <1>5 DEF all

LEMMA GrownMarks ==
  ASSUME NEW c, NEW m, NEW next, Grown(c, m, next)
  PROVE  \E n \in Nat :
           /\ DOMAIN c = 1..n /\ n + 1 \in DOMAIN next /\ next[n + 1] = m
           /\ DOMAIN next = 1 .. n + 1
           /\ \A k \in DOMAIN c : k \in DOMAIN next /\ next[k] = c[k] /\ k < n + 1
           /\ Asks(next) = Asks(c) \cup (IF m.type \in {"install", "ack"} THEN {n + 1} ELSE {})
           /\ ClearsIn(next) = ClearsIn(c) \cup (IF m.type \in {"clear", "cleared"} THEN {n + 1} ELSE {})
<1>1. PICK n \in Nat :
        /\ DOMAIN c = 1..n /\ DOMAIN next = 1 .. n + 1
        /\ \A k \in 1..n : next[k] = c[k]
        /\ next[n + 1] = m
  BY DEF Grown
<1>2. \A k \in DOMAIN next : k \in DOMAIN c \/ k = n + 1
  BY <1>1
<1>3. n + 1 \in DOMAIN next /\ \A k \in DOMAIN c : k \in DOMAIN next /\ k < n + 1
  BY <1>1
<1>4. Asks(next) = Asks(c) \cup (IF m.type \in {"install", "ack"} THEN {n + 1} ELSE {})
  BY <1>1, <1>2, <1>3 DEF Asks
<1>5. ClearsIn(next) = ClearsIn(c) \cup (IF m.type \in {"clear", "cleared"} THEN {n + 1} ELSE {})
  BY <1>1, <1>2, <1>3 DEF ClearsIn
<1> QED BY <1>1, <1>3, <1>4, <1>5

LEMMA ViewClearSent ==
  ASSUME NEW c, NEW m, NEW next, Grown(c, m, next), m.type \notin {"install", "ack"},
         NEW top, NEW own, NEW open, NEW shown, View(c, top, own, open, shown)
  PROVE  View(next, top, own, open, shown)
<1>1. /\ Asks(next) = Asks(c)
      /\ \A k \in Asks(c) : next[k] = c[k]
  <2>1. PICK n \in Nat :
           /\ \A k \in DOMAIN c : k \in DOMAIN next /\ next[k] = c[k] /\ k < n + 1
           /\ Asks(next) = Asks(c) \cup (IF m.type \in {"install", "ack"} THEN {n + 1} ELSE {})
    BY GrownMarks
  <2> QED BY <2>1, MarksApart
<1>2. Framed(next, top) /\ Above(next, shown)
  BY <1>1 DEF View, Framed, Above
<1>3. \A k : Last(c, k) => Last(next, k) /\ next[k].snapshot = c[k].snapshot
  BY <1>1 DEF Last
<1>4. Waiting(next, own, open)
  <2>1. \A p, q \in open : p.frame = q.frame => p = q
    BY DEF View, Waiting
  <2>2. ASSUME NEW p \in open
        PROVE  /\ p.binding = own
               /\ \E k \in Asks(next) : Frame(next[k]) = p.frame /\ next[k].snapshot.binding = own
    BY <1>1 DEF View, Waiting, Frame
  <2>3. open # {} => \E k : Last(next, k) /\ next[k].snapshot \in open
    BY <1>3 DEF View, Waiting
  <2> QED BY <2>1, <2>2, <2>3 DEF Waiting
<1> QED BY <1>2, <1>4 DEF View

LEMMA ViewInstallSent ==
  ASSUME NEW c, NEW s, NEW next, Grown(c, InstallPayload(s), next),
         NEW top, NEW own, NEW open, NEW shown, View(c, top, own, open, shown),
         s.frame \in Nat \ {0}, top <= s.frame, s.binding = own,
         shown # None => shown.frame <= s.frame
  PROVE  /\ View(next, s.frame, own, Evicted(Put(open, s)), shown)
         /\ \A k : Last(next, k) => next[k].snapshot = s
         /\ s \in Evicted(Put(open, s))
<1> DEFINE m == InstallPayload(s)
           rest == Evicted(Put(open, s))
<1>1. m.type = "install" /\ m.snapshot = s /\ Frame(m) = s.frame
  BY Kinds DEF Frame
<1> HIDE DEF m
<1>2. PICK n \in Nat :
           /\ DOMAIN c = 1..n /\ n + 1 \in DOMAIN next /\ next[n + 1] = m
           /\ \A k \in DOMAIN c : k \in DOMAIN next /\ next[k] = c[k] /\ k < n + 1
           /\ Asks(next) = Asks(c) \cup (IF m.type \in {"install", "ack"} THEN {n + 1} ELSE {})
  BY GrownMarks DEF m
<1>3. /\ Asks(next) = Asks(c) \cup {n + 1}
      /\ \A k \in Asks(c) : next[k] = c[k] /\ k < n + 1 /\ k \in Nat
  BY <1>1, <1>2, MarksApart
<1>4. top \in Nat /\ Framed(c, top) /\ Above(c, shown) /\ Waiting(c, own, open)
  BY DEF View
<1>5. Framed(next, s.frame)
  <2> SUFFICES ASSUME NEW i \in Asks(next)
               PROVE  /\ Frame(next[i]) \in Nat \ {0} /\ Frame(next[i]) <= s.frame
                      /\ \A j \in Asks(next) : i < j => Frame(next[i]) <= Frame(next[j])
    BY DEF Framed
  <2>1. CASE i = n + 1
    <3>1. \A j \in Asks(next) : ~(i < j)
      BY <1>3, <2>1
    <3> QED BY <1>1, <1>2, <2>1, <3>1
  <2>2. CASE i \in Asks(c)
    <3>1. /\ Frame(next[i]) \in Nat \ {0} /\ Frame(next[i]) <= s.frame
          /\ \A j \in Asks(c) : i < j => Frame(next[i]) <= Frame(next[j])
      BY <1>3, <1>4, <2>2 DEF Framed
    <3> QED BY <1>1, <1>2, <1>3, <3>1
  <2> QED BY <1>3, <2>1, <2>2
<1>6. Above(next, shown)
  BY <1>1, <1>2, <1>3, <1>4 DEF Above
<1>7. \A p \in open : p.frame \in Nat /\ p.frame <= s.frame
  BY <1>4 DEF Waiting, Framed
<1>8. s \in rest /\ rest \subseteq Put(open, s)
  BY <1>4, <1>7, NewestStays DEF Waiting
<1> HIDE DEF rest
<1>9. Put(open, s) = {q \in open : q.frame # s.frame} \cup {s}
  BY DEF Put
<1>10. Last(next, n + 1)
  BY <1>3 DEF Last
<1>11. ASSUME NEW k, Last(next, k) PROVE next[k].snapshot = s
  <2>1. k = n + 1
    BY <1>3, <1>11 DEF Last
  <2> QED BY <1>1, <1>2, <2>1
<1>12. Waiting(next, own, rest)
  <2>1. \A p, q \in rest : p.frame = q.frame => p = q
    BY <1>4, <1>8, <1>9 DEF Waiting
  <2>2. ASSUME NEW p \in rest
        PROVE  /\ p.binding = own
               /\ \E k \in Asks(next) : Frame(next[k]) = p.frame /\ next[k].snapshot.binding = own
    <3>1. CASE p = s
      BY <1>1, <1>2, <1>3, <3>1
    <3>2. CASE p \in open
      <4>1. PICK k \in Asks(c) : Frame(c[k]) = p.frame /\ c[k].snapshot.binding = own
        BY <1>4, <3>2 DEF Waiting
      <4> QED BY <1>3, <1>4, <3>2, <4>1 DEF Waiting
    <3> QED BY <1>8, <1>9, <3>1, <3>2
  <2>3. \E k : Last(next, k) /\ next[k].snapshot \in rest
    BY <1>8, <1>10, <1>11
  <2> QED BY <2>1, <2>2, <2>3 DEF Waiting
<1> QED BY <1>4, <1>5, <1>6, <1>8, <1>11, <1>12 DEF View, rest

-----------------------------------------------------------------------------
(* The view of the client, step by step. *)

Viewed == View(Way, latest, mine, pending, active)
Alone == Apart /\ (~joined => pending = {} /\ active = None)

LEMMA WayNumbered ==
  ASSUME NEW near, IsSeq(near), NEW far, IsSeq(far)
  PROVE  DOMAIN (near \o far) \subseteq Nat
BY OnTheWay

LEMMA ViewEmptied ==
  ASSUME NEW c, NEW top, NEW own, NEW open, NEW shown, View(c, top, own, open, shown),
         NEW other, NEW seen, seen = None \/ seen = shown
  PROVE  View(c, top, other, {}, seen)
BY DEF View, Waiting, Above

LEMMA ViewRaised ==
  ASSUME NEW c, NEW top, NEW own, NEW open, NEW shown, View(c, top, own, open, shown),
         NEW high \in Nat, top <= high
  PROVE  View(c, high, own, open, shown)
BY DEF View, Framed

LEMMA ViewInserted ==
  ASSUME NEW near, IsSeq(near), NEW far, IsSeq(far), NEW m,
         m.type \notin {"clear", "cleared", "install", "ack"},
         NEW top, NEW own, NEW open, NEW shown, View(near \o far, top, own, open, shown)
  PROVE  View(Append(near, m) \o far, top, own, open, shown)
<1>1. PICK from : Comes(near \o far, Append(near, m) \o far, from, {})
  BY InsertComes
<1>2. DOMAIN (near \o far) \subseteq Nat /\ DOMAIN (Append(near, m) \o far) \subseteq Nat
  BY Appended, WayNumbered
<1>3. Asks(near \o far) \cap {} = {}
  OBVIOUS
<1> QED BY <1>1, <1>2, <1>3, ViewComes

LEMMA ViewOtherRead ==
  ASSUME NEW near, IsSeq(near), near # <<>>, NEW far, IsSeq(far),
         Head(near).type \notin {"install", "ack"},
         NEW top, NEW own, NEW open, NEW shown, View(near \o far, top, own, open, shown)
  PROVE  View(Tail(near) \o far, top, own, open, shown)
<1>1. PICK from : Comes(near \o far, Tail(near) \o far, from, {1})
  BY ReadComes
<1>2. DOMAIN (near \o far) \subseteq Nat /\ DOMAIN (Tail(near) \o far) \subseteq Nat
  BY Received, WayNumbered
<1>3. Asks(near \o far) \cap {1} = {}
  BY ReadComes DEF Asks
<1> QED BY <1>1, <1>2, <1>3, ViewComes

LEMMA ViewMoved ==
  ASSUME NEW near, IsSeq(near), NEW far, IsSeq(far), far # <<>>, NEW m,
         \/ m.type = "ack" /\ Head(far).type = "install" /\ m.snapshot = Head(far).snapshot
         \/ m.type = "cleared" /\ Head(far).type = "clear" /\ m.keep = Head(far).keep,
         NEW top, NEW own, NEW open, NEW shown, View(near \o far, top, own, open, shown)
  PROVE  View(Append(near, m) \o Tail(far), top, own, open, shown)
<1>1. PICK from : Comes(near \o far, Append(near, m) \o Tail(far), from, {})
  BY AnswerComes
<1>2. DOMAIN (near \o far) \subseteq Nat /\ DOMAIN (Append(near, m) \o Tail(far)) \subseteq Nat
  BY Appended, Received, WayNumbered
<1>3. Asks(near \o far) \cap {} = {}
  OBVIOUS
<1> QED BY <1>1, <1>2, <1>3, ViewComes

\* What a client that has read, or not, sends.
LEMMA ViewClientSends ==
  ASSUME NEW near, IsSeq(near), IsSeq(toServer), toClient' = near, NEW open,
         View(near \o toServer, latest, mine', open, active'),
         latest' \in Nat, latest <= latest', active' # None => active'.frame <= latest,
         active' # None => active'.frame \in Nat,
         \/ UNCHANGED toServer /\ pending' \in {open, {}}
         \/ (\E keep : SendClear(keep)) /\ pending' \in {open, {}}
         \/ \E f, size : Install(open, Placed(f, size, mine')) /\ f = latest' /\ latest' # 0
  PROVE  Viewed'
<1>1. latest \in Nat
  BY DEF View
<1>2. Way' = near \o toServer'
  BY DEF Way
<1>3. CASE UNCHANGED toServer /\ pending' \in {open, {}}
  <2>1. View(Way', latest, mine', pending', active')
    BY <1>2, <1>3, ViewEmptied
  <2> QED BY <2>1, ViewRaised DEF Viewed
<1>4. ASSUME NEW keep, SendClear(keep), pending' \in {open, {}} PROVE Viewed'
  <2>1. Grown(near \o toServer, ClearPayload(keep), Way')
    BY <1>2, <1>4, SendGrows DEF SendClear
  <2>2. View(Way', latest, mine', open, active')
    BY <2>1, ViewClearSent, Kinds
  <2>3. View(Way', latest, mine', pending', active')
    BY <1>4, <2>2, ViewEmptied
  <2> QED BY <2>3, ViewRaised DEF Viewed
<1>5. ASSUME NEW f, NEW size, Install(open, Placed(f, size, mine')), f = latest', latest' # 0
      PROVE  Viewed'
  <2> DEFINE s == Placed(f, size, mine')
  <2>1. s.frame = latest' /\ s.binding = mine'
    BY <1>5, Kinds
  <2> HIDE DEF s
  <2>2. toServer' = Append(toServer, InstallPayload(s)) /\ pending' = Evicted(Put(open, s))
    BY <1>5 DEF Install, s
  <2>3. Grown(near \o toServer, InstallPayload(s), Way')
    BY <1>2, <2>2, SendGrows
  <2>4. s.frame \in Nat \ {0} /\ latest <= s.frame /\ (active' # None => active'.frame <= s.frame)
    BY <1>1, <1>5, <2>1
  <2>5. View(Way', s.frame, mine', Evicted(Put(open, s)), active')
    BY <2>1, <2>3, <2>4, ViewInstallSent
  <2> QED BY <2>1, <2>2, <2>5 DEF Viewed
<1> QED BY <1>3, <1>4, <1>5

LEMMA ActiveKnown ==
  ASSUME IInv, active # None
  PROVE  active.frame \in Nat \ {0} /\ active.frame <= latest /\ active.binding = mine
BY DEF IInv, ActiveCovered, InstallsInOrder

LEMMA ViewReceive == IInv /\ Viewed /\ Alone /\ (Join \/ Receive \/ Reinstall \/ Clear) => Viewed'
<1> SUFFICES ASSUME IInv, Viewed, Alone, Join \/ Receive \/ Reinstall \/ Clear PROVE Viewed'
  OBVIOUS
<1>1. /\ IsSeq(toServer) /\ IsSeq(toClient) /\ latest \in Nat
      /\ View(toClient \o toServer, latest, mine, pending, active)
      /\ active # None => active.frame \in Nat /\ active.frame <= latest
  BY ActiveKnown DEF IInv, Channels, InstallsInOrder, Viewed, Way
<1>2. CASE Join
  <2> DEFINE near == Append(toClient, AvatarState(bound))
  <2>1. /\ toClient' = near /\ UNCHANGED <<latest, mine, active>>
        /\ \/ UNCHANGED <<toServer, pending>>
           \/ Install(pending, Placed(latest, scale, mine)) /\ latest # 0
    BY <1>2 DEF Join, Alone, Apart
  <2>2. IsSeq(near) /\ View(near \o toServer, latest, mine, pending, active)
    BY <1>1, Kinds, Appended, ViewInserted
  <2> HIDE DEF near
  <2> QED BY <1>1, <2>1, <2>2, ViewClientSends
<1>3. CASE Receive
  <2>1. PICK f \in Frames : f > latest /\ (ReceiveEmpty(f) \/ ReceiveUsable(f))
    BY <1>3 DEF Receive
  <2>2. f \in Nat \ {0}
    BY InstallAssumption DEF Frames
  <2>3. /\ latest' = f /\ UNCHANGED <<toClient, mine, active>>
        /\ \/ UNCHANGED toServer /\ pending' \in {pending, {}}
           \/ (\E keep : SendClear(keep)) /\ pending' \in {pending, {}}
           \/ Install(pending, Placed(f, scale', mine))
    BY <1>3, <2>1 DEF Receive, ReceiveEmpty, ReceiveUsable
  <2> QED BY <1>1, <2>1, <2>2, <2>3, ViewClientSends
<1>4. CASE Reinstall
  <2>1. /\ UNCHANGED <<latest, toClient, mine, active>>
        /\ \/ UNCHANGED <<toServer, pending>>
           \/ Install(pending, Placed(latest, scale', mine)) /\ latest # 0
    BY <1>4 DEF Reinstall
  <2> QED BY <1>1, <2>1, ViewClientSends
<1>5. CASE Clear
  <2>1. UNCHANGED <<latest, toClient, mine, active, pending>> /\ SendClear(FALSE)
    BY <1>5 DEF Clear
  <2>2. (\E keep : SendClear(keep)) /\ pending' \in {pending, {}}
    BY <2>1
  <2> QED BY <1>1, <2>1, <2>2, ViewClientSends
<1> QED BY <1>2, <1>3, <1>4, <1>5

LEMMA ViewOther ==
  IInv /\ Viewed /\ (OnWorldChanged \/ OnCleared \/ OnAvatarState) => Viewed'
<1> SUFFICES ASSUME IInv, Viewed, OnWorldChanged \/ OnCleared \/ OnAvatarState PROVE Viewed'
  OBVIOUS
<1>1. /\ IsSeq(toServer) /\ IsSeq(toClient) /\ latest \in Nat
      /\ View(toClient \o toServer, latest, mine, pending, active)
      /\ active # None => active.frame \in Nat /\ active.frame <= latest
  BY ActiveKnown DEF IInv, Channels, InstallsInOrder, Viewed, Way
<1> DEFINE near == Tail(toClient)
<1>2. /\ toClient # <<>> /\ toClient' = near /\ UNCHANGED latest
      /\ Head(toClient).type \in {"world", "cleared", "avatar"}
  BY DEF OnWorldChanged, OnCleared, OnAvatarState, FromServer
<1>3. IsSeq(near) /\ View(near \o toServer, latest, mine, pending, active)
  BY <1>1, <1>2, Received, ViewOtherRead
<1> HIDE DEF near
<1>4. CASE OnWorldChanged \/ OnCleared
  <2>1. UNCHANGED <<mine, toServer>> /\ (UNCHANGED <<pending, active>> \/ (pending' = {} /\ active' = None))
    BY <1>4 DEF OnWorldChanged, OnCleared, ClearLocal
  <2>2. View(near \o toServer, latest, mine, pending', active')
    BY <1>3, <2>1, ViewEmptied
  <2> QED BY <1>2, <2>1, <2>2 DEF Viewed, Way
<1>5. CASE OnAvatarState
  <2>1. \/ UNCHANGED <<pending, active, mine, toServer>>
        \/ /\ active' = None
           /\ \/ Install({}, Placed(latest, scale', mine')) /\ latest # 0
              \/ pending' = {} /\ UNCHANGED toServer
    BY <1>5 DEF OnAvatarState
  <2>2. CASE UNCHANGED <<pending, active, mine, toServer>>
    BY <1>2, <1>3, <2>2 DEF Viewed, Way
  <2>3. View(near \o toServer, latest, mine', {}, None)
    BY <1>3, ViewEmptied
  <2> QED BY <1>1, <1>2, <1>3, <2>1, <2>2, <2>3, ViewClientSends
<1> QED BY <1>4, <1>5

LEMMA ViewAckRead ==
  ASSUME IInv, Viewed, toClient # <<>>, Head(toClient).type = "ack",
         NEW seen, seen = active \/ seen = None \/ seen.frame = Frame(Head(toClient))
  PROVE  /\ IsSeq(Tail(toClient))
         /\ View(Tail(toClient) \o toServer, latest, mine, pending \ Match(Head(toClient)), seen)
<1> DEFINE h == Head(toClient)
           next == Tail(toClient) \o toServer
<1>1. /\ IsSeq(toServer) /\ IsSeq(toClient)
      /\ View(toClient \o toServer, latest, mine, pending, active)
  BY DEF IInv, Channels, Viewed, Way
<1>2. /\ (toClient \o toServer)[1] = h /\ 1 \in DOMAIN (toClient \o toServer)
      /\ \A k \in DOMAIN (toClient \o toServer) : k \in Nat /\ k >= 1
  BY <1>1, ReadComes
<1>3. PICK from : Comes(toClient \o toServer, next, from, {1})
  BY <1>1, ReadComes
<1>4. IsSeq(Tail(toClient)) /\ DOMAIN next \subseteq Nat /\ DOMAIN (toClient \o toServer) \subseteq Nat
  BY <1>1, Received, WayNumbered
<1>5. 1 \in Asks(toClient \o toServer)
  BY <1>2 DEF Asks
<1>6. pending \ Match(h)
        = {p \in pending : ~(p.frame = Frame(h) /\ h.snapshot.binding = mine)}
  BY DEF Match, Frame
<1>7. View(next, latest, mine, pending \ Match(h), seen)
  <2> HIDE DEF h, next
  <2>1. seen = active \/ seen = None \/ seen.frame = Frame(h)
    BY DEF h
  <2> QED BY <1>1, <1>2, <1>3, <1>4, <1>5, <1>6, <2>1, ViewAnswered
<1> QED BY <1>4, <1>7

LEMMA MatchOne ==
  ASSUME Viewed, NEW p \in Match(Head(toClient))
  PROVE  /\ pending \ {p} = pending \ Match(Head(toClient))
         /\ p \in pending /\ p.frame = Frame(Head(toClient)) /\ p.binding = mine
         /\ Head(toClient).snapshot.binding = mine
<1>1. /\ p \in pending /\ p.frame = Frame(Head(toClient)) /\ Head(toClient).snapshot.binding = mine
  BY DEF Match, Frame
<1>2. \A q \in pending : q.frame = p.frame => q = p
  BY <1>1 DEF Viewed, View, Waiting
<1>3. \A q \in Match(Head(toClient)) : q = p
  BY <1>1, <1>2 DEF Match, Frame
<1> QED BY <1>1, <1>3 DEF Viewed, View, Waiting

LEMMA ViewAck == IInv /\ Viewed /\ (OnAckIgnored \/ OnAckActivates) => Viewed'
<1> SUFFICES ASSUME IInv, Viewed, OnAckIgnored \/ OnAckActivates PROVE Viewed'
  OBVIOUS
<1> DEFINE near == Tail(toClient)
<1>1. /\ toClient # <<>> /\ Head(toClient).type = "ack" /\ toClient' = near
      /\ UNCHANGED <<latest, mine>> /\ latest \in Nat /\ IsSeq(toServer)
  BY DEF OnAckIgnored, OnAckActivates, FromServer, IInv, InstallsInOrder, Channels
<1>2. CASE OnAckIgnored
  <2>1. pending' = pending \ Match(Head(toClient)) /\ UNCHANGED <<active, toServer>>
    BY <1>2 DEF OnAckIgnored
  <2> QED BY <1>1, <2>1, ViewAckRead DEF Viewed, Way
<1>3. CASE OnAckActivates
  <2>1. PICK p \in Match(Head(toClient)) :
          /\ pending' = pending \ {p}
          /\ \/ active' = p /\ UNCHANGED toServer
             \/ SendClear(TRUE) /\ UNCHANGED active
    BY <1>3 DEF OnAckActivates
  <2>2. /\ pending' = pending \ Match(Head(toClient))
        /\ p \in pending /\ p.frame = Frame(Head(toClient))
    BY <2>1, MatchOne
  <2>3. active' = active \/ active'.frame = Frame(Head(toClient))
    BY <2>1, <2>2
  <2>4. IsSeq(near) /\ View(near \o toServer, latest, mine, pending', active')
    BY <1>1, <2>2, <2>3, ViewAckRead
  <2>5. CASE UNCHANGED toServer
    BY <1>1, <2>4, <2>5 DEF Viewed, Way
  <2>6. CASE SendClear(TRUE) /\ UNCHANGED active
    <3>1. active' # None => active'.frame \in Nat /\ active'.frame <= latest
      BY <2>6, ActiveKnown
    <3>2. (\E keep : SendClear(keep)) /\ pending' \in {pending', {}}
      BY <2>6
    <3> HIDE DEF near
    <3> QED BY <1>1, <2>4, <3>1, <3>2, ViewClientSends
  <2> QED BY <2>1, <2>5, <2>6
<1> QED BY <1>2, <1>3

LEMMA ViewServer ==
  IInv /\ Viewed /\ (OnInstall \/ OnClear \/ Expire \/ ChangeWorld \/ Rebind \/ UNCHANGED vars) => Viewed'
<1> SUFFICES ASSUME IInv, Viewed, OnInstall \/ OnClear \/ Expire \/ ChangeWorld \/ Rebind \/ UNCHANGED vars
             PROVE  Viewed'
  OBVIOUS
<1>1. /\ IsSeq(toServer) /\ IsSeq(toClient)
      /\ View(toClient \o toServer, latest, mine, pending, active)
      /\ UNCHANGED <<latest, mine, pending, active>>
  BY DEF IInv, Channels, Viewed, Way, OnInstall, OnClear, Expire, ChangeWorld, Rebind, vars, clientVars
<1>2. CASE OnInstall
  <2>1. /\ toServer # <<>> /\ Head(toServer).type = "install" /\ toServer' = Tail(toServer)
        /\ \E ok \in BOOLEAN : toClient' = Append(toClient, Ack(Head(toServer).snapshot, ok))
    BY <1>2, InstallRead
  <2>2. PICK m : /\ m.type = "ack" /\ m.snapshot = Head(toServer).snapshot
                 /\ toClient' = Append(toClient, m)
    BY <2>1, Kinds
  <2> QED BY <1>1, <2>1, <2>2, ViewMoved DEF Viewed, Way
<1>3. CASE OnClear
  <2> DEFINE m == Cleared(Head(toServer).keep)
  <2>1. /\ toServer # <<>> /\ Head(toServer).type = "clear" /\ toServer' = Tail(toServer)
        /\ toClient' = Append(toClient, m)
    BY <1>3 DEF OnClear, FromClient
  <2>2. m.type = "cleared" /\ m.keep = Head(toServer).keep
    BY DEF Cleared
  <2> HIDE DEF m
  <2> QED BY <1>1, <2>1, <2>2, ViewMoved DEF Viewed, Way
<1>4. CASE Expire \/ UNCHANGED vars
  <2>1. UNCHANGED <<toClient, toServer>>
    BY <1>4 DEF Expire, vars
  <2> QED BY <1>1, <2>1 DEF Viewed, Way
<1>5. CASE ChangeWorld \/ Rebind
  <2>1. PICK m : /\ m.type \in {"world", "avatar"} /\ UNCHANGED toServer
                 /\ toClient' = Append(toClient, m)
    BY <1>5, Kinds DEF ChangeWorld, Rebind
  <2> QED BY <1>1, <2>1, ViewInserted DEF Viewed, Way
<1> QED BY <1>2, <1>3, <1>4, <1>5

LEMMA NothingUnderWay == DOMAIN (<<>> \o <<>>) = {} /\ Asks(<<>> \o <<>>) = {} /\ ClearsIn(<<>> \o <<>>) = {}
<1>1. DOMAIN (<<>> \o <<>>) = {}
  BY Empty, OnTheWay
<1> QED BY <1>1, MarksApart

LEMMA ViewNothing ==
  ASSUME NEW top \in Nat, NEW own, NEW shown
  PROVE  View(<<>> \o <<>>, top, own, {}, shown)
BY NothingUnderWay DEF View, Framed, Above, Waiting

LEMMA ViewStep == IInv /\ Viewed /\ Alone /\ [Next]_vars => Viewed'
<1> SUFFICES ASSUME IInv, Viewed, Alone, [Next]_vars PROVE Viewed'
  OBVIOUS
<1>1. CASE Leave
  <2>1. toServer' = <<>> /\ toClient' = <<>> /\ pending' = {} /\ latest' = latest /\ latest \in Nat
    BY <1>1 DEF Leave, IInv, InstallsInOrder
  <2> QED BY <2>1, ViewNothing DEF Viewed, Way
<1> QED BY <1>1, ViewReceive, ViewOther, ViewAck, ViewServer DEF Next

LEMMA AloneStep == Alone /\ [Next]_vars => Alone'
<1> SUFFICES ASSUME Alone, [Next]_vars PROVE Alone'
  OBVIOUS
<1>1. Apart /\ Apart' /\ (~joined => pending = {} /\ active = None)
  BY ApartStep DEF Alone
<1>2. ASSUME joined' PROVE Alone'
  BY <1>1, <1>2 DEF Alone
<1>3. ASSUME UNCHANGED <<joined, pending, active>> PROVE Alone'
  BY <1>1, <1>3 DEF Alone
<1>4. CASE Join \/ Leave
  BY <1>1, <1>4 DEF Join, Leave, Alone
<1>5. CASE Receive
  <2>1. PICK f \in Frames : ReceiveEmpty(f) \/ ReceiveUsable(f)
    BY <1>5 DEF Receive
  <2>2. UNCHANGED <<joined, active>> /\ (joined \/ pending' \in {pending, {}})
    BY <1>5, <2>1 DEF Receive, ReceiveEmpty, ReceiveUsable
  <2> QED BY <1>1, <2>2 DEF Alone
<1>6. CASE Reinstall \/ Clear \/ Rebind
  <2>1. joined /\ UNCHANGED joined
    BY <1>6 DEF Reinstall, Clear, Rebind
  <2> QED BY <1>2, <2>1
<1>7. CASE OnWorldChanged \/ OnCleared \/ OnAckIgnored \/ OnAckActivates \/ OnAvatarState
  <2>1. UNCHANGED joined /\ toClient # <<>>
    BY <1>7 DEF OnWorldChanged, OnCleared, OnAckIgnored, OnAckActivates, OnAvatarState, FromServer
  <2> QED BY <1>1, <1>2, <2>1 DEF Apart
<1>8. CASE OnInstall \/ OnClear \/ Expire \/ ChangeWorld \/ UNCHANGED vars
  <2>1. UNCHANGED <<joined, pending, active>>
    BY <1>8 DEF OnInstall, OnClear, Expire, ChangeWorld, vars, clientVars
  <2> QED BY <1>3, <2>1
<1> QED BY <1>4, <1>5, <1>6, <1>7, <1>8 DEF Next

-----------------------------------------------------------------------------
(* A client whose last frame has no cloud waits for nothing, and a clear is  *)
(* behind whatever it asked for.                                             *)

Hushed(channel) == \A j \in Asks(channel) : \E k \in ClearsIn(channel) : j < k

Unusable ==
    ~usable =>
        /\ pending = {} /\ (active = None \/ holding)
        /\ Hushed(Way)
        /\ stored = None \/ ClearsIn(toServer) # {}

LEMMA HushedComes ==
  ASSUME NEW c, NEW next, NEW from, NEW gone, Comes(c, next, from, gone), gone \subseteq {1},
         \A k \in DOMAIN c : k \in Nat /\ k >= 1, Hushed(c)
  PROVE  Hushed(next)
<1> SUFFICES ASSUME NEW j \in Asks(next) PROVE \E k \in ClearsIn(next) : j < k
  BY DEF Hushed
<1>1. from[j] \in Asks(c)
  BY DEF Comes
<1>2. PICK k \in ClearsIn(c) : from[j] < k
  BY <1>1 DEF Hushed
<1>3. k \notin gone
  BY <1>1, <1>2, MarksApart
<1>4. PICK i \in Marks(next) : from[i] = k
  BY <1>2, <1>3 DEF Comes, Marks
<1>5. i \in ClearsIn(next)
  <2>1. i \in Asks(next) => k \in Asks(c)
    BY <1>4 DEF Comes
  <2> QED BY <1>2, <1>4, <2>1, MarksApart DEF Marks
<1>6. j < i
  BY <1>2, <1>4, <1>5 DEF Comes, Marks
<1> QED BY <1>5, <1>6

LEMMA HushedSent ==
  ASSUME NEW c, NEW keep, NEW next, Grown(c, ClearPayload(keep), next)
  PROVE  Hushed(next)
<1>1. PICK n \in Nat :
        /\ DOMAIN c = 1..n
        /\ Asks(next) = Asks(c) \cup (IF ClearPayload(keep).type \in {"install", "ack"} THEN {n + 1} ELSE {})
        /\ ClearsIn(next) = ClearsIn(c) \cup (IF ClearPayload(keep).type \in {"clear", "cleared"} THEN {n + 1} ELSE {})
  BY GrownMarks
<1>2. Asks(next) = Asks(c) /\ n + 1 \in ClearsIn(next)
  BY <1>1, Kinds
<1>3. \A j \in Asks(c) : j < n + 1
  BY <1>1, MarksApart
<1> QED BY <1>2, <1>3 DEF Hushed

\* What each step does to what is under way.
LEMMA WayRead ==
  ASSUME IInv, toClient # <<>>, toClient' = Tail(toClient)
  PROVE  /\ \E from : Comes(Way, Tail(toClient) \o toServer, from, {1})
         /\ 1 \in DOMAIN Way /\ Way[1] = Head(toClient)
         /\ \A k \in DOMAIN Way : k \in Nat /\ k >= 1
         /\ IsSeq(Tail(toClient)) /\ DOMAIN (Tail(toClient) \o toServer) \subseteq Nat
BY ReadComes, Received, WayNumbered DEF IInv, Channels, Way

LEMMA WayServer ==
  ASSUME IInv, OnInstall \/ OnClear \/ Expire \/ ChangeWorld \/ Rebind \/ UNCHANGED vars
  PROVE  /\ \E from : Comes(Way, Way', from, {})
         /\ \A k \in DOMAIN Way : k \in Nat /\ k >= 1
         /\ DOMAIN Way' \subseteq Nat
<1>1. IsSeq(toServer) /\ IsSeq(toClient)
  BY DEF IInv, Channels
<1>2. \A k \in DOMAIN Way : k \in Nat /\ k >= 1
  BY <1>1, OnTheWay DEF Way
<1>3. IsSeq(toServer') /\ IsSeq(toClient')
  BY OrderStep, AnswerStep DEF Next
<1>4. DOMAIN Way' \subseteq Nat
  BY <1>3, WayNumbered DEF Way
<1>5. CASE OnInstall
  <2>1. /\ toServer # <<>> /\ Head(toServer).type = "install" /\ toServer' = Tail(toServer)
        /\ \E ok \in BOOLEAN : toClient' = Append(toClient, Ack(Head(toServer).snapshot, ok))
    BY <1>5, InstallRead
  <2>2. PICK m : /\ m.type = "ack" /\ m.snapshot = Head(toServer).snapshot
                 /\ toClient' = Append(toClient, m)
    BY <2>1, Kinds
  <2>3. \E from : Comes(Way, Way', from, {})
    BY <1>1, <2>1, <2>2, AnswerComes DEF Way
  <2> QED BY <1>2, <1>4, <2>3
<1>6. CASE OnClear
  <2> DEFINE m == Cleared(Head(toServer).keep)
  <2>1. /\ toServer # <<>> /\ Head(toServer).type = "clear" /\ toServer' = Tail(toServer)
        /\ toClient' = Append(toClient, m)
    BY <1>6 DEF OnClear, FromClient
  <2>2. m.type = "cleared" /\ m.keep = Head(toServer).keep
    BY DEF Cleared
  <2> HIDE DEF m
  <2>3. \E from : Comes(Way, Way', from, {})
    BY <1>1, <2>1, <2>2, AnswerComes DEF Way
  <2> QED BY <1>2, <1>4, <2>3
<1>7. CASE ChangeWorld \/ Rebind
  <2>1. PICK m : /\ m.type \in {"world", "avatar"} /\ UNCHANGED toServer
                 /\ toClient' = Append(toClient, m)
    BY <1>7, Kinds DEF ChangeWorld, Rebind
  <2>2. m.type \notin {"clear", "cleared", "install", "ack"}
    BY <2>1
  <2>3. \E from : Comes(Way, Way', from, {})
    BY <1>1, <2>1, <2>2, InsertComes DEF Way
  <2> QED BY <1>2, <1>4, <2>3
<1>8. CASE Expire \/ UNCHANGED vars
  <2>1. Way' = Way
    BY <1>8 DEF Expire, vars, Way
  <2> DEFINE from == [k \in DOMAIN Way |-> k]
  <2>2. Comes(Way, Way', from, {})
    BY <2>1, MarksApart DEF Comes
  <2> QED BY <1>2, <1>4, <2>2
<1> QED BY <1>5, <1>6, <1>7, <1>8

LEMMA WayHushed ==
  ASSUME IInv, Hushed(Way), OnInstall \/ OnClear \/ Expire \/ ChangeWorld \/ Rebind \/ UNCHANGED vars
  PROVE  Hushed(Way')
<1>1. PICK from : Comes(Way, Way', from, {})
  BY WayServer
<1> QED BY <1>1, WayServer, HushedComes

LEMMA ReadHushed ==
  ASSUME IInv, Hushed(Way), toClient # <<>>, toClient' = Tail(toClient)
  PROVE  Hushed(Tail(toClient) \o toServer)
<1>1. PICK from : Comes(Way, Tail(toClient) \o toServer, from, {1})
  BY WayRead
<1> QED BY <1>1, WayRead, HushedComes

LEMMA ClearHushes ==
  ASSUME IInv, NEW near, IsSeq(near), toClient' = near, NEW keep, SendClear(keep)
  PROVE  Hushed(Way') /\ ClearsIn(toServer') # {}
<1>1. IsSeq(toServer) /\ toServer' = Append(toServer, ClearPayload(keep)) /\ Way' = near \o toServer'
  BY DEF IInv, Channels, SendClear, Way
<1>2. Grown(near \o toServer, ClearPayload(keep), Way')
  BY <1>1, SendGrows
<1>3. Len(toServer) + 1 \in ClearsIn(toServer')
  BY <1>1, Appended, Kinds DEF ClearsIn
<1> QED BY <1>2, <1>3, HushedSent

LEMMA UnusableStep == IInv /\ Alone /\ Unusable /\ [Next]_vars => Unusable'
<1> SUFFICES ASSUME IInv, Alone, Unusable, [Next]_vars, ~usable' PROVE Unusable'
  BY DEF Unusable
<1>1. IsSeq(toServer) /\ IsSeq(toClient)
  BY DEF IInv, Channels
<1>2. ~usable => /\ pending = {} /\ (active = None \/ holding)
                 /\ Hushed(Way)
                 /\ stored = None \/ ClearsIn(toServer) # {}
  BY DEF Unusable
<1>3. CASE Join
  <2>1. /\ UNCHANGED <<usable, pending, active, holding, stored, toServer>> /\ ~joined
        /\ toClient' = Append(toClient, AvatarState(bound))
    BY <1>3 DEF Join, Alone, Apart, serverVars
  <2>2. toServer = <<>> /\ toClient = <<>>
    BY <2>1 DEF Alone, Apart
  <2>3. PICK from : Comes(Way, Way', from, {})
    BY <1>1, <2>1, Kinds, InsertComes DEF Way
  <2>4. Asks(Way') = {}
    <3>1. Asks(Way) = {}
      BY <2>2, NothingUnderWay DEF Way
    <3> QED BY <2>3, <3>1 DEF Comes
  <2> QED BY <1>2, <2>1, <2>4 DEF Unusable, Hushed
<1>4. CASE Leave
  <2>1. /\ pending' = {} /\ active' = None /\ stored' = None /\ toServer' = <<>> /\ toClient' = <<>>
    BY <1>4 DEF Leave
  <2> QED BY <2>1, NothingUnderWay DEF Unusable, Hushed, Way
<1>5. CASE Receive
  <2>1. PICK f \in Frames : ReceiveEmpty(f) \/ ReceiveUsable(f)
    BY <1>5 DEF Receive
  <2>2. ReceiveEmpty(f) /\ UNCHANGED <<toClient, stored>>
    BY <1>5, <2>1 DEF ReceiveUsable, Receive, serverVars
  <2>3. pending' = {} /\ (active' = None \/ holding')
    BY <2>2 DEF ReceiveEmpty
  <2>4. CASE joined /\ ~streak
    <3>1. SendClear(TRUE)
      BY <2>2, <2>4 DEF ReceiveEmpty
    <3>2. Hushed(Way') /\ ClearsIn(toServer') # {}
      BY <1>1, <2>2, <3>1, ClearHushes
    <3> QED BY <2>3, <3>2 DEF Unusable
  <2>5. CASE ~(joined /\ ~streak)
    <3>1. UNCHANGED toServer /\ Way' = Way
      BY <2>2, <2>5 DEF ReceiveEmpty, Way
    <3>2. CASE ~joined
      <4>1. Hushed(Way) /\ stored = None
        BY <3>2, NothingUnderWay DEF Alone, Apart, Way, Hushed
      <4> QED BY <2>2, <2>3, <3>1, <4>1 DEF Unusable
    <3>3. CASE streak
      <4>1. ~usable
        BY <3>3 DEF IInv, LostSilenced
      <4> QED BY <1>2, <2>2, <2>3, <3>1, <4>1 DEF Unusable
    <3> QED BY <2>5, <3>2, <3>3
  <2> QED BY <2>4, <2>5
<1>6. CASE Reinstall
  <2>1. UNCHANGED <<usable, pending, active, holding, stored, toServer, toClient>>
    BY <1>6 DEF Reinstall, serverVars
  <2> QED BY <1>2, <2>1 DEF Unusable, Way
<1>7. CASE Clear
  <2>1. UNCHANGED <<usable, pending, active, holding, stored, toClient>> /\ SendClear(FALSE)
    BY <1>7 DEF Clear, serverVars
  <2>2. Hushed(Way') /\ ClearsIn(toServer') # {}
    BY <1>1, <2>1, ClearHushes
  <2> QED BY <1>2, <2>1, <2>2 DEF Unusable
<1>8. CASE OnWorldChanged \/ OnCleared \/ OnAckIgnored \/ OnAckActivates \/ OnAvatarState
  <2>1. toClient # <<>> /\ toClient' = Tail(toClient) /\ UNCHANGED <<usable, stored>>
    BY <1>8 DEF OnWorldChanged, OnCleared, OnAckIgnored, OnAckActivates, OnAvatarState, FromServer,
                serverVars
  <2>2. /\ pending = {} /\ (active = None \/ holding) /\ Hushed(Way)
        /\ stored = None \/ ClearsIn(toServer) # {}
    BY <1>2, <2>1
  <2>3. ~OnAckActivates
    BY <2>2 DEF OnAckActivates, Match
  <2>4. UNCHANGED toServer
    BY <1>8, <2>1, <2>3 DEF OnWorldChanged, OnCleared, OnAckIgnored, OnAvatarState
  <2>5. pending' = {}
    BY <1>8, <2>1, <2>2, <2>3 DEF OnWorldChanged, OnCleared, OnAckIgnored, OnAvatarState, ClearLocal
  <2>6. active' = None \/ UNCHANGED <<active, holding>>
    BY <1>8, <2>3 DEF OnWorldChanged, OnCleared, OnAckIgnored, OnAvatarState, ClearLocal
  <2>7. Hushed(Way')
    BY <2>1, <2>2, <2>4, ReadHushed DEF Way
  <2> QED BY <2>1, <2>2, <2>4, <2>5, <2>6, <2>7 DEF Unusable
<1>9. CASE OnInstall \/ OnClear \/ Expire \/ ChangeWorld \/ Rebind \/ UNCHANGED vars
  <2>1. UNCHANGED <<usable, pending, active, holding>>
    BY <1>9 DEF OnInstall, OnClear, Expire, ChangeWorld, Rebind, vars, clientVars
  <2>2. Hushed(Way) /\ (stored = None \/ ClearsIn(toServer) # {})
    BY <1>2, <2>1
  <2>3. Hushed(Way')
    BY <1>9, <2>2, WayHushed
  <2>4. stored' = None \/ ClearsIn(toServer') # {}
    <3>1. CASE OnInstall
      <4> DEFINE n == Len(toClient)
      <4>1. toServer # <<>> /\ Head(toServer).type = "install" /\ toServer' = Tail(toServer)
        BY <3>1, InstallRead
      <4>2. /\ Len(toServer) \in Nat /\ Len(toServer) >= 1 /\ DOMAIN toServer = 1 .. Len(toServer)
            /\ DOMAIN Tail(toServer) = 1 .. Len(toServer) - 1
            /\ \A i \in 1 .. Len(toServer) - 1 : Tail(toServer)[i] = toServer[i + 1]
            /\ Head(toServer) = toServer[1]
        BY <1>1, <4>1, Received
      <4>3. /\ n \in Nat /\ DOMAIN Way = 1 .. n + Len(toServer)
            /\ \A k \in n + 1 .. n + Len(toServer) : Way[k] = toServer[k - n]
        BY <1>1, OnTheWay DEF Way
      <4>4. n + 1 \in Asks(Way)
        BY <4>1, <4>2, <4>3 DEF Asks
      <4>5. PICK k \in ClearsIn(Way) : n + 1 < k
        BY <2>2, <4>4 DEF Hushed
      <4>6. k - n - 1 \in DOMAIN Tail(toServer) /\ Tail(toServer)[k - n - 1] = Way[k]
        <5> HIDE DEF n
        <5>1. k \in n + 1 .. n + Len(toServer) /\ k > n + 1
          BY <4>3, <4>5, MarksApart
        <5>2. k - n - 1 \in 1 .. Len(toServer) - 1 /\ (k - n - 1) + 1 = k - n
          BY <4>2, <4>3, <5>1
        <5>3. Tail(toServer)[k - n - 1] = toServer[k - n]
          BY <4>2, <5>2
        <5> QED BY <4>2, <4>3, <5>1, <5>2, <5>3
      <4>7. k - n - 1 \in ClearsIn(toServer')
        BY <4>1, <4>5, <4>6 DEF ClearsIn
      <4> QED BY <4>7
    <3>2. CASE OnClear \/ Expire \/ ChangeWorld
      BY <3>2 DEF OnClear, Expire, ChangeWorld
    <3>3. CASE Rebind \/ UNCHANGED vars
      <4>1. UNCHANGED <<stored, toServer>>
        BY <3>3 DEF Rebind, vars, serverVars
      <4> QED BY <2>2, <4>1
    <3> QED BY <1>9, <3>1, <3>2, <3>3
  <2> QED BY <2>1, <2>2, <2>3, <2>4, <1>2 DEF Unusable
<1> QED BY <1>3, <1>4, <1>5, <1>6, <1>7, <1>8, <1>9 DEF Next

-----------------------------------------------------------------------------
(* What the answers on their way tell of the server. *)

Avatars(channel) == {k \in DOMAIN channel : channel[k].type = "avatar"}
Takes(channel) == {k \in DOMAIN channel : channel[k].type = "ack" /\ channel[k].accepted}
Refusals(channel) == {k \in DOMAIN channel : channel[k].type = "ack" /\ ~channel[k].accepted}

\* The binding a client that has own knows when it reads the i-th payload.
Knows(channel, own, i, b) ==
    \/ \E k \in Avatars(channel) :
          /\ k < i /\ channel[k].binding = b
          /\ \A l \in Avatars(channel) : l < i => l <= k
    \/ b = own /\ \A l \in Avatars(channel) : ~(l < i)

BindingKnown == joined => Knows(toClient, mine, Len(toClient) + 1, bound)

\* The snapshot accepted last is stored, or none is.
StoredTold ==
    \A i \in Takes(toClient) :
        \/ \E j \in Takes(toClient) : i < j
        \/ stored = None
        \/ /\ stored = toClient[i].snapshot
           /\ \A j \in DOMAIN toClient : i < j => toClient[j].type \notin {"cleared", "world"}

\* Refused is what has a binding the client will know to be another one, or what
\* came too late and still does.
RefusedWhy ==
    "away" \notin troubles =>
        \A i \in Refusals(toClient) :
            \/ ~Knows(toClient, mine, i, toClient[i].snapshot.binding)
            \/ stored = None /\ Frame(toClient[i]) <= cursor
            \/ \E j \in Takes(toClient) : i < j /\ Frame(toClient[i]) < Frame(toClient[j])

Told == BindingKnown /\ StoredTold /\ RefusedWhy

LEMMA KnowsOne ==
  ASSUME NEW ch, DOMAIN ch \subseteq Nat, NEW own, NEW i, NEW b, NEW d,
         Knows(ch, own, i, b), Knows(ch, own, i, d)
  PROVE  b = d
<1>1. Avatars(ch) \subseteq Nat
  BY DEF Avatars
<1>2. \A k, l \in Avatars(ch) : k <= l /\ l <= k => k = l
  BY <1>1
<1> QED BY <1>2 DEF Knows

LEMMA KnowsSent ==
  ASSUME NEW ch, IsSeq(ch), NEW m, NEW own
  PROVE  /\ \A i \in 1 .. Len(ch) + 1 : \A b : Knows(Append(ch, m), own, i, b) <=> Knows(ch, own, i, b)
         /\ m.type = "avatar" => Knows(Append(ch, m), own, Len(ch) + 2, m.binding)
         /\ m.type # "avatar" =>
              \A b : Knows(Append(ch, m), own, Len(ch) + 2, b) <=> Knows(ch, own, Len(ch) + 1, b)
<1> DEFINE next == Append(ch, m)
           n == Len(ch)
<1>1. /\ n \in Nat /\ DOMAIN ch = 1..n /\ DOMAIN next = 1 .. n + 1
      /\ \A k \in 1..n : next[k] = ch[k]
      /\ next[n + 1] = m
  BY Appended
<1> HIDE DEF next, n
<1>2. \A k : k \in Avatars(ch) <=> k \in Avatars(next) /\ k # n + 1
  BY <1>1 DEF Avatars
<1>3. \A k \in Avatars(next) : k \in Nat /\ k <= n + 1
  BY <1>1 DEF Avatars
<1>4. \A k \in Avatars(ch) : next[k].binding = ch[k].binding
  BY <1>1 DEF Avatars
<1>5. ASSUME NEW i \in 1 .. n + 1, NEW b PROVE Knows(next, own, i, b) <=> Knows(ch, own, i, b)
  <2>1. \A k \in Avatars(next) : k < i => k \in Avatars(ch)
    BY <1>1, <1>2, <1>3
  <2>2. \A k \in Avatars(ch) : k \in Avatars(next)
    BY <1>2
  <2> QED BY <1>4, <2>1, <2>2 DEF Knows
<1>6. ASSUME m.type = "avatar" PROVE Knows(next, own, n + 2, m.binding)
  <2>1. n + 1 \in Avatars(next) /\ n + 1 < n + 2 /\ next[n + 1].binding = m.binding
    BY <1>1, <1>6 DEF Avatars
  <2> QED BY <1>3, <2>1 DEF Knows
<1>7. ASSUME m.type # "avatar", NEW b
      PROVE  Knows(next, own, n + 2, b) <=> Knows(ch, own, n + 1, b)
  <2>1. n + 1 \notin Avatars(next)
    BY <1>1, <1>7 DEF Avatars
  <2>2. \A k : k \in Avatars(ch) <=> k \in Avatars(next)
    BY <1>2, <2>1
  <2>3. \A k \in Avatars(ch) : k < n + 2 /\ k < n + 1
    BY <1>1 DEF Avatars
  <2> QED BY <1>4, <2>2, <2>3 DEF Knows
<1> QED BY <1>5, <1>6, <1>7 DEF next, n

LEMMA KnowsRead ==
  ASSUME NEW ch, IsSeq(ch), ch # <<>>, NEW own, NEW next,
         Head(ch).type = "avatar" => next = Head(ch).binding,
         Head(ch).type # "avatar" => next = own
  PROVE  \A i \in 1 .. Len(ch) : \A b : Knows(Tail(ch), next, i, b) <=> Knows(ch, own, i + 1, b)
<1> DEFINE rest == Tail(ch)
           n == Len(ch)
<1>1. /\ n \in Nat /\ n >= 1 /\ DOMAIN ch = 1..n /\ DOMAIN rest = 1 .. n - 1
      /\ \A k \in 1 .. n - 1 : rest[k] = ch[k + 1]
      /\ Head(ch) = ch[1]
  BY Received
<1> SUFFICES ASSUME NEW i \in 1..n, NEW b PROVE Knows(rest, next, i, b) <=> Knows(ch, own, i + 1, b)
  OBVIOUS
<1> HIDE DEF rest, n
<1>2. \A k \in Avatars(rest) : k \in Nat /\ k + 1 \in Avatars(ch) /\ rest[k] = ch[k + 1]
  BY <1>1 DEF Avatars
<1>3. \A k \in Avatars(ch) : k \in Nat /\ (k = 1 \/ (k - 1 \in Avatars(rest) /\ rest[k - 1] = ch[k]))
  BY <1>1 DEF Avatars
<1>4. i \in Nat /\ i >= 1
  BY <1>1
<1>5. ASSUME Knows(rest, next, i, b) PROVE Knows(ch, own, i + 1, b)
  <2>1. CASE \E k \in Avatars(rest) : /\ k < i /\ rest[k].binding = b
                                      /\ \A l \in Avatars(rest) : l < i => l <= k
    <3>1. PICK k \in Avatars(rest) : /\ k < i /\ rest[k].binding = b
                                     /\ \A l \in Avatars(rest) : l < i => l <= k
      BY <2>1
    <3>2. k + 1 \in Avatars(ch) /\ k + 1 < i + 1 /\ ch[k + 1].binding = b
      BY <1>2, <1>4, <3>1
    <3>3. ASSUME NEW l \in Avatars(ch), l < i + 1 PROVE l <= k + 1
      <4>1. l = 1 \/ (l - 1 \in Avatars(rest) /\ l - 1 < i)
        BY <1>3, <1>4, <3>3
      <4>2. l - 1 \in Avatars(rest) /\ l - 1 < i => l - 1 <= k
        BY <3>1
      <4> QED BY <1>2, <1>3, <3>1, <4>1, <4>2
    <3> QED BY <3>2, <3>3 DEF Knows
  <2>2. CASE b = next /\ \A l \in Avatars(rest) : ~(l < i)
    <3>1. \A l \in Avatars(ch) : l < i + 1 => l = 1
      BY <1>2, <1>3, <1>4, <2>2
    <3>2. CASE Head(ch).type = "avatar"
      <4>1. 1 \in Avatars(ch) /\ 1 < i + 1 /\ ch[1].binding = b
        BY <1>1, <1>4, <2>2, <3>2 DEF Avatars
      <4> QED BY <3>1, <4>1 DEF Knows
    <3>3. CASE Head(ch).type # "avatar"
      <4>1. 1 \notin Avatars(ch)
        BY <1>1, <3>3 DEF Avatars
      <4> QED BY <2>2, <3>1, <3>3, <4>1 DEF Knows
    <3> QED BY <3>2, <3>3
  <2> QED BY <1>5, <2>1, <2>2 DEF Knows
<1>6. ASSUME Knows(ch, own, i + 1, b) PROVE Knows(rest, next, i, b)
  <2>1. CASE \E k \in Avatars(ch) : /\ k < i + 1 /\ ch[k].binding = b
                                    /\ \A l \in Avatars(ch) : l < i + 1 => l <= k
    <3>1. PICK k \in Avatars(ch) : /\ k < i + 1 /\ ch[k].binding = b
                                   /\ \A l \in Avatars(ch) : l < i + 1 => l <= k
      BY <2>1
    <3>2. \A l \in Avatars(rest) : l < i => l + 1 <= k
      BY <1>2, <1>4, <3>1
    <3>3. CASE k = 1
      <4>1. Head(ch).type = "avatar" /\ b = next
        BY <1>1, <3>1, <3>3 DEF Avatars
      <4>2. \A l \in Avatars(rest) : ~(l < i)
        <5>1. \A l \in Avatars(rest) : l \in Nat /\ l >= 1
          BY <1>1 DEF Avatars
        <5> QED BY <3>2, <3>3, <5>1
      <4> QED BY <4>1, <4>2 DEF Knows
    <3>4. CASE k # 1
      <4>1. k - 1 \in Avatars(rest) /\ k - 1 < i /\ rest[k - 1].binding = b
        BY <1>3, <1>4, <3>1, <3>4
      <4>2. \A l \in Avatars(rest) : l < i => l <= k - 1
        BY <1>2, <1>3, <3>2
      <4> QED BY <4>1, <4>2 DEF Knows
    <3> QED BY <3>3, <3>4
  <2>2. CASE b = own /\ \A l \in Avatars(ch) : ~(l < i + 1)
    <3>1. 1 \notin Avatars(ch)
      BY <1>4, <2>2
    <3>2. Head(ch).type # "avatar"
      BY <1>1, <3>1 DEF Avatars
    <3>3. \A l \in Avatars(rest) : ~(l < i)
      BY <1>2, <1>4, <2>2
    <3> QED BY <2>2, <3>2, <3>3 DEF Knows
  <2> QED BY <1>6, <2>1, <2>2 DEF Knows
<1> QED BY <1>5, <1>6

LEMMA AckFramed ==
  ASSUME IInv, Viewed, NEW i \in DOMAIN toClient, toClient[i].type = "ack"
  PROVE  i \in Asks(Way) /\ Way[i] = toClient[i] /\ Frame(toClient[i]) \in Nat \ {0}
<1>1. i \in DOMAIN Way /\ Way[i] = toClient[i]
  BY OnTheWay DEF IInv, Channels, Way
<1>2. i \in Asks(Way)
  BY <1>1 DEF Asks
<1> QED BY <1>1, <1>2 DEF Viewed, View, Framed

LEMMA AckKinds ==
  ASSUME NEW ch, IsSeq(ch), NEW m
  PROVE  /\ Takes(Append(ch, m)) = Takes(ch) \cup (IF m.type = "ack" /\ m.accepted THEN {Len(ch) + 1} ELSE {})
         /\ Refusals(Append(ch, m))
              = Refusals(ch) \cup (IF m.type = "ack" /\ ~m.accepted THEN {Len(ch) + 1} ELSE {})
         /\ \A k \in Takes(ch) \cup Refusals(ch) : Append(ch, m)[k] = ch[k] /\ k \in 1 .. Len(ch)
<1>1. /\ Len(ch) \in Nat
      /\ DOMAIN ch = 1 .. Len(ch) /\ DOMAIN Append(ch, m) = 1 .. Len(ch) + 1
      /\ \A i \in 1 .. Len(ch) : Append(ch, m)[i] = ch[i]
      /\ Append(ch, m)[Len(ch) + 1] = m
  BY Appended
<1>2. \A k \in DOMAIN Append(ch, m) : k \in DOMAIN ch \/ k = Len(ch) + 1
  BY <1>1
<1>3. Takes(Append(ch, m)) = Takes(ch) \cup (IF m.type = "ack" /\ m.accepted THEN {Len(ch) + 1} ELSE {})
  BY <1>1, <1>2 DEF Takes
<1>4. Refusals(Append(ch, m))
        = Refusals(ch) \cup (IF m.type = "ack" /\ ~m.accepted THEN {Len(ch) + 1} ELSE {})
  BY <1>1, <1>2 DEF Refusals
<1> QED BY <1>1, <1>3, <1>4 DEF Takes, Refusals

LEMMA ToldUnmoved ==
  ASSUME Told, UNCHANGED <<troubles, toClient, mine, bound, joined, cursor>>, stored' = stored \/ stored' = None
  PROVE  Told'
BY DEF Told, BindingKnown, StoredTold, RefusedWhy

\* The server tells of something else than an install.
LEMMA ToldOther ==
  ASSUME IInv, Told, NEW m, toClient' = Append(toClient, m),
         UNCHANGED <<troubles, mine, joined, cursor>>,
         \/ m.type \in {"world", "cleared"} /\ stored' = None /\ UNCHANGED bound
         \/ m.type = "avatar" /\ m.binding = bound' /\ UNCHANGED stored
  PROVE  Told'
<1>1. IsSeq(toClient)
  BY DEF IInv, Channels
<1>2. /\ Len(toClient) \in Nat
      /\ DOMAIN toClient = 1 .. Len(toClient) /\ DOMAIN toClient' = 1 .. Len(toClient) + 1
      /\ \A i \in 1 .. Len(toClient) : toClient'[i] = toClient[i]
      /\ toClient'[Len(toClient) + 1] = m
  BY <1>1, Appended
<1>3. /\ Takes(toClient') = Takes(toClient) /\ Refusals(toClient') = Refusals(toClient)
      /\ \A k \in Takes(toClient) \cup Refusals(toClient) :
            toClient'[k] = toClient[k] /\ k \in 1 .. Len(toClient) + 1
  <2>1. m.type # "ack"
    OBVIOUS
  <2>2. /\ Takes(toClient') = Takes(toClient) \cup (IF m.type = "ack" /\ m.accepted THEN {Len(toClient) + 1} ELSE {})
        /\ Refusals(toClient')
             = Refusals(toClient) \cup (IF m.type = "ack" /\ ~m.accepted THEN {Len(toClient) + 1} ELSE {})
        /\ \A k \in Takes(toClient) \cup Refusals(toClient) :
              toClient'[k] = toClient[k] /\ k \in 1 .. Len(toClient)
    BY <1>1, AckKinds
  <2> QED BY <1>2, <2>1, <2>2
<1>4. \A i \in 1 .. Len(toClient) + 1 : \A b : Knows(toClient', mine, i, b) <=> Knows(toClient, mine, i, b)
  BY <1>1, KnowsSent
<1>5. BindingKnown'
  <2>1. Len(toClient') = Len(toClient) + 1
    BY <1>1, <1>2, OrderStep, Empty, OnTheWay, Appended DEF IsSeq
  <2>2. ASSUME joined PROVE Knows(toClient', mine, Len(toClient) + 2, bound')
    <3>1. Knows(toClient, mine, Len(toClient) + 1, bound)
      BY <2>2 DEF Told, BindingKnown
    <3> QED BY <1>1, <3>1, KnowsSent
  <2>3. Len(toClient') + 1 = Len(toClient) + 2
    BY <1>2, <2>1
  <2> QED BY <2>2, <2>3 DEF BindingKnown
<1>6. StoredTold'
  <2>1. CASE stored' = None
    BY <2>1 DEF StoredTold
  <2>2. CASE m.type = "avatar" /\ UNCHANGED stored
    <3> SUFFICES ASSUME NEW i \in Takes(toClient'), ~(\E j \in Takes(toClient') : i < j), stored # None
                 PROVE  /\ stored = toClient'[i].snapshot
                        /\ \A j \in DOMAIN toClient' : i < j => toClient'[j].type \notin {"cleared", "world"}
      BY <2>2 DEF StoredTold
    <3>1. /\ stored = toClient[i].snapshot
          /\ \A j \in DOMAIN toClient : i < j => toClient[j].type \notin {"cleared", "world"}
      BY <1>3 DEF Told, StoredTold
    <3> QED BY <1>2, <1>3, <2>2, <3>1
  <2> QED BY <2>1, <2>2
<1>7. RefusedWhy'
  <2> SUFFICES ASSUME "away" \notin troubles, NEW i \in Refusals(toClient')
               PROVE  \/ ~Knows(toClient', mine, i, toClient'[i].snapshot.binding)
                      \/ stored' = None /\ Frame(toClient'[i]) <= cursor
                      \/ \E j \in Takes(toClient') : i < j /\ Frame(toClient'[i]) < Frame(toClient'[j])
    BY DEF RefusedWhy
  <2>1. \/ ~Knows(toClient, mine, i, toClient[i].snapshot.binding)
        \/ stored = None /\ Frame(toClient[i]) <= cursor
        \/ \E j \in Takes(toClient) : i < j /\ Frame(toClient[i]) < Frame(toClient[j])
    BY <1>3 DEF Told, RefusedWhy
  <2>2. stored = None => stored' = None
    OBVIOUS
  <2>3. toClient'[i] = toClient[i] /\ i \in 1 .. Len(toClient) + 1
    BY <1>3
  <2>4. CASE ~Knows(toClient, mine, i, toClient[i].snapshot.binding)
    BY <1>4, <2>3, <2>4
  <2>5. CASE \E j \in Takes(toClient) : i < j /\ Frame(toClient[i]) < Frame(toClient[j])
    BY <1>3, <2>3, <2>5
  <2> QED BY <2>1, <2>2, <2>3, <2>4, <2>5
<1> QED BY <1>5, <1>6, <1>7 DEF Told

LEMMA ToldInstall == IInv /\ Viewed /\ Told /\ Alone /\ OnInstall => Told'
<1> SUFFICES ASSUME IInv, Viewed, Told, Alone, OnInstall PROVE Told'
  OBVIOUS
<1> DEFINE s == Head(toServer).snapshot
           n == Len(toClient)
<1>1. IsSeq(toClient) /\ IsSeq(toServer) /\ Ordered(toServer, cursor, latest) /\ cursor \in Nat /\ latest \in Nat
  BY DEF IInv, Channels, InstallsInOrder
<1>2. toServer # <<>> /\ Head(toServer).type = "install" /\ UNCHANGED <<troubles, mine, joined, bound>> /\ joined
  BY InstallRead DEF OnInstall, clientVars, Alone, Apart
<1>3. PICK away \in IF "away" \in troubles /\ bound.target = "separate" THEN BOOLEAN ELSE {FALSE} :
         LET ok == s.binding = bound /\ ~away /\ ~Stale(s.frame) IN
         /\ toClient' = Append(toClient, Ack(s, ok))
         /\ stored' = IF ok THEN s ELSE stored
         /\ cursor' = IF ok THEN s.frame ELSE cursor
  BY DEF OnInstall
<1> DEFINE ok == s.binding = bound /\ ~away /\ ~Stale(s.frame)
           m == Ack(s, ok)
<1>4. /\ toClient' = Append(toClient, m)
      /\ ok => stored' = s /\ cursor' = s.frame
      /\ ~ok => stored' = stored /\ cursor' = cursor
  BY <1>3
<1>5. m.type = "ack" /\ m.snapshot = s /\ (m.accepted <=> ok) /\ Frame(m) = s.frame
  BY DEF Ack, Frame
<1>6. s.frame \in Nat \ {0} /\ cursor <= s.frame
  BY <1>1, <1>2, OrderedRead DEF Frame
<1>7. ok => s.binding = bound /\ ~Stale(s.frame)
  OBVIOUS
<1>8. "away" \notin troubles /\ ~ok => s.binding # bound \/ Stale(s.frame)
  BY <1>3
<1> HIDE DEF s, ok, m
<1>9. /\ n \in Nat
      /\ DOMAIN toClient = 1..n /\ DOMAIN toClient' = 1 .. n + 1
      /\ \A i \in 1..n : toClient'[i] = toClient[i]
      /\ toClient'[n + 1] = m
  BY <1>1, <1>4, Appended
<1>10. /\ Takes(toClient') = Takes(toClient) \cup (IF ok THEN {n + 1} ELSE {})
       /\ Refusals(toClient') = Refusals(toClient) \cup (IF ~ok THEN {n + 1} ELSE {})
       /\ \A k \in Takes(toClient) \cup Refusals(toClient) :
             toClient'[k] = toClient[k] /\ k \in 1..n
  BY <1>1, <1>4, <1>5, AckKinds
<1>11. /\ \A i \in 1 .. n + 1 : \A b : Knows(toClient', mine, i, b) <=> Knows(toClient, mine, i, b)
       /\ \A b : Knows(toClient', mine, n + 2, b) <=> Knows(toClient, mine, n + 1, b)
  BY <1>1, <1>4, <1>5, KnowsSent
<1>12. Knows(toClient, mine, n + 1, bound)
  BY <1>2 DEF Told, BindingKnown
<1>13. BindingKnown'
  <2>1. IsSeq(toClient')
    BY <1>1, <1>4, Appended
  <2>2. Len(toClient') = n + 1
    <3>1. Len(toClient') \in Nat /\ DOMAIN toClient' = 1 .. Len(toClient')
      BY <2>1, Appended
    <3> QED BY <1>9, <3>1
  <2>3. Len(toClient') + 1 = n + 2
    BY <1>9, <2>2
  <2> QED BY <1>2, <1>11, <1>12, <2>3 DEF BindingKnown
<1>14. StoredTold'
  <2> SUFFICES ASSUME NEW i \in Takes(toClient'), ~(\E j \in Takes(toClient') : i < j), stored' # None
               PROVE  /\ stored' = toClient'[i].snapshot
                      /\ \A j \in DOMAIN toClient' : i < j => toClient'[j].type \notin {"cleared", "world"}
    BY DEF StoredTold
  <2>1. CASE ok
    <3>1. i = n + 1
      BY <1>9, <1>10, <2>1
    <3>2. \A j \in DOMAIN toClient' : ~(i < j)
      BY <1>9, <3>1
    <3> QED BY <1>4, <1>5, <1>9, <2>1, <3>1, <3>2
  <2>2. CASE ~ok
    <3>1. /\ stored = toClient[i].snapshot
          /\ \A j \in DOMAIN toClient : i < j => toClient[j].type \notin {"cleared", "world"}
      BY <1>4, <1>10, <2>2 DEF Told, StoredTold
    <3> QED BY <1>4, <1>5, <1>9, <1>10, <2>2, <3>1
  <2> QED BY <2>1, <2>2
<1>15. RefusedWhy'
  <2> SUFFICES ASSUME "away" \notin troubles, NEW i \in Refusals(toClient')
               PROVE  \/ ~Knows(toClient', mine, i, toClient'[i].snapshot.binding)
                      \/ stored' = None /\ Frame(toClient'[i]) <= cursor'
                      \/ \E j \in Takes(toClient') : i < j /\ Frame(toClient'[i]) < Frame(toClient'[j])
    BY <1>2 DEF RefusedWhy
  <2>1. CASE i \in Refusals(toClient)
    <3>1. toClient'[i] = toClient[i] /\ i \in 1..n
      BY <1>10, <2>1
    <3>2. Frame(toClient[i]) \in Nat \ {0}
      BY <2>1, AckFramed DEF Refusals
    <3>3. \/ ~Knows(toClient, mine, i, toClient[i].snapshot.binding)
          \/ stored = None /\ Frame(toClient[i]) <= cursor
          \/ \E j \in Takes(toClient) : i < j /\ Frame(toClient[i]) < Frame(toClient[j])
      BY <2>1 DEF Told, RefusedWhy
    <3>4. CASE ~Knows(toClient, mine, i, toClient[i].snapshot.binding)
      <4>1. i \in 1 .. n + 1
        BY <1>9, <3>1
      <4> QED BY <1>11, <3>1, <3>4, <4>1
    <3>5. CASE \E j \in Takes(toClient) : i < j /\ Frame(toClient[i]) < Frame(toClient[j])
      BY <1>10, <3>1, <3>5
    <3>6. CASE stored = None /\ Frame(toClient[i]) <= cursor
      <4>1. CASE ~ok
        BY <1>4, <3>1, <3>6, <4>1
      <4>2. CASE ok
        <5>1. cursor # s.frame
          <6>1. cursor # 0
            BY <1>1, <3>2, <3>6
          <6> QED BY <1>7, <3>6, <4>2, <6>1 DEF Stale
        <5>2. Frame(toClient[i]) < s.frame
          BY <1>1, <1>6, <3>2, <3>6, <5>1
        <5>3. n + 1 \in Takes(toClient') /\ i < n + 1 /\ Frame(toClient'[n + 1]) = s.frame
          BY <1>5, <1>9, <1>10, <3>1, <4>2
        <5> QED BY <3>1, <5>2, <5>3
      <4> QED BY <4>1, <4>2
    <3> QED BY <3>3, <3>4, <3>5, <3>6
  <2>2. CASE i = n + 1 /\ ~ok
    <3>1. toClient'[i] = m
      BY <1>9, <2>2
    <3>2. CASE s.binding # bound
      <4>1. ~Knows(toClient, mine, n + 1, s.binding)
        <5>1. DOMAIN toClient \subseteq Nat
          BY <1>9
        <5> QED BY <1>12, <3>2, <5>1, KnowsOne
      <4>2. n + 1 \in 1 .. n + 1
        BY <1>9
      <4> QED BY <1>5, <1>11, <2>2, <3>1, <4>1, <4>2
    <3>3. CASE Stale(s.frame)
      <4>1. s.frame = cursor /\ stored = None
        BY <1>1, <1>6, <3>3 DEF Stale
      <4> QED BY <1>1, <1>4, <1>5, <2>2, <3>1, <4>1
    <3> QED BY <1>8, <2>2, <3>2, <3>3
  <2> QED BY <1>10, <2>1, <2>2
<1> QED BY <1>13, <1>14, <1>15 DEF Told

LEMMA ToldRead ==
  ASSUME IInv, Told, toClient # <<>>, toClient' = Tail(toClient),
         UNCHANGED <<troubles, joined, stored, cursor, bound>>,
         Head(toClient).type = "avatar" => mine' = Head(toClient).binding,
         Head(toClient).type # "avatar" => mine' = mine
  PROVE  Told'
<1> DEFINE n == Len(toClient)
<1>1. IsSeq(toClient)
  BY DEF IInv, Channels
<1>2. /\ n \in Nat /\ n >= 1 /\ DOMAIN toClient = 1..n /\ DOMAIN toClient' = 1 .. n - 1
      /\ \A k \in 1 .. n - 1 : toClient'[k] = toClient[k + 1]
      /\ IsSeq(toClient')
  BY <1>1, Received
<1>3. Len(toClient') = n - 1
  BY <1>2, Empty, OnTheWay
<1>4. \A i \in 1..n : \A b : Knows(toClient', mine', i, b) <=> Knows(toClient, mine, i + 1, b)
  <2> DEFINE own == mine'
             rest == Tail(toClient)
  <2> HIDE DEF own, rest
  <2>1. Head(toClient).type = "avatar" => own = Head(toClient).binding
    BY DEF own
  <2>2. Head(toClient).type # "avatar" => own = mine
    BY DEF own
  <2>3. \A i \in 1 .. Len(toClient) : \A b : Knows(Tail(toClient), own, i, b) <=> Knows(toClient, mine, i + 1, b)
    BY <1>1, <2>1, <2>2, KnowsRead
  <2> QED BY <2>3 DEF own
<1> HIDE DEF n
<1>5. BindingKnown'
  <2>1. joined => Knows(toClient, mine, n + 1, bound)
    BY DEF Told, BindingKnown, n
  <2>2. Len(toClient') + 1 = n /\ n \in 1..n
    BY <1>2, <1>3
  <2> QED BY <1>4, <2>1, <2>2 DEF BindingKnown
<1>6. \A i \in DOMAIN toClient' : /\ i \in Nat /\ i + 1 \in DOMAIN toClient /\ i \in 1..n
                                  /\ toClient'[i] = toClient[i + 1]
  BY <1>2
<1>7. \A j \in DOMAIN toClient : j > 1 => j - 1 \in DOMAIN toClient' /\ toClient'[j - 1] = toClient[j] /\ j \in Nat
  BY <1>2
<1>8. /\ \A i \in Takes(toClient') : i + 1 \in Takes(toClient)
      /\ \A j \in Takes(toClient) : j > 1 => j - 1 \in Takes(toClient')
      /\ \A i \in Refusals(toClient') : i + 1 \in Refusals(toClient)
  BY <1>6, <1>7 DEF Takes, Refusals
<1>9. /\ \A i \in Takes(toClient') \cup Refusals(toClient') : i \in DOMAIN toClient'
      /\ \A i \in Takes(toClient) : i \in DOMAIN toClient
  BY DEF Takes, Refusals
<1>10. ASSUME NEW i \in Takes(toClient') \cup Refusals(toClient'), NEW j \in Takes(toClient), i + 1 < j
       PROVE  j - 1 \in Takes(toClient') /\ i < j - 1 /\ toClient'[j - 1] = toClient[j]
  <2>1. i \in Nat /\ j \in Nat
    BY <1>2, <1>6, <1>9
  <2> QED BY <1>7, <1>8, <1>9, <1>10, <2>1
<1>11. StoredTold'
  <2> SUFFICES ASSUME NEW i \in Takes(toClient'), ~(\E j \in Takes(toClient') : i < j), stored # None
               PROVE  /\ stored = toClient'[i].snapshot
                      /\ \A j \in DOMAIN toClient' : i < j => toClient'[j].type \notin {"cleared", "world"}
    BY DEF StoredTold
  <2>1. i + 1 \in Takes(toClient) /\ ~(\E j \in Takes(toClient) : i + 1 < j)
    BY <1>8, <1>10
  <2>2. /\ stored = toClient[i + 1].snapshot
        /\ \A j \in DOMAIN toClient : i + 1 < j => toClient[j].type \notin {"cleared", "world"}
    BY <2>1 DEF Told, StoredTold
  <2>3. \A j \in DOMAIN toClient' : i < j => i + 1 < j + 1
    BY <1>6, <1>9
  <2> QED BY <1>6, <1>9, <2>2, <2>3
<1>12. RefusedWhy'
  <2> SUFFICES ASSUME "away" \notin troubles, NEW i \in Refusals(toClient')
               PROVE  \/ ~Knows(toClient', mine', i, toClient'[i].snapshot.binding)
                      \/ stored = None /\ Frame(toClient'[i]) <= cursor
                      \/ \E j \in Takes(toClient') : i < j /\ Frame(toClient'[i]) < Frame(toClient'[j])
    BY DEF RefusedWhy
  <2>1. toClient'[i] = toClient[i + 1] /\ i \in 1..n
    BY <1>6, <1>9
  <2>2. \/ ~Knows(toClient, mine, i + 1, toClient[i + 1].snapshot.binding)
        \/ stored = None /\ Frame(toClient[i + 1]) <= cursor
        \/ \E j \in Takes(toClient) : i + 1 < j /\ Frame(toClient[i + 1]) < Frame(toClient[j])
    BY <1>8 DEF Told, RefusedWhy
  <2>3. CASE ~Knows(toClient, mine, i + 1, toClient[i + 1].snapshot.binding)
    BY <1>4, <2>1, <2>3
  <2>4. CASE stored = None /\ Frame(toClient[i + 1]) <= cursor
    BY <2>1, <2>4
  <2>5. CASE \E j \in Takes(toClient) : i + 1 < j /\ Frame(toClient[i + 1]) < Frame(toClient[j])
    <3>1. PICK j \in Takes(toClient) : i + 1 < j /\ Frame(toClient[i + 1]) < Frame(toClient[j])
      BY <2>5
    <3>2. j - 1 \in Takes(toClient') /\ i < j - 1 /\ toClient'[j - 1] = toClient[j]
      BY <1>10, <3>1
    <3> QED BY <2>1, <3>1, <3>2
  <2> QED BY <2>2, <2>3, <2>4, <2>5
<1> QED BY <1>5, <1>11, <1>12 DEF Told

LEMMA ToldNothing ==
  ASSUME toClient' = <<>>, ~joined'
  PROVE  Told'
<1>1. Takes(toClient') = {} /\ Refusals(toClient') = {}
  BY Empty DEF Takes, Refusals
<1> QED BY <1>1 DEF Told, BindingKnown, StoredTold, RefusedWhy

LEMMA ToldJoin == Alone /\ Join => Told'
<1> SUFFICES ASSUME Alone, Join PROVE Told'
  OBVIOUS
<1> DEFINE m == AvatarState(bound)
           ch == Append(<<>>, m)
<1>1. /\ toClient' = ch /\ UNCHANGED <<bound, mine>> /\ stored' = None
      /\ m.type = "avatar" /\ m.binding = bound
  BY DEF Join, serverVars, Alone, Apart, AvatarState
<1> HIDE DEF m
<1>2. /\ DOMAIN ch = 1 .. Len(<<>>) + 1 /\ ch[Len(<<>>) + 1] = m /\ IsSeq(ch)
      /\ IsSeq(<<>>) /\ Len(<<>>) = 0
  BY Empty, Appended
<1>3. Len(ch) = 1
  BY <1>2, OnTheWay
<1>4. Takes(ch) = {} /\ Refusals(ch) = {}
  BY <1>1, <1>2 DEF Takes, Refusals
<1>5. Knows(ch, mine, 2, bound)
  <2>1. Knows(ch, mine, Len(<<>>) + 2, m.binding)
    BY <1>1, <1>2, KnowsSent
  <2> QED BY <1>1, <1>2, <2>1
<1> HIDE DEF ch
<1> QED BY <1>1, <1>3, <1>4, <1>5 DEF Told, BindingKnown, StoredTold, RefusedWhy

LEMMA ToldStep == IInv /\ Viewed /\ Alone /\ Told /\ [Next]_vars => Told'
<1> SUFFICES ASSUME IInv, Viewed, Alone, Told, [Next]_vars PROVE Told'
  OBVIOUS
<1>1. CASE Join
  BY <1>1, ToldJoin
<1>2. CASE Leave
  BY <1>2, ToldNothing DEF Leave
<1>3. CASE OnInstall
  BY <1>3, ToldInstall
<1>4. CASE Receive \/ Reinstall \/ Clear \/ Expire \/ UNCHANGED vars
  <2>1. /\ UNCHANGED <<troubles, toClient, mine, bound, joined, cursor>>
        /\ stored' = stored \/ stored' = None
    BY <1>4 DEF Receive, Reinstall, Clear, Expire, vars, clientVars, serverVars
  <2> QED BY <2>1, ToldUnmoved
<1>5. CASE OnClear
  <2> DEFINE m == Cleared(Head(toServer).keep)
  <2>1. /\ toClient' = Append(toClient, m) /\ stored' = None
        /\ UNCHANGED <<troubles, mine, joined, cursor, bound>>
    BY <1>5 DEF OnClear, clientVars
  <2>2. m.type \in {"world", "cleared"}
    BY Kinds
  <2> HIDE DEF m
  <2> QED BY <2>1, <2>2, ToldOther
<1>6. CASE ChangeWorld
  <2>1. /\ toClient' = Append(toClient, WorldChanged) /\ stored' = None
        /\ UNCHANGED <<troubles, mine, joined, cursor, bound>>
    BY <1>6 DEF ChangeWorld, clientVars
  <2>2. WorldChanged.type \in {"world", "cleared"}
    BY Kinds
  <2> QED BY <2>1, <2>2, ToldOther
<1>7. CASE Rebind
  <2> DEFINE m == AvatarState(bound')
  <2>1. /\ toClient' = Append(toClient, m) /\ stored' = stored
        /\ UNCHANGED <<troubles, mine, joined, cursor>>
    BY <1>7 DEF Rebind, clientVars
  <2>2. m.type = "avatar" /\ m.binding = bound'
    BY DEF AvatarState
  <2> HIDE DEF m
  <2> QED BY <2>1, <2>2, ToldOther
<1>8. CASE OnWorldChanged \/ OnCleared \/ OnAckIgnored \/ OnAckActivates
  <2>1. /\ toClient # <<>> /\ toClient' = Tail(toClient) /\ Head(toClient).type # "avatar"
        /\ UNCHANGED <<troubles, joined, stored, cursor, bound, mine>>
    BY <1>8 DEF OnWorldChanged, OnCleared, OnAckIgnored, OnAckActivates, FromServer, serverVars
  <2> QED BY <2>1, ToldRead
<1>9. CASE OnAvatarState
  <2>1. /\ toClient # <<>> /\ toClient' = Tail(toClient) /\ Head(toClient).type = "avatar"
        /\ UNCHANGED <<troubles, joined, stored, cursor, bound>>
        /\ mine' = Head(toClient).binding
    BY <1>9 DEF OnAvatarState, FromServer, serverVars
  <2> QED BY <2>1, ToldRead
<1> QED BY <1>1, <1>2, <1>3, <1>4, <1>5, <1>6, <1>7, <1>8, <1>9 DEF Next

\* Behind a clear that was answered nothing is stored but what was accepted since.
Emptied ==
    \A c \in ClearsIn(toClient) : stored = None \/ \E j \in Takes(toClient) : c < j

LEMMA EmptiedSent ==
  ASSUME IInv, Emptied, NEW m, toClient' = Append(toClient, m),
         \/ stored' = None
         \/ stored' = stored /\ m.type \notin {"clear", "cleared"}
         \/ m.type = "ack" /\ m.accepted
  PROVE  Emptied'
<1>1. IsSeq(toClient)
  BY DEF IInv, Channels
<1>2. /\ Len(toClient) \in Nat
      /\ DOMAIN toClient = 1 .. Len(toClient) /\ DOMAIN toClient' = 1 .. Len(toClient) + 1
      /\ \A i \in 1 .. Len(toClient) : toClient'[i] = toClient[i]
      /\ toClient'[Len(toClient) + 1] = m
  BY <1>1, Appended
<1>3. \A j \in Takes(toClient) : j \in Takes(toClient')
  BY <1>2 DEF Takes
<1>4. \A c \in ClearsIn(toClient') : c \in ClearsIn(toClient) \/ (c = Len(toClient) + 1 /\ m.type \in {"clear", "cleared"})
  BY <1>2 DEF ClearsIn
<1>5. CASE stored' = None
  BY <1>5 DEF Emptied
<1>6. CASE stored' = stored /\ m.type \notin {"clear", "cleared"}
  BY <1>3, <1>4, <1>6 DEF Emptied
<1>7. CASE m.type = "ack" /\ m.accepted
  <2>1. Len(toClient) + 1 \in Takes(toClient')
    BY <1>2, <1>7 DEF Takes
  <2>2. \A c \in ClearsIn(toClient') : c < Len(toClient) + 1
    BY <1>2, <1>4, <1>7 DEF ClearsIn
  <2> QED BY <2>1, <2>2 DEF Emptied
<1> QED BY <1>5, <1>6, <1>7

LEMMA EmptiedRead ==
  ASSUME IInv, Emptied, toClient # <<>>, toClient' = Tail(toClient), stored' = stored
  PROVE  Emptied'
<1>1. /\ Len(toClient) \in Nat /\ Len(toClient) >= 1
      /\ DOMAIN toClient = 1 .. Len(toClient) /\ DOMAIN toClient' = 1 .. Len(toClient) - 1
      /\ \A k \in 1 .. Len(toClient) - 1 : toClient'[k] = toClient[k + 1]
  BY Received DEF IInv, Channels
<1> SUFFICES ASSUME NEW c \in ClearsIn(toClient'), stored # None
             PROVE  \E j \in Takes(toClient') : c < j
  BY DEF Emptied
<1>2. c \in 1 .. Len(toClient) - 1 /\ c + 1 \in ClearsIn(toClient)
  BY <1>1 DEF ClearsIn
<1>3. PICK j \in Takes(toClient) : c + 1 < j
  BY <1>2 DEF Emptied
<1>4. j \in 1 .. Len(toClient) /\ c < j - 1 /\ j - 1 \in 1 .. Len(toClient) - 1
  BY <1>1, <1>2, <1>3 DEF Takes
<1>5. toClient'[j - 1] = toClient[j]
  BY <1>1, <1>4
<1>6. j - 1 \in Takes(toClient')
  BY <1>1, <1>4, <1>5 DEF Takes
<1> QED BY <1>4, <1>6

LEMMA EmptiedStep == IInv /\ Alone /\ Emptied /\ [Next]_vars => Emptied'
<1> SUFFICES ASSUME IInv, Alone, Emptied, [Next]_vars PROVE Emptied'
  OBVIOUS
<1>1. CASE Join \/ Leave
  BY <1>1 DEF Join, Leave, Alone, Apart, serverVars, Emptied
<1>2. CASE Receive \/ Reinstall \/ Clear \/ Expire \/ UNCHANGED vars
  <2>1. UNCHANGED toClient /\ stored' \in {stored, None}
    BY <1>2 DEF Receive, Reinstall, Clear, Expire, vars, serverVars
  <2> QED BY <2>1 DEF Emptied
<1>3. CASE OnWorldChanged \/ OnCleared \/ OnAckIgnored \/ OnAckActivates \/ OnAvatarState
  <2>1. toClient # <<>> /\ toClient' = Tail(toClient) /\ stored' = stored
    BY <1>3 DEF OnWorldChanged, OnCleared, OnAckIgnored, OnAckActivates, OnAvatarState, FromServer,
                serverVars
  <2> QED BY <2>1, EmptiedRead
<1>4. CASE OnInstall
  <2>1. PICK ok \in BOOLEAN : /\ toClient' = Append(toClient, Ack(Head(toServer).snapshot, ok))
                              /\ ~ok => stored' = stored
    BY <1>4 DEF OnInstall
  <2> DEFINE m == Ack(Head(toServer).snapshot, ok)
  <2>2. m.type = "ack" /\ m.accepted = ok
    BY DEF Ack
  <2>3. toClient' = Append(toClient, m)
    BY <2>1
  <2> HIDE DEF m
  <2> QED BY <2>1, <2>2, <2>3, EmptiedSent
<1>5. CASE OnClear \/ ChangeWorld
  <2>1. \E m : toClient' = Append(toClient, m) /\ stored' = None
    BY <1>5 DEF OnClear, ChangeWorld
  <2> QED BY <2>1, EmptiedSent
<1>6. CASE Rebind
  <2>1. PICK m : m.type = "avatar" /\ toClient' = Append(toClient, m) /\ stored' = stored
    BY <1>6, Kinds DEF Rebind
  <2> QED BY <2>1, EmptiedSent
<1> QED BY <1>1, <1>2, <1>3, <1>4, <1>5, <1>6 DEF Next

-----------------------------------------------------------------------------
(* What the client puts behind the rest. *)

\* What a step of the client adds, when what it reads is gone.
Sends ==
    \/ UNCHANGED toServer
    \/ \E p, s : Install(p, s)
    \/ SendClear(TRUE)
    \/ "clear" \in troubles /\ SendClear(FALSE)

LEMMA ClientSendsOne == ClientStep => Sends
<1> SUFFICES ASSUME ClientStep PROVE Sends
  OBVIOUS
<1>1. CASE Join
  BY <1>1 DEF Join, Sends
<1>2. CASE Receive
  <2>1. PICK f \in Frames : ReceiveEmpty(f) \/ ReceiveUsable(f)
    BY <1>2 DEF Receive
  <2> QED BY <2>1 DEF ReceiveEmpty, ReceiveUsable, Sends
<1>3. CASE Reinstall \/ Clear
  BY <1>3 DEF Reinstall, Clear, Sends
<1>4. CASE OnWorldChanged \/ OnCleared \/ OnAckIgnored
  BY <1>4 DEF OnWorldChanged, OnCleared, OnAckIgnored, Sends
<1>5. CASE OnAckActivates
  BY <1>5 DEF OnAckActivates, Sends
<1>6. CASE OnAvatarState
  BY <1>6 DEF OnAvatarState, Sends
<1> QED BY <1>1, <1>2, <1>3, <1>4, <1>5, <1>6 DEF ClientStep

LEMMA WayClient ==
  ASSUME IInv, Alone, ClientStep
  PROVE  \E from, gone :
           /\ Comes(Way, toClient' \o toServer, from, gone)
           /\ gone \subseteq {1}
           /\ gone # {} => toClient # <<>> /\ toClient' = Tail(toClient) /\ Way[1] = Head(toClient)
           /\ \A k \in DOMAIN Way : k \in Nat /\ k >= 1
           /\ DOMAIN (toClient' \o toServer) \subseteq Nat
<1>1. IsSeq(toServer) /\ IsSeq(toClient)
  BY DEF IInv, Channels
<1>2. \A k \in DOMAIN Way : k \in Nat /\ k >= 1
  BY <1>1, OnTheWay DEF Way
<1>3. CASE Join
  <2>1. toClient' = Append(toClient, AvatarState(bound))
    BY <1>3 DEF Join, Alone, Apart
  <2>2. IsSeq(toClient')
    BY <1>1, <2>1, Appended
  <2>3. AvatarState(bound).type \notin {"clear", "cleared", "install", "ack"}
    BY Kinds
  <2>4. PICK from : Comes(Way, toClient' \o toServer, from, {})
    BY <1>1, <2>1, <2>3, InsertComes DEF Way
  <2> QED BY <1>1, <1>2, <2>2, <2>4, WayNumbered
<1>4. CASE Receive \/ Reinstall \/ Clear
  <2>1. UNCHANGED toClient
    BY <1>4 DEF Receive, Reinstall, Clear
  <2> DEFINE from == [k \in DOMAIN Way |-> k]
  <2>2. Comes(Way, Way, from, {})
    BY MarksApart DEF Comes
  <2> HIDE DEF from
  <2>3. Comes(Way, toClient' \o toServer, from, {})
    BY <2>1, <2>2 DEF Way
  <2> QED BY <1>1, <1>2, <2>1, <2>3, WayNumbered
<1>5. CASE OnWorldChanged \/ OnCleared \/ OnAckIgnored \/ OnAckActivates \/ OnAvatarState
  <2>1. toClient # <<>> /\ toClient' = Tail(toClient)
    BY <1>5 DEF OnWorldChanged, OnCleared, OnAckIgnored, OnAckActivates, OnAvatarState, FromServer
  <2> QED BY <1>2, <2>1, WayRead
<1> QED BY <1>3, <1>4, <1>5 DEF ClientStep

\* Where the player presses no clear and stays in the dimension, every clear is
\* one that keeps the picture.
Gentle == troubles \cap {"clear", "world", "away"} = {}

AllKeep(channel) == \A k \in ClearsIn(channel) : channel[k].keep

Kept == Gentle => AllKeep(Way) /\ \A k \in DOMAIN toClient : toClient[k].type # "world"

LEMMA KeepComes ==
  ASSUME NEW c, NEW next, NEW from, NEW gone, Comes(c, next, from, gone), AllKeep(c)
  PROVE  AllKeep(next)
BY DEF Comes, AllKeep

LEMMA KeepSent ==
  ASSUME NEW c, NEW m, NEW next, Grown(c, m, next), AllKeep(c), m.type \in {"clear", "cleared"} => m.keep
  PROVE  AllKeep(next)
<1>1. PICK n \in Nat :
           /\ n + 1 \in DOMAIN next /\ next[n + 1] = m
           /\ \A k \in DOMAIN c : k \in DOMAIN next /\ next[k] = c[k] /\ k < n + 1
           /\ ClearsIn(next) = ClearsIn(c) \cup (IF m.type \in {"clear", "cleared"} THEN {n + 1} ELSE {})
  BY GrownMarks
<1> QED BY <1>1, MarksApart DEF AllKeep

LEMMA KeptClient ==
  ASSUME IInv, Alone, ClientStep, Gentle, AllKeep(Way)
  PROVE  AllKeep(Way')
<1> DEFINE c == toClient' \o toServer
<1>1. PICK from, gone : Comes(Way, c, from, gone)
  BY WayClient
<1>2. AllKeep(c)
  <2> HIDE DEF c
  <2> QED BY <1>1, KeepComes
<1>3. IsSeq(toClient') /\ IsSeq(toServer)
  BY AnswerStep DEF ClientStep, Next, IInv, Channels
<1>4. CASE UNCHANGED toServer
  BY <1>2, <1>4 DEF Way
<1>5. ASSUME NEW m, toServer' = Append(toServer, m), m.type \in {"clear", "cleared"} => m.keep
      PROVE  AllKeep(Way')
  <2>1. Grown(c, m, Way')
    BY <1>3, <1>5, SendGrows DEF Way
  <2> QED BY <1>2, <1>5, <2>1, KeepSent
<1>6. ASSUME NEW p, NEW s, Install(p, s) PROVE AllKeep(Way')
  <2> DEFINE m == InstallPayload(s)
  <2>1. toServer' = Append(toServer, m) /\ m.type = "install"
    BY <1>6, Kinds DEF Install
  <2> HIDE DEF m
  <2> QED BY <1>5, <2>1
<1>7. CASE SendClear(TRUE)
  <2> DEFINE m == ClearPayload(TRUE)
  <2>1. toServer' = Append(toServer, m) /\ m.keep
    BY <1>7 DEF SendClear, ClearPayload
  <2> HIDE DEF m
  <2> QED BY <1>5, <2>1
<1>8. "clear" \notin troubles
  BY DEF Gentle
<1> QED BY <1>4, <1>6, <1>7, <1>8, ClientSendsOne DEF Sends

LEMMA TroublesStay == [Next]_vars => troubles' = troubles
<1> SUFFICES ASSUME [Next]_vars PROVE troubles' = troubles
  OBVIOUS
<1> QED BY DEF Next, vars, Join, Leave, Receive, Reinstall, Clear, OnWorldChanged, OnCleared, OnAckIgnored,
               OnAckActivates, OnAvatarState, OnInstall, OnClear, Expire, ChangeWorld, Rebind

LEMMA KeptStep == IInv /\ Alone /\ Kept /\ [Next]_vars => Kept'
<1> SUFFICES ASSUME IInv, Alone, Kept, [Next]_vars, Gentle
             PROVE  AllKeep(Way') /\ \A k \in DOMAIN toClient' : toClient'[k].type # "world"
  BY TroublesStay DEF Kept, Gentle
<1>1. AllKeep(Way) /\ \A k \in DOMAIN toClient : toClient[k].type # "world"
  BY DEF Kept
<1>2. AllKeep(Way')
  <2>1. CASE Leave
    BY <2>1, NothingUnderWay DEF Leave, Way, AllKeep
  <2>2. CASE OnInstall \/ OnClear \/ Expire \/ ChangeWorld \/ Rebind \/ UNCHANGED vars
    BY <1>1, <2>2, WayServer, KeepComes
  <2> QED BY <1>1, <2>1, <2>2, KeptClient DEF Next, ClientStep
<1> SUFFICES \A k \in DOMAIN toClient' : toClient'[k].type # "world"
  BY <1>2
<1>3. IsSeq(toClient)
  BY DEF IInv, Channels
<1>4. ASSUME NEW m, toClient' = Append(toClient, m), m.type # "world"
      PROVE  \A k \in DOMAIN toClient' : toClient'[k].type # "world"
  BY <1>1, <1>3, <1>4, Appended
<1>5. CASE Leave
  BY <1>5, Empty DEF Leave
<1>6. CASE Join
  <2>1. toClient' = Append(toClient, AvatarState(bound))
    BY <1>6 DEF Join, Alone, Apart
  <2>2. AvatarState(bound).type # "world"
    BY Kinds
  <2> QED BY <1>4, <2>1, <2>2
<1>7. CASE Receive \/ Reinstall \/ Clear \/ Expire \/ UNCHANGED vars
  BY <1>1, <1>7 DEF Receive, Reinstall, Clear, Expire, vars
<1>8. CASE OnWorldChanged \/ OnCleared \/ OnAckIgnored \/ OnAckActivates \/ OnAvatarState
  <2>1. toClient # <<>> /\ toClient' = Tail(toClient)
    BY <1>8 DEF OnWorldChanged, OnCleared, OnAckIgnored, OnAckActivates, OnAvatarState, FromServer
  <2> QED BY <1>1, <1>3, <2>1, Received
<1>9. CASE OnInstall \/ OnClear \/ Rebind
  <2>1. \E m : toClient' = Append(toClient, m) /\ m.type \in {"ack", "cleared", "avatar"}
    BY <1>9, Kinds, InstallRead DEF OnClear, Rebind
  <2> QED BY <1>4, <2>1
<1>10. ~ChangeWorld
  BY DEF ChangeWorld, Gentle
<1> QED BY <1>5, <1>6, <1>7, <1>8, <1>9, <1>10 DEF Next

-----------------------------------------------------------------------------
(* The snapshot asked for last. *)

Cloud == usable => latest # 0

LEMMA CloudStep == IInv /\ Cloud /\ [Next]_vars => Cloud'
<1> SUFFICES ASSUME IInv, Cloud, [Next]_vars PROVE Cloud'
  OBVIOUS
<1>1. CASE Receive
  <2>1. PICK f \in Frames : f > latest /\ (ReceiveEmpty(f) \/ ReceiveUsable(f))
    BY <1>1 DEF Receive
  <2>2. latest' = f
    BY <2>1 DEF ReceiveEmpty, ReceiveUsable
  <2>3. f # 0
    BY InstallAssumption DEF Frames
  <2> QED BY <2>2, <2>3 DEF Cloud
<1>2. CASE ~Receive
  <2>1. UNCHANGED <<usable, latest>>
    BY <1>2 DEF Next, vars, clientVars, Join, Leave, Reinstall, Clear, OnWorldChanged, OnCleared,
                OnAckIgnored, OnAckActivates, OnAvatarState, OnInstall, OnClear, Expire, ChangeWorld, Rebind
  <2> QED BY <2>1 DEF Cloud
<1> QED BY <1>1, <1>2

\* The client waits for what it asked for last.
Awaited == Asks(Way) # {} /\ \A k : Last(Way, k) => Way[k].snapshot \in pending

LEMMA InstallAwaited ==
  ASSUME NEW near, IsSeq(near), IsSeq(toServer), toClient' = near, NEW open, NEW top, NEW own, NEW shown,
         View(near \o toServer, top, own, open, shown),
         NEW f \in Nat \ {0}, NEW size, Install(open, Placed(f, size, own)), top <= f,
         shown # None => shown.frame <= f
  PROVE  Awaited'
<1> DEFINE s == Placed(f, size, own)
<1>1. s.frame = f /\ s.binding = own /\ InstallPayload(s).type = "install"
  BY Kinds
<1> HIDE DEF s
<1>2. toServer' = Append(toServer, InstallPayload(s)) /\ pending' = Evicted(Put(open, s))
  BY DEF Install, s
<1>3. Grown(near \o toServer, InstallPayload(s), Way')
  BY <1>2, SendGrows DEF Way
<1>4. (\A k : Last(Way', k) => Way'[k].snapshot = s) /\ s \in Evicted(Put(open, s))
  BY <1>1, <1>3, ViewInstallSent
<1>5. Asks(Way') # {}
  <2>1. PICK n \in Nat :
          Asks(Way') = Asks(near \o toServer)
                         \cup (IF InstallPayload(s).type \in {"install", "ack"} THEN {n + 1} ELSE {})
    BY <1>3, GrownMarks
  <2> QED BY <1>1, <2>1
<1> QED BY <1>2, <1>4, <1>5 DEF Awaited

LEMMA ReceiveAwaits ==
  ASSUME IInv, Viewed, NEW f \in Frames, f > latest, ReceiveUsable(f), joined, UNCHANGED <<toClient, mine>>
  PROVE  Awaited'
<1>1. /\ IsSeq(toServer) /\ IsSeq(toClient) /\ latest \in Nat
      /\ View(toClient \o toServer, latest, mine, pending, active)
      /\ active # None => active.frame \in Nat /\ active.frame <= latest
  BY ActiveKnown DEF IInv, Channels, InstallsInOrder, Viewed, Way
<1>2. f \in Nat \ {0} /\ latest <= f /\ (active # None => active.frame <= f)
  BY <1>1, InstallAssumption DEF Frames
<1>3. Install(pending, Placed(f, scale', mine))
  BY DEF ReceiveUsable
<1> QED BY <1>1, <1>2, <1>3, InstallAwaited

LEMMA ReinstallAwaits ==
  ASSUME IInv, Viewed, Reinstall, usable, latest # 0
  PROVE  Awaited'
<1>1. /\ IsSeq(toServer) /\ IsSeq(toClient) /\ latest \in Nat \ {0} /\ latest <= latest
      /\ View(toClient \o toServer, latest, mine, pending, active)
      /\ active # None => active.frame <= latest
  BY ActiveKnown DEF IInv, Channels, InstallsInOrder, Viewed, Way
<1>2. Install(pending, Placed(latest, scale', mine)) /\ UNCHANGED toClient
  BY DEF Reinstall
<1> QED BY <1>1, <1>2, InstallAwaited

LEMMA JoinAwaits ==
  ASSUME IInv, Viewed, Alone, Join, usable, latest # 0
  PROVE  Awaited'
<1> DEFINE near == Append(toClient, AvatarState(bound))
<1>1. /\ IsSeq(toServer) /\ IsSeq(toClient) /\ latest \in Nat \ {0} /\ latest <= latest
      /\ View(toClient \o toServer, latest, mine, pending, active)
      /\ active # None => active.frame <= latest
  BY ActiveKnown DEF IInv, Channels, InstallsInOrder, Viewed, Way
<1>2. toClient' = near /\ Install(pending, Placed(latest, scale, mine))
  BY DEF Join, Alone, Apart
<1>3. IsSeq(near) /\ View(near \o toServer, latest, mine, pending, active)
  BY <1>1, Kinds, Appended, ViewInserted
<1> HIDE DEF near
<1> QED BY <1>1, <1>2, <1>3, InstallAwaited

LEMMA AvatarAwaits ==
  ASSUME IInv, Viewed, Alone, Cloud, OnAvatarState, usable, mine' # mine
  PROVE  Awaited'
<1> DEFINE near == Tail(toClient)
           own == mine'
           size == scale'
<1>1. /\ IsSeq(toServer) /\ IsSeq(toClient) /\ latest \in Nat \ {0} /\ latest <= latest
      /\ View(toClient \o toServer, latest, mine, pending, active)
  BY DEF IInv, Channels, InstallsInOrder, Viewed, Way, Cloud
<1>2. /\ toClient # <<>> /\ Head(toClient).type = "avatar" /\ toClient' = near /\ joined
      /\ Install({}, Placed(latest, size, own))
  BY <1>1 DEF OnAvatarState, FromServer, Alone, Apart
<1>3. IsSeq(near) /\ View(near \o toServer, latest, mine, pending, active)
  BY <1>1, <1>2, Received, ViewOtherRead
<1> HIDE DEF near, own, size
<1>4. View(near \o toServer, latest, own, {}, None)
  BY <1>3, ViewEmptied
<1> QED BY <1>1, <1>2, <1>3, <1>4, InstallAwaited

\* No clear travels behind the k-th payload.
ClearBefore(channel, k) == \A c \in ClearsIn(channel) : c < k

\* What was asked for last, when no clear travels behind it.
Follows(channel, open, shown, kept, top) ==
    \A k : Last(channel, k) /\ ClearBefore(channel, k) =>
        \/ channel[k].snapshot \in open \cup {shown}
        \/ kept = None /\ Frame(channel[k]) <= top

LEMMA LastGone ==
  ASSUME NEW c, NEW next, NEW from, NEW gone, Comes(c, next, from, gone), gone \subseteq {1},
         \A k \in DOMAIN c : k \in Nat /\ k >= 1, DOMAIN next \subseteq Nat, NEW i, Last(next, i)
  PROVE  /\ Last(c, from[i]) /\ from[i] \notin gone /\ next[i].snapshot = c[from[i]].snapshot
         /\ ClearBefore(next, i) => ClearBefore(c, from[i])
<1>1. i \in Asks(next) /\ i \in Nat /\ from[i] \in Asks(c) \ gone /\ from[i] \in Nat /\ from[i] >= 1
      /\ next[i].snapshot = c[from[i]].snapshot
  BY MarksApart DEF Last, Comes
<1>2. ASSUME NEW k \in Marks(c), k # from[i] PROVE k < from[i] \/ \E j \in Marks(next) : from[j] = k /\ j # i
  <2>1. k \in Nat /\ k >= 1
    BY MarksApart
  <2>2. CASE k \in gone
    BY <1>1, <1>2, <2>1, <2>2
  <2>3. CASE k \notin gone
    BY <1>2, <2>3 DEF Comes
  <2> QED BY <2>2, <2>3
<1>3. \A j \in Marks(next) : j < i <=> from[j] < from[i]
  BY <1>1 DEF Comes, Marks
<1>4. \A j \in Marks(next) : /\ j \in Asks(next) \/ j \in ClearsIn(next)
                             /\ j \in Asks(next) => from[j] \in Asks(c)
                             /\ j \in ClearsIn(next) => from[j] \in ClearsIn(c)
                             /\ j \in Nat
  BY MarksApart DEF Comes, Marks
<1>5. ASSUME NEW k \in Asks(c) PROVE k <= from[i]
  <2>1. CASE k = from[i]
    BY <1>1, <2>1
  <2>2. CASE k # from[i]
    <3>1. CASE k < from[i]
      BY <1>1, <3>1, MarksApart
    <3>2. CASE \E j \in Marks(next) : from[j] = k /\ j # i
      <4>1. PICK j \in Marks(next) : from[j] = k /\ j # i
        BY <3>2
      <4>2. j \in Asks(next)
        BY <1>4, <4>1, MarksApart
      <4>3. j < i
        BY <1>1, <1>4, <4>1, <4>2 DEF Last
      <4> QED BY <1>1, <1>3, <4>1, <4>3, MarksApart
    <3> QED BY <1>2, <2>2, <3>1, <3>2 DEF Marks
  <2> QED BY <2>1, <2>2
<1>6. ASSUME ClearBefore(next, i), NEW k \in ClearsIn(c) PROVE k < from[i]
  <2>1. k # from[i]
    BY <1>1, MarksApart
  <2>2. CASE \E j \in Marks(next) : from[j] = k /\ j # i
    <3>1. PICK j \in Marks(next) : from[j] = k /\ j # i
      BY <2>2
    <3>2. j \in ClearsIn(next)
      BY <1>4, <3>1, MarksApart
    <3> QED BY <1>3, <1>6, <3>1, <3>2 DEF ClearBefore
  <2> QED BY <1>2, <2>1, <2>2 DEF Marks
<1> QED BY <1>1, <1>5, <1>6 DEF Last, ClearBefore

LEMMA NoneLeft ==
  ASSUME NEW c, NEW next, NEW from, NEW gone, Comes(c, next, from, gone), Asks(next) = {},
         Asks(c) \cap gone = {}
  PROVE  Asks(c) = {}
<1> SUFFICES ASSUME NEW k \in Asks(c) PROVE FALSE
  OBVIOUS
<1>1. PICK i \in Marks(next) : from[i] = k
  BY DEF Comes, Marks
<1>2. i \in ClearsIn(next)
  BY DEF Marks
<1>3. k \in ClearsIn(c)
  BY <1>1, <1>2 DEF Comes
<1> QED BY <1>3, MarksApart

LEMMA FollowsComes ==
  ASSUME NEW c, NEW next, NEW from, NEW gone, Comes(c, next, from, gone), gone \subseteq {1},
         \A k \in DOMAIN c : k \in Nat /\ k >= 1, DOMAIN next \subseteq Nat,
         NEW open, NEW shown, NEW kept, NEW top, Follows(c, open, shown, kept, top)
  PROVE  Follows(next, open, shown, kept, top)
<1> SUFFICES ASSUME NEW i, Last(next, i), ClearBefore(next, i)
             PROVE  \/ next[i].snapshot \in open \cup {shown}
                    \/ kept = None /\ Frame(next[i]) <= top
  BY DEF Follows
<1>3. Last(c, from[i])
  BY LastGone
<1>4. next[i].snapshot = c[from[i]].snapshot
  BY DEF Last, Comes
<1>5. ClearBefore(next, i) => ClearBefore(c, from[i])
  BY LastGone
<1>1. Last(c, from[i]) /\ ClearBefore(c, from[i]) /\ next[i].snapshot = c[from[i]].snapshot
  BY <1>3, <1>4, <1>5
<1>2. \/ c[from[i]].snapshot \in open \cup {shown}
      \/ kept = None /\ Frame(c[from[i]]) <= top
  BY <1>1 DEF Follows
<1> QED BY <1>1, <1>2 DEF Frame

\* No other binding is on its way to the client.
Steady == \A k \in Avatars(toClient) : toClient[k].binding = mine

\* While no clear travels behind what was asked for last, the client waits for it or
\* shows it, unless it came too late; when nothing is asked for, the client shows
\* what is stored.
Agreed ==
    Gentle /\ Steady =>
        /\ Follows(Way, pending, active, stored, cursor)
        /\ Asks(Way) = {} /\ ClearsIn(toServer) = {} /\ stored # None /\ stored.binding = bound =>
              active = stored

LEMMA AgreedAwaited ==
  ASSUME Awaited'
  PROVE  Agreed'
BY DEF Awaited, Agreed, Follows

LEMMA FollowsHushed ==
  ASSUME NEW c, DOMAIN c \subseteq Nat, Hushed(c), NEW open, NEW shown, NEW kept, NEW top
  PROVE  Follows(c, open, shown, kept, top)
<1> SUFFICES ASSUME NEW k, Last(c, k), ClearBefore(c, k) PROVE FALSE
  BY DEF Follows
<1>1. PICK x \in ClearsIn(c) : k < x
  BY DEF Hushed, Last
<1>2. x \in Nat /\ k \in Nat
  BY MarksApart DEF Last
<1> QED BY <1>1, <1>2 DEF ClearBefore

LEMMA AgreedHushed ==
  ASSUME IInv', Hushed(Way'), stored' = None \/ ClearsIn(toServer') # {}
  PROVE  Agreed'
<1>1. DOMAIN Way' \subseteq Nat
  BY WayNumbered DEF IInv, Channels, Way
<1>2. Follows(Way', pending', active', stored', cursor')
  BY <1>1, FollowsHushed
<1> QED BY <1>2 DEF Agreed

\* A payload that is no answer to an install is read and changes nothing.
LEMMA AgreedRead ==
  ASSUME IInv, Agreed, toClient # <<>>, toClient' = Tail(toClient),
         Head(toClient).type \notin {"install", "ack"},
         Head(toClient).type = "avatar" => Head(toClient).binding = mine,
         UNCHANGED <<troubles, toServer, pending, active, stored, cursor, bound, mine>>
  PROVE  Agreed'
<1> SUFFICES ASSUME Gentle, Steady'
             PROVE  /\ Follows(Way', pending, active, stored, cursor)
                    /\ Asks(Way') = {} /\ ClearsIn(toServer) = {} /\ stored # None /\ stored.binding = bound =>
                          active = stored
  BY DEF Agreed, Gentle
<1>1. /\ Len(toClient) \in Nat /\ Len(toClient) >= 1
      /\ DOMAIN toClient = 1 .. Len(toClient) /\ DOMAIN toClient' = 1 .. Len(toClient) - 1
      /\ \A k \in 1 .. Len(toClient) - 1 : toClient'[k] = toClient[k + 1]
      /\ Head(toClient) = toClient[1]
  BY Received DEF IInv, Channels
<1>2. Steady
  <2> SUFFICES ASSUME NEW k \in Avatars(toClient) PROVE toClient[k].binding = mine
    BY DEF Steady
  <2>1. CASE k = 1
    BY <1>1, <2>1 DEF Avatars
  <2>2. CASE k # 1
    <3>1. k - 1 \in 1 .. Len(toClient) - 1 /\ toClient'[k - 1] = toClient[k]
      BY <1>1, <2>2 DEF Avatars
    <3>2. k - 1 \in Avatars(toClient')
      BY <1>1, <3>1 DEF Avatars
    <3> QED BY <3>1, <3>2 DEF Steady
  <2> QED BY <2>1, <2>2
<1>3. PICK from : Comes(Way, Way', from, {1})
  BY WayRead DEF Way
<1>4. /\ {1} \subseteq {1} /\ DOMAIN Way' \subseteq Nat
      /\ \A k \in DOMAIN Way : k \in Nat /\ k >= 1
      /\ Way[1] = Head(toClient)
  BY WayRead DEF Way
<1>5. Asks(Way) \cap {1} = {}
  BY <1>4 DEF Asks
<1>6. Follows(Way, pending, active, stored, cursor)
  BY <1>2 DEF Agreed
<1>7. Follows(Way', pending, active, stored, cursor)
  BY <1>3, <1>4, <1>6, FollowsComes
<1>8. Asks(Way') = {} => Asks(Way) = {}
  BY <1>3, <1>5, NoneLeft
<1> QED BY <1>2, <1>7, <1>8 DEF Agreed

LEMMA AgreedCleared == IInv /\ FlagsInv /\ Kept /\ Agreed /\ OnCleared => Agreed'
<1> SUFFICES ASSUME IInv, FlagsInv, Kept, Agreed, OnCleared PROVE Agreed'
  OBVIOUS
<1> SUFFICES ASSUME Gentle PROVE Agreed'
  BY DEF Agreed, Gentle, OnCleared
<1>1. /\ toClient # <<>> /\ toClient' = Tail(toClient) /\ Head(toClient).type = "cleared"
      /\ UNCHANGED <<troubles, toServer, stored, cursor, bound, mine>>
  BY DEF OnCleared, FromServer, serverVars
<1>2. retain # <<>> /\ Head(retain) = Head(toClient).keep
  BY <1>1, ClearedRead DEF FlagsInv, Channels, FlagsInStep
<1>3. 1 \in DOMAIN Way /\ Way[1] = Head(toClient)
  BY <1>1, WayRead
<1>4. 1 \in ClearsIn(Way)
  BY <1>1, <1>3 DEF ClearsIn
<1>5. Head(toClient).keep
  BY <1>3, <1>4 DEF Kept, AllKeep
<1>6. UNCHANGED <<pending, active>>
  BY <1>2, <1>5 DEF OnCleared
<1> QED BY <1>1, <1>6, AgreedRead

LEMMA WayParts ==
  ASSUME IInv, NEW k \in DOMAIN Way
  PROVE  \/ k \in DOMAIN toClient /\ Way[k] = toClient[k]
         \/ k - Len(toClient) \in DOMAIN toServer /\ Way[k] = toServer[k - Len(toClient)]
<1>1. /\ Len(toClient) \in Nat /\ Len(toServer) \in Nat
      /\ DOMAIN toClient = 1 .. Len(toClient) /\ DOMAIN toServer = 1 .. Len(toServer)
      /\ DOMAIN Way = 1 .. Len(toClient) + Len(toServer)
      /\ \A i \in 1 .. Len(toClient) : Way[i] = toClient[i]
      /\ \A i \in Len(toClient) + 1 .. Len(toClient) + Len(toServer) : Way[i] = toServer[i - Len(toClient)]
  BY OnTheWay DEF IInv, Channels, Way
<1>2. CASE k \in 1 .. Len(toClient)
  BY <1>1, <1>2
<1>3. CASE k \in Len(toClient) + 1 .. Len(toClient) + Len(toServer)
  <2>1. k - Len(toClient) \in 1 .. Len(toServer)
    BY <1>1, <1>3
  <2> QED BY <1>1, <1>3, <2>1
<1> QED BY <1>1, <1>2, <1>3

\* An answer is read: what the client asked for last stays pending or is shown, or
\* it came too late.
LEMMA AnswerKeeps ==
  ASSUME IInv, Viewed, Told, "away" \notin troubles, OnAckIgnored \/ OnAckActivates, ~SendClear(TRUE),
         NEW k, Last(Way, k), Way[k].snapshot \in pending \cup {active}
  PROVE  \/ Way[k].snapshot \in pending' \cup {active'}
         \/ stored = None /\ Frame(Way[k]) <= cursor
<1> DEFINE a == Head(toClient)
           q == Way[k].snapshot
<1>1. /\ toClient # <<>> /\ a.type = "ack" /\ 1 \in DOMAIN Way /\ Way[1] = a
      /\ \A i \in DOMAIN Way : i \in Nat /\ i >= 1
  <2>1. toClient # <<>> /\ a.type = "ack" /\ toClient' = Tail(toClient)
    BY DEF OnAckIgnored, OnAckActivates, FromServer
  <2> QED BY <2>1, WayRead
<1>2. 1 \in Asks(Way) /\ k \in Asks(Way) /\ \A i \in Asks(Way) : i \in Nat /\ 1 <= i /\ i <= k
  BY <1>1, MarksApart DEF Asks, Last
<1>3. /\ \A i \in Asks(Way) : Frame(Way[i]) \in Nat \ {0} /\ Frame(Way[i]) <= Frame(Way[k])
      /\ active # None => active.frame <= Frame(a)
  <2>1. Framed(Way, latest) /\ Above(Way, active)
    BY DEF Viewed, View
  <2>2. ASSUME NEW i \in Asks(Way) PROVE Frame(Way[i]) \in Nat \ {0} /\ Frame(Way[i]) <= Frame(Way[k])
    <3>1. i < k \/ i = k
      BY <1>2
    <3>2. Frame(Way[i]) \in Nat \ {0}
      BY <2>1 DEF Framed
    <3> QED BY <1>2, <2>1, <3>1, <3>2 DEF Framed
  <2> QED BY <1>1, <1>2, <2>1, <2>2 DEF Above
<1>4. Frame(Way[k]) = q.frame /\ Frame(a) = a.snapshot.frame
  BY DEF Frame
<1>5. pending # {} => q \in pending
  <2>1. ASSUME pending # {} PROVE q \in pending
    <3>1. PICK l : Last(Way, l) /\ Way[l].snapshot \in pending
      BY <2>1 DEF Viewed, View, Waiting
    <3>2. l = k
      BY <1>2, <3>1 DEF Last
    <3> QED BY <3>1, <3>2
  <2> QED BY <2>1
<1>6. \A x, y \in pending : x.frame = y.frame => x = y
  BY DEF Viewed, View, Waiting
<1> HIDE DEF q, a
<1>7. CASE pending = {}
  <2>1. Match(a) = {}
    BY <1>7 DEF Match
  <2>2. OnAckIgnored
    BY <2>1 DEF OnAckActivates, a
  <2>3. active' = active
    BY <2>2 DEF OnAckIgnored
  <2> QED BY <1>7, <2>3 DEF q
<1>8. CASE pending # {} /\ q \notin Match(a)
  <2>1. CASE OnAckIgnored
    BY <1>5, <1>8, <2>1 DEF OnAckIgnored, a, q
  <2>2. CASE OnAckActivates
    BY <1>5, <1>8, <2>2 DEF OnAckActivates, a, q
  <2> QED BY <2>1, <2>2
<1>9. CASE pending # {} /\ q \in Match(a)
  <2>1. q \in pending /\ q.frame = a.snapshot.frame /\ a.snapshot.binding = mine
    BY <1>9 DEF Match
  <2>2. CASE OnAckActivates
    <3>1. PICK p \in Match(a) : active' = p \/ SendClear(TRUE)
      BY <2>2 DEF OnAckActivates, a
    <3>2. p = q
      BY <1>6, <2>1 DEF Match
    <3> QED BY <3>1, <3>2 DEF q
  <2>3. CASE OnAckIgnored
    <3>1. ~a.accepted
      <4>1. active # None => ~Older(a.snapshot.frame, active.frame)
        <5> SUFFICES ASSUME active # None, a.snapshot.frame < active.frame PROVE FALSE
          BY DEF Older
        <5>1. active.frame \in Nat /\ Frame(a) \in Nat
          BY <1>1, <1>2, <1>3, ActiveKnown
        <5> QED BY <1>3, <1>4, <5>1
      <4> QED BY <1>9, <2>3, <4>1 DEF OnAckIgnored, a, Accepted
    <3>2. 1 \in Refusals(toClient) /\ toClient[1] = a
      <4>1. 1 \in DOMAIN toClient /\ toClient[1] = a
        BY <1>1, Received DEF IInv, Channels, a
      <4> QED BY <1>1, <3>1, <4>1 DEF Refusals
    <3>3. Knows(toClient, mine, 1, a.snapshot.binding)
      <4>1. \A l \in Avatars(toClient) : ~(l < 1)
        BY <1>1, Received DEF IInv, Channels, Avatars
      <4> QED BY <2>1, <4>1 DEF Knows
    <3>4. \/ stored = None /\ Frame(a) <= cursor
          \/ \E j \in Takes(toClient) : 1 < j /\ Frame(a) < Frame(toClient[j])
      BY <3>2, <3>3 DEF Told, RefusedWhy
    <3>5. ASSUME NEW j \in Takes(toClient) PROVE ~(Frame(a) < Frame(toClient[j]))
      <4>1. j \in Asks(Way) /\ Way[j] = toClient[j]
        BY AckFramed DEF Takes
      <4>2. Frame(Way[j]) <= Frame(Way[k]) /\ Frame(Way[j]) \in Nat /\ Frame(a) \in Nat
        BY <1>1, <1>2, <1>3, <4>1
      <4> QED BY <1>4, <2>1, <4>1, <4>2
    <3> QED BY <1>4, <2>1, <3>4, <3>5
  <2> QED BY <2>2, <2>3
<1> QED BY <1>7, <1>8, <1>9

\* The last answer is read: what is stored is shown.
\* The last answer is read.
LEMMA OnlyAnswer ==
  ASSUME IInv, toClient # <<>>, Head(toClient).type = "ack", toClient' = Tail(toClient), UNCHANGED toServer,
         Asks(Way') = {}
  PROVE  Last(Way, 1) /\ Way[1] = Head(toClient)
<1>1. PICK from : Comes(Way, Way', from, {1})
  BY WayRead DEF Way
<1>2. Way[1] = Head(toClient) /\ 1 \in Asks(Way)
  BY WayRead DEF Way, Asks
<1>3. ASSUME NEW k \in Asks(Way), k # 1 PROVE FALSE
  <2>1. PICK i \in Marks(Way') : from[i] = k
    BY <1>1, <1>3 DEF Comes, Marks
  <2>2. i \in ClearsIn(Way')
    BY DEF Marks
  <2>3. k \in ClearsIn(Way)
    BY <1>1, <2>1, <2>2 DEF Comes
  <2> QED BY <1>3, <2>3, MarksApart
<1> QED BY <1>2, <1>3 DEF Last

LEMMA LastAnswered ==
  ASSUME IInv, Viewed, Viewed', Told, "away" \notin troubles, OnAckIgnored \/ OnAckActivates, ~SendClear(TRUE),
         Asks(Way') = {}, stored # None, Head(toClient).snapshot \in pending \cup {active}
  PROVE  active' = stored
<1> DEFINE a == Head(toClient)
<1>1. /\ toClient # <<>> /\ a.type = "ack" /\ toClient' = Tail(toClient) /\ UNCHANGED toServer
  BY DEF OnAckIgnored, OnAckActivates, FromServer
<1>2. /\ Len(toClient) \in Nat /\ Len(toClient) >= 1 /\ DOMAIN toClient = 1 .. Len(toClient)
      /\ 1 \in DOMAIN toClient /\ toClient[1] = a
  BY <1>1, Received DEF IInv, Channels
<1>4. Way[1] = a /\ 1 \in Asks(Way)
  BY <1>1, WayRead DEF Way, Asks
<1>6. Last(Way, 1)
  BY <1>1, OnlyAnswer DEF a
<1> HIDE DEF a
<1>7. \A j \in Takes(toClient) \cup Refusals(toClient) : ~(1 < j)
  <2>1. \A j \in Takes(toClient) \cup Refusals(toClient) : j \in Asks(Way) /\ j \in Nat
    BY <1>2, AckFramed DEF Takes, Refusals
  <2> QED BY <1>6, <2>1 DEF Last
<1>8. a.snapshot \in pending' \cup {active'}
  BY <1>4, <1>6, AnswerKeeps DEF a
<1>9. pending' = {}
  BY DEF Viewed, View, Waiting, Last
<1>10. a.snapshot.binding = mine
  <2>1. pending \subseteq {p \in pending : p.binding = mine}
    BY DEF Viewed, View, Waiting
  <2>2. a.snapshot # None
    <3>1. Frame(a) # 0
      BY <1>4 DEF Viewed, View, Framed
    <3> QED BY <3>1 DEF Frame, None
  <2> QED BY <2>1, <2>2, ActiveKnown DEF a
<1>11. a.accepted
  <2> SUFFICES ASSUME ~a.accepted PROVE FALSE
    OBVIOUS
  <2>1. 1 \in Refusals(toClient)
    BY <1>1, <1>2 DEF Refusals, a
  <2>2. Knows(toClient, mine, 1, toClient[1].snapshot.binding)
    <3>1. \A l \in Avatars(toClient) : ~(l < 1)
      BY <1>2 DEF Avatars
    <3> QED BY <1>2, <1>10, <3>1 DEF Knows
  <2>3. PICK j \in Takes(toClient) : 1 < j
    BY <2>1, <2>2 DEF Told, RefusedWhy
  <2> QED BY <1>7, <2>3
<1>12. 1 \in Takes(toClient)
  BY <1>1, <1>2, <1>11 DEF Takes, a
<1>13. stored = a.snapshot
  BY <1>2, <1>7, <1>12 DEF Told, StoredTold
<1> QED BY <1>8, <1>9, <1>13

LEMMA AgreedAck ==
  ASSUME IInv, Viewed, Viewed', Alone, Told, Emptied, Agreed, OnAckIgnored \/ OnAckActivates, ~SendClear(TRUE)
  PROVE  Agreed'
<1> DEFINE a == Head(toClient)
<1>1. /\ toClient # <<>> /\ a.type = "ack" /\ toClient' = Tail(toClient)
      /\ UNCHANGED <<troubles, joined, toServer, stored, cursor, bound, mine>>
  BY DEF OnAckIgnored, OnAckActivates, FromServer, serverVars
<1> SUFFICES ASSUME Gentle, Steady'
             PROVE  /\ Follows(Way', pending', active', stored, cursor)
                    /\ Asks(Way') = {} /\ ClearsIn(toServer) = {} /\ stored # None /\ stored.binding = bound =>
                          active' = stored
  BY <1>1 DEF Agreed, Gentle
<1>2. /\ Len(toClient) \in Nat /\ Len(toClient) >= 1
      /\ DOMAIN toClient = 1 .. Len(toClient) /\ DOMAIN toClient' = 1 .. Len(toClient) - 1
      /\ \A k \in 1 .. Len(toClient) - 1 : toClient'[k] = toClient[k + 1]
      /\ a = toClient[1]
  BY <1>1, Received DEF IInv, Channels
<1>3. Steady
  <2> SUFFICES ASSUME NEW k \in Avatars(toClient) PROVE toClient[k].binding = mine
    BY DEF Steady
  <2>1. k # 1
    BY <1>1, <1>2 DEF Avatars
  <2>2. k - 1 \in 1 .. Len(toClient) - 1 /\ toClient'[k - 1] = toClient[k]
    BY <1>2, <2>1 DEF Avatars
  <2>3. k - 1 \in Avatars(toClient')
    BY <1>2, <2>2 DEF Avatars
  <2> QED BY <1>1, <2>2, <2>3 DEF Steady
<1>4. PICK from : Comes(Way, Way', from, {1})
  BY <1>1, WayRead DEF Way
<1>5. /\ {1} \subseteq {1} /\ DOMAIN Way' \subseteq Nat
      /\ \A k \in DOMAIN Way : k \in Nat /\ k >= 1
      /\ Way[1] = a /\ 1 \in Asks(Way)
  BY <1>1, WayRead DEF Way, Asks
<1>6. Follows(Way, pending, active, stored, cursor)
  BY <1>3 DEF Agreed
<1>7. "away" \notin troubles
  BY DEF Gentle
<1> HIDE DEF a
<1>8. Follows(Way', pending', active', stored, cursor)
  <2> SUFFICES ASSUME NEW i, Last(Way', i), ClearBefore(Way', i)
               PROVE  \/ Way'[i].snapshot \in pending' \cup {active'}
                      \/ stored = None /\ Frame(Way'[i]) <= cursor
    BY DEF Follows
  <2> DEFINE k == from[i]
  <2>1. Last(Way, k)
    BY <1>4, <1>5, LastGone
  <2>2. ClearBefore(Way', i) => ClearBefore(Way, k)
    BY <1>4, <1>5, LastGone
  <2>3. Way'[i].snapshot = Way[k].snapshot
    BY <1>4 DEF Last, Comes
  <2> HIDE DEF k
  <2>4. \/ Way[k].snapshot \in pending \cup {active}
        \/ stored = None /\ Frame(Way[k]) <= cursor
    BY <1>6, <2>1, <2>2 DEF Follows
  <2>5. \/ Way[k].snapshot \in pending' \cup {active'}
        \/ stored = None /\ Frame(Way[k]) <= cursor
    BY <1>7, <2>1, <2>4, AnswerKeeps
  <2> QED BY <2>3, <2>5 DEF Frame
<1>9. ASSUME Asks(Way') = {}, ClearsIn(toServer) = {}, stored # None, stored.binding = bound
      PROVE  active' = stored
  <2>2. Last(Way, 1)
    BY <1>1, <1>9, OnlyAnswer DEF a
  <2>3. \A j \in Takes(toClient) : j <= 1 /\ j \in Nat
    BY <1>2, <2>2, AckFramed DEF Takes, Last
  <2>4. ClearBefore(Way, 1)
    <3> SUFFICES ASSUME NEW c \in ClearsIn(Way) PROVE FALSE
      BY DEF ClearBefore
    <3>1. c \in DOMAIN Way /\ Way[c].type \in {"clear", "cleared"}
      BY DEF ClearsIn
    <3>2. CASE c \in DOMAIN toClient /\ Way[c] = toClient[c]
      <4>1. c \in ClearsIn(toClient)
        BY <3>1, <3>2 DEF ClearsIn
      <4>2. PICK j \in Takes(toClient) : c < j
        BY <1>9, <4>1 DEF Emptied
      <4>3. c < 1 /\ c >= 1 /\ c \in Nat
        BY <1>5, <2>3, <3>1, <4>2
      <4> QED BY <4>3
    <3>3. CASE \E x \in DOMAIN toServer : Way[c] = toServer[x]
      BY <1>9, <3>1, <3>3 DEF ClearsIn
    <3> QED BY <3>1, <3>2, <3>3, WayParts
  <2>5. a.snapshot \in pending \cup {active}
    BY <1>5, <1>6, <1>9, <2>2, <2>4 DEF Follows
  <2> QED BY <1>7, <1>9, <2>5, LastAnswered DEF a
<1> QED BY <1>8, <1>9

LEMMA SteadyBefore ==
  ASSUME IInv, NEW m, toClient' = Append(toClient, m), Steady', mine' = mine
  PROVE  Steady /\ (m.type = "avatar" => m.binding = mine)
<1>1. /\ Len(toClient) \in Nat
      /\ DOMAIN toClient = 1 .. Len(toClient) /\ DOMAIN toClient' = 1 .. Len(toClient) + 1
      /\ \A k \in 1 .. Len(toClient) : toClient'[k] = toClient[k]
      /\ toClient'[Len(toClient) + 1] = m
  BY Appended DEF IInv, Channels
<1>2. \A k \in Avatars(toClient) : k \in Avatars(toClient') /\ toClient'[k] = toClient[k]
  BY <1>1 DEF Avatars
<1>3. m.type = "avatar" => Len(toClient) + 1 \in Avatars(toClient')
  BY <1>1 DEF Avatars
<1> QED BY <1>1, <1>2, <1>3 DEF Steady

LEMMA AgreedOnInstall == IInv /\ Viewed /\ Agreed /\ OnInstall => Agreed'
<1> SUFFICES ASSUME IInv, Viewed, Agreed, OnInstall, Gentle, Steady'
             PROVE  /\ Follows(Way', pending, active, stored', cursor')
                    /\ Asks(Way') # {}
  BY DEF Agreed, Gentle, OnInstall, clientVars
<1> DEFINE s == Head(toServer).snapshot
           n == Len(toClient)
<1>1. IsSeq(toClient) /\ IsSeq(toServer) /\ Ordered(toServer, cursor, latest) /\ cursor \in Nat /\ latest \in Nat
  BY DEF IInv, Channels, InstallsInOrder
<1>2. toServer # <<>> /\ Head(toServer).type = "install" /\ UNCHANGED mine
  BY InstallRead DEF OnInstall, clientVars
<1>3. PICK ok \in BOOLEAN :
        /\ toClient' = Append(toClient, Ack(s, ok))
        /\ ok => ~Stale(s.frame)
        /\ ~ok => stored' = stored /\ cursor' = cursor
  BY DEF OnInstall
<1>4. s.frame \in Nat \ {0} /\ cursor <= s.frame
  BY <1>1, <1>2, OrderedRead DEF Frame
<1>5. Steady
  BY <1>2, <1>3, SteadyBefore
<1>6. n + 1 \in Asks(Way) /\ Way[n + 1] = Head(toServer)
  <2>1. /\ n \in Nat /\ Len(toServer) \in Nat /\ Len(toServer) >= 1
        /\ DOMAIN Way = 1 .. n + Len(toServer)
        /\ \A k \in n + 1 .. n + Len(toServer) : Way[k] = toServer[k - n]
        /\ Head(toServer) = toServer[1]
    BY <1>1, <1>2, OnTheWay, Received DEF Way
  <2>2. Way[n + 1] = toServer[1] /\ n + 1 \in DOMAIN Way
    BY <2>1
  <2> QED BY <1>2, <2>1, <2>2 DEF Asks
<1> DEFINE head == n + 1
<1> HIDE DEF head, s
<1>7. head \in Asks(Way) /\ Frame(Way[head]) = s.frame
  BY <1>6 DEF head, s, Frame
<1>8. PICK from : Comes(Way, Way', from, {})
  BY WayServer
<1>9. /\ {} \subseteq {1} /\ DOMAIN Way' \subseteq Nat
      /\ \A k \in DOMAIN Way : k \in Nat /\ k >= 1
      /\ Asks(Way) \cap {} = {}
  BY WayServer
<1>10. Asks(Way') # {}
  BY <1>7, <1>8, <1>9, NoneLeft
<1>11. Follows(Way', pending, active, stored', cursor')
  <2>1. Follows(Way, pending, active, stored, cursor)
    BY <1>5 DEF Agreed
  <2>2. CASE ~ok
    <3>1. Follows(Way', pending, active, stored, cursor)
      BY <1>8, <1>9, <2>1, FollowsComes
    <3> QED BY <1>3, <2>2, <3>1
  <2>3. CASE ok
    <3> SUFFICES ASSUME NEW i, Last(Way', i), ClearBefore(Way', i)
                 PROVE  Way'[i].snapshot \in pending \cup {active}
      BY DEF Follows
    <3> DEFINE k == from[i]
    <3>1. Last(Way, k)
      BY <1>8, <1>9, LastGone
    <3>2. ClearBefore(Way', i) => ClearBefore(Way, k)
      BY <1>8, <1>9, LastGone
    <3>3. Way'[i].snapshot = Way[k].snapshot
      BY <1>8 DEF Last, Comes
    <3> HIDE DEF k
    <3>4. ~(stored = None /\ Frame(Way[k]) <= cursor)
      <4> SUFFICES ASSUME stored = None, Frame(Way[k]) <= cursor PROVE FALSE
        OBVIOUS
      <4>1. head <= k /\ head \in Nat /\ k \in Nat /\ k \in Asks(Way)
        BY <1>7, <1>9, <3>1, MarksApart DEF Last
      <4>2. s.frame <= Frame(Way[k]) /\ Frame(Way[k]) \in Nat
        <5>1. head < k \/ head = k
          BY <4>1
        <5>2. Frame(Way[k]) \in Nat
          BY <4>1 DEF Viewed, View, Framed
        <5> QED BY <1>4, <1>7, <4>1, <5>1, <5>2 DEF Viewed, View, Framed
      <4>3. s.frame = cursor
        BY <1>1, <1>4, <4>2
      <4>4. Stale(s.frame)
        BY <1>4, <4>3 DEF Stale
      <4> QED BY <1>3, <2>3, <4>4
    <3> QED BY <2>1, <3>1, <3>2, <3>3, <3>4 DEF Follows
  <2> QED BY <2>2, <2>3
<1> QED BY <1>10, <1>11

LEMMA AgreedServer ==
  IInv /\ Alone /\ Told /\ Agreed /\ (OnClear \/ Expire \/ Rebind \/ UNCHANGED vars) => Agreed'
<1> SUFFICES ASSUME IInv, Alone, Told, Agreed, OnClear \/ Expire \/ Rebind \/ UNCHANGED vars, Gentle, Steady'
             PROVE  Agreed'
  BY TroublesStay DEF Agreed, Gentle, Next
<1>1. /\ UNCHANGED <<troubles, pending, active, mine, cursor>>
      /\ stored' \in {stored, None}
  BY DEF OnClear, Expire, Rebind, vars, clientVars, serverVars
<1>2. Steady
  <2>1. CASE Expire \/ UNCHANGED vars
    BY <1>1, <2>1 DEF Expire, vars, Steady
  <2>2. CASE OnClear \/ Rebind
    <3>1. \E m : toClient' = Append(toClient, m)
      BY <2>2 DEF OnClear, Rebind
    <3> QED BY <1>1, <3>1, SteadyBefore
  <2> QED BY <2>1, <2>2
<1>3. PICK from : Comes(Way, Way', from, {})
  BY WayServer
<1>4. /\ {} \subseteq {1} /\ DOMAIN Way' \subseteq Nat
      /\ \A k \in DOMAIN Way : k \in Nat /\ k >= 1
      /\ Asks(Way) \cap {} = {}
  BY WayServer
<1>5. Follows(Way, pending, active, stored, cursor)
  BY <1>2 DEF Agreed
<1>6. Follows(Way', pending, active, stored, cursor)
  BY <1>3, <1>4, <1>5, FollowsComes
<1>7. Follows(Way', pending', active', stored', cursor')
  BY <1>1, <1>6 DEF Follows
<1>8. ASSUME Asks(Way') = {}, ClearsIn(toServer') = {}, stored' # None, stored'.binding = bound'
      PROVE  active' = stored'
  <2>1. Asks(Way) = {}
    BY <1>3, <1>4, <1>8, NoneLeft
  <2>2. stored' = stored
    BY <1>1, <1>8
  <2>3. bound' = bound /\ UNCHANGED toServer
    <3>1. CASE OnClear \/ Expire
      BY <1>8, <3>1 DEF OnClear, Expire
    <3>2. CASE UNCHANGED vars
      BY <3>2 DEF vars, serverVars
    <3>3. CASE Rebind
      <4> DEFINE m == AvatarState(bound')
      <4>1. m.type = "avatar" /\ m.binding = bound'
        BY DEF AvatarState
      <4>2. toClient' = Append(toClient, m) /\ joined /\ UNCHANGED toServer
        BY <3>3 DEF Rebind
      <4> HIDE DEF m
      <4>3. bound' = mine
        BY <1>1, <4>1, <4>2, SteadyBefore
      <4>4. Knows(toClient, mine, Len(toClient) + 1, bound)
        BY <4>2 DEF Told, BindingKnown
      <4>5. bound = mine
        BY <1>2, <4>4 DEF Knows, Steady
      <4> QED BY <4>2, <4>3, <4>5
    <3> QED BY <3>1, <3>2, <3>3
  <2> QED BY <1>1, <1>2, <1>8, <2>1, <2>2, <2>3 DEF Agreed
<1> QED BY <1>7, <1>8 DEF Agreed

LEMMA AgreedAvatar ==
  ASSUME IInv, Viewed, Alone, Cloud, Agreed, OnAvatarState, usable
  PROVE  Agreed'
<1>1. CASE mine' # mine
  BY <1>1, AvatarAwaits, AgreedAwaited
<1>2. CASE mine' = mine
  <2>1. /\ toClient # <<>> /\ toClient' = Tail(toClient) /\ Head(toClient).type = "avatar"
        /\ UNCHANGED <<troubles, stored, cursor, bound>>
    BY DEF OnAvatarState, FromServer, serverVars
  <2>2. Head(toClient).binding = mine /\ UNCHANGED <<pending, active, mine, toServer>>
    BY <1>2 DEF OnAvatarState
  <2> QED BY <2>1, <2>2, AgreedRead
<1> QED BY <1>1, <1>2

LEMMA AgreedStep ==
  /\ IInv /\ FlagsInv /\ Viewed /\ Alone /\ Unusable /\ Told /\ Emptied /\ Kept /\ Cloud /\ Agreed
  /\ IInv' /\ Viewed' /\ Unusable'
  /\ [Next]_vars
  => Agreed'
<1> SUFFICES ASSUME IInv, FlagsInv, Viewed, Alone, Unusable, Told, Emptied, Kept, Cloud, Agreed,
                    IInv', Viewed', Unusable', [Next]_vars, Gentle
             PROVE  Agreed'
  BY TroublesStay DEF Agreed, Gentle
<1>1. IsSeq(toServer) /\ IsSeq(toClient)
  BY DEF IInv, Channels
<1>2. CASE ~usable'
  <2>1. Hushed(Way') /\ (stored' = None \/ ClearsIn(toServer') # {})
    BY <1>2 DEF Unusable
  <2> QED BY <2>1, AgreedHushed
<1>3. CASE Leave
  <2>1. toServer' = <<>> /\ toClient' = <<>> /\ stored' = None
    BY <1>3 DEF Leave
  <2> QED BY <2>1, NothingUnderWay, AgreedHushed DEF Hushed, Way
<1>4. CASE Join /\ usable'
  <2>1. usable /\ latest # 0
    BY <1>4 DEF Join, Cloud
  <2> QED BY <1>4, <2>1, JoinAwaits, AgreedAwaited
<1>5. CASE Receive /\ usable'
  <2>1. PICK f \in Frames : f > latest /\ (ReceiveEmpty(f) \/ ReceiveUsable(f))
    BY <1>5 DEF Receive
  <2>2. ReceiveUsable(f) /\ UNCHANGED <<toClient, mine, stored>>
    BY <1>5, <2>1 DEF ReceiveEmpty, Receive, serverVars
  <2>3. CASE joined
    BY <2>1, <2>2, <2>3, ReceiveAwaits, AgreedAwaited
  <2>4. CASE ~joined
    <3>1. toServer' = <<>> /\ toClient' = <<>> /\ stored' = None
      BY <2>2, <2>4 DEF ReceiveUsable, Alone, Apart
    <3> QED BY <3>1, NothingUnderWay, AgreedHushed DEF Hushed, Way
  <2> QED BY <2>3, <2>4
<1>6. CASE Reinstall /\ usable'
  <2>1. usable /\ latest # 0
    BY <1>6 DEF Reinstall, Cloud
  <2> QED BY <1>6, <2>1, ReinstallAwaits, AgreedAwaited
<1>7. ~Clear /\ ~ChangeWorld
  BY DEF Clear, ChangeWorld, Gentle
<1>8. ~OnWorldChanged
  <2> SUFFICES ASSUME OnWorldChanged PROVE FALSE
    OBVIOUS
  <2>1. toClient # <<>> /\ Head(toClient).type = "world"
    BY DEF OnWorldChanged, FromServer
  <2>2. 1 \in DOMAIN toClient /\ Head(toClient) = toClient[1]
    BY <1>1, <2>1, Received
  <2> QED BY <2>1, <2>2 DEF Kept
<1>9. CASE OnCleared
  BY <1>9, AgreedCleared
<1>10. CASE OnAckIgnored \/ OnAckActivates
  <2>1. CASE SendClear(TRUE)
    <3>1. UNCHANGED toClient \/ toClient' = Tail(toClient)
      BY <1>10 DEF OnAckIgnored, OnAckActivates, FromServer
    <3>2. IsSeq(toClient')
      BY DEF IInv, Channels
    <3>3. Hushed(Way') /\ ClearsIn(toServer') # {}
      BY <2>1, <3>2, ClearHushes
    <3> QED BY <3>3, AgreedHushed
  <2>2. CASE ~SendClear(TRUE)
    BY <1>10, <2>2, AgreedAck
  <2> QED BY <2>1, <2>2
<1>11. CASE OnAvatarState /\ usable'
  <2>1. usable
    BY <1>11 DEF OnAvatarState
  <2> QED BY <1>11, <2>1, AgreedAvatar
<1>12. CASE OnInstall
  BY <1>12, AgreedOnInstall
<1>13. CASE OnClear \/ Expire \/ Rebind \/ UNCHANGED vars
  BY <1>13, AgreedServer
<1> QED BY <1>2, <1>3, <1>4, <1>5, <1>6, <1>7, <1>8, <1>9, <1>10, <1>11, <1>12, <1>13 DEF Next

\* All that is known of the two sides.
Both == IInv /\ FlagsInv /\ Viewed /\ Alone /\ Unusable /\ Told /\ Emptied /\ Kept /\ Cloud /\ Agreed

LEMMA InitBoth == Init => Both
<1> SUFFICES ASSUME Init PROVE Both
  OBVIOUS
<1>1. /\ toServer = <<>> /\ toClient = <<>> /\ retain = <<>> /\ stored = None /\ ~joined
      /\ latest = 0 /\ ~usable /\ pending = {} /\ active = None
  BY DEF Init
<1>2. IInv
  BY InitIInv
<1>3. FlagsInv /\ Alone
  BY <1>1, NoFlags, Empty DEF FlagsInv, Channels, Apart, FlagsInStep, Alone
<1>4. Viewed
  BY <1>1, ViewNothing DEF Viewed, Way
<1>5. Unusable /\ Kept /\ Cloud /\ Emptied
  BY <1>1, NothingUnderWay, Empty DEF Unusable, Hushed, Way, Kept, AllKeep, Cloud, Emptied, ClearsIn
<1>6. Told
  BY <1>1, Empty DEF Told, BindingKnown, StoredTold, RefusedWhy, Takes, Refusals
<1>7. Agreed
  BY <1>1, NothingUnderWay DEF Agreed, Follows, Last, Way
<1> QED BY <1>2, <1>3, <1>4, <1>5, <1>6, <1>7 DEF Both

LEMMA StepBoth == Both /\ [Next]_vars => Both'
<1> SUFFICES ASSUME Both, [Next]_vars PROVE Both'
  OBVIOUS
<1>1. IInv /\ FlagsInv /\ Viewed /\ Alone /\ Unusable /\ Told /\ Emptied /\ Kept /\ Cloud /\ Agreed
  BY DEF Both
<1>2. IInv'
  BY <1>1, StepIInv
<1>3. FlagsInv'
  BY <1>1, <1>2, ApartStep, FlagsStep DEF FlagsInv, IInv
<1>4. Viewed' /\ Alone' /\ Unusable' /\ Told' /\ Emptied' /\ Kept' /\ Cloud'
  BY <1>1, ViewStep, AloneStep, UnusableStep, ToldStep, EmptiedStep, KeptStep, CloudStep
<1>5. Agreed'
  BY <1>1, <1>2, <1>4, AgreedStep
<1> QED BY <1>2, <1>3, <1>4, <1>5 DEF Both

LEMMA BothHold == Spec => []Both
BY InitBoth, StepBoth, PTL DEF Spec

\* When all payloads have been read, what can be hit is what is shown, where no
\* clear of the player and no change of dimension crosses an install and the target
\* stays within reach: for any number of frames, lost trackings, failed uploads,
\* expiries and bindings.
THEOREM HitsFollowThePicture == Spec => []CalmHitboxesAreShown
<1>1. Both => CalmHitboxesAreShown
  <2> SUFFICES ASSUME Both, Gentle, Quiet, Interactive PROVE active = stored
    BY DEF CalmHitboxesAreShown, HitboxesAreShown, Gentle
  <2>1. toServer = <<>> /\ toClient = <<>> /\ stored # None /\ stored.binding = bound
    BY DEF Quiet, Interactive
  <2>2. Asks(Way) = {} /\ ClearsIn(toServer) = {} /\ Steady
    BY <2>1, Empty, NothingUnderWay DEF Way, ClearsIn, Steady, Avatars
  <2> QED BY <2>1, <2>2 DEF Both, Agreed
<1> QED BY <1>1, BothHold, PTL

-----------------------------------------------------------------------------
(* What is shown as active, where nothing expires, every upload succeeds and *)
(* the target stays within reach.                                            *)

Plain == troubles \cap {"live", "upload", "away"} = {}

\* The bindings under way are ever newer; one that is no newer than what the client
\* knows is the first thing it reads, and it shows nothing yet.
Known == [target : {"self", "separate"}, generation : Nat, revision : Nat]

BindingsKnown ==
    /\ bound \in Known /\ mine \in Known
    /\ \A i \in Avatars(toClient) : toClient[i].binding \in Known

Rising ==
    \A i, j \in Avatars(toClient) :
        /\ toClient[i].binding.generation <= bound.generation
        /\ i < j => toClient[i].binding.generation < toClient[j].binding.generation

NewsFirst ==
    (\E i \in Avatars(toClient) : toClient[i].binding.generation <= mine.generation) =>
        Head(toClient).type = "avatar" /\ active = None

News == BindingsKnown /\ Rising /\ NewsFirst

LEMMA NewsOtherSent ==
  ASSUME IInv, News, NEW m, toClient' = Append(toClient, m), m.type # "avatar",
         UNCHANGED <<bound, mine, active>>
  PROVE  News'
<1>1. /\ Len(toClient) \in Nat /\ IsSeq(toClient')
      /\ DOMAIN toClient = 1 .. Len(toClient) /\ DOMAIN toClient' = 1 .. Len(toClient) + 1
      /\ \A k \in 1 .. Len(toClient) : toClient'[k] = toClient[k]
      /\ toClient'[Len(toClient) + 1] = m
  BY Appended DEF IInv, Channels
<1>2. /\ Avatars(toClient') = Avatars(toClient)
      /\ \A k \in Avatars(toClient) : toClient'[k] = toClient[k]
  BY <1>1 DEF Avatars
<1>3. Avatars(toClient) # {} => Head(toClient') = Head(toClient)
  <2> SUFFICES ASSUME Avatars(toClient) # {} PROVE Head(toClient') = Head(toClient)
    OBVIOUS
  <2>1. toClient # <<>> /\ toClient' # <<>>
    BY <1>1, Empty DEF Avatars
  <2>2. Head(toClient) = toClient[1] /\ Head(toClient') = toClient'[1] /\ 1 \in 1 .. Len(toClient)
    BY <1>1, <2>1, Received DEF IInv, Channels
  <2> QED BY <1>1, <2>2
<1> QED BY <1>2, <1>3 DEF News, BindingsKnown, Rising, NewsFirst

LEMMA NewsRead ==
  ASSUME IInv, News, toClient # <<>>, toClient' = Tail(toClient), bound' = bound,
         Head(toClient).type = "avatar" => mine' = Head(toClient).binding,
         Head(toClient).type # "avatar" => mine' = mine
  PROVE  News'
<1>1. /\ Len(toClient) \in Nat /\ Len(toClient) >= 1
      /\ DOMAIN toClient = 1 .. Len(toClient) /\ DOMAIN toClient' = 1 .. Len(toClient) - 1
      /\ \A k \in 1 .. Len(toClient) - 1 : toClient'[k] = toClient[k + 1]
      /\ Head(toClient) = toClient[1]
  BY Received DEF IInv, Channels
<1>2. \A k \in Avatars(toClient') : /\ k \in Nat /\ k + 1 \in Avatars(toClient) /\ 1 < k + 1
                                    /\ toClient'[k] = toClient[k + 1]
  BY <1>1 DEF Avatars
<1>3. Head(toClient).type = "avatar" => 1 \in Avatars(toClient) /\ toClient[1] = Head(toClient)
  BY <1>1 DEF Avatars
<1>4. BindingsKnown'
  BY <1>2, <1>3 DEF News, BindingsKnown
<1>5. Rising'
  <2> SUFFICES ASSUME NEW i \in Avatars(toClient'), NEW j \in Avatars(toClient')
               PROVE  /\ toClient'[i].binding.generation <= bound.generation
                      /\ i < j => toClient'[i].binding.generation < toClient'[j].binding.generation
    BY DEF Rising
  <2>1. i < j => i + 1 < j + 1
    BY <1>2
  <2> QED BY <1>2, <2>1 DEF News, Rising
<1>6. NewsFirst'
  <2> SUFFICES ASSUME NEW i \in Avatars(toClient'),
                      toClient'[i].binding.generation <= mine'.generation
               PROVE  FALSE
    BY DEF NewsFirst
  <2>1. i + 1 \in Avatars(toClient) /\ 1 < i + 1 /\ toClient'[i] = toClient[i + 1]
    BY <1>2
  <2>2. CASE Head(toClient).type = "avatar"
    <3>1. mine'.generation < toClient[i + 1].binding.generation
      BY <1>3, <2>1, <2>2 DEF News, Rising
    <3> DEFINE g == toClient[i + 1].binding.generation
               h == mine'.generation
    <3>2. h \in Nat /\ g \in Nat
      BY <1>4, <2>1 DEF News, BindingsKnown, Known
    <3>3. g <= h /\ h < g
      BY <2>1, <3>1
    <3> HIDE DEF g, h
    <3> QED BY <3>2, <3>3
  <2>3. CASE Head(toClient).type # "avatar"
    BY <2>1, <2>3 DEF News, NewsFirst
  <2> QED BY <2>2, <2>3
<1> QED BY <1>4, <1>5, <1>6 DEF News

LEMMA NewsRebound == IInv /\ Told /\ News /\ Rebind => News'
<1> SUFFICES ASSUME IInv, Told, News, Rebind PROVE News'
  OBVIOUS
<1> DEFINE m == AvatarState(bound')
           n == Len(toClient)
<1>1. /\ joined /\ bound' \in NextBindings /\ UNCHANGED <<mine, active>>
      /\ toClient' = Append(toClient, m) /\ m.type = "avatar" /\ m.binding = bound'
  BY DEF Rebind, clientVars, AvatarState
<1> HIDE DEF m
<1>2. /\ n \in Nat /\ IsSeq(toClient')
      /\ DOMAIN toClient = 1..n /\ DOMAIN toClient' = 1 .. n + 1
      /\ \A k \in 1..n : toClient'[k] = toClient[k]
      /\ toClient'[n + 1] = m
  BY <1>1, Appended DEF IInv, Channels
<1>3. bound' \in Known /\ bound'.generation = bound.generation + 1 /\ bound.generation \in Nat
  <2>1. bound \in Known
    BY DEF News, BindingsKnown
  <2>2. /\ bound = [target |-> bound.target, generation |-> bound.generation, revision |-> bound.revision]
        /\ bound.target \in {"self", "separate"} /\ bound.generation \in Nat /\ bound.revision \in Nat
    BY <2>1 DEF Known
  <2> DEFINE g == bound.generation
             r == bound.revision
             old == bound.target
  <2>3. CASE \E t \in {"self", "separate"} : bound' = [bound EXCEPT !.generation = @ + 1, !.target = t]
    <3>1. PICK t \in {"self", "separate"} : bound' = [bound EXCEPT !.generation = @ + 1, !.target = t]
      BY <2>3
    <3>2. bound' = [target |-> t, generation |-> g + 1, revision |-> r]
      BY <2>2, <3>1
    <3>3. bound'.generation = g + 1 /\ bound' \in Known
      BY <2>2, <3>2 DEF Known
    <3> QED BY <2>2, <3>3
  <2>4. CASE bound' = [bound EXCEPT !.generation = @ + 1, !.revision = @ + 1]
    <3>1. bound' = [target |-> old, generation |-> g + 1, revision |-> r + 1]
      BY <2>2, <2>4
    <3>2. bound'.generation = g + 1 /\ bound' \in Known
      BY <2>2, <3>1 DEF Known
    <3> QED BY <2>2, <3>2
  <2> QED BY <1>1, <2>3, <2>4 DEF NextBindings
<1> HIDE DEF n
<1>4. /\ Avatars(toClient') = Avatars(toClient) \cup {n + 1}
      /\ \A k \in Avatars(toClient) : toClient'[k] = toClient[k] /\ k \in Nat /\ k < n + 1
  <2>1. \A k \in DOMAIN toClient' : k \in 1..n \/ k = n + 1
    BY <1>2
  <2>2. \A k \in Avatars(toClient) : toClient'[k] = toClient[k] /\ k \in Nat /\ k < n + 1 /\ k \in DOMAIN toClient'
    BY <1>2 DEF Avatars
  <2> QED BY <1>1, <1>2, <2>1, <2>2 DEF Avatars
<1>5. BindingsKnown'
  BY <1>1, <1>2, <1>3, <1>4 DEF News, BindingsKnown
<1>6. \A k \in Avatars(toClient) : /\ toClient[k].binding.generation \in Nat
                                   /\ toClient[k].binding.generation < bound'.generation
  BY <1>3 DEF News, BindingsKnown, Rising, Known
<1>7. Rising'
  <2> SUFFICES ASSUME NEW i \in Avatars(toClient'), NEW j \in Avatars(toClient')
               PROVE  /\ toClient'[i].binding.generation <= bound'.generation
                      /\ i < j => toClient'[i].binding.generation < toClient'[j].binding.generation
    BY DEF Rising
  <2>1. CASE i = n + 1
    <3>1. ~(i < j)
      BY <1>2, <1>4, <2>1
    <3>2. toClient'[i].binding.generation = bound'.generation
      BY <1>1, <1>2, <2>1
    <3> QED BY <1>3, <3>1, <3>2
  <2>2. CASE i \in Avatars(toClient)
    <3>1. toClient'[i].binding.generation <= bound'.generation
      BY <1>3, <1>4, <1>6, <2>2
    <3>2. CASE j = n + 1
      BY <1>1, <1>2, <1>4, <1>6, <2>2, <3>1, <3>2
    <3>3. CASE j \in Avatars(toClient)
      BY <1>4, <2>2, <3>1, <3>3 DEF News, Rising
    <3> QED BY <1>4, <3>2, <3>3
  <2> QED BY <1>4, <2>1, <2>2
<1>8. NewsFirst'
  <2> SUFFICES ASSUME NEW i \in Avatars(toClient'),
                      toClient'[i].binding.generation <= mine.generation
               PROVE  Head(toClient').type = "avatar" /\ active = None
    BY <1>1 DEF NewsFirst
  <2>1. mine.generation \in Nat
    BY DEF News, BindingsKnown, Known
  <2>2. PICK k \in Avatars(toClient) : toClient[k].binding.generation <= mine.generation
    <3>1. CASE i \in Avatars(toClient)
      BY <1>4, <3>1
    <3>2. CASE i = n + 1
      <4>1. bound'.generation <= mine.generation
        BY <1>1, <1>2, <3>2
      <4>2. bound # mine
        BY <1>3, <2>1, <4>1
      <4>3. Knows(toClient, mine, n + 1, bound)
        BY <1>1 DEF Told, BindingKnown, n
      <4>4. PICK k \in Avatars(toClient) : toClient[k].binding = bound
        BY <4>2, <4>3 DEF Knows
      <4>5. toClient[k].binding.generation <= mine.generation
        BY <1>3, <2>1, <4>1, <4>4
      <4> QED BY <4>5
    <3> QED BY <1>4, <3>1, <3>2
  <2>3. Head(toClient).type = "avatar" /\ active = None
    BY <2>2 DEF News, NewsFirst
  <2>4. Head(toClient') = Head(toClient)
    <3>1. toClient # <<>> /\ toClient' # <<>>
      BY <1>2, <2>2, Empty DEF Avatars, n
    <3>2. Head(toClient) = toClient[1] /\ Head(toClient') = toClient'[1] /\ 1 \in 1..n
      BY <1>2, <3>1, Received DEF IInv, Channels, n
    <3> QED BY <1>2, <3>2
  <2> QED BY <2>3, <2>4
<1> QED BY <1>5, <1>7, <1>8 DEF News

LEMMA NewsJoined == Alone /\ News /\ Join => News'
<1> SUFFICES ASSUME Alone, News, Join PROVE News'
  OBVIOUS
<1> DEFINE m == AvatarState(bound)
           ch == Append(<<>>, m)
<1>1. /\ toClient' = ch /\ UNCHANGED <<bound, mine>> /\ active' = None
      /\ m.type = "avatar" /\ m.binding = bound
  BY DEF Join, serverVars, Alone, Apart, AvatarState
<1> HIDE DEF m
<1>2. /\ DOMAIN ch = 1 .. Len(<<>>) + 1 /\ ch[Len(<<>>) + 1] = m /\ IsSeq(ch)
      /\ IsSeq(<<>>) /\ Len(<<>>) = 0
  BY Empty, Appended
<1>3. ch # <<>>
  BY <1>2, Empty
<1>4. Head(ch) = m
  <2>1. Head(ch) = ch[1]
    BY <1>2, <1>3, Received
  <2> QED BY <1>2, <2>1
<1> HIDE DEF ch
<1>5. \A k \in Avatars(ch) : k = 1 /\ ch[k] = m
  BY <1>2 DEF Avatars
<1>6. bound \in Known /\ bound.generation \in Nat
  BY DEF News, BindingsKnown, Known
<1> QED BY <1>1, <1>4, <1>5, <1>6 DEF News, BindingsKnown, Rising, NewsFirst

LEMMA NewsStep == IInv /\ Alone /\ Told /\ News /\ [Next]_vars => News'
<1> SUFFICES ASSUME IInv, Alone, Told, News, [Next]_vars PROVE News'
  OBVIOUS
<1>1. CASE Join
  BY <1>1, NewsJoined
<1>2. CASE Leave
  <2>1. /\ toClient' = <<>> /\ bound' = SelfBinding /\ mine' = mine
    BY <1>2 DEF Leave
  <2>2. Avatars(toClient') = {}
    BY <2>1, Empty DEF Avatars
  <2>3. SelfBinding \in Known
    BY DEF SelfBinding, Known
  <2> QED BY <2>1, <2>2, <2>3 DEF News, BindingsKnown, Rising, NewsFirst
<1>3. CASE Receive \/ Reinstall \/ Clear \/ Expire \/ UNCHANGED vars
  <2>1. CASE Receive
    <3>1. PICK f \in Frames : ReceiveEmpty(f) \/ ReceiveUsable(f)
      BY <2>1 DEF Receive
    <3> QED BY <2>1, <3>1 DEF Receive, ReceiveEmpty, ReceiveUsable, serverVars, News, BindingsKnown, Rising, NewsFirst
  <2>2. CASE Reinstall \/ Clear \/ Expire \/ UNCHANGED vars
    <3>1. UNCHANGED <<toClient, bound, mine, active>>
      BY <2>2 DEF Reinstall, Clear, Expire, vars, clientVars, serverVars
    <3> QED BY <3>1 DEF News, BindingsKnown, Rising, NewsFirst
  <2> QED BY <1>3, <2>1, <2>2
<1>4. CASE OnWorldChanged \/ OnCleared \/ OnAckIgnored \/ OnAckActivates
  <2>1. /\ toClient # <<>> /\ toClient' = Tail(toClient) /\ Head(toClient).type # "avatar"
        /\ UNCHANGED <<bound, mine>>
    BY <1>4 DEF OnWorldChanged, OnCleared, OnAckIgnored, OnAckActivates, FromServer, serverVars
  <2> QED BY <2>1, NewsRead
<1>5. CASE OnAvatarState
  <2>1. /\ toClient # <<>> /\ toClient' = Tail(toClient) /\ Head(toClient).type = "avatar"
        /\ UNCHANGED bound /\ mine' = Head(toClient).binding
    BY <1>5 DEF OnAvatarState, FromServer, serverVars
  <2> QED BY <2>1, NewsRead
<1>6. CASE OnInstall \/ OnClear \/ ChangeWorld
  <2>1. PICK m : m.type \in {"ack", "cleared", "world"} /\ toClient' = Append(toClient, m)
    BY <1>6, Kinds, InstallRead DEF OnClear, ChangeWorld
  <2>2. UNCHANGED <<bound, mine, active>>
    BY <1>6 DEF OnInstall, OnClear, ChangeWorld, clientVars
  <2> QED BY <2>1, <2>2, NewsOtherSent
<1>7. CASE Rebind
  BY <1>7, NewsRebound
<1> QED BY <1>1, <1>2, <1>3, <1>4, <1>5, <1>6, <1>7 DEF Next

\* What was accepted is stored until the client is told otherwise.
StillStored ==
    Plain =>
        \A i \in Takes(toClient) :
            \/ stored # None
            \/ \E j \in DOMAIN toClient : i < j /\ toClient[j].type \in {"cleared", "world"}

LEMMA StillStoredSent ==
  ASSUME IInv, StillStored, NEW m, toClient' = Append(toClient, m), troubles' = troubles,
         \/ stored' # None
         \/ stored' = stored /\ ~(m.type = "ack" /\ m.accepted)
         \/ m.type \in {"cleared", "world"}
  PROVE  StillStored'
<1>1. /\ Len(toClient) \in Nat
      /\ DOMAIN toClient = 1 .. Len(toClient) /\ DOMAIN toClient' = 1 .. Len(toClient) + 1
      /\ \A k \in 1 .. Len(toClient) : toClient'[k] = toClient[k]
      /\ toClient'[Len(toClient) + 1] = m
  BY Appended DEF IInv, Channels
<1> SUFFICES ASSUME Plain, NEW i \in Takes(toClient'), stored' = None
             PROVE  \E j \in DOMAIN toClient' : i < j /\ toClient'[j].type \in {"cleared", "world"}
  BY DEF StillStored, Plain
<1>2. ~(m.type = "ack" /\ m.accepted)
  BY DEF Ack
<1>3. i \in Takes(toClient) /\ i \in 1 .. Len(toClient)
  BY <1>1, <1>2 DEF Takes
<1>4. CASE stored' = stored
  <2>1. PICK j \in DOMAIN toClient : i < j /\ toClient[j].type \in {"cleared", "world"}
    BY <1>3, <1>4 DEF StillStored
  <2> QED BY <1>1, <2>1
<1>5. CASE m.type \in {"cleared", "world"}
  BY <1>1, <1>3, <1>5
<1> QED BY <1>4, <1>5

LEMMA StillStoredRead ==
  ASSUME IInv, StillStored, toClient # <<>>, toClient' = Tail(toClient), UNCHANGED <<troubles, stored>>
  PROVE  StillStored'
<1>1. /\ Len(toClient) \in Nat /\ Len(toClient) >= 1
      /\ DOMAIN toClient = 1 .. Len(toClient) /\ DOMAIN toClient' = 1 .. Len(toClient) - 1
      /\ \A k \in 1 .. Len(toClient) - 1 : toClient'[k] = toClient[k + 1]
  BY Received DEF IInv, Channels
<1> SUFFICES ASSUME Plain, NEW i \in Takes(toClient'), stored = None
             PROVE  \E j \in DOMAIN toClient' : i < j /\ toClient'[j].type \in {"cleared", "world"}
  BY DEF StillStored, Plain
<1>2. i \in 1 .. Len(toClient) - 1 /\ i + 1 \in Takes(toClient)
  BY <1>1 DEF Takes
<1>3. PICK j \in DOMAIN toClient : i + 1 < j /\ toClient[j].type \in {"cleared", "world"}
  BY <1>2 DEF StillStored
<1>4. j - 1 \in 1 .. Len(toClient) - 1 /\ i < j - 1 /\ toClient'[j - 1] = toClient[j]
  BY <1>1, <1>2, <1>3
<1> QED BY <1>1, <1>3, <1>4

LEMMA StillStoredStep == IInv /\ Alone /\ StillStored /\ [Next]_vars => StillStored'
<1> SUFFICES ASSUME IInv, Alone, StillStored, [Next]_vars PROVE StillStored'
  OBVIOUS
<1>1. UNCHANGED troubles
  BY TroublesStay
<1>2. CASE Leave
  BY <1>2, Empty DEF Leave, StillStored, Takes
<1>3. CASE Join
  <2> DEFINE m == AvatarState(bound)
  <2>1. toClient' = Append(toClient, m) /\ stored' = stored
    BY <1>3 DEF Join, Alone, Apart, serverVars
  <2>2. m.type # "ack"
    BY Kinds
  <2> HIDE DEF m
  <2> QED BY <1>1, <2>1, <2>2, StillStoredSent
<1>4. CASE Receive \/ Reinstall \/ Clear \/ UNCHANGED vars
  <2>1. UNCHANGED <<toClient, stored>>
    BY <1>4 DEF Receive, Reinstall, Clear, vars, serverVars
  <2> QED BY <1>1, <2>1 DEF StillStored, Plain
<1>5. CASE Expire
  BY <1>1, <1>5 DEF Expire, StillStored, Plain
<1>6. CASE OnWorldChanged \/ OnCleared \/ OnAckIgnored \/ OnAckActivates \/ OnAvatarState
  <2>1. toClient # <<>> /\ toClient' = Tail(toClient) /\ stored' = stored
    BY <1>6 DEF OnWorldChanged, OnCleared, OnAckIgnored, OnAckActivates, OnAvatarState, FromServer,
                serverVars
  <2> QED BY <1>1, <2>1, StillStoredRead
<1>7. CASE OnInstall
  <2> DEFINE s == Head(toServer).snapshot
  <2>1. PICK ok \in BOOLEAN : /\ toClient' = Append(toClient, Ack(s, ok))
                              /\ ok => stored' = s
                              /\ ~ok => stored' = stored
    BY <1>7 DEF OnInstall
  <2> DEFINE m == Ack(s, ok)
  <2>2. m.accepted = ok
    BY DEF Ack
  <2>3. ok => stored' # None
    <3>1. toServer # <<>> /\ Head(toServer).type = "install"
      BY <1>7, InstallRead
    <3>2. s.frame # 0
      BY <3>1, OrderedRead DEF IInv, Channels, InstallsInOrder, Frame
    <3> QED BY <2>1, <3>2 DEF None
  <2> HIDE DEF m
  <2>4. toClient' = Append(toClient, m)
    BY <2>1 DEF m
  <2> QED BY <1>1, <2>1, <2>2, <2>3, <2>4, StillStoredSent
<1>8. CASE OnClear \/ ChangeWorld
  <2>1. PICK m : m.type \in {"cleared", "world"} /\ toClient' = Append(toClient, m)
    BY <1>8, Kinds DEF OnClear, ChangeWorld
  <2> QED BY <1>1, <2>1, StillStoredSent
<1>9. CASE Rebind
  <2>1. PICK m : m.type = "avatar" /\ toClient' = Append(toClient, m) /\ stored' = stored
    BY <1>9, Kinds DEF Rebind
  <2> QED BY <1>1, <2>1, StillStoredSent
<1> QED BY <1>2, <1>3, <1>4, <1>5, <1>6, <1>7, <1>8, <1>9 DEF Next

\* A clear that keeps the picture was sent for a frame newer than whatever was asked
\* for before, and the client waits for newer ones only.
Passed(channel, top, open) ==
    \A k \in ClearsIn(channel), j \in Asks(channel) : channel[k].keep /\ j < k =>
        Frame(channel[j]) < top /\ \A p \in open : Frame(channel[j]) < p.frame

\* While it is under way, what is shown is held.
Held(channel, shown, held) == (\E k \in ClearsIn(channel) : channel[k].keep) => shown = None \/ held

Lost == Plain => Passed(Way, latest, pending) /\ Held(Way, active, holding)

LEMMA PassedComes ==
  ASSUME NEW c, NEW next, NEW from, NEW gone, Comes(c, next, from, gone),
         NEW top, NEW open, Passed(c, top, open), NEW shown, NEW held, Held(c, shown, held)
  PROVE  Passed(next, top, open) /\ Held(next, shown, held)
<1>1. \A k \in ClearsIn(next) : from[k] \in ClearsIn(c) /\ next[k].keep = c[from[k]].keep
  BY DEF Comes
<1>2. \A j \in Asks(next) : from[j] \in Asks(c) /\ Frame(next[j]) = Frame(c[from[j]])
  BY DEF Comes, Frame
<1>3. \A j \in Asks(next), k \in ClearsIn(next) : j < k => from[j] < from[k]
  BY DEF Comes, Marks
<1>4. Passed(next, top, open)
  BY <1>1, <1>2, <1>3 DEF Passed
<1>5. Held(next, shown, held)
  BY <1>1 DEF Held
<1> QED BY <1>4, <1>5

LEMMA PassedNarrowed ==
  ASSUME NEW c, NEW top \in Nat, NEW high \in Nat, top <= high, NEW open, NEW rest, rest \subseteq open,
         Framed(c, top), Passed(c, top, open)
  PROVE  Passed(c, high, rest)
BY DEF Passed, Framed

LEMMA PassedInstalled ==
  ASSUME NEW c, NEW s, NEW next, Grown(c, InstallPayload(s), next),
         NEW top \in Nat, s.frame \in Nat, top <= s.frame, Framed(c, top),
         NEW open, NEW rest, rest \subseteq open \cup {s}, Passed(c, top, open),
         NEW shown, NEW held, Held(c, shown, held)
  PROVE  Passed(next, s.frame, rest) /\ Held(next, shown, held)
<1> DEFINE m == InstallPayload(s)
<1>1. m.type = "install"
  BY Kinds
<1> HIDE DEF m
<1>2. PICK n \in Nat :
           /\ DOMAIN c = 1..n
           /\ \A k \in DOMAIN c : k \in DOMAIN next /\ next[k] = c[k] /\ k < n + 1
           /\ Asks(next) = Asks(c) \cup (IF m.type \in {"install", "ack"} THEN {n + 1} ELSE {})
           /\ ClearsIn(next) = ClearsIn(c) \cup (IF m.type \in {"clear", "cleared"} THEN {n + 1} ELSE {})
  BY GrownMarks DEF m
<1>3. /\ Asks(next) = Asks(c) \cup {n + 1} /\ ClearsIn(next) = ClearsIn(c)
      /\ \A k \in Asks(c) \cup ClearsIn(c) : next[k] = c[k] /\ k < n + 1 /\ k \in Nat
  BY <1>1, <1>2, MarksApart
<1>4. Passed(next, s.frame, rest)
  <2> SUFFICES ASSUME NEW k \in ClearsIn(next), NEW j \in Asks(next), next[k].keep, j < k
               PROVE  Frame(next[j]) < s.frame /\ \A p \in rest : Frame(next[j]) < p.frame
    BY DEF Passed
  <2>1. j \in Asks(c) /\ k \in ClearsIn(c) /\ next[j] = c[j] /\ next[k] = c[k]
    BY <1>2, <1>3
  <2>2. Frame(c[j]) < top /\ (\A p \in open : Frame(c[j]) < p.frame) /\ Frame(c[j]) \in Nat
    BY <2>1 DEF Passed, Framed
  <2>3. Frame(c[j]) < s.frame
    BY <2>2
  <2> QED BY <2>1, <2>2, <2>3
<1>5. Held(next, shown, held)
  BY <1>3 DEF Held
<1> QED BY <1>4, <1>5

LEMMA PassedCleared ==
  ASSUME NEW c, NEW keep, NEW next, Grown(c, ClearPayload(keep), next),
         NEW top, NEW open, NEW shown, NEW held,
         \/ ~keep /\ Passed(c, top, open) /\ Held(c, shown, held)
         \/ /\ \E low \in Nat : Framed(c, low) /\ low < top
            /\ top \in Nat /\ open = {} /\ (shown = None \/ held)
  PROVE  Passed(next, top, open) /\ Held(next, shown, held)
<1> DEFINE m == ClearPayload(keep)
<1>1. m.type = "clear" /\ m.keep = keep
  BY DEF ClearPayload
<1> HIDE DEF m
<1>2. PICK n \in Nat :
           /\ DOMAIN c = 1..n /\ next[n + 1] = m
           /\ \A k \in DOMAIN c : k \in DOMAIN next /\ next[k] = c[k] /\ k < n + 1
           /\ Asks(next) = Asks(c) \cup (IF m.type \in {"install", "ack"} THEN {n + 1} ELSE {})
           /\ ClearsIn(next) = ClearsIn(c) \cup (IF m.type \in {"clear", "cleared"} THEN {n + 1} ELSE {})
  BY GrownMarks DEF m
<1>3. /\ Asks(next) = Asks(c) /\ ClearsIn(next) = ClearsIn(c) \cup {n + 1} /\ next[n + 1].keep = keep
      /\ \A k \in Asks(c) \cup ClearsIn(c) : next[k] = c[k]
  BY <1>1, <1>2, MarksApart
<1>4. CASE ~keep /\ Passed(c, top, open) /\ Held(c, shown, held)
  <2>1. \A k \in ClearsIn(next) : next[k].keep => k \in ClearsIn(c) /\ next[k] = c[k]
    BY <1>3, <1>4
  <2>2. Passed(next, top, open)
    BY <1>3, <1>4, <2>1 DEF Passed
  <2>3. Held(next, shown, held)
    BY <1>4, <2>1 DEF Held
  <2> QED BY <2>2, <2>3
<1>5. CASE /\ \E low \in Nat : Framed(c, low) /\ low < top
           /\ top \in Nat /\ open = {} /\ (shown = None \/ held)
  <2>1. PICK low \in Nat : Framed(c, low) /\ low < top
    BY <1>5
  <2>2. \A j \in Asks(next) : Frame(next[j]) \in Nat /\ Frame(next[j]) <= low
    BY <1>3, <2>1 DEF Framed
  <2>3. Passed(next, top, open)
    BY <1>5, <2>1, <2>2 DEF Passed
  <2> QED BY <1>5, <2>3 DEF Held
<1> QED BY <1>4, <1>5

LEMMA LostInstalled ==
  ASSUME NEW near, IsSeq(near), IsSeq(toServer), toClient' = near,
         latest \in Nat, Framed(near \o toServer, latest), NEW open, Passed(near \o toServer, latest, open),
         Held(near \o toServer, active', holding'),
         NEW f \in Nat, latest <= f, latest' = f, NEW size, NEW own, Install(open, Placed(f, size, own))
  PROVE  Passed(Way', latest', pending') /\ Held(Way', active', holding')
<1> DEFINE s == Placed(f, size, own)
           c == near \o toServer
<1>1. s.frame = f
  BY Kinds
<1> HIDE DEF s
<1>2. toServer' = Append(toServer, InstallPayload(s)) /\ pending' = Evicted(Put(open, s))
  BY DEF Install, s
<1>3. Grown(c, InstallPayload(s), Way')
  BY <1>2, SendGrows DEF Way
<1>4. pending' \subseteq open \cup {s}
  BY <1>2 DEF Evicted, Put
<1> HIDE DEF c
<1>5. Framed(c, latest) /\ Passed(c, latest, open) /\ Held(c, active', holding')
  BY DEF c
<1>6. s.frame \in Nat /\ latest <= s.frame
  BY <1>1
<1>7. Passed(Way', s.frame, pending') /\ Held(Way', active', holding')
  BY <1>3, <1>4, <1>5, <1>6, PassedInstalled
<1> QED BY <1>1, <1>7

LEMMA LostReceive ==
  ASSUME IInv, Viewed, Alone, Plain, Passed(Way, latest, pending), Held(Way, active, holding), Receive
  PROVE  Passed(Way', latest', pending') /\ Held(Way', active', holding')
<1>1. /\ IsSeq(toServer) /\ IsSeq(toClient) /\ latest \in Nat /\ Framed(Way, latest)
      /\ Way = toClient \o toServer
  BY DEF IInv, Channels, InstallsInOrder, Viewed, View, Way
<1>2. PICK f \in Frames : f > latest /\ (ReceiveEmpty(f) \/ ReceiveUsable(f))
  BY DEF Receive
<1>3. f \in Nat /\ latest < f /\ latest <= f /\ toClient' = toClient
  BY <1>1, <1>2, InstallAssumption DEF Frames, Receive
<1>4. CASE ReceiveEmpty(f)
  <2>1. latest' = f /\ pending' = {} /\ (active' = None \/ holding')
    BY <1>4 DEF ReceiveEmpty
  <2>2. CASE SendClear(TRUE)
    <3>1. Grown(Way, ClearPayload(TRUE), Way')
      BY <1>1, <1>3, <2>2, SendGrows DEF SendClear, Way
    <3>2. \E low \in Nat : Framed(Way, low) /\ low < latest'
      BY <1>1, <1>3, <2>1
    <3>3. latest' \in Nat
      BY <1>3, <2>1
    <3> QED BY <2>1, <3>1, <3>2, <3>3, PassedCleared
  <2>3. CASE ~SendClear(TRUE)
    <3>1. Way' = Way
      BY <1>3, <1>4, <2>3 DEF ReceiveEmpty, Way
    <3>2. Passed(Way, f, {})
      BY <1>1, <1>3, PassedNarrowed
    <3> QED BY <2>1, <3>1, <3>2 DEF Held
  <2> QED BY <2>2, <2>3
<1>5. CASE ReceiveUsable(f)
  <2>1. latest' = f /\ UNCHANGED <<active, holding>>
    BY <1>5 DEF ReceiveUsable
  <2>2. CASE joined
    <3>1. Install(pending, Placed(f, scale', mine))
      BY <1>5, <2>2 DEF ReceiveUsable
    <3> QED BY <1>1, <1>3, <2>1, <3>1, LostInstalled
  <2>3. CASE ~joined
    <3>1. Way' = Way /\ pending' = pending
      BY <1>3, <1>5, <2>3 DEF ReceiveUsable, Way
    <3>2. Passed(Way, f, pending)
      BY <1>1, <1>3, PassedNarrowed
    <3> QED BY <2>1, <3>1, <3>2
  <2> QED BY <2>2, <2>3
<1> QED BY <1>2, <1>4, <1>5

LEMMA LostSent ==
  ASSUME IInv, Viewed, Alone, Plain, Passed(Way, latest, pending), Held(Way, active, holding),
         Join \/ Reinstall \/ Clear
  PROVE  Passed(Way', latest', pending') /\ Held(Way', active', holding')
<1> DEFINE c == toClient' \o toServer
<1>1. /\ IsSeq(toServer) /\ IsSeq(toClient') /\ latest \in Nat /\ latest <= latest /\ Framed(Way, latest)
      /\ Above(Way, active)
  BY AnswerStep DEF IInv, Channels, InstallsInOrder, Viewed, View, Next
<1>2. PICK from, gone : Comes(Way, c, from, gone)
  BY WayClient DEF ClientStep
<1>3. UNCHANGED <<latest, active, holding>>
  BY DEF Join, Reinstall, Clear
<1>4. Passed(c, latest, pending) /\ Held(c, active, holding) /\ Framed(c, latest)
  <2> HIDE DEF c
  <2> QED BY <1>1, <1>2, PassedComes, FramedComes
<1>5. CASE UNCHANGED <<pending, toServer>>
  BY <1>3, <1>4, <1>5 DEF Way
<1>6. ASSUME NEW size, Install(pending, Placed(latest, size, mine))
      PROVE  Passed(Way', latest', pending') /\ Held(Way', active', holding')
  <2> DEFINE near == toClient'
  <2>1. /\ IsSeq(near) /\ Framed(near \o toServer, latest) /\ Passed(near \o toServer, latest, pending)
        /\ Held(near \o toServer, active', holding')
    BY <1>1, <1>3, <1>4
  <2>2. toClient' = near
    OBVIOUS
  <2> HIDE DEF near
  <2> QED BY <1>1, <1>3, <1>6, <2>1, <2>2, LostInstalled
<1>7. CASE Clear
  <2>1. UNCHANGED pending /\ toServer' = Append(toServer, ClearPayload(FALSE))
    BY <1>7 DEF Clear, SendClear
  <2>2. Grown(c, ClearPayload(FALSE), Way')
    BY <1>1, <2>1, SendGrows DEF Way
  <2> HIDE DEF c
  <2>3. Passed(Way', latest, pending) /\ Held(Way', active, holding)
    BY <1>4, <2>2, PassedCleared
  <2> QED BY <1>3, <2>1, <2>3
<1>8. CASE Join \/ Reinstall
  <2>1. \/ UNCHANGED <<pending, toServer>>
        \/ \E size : Install(pending, Placed(latest, size, mine))
    BY <1>8 DEF Join, Reinstall
  <2> QED BY <1>5, <1>6, <2>1
<1> QED BY <1>7, <1>8

LEMMA LostRead ==
  ASSUME IInv, Viewed, Alone, Plain, Passed(Way, latest, pending), Held(Way, active, holding),
         OnWorldChanged \/ OnCleared \/ OnAckIgnored \/ OnAckActivates \/ OnAvatarState
  PROVE  Passed(Way', latest', pending') /\ Held(Way', active', holding')
<1> DEFINE near == Tail(toClient)
           c == near \o toServer
<1>1. /\ IsSeq(toServer) /\ latest \in Nat /\ latest <= latest /\ Framed(Way, latest) /\ Above(Way, active)
      /\ \A p, q \in pending : p.frame = q.frame => p = q
  BY DEF IInv, Channels, InstallsInOrder, Viewed, View, Waiting
<1>2. toClient # <<>> /\ toClient' = near /\ UNCHANGED latest
  BY DEF OnWorldChanged, OnCleared, OnAckIgnored, OnAckActivates, OnAvatarState, FromServer
<1>3. /\ IsSeq(near) /\ 1 \in DOMAIN Way /\ Way[1] = Head(toClient)
      /\ \A k \in DOMAIN Way : k \in Nat /\ k >= 1
      /\ \E from : Comes(Way, c, from, {1})
  BY <1>2, WayRead
<1> HIDE DEF near
<1>4. PICK from : Comes(Way, c, from, {1})
  BY <1>3
<1>5. Passed(c, latest, pending) /\ Held(c, active, holding) /\ Framed(c, latest)
  <2> HIDE DEF c
  <2> QED BY <1>1, <1>4, PassedComes, FramedComes
<1>6. ASSUME UNCHANGED toServer, pending' \subseteq pending, active' = None \/ UNCHANGED <<active, holding>>
      PROVE  Passed(Way', latest', pending') /\ Held(Way', active', holding')
  <2>1. Way' = c
    BY <1>2, <1>6 DEF Way
  <2> HIDE DEF c
  <2>2. Passed(c, latest, pending')
    BY <1>1, <1>5, <1>6, PassedNarrowed
  <2> QED BY <1>2, <1>5, <1>6, <2>1, <2>2 DEF Held
<1>7. CASE OnWorldChanged \/ OnCleared \/ OnAckIgnored
  BY <1>6, <1>7 DEF OnWorldChanged, OnCleared, OnAckIgnored, ClearLocal
<1>8. CASE OnAckActivates
  <2>1. PICK p \in Match(Head(toClient)) : pending' = pending \ {p} /\ UNCHANGED toServer
    BY <1>8 DEF OnAckActivates, Plain
  <2>2. p \in pending /\ p.frame = Frame(Way[1]) /\ 1 \in Asks(Way)
    BY <1>3, <1>8, <2>1 DEF Match, Frame, Asks, OnAckActivates, FromServer
  <2>3. ~(\E k \in ClearsIn(Way) : Way[k].keep)
    <3> SUFFICES ASSUME NEW k \in ClearsIn(Way), Way[k].keep PROVE FALSE
      OBVIOUS
    <3>1. 1 < k
      <4>1. k # 1
        BY <2>2, MarksApart
      <4>2. k \in Nat /\ k >= 1
        BY <1>3, MarksApart
      <4> QED BY <4>1, <4>2
    <3>2. Frame(Way[1]) < p.frame
      BY <2>2, <3>1 DEF Passed
    <3>3. Frame(Way[1]) \in Nat
      BY <1>1, <2>2 DEF Framed
    <3> QED BY <2>2, <3>2, <3>3
  <2>4. Held(Way, active', holding')
    BY <2>3 DEF Held
  <2>5. Way' = c
    BY <1>2, <2>1 DEF Way
  <2>6. Passed(c, latest, pending) /\ Held(c, active', holding')
    <3> DEFINE shown == active'
               held == holding'
    <3> HIDE DEF c, shown, held
    <3>1. Held(Way, shown, held)
      BY <2>4 DEF shown, held
    <3>2. Held(c, shown, held)
      BY <1>4, <3>1, PassedComes
    <3> QED BY <1>5, <3>2 DEF shown, held
  <2>7. Passed(c, latest, pending')
    <3> HIDE DEF c
    <3>1. pending' \subseteq pending
      BY <2>1
    <3> QED BY <1>1, <1>5, <3>1, PassedNarrowed
  <2> QED BY <1>2, <2>5, <2>6, <2>7
<1>9. CASE OnAvatarState
  <2>1. \/ UNCHANGED <<toServer, pending, active, holding>>
        \/ active' = None /\ pending' = {} /\ UNCHANGED toServer
        \/ active' = None /\ \E size, own : Install({}, Placed(latest, size, own))
    BY <1>9 DEF OnAvatarState
  <2>2. ASSUME active' = None, NEW size, NEW own, Install({}, Placed(latest, size, own))
        PROVE  Passed(Way', latest', pending') /\ Held(Way', active', holding')
    <3>1. Held(near \o toServer, active', holding')
      BY <2>2 DEF Held
    <3>2. Framed(near \o toServer, latest) /\ Passed(near \o toServer, latest, {})
      BY <1>5 DEF Passed
    <3> QED BY <1>1, <1>2, <1>3, <2>2, <3>1, <3>2, LostInstalled
  <2> QED BY <1>6, <2>1, <2>2
<1> QED BY <1>7, <1>8, <1>9

LEMMA LostStep == IInv /\ Viewed /\ Alone /\ Lost /\ [Next]_vars => Lost'
<1> SUFFICES ASSUME IInv, Viewed, Alone, Lost, [Next]_vars, Plain
             PROVE  Passed(Way', latest', pending') /\ Held(Way', active', holding')
  BY TroublesStay DEF Lost, Plain
<1>1. Passed(Way, latest, pending) /\ Held(Way, active, holding)
  BY DEF Lost
<1>2. CASE Leave
  <2>1. toServer' = <<>> /\ toClient' = <<>>
    BY <1>2 DEF Leave
  <2> QED BY <2>1, NothingUnderWay DEF Way, Passed, Held
<1>3. CASE OnInstall \/ OnClear \/ Expire \/ ChangeWorld \/ Rebind \/ UNCHANGED vars
  <2>1. UNCHANGED <<latest, pending, active, holding>>
    BY <1>3 DEF OnInstall, OnClear, Expire, ChangeWorld, Rebind, vars, clientVars
  <2>2. PICK from : Comes(Way, Way', from, {})
    BY <1>3, WayServer
  <2>3. Passed(Way', latest, pending) /\ Held(Way', active, holding)
    BY <1>1, <2>2, PassedComes
  <2> QED BY <2>1, <2>3
<1> QED BY <1>1, <1>2, <1>3, LostReceive, LostSent, LostRead DEF Next
\* Nothing but installs and their answers is on the way.
AllAsks(channel) == \A k \in DOMAIN channel : channel[k].type \in {"install", "ack"}
NoBreak == AllAsks(toClient) /\ AllAsks(toServer)
Live == active # None /\ ~holding

\* Something is stored, and what the client asked for last is pending or shown.
Shown(channel, open, shown, kept) ==
    /\ kept # None
    /\ Asks(channel) = {} => shown = kept
    /\ \A k : Last(channel, k) => channel[k].snapshot \in open \cup {shown}

ShownStored == Plain /\ Live /\ NoBreak => Shown(Way, pending, active, stored)

LEMMA AllAsksSent ==
  ASSUME NEW c, IsSeq(c), NEW m, AllAsks(Append(c, m))
  PROVE  AllAsks(c) /\ m.type \in {"install", "ack"}
<1>1. /\ Len(c) \in Nat
      /\ DOMAIN c = 1 .. Len(c) /\ DOMAIN Append(c, m) = 1 .. Len(c) + 1
      /\ \A k \in 1 .. Len(c) : Append(c, m)[k] = c[k]
      /\ Append(c, m)[Len(c) + 1] = m
  BY Appended
<1>2. Len(c) + 1 \in DOMAIN Append(c, m) /\ \A k \in DOMAIN c : k \in DOMAIN Append(c, m)
  BY <1>1
<1> QED BY <1>1, <1>2 DEF AllAsks

LEMMA AllAsksRead ==
  ASSUME NEW c, IsSeq(c), c # <<>>, AllAsks(Tail(c)), Head(c).type \in {"install", "ack"}
  PROVE  AllAsks(c)
<1>1. /\ Len(c) \in Nat /\ Len(c) >= 1
      /\ DOMAIN c = 1 .. Len(c) /\ DOMAIN Tail(c) = 1 .. Len(c) - 1
      /\ \A k \in 1 .. Len(c) - 1 : Tail(c)[k] = c[k + 1]
      /\ Head(c) = c[1]
  BY Received
<1> SUFFICES ASSUME NEW k \in DOMAIN c PROVE c[k].type \in {"install", "ack"}
  BY DEF AllAsks
<1>2. CASE k = 1
  BY <1>1, <1>2
<1>3. CASE k # 1
  <2>1. k - 1 \in 1 .. Len(c) - 1 /\ Tail(c)[k - 1] = c[k]
    BY <1>1, <1>3
  <2> QED BY <1>1, <2>1 DEF AllAsks
<1> QED BY <1>2, <1>3

LEMMA ShownAwaited ==
  ASSUME Awaited', stored' # None
  PROVE  Shown(Way', pending', active', stored')
BY DEF Awaited, Shown

\* An install was sent: nothing else was on the way before it either.
LEMMA InstallUnbroken ==
  ASSUME IInv, NEW p, NEW s, Install(p, s), toClient' = toClient, NoBreak'
  PROVE  NoBreak
<1> DEFINE m == InstallPayload(s)
<1>1. toServer' = Append(toServer, m) /\ IsSeq(toServer)
  BY DEF Install, IInv, Channels
<1> HIDE DEF m
<1>2. AllAsks(toServer)
  BY <1>1, AllAsksSent DEF NoBreak
<1> QED BY <1>2 DEF NoBreak

LEMMA ShownInstall ==
  ASSUME IInv, Viewed, ShownStored, Plain, Live, NoBreak', OnInstall
  PROVE  Shown(Way', pending', active', stored')
<1> DEFINE s == Head(toServer).snapshot
<1>1. /\ toServer # <<>> /\ Head(toServer).type = "install" /\ toServer' = Tail(toServer)
      /\ UNCHANGED <<pending, active>>
  BY InstallRead DEF clientVars
<1>2. PICK ok \in BOOLEAN : /\ toClient' = Append(toClient, Ack(s, ok))
                            /\ ok => stored' = s
                            /\ ~ok => stored' = stored
  BY DEF OnInstall
<1>3. IsSeq(toClient) /\ IsSeq(toServer) /\ s.frame # 0
  BY <1>1, OrderedRead DEF IInv, Channels, InstallsInOrder, Frame
<1> DEFINE m == Ack(s, ok)
<1>4. m.type = "ack" /\ toClient' = Append(toClient, m)
  BY <1>2, Kinds
<1> HIDE DEF m
<1>5. AllAsks(toClient)
  BY <1>3, <1>4, AllAsksSent DEF NoBreak
<1>6. AllAsks(toServer)
  BY <1>1, <1>3, AllAsksRead DEF NoBreak
<1>7. Shown(Way, pending, active, stored)
  BY <1>5, <1>6 DEF ShownStored, NoBreak
<1>8. stored' # None
  BY <1>2, <1>3, <1>7 DEF Shown, None
<1>9. Asks(Way') # {}
  <2>1. IsSeq(toClient') /\ IsSeq(toServer')
    BY <1>1, <1>3, <1>4, Appended, Received
  <2>2. /\ Len(toClient) + 1 \in DOMAIN toClient' /\ toClient'[Len(toClient) + 1] = m
    BY <1>3, <1>4, Appended
  <2>3. Len(toClient) + 1 \in DOMAIN Way' /\ Way'[Len(toClient) + 1] = m
    BY <2>1, <2>2, OnTheWay DEF Way
  <2> QED BY <1>4, <2>3 DEF Asks
<1>10. PICK from : Comes(Way, Way', from, {})
  BY WayServer
<1>11. /\ {} \subseteq {1} /\ DOMAIN Way' \subseteq Nat
       /\ \A k \in DOMAIN Way : k \in Nat /\ k >= 1
  BY WayServer
<1>12. ASSUME NEW i, Last(Way', i) PROVE Way'[i].snapshot \in pending \cup {active}
  <2> DEFINE k == from[i]
  <2>1. Last(Way, k)
    BY <1>10, <1>11, <1>12, LastGone
  <2>2. Way'[i].snapshot = Way[k].snapshot
    BY <1>10, <1>12 DEF Last, Comes
  <2> QED BY <1>7, <2>1, <2>2 DEF Shown
<1> QED BY <1>1, <1>8, <1>9, <1>12 DEF Shown

LEMMA ShownAck ==
  ASSUME IInv, Viewed, Viewed', Told, StillStored, ShownStored, Plain, Live', NoBreak',
         OnAckIgnored \/ OnAckActivates
  PROVE  Shown(Way', pending', active', stored')
<1>1. /\ toClient # <<>> /\ Head(toClient).type = "ack" /\ toClient' = Tail(toClient)
      /\ UNCHANGED <<toServer, stored>>
  BY DEF OnAckIgnored, OnAckActivates, FromServer, serverVars, Plain
<1>2. IsSeq(toClient) /\ IsSeq(toServer) /\ "away" \notin troubles
  BY DEF IInv, Channels, Plain
<1>3. NoBreak
  BY <1>1, <1>2, AllAsksRead DEF NoBreak
<1>4. ~SendClear(TRUE)
  <2> DEFINE m == ClearPayload(TRUE)
  <2> HIDE DEF m
  <2>1. /\ Len(toServer) \in Nat /\ DOMAIN toServer = 1 .. Len(toServer)
        /\ DOMAIN Append(toServer, m) = 1 .. Len(toServer) + 1
    BY <1>2, Appended
  <2>2. Len(toServer) + 1 \in DOMAIN Append(toServer, m) /\ Len(toServer) + 1 \notin DOMAIN toServer
    BY <2>1
  <2> QED BY <1>1, <2>2 DEF SendClear, m
<1>5. stored # None /\ \A k : Last(Way, k) => Way[k].snapshot \in pending \cup {active}
  <2>1. CASE OnAckIgnored
    <3>1. Live
      BY <2>1 DEF OnAckIgnored, Live
    <3> QED BY <1>3, <3>1 DEF ShownStored, Shown
  <2>2. CASE OnAckActivates
    <3>1. 1 \in Takes(toClient)
      BY <1>1, <1>2, <2>2, Received DEF Takes, OnAckActivates, Accepted
    <3>2. \A j \in DOMAIN toClient : toClient[j].type \notin {"cleared", "world"}
      BY <1>3 DEF NoBreak, AllAsks
    <3>3. stored # None
      BY <3>1, <3>2 DEF StillStored
    <3>4. pending # {}
      BY <2>2 DEF OnAckActivates, Match
    <3>5. PICK last : Last(Way, last) /\ Way[last].snapshot \in pending
      BY <3>4 DEF Viewed, View, Waiting
    <3>6. \A k : Last(Way, k) => k = last
      <4>1. DOMAIN Way \subseteq Nat
        BY <1>2, WayNumbered DEF Way
      <4> QED BY <3>5, <4>1, MarksApart DEF Last
    <3> QED BY <3>3, <3>5, <3>6
  <2> QED BY <2>1, <2>2
<1>6. PICK from : Comes(Way, Way', from, {1})
  BY <1>1, WayRead DEF Way
<1>7. /\ {1} \subseteq {1} /\ DOMAIN Way' \subseteq Nat
      /\ \A k \in DOMAIN Way : k \in Nat /\ k >= 1
  BY <1>1, WayRead DEF Way
<1>8. ASSUME NEW i, Last(Way', i) PROVE Way'[i].snapshot \in pending' \cup {active'}
  <2> DEFINE k == from[i]
  <2>1. Last(Way, k)
    BY <1>6, <1>7, <1>8, LastGone
  <2>2. Way'[i].snapshot = Way[k].snapshot
    BY <1>6, <1>8 DEF Last, Comes
  <2> HIDE DEF k
  <2>3. Way[k].snapshot \in pending' \cup {active'}
    BY <1>2, <1>4, <1>5, <2>1, AnswerKeeps
  <2> QED BY <2>2, <2>3
<1>9. ASSUME Asks(Way') = {} PROVE active' = stored
  <2>1. Last(Way, 1) /\ Way[1] = Head(toClient)
    BY <1>1, <1>9, OnlyAnswer
  <2>2. Head(toClient).snapshot \in pending \cup {active}
    BY <1>5, <2>1
  <2> QED BY <1>2, <1>4, <1>5, <1>9, <2>2, LastAnswered
<1> QED BY <1>1, <1>5, <1>8, <1>9 DEF Shown
LEMMA ShownCleared ==
  ASSUME IInv, FlagsInv, Lost, Plain, OnCleared
  PROVE  ~Live'
<1>1. toClient # <<>> /\ toClient' = Tail(toClient) /\ Head(toClient).type = "cleared"
  BY DEF OnCleared, FromServer
<1>2. retain # <<>> /\ Head(retain) = Head(toClient).keep
  BY <1>1, ClearedRead DEF FlagsInv, Channels, FlagsInStep
<1>3. 1 \in ClearsIn(Way) /\ Way[1] = Head(toClient)
  BY <1>1, WayRead DEF ClearsIn
<1>4. CASE Head(retain)
  <2>1. active = None \/ holding
    BY <1>2, <1>3, <1>4 DEF Lost, Held
  <2> QED BY <1>2, <1>4, <2>1 DEF OnCleared, Live
<1>5. CASE ~Head(retain)
  BY <1>5 DEF OnCleared, ClearLocal, Live
<1> QED BY <1>4, <1>5

LEMMA ShownAvatar ==
  ASSUME IInv, News, OnAvatarState
  PROVE  ~Live'
<1>1. toClient # <<>> /\ Head(toClient).type = "avatar"
  BY DEF OnAvatarState, FromServer
<1>2. CASE Head(toClient).binding # mine
  BY <1>2 DEF OnAvatarState, Live
<1>3. CASE Head(toClient).binding = mine
  <2>1. 1 \in Avatars(toClient) /\ toClient[1].binding = mine
    BY <1>1, <1>3, Received DEF Avatars, IInv, Channels
  <2>2. mine.generation <= mine.generation
    BY DEF News, BindingsKnown, Known
  <2>3. active = None
    BY <2>1, <2>2 DEF News, NewsFirst
  <2> QED BY <1>3, <2>3 DEF OnAvatarState, Live
<1> QED BY <1>2, <1>3

LEMMA ShownStep ==
  /\ IInv /\ FlagsInv /\ Viewed /\ Alone /\ Told /\ Cloud /\ News /\ StillStored /\ Lost /\ ShownStored
  /\ IInv' /\ Viewed' /\ Unusable'
  /\ [Next]_vars
  => ShownStored'
<1> SUFFICES ASSUME IInv, FlagsInv, Viewed, Alone, Told, Cloud, News, StillStored, Lost, ShownStored,
                    IInv', Viewed', Unusable', [Next]_vars, Plain, Live', NoBreak'
             PROVE  Shown(Way', pending', active', stored')
  BY TroublesStay DEF ShownStored, Plain
<1>1. usable' /\ IsSeq(toServer) /\ IsSeq(toClient)
  BY DEF Unusable, Live, IInv, Channels
<1>2. ASSUME NEW m, toServer' = Append(toServer, m) \/ toClient' = Append(toClient, m),
             m.type \notin {"install", "ack"}
      PROVE  FALSE
  BY <1>1, <1>2, AllAsksSent DEF NoBreak
<1>3. ASSUME NEW p, NEW s, Install(p, s), UNCHANGED <<toClient, active, holding, stored>>, Awaited'
      PROVE  Shown(Way', pending', active', stored')
  <2>1. NoBreak /\ Live
    BY <1>3, InstallUnbroken DEF Live
  <2>2. stored' # None
    BY <1>3, <2>1 DEF ShownStored, Shown
  <2> QED BY <1>3, <2>2, ShownAwaited
<1>4. ~Leave /\ ~OnWorldChanged /\ ~Expire
  BY DEF Leave, OnWorldChanged, ClearLocal, Expire, Plain, Live
<1>5. ~Join
  <2> SUFFICES ASSUME Join PROVE FALSE
    OBVIOUS
  <2> DEFINE m == AvatarState(bound)
  <2>1. toClient' = Append(toClient, m)
    BY DEF Join, Alone, Apart
  <2>2. m.type \notin {"install", "ack"}
    BY Kinds
  <2> HIDE DEF m
  <2> QED BY <1>2, <2>1, <2>2
<1>6. ~Clear
  <2> SUFFICES ASSUME Clear PROVE FALSE
    OBVIOUS
  <2> DEFINE m == ClearPayload(FALSE)
  <2>1. toServer' = Append(toServer, m)
    BY DEF Clear, SendClear
  <2>2. m.type \notin {"install", "ack"}
    BY Kinds
  <2> HIDE DEF m
  <2> QED BY <1>2, <2>1, <2>2
<1>7. ~OnClear /\ ~ChangeWorld /\ ~Rebind
  <2> SUFFICES ASSUME OnClear \/ ChangeWorld \/ Rebind PROVE FALSE
    OBVIOUS
  <2>1. PICK m : m.type \in {"cleared", "world", "avatar"} /\ toClient' = Append(toClient, m)
    BY Kinds DEF OnClear, ChangeWorld, Rebind
  <2>2. m.type \notin {"install", "ack"}
    BY <2>1
  <2> QED BY <1>2, <2>1, <2>2
<1>8. CASE Receive
  <2>1. PICK f \in Frames : f > latest /\ (ReceiveEmpty(f) \/ ReceiveUsable(f))
    BY <1>8 DEF Receive
  <2>2. ReceiveUsable(f) /\ UNCHANGED <<toClient, mine, stored, active, holding>>
    BY <1>1, <1>8, <2>1 DEF ReceiveEmpty, ReceiveUsable, Receive, serverVars
  <2>3. joined
    BY <2>2 DEF Alone, Live
  <2>4. Awaited'
    BY <2>1, <2>2, <2>3, ReceiveAwaits
  <2>5. Install(pending, Placed(f, scale', mine))
    BY <2>2, <2>3 DEF ReceiveUsable
  <2> QED BY <1>3, <2>2, <2>4, <2>5
<1>9. CASE Reinstall
  <2>1. usable /\ latest # 0
    BY <1>1, <1>9 DEF Reinstall, Cloud
  <2>2. Awaited'
    BY <1>9, <2>1, ReinstallAwaits
  <2>3. Install(pending, Placed(latest, scale', mine)) /\ UNCHANGED <<toClient, stored, active, holding>>
    BY <1>9, <2>1 DEF Reinstall, serverVars
  <2> QED BY <1>3, <2>2, <2>3
<1>10. ~OnCleared /\ ~OnAvatarState
  BY ShownCleared, ShownAvatar
<1>11. CASE OnAckIgnored \/ OnAckActivates
  BY <1>11, ShownAck
<1>12. CASE OnInstall
  <2>1. Live
    BY <1>12, InstallRead DEF Live, clientVars
  <2> QED BY <1>12, <2>1, ShownInstall
<1>13. CASE UNCHANGED vars
  <2>1. UNCHANGED <<Way, pending, active, holding, stored, toClient, toServer>>
    BY <1>13 DEF vars, clientVars, serverVars, Way
  <2>2. Live /\ NoBreak
    BY <2>1 DEF Live, NoBreak
  <2> QED BY <2>1, <2>2 DEF ShownStored
<1> QED BY <1>4, <1>5, <1>6, <1>7, <1>8, <1>9, <1>10, <1>11, <1>12, <1>13 DEF Next

\* A snapshot that is shown as active can be hit once all payloads have been read,
\* where nothing expires, no upload fails and the target stays within reach: for any
\* number of frames, clears, changes of dimension and bindings.
THEOREM ShownIsHittable == Spec => []CalmShownCanBeHit
<1> DEFINE Standing == Both /\ News /\ StillStored /\ Lost /\ ShownStored
<1>1. Init => Standing
  <2> SUFFICES ASSUME Init PROVE Standing
    OBVIOUS
  <2>1. Both
    BY InitBoth
  <2>2. /\ toServer = <<>> /\ toClient = <<>> /\ active = None
        /\ mine = SelfBinding /\ bound = SelfBinding
    BY DEF Init
  <2>3. News
    BY <2>2, Empty DEF News, BindingsKnown, Rising, NewsFirst, Avatars, Known, SelfBinding
  <2>4. StillStored /\ Lost /\ ShownStored
    BY <2>2, Empty, NothingUnderWay
    DEF StillStored, Takes, Lost, Passed, Held, Way, ShownStored, Live
  <2> QED BY <2>1, <2>3, <2>4
<1>2. Standing /\ [Next]_vars => Standing'
  <2> SUFFICES ASSUME Both, News, StillStored, Lost, ShownStored, [Next]_vars PROVE Standing'
    OBVIOUS
  <2>1. Both'
    BY StepBoth
  <2>2. News' /\ StillStored' /\ Lost'
    BY NewsStep, StillStoredStep, LostStep DEF Both
  <2>3. ShownStored'
    BY <2>1, ShownStep DEF Both
  <2> QED BY <2>1, <2>2, <2>3
<1>3. Standing => CalmShownCanBeHit
  <2> SUFFICES ASSUME Standing, Quiet, Plain, Live PROVE stored = active
    BY DEF CalmShownCanBeHit, Plain, Live
  <2>1. NoBreak /\ Asks(Way) = {}
    BY Empty, NothingUnderWay DEF Quiet, NoBreak, AllAsks, Way
  <2> QED BY <2>1 DEF ShownStored, Shown
<1> HIDE DEF Standing
<1> QED BY <1>1, <1>2, <1>3, PTL DEF Spec

=============================================================================
