----------------------- MODULE CharacterStreamProofs -----------------------
(***************************************************************************)
(* Proofs about CharacterStream for any number of clients and frames: its  *)
(* types, the order of delivery and the freshness of what waits; and about *)
(* CharacterSocket for any number of sockets, frames and presses of the    *)
(* reconnect key: a client never gives up, and its sockets are what        *)
(* CharacterStream takes subscribers to be.                                *)
(*                                                                         *)
(* The order needs two facts that are not in it: a connection has nothing  *)
(* queued before it subscribes, and nothing delivered before its first     *)
(* send returns (Handshake).                                               *)
(***************************************************************************)
EXTENDS CharacterSocket, TLAPS

Handshake ==
    \A s \in Subscribers :
        /\ conn[s] # "on" => queue[s] = None /\ got[s] = 0
        /\ conn[s] \in {"off", "hello"} => sending[s] = None

IInv == TypeOK /\ Handshake /\ WaitingIsLatest /\ AheadOfDelivered

\* A step of one client, or of the publisher.
ClientStep(s) ==
    Connect(s) \/ SendLatest(s) \/ Subscribe(s) \/ Take(s) \/ Sent(s) \/ Disconnect(s)

LEMMA InitInvariant == Init => IInv
BY StreamAssumption
   DEF Init, IInv, TypeOK, Handshake, WaitingIsLatest, AheadOfDelivered, Nothing, None, Items, Frames

LEMMA PublishInvariant ==
  ASSUME IInv, NEW id \in Frames, Publish(id)
  PROVE  IInv'
<1> USE StreamAssumption DEF None, Text, Items, Frames
<1>1. TypeOK'
  BY DEF IInv, TypeOK, Publish, Broadcast, PutLatest, Listening
<1>2. Handshake'
  BY DEF IInv, TypeOK, Handshake, Publish, Broadcast, PutLatest, Listening
<1>3. WaitingIsLatest'
  BY DEF IInv, TypeOK, WaitingIsLatest, Publish, Broadcast, PutLatest, Listening
<1>4. AheadOfDelivered'
  BY DEF IInv, TypeOK, Handshake, AheadOfDelivered, Publish, Broadcast, PutLatest, Listening
<1> QED BY <1>1, <1>2, <1>3, <1>4 DEF IInv

LEMMA AnnounceInvariant ==
  ASSUME IInv, Announce
  PROVE  IInv'
<1> USE StreamAssumption DEF None, Text, Items, Frames
<1>1. TypeOK'
  BY DEF IInv, TypeOK, Announce, Broadcast, PutLatest, Listening
<1>2. Handshake'
  BY DEF IInv, TypeOK, Handshake, Announce, Broadcast, PutLatest, Listening
<1>3. WaitingIsLatest'
  BY DEF IInv, TypeOK, WaitingIsLatest, Announce, Broadcast, PutLatest, Listening
<1>4. AheadOfDelivered'
  BY DEF IInv, TypeOK, AheadOfDelivered, Announce, Broadcast, PutLatest, Listening
<1> QED BY <1>1, <1>2, <1>3, <1>4 DEF IInv

LEMMA ClientInvariant ==
  ASSUME IInv, NEW s \in Subscribers, ClientStep(s)
  PROVE  IInv'
<1> USE StreamAssumption DEF None, Text, Items, Frames
<1> USE DEF IInv, TypeOK, Handshake, WaitingIsLatest, AheadOfDelivered
<1>1. CASE Connect(s)
  BY <1>1 DEF Connect
<1>2. CASE SendLatest(s)
  BY <1>2 DEF SendLatest
<1>3. CASE Subscribe(s)
  BY <1>3 DEF Subscribe, Received, Newest
<1>4. CASE Take(s)
  BY <1>4 DEF Take
<1>5. CASE Sent(s)
  BY <1>5 DEF Sent, Received, Newest
<1>6. CASE Disconnect(s)
  BY <1>6 DEF Disconnect
<1> QED BY <1>1, <1>2, <1>3, <1>4, <1>5, <1>6 DEF ClientStep

LEMMA NextInvariant == IInv /\ [Next]_vars => IInv'
<1> SUFFICES ASSUME IInv, [Next]_vars PROVE IInv'
  OBVIOUS
<1>1. CASE UNCHANGED vars
  BY <1>1 DEF vars, IInv, TypeOK, Handshake, WaitingIsLatest, AheadOfDelivered
<1>2. CASE \E id \in Frames : Publish(id)
  BY <1>2, PublishInvariant
<1>3. CASE Announce
  BY <1>3, AnnounceInvariant
<1>4. CASE \E s \in Subscribers : ClientStep(s)
  BY <1>4, ClientInvariant
<1> QED BY <1>1, <1>2, <1>3, <1>4 DEF Next, ClientStep

LEMMA Invariance == Spec => []IInv
BY InitInvariant, NextInvariant, PTL DEF Spec

\* Every reachable state is well typed, for any clients and any number of frames.
THEOREM TypeCorrect == Spec => []TypeOK
<1>1. IInv => TypeOK
  BY DEF IInv
<1> QED BY <1>1, Invariance, PTL

\* A subscriber that is slow never has anything but the newest frame before it.
THEOREM SlowSubscriberHoldsNewest == Spec => []WaitingIsLatest
<1>1. IInv => WaitingIsLatest
  BY DEF IInv
<1> QED BY <1>1, Invariance, PTL

\* What is on its way to a client is newer than what it has.
THEOREM NothingStaleOnTheWay == Spec => []AheadOfDelivered
<1>1. IInv => AheadOfDelivered
  BY DEF IInv
<1> QED BY <1>1, Invariance, PTL

\* Every frame sent on a connection is newer than the one before it.
THEOREM FramesInOrder == Spec => DeliveredInOrder
<1> DEFINE Newer ==
      \A s \in Subscribers :
        sending'[s] \in Frames /\ sending'[s] # sending[s] => sending'[s] > got[s]
<1>1. IInv /\ IInv' /\ [Next]_vars => [Newer]_vars
  <2> SUFFICES ASSUME IInv, IInv', [Next]_vars, NEW s \in Subscribers,
                      sending'[s] \in Frames, sending'[s] # sending[s]
               PROVE  sending'[s] > got[s]
    BY DEF vars
  <2> QED
    BY StreamAssumption
    DEF IInv, TypeOK, Handshake, AheadOfDelivered, Next, vars, Publish, Announce, Connect,
        SendLatest, Subscribe, Received, Newest, Take, Sent, Disconnect, None, Text, Items, Frames
<1>2. Spec => [][Newer]_vars
  BY <1>1, Invariance, PTL DEF Spec
<1> QED BY <1>2 DEF DeliveredInOrder

-----------------------------------------------------------------------------
(* The client's end.  StillTrying is not inductive.  It needs that the mark *)
(* reconnectScheduled has a task behind it (Marked), since a failure        *)
(* schedules nothing when it finds the mark set; and that between onOpen    *)
(* and the completion of the attempt something remains even if the new      *)
(* socket is aborted (OpenedFollows), since the completion itself schedules *)
(* nothing.                                                                 *)

SocketTypes ==
    /\ tasks \in Nat
    /\ ws \in [Subscribers -> {"gone", "opening", "open", "greeted", "lost"}]

Marked == closed \/ (scheduled => tasks > 0)

Follows == tasks > 0 \/ pressed # "no" \/ \E s \in Subscribers : ws[s] # "gone"

OpenedFollows == closed \/ (attempt = "opened" => Follows)

Tries == SocketTypes /\ Marked /\ OpenedFollows /\ StillTrying

LEMMA InitTries == SocketInit => Tries
BY DEF SocketInit, Tries, SocketTypes, Marked, OpenedFollows, StillTrying, Follows

\* The steps of the scheduler thread that take a task.
LEMMA TaskTries ==
  ASSUME Tries, ConnectIdly \/ \E s \in Subscribers : ConnectSocket(s)
  PROVE  Tries'
<1>1. CASE ConnectIdly
  BY <1>1 DEF Tries, SocketTypes, Marked, OpenedFollows, StillTrying, ConnectIdly, TaskTaken
<1>2. ASSUME NEW s \in Subscribers, ConnectSocket(s) PROVE Tries'
  BY <1>2 DEF Tries, SocketTypes, Marked, OpenedFollows, StillTrying, ConnectSocket, TaskTaken
<1> QED BY <1>1, <1>2

\* The steps by which an attempt ends.
LEMMA AttemptTries ==
  ASSUME Tries, SendHello \/ \E s \in Subscribers : AttemptFails(s) \/ OnOpen(s)
  PROVE  Tries'
<1>1. CASE SendHello
  <2>1. \A s \in Subscribers : ws[s] # "gone" => ws'[s] # "gone"
    BY <1>1 DEF Tries, SocketTypes, SendHello, Open
  <2>2. SocketTypes'
    BY <1>1 DEF Tries, SocketTypes, SendHello, Open
  <2>3. StillTrying'
    BY <1>1, <2>1 DEF Tries, OpenedFollows, Follows, StillTrying, SendHello
  <2> QED BY <1>1, <2>2, <2>3 DEF Tries, Marked, OpenedFollows, SendHello
<1>2. ASSUME NEW s \in Subscribers, AttemptFails(s) PROVE Tries'
  BY <1>2 DEF Tries, SocketTypes, Marked, OpenedFollows, StillTrying, AttemptFails, ScheduleConnect
<1>3. ASSUME NEW s \in Subscribers, OnOpen(s) PROVE Tries'
  <2>1. ws'[s] = "open"
    BY <1>3 DEF Tries, SocketTypes, OnOpen
  <2> QED BY <1>3, <2>1 DEF Tries, SocketTypes, Marked, OpenedFollows, Follows, StillTrying, OnOpen
<1> QED BY <1>1, <1>2, <1>3

LEMMA OnCloseTries ==
  ASSUME Tries, NEW s \in Subscribers, OnClose(s)
  PROVE  Tries'
BY DEF Tries, SocketTypes, Marked, OpenedFollows, StillTrying, OnClose, ScheduleConnect

\* The steps of the render thread.
LEMMA RenderTries ==
  ASSUME Tries, ReconnectNow \/ Forget \/ Reschedule \/ Close
  PROVE  Tries'
<1>1. CASE ReconnectNow
  BY <1>1 DEF Tries, SocketTypes, Marked, OpenedFollows, Follows, StillTrying, ReconnectNow
<1>2. CASE Forget
  BY <1>2 DEF Tries, SocketTypes, Marked, OpenedFollows, Follows, StillTrying, Forget
<1>3. CASE Reschedule
  BY <1>3 DEF Tries, SocketTypes, Marked, OpenedFollows, Follows, StillTrying, Reschedule, ScheduleAtOnce
<1>4. CASE Close
  BY <1>4 DEF Tries, SocketTypes, Marked, OpenedFollows, StillTrying, Close
<1> QED BY <1>1, <1>2, <1>3, <1>4

LEMMA LossTries ==
  ASSUME Tries, NEW s \in Subscribers, Drop(s) \/ HelloDeadline(s)
  PROVE  Tries'
<1>1. /\ ws' = [ws EXCEPT ![s] = "lost"]
      /\ UNCHANGED <<attempt, scheduled, tasks, pressed, closed>>
  BY DEF Drop, HelloDeadline
<1>2. ws'[s] = "lost"
  BY <1>1 DEF Tries, SocketTypes
<1> QED BY <1>1, <1>2 DEF Tries, SocketTypes, Marked, OpenedFollows, Follows, StillTrying

LEMMA UntouchedTries ==
  ASSUME Tries, UNCHANGED client
  PROVE  Tries'
BY DEF Tries, SocketTypes, Marked, OpenedFollows, Follows, StillTrying, client

LEMMA NextTries ==
  ASSUME Tries, [SocketNext]_allVars
  PROVE  Tries'
<1>1. CASE UNCHANGED allVars
  BY <1>1, UntouchedTries DEF allVars
<1>2. CASE SocketNext
  BY <1>2, TaskTries, AttemptTries, OnCloseTries, RenderTries, LossTries,
     UntouchedTries
     DEF SocketNext, Scheduler, HelloArrives, ConnectionEnds, Stream
<1> QED BY <1>1, <1>2

\* A client that is not closed always has a task, an attempt, a socket or a reconnect
\* from which a connection follows, however the reconnect key crosses the callbacks of
\* new and replaced sockets (scheduleConnect, connect, reconnectNow, the listeners).
THEOREM NeverGivesUp == SocketSpec => []StillTrying
<1>1. SocketInit => Tries
  BY InitTries
<1>2. Tries /\ [SocketNext]_allVars => Tries'
  BY NextTries
<1>3. Tries => StillTrying
  BY DEF Tries
<1> QED BY <1>1, <1>2, <1>3, PTL DEF SocketSpec

-----------------------------------------------------------------------------
\* What the client does at one end of its connections is at the other end a behaviour
\* of CharacterStream, so what is proved of subscribers that come and go freely holds
\* of the client's sockets (ws_character).
THEOREM SocketsSubscribe == SocketSpec => Spec
<1>1. SocketInit => Init
  BY DEF SocketInit
<1>2. ASSUME [SocketNext]_allVars PROVE [Next]_vars
  <2>1. CASE UNCHANGED vars
    BY <2>1
  <2>2. CASE \/ \E s \in Subscribers : HelloArrives(s) \/ ConnectionEnds(s) \/ Stream(s)
             \/ \E id \in Frames : Publish(id)
             \/ Announce
    BY <2>2 DEF HelloArrives, ConnectionEnds, Stream, Next
  <2> QED
    BY <1>2, <2>1, <2>2
       DEF SocketNext, allVars, Scheduler, ConnectIdly, ConnectSocket, SendHello, AttemptFails,
           OnOpen, OnClose, ReconnectNow, Forget, Reschedule, Close, Drop, HelloDeadline
<1> QED BY <1>1, <1>2, PTL DEF SocketSpec, Spec

\* So what reaches each socket of a client is in order, whatever the client does with its
\* sockets meanwhile.
THEOREM SocketsInOrder == SocketSpec => DeliveredInOrder
BY SocketsSubscribe, FramesInOrder

=============================================================================
