--------------------------- MODULE CharacterStream --------------------------
(***************************************************************************)
(* From the store to the Minecraft clients: SnapshotStore                  *)
(* (pipeline/snapshot_store.py), CharacterHub (api/hub.py) and the handler *)
(* and sender of /ws/character (api/app.py).                               *)
(*                                                                         *)
(* Frames are their ids, status texts are all alike.  A send is two steps, *)
(* its start and its return, and a publication may fall in between.        *)
(***************************************************************************)
EXTENDS Naturals

CONSTANTS
    Subscribers,    \* clients of /ws/character
    MaxFrames       \* bound: frames published

ASSUME StreamAssumption == MaxFrames \in Nat

Frames == 1..MaxFrames

\* Items of a queue or a send besides the frames.
None == 0
Text == MaxFrames + 1
Items == 0..(MaxFrames + 1)

VARIABLES
    stored,     \* the latest published frame, None before the first
    conn,       \* conn[s]: "off", "hello", "latest" or "on"
    queue,      \* queue[s]: the item in the subscriber's queue of size one
    sending,    \* sending[s]: the item a send of s is under way for
    got         \* got[s]: the last frame this connection of s was sent, 0 for none

vars == <<stored, conn, queue, sending, got>>

Nothing == [s \in Subscribers |-> None]

Init ==
    /\ stored = None
    /\ conn = [s \in Subscribers |-> "off"]
    /\ queue = Nothing /\ sending = Nothing /\ got = Nothing

\* Bug: a connection subscribes before it sends the latest frame.
ListeningEarly(s) == conn[s] # "off"

Listening(s) == conn[s] = "on"

\* Bug: a full queue keeps its old item and the new one is dropped.
PutIfRoom(s, item) == IF queue[s] = None THEN item ELSE queue[s]

\* _put_latest: whatever waits in a full queue is thrown away.
PutLatest(s, item) == item

Broadcast(item) ==
    queue' = [s \in Subscribers |-> IF Listening(s) THEN PutLatest(s, item) ELSE queue[s]]

\* The store and the queues change in one turn of the event loop.  Ids grow, with
\* gaps (RigCalibration).
Publish(id) ==
    /\ id > stored
    /\ stored' = id
    /\ Broadcast(id)
    /\ UNCHANGED <<conn, sending, got>>

\* Calibration progress and reasons for blocked captures share the queues.
Announce ==
    /\ Broadcast(Text)
    /\ UNCHANGED <<stored, conn, sending, got>>

-----------------------------------------------------------------------------
(* ws_character. *)

\* The client's hello is read; the answer is being sent.
Connect(s) ==
    /\ conn[s] = "off"
    /\ conn' = [conn EXCEPT ![s] = "hello"]
    /\ UNCHANGED <<stored, queue, sending, got>>

\* The answer is sent; the store is read and what it holds is being sent.
SendLatest(s) ==
    /\ conn[s] = "hello"
    /\ conn' = [conn EXCEPT ![s] = "latest"]
    /\ sending' = [sending EXCEPT ![s] = stored]
    /\ UNCHANGED <<stored, queue, got>>

Newest(s) == IF sending[s] \in Frames THEN sending[s] ELSE got[s]

Received(s) ==
    /\ sending' = [sending EXCEPT ![s] = None]
    /\ got' = [got EXCEPT ![s] = Newest(s)]

\* That send returns and the connection subscribes, with an empty queue, in the
\* same turn.
Subscribe(s) ==
    /\ conn[s] = "latest"
    /\ Received(s)
    /\ conn' = [conn EXCEPT ![s] = "on"]
    /\ UNCHANGED <<stored, queue>>

\* _character_sender: get, then send.
Take(s) ==
    /\ conn[s] = "on" /\ sending[s] = None /\ queue[s] # None
    /\ sending' = [sending EXCEPT ![s] = queue[s]]
    /\ queue' = [queue EXCEPT ![s] = None]
    /\ UNCHANGED <<stored, conn, got>>

Sent(s) ==
    /\ conn[s] = "on" /\ sending[s] # None
    /\ Received(s)
    /\ UNCHANGED <<stored, conn, queue>>

\* The client goes away at any stage; its queue is discarded.
Disconnect(s) ==
    /\ conn[s] # "off"
    /\ conn' = [conn EXCEPT ![s] = "off"]
    /\ sending' = [sending EXCEPT ![s] = None]
    /\ got' = [got EXCEPT ![s] = 0]
    /\ queue' = [queue EXCEPT ![s] = None]
    /\ UNCHANGED stored

Next ==
    \/ \E id \in Frames : Publish(id)
    \/ Announce
    \/ \E s \in Subscribers :
         Connect(s) \/ SendLatest(s) \/ Subscribe(s) \/ Take(s) \/ Sent(s) \/ Disconnect(s)

Spec == Init /\ [][Next]_vars

-----------------------------------------------------------------------------
(* Properties. *)

\* Every variable keeps its type.
TypeOK ==
    /\ stored \in 0..MaxFrames
    /\ conn \in [Subscribers -> {"off", "hello", "latest", "on"}]
    /\ queue \in [Subscribers -> Items]
    /\ sending \in [Subscribers -> Items]
    /\ got \in [Subscribers -> 0..MaxFrames]

\* A frame that waits for a subscriber is the one in the store: a slow subscriber
\* never has an old frame before it (the docstring of CharacterHub).
WaitingIsLatest ==
    \A s \in Subscribers : conn[s] = "on" /\ queue[s] \in Frames => queue[s] = stored

\* On one connection every frame that is sent is newer than the one before it: no
\* frame goes out twice or out of order, although the first one comes from the
\* store and the others from the queue (ws_character, _character_sender).
DeliveredInOrder ==
    [][\A s \in Subscribers :
        sending'[s] \in Frames /\ sending'[s] # sending[s] => sending'[s] > got[s]]_vars

\* What is on its way is newer than what was delivered, and what waits is newer than
\* both.
AheadOfDelivered ==
    \A s \in Subscribers :
        /\ got[s] <= stored
        /\ sending[s] \in Frames => got[s] < sending[s] /\ sending[s] <= stored
        /\ queue[s] \in Frames => got[s] < queue[s]
        /\ queue[s] \in Frames /\ sending[s] \in Frames => sending[s] < queue[s]

=============================================================================
