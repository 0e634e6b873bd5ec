--------------------------- MODULE SnapshotInstall --------------------------
(***************************************************************************)
(* One player's scan between the render thread of the Minecraft client     *)
(* (ClientSnapshotCoordinator) and the thread of the logical server        *)
(* (SnapshotStore, HumanCraftServer, AvatarService).  Payloads travel in   *)
(* order in each direction.                                                *)
(*                                                                         *)
(* A frame is its number, in the order the backend publishes; from frame   *)
(* SecondSession on, they belong to another backend session.  Of the       *)
(* transform only the user's scale is kept: the rest is fixed the first    *)
(* time a frame is placed (ScanNormalization).  Arm swings and the chunks  *)
(* of the shared scan travel between these payloads and change nothing     *)
(* here.                                                                   *)
(***************************************************************************)
EXTENDS Naturals, Sequences, FiniteSets

CONSTANTS
    MaxFrames,      \* bound: frames published
    SecondSession,  \* the first frame after the backend restarted
    MaxGeneration,  \* bound: bindings of one connection
    MaxPending,     \* installs that may be pending, 32 in the code
    MaxInFlight,    \* bound: payloads on their way in one direction
    Situations      \* the sets of troubles a run has to cope with

\* What the player and the machine may add to the traffic: frames are LIVE and
\* expire on the server; the clear key; another dimension; a failing upload; the
\* separate player is gone or in another dimension.
Troubles == {"live", "clear", "world", "upload", "away"}

ASSUME InstallAssumption ==
    /\ MaxFrames \in Nat /\ SecondSession \in Nat
    /\ MaxGeneration \in Nat /\ MaxInFlight \in Nat
    /\ MaxPending \in Nat \ {0}
    /\ Situations \subseteq SUBSET Troubles

Frames == 1..MaxFrames
Session(f) == IF f < SecondSession THEN 1 ELSE 2

\* f was published before g by the same backend session.
Older(f, g) == Session(f) = Session(g) /\ f < g

Scales == {1, 2}
Bindings == [target : {"self", "separate"}, generation : 1..MaxGeneration, revision : 1..MaxGeneration]
SelfBinding == [target |-> "self", generation |-> 1, revision |-> 1]

\* A placed frame: what the client draws, what the server tests hits against.
Snapshots == [frame : Frames, scale : Scales, binding : Bindings]
None == [frame |-> 0]

VARIABLES
    troubles,   \* the situation of this behaviour
    joined,     \* client and server are connected
    latest,     \* client: the last decoded frame, 0 before the first
    usable,     \* client: whether that frame has a cloud to draw
    scale,      \* client: the scale of ScanNormalization
    placed,     \* client: the last frame ScanNormalization placed, 0 after a reset
    pending,    \* client: snapshots sent to the server and not answered
    active,     \* client: the snapshot on the screen
    holding,    \* client: holdingLastScan, it is drawn without interaction
    streak,     \* client: invalidFrameStreak
    retain,     \* client: retainVisualOnClear, one flag for each clear under way
    mine,       \* client: the binding it knows
    stored,     \* server: the active snapshot of the player
    cursor,     \* server: the last frame accepted in this connection, 0 for none
    bound,      \* server: the binding of the player
    toServer, toClient

clientVars == <<latest, usable, scale, placed, pending, active, holding, streak, retain, mine>>
serverVars == <<stored, cursor, bound>>
vars == <<troubles, joined, clientVars, serverVars, toServer, toClient>>

Init ==
    /\ troubles \in Situations
    /\ joined = FALSE
    /\ latest = 0 /\ usable = FALSE /\ scale = 1 /\ placed = 0
    /\ pending = {} /\ active = None
    /\ holding = FALSE /\ streak = FALSE /\ retain = <<>>
    /\ mine = SelfBinding
    /\ stored = None /\ cursor = 0 /\ bound = SelfBinding
    /\ toServer = <<>> /\ toClient = <<>>

\* "keep" is no part of the payload: it tells which clear a payload belongs to.
InstallPayload(s) == [type |-> "install", snapshot |-> s]
ClearPayload(keep) == [type |-> "clear", keep |-> keep]
Ack(s, ok) == [type |-> "ack", snapshot |-> s, accepted |-> ok]
Cleared(keep) == [type |-> "cleared", keep |-> keep]
WorldChanged == [type |-> "world"]
AvatarState(b) == [type |-> "avatar", binding |-> b]

-----------------------------------------------------------------------------
(* The client. *)

\* Bug: the snapshot that is pending for the frame stays.
PutIfAbsent(p, s) == IF \E q \in p : q.frame = s.frame THEN p ELSE p \cup {s}

\* LinkedHashMap.put: a snapshot of the same frame is replaced in place.  All
\* pending ones have the binding the client knows, so the frame is the key.
Put(p, s) == {q \in p : q.frame # s.frame} \cup {s}

\* More than MaxPending: the oldest goes.
Evicted(p) ==
    IF Cardinality(p) > MaxPending
    THEN p \ {CHOOSE q \in p : \A r \in p : q.frame <= r.frame}
    ELSE p

\* install(), from a pending map p.
Install(p, s) ==
    /\ pending' = Evicted(Put(p, s))
    /\ placed' = s.frame
    /\ toServer' = Append(toServer, InstallPayload(s))

Placed(f, size, b) == [frame |-> f, scale |-> size, binding |-> b]

\* Bug: only a clear that keeps the picture leaves a flag.
SendClearUnflagged(keep) ==
    /\ toServer' = Append(toServer, ClearPayload(keep))
    /\ retain' = IF keep THEN Append(retain, keep) ELSE retain

SendClear(keep) ==
    /\ toServer' = Append(toServer, ClearPayload(keep))
    /\ retain' = Append(retain, keep)

\* onJoin, and the binding the server sends with it.
Join ==
    /\ ~joined
    /\ joined' = TRUE
    /\ IF latest # 0 /\ usable
       THEN Install(pending, Placed(latest, scale, mine))
       ELSE UNCHANGED <<pending, placed, toServer>>
    /\ toClient' = <<AvatarState(bound)>>
    /\ UNCHANGED <<troubles, latest, usable, scale, active, holding, streak, retain, mine,
                   serverVars>>

\* onDisconnect of both sides: nothing under way survives the connection.  The
\* server forgets the player, its cursor and its binding included.
Leave ==
    /\ joined
    /\ joined' = FALSE
    /\ pending' = {} /\ active' = None /\ holding' = FALSE /\ streak' = FALSE /\ retain' = <<>>
    /\ scale' = 1 /\ placed' = 0
    /\ stored' = None /\ cursor' = 0 /\ bound' = SelfBinding
    /\ toServer' = <<>> /\ toClient' = <<>>
    /\ UNCHANGED <<troubles, latest, usable, mine>>

\* receive: a frame without a usable cloud.  One clear for each run of them.
ReceiveEmpty(f) ==
    /\ latest' = f /\ usable' = FALSE
    /\ pending' = {}
    /\ holding' = (active # None)
    /\ IF joined /\ ~streak
       THEN streak' = TRUE /\ SendClear(TRUE)
       ELSE UNCHANGED <<streak, retain, toServer>>
    /\ UNCHANGED <<scale, placed, active>>

\* Bug: the run of unusable frames never ends.
StreakKept == streak

StreakOver == FALSE

\* receive: a usable frame; the first one of a session is placed afresh.
ReceiveUsable(f) ==
    /\ latest' = f /\ usable' = TRUE
    /\ streak' = StreakOver
    /\ scale' = IF placed # 0 /\ Session(placed) = Session(f) THEN scale ELSE 1
    /\ IF joined
       THEN Install(pending, Placed(f, scale', mine))
       ELSE UNCHANGED <<pending, placed, toServer>>
    /\ UNCHANGED <<active, holding, retain>>

\* A frame from the backend; one that is not newer is ignored.
Receive ==
    /\ Len(toServer) < MaxInFlight
    /\ \E f \in Frames : f > latest /\ (ReceiveEmpty(f) \/ ReceiveUsable(f))
    /\ UNCHANGED <<troubles, joined, mine, serverVars, toClient>>

\* persistAndReinstall: the player moves the anchor (which changes nothing that
\* travels) or the scale.
Reinstall ==
    /\ joined
    /\ Len(toServer) < MaxInFlight
    /\ scale' \in Scales
    /\ IF latest # 0 /\ usable
       THEN Install(pending, Placed(latest, scale', mine))
       ELSE UNCHANGED <<pending, placed, toServer>>
    /\ UNCHANGED <<troubles, joined, latest, usable, active, holding, streak, retain, mine,
                   serverVars, toClient>>

\* The clear key.
Clear ==
    /\ "clear" \in troubles /\ joined
    /\ Len(toServer) < MaxInFlight
    /\ SendClear(FALSE)
    /\ UNCHANGED <<troubles, joined, latest, usable, scale, placed, pending, active, holding,
                   streak, mine, serverVars, toClient>>

ClearLocal ==
    /\ pending' = {} /\ active' = None /\ holding' = FALSE

FromServer(type) ==
    /\ toClient # <<>> /\ Head(toClient).type = type
    /\ toClient' = Tail(toClient)

\* onAck "world changed": no clear of this client, no flag is used.
OnWorldChanged ==
    /\ FromServer("world")
    /\ ClearLocal
    /\ UNCHANGED <<troubles, joined, latest, usable, scale, placed, streak, retain, mine,
                   serverVars, toServer>>

\* onAck "cleared": the oldest flag says whether the picture stays.
OnCleared ==
    /\ FromServer("cleared")
    /\ retain' = IF retain = <<>> THEN <<>> ELSE Tail(retain)
    /\ IF retain # <<>> /\ Head(retain) THEN UNCHANGED <<pending, active, holding>> ELSE ClearLocal
    /\ UNCHANGED <<troubles, joined, latest, usable, scale, placed, streak, mine, serverVars,
                   toServer>>

\* The pending snapshots an ack answers: at most one.
Match(ack) == {p \in pending : p.frame = ack.snapshot.frame /\ ack.snapshot.binding = mine}

\* Bug: a refusal is taken for an acceptance.
AnyAnswer(ack) == TRUE

Accepted(ack) == ack.accepted

\* onAck: nothing matches, or the server refused, or something newer is shown.
OnAckIgnored ==
    /\ FromServer("ack")
    /\ LET ack == Head(toClient) IN
       /\ \/ Match(ack) = {}
          \/ ~Accepted(ack)
          \/ active # None /\ Older(ack.snapshot.frame, active.frame)
       /\ pending' = pending \ Match(ack)
    /\ UNCHANGED <<troubles, joined, latest, usable, scale, placed, active, holding, streak,
                   retain, mine, serverVars, toServer>>

\* onAck: the snapshot that is pending for the frame becomes the visible one.
OnAckActivates ==
    /\ FromServer("ack")
    /\ Accepted(Head(toClient))
    /\ \E p \in Match(Head(toClient)) :
         /\ active = None \/ ~Older(p.frame, active.frame)
         /\ pending' = pending \ {p}
         /\ \/ active' = p /\ holding' = FALSE /\ UNCHANGED <<retain, toServer>>
            \/ \* the upload failed: the old picture stays
               /\ "upload" \in troubles
               /\ holding' = (active # None)
               /\ SendClear(TRUE)
               /\ UNCHANGED active
    /\ UNCHANGED <<troubles, joined, latest, usable, scale, placed, streak, mine, serverVars>>

\* onAvatarState: another binding takes the picture away and sends the frame again.
OnAvatarState ==
    /\ FromServer("avatar")
    /\ LET b == Head(toClient).binding IN
       IF b = mine
       THEN UNCHANGED <<scale, placed, pending, active, mine, toServer>>
       ELSE /\ mine' = b
            /\ active' = None
            /\ scale' = IF b.revision # mine.revision THEN 1 ELSE scale
            /\ IF joined /\ latest # 0 /\ usable
               THEN Install({}, Placed(latest, scale', b))
               ELSE /\ pending' = {}
                    /\ placed' = IF b.revision # mine.revision THEN 0 ELSE placed
                    /\ UNCHANGED toServer
    /\ UNCHANGED <<troubles, joined, latest, usable, holding, streak, retain, serverVars>>

-----------------------------------------------------------------------------
(* The server. *)

FromClient(type) ==
    /\ toServer # <<>> /\ Head(toServer).type = type
    /\ Len(toClient) < MaxInFlight
    /\ toServer' = Tail(toServer)

\* Bug: what is active cannot be placed anew.
StaleUnlessNewer(f) == cursor # 0 /\ Session(f) = Session(cursor) /\ f <= cursor

\* SnapshotStore.install: not newer than the cursor, and no new placement of what
\* is active.
Stale(f) ==
    /\ cursor # 0 /\ Session(f) = Session(cursor)
    /\ f < cursor \/ (f = cursor /\ stored = None)

\* onInstall: of the binding and for a target in the observer's dimension.
OnInstall ==
    /\ FromClient("install")
    /\ LET s == Head(toServer).snapshot IN
       \E away \in IF "away" \in troubles /\ bound.target = "separate" THEN BOOLEAN ELSE {FALSE} :
         LET ok == s.binding = bound /\ ~away /\ ~Stale(s.frame) IN
         /\ toClient' = Append(toClient, Ack(s, ok))
         /\ stored' = IF ok THEN s ELSE stored
         /\ cursor' = IF ok THEN s.frame ELSE cursor
    /\ UNCHANGED <<troubles, joined, clientVars, bound>>

\* onClear: the cursor stays.
OnClear ==
    /\ FromClient("clear")
    /\ stored' = None
    /\ toClient' = Append(toClient, Cleared(Head(toServer).keep))
    /\ UNCHANGED <<troubles, joined, clientVars, cursor, bound>>

\* A live snapshot outlives its time.
Expire ==
    /\ "live" \in troubles /\ stored # None
    /\ stored' = None
    /\ UNCHANGED <<troubles, joined, clientVars, cursor, bound, toServer, toClient>>

\* AFTER_PLAYER_CHANGE_WORLD.
ChangeWorld ==
    /\ "world" \in troubles /\ stored # None
    /\ Len(toClient) < MaxInFlight
    /\ stored' = None
    /\ toClient' = Append(toClient, WorldChanged)
    /\ UNCHANGED <<troubles, joined, clientVars, cursor, bound, toServer>>

\* The bindings a command leads to: self, despawn, spawn and control; recalibrate.
NextBindings ==
    {[bound EXCEPT !.generation = @ + 1, !.target = t] : t \in {"self", "separate"}}
        \cup {[bound EXCEPT !.generation = @ + 1, !.revision = @ + 1]}

Rebind ==
    /\ joined /\ bound.generation < MaxGeneration
    /\ Len(toClient) < MaxInFlight
    /\ bound' \in NextBindings
    /\ toClient' = Append(toClient, AvatarState(bound'))
    /\ UNCHANGED <<troubles, joined, clientVars, stored, cursor, toServer>>

Next ==
    \/ Join \/ Leave \/ Receive \/ Reinstall \/ Clear
    \/ OnWorldChanged \/ OnCleared \/ OnAckIgnored \/ OnAckActivates \/ OnAvatarState
    \/ OnInstall \/ OnClear \/ Expire \/ ChangeWorld \/ Rebind

Spec == Init /\ [][Next]_vars

-----------------------------------------------------------------------------
(* Properties. *)

ClearsIn(channel) == {k \in DOMAIN channel : channel[k].type \in {"clear", "cleared"}}

\* One flag for each clear of the channel, in their order.
InStep(flags, channel) ==
    \E at \in [DOMAIN flags -> ClearsIn(channel)] :
        /\ \A i, j \in DOMAIN flags : i < j => at[i] < at[j]
        /\ \A k \in ClearsIn(channel) : \E i \in DOMAIN flags : at[i] = k
        /\ \A i \in DOMAIN flags : channel[at[i]].keep = flags[i]

\* The flags of the client are those of the clears under way, in their order: the
\* answer to a clear is never taken for the answer to another one, although the
\* payloads carry no id and the server also clears on its own (the comment at
\* retainVisualOnClear).
FlagsInStep == InStep(retain, toClient \o toServer)

\* What the client shows was accepted by the server, and for the binding the
\* client knows.
ClientNeverAhead ==
    active # None =>
        /\ cursor # 0 /\ ~Older(cursor, active.frame)
        /\ Session(active.frame) <= Session(cursor)
        /\ active.binding = mine

\* While tracking is lost nothing can be hit: once the server has read what was
\* sent, it has no snapshot (receive, sendClear).
NoHitsWithoutTracking == joined /\ streak /\ toServer = <<>> => stored = None

Quiet == joined /\ toServer = <<>> /\ toClient = <<>>
Interactive == stored # None /\ stored.binding = bound

\* When all payloads have been read, what can be hit is what is shown
\* (docs/architecture.md, step 11).
HitboxesAreShown == Quiet /\ Interactive => active = stored

\* The same where no clear and no change of dimension crosses an install and the
\* target stays within reach: lost tracking, expiry, bindings and failing uploads
\* do not part the two.
CalmHitboxesAreShown == troubles \cap {"clear", "world", "away"} = {} => HitboxesAreShown

\* When all payloads have been read, a snapshot that is shown as active can be hit,
\* unless a trouble says otherwise (docs/workflows/04-minecraft-mod.md, the snapshot
\* state machine).
CalmShownCanBeHit ==
    Quiet /\ troubles \cap {"live", "upload", "away"} = {} /\ active # None /\ ~holding =>
        stored = active

\* A snapshot becomes visible only when the server has accepted that snapshot, its
\* placement included (the class comment of ClientSnapshotCoordinator).
ActivatedAsAccepted ==
    [][active' # active /\ active' # None =>
        /\ Head(toClient).type = "ack" /\ Head(toClient).accepted
        /\ Head(toClient).snapshot = active']_vars

=============================================================================
