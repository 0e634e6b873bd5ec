------------------------------ MODULE ScanRelay ------------------------------
(***************************************************************************)
(* How one player's scan reaches the clients of the others: the owner's    *)
(* client sends an accepted scan in parts (ClientSnapshotCoordinator), the *)
(* server puts them together, publishes, caches and removes                *)
(* (HumanCraftServer, ScanTransfer), and viewers put the parts together    *)
(* once more.  SnapshotInstall has the installs this builds on.            *)
(*                                                                         *)
(* A scan is the number of its install; its transfer has the same number.  *)
(* A publication that fails for what the model leaves out - an install     *)
(* older than two seconds, a target elsewhere, an obsolete binding, the    *)
(* rate limit - is one that is not made.                                   *)
(***************************************************************************)
EXTENDS Integers, Sequences, FiniteSets, SequencesExt

CONSTANTS
    Viewers, Worlds,
    Parts,          \* parts of a scan
    MaxScans,       \* bound: installs
    MaxUnderWay     \* bound: payloads under way from and to the owner

ASSUME RelayAssumption ==
    /\ Parts \in Nat \ {0} /\ MaxScans \in Nat /\ MaxUnderWay \in Nat
    /\ Worlds \cap {"none", "away", "moved"} = {}

VARIABLES
    installs,       \* installs sent
    out,            \* outgoingScanChunks
    up, answers,    \* payloads to the server and answers to the owner, under way
    world,          \* where the owner is
    accepted,       \* acceptedInstalls: the world in which each was accepted
    incoming,       \* incomingScans of the owner: the transfer and the parts it has
    visual,         \* sharedVisuals of the owner
    sequence,       \* publicationSequence
    ticked,         \* the server ticked since the last publication
    at,             \* at[v]: the world viewer v joined, "away", or "moved" when it left that world
    down,           \* down[v]: payloads to viewer v under way
    latest,         \* latest[v]: remotePublications of the owner
    receiving,      \* receiving[v]: incomingScans of the owner
    shown,          \* shown[v]: the publication v renders, 0 for none
    troubled,       \* parts may come more than a second apart and uploads to the GPU fail
    lastCleared     \* history: the last install accepted before the last clear

ownerVars == <<installs, out, up, answers>>
viewerVars == <<at, down, latest, receiving, shown>>
serverVars == <<accepted, incoming, visual, sequence, ticked, lastCleared>>
vars == <<ownerVars, world, serverVars, viewerVars, troubled>>

None == [pub |-> 0, scan |-> 0, parts |-> {}]
NoVisual == [pub |-> 0, scan |-> 0, world |-> "none"]
All == 1 .. Parts

Init ==
    /\ installs = 0 /\ out = <<>> /\ up = <<>> /\ answers = <<>>
    /\ world \in Worlds
    /\ accepted = <<>> /\ incoming = None /\ visual = NoVisual
    /\ sequence = 0 /\ ticked = TRUE /\ lastCleared = 0
    /\ at = [v \in Viewers |-> "away"]
    /\ down = [v \in Viewers |-> <<>>]
    /\ latest = [v \in Viewers |-> 0] /\ shown = [v \in Viewers |-> 0]
    /\ receiving = [v \in Viewers |-> None]
    /\ troubled \in BOOLEAN

Present == {v \in Viewers : at[v] # "away"}

-----------------------------------------------------------------------------
(* The owner's client. *)

Send(payload) == Len(up) < MaxUnderWay /\ up' = Append(up, payload)

SendInstall ==
    /\ installs < MaxScans
    /\ installs' = installs + 1
    /\ Send([type |-> "install", scan |-> installs + 1])
    /\ UNCHANGED <<out, answers, world, serverVars, viewerVars, troubled>>

SendClear ==
    /\ Send([type |-> "clear"])
    /\ UNCHANGED <<installs, out, answers, world, serverVars, viewerVars, troubled>>

\* queueSharedScan: the parts of the scan that is shown now replace those of the one
\* before; less than 100 ms after that one nothing is shared.
OnAck ==
    /\ answers # <<>>
    /\ answers' = Tail(answers)
    /\ \/ out' = [i \in All |-> [type |-> "part", scan |-> Head(answers), part |-> i]] /\ Head(answers) # 0
       \/ out' = out
       \/ Head(answers) = 0 /\ out' = <<>>
    /\ UNCHANGED <<installs, up, world, serverVars, viewerVars, troubled>>

SendPart ==
    /\ out # <<>>
    /\ Send(Head(out))
    /\ out' = Tail(out)
    /\ UNCHANGED <<installs, answers, world, serverVars, viewerVars, troubled>>

-----------------------------------------------------------------------------
(* The server. *)

Answer(payload) == Len(answers) < MaxUnderWay /\ answers' = Append(answers, payload)

Arrives(type) == up # <<>> /\ Head(up).type = type /\ up' = Tail(up)

OnInstall ==
    /\ Arrives("install")
    /\ accepted' = Append(accepted, [scan |-> Head(up).scan, world |-> world])
    /\ Answer(Head(up).scan)
    /\ UNCHANGED <<installs, out, world, incoming, visual, sequence, ticked, lastCleared, viewerVars, troubled>>

\* removeSharedVisual
RemoveVisual ==
    IF visual = NoVisual THEN UNCHANGED <<visual, sequence, down>>
    ELSE /\ visual' = NoVisual
         /\ sequence' = sequence + 1
         /\ down' = [v \in Viewers |->
                        IF v \in Present THEN Append(down[v], [pub |-> sequence + 1, scan |-> 0, part |-> 0])
                        ELSE down[v]]

\* Bug: a clear leaves the accepted installs.
KeepAccepted == UNCHANGED accepted

ForgetAccepted == accepted' = <<>>

OnClear ==
    /\ Arrives("clear")
    /\ ForgetAccepted
    /\ incoming' = None
    /\ RemoveVisual
    /\ Answer(0)
    /\ lastCleared' = IF accepted = <<>> THEN lastCleared ELSE Last(accepted).scan
    /\ UNCHANGED <<installs, out, world, ticked, at, latest, receiving, shown, troubled>>

\* ScanTransfer.accept, in a transfer of its own when the one under way is another or
\* too old.
Assembled(transfer, pub, p, fresh) ==
    LET t == IF fresh \/ transfer.pub # pub \/ transfer.scan # p.scan
             THEN [pub |-> pub, scan |-> p.scan, parts |-> {}] ELSE transfer
    IN  [t EXCEPT !.parts = @ \cup {p.part}]

PartsOf(pub, scan) == [i \in All |-> [pub |-> pub, scan |-> scan, part |-> i]]

\* Bug: nothing spaces publications.
AnyTime == TRUE

\* Publications are 100 ms apart, two ticks when ticks are on time.
Spaced == ticked

\* The publication, its place in the cache and its parts on the way to the others.
Publish(install) ==
    /\ Spaced /\ ticked' = FALSE
    /\ sequence' = sequence + 1
    /\ visual' = [pub |-> sequence + 1, scan |-> install.scan, world |-> install.world]
    /\ down' = [v \in Viewers |-> IF at[v] = install.world
                                  THEN down[v] \o PartsOf(sequence + 1, install.scan) ELSE down[v]]

OnScanChunk ==
    /\ Arrives("part")
    /\ \E fresh \in {troubled, FALSE} :
         LET t == Assembled(incoming, 0, Head(up), fresh)
         IN  IF t.parts # All
             THEN incoming' = t /\ UNCHANGED <<visual, sequence, ticked, down>>
             ELSE /\ incoming' = None
                  /\ \/ \E i \in DOMAIN accepted : accepted[i].scan = t.scan /\ Publish(accepted[i])
                     \/ UNCHANGED <<visual, sequence, ticked, down>>
    /\ UNCHANGED <<installs, out, answers, world, accepted, lastCleared, at, latest, receiving, shown, troubled>>

\* AFTER_PLAYER_CHANGE_WORLD: accepted installs and the transfer under way stay.
ChangeWorld ==
    /\ world' \in Worlds \ {world}
    /\ RemoveVisual
    /\ Answer(0) \/ UNCHANGED answers      \* no answer when no snapshot was installed
    /\ UNCHANGED <<installs, out, up, accepted, incoming, ticked, lastCleared, at, latest, receiving, shown, troubled>>

\* onTick removes a visual of another world, or whose target has gone.
Tick ==
    /\ ticked' = TRUE
    /\ \/ RemoveVisual
       \/ visual.world \in {world, "none"} /\ UNCHANGED <<visual, sequence, down>>
    /\ UNCHANGED <<ownerVars, world, accepted, incoming, lastCleared, at, latest, receiving, shown, troubled>>

\* The owner's connection ends, its publications are forgotten, and it comes back.
OwnerLeaves ==
    /\ RemoveVisual
    /\ accepted' = <<>> /\ incoming' = None
    /\ ticked' = TRUE
    /\ out' = <<>> /\ up' = <<>> /\ answers' = <<>>
    /\ UNCHANGED <<installs, world, lastCleared, at, latest, receiving, shown, troubled>>

-----------------------------------------------------------------------------
(* The viewers. *)

\* JOIN: replaySharedVisuals.
Join(v, w) ==
    /\ at[v] = "away"
    /\ at' = [at EXCEPT ![v] = w]
    /\ down' = [down EXCEPT ![v] = IF visual.world = w THEN PartsOf(visual.pub, visual.scan) ELSE <<>>]
    /\ UNCHANGED <<ownerVars, world, serverVars, latest, receiving, shown, troubled>>

Leave(v) ==
    /\ v \in Present
    /\ at' = [at EXCEPT ![v] = "away"]
    /\ down' = [down EXCEPT ![v] = <<>>]
    /\ latest' = [latest EXCEPT ![v] = 0] /\ shown' = [shown EXCEPT ![v] = 0]
    /\ receiving' = [receiving EXCEPT ![v] = None]
    /\ UNCHANGED <<ownerVars, world, serverVars, troubled>>

\* A viewer changes worlds; nobody tells it what is shared there.
Travel(v) ==
    /\ at[v] \in Worlds
    /\ at' = [at EXCEPT ![v] = "moved"]
    /\ UNCHANGED <<ownerVars, world, serverVars, down, latest, receiving, shown, troubled>>

OnSharedScanChunk(v) ==
    /\ down[v] # <<>> /\ Head(down[v]).part # 0
    /\ down' = [down EXCEPT ![v] = Tail(@)]
    /\ LET p == Head(down[v])
           t == Assembled(receiving[v], p.pub, p, FALSE)
       IN  IF p.pub < latest[v] THEN UNCHANGED <<latest, receiving, shown>>
           ELSE /\ latest' = [latest EXCEPT ![v] = p.pub]
                /\ receiving' = [receiving EXCEPT ![v] = IF t.parts = All THEN None ELSE t]
                /\ \E uploaded \in {TRUE, ~troubled} :
                       shown' = [shown EXCEPT ![v] = IF t.parts = All /\ uploaded THEN p.pub ELSE @]
    /\ UNCHANGED <<ownerVars, world, serverVars, at, troubled>>

OnSharedScanRemoved(v) ==
    /\ down[v] # <<>> /\ Head(down[v]).part = 0
    /\ down' = [down EXCEPT ![v] = Tail(@)]
    /\ IF Head(down[v]).pub < latest[v] THEN UNCHANGED <<latest, receiving, shown>>
       ELSE /\ latest' = [latest EXCEPT ![v] = Head(down[v]).pub]
            /\ receiving' = [receiving EXCEPT ![v] = None]
            /\ shown' = [shown EXCEPT ![v] = 0]
    /\ UNCHANGED <<ownerVars, world, serverVars, at, troubled>>

\* The tick of a client drops a transfer that takes too long.
Expire(v) ==
    /\ troubled /\ receiving[v] # None
    /\ receiving' = [receiving EXCEPT ![v] = None]
    /\ UNCHANGED <<ownerVars, world, serverVars, at, down, latest, shown, troubled>>

Next ==
    \/ SendInstall \/ SendClear \/ OnAck \/ SendPart
    \/ OnInstall \/ OnClear \/ OnScanChunk \/ ChangeWorld \/ Tick \/ OwnerLeaves
    \/ \E v \in Viewers :
         \/ \E w \in Worlds : Join(v, w)
         \/ Leave(v) \/ Travel(v) \/ OnSharedScanChunk(v) \/ OnSharedScanRemoved(v) \/ Expire(v)

Spec == Init /\ [][Next]_vars

-----------------------------------------------------------------------------
(* Properties. *)

\* A viewer that stays in the world it joined shows, once it has read what was sent to
\* it, the publication the server holds for that world and no other, however joining
\* fell among publications, removals and the owner's journeys (broadcast,
\* replaySharedVisuals, removeSharedVisual), unless parts come too slowly or cannot be
\* drawn.  A visual of a world the owner has left is not spoken of: the next tick
\* removes it.
ViewersAgree ==
    \A v \in Viewers :
        ~troubled /\ at[v] \in Worlds /\ down[v] = <<>> /\ visual.world \in {world, "none"} =>
            shown[v] = IF visual.world = at[v] THEN visual.pub ELSE 0

\* Parts that were under way when the owner cleared never bring the scan back
\* (docs/contracts.md).
ClearedStaysCleared ==
    [][visual'.scan # visual.scan => visual'.scan \notin 1 .. lastCleared]_vars

=============================================================================
