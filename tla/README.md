# Verification of HumanCraft

Two phones photograph a person from two sides, a Python backend turns each pair
of photographs into a point cloud with colliders, and a Minecraft mod shows the
cloud at a player and lets others hit the colliders. This directory holds a
TLA+ development of the program in `src/`: modules translated from its code, the
TLC configurations that check them on small instances, and proofs that TLAPS
checks for every value of the constants. Paths below are relative to `src/`;
`backend/…` abbreviates `backend/src/hmc_backend/…`, `mod/…` and `client/…` the
two Java source trees of `minecraft-mod` (`main` and `client`).

1. [Inventory](#1-inventory) of the system
2. [Modules](#2-modules) and how they correspond to the code
3. [Runs](#3-runs): what is checked, bounds, fairness
4. [Proofs](#4-proofs)
5. [Where the code and its documents disagree](#5-where-the-code-and-its-documents-disagree)
6. [What is not modelled](#6-what-is-not-modelled)
7. [Plan](#7-plan)

## 1. Inventory

    phone ──capture_request──┐                                ┌── client ── logical server
    phone ──RGBD, pongs──> backend (one event loop,  ──/ws/──> │  (render     (server
           (WebSocket)       worker threads)         character │   thread)     thread)
                                                              └── other clients (LAN relay)

| component | state it keeps | operations | hard behaviour | what makes it correct |
|---|---|---|---|---|
| **capture pairing** `backend/capture/pairing.py` | a deque of waiting frames per phone | offer, clear a phone | any order of arrival, eviction, skewed candidates, reconnects | a pair is sound, a frame is used once, no pair is overlooked, only the oldest frame is lost |
| **clock estimation** `backend/capture/clock.py` | the best recent round trips of a phone | pong, offset, uncertainty | uneven delays, a phone that restarts | the uncertainty covers the error |
| **capture dispatch** `backend/api/runtime.py`, `app.py`, `hub.py` | connections and their tokens, the clock samples, the in-flight table, the live task | connect, disconnect, pong, dispatch, live start and stop, calibration start, shutdown | three coroutines suspended in sends while phones leave and come back | a late failure harms no new connection, the window holds, live mode neither dies nor stalls |
| **rig calibration and publication** `backend/api/runtime.py`, `calibration/` | the board session and its observations, the calibration task and deadline, rig in memory and in the file, pairer, frame counter, store | register, cancel, observe, solve, commit, process a pair, publish, restart | worker threads against the event loop, cancellation, timeouts, failing writes, crashes | the active rig is complete, is the one in the file, survives failures, and frames are published only under it |
| **character stream** `backend/pipeline/snapshot_store.py`, `api/hub.py`, `api/app.py` | the latest frame, one queue of one item for each subscriber | publish, broadcast a text, connect, send, disconnect | publication while a send is awaited, slow clients | in order, none twice, what waits is the newest |
| **snapshot install** `client/state/ClientSnapshotCoordinator.java`, `mod/server/SnapshotStore.java`, `HumanCraftServer.java`, `avatar/AvatarService.java` | client: pending, active, flags of the clears under way, binding; server: active snapshot, cursor, binding | receive a frame, install, clear, acknowledge, rebind, change dimension, expire, reconnect | requests and unsolicited answers cross on two channels, uploads fail | what is shown was accepted; what can be hit is what is shown |
| **LAN scan relay** `mod/network/ScanTransfer.java`, `mod/server/HumanCraftServer.java`, `client/state/ClientSnapshotCoordinator.java` | parts queued and received, accepted installs, publication numbers, cached scans | send a part, publish, remove, replay to late joiners | late parts after a clear or a change of world, late joiners | viewers show what the server holds; what was cleared stays cleared |
| **server interactions** `mod/server/ProbeService.java`, `ContactService.java`, `ArmSwingGate.java` | contact set and its heartbeat, gate of arm swings, verdicts | probe, contact tick, swing, projectile tick | evidence of one snapshot against another | only current evidence has an effect |
| **avatar service** `mod/avatar/` | binding counters, internal player, control timeout | spawn, despawn, control, recalibrate, respawn | death, dimension change, lost input | the binding is the one effects apply to |
| **character socket** `client/backend/CharacterWebSocket.java` | attempt under way, scheduled retry, current socket | connect, open, close, error, reconnect key, stop | timer and listeners on one thread, the key on another; callbacks of sockets that were replaced | the client never stops trying and ends up subscribed where it sends commands |
| **phone capture app** `ios-capture/` | AR session, backpressure queue, socket state | capture, encode, send, reconnect | encoding overtaken by a new session, a reconnect task that was cancelled | an answer of the session that was asked, the newest frame first |
| **backend discovery** `backend/api/discovery.py`, `ios-capture/…/BackendDiscovery.swift` | none | announce, look up | — | — |
| **wire protocol** `backend/protocol/`, `contracts/`, `capture/rgbd_ingest.py`, `mod/contract/`, `ios-capture/…/HMCEnvelope.swift` | none | encode, validate | boundary values, agreement of separate implementations | what is accepted is whole, and every decoder accepts the same |
| **frame processing** `backend/pipeline/processor.py`, `assembler.py` | corrections of view poses, registrations asked for, what is known of the subject, frame counter | one call from pair to frame, install of a rig | a placement is used several stages after it was decided | points are where the fitter thinks they are, labels say what was measured |
| **vision** `backend/vision/` | none | detect, sample depth, assign hands, fuse | occlusion, depth edges, two hands alike | no joint off the body, no ambiguous hand |
| **reconstruction and colliders** `backend/reconstruction/`, `colliders/` | the subject model | assemble views, fit, validate, learn | a failing fit teaches, fallbacks | the views meet; only validated measurements are learned |
| **recording and replay** `backend/capture/recording.py`, `replay.py` | files | save, load | — | what is loaded was saved |
| **rendering and input** `client/render/`, `client/input/` | GPU buffers, key state | draw, press | failing uploads | — |
| **telemetry, fixtures, tools** | none the rest depends on | — | — | — |

How they meet: a phone's packet passes the dispatch bookkeeping and the ingest
lock of `runtime.py`, is stamped with a normalized time by the clock estimator
and offered to the pairer; a pair is either a board observation (calibration) or
is processed into a frame, which the store keeps and the hub broadcasts. The
client of the mod decodes frames on the socket's thread and hands them to the
render thread; from there on everything about a scan is a dialogue between client
and logical server over two ordered channels of payloads.

Concurrency: the backend is one event loop with worker threads under one lock
(`_ingest_lock`); a step of a model of the backend is what happens between two
awaits. The mod's client state belongs to the render thread, its server state to
the server thread, so a step there is one handler. The hazards of this code, each
at its line and with the properties that would show it going wrong, are listed
in `PROJECT.json`.

## 2. Modules

| module | models | proofs |
|---|---|---|
| `FrameMatching` | abstract: frames wait, two that match leave together | |
| `Pairer` | `Pairer.offer` as relations on a pair of queues | |
| `Pairing` | the life of one `Pairer`; implements `FrameMatching` | `PairingProofs` |
| `CaptureDispatch` | connections, dispatch, live loop, calibration drain | `CaptureDispatchProofs` |
| `RigCalibration` | calibration loop, board observations, commit, ingest, restart | `RigCalibrationProofs` |
| `BoardSession` | what a board session observes, refuses and solves | `CameraProofs` |
| `CharacterStream` | store, hub and `/ws/character` | `CharacterStreamProofs` |
| `CharacterSocket` | the sockets of one client; implements `CharacterStream` | `CharacterStreamProofs` |
| `SnapshotInstall` | one player's scan between client and logical server | `SnapshotInstallProofs` |
| `ScanRelay` | an accepted scan on its way to the clients of others | `ScanRelayProofs` |
| `Envelope`, `RgbdIngest`, `CharacterWire` | the checks of an HMC1 message, of an RGBD capture, of a character frame and its decoders | `FrameProcessingProofs` |
| `ClockEstimation` | round trips, offset, uncertainty | `FrameProcessingProofs` |
| `FrameLink` | a message or pongs arriving at the end of a link; composes the four above | `FrameProcessingProofs` |
| `Medians` | the median of a function's values; used by `BoardSession`, `BodyMerge`, `ClockEstimation` and `DepthSampling` | lemmas in `CameraProofs` and `FrameProcessingProofs` |
| `BodyMerge` | the forced assembly of two opposing views | |
| `BodyFitting` | collider fitters, labels, what the subject learns; over `CharacterWire` | |
| `FrameProcessing` | one pair after another to a published frame; composes `BodyMerge` and `BodyFitting` | `FrameProcessingProofs` |
| `DepthSampling`, `HandAssociation`, `LandmarkFusion` | depth at a joint, hands of arms, one skeleton from two views | `CameraProofs` |
| `Vision` | images to a skeleton; composes the three above | `CameraProofs` |

An `MC…` module gives a model its small sets. A definition whose comment begins
with "Bug" is a plausible mistake in the definition below it; no specification
uses it, and each property is shown to fail when it takes that definition's place.

### Pairer, Pairing, FrameMatching

`Offer(q, f, newq, outcome)` is `Pairer.offer`: the two refusals, the pair that
takes its partner out of the other deque, or the frame retained in its own
`deque(maxlen=…)`. The search keeps the closest candidate and, of several, the
earliest (`<` in the loop), as `IsBest` says. A frame is a record of what the pairer
reads; `id` is the identity of the Python object. Midpoint time, pair id and
calibration stamp are outputs nothing here depends on. `Pairing` offers frames of
both phones and of strangers in any order and clears a phone's deque
(`clear_device`, on reconnection). `emitted` is a history variable.

The abstract `FrameMatching` has no queues: it only says that a pair leaves with
the arrival of one of its frames, that the other one waited, that the two match
and that neither waits afterwards. `ImplementsMatching` is the refinement, with
`waiting` mapped to the union of the deques.

### CaptureDispatch

| variable | code |
|---|---|
| `token`, `made` | `_CaptureDevice.token`, reissued at every registration |
| `handlers`, `broken` | running `ws_capture` handlers; those whose peer is gone |
| `samples` | which connections' pongs the `ClockEstimator` of a phone holds |
| `board`, `wasLive` | `_board_task`, the local `was_live` of `_calibration_loop` |
| `live`, `inflight`, `overdue` | `_live_task`, `_live_inflight` and its ages |
| `call` | where each of the three callers of `dispatch_capture` is suspended |

`call[p]` holds the token that `dispatch_capture` took before the await, as the code
does. A send is asynchronous, so the pair of a capture may be complete before the
capture is counted (`AnsweredEarly`). `rigReady` changes freely: the rig belongs to
`RigCalibration`. The map of the last 256 capture modes is left out.

### RigCalibration, BoardSession

The ingest lock is `ingest`: the stage one packet has reached, the job or rig it was
started for and the AR sessions of its pair. Everything else (a DELETE, a new
registration, the deadline, a phone's new AR session) interleaves with every stage.
`OfferChecks` and `Observed` are two steps because the observation of a board image
runs in a worker thread between them; that the checks of the first are not
repeated in the second is in the code. `Commit` is one step: it runs on the event loop
without an await, and either all of processor, file and memory change or none.
`Crash` keeps the file only. The pairer is one waiting frame for each phone, as
pairing itself has its own module. `PhoneMoved` is `RigFreshness` without its counts.

There, what a board image shows is a verdict; `BoardSession` says how it comes
about. Phones stand along a line over a board that lies flat, and may be moved, as
may the board, between any two observations. An observation passes the checks of
`offer` in their order (baseline, corners and coverage, the two poses a planar board
allows, residual); `solve` takes medians, refuses what disagrees and compares the
tilt with gravity. Rejection counters, detection in the image and the numeric
pose are left out.

### CharacterStream, CharacterSocket

`Publish` is the turn in which `runtime.py` replaces the stored frame and the hub puts
it into the queues. `Connect`, `SendLatest` and `Subscribe` are the three awaits of
`ws_character`: the hello is answered, the store is read and sent, then the client
subscribes. `Take` and `Sent` are `_character_sender`. Status texts share the queues
(`Announce`).

`CharacterSocket` adds the client: its subscribers are the sockets one client opens
one after another or, as happens, side by side. Timer tasks, attempts and listeners
run on the one scheduler thread; `reconnectNow` is on the render thread, so its
three steps (`ReconnectNow` reads the field, `Forget` clears it and aborts what was
read, `Reschedule` takes back the mark and schedules) fall between theirs. `onOpen`
and the hello it sends are two steps for the same reason. `scheduled` is
`reconnectScheduled`, `attempt` is `connectInFlight`, `tasks` counts timer tasks that
have not run: the mark and the tasks are kept apart because the code does.

### SnapshotInstall, ScanRelay

Client and server exchange payloads over `toServer` and `toClient`. A snapshot is a
frame, the user's scale and the binding it was placed for. Of
`ScanNormalization.transform` only what changes between two placements of one frame
is kept: the scale. `retain` is `retainVisualOnClear`, the client's only means to tell
the answers to its clears apart; the field `keep` in clear payloads is not in the
code and serves the property `FlagsInStep` alone. `troubles`, chosen once for each
behaviour, says which disturbances occur, so that one run can ask both what holds
always and what holds when nothing explains a difference.

`ScanRelay` starts where an install was accepted: the owner's client queues the parts
of the scan (`OnAck`, `SendPart`), the server puts them together, publishes and caches
(`OnScanChunk`, `Publish`), replays to who joins and removes when the owner clears,
leaves or is found in another world (`RemoveVisual`, `Tick`); viewers put the parts
together again. A scan is the number of its install. That a publication does not
come about (an install older than two seconds, an obsolete binding, an unavailable
target, too many bytes) is one choice. `ticked` is the 100 ms between publications:
at least one tick, two when ticks are on time. `troubled` says whether parts may
come more than a second apart and uploads to the GPU fail.

### Envelope, RgbdIngest, CharacterWire, ClockEstimation, FrameLink

A decoder is an operator that returns "ok" or the code of the error it raises first,
with the checks in the code's order. A message is a record of what decoders look
at: lengths, the five fields of the prefix, the header object, what the payload
says; a JSON value of a wrong type is a number out of range. `CharacterWire` has the
validation of colliders, the encoder, the decoder of the backend and the one of the
mod, each from its own source. `ClockEstimation` keeps offsets in half units and
medians in quarters, so nothing is rounded. In `FrameLink` a message of either kind,
whole or damaged, or pongs of a phone that may restart, arrive at the end of a link.
Its specification is named `LinkSpec`, so that one module can prove about it and about
`FrameProcessing`, whose frames pass the same decoders.

### BodyMerge, BodyFitting, FrameProcessing

`FrameProcessing` takes the stages of `CharacterProcessor.process`: reconstruct, settle
the placement of the views (registration, or forced assembly when the phones oppose
each other), fuse, fit, assemble, encode, publish. State outlives a frame:
corrections, a registration asked for, the subject model. Between two steps the
event loop may ask for a registration, between two pairs install a rig. A placement
is one number. A view's cloud for the assembly is a profile of bands, in
centimetres rounded down, whose quantiles are inputs; the raising of the rear view,
the height by height warp and the seam are the code's (`BodyMerge`). In `BodyFitting` a
pose is, for each collider, what its landmarks give, and a set of points, each with
the view it comes from and its distance to each segment; the points lie in different
voxels, so fusing them loses none, and beyond `Budget` (`max_points` of the settings)
a random selection remains. A mask of a message is the set of bits it uses. Claims, ladders of fallbacks, labels, validation and the
subject's rule of replacement are the code's. Principal axes, rotations and the
search for a registration are numbers and left out; cropping after a forced
assembly is abstracted. A registration and corrections are asked for by tests only,
in this commit.

### DepthSampling, HandAssociation, LandmarkFusion, Vision

The stage is a line along which the phones look; positions are centimetres, where
two rays meet is a table, and the similarity fitted to a prior is a shift with its
residuals, its robust weights and gates. Detections of the networks are inputs
(shots). Everything between is the code's: rotation of the image and back, masks,
windows that grow, the weighted median and the cut at a discontinuity, crops,
scores and margins of hands, triangulation with its vetoes, agreement of two
views, the prior and its gate on single-view depths, derived joints.

Lists whose order does not matter are sets here: a window is a function from places to
samples, the pairs of a hand and an arm are a set with the order in which they are
tried (`Before`). At most two of them become associations, so `AssociateHands` is
written without a loop: the first pair with a margin, then the first one behind it
with a margin once the hand that was taken is no rival any more. `Sources` are the
views in their order. The specification is `VisionSpec`, since one proof module
extends this model and `BoardSession`.

## 3. Runs

| run | asks | distinct states |
|---|---|---|
| `pairing` | any frames in any order: soundness, use once, no overlooked pair, loss only of the oldest, refinement | 25 k |
| `dispatch` | connections, dispatch, live mode and calibration: late failures, window, pause during calibration, and that live mode keeps asking | 951 k |
| `calibration` | the rig, its file and the published frames over cancellations, timeouts, failures, a restart; every calibration ends | 879 k |
| `board` | observations and solutions while board and phones are moved | 3.5 M |
| `stream` | frames at the sockets of one client that fail, are lost and replaced; the client comes back | 136 k |
| `install` | flags, acknowledgements, hitboxes and picture in all orders | 661 k |
| `relay` | what viewers show of a scan whose owner clears, travels and reconnects | 604 k |
| `wire` | messages whole and damaged at each decoder, and the clock behind their times | 89 k |
| `processing` | pairs to published frames under two rigs | 282 k |
| `vision` | two opposing views of a subject, joint by joint | 1.5 k |
| `calibration_cancelled`, `install_placement` | end in a counterexample, see section 5 | |

### What the properties say

*Pairing.* `PairsSound`: one admissible frame of each phone, same capture, within the
skew. `ConsumedOnce`: no frame is in two pairs or waits after it was paired.
`NoMatchLeftWaiting`: the two deques never hold frames that could form a pair.
`LostOnlyAsOldest`: a frame disappears into a pair, with a reconnect, or as the oldest
of a full deque. `ImplementsMatching`.

*Dispatch.* `NewConnectionUnharmed`: a registration disappears only because that very
connection is gone. `InflightBounded`. `LivePausedDuringCalibration`: no live
request goes out during a calibration, even if a client starts live mode in it.
`LiveKeepsAsking`: if from some moment on the phones and the rig are healthy, requests
go out again and again.

*Calibration.* `FileMatchesMemory`: a restart would load the active rig.
`InstalledRigComplete`: it rests on all observations of both phones.
`PublishedUnderActiveRig`: a frame is published under the rig that is active and valid
at that moment, and both halves were captured in the AR sessions that rig was
calibrated in. `CalibrationEnds`.

*Board.* `StoodStill`: all observations of a phone were made from one place, within the
tolerance, over AR sessions too. `BoardStillForEach`: a rig is not solved from
observations of a phone between which the board moved, although medians hide some.
`SolvedUpright`: a mirrored pose does not survive gravity.

*Stream.* `WaitingIsLatest`, `DeliveredInOrder`. `StillTrying`: until closed a client
always has something that leads to a connection. `CommandsReachBackend`: when
connections hold from some moment on and the key is left alone, the client ends up
subscribed on the socket it sends commands on.

*Install.* `FlagsInStep`: the flags are those of the clears under way, in order.
`ClientNeverAhead`: what is shown was accepted, for the binding the client knows.
`NoHitsWithoutTracking`: after lost tracking the server holds nothing once it has
read what was sent. `CalmHitboxesAreShown`, `CalmShownCanBeHit`: with empty channels,
what can be hit is what is shown and the other way round, unless a disturbance
named in the property occurs.

*Relay.* `ViewersAgree`: a viewer that stays in the world it joined shows, once it has
read everything, the publication the server holds for that world and no other.
`ClearedStaysCleared`: parts under way when the owner cleared never bring a scan back.

*Wire.* `AcceptedCaptureIsWhole`, `ShownFrameIsWhole`: what is accepted has buffers that
cover the payload without overlap, a sample for each pixel, a mask for each point.
`DecodersAcceptAlike`: on what this backend may write, its decoder and the mod's
agree. `OffsetWithinUncertainty`: the offset errs by three times the uncertainty at
most, once a pong of the phone's present clock was accepted.

*Processing.* `FusedWhereFitted`: whatever registration, assembly or a new rig did, the
fused points are where the calibrations given to the fitter say, and a board rig is
never corrected by a body. `OpposingViewsMeet`: at each height the assembled views
have one silhouette and meet. `ObservedMeansMeasured`: the label says so exactly when
enough points of this frame measured the collider. `SubjectNeverRegresses`,
`LearnedFromValidated`: what is learned comes from validated colliders and only gets
better. `PublishedIsReadable`: both decoders read a published frame and find what was
valid in it.

*Vision.* `HandsUnambiguous`: two hands are two candidates, and none is taken while
another would do as well. `OnTheSurface`: a depth of one view is that of a surface in
the joint's window, not between surfaces. `SkeletonNearSubject`: when a prior was
registered, what stood in front of a joint does not become the joint.

### Bounds, and why they are enough

- `pairing`: four frames, queues of two, three times (equal, within, beyond the
  limit), two captures, a stranger. Eviction needs three frames of one phone, a skewed
  candidate in front of the right one needs three, a lost partner four. The proofs
  remove the bounds.
- `dispatch`: two phones of which one connects twice (it can be replaced under a
  send), three live captures, the window of two that the code has; capture ids are
  reused once nothing refers to them, so the behaviours do not end. Both phones
  reconnecting was checked with a window of one; the proofs remove the bounds.
- `calibration`: two registrations (one may replace the other's rig), two AR sessions
  of one phone, three numbered frames, one restart, one observation required of each
  phone; `calibration_cancelled` requires two, so that observations of several pairs
  count together. The proofs remove the bounds of the safety properties.
- `board`: four observations required, so the two on one side of a median can be wrong
  together; one move of the board, one of a phone, two AR sessions; moves within and
  beyond the tolerances, images with mirrored poses. The proofs remove the bounds.
- `stream`: two names of sockets, reused without bound; three frames, so that delivered,
  on its way and waiting can all differ; the key is pressed while at most two
  connections are under way. Three sockets were checked once (1.9 million states)
  with the same result.
- `install`: three frames, the third of another backend session; two bindings; two
  payloads in each direction, so that a request crosses an answer while another one
  waits; two pending installs (32 in the code) so that eviction occurs; four
  situations: no trouble, every trouble, and two pairs of them. The proofs remove the
  bounds.
- `relay`: two scans (one can replace, or be late after, the other), two parts each,
  three payloads under way, two worlds, one viewer; viewers do not interact. Three
  scans with two payloads under way were checked once (3.9 million states). The proofs
  remove the bounds.
- `wire`: a well-formed message of each kind and one damaged section at a time, with
  lengths one short and one long; three samples kept (eight in the code), delays that
  differ by up to three units, a restart that shifts the clock either way. The proofs
  remove the bounds: any messages whose fields are what a parser yields, any delays,
  any clocks far enough apart.
- `processing`: a forearm, a hand and a foot (one collider of each shape and ladder),
  two rigs, two frames (the second one sees what the first taught), nine profiles of a
  body side, clouds that support a fit, barely, or not, a budget of two points, so that the
  selection matters. The proofs remove the bounds.
- `vision`: two phones four metres apart that face each other, joints occluded, at an
  edge, unseen or without depth, images upright and turned, hands in the image, in
  a crop, twice, or not at all. A capture is one step for each stage, so the states
  are few and each one is a whole capture. The proofs remove the bounds.

Deadlock is checked in `pairing`, `stream`, `install`, `relay` and `vision`, where
something can always come next. The backend of `dispatch` stops when it is shut
down; in `calibration`, `board`, `processing` and `wire` the bounded registrations,
moves, frames and messages run out.

### Fairness

`dispatch` assumes weak fairness of the steps of the live loop (the event loop runs a
task that is ready; its waits and sleeps have timeouts), of a send that returns, and
of a second passing for a request in flight. It assumes nothing of phones: they need
not answer. `calibration` assumes weak fairness of the calibration loop and that its
deadline of monotonic time passes; it assumes nothing of worker threads or of phones.
`stream` assumes that the scheduler thread runs the tasks and listeners it has, that an
attempt ends (it has a timeout of five seconds), that a handler of the render thread
ends, and that the handshake of `ws_character` goes on for a connection that holds. It
assumes nothing of the network: `CommandsReachBackend` speaks of behaviours in which
disturbances end.

## 4. Proofs

`PairingProofs` proves for every window, skew limit, uncertainty limit, set of
captures and times, with and without `require_capture_id`:

- `Spec => []IInv`, where `IInv` joins `TypeOK`, `QueueDiscipline`, `PairsSound`,
  `ConsumedOnce`, `NoMatchLeftWaiting` and `IdsArrived`. The last is the
  strengthening: `ConsumedOnce` is not inductive by itself, since a frame of one
  deque could share its id with one of the other, or with one yet to come.
  `NoMatchLeftWaiting` is inductive only together with the exact search of `Offer`:
  a retained frame matches nothing in the other deque, and a deque only ever
  shrinks otherwise.
- from it `TypeCorrect`, `FramesConsumedOnce`, `PairsAlwaysSound` and
  `NoMatchOverlooked`;
- `NothingElseLost` (`LostOnlyAsOldest`): what becomes of each waiting frame in a step
  (`Accounted`), where `IdsArrived` tells the frame that comes from those that wait;
- `Refinement`: `Spec => ImplementsMatching`. An offer maps to `Wait` or `Emit`, a
  cleared deque to `Lose`. The lemmas about `Without` and `Retain` (what a deque
  contains after a removal and an append) carry all of it.

`CaptureDispatchProofs` proves the three safety properties of the run `dispatch` for any
window and any number of connections and captures: `WindowKept`, `LivePaused`,
`ReconnectSafe`. The window needs `RoomForTheSend`: while the live loop awaits a send,
there is room for the capture it will count, also if calls of clients and answers
come in between. The rest types calls and tokens: a token that a suspended call
holds was issued, so a disconnection by it cannot name a connection to come.

`RigCalibrationProofs` proves for any phones, numbers of observations, registrations,
AR sessions, frames and restarts `TypeCorrect`, `RestartKeepsRig`
(`FileMatchesMemory`), `RigComplete` (`InstalledRigComplete`), `PublishesUnderActiveRig`,
and two that no run repeats: `RigSurvives` (no failure takes the active rig away) and
`IdsGrow` (ids of published frames grow between restarts). None is inductive alone.
The invariant adds

- `JobsComplete`: a session that is validating or ready has all observations and
  baselines. It holds although `Observed` sets the state without a look at the old
  one, because of `Based` and `BoardStage`: while an observation is computed, it is
  one that was wanted, so its session is not complete, nor the active rig;
- `WaitingOfRig`: what waits in the pairer was captured in the sessions of the active
  rig. `Swapped` empties the pairer, hence a change of rig keeps it;
- `CaptureStage`: from pairing to publication the ingest lock keeps rig and validity as
  they were when the pair was made;
- `Numbered`: a frame that is being encoded has a higher id than the published one.

`CancelledNeverInstalls` is not among them: it is false (section 5).

`CameraProofs` proves of `BoardSession`, for any moves, images and sessions

- `PhonesStoodStill` (`StoodStill`). The strengthening `OnePlace` says that every
  observation of a phone agrees with its baseline; two of them are then two tolerances
  apart at most;
- `CamerasUpright` (`SolvedUpright`). `Faithful` says what an accepted observation is
  worth (its pose is the true one or its mirror image), `Checked` what the checks of
  `solve` leave of a camera. Lemmas about `Medians` (a median lies between two of the
  values) and about the weighted mean (`SumOf`, by its steps) carry it: some observation
  is no farther from the camera than the median deviation, and it is tilted as the
  baseline is;
- `BoardsStoodStill`: `BoardStillForEach` where every phone is `Tilted`, farther than the
  tolerances add up to. That is a condition on the state and says what the property
  rests on: a phone that looks straight down sees the board and its mirror image under
  one tilt, and a board moved to the other side could pass for it. The poses of the run
  are tilted.

The same module, since it has the lemmas about medians, proves of `Vision`, for any
raster, shots, windows, rays, tolerances and weights

- `HandsUnambiguousAlways` (`HandsUnambiguous`). What has a margin leads every rival by it
  (`MarginLeads`), and of any pairs one comes first (`FirstIsOne`: of equal scores the
  places differ). The second hand was compared without the first one's candidate;
  that is not left over, so nothing is claimed of it;
- `OnTheSurfaceAlways` (`OnTheSurface`). The weighted median is one of the kept samples
  (`MedianIsDepth`), and each of these is within the discontinuity of the window's median,
  hence within twice that of each other (`DepthOnSurface`): twice is what holds, once
  does not. That the pixel has a window at all is `DetectionOnRaster`: a landmark is
  valid only inside the upright copy, and is put back into the raster
  (`UprightAndBack`, a theorem of its own);
- `SkeletonStaysNear` (`SkeletonNearSubject` where the views are `WellSeen`). No program can
  tell a subject from something else that all anchors agree on, so the theorem has a
  premise on the inputs: the priors have the shape of the subject, most of the observed
  anchors are near it, and so is what both views place. Nothing is asked of what one
  view places: that is the claim. `WellSeen` holds in every state of the run `vision` where a
  prior is registered and no view is warped (it was checked there as an invariant). Where most values lie,
  the median lies (`MedianOfMost`), so the shift of the prior is right up to the residual
  (`FitNear`) and the gate leaves no lone depth farther from it (`PoseNear`); hands and
  derived joints have names of their own (`HandNear`).

The invariant `VisionInv` ties the stages of a capture together: the detections are those
of the shots, the views are made of all detections, the fusion is that of the views.

`CharacterStreamProofs` proves for any clients and any number of frames
`TypeCorrect`, `SlowSubscriberHoldsNewest` (`WaitingIsLatest`), `NothingStaleOnTheWay`
(`AheadOfDelivered`, which orders delivered, travelling, waiting and stored frames) and
`FramesInOrder` (`DeliveredInOrder`). The invariant adds `Handshake` (a connection that
is not subscribed has an empty queue); `AheadOfDelivered` is what the action property
`DeliveredInOrder` needs of the state before a send.

It also proves `NeverGivesUp` (`StillTrying`) for any number of sockets.
The strengthening `Marked` is the point: the mark `reconnectScheduled` never stands
without a task behind it, or a reconnect that will schedule one; since
`scheduleConnect` does nothing when the mark stands, that is what keeps retries alive.
`SocketsSubscribe` proves that sockets behave as subscribers of `CharacterStream`, so
the theorems above hold of them; `SocketsInOrder` (`DeliveredInOrder`) states it.

`ScanRelayProofs` proves for any viewers, worlds, parts and scans `ViewersCatchUp`
(`ViewersAgree`), `ClearedNotRevived` (`ClearedStaysCleared`) and `LeftWorldUntilTick`, which
no run repeats. `InstallsInOrder` orders the last clear, the accepted installs and those
under way, which is why a part cannot belong to a scan that was cleared. For
each viewer, `Finally` is what it will show once it has read what is under way, and the
invariant is that this is what the server holds now; `Numbered` and `Whole` (the parts of a
publication follow one another, a later one starts afresh) keep it while the viewer
reads. `VisualKnown` bounds the one exception: a visual of a world that its owner has left is
held for less than a tick, hence is gone before the next publication.

`SnapshotInstallProofs` proves `AcceptedBeforeShown` (`ClientNeverAhead`) and
`LostIsSafe` (`NoHitsWithoutTracking`). The invariant describes what may be under way:
`InstallsInOrder` (installs reach the server in the order of their frames),
`AcksCovered` and `ActiveCovered` (an acceptance under way, and what is shown, was
stored by the server for that binding), `PendingMine`, and `LostSilenced`: while
tracking is lost, a clear is behind every install under way or there is none. Three
more theorems need an invariant of their own on top of it:

- `AnswersToldApart` (`FlagsInStep`): the flags match, one by one and in order, the clears
  on the way from client to server and back (`InStep`). A payload added, passed on
  or read relates the channels before and after (`Comes`), and the matching is carried over;
- `HitsFollowThePicture` (`CalmHitboxesAreShown`): the invariant `Agreed` follows the snapshot
  that was asked for last. While no clear travels behind it the client waits for it or shows
  it, unless it came too late; when nothing is asked for, the client shows what is
  stored. It needs to know why an answer refuses (`RefusedWhy`), what an answer says of the
  server (`StoredTold`, `Emptied`), and that after lost tracking nothing is asked for without
  a clear before it (`Unusable`, by `Hushed`);
- `ShownIsHittable` (`CalmShownCanBeHit`): what was accepted is stored until the client is
  told otherwise (`StillStored`), bindings under way are ever newer (`News`), a clear that
  keeps the picture holds it (`Lost`); together, `ShownStored`.

`FrameProcessingProofs` proves all six properties of the run `processing` for any
number of colliders, pairs, points, profiles and rigs:

- `PointsWhereFitted` (`FusedWhereFitted`): `Placed` and `Shown` carry what a stage knows of the
  placements and points to the stage that uses them;
- `LabelsEarned` (`ObservedMeansMeasured`), `LessonsValidated` (`LearnedFromValidated`) and
  `SubjectRatchet` (`SubjectNeverRegresses`): for every fitter and every ladder of fallbacks, a
  fit is labelled with what measured it (`Honest`) and teaches only what an enabled
  collider measured (`Teaches`); `Complete` carries that to the assembler, `SubjectKnown`
  says what the subject's records are;
- `FramesReadable` (`PublishedIsReadable`): a chain of lemmas from the validation of
  colliders (`SoundIsWritten`) over landmarks (`LandmarkDecodes`) and buffers (`BuffersOf`) to the
  two decoders (`BothDecode`), each decoder's checks taken one by one. The theorem assumes
  `Budget <= MaxPoints`: nothing in the settings says so (section 5);
- `BodyWarped` (`OpposingViewsMeet`): a warp is that of the assembly of the two views
  (`Assembled`), each of its slices makes one silhouette of two (`SidesMeet`), the slices of
  a constrained warp rise one above the other (`ConstrainedRises`), and at the height of a
  slice the interpolation is that slice (`InterpAt`).

The same module proves the four properties of the run `wire`, since they rest on the
same lemmas about decoders:

- `CapturesWhole` (`AcceptedCaptureIsWhole`) and `FramesWhole` (`ShownFrameIsWhole`). A decoder
  raises the first error of a list of checks, so what it accepts has passed all of them;
  each decoder gets a lemma that says of which messages this is so (`BackendAccepts`,
  `ModAccepts`, `FiniteSays`). Of buffers, the checks leave `Tiled`: one begins where the last
  one ends and the last one ends with the payload. By the order of their ends, tiled buffers
  cover each byte once (`TiledPartitions`);
- `DecodersAgree` (`DecodersAcceptAlike`): each side's checks imply the other side's on messages
  with our buffers (`BackendThenMod`, `ModThenBackend`). What differs (the mod looks for its
  buffers by name, the backend goes through the list) is bridged by names that occur once;
- `OffsetsHonest` (`OffsetWithinUncertainty`). A round trip errs by no more than its delay
  (`Probes`). If all samples come from one clock, the median errs by no more than the best
  delay and the spread together, twice over, hence by three uncertainties (`UncertaintyCovers`).
  That they come from one clock is the invariant `ClockInv`: a sample of another clock is
  apart from the median by more than a jump, so the old samples are dropped with it.
  It needs clocks that differ by more than a jump and a delay (`LinkAssumption`): a phone
  that restarts within a second of its old clock is not noticed by the code either.

Assumptions on the constants are named where they are declared
(`PairerAssumption`, `PairingAssumption`, `DispatchAssumption`,
`CalibrationAssumption`, `BoardAssumption`, `StreamAssumption`, `SocketAssumption`,
`InstallAssumption`, `RelayAssumption`, `EnvelopeAssumption`, `WireAssumption`,
`FittingAssumption`, `BodyMergeAssumption`, `ProcessingAssumption`, `ClockAssumption`,
`LinkAssumption`, `SamplingAssumption`, `AssociationAssumption`, `FusionAssumption`,
`VisionAssumption`): different phones, natural bounds, the fitted dimensions of
colliders apart, sizes of encodings positive, required ids different and short enough
for the wire, at least four observations with weights that stay positive, widths of
profiles even so that their halves are exact, messages whose fields are what a parser of
that field yields, shots with a window for each pixel of the raster, names of hands and
of constructed joints that are none of the body's (they carry a prefix in the code), a
threshold of quality above zero. TLC evaluates each of them. Each invariant
was checked by TLC before it was proved.

Only model-checked:

- liveness (`LiveKeepsAsking`, `CalibrationEnds`, `CommandsReachBackend`), which is out of the
  prover's reach with fairness;
- `SkeletonNearSubject` where the views are not `WellSeen`: the property is then one of the
  shots of the run, not of the code.

## 5. Where the code and its documents disagree

Two are runs that end in a counterexample.

- **`calibration_cancelled`** (`session.py:126`). The worker thread that observes the last
  board image sets the session to `validating` whatever its state is by then. A
  DELETE in between is overwritten and the cancelled rig replaces the active one;
  `docs/camera-calibration.md:127` says cancelling preserves it.
- **`install_placement`** (`ClientSnapshotCoordinator.java:250`). Scaling the figure before
  the first answer replaces the pending snapshot of that frame; the answer to the
  first placement shows the second.

Others were seen while modelling; the models contain the behaviour, and the
properties leave it out by name where they must.

- *Dispatch.* The assertion on `send_text` (`runtime.py:175`) stands outside the `try`:
  when the second phone unregisters while the send to the first is awaited, the live
  loop ends by an `AssertionError`, and live mode is off until it is started again.
  The comment at line 179: "A disconnected phone must not kill live/calibration
  capture." A pong that the handler of an earlier connection still reads enters the
  estimator of the new one (`runtime.py:428`), which speaks of "one device session"
  (`clock.py:45`).
- *Clock.* The spread and delay of the kept samples can say less than the true error
  (`clock.py:97-110`); hence the factor three in `OffsetWithinUncertainty`.
- *Board.* Phones are compared with their own baselines and the board with the medians
  of each phone, so a board moved after one phone has all its observations is not
  noticed: the rig joins phones that saw it in two places (`session.py:105`;
  lines 3 and 140 promise one place).
- *Wire.* A frame without points is encoded and published (`buffers.py:83`,
  `runtime.py:529`), but both decoders refuse a buffer without bytes. The two
  decoders agree on acceptance, not on error codes (`character_decode.py:3-8`). An
  empty JPEG makes the decoder library raise, where `rgbd_ingest.py:38` says
  "Every failure raises EnvelopeError".
- *Vision.* `landmarks.py:326` looks up the nose's confidence when the head is placed
  from other landmarks of the face; when the nose was found nowhere this raises
  `KeyError` and the frame is lost (line 15: "Every canonical name is always present").
- *Budget.* `HMC_MAX_POINTS` is not compared with the limit of the decoders (`settings.py:52`,
  80 000 by default; `character_decode.py:44`, 100 000): a larger budget lets the backend
  publish frames that nobody accepts.
- *Subject.* The anatomical maxima of `subject.py:22` are read nowhere.
- *Install.* The answer to a clear, and to a change of dimension, drops the installs sent
  after it, which the server then accepts: hitboxes without a picture
  (`ClientSnapshotCoordinator.java:278`, `:274`; `docs/architecture.md:70`). After a
  failed upload the client's clear also hits an install it had already sent, which it
  then shows while the server has nothing (line 312).
- *Relay.* A change of world forgets neither accepted installs nor the transfer under way
  (`HumanCraftServer.java:124`), so a late part publishes the scan in the old world until
  the next tick removes it; `docs/contracts.md:617`: "a delayed chunk cannot revive
  cleared state". That viewers agree afterwards rests on the 100 ms between
  publications covering a tick; with a server that lags by more it would not hold.
  Viewers who change worlds are not told what is shared there.
- *Socket.* The reconnect key does not cancel a scheduled retry, and `connect` does not
  look for an open socket (`CharacterWebSocket.java:83-93`, `:122`), so two sockets
  stream side by side until one is lost. When the key falls between `onOpen` and its
  hello, the hello is lost and the connection ends at the backend's deadline.
  `StillTrying` and `CommandsReachBackend` hold nevertheless.
- *Stream.* A status text throws away an unsent frame, since both share a queue of one
  (`hub.py:40`). `docs/architecture.md`, step 5, speaks of queues of two; the pairer's
  have eight places.

## 6. What is not modelled

- *Server interactions and avatar service*: probes, contacts and their heartbeat, the
  swing gate, projectiles, the internal player and its control timeout. The binding
  counters are in `SnapshotInstall`. Ray tests are arithmetic on real numbers.
- *The phone app*: backpressure queue, encoding against a new AR session, reconnection.
  A phone is what the backend sees of it.
- *Numerics inside modelled stages*: networks, corner detection, least squares,
  principal axes, JPEG and JSON text. Where a verdict steers control flow it is a
  choice, or an input.
- *Control messages, the decoder thread of the client, the message writer of the phone,
  quality figures and tracing.*
- *I/O without state*: discovery, telemetry, recording, tools, GPU buffers.
- Real time is a choice: deadlines, ages and timeouts may pass at any moment.

Hazards that were seen and have no property, besides the three in `PROJECT.json`
without one: the `finally` of the calibration loop restarts live mode from a flag read
before it (`runtime.py:308`); modes are kept for 256 captures (`runtime.py:171`); a packet of
an earlier connection that waits for the ingest lock (`runtime.py:148`); a frame
published between the read of the store and the subscription reaches nobody new
(`app.py:231`); texts that evict frames (`hub.py:40`); a phone that is registered before
its hello is answered (`app.py:103`); projectiles tested without the
binding (`HumanCraftServer.java:425`); a complete scan dropped without an answer within
100 ms (`HumanCraftServer.java:250`); the phone's `disconnect()` cancels the reconnect task
without clearing it, so later reconnections are blocked (`CaptureStore.swift:94`, `:343`);
thresholds of the hand fit (`fit_hand.py:178`) and of the quality gates
(`quality.py:147-202`); pings that are never matched with pongs (`clock.py`).

## 7. Plan

In this order:

1. `CapturePipeline`: backpressure queue, encoding against a new AR session, the
   reconnect task; composed with the requests of `CaptureDispatch`.
2. Server interactions over the state of `SnapshotInstall`: evidence of a probe,
   contacts and their heartbeat, the swing gate, projectiles and bindings; the
   internal player and its control timeout.
3. Two viewers and two owners in `ScanRelay`, with the target of a visual as state;
   an abstract specification of the relay as one register for each world.
4. The bound of `SkeletonNearSubject` for hands, whose prior hangs from a wrist that may be
   a lone depth itself.
