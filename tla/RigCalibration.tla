--------------------------- MODULE RigCalibration ---------------------------
(***************************************************************************)
(* Board calibration and the ingest of frames in the backend               *)
(* (api/runtime.py, calibration/session.py, calibration/model.py).         *)
(*                                                                         *)
(* Two activities share the rig.  The calibration loop is a task of the    *)
(* event loop that can be cancelled and that times out.  The ingest holds  *)
(* a lock over one packet at a time and runs recording, board observation, *)
(* solving and reconstruction in worker threads, so that requests, the     *)
(* loop and the deadline interleave with every stage.  Pairing itself is   *)
(* modelled in Pairing; here a phone has at most one waiting frame, and    *)
(* frames are told apart by the AR session they were captured in.          *)
(***************************************************************************)
EXTENDS Naturals, FiniteSets

CONSTANTS
    Devices,
    Restarting,     \* bound: the phones whose AR session may start anew
    Required,       \* REQUIRED_OBSERVATIONS of each phone
    MaxJobs,        \* bound: registrations
    MaxSession,     \* bound: AR sessions of a phone
    MaxFrames,      \* bound: frames the assembler numbers in a server session
    MaxCrashes      \* bound: restarts of the backend

ASSUME CalibrationAssumption ==
    /\ IsFiniteSet(Devices) /\ Restarting \subseteq Devices
    /\ Required \in Nat \ {0}
    /\ MaxSession \in Nat \ {0} /\ MaxFrames \in Nat \ {0}
    /\ MaxJobs \in Nat /\ MaxCrashes \in Nat

Jobs == 1..MaxJobs
Sessions == 1..MaxSession

VARIABLES
    session,    \* session[d]: the AR session phone d is in
    job,        \* number of the current BoardCalibrationSession, 0 for none
    state,      \* state[j]: its state
    obs,        \* obs[j][d]: accepted observations
    base,       \* base[j][d]: the session of the baseline, 0 before the first
    task,       \* _board_task: "off", "created", "running", and cancelled as
                \* "dropped" before and "stopping" after its first step
    late,       \* time.monotonic() > _board_deadline
    rig,        \* the job whose rig is active in memory, 0 for none
    file,       \* the job whose rig is in the calibration file
    invalid,    \* _freshness.invalid_reason
    waiting,    \* waiting[d]: session of d's frame in the pairer, 0 for none
    ingest,     \* the holder of the ingest lock
    nextId,     \* the next frame id of the assembler
    published,  \* the store: [id, rig, from], id 0 before the first
    crashes,    \* restarts so far
    cancelled   \* jobs a DELETE found collecting or validating

rigVars == <<rig, file, invalid>>
jobVars == <<job, state, obs, base>>
loopVars == <<task, late>>
ingestVars == <<waiting, ingest, nextId, published>>
vars == <<session, jobVars, loopVars, rigVars, ingestVars, crashes, cancelled>>

Nothing == [d \in Devices |-> 0]

Stages == {"free", "record", "offer", "observe", "solve", "commit", "process", "encode"}

\* The lock is free, or one packet is being worked on: its stage, the job or rig
\* it was started for, the devices still to be offered, the sessions of its pair.
Free == [at |-> "free", for |-> 0, left |-> {}, from |-> Nothing]

Calibrating == task # "off"
Open(j) == state[j] \in {"collecting", "validating"}
IsReady == rig # 0 /\ ~invalid

Init ==
    /\ session = [d \in Devices |-> 1]
    /\ job = 0
    /\ state = [j \in Jobs |-> "none"]
    /\ obs = [j \in Jobs |-> Nothing] /\ base = [j \in Jobs |-> Nothing]
    /\ task = "off" /\ late = TRUE
    /\ rig = 0 /\ file = 0 /\ invalid = FALSE
    /\ waiting = Nothing /\ ingest = Free
    /\ nextId = 1 /\ published = [id |-> 0, rig |-> 0, from |-> Nothing]
    /\ crashes = 0 /\ cancelled = {}

-----------------------------------------------------------------------------
(* The phones, and requests from clients. *)

NewSession(d) ==
    /\ d \in Restarting /\ session[d] < MaxSession
    /\ session' = [session EXCEPT ![d] = @ + 1]
    /\ UNCHANGED <<jobVars, loopVars, rigVars, ingestVars, crashes, cancelled>>

RequestRegistration ==
    /\ ~Calibrating /\ job < MaxJobs
    /\ job' = job + 1
    /\ state' = [state EXCEPT ![job + 1] = "collecting"]
    /\ task' = "created"
    /\ UNCHANGED <<session, obs, base, late, rigVars, ingestVars, crashes, cancelled>>

Failed(j) == state' = [state EXCEPT ![j] = "failed"]

\* DELETE: cancel the task, and fail the session whatever its state.
ClearRegistration ==
    /\ job # 0
    /\ \/ task = "created" /\ task' = "dropped"
       \/ task = "running" /\ task' = "stopping"
       \/ task \notin {"created", "running"} /\ UNCHANGED task
    /\ Failed(job)
    /\ cancelled' = IF Open(job) THEN cancelled \cup {job} ELSE cancelled
    /\ UNCHANGED <<session, job, obs, base, late, rigVars, ingestVars, crashes>>

-----------------------------------------------------------------------------
(* _calibration_loop. *)

LoopStarts ==
    /\ task = "created"
    /\ task' = "running" /\ late' = FALSE
    /\ UNCHANGED <<session, jobVars, rigVars, ingestVars, crashes, cancelled>>

DeadlinePasses ==
    /\ ~late
    /\ late' = TRUE
    /\ UNCHANGED <<session, jobVars, task, rigVars, ingestVars, crashes, cancelled>>

\* Bug: the loop does not look at the deadline.
LoopExitsWhenSettled == ~Open(job)

LoopExits == ~Open(job) \/ late

\* The while condition is false; a session that is still open has timed out.
LoopEnds ==
    /\ task = "running"
    /\ LoopExits
    /\ task' = "off"
    /\ IF Open(job) THEN Failed(job) ELSE UNCHANGED state
    /\ UNCHANGED <<session, job, obs, base, late, rigVars, ingestVars, crashes, cancelled>>

\* The cancelled task runs; only one that had started has an except clause.
LoopCancelled ==
    /\ task \in {"dropped", "stopping"}
    /\ task' = "off"
    /\ IF task = "stopping" THEN Failed(job) ELSE UNCHANGED state
    /\ UNCHANGED <<session, job, obs, base, late, rigVars, ingestVars, crashes, cancelled>>

-----------------------------------------------------------------------------
(* Board captures: _offer_board_frame, under the ingest lock. *)

At(stage) == ingest.at = stage
Goto(stage) == ingest' = [ingest EXCEPT !.at = stage]
Release == ingest' = Free

\* The frames of a pair may come from any session the phones have been in.
PairFrom(from) == \A d \in Devices : from[d] \in 1..session[d]

BoardPair ==
    /\ At("free")
    /\ job # 0 /\ state[job] = "collecting"
    /\ \E from \in [Devices -> Sessions] :
         /\ PairFrom(from)
         /\ ingest' = [at |-> "record", for |-> job, left |-> Devices, from |-> from]
    /\ UNCHANGED <<session, jobVars, loopVars, rigVars, waiting, nextId, published, crashes,
                   cancelled>>

\* save_recording succeeds, or fails the session.
Recorded ==
    /\ At("record")
    /\ \/ Goto("offer") /\ UNCHANGED state
       \/ Release /\ Failed(ingest.for)
    /\ UNCHANGED <<session, job, obs, base, loopVars, rigVars, waiting, nextId, published,
                   crashes, cancelled>>

\* The next device to be offered: the worker thread takes them in order.
Next1 == CHOOSE d \in ingest.left : TRUE

Skipped(d) == ingest' = [ingest EXCEPT !.left = @ \ {d}]

Wanted(j, d) == obs[j][d] < Required

\* BoardCalibrationSession.offer up to the observation: the checks read the state
\* that the observation, a long computation, no longer looks at.
OfferChecks ==
    /\ At("offer") /\ ingest.left # {}
    /\ LET j == ingest.for
           d == Next1
           changed == base[j][d] \notin {0, ingest.from[d]}
       IN \/ state[j] = "collecting" /\ changed /\ Failed(j) /\ Skipped(d)
          \/ state[j] = "collecting" /\ ~changed /\ Wanted(j, d)
             /\ Goto("observe") /\ UNCHANGED state
          \/ Skipped(d) /\ UNCHANGED state
    /\ UNCHANGED <<session, job, obs, base, loopVars, rigVars, waiting, nextId, published,
                   crashes, cancelled>>

\* Bug: the observation of one phone completes the session.
EnoughOfOne(o) == \E d \in Devices : o[d] >= Required

Enough(o) == \A d \in Devices : o[d] >= Required

\* The observation is appended; the last one sets the state, whatever it is now.
Observed ==
    /\ At("observe")
    /\ LET j == ingest.for
           d == Next1
           counts == [obs[j] EXCEPT ![d] = @ + 1]
       IN /\ obs' = [obs EXCEPT ![j] = counts]
          /\ base' = [base EXCEPT ![j][d] = IF @ = 0 THEN ingest.from[d] ELSE @]
          /\ state' = IF Enough(counts) THEN [state EXCEPT ![j] = "validating"] ELSE state
          /\ ingest' = [ingest EXCEPT !.at = "offer", !.left = @ \ {d}]
    /\ UNCHANGED <<session, job, loopVars, rigVars, waiting, nextId, published, crashes,
                   cancelled>>

Offered ==
    /\ At("offer") /\ ingest.left = {}
    /\ IF state[ingest.for] = "validating" THEN Goto("solve") ELSE Release
    /\ UNCHANGED <<session, jobVars, loopVars, rigVars, waiting, nextId, published, crashes,
                   cancelled>>

\* solve() refuses a session that is not validating any more, or finds no rig.
Solved ==
    /\ At("solve")
    /\ \/ state[ingest.for] = "validating" /\ Goto("commit") /\ UNCHANGED state
       \/ Release /\ Failed(ingest.for)
    /\ UNCHANGED <<session, job, obs, base, loopVars, rigVars, waiting, nextId, published,
                   crashes, cancelled>>

\* Bug: the pairer of the old rig stays.
PairerKept == UNCHANGED waiting

PairerRebuilt == waiting' = Nothing

\* The assembler, and with it the frame numbers, outlives the swap.
AssemblerKept == UNCHANGED nextId

Swapped(j) ==
    /\ rig' = j /\ file' = j /\ invalid' = FALSE
    /\ PairerRebuilt /\ AssemblerKept
    /\ state' = [state EXCEPT ![j] = "ready"]

NotInstalled(j) == Failed(j) /\ UNCHANGED <<rigVars, waiting, nextId>>

\* Bug: a failure is noticed after the file is written.
InstalledPartly(j) ==
    \/ Swapped(j)
    \/ file' = j /\ Failed(j) /\ UNCHANGED <<rig, invalid, waiting, nextId>>

\* Processor, file and memory in one turn; building the processor or writing the
\* file may fail, before anything is changed.
Installed(j) == Swapped(j) \/ NotInstalled(j)

Commit ==
    /\ At("commit")
    /\ Release
    /\ IF state[ingest.for] = "validating" /\ ~late
       THEN Installed(ingest.for) ELSE NotInstalled(ingest.for)
    /\ UNCHANGED <<session, job, obs, base, loopVars, published, crashes, cancelled>>

-----------------------------------------------------------------------------
(* Captures of the person: _handle_rgbd_locked. *)

Stale(d, s) == invalid \/ s # base[rig][d]

Ignored(d, s) == invalid' = TRUE /\ UNCHANGED <<waiting, ingest>>

\* A frame of d from its session s: refused with the rig declared invalid, left
\* waiting, or paired with the other phone's frame.
CaptureFrame(d, s) ==
    /\ At("free") /\ ~Calibrating /\ rig # 0
    /\ s \in 1..session[d]
    /\ IF Stale(d, s) THEN Ignored(d, s)
       ELSE /\ UNCHANGED invalid
            /\ \/ waiting' = [waiting EXCEPT ![d] = s] /\ UNCHANGED ingest
               \/ /\ \A e \in Devices \ {d} : waiting[e] # 0
                  /\ ingest' = [at |-> "process", for |-> rig, left |-> {},
                                from |-> [waiting EXCEPT ![d] = s]]
                  /\ waiting' = Nothing
    /\ UNCHANGED <<session, jobVars, loopVars, rig, file, nextId, published, crashes, cancelled>>

\* Three normally tracked frames in a row show that a phone was moved.
PhoneMoved ==
    /\ At("free") /\ ~Calibrating /\ IsReady
    /\ invalid' = TRUE
    /\ UNCHANGED <<session, jobVars, loopVars, rig, file, ingestVars, crashes, cancelled>>

\* The worker thread assembles a numbered frame, or fails before it.
Processed ==
    /\ At("process")
    /\ \/ /\ nextId < MaxFrames
          /\ nextId' = nextId + 1
          /\ Goto("encode")
       \/ Release /\ UNCHANGED nextId
    /\ UNCHANGED <<session, jobVars, loopVars, rigVars, waiting, published, crashes, cancelled>>

\* An empty live frame, or one that fails to encode, uses up its number.
Encoded ==
    /\ At("encode")
    /\ Release
    /\ \/ UNCHANGED published
       \/ published' = [id |-> nextId - 1, rig |-> ingest.for, from |-> ingest.from]
    /\ UNCHANGED <<session, jobVars, loopVars, rigVars, waiting, nextId, crashes, cancelled>>

-----------------------------------------------------------------------------
\* The backend dies and starts again: only the file is left.
Crash ==
    /\ crashes < MaxCrashes
    /\ crashes' = crashes + 1
    /\ rig' = file /\ invalid' = FALSE
    /\ state' = [j \in Jobs |-> IF state[j] = "none" THEN "none" ELSE "failed"]
    /\ task' = "off" /\ late' = TRUE
    /\ waiting' = Nothing /\ ingest' = Free
    /\ nextId' = 1 /\ published' = [id |-> 0, rig |-> 0, from |-> Nothing]
    /\ UNCHANGED <<session, job, obs, base, file, cancelled>>

LoopStep == LoopStarts \/ LoopEnds \/ LoopCancelled

IngestStep ==
    \/ Recorded \/ OfferChecks \/ Observed \/ Offered \/ Solved \/ Commit
    \/ Processed \/ Encoded

Next ==
    \/ \E d \in Devices : NewSession(d)
    \/ RequestRegistration \/ ClearRegistration
    \/ LoopStep \/ DeadlinePasses
    \/ BoardPair
    \/ \E d \in Devices, s \in Sessions : CaptureFrame(d, s)
    \/ PhoneMoved
    \/ IngestStep
    \/ Crash

Spec == Init /\ [][Next]_vars

\* The event loop runs a task that can run, and time passes.
FairSpec == Spec /\ WF_vars(LoopStep) /\ WF_vars(DeadlinePasses)

-----------------------------------------------------------------------------
(* Properties. *)

PhonesTyped ==
    /\ session \in [Devices -> Sessions]
    /\ crashes \in 0..MaxCrashes /\ cancelled \subseteq Jobs

JobsTyped ==
    /\ job \in 0..MaxJobs
    /\ state \in [Jobs -> {"none", "collecting", "validating", "ready", "failed"}]
    /\ obs \in [Jobs -> [Devices -> 0..Required]]
    /\ base \in [Jobs -> [Devices -> 0..MaxSession]]

LoopTyped ==
    /\ task \in {"off", "created", "running", "dropped", "stopping"}
    /\ late \in BOOLEAN

RigTyped == rig \in 0..MaxJobs /\ file \in 0..MaxJobs /\ invalid \in BOOLEAN

Ingests == [at : Stages, for : 0..MaxJobs, left : SUBSET Devices,
            from : [Devices -> 0..MaxSession]]

IngestTyped ==
    /\ waiting \in [Devices -> 0..MaxSession]
    /\ ingest \in Ingests
    /\ nextId \in 1..MaxFrames
    /\ published \in [id : 0..MaxFrames, rig : 0..MaxJobs, from : [Devices -> 0..MaxSession]]

\* Every variable keeps its type; a session counts no observation too many.
TypeOK == PhonesTyped /\ JobsTyped /\ LoopTyped /\ RigTyped /\ IngestTyped

\* The rig in memory is the one a restart would load: a cancellation, a timeout,
\* a failed write or a crash never leaves one installed without the other.
FileMatchesMemory == file = rig

\* An installed rig rests on the required observations of every phone, although
\* several pairs, cancellations and later jobs interleave with them
\* (BoardCalibrationSession.offer).
InstalledRigComplete ==
    rig # 0 => \A d \in Devices : obs[rig][d] = Required /\ base[rig][d] # 0

\* Once there is a rig there always is one: no failure, cancellation, timeout or
\* restart takes it away (the comments in clear_registration and
\* _calibration_loop).
FailuresKeepRig == [][rig # 0 => rig' # 0]_vars

\* A frame is published under the rig that is active and still valid when it is
\* published, and both its halves were captured in the AR sessions that rig was
\* calibrated in (the lock, RigFreshness.observe, the rebuilt pairer).
PublishedUnderActiveRig ==
    [][published' # published /\ crashes' = crashes =>
         /\ published'.rig = rig /\ ~invalid
         /\ \A d \in Devices : published'.from[d] = base[rig][d]]_vars

\* Within a server session frame ids only grow, also over a change of rig and
\* over frames that were numbered but not published.
FrameIdsGrow ==
    [][published' # published /\ crashes' = crashes => published'.id > published.id]_vars

\* A calibration ends: a request is not refused for ever with "in progress".
CalibrationEnds == Calibrating ~> ~Calibrating

\* A calibration that was cancelled while it was under way installs no rig
\* (DELETE /rig/register).
CancelledNeverInstalls == rig \notin cancelled

=============================================================================
