--------------------------- MODULE CaptureDispatch --------------------------
(***************************************************************************)
(* How the backend asks the two phones for captures (api/runtime.py and    *)
(* the capture handler of api/app.py).  Everything runs on one event loop, *)
(* so an action is the code between two awaits.  Three coroutines call     *)
(* dispatch_capture: the live loop, a Minecraft client and the board       *)
(* calibration loop; each may be suspended in a send while phones connect, *)
(* break, time out and reconnect.                                          *)
(*                                                                         *)
(* A send is asynchronous: once started the phone may see the request and  *)
(* answer before the sender resumes.  The finally clause of a cancelled    *)
(* live loop runs before the first step of its successor, so stop_live is  *)
(* one action.                                                             *)
(***************************************************************************)
EXTENDS Integers, Sequences, FiniteSets

CONSTANTS
    DeviceOrder,    \* the configured devices in dict order
    Captures,       \* capture ids of the live loop, reused once nothing refers to them
    MaxConns,       \* bound: MaxConns[d], the connections device d makes
    MaxInflight     \* max_inflight of the live loop

Devices == {DeviceOrder[i] : i \in DOMAIN DeviceOrder}

ASSUME DispatchAssumption ==
    /\ DeviceOrder \in Seq(Devices) /\ DeviceOrder # <<>>
    /\ IsFiniteSet(Devices)
    /\ MaxConns \in [Devices -> Nat]
    /\ MaxInflight \in Nat \ {0}

Callers == {"live", "client", "board"}

VARIABLES
    token,      \* token[d]: the registered connection of d, 0 when there is none
    made,       \* made[d]: connections d has made
    handlers,   \* <<d, c>>: ws_capture handlers still in their receive loop
    broken,     \* handlers whose peer is gone
    samples,    \* samples[d]: the connections whose pongs d's estimator holds
    rigReady,   \* is_ready()
    board,      \* the calibration task: "off", "created" or "running"
    wasLive,    \* was_live of the calibration loop
    live,       \* _live_task: "none", "active" or, when it ended by itself, "done"
    inflight,   \* _live_inflight
    overdue,    \* members of inflight older than a second
    call,       \* call[p]: where caller p is, and the send it awaits
    paired,     \* captures of the live loop whose pair came before they were counted
    closing     \* _closing

conns == <<token, made, handlers, broken, samples>>
tasks == <<board, wasLive, live, inflight, overdue, paired, closing>>
vars == <<conns, tasks, rigReady, call>>

Idle == [pc |-> "top", capture |-> "none", at |-> 0, token |-> 0]

Connected(d) == token[d] # 0
AllConnected == \A d \in Devices : Connected(d)
ClocksReady == \A d \in Devices : samples[d] # {}
Calibrating == board # "off"
LiveActive == live = "active"

Init ==
    /\ token = [d \in Devices |-> 0]
    /\ made = [d \in Devices |-> 0]
    /\ handlers = {} /\ broken = {}
    /\ samples = [d \in Devices |-> {}]
    /\ rigReady \in BOOLEAN
    /\ board = "off" /\ wasLive = FALSE
    /\ live = "none"
    /\ inflight = {} /\ overdue = {} /\ paired = {}
    /\ call = [p \in Callers |-> Idle]
    /\ closing = FALSE

-----------------------------------------------------------------------------
(* Connections: ws_capture, register_capture, unregister_capture. *)

Registers(d) ==
    /\ made[d] < MaxConns[d]
    /\ made' = [made EXCEPT ![d] = @ + 1]
    /\ token' = [token EXCEPT ![d] = made[d] + 1]
    /\ samples' = [samples EXCEPT ![d] = {}]
    /\ UNCHANGED <<broken, tasks, rigReady, call>>

Register(d) == Registers(d) /\ handlers' = handlers \cup {<<d, made[d] + 1>>}

\* The server hello is sent before the try: when it raises, the handler ends
\* without unregistering.
RegisterDropped(d) == Registers(d) /\ UNCHANGED handlers

Break(h) ==
    /\ h \in handlers \ broken
    /\ broken' = broken \cup {h}
    /\ UNCHANGED <<token, made, handlers, samples, tasks, rigReady, call>>

\* Bug: the token is not compared.
UnregisteredAlways(d, c) == [token EXCEPT ![d] = 0]

Unregistered(d, c) == IF token[d] = c THEN [token EXCEPT ![d] = 0] ELSE token

\* A connection whose peer is gone or whose handler has ended.
Gone(h) == h \in broken \/ h \notin handlers

\* The receive loop of a broken connection ends; its finally clause unregisters.
HandlerEnds(h) ==
    /\ h \in handlers \cap broken
    /\ handlers' = handlers \ {h} /\ broken' = broken \ {h}
    /\ token' = Unregistered(h[1], h[2])
    /\ UNCHANGED <<made, samples, tasks, rigReady, call>>

\* A clock_pong is credited to the device of the handler that reads it, whether
\* or not that handler's connection is still the registered one.
Pong(h) ==
    /\ h \in handlers
    /\ samples' = [samples EXCEPT ![h[1]] = @ \cup {h[2]}]
    /\ UNCHANGED <<token, made, handlers, broken, tasks, rigReady, call>>

-----------------------------------------------------------------------------
(* dispatch_capture. *)

\* Bug: a running calibration does not refuse other captures.
RefusalIgnoringCalibration(p) ==
    IF p # "board" /\ ~rigReady THEN "not_ready"
    ELSE IF ~AllConnected THEN "devices_unavailable"
    ELSE IF ~ClocksReady THEN "clocks_not_ready"
    ELSE "none"

Refusal(p) ==
    IF p # "board" /\ Calibrating THEN "calibration_in_progress"
    ELSE IF p # "board" /\ ~rigReady THEN "not_ready"
    ELSE IF ~AllConnected THEN "devices_unavailable"
    ELSE IF ~ClocksReady THEN "clocks_not_ready"
    ELSE "none"

SendTo(p, c, k) ==
    call' = [call EXCEPT ![p] = [pc |-> "send", capture |-> c, at |-> k,
                                 token |-> token[DeviceOrder[k]]]]

\* The accepted half: the first send starts in the same turn as the checks.
Dispatch(p, c) == Refusal(p) = "none" /\ SendTo(p, c, 1)

\* One send returned and the next device still has its send_text.
SendNext(p) ==
    /\ call[p].pc = "send"
    /\ call[p].at < Len(DeviceOrder)
    /\ Connected(DeviceOrder[call[p].at + 1])
    /\ SendTo(p, call[p].capture, call[p].at + 1)
    /\ UNCHANGED <<conns, tasks, rigReady>>

AllSent(p) == call[p].pc = "send" /\ call[p].at = Len(DeviceOrder)

\* `assert state.send_text is not None' outside the try: the phone unregistered
\* while the send to the one before it was awaited.
AssertFails(p) ==
    /\ call[p].pc = "send"
    /\ call[p].at < Len(DeviceOrder)
    /\ ~Connected(DeviceOrder[call[p].at + 1])

\* A send to a peer that is gone raises; the failure unregisters its token.
SendRaises(p) ==
    /\ call[p].pc = "send"
    /\ Gone(<<DeviceOrder[call[p].at], call[p].token>>)

DropFailed(p) == token' = Unregistered(DeviceOrder[call[p].at], call[p].token)

-----------------------------------------------------------------------------
(* The live loop. *)

Goto(p, pc) == call' = [call EXCEPT ![p] = [Idle EXCEPT !.pc = pc]]

LiveAt(pc) == LiveActive /\ call["live"].pc = pc

\* The loop top writes off the captures older than a second; then either the
\* window is full and the loop waits, or it dispatches, or it is refused.
StillOut == inflight \ overdue

WriteOff == inflight' = StillOut /\ overdue' = {} /\ paired' = paired \cap StillOut

\* Bug: one request too many.
WindowOverfull(out) == Cardinality(out) > MaxInflight

WindowFull(out) == Cardinality(out) >= MaxInflight

LiveWait ==
    /\ LiveAt("top")
    /\ WindowFull(StillOut)
    /\ WriteOff
    /\ Goto("live", "wait")
    /\ UNCHANGED <<conns, board, wasLive, live, closing, rigReady>>

LiveDispatch ==
    /\ LiveAt("top")
    /\ ~WindowFull(StillOut)
    /\ WriteOff
    /\ \E c \in Captures \ StillOut : Dispatch("live", c)
    /\ UNCHANGED <<conns, board, wasLive, live, closing, rigReady>>

\* A refusal is announced when its reason is new or five seconds have passed.
LiveRefused ==
    /\ LiveAt("top")
    /\ ~WindowFull(StillOut)
    /\ WriteOff
    /\ Refusal("live") # "none"
    /\ Goto("live", "notify") \/ Goto("live", "sleep")
    /\ UNCHANGED <<conns, board, wasLive, live, closing, rigReady>>

\* _live_paired.wait() returns when something paired, and in any case after a
\* quarter of a second.
LiveWoken ==
    /\ LiveAt("wait")
    /\ Goto("live", "top")
    /\ UNCHANGED <<conns, tasks, rigReady>>

LiveAccepted ==
    /\ LiveActive /\ AllSent("live")
    /\ inflight' = inflight \cup {call["live"].capture}
    /\ Goto("live", "sleep")
    /\ UNCHANGED <<conns, board, wasLive, live, overdue, paired, closing, rigReady>>

\* dispatch_capture returned devices_unavailable out of its except clause.
LiveSendFailed ==
    /\ LiveActive /\ SendRaises("live")
    /\ DropFailed("live")
    /\ paired' = paired \ {call["live"].capture}
    /\ Goto("live", "notify") \/ Goto("live", "sleep")
    /\ UNCHANGED <<made, handlers, broken, samples, board, wasLive, live, inflight, overdue,
                   closing, rigReady>>

\* _announce_capture_blocked: each phone that is still connected when its turn
\* comes is told; a phone that is gone is unregistered.
LiveNotified ==
    /\ LiveAt("notify")
    /\ \E lost \in SUBSET {d \in Devices : Connected(d) /\ Gone(<<d, token[d]>>)} :
         token' = [d \in Devices |-> IF d \in lost THEN 0 ELSE token[d]]
    /\ Goto("live", "sleep")
    /\ UNCHANGED <<made, handlers, broken, samples, tasks, rigReady>>

LiveSlept ==
    /\ LiveAt("sleep")
    /\ Goto("live", "top")
    /\ UNCHANGED <<conns, tasks, rigReady>>

NothingOut == inflight' = {} /\ overdue' = {} /\ paired' = {}

\* The loop does not catch the AssertionError: its finally clause runs, it ends.
LiveKilled ==
    /\ LiveActive /\ AssertFails("live")
    /\ live' = "done" /\ NothingOut
    /\ Goto("live", "top")
    /\ UNCHANGED <<conns, board, wasLive, closing, rigReady>>

\* Bug: the write-off never happens.
AgesNever(c) == FALSE /\ UNCHANGED vars

\* A second passes for a capture in flight.
Ages(c) ==
    /\ c \in inflight \ overdue
    /\ overdue' = overdue \cup {c}
    /\ UNCHANGED <<conns, board, wasLive, live, inflight, paired, closing, rigReady, call>>

\* Both phones answered and their frames paired (handle_rgbd pops the capture).
Answered(c) ==
    /\ c \in inflight \ paired
    /\ inflight' = inflight \ {c} /\ overdue' = overdue \ {c}
    /\ UNCHANGED <<conns, board, wasLive, live, paired, closing, rigReady, call>>

\* The pair is made while the last send is still awaited: there is nothing to pop
\* yet, and the capture is counted afterwards.
AnsweredEarly(c) ==
    /\ AllSent("live") /\ call["live"].capture = c /\ c \notin paired
    /\ paired' = paired \cup {c}
    /\ UNCHANGED <<conns, board, wasLive, live, inflight, overdue, closing, rigReady, call>>

-----------------------------------------------------------------------------
(* live_start, live_stop, request_capture, register_rig, DELETE, shutdown. *)

StartedLive == live' = "active" /\ NothingOut
StoppedLive == live' = "none" /\ NothingOut

StartLive ==
    /\ ~LiveActive
    /\ StartedLive
    /\ Goto("live", "top")
    /\ UNCHANGED <<conns, board, wasLive, closing, rigReady>>

StopLive ==
    /\ live # "none"
    /\ StoppedLive
    /\ Goto("live", "top")
    /\ UNCHANGED <<conns, board, wasLive, closing, rigReady>>

ClientRequest ==
    /\ call["client"].pc = "top"
    /\ Dispatch("client", "other")
    /\ UNCHANGED <<conns, tasks, rigReady>>

\* The client's dispatch returns, fails in a send, or ends the client's socket.
ClientDone ==
    /\ \/ (AllSent("client") \/ AssertFails("client")) /\ UNCHANGED token
       \/ SendRaises("client") /\ DropFailed("client")
    /\ Goto("client", "top")
    /\ UNCHANGED <<made, handlers, broken, samples, tasks, rigReady>>

RequestRegistration ==
    /\ ~Calibrating
    /\ board' = "created"
    /\ UNCHANGED <<conns, wasLive, live, inflight, overdue, paired, closing, rigReady, call>>

\* The first step of _calibration_loop.
BoardStarts ==
    /\ board = "created"
    /\ board' = "running" /\ wasLive' = LiveActive
    /\ StoppedLive
    /\ Goto("live", "top")
    /\ UNCHANGED <<conns, closing, rigReady>>

BoardDispatch ==
    /\ board = "running" /\ call["board"].pc = "top"
    /\ Dispatch("board", "other")
    /\ UNCHANGED <<conns, tasks, rigReady>>

BoardSent ==
    /\ board = "running"
    /\ \/ AllSent("board") /\ UNCHANGED token
       \/ SendRaises("board") /\ DropFailed("board")
    /\ Goto("board", "top")
    /\ UNCHANGED <<made, handlers, broken, samples, tasks, rigReady>>

Restarts == board = "running" /\ wasLive /\ ~closing /\ ~LiveActive

\* The session finished, timed out, was cancelled or the assertion failed it; in
\* every case the finally clause restarts live capture if it was live.  A task
\* cancelled before its first step has no finally clause.
BoardEnds ==
    /\ Calibrating
    /\ board' = "off" /\ wasLive' = FALSE
    /\ call' = [call EXCEPT !["board"] = Idle,
                            !["live"] = IF Restarts THEN Idle ELSE @]
    /\ IF Restarts THEN StartedLive ELSE UNCHANGED <<live, inflight, overdue, paired>>
    /\ UNCHANGED <<conns, closing, rigReady>>

\* A commit, a moved phone: the rig becomes valid or invalid (see RigCalibration).
RigChanges ==
    /\ rigReady' = ~rigReady
    /\ UNCHANGED <<conns, tasks, call>>

\* The server has closed its connections before the runtime shuts down.
Shutdown ==
    /\ closing' = TRUE
    /\ StoppedLive
    /\ Goto("live", "top")
    /\ UNCHANGED <<conns, board, wasLive, rigReady>>

-----------------------------------------------------------------------------
LiveStep ==
    \/ LiveWait \/ LiveDispatch \/ LiveRefused \/ LiveWoken \/ LiveAccepted
    \/ LiveSendFailed \/ LiveNotified \/ LiveSlept \/ LiveKilled

Connection ==
    \/ \E d \in Devices : Register(d) \/ RegisterDropped(d)
    \/ \E h \in handlers : Break(h) \/ HandlerEnds(h) \/ Pong(h)

Running ==
    \/ Connection
    \/ \E p \in Callers : SendNext(p)
    \/ \E c \in Captures : Ages(c) \/ Answered(c) \/ AnsweredEarly(c)
    \/ LiveStep
    \/ StartLive \/ StopLive \/ ClientRequest \/ ClientDone
    \/ RequestRegistration \/ BoardStarts \/ BoardDispatch \/ BoardSent \/ BoardEnds
    \/ RigChanges \/ Shutdown

Next ==
    \/ ~closing /\ Running
    \/ closing /\ BoardEnds

Spec == Init /\ [][Next]_vars

\* The event loop is fair to the live loop, a send to a phone returns, and time
\* passes for a capture in flight.
Fairness ==
    /\ WF_vars(~closing /\ LiveStep)
    /\ WF_vars(~closing /\ SendNext("live"))
    /\ \A c \in Captures : WF_vars(~closing /\ Ages(c))

FairSpec == Spec /\ Fairness

-----------------------------------------------------------------------------
(* Properties. *)

\* The live loop never has more than max_inflight requests counted, although a
\* request is counted only after its sends return, possibly after its pair is
\* already made, and is written off at another place (_live_loop, handle_rgbd).
InflightBounded == Cardinality(inflight) <= MaxInflight

\* A failed send, an ending handler or a notice that belongs to an earlier
\* connection never disconnects the phone's current one: a registration is lost
\* only because that very connection is gone (unregister_capture).
NewConnectionUnharmed ==
    [][\A d \in Devices :
        token[d] # 0 /\ token'[d] = 0 => Gone(<<d, token[d]>>)]_vars

\* While the board calibration runs, the live loop has no request on its way to
\* a phone, even if a client starts live mode in the meantime.
LivePausedDuringCalibration == board = "running" => call["live"].pc # "send"

\* Live mode with a ready rig and healthy phones.
Healthy ==
    /\ LiveActive /\ ~closing /\ ~Calibrating /\ rigReady
    /\ AllConnected /\ ClocksReady
    /\ \A d \in Devices : ~Gone(<<d, token[d]>>)

\* Captures that are never answered do not stall live mode: as long as the
\* phones and the rig stay healthy, new requests keep going out.
LiveKeepsAsking == <>[]Healthy => []<>(call["live"].pc = "send")

=============================================================================
