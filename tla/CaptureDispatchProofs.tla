------------------------ MODULE CaptureDispatchProofs ------------------------
(***************************************************************************)
(* Proofs about CaptureDispatch for any number of phones, connections,     *)
(* capture ids and any size of the window: the requests in flight stay     *)
(* within it, the live loop is silent during a calibration, and a          *)
(* connection is only unregistered for its own sake.                       *)
(*                                                                         *)
(* The bound is not inductive: what is counted when a send returns was     *)
(* allowed for when the send began.  RoomForTheSend carries the free place *)
(* from one turn to the other.                                             *)
(***************************************************************************)
EXTENDS CaptureDispatch, FiniteSetTheorems, TLAPS

Pcs == {"top", "wait", "notify", "sleep", "send"}

Calls == [pc : Pcs, capture : Captures \cup {"none", "other"}, at : Nat, token : Nat]

CallsTyped == call \in [Callers -> Calls]

TokensTyped ==
    /\ token \in [Devices -> Nat] /\ made \in [Devices -> Nat]
    /\ handlers \subseteq Devices \X Nat

InflightFinite == IsFiniteSet(inflight)

RoomForTheSend == call["live"].pc = "send" => Cardinality(inflight) < MaxInflight

WindowInv == CallsTyped /\ InflightFinite /\ InflightBounded /\ RoomForTheSend

-----------------------------------------------------------------------------
(* Where a step leaves a caller. *)

LEMMA GotoTyped ==
  ASSUME CallsTyped, NEW p \in Callers, NEW pc \in Pcs, Goto(p, pc)
  PROVE  /\ call' \in [Callers -> Calls]
         /\ call'[p].pc = pc
         /\ \A q \in Callers \ {p} : call'[q] = call[q]
<1>1. [Idle EXCEPT !.pc = pc] \in Calls
  BY DEF Idle, Calls, Pcs
<1>2. [Idle EXCEPT !.pc = pc].pc = pc
  BY DEF Idle
<1> QED BY <1>1, <1>2 DEF Goto, CallsTyped

LEMMA OrderedDevice ==
  ASSUME NEW k \in 1 .. Len(DeviceOrder)
  PROVE  DeviceOrder[k] \in Devices
BY DispatchAssumption DEF Devices

LEMMA SendTyped ==
  ASSUME CallsTyped, TokensTyped, NEW p \in Callers, NEW c \in Captures \cup {"other", "none"},
         NEW k \in 1 .. Len(DeviceOrder), SendTo(p, c, k)
  PROVE  /\ call' \in [Callers -> Calls]
         /\ call'[p].pc = "send"
         /\ \A q \in Callers \ {p} : call'[q] = call[q]
<1> DEFINE sent == [pc |-> "send", capture |-> c, at |-> k, token |-> token[DeviceOrder[k]]]
<1>1. token[DeviceOrder[k]] \in Nat
  BY OrderedDevice DEF TokensTyped
<1>2. sent \in Calls /\ sent.pc = "send"
  BY <1>1, DispatchAssumption DEF Calls, Pcs
<1>3. call' = [call EXCEPT ![p] = sent]
  BY DEF SendTo
<1> HIDE DEF sent
<1> QED BY <1>2, <1>3 DEF CallsTyped

LEMMA FirstSend ==
  ASSUME CallsTyped, TokensTyped, NEW p \in Callers, NEW c \in Captures \cup {"other"}, Dispatch(p, c)
  PROVE  /\ call' \in [Callers -> Calls]
         /\ call'[p].pc = "send"
         /\ \A q \in Callers \ {p} : call'[q] = call[q]
<1>1. 1 \in 1 .. Len(DeviceOrder)
  BY DispatchAssumption
<1>2. SendTo(p, c, 1)
  BY DEF Dispatch
<1> QED BY <1>1, <1>2, SendTyped

LEMMA LaterSend ==
  ASSUME CallsTyped, TokensTyped, NEW p \in Callers, SendNext(p)
  PROVE  /\ call' \in [Callers -> Calls]
         /\ call[p].pc = "send" /\ call'[p].pc = "send"
         /\ \A q \in Callers \ {p} : call'[q] = call[q]
<1>1. call[p].at \in Nat /\ call[p].capture \in Captures \cup {"none", "other"}
  BY DEF CallsTyped, Calls
<1>2. call[p].at < Len(DeviceOrder) /\ SendTo(p, call[p].capture, call[p].at + 1)
  BY DEF SendNext
<1>3. call[p].at + 1 \in 1 .. Len(DeviceOrder)
  BY <1>1, <1>2, DispatchAssumption
<1>4. call[p].pc = "send"
  BY DEF SendNext
<1> QED BY <1>1, <1>2, <1>3, <1>4, SendTyped

-----------------------------------------------------------------------------
(* The window. *)

\* Requests only leave the window, and the live loop does not begin a send.
LEMMA WindowShrinks ==
  ASSUME WindowInv, CallsTyped', inflight' \subseteq inflight,
         call'["live"].pc = "send" => call["live"].pc = "send"
  PROVE  WindowInv'
<1>1. IsFiniteSet(inflight') /\ Cardinality(inflight') <= Cardinality(inflight)
  BY FS_Subset DEF WindowInv, InflightFinite
<1>2. Cardinality(inflight) \in Nat /\ Cardinality(inflight') \in Nat
  BY <1>1, FS_CardinalityType DEF WindowInv, InflightFinite
<1> QED BY <1>1, <1>2, DispatchAssumption
        DEF WindowInv, InflightFinite, InflightBounded, RoomForTheSend

LEMMA LoopMovesOn ==
  ASSUME WindowInv, NEW pc \in Pcs \ {"send"}, Goto("live", pc), inflight' \subseteq inflight
  PROVE  WindowInv'
<1>1. CallsTyped' /\ call'["live"].pc = pc
  BY GotoTyped DEF WindowInv, CallsTyped, Callers
<1> QED BY <1>1, WindowShrinks

LEMMA OthersMoveOn ==
  ASSUME WindowInv, NEW p \in {"client", "board"}, Goto(p, "top"), inflight' \subseteq inflight
  PROVE  WindowInv'
<1>1. CallsTyped' /\ call'["live"] = call["live"]
  BY GotoTyped DEF WindowInv, CallsTyped, Callers, Pcs
<1> QED BY <1>1, WindowShrinks

LEMMA InitWindow == Init => WindowInv
<1> SUFFICES ASSUME Init PROVE WindowInv
  OBVIOUS
<1>1. Idle \in Calls /\ Idle.pc = "top"
  BY DEF Idle, Calls, Pcs
<1>2. IsFiniteSet(inflight) /\ Cardinality(inflight) = 0
  BY FS_EmptySet DEF Init
<1>3. call = [p \in Callers |-> Idle]
  BY DEF Init
<1> QED BY <1>1, <1>2, <1>3, DispatchAssumption
        DEF WindowInv, CallsTyped, InflightFinite, InflightBounded, RoomForTheSend, Callers

\* A dispatch of the live loop starts with a place in the window.
LEMMA DispatchKeepsRoom == WindowInv /\ TokensTyped /\ LiveDispatch => WindowInv'
<1> SUFFICES ASSUME WindowInv, TokensTyped, LiveDispatch PROVE WindowInv'
  OBVIOUS
<1>1. inflight' = StillOut /\ StillOut \subseteq inflight
  BY DEF LiveDispatch, WriteOff, StillOut
<1>2. IsFiniteSet(inflight')
  BY <1>1, FS_Subset DEF WindowInv, InflightFinite
<1>3. ~(Cardinality(inflight') >= MaxInflight)
  BY <1>1 DEF LiveDispatch, WindowFull
<1>4. Cardinality(inflight') < MaxInflight
  BY <1>2, <1>3, FS_CardinalityType, DispatchAssumption
<1>5. PICK c \in Captures : Dispatch("live", c)
  BY DEF LiveDispatch
<1>6. CallsTyped'
  BY <1>5, FirstSend DEF WindowInv, CallsTyped, Callers
<1>7. Cardinality(inflight') \in Nat
  BY <1>2, FS_CardinalityType
<1> QED BY <1>2, <1>4, <1>6, <1>7, DispatchAssumption
        DEF WindowInv, InflightFinite, InflightBounded, RoomForTheSend

\* Counting a request fills the place kept for it.
LEMMA AcceptedFits == WindowInv /\ LiveAccepted => WindowInv'
<1> SUFFICES ASSUME WindowInv, LiveAccepted PROVE WindowInv'
  OBVIOUS
<1>1. call["live"].pc = "send" /\ inflight' = inflight \cup {call["live"].capture}
  BY DEF LiveAccepted, AllSent
<1>2. Cardinality(inflight) < MaxInflight /\ IsFiniteSet(inflight) /\ Cardinality(inflight) \in Nat
  BY <1>1, FS_CardinalityType DEF WindowInv, RoomForTheSend, InflightFinite
<1>3. /\ IsFiniteSet(inflight')
      /\ Cardinality(inflight') = Cardinality(inflight) \/ Cardinality(inflight') = Cardinality(inflight) + 1
  BY <1>1, <1>2, FS_AddElement
<1>4. CallsTyped' /\ call'["live"].pc = "sleep"
  BY GotoTyped DEF LiveAccepted, WindowInv, CallsTyped, Callers, Pcs
<1>5. Cardinality(inflight') <= MaxInflight
  BY <1>2, <1>3, DispatchAssumption
<1> QED BY <1>3, <1>4, <1>5 DEF WindowInv, InflightFinite, InflightBounded, RoomForTheSend

LEMMA BoardEndKeepsWindow == WindowInv /\ BoardEnds => WindowInv'
<1> SUFFICES ASSUME WindowInv, BoardEnds PROVE WindowInv'
  OBVIOUS
<1>1. Idle \in Calls /\ Idle.pc = "top"
  BY DEF Idle, Calls, Pcs
<1>2. CallsTyped' /\ (call'["live"].pc = "send" => call["live"].pc = "send")
  BY <1>1 DEF BoardEnds, WindowInv, CallsTyped, Callers
<1>3. inflight' \subseteq inflight
  BY DEF BoardEnds, StartedLive, NothingOut
<1> QED BY <1>2, <1>3, WindowShrinks

\* Every step of the running system, and the last one.
LEMMA WindowStep == TokensTyped /\ WindowInv /\ [Next]_vars => WindowInv'
<1> SUFFICES ASSUME TokensTyped, WindowInv, [Next]_vars PROVE WindowInv'
  OBVIOUS
<1> USE DEF conns, tasks
<1>1. CASE UNCHANGED <<inflight, call>>
  BY <1>1 DEF WindowInv, CallsTyped, InflightFinite, InflightBounded, RoomForTheSend
<1>2. CASE Connection
  <2>1. UNCHANGED <<inflight, call>>
    BY <1>2 DEF Connection, Register, RegisterDropped, Registers, Break, HandlerEnds, Pong
  <2> QED BY <1>1, <2>1
<1>3. ASSUME NEW p \in Callers, SendNext(p) PROVE WindowInv'
  <2>1. CallsTyped' /\ (call'["live"].pc = "send" => call["live"].pc = "send")
    BY <1>3, LaterSend DEF WindowInv, CallsTyped, Callers
  <2>2. inflight' = inflight
    BY <1>3 DEF SendNext
  <2> QED BY <2>1, <2>2, WindowShrinks
<1>4. ASSUME NEW c \in Captures, Ages(c) \/ AnsweredEarly(c) PROVE WindowInv'
  BY <1>1, <1>4 DEF Ages, AnsweredEarly
<1>5. ASSUME NEW c \in Captures, Answered(c) PROVE WindowInv'
  <2>1. inflight' \subseteq inflight /\ call' = call
    BY <1>5 DEF Answered
  <2>2. CallsTyped'
    BY <2>1 DEF WindowInv, CallsTyped
  <2> QED BY <2>1, <2>2, WindowShrinks
<1>6. CASE LiveWait \/ LiveRefused
  <2>1. PICK pc \in Pcs \ {"send"} : Goto("live", pc)
    BY <1>6 DEF LiveWait, LiveRefused, Pcs
  <2>2. inflight' \subseteq inflight
    BY <1>6 DEF LiveWait, LiveRefused, WriteOff, StillOut
  <2> QED BY <2>1, <2>2, LoopMovesOn
<1>7. CASE LiveDispatch
  BY <1>7, DispatchKeepsRoom
<1>8. CASE LiveAccepted
  BY <1>8, AcceptedFits
<1>9. CASE LiveWoken \/ LiveSendFailed \/ LiveNotified \/ LiveSlept
  <2>1. PICK pc \in Pcs \ {"send"} : Goto("live", pc)
    BY <1>9 DEF LiveWoken, LiveSendFailed, LiveNotified, LiveSlept, Pcs
  <2>2. inflight' = inflight
    BY <1>9 DEF LiveWoken, LiveSendFailed, LiveNotified, LiveSlept
  <2> QED BY <2>1, <2>2, LoopMovesOn
<1>10. CASE LiveKilled \/ StartLive \/ StopLive \/ BoardStarts \/ Shutdown
  <2>1. Goto("live", "top") /\ inflight' \subseteq inflight
    BY <1>10 DEF LiveKilled, StartLive, StopLive, BoardStarts, Shutdown, StartedLive, StoppedLive,
                 NothingOut
  <2> QED BY <2>1, LoopMovesOn DEF Pcs
<1>11. ASSUME NEW p \in {"client", "board"}, Dispatch(p, "other"), inflight' = inflight
       PROVE  WindowInv'
  <2>1. CallsTyped' /\ call'["live"] = call["live"]
    BY <1>11, FirstSend DEF WindowInv, CallsTyped, Callers
  <2> QED BY <1>11, <2>1, WindowShrinks
<1>12. CASE ClientRequest \/ BoardDispatch
  BY <1>11, <1>12 DEF ClientRequest, BoardDispatch
<1>13. CASE ClientDone \/ BoardSent
  <2>1. PICK p \in {"client", "board"} : Goto(p, "top")
    BY <1>13 DEF ClientDone, BoardSent
  <2>2. inflight' = inflight
    BY <1>13 DEF ClientDone, BoardSent
  <2> QED BY <2>1, <2>2, OthersMoveOn
<1>14. CASE BoardEnds
  BY <1>14, BoardEndKeepsWindow
<1>15. CASE RequestRegistration \/ RigChanges \/ UNCHANGED vars
  BY <1>1, <1>15 DEF RequestRegistration, RigChanges, vars
<1> QED BY <1>2, <1>3, <1>4, <1>5, <1>6, <1>7, <1>8, <1>9, <1>10, <1>12, <1>13, <1>14, <1>15
        DEF Next, Running, LiveStep

-----------------------------------------------------------------------------
(* Connections. *)

LEMMA UnregisteredTyped ==
  ASSUME TokensTyped, NEW d, NEW c
  PROVE  Unregistered(d, c) \in [Devices -> Nat]
BY DEF TokensTyped, Unregistered

LEMMA InitTokens == Init => TokensTyped
BY DEF Init, TokensTyped

LEMMA TokensStep == TokensTyped /\ [Next]_vars => TokensTyped'
<1> SUFFICES ASSUME TokensTyped, [Next]_vars PROVE TokensTyped'
  OBVIOUS
<1> USE DEF conns, tasks
<1>1. CASE UNCHANGED <<token, made, handlers>>
  BY <1>1 DEF TokensTyped
<1>2. ASSUME NEW d \in Devices, Register(d) \/ RegisterDropped(d) PROVE TokensTyped'
  BY <1>2 DEF Register, RegisterDropped, Registers, TokensTyped
<1>3. ASSUME NEW h \in handlers, HandlerEnds(h) PROVE TokensTyped'
  BY <1>3, UnregisteredTyped DEF HandlerEnds, TokensTyped
<1>4. ASSUME NEW h \in handlers, Break(h) \/ Pong(h) PROVE TokensTyped'
  BY <1>1, <1>4 DEF Break, Pong
<1>5. ASSUME NEW p \in Callers, DropFailed(p), UNCHANGED <<made, handlers>> PROVE TokensTyped'
  BY <1>5, UnregisteredTyped DEF DropFailed, TokensTyped
<1>6. CASE LiveSendFailed
  BY <1>5, <1>6 DEF LiveSendFailed, Callers
<1>7. CASE ClientDone \/ BoardSent
  BY <1>1, <1>5, <1>7 DEF ClientDone, BoardSent, Callers
<1>8. CASE LiveNotified
  BY <1>8 DEF LiveNotified, TokensTyped
<1>9. CASE \/ \E p \in Callers : SendNext(p)
           \/ \E c \in Captures : Ages(c) \/ Answered(c) \/ AnsweredEarly(c)
           \/ LiveWait \/ LiveDispatch \/ LiveRefused \/ LiveWoken \/ LiveAccepted
           \/ LiveSlept \/ LiveKilled
           \/ StartLive \/ StopLive \/ ClientRequest
           \/ RequestRegistration \/ BoardStarts \/ BoardDispatch \/ BoardEnds
           \/ RigChanges \/ Shutdown \/ UNCHANGED vars
  <2>1. UNCHANGED <<token, made, handlers>>
    BY <1>9 DEF SendNext, Ages, Answered, AnsweredEarly, LiveWait, LiveDispatch, LiveRefused,
                LiveWoken, LiveAccepted, LiveSlept, LiveKilled, StartLive, StopLive, ClientRequest,
                RequestRegistration, BoardStarts, BoardDispatch, BoardEnds, RigChanges, Shutdown, vars
  <2> QED BY <1>1, <2>1
<1> QED BY <1>2, <1>3, <1>4, <1>6, <1>7, <1>8, <1>9 DEF Next, Running, LiveStep, Connection

\* A send, an ending handler, a notice: each looks at its own token.
LEMMA OnlyItsOwn ==
  ASSUME TokensTyped, [Next]_vars, NEW d \in Devices, token[d] # 0, token'[d] = 0
  PROVE  Gone(<<d, token[d]>>)
<1> USE DEF conns, tasks
<1>1. CASE UNCHANGED token
  BY <1>1
<1>2. ASSUME NEW e \in Devices, Register(e) \/ RegisterDropped(e) PROVE FALSE
  BY <1>2 DEF Register, RegisterDropped, Registers, TokensTyped
<1>3. ASSUME NEW h \in handlers, HandlerEnds(h) PROVE Gone(<<d, token[d]>>)
  <2>1. h[1] = d /\ h[2] = token[d] /\ h \in broken
    BY <1>3 DEF HandlerEnds, Unregistered, TokensTyped
  <2>2. h = <<h[1], h[2]>>
    BY DEF TokensTyped
  <2> QED BY <2>1, <2>2 DEF Gone
<1>4. ASSUME NEW p \in Callers, SendRaises(p), DropFailed(p) PROVE Gone(<<d, token[d]>>)
  <2>1. d = DeviceOrder[call[p].at] /\ token[d] = call[p].token
    BY <1>4 DEF DropFailed, Unregistered, TokensTyped
  <2> QED BY <1>4, <2>1 DEF SendRaises
<1>5. CASE LiveSendFailed \/ ClientDone \/ BoardSent
  BY <1>1, <1>4, <1>5 DEF LiveSendFailed, ClientDone, BoardSent, Callers
<1>6. CASE LiveNotified
  BY <1>6 DEF LiveNotified
<1>7. CASE \/ \E h \in handlers : Break(h) \/ Pong(h)
           \/ \E p \in Callers : SendNext(p)
           \/ \E c \in Captures : Ages(c) \/ Answered(c) \/ AnsweredEarly(c)
           \/ LiveWait \/ LiveDispatch \/ LiveRefused \/ LiveWoken \/ LiveAccepted
           \/ LiveSlept \/ LiveKilled
           \/ StartLive \/ StopLive \/ ClientRequest
           \/ RequestRegistration \/ BoardStarts \/ BoardDispatch \/ BoardEnds
           \/ RigChanges \/ Shutdown \/ UNCHANGED vars
  <2>1. UNCHANGED token
    BY <1>7 DEF Break, Pong, SendNext, Ages, Answered, AnsweredEarly, LiveWait, LiveDispatch,
                LiveRefused, LiveWoken, LiveAccepted, LiveSlept, LiveKilled, StartLive, StopLive,
                ClientRequest, RequestRegistration, BoardStarts, BoardDispatch, BoardEnds,
                RigChanges, Shutdown, vars
  <2> QED BY <1>1, <2>1
<1> QED BY <1>2, <1>3, <1>5, <1>6, <1>7 DEF Next, Running, LiveStep, Connection

-----------------------------------------------------------------------------
(* The pause. *)

\* A step that leaves the live loop anywhere but in a send.
LEMMA LoopSilent ==
  ASSUME CallsTyped, NEW pc \in Pcs \ {"send"}, Goto("live", pc)
  PROVE  LivePausedDuringCalibration'
BY GotoTyped DEF LivePausedDuringCalibration, Callers

LEMMA PauseStep ==
  TokensTyped /\ CallsTyped /\ LivePausedDuringCalibration /\ [Next]_vars
    => LivePausedDuringCalibration'
<1> SUFFICES ASSUME TokensTyped, CallsTyped, LivePausedDuringCalibration, [Next]_vars
             PROVE  LivePausedDuringCalibration'
  OBVIOUS
<1> USE DEF conns, tasks
<1>1. CASE call'["live"].pc = call["live"].pc /\ (board' = board \/ board' # "running")
  BY <1>1 DEF LivePausedDuringCalibration
<1>2. CASE \/ Connection \/ \E c \in Captures : Ages(c) \/ Answered(c) \/ AnsweredEarly(c)
           \/ RequestRegistration \/ RigChanges \/ UNCHANGED vars
  <2>1. call' = call /\ (board' = board \/ board' # "running")
    BY <1>2 DEF Connection, Register, RegisterDropped, Registers, Break, HandlerEnds, Pong, Ages,
                Answered, AnsweredEarly, RequestRegistration, RigChanges, vars
  <2> QED BY <1>1, <2>1
<1>3. ASSUME NEW p \in Callers, SendNext(p) PROVE LivePausedDuringCalibration'
  <2>1. board' = board
    BY <1>3 DEF SendNext
  <2>2. call'["live"].pc = call["live"].pc
    BY <1>3, LaterSend DEF Callers
  <2> QED BY <1>1, <2>1, <2>2
<1>4. CASE LiveDispatch
  <2>1. Refusal("live") = "none"
    BY <1>4 DEF LiveDispatch, Dispatch
  <2>2. ~Calibrating
    BY <2>1 DEF Refusal
  <2>3. board' = "off"
    BY <1>4, <2>2 DEF LiveDispatch, Calibrating
  <2> QED BY <2>3 DEF LivePausedDuringCalibration
<1>5. CASE \/ LiveWait \/ LiveRefused \/ LiveWoken \/ LiveAccepted \/ LiveSendFailed
           \/ LiveNotified \/ LiveSlept \/ LiveKilled
           \/ StartLive \/ StopLive \/ BoardStarts \/ Shutdown
  <2>1. PICK pc \in Pcs \ {"send"} : Goto("live", pc)
    BY <1>5 DEF LiveWait, LiveRefused, LiveWoken, LiveAccepted, LiveSendFailed, LiveNotified,
                LiveSlept, LiveKilled, StartLive, StopLive, BoardStarts, Shutdown, Pcs
  <2> QED BY <2>1, LoopSilent
<1>6. CASE ClientRequest \/ BoardDispatch
  <2>1. PICK p \in {"client", "board"} : Dispatch(p, "other")
    BY <1>6 DEF ClientRequest, BoardDispatch
  <2>2. call'["live"] = call["live"]
    BY <2>1, FirstSend DEF Callers
  <2>3. board' = board
    BY <1>6 DEF ClientRequest, BoardDispatch
  <2> QED BY <1>1, <2>2, <2>3
<1>7. CASE ClientDone \/ BoardSent
  <2>1. PICK p \in {"client", "board"} : Goto(p, "top")
    BY <1>7 DEF ClientDone, BoardSent
  <2>2. call'["live"] = call["live"]
    BY <2>1, GotoTyped DEF Callers, Pcs
  <2>3. board' = board
    BY <1>7 DEF ClientDone, BoardSent
  <2> QED BY <1>1, <2>2, <2>3
<1>8. CASE BoardEnds
  BY <1>8 DEF BoardEnds, LivePausedDuringCalibration
<1> QED BY <1>2, <1>3, <1>4, <1>5, <1>6, <1>7, <1>8 DEF Next, Running, LiveStep

-----------------------------------------------------------------------------
IInv == TokensTyped /\ WindowInv /\ LivePausedDuringCalibration

LEMMA InitIInv == Init => IInv
BY InitTokens, InitWindow DEF IInv, Init, LivePausedDuringCalibration

LEMMA StepIInv == IInv /\ [Next]_vars => IInv'
BY TokensStep, WindowStep, PauseStep DEF IInv, WindowInv

LEMMA Invariance == Spec => []IInv
BY InitIInv, StepIInv, PTL DEF Spec

(***************************************************************************)
(* The live loop has at most max_inflight requests out, although it counts *)
(* one only after both sends returned, when its pair may already have been *)
(* made (_live_loop, handle_rgbd).                                         *)
(***************************************************************************)
THEOREM WindowKept == Spec => []InflightBounded
<1>1. IInv => InflightBounded
  BY DEF IInv, WindowInv
<1> QED BY <1>1, Invariance, PTL

(***************************************************************************)
(* While the board is measured the live loop sends nothing, whoever starts *)
(* live mode meanwhile (_calibration_loop, dispatch_capture).              *)
(***************************************************************************)
THEOREM LivePaused == Spec => []LivePausedDuringCalibration
<1>1. IInv => LivePausedDuringCalibration
  BY DEF IInv
<1> QED BY <1>1, Invariance, PTL

(***************************************************************************)
(* A registered connection is dropped only when it is itself gone          *)
(* (unregister_capture and its three callers).                             *)
(***************************************************************************)
THEOREM ReconnectSafe == Spec => NewConnectionUnharmed
<1>1. IInv /\ [Next]_vars =>
        [\A d \in Devices : token[d] # 0 /\ token'[d] = 0 => Gone(<<d, token[d]>>)]_vars
  BY OnlyItsOwn DEF IInv
<1> QED BY <1>1, Invariance, PTL DEF Spec, NewConnectionUnharmed

=============================================================================
