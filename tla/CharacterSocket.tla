--------------------------- MODULE CharacterSocket --------------------------
(***************************************************************************)
(* How a Minecraft client keeps its connection to /ws/character            *)
(* (CharacterWebSocket.java), composed with the stream at the other end:   *)
(* the subscribers of CharacterStream are the sockets of one client.       *)
(*                                                                         *)
(* The timer tasks, the connection attempts and the listeners share one    *)
(* scheduler thread; the reconnect key is handled by the render thread, so *)
(* its steps fall between theirs.  How long a retry waits is left open.    *)
(* The name of a socket is used again once nothing refers to it.           *)
(***************************************************************************)
EXTENDS CharacterStream, FiniteSets

CONSTANTS
    NoSocket,
    MaxUnderWay     \* bound: connections under way when the key is pressed

ASSUME SocketAssumption == NoSocket \notin Subscribers /\ MaxUnderWay \in Nat

VARIABLES
    ws,         \* ws[s]: "gone", "opening", "open", "greeted", or "lost" and not yet noticed
    socket,     \* the field socket, where commands are sent
    attempt,    \* connectInFlight: "none", "opening", or "opened" and not yet complete
    scheduled,  \* reconnectScheduled
    tasks,      \* the timer tasks that have not run
    pressed,    \* how far reconnectNow is: "no", "read" or "forgotten"
    old,        \* its local of that name
    closed      \* close() was called

client == <<ws, socket, attempt, scheduled, tasks, pressed, old, closed>>
allVars == <<vars, client>>

SocketInit ==
    /\ Init
    /\ ws = [s \in Subscribers |-> "gone"]
    /\ socket = NoSocket /\ old = NoSocket
    /\ attempt = "none" /\ pressed = "no" /\ closed = FALSE
    /\ scheduled = TRUE /\ tasks = 1

Open == {s \in Subscribers : ws[s] \in {"open", "greeted"}}
UnderWay == tasks + Cardinality({s \in Subscribers : ws[s] # "gone"})

-----------------------------------------------------------------------------
(* The scheduler thread. *)

\* scheduleConnect: a task unless one is scheduled.
ScheduleConnect ==
    /\ scheduled' = TRUE
    /\ tasks' = IF scheduled THEN tasks ELSE tasks + 1

\* Bug: the task does not take back the mark that it is scheduled.
TaskTakenSilently ==
    /\ tasks > 0 /\ tasks' = tasks - 1
    /\ UNCHANGED scheduled

TaskTaken ==
    /\ tasks > 0 /\ tasks' = tasks - 1
    /\ scheduled' = FALSE

\* The task calls connect, which returns if an attempt is under way; whether a
\* socket is open it does not ask.
ConnectIdly ==
    /\ TaskTaken /\ attempt = "opening"
    /\ UNCHANGED <<vars, ws, socket, attempt, pressed, old, closed>>

ConnectSocket(s) ==
    /\ TaskTaken /\ attempt = "none"
    /\ ws[s] = "gone" /\ conn[s] = "off" /\ s # old
    /\ attempt' = "opening"
    /\ ws' = [ws EXCEPT ![s] = "opening"]
    /\ UNCHANGED <<vars, socket, pressed, old, closed>>

\* The attempt fails or times out, or the URL is no URL.
AttemptFails(s) ==
    /\ ws[s] = "opening"
    /\ ws' = [ws EXCEPT ![s] = "gone"]
    /\ attempt' = "none"
    /\ ScheduleConnect
    /\ UNCHANGED <<vars, socket, pressed, old, closed>>

OnOpen(s) ==
    /\ ws[s] = "opening"
    /\ ws' = [ws EXCEPT ![s] = "open"]
    /\ attempt' = "opened"
    /\ socket' = s
    /\ UNCHANGED <<vars, scheduled, tasks, pressed, old, closed>>

\* The rest of onOpen and the completion of the attempt: the hello goes to the field
\* socket, whatever it holds by now.
SendHello ==
    /\ attempt = "opened"
    /\ attempt' = "none"
    /\ ws' = IF socket \in Open THEN [ws EXCEPT ![socket] = "greeted"] ELSE ws
    /\ UNCHANGED <<vars, socket, scheduled, tasks, pressed, old, closed>>

\* onClose and onError, also of a socket that was replaced.
OnClose(s) ==
    /\ ws[s] = "lost" /\ attempt # "opened"
    /\ ws' = [ws EXCEPT ![s] = "gone"]
    /\ socket' = IF socket = s THEN NoSocket ELSE socket
    /\ ScheduleConnect
    /\ UNCHANGED <<vars, attempt, pressed, old, closed>>

-----------------------------------------------------------------------------
(* The render thread. *)

\* reconnectNow reads the field,
ReconnectNow ==
    /\ pressed = "no" /\ ~closed
    /\ UnderWay < MaxUnderWay
    /\ pressed' = "read" /\ old' = socket
    /\ UNCHANGED <<vars, ws, socket, attempt, scheduled, tasks, closed>>

\* clears it and aborts what it read: no listener hears of that socket again,
Forget ==
    /\ pressed = "read"
    /\ pressed' = "forgotten"
    /\ socket' = NoSocket
    /\ ws' = IF old = NoSocket THEN ws ELSE [ws EXCEPT ![old] = "gone"]
    /\ UNCHANGED <<vars, attempt, scheduled, tasks, old, closed>>

\* Bug: nothing is scheduled when there was no socket to abort.
ScheduleIfAborted ==
    IF old = NoSocket THEN UNCHANGED <<scheduled, tasks>>
    ELSE scheduled' = TRUE /\ tasks' = tasks + 1

\* and takes back the mark before it schedules, so a task is scheduled in any case.
ScheduleAtOnce ==
    /\ scheduled' = TRUE
    /\ tasks' = tasks + 1

Reschedule ==
    /\ pressed = "forgotten"
    /\ ScheduleAtOnce
    /\ pressed' = "no" /\ old' = NoSocket
    /\ UNCHANGED <<vars, ws, socket, attempt, closed>>

\* close ends both executors: no task runs and no listener is called any more.
Close ==
    /\ pressed = "no" /\ ~closed
    /\ closed' = TRUE
    /\ ws' = [s \in Subscribers |-> "gone"]
    /\ socket' = NoSocket /\ attempt' = "none" /\ tasks' = 0
    /\ UNCHANGED <<vars, scheduled, pressed, old>>

-----------------------------------------------------------------------------
(* The network and the backend. *)

\* A connection breaks, or the backend ends it.
Drop(s) ==
    /\ ws[s] = "greeted" \/ (ws[s] = "open" /\ attempt = "opened")
    /\ ws' = [ws EXCEPT ![s] = "lost"]
    /\ UNCHANGED <<vars, socket, attempt, scheduled, tasks, pressed, old, closed>>

\* ws_character ends a connection whose hello was not sent.
HelloDeadline(s) ==
    /\ ws[s] = "open" /\ attempt # "opened"
    /\ ws' = [ws EXCEPT ![s] = "lost"]
    /\ UNCHANGED <<vars, socket, attempt, scheduled, tasks, pressed, old, closed>>

HelloArrives(s) == ws[s] = "greeted" /\ Connect(s) /\ UNCHANGED client

ConnectionEnds(s) == ws[s] \in {"lost", "gone"} /\ Disconnect(s) /\ UNCHANGED client

Stream(s) == (SendLatest(s) \/ Subscribe(s) \/ Take(s) \/ Sent(s)) /\ UNCHANGED client

Scheduler ==
    \/ ConnectIdly
    \/ \E s \in Subscribers : ConnectSocket(s)
    \/ SendHello

SocketNext ==
    \/ Scheduler
    \/ ReconnectNow \/ Forget \/ Reschedule \/ Close
    \/ \E s \in Subscribers :
         \/ AttemptFails(s) \/ OnOpen(s) \/ OnClose(s)
         \/ Drop(s) \/ HelloDeadline(s) \/ HelloArrives(s) \/ ConnectionEnds(s) \/ Stream(s)
    \/ \E id \in Frames : Publish(id) /\ UNCHANGED client
    \/ Announce /\ UNCHANGED client

SocketSpec == SocketInit /\ [][SocketNext]_allVars

\* The scheduler runs the tasks it has, an attempt has a timeout, a handler on the
\* render thread ends, and so does a send of the backend on a connection that holds.
Fairness ==
    /\ WF_allVars(Scheduler)
    /\ WF_allVars(Forget \/ Reschedule)
    /\ \A s \in Subscribers :
         /\ WF_allVars(AttemptFails(s) \/ OnOpen(s))
         /\ WF_allVars(OnClose(s))
         /\ WF_allVars(HelloArrives(s))
         /\ WF_allVars(ConnectionEnds(s))
         /\ WF_allVars((SendLatest(s) \/ Subscribe(s)) /\ UNCHANGED client)

FairSocketSpec == SocketSpec /\ Fairness

-----------------------------------------------------------------------------
(* Properties. *)

\* Until it is closed a client always has something that leads to a connection: a
\* timer task, an attempt, an open socket, a loss it will be told of, or a reconnect
\* that has not scheduled yet.  No crossing of the reconnect key with callbacks of
\* sockets new and old leaves a mark set with nothing behind it (scheduleConnect,
\* connect, the listeners).
StillTrying ==
    closed \/ tasks > 0 \/ attempt # "none" \/ pressed # "no" \/ \E s \in Subscribers : ws[s] # "gone"

Disturbed ==
    \/ ReconnectNow \/ Close
    \/ \E s \in Subscribers : Drop(s) \/ AttemptFails(s)

\* When connections hold and succeed from some moment on and the key is left alone,
\* the client ends up subscribed on the very socket it sends its commands on,
\* whatever reconnects, failures and leftover sockets came before.
CommandsReachBackend ==
    <>[][~Disturbed]_allVars => <>[](closed \/ (socket # NoSocket /\ conn[socket] = "on"))

=============================================================================
