----------------------------- MODULE NativeHost -----------------------------
(***************************************************************************)
(* The native messaging host, apps/fubun-native-host/src/main.rs, after    *)
(* its two handshakes: the select loop of run_host, one task per event,    *)
(* the reader of Core's adapter stream and the two writer tasks.           *)
(*                                                                         *)
(* The tasks share the map of pending event acknowledgements and three     *)
(* bounded channels.  A message of the extension carries a request id,     *)
(* chosen by the extension: nothing keeps it from using one twice.  A      *)
(* oneshot channel is named by the task that holds its receiver.           *)
(***************************************************************************)
EXTENDS Naturals, Sequences, FiniteSets

CONSTANTS
    Ids,         \* request ids
    MaxTasks,    \* bound on the events that are handled
    Capacity,    \* of each of the three channels
    MaxActions,  \* bound on the requests Core sends
    MaxMessages, \* bound on the messages of the extension that must be answered
    None

ASSUME ConstantsAssumption ==
    /\ Capacity \in Nat \ {0} /\ MaxTasks \in Nat
    /\ MaxActions \in Nat /\ MaxMessages \in Nat
    /\ None \notin Ids /\ None \notin 1..MaxTasks

Tasks == 1..MaxTasks    \* the event tasks, numbered as they are spawned

VARIABLES
    loop,        \* what the select loop does
    held,        \* the message it is about to send
    task,        \* task -> where emit_event_and_wait is
    idOf,        \* task -> its request id
    oneshot,     \* task -> what was sent to it, or "empty"
    pending,     \* request id -> the task whose sender is in the map, or None
    reader,      \* adapter_reader_task
    adapterOut, adapterUp,  \* the channel of the adapter writer task, and the task
    nativeOut, nativeUp,    \* the channel of the native writer task, and the task
    coreIn,      \* the channel from the reader to the loop
    unacked,     \* the events Core has read whose acknowledgement has not been read
    actions,     \* how many requests Core has sent
    messages,    \* how many messages that must be answered the extension has sent
    results,     \* the actions the extension has read and not answered
    owing,       \* history: request id -> messages taken and not answered
    acked        \* history: request id -> acknowledgements received from Core

tasks    == <<task, idOf, oneshot, pending>>
channels == <<adapterOut, adapterUp, nativeOut, nativeUp, coreIn>>
peers    == <<unacked, actions, messages, results>>
history  == <<owing, acked>>
vars     == <<loop, held, tasks, reader, channels, peers, history>>

\* A message to the extension.  Only an action is not an answer.
Native == [kind : {"ack", "error", "answer", "action"}, id : Ids \cup {None}]
\* A message to Core.
Adapter == [kind : {"event", "result", "status"}, id : Ids \cup {None}]

\* The values of the variables.
TypeOK ==
    /\ loop \in {"select", "requesting", "toNative", "toAdapter", "done"}
    /\ held \in Native \cup Adapter \cup {None}
    /\ task \in [Tasks -> {"unused", "spawned", "sending", "waiting", "acknowledged",
                           "failed", "done"}]
    /\ idOf \in [Tasks -> Ids \cup {None}]
    /\ oneshot \in [Tasks -> {"empty", "ack", "protocol", "disconnected", "closed"}]
    /\ pending \in [Ids -> Tasks \cup {None}]
    /\ reader \in {"reading", "action", "status", "done"}
    /\ adapterOut \in Seq(Adapter) /\ Len(adapterOut) <= Capacity
    /\ nativeOut \in Seq(Native) /\ Len(nativeOut) <= Capacity
    /\ coreIn \in Seq({"action", "status"}) /\ Len(coreIn) <= Capacity
    /\ adapterUp \in BOOLEAN /\ nativeUp \in BOOLEAN
    /\ unacked \in Seq(Ids)
    /\ actions \in 0..MaxActions
    /\ messages \in 0..MaxMessages
    /\ results \in Nat
    /\ owing \in [Ids -> Nat] /\ acked \in [Ids -> Nat]

\* Both hellos are acknowledged and the tasks spawned.
Init ==
    /\ loop = "select" /\ held = None
    /\ task = [t \in Tasks |-> "unused"]
    /\ idOf = [t \in Tasks |-> None]
    /\ oneshot = [t \in Tasks |-> "empty"]
    /\ pending = [r \in Ids |-> None]
    /\ reader = "reading"
    /\ adapterOut = <<>> /\ adapterUp = TRUE
    /\ nativeOut = <<>> /\ nativeUp = TRUE
    /\ coreIn = <<>>
    /\ unacked = <<>>
    /\ actions = 0 /\ messages = 0 /\ results = 0
    /\ owing = [r \in Ids |-> 0] /\ acked = [r \in Ids |-> 0]

-----------------------------------------------------------------------------
(***************************************************************************)
(* The pending map.                                                        *)
(***************************************************************************)

\* The oneshot channels when the senders of the tasks in S are used or dropped.
Told(S, value) == [t \in Tasks |-> IF t \in S THEN value ELSE oneshot[t]]

\* Mutant: the guard is never armed.
DropGuardNever(t) == UNCHANGED <<pending, oneshot>>

\* Drop of an armed PendingEventAckGuard: whatever the map holds under its id is
\* removed; a sender of another task that goes with it closes that task's channel.
DropGuard(t) ==
    /\ pending' = [pending EXCEPT ![idOf[t]] = None]
    /\ oneshot' = Told({pending[idOf[t]]} \ {t}, "closed")

\* drain_pending_event_acks.
Drain ==
    /\ pending' = [r \in Ids |-> None]
    /\ oneshot' = Told({pending[r] : r \in Ids}, "disconnected")

-----------------------------------------------------------------------------
(***************************************************************************)
(* The loop of run_host and handle_native_message.                         *)
(***************************************************************************)

Hold(place, message) == loop' = place /\ held' = message

\* The loop takes a message of the extension with request id r.
Takes(r) ==
    /\ loop = "select"
    /\ messages < MaxMessages /\ messages' = messages + 1
    /\ owing' = [owing EXCEPT ![r] = @ + 1]

\* browser.observation.enable and pause: the loop waits for Core's answer.
TakeObservationRequest(r) ==
    /\ Takes(r)
    /\ Hold("requesting", [kind |-> "answer", id |-> r])
    /\ UNCHANGED <<tasks, reader, channels, unacked, actions, results, acked>>

\* client.request returns; an error or an unexpected answer is integration.error.
ClientReturns ==
    /\ loop = "requesting"
    /\ \/ Hold("toNative", held)
       \/ Hold("toNative", [held EXCEPT !.kind = "error"])
    /\ UNCHANGED <<tasks, reader, channels, peers, history>>

\* integration.ping, or a message that is refused.
TakePingOrInvalid(r) ==
    /\ Takes(r)
    /\ \E kind \in {"answer", "error"} : Hold("toNative", [kind |-> kind, id |-> r])
    /\ UNCHANGED <<tasks, reader, channels, unacked, actions, results, acked>>

\* browser.event.emit: a task is spawned and the loop goes on.
TakeEvent(r, t) ==
    /\ Takes(r)
    /\ t = Cardinality({u \in Tasks : task[u] # "unused"}) + 1
    /\ task' = [task EXCEPT ![t] = "spawned"]
    /\ idOf' = [idOf EXCEPT ![t] = r]
    /\ UNCHANGED <<loop, held, oneshot, pending, reader, channels, unacked, actions, results,
                   acked>>

\* browser.action.result of an action it has read: forwarded to Core, not answered.
TakeActionResult ==
    /\ loop = "select"
    /\ results > 0 /\ results' = results - 1
    /\ \E r \in Ids : Hold("toAdapter", [kind |-> "result", id |-> r])
    /\ UNCHANGED <<tasks, reader, channels, unacked, actions, messages, history>>

\* The loop takes a request of Core from the channel.
TakeCoreInbound ==
    /\ loop = "select" /\ coreIn # <<>>
    /\ IF Head(coreIn) = "action"
       THEN Hold("toNative", [kind |-> "action", id |-> None])
       ELSE Hold("toAdapter", [kind |-> "status", id |-> None])
    /\ coreIn' = Tail(coreIn)
    /\ UNCHANGED <<tasks, reader, adapterOut, adapterUp, nativeOut, nativeUp, peers, history>>

\* native_writer.send: waits for room; a send to a writer that ended is ignored.
LoopSendsNative ==
    /\ loop = "toNative"
    /\ nativeUp => Len(nativeOut) < Capacity
    /\ nativeOut' = IF nativeUp THEN Append(nativeOut, held) ELSE nativeOut
    /\ Hold("select", None)
    /\ UNCHANGED <<tasks, reader, adapterOut, adapterUp, nativeUp, coreIn, peers, history>>

\* adapter_writer.send: waits for room; if the writer ended, a status is ignored and
\* a result makes an integration.error.
LoopSendsAdapter ==
    /\ loop = "toAdapter"
    /\ adapterUp => Len(adapterOut) < Capacity
    /\ adapterOut' = IF adapterUp THEN Append(adapterOut, held) ELSE adapterOut
    /\ IF ~adapterUp /\ held.kind = "result"
       THEN /\ Hold("toNative", [kind |-> "error", id |-> held.id])
            /\ owing' = [owing EXCEPT ![held.id] = @ + 1]
       ELSE Hold("select", None) /\ UNCHANGED owing
    /\ UNCHANGED <<tasks, reader, adapterUp, nativeOut, nativeUp, coreIn, peers, acked>>

\* The extension closes its end, or the reader ended and its channel is empty: the
\* loop ends and takes every task and channel with it.
EndHost ==
    /\ loop = "select"
    /\ Hold("done", None)
    /\ Drain
    /\ task' = [t \in Tasks |-> IF task[t] = "unused" THEN "unused" ELSE "done"]
    /\ reader' = "done" /\ adapterUp' = FALSE /\ nativeUp' = FALSE
    /\ adapterOut' = <<>> /\ nativeOut' = <<>> /\ coreIn' = <<>>
    /\ unacked' = <<>>
    /\ UNCHANGED <<idOf, actions, messages, results, history>>

-----------------------------------------------------------------------------
(***************************************************************************)
(* The task of an event: emit_event_and_wait and the answer.               *)
(***************************************************************************)

Goto(t, place) == task' = [task EXCEPT ![t] = place]

\* The entry is made; an id that is already pending is refused.
InsertPending(t) ==
    /\ task[t] = "spawned"
    /\ IF pending[idOf[t]] # None
       THEN Goto(t, "failed") /\ UNCHANGED pending
       ELSE Goto(t, "sending") /\ pending' = [pending EXCEPT ![idOf[t]] = t]
    /\ UNCHANGED <<loop, held, idOf, oneshot, reader, channels, peers, history>>

\* adapter_writer.send of the event: no timeout while it waits for room.
SendEvent(t) ==
    /\ task[t] = "sending"
    /\ \/ /\ adapterUp /\ Len(adapterOut) < Capacity
          /\ adapterOut' = Append(adapterOut, [kind |-> "event", id |-> idOf[t]])
          /\ Goto(t, "waiting")
          /\ UNCHANGED <<pending, oneshot>>
       \/ /\ ~adapterUp
          /\ DropGuard(t) /\ Goto(t, "failed")
          /\ UNCHANGED adapterOut
    /\ UNCHANGED <<loop, held, idOf, reader, adapterUp, nativeOut, nativeUp, coreIn,
                   peers, history>>

\* The oneshot channel has a value, and the guard is disarmed; or its sender is gone.
ReceiveAck(t) ==
    /\ task[t] = "waiting" /\ oneshot[t] # "empty"
    /\ Goto(t, IF oneshot[t] = "ack" THEN "acknowledged" ELSE "failed")
    /\ IF oneshot[t] = "closed" THEN DropGuard(t) ELSE UNCHANGED <<pending, oneshot>>
    /\ UNCHANGED <<loop, held, idOf, reader, channels, peers, history>>

\* Mutant: the wait has no limit.
AckNeverTimesOut(t) == FALSE /\ UNCHANGED vars

\* EVENT_ACK_TIMEOUT; a value that is there is taken first.
AckTimesOut(t) ==
    /\ task[t] = "waiting" /\ oneshot[t] = "empty"
    /\ Goto(t, "failed")
    /\ DropGuard(t)
    /\ UNCHANGED <<loop, held, idOf, reader, channels, peers, history>>

\* Mutant: a failure is not reported.
AnswerEventIfAcked(t) ==
    /\ task[t] \in {"acknowledged", "failed"}
    /\ nativeUp => Len(nativeOut) < Capacity
    /\ nativeOut' = IF nativeUp /\ task[t] = "acknowledged"
                    THEN Append(nativeOut, [kind |-> "ack", id |-> idOf[t]]) ELSE nativeOut
    /\ Goto(t, "done")
    /\ UNCHANGED <<loop, held, idOf, oneshot, pending, reader, adapterOut, adapterUp, nativeUp,
                   coreIn, peers, history>>

\* browser.event.ack or integration.error.
AnswerEvent(t) ==
    /\ task[t] \in {"acknowledged", "failed"}
    /\ nativeUp => Len(nativeOut) < Capacity
    /\ LET kind == IF task[t] = "acknowledged" THEN "ack" ELSE "error"
       IN  nativeOut' = IF nativeUp THEN Append(nativeOut, [kind |-> kind, id |-> idOf[t]])
                        ELSE nativeOut
    /\ Goto(t, "done")
    /\ UNCHANGED <<loop, held, idOf, oneshot, pending, reader, adapterOut, adapterUp, nativeUp,
                   coreIn, peers, history>>

-----------------------------------------------------------------------------
(***************************************************************************)
(* The reader of Core's stream and the writers.                            *)
(***************************************************************************)

\* Mutant: an acknowledgement goes to any event that waits.
RouteAckToAny(wellFormed) ==
    /\ reader = "reading" /\ unacked # <<>>
    /\ acked' = [acked EXCEPT ![Head(unacked)] = @ + 1]
    /\ unacked' = Tail(unacked)
    /\ IF \E r \in Ids : pending[r] # None
       THEN \E r \in Ids :
              /\ pending[r] # None
              /\ oneshot' = Told({pending[r]}, "ack")
              /\ pending' = [pending EXCEPT ![r] = None]
       ELSE UNCHANGED <<pending, oneshot>>
    /\ UNCHANGED <<loop, held, task, idOf, reader, channels, actions, messages, results, owing>>

\* route_adapter_request of an acknowledgement: to the task of that request id, if it
\* still waits.
RouteAck(wellFormed) ==
    /\ reader = "reading" /\ unacked # <<>>
    /\ LET r == Head(unacked)
       IN  /\ acked' = [acked EXCEPT ![r] = @ + 1]
           /\ pending' = [pending EXCEPT ![r] = None]
           /\ oneshot' = Told({pending[r]}, IF wellFormed THEN "ack" ELSE "protocol")
    /\ unacked' = Tail(unacked)
    /\ UNCHANGED <<loop, held, task, idOf, reader, channels, actions, messages, results, owing>>

\* A request of Core arrives: until the channel has room the reader reads nothing,
\* acknowledgements included.
ReadRequest(kind) ==
    /\ reader = "reading" /\ actions < MaxActions
    /\ reader' = kind
    /\ actions' = actions + 1
    /\ UNCHANGED <<loop, held, tasks, channels, unacked, messages, results, history>>

\* core_sender.send.
RouteRequest ==
    /\ reader \in {"action", "status"}
    /\ Len(coreIn) < Capacity
    /\ coreIn' = Append(coreIn, reader)
    /\ reader' = "reading"
    /\ UNCHANGED <<loop, held, tasks, adapterOut, adapterUp, nativeOut, nativeUp, peers, history>>

\* The stream ends or holds a frame the reader refuses.
ReaderEnds ==
    /\ reader = "reading"
    /\ reader' = "done"
    /\ Drain
    /\ UNCHANGED <<loop, held, task, idOf, channels, peers, history>>

\* adapter_writer_task: Core reads the message, or the write fails and the task ends.
AdapterWrites ==
    /\ adapterUp /\ adapterOut # <<>>
    /\ \/ /\ adapterOut' = Tail(adapterOut)
          /\ unacked' = IF Head(adapterOut).kind = "event"
                        THEN Append(unacked, Head(adapterOut).id) ELSE unacked
          /\ UNCHANGED adapterUp
       \/ /\ adapterUp' = FALSE /\ adapterOut' = <<>>
          /\ UNCHANGED unacked
    /\ UNCHANGED <<loop, held, tasks, reader, nativeOut, nativeUp, coreIn, actions, messages,
                   results, history>>

\* native_writer_task writes a message.
NativeWrites ==
    /\ nativeUp /\ nativeOut # <<>>
    /\ nativeOut' = Tail(nativeOut)
    /\ IF Head(nativeOut).kind = "action"
       THEN results' = results + 1 /\ UNCHANGED owing
       ELSE owing' = [owing EXCEPT ![Head(nativeOut).id] = @ - 1] /\ UNCHANGED results
    /\ UNCHANGED <<loop, held, tasks, reader, adapterOut, adapterUp, nativeUp, coreIn, unacked,
                   actions, messages, acked>>

\* A message is too large or the pipe is closed: the task ends, and the host goes on
\* without a voice.
NativeWriteFails ==
    /\ nativeUp /\ nativeOut # <<>>
    /\ nativeUp' = FALSE /\ nativeOut' = <<>>
    /\ UNCHANGED <<loop, held, tasks, reader, adapterOut, adapterUp, coreIn, peers, history>>

-----------------------------------------------------------------------------
TaskStep(t) ==
    InsertPending(t) \/ SendEvent(t) \/ ReceiveAck(t) \/ AckTimesOut(t) \/ AnswerEvent(t)

LoopSends == LoopSendsNative \/ LoopSendsAdapter

Next ==
    /\ loop # "done"
    /\ \/ \E r \in Ids : \/ TakeObservationRequest(r) \/ TakePingOrInvalid(r)
                         \/ \E t \in Tasks : TakeEvent(r, t)
       \/ TakeActionResult \/ TakeCoreInbound \/ ClientReturns \/ LoopSends \/ EndHost
       \/ \E t \in Tasks : TaskStep(t)
       \/ \E wellFormed \in BOOLEAN : RouteAck(wellFormed)
       \/ \E kind \in {"action", "status"} : ReadRequest(kind)
       \/ RouteRequest \/ ReaderEnds
       \/ AdapterWrites \/ NativeWrites \/ NativeWriteFails

Spec == Init /\ [][Next]_vars

\* The runtime runs the tasks and the timers, a bounded channel serves those who wait
\* for room in turn, Core reads the adapter socket and the browser reads the pipe.
Fairness ==
    /\ \A t \in Tasks : SF_vars(loop # "done" /\ TaskStep(t))
    /\ WF_vars(loop # "done" /\ AdapterWrites)
    /\ WF_vars(loop # "done" /\ NativeWrites)

FairSpec == Spec /\ Fairness

-----------------------------------------------------------------------------
(***************************************************************************)
(* Properties.                                                             *)
(***************************************************************************)

\* The map holds the entries of the tasks that still wait, and a task that was told
\* nothing is still in the map, so that its acknowledgement can reach it: neither a
\* timeout, a reused id, a lost Core nor a guard leaves an entry or a task behind.
PendingExact ==
    /\ \A r \in Ids : pending[r] # None =>
          idOf[pending[r]] = r /\ task[pending[r]] \in {"sending", "waiting"}
    /\ \A t \in Tasks : task[t] \in {"sending", "waiting"} /\ oneshot[t] = "empty" =>
          pending[idOf[t]] = t

\* Answers to request id r in the channel.
Queued(r) == Cardinality({i \in DOMAIN nativeOut : nativeOut[i].id = r})

\* Acknowledgements are not misrouted: the extension is told that an event was
\* acknowledged at most as often as Core acknowledged that request id, whatever
\* requests of Core come between.
AcksGenuine ==
    \A r \in Ids :
        Cardinality({t \in Tasks : idOf[t] = r /\ (oneshot[t] = "ack" \/ task[t] = "acknowledged")})
            <= acked[r]

\* While the host can write, every message that must be answered is being worked on or
\* was answered exactly once.
AnsweredOnce ==
    loop # "done" /\ nativeUp =>
        \A r \in Ids :
            owing[r] = Queued(r)
                     + Cardinality({t \in Tasks : idOf[t] = r /\ task[t] \notin {"unused", "done"}})
                     + (IF loop \in {"requesting", "toNative"} /\ held.id = r
                        THEN 1 ELSE 0)

\* Every event is answered or the host ends, even if Core never acknowledges anything
\* and the loop waits for Core.
EventAnswered == \A t \in Tasks : task[t] = "spawned" ~> (task[t] = "done" \/ loop = "done")
=============================================================================
