---------------------------- MODULE VscodeSession ----------------------------
(***************************************************************************)
(* The event session of the VS Code extension: VscodeAdapterSession of     *)
(* extensions/vscode/src/adapter-session.ts.                               *)
(*                                                                         *)
(* JavaScript runs one callback to its end, then every promise             *)
(* continuation that became ready, and only then the next callback.  The   *)
(* model keeps these three levels: the frames of a chunk are handled by    *)
(* one callback (variable chunk), continuations run when no chunk is in    *)
(* hand, in any order, and a callback (a command, a socket event, a timer) *)
(* only starts when no continuation is ready (Idle).                       *)
(*                                                                         *)
(* Transports are numbered as they are created.  A transport, the request  *)
(* id of its hello and the promise of its establish() share the number;    *)
(* an event and its request id share the sequence number.                  *)
(***************************************************************************)
EXTENDS Naturals, Sequences

CONSTANTS
    MaxTransports,  \* bound: after so many, createTransport throws
    MaxEvents,      \* bound on the events emitted
    MaxChunk,       \* bound on the frames in one chunk of data
    InvalidFrames,  \* whether the peer may send frames the session must refuse
    HelloAckAlone   \* whether none of them may share the chunk of a hello_ack

ASSUME BoundsAssumption ==
    /\ MaxTransports \in Nat \ {0} /\ MaxEvents \in Nat /\ MaxChunk \in Nat \ {0}
    /\ InvalidFrames \in BOOLEAN /\ HelloAckAlone \in BOOLEAN

Transports == 1..MaxTransports
Events     == 1..MaxEvents

Undefined == 0
Thrown    == MaxTransports + 1   \* the promise of an establish() that threw
Attempts  == Transports \cup {Thrown}

VARIABLES
    desired, connected,  \* the fields of the same names
    transport,           \* the current transport, or Undefined
    hello,               \* the hello waiting for its answer, or Undefined
    connecting,          \* the attempt in this.connecting, or Undefined
    reconnectTimer,      \* whether the timer is set
    pending,             \* the keys of the pending map
    nextSequence,
    attempt,             \* attempt -> how far the promise of establish() is
    event,               \* event -> how far emitWorkspaceOpened is
    awaited,             \* event -> the attempt its emitOne waits for
    socket,              \* transport -> the state of the socket
    owed,                \* transport -> requests written and not answered, 0 for the hello
    chunk                \* the frames of the chunk in hand, not handled yet

fields == <<desired, connected, transport, hello, connecting, reconnectTimer>>
calls  == <<pending, nextSequence, event, awaited>>
net    == <<socket, owed, chunk>>
vars   == <<fields, calls, attempt, net>>

Frame == [kind : {"hello_ack", "event_ack", "error", "invalid"}, no : 0..MaxEvents]

TypeOK ==
    /\ desired \in BOOLEAN /\ connected \in BOOLEAN /\ reconnectTimer \in BOOLEAN
    /\ transport \in Transports \cup {Undefined}
    /\ hello \in Transports \cup {Undefined}
    /\ connecting \in Attempts \cup {Undefined}
    /\ pending \in SUBSET Events
    /\ nextSequence \in 1..(MaxEvents + 1)
    /\ attempt \in [Attempts -> {"none", "waiting", "resolved", "rejected", "ok", "failed"}]
    /\ event \in [Events -> {"none", "queued", "connecting", "sent", "acked", "failed"}]
    /\ awaited \in [Events -> Attempts \cup {Undefined}]
    /\ socket \in [Transports -> {"none", "opening", "open", "ended", "errored", "closed"}]
    /\ owed \in [Transports -> Seq(0..MaxEvents)]
    /\ chunk \in Seq(Frame)

Init ==
    /\ desired = FALSE /\ connected = FALSE /\ reconnectTimer = FALSE
    /\ transport = Undefined /\ hello = Undefined /\ connecting = Undefined
    /\ pending = {} /\ nextSequence = 1
    /\ attempt = [a \in Attempts |-> IF a = Thrown THEN "failed" ELSE "none"]
    /\ event = [n \in Events |-> "none"]
    /\ awaited = [n \in Events |-> Undefined]
    /\ socket = [t \in Transports |-> "none"]
    /\ owed = [t \in Transports |-> <<>>]
    /\ chunk = <<>>

-----------------------------------------------------------------------------
(***************************************************************************)
(* Which callback or continuation may run.                                 *)
(***************************************************************************)

Settled(n) == event[n] \in {"acked", "failed"}

\* The promise chain: an emitOne starts when all earlier ones have settled.
AtHead(n) == event[n] = "queued" /\ \A m \in 1..(n - 1) : Settled(m)

Finished(a) == attempt[a] \in {"ok", "failed"}

\* A promise continuation is ready.
Ready ==
    \/ \E a \in Attempts : attempt[a] \in {"resolved", "rejected"}
    \/ connecting # Undefined /\ Finished(connecting)
    \/ \E n \in Events : AtHead(n) \/ (event[n] = "connecting" /\ Finished(awaited[n]))

Idle == chunk = <<>> /\ ~Ready

-----------------------------------------------------------------------------
(***************************************************************************)
(* closeCurrent, scheduleReconnect, handleClose.                           *)
(***************************************************************************)

\* Mutant: events in flight survive the transport they were written to.
CloseCurrentKeepsPending(promises) ==
    /\ transport' = Undefined /\ connected' = FALSE /\ hello' = Undefined
    /\ attempt' = IF hello = Undefined THEN promises ELSE [promises EXCEPT ![hello] = "rejected"]
    /\ UNCHANGED <<pending, event>>

\* closeCurrent, but for the socket: the hello and every pending event is rejected.
\* promises is the state of the promises of establish() at the call.
CloseCurrent(promises) ==
    /\ transport' = Undefined /\ connected' = FALSE /\ hello' = Undefined
    /\ attempt' = IF hello = Undefined THEN promises ELSE [promises EXCEPT ![hello] = "rejected"]
    /\ pending' = {}
    /\ event' = [n \in Events |-> IF n \in pending THEN "failed" ELSE event[n]]

\* transport.end() of closeCurrent.
EndCurrent ==
    IF transport = Undefined \/ socket[transport] \in {"errored", "closed"}
    THEN socket ELSE [socket EXCEPT ![transport] = "ended"]

\* scheduleReconnect: nothing for a stopped session or when a timer is set.
ScheduleReconnect == reconnectTimer' = (reconnectTimer \/ desired)

\* Mutant: nothing is scheduled when the current transport goes away.
HandleCloseSilent(t) ==
    IF transport = t
    THEN CloseCurrent(attempt) /\ UNCHANGED reconnectTimer
    ELSE UNCHANGED <<transport, connected, hello, attempt, pending, event, reconnectTimer>>

\* handleClose, but for the socket: an old transport is ignored.
HandleClose(t) ==
    IF transport = t
    THEN CloseCurrent(attempt) /\ ScheduleReconnect
    ELSE UNCHANGED <<transport, connected, hello, attempt, pending, event, reconnectTimer>>

-----------------------------------------------------------------------------
(***************************************************************************)
(* establish and ensureConnected.                                          *)
(***************************************************************************)

Unused == {t \in Transports : socket[t] = "none"}

\* establish() up to its first await: the transport is current and its hello waits;
\* the field connected is not touched.  Or createTransport throws.  timer is the
\* state of the reconnect timer at the call.
Establish(timer) ==
    \/ /\ \E t \in Unused :
             /\ \A u \in Unused : t <= u
             /\ transport' = t /\ hello' = t /\ connecting' = t
             /\ attempt' = [attempt EXCEPT ![t] = "waiting"]
             /\ socket' = [socket EXCEPT ![t] = "opening"]
       /\ reconnectTimer' = timer
    \/ /\ connecting' = Thrown
       /\ reconnectTimer' = TRUE
       /\ UNCHANGED <<transport, hello, attempt, socket>>

\* Mutant: an attempt under way is not looked for.
MustEstablishAgain == ~(transport # Undefined /\ connected)

\* ensureConnected has nothing to return and no attempt to wait for.
MustEstablish == ~(transport # Undefined /\ connected) /\ connecting = Undefined

\* start(), until it waits.
Start ==
    /\ desired' = TRUE
    /\ IF MustEstablish
       THEN Establish(reconnectTimer)
       ELSE UNCHANGED <<transport, hello, connecting, attempt, socket, reconnectTimer>>
    /\ UNCHANGED <<connected, calls, owed, chunk>>

\* Mutant: the timer is left running.
StopKeepsTimer ==
    /\ desired' = FALSE
    /\ CloseCurrent(attempt)
    /\ socket' = EndCurrent
    /\ UNCHANGED <<connecting, reconnectTimer, nextSequence, awaited, owed, chunk>>

\* stop().
Stop ==
    /\ desired' = FALSE
    /\ reconnectTimer' = FALSE
    /\ CloseCurrent(attempt)
    /\ socket' = EndCurrent
    /\ UNCHANGED <<connecting, nextSequence, awaited, owed, chunk>>

\* The reconnect timer's callback.
ReconnectFires ==
    /\ reconnectTimer
    /\ IF ~desired \/ transport # Undefined \/ connecting # Undefined
       THEN /\ reconnectTimer' = FALSE
            /\ UNCHANGED <<transport, hello, connecting, attempt, socket>>
       ELSE Establish(FALSE)
    /\ UNCHANGED <<desired, connected, calls, owed, chunk>>

\* The hello is not answered in time; the rejection closes the transport later.
HelloTimesOut ==
    /\ hello # Undefined
    /\ hello' = Undefined
    /\ attempt' = [attempt EXCEPT ![hello] = "rejected"]
    /\ UNCHANGED <<desired, connected, transport, connecting, reconnectTimer, calls, net>>

\* The then() of establish.
HelloResolved(a) ==
    /\ attempt[a] = "resolved"
    /\ attempt' = [attempt EXCEPT ![a] = "ok"]
    /\ connected' = TRUE
    /\ UNCHANGED <<desired, transport, hello, connecting, reconnectTimer, calls, net>>

\* Mutant: the transport of a failed hello stays current.
HelloRejectedKeepsTransport(a) ==
    /\ attempt[a] = "rejected"
    /\ attempt' = [attempt EXCEPT ![a] = "failed"]
    /\ ScheduleReconnect
    /\ UNCHANGED <<desired, connected, transport, hello, connecting, calls, net>>

\* The catch() of establish: it closes whatever transport is current.
HelloRejected(a) ==
    /\ attempt[a] = "rejected"
    /\ CloseCurrent([attempt EXCEPT ![a] = "failed"])
    /\ socket' = EndCurrent
    /\ ScheduleReconnect
    /\ UNCHANGED <<desired, connecting, nextSequence, awaited, owed, chunk>>

\* The finally of the ensureConnected that made the attempt.
AttemptFinished ==
    /\ connecting # Undefined /\ Finished(connecting)
    /\ connecting' = Undefined
    /\ UNCHANGED <<desired, connected, transport, hello, reconnectTimer, calls, attempt, net>>

-----------------------------------------------------------------------------
(***************************************************************************)
(* emitWorkspaceOpened and emitOne.                                        *)
(***************************************************************************)

\* emitWorkspaceOpened: the sequence number is taken when it is called.
Emit ==
    /\ nextSequence \in Events
    /\ event' = [event EXCEPT ![nextSequence] = "queued"]
    /\ nextSequence' = nextSequence + 1
    /\ UNCHANGED <<fields, pending, awaited, attempt, net>>

\* The pending entry and the write of an event on the current transport.
Send(n) ==
    /\ pending' = pending \cup {n}
    /\ event' = [event EXCEPT ![n] = "sent"]
    /\ owed' = [owed EXCEPT ![transport] = Append(@, n)]

Fail(n) ==
    /\ event' = [event EXCEPT ![n] = "failed"]
    /\ UNCHANGED <<pending, owed>>

\* Mutant: an emitOne does not wait for the earlier ones.
EmitOneUnchained(n) ==
    /\ event[n] = "queued"
    /\ ~desired \/ (transport # Undefined /\ connected)
    /\ IF desired THEN Send(n) ELSE Fail(n)
    /\ UNCHANGED <<fields, attempt, nextSequence, awaited, socket, chunk>>

\* emitOne with nothing to wait for: refused, sent, or the write throws.
EmitOne(n) ==
    /\ AtHead(n)
    /\ ~desired \/ (transport # Undefined /\ connected)
    /\ \/ desired /\ Send(n)
       \/ Fail(n)
    /\ UNCHANGED <<fields, attempt, nextSequence, awaited, socket, chunk>>

\* emitOne waits for an attempt to connect, its own or the one under way.
EmitOneWaits(n) ==
    /\ AtHead(n)
    /\ desired /\ ~(transport # Undefined /\ connected)
    /\ IF MustEstablish
       THEN Establish(reconnectTimer)
       ELSE UNCHANGED <<transport, hello, connecting, attempt, socket, reconnectTimer>>
    /\ event' = [event EXCEPT ![n] = "connecting"]
    /\ awaited' = [awaited EXCEPT ![n] = connecting']
    /\ UNCHANGED <<desired, connected, pending, nextSequence, owed, chunk>>

\* The attempt is over: the event is sent if it succeeded and a transport is there.
EmitOneResumes(n) ==
    /\ event[n] = "connecting" /\ Finished(awaited[n])
    /\ \/ /\ attempt[awaited[n]] = "ok" /\ transport # Undefined /\ connected
          /\ Send(n)
       \/ Fail(n)
    /\ awaited' = [awaited EXCEPT ![n] = Undefined]
    /\ UNCHANGED <<fields, nextSequence, attempt, socket, chunk>>

\* Mutant: no timer is set.
EventNeverTimesOut(n) == FALSE /\ UNCHANGED vars

\* The acknowledgement does not come in time.
EventTimesOut(n) ==
    /\ n \in pending
    /\ pending' = pending \ {n}
    /\ event' = [event EXCEPT ![n] = "failed"]
    /\ UNCHANGED <<fields, nextSequence, awaited, attempt, net>>

-----------------------------------------------------------------------------
(***************************************************************************)
(* The socket and what Core answers.                                       *)
(***************************************************************************)

\* The connect event: the hello is written, or the write throws.
SocketConnects(t) ==
    /\ socket[t] = "opening"
    /\ \/ /\ owed' = IF transport = t /\ hello = t
                     THEN [owed EXCEPT ![t] = Append(@, 0)] ELSE owed
          /\ socket' = [socket EXCEPT ![t] = "open"]
          /\ UNCHANGED <<fields, pending, event, attempt>>
       \/ /\ transport = t /\ hello = t
          /\ HandleClose(t)
          /\ socket' = [socket EXCEPT ![t] = "ended"]
          /\ UNCHANGED <<desired, connecting, owed>>
    /\ UNCHANGED <<nextSequence, awaited, chunk>>

\* The error event; the close event follows.
SocketFails(t) ==
    /\ socket[t] \in {"opening", "open", "ended"}
    /\ HandleClose(t)
    /\ socket' = [socket EXCEPT ![t] = "errored"]
    /\ UNCHANGED <<desired, connecting, nextSequence, awaited, owed, chunk>>

\* The close event, possibly long after the transport was replaced.
SocketCloses(t) ==
    /\ socket[t] \in {"open", "ended", "errored"}
    /\ HandleClose(t)
    /\ socket' = [socket EXCEPT ![t] = "closed"]
    /\ UNCHANGED <<desired, connecting, nextSequence, awaited, owed, chunk>>

\* What Core answers to a request it reads: it may refuse a hello.
Answer(request, refused) ==
    IF request # 0 THEN [kind |-> "event_ack", no |-> request]
    ELSE [kind |-> IF refused THEN "error" ELSE "hello_ack", no |-> 0]

Invalid == [kind |-> "invalid", no |-> 0]

\* A chunk of data: answers in the order of the requests, then perhaps a frame no
\* session accepts.  handleData ignores the data of an old transport.
DataArrives(t, k, refused, invalid) ==
    /\ socket[t] \in {"open", "ended"}
    /\ k <= Len(owed[t])
    /\ LET answers == [i \in 1..k |-> Answer(owed[t][i], refused)]
           frames  == IF invalid THEN Append(answers, Invalid) ELSE answers
       IN  /\ Len(frames) \in 1..MaxChunk
           /\ HelloAckAlone /\ invalid => \A i \in 1..k : answers[i].kind # "hello_ack"
           /\ chunk' = IF transport = t THEN frames ELSE <<>>
    /\ owed' = [owed EXCEPT ![t] = SubSeq(@, k + 1, Len(@))]
    /\ UNCHANGED <<fields, calls, attempt, socket>>

\* The decoder refuses the chunk as a whole.
DataUndecodable(t) ==
    /\ InvalidFrames
    /\ socket[t] = "open" /\ transport = t
    /\ HandleClose(t)
    /\ socket' = EndCurrent
    /\ UNCHANGED <<desired, connecting, nextSequence, awaited, owed, chunk>>

\* The acknowledgement of an event; one that is no longer pending is ignored.
Acknowledge(n) ==
    /\ pending' = pending \ {n}
    /\ event' = IF n \in pending THEN [event EXCEPT ![n] = "acked"] ELSE event

\* One turn of the loop in handleData while the hello waits: its acknowledgement,
\* or anything else, which rejects it.
HandleHelloFrame ==
    /\ chunk # <<>> /\ hello # Undefined
    /\ attempt' = [attempt EXCEPT ![hello] =
                     IF Head(chunk).kind = "hello_ack" THEN "resolved" ELSE "rejected"]
    /\ hello' = Undefined
    /\ chunk' = Tail(chunk)
    /\ UNCHANGED <<desired, connected, transport, connecting, reconnectTimer, calls, socket, owed>>

\* One turn of the loop after that: an acknowledgement, or anything else, which
\* closes the transport and drops the rest of the chunk.
HandleEventFrame ==
    /\ chunk # <<>> /\ hello = Undefined
    /\ IF Head(chunk).kind = "event_ack"
       THEN /\ Acknowledge(Head(chunk).no)
            /\ chunk' = Tail(chunk)
            /\ UNCHANGED <<fields, attempt, socket>>
       ELSE /\ HandleClose(transport)
            /\ socket' = EndCurrent
            /\ chunk' = <<>>
            /\ UNCHANGED <<desired, connecting>>
    /\ UNCHANGED <<nextSequence, awaited, owed>>

-----------------------------------------------------------------------------
\* The continuations of promises.
Continuation ==
    /\ chunk = <<>>
    /\ \/ \E a \in Attempts : HelloResolved(a) \/ HelloRejected(a)
       \/ AttemptFinished
       \/ \E n \in Events : EmitOne(n) \/ EmitOneWaits(n) \/ EmitOneResumes(n)

\* The rest of a callback that handles a chunk.
HandleFrame == HandleHelloFrame \/ HandleEventFrame

\* The callbacks of the socket and of the timers.
Callback ==
    /\ Idle
    /\ \/ ReconnectFires \/ HelloTimesOut
       \/ \E n \in Events : EventTimesOut(n)
       \/ \E t \in Transports :
             \/ SocketConnects(t) \/ SocketFails(t) \/ SocketCloses(t) \/ DataUndecodable(t)
             \/ \E k \in 0..MaxChunk, refused \in BOOLEAN, invalid \in {FALSE, InvalidFrames} :
                   DataArrives(t, k, refused, invalid)

\* The calls of the extension.
Call == Idle /\ (Start \/ Stop \/ Emit)

Next == Continuation \/ HandleFrame \/ Callback \/ Call

Spec == Init /\ [][Next]_vars

\* The runtime runs what is ready and fires its timers.
Fairness ==
    /\ WF_vars(Continuation \/ HandleFrame)
    /\ WF_vars(Idle /\ HelloTimesOut)
    /\ \A n \in Events : WF_vars(Idle /\ EventTimesOut(n))

FairSpec == Spec /\ Fairness

-----------------------------------------------------------------------------
(***************************************************************************)
(* Properties.                                                             *)
(***************************************************************************)

\* The pending map holds exactly the events written and not settled, and all of
\* them were written to the current transport: nothing leaks when transports,
\* timeouts and late acknowledgements overlap.
PendingOnCurrent ==
    /\ pending = {n \in Events : event[n] = "sent"}
    /\ pending # {} => transport # Undefined

\* A socket the session opened and has not ended is its current transport: no
\* reconnection leaks one.
NoLeakedSocket ==
    \A t \in Transports : socket[t] \in {"opening", "open"} => t = transport

\* A transport that is not connected belongs to the attempt under way, so that
\* nobody establishes over it, and the catch() of establish never closes a newer one.
OneAttemptAtATime ==
    /\ transport # Undefined /\ ~connected => connecting = transport
    /\ \A a \in Transports :
          attempt[a] \in {"waiting", "resolved", "rejected"} =>
              connecting = a /\ transport \in {a, Undefined}

\* After stop() there is no transport, no timer and no event in flight, whatever
\* was under way, until start() is called again.
StoppedIsQuiet ==
    ~desired => transport = Undefined /\ ~reconnectTimer /\ pending = {}

\* A session that should be connected and has nothing under way has a timer that
\* will try again.
ReconnectArmed ==
    Idle /\ desired /\ transport = Undefined /\ connecting = Undefined => reconnectTimer

\* Events are sent and settled in the order of their sequence numbers, although the
\* number is taken long before the event is written, and they are written only to a
\* transport whose hello was acknowledged.
EventsInOrder ==
    /\ \A m, n \in Events :
          m < n /\ event[n] \in {"connecting", "sent", "acked", "failed"} => Settled(m)
    /\ \A t \in Transports :
          (\E i \in DOMAIN owed[t] : owed[t][i] # 0) => attempt[t] = "ok"

\* Every emitWorkspaceOpened settles: a silent Core, a lost connection or a stop
\* never blocks the chain.
EmitSettles == \A n \in Events : event[n] = "queued" ~> Settled(n)
=============================================================================
