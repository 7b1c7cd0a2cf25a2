--------------------------- MODULE AdapterManager ---------------------------
(***************************************************************************)
(* The adapter registry and the bounded dispatch of actions:               *)
(* crates/fubun-core/src/adapter.rs, and the tasks of lib.rs that drive it *)
(* (handle_adapter_connection and the shutdown part of serve).             *)
(*                                                                         *)
(* Processes                                                               *)
(*   a socket    one run of handle_adapter_connection: registration, the   *)
(*               reader loop, the writer task and the teardown.  Its name  *)
(*               is the connection token, fresh for every socket.          *)
(*   a dispatch  one call of AdapterManager::execute.  Its name stands for *)
(*               the request id and the action execution id, fresh too.    *)
(*   serve       the shutdown sequence.                                    *)
(*                                                                         *)
(* Each action is one critical section: `connections` and `pending` have   *)
(* separate locks, and register, disconnect_if_current and shutdown take   *)
(* them one after the other.  The windows between them are states here.    *)
(***************************************************************************)
EXTENDS Naturals, Sequences, FiniteSets, AdapterEligibility

CONSTANTS
    Instances,   \* adapter instance ids, ordered like their UUID text
    Sockets,     \* the sockets accepted during a behaviour
    Dispatches,  \* the calls of execute during a behaviour
    Hellos,      \* the hellos an adapter may send
    Actions,     \* the actions that may be dispatched
    Capacity,    \* the bound of a connection's request channel (32 in the code)
    None,        \* "no such value"
    Ack          \* an event acknowledgement queued for the adapter

ErrorKinds == {"Unavailable", "CapabilityUnavailable", "Timeout", "Disconnected", "Protocol"}

ASSUME ConstantsAssumption ==
    /\ Instances \subseteq Nat
    /\ Capacity \in Nat \ {0}
    /\ None \notin Instances
    /\ None \notin Sockets
    /\ None \notin ErrorKinds \cup {"result", "cancelled"}
    /\ Ack \notin Dispatches

VARIABLES
    connections, \* instance id -> the token of its current connection, or None
    sock,        \* socket -> where its handler stands
    queue,       \* socket -> the bounded request channel to its writer task
    open,        \* socket -> whether the channel's receiving half is alive
    delivered,   \* socket -> the requests its adapter has been sent
    pending,     \* the dispatches with an entry in the pending map
    disp,        \* dispatch -> where its execute call stands
    stage        \* where serve's shutdown sequence stands

vars == <<connections, sock, queue, open, delivered, pending, disp, stage>>

SocketPhases == {"accepted",    \* hello not yet handled
                 "registering", \* in the map, the replaced token not yet drained
                 "reading",     \* in the reader loop
                 "acking",      \* an event stored, its acknowledgement not queued
                 "leaving",     \* out of the loop
                 "draining",    \* out of the map, its own token not yet drained
                 "aborting",    \* the writer task not yet aborted
                 "closed"}

DispatchPhases == {"idle", "selected", "sending", "waiting", "done"}

\* What a oneshot holds once its sender was used.
Replies == {"result", "Disconnected", "Protocol"}

SocketState == [phase    : SocketPhases,
                instance : Instances \cup {None},
                hello    : Hellos \cup {None},
                drain    : Sockets \cup {None}]  \* the token it has still to drain

DispatchState == [phase    : DispatchPhases,
                  action   : Actions \cup {None},
                  instance : Instances \cup {None},  \* the identity selected
                  token    : Sockets \cup {None},    \* the token selected
                  channel  : Sockets \cup {None},    \* the sender cloned at insertion
                  reply    : Replies \cup {None},
                  kind     : {"result", "cancelled", None} \cup ErrorKinds,
                  identity : Instances \cup {None}]  \* the identity reported

TypeOK ==
    /\ connections \in [Instances -> Sockets \cup {None}]
    /\ sock \in [Sockets -> SocketState]
    /\ queue \in [Sockets -> Seq(Dispatches \cup {Ack})]
    /\ \A c \in Sockets : Len(queue[c]) <= Capacity
    /\ open \in [Sockets -> BOOLEAN]
    /\ delivered \in [Sockets -> SUBSET Dispatches]
    /\ pending \in SUBSET Dispatches
    /\ disp \in [Dispatches -> DispatchState]
    /\ stage \in {"serving", "signalled", "cleared", "drained"}

Init ==
    /\ connections = [i \in Instances |-> None]
    /\ sock = [c \in Sockets |-> [phase |-> "accepted", instance |-> None,
                                  hello |-> None, drain |-> None]]
    /\ queue = [c \in Sockets |-> <<>>]
    /\ open = [c \in Sockets |-> FALSE]
    /\ delivered = [c \in Sockets |-> {}]
    /\ pending = {}
    /\ disp = [d \in Dispatches |-> [phase |-> "idle", action |-> None, instance |-> None,
                                     token |-> None, channel |-> None, reply |-> None,
                                     kind |-> None, identity |-> None]]
    /\ stage = "serving"

-----------------------------------------------------------------------------
(***************************************************************************)
(* The registry.                                                           *)
(***************************************************************************)

\* fail_pending_for_token: one critical section of `pending`; the requests of a
\* token leave the map and their waiters are told Disconnected.
FailPending(failed) ==
    /\ pending' = pending \ failed
    /\ disp' = [d \in Dispatches |->
                  IF d \in pending \cap failed
                  THEN [disp[d] EXCEPT !.reply = "Disconnected"]
                  ELSE disp[d]]

\* Mutant: the requests are matched by instance id instead of token.
FailPendingForInstance(token) ==
    FailPending({d \in pending : disp[d].instance = sock[token].instance})

FailPendingForToken(token) == FailPending({d \in pending : disp[d].token = token})

\* The hello is valid: it is acknowledged, the channel is made and the entry
\* inserted under the lock of `connections`.  An entry of the same instance is
\* replaced; its token is drained by the next step of this socket.
Register(c, i, hello) ==
    /\ sock[c].phase = "accepted"
    /\ ValidateHello(hello)
    /\ connections' = [connections EXCEPT ![i] = c]
    /\ sock' = [sock EXCEPT ![c] = [phase |-> "registering", instance |-> i,
                                    hello |-> hello, drain |-> connections[i]]]
    /\ open' = [open EXCEPT ![c] = TRUE]
    /\ UNCHANGED <<queue, delivered, pending, disp, stage>>

\* No hello, an invalid one, a failed write of the acknowledgement, or a shutdown
\* signalled before the hello was read: the socket ends without registering.
Refuse(c) ==
    /\ sock[c].phase = "accepted"
    /\ sock' = [sock EXCEPT ![c].phase = "closed"]
    /\ UNCHANGED <<connections, queue, open, delivered, pending, disp, stage>>

\* Mutant: the requests of the replaced connection are not failed.
FinishRegisterUndrained(c) ==
    /\ sock[c].phase = "registering"
    /\ sock' = [sock EXCEPT ![c] = [@ EXCEPT !.phase = "reading", !.drain = None]]
    /\ UNCHANGED <<connections, queue, open, delivered, pending, disp, stage>>

\* Second half of register, then the writer task starts and the loop begins.
FinishRegister(c) ==
    /\ sock[c].phase = "registering"
    /\ IF sock[c].drain = None
       THEN UNCHANGED <<pending, disp>>
       ELSE FailPendingForToken(sock[c].drain)
    /\ sock' = [sock EXCEPT ![c] = [@ EXCEPT !.phase = "reading", !.drain = None]]
    /\ UNCHANGED <<connections, queue, open, delivered, stage>>

\* Mutant: the loop has no shutdown branch.
LeaveLoopOnlyServing(c) ==
    /\ sock[c].phase = "reading"
    /\ stage = "serving"
    /\ sock' = [sock EXCEPT ![c].phase = "leaving"]
    /\ UNCHANGED <<connections, queue, open, delivered, pending, disp, stage>>

\* End of the stream, a malformed frame, or the shutdown signal.
LeaveLoop(c) ==
    /\ sock[c].phase = "reading"
    /\ sock' = [sock EXCEPT ![c].phase = "leaving"]
    /\ UNCHANGED <<connections, queue, open, delivered, pending, disp, stage>>

\* Mutant: the teardown drains its requests but leaves its entry in the map.
DisconnectKeepsEntry(c) ==
    /\ sock[c].phase = "leaving"
    /\ sock' = [sock EXCEPT ![c] = [@ EXCEPT !.phase = "draining", !.drain = c]]
    /\ UNCHANGED <<connections, queue, open, delivered, pending, disp, stage>>

\* disconnect_if_current, under the lock of `connections`: the entry goes only
\* if it is still this socket's own.
DisconnectIfCurrent(c) ==
    LET current == connections[sock[c].instance] = c
    IN  /\ sock[c].phase = "leaving"
        /\ connections' = IF current
                          THEN [connections EXCEPT ![sock[c].instance] = None]
                          ELSE connections
        /\ sock' = IF current
                   THEN [sock EXCEPT ![c] = [@ EXCEPT !.phase = "draining", !.drain = c]]
                   ELSE [sock EXCEPT ![c].phase = "aborting"]
        /\ UNCHANGED <<queue, open, delivered, pending, disp, stage>>

\* Its second half, under the lock of `pending`.
DrainOwn(c) ==
    /\ sock[c].phase = "draining"
    /\ FailPendingForToken(sock[c].drain)
    /\ sock' = [sock EXCEPT ![c] = [@ EXCEPT !.phase = "aborting", !.drain = None]]
    /\ UNCHANGED <<connections, queue, open, delivered, stage>>

\* writer_task.abort(): the receiving half is dropped with what it holds.
AbortWriter(c) ==
    /\ sock[c].phase = "aborting"
    /\ sock' = [sock EXCEPT ![c].phase = "closed"]
    /\ open' = [open EXCEPT ![c] = FALSE]
    /\ queue' = [queue EXCEPT ![c] = <<>>]
    /\ UNCHANGED <<connections, delivered, pending, disp, stage>>

-----------------------------------------------------------------------------
(***************************************************************************)
(* The writer task and the reader loop of a socket.                        *)
(***************************************************************************)

\* The writer task takes the oldest message and writes it to the socket.  It
\* stays in this step for as long as the adapter does not read.
WriterForward(c) ==
    /\ open[c]
    /\ sock[c].phase # "registering"
    /\ queue[c] # <<>>
    /\ queue' = [queue EXCEPT ![c] = Tail(@)]
    /\ delivered' = [delivered EXCEPT ![c] = @ \cup ({Head(queue[c])} \ {Ack})]
    /\ UNCHANGED <<connections, sock, open, pending, disp, stage>>

\* The write fails and the writer task ends, dropping the receiving half.  The
\* reader loop does not notice.
WriterFail(c) ==
    /\ open[c]
    /\ sock[c].phase # "registering"
    /\ queue[c] # <<>>
    /\ open' = [open EXCEPT ![c] = FALSE]
    /\ queue' = [queue EXCEPT ![c] = <<>>]
    /\ UNCHANGED <<connections, sock, delivered, pending, disp, stage>>

\* resolve: a response to a request the adapter was sent.  It may be late, it
\* may be repeated, its action execution id may differ and its body may be of
\* another kind; without an entry in `pending` it is dropped.
Resolve(c, d, reply) ==
    /\ sock[c].phase = "reading"
    /\ d \in delivered[c]
    /\ reply \in {"result", "Protocol"}
    /\ pending' = pending \ {d}
    /\ disp' = IF d \in pending
               THEN [disp EXCEPT ![d].reply = reply]
               ELSE disp
    /\ UNCHANGED <<connections, sock, queue, open, delivered, stage>>

\* An event frame: it is ingested and the reader goes on to queue the answer.
EventEmit(c) ==
    /\ sock[c].phase = "reading"
    /\ sock' = [sock EXCEPT ![c].phase = "acking"]
    /\ UNCHANGED <<connections, queue, open, delivered, pending, disp, stage>>

\* sender.send(ack).await in the reader loop: it waits for room, and an error
\* (the writer task has ended) is ignored.
SendAck(c) ==
    /\ sock[c].phase = "acking"
    /\ open[c] => Len(queue[c]) < Capacity
    /\ queue' = IF open[c] THEN [queue EXCEPT ![c] = Append(@, Ack)] ELSE queue
    /\ sock' = [sock EXCEPT ![c].phase = "reading"]
    /\ UNCHANGED <<connections, open, delivered, pending, disp, stage>>

-----------------------------------------------------------------------------
(***************************************************************************)
(* execute.                                                                *)
(***************************************************************************)

Candidates(action) ==
    {i \in Instances : /\ connections[i] # None
                       /\ Satisfies(sock[connections[i]].hello, action)}

\* execute returns: a result or an error kind, with the identity it reports.
Return(d, kind, identity) ==
    disp' = [disp EXCEPT ![d] =
               [@ EXCEPT !.phase = "done", !.kind = kind, !.identity = identity]]

\* select_eligible finds no connection at all, or none that is eligible.
SelectNone(d, action) ==
    /\ disp[d].phase = "idle"
    /\ Candidates(action) = {}
    /\ disp' = [disp EXCEPT ![d] =
                  [@ EXCEPT
                     !.phase = "done",
                     !.action = action,
                     !.kind = IF \A i \in Instances : connections[i] = None
                              THEN "Unavailable" ELSE "CapabilityUnavailable"]]
    /\ UNCHANGED <<connections, sock, queue, open, delivered, pending, stage>>

\* select_eligible: the first eligible connection in the order of instance ids.
SelectEligible(d, action) ==
    /\ disp[d].phase = "idle"
    /\ \E i \in Candidates(action) :
          /\ \A j \in Candidates(action) : i <= j
          /\ disp' = [disp EXCEPT ![d] =
                        [@ EXCEPT !.phase = "selected", !.action = action,
                                  !.instance = i, !.token = connections[i]]]
    /\ UNCHANGED <<connections, sock, queue, open, delivered, pending, stage>>

\* Mutant: whatever connection the instance has now is used.
InsertPendingIfPresent(d) ==
    LET i == disp[d].instance
    IN  /\ disp[d].phase = "selected"
        /\ IF connections[i] # None
           THEN /\ pending' = pending \cup {d}
                /\ disp' = [disp EXCEPT ![d] =
                              [@ EXCEPT !.phase = "sending", !.channel = connections[i]]]
           ELSE /\ Return(d, "Disconnected", i)
                /\ UNCHANGED pending
        /\ UNCHANGED <<connections, sock, queue, open, delivered, stage>>

\* Mutant: a stale selection is tried again instead of ending the call.
InsertPendingRetry(d) ==
    /\ disp[d].phase = "selected"
    /\ IF connections[disp[d].instance] = disp[d].token
       THEN /\ pending' = pending \cup {d}
            /\ disp' = [disp EXCEPT ![d] =
                          [@ EXCEPT !.phase = "sending", !.channel = disp[d].token]]
       ELSE UNCHANGED <<pending, disp>>
    /\ UNCHANGED <<connections, sock, queue, open, delivered, stage>>

\* insert_pending_if_current, under both locks: the connection selected must
\* still be the current one, or the dispatch ends as Disconnected.
InsertPendingIfCurrent(d) ==
    LET i == disp[d].instance
    IN  /\ disp[d].phase = "selected"
        /\ IF connections[i] = disp[d].token
           THEN /\ pending' = pending \cup {d}
                /\ disp' = [disp EXCEPT ![d] =
                              [@ EXCEPT !.phase = "sending", !.channel = connections[i]]]
           ELSE /\ Return(d, "Disconnected", i)
                /\ UNCHANGED pending
        /\ UNCHANGED <<connections, sock, queue, open, delivered, stage>>

\* sender.send(request).await: it waits for room in the channel ...
SendRequest(d) ==
    LET c == disp[d].channel
    IN  /\ disp[d].phase = "sending"
        /\ open[c]
        /\ Len(queue[c]) < Capacity
        /\ queue' = [queue EXCEPT ![c] = Append(@, d)]
        /\ disp' = [disp EXCEPT ![d].phase = "waiting"]
        /\ UNCHANGED <<connections, sock, open, delivered, pending, stage>>

\* ... and fails once the receiving half is gone.  The guard frees the entry.
SendFailed(d) ==
    /\ disp[d].phase = "sending"
    /\ ~open[disp[d].channel]
    /\ Return(d, "Disconnected", disp[d].instance)
    /\ pending' = pending \ {d}
    /\ UNCHANGED <<connections, sock, queue, open, delivered, stage>>

\* The oneshot holds a value: the guard is disarmed and execute returns it.
ReceiveReply(d) ==
    /\ disp[d].phase = "waiting"
    /\ disp[d].reply # None
    /\ Return(d, disp[d].reply, disp[d].instance)
    /\ UNCHANGED <<connections, sock, queue, open, delivered, pending, stage>>

\* Mutant: the guard is disarmed on a timeout as well.
TimeOutUnguarded(d) ==
    /\ disp[d].phase = "waiting"
    /\ disp[d].reply = None
    /\ Return(d, "Timeout", disp[d].instance)
    /\ UNCHANGED <<connections, sock, queue, open, delivered, pending, stage>>

\* The timer runs out on an empty oneshot: the guard frees the entry.
TimeOut(d) ==
    /\ disp[d].phase = "waiting"
    /\ disp[d].reply = None
    /\ Return(d, "Timeout", disp[d].instance)
    /\ pending' = pending \ {d}
    /\ UNCHANGED <<connections, sock, queue, open, delivered, stage>>

\* The future of execute is dropped at one of its await points.
Cancel(d) ==
    /\ disp[d].phase \in {"selected", "sending", "waiting"}
    /\ Return(d, "cancelled", None)
    /\ pending' = pending \ {d}
    /\ UNCHANGED <<connections, sock, queue, open, delivered, stage>>

-----------------------------------------------------------------------------
(***************************************************************************)
(* serve: the shutdown signal, then AdapterManager::shutdown, which clears *)
(* `connections` and drains `pending` under one lock after the other.      *)
(***************************************************************************)

SignalShutdown ==
    /\ stage = "serving"
    /\ stage' = "signalled"
    /\ UNCHANGED <<connections, sock, queue, open, delivered, pending, disp>>

ShutdownClear ==
    /\ stage = "signalled"
    /\ stage' = "cleared"
    /\ connections' = [i \in Instances |-> None]
    /\ UNCHANGED <<sock, queue, open, delivered, pending, disp>>

ShutdownDrain ==
    /\ stage = "cleared"
    /\ stage' = "drained"
    /\ FailPending(pending)
    /\ UNCHANGED <<connections, sock, queue, open, delivered>>

\* Every task has ended.
Terminated ==
    /\ stage = "drained"
    /\ \A c \in Sockets : sock[c].phase = "closed"
    /\ \A d \in Dispatches : disp[d].phase \in {"idle", "done"}

Finished == Terminated /\ UNCHANGED vars

SocketStep(c) ==
    \/ \E i \in Instances, hello \in Hellos : Register(c, i, hello)
    \/ Refuse(c)
    \/ FinishRegister(c)
    \/ LeaveLoop(c)
    \/ DisconnectIfCurrent(c)
    \/ DrainOwn(c)
    \/ AbortWriter(c)
    \/ WriterForward(c)
    \/ WriterFail(c)
    \/ \E d \in Dispatches, reply \in Replies : Resolve(c, d, reply)
    \/ EventEmit(c)
    \/ SendAck(c)

DispatchStep(d) ==
    \/ \E action \in Actions : SelectNone(d, action) \/ SelectEligible(d, action)
    \/ InsertPendingIfCurrent(d)
    \/ SendRequest(d)
    \/ SendFailed(d)
    \/ ReceiveReply(d)
    \/ TimeOut(d)
    \/ Cancel(d)

ShutdownStep == SignalShutdown \/ ShutdownClear \/ ShutdownDrain

Next ==
    \/ \E c \in Sockets : SocketStep(c)
    \/ \E d \in Dispatches : DispatchStep(d)
    \/ ShutdownStep
    \/ Finished

Spec == Init /\ [][Next]_vars

(***************************************************************************)
(* Fairness.  Core's own tasks run on the tokio scheduler: a task that can *)
(* take a step is eventually polled, and the timer of a waiting dispatch   *)
(* fires.  The channel's semaphore serves its waiters in order, so a send  *)
(* that finds room again and again succeeds; tokio::select! chooses at     *)
(* random among ready branches, so a reader that comes back to its loop    *)
(* again and again takes the shutdown branch.  Nothing is assumed of the   *)
(* adapters, of the clients or of the arrival of the shutdown signal.      *)
(***************************************************************************)
CoreFairness ==
    /\ \A c \in Sockets :
          /\ WF_vars(FinishRegister(c))
          /\ SF_vars(stage # "serving" /\ (LeaveLoop(c) \/ Refuse(c)))
          /\ WF_vars(DisconnectIfCurrent(c) \/ DrainOwn(c) \/ AbortWriter(c))
          /\ SF_vars(SendAck(c))
    /\ \A d \in Dispatches :
          /\ WF_vars(InsertPendingIfCurrent(d))
          /\ SF_vars(SendRequest(d) \/ SendFailed(d))
          /\ WF_vars(ReceiveReply(d) \/ TimeOut(d))
    /\ WF_vars(ShutdownClear \/ ShutdownDrain)

\* In addition every adapter keeps reading its socket.
AdaptersRead == \A c \in Sockets : WF_vars(WriterForward(c))

CoreSpec == Spec /\ CoreFairness

-----------------------------------------------------------------------------
(***************************************************************************)
(* Properties.                                                             *)
(***************************************************************************)

\* The pending map holds exactly the requests whose execute call still waits for
\* an answer nobody has given: whichever way a call ends (answer, timeout,
\* disconnect, replacement, shutdown, failed send, dropped future) its entry is
\* gone, and no call waits without an entry that can be answered.
PendingExact ==
    \A d \in Dispatches :
        d \in pending <=> disp[d].phase \in {"sending", "waiting"} /\ disp[d].reply = None

\* Somebody is about to fail the requests of this token.
DrainOutstanding(token) ==
    \/ stage = "cleared"
    \/ \E c \in Sockets : sock[c].phase \in {"registering", "draining"} /\ sock[c].drain = token

\* No request is stranded on a connection that has been replaced or removed:
\* while it is pending, its connection is the current one of its instance or the
\* task that took it out of the registry has still to drain it.  This is what
\* the comment in insert_pending_if_current claims.
NoOrphanPending ==
    \A d \in pending : \/ connections[disp[d].instance] = disp[d].token
                       \/ DrainOutstanding(disp[d].token)

\* The registry lists only sockets whose handler is still to run its teardown,
\* under the instance id of their hello, however registrations, teardowns and
\* shutdown overlap.  A socket is never listed twice.
RegistryLive ==
    \A i \in Instances : connections[i] # None =>
        /\ sock[connections[i]].instance = i
        /\ sock[connections[i]].phase \in {"registering", "reading", "acking", "leaving"}

\* A request is only ever written to a socket of the instance that execute
\* reports, and whose own hello satisfies every requirement of the action: a
\* reconnect with fewer capabilities between selection and insertion cannot
\* receive it.
RoutedToEligible ==
    \A c \in Sockets : \A d \in delivered[c] :
        /\ Satisfies(sock[c].hello, disp[d].action)
        /\ disp[d].phase = "done" /\ disp[d].kind # "cancelled"
             => disp[d].identity = sock[c].instance

\* Before shutdown, a request is failed as Disconnected only when its own
\* connection is no longer the current one: the teardown of a replaced socket,
\* which runs late and under the same instance id, never fails the requests of
\* its replacement.
StaleTeardownHarmless ==
    [][\A d \in Dispatches :
          /\ disp[d].reply = None
          /\ disp'[d].reply = "Disconnected"
          /\ stage = "serving"
          => connections[disp[d].instance] # disp[d].token]_vars

\* As long as adapters keep reading, every call that has selected an adapter
\* returns, and a shutdown brings every handler and every call to its end, with
\* an empty registry and an empty pending map.
DispatchReturns ==
    AdaptersRead => \A d \in Dispatches : disp[d].phase = "selected" ~> disp[d].phase = "done"

ShutdownCompletes ==
    AdaptersRead =>
        (stage = "signalled" ~>
            Terminated /\ pending = {} /\ connections = [i \in Instances |-> None])

\* What docs/threat-model.md says of an action: it has a timeout.  A call that
\* has registered its request returns, whatever the adapter does.
TimeoutBoundsCall ==
    \A d \in Dispatches : disp[d].phase = "sending" ~> disp[d].phase = "done"
=============================================================================
