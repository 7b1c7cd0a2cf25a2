------------------------ MODULE AdapterManagerProofs ------------------------
(***************************************************************************)
(* Proofs about AdapterManager: the types, and that registrations,         *)
(* teardowns, dispatches and shutdown, however they overlap, neither lose  *)
(* nor misroute a request.                                                 *)
(***************************************************************************)
EXTENDS AdapterManager, TLAPS

\* The handlers whose socket may be in the registry.
Listed == {"registering", "reading", "acking", "leaving"}

\* A handler holds a token to drain in two phases only.  That token has registered
\* once, is out of the registry, and never comes back.
DrainsReplaced ==
    \A c \in Sockets :
        /\ sock[c].phase \in Listed => sock[c].instance \in Instances
        /\ sock[c].phase = "draining" => sock[c].drain = c
        /\ sock[c].drain # None =>
              /\ sock[c].phase \in {"registering", "draining"}
              /\ sock[sock[c].drain].phase # "accepted"
              /\ \A i \in Instances : connections[i] # sock[c].drain

\* A call that has selected a connection keeps what it knows of it: the instance of
\* the token, and a hello that satisfies the action.  It sends to that token only,
\* and reports that instance.
Knows(d) ==
    /\ disp[d].phase = "idle" => disp[d].token = None
    /\ disp[d].phase \in {"idle", "selected"} => disp[d].reply = None
    /\ disp[d].phase \in {"selected", "sending", "waiting"} => disp[d].token # None
    /\ disp[d].phase \in {"sending", "waiting"} => disp[d].channel # None
    /\ disp[d].channel # None => disp[d].channel = disp[d].token
    /\ disp[d].token # None =>
          /\ disp[d].instance \in Instances
          /\ sock[disp[d].token].phase # "accepted"
          /\ sock[disp[d].token].instance = disp[d].instance
          /\ Satisfies(sock[disp[d].token].hello, disp[d].action)
          /\ disp[d].phase = "done" /\ disp[d].kind # "cancelled"
               => disp[d].identity = disp[d].instance

SelectionKept == \A d \in Dispatches : Knows(d)

\* A request waits in the channel its call chose, or was written from it, only after
\* the call has sent it.
Sent(c, d) == disp[d].phase \in {"waiting", "done"} /\ disp[d].channel = c

RequestsInPlace ==
    \A c \in Sockets :
        /\ \A k \in 1..Len(queue[c]) : queue[c][k] \in Dispatches => Sent(c, queue[c][k])
        /\ \A d \in delivered[c] : Sent(c, d)

IInv ==
    /\ TypeOK
    /\ RegistryLive
    /\ DrainsReplaced
    /\ SelectionKept
    /\ RequestsInPlace
    /\ PendingExact
    /\ NoOrphanPending

-----------------------------------------------------------------------------
(***************************************************************************)
(* Types.                                                                  *)
(***************************************************************************)

\* The updates that steps make to the record of a handler keep its type.
LEMMA HandlerTyped ==
    ASSUME NEW h \in SocketState, NEW phase \in SocketPhases, NEW drain \in Sockets \cup {None}
    PROVE  /\ [h EXCEPT !.phase = phase] \in SocketState
           /\ [h EXCEPT !.phase = phase, !.drain = drain] \in SocketState
BY DEF SocketState

\* So do those they make to the record of a call.
LEMMA CallTyped ==
    ASSUME NEW e \in DispatchState, NEW phase \in DispatchPhases, NEW reply \in Replies
    PROVE  /\ [e EXCEPT !.phase = phase] \in DispatchState
           /\ [e EXCEPT !.reply = reply] \in DispatchState
           /\ \A channel \in Sockets \cup {None} :
                [e EXCEPT !.phase = phase, !.channel = channel] \in DispatchState
           /\ \A kind \in {"result", "cancelled", None} \cup ErrorKinds :
                /\ \A action \in Actions :
                     [e EXCEPT !.phase = phase, !.action = action, !.kind = kind]
                       \in DispatchState
                /\ \A identity \in Instances \cup {None} :
                     [e EXCEPT !.phase = phase, !.kind = kind, !.identity = identity]
                       \in DispatchState
           /\ \A action \in Actions, i \in Instances, token \in Sockets :
                [e EXCEPT !.phase = phase, !.action = action, !.instance = i, !.token = token]
                  \in DispatchState
<1> USE DEF DispatchState
<1>1. /\ [e EXCEPT !.phase = phase] \in DispatchState
      /\ [e EXCEPT !.reply = reply] \in DispatchState
  OBVIOUS
<1>2. ASSUME NEW channel \in Sockets \cup {None}
      PROVE  [e EXCEPT !.phase = phase, !.channel = channel] \in DispatchState
  OBVIOUS
<1>3. ASSUME NEW kind \in {"result", "cancelled", None} \cup ErrorKinds, NEW action \in Actions
      PROVE  [e EXCEPT !.phase = phase, !.action = action, !.kind = kind] \in DispatchState
  OBVIOUS
<1>4. ASSUME NEW kind \in {"result", "cancelled", None} \cup ErrorKinds,
             NEW identity \in Instances \cup {None}
      PROVE  [e EXCEPT !.phase = phase, !.kind = kind, !.identity = identity]
               \in DispatchState
  OBVIOUS
<1>5. ASSUME NEW action \in Actions, NEW i \in Instances, NEW token \in Sockets
      PROVE  [e EXCEPT !.phase = phase, !.action = action, !.instance = i, !.token = token]
               \in DispatchState
  OBVIOUS
<1> HIDE DEF DispatchState
<1> QED
  BY <1>1, <1>2, <1>3, <1>4, <1>5

\* The phases and replies by name.
LEMMA Names ==
    /\ {"accepted", "registering", "reading", "acking", "leaving", "draining", "aborting",
        "closed"} = SocketPhases
    /\ {"idle", "selected", "sending", "waiting", "done"} = DispatchPhases
    /\ {"result", "Disconnected", "Protocol"} = Replies
    /\ {"Unavailable", "CapabilityUnavailable", "Timeout"} \subseteq ErrorKinds
    /\ Replies \subseteq {"result"} \cup ErrorKinds
BY DEF SocketPhases, DispatchPhases, Replies, ErrorKinds

\* The requests that leave the pending map leave typed calls behind.
LEMMA FailPendingTyped ==
    ASSUME TypeOK, NEW failed, FailPending(failed)
    PROVE  /\ pending' \in SUBSET Dispatches
           /\ disp' \in [Dispatches -> DispatchState]
<1>1. disp \in [Dispatches -> DispatchState] /\ pending \in SUBSET Dispatches
  BY DEF TypeOK
<1>2. \A e \in DispatchState : [e EXCEPT !.reply = "Disconnected"] \in DispatchState
  BY CallTyped, Names
<1> QED
  BY <1>1, <1>2 DEF FailPending

\* A call that returns is typed.
LEMMA ReturnTyped ==
    ASSUME TypeOK, NEW d \in Dispatches,
           NEW kind \in {"result", "cancelled", None} \cup ErrorKinds,
           NEW identity \in Instances \cup {None},
           Return(d, kind, identity)
    PROVE  disp' \in [Dispatches -> DispatchState]
BY CallTyped, Names DEF TypeOK, Return

\* Every step of a socket's handler, of its writer task and of its adapter keeps the types.
LEMMA SocketTypes ==
    ASSUME TypeOK, NEW c \in Sockets, SocketStep(c)
    PROVE  TypeOK'
<1> USE DEF TypeOK
<1>0. /\ \A q \in Seq(Dispatches \cup {Ack}) :
            q # <<>> => /\ Tail(q) \in Seq(Dispatches \cup {Ack})
                        /\ Len(Tail(q)) < Len(q)
                        /\ Head(q) \in Dispatches \cup {Ack}
      /\ Capacity \in Nat
  BY ConstantsAssumption
<1>1. ASSUME NEW i \in Instances, NEW hello \in Hellos, Register(c, i, hello)
      PROVE  TypeOK'
  BY <1>1 DEF Register, SocketState, SocketPhases
<1>2. CASE Refuse(c) \/ LeaveLoop(c) \/ EventEmit(c)
  <2>1. PICK phase \in SocketPhases : sock' = [sock EXCEPT ![c].phase = phase]
    BY <1>2, Names DEF Refuse, LeaveLoop, EventEmit
  <2>2. sock' \in [Sockets -> SocketState]
    BY <2>1, HandlerTyped
  <2> QED
    BY <1>2, <2>2 DEF Refuse, LeaveLoop, EventEmit
<1>3. CASE FinishRegister(c)
  <2>1. sock' \in [Sockets -> SocketState]
    BY <1>3, HandlerTyped, Names DEF FinishRegister
  <2>2. pending' \in SUBSET Dispatches /\ disp' \in [Dispatches -> DispatchState]
    BY <1>3, FailPendingTyped DEF FinishRegister, FailPendingForToken
  <2> QED
    BY <1>3, <2>1, <2>2 DEF FinishRegister
<1>4. CASE DisconnectIfCurrent(c)
  BY <1>4, HandlerTyped, Names DEF DisconnectIfCurrent
<1>5. CASE DrainOwn(c)
  <2>1. sock' \in [Sockets -> SocketState]
    BY <1>5, HandlerTyped, Names DEF DrainOwn
  <2>2. pending' \in SUBSET Dispatches /\ disp' \in [Dispatches -> DispatchState]
    BY <1>5, FailPendingTyped DEF DrainOwn, FailPendingForToken
  <2> QED
    BY <1>5, <2>1, <2>2 DEF DrainOwn
<1>6. CASE AbortWriter(c)
  <2>1. sock' \in [Sockets -> SocketState]
    BY <1>6, HandlerTyped, Names DEF AbortWriter
  <2>2. /\ queue' \in [Sockets -> Seq(Dispatches \cup {Ack})]
        /\ \A x \in Sockets : Len(queue'[x]) <= Capacity
    BY <1>0, <1>6 DEF AbortWriter
  <2> QED
    BY <1>6, <2>1, <2>2 DEF AbortWriter
<1>7. CASE WriterForward(c)
  BY <1>0, <1>7 DEF WriterForward
<1>8. CASE WriterFail(c)
  BY <1>0, <1>8 DEF WriterFail
<1>9. ASSUME NEW d \in Dispatches, NEW reply \in Replies, Resolve(c, d, reply)
      PROVE  TypeOK'
  BY <1>9, CallTyped, Names DEF Resolve
<1>10. CASE SendAck(c)
  <2>1. sock' \in [Sockets -> SocketState]
    BY <1>10, HandlerTyped, Names DEF SendAck
  <2>2. /\ queue' \in [Sockets -> Seq(Dispatches \cup {Ack})]
        /\ \A x \in Sockets : Len(queue'[x]) <= Capacity
    BY <1>0, <1>10 DEF SendAck
  <2> QED
    BY <1>10, <2>1, <2>2 DEF SendAck
<1> QED
  BY <1>1, <1>2, <1>3, <1>4, <1>5, <1>6, <1>7, <1>8, <1>9, <1>10 DEF SocketStep

\* Every step of a call of execute keeps the types.
LEMMA DispatchTypes ==
    ASSUME TypeOK, NEW d \in Dispatches, DispatchStep(d)
    PROVE  TypeOK'
<1> USE DEF TypeOK
<1>0. /\ disp[d].instance \in Instances \cup {None}
      /\ disp[d].token \in Sockets \cup {None}
      /\ disp[d].channel \in Sockets \cup {None}
      /\ disp[d].reply \in Replies \cup {None}
  BY DEF DispatchState
<1>1. ASSUME NEW action \in Actions, SelectNone(d, action)
      PROVE  TypeOK'
  BY <1>1, CallTyped, Names DEF SelectNone
<1>2. ASSUME NEW action \in Actions, SelectEligible(d, action)
      PROVE  TypeOK'
  <2>1. PICK i \in Candidates(action) :
           disp' = [disp EXCEPT ![d] =
                      [@ EXCEPT !.phase = "selected", !.action = action,
                                !.instance = i, !.token = connections[i]]]
    BY <1>2 DEF SelectEligible
  <2>2. i \in Instances /\ connections[i] \in Sockets
    BY DEF Candidates
  <2>3. disp' \in [Dispatches -> DispatchState]
    BY <2>1, <2>2, CallTyped, Names
  <2> QED
    BY <1>2, <2>3 DEF SelectEligible
<1>3. CASE InsertPendingIfCurrent(d)
  <2>1. CASE connections[disp[d].instance] = disp[d].token
    <3>1. disp' = [disp EXCEPT ![d] =
                     [@ EXCEPT !.phase = "sending", !.channel = disp[d].token]]
      BY <1>3, <2>1 DEF InsertPendingIfCurrent
    <3>2. disp' \in [Dispatches -> DispatchState]
      BY <1>0, <3>1, CallTyped, Names
    <3> QED
      BY <1>3, <2>1, <3>2 DEF InsertPendingIfCurrent
  <2>2. CASE connections[disp[d].instance] # disp[d].token
    <3>1. disp' \in [Dispatches -> DispatchState]
      BY <1>0, <1>3, <2>2, ReturnTyped DEF InsertPendingIfCurrent, ErrorKinds
    <3> QED
      BY <1>3, <2>2, <3>1 DEF InsertPendingIfCurrent
  <2> QED
    BY <2>1, <2>2
<1>4. CASE SendRequest(d)
  <2>1. disp' \in [Dispatches -> DispatchState]
    BY <1>4, CallTyped, Names DEF SendRequest
  <2> DEFINE q == Append(queue[disp[d].channel], d)
  <2>2. CASE disp[d].channel \in Sockets
    <3>1. q \in Seq(Dispatches \cup {Ack}) /\ Len(q) <= Capacity
      BY <1>4, <2>2, ConstantsAssumption DEF SendRequest
    <3>2. queue' = [queue EXCEPT ![disp[d].channel] = q]
      BY <1>4 DEF SendRequest
    <3> HIDE DEF q
    <3>3. /\ queue' \in [Sockets -> Seq(Dispatches \cup {Ack})]
          /\ \A x \in Sockets : Len(queue'[x]) <= Capacity
      BY <2>2, <3>1, <3>2
    <3> QED
      BY <1>4, <2>1, <3>3 DEF SendRequest
  <2>3. CASE disp[d].channel = None
    <3>1. queue' = queue
      BY <1>4, <2>3, ConstantsAssumption DEF SendRequest
    <3> QED
      BY <1>4, <2>1, <3>1 DEF SendRequest
  <2> QED
    BY <1>0, <2>2, <2>3
<1>5. CASE SendFailed(d) \/ ReceiveReply(d) \/ TimeOut(d) \/ Cancel(d)
  <2>1. disp' \in [Dispatches -> DispatchState]
    BY <1>0, <1>5, ReturnTyped
    DEF SendFailed, ReceiveReply, TimeOut, Cancel, ErrorKinds, Replies
  <2> QED
    BY <1>5, <2>1 DEF SendFailed, ReceiveReply, TimeOut, Cancel
<1> QED
  BY <1>1, <1>2, <1>3, <1>4, <1>5 DEF DispatchStep

\* Every step of the shutdown sequence keeps the types.
LEMMA ShutdownTypes ==
    ASSUME TypeOK, ShutdownStep
    PROVE  TypeOK'
<1>1. CASE SignalShutdown \/ ShutdownClear
  BY <1>1 DEF SignalShutdown, ShutdownClear, TypeOK
<1>2. CASE ShutdownDrain
  <2>1. pending' \in SUBSET Dispatches /\ disp' \in [Dispatches -> DispatchState]
    BY <1>2, FailPendingTyped DEF ShutdownDrain
  <2> QED
    BY <1>2, <2>1 DEF ShutdownDrain, TypeOK
<1> QED
  BY <1>1, <1>2 DEF ShutdownStep

\* The initial records are typed.
LEMMA InitTypes ==
    Init => TypeOK
BY ConstantsAssumption
DEF Init, TypeOK, SocketState, SocketPhases, DispatchState, DispatchPhases

\* Steps that change nothing keep the types.
LEMMA NextTypes ==
    TypeOK /\ [Next]_vars => TypeOK'
<1> SUFFICES ASSUME TypeOK, [Next]_vars
             PROVE  TypeOK'
  OBVIOUS
<1>1. CASE UNCHANGED vars
  BY <1>1 DEF vars, TypeOK
<1> QED
  BY <1>1, SocketTypes, DispatchTypes, ShutdownTypes DEF Next, Finished

\* The types hold of every reachable state: a channel never holds more than its
\* capacity, whoever sends to it and whoever takes it over.
THEOREM TypeCorrect ==
    Spec => []TypeOK
BY InitTypes, NextTypes, PTL DEF Spec

-----------------------------------------------------------------------------
(***************************************************************************)
(* What the steps of one process leave to the others.                      *)
(***************************************************************************)

\* A step that only answers requests: those that leave the pending map get a reply,
\* and no call is changed otherwise.
OnlyAnswers ==
    /\ pending' \subseteq pending
    /\ \A d \in Dispatches :
         IF d \in pending \ pending'
         THEN \E reply \in Replies : disp'[d] = [disp[d] EXCEPT !.reply = reply]
         ELSE disp'[d] = disp[d]

\* Failing requests answers them.
LEMMA FailPendingAnswers ==
    ASSUME TypeOK, NEW failed, FailPending(failed)
    PROVE  OnlyAnswers
<1>1. "Disconnected" \in Replies
  BY Names
<1> QED
  BY <1>1 DEF FailPending, OnlyAnswers, TypeOK

\* A handler does nothing to a call but answer it, and leaves the registrations of the
\* other handlers alone.
LEMMA SocketFrame ==
    ASSUME TypeOK, NEW c \in Sockets, SocketStep(c)
    PROVE  /\ OnlyAnswers
           /\ stage' = stage
           /\ \A x \in Sockets \ {c} : sock'[x] = sock[x]
           /\ sock[c].phase # "accepted" =>
                /\ sock'[c].phase # "accepted"
                /\ sock'[c].instance = sock[c].instance
                /\ sock'[c].hello = sock[c].hello
<1> USE DEF TypeOK, SocketState
<1>1. ASSUME UNCHANGED <<pending, disp>>
      PROVE  OnlyAnswers
  BY <1>1 DEF OnlyAnswers
<1>2. ASSUME NEW i \in Instances, NEW hello \in Hellos, Register(c, i, hello)
      PROVE  /\ UNCHANGED <<pending, disp, stage>>
             /\ \A x \in Sockets \ {c} : sock'[x] = sock[x]
             /\ sock[c].phase = "accepted"
  BY <1>2 DEF Register
<1>3. CASE Refuse(c) \/ LeaveLoop(c) \/ EventEmit(c) \/ SendAck(c) \/ AbortWriter(c)
  BY <1>1, <1>3 DEF Refuse, LeaveLoop, EventEmit, SendAck, AbortWriter
<1>4. CASE FinishRegister(c) \/ DrainOwn(c)
  <2>1. OnlyAnswers
    BY <1>1, <1>4, FailPendingAnswers DEF FinishRegister, DrainOwn, FailPendingForToken
  <2>2. PICK phase \in {"reading", "aborting"} :
           sock' = [sock EXCEPT ![c] = [@ EXCEPT !.phase = phase, !.drain = None]]
    BY <1>4 DEF FinishRegister, DrainOwn
  <2> QED
    BY <1>4, <2>1, <2>2 DEF FinishRegister, DrainOwn
<1>5. CASE DisconnectIfCurrent(c)
  BY <1>1, <1>5 DEF DisconnectIfCurrent
<1>6. CASE WriterForward(c) \/ WriterFail(c)
  BY <1>1, <1>6 DEF WriterForward, WriterFail
<1>7. ASSUME NEW d \in Dispatches, NEW reply \in Replies, Resolve(c, d, reply)
      PROVE  OnlyAnswers /\ UNCHANGED <<sock, stage>>
  BY <1>7 DEF Resolve, OnlyAnswers
<1> QED
  BY <1>1, <1>2, <1>3, <1>4, <1>5, <1>6, <1>7 DEF SocketStep

\* A call does nothing to a handler and nothing to another call.
LEMMA DispatchFrame ==
    ASSUME TypeOK, NEW d \in Dispatches, DispatchStep(d)
    PROVE  /\ UNCHANGED <<connections, sock, open, delivered, stage>>
           /\ \A e \in Dispatches \ {d} :
                 disp'[e] = disp[e] /\ (e \in pending' <=> e \in pending)
<1> USE DEF TypeOK, Return
<1>1. CASE \E action \in Actions : SelectNone(d, action) \/ SelectEligible(d, action)
  BY <1>1 DEF SelectNone, SelectEligible
<1>2. CASE InsertPendingIfCurrent(d)
  BY <1>2 DEF InsertPendingIfCurrent
<1>3. CASE SendRequest(d) \/ SendFailed(d) \/ ReceiveReply(d) \/ TimeOut(d) \/ Cancel(d)
  BY <1>3 DEF SendRequest, SendFailed, ReceiveReply, TimeOut, Cancel
<1> QED
  BY <1>1, <1>2, <1>3 DEF DispatchStep

\* The shutdown sequence only clears the registry and answers requests.
LEMMA ShutdownFrame ==
    ASSUME TypeOK, ShutdownStep
    PROVE  /\ OnlyAnswers
           /\ UNCHANGED <<sock, queue, open, delivered>>
           /\ \/ UNCHANGED connections
              \/ stage' = "cleared" /\ connections' = [i \in Instances |-> None]
           /\ stage = "cleared" => pending' = {}
<1>1. CASE SignalShutdown \/ ShutdownClear
  BY <1>1 DEF SignalShutdown, ShutdownClear, OnlyAnswers
<1>2. CASE ShutdownDrain
  BY <1>2, FailPendingAnswers DEF ShutdownDrain, FailPending
<1> QED
  BY <1>1, <1>2 DEF ShutdownStep

-----------------------------------------------------------------------------
(***************************************************************************)
(* The registry.                                                           *)
(***************************************************************************)

\* Registrations and teardowns keep the registry to live handlers, and the tokens still
\* to be drained out of it.
LEMMA SocketKeepsRegistry ==
    ASSUME TypeOK, RegistryLive, DrainsReplaced, NEW c \in Sockets, SocketStep(c)
    PROVE  RegistryLive' /\ DrainsReplaced'
<1> USE ConstantsAssumption DEF TypeOK, SocketState, RegistryLive, DrainsReplaced, Listed
<1>1. ASSUME NEW i \in Instances, NEW hello \in Hellos, Register(c, i, hello)
      PROVE  RegistryLive' /\ DrainsReplaced'
  <2>0. c # None /\ sock[c].phase = "accepted"
    BY <1>1 DEF Register
  <2>1. \A j \in Instances : connections[j] # c
    BY ONLY <2>0, RegistryLive DEF RegistryLive
  <2>2. \A x \in Sockets : sock[x].drain # c
    BY ONLY <2>0, DrainsReplaced DEF DrainsReplaced
  <2>3. /\ sock'[c] = [phase |-> "registering", instance |-> i, hello |-> hello,
                       drain |-> connections[i]]
        /\ \A x \in Sockets \ {c} : sock'[x] = sock[x]
        /\ connections'[i] = c
        /\ \A j \in Instances \ {i} : connections'[j] = connections[j]
    BY <1>1 DEF Register
  <2>4. RegistryLive'
    BY <2>1, <2>3
  <2>5. connections[i] # None =>
          /\ connections[i] \in Sockets \ {c}
          /\ sock[connections[i]].instance = i
          /\ sock[connections[i]].phase # "accepted"
    <3>1. connections[i] \in Sockets \cup {None} /\ connections[i] # c
      BY <2>1
    <3>2. connections[i] # None =>
            /\ sock[connections[i]].instance = i
            /\ sock[connections[i]].phase \in Listed
      BY ONLY RegistryLive, i \in Instances DEF RegistryLive, Listed
    <3> QED
      BY ONLY <3>1, <3>2 DEF Listed
  <2>6. connections[i] # None => \A j \in Instances : connections'[j] # connections[i]
    BY <2>3, <2>5
  <2>7. ASSUME NEW x \in Sockets \ {c}, sock[x].drain # None
        PROVE  /\ sock'[sock[x].drain].phase # "accepted"
               /\ \A j \in Instances : connections'[j] # sock[x].drain
    BY <2>2, <2>3, <2>7
  <2>8. ASSUME NEW x \in Sockets \ {c}
        PROVE  /\ sock'[x].phase \in Listed => sock'[x].instance \in Instances
               /\ sock'[x].phase = "draining" => sock'[x].drain = x
               /\ sock'[x].drain # None => sock'[x].phase \in {"registering", "draining"}
    BY <2>3
  <2>9. DrainsReplaced'
    <3>1. sock'[connections[i]] = sock[connections[i]] \/ connections[i] = None
      BY <2>3, <2>5
    <3>2. connections[i] # None => sock'[connections[i]].phase # "accepted"
      BY <2>5, <3>1
    <3> QED
      BY <2>3, <2>6, <2>7, <2>8, <3>2
  <2> QED
    BY <2>4, <2>9
<1>2. CASE Refuse(c)
  BY <1>2 DEF Refuse
<1>3. CASE LeaveLoop(c)
  BY <1>3 DEF LeaveLoop
<1>4. CASE EventEmit(c)
  BY <1>4 DEF EventEmit
<1>5. CASE SendAck(c)
  BY <1>5 DEF SendAck
<1>6. CASE AbortWriter(c)
  BY <1>6 DEF AbortWriter
<1>7. CASE FinishRegister(c)
  BY <1>7 DEF FinishRegister
<1>8. CASE DrainOwn(c)
  BY <1>8 DEF DrainOwn
<1>9. CASE DisconnectIfCurrent(c)
  <2>1. CASE connections[sock[c].instance] = c
    BY <1>9, <2>1 DEF DisconnectIfCurrent
  <2>2. CASE connections[sock[c].instance] # c
    BY <1>9, <2>2 DEF DisconnectIfCurrent
  <2> QED
    BY <2>1, <2>2
<1>10. CASE WriterForward(c) \/ WriterFail(c)
  BY <1>10 DEF WriterForward, WriterFail
<1>11. ASSUME NEW d \in Dispatches, NEW reply \in Replies, Resolve(c, d, reply)
       PROVE  RegistryLive' /\ DrainsReplaced'
  BY <1>11 DEF Resolve
<1> QED
  BY <1>1, <1>2, <1>3, <1>4, <1>5, <1>6, <1>7, <1>8, <1>9, <1>10, <1>11 DEF SocketStep

\* So does every other step.
LEMMA NextKeepsRegistry ==
    ASSUME TypeOK, RegistryLive, DrainsReplaced, [Next]_vars
    PROVE  RegistryLive' /\ DrainsReplaced'
<1>1. ASSUME UNCHANGED sock,
             UNCHANGED connections \/ connections' = [i \in Instances |-> None]
      PROVE  RegistryLive' /\ DrainsReplaced'
  BY <1>1 DEF RegistryLive, DrainsReplaced
<1> QED
  BY <1>1, SocketKeepsRegistry, DispatchFrame, ShutdownFrame DEF Next, Finished, vars

-----------------------------------------------------------------------------
(***************************************************************************)
(* The pending map.                                                        *)
(***************************************************************************)

\* Answering requests keeps the pending map exact, and no call is answered before its
\* request is registered.
LEMMA AnswersKeepPendingExact ==
    ASSUME TypeOK, PendingExact, OnlyAnswers
    PROVE  PendingExact'
<1>1. pending \subseteq Dispatches /\ disp \in [Dispatches -> DispatchState]
  BY DEF TypeOK
<1>2. None \notin Replies
  BY ConstantsAssumption DEF Replies, ErrorKinds
<1>3. ASSUME NEW d \in Dispatches, d \in pending \ pending'
      PROVE  disp'[d].reply # None
  <2>1. PICK reply \in Replies : disp'[d] = [disp[d] EXCEPT !.reply = reply]
    BY <1>3 DEF OnlyAnswers
  <2>2. disp'[d].reply = reply
    BY <1>1, <2>1 DEF DispatchState
  <2> QED
    BY <1>2, <2>2
<1>4. ASSUME NEW d \in Dispatches, d \notin pending \ pending'
      PROVE  disp'[d] = disp[d] /\ (d \in pending' <=> d \in pending)
  BY <1>4 DEF OnlyAnswers
<1> QED
  BY <1>3, <1>4 DEF PendingExact

\* Whichever way a call ends, its entry goes with it.
LEMMA DispatchKeepsPendingExact ==
    ASSUME TypeOK, PendingExact, SelectionKept, NEW d \in Dispatches, DispatchStep(d)
    PROVE  PendingExact'
<1> USE DEF PendingExact, Return
<1>0. disp \in [Dispatches -> DispatchState]
  BY DEF TypeOK
<1> SUFFICES d \in pending' <=>
               disp'[d].phase \in {"sending", "waiting"} /\ disp'[d].reply = None
  BY DispatchFrame
<1>1. CASE \E action \in Actions : SelectNone(d, action)
  BY <1>0, <1>1 DEF SelectNone, DispatchState
<1>2. CASE \E action \in Actions : SelectEligible(d, action)
  BY <1>0, <1>2 DEF SelectEligible, DispatchState
<1>3. CASE InsertPendingIfCurrent(d)
  <2>1. disp[d].reply = None /\ d \notin pending
    BY <1>3 DEF InsertPendingIfCurrent, SelectionKept, Knows
  <2>2. CASE connections[disp[d].instance] = disp[d].token
    <3>1. /\ pending' = pending \cup {d}
          /\ disp' = [disp EXCEPT ![d] =
                        [@ EXCEPT !.phase = "sending", !.channel = disp[d].token]]
      BY <1>3, <2>2 DEF InsertPendingIfCurrent
    <3> QED
      BY <1>0, <2>1, <3>1 DEF DispatchState
  <2>3. CASE connections[disp[d].instance] # disp[d].token
    <3>1. /\ pending' = pending
          /\ Return(d, "Disconnected", disp[d].instance)
      BY <1>3, <2>3 DEF InsertPendingIfCurrent
    <3> QED
      BY <1>0, <2>1, <3>1 DEF DispatchState
  <2> QED
    BY <2>2, <2>3
<1>4. CASE SendRequest(d)
  BY <1>0, <1>4 DEF SendRequest, DispatchState
<1>5. CASE SendFailed(d)
  BY <1>0, <1>5 DEF SendFailed, DispatchState
<1>6. CASE ReceiveReply(d)
  BY <1>0, <1>6 DEF ReceiveReply, DispatchState
<1>7. CASE TimeOut(d)
  BY <1>0, <1>7 DEF TimeOut, DispatchState
<1>8. CASE Cancel(d)
  BY <1>0, <1>8 DEF Cancel, DispatchState
<1> QED
  BY <1>1, <1>2, <1>3, <1>4, <1>5, <1>6, <1>7, <1>8 DEF DispatchStep

\* The pending map stays exact in every step.
LEMMA NextKeepsPendingExact ==
    ASSUME TypeOK, PendingExact, SelectionKept, [Next]_vars
    PROVE  PendingExact'
<1>1. CASE UNCHANGED vars
  BY <1>1 DEF vars, PendingExact
<1> QED
  BY <1>1, SocketFrame, ShutdownFrame, AnswersKeepPendingExact, DispatchKeepsPendingExact
  DEF Next, Finished

-----------------------------------------------------------------------------
(***************************************************************************)
(* What a call knows of the connection it selected.                        *)
(***************************************************************************)

\* Handlers and the shutdown sequence keep every selection: a registration is for life,
\* and an answer touches nothing but the reply of a request that waits for one.
LEMMA AnswersKeepSelection ==
    ASSUME TypeOK, PendingExact, SelectionKept, OnlyAnswers,
           \A x \in Sockets : sock[x].phase # "accepted" =>
              /\ sock'[x].phase # "accepted"
              /\ sock'[x].instance = sock[x].instance
              /\ sock'[x].hello = sock[x].hello
    PROVE  SelectionKept'
<1> SUFFICES ASSUME NEW d \in Dispatches
             PROVE  Knows(d)'
  BY DEF SelectionKept
<1>0. disp[d] \in DispatchState
  BY DEF TypeOK
<1>1. \/ disp'[d] = disp[d]
      \/ /\ disp[d].phase \in {"sending", "waiting"}
         /\ \E reply \in Replies : disp'[d] = [disp[d] EXCEPT !.reply = reply]
  BY DEF OnlyAnswers, PendingExact
<1>2. /\ Knows(d)
      /\ disp'[d].phase = disp[d].phase
      /\ disp'[d].action = disp[d].action
      /\ disp'[d].instance = disp[d].instance
      /\ disp'[d].token = disp[d].token
      /\ disp'[d].channel = disp[d].channel
      /\ disp'[d].kind = disp[d].kind
      /\ disp'[d].identity = disp[d].identity
      /\ disp[d].phase \in {"idle", "selected"} => disp'[d].reply = disp[d].reply
  BY <1>0, <1>1 DEF DispatchState, SelectionKept
<1>3. disp[d].token # None => disp[d].token \in Sockets
  BY <1>0 DEF DispatchState
<1> QED
  BY <1>2, <1>3 DEF Knows

\* A call selects a live connection whose hello satisfies its action, and never takes
\* another one.
LEMMA DispatchKeepsSelection ==
    ASSUME TypeOK, RegistryLive, SelectionKept, NEW d \in Dispatches, DispatchStep(d)
    PROVE  SelectionKept'
<1>0. disp \in [Dispatches -> DispatchState] /\ disp[d] \in DispatchState
  BY DEF TypeOK
<1>1. Knows(d) /\ UNCHANGED sock
  BY DispatchFrame DEF SelectionKept
<1> SUFFICES Knows(d)'
  BY DispatchFrame DEF SelectionKept, Knows
<1>2. ASSUME NEW action \in Actions, SelectNone(d, action)
      PROVE  /\ disp'[d].phase = "done"
             /\ disp'[d].token = None
             /\ disp'[d].channel = None
  BY <1>0, <1>1, <1>2 DEF SelectNone, DispatchState, Knows
<1>3. ASSUME NEW action \in Actions, SelectEligible(d, action)
      PROVE  /\ disp'[d].phase = "selected"
             /\ disp'[d].token \in Sockets
             /\ disp'[d].channel = None
             /\ disp'[d].reply = None
             /\ disp'[d].instance \in Instances
             /\ sock[disp'[d].token].phase # "accepted"
             /\ sock[disp'[d].token].instance = disp'[d].instance
             /\ Satisfies(sock[disp'[d].token].hello, disp'[d].action)
  <2>1. PICK i \in Candidates(action) :
           disp' = [disp EXCEPT ![d] =
                      [@ EXCEPT !.phase = "selected", !.action = action,
                                !.instance = i, !.token = connections[i]]]
    BY <1>3 DEF SelectEligible
  <2>2. i \in Instances /\ connections[i] \in Sockets
    BY DEF Candidates, TypeOK
  <2>3. Satisfies(sock[connections[i]].hello, action)
    BY DEF Candidates
  <2>4. /\ sock[connections[i]].phase # "accepted"
        /\ sock[connections[i]].instance = i
    BY <2>2, ConstantsAssumption DEF RegistryLive
  <2>5. disp[d].reply = None /\ disp[d].token = None /\ disp[d].channel = None
    BY <1>1, <1>3 DEF SelectEligible, Knows
  <2> QED
    BY <1>0, <2>1, <2>2, <2>3, <2>4, <2>5 DEF DispatchState
<1>4. CASE InsertPendingIfCurrent(d) /\ connections[disp[d].instance] = disp[d].token
  <2>1. disp' = [disp EXCEPT ![d] =
                   [@ EXCEPT !.phase = "sending", !.channel = disp[d].token]]
    BY <1>4 DEF InsertPendingIfCurrent
  <2>2. disp[d].phase = "selected"
    BY <1>4 DEF InsertPendingIfCurrent
  <2> QED
    BY <1>0, <1>1, <2>1, <2>2 DEF Knows, DispatchState
<1>5. CASE SendRequest(d)
  BY <1>0, <1>1, <1>5 DEF SendRequest, Knows, DispatchState
<1>6. ASSUME NEW kind, NEW identity, Return(d, kind, identity),
             disp[d].phase \in {"selected", "sending", "waiting"},
             identity = disp[d].instance \/ kind = "cancelled"
      PROVE  Knows(d)'
  BY <1>0, <1>1, <1>6 DEF Return, Knows, DispatchState
<1>7. CASE InsertPendingIfCurrent(d) /\ connections[disp[d].instance] # disp[d].token
  BY <1>6, <1>7 DEF InsertPendingIfCurrent
<1>8. CASE SendFailed(d) \/ ReceiveReply(d) \/ TimeOut(d) \/ Cancel(d)
  BY <1>6, <1>8 DEF SendFailed, ReceiveReply, TimeOut, Cancel
<1>9. ASSUME NEW action \in Actions, SelectNone(d, action)
      PROVE  Knows(d)'
  <2>1. /\ disp'[d].phase = "done"
        /\ disp'[d].token = None
        /\ disp'[d].channel = None
    BY <1>2, <1>9
  <2> QED
    BY <2>1 DEF Knows
<1>10. ASSUME NEW action \in Actions, SelectEligible(d, action)
       PROVE  Knows(d)'
  <2>1. /\ disp'[d].phase = "selected"
        /\ disp'[d].token \in Sockets
        /\ disp'[d].channel = None
        /\ disp'[d].reply = None
        /\ disp'[d].instance \in Instances
        /\ sock[disp'[d].token].phase # "accepted"
        /\ sock[disp'[d].token].instance = disp'[d].instance
        /\ Satisfies(sock[disp'[d].token].hello, disp'[d].action)
    BY <1>3, <1>10
  <2> QED
    BY <1>1, <2>1, ConstantsAssumption DEF Knows
<1> QED
  BY <1>4, <1>5, <1>7, <1>8, <1>9, <1>10 DEF DispatchStep

\* Every step keeps every selection.
LEMMA NextKeepsSelection ==
    ASSUME TypeOK, RegistryLive, PendingExact, SelectionKept, [Next]_vars
    PROVE  SelectionKept'
<1>1. CASE UNCHANGED vars
  BY <1>1 DEF vars, SelectionKept, Knows
<1>2. ASSUME NEW c \in Sockets, SocketStep(c)
      PROVE  SelectionKept'
  BY <1>2, SocketFrame, AnswersKeepSelection
<1>3. CASE ShutdownStep
  BY <1>3, ShutdownFrame, AnswersKeepSelection
<1> QED
  BY <1>1, <1>2, <1>3, DispatchKeepsSelection DEF Next, Finished

-----------------------------------------------------------------------------
(***************************************************************************)
(* Requests in channels and on the wire.                                   *)
(***************************************************************************)

\* Answering a request moves it nowhere.
LEMMA AnswersKeepSent ==
    ASSUME TypeOK, OnlyAnswers, NEW c \in Sockets, NEW d \in Dispatches, Sent(c, d)
    PROVE  Sent(c, d)'
BY DEF TypeOK, DispatchState, OnlyAnswers, Sent

\* Writers and readers move requests from a channel to its own socket only.
LEMMA SocketKeepsPlaces ==
    ASSUME TypeOK, RequestsInPlace, NEW c \in Sockets, SocketStep(c)
    PROVE  RequestsInPlace'
<1> USE DEF TypeOK, RequestsInPlace
<1>0. \A x \in Sockets : \A d \in Dispatches : Sent(x, d) => Sent(x, d)'
  BY SocketFrame, AnswersKeepSent
<1>1. ASSUME NEW q \in Seq(Dispatches \cup {Ack}), q # <<>>
      PROVE  /\ Head(q) = q[1] /\ 1 \in 1..Len(q)
             /\ Len(Tail(q)) = Len(q) - 1
             /\ \A k \in 1..Len(Tail(q)) : Tail(q)[k] = q[k + 1] /\ k + 1 \in 1..Len(q)
  BY <1>1
<1>2. ASSUME NEW q \in Seq(Dispatches \cup {Ack})
      PROVE  /\ Len(Append(q, Ack)) = Len(q) + 1
             /\ \A k \in 1..Len(q) : Append(q, Ack)[k] = q[k]
             /\ Append(q, Ack)[Len(q) + 1] = Ack
  OBVIOUS
<1>3. CASE UNCHANGED <<queue, delivered>>
  BY <1>0, <1>3
<1>4. CASE AbortWriter(c) \/ WriterFail(c)
  <2>1. queue' = [queue EXCEPT ![c] = <<>>] /\ UNCHANGED delivered
    BY <1>4 DEF AbortWriter, WriterFail
  <2> QED
    BY <1>0, <2>1
<1>5. CASE WriterForward(c)
  <2>1. /\ queue[c] # <<>>
        /\ queue' = [queue EXCEPT ![c] = Tail(@)]
        /\ delivered' = [delivered EXCEPT ![c] = @ \cup ({Head(queue[c])} \ {Ack})]
    BY <1>5 DEF WriterForward
  <2>2. \A k \in 1..Len(queue'[c]) : queue'[c][k] \in Dispatches => Sent(c, queue'[c][k])
    BY <1>1, <2>1
  <2>3. \A d \in delivered'[c] : Sent(c, d)
    <3>1. delivered'[c] = delivered[c] \cup ({queue[c][1]} \ {Ack})
      BY <1>1, <2>1
    <3>2. queue[c][1] \in Dispatches \cup {Ack} /\ 1 \in 1..Len(queue[c])
      BY <1>1, <2>1
    <3> QED
      BY <3>1, <3>2
  <2> QED
    BY <1>0, <2>1, <2>2, <2>3
<1>6. CASE SendAck(c)
  <2>1. /\ queue' = [queue EXCEPT ![c] = Append(@, Ack)] \/ UNCHANGED queue
        /\ UNCHANGED delivered
    BY <1>6 DEF SendAck
  <2>2. CASE queue' = [queue EXCEPT ![c] = Append(@, Ack)]
    <3>1. /\ Len(queue'[c]) = Len(queue[c]) + 1
          /\ \A k \in 1..Len(queue[c]) : queue'[c][k] = queue[c][k]
          /\ queue'[c][Len(queue[c]) + 1] = Ack
      BY <1>2, <2>2
    <3>2. \A k \in 1..Len(queue'[c]) : k \in 1..Len(queue[c]) \/ k = Len(queue[c]) + 1
      BY <3>1
    <3>3. ASSUME NEW k \in 1..Len(queue'[c]), queue'[c][k] \in Dispatches
          PROVE  Sent(c, queue'[c][k])
      BY <3>1, <3>2, <3>3, ConstantsAssumption
    <3> QED
      BY <1>0, <2>1, <2>2, <3>3
  <2> QED
    BY <1>3, <2>1, <2>2
<1>7. ASSUME ~(AbortWriter(c) \/ WriterFail(c) \/ WriterForward(c) \/ SendAck(c))
      PROVE  UNCHANGED <<queue, delivered>>
  BY <1>7
  DEF SocketStep, Register, Refuse, FinishRegister, LeaveLoop, DisconnectIfCurrent, DrainOwn,
      Resolve, EventEmit
<1> QED
  BY <1>3, <1>4, <1>5, <1>6, <1>7

\* A call puts its request into the channel of its own connection only, and once.
LEMMA DispatchKeepsPlaces ==
    ASSUME TypeOK, RequestsInPlace, SelectionKept, NEW d \in Dispatches, DispatchStep(d)
    PROVE  RequestsInPlace'
<1> USE DEF TypeOK, RequestsInPlace
<1>0. disp \in [Dispatches -> DispatchState] /\ disp[d] \in DispatchState
  OBVIOUS
<1>1. \A e \in Dispatches \ {d} : disp'[e] = disp[e]
  BY DispatchFrame
<1>2. ASSUME NEW c \in Sockets, Sent(c, d)
      PROVE  Sent(c, d)'
  <2>1. disp[d].phase \in {"waiting", "done"} /\ disp[d].channel = c
    BY <1>2 DEF Sent
  <2>2. \/ ReceiveReply(d) \/ TimeOut(d) \/ Cancel(d)
    BY <2>1
    DEF DispatchStep, SelectNone, SelectEligible, InsertPendingIfCurrent, SendRequest,
        SendFailed
  <2>3. PICK kind, identity : Return(d, kind, identity)
    BY <2>2 DEF ReceiveReply, TimeOut, Cancel
  <2>4. disp'[d].phase = "done" /\ disp'[d].channel = disp[d].channel
    BY <1>0, <2>3 DEF Return, DispatchState
  <2> QED
    BY <2>1, <2>4 DEF Sent
<1>3. \A c \in Sockets : \A e \in Dispatches : Sent(c, e) => Sent(c, e)'
  BY <1>1, <1>2 DEF Sent
<1>4. CASE UNCHANGED queue
  BY <1>3, <1>4, DispatchFrame
<1>5. CASE SendRequest(d)
  <2>1. PICK c \in Sockets : c = disp[d].channel
    BY <1>0, <1>5 DEF SendRequest, SelectionKept, Knows, DispatchState
  <2>2. queue' = [queue EXCEPT ![c] = Append(@, d)] /\ UNCHANGED delivered
    BY <1>5, <2>1 DEF SendRequest
  <2>3. /\ Len(queue'[c]) = Len(queue[c]) + 1
        /\ \A k \in 1..Len(queue[c]) : queue'[c][k] = queue[c][k]
        /\ queue'[c][Len(queue[c]) + 1] = d
    BY <2>1, <2>2
  <2>4. Sent(c, d)'
    BY <1>0, <1>5, <2>1 DEF SendRequest, Sent, DispatchState
  <2>5. \A k \in 1..Len(queue'[c]) : k \in 1..Len(queue[c]) \/ k = Len(queue[c]) + 1
    BY <2>1, <2>3
  <2>6. ASSUME NEW k \in 1..Len(queue'[c]), NEW e \in Dispatches, e = queue'[c][k]
        PROVE  Sent(c, e)'
    <3>1. CASE k \in 1..Len(queue[c])
      <4>1. Sent(c, e)
        BY <2>1, <2>3, <2>6, <3>1
      <4> QED
        BY <1>3, <2>1, <4>1
    <3>2. CASE k = Len(queue[c]) + 1
      BY <2>3, <2>4, <2>6, <3>2
    <3> QED
      BY <2>5, <3>1, <3>2
  <2>7. ASSUME NEW x \in Sockets, NEW k \in 1..Len(queue'[x]), NEW e \in Dispatches,
               e = queue'[x][k]
        PROVE  Sent(x, e)'
    <3>1. CASE x = c
      BY <2>6, <2>7, <3>1
    <3>2. CASE x # c
      <4>1. queue'[x] = queue[x]
        BY <2>2, <3>2
      <4> QED
        BY <1>3, <2>7, <4>1
    <3> QED
      BY <3>1, <3>2
  <2>8. \A x \in Sockets : \A e \in delivered'[x] : Sent(x, e)'
    BY <1>3, <2>2
  <2> QED
    BY <2>7, <2>8 DEF Sent
<1>6. ASSUME ~SendRequest(d)
      PROVE  UNCHANGED queue
  BY <1>6
  DEF DispatchStep, SelectNone, SelectEligible, InsertPendingIfCurrent, SendFailed,
      ReceiveReply, TimeOut, Cancel
<1> QED
  BY <1>4, <1>5, <1>6

\* Every request stays in its place.
LEMMA NextKeepsPlaces ==
    ASSUME TypeOK, RequestsInPlace, SelectionKept, [Next]_vars
    PROVE  RequestsInPlace'
<1>1. CASE UNCHANGED vars
  BY <1>1 DEF vars, RequestsInPlace, Sent
<1>2. CASE ShutdownStep
  <2>1. \A x \in Sockets : \A d \in Dispatches : Sent(x, d) => Sent(x, d)'
    BY <1>2, ShutdownFrame, AnswersKeepSent
  <2> QED
    BY <1>2, <2>1, ShutdownFrame DEF RequestsInPlace, TypeOK
<1> QED
  BY <1>1, <1>2, SocketKeepsPlaces, DispatchKeepsPlaces DEF Next, Finished

-----------------------------------------------------------------------------
(***************************************************************************)
(* No request is stranded.                                                 *)
(***************************************************************************)

\* Whoever takes a connection out of the registry has its requests to drain, and a
\* request leaves the pending map before its drain is over.
LEMMA SocketKeepsReachable ==
    ASSUME IInv, NEW c \in Sockets, SocketStep(c)
    PROVE  NoOrphanPending'
<1> USE ConstantsAssumption
<1>0. /\ disp \in [Dispatches -> DispatchState]
      /\ sock \in [Sockets -> SocketState]
      /\ connections \in [Instances -> Sockets \cup {None}]
      /\ pending \subseteq Dispatches
  BY DEF IInv, TypeOK
<1>1. ASSUME NEW d \in pending'
      PROVE  /\ d \in pending /\ d \in Dispatches
             /\ disp'[d] = disp[d]
             /\ disp[d].token \in Sockets
             /\ disp[d].instance \in Instances
             /\ sock[disp[d].token].instance = disp[d].instance
             /\ \/ connections[disp[d].instance] = disp[d].token
                \/ DrainOutstanding(disp[d].token)
  <2>1. d \in pending /\ d \in Dispatches /\ disp'[d] = disp[d]
    BY <1>0, <1>1, SocketFrame DEF IInv, OnlyAnswers
  <2>2. disp[d].token # None
    BY <2>1 DEF IInv, PendingExact, SelectionKept, Knows
  <2> QED
    BY <1>0, <2>1, <2>2 DEF IInv, SelectionKept, Knows, NoOrphanPending, DispatchState
<1>2. stage' = stage /\ \A x \in Sockets \ {c} : sock'[x] = sock[x]
  BY SocketFrame DEF IInv
<1> SUFFICES ASSUME NEW d \in pending'
             PROVE  \/ connections'[disp[d].instance] = disp[d].token
                    \/ stage = "cleared"
                    \/ \E x \in Sockets : /\ sock'[x].phase \in {"registering", "draining"}
                                          /\ sock'[x].drain = disp[d].token
  BY <1>1, <1>2 DEF NoOrphanPending, DrainOutstanding
<1>3. ASSUME UNCHANGED connections,
             sock[c].phase \in {"registering", "draining"} /\ sock[c].drain = disp[d].token
               => sock'[c].phase = sock[c].phase /\ sock'[c].drain = sock[c].drain
      PROVE  \/ connections'[disp[d].instance] = disp[d].token
             \/ stage = "cleared"
             \/ \E x \in Sockets : /\ sock'[x].phase \in {"registering", "draining"}
                                   /\ sock'[x].drain = disp[d].token
  BY <1>1, <1>2, <1>3 DEF DrainOutstanding
<1>4. ASSUME NEW i \in Instances, NEW hello \in Hellos, Register(c, i, hello)
      PROVE  \/ connections'[disp[d].instance] = disp[d].token
             \/ stage = "cleared"
             \/ \E x \in Sockets : /\ sock'[x].phase \in {"registering", "draining"}
                                   /\ sock'[x].drain = disp[d].token
  <2>1. /\ sock[c].phase = "accepted"
        /\ sock'[c].phase = "registering"
        /\ sock'[c].drain = connections[i]
        /\ \A j \in Instances \ {i} : connections'[j] = connections[j]
    BY <1>0, <1>4 DEF Register
  <2>2. CASE connections[disp[d].instance] = disp[d].token
    BY <1>1, <2>1, <2>2
  <2>3. CASE DrainOutstanding(disp[d].token)
    BY <1>2, <2>1, <2>3 DEF DrainOutstanding
  <2> QED
    BY <1>1, <2>2, <2>3
<1>5. CASE FinishRegister(c) \/ DrainOwn(c)
  <2>1. sock[c].drain # None => FailPendingForToken(sock[c].drain)
    BY <1>5 DEF FinishRegister, DrainOwn
  <2>2. disp[d].token # sock[c].drain
    BY <1>1, <2>1 DEF FailPendingForToken, FailPending
  <2> QED
    BY <1>3, <1>5, <2>2 DEF FinishRegister, DrainOwn
<1>6. CASE DisconnectIfCurrent(c)
  <2>1. CASE connections[sock[c].instance] # c
    BY <1>0, <1>3, <1>6, <2>1 DEF DisconnectIfCurrent
  <2>2. CASE connections[sock[c].instance] = c
    <3>1. /\ sock[c].phase = "leaving"
          /\ sock'[c].phase = "draining"
          /\ sock'[c].drain = c
          /\ \A j \in Instances \ {sock[c].instance} : connections'[j] = connections[j]
      BY <1>0, <1>6, <2>2 DEF DisconnectIfCurrent, SocketState
    <3>2. CASE connections[disp[d].instance] = disp[d].token
      BY <1>1, <2>2, <3>1, <3>2
    <3>3. CASE DrainOutstanding(disp[d].token)
      BY <1>2, <3>1, <3>3 DEF DrainOutstanding
    <3> QED
      BY <1>1, <3>2, <3>3
  <2> QED
    BY <2>1, <2>2
<1>7. CASE Refuse(c) \/ LeaveLoop(c) \/ EventEmit(c) \/ SendAck(c) \/ AbortWriter(c)
  BY <1>3, <1>7 DEF Refuse, LeaveLoop, EventEmit, SendAck, AbortWriter
<1>8. CASE WriterForward(c) \/ WriterFail(c)
  BY <1>3, <1>8 DEF WriterForward, WriterFail
<1>9. ASSUME NEW e \in Dispatches, NEW reply \in Replies, Resolve(c, e, reply)
      PROVE  UNCHANGED <<connections, sock>>
  BY <1>9 DEF Resolve
<1> QED
  BY <1>3, <1>4, <1>5, <1>6, <1>7, <1>8, <1>9 DEF SocketStep

\* A request enters the pending map only while its connection is current.
LEMMA DispatchKeepsReachable ==
    ASSUME IInv, NEW d \in Dispatches, DispatchStep(d)
    PROVE  NoOrphanPending'
<1>0. disp \in [Dispatches -> DispatchState] /\ pending \subseteq Dispatches
  BY DEF IInv, TypeOK
<1>1. /\ UNCHANGED <<connections, sock, stage>>
      /\ \A e \in Dispatches \ {d} :
            disp'[e] = disp[e] /\ (e \in pending' <=> e \in pending)
  BY DispatchFrame DEF IInv
<1>2. ASSUME d \in pending'
      PROVE  /\ disp'[d].instance = disp[d].instance
             /\ disp'[d].token = disp[d].token
             /\ d \in pending \/ connections[disp[d].instance] = disp[d].token
  <2>1. CASE InsertPendingIfCurrent(d)
    <3>1. CASE connections[disp[d].instance] = disp[d].token
      <4>1. disp' = [disp EXCEPT ![d] =
                       [@ EXCEPT !.phase = "sending", !.channel = disp[d].token]]
        BY <2>1, <3>1 DEF InsertPendingIfCurrent
      <4> QED
        BY <1>0, <3>1, <4>1 DEF DispatchState
    <3>2. CASE connections[disp[d].instance] # disp[d].token
      BY <1>0, <1>2, <2>1, <3>2 DEF InsertPendingIfCurrent, Return, DispatchState
    <3> QED
      BY <3>1, <3>2
  <2>2. CASE SendRequest(d)
    BY <1>0, <1>2, <2>2 DEF SendRequest, DispatchState
  <2>3. CASE SendFailed(d) \/ TimeOut(d) \/ Cancel(d)
    BY <1>2, <2>3 DEF SendFailed, TimeOut, Cancel
  <2>4. CASE ReceiveReply(d)
    BY <1>0, <1>2, <2>4 DEF ReceiveReply, Return, DispatchState
  <2>5. CASE \E action \in Actions : SelectNone(d, action) \/ SelectEligible(d, action)
    BY <1>2, <2>5 DEF IInv, PendingExact, SelectNone, SelectEligible
  <2> QED
    BY <2>1, <2>2, <2>3, <2>4, <2>5 DEF DispatchStep
<1>3. SUFFICES ASSUME NEW e \in pending'
               PROVE  \/ connections[disp'[e].instance] = disp'[e].token
                      \/ stage = "cleared"
                      \/ \E x \in Sockets : /\ sock[x].phase \in {"registering", "draining"}
                                            /\ sock[x].drain = disp'[e].token
  BY <1>1 DEF NoOrphanPending, DrainOutstanding
<1>4. e \in Dispatches
  BY <1>3, DispatchTypes DEF IInv, TypeOK
<1>5. /\ disp'[e].instance = disp[e].instance
      /\ disp'[e].token = disp[e].token
      /\ e \in pending \/ connections[disp[e].instance] = disp[e].token
  BY <1>1, <1>2, <1>3, <1>4
<1> QED
  BY <1>5 DEF IInv, NoOrphanPending, DrainOutstanding

\* The invariant is inductive.
LEMMA Inductive ==
    /\ Init => IInv
    /\ IInv /\ [Next]_vars => IInv'
<1>1. Init => IInv
  <2>1. ASSUME Init
        PROVE  RegistryLive /\ DrainsReplaced /\ PendingExact /\ NoOrphanPending
    BY <2>1 DEF Init, RegistryLive, DrainsReplaced, PendingExact, NoOrphanPending, Listed
  <2>2. ASSUME Init
        PROVE  SelectionKept /\ RequestsInPlace
    BY <2>2, ConstantsAssumption DEF Init, SelectionKept, Knows, RequestsInPlace
  <2> QED
    BY <2>1, <2>2, InitTypes DEF IInv
<1>2. ASSUME IInv, [Next]_vars
      PROVE  IInv'
  <2>1. /\ TypeOK' /\ RegistryLive' /\ DrainsReplaced'
        /\ PendingExact' /\ SelectionKept' /\ RequestsInPlace'
    BY <1>2, NextTypes, NextKeepsRegistry, NextKeepsPendingExact, NextKeepsSelection,
       NextKeepsPlaces
    DEF IInv
  <2>2. ASSUME UNCHANGED <<connections, sock, disp, pending>>,
               stage' = stage \/ stage # "cleared"
        PROVE  NoOrphanPending'
    <3>1. NoOrphanPending
      BY <1>2 DEF IInv
    <3> QED
      BY <2>2, <3>1 DEF NoOrphanPending, DrainOutstanding
  <2>3. ASSUME ShutdownStep
        PROVE  NoOrphanPending'
    <3>1. CASE SignalShutdown
      BY <2>2, <3>1 DEF SignalShutdown
    <3>2. CASE ShutdownClear
      BY <3>2 DEF ShutdownClear, NoOrphanPending, DrainOutstanding
    <3>3. CASE ShutdownDrain
      BY <3>3 DEF ShutdownDrain, FailPending, NoOrphanPending
    <3> QED
      BY <2>3, <3>1, <3>2, <3>3 DEF ShutdownStep
  <2> QED
    BY <1>2, <2>1, <2>2, <2>3, SocketKeepsReachable, DispatchKeepsReachable
    DEF IInv, Next, Finished, vars
<1> QED
  BY <1>1, <1>2

\* and holds of every reachable state.
LEMMA Invariance ==
    Spec => []IInv
BY Inductive, PTL DEF Spec

-----------------------------------------------------------------------------
(***************************************************************************)
(* The properties.                                                         *)
(***************************************************************************)

\* The pending map of AdapterManager holds exactly the calls that wait for an answer
\* nobody has given: answers, timeouts, disconnects, replacements, shutdown, failed
\* sends and dropped futures all free the entry, and none frees another call's.
THEOREM PendingAlwaysExact ==
    Spec => []PendingExact
BY Invariance, PTL DEF IInv

\* insert_pending_if_current checks the connection under both locks: no request is ever
\* left on a connection that was replaced or removed with nobody to fail it.
THEOREM NeverOrphaned ==
    Spec => []NoOrphanPending
BY Invariance, PTL DEF IInv

\* register and disconnect_if_current keep the map of connections to sockets whose
\* handler has still to run its teardown, each under its own instance id.
THEOREM RegistryAlwaysLive ==
    Spec => []RegistryLive
BY Invariance, PTL DEF IInv

\* The writer task of a socket is only given requests whose action its own hello
\* satisfies, and the call that returns reports that socket's instance.
THEOREM AlwaysRoutedToEligible ==
    Spec => []RoutedToEligible
<1>1. ASSUME IInv
      PROVE  RoutedToEligible
  <2>1. ASSUME NEW c \in Sockets, NEW d \in delivered[c]
        PROVE  d \in Dispatches /\ Sent(c, d) /\ Knows(d)
    BY <1>1 DEF IInv, TypeOK, RequestsInPlace, SelectionKept
  <2>2. ASSUME NEW c \in Sockets, NEW d \in delivered[c]
        PROVE  disp[d].token = c
    BY <2>1, ConstantsAssumption DEF Sent, Knows
  <2> QED
    BY <2>1, <2>2, ConstantsAssumption DEF Knows, RoutedToEligible
<1> QED
  BY <1>1, Invariance, PTL

\* Before shutdown a request fails as Disconnected only once its own connection is no
\* longer current: the late teardown of a replaced socket, drain_pending_for_token,
\* goes by the token and not by the instance id.
THEOREM TeardownHarmless ==
    Spec => StaleTeardownHarmless
<1> DEFINE Harmless ==
      \A d \in Dispatches :
         /\ disp[d].reply = None
         /\ disp'[d].reply = "Disconnected"
         /\ stage = "serving"
         => connections[disp[d].instance] # disp[d].token
<1>1. ASSUME IInv, [Next]_vars
      PROVE  Harmless
  <2> SUFFICES ASSUME NEW d \in Dispatches, disp[d].reply = None,
                      disp'[d].reply = "Disconnected", stage = "serving"
               PROVE  connections[disp[d].instance] # disp[d].token
    OBVIOUS
  <2>0. disp \in [Dispatches -> DispatchState] /\ disp[d].reply # disp'[d].reply
    BY <1>1, ConstantsAssumption DEF IInv, TypeOK, ErrorKinds
  <2>1. ASSUME NEW e \in Dispatches, DispatchStep(e)
        PROVE  disp'[d].reply = disp[d].reply
    <3>1. CASE e # d
      BY <1>1, <2>1, <3>1, DispatchFrame DEF IInv
    <3>2. CASE e = d
      <4>1. CASE \E kind, identity : Return(d, kind, identity)
        BY <2>0, <4>1 DEF Return, DispatchState
      <4>2. ASSUME NEW action \in Actions, SelectNone(d, action)
            PROVE  disp'[d].reply = disp[d].reply
        BY <2>0, <4>2 DEF SelectNone, DispatchState
      <4>3. ASSUME NEW action \in Actions, SelectEligible(d, action)
            PROVE  disp'[d].reply = disp[d].reply
        <5>1. PICK i, token : disp' = [disp EXCEPT ![d] =
                                         [@ EXCEPT !.phase = "selected", !.action = action,
                                                   !.instance = i, !.token = token]]
          BY <4>3 DEF SelectEligible
        <5> QED
          BY <2>0, <5>1 DEF DispatchState
      <4>4. CASE SendRequest(d)
        BY <2>0, <4>4 DEF SendRequest, DispatchState
      <4>5. CASE InsertPendingIfCurrent(d) /\ connections[disp[d].instance] = disp[d].token
        BY <2>0, <4>5 DEF InsertPendingIfCurrent, DispatchState
      <4>6. CASE InsertPendingIfCurrent(d) /\ connections[disp[d].instance] # disp[d].token
        BY <4>1, <4>6 DEF InsertPendingIfCurrent
      <4>7. CASE SendFailed(d) \/ ReceiveReply(d) \/ TimeOut(d) \/ Cancel(d)
        BY <4>1, <4>7 DEF SendFailed, ReceiveReply, TimeOut, Cancel
      <4> QED
        BY <2>1, <3>2, <4>2, <4>3, <4>4, <4>5, <4>6, <4>7 DEF DispatchStep
    <3> QED
      BY <3>1, <3>2
  <2>2. ASSUME NEW c \in Sockets, FinishRegister(c) \/ DrainOwn(c)
        PROVE  connections[disp[d].instance] # disp[d].token
    <3>1. /\ sock[c].drain # None
          /\ disp[d].token = sock[c].drain
          /\ d \in pending
      <4>1. \/ UNCHANGED disp
            \/ sock[c].drain # None /\ FailPendingForToken(sock[c].drain)
        BY <1>1, <2>2, ConstantsAssumption DEF FinishRegister, DrainOwn, IInv, DrainsReplaced
      <4> QED
        BY <2>0, <4>1 DEF FailPendingForToken, FailPending
    <3>2. disp[d].instance \in Instances
      BY <1>1, <3>1 DEF IInv, SelectionKept, Knows
    <3> QED
      BY <1>1, <3>1, <3>2 DEF IInv, DrainsReplaced
  <2>3. ASSUME NEW c \in Sockets, SocketStep(c), ~(FinishRegister(c) \/ DrainOwn(c))
        PROVE  FALSE
    <3>1. ASSUME NEW e \in Dispatches, NEW reply \in Replies, Resolve(c, e, reply)
          PROVE  disp'[d].reply \in {disp[d].reply, "result", "Protocol"}
      BY <2>0, <3>1 DEF Resolve, DispatchState
    <3>2. UNCHANGED disp \/ \E e \in Dispatches, reply \in Replies : Resolve(c, e, reply)
      BY <2>3
      DEF SocketStep, Register, Refuse, LeaveLoop, DisconnectIfCurrent, AbortWriter,
          WriterForward, WriterFail, EventEmit, SendAck
    <3> QED
      BY <2>0, <3>1, <3>2
  <2>4. CASE ShutdownStep
    BY <2>0, <2>4 DEF ShutdownStep, SignalShutdown, ShutdownClear, ShutdownDrain
  <2> QED
    BY <1>1, <2>0, <2>1, <2>2, <2>3, <2>4 DEF Next, Finished, vars
<1> QED
  BY <1>1, Invariance, PTL DEF Spec, StaleTeardownHarmless
=============================================================================
