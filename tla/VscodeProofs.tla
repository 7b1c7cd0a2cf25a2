---------------------------- MODULE VscodeProofs ----------------------------
(***************************************************************************)
(* Proofs about VscodeSession and VscodeExtension: the attempts to connect *)
(* and the events of a session, and what the commands of the extension may *)
(* do with one.                                                            *)
(***************************************************************************)
EXTENDS VscodeExtension, SequenceTheorems, TLAPS

Unsettled == {"waiting", "resolved", "rejected"}

\* The attempt whose hello waits is the one of the current transport; an unsettled one
\* is the one under way; and a transport that is not connected has an unsettled one.
AttemptsInPlace ==
    /\ attempt[Thrown] = "failed"
    /\ \A a \in Transports :
          /\ attempt[a] = "none" <=> socket[a] = "none"
          /\ attempt[a] = "waiting" <=> hello = a
          /\ attempt[a] \in Unsettled => connecting = a /\ transport \in {a, Undefined}
    /\ hello # Undefined => transport = hello
    /\ transport # Undefined => socket[transport] \in {"opening", "open"}
    /\ transport # Undefined /\ ~connected =>
          connecting = transport /\ attempt[transport] \in Unsettled
    /\ connecting # Undefined => attempt[connecting] # "none"

\* A session that should be connected has a transport or a timer, at any moment.
TransportOrTimer == desired /\ transport = Undefined => reconnectTimer

\* Events leave the chain in the order of their numbers, which are all used up below
\* nextSequence only.
ChainInOrder ==
    /\ \A m, n \in Events :
          m < n /\ event[n] \in {"connecting", "sent", "acked", "failed"} => Settled(m)
    /\ \A n \in Events : n >= nextSequence => event[n] = "none"

SessionInv ==
    /\ TypeOK
    /\ AttemptsInPlace
    /\ NoLeakedSocket
    /\ PendingOnCurrent
    /\ StoppedIsQuiet
    /\ TransportOrTimer
    /\ ChainInOrder

\* With a peer that sends nothing after a hello_ack in one chunk, "connected" means that
\* the hello of the current transport was acknowledged, and nothing but a hello is
\* written before that.
AckedWhenConnected ==
    /\ connected => transport # Undefined /\ attempt[transport] = "ok"
    /\ \A t \in Transports :
          /\ attempt[t] = "resolved" => transport = t /\ chunk = <<>>
          /\ attempt[t] # "ok" => Len(owed[t]) <= 1
          /\ \A i \in 1..Len(owed[t]) : owed[t][i] # 0 => attempt[t] = "ok"
          /\ socket[t] \in {"none", "opening"} =>
                owed[t] = <<>> /\ attempt[t] \notin {"resolved", "ok"}
    /\ chunk # <<>> /\ transport # Undefined => socket[transport] = "open"
    /\ hello # Undefined =>
          \A i \in 1..Len(chunk) : chunk[i].kind = "hello_ack" => Len(chunk) = 1

AckInv == SessionInv /\ (HelloAckAlone => AckedWhenConnected)

\* What a step does to the session, of its own or of a command of the extension.
SessionStep ==
    \/ Continuation \/ HandleFrame
    \/ Callback
    \/ Idle /\ (Start \/ Stop)
    \/ Emit

-----------------------------------------------------------------------------
(***************************************************************************)
(* Types.                                                                  *)
(***************************************************************************)

\* Transports, events and attempts are numbers, and no attempt is Undefined.
LEMMA Numbers ==
    /\ Transports \subseteq Nat /\ Undefined \notin Transports
    /\ Events \subseteq Nat /\ Events \subseteq 0..MaxEvents /\ 0 \in 0..MaxEvents
    /\ Thrown \in Attempts /\ Thrown \notin Transports /\ Undefined \notin Attempts
    /\ Transports \subseteq Attempts
BY BoundsAssumption DEF Transports, Events, Undefined, Thrown, Attempts

\* closeCurrent and handleClose keep the types.
LEMMA CloseTyped ==
    ASSUME TypeOK,
           NEW promises \in
             [Attempts -> {"none", "waiting", "resolved", "rejected", "ok", "failed"}],
           CloseCurrent(promises)
    PROVE  /\ transport' = Undefined /\ connected' = FALSE /\ hello' = Undefined
           /\ attempt' \in
                [Attempts -> {"none", "waiting", "resolved", "rejected", "ok", "failed"}]
           /\ pending' = {}
           /\ event' \in
                [Events -> {"none", "queued", "connecting", "sent", "acked", "failed"}]
BY Numbers DEF TypeOK, CloseCurrent

\* handleClose, of a current transport or of another one, keeps the types.
LEMMA HandleCloseTyped ==
    ASSUME TypeOK, NEW t \in Transports \cup {Undefined}, HandleClose(t)
    PROVE  /\ transport' \in Transports \cup {Undefined}
           /\ connected' \in BOOLEAN /\ reconnectTimer' \in BOOLEAN
           /\ hello' \in Transports \cup {Undefined}
           /\ attempt' \in
                [Attempts -> {"none", "waiting", "resolved", "rejected", "ok", "failed"}]
           /\ pending' \in SUBSET Events
           /\ event' \in
                [Events -> {"none", "queued", "connecting", "sent", "acked", "failed"}]
<1>1. CASE transport = t
  BY <1>1, CloseTyped DEF TypeOK, HandleClose, ScheduleReconnect
<1>2. CASE transport # t
  BY <1>2 DEF TypeOK, HandleClose
<1> QED
  BY <1>1, <1>2

\* So does establish.
LEMMA EstablishTyped ==
    ASSUME TypeOK, NEW timer \in BOOLEAN, Establish(timer)
    PROVE  /\ transport' \in Transports \cup {Undefined}
           /\ hello' \in Transports \cup {Undefined}
           /\ connecting' \in Attempts
           /\ reconnectTimer' \in BOOLEAN
           /\ attempt' \in
                [Attempts -> {"none", "waiting", "resolved", "rejected", "ok", "failed"}]
           /\ socket' \in
                [Transports -> {"none", "opening", "open", "ended", "errored", "closed"}]
<1>1. CASE connecting' = Thrown /\ UNCHANGED <<transport, hello, attempt, socket>>
  BY <1>1, Numbers DEF TypeOK, Establish
<1>2. ASSUME NEW t \in Unused, transport' = t, hello' = t, connecting' = t,
             attempt' = [attempt EXCEPT ![t] = "waiting"],
             socket' = [socket EXCEPT ![t] = "opening"]
      PROVE  /\ transport' \in Transports /\ hello' \in Transports /\ connecting' \in Attempts
             /\ attempt' \in
                  [Attempts -> {"none", "waiting", "resolved", "rejected", "ok", "failed"}]
             /\ socket' \in
                  [Transports -> {"none", "opening", "open", "ended", "errored", "closed"}]
  <2>1. t \in Transports /\ t \in Attempts
    BY Numbers DEF Unused
  <2> QED
    BY <1>2, <2>1 DEF TypeOK
<1>3. reconnectTimer' \in BOOLEAN
  BY DEF Establish
<1> QED
  BY <1>1, <1>2, <1>3 DEF Establish

\* Sending an event or failing it keeps the types.
LEMMA SendTyped ==
    ASSUME TypeOK, NEW n \in Events, Send(n) \/ Fail(n)
    PROVE  /\ pending' \in SUBSET Events
           /\ event' \in
                [Events -> {"none", "queued", "connecting", "sent", "acked", "failed"}]
           /\ owed' \in [Transports -> Seq(0..MaxEvents)]
<1>1. CASE Send(n)
  <2>1. n \in 0..MaxEvents
    BY Numbers
  <2>2. owed' \in [Transports -> Seq(0..MaxEvents)]
    <3>1. CASE transport \in Transports
      <4>1. Append(owed[transport], n) \in Seq(0..MaxEvents)
        BY <2>1, <3>1 DEF TypeOK
      <4> QED
        BY <1>1, <4>1 DEF TypeOK, Send
    <3>2. CASE transport \notin Transports
      <4>1. owed' = owed
        BY <1>1, <3>2 DEF TypeOK, Send
      <4> QED
        BY <4>1 DEF TypeOK
    <3> QED
      BY <3>1, <3>2
  <2> QED
    BY <1>1, <2>2 DEF TypeOK, Send
<1>2. CASE Fail(n)
  BY <1>2 DEF TypeOK, Fail
<1> QED
  BY <1>1, <1>2

\* The sockets after closeCurrent are typed.
LEMMA EndTyped ==
    ASSUME TypeOK
    PROVE  EndCurrent \in
             [Transports -> {"none", "opening", "open", "ended", "errored", "closed"}]
BY DEF TypeOK, EndCurrent

\* Continuations keep the types.
LEMMA ContinuationTypes ==
    ASSUME TypeOK, Continuation
    PROVE  TypeOK'
<1>1. ASSUME NEW a \in Attempts, HelloResolved(a)
      PROVE  TypeOK'
  BY <1>1 DEF HelloResolved, TypeOK, calls, net
<1>2. ASSUME NEW a \in Attempts, HelloRejected(a)
      PROVE  TypeOK'
  <2> DEFINE promises == [attempt EXCEPT ![a] = "failed"]
  <2>1. promises \in [Attempts -> {"none", "waiting", "resolved", "rejected", "ok", "failed"}]
    BY DEF TypeOK
  <2>2. CloseCurrent(promises)
    BY <1>2 DEF HelloRejected
  <2> HIDE DEF promises
  <2> QED
    BY <1>2, <2>1, <2>2, CloseTyped, EndTyped DEF HelloRejected, TypeOK, ScheduleReconnect
<1>3. CASE AttemptFinished
  BY <1>3 DEF AttemptFinished, TypeOK, calls, net
<1>4. ASSUME NEW n \in Events, EmitOne(n)
      PROVE  TypeOK'
  BY <1>4, SendTyped DEF EmitOne, TypeOK, fields
<1>5. ASSUME NEW n \in Events, EmitOneWaits(n)
      PROVE  TypeOK'
  <2>1. CASE MustEstablish
    BY <1>5, <2>1, EstablishTyped DEF EmitOneWaits, TypeOK
  <2>2. CASE ~MustEstablish
    BY <1>5, <2>2 DEF EmitOneWaits, TypeOK
  <2> QED
    BY <2>1, <2>2
<1>6. ASSUME NEW n \in Events, EmitOneResumes(n)
      PROVE  TypeOK'
  BY <1>6, SendTyped DEF EmitOneResumes, TypeOK, fields
<1> QED
  BY <1>1, <1>2, <1>3, <1>4, <1>5, <1>6 DEF Continuation

\* The frames of a chunk keep the types.
LEMMA FrameTypes ==
    ASSUME TypeOK, HandleFrame
    PROVE  TypeOK'
<1>1. chunk # <<>> => Head(chunk) \in Frame /\ Tail(chunk) \in Seq(Frame)
  BY DEF TypeOK
<1>2. CASE HandleHelloFrame
  BY <1>1, <1>2 DEF HandleHelloFrame, TypeOK, calls
<1>3. CASE HandleEventFrame
  <2>1. CASE Head(chunk).kind = "event_ack"
    BY <1>1, <1>3, <2>1 DEF HandleEventFrame, Acknowledge, TypeOK, fields, Frame
  <2>2. CASE Head(chunk).kind # "event_ack"
    BY <1>1, <1>3, <2>2, HandleCloseTyped, EndTyped DEF HandleEventFrame, TypeOK
  <2> QED
    BY <2>1, <2>2
<1> QED
  BY <1>2, <1>3 DEF HandleFrame

\* Callbacks keep the types.
LEMMA CallbackTypes ==
    ASSUME TypeOK, Callback
    PROVE  TypeOK'
<1>1. CASE ReconnectFires
  <2>1. CASE ~desired \/ transport # Undefined \/ connecting # Undefined
    BY <1>1, <2>1 DEF ReconnectFires, TypeOK, calls
  <2>2. CASE ~(~desired \/ transport # Undefined \/ connecting # Undefined)
    BY <1>1, <2>2, EstablishTyped DEF ReconnectFires, TypeOK, calls
  <2> QED
    BY <2>1, <2>2
<1>2. CASE HelloTimesOut
  BY <1>2 DEF HelloTimesOut, TypeOK, calls, net
<1>3. ASSUME NEW n \in Events, EventTimesOut(n)
      PROVE  TypeOK'
  BY <1>3 DEF EventTimesOut, TypeOK, fields, net
<1>4. ASSUME NEW t \in Transports, SocketConnects(t)
      PROVE  TypeOK'
  <2>1. CASE HandleClose(t) /\ UNCHANGED <<desired, connecting, owed>>
    <3>1. socket' \in [Transports -> {"none", "opening", "open", "ended", "errored", "closed"}]
      BY <1>4 DEF SocketConnects, TypeOK
    <3> QED
      BY <1>4, <2>1, <3>1, HandleCloseTyped DEF SocketConnects, TypeOK
  <2>2. CASE /\ UNCHANGED <<fields, pending, event, attempt>>
             /\ owed' \in {owed, [owed EXCEPT ![t] = Append(@, 0)]}
             /\ socket' = [socket EXCEPT ![t] = "open"]
    <3>1. Append(owed[t], 0) \in Seq(0..MaxEvents)
      BY Numbers DEF TypeOK
    <3>2. owed' \in [Transports -> Seq(0..MaxEvents)]
      BY <2>2, <3>1 DEF TypeOK
    <3> QED
      BY <1>4, <2>2, <3>2 DEF SocketConnects, TypeOK, fields
  <2> QED
    BY <1>4, <2>1, <2>2 DEF SocketConnects
<1>5. ASSUME NEW t \in Transports, SocketFails(t) \/ SocketCloses(t)
      PROVE  TypeOK'
  BY <1>5, HandleCloseTyped DEF SocketFails, SocketCloses, TypeOK
<1>6. ASSUME NEW t \in Transports, DataUndecodable(t)
      PROVE  TypeOK'
  BY <1>6, HandleCloseTyped, EndTyped DEF DataUndecodable, TypeOK
<1>7. ASSUME NEW t \in Transports, NEW k \in 0..MaxChunk, NEW refused \in BOOLEAN,
             NEW invalid \in {FALSE, InvalidFrames}, DataArrives(t, k, refused, invalid)
      PROVE  TypeOK'
  <2> DEFINE answers == [i \in 1..k |-> Answer(owed[t][i], refused)]
  <2>1. owed[t] \in Seq(0..MaxEvents) /\ k \in 0..Len(owed[t]) /\ Len(owed[t]) \in Nat
    BY <1>7, BoundsAssumption DEF DataArrives, TypeOK
  <2>2. answers \in Seq(Frame)
    <3>1. ASSUME NEW i \in 1..k
          PROVE  owed[t][i] \in 0..MaxEvents
      <4>1. i \in 1..Len(owed[t])
        BY <2>1
      <4> QED
        BY <2>1, <4>1, ElementOfSeq
    <3>2. \A request \in 0..MaxEvents : Answer(request, refused) \in Frame
      BY Numbers DEF Answer, Frame
    <3>3. answers \in [1..k -> Frame] /\ k \in Nat
      BY <2>1, <3>1, <3>2
    <3> QED
      BY <3>3
  <2>3. Append(answers, Invalid) \in Seq(Frame)
    BY <2>2, Numbers DEF Invalid, Frame
  <2>4. SubSeq(owed[t], k + 1, Len(owed[t])) \in Seq(0..MaxEvents)
    <3>1. ASSUME NEW i \in (k + 1)..Len(owed[t])
          PROVE  owed[t][i] \in 0..MaxEvents
      <4>1. i \in 1..Len(owed[t])
        BY <2>1
      <4> QED
        BY <2>1, <4>1, ElementOfSeq
    <3> QED
      BY <2>1, <3>1, SubSeqProperties
  <2>5. <<>> \in Seq(Frame)
    OBVIOUS
  <2>6. chunk' \in {answers, Append(answers, Invalid), <<>>}
    BY <1>7 DEF DataArrives
  <2> HIDE DEF answers
  <2>7. owed' \in [Transports -> Seq(0..MaxEvents)]
    BY <1>7, <2>4 DEF DataArrives, TypeOK
  <2> QED
    BY <1>7, <2>2, <2>3, <2>5, <2>6, <2>7 DEF DataArrives, TypeOK, fields, calls
<1> QED
  BY <1>1, <1>2, <1>3, <1>4, <1>5, <1>6, <1>7 DEF Callback

\* The calls of the extension keep the types.
LEMMA CallTypes ==
    ASSUME TypeOK, Start \/ Stop \/ Emit
    PROVE  TypeOK'
<1>1. CASE Start
  <2>1. CASE MustEstablish
    BY <1>1, <2>1, EstablishTyped DEF Start, TypeOK, calls
  <2>2. CASE ~MustEstablish
    BY <1>1, <2>2 DEF Start, TypeOK, calls
  <2> QED
    BY <2>1, <2>2
<1>2. CASE Stop
  BY <1>2, CloseTyped, EndTyped DEF Stop, TypeOK
<1>3. CASE Emit
  BY <1>3, Numbers, BoundsAssumption DEF Emit, TypeOK, fields, net, Events
<1> QED
  BY <1>1, <1>2, <1>3

\* Every step keeps the types.
LEMMA StepTypes ==
    ASSUME TypeOK, SessionStep
    PROVE  TypeOK'
BY ContinuationTypes, FrameTypes, CallbackTypes, CallTypes DEF SessionStep

-----------------------------------------------------------------------------
(***************************************************************************)
(* Attempts and transports.                                                *)
(***************************************************************************)

\* What closeCurrent does to the attempts: it rejects the hello that waits, and its
\* caller may be the one that ends a rejected attempt.
LEMMA CloseEffect ==
    ASSUME TypeOK, AttemptsInPlace, NEW promises, CloseCurrent(promises),
           \/ promises = attempt
           \/ \E a \in Attempts : /\ attempt[a] = "rejected"
                                  /\ promises = [attempt EXCEPT ![a] = "failed"]
    PROVE  \A a \in Attempts :
              \/ attempt[a] = "waiting" /\ attempt'[a] = "rejected"
              \/ attempt[a] = "rejected" /\ attempt'[a] = "failed"
              \/ attempt[a] # "waiting" /\ attempt'[a] = attempt[a]
<1>0. /\ DOMAIN attempt = Attempts /\ attempt[Thrown] = "failed"
      /\ \A a \in Attempts : attempt[a] = "waiting" <=> hello # Undefined /\ a = hello
  <2>1. \A a \in Attempts : a \in Transports \/ a = Thrown
    BY DEF Attempts
  <2> QED
    BY <2>1, Numbers DEF TypeOK, AttemptsInPlace
<1>1. CASE promises = attempt
  BY <1>0, <1>1 DEF CloseCurrent
<1>2. ASSUME NEW a \in Attempts, attempt[a] = "rejected",
             promises = [attempt EXCEPT ![a] = "failed"]
      PROVE  \A b \in Attempts :
                \/ attempt[b] = "waiting" /\ attempt'[b] = "rejected"
                \/ attempt[b] = "rejected" /\ attempt'[b] = "failed"
                \/ attempt[b] # "waiting" /\ attempt'[b] = attempt[b]
  BY <1>0, <1>2 DEF CloseCurrent
<1> QED
  BY <1>1, <1>2

\* Closing the current transport leaves no socket open and no hello waiting.
LEMMA CloseKeepsAttempts ==
    ASSUME TypeOK, AttemptsInPlace, NoLeakedSocket,
           transport' = Undefined, hello' = Undefined, connecting' = connecting,
           \A a \in Attempts :
              \/ attempt[a] = "waiting" /\ attempt'[a] = "rejected"
              \/ attempt[a] = "rejected" /\ attempt'[a] = "failed"
              \/ attempt[a] # "waiting" /\ attempt'[a] = attempt[a],
           \A t \in Transports :
              /\ socket'[t] = "none" <=> socket[t] = "none"
              /\ socket'[t] \in {"opening", "open"} =>
                    socket[t] \in {"opening", "open"} /\ t # transport
    PROVE  AttemptsInPlace' /\ NoLeakedSocket'
<1>1. /\ attempt'[Thrown] = "failed"
      /\ \A a \in Attempts : (attempt'[a] = "none" <=> attempt[a] = "none")
      /\ \A a \in Attempts : attempt'[a] # "waiting"
      /\ \A a \in Attempts : attempt'[a] \in Unsettled => attempt[a] \in Unsettled
  BY Numbers DEF AttemptsInPlace, Unsettled
<1>2. connecting # Undefined => connecting \in Attempts
  BY DEF TypeOK
<1> QED
  BY <1>1, <1>2, Numbers DEF AttemptsInPlace, NoLeakedSocket

\* The socket after closeCurrent is not open.
LEMMA EndedSockets ==
    ASSUME TypeOK, socket' = EndCurrent
    PROVE  \A t \in Transports :
              /\ socket'[t] = "none" => socket[t] = "none"
              /\ socket'[t] = "opening" => socket[t] = "opening"
              /\ socket'[t] \in {"opening", "open"} =>
                    socket[t] \in {"opening", "open"} /\ t # transport
              /\ socket[t] = "none" /\ t # transport => socket'[t] = "none"
BY Numbers DEF TypeOK, EndCurrent

\* handleClose of a socket that goes down, current or not.
LEMMA HandleCloseKeepsAttempts ==
    ASSUME TypeOK, AttemptsInPlace, NoLeakedSocket, NEW t \in Transports, HandleClose(t),
           NEW s \in {"ended", "errored", "closed"}, socket' = [socket EXCEPT ![t] = s],
           socket[t] # "none", connecting' = connecting
    PROVE  AttemptsInPlace' /\ NoLeakedSocket'
<1>1. \A u \in Transports :
         /\ socket'[u] = "none" <=> socket[u] = "none"
         /\ socket'[u] \in {"opening", "open"} => u # t /\ socket'[u] = socket[u]
         /\ u # t => socket'[u] = socket[u]
  BY DEF TypeOK
<1>2. CASE transport = t
  <2>1. CloseCurrent(attempt)
    BY <1>2 DEF HandleClose
  <2> QED
    BY <1>1, <1>2, <2>1, CloseEffect, CloseKeepsAttempts DEF CloseCurrent
<1>3. CASE transport # t
  <2>1. UNCHANGED <<transport, connected, hello, attempt>>
    BY <1>3 DEF HandleClose
  <2> QED
    BY <1>1, <1>3, <2>1 DEF AttemptsInPlace, NoLeakedSocket, TypeOK
<1> QED
  BY <1>2, <1>3

\* Nothing is established over a transport, and no attempt is under way then.
LEMMA EstablishKeepsAttempts ==
    ASSUME TypeOK, AttemptsInPlace, NoLeakedSocket, NEW timer, Establish(timer),
           transport = Undefined, connecting = Undefined, connected' = connected
    PROVE  AttemptsInPlace' /\ NoLeakedSocket'
<1>1. CASE connecting' = Thrown /\ UNCHANGED <<transport, hello, attempt, socket>>
  BY <1>1, Numbers DEF AttemptsInPlace, NoLeakedSocket, Unsettled
<1>2. ASSUME NEW t \in Unused, transport' = t, hello' = t, connecting' = t,
             attempt' = [attempt EXCEPT ![t] = "waiting"],
             socket' = [socket EXCEPT ![t] = "opening"]
      PROVE  AttemptsInPlace' /\ NoLeakedSocket'
  <2>1. t \in Transports /\ t \in Attempts /\ socket[t] = "none" /\ t # Thrown
    BY Numbers DEF Unused
  <2>2. \A a \in Transports : attempt[a] \notin Unsettled /\ attempt[a] # "waiting"
    BY Numbers DEF AttemptsInPlace, Unsettled
  <2> QED
    BY <1>2, <2>1, <2>2, Numbers DEF AttemptsInPlace, NoLeakedSocket, TypeOK, Unsettled
<1> QED
  BY <1>1, <1>2 DEF Establish

\* ensureConnected finds an attempt to wait for whenever there is a transport that is
\* not connected.
LEMMA MustEstablishAlone ==
    ASSUME AttemptsInPlace, MustEstablish
    PROVE  transport = Undefined /\ connecting = Undefined
BY DEF AttemptsInPlace, MustEstablish

\* The attempts stay in place in every step.
LEMMA StepKeepsAttempts ==
    ASSUME TypeOK, AttemptsInPlace, NoLeakedSocket, SessionStep
    PROVE  AttemptsInPlace' /\ NoLeakedSocket'
<1> USE DEF fields, calls, net
<1>1. ASSUME NEW a \in Attempts, HelloResolved(a)
      PROVE  AttemptsInPlace' /\ NoLeakedSocket'
  <2>1. /\ attempt[a] = "resolved" /\ a # Thrown
        /\ connecting = a /\ transport \in {a, Undefined}
    <3>1. a # Thrown /\ a \in Transports
      BY <1>1 DEF HelloResolved, AttemptsInPlace, Attempts
    <3> QED
      BY <1>1, <3>1 DEF HelloResolved, AttemptsInPlace, Unsettled
  <2>2. /\ \A b \in Attempts \ {a} : attempt'[b] = attempt[b]
        /\ attempt'[a] = "ok" /\ connected' = TRUE
        /\ UNCHANGED <<transport, hello, connecting, socket>>
    BY <1>1 DEF HelloResolved, TypeOK
  <2> QED
    BY <2>1, <2>2, Numbers DEF AttemptsInPlace, NoLeakedSocket, Unsettled, TypeOK
<1>2. ASSUME NEW a \in Attempts, HelloRejected(a)
      PROVE  AttemptsInPlace' /\ NoLeakedSocket'
  <2> DEFINE promises == [attempt EXCEPT ![a] = "failed"]
  <2>1. attempt[a] = "rejected" /\ CloseCurrent(promises) /\ socket' = EndCurrent
    BY <1>2 DEF HelloRejected
  <2>2. transport' = Undefined /\ hello' = Undefined /\ connecting' = connecting
    BY <1>2 DEF HelloRejected, CloseCurrent
  <2>3. \E b \in Attempts : /\ attempt[b] = "rejected"
                            /\ promises = [attempt EXCEPT ![b] = "failed"]
    BY <2>1
  <2> HIDE DEF promises
  <2>4. \A t \in Transports : t = transport => socket[t] # "none"
    BY Numbers DEF AttemptsInPlace
  <2> QED
    BY <2>1, <2>2, <2>3, <2>4, CloseEffect, EndedSockets, CloseKeepsAttempts
<1>3. CASE AttemptFinished
  BY <1>3, Numbers DEF AttemptFinished, Finished, AttemptsInPlace, NoLeakedSocket, Unsettled
<1>4. ASSUME NEW n \in Events, EmitOne(n) \/ EmitOneResumes(n)
      PROVE  UNCHANGED <<fields, attempt, socket>>
  BY <1>4 DEF EmitOne, EmitOneResumes
<1>5. ASSUME NEW n \in Events, EmitOneWaits(n)
      PROVE  AttemptsInPlace' /\ NoLeakedSocket'
  <2>1. CASE MustEstablish
    BY <1>5, <2>1, MustEstablishAlone, EstablishKeepsAttempts DEF EmitOneWaits
  <2>2. CASE ~MustEstablish
    BY <1>5, <2>2 DEF EmitOneWaits, AttemptsInPlace, NoLeakedSocket
  <2> QED
    BY <2>1, <2>2
<1>6. CASE HandleHelloFrame \/ HelloTimesOut
  <2>1. PICK outcome \in {"resolved", "rejected"} :
           /\ hello # Undefined /\ hello' = Undefined
           /\ attempt' = [attempt EXCEPT ![hello] = outcome]
           /\ UNCHANGED <<connected, transport, connecting, socket>>
    BY <1>6 DEF HandleHelloFrame, HelloTimesOut
  <2>2. hello \in Transports /\ hello \in Attempts /\ attempt[hello] = "waiting"
    BY <2>1, Numbers DEF AttemptsInPlace, TypeOK
  <2>3. /\ \A b \in Attempts \ {hello} : attempt'[b] = attempt[b]
        /\ attempt'[hello] = outcome
    BY <2>1, <2>2 DEF TypeOK
  <2> QED
    BY <2>1, <2>2, <2>3, Numbers DEF AttemptsInPlace, NoLeakedSocket, Unsettled, TypeOK
<1>7. ASSUME HandleClose(transport), socket' = EndCurrent, connecting' = connecting
      PROVE  AttemptsInPlace' /\ NoLeakedSocket'
  <2>1. CloseCurrent(attempt)
    BY <1>7 DEF HandleClose
  <2>2. \A t \in Transports : t = transport => socket[t] # "none"
    BY Numbers DEF AttemptsInPlace
  <2> QED
    BY <1>7, <2>1, <2>2, CloseEffect, EndedSockets, CloseKeepsAttempts DEF CloseCurrent
<1>8. CASE HandleEventFrame
  <2>1. CASE Head(chunk).kind = "event_ack"
    BY <1>8, <2>1 DEF HandleEventFrame, AttemptsInPlace, NoLeakedSocket
  <2>2. CASE Head(chunk).kind # "event_ack"
    BY <1>7, <1>8, <2>2 DEF HandleEventFrame
  <2> QED
    BY <2>1, <2>2
<1>9. CASE ReconnectFires
  <2>1. CASE ~desired \/ transport # Undefined \/ connecting # Undefined
    BY <1>9, <2>1 DEF ReconnectFires, AttemptsInPlace, NoLeakedSocket
  <2>2. CASE ~(~desired \/ transport # Undefined \/ connecting # Undefined)
    BY <1>9, <2>2, EstablishKeepsAttempts DEF ReconnectFires
  <2> QED
    BY <2>1, <2>2
<1>10. ASSUME NEW t \in Transports, SocketConnects(t)
       PROVE  AttemptsInPlace' /\ NoLeakedSocket'
  <2>1. CASE HandleClose(t) /\ socket' = [socket EXCEPT ![t] = "ended"] /\ UNCHANGED connecting
    BY <1>10, <2>1, HandleCloseKeepsAttempts DEF SocketConnects
  <2>2. CASE UNCHANGED <<fields, attempt>> /\ socket' = [socket EXCEPT ![t] = "open"]
    <3>1. socket[t] = "opening" /\ socket'[t] = "open"
          /\ \A u \in Transports \ {t} : socket'[u] = socket[u]
      BY <1>10, <2>2 DEF SocketConnects, TypeOK
    <3> QED
      BY <2>2, <3>1 DEF AttemptsInPlace, NoLeakedSocket, TypeOK
  <2> QED
    BY <1>10, <2>1, <2>2 DEF SocketConnects
<1>11. ASSUME NEW t \in Transports, SocketFails(t) \/ SocketCloses(t)
       PROVE  AttemptsInPlace' /\ NoLeakedSocket'
  BY <1>11, HandleCloseKeepsAttempts DEF SocketFails, SocketCloses
<1>12. ASSUME NEW t \in Transports, DataUndecodable(t)
       PROVE  AttemptsInPlace' /\ NoLeakedSocket'
  BY <1>7, <1>12 DEF DataUndecodable
<1>13. CASE Start
  <2>1. CASE MustEstablish
    BY <1>13, <2>1, MustEstablishAlone, EstablishKeepsAttempts DEF Start
  <2>2. CASE ~MustEstablish
    BY <1>13, <2>2 DEF Start, AttemptsInPlace, NoLeakedSocket
  <2> QED
    BY <2>1, <2>2
<1>14. CASE Stop
  <2>1. CloseCurrent(attempt) /\ socket' = EndCurrent /\ connecting' = connecting
    BY <1>14 DEF Stop
  <2>2. \A t \in Transports : t = transport => socket[t] # "none"
    BY Numbers DEF AttemptsInPlace
  <2> QED
    BY <2>1, <2>2, CloseEffect, EndedSockets, CloseKeepsAttempts DEF CloseCurrent
<1>15. CASE UNCHANGED <<fields, attempt, socket>>
  BY <1>15 DEF AttemptsInPlace, NoLeakedSocket
<1>16. ASSUME NEW n \in Events, EventTimesOut(n)
       PROVE  UNCHANGED <<fields, attempt, socket>>
  BY <1>16 DEF EventTimesOut
<1>17. ASSUME NEW t \in Transports, NEW k \in 0..MaxChunk, NEW refused \in BOOLEAN,
              NEW invalid \in {FALSE, InvalidFrames}, DataArrives(t, k, refused, invalid)
       PROVE  UNCHANGED <<fields, attempt, socket>>
  BY <1>17 DEF DataArrives
<1>18. CASE Emit
  BY <1>15, <1>18 DEF Emit
<1>19. CASE Continuation
  BY <1>1, <1>2, <1>3, <1>4, <1>5, <1>15, <1>19 DEF Continuation
<1>20. CASE Callback
  BY <1>6, <1>9, <1>10, <1>11, <1>12, <1>15, <1>16, <1>17, <1>20 DEF Callback
<1> QED
  BY <1>6, <1>8, <1>13, <1>14, <1>18, <1>19, <1>20 DEF SessionStep, HandleFrame

-----------------------------------------------------------------------------
(***************************************************************************)
(* Events.                                                                 *)
(***************************************************************************)

\* What closing a transport does to the events: those in flight fail with it.
EventsClosed ==
    \/ /\ transport' = Undefined /\ pending' = {}
       /\ event' = [n \in Events |-> IF n \in pending THEN "failed" ELSE event[n]]
    \/ UNCHANGED <<transport, pending, event>>

\* That keeps them in order, and none on a transport that is gone.
LEMMA ClosingKeepsEvents ==
    ASSUME TypeOK, PendingOnCurrent, ChainInOrder, EventsClosed, nextSequence' = nextSequence
    PROVE  PendingOnCurrent' /\ ChainInOrder'
<1>1. CASE UNCHANGED <<transport, pending, event>>
  BY <1>1 DEF PendingOnCurrent, ChainInOrder, Settled
<1>2. CASE /\ transport' = Undefined /\ pending' = {}
           /\ event' = [n \in Events |-> IF n \in pending THEN "failed" ELSE event[n]]
  <2>1. \A n \in Events :
           event'[n] = IF event[n] = "sent" THEN "failed" ELSE event[n]
    BY <1>2 DEF PendingOnCurrent
  <2>2. PendingOnCurrent'
    BY <1>2, <2>1 DEF PendingOnCurrent
  <2> QED
    BY <2>1, <2>2 DEF ChainInOrder, Settled
<1> QED
  BY <1>1, <1>2 DEF EventsClosed

\* An event that leaves the head of the chain is the next one in order.
LEMMA HeadKeepsEvents ==
    ASSUME TypeOK, PendingOnCurrent, ChainInOrder, NEW n \in Events,
           AtHead(n) \/ event[n] \in {"connecting", "sent"},
           NEW outcome \in {"connecting", "sent", "acked", "failed"},
           event' = [event EXCEPT ![n] = outcome],
           pending' = IF outcome = "sent" THEN pending \cup {n} ELSE pending \ {n},
           transport' = transport \/ pending' = {} \/ transport' # Undefined,
           outcome = "sent" => transport' # Undefined,
           nextSequence' = nextSequence
    PROVE  PendingOnCurrent' /\ ChainInOrder'
<1>1. /\ event'[n] = outcome
      /\ \A m \in Events \ {n} : event'[m] = event[m]
  BY DEF TypeOK
<1>2. \A m \in Events : m < n => Settled(m)
  <2>1. \A m \in Events : m < n => m \in 1..(n - 1)
    BY BoundsAssumption DEF Events
  <2> QED
    BY <2>1 DEF AtHead, ChainInOrder
<1>3. event[n] # "none" /\ ~Settled(n)
  BY DEF AtHead, Settled
<1>4. PendingOnCurrent'
  BY <1>1 DEF PendingOnCurrent
<1>5. ASSUME NEW m \in Events, NEW k \in Events, m < k,
             event'[k] \in {"connecting", "sent", "acked", "failed"}
      PROVE  event'[m] \in {"acked", "failed"}
  <2>1. CASE k = n
    <3>1. m # n /\ Settled(m)
      BY <1>2, <1>5, <2>1, BoundsAssumption DEF Events
    <3> QED
      BY <1>1, <3>1 DEF Settled
  <2>2. CASE k # n
    <3>1. Settled(m)
      BY <1>1, <1>5, <2>2 DEF ChainInOrder
    <3>2. m # n
      BY <1>3, <3>1
    <3> QED
      BY <1>1, <3>1, <3>2 DEF Settled
  <2> QED
    BY <2>1, <2>2
<1>6. \A k \in Events : k >= nextSequence => event'[k] = "none"
  BY <1>1, <1>3 DEF ChainInOrder
<1> QED
  BY <1>4, <1>5, <1>6 DEF ChainInOrder, Settled

\* The events stay in order, and on their transport, in every step.
LEMMA StepKeepsEvents ==
    ASSUME TypeOK, AttemptsInPlace, PendingOnCurrent, ChainInOrder, StoppedIsQuiet, SessionStep
    PROVE  PendingOnCurrent' /\ ChainInOrder'
<1> USE DEF fields, calls, net
<1>0. Undefined \notin Transports
  BY Numbers
<1>1. ASSUME NEW timer, Establish(timer), transport = Undefined, UNCHANGED calls
      PROVE  PendingOnCurrent' /\ ChainInOrder'
  BY <1>1 DEF PendingOnCurrent, ChainInOrder, Settled
<1>2. CASE UNCHANGED <<transport, calls>>
  BY <1>2, ClosingKeepsEvents DEF EventsClosed
<1>3. ASSUME NEW t, HandleClose(t)
      PROVE  EventsClosed
  BY <1>3 DEF HandleClose, CloseCurrent, EventsClosed
<1>4. ASSUME NEW a \in Attempts, HelloResolved(a) \/ HelloRejected(a)
      PROVE  EventsClosed /\ nextSequence' = nextSequence
  BY <1>4 DEF HelloResolved, HelloRejected, CloseCurrent, EventsClosed
<1>5. CASE AttemptFinished \/ HelloTimesOut \/ HandleHelloFrame
  BY <1>2, <1>5 DEF AttemptFinished, HelloTimesOut, HandleHelloFrame
<1>6. ASSUME NEW n \in Events, Send(n), AtHead(n) \/ event[n] = "connecting",
             transport # Undefined, UNCHANGED <<transport, nextSequence>>
      PROVE  PendingOnCurrent' /\ ChainInOrder'
  BY <1>6, HeadKeepsEvents DEF Send
<1>7. ASSUME NEW n \in Events, Fail(n), AtHead(n) \/ event[n] = "connecting",
             UNCHANGED <<transport, nextSequence>>
      PROVE  PendingOnCurrent' /\ ChainInOrder'
  <2>1. pending' = pending \ {n}
    BY <1>7 DEF Fail, PendingOnCurrent, AtHead
  <2> QED
    BY <1>7, <2>1, HeadKeepsEvents DEF Fail
<1>8. ASSUME NEW n \in Events, EmitOne(n)
      PROVE  PendingOnCurrent' /\ ChainInOrder'
  BY <1>6, <1>7, <1>8 DEF EmitOne
<1>9. ASSUME NEW n \in Events, EmitOneResumes(n)
      PROVE  PendingOnCurrent' /\ ChainInOrder'
  BY <1>6, <1>7, <1>9 DEF EmitOneResumes
<1>10. ASSUME NEW n \in Events, EmitOneWaits(n)
       PROVE  PendingOnCurrent' /\ ChainInOrder'
  <2>1. pending' = pending \ {n}
    BY <1>10 DEF EmitOneWaits, PendingOnCurrent, AtHead
  <2>2. transport' = transport \/ transport' # Undefined
    BY <1>0, <1>10 DEF EmitOneWaits, Establish, Unused
  <2> QED
    BY <1>10, <2>1, <2>2, HeadKeepsEvents DEF EmitOneWaits
<1>11. CASE HandleEventFrame
  <2> DEFINE n == Head(chunk).no
  <2>1. CASE Head(chunk).kind = "event_ack" /\ n \in pending
    <3>1. n \in Events /\ event[n] = "sent"
      BY <2>1 DEF PendingOnCurrent
    <3>2. /\ pending' = pending \ {n} /\ event' = [event EXCEPT ![n] = "acked"]
          /\ UNCHANGED <<transport, nextSequence>>
      BY <1>11, <2>1 DEF HandleEventFrame, Acknowledge
    <3> HIDE DEF n
    <3> QED
      BY <3>1, <3>2, HeadKeepsEvents
  <2>2. CASE Head(chunk).kind = "event_ack" /\ n \notin pending
    <3>1. UNCHANGED <<transport, pending, event, nextSequence>>
      BY <1>11, <2>2 DEF HandleEventFrame, Acknowledge
    <3> QED
      BY <3>1, ClosingKeepsEvents DEF EventsClosed
  <2>3. CASE Head(chunk).kind # "event_ack"
    BY <1>3, <1>11, <2>3, ClosingKeepsEvents DEF HandleEventFrame
  <2> QED
    BY <2>1, <2>2, <2>3
<1>12. CASE ReconnectFires
  BY <1>1, <1>2, <1>12 DEF ReconnectFires
<1>13. ASSUME NEW n \in Events, EventTimesOut(n)
       PROVE  PendingOnCurrent' /\ ChainInOrder'
  BY <1>13, HeadKeepsEvents DEF EventTimesOut, PendingOnCurrent
<1>14. ASSUME NEW t \in Transports,
              SocketConnects(t) \/ SocketFails(t) \/ SocketCloses(t) \/ DataUndecodable(t)
       PROVE  EventsClosed /\ nextSequence' = nextSequence
  BY <1>3, <1>14
  DEF SocketConnects, SocketFails, SocketCloses, DataUndecodable, EventsClosed
<1>15. ASSUME NEW t \in Transports, NEW k \in 0..MaxChunk, NEW refused \in BOOLEAN,
              NEW invalid \in {FALSE, InvalidFrames}, DataArrives(t, k, refused, invalid)
       PROVE  PendingOnCurrent' /\ ChainInOrder'
  BY <1>2, <1>15 DEF DataArrives
<1>16. CASE Start
  BY <1>1, <1>2, <1>16, MustEstablishAlone DEF Start
<1>17. CASE Stop
  BY <1>17, ClosingKeepsEvents DEF Stop, CloseCurrent, EventsClosed
<1>18. CASE Emit
  <2>1. /\ nextSequence \in Events
        /\ event[nextSequence] = "none"
        /\ event'[nextSequence] = "queued"
        /\ \A n \in Events \ {nextSequence} : event'[n] = event[n]
        /\ nextSequence' = nextSequence + 1
        /\ UNCHANGED <<pending, transport>>
    BY <1>18, Numbers DEF Emit, TypeOK, ChainInOrder
  <2>2. PendingOnCurrent'
    BY <2>1 DEF PendingOnCurrent
  <2>3. ASSUME NEW m \in Events, NEW n \in Events, m < n,
               event'[n] \in {"connecting", "sent", "acked", "failed"}
        PROVE  event'[m] \in {"acked", "failed"}
    BY <2>1, <2>3 DEF ChainInOrder, Settled
  <2>4. \A n \in Events : n >= nextSequence' => event'[n] = "none"
    BY <2>1, Numbers DEF ChainInOrder
  <2> QED
    BY <2>2, <2>3, <2>4 DEF ChainInOrder, Settled
<1>19. CASE Continuation
  BY <1>4, <1>5, <1>8, <1>9, <1>10, <1>19, ClosingKeepsEvents DEF Continuation
<1>20. CASE Callback
  BY <1>5, <1>12, <1>13, <1>14, <1>15, <1>20, ClosingKeepsEvents DEF Callback
<1> QED
  BY <1>5, <1>11, <1>16, <1>17, <1>18, <1>19, <1>20 DEF SessionStep, HandleFrame

-----------------------------------------------------------------------------
(***************************************************************************)
(* Stopping and reconnecting.                                              *)
(***************************************************************************)

\* A transport that goes away leaves a timer behind, if the session should be connected.
LEMMA ClosingSchedules ==
    ASSUME TypeOK, StoppedIsQuiet, TransportOrTimer, desired' = desired,
           \/ /\ transport' = Undefined /\ pending' = {}
              /\ ScheduleReconnect
           \/ UNCHANGED <<transport, pending, reconnectTimer>>
    PROVE  StoppedIsQuiet' /\ TransportOrTimer'
<1>1. CASE UNCHANGED <<transport, pending, reconnectTimer>>
  BY <1>1 DEF StoppedIsQuiet, TransportOrTimer
<1>2. CASE transport' = Undefined /\ pending' = {} /\ ScheduleReconnect
  <2>1. reconnectTimer \in BOOLEAN /\ desired \in BOOLEAN
    BY DEF TypeOK
  <2>2. reconnectTimer' <=> reconnectTimer \/ desired
    BY <1>2 DEF ScheduleReconnect
  <2> QED
    BY <1>2, <2>1, <2>2 DEF StoppedIsQuiet, TransportOrTimer
<1> QED
  BY <1>1, <1>2

\* An attempt to connect is made for a session that should be connected, and ends up
\* with a transport or a timer.
LEMMA EstablishingSchedules ==
    ASSUME NEW timer, Establish(timer), desired', transport = Undefined
    PROVE  StoppedIsQuiet' /\ TransportOrTimer'
<1>1. transport' # Undefined \/ reconnectTimer'
  BY Numbers DEF Establish, Unused
<1> QED
  BY <1>1 DEF StoppedIsQuiet, TransportOrTimer

\* At rest without a transport no attempt is under way: start() makes one.
LEMMA IdleWithoutTransport ==
    ASSUME TypeOK, AttemptsInPlace, Idle, transport = Undefined
    PROVE  connecting = Undefined
<1>1. connecting # Undefined =>
        /\ connecting \in Attempts
        /\ attempt[connecting] \notin {"none", "resolved", "rejected", "ok", "failed"}
  BY DEF AttemptsInPlace, Idle, Ready, Finished, TypeOK
<1>2. connecting # Undefined => attempt[connecting] = "waiting" /\ connecting \in Transports
  BY <1>1 DEF TypeOK, AttemptsInPlace, Attempts
<1> QED
  BY <1>2, Numbers DEF AttemptsInPlace

\* A stopped session stays quiet, and one that is wanted keeps trying, in every step.
LEMMA StepKeepsQuiet ==
    ASSUME TypeOK, AttemptsInPlace, StoppedIsQuiet, TransportOrTimer, SessionStep
    PROVE  StoppedIsQuiet' /\ TransportOrTimer'
<1> USE DEF fields, calls, net
<1>1. ASSUME NEW t, HandleClose(t), desired' = desired
      PROVE  StoppedIsQuiet' /\ TransportOrTimer'
  BY <1>1, ClosingSchedules DEF HandleClose, CloseCurrent
<1>2. CASE UNCHANGED <<desired, transport, pending, reconnectTimer>>
  BY <1>2, ClosingSchedules
<1>3. ASSUME NEW a \in Attempts, HelloResolved(a) \/ HelloRejected(a)
      PROVE  StoppedIsQuiet' /\ TransportOrTimer'
  BY <1>2, <1>3, ClosingSchedules DEF HelloResolved, HelloRejected, CloseCurrent
<1>4. CASE AttemptFinished \/ HelloTimesOut \/ HandleHelloFrame
  BY <1>2, <1>4 DEF AttemptFinished, HelloTimesOut, HandleHelloFrame
<1>5. ASSUME NEW n \in Events, Send(n) \/ Fail(n), UNCHANGED fields, Send(n) => desired
      PROVE  StoppedIsQuiet' /\ TransportOrTimer'
  BY <1>5 DEF Send, Fail, StoppedIsQuiet, TransportOrTimer
<1>6. ASSUME NEW n \in Events, EmitOne(n)
      PROVE  StoppedIsQuiet' /\ TransportOrTimer'
  <2>1. CASE desired /\ Send(n)
    BY <1>5, <1>6, <2>1 DEF EmitOne
  <2>2. CASE Fail(n)
    BY <1>2, <1>6, <2>2 DEF EmitOne, Fail
  <2> QED
    BY <1>6, <2>1, <2>2 DEF EmitOne
<1>7. ASSUME NEW n \in Events, EmitOneResumes(n)
      PROVE  StoppedIsQuiet' /\ TransportOrTimer'
  <2>1. CASE transport # Undefined /\ Send(n)
    BY <1>5, <1>7, <2>1 DEF EmitOneResumes, StoppedIsQuiet
  <2>2. CASE Fail(n)
    BY <1>2, <1>7, <2>2 DEF EmitOneResumes, Fail
  <2> QED
    BY <1>7, <2>1, <2>2 DEF EmitOneResumes
<1>8. ASSUME NEW n \in Events, EmitOneWaits(n)
      PROVE  StoppedIsQuiet' /\ TransportOrTimer'
  BY <1>2, <1>8, EstablishingSchedules, MustEstablishAlone DEF EmitOneWaits
<1>9. CASE HandleEventFrame
  <2>1. CASE Head(chunk).kind = "event_ack"
    BY <1>9, <2>1 DEF HandleEventFrame, Acknowledge, StoppedIsQuiet, TransportOrTimer
  <2>2. CASE Head(chunk).kind # "event_ack"
    BY <1>1, <1>9, <2>2 DEF HandleEventFrame
  <2> QED
    BY <2>1, <2>2
<1>10. CASE ReconnectFires /\ Idle
  <2>1. CASE ~desired \/ transport # Undefined \/ connecting # Undefined
    <3>1. ~desired \/ transport # Undefined
      BY <1>10, <2>1, IdleWithoutTransport
    <3> QED
      BY <1>10, <2>1, <3>1 DEF ReconnectFires, StoppedIsQuiet, TransportOrTimer
  <2>2. CASE ~(~desired \/ transport # Undefined \/ connecting # Undefined)
    BY <1>10, <2>2, EstablishingSchedules DEF ReconnectFires
  <2> QED
    BY <2>1, <2>2
<1>11. ASSUME NEW n \in Events, EventTimesOut(n)
       PROVE  StoppedIsQuiet' /\ TransportOrTimer'
  BY <1>11 DEF EventTimesOut, StoppedIsQuiet, TransportOrTimer
<1>12. ASSUME NEW t \in Transports,
              SocketConnects(t) \/ SocketFails(t) \/ SocketCloses(t) \/ DataUndecodable(t)
       PROVE  StoppedIsQuiet' /\ TransportOrTimer'
  BY <1>1, <1>2, <1>12 DEF SocketConnects, SocketFails, SocketCloses, DataUndecodable
<1>13. ASSUME NEW t \in Transports, NEW k \in 0..MaxChunk, NEW refused \in BOOLEAN,
              NEW invalid \in {FALSE, InvalidFrames}, DataArrives(t, k, refused, invalid)
       PROVE  StoppedIsQuiet' /\ TransportOrTimer'
  BY <1>2, <1>13 DEF DataArrives
<1>14. CASE Start /\ Idle
  <2>1. CASE MustEstablish
    BY <1>14, <2>1, EstablishingSchedules, MustEstablishAlone DEF Start
  <2>2. CASE ~MustEstablish
    <3>1. transport # Undefined
      BY <1>14, <2>2, IdleWithoutTransport DEF MustEstablish
    <3> QED
      BY <1>14, <2>2, <3>1 DEF Start, StoppedIsQuiet, TransportOrTimer
  <2> QED
    BY <2>1, <2>2
<1>15. CASE Stop
  BY <1>15 DEF Stop, CloseCurrent, StoppedIsQuiet, TransportOrTimer
<1>16. CASE Emit
  BY <1>2, <1>16 DEF Emit
<1>17. CASE Continuation
  BY <1>3, <1>4, <1>6, <1>7, <1>8, <1>17 DEF Continuation
<1>18. CASE Callback
  BY <1>4, <1>10, <1>11, <1>12, <1>13, <1>18 DEF Callback
<1> QED
  BY <1>4, <1>9, <1>14, <1>15, <1>16, <1>17, <1>18 DEF SessionStep, HandleFrame

-----------------------------------------------------------------------------
(***************************************************************************)
(* The session invariant.                                                  *)
(***************************************************************************)

\* A session starts in order.
LEMMA InitSession ==
    Init => SessionInv
<1> SUFFICES ASSUME Init
             PROVE  SessionInv
  OBVIOUS
<1>1. TypeOK
  <2>1. owed \in [Transports -> Seq(0..MaxEvents)] /\ chunk \in Seq(Frame)
    BY DEF Init
  <2>2. nextSequence \in 1..(MaxEvents + 1) /\ pending \in SUBSET Events
    BY BoundsAssumption DEF Init
  <2>3. /\ attempt \in
             [Attempts -> {"none", "waiting", "resolved", "rejected", "ok", "failed"}]
        /\ event \in [Events -> {"none", "queued", "connecting", "sent", "acked", "failed"}]
        /\ awaited \in [Events -> Attempts \cup {Undefined}]
        /\ socket \in
             [Transports -> {"none", "opening", "open", "ended", "errored", "closed"}]
    BY DEF Init
  <2> QED
    BY <2>1, <2>2, <2>3 DEF Init, TypeOK
<1>2. AttemptsInPlace /\ NoLeakedSocket
  BY Numbers DEF Init, AttemptsInPlace, NoLeakedSocket, Unsettled
<1>3. PendingOnCurrent /\ StoppedIsQuiet /\ TransportOrTimer /\ ChainInOrder
  BY DEF Init, PendingOnCurrent, StoppedIsQuiet, TransportOrTimer, ChainInOrder, Settled
<1> QED
  BY <1>1, <1>2, <1>3 DEF SessionInv

\* Every step keeps it in order.
LEMMA StepKeepsSession ==
    ASSUME SessionInv, SessionStep
    PROVE  SessionInv'
BY StepTypes, StepKeepsAttempts, StepKeepsEvents, StepKeepsQuiet DEF SessionInv

-----------------------------------------------------------------------------
(***************************************************************************)
(* Connected means acknowledged.                                           *)
(***************************************************************************)

\* Closing the current transport ends no attempt that is resolved, and sends nothing.
LEMMA CloseKeepsAcked ==
    ASSUME TypeOK, AckedWhenConnected, \A t \in Transports : attempt[t] # "resolved",
           transport' = Undefined, connected' = FALSE, hello' = Undefined, owed' = owed,
           \A a \in Attempts :
              \/ attempt[a] = "waiting" /\ attempt'[a] = "rejected"
              \/ attempt[a] = "rejected" /\ attempt'[a] = "failed"
              \/ attempt[a] # "waiting" /\ attempt'[a] = attempt[a],
           \A t \in Transports :
              socket'[t] \in {"none", "opening"} => socket[t] \in {"none", "opening"}
    PROVE  AckedWhenConnected'
<1>1. \A t \in Transports : /\ attempt'[t] = "ok" <=> attempt[t] = "ok"
                            /\ attempt'[t] # "resolved"
  BY Numbers
<1> QED
  BY <1>1 DEF AckedWhenConnected

\* So does handleClose, between two callbacks.
LEMMA HandleCloseKeepsAcked ==
    ASSUME TypeOK, AttemptsInPlace, AckedWhenConnected, Idle, chunk' = chunk, owed' = owed,
           NEW t \in Transports, HandleClose(t),
           \A u \in Transports :
              /\ socket'[u] \in {"none", "opening"} => socket[u] \in {"none", "opening"}
              /\ u # t => socket'[u] = socket[u]
    PROVE  AckedWhenConnected'
<1>1. chunk = <<>> /\ \A a \in Attempts : attempt[a] # "resolved"
  BY DEF Idle, Ready
<1>2. CASE transport = t
  <2>1. CloseCurrent(attempt)
    BY <1>2 DEF HandleClose
  <2> QED
    BY <1>1, <2>1, CloseEffect, CloseKeepsAcked, Numbers DEF CloseCurrent
<1>3. CASE transport # t
  <2>1. UNCHANGED <<transport, connected, hello, attempt>>
    BY <1>3 DEF HandleClose
  <2> QED
    BY <1>1, <1>3, <2>1 DEF AckedWhenConnected
<1> QED
  BY <1>2, <1>3

\* A new attempt starts with nothing written and nothing received.
LEMMA EstablishKeepsAcked ==
    ASSUME TypeOK, AttemptsInPlace, AckedWhenConnected, NEW timer, Establish(timer),
           transport = Undefined, connecting = Undefined, connected' = connected,
           owed' = owed, chunk = <<>>, chunk' = chunk
    PROVE  AckedWhenConnected'
<1>1. ~connected /\ \A a \in Transports : attempt[a] \notin Unsettled
  BY Numbers DEF AttemptsInPlace, AckedWhenConnected
<1>2. CASE UNCHANGED <<transport, hello, attempt, socket>>
  BY <1>2 DEF AckedWhenConnected
<1>3. ASSUME NEW t \in Unused, transport' = t, hello' = t,
             attempt' = [attempt EXCEPT ![t] = "waiting"],
             socket' = [socket EXCEPT ![t] = "opening"]
      PROVE  AckedWhenConnected'
  <2>1. t \in Transports /\ t \in Attempts /\ socket[t] = "none"
    BY Numbers DEF Unused
  <2>2. /\ attempt'[t] = "waiting" /\ socket'[t] = "opening"
        /\ \A u \in Transports \ {t} : attempt'[u] = attempt[u] /\ socket'[u] = socket[u]
    BY <1>3, <2>1, Numbers DEF TypeOK
  <2>3. owed[t] = <<>> /\ \A u \in Transports : attempt[u] # "resolved"
    BY <1>1, <2>1 DEF AckedWhenConnected, Unsettled
  <2> QED
    BY <1>1, <2>1, <2>2, <2>3 DEF AckedWhenConnected
<1> QED
  BY <1>2, <1>3 DEF Establish

\* An event is written to the connected transport, whose hello is acknowledged.
LEMMA SendKeepsAcked ==
    ASSUME TypeOK, AckedWhenConnected, NEW n \in Events, Send(n), transport # Undefined,
           connected, UNCHANGED <<fields, attempt, socket, chunk>>
    PROVE  AckedWhenConnected'
<1>1. transport \in Transports /\ attempt[transport] = "ok"
  BY DEF TypeOK, AckedWhenConnected
<1>2. \A t \in Transports \ {transport} : owed'[t] = owed[t]
  BY DEF Send, TypeOK
<1>3. socket[transport] \notin {"none", "opening"}
  BY <1>1 DEF AckedWhenConnected
<1> QED
  BY <1>1, <1>2, <1>3 DEF AckedWhenConnected, fields

\* The first answer of a chunk is the one of the hello, and then it is the only one.
LEMMA DataKeepsAcked ==
    ASSUME HelloAckAlone, TypeOK, AttemptsInPlace, AckedWhenConnected, Idle,
           NEW t \in Transports, NEW k \in 0..MaxChunk, NEW refused \in BOOLEAN,
           NEW invalid \in {FALSE, InvalidFrames}, DataArrives(t, k, refused, invalid)
    PROVE  AckedWhenConnected'
<1> USE DEF fields, calls
<1>1. \A a \in Attempts : attempt[a] # "resolved"
  BY DEF Idle, Ready
<1>2. /\ owed[t] \in Seq(0..MaxEvents) /\ Len(owed[t]) \in Nat
      /\ k \in Nat /\ k <= Len(owed[t])
      /\ socket[t] \in {"open", "ended"}
      /\ UNCHANGED <<fields, attempt, socket>>
  BY BoundsAssumption DEF DataArrives, TypeOK
<1> DEFINE rest == SubSeq(owed[t], k + 1, Len(owed[t]))
<1>3. /\ Len(rest) <= Len(owed[t])
      /\ \A i \in 1..Len(rest) : \E j \in 1..Len(owed[t]) : rest[i] = owed[t][j]
  <2>1. \A i \in (k + 1)..Len(owed[t]) : i \in 1..Len(owed[t])
    BY <1>2
  <2>2. \A i \in (k + 1)..Len(owed[t]) : owed[t][i] \in 0..MaxEvents
    BY <1>2, <2>1, ElementOfSeq
  <2>3. /\ Len(rest) = IF k + 1 <= Len(owed[t]) THEN Len(owed[t]) - k ELSE 0
        /\ \A i \in 1..(Len(owed[t]) - k) : rest[i] = owed[t][k + i]
    BY <1>2, <2>2, SubSeqProperties
  <2> HIDE DEF rest
  <2>4. \A i \in 1..Len(rest) : k + i \in 1..Len(owed[t]) /\ i \in 1..(Len(owed[t]) - k)
    BY <1>2, <2>3
  <2> QED
    BY <1>2, <2>3, <2>4
<1>4. owed' = [owed EXCEPT ![t] = rest]
  BY DEF DataArrives
<1> HIDE DEF rest
<1>5. /\ owed'[t] = rest
      /\ \A u \in Transports \ {t} : owed'[u] = owed[u]
  BY <1>4 DEF TypeOK
<1>6. \A u \in Transports :
         /\ attempt[u] = "resolved" => transport = u /\ chunk' = <<>>
         /\ attempt[u] # "ok" => Len(owed'[u]) <= 1
         /\ \A i \in 1..Len(owed'[u]) : owed'[u][i] # 0 => attempt[u] = "ok"
         /\ socket[u] \in {"none", "opening"} =>
               owed'[u] = <<>> /\ attempt[u] \notin {"resolved", "ok"}
  <2>1. attempt[t] # "ok" => Len(rest) <= 1
    BY <1>2, <1>3, Numbers DEF AckedWhenConnected
  <2>2. \A i \in 1..Len(rest) : rest[i] # 0 => attempt[t] = "ok"
    BY <1>3 DEF AckedWhenConnected
  <2>3. ASSUME NEW u \in Transports, u # t
        PROVE  /\ attempt[u] = "resolved" => transport = u /\ chunk' = <<>>
               /\ attempt[u] # "ok" => Len(owed'[u]) <= 1
               /\ \A i \in 1..Len(owed'[u]) : owed'[u][i] # 0 => attempt[u] = "ok"
               /\ socket[u] \in {"none", "opening"} =>
                     owed'[u] = <<>> /\ attempt[u] \notin {"resolved", "ok"}
    BY <1>1, <1>5, <2>3, Numbers DEF AckedWhenConnected
  <2> QED
    BY <1>1, <1>2, <1>5, <2>1, <2>2, <2>3, Numbers
<1>7. chunk' # <<>> /\ transport # Undefined => socket[transport] = "open"
  BY <1>2 DEF DataArrives, AttemptsInPlace
<1>8. ASSUME hello # Undefined, NEW i \in 1..Len(chunk'), chunk'[i].kind = "hello_ack"
      PROVE  Len(chunk') = 1
  <2> DEFINE answers == [j \in 1..k |-> Answer(owed[t][j], refused)]
  <2>1. CASE transport # t
    <3>1. chunk' = <<>>
      BY <2>1 DEF DataArrives
    <3> QED
      BY <1>8, <3>1
  <2>2. CASE transport = t /\ ~invalid
    <3>1. attempt[t] = "waiting"
      BY <1>8, <2>2 DEF AttemptsInPlace
    <3>2. k <= 1
      BY <1>2, <3>1 DEF AckedWhenConnected
    <3>3. chunk' = answers
      BY <2>2 DEF DataArrives
    <3>4. Len(answers) = k
      BY <1>2
    <3> HIDE DEF answers
    <3> QED
      BY <1>2, <1>8, <3>2, <3>3, <3>4
  <2>3. CASE transport = t /\ invalid
    <3>1. /\ chunk' = Append(answers, Invalid)
          /\ \A j \in 1..k : answers[j].kind # "hello_ack"
      BY <2>3 DEF DataArrives
    <3>2. answers \in Seq({answers[j] : j \in 1..k}) /\ Len(answers) = k
      BY <1>2
    <3> HIDE DEF answers
    <3>3. /\ Len(chunk') = k + 1 /\ chunk'[k + 1] = Invalid
          /\ \A j \in 1..k : chunk'[j] = answers[j]
      BY <1>2, <3>1, <3>2
    <3>4. i \in 1..k \/ i = k + 1
      BY <1>2, <1>8, <3>3
    <3> QED
      BY <1>8, <3>1, <3>3, <3>4 DEF Invalid
  <2>4. invalid \in BOOLEAN
    BY BoundsAssumption
  <2> QED
    BY <2>1, <2>2, <2>3, <2>4
<1>9. connected => transport # Undefined /\ attempt[transport] = "ok"
  BY DEF AckedWhenConnected
<1> QED
  BY <1>2, <1>6, <1>7, <1>8, <1>9 DEF AckedWhenConnected

\* With such a peer every step keeps "connected" true to its name.
LEMMA StepKeepsAcked ==
    ASSUME HelloAckAlone, SessionInv, AckedWhenConnected, SessionStep
    PROVE  AckedWhenConnected'
<1> USE DEF fields, calls, net
<1>0. TypeOK /\ AttemptsInPlace
  BY DEF SessionInv
<1>1. ASSUME NEW a \in Attempts, HelloResolved(a), chunk = <<>>
      PROVE  AckedWhenConnected'
  <2>1. a \in Transports /\ attempt[a] = "resolved" /\ transport = a
    BY <1>0, <1>1 DEF HelloResolved, AttemptsInPlace, Attempts, AckedWhenConnected
  <2>2. /\ attempt'[a] = "ok" /\ connected' = TRUE
        /\ \A b \in Transports \ {a} : attempt'[b] = attempt[b]
        /\ UNCHANGED <<transport, hello, socket, owed, chunk>>
    BY <1>0, <1>1, Numbers DEF HelloResolved, TypeOK
  <2>3. \A b \in Transports \ {a} : attempt[b] # "resolved"
    BY <2>1 DEF AckedWhenConnected
  <2> QED
    BY <1>1, <2>1, <2>2, <2>3, Numbers DEF AckedWhenConnected
<1>2. ASSUME NEW a \in Attempts, HelloRejected(a), chunk = <<>>
      PROVE  AckedWhenConnected'
  <2> DEFINE promises == [attempt EXCEPT ![a] = "failed"]
  <2>1. /\ attempt[a] = "rejected" /\ CloseCurrent(promises) /\ socket' = EndCurrent
        /\ owed' = owed
    BY <1>2 DEF HelloRejected
  <2>2. \E b \in Attempts : /\ attempt[b] = "rejected"
                            /\ promises = [attempt EXCEPT ![b] = "failed"]
    BY <2>1
  <2>3. transport' = Undefined /\ connected' = FALSE /\ hello' = Undefined
    BY <2>1 DEF CloseCurrent
  <2> HIDE DEF promises
  <2>4. \A t \in Transports : attempt[t] # "resolved"
    <3>1. a \in Transports
      BY <1>0, <2>1 DEF AttemptsInPlace, Attempts
    <3> QED
      BY <1>0, <2>1, <3>1 DEF AttemptsInPlace, Unsettled
  <2>5. \A t \in Transports : t = transport => socket[t] # "none"
    BY <1>0, Numbers DEF AttemptsInPlace
  <2>6. \A t \in Transports :
           socket'[t] \in {"none", "opening"} => socket[t] \in {"none", "opening"}
    BY <1>0, <2>1, EndedSockets
  <2>7. \A b \in Attempts :
           \/ attempt[b] = "waiting" /\ attempt'[b] = "rejected"
           \/ attempt[b] = "rejected" /\ attempt'[b] = "failed"
           \/ attempt[b] # "waiting" /\ attempt'[b] = attempt[b]
    BY <1>0, <2>1, <2>2, CloseEffect
  <2> QED
    BY <1>0, <2>1, <2>3, <2>4, <2>6, <2>7, CloseKeepsAcked
<1>3. CASE UNCHANGED <<connected, transport, hello, attempt, net>>
  BY <1>3 DEF AckedWhenConnected
<1>4. ASSUME NEW n \in Events, EmitOne(n) \/ EmitOneResumes(n), chunk = <<>>
      PROVE  AckedWhenConnected'
  <2>1. CASE Send(n) /\ transport # Undefined /\ connected
    BY <1>0, <1>4, <2>1, SendKeepsAcked DEF EmitOne, EmitOneResumes
  <2>2. CASE Fail(n)
    BY <1>3, <1>4, <2>2 DEF EmitOne, EmitOneResumes, Fail
  <2> QED
    BY <1>4, <2>1, <2>2 DEF EmitOne, EmitOneResumes
<1>5. ASSUME NEW n \in Events, EmitOneWaits(n), chunk = <<>>
      PROVE  AckedWhenConnected'
  <2>1. CASE MustEstablish
    BY <1>0, <1>5, <2>1, MustEstablishAlone, EstablishKeepsAcked DEF EmitOneWaits
  <2>2. CASE ~MustEstablish
    BY <1>3, <1>5, <2>2 DEF EmitOneWaits
  <2> QED
    BY <2>1, <2>2
<1>6. CASE HandleHelloFrame
  <2>1. /\ hello \in Transports /\ hello \in Attempts /\ transport = hello
        /\ attempt[hello] = "waiting"
    BY <1>0, <1>6, Numbers DEF HandleHelloFrame, AttemptsInPlace, TypeOK
  <2>2. /\ \A b \in Transports \ {hello} : attempt'[b] = attempt[b]
        /\ attempt'[hello] =
             IF Head(chunk).kind = "hello_ack" THEN "resolved" ELSE "rejected"
        /\ hello' = Undefined
        /\ UNCHANGED <<connected, transport, socket, owed>>
    BY <1>0, <1>6, <2>1, Numbers DEF HandleHelloFrame, TypeOK
  <2>3. chunk \in Seq(Frame) /\ chunk # <<>> /\ chunk' = Tail(chunk)
    BY <1>0, <1>6 DEF HandleHelloFrame, TypeOK
  <2>4. Head(chunk) = chunk[1] /\ 1 \in 1..Len(chunk) /\ (Len(chunk) = 1 => Tail(chunk) = <<>>)
    BY <2>3
  <2>5. attempt'[hello] = "resolved" => chunk' = <<>>
    BY <1>0, <2>1, <2>2, <2>3, <2>4, Numbers DEF AckedWhenConnected
  <2>6. \A b \in Transports : attempt[b] # "resolved"
    BY <2>3 DEF AckedWhenConnected
  <2>7. socket[hello] = "open"
    BY <2>1, <2>3, Numbers DEF AckedWhenConnected
  <2> QED
    BY <2>1, <2>2, <2>3, <2>5, <2>6, <2>7, Numbers DEF AckedWhenConnected
<1>7. CASE HelloTimesOut /\ Idle
  <2>1. hello \in Transports /\ hello \in Attempts /\ attempt[hello] = "waiting"
    BY <1>0, <1>7, Numbers DEF HelloTimesOut, AttemptsInPlace, TypeOK
  <2>2. /\ \A b \in Transports \ {hello} : attempt'[b] = attempt[b]
        /\ attempt'[hello] = "rejected" /\ hello' = Undefined
        /\ UNCHANGED <<connected, transport, net>>
    BY <1>0, <1>7, <2>1, Numbers DEF HelloTimesOut, TypeOK
  <2>3. chunk' = <<>> /\ \A b \in Transports : attempt[b] # "resolved"
    BY <1>7, Numbers DEF HelloTimesOut, Idle, Ready
  <2>4. /\ \A b \in Transports : /\ attempt'[b] = "ok" <=> attempt[b] = "ok"
                                 /\ attempt'[b] # "resolved"
        /\ connected' = connected /\ transport' = transport
        /\ owed' = owed /\ socket' = socket
    BY <2>1, <2>2, <2>3, Numbers
  <2> QED
    BY <1>0, <2>2, <2>3, <2>4, Numbers DEF AckedWhenConnected, TypeOK
<1>8. ASSUME HandleClose(transport), socket' = EndCurrent, owed' = owed,
             \A t \in Transports : attempt[t] # "resolved"
      PROVE  AckedWhenConnected'
  <2>1. CloseCurrent(attempt)
    BY <1>8 DEF HandleClose
  <2>2. transport' = Undefined /\ connected' = FALSE /\ hello' = Undefined
    BY <2>1 DEF CloseCurrent
  <2>3. \A t \in Transports :
           socket'[t] \in {"none", "opening"} => socket[t] \in {"none", "opening"}
    BY <1>0, <1>8, EndedSockets
  <2>4. \A b \in Attempts :
           \/ attempt[b] = "waiting" /\ attempt'[b] = "rejected"
           \/ attempt[b] = "rejected" /\ attempt'[b] = "failed"
           \/ attempt[b] # "waiting" /\ attempt'[b] = attempt[b]
    BY <1>0, <2>1, CloseEffect
  <2> QED
    BY <1>0, <1>8, <2>2, <2>3, <2>4, CloseKeepsAcked
<1>9. CASE HandleEventFrame
  <2>1. chunk # <<>> /\ \A t \in Transports : attempt[t] # "resolved"
    BY <1>9 DEF HandleEventFrame, AckedWhenConnected
  <2>2. CASE Head(chunk).kind = "event_ack"
    BY <1>9, <2>1, <2>2 DEF HandleEventFrame, AckedWhenConnected
  <2>3. CASE Head(chunk).kind # "event_ack"
    BY <1>8, <1>9, <2>1, <2>3 DEF HandleEventFrame
  <2> QED
    BY <2>2, <2>3
<1>10. ASSUME Idle
       PROVE  chunk = <<>> /\ \A t \in Transports : attempt[t] # "resolved"
  BY <1>10, Numbers DEF Idle, Ready
<1>11. CASE ReconnectFires /\ Idle
  <2>1. CASE ~desired \/ transport # Undefined \/ connecting # Undefined
    BY <1>3, <1>11, <2>1 DEF ReconnectFires
  <2>2. CASE ~(~desired \/ transport # Undefined \/ connecting # Undefined)
    BY <1>0, <1>10, <1>11, <2>2, EstablishKeepsAcked DEF ReconnectFires
  <2> QED
    BY <2>1, <2>2
<1>12. ASSUME NEW t \in Transports, SocketConnects(t), Idle
       PROVE  AckedWhenConnected'
  <2>1. CASE HandleClose(t) /\ socket' = [socket EXCEPT ![t] = "ended"] /\ UNCHANGED owed
    <3>1. \A u \in Transports :
             /\ socket'[u] \in {"none", "opening"} => socket[u] \in {"none", "opening"}
             /\ u # t => socket'[u] = socket[u]
      BY <1>0, <2>1 DEF TypeOK
    <3> QED
      BY <1>0, <1>12, <2>1, <3>1, HandleCloseKeepsAcked DEF SocketConnects
  <2>2. CASE /\ UNCHANGED <<fields, attempt, chunk>>
             /\ owed' \in {owed, [owed EXCEPT ![t] = Append(@, 0)]}
             /\ socket' = [socket EXCEPT ![t] = "open"]
    <3>1. owed[t] = <<>> /\ attempt[t] \notin {"resolved", "ok"}
      BY <1>12 DEF SocketConnects, AckedWhenConnected
    <3>2. /\ owed'[t] \in {<<>>, <<0>>}
          /\ \A u \in Transports \ {t} : owed'[u] = owed[u] /\ socket'[u] = socket[u]
          /\ socket'[t] = "open"
      BY <1>0, <2>2, <3>1 DEF TypeOK
    <3>3. Len(owed'[t]) <= 1 /\ \A i \in 1..Len(owed'[t]) : owed'[t][i] = 0
      <4>1. Len(<<>>) = 0 /\ Len(<<0>>) = 1 /\ <<0>>[1] = 0
        OBVIOUS
      <4>2. CASE owed'[t] = <<>>
        BY <4>1, <4>2
      <4>3. CASE owed'[t] = <<0>>
        BY <4>1, <4>3
      <4> QED
        BY <3>2, <4>2, <4>3
    <3> QED
      BY <1>10, <1>12, <2>2, <3>1, <3>2, <3>3 DEF AckedWhenConnected
  <2> QED
    BY <1>12, <2>1, <2>2 DEF SocketConnects
<1>13. ASSUME NEW t \in Transports, SocketFails(t) \/ SocketCloses(t), Idle
       PROVE  AckedWhenConnected'
  <2>1. PICK s \in {"errored", "closed"} : socket' = [socket EXCEPT ![t] = s]
    BY <1>13 DEF SocketFails, SocketCloses
  <2>2. \A u \in Transports :
           /\ socket'[u] \in {"none", "opening"} => socket[u] \in {"none", "opening"}
           /\ u # t => socket'[u] = socket[u]
    BY <1>0, <2>1 DEF TypeOK
  <2> QED
    BY <1>0, <1>13, <2>2, HandleCloseKeepsAcked DEF SocketFails, SocketCloses
<1>14. ASSUME NEW t \in Transports, DataUndecodable(t), Idle
       PROVE  AckedWhenConnected'
  BY <1>8, <1>10, <1>14 DEF DataUndecodable
<1>15. ASSUME NEW n \in Events, EventTimesOut(n)
       PROVE  AckedWhenConnected'
  BY <1>3, <1>15 DEF EventTimesOut
<1>16. CASE Start /\ Idle
  <2>1. CASE MustEstablish
    BY <1>0, <1>10, <1>16, <2>1, MustEstablishAlone, EstablishKeepsAcked DEF Start
  <2>2. CASE ~MustEstablish
    BY <1>3, <1>16, <2>2 DEF Start
  <2> QED
    BY <2>1, <2>2
<1>17. CASE Stop /\ Idle
  <2>1. CloseCurrent(attempt) /\ socket' = EndCurrent /\ owed' = owed
    BY <1>17 DEF Stop
  <2>2. transport' = Undefined /\ connected' = FALSE /\ hello' = Undefined
    BY <2>1 DEF CloseCurrent
  <2>3. \A t \in Transports :
           socket'[t] \in {"none", "opening"} => socket[t] \in {"none", "opening"}
    BY <1>0, <2>1, EndedSockets
  <2>4. \A b \in Attempts :
           \/ attempt[b] = "waiting" /\ attempt'[b] = "rejected"
           \/ attempt[b] = "rejected" /\ attempt'[b] = "failed"
           \/ attempt[b] # "waiting" /\ attempt'[b] = attempt[b]
    BY <1>0, <2>1, CloseEffect
  <2> QED
    BY <1>0, <1>10, <1>17, <2>1, <2>2, <2>3, <2>4, CloseKeepsAcked
<1>18. CASE AttemptFinished \/ Emit
  BY <1>3, <1>18 DEF AttemptFinished, Emit
<1>19. CASE Continuation
  BY <1>1, <1>2, <1>4, <1>5, <1>18, <1>19 DEF Continuation
<1>20. CASE Callback
  BY <1>0, <1>7, <1>11, <1>12, <1>13, <1>14, <1>15, <1>20, DataKeepsAcked DEF Callback
<1> QED
  BY <1>6, <1>9, <1>16, <1>17, <1>18, <1>19, <1>20 DEF SessionStep, HandleFrame

-----------------------------------------------------------------------------
(***************************************************************************)
(* What a session promises.                                                *)
(***************************************************************************)

\* A session starts with the invariant.
LEMMA InitAck ==
    Init => AckInv
<1> SUFFICES ASSUME Init
             PROVE  AckInv
  OBVIOUS
<1>1. SessionInv
  BY InitSession
<1>2. AckedWhenConnected
  <2>1. \A t \in Transports : owed[t] = <<>> /\ attempt[t] = "none" /\ Len(<<>>) = 0
    BY Numbers DEF Init
  <2>2. chunk = <<>> /\ hello = Undefined /\ connected = FALSE
    BY DEF Init
  <2> QED
    BY <2>1, <2>2 DEF AckedWhenConnected
<1> QED
  BY <1>1, <1>2 DEF AckInv

\* Every step keeps it, and so does a step of somebody else.
LEMMA StepKeepsAck ==
    ASSUME AckInv, SessionStep \/ UNCHANGED vars
    PROVE  AckInv'
<1>1. CASE SessionStep
  BY <1>1, StepKeepsSession, StepKeepsAcked DEF AckInv
<1>2. CASE UNCHANGED vars
  <2>1. UNCHANGED <<desired, connected, transport, hello, connecting, reconnectTimer, pending,
                    nextSequence, event, awaited, attempt, socket, owed, chunk>>
    BY <1>2 DEF vars, fields, calls, net
  <2>2. TypeOK' /\ AttemptsInPlace' /\ NoLeakedSocket'
    BY <2>1 DEF AckInv, SessionInv, TypeOK, AttemptsInPlace, NoLeakedSocket
  <2>3. PendingOnCurrent' /\ StoppedIsQuiet' /\ TransportOrTimer' /\ ChainInOrder'
    BY <2>1 DEF AckInv, SessionInv, PendingOnCurrent, StoppedIsQuiet, TransportOrTimer,
                ChainInOrder, Settled
  <2>4. HelloAckAlone => AckedWhenConnected'
    BY <2>1 DEF AckInv, AckedWhenConnected
  <2> QED
    BY <2>2, <2>3, <2>4 DEF AckInv, SessionInv
<1> QED
  BY <1>1, <1>2

\* The properties of a session all follow from its invariant.
LEMMA InvImplies ==
    ASSUME AckInv
    PROVE  /\ TypeOK /\ PendingOnCurrent /\ NoLeakedSocket /\ OneAttemptAtATime
           /\ StoppedIsQuiet /\ ReconnectArmed
           /\ HelloAckAlone => EventsInOrder
<1>1. OneAttemptAtATime
  BY DEF AckInv, SessionInv, AttemptsInPlace, OneAttemptAtATime, Unsettled
<1>2. ReconnectArmed
  BY DEF AckInv, SessionInv, TransportOrTimer, ReconnectArmed
<1>3. ASSUME HelloAckAlone
      PROVE  EventsInOrder
  <2>1. \A t \in Transports : DOMAIN owed[t] = 1..Len(owed[t])
    BY DEF AckInv, SessionInv, TypeOK
  <2> QED
    BY <1>3, <2>1 DEF AckInv, SessionInv, ChainInOrder, AckedWhenConnected, EventsInOrder
<1> QED
  BY <1>1, <1>2, <1>3 DEF AckInv, SessionInv

\* The invariant of the session holds in every reachable state.
LEMMA Invariance ==
    Spec => []AckInv
<1>1. AckInv /\ [Next]_vars => AckInv'
  BY StepKeepsAck DEF Next, Call, SessionStep
<1> QED
  BY <1>1, InitAck, PTL DEF Spec

\* The fields and maps of adapter-session.ts keep the types the code gives them.
THEOREM SessionTypeCorrect ==
    Spec => []TypeOK
BY Invariance, InvImplies, PTL

\* The pending map of the session and the promises of emitWorkspaceOpened agree at any
\* moment, and nothing pends without a transport: closeCurrent, the timers and late
\* acknowledgements never leave an entry behind.
THEOREM PendingAlwaysOnCurrent ==
    Spec => []PendingOnCurrent
BY Invariance, InvImplies, PTL

\* However often establish, handleClose and stop overlap, the only socket that is neither
\* ended nor closed is the one of this.transport.
THEOREM NeverLeaksSocket ==
    Spec => []NoLeakedSocket
BY Invariance, InvImplies, PTL

\* ensureConnected never starts a second attempt, and the catch() of establish never
\* meets a transport of a newer one.
THEOREM AlwaysOneAttempt ==
    Spec => []OneAttemptAtATime
BY Invariance, InvImplies, PTL

\* After stop() nothing of the session is left, until start().
THEOREM AlwaysQuietWhenStopped ==
    Spec => []StoppedIsQuiet
BY Invariance, InvImplies, PTL

\* A session that is wanted and has neither a transport nor an attempt under way has its
\* reconnect timer set.
THEOREM AlwaysArmed ==
    Spec => []ReconnectArmed
BY Invariance, InvImplies, PTL

\* Provided that the peer sends nothing that must be refused in the chunk of its
\* hello_ack, events go out in order and behind an acknowledged hello only.
THEOREM AlwaysInOrder ==
    Spec => [](HelloAckAlone => EventsInOrder)
BY Invariance, InvImplies, PTL

-----------------------------------------------------------------------------
(***************************************************************************)
(* The commands of the extension.                                          *)
(***************************************************************************)

\* As long as Core never enabled a scope there is nothing in globalState, and no flow is
\* beyond the request that asks for one; a stop may still clear the keys that are not
\* there.
NotEnabled ==
    scope = "none" =>
        /\ keys = {} /\ ~desired /\ nextSequence = 1
        /\ \A f \in Flows :
              /\ ~hadScope[f]
              /\ flow[f] \in
                   {"idle", "enabling", "clearedResource", "clearedScope", "clearedHash"}

\* After five seconds without an event there is none in the window.
SpacedOut == burst <= 1 /\ (~recent => burst = 0)

ExtInv ==
    /\ ExtTypeOK
    /\ AckInv
    /\ NotEnabled
    /\ SpacedOut

\* A command of the extension does what the session allows, or leaves it alone.
LEMMA CommandsAreCalls ==
    ExtNext => SessionStep \/ UNCHANGED vars
<1> SUFFICES ASSUME ExtNext
             PROVE  SessionStep \/ UNCHANGED vars
  OBVIOUS
<1>1. ASSUME NEW f \in Flows, SendWorkspaceEvent(f)
      PROVE  SessionStep \/ UNCHANGED vars
  BY <1>1 DEF SendWorkspaceEvent, SessionStep
<1>2. ASSUME NEW f \in Flows, FlowStep(f), Idle
      PROVE  SessionStep \/ UNCHANGED vars
  BY <1>2 DEF FlowStep, Observe, CoreEnables, RequestFails, InvalidAnswer, Remember,
              StartSession, EmitIfRegistered, HashDiffers, StopObserving, Forget,
              RequestPause, CorePauses, PauseAnswered, SessionStep
<1>3. CASE TimePasses \/ \E status \in {"active", "paused"} : CoreHandlesLate(status)
  BY <1>3 DEF TimePasses, CoreHandlesLate
<1> QED
  BY <1>1, <1>2, <1>3 DEF ExtNext, Quiet, SessionStep

\* Only the extension's calls change whether the session should be connected, and only
\* emitWorkspaceOpened takes a sequence number.
LEMMA OwnStepsKeepCalls ==
    ASSUME Continuation \/ HandleFrame \/ Callback
    PROVE  desired' = desired /\ nextSequence' = nextSequence
<1> USE DEF fields, calls, net
<1>1. CASE Continuation
  BY <1>1 DEF Continuation, HelloResolved, HelloRejected, AttemptFinished, EmitOne,
              EmitOneWaits, EmitOneResumes
<1>2. CASE HandleFrame
  BY <1>2 DEF HandleFrame, HandleHelloFrame, HandleEventFrame
<1>3. CASE Callback
  <2>1. CASE ReconnectFires \/ HelloTimesOut \/ \E n \in Events : EventTimesOut(n)
    BY <2>1 DEF ReconnectFires, HelloTimesOut, EventTimesOut
  <2>2. ASSUME NEW t \in Transports,
               \/ SocketConnects(t) \/ SocketFails(t) \/ SocketCloses(t)
               \/ DataUndecodable(t)
        PROVE  desired' = desired /\ nextSequence' = nextSequence
    BY <2>2 DEF SocketConnects, SocketFails, SocketCloses, DataUndecodable
  <2>3. ASSUME NEW t \in Transports, NEW k \in 0..MaxChunk, NEW refused \in BOOLEAN,
               NEW invalid \in {FALSE, InvalidFrames}, DataArrives(t, k, refused, invalid)
        PROVE  desired' = desired /\ nextSequence' = nextSequence
    BY <2>3 DEF DataArrives
  <2> QED
    BY <1>3, <2>1, <2>2, <2>3 DEF Callback
<1> QED
  BY <1>1, <1>2, <1>3

\* A step of a flow keeps what the flows share in order: the scope can only leave "none"
\* for good.
LEMMA FlowKeepsOrder ==
    ASSUME ExtTypeOK, NotEnabled, SpacedOut, TypeOK', NEW f \in Flows, FlowStep(f)
    PROVE  ExtTypeOK' /\ NotEnabled' /\ SpacedOut'
<1> USE DEF At, Go
<1>1. SpacedOut'
  BY DEF SpacedOut, FlowStep, Observe, CoreEnables, RequestFails, InvalidAnswer, Remember,
         StartSession, EmitIfRegistered, HashDiffers, StopObserving, Forget, RequestPause,
         CorePauses, PauseAnswered
<1>2. CASE \/ Observe(f) \/ RequestFails(f) \/ InvalidAnswer(f) \/ EmitIfRegistered(f)
           \/ HashDiffers(f) \/ RequestPause(f) \/ PauseAnswered(f)
  <2> USE DEF Observe, RequestFails, InvalidAnswer, EmitIfRegistered, HashDiffers,
              RequestPause, PauseAnswered
  <2>1. ExtTypeOK'
    BY <1>2 DEF ExtTypeOK, Places
  <2>2. /\ UNCHANGED <<keys, scope, hadScope, desired, nextSequence>>
        /\ \A g \in Flows \ {f} : flow'[g] = flow[g]
    BY <1>2 DEF ExtTypeOK, vars, fields, calls
  <2>3. NotEnabled => flow'[f] \in
                        {"idle", "enabling", "clearedResource", "clearedScope", "clearedHash"}
                      \/ scope # "none"
    BY <1>2 DEF NotEnabled, ExtTypeOK, Keys
  <2> QED
    BY <1>1, <2>1, <2>2, <2>3 DEF NotEnabled
<1>3. CASE CoreEnables(f) \/ CorePauses(f)
  <2>1. ExtTypeOK'
    BY <1>3 DEF CoreEnables, CorePauses, ExtTypeOK, Places
  <2>2. scope' # "none"
    BY <1>3 DEF CoreEnables, CorePauses
  <2> QED
    BY <1>1, <2>1, <2>2 DEF NotEnabled
<1>4. CASE Remember(f)
  <2>1. ExtTypeOK'
    BY <1>4 DEF Remember, ExtTypeOK, Places, Keys
  <2>2. scope' # "none"
    BY <1>4 DEF Remember, NotEnabled
  <2> QED
    BY <1>1, <2>1, <2>2 DEF NotEnabled
<1>5. CASE StartSession(f)
  <2>1. ExtTypeOK'
    BY <1>5 DEF StartSession, ExtTypeOK, Places, TypeOK
  <2>2. scope' # "none"
    BY <1>5 DEF StartSession, NotEnabled
  <2> QED
    BY <1>1, <2>1, <2>2 DEF NotEnabled
<1>6. CASE StopObserving(f)
  <2>1. ExtTypeOK'
    BY <1>6 DEF StopObserving, ExtTypeOK, Places
  <2>2. /\ UNCHANGED <<scope, nextSequence>> /\ desired' = FALSE /\ keys' \subseteq keys
        /\ hadScope'[f] = ("scope" \in keys) /\ flow'[f] = "clearedResource"
        /\ \A g \in Flows \ {f} : flow'[g] = flow[g] /\ hadScope'[g] = hadScope[g]
    BY <1>6 DEF StopObserving, Stop, ExtTypeOK
  <2> QED
    BY <1>1, <2>1, <2>2 DEF NotEnabled
<1>7. CASE Forget(f)
  <2>1. ExtTypeOK'
    BY <1>7 DEF Forget, ExtTypeOK, Places
  <2>2. /\ UNCHANGED <<scope, desired, nextSequence, hadScope>> /\ keys' \subseteq keys
        /\ flow'[f] \in {"clearedScope", "clearedHash"}
        /\ \A g \in Flows \ {f} : flow'[g] = flow[g]
    BY <1>7 DEF Forget, ExtTypeOK, vars, fields, calls
  <2> QED
    BY <1>1, <2>1, <2>2 DEF NotEnabled
<1> QED
  BY <1>2, <1>3, <1>4, <1>5, <1>6, <1>7 DEF FlowStep

\* sendWorkspaceEvent looks at the time and notes it in one piece.
LEMMA SendKeepsOrder ==
    ASSUME ExtTypeOK, NotEnabled, SpacedOut, TypeOK', NEW f \in Flows, SendWorkspaceEvent(f)
    PROVE  ExtTypeOK' /\ NotEnabled' /\ SpacedOut'
<1> USE DEF Go
<1>1. UNCHANGED <<keys, scope, hadScope>> /\ At(f, "starting") /\ scope # "none"
  BY DEF SendWorkspaceEvent, StartSettled, At, NotEnabled
<1>2. \/ ~recent /\ recent' = TRUE /\ burst' = burst + 1
      \/ UNCHANGED <<recent, burst>>
  BY DEF SendWorkspaceEvent
<1>3. SpacedOut'
  BY <1>2 DEF SpacedOut, ExtTypeOK
<1>4. recent' \in BOOLEAN /\ burst' \in Nat
  <2>1. recent \in BOOLEAN /\ burst \in Nat /\ burst + 1 \in Nat
    BY DEF ExtTypeOK
  <2> QED
    BY <1>2, <2>1, Zenon
<1>5. ExtTypeOK'
  BY <1>1, <1>4 DEF SendWorkspaceEvent, ExtTypeOK, Places
<1> QED
  BY <1>1, <1>3, <1>5 DEF NotEnabled

\* The invariant holds in every state the extension reaches.
LEMMA ExtInvariance ==
    ExtSpec => []ExtInv
<1>1. ExtInit => ExtInv
  <2>1. ASSUME ExtInit
        PROVE  ExtInv
    <3>1. AckInv /\ TypeOK
      BY <2>1, InitAck, InvImplies DEF ExtInit
    <3>2. ExtTypeOK
      BY <2>1, <3>1 DEF ExtInit, ExtTypeOK, Places, Keys
    <3>3. NotEnabled /\ SpacedOut
      BY <2>1 DEF ExtInit, Init, NotEnabled, SpacedOut
    <3> QED
      BY <3>1, <3>2, <3>3 DEF ExtInv
  <2> QED
    BY <2>1
<1>2. ExtInv /\ [ExtNext]_allVars => ExtInv'
  <2> SUFFICES ASSUME ExtInv, [ExtNext]_allVars
               PROVE  ExtInv'
    OBVIOUS
  <2>0. ExtTypeOK /\ NotEnabled /\ SpacedOut
    BY DEF ExtInv
  <2>1. AckInv'
    BY CommandsAreCalls, StepKeepsAck DEF ExtInv, allVars
  <2>2. TypeOK'
    BY <2>1 DEF AckInv, SessionInv
  <2>3. ASSUME UNCHANGED <<extVars, desired, nextSequence>>
        PROVE  ExtTypeOK' /\ NotEnabled' /\ SpacedOut'
    BY <2>0, <2>2, <2>3 DEF extVars, ExtTypeOK, NotEnabled, SpacedOut
  <2>4. CASE (Continuation \/ HandleFrame \/ Callback) /\ UNCHANGED extVars
    BY <2>1, <2>3, <2>4, OwnStepsKeepCalls DEF ExtInv
  <2>5. ASSUME NEW f \in Flows, SendWorkspaceEvent(f)
        PROVE  ExtInv'
    BY <2>0, <2>1, <2>2, <2>5, SendKeepsOrder DEF ExtInv
  <2>6. CASE TimePasses
    <3>1. ExtTypeOK' /\ NotEnabled' /\ SpacedOut'
      <4>1. ExtTypeOK'
        BY <2>0, <2>2, <2>6 DEF TimePasses, ExtTypeOK
      <4>2. SpacedOut'
        BY <2>6 DEF TimePasses, SpacedOut
      <4>3. NotEnabled'
        BY <2>0, <2>6 DEF TimePasses, NotEnabled, vars, fields, calls
      <4> QED
        BY <4>1, <4>2, <4>3
    <3> QED
      BY <2>1, <3>1 DEF ExtInv
  <2>7. ASSUME NEW f \in Flows, FlowStep(f)
        PROVE  ExtInv'
    BY <2>0, <2>1, <2>2, <2>7, FlowKeepsOrder DEF ExtInv
  <2>8. ASSUME NEW status \in {"active", "paused"}, CoreHandlesLate(status)
        PROVE  ExtInv'
    <3>1. ExtTypeOK'
      BY <2>0, <2>2, <2>8 DEF CoreHandlesLate, ExtTypeOK
    <3>2. NotEnabled' /\ SpacedOut'
      BY <2>0, <2>8 DEF CoreHandlesLate, NotEnabled, SpacedOut
    <3> QED
      BY <2>1, <3>1, <3>2 DEF ExtInv
  <2>9. CASE UNCHANGED allVars
    BY <2>1, <2>3, <2>9 DEF allVars, vars, fields, calls, ExtInv
  <2> QED
    BY <2>4, <2>5, <2>6, <2>7, <2>8, <2>9 DEF ExtNext
<1> QED
  BY <1>1, <1>2, PTL DEF ExtSpec

\* However flows overlap, sendWorkspaceEvent lets one event out in five seconds.
THEOREM AlwaysThrottled ==
    ExtSpec => []Throttled
<1>1. ExtInv => Throttled
  BY DEF ExtInv, SpacedOut, Throttled
<1> QED
  BY <1>1, ExtInvariance, PTL

\* Before Core enabled the scope at the user's command, nothing connects and nothing is
\* emitted, whatever activation, folder changes and stops did before.
THEOREM AlwaysOptIn ==
    ExtSpec => []OptIn
<1>1. ExtInv => OptIn
  BY DEF ExtInv, AckInv, SessionInv, StoppedIsQuiet, NotEnabled, OptIn
<1> QED
  BY <1>1, ExtInvariance, PTL

\* Driven by the commands instead of arbitrary calls, the session keeps its promises.
THEOREM SessionUnderCommands ==
    ExtSpec => [](/\ PendingOnCurrent /\ NoLeakedSocket /\ OneAttemptAtATime
                  /\ StoppedIsQuiet /\ ReconnectArmed
                  /\ HelloAckAlone => EventsInOrder)
<1>1. ExtInv => /\ PendingOnCurrent /\ NoLeakedSocket /\ OneAttemptAtATime
                /\ StoppedIsQuiet /\ ReconnectArmed
                /\ HelloAckAlone => EventsInOrder
  BY InvImplies DEF ExtInv
<1> QED
  BY <1>1, ExtInvariance, PTL
=============================================================================
