--------------------------- MODULE NativeHostProofs ---------------------------
(***************************************************************************)
(* Proofs about NativeHost: the map of pending acknowledgements, where an  *)
(* acknowledgement goes, and how often a message is answered.              *)
(***************************************************************************)
EXTENDS NativeHost, FiniteSetTheorems, SequenceTheorems, TLAPS

\* The tasks that were spawned are the first ones, they have an id, and nothing is told
\* to a task that has no entry yet.
TasksInPlace ==
    /\ \E n \in 0..MaxTasks : \A t \in Tasks : task[t] # "unused" <=> t <= n
    /\ \A t \in Tasks :
          /\ task[t] # "unused" <=> idOf[t] # None
          /\ task[t] \in {"unused", "spawned"} => oneshot[t] = "empty"
          /\ task[t] = "acknowledged" => oneshot[t] = "ack"

\* What has a sender in the map was told nothing.
SendersUnused == \A r \in Ids : pending[r] # None => oneshot[pending[r]] = "empty"

\* A message to the extension carries the id it answers, but for an action.
Named(m) == IF m.kind = "action" THEN m.id = None ELSE m.id \in Ids

\* All messages but actions and statuses carry a request id.
MessagesNamed ==
    /\ loop = "requesting" => held \in Native /\ held.kind = "answer" /\ Named(held)
    /\ loop = "toNative" => held \in Native /\ Named(held)
    /\ loop = "toAdapter" => /\ held \in Adapter /\ held.kind \in {"result", "status"}
                             /\ held.kind = "result" => held.id \in Ids
    /\ \A i \in 1..Len(nativeOut) : Named(nativeOut[i])
    /\ \A i \in 1..Len(adapterOut) : adapterOut[i].kind = "event" => adapterOut[i].id \in Ids

HostInv ==
    /\ TypeOK
    /\ TasksInPlace
    /\ SendersUnused
    /\ MessagesNamed
    /\ PendingExact
    /\ AcksGenuine
    /\ AnsweredOnce

\* What the map and the oneshot channels promise each other.
Routing == TasksInPlace /\ SendersUnused /\ PendingExact

-----------------------------------------------------------------------------
(***************************************************************************)
(* The map of pending acknowledgements.                                    *)
(***************************************************************************)

\* An entry names a task and a task has an id that may be a key.
LEMMA Entries ==
    ASSUME TypeOK
    PROVE  /\ \A r \in Ids : pending[r] \in Tasks \cup {None}
           /\ \A t \in Tasks : idOf[t] \in Ids \cup {None}
           /\ None \notin Ids /\ None \notin Tasks
BY ConstantsAssumption DEF TypeOK, Tasks

\* What is told to a set of tasks.
LEMMA ToldEach ==
    ASSUME NEW S, NEW value
    PROVE  /\ \A t \in Tasks : t \in S => Told(S, value)[t] = value
           /\ \A t \in Tasks : t \notin S => Told(S, value)[t] = oneshot[t]
BY DEF Told

\* The drop of the guard removes what the map holds under the id of the task, and tells
\* the task whose sender goes with it.
LEMMA DropKeepsRouting ==
    ASSUME TypeOK, Routing, NEW t \in Tasks, task[t] \in {"sending", "waiting"},
           DropGuard(t), task' = [task EXCEPT ![t] = "failed"], idOf' = idOf
    PROVE  Routing'
<1>1. /\ idOf[t] \in Ids /\ pending[idOf[t]] \in Tasks \cup {None}
      /\ pending'[idOf[t]] = None
      /\ \A r \in Ids \ {idOf[t]} : pending'[r] = pending[r]
  BY Entries DEF DropGuard, TypeOK, Routing, TasksInPlace
<1> DEFINE told == {pending[idOf[t]]} \ {t}
<1>2. /\ \A u \in Tasks : u \in told => oneshot'[u] = "closed"
      /\ \A u \in Tasks : u \notin told => oneshot'[u] = oneshot[u]
      /\ \A u \in Tasks : u \in told <=> u = pending[idOf[t]] /\ u # t
  BY ToldEach DEF DropGuard
<1>3. /\ task'[t] = "failed"
      /\ \A u \in Tasks \ {t} : task'[u] = task[u]
  BY DEF TypeOK
<1> HIDE DEF told
<1>4. \A u \in Tasks : u \in told => task[u] \in {"sending", "waiting"} /\ idOf[u] = idOf[t]
  BY <1>1, <1>2, Entries DEF Routing, PendingExact
<1>5. TasksInPlace'
  BY <1>2, <1>3, <1>4 DEF Routing, TasksInPlace
<1>6. ASSUME NEW r \in Ids, pending'[r] # None
      PROVE  /\ idOf[pending'[r]] = r /\ task'[pending'[r]] \in {"sending", "waiting"}
             /\ oneshot'[pending'[r]] = "empty"
  <2>1. r # idOf[t] /\ pending'[r] = pending[r] /\ pending[r] \in Tasks
    BY <1>1, <1>6, Entries
  <2>2. /\ idOf[pending[r]] = r /\ task[pending[r]] \in {"sending", "waiting"}
        /\ oneshot[pending[r]] = "empty"
    BY <1>6, <2>1 DEF Routing, PendingExact, SendersUnused
  <2>3. pending[r] # t /\ pending[r] \notin told
    BY <1>4, <2>1, <2>2
  <2> QED
    BY <1>2, <1>3, <2>1, <2>2, <2>3
<1>7. ASSUME NEW u \in Tasks, task'[u] \in {"sending", "waiting"}, oneshot'[u] = "empty"
      PROVE  pending'[idOf[u]] = u
  <2>1. u # t /\ task[u] \in {"sending", "waiting"} /\ u \notin told /\ oneshot[u] = "empty"
    BY <1>2, <1>3, <1>7
  <2>2. pending[idOf[u]] = u /\ idOf[u] \in Ids
    BY <2>1, Entries DEF Routing, PendingExact, TasksInPlace
  <2>3. idOf[u] # idOf[t]
    BY <1>2, <2>1, <2>2
  <2> QED
    BY <1>1, <2>2, <2>3
<1> QED
  BY <1>5, <1>6, <1>7 DEF Routing, SendersUnused, PendingExact

\* Draining the map tells every task that has an entry.
LEMMA DrainKeepsRouting ==
    ASSUME TypeOK, Routing, Drain, idOf' = idOf,
           \/ task' = task
           \/ task' = [t \in Tasks |-> IF task[t] = "unused" THEN "unused" ELSE "done"]
    PROVE  Routing'
<1> DEFINE told == {pending[r] : r \in Ids}
<1>1. /\ \A r \in Ids : pending'[r] = None
      /\ \A u \in Tasks : u \in told => oneshot'[u] = "disconnected"
      /\ \A u \in Tasks : u \notin told => oneshot'[u] = oneshot[u]
      /\ \A u \in Tasks : u \in told <=> \E r \in Ids : pending[r] = u
  BY ToldEach DEF Drain
<1> HIDE DEF told
<1>2. \A u \in Tasks : u \in told => task[u] \in {"sending", "waiting"}
  BY <1>1, Entries DEF Routing, PendingExact
<1>3. \A u \in Tasks : /\ task'[u] = "unused" <=> task[u] = "unused"
                       /\ task'[u] \in {task[u], "done", "unused"}
  BY DEF TypeOK
<1>4. TasksInPlace'
  <2>1. \E n \in 0..MaxTasks : \A u \in Tasks : task'[u] # "unused" <=> u <= n
    BY <1>3 DEF Routing, TasksInPlace
  <2>2. ASSUME NEW u \in Tasks
        PROVE  /\ task'[u] # "unused" <=> idOf[u] # None
               /\ task'[u] \in {"unused", "spawned"} => oneshot'[u] = "empty"
               /\ task'[u] = "acknowledged" => oneshot'[u] = "ack"
    BY <1>1, <1>2, <1>3 DEF Routing, TasksInPlace
  <2> QED
    BY <2>1, <2>2 DEF TasksInPlace
<1>5. ASSUME NEW u \in Tasks, task'[u] \in {"sending", "waiting"}
      PROVE  oneshot'[u] # "empty"
  <2>1. task[u] \in {"sending", "waiting"} /\ idOf[u] \in Ids
    BY <1>3, <1>5, Entries DEF Routing, TasksInPlace
  <2> QED
    BY <1>1, <2>1 DEF Routing, PendingExact
<1> QED
  BY <1>1, <1>4, <1>5 DEF Routing, SendersUnused, PendingExact

\* The loop gives every event a task of its own.
LEMMA TakeEventFresh ==
    ASSUME TypeOK, TasksInPlace, NEW r \in Ids, NEW t \in Tasks, TakeEvent(r, t)
    PROVE  task[t] = "unused" /\ \A u \in Tasks : task[u] # "unused" <=> u < t
<1>1. PICK n \in 0..MaxTasks : \A u \in Tasks : task[u] # "unused" <=> u <= n
  BY DEF TasksInPlace
<1>2. {u \in Tasks : task[u] # "unused"} = 1..n
  BY <1>1, ConstantsAssumption DEF Tasks
<1>3. Cardinality(1..n) = n
  BY FS_Interval, ConstantsAssumption
<1>4. t = n + 1
  BY <1>2, <1>3 DEF TakeEvent
<1> QED
  BY <1>1, <1>4, ConstantsAssumption DEF Tasks

\* Every step keeps the map and the tasks together.
LEMMA StepKeepsRouting ==
    ASSUME TypeOK, Routing, Next
    PROVE  Routing'
<1> USE DEF tasks, channels, peers, history
<1>1. CASE UNCHANGED tasks
  BY <1>1 DEF Routing, TasksInPlace, SendersUnused, PendingExact
<1>2. ASSUME NEW r \in Ids, NEW t \in Tasks, TakeEvent(r, t)
      PROVE  Routing'
  <2>1. task[t] = "unused" /\ \A u \in Tasks : task[u] # "unused" <=> u < t
    BY <1>2, TakeEventFresh DEF Routing
  <2>2. /\ task'[t] = "spawned" /\ idOf'[t] = r /\ r # None
        /\ \A u \in Tasks \ {t} : task'[u] = task[u] /\ idOf'[u] = idOf[u]
        /\ UNCHANGED <<oneshot, pending>>
    BY <1>2, Entries DEF TakeEvent, TypeOK
  <2>3. TasksInPlace'
    <3>1. t \in 0..MaxTasks /\ \A u \in Tasks : u <= t <=> u < t \/ u = t
      BY ConstantsAssumption DEF Tasks
    <3>2. \A u \in Tasks : task'[u] # "unused" <=> u <= t
      BY <2>1, <2>2, <3>1
    <3>3. \A u \in Tasks : /\ task'[u] # "unused" <=> idOf'[u] # None
                           /\ task'[u] \in {"unused", "spawned"} => oneshot'[u] = "empty"
                           /\ task'[u] = "acknowledged" => oneshot'[u] = "ack"
      BY <2>1, <2>2 DEF Routing, TasksInPlace
    <3> QED
      BY <3>1, <3>2, <3>3 DEF TasksInPlace
  <2>4. \A s \in Ids : pending[s] # None => pending[s] \in Tasks /\ pending[s] # t
    BY <2>1, Entries DEF Routing, PendingExact
  <2> QED
    BY <2>2, <2>3, <2>4 DEF Routing, SendersUnused, PendingExact
<1>3. ASSUME NEW t \in Tasks, InsertPending(t)
      PROVE  Routing'
  <2>1. /\ task[t] = "spawned" /\ oneshot[t] = "empty" /\ idOf[t] \in Ids
        /\ \A u \in Tasks \ {t} : task'[u] = task[u]
        /\ UNCHANGED <<oneshot, idOf>>
    BY <1>3, Entries DEF InsertPending, Goto, TypeOK, Routing, TasksInPlace
  <2>2. \A r \in Ids : pending[r] # None => pending[r] \in Tasks /\ pending[r] # t
    BY <2>1, Entries DEF Routing, PendingExact
  <2>3. CASE pending[idOf[t]] # None
    <3>1. task'[t] = "failed" /\ UNCHANGED pending
      BY <1>3, <2>3 DEF InsertPending, Goto, TypeOK
    <3> QED
      BY <2>1, <2>2, <3>1 DEF Routing, TasksInPlace, SendersUnused, PendingExact
  <2>4. CASE pending[idOf[t]] = None
    <3>1. /\ task'[t] = "sending" /\ pending'[idOf[t]] = t
          /\ \A r \in Ids \ {idOf[t]} : pending'[r] = pending[r]
      BY <1>3, <2>1, <2>4 DEF InsertPending, Goto, TypeOK
    <3>2. TasksInPlace'
      BY <2>1, <3>1 DEF Routing, TasksInPlace
    <3>3. SendersUnused'
      BY <2>1, <2>2, <3>1 DEF Routing, SendersUnused
    <3>4. \A r \in Ids : pending'[r] # None =>
             idOf'[pending'[r]] = r /\ task'[pending'[r]] \in {"sending", "waiting"}
      BY <2>1, <2>2, <3>1 DEF Routing, PendingExact
    <3>5. ASSUME NEW u \in Tasks, task'[u] \in {"sending", "waiting"}, oneshot'[u] = "empty"
          PROVE  pending'[idOf'[u]] = u
      <4>1. CASE u = t
        BY <2>1, <3>1, <4>1
      <4>2. CASE u # t
        <5>1. idOf[u] \in Ids /\ pending[idOf[u]] = u /\ u # None
          BY <2>1, <3>5, <4>2, Entries DEF Routing, PendingExact, TasksInPlace
        <5> QED
          BY <2>1, <2>4, <3>1, <5>1
      <4> QED
        BY <4>1, <4>2
    <3> QED
      BY <3>2, <3>3, <3>4, <3>5 DEF Routing, PendingExact
  <2> QED
    BY <2>3, <2>4
<1>4. ASSUME NEW t \in Tasks, SendEvent(t)
      PROVE  Routing'
  <2>1. CASE DropGuard(t) /\ Goto(t, "failed")
    BY <1>4, <2>1, DropKeepsRouting DEF SendEvent, Goto
  <2>2. CASE Goto(t, "waiting") /\ UNCHANGED <<pending, oneshot>>
    <3>1. /\ task[t] = "sending" /\ task'[t] = "waiting" /\ idOf' = idOf
          /\ \A u \in Tasks \ {t} : task'[u] = task[u]
      BY <1>4, <2>2 DEF SendEvent, Goto, TypeOK
    <3> QED
      BY <2>2, <3>1, Entries DEF Routing, TasksInPlace, SendersUnused, PendingExact
  <2> QED
    BY <1>4, <2>1, <2>2 DEF SendEvent
<1>5. ASSUME NEW t \in Tasks, ReceiveAck(t)
      PROVE  Routing'
  <2>1. CASE oneshot[t] = "closed"
    BY <1>5, <2>1, DropKeepsRouting DEF ReceiveAck, Goto
  <2>2. CASE oneshot[t] # "closed"
    <3>1. /\ task[t] = "waiting" /\ oneshot[t] # "empty"
          /\ task'[t] = IF oneshot[t] = "ack" THEN "acknowledged" ELSE "failed"
          /\ \A u \in Tasks \ {t} : task'[u] = task[u]
          /\ UNCHANGED <<oneshot, idOf, pending>>
      BY <1>5, <2>2 DEF ReceiveAck, Goto, TypeOK
    <3>2. \A r \in Ids : pending[r] # None => pending[r] \in Tasks /\ pending[r] # t
      BY <3>1, Entries DEF Routing, SendersUnused
    <3> QED
      BY <3>1, <3>2 DEF Routing, TasksInPlace, SendersUnused, PendingExact
  <2> QED
    BY <2>1, <2>2
<1>6. ASSUME NEW t \in Tasks, AckTimesOut(t)
      PROVE  Routing'
  BY <1>6, DropKeepsRouting DEF AckTimesOut, Goto
<1>7. ASSUME NEW t \in Tasks, AnswerEvent(t)
      PROVE  Routing'
  <2>1. /\ task[t] \in {"acknowledged", "failed"} /\ task'[t] = "done"
        /\ \A u \in Tasks \ {t} : task'[u] = task[u]
        /\ UNCHANGED <<oneshot, idOf, pending>>
    BY <1>7 DEF AnswerEvent, Goto, TypeOK
  <2>2. \A r \in Ids : pending[r] # None => pending[r] \in Tasks /\ pending[r] # t
    BY <2>1, Entries DEF Routing, PendingExact
  <2> QED
    BY <2>1, <2>2 DEF Routing, TasksInPlace, SendersUnused, PendingExact
<1>8. ASSUME NEW wellFormed \in BOOLEAN, RouteAck(wellFormed)
      PROVE  Routing'
  <2> DEFINE r == Head(unacked)
             value == IF wellFormed THEN "ack" ELSE "protocol"
  <2>1. /\ r \in Ids /\ pending'[r] = None
        /\ \A s \in Ids \ {r} : pending'[s] = pending[s]
        /\ UNCHANGED <<task, idOf>>
    BY <1>8 DEF RouteAck, TypeOK
  <2>2. /\ \A u \in Tasks : u = pending[r] => oneshot'[u] = value
        /\ \A u \in Tasks : u # pending[r] => oneshot'[u] = oneshot[u]
    BY <1>8, ToldEach DEF RouteAck
  <2>3. value # "empty"
    OBVIOUS
  <2> HIDE DEF r, value
  <2>4. pending[r] # None => task[pending[r]] \in {"sending", "waiting"} /\ idOf[pending[r]] = r
    BY <2>1 DEF Routing, PendingExact
  <2>5. TasksInPlace'
    BY <2>1, <2>2, <2>4, Entries DEF Routing, TasksInPlace
  <2>6. ASSUME NEW s \in Ids, pending'[s] # None
        PROVE  /\ idOf[pending'[s]] = s /\ task[pending'[s]] \in {"sending", "waiting"}
               /\ oneshot'[pending'[s]] = "empty"
    <3>1. s # r /\ pending'[s] = pending[s] /\ pending[s] \in Tasks
      BY <2>1, <2>6, Entries
    <3>2. idOf[pending[s]] = s /\ pending[s] # pending[r]
      BY <2>4, <2>6, <3>1 DEF Routing, PendingExact
    <3> QED
      BY <2>2, <2>6, <3>1, <3>2 DEF Routing, SendersUnused, PendingExact
  <2>7. ASSUME NEW u \in Tasks, task[u] \in {"sending", "waiting"}, oneshot'[u] = "empty"
        PROVE  pending'[idOf[u]] = u
    <3>1. u # pending[r] /\ oneshot[u] = "empty"
      BY <2>2, <2>3, <2>7
    <3>2. pending[idOf[u]] = u /\ idOf[u] \in Ids
      BY <2>7, <3>1, Entries DEF Routing, PendingExact, TasksInPlace
    <3> QED
      BY <2>1, <3>1, <3>2
  <2> QED
    BY <2>1, <2>5, <2>6, <2>7 DEF Routing, SendersUnused, PendingExact
<1>9. CASE EndHost \/ ReaderEnds
  BY <1>9, DrainKeepsRouting DEF EndHost, ReaderEnds
<1>10. ASSUME NEW r \in Ids, TakeObservationRequest(r) \/ TakePingOrInvalid(r)
       PROVE  Routing'
  BY <1>1, <1>10 DEF TakeObservationRequest, TakePingOrInvalid
<1>11. CASE \/ TakeActionResult \/ TakeCoreInbound \/ ClientReturns \/ LoopSends
            \/ RouteRequest \/ AdapterWrites \/ NativeWrites \/ NativeWriteFails
            \/ \E kind \in {"action", "status"} : ReadRequest(kind)
  BY <1>1, <1>11 DEF TakeActionResult, TakeCoreInbound, ClientReturns, LoopSends,
                     LoopSendsNative, LoopSendsAdapter, RouteRequest, AdapterWrites,
                     NativeWrites, NativeWriteFails, ReadRequest
<1> QED
  BY <1>2, <1>3, <1>4, <1>5, <1>6, <1>7, <1>8, <1>9, <1>10, <1>11 DEF Next, TaskStep

-----------------------------------------------------------------------------
(***************************************************************************)
(* Counting the messages of a channel.                                     *)
(***************************************************************************)

\* Where a channel that holds q has messages with the id r.
Positions(q, r) == {i \in DOMAIN q : q[i].id = r}

\* There are finitely many.
LEMMA PositionsFinite ==
    ASSUME NEW S, NEW q \in Seq(S), NEW r
    PROVE  IsFiniteSet(Positions(q, r)) /\ Cardinality(Positions(q, r)) \in Nat
<1>1. IsFiniteSet(1..Len(q))
  BY FS_Interval
<1>2. Positions(q, r) \subseteq 1..Len(q)
  BY DEF Positions
<1> QED
  BY <1>1, <1>2, FS_Subset, FS_CardinalityType

\* A message sent is one more.
LEMMA PositionsAppend ==
    ASSUME NEW S, NEW q \in Seq(S), NEW m \in S, NEW r
    PROVE  Cardinality(Positions(Append(q, m), r)) =
               Cardinality(Positions(q, r)) + (IF m.id = r THEN 1 ELSE 0)
<1>1. IsFiniteSet(Positions(q, r)) /\ Cardinality(Positions(q, r)) \in Nat
  BY PositionsFinite
<1>2. /\ DOMAIN Append(q, m) = 1..(Len(q) + 1) /\ DOMAIN q = 1..Len(q) /\ Len(q) \in Nat
      /\ Append(q, m)[Len(q) + 1] = m /\ \A i \in 1..Len(q) : Append(q, m)[i] = q[i]
  OBVIOUS
<1>3. CASE m.id = r
  <2>1. Positions(Append(q, m), r) = Positions(q, r) \cup {Len(q) + 1}
    BY <1>2, <1>3 DEF Positions
  <2>2. Len(q) + 1 \notin Positions(q, r)
    BY <1>2 DEF Positions
  <2> QED
    BY <1>1, <1>3, <2>1, <2>2, FS_AddElement
<1>4. CASE m.id # r
  <2>1. Positions(Append(q, m), r) = Positions(q, r)
    BY <1>2, <1>4 DEF Positions
  <2> QED
    BY <1>1, <1>4, <2>1
<1> QED
  BY <1>3, <1>4

\* A message taken is one less.
LEMMA PositionsTail ==
    ASSUME NEW S, NEW q \in Seq(S), q # <<>>, NEW r
    PROVE  Cardinality(Positions(q, r)) =
               Cardinality(Positions(Tail(q), r)) + (IF Head(q).id = r THEN 1 ELSE 0)
<1> DEFINE rest == {i \in 2..Len(q) : q[i].id = r}
           shift == [i \in Positions(Tail(q), r) |-> i + 1]
<1>1. /\ DOMAIN q = 1..Len(q) /\ Len(q) \in Nat /\ Len(q) >= 1
      /\ Tail(q) \in Seq(S) /\ DOMAIN Tail(q) = 1..(Len(q) - 1) /\ Head(q) = q[1]
      /\ \A i \in 1..(Len(q) - 1) : Tail(q)[i] = q[i + 1]
  OBVIOUS
<1>2. /\ IsFiniteSet(Positions(Tail(q), r)) /\ Cardinality(Positions(Tail(q), r)) \in Nat
  BY <1>1, PositionsFinite
<1>3. \A i \in Nat : i \in Positions(Tail(q), r) <=> i + 1 \in rest
  BY <1>1 DEF Positions
<1>4. shift \in Bijection(Positions(Tail(q), r), rest)
  <2>1. Positions(Tail(q), r) \subseteq Nat
    BY <1>1 DEF Positions
  <2>2. shift \in [Positions(Tail(q), r) -> rest]
    BY <1>3, <2>1
  <2>3. \A i, j \in Positions(Tail(q), r) : shift[i] = shift[j] => i = j
    BY <2>1
  <2>4. \A j \in rest : \E i \in Positions(Tail(q), r) : shift[i] = j
    <3>1. \A j \in rest : j - 1 \in Nat /\ j = (j - 1) + 1
      BY <1>1
    <3>2. \A j \in rest : j - 1 \in Positions(Tail(q), r) /\ shift[j - 1] = j
      BY <1>3, <3>1
    <3> QED
      BY <3>2
  <2> QED
    BY <2>2, <2>3, <2>4 DEF Bijection, Injection, Surjection, IsInjective
<1>5. IsFiniteSet(rest) /\ Cardinality(rest) = Cardinality(Positions(Tail(q), r))
  BY <1>2, <1>4, FS_Bijection DEF ExistsBijection
<1>6. Positions(q, r) = IF Head(q).id = r THEN rest \cup {1} ELSE rest
  BY <1>1 DEF Positions
<1>7. 1 \notin rest
  OBVIOUS
<1> HIDE DEF rest
<1>8. Cardinality(rest \cup {1}) = Cardinality(rest) + 1
  BY <1>5, <1>7, FS_AddElement
<1> QED
  BY <1>2, <1>5, <1>6, <1>8

-----------------------------------------------------------------------------
(***************************************************************************)
(* The account of a request id.                                            *)
(***************************************************************************)

\* The tasks that work on an event with this id, and what the loop holds for it.
Live(r) == {t \in Tasks : idOf[t] = r /\ task[t] \notin {"unused", "done"}}

HeldFor(r) == IF loop \in {"requesting", "toNative"} /\ held.id = r THEN 1 ELSE 0

\* The tasks with some property are finitely many.
LEMMA TasksFinite ==
    ASSUME NEW S \in SUBSET Tasks
    PROVE  IsFiniteSet(S) /\ Cardinality(S) \in Nat
<1>1. IsFiniteSet(Tasks)
  BY FS_Interval, ConstantsAssumption DEF Tasks
<1> QED
  BY <1>1, FS_Subset, FS_CardinalityType

\* The account in the terms of this module.
LEMMA Account ==
    AnsweredOnce <=>
        (loop # "done" /\ nativeUp =>
            \A r \in Ids : owing[r] = Cardinality(Positions(nativeOut, r))
                                    + Cardinality(Live(r)) + HeldFor(r))
BY Zenon DEF AnsweredOnce, Queued, Positions, Live, HeldFor

\* Its terms are numbers.
LEMMA AccountTyped ==
    ASSUME TypeOK, NEW r \in Ids
    PROVE  /\ Cardinality(Positions(nativeOut, r)) \in Nat /\ Cardinality(Live(r)) \in Nat
           /\ HeldFor(r) \in {0, 1} /\ owing[r] \in Nat
<1>1. Live(r) \in SUBSET Tasks
  BY DEF Live
<1>2. HeldFor(r) \in {0, 1}
  BY DEF HeldFor
<1> QED
  BY <1>1, <1>2, TasksFinite, PositionsFinite DEF TypeOK

\* For an answer in the channel the extension still waits.
LEMMA OwedWhenQueued ==
    ASSUME TypeOK, MessagesNamed, AnsweredOnce, loop # "done", nativeUp, nativeOut # <<>>,
           Head(nativeOut).kind # "action"
    PROVE  Head(nativeOut).id \in Ids /\ owing[Head(nativeOut).id] - 1 \in Nat
<1>1. nativeOut \in Seq(Native) /\ Head(nativeOut) = nativeOut[1] /\ 1 \in 1..Len(nativeOut)
  BY DEF TypeOK
<1>2. PICK r \in Ids : r = Head(nativeOut).id
  BY <1>1 DEF MessagesNamed, Named
<1>3. Tail(nativeOut) \in Seq(Native)
  BY <1>1
<1>4. Cardinality(Positions(Tail(nativeOut), r)) \in Nat
  BY <1>3, PositionsFinite
<1>5. Cardinality(Positions(nativeOut, r)) =
        Cardinality(Positions(Tail(nativeOut), r)) + 1
  BY <1>1, <1>2, PositionsTail
<1>6. owing[r] = Cardinality(Positions(nativeOut, r)) + Cardinality(Live(r)) + HeldFor(r)
  BY Account
<1> QED
  BY <1>2, <1>4, <1>5, <1>6, AccountTyped

-----------------------------------------------------------------------------
(***************************************************************************)
(* Types.                                                                  *)
(***************************************************************************)

\* A message sent to a channel with room for it is typed, and so is what is left when one
\* is taken.
LEMMA ChannelTyped ==
    ASSUME NEW S, NEW q \in Seq(S), Len(q) <= Capacity
    PROVE  /\ \A m \in S : Len(q) < Capacity =>
                 Append(q, m) \in Seq(S) /\ Len(Append(q, m)) <= Capacity
           /\ q # <<>> =>
                 Head(q) \in S /\ Tail(q) \in Seq(S) /\ Len(Tail(q)) <= Capacity
           /\ <<>> \in Seq(S) /\ Len(<<>>) <= Capacity
BY ConstantsAssumption

\* The oneshot channels stay typed whatever is told.
LEMMA ToldTyped ==
    ASSUME TypeOK, NEW S, NEW value \in {"ack", "protocol", "disconnected", "closed"}
    PROVE  Told(S, value) \in
               [Tasks -> {"empty", "ack", "protocol", "disconnected", "closed"}]
BY DEF TypeOK, Told

\* The steps of the tasks keep the types.
LEMMA TaskTypes ==
    ASSUME TypeOK, TasksInPlace, NEW t \in Tasks, TaskStep(t)
    PROVE  TypeOK'
<1> USE DEF channels, peers, history
<1>1. task[t] # "unused" => idOf[t] \in Ids
  BY DEF TypeOK, TasksInPlace
<1>2. CASE InsertPending(t)
  <2>1. task' \in [Tasks -> {"unused", "spawned", "sending", "waiting", "acknowledged",
                             "failed", "done"}]
    BY <1>2 DEF InsertPending, Goto, TypeOK
  <2>2. pending' \in [Ids -> Tasks \cup {None}]
    BY <1>2 DEF InsertPending, TypeOK
  <2> QED
    BY <1>2, <2>1, <2>2 DEF InsertPending, TypeOK
<1>3. ASSUME DropGuard(t)
      PROVE  /\ pending' \in [Ids -> Tasks \cup {None}]
             /\ oneshot' \in
                  [Tasks -> {"empty", "ack", "protocol", "disconnected", "closed"}]
  <2>1. pending' \in [Ids -> Tasks \cup {None}]
    BY <1>3 DEF DropGuard, TypeOK
  <2> QED
    BY <1>3, <2>1, ToldTyped DEF DropGuard
<1>4. CASE SendEvent(t)
  <2>1. task' \in [Tasks -> {"unused", "spawned", "sending", "waiting", "acknowledged",
                             "failed", "done"}]
    BY <1>4 DEF SendEvent, Goto, TypeOK
  <2>2. adapterOut' \in Seq(Adapter) /\ Len(adapterOut') <= Capacity
    <3>1. [kind |-> "event", id |-> idOf[t]] \in Adapter
      BY DEF Adapter, TypeOK
    <3>2. \/ adapterOut' = adapterOut
          \/ /\ Len(adapterOut) < Capacity
             /\ adapterOut' = Append(adapterOut, [kind |-> "event", id |-> idOf[t]])
      BY <1>4 DEF SendEvent
    <3>3. adapterOut \in Seq(Adapter) /\ Len(adapterOut) <= Capacity
      BY DEF TypeOK
    <3> QED
      BY <3>1, <3>2, <3>3, ChannelTyped
  <2>3. CASE DropGuard(t)
    BY <1>3, <1>4, <2>1, <2>2, <2>3 DEF SendEvent, TypeOK
  <2>4. CASE UNCHANGED <<pending, oneshot>>
    BY <1>4, <2>1, <2>2, <2>4 DEF SendEvent, TypeOK
  <2> QED
    BY <1>4, <2>3, <2>4 DEF SendEvent
<1>5. CASE ReceiveAck(t) \/ AckTimesOut(t)
  <2>1. task' \in [Tasks -> {"unused", "spawned", "sending", "waiting", "acknowledged",
                             "failed", "done"}]
    BY <1>5 DEF ReceiveAck, AckTimesOut, Goto, TypeOK
  <2>2. UNCHANGED <<loop, held, idOf, reader, channels, peers, history>>
    BY <1>5 DEF ReceiveAck, AckTimesOut
  <2>3. CASE DropGuard(t)
    BY <1>3, <2>1, <2>2, <2>3 DEF TypeOK
  <2>4. CASE UNCHANGED <<pending, oneshot>>
    BY <2>1, <2>2, <2>4 DEF TypeOK
  <2> QED
    BY <1>5, <2>3, <2>4 DEF ReceiveAck, AckTimesOut
<1>6. CASE AnswerEvent(t)
  <2>1. task' \in [Tasks -> {"unused", "spawned", "sending", "waiting", "acknowledged",
                             "failed", "done"}]
    BY <1>6 DEF AnswerEvent, Goto, TypeOK
  <2>2. \A kind \in {"ack", "error"} : [kind |-> kind, id |-> idOf[t]] \in Native
    BY DEF Native, TypeOK
  <2>3. nativeOut' \in Seq(Native) /\ Len(nativeOut') <= Capacity
    BY <1>6, <2>2, ChannelTyped DEF AnswerEvent, TypeOK
  <2> QED
    BY <1>6, <2>1, <2>3 DEF AnswerEvent, TypeOK
<1> QED
  BY <1>2, <1>4, <1>5, <1>6 DEF TaskStep

\* The steps of the loop keep the types.
LEMMA LoopTypes ==
    ASSUME TypeOK, MessagesNamed,
           \/ \E r \in Ids : \/ TakeObservationRequest(r) \/ TakePingOrInvalid(r)
                             \/ \E t \in Tasks : TakeEvent(r, t)
           \/ TakeActionResult \/ TakeCoreInbound \/ ClientReturns \/ LoopSends \/ EndHost
    PROVE  TypeOK'
<1> USE DEF tasks, channels, peers, history, Hold
<1>1. ASSUME NEW r \in Ids, Takes(r)
      PROVE  messages' \in 0..MaxMessages /\ owing' \in [Ids -> Nat]
  BY <1>1, ConstantsAssumption DEF Takes, TypeOK
<1>2. ASSUME NEW r \in Ids, TakeObservationRequest(r) \/ TakePingOrInvalid(r)
      PROVE  TypeOK'
  <2>1. held' \in Native /\ loop' \in {"requesting", "toNative"}
    BY <1>2 DEF TakeObservationRequest, TakePingOrInvalid, Native
  <2> QED
    BY <1>1, <1>2, <2>1 DEF TakeObservationRequest, TakePingOrInvalid, TypeOK
<1>3. ASSUME NEW r \in Ids, NEW t \in Tasks, TakeEvent(r, t)
      PROVE  TypeOK'
  <2>1. task' \in [Tasks -> {"unused", "spawned", "sending", "waiting", "acknowledged",
                             "failed", "done"}]
    BY <1>3 DEF TakeEvent, TypeOK
  <2>2. idOf' \in [Tasks -> Ids \cup {None}]
    BY <1>3 DEF TakeEvent, TypeOK
  <2> QED
    BY <1>1, <1>3, <2>1, <2>2 DEF TakeEvent, TypeOK
<1>4. CASE TakeActionResult
  <2>1. held' \in Adapter /\ loop' = "toAdapter"
    BY <1>4 DEF TakeActionResult, Adapter
  <2>2. results' \in Nat
    BY <1>4 DEF TakeActionResult, TypeOK
  <2> QED
    BY <1>4, <2>1, <2>2 DEF TakeActionResult, TypeOK
<1>5. CASE TakeCoreInbound
  <2>1. held' \in Native \cup Adapter /\ loop' \in {"toNative", "toAdapter"}
    BY <1>5 DEF TakeCoreInbound, Native, Adapter
  <2>2. coreIn' \in Seq({"action", "status"}) /\ Len(coreIn') <= Capacity
    BY <1>5, ChannelTyped DEF TakeCoreInbound, TypeOK
  <2> QED
    BY <1>5, <2>1, <2>2 DEF TakeCoreInbound, TypeOK
<1>6. CASE ClientReturns
  <2>1. held' \in Native /\ loop' = "toNative"
    BY <1>6 DEF ClientReturns, MessagesNamed, Native
  <2> QED
    BY <1>6, <2>1 DEF ClientReturns, TypeOK
<1>7. CASE LoopSendsNative
  <2>1. held \in Native
    BY <1>7 DEF LoopSendsNative, MessagesNamed
  <2>2. nativeOut' \in Seq(Native) /\ Len(nativeOut') <= Capacity
    BY <1>7, <2>1, ChannelTyped DEF LoopSendsNative, TypeOK
  <2> QED
    BY <1>7, <2>2 DEF LoopSendsNative, TypeOK
<1>8. CASE LoopSendsAdapter
  <2>1. held \in Adapter /\ (held.kind = "result" => held.id \in Ids)
    BY <1>8 DEF LoopSendsAdapter, MessagesNamed
  <2>2. adapterOut' \in Seq(Adapter) /\ Len(adapterOut') <= Capacity
    BY <1>8, <2>1, ChannelTyped DEF LoopSendsAdapter, TypeOK
  <2>3. /\ held' \in Native \cup {None} /\ loop' \in {"select", "toNative"}
        /\ owing' \in [Ids -> Nat]
    <3>1. CASE ~adapterUp /\ held.kind = "result"
      <4>1. held' \in Native /\ loop' = "toNative"
        BY <1>8, <2>1, <3>1 DEF LoopSendsAdapter, Native
      <4>2. owing' \in [Ids -> Nat]
        <5>1. owing' = [owing EXCEPT ![held.id] = @ + 1]
          BY <1>8, <3>1 DEF LoopSendsAdapter
        <5>2. PICK r \in Ids : r = held.id
          BY <2>1, <3>1
        <5> QED
          BY <5>1, <5>2 DEF TypeOK
      <4> QED
        BY <4>1, <4>2
    <3>2. CASE ~(~adapterUp /\ held.kind = "result")
      BY <1>8, <3>2 DEF LoopSendsAdapter, TypeOK
    <3> QED
      BY <3>1, <3>2
  <2> QED
    BY <1>8, <2>2, <2>3 DEF LoopSendsAdapter, TypeOK
<1>9. CASE EndHost
  <2>1. /\ task' \in [Tasks -> {"unused", "spawned", "sending", "waiting", "acknowledged",
                                "failed", "done"}]
        /\ pending' \in [Ids -> Tasks \cup {None}]
    BY <1>9 DEF EndHost, Drain, TypeOK
  <2>2. oneshot' \in [Tasks -> {"empty", "ack", "protocol", "disconnected", "closed"}]
    BY <1>9, ToldTyped DEF EndHost, Drain
  <2>3. /\ adapterOut' \in Seq(Adapter) /\ Len(adapterOut') <= Capacity
        /\ nativeOut' \in Seq(Native) /\ Len(nativeOut') <= Capacity
        /\ coreIn' \in Seq({"action", "status"}) /\ Len(coreIn') <= Capacity
        /\ unacked' \in Seq(Ids)
    BY <1>9, ConstantsAssumption DEF EndHost
  <2> QED
    BY <1>9, <2>1, <2>2, <2>3 DEF EndHost, TypeOK
<1> QED
  BY <1>2, <1>3, <1>4, <1>5, <1>6, <1>7, <1>8, <1>9 DEF LoopSends

\* The reader and the writers keep the types.
LEMMA PeerTypes ==
    ASSUME TypeOK, MessagesNamed, AnsweredOnce, loop # "done",
           \/ \E wellFormed \in BOOLEAN : RouteAck(wellFormed)
           \/ \E kind \in {"action", "status"} : ReadRequest(kind)
           \/ RouteRequest \/ ReaderEnds
           \/ AdapterWrites \/ NativeWrites \/ NativeWriteFails
    PROVE  TypeOK'
<1> USE DEF tasks, channels, peers, history
<1>1. ASSUME NEW wellFormed \in BOOLEAN, RouteAck(wellFormed)
      PROVE  TypeOK'
  <2>1. Head(unacked) \in Ids /\ unacked' \in Seq(Ids)
    BY <1>1 DEF RouteAck, TypeOK
  <2>2. acked' \in [Ids -> Nat]
    BY <1>1, <2>1 DEF RouteAck, TypeOK
  <2>3. pending' \in [Ids -> Tasks \cup {None}]
    BY <1>1 DEF RouteAck, TypeOK
  <2>4. oneshot' \in [Tasks -> {"empty", "ack", "protocol", "disconnected", "closed"}]
    BY <1>1, ToldTyped DEF RouteAck
  <2> QED
    BY <1>1, <2>1, <2>2, <2>3, <2>4 DEF RouteAck, TypeOK
<1>2. ASSUME NEW kind \in {"action", "status"}, ReadRequest(kind)
      PROVE  TypeOK'
  <2>1. actions' \in 0..MaxActions
    BY <1>2, ConstantsAssumption DEF ReadRequest, TypeOK
  <2> QED
    BY <1>2, <2>1 DEF ReadRequest, TypeOK
<1>3. CASE RouteRequest
  <2>1. coreIn' \in Seq({"action", "status"}) /\ Len(coreIn') <= Capacity
    BY <1>3, ChannelTyped DEF RouteRequest, TypeOK
  <2> QED
    BY <1>3, <2>1 DEF RouteRequest, TypeOK
<1>4. CASE ReaderEnds
  <2>1. pending' \in [Ids -> Tasks \cup {None}]
    BY <1>4 DEF ReaderEnds, Drain
  <2>2. oneshot' \in [Tasks -> {"empty", "ack", "protocol", "disconnected", "closed"}]
    BY <1>4, ToldTyped DEF ReaderEnds, Drain
  <2> QED
    BY <1>4, <2>1, <2>2 DEF ReaderEnds, TypeOK
<1>5. CASE AdapterWrites
  <2>1. adapterOut' \in Seq(Adapter) /\ Len(adapterOut') <= Capacity
    BY <1>5, ChannelTyped DEF AdapterWrites, TypeOK
  <2>2. Head(adapterOut).kind = "event" => Head(adapterOut).id \in Ids
    <3>1. Head(adapterOut) = adapterOut[1] /\ 1 \in 1..Len(adapterOut)
      BY <1>5 DEF AdapterWrites, TypeOK
    <3> QED
      BY <3>1 DEF MessagesNamed
  <2>3. unacked' \in Seq(Ids) /\ adapterUp' \in BOOLEAN
    <3>1. /\ \/ unacked' = unacked
             \/ /\ Head(adapterOut).kind = "event"
                /\ unacked' = Append(unacked, Head(adapterOut).id)
          /\ adapterUp' \in {adapterUp, FALSE}
      BY <1>5 DEF AdapterWrites
    <3>2. unacked \in Seq(Ids) /\ adapterUp \in BOOLEAN
      BY DEF TypeOK
    <3>3. unacked' \in Seq(Ids)
      BY <2>2, <3>1, <3>2
    <3> QED
      BY <3>1, <3>2, <3>3
  <2> QED
    BY <1>5, <2>1, <2>3 DEF AdapterWrites, TypeOK
<1>6. CASE NativeWrites
  <2>1. nativeOut' \in Seq(Native) /\ Len(nativeOut') <= Capacity
    BY <1>6, ChannelTyped DEF NativeWrites, TypeOK
  <2>2. results' \in Nat
    BY <1>6 DEF NativeWrites, TypeOK
  <2>3. owing' \in [Ids -> Nat]
    BY <1>6, OwedWhenQueued DEF NativeWrites, TypeOK
  <2> QED
    BY <1>6, <2>1, <2>2, <2>3 DEF NativeWrites, TypeOK
<1>7. CASE NativeWriteFails
  <2>1. nativeOut' \in Seq(Native) /\ Len(nativeOut') <= Capacity
    BY <1>7, ConstantsAssumption DEF NativeWriteFails
  <2> QED
    BY <1>7, <2>1 DEF NativeWriteFails, TypeOK
<1> QED
  BY <1>1, <1>2, <1>3, <1>4, <1>5, <1>6, <1>7

\* So every step keeps the types.
LEMMA StepTypes ==
    ASSUME TypeOK, TasksInPlace, MessagesNamed, AnsweredOnce, Next
    PROVE  TypeOK'
BY TaskTypes, LoopTypes, PeerTypes DEF Next

-----------------------------------------------------------------------------
(***************************************************************************)
(* Names.                                                                  *)
(***************************************************************************)

\* What is left of a channel was there before, and what is sent comes last.
LEMMA ChannelElements ==
    ASSUME NEW S, NEW q \in Seq(S)
    PROVE  /\ q # <<>> => \A i \in 1..Len(Tail(q)) :
                             \E j \in 1..Len(q) : Tail(q)[i] = q[j]
           /\ \A m \in S : \A i \in 1..Len(Append(q, m)) :
                 Append(q, m)[i] = m \/ \E j \in 1..Len(q) : Append(q, m)[i] = q[j]
           /\ Len(<<>>) = 0
<1>1. ASSUME q # <<>>, NEW i \in 1..Len(Tail(q))
      PROVE  i + 1 \in 1..Len(q) /\ Tail(q)[i] = q[i + 1]
  BY <1>1
<1>2. ASSUME NEW m \in S, NEW i \in 1..Len(Append(q, m))
      PROVE  \/ Append(q, m)[i] = m
             \/ i \in 1..Len(q) /\ Append(q, m)[i] = q[i]
  BY <1>2
<1> QED
  BY <1>1, <1>2

\* So a channel to the extension holds named messages as long as such are sent.
LEMMA NativeNamed ==
    ASSUME TypeOK, MessagesNamed, NEW m \in Native, Named(m),
           \/ nativeOut' \in {nativeOut, <<>>, Append(nativeOut, m)}
           \/ nativeOut # <<>> /\ nativeOut' = Tail(nativeOut)
    PROVE  \A i \in 1..Len(nativeOut') : Named(nativeOut'[i])
<1>1. nativeOut \in Seq(Native) /\ \A j \in 1..Len(nativeOut) : Named(nativeOut[j])
  BY DEF TypeOK, MessagesNamed
<1>2. CASE nativeOut' \in {nativeOut, <<>>}
  BY <1>1, <1>2, ChannelElements
<1>3. CASE nativeOut' = Append(nativeOut, m)
  BY <1>1, <1>3, ChannelElements
<1>4. CASE nativeOut # <<>> /\ nativeOut' = Tail(nativeOut)
  BY <1>1, <1>4, ChannelElements
<1> QED
  BY <1>2, <1>3, <1>4

\* Every step names the messages it makes.
LEMMA StepKeepsNames ==
    ASSUME TypeOK, TasksInPlace, MessagesNamed, Next
    PROVE  MessagesNamed'
<1> USE DEF tasks, channels, peers, history, Hold
<1>1. ASSUME NEW r \in Ids, TakeObservationRequest(r) \/ TakePingOrInvalid(r)
      PROVE  MessagesNamed'
  BY <1>1 DEF TakeObservationRequest, TakePingOrInvalid, Native, Named, MessagesNamed
<1>2. CASE UNCHANGED <<loop, held, adapterOut, nativeOut>>
  BY <1>2 DEF MessagesNamed, Named
<1>3. ASSUME NEW t \in Tasks, SendEvent(t)
      PROVE  MessagesNamed'
  <2>1. CASE UNCHANGED adapterOut
    BY <1>2, <1>3, <2>1 DEF SendEvent
  <2>2. CASE adapterOut' = Append(adapterOut, [kind |-> "event", id |-> idOf[t]])
    <3>1. idOf[t] \in Ids
      BY <1>3 DEF SendEvent, TasksInPlace, TypeOK
    <3>2. [kind |-> "event", id |-> idOf[t]] \in Adapter /\ adapterOut \in Seq(Adapter)
      BY <3>1 DEF Adapter, TypeOK
    <3>3. \A i \in 1..Len(adapterOut') :
             \/ adapterOut'[i] = [kind |-> "event", id |-> idOf[t]]
             \/ \E j \in 1..Len(adapterOut) : adapterOut'[i] = adapterOut[j]
      BY <2>2, <3>2, ChannelElements
    <3>4. \A i \in 1..Len(adapterOut') :
             adapterOut'[i].kind = "event" => adapterOut'[i].id \in Ids
      BY <3>1, <3>3 DEF MessagesNamed
    <3>5. UNCHANGED <<loop, held, nativeOut>>
      BY <1>3 DEF SendEvent
    <3> QED
      BY <3>4, <3>5 DEF MessagesNamed, Named
  <2> QED
    BY <1>3, <2>1, <2>2 DEF SendEvent
<1>4. ASSUME NEW t \in Tasks, AnswerEvent(t)
      PROVE  MessagesNamed'
  <2>1. idOf[t] \in Ids
    BY <1>4 DEF AnswerEvent, TasksInPlace, TypeOK
  <2>2. \A kind \in {"ack", "error"} : /\ [kind |-> kind, id |-> idOf[t]] \in Native
                                       /\ Named([kind |-> kind, id |-> idOf[t]])
    BY <2>1 DEF Native, Named
  <2>3. PICK kind \in {"ack", "error"} :
           nativeOut' \in {nativeOut, Append(nativeOut, [kind |-> kind, id |-> idOf[t]])}
    BY <1>4 DEF AnswerEvent
  <2>4. \A i \in 1..Len(nativeOut') : Named(nativeOut'[i])
    BY <2>2, <2>3, NativeNamed
  <2> QED
    BY <1>4, <2>4 DEF AnswerEvent, MessagesNamed, Named
<1>5. CASE TakeActionResult \/ TakeCoreInbound
  BY <1>5 DEF TakeActionResult, TakeCoreInbound, MessagesNamed, Named, Native, Adapter
<1>6. CASE ClientReturns
  BY <1>6 DEF ClientReturns, MessagesNamed, Named, Native
<1>7. CASE LoopSendsNative
  <2>1. held \in Native /\ Named(held) /\ nativeOut' \in {nativeOut, Append(nativeOut, held)}
    BY <1>7 DEF LoopSendsNative, MessagesNamed
  <2>2. \A i \in 1..Len(nativeOut') : Named(nativeOut'[i])
    BY <2>1, NativeNamed
  <2> QED
    BY <1>7, <2>2 DEF LoopSendsNative, MessagesNamed, Named
<1>8. CASE LoopSendsAdapter
  <2>1. /\ held \in Adapter /\ held.kind \in {"result", "status"}
        /\ held.kind = "result" => held.id \in Ids
    BY <1>8 DEF LoopSendsAdapter, MessagesNamed
  <2>2. \A i \in 1..Len(adapterOut') :
           adapterOut'[i].kind = "event" => adapterOut'[i].id \in Ids
    <3>1. adapterOut' \in {adapterOut, Append(adapterOut, held)}
      BY <1>8 DEF LoopSendsAdapter
    <3>2. \A i \in 1..Len(adapterOut') :
             \/ adapterOut'[i] = held
             \/ \E j \in 1..Len(adapterOut) : adapterOut'[i] = adapterOut[j]
      BY <2>1, <3>1, ChannelElements DEF TypeOK
    <3> QED
      BY <2>1, <3>2 DEF MessagesNamed
  <2>3. /\ nativeOut' = nativeOut
        /\ \/ loop' = "select"
           \/ /\ loop' = "toNative" /\ held' = [kind |-> "error", id |-> held.id]
              /\ held.id \in Ids
    BY <1>8, <2>1 DEF LoopSendsAdapter
  <2>4. loop' = "toNative" => held' \in Native /\ Named(held')
    BY <2>3 DEF Native, Named
  <2> QED
    BY <2>2, <2>3, <2>4 DEF MessagesNamed, Named
<1>9. CASE EndHost
  BY <1>9, ConstantsAssumption DEF EndHost, MessagesNamed, Named
<1>10. CASE AdapterWrites
  <2>1. /\ adapterOut \in Seq(Adapter) /\ adapterOut # <<>>
        /\ adapterOut' \in {Tail(adapterOut), <<>>}
    BY <1>10 DEF AdapterWrites, TypeOK
  <2>2. \A i \in 1..Len(adapterOut') :
           \E j \in 1..Len(adapterOut) : adapterOut'[i] = adapterOut[j]
    BY <2>1, ChannelElements
  <2> QED
    BY <1>10, <2>2 DEF AdapterWrites, MessagesNamed, Named
<1>11. CASE NativeWrites
  <2>1. \A i \in 1..Len(nativeOut') : Named(nativeOut'[i])
    <3>1. nativeOut \in Seq(Native) /\ nativeOut # <<>> /\ nativeOut' = Tail(nativeOut)
      BY <1>11 DEF NativeWrites, TypeOK
    <3> QED
      BY <3>1, ChannelElements DEF MessagesNamed
  <2> QED
    BY <1>11, <2>1 DEF NativeWrites, MessagesNamed, Named
<1>12. CASE NativeWriteFails
  BY <1>12 DEF NativeWriteFails, MessagesNamed, Named
<1>13. CASE \/ \E r \in Ids, t \in Tasks : TakeEvent(r, t)
            \/ \E t \in Tasks : InsertPending(t) \/ ReceiveAck(t) \/ AckTimesOut(t)
            \/ \E wellFormed \in BOOLEAN : RouteAck(wellFormed)
            \/ \E kind \in {"action", "status"} : ReadRequest(kind)
            \/ RouteRequest \/ ReaderEnds
  BY <1>2, <1>13 DEF TakeEvent, InsertPending, ReceiveAck, AckTimesOut, RouteAck, ReadRequest,
                     RouteRequest, ReaderEnds
<1> QED
  BY <1>1, <1>3, <1>4, <1>5, <1>6, <1>7, <1>8, <1>9, <1>10, <1>11, <1>12, <1>13
     DEF Next, TaskStep, LoopSends

-----------------------------------------------------------------------------
(***************************************************************************)
(* Acknowledgements are genuine.                                           *)
(***************************************************************************)

\* The tasks with this id that were told of an acknowledgement.
Acked(r) ==
    {t \in Tasks : idOf[t] = r /\ (oneshot[t] = "ack" \/ task[t] = "acknowledged")}

\* Nothing but route_adapter_request tells a task that its event was acknowledged.
LEMMA NobodyElseAcks ==
    ASSUME TypeOK, TasksInPlace, Next,
           \A wellFormed \in BOOLEAN : ~RouteAck(wellFormed)
    PROVE  /\ \A r \in Ids : Acked(r)' \subseteq Acked(r)
           /\ acked' = acked
<1> USE DEF tasks, channels, peers, history
<1>1. CASE UNCHANGED <<tasks, acked>>
  BY <1>1 DEF Acked
<1>2. ASSUME acked' = acked,
             \A t \in Tasks : oneshot'[t] = "ack" \/ task'[t] = "acknowledged" =>
                /\ oneshot[t] = "ack"
                /\ idOf'[t] = idOf[t]
      PROVE  (\A r \in Ids : Acked(r)' \subseteq Acked(r)) /\ acked' = acked
  BY <1>2 DEF Acked
<1>3. ASSUME NEW r \in Ids, NEW t \in Tasks, TakeEvent(r, t)
      PROVE  (\A s \in Ids : Acked(s)' \subseteq Acked(s)) /\ acked' = acked
  <2>1. task[t] = "unused" /\ oneshot[t] = "empty"
    BY <1>3, TakeEventFresh DEF TasksInPlace
  <2>2. \A u \in Tasks : oneshot'[u] = "ack" \/ task'[u] = "acknowledged" =>
           oneshot[u] = "ack" /\ idOf'[u] = idOf[u]
    BY <1>3, <2>1 DEF TakeEvent, TasksInPlace, TypeOK
  <2> QED
    BY <1>2, <1>3, <2>2 DEF TakeEvent
<1>4. ASSUME NEW t \in Tasks, TaskStep(t)
      PROVE  (\A s \in Ids : Acked(s)' \subseteq Acked(s)) /\ acked' = acked
  <2>1. idOf' = idOf /\ acked' = acked
    BY <1>4 DEF TaskStep, InsertPending, SendEvent, ReceiveAck, AckTimesOut, AnswerEvent
  <2>2. \A u \in Tasks : oneshot'[u] = "ack" => oneshot[u] = "ack"
    <3>1. oneshot' = oneshot \/ DropGuard(t)
      BY <1>4 DEF TaskStep, InsertPending, SendEvent, ReceiveAck, AckTimesOut, AnswerEvent
    <3> QED
      BY <3>1, ToldEach DEF DropGuard
  <2>3. \A u \in Tasks : task'[u] = "acknowledged" => oneshot[u] = "ack"
    <3>1. \E place \in {"failed", "sending", "waiting", "done", "acknowledged"} :
             /\ task' = [task EXCEPT ![t] = place]
             /\ place = "acknowledged" => oneshot[t] = "ack"
      BY <1>4 DEF TaskStep, InsertPending, SendEvent, ReceiveAck, AckTimesOut, AnswerEvent, Goto
    <3> QED
      BY <3>1 DEF TypeOK, TasksInPlace
  <2> QED
    BY <1>2, <2>1, <2>2, <2>3
<1>5. CASE EndHost \/ ReaderEnds
  <2>1. Drain /\ idOf' = idOf /\ acked' = acked
    BY <1>5 DEF EndHost, ReaderEnds
  <2>2. \A u \in Tasks : oneshot'[u] = "ack" => oneshot[u] = "ack"
    BY <2>1, ToldEach DEF Drain
  <2>3. \A u \in Tasks : task'[u] = "acknowledged" => oneshot[u] = "ack"
    BY <1>5 DEF EndHost, ReaderEnds, TasksInPlace
  <2> QED
    BY <1>2, <2>1, <2>2, <2>3
<1>6. ASSUME NEW r \in Ids, TakeObservationRequest(r) \/ TakePingOrInvalid(r)
      PROVE  (\A s \in Ids : Acked(s)' \subseteq Acked(s)) /\ acked' = acked
  BY <1>1, <1>6 DEF TakeObservationRequest, TakePingOrInvalid
<1>7. CASE \/ TakeActionResult \/ TakeCoreInbound \/ ClientReturns \/ LoopSends
           \/ RouteRequest \/ AdapterWrites \/ NativeWrites \/ NativeWriteFails
           \/ \E kind \in {"action", "status"} : ReadRequest(kind)
  BY <1>1, <1>7 DEF TakeActionResult, TakeCoreInbound, ClientReturns, LoopSends,
                    LoopSendsNative, LoopSendsAdapter, RouteRequest, AdapterWrites,
                    NativeWrites, NativeWriteFails, ReadRequest
<1> QED
  BY <1>3, <1>4, <1>5, <1>6, <1>7 DEF Next

\* An acknowledgement of Core is told to one task at most, and to one of its id.
LEMMA StepKeepsGenuine ==
    ASSUME TypeOK, Routing, AcksGenuine, Next
    PROVE  AcksGenuine'
<1>1. \A r \in Ids : Cardinality(Acked(r)) <= acked[r] /\ acked[r] \in Nat
  BY Zenon DEF AcksGenuine, Acked, TypeOK
<1>2. \A r \in Ids : IsFiniteSet(Acked(r)) /\ Cardinality(Acked(r)) \in Nat
  <2>1. \A r \in Ids : Acked(r) \in SUBSET Tasks
    BY DEF Acked
  <2> QED
    BY <2>1, TasksFinite
<1>3. SUFFICES \A r \in Ids : Cardinality(Acked(r)') <= acked'[r]
  BY <1>3, Zenon DEF AcksGenuine, Acked
<1>4. ASSUME NEW wellFormed \in BOOLEAN, RouteAck(wellFormed)
      PROVE  \A r \in Ids : Cardinality(Acked(r)') <= acked'[r]
  <2> DEFINE value == IF wellFormed THEN "ack" ELSE "protocol"
  <2>0. PICK s \in Ids : s = Head(unacked)
    BY <1>4 DEF RouteAck, TypeOK
  <2>1. /\ acked'[s] = acked[s] + 1
        /\ \A r \in Ids \ {s} : acked'[r] = acked[r]
        /\ UNCHANGED <<task, idOf>>
    BY <1>4, <2>0 DEF RouteAck, TypeOK
  <2>2. \A u \in Tasks : oneshot'[u] = IF u = pending[s] THEN value ELSE oneshot[u]
    BY <1>4, <2>0, ToldEach DEF RouteAck
  <2> HIDE DEF value
  <2>3. pending[s] \in Tasks => idOf[pending[s]] = s
    BY <2>1, Entries DEF Routing, PendingExact
  <2>4. \A r \in Ids \ {s} : Acked(r)' \subseteq Acked(r)
    BY <2>1, <2>2, <2>3 DEF Acked
  <2>5. Acked(s)' \subseteq Acked(s) \cup {pending[s]}
    BY <2>1, <2>2 DEF Acked
  <2>6. ASSUME NEW r \in Ids \ {s}
        PROVE  Cardinality(Acked(r)') <= acked'[r]
    <3>1. Cardinality(Acked(r)') <= Cardinality(Acked(r))
      BY <1>2, <2>4, FS_Subset
    <3>2. Cardinality(Acked(r)') \in Nat
      BY <1>2, <2>4, FS_Subset, FS_CardinalityType
    <3> QED
      BY <1>1, <1>2, <2>1, <3>1, <3>2
  <2>7. Cardinality(Acked(s)') <= acked'[s]
    <3>1. /\ IsFiniteSet(Acked(s) \cup {pending[s]})
          /\ Cardinality(Acked(s) \cup {pending[s]}) \in
                {Cardinality(Acked(s)), Cardinality(Acked(s)) + 1}
      BY <1>2, <2>1, FS_AddElement
    <3>2. /\ Cardinality(Acked(s)') <= Cardinality(Acked(s) \cup {pending[s]})
          /\ IsFiniteSet(Acked(s)')
      BY <2>5, <3>1, FS_Subset
    <3>3. Cardinality(Acked(s)') \in Nat
      BY <3>2, FS_CardinalityType
    <3> QED
      BY <1>1, <1>2, <2>1, <3>1, <3>2, <3>3
  <2> QED
    BY <2>6, <2>7
<1>5. CASE \A wellFormed \in BOOLEAN : ~RouteAck(wellFormed)
  <2>1. ASSUME NEW r \in Ids
        PROVE  Cardinality(Acked(r)') <= acked'[r]
    <3>1. Acked(r)' \subseteq Acked(r) /\ acked' = acked
      BY <1>5, NobodyElseAcks DEF Routing
    <3>2. Cardinality(Acked(r)') <= Cardinality(Acked(r)) /\ IsFiniteSet(Acked(r)')
      BY <1>2, <3>1, FS_Subset
    <3>3. Cardinality(Acked(r)') \in Nat
      BY <3>2, FS_CardinalityType
    <3> QED
      BY <1>1, <1>2, <3>1, <3>2, <3>3
  <2> QED
    BY <2>1
<1> QED
  BY <1>4, <1>5

-----------------------------------------------------------------------------
(***************************************************************************)
(* Every message is answered once.                                         *)
(***************************************************************************)

\* The account is balanced.
Balanced(r) ==
    owing[r] = Cardinality(Positions(nativeOut, r)) + Cardinality(Live(r)) + HeldFor(r)

\* A task that starts or stops working on an event is one more or one less.
LEMMA LiveChanges ==
    ASSUME NEW t \in Tasks, NEW r
    PROVE  /\ t \notin Live(r) /\ Live(r)' = Live(r) \cup {t} =>
                 Cardinality(Live(r)') = Cardinality(Live(r)) + 1
           /\ t \in Live(r) /\ Live(r)' = Live(r) \ {t} =>
                 Cardinality(Live(r)') = Cardinality(Live(r)) - 1
<1>1. Live(r) \in SUBSET Tasks
  BY DEF Live
<1>2. IsFiniteSet(Live(r))
  BY <1>1, TasksFinite
<1> QED
  BY <1>2, FS_AddElement, FS_RemoveElement

\* Taking a message opens the account; the answer is held, or a task works on it.
LEMMA TakingBalances ==
    ASSUME TypeOK, TasksInPlace, NEW r \in Ids, NEW s \in Ids, Balanced(s), loop = "select",
           \/ TakeObservationRequest(r) \/ TakePingOrInvalid(r)
           \/ \E t \in Tasks : TakeEvent(r, t)
    PROVE  Balanced(s)'
<1>1. /\ owing'[r] = owing[r] + 1 /\ \A u \in Ids \ {r} : owing'[u] = owing[u]
      /\ nativeOut' = nativeOut
  BY DEF TakeObservationRequest, TakePingOrInvalid, TakeEvent, Takes, TypeOK, channels
<1>2. Positions(nativeOut, s)' = Positions(nativeOut, s)
  BY <1>1 DEF Positions
<1>3. HeldFor(s) = 0
  BY DEF HeldFor
<1>4. CASE TakeObservationRequest(r) \/ TakePingOrInvalid(r)
  <2>1. Live(s)' = Live(s)
    BY <1>4 DEF TakeObservationRequest, TakePingOrInvalid, Live, tasks
  <2>2. HeldFor(s)' = IF s = r THEN 1 ELSE 0
    BY <1>4 DEF TakeObservationRequest, TakePingOrInvalid, HeldFor, Hold
  <2> QED
    BY <1>1, <1>2, <1>3, <2>1, <2>2, AccountTyped DEF Balanced
<1>5. ASSUME NEW t \in Tasks, TakeEvent(r, t)
      PROVE  Balanced(s)'
  <2>1. HeldFor(s)' = 0
    BY <1>5 DEF TakeEvent, HeldFor
  <2>2. /\ task[t] = "unused" /\ task'[t] = "spawned" /\ idOf'[t] = r
        /\ \A u \in Tasks \ {t} : task'[u] = task[u] /\ idOf'[u] = idOf[u]
    BY <1>5, TakeEventFresh DEF TakeEvent, TypeOK
  <2>3. Live(s)' = IF s = r THEN Live(s) \cup {t} ELSE Live(s)
    BY <2>2 DEF Live
  <2>4. t \notin Live(s)
    BY <2>2 DEF Live
  <2>5. Cardinality(Live(s)') = Cardinality(Live(s)) + (IF s = r THEN 1 ELSE 0)
    BY <2>3, <2>4, LiveChanges, AccountTyped
  <2> QED
    BY <1>1, <1>2, <1>3, <2>1, <2>5, AccountTyped DEF Balanced
<1> QED
  BY <1>4, <1>5

\* What the loop or a task sends, it no longer holds or works on.
LEMMA SendingBalances ==
    ASSUME TypeOK, TasksInPlace, MessagesNamed, NEW s \in Ids, Balanced(s), nativeUp,
           LoopSendsNative \/ \E t \in Tasks : AnswerEvent(t)
    PROVE  Balanced(s)'
<1> USE DEF tasks, history
<1>1. nativeOut \in Seq(Native)
  BY DEF TypeOK
<1>2. CASE LoopSendsNative
  <2>1. held \in Native /\ nativeOut' = Append(nativeOut, held) /\ owing' = owing
    BY <1>2 DEF LoopSendsNative, MessagesNamed
  <2>2. Live(s)' = Live(s)
    BY <1>2 DEF LoopSendsNative, Live
  <2>3. HeldFor(s)' = 0 /\ HeldFor(s) = IF held.id = s THEN 1 ELSE 0
    BY <1>2 DEF LoopSendsNative, HeldFor, Hold
  <2>4. Cardinality(Positions(Append(nativeOut, held), s)) =
          Cardinality(Positions(nativeOut, s)) + (IF held.id = s THEN 1 ELSE 0)
    BY <1>1, <2>1, PositionsAppend
  <2>5. Positions(nativeOut, s)' = Positions(Append(nativeOut, held), s)
    BY <2>1
  <2> QED
    BY <2>1, <2>2, <2>3, <2>4, <2>5, AccountTyped DEF Balanced
<1>3. ASSUME NEW t \in Tasks, AnswerEvent(t)
      PROVE  Balanced(s)'
  <2>1. PICK m \in Native : m.id = idOf[t] /\ nativeOut' = Append(nativeOut, m)
    <3>1. \A kind \in {"ack", "error"} : [kind |-> kind, id |-> idOf[t]] \in Native
      BY DEF Native, TypeOK
    <3> QED
      BY <1>3, <3>1 DEF AnswerEvent
  <2>2. Cardinality(Positions(Append(nativeOut, m), s)) =
          Cardinality(Positions(nativeOut, s)) + (IF idOf[t] = s THEN 1 ELSE 0)
    BY <1>1, <2>1, PositionsAppend
  <2>3. Positions(nativeOut, s)' = Positions(Append(nativeOut, m), s)
    BY <2>1
  <2>4. HeldFor(s)' = HeldFor(s) /\ owing' = owing
    BY <1>3 DEF AnswerEvent, HeldFor
  <2>5. /\ task[t] \in {"acknowledged", "failed"} /\ task'[t] = "done" /\ idOf' = idOf
        /\ \A u \in Tasks \ {t} : task'[u] = task[u]
    BY <1>3 DEF AnswerEvent, Goto, TypeOK
  <2>6. Live(s)' = IF idOf[t] = s THEN Live(s) \ {t} ELSE Live(s)
    BY <2>5 DEF Live
  <2>7. idOf[t] = s => t \in Live(s)
    BY <2>5 DEF Live
  <2>8. Cardinality(Live(s)') = Cardinality(Live(s)) - (IF idOf[t] = s THEN 1 ELSE 0)
    <3>1. CASE idOf[t] = s
      <4>1. Live(s)' = Live(s) \ {t} /\ t \in Live(s)
        BY <2>6, <2>7, <3>1
      <4> QED
        BY <3>1, <4>1, LiveChanges
    <3>2. CASE idOf[t] # s
      BY <2>6, <3>2, AccountTyped
    <3> QED
      BY <3>1, <3>2
  <2> QED
    BY <2>2, <2>3, <2>4, <2>8, AccountTyped DEF Balanced
<1> QED
  BY <1>2, <1>3

\* A refused result opens an account, for an answer that is held; an answer that was
\* written closes one.
LEMMA WritingBalances ==
    ASSUME TypeOK, MessagesNamed, NEW s \in Ids, Balanced(s), LoopSendsAdapter \/ NativeWrites
    PROVE  Balanced(s)'
<1> USE DEF tasks
<1>1. nativeOut \in Seq(Native)
  BY DEF TypeOK
<1>2. Live(s)' = Live(s)
  BY DEF LoopSendsAdapter, NativeWrites, Live
<1>3. CASE LoopSendsAdapter
  <2>1. nativeOut' = nativeOut /\ HeldFor(s) = 0
    BY <1>3 DEF LoopSendsAdapter, HeldFor
  <2>2. held.kind = "result" => held.id \in Ids
    BY <1>3 DEF LoopSendsAdapter, MessagesNamed
  <2>3. Positions(nativeOut, s)' = Positions(nativeOut, s)
    BY <2>1 DEF Positions
  <2>4. CASE ~adapterUp /\ held.kind = "result"
    <3>1. HeldFor(s)' = IF held.id = s THEN 1 ELSE 0
      BY <1>3, <2>4 DEF LoopSendsAdapter, HeldFor, Hold
    <3>2. owing' = [owing EXCEPT ![held.id] = @ + 1]
      BY <1>3, <2>4 DEF LoopSendsAdapter
    <3>3. owing'[s] = owing[s] + (IF held.id = s THEN 1 ELSE 0)
      BY <3>2, AccountTyped DEF TypeOK
    <3> QED
      BY <1>2, <2>1, <2>3, <3>1, <3>3, AccountTyped DEF Balanced
  <2>5. CASE ~(~adapterUp /\ held.kind = "result")
    <3>1. HeldFor(s)' = 0 /\ owing' = owing
      BY <1>3, <2>5 DEF LoopSendsAdapter, HeldFor, Hold
    <3> QED
      BY <1>2, <2>1, <2>3, <3>1 DEF Balanced
  <2> QED
    BY <2>4, <2>5
<1>4. CASE NativeWrites
  <2>1. nativeOut # <<>> /\ nativeOut' = Tail(nativeOut) /\ HeldFor(s)' = HeldFor(s)
    BY <1>4 DEF NativeWrites, HeldFor
  <2>2. Named(Head(nativeOut))
    <3>1. Head(nativeOut) = nativeOut[1] /\ 1 \in 1..Len(nativeOut)
      BY <1>1, <2>1
    <3> QED
      BY <3>1 DEF MessagesNamed
  <2>3. Cardinality(Positions(nativeOut, s)) =
          Cardinality(Positions(Tail(nativeOut), s)) + (IF Head(nativeOut).id = s THEN 1 ELSE 0)
    BY <1>1, <2>1, PositionsTail
  <2>4. Positions(nativeOut, s)' = Positions(Tail(nativeOut), s)
    BY <2>1
  <2>5. Cardinality(Positions(Tail(nativeOut), s)) \in Nat
    <3>1. Tail(nativeOut) \in Seq(Native)
      BY <1>1, <2>1
    <3> QED
      BY <3>1, PositionsFinite
  <2>6. owing'[s] = owing[s] - (IF Head(nativeOut).id = s THEN 1 ELSE 0)
    <3>1. CASE Head(nativeOut).kind = "action"
      <4>1. owing' = owing /\ Head(nativeOut).id # s
        BY <1>4, <2>2, <3>1, ConstantsAssumption DEF NativeWrites, Named
      <4> QED
        BY <4>1, AccountTyped
    <3>2. CASE Head(nativeOut).kind # "action"
      <4>1. owing' = [owing EXCEPT ![Head(nativeOut).id] = @ - 1]
        BY <1>4, <3>2 DEF NativeWrites
      <4> QED
        BY <4>1, AccountTyped DEF TypeOK
    <3> QED
      BY <3>1, <3>2
  <2> QED
    BY <1>2, <2>1, <2>3, <2>4, <2>5, <2>6, AccountTyped DEF Balanced
<1> QED
  BY <1>3, <1>4

\* All other steps leave the accounts alone.
LEMMA OthersBalance ==
    ASSUME TypeOK, MessagesNamed, NEW s \in Ids, Balanced(s),
           \/ TakeActionResult \/ TakeCoreInbound \/ ClientReturns
           \/ \E t \in Tasks : \/ InsertPending(t) \/ SendEvent(t) \/ ReceiveAck(t)
                               \/ AckTimesOut(t)
           \/ \E wellFormed \in BOOLEAN : RouteAck(wellFormed)
           \/ \E kind \in {"action", "status"} : ReadRequest(kind)
           \/ RouteRequest \/ ReaderEnds \/ AdapterWrites
    PROVE  Balanced(s)'
<1> USE DEF tasks, channels, history
<1>1. UNCHANGED <<owing, nativeOut>>
  BY DEF TakeActionResult, TakeCoreInbound, ClientReturns, InsertPending, SendEvent, ReceiveAck,
         AckTimesOut, RouteAck, ReadRequest, RouteRequest, ReaderEnds, AdapterWrites
<1>2. HeldFor(s)' = HeldFor(s)
  <2>1. CASE TakeActionResult
    BY <2>1 DEF TakeActionResult, HeldFor, Hold
  <2>2. CASE TakeCoreInbound
    BY <2>2, ConstantsAssumption DEF TakeCoreInbound, HeldFor, Hold
  <2>3. CASE ClientReturns
    <3>1. held \in Native
      BY <2>3 DEF ClientReturns, MessagesNamed
    <3>2. held'.id = held.id /\ loop = "requesting" /\ loop' = "toNative"
      BY <2>3, <3>1 DEF ClientReturns, Hold, Native
    <3> QED
      BY <3>2 DEF HeldFor
  <2>4. CASE UNCHANGED <<loop, held>>
    BY <2>4 DEF HeldFor
  <2> QED
    BY <2>1, <2>2, <2>3, <2>4
       DEF InsertPending, SendEvent, ReceiveAck, AckTimesOut, RouteAck, ReadRequest,
           RouteRequest, ReaderEnds, AdapterWrites
<1>3. Live(s)' = Live(s)
  <2>1. ASSUME NEW t \in Tasks,
               InsertPending(t) \/ SendEvent(t) \/ ReceiveAck(t) \/ AckTimesOut(t)
        PROVE  Live(s)' = Live(s)
    <3>1. /\ task[t] \notin {"unused", "done"} /\ idOf' = idOf
          /\ \E place \in {"failed", "sending", "waiting", "acknowledged"} :
                task' = [task EXCEPT ![t] = place]
      BY <2>1 DEF InsertPending, SendEvent, ReceiveAck, AckTimesOut, Goto
    <3>2. /\ task'[t] \notin {"unused", "done"}
          /\ \A u \in Tasks \ {t} : task'[u] = task[u]
      BY <3>1 DEF TypeOK
    <3> QED
      BY <3>1, <3>2 DEF Live
  <2>2. CASE UNCHANGED <<task, idOf>>
    BY <2>2 DEF Live
  <2> QED
    BY <2>1, <2>2 DEF TakeActionResult, TakeCoreInbound, ClientReturns, RouteAck, ReadRequest,
                      RouteRequest, ReaderEnds, AdapterWrites
<1>4. Positions(nativeOut, s)' = Positions(nativeOut, s)
  BY <1>1 DEF Positions
<1> QED
  BY <1>1, <1>2, <1>3, <1>4 DEF Balanced

\* As long as there is a writer, every step keeps all accounts balanced.
LEMMA StepKeepsAnswers ==
    ASSUME TypeOK, TasksInPlace, MessagesNamed, AnsweredOnce, Next
    PROVE  AnsweredOnce'
<1>1. CASE ~(loop' # "done" /\ nativeUp')
  BY <1>1 DEF AnsweredOnce
<1>2. CASE loop' # "done" /\ nativeUp'
  <2>1. loop # "done" /\ nativeUp
    <3>1. loop # "done" /\ ~EndHost
      BY <1>2 DEF Next, EndHost, Hold
    <3>2. nativeUp
      BY <1>2, <3>1 DEF Next, TakeObservationRequest, TakePingOrInvalid, TakeEvent,
           TakeActionResult, TakeCoreInbound, ClientReturns, LoopSends, LoopSendsNative,
           LoopSendsAdapter, TaskStep, InsertPending, SendEvent, ReceiveAck, AckTimesOut,
           AnswerEvent, RouteAck, ReadRequest, RouteRequest, ReaderEnds, AdapterWrites,
           NativeWrites, NativeWriteFails, channels
    <3> QED
      BY <3>1, <3>2
  <2>2. \A s \in Ids : Balanced(s)
    BY <2>1, Account DEF Balanced
  <2>3. ~EndHost /\ ~NativeWriteFails
    BY <1>2 DEF EndHost, Hold, NativeWriteFails
  <2>4. ASSUME NEW s \in Ids
        PROVE  Balanced(s)'
    <3>1. ASSUME NEW r \in Ids, \/ TakeObservationRequest(r) \/ TakePingOrInvalid(r)
                                \/ \E t \in Tasks : TakeEvent(r, t)
          PROVE  Balanced(s)'
      <4>1. loop = "select"
        BY <3>1 DEF TakeObservationRequest, TakePingOrInvalid, TakeEvent, Takes
      <4> QED
        BY <2>2, <3>1, <4>1, TakingBalances
    <3>2. CASE LoopSendsNative \/ \E t \in Tasks : AnswerEvent(t)
      BY <2>1, <2>2, <3>2, SendingBalances
    <3>3. CASE LoopSendsAdapter \/ NativeWrites
      BY <2>2, <3>3, WritingBalances
    <3> QED
      BY <2>2, <2>3, <3>1, <3>2, <3>3, OthersBalance DEF Next, LoopSends, TaskStep
  <2> QED
    BY <2>4, Zenon DEF AnsweredOnce, Queued, Balanced, Positions, Live, HeldFor
<1> QED
  BY <1>1, <1>2

-----------------------------------------------------------------------------
(***************************************************************************)
(* What the host promises.                                                 *)
(***************************************************************************)

\* The host starts with empty maps and channels, and owes nothing.
LEMMA InitHost ==
    Init => HostInv
<1> SUFFICES ASSUME Init
             PROVE  HostInv
  OBVIOUS
<1>1. TypeOK
  <2>1. /\ adapterOut \in Seq(Adapter) /\ Len(adapterOut) <= Capacity
        /\ nativeOut \in Seq(Native) /\ Len(nativeOut) <= Capacity
        /\ coreIn \in Seq({"action", "status"}) /\ Len(coreIn) <= Capacity
        /\ unacked \in Seq(Ids)
    BY ConstantsAssumption DEF Init
  <2>2. /\ task \in [Tasks -> {"unused", "spawned", "sending", "waiting", "acknowledged",
                               "failed", "done"}]
        /\ idOf \in [Tasks -> Ids \cup {None}]
        /\ oneshot \in [Tasks -> {"empty", "ack", "protocol", "disconnected", "closed"}]
        /\ pending \in [Ids -> Tasks \cup {None}]
        /\ owing \in [Ids -> Nat] /\ acked \in [Ids -> Nat]
    BY DEF Init
  <2>3. actions \in 0..MaxActions /\ messages \in 0..MaxMessages /\ results \in Nat
    BY ConstantsAssumption DEF Init
  <2> QED
    BY <2>1, <2>2, <2>3 DEF Init, TypeOK
<1>2. TasksInPlace
  <2>1. 0 \in 0..MaxTasks /\ \A t \in Tasks : ~(t <= 0)
    BY ConstantsAssumption DEF Tasks
  <2>2. \A t \in Tasks : task[t] = "unused" /\ idOf[t] = None /\ oneshot[t] = "empty"
    BY DEF Init
  <2> QED
    BY <2>1, <2>2 DEF TasksInPlace
<1>3. SendersUnused /\ PendingExact /\ MessagesNamed
  BY DEF Init, SendersUnused, PendingExact, MessagesNamed
<1>4. \A r \in Ids : Cardinality(Acked(r)) <= acked[r]
  <2>1. \A r \in Ids : Acked(r) = {} /\ acked[r] = 0
    BY DEF Init, Acked
  <2> QED
    BY <2>1, FS_EmptySet
<1>5. AcksGenuine
  BY <1>4, Zenon DEF AcksGenuine, Acked
<1>6. AnsweredOnce
  <2>1. ASSUME NEW r \in Ids
        PROVE  Balanced(r)
    <3>1. Positions(nativeOut, r) = {} /\ Live(r) = {} /\ HeldFor(r) = 0 /\ owing[r] = 0
      BY DEF Init, Positions, Live, HeldFor
    <3> QED
      BY <3>1, FS_EmptySet DEF Balanced
  <2> QED
    BY <2>1, Account DEF Balanced
<1> QED
  BY <1>1, <1>2, <1>3, <1>5, <1>6 DEF HostInv

\* The invariant holds in every reachable state.
LEMMA Invariance ==
    Spec => []HostInv
<1>1. HostInv /\ [Next]_vars => HostInv'
  <2> SUFFICES ASSUME HostInv, [Next]_vars
               PROVE  HostInv'
    OBVIOUS
  <2>1. CASE Next
    BY <2>1, StepTypes, StepKeepsRouting, StepKeepsNames, StepKeepsGenuine, StepKeepsAnswers
       DEF HostInv, Routing
  <2>2. CASE UNCHANGED vars
    <3> USE <2>2 DEF HostInv, vars, tasks, channels, peers, history
    <3>1. TypeOK' /\ TasksInPlace' /\ SendersUnused' /\ PendingExact' /\ MessagesNamed'
      BY DEF TypeOK, TasksInPlace, SendersUnused, PendingExact, MessagesNamed, Named
    <3>2. AcksGenuine'
      BY DEF AcksGenuine
    <3>3. AnsweredOnce'
      BY DEF AnsweredOnce, Queued
    <3> QED
      BY <3>1, <3>2, <3>3
  <2> QED
    BY <2>1, <2>2
<1> QED
  BY <1>1, InitHost, PTL DEF Spec

\* The tasks, maps and channels of the host keep the types the code gives them.
THEOREM HostTypeCorrect ==
    Spec => []TypeOK
BY Invariance, PTL DEF HostInv

\* The map of pending acknowledgements has the entries of the tasks that wait, and a
\* waiting task that was told nothing has its entry: PendingEventAckGuard, the timeouts,
\* a reused request id and drain_pending_event_acks leave neither behind.
THEOREM HostPendingExact ==
    Spec => []PendingExact
BY Invariance, PTL DEF HostInv

\* The extension hears of an acknowledgement at most as often as Core acknowledged an
\* event with that request id, however tasks, timeouts and reused ids overlap.
THEOREM AcksAlwaysGenuine ==
    Spec => []AcksGenuine
BY Invariance, PTL DEF HostInv

\* While the host can write, each message that must be answered is held by the loop,
\* worked on by a task, or has one answer in the channel; no request id has more.
THEOREM AlwaysAnsweredOnce ==
    Spec => []AnsweredOnce
BY Invariance, PTL DEF HostInv
=============================================================================
