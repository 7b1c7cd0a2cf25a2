------------------------- MODULE DaemonServerProofs -------------------------
(***************************************************************************)
(* Proofs about DaemonServer: the types, the schema across migrations and  *)
(* crashes, and what daemons leave to each other.                          *)
(***************************************************************************)
EXTENDS DaemonServer, TLAPS

DaemonsTyped ==
    daemon \in [Daemons -> [phase : DaemonPhases, check : 0..SchemaVersion, cause : Causes]]

DatabaseTyped ==
    db \in [version : InitialVersions \cup 0..SchemaVersion,
            batches : SUBSET (1..SchemaVersion),
            rows    : [Events -> {"absent", "legacy", "tagged"}]]

Records ==
    /\ DaemonsTyped
    /\ DatabaseTyped
    /\ overlapped \in SUBSET Daemons
    /\ socket \in Daemons \cup {"file", None}
    /\ writing \in Daemons \cup {None}

Connections ==
    conn \in [Clients -> [phase   : ConnPhases,
                          daemon  : Daemons \cup {None},
                          request : Requests \cup {None},
                          answer  : Answers \cup {None}]]

-----------------------------------------------------------------------------
(***************************************************************************)
(* What a connection's step does to the daemons and the database.          *)
(***************************************************************************)

\* Of all steps of clients and their tasks only insert_event changes the database,
\* and it adds a row of the present form.
LEMMA ClientFrame ==
    ASSUME NEW k \in Clients, ClientStep(k)
    PROVE  /\ UNCHANGED <<socket, writing, daemon, overlapped>>
           /\ db' = db \/ \E e : db' = [db EXCEPT !.rows[e] = "tagged"]
<1>1. CASE TaskStep(k)
  BY <1>1 DEF TaskStep, StoreEvent, ListEvents, AnswerOther, process
<1>2. CASE Connect(k) \/ Hangup(k) \/ Accept(k) \/ BrokenFrame(k)
  BY <1>2 DEF Connect, Hangup, Accept, BrokenFrame, process
<1>3. CASE \E frame \in Frames : Handshake(k, frame) \/ ReadRequest(k, frame)
  BY <1>3 DEF Handshake, ReadRequest, process
<1>4. CASE WriteAnswer(k) \/ ShutdownConnection(k)
  BY <1>4 DEF WriteAnswer, ShutdownConnection, process
<1> QED
  BY <1>1, <1>2, <1>3, <1>4 DEF ClientStep

-----------------------------------------------------------------------------
(***************************************************************************)
(* Types.                                                                  *)
(***************************************************************************)

\* An answer that a task is to write keeps the type of the connections.
LEMMA AnswerTyped ==
    ASSUME NEW k \in Clients, Connections, NEW answer \in Answers, AnswerWith(k, answer)
    PROVE  Connections'
<1> DEFINE c == [conn[k] EXCEPT !.phase = "answering", !.answer = answer]
<1>1. /\ conn[k] \in [phase : ConnPhases, daemon : Daemons \cup {None},
                      request : Requests \cup {None}, answer : Answers \cup {None}]
      /\ "answering" \in ConnPhases
  BY DEF Connections, ConnPhases
<1>2. c \in [phase : ConnPhases, daemon : Daemons \cup {None},
             request : Requests \cup {None}, answer : Answers \cup {None}]
  BY <1>1
<1>3. conn' = [conn EXCEPT ![k] = c]
  BY DEF AnswerWith
<1> HIDE DEF c
<1> QED
  BY <1>2, <1>3 DEF Connections

\* Every step of a client or of its task keeps the type of the connections.
LEMMA ClientKeepsConnections ==
    ASSUME NEW k \in Clients, Connections, ClientStep(k)
    PROVE  Connections'
<1> USE DEF ConnPhases, Connection, Proceed, Close, Closed
<1>0. {"ack", "refused", "stored", "duplicate", "listed", "error"} \subseteq Answers
  BY DEF Answers
<1>1. CASE Connect(k)
  BY <1>1 DEF Connect, Connections
<1>2. CASE Hangup(k) \/ Accept(k) \/ BrokenFrame(k) \/ ShutdownConnection(k)
  BY <1>2 DEF Hangup, Accept, BrokenFrame, ShutdownConnection, Connections
<1>3. ASSUME NEW frame \in Frames, Handshake(k, frame)
      PROVE  Connections'
  BY <1>0, <1>3, AnswerTyped DEF Handshake
<1>4. ASSUME NEW frame \in Frames, ReadRequest(k, frame)
      PROVE  Connections'
  <2>1. CASE frame.kind \in {"hello", "major", "semantic"}
    BY <1>0, <1>4, <2>1, AnswerTyped DEF ReadRequest
  <2>2. CASE frame.kind \notin {"hello", "major", "semantic"}
    <3>1. frame \in Requests
      BY <2>2 DEF Frames
    <3> DEFINE c == [conn[k] EXCEPT !.phase = "processing", !.request = frame]
    <3>2. c \in [phase : ConnPhases, daemon : Daemons \cup {None},
                 request : Requests \cup {None}, answer : Answers \cup {None}]
      BY <3>1 DEF Connections
    <3>3. conn' = [conn EXCEPT ![k] = c]
      BY <1>4, <2>2 DEF ReadRequest
    <3> HIDE DEF c
    <3> QED
      BY <3>2, <3>3 DEF Connections
  <2> QED
    BY <2>1, <2>2
<1>5. CASE TaskStep(k)
  BY <1>0, <1>5, AnswerTyped DEF TaskStep, StoreEvent, ListEvents, AnswerOther
<1>6. CASE WriteAnswer(k)
  BY <1>6 DEF WriteAnswer, Connections
<1> QED
  BY <1>1, <1>2, <1>3, <1>4, <1>5, <1>6 DEF ClientStep

\* The four ways in which a step changes a daemon's record keep its type: the next phase,
LEMMA EnterTyped ==
    ASSUME NEW d \in Daemons, DaemonsTyped, NEW phase \in DaemonPhases, Enter(d, phase)
    PROVE  DaemonsTyped'
BY DEF DaemonsTyped, Enter

\* the end of the process,
LEMMA EndedTyped ==
    ASSUME NEW d \in Daemons, DaemonsTyped, NEW phase \in DaemonPhases,
           NEW cause \in Causes, Ended(d, phase, cause)
    PROVE  DaemonsTyped'
<1>1. [phase |-> phase, check |-> 0, cause |-> cause]
        \in [phase : DaemonPhases, check : 0..SchemaVersion, cause : Causes]
  BY DEF SchemaVersion
<1> QED
  BY <1>1 DEF DaemonsTyped, Ended

\* a start that ends with an error,
LEMMA FailTyped ==
    ASSUME NEW d \in Daemons, DaemonsTyped, NEW cause \in Causes, Fail(d, cause)
    PROVE  DaemonsTyped'
<1>1. "failed" \in DaemonPhases
  BY DEF DaemonPhases
<1> QED
  BY <1>1, EndedTyped DEF Fail

\* and the next version that migrate compares with.
LEMMA NextCheckTyped ==
    ASSUME NEW d \in Daemons, DaemonsTyped, daemon[d].check < SchemaVersion, NextCheck(d)
    PROVE  DaemonsTyped'
<1>1. daemon[d].check + 1 \in 0..SchemaVersion
  BY DEF DaemonsTyped, SchemaVersion
<1>2. {"recovering", "migrating"} \subseteq DaemonPhases
  BY DEF DaemonPhases
<1> QED
  BY <1>1, <1>2 DEF DaemonsTyped, NextCheck

-----------------------------------------------------------------------------
(***************************************************************************)
(* The schema.  SchemaWhole is not inductive: that a commit adds the next  *)
(* batch and no other rests on what a daemon still knows about a version   *)
(* it has read before others could write.                                  *)
(***************************************************************************)

\* A daemon that migrates has not passed the version, which is one it knows.
NotPassed(d) ==
    /\ daemon[d].phase \in {"new", "opening"} => daemon[d].check = 0
    /\ daemon[d].phase \in {"migrating", "transaction"} =>
          /\ daemon[d].check < SchemaVersion
          /\ daemon[d].check <= db.version
          /\ db.version <= SchemaVersion

\* The holder of the lock is in its transaction, and the version is the one it read.
LockSound ==
    \A d \in Daemons : writing = d => /\ daemon[d].phase = "transaction"
                                      /\ db.version = daemon[d].check

SchemaInv ==
    /\ Records
    /\ \A d \in Daemons : NotPassed(d)
    /\ LockSound
    /\ SchemaWhole

\* The steps of start_server keep the types.
LEMMA StartKeepsRecords ==
    ASSUME NEW d \in Daemons, SchemaInv, StartStep(d)
    PROVE  Records'
<1> USE DEF SchemaInv, Records
<1>0. /\ {"opening", "migrating", "transaction", "recovering", "binding", "serving"}
            \subseteq DaemonPhases
      /\ {"occupied", "unsupported", "exists", "busy", "address in use", "io"} \subseteq Causes
  BY DEF DaemonPhases, Causes, Failures
<1>1. CASE RemoveStaleSocket(d)
  BY <1>0, <1>1, EnterTyped, FailTyped DEF RemoveStaleSocket, Overlap, DatabaseTyped
<1>2. CASE OpenDatabase(d)
  BY <1>0, <1>2, EnterTyped, FailTyped DEF OpenDatabase, DatabaseTyped
<1>3. CASE SkipMigration(d)
  BY <1>3, NextCheckTyped DEF SkipMigration, NotPassed, DatabaseTyped
<1>4. CASE BeginMigration(d)
  BY <1>0, <1>4, EnterTyped DEF BeginMigration, DatabaseTyped
<1>5. CASE FirstStatement(d)
  BY <1>0, <1>5, FailTyped DEF FirstStatement, DatabaseTyped, DaemonsTyped
<1>6. CASE BusyTimeout(d)
  BY <1>0, <1>6, FailTyped DEF BusyTimeout, DatabaseTyped
<1>7. CASE CommitMigration(d)
  <2>1. DaemonsTyped'
    BY <1>7, NextCheckTyped DEF CommitMigration, NotPassed
  <2>2. daemon[d].check + 1 \in 1..SchemaVersion
    BY <1>7 DEF CommitMigration, NotPassed, DaemonsTyped, SchemaVersion
  <2>3. DatabaseTyped'
    BY <1>7, <2>2 DEF CommitMigration, Migrated, Normalised, DatabaseTyped, SchemaVersion
  <2> QED
    BY <1>7, <2>1, <2>3 DEF CommitMigration
<1>8. CASE AbortRunningExecutions(d)
  BY <1>0, <1>8, EnterTyped DEF AbortRunningExecutions, DatabaseTyped
<1>9. CASE Bind(d)
  BY <1>0, <1>9, EnterTyped, FailTyped DEF Bind, DatabaseTyped
<1>10. CASE StartFails(d)
  BY <1>0, <1>10, FailTyped DEF StartFails, DatabaseTyped
<1> QED
  BY <1>1, <1>2, <1>3, <1>4, <1>5, <1>6, <1>7, <1>8, <1>9, <1>10 DEF StartStep

\* Shutdown, a failed accept and a crash keep the types.
LEMMA EndKeepsRecords ==
    ASSUME NEW d \in Daemons, Records, EndStep(d)
    PROVE  Records'
<1> USE DEF Records, DatabaseTyped
<1>0. {"draining", "closing", "deaf", "gone"} \subseteq DaemonPhases /\ None \in Causes
  BY DEF DaemonPhases, Causes
<1>1. CASE SignalShutdown(d)
  BY <1>0, <1>1, EnterTyped, EndedTyped DEF SignalShutdown
<1>2. CASE StopStorage(d)
  BY <1>0, <1>2, EnterTyped DEF StopStorage
<1>3. CASE RemoveSocket(d)
  BY <1>0, <1>3, EndedTyped DEF RemoveSocket
<1>4. CASE AcceptFails(d)
  BY <1>0, <1>4, EnterTyped DEF AcceptFails
<1>5. CASE Crash(d)
  BY <1>0, <1>5, EndedTyped DEF Crash
<1> QED
  BY <1>1, <1>2, <1>3, <1>4, <1>5 DEF EndStep

\* Every step keeps the types.
LEMMA StepKeepsTypes ==
    ASSUME SchemaInv, Connections, [Next]_vars
    PROVE  Records' /\ Connections'
<1>1. ASSUME NEW d \in Daemons, StartStep(d)
      PROVE  Records' /\ Connections'
  <2>1. UNCHANGED conn
    BY <1>1 DEF StartStep, RemoveStaleSocket, OpenDatabase, SkipMigration, BeginMigration,
                FirstStatement, BusyTimeout, CommitMigration, AbortRunningExecutions, Bind,
                StartFails
  <2> QED
    BY <1>1, <2>1, StartKeepsRecords DEF Connections
<1>2. ASSUME NEW d \in Daemons, EndStep(d)
      PROVE  Records' /\ Connections'
  <2>1. Records'
    BY <1>2, EndKeepsRecords DEF SchemaInv
  <2>2. UNCHANGED conn \/ CloseAll(d)
    BY <1>2 DEF EndStep, SignalShutdown, StopStorage, RemoveSocket, AcceptFails, Crash
  <2>3. Connections'
    BY <2>2 DEF Connections, CloseAll, Closed, Connection, ConnPhases
  <2> QED
    BY <2>1, <2>3
<1>3. ASSUME NEW k \in Clients, ClientStep(k)
      PROVE  Records' /\ Connections'
  <2>1. Connections'
    BY <1>3, ClientKeepsConnections
  <2>2. Records'
    BY <1>3, ClientFrame DEF SchemaInv, Records, DaemonsTyped, DatabaseTyped
  <2> QED
    BY <2>1, <2>2
<1>4. CASE Finished \/ UNCHANGED vars
  BY <1>4 DEF Finished, vars, SchemaInv, Records, DaemonsTyped, DatabaseTyped, Connections
<1> QED
  BY <1>1, <1>2, <1>3, <1>4 DEF Next

\* A daemon that has come as far as its recovery has the current version.
Current(d) ==
    daemon[d].phase \in {"recovering", "binding", "serving", "draining", "closing", "deaf"}
      => db.version = SchemaVersion

OthersKept(d) == \A o \in Daemons \ {d} : daemon'[o] = daemon[o]

\* A step of one daemon that commits nothing.
LEMMA NoCommitKeepsSchema ==
    ASSUME SchemaInv, Records', NEW d \in Daemons, OthersKept(d),
           UNCHANGED db, writing' \in {writing, None, d},
           NotPassed(d)', Current(d)',
           writing' = d => /\ daemon'[d].phase = "transaction"
                           /\ db.version = daemon'[d].check
    PROVE  SchemaInv'
<1>1. \A o \in Daemons : NotPassed(o)'
  BY DEF SchemaInv, NotPassed, OthersKept
<1>2. LockSound'
  BY ConstantsAssumption DEF SchemaInv, LockSound, OthersKept
<1>3. SchemaWhole'
  BY DEF SchemaInv, SchemaWhole, Current, OthersKept
<1> QED
  BY <1>1, <1>2, <1>3 DEF SchemaInv

\* With the lock the version is the one the daemon has read, so that the commit adds
\* the batch that is missing.
LEMMA CommitKeepsSchema ==
    ASSUME SchemaInv, Records', NEW d \in Daemons, CommitMigration(d)
    PROVE  SchemaInv'
<1> DEFINE n == daemon[d].check
<1>1. /\ n \in Nat /\ n < SchemaVersion /\ db.version = n
      /\ db.batches = 1..n
  BY DEF CommitMigration, SchemaInv, NotPassed, LockSound, SchemaWhole, Records, DaemonsTyped,
         SchemaVersion
<1>2. /\ db'.version = n + 1
      /\ db'.batches = 1..(n + 1)
      /\ n + 1 = SchemaVersion => \A e \in Events : db'.rows[e] # "legacy"
  BY <1>1 DEF CommitMigration, Migrated, Normalised
<1>3. /\ daemon'[d].phase = IF n + 1 = SchemaVersion THEN "recovering" ELSE "migrating"
      /\ daemon'[d].check = n + 1
      /\ OthersKept(d)
  BY DEF CommitMigration, NextCheck, SchemaInv, Records, DaemonsTyped, OthersKept
<1>4. \A o \in Daemons : NotPassed(o)'
  <2>1. NotPassed(d)'
    BY <1>1, <1>2, <1>3 DEF NotPassed, SchemaVersion
  <2>2. ASSUME NEW o \in Daemons \ {d}
        PROVE  NotPassed(o)'
    <3>1. daemon[o].check \in Nat
      BY DEF SchemaInv, Records, DaemonsTyped
    <3> QED
      BY <1>1, <1>2, <1>3, <3>1 DEF SchemaInv, NotPassed, OthersKept, SchemaVersion
  <2> QED
    BY <2>1, <2>2
<1>5. LockSound'
  BY ConstantsAssumption DEF CommitMigration, LockSound
<1>6. SchemaWhole'
  <2>1. ASSUME NEW o \in Daemons PROVE Current(o)'
    BY <1>1, <1>2, <1>3 DEF Current, SchemaInv, SchemaWhole, OthersKept, SchemaVersion
  <2> QED
    BY <1>1, <1>2, <2>1 DEF SchemaWhole, Current, SchemaVersion
<1> QED
  BY <1>4, <1>5, <1>6 DEF SchemaInv

\* What an older daemon, this one or a newer one has left is whole.
LEMMA InitSchema ==
    ASSUME Init
    PROVE  SchemaInv /\ Connections
<1>1. PICK v \in InitialVersions :
        db = [version |-> v,
              batches |-> (1..v) \cap (1..SchemaVersion),
              rows    |-> [e \in Events |->
                             IF e \notin LegacyEvents \/ v = 0 THEN "absent"
                             ELSE IF v < SchemaVersion THEN "legacy" ELSE "tagged"]]
  BY DEF Init
<1>2. v \in Nat
  BY ConstantsAssumption
<1>3. DatabaseTyped
  BY <1>1, <1>2 DEF DatabaseTyped, SchemaVersion
<1>4. /\ DaemonsTyped
      /\ \A d \in Daemons : daemon[d].phase = "new" /\ daemon[d].check = 0
  BY DEF Init, DaemonsTyped, DaemonPhases, Causes, SchemaVersion
<1>5. Records
  BY <1>3, <1>4 DEF Init, Records
<1>6. (\A d \in Daemons : NotPassed(d)) /\ LockSound
  BY <1>4, ConstantsAssumption DEF Init, NotPassed, LockSound
<1>7. SchemaWhole
  BY <1>1, <1>2, <1>4 DEF SchemaWhole, SchemaVersion
<1>8. Connections
  BY DEF Init, Connections, Connection, ConnPhases
<1> QED
  BY <1>5, <1>6, <1>7, <1>8 DEF SchemaInv

\* Every step of start_server keeps the schema whole: those of migrate that commit nothing
\* leave what others know of the version, the first statement finds its batch missing only
\* if the version is still the one that was read.
LEMMA StartKeepsSchema ==
    ASSUME SchemaInv, NEW d \in Daemons, StartStep(d)
    PROVE  SchemaInv'
<1>0. Records'
  BY StartKeepsRecords
<1>1. /\ Records /\ NotPassed(d) /\ Current(d)
      /\ writing = d => daemon[d].phase = "transaction" /\ db.version = daemon[d].check
      /\ daemon[d] \in [phase : DaemonPhases, check : 0..SchemaVersion, cause : Causes]
      /\ db.version \in Nat
      /\ d # None
  <2>1. Records /\ NotPassed(d) /\ LockSound
    BY DEF SchemaInv
  <2>2. Current(d)
    <3>1. SchemaWhole
      BY DEF SchemaInv
    <3> QED
      BY <3>1 DEF SchemaWhole, Current
  <2>3. db.version \in InitialVersions \cup 0..SchemaVersion
    BY <2>1 DEF Records, DatabaseTyped
  <2>4. db.version \in Nat
    <3>1. InitialVersions \subseteq Nat /\ 0..SchemaVersion \subseteq Nat
      BY ConstantsAssumption DEF SchemaVersion
    <3> QED
      BY <2>3, <3>1
  <2>5. d # None
    BY ConstantsAssumption
  <2> QED
    BY <2>1, <2>2, <2>4, <2>5 DEF LockSound, Records, DaemonsTyped
<1>2. CASE UNCHANGED db
  <2>1. ASSUME NEW phase, Enter(d, phase)
        PROVE  daemon'[d].phase = phase /\ daemon'[d].check = daemon[d].check /\ OthersKept(d)
    BY <1>1, <2>1 DEF Enter, OthersKept, Records, DaemonsTyped
  <2>2. ASSUME NEW cause, Fail(d, cause)
        PROVE  daemon'[d].phase = "failed" /\ OthersKept(d)
    BY <1>1, <2>2 DEF Fail, Ended, OthersKept, Records, DaemonsTyped
  <2>3. ASSUME NextCheck(d)
        PROVE  /\ daemon'[d].check = daemon[d].check + 1
               /\ daemon'[d].phase = IF daemon[d].check + 1 = SchemaVersion
                                     THEN "recovering" ELSE "migrating"
               /\ OthersKept(d)
    BY <1>1, <2>3 DEF NextCheck, OthersKept, Records, DaemonsTyped
  <2> DEFINE Kept == /\ OthersKept(d) /\ NotPassed(d)' /\ Current(d)'
                     /\ writing' \in {writing, None, d}
                     /\ writing' = d => /\ daemon'[d].phase = "transaction"
                                        /\ db.version = daemon'[d].check
  <2>4. ASSUME RemoveStaleSocket(d) PROVE Kept
    BY <1>1, <1>2, <2>1, <2>2, <2>4 DEF RemoveStaleSocket, NotPassed, Current
  <2>5. ASSUME OpenDatabase(d) PROVE Kept
    BY <1>1, <1>2, <2>1, <2>2, <2>5 DEF OpenDatabase, NotPassed, Current, SchemaVersion
  <2>6. ASSUME SkipMigration(d) PROVE Kept
    BY <1>1, <1>2, <2>3, <2>6 DEF SkipMigration, NotPassed, Current, SchemaVersion
  <2>7. ASSUME BeginMigration(d) PROVE Kept
    BY <1>1, <1>2, <2>1, <2>7 DEF BeginMigration, NotPassed, Current
  <2>8. ASSUME FirstStatement(d) PROVE Kept
    <3>1. CASE daemon[d].check + 1 \in db.batches
      BY <1>1, <1>2, <2>2, <2>8, <3>1 DEF FirstStatement, NotPassed, Current
    <3>2. CASE daemon[d].check + 1 \notin db.batches
      <4>1. db.version = daemon[d].check
        BY <1>1, <2>8, <3>2 DEF FirstStatement, SchemaInv, SchemaWhole, NotPassed, SchemaVersion
      <4> QED
        BY <1>1, <1>2, <2>8, <3>2, <4>1 DEF FirstStatement, NotPassed, Current, OthersKept
    <3> QED
      BY <3>1, <3>2
  <2>9. ASSUME BusyTimeout(d) PROVE Kept
    BY <1>1, <1>2, <2>2, <2>9 DEF BusyTimeout, NotPassed, Current
  <2>10. ASSUME AbortRunningExecutions(d) PROVE Kept
    BY <1>1, <1>2, <2>1, <2>10 DEF AbortRunningExecutions, NotPassed, Current
  <2>11. ASSUME Bind(d) PROVE Kept
    <3>1. Enter(d, "serving") \/ Fail(d, "address in use")
      BY <2>11 DEF Bind
    <3>2. /\ OthersKept(d)
          /\ \/ daemon'[d].phase = "serving" /\ daemon'[d].check = daemon[d].check
             \/ daemon'[d].phase = "failed"
      BY <2>1, <2>2, <3>1
    <3> QED
      BY <1>1, <1>2, <2>11, <3>2 DEF Bind, NotPassed, Current
  <2>12. ASSUME StartFails(d) PROVE Kept
    BY <1>1, <1>2, <2>2, <2>12 DEF StartFails, NotPassed, Current
  <2>13. CASE CommitMigration(d)
    BY <2>13, CommitKeepsSchema, <1>0
  <2> QED
    BY <1>0, <1>2, <2>4, <2>5, <2>6, <2>7, <2>8, <2>9, <2>10, <2>11, <2>12, <2>13,
       NoCommitKeepsSchema DEF StartStep
<1>3. CASE db' # db
  BY <1>0, <1>3, CommitKeepsSchema
     DEF StartStep, RemoveStaleSocket, OpenDatabase, SkipMigration, BeginMigration,
         FirstStatement, BusyTimeout, AbortRunningExecutions, Bind, StartFails
<1> QED
  BY <1>2, <1>3

\* The end of a daemon commits nothing, and the lock goes with it.
LEMMA EndKeepsSchema ==
    ASSUME SchemaInv, NEW d \in Daemons, EndStep(d)
    PROVE  SchemaInv'
<1>0. Records /\ Records'
  BY EndKeepsRecords DEF SchemaInv
<1>1. UNCHANGED db
  BY DEF EndStep, SignalShutdown, StopStorage, RemoveSocket, AcceptFails, Crash
<1>2. Current(d)
  <2>1. SchemaWhole
    BY DEF SchemaInv
  <2> QED
    BY <2>1 DEF SchemaWhole, Current
<1>3. /\ d # None
      /\ writing = d => daemon[d].phase = "transaction"
  BY ConstantsAssumption DEF SchemaInv, LockSound
<1>4. /\ OthersKept(d)
      /\ daemon'[d].phase \in {"draining", "closing", "deaf", "gone"}
      /\ daemon'[d].phase = "gone" \/ daemon[d].phase \in {"serving", "deaf", "draining"}
      /\ writing' \in {writing, None} /\ writing' # d
  <2> USE <1>0, <1>3 DEF Records, DaemonsTyped, OthersKept
  <2>1. CASE SignalShutdown(d) \/ StopStorage(d) \/ AcceptFails(d)
    BY <2>1 DEF SignalShutdown, StopStorage, AcceptFails, Enter, Ended
  <2>2. CASE RemoveSocket(d) \/ Crash(d)
    BY <2>2 DEF RemoveSocket, Crash, Ended
  <2> QED
    BY <2>1, <2>2 DEF EndStep
<1>5. NotPassed(d)' /\ Current(d)'
  BY <1>1, <1>2, <1>4 DEF NotPassed, Current
<1> QED
  BY <1>0, <1>1, <1>4, <1>5, NoCommitKeepsSchema

\* A row in the present form leaves the schema whole.
LEMMA ClientKeepsSchema ==
    ASSUME SchemaInv, Records', NEW k \in Clients, ClientStep(k)
    PROVE  SchemaInv'
<1>1. /\ UNCHANGED <<writing, daemon>>
      /\ db' = db \/ \E e : db' = [db EXCEPT !.rows[e] = "tagged"]
  BY ClientFrame
<1>2. /\ db'.version = db.version
      /\ db'.batches = db.batches
      /\ \A e \in Events : db'.rows[e] \in {db.rows[e], "tagged"}
  BY <1>1 DEF SchemaInv, Records, DatabaseTyped
<1>3. (\A d \in Daemons : NotPassed(d)') /\ LockSound'
  BY <1>1, <1>2 DEF SchemaInv, NotPassed, LockSound
<1>4. SchemaWhole'
  BY <1>1, <1>2 DEF SchemaInv, SchemaWhole
<1> QED
  BY <1>3, <1>4 DEF SchemaInv

\* The invariant is inductive.
LEMMA SchemaStep ==
    ASSUME SchemaInv, Connections, [Next]_vars
    PROVE  SchemaInv' /\ Connections'
<1>1. Records' /\ Connections'
  BY StepKeepsTypes
<1>2. CASE Finished \/ UNCHANGED vars
  BY <1>1, <1>2 DEF Finished, vars, SchemaInv, NotPassed, LockSound, SchemaWhole
<1> QED
  BY <1>1, <1>2, StartKeepsSchema, EndKeepsSchema, ClientKeepsSchema DEF Next

\* Every variable keeps its type: the phases of daemons and of connection tasks, the
\* versions that migrate has looked at, what is committed.
THEOREM TypeCorrect == Spec => []TypeOK
<1>1. Init => SchemaInv /\ Connections
  BY InitSchema
<1>2. SchemaInv /\ Connections /\ [Next]_vars => SchemaInv' /\ Connections'
  BY SchemaStep
<1>3. SchemaInv /\ Connections => TypeOK
  BY DEF SchemaInv, Records, DaemonsTyped, DatabaseTyped, Connections, TypeOK
<1> QED
  BY <1>1, <1>2, <1>3, PTL DEF Spec

\* However many daemons migrate at once, and wherever in migrate they die or fail, the
\* tables that exist are those of the recorded version, version 4 has no payload of the
\* old form, and no daemon recovers or serves on another version.
THEOREM SchemaAlwaysWhole == Spec => []SchemaWhole
<1>1. Init => SchemaInv /\ Connections
  BY InitSchema
<1>2. SchemaInv /\ Connections /\ [Next]_vars => SchemaInv' /\ Connections'
  BY SchemaStep
<1>3. SchemaInv => SchemaWhole
  BY DEF SchemaInv
<1> QED
  BY <1>1, <1>2, <1>3, PTL DEF Spec

-----------------------------------------------------------------------------
(***************************************************************************)
(* What one daemon leaves to the next.  Neither property is inductive: what *)
(* a lone daemon finds at the path and in the database was left by itself  *)
(* from one step of its start to the next.                                 *)
(***************************************************************************)

Starting == {"opening", "migrating", "transaction", "recovering", "binding"}

Harmful == {"exists", "busy", "address in use"}

\* A daemon that never met another one: nobody else is alive, the version it read still
\* holds in its transaction, and the path has nothing or its own socket.
Lone(d) ==
    d \notin overlapped =>
        /\ Alive(d) => \A o \in Daemons \ {d} : ~Alive(o)
        /\ daemon[d].phase = "transaction" => db.version = daemon[d].check
        /\ daemon[d].phase \in Starting => socket = None
        /\ daemon[d].phase = "serving" => socket = d
        /\ daemon[d].cause \notin Harmful

LoneInv == \A d \in Daemons : Lone(d)

\* A daemon's step is its own, and only its start can make others overlap.
LEMMA DaemonFrame ==
    ASSUME Records, NEW d \in Daemons, StartStep(d) \/ EndStep(d)
    PROVE  /\ OthersKept(d)
           /\ overlapped \subseteq overlapped'
           /\ \/ Alive(d) /\ UNCHANGED overlapped
              \/ RemoveStaleSocket(d)
<1> USE DEF Records, DaemonsTyped, OthersKept, Enter, Ended, Fail, Alive
<1>1. CASE RemoveStaleSocket(d)
  BY <1>1 DEF RemoveStaleSocket, Overlap
<1>2. CASE OpenDatabase(d) \/ BeginMigration(d) \/ FirstStatement(d) \/ BusyTimeout(d)
  BY <1>2 DEF OpenDatabase, BeginMigration, FirstStatement, BusyTimeout
<1>3. CASE SkipMigration(d) \/ CommitMigration(d)
  BY <1>3 DEF SkipMigration, CommitMigration, NextCheck
<1>4. CASE AbortRunningExecutions(d) \/ Bind(d) \/ StartFails(d)
  BY <1>4 DEF AbortRunningExecutions, Bind, StartFails
<1>5. CASE SignalShutdown(d) \/ StopStorage(d) \/ RemoveSocket(d) \/ AcceptFails(d)
  BY <1>5 DEF SignalShutdown, StopStorage, RemoveSocket, AcceptFails
<1>6. CASE Crash(d)
  BY <1>6 DEF Crash
<1> QED
  BY <1>1, <1>2, <1>3, <1>4, <1>5, <1>6 DEF StartStep, EndStep

\* A step of one daemon leaves a lone other one as it was: that one is not alive.
LEMMA OthersLone ==
    ASSUME Records, LoneInv, NEW d \in Daemons, StartStep(d) \/ EndStep(d),
           NEW o \in Daemons \ {d}
    PROVE  Lone(o)'
<1>1. OthersKept(d) /\ overlapped \subseteq overlapped'
  BY DaemonFrame
<1>2. ASSUME o \notin overlapped'
      PROVE  ~Alive(o)
  <2>1. CASE Alive(d)
    BY <1>1, <1>2, <2>1 DEF LoneInv, Lone
  <2>2. CASE RemoveStaleSocket(d)
    BY <1>2, <2>2 DEF RemoveStaleSocket, Overlap
  <2> QED
    BY <2>1, <2>2, DaemonFrame
<1>3. daemon'[o] = daemon[o]
  BY <1>1 DEF OthersKept
<1>4. ASSUME o \notin overlapped'
      PROVE  /\ daemon'[o].phase \in {"new", "gone", "failed"}
             /\ daemon'[o].cause \notin Harmful
  BY <1>1, <1>2, <1>3, <1>4 DEF LoneInv, Lone, Alive
<1> QED
  BY <1>4 DEF Lone, Alive, Starting

\* The acting daemon stays the only one that is alive.
LEMMA StaysAlone ==
    ASSUME Records, LoneInv, NEW d \in Daemons, StartStep(d) \/ EndStep(d),
           d \notin overlapped'
    PROVE  /\ d \notin overlapped
           /\ \A o \in Daemons \ {d} : ~Alive(o) /\ ~Alive(o)'
<1>1. OthersKept(d) /\ overlapped \subseteq overlapped'
  BY DaemonFrame
<1>2. \A o \in Daemons \ {d} : ~Alive(o)
  <2>1. CASE Alive(d)
    BY <1>1, <2>1 DEF LoneInv, Lone
  <2>2. CASE RemoveStaleSocket(d)
    BY <2>2 DEF RemoveStaleSocket, Overlap
  <2> QED
    BY <2>1, <2>2, DaemonFrame
<1> QED
  BY <1>1, <1>2 DEF OthersKept, Alive

\* The start of a lone daemon: the path stays clear until it binds, nobody else has the
\* lock or makes its tables.
LEMMA StartKeepsLone ==
    ASSUME SchemaInv, LoneInv, NEW d \in Daemons, StartStep(d)
    PROVE  Lone(d)'
<1> SUFFICES ASSUME d \notin overlapped'
             PROVE  /\ daemon'[d].phase = "transaction" => db'.version = daemon'[d].check
                    /\ daemon'[d].phase \in Starting => socket' = None
                    /\ daemon'[d].phase = "serving" => socket' = d
                    /\ daemon'[d].cause \notin Harmful
  BY StaysAlone DEF Lone, SchemaInv
<1>0. Records
  BY DEF SchemaInv
<1>1. /\ d \notin overlapped
      /\ \A o \in Daemons \ {d} : ~Alive(o)
  BY <1>0, StaysAlone
<1>2. /\ daemon[d].phase = "transaction" => db.version = daemon[d].check
      /\ daemon[d].phase \in Starting => socket = None
      /\ daemon[d].cause \notin Harmful
  BY <1>1 DEF LoneInv, Lone
<1>3. writing \in {d, None}
  BY <1>0, <1>1 DEF SchemaInv, LockSound, Records, Alive
<1>4. daemon \in [Daemons -> [phase : DaemonPhases, check : 0..SchemaVersion, cause : Causes]]
  BY <1>0 DEF Records, DaemonsTyped
<1>7. ASSUME NextCheck(d)
      PROVE  /\ daemon'[d].phase \in {"recovering", "migrating"}
             /\ daemon'[d].cause = daemon[d].cause
  BY <1>0, <1>7 DEF NextCheck, Records, DaemonsTyped
<1> USE DEF Starting, Harmful, Enter, Fail, Ended
<1>8. CASE RemoveStaleSocket(d)
  <2>1. CASE socket = "file"
    <3>1. Fail(d, "occupied")
      BY <1>8, <2>1 DEF RemoveStaleSocket
    <3> QED
      BY <1>4, <3>1
  <2>2. CASE socket # "file"
    <3>1. Enter(d, "opening") /\ socket' = None
      BY <1>8, <2>2 DEF RemoveStaleSocket
    <3>2. daemon[d].cause = daemon'[d].cause /\ daemon'[d].phase = "opening"
      BY <1>4, <3>1
    <3> QED
      BY <1>2, <3>1, <3>2
  <2> QED
    BY <2>1, <2>2
<1>9. CASE OpenDatabase(d)
  <2>1. CASE db.version > SchemaVersion
    <3>1. Fail(d, "unsupported")
      BY <1>9, <2>1 DEF OpenDatabase
    <3> QED
      BY <1>4, <3>1
  <2>2. CASE ~(db.version > SchemaVersion)
    <3>1. Enter(d, "migrating") /\ socket' = None
      BY <1>2, <1>9, <2>2 DEF OpenDatabase
    <3>2. daemon[d].cause = daemon'[d].cause /\ daemon'[d].phase = "migrating"
      BY <1>4, <3>1
    <3> QED
      BY <1>2, <3>1, <3>2
  <2> QED
    BY <2>1, <2>2
<1>10. CASE SkipMigration(d) \/ CommitMigration(d)
  BY <1>2, <1>7, <1>10 DEF SkipMigration, CommitMigration
<1>11. CASE BeginMigration(d)
  BY <1>2, <1>4, <1>11 DEF BeginMigration
<1>12. CASE FirstStatement(d)
  <2>1. /\ db.version = daemon[d].check
        /\ daemon[d].check \in 0..SchemaVersion
    BY <1>2, <1>4, <1>12 DEF FirstStatement
  <2>2. db.batches = 1..db.version
    BY <2>1 DEF SchemaInv, SchemaWhole, SchemaVersion
  <2>3. daemon[d].check + 1 \notin db.batches
    BY <2>1, <2>2 DEF SchemaVersion
  <2> QED
    BY <1>2, <1>12, <2>3 DEF FirstStatement
<1>13. CASE BusyTimeout(d)
  BY <1>3, <1>13 DEF BusyTimeout
<1>14. CASE AbortRunningExecutions(d)
  BY <1>2, <1>4, <1>14 DEF AbortRunningExecutions
<1>15. CASE Bind(d)
  <2>1. socket = None
    BY <1>2, <1>15 DEF Bind
  <2>2. Enter(d, "serving") /\ socket' = d
    BY <1>15, <2>1 DEF Bind
  <2>3. daemon'[d].phase = "serving" /\ daemon'[d].cause = daemon[d].cause
    BY <1>4, <2>2
  <2> QED
    BY <1>2, <2>2, <2>3
<1>16. CASE StartFails(d)
  BY <1>4, <1>16 DEF StartFails
<1> QED
  BY <1>8, <1>9, <1>10, <1>11, <1>12, <1>13, <1>14, <1>15, <1>16 DEF StartStep

\* The end of a lone daemon: it does not start or serve any more, and did not fail.
LEMMA EndKeepsLone ==
    ASSUME SchemaInv, LoneInv, NEW d \in Daemons, EndStep(d)
    PROVE  Lone(d)'
<1> SUFFICES ASSUME d \notin overlapped'
             PROVE  /\ daemon'[d].phase \notin Starting \cup {"serving"}
                    /\ daemon'[d].cause \notin Harmful
  BY StaysAlone DEF Lone, SchemaInv, Starting
<1>0. Records
  BY DEF SchemaInv
<1>1. daemon[d].cause \notin Harmful
  BY <1>0, StaysAlone DEF LoneInv, Lone
<1>2. None \notin Harmful
  BY ConstantsAssumption DEF Harmful, Failures
<1>3. daemon \in [Daemons -> [phase : DaemonPhases, check : 0..SchemaVersion, cause : Causes]]
  BY <1>0 DEF Records, DaemonsTyped
<1> USE DEF Starting, Enter, Ended
<1>4. CASE SignalShutdown(d)
  BY <1>1, <1>2, <1>3, <1>4 DEF SignalShutdown
<1>5. CASE StopStorage(d) \/ AcceptFails(d)
  BY <1>1, <1>3, <1>5 DEF StopStorage, AcceptFails
<1>6. CASE RemoveSocket(d) \/ Crash(d)
  BY <1>2, <1>3, <1>6 DEF RemoveSocket, Crash
<1> QED
  BY <1>4, <1>5, <1>6 DEF EndStep

\* With SchemaInv the invariant of lone daemons is inductive.
LEMMA LoneStep ==
    ASSUME SchemaInv, LoneInv, [Next]_vars
    PROVE  LoneInv'
<1>0. Records
  BY DEF SchemaInv
<1>1. ASSUME NEW d \in Daemons, StartStep(d) \/ EndStep(d)
      PROVE  LoneInv'
  <2>1. Lone(d)'
    BY <1>1, StartKeepsLone, EndKeepsLone
  <2>2. \A o \in Daemons \ {d} : Lone(o)'
    BY <1>0, <1>1, OthersLone
  <2> QED
    BY <2>1, <2>2 DEF LoneInv
<1>2. ASSUME NEW k \in Clients, ClientStep(k)
      PROVE  LoneInv'
  <2>1. /\ UNCHANGED <<socket, daemon, overlapped>>
        /\ db' = db \/ \E e : db' = [db EXCEPT !.rows[e] = "tagged"]
    BY <1>2, ClientFrame
  <2>2. db'.version = db.version
    BY <1>0, <2>1 DEF Records, DatabaseTyped
  <2> QED
    BY <2>1, <2>2 DEF LoneInv, Lone, Alive
<1>3. CASE Finished \/ UNCHANGED vars
  BY <1>3 DEF Finished, vars, LoneInv, Lone, Alive
<1> QED
  BY <1>1, <1>2, <1>3 DEF Next

\* Both invariants hold in every reachable state.
LEMMA LoneAlways == Spec => [](SchemaInv /\ LoneInv)
<1>1. Init => SchemaInv /\ Connections /\ LoneInv
  <2>1. Init => LoneInv
    <3>1. None \notin Harmful
      BY ConstantsAssumption DEF Harmful, Failures
    <3>2. Init => \A d \in Daemons : daemon[d].phase = "new" /\ daemon[d].cause = None
      BY DEF Init
    <3> QED
      BY <3>1, <3>2 DEF LoneInv, Lone, Alive, Starting
  <2> QED
    BY <2>1, InitSchema
<1>2. SchemaInv /\ Connections /\ LoneInv /\ [Next]_vars
        => SchemaInv' /\ Connections' /\ LoneInv'
  BY SchemaStep, LoneStep
<1> QED
  BY <1>1, <1>2, PTL DEF Spec

\* Whatever crashes and failed starts leave at socket_path and in the database, a start
\* that meets no other daemon does not fail on it: remove_stale_socket clears the path
\* and the migration that was interrupted is taken up again.
THEOREM StartsUnharmed == Spec => []LeftoversHarmless
<1>1. LoneInv => LeftoversHarmless
  BY DEF LoneInv, Lone, LeftoversHarmless, Harmful
<1> QED
  BY <1>1, LoneAlways, PTL

\* A daemon that serves and never met another one has its own socket at socket_path.
THEOREM LoneDaemonReachable == Spec => []ReachableUnlessOverlapped
<1>1. LoneInv => ReachableUnlessOverlapped
  BY DEF LoneInv, Lone, ReachableUnlessOverlapped
<1> QED
  BY <1>1, LoneAlways, PTL
=============================================================================
