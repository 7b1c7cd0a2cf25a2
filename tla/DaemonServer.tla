---------------------------- MODULE DaemonServer ----------------------------
(***************************************************************************)
(* The life of fubund: start_server, the opening and migration of the      *)
(* database, serve with its connection tasks, the shutdown, and crashes.   *)
(* apps/fubund/src/main.rs, crates/fubun-core/src/lib.rs,                  *)
(* crates/fubun-storage/src/lib.rs, crates/fubun-protocol/src/lib.rs.      *)
(*                                                                         *)
(*   a daemon   one process, from its start to its end.  Nothing in the    *)
(*              code keeps a second one from starting while another runs,  *)
(*              so they may overlap.                                       *)
(*   a client   one connection of a client and the task that serves it.    *)
(*                                                                         *)
(* A step is one call that another process can see the effect of: a change *)
(* of the socket file, a statement that takes or gives up SQLite's write   *)
(* lock, a frame read or written.  What a transaction has not committed    *)
(* nobody sees, and it is gone if the process dies.                        *)
(***************************************************************************)
EXTENDS Naturals, FiniteSets

CONSTANTS
    Daemons,         \* the processes started during a behaviour
    Clients,         \* the connections made during a behaviour
    Events,          \* the events clients may ingest
    LegacyEvents,    \* those an older daemon may have stored
    InitialVersions, \* the schema versions the database may have at first
    FrameLimit,      \* how many events the answer to a list can hold (MAX_MESSAGE_SIZE)
    None

SchemaVersion == 4

\* Why a start ends with an error.
Failures == {"occupied", "unsupported", "exists", "busy", "address in use", "io"}

Causes == Failures \cup {None}

ASSUME ConstantsAssumption ==
    /\ LegacyEvents \subseteq Events
    /\ InitialVersions \subseteq Nat
    /\ FrameLimit \in Nat
    /\ None \notin Daemons \cup Clients \cup Events \cup Failures

VARIABLES
    socket,     \* what is at socket_path: a socket bound by a daemon, "file", or None
    db,         \* what is committed: the highest row of schema_migrations, the
                \* batches of DDL that exist, and the form of each event's payload
    writing,    \* the daemon whose transaction holds the write lock, or None
    daemon,     \* daemon -> its phase, its next `if current == n`, why it failed
    overlapped, \* history: the daemons that were alive together with another one
    conn        \* client -> the task that serves it

vars == <<socket, db, writing, daemon, overlapped, conn>>

DaemonPhases == {"new", "opening", "migrating", "transaction", "recovering", "binding",
                 "serving", "draining", "closing", "deaf", "gone", "failed"}

Alive(d) == daemon[d].phase \notin {"new", "gone", "failed"}

\* The listener is dropped when serve returns; a draining daemon still has it.
Listens(d) == daemon[d].phase \in {"serving", "draining", "closing"}

\* The storage thread takes requests.
StorageOpen(d) == daemon[d].phase \in {"recovering", "binding", "serving", "draining"}

Requests == [kind : {"ingest"}, event : Events]
               \cup [kind : {"list", "hello", "other", "semantic"}, event : {None}]

\* "semantic" is an event that is not synthetic, "major" a frame of another major version.
Frames == Requests \cup [kind : {"major"}, event : {None}]

Answers == {"ack", "refused", "stored", "duplicate", "listed", "error"}

ConnPhases == {"new", "backlog", "handshake", "ready", "processing", "answering", "closed"}

TypeOK ==
    /\ socket \in Daemons \cup {"file", None}
    /\ db \in [version : InitialVersions \cup 0..SchemaVersion,
               batches : SUBSET (1..SchemaVersion),
               rows    : [Events -> {"absent", "legacy", "tagged"}]]
    /\ writing \in Daemons \cup {None}
    /\ daemon \in [Daemons -> [phase : DaemonPhases, check : 0..SchemaVersion, cause : Causes]]
    /\ overlapped \in SUBSET Daemons
    /\ conn \in [Clients -> [phase   : ConnPhases,
                             daemon  : Daemons \cup {None},
                             request : Requests \cup {None},
                             answer  : Answers \cup {None}]]

Connection(phase, d) == [phase |-> phase, daemon |-> d, request |-> None, answer |-> None]

\* A database as an older daemon, this one or a newer one has left it.
Init ==
    /\ socket \in {None, "file"}
    /\ \E v \in InitialVersions :
          db = [version |-> v,
                batches |-> (1..v) \cap (1..SchemaVersion),
                rows    |-> [e \in Events |->
                               IF e \notin LegacyEvents \/ v = 0 THEN "absent"
                               ELSE IF v < SchemaVersion THEN "legacy" ELSE "tagged"]]
    /\ writing = None
    /\ daemon = [d \in Daemons |-> [phase |-> "new", check |-> 0, cause |-> None]]
    /\ overlapped = {}
    /\ conn = [k \in Clients |-> Connection("new", None)]

-----------------------------------------------------------------------------
(***************************************************************************)
(* start_server.                                                           *)
(***************************************************************************)

Enter(d, phase) == daemon' = [daemon EXCEPT ![d].phase = phase]
Ended(d, phase, cause) ==
    daemon' = [daemon EXCEPT ![d] = [phase |-> phase, check |-> 0, cause |-> cause]]
Fail(d, cause) == Ended(d, "failed", cause)

\* The process starts; which others are alive is recorded as history.
Overlap(d) ==
    LET others == {o \in Daemons \ {d} : Alive(o)}
    IN  overlapped' = overlapped \cup (IF others = {} THEN {} ELSE others \cup {d})

\* Mutant: a socket that is already there is left alone.
KeepStaleSocket(d) ==
    /\ daemon[d].phase = "new"
    /\ Overlap(d)
    /\ IF socket = "file" THEN Fail(d, "occupied") ELSE Enter(d, "opening")
    /\ UNCHANGED <<socket, db, writing, conn>>

\* prepare_socket_directory and remove_stale_socket: any socket at the path is
\* removed, whether its daemon is alive or not; anything else is an error.
RemoveStaleSocket(d) ==
    /\ daemon[d].phase = "new"
    /\ Overlap(d)
    /\ IF socket = "file"
       THEN Fail(d, "occupied") /\ UNCHANGED socket
       ELSE Enter(d, "opening") /\ socket' = None
    /\ UNCHANGED <<db, writing, conn>>

\* Storage::open up to the first `if` of migrate: the schema_migrations table is
\* made if it is missing, and a newer schema is refused.
OpenDatabase(d) ==
    /\ daemon[d].phase = "opening"
    /\ IF db.version > SchemaVersion THEN Fail(d, "unsupported") ELSE Enter(d, "migrating")
    /\ UNCHANGED <<socket, db, writing, overlapped, conn>>

\* On to the next `if current == n`; after the last one migrate returns.
NextCheck(d) ==
    LET n     == daemon[d].check + 1
        phase == IF n = SchemaVersion THEN "recovering" ELSE "migrating"
    IN  daemon' = [daemon EXCEPT ![d] = [@ EXCEPT !.phase = phase, !.check = n]]

\* `let current = current_schema_version(..)?; if current == n`: another version.
SkipMigration(d) ==
    /\ daemon[d].phase = "migrating"
    /\ db.version # daemon[d].check
    /\ NextCheck(d)
    /\ UNCHANGED <<socket, db, writing, overlapped, conn>>

\* Mutant: the statements of a version run outside a transaction.
BeginMigrationUnprotected(d) ==
    LET n == daemon[d].check
    IN  /\ daemon[d].phase = "migrating"
        /\ db.version = n
        /\ Enter(d, "transaction")
        /\ writing = None
        /\ writing' = d
        /\ db' = [db EXCEPT !.batches = @ \cup {n + 1}]
        /\ UNCHANGED <<socket, overlapped, conn>>

\* With this version: a deferred transaction, whose lock the first statement takes.
BeginMigration(d) ==
    /\ daemon[d].phase = "migrating"
    /\ db.version = daemon[d].check
    /\ Enter(d, "transaction")
    /\ UNCHANGED <<socket, db, writing, overlapped, conn>>

\* That statement: it waits for the lock, and fails if another daemon has made
\* the tables since the version was read.
FirstStatement(d) ==
    /\ daemon[d].phase = "transaction"
    /\ writing = None
    /\ IF daemon[d].check + 1 \in db.batches
       THEN Fail(d, "exists") /\ UNCHANGED writing
       ELSE writing' = d /\ UNCHANGED daemon
    /\ UNCHANGED <<socket, db, overlapped, conn>>

\* busy_timeout: five seconds have passed and another daemon still has the lock.
BusyTimeout(d) ==
    /\ daemon[d].phase = "transaction"
    /\ writing \notin {d, None}
    /\ Fail(d, "busy")
    /\ UNCHANGED <<socket, db, writing, overlapped, conn>>

\* migrate_legacy_event_payloads: payloads without a kind get one, others stay.
Normalised(rows) == [e \in Events |-> IF rows[e] = "legacy" THEN "tagged" ELSE rows[e]]

\* The rest of the version's transaction: its other statements, the payloads for
\* version 4, the row of schema_migrations, the commit.
Migrated(n) == [version |-> n,
                batches |-> db.batches \cup {n},
                rows    |-> IF n = SchemaVersion THEN Normalised(db.rows) ELSE db.rows]

CommitMigration(d) ==
    /\ daemon[d].phase = "transaction"
    /\ writing = d
    /\ writing' = None
    /\ db' = Migrated(daemon[d].check + 1)
    /\ NextCheck(d)
    /\ UNCHANGED <<socket, overlapped, conn>>

\* abort_running_executions (see RitualExecution), through the storage queue.
AbortRunningExecutions(d) ==
    /\ daemon[d].phase = "recovering"
    /\ writing = None
    /\ Enter(d, "binding")
    /\ UNCHANGED <<socket, db, writing, overlapped, conn>>

\* Mutant: the stale socket is looked for after the bind.
BindThenClean(d) ==
    /\ daemon[d].phase = "binding"
    /\ IF socket = None THEN Enter(d, "serving") ELSE Fail(d, "address in use")
    /\ socket' = None
    /\ UNCHANGED <<db, writing, overlapped, conn>>

\* UnixListener::bind, set_permissions, and serve is spawned.
Bind(d) ==
    /\ daemon[d].phase = "binding"
    /\ IF socket = None
       THEN Enter(d, "serving") /\ socket' = d
       ELSE Fail(d, "address in use") /\ UNCHANGED socket
    /\ UNCHANGED <<db, writing, overlapped, conn>>

\* Any other error of a start: the directory, the disk, SQLite.  A transaction is
\* rolled back; a bound socket whose permissions cannot be set stays.
StartFails(d) ==
    /\ daemon[d].phase \in {"opening", "migrating", "transaction", "recovering", "binding"}
    /\ Fail(d, "io")
    /\ writing' = IF writing = d THEN None ELSE writing
    /\ \/ UNCHANGED socket
       \/ daemon[d].phase = "binding" /\ socket = None /\ socket' = d
    /\ UNCHANGED <<db, overlapped, conn>>

-----------------------------------------------------------------------------
(***************************************************************************)
(* A client and the task of its connection.                                *)
(***************************************************************************)

process == <<socket, writing, daemon, overlapped>>

\* The task goes on in another phase, without a request in hand.
Proceed(k, phase) == conn' = [conn EXCEPT ![k] = Connection(phase, conn[k].daemon)]
Closed            == Connection("closed", None)
Close(k)          == conn' = [conn EXCEPT ![k] = Closed]

\* connect: it succeeds if the socket at the path has a listener.
Connect(k) ==
    /\ conn[k].phase = "new"
    /\ IF socket \in Daemons /\ Listens(socket)
       THEN conn' = [conn EXCEPT ![k] = Connection("backlog", socket)]
       ELSE Close(k)
    /\ UNCHANGED <<process, db>>

\* The client closes its end: the task finds out when it reads or writes.
Hangup(k) ==
    /\ conn[k].phase \in {"backlog", "handshake", "ready", "answering"}
    /\ Close(k)
    /\ UNCHANGED <<process, db>>

\* serve: accept and spawn handle_connection.
Accept(k) ==
    /\ conn[k].phase = "backlog"
    /\ daemon[conn[k].daemon].phase = "serving"
    /\ Proceed(k, "handshake")
    /\ UNCHANGED <<process, db>>

\* The task has an answer to write.
AnswerWith(k, answer) ==
    conn' = [conn EXCEPT ![k] = [@ EXCEPT !.phase = "answering", !.answer = answer]]

\* A frame that does not parse ends the task, whatever it waits for.
BrokenFrame(k) ==
    /\ conn[k].phase \in {"handshake", "ready"}
    /\ Close(k)
    /\ UNCHANGED <<process, db>>

\* The first frame: only a client.hello of this major version opens the
\* connection, anything else is told why not and the task returns.
\* (adapter.hello leads to AdapterManager.)
Handshake(k, frame) ==
    /\ conn[k].phase = "handshake"
    /\ AnswerWith(k, IF frame.kind = "hello" THEN "ack" ELSE "refused")
    /\ UNCHANGED <<process, db>>

\* A later frame.  A second hello, another major version and an event that is not
\* synthetic are answered without storage; the rest is given to the storage thread.
ReadRequest(k, frame) ==
    /\ conn[k].phase = "ready"
    /\ IF frame.kind \in {"hello", "major", "semantic"}
       THEN AnswerWith(k, "error")
       ELSE conn' = [conn EXCEPT ![k] = [@ EXCEPT !.phase = "processing", !.request = frame]]
    /\ UNCHANGED <<process, db>>

\* insert_event, one transaction on the storage thread; a number that is stored
\* already is a duplicate.
StoreEvent(k) ==
    LET e == conn[k].request.event
    IN  /\ conn[k].phase = "processing"
        /\ conn[k].request.kind = "ingest"
        /\ StorageOpen(conn[k].daemon)
        /\ writing = None
        /\ IF db.rows[e] = "absent"
           THEN db' = [db EXCEPT !.rows[e] = "tagged"] /\ AnswerWith(k, "stored")
           ELSE UNCHANGED db /\ AnswerWith(k, "duplicate")
        /\ UNCHANGED process

\* list_events: one row that does not parse fails the whole list.
ListEvents(k) ==
    /\ conn[k].phase = "processing"
    /\ conn[k].request.kind = "list"
    /\ StorageOpen(conn[k].daemon)
    /\ AnswerWith(k, IF \E e \in Events : db.rows[e] = "legacy" THEN "error" ELSE "listed")
    /\ UNCHANGED <<process, db>>

\* Any other request of process_request, and any error of a storage request.
AnswerOther(k) ==
    /\ conn[k].phase = "processing"
    /\ AnswerWith(k, "error")
    /\ UNCHANGED <<process, db>>

\* encode_json_frame: an answer above the limit is an error, and the task ends.
Oversized(k) ==
    /\ conn[k].answer = "listed"
    /\ Cardinality({e \in Events : db.rows[e] # "absent"}) > FrameLimit

\* write_json_frame, which waits while the client does not read.  What is in the
\* client's socket buffer survives the daemon.
WriteAnswer(k) ==
    /\ conn[k].phase = "answering"
    /\ IF Oversized(k) \/ conn[k].answer = "refused" THEN Close(k) ELSE Proceed(k, "ready")
    /\ UNCHANGED <<process, db>>

-----------------------------------------------------------------------------
(***************************************************************************)
(* The end of a daemon.                                                    *)
(***************************************************************************)

TasksOf(d) == {k \in Clients : conn[k].daemon = d /\ conn[k].phase \notin {"backlog", "closed"}}

\* Every connection of a daemon that is no more is closed.
CloseAll(d) ==
    conn' = [k \in Clients |-> IF conn[k].daemon = d THEN Closed ELSE conn[k]]

\* Ctrl-C: serve leaves its loop.  After a failed accept it has left it already, and
\* the process ends with its error.
SignalShutdown(d) ==
    /\ daemon[d].phase \in {"serving", "deaf"}
    /\ IF daemon[d].phase = "deaf" THEN Ended(d, "gone", None) ELSE Enter(d, "draining")
    /\ UNCHANGED <<socket, db, writing, overlapped, conn>>

\* Mutant: only the first read of a connection looks at the shutdown signal.
ShutdownHandshakeOnly(k) ==
    /\ conn[k].phase = "handshake"
    /\ daemon[conn[k].daemon].phase = "draining"
    /\ Close(k)
    /\ UNCHANGED <<process, db>>

\* read_request_or_shutdown: a task that waits for a frame ends.
ShutdownConnection(k) ==
    /\ conn[k].phase \in {"handshake", "ready"}
    /\ daemon[conn[k].daemon].phase = "draining"
    /\ Close(k)
    /\ UNCHANGED <<process, db>>

\* All tasks are joined, then the storage thread is stopped and joined.
StopStorage(d) ==
    /\ daemon[d].phase = "draining"
    /\ TasksOf(d) = {}
    /\ Enter(d, "closing")
    /\ UNCHANGED <<socket, db, writing, overlapped, conn>>

\* remove_file(socket_path), whoever's socket is there now, and the process ends.
\* Connections that were never accepted are closed with the listener.
RemoveSocket(d) ==
    /\ daemon[d].phase = "closing"
    /\ Ended(d, "gone", None)
    /\ socket' = None
    /\ CloseAll(d)
    /\ UNCHANGED <<db, writing, overlapped>>

\* accept fails: `?` leaves serve, which drops the listener, the tasks and the
\* storage, and removes nothing.  The process waits for Ctrl-C.
AcceptFails(d) ==
    /\ daemon[d].phase = "serving"
    /\ Enter(d, "deaf")
    /\ CloseAll(d)
    /\ UNCHANGED <<socket, db, writing, overlapped>>

\* The process dies.  The socket file stays, a transaction is rolled back.
Crash(d) ==
    /\ Alive(d)
    /\ Ended(d, "gone", None)
    /\ writing' = IF writing = d THEN None ELSE writing
    /\ CloseAll(d)
    /\ UNCHANGED <<socket, db, overlapped>>

\* Nothing is left to happen.
Finished ==
    /\ \A d \in Daemons : daemon[d].phase \in {"gone", "failed"}
    /\ \A k \in Clients : conn[k].phase = "closed"
    /\ UNCHANGED vars

StartStep(d) ==
    \/ RemoveStaleSocket(d)
    \/ OpenDatabase(d)
    \/ SkipMigration(d)
    \/ BeginMigration(d)
    \/ FirstStatement(d)
    \/ BusyTimeout(d)
    \/ CommitMigration(d)
    \/ AbortRunningExecutions(d)
    \/ Bind(d)
    \/ StartFails(d)

EndStep(d) ==
    \/ SignalShutdown(d)
    \/ StopStorage(d)
    \/ RemoveSocket(d)
    \/ AcceptFails(d)
    \/ Crash(d)

\* A task takes one of these by itself.
TaskStep(k) == StoreEvent(k) \/ ListEvents(k) \/ AnswerOther(k)

ClientStep(k) ==
    \/ Connect(k)
    \/ Hangup(k)
    \/ Accept(k)
    \/ BrokenFrame(k)
    \/ \E frame \in Frames : Handshake(k, frame) \/ ReadRequest(k, frame)
    \/ TaskStep(k)
    \/ WriteAnswer(k)
    \/ ShutdownConnection(k)

Next ==
    \/ \E d \in Daemons : StartStep(d) \/ EndStep(d)
    \/ \E k \in Clients : ClientStep(k)
    \/ Finished

Spec == Init /\ [][Next]_vars

(***************************************************************************)
(* Fairness of a daemon's own tasks.  read_request_or_shutdown selects at  *)
(* random among a frame and the signal, so a task that comes back to it    *)
(* again and again ends.  Fairness of WriteAnswer is that clients read     *)
(* what they are sent; they need not send anything.  Starts, signals,      *)
(* crashes and errors need not happen.                                     *)
(***************************************************************************)
Fairness ==
    /\ \A k \in Clients : /\ WF_vars(TaskStep(k))
                          /\ WF_vars(WriteAnswer(k))
                          /\ SF_vars(ShutdownConnection(k))
    /\ \A d \in Daemons : WF_vars(StopStorage(d)) /\ WF_vars(RemoveSocket(d))

FairSpec == Spec /\ Fairness

-----------------------------------------------------------------------------
(***************************************************************************)
(* Properties.                                                             *)
(***************************************************************************)

\* The schema is always whole, although several daemons may migrate at once and die
\* at any statement of migrate: the tables that exist are those of the version that
\* is recorded, version 4 has no payload of the old form (list_events would fail on
\* it), and a daemon that has come as far as its recovery has the current version.
SchemaWhole ==
    /\ db.version <= SchemaVersion => db.batches = 1..db.version
    /\ db.version >= SchemaVersion => \A e \in Events : db.rows[e] # "legacy"
    /\ \A d \in Daemons :
          daemon[d].phase \in {"recovering", "binding", "serving", "draining", "closing", "deaf"}
            => db.version = SchemaVersion

\* A start by itself never fails because of what an earlier daemon left behind, be
\* it a socket, a half-done migration or a lock: start_server fails on these only if
\* two daemons were alive at the same time.
LeftoversHarmless ==
    \A d \in Daemons :
        daemon[d].cause \in {"exists", "busy", "address in use"} => d \in overlapped

\* A daemon that serves can be reached at socket_path, unless another one was alive
\* together with it: then the other's start or its shutdown may have removed the file.
ReachableUnlessOverlapped ==
    \A d \in Daemons : daemon[d].phase = "serving" /\ d \notin overlapped => socket = d

\* A shutdown that was signalled ends, as long as clients read their answers.
ShutdownEnds ==
    \A d \in Daemons : daemon[d].phase = "draining" ~> daemon[d].phase = "gone"
=============================================================================
