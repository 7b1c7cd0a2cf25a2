-------------------------- MODULE BrowserExtension --------------------------
(***************************************************************************)
(* The browser extension: BrowserIntegration, whose handlers read, change  *)
(* and write the mappings of observed pages across awaits while the browser *)
(* revokes permissions and Core pauses scopes, and BrowserNativeBridge,    *)
(* the port they share.  extensions/browser/src/integration.ts,            *)
(* native-bridge.ts, service-worker.ts.                                    *)
(*                                                                         *)
(* A step is what the worker does between two awaits another handler or    *)
(* the other side can act in.  A page is a resource with an origin of its  *)
(* own.  Of Core (browser_observation_enable_response, the requests on     *)
(* observation_scopes) only the status of the scope of each page is kept.  *)
(***************************************************************************)
EXTENDS Naturals

CONSTANTS
    Pages,
    Revocable,   \* those whose permission the user may give and take back at any time
    Tasks,       \* the handlers that may run at the same time
    Main,        \* the one integration.start runs as, when the worker starts
    MaxHandlers, \* how many handlers the user and the browser start
    MaxFaults,   \* how many hellos and requests fail, hosts end and busy workers are killed
    None

ASSUME ConstantsAssumption ==
    /\ Revocable \subseteq Pages
    /\ Main \in Tasks
    /\ {MaxHandlers, MaxFaults} \subseteq Nat

VARIABLES
    store,    \* chrome.storage.local: page -> the state of its mapping, or "none"
    scope,    \* Core's database: page -> the status of its browser scope, or "none"
    granted,  \* the pages the browser grants permission for
    crossed,  \* history: pages whose scope was enabled again after a handler had it
              \* paused and before that handler removed the mapping
    task,     \* task -> the handler it runs and where it is in it
    bridge,   \* the native bridge
    begun,    \* how many handlers have been started
    faults

vars == <<store, scope, crossed, granted, task, bridge, begun, faults>>

Mappings == [Pages -> {"none", "active", "pause_pending"}]

Ops == {"idle", "observe", "stop", "removed", "reconcile", "event"}

\* Where a handler is: about to check permissions, to read or write the mappings, to
\* ask ensureConnected for a port, waiting for `connecting`, for an answer that may
\* come or ("silent") will not, to reconnect, waiting in reconnect for `connecting`
\* ("joined"), to start the bridge.
Points == {"rest", "check", "read", "judge", "write", "request", "waiting", "pending",
           "silent", "reread", "remove", "reconnect", "joined", "start"}

TypeOK ==
    /\ store \in Mappings
    /\ scope \in [Pages -> {"none", "active", "paused"}]
    /\ crossed \in SUBSET Pages
    /\ granted \in SUBSET Pages
    /\ task \in [Tasks -> [op   : Ops,
                           at   : Points,
                           page : Pages \cup {None},
                           seen : Mappings \cup {None},  \* what it has read
                           left : SUBSET Pages,          \* `affected`, still to be paused
                           done : SUBSET Pages]]         \* `completed`
    /\ bridge \in [desired    : BOOLEAN,
                   port       : {"none", "open", "ready"},
                   connecting : {"none", "preparing", "hello"},  \* createHello is awaited,
                                                                 \* the hello is posted
                   timer      : BOOLEAN]                 \* reconnectTimer is set
    /\ begun \in 0..MaxHandlers
    /\ faults \in 0..MaxFaults

Task(op, at, page) ==
    [op |-> op, at |-> at, page |-> page, seen |-> None, left |-> {}, done |-> {}]
Rest == Task("idle", "rest", None)

Unstarted == [desired |-> FALSE, port |-> "none", connecting |-> "none", timer |-> FALSE]

\* The extension has just been installed.
Init ==
    /\ store = [p \in Pages |-> "none"]
    /\ scope = [p \in Pages |-> "none"]
    /\ crossed = {}
    /\ granted = Pages \ Revocable
    /\ task = [t \in Tasks |-> IF t = Main THEN Task("reconcile", "read", None) ELSE Rest]
    /\ bridge = Unstarted
    /\ begun = 0
    /\ faults = 0

core == <<scope, crossed, granted>>
counts == <<begun, faults>>

Fault == faults < MaxFaults /\ faults' = faults + 1 /\ UNCHANGED begun

Goes(t, at) == task' = [task EXCEPT ![t].at = at]
Ends(t) == task' = [task EXCEPT ![t] = Rest]

-----------------------------------------------------------------------------
(***************************************************************************)
(* BrowserNativeBridge.  The operators take and give a bridge, or all      *)
(* tasks, since several of these run without an await between them.        *)
(***************************************************************************)

\* scheduleReconnect.
Scheduled(b) == [b EXCEPT !.timer = b.timer \/ b.desired]

\* ensureConnected and establish: the port that is ready, the attempt under way, or a new
\* one on a new port.  (A createPort that throws is an attempt that fails at once.)
Established(b) ==
    IF b.port = "none" /\ b.connecting = "none"
    THEN [b EXCEPT !.port = "open", !.connecting = "preparing"]
    ELSE b

\* The port is gone.  With a hello that is posted the attempt ends as well; while
\* createHello is awaited `connecting` outlives its port.
Closed(b) ==
    [b EXCEPT !.port = "none", !.connecting = IF @ = "hello" THEN "none" ELSE @]

\* What a request asks Core for.
Kind(r) == IF r.op = "observe" THEN "enable" ELSE IF r.op = "event" THEN "event" ELSE "pause"

\* A request was answered as expected: observe checks the permission again, stop and
\* syncPausedScopes have one scope less to pause.
Answered(r) ==
    CASE r.op = "observe" -> [r EXCEPT !.at = "check"]
      [] r.op = "event"   -> Rest
      [] OTHER            -> LET left == r.left \ {r.page}
                             IN  [r EXCEPT !.at   = IF left = {} THEN "reread" ELSE "request",
                                           !.page = None,
                                           !.left = left,
                                           !.done = @ \cup {r.page}]

\* Mutant: what is removed at the end is what was tried.
RejectedIsDone(r) ==
    IF r.op \in {"removed", "reconcile"}
    THEN LET left == r.left \ {r.page}
         IN  [r EXCEPT !.at = IF left = {} THEN "reread" ELSE "request",
                       !.page = None,
                       !.left = left,
                       !.done = @ \cup {r.page}]
    ELSE Rest

\* It was rejected: only syncPausedScopes goes on.
Rejected(r) ==
    IF r.op \in {"removed", "reconcile"}
    THEN LET left == r.left \ {r.page}
         IN  [r EXCEPT !.at = IF left # {} THEN "request"
                              ELSE IF r.done # {} THEN "reread" ELSE "reconnect",
                       !.page = None,
                       !.left = left]
    ELSE Rest

\* native.reconnect has returned or thrown.
Reconnected(r) ==
    IF r.op = "reconcile" THEN Task("reconcile", "start", None) ELSE Rest

\* The failure of `connecting`, for all who wait for it, and rejectAll.
RejectAll ==
    [t \in Tasks |-> CASE task[t].at \in {"waiting", "pending", "silent"} -> Rejected(task[t])
                       [] task[t].at = "joined" -> Reconnected(task[t])
                       [] OTHER -> task[t]]

\* Whom the loss of the port reaches: while createHello is awaited nobody has an answer
\* to wait for, and those who wait for `connecting` go on waiting.
PortLost == IF bridge.connecting = "preparing" THEN task ELSE RejectAll

\* requestPrepared: ensureConnected gives the port, joins the attempt under way, or
\* makes one; then the message is posted.
Request(t, p) ==
    /\ task[t].at = "request"
    /\ p \in IF task[t].left = {} THEN {task[t].page} ELSE task[t].left
    /\ bridge' = Established(bridge)
    /\ task' = [task EXCEPT ![t] =
                  [@ EXCEPT !.page = p,
                            !.at   = IF bridge.port = "ready" THEN "pending" ELSE "waiting"]]
    /\ UNCHANGED <<store, core, counts>>

\* createHello is done, and the hello is posted.
HelloPosted ==
    /\ bridge.connecting = "preparing"
    /\ bridge.port = "open"
    /\ bridge' = [bridge EXCEPT !.connecting = "hello"]
    /\ UNCHANGED <<store, task, core, counts>>

\* It is done, but the port was lost meanwhile: the catch of establish schedules nothing.
HelloUnposted ==
    /\ bridge.connecting = "preparing"
    /\ bridge.port = "none"
    /\ bridge' = [bridge EXCEPT !.connecting = "none"]
    /\ task' = RejectAll
    /\ UNCHANGED <<store, core, counts>>

\* extension.hello.ack: those who waited get the port and post their requests.
HelloAcked ==
    /\ bridge.connecting = "hello"
    /\ bridge' = [bridge EXCEPT !.port = "ready", !.connecting = "none"]
    /\ task' = [t \in Tasks |-> CASE task[t].at = "waiting" -> [task[t] EXCEPT !.at = "pending"]
                                [] task[t].at = "joined"  -> Reconnected(task[t])
                                [] OTHER -> task[t]]
    /\ UNCHANGED <<store, core, counts>>

\* Mutant: a hello that fails is not tried again.
HelloFailsForGood ==
    /\ bridge.port = "open"
    /\ bridge' = [bridge EXCEPT !.port = "none", !.connecting = "none"]
    /\ task' = RejectAll
    /\ Fault
    /\ UNCHANGED <<store, core>>

\* createHello throws, or the hello is answered with an error or not in time.
HelloFails ==
    /\ bridge.port = "open"
    /\ bridge' = Scheduled([bridge EXCEPT !.port = "none", !.connecting = "none"])
    /\ task' = RejectAll
    /\ Fault
    /\ UNCHANGED <<store, core>>

\* handleDisconnect: the native host has ended.
Disconnect ==
    /\ bridge.port # "none"
    /\ bridge' = Scheduled(Closed(bridge))
    /\ task' = PortLost
    /\ Fault
    /\ UNCHANGED <<store, core>>

\* The callback of reconnectTimer, which leaves an attempt under way alone, even one
\* whose port is lost.
ReconnectTimer ==
    /\ bridge.timer
    /\ bridge' = Established([bridge EXCEPT !.timer = FALSE])
    /\ UNCHANGED <<store, task, core, counts>>

\* native.reconnect: the timer is cancelled, the port closed.  ensureConnected then
\* joins an attempt under way, which fails since its port is closed, at once if its
\* hello was posted, and schedules nothing; otherwise it makes a new one.
Reconnect(t) ==
    LET closed == Closed([bridge EXCEPT !.desired = TRUE, !.timer = FALSE])
    IN  /\ task[t].at = "reconnect"
        /\ bridge' = IF bridge.connecting = "none" THEN Established(closed) ELSE closed
        /\ task' = [PortLost EXCEPT ![t] =
                       IF bridge.connecting = "hello" THEN Reconnected(task[t])
                       ELSE [task[t] EXCEPT !.at = "joined"]]
        /\ UNCHANGED <<store, core, counts>>

\* native.start, at the end of integration.start or from the popup (status).
Start(t) ==
    /\ task[t].at \in {"start", "rest"}
    /\ bridge' = Established([bridge EXCEPT !.desired = TRUE])
    /\ Ends(t)
    /\ UNCHANGED <<store, core, counts>>

-----------------------------------------------------------------------------
(***************************************************************************)
(* Requests that are posted, and Core.                                     *)
(***************************************************************************)

\* ensure_observation_scope, and pause_observation_scope of a scope that exists.
Effect(kind, p) ==
    CASE kind = "enable" ->
           /\ scope' = [scope EXCEPT ![p] = "active"]
           /\ crossed' = IF \E t \in Tasks : p \in task[t].done THEN crossed \cup {p} ELSE crossed
      [] kind = "pause" /\ scope[p] # "none" ->
           /\ scope' = [scope EXCEPT ![p] = "paused"]
           /\ crossed' = crossed \ {p}
      [] OTHER -> UNCHANGED <<scope, crossed>>

\* Core carries the request out and the answer arrives.
Answer(t, p) ==
    /\ task[t].at = "pending"
    /\ task[t].page = p
    /\ Effect(Kind(task[t]), p)
    /\ task' = [task EXCEPT ![t] = Answered(task[t])]
    /\ UNCHANGED <<store, granted, bridge, counts>>

\* Core carries it out, the answer is lost.
AnswerLost(t) ==
    /\ task[t].at = "pending"
    /\ Effect(Kind(task[t]), task[t].page)
    /\ Goes(t, "silent")
    /\ Fault
    /\ UNCHANGED <<store, granted, bridge>>

\* An integration.error, or no answer in time.
GiveUp(t) ==
    /\ \/ task[t].at = "silent" /\ UNCHANGED counts
       \/ task[t].at = "pending" /\ Fault
    /\ task' = [task EXCEPT ![t] = Rejected(task[t])]
    /\ UNCHANGED <<store, core, bridge>>

-----------------------------------------------------------------------------
(***************************************************************************)
(* The handlers of BrowserIntegration.                                     *)
(***************************************************************************)

Begin(t, op, at, p) ==
    /\ task[t].at = "rest"
    /\ begun < MaxHandlers
    /\ begun' = begun + 1
    /\ task' = [task EXCEPT ![t] = Task(op, at, p)]
    /\ UNCHANGED <<store, core, bridge, faults>>

\* observeCurrentPage, up to the request: the permission is checked.
Observe(t, p) == p \in granted /\ Begin(t, "observe", "request", p)

StopPage(t, p) == Begin(t, "stop", "read", p)

\* The browser calls onRemoved for a permission that is gone.
PermissionsRemoved(t, p) == p \notin granted /\ Begin(t, "removed", "read", p)

\* onNavigation to a page whose mapping is active.
Navigate(t, p) ==
    /\ store[p] = "active"
    /\ IF p \in granted THEN Begin(t, "event", "request", p) ELSE Begin(t, "removed", "read", p)

ActiveIn(mappings) == {p \in Pages : mappings[p] = "active"}

\* observeCurrentPage checks the permission once more before it reads the mappings.
Check(t) ==
    /\ task[t].at = "check"
    /\ IF task[t].page \in granted THEN Goes(t, "read") ELSE Ends(t)
    /\ UNCHANGED <<store, core, bridge, counts>>

\* mappings(), and what the handler concludes from it at once.
Read(t) ==
    LET r        == task[t]
        affected == ActiveIn(store) \cap {r.page}
        read     == [r EXCEPT !.seen = store, !.left = affected, !.at = "write"]
    IN  /\ r.at = "read"
        /\ task' = [task EXCEPT ![t] =
                CASE r.op = "observe"   -> [read EXCEPT !.left = {}]
                  [] r.op = "reconcile" -> [read EXCEPT !.left = {}, !.at = "judge"]
                  [] OTHER              -> IF affected = {} THEN Rest ELSE read]
        /\ UNCHANGED <<store, core, bridge, counts>>

\* Mutant: only what has lost its permission is synchronised again.
JudgeActiveOnly(t) ==
    LET seen     == task[t].seen
        affected == {p \in Pages : seen[p] = "active" /\ p \notin granted}
    IN  /\ task[t].at = "judge"
        /\ task' = [task EXCEPT ![t] =
                      [@ EXCEPT !.left = affected,
                                !.seen = IF affected = {} THEN None ELSE seen,
                                !.at   = IF affected = {} THEN "start" ELSE "write"]]
        /\ UNCHANGED <<store, core, bridge, counts>>

\* Mutant: permissions are left to onPermissionsRemoved.
JudgePendingOnly(t) ==
    LET seen     == task[t].seen
        affected == {p \in Pages : seen[p] = "pause_pending"}
    IN  /\ task[t].at = "judge"
        /\ task' = [task EXCEPT ![t] =
                      [@ EXCEPT !.left = affected,
                                !.seen = IF affected = {} THEN None ELSE seen,
                                !.at   = IF affected = {} THEN "start" ELSE "write"]]
        /\ UNCHANGED <<store, core, bridge, counts>>

\* reconcilePermissions: what is to be paused in Core.
Judge(t) ==
    LET seen     == task[t].seen
        affected == {p \in Pages : \/ seen[p] = "pause_pending"
                                   \/ seen[p] = "active" /\ p \notin granted}
    IN  /\ task[t].at = "judge"
        /\ task' = [task EXCEPT ![t] =
                      [@ EXCEPT !.left = affected,
                                !.seen = IF affected = {} THEN None ELSE seen,
                                !.at   = IF affected = {} THEN "start" ELSE "write"]]
        /\ UNCHANGED <<store, core, bridge, counts>>

\* Mutant: what is affected stays active as long as its permission is there.
WriteByPermission(t) ==
    LET r == task[t]
    IN  /\ r.at = "write"
        /\ store' = IF r.op = "observe" THEN [r.seen EXCEPT ![r.page] = "active"]
                    ELSE [p \in Pages |-> IF p \notin r.left THEN r.seen[p]
                                         ELSE IF p \in granted THEN "active" ELSE "pause_pending"]
        /\ task' = [task EXCEPT ![t] =
                      [@ EXCEPT !.at   = IF r.op = "observe" THEN "reconnect" ELSE "request",
                                !.seen = None]]
        /\ UNCHANGED <<core, bridge, counts>>

\* The mapping is saved, or what is affected becomes pause_pending; either way all
\* mappings are written as they were read.
Write(t) ==
    LET r == task[t]
    IN  /\ r.at = "write"
        /\ store' = IF r.op = "observe" THEN [r.seen EXCEPT ![r.page] = "active"]
                    ELSE [p \in Pages |-> IF p \in r.left THEN "pause_pending" ELSE r.seen[p]]
        /\ task' = [task EXCEPT ![t] =
                      [@ EXCEPT !.at   = IF r.op = "observe" THEN "reconnect" ELSE "request",
                                !.seen = None]]
        /\ UNCHANGED <<core, bridge, counts>>

\* After the pauses the mappings are read again,
Reread(t) ==
    /\ task[t].at = "reread"
    /\ task' = [task EXCEPT ![t] = [@ EXCEPT !.seen = store, !.at = "remove"]]
    /\ UNCHANGED <<store, core, bridge, counts>>

\* and written without those whose scope Core has paused.
Remove(t) ==
    LET r == task[t]
    IN  /\ r.at = "remove"
        /\ store' = [p \in Pages |-> IF p \in r.done THEN "none" ELSE r.seen[p]]
        /\ task' = [task EXCEPT ![t] =
                      [@ EXCEPT !.seen = None, !.done = {}, !.at = "reconnect"]]
        /\ UNCHANGED <<core, bridge, counts>>

-----------------------------------------------------------------------------
(***************************************************************************)
(* The browser.                                                            *)
(***************************************************************************)

Grant(p) ==
    /\ p \notin granted
    /\ granted' = granted \cup {p}
    /\ UNCHANGED <<store, scope, crossed, task, bridge, counts>>

Revoke(p) ==
    /\ p \in granted
    /\ granted' = granted \ {p}
    /\ UNCHANGED <<store, scope, crossed, task, bridge, counts>>

Idle == \A t \in Tasks : task[t].at = "rest"

\* A new worker: integration.start.
WorkerStarts ==
    /\ task' = [t \in Tasks |-> IF t = Main THEN Task("reconcile", "read", None) ELSE Rest]
    /\ bridge' = Unstarted
    /\ UNCHANGED <<store, core>>

\* The browser ends a worker that has nothing to do, and starts one for the next event.
Recycle == Idle /\ WorkerStarts /\ UNCHANGED counts

\* It ends one in the middle of its work.
Kill == ~Idle /\ WorkerStarts /\ Fault

\* A handler goes on by itself.
HandlerStep(t) ==
    \/ \E p \in Pages : Request(t, p) \/ Answer(t, p)
    \/ GiveUp(t)
    \/ Check(t) \/ Read(t) \/ Judge(t) \/ Write(t) \/ Reread(t) \/ Remove(t)
    \/ Reconnect(t)
    \/ task[t].at = "start" /\ Start(t)

Next ==
    \/ \E t \in Tasks :
          \/ HandlerStep(t)
          \/ Start(t)
          \/ AnswerLost(t)
          \/ \E p \in Pages : \/ Observe(t, p) \/ StopPage(t, p)
                              \/ PermissionsRemoved(t, p) \/ Navigate(t, p)
    \/ HelloPosted \/ HelloUnposted \/ HelloAcked \/ HelloFails
    \/ Disconnect \/ ReconnectTimer
    \/ \E p \in Revocable : Grant(p) \/ Revoke(p)
    \/ Recycle
    \/ Kill

Spec == Init /\ [][Next]_vars

(***************************************************************************)
(* The worker runs what it can run, Core answers what does not fail, and   *)
(* the browser ends a worker that stays idle and starts one again.         *)
(***************************************************************************)
Fairness ==
    /\ \A t \in Tasks : WF_vars(HandlerStep(t))
    /\ WF_vars(HelloPosted \/ HelloUnposted)
    /\ WF_vars(HelloAcked)
    /\ WF_vars(Recycle)

FairSpec == Spec /\ Fairness

-----------------------------------------------------------------------------
(***************************************************************************)
(* Properties.                                                             *)
(***************************************************************************)

\* A bridge that is wanted and has no port has its timer set for the next attempt, through
\* every loss of a port and every failed hello.  It is left without only by what happens
\* to an attempt that is under way: a handler's reconnect closes its port, or it has lost
\* its port while createHello was awaited.
RetryArmed ==
    [][bridge'.desired /\ bridge'.port = "none" /\ ~bridge'.timer =>
          \/ UNCHANGED bridge
          \/ /\ bridge.connecting # "none"
             /\ bridge.port = "none" \/ \E t \in Tasks : task[t].at = "reconnect"]_vars

\* A stale write: another handler has written since this one read.
Overtaken(t) ==
    /\ task[t].at \in {"write", "remove"}
    /\ task[t].seen # store
    /\ task'[t].at # task[t].at

\* A page that is locally paused is active again only if the user observes it, unless
\* handlers overtake each other between their read and their write of the mappings.
LocalPauseHolds ==
    [][\A p \in Pages : store[p] = "pause_pending" /\ store'[p] = "active" =>
          \E t \in Tasks : \/ Overtaken(t)
                           \/ task[t].op = "observe" /\ task[t].page = p]_vars

\* A mapping is forgotten only when Core has paused its scope, unless handlers
\* overtake each other or an observe of the page crossed the removal.
ForgottenWhenPaused ==
    [][\A p \in Pages : store[p] # "none" /\ store'[p] = "none" =>
          \/ scope[p] = "paused"
          \/ p \in crossed
          \/ \E t \in Tasks : Overtaken(t)]_vars

\* A permission that is gone does not leave its page active, although handlers
\* overtake each other and the worker may be killed: the next worker sees to it.
RevocationTakesHold ==
    \A p \in Pages : (p \notin granted) ~> (p \in granted \/ store[p] # "active")

\* No mapping stays pause_pending for ever: each new worker takes the pause up again
\* (reconcilePermissions), until Core confirms it or, by an observe or a stale write, the
\* mapping is another one.
PauseNotForever ==
    \A p \in Pages : (store[p] = "pause_pending") ~> (store[p] # "pause_pending")
=============================================================================
