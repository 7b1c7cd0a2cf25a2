----------------------------- MODULE BrowserProofs -----------------------------
(***************************************************************************)
(* Proofs about BrowserExtension: what the handlers may do to the mappings *)
(* of the pages, the reconnect timer of the bridge, and who waits for it.  *)
(***************************************************************************)
EXTENDS BrowserExtension, TLAPS

Handlers == [op   : Ops,
             at   : Points,
             page : Pages \cup {None},
             seen : Mappings \cup {None},
             left : SUBSET Pages,
             done : SUBSET Pages]

Scopes == [Pages -> {"none", "active", "paused"}]

Bridges == [desired    : BOOLEAN,
            port       : {"none", "open", "ready"},
            connecting : {"none", "preparing", "hello"},
            timer      : BOOLEAN]

\* The handlers that pause scopes, and where a handler waits for the bridge.
Pausing == {"stop", "removed", "reconcile"}
Asking  == {"waiting", "pending", "silent"}

\* What a handler knows, given the scopes in Core: what it has read stands for scopes
\* that exist, and so does what it is to pause; what it is to forget is paused, or was
\* enabled again after that.
InOrder(r, scopes, again) ==
    /\ r.at # "rest" => r.op # "idle"
    /\ r.at = "judge" => r.op = "reconcile"
    /\ r.at \in {"judge", "write", "remove"} =>
          /\ r.seen \in Mappings
          /\ \A p \in Pages : r.seen[p] # "none" => scopes[p] # "none"
    /\ r.op \in {"observe", "event"} =>
          /\ r.left = {} /\ r.done = {}
          /\ r.at \in {"request", "check", "read", "write"} \cup Asking => r.page \in Pages
    /\ r.op = "event" => r.at \in {"request"} \cup Asking
    /\ r.op = "observe" /\ r.at \in {"check", "read", "write"} => scopes[r.page] # "none"
    /\ r.op \in Pausing /\ r.at \in {"write", "request"} \cup Asking => r.left # {}
    /\ r.op \in Pausing /\ r.at \in Asking => r.page \in r.left
    /\ \A p \in r.left : scopes[p] # "none"
    /\ \A p \in r.done : scopes[p] = "paused" \/ p \in again

\* A mapping stands for a scope, and every handler is in order.
BrowserInv ==
    /\ TypeOK
    /\ \A p \in Pages : store[p] # "none" => scope[p] # "none"
    /\ \A t \in Tasks : InOrder(task[t], scope, crossed)

\* A port is ready when nothing connects, and its hello is posted only while it is open;
\* who waits for `connecting` waits for an attempt that will end, and who waits for an
\* answer has a port it can come from.
BridgeInOrder ==
    /\ bridge.port = "open" => bridge.connecting # "none"
    /\ bridge.port = "ready" => bridge.connecting = "none"
    /\ bridge.connecting = "hello" => bridge.port = "open"
    /\ \A t \in Tasks :
          /\ task[t].at \in {"waiting", "joined"} => bridge.connecting # "none"
          /\ task[t].at \in {"pending", "silent"} => bridge.port = "ready"

-----------------------------------------------------------------------------
(***************************************************************************)
(* Handlers.                                                               *)
(***************************************************************************)

\* A handler that rests or has just begun knows nothing.
LEMMA BeginningInOrder ==
    ASSUME NEW op \in Ops \ {"idle"}, NEW at \in {"read", "request", "start"},
           NEW p \in Pages \cup {None}, NEW scopes, NEW again,
           op \in {"observe", "event"} => p \in Pages /\ at = "request",
           op \in Pausing => at # "request"
    PROVE  /\ Task(op, at, p) \in Handlers /\ InOrder(Task(op, at, p), scopes, again)
           /\ Rest \in Handlers /\ InOrder(Rest, scopes, again)
BY DEF Task, Rest, Handlers, InOrder, Pausing, Asking, Ops, Points

\* A rejected request leaves the handler with one scope less to pause, or ends it.
LEMMA RejectedInOrder ==
    ASSUME NEW r \in Handlers, NEW scopes, NEW again, InOrder(r, scopes, again),
           r.at \in Asking
    PROVE  Rejected(r) \in Handlers /\ InOrder(Rejected(r), scopes, again)
<1>1. CASE r.op \in {"removed", "reconcile"}
  <2> DEFINE left == r.left \ {r.page}
             at   == IF left # {} THEN "request"
                     ELSE IF r.done # {} THEN "reread" ELSE "reconnect"
  <2>1. Rejected(r) = [r EXCEPT !.at = at, !.page = None, !.left = left]
    BY <1>1 DEF Rejected
  <2>2. left \in SUBSET Pages /\ at \in {"request", "reread", "reconnect"}
    BY DEF Handlers
  <2>3. at = "request" => left # {}
    OBVIOUS
  <2>4. \A p \in left : p \in r.left
    OBVIOUS
  <2> HIDE DEF left, at
  <2>5. Rejected(r) \in Handlers
    BY <2>1, <2>2 DEF Handlers, Points
  <2>6. /\ Rejected(r).op = r.op /\ Rejected(r).at = at /\ Rejected(r).left = left
        /\ Rejected(r).done = r.done
    BY <2>1 DEF Handlers
  <2> QED
    BY <1>1, <2>2, <2>3, <2>4, <2>5, <2>6 DEF InOrder, Pausing, Asking
<1>2. CASE r.op \notin {"removed", "reconcile"}
  <2>1. Rejected(r) = Rest
    BY <1>2 DEF Rejected
  <2> QED
    BY <2>1 DEF Task, Rest, Handlers, InOrder, Pausing, Asking, Ops, Points
<1> QED
  BY <1>1, <1>2

\* An answered one adds the page to those that Core has paused, which it is.
LEMMA AnsweredInOrder ==
    ASSUME NEW r \in Handlers, NEW scopes, NEW again, InOrder(r, scopes, again),
           r.at = "pending", r.page \in Pages,
           r.op = "observe" => scopes[r.page] # "none",
           r.op \in Pausing => scopes[r.page] = "paused"
    PROVE  Answered(r) \in Handlers /\ InOrder(Answered(r), scopes, again)
<1>1. CASE r.op = "observe"
  <2>1. Answered(r) = [r EXCEPT !.at = "check"]
    BY <1>1 DEF Answered
  <2>2. Answered(r) \in Handlers
    BY <2>1 DEF Handlers, Points
  <2>3. /\ Answered(r).op = r.op /\ Answered(r).at = "check" /\ Answered(r).left = r.left
        /\ Answered(r).done = r.done /\ Answered(r).page = r.page
    BY <2>1 DEF Handlers
  <2> QED
    BY <1>1, <2>2, <2>3 DEF InOrder, Pausing, Asking
<1>2. CASE r.op = "event"
  <2>1. Answered(r) = Rest
    BY <1>2 DEF Answered
  <2> QED
    BY <2>1 DEF Task, Rest, Handlers, InOrder, Pausing, Asking, Ops, Points
<1>3. CASE r.op \notin {"observe", "event"}
  <2> DEFINE left == r.left \ {r.page}
             at   == IF left = {} THEN "reread" ELSE "request"
  <2>1. Answered(r) = [r EXCEPT !.at = at, !.page = None, !.left = left,
                                !.done = r.done \cup {r.page}]
    BY <1>3 DEF Answered, Handlers
  <2>2. left \in SUBSET Pages /\ at \in {"request", "reread"} /\ (at = "request" => left # {})
    BY DEF Handlers
  <2>3. \A p \in left : p \in r.left
    OBVIOUS
  <2> HIDE DEF left, at
  <2>4. r.op \in Pausing
    BY <1>3 DEF InOrder, Handlers, Ops, Pausing
  <2>5. Answered(r) \in Handlers
    <3>1. r.done \cup {r.page} \in SUBSET Pages
      BY DEF Handlers
    <3> QED
      BY <2>1, <2>2, <3>1 DEF Handlers, Points
  <2>6. /\ Answered(r).op = r.op /\ Answered(r).at = at /\ Answered(r).left = left
        /\ Answered(r).done = r.done \cup {r.page}
    BY <2>1 DEF Handlers
  <2> QED
    BY <1>3, <2>2, <2>3, <2>4, <2>5, <2>6 DEF InOrder, Pausing, Asking
<1> QED
  BY <1>1, <1>2, <1>3

\* When Core carries out a request, no scope vanishes, and what a handler is to forget
\* is still paused or counts as enabled again.
LEMMA EffectKeepsOrder ==
    ASSUME BrowserInv, NEW kind, NEW p \in Pages, Effect(kind, p)
    PROVE  /\ scope' \in Scopes /\ crossed' \in SUBSET Pages
           /\ \A q \in Pages : scope[q] # "none" => scope'[q] # "none"
           /\ \A t \in Tasks : InOrder(task[t], scope', crossed')
           /\ kind = "enable" => scope'[p] # "none"
           /\ kind = "pause" /\ scope[p] # "none" => scope'[p] = "paused"
<1>0. \A t \in Tasks : task[t].done \subseteq Pages
  BY DEF BrowserInv, TypeOK
<1>1. scope \in Scopes /\ crossed \in SUBSET Pages
  BY DEF BrowserInv, TypeOK, Scopes
<1>2. scope' \in Scopes /\ crossed' \in SUBSET Pages
  BY <1>1 DEF Effect, Scopes
<1>3. \A q \in Pages : scope[q] # "none" => scope'[q] # "none"
  BY <1>1 DEF Effect, Scopes
<1>4. \A t \in Tasks : \A q \in task[t].done :
         scope[q] = "paused" \/ q \in crossed => scope'[q] = "paused" \/ q \in crossed'
  <2>1. CASE kind = "enable"
    <3>1. /\ \A q \in Pages : q # p => scope'[q] = scope[q]
          /\ crossed' = IF \E t \in Tasks : p \in task[t].done THEN crossed \cup {p}
                        ELSE crossed
      BY <1>1, <2>1 DEF Effect, Scopes
    <3> QED
      BY <1>0, <3>1
  <2>2. CASE kind = "pause" /\ scope[p] # "none"
    <3>1. /\ scope'[p] = "paused" /\ \A q \in Pages : q # p => scope'[q] = scope[q]
          /\ crossed' = crossed \ {p}
      BY <1>1, <2>2 DEF Effect, Scopes
    <3> QED
      BY <1>0, <3>1
  <2>3. CASE kind # "enable" /\ ~(kind = "pause" /\ scope[p] # "none")
    BY <2>3 DEF Effect
  <2> QED
    BY <2>1, <2>2, <2>3
<1>5. \A t \in Tasks : task[t] \in Handlers
  BY DEF BrowserInv, TypeOK, Handlers
<1>6. \A t \in Tasks : InOrder(task[t], scope', crossed')
  BY <1>3, <1>4, <1>5 DEF BrowserInv, InOrder, Handlers
<1>7. kind = "enable" => scope'[p] # "none"
  BY <1>1 DEF Effect, Scopes
<1>8. kind = "pause" /\ scope[p] # "none" => scope'[p] = "paused"
  BY <1>1 DEF Effect, Scopes
<1> QED
  BY <1>2, <1>3, <1>6, <1>7, <1>8

\* One handler moves, in order.
LEMMA OneMoves ==
    ASSUME BrowserInv, NEW t \in Tasks, NEW r \in Handlers,
           task' = [task EXCEPT ![t] = r], InOrder(r, scope', crossed'),
           \A u \in Tasks : InOrder(task[u], scope', crossed')
    PROVE  task' \in [Tasks -> Handlers] /\ \A u \in Tasks : InOrder(task'[u], scope', crossed')
<1>1. task \in [Tasks -> Handlers]
  BY DEF BrowserInv, TypeOK, Handlers
<1>2. task'[t] = r /\ \A u \in Tasks \ {t} : task'[u] = task[u]
  BY <1>1
<1> QED
  BY <1>1, <1>2

\* A handler whose reconnect is over has nothing more to do, or starts the bridge.
LEMMA ReconnectedInOrder ==
    ASSUME NEW r, NEW scopes, NEW again
    PROVE  /\ Rest \in Handlers /\ InOrder(Rest, scopes, again)
           /\ Reconnected(r) \in Handlers /\ InOrder(Reconnected(r), scopes, again)
BY DEF Reconnected, Rest, Task, Handlers, InOrder, Pausing, Asking, Ops, Points

\* rejectAll moves all who wait, in order.
LEMMA AllRejected ==
    ASSUME BrowserInv
    PROVE  /\ RejectAll \in [Tasks -> Handlers]
           /\ \A t \in Tasks : InOrder(RejectAll[t], scope, crossed)
           /\ PortLost \in [Tasks -> Handlers]
           /\ \A t \in Tasks : InOrder(PortLost[t], scope, crossed)
<1>1. task \in [Tasks -> Handlers] /\ \A t \in Tasks : InOrder(task[t], scope, crossed)
  BY DEF BrowserInv, TypeOK, Handlers
<1>2. \A t \in Tasks : RejectAll[t] = IF task[t].at \in Asking THEN Rejected(task[t])
                                     ELSE IF task[t].at = "joined" THEN Reconnected(task[t])
                                     ELSE task[t]
  BY DEF RejectAll, Asking
<1>3. \A t \in Tasks : RejectAll[t] \in Handlers /\ InOrder(RejectAll[t], scope, crossed)
  BY <1>1, <1>2, RejectedInOrder, ReconnectedInOrder
<1>4. RejectAll \in [Tasks -> Handlers]
  BY <1>3 DEF RejectAll
<1> QED
  BY <1>1, <1>3, <1>4 DEF PortLost

\* The bridge keeps its types; one that is wanted and schedules has its timer set, and
\* one that establishes has a port, or an attempt that has lost its own.
LEMMA BridgeTyped ==
    ASSUME NEW b \in Bridges
    PROVE  /\ Scheduled(b) \in Bridges /\ Established(b) \in Bridges /\ Closed(b) \in Bridges
           /\ Scheduled(b).desired => Scheduled(b).timer
           /\ Established(b).port = "none" => b.port = "none" /\ b.connecting # "none"
           /\ b.connecting = "none" => Established(Closed(b)).port = "open"
BY DEF Scheduled, Established, Closed, Bridges

-----------------------------------------------------------------------------
(***************************************************************************)
(* The steps that leave the mappings and the scopes alone.                 *)
(***************************************************************************)

\* A request is asked for: by then the handler has a page, or one of those to pause.
LEMMA RequestInOrder ==
    ASSUME BrowserInv, NEW t \in Tasks, NEW p \in Pages, Request(t, p)
    PROVE  task' \in [Tasks -> Handlers] /\ \A u \in Tasks : InOrder(task'[u], scope', crossed')
<1> DEFINE at == IF bridge.port = "ready" THEN "pending" ELSE "waiting"
           r  == [task[t] EXCEPT !.page = p, !.at = at]
<1>1. task[t] \in Handlers /\ InOrder(task[t], scope, crossed) /\ task[t].at = "request"
  BY DEF BrowserInv, TypeOK, Handlers, Request
<1>2. task' = [task EXCEPT ![t] = r]
  BY DEF Request, BrowserInv, TypeOK
<1>3. at \in {"pending", "waiting"}
  OBVIOUS
<1>4. p \in IF task[t].left = {} THEN {task[t].page} ELSE task[t].left
  BY DEF Request
<1>5. scope' = scope /\ crossed' = crossed
  BY DEF Request, core
<1> HIDE DEF at
<1>6. r \in Handlers
  BY <1>1, <1>3 DEF Handlers, Points
<1>7. /\ r.op = task[t].op /\ r.at = at /\ r.page = p /\ r.left = task[t].left
      /\ r.done = task[t].done
  BY <1>1 DEF Handlers
<1> HIDE DEF r
<1>8. InOrder(r, scope, crossed)
  BY <1>1, <1>3, <1>4, <1>7 DEF InOrder, Pausing, Asking
<1> QED
  BY <1>2, <1>5, <1>6, <1>8, OneMoves DEF BrowserInv

\* A handler begins for a page.
LEMMA BeginInOrder ==
    ASSUME BrowserInv, NEW t \in Tasks, NEW op \in Ops \ {"idle"},
           NEW at \in {"read", "request"}, NEW p \in Pages, Begin(t, op, at, p),
           op \in {"observe", "event"} => at = "request",
           op \in Pausing => at # "request"
    PROVE  task' \in [Tasks -> Handlers] /\ \A u \in Tasks : InOrder(task'[u], scope', crossed')
<1>1. task' = [task EXCEPT ![t] = Task(op, at, p)] /\ scope' = scope /\ crossed' = crossed
  BY DEF Begin, core
<1>2. Task(op, at, p) \in Handlers /\ InOrder(Task(op, at, p), scope, crossed)
  BY BeginningInOrder
<1> QED
  BY <1>1, <1>2, OneMoves DEF BrowserInv

\* What is read stands for scopes that exist, and so does what is concluded from it.
LEMMA ReadInOrder ==
    ASSUME BrowserInv, NEW t \in Tasks, Read(t)
    PROVE  task' \in [Tasks -> Handlers] /\ \A u \in Tasks : InOrder(task'[u], scope', crossed')
<1> DEFINE affected == ActiveIn(store) \cap {task[t].page}
           Seen(left, at) == [task[t] EXCEPT !.seen = store, !.left = left, !.at = at]
<1>1. /\ task[t] \in Handlers /\ InOrder(task[t], scope, crossed) /\ task[t].at = "read"
      /\ scope' = scope /\ crossed' = crossed
  BY DEF BrowserInv, TypeOK, Handlers, Read, core
<1>2. store \in Mappings /\ \A p \in Pages : store[p] # "none" => scope[p] # "none"
  BY DEF BrowserInv, TypeOK
<1>3. affected \subseteq Pages /\ \A p \in affected : scope[p] # "none"
  BY <1>2 DEF ActiveIn
<1>4. \A left \in SUBSET Pages, at \in {"write", "judge"} :
         /\ Seen(left, at) \in Handlers
         /\ Seen(left, at).op = task[t].op /\ Seen(left, at).at = at
         /\ Seen(left, at).page = task[t].page /\ Seen(left, at).seen = store
         /\ Seen(left, at).left = left /\ Seen(left, at).done = task[t].done
  BY <1>1, <1>2 DEF Handlers, Points
<1>5. Rest \in Handlers /\ InOrder(Rest, scope, crossed)
  BY DEF Rest, Task, Handlers, InOrder, Pausing, Asking, Ops, Points
<1>6. \/ task[t].op = "observe" /\ task' = [task EXCEPT ![t] = Seen({}, "write")]
      \/ task[t].op = "reconcile" /\ task' = [task EXCEPT ![t] = Seen({}, "judge")]
      \/ /\ task[t].op \notin {"observe", "reconcile"} /\ affected # {}
         /\ task' = [task EXCEPT ![t] = Seen(affected, "write")]
      \/ task' = [task EXCEPT ![t] = Rest]
  <2>1. [Seen(affected, "write") EXCEPT !.left = {}] = Seen({}, "write")
    BY <1>1 DEF Handlers
  <2>2. [Seen(affected, "write") EXCEPT !.left = {}, !.at = "judge"] = Seen({}, "judge")
    BY <1>1 DEF Handlers
  <2> QED
    BY <2>1, <2>2 DEF Read
<1> HIDE DEF affected, Seen
<1>7. CASE task[t].op = "observe" /\ task' = [task EXCEPT ![t] = Seen({}, "write")]
  <2>1. InOrder(Seen({}, "write"), scope, crossed)
    BY <1>1, <1>2, <1>4, <1>7 DEF InOrder, Pausing, Asking
  <2> QED
    BY <1>1, <1>4, <1>7, <2>1, OneMoves DEF BrowserInv
<1>8. CASE task[t].op = "reconcile" /\ task' = [task EXCEPT ![t] = Seen({}, "judge")]
  <2>1. InOrder(Seen({}, "judge"), scope, crossed)
    BY <1>1, <1>2, <1>4, <1>8 DEF InOrder, Pausing, Asking
  <2> QED
    BY <1>1, <1>4, <1>8, <2>1, OneMoves DEF BrowserInv
<1>9. CASE /\ task[t].op \notin {"observe", "reconcile"} /\ affected # {}
           /\ task' = [task EXCEPT ![t] = Seen(affected, "write")]
  <2>1. task[t].op # "event"
    BY <1>1 DEF InOrder, Asking
  <2>2. InOrder(Seen(affected, "write"), scope, crossed)
    BY <1>1, <1>2, <1>3, <1>4, <1>9, <2>1 DEF InOrder, Pausing, Asking
  <2> QED
    BY <1>1, <1>3, <1>4, <1>9, <2>2, OneMoves DEF BrowserInv
<1>10. CASE task' = [task EXCEPT ![t] = Rest]
  BY <1>1, <1>5, <1>10, OneMoves DEF BrowserInv
<1> QED
  BY <1>6, <1>7, <1>8, <1>9, <1>10

\* reconcilePermissions concludes from what it has read what is to be paused.
LEMMA JudgeInOrder ==
    ASSUME BrowserInv, NEW t \in Tasks, Judge(t)
    PROVE  task' \in [Tasks -> Handlers] /\ \A u \in Tasks : InOrder(task'[u], scope', crossed')
<1> DEFINE affected == {p \in Pages : \/ task[t].seen[p] = "pause_pending"
                                      \/ task[t].seen[p] = "active" /\ p \notin granted}
           r == [task[t] EXCEPT !.left = affected,
                                !.seen = IF affected = {} THEN None ELSE task[t].seen,
                                !.at   = IF affected = {} THEN "start" ELSE "write"]
<1>1. /\ task[t] \in Handlers /\ InOrder(task[t], scope, crossed) /\ task[t].at = "judge"
      /\ scope' = scope /\ crossed' = crossed
  BY DEF BrowserInv, TypeOK, Handlers, Judge, core
<1>2. task' = [task EXCEPT ![t] = r]
  BY DEF Judge, BrowserInv, TypeOK
<1>3. task[t].op = "reconcile" /\ task[t].seen \in Mappings
  BY <1>1 DEF InOrder
<1>4. affected \subseteq Pages /\ \A p \in affected : scope[p] # "none"
  BY <1>1 DEF InOrder
<1> HIDE DEF affected
<1>5. r \in Handlers
  BY <1>1, <1>4 DEF Handlers, Points
<1>6. /\ r.op = "reconcile" /\ r.left = affected /\ r.done = task[t].done
      /\ r.page = task[t].page
      /\ r.seen = (IF affected = {} THEN None ELSE task[t].seen)
      /\ r.at = (IF affected = {} THEN "start" ELSE "write")
  BY <1>1, <1>3 DEF Handlers
<1> HIDE DEF r
<1>7. InOrder(r, scope, crossed)
  BY <1>1, <1>3, <1>4, <1>6 DEF InOrder, Pausing, Asking
<1> QED
  BY <1>1, <1>2, <1>5, <1>7, OneMoves DEF BrowserInv

\* The end of the host, or of the hello, rejects all it reaches; so does a reconnect, whose
\* own handler is over with it, or waits for `connecting`.
LEMMA RejectAllInOrder ==
    ASSUME BrowserInv, \/ HelloUnposted \/ HelloFails \/ Disconnect
                       \/ \E t \in Tasks : Reconnect(t)
    PROVE  task' \in [Tasks -> Handlers] /\ \A u \in Tasks : InOrder(task'[u], scope', crossed')
<1>1. scope' = scope /\ crossed' = crossed
  BY DEF HelloUnposted, HelloFails, Disconnect, Reconnect, core
<1>2. CASE HelloUnposted \/ HelloFails \/ Disconnect
  BY <1>1, <1>2, AllRejected DEF HelloUnposted, HelloFails, Disconnect
<1>3. ASSUME NEW t \in Tasks, Reconnect(t)
      PROVE  /\ task' \in [Tasks -> Handlers]
             /\ \A u \in Tasks : InOrder(task'[u], scope, crossed)
  <2> DEFINE joined == [task[t] EXCEPT !.at = "joined"]
             r      == IF bridge.connecting = "hello" THEN Reconnected(task[t]) ELSE joined
  <2>1. task' = [PortLost EXCEPT ![t] = r] /\ task[t].at = "reconnect"
    BY <1>3 DEF Reconnect
  <2>2. task[t] \in Handlers /\ InOrder(task[t], scope, crossed)
    BY DEF BrowserInv, TypeOK, Handlers
  <2>3. /\ joined \in Handlers /\ joined.op = task[t].op /\ joined.at = "joined"
        /\ joined.left = task[t].left /\ joined.done = task[t].done
    BY <2>2 DEF Handlers, Points
  <2> HIDE DEF joined
  <2>4. InOrder(joined, scope, crossed)
    BY <2>1, <2>2, <2>3 DEF InOrder, Pausing, Asking
  <2>5. r \in Handlers /\ InOrder(r, scope, crossed)
    BY <2>3, <2>4, ReconnectedInOrder
  <2> HIDE DEF r
  <2>6. task'[t] = r /\ \A u \in Tasks \ {t} : task'[u] = PortLost[u]
    BY <2>1, AllRejected
  <2> QED
    BY <2>1, <2>5, <2>6, AllRejected
<1> QED
  BY <1>1, <1>2, <1>3

\* Of the other steps that touch neither mappings nor scopes, the handlers are in order
\* after each.
LEMMA QuietInOrder ==
    ASSUME BrowserInv,
           \/ \E t \in Tasks : GiveUp(t) \/ Start(t) \/ Check(t) \/ Reread(t)
           \/ HelloPosted \/ HelloAcked \/ ReconnectTimer
           \/ Recycle \/ Kill
           \/ \E p \in Pages : Grant(p) \/ Revoke(p)
    PROVE  task' \in [Tasks -> Handlers] /\ \A u \in Tasks : InOrder(task'[u], scope', crossed')
<1> USE DEF core
<1>1. scope' = scope /\ crossed' = crossed
  BY DEF GiveUp, Start, Check, Reread, HelloPosted, HelloAcked, ReconnectTimer, Recycle, Kill,
         WorkerStarts, Grant, Revoke
<1>2. \A t \in Tasks : task[t] \in Handlers /\ InOrder(task[t], scope, crossed)
  BY DEF BrowserInv, TypeOK, Handlers
<1>3. /\ Rest \in Handlers /\ InOrder(Rest, scope, crossed)
      /\ Task("reconcile", "read", None) \in Handlers
      /\ InOrder(Task("reconcile", "read", None), scope, crossed)
  BY DEF Rest, Task, Handlers, InOrder, Pausing, Asking, Ops, Points
<1>4. ASSUME NEW t \in Tasks, GiveUp(t)
      PROVE  /\ task' \in [Tasks -> Handlers]
             /\ \A u \in Tasks : InOrder(task'[u], scope', crossed')
  <2>1. task[t].at \in Asking /\ task' = [task EXCEPT ![t] = Rejected(task[t])]
    BY <1>4 DEF GiveUp, Asking
  <2>2. Rejected(task[t]) \in Handlers /\ InOrder(Rejected(task[t]), scope, crossed)
    BY <1>2, <2>1, RejectedInOrder
  <2> QED
    BY <1>1, <1>2, <2>1, <2>2, OneMoves
<1>5. ASSUME NEW t \in Tasks, Start(t)
      PROVE  /\ task' \in [Tasks -> Handlers]
             /\ \A u \in Tasks : InOrder(task'[u], scope', crossed')
  BY <1>1, <1>2, <1>3, <1>5, OneMoves DEF Start, Ends
<1>6. ASSUME NEW t \in Tasks, Reread(t)
      PROVE  /\ task' \in [Tasks -> Handlers]
             /\ \A u \in Tasks : InOrder(task'[u], scope', crossed')
  <2> DEFINE r == [task[t] EXCEPT !.seen = store, !.at = "remove"]
  <2>1. task' = [task EXCEPT ![t] = r] /\ task[t].at = "reread"
    BY <1>6 DEF Reread, BrowserInv, TypeOK
  <2>2. store \in Mappings /\ \A p \in Pages : store[p] # "none" => scope[p] # "none"
    BY DEF BrowserInv, TypeOK
  <2>3. r \in Handlers
    BY <1>2, <2>2 DEF Handlers, Points
  <2>4. /\ r.op = task[t].op /\ r.at = "remove" /\ r.seen = store
        /\ r.left = task[t].left /\ r.done = task[t].done
    BY <1>2 DEF Handlers
  <2> HIDE DEF r
  <2>5. InOrder(r, scope, crossed)
    BY <1>2, <2>1, <2>2, <2>4 DEF InOrder, Pausing, Asking
  <2> QED
    BY <1>1, <1>2, <2>1, <2>3, <2>5, OneMoves
<1>7. ASSUME NEW t \in Tasks, Check(t)
      PROVE  /\ task' \in [Tasks -> Handlers]
             /\ \A u \in Tasks : InOrder(task'[u], scope', crossed')
  <2> DEFINE r == [task[t] EXCEPT !.at = "read"]
  <2>1. /\ task[t].at = "check"
        /\ task' = [task EXCEPT ![t] = r] \/ task' = [task EXCEPT ![t] = Rest]
    BY <1>7 DEF Check, Goes, Ends, BrowserInv, TypeOK
  <2>2. r \in Handlers
    BY <1>2 DEF Handlers, Points
  <2>3. /\ r.op = task[t].op /\ r.at = "read" /\ r.page = task[t].page
        /\ r.left = task[t].left /\ r.done = task[t].done
    BY <1>2 DEF Handlers
  <2> HIDE DEF r
  <2>4. InOrder(r, scope, crossed)
    BY <1>2, <2>1, <2>3 DEF InOrder, Pausing, Asking
  <2> QED
    BY <1>1, <1>2, <1>3, <2>1, <2>2, <2>4, OneMoves
<1>8. CASE HelloAcked
  <2>1. ASSUME NEW t \in Tasks
        PROVE  task'[t] \in Handlers /\ InOrder(task'[t], scope, crossed)
    <3>1. CASE task[t].at = "waiting"
      <4>1. task'[t] = [task[t] EXCEPT !.at = "pending"]
        BY <1>8, <3>1 DEF HelloAcked
      <4>2. task'[t] \in Handlers
        BY <1>2, <4>1 DEF Handlers, Points
      <4>3. /\ task'[t].op = task[t].op /\ task'[t].at = "pending"
            /\ task'[t].page = task[t].page
            /\ task'[t].left = task[t].left /\ task'[t].done = task[t].done
        BY <1>2, <4>1 DEF Handlers
      <4> QED
        BY <1>2, <3>1, <4>2, <4>3 DEF InOrder, Pausing, Asking
    <3>2. CASE task[t].at = "joined"
      BY <1>8, <3>2, ReconnectedInOrder DEF HelloAcked
    <3>3. CASE task[t].at \notin {"waiting", "joined"}
      <4>1. task'[t] = task[t]
        BY <1>8, <3>3 DEF HelloAcked
      <4> QED
        BY <1>2, <4>1
    <3> QED
      BY <3>1, <3>2, <3>3
  <2>2. task' \in [Tasks -> Handlers]
    BY <1>8, <2>1 DEF HelloAcked
  <2> QED
    BY <1>1, <2>1, <2>2
<1>9. CASE Recycle \/ Kill
  BY <1>1, <1>3, <1>9 DEF Recycle, Kill, WorkerStarts
<1>10. CASE HelloPosted \/ ReconnectTimer \/ \E p \in Pages : Grant(p) \/ Revoke(p)
  <2>1. task' = task /\ task \in [Tasks -> Handlers]
    BY <1>10 DEF HelloPosted, ReconnectTimer, Grant, Revoke, BrowserInv, TypeOK, Handlers
  <2> QED
    BY <1>1, <1>2, <2>1
<1> QED
  BY <1>4, <1>5, <1>6, <1>7, <1>8, <1>9, <1>10

-----------------------------------------------------------------------------
(***************************************************************************)
(* The steps that change mappings or scopes.                               *)
(***************************************************************************)

\* A handler that waits asks for a page, one of a scope that exists if it pauses.
LEMMA AskedPage ==
    ASSUME BrowserInv, NEW t \in Tasks, task[t].at \in Asking
    PROVE  /\ task[t].page \in Pages
           /\ task[t].op \in Pausing => /\ Kind(task[t]) = "pause"
                                        /\ scope[task[t].page] # "none"
           /\ task[t].op = "observe" => Kind(task[t]) = "enable"
<1>1. task[t] \in Handlers /\ InOrder(task[t], scope, crossed)
  BY DEF BrowserInv, TypeOK, Handlers
<1>2. task[t].op \in Pausing \cup {"observe", "event"}
  BY <1>1 DEF InOrder, Handlers, Ops, Pausing, Asking
<1>3. task[t].op \in Pausing => task[t].page \in task[t].left
  BY <1>1 DEF InOrder
<1>4. task[t].left \subseteq Pages
  BY <1>1 DEF Handlers
<1> QED
  BY <1>1, <1>2, <1>3, <1>4 DEF InOrder, Pausing, Asking, Kind

\* Core carries out a request, whether or not its answer arrives.
LEMMA AnswerInOrder ==
    ASSUME BrowserInv, NEW t \in Tasks, AnswerLost(t) \/ \E p \in Pages : Answer(t, p)
    PROVE  /\ task' \in [Tasks -> Handlers]
           /\ \A u \in Tasks : InOrder(task'[u], scope', crossed')
           /\ scope' \in Scopes /\ crossed' \in SUBSET Pages
           /\ \A q \in Pages : scope[q] # "none" => scope'[q] # "none"
<1>1. task[t] \in Handlers /\ task[t].at = "pending"
  BY DEF BrowserInv, TypeOK, Handlers, Answer, AnswerLost
<1>2. task[t].page \in Pages
  BY <1>1, AskedPage DEF Asking
<1>3. Effect(Kind(task[t]), task[t].page)
  BY DEF Answer, AnswerLost
<1>4. /\ scope' \in Scopes /\ crossed' \in SUBSET Pages
      /\ \A q \in Pages : scope[q] # "none" => scope'[q] # "none"
      /\ \A u \in Tasks : InOrder(task[u], scope', crossed')
      /\ Kind(task[t]) = "enable" => scope'[task[t].page] # "none"
      /\ Kind(task[t]) = "pause" /\ scope[task[t].page] # "none" =>
            scope'[task[t].page] = "paused"
  BY <1>2, <1>3, EffectKeepsOrder
<1>5. ASSUME NEW p \in Pages, Answer(t, p)
      PROVE  /\ task' \in [Tasks -> Handlers]
             /\ \A u \in Tasks : InOrder(task'[u], scope', crossed')
  <2>1. task' = [task EXCEPT ![t] = Answered(task[t])]
    BY <1>5 DEF Answer
  <2>2. /\ task[t].op = "observe" => scope'[task[t].page] # "none"
        /\ task[t].op \in Pausing => scope'[task[t].page] = "paused"
    BY <1>1, <1>4, AskedPage DEF Asking
  <2>3. Answered(task[t]) \in Handlers /\ InOrder(Answered(task[t]), scope', crossed')
    BY <1>1, <1>2, <1>4, <2>2, AnsweredInOrder
  <2> QED
    BY <1>4, <2>1, <2>3, OneMoves
<1>6. CASE AnswerLost(t)
  <2> DEFINE r == [task[t] EXCEPT !.at = "silent"]
  <2>1. task' = [task EXCEPT ![t] = r]
    BY <1>6 DEF AnswerLost, Goes, BrowserInv, TypeOK
  <2>2. r \in Handlers
    BY <1>1 DEF Handlers, Points
  <2>3. /\ r.op = task[t].op /\ r.at = "silent" /\ r.page = task[t].page
        /\ r.left = task[t].left /\ r.done = task[t].done
    BY <1>1 DEF Handlers
  <2> HIDE DEF r
  <2>4. InOrder(r, scope', crossed')
    <3>1. InOrder(task[t], scope', crossed')
      BY <1>4
    <3> QED
      BY <1>1, <2>3, <3>1 DEF InOrder, Pausing, Asking
  <2> QED
    BY <1>4, <2>1, <2>2, <2>4, OneMoves
<1> QED
  BY <1>4, <1>5, <1>6

\* The mappings that are written stand for scopes that exist.
LEMMA WriteInOrder ==
    ASSUME BrowserInv, NEW t \in Tasks, Write(t) \/ Remove(t)
    PROVE  /\ task' \in [Tasks -> Handlers]
           /\ \A u \in Tasks : InOrder(task'[u], scope', crossed')
           /\ store' \in Mappings /\ \A p \in Pages : store'[p] # "none" => scope[p] # "none"
<1>1. /\ task[t] \in Handlers /\ InOrder(task[t], scope, crossed)
      /\ task[t].at \in {"write", "remove"} /\ scope' = scope /\ crossed' = crossed
  BY DEF BrowserInv, TypeOK, Handlers, Write, Remove, core
<1>2. /\ task[t].seen \in Mappings
      /\ \A p \in Pages : task[t].seen[p] # "none" => scope[p] # "none"
      /\ \A p \in task[t].left : scope[p] # "none"
      /\ task[t].left \in SUBSET Pages /\ task[t].done \in SUBSET Pages
  BY <1>1 DEF InOrder, Handlers
<1>3. CASE Write(t)
  <2> DEFINE at == IF task[t].op = "observe" THEN "reconnect" ELSE "request"
             r  == [task[t] EXCEPT !.at = at, !.seen = None]
  <2>1. task' = [task EXCEPT ![t] = r] /\ task[t].at = "write"
    BY <1>3 DEF Write, BrowserInv, TypeOK
  <2>2. r \in Handlers
    BY <1>1 DEF Handlers, Points
  <2>3. /\ r.op = task[t].op /\ r.at = at /\ r.left = task[t].left /\ r.done = task[t].done
        /\ r.page = task[t].page
    BY <1>1 DEF Handlers
  <2> HIDE DEF r
  <2>4. InOrder(r, scope, crossed)
    BY <1>1, <2>1, <2>3 DEF InOrder, Pausing, Asking
  <2>5. store' \in Mappings /\ \A p \in Pages : store'[p] # "none" => scope[p] # "none"
    <3>1. CASE task[t].op = "observe"
      <4>1. store' = [task[t].seen EXCEPT ![task[t].page] = "active"]
        BY <1>3, <3>1 DEF Write
      <4>2. task[t].page \in Pages /\ scope[task[t].page] # "none"
        BY <1>1, <2>1, <3>1 DEF InOrder
      <4> QED
        BY <1>2, <4>1, <4>2 DEF Mappings
    <3>2. CASE task[t].op # "observe"
      <4>1. store' = [p \in Pages |-> IF p \in task[t].left THEN "pause_pending"
                                      ELSE task[t].seen[p]]
        BY <1>3, <3>2 DEF Write
      <4> QED
        BY <1>2, <4>1 DEF Mappings
    <3> QED
      BY <3>1, <3>2
  <2> QED
    BY <1>1, <2>1, <2>2, <2>4, <2>5, OneMoves DEF BrowserInv
<1>4. CASE Remove(t)
  <2> DEFINE r == [task[t] EXCEPT !.seen = None, !.done = {}, !.at = "reconnect"]
  <2>1. task' = [task EXCEPT ![t] = r] /\ task[t].at = "remove"
    BY <1>4 DEF Remove, BrowserInv, TypeOK
  <2>2. r \in Handlers
    BY <1>1 DEF Handlers, Points
  <2>3. /\ r.op = task[t].op /\ r.at = "reconnect" /\ r.left = task[t].left /\ r.done = {}
    BY <1>1 DEF Handlers
  <2> HIDE DEF r
  <2>4. InOrder(r, scope, crossed)
    BY <1>1, <2>1, <2>3 DEF InOrder, Pausing, Asking
  <2>5. store' = [p \in Pages |-> IF p \in task[t].done THEN "none" ELSE task[t].seen[p]]
    BY <1>4 DEF Remove
  <2>6. store' \in Mappings /\ \A p \in Pages : store'[p] # "none" => scope[p] # "none"
    BY <1>2, <2>5 DEF Mappings
  <2> QED
    BY <1>1, <2>1, <2>2, <2>4, <2>6, OneMoves DEF BrowserInv
<1> QED
  BY <1>3, <1>4

-----------------------------------------------------------------------------
(***************************************************************************)
(* The invariant.                                                          *)
(***************************************************************************)

\* The steps that touch the bridge.
LEMMA BridgeSteps ==
    ASSUME Next
    PROVE  \/ \E t \in Tasks : Start(t) \/ Reconnect(t) \/ \E p \in Pages : Request(t, p)
           \/ HelloPosted \/ HelloUnposted \/ HelloAcked \/ HelloFails
           \/ Disconnect \/ ReconnectTimer \/ Recycle \/ Kill
           \/ bridge' = bridge
BY DEF Next, HandlerStep, Answer, GiveUp, Check, Read, Judge, Write, Reread, Remove, AnswerLost,
       Observe, StopPage, PermissionsRemoved, Navigate, Begin, Grant, Revoke

\* What a step leaves of the bridge, the permissions and the counters is typed.
LEMMA RestTyped ==
    ASSUME TypeOK, Next
    PROVE  /\ bridge' \in Bridges
           /\ granted' \in SUBSET Pages
           /\ begun' \in 0..MaxHandlers /\ faults' \in 0..MaxFaults
<1> USE DEF core, counts
<1>1. bridge' \in Bridges
  <2>1. bridge \in Bridges
    BY DEF TypeOK, Bridges
  <2>2. /\ [bridge EXCEPT !.timer = FALSE] \in Bridges
        /\ [bridge EXCEPT !.desired = TRUE] \in Bridges
        /\ [bridge EXCEPT !.desired = TRUE, !.timer = FALSE] \in Bridges
        /\ [bridge EXCEPT !.port = "none", !.connecting = "none"] \in Bridges
        /\ [bridge EXCEPT !.port = "ready", !.connecting = "none"] \in Bridges
        /\ [bridge EXCEPT !.connecting = "hello"] \in Bridges
        /\ [bridge EXCEPT !.connecting = "none"] \in Bridges
        /\ Unstarted \in Bridges
    BY <2>1 DEF Bridges, Unstarted
  <2>3. CASE \E t \in Tasks : Start(t) \/ Reconnect(t) \/ \E p \in Pages : Request(t, p)
    <3>1. CASE \E t \in Tasks : Start(t) \/ \E p \in Pages : Request(t, p)
      BY <2>1, <2>2, <3>1, BridgeTyped DEF Start, Request
    <3>2. CASE \E t \in Tasks : Reconnect(t)
      <4> DEFINE closed == Closed([bridge EXCEPT !.desired = TRUE, !.timer = FALSE])
      <4>1. closed \in Bridges
        BY <2>2, BridgeTyped
      <4>2. bridge' = Established(closed) \/ bridge' = closed
        BY <3>2 DEF Reconnect
      <4> HIDE DEF closed
      <4> QED
        BY <4>1, <4>2, BridgeTyped
    <3> QED
      BY <2>3, <3>1, <3>2
  <2>4. CASE HelloPosted \/ HelloUnposted \/ HelloAcked \/ HelloFails
    BY <2>2, <2>4, BridgeTyped DEF HelloPosted, HelloUnposted, HelloAcked, HelloFails
  <2>5. CASE Disconnect \/ ReconnectTimer \/ Recycle \/ Kill
    BY <2>1, <2>2, <2>5, BridgeTyped DEF Disconnect, ReconnectTimer, Recycle, Kill, WorkerStarts
  <2> QED
    BY <2>1, <2>3, <2>4, <2>5, BridgeSteps
<1>2. granted' \in SUBSET Pages
  <2>1. \/ granted' = granted
        \/ \E p \in Revocable : granted' \in {granted \cup {p}, granted \ {p}}
    BY DEF Next, HandlerStep, Request, Answer, GiveUp, Check, Read, Judge, Write, Reread,
           Remove, Reconnect, Start, AnswerLost, Observe, StopPage, PermissionsRemoved, Navigate,
           Begin, HelloPosted, HelloUnposted, HelloAcked, HelloFails, Disconnect,
           ReconnectTimer, Grant, Revoke, Recycle, Kill, WorkerStarts
  <2> QED
    BY <2>1, ConstantsAssumption DEF TypeOK
<1>3. begun' \in 0..MaxHandlers /\ faults' \in 0..MaxFaults
  <2>1. \/ begun' = begun
        \/ begun < MaxHandlers /\ begun' = begun + 1
    BY DEF Next, HandlerStep, Request, Answer, GiveUp, Check, Read, Judge, Write, Reread,
           Remove, Reconnect, Start, AnswerLost, Observe, StopPage, PermissionsRemoved, Navigate,
           Begin, HelloPosted, HelloUnposted, HelloAcked, HelloFails, Disconnect,
           ReconnectTimer, Grant, Revoke, Recycle, Kill, WorkerStarts, Fault
  <2>2. \/ faults' = faults
        \/ faults < MaxFaults /\ faults' = faults + 1
    BY DEF Next, HandlerStep, Request, Answer, GiveUp, Check, Read, Judge, Write, Reread,
           Remove, Reconnect, Start, AnswerLost, Observe, StopPage, PermissionsRemoved, Navigate,
           Begin, HelloPosted, HelloUnposted, HelloAcked, HelloFails, Disconnect,
           ReconnectTimer, Grant, Revoke, Recycle, Kill, WorkerStarts, Fault
  <2>3. MaxHandlers \in Nat /\ MaxFaults \in Nat
    BY ConstantsAssumption
  <2>4. begun \in 0..MaxHandlers /\ faults \in 0..MaxFaults
    BY DEF TypeOK
  <2> QED
    BY <2>1, <2>2, <2>3, <2>4
<1> QED
  BY <1>1, <1>2, <1>3

\* The worker starts by reading what it may have to reconcile; nothing is mapped yet.
LEMMA InitBrowser == Init => BrowserInv
<1> SUFFICES ASSUME Init
             PROVE  BrowserInv
  OBVIOUS
<1>1. \A t \in Tasks : task[t] \in Handlers /\ InOrder(task[t], scope, crossed)
  <2>1. \A t \in Tasks : task[t] \in {Task("reconcile", "read", None), Rest}
    BY DEF Init
  <2>2. \A r \in {Task("reconcile", "read", None), Rest} :
           r \in Handlers /\ InOrder(r, scope, crossed)
    BY DEF Rest, Task, Handlers, InOrder, Pausing, Asking, Ops, Points
  <2> QED
    BY <2>1, <2>2
<1>2. task \in [Tasks -> Handlers]
  BY <1>1 DEF Init
<1>3. /\ store \in Mappings /\ scope \in Scopes /\ granted \in SUBSET Pages
      /\ crossed \in SUBSET Pages /\ bridge \in Bridges
      /\ begun \in 0..MaxHandlers /\ faults \in 0..MaxFaults
  BY ConstantsAssumption DEF Init, Mappings, Scopes, Bridges, Unstarted
<1>4. \A p \in Pages : store[p] = "none"
  BY DEF Init
<1> QED
  BY <1>1, <1>2, <1>3, <1>4 DEF BrowserInv, TypeOK, Handlers, Scopes, Bridges

\* The steps apart, by what they do to the mappings and the scopes: nothing,
QuietStep ==
    \/ \E t \in Tasks : \/ GiveUp(t) \/ Reconnect(t) \/ Start(t) \/ Reread(t)
                       \/ Check(t) \/ Read(t) \/ Judge(t)
                       \/ \E p \in Pages : \/ Request(t, p)
                                           \/ Observe(t, p) \/ StopPage(t, p)
                                           \/ PermissionsRemoved(t, p) \/ Navigate(t, p)
    \/ HelloPosted \/ HelloUnposted \/ HelloAcked \/ HelloFails
    \/ Disconnect \/ ReconnectTimer
    \/ Recycle \/ Kill
    \/ \E p \in Pages : Grant(p) \/ Revoke(p)

\* what Core does,
CoreStep == \E t \in Tasks : AnswerLost(t) \/ \E p \in Pages : Answer(t, p)

\* and what is written to the extension's storage.
StorageStep == \E t \in Tasks : Write(t) \/ Remove(t)

\* Every step is of one of these kinds, and touches nothing else of the three.
LEMMA StepOfKind ==
    ASSUME Next
    PROVE  \/ QuietStep /\ UNCHANGED <<store, scope, crossed>>
           \/ CoreStep /\ UNCHANGED store
           \/ StorageStep /\ UNCHANGED <<scope, crossed>>
<1> USE DEF core, counts
<1>1. StorageStep => UNCHANGED <<scope, crossed>>
  BY DEF StorageStep, Write, Remove
<1>2. CoreStep => UNCHANGED store
  BY DEF CoreStep, AnswerLost, Answer
<1>3. QuietStep => UNCHANGED <<store, scope, crossed>>
  <2>1. ASSUME NEW t \in Tasks, \/ GiveUp(t) \/ Reconnect(t) \/ Start(t) \/ Reread(t)
                               \/ Check(t) \/ Read(t) \/ Judge(t)
        PROVE  UNCHANGED <<store, scope, crossed>>
    BY <2>1 DEF GiveUp, Reconnect, Start, Reread, Check, Read, Judge
  <2>2. ASSUME NEW t \in Tasks, NEW p \in Pages,
               \/ Request(t, p) \/ Observe(t, p) \/ StopPage(t, p)
               \/ PermissionsRemoved(t, p) \/ Navigate(t, p)
        PROVE  UNCHANGED <<store, scope, crossed>>
    BY <2>2 DEF Request, Observe, StopPage, PermissionsRemoved, Navigate, Begin
  <2>3. ASSUME \/ HelloPosted \/ HelloUnposted \/ HelloAcked \/ HelloFails
               \/ Disconnect \/ ReconnectTimer
               \/ Recycle \/ Kill
        PROVE  UNCHANGED <<store, scope, crossed>>
    BY <2>3 DEF HelloPosted, HelloUnposted, HelloAcked, HelloFails, Disconnect, ReconnectTimer,
                Recycle, Kill, WorkerStarts
  <2>4. ASSUME NEW p \in Pages, Grant(p) \/ Revoke(p)
        PROVE  UNCHANGED <<store, scope, crossed>>
    BY <2>4 DEF Grant, Revoke
  <2> QED
    BY <2>1, <2>2, <2>3, <2>4 DEF QuietStep
<1>4. Next => QuietStep \/ CoreStep \/ StorageStep
  <2>1. Revocable \subseteq Pages
    BY ConstantsAssumption
  <2>2. ASSUME NEW t \in Tasks, HandlerStep(t)
        PROVE  QuietStep \/ CoreStep \/ StorageStep
    BY <2>2 DEF HandlerStep, QuietStep, CoreStep, StorageStep
  <2>3. ASSUME NEW t \in Tasks,
               \/ Start(t) \/ AnswerLost(t)
               \/ \E p \in Pages : \/ Observe(t, p) \/ StopPage(t, p)
                                   \/ PermissionsRemoved(t, p) \/ Navigate(t, p)
        PROVE  QuietStep \/ CoreStep
    BY <2>3 DEF QuietStep, CoreStep
  <2>4. ASSUME \/ HelloPosted \/ HelloUnposted \/ HelloAcked \/ HelloFails
               \/ Disconnect \/ ReconnectTimer
               \/ \E p \in Revocable : Grant(p) \/ Revoke(p)
               \/ Recycle \/ Kill
        PROVE  QuietStep
    BY <2>1, <2>4 DEF QuietStep
  <2> QED
    BY <2>2, <2>3, <2>4 DEF Next
<1> QED
  BY <1>1, <1>2, <1>3, <1>4

\* A step of the handlers, the bridge, Core or the browser keeps the invariant.
LEMMA StepKeepsBrowser == BrowserInv /\ [Next]_vars => BrowserInv'
<1> SUFFICES ASSUME BrowserInv, [Next]_vars
             PROVE  BrowserInv'
  OBVIOUS
<1>1. CASE UNCHANGED vars
  BY <1>1 DEF vars, BrowserInv, TypeOK, InOrder
<1>2. CASE Next
  <2>1. /\ bridge' \in Bridges /\ granted' \in SUBSET Pages
        /\ begun' \in 0..MaxHandlers /\ faults' \in 0..MaxFaults
    BY <1>2, RestTyped DEF BrowserInv
  <2>2. /\ store \in Mappings /\ scope \in Scopes /\ crossed \in SUBSET Pages
        /\ \A p \in Pages : store[p] # "none" => scope[p] # "none"
    BY DEF BrowserInv, TypeOK, Scopes
  <2>3. /\ task' \in [Tasks -> Handlers]
        /\ \A u \in Tasks : InOrder(task'[u], scope', crossed')
        /\ store' \in Mappings /\ scope' \in Scopes /\ crossed' \in SUBSET Pages
        /\ \A p \in Pages : store'[p] # "none" => scope'[p] # "none"
    <3>1. ASSUME NEW t \in Tasks, NEW p \in Pages,
                 Observe(t, p) \/ StopPage(t, p) \/ Navigate(t, p) \/ PermissionsRemoved(t, p)
          PROVE  /\ task' \in [Tasks -> Handlers]
                 /\ \A u \in Tasks : InOrder(task'[u], scope', crossed')
      <4>1. \/ Begin(t, "observe", "request", p) \/ Begin(t, "event", "request", p)
            \/ Begin(t, "stop", "read", p) \/ Begin(t, "removed", "read", p)
        BY <3>1 DEF Observe, StopPage, Navigate, PermissionsRemoved
      <4> QED
        BY <4>1, BeginInOrder DEF Ops, Pausing
    <3>2. CASE QuietStep /\ UNCHANGED <<store, scope, crossed>>
      <4>1. /\ task' \in [Tasks -> Handlers]
            /\ \A u \in Tasks : InOrder(task'[u], scope', crossed')
        BY <3>1, <3>2, QuietInOrder, RejectAllInOrder, ReadInOrder, JudgeInOrder,
           RequestInOrder DEF QuietStep
      <4> QED
        BY <2>2, <3>2, <4>1
    <3>3. CASE CoreStep /\ UNCHANGED store
      BY <2>2, <3>3, AnswerInOrder DEF CoreStep
    <3>4. CASE StorageStep /\ UNCHANGED <<scope, crossed>>
      BY <2>2, <3>4, WriteInOrder DEF StorageStep
    <3> QED
      BY <1>2, <3>2, <3>3, <3>4, StepOfKind
  <2> QED
    BY <2>1, <2>3 DEF BrowserInv, TypeOK, Handlers, Scopes, Bridges
<1> QED
  BY <1>1, <1>2

\* It holds of every behaviour.
LEMMA Invariance == Spec => []BrowserInv
BY InitBrowser, StepKeepsBrowser, PTL DEF Spec

-----------------------------------------------------------------------------
(***************************************************************************)
(* Who waits for the bridge.                                               *)
(***************************************************************************)

\* A handler that waits for `connecting` or for an answer.
Waits(r) == r.at \in Asking \/ r.at = "joined"

\* Nobody goes on waiting after an answer, a rejection, or the end of a reconnect.
LEMMA NoLongerWaits ==
    ASSUME NEW r \in Handlers
    PROVE  /\ ~Waits(Answered(r)) /\ ~Waits(Rejected(r))
           /\ ~Waits(Reconnected(r))
           /\ ~Waits(Rest) /\ ~Waits(Task("reconcile", "read", None))
<1>1. /\ ~Waits(Rest) /\ ~Waits(Reconnected(r))
      /\ ~Waits(Task("reconcile", "read", None))
  BY DEF Rest, Task, Reconnected, Waits, Asking
<1>2. ~Waits(Answered(r))
  BY <1>1 DEF Answered, Handlers, Waits, Asking
<1>3. ~Waits(Rejected(r))
  BY <1>1 DEF Rejected, Handlers, Waits, Asking
<1> QED
  BY <1>1, <1>2, <1>3

\* After rejectAll nobody waits.
LEMMA NobodyWaits ==
    ASSUME BrowserInv
    PROVE  \A t \in Tasks : ~Waits(RejectAll[t])
<1>1. \A t \in Tasks : task[t] \in Handlers
  BY DEF BrowserInv, TypeOK, Handlers
<1> QED
  BY <1>1, NoLongerWaits DEF RejectAll, Waits, Asking

\* A handler that moves alone, and not to where it would wait for something else, leaves
\* the bridge in order.
LEMMA OneStopsWaiting ==
    ASSUME BridgeInOrder, bridge' = bridge, NEW t \in Tasks,
           \A u \in Tasks \ {t} : task'[u] = task[u],
           \/ ~Waits(task'[t])
           \/ task[t].at = "pending" /\ task'[t].at = "silent"
    PROVE  BridgeInOrder'
BY DEF BridgeInOrder, Waits, Asking

\* The steps of handlers that do not touch the bridge.
LEMMA HandlersKeepBridge ==
    ASSUME BrowserInv, BridgeInOrder, NEW t \in Tasks,
           \/ GiveUp(t) \/ Check(t) \/ Read(t) \/ Judge(t) \/ Write(t) \/ Reread(t) \/ Remove(t)
           \/ AnswerLost(t)
           \/ \E p \in Pages : \/ Answer(t, p) \/ Observe(t, p) \/ StopPage(t, p)
                               \/ PermissionsRemoved(t, p) \/ Navigate(t, p)
    PROVE  BridgeInOrder'
<1>1. task \in [Tasks -> Handlers] /\ task[t] \in Handlers
  BY DEF BrowserInv, TypeOK, Handlers
<1>2. bridge' = bridge
  BY DEF GiveUp, Check, Read, Judge, Write, Reread, Remove, AnswerLost, Answer, Observe,
         StopPage, PermissionsRemoved, Navigate, Begin
<1>3. \A u \in Tasks \ {t} : task'[u] = task[u]
  BY <1>1 DEF GiveUp, Check, Read, Judge, Write, Reread, Remove, AnswerLost, Answer, Observe,
              StopPage, PermissionsRemoved, Navigate, Begin, Goes, Ends
<1>4. CASE GiveUp(t) \/ \E p \in Pages : Answer(t, p)
  <2>1. task'[t] = Rejected(task[t]) \/ task'[t] = Answered(task[t])
    BY <1>1, <1>4 DEF GiveUp, Answer
  <2>2. ~Waits(task'[t])
    BY <1>1, <2>1, NoLongerWaits
  <2> QED
    BY <1>2, <1>3, <2>2, OneStopsWaiting
<1>5. CASE AnswerLost(t)
  <2>1. task'[t].at = "silent" /\ task[t].at = "pending"
    BY <1>1, <1>5 DEF AnswerLost, Goes, Handlers
  <2> QED
    BY <1>2, <1>3, <2>1, OneStopsWaiting
<1>6. CASE Check(t)
  <2>1. task'[t] = [task[t] EXCEPT !.at = "read"] \/ task'[t] = Rest
    BY <1>1, <1>6 DEF Check, Goes, Ends
  <2>2. ~Waits(task'[t])
    BY <1>1, <2>1 DEF Rest, Task, Handlers, Waits, Asking
  <2> QED
    BY <1>2, <1>3, <2>2, OneStopsWaiting
<1>7. CASE Read(t)
  <2>1. task'[t] = Rest \/ task'[t].at \in {"write", "judge"}
    BY <1>1, <1>7 DEF Read, Handlers
  <2>2. ~Waits(task'[t])
    BY <2>1 DEF Rest, Task, Waits, Asking
  <2> QED
    BY <1>2, <1>3, <2>2, OneStopsWaiting
<1>8. CASE Judge(t) \/ Write(t) \/ Reread(t) \/ Remove(t)
  <2>1. task'[t].at \in {"start", "write", "reconnect", "request", "remove"}
    <3>1. CASE Judge(t)
      BY <1>1, <3>1 DEF Judge, Handlers
    <3>2. CASE Write(t)
      BY <1>1, <3>2 DEF Write, Handlers
    <3>3. CASE Reread(t)
      BY <1>1, <3>3 DEF Reread, Handlers
    <3>4. CASE Remove(t)
      BY <1>1, <3>4 DEF Remove, Handlers
    <3> QED
      BY <1>8, <3>1, <3>2, <3>3, <3>4
  <2>2. ~Waits(task'[t])
    BY <2>1 DEF Waits, Asking
  <2> QED
    BY <1>2, <1>3, <2>2, OneStopsWaiting
<1>9. CASE \E p \in Pages : \/ Observe(t, p) \/ StopPage(t, p)
                            \/ PermissionsRemoved(t, p) \/ Navigate(t, p)
  <2>1. PICK op \in Ops, at \in {"read", "request"}, p \in Pages : Begin(t, op, at, p)
    BY <1>9 DEF Observe, StopPage, PermissionsRemoved, Navigate, Ops
  <2>2. ~Waits(task'[t])
    BY <1>1, <2>1 DEF Begin, Task, Waits, Asking
  <2> QED
    BY <1>2, <1>3, <2>2, OneStopsWaiting
<1> QED
  BY <1>4, <1>5, <1>6, <1>7, <1>8, <1>9

\* Every step leaves the bridge in order.
LEMMA StepKeepsBridge == BrowserInv /\ BridgeInOrder /\ [Next]_vars => BridgeInOrder'
<1> SUFFICES ASSUME BrowserInv, BridgeInOrder, [Next]_vars
             PROVE  BridgeInOrder'
  OBVIOUS
<1>1. bridge \in Bridges /\ task \in [Tasks -> Handlers]
  BY DEF BrowserInv, TypeOK, Bridges, Handlers
<1>2. \A t \in Tasks : task[t] \in Handlers
  BY <1>1
<1>3. CASE UNCHANGED vars
  BY <1>3 DEF vars, BridgeInOrder
<1>4. ASSUME NEW t \in Tasks, NEW p \in Pages, Request(t, p)
      PROVE  BridgeInOrder'
  <2> DEFINE at == IF bridge.port = "ready" THEN "pending" ELSE "waiting"
  <2>1. /\ task'[t].at = at /\ \A u \in Tasks \ {t} : task'[u] = task[u]
        /\ bridge' = Established(bridge)
    BY <1>1, <1>2, <1>4 DEF Request, Handlers
  <2> QED
    BY <1>1, <2>1 DEF BridgeInOrder, Established, Bridges
<1>5. ASSUME NEW t \in Tasks, Start(t)
      PROVE  BridgeInOrder'
  <2>1. /\ ~Waits(task'[t]) /\ \A u \in Tasks \ {t} : task'[u] = task[u]
        /\ bridge' = Established([bridge EXCEPT !.desired = TRUE])
    BY <1>1, <1>2, <1>5, NoLongerWaits DEF Start, Ends
  <2> QED
    BY <1>1, <2>1 DEF BridgeInOrder, Established, Bridges, Waits, Asking
<1>6. ASSUME NEW t \in Tasks, Reconnect(t)
      PROVE  BridgeInOrder'
  <2>1. bridge'.port = IF bridge.connecting = "none" THEN "open" ELSE "none"
    BY <1>1, <1>6 DEF Reconnect, Closed, Established, Bridges
  <2>2. bridge'.connecting = IF bridge.connecting = "hello" THEN "none" ELSE "preparing"
    BY <1>1, <1>6 DEF Reconnect, Closed, Established, Bridges
  <2>3. \A u \in Tasks \ {t} : task'[u] = PortLost[u]
    BY <1>6, AllRejected DEF Reconnect
  <2>4. \/ ~Waits(task'[t])
        \/ task'[t].at = "joined" /\ bridge.connecting # "hello"
    <3>1. task'[t] = IF bridge.connecting = "hello" THEN Reconnected(task[t])
                     ELSE [task[t] EXCEPT !.at = "joined"]
      BY <1>6, AllRejected DEF Reconnect
    <3>2. CASE bridge.connecting = "hello"
      BY <1>2, <3>1, <3>2, NoLongerWaits
    <3>3. CASE bridge.connecting # "hello"
      BY <1>2, <3>1, <3>3 DEF Handlers
    <3> QED
      BY <3>2, <3>3
  <2>5. CASE bridge.connecting = "preparing"
    BY <1>1, <2>1, <2>2, <2>3, <2>4, <2>5 DEF BridgeInOrder, PortLost, Waits, Asking
  <2>6. CASE bridge.connecting # "preparing"
    BY <1>1, <2>1, <2>2, <2>3, <2>4, <2>6, NobodyWaits
       DEF BridgeInOrder, PortLost, Waits, Asking, Bridges
  <2> QED
    BY <2>5, <2>6
<1>7. CASE HelloPosted \/ ReconnectTimer
  BY <1>1, <1>7 DEF HelloPosted, ReconnectTimer, Established, BridgeInOrder, Bridges
<1>8. CASE HelloUnposted \/ HelloFails
  <2>1. /\ bridge'.port = "none" /\ bridge'.connecting = "none"
        /\ \A t \in Tasks : ~Waits(task'[t])
    BY <1>1, <1>8, NobodyWaits DEF HelloUnposted, HelloFails, Scheduled, Bridges
  <2> QED
    BY <2>1 DEF BridgeInOrder, Waits, Asking
<1>9. CASE HelloAcked
  <2>1. bridge'.port = "ready" /\ bridge'.connecting = "none"
    BY <1>1, <1>9 DEF HelloAcked, Bridges
  <2>2. \A t \in Tasks : task'[t].at \notin {"waiting", "joined"}
    BY <1>1, <1>2, <1>9, NoLongerWaits DEF HelloAcked, Handlers, Waits, Asking
  <2> QED
    BY <2>1, <2>2 DEF BridgeInOrder
<1>10. CASE Disconnect
  <2>1. /\ bridge'.port = "none"
        /\ bridge'.connecting = IF bridge.connecting = "preparing" THEN "preparing" ELSE "none"
    BY <1>1, <1>10 DEF Disconnect, Closed, Scheduled, Bridges
  <2>2. CASE bridge.connecting = "preparing"
    BY <1>10, <2>1, <2>2 DEF Disconnect, PortLost, BridgeInOrder
  <2>3. CASE bridge.connecting # "preparing"
    BY <1>10, <2>1, <2>3, NobodyWaits DEF Disconnect, PortLost, BridgeInOrder, Waits, Asking
  <2> QED
    BY <2>2, <2>3
<1>11. CASE Recycle \/ Kill
  <2>1. \A t \in Tasks : ~Waits(task'[t])
    BY <1>2, <1>11, NoLongerWaits DEF Recycle, Kill, WorkerStarts
  <2> QED
    BY <1>11, <2>1 DEF Recycle, Kill, WorkerStarts, Unstarted, BridgeInOrder, Waits, Asking
<1>12. CASE \E p \in Pages : Grant(p) \/ Revoke(p)
  BY <1>12 DEF Grant, Revoke, BridgeInOrder
<1>13. CASE Next
  BY <1>4, <1>5, <1>6, <1>7, <1>8, <1>9, <1>10, <1>11, <1>12, <1>13, HandlersKeepBridge,
     ConstantsAssumption DEF Next, HandlerStep
<1> QED
  BY <1>3, <1>13

-----------------------------------------------------------------------------
(***************************************************************************)
(* Theorems.                                                               *)
(***************************************************************************)

\* The worker's mappings, handlers and bridge, and Core's scopes, have their types
\* (BrowserIntegration, BrowserNativeBridge).
THEOREM BrowserTypeCorrect == Spec => []TypeOK
<1>1. BrowserInv => TypeOK
  BY DEF BrowserInv
<1> QED
  BY <1>1, Invariance, PTL

\* A mapping in chrome.storage.local stands for a scope Core knows, whatever handlers
\* overtake each other: observeCurrentPage asks Core before it saves the mapping.
THEOREM AlwaysKnownToCore == Spec => [](\A p \in Pages : store[p] # "none" => scope[p] # "none")
<1>1. BrowserInv => \A p \in Pages : store[p] # "none" => scope[p] # "none"
  BY DEF BrowserInv
<1> QED
  BY <1>1, Invariance, PTL

\* A bridge that is wanted and has no port has its timer set for the next attempt, whatever
\* ports it loses and hellos fail; it is left without only by what happens to an attempt
\* under way, one that a reconnect closes or that has lost its port while createHello was
\* awaited (scheduleReconnect, handleDisconnect, reconnect).
THEOREM AlwaysRetries == Spec => RetryArmed
<1>1. BrowserInv /\ [Next]_vars =>
        [bridge'.desired /\ bridge'.port = "none" /\ ~bridge'.timer =>
            \/ UNCHANGED bridge
            \/ /\ bridge.connecting # "none"
               /\ bridge.port = "none" \/ \E t \in Tasks : task[t].at = "reconnect"]_vars
  <2> SUFFICES ASSUME BrowserInv, Next, bridge'.desired, bridge'.port = "none",
                      ~bridge'.timer, bridge' # bridge
               PROVE  /\ bridge.connecting # "none"
                      /\ bridge.port = "none" \/ \E t \in Tasks : task[t].at = "reconnect"
    OBVIOUS
  <2>1. bridge \in Bridges
    BY DEF BrowserInv, TypeOK, Bridges
  <2>2. \A b \in Bridges :
           /\ Closed(b) \in Bridges
           /\ Scheduled(b).desired => Scheduled(b).timer
           /\ Established(b).port = "none" => b.port = "none" /\ b.connecting # "none"
           /\ b.connecting = "none" => Established(Closed(b)).port = "open"
    BY BridgeTyped
  <2>3. ASSUME NEW t \in Tasks, Start(t) \/ Reconnect(t) \/ \E p \in Pages : Request(t, p)
        PROVE  /\ bridge.connecting # "none"
               /\ bridge.port = "none" \/ task[t].at = "reconnect"
    <3>1. CASE \E p \in Pages : Request(t, p)
      BY <2>1, <2>2, <3>1 DEF Request
    <3>2. CASE Start(t)
      <4> DEFINE b == [bridge EXCEPT !.desired = TRUE]
      <4>1. b \in Bridges /\ b.port = bridge.port /\ b.connecting = bridge.connecting
        BY <2>1 DEF Bridges
      <4> QED
        BY <2>2, <3>2, <4>1 DEF Start
    <3>3. CASE Reconnect(t)
      <4> DEFINE b == [bridge EXCEPT !.desired = TRUE, !.timer = FALSE]
      <4>1. b \in Bridges /\ b.connecting = bridge.connecting
        BY <2>1 DEF Bridges
      <4> QED
        BY <2>2, <3>3, <4>1 DEF Reconnect
    <3> QED
      BY <2>3, <3>1, <3>2, <3>3
  <2>4. CASE HelloUnposted
    BY <2>4 DEF HelloUnposted
  <2>5. ~HelloPosted /\ ~HelloAcked
    BY <2>1 DEF HelloPosted, HelloAcked, Bridges
  <2>6. ~HelloFails /\ ~Disconnect
    <3>1. [bridge EXCEPT !.port = "none", !.connecting = "none"] \in Bridges
      BY <2>1 DEF Bridges
    <3> QED
      BY <2>1, <2>2, <3>1 DEF HelloFails, Disconnect
  <2>7. CASE ReconnectTimer
    <3> DEFINE b == [bridge EXCEPT !.timer = FALSE]
    <3>1. b \in Bridges /\ b.port = bridge.port /\ b.connecting = bridge.connecting
      BY <2>1 DEF Bridges
    <3> QED
      BY <2>2, <2>7, <3>1 DEF ReconnectTimer
  <2>8. ~Recycle /\ ~Kill
    BY DEF Recycle, Kill, WorkerStarts, Unstarted
  <2> QED
    BY <2>3, <2>4, <2>5, <2>6, <2>7, <2>8, BridgeSteps
<1> QED
  BY <1>1, Invariance, PTL DEF Spec, RetryArmed

\* Nobody waits in vain: a handler that waits for `connecting` waits for an attempt that
\* is under way, even when its port was lost while createHello was awaited, and one that
\* waits for an answer has a port that is ready (ensureConnected, requestOnPort, rejectAll).
THEOREM NobodyWaitsInVain == Spec => []BridgeInOrder
<1>1. Init => BridgeInOrder
  BY DEF Init, Unstarted, BridgeInOrder, Rest, Task
<1> QED
  BY <1>1, Invariance, StepKeepsBridge, PTL DEF Spec

\* A handler that has written goes on.
LEMMA WriteMoves ==
    ASSUME NEW t \in Tasks, task \in [Tasks -> Handlers], Write(t) \/ Remove(t)
    PROVE  task[t].at \in {"write", "remove"} /\ task'[t].at \notin {"write", "remove"}
<1>1. CASE Write(t)
  <2> DEFINE at == IF task[t].op = "observe" THEN "reconnect" ELSE "request"
  <2>1. task'[t] = [task[t] EXCEPT !.at = at, !.seen = None]
    BY <1>1 DEF Write
  <2>2. task'[t].at = at
    BY <2>1 DEF Handlers
  <2> QED
    BY <1>1, <2>2 DEF Write
<1>2. CASE Remove(t)
  <2>1. task'[t] = [task[t] EXCEPT !.seen = None, !.done = {}, !.at = "reconnect"]
    BY <1>2 DEF Remove
  <2> QED
    BY <1>2, <2>1 DEF Remove, Handlers
<1> QED
  BY <1>1, <1>2

\* A locally paused page becomes active again only by an observe of it, unless handlers
\* overtake each other between their read and their write (the saves of integration.ts).
THEOREM AlwaysPausedLocally == Spec => LocalPauseHolds
<1>1. BrowserInv /\ [Next]_vars =>
        [\A p \in Pages : store[p] = "pause_pending" /\ store'[p] = "active" =>
            \E t \in Tasks : \/ Overtaken(t)
                             \/ task[t].op = "observe" /\ task[t].page = p]_vars
  <2> SUFFICES ASSUME BrowserInv, Next, NEW p \in Pages,
                      store[p] = "pause_pending", store'[p] = "active"
               PROVE  \E t \in Tasks : \/ Overtaken(t)
                                       \/ task[t].op = "observe" /\ task[t].page = p
    OBVIOUS
  <2>1. PICK t \in Tasks : Write(t) \/ Remove(t)
    BY StepOfKind DEF StorageStep
  <2>2. task[t] \in Handlers /\ task \in [Tasks -> Handlers]
    BY DEF BrowserInv, TypeOK, Handlers
  <2>3. task[t].at \in {"write", "remove"} /\ task'[t].at \notin {"write", "remove"}
    BY <2>1, <2>2, WriteMoves
  <2>4. SUFFICES ASSUME task[t].seen = store, task[t].op # "observe" \/ task[t].page # p
                 PROVE  FALSE
    BY <2>3 DEF Overtaken
  <2>5. store'[p] # "active"
    <3>1. store \in Mappings
      BY DEF BrowserInv, TypeOK
    <3>2. CASE Write(t) /\ task[t].op = "observe"
      BY <2>4, <3>1, <3>2 DEF Write, Mappings
    <3>3. CASE Write(t) /\ task[t].op # "observe"
      BY <2>4, <3>1, <3>3 DEF Write
    <3>4. CASE Remove(t)
      BY <2>4, <3>1, <3>4 DEF Remove
    <3> QED
      BY <2>1, <3>2, <3>3, <3>4
  <2> QED
    BY <2>5
<1> QED
  BY <1>1, Invariance, PTL DEF Spec, LocalPauseHolds

\* A mapping is removed only when Core has paused its scope, unless handlers overtake
\* each other or an observe of the page crossed the removal (syncPausedScopes).
THEOREM AlwaysPausedBeforeForgotten == Spec => ForgottenWhenPaused
<1>1. BrowserInv /\ [Next]_vars =>
        [\A p \in Pages : store[p] # "none" /\ store'[p] = "none" =>
            \/ scope[p] = "paused"
            \/ p \in crossed
            \/ \E t \in Tasks : Overtaken(t)]_vars
  <2> SUFFICES ASSUME BrowserInv, Next, NEW p \in Pages,
                      store[p] # "none", store'[p] = "none"
               PROVE  scope[p] = "paused" \/ p \in crossed \/ \E t \in Tasks : Overtaken(t)
    OBVIOUS
  <2>1. PICK t \in Tasks : Write(t) \/ Remove(t)
    BY StepOfKind DEF StorageStep
  <2>2. /\ task[t] \in Handlers /\ task \in [Tasks -> Handlers]
        /\ InOrder(task[t], scope, crossed)
    BY DEF BrowserInv, TypeOK, Handlers
  <2>3. task[t].at \in {"write", "remove"} /\ task'[t].at \notin {"write", "remove"}
    BY <2>1, <2>2, WriteMoves
  <2>4. SUFFICES ASSUME task[t].seen = store
                 PROVE  scope[p] = "paused" \/ p \in crossed
    BY <2>3 DEF Overtaken
  <2>5. p \in task[t].done
    <3>1. store \in Mappings
      BY DEF BrowserInv, TypeOK
    <3>2. ~Write(t)
      <4>1. CASE task[t].op = "observe"
        BY <2>4, <3>1, <4>1 DEF Write, Mappings
      <4>2. CASE task[t].op # "observe"
        BY <2>4, <3>1, <4>2 DEF Write
      <4> QED
        BY <4>1, <4>2
    <3> QED
      BY <2>1, <2>4, <3>2 DEF Remove
  <2> QED
    BY <2>2, <2>5 DEF InOrder
<1> QED
  BY <1>1, Invariance, PTL DEF Spec, ForgottenWhenPaused
=============================================================================
