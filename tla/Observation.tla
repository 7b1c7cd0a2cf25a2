----------------------------- MODULE Observation -----------------------------
(***************************************************************************)
(* Resources, observation scopes and the ingestion of events: the handlers *)
(* of resource.create, observation enable and pause, event.ingest and of   *)
(* an adapter's event.emit in crates/fubun-core/src/lib.rs over the tables *)
(* resources, observation_scopes, adapters and events.                     *)
(*                                                                         *)
(* A resource is identified by its canonical locator, which is UNIQUE, and *)
(* is never changed or deleted.  A scope is identified by its source and   *)
(* resource.  The handlers of different connections interleave between     *)
(* their storage requests; a connection handles one frame at a time.       *)
(***************************************************************************)
EXTENDS Naturals, AdapterEligibility

CONSTANTS
    Locators,    \* canonical locators
    Clients,     \* client connections
    Sockets,     \* adapter connections
    HelloOf,     \* socket -> the hello it registered with
    InstanceOf,  \* socket -> the instance id in that hello
    SequenceNumbers,  \* the sequence numbers an adapter may use
    None

Instances == {InstanceOf[s] : s \in Sockets}
Sources   == {"browser.chromium", "vscode.workspace"}
Kinds     == {"web_page", "directory", "file"}
Scopes    == Sources \X Locators

ASSUME ConstantsAssumption ==
    /\ SequenceNumbers \subseteq Nat
    /\ \A s \in Sockets : ValidateHello(HelloOf[s])
    /\ None \notin Kinds \cup Sources \cup Locators \cup {"active", "paused"}

VARIABLES
    resources,  \* locator -> the kind of the resource, or None
    scopes,     \* scope -> "active", "paused" or None
    events,     \* the stored events
    lastSeq,    \* instance -> last_sequence_no of its adapters row, 0 if there is no row
    enabling,   \* client -> the scope its enable request is about to ensure, or None
    ingesting,  \* socket -> the event it has checked and is about to insert, or None
    late        \* history: socket -> scope -> events it stored in that scope
                \* while it was not active, since the scope was last enabled

vars == <<resources, scopes, events, lastSeq, enabling, ingesting, late>>

\* Synthetic events of the development fixture have neither source nor resource.
Event == [instance : Instances, sequence_no : SequenceNumbers,
          source : Sources \cup {None}, resource : Locators \cup {None}]

TypeOK ==
    /\ resources \in [Locators -> Kinds \cup {None}]
    /\ scopes \in [Scopes -> {"active", "paused", None}]
    /\ events \in SUBSET Event
    /\ lastSeq \in [Instances -> SequenceNumbers \cup {0}]
    /\ enabling \in [Clients -> Scopes \cup {None}]
    /\ ingesting \in [Sockets -> Event \cup {None}]
    /\ late \in [Sockets -> [Scopes -> Nat]]

Init ==
    /\ resources = [l \in Locators |-> None]
    /\ scopes = [sc \in Scopes |-> None]
    /\ events = {}
    /\ lastSeq = [i \in Instances |-> 0]
    /\ enabling = [k \in Clients |-> None]
    /\ ingesting = [s \in Sockets |-> None]
    /\ late = [s \in Sockets |-> [sc \in Scopes |-> 0]]

-----------------------------------------------------------------------------
(***************************************************************************)
(* Resources and scopes.                                                   *)
(***************************************************************************)

\* The kind of resource an observation source is about.
ExpectedKind(source) == IF source = "browser.chromium" THEN "web_page" ELSE "directory"

\* resource.create: a canonicalized file or directory; a duplicate is refused.
CreateResource(l, kind) ==
    /\ kind \in {"file", "directory"}
    /\ resources[l] = None
    /\ resources' = [resources EXCEPT ![l] = kind]
    /\ UNCHANGED <<scopes, events, lastSeq, enabling, ingesting, late>>

\* The first half of browser and VS Code observation enable: create_resource, or
\* after a duplicate the existing one, which must be of the same kind.
EnableResource(k, l, source) ==
    /\ enabling[k] = None
    /\ resources[l] \in {None, ExpectedKind(source)}
    /\ resources' = [resources EXCEPT ![l] = ExpectedKind(source)]
    /\ enabling' = [enabling EXCEPT ![k] = <<source, l>>]
    /\ UNCHANGED <<scopes, events, lastSeq, ingesting, late>>

\* The second half, ensure_observation_scope: inserted or set active again.
EnsureObservationScope(k) ==
    LET sc == enabling[k]
    IN  /\ sc # None
        /\ scopes' = [scopes EXCEPT ![sc] = "active"]
        /\ late' = [s \in Sockets |-> [late[s] EXCEPT ![sc] = 0]]
        /\ enabling' = [enabling EXCEPT ![k] = None]
        /\ UNCHANGED <<resources, events, lastSeq, ingesting>>

\* observation.scope.pause; a second pause changes nothing.
PauseObservationScope(sc) ==
    /\ scopes[sc] = "active"
    /\ scopes' = [scopes EXCEPT ![sc] = "paused"]
    /\ UNCHANGED <<resources, events, lastSeq, enabling, ingesting, late>>

-----------------------------------------------------------------------------
(***************************************************************************)
(* Events.                                                                 *)
(***************************************************************************)

\* The source and the capability an adapter's events must have.
ExpectedSource(hello) ==
    IF hello.adapter_id = BrowserAdapter THEN "browser.chromium" ELSE "vscode.workspace"

ExpectedCapability(hello) ==
    IF hello.adapter_id = BrowserAdapter THEN BrowserOpened ELSE WorkspaceOpened

\* The checks of ingest_adapter_event that need no scope: the adapter's id, the
\* event's type and capability, the permission of a browser, and the resource.
MayEmit(hello, type, l) ==
    /\ hello.adapter_id \in {BrowserAdapter, VscodeAdapter}
    /\ type = ExpectedCapability(hello)
    /\ type \in Range(hello.event_capabilities)
    /\ hello.adapter_id = BrowserAdapter => l \in hello.permitted_resource_ids
    /\ resources[l] = ExpectedKind(ExpectedSource(hello))

\* Mutant: the status of the scope is not looked at.
ScopeKnown(hello, l) == scopes[<<ExpectedSource(hello), l>>] # None

ScopeActive(hello, l) == scopes[<<ExpectedSource(hello), l>>] = "active"

\* Mutant: the scope is trusted to say who may send the event.
CheckEventScopeOnly(s, type, l, n) ==
    LET hello == HelloOf[s]
    IN  /\ ingesting[s] = None
        /\ ScopeActive(hello, l)
        /\ ingesting' = [ingesting EXCEPT ![s] =
                           [instance |-> InstanceOf[s], sequence_no |-> n,
                            source |-> ExpectedSource(hello), resource |-> l]]
        /\ UNCHANGED <<resources, scopes, events, lastSeq, enabling, late>>

\* ingest_adapter_event up to list_observation_scopes.  An event that fails a
\* check is acknowledged as not stored and nothing changes.
CheckEvent(s, type, l, n) ==
    LET hello == HelloOf[s]
    IN  /\ ingesting[s] = None
        /\ MayEmit(hello, type, l)
        /\ ScopeActive(hello, l)
        /\ ingesting' = [ingesting EXCEPT ![s] =
                           [instance |-> InstanceOf[s], sequence_no |-> n,
                            source |-> ExpectedSource(hello), resource |-> l]]
        /\ UNCHANGED <<resources, scopes, events, lastSeq, enabling, late>>

Duplicate(event) ==
    \E e \in events : e.instance = event.instance /\ e.sequence_no = event.sequence_no

\* Mutant: the upsert has no MAX.
NewLastSeqLatest(event) == event.sequence_no

\* The row of the adapters table after the upsert.
NewLastSeq(event) ==
    IF lastSeq[event.instance] > event.sequence_no
    THEN lastSeq[event.instance] ELSE event.sequence_no

\* insert_event, one transaction: the adapters row and the event, both rolled
\* back if the instance has used the sequence number before.
StoreEvent(event) ==
    IF Duplicate(event)
    THEN UNCHANGED <<events, lastSeq>>
    ELSE /\ events' = events \cup {event}
         /\ lastSeq' = [lastSeq EXCEPT ![event.instance] = NewLastSeq(event)]

\* The last request of ingest_adapter_event.
InsertEvent(s) ==
    LET event == ingesting[s]
        sc    == <<event.source, event.resource>>
    IN  /\ event # None
        /\ StoreEvent(event)
        /\ late' = IF event \in events' \ events /\ scopes[sc] # "active"
                   THEN [late EXCEPT ![s][sc] = @ + 1] ELSE late
        /\ ingesting' = [ingesting EXCEPT ![s] = None]
        /\ UNCHANGED <<resources, scopes, enabling>>

\* event.ingest of a client: synthetic events only, under any adapter identity.
IngestSynthetic(i, n) ==
    /\ StoreEvent([instance |-> i, sequence_no |-> n, source |-> None, resource |-> None])
    /\ UNCHANGED <<resources, scopes, enabling, ingesting, late>>

\* A storage error, or the loss of a connection or of the daemon, ends a handler
\* between two of its requests.
DropEnable(k) ==
    /\ enabling[k] # None
    /\ enabling' = [enabling EXCEPT ![k] = None]
    /\ UNCHANGED <<resources, scopes, events, lastSeq, ingesting, late>>

DropEvent(s) ==
    /\ ingesting[s] # None
    /\ ingesting' = [ingesting EXCEPT ![s] = None]
    /\ UNCHANGED <<resources, scopes, events, lastSeq, enabling, late>>

Next ==
    \/ \E l \in Locators, kind \in Kinds : CreateResource(l, kind)
    \/ \E k \in Clients :
          \/ \E l \in Locators, source \in Sources : EnableResource(k, l, source)
          \/ EnsureObservationScope(k)
          \/ DropEnable(k)
    \/ \E sc \in Scopes : PauseObservationScope(sc)
    \/ \E s \in Sockets :
          \/ \E type \in EventCapabilities, l \in Locators, n \in SequenceNumbers :
                CheckEvent(s, type, l, n)
          \/ InsertEvent(s)
          \/ DropEvent(s)
    \/ \E i \in Instances, n \in SequenceNumbers : IngestSynthetic(i, n)

Spec == Init /\ [][Next]_vars

-----------------------------------------------------------------------------
(***************************************************************************)
(* Properties.                                                             *)
(***************************************************************************)

\* Whatever sockets, retransmissions and clients use the numbers of an instance at the
\* same time and in whatever order they are stored: each is stored once, and the
\* adapters row holds the greatest (insert_event).
SequencesExact ==
    /\ \A e, f \in events :
          e.instance = f.instance /\ e.sequence_no = f.sequence_no => e = f
    /\ \A i \in Instances :
          LET stored == {e.sequence_no : e \in {f \in events : f.instance = i}}
          IN  /\ \A n \in stored : n <= lastSeq[i]
              /\ lastSeq[i] \in stored \cup {0}

\* A semantic event is about a resource of the right kind, was sent by an
\* instance that declared the capability and, for a browser, the permission, and
\* its user has enabled the scope at some time: no other handler can store one.
EventsConsented ==
    \A e \in events : e.source # None =>
        /\ scopes[<<e.source, e.resource>>] # None
        /\ resources[e.resource] = ExpectedKind(e.source)
        /\ \E s \in Sockets : /\ InstanceOf[s] = e.instance
                              /\ ExpectedSource(HelloOf[s]) = e.source
                              /\ MayEmit(HelloOf[s], ExpectedCapability(HelloOf[s]), e.resource)

\* A pause takes hold: at most the one event a connection was already handling
\* is stored in a scope after it was paused.
PauseTakesHold == \A s \in Sockets : \A sc \in Scopes : late[s][sc] <= 1
=============================================================================
