--------------------------- MODULE RitualLifecycle ---------------------------
(***************************************************************************)
(* Versions, approvals and the status of rituals: the handlers of          *)
(* ritual.create, update, activate, pause and run in                       *)
(* crates/fubun-core/src/lib.rs over the tables rituals, ritual_versions   *)
(* and ritual_approvals of crates/fubun-storage.                           *)
(*                                                                         *)
(* A handler is a sequence of storage requests with nothing held between   *)
(* them, and every client connection runs its own: each action below ends  *)
(* with one storage request, and a handler keeps what it has read in its   *)
(* own record.  What happens inside a run is RitualExecution; here a run   *)
(* holds the ritual's lock and then ends.                                  *)
(*                                                                         *)
(* A version id is fresh for every update that commits, and                *)
(* UNIQUE(ritual_id, version) makes ritual and number identify it.  A      *)
(* definition is a set of actions [fields, text]: fields is what an        *)
(* approval names of an action, text is the rest of it.  The content hash  *)
(* is the definition itself.                                               *)
(***************************************************************************)
EXTENDS Naturals

CONSTANTS
    Rituals,      \* ritual ids
    Clients,      \* client connections
    Definitions,  \* ritual definitions, non-empty sets of actions
    MaxVersion,   \* bound on the versions of a ritual
    None          \* "no such value"

VARIABLES
    rituals,    \* ritual -> its row: status and current version number
    versions,   \* ritual -> version number -> definition, or None
    approvals,  \* the approval rows
    locks,      \* ritual -> the client whose run holds the lock, or None
    executed,   \* the ritual, version and definition of every execution started
    handler     \* client -> the request it is serving

vars == <<rituals, versions, approvals, locks, executed, handler>>

Statuses == {"draft", "active", "paused", "archived"}
Numbers  == 1..MaxVersion

ASSUME ConstantsAssumption ==
    /\ MaxVersion \in Nat \ {0}
    /\ None \notin Definitions
    /\ None \notin Clients
    /\ None \notin Rituals
    /\ None \notin Statuses

ApprovalFields(action) == action.fields

Fields == {ApprovalFields(action) : action \in UNION Definitions}

Approval  == [ritual : Rituals, version : Numbers, fields : Fields, hash : Definitions]
Execution == [ritual : Rituals, version : Numbers, definition : Definitions]

Handler == [pc         : {"idle", "updating", "previewing", "approving", "activating",
                          "pausing", "checking", "starting", "running"},
            ritual     : Rituals \cup {None},
            version    : Numbers \cup {0},        \* the version read
            definition : Definitions \cup {None}]  \* its definition

Idle == [pc |-> "idle", ritual |-> None, version |-> 0, definition |-> None]

TypeOK ==
    /\ rituals \in [Rituals -> [status : Statuses \cup {None}, version : Numbers \cup {0}]]
    /\ versions \in [Rituals -> [Numbers -> Definitions \cup {None}]]
    /\ approvals \in SUBSET Approval
    /\ locks \in [Rituals -> Clients \cup {None}]
    /\ executed \in SUBSET Execution
    /\ handler \in [Clients -> Handler]

Init ==
    /\ rituals = [r \in Rituals |-> [status |-> None, version |-> 0]]
    /\ versions = [r \in Rituals |-> [n \in Numbers |-> None]]
    /\ approvals = {}
    /\ locks = [r \in Rituals |-> None]
    /\ executed = {}
    /\ handler = [k \in Clients |-> Idle]

\* The handler returns its response.
Respond(k) == handler' = [handler EXCEPT ![k] = Idle]

-----------------------------------------------------------------------------
\* ritual.create: one transaction, a draft with version 1.
CreateRitual(k, r, definition) ==
    /\ handler[k].pc = "idle"
    /\ rituals[r].status = None
    /\ rituals' = [rituals EXCEPT ![r] = [status |-> "draft", version |-> 1]]
    /\ versions' = [versions EXCEPT ![r][1] = definition]
    /\ UNCHANGED <<approvals, locks, executed, handler>>

\* get_ritual, the first request of the other handlers: the row and its current
\* version as they are now.  An unknown ritual is refused, and what each handler
\* refuses at once is in the guard of its own action.
GetRitual(k, r, pc) ==
    /\ handler[k].pc = "idle"
    /\ rituals[r].status # None
    /\ handler' = [handler EXCEPT ![k] = [pc |-> pc, ritual |-> r,
                                          version |-> rituals[r].version,
                                          definition |-> versions[r][rituals[r].version]]]
    /\ UNCHANGED <<rituals, versions, approvals, locks, executed>>

\* ritual.update: the next number after the one read, and back to draft, in one
\* transaction.  If the number is taken the unique constraint rolls it back.
BeginUpdate(k, r) == GetRitual(k, r, "updating")

\* Mutant: no unique constraint on ritual and version.
UpdateRitualUnchecked(k, definition) ==
    LET r == handler[k].ritual
        next == handler[k].version + 1
    IN  /\ handler[k].pc = "updating"
        /\ next \in Numbers
        /\ rituals' = [rituals EXCEPT ![r] = [status |-> "draft", version |-> next]]
        /\ versions' = [versions EXCEPT ![r][next] = definition]
        /\ Respond(k)
        /\ UNCHANGED <<approvals, locks, executed>>

UpdateRitual(k, definition) ==
    LET r == handler[k].ritual
        next == handler[k].version + 1
    IN  /\ handler[k].pc = "updating"
        /\ next \in Numbers
        /\ IF versions[r][next] = None
           THEN /\ rituals' = [rituals EXCEPT ![r] = [status |-> "draft", version |-> next]]
                /\ versions' = [versions EXCEPT ![r][next] = definition]
           ELSE UNCHANGED <<rituals, versions>>
        /\ Respond(k)
        /\ UNCHANGED <<approvals, locks, executed>>

\* ritual.activate with the approval given.
BeginActivate(k, r) == GetRitual(k, r, "previewing")

\* build_preview: without warnings the handler goes on, else it is refused.
Preview(k, executable) ==
    /\ handler[k].pc = "previewing"
    /\ IF executable
       THEN handler' = [handler EXCEPT ![k].pc = "approving"]
       ELSE Respond(k)
    /\ UNCHANGED <<rituals, versions, approvals, locks, executed>>

\* create_approvals, one transaction: a row per action of the version read.
CreateApprovals(k) ==
    LET h == handler[k]
    IN  /\ h.pc = "approving"
        /\ approvals' = approvals \cup
              {[ritual |-> h.ritual, version |-> h.version,
                fields |-> ApprovalFields(action), hash |-> h.definition]
                 : action \in h.definition}
        /\ handler' = [handler EXCEPT ![k].pc = "activating"]
        /\ UNCHANGED <<rituals, versions, locks, executed>>

\* set_ritual_status(active): the row of the ritual, whatever its version is now.
SetActive(k) ==
    /\ handler[k].pc = "activating"
    /\ rituals' = [rituals EXCEPT ![handler[k].ritual].status = "active"]
    /\ Respond(k)
    /\ UNCHANGED <<versions, approvals, locks, executed>>

\* ritual.pause: an archived ritual is refused.
BeginPause(k, r) == rituals[r].status # "archived" /\ GetRitual(k, r, "pausing")

SetPaused(k) ==
    /\ handler[k].pc = "pausing"
    /\ rituals' = [rituals EXCEPT ![handler[k].ritual].status = "paused"]
    /\ Respond(k)
    /\ UNCHANGED <<versions, approvals, locks, executed>>

\* ritual.run: only an active ritual gets past the first request.
BeginRun(k, r) == rituals[r].status = "active" /\ GetRitual(k, r, "checking")

\* What preflight finds in the approval rows for the version the handler holds.
Approved(r, n, definition) ==
    \A action \in definition :
        \E a \in approvals : /\ a.ritual = r
                             /\ a.version = n
                             /\ a.hash = definition
                             /\ a.fields = ApprovalFields(action)

\* Mutant: an approval of another version counts, its content is not compared.
PreflightAnyVersion(k, available) ==
    LET h == handler[k]
    IN  /\ h.pc = "checking"
        /\ IF /\ available
              /\ \A action \in h.definition : \E a \in approvals :
                    a.ritual = h.ritual /\ a.fields = ApprovalFields(action)
           THEN handler' = [handler EXCEPT ![k].pc = "starting"]
           ELSE Respond(k)
        /\ UNCHANGED <<rituals, versions, approvals, locks, executed>>

\* preflight: list_approvals, and for each action an eligible adapter, its
\* approval, and an unchanged resource with an active scope (`available`).
Preflight(k, available) ==
    LET h == handler[k]
    IN  /\ h.pc = "checking"
        /\ IF available /\ Approved(h.ritual, h.version, h.definition)
           THEN handler' = [handler EXCEPT ![k].pc = "starting"]
           ELSE Respond(k)
        /\ UNCHANGED <<rituals, versions, approvals, locks, executed>>

\* start_execution: refused while the ritual's lock row exists.
StartExecution(k) ==
    LET h == handler[k]
    IN  /\ h.pc = "starting"
        /\ IF locks[h.ritual] = None
           THEN /\ locks' = [locks EXCEPT ![h.ritual] = k]
                /\ executed' = executed \cup {[ritual |-> h.ritual, version |-> h.version,
                                               definition |-> h.definition]}
                /\ handler' = [handler EXCEPT ![k].pc = "running"]
           ELSE /\ Respond(k)
                /\ UNCHANGED <<locks, executed>>
        /\ UNCHANGED <<rituals, versions, approvals>>

\* execute_steps has returned; update_execution has deleted the lock row.
EndExecution(k) ==
    /\ handler[k].pc = "running"
    /\ locks' = [locks EXCEPT ![handler[k].ritual] = None]
    /\ Respond(k)
    /\ UNCHANGED <<rituals, versions, approvals, executed>>

\* A storage request fails: the handler returns, what it has written stays.
StorageFails(k) ==
    /\ handler[k].pc # "idle"
    /\ Respond(k)
    /\ UNCHANGED <<rituals, versions, approvals, locks, executed>>

\* The daemon is lost and started again: handlers are gone, locks are deleted.
Restart ==
    /\ handler' = [k \in Clients |-> Idle]
    /\ locks' = [r \in Rituals |-> None]
    /\ UNCHANGED <<rituals, versions, approvals, executed>>

ClientStep(k) ==
    \/ \E r \in Rituals :
          \/ \E definition \in Definitions : CreateRitual(k, r, definition)
          \/ BeginUpdate(k, r)
          \/ BeginActivate(k, r)
          \/ BeginPause(k, r)
          \/ BeginRun(k, r)
    \/ \E definition \in Definitions : UpdateRitual(k, definition)
    \/ \E executable \in BOOLEAN : Preview(k, executable)
    \/ CreateApprovals(k)
    \/ SetActive(k)
    \/ SetPaused(k)
    \/ \E available \in BOOLEAN : Preflight(k, available)
    \/ StartExecution(k)
    \/ EndExecution(k)
    \/ StorageFails(k)

Next == (\E k \in Clients : ClientStep(k)) \/ Restart

Spec == Init /\ [][Next]_vars

-----------------------------------------------------------------------------
(***************************************************************************)
(* Properties.                                                             *)
(***************************************************************************)

\* No execution without consent: whatever was started is the stored definition
\* of its version, and every action of it was approved for that version with
\* that content.  It survives the races in which the status check does not.
ExecutedWasApproved ==
    \A x \in executed : /\ versions[x.ritual][x.version] = x.definition
                        /\ Approved(x.ritual, x.version, x.definition)

\* The current version of a ritual is the newest one and the numbers have no
\* gaps, however updates overlap: a late update never takes a ritual back.
CurrentIsLatest ==
    \A r \in Rituals, n \in Numbers :
        versions[r][n] # None <=> n <= rituals[r].version

\* An approval row names the content of the version it is bound to, although the
\* ritual may have been updated between the read and the insertion.
ApprovalsFaithful ==
    \A a \in approvals : versions[a.ritual][a.version] = a.hash

\* A ritual is active only after some version of it was approved in full.
ActiveWasApproved ==
    \A r \in Rituals : rituals[r].status = "active" =>
        \E n \in Numbers : versions[r][n] # None /\ Approved(r, n, versions[r][n])

\* A stored version never changes and the current number never goes back.
VersionsImmutable ==
    [][\A r \in Rituals :
          /\ rituals'[r].version >= rituals[r].version
          /\ \A n \in Numbers : versions[r][n] # None => versions'[r][n] = versions[r][n]]_vars

\* What docs/adr/ADR-0007 says: only a version whose preview and approval
\* succeeded can be active.
ActiveVersionApproved ==
    \A r \in Rituals : rituals[r].status = "active" =>
        Approved(r, rituals[r].version, versions[r][rituals[r].version])
=============================================================================
