------------------------ MODULE RitualLifecycleProofs ------------------------
(***************************************************************************)
(* Proofs about RitualLifecycle, for every set of rituals, clients and     *)
(* definitions and every bound on the number of versions.                  *)
(***************************************************************************)
EXTENDS RitualLifecycle, TLAPS

(***************************************************************************)
(* Versions.  CurrentIsLatest is not inductive: an update writes the       *)
(* number after the one its handler has read, so it has to be known that   *)
(* what a handler holds is a stored version, however long ago it was read. *)
(***************************************************************************)

\* A ritual has a current version as soon as it has a row.
RowsMatch == \A r \in Rituals : rituals[r].status = None <=> rituals[r].version = 0

\* What a handler has read is still stored under the same number.
HandlerFaithful(k) ==
    handler[k].pc # "idle" =>
        /\ handler[k].ritual \in Rituals
        /\ handler[k].version \in Numbers
        /\ handler[k].definition \in Definitions
        /\ versions[handler[k].ritual][handler[k].version] = handler[k].definition

VersionInv ==
    /\ TypeOK
    /\ RowsMatch
    /\ CurrentIsLatest
    /\ \A k \in Clients : HandlerFaithful(k)

\* Stored versions stay as they are.
VersionsKept ==
    \A r \in Rituals, n \in Numbers :
        versions[r][n] # None => versions'[r][n] = versions[r][n]

\* A handler goes on with what it has read, or ends.
HandlerKept(k) ==
    handler'[k].pc # "idle" => /\ handler[k].pc # "idle"
                               /\ handler'[k].ritual = handler[k].ritual
                               /\ handler'[k].version = handler[k].version
                               /\ handler'[k].definition = handler[k].definition

\* What a handler has read survives every step that keeps the stored versions.
LEMMA FaithfulKept ==
  ASSUME NEW k \in Clients, HandlerFaithful(k), VersionsKept, HandlerKept(k)
  PROVE  HandlerFaithful(k)'
<1> SUFFICES ASSUME handler'[k].pc # "idle"
             PROVE  /\ handler'[k].ritual \in Rituals
                    /\ handler'[k].version \in Numbers
                    /\ handler'[k].definition \in Definitions
                    /\ versions'[handler'[k].ritual][handler'[k].version]
                         = handler'[k].definition
  BY DEF HandlerFaithful
<1>1. handler[k].definition # None
  BY ConstantsAssumption DEF HandlerFaithful, HandlerKept
<1>2. QED
  BY <1>1 DEF HandlerFaithful, HandlerKept, VersionsKept

\* A step of one handler that writes neither rituals nor versions, and leaves the
\* handler with what it has read.
Moves(k, h) ==
    /\ UNCHANGED <<rituals, versions>>
    /\ handler' = [handler EXCEPT ![k] = h]
    /\ \/ h = Idle
       \/ /\ handler[k].pc # "idle"
          /\ \E pc \in {"approving", "activating", "starting", "running"} :
                h = [handler[k] EXCEPT !.pc = pc]

\* Such a step keeps the invariant, given the types of the other variables.
LEMMA MovesKeepVersions ==
  ASSUME VersionInv, NEW k \in Clients, NEW h, Moves(k, h),
         approvals' \in SUBSET Approval,
         locks' \in [Rituals -> Clients \cup {None}],
         executed' \in SUBSET Execution
  PROVE  VersionInv' /\ VersionsKept
<1>1. h \in Handler
  <2>1. CASE h = Idle
    BY <2>1 DEF Idle, Handler
  <2>2. CASE h # Idle
    <3>1. PICK pc \in {"approving", "activating", "starting", "running"} :
             h = [handler[k] EXCEPT !.pc = pc]
      BY <2>2 DEF Moves
    <3>2. handler[k] \in Handler
      BY DEF VersionInv, TypeOK
    <3>3. QED
      BY <3>1, <3>2 DEF Handler
  <2>3. QED
    BY <2>1, <2>2
<1>2. TypeOK'
  BY <1>1 DEF Moves, VersionInv, TypeOK
<1>3. \A c \in Clients : HandlerKept(c)
  <2>1. handler \in [Clients -> Handler] /\ handler[k] \in Handler
    BY DEF VersionInv, TypeOK
  <2>2. \A c \in Clients \ {k} : handler'[c] = handler[c]
    BY <2>1 DEF Moves
  <2>3. handler'[k] = h
    BY <2>1 DEF Moves
  <2>4. HandlerKept(k)
    <3>1. CASE h = Idle
      BY <2>3, <3>1 DEF HandlerKept, Idle
    <3>2. CASE h # Idle
      <4>1. PICK pc \in {"approving", "activating", "starting", "running"} :
               h = [handler[k] EXCEPT !.pc = pc]
        BY <3>2 DEF Moves
      <4>2. /\ h.ritual = handler[k].ritual
            /\ h.version = handler[k].version
            /\ h.definition = handler[k].definition
        BY <2>1, <4>1 DEF Handler
      <4>3. handler[k].pc # "idle"
        BY <3>2 DEF Moves
      <4>4. QED
        BY <2>3, <4>2, <4>3 DEF HandlerKept
    <3>3. QED
      BY <3>1, <3>2
  <2>5. QED
    BY <2>2, <2>4 DEF HandlerKept
<1>4. VersionsKept
  BY DEF Moves, VersionsKept
<1>5. \A c \in Clients : HandlerFaithful(c)'
  BY <1>3, <1>4, FaithfulKept DEF VersionInv
<1>6. RowsMatch' /\ CurrentIsLatest'
  BY DEF Moves, VersionInv, RowsMatch, CurrentIsLatest
<1>7. QED
  BY <1>2, <1>4, <1>5, <1>6 DEF VersionInv

\* The first request of a handler leaves it with the current version.
LEMMA GetRitualKeepsVersions ==
  ASSUME VersionInv, NEW k \in Clients, NEW r \in Rituals,
         NEW pc \in {"updating", "previewing", "pausing", "checking"},
         GetRitual(k, r, pc)
  PROVE  VersionInv' /\ VersionsKept
<1>1. /\ rituals[r].version \in Numbers
      /\ versions[r][rituals[r].version] \in Definitions
  <2>1. rituals[r].status # None /\ rituals[r].version \in Numbers \cup {0}
    BY DEF GetRitual, VersionInv, TypeOK
  <2>2. rituals[r].version \in Numbers
    BY <2>1 DEF VersionInv, RowsMatch
  <2>3. versions[r][rituals[r].version] # None
    BY <2>2 DEF VersionInv, CurrentIsLatest, Numbers
  <2>4. QED
    BY <2>2, <2>3 DEF VersionInv, TypeOK
<1>2. handler' = [handler EXCEPT ![k] = [pc |-> pc, ritual |-> r,
                                         version |-> rituals[r].version,
                                         definition |-> versions[r][rituals[r].version]]]
  BY DEF GetRitual
<1>3. UNCHANGED <<rituals, versions, approvals, locks, executed>>
  BY DEF GetRitual
<1>4. TypeOK'
  BY <1>1, <1>2, <1>3 DEF VersionInv, TypeOK, Handler
<1>5. VersionsKept
  BY <1>3 DEF VersionsKept
<1>6. ASSUME NEW c \in Clients
      PROVE  HandlerFaithful(c)'
  <2>1. CASE c = k
    BY <1>1, <1>2, <1>3, <2>1 DEF HandlerFaithful, VersionInv, TypeOK
  <2>2. CASE c # k
    <3>1. HandlerKept(c)
      BY <1>2, <2>2 DEF HandlerKept, VersionInv, TypeOK
    <3>2. QED
      BY <1>5, <3>1, FaithfulKept DEF VersionInv
  <2>3. QED
    BY <2>1, <2>2
<1>7. RowsMatch' /\ CurrentIsLatest'
  BY <1>3 DEF VersionInv, RowsMatch, CurrentIsLatest
<1>8. QED
  BY <1>4, <1>5, <1>6, <1>7 DEF VersionInv

\* A status change leaves versions alone.
LEMMA SetStatusKeepsVersions ==
  ASSUME VersionInv, NEW k \in Clients, NEW status \in {"active", "paused"},
         handler[k].pc # "idle",
         rituals' = [rituals EXCEPT ![handler[k].ritual].status = status],
         Respond(k), UNCHANGED <<versions, approvals, locks, executed>>
  PROVE  VersionInv' /\ VersionsKept
<1> DEFINE r == handler[k].ritual
<1>1. /\ r \in Rituals
      /\ handler[k].version \in Numbers
      /\ versions[r][handler[k].version] # None
  BY ConstantsAssumption DEF VersionInv, HandlerFaithful
<1>2. rituals[r].version # 0
  BY <1>1 DEF VersionInv, CurrentIsLatest, Numbers
<1>3. /\ \A q \in Rituals : rituals'[q].version = rituals[q].version
      /\ \A q \in Rituals \ {r} : rituals'[q].status = rituals[q].status
      /\ rituals'[r].status = status
  BY <1>1 DEF VersionInv, TypeOK
<1>4. RowsMatch'
  BY <1>1, <1>2, <1>3, ConstantsAssumption DEF VersionInv, RowsMatch, Statuses
<1>5. CurrentIsLatest'
  BY <1>3 DEF VersionInv, CurrentIsLatest
<1>6. VersionsKept
  BY DEF VersionsKept
<1>7. Idle \in Handler /\ Idle.pc = "idle"
  BY DEF Idle, Handler
<1>8. \A c \in Clients : HandlerKept(c)
  BY <1>7 DEF HandlerKept, Respond, VersionInv, TypeOK
<1>9. TypeOK'
  BY <1>7 DEF VersionInv, TypeOK, Respond, Statuses
<1>10. \A c \in Clients : HandlerFaithful(c)'
  BY <1>6, <1>8, FaithfulKept DEF VersionInv
<1>11. QED
  BY <1>4, <1>5, <1>6, <1>9, <1>10 DEF VersionInv

\* ritual.create writes version 1 of a ritual that had none.
LEMMA CreateKeepsVersions ==
  ASSUME VersionInv, NEW k \in Clients, NEW r \in Rituals, NEW definition \in Definitions,
         CreateRitual(k, r, definition)
  PROVE  VersionInv' /\ VersionsKept
<1>1. 1 \in Numbers /\ Numbers \subseteq Nat /\ \A n \in Numbers : n <= 1 <=> n = 1
  BY ConstantsAssumption DEF Numbers
<1>2. rituals[r].version = 0 /\ \A n \in Numbers : versions[r][n] = None
  <2>1. rituals[r].version = 0
    BY DEF CreateRitual, VersionInv, RowsMatch
  <2>2. QED
    BY <2>1 DEF VersionInv, CurrentIsLatest, Numbers
<1>3. /\ rituals'[r] = [status |-> "draft", version |-> 1]
      /\ \A q \in Rituals \ {r} : rituals'[q] = rituals[q]
      /\ \A n \in Numbers : versions'[r][n] = IF n = 1 THEN definition ELSE versions[r][n]
      /\ \A q \in Rituals \ {r} : versions'[q] = versions[q]
  BY DEF CreateRitual, VersionInv, TypeOK
<1>4. TypeOK'
  BY <1>1 DEF CreateRitual, VersionInv, TypeOK, Statuses
<1>5. RowsMatch'
  BY <1>3, ConstantsAssumption DEF VersionInv, RowsMatch, Statuses
<1>6. CurrentIsLatest'
  <2> SUFFICES ASSUME NEW q \in Rituals, NEW n \in Numbers
               PROVE  versions'[q][n] # None <=> n <= rituals'[q].version
    BY DEF CurrentIsLatest
  <2>1. CASE q = r
    <3>1. rituals'[q].version = 1
      BY <1>3, <2>1
    <3>2. versions'[q][n] # None <=> n = 1
      BY <1>2, <1>3, <2>1, ConstantsAssumption
    <3>3. QED
      BY <1>1, <3>1, <3>2
  <2>2. CASE q # r
    BY <1>3, <2>2 DEF VersionInv, CurrentIsLatest
  <2>3. QED
    BY <2>1, <2>2
<1>7. VersionsKept
  BY <1>2, <1>3 DEF VersionsKept
<1>8. \A c \in Clients : HandlerFaithful(c)'
  BY <1>7, FaithfulKept DEF VersionInv, CreateRitual, HandlerKept
<1>9. QED
  BY <1>4, <1>5, <1>6, <1>7, <1>8 DEF VersionInv

\* ritual.update writes a number only if it is free, and then it is the one after
\* the current version: the number its handler has read was the current one still.
LEMMA UpdateKeepsVersions ==
  ASSUME VersionInv, NEW k \in Clients, NEW definition \in Definitions,
         UpdateRitual(k, definition)
  PROVE  /\ VersionInv' /\ VersionsKept
         /\ \A r \in Rituals : rituals'[r].version >= rituals[r].version
<1> DEFINE r == handler[k].ritual
           next == handler[k].version + 1
<1>1. /\ r \in Rituals
      /\ handler[k].version \in Numbers
      /\ versions[r][handler[k].version] # None
      /\ next \in Numbers
  BY ConstantsAssumption DEF VersionInv, HandlerFaithful, UpdateRitual
<1>2. Numbers \subseteq Nat \ {0}
  BY DEF Numbers
<1>3. Idle \in Handler /\ Idle.pc = "idle"
  BY DEF Idle, Handler
<1>4. \A c \in Clients : HandlerKept(c)
  BY <1>3 DEF HandlerKept, UpdateRitual, Respond, VersionInv, TypeOK
<1>5. \A q \in Rituals : rituals[q].version \in Nat
  <2>1. 0 \in Nat /\ \A q \in Rituals : rituals[q].version \in Numbers \cup {0}
    BY DEF VersionInv, TypeOK
  <2>2. QED
    BY <1>2, <2>1
<1>6. CASE versions[r][next] # None
  <2>1. UNCHANGED <<rituals, versions>>
    BY <1>6 DEF UpdateRitual
  <2>2. TypeOK'
    BY <1>3, <2>1 DEF UpdateRitual, Respond, VersionInv, TypeOK
  <2>3. VersionsKept
    BY <2>1 DEF VersionsKept
  <2>4. \A c \in Clients : HandlerFaithful(c)'
    BY <1>4, <2>3, FaithfulKept DEF VersionInv
  <2>5. RowsMatch' /\ CurrentIsLatest'
    BY <2>1 DEF VersionInv, RowsMatch, CurrentIsLatest
  <2>6. QED
    BY <1>5, <2>1, <2>2, <2>3, <2>4, <2>5 DEF VersionInv
<1>7. CASE versions[r][next] = None
  <2>1. rituals[r].version = handler[k].version
    <3>1. handler[k].version <= rituals[r].version /\ ~(next <= rituals[r].version)
      BY <1>1, <1>7 DEF VersionInv, CurrentIsLatest
    <3>2. handler[k].version \in Nat /\ rituals[r].version \in Nat
      BY <1>1, <1>2, <1>5
    <3>3. QED
      BY <3>1, <3>2
  <2>2. /\ rituals' = [rituals EXCEPT ![r] = [status |-> "draft", version |-> next]]
        /\ versions' = [versions EXCEPT ![r][next] = definition]
    BY <1>7 DEF UpdateRitual
  <2>3. /\ rituals'[r] = [status |-> "draft", version |-> next]
        /\ \A q \in Rituals \ {r} : rituals'[q] = rituals[q]
        /\ \A n \in Numbers : versions'[r][n] = IF n = next THEN definition ELSE versions[r][n]
        /\ \A q \in Rituals \ {r} : versions'[q] = versions[q]
    BY <1>1, <2>2 DEF VersionInv, TypeOK
  <2>4. TypeOK'
    <3>1. rituals' \in [Rituals -> [status : Statuses \cup {None}, version : Numbers \cup {0}]]
      BY <1>1, <2>2 DEF VersionInv, TypeOK, Statuses
    <3>2. versions' \in [Rituals -> [Numbers -> Definitions \cup {None}]]
      BY <1>1, <2>2 DEF VersionInv, TypeOK
    <3>3. QED
      BY <1>3, <3>1, <3>2 DEF UpdateRitual, Respond, VersionInv, TypeOK
  <2>5. RowsMatch'
    BY <1>1, <1>2, <2>3, ConstantsAssumption DEF VersionInv, RowsMatch, Statuses
  <2>6. CurrentIsLatest'
    <3> SUFFICES ASSUME NEW q \in Rituals, NEW n \in Numbers
                 PROVE  versions'[q][n] # None <=> n <= rituals'[q].version
      BY DEF CurrentIsLatest
    <3>1. CASE q = r
      <4>1. rituals'[q].version = next
        BY <2>3, <3>1
      <4>2. versions[r][n] # None <=> n <= handler[k].version
        BY <1>1, <2>1 DEF VersionInv, CurrentIsLatest
      <4>3. versions'[q][n] # None <=> n = next \/ n <= handler[k].version
        BY <2>3, <3>1, <4>2, ConstantsAssumption
      <4>4. n \in Nat /\ handler[k].version \in Nat
        BY <1>1, <1>2
      <4>5. QED
        BY <4>1, <4>3, <4>4
    <3>2. CASE q # r
      BY <2>3, <3>2 DEF VersionInv, CurrentIsLatest
    <3>3. QED
      BY <3>1, <3>2
  <2>7. VersionsKept
    BY <1>7, <2>3 DEF VersionsKept
  <2>8. \A c \in Clients : HandlerFaithful(c)'
    BY <1>4, <2>7, FaithfulKept DEF VersionInv
  <2>9. \A q \in Rituals : rituals'[q].version >= rituals[q].version
    BY <1>1, <1>2, <1>5, <2>1, <2>3
  <2>10. QED
    BY <2>4, <2>5, <2>6, <2>7, <2>8, <2>9 DEF VersionInv
<1>8. QED
  BY <1>6, <1>7

\* Every request of every handler, a storage error and a restart keep the version
\* invariant and the stored versions.
LEMMA VersionStep == VersionInv /\ [Next]_vars => VersionInv' /\ VersionsKept
<1> SUFFICES ASSUME VersionInv, [Next]_vars
             PROVE  VersionInv' /\ VersionsKept
  OBVIOUS
<1> DEFINE Rest == /\ approvals' \in SUBSET Approval
                   /\ locks' \in [Rituals -> Clients \cup {None}]
                   /\ executed' \in SUBSET Execution
<1>1. CASE UNCHANGED vars
  BY <1>1 DEF vars, VersionInv, VersionsKept, TypeOK, RowsMatch, CurrentIsLatest,
              HandlerFaithful
<1>2. CASE Restart
  <2>1. Idle \in Handler /\ Idle.pc = "idle"
    BY DEF Idle, Handler
  <2>2. TypeOK' /\ VersionsKept /\ RowsMatch' /\ CurrentIsLatest'
    BY <1>2, <2>1
       DEF Restart, VersionInv, TypeOK, VersionsKept, RowsMatch, CurrentIsLatest
  <2>3. \A c \in Clients : HandlerFaithful(c)'
    BY <1>2, <2>1 DEF Restart, HandlerFaithful
  <2>4. QED
    BY <2>2, <2>3 DEF VersionInv
<1>3. ASSUME NEW k \in Clients, NEW r \in Rituals,
             BeginUpdate(k, r) \/ BeginActivate(k, r) \/ BeginPause(k, r) \/ BeginRun(k, r)
      PROVE  VersionInv' /\ VersionsKept
  BY <1>3, GetRitualKeepsVersions DEF BeginUpdate, BeginActivate, BeginPause, BeginRun
<1>4. ASSUME NEW k \in Clients, SetActive(k) \/ SetPaused(k)
      PROVE  VersionInv' /\ VersionsKept
  BY <1>4, SetStatusKeepsVersions DEF SetActive, SetPaused
<1>5. ASSUME NEW k \in Clients, NEW executable \in BOOLEAN, Preview(k, executable)
      PROVE  VersionInv' /\ VersionsKept
  <2>1. Rest
    BY <1>5 DEF Preview, VersionInv, TypeOK
  <2>2. Moves(k, Idle) \/ Moves(k, [handler[k] EXCEPT !.pc = "approving"])
    BY <1>5 DEF Preview, Respond, Moves
  <2>3. QED
    BY <2>1, <2>2, MovesKeepVersions
<1>6. ASSUME NEW k \in Clients, CreateApprovals(k)
      PROVE  VersionInv' /\ VersionsKept
  <2>1. /\ handler[k].ritual \in Rituals
        /\ handler[k].version \in Numbers
        /\ handler[k].definition \in Definitions
    BY <1>6 DEF CreateApprovals, VersionInv, HandlerFaithful
  <2>2. \A action \in handler[k].definition : ApprovalFields(action) \in Fields
    BY <2>1 DEF Fields
  <2>3. approvals' \in SUBSET Approval
    BY <1>6, <2>1, <2>2 DEF CreateApprovals, VersionInv, TypeOK, Approval
  <2>4. Rest
    BY <1>6, <2>3 DEF CreateApprovals, VersionInv, TypeOK
  <2>5. Moves(k, [handler[k] EXCEPT !.pc = "activating"])
    BY <1>6 DEF CreateApprovals, Moves
  <2>6. QED
    BY <2>4, <2>5, MovesKeepVersions
<1>7. ASSUME NEW k \in Clients, NEW available \in BOOLEAN, Preflight(k, available)
      PROVE  VersionInv' /\ VersionsKept
  <2>1. Rest
    BY <1>7 DEF Preflight, VersionInv, TypeOK
  <2>2. Moves(k, Idle) \/ Moves(k, [handler[k] EXCEPT !.pc = "starting"])
    BY <1>7 DEF Preflight, Respond, Moves
  <2>3. QED
    BY <2>1, <2>2, MovesKeepVersions
<1>8. ASSUME NEW k \in Clients, StartExecution(k)
      PROVE  VersionInv' /\ VersionsKept
  <2>1. /\ handler[k].ritual \in Rituals
        /\ handler[k].version \in Numbers
        /\ handler[k].definition \in Definitions
    BY <1>8 DEF StartExecution, VersionInv, HandlerFaithful
  <2>2. [ritual |-> handler[k].ritual, version |-> handler[k].version,
         definition |-> handler[k].definition] \in Execution
    BY <2>1 DEF Execution
  <2>3. Rest
    BY <1>8, <2>1, <2>2 DEF StartExecution, VersionInv, TypeOK
  <2>4. Moves(k, Idle) \/ Moves(k, [handler[k] EXCEPT !.pc = "running"])
    BY <1>8 DEF StartExecution, Respond, Moves
  <2>5. QED
    BY <2>3, <2>4, MovesKeepVersions
<1>9. ASSUME NEW k \in Clients, EndExecution(k) \/ StorageFails(k)
      PROVE  VersionInv' /\ VersionsKept
  <2>1. Rest
    BY <1>9 DEF EndExecution, StorageFails, VersionInv, TypeOK
  <2>2. Moves(k, Idle)
    BY <1>9 DEF EndExecution, StorageFails, Respond, Moves
  <2>3. QED
    BY <2>1, <2>2, MovesKeepVersions
<1>10. QED
  BY <1>1, <1>2, <1>3, <1>4, <1>5, <1>6, <1>7, <1>8, <1>9,
     CreateKeepsVersions, UpdateKeepsVersions
     DEF Next, ClientStep

\* The version invariant holds in every reachable state.
LEMMA VersionInvariant == Spec => []VersionInv
<1>1. Init => VersionInv
  <2> SUFFICES ASSUME Init PROVE VersionInv
    OBVIOUS
  <2>1. TypeOK
    BY DEF Init, TypeOK, Handler, Idle
  <2>2. RowsMatch
    BY DEF Init, RowsMatch
  <2>3. CurrentIsLatest
    BY DEF Init, CurrentIsLatest, Numbers
  <2>4. \A k \in Clients : HandlerFaithful(k)
    BY DEF Init, Idle, HandlerFaithful
  <2>5. QED
    BY <2>1, <2>2, <2>3, <2>4 DEF VersionInv
<1>2. VersionInv /\ [Next]_vars => VersionInv'
  BY VersionStep
<1>3. QED
  BY <1>1, <1>2, PTL DEF Spec

\* Every variable keeps its type; an approval row names approval fields and the
\* hash of a definition.
THEOREM TypeCorrect == Spec => []TypeOK
<1>1. VersionInv => TypeOK
  BY DEF VersionInv
<1>2. QED
  BY <1>1, VersionInvariant, PTL

\* However updates overlap, the current version is the newest and the numbers
\* have no gaps.
THEOREM CurrentStaysLatest == Spec => []CurrentIsLatest
<1>1. VersionInv => CurrentIsLatest
  BY DEF VersionInv
<1>2. QED
  BY <1>1, VersionInvariant, PTL

\* A stored version is never rewritten and a ritual never goes back to an older
\* one, whatever updates, activations and restarts come in between.
THEOREM VersionsNeverRewritten == Spec => VersionsImmutable
<1> DEFINE Forward == /\ \A r \in Rituals : rituals'[r].version >= rituals[r].version
                      /\ VersionsKept
<1>1. VersionInv /\ [Next]_vars => Forward
  <2> SUFFICES ASSUME VersionInv, [Next]_vars
               PROVE  \A r \in Rituals : rituals'[r].version >= rituals[r].version
    BY VersionStep
  <2>1. \A r \in Rituals : rituals[r].version \in Nat
    <3>1. 0 \in Nat /\ Numbers \subseteq Nat
      BY DEF Numbers
    <3>2. \A r \in Rituals : rituals[r].version \in Numbers \cup {0}
      BY DEF VersionInv, TypeOK
    <3>3. QED
      BY <3>1, <3>2
  <2>2. CASE UNCHANGED rituals
    BY <2>1, <2>2
  <2>3. ASSUME NEW k \in Clients, NEW r \in Rituals, NEW definition \in Definitions,
               CreateRitual(k, r, definition)
        PROVE  \A q \in Rituals : rituals'[q].version >= rituals[q].version
    <3>1. rituals[r].version = 0
      BY <2>3 DEF CreateRitual, VersionInv, RowsMatch
    <3>2. \A q \in Rituals : rituals'[q].version = IF q = r THEN 1 ELSE rituals[q].version
      BY <2>3 DEF CreateRitual, VersionInv, TypeOK
    <3>3. QED
      BY <2>1, <3>1, <3>2
  <2>4. ASSUME NEW k \in Clients, SetActive(k) \/ SetPaused(k)
        PROVE  \A q \in Rituals : rituals'[q].version >= rituals[q].version
    <3>1. \A q \in Rituals : rituals'[q].version = rituals[q].version
      BY <2>4 DEF SetActive, SetPaused, VersionInv, TypeOK
    <3>2. QED
      BY <2>1, <3>1
  <2>5. \A k \in Clients, definition \in Definitions :
           UpdateRitual(k, definition)
             => \A q \in Rituals : rituals'[q].version >= rituals[q].version
    BY UpdateKeepsVersions
  <2>6. QED
    BY <2>2, <2>3, <2>4, <2>5
       DEF vars, Next, ClientStep, BeginUpdate, BeginActivate, BeginPause, BeginRun, GetRitual,
           Preview, CreateApprovals, Preflight, StartExecution, EndExecution, StorageFails,
           Restart
<1>2. Forward => [\A r \in Rituals :
          /\ rituals'[r].version >= rituals[r].version
          /\ \A n \in Numbers : versions[r][n] # None => versions'[r][n] = versions[r][n]]_vars
  BY DEF VersionsKept
<1>3. QED
  BY <1>1, <1>2, VersionInvariant, PTL DEF Spec, VersionsImmutable

-----------------------------------------------------------------------------
(***************************************************************************)
(* Consent.  ExecutedWasApproved is not inductive: preflight and the start *)
(* are two requests, and so are the approvals and the status.  Between     *)
(* them the handler carries a version whose approvals are complete; they   *)
(* stay complete because approvals are never deleted and versions never    *)
(* rewritten.                                                              *)
(***************************************************************************)

\* A handler past its approvals, or past preflight, holds an approved version.
HandlerApproved(k) ==
    handler[k].pc \in {"activating", "starting"} =>
        Approved(handler[k].ritual, handler[k].version, handler[k].definition)

ConsentInv ==
    /\ \A k \in Clients : HandlerApproved(k)
    /\ ApprovalsFaithful
    /\ ExecutedWasApproved
    /\ ActiveWasApproved

\* A step that adds no execution, makes no ritual active and takes no handler past
\* its approvals or past preflight.
Harmless ==
    /\ approvals' = approvals
    /\ executed' = executed
    /\ \A r \in Rituals : rituals'[r].status = "active" => rituals[r].status = "active"
    /\ \A c \in Clients : handler'[c].pc \in {"activating", "starting"} =>
                              handler'[c] = handler[c]

\* What approvals and stored versions establish is never lost.
LEMMA ConsentKept ==
  ASSUME VersionInv, ConsentInv, VersionsKept, approvals \subseteq approvals'
  PROVE  /\ \A a \in approvals : versions'[a.ritual][a.version] = a.hash
         /\ \A x \in executed : /\ versions'[x.ritual][x.version] = x.definition
                                /\ Approved(x.ritual, x.version, x.definition)'
         /\ \A r \in Rituals :
               (\E n \in Numbers : versions[r][n] # None /\ Approved(r, n, versions[r][n]))
               => \E n \in Numbers : versions'[r][n] # None
                                       /\ Approved(r, n, versions[r][n])'
<1>1. \A a \in approvals : versions'[a.ritual][a.version] = a.hash
  <2> SUFFICES ASSUME NEW a \in approvals
               PROVE  versions'[a.ritual][a.version] = a.hash
    OBVIOUS
  <2>1. a \in Approval
    BY DEF VersionInv, TypeOK
  <2>2. a.ritual \in Rituals /\ a.version \in Numbers /\ a.hash \in Definitions
    BY <2>1 DEF Approval
  <2>3. QED
    BY <2>2, ConstantsAssumption DEF ConsentInv, ApprovalsFaithful, VersionsKept
<1>2. ASSUME NEW x \in executed
      PROVE  /\ versions'[x.ritual][x.version] = x.definition
             /\ Approved(x.ritual, x.version, x.definition)'
  <2>1. x \in Execution
    BY DEF VersionInv, TypeOK
  <2>2. x.ritual \in Rituals /\ x.version \in Numbers /\ x.definition \in Definitions
    BY <2>1 DEF Execution
  <2>3. versions'[x.ritual][x.version] = x.definition
    BY <2>2, ConstantsAssumption DEF ConsentInv, ExecutedWasApproved, VersionsKept
  <2>4. Approved(x.ritual, x.version, x.definition)'
    BY DEF ConsentInv, ExecutedWasApproved, Approved
  <2>5. QED
    BY <2>3, <2>4
<1>3. QED
  BY <1>1, <1>2 DEF VersionsKept, Approved

\* A harmless step keeps consent.
LEMMA HarmlessKeepsConsent ==
  ASSUME VersionInv, ConsentInv, VersionsKept, Harmless
  PROVE  ConsentInv'
<1>1. approvals \subseteq approvals'
  BY DEF Harmless
<1>2. ASSUME NEW c \in Clients
      PROVE  HandlerApproved(c)'
  BY DEF HandlerApproved, Harmless, ConsentInv, Approved
<1>3. ApprovalsFaithful'
  BY <1>1, ConsentKept DEF Harmless, ApprovalsFaithful
<1>4. ExecutedWasApproved'
  BY <1>1, ConsentKept DEF Harmless, ExecutedWasApproved
<1>5. ActiveWasApproved'
  BY <1>1, ConsentKept DEF Harmless, ConsentInv, ActiveWasApproved
<1>6. QED
  BY <1>2, <1>3, <1>4, <1>5 DEF ConsentInv

\* Every step keeps consent.
LEMMA ConsentStep == VersionInv /\ ConsentInv /\ [Next]_vars => ConsentInv'
<1> SUFFICES ASSUME VersionInv, ConsentInv, [Next]_vars
             PROVE  ConsentInv'
  OBVIOUS
<1>0. VersionsKept /\ VersionInv'
  BY VersionStep
<1>a. /\ handler \in [Clients -> Handler]
      /\ rituals \in [Rituals -> [status : Statuses \cup {None}, version : Numbers \cup {0}]]
      /\ Idle.pc = "idle"
  BY DEF VersionInv, TypeOK, Idle
<1>1. CASE UNCHANGED vars
  <2>1. Harmless
    BY <1>1 DEF vars, Harmless
  <2>2. QED
    BY <1>0, <2>1, HarmlessKeepsConsent
<1>2. CASE Restart
  <2>1. Harmless
    BY <1>a, <1>2 DEF Restart, Harmless
  <2>2. QED
    BY <1>0, <2>1, HarmlessKeepsConsent
<1>3. ASSUME NEW k \in Clients, NEW r \in Rituals, NEW definition \in Definitions,
             CreateRitual(k, r, definition)
      PROVE  ConsentInv'
  <2>1. Harmless
    BY <1>a, <1>3 DEF CreateRitual, Harmless
  <2>2. QED
    BY <1>0, <2>1, HarmlessKeepsConsent
<1>4. ASSUME NEW k \in Clients, NEW r \in Rituals,
             BeginUpdate(k, r) \/ BeginActivate(k, r) \/ BeginPause(k, r) \/ BeginRun(k, r)
      PROVE  ConsentInv'
  <2>1. Harmless
    BY <1>a, <1>4
       DEF BeginUpdate, BeginActivate, BeginPause, BeginRun, GetRitual, Harmless
  <2>2. QED
    BY <1>0, <2>1, HarmlessKeepsConsent
<1>5. ASSUME NEW k \in Clients, NEW definition \in Definitions, UpdateRitual(k, definition)
      PROVE  ConsentInv'
  <2>1. \A r \in Rituals : rituals'[r].status = "active" => rituals[r].status = "active"
    BY <1>a, <1>5 DEF UpdateRitual
  <2>2. Harmless
    BY <1>a, <1>5, <2>1 DEF UpdateRitual, Respond, Harmless
  <2>3. QED
    BY <1>0, <2>2, HarmlessKeepsConsent
<1>6. ASSUME NEW k \in Clients, NEW executable \in BOOLEAN, Preview(k, executable)
      PROVE  ConsentInv'
  <2>1. Harmless
    BY <1>a, <1>6 DEF Preview, Respond, Harmless, Handler
  <2>2. QED
    BY <1>0, <2>1, HarmlessKeepsConsent
<1>7. ASSUME NEW k \in Clients, CreateApprovals(k)
      PROVE  ConsentInv'
  <2> DEFINE h == handler[k]
  <2>1. /\ versions[h.ritual][h.version] = h.definition
        /\ versions' = versions /\ rituals' = rituals /\ executed' = executed
        /\ approvals' = approvals \cup
              {[ritual |-> h.ritual, version |-> h.version,
                fields |-> ApprovalFields(action), hash |-> h.definition]
                 : action \in h.definition}
    BY <1>7 DEF CreateApprovals, VersionInv, HandlerFaithful
  <2>2. approvals \subseteq approvals'
    BY <2>1
  <2>3. h' = [h EXCEPT !.pc = "activating"]
    BY <1>a, <1>7 DEF CreateApprovals
  <2>4. h'.ritual = h.ritual /\ h'.version = h.version /\ h'.definition = h.definition
    BY <1>a, <2>3 DEF Handler
  <2>5. ASSUME NEW action \in h.definition
        PROVE  \E a \in approvals' : /\ a.ritual = h.ritual
                                     /\ a.version = h.version
                                     /\ a.hash = h.definition
                                     /\ a.fields = ApprovalFields(action)
    <3> DEFINE b == [ritual |-> h.ritual, version |-> h.version,
                     fields |-> ApprovalFields(action), hash |-> h.definition]
    <3>1. b \in approvals'
      BY <2>1
    <3>2. /\ b.ritual = h.ritual
          /\ b.version = h.version
          /\ b.hash = h.definition
          /\ b.fields = ApprovalFields(action)
      OBVIOUS
    <3>3. QED
      BY <3>1, <3>2
  <2>6. Approved(handler[k].ritual, handler[k].version, handler[k].definition)'
    BY <2>4, <2>5 DEF Approved
  <2>7. HandlerApproved(k)'
    BY <2>6 DEF HandlerApproved
  <2>8. ASSUME NEW c \in Clients, c # k
        PROVE  HandlerApproved(c)'
    <3>1. handler'[c] = handler[c]
      BY <1>a, <1>7, <2>8 DEF CreateApprovals
    <3>2. QED
      BY <2>2, <3>1 DEF HandlerApproved, ConsentInv, Approved
  <2>9. ApprovalsFaithful'
    <3> SUFFICES ASSUME NEW a \in approvals'
                 PROVE  versions'[a.ritual][a.version] = a.hash
      BY DEF ApprovalsFaithful
    <3>1. CASE a \in approvals
      BY <1>0, <2>2, <3>1, ConsentKept
    <3>2. CASE a \notin approvals
      <4>1. PICK action \in h.definition :
               a = [ritual |-> h.ritual, version |-> h.version,
                    fields |-> ApprovalFields(action), hash |-> h.definition]
        BY <2>1, <3>2
      <4>2. QED
        BY <2>1, <4>1
    <3>3. QED
      BY <3>1, <3>2
  <2>10. ExecutedWasApproved'
    BY <1>0, <2>1, <2>2, ConsentKept DEF ExecutedWasApproved
  <2>11. ActiveWasApproved'
    BY <1>0, <2>1, <2>2, ConsentKept DEF ActiveWasApproved, ConsentInv
  <2>12. QED
    BY <2>7, <2>8, <2>9, <2>10, <2>11 DEF ConsentInv
<1>8. ASSUME NEW k \in Clients, SetActive(k)
      PROVE  ConsentInv'
  <2> DEFINE r == handler[k].ritual
  <2>1. UNCHANGED <<versions, approvals, executed>>
    BY <1>8 DEF SetActive
  <2>2. /\ r \in Rituals /\ handler[k].version \in Numbers
        /\ handler[k].definition \in Definitions
        /\ versions[r][handler[k].version] = handler[k].definition
    BY <1>8 DEF SetActive, VersionInv, HandlerFaithful
  <2>3. Approved(r, handler[k].version, handler[k].definition)
    BY <1>8 DEF SetActive, ConsentInv, HandlerApproved
  <2>4. \E n \in Numbers : versions[r][n] # None /\ Approved(r, n, versions[r][n])
    BY <2>2, <2>3, ConstantsAssumption
  <2>5. \A q \in Rituals \ {r} : rituals'[q] = rituals[q]
    BY <1>a, <1>8 DEF SetActive
  <2>6. ActiveWasApproved'
    BY <1>0, <2>1, <2>4, <2>5, ConsentKept DEF ActiveWasApproved, ConsentInv
  <2>7. \A c \in Clients : HandlerApproved(c)'
    BY <1>a, <1>8, <2>1 DEF SetActive, Respond, ConsentInv, HandlerApproved, Approved
  <2>8. ApprovalsFaithful'
    BY <2>1 DEF ConsentInv, ApprovalsFaithful
  <2>9. ExecutedWasApproved'
    BY <1>0, <2>1, ConsentKept DEF ExecutedWasApproved
  <2>10. QED
    BY <2>6, <2>7, <2>8, <2>9 DEF ConsentInv
<1>9. ASSUME NEW k \in Clients, SetPaused(k)
      PROVE  ConsentInv'
  <2>1. \A r \in Rituals : rituals'[r].status = "active" => rituals[r].status = "active"
    BY <1>a, <1>9 DEF SetPaused
  <2>2. Harmless
    BY <1>a, <1>9, <2>1 DEF SetPaused, Respond, Harmless
  <2>3. QED
    BY <1>0, <2>2, HarmlessKeepsConsent
<1>10. ASSUME NEW k \in Clients, NEW available \in BOOLEAN, Preflight(k, available)
       PROVE  ConsentInv'
  <2>1. UNCHANGED <<rituals, versions, approvals, executed>>
    BY <1>10 DEF Preflight
  <2>2. \A c \in Clients \ {k} : handler'[c] = handler[c]
    BY <1>a, <1>10 DEF Preflight, Respond
  <2>3. HandlerApproved(k)'
    <3>1. CASE handler' = [handler EXCEPT ![k] = Idle]
      BY <1>a, <3>1 DEF HandlerApproved
    <3>2. CASE handler' # [handler EXCEPT ![k] = Idle]
      <4>1. /\ handler'[k] = [handler[k] EXCEPT !.pc = "starting"]
            /\ Approved(handler[k].ritual, handler[k].version, handler[k].definition)
        BY <1>a, <1>10, <3>2 DEF Preflight, Respond
      <4>2. /\ handler'[k].ritual = handler[k].ritual
            /\ handler'[k].version = handler[k].version
            /\ handler'[k].definition = handler[k].definition
        BY <1>a, <4>1 DEF Handler
      <4>3. QED
        BY <2>1, <4>1, <4>2 DEF HandlerApproved, Approved
    <3>3. QED
      BY <3>1, <3>2
  <2>4. ASSUME NEW c \in Clients, c # k
        PROVE  HandlerApproved(c)'
    BY <2>1, <2>2, <2>4 DEF HandlerApproved, ConsentInv, Approved
  <2>5. ApprovalsFaithful' /\ ExecutedWasApproved' /\ ActiveWasApproved'
    BY <2>1 DEF ConsentInv, ApprovalsFaithful, ExecutedWasApproved, ActiveWasApproved, Approved
  <2>6. QED
    BY <2>3, <2>4, <2>5 DEF ConsentInv
<1>11. ASSUME NEW k \in Clients, StartExecution(k)
       PROVE  ConsentInv'
  <2> DEFINE h == handler[k]
             x == [ritual |-> h.ritual, version |-> h.version, definition |-> h.definition]
  <2>1. UNCHANGED <<rituals, versions, approvals>>
    BY <1>11 DEF StartExecution
  <2>2. /\ versions[h.ritual][h.version] = h.definition
        /\ Approved(h.ritual, h.version, h.definition)
    BY <1>11 DEF StartExecution, VersionInv, HandlerFaithful, ConsentInv, HandlerApproved
  <2>3. executed' \subseteq executed \cup {x}
    BY <1>11 DEF StartExecution
  <2>4. ASSUME NEW y \in executed'
        PROVE  /\ versions[y.ritual][y.version] = y.definition
               /\ Approved(y.ritual, y.version, y.definition)
    <3>1. CASE y = x
      BY <2>2, <3>1
    <3>2. CASE y # x
      BY <2>3, <3>2 DEF ConsentInv, ExecutedWasApproved
    <3>3. QED
      BY <3>1, <3>2
  <2>5. ExecutedWasApproved'
    BY <2>1, <2>4 DEF ExecutedWasApproved, Approved
  <2>6. \A c \in Clients : handler'[c].pc \in {"activating", "starting"} =>
                               handler'[c] = handler[c]
    BY <1>a, <1>11 DEF StartExecution, Respond, Handler
  <2>7. \A c \in Clients : HandlerApproved(c)'
    BY <2>1, <2>6 DEF HandlerApproved, ConsentInv, Approved
  <2>8. ApprovalsFaithful' /\ ActiveWasApproved'
    BY <2>1 DEF ConsentInv, ApprovalsFaithful, ActiveWasApproved, Approved
  <2>9. QED
    BY <2>5, <2>7, <2>8 DEF ConsentInv
<1>12. ASSUME NEW k \in Clients, EndExecution(k) \/ StorageFails(k)
       PROVE  ConsentInv'
  <2>1. Harmless
    BY <1>a, <1>12 DEF EndExecution, StorageFails, Respond, Harmless
  <2>2. QED
    BY <1>0, <2>1, HarmlessKeepsConsent
<1>13. QED
  BY <1>1, <1>2, <1>3, <1>4, <1>5, <1>6, <1>7, <1>8, <1>9, <1>10, <1>11, <1>12
     DEF Next, ClientStep

\* The consent invariant holds in every reachable state.
LEMMA ConsentInvariant == Spec => []ConsentInv
<1>1. Init => ConsentInv
  BY ConstantsAssumption
     DEF Init, Idle, Statuses, ConsentInv, HandlerApproved, ApprovalsFaithful,
         ExecutedWasApproved, ActiveWasApproved
<1>2. QED
  BY <1>1, ConsentStep, VersionInvariant, PTL DEF Spec

\* Nothing is executed without consent: every execution ran the stored definition
\* of its version, with every action approved for that version and that content.
THEOREM ConsentBeforeExecution == Spec => []ExecutedWasApproved
<1>1. ConsentInv => ExecutedWasApproved
  BY DEF ConsentInv
<1>2. QED
  BY <1>1, ConsentInvariant, PTL

\* An approval row always names the content of the version it is bound to.
THEOREM ApprovalsStayFaithful == Spec => []ApprovalsFaithful
<1>1. ConsentInv => ApprovalsFaithful
  BY DEF ConsentInv
<1>2. QED
  BY <1>1, ConsentInvariant, PTL

\* A ritual is active only if some version of it was approved in full.
THEOREM ActiveOnlyAfterApproval == Spec => []ActiveWasApproved
<1>1. ConsentInv => ActiveWasApproved
  BY DEF ConsentInv
<1>2. QED
  BY <1>1, ConsentInvariant, PTL
=============================================================================
