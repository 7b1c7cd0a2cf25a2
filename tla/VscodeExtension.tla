--------------------------- MODULE VscodeExtension ---------------------------
(***************************************************************************)
(* The commands of the VS Code extension over its event session:           *)
(* extensions/vscode/src/extension.ts, with the requests it makes of Core  *)
(* through core-client.ts.  There is one workspace.                        *)
(*                                                                         *)
(* A flow is one call of observe, stop or emitIfRegistered.  Flows         *)
(* interleave at every await; the keys of globalState are written one at a *)
(* time with an await after each.                                          *)
(***************************************************************************)
EXTENDS VscodeSession

CONSTANT Flows   \* the calls that may be in progress at the same time

VARIABLES
    flow,       \* flow -> where it is
    hadScope,   \* flow -> whether the scope key was there when stop read it
    starting,   \* flow -> the attempt its start() waits for, or Undefined
    keys,       \* the keys globalState holds
    scope,      \* the workspace's scope in Core
    abandoned,  \* the status Core may still give it for requests that timed out
    recent,     \* whether lastEventAt is less than five seconds ago
    burst       \* history: events of the last five seconds

extVars == <<flow, hadScope, starting, keys, scope, abandoned, recent, burst>>
allVars == <<vars, extVars>>

Keys == {"resource", "scope", "hash"}

Places == {"idle", "enabling", "enabled", "wroteResource", "wroteScope", "wroteHash",
           "hashing", "starting", "clearedResource", "clearedScope", "clearedHash",
           "pausing", "paused"}

\* The types of the flows and of what they share.
ExtTypeOK ==
    /\ TypeOK
    /\ flow \in [Flows -> Places]
    /\ hadScope \in [Flows -> BOOLEAN]
    /\ starting \in [Flows -> Attempts \cup {Undefined}]
    /\ keys \in SUBSET Keys
    /\ scope \in {"none", "active", "paused"}
    /\ abandoned \in SUBSET {"active", "paused"}
    /\ recent \in BOOLEAN
    /\ burst \in Nat

\* Activation, with what an earlier session left in globalState and in Core; it may
\* have ended between two updates of the keys.
ExtInit ==
    /\ Init
    /\ flow = [f \in Flows |-> "idle"]
    /\ hadScope = [f \in Flows |-> FALSE]
    /\ starting = [f \in Flows |-> Undefined]
    /\ keys \in SUBSET Keys
    /\ scope \in {"none", "active", "paused"}
    /\ keys # {} => scope # "none"
    /\ abandoned = {}
    /\ recent = FALSE
    /\ burst = 0

At(f, place) == flow[f] = place
Go(f, place) == flow' = [flow EXCEPT ![f] = place]

\* The start() of a flow has settled: its continuation is ready.
StartSettled(f) ==
    /\ At(f, "starting")
    /\ starting[f] # Undefined => Finished(starting[f])

\* No chunk and no continuation, of the session or of a flow, is in hand.
Quiet == Idle /\ \A f \in Flows : ~StartSettled(f)

-----------------------------------------------------------------------------
(***************************************************************************)
(* observe.                                                                *)
(***************************************************************************)

\* The command, the label and the request vscode.observation.enable.
Observe(f) ==
    /\ At(f, "idle") /\ Go(f, "enabling")
    /\ UNCHANGED <<vars, hadScope, starting, keys, scope, abandoned, recent, burst>>

\* Core enables the scope; the answer is on its way.
CoreEnables(f) ==
    /\ At(f, "enabling") /\ Go(f, "enabled")
    /\ scope' = "active"
    /\ UNCHANGED <<vars, hadScope, starting, keys, abandoned, recent, burst>>

\* The request of observe or stop fails, before or after Core has handled it: an error,
\* or the client's timeout, after which Core may still handle it.
RequestFails(f) ==
    /\ flow[f] \in {"enabling", "enabled", "pausing", "paused"} /\ Go(f, "idle")
    /\ abandoned' = abandoned \cup CASE At(f, "enabling") -> {"active"}
                                     [] At(f, "pausing")  -> {"paused"}
                                     [] OTHER             -> {}
    /\ UNCHANGED <<vars, hadScope, starting, keys, scope, recent, burst>>

\* Core handles a request that its client has given up.
CoreHandlesLate(status) ==
    /\ status \in abandoned
    /\ scope' = status
    /\ abandoned' = abandoned \ {status}
    /\ UNCHANGED <<vars, flow, hadScope, starting, keys, recent, burst>>

\* workspaceMapping refuses the answer.
InvalidAnswer(f) ==
    /\ At(f, "enabled") /\ Go(f, "idle")
    /\ UNCHANGED <<vars, hadScope, starting, keys, scope, abandoned, recent, burst>>

\* The three updates of globalState after a valid answer.
Remember(f) ==
    /\ \/ At(f, "enabled") /\ Go(f, "wroteResource") /\ keys' = keys \cup {"resource"}
       \/ At(f, "wroteResource") /\ Go(f, "wroteScope") /\ keys' = keys \cup {"scope"}
       \/ At(f, "wroteScope") /\ Go(f, "wroteHash") /\ keys' = keys \cup {"hash"}
    /\ UNCHANGED <<vars, hadScope, starting, scope, abandoned, recent, burst>>

\* session().start() of observe and of emitIfRegistered.
StartSession(f) ==
    /\ flow[f] \in {"wroteHash", "hashing"} /\ Go(f, "starting")
    /\ Start
    /\ starting' = [starting EXCEPT ![f] =
                      IF transport' # Undefined /\ connected' THEN Undefined ELSE connecting']
    /\ UNCHANGED <<hadScope, keys, scope, abandoned, recent, burst>>

\* Mutant: the time of the last event is not looked at.
SendWorkspaceEventAlways(f) ==
    /\ StartSettled(f) /\ Go(f, "idle")
    /\ starting' = [starting EXCEPT ![f] = Undefined]
    /\ recent' = TRUE /\ burst' = burst + 1 /\ Emit
    /\ UNCHANGED <<hadScope, keys, scope, abandoned>>

\* start() is over.  If it returned, sendWorkspaceEvent: nothing within five
\* seconds of the last event, else the time is noted and the event emitted.
SendWorkspaceEvent(f) ==
    /\ StartSettled(f) /\ Go(f, "idle")
    /\ starting' = [starting EXCEPT ![f] = Undefined]
    /\ IF /\ starting[f] # Undefined => attempt[starting[f]] = "ok"
          /\ transport # Undefined /\ connected /\ ~recent /\ nextSequence \in Events
       THEN recent' = TRUE /\ burst' = burst + 1 /\ Emit
       ELSE UNCHANGED <<vars, recent, burst>>
    /\ UNCHANGED <<hadScope, keys, scope, abandoned>>

-----------------------------------------------------------------------------
(***************************************************************************)
(* emitIfRegistered and stop.                                              *)
(***************************************************************************)

\* Mutant: the keys are not looked at.
EmitIfAnything(f) ==
    /\ At(f, "idle") /\ Go(f, "hashing")
    /\ UNCHANGED <<vars, hadScope, starting, keys, scope, abandoned, recent, burst>>

\* emitIfRegistered, on activation or a change of folders: all keys are read, then
\* the path is resolved and hashed.
EmitIfRegistered(f) ==
    /\ At(f, "idle") /\ Go(f, "hashing")
    /\ keys = Keys
    /\ UNCHANGED <<vars, hadScope, starting, keys, scope, abandoned, recent, burst>>

\* Another folder is open now, or its path cannot be resolved.
HashDiffers(f) ==
    /\ At(f, "hashing") /\ Go(f, "idle")
    /\ UNCHANGED <<vars, hadScope, starting, keys, scope, abandoned, recent, burst>>

\* stop up to its first await: the scope key is read, the session stopped.
StopObserving(f) ==
    /\ At(f, "idle") /\ Go(f, "clearedResource")
    /\ hadScope' = [hadScope EXCEPT ![f] = "scope" \in keys]
    /\ Stop
    /\ keys' = keys \ {"resource"}
    /\ UNCHANGED <<starting, scope, abandoned, recent, burst>>

\* The other keys are cleared.
Forget(f) ==
    /\ \/ At(f, "clearedResource") /\ Go(f, "clearedScope") /\ keys' = keys \ {"scope"}
       \/ At(f, "clearedScope") /\ Go(f, "clearedHash") /\ keys' = keys \ {"hash"}
    /\ UNCHANGED <<vars, hadScope, starting, scope, abandoned, recent, burst>>

\* The request observation.pause, if there was a scope.
RequestPause(f) ==
    /\ At(f, "clearedHash") /\ Go(f, IF hadScope[f] THEN "pausing" ELSE "idle")
    /\ UNCHANGED <<vars, hadScope, starting, keys, scope, abandoned, recent, burst>>

\* Core pauses the scope; the answer is on its way.
CorePauses(f) ==
    /\ At(f, "pausing") /\ Go(f, "paused")
    /\ scope' = "paused"
    /\ UNCHANGED <<vars, hadScope, starting, keys, abandoned, recent, burst>>

\* stop is over.
PauseAnswered(f) ==
    /\ At(f, "paused") /\ Go(f, "idle")
    /\ UNCHANGED <<vars, hadScope, starting, keys, scope, abandoned, recent, burst>>

\* Five seconds pass.
TimePasses ==
    /\ recent
    /\ recent' = FALSE /\ burst' = 0
    /\ UNCHANGED <<vars, flow, hadScope, starting, keys, scope, abandoned>>

-----------------------------------------------------------------------------
FlowStep(f) ==
    \/ Observe(f) \/ CoreEnables(f) \/ RequestFails(f) \/ InvalidAnswer(f)
    \/ Remember(f) \/ StartSession(f)
    \/ EmitIfRegistered(f) \/ HashDiffers(f)
    \/ StopObserving(f) \/ Forget(f) \/ RequestPause(f) \/ CorePauses(f) \/ PauseAnswered(f)

ExtNext ==
    \/ (Continuation \/ HandleFrame) /\ UNCHANGED extVars
    \/ chunk = <<>> /\ \E f \in Flows : SendWorkspaceEvent(f)
    \/ Quiet /\ \/ TimePasses
                \/ \E f \in Flows : FlowStep(f)
                \/ \E status \in {"active", "paused"} : CoreHandlesLate(status)
    \/ Quiet /\ Callback /\ UNCHANGED extVars

ExtSpec == ExtInit /\ [][ExtNext]_allVars

-----------------------------------------------------------------------------
(***************************************************************************)
(* Properties.                                                             *)
(***************************************************************************)

\* However flows overlap, at most one event is emitted in five seconds: both the
\* check and the note of the time are before the await.
Throttled == burst <= 1

\* Nothing connects to Core as an adapter, and no event is emitted, before the user's
\* observe command made Core enable the scope: opt-in, although activation and
\* folder changes start the session by themselves.
OptIn ==
    scope = "none" => ~desired /\ transport = Undefined /\ nextSequence = 1
=============================================================================
