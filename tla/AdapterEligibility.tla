------------------------- MODULE AdapterEligibility -------------------------
(***************************************************************************)
(* Which adapter connection may carry out which action: the fixed          *)
(* registries, the validation of an adapter's hello and the eligibility    *)
(* test that Preview, Preflight and Dispatch share                         *)
(* (crates/fubun-core/src/adapter.rs, crates/fubun-policy/src/lib.rs).     *)
(*                                                                         *)
(* Data abstraction.  A hello is a record                                  *)
(*   adapter_id              its registered adapter id                     *)
(*   well_formed             its strings are non-empty, short and free of  *)
(*                           control characters                            *)
(*   action_capabilities,                                                  *)
(*   event_capabilities      sequences, so that a duplicate can be seen    *)
(*   tools                   the tools its status reports as available     *)
(*   desktop_entry_ids, permitted_resource_ids    sets                     *)
(* An action is a record [type, target], target being the desktop entry    *)
(* of an app action and the resource of a path or tab action.              *)
(***************************************************************************)
EXTENDS Naturals, Sequences, Functions

AppEnsureRunning == "linux.app.ensure_running.v1"
PathOpen         == "linux.path.open.v1"
NotificationShow == "desktop.notification.show.v1"
TabEnsureOpen    == "browser.tab.ensure_open.v1"
BrowserOpened    == "dev.fubun.browser.resource.opened.v1"
WorkspaceOpened  == "dev.fubun.vscode.workspace.opened.v1"

LinuxAdapter   == "dev.fubun.linux"
BrowserAdapter == "dev.fubun.browser.chromium"
VscodeAdapter  == "dev.fubun.vscode"

\* The action types the policy crate describes, and the two event capabilities.
ActionTypes       == {AppEnsureRunning, PathOpen, NotificationShow, TabEnsureOpen}
EventCapabilities == {BrowserOpened, WorkspaceOpened}

\* The one adapter id that may declare a capability.  The seven tests of the
\* validation loop amount to this table.
Owner(capability) ==
    CASE capability \in {AppEnsureRunning, PathOpen, NotificationShow} -> LinuxAdapter
      [] capability \in {TabEnsureOpen, BrowserOpened}                 -> BrowserAdapter
      [] capability = WorkspaceOpened                                  -> VscodeAdapter

MAX_CAPABILITIES == 16

ValidateHello(hello) ==
    LET declared == hello.action_capabilities \o hello.event_capabilities
    IN  /\ hello.adapter_id \in {LinuxAdapter, BrowserAdapter, VscodeAdapter}
        /\ hello.well_formed
        /\ Len(declared) \in 1..MAX_CAPABILITIES
        /\ \A k \in DOMAIN declared :
              /\ declared[k] \in ActionTypes \cup EventCapabilities
              /\ Owner(declared[k]) = hello.adapter_id
        /\ IsInjective(declared)

(***************************************************************************)
(* AdapterRequirements::from_action.  An Option is a set of at most one    *)
(* element, so that "none, or one the adapter has" is set inclusion.       *)
(***************************************************************************)
AdapterRequirements(action) ==
    [capability          |-> action.type,
     required_tool       |-> CASE action.type = AppEnsureRunning -> {"gtk-launch"}
                               [] action.type = PathOpen         -> {"xdg-open"}
                               [] action.type = NotificationShow -> {"notify-send"}
                               [] OTHER                          -> {},
     desktop_entry_id    |-> IF action.type = AppEnsureRunning THEN {action.target} ELSE {},
     browser_resource_id |-> IF action.type = TabEnsureOpen THEN {action.target} ELSE {}]

AdapterIdAllowedForCapability(adapter_id, capability) ==
    capability \in ActionTypes /\ adapter_id = Owner(capability)

\* One connection must satisfy every requirement by itself.
ConnectionSatisfies(hello, req) ==
    /\ AdapterIdAllowedForCapability(hello.adapter_id, req.capability)
    /\ req.capability \in Range(hello.action_capabilities)
    /\ req.required_tool \subseteq hello.tools
    /\ req.desktop_entry_id \subseteq hello.desktop_entry_ids
    /\ req.browser_resource_id # {} =>
          /\ hello.adapter_id = BrowserAdapter
          /\ req.browser_resource_id \subseteq hello.permitted_resource_ids

Satisfies(hello, action) == ConnectionSatisfies(hello, AdapterRequirements(action))
=============================================================================
