---------------------------- MODULE MCObservation ----------------------------
(* A small instance of Observation for TLC. *)
EXTENDS Observation, TLC

CONSTANTS b1, b2, v1   \* two sockets of one browser instance, one VS Code socket

Hello(id, capabilities, permitted) ==
    [adapter_id |-> id, well_formed |-> TRUE, action_capabilities |-> <<>>,
     event_capabilities |-> capabilities, tools |-> {}, desktop_entry_ids |-> {},
     permitted_resource_ids |-> permitted]

\* The browser has the permission for one of the two pages.
Hellos == [s \in Sockets |->
             IF s = v1 THEN Hello(VscodeAdapter, <<WorkspaceOpened>>, {})
             ELSE Hello(BrowserAdapter, <<BrowserOpened>>, {"page"})]

\* The two browser sockets are one instance that reconnected.
InstanceIds == [s \in Sockets |-> IF s = v1 THEN "vscode" ELSE "browser"]
=============================================================================
