-------------------------- MODULE MCAdapterManager --------------------------
(* Small instances of AdapterManager for TLC. *)
EXTENDS AdapterManager, TLC

Hello(id, actions, events, tools, entries, resources) ==
    [adapter_id |-> id, well_formed |-> TRUE, action_capabilities |-> actions,
     event_capabilities |-> events, tools |-> tools, desktop_entry_ids |-> entries,
     permitted_resource_ids |-> resources]

BrowserFull  == Hello(BrowserAdapter, <<TabEnsureOpen>>, <<BrowserOpened>>, {}, {}, {"r1"})
BrowserEmpty == Hello(BrowserAdapter, <<TabEnsureOpen>>, <<>>, {}, {}, {})
Impostor     == Hello(VscodeAdapter, <<TabEnsureOpen>>, <<>>, {}, {}, {"r1"})

OpenTab == [type |-> TabEnsureOpen, target |-> "r1"]

\* A browser reconnecting with and without its permission, and an impostor.
BrowserHellos == {BrowserFull, BrowserEmpty, Impostor}
TabActions    == {OpenTab}

\* One hello and one action, for liveness.
OneHello == {BrowserFull}

Symmetry == Permutations(Sockets) \cup Permutations(Dispatches)
=============================================================================
