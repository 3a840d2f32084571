------------------------------ MODULE Desktop ------------------------------
(***************************************************************************)
(* The desktop application: one of its two shells, and the processes it    *)
(* starts and stops, which go on by themselves.                            *)
(***************************************************************************)
EXTENDS TauriShell, ElectronShell

VARIABLE shell   \* the shell of this installation

vars == <<shell, backendVars, tauriVars, electronVars>>

Init ==
    /\ shell \in {"tauri", "electron"}
    /\ BackendInit /\ TauriInit /\ ElectronInit

Over == exiting = "final" \/ quit.at = "done"

Next ==
    /\ UNCHANGED shell
    /\ \/ shell = "tauri" /\ TauriNext /\ UNCHANGED electronVars
       \/ shell = "electron" /\ ElectronNext /\ UNCHANGED tauriVars
       \/ ~Over /\ BackendNext /\ UNCHANGED <<tauriVars, electronVars>>

Spec == Init /\ [][Next]_vars

\* The types of the shells' and their backends' state; who listens is alive.
TypeOK ==
    /\ orch \in [Backends -> {"none", "warming", "running", "leaving", "gone"}]
    /\ kids \in [Backends -> SUBSET Kids]
    /\ port \in [by : 0..Foreign, ready : BOOLEAN]
    /\ port.by \in Backends => "streamer" \in kids[port.by]
    /\ sess \in 0..Foreign /\ gen \in 0..(2 * MaxStarts)
    /\ stop \in [at : {"no", "asked", "forced", "killed"}, of : 0..MaxBackends, bad : BOOLEAN]
    /\ held \in 0..Foreign /\ child \in 0..MaxBackends
    /\ stops \in [Backends -> {"no", "asked", "killed", "exited", "failed"}]

\* What a shell has started and still runs it knows and will stop: a process of Tauri's
\* (OwnedIsKnown) always, an orchestrator of Electron's (ChildIsKnown) unless a
\* taskkill failed; so it starts no second one, and leaves none behind.
StartedIsKnown == /\ shell = "tauri" => OwnedIsKnown
                  /\ shell = "electron" => ChildIsKnown

\* Nothing a shell or an orchestrator has started runs on unknown to it.
ProcessesAreKept == TypeOK /\ StartedIsKnown /\ ChildrenGoFirst
=============================================================================
