--------------------------- MODULE ElectronShell ---------------------------
(***************************************************************************)
(* The Electron desktop (desktop/main.cjs, lib/backend-supervisor.cjs,     *)
(* lib/health.cjs): one startup at a time, one stop for each child, and a  *)
(* quit that waits for both.                                               *)
(***************************************************************************)
EXTENDS Backend

CONSTANT MaxLaunches   \* bound: startups asked for

VARIABLES
    held,       \* backendSession: 0, Foreign or the backend
    child,      \* ownedChild: 0 or the backend
    startup,    \* startDesktopBackend: where it is, the backend it spawned, whether it is aborted
    stops,      \* ACTIVE_STOPS: how far the stop of each child is
    stopFile,   \* the backend whose stop file is written: the one spawned last
    quit,       \* before-quit: how far it is, and the session it saw first
    page,       \* the window's page, whether its runtime dialog is open, and the phase
    launches,   \* startups asked for so far
    exited,     \* children whose exit event was handled
    survivor    \* a child that outlived a taskkill

electronVars == <<held, child, startup, stops, stopFile, quit, page, launches, exited, survivor>>

Idle == [at |-> "idle", of |-> 0, aborted |-> FALSE]

ElectronInit ==
    /\ held = 0 /\ child = 0 /\ startup = [Idle EXCEPT !.at = "begin"]
    /\ stops = [b \in Backends |-> "no"] /\ stopFile = 0 /\ quit = [at |-> "no", of |-> 0]
    /\ page = [shows |-> "splash", picking |-> FALSE, phase |-> "starting"]
    /\ launches = 1 /\ exited = {} /\ survivor = FALSE

\* stopBackend: an active stop of the same child is joined; a child that has exited
\* needs none; else the stop file named last is written, or that fails.
Stopping(b) ==
    IF stops[b] # "no" THEN UNCHANGED <<stops, told>>
    ELSE IF b \in exited THEN stops' = [stops EXCEPT ![b] = "exited"] /\ UNCHANGED told
    ELSE /\ stops' = [stops EXCEPT ![b] = "asked"]
         /\ told' \in {told, [c \in Backends |-> told[c] \/ c = stopFile]}

\* taskkill ends the child and its tree, or fails.
KillTree(b) == Killed(b) \/ UNCHANGED backendVars

\* Its child is killed with its tree after 20 seconds, and is waited for 5 more.
StopChild(b) ==
    /\ b \notin exited
    /\ \/ /\ stops[b] = "asked" /\ stops' = [stops EXCEPT ![b] = "killed"]
          /\ KillTree(b) /\ UNCHANGED survivor
       \/ /\ stops[b] = "killed" /\ Up(b) /\ stops' = [stops EXCEPT ![b] = "failed"]
          /\ survivor' = TRUE /\ UNCHANGED backendVars
    /\ UNCHANGED <<held, child, startup, stopFile, quit, page, launches, exited>>

\* Where a startup goes when it fails: what backendSession owns is stopped; else the
\* splash shows the error, unless it was cancelled.
Catch(h) == startup' = [startup EXCEPT !.at = IF h \in Backends THEN "catching" ELSE "failed"]

\* The exit event of a child ends its stop; only a ready application shows it.
ChildExit(b) ==
    /\ orch[b] = "gone" /\ b \notin exited /\ exited' = exited \cup {b}
    /\ child' = IF child = b THEN 0 ELSE child
    /\ stops' = IF stops[b] \in {"asked", "killed"} THEN [stops EXCEPT ![b] = "exited"] ELSE stops
    /\ page' = IF quit.at = "no" /\ page.phase = "ready"
               THEN [page EXCEPT !.shows = "splash", !.phase = "error"] ELSE page
    /\ UNCHANGED <<held, startup, stopFile, quit, launches, survivor, backendVars>>

\* startDesktopBackend, up to its first await: a previous session's child that has not
\* exited is stopped first.
Begins(p) == page' = [shows |-> "splash", picking |-> FALSE, phase |-> p]
Begin ==
    \/ /\ Begins("runtime-missing") /\ startup' = Idle /\ UNCHANGED <<held, stops, told>>
    \/ /\ Begins("starting")
       /\ IF held \in Backends \ exited
            THEN startup' = [Idle EXCEPT !.at = "clearing"] /\ Stopping(held) /\ UNCHANGED held
            ELSE /\ startup' = [Idle EXCEPT !.at = "probe"]
                 /\ held' = (IF held \in Backends THEN 0 ELSE held) /\ UNCHANGED <<stops, told>>

\* A promise has settled: what awaits it goes on before the next event is handled.
Ended(b) == stops[b] \in {"exited", "failed"}
Settling == \/ \E b \in Backends : Ended(b)
            \/ startup.at \in {"failed", "recatch"}
            \/ quit.at = "ending" \/ (quit.at = "waiting" /\ startup.at = "idle")

\* The window is made, and starts the backend; later the splash's retry and its modal
\* runtime dialog do, one startup at a time.
Ask ==
    /\ UNCHANGED <<child, stopFile, quit, exited, survivor, orch, kids, crashed, port>>
    /\ \/ startup.at = "begin" /\ Begin /\ UNCHANGED launches
       \/ /\ page.shows = "splash" /\ ~page.picking /\ page' = [page EXCEPT !.picking = TRUE]
          /\ UNCHANGED <<held, startup, stops, told, launches>>
       \/ /\ startup.at # "begin" /\ (page.picking \/ page.shows = "splash")
          /\ launches < MaxLaunches /\ launches' = launches + 1
          /\ IF startup.at = "idle" THEN Begin
             ELSE page' = [page EXCEPT !.picking = FALSE] /\ UNCHANGED <<held, startup, stops, told>>

\* spawnBackend: the next orchestrator, or none, and its stop file.
SpawnBackend ==
    \/ /\ Catch(held) /\ stopFile' = 0 /\ UNCHANGED <<child, backendVars>>
    \/ \E b \in Backends :
          /\ orch[b] = "none" /\ \A c \in 1..(b - 1) : orch[c] # "none"
          /\ Spawned(b) /\ child' = b /\ stopFile' = b
          /\ startup' = [startup EXCEPT !.at = "waiting", !.of = b]

\* ensureBackend: a healthy service is used as external, else a backend is spawned.
Ensure ==
    /\ startup.at = "probe" /\ UNCHANGED <<stops, quit, launches, exited, survivor>>
    /\ \E seen \in Probes :
         \/ /\ startup.aborted /\ Catch(held) /\ UNCHANGED <<held, child, stopFile, page, backendVars>>
         \/ /\ ~startup.aborted /\ seen = "ready" /\ held' = Foreign
            /\ startup' = [startup EXCEPT !.at = "loading"] /\ page' = [page EXCEPT !.phase = "ready"]
            /\ UNCHANGED <<child, stopFile, backendVars>>
         \/ /\ ~startup.aborted /\ seen # "ready" /\ UNCHANGED <<held, page>> /\ SpawnBackend

\* waitForReady looks whether the child has exited, and then accepts any healthy service.
Poll ==
    /\ startup.at = "waiting" /\ startup.of \notin exited /\ startup' = [startup EXCEPT !.at = "polled"]
    /\ UNCHANGED <<held, child, stops, stopFile, quit, page, launches, exited, survivor, backendVars>>

\* It fails when the startup is aborted, the child has exited or 300 seconds are over,
\* and then the child is stopped.
WaitFails == startup' = [startup EXCEPT !.at = "ending"] /\ Stopping(startup.of)
Wait ==
    /\ UNCHANGED <<child, stopFile, quit, launches, exited, survivor, orch, kids, crashed, port>>
    /\ \/ /\ startup.at = "polled" /\ ~startup.aborted /\ "ready" \in Probes /\ held' = startup.of
          /\ startup' = [startup EXCEPT !.at = "loading"] /\ page' = [page EXCEPT !.phase = "ready"]
          /\ UNCHANGED <<stops, told>>
       \/ /\ startup.at = "polled" /\ startup' = [startup EXCEPT !.at = "waiting"]
          /\ UNCHANGED <<stops, told, held, page>>
       \/ /\ startup.at \in {"waiting", "polled"} /\ WaitFails /\ UNCHANGED <<held, page>>

\* The application's page is loaded, unless the splash was shown meanwhile.
Load ==
    /\ startup.at = "loading" /\ UNCHANGED <<held, child, stopFile, quit, launches, exited, survivor, orch, kids, crashed, port>>
    /\ \/ page.phase # "error" /\ page' = [page EXCEPT !.shows = "app"] /\ startup' = Idle
          /\ UNCHANGED <<stops, told>>
       \/ /\ Catch(held) /\ UNCHANGED page
          /\ IF held \in Backends THEN Stopping(held) ELSE UNCHANGED <<stops, told>>

\* A stop is over: what waited for it goes on.
Waits(b) == \/ startup.at \in {"clearing", "catching"} /\ held = b
            \/ startup.at = "ending" /\ startup.of = b
StopEnds(b) ==
    /\ Ended(b) /\ UNCHANGED <<child, stopFile, page, launches, exited, survivor, backendVars>>
    /\ stops' = [stops EXCEPT ![b] = "no"]
    /\ quit' = IF quit.at = "stopping" /\ quit.of = b THEN [quit EXCEPT !.at = "ending"] ELSE quit
    /\ IF ~Waits(b) THEN UNCHANGED <<startup, held>>
       ELSE /\ held' = IF stops[b] = "exited" /\ startup.at # "ending" THEN 0 ELSE held
            /\ startup' = [startup EXCEPT !.at =
                 CASE startup.at = "clearing" /\ stops[b] = "exited" -> "probe"
                   [] startup.at = "clearing" /\ stops[b] = "failed" -> "recatch"
                   [] OTHER -> "failed"]

\* The catch block stops a session it still owns, and shows the error.
CatchStops ==
    /\ startup.at = "recatch" /\ startup' = [startup EXCEPT !.at = "catching"] /\ Stopping(held)
    /\ UNCHANGED <<held, child, stopFile, quit, page, launches, exited, survivor, orch, kids, crashed, port>>

GiveUp ==
    /\ startup.at = "failed" /\ startup' = Idle
    /\ held' = IF held \in Backends THEN held ELSE 0
    /\ page' = IF quit.at # "no" \/ startup.aborted THEN page
               ELSE [page EXCEPT !.shows = "splash", !.phase = "error"]
    /\ UNCHANGED <<child, stops, stopFile, quit, launches, exited, survivor, backendVars>>

\* before-quit: the startup is aborted and waited for, then the session is stopped.
Owned == IF held \in Backends THEN held ELSE child
Quit ==
    /\ quit.at = "no" /\ startup.at # "begin"
    /\ IF startup.at = "idle" /\ Owned = 0
         THEN quit' = [quit EXCEPT !.at = "done"] /\ UNCHANGED <<startup, page>>
         ELSE /\ quit' = [at |-> "waiting", of |-> Owned]
              /\ startup' = [startup EXCEPT !.aborted = @ \/ startup.at # "idle"]
              /\ page' = [page EXCEPT !.phase = "stopping"]
    /\ UNCHANGED <<held, child, stops, stopFile, launches, exited, survivor, backendVars>>

QuitGoesOn ==
    /\ quit.at = "waiting" /\ startup.at = "idle"
    /\ LET b == IF Owned # 0 THEN Owned ELSE quit.of IN
       IF b = 0 THEN quit' = [quit EXCEPT !.at = "ending"] /\ UNCHANGED <<stops, told>>
       ELSE quit' = [at |-> "stopping", of |-> b] /\ Stopping(b)
    /\ UNCHANGED <<held, child, startup, stopFile, page, launches, exited, survivor, orch, kids, crashed, port>>

QuitEnds ==
    /\ quit.at = "ending" /\ quit' = [quit EXCEPT !.at = "done"] /\ held' = 0 /\ child' = 0
    /\ UNCHANGED <<startup, stops, stopFile, page, launches, exited, survivor, backendVars>>

Settles == CatchStops \/ GiveUp \/ QuitGoesOn \/ QuitEnds \/ \E b \in Backends : StopEnds(b)
Event ==
    \/ Ask \/ Ensure \/ Poll \/ Wait \/ Load \/ Quit
    \/ \E b \in Backends : StopChild(b) \/ ChildExit(b)

ElectronNext == quit.at # "done" /\ IF Settling THEN Settles ELSE Event

\* Unless a taskkill has failed, an orchestrator that runs is the child or the session
\* the shell will stop, there is one at most, and none is left when it has quit.
ChildIsKnown ==
    survivor \/ \A b \in Backends : Up(b) => b \in {held, child} /\ quit.at # "done"

\* docs/plans/2026-08-06-electron-desktop-runtime.md, line 7: "Electron owns exactly one
\* Python orchestrator".  This does not
\* hold: see the README.
OneOrchestrator == \A b, c \in Backends : Up(b) /\ Up(c) => b = c
=============================================================================
