----------------------------- MODULE TauriShell -----------------------------
(***************************************************************************)
(* The Tauri desktop (src-tauri/src: app.rs, supervisor.rs, health.rs).    *)
(* Startups, reports of a lost backend and the exit are tasks that hold    *)
(* the startup gate one after the other; monitors run beside them and are  *)
(* told apart from their successors by the startup generation.             *)
(***************************************************************************)
EXTENDS Backend

CONSTANTS
    MaxStarts,   \* bound: startups asked for
    MissLimit    \* OWNED_MONITOR_FAILURE_LIMIT: failed probes in a row (5)

ASSUME TauriAssumption == MaxStarts \in Nat \ {0}

VARIABLES
    sess,      \* session: 0, Foreign or the backend owned
    stop,      \* stop_current_session: how far it is, the backend taken, an error met
    gate,      \* startup_gate: its holder and the tasks that wait for it
    step,      \* where the holder is
    gen,       \* startup_generation
    exiting,   \* exit_started, and final_exit
    phase,     \* the state's phase
    window,    \* the window that is shown, and whether its runtime dialog is open
    starts,    \* startups asked for so far
    monitors   \* monitors: their generation, backend, failed probes, whether they report

tauriVars == <<sess, stop, gate, step, gen, exiting, phase, window, starts, monitors>>

NoStop == [at |-> "no", of |-> 0, bad |-> FALSE]

TauriInit ==
    /\ sess = 0 /\ stop = NoStop /\ gate = <<"startup">> /\ step = "enter" /\ gen = 0
    /\ exiting = "no" /\ phase = "starting" /\ window = [shows |-> "splash", picking |-> FALSE]
    /\ starts = 1 /\ monitors = {}

Holds(task) == gate # <<>> /\ Head(gate) = task
At(task, s) == Holds(task) /\ step = s /\ stop.at = "no"
Leaves == gate' = Tail(gate) /\ step' = "enter"

\* What the task that asked for the stop does next: a startup goes on or gives up, a
\* failure report and a startup that failed end, the exit ends the application, and
\* with it, by the handles of their jobs, every process it started.
AfterStop(ok) ==
    \/ /\ Holds("startup") /\ step = "clearing" /\ UNCHANGED exiting
       /\ \/ ok /\ step' = "probe1" /\ phase' = "starting" /\ UNCHANGED gate
          \/ ~ok /\ Leaves /\ phase' = "error"
    \/ /\ Holds("startup") /\ step = "cleanup" /\ Leaves /\ UNCHANGED exiting
       /\ phase' = IF exiting = "no" THEN "error" ELSE "stopping"
    \/ /\ Holds("failure") /\ Leaves /\ phase' = "error" /\ UNCHANGED exiting
    \/ /\ Holds("exit") /\ Leaves /\ exiting' = "final" /\ UNCHANGED phase

\* The stop file is written, or that fails.
AskToStop(b) ==
    \E written \in BOOLEAN :
        /\ told' = [told EXCEPT ![b] = written]
        /\ stop' = [at |-> "asked", of |-> b, bad |-> ~written]

\* stop_current_session: the session is taken; only one that is owned is stopped, and
\* its stop file is written first.
BeginStop ==
    IF sess \notin Backends
      THEN sess' = 0 /\ AfterStop(TRUE) /\ UNCHANGED <<stop, told>>
      ELSE sess' = 0 /\ AskToStop(sess) /\ UNCHANGED <<gate, step, exiting, phase>>

\* The end of stop_with_control: the session is dropped, and its job with what still
\* runs in it, or put back with the errors that were met.
\* As EndStop would be if a session were not put back.
EndStopForgets(ok) ==
    /\ stop' = NoStop
    /\ AfterStop(ok)
    /\ sess' = 0
    /\ IF ok \/ exiting' = "final" THEN Killed(stop.of) ELSE UNCHANGED backendVars
EndStop(ok) ==
    /\ stop' = NoStop
    /\ AfterStop(ok)
    /\ sess' = IF ok THEN 0 ELSE stop.of
    /\ IF ok \/ exiting' = "final" THEN Killed(stop.of) ELSE UNCHANGED backendVars

\* The job is terminated, and later the tree killed by taskkill, if that does not fail.
ForcedStop(later) ==
    \/ Killed(stop.of) /\ stop' = [stop EXCEPT !.at = later]
    \/ UNCHANGED backendVars /\ stop' = [stop EXCEPT !.at = later, !.bad = TRUE]

\* It waits for an exit 20 seconds, 2 after the job was terminated and 2 after taskkill.
StopStep ==
    /\ stop.at # "no" /\ UNCHANGED <<gen, window, starts, monitors>>
    /\ \/ ~Up(stop.of) /\ EndStop(~stop.bad)
       \/ Up(stop.of) /\ stop.at = "killed" /\ EndStop(FALSE)
       \/ /\ Up(stop.of) /\ stop.at # "killed" /\ UNCHANGED <<sess, gate, step, exiting, phase>>
          /\ ForcedStop(IF stop.at = "asked" THEN "forced" ELSE "killed")

\* run_startup, when it has the gate.
EnterStartup ==
    /\ At("startup", "enter") /\ gen' = gen + 1
    /\ IF exiting # "no"
         THEN Leaves /\ UNCHANGED <<sess, stop, phase>>
         ELSE step' = "clearing" /\ UNCHANGED <<sess, stop, gate, phase>>
    /\ UNCHANGED <<exiting, window, starts, monitors, backendVars>>

StopFirst ==
    /\ At("startup", "clearing") \/ At("startup", "cleanup")
    /\ BeginStop /\ UNCHANGED <<gen, window, starts, monitors, orch, kids, crashed, port>>

\* startup_inner fails: what it started is stopped.
Fail == step' = "cleanup" /\ UNCHANGED <<sess, phase, backendVars>>
Adopt == /\ sess' = Foreign /\ phase' = "ready" /\ step' = "root" /\ UNCHANGED backendVars

\* spawn_owned: an orchestrator in a job of its own, or nothing if one of the two fails.
Spawn ==
    \/ Fail
    \/ /\ exiting = "no" /\ step' = "owned" /\ UNCHANGED phase
       /\ \E b \in Backends : /\ orch[b] = "none" /\ \A c \in 1..(b - 1) : orch[c] # "none"
                              /\ Spawned(b) /\ sess' = b

\* Its probes before and after the runtime is resolved; the exit is looked for after them.
Probe ==
    /\ At("startup", "probe1") \/ At("startup", "probe2")
    /\ UNCHANGED <<stop, gate, gen, exiting, window, starts, monitors>>
    /\ \E seen \in Probes :
         CASE seen = "ready" -> Adopt
           [] seen = "starting" -> step' = "existing" /\ UNCHANGED <<sess, phase, backendVars>>
           [] seen = "conflict" -> Fail
           [] seen = "nothing" /\ step = "probe1" ->
                Fail \/ (step' = "probe2" /\ UNCHANGED <<sess, phase, backendVars>>)
           [] OTHER -> Spawn

\* As NewMonitor would be if it were given the generation before the increment.
NewMonitorBefore == [gen |-> gen - 1, of |-> sess, misses |-> 0, reports |-> FALSE]
NewMonitor == [gen |-> gen, of |-> sess, misses |-> 0, reports |-> FALSE]

\* wait_for_existing_service, wait_for_owned_service and wait_for_app_root; each also
\* fails when the application exits, the backend has ended or 300 seconds are over.
Await ==
    /\ UNCHANGED <<stop, gen, exiting, starts>>
    /\ \/ /\ At("startup", "existing") /\ UNCHANGED <<gate, window, monitors>>
          /\ \/ "ready" \in Probes /\ exiting = "no" /\ Adopt
             \/ Fail
       \/ /\ At("startup", "owned") /\ UNCHANGED <<gate, window, monitors>>
          /\ \/ /\ exiting = "no" /\ Up(sess) /\ port = [by |-> sess, ready |-> TRUE]
                /\ phase' = "ready" /\ step' = "root" /\ UNCHANGED <<sess, backendVars>>
             \/ Fail
       \/ /\ At("startup", "root")
          /\ \/ /\ exiting = "no" /\ (sess \in Backends => Up(sess))
                /\ Leaves /\ window' = [window EXCEPT !.shows = "main"]
                /\ monitors' = monitors \cup {NewMonitor}
                /\ UNCHANGED <<sess, phase, backendVars>>
             \/ Fail /\ UNCHANGED <<gate, window, monitors>>

\* A monitor's round: it ends with its generation or its session; a process that has
\* exited, or MissLimit probes in a row that fail, start transition_backend_failure,
\* which advances the generation and then waits for the gate.
Concerns(m) == exiting = "no" /\ m.gen = gen
Monitor(m) ==
    /\ ~m.reports /\ UNCHANGED <<sess, stop, gate, step, exiting, phase, window, starts, backendVars>>
    /\ LET rest == monitors \ {m}
           missed == [m EXCEPT !.misses = @ + 1]
           lost == m.of \in Backends /\ sess \in Backends /\ ~Up(sess)
           report == /\ gen' = gen + 1
                     /\ monitors' = rest \cup {[m EXCEPT !.reports = TRUE]}
       IN  IF ~Concerns(m)
             THEN monitors' = rest /\ UNCHANGED gen
             ELSE CASE lost -> report
                    [] ~lost /\ sess # m.of -> monitors' = rest /\ UNCHANGED gen
                    [] OTHER ->
                         \/ /\ port.by # 0 /\ port.ready /\ (m.of = Foreign \/ port.by = m.of)
                            /\ monitors' = rest \cup {[m EXCEPT !.misses = 0]} /\ UNCHANGED gen
                         \/ IF missed.misses < MissLimit
                              THEN monitors' = rest \cup {missed} /\ UNCHANGED gen
                              ELSE report

Report(m) ==
    /\ m.reports /\ monitors' = monitors \ {m} /\ gate' = Append(gate, "failure")
    /\ UNCHANGED <<sess, stop, step, gen, exiting, phase, window, starts, backendVars>>

\* transition_backend_failure, when it has the gate: the splash window, if it can be
\* made, replaces the main one.
EnterFailure ==
    /\ At("failure", "enter") /\ UNCHANGED <<gen, starts, monitors, orch, kids, crashed, port>>
    /\ IF exiting # "no"
         THEN Leaves /\ UNCHANGED <<sess, stop, exiting, phase, window, told>>
         ELSE /\ window' \in {window, [window EXCEPT !.shows = "splash"]}
              /\ BeginStop

\* retry_startup and select_runtime, from the splash window only; the dialog outlives it.
AskStartup ==
    /\ starts < MaxStarts /\ exiting # "final"
    /\ UNCHANGED <<sess, stop, step, gen, exiting, phase, monitors, backendVars>>
    /\ \/ /\ window.shows = "splash" /\ gate' = Append(gate, "startup") /\ starts' = starts + 1
          /\ UNCHANGED window
       \/ /\ window.shows = "splash" /\ ~window.picking /\ window' = [window EXCEPT !.picking = TRUE]
          /\ UNCHANGED <<gate, starts>>
       \/ /\ window.picking /\ window' = [window EXCEPT !.picking = FALSE]
          /\ gate' = Append(gate, "startup") /\ starts' = starts + 1

\* install_exit_handler: the first request shuts down, when it has the gate.
AskExit ==
    /\ exiting = "no" /\ exiting' = "asked" /\ phase' = "stopping" /\ gate' = Append(gate, "exit")
    /\ UNCHANGED <<sess, stop, step, gen, window, starts, monitors, backendVars>>

EnterExit ==
    /\ At("exit", "enter") /\ UNCHANGED <<gen, window, starts, monitors, orch, kids, crashed, port>>
    /\ BeginStop

TauriNext ==
    /\ exiting # "final"
    /\ \/ StopStep \/ EnterStartup \/ StopFirst \/ Probe \/ Await \/ EnterFailure
       \/ AskStartup \/ AskExit \/ EnterExit
       \/ \E m \in monitors : Monitor(m) \/ Report(m)

\* Whatever the shell has started and still runs is its session or being stopped, so a
\* service it adopts as external is none of its own and no second backend is started
\* beside it; when it has exited none of its processes runs.
OwnedIsKnown ==
    \A b \in Backends : Alive(b) =>
        /\ sess = b \/ stop.of = b
        /\ exiting # "final"

\* A backend that is shown as ready is watched: by a monitor of the generation under
\* way, or by one that is just reporting it lost.
ReadyIsWatched ==
    phase = "ready" /\ gate = <<>> /\ exiting = "no" =>
        \E m \in monitors : m.reports \/ m.gen = gen

\* What a report of a lost backend stops is the backend it was about.  This does not
\* hold: see the README.
ReportsAreCurrent == \A m \in monitors : m.reports => sess \in {0, m.of} /\ stop.of \in {0, m.of}
=============================================================================
