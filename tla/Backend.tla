------------------------------ MODULE Backend ------------------------------
(***************************************************************************)
(* The processes a desktop shell starts (scripts/run_local_stream.py): an  *)
(* orchestrator, which starts the renderer, then the streamer and the      *)
(* optional workers, and stops them when it is told to or when one of the  *)
(* first two ends; and port 7860, which another program may hold.          *)
(***************************************************************************)
EXTENDS Integers, Sequences, FiniteSets

CONSTANT MaxBackends   \* bound: orchestrators a shell starts

ASSUME BackendAssumption == MaxBackends \in Nat

Backends == 1..MaxBackends
Foreign == MaxBackends + 1   \* a service, or another program, the shell did not start
Kids == {"renderer", "streamer", "worker"}

VARIABLES
    orch,     \* each orchestrator: none, warming, running, leaving, gone
    kids,     \* its child processes that run
    told,     \* whether its stop file exists
    crashed,  \* whether it ended without its finally block
    port      \* who listens on port 7860, and whether its health is ready

backendVars == <<orch, kids, told, crashed, port>>

BackendInit ==
    /\ orch = [b \in Backends |-> "none"] /\ kids = [b \in Backends |-> {}]
    /\ told = [b \in Backends |-> FALSE] /\ crashed = [b \in Backends |-> FALSE]
    /\ port \in {[by |-> 0, ready |-> FALSE], [by |-> Foreign, ready |-> TRUE]}

Up(b) == orch[b] \in {"warming", "running", "leaving"}
Alive(b) == Up(b) \/ kids[b] # {}

\* Of backend b's children these are left; a streamer that ends gives up the port.
\* As Left would be if the port outlived the streamer.
LeftListening(b, left) == kids' = [kids EXCEPT ![b] = left] /\ UNCHANGED port
Left(b, left) ==
    /\ kids' = [kids EXCEPT ![b] = left]
    /\ port' = IF port.by = b /\ "streamer" \notin left THEN [by |-> 0, ready |-> FALSE] ELSE port

\* The shell starts orchestrator b, which starts the renderer first.
Spawned(b) ==
    /\ orch' = [orch EXCEPT ![b] = "warming"] /\ kids' = [kids EXCEPT ![b] = {"renderer"}]
    /\ UNCHANGED <<told, crashed, port>>

\* The whole tree of b is killed.
Killed(b) == orch' = [orch EXCEPT ![b] = "gone"] /\ Left(b, {}) /\ UNCHANGED <<told, crashed>>

\* _start_feynobg, _start_cosyvoice: a worker that is enabled and installed is started; the
\* two are one here.
Optional == {{}, {"worker"}}

\* _wait_for_health: the renderer is healthy, or has exited, the stop file is there or
\* the time is over.
Warm(b) ==
    /\ orch[b] = "warming" /\ UNCHANGED <<told, crashed, port>>
    /\ \/ /\ "renderer" \in kids[b] /\ orch' = [orch EXCEPT ![b] = "running"]
          /\ \E more \in Optional : kids' = [kids EXCEPT ![b] = @ \cup {"streamer"} \cup more]
       \/ orch' = [orch EXCEPT ![b] = "leaving"] /\ UNCHANGED kids

\* The loop of main: a stop request, or an end of the renderer or the streamer.
Watch(b) ==
    /\ orch[b] = "running" /\ (told[b] \/ ~({"renderer", "streamer"} \subseteq kids[b]))
    /\ orch' = [orch EXCEPT ![b] = "leaving"] /\ UNCHANGED <<kids, told, crashed, port>>

\* The finally block of main terminates, and kills after 20 seconds, one child after the
\* other.
Rank == [streamer |-> 1, renderer |-> 2, worker |-> 3]
\* As Leave would be if the optional workers were not terminated.
LeaveWorker(b) ==
    /\ orch[b] = "leaving" /\ UNCHANGED <<told, crashed>>
    /\ LET mine == kids[b] \ {"worker"} IN
       IF mine = {}
         THEN orch' = [orch EXCEPT ![b] = "gone"] /\ UNCHANGED <<kids, port>>
         ELSE /\ Left(b, kids[b] \ {CHOOSE k \in mine : \A o \in mine : Rank[k] <= Rank[o]})
              /\ UNCHANGED orch
Leave(b) ==
    /\ orch[b] = "leaving" /\ UNCHANGED <<told, crashed>>
    /\ IF kids[b] = {}
         THEN orch' = [orch EXCEPT ![b] = "gone"] /\ UNCHANGED <<kids, port>>
         ELSE /\ Left(b, kids[b] \ {CHOOSE k \in kids[b] : \A o \in kids[b] : Rank[k] <= Rank[o]})
              /\ UNCHANGED orch

\* A child ends by itself, or the orchestrator does, without its finally block.
Dies(b) ==
    \/ \E k \in kids[b] : Left(b, kids[b] \ {k}) /\ UNCHANGED <<orch, told, crashed>>
    \/ /\ Up(b) /\ orch' = [orch EXCEPT ![b] = "gone"] /\ crashed' = [crashed EXCEPT ![b] = TRUE]
       /\ UNCHANGED <<kids, told, port>>

\* The streamer takes the port, and ends if it cannot; its health is starting, then ready.
Serve(b) ==
    /\ "streamer" \in kids[b] /\ UNCHANGED <<orch, told, crashed>>
    /\ \/ port.by = 0 /\ port' = [by |-> b, ready |-> FALSE] /\ UNCHANGED kids
       \/ port.by \notin {0, b} /\ Left(b, kids[b] \ {"streamer"})
       \/ port = [by |-> b, ready |-> FALSE] /\ port' = [port EXCEPT !.ready = TRUE] /\ UNCHANGED kids

\* External: a service the shell did not start comes and goes.
OtherService ==
    /\ \/ port.by = 0 /\ port' = [by |-> Foreign, ready |-> FALSE]
       \/ port.by = Foreign /\ port' \in {[by |-> Foreign, ready |-> TRUE], [by |-> 0, ready |-> FALSE]}
    /\ UNCHANGED <<orch, kids, told, crashed>>

BackendNext ==
    OtherService \/ \E b \in Backends : Warm(b) \/ Watch(b) \/ Leave(b) \/ Dies(b) \/ Serve(b)

\* probe_avtr_service: a request may time out whoever listens; who is not an AVTR
\* service or answers with an error is a conflict.
Probes == {"nothing"} \cup
          IF port.by = 0 THEN {} ELSE {"conflict", IF port.ready THEN "ready" ELSE "starting"}

\* An orchestrator that ends through its finally block leaves no child behind.
ChildrenGoFirst == \A b \in Backends : orch[b] = "gone" /\ ~crashed[b] => kids[b] = {}
=============================================================================
