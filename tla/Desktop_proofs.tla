--------------------------- MODULE Desktop_proofs ---------------------------
(***************************************************************************)
(* Proofs about the desktop shells and the processes they start, for any   *)
(* number of orchestrators, startups and monitors: what a shell runs it    *)
(* knows and will stop, an orchestrator that ends leaves no child behind,  *)
(* and a backend that Tauri shows as ready is watched.                     *)
(***************************************************************************)
EXTENDS Desktop, TLAPS, SequenceTheorems, FiniteSetTheorems

Tasks == {"startup", "failure", "exit"}
Stages == {"enter", "clearing", "probe1", "probe2", "existing", "owned", "root", "cleanup"}

(***************************************************************************)
(* The invariant.                                                          *)
(***************************************************************************)

\* The processes.  Who has not been started has no children.
BackendInv ==
    /\ orch \in [Backends -> {"none", "warming", "running", "leaving", "gone"}]
    /\ kids \in [Backends -> SUBSET Kids]
    /\ crashed \in [Backends -> BOOLEAN]
    /\ port \in [by : 0..Foreign, ready : BOOLEAN]
    /\ port.by \in Backends => "streamer" \in kids[port.by]
    /\ \A b \in Backends : orch[b] = "none" => kids[b] = {}
    /\ ChildrenGoFirst

MonitorState == [gen : Nat, of : 0..Foreign, misses : Nat, reports : BOOLEAN]
TauriTypes ==
    /\ sess \in 0..Foreign /\ gen \in Nat
    /\ stop \in [at : {"no", "asked", "forced", "killed"}, of : 0..MaxBackends, bad : BOOLEAN]
    /\ gate \in Seq(Tasks) /\ step \in Stages
    /\ exiting \in {"no", "asked", "final"}
    /\ starts \in 1..MaxStarts
    /\ monitors \subseteq MonitorState /\ \A m \in monitors : m.gen \in 0..gen

\* Only a startup that holds the gate is past its entry; while a backend is stopped there
\* is no session, nor is there one while a startup looks for a service.
HolderKnows ==
    /\ gate = <<>> \/ Head(gate) # "startup" => step = "enter"
    /\ stop.at = "no" => stop = NoStop
    /\ stop.at # "no" =>
          /\ gate # <<>> /\ sess = 0 /\ stop.of \in Backends /\ exiting # "final"
          /\ Head(gate) = "startup" => step \in {"clearing", "cleanup"}
    /\ step \in {"probe1", "probe2", "existing"} => sess = 0

\* Each startup asked for enters once and makes one monitor, which reports once.
Turns(g) == {i \in 1..Len(g) : g[i] = "startup"}
Entered == IF step # "enter" THEN 1 ELSE 0
Watching == IF \E m \in monitors : ~m.reports /\ m.gen = gen THEN 1 ELSE 0
GenerationsCounted == gen + 2 * Cardinality(Turns(gate)) + Watching <= 2 * starts + Entered

\* The monitor of the generation under way is about the session.
Watched ==
    phase = "ready" /\ gate = <<>> /\ exiting = "no" =>
        \E m \in monitors : m.reports \/ (m.gen = gen /\ m.of = sess)

TauriInv == TauriTypes /\ HolderKnows /\ GenerationsCounted /\ Watched

ElectronTypes ==
    /\ held \in 0..Foreign /\ child \in 0..MaxBackends
    /\ startup \in [at : {"begin", "idle", "clearing", "probe", "waiting", "polled", "loading",
                          "ending", "catching", "recatch", "failed"},
                    of : 0..MaxBackends, aborted : BOOLEAN]
    /\ stops \in [Backends -> {"no", "asked", "killed", "exited", "failed"}]
    /\ quit \in [at : {"no", "waiting", "stopping", "ending", "done"}, of : 0..MaxBackends]
    /\ exited \subseteq Backends /\ survivor \in BOOLEAN
    /\ startup.at \in {"waiting", "polled", "ending"} => startup.of \in Backends
    /\ startup.at \in {"clearing", "catching", "recatch"} /\ quit.at # "done" =>
          held \in Backends
    /\ startup.at = "probe" => held \notin Backends
    /\ quit.at = "stopping" => quit.of \in Backends

\* A child whose exit was handled has ended; a stop ends with that exit, or fails.
StopsEnd ==
    /\ \A b \in exited : orch[b] = "gone" /\ stops[b] \notin {"asked", "killed"}
    /\ \A b \in Backends : stops[b] = "exited" => b \in exited
    /\ \A b \in Backends : stops[b] = "failed" => survivor

\* What the shell knows of or stops was started.
StartedOnly ==
    \A b \in Backends :
        b \in {held, child, startup.of, quit.of} \/ stops[b] # "no" => orch[b] # "none"

\* What was started is the child unless its exit was handled, and the child is the session,
\* or the startup under way waits for it or has it stopped.
Tends == startup.at \in {"waiting", "polled", "ending"}
ChildIsHeld ==
    quit.at # "done" =>
        /\ \A b \in Backends : orch[b] # "none" => b = child \/ b \in exited
        /\ child \in Backends =>
              /\ child \notin exited
              /\ held = child \/ (Tends /\ startup.of = child)
              /\ Tends => startup.of = child
              /\ startup.at \notin {"probe", "recatch", "failed"}

\* What a stop is awaited of is being stopped, and when the shell quits nothing runs.
QuitStops ==
    /\ quit.at = "stopping" =>
          /\ stops[quit.of] # "no"
          /\ quit.of \notin exited => held = quit.of /\ startup.at \in {"idle", "clearing"}
          /\ quit.of \in exited => \A b \in Backends : ~Up(b)
    /\ quit.at \in {"ending", "done"} => \A b \in Backends : ~Up(b)
    /\ startup.at = "ending" => stops[startup.of] # "no"
    /\ startup.at \in {"clearing", "catching"} /\ quit.at # "done" => stops[held] # "no"
    /\ startup.at # "recatch"

\* Unless a child has outlived its taskkill.
ElectronInv ==
    ElectronTypes /\ StopsEnd /\ StartedOnly /\ (survivor \/ (ChildIsHeld /\ QuitStops))

\* One of the shells is at work; the other one's state is as it was at first.
DesktopInv ==
    /\ shell \in {"tauri", "electron"}
    /\ BackendInv /\ TauriInv /\ ElectronTypes
    /\ shell = "tauri" => OwnedIsKnown /\ quit.at = "no"
    /\ shell = "electron" => ElectronInv /\ exiting = "no"

-----------------------------------------------------------------------------
(***************************************************************************)
(* The processes.                                                          *)
(***************************************************************************)

\* Nothing new runs, and what has ended has ended for good.
Quieter ==
    \A b \in Backends :
        /\ Alive(b)' => Alive(b)
        /\ Up(b)' => Up(b)
        /\ orch[b] = "gone" => orch'[b] = "gone"

\* Nor is anything started.
Steady == \A b \in Backends : orch'[b] = "none" <=> orch[b] = "none"

LEMMA NobodyIsNone == 0 \notin Backends /\ Foreign \notin Backends /\ Backends \subseteq 0..Foreign
    BY BackendAssumption DEF Backends, Foreign

\* A stop file changes nothing but what it tells.
LEMMA SameKeeps ==
    ASSUME BackendInv, UNCHANGED <<orch, kids, crashed, port>>
    PROVE  BackendInv' /\ Quieter /\ Steady
    BY DEF BackendInv, Quieter, Steady, Alive, Up, ChildrenGoFirst

\* Fewer children of b are left, and no fewer than none if it has ended well.
LEMMA LeftKeeps ==
    ASSUME BackendInv, NEW b \in Backends, NEW left \in SUBSET kids[b], Left(b, left)
    PROVE  /\ kids' = [kids EXCEPT ![b] = left]
           /\ kids' \in [Backends -> SUBSET Kids]
           /\ port' \in [by : 0..Foreign, ready : BOOLEAN]
           /\ port'.by \in Backends => "streamer" \in kids'[port'.by]
<1>1. kids' = [kids EXCEPT ![b] = left] /\ kids \in [Backends -> SUBSET Kids]
    BY DEF Left, BackendInv
<1>2. kids' \in [Backends -> SUBSET Kids]
    BY <1>1
<1>3. CASE port.by = b /\ "streamer" \notin left
  <2>1. port' = [by |-> 0, ready |-> FALSE]
      BY <1>3 DEF Left
  <2> QED
      BY <1>1, <1>2, <2>1, NobodyIsNone, BackendAssumption DEF Foreign
<1>4. CASE ~(port.by = b /\ "streamer" \notin left)
  <2>1. port' = port
      BY <1>4 DEF Left
  <2> QED
      BY <1>1, <1>2, <1>4, <2>1 DEF BackendInv
<1> QED
    BY <1>3, <1>4

\* A kill takes the children too.
LEMMA KilledKeeps ==
    ASSUME BackendInv, NEW b \in Backends, Killed(b)
    PROVE  BackendInv' /\ Quieter /\ ~Alive(b)' /\ ~Up(b)'
           /\ (orch[b] # "none" => Steady)
<1>1. Left(b, {}) /\ orch' = [orch EXCEPT ![b] = "gone"] /\ UNCHANGED crashed
    BY DEF Killed
<1>2. /\ kids' = [kids EXCEPT ![b] = {}]
      /\ kids' \in [Backends -> SUBSET Kids]
      /\ port' \in [by : 0..Foreign, ready : BOOLEAN]
      /\ port'.by \in Backends => "streamer" \in kids'[port'.by]
    BY <1>1, LeftKeeps
<1>3. BackendInv'
    BY <1>1, <1>2 DEF BackendInv, ChildrenGoFirst
<1>4. Quieter /\ ~Alive(b)' /\ ~Up(b)' /\ (orch[b] # "none" => Steady)
    BY <1>1, <1>2 DEF BackendInv, Quieter, Steady, Alive, Up
<1> QED
    BY <1>3, <1>4

\* A start is of an orchestrator that did not run, and of no other.
LEMMA SpawnedKeeps ==
    ASSUME BackendInv, NEW b \in Backends, orch[b] = "none", Spawned(b)
    PROVE  /\ BackendInv' /\ orch'[b] = "warming"
           /\ \A c \in Backends \ {b} : orch'[c] = orch[c] /\ kids'[c] = kids[c]
<1>1. /\ orch' = [orch EXCEPT ![b] = "warming"] /\ kids' = [kids EXCEPT ![b] = {"renderer"}]
      /\ UNCHANGED <<crashed, port>> /\ kids[b] = {}
    BY DEF Spawned, BackendInv
<1>2. kids' \in [Backends -> SUBSET Kids] /\ orch' \in [Backends -> {"none", "warming", "running", "leaving", "gone"}]
    BY <1>1 DEF BackendInv, Kids
<1>3. port'.by \in Backends => "streamer" \in kids'[port'.by]
    BY <1>1 DEF BackendInv
<1> QED
    BY <1>1, <1>2, <1>3 DEF BackendInv, ChildrenGoFirst

\* The orchestrator moves on, and its children do not; it ends without them only if it
\* crashes.
LEMMA OrchMoves ==
    ASSUME BackendInv, NEW b \in Backends, NEW s, orch' = [orch EXCEPT ![b] = s],
           UNCHANGED <<kids, port>>, crashed' \in [Backends -> BOOLEAN],
           \A c \in Backends \ {b} : crashed'[c] = crashed[c],
           \/ s = "leaving" /\ orch[b] \in {"warming", "running"} /\ UNCHANGED crashed
           \/ s = "gone" /\ Up(b) /\ (kids[b] = {} \/ crashed'[b])
    PROVE  BackendInv' /\ Quieter /\ Steady
<1>1. orch' \in [Backends -> {"none", "warming", "running", "leaving", "gone"}]
    BY DEF BackendInv
<1>2. BackendInv'
    BY <1>1 DEF BackendInv, ChildrenGoFirst, Up
<1>3. Quieter /\ Steady
    BY <1>1 DEF BackendInv, Quieter, Steady, Alive, Up
<1> QED
    BY <1>2, <1>3

\* Children of b end, and nothing else happens.
LEMMA ChildEnds ==
    ASSUME BackendInv, NEW b \in Backends, NEW k, Left(b, kids[b] \ {k}), UNCHANGED <<orch, crashed>>
    PROVE  BackendInv' /\ Quieter /\ Steady
<1> DEFINE left == kids[b] \ {k}
<1>1. left \in SUBSET kids[b]
    OBVIOUS
<1> HIDE DEF left
<1>2. /\ kids' = [kids EXCEPT ![b] = left]
      /\ kids' \in [Backends -> SUBSET Kids]
      /\ port' \in [by : 0..Foreign, ready : BOOLEAN]
      /\ port'.by \in Backends => "streamer" \in kids'[port'.by]
    BY <1>1, LeftKeeps DEF left
<1>3. BackendInv'
    BY <1>1, <1>2 DEF BackendInv, ChildrenGoFirst
<1>4. Quieter /\ Steady
    BY <1>1, <1>2 DEF BackendInv, Quieter, Steady, Alive, Up
<1> QED
    BY <1>3, <1>4

\* What the processes do by themselves starts none of them.
LEMMA BackendNextKeeps ==
    ASSUME BackendInv, BackendNext
    PROVE  BackendInv' /\ Quieter /\ Steady
<1>1. CASE OtherService
  <2>1. UNCHANGED <<orch, kids, crashed>> /\ port' \in [by : {0, Foreign}, ready : BOOLEAN]
    <3>1. UNCHANGED <<orch, kids, crashed>>
        BY <1>1 DEF OtherService
    <3>2. \/ port' = [by |-> Foreign, ready |-> FALSE]
          \/ port' = [by |-> Foreign, ready |-> TRUE]
          \/ port' = [by |-> 0, ready |-> FALSE]
        BY <1>1, Zenon DEF OtherService
    <3>3. \A p \in {0, Foreign}, r \in BOOLEAN :
             [by |-> p, ready |-> r] \in [by : {0, Foreign}, ready : BOOLEAN]
        OBVIOUS
    <3> QED
        BY <3>1, <3>2, <3>3
  <2>2. port' \in [by : 0..Foreign, ready : BOOLEAN] /\ port'.by \notin Backends
      BY <2>1, NobodyIsNone, BackendAssumption DEF Foreign
  <2>3. BackendInv'
      BY <2>1, <2>2 DEF BackendInv, ChildrenGoFirst
  <2> QED
      BY <2>1, <2>3 DEF Quieter, Steady, Alive, Up
<1>2. ASSUME NEW b \in Backends, Warm(b)
      PROVE  BackendInv' /\ Quieter /\ Steady
  <2>1. CASE orch' = [orch EXCEPT ![b] = "leaving"] /\ UNCHANGED kids
      BY <1>2, <2>1, OrchMoves DEF Warm, BackendInv
  <2>2. CASE /\ orch' = [orch EXCEPT ![b] = "running"]
             /\ \E more \in Optional : kids' = [kids EXCEPT ![b] = @ \cup {"streamer"} \cup more]
    <3>1. PICK more \in Optional : kids' = [kids EXCEPT ![b] = @ \cup {"streamer"} \cup more]
        BY <2>2
    <3>2. kids' \in [Backends -> SUBSET Kids] /\ \A c \in Backends : kids[c] \subseteq kids'[c]
        BY <3>1 DEF BackendInv, Kids, Optional
    <3>3. \A c \in Backends \ {b} : kids'[c] = kids[c]
        BY <3>1 DEF BackendInv
    <3>4. orch[b] = "warming" /\ UNCHANGED <<crashed, port>>
        BY <1>2 DEF Warm
    <3>5. /\ orch' \in [Backends -> {"none", "warming", "running", "leaving", "gone"}]
          /\ orch'[b] = "running" /\ \A c \in Backends \ {b} : orch'[c] = orch[c]
        BY <2>2 DEF BackendInv
    <3>6. BackendInv'
        BY <3>2, <3>3, <3>4, <3>5 DEF BackendInv, ChildrenGoFirst
    <3> QED
        BY <3>3, <3>4, <3>5, <3>6 DEF Quieter, Steady, Alive, Up
  <2> QED
      BY <1>2, <2>1, <2>2 DEF Warm
<1>3. ASSUME NEW b \in Backends, Watch(b)
      PROVE  BackendInv' /\ Quieter /\ Steady
    BY <1>3, OrchMoves DEF Watch, BackendInv
<1>4. ASSUME NEW b \in Backends, Leave(b)
      PROVE  BackendInv' /\ Quieter /\ Steady
  <2>1. CASE kids[b] = {}
    <3>1. /\ orch' = [orch EXCEPT ![b] = "gone"] /\ orch[b] = "leaving"
          /\ UNCHANGED <<kids, port, crashed>>
        BY <1>4, <2>1 DEF Leave
    <3> QED
        BY <2>1, <3>1, OrchMoves DEF BackendInv, Up
  <2>2. CASE kids[b] # {}
      BY <1>4, <2>2, ChildEnds DEF Leave
  <2> QED
      BY <2>1, <2>2
<1>5. ASSUME NEW b \in Backends, Dies(b)
      PROVE  BackendInv' /\ Quieter /\ Steady
  <2>1. CASE \E k \in kids[b] : Left(b, kids[b] \ {k}) /\ UNCHANGED <<orch, told, crashed>>
      BY <2>1, ChildEnds
  <2>2. CASE /\ Up(b) /\ orch' = [orch EXCEPT ![b] = "gone"] /\ crashed' = [crashed EXCEPT ![b] = TRUE]
             /\ UNCHANGED <<kids, told, port>>
    <3>1. /\ crashed' \in [Backends -> BOOLEAN] /\ crashed'[b]
          /\ \A c \in Backends \ {b} : crashed'[c] = crashed[c]
        BY <2>2 DEF BackendInv
    <3> QED
        BY <2>2, <3>1, OrchMoves
  <2> QED
      BY <1>5, <2>1, <2>2 DEF Dies
<1>6. ASSUME NEW b \in Backends, Serve(b)
      PROVE  BackendInv' /\ Quieter /\ Steady
  <2>1. CASE Left(b, kids[b] \ {"streamer"})
      BY <1>6, <2>1, ChildEnds DEF Serve
  <2>2. CASE UNCHANGED kids /\ port' \in [by : {b}, ready : BOOLEAN]
    <3>1. UNCHANGED <<orch, crashed, kids>> /\ "streamer" \in kids[b]
        BY <1>6, <2>2 DEF Serve
    <3>2. port' \in [by : 0..Foreign, ready : BOOLEAN] /\ port'.by = b
        BY <2>2, NobodyIsNone
    <3>3. BackendInv'
        BY <3>1, <3>2 DEF BackendInv, ChildrenGoFirst
    <3> QED
        BY <3>1, <3>3 DEF Quieter, Steady, Alive, Up
  <2>3. CASE port = [by |-> b, ready |-> FALSE] /\ port' = [port EXCEPT !.ready = TRUE] /\ UNCHANGED kids
      BY <2>2, <2>3
  <2>4. CASE port' = [by |-> b, ready |-> FALSE] /\ UNCHANGED kids
      BY <2>2, <2>4
  <2> QED
      BY <1>6, <2>1, <2>3, <2>4 DEF Serve
<1> QED
    BY <1>1, <1>2, <1>3, <1>4, <1>5, <1>6 DEF BackendNext

-----------------------------------------------------------------------------
(***************************************************************************)
(* The startup gate of the Tauri shell: its turns and its generations.     *)
(***************************************************************************)

LEMMA TurnsAreFinite ==
    ASSUME NEW g \in Seq(Tasks)
    PROVE  IsFiniteSet(Turns(g)) /\ Cardinality(Turns(g)) \in Nat
<1>1. Len(g) \in Nat
    BY LenProperties
<1>2. IsFiniteSet(1..Len(g))
    BY <1>1, FS_Interval
<1>3. Turns(g) \subseteq 1..Len(g)
    BY DEF Turns
<1> QED
    BY <1>2, <1>3, FS_Subset, FS_CardinalityType

\* Who waits comes last, and a startup that waits is one more turn.
LEMMA GateGrows ==
    ASSUME NEW g \in Seq(Tasks), NEW t \in Tasks
    PROVE  /\ Append(g, t) \in Seq(Tasks) /\ Append(g, t) # <<>>
           /\ Head(Append(g, t)) = IF g = <<>> THEN t ELSE Head(g)
           /\ Cardinality(Turns(Append(g, t))) =
                 Cardinality(Turns(g)) + IF t = "startup" THEN 1 ELSE 0
<1> DEFINE h == Append(g, t)
<1>1. /\ Len(g) \in Nat /\ h \in Seq(Tasks) /\ Len(h) = Len(g) + 1 /\ h[Len(g) + 1] = t
      /\ \A i \in 1..Len(g) : h[i] = g[i]
    BY LenProperties, AppendProperties
<1> HIDE DEF h
<1>2. h # <<>> /\ Head(h) = h[1]
    BY <1>1, EmptySeq, HeadTailProperties
<1>3. Head(h) = IF g = <<>> THEN t ELSE Head(g)
  <2>1. CASE g = <<>>
      BY <1>1, <1>2, <2>1, EmptySeq
  <2>2. CASE g # <<>>
    <3>1. Len(g) # 0 /\ Head(g) = g[1]
        BY <2>2, EmptySeq, HeadTailProperties
    <3> QED
        BY <1>1, <1>2, <2>2, <3>1
  <2> QED
      BY <2>1, <2>2
<1>4. Len(g) + 1 \notin Turns(g)
    BY <1>1 DEF Turns
<1>5. CASE t = "startup"
  <2>1. Turns(h) = Turns(g) \cup {Len(g) + 1}
      BY <1>1, <1>5 DEF Turns
  <2>2. Cardinality(Turns(h)) = Cardinality(Turns(g)) + 1
      BY <1>4, <2>1, TurnsAreFinite, FS_AddElement
  <2> QED
      BY <1>1, <1>2, <1>3, <1>5, <2>2 DEF h
<1>6. CASE t # "startup"
  <2>1. Turns(h) = Turns(g)
      BY <1>1, <1>6 DEF Turns
  <2> QED
      BY <1>1, <1>2, <1>3, <1>6, <2>1, TurnsAreFinite DEF h
<1> QED
    BY <1>5, <1>6

\* Who leaves was first, and the turns of the others are left.
LEMMA GateMoves ==
    ASSUME NEW g \in Seq(Tasks), g # <<>>
    PROVE  /\ Tail(g) \in Seq(Tasks) /\ Head(g) \in Tasks
           /\ Cardinality(Turns(Tail(g))) <= Cardinality(Turns(g))
           /\ Head(g) = "startup" => Cardinality(Turns(Tail(g))) < Cardinality(Turns(g))
<1> DEFINE h == Tail(g)
<1>1. /\ Len(g) \in Nat \ {0} /\ h \in Seq(Tasks) /\ Len(h) = Len(g) - 1
      /\ Head(g) = g[1] /\ Head(g) \in Tasks
      /\ \A i \in 1..Len(h) : h[i] = g[i + 1]
    BY LenProperties, EmptySeq, HeadTailProperties
<1> HIDE DEF h
<1> DEFINE rest == Turns(g) \ {1}
           f == [i \in Turns(h) |-> i + 1]
<1>2. IsFiniteSet(rest) /\ Cardinality(rest) \in Nat
    BY TurnsAreFinite, FS_Subset, FS_CardinalityType
<1>3. f \in [Turns(h) -> rest]
  <2> SUFFICES ASSUME NEW i \in Turns(h) PROVE i + 1 \in rest
      OBVIOUS
  <2> QED
      BY <1>1 DEF Turns
<1>4. IsInjective(f)
    BY <1>1 DEF IsInjective, Turns
<1>5. f \in Injection(Turns(h), rest)
    BY <1>3, <1>4 DEF Injection
<1> HIDE DEF f
<1>6. Cardinality(Turns(h)) <= Cardinality(rest)
    BY <1>2, <1>5, FS_Injection
<1> HIDE DEF rest
<1>7. Cardinality(Turns(h)) \in Nat /\ Cardinality(Turns(g)) \in Nat
    BY <1>1, TurnsAreFinite
<1>8. Cardinality(rest) = IF 1 \in Turns(g) THEN Cardinality(Turns(g)) - 1 ELSE Cardinality(Turns(g))
    BY TurnsAreFinite, FS_RemoveElement DEF rest
<1>9. Head(g) = "startup" => 1 \in Turns(g)
    BY <1>1 DEF Turns
<1>10. Cardinality(Turns(h)) <= Cardinality(Turns(g))
    BY <1>2, <1>6, <1>7, <1>8
<1>11. ASSUME Head(g) = "startup"
       PROVE  Cardinality(Turns(h)) < Cardinality(Turns(g))
    BY <1>2, <1>6, <1>7, <1>8, <1>9, <1>11
<1> QED
    BY <1>1, <1>10, <1>11 DEF h

LEMMA WatchingCounts == Watching \in {0, 1} /\ Entered \in {0, 1}
    BY DEF Watching, Entered

\* While no generation begins, who watches has watched before; a new one is not watched
\* yet.
LEMMA WatchingFalls ==
    ASSUME gen' = gen,
           \A m \in monitors' : ~m.reports /\ m.gen = gen =>
              \E n \in monitors : ~n.reports /\ n.gen = gen
    PROVE  Watching' <= Watching
<1>1. CASE \E m \in monitors' : ~m.reports /\ m.gen = gen
    BY <1>1 DEF Watching
<1>2. CASE ~ \E m \in monitors' : ~m.reports /\ m.gen = gen
  <2>1. Watching' = 0
      BY <1>2 DEF Watching
  <2> QED
      BY <2>1, WatchingCounts
<1> QED
    BY <1>1, <1>2

LEMMA NewGeneration ==
    ASSUME gen' = gen + 1, gen \in Nat, \A m \in monitors' : m.gen \in 0..gen \/ m.reports
    PROVE  Watching' = 0
    BY DEF Watching

-----------------------------------------------------------------------------
(***************************************************************************)
(* The steps of the Tauri shell.                                           *)
(***************************************************************************)

TauriSound == BackendInv /\ TauriInv /\ OwnedIsKnown

LEMMA NumbersAreNatural ==
    ASSUME TauriTypes
    PROVE  gen \in Nat /\ starts \in Nat /\ Cardinality(Turns(gate)) \in Nat
    BY TurnsAreFinite, TauriAssumption DEF TauriTypes

LEMMA CountsLeaving ==
    ASSUME TauriTypes, HolderKnows, GenerationsCounted, gate # <<>>, Leaves,
           starts' = starts, gen' \in Nat,
           \/ gen' + Watching' <= gen + Watching
           \/ Head(gate) = "startup" /\ gen' + Watching' <= gen + Watching + 1
    PROVE  GenerationsCounted'
<1> DEFINE c == Cardinality(Turns(gate))
           d == Cardinality(Turns(Tail(gate)))
<1>1. /\ c \in Nat /\ d \in Nat /\ d <= c /\ (Head(gate) = "startup" => d < c)
      /\ gen \in Nat /\ starts \in Nat
  <2>1. gate \in Seq(Tasks)
      BY DEF TauriTypes
  <2>2. Tail(gate) \in Seq(Tasks) /\ d <= c /\ (Head(gate) = "startup" => d < c)
      BY <2>1, GateMoves
  <2>3. d \in Nat
      BY <2>2, TurnsAreFinite
  <2> QED
      BY <2>2, <2>3, NumbersAreNatural
<1>2. Turns(gate') = Turns(Tail(gate)) /\ Entered' = 0
    BY DEF Leaves, Entered
<1>3. Entered = 1 => Head(gate) = "startup"
    BY DEF HolderKnows, Entered
<1>4. Watching \in {0, 1} /\ Entered \in {0, 1}
    BY WatchingCounts
<1>5. Watching' \in {0, 1}
    BY DEF Watching
<1>6. gen + 2 * c + Watching <= 2 * starts + Entered
    BY DEF GenerationsCounted
<1> HIDE DEF c, d
<1>7. gen' + 2 * d + Watching' <= 2 * starts
  <2> DEFINE w == Watching
             v == Watching'
             e == Entered
             h == gen'
  <2>1. /\ w \in {0, 1} /\ e \in {0, 1} /\ v \in {0, 1} /\ h \in Nat
        /\ gen + 2 * c + w <= 2 * starts + e
        /\ h + v <= gen + w \/ (Head(gate) = "startup" /\ h + v <= gen + w + 1)
        /\ e = 1 => Head(gate) = "startup"
      BY <1>3, <1>4, <1>5, <1>6
  <2> HIDE DEF w, v, e, h
  <2>2. h + 2 * d + v <= 2 * starts
    <3>1. CASE Head(gate) = "startup"
      <4>1. h + v <= gen + w + 1 /\ d + 1 <= c
          BY <1>1, <2>1, <3>1
      <4> QED
          BY ONLY <1>1, <2>1, <4>1
    <3>2. CASE Head(gate) # "startup"
      <4>1. e = 0 /\ h + v <= gen + w /\ d <= c
          BY <1>1, <2>1, <3>2
      <4> QED
          BY ONLY <1>1, <2>1, <4>1
    <3> QED
        BY ONLY <3>1, <3>2
  <2> QED
      BY <2>2 DEF v, h
<1> QED
    BY <1>1, <1>2, <1>7 DEF GenerationsCounted, d

LEMMA CountsStaying ==
    ASSUME TauriTypes, GenerationsCounted, UNCHANGED <<gate, starts>>, gen' \in Nat,
           gen' + Watching' + Entered <= gen + Watching + Entered'
    PROVE  GenerationsCounted'
<1> DEFINE c == Cardinality(Turns(gate))
<1>1. c \in Nat /\ gen \in Nat /\ starts \in Nat
    BY NumbersAreNatural
<1>2. Watching \in {0, 1} /\ Entered \in {0, 1}
    BY WatchingCounts
<1>3. Watching' \in {0, 1} /\ Entered' \in {0, 1}
    BY DEF Watching, Entered
<1>4. gen + 2 * c + Watching <= 2 * starts + Entered
    BY DEF GenerationsCounted
<1>5. Turns(gate') = Turns(gate)
    OBVIOUS
<1> HIDE DEF c
<1>6. gen' + 2 * c + Watching' <= 2 * starts + Entered'
  <2> DEFINE w == Watching
             v == Watching'
             e == Entered
             f == Entered'
             h == gen'
  <2>1. /\ w \in {0, 1} /\ e \in {0, 1} /\ v \in {0, 1} /\ f \in {0, 1} /\ h \in Nat
        /\ gen + 2 * c + w <= 2 * starts + e /\ h + v + e <= gen + w + f
      BY <1>2, <1>3, <1>4
  <2> HIDE DEF w, v, e, f, h
  <2>2. h + 2 * c + v <= 2 * starts + f
      BY ONLY <1>1, <2>1
  <2> QED
      BY <2>2 DEF v, f, h
<1> QED
    BY <1>1, <1>5, <1>6 DEF GenerationsCounted, c

LEMMA CountsGrowing ==
    ASSUME TauriTypes, GenerationsCounted, NEW t \in Tasks, gate' = Append(gate, t),
           starts' = starts + IF t = "startup" THEN 1 ELSE 0,
           UNCHANGED <<step, gen>>, Watching' <= Watching
    PROVE  GenerationsCounted'
<1> DEFINE c == Cardinality(Turns(gate))
           d == Cardinality(Turns(Append(gate, t)))
           new == IF t = "startup" THEN 1 ELSE 0
<1>1. c \in Nat /\ gen \in Nat /\ starts \in Nat /\ d = c + new
  <2>1. gate \in Seq(Tasks)
      BY DEF TauriTypes
  <2> QED
      BY <2>1, GateGrows, NumbersAreNatural
<1>2. Watching \in {0, 1} /\ Entered \in {0, 1} /\ new \in {0, 1}
    BY WatchingCounts
<1>3. Watching' \in {0, 1} /\ Entered' = Entered
    BY DEF Watching, Entered
<1>4. gen + 2 * c + Watching <= 2 * starts + Entered
    BY DEF GenerationsCounted
<1>5. Turns(gate') = Turns(Append(gate, t)) /\ starts' = starts + new
    OBVIOUS
<1> HIDE DEF c, d, new
<1>6. gen + 2 * d + Watching' <= 2 * (starts + new) + Entered
  <2> DEFINE w == Watching
             v == Watching'
             e == Entered
  <2>1. /\ w \in {0, 1} /\ e \in {0, 1} /\ v \in {0, 1} /\ v <= w
        /\ gen + 2 * c + w <= 2 * starts + e
      BY <1>2, <1>3, <1>4
  <2> HIDE DEF w, v, e
  <2>2. gen + 2 * d + v <= 2 * (starts + new) + e
      BY ONLY <1>1, <1>2, <2>1
  <2> QED
      BY <2>2 DEF v, e
<1> QED
    BY <1>3, <1>5, <1>6 DEF GenerationsCounted, d

\* What nobody of the shell's fields tells of stays.
LEMMA WatchingStays ==
    ASSUME UNCHANGED <<gen, monitors>>
    PROVE  Watching' = Watching
    BY DEF Watching

\* A stop is over, and who asked for it goes on, or leaves the gate with nothing shown as
\* ready.
LEMMA StopOver ==
    ASSUME TauriInv, gate # <<>>, NEW ok \in BOOLEAN, AfterStop(ok), exiting # "final",
           stop' = NoStop, sess' \in 0..Foreign, ok => sess' = 0,
           UNCHANGED <<gen, starts, monitors>>
    PROVE  TauriInv'
<1>1. TauriTypes /\ HolderKnows /\ GenerationsCounted
    BY DEF TauriInv
<1>2. gen \in Nat /\ Watching' = Watching /\ Watching \in Nat
    BY <1>1, WatchingStays, WatchingCounts DEF TauriTypes
<1>3. CASE /\ Holds("startup") /\ step = "clearing" /\ ok /\ step' = "probe1"
           /\ phase' = "starting" /\ UNCHANGED <<gate, exiting>>
  <2>1. TauriTypes'
    <3>1. stop' \in [at : {"no", "asked", "forced", "killed"}, of : 0..MaxBackends, bad : BOOLEAN]
        BY BackendAssumption DEF NoStop
    <3> QED
        BY <1>1, <1>3, <3>1 DEF TauriTypes, Stages
  <2>2. HolderKnows'
      BY <1>3 DEF HolderKnows, Holds, NoStop
  <2>3. Entered' = Entered /\ Entered \in Nat
      BY <1>3, WatchingCounts DEF Entered
  <2>4. GenerationsCounted'
      BY <1>1, <1>2, <1>3, <2>3, CountsStaying
  <2> QED
      BY <1>3, <2>1, <2>2, <2>4 DEF TauriInv, Watched
<1>4. CASE /\ Leaves /\ exiting' \in {"no", "asked", "final"}
           /\ phase' # "ready" \/ exiting' # "no"
  <2>1. gate' \in Seq(Tasks) /\ step' = "enter"
      BY <1>1, <1>4, GateMoves DEF Leaves, TauriTypes
  <2>2. TauriTypes'
    <3>1. stop' \in [at : {"no", "asked", "forced", "killed"}, of : 0..MaxBackends, bad : BOOLEAN]
        BY BackendAssumption DEF NoStop
    <3> QED
        BY <1>1, <1>4, <2>1, <3>1 DEF TauriTypes, Stages
  <2>3. HolderKnows'
      BY <2>1 DEF HolderKnows, NoStop
  <2>4. GenerationsCounted'
      BY <1>1, <1>2, <1>4, CountsLeaving
  <2> QED
      BY <1>4, <2>2, <2>3, <2>4 DEF TauriInv, Watched
<1> QED
    BY <1>1, <1>3, <1>4 DEF AfterStop, TauriTypes

\* stop_current_session begins: with nothing to stop it is over.
LEMMA StopBegins ==
    ASSUME TauriSound, gate # <<>>, exiting # "final", stop.at = "no",
           Head(gate) = "startup" => step \in {"clearing", "cleanup"},
           BeginStop, UNCHANGED <<gen, starts, monitors, orch, kids, crashed, port>>
    PROVE  TauriSound'
<1>1. TauriInv /\ stop = NoStop /\ TauriTypes /\ HolderKnows /\ GenerationsCounted
    BY DEF TauriSound, TauriInv, HolderKnows
<1>2. BackendInv' /\ Quieter
    BY SameKeeps DEF TauriSound
<1>3. CASE sess \notin Backends
  <2>1. sess' = 0 /\ AfterStop(TRUE) /\ stop' = stop
      BY <1>3 DEF BeginStop
  <2>2. \A b \in Backends : ~Alive(b)
      BY <1>1, <1>3, NobodyIsNone DEF TauriSound, OwnedIsKnown, NoStop
  <2>3. \A b \in Backends : ~Alive(b)'
      BY <1>2, <2>2 DEF Quieter
  <2>4. TauriInv'
    <3>1. sess' \in 0..Foreign
        BY <2>1, BackendAssumption DEF Foreign
    <3> QED
        BY <1>1, <2>1, <3>1, StopOver
  <2> QED
      BY <1>2, <2>3, <2>4 DEF TauriSound, OwnedIsKnown
<1>4. CASE sess \in Backends
  <2>1. /\ sess' = 0 /\ UNCHANGED <<gate, step, exiting, phase>>
        /\ \E written \in BOOLEAN : stop' = [at |-> "asked", of |-> sess, bad |-> ~written]
      BY <1>4 DEF BeginStop, AskToStop
  <2>2. /\ stop' \in [at : {"no", "asked", "forced", "killed"}, of : 0..MaxBackends, bad : BOOLEAN]
        /\ stop'.at = "asked" /\ stop'.of = sess
      BY <1>4, <2>1, BackendAssumption DEF Backends
  <2>3. TauriTypes'
      BY <1>1, <2>1, <2>2, BackendAssumption DEF TauriTypes, Foreign
  <2>4. HolderKnows'
      BY <1>1, <1>4, <2>1, <2>2 DEF HolderKnows
  <2>5. GenerationsCounted'
    <3>1. Entered' = Entered /\ Entered \in Nat
        BY <2>1, WatchingCounts DEF Entered
    <3>2. gen \in Nat /\ Watching' = Watching /\ Watching \in Nat
        BY <1>1, WatchingStays, WatchingCounts DEF TauriTypes
    <3> QED
        BY <1>1, <2>1, <3>1, <3>2, CountsStaying
  <2>6. Watched'
      BY <2>1 DEF Watched
  <2>7. OwnedIsKnown'
    <3>1. \A b \in Backends : Alive(b) => b = sess
        BY <1>1, NobodyIsNone DEF TauriSound, OwnedIsKnown, NoStop
    <3>2. \A b \in Backends : Alive(b)' => b = sess
        BY <1>2, <3>1 DEF Quieter
    <3> QED
        BY <2>1, <2>2, <3>2 DEF OwnedIsKnown
  <2> QED
      BY <1>2, <2>3, <2>4, <2>5, <2>6, <2>7 DEF TauriSound, TauriInv
<1> QED
    BY <1>3, <1>4

LEMMA TauriParts ==
    ASSUME TauriSound
    PROVE  /\ BackendInv /\ TauriInv /\ TauriTypes /\ HolderKnows /\ GenerationsCounted /\ Watched
           /\ gen \in Nat /\ Watching \in Nat /\ Entered \in Nat
           /\ 0 \in 0..Foreign /\ Foreign \in 0..Foreign /\ Backends \subseteq 0..Foreign
<1>1. BackendInv /\ TauriInv /\ TauriTypes /\ HolderKnows /\ GenerationsCounted /\ Watched /\ gen \in Nat
    BY DEF TauriSound, TauriInv, TauriTypes
<1>2. 0 \in 0..Foreign /\ Foreign \in 0..Foreign /\ Backends \subseteq 0..Foreign
    BY BackendAssumption DEF Backends, Foreign
<1> QED
    BY <1>1, <1>2, WatchingCounts

\* The processes are left alone, or one is killed, and who is known stays known.
LEMMA KnownStays ==
    ASSUME TauriSound, Quieter, UNCHANGED <<sess, stop, exiting>>
    PROVE  OwnedIsKnown'
    BY DEF TauriSound, OwnedIsKnown, Quieter

LEMMA StopStepKeeps ==
    ASSUME TauriSound, exiting # "final", StopStep
    PROVE  TauriSound'
<1>1. /\ TauriInv /\ TauriTypes /\ HolderKnows /\ GenerationsCounted /\ BackendInv
      /\ stop.of \in Backends /\ gate # <<>> /\ sess = 0 /\ stop.at # "no" /\ stop.bad \in BOOLEAN
      /\ UNCHANGED <<gen, starts, monitors>>
    BY TauriParts DEF StopStep, HolderKnows, TauriTypes
<1> PICK b \in Backends : b = stop.of
    BY <1>1
<1>2. \A c \in Backends : Alive(c) => c = b
    BY <1>1, NobodyIsNone DEF TauriSound, OwnedIsKnown
<1>3. ASSUME NEW ok \in BOOLEAN, EndStop(ok)
      PROVE  TauriSound'
  <2>1. /\ stop' = NoStop /\ AfterStop(ok) /\ sess' = IF ok THEN 0 ELSE b
        /\ IF ok \/ exiting' = "final" THEN Killed(b) ELSE UNCHANGED backendVars
      BY <1>3 DEF EndStop
  <2>2. sess' \in 0..Foreign
      BY <1>1, <2>1, TauriParts
  <2>3. TauriInv'
      BY <1>1, <2>1, <2>2, StopOver
  <2>4. CASE ok \/ exiting' = "final"
    <3>1. BackendInv' /\ Quieter /\ ~Alive(b)'
        BY <1>1, <2>1, <2>4, KilledKeeps
    <3>2. \A c \in Backends : ~Alive(c)'
        BY <1>2, <3>1 DEF Quieter
    <3> QED
        BY <2>3, <3>1, <3>2 DEF TauriSound, OwnedIsKnown
  <2>5. CASE ~(ok \/ exiting' = "final")
    <3>1. BackendInv' /\ Quieter
        BY <1>1, <2>1, <2>5, SameKeeps DEF backendVars
    <3>2. \A c \in Backends : Alive(c)' => c = b
        BY <1>2, <3>1 DEF Quieter
    <3> QED
        BY <2>1, <2>3, <2>5, <3>1, <3>2 DEF TauriSound, OwnedIsKnown
  <2> QED
      BY <2>4, <2>5
<1>4. ASSUME NEW later \in {"forced", "killed"}, ForcedStop(later),
             UNCHANGED <<sess, gate, step, exiting, phase>>
      PROVE  TauriSound'
  <2>1. /\ stop' \in [at : {"no", "asked", "forced", "killed"}, of : 0..MaxBackends, bad : BOOLEAN]
        /\ stop'.at = later /\ stop'.of = b
      BY <1>1, <1>4 DEF ForcedStop, TauriTypes
  <2>2. BackendInv' /\ Quieter
    <3>1. CASE Killed(b)
        BY <1>1, <3>1, KilledKeeps
    <3>2. CASE UNCHANGED backendVars
        BY <1>1, <3>2, SameKeeps DEF backendVars
    <3> QED
        BY <1>4, <3>1, <3>2 DEF ForcedStop
  <2>3. TauriTypes'
      BY <1>1, <1>4, <2>1 DEF TauriTypes
  <2>4. HolderKnows'
      BY <1>1, <1>4, <2>1 DEF HolderKnows
  <2>5. Watching' = Watching /\ Entered' = Entered
      BY <1>1, <1>4, WatchingStays DEF Entered
  <2>6. GenerationsCounted'
      BY <1>1, <1>4, <2>5, TauriParts, CountsStaying
  <2>7. Watched'
      BY <1>1, <1>4 DEF Watched
  <2>8. OwnedIsKnown'
      BY <1>4, <2>1, <2>2 DEF TauriSound, OwnedIsKnown, Quieter
  <2> QED
      BY <2>2, <2>3, <2>4, <2>6, <2>7, <2>8 DEF TauriSound, TauriInv
<1> QED
    BY <1>1, <1>3, <1>4 DEF StopStep

LEMMA EnterStartupKeeps ==
    ASSUME TauriSound, exiting # "final", EnterStartup
    PROVE  TauriSound'
<1>1. /\ gate # <<>> /\ Head(gate) = "startup" /\ step = "enter" /\ stop.at = "no"
      /\ gen' = gen + 1 /\ UNCHANGED <<sess, stop, phase, exiting, starts, monitors, backendVars>>
    BY DEF EnterStartup, At, Holds
<1>2. /\ TauriTypes /\ HolderKnows /\ GenerationsCounted /\ BackendInv /\ gen \in Nat /\ stop = NoStop
      /\ Watching \in Nat
    BY <1>1, TauriParts DEF HolderKnows
<1>3. BackendInv' /\ Quieter
    BY <1>1, <1>2, SameKeeps DEF backendVars
<1>4. OwnedIsKnown'
    BY <1>1, <1>3, KnownStays
<1>5. Watching' = 0 /\ \A m \in monitors' : m.gen \in 0..gen'
  <2>1. \A m \in monitors' : m.gen \in 0..gen
      BY <1>1, <1>2 DEF TauriTypes
  <2> QED
      BY <1>1, <1>2, <2>1, NewGeneration
<1>6. CASE exiting # "no"
  <2>1. Leaves
      BY <1>6 DEF EnterStartup
  <2>2. gate' \in Seq(Tasks) /\ step' = "enter"
      BY <1>1, <1>2, <2>1, GateMoves DEF Leaves, TauriTypes
  <2>3. TauriTypes'
      BY <1>1, <1>2, <1>5, <2>2 DEF TauriTypes, Stages
  <2>4. HolderKnows'
      BY <1>1, <1>2, <2>2 DEF HolderKnows, NoStop
  <2>5. GenerationsCounted'
    <3>1. gen' \in Nat /\ gen' + Watching' <= gen + Watching + 1
        BY <1>1, <1>2, <1>5
    <3> QED
        BY <1>1, <1>2, <2>1, <3>1, CountsLeaving
  <2>6. Watched'
      BY <1>1, <1>6 DEF Watched
  <2> QED
      BY <1>3, <1>4, <2>3, <2>4, <2>5, <2>6 DEF TauriSound, TauriInv
<1>7. CASE exiting = "no"
  <2>1. step' = "clearing" /\ gate' = gate
      BY <1>7 DEF EnterStartup
  <2>2. TauriTypes'
      BY <1>1, <1>2, <1>5, <2>1 DEF TauriTypes, Stages
  <2>3. HolderKnows'
      BY <1>1, <1>2, <2>1 DEF HolderKnows, NoStop
  <2>4. GenerationsCounted'
    <3>1. Entered = 0 /\ Entered' = 1
        BY <1>1, <2>1 DEF Entered
    <3>2. gen' \in Nat /\ gen' + Watching' + Entered <= gen + Watching + Entered'
        BY <1>1, <1>2, <1>5, <3>1
    <3> QED
        BY <1>1, <1>2, <2>1, <3>2, CountsStaying
  <2>5. Watched'
      BY <1>1, <2>1 DEF Watched
  <2> QED
      BY <1>3, <1>4, <2>2, <2>3, <2>4, <2>5 DEF TauriSound, TauriInv
<1> QED
    BY <1>6, <1>7

LEMMA StopFirstKeeps ==
    ASSUME TauriSound, exiting # "final", StopFirst
    PROVE  TauriSound'
    BY StopBegins DEF StopFirst, At, Holds

LEMMA EnterExitKeeps ==
    ASSUME TauriSound, exiting # "final", EnterExit
    PROVE  TauriSound'
    BY StopBegins DEF EnterExit, At, Holds

LEMMA EnterFailureKeeps ==
    ASSUME TauriSound, exiting # "final", EnterFailure
    PROVE  TauriSound'
<1>1. CASE exiting = "no"
    BY <1>1, StopBegins DEF EnterFailure, At, Holds
<1>2. CASE exiting # "no"
  <2>1. /\ gate # <<>> /\ Leaves /\ UNCHANGED <<sess, stop, exiting, phase>>
        /\ UNCHANGED <<gen, starts, monitors, orch, kids, crashed, port>>
      BY <1>2 DEF EnterFailure, At, Holds
  <2>2. stop = NoStop
      BY TauriParts DEF EnterFailure, At, HolderKnows
  <2>3. TauriTypes /\ HolderKnows /\ GenerationsCounted /\ BackendInv
      BY TauriParts
  <2>4. BackendInv' /\ Quieter
      BY <2>1, <2>3, SameKeeps
  <2>5. OwnedIsKnown'
      BY <2>1, <2>4, KnownStays
  <2>6. gate' \in Seq(Tasks) /\ step' = "enter"
      BY <2>1, <2>3, GateMoves DEF Leaves, TauriTypes
  <2>7. TauriTypes'
      BY <2>1, <2>3, <2>6 DEF TauriTypes, Stages
  <2>8. HolderKnows'
      BY <2>1, <2>2, <2>6 DEF HolderKnows, NoStop
  <2>9. GenerationsCounted'
      BY <2>1, <2>3, TauriParts, WatchingStays, CountsLeaving
  <2>10. Watched'
      BY <1>2, <2>1 DEF Watched
  <2> QED
      BY <2>4, <2>5, <2>7, <2>8, <2>9, <2>10 DEF TauriSound, TauriInv
<1> QED
    BY <1>1, <1>2

\* What keeps the gate as it is, and is done by its holder.
LEMMA HolderGoesOn ==
    ASSUME TauriSound, gate # <<>>, Head(gate) = "startup", stop.at = "no",
           step # "enter", step' \in Stages \ {"enter"}, sess' \in 0..Foreign,
           step' \in {"probe1", "probe2", "existing"} => sess' = 0,
           UNCHANGED <<stop, gate, gen, exiting, starts, monitors>>
    PROVE  TauriInv'
<1>1. TauriTypes /\ HolderKnows /\ GenerationsCounted /\ stop = NoStop
    BY TauriParts DEF HolderKnows
<1>2. TauriTypes'
    BY <1>1 DEF TauriTypes
<1>3. HolderKnows'
    BY <1>1 DEF HolderKnows
<1>4. Watching' = Watching /\ Entered' = Entered
    BY WatchingStays DEF Entered
<1>5. GenerationsCounted'
    BY <1>1, <1>4, TauriParts, CountsStaying
<1>6. Watched'
    BY DEF Watched
<1> QED
    BY <1>2, <1>3, <1>5, <1>6 DEF TauriInv

LEMMA ProbeKeeps ==
    ASSUME TauriSound, exiting # "final", Probe
    PROVE  TauriSound'
<1>1. /\ gate # <<>> /\ Head(gate) = "startup" /\ stop.at = "no" /\ step \in {"probe1", "probe2"}
      /\ UNCHANGED <<stop, gate, gen, exiting, starts, monitors>>
    BY DEF Probe, At, Holds
<1>2. stop = NoStop /\ sess = 0 /\ BackendInv
    BY <1>1, TauriParts DEF HolderKnows
<1>3. \A b \in Backends : ~Alive(b)
    BY <1>2, NobodyIsNone DEF TauriSound, OwnedIsKnown, NoStop
<1>4. CASE /\ UNCHANGED backendVars /\ step' \in {"root", "existing", "probe2", "cleanup"}
           /\ sess' = IF step' = "root" THEN Foreign ELSE sess
  <2>1. BackendInv' /\ Quieter
      BY <1>2, <1>4, SameKeeps DEF backendVars
  <2>2. \A b \in Backends : ~Alive(b)'
      BY <1>3, <2>1 DEF Quieter
  <2>3. TauriInv'
      BY <1>1, <1>2, <1>4, TauriParts, HolderGoesOn DEF Stages
  <2> QED
      BY <2>1, <2>2, <2>3 DEF TauriSound, OwnedIsKnown
<1>5. ASSUME NEW b \in Backends, orch[b] = "none", Spawned(b), sess' = b, step' = "owned",
             exiting = "no"
      PROVE  TauriSound'
  <2>1. BackendInv' /\ \A c \in Backends \ {b} : orch'[c] = orch[c] /\ kids'[c] = kids[c]
      BY <1>2, <1>5, SpawnedKeeps
  <2>2. \A c \in Backends \ {b} : ~Alive(c)'
      BY <1>3, <2>1 DEF Alive, Up
  <2>3. TauriInv'
      BY <1>1, <1>5, TauriParts, HolderGoesOn DEF Stages
  <2> QED
      BY <1>1, <1>5, <2>1, <2>2, <2>3 DEF TauriSound, OwnedIsKnown
<1> QED
    BY <1>1, <1>4, <1>5 DEF Probe, Adopt, Fail, Spawn

\* The startup that shows the application leaves a monitor behind.
LEMMA AwaitKeeps ==
    ASSUME TauriSound, exiting # "final", Await
    PROVE  TauriSound'
<1>1. /\ gate # <<>> /\ Head(gate) = "startup" /\ stop.at = "no" /\ step \in {"existing", "owned", "root"}
      /\ UNCHANGED <<stop, gen, exiting, starts>>
    BY DEF Await, At, Holds
<1>2. /\ stop = NoStop /\ (step = "existing" => sess = 0) /\ BackendInv
      /\ TauriTypes /\ HolderKnows /\ GenerationsCounted /\ gen \in Nat
    BY <1>1, TauriParts DEF HolderKnows
<1>3. UNCHANGED backendVars
    BY DEF Await, Adopt, Fail
<1>4. BackendInv' /\ Quieter
    BY <1>2, <1>3, SameKeeps DEF backendVars
<1>5. OwnedIsKnown'
  <2>1. CASE sess' = sess
      BY <1>1, <1>4, <2>1, KnownStays
  <2>2. CASE step = "existing" /\ sess' = Foreign
    <3>1. \A b \in Backends : ~Alive(b)
        BY <1>2, <2>2, NobodyIsNone DEF TauriSound, OwnedIsKnown, NoStop
    <3> QED
        BY <1>4, <3>1 DEF OwnedIsKnown, Quieter
  <2> QED
      BY <2>1, <2>2 DEF Await, At, Adopt, Fail
<1>6. CASE gate' = gate
  <2>1. /\ step' \in {"root", "cleanup"} /\ monitors' = monitors
        /\ sess' \in {sess, Foreign}
    <3>1. ~Leaves
      <4>1. gate \in Seq(Tasks) /\ Len(Tail(gate)) = Len(gate) - 1 /\ Len(gate) \in Nat
          BY <1>1, <1>2, HeadTailProperties, LenProperties, EmptySeq DEF TauriTypes
      <4>2. ASSUME Tail(gate) = gate
            PROVE  FALSE
        <5>1. Len(gate) = Len(gate) - 1
            BY <4>1, <4>2
        <5> QED
            BY ONLY <4>1, <5>1
      <4> QED
          BY <1>6, <4>2 DEF Leaves
    <3> QED
        BY <3>1 DEF Await, Adopt, Fail
  <2> QED
      BY <1>1, <1>2, <1>4, <1>5, <1>6, <2>1, TauriParts, HolderGoesOn DEF Stages, TauriSound, TauriTypes
<1>7. CASE Leaves /\ monitors' = monitors \cup {NewMonitor} /\ sess' = sess
  <2>1. gate' \in Seq(Tasks) /\ step' = "enter"
      BY <1>1, <1>2, <1>7, GateMoves DEF Leaves, TauriTypes
  <2>2. /\ NewMonitor.gen = gen /\ NewMonitor.of = sess /\ ~NewMonitor.reports
        /\ NewMonitor \in MonitorState /\ gen \in 0..gen
      BY <1>2 DEF NewMonitor, MonitorState, TauriTypes
  <2> HIDE DEF NewMonitor
  <2>3. TauriTypes'
      BY <1>1, <1>2, <1>7, <2>1, <2>2 DEF TauriTypes, Stages
  <2>4. HolderKnows'
      BY <1>1, <1>2, <2>1 DEF HolderKnows, NoStop
  <2>5. GenerationsCounted'
    <3> DEFINE w == Watching
               v == Watching'
    <3>1. w \in {0, 1} /\ v \in {0, 1}
        BY WatchingCounts DEF Watching
    <3> HIDE DEF w, v
    <3>2. gen + v <= gen + w + 1
        BY ONLY <1>2, <3>1
    <3>3. gen' + Watching' <= gen + Watching + 1 /\ gen' \in Nat
        BY <1>1, <1>2, <3>2 DEF w, v
    <3> QED
        BY <1>1, <1>2, <1>7, <3>3, CountsLeaving
  <2>6. Watched'
      BY <1>1, <1>7, <2>2 DEF Watched
  <2> QED
      BY <1>4, <1>5, <2>3, <2>4, <2>5, <2>6 DEF TauriSound, TauriInv
<1> QED
    BY <1>6, <1>7 DEF Await

LEMMA NoMoreWatching ==
    ASSUME gen' = gen, gen \in Nat, Watching' <= Watching, Entered' = Entered
    PROVE  gen' \in Nat /\ gen' + Watching' + Entered <= gen + Watching + Entered'
<1> DEFINE w == Watching
           v == Watching'
           e == Entered
<1>1. w \in {0, 1} /\ v \in {0, 1} /\ e \in {0, 1} /\ v <= w
    BY WatchingCounts DEF Watching
<1> HIDE DEF w, v, e
<1>2. gen + v + e <= gen + w + e
    BY ONLY <1>1, gen \in Nat
<1> QED
    BY <1>2 DEF w, v, e

\* A monitor looks, forgets or reports; the others watch on.
LEMMA MonitorKeeps ==
    ASSUME TauriSound, NEW m \in monitors, Monitor(m)
    PROVE  TauriSound'
<1> DEFINE rest == monitors \ {m}
<1>1. /\ ~m.reports /\ UNCHANGED <<sess, stop, gate, step, exiting, phase, starts, backendVars>>
      /\ TauriTypes /\ HolderKnows /\ GenerationsCounted /\ Watched /\ BackendInv /\ gen \in Nat
    BY TauriParts DEF Monitor
<1>2. BackendInv' /\ OwnedIsKnown'
    BY <1>1, SameKeeps, KnownStays DEF backendVars
<1>3. Entered' = Entered /\ Entered \in Nat /\ Watching \in Nat
    BY <1>1, WatchingCounts DEF Entered
<1>4. HolderKnows'
    BY <1>1 DEF HolderKnows
<1>5. CASE gen' = gen /\ monitors' = rest /\ ~(Concerns(m) /\ sess = m.of)
  <2>1. TauriTypes'
      BY <1>1, <1>5 DEF TauriTypes
  <2>2. Watching' <= Watching
      BY <1>5, WatchingFalls
  <2>3. gen' \in Nat /\ gen' + Watching' + Entered <= gen + Watching + Entered'
      BY <1>1, <1>3, <1>5, <2>2, NoMoreWatching
  <2>4. GenerationsCounted'
      BY <1>1, <2>3, CountsStaying
  <2>5. Watched'
      BY <1>1, <1>5 DEF Watched, Concerns
  <2> QED
      BY <1>2, <1>4, <2>1, <2>4, <2>5 DEF TauriSound, TauriInv
<1>6. ASSUME NEW n \in MonitorState, n.gen = m.gen, n.of = m.of, n.reports = m.reports, gen' = gen, monitors' = rest \cup {n}
      PROVE  TauriSound'
  <2>1. TauriTypes'
      BY <1>1, <1>6 DEF TauriTypes
  <2>2. Watching' <= Watching
      BY <1>6, WatchingFalls
  <2>3. gen' \in Nat /\ gen' + Watching' + Entered <= gen + Watching + Entered'
      BY <1>1, <1>3, <1>6, <2>2, NoMoreWatching
  <2>4. GenerationsCounted'
      BY <1>1, <2>3, CountsStaying
  <2>5. Watched'
      BY <1>1, <1>6 DEF Watched
  <2> QED
      BY <1>2, <1>4, <2>1, <2>4, <2>5 DEF TauriSound, TauriInv
<1>7. ASSUME NEW n \in MonitorState, n.gen = m.gen, n.reports, gen' = gen + 1, monitors' = rest \cup {n}, m.gen = gen
      PROVE  TauriSound'
  <2>1. \A k \in monitors' : k.gen \in 0..gen
      BY <1>1, <1>7 DEF TauriTypes
  <2>2. TauriTypes'
      BY <1>1, <1>7, <2>1 DEF TauriTypes
  <2>3. Watching' = 0 /\ Watching = 1
    <3>1. Watching' = 0
        BY <1>1, <1>7, <2>1, NewGeneration
    <3> QED
        BY <1>1, <1>7, <3>1 DEF Watching
  <2>4. gen' \in Nat /\ gen' + Watching' + Entered <= gen + Watching + Entered'
      BY <1>1, <1>3, <1>7, <2>3
  <2>5. GenerationsCounted'
      BY <1>1, <2>4, CountsStaying
  <2>6. Watched'
      BY <1>7 DEF Watched
  <2> QED
      BY <1>2, <1>4, <2>2, <2>5, <2>6 DEF TauriSound, TauriInv
<1>8. m \in MonitorState
    BY <1>1 DEF TauriTypes
<1>9. ASSUME gen' = gen + 1, monitors' = rest \cup {[m EXCEPT !.reports = TRUE]}, Concerns(m)
      PROVE  TauriSound'
  <2> DEFINE n == [m EXCEPT !.reports = TRUE]
  <2>1. n \in MonitorState /\ n.gen = m.gen /\ n.reports
      BY <1>8 DEF MonitorState
  <2> HIDE DEF n
  <2> QED
      BY <1>7, <1>9, <2>1 DEF Concerns, n
<1>10. ASSUME NEW k \in Nat, gen' = gen, monitors' = rest \cup {[m EXCEPT !.misses = k]}
       PROVE  TauriSound'
  <2> DEFINE n == [m EXCEPT !.misses = k]
  <2>1. n \in MonitorState /\ n.gen = m.gen /\ n.of = m.of /\ n.reports = m.reports
      BY <1>8 DEF MonitorState
  <2> HIDE DEF n
  <2> QED
      BY <1>6, <1>10, <2>1 DEF n
<1>11. CASE ~Concerns(m)
    BY <1>5, <1>11 DEF Monitor
<1>12. CASE Concerns(m)
  <2>1. m.misses + 1 \in Nat /\ 0 \in Nat
      BY <1>8 DEF MonitorState
  <2>2. CASE m.of \in Backends /\ sess \in Backends /\ ~Up(sess)
    <3>1. gen' = gen + 1 /\ monitors' = rest \cup {[m EXCEPT !.reports = TRUE]}
        BY <1>12, <2>2 DEF Monitor
    <3> QED
        BY <1>9, <1>12, <3>1
  <2>3. CASE ~(m.of \in Backends /\ sess \in Backends /\ ~Up(sess)) /\ sess # m.of
    <3>1. gen' = gen /\ monitors' = rest
        BY <1>12, <2>3 DEF Monitor
    <3> QED
        BY <1>5, <2>3, <3>1
  <2>4. CASE ~(m.of \in Backends /\ sess \in Backends /\ ~Up(sess)) /\ sess = m.of
    <3>1. \/ gen' = gen /\ monitors' = rest \cup {[m EXCEPT !.misses = 0]}
          \/ gen' = gen /\ monitors' = rest \cup {[m EXCEPT !.misses = @ + 1]}
          \/ gen' = gen + 1 /\ monitors' = rest \cup {[m EXCEPT !.reports = TRUE]}
        BY <1>12, <2>4 DEF Monitor
    <3> QED
        BY <1>9, <1>10, <1>12, <2>1, <3>1
  <2> QED
      BY <2>2, <2>3, <2>4
<1> QED
    BY <1>11, <1>12

LEMMA ReportKeeps ==
    ASSUME TauriSound, NEW m \in monitors, Report(m)
    PROVE  TauriSound'
<1>1. /\ gate' = Append(gate, "failure") /\ monitors' = monitors \ {m}
      /\ UNCHANGED <<sess, stop, step, gen, exiting, phase, starts, backendVars>>
      /\ TauriTypes /\ HolderKnows /\ GenerationsCounted /\ BackendInv /\ gen \in Nat
    BY TauriParts DEF Report
<1>2. BackendInv' /\ OwnedIsKnown'
    BY <1>1, SameKeeps, KnownStays DEF backendVars
<1>3. /\ gate' \in Seq(Tasks) /\ gate' # <<>>
      /\ Head(gate') = IF gate = <<>> THEN "failure" ELSE Head(gate)
    BY <1>1, GateGrows DEF Tasks, TauriTypes
<1>4. TauriTypes'
    BY <1>1, <1>3 DEF TauriTypes
<1>5. HolderKnows'
    BY <1>1, <1>3 DEF HolderKnows
<1>6. GenerationsCounted'
  <2>1. Watching' <= Watching
      BY <1>1, WatchingFalls
  <2>2. starts' = starts + IF "failure" = "startup" THEN 1 ELSE 0
      BY <1>1, NumbersAreNatural
  <2> QED
      BY <1>1, <2>1, <2>2, CountsGrowing DEF Tasks
<1>7. Watched'
    BY <1>3 DEF Watched
<1> QED
    BY <1>2, <1>4, <1>5, <1>6, <1>7 DEF TauriSound, TauriInv

\* A task waits for the gate.
LEMMA TaskWaits ==
    ASSUME TauriSound, NEW t \in Tasks, gate' = Append(gate, t),
           starts' = starts + IF t = "startup" THEN 1 ELSE 0, starts' \in 1..MaxStarts,
           exiting' \in {exiting, "asked"}, exiting # "final",
           UNCHANGED <<sess, stop, step, gen, monitors, backendVars>>
    PROVE  TauriSound'
<1>1. TauriTypes /\ HolderKnows /\ GenerationsCounted /\ BackendInv
    BY TauriParts
<1>2. BackendInv' /\ Quieter
    BY <1>1, SameKeeps DEF backendVars
<1>3. OwnedIsKnown'
    BY <1>2 DEF TauriSound, OwnedIsKnown, Quieter
<1>4. /\ gate' \in Seq(Tasks) /\ gate' # <<>>
      /\ Head(gate') = IF gate = <<>> THEN t ELSE Head(gate)
    BY <1>1, GateGrows DEF TauriTypes
<1>5. TauriTypes'
    BY <1>1, <1>4 DEF TauriTypes
<1>6. HolderKnows'
    BY <1>1, <1>4 DEF HolderKnows
<1>7. GenerationsCounted'
    BY <1>1, WatchingStays, WatchingCounts, CountsGrowing
<1>8. Watched'
    BY <1>4 DEF Watched
<1> QED
    BY <1>2, <1>3, <1>5, <1>6, <1>7, <1>8 DEF TauriSound, TauriInv

LEMMA AskStartupKeeps ==
    ASSUME TauriSound, AskStartup
    PROVE  TauriSound'
<1>1. /\ exiting # "final" /\ starts < MaxStarts /\ starts \in 1..MaxStarts /\ starts \in Nat
      /\ UNCHANGED <<sess, stop, step, gen, exiting, phase, monitors, backendVars>>
      /\ TauriTypes /\ HolderKnows /\ GenerationsCounted /\ Watched /\ BackendInv
    BY TauriParts, NumbersAreNatural DEF AskStartup, TauriTypes
<1>2. CASE gate' = Append(gate, "startup") /\ starts' = starts + 1
  <2>1. starts + 1 \in 1..MaxStarts
      BY <1>1, TauriAssumption
  <2> QED
      BY <1>1, <1>2, <2>1, TaskWaits DEF Tasks
<1>3. CASE UNCHANGED <<gate, starts>>
  <2>1. BackendInv' /\ OwnedIsKnown'
      BY <1>1, SameKeeps, KnownStays DEF backendVars
  <2>2. Entered' = Entered /\ Watching' = Watching
      BY <1>1, WatchingStays DEF Entered
  <2>3. GenerationsCounted'
      BY <1>1, <1>3, <2>2, TauriParts, CountsStaying
  <2>4. TauriTypes' /\ HolderKnows' /\ Watched'
      BY <1>1, <1>3 DEF TauriTypes, HolderKnows, Watched
  <2> QED
      BY <2>1, <2>3, <2>4 DEF TauriSound, TauriInv
<1> QED
    BY <1>2, <1>3 DEF AskStartup

LEMMA AskExitKeeps ==
    ASSUME TauriSound, AskExit
    PROVE  TauriSound'
<1>1. starts \in 1..MaxStarts /\ starts \in Nat
    BY TauriParts, NumbersAreNatural DEF TauriTypes
<1>2. starts' = starts + IF "exit" = "startup" THEN 1 ELSE 0
    BY <1>1 DEF AskExit
<1>3. starts' \in 1..MaxStarts
    BY <1>1 DEF AskExit
<1> QED
    BY <1>2, <1>3, TaskWaits DEF AskExit, Tasks

LEMMA TauriStepKeeps ==
    ASSUME TauriSound, TauriNext
    PROVE  TauriSound'
    BY StopStepKeeps, EnterStartupKeeps, StopFirstKeeps, ProbeKeeps, AwaitKeeps,
       EnterFailureKeeps, AskStartupKeeps, AskExitKeeps, EnterExitKeeps, MonitorKeeps,
       ReportKeeps DEF TauriNext

LEMMA TauriRests ==
    ASSUME TauriSound, BackendInv', Quieter, UNCHANGED tauriVars
    PROVE  TauriSound'
<1>1. UNCHANGED <<sess, stop, gate, step, gen, exiting, phase, starts, monitors>>
    BY DEF tauriVars
<1>2. OwnedIsKnown'
    BY <1>1, KnownStays
<1>3. Watching' = Watching /\ Entered' = Entered
    BY <1>1, WatchingStays DEF Entered
<1>4. TauriTypes /\ HolderKnows /\ GenerationsCounted /\ Watched
    BY TauriParts
<1>5. TauriTypes' /\ HolderKnows' /\ Watched'
    BY <1>1, <1>4 DEF TauriTypes, HolderKnows, Watched
<1>6. GenerationsCounted'
    BY <1>1, <1>3, <1>4, TauriParts, CountsStaying
<1> QED
    BY <1>2, <1>5, <1>6 DEF TauriSound, TauriInv

-----------------------------------------------------------------------------
(***************************************************************************)
(* The steps of the Electron shell.                                        *)
(***************************************************************************)

ElectronSound == BackendInv /\ ElectronInv
Held == ChildIsHeld /\ QuitStops
StartupState == [at : {"begin", "idle", "clearing", "probe", "waiting", "polled", "loading",
                       "ending", "catching", "recatch", "failed"},
                 of : 0..MaxBackends, aborted : BOOLEAN]
QuitState == [at : {"no", "waiting", "stopping", "ending", "done"}, of : 0..MaxBackends]
StopStates == {"no", "asked", "killed", "exited", "failed"}

LEMMA ElectronParts ==
    ASSUME ElectronSound
    PROVE  /\ BackendInv /\ ElectronTypes /\ StopsEnd /\ StartedOnly /\ (survivor \/ Held)
           /\ startup \in StartupState /\ quit \in QuitState
           /\ stops \in [Backends -> StopStates]
           /\ held \in 0..Foreign /\ child \in 0..MaxBackends
           /\ exited \subseteq Backends /\ survivor \in BOOLEAN
    BY DEF ElectronSound, ElectronInv, Held, ElectronTypes, StartupState, QuitState, StopStates

LEMMA Numbers ==
    /\ 0 \in 0..Foreign /\ Foreign \in 0..Foreign /\ 0 \in 0..MaxBackends
    /\ 0 \notin Backends /\ Foreign \notin Backends
    /\ \A b \in Backends : b \in 0..Foreign /\ b \in 0..MaxBackends
    BY BackendAssumption DEF Backends, Foreign

\* stopBackend starts a stop, or joins the one there is.
LEMMA StoppingStops ==
    ASSUME ElectronSound, NEW b \in Backends, Stopping(b)
    PROVE  /\ stops' \in [Backends -> StopStates] /\ stops'[b] # "no"
           /\ \A c \in Backends \ {b} : stops'[c] = stops[c]
           /\ stops[b] # "no" => stops'[b] = stops[b]
           /\ stops[b] = "no" => stops'[b] = IF b \in exited THEN "exited" ELSE "asked"
<1>1. stops \in [Backends -> StopStates]
    BY ElectronParts
<1> QED
    BY <1>1 DEF Stopping, StopStates

LEMMA StopsEndStays ==
    ASSUME ElectronSound, NEW b \in Backends, Stopping(b) \/ UNCHANGED stops,
           UNCHANGED <<exited, survivor, orch>>
    PROVE  StopsEnd' /\ stops' \in [Backends -> StopStates]
<1>1. StopsEnd /\ stops \in [Backends -> StopStates] /\ exited \subseteq Backends
    BY ElectronParts
<1>2. CASE Stopping(b)
    BY <1>1, <1>2, StoppingStops DEF StopsEnd
<1>3. CASE UNCHANGED stops
    BY <1>1, <1>3 DEF StopsEnd
<1> QED
    BY <1>2, <1>3

\* What the shell's fields say of processes stays so while none is started.
LEMMA ElectronRests ==
    ASSUME ElectronSound, BackendInv', Quieter, Steady, UNCHANGED electronVars
    PROVE  ElectronSound'
<1>1. /\ UNCHANGED <<held, child, startup, stops, quit, exited, survivor>>
      /\ ElectronTypes /\ StopsEnd /\ StartedOnly /\ (survivor \/ Held) /\ exited \subseteq Backends
    BY ElectronParts DEF electronVars
<1>2. ElectronTypes'
    BY <1>1 DEF ElectronTypes
<1>3. StopsEnd'
    BY <1>1 DEF StopsEnd, Quieter
<1>4. StartedOnly'
    BY <1>1 DEF StartedOnly, Steady
<1>5. ASSUME Held PROVE ChildIsHeld' /\ QuitStops'
    BY <1>1, <1>5 DEF Held, ChildIsHeld, QuitStops, Quieter, Steady, Tends
<1> QED
    BY <1>1, <1>2, <1>3, <1>5, <1>4 DEF ElectronSound, ElectronInv

LEMMA PollKeeps ==
    ASSUME ElectronSound, Poll
    PROVE  ElectronSound'
<1>1. /\ ElectronTypes /\ StopsEnd /\ StartedOnly /\ (survivor \/ Held) /\ BackendInv /\ startup \in StartupState
      /\ UNCHANGED <<held, child, stops, quit, exited, survivor, backendVars>>
      /\ startup.at = "waiting" /\ startup' = [startup EXCEPT !.at = "polled"]
    BY ElectronParts DEF Poll
<1>2. BackendInv' /\ Quieter /\ Steady
    BY <1>1, SameKeeps DEF backendVars
<1>3. startup' \in StartupState /\ startup'.at = "polled" /\ startup'.of = startup.of
    BY <1>1 DEF StartupState
<1>4. StartedOnly'
    BY <1>1, <1>2, <1>3 DEF StartedOnly, Steady
<1>5. ElectronTypes' /\ StopsEnd'
    BY <1>1, <1>3 DEF ElectronTypes, StopsEnd, StartupState, backendVars
<1>6. ASSUME Held PROVE ChildIsHeld' /\ QuitStops'
  <2>1. ChildIsHeld'
      BY <1>1, <1>2, <1>3, <1>6 DEF Held, ChildIsHeld, Steady, Tends
  <2>2. QuitStops'
      BY <1>1, <1>2, <1>3, <1>6 DEF Held, QuitStops, Quieter
  <2> QED
      BY <2>1, <2>2
<1> QED
    BY <1>1, <1>2, <1>5, <1>6, <1>4 DEF ElectronSound, ElectronInv

\* A startup whose child is there goes on, waits again, or has the child stopped.
LEMMA WaitKeeps ==
    ASSUME ElectronSound, Wait
    PROVE  ElectronSound'
<1>1. /\ ElectronTypes /\ StopsEnd /\ StartedOnly /\ (survivor \/ Held) /\ BackendInv /\ startup \in StartupState
      /\ UNCHANGED <<child, quit, exited, survivor, orch, kids, crashed, port>>
      /\ startup.at \in {"waiting", "polled"} /\ startup.of \in Backends
      /\ stops \in [Backends -> StopStates]
    BY ElectronParts DEF Wait, ElectronTypes, WaitFails
<1>2. BackendInv' /\ Quieter /\ Steady
    BY <1>1, SameKeeps
<1>3. \/ startup' = [startup EXCEPT !.at = "loading"] /\ held' = startup.of /\ UNCHANGED stops
      \/ startup' = [startup EXCEPT !.at = "waiting"] /\ UNCHANGED <<stops, held>>
      \/ startup' = [startup EXCEPT !.at = "ending"] /\ Stopping(startup.of) /\ UNCHANGED held
    BY DEF Wait, WaitFails
<1>4. StopsEnd' /\ stops' \in [Backends -> StopStates]
    BY <1>1, <1>3, StopsEndStays
<1>5. /\ startup' \in StartupState /\ startup'.of = startup.of
      /\ startup'.at \in {"loading", "waiting", "ending"}
    BY <1>1, <1>3 DEF StartupState
<1>6. held' \in 0..Foreign
    BY <1>1, <1>3, Numbers DEF ElectronTypes
<1>7. ElectronTypes'
    BY <1>1, <1>4, <1>5, <1>6 DEF ElectronTypes, StartupState, StopStates
<1>8. StartedOnly'
  <2>1. \A b \in Backends : stops'[b] # "no" => stops[b] # "no" \/ b = startup.of
      BY <1>1, <1>3, StoppingStops
  <2>2. held' = held \/ held' = startup.of
      BY <1>3
  <2> QED
      BY <1>1, <1>2, <1>5, <2>1, <2>2 DEF StartedOnly, Steady
<1>9. ASSUME Held PROVE ChildIsHeld' /\ QuitStops'
  <2>1. CASE startup' = [startup EXCEPT !.at = "loading"] /\ held' = startup.of /\ UNCHANGED stops
    <3>1. startup'.at = "loading"
        BY <1>1, <2>1 DEF StartupState
    <3>2. ChildIsHeld'
        BY <1>1, <1>2, <1>9, <2>1, <3>1 DEF Held, ChildIsHeld, Steady, Tends
    <3>3. QuitStops'
        BY <1>1, <1>2, <1>9, <2>1, <3>1 DEF Held, QuitStops, Quieter
    <3> QED
        BY <3>2, <3>3
  <2>2. CASE startup' = [startup EXCEPT !.at = "waiting"] /\ UNCHANGED <<stops, held>>
    <3>1. startup'.at = "waiting"
        BY <1>1, <2>2 DEF StartupState
    <3>2. ChildIsHeld'
        BY <1>1, <1>2, <1>5, <1>9, <2>2, <3>1 DEF Held, ChildIsHeld, Steady, Tends
    <3>3. QuitStops'
        BY <1>1, <1>2, <1>9, <2>2, <3>1 DEF Held, QuitStops, Quieter
    <3> QED
        BY <3>2, <3>3
  <2>3. CASE startup' = [startup EXCEPT !.at = "ending"] /\ Stopping(startup.of) /\ UNCHANGED held
    <3>1. startup'.at = "ending"
        BY <1>1, <2>3 DEF StartupState
    <3>2. stops'[startup.of] # "no" /\ \A b \in Backends : stops[b] # "no" => stops'[b] # "no"
        BY <1>1, <2>3, StoppingStops
    <3>3. ChildIsHeld'
        BY <1>1, <1>2, <1>5, <1>9, <2>3, <3>1 DEF Held, ChildIsHeld, Steady, Tends
    <3>4. QuitStops'
        BY <1>1, <1>2, <1>5, <1>9, <2>3, <3>1, <3>2 DEF Held, QuitStops, Quieter, ElectronTypes
    <3> QED
        BY <3>3, <3>4
  <2> QED
      BY <1>3, <2>1, <2>2, <2>3
<1> QED
    BY <1>1, <1>2, <1>4, <1>7, <1>9, <1>8 DEF ElectronSound, ElectronInv

\* A startup may begin: with no child left, or after the one that is has been stopped.
LEMMA BeginKeeps ==
    ASSUME ElectronSound, startup.at \in {"begin", "idle"}, Begin,
           UNCHANGED <<child, quit, exited, survivor, orch, kids, crashed, port>>
    PROVE  ElectronSound'
<1>1. /\ ElectronTypes /\ StopsEnd /\ StartedOnly /\ (survivor \/ Held) /\ BackendInv
      /\ stops \in [Backends -> StopStates] /\ held \in 0..Foreign
    BY ElectronParts
<1>2. BackendInv' /\ Quieter /\ Steady
    BY <1>1, SameKeeps
<1>3. CASE held \in Backends \ exited /\ startup' = [Idle EXCEPT !.at = "clearing"] /\ Stopping(held) /\ UNCHANGED held
  <2>1. /\ startup' \in StartupState /\ startup'.at = "clearing" /\ startup'.of = 0
      BY <1>3, Numbers DEF StartupState, Idle
  <2>2. StopsEnd' /\ stops' \in [Backends -> StopStates]
      BY <1>1, <1>3, StopsEndStays
  <2>3. stops'[held] # "no" /\ \A b \in Backends : stops[b] # "no" => stops'[b] # "no"
      BY <1>1, <1>3, StoppingStops
  <2>4. ElectronTypes'
      BY <1>1, <1>3, <2>1, <2>2 DEF ElectronTypes, StartupState, StopStates
  <2>5. StartedOnly'
    <3>1. \A b \in Backends : stops'[b] # "no" => stops[b] # "no" \/ b = held
        BY <1>1, <1>3, StoppingStops
    <3> QED
        BY <1>1, <1>2, <1>3, <2>1, <3>1, Numbers DEF StartedOnly, Steady
  <2>6. ASSUME Held PROVE ChildIsHeld' /\ QuitStops'
    <3>1. ChildIsHeld'
        BY <1>1, <1>2, <1>3, <2>1, <2>6 DEF Held, ChildIsHeld, Steady, Tends
    <3>2. QuitStops'
        BY <1>1, <1>2, <1>3, <2>1, <2>3, <2>6 DEF Held, QuitStops, Quieter, ElectronTypes
    <3> QED
        BY <3>1, <3>2
  <2> QED
      BY <1>1, <1>2, <2>2, <2>4, <2>6, <2>5 DEF ElectronSound, ElectronInv
<1>4. CASE /\ held \notin Backends \ exited /\ startup' = [Idle EXCEPT !.at = "probe"]
           /\ held' = (IF held \in Backends THEN 0 ELSE held) /\ UNCHANGED stops
  <2>1. startup' \in StartupState /\ startup'.at = "probe" /\ startup'.of = 0
      BY <1>4, Numbers DEF StartupState, Idle
  <2>2. StopsEnd'
      BY <1>1, <1>4 DEF StopsEnd
  <2>3. held' \in 0..Foreign /\ held' \notin Backends
      BY <1>1, <1>4, Numbers
  <2>4. StartedOnly'
      BY <1>1, <1>2, <1>4, <2>1, Numbers DEF StartedOnly, Steady
  <2>5. ElectronTypes'
      BY <1>1, <1>4, <2>1, <2>3 DEF ElectronTypes, StartupState
  <2>6. ASSUME Held PROVE ChildIsHeld' /\ QuitStops'
    <3>1. quit.at # "done" => child \notin Backends
        BY <1>1, <1>4, <2>6 DEF Held, ChildIsHeld, Tends
    <3>2. ChildIsHeld'
        BY <1>1, <1>2, <1>4, <2>6, <3>1 DEF Held, ChildIsHeld, Steady
    <3>3. quit.at = "stopping" => quit.of \in exited
        BY <1>1, <1>4, <2>6 DEF Held, QuitStops, ElectronTypes
    <3>4. QuitStops'
        BY <1>1, <1>2, <1>4, <2>1, <2>6, <3>3 DEF Held, QuitStops, Quieter
    <3> QED
        BY <3>2, <3>4
  <2> QED
      BY <1>1, <1>2, <2>2, <2>5, <2>6, <2>4 DEF ElectronSound, ElectronInv
<1>5. CASE startup' = Idle /\ UNCHANGED <<held, stops>>
  <2>1. startup' \in StartupState /\ startup'.at = "idle" /\ startup'.of = 0
      BY <1>5, Numbers DEF StartupState, Idle
  <2>2. StopsEnd'
      BY <1>1, <1>5 DEF StopsEnd
  <2>3. ElectronTypes'
      BY <1>1, <1>5, <2>1 DEF ElectronTypes, StartupState
  <2>4. StartedOnly'
      BY <1>1, <1>2, <1>5, <2>1, Numbers DEF StartedOnly, Steady
  <2>5. ASSUME Held PROVE ChildIsHeld' /\ QuitStops'
    <3>1. ChildIsHeld'
        BY <1>1, <1>2, <1>5, <2>1, <2>5 DEF Held, ChildIsHeld, Steady, Tends
    <3>2. QuitStops'
        BY <1>1, <1>2, <1>5, <2>1, <2>5 DEF Held, QuitStops, Quieter, ElectronTypes
    <3> QED
        BY <3>1, <3>2
  <2> QED
      BY <1>1, <1>2, <2>2, <2>3, <2>5, <2>4 DEF ElectronSound, ElectronInv
<1> QED
    BY <1>3, <1>4, <1>5 DEF Begin

LEMMA AskKeeps ==
    ASSUME ElectronSound, Ask
    PROVE  ElectronSound'
<1>1. CASE startup.at \in {"begin", "idle"} /\ Begin
    BY <1>1, BeginKeeps DEF Ask
<1>2. CASE UNCHANGED <<held, startup, stops>>
  <2>1. /\ ElectronTypes /\ StopsEnd /\ StartedOnly /\ (survivor \/ Held) /\ BackendInv
        /\ UNCHANGED <<held, startup, stops, child, quit, exited, survivor, orch, kids, crashed, port>>
      BY <1>2, ElectronParts DEF Ask
  <2>2. BackendInv' /\ Quieter /\ Steady
      BY <2>1, SameKeeps
  <2>3. ElectronTypes' /\ StopsEnd'
      BY <2>1 DEF ElectronTypes, StopsEnd
  <2>4. StartedOnly'
      BY <2>1, <2>2 DEF StartedOnly, Steady
  <2>5. ASSUME Held PROVE ChildIsHeld' /\ QuitStops'
      BY <2>1, <2>2, <2>5 DEF Held, ChildIsHeld, QuitStops, Quieter, Steady, Tends
  <2> QED
      BY <2>1, <2>2, <2>3, <2>5, <2>4 DEF ElectronSound, ElectronInv
<1> QED
    BY <1>1, <1>2 DEF Ask

\* A healthy service is used; else the one orchestrator is started.
LEMMA EnsureKeeps ==
    ASSUME ElectronSound, ~Settling, quit.at # "done", Ensure
    PROVE  ElectronSound'
<1>1. /\ ElectronTypes /\ StopsEnd /\ StartedOnly /\ (survivor \/ Held) /\ BackendInv /\ startup \in StartupState
      /\ startup.at = "probe" /\ UNCHANGED <<stops, quit, exited, survivor>>
    BY ElectronParts DEF Ensure
<1>2. CASE /\ UNCHANGED <<child, backendVars>>
           /\ \/ UNCHANGED held /\ Catch(held)
              \/ held' = Foreign /\ startup' = [startup EXCEPT !.at = "loading"]
  <2>1. BackendInv' /\ Quieter /\ Steady
      BY <1>1, <1>2, SameKeeps DEF backendVars
  <2>2. /\ startup' \in StartupState /\ startup'.of = startup.of
        /\ \/ startup'.at = "loading" /\ held' = Foreign
           \/ startup'.at = "catching" /\ held' = held /\ held \in Backends
           \/ startup'.at = "failed" /\ held' = held
      BY <1>1, <1>2 DEF StartupState, Catch
  <2>3. StopsEnd'
      BY <1>1, <1>2 DEF StopsEnd, backendVars
  <2>4. held' \in 0..Foreign
      BY <1>1, <2>2, Numbers DEF ElectronTypes
  <2>5. ElectronTypes'
      BY <1>1, <1>2, <2>2, <2>4 DEF ElectronTypes, StartupState
  <2>6. StartedOnly'
      BY <1>1, <1>2, <2>1, <2>2, Numbers DEF StartedOnly, Steady
  <2>7. ASSUME Held PROVE ChildIsHeld' /\ QuitStops'
    <3>1. child \notin Backends
        BY <1>1, <2>7 DEF Held, ChildIsHeld
    <3>2. ChildIsHeld'
        BY <1>1, <1>2, <2>1, <2>7, <3>1 DEF Held, ChildIsHeld, Steady
    <3>3. QuitStops'
        BY <1>1, <2>1, <2>2, <2>7 DEF Held, QuitStops, ElectronTypes, Quieter
    <3> QED
        BY <3>2, <3>3
  <2> QED
      BY <1>1, <2>1, <2>3, <2>5, <2>7, <2>6 DEF ElectronSound, ElectronInv
<1>3. ASSUME NEW b \in Backends, orch[b] = "none", Spawned(b), child' = b, held' = held,
             startup' = [startup EXCEPT !.at = "waiting", !.of = b]
      PROVE  ElectronSound'
  <2>1. /\ BackendInv' /\ orch'[b] = "warming"
        /\ \A c \in Backends \ {b} : orch'[c] = orch[c] /\ kids'[c] = kids[c]
      BY <1>1, <1>3, SpawnedKeeps
  <2>2. startup' \in StartupState /\ startup'.at = "waiting" /\ startup'.of = b
      BY <1>1, <1>3, Numbers DEF StartupState
  <2>3. b \notin exited /\ exited \subseteq Backends
      BY <1>1, <1>3 DEF StopsEnd, ElectronTypes
  <2>4. StopsEnd'
      BY <1>1, <1>3, <2>1, <2>3 DEF StopsEnd
  <2>5. ElectronTypes'
      BY <1>1, <1>3, <2>2, Numbers DEF ElectronTypes, StartupState
  <2>6. StartedOnly'
      BY <1>1, <1>3, <2>1, <2>2 DEF StartedOnly
  <2>7. ASSUME Held PROVE ChildIsHeld' /\ QuitStops'
    <3>1. \A c \in Backends : orch[c] # "none" => c \in exited
        BY <1>1, <2>7 DEF Held, ChildIsHeld
    <3>2. \A c \in Backends : orch'[c] # "none" => c = b \/ c \in exited
        BY <2>1, <3>1
    <3>3. ChildIsHeld'
        BY <1>1, <1>3, <2>2, <2>3, <3>2 DEF ChildIsHeld, Tends
    <3>4. quit.at \in {"no", "waiting"}
      <4>1. quit.at \in {"no", "waiting", "stopping"}
          BY ElectronParts DEF QuitState, Settling
      <4>2. ASSUME quit.at = "stopping"
            PROVE  FALSE
        <5>1. quit.of \in exited /\ quit.of \in Backends /\ stops[quit.of] # "no"
            BY <1>1, <2>7, <4>2 DEF Held, QuitStops, ElectronTypes
        <5>2. stops[quit.of] \in {"exited", "failed"}
            BY <1>1, <5>1 DEF StopsEnd, ElectronTypes
        <5> QED
            BY <5>1, <5>2 DEF Settling, Ended
      <4> QED
          BY <4>1, <4>2
    <3>5. QuitStops'
        BY <1>1, <1>3, <2>2, <2>7, <3>4 DEF Held, QuitStops
    <3> QED
        BY <3>3, <3>5
  <2> QED
      BY <1>1, <2>1, <2>4, <2>5, <2>7, <2>6 DEF ElectronSound, ElectronInv
<1> QED
    BY <1>2, <1>3 DEF Ensure, SpawnBackend

\* The page is loaded, or that fails and what is owned is stopped.
LEMMA LoadKeeps ==
    ASSUME ElectronSound, Load
    PROVE  ElectronSound'
<1>1. /\ ElectronTypes /\ StopsEnd /\ StartedOnly /\ (survivor \/ Held) /\ BackendInv
      /\ startup \in StartupState /\ stops \in [Backends -> StopStates] /\ held \in 0..Foreign
      /\ startup.at = "loading"
      /\ UNCHANGED <<held, child, quit, exited, survivor, orch, kids, crashed, port>>
    BY ElectronParts DEF Load
<1>2. BackendInv' /\ Quieter /\ Steady
    BY <1>1, SameKeeps
<1>3. \/ startup' = Idle /\ UNCHANGED stops
      \/ held \in Backends /\ startup' = [startup EXCEPT !.at = "catching"] /\ Stopping(held)
      \/ held \notin Backends /\ startup' = [startup EXCEPT !.at = "failed"] /\ UNCHANGED stops
    BY DEF Load, Catch
<1>4. /\ startup' \in StartupState /\ startup'.of \in {0, startup.of}
      /\ startup'.at \in {"idle", "catching", "failed"}
      /\ startup'.at = "catching" => held \in Backends /\ stops'[held] # "no"
      /\ startup'.at = "failed" => held \notin Backends
  <2>1. CASE startup' = Idle
      BY <2>1, Numbers DEF StartupState, Idle
  <2>2. CASE held \in Backends /\ startup' = [startup EXCEPT !.at = "catching"] /\ Stopping(held)
      BY <1>1, <2>2, StoppingStops DEF StartupState
  <2>3. CASE held \notin Backends /\ startup' = [startup EXCEPT !.at = "failed"]
      BY <1>1, <2>3 DEF StartupState
  <2> QED
      BY <1>3, <2>1, <2>2, <2>3
<1>5. /\ StopsEnd' /\ stops' \in [Backends -> StopStates]
      /\ \A b \in Backends : stops'[b] # "no" => stops[b] # "no" \/ b = held
      /\ \A b \in Backends : stops[b] # "no" => stops'[b] # "no"
  <2>1. CASE UNCHANGED stops
      BY <1>1, <2>1 DEF StopsEnd
  <2>2. CASE held \in Backends /\ Stopping(held)
      BY <1>1, <2>2, StopsEndStays, StoppingStops
  <2> QED
      BY <1>3, <2>1, <2>2
<1>6. ElectronTypes'
    BY <1>1, <1>4, <1>5 DEF ElectronTypes, StartupState, StopStates
<1>7. StartedOnly'
    BY <1>1, <1>2, <1>4, <1>5, Numbers DEF StartedOnly, Steady
<1>8. ASSUME Held PROVE ChildIsHeld' /\ QuitStops'
  <2>1. ChildIsHeld'
      BY <1>1, <1>2, <1>4, <1>8 DEF Held, ChildIsHeld, Steady, Tends
  <2>2. QuitStops'
      BY <1>1, <1>2, <1>4, <1>5, <1>8 DEF Held, QuitStops, Quieter, ElectronTypes
  <2> QED
      BY <2>1, <2>2
<1> QED
    BY <1>1, <1>2, <1>5, <1>6, <1>7, <1>8 DEF ElectronSound, ElectronInv

LEMMA GiveUpKeeps ==
    ASSUME ElectronSound, GiveUp
    PROVE  ElectronSound'
<1>1. /\ ElectronTypes /\ StopsEnd /\ StartedOnly /\ (survivor \/ Held) /\ BackendInv
      /\ startup.at = "failed" /\ startup' = Idle /\ held \in 0..Foreign
      /\ held' = IF held \in Backends THEN held ELSE 0
      /\ UNCHANGED <<child, stops, quit, exited, survivor, backendVars>>
    BY ElectronParts DEF GiveUp
<1>2. BackendInv' /\ Quieter /\ Steady
    BY <1>1, SameKeeps DEF backendVars
<1>3. startup' \in StartupState /\ startup'.at = "idle" /\ startup'.of = 0
    BY <1>1, Numbers DEF StartupState, Idle
<1>4. held' \in 0..Foreign
    BY <1>1, Numbers
<1>5. ElectronTypes' /\ StopsEnd'
    BY <1>1, <1>3, <1>4 DEF ElectronTypes, StopsEnd, StartupState, backendVars
<1>6. StartedOnly'
    BY <1>1, <1>2, <1>3, Numbers DEF StartedOnly, Steady
<1>7. ASSUME Held PROVE ChildIsHeld' /\ QuitStops'
  <2>1. ChildIsHeld'
      BY <1>1, <1>2, <1>7 DEF Held, ChildIsHeld, Steady
  <2>2. QuitStops'
      BY <1>1, <1>2, <1>3, <1>7 DEF Held, QuitStops, Quieter
  <2> QED
      BY <2>1, <2>2
<1> QED
    BY <1>1, <1>2, <1>5, <1>6, <1>7 DEF ElectronSound, ElectronInv

\* Only after a taskkill that failed does a startup stop its session again.
LEMMA CatchStopsKeeps ==
    ASSUME ElectronSound, quit.at # "done", CatchStops
    PROVE  ElectronSound'
<1>1. /\ ElectronTypes /\ StopsEnd /\ StartedOnly /\ (survivor \/ Held) /\ BackendInv
      /\ startup \in StartupState /\ stops \in [Backends -> StopStates]
      /\ startup.at = "recatch" /\ held \in Backends
      /\ startup' = [startup EXCEPT !.at = "catching"] /\ Stopping(held)
      /\ UNCHANGED <<held, child, quit, exited, survivor, orch, kids, crashed, port>>
    BY ElectronParts DEF CatchStops, ElectronTypes
<1>2. BackendInv' /\ Quieter /\ Steady
    BY <1>1, SameKeeps
<1>3. startup' \in StartupState /\ startup'.at = "catching" /\ startup'.of = startup.of
    BY <1>1 DEF StartupState
<1>4. /\ StopsEnd' /\ stops' \in [Backends -> StopStates]
      /\ \A b \in Backends : stops'[b] # "no" => stops[b] # "no" \/ b = held
    BY <1>1, StopsEndStays, StoppingStops
<1>5. ElectronTypes'
    BY <1>1, <1>3, <1>4 DEF ElectronTypes, StartupState, StopStates
<1>6. StartedOnly'
    BY <1>1, <1>2, <1>3, <1>4 DEF StartedOnly, Steady
<1>7. survivor'
    BY <1>1 DEF Held, QuitStops
<1> QED
    BY <1>2, <1>4, <1>5, <1>6, <1>7 DEF ElectronSound, ElectronInv

\* taskkill ends a child that does not end in time, or the child survives it.
LEMMA StopChildKeeps ==
    ASSUME ElectronSound, NEW b \in Backends, StopChild(b)
    PROVE  ElectronSound'
<1>1. /\ ElectronTypes /\ StopsEnd /\ StartedOnly /\ (survivor \/ Held) /\ BackendInv
      /\ stops \in [Backends -> StopStates] /\ b \notin exited
      /\ stops[b] # "no" /\ orch[b] # "none"
      /\ UNCHANGED <<held, child, startup, quit, exited>>
    BY ElectronParts DEF StopChild, StartedOnly
<1>2. BackendInv' /\ Quieter /\ Steady
  <2>1. CASE Killed(b)
      BY <1>1, <2>1, KilledKeeps
  <2>2. CASE UNCHANGED backendVars
      BY <1>1, <2>2, SameKeeps DEF backendVars
  <2> QED
      BY <2>1, <2>2 DEF StopChild, KillTree
<1>3. /\ stops' \in [Backends -> StopStates] /\ stops'[b] # "no"
      /\ \A c \in Backends \ {b} : stops'[c] = stops[c]
      /\ survivor' \in BOOLEAN
      /\ \/ stops'[b] = "killed" /\ survivor' = survivor
         \/ stops'[b] = "failed" /\ survivor'
  <2>1. survivor \in BOOLEAN
      BY ElectronParts
  <2>2. CASE stops' = [stops EXCEPT ![b] = "killed"] /\ UNCHANGED survivor
      BY <1>1, <2>1, <2>2 DEF StopStates
  <2>3. CASE stops' = [stops EXCEPT ![b] = "failed"] /\ survivor' = TRUE
      BY <1>1, <2>3 DEF StopStates
  <2> QED
      BY <2>2, <2>3 DEF StopChild
<1>4. ElectronTypes'
    BY <1>1, <1>3 DEF ElectronTypes, StopStates
<1>5. StopsEnd'
    BY <1>1, <1>2, <1>3, ElectronParts DEF StopsEnd, Quieter
<1>6. StartedOnly'
    BY <1>1, <1>2, <1>3 DEF StartedOnly, Steady
<1>7. ASSUME Held PROVE ChildIsHeld' /\ QuitStops'
  <2>1. ChildIsHeld'
      BY <1>1, <1>2, <1>7 DEF Held, ChildIsHeld, Steady, Tends
  <2>2. QuitStops'
      BY <1>1, <1>2, <1>3, <1>7 DEF Held, QuitStops, Quieter, ElectronTypes
  <2> QED
      BY <2>1, <2>2
<1> QED
    BY <1>1, <1>2, <1>3, <1>4, <1>5, <1>6, <1>7 DEF ElectronSound, ElectronInv

\* With the child's exit nothing is left that runs.
LEMMA ChildExitKeeps ==
    ASSUME ElectronSound, quit.at # "done", NEW b \in Backends, ChildExit(b)
    PROVE  ElectronSound'
<1>1. /\ ElectronTypes /\ StopsEnd /\ StartedOnly /\ (survivor \/ Held) /\ BackendInv
      /\ stops \in [Backends -> StopStates] /\ child \in 0..MaxBackends
      /\ orch[b] = "gone" /\ b \notin exited /\ exited' = exited \cup {b}
      /\ child' = IF child = b THEN 0 ELSE child
      /\ stops' = IF stops[b] \in {"asked", "killed"} THEN [stops EXCEPT ![b] = "exited"] ELSE stops
      /\ UNCHANGED <<held, startup, quit, survivor, backendVars>>
    BY ElectronParts DEF ChildExit
<1>2. BackendInv' /\ Quieter /\ Steady /\ UNCHANGED orch
    BY <1>1, SameKeeps DEF backendVars
<1>3. /\ stops' \in [Backends -> StopStates]
      /\ \A c \in Backends : stops'[c] # "no" <=> stops[c] # "no"
      /\ \A c \in Backends \ {b} : stops'[c] = stops[c]
      /\ stops'[b] \notin {"asked", "killed"} /\ (stops'[b] # "exited" => stops'[b] = stops[b])
    BY <1>1 DEF StopStates
<1>4. child' \in 0..MaxBackends /\ exited' \subseteq Backends
    BY <1>1, Numbers DEF ElectronTypes
<1>5. ElectronTypes'
    BY <1>1, <1>3, <1>4 DEF ElectronTypes, StopStates
<1>6. StopsEnd'
    BY <1>1, <1>2, <1>3, ElectronParts DEF StopsEnd
<1>7. StartedOnly'
    BY <1>1, <1>2, <1>3, Numbers DEF StartedOnly
<1>8. ASSUME Held PROVE ChildIsHeld' /\ QuitStops'
  <2>1. ChildIsHeld'
      BY <1>1, <1>2, <1>8, Numbers DEF Held, ChildIsHeld, Tends
  <2>2. ASSUME quit.at = "stopping", quit.of \in exited'
        PROVE  \A c \in Backends : ~Up(c)'
    <3>1. CASE quit.of \in exited
        BY <1>2, <1>8, <2>2, <3>1 DEF Held, QuitStops, Quieter
    <3>2. CASE quit.of \notin exited
      <4>1. quit.of = b /\ held = b /\ startup.at \in {"idle", "clearing"}
          BY <1>1, <1>8, <2>2, <3>2 DEF Held, QuitStops
      <4>2. child = b
          BY <1>1, <1>8 DEF Held, ChildIsHeld
      <4>3. \A c \in Backends : orch[c] # "none" => orch[c] = "gone"
          BY <1>1, <1>8, <4>2 DEF Held, ChildIsHeld, StopsEnd
      <4> QED
          BY <1>2, <4>3 DEF Up
    <3> QED
        BY <3>1, <3>2
  <2>3. QuitStops'
      BY <1>1, <1>2, <1>3, <1>8, <2>2 DEF Held, QuitStops, Quieter, ElectronTypes
  <2> QED
      BY <2>1, <2>3
<1> QED
    BY <1>1, <1>2, <1>5, <1>6, <1>7, <1>8 DEF ElectronSound, ElectronInv

\* The shell is asked to quit; it is done at once if it has nothing.
LEMMA QuitKeeps ==
    ASSUME ElectronSound, Quit
    PROVE  ElectronSound'
<1>1. /\ ElectronTypes /\ StopsEnd /\ StartedOnly /\ (survivor \/ Held) /\ BackendInv
      /\ startup \in StartupState /\ quit \in QuitState
      /\ held \in 0..Foreign /\ child \in 0..MaxBackends /\ quit.at = "no"
      /\ UNCHANGED <<held, child, stops, exited, survivor, backendVars>>
    BY ElectronParts DEF Quit
<1>2. BackendInv' /\ Quieter /\ Steady
    BY <1>1, SameKeeps DEF backendVars
<1>3. Owned \in 0..MaxBackends /\ (Owned \in Backends => Owned \in {held, child})
    BY <1>1, Numbers DEF Owned
<1>4. CASE startup.at = "idle" /\ Owned = 0 /\ quit' = [quit EXCEPT !.at = "done"] /\ UNCHANGED startup
  <2>1. quit' \in QuitState /\ quit'.at = "done" /\ quit'.of = quit.of
      BY <1>1, <1>4 DEF QuitState
  <2>2. ElectronTypes' /\ StopsEnd' /\ StartedOnly'
      BY <1>1, <1>2, <1>4, <2>1 DEF ElectronTypes, QuitState, StopsEnd, StartedOnly, Steady, backendVars
  <2>3. ASSUME Held PROVE ChildIsHeld' /\ QuitStops'
    <3>1. child \notin Backends
        BY <1>1, <1>4, Numbers DEF Owned
    <3>2. \A b \in Backends : ~Up(b)
        BY <1>1, <2>3, <3>1 DEF Held, ChildIsHeld, StopsEnd, Up
    <3>3. QuitStops'
        BY <1>1, <1>2, <1>4, <2>1, <2>3, <3>2 DEF Held, QuitStops, Quieter
    <3> QED
        BY <2>1, <3>3 DEF ChildIsHeld
  <2> QED
      BY <1>1, <1>2, <2>2, <2>3 DEF ElectronSound, ElectronInv
<1>5. CASE /\ quit' = [at |-> "waiting", of |-> Owned]
           /\ startup' = [startup EXCEPT !.aborted = @ \/ startup.at # "idle"]
  <2>1. /\ quit' \in QuitState /\ quit'.at = "waiting" /\ quit'.of = Owned
        /\ startup' \in StartupState /\ startup'.at = startup.at /\ startup'.of = startup.of
      BY <1>1, <1>3, <1>5 DEF QuitState, StartupState
  <2>2. ElectronTypes' /\ StopsEnd'
      BY <1>1, <1>5, <2>1 DEF ElectronTypes, QuitState, StartupState, StopsEnd, backendVars
  <2>3. StartedOnly'
      BY <1>1, <1>2, <1>3, <2>1 DEF StartedOnly, Steady
  <2>4. ASSUME Held PROVE ChildIsHeld' /\ QuitStops'
    <3>1. ChildIsHeld'
        BY <1>1, <1>2, <2>1, <2>4 DEF Held, ChildIsHeld, Steady, Tends
    <3>2. QuitStops'
        BY <1>1, <1>2, <2>1, <2>4 DEF Held, QuitStops, Quieter
    <3> QED
        BY <3>1, <3>2
  <2> QED
      BY <1>1, <1>2, <2>2, <2>3, <2>4 DEF ElectronSound, ElectronInv
<1> QED
    BY <1>4, <1>5 DEF Quit

\* When the startup has ended, what is owned is stopped.
LEMMA QuitGoesOnKeeps ==
    ASSUME ElectronSound, QuitGoesOn
    PROVE  ElectronSound'
<1>1. /\ ElectronTypes /\ StopsEnd /\ StartedOnly /\ (survivor \/ Held) /\ BackendInv
      /\ quit \in QuitState /\ stops \in [Backends -> StopStates]
      /\ held \in 0..Foreign /\ child \in 0..MaxBackends
      /\ quit.at = "waiting" /\ quit.of \in 0..MaxBackends /\ startup.at = "idle"
      /\ UNCHANGED <<held, child, startup, exited, survivor, orch, kids, crashed, port>>
    BY ElectronParts DEF QuitGoesOn, QuitState
<1>2. BackendInv' /\ Quieter /\ Steady
    BY <1>1, SameKeeps
<1> DEFINE known == IF Owned # 0 THEN Owned ELSE quit.of
<1>3. Owned \in 0..MaxBackends /\ (Owned \in Backends => Owned \in {held, child})
    BY <1>1, Numbers DEF Owned
<1>4. CASE known = 0 /\ quit' = [quit EXCEPT !.at = "ending"] /\ UNCHANGED stops
  <2>1. quit' \in QuitState /\ quit'.at = "ending" /\ quit'.of = quit.of
      BY <1>1, <1>4 DEF QuitState
  <2>2. ElectronTypes' /\ StopsEnd' /\ StartedOnly'
      BY <1>1, <1>2, <1>4, <2>1 DEF ElectronTypes, QuitState, StopsEnd, StartedOnly, Steady
  <2>3. ASSUME Held PROVE ChildIsHeld' /\ QuitStops'
    <3>1. child \notin Backends
        BY <1>1, <1>4, Numbers DEF Owned
    <3>2. \A b \in Backends : ~Up(b)
        BY <1>1, <2>3, <3>1 DEF Held, ChildIsHeld, StopsEnd, Up
    <3>3. QuitStops'
        BY <1>1, <1>2, <1>4, <2>1, <2>3, <3>2 DEF Held, QuitStops, Quieter
    <3>4. ChildIsHeld'
        BY <1>1, <1>2, <2>1, <2>3, <3>1 DEF Held, ChildIsHeld, Steady
    <3> QED
        BY <3>3, <3>4
  <2> QED
      BY <1>1, <1>2, <2>2, <2>3 DEF ElectronSound, ElectronInv
<1>5. CASE known # 0 /\ quit' = [at |-> "stopping", of |-> known] /\ Stopping(known)
  <2>1. PICK b \in Backends : b = known
      BY <1>1, <1>3, <1>5 DEF Backends
  <2>2. b \in {held, child, quit.of} /\ orch[b] # "none"
      BY <1>1, <1>3, <2>1 DEF StartedOnly
  <2>3. quit' = [at |-> "stopping", of |-> b] /\ Stopping(b)
      BY <1>5, <2>1
  <2>4. quit' \in QuitState /\ quit'.at = "stopping" /\ quit'.of = b
      BY <2>3, Numbers DEF QuitState
  <2>5. /\ StopsEnd' /\ stops' \in [Backends -> StopStates] /\ stops'[b] # "no"
        /\ \A c \in Backends \ {b} : stops'[c] = stops[c]
      BY <1>1, <2>3, StopsEndStays, StoppingStops
  <2>6. ElectronTypes'
      BY <1>1, <2>4, <2>5 DEF ElectronTypes, QuitState, StopStates
  <2>7. StartedOnly'
      BY <1>1, <1>2, <2>2, <2>4, <2>5 DEF StartedOnly, Steady
  <2>8. ASSUME Held PROVE ChildIsHeld' /\ QuitStops'
    <3>1. ChildIsHeld'
        BY <1>1, <1>2, <2>4, <2>8 DEF Held, ChildIsHeld, Steady, Tends
    <3>2. b \notin exited => held = b
        BY <1>1, <1>3, <2>1, <2>2, <2>8, Numbers DEF Held, ChildIsHeld, Tends, Owned
    <3>3. ASSUME b \in exited PROVE \A c \in Backends : ~Up(c)
      <4>1. child \notin Backends
          BY <1>1, <2>1, <2>8, <3>3, Numbers DEF Held, ChildIsHeld, Tends, Owned
      <4> QED
          BY <1>1, <2>8, <4>1 DEF Held, ChildIsHeld, StopsEnd, Up
    <3>4. QuitStops'
        BY <1>1, <1>2, <2>4, <2>5, <2>8, <3>2, <3>3 DEF Held, QuitStops, Quieter
    <3> QED
        BY <3>1, <3>4
  <2> QED
      BY <1>1, <1>2, <2>5, <2>6, <2>7, <2>8 DEF ElectronSound, ElectronInv
<1> QED
    BY <1>4, <1>5 DEF QuitGoesOn

LEMMA QuitEndsKeeps ==
    ASSUME ElectronSound, QuitEnds
    PROVE  ElectronSound'
<1>1. /\ ElectronTypes /\ StopsEnd /\ StartedOnly /\ (survivor \/ Held) /\ BackendInv
      /\ quit \in QuitState /\ quit.at = "ending" /\ quit' = [quit EXCEPT !.at = "done"]
      /\ held' = 0 /\ child' = 0
      /\ UNCHANGED <<startup, stops, exited, survivor, backendVars>>
    BY ElectronParts DEF QuitEnds
<1>2. BackendInv' /\ Quieter /\ Steady
    BY <1>1, SameKeeps DEF backendVars
<1>3. quit' \in QuitState /\ quit'.at = "done" /\ quit'.of = quit.of
    BY <1>1 DEF QuitState
<1>4. ElectronTypes' /\ StopsEnd'
    BY <1>1, <1>3, Numbers DEF ElectronTypes, QuitState, StopsEnd, backendVars
<1>5. StartedOnly'
    BY <1>1, <1>2, <1>3, Numbers DEF StartedOnly, Steady
<1>6. ASSUME Held PROVE ChildIsHeld' /\ QuitStops'
  <2>1. ChildIsHeld'
      BY <1>3 DEF ChildIsHeld
  <2>2. QuitStops'
      BY <1>1, <1>2, <1>3, <1>6 DEF Held, QuitStops, Quieter
  <2> QED
      BY <2>1, <2>2
<1> QED
    BY <1>1, <1>2, <1>4, <1>5, <1>6 DEF ElectronSound, ElectronInv

\* A stop is over, and what waited for it goes on.
LEMMA StopEndsKeeps ==
    ASSUME ElectronSound, quit.at # "done", NEW b \in Backends, StopEnds(b)
    PROVE  ElectronSound'
<1>1. /\ ElectronTypes /\ StopsEnd /\ StartedOnly /\ (survivor \/ Held) /\ BackendInv
      /\ startup \in StartupState /\ quit \in QuitState /\ stops \in [Backends -> StopStates]
      /\ held \in 0..Foreign /\ stops[b] \in {"exited", "failed"}
      /\ stops' = [stops EXCEPT ![b] = "no"]
      /\ UNCHANGED <<child, exited, survivor, backendVars>>
    BY ElectronParts DEF StopEnds, Ended
<1>2. BackendInv' /\ Quieter /\ Steady
    BY <1>1, SameKeeps DEF backendVars
<1>3. /\ stops' \in [Backends -> StopStates] /\ stops'[b] = "no"
      /\ \A c \in Backends \ {b} : stops'[c] = stops[c]
    BY <1>1 DEF StopStates
<1>4. /\ quit' \in QuitState /\ quit'.of = quit.of
      /\ IF quit.at = "stopping" /\ quit.of = b THEN quit'.at = "ending" ELSE quit'.at = quit.at
    BY <1>1 DEF StopEnds, QuitState
<1>5. StopsEnd'
    BY <1>1, <1>2, <1>3, ElectronParts DEF StopsEnd, backendVars
<1>6. (stops[b] = "exited" /\ b \in exited) \/ survivor
    BY <1>1 DEF StopsEnd
<1>7. ASSUME Held, ~survivor, quit'.at = "ending"
      PROVE  \A c \in Backends : ~Up(c)
    BY <1>1, <1>4, <1>6, <1>7 DEF Held, QuitStops
<1>8. CASE ~Waits(b)
  <2>1. UNCHANGED <<startup, held>>
      BY <1>8 DEF StopEnds
  <2>2. ElectronTypes'
      BY <1>1, <1>3, <1>4, <2>1 DEF ElectronTypes, QuitState, StopStates
  <2>3. StartedOnly'
      BY <1>1, <1>2, <1>3, <1>4, <2>1 DEF StartedOnly, Steady
  <2>4. ASSUME Held, ~survivor PROVE ChildIsHeld' /\ QuitStops'
    <3>1. ChildIsHeld'
        BY <1>1, <1>2, <1>4, <2>1, <2>4 DEF Held, ChildIsHeld, Steady, Tends
    <3>2. QuitStops'
        BY <1>1, <1>2, <1>3, <1>4, <1>7, <1>8, <2>1, <2>4 DEF Held, QuitStops, Quieter, Waits, ElectronTypes
    <3> QED
        BY <3>1, <3>2
  <2> QED
      BY <1>1, <1>2, <1>5, <2>2, <2>3, <2>4 DEF ElectronSound, ElectronInv
<1>9. CASE Waits(b)
  <2>1. /\ held' = IF stops[b] = "exited" /\ startup.at # "ending" THEN 0 ELSE held
        /\ startup' \in StartupState /\ startup'.of = startup.of
        /\ startup.at \in {"clearing", "catching", "ending"}
        /\ startup.at = "clearing" /\ stops[b] = "exited" => startup'.at = "probe"
        /\ startup.at = "clearing" /\ stops[b] = "failed" => startup'.at = "recatch"
        /\ startup.at # "clearing" => startup'.at = "failed"
      BY <1>1, <1>9 DEF StopEnds, StartupState, Waits
  <2>2. held' \in 0..Foreign /\ (held' \in Backends => held' = held)
      BY <1>1, <2>1, Numbers
  <2>3. ElectronTypes'
      BY <1>1, <1>3, <1>4, <1>9, <2>1, <2>2, Numbers DEF ElectronTypes, QuitState, StartupState, StopStates, Waits
  <2>4. StartedOnly'
      BY <1>1, <1>2, <1>3, <1>4, <2>1, <2>2 DEF StartedOnly, Steady
  <2>5. ASSUME Held, ~survivor PROVE ChildIsHeld' /\ QuitStops'
    <3>1. b \in exited /\ stops[b] = "exited"
        BY <1>1, <1>6, <2>5
    <3>2. child \notin Backends
        BY <1>1, <1>9, <3>1, <2>5 DEF Held, ChildIsHeld, Waits, Tends
    <3>3. ChildIsHeld'
        BY <1>1, <1>2, <2>5, <3>2 DEF Held, ChildIsHeld, Steady
    <3>4. quit.at = "stopping" => quit.of \in exited
        BY <1>1, <1>9, <3>1, <2>5 DEF Held, QuitStops, Waits, ElectronTypes
    <3>5. QuitStops'
        BY <1>1, <1>2, <1>3, <1>4, <1>7, <2>1, <2>5, <3>1, <3>4 DEF Held, QuitStops, Quieter, ElectronTypes
    <3> QED
        BY <3>3, <3>5
  <2> QED
      BY <1>1, <1>2, <1>5, <2>3, <2>4, <2>5 DEF ElectronSound, ElectronInv
<1> QED
    BY <1>8, <1>9

LEMMA ElectronStepKeeps ==
    ASSUME ElectronSound, ElectronNext
    PROVE  ElectronSound'
<1>1. quit.at # "done"
    BY DEF ElectronNext
<1>2. CASE Settling
    BY <1>1, <1>2, CatchStopsKeeps, GiveUpKeeps, QuitGoesOnKeeps, QuitEndsKeeps, StopEndsKeeps
    DEF ElectronNext, Settles
<1>3. CASE ~Settling
    BY <1>1, <1>3, AskKeeps, EnsureKeeps, PollKeeps, WaitKeeps, LoadKeeps, QuitKeeps,
       StopChildKeeps, ChildExitKeeps
    DEF ElectronNext, Event
<1> QED
    BY <1>2, <1>3

-----------------------------------------------------------------------------
(***************************************************************************)
(* The desktop application.                                                *)
(***************************************************************************)

\* A shell that is not installed stays as it is.
LEMMA TauriStays ==
    ASSUME TauriInv, UNCHANGED tauriVars
    PROVE  TauriInv' /\ UNCHANGED exiting
<1>1. UNCHANGED <<sess, stop, gate, step, gen, exiting, phase, starts, monitors>>
    BY DEF tauriVars
<1>2. Watching' = Watching /\ Entered' = Entered
    BY <1>1, WatchingStays DEF Entered
<1>3. TauriTypes' /\ HolderKnows' /\ Watched'
    BY <1>1 DEF TauriInv, TauriTypes, HolderKnows, Watched
<1>4. GenerationsCounted'
    BY <1>1, <1>2 DEF TauriInv, GenerationsCounted
<1> QED
    BY <1>1, <1>3, <1>4 DEF TauriInv

LEMMA ElectronStays ==
    ASSUME ElectronTypes, UNCHANGED electronVars
    PROVE  ElectronTypes' /\ UNCHANGED quit
    BY DEF ElectronTypes, electronVars

LEMMA OneTurn == Cardinality(Turns(<<"startup">>)) = 1
<1>1. Turns(<<"startup">>) = {1}
    BY DEF Turns
<1> QED
    BY <1>1, FS_Singleton

LEMMA DesktopBegins == Init => DesktopInv
<1> SUFFICES ASSUME Init
             PROVE  DesktopInv
    OBVIOUS
<1>1. BackendInv
  <2>1. port \in [by : {0, Foreign}, ready : BOOLEAN]
    <3>1. port = [by |-> 0, ready |-> FALSE] \/ port = [by |-> Foreign, ready |-> TRUE]
        BY Zenon DEF Init, BackendInit
    <3>2. \A p \in {0, Foreign}, r \in BOOLEAN :
             [by |-> p, ready |-> r] \in [by : {0, Foreign}, ready : BOOLEAN]
        OBVIOUS
    <3> QED
        BY <3>1, <3>2
  <2>2. port \in [by : 0..Foreign, ready : BOOLEAN] /\ port.by \notin Backends
      BY <2>1, NobodyIsNone, BackendAssumption DEF Foreign
  <2> QED
      BY <2>2 DEF Init, BackendInit, BackendInv, ChildrenGoFirst
<1>2. TauriInv
  <2>1. TauriTypes
      BY Numbers, TauriAssumption DEF Init, TauriInit, TauriTypes, NoStop, Tasks, Stages, MonitorState
  <2>2. HolderKnows
      BY DEF Init, TauriInit, HolderKnows, NoStop
  <2>3. Watching = 0 /\ Entered = 0 /\ gen = 0 /\ starts = 1 /\ gate = <<"startup">>
      BY DEF Init, TauriInit, Watching, Entered
  <2>4. GenerationsCounted
      BY <2>3, OneTurn DEF GenerationsCounted
  <2>5. Watched
      BY <2>3 DEF Watched
  <2> QED
      BY <2>1, <2>2, <2>4, <2>5 DEF TauriInv
<1>3. ElectronInv
  <2>1. startup \in StartupState /\ startup.at = "begin" /\ startup.of = 0
      BY Numbers DEF Init, ElectronInit, Idle, StartupState
  <2>2. quit \in QuitState /\ quit.at = "no" /\ quit.of = 0
      BY Numbers DEF Init, ElectronInit, QuitState
  <2>3. /\ held = 0 /\ child = 0 /\ exited = {} /\ survivor = FALSE
        /\ stops = [b \in Backends |-> "no"] /\ orch = [b \in Backends |-> "none"]
      BY DEF Init, ElectronInit, BackendInit
  <2>4. ElectronTypes
      BY <2>1, <2>2, <2>3, Numbers DEF ElectronTypes, StartupState, QuitState
  <2>5. StopsEnd /\ StartedOnly
      BY <2>1, <2>2, <2>3, Numbers DEF StopsEnd, StartedOnly
  <2>6. ChildIsHeld /\ QuitStops
      BY <2>1, <2>2, <2>3, Numbers DEF ChildIsHeld, QuitStops
  <2> QED
      BY <2>4, <2>5, <2>6 DEF ElectronInv
<1>4. OwnedIsKnown /\ quit.at = "no" /\ exiting = "no"
    BY DEF Init, BackendInit, TauriInit, ElectronInit, OwnedIsKnown, Alive, Up
<1> QED
    BY <1>1, <1>2, <1>3, <1>4 DEF DesktopInv, Init, ElectronInv

LEMMA DesktopKeeps == DesktopInv /\ [Next]_vars => DesktopInv'
<1> SUFFICES ASSUME DesktopInv, [Next]_vars
             PROVE  DesktopInv'
    OBVIOUS
<1>1. shell \in {"tauri", "electron"} /\ UNCHANGED shell /\ BackendInv /\ TauriInv /\ ElectronTypes
    BY DEF DesktopInv, Next, vars
<1>2. shell = "tauri" => TauriSound /\ quit.at = "no"
    BY DEF DesktopInv, TauriSound
<1>3. shell = "electron" => ElectronSound /\ exiting = "no"
    BY DEF DesktopInv, ElectronSound
<1>4. CASE shell = "tauri" /\ TauriNext /\ UNCHANGED electronVars
  <2>1. TauriSound'
      BY <1>2, <1>4, TauriStepKeeps
  <2>2. ElectronTypes' /\ quit'.at = "no"
      BY <1>1, <1>2, <1>4, ElectronStays
  <2> QED
      BY <1>1, <1>4, <2>1, <2>2 DEF DesktopInv, TauriSound
<1>5. CASE shell = "electron" /\ ElectronNext /\ UNCHANGED tauriVars
  <2>1. ElectronSound'
      BY <1>3, <1>5, ElectronStepKeeps
  <2>2. TauriInv' /\ exiting' = "no"
      BY <1>1, <1>3, <1>5, TauriStays
  <2> QED
      BY <1>1, <1>5, <2>1, <2>2 DEF DesktopInv, ElectronSound, ElectronInv
<1>6. CASE BackendInv' /\ Quieter /\ Steady /\ UNCHANGED <<tauriVars, electronVars>>
  <2>1. TauriInv' /\ ElectronTypes' /\ UNCHANGED <<exiting, quit>>
      BY <1>1, <1>6, TauriStays, ElectronStays
  <2>2. shell = "tauri" => TauriSound'
      BY <1>2, <1>6, TauriRests
  <2>3. shell = "electron" => ElectronSound'
      BY <1>3, <1>6, ElectronRests
  <2> QED
      BY <1>1, <1>2, <1>3, <1>6, <2>1, <2>2, <2>3 DEF DesktopInv, TauriSound, ElectronSound
<1>7. CASE BackendNext /\ UNCHANGED <<tauriVars, electronVars>>
    BY <1>1, <1>6, <1>7, BackendNextKeeps
<1>8. CASE UNCHANGED vars
  <2>1. UNCHANGED <<orch, kids, crashed, port>> /\ UNCHANGED <<tauriVars, electronVars>>
      BY <1>8 DEF vars, backendVars
  <2> QED
      BY <1>1, <1>6, <2>1, SameKeeps
<1> QED
    BY <1>4, <1>5, <1>7, <1>8 DEF Next

\* A startup that has entered holds a turn of its own.
LEMMA GenerationsAreFew == TauriInv => gen \in 0..(2 * MaxStarts)
<1> SUFFICES ASSUME TauriInv
             PROVE  gen \in 0..(2 * MaxStarts)
    OBVIOUS
<1> DEFINE c == Cardinality(Turns(gate))
           w == Watching
           e == Entered
<1>1. /\ gen \in Nat /\ starts \in Nat /\ starts <= MaxStarts /\ MaxStarts \in Nat
      /\ gate \in Seq(Tasks)
    BY TauriAssumption DEF TauriInv, TauriTypes
<1>2. c \in Nat /\ w \in {0, 1} /\ e \in {0, 1}
    BY <1>1, TurnsAreFinite, WatchingCounts
<1>3. gen + 2 * c + w <= 2 * starts + e
    BY DEF TauriInv, GenerationsCounted
<1>4. e = 1 => c >= 1
  <2> SUFFICES ASSUME step # "enter"
               PROVE  c >= 1
      BY DEF Entered
  <2>1. gate # <<>> /\ Head(gate) = "startup"
      BY DEF TauriInv, HolderKnows
  <2>2. Tail(gate) \in Seq(Tasks) /\ Cardinality(Turns(Tail(gate))) < c
      BY <1>1, <2>1, GateMoves
  <2>3. Cardinality(Turns(Tail(gate))) \in Nat
      BY <2>2, TurnsAreFinite
  <2> QED
      BY <1>2, <2>2, <2>3
<1> HIDE DEF c, w, e
<1> QED
    BY ONLY <1>1, <1>2, <1>3, <1>4

\* An Electron shell's orchestrator that runs is its child, unless a taskkill has failed.
LEMMA ChildIsKnownThen == ElectronInv => ChildIsKnown
    BY DEF ElectronInv, ChildIsHeld, QuitStops, StopsEnd, ChildIsKnown, Up

LEMMA DesktopKeepsProcesses == DesktopInv => ProcessesAreKept
<1> SUFFICES ASSUME DesktopInv
             PROVE  ProcessesAreKept
    OBVIOUS
<1>1. BackendInv /\ TauriInv /\ ElectronTypes
    BY DEF DesktopInv
<1>2. TypeOK
  <2>1. gen \in 0..(2 * MaxStarts)
      BY <1>1, GenerationsAreFew
  <2> QED
      BY <1>1, <2>1 DEF TypeOK, BackendInv, TauriInv, TauriTypes, ElectronTypes
<1>3. StartedIsKnown
    BY ChildIsKnownThen DEF DesktopInv, StartedIsKnown
<1> QED
    BY <1>1, <1>2, <1>3 DEF ProcessesAreKept, BackendInv

\* What a shell has started and still runs it knows and will stop, and an orchestrator
\* that ends through its finally block leaves no child behind: for any number of
\* orchestrators, startups, monitors and failed probes.  src-tauri/src/app.rs
\* (stop_current_session, run_startup), desktop/main.cjs, lib/backend-supervisor.cjs and
\* the finally block of scripts/run_local_stream.py.
THEOREM ProcessesKept == Spec => []ProcessesAreKept
<1>1. Init => DesktopInv
    BY DesktopBegins
<1>2. DesktopInv /\ [Next]_vars => DesktopInv'
    BY DesktopKeeps
<1>3. DesktopInv => ProcessesAreKept
    BY DesktopKeepsProcesses
<1> QED
    BY <1>1, <1>2, <1>3, PTL DEF Spec

\* A backend that the Tauri shell shows as ready is watched: by the monitor of the startup
\* generation under way, or by one that is just reporting it lost, whoever advanced the
\* generation meanwhile.  src-tauri/src/app.rs (run_startup, start_owned_backend_monitor,
\* start_external_backend_monitor, transition_backend_failure).
THEOREM ReadyWatched == Spec => []ReadyIsWatched
<1>1. Init => DesktopInv
    BY DesktopBegins
<1>2. DesktopInv /\ [Next]_vars => DesktopInv'
    BY DesktopKeeps
<1>3. DesktopInv => ReadyIsWatched
    BY DEF DesktopInv, TauriInv, Watched, ReadyIsWatched
<1> QED
    BY <1>1, <1>2, <1>3, PTL DEF Spec
=============================================================================
