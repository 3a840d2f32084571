-------------------------- MODULE RendererRuntime --------------------------
(***************************************************************************)
(* The life of the renderer's models                                       *)
(* (src/avtr1_renderer/api/app.py): they are loaded when a request needs   *)
(* them and dropped on request, while live chunks, idle loops, uploads and *)
(* deletions of avatars use them.                                          *)
(*                                                                         *)
(* A request is a coroutine of the event loop and, at times, a thread.     *)
(* What the event loop does between two awaits is not interleaved with     *)
(* other coroutines (LoopFree) but it is with threads, so reading          *)
(* app.state.pipeline and then app.state.registry are two steps.  A thread *)
(* leaves its locks and its reservation in one step: in between others are *)
(* merely refused.  Runtimes and registries are numbered: a runtime loads  *)
(* its registry under its own number, and a release makes an empty one.    *)
(***************************************************************************)
EXTENDS Integers, Sequences, FiniteSets

CONSTANTS
    Lives,      \* at a time, requests to process a chunk, or to prepare super resolution
    Jobs,       \* uploads and deletions of avatars, requests for idle loops
    Releases,   \* requests to release the models
    Avatars, Bundled,
    MaxChunks,  \* bound: chunks of an idle loop
    MaxRequests,  \* bound: the requests that come
    Nobody      \* holds a lock that is free

Requests == Lives \cup Jobs \cup Releases

ASSUME RuntimeAssumption ==
    /\ Lives \cap Jobs = {} /\ (Lives \cup Jobs) \cap Releases = {}
    /\ IsFiniteSet(Requests) /\ Nobody \notin Requests
    /\ Bundled \subseteq Avatars /\ Bundled # {}
    /\ MaxChunks \in Nat \ {0} /\ MaxRequests \in Nat

VARIABLES
    (* app.state *)
    pipeline,     \* pipeline, by the number of its runtime; 0 for None
    registry,     \* registry, by its number
    samples,      \* current_samples and future_samples, as pipeline
    runtimeLock, userLock,  \* who has runtime_lock, user_asset_lock
    (* renderer_activity *)
    active,       \* _active_live
    inference,    \* who has _inference_lock
    (* the rest *)
    shelf,        \* the avatars in each registry
    disk,         \* the avatars uploaded, in reference_frames
    at,           \* where each request is; "none" before it comes and after
    came,         \* the requests that have come
    asks,         \* what a job asks: a kind and an avatar
    has,          \* what it has read of app.state
    chunks,       \* idle chunks of the job under way
    (* history *)
    met,          \* the lives that came while a release was closing the pipeline
    stale,        \* the avatars deleted from a registry no longer in use
    delays        \* the idle chunks each live has waited for

stateVars == <<pipeline, registry, samples>>
lockVars == <<runtimeLock, userLock>>
gateVars == <<active, inference>>
assetVars == <<shelf, disk, chunks, stale>>
liveVars == <<met, delays>>
vars == <<stateVars, lockVars, gateVars, assetVars, liveVars, at, came, asks, has>>

Nothing == [kind |-> "none", avatar |-> "none"]
Empty == [pipeline |-> 0, registry |-> 0, samples |-> 0]

Init ==
    /\ pipeline = 1 /\ registry = 1 /\ samples = 1
    /\ runtimeLock = Nobody /\ userLock = Nobody
    /\ active = 0 /\ inference = Nobody
    /\ disk \in SUBSET (Avatars \ Bundled) /\ shelf = <<Bundled \cup disk>>
    /\ at = [t \in Requests |-> "none"] /\ came = 0
    /\ asks = [j \in Jobs |-> Nothing]
    /\ has = [t \in Requests |-> Empty]
    /\ chunks = 0 /\ met = {} /\ stale = {} /\ delays = [l \in Lives |-> 0]

\* Nobody is between two awaits.
LoopFree == \A t \in Requests : at[t] \notin {"asking", "found"}

Comes(t) == at[t] = "none" /\ LoopFree /\ came < MaxRequests

Goes(t, place) ==
    /\ at' = [at EXCEPT ![t] = place]
    /\ came' = IF at[t] = "none" THEN came + 1 ELSE came

\* The request is answered, and forgets what it had.
Answered(t) ==
    /\ Goes(t, "none")
    /\ asks' = [j \in Jobs |-> IF j = t THEN Nothing ELSE asks[j]]
    /\ has' = [has EXCEPT ![t] = Empty]

-----------------------------------------------------------------------------
(* _ensure_renderer_runtime_loaded, for lives and jobs.                    *)

\* The fast path reads pipeline and then registry, without the lock.
FindsPipeline(t) ==
    /\ at[t] = "asking"
    /\ Goes(t, IF pipeline = 0 THEN "queued" ELSE "found")
    /\ has' = [has EXCEPT ![t].pipeline = pipeline]
    /\ UNCHANGED <<stateVars, lockVars, gateVars, assetVars, liveVars, asks>>

FindsRegistry(t) ==
    /\ at[t] = "found"
    /\ Goes(t, "ready")
    /\ has' = [has EXCEPT ![t].registry = registry]
    /\ UNCHANGED <<stateVars, lockVars, gateVars, assetVars, liveVars, asks>>

\* Somebody else has loaded the models meanwhile.
GetsRuntime(t) ==
    /\ at[t] = "queued" /\ LoopFree /\ runtimeLock = Nobody /\ pipeline # 0
    /\ Goes(t, "ready")
    /\ has' = [has EXCEPT ![t].pipeline = pipeline, ![t].registry = registry]
    /\ UNCHANGED <<stateVars, lockVars, gateVars, assetVars, liveVars, asks>>

\* As StartsLoading would be if it did not look again once it has the lock.
StartsLoadingBlindly(t) ==
    /\ at[t] = "queued" /\ LoopFree /\ runtimeLock = Nobody
    /\ runtimeLock' = t
    /\ shelf' = Append(shelf, {})
    /\ has' = [has EXCEPT ![t].pipeline = Len(shelf'), ![t].registry = Len(shelf')]
    /\ Goes(t, "loading")
    /\ UNCHANGED <<stateVars, userLock, gateVars, disk, chunks, stale, liveVars, asks>>

StartsLoading(t) ==
    /\ at[t] = "queued" /\ LoopFree /\ runtimeLock = Nobody /\ pipeline = 0
    /\ runtimeLock' = t
    /\ shelf' = Append(shelf, {})
    /\ has' = [has EXCEPT ![t].pipeline = Len(shelf'), ![t].registry = Len(shelf')]
    /\ Goes(t, "loading")
    /\ UNCHANGED <<stateVars, userLock, gateVars, disk, chunks, stale, liveVars, asks>>

\* As Restores would be if it loaded the bundled avatars only.
RestoresBundled(t) ==
    /\ at[t] = "loading"
    /\ shelf' = [shelf EXCEPT ![has[t].registry] = Bundled]
    /\ Goes(t, "restored")
    /\ UNCHANGED <<stateVars, lockVars, gateVars, disk, chunks, stale, liveVars, asks,
                   has>>

\* The loading thread finds the uploaded avatars on the disk.
Restores(t) ==
    /\ at[t] = "loading"
    /\ shelf' = [shelf EXCEPT ![has[t].registry] = Bundled \cup disk]
    /\ Goes(t, "restored")
    /\ UNCHANGED <<stateVars, lockVars, gateVars, disk, chunks, stale, liveVars, asks,
                   has>>

Installs(t) ==
    /\ at[t] = "restored" /\ LoopFree
    /\ pipeline' = has[t].pipeline /\ registry' = has[t].registry
    /\ samples' = has[t].pipeline
    /\ runtimeLock' = Nobody
    /\ Goes(t, "ready")
    /\ UNCHANGED <<userLock, gateVars, assetVars, liveVars, asks, has>>

-----------------------------------------------------------------------------
(* process_audio_v3 and prepare_nvidia_vsr.                                *)

\* The reservation comes before the models are looked for.
Reserve(l) ==
    /\ Comes(l)
    /\ active' = active + 1
    /\ Goes(l, "asking")
    /\ met' = met \cup {m \in {l} : \E r \in Releases : at[r] = "closing"}
    /\ UNCHANGED <<stateVars, lockVars, inference, assetVars, delays, asks, has>>

\* end_live; the request is over, whether it went well or not.
Leaves(l) ==
    /\ Answered(l)
    /\ active' = active - 1
    /\ met' = met \ {l}
    /\ delays' = [delays EXCEPT ![l] = 0]

LiveLoadFails(l) ==
    /\ at[l] = "loading" /\ LoopFree
    /\ runtimeLock' = Nobody
    /\ Leaves(l)
    /\ UNCHANGED <<stateVars, userLock, inference, assetVars>>

\* The preflight of super resolution, in a thread, if that is asked for.
Preflights(l) ==
    /\ at[l] = "ready" /\ LoopFree
    /\ Goes(l, "preflighting")
    /\ UNCHANGED <<stateVars, lockVars, gateVars, assetVars, liveVars, asks, has>>

PreflightStarts(l) ==
    /\ at[l] = "preflighting" /\ inference = Nobody
    /\ inference' = l
    /\ Goes(l, "preflight")
    /\ UNCHANGED <<stateVars, lockVars, active, assetVars, liveVars, asks, has>>

\* As PreflightEnds would be if it ended the reservation, as _run_reserved_live does.
PreflightEndsReservation(l) ==
    /\ at[l] = "preflight"
    /\ inference' = Nobody
    /\ active' = active - 1
    /\ Goes(l, "tested")
    /\ UNCHANGED <<stateVars, lockVars, assetVars, liveVars, asks, has>>

PreflightEnds(l) ==
    /\ at[l] = "preflight"
    /\ inference' = Nobody
    /\ Goes(l, "tested")
    /\ UNCHANGED <<stateVars, lockVars, active, assetVars, liveVars, asks, has>>

LooksUp(l) ==
    /\ at[l] \in {"ready", "tested"} /\ LoopFree
    /\ shelf[has[l].registry] # {}
    /\ Goes(l, "chosen")
    /\ UNCHANGED <<stateVars, lockVars, gateVars, assetVars, liveVars, asks, has>>

\* Prepared; or there is no super resolution, or no such avatar, or no body to read.
LiveStops(l) ==
    /\ LoopFree
    /\ \/ at[l] \in {"tested", "chosen"}
       \/ at[l] = "ready" /\ shelf[has[l].registry] # Avatars
    /\ Leaves(l)
    /\ UNCHANGED <<stateVars, lockVars, inference, assetVars>>

Submits(l) ==
    /\ at[l] = "chosen" /\ LoopFree
    /\ has' = [has EXCEPT ![l].samples = samples]
    /\ Goes(l, "submitted")
    /\ UNCHANGED <<stateVars, lockVars, gateVars, assetVars, liveVars, asks>>

\* _run_reserved_live, in a thread.
Renders(l) ==
    /\ at[l] = "submitted" /\ inference = Nobody
    /\ inference' = l
    /\ Goes(l, "rendering")
    /\ UNCHANGED <<stateVars, lockVars, active, assetVars, liveVars, asks, has>>

LiveEnds(l) ==
    /\ at[l] = "rendering"
    /\ inference' = Nobody
    /\ Leaves(l)
    /\ UNCHANGED <<stateVars, lockVars, assetVars>>

-----------------------------------------------------------------------------
(* _upload_user_asset, avatar_idle_loop and delete_avatar.                 *)

\* A deletion reads the registry before it waits for the lock; an idle loop is not
\* asked for while live rendering is active.
JobAsked(j) ==
    /\ Comes(j)
    /\ \E k \in {"upload", "idle", "delete"}, a \in Avatars :
            /\ k = "idle" => a \in Bundled \cup disk \cup shelf[registry] /\ active = 0
            /\ k # "idle" => a \notin Bundled
            /\ asks' = [asks EXCEPT ![j] = [kind |-> k, avatar |-> a]]
            /\ has' = IF k = "delete" THEN [has EXCEPT ![j].registry = registry] ELSE has
    /\ Goes(j, "waiting")
    /\ UNCHANGED <<stateVars, lockVars, gateVars, assetVars, liveVars>>

JobStarts(j) ==
    /\ at[j] = "waiting" /\ LoopFree /\ userLock = Nobody
    /\ userLock' = j
    /\ chunks' = 0
    /\ Goes(j, IF asks[j].kind = "delete" THEN "deleting" ELSE "asking")
    /\ UNCHANGED <<stateVars, runtimeLock, gateVars, shelf, disk, stale, liveVars, asks,
                   has>>

JobLoadFails(j) ==
    /\ at[j] = "loading" /\ LoopFree
    /\ runtimeLock' = Nobody /\ userLock' = Nobody
    /\ Answered(j)
    /\ UNCHANGED <<stateVars, gateVars, assetVars, liveVars>>

\* _install_user_asset: the file, unless it is there; the preparation may fail.
Stores(j) ==
    /\ at[j] = "ready" /\ asks[j].kind = "upload"
    /\ \/ disk' = disk \cup {asks[j].avatar} /\ Goes(j, "stored")
       \/ UNCHANGED disk /\ Goes(j, "ending")
    /\ UNCHANGED <<stateVars, lockVars, gateVars, shelf, chunks, stale, liveVars, asks,
                   has>>

Publishes(j) ==
    /\ at[j] = "stored"
    /\ shelf' = [shelf EXCEPT ![has[j].registry] = @ \cup {asks[j].avatar}]
    /\ Goes(j, "published")
    /\ UNCHANGED <<stateVars, lockVars, gateVars, disk, chunks, stale, liveVars, asks,
                   has>>

\* An idle loop is made unless it is there already, the avatar is gone, or an upload
\* finds live rendering active.
Generates(j) ==
    /\ \/ at[j] = "ready" /\ asks[j].kind = "idle"
       \/ at[j] = "published"
    /\ LoopFree
    /\ \/ /\ at[j] = "published" => active = 0
          /\ asks[j].avatar \in shelf[has[j].registry]
          /\ Goes(j, "generating")
       \/ Goes(j, "ending")
    /\ UNCHANGED <<stateVars, lockVars, gateVars, assetVars, liveVars, asks, has>>

\* As NoLive would be if idle chunks did not give way to live requests.
NoLiveIgnored == TRUE

NoLive == active = 0

\* idle_inference: no live request, the lock, and again no live request.
IdleChecks(j) ==
    /\ at[j] = "generating"
    /\ Goes(j, IF NoLive THEN "trying" ELSE "ending")
    /\ UNCHANGED <<stateVars, lockVars, gateVars, assetVars, liveVars, asks, has>>

IdleTries(j) ==
    /\ at[j] = "trying"
    /\ IF inference = Nobody
       THEN inference' = j /\ Goes(j, "holding")
       ELSE Goes(j, "ending") /\ UNCHANGED inference
    /\ UNCHANGED <<stateVars, lockVars, active, assetVars, liveVars, asks, has>>

IdleStarts(j) ==
    /\ at[j] = "holding"
    /\ IF NoLive
       THEN Goes(j, "idling") /\ UNCHANGED inference
       ELSE inference' = Nobody /\ Goes(j, "ending")
    /\ UNCHANGED <<stateVars, lockVars, active, assetVars, liveVars, asks, has>>

Reserved(l) == l \in Lives /\ at[l] # "none"

\* One chunk is done, or has failed.
IdleEnds(j) ==
    /\ at[j] = "idling"
    /\ inference' = Nobody
    /\ chunks' = chunks + 1
    /\ delays' = [l \in Lives |-> IF Reserved(l) THEN delays[l] + 1 ELSE 0]
    /\ \/ chunks' < MaxChunks /\ Goes(j, "generating")
       \/ Goes(j, "ending")
    /\ UNCHANGED <<stateVars, lockVars, active, shelf, disk, stale, met, asks, has>>

\* _trash_user_avatar: the file, then the registry read before the lock.
Trashes(j) ==
    /\ at[j] = "deleting"
    /\ disk' = disk \ {asks[j].avatar}
    /\ Goes(j, IF asks[j].avatar \in disk THEN "trashed" ELSE "ending")
    /\ UNCHANGED <<stateVars, lockVars, gateVars, shelf, chunks, stale, liveVars, asks,
                   has>>

\* The registry of the deletion is not the one in use, or not for long.
Outdated(j) ==
    registry # has[j].registry \/ \E t \in Requests : at[t] = "restored"

\* The file of the idle loop may refuse to move; then that of the avatar goes back.
Forgets(j) ==
    /\ at[j] = "trashed"
    /\ \/ /\ shelf' = [shelf EXCEPT ![has[j].registry] = @ \ {asks[j].avatar}]
          /\ UNCHANGED disk
       \/ disk' = disk \cup {asks[j].avatar} /\ UNCHANGED shelf
    /\ stale' = IF Outdated(j) THEN stale \cup {asks[j].avatar} ELSE stale
    /\ Goes(j, "ending")
    /\ UNCHANGED <<stateVars, lockVars, gateVars, chunks, liveVars, asks, has>>

JobEnds(j) ==
    /\ at[j] = "ending" /\ LoopFree
    /\ userLock' = Nobody
    /\ Answered(j)
    /\ UNCHANGED <<stateVars, runtimeLock, gateVars, assetVars, liveVars>>

-----------------------------------------------------------------------------
(* release_renderer_models and _release_renderer_runtime.                  *)

ReleaseAsked(r) ==
    /\ Comes(r)
    /\ Goes(r, "waiting")
    /\ UNCHANGED <<stateVars, lockVars, gateVars, assetVars, liveVars, asks, has>>

\* As ReleaseWaits would be if it left the lock of the user assets alone.
ReleaseWaitsNot(r) ==
    /\ at[r] = "waiting" /\ LoopFree
    /\ Goes(r, "locking")
    /\ UNCHANGED <<stateVars, lockVars, gateVars, assetVars, liveVars, asks, has>>

\* The user assets first, then the runtime.
ReleaseWaits(r) ==
    /\ at[r] = "waiting" /\ LoopFree /\ userLock = Nobody
    /\ userLock' = r
    /\ Goes(r, "locking")
    /\ UNCHANGED <<stateVars, runtimeLock, gateVars, assetVars, liveVars, asks, has>>

ReleaseLocks(r) ==
    /\ at[r] = "locking" /\ LoopFree /\ runtimeLock = Nobody
    /\ runtimeLock' = r
    /\ Goes(r, "checking")
    /\ UNCHANGED <<stateVars, userLock, gateVars, assetVars, liveVars, asks, has>>

\* release_inference, in a thread.
ReleaseChecks(r) ==
    /\ at[r] = "checking"
    /\ Goes(r, IF active = 0 THEN "trying" ELSE "ending")
    /\ UNCHANGED <<stateVars, lockVars, gateVars, assetVars, liveVars, asks, has>>

ReleaseTries(r) ==
    /\ at[r] = "trying"
    /\ IF inference = Nobody
       THEN inference' = r /\ Goes(r, "holding")
       ELSE Goes(r, "ending") /\ UNCHANGED inference
    /\ UNCHANGED <<stateVars, lockVars, active, assetVars, liveVars, asks, has>>

\* As ReleaseStarts would be if it did not look again, or forgot the lock.
ReleaseStartsBlindly(r) ==
    /\ at[r] = "holding"
    /\ Goes(r, "closing")
    /\ UNCHANGED <<stateVars, lockVars, gateVars, assetVars, liveVars, asks, has>>

ReleaseStartsLocked(r) ==
    /\ at[r] = "holding"
    /\ Goes(r, IF active = 0 THEN "closing" ELSE "ending")
    /\ UNCHANGED <<stateVars, lockVars, gateVars, assetVars, liveVars, asks, has>>

ReleaseStarts(r) ==
    /\ at[r] = "holding"
    /\ IF active = 0
       THEN Goes(r, "closing") /\ UNCHANGED inference
       ELSE inference' = Nobody /\ Goes(r, "ending")
    /\ UNCHANGED <<stateVars, lockVars, active, assetVars, liveVars, asks, has>>

Closes(r) ==
    /\ at[r] = "closing"
    /\ pipeline' = 0
    /\ Goes(r, "clearing")
    /\ UNCHANGED <<registry, samples, lockVars, gateVars, assetVars, liveVars, asks,
                   has>>

Clears(r) ==
    /\ at[r] = "clearing"
    /\ shelf' = Append([shelf EXCEPT ![registry] = {}], {})
    /\ registry' = Len(shelf')
    /\ Goes(r, "forgetting")
    /\ UNCHANGED <<pipeline, samples, lockVars, gateVars, disk, chunks, stale, liveVars,
                   asks, has>>

Drops(r) ==
    /\ at[r] = "forgetting"
    /\ samples' = 0
    /\ inference' = Nobody
    /\ Goes(r, "ending")
    /\ UNCHANGED <<pipeline, registry, lockVars, active, assetVars, liveVars, asks, has>>

ReleaseEnds(r) ==
    /\ at[r] = "ending" /\ LoopFree
    /\ userLock' = Nobody /\ runtimeLock' = Nobody
    /\ Answered(r)
    /\ UNCHANGED <<stateVars, gateVars, assetVars, liveVars>>

-----------------------------------------------------------------------------
Ensures(t) ==
    \/ FindsPipeline(t) \/ FindsRegistry(t) \/ GetsRuntime(t)
    \/ StartsLoading(t) \/ Restores(t) \/ Installs(t)

LiveStep(l) ==
    \/ Ensures(l) \/ LiveLoadFails(l)
    \/ Preflights(l) \/ PreflightStarts(l) \/ PreflightEnds(l)
    \/ LooksUp(l) \/ LiveStops(l) \/ Submits(l) \/ Renders(l) \/ LiveEnds(l)

JobStep(j) ==
    \/ JobStarts(j) \/ Ensures(j) \/ JobLoadFails(j)
    \/ Stores(j) \/ Publishes(j) \/ Generates(j)
    \/ IdleChecks(j) \/ IdleTries(j) \/ IdleStarts(j) \/ IdleEnds(j)
    \/ Trashes(j) \/ Forgets(j) \/ JobEnds(j)

ReleaseStep(r) ==
    \/ ReleaseWaits(r) \/ ReleaseLocks(r)
    \/ ReleaseChecks(r) \/ ReleaseTries(r) \/ ReleaseStarts(r)
    \/ Closes(r) \/ Clears(r) \/ Drops(r) \/ ReleaseEnds(r)

Terminated == (\A t \in Requests : at[t] = "none") /\ UNCHANGED vars

Next ==
    \/ \E l \in Lives : Reserve(l) \/ LiveStep(l)
    \/ \E j \in Jobs : JobAsked(j) \/ JobStep(j)
    \/ \E r \in Releases : ReleaseAsked(r) \/ ReleaseStep(r)
    \/ Terminated

\* A request that has come goes on when it can; none has to come.
Fairness ==
    /\ \A l \in Lives : WF_vars(LiveStep(l))
    /\ \A j \in Jobs : WF_vars(JobStep(j))
    /\ \A r \in Releases : WF_vars(ReleaseStep(r))

Spec == Init /\ [][Next]_vars /\ Fairness

-----------------------------------------------------------------------------
(* Properties.                                                             *)

LivePlaces ==
    {"none", "asking", "found", "queued", "loading", "restored", "ready",
     "preflighting", "preflight", "tested", "chosen", "submitted", "rendering"}
JobPlaces ==
    {"none", "waiting", "asking", "found", "queued", "loading", "restored", "ready",
     "stored", "published", "generating", "trying", "holding", "idling", "deleting",
     "trashed", "ending"}
ReleasePlaces ==
    {"none", "waiting", "locking", "checking", "trying", "holding", "closing",
     "clearing", "forgetting", "ending"}

TypeOK ==
    /\ shelf \in Seq(SUBSET Avatars) /\ disk \subseteq Avatars \ Bundled
    /\ pipeline \in 0..Len(shelf) /\ registry \in 1..Len(shelf)
    /\ samples \in 0..Len(shelf)
    /\ {runtimeLock, userLock, inference} \subseteq Requests \cup {Nobody}
    /\ active \in 0..Cardinality(Lives) /\ chunks \in 0..MaxChunks
    /\ \A l \in Lives : at[l] \in LivePlaces
    /\ \A j \in Jobs : at[j] \in JobPlaces
    /\ \A r \in Releases : at[r] \in ReleasePlaces
    /\ met \subseteq Lives /\ stale \subseteq Avatars
    /\ delays \in [Lives -> 0..MaxChunks]

\* A request works with what app.state had for it.
Working(t) ==
    at[t] \in {"ready", "preflighting", "preflight", "tested", "chosen", "submitted",
               "rendering", "stored", "published", "generating", "trying", "holding",
               "idling"}
    /\ t \notin Releases

InUse(t) ==
    /\ pipeline # 0
    /\ has[t].pipeline = pipeline /\ has[t].registry = registry
    /\ at[t] \in {"submitted", "rendering"} => has[t].samples = pipeline

\* Nobody drops the models under a live request, from its reservation on, unless the
\* release was past its last check when the request came.
LiveKeepsRuntime == \A l \in Lives \ met : Working(l) => InUse(l)

\* Nobody drops or replaces the models under an upload or an idle loop.
JobKeepsRuntime == \A j \in Jobs : Working(j) => InUse(j)

\* The models are in memory once: they are not loaded twice, or while a request that
\* keeps its runtime still has others.
OneRuntime ==
    Cardinality(({pipeline} \ {0}) \cup
        {has[t].pipeline : t \in {u \in (Lives \cup Jobs) \ met :
                                      Working(u) \/ at[u] \in {"loading", "restored"}}})
        <= 1

\* A live request waits for one idle chunk at most, however many are still to come.
LiveGoesFirst == \A l \in Lives : delays[l] <= 1

\* When no asset is being worked on, the avatars on the disk are those one can ask
\* for: loading the models, uploads and deletions agree, but for stale deletions.
ShelfIsDisk ==
    pipeline # 0 /\ userLock = Nobody =>
        \A a \in Avatars \ (Bundled \cup stale) : a \in disk <=> a \in shelf[registry]

\* Every request that has come is answered: the locks are never waited for forever.
\* Requests do not come forever, so in the end none is open.
EveryoneIsAnswered == <>[](\A t \in Requests : at[t] = "none")

\* All GPU-backed objects are installed and released as one unit: what a live request
\* works with is one runtime, and the one in use.  This does not
\* hold: see the README.
ReleasedAsOneUnit == \A l \in Lives : Working(l) => InUse(l)

\* Whoever works with the models keeps them, and they are in memory once.
RuntimeIsKept == TypeOK /\ LiveKeepsRuntime /\ JobKeepsRuntime /\ OneRuntime
=============================================================================
