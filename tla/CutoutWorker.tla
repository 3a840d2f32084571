---------------------------- MODULE CutoutWorker ----------------------------
(***************************************************************************)
(* Cutting people out of their pictures: the uploads of the renderer, each *)
(* in a thread (avtr1_renderer/feynobg.py), ask the FeyNoBg worker         *)
(* (integrations/feynobg_server.py), which serves each in a thread of its  *)
(* own, and use a model of their own when it does not answer.  Requests to *)
(* release the models (local_stream_cli.py) drop the worker's.             *)
(*                                                                         *)
(* A thread is cut where others see what it does: at the lock, at the two  *)
(* halves of the model, and at the flag that /health reads.                *)
(***************************************************************************)
EXTENDS Naturals, FiniteSets

CONSTANTS
    Uploads,     \* at a time, uploads whose background is to go
    Releases,    \* at a time, requests to release the models
    MaxUploads   \* bound: uploads in all

Free == "free"   \* holds a lock nobody holds

ASSUME CutoutAssumption ==
    /\ IsFiniteSet(Uploads) /\ MaxUploads \in Nat
    /\ Uploads \cap Releases = {} /\ Free \notin Uploads \cup Releases

VARIABLES
    cut,      \* where each upload's thread is, in feynobg_cutout
    job,      \* where the worker's thread for it is, in FeyNoBgService.cutout
    release,  \* where each request is: at the streamer, and in the worker's release
    fey,      \* FeyNoBgService: _lock, _active_requests, _model, _processor, _released
    local,    \* _LOCAL_LOCK, and how often _LOCAL_MODEL was set
    uploaded  \* uploads so far

cutVars == <<cut, job, release, fey, local, uploaded>>

FeyFields == {"lock", "active", "model", "processor", "released"}

Idle == [at |-> "none", thread |-> "none", told |-> "none"]

CutInit ==
    /\ cut = [u \in Uploads |-> "none"] /\ job = [u \in Uploads |-> "none"]
    /\ release = [r \in Releases |-> Idle]
    /\ fey = [lock |-> Free, active |-> 0, model |-> FALSE, processor |-> FALSE,
              released |-> FALSE]
    /\ local = [lock |-> Free, loads |-> 0] /\ uploaded = 0

CutGoes(u, place) == cut' = [cut EXCEPT ![u] = place]
JobGoes(u, place) == job' = [job EXCEPT ![u] = place]

-----------------------------------------------------------------------------
(* feynobg_cutout, in the renderer.                                        *)

\* The worker is asked; there is none, or it cannot be reached.
Upload(u) ==
    /\ cut[u] = "none" /\ job[u] = "none" /\ uploaded < MaxUploads
    /\ uploaded' = uploaded + 1
    /\ \/ CutGoes(u, "asking") /\ JobGoes(u, "waiting")
       \/ CutGoes(u, "local") /\ UNCHANGED job
    /\ UNCHANGED <<release, fey, local>>

\* The cutout, unless the worker has failed, or what it sends is no such image.
WorkerAnswers(u) ==
    /\ cut[u] = "asking" /\ job[u] \in {"done", "failed"}
    /\ JobGoes(u, "none")
    /\ \/ job[u] = "done" /\ CutGoes(u, "none")
       \/ CutGoes(u, "local")
    /\ UNCHANGED <<release, fey, local, uploaded>>

\* 180 seconds are over; the worker's thread goes on.
StopsAsking(u) ==
    /\ cut[u] = "asking" /\ CutGoes(u, "local")
    /\ UNCHANGED <<job, release, fey, local, uploaded>>

Unasked(u) ==
    /\ cut[u] # "asking" /\ job[u] \in {"done", "failed"}
    /\ JobGoes(u, "none")
    /\ UNCHANGED <<cut, release, fey, local, uploaded>>

\* Is there a model already?
LooksForLocal(u) ==
    /\ cut[u] = "local"
    /\ CutGoes(u, IF local.loads = 0 THEN "queued" ELSE "using")
    /\ UNCHANGED <<job, release, fey, local, uploaded>>

\* As LocksLocal would be if it did not look again once it has the lock.
LocksLocalBlindly(u) ==
    /\ cut[u] = "queued" /\ local.lock = Free
    /\ local' = [local EXCEPT !.lock = u] /\ CutGoes(u, "loading")
    /\ UNCHANGED <<job, release, fey, uploaded>>

\* And again, under the lock: somebody else may have loaded it.
LocksLocal(u) ==
    /\ cut[u] = "queued" /\ local.lock = Free
    /\ IF local.loads = 0
       THEN local' = [local EXCEPT !.lock = u] /\ CutGoes(u, "loading")
       ELSE UNCHANGED local /\ CutGoes(u, "using")
    /\ UNCHANGED <<job, release, fey, uploaded>>

LoadsLocal(u) ==
    /\ cut[u] = "loading"
    /\ \/ local' = [lock |-> Free, loads |-> local.loads + 1] /\ CutGoes(u, "using")
       \/ local' = [local EXCEPT !.lock = Free] /\ CutGoes(u, "none")
    /\ UNCHANGED <<job, release, fey, uploaded>>

\* Any number of threads at once; the image is kept or refused.
UsesLocal(u) ==
    /\ cut[u] = "using" /\ CutGoes(u, "none")
    /\ UNCHANGED <<job, release, fey, local, uploaded>>

-----------------------------------------------------------------------------
(* FeyNoBgService.cutout and _ensure_loaded, in the worker.                *)

\* The upload is no image the worker can read.
WorkerRefuses(u) ==
    /\ job[u] = "waiting" /\ JobGoes(u, "failed")
    /\ UNCHANGED <<cut, release, fey, local, uploaded>>

BeginCutout(u) ==
    /\ job[u] = "waiting" /\ fey.lock = Free
    /\ fey' = [fey EXCEPT !.lock = u, !.active = @ + 1]
    /\ JobGoes(u, IF fey.model /\ fey.processor THEN "running" ELSE "loading")
    /\ UNCHANGED <<cut, release, local, uploaded>>

LoadModel(u) ==
    /\ job[u] = "loading" /\ JobGoes(u, "half")
    /\ fey' = [fey EXCEPT !.model = TRUE]
    /\ UNCHANGED <<cut, release, local, uploaded>>

LoadProcessor(u) ==
    /\ job[u] = "half" /\ JobGoes(u, "loaded")
    /\ fey' = [fey EXCEPT !.processor = TRUE]
    /\ UNCHANGED <<cut, release, local, uploaded>>

Loads(u) ==
    /\ job[u] = "loaded" /\ JobGoes(u, "running")
    /\ fey' = [fey EXCEPT !.released = FALSE]
    /\ UNCHANGED <<cut, release, local, uploaded>>

\* Loading either half may fail, and so may the model; a half that is loaded stays.
EndCutout(u) ==
    /\ \/ job[u] = "running" /\ JobGoes(u, "done")
       \/ job[u] \in {"loading", "half", "running"} /\ JobGoes(u, "failed")
    /\ fey' = [fey EXCEPT !.lock = Free, !.active = @ - 1]
    /\ UNCHANGED <<cut, release, local, uploaded>>

-----------------------------------------------------------------------------
(* release_models of the streamer, and the worker's release.               *)

\* The session has ended, or its end was waited for; the worker may be unreachable.
AskRelease(r) ==
    /\ release[r].at # "posted" /\ release[r].thread \in {"none", "gone", "busy", "away"}
    /\ \E t \in {"asked", "away"} :
          release' = [release EXCEPT ![r] = [at |-> "posted", thread |-> t, told |-> "none"]]
    /\ UNCHANGED <<cut, job, fey, local, uploaded>>

\* As TryRelease would be if it did not ask who is at work.
TryReleaseUnlocked(r) ==
    /\ release[r].thread = "asked"
    /\ fey' = [fey EXCEPT !.lock = r]
    /\ release' = [release EXCEPT ![r].thread = "dropping"]
    /\ UNCHANGED <<cut, job, local, uploaded>>

\* It does not wait for the lock; nobody who has it leaves active requests behind.
TryRelease(r) ==
    /\ release[r].thread = "asked"
    /\ IF fey.lock = Free /\ fey.active = 0
       THEN /\ fey' = [fey EXCEPT !.lock = r]
            /\ release' = [release EXCEPT ![r].thread = "dropping"]
       ELSE UNCHANGED fey /\ release' = [release EXCEPT ![r].thread = "busy"]
    /\ UNCHANGED <<cut, job, local, uploaded>>

DropModel(r) ==
    /\ release[r].thread = "dropping"
    /\ fey' = [fey EXCEPT !.model = FALSE]
    /\ release' = [release EXCEPT ![r].thread = "half"]
    /\ UNCHANGED <<cut, job, local, uploaded>>

DropProcessor(r) ==
    /\ release[r].thread = "half"
    /\ fey' = [fey EXCEPT !.processor = FALSE]
    /\ release' = [release EXCEPT ![r].thread = "empty"]
    /\ UNCHANGED <<cut, job, local, uploaded>>

EndRelease(r) ==
    /\ release[r].thread = "empty"
    /\ fey' = [fey EXCEPT !.released = TRUE, !.lock = Free]
    /\ release' = [release EXCEPT ![r].thread = "gone"]
    /\ UNCHANGED <<cut, job, local, uploaded>>

\* What the worker's thread has come to is its answer; one that does not answer within
\* 120 seconds is taken for one that is not running, which holds no memory.
ToldOf(t) ==
    CASE t \in {"gone", "away"} -> "released" [] t = "busy" -> "partial" [] OTHER -> "late"

\* The answers of the renderer and of CosyVoice are waited for too.
TellReleased(r) ==
    /\ release[r].at = "posted"
    /\ \E others \in BOOLEAN :
          release' = [release EXCEPT ![r].at = "told",
              ![r].told = IF others THEN ToldOf(release[r].thread) ELSE "partial"]
    /\ UNCHANGED <<cut, job, fey, local, uploaded>>

-----------------------------------------------------------------------------
CutStep(u) ==
    \/ Upload(u) \/ WorkerAnswers(u) \/ StopsAsking(u) \/ Unasked(u)
    \/ LooksForLocal(u) \/ LocksLocal(u) \/ LoadsLocal(u) \/ UsesLocal(u)

JobStep(u) ==
    \/ WorkerRefuses(u) \/ BeginCutout(u) \/ LoadModel(u) \/ LoadProcessor(u)
    \/ Loads(u) \/ EndCutout(u)

ReleaseStep(r) ==
    \/ AskRelease(r) \/ TryRelease(r) \/ DropModel(r) \/ DropProcessor(r)
    \/ EndRelease(r) \/ TellReleased(r)

CutNext ==
    \/ \E u \in Uploads : CutStep(u) \/ JobStep(u)
    \/ \E r \in Releases : ReleaseStep(r)

-----------------------------------------------------------------------------
(* Properties.                                                             *)

Inside == {u \in Uploads : job[u] \in {"loading", "half", "loaded", "running"}}
Dropping == {r \in Releases : release[r].thread \in {"dropping", "half", "empty"}}

\* The worker's lock is held by the one thread that loads, runs or drops the model, the
\* count says whether that is a cutout, and both halves are there while one runs.
CutoutsAreSerial ==
    /\ Inside \cup Dropping = IF fey.lock = Free THEN {} ELSE {fey.lock}
    /\ fey.active = IF fey.lock \in Uploads THEN 1 ELSE 0
    /\ \A u \in Uploads : job[u] = "running" => fey.model /\ fey.processor

\* What /health calls released is not loaded, unless a thread is about to change one of
\* the two; and who was told in time that all is released asked a worker that has dropped
\* its model, or is not there.
ReleasedIsEmpty ==
    /\ fey.released /\ fey.model /\ fey.processor =>
          \/ \E u \in Uploads : job[u] = "loaded"
          \/ \E r \in Releases : release[r].thread = "dropping"
    /\ \A r \in Releases : release[r].told = "released" => release[r].thread \in {"gone", "away"}

\* The renderer loads its own model at most once, one thread at a time, and no upload
\* uses it before.
LocalLoadedOnce ==
    /\ local.loads <= 1
    /\ {u \in Uploads : cut[u] = "loading"} = IF local.lock = Free THEN {} ELSE {local.lock}
    /\ \A u \in Uploads : cut[u] = "using" => local.loads = 1

\* The models that cut out are there for those who use them, and gone when that is said.
CutoutsAreKept == CutoutsAreSerial /\ ReleasedIsEmpty /\ LocalLoadedOnce
=============================================================================
