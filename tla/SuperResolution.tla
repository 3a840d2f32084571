-------------------------- MODULE SuperResolution --------------------------
(***************************************************************************)
(* NVIDIA's video super resolution in the renderer                         *)
(* (avtr1_renderer/nvidia_vsr.py): every pipeline has an adapter, all      *)
(* adapters share one native effect, which is created once, configured for *)
(* whoever uses it and never given back, as closing it may block for ever. *)
(*                                                                         *)
(* The renderer runs one inference, one preflight or one release at a time *)
(* (RendererRuntime), so that one adapter is at work at a time, maybe one  *)
(* of a pipeline that was released; what matters is which of its steps     *)
(* fail, and what the next adapter finds.  Injected effects are for tests. *)
(***************************************************************************)
EXTENDS Naturals

CONSTANTS
    Adapters,    \* those of the pipeline in use and of released ones in use
    Qualities,
    Sizes        \* heights and widths of the output

ASSUME EffectAssumption == "none" \notin Qualities

VARIABLES
    effect,   \* the native effect: how many were created, quality, size, whether loaded;
              \* history: whether it has kept a part only of what it was set to last
    entry,    \* its _OfficialEffectEntry: there or not, loaded, configuration
    adapter,  \* NvidiaVSR: _effect is bound, _unavailable_reason is set, what was told last
    work      \* the call under way

effectVars == <<effect, entry, adapter, work>>

Unset == [quality |-> "none", size |-> "none"]
Configurations == [quality : Qualities, size : Sizes]

NoWork == [at |-> "idle", by |-> "none", asked |-> "none", want |-> Unset]
NewAdapter == [bound |-> FALSE, unavailable |-> FALSE, told |-> "none"]

EffectInit ==
    /\ effect = [created |-> 0, quality |-> "none", size |-> "none", loaded |-> FALSE,
                 parted |-> FALSE]
    /\ entry = [there |-> FALSE, loaded |-> FALSE, configuration |-> Unset]
    /\ adapter = [a \in Adapters |-> NewAdapter]
    /\ work = [NoWork EXCEPT !.at = "starting"]

\* preinitialize_nvidia_vsr creates and pins the handle before the renderer's models are
\* loaded, or fails and is skipped.
Preinitialize ==
    /\ work.at = "starting" /\ work' = NoWork
    /\ \/ UNCHANGED <<effect, entry>>
       \/ effect' = [effect EXCEPT !.created = 1] /\ entry' = [entry EXCEPT !.there = TRUE]
    /\ UNCHANGED adapter

\* How the effect is set.
Had == [quality |-> effect.quality, size |-> effect.size]

-----------------------------------------------------------------------------
(* The pipelines that come and go.                                         *)

\* A pipeline that is released lets go of the effect; a request that has it goes on.
CloseAdapter(a) ==
    /\ work.at = "idle" /\ adapter' = [adapter EXCEPT ![a].bound = FALSE]
    /\ UNCHANGED <<effect, entry, work>>

NewPipeline(a) ==
    /\ work.at = "idle" /\ adapter' = [adapter EXCEPT ![a] = NewAdapter]
    /\ UNCHANGED <<effect, entry, work>>

-----------------------------------------------------------------------------
(* prepare and enhance.                                                    *)

AsksEffect(a, what) ==
    /\ work.at = "idle" /\ ~adapter[a].unavailable
    /\ \E c \in Configurations :
          work' = [at |-> "getting", by |-> a, asked |-> what, want |-> c]
    /\ UNCHANGED <<effect, entry, adapter>>

Prepare(a) == AsksEffect(a, "prepare")
Enhance(a) == AsksEffect(a, "enhance")

\* As Reason would be if the class of the error were not kept.
ReasonAlways(transient) == "retry"

\* The public reason tells a creation that failed for now from what will not pass.
Reason(transient) == IF transient THEN "retry" ELSE "unavailable"

\* _latch_unavailable: the effect is let go of, and for good unless it is transient.
LetsGo(a, transient) ==
    /\ adapter' = [adapter EXCEPT ![a] =
          [bound |-> FALSE, unavailable |-> ~transient, told |-> Reason(transient)]]
    /\ work' = NoWork

CallFails(transient) == LetsGo(work.by, transient)

Finds ==
    /\ work.at = "getting" /\ entry.there
    /\ work' = [work EXCEPT !.at = "configuring"]
    /\ UNCHANGED <<effect, entry, adapter>>

\* Created, perhaps at the second attempt, pinned and cached.
Creates ==
    /\ work.at = "getting" /\ ~entry.there
    /\ effect' = [effect EXCEPT !.created = @ + 1] /\ entry' = [entry EXCEPT !.there = TRUE]
    /\ work' = [work EXCEPT !.at = "configuring"]
    /\ UNCHANGED adapter

\* Transiently twice, or otherwise.
CreationFails ==
    /\ work.at = "getting" /\ ~entry.there
    /\ \E transient \in BOOLEAN : CallFails(transient)
    /\ UNCHANGED <<effect, entry>>

Configured ==
    /\ work.at = "configuring" /\ entry.configuration = work.want
    /\ work' = [work EXCEPT !.at = "binding"]
    /\ UNCHANGED <<effect, entry, adapter>>

\* As Configure would be if it had the configuration first and then the model.
ConfigureFirst ==
    /\ work.at = "configuring" /\ entry.configuration # work.want
    /\ effect' = [effect EXCEPT !.quality = work.want.quality, !.size = work.want.size,
                                !.parted = FALSE]
    /\ entry' = [entry EXCEPT !.configuration = work.want]
    /\ work' = [work EXCEPT !.at = "loading"]
    /\ UNCHANGED adapter

\* The attributes of the effect; its configuration is not known until it is loaded.
Configure ==
    /\ work.at = "configuring" /\ entry.configuration # work.want
    /\ effect' = [effect EXCEPT !.quality = work.want.quality, !.size = work.want.size,
                                !.parted = FALSE]
    /\ work' = [work EXCEPT !.at = "loading"]
    /\ UNCHANGED <<entry, adapter>>

\* The effect refuses the quality, or the height once it has the quality, or the width.
ConfigureFails ==
    /\ work.at = "configuring" /\ entry.configuration # work.want
    /\ \/ UNCHANGED effect
       \/ \E s \in {effect.size, "partly"} :
             effect' = [effect EXCEPT !.quality = work.want.quality, !.size = s,
                                      !.parted = TRUE]
    /\ CallFails(FALSE) /\ UNCHANGED entry

Load ==
    /\ work.at = "loading"
    /\ effect' = [effect EXCEPT !.loaded = TRUE]
    /\ entry' = [entry EXCEPT !.loaded = TRUE, !.configuration = work.want]
    /\ work' = [work EXCEPT !.at = "binding"]
    /\ UNCHANGED adapter

LoadFails ==
    /\ work.at = "loading" /\ ~entry.loaded
    /\ CallFails(FALSE) /\ UNCHANGED <<effect, entry>>

Bind ==
    /\ work.at = "binding"
    /\ adapter' = [adapter EXCEPT ![work.by].bound = TRUE, ![work.by].told = "ready"]
    /\ work' = IF work.asked = "prepare" THEN NoWork ELSE [work EXCEPT !.at = "running"]
    /\ UNCHANGED <<effect, entry>>

\* Each frame of the chunk is run, and its result cloned before the next.
RunFrames ==
    /\ work.at = "running"
    /\ \/ work' = NoWork /\ UNCHANGED adapter
       \/ CallFails(FALSE)
    /\ UNCHANGED <<effect, entry>>

EffectNext ==
    \/ Preinitialize \/ Finds \/ Creates \/ CreationFails \/ Configured \/ Configure
    \/ ConfigureFails \/ Load \/ LoadFails \/ Bind \/ RunFrames
    \/ \E a \in Adapters : CloseAdapter(a) \/ NewPipeline(a) \/ Prepare(a) \/ Enhance(a)

-----------------------------------------------------------------------------
(* Properties.                                                             *)

\* Frames are run on an effect that is loaded and has the quality and the size that this
\* adapter wants, whoever else has used it in between.  This does not hold when the effect
\* has refused a height or a width: see the README.
FramesAsAsked == work.at = "running" => effect.loaded /\ Had = work.want

\* One effect is created in the life of the process, whatever fails and is released.
\* Frames are run on it loaded and set to what is wanted, unless it has refused a part of
\* that to somebody, for an adapter that holds it; who was told that it is out of order is
\* not served any more, and who was told to retry is.
EffectsAreKept ==
    /\ effect.created = IF entry.there THEN 1 ELSE 0
    /\ work.at = "running" =>
          /\ effect.loaded /\ (effect.parted \/ Had = work.want)
          /\ adapter[work.by].bound /\ ~adapter[work.by].unavailable
    /\ \A a \in Adapters :
          /\ adapter[a].unavailable <=> adapter[a].told = "unavailable"
          /\ adapter[a].bound => adapter[a].told = "ready" /\ effect.loaded
=============================================================================
