------------------------------- MODULE Links -------------------------------
(***************************************************************************)
(* The services a session talks to, one at a time: the worker of cloned    *)
(* voices, and the clients of that worker, of Bailian's speech and         *)
(* recognition, of the Codex app server, of the renderer and of its own    *)
(* memory; what cuts out people and what enlarges frames for the renderer; *)
(* the latencies that are shown; and the voices a provider keeps.  They    *)
(* share no state.                                                         *)
(***************************************************************************)
EXTENDS VoiceWorker, BailianSpeech, BailianRecognition, LocalSpeech, CodexLink,
        RendererClient, MemoryWorklet, CutoutWorker, SuperResolution, TurnMetrics,
        ProviderVoices

VARIABLE service   \* the service of this behaviour

Others(s) ==
    /\ s # "worker" => UNCHANGED workerVars
    /\ s # "speech" => UNCHANGED speechVars
    /\ s # "recognition" => UNCHANGED asrVars
    /\ s # "local" => UNCHANGED localVars
    /\ s # "codex" => UNCHANGED linkVars
    /\ s # "renderer" => UNCHANGED renderVars
    /\ s # "memory" => UNCHANGED memoryVars
    /\ s # "cutout" => UNCHANGED cutVars
    /\ s # "effect" => UNCHANGED effectVars
    /\ s # "turns" => UNCHANGED turnVars
    /\ s # "voices" => UNCHANGED voiceVars

vars == <<service, workerVars, speechVars, asrVars, localVars, linkVars, renderVars,
          memoryVars, cutVars, effectVars, turnVars, voiceVars>>

Init ==
    /\ service \in {"worker", "speech", "recognition", "local", "codex", "renderer",
                   "memory", "cutout", "effect", "turns", "voices"}
    /\ WorkerInit /\ SpeechInit /\ AsrInit /\ LocalInit /\ LinkInit /\ RenderInit
    /\ MemoryInit /\ CutInit /\ EffectInit /\ TurnInit
    /\ VoicesInit

Next ==
    /\ UNCHANGED service /\ Others(service)
    /\ \/ service = "worker" /\ WorkerNext
       \/ service = "speech" /\ SpeechNext
       \/ service = "recognition" /\ AsrNext
       \/ service = "local" /\ LocalNext
       \/ service = "codex" /\ LinkNext
       \/ service = "renderer" /\ RenderNext
       \/ service = "memory" /\ MemoryNext
       \/ service = "cutout" /\ CutNext
       \/ service = "effect" /\ EffectNext
       \/ service = "turns" /\ MetricsNext
       \/ service = "voices" /\ VoicesNext

\* The threads of the worker are scheduled; a coroutine that has work goes on.
OfWorker == service = "worker"
WorkerFairness ==
    \A s \in Streams :
        WF_workerVars(OfWorker /\ ThreadStep(s)) /\ WF_workerVars(OfWorker /\ Started(s))

Spec == Init /\ [][Next]_vars /\ WorkerFairness

\* Whatever a client has opened is held by exactly one part of it that will close it, and
\* when close() has returned what it closes is closed: Bailian's speech (SocketsHaveOneOwner)
\* and recognition (UtterancesAreHeld), the worker's client, where a reader or the engine
\* may be closing a websocket still (RepliesAreKept), the renderer's (WorkersAreHeld).
SocketsAreHeld == SocketsHaveOneOwner /\ UtterancesAreHeld /\ RepliesAreKept /\ WorkersAreHeld

\* The models are there for those who use them, once each: the voices of the CosyVoice
\* worker (VoicesAreKept) and of the providers (VoicesAreListed), the models that cut out
\* (CutoutsAreKept) and the effect of super resolution (EffectsAreKept).
ModelsAreKept == VoicesAreKept /\ VoicesAreListed /\ CutoutsAreKept /\ EffectsAreKept

\* What a session says is kept once and in order, and so is how fast it was said: by the
\* memory worklet (SayingsAreKept) and by the latencies (TurnsAreKept).
RecordsAreKept == SayingsAreKept /\ TurnsAreKept
=============================================================================
