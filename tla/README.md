# DigiBox: TLA+ models and proofs

DigiBox is a local, real-time talking avatar.  A stream server
(`src/src/avaturn_live_streamer`) talks to a speech model, cuts its speech into
frames, has each chunk rendered by a renderer service (`src/src/avtr1_renderer`)
and sends the frames to a browser over WebRTC.  It remembers what its user says in a
database.  Worker services synthesise speech or cut out backgrounds, and a desktop
shell starts and stops the processes.

The models here follow the code where coroutines, tasks, threads, processes and
transactions meet.  What is data to them (samples, frames, words, images, messages of
third parties) is a model value, a number, or a choice.  In the paths below `S/` stands
for `src/src/avaturn_live_streamer/` and `R/` for `src/src/avtr1_renderer/`.
`PROJECT.json` says which lines each definition models.

## Contents

1. The system: components, state, operations, interactions
2. The modules and how they correspond to the code
3. The runs: what they show, bounds, fairness
4. What is proved
5. Disagreements between the code and its documents
6. Observations that no run states
7. What is not modelled
8. Plan

## 1. The system

| component | state | operations | hard because of | correct when |
| --- | --- | --- | --- | --- |
| Speech scheduler (`S/speech/speech_scheduler.py`) | queue of segment events and chunks, audio buffer, queue of timestamped events, active segment | `start_segment`, `append`, `end_segment`, `interrupt`, `do_step` | `do_step` awaits twice; the others run meanwhile | each step gives exactly one present chunk; events are stamped inside their step; a segment's audio lies between its events |
| Rendering worklet (`S/worklets/rendering.py`) | two schedulers (avatar, user), metadata of segments | bus listener; render loop | listener and loop share the schedulers | playback events tell one life per segment; the loop ends after a shutdown |
| Event bus (`S/event_bus.py`) | bounded queue per subscription, subscription lists, ready count | `subscribe`, `ready`, `clone`, `publish`, `get_next` | publishers block before everyone is ready and on full queues; subscribers leave | no event lost, doubled or reordered; no publisher stuck |
| Stream (`S/runner.py`, `S/worklets/*.py`, `S/localrtc/worklet.py`, `S/core/clocks.py`) | one task group; timers; the peer's connection; clocks | each worklet's `run` | who starts the clocks, who has heard of the shutdown, cancellation while publishing | every worklet returns; no timer is left armed |
| Session slot (`S/local_stream_cli.py`) | active session, prepared engines | `offer`, `connect_engine`, preview, `disconnect`, the end of the server | requests overlap with a session being torn down | one session; each engine has one owner until it is closed |
| Speech bridge (`S/conversation_engines/local_tts_bridge.py`) | the current response with its bounded queue, worker and idle flush | `feed_text`, `finish_text`, `interrupt`, `close` | four tasks, one lock, a bounded queue and cancellation | pieces spoken once and in order; an interrupt silences; no segment stays open |
| Conversation engines (`S/conversation_engines/`) | the utterance being heard, the turn being answered, what was interrupted | the listener of the service, the handler of the bus, turn tasks | barge-in, speculation, fallbacks, confirmations that come late | one voice; nothing said twice; the answer is to what was said |
| Clients of speech services (`aliyun_bailian_client.py`, `local_cosyvoice_client.py`, the JSON-RPC half of `codex_realtime_client.py`) | websockets, turns, pending requests | open, read, cancel, close | handing a socket on; a close that meets an opening | what is opened is closed once; whoever waits is told |
| Memory service (`S/memory/service.py`, `worklet.py`, `admin.py`) | queues, writer task, accepting, counters, staged imports | submit, writer loop, clear, close, claims, import | ingests run in threads that cancellation does not stop | every batch accounted for; cleared is cleared; nobody asked twice |
| Memory store (`S/memory/sqlite_store.py`, `transfer.py`) | SQLite tables, tombstones, audit, revision | ingest, forget, clear, purge, claim, plan and apply an import | rows that refer to each other; plans made earlier | no resurrection; always exportable; an import does what was previewed |
| Renderer client (`S/renderer/client.py`) | worker held, frames given, future of the state | one call, retried | a retry after part of the frames; a thread that outlives its attempt | each frame once and in order; the worker given back |
| Renderer service (`R/api/app.py`, `R/idle_loop.py`) | `app.state.pipeline`, `registry`, sample counts; activity gate; two asyncio locks | live chunks, preflights, uploads, deletions, idle loops, release | coroutines and threads interleave on `app.state` | one runtime, never dropped under its user; live goes first; everyone is answered |
| Renderer pipeline, model wrappers (`R/pipeline.py`, `R/models`, `R/runtime`) | tensors | called by one thread at a time | numerical work | out of reach |
| Background removal (`R/feynobg.py`, `S/integrations/feynobg_server.py`, `release_models` of `S/local_stream_cli.py`) | the worker's two-part model and its lock; a model in the renderer | cut out, load, fall back, release | threads, a release that does not wait, a worker that does not answer | the model is whole while it runs; what is called released is not loaded; one local model |
| Super resolution (`R/nvidia_vsr.py`) | one native effect and its configuration, an adapter per pipeline | preinitialize, prepare, enhance, close | the effect can neither be created twice nor closed; every step may fail | one effect; frames are run on what was asked for |
| Turn metrics (`S/performance_metrics.py`) | records of the latest turns | milestones, the browser's observations | the browser does not say which turn it hears | an observation counts once, for a turn that speaks |
| Voices of a provider (`aliyun_bailian_client.py`, `minimax_voice_client.py`, routes of `local_stream_cli.py`) | a clone under way, a list under way | clone in several requests, list page by page | the account changes between two pages | listed once; what was there all the time is listed; answered means made |
| CosyVoice worker (`S/integrations/cosyvoice_server.py`) | model, reservations, voices on disk and in memory | duplex streams, release, create and delete a voice, restart | a thread that runs the model between two queues | the model is there while reserved; a deleted voice stays deleted |
| Desktop shells (`src/src-tauri`, `src/desktop`), `scripts/run_local_stream.py` | a child process and its children | start, watch, stop, kill, quit | each step may fail; reports come late | nothing is left running; what is shown is watched |

Interaction: a shell starts the orchestrator, which starts renderer, streamer and
workers.  The browser's offer makes the session slot run a stream.  All worklets of a
stream talk over one event bus.  The conversation engine calls the clients and the
bridge; the bridge publishes `SegmentGeneration*` and `DiscardAvatarSpeechBuffer`; the
rendering worklet feeds the scheduler with them, renders each step through the renderer
client, and publishes frames and playback events; the LocalRTC worklet sends frames to
the browser and publishes the participant's comings and goings; the timeout worklet
turns these into a `Shutdown`, which ends all.  The memory worklet observes transcripts
and submits them to the memory service, which outlives the stream and owns the store.

## 2. The modules

| module | code | what it is |
| --- | --- | --- |
| `SpeechScheduler` | `speech_scheduler.py`, part of `rendering.py` | the scheduler; `do_step` cut at its awaits |
| `SegmentPlayback` | `events.py` | abstract: the life of a segment as subscribers are told |
| `Rendering` | `rendering.py` | scheduler + listener + loop; implements `SegmentPlayback` |
| `Rendering_proofs` | | theorems about the two |
| `EventBus` | `event_bus.py` | operators of the bus, used by the next two |
| `BusClients` | `event_bus.py` | any workers and publishers on a bus |
| `StreamSession`, `StreamSession_proofs` | `runner.py`, `timeout.py`, `delayed_event.py`, `localrtc/worklet.py`, `clocks.py`, the loop of `rendering.py`, `_run_session_inner` | one stream from everyone subscribed to its end; theorems |
| `SessionSlot` | `local_stream_cli.py` | slot, prepared engines, offers, the end of the server |
| `PeerMedia` | `localrtc/peer.py`, `localrtc/worklet.py` | the media between the bus and the browser |
| `Server`, `Server_proofs` | | `SessionSlot`, `BusClients` and `PeerMedia` for one run; theorems |
| `TTSBridge`, `TTSBridge_proofs` | `local_tts_bridge.py`, two tasks of `realtime_api_client.py` | the speech bridge; theorems |
| `TurnDetector` | `custom_api_client.py` | operators: which chunks of the microphone make an utterance |
| `CustomConversation` | `custom_api_client.py` | the engine built from API components |
| `CodexConversation` | `codex_realtime_client.py` | the Codex engine with local synthesis |
| `MiniMaxConversation` | `minimax_realtime_client.py` | the MiniMax engine with local synthesis |
| `RealtimeConversation` | `realtime_api_client.py` | the OpenAI engine, its replies as text for the bridge or as audio |
| `Conversations` | | one of the four engines, chosen at the start |
| `BailianSpeech`, `BailianRecognition` | `aliyun_bailian_client.py` | the pooled synthesis client; the recognition client |
| `LocalSpeech` | `local_cosyvoice_client.py` | the client of the CosyVoice worker |
| `CodexLink` | `codex_realtime_client.py` | the JSON-RPC client of the app server |
| `VoiceWorker` | `integrations/cosyvoice_server.py` | the CosyVoice worker |
| `RendererClient` | `renderer/client.py` | one call of the renderer |
| `MemoryWorklet` | `memory/worklet.py` | how a session remembers |
| `CutoutWorker` | `R/feynobg.py`, `integrations/feynobg_server.py`, `local_stream_cli.py` | cutting out people, releasing the models that do |
| `SuperResolution` | `R/nvidia_vsr.py` | the native effect and its adapters |
| `TurnMetrics` | `performance_metrics.py` | the latencies of the latest turns |
| `ProviderVoices` | `local_stream_cli.py`, `aliyun_bailian_client.py`, `minimax_voice_client.py` | cloning and listing voices |
| `Links`, `Links_proofs` | | the eleven modules above from `BailianSpeech` on, one per behaviour; theorems |
| `MemoryWriter` | `memory/service.py`, `worklet.py`, `admin.py` | queue, writer, ingest threads, clear, close |
| `MemoryRecords` | `memory/sqlite_store.py`, `transfer.py` | operators: what each transaction does to the database |
| `MemoryStore` | `memory/service.py`, `admin.py`, `transfer.py` | who runs which transaction, and when; imports, claims, crashes |
| `Memory_proofs` | | theorems about `MemoryWriter` and `MemoryStore` |
| `RendererRuntime`, `RendererRuntime_proofs` | `R/api/app.py`, `R/idle_loop.py` | models, gate, locks and requests of the renderer; theorems |
| `Backend` | `scripts/run_local_stream.py` | orchestrators, their children and the port |
| `TauriShell` | `app.rs`, `supervisor.rs`, `health.rs` | the Tauri shell |
| `ElectronShell` | `main.cjs`, `backend-supervisor.cjs`, `health.cjs` | the Electron shell |
| `Desktop`, `Desktop_proofs` | | one of the shells, with the processes it starts; theorems |
| `MC...` | | instances for TLC whose constants a `.cfg` cannot write down; the other runs check a module as it is |

A coroutine is cut where it can really be suspended, and what it does between two
awaits is one action; `asyncio.Event.wait` on a set event, a free lock, a queue with
room and `publish` on a ready bus with room do not suspend.  A thread
(`run_in_thread`, `to_thread`, thread pool) is cut at each access to shared state.
A transaction on the database is one step.

**SpeechScheduler / Rendering.**  Audio is a sequence of units, each `Silence` or its
segment, and durations count units; splitting and concatenating are operations on
sequences.  `BeginStep`, `TakeStarted` ... `Finish` are `do_step`; its loop runs
without a break until `StopConsuming`, `AwaitStartupAudio` or `AwaitArrival`.
`Interrupt` cuts the buffer and rewrites the two queues in one step; the sweep that
notifies waiters (`Sweep`) follows.  `timeline` and `log` are history: what the steps
returned.  Each bus message the worklet reacts to is an action of `ListenBus`;
`RenderLoop` is a step and the dispatch of its events.  A segment is generated once;
the worklet's avatar and user schedulers are the same module under `role`.

**EventBus / BusClients / StreamSession.**  `publishing[p]` is where a `publish` is:
waiting for the bus to be ready, or blocked on a full queue with the rest of its list.
A bus task's read wakes one putter, as `asyncio.Queue` does.  `StreamSession` begins
when every worklet that subscribes at once has done so; what still has to call
`ready` is the peer's worklet and the engine.  The engine is two steps (connected,
ready).  A task that fails or is cancelled ends the group (`Fails`, `Cancelled`);
the state of such a session is collapsed, as nothing reads it.  `Calm` and `Settled`
say that tasks already in asyncio's FIFO ready queue run before a newly
arrived message is handled; without them the model has starts no loop can produce.
After each frame the video worker puts its audio into the track (`VideoSounds`) and waits
while the track is full; `track` counts the frames that wait there, and only a connected
peer takes them (`PeerPlays`).

**SessionSlot.**  An engine is known by the request that builds it.  `engine[e]` is what
became of it, `has[r]` the engine a handler holds, `store` the prepared ones by age,
`expired[r]` those a handler has taken out to close, `reserved` and `task` the slot.
`Owners(e)` is everybody who will close e: the store, a handler, the session's task.
The locks are never held over an await, so what they guard is one step; building,
negotiating and closing are awaits, and each may fail.  Engines whose closing has raised
are in `lost` and excused (section 6).

**PeerMedia.**  A frame is the number of its 20 ms audio parts.  `PushVideo` and `PushAudio`
are the two tracks' `push`: one drops, the other waits.  `mdUser` is the loop that turns
chunks into a stream with a start and an end by a deadline; a chunk that comes as the
deadline passes stays queued.  aiortc takes from both tracks until the connection goes.

**TTSBridge.**  `state[r]` is the `_ResponseState` of response r, `call[c]` what the
engine's listener (`feeder`) or bus handler (`controller`) is doing inside the bridge.
A text is numbered pieces, and where the chunker cuts is a choice that loses no text.
`_put_or_cancel`, `_cancel_state` and the worker's `finally` are cut at their awaits;
a `put` that has room when its owner is cancelled is done, one that has none is lost,
as the task of the put runs before its cancelled owner.  `open` is the speech
scheduler's `_write_active_segment`.  `turn` and `Suppresses` are the engine's
suppression of interrupted responses.  Backends with and without `open_text_stream`
are two initial states.

**TurnDetector / CustomConversation.**  The microphone brings chunks that are loud, soft
or silent, and `Feed` is `EnergyTurnDetector.feed` with its guarded threshold while the
avatar is heard, pre-roll, echo tail and longest turn.  `hand` is the handler of the bus
(it interrupts, recognises, starts turns and awaits the turn it cancels), a turn is a
task with a writer that streams the reply in pieces and a voice that speaks them, and the
guess is the reply begun on a partial transcript (speculation).  A duplex synthesis that
fails falls back to HTTP with what has not been heard.  That a turn was started over
a running one is remembered in `crossed` (section 6).

**CodexConversation, MiniMaxConversation.**  The two loops of each engine, one on the
service's messages and one on the bus.  In Codex an interruption is told by the service
and by the browser, in either order; `cxMistaken` remembers that the engine has taken one
of the two for an interruption that a terminal transcript will answer, and none will.  In MiniMax both loops await the reply's task.

**RealtimeConversation.**  `RtHears...` are the cases of the listener, with the awaits in
which it feeds, finishes or interrupts the bridge (`rtLoop`); `TypedText` to
`SilenceReturns` are the loop that drains replies before a typed text is sent, whose two
awaits the listener may use.  The service is written by what the engine expects of it: one
response at a time, ended by the user's speech or a cancellation, and an error for a
cancellation that comes too late.  Both modes are checked.

**BailianSpeech, BailianRecognition, LocalSpeech, CodexLink, RendererClient.**  Each
follows sockets (or workers, or requests) from opening to closing.  A turn of
`BailianSpeech` has a listener, one reader and up to three cancellers; the idle websocket
may be dead when it is taken out of the pool.  A reply of `LocalSpeech` may be closed by its reader, by the engine and by `close()`; each is
followed on its own (`by`), from the cancellation it sends to the websocket it closes, since
one that finds the reply closed returns while another is at it.  The receiving thread of
`RendererClient` goes on after its attempt has failed until it sees the stop.  `Others` in `Links` keeps
the ten services a behaviour is not about still.

**VoiceWorker.**  A stream is a coroutine and a thread that runs the model, with two
bounded queues; the client may append, finish, cancel, stop reading or leave.  A voice is
created in memory and saved to the cache, which was seeded once from the model's own; the
process may be restarted between any two steps of the seeding.

**CutoutWorker, SuperResolution, TurnMetrics, ProviderVoices.**  `CutoutWorker` has a thread
of the renderer for each upload (`cut`), one of the worker for each request (`job`) that may
outlive it, and one for each release; the two halves of the worker's model and the flag that
`/health` reads are loaded, dropped and set one by one.  `SuperResolution` has the calls of
the pipelines' adapters one after the other, as the gate of `RendererRuntime` makes them,
and every step may fail; `effect.parted` is history: the effect has taken a part only of what
it was last set to.  `TurnMetrics` numbers the browser's observations, so that it can be
seen where each of them went.  In `ProviderVoices` the account changes at any time, by the
program and by others; `query.kept` is history: what was there all the time.

**MemoryWorklet, MemoryWriter.**  Transcripts enter a bounded queue once each, by digest.
In `MemoryWriter` a batch is the time it was observed.  The writer's `ingest` is in
a thread that a cancelled writer leaves behind (`detached`); the store's
`_mutation_lock` is a `threading.Lock`, so an ingest and a clear that wait for it get
it in either order.  `Accounted` sees where each batch is.

**MemoryRecords / MemoryStore.**  A database is a record of what the tables hold; texts are
names without spelling and a fingerprint is what it is computed from.  `Batch` gives what
the extractor finds in a turn, so that a turn is a name.  `Ingested` with its conflicts
of names and standings, `ForgottenIn` with the rows that refer to the person, `Purged`, `Claimed`,
`Plan` and `Imported` are the transactions, and one that raises leaves the database as it
was.  In `MemoryStore` the administration's own calls exclude each other (`job`), everybody
else writes meanwhile; a claim runs in a thread that its caller gives up on after a
deadline; `Crash` keeps the database and the staged files.

**RendererRuntime.**  `at[t]` is where a request is, `has[t]` what it has read from
`app.state`.  `LoopFree` says that no coroutine is between two awaits; threads
interleave with that.  Runtimes and registries are numbered, so that a stale one can
be told from the one in use.  The lock's waiters are picked in any order.  A live
request's avatar is left out; of two kinds (`process_audio_v3`, NVIDIA preflight) each
takes its own path.  Fast path, load, upload, publication, deletion, each idle chunk,
each step of the release are actions.  A failed load, a failed idle loop and a refused
release are modelled; `restore_user_avatars` is taken to succeed.

**Backend / TauriShell / ElectronShell.**  An orchestrator starts three children, watches
the first two and ends all in its `finally`; `crashed` marks one that was killed before
that.  `Foreign` is a service, or another program, on port 7860 that the shell did not
start.  In the Tauri shell `gate` is the FIFO startup lock, `step` what its holder does,
`stop` the stop under way, `gen` the generation and `monitors` those still running.  In
the Electron shell a stop that ended is settled (`Settling`) before anything else happens,
as promises are.  Stop file, terminated job, taskkill and the wait for each may fail.

## 3. The runs

| run | instance | states | shows |
| --- | --- | --- | --- |
| `rendering` | 2 segments, present 2, future 3 units, chunks of 1 or 3, 4 units of audio, 3 steps, 1 discard besides the shutdown's | 0.36 M | `StepsAreWhole`, `SegmentsAreWhole`, `EventsInWindow`, refinement of `SegmentPlayback` (`PlaybackSpec`), `ShutdownEndsLoop` |
| `stream_session` | queues of 1, 2 frames, audio of 1 on the track | 0.17 M | `NobodyLeftBehind`, `LeavesNothingBehind` |
| `stream_ends` | queues of 5, 2 frames, audio of 1 on the track | 43 k | `StreamEnds` |
| `session_hang` | same, audio of 3 on the track | | violated: `ShutdownEndsSession` (section 5) |
| `server` | 2 prepared engines, 2 offers, 1 visit; 2 workers, 2 publishers, 2 events each, queues of 2; 2 frames of 2 audio parts, tracks of 1 and 2, 2 inbound | 0.22 M | `SlotIsSound`, `SlotIsFreed`, `StreamsKeepOrder`, `WaitsForRoomEnd` |
| `tts_bridge` | 2 responses, 2 pieces each, queue of 1 | 0.34 M | `SpeechIsWhole`, `EndsInSilence`, `CallsReturn` |
| `conversations` | 2 turns and captures of 2 pieces, queue of 1; 3 Codex and 3 MiniMax replies; 3 responses of OpenAI, 2 typed texts, 1 speech | 2.18 M | `OneVoiceEach`, `SaidOnce`, `AnswersWhatWasSaid`, `RepliesAreHeard` |
| `links` | 2 streams of the worker, 2 turns, 3 utterances, 2 replies, 2 users of Codex, 3 renderer workers and attempts, 3 transcripts; 2 uploads at a time and 1 release; 2 adapters, qualities and sizes; 2 of 3 turns kept, 2 sessions; 2 voices on pages of 1 | 0.69 M | `ModelsAreKept`, `ReservationReturns`, `SocketsAreHeld`, `ReaderIsTold`, `LinkEndsCleanly`, `FramesOnceInOrder`, `RecordsAreKept` |
| `memory_writer` | queue of 2, 3 batches, 2 clears | 0.44 M | `QueueSurvives`, `BatchesAreKept`, `ClearedOrRaced`, `AcceptedSettles` |
| `memory_store` | 3 turns, 2 people who share a name, 2 previews, 2 sessions, 4 revisions | 0.64 M | `StoreIsSound`, `ImportIsFresh`, `AskedOnce`, `FilesHaveOwners` |
| `renderer_runtime` | 2 live, 2 jobs, 1 release, 4 requests in all, 2 avatars, loops of 2 chunks | 0.49 M | `RuntimeIsKept`, `LiveGoesFirst`, `ShelfIsDisk`, `EveryoneIsAnswered` |
| `desktop` | 2 orchestrators, 2 startups or launches | 4.22 M | `ProcessesAreKept`, `ReadyIsWatched` |

A property of a run is often a conjunction of named parts, each with a comment of its own
in its module, and contains the module's type invariant:

| property | parts |
| --- | --- |
| `StepsAreWhole` | `PresentNeverShort` (one whole present chunk per step), `PaddingHasASide` |
| `SegmentsAreWhole` | `AudioInsideSegment`, `StoppedMeansClosed` |
| `LeavesNothingBehind` | `AbsenceTimerIsFree`, `EndedCleanly` |
| `StreamEnds` | `StartedSessionEnds`, `LostPeerEndsSession` |
| `SlotIsSound` | `OneOwner` (each open engine has one), `OneSession` |
| `StreamsKeepOrder` | `BusIsSound` (`EachOnceInOrder`, `QueuesBounded`), `MediaLeavesInOrder`, `UserIsHeardInOrder` |
| `WaitsForRoomEnd` | `PublishReturns`, `VideoWorkerReturns` |
| `SpeechIsWhole` | `SpeechIsHeard`, `SpokenInOrder` |
| `EndsInSilence` | `InterruptSilences`, `NoSegmentLeftOpen` |
| `OneVoiceEach` | `OneVoice` (API components), `MiniMaxOneVoice` |
| `RepliesAreHeard` | `CodexIsHeard`, `RealtimeIsHeard`, `RealtimeForgets` |
| `ModelsAreKept` | `VoicesAreKept` (`ModelIsKept`, `DeletedStaysDeleted`), `VoicesAreListed`, `CutoutsAreKept` (`CutoutsAreSerial`, `ReleasedIsEmpty`, `LocalLoadedOnce`), `EffectsAreKept` |
| `RecordsAreKept` | `SayingsAreKept`, `TurnsAreKept` |
| `SocketsAreHeld` | `SocketsHaveOneOwner`, `UtterancesAreHeld`, `RepliesAreKept`, `WorkersAreHeld` |
| `LinkEndsCleanly` | `NobodyWaits`, `StopsOnce`, `NoticesInOrder` |
| `QueueSurvives` | `JoinCounts`, `RestoreFits`, `OneWriter` |
| `BatchesAreKept` | `WriterInOrder`, `Accounted` |
| `StoreIsSound` | the database is a valid export, is what ingesting would derive, has no two rows of a key and nothing that was forgotten |
| `RuntimeIsKept` | `LiveKeepsRuntime`, `JobKeepsRuntime`, `OneRuntime` |
| `ProcessesAreKept` | `StartedIsKnown` (`OwnedIsKnown`, `ChildIsKnown`), `ChildrenGoFirst` |

Every property has one mutant or more in `PROJECT.json`, a plausible bug in a named
definition that makes the run fail; a conjunction has them for its parts where they
differ.  `Server`, `Links`, `Conversations` and `Desktop` put modules that share no state
into one run, a behaviour being of one of them; TLC then explores the sum of their state
spaces, not the product.  Two of them have parts in common: both shells run the same
`Backend`.

**Why the bounds are enough.**  *Rendering*: chunks shorter and longer than a step make
both mid-segment waits and splits; two segments are the least in which one is ended
while the next starts; one discard and the shutdown's are the two interrupts of every
known interaction; three steps let audio cross two boundaries.  *Bus*: two events and a
queue of two let a publisher find a queue full with its own and with another's events,
and a leaver drain waiters of both.  *StreamSession*: a queue of one makes each publish
of each worklet meet a full queue.  Liveness needs room for as many events as tasks can
be waiting on one queue, because the drain of a leaving subscriber wakes only as many
putters as the queue has places (`BusClients` assumes
`Cardinality(Publishers) <= Capacity`; the code has 100 against about a dozen tasks), so
`stream_ends` has five; the audio of one frame fills the track, so that the second waits.
In `session_hang` every frame finds room, so that the clocks alone are what hangs.  *SessionSlot*: two offers contend for the slot and for a
prepared engine, two prepared engines expire one by one or together, and a visit takes
one away meanwhile.  *PeerMedia*: two frames with more
audio than its queue holds block the worker, and drop a picture.  *TTSBridge*: a queue of one is full as soon as it is used; two
responses make one replacement, and its wait is where interrupts and closes can slip in;
two pieces let one wait while one is queued.  *Conversations*: two turns are one
interruption and its successor; a guess, a capture and a turn can overlap; three replies
let a suppression hit the wrong one; room for two cancellations of three evicts one.  *Links*: two turns of `BailianSpeech` hand one
websocket on while a second is opened; two streams of the worker contend for the
inference lock; three workers and attempts let one answer be lost, one be cut short and one
succeed; six transcripts of three kinds repeat each and evict a digest; two uploads at a time and a release
contend for the worker's lock, and the one that gives up leaves a thread behind; with two
qualities and sizes an adapter finds the effect as another has left it; two voices on pages
of one come, go and move under a query.
*MemoryWriter*: two queued batches and one in hand fill what a
failing clear must put back; two clears meet each other and close.  *MemoryStore*: the
turns tell of a friend and a trip with her, of a boss whose name is the friend's alias, and
of the trip again, so that names clash, standings rise and rows refer to each other; the
foreign export knows the friend and has forgotten the trip; one preview is kept, so that the second evicts it; two sessions compete for one
event.  *RendererRuntime*: two live requests contend for a load, two jobs for the user
lock, and the release meets each; four requests is one more than any interleaving we know
of needs.  *Desktop*: a second orchestrator is what a retry starts when the first has not
ended; two misses in a row stand for five.

**Fairness.**  Tasks and threads run when they are ready, and armed timers fire: weak
fairness of each.  In `Rendering` it is on the sweep, on beginning a step and on the
steps of `do_step`: the loop runs by itself and the engine owes nothing.  In
`RendererRuntime` a thread's work ends and a lock that is free is given to some waiter.
In `TTSBridge` a synthesis and its clean-up end.  In `SessionSlot` (`SlotFairness`) a
handler, a session that was told to stop and the lifespan go on: building, negotiating
and closing end, well or badly.  In `BusClients` (`ClientsFairness`) a worker reads or
leaves and a publisher that has begun goes on, but none has to begin.  In `Links`
(`WorkerFairness`) the thread of each stream runs and its coroutine begins; no client has
to send, read or leave.  In `StreamSession` a connected peer goes on playing (`PeerPlays`), a
lost one need not be noticed.  In `PeerMedia` (`MdFairness`) the video worker runs, and aiortc
takes audio while it is connected.  The environment is never fair: no
browser has to connect or leave, no engine to speak or answer, no request to come,
nobody to clear, close, interrupt or cancel.  Failures may happen and need not.

**Symmetry** is used in `memory_store` (previews, sessions) and `conversations` (the
texts), which check safety only.

**Deadlock** is checked in `rendering`, the three stream runs, `tts_bridge`,
`memory_writer` and `renderer_runtime`.  The other five may simply be over: workers and
publishers have finished, a client is closed and its bounded environment has nothing
left to send, the database is at its last revision, the shell has quit.

## 4. What is proved

TLAPS checks these for all values of the constants, under the assumptions that the modules
state and TLC evaluates: `DurationAssumption` and `NameAssumption` of the scheduler (a present
chunk is not empty and no longer than the future one: five frames, and five frames and 80
samples, in `S/renderer/models.py:32`), `WriterAssumption` of the memory writer (its queue has room for one),
`SessionAssumption` of the stream (the bus has the stream's workers, publishers and events, and there is a
frame to render), `StoreAssumption` of the store (no preview has the name for none, and one is kept at least),
`RuntimeAssumption` of the renderer (the kinds of requests are disjoint and finitely many, and a
portrait is bundled), `SlotAssumption` and `ClientAssumption` of the server (finitely many requests and
workers, whose names differ, and natural bounds), `BackendAssumption` and `TauriAssumption` of the
desktop (a natural number of orchestrators, and room for the startup the shell begins with),
`BridgeAssumption` of the speech bridge (its queue has room for one, the other bounds are natural
numbers), and in `Links` those of its services, which say that bounds are natural
numbers, that queues have room for one and that names differ.

| theorem | says |
| --- | --- |
| `Rendering_proofs!TypeCorrect` | `Spec => []TypeOK` |
| `Rendering_proofs!PresentCorrect` | `[]PresentNeverShort`, with `AudioSuffices` |
| `Rendering_proofs!PaddingCorrect` | `[]PaddingHasASide` |
| `Rendering_proofs!StepsCorrect` | `[]StepsAreWhole`, an invariant of the run `rendering` |
| `Rendering_proofs!WindowCorrect` | `Spec => EventsInWindow`, an action property of that run |
| `Rendering_proofs!PlaybackImplemented` | `RenderingSpec => PlaybackSpec`, the refinement that run checks |
| `Rendering_proofs!StoppedCorrect` | `[]StoppedMeansClosed` |
| `Rendering_proofs!SegmentsWhole` | `[]SegmentsAreWhole`, the run's other invariant |
| `Memory_proofs!TypeCorrect` | `Spec => []TypeOK` |
| `Memory_proofs!JoinCorrect` | `[]JoinCounts` |
| `Memory_proofs!RestoreCorrect` | `[]RestoreFits` |
| `Memory_proofs!WriterCorrect` | `[]OneWriter` |
| `Memory_proofs!QueueCorrect` | `[]QueueSurvives`, an invariant of the run `memory_writer` |
| `Memory_proofs!ClearedCorrect` | `[]ClearedOrRaced`, another |
| `Memory_proofs!BatchesKept` | `[]BatchesAreKept`, the third |
| `Memory_proofs!ImportsAreSound` | `StoreSpec => []StoreInv`, from which the next two follow |
| `Memory_proofs!FilesOwned` | `[]FilesHaveOwners`, an invariant of the run `memory_store` |
| `Memory_proofs!ImportsFresh` | `StoreSpec => ImportIsFresh`, its action property |
| `RendererRuntime_proofs!RuntimeKept` | `[]RuntimeIsKept` |
| `RendererRuntime_proofs!LiveFirst` | `[]LiveGoesFirst` |
| `RendererRuntime_proofs!ShelfAgrees` | `[]ShelfIsDisk`: all invariants of the run `renderer_runtime` |
| `StreamSession_proofs!NobodyLeft` | `[]NobodyLeftBehind` |
| `StreamSession_proofs!NothingLeft` | `[]LeavesNothingBehind`: both invariants of the run `stream_session` |
| `Server_proofs!SlotSound` | `[]SlotIsSound`, an invariant of the run `server` |
| `Server_proofs!BusSound` | `[]BusIsSound` |
| `Server_proofs!StreamsOrdered` | `[]StreamsKeepOrder`, its other invariant |
| `Desktop_proofs!ProcessesKept` | `[]ProcessesAreKept` |
| `Desktop_proofs!ReadyWatched` | `[]ReadyIsWatched`: both invariants of the run `desktop` |
| `TTSBridge_proofs!BridgeIsSound` | `[]BridgeInv`, from which the next two follow |
| `TTSBridge_proofs!SpeechKeepsOrder` | `[]SpeechIsWhole` |
| `TTSBridge_proofs!BridgeFallsSilent` | `[]EndsInSilence`: both invariants of the run `tts_bridge` |
| `Links_proofs!ModelsKept` | `[]ModelsAreKept` |
| `Links_proofs!SocketsHeld` | `[]SocketsAreHeld` |
| `Links_proofs!ReaderTold` | `[]ReaderIsTold` |
| `Links_proofs!LinkEnds` | `[]LinkEndsCleanly` |
| `Links_proofs!FramesInOrder` | `[]FramesOnceInOrder` |
| `Links_proofs!RecordsKept` | `[]RecordsAreKept`: all invariants of the run `links` |

*Scheduler.*  `PresentNeverShort` alone is not inductive: what a step returns depends on
the audio it holds at the end.  `AudioSuffices` adds that, at every await, the popped
audio is as long as the step counts, and that either the buffer alone still has the
look-ahead, or buffer, popped audio and what is still to consume reach present and future
together.  An interrupt keeps the look-ahead or all of the buffer, so it moves a step
from the second case to the first at worst, and as `Present <= Future` a present chunk is
left.  `PaddingInv` adds which exits of the loop leave audio missing: with a segment
active, only those of the step that starts it, and then there is a side to pad on.

`EventsInWindow` is about the other half of a step, the events it returns: those in front of
the event queue that are due.  They are due and no earlier than the step only if the queue is
in order and holds nothing of the past, and it is in order only if no interrupt ever cuts the
audio before a stamp.  `StampsInv` says why none does.  `QueueInv`: a notice never comes behind
speech in the queue, and with a segment active only behind that segment's end, so that no
notice is stamped ahead of audio that `do_step` still waits for.  `QueuedInv`: where an
interrupt may come, every stamp lies within the audio it keeps (`LookAhead`), except in a step
that starts a segment, whose stamps the cancelled start gives back as padding (`Horizon`).
`NewInv`: the step's own events come after the queued ones and before the end of the audio
it holds.

What the events tell of a segment is one sequence of facts, `Told`: those returned, those
queued and those of the step, unless an interrupt has cancelled the segment the step starts;
`Course` continues it with the queue.  `LifeInv` says that this sequence is lawful (a segment
starts once, while no other is on air, has its audio before its end and is interrupted after
it), that `active` is the segment on air after what is told and `_write_active_segment` the
one after what is queued.  Whether the step tells depends on a race with the interrupt:
`StartInv` has what a step that starts a segment holds.  A prefix of a lawful sequence is
lawful, so each event the loop dispatches is a step of `SegmentPlayback`
(`DispatchImplements`), and every other step of the stream leaves what was dispatched alone
(`LogKept`).

`SegmentsAreWhole` adds the audio.  `SoundInv`: every unit on the stream, in the buffer or
popped by the step lies inside its segment as the stamps of `Told` place it.  A new stamp is
put behind all of that audio (`AudioBehind`); a padding on the left moves audio, and then
the only stamp that moves with it is the start of the segment on air (`PadsStart`); an
interrupt pulls the popped audio of a waiting step towards the past, and it is then of the
segment whose start was already returned, or of one nothing tells of any more
(`MidsegmentAudio`, which is what `TakenInv` and `LoggedInv` are for).

*Memory writer.*  `Types` and `Bookkeeping` (the three counting properties, and that
nothing is taken unless a clear is under way) are inductive together: a clear's batches
leave the queue and the count at once, so `RestoreFits` needs that submissions are
refused meanwhile, which needs that there is one clear.  `Cleared` strengthens
`ClearedOrRaced`: what is queued, taken or in hand is newer than the cutoff, and what is
detached is newer or raced.  `Ordered` says that what the writer has taken, and then what
is queued or what a clear has taken out, come in the order of acceptance, whatever was put
back; `Placed` lists the places a batch can be in, says that no batch is in two of them,
and which batches may be in none (those a writer took that was cancelled by close).

*Memory store.*  `ImportIsFresh` needs of the transactions only that one which changes the database
counts its revision (`Counts`, a lemma for each); what it does to the rows is not looked at.  So a plan whose
revision the database still has was made for that very database (`PlanFits`), even if
others wrote between the staging, where the revision is read, and the planning; and the same goes for the
backup (`BackupFits`), which is made after the first comparison of revisions and before the
second.  `FilesHaveOwners` needs `PreviewsAreKept`: who holds the import lock works on a preview that is
kept already, or on one for which there is room; that a preview is kept once
makes it gone when it is taken out (`RemovedHas`).

*Renderer.*  The three invariants have one inductive invariant, `IndInv`.  `PlacesInv` and
`LocksInv` say which request may be where and who holds the two locks; `ActiveInv` that the
gate counts exactly the live requests under way (a cardinality, hence for finitely many
requests); `HasInv` and `ValuesInv` what each request has read from `app.state`; `LoadInv`
and `SyncInv` what is being loaded, and that pipeline and registry are of one generation but
in a release's window; `MetInv` and `KeptInv` that after a release's last check only requests
that came too late are present, and whatever any other holds is still in use; `IdleInv` that an idle
chunk and a live request exclude each other; `ShelfInv` that the registry in use agrees with the
disk but for what the holder of the user lock is about to write.  Every part has a lemma
with one step per action.

*Stream.*  `SessionInv` is about the tasks and the bus: that `pending` counts who has still to call
`ready` (`ReadyIsCounted`), and that until then nothing has arrived and nobody stops; that who is
listed reads, once in each list, and the video worker, which subscribes last, is the last of its
lists.  `NobodyLeftBehind` is about two publishers of `Shutdown`, one of which may be cancelled in the
middle.  `StopInv` follows one through the list: it is given to the render loop's listener first
(`ListenerIsFirst`), so that when the loop stops everyone has one or is owed one by a publisher that waits
for room, and to the video worker last (`VideoIsLast`), so that when the return of this one has the
publisher cancelled, nobody is owed anything.  In `LeavesNothingBehind` the hard part is
`AbsenceTimerIsFree`, for the timer is armed by one event and freed by another, published by
different tasks while the bus holds some of them until everyone is ready.  `JoinInv` says that the arrival
comes before the departure wherever the two are: held publishers are let go in the order they
came (`HeldAre`), the queue of the timeout worklet keeps it, and whoever may leave is on his way
there, in that queue or counted (`CountIsRight`).  TLC finds `JoinInv` invariant with room for one
event and for two.

*Server.*  `SlotInv` says where each engine may be: with a request for itself, among the expired
ones it is closing, in the store, or with a session.  `Apart` lists the pairs of these
that exclude each other, `Singly` that no sequence has an engine twice, and `Kept` that who has an engine
has an open one and that an open one nobody has is lost; the slot's side is `OneAtATime`, that there is
one offer being answered at most, and that `reserved` and a session exclude each other.  Three
lemmas on sequences carry it (`TailHas`, `CutHas`, `PoppedHas`): an engine that is taken out of
one place is gone from it.

`BusInv` relates what a worker has reached (received, in hand, queued) to what it ought to
(`Owed`): everything that was published for it while it was there, but for the one event whose
publisher still waits to give it to this worker (`Pending`).  That it is given
once needs that a publisher's list of whom is left names nobody twice (`UnderWay`), hence that the
lists of the bus do not (`ListsAgree`); that everybody hears of the first event needs that `pending` is
the number of those not yet ready (`Counted`, a cardinality).

`MediaInv` has one part for each stream.  What has been put on the audio track is exactly the
sound of the frames read, but for the rest of the frame in hand (`SoundIsPut`), in order; the pictures, which
are dropped when the browser is slow, are an ascending selection that ends with the last
shown (`PicturesShown`).  For the user's sound the chunk that the loop holds lies between
those published and those queued, and every chunk that came is published, in hand, queued or dropped
(`ChunksInOrder`).

*Services.*  Each service has an invariant that its own steps preserve, and the others'
steps leave alone (`StepOfEach`), so that the theorems combine them.  Their shape is the same
everywhere: a predicate that says of one record (a turn, an utterance, a caller, a stream)
that it is sound in itself (`TurnSound`), and a part that relates the
records, by which what is open has exactly one owner (`SocketInv`).  A
step changes one record; it is shown to keep that one sound and the relation, for all
others nothing is to be shown.  Counts are cardinalities: `ReservationInv` that the worker's
counter is the number of streams with a reservation, `Counted` of the renderer's client that
the frames handed over follow those drawn.  `ReaderIsTold` needs that the end marker is in the
queue whenever the listener is done and the reader is not, in spite of a canceller that drains
it, and hence how much room a drained queue has.  `ListInv` of a query relates the place of
every voice that was there all the time to the pages that were read.

*Desktop.*  `DesktopInv` has a part for each shell, preserved by that shell's steps and by what the
processes do by themselves: these start nobody, and who has ended has ended for good (`Quieter`,
`Steady`).  For Tauri `OwnedIsKnown` needs `HolderKnows`: a backend is started only by a startup that
holds the gate and has no session, and as long as one is stopped there is none.  `Watched` says of the
monitor that it is about the session too; it survives because a step that makes a
generation old either leaves a report behind or is the startup that holds the gate.  The bound on
`gen` in `TypeOK` is the accounting `GenerationsCounted`: a startup asked for enters once and makes
one monitor, and a monitor advances the generation once, so that what is to come (a
cardinality, the gate's turns) and what was make two for each startup.  For Electron
`ChildIsHeld` says that whatever was started is the child unless its exit was handled, and
that the child is the session, or the startup under way waits for it or has it stopped; `QuitStops` that a
quit awaits a stop of that very session, so that nothing runs when it goes on.  A stop ends with
the child's exit (`StopsEnd`) or with a taskkill that failed (`survivor`), and after the latter both parts
are given up, as `ChildIsKnown` is.

*Speech bridge.*  `SpeechIsWhole` is about what the backend was given, so `Ordered` follows a
piece on its whole way: what was spoken, what is queued and what is still to be put
(`Coming`, by the feeder or by the flush) are each in the order of the text and each precedes
the next.  A cancelled task may lose some of what comes, never reorder it (`Before` is
transitive).  It needs that only one of the two tasks puts (`OnePuts`), which
the response's lock ensures, held through every await in a put; and that a piece cut later comes after all that was cut before (`Bounded`),
which is said only of a response that is not cancelled, since nothing is cut for the others.
`EndsInSilence` needs what the two callers know of each other.  `CallSound` says of a call that
awaits an older response that this one is cancelled and current no more, `CallsAgree` that while the
feeder replaces a response there is no current one and the newer has not begun
(`TurnsInOrder`).  An interrupt
that comes then finds no response to silence, and the one that the feeder is about to begin begins after it: this
is the one the property excepts (`slipped`), and `Silences` says that there is no other.  Each step changes one response and
one call at most; lemmas say what such a step keeps, and every action is an instance of
them.

What is only model-checked.  The liveness properties and `ENABLED` are out of the prover's
reach: `ShutdownEndsLoop`, `StreamEnds`, `SlotIsFreed`, `WaitsForRoomEnd`, `CallsReturn`,
`ReservationReturns`, `AcceptedSettles`, `EveryoneIsAnswered`.  What a transaction of `MemoryRecords` does to every
database would need induction over the candidates of a turn and the rows of a bundle, which is out of
reach too (`StoreIsSound`, `AskedOnce`).  Not attempted: the
invariants of the engines (`OneVoiceEach`, `RepliesAreHeard`, `SaidOnce`, `AnswersWhatWasSaid`).

## 5. Disagreements between the code and its documents

The first is the run `session_hang`, which TLC refutes; `PROJECT.json` has the quotation.
The others are stated in the modules under the names given.  Each was found violated by
TLC when it was checked (add the name to the INVARIANTs of the run that is named), and the
passing runs check what does hold in their place.

- A shutdown before the first frame leaves the render loop waiting for clocks that nobody
  starts (`S/localrtc/worklet.py:156`): the session never ends by itself.
- `DurationIsLimited` (`stream_ends`, as a PROPERTY): the "Hard stream duration limit" of
  `S/worklets/timeout.py:39` does not end a stream whose connection is gone and whose audio
  track is full: the video worker waits for room at `S/localrtc/worklet.py:187` and never
  reads the timer's `Shutdown`.  The counterexample loses the connection before the
  lifecycle worker has read its state.  `StreamEnds`, which exempts this (`OutOfRoom`), is
  what holds.
- `WaitEndsWithArrival` (`rendering`): two interrupts before a woken step resumes leave it
  an empty queue to pop (`S/speech/speech_scheduler.py:253`), and the render loop raises.
  The comment at `:249`: "Block and wait for new arrivals to the queue if we are midsegment".
- `ClearIsFinal` (`memory_writer`): an ingest that a clear has cancelled but not stopped
  may get the store's lock after it and stores what the clear was to delete
  (`S/memory/service.py:301`).  The docstring at `:273`: "Run a destructive clear after
  isolating all accepted writer work."  `ClearedOrRaced` is what holds.
- `ReleasedAsOneUnit` (`renderer_runtime`): a live request on the fast path can take the
  pipeline a release is closing and the registry it has emptied (`R/api/app.py:1006`).  The
  class says (`:96`): "All GPU-backed objects that are installed and released as one unit."
- `NothingLost` (`tts_bridge`): `finish_text` cancels a flush that has taken the last words
  and waits for room: they are never spoken (`S/conversation_engines/local_tts_bridge.py:457`),
  against what `tests/conversation_engines/test_local_tts_bridge.py:156` asserts of a full
  queue.
- `OneOrchestrator` (`desktop`): `docs/plans/2026-08-06-electron-desktop-runtime.md:7` says
  "Electron owns exactly one Python orchestrator".  When a startup fails and its child also
  outlives the taskkill, `onStartupFailure` rejects (`backend-supervisor.cjs:69`),
  `startDesktopBackend` leaves `backendSession` null (`main.cjs:283`), and a retry, which
  looks at that only (`:277`), spawns a second orchestrator whose child overwrites
  `ownedChild` (`:159`).  The Tauri shell puts the session back and refuses (`app.rs:439`,
  `:861`).
- `NoThreadIsStuck` (`links`): a stream of the CosyVoice worker that ends normally puts its
  end into a full queue without a timeout; when the client has left, its thread waits for
  ever, although `receive_text` says (`cosyvoice_server.py:960`) "Cancellation must not leave
  an uncancellable to_thread queue.put blocked behind a full producer queue."
- `SuppressedWasInterrupted` (`conversations`): an interruption told after the user's
  transcript, or as the end of a reply is handled, makes the Codex engine suppress the next
  reply (`codex_realtime_client.py:632`); `CodexIsHeard` excuses those as `cxMistaken`.
- `TypedTurnsAreDrained` (`conversations`): `realtime_api_client.py:428` says of responses
  created while the bridge is cleaning up "Drain each such generation before submitting the
  typed turn."  One that is created and done within that await leaves no current response
  behind, the loop ends, and what the bridge has taken of it is spoken over the typed turn.
- `ReportsAreCurrent` (`desktop`): a report of a lost backend advances the generation, waits
  for the gate and does not look again (`app.rs:582`): it may stop a backend that was
  started meanwhile.

## 6. Observations that no run states

What the code does that a reader may not expect, met while it was modelled.  Where a
property excuses one, it is named.

Scheduler and rendering.
- Chunks a waiting step has popped are played although an interrupt cancels their
  pending start (`speech_scheduler.py:116`, against what
  `tests/test_speech_scheduler.py:100` expects of the buffered ones).
- The future chunk, unlike the present one, can come out short after an interrupt.
- `case SegmentCancelled(segment_id=...)` (`rendering.py:258`) never matches, the field
  being `id`: a cancellation is not published and its metadata stays.
- The user's mid-segment wait (`rendering.py:207`) stalls the avatar's frames; user segments
  share one id.

Stream.
- `publish` waits 5 s for everyone to be ready (`event_bus.py:221`), the peer's worklet up
  to 30 s to connect.
- The lifecycle worker misses a connection lost before it watches; only the duration
  timer can end that stream, and it does only while the audio of the frames until then finds
  room in the track (`LostPeerEndsSession` holds through it, and exempts `OutOfRoom`).
- `push_audio_chunk` blocks on a queue of 64 when the peer has stopped consuming
  (`localrtc/worklet.py:187`): with 32 frames ahead of the `Shutdown` the video worker
  never reads it (`OutOfRoom` in `VideoWorkerReturns` and `StreamEnds`), and only cancelling
  the session ends it: a loss the lifecycle worker misses comes to that after 1.3 s of frames,
  whatever the duration timer does (`DurationIsLimited`, violated).  A user who speaks at the end gets no
  `UserSpeechStreamEnd`.

Session slot.
- `put`, `get` and `take` close the expired engines first; one that raises loses the others
  and the engine just taken (`lost` in `OneOwner`; `local_stream_cli.py:728`).  So does
  `peer.close()` raising in the `except` of `offer`.
- `stop_and_wait` may cancel a session in its `finally` and cut the engine's close short; a
  task cancelled before it has run never closes its engine.
- A preview uses an engine that may be taken or closed meanwhile.  `release_models` and
  `delete_avatar` look whether a session is active and act later (`:2014`).  No route ends
  a session, only its participant or the end of the process does.

Speech bridge.
- A response whose first text waits for the older one to be cancelled has no state yet:
  an interrupt or a close that comes then does not stop it, and it is spoken afterwards
  (`slipped` in `InterruptSilences`), although `realtime_api_client.py:429` means to
  drain every generation before a typed turn.
- While the controller awaits an interrupted response, a response that starts can find
  the scheduler's segment open still, and is then not heard (`SpeechIsHeard`).
- After `close`, `feed_text` raises but `finish_text` returns: a delta that arrives
  during the shutdown fails the session.
- `_cancel_state` sets `_idle` after a newer response may have cleared it (`:411`).

Conversation engines.
- A text handled while the detector has confirmed speech, or an utterance complete at the
  chunk that confirms it, makes `_start_turn` overwrite a running turn
  (`custom_api_client.py:1696`; `crossed` in `OneVoice`): nobody cancels or awaits that one,
  its failure closes its successor's speech, and with a full queue it may wait for ever.
- A publication cancelled while it waits for room loses its event.
- Bailian's callback of a partial transcript is awaited inline and can delay the final one,
  against the comment "Observers must never delay or fail final recognition".
- A guess installed while `_cancel_realtime_capture` awaits the recogniser lives on.
- MiniMax: an interruption between the await of `_cancel_tts` and `_start_local_tts` does not
  stop the reply; the server's response is never cancelled; a cancelled task's `finally`
  may close its successor's segment; a reply may be spoken after the close.
- OpenAI: in audio mode a typed text cancels the response and leaves the audio already
  published in the scheduler; a cancellation that succeeds is kept until 64 newer ones evict it.

Clients and workers.
- `BailianSpeech`: a command that waits on the send lock while `task-finished` pools the
  websocket is sent on one another turn may own.  A `cancel()` that is cancelled itself
  leaves its turn open until the factory is closed.
- `BailianRecognition`: a cancel during `finish` disposes twice; two `start()` at once
  overwrite the websocket; an old listener reads the new turn's callback; `start()` works
  after `close()`.
- `LocalSpeech`: a stream that was connecting during `close()` is kept by a closed client,
  open, until its own reader or engine closes it (`local_cosyvoice_client.py:208`).  `close()`
  may return while a reader or the engine is still closing a websocket (`:111`), a second
  `close()` returns at once, and one that is cancelled leaves open what it had not begun to close.
  `RepliesAreKept` says no more than that.
- `CodexLink`: the reader that refuses a server's request waits for the write lock, which a
  blocked drain may hold (not modelled); a link started again after its close would read
  the old end marker; a request written after the end of the input waits 30 s.
- `RendererClient`: an answer of no or one frame makes `_record_renderer_metrics` raise, and
  the call fails without a retry; a generator never iterated leaves the future pending; a
  worker granted by a lost answer, or given back by one, stays taken (`adrift` in
  `WorkersAreHeld`); a cancellation during `_release` does too; a second cancellation
  releases a worker whose thread still receives; the frames of one call may come from
  several attempts.
- `VoiceWorker`: a cancelled stream that waits for the inference lock keeps its reservation
  until the other ends (`ReservationReturns`); a voice may be deleted between admission and
  inference.

Memory.
- A clear that fails after close restores batches to a queue nobody reads, uncounted; an
  ingest failing in its thread after close is uncounted too (`Accounted` says so).
- `claim_follow_up_before` tests its deadline before the commit (`sqlite_store.py:1694`): an
  event can count as asked about though no session was told, and likewise when the engine
  cannot be built afterwards (`AskedOnce` promises no more than once).
- A preview reads the revision first and the rows later; if they differ, the plan is refused
  when it is applied.
- Forgetting somebody and hearing of them with other aliases, standing or notes makes a row
  of another fingerprint (the design of 2026-08-17, `:41`, promises only the fingerprint); a
  turn about somebody by another's alias renames that row; a person forgotten with notes may come
  back as a participant without them.
- A worklet cancelled while it drains leaves its extraction task running (`AbandonDrain`).
- `list_records` pages by `updated_at` and may miss or repeat a row updated in between.

Renderer.
- `delete_avatar` reads the registry before it has the lock and may remove the avatar
  from a registry that a reload has replaced (`stale` in `ShelfIsDisk`).
- A live request's reload lists the user's avatars without the user lock.
- An empty registry is replaced by a fresh dict (`R/api/app.py:1007`): an upload into a runtime
  without avatars is published to one nobody reads.

- `FramesAsAsked` of `SuperResolution` does not hold: when the effect has taken a quality and
  refuses the height or width, its entry keeps the configuration before (`R/nvidia_vsr.py:128`),
  and the next adapter that asks for that one runs its frames on an effect set otherwise
  (`parted` in `EffectsAreKept`).
- The renderer's own model for cutouts is loaded once and never released, and several threads
  use it at once, while the worker serializes its own.
- The worker's model whose processor cannot be loaded stays half loaded while `/health` says
  released; an upload that waits for the lock during a release loads the model again right after it.
- `release_models` takes a worker that does not answer in 120 s for one that is not running
  (`late` in `CutoutWorker`).

Desktop.
- Tauri: when a previous stop failed, the error of `run_startup` does not bring the splash back;
  the phase "stopping" of an exit may be overwritten by a failure's "error"; a stop file
  that could not be written makes a stop that succeeded an error; the dialog of
  `select_runtime` outlives the splash.
- Electron: `waitForReady` takes any healthy service, and polls the child's exit before it
  probes (`health.cjs:60`), so that a dead child may be shown as ready; the streamer of a crashed
  orchestrator is adopted as external and never stopped (`run_local_stream.py:422`); the
  stop of an older child writes the newest stop file; a startup does not look at `stopping`.
- Either shell waits 20 s for an orchestrator that may need 20 s for each child.

Voices of a provider.
- Voices inserted before a page that was read push its last ones to the next: when the
  next is full and brings nothing new the query fails.
- A voice whose cloning fails or whose answer is lost after `create_voice` stays in the account,
  and so does the uploaded audio; the user is told that it failed.

Metrics.  `TurnLatencyStore` marks an interrupted turn "complete" again when a frame that
was already generated arrives, and a late milestone of an evicted turn recreates it.

## 7. What is not modelled

Numerical code (pipeline, wrappers, runtimes), artifacts on disk, the browser's page and
build scripts have no state whose order matters, or none a model
checker reaches.  aiortc, SQLite, HTTP and the third-party speech services are external:
their answers are choices.  Within the modelled components: the chunker's choice of boundaries, handlers cancelled
by the HTTP server (uvicorn does not cancel them), avatar backgrounds, Codex's browser audio, MiniMax's server audio, Cartesia and the HTTP adapters of language
models, the worker's route `/v1/audio/speech`, paging and ranking of
memories and the migration of their schema, refusals of server requests in `CodexLink`,
choosing a runtime directory in the shells.  `confirm` and the plain `claim_follow_up` of
the store, and `publish_nowait` of the bus, have no caller.

Hazards that `PROJECT.json` does not list, as the ones above or others there cover them: the
locals a waiting step has popped (`StepsAreWhole`, `SegmentsAreWhole`), `is_stopped` with an
end still queued (`SegmentsAreWhole`), `task_done` once per batch (`QueueSurvives`), a submission
to a full queue (`BatchesAreKept`), a load that others wait for (`RuntimeIsKept`), `end_live` once
per reservation (`EveryoneIsAnswered`), the order of an old segment's end and a new one's
start (`SpeechIsWhole`), an engine claimed by several requests (`SlotIsSound`), the two locks
of `apply_import` (`FilesHaveOwners`), MiniMax's two loops on one task (`OneVoiceEach`), a dead idle
websocket (`SocketsAreHeld`), the end of a session during an extraction (`SayingsAreKept`), a
stop that fails three ways and a quit during a startup (`ProcessesAreKept`).

## 8. Plan

Done: the stream (`SpeechScheduler`, `Rendering` over `SegmentPlayback`, `EventBus` with
`BusClients`, `StreamSession`, `SessionSlot`, `PeerMedia`), speech (`TTSBridge`, the engines and their
clients, `VoiceWorker`), memory (`MemoryWorklet`, `MemoryWriter`, `MemoryRecords`,
`MemoryStore`), rendering (`RendererRuntime`, `RendererClient`), and the processes
(`Backend`, `TauriShell`, `ElectronShell`).

Next theorems: `OneVoiceEach` and `RepliesAreHeard` of the engines.

Next models: the HTTP adapters of the language models; Codex's browser audio; `TTSBridge` as
the environment of `Rendering`; an abstract specification of the memory (a set that never gets
back what it forgot) that `MemoryStore` implements.
