---------------------------- MODULE VoiceWorker ----------------------------
(***************************************************************************)
(* The CosyVoice worker (integrations/cosyvoice_server.py): one lazily     *)
(* loaded model, a cache of cloned voices, and duplex speech streams.      *)
(*                                                                         *)
(* A stream is a coroutine that receives text and forwards audio, and a    *)
(* thread that runs the model; two bounded queues connect them.  The       *)
(* service's lock is held for one step (a load or a save included), the    *)
(* inference lock from the first to the last chunk of a stream.  The       *)
(* client may append, finish, cancel, stop reading or go away.  The voices *)
(* are kept in a writable cache that was seeded once from the model's own. *)
(***************************************************************************)
EXTENDS Integers, Sequences, FiniteSets

CONSTANTS
    Streams,    \* streams of the clients
    Voices,     \* cloned voices
    Shipped,    \* the voices of the model's own cache
    TextRoom,   \* text_queue.maxsize
    AudioRoom,  \* audio_queue.maxsize
    MaxPieces,  \* bound: pieces of text of a stream
    MaxBoots,   \* bound: starts of the process
    Nobody

ASSUME WorkerAssumption ==
    /\ Shipped \subseteq Voices /\ Nobody \notin Streams \cup Voices /\ \A vs \in SUBSET Voices : Nobody # vs
    /\ {TextRoom, AudioRoom} \subseteq Nat \ {0} /\ {MaxPieces, MaxBoots} \subseteq Nat

VARIABLES
    proc,      \* the process: down, seeding its cache, up; how often it was started
    cache,     \* the cache on disk (Nobody if there is none) and the migration's marker
    voices,    \* spk2info of the loaded model, or Nobody
    active,    \* _active_requests
    stream,    \* the coroutine of each stream
    worker,    \* its thread
    infer,     \* the holder of _inference_lock
    deleted    \* history: voices whose deletion was answered, and not cloned since

workerVars == <<proc, cache, voices, active, stream, worker, infer, deleted>>

NewStream == [at |-> "new", voice |-> Nobody, receives |-> FALSE, forwards |-> "no", pieces |-> 0]
NewThread == [at |-> "none", reserved |-> FALSE, text |-> 0, textEnd |-> FALSE,
              audio |-> <<>>, stop |-> FALSE, failed |-> FALSE]

WorkerInit ==
    /\ proc = [at |-> "down", boots |-> 0]
    /\ cache = [disk |-> Nobody, marked |-> FALSE] /\ voices = Nobody
    /\ active = 0 /\ infer = Nobody /\ deleted = {}
    /\ stream = [s \in Streams |-> NewStream] /\ worker = [s \in Streams |-> NewThread]

-----------------------------------------------------------------------------
(* The process and its voices.                                             *)

Up == proc.at = "up"
StreamsKept == UNCHANGED <<active, stream, worker, infer>>

\* _migrate_speaker_cache_once: the cache is copied, then marked as copied.
Boot ==
    /\ \/ /\ proc.at = "down" /\ proc.boots < MaxBoots
          /\ cache' = [cache EXCEPT !.disk = IF ~cache.marked /\ @ = Nobody THEN Shipped ELSE @]
          /\ proc' = [at |-> "seeding", boots |-> proc.boots + 1]
       \/ /\ proc.at = "seeding" /\ proc' = [proc EXCEPT !.at = "up"]
          /\ cache' = [cache EXCEPT !.marked = TRUE]
    /\ StreamsKept /\ UNCHANGED <<voices, deleted>>

\* The process dies; the streams die with it.
Crash ==
    /\ proc.at # "down" /\ proc' = [proc EXCEPT !.at = "down"]
    /\ voices' = Nobody /\ active' = 0 /\ infer' = Nobody
    /\ stream' = [s \in Streams |-> IF stream[s].at = "new" THEN stream[s]
                                    ELSE [NewStream EXCEPT !.at = "lost"]]
    /\ worker' = [s \in Streams |-> NewThread]
    /\ UNCHANGED <<cache, deleted>>

\* As Loaded would be if the shipped voices were merged into the cache.
LoadedMerged == IF voices # Nobody THEN voices ELSE cache.disk \cup Shipped

\* _load: the model, with the voices of the writable cache in place of its own.
Loaded == IF voices # Nobody THEN voices ELSE cache.disk

\* add_voice and delete_voice: changed in memory, saved, or taken back.
CloneVoice(v) ==
    /\ Up
    /\ voices' \in {Loaded, Loaded \cup {v}}
    /\ IF v \in voices'
       THEN cache' = [cache EXCEPT !.disk = voices'] /\ deleted' = deleted \ {v}
       ELSE UNCHANGED <<cache, deleted>>
    /\ StreamsKept /\ UNCHANGED proc

DeleteVoice(v) ==
    /\ Up /\ v \in Loaded
    /\ \/ /\ voices' = Loaded \ {v}
          /\ cache' = [cache EXCEPT !.disk = voices'] /\ deleted' = deleted \cup {v}
       \/ voices' = Loaded /\ UNCHANGED <<cache, deleted>>
    /\ StreamsKept /\ UNCHANGED proc

\* As ReleaseModel would be if it did not count the streams that are reserved.
ReleaseModelBusy ==
    /\ Up /\ infer = Nobody /\ voices' = Nobody
    /\ StreamsKept /\ UNCHANGED <<proc, cache, deleted>>

\* release: refused while a stream is reserved.
ReleaseModel ==
    /\ Up /\ active = 0 /\ voices' = Nobody
    /\ StreamsKept /\ UNCHANGED <<proc, cache, deleted>>

-----------------------------------------------------------------------------
(* The coroutine of a stream.                                              *)

Served(s) == Up /\ UNCHANGED <<proc, cache, voices, deleted>>
At(s, place) == stream' = [stream EXCEPT ![s].at = place]

\* "start": the model is loaded and reserved, in a thread of its own.
Start(s, v) ==
    /\ Up /\ stream[s].at = "new"
    /\ IF v \in Loaded
       THEN /\ voices' = Loaded
            /\ active' = active + 1
            /\ worker' = [worker EXCEPT ![s].reserved = TRUE]
            /\ stream' = [stream EXCEPT ![s].at = "admitted", ![s].voice = v]
       ELSE At(s, "over") /\ voices' = Loaded /\ UNCHANGED <<active, worker>>
    /\ UNCHANGED <<proc, cache, infer, deleted>>

\* "started" is sent and the thread begins; or the client is gone, and dropping the
\* stream returns the reservation (_ManagedSpeechStream.__del__).
Started(s) ==
    /\ Served(s) /\ stream[s].at = "admitted"
    /\ \/ /\ stream' = [stream EXCEPT ![s].at = "running", ![s].receives = TRUE, ![s].forwards = "wait"]
          /\ worker' = [worker EXCEPT ![s].at = "queueing"] /\ UNCHANGED active
       \/ /\ At(s, "over") /\ active' = active - 1
          /\ worker' = [worker EXCEPT ![s].reserved = FALSE]
    /\ UNCHANGED infer

\* receive_text: a piece, or the end of the text.
Receives(s) ==
    /\ Served(s) /\ stream[s].at = "running" /\ stream[s].receives
    /\ worker[s].text < TextRoom
    /\ \/ /\ stream[s].pieces < MaxPieces
          /\ worker' = [worker EXCEPT ![s].text = @ + 1]
          /\ stream' = [stream EXCEPT ![s].pieces = @ + 1]
       \/ /\ worker' = [worker EXCEPT ![s].textEnd = TRUE]
          /\ stream' = [stream EXCEPT ![s].receives = FALSE]
    /\ UNCHANGED <<active, infer>>

\* The end of a stream: the thread is told, the end of the text forced upon it.
Stops(s) ==
    /\ stream' = [stream EXCEPT ![s].at = "over", ![s].receives = FALSE,
                     ![s].forwards = IF @ = "wait" THEN "orphan" ELSE "no"]
    /\ worker' = [worker EXCEPT ![s].stop = TRUE, ![s].textEnd = TRUE,
                     ![s].text = IF @ = TextRoom THEN @ - 1 ELSE @]

\* forward_audio: a thread gets the next item, the coroutine sends it.
Forwards(s) ==
    /\ Served(s) /\ stream[s].at = "running"
    /\ \/ /\ stream[s].forwards = "wait" /\ worker[s].audio # <<>>
          /\ IF Head(worker[s].audio) = "failed" THEN Stops(s)
             ELSE /\ stream' = [stream EXCEPT ![s].forwards =
                        IF Head(worker[s].audio) = "end" THEN "done" ELSE "sending"]
                  /\ worker' = [worker EXCEPT ![s].audio = Tail(@)]
       \/ /\ stream[s].forwards = "sending"
          /\ stream' = [stream EXCEPT ![s].forwards = "wait"] /\ UNCHANGED worker
    /\ UNCHANGED <<active, infer>>

\* The thread that waits for audio outlives its coroutine by one item.
Orphan(s) ==
    /\ Served(s) /\ stream[s].forwards = "orphan" /\ worker[s].audio # <<>>
    /\ worker' = [worker EXCEPT ![s].audio = Tail(@)]
    /\ stream' = [stream EXCEPT ![s].forwards = "no"]
    /\ UNCHANGED <<active, infer>>

\* The client cancels or is gone, or breaks the protocol.
Hangup(s) ==
    /\ Served(s) /\ stream[s].at = "running" /\ Stops(s) /\ UNCHANGED <<active, infer>>

Completed(s) ==
    /\ Served(s) /\ stream[s].at = "running"
    /\ ~stream[s].receives /\ stream[s].forwards = "done" /\ worker[s].at = "done"
    /\ At(s, "over") /\ UNCHANGED <<active, worker, infer>>

-----------------------------------------------------------------------------
(* Its thread (produce_audio).                                             *)

Thread(s, place) == Up /\ worker[s].at = place /\ UNCHANGED <<proc, cache, voices, stream, deleted>>
Goes(s, place) == worker' = [worker EXCEPT ![s].at = place]

\* One stream uses the model at a time; the voice may be gone by now.
Infers(s) ==
    /\ Thread(s, "queueing") /\ infer = Nobody
    /\ infer' = s /\ UNCHANGED active
    /\ IF stream[s].voice \in voices \/ stream[s].at = "over" THEN Goes(s, "inferring")
       ELSE worker' = [worker EXCEPT ![s].at = "closing", ![s].failed = TRUE]

\* A piece of text makes a chunk; text_source ends at the end, or when told to stop.
Produces(s) ==
    /\ Thread(s, "inferring")
    /\ \/ /\ worker[s].text > 0 /\ ~worker[s].stop
          /\ worker' = [worker EXCEPT ![s].text = @ - 1, ![s].at = "putting"]
       \/ /\ worker[s].stop \/ (worker[s].text = 0 /\ worker[s].textEnd)
          /\ Goes(s, "closing")
       \/ worker' = [worker EXCEPT ![s].at = "closing", ![s].failed = TRUE]
    /\ UNCHANGED <<active, infer>>

PutsChunk(s) ==
    /\ Thread(s, "putting")
    /\ \/ /\ Len(worker[s].audio) < AudioRoom
          /\ worker' = [worker EXCEPT ![s].audio = Append(@, "pcm"), ![s].at = "inferring"]
       \/ worker[s].stop /\ Goes(s, "closing")
    /\ UNCHANGED <<active, infer>>

ForcedIn(queue, item) == Append(IF Len(queue) = AudioRoom THEN Tail(queue) ELSE queue, item)

\* As Closes would be if the reservation were returned by whoever ends the stream.
ClosesOnly(s) ==
    /\ Thread(s, "closing")
    /\ infer' = Nobody /\ UNCHANGED active
    /\ worker' = [worker EXCEPT ![s].at = "ending"]

\* The failure is forced upon the queue; closing the chunks frees the inference
\* lock and returns the reservation.
Closes(s) ==
    /\ Thread(s, "closing")
    /\ infer' = Nobody /\ active' = active - 1
    /\ worker' = [worker EXCEPT ![s].at = "ending", ![s].reserved = FALSE,
          ![s].audio = IF worker[s].failed /\ ~worker[s].stop THEN ForcedIn(@, "failed") ELSE @]

\* The end is forced upon a queue nobody reads; else the thread waits for room.
EndsAudio(s) ==
    /\ Thread(s, "ending")
    /\ IF worker[s].stop
       THEN worker' = [worker EXCEPT ![s].audio = ForcedIn(@, "end"), ![s].at = "done"]
       ELSE Goes(s, "last")
    /\ UNCHANGED <<active, infer>>

PutsEnd(s) ==
    /\ Thread(s, "last") /\ Len(worker[s].audio) < AudioRoom
    /\ worker' = [worker EXCEPT ![s].audio = Append(@, "end"), ![s].at = "done"]
    /\ UNCHANGED <<active, infer>>

-----------------------------------------------------------------------------
ThreadStep(s) ==
    Infers(s) \/ Produces(s) \/ PutsChunk(s) \/ Closes(s) \/ EndsAudio(s) \/ PutsEnd(s)

CoroutineStep(s) ==
    \/ \E v \in Voices : Start(s, v)
    \/ Started(s) \/ Receives(s) \/ Forwards(s) \/ Orphan(s) \/ Hangup(s) \/ Completed(s)

WorkerNext ==
    \/ Boot \/ Crash \/ ReleaseModel
    \/ \E v \in Voices : CloneVoice(v) \/ DeleteVoice(v)
    \/ \E s \in Streams : ThreadStep(s) \/ CoroutineStep(s)

-----------------------------------------------------------------------------
(* Properties.                                                             *)

Reserved == {s \in Streams : worker[s].reserved}

\* The counter that protects the model from being released counts exactly the
\* streams that still need it: each returns its reservation once, however it ends.
ModelIsKept ==
    /\ active = Cardinality(Reserved)
    /\ Reserved # {} => voices # Nobody
    /\ infer # Nobody => infer \in Reserved

\* A voice whose deletion was answered stays deleted, and a cloned one stays: what
\* the model knows is what is saved, through releases, crashes and migrations.
DeletedStaysDeleted ==
    /\ voices # Nobody => voices = cache.disk /\ voices \cap deleted = {}
    /\ cache.disk # Nobody => cache.disk \cap deleted = {}

\* A stream that is over returns its reservation, unless it waits for the inference
\* of a stream that is not over.
ReservationReturns ==
    \A s \in Streams :
        stream[s].at = "over" ~>
            \/ ~worker[s].reserved
            \/ infer \notin {Nobody, s} /\ stream[infer].at = "running"

\* What receive_text's comment asks for: "Cancellation must not leave an
\* uncancellable to_thread queue.put blocked behind a full producer queue."  This does not
\* hold: see the README.
NoThreadIsStuck ==
    \A s \in Streams :
        ~(stream[s].at = "over" /\ worker[s].at = "last" /\ Len(worker[s].audio) = AudioRoom)

\* The model and its voices are there for those who need them.
VoicesAreKept == ModelIsKept /\ DeletedStaysDeleted
=============================================================================
