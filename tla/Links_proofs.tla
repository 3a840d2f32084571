---------------------------- MODULE Links_proofs ----------------------------
(***************************************************************************)
(* The safety of the services a session talks to, for any number of        *)
(* streams, websockets, turns, workers, transcripts, uploads and voices.   *)
(* A component has an invariant that its own steps preserve; the theorems  *)
(* at the end lift them to the specification, in which one service moves   *)
(* and the others stay as they began.                                      *)
(***************************************************************************)
EXTENDS Links, TLAPS, SequenceTheorems, FiniteSetTheorems, FunctionTheorems

-----------------------------------------------------------------------------
(* The worker of cloned voices.                                            *)

\* What the model knows is what is saved, and nothing that was deleted.
VoiceInv ==
    /\ DOMAIN proc = {"at", "boots"} /\ DOMAIN cache = {"disk", "marked"}
    /\ proc.at \in {"down", "seeding", "up"}
    /\ cache.disk \in (SUBSET Voices) \cup {Nobody} /\ voices \in (SUBSET Voices) \cup {Nobody}
    /\ cache.marked \in BOOLEAN
    /\ cache.marked \/ proc.at # "down" => cache.disk # Nobody
    /\ cache.disk = Nobody => deleted = {}
    /\ DeletedStaysDeleted

LEMMA VoiceStarts == WorkerInit => VoiceInv
<1> SUFFICES ASSUME WorkerInit PROVE VoiceInv
  OBVIOUS
<1>1. /\ proc = [at |-> "down", boots |-> 0] /\ cache = [disk |-> Nobody, marked |-> FALSE]
      /\ voices = Nobody /\ deleted = {}
  BY DEF WorkerInit
<1> QED BY <1>1 DEF VoiceInv, DeletedStaysDeleted

\* The model is loaded with the voices that are saved.
LEMMA LoadedIsSaved ==
  ASSUME VoiceInv, Up PROVE Loaded = cache.disk /\ Loaded \in SUBSET Voices /\ Loaded \cap deleted = {}
<1>1. cache.disk # Nobody /\ cache.disk \in SUBSET Voices /\ cache.disk \cap deleted = {}
  BY DEF VoiceInv, Up, DeletedStaysDeleted
<1>2. Loaded = cache.disk
  BY <1>1 DEF VoiceInv, Loaded, DeletedStaysDeleted
<1> QED BY <1>1, <1>2

LEMMA VoiceStep == VoiceInv /\ [WorkerNext]_workerVars => VoiceInv'
<1> SUFFICES ASSUME VoiceInv, [WorkerNext]_workerVars PROVE VoiceInv'
  OBVIOUS
<1> USE WorkerAssumption DEF VoiceInv, DeletedStaysDeleted
<1>1. CASE Boot
  <2>1. CASE /\ proc.at = "down"
             /\ cache' = [cache EXCEPT !.disk = IF ~cache.marked /\ @ = Nobody THEN Shipped ELSE @]
             /\ proc' = [at |-> "seeding", boots |-> proc.boots + 1]
    <3>1. cache' = [disk |-> IF ~cache.marked /\ cache.disk = Nobody THEN Shipped ELSE cache.disk,
                    marked |-> cache.marked]
      BY <2>1
    <3> QED BY <1>1, <2>1, <3>1 DEF Boot
  <2>2. CASE proc.at = "seeding" /\ proc' = [proc EXCEPT !.at = "up"] /\ cache' = [cache EXCEPT !.marked = TRUE]
    <3>1. cache' = [disk |-> cache.disk, marked |-> TRUE] /\ proc' = [at |-> "up", boots |-> proc.boots]
      BY <2>2
    <3> QED BY <1>1, <2>2, <3>1 DEF Boot
  <2> QED BY <1>1, <2>1, <2>2 DEF Boot
<1>2. CASE Crash
  <2>1. proc' = [at |-> "down", boots |-> proc.boots]
    BY <1>2 DEF Crash
  <2> QED BY <1>2, <2>1 DEF Crash
<1>3. CASE ReleaseModel
  <2>1. voices' = Nobody /\ UNCHANGED <<proc, cache, deleted>>
    BY <1>3 DEF ReleaseModel
  <2> QED BY <2>1
<1>4. ASSUME NEW v \in Voices, CloneVoice(v) PROVE VoiceInv'
  <2>1. Up /\ voices' \in {Loaded, Loaded \cup {v}} /\ UNCHANGED proc
    BY <1>4 DEF CloneVoice
  <2>2. Loaded = cache.disk /\ Loaded \in SUBSET Voices /\ Loaded \cap deleted = {}
    BY <2>1, LoadedIsSaved
  <2>3. CASE v \in voices'
    <3>1. cache' = [disk |-> voices', marked |-> cache.marked] /\ deleted' = deleted \ {v}
      BY <1>4, <2>3 DEF CloneVoice
    <3> QED BY <2>1, <2>2, <3>1
  <2>4. CASE v \notin voices'
    BY <1>4, <2>1, <2>2, <2>4 DEF CloneVoice
  <2> QED BY <2>3, <2>4
<1>5. ASSUME NEW v \in Voices, DeleteVoice(v) PROVE VoiceInv'
  <2>1. Up /\ UNCHANGED proc
    BY <1>5 DEF DeleteVoice
  <2>2. Loaded = cache.disk /\ Loaded \in SUBSET Voices /\ Loaded \cap deleted = {}
    BY <2>1, LoadedIsSaved
  <2>3. CASE /\ voices' = Loaded \ {v} /\ cache' = [cache EXCEPT !.disk = voices']
             /\ deleted' = deleted \cup {v}
    <3>1. cache' = [disk |-> voices', marked |-> cache.marked]
      BY <2>3
    <3> QED BY <2>1, <2>2, <2>3, <3>1 DEF Up
  <2>4. CASE voices' = Loaded /\ UNCHANGED <<cache, deleted>>
    BY <2>1, <2>2, <2>4
  <2> QED BY <1>5, <2>3, <2>4 DEF DeleteVoice
<1>6. ASSUME NEW s \in Streams, NEW v \in Voices, Start(s, v) PROVE VoiceInv'
  <2>1. Up /\ UNCHANGED <<proc, cache, deleted>> /\ voices' = Loaded
    BY <1>6 DEF Start
  <2>2. Loaded = cache.disk /\ Loaded \in SUBSET Voices /\ Loaded \cap deleted = {}
    BY <2>1, LoadedIsSaved
  <2> QED BY <2>1, <2>2
<1>7. CASE UNCHANGED <<proc, cache, voices, deleted>>
  BY <1>7
<1>8. ASSUME NEW s \in Streams, ThreadStep(s) PROVE UNCHANGED <<proc, cache, voices, deleted>>
  BY <1>8 DEF ThreadStep, Infers, Produces, PutsChunk, Closes, EndsAudio, PutsEnd, Thread
<1>9. ASSUME NEW s \in Streams, CoroutineStep(s)
      PROVE  (\E v \in Voices : Start(s, v)) \/ UNCHANGED <<proc, cache, voices, deleted>>
  BY <1>9 DEF CoroutineStep, Started, Receives, Forwards, Orphan, Hangup, Completed, Served
<1> QED
  BY <1>1, <1>2, <1>3, <1>4, <1>5, <1>6, <1>7, <1>8, <1>9 DEF WorkerNext, workerVars

-----------------------------------------------------------------------------
StreamFields == {"at", "voice", "receives", "forwards", "pieces"}
ThreadFields == {"at", "reserved", "text", "textEnd", "audio", "stop", "failed"}

Shaped ==
    /\ DOMAIN stream = Streams /\ DOMAIN worker = Streams
    /\ \A s \in Streams : DOMAIN stream[s] = StreamFields /\ DOMAIN worker[s] = ThreadFields

\* A stream is reserved from its admission until its thread closes, and holds the
\* inference lock from the first to the last chunk.
Reservation(s) ==
    /\ worker[s].reserved \in BOOLEAN
    /\ worker[s].reserved <=>
          stream[s].at = "admitted" \/ worker[s].at \in {"queueing", "inferring", "putting", "closing"}
    /\ stream[s].at \in {"new", "admitted"} => worker[s].at = "none"
    /\ infer = s <=> worker[s].at \in {"inferring", "putting", "closing"}

ReservationInv ==
    /\ Shaped /\ infer \in Streams \cup {Nobody}
    /\ \A s \in Streams : Reservation(s)
    /\ IsFiniteSet(Reserved) /\ active = Cardinality(Reserved)
    /\ Reserved # {} => voices # Nobody

\* What a step does to one stream, and to no other.
Moves(s, place, at, reserved) ==
    /\ Shaped' /\ stream'[s].at = place /\ worker'[s].at = at /\ worker'[s].reserved = reserved
    /\ \A t \in Streams \ {s} :
          /\ stream'[t].at = stream[t].at /\ worker'[t].at = worker[t].at
          /\ worker'[t].reserved = worker[t].reserved

LEMMA ReservationStarts == WorkerInit => ReservationInv
<1> SUFFICES ASSUME WorkerInit PROVE ReservationInv
  OBVIOUS
<1>1. Reserved = {}
  BY DEF WorkerInit, Reserved, NewThread
<1>2. Shaped
  BY DEF WorkerInit, Shaped, NewThread, NewStream, StreamFields, ThreadFields
<1>3. \A s \in Streams : Reservation(s)
  BY WorkerAssumption DEF WorkerInit, Reservation, NewThread, NewStream
<1> QED BY <1>1, <1>2, <1>3, FS_EmptySet DEF WorkerInit, ReservationInv

\* The reservations of the other streams are kept.
LEMMA CountKept ==
  ASSUME ReservationInv, \A s \in Streams : worker'[s].reserved = worker[s].reserved,
         active' = active, Reserved # {} => voices' # Nobody
  PROVE  /\ IsFiniteSet(Reserved') /\ active' = Cardinality(Reserved')
         /\ Reserved' # {} => voices' # Nobody
BY DEF ReservationInv, Reserved

LEMMA CountGrows ==
  ASSUME ReservationInv, NEW s \in Streams, ~worker[s].reserved, worker'[s].reserved,
         \A t \in Streams \ {s} : worker'[t].reserved = worker[t].reserved,
         active' = active + 1, voices' # Nobody
  PROVE  /\ IsFiniteSet(Reserved') /\ active' = Cardinality(Reserved')
         /\ Reserved' # {} => voices' # Nobody
<1>1. Reserved' = Reserved \cup {s} /\ s \notin Reserved
  BY DEF Reserved
<1> QED BY <1>1, FS_AddElement DEF ReservationInv

LEMMA CountShrinks ==
  ASSUME ReservationInv, NEW s \in Streams, worker[s].reserved, ~worker'[s].reserved,
         \A t \in Streams \ {s} : worker'[t].reserved = worker[t].reserved,
         active' = active - 1, UNCHANGED voices
  PROVE  /\ IsFiniteSet(Reserved') /\ active' = Cardinality(Reserved')
         /\ Reserved' # {} => voices' # Nobody
<1>1. Reserved' = Reserved \ {s} /\ s \in Reserved
  BY DEF Reserved
<1> QED BY <1>1, FS_RemoveElement DEF ReservationInv


LEMMA OthersKept ==
  ASSUME ReservationInv, NEW s \in Streams, NEW place, NEW at, NEW reserved,
         Moves(s, place, at, reserved), infer' = infer \/ {infer, infer'} \subseteq {s, Nobody}
  PROVE  \A t \in Streams \ {s} : Reservation(t)'
BY WorkerAssumption DEF ReservationInv, Moves, Reservation

\* A step of one stream that neither takes nor returns a reservation.
LEMMA PlainStep ==
  ASSUME ReservationInv, NEW s \in Streams, NEW place, NEW at,
         Moves(s, place, at, worker[s].reserved), UNCHANGED active,
         infer' = infer \/ {infer, infer'} \subseteq {s, Nobody}, infer' \in Streams \cup {Nobody},
         Reserved # {} => voices' # Nobody, Reservation(s)'
  PROVE  ReservationInv'
<1>1. \A t \in Streams : Reservation(t)'
  BY OthersKept
<1>2. /\ IsFiniteSet(Reserved') /\ active' = Cardinality(Reserved')
      /\ Reserved' # {} => voices' # Nobody
  BY CountKept DEF Moves
<1> QED BY <1>1, <1>2 DEF ReservationInv, Moves

LEMMA ThreadKeepsReservations ==
  ASSUME ReservationInv, VoiceInv, NEW s \in Streams, ThreadStep(s) PROVE ReservationInv'
<1> USE DEF Shaped, StreamFields, ThreadFields, Moves
<1>0. /\ Shaped /\ Reservation(s) /\ infer \in Streams \cup {Nobody}
      /\ Reserved # {} => voices # Nobody
  BY DEF ReservationInv
<1>1. CASE Infers(s)
  <2>1. /\ worker[s].at = "queueing" /\ infer = Nobody /\ infer' = s
        /\ UNCHANGED <<active, stream, voices>>
    BY <1>1 DEF Infers, Thread
  <2>2. Moves(s, stream[s].at, "inferring", worker[s].reserved) \/ Moves(s, stream[s].at, "closing", worker[s].reserved)
    <3>1. CASE worker' = [worker EXCEPT ![s].at = "inferring"]
      <4>1. Moves(s, stream[s].at, "inferring", worker[s].reserved)
        BY <1>0, <2>1, <3>1
      <4> QED BY <4>1
    <3>2. CASE worker' = [worker EXCEPT ![s].at = "closing", ![s].failed = TRUE]
      <4>1. Moves(s, stream[s].at, "closing", worker[s].reserved)
        BY <1>0, <2>1, <3>2
      <4> QED BY <4>1
    <3> QED BY <1>1, <3>1, <3>2 DEF Infers, Goes
  <2>3. Reservation(s)'
    BY <1>0, <2>1, <2>2, WorkerAssumption DEF Reservation
  <2> HIDE DEF Moves
  <2> QED BY <1>0, <2>1, <2>2, <2>3, PlainStep
<1>2. CASE Produces(s) \/ PutsChunk(s) \/ EndsAudio(s) \/ PutsEnd(s)
  <2>1. UNCHANGED <<active, infer, voices, stream>>
    BY <1>2 DEF Produces, PutsChunk, EndsAudio, PutsEnd, Thread
  <2>2. \E at \in {"inferring", "putting", "closing", "last", "done"} :
           /\ Moves(s, stream[s].at, at, worker[s].reserved)
           /\ at \in {"last", "done"} <=> worker[s].at \in {"ending", "last"}
           /\ worker[s].at \in {"inferring", "putting", "ending", "last"}
    <3>1. CASE /\ worker[s].at = "inferring"
               /\ worker' = [worker EXCEPT ![s].text = @ - 1, ![s].at = "putting"]
      <4>1. Moves(s, stream[s].at, "putting", worker[s].reserved)
        BY <1>0, <2>1, <3>1
      <4> QED BY <3>1, <4>1
    <3>2. CASE worker[s].at \in {"inferring", "putting"} /\ worker' = [worker EXCEPT ![s].at = "closing"]
      <4>1. Moves(s, stream[s].at, "closing", worker[s].reserved)
        BY <1>0, <2>1, <3>2
      <4> QED BY <3>2, <4>1
    <3>3. CASE /\ worker[s].at = "inferring"
               /\ worker' = [worker EXCEPT ![s].at = "closing", ![s].failed = TRUE]
      <4>1. Moves(s, stream[s].at, "closing", worker[s].reserved)
        BY <1>0, <2>1, <3>3
      <4> QED BY <3>3, <4>1
    <3>4. CASE /\ worker[s].at = "putting"
               /\ worker' = [worker EXCEPT ![s].audio = Append(@, "pcm"), ![s].at = "inferring"]
      <4>1. Moves(s, stream[s].at, "inferring", worker[s].reserved)
        BY <1>0, <2>1, <3>4
      <4> QED BY <3>4, <4>1
    <3>5. CASE /\ worker[s].at = "ending"
               /\ worker' = [worker EXCEPT ![s].audio = ForcedIn(@, "end"), ![s].at = "done"]
      <4>1. Moves(s, stream[s].at, "done", worker[s].reserved)
        BY <1>0, <2>1, <3>5
      <4> QED BY <3>5, <4>1
    <3>6. CASE worker[s].at = "ending" /\ worker' = [worker EXCEPT ![s].at = "last"]
      <4>1. Moves(s, stream[s].at, "last", worker[s].reserved)
        BY <1>0, <2>1, <3>6
      <4> QED BY <3>6, <4>1
    <3>7. CASE /\ worker[s].at = "last"
               /\ worker' = [worker EXCEPT ![s].audio = Append(@, "end"), ![s].at = "done"]
      <4>1. Moves(s, stream[s].at, "done", worker[s].reserved)
        BY <1>0, <2>1, <3>7
      <4> QED BY <3>7, <4>1
    <3> QED BY <1>2, <3>1, <3>2, <3>3, <3>4, <3>5, <3>6, <3>7
            DEF Produces, PutsChunk, EndsAudio, PutsEnd, Thread, Goes
  <2>3. PICK at \in {"inferring", "putting", "closing", "last", "done"} :
           /\ Moves(s, stream[s].at, at, worker[s].reserved)
           /\ at \in {"last", "done"} <=> worker[s].at \in {"ending", "last"}
           /\ worker[s].at \in {"inferring", "putting", "ending", "last"}
    BY <2>2
  <2>4. Reservation(s)'
    BY <1>0, <2>1, <2>3 DEF Reservation
  <2> HIDE DEF Moves
  <2> QED BY <1>0, <2>1, <2>3, <2>4, PlainStep
<1>3. CASE Closes(s)
  <2>1. /\ worker[s].at = "closing" /\ infer' = Nobody /\ active' = active - 1
        /\ UNCHANGED <<stream, voices>>
    BY <1>3 DEF Closes, Thread
  <2>2. Moves(s, stream[s].at, "ending", FALSE)
    BY <1>0, <1>3, <2>1 DEF Closes
  <2>3. infer = s /\ worker[s].reserved
    BY <1>0, <2>1 DEF Reservation
  <2>4. \A t \in Streams \ {s} : Reservation(t)'
    <3> HIDE DEF Moves
    <3> QED BY <2>1, <2>2, <2>3, OthersKept
  <2>5. Reservation(s)'
    BY <1>0, <2>1, <2>2, WorkerAssumption DEF Reservation
  <2>6. /\ IsFiniteSet(Reserved') /\ active' = Cardinality(Reserved')
        /\ Reserved' # {} => voices' # Nobody
    BY <2>1, <2>2, <2>3, CountShrinks
  <2> QED BY <2>1, <2>2, <2>4, <2>5, <2>6 DEF ReservationInv
<1> QED BY <1>1, <1>2, <1>3 DEF ThreadStep

LEMMA CoroutineKeepsReservations ==
  ASSUME ReservationInv, VoiceInv, NEW s \in Streams, CoroutineStep(s) PROVE ReservationInv'
<1> USE DEF Shaped, StreamFields, ThreadFields, Moves
<1>0. /\ Shaped /\ Reservation(s) /\ infer \in Streams \cup {Nobody}
      /\ Reserved # {} => voices # Nobody
  BY DEF ReservationInv
<1>1. ASSUME NEW v \in Voices, Start(s, v) PROVE ReservationInv'
  <2>1. Up /\ stream[s].at = "new" /\ voices' = Loaded /\ UNCHANGED infer
    BY <1>1 DEF Start
  <2>2. voices' # Nobody
    BY <2>1, LoadedIsSaved, WorkerAssumption
  <2>3. CASE v \in Loaded
    <3>1. /\ worker' = [worker EXCEPT ![s].reserved = TRUE] /\ active' = active + 1
          /\ stream' = [stream EXCEPT ![s].at = "admitted", ![s].voice = v]
      BY <1>1, <2>3 DEF Start
    <3>2. Moves(s, "admitted", worker[s].at, TRUE)
      BY <1>0, <3>1
    <3>3. \A t \in Streams \ {s} : Reservation(t)'
      <4> HIDE DEF Moves
      <4> QED BY <2>1, <3>2, OthersKept
    <3>4. ~worker[s].reserved
      BY <1>0, <2>1 DEF Reservation
    <3>5. Reservation(s)'
      BY <1>0, <2>1, <3>2 DEF Reservation
    <3>6. /\ IsFiniteSet(Reserved') /\ active' = Cardinality(Reserved')
          /\ Reserved' # {} => voices' # Nobody
      BY <2>2, <3>1, <3>2, <3>4, CountGrows
    <3> QED BY <1>0, <2>1, <3>2, <3>3, <3>5, <3>6 DEF ReservationInv
  <2>4. CASE v \notin Loaded
    <3>1. stream' = [stream EXCEPT ![s].at = "over"] /\ UNCHANGED <<active, worker>>
      BY <1>1, <2>4 DEF Start, At
    <3>2. Moves(s, "over", worker[s].at, worker[s].reserved)
      BY <1>0, <3>1
    <3>3. Reservation(s)'
      BY <1>0, <2>1, <3>2 DEF Reservation
    <3> HIDE DEF Moves
    <3> QED BY <1>0, <2>1, <2>2, <3>1, <3>2, <3>3, PlainStep
  <2> QED BY <2>3, <2>4
<1>2. CASE Started(s)
  <2>1. Up /\ stream[s].at = "admitted" /\ UNCHANGED <<infer, voices>>
    BY <1>2 DEF Started, Served
  <2>2. worker[s].reserved /\ worker[s].at = "none"
    BY <1>0, <2>1 DEF Reservation
  <2>3. CASE /\ stream' = [stream EXCEPT ![s].at = "running", ![s].receives = TRUE, ![s].forwards = "wait"]
             /\ worker' = [worker EXCEPT ![s].at = "queueing"] /\ UNCHANGED active
    <3>1. Moves(s, "running", "queueing", worker[s].reserved)
      BY <1>0, <2>3
    <3>2. Reservation(s)'
      BY <1>0, <2>1, <2>2, <3>1 DEF Reservation
    <3> HIDE DEF Moves
    <3> QED BY <1>0, <2>1, <2>3, <3>1, <3>2, PlainStep
  <2>4. CASE /\ stream' = [stream EXCEPT ![s].at = "over"] /\ active' = active - 1
             /\ worker' = [worker EXCEPT ![s].reserved = FALSE]
    <3>1. Moves(s, "over", worker[s].at, FALSE)
      BY <1>0, <2>4
    <3>2. Reservation(s)'
      BY <1>0, <2>1, <2>2, <3>1 DEF Reservation
    <3>3. \A t \in Streams \ {s} : Reservation(t)'
      <4> HIDE DEF Moves
      <4> QED BY <2>1, <3>1, OthersKept
    <3>4. /\ IsFiniteSet(Reserved') /\ active' = Cardinality(Reserved')
          /\ Reserved' # {} => voices' # Nobody
      BY <2>1, <2>2, <2>4, <3>1, CountShrinks
    <3> QED BY <1>0, <2>1, <3>1, <3>2, <3>3, <3>4 DEF ReservationInv
  <2> QED BY <1>2, <2>3, <2>4 DEF Started, At
<1>3. CASE Receives(s) \/ Forwards(s) \/ Orphan(s) \/ Hangup(s) \/ Completed(s)
  <2>1. UNCHANGED <<active, infer, voices>>
    BY <1>3 DEF Receives, Forwards, Orphan, Hangup, Completed, Served
  <2>2. \E place \in {stream[s].at, "over"} :
           /\ Moves(s, place, worker[s].at, worker[s].reserved)
           /\ place = "over" => stream[s].at \in {"running", "over"}
    <3>1. CASE worker' = [worker EXCEPT ![s].text = @ + 1] /\ stream' = [stream EXCEPT ![s].pieces = @ + 1]
      <4>1. Moves(s, stream[s].at, worker[s].at, worker[s].reserved)
        BY <1>0, <3>1
      <4> QED BY <4>1
    <3>2. CASE worker' = [worker EXCEPT ![s].textEnd = TRUE] /\ stream' = [stream EXCEPT ![s].receives = FALSE]
      <4>1. Moves(s, stream[s].at, worker[s].at, worker[s].reserved)
        BY <1>0, <3>2
      <4> QED BY <4>1
    <3>3. CASE stream[s].at = "running" /\ Stops(s)
      <4>1. stream' = [stream EXCEPT ![s].at = "over", ![s].receives = FALSE,
                     ![s].forwards = IF @ = "wait" THEN "orphan" ELSE "no"]
        BY <3>3 DEF Stops
      <4>2. worker' = [worker EXCEPT ![s].stop = TRUE, ![s].textEnd = TRUE,
                     ![s].text = IF @ = TextRoom THEN @ - 1 ELSE @]
        BY <3>3 DEF Stops
      <4>3. Moves(s, "over", worker[s].at, worker[s].reserved)
        BY <1>0, <4>1, <4>2
      <4> QED BY <3>3, <4>3
    <3>4. ASSUME NEW item, worker' = [worker EXCEPT ![s].audio = Tail(@)],
                 stream' = [stream EXCEPT ![s].forwards = item]
          PROVE  Moves(s, stream[s].at, worker[s].at, worker[s].reserved)
      BY <1>0, <3>4
    <3>5. CASE stream' = [stream EXCEPT ![s].forwards = "wait"] /\ UNCHANGED worker
      <4>1. Moves(s, stream[s].at, worker[s].at, worker[s].reserved)
        BY <1>0, <3>5
      <4> QED BY <4>1
    <3>6. CASE stream[s].at = "running" /\ stream' = [stream EXCEPT ![s].at = "over"] /\ UNCHANGED worker
      <4>1. Moves(s, "over", worker[s].at, worker[s].reserved)
        BY <1>0, <3>6
      <4> QED BY <3>6, <4>1
    <3> HIDE DEF Moves
    <3>7. CASE Receives(s)
      BY <3>1, <3>2, <3>7 DEF Receives
    <3>8. CASE Forwards(s)
      BY <3>3, <3>4, <3>5, <3>8 DEF Forwards
    <3>9. CASE Orphan(s)
      BY <3>4, <3>9 DEF Orphan
    <3>10. CASE Hangup(s)
      BY <3>3, <3>10 DEF Hangup
    <3>11. CASE Completed(s)
      BY <3>6, <3>11 DEF Completed, At
    <3> QED BY <1>3, <3>7, <3>8, <3>9, <3>10, <3>11
  <2>3. PICK place \in {stream[s].at, "over"} :
           /\ Moves(s, place, worker[s].at, worker[s].reserved)
           /\ place = "over" => stream[s].at \in {"running", "over"}
    BY <2>2
  <2>4. Reservation(s)'
    BY <1>0, <2>1, <2>3 DEF Reservation
  <2> HIDE DEF Moves
  <2> QED BY <1>0, <2>1, <2>3, <2>4, PlainStep
<1> QED BY <1>1, <1>2, <1>3 DEF CoroutineStep

LEMMA ReservationStep == ReservationInv /\ VoiceInv /\ [WorkerNext]_workerVars => ReservationInv'
<1> SUFFICES ASSUME ReservationInv, VoiceInv, [WorkerNext]_workerVars PROVE ReservationInv'
  OBVIOUS
<1>1. ASSUME UNCHANGED <<active, stream, worker, infer>>, Reserved # {} => voices' # Nobody
      PROVE  ReservationInv'
  <2>1. Reserved' = Reserved
    BY <1>1 DEF Reserved
  <2>2. Shaped' /\ \A s \in Streams : Reservation(s)'
    BY <1>1 DEF ReservationInv, Shaped, Reservation
  <2> QED BY <1>1, <2>1, <2>2 DEF ReservationInv
<1>2. CASE Boot
  BY <1>1, <1>2 DEF Boot, StreamsKept, ReservationInv
<1>3. CASE Crash
  <2>1. \A s \in Streams : stream[s].at # "new" => stream'[s].at = "lost"
    BY <1>3 DEF Crash, NewStream
  <2>2. \A s \in Streams : stream[s].at = "new" => stream'[s].at = "new"
    BY <1>3 DEF Crash
  <2>3. \A s \in Streams : worker'[s].at = "none" /\ ~worker'[s].reserved /\ worker'[s].reserved \in BOOLEAN
    BY <1>3 DEF Crash, NewThread
  <2>4. Shaped'
    BY <1>3 DEF Crash, NewThread, NewStream, Shaped, StreamFields, ThreadFields, ReservationInv
  <2>5. Reserved' = {}
    BY <2>3 DEF Reserved
  <2>6. \A s \in Streams : Reservation(s)'
    BY <1>3, <2>1, <2>2, <2>3, WorkerAssumption DEF Crash, Reservation
  <2> QED BY <1>3, <2>4, <2>5, <2>6, FS_EmptySet DEF Crash, ReservationInv
<1>4. CASE ReleaseModel
  <2>1. Reserved = {}
    BY <1>4, FS_EmptySet DEF ReleaseModel, ReservationInv
  <2> QED BY <1>1, <1>4, <2>1 DEF ReleaseModel, StreamsKept
<1>5. ASSUME NEW v \in Voices, CloneVoice(v) \/ DeleteVoice(v) PROVE ReservationInv'
  <2>1. Up /\ voices' \in {Loaded, Loaded \cup {v}, Loaded \ {v}} /\ StreamsKept
    BY <1>5 DEF CloneVoice, DeleteVoice
  <2>2. voices' # Nobody
    BY <2>1, LoadedIsSaved, WorkerAssumption
  <2> QED BY <1>1, <2>1, <2>2 DEF StreamsKept
<1>6. CASE UNCHANGED workerVars
  BY <1>1, <1>6 DEF workerVars, ReservationInv
<1> QED
  BY <1>2, <1>3, <1>4, <1>5, <1>6, ThreadKeepsReservations, CoroutineKeepsReservations
  DEF WorkerNext

LEMMA WorkerImplies == ReservationInv /\ VoiceInv => VoicesAreKept
<1> SUFFICES ASSUME ReservationInv, VoiceInv PROVE VoicesAreKept
  OBVIOUS
<1>1. infer # Nobody => infer \in Reserved
  BY DEF ReservationInv, Reservation, Reserved
<1> QED BY <1>1 DEF VoicesAreKept, ModelIsKept, ReservationInv, VoiceInv

-----------------------------------------------------------------------------
(* Bailian's speech.                                                       *)

Items == {"pcm", "end", "failed"}

TurnFields == {"sock", "closed", "listens", "last", "queue", "slots", "reads", "cancels"}

HasEnd(q) == \E i \in DOMAIN q : q[i] # "pcm"

\* A turn by itself: it listens while it is open, what is queued is audio until it is closed,
\* audio and free slots are the size of the queue, and a reader of a turn that has ended has
\* an end to find unless a canceller is about to put one.
TurnSound(r) ==
    /\ DOMAIN r = TurnFields /\ DOMAIN r.cancels = Cancellers
    /\ r.sock \in 0..MaxSockets /\ r.closed \in BOOLEAN
    /\ r.sock = 0 => ~r.closed /\ r.listens = "none" /\ \A c \in Cancellers : r.cancels[c] = "no"
    /\ r.sock # 0 => IF r.closed THEN r.listens \in {"closing", "done"} ELSE r.listens \in {"recv", "slot"}
    /\ \A c \in Cancellers : r.cancels[c] = "draining" => r.closed
    /\ r.queue \in Seq(Items) /\ r.slots \in Nat
    /\ Pcm(r.queue) + r.slots = AudioSize /\ Len(r.queue) <= AudioSize + 1
    /\ ~r.closed => ~HasEnd(r.queue)
    /\ r.listens = "closing" => r.last \in {"end", "failed"}
    /\ r.sock # 0 /\ r.listens = "done" /\ r.reads \in {"idle", "get"} =>
          HasEnd(r.queue) \/ \E c \in Cancellers : r.cancels[c] = "draining"

\* The websockets: the pool, the opener and the open turns own what is open, each its own.
SocketInv ==
    /\ DOMAIN pool = {"closed", "idle"} /\ DOMAIN opener = {"at", "sock", "retry"}
    /\ DOMAIN sock = Sockets
    /\ pool.closed \in BOOLEAN /\ pool.idle \in 0..MaxSockets /\ opener.sock \in 0..MaxSockets
    /\ opener.sock # 0 <=> opener.at = "starting"
    /\ pool.closed <=> opener.at \in {"closing", "over"}
    /\ pool.closed => pool.idle = 0
    /\ opener.sock # 0 => opener.sock # pool.idle
    /\ \A w \in Sockets : sock[w] = "open" <=> \/ pool.idle = w \/ opener.sock = w
                                               \/ \E t \in Turns : turn[t].sock = w /\ ~turn[t].closed
    /\ \A t \in Turns : turn[t].sock # 0 /\ ~turn[t].closed =>
          /\ turn[t].sock # pool.idle /\ turn[t].sock # opener.sock
          /\ \A u \in Turns \ {t} : ~turn[u].closed => turn[u].sock # turn[t].sock
          /\ pool.closed => turn[t].cancels["pool"] = "telling"
    /\ opener.at = "over" => \A t \in Turns : turn[t].cancels["pool"] \in {"no", "done"}

SpeechInv ==
    /\ DOMAIN turn = Turns /\ \A t \in Turns : TurnSound(turn[t])
    /\ SocketInv

-----------------------------------------------------------------------------
(* Counting what is queued.                                                *)

LEMMA CountTo ==
  ASSUME NEW n \in Nat PROVE IsFiniteSet(1..n) /\ Cardinality(1..n) = n
<1>1. Cardinality(1..n) = IF 1 > n THEN 0 ELSE n - 1 + 1
  BY FS_Interval
<1>2. IsFiniteSet(1..n)
  BY FS_Interval
<1> QED BY <1>1, <1>2

LEMMA PcmFinite ==
  ASSUME NEW S, NEW q \in Seq(S) 
  PROVE  IsFiniteSet({i \in DOMAIN q : q[i] = "pcm"}) /\ Pcm(q) \in 0..Len(q)
<1>1. IsFiniteSet(1..Len(q)) /\ Cardinality(1..Len(q)) = Len(q)
  BY CountTo, LenProperties
<1>2. {i \in DOMAIN q : q[i] = "pcm"} \subseteq 1..Len(q)
  BY LenProperties
<1>3. Cardinality({i \in DOMAIN q : q[i] = "pcm"}) <= Len(q) /\ IsFiniteSet({i \in DOMAIN q : q[i] = "pcm"})
  BY <1>1, <1>2, FS_Subset
<1>4. Cardinality({i \in DOMAIN q : q[i] = "pcm"}) \in Nat
  BY <1>3, FS_CardinalityType
<1> QED BY <1>3, <1>4, LenProperties DEF Pcm

LEMMA PcmAppend ==
  ASSUME NEW S, NEW q \in Seq(S), NEW x \in S
  PROVE  /\ Append(q, x) \in Seq(S) /\ Len(Append(q, x)) = Len(q) + 1
         /\ Pcm(Append(q, x)) = IF x = "pcm" THEN Pcm(q) + 1 ELSE Pcm(q)
         /\ HasEnd(Append(q, x)) <=> HasEnd(q) \/ x # "pcm"
<1> DEFINE old == {i \in DOMAIN q : q[i] = "pcm"}
           new == {i \in DOMAIN Append(q, x) : Append(q, x)[i] = "pcm"}
<1>1. /\ DOMAIN q = 1..Len(q) /\ Len(q) \in Nat /\ DOMAIN Append(q, x) = 1..(Len(q) + 1)
      /\ Append(q, x) \in Seq(S) /\ Len(Append(q, x)) = Len(q) + 1
      /\ \A i \in 1..Len(q) : Append(q, x)[i] = q[i]
      /\ Append(q, x)[Len(q) + 1] = x
  BY AppendProperties, LenProperties
<1>2. IsFiniteSet(old)
  BY PcmFinite
<1>3. CASE x = "pcm"
  <2>1. new = old \cup {Len(q) + 1}
    BY <1>1, <1>3
  <2>2. Len(q) + 1 \notin old
    BY <1>1
  <2>3. Cardinality(new) = Cardinality(old) + 1
    BY <1>2, <2>1, <2>2, FS_AddElement
  <2>4. Pcm(Append(q, x)) = Pcm(q) + 1
    BY <2>3 DEF Pcm
  <2>5. HasEnd(Append(q, x)) <=> HasEnd(q)
    BY <1>1, <1>3 DEF HasEnd
  <2> QED BY <1>1, <1>3, <2>4, <2>5
<1>4. CASE x # "pcm"
  <2>1. new = old
    BY <1>1, <1>4
  <2>2. Pcm(Append(q, x)) = Pcm(q)
    BY <2>1 DEF Pcm
  <2>3. HasEnd(Append(q, x))
    BY <1>1, <1>4 DEF HasEnd
  <2> QED BY <1>1, <1>4, <2>2, <2>3
<1> QED BY <1>3, <1>4

LEMMA PcmTail ==
  ASSUME NEW S, NEW q \in Seq(S), q # <<>>
  PROVE  /\ Tail(q) \in Seq(S) /\ Len(Tail(q)) = Len(q) - 1 /\ Head(q) \in S
         /\ Pcm(Tail(q)) = IF Head(q) = "pcm" THEN Pcm(q) - 1 ELSE Pcm(q)
         /\ HasEnd(q) <=> HasEnd(Tail(q)) \/ Head(q) # "pcm"
<1> DEFINE n == Len(q)
           old == {i \in DOMAIN q : q[i] = "pcm"}
           rest == {i \in 2..n : q[i] = "pcm"}
           new == {i \in DOMAIN Tail(q) : Tail(q)[i] = "pcm"}
           f == [i \in rest |-> i - 1]
<1>1. /\ DOMAIN q = 1..n /\ n \in Nat /\ n > 0 /\ Head(q) = q[1] /\ Head(q) \in S
      /\ Tail(q) \in Seq(S) /\ Len(Tail(q)) = n - 1
      /\ DOMAIN Tail(q) = 1..(n - 1) /\ \A i \in 1..(n - 1) : Tail(q)[i] = q[i + 1]
  BY HeadTailProperties, LenProperties, EmptySeq
<1>2. HasEnd(q) <=> HasEnd(Tail(q)) \/ Head(q) # "pcm"
  <2>1. HasEnd(Tail(q)) => HasEnd(q)
    BY <1>1 DEF HasEnd
  <2>2. Head(q) # "pcm" => HasEnd(q)
    BY <1>1 DEF HasEnd
  <2>3. ASSUME NEW i \in 1..n, q[i] # "pcm", Head(q) = "pcm" PROVE HasEnd(Tail(q))
    <3>1. i - 1 \in 1..(n - 1) /\ Tail(q)[i - 1] = q[i]
      BY <1>1, <2>3
    <3> QED BY <1>1, <2>3, <3>1 DEF HasEnd
  <2> QED BY <1>1, <2>1, <2>2, <2>3 DEF HasEnd
<1>3. IsFiniteSet(old) /\ IsFiniteSet(rest)
  <2>1. IsFiniteSet(old)
    BY PcmFinite
  <2>2. rest \subseteq old
    BY <1>1
  <2> QED BY <2>1, <2>2, FS_Subset
<1>4. Cardinality(new) = Cardinality(rest)
  <2>1. f \in Bijection(rest, new)
    <3>1. \A i \in rest : i - 1 \in new /\ i \in 2..n
      BY <1>1
    <3>2. \A j \in new : j + 1 \in rest /\ (j + 1) - 1 = j
      BY <1>1
    <3>3. \A i, k \in rest : i - 1 = k - 1 => i = k
      BY <1>1
    <3> QED BY <3>1, <3>2, <3>3, Fun_IsBij, Zenon DEF Bijection, Injection, Surjection, IsInjective
  <2>2. ExistsBijection(rest, new)
    BY <2>1 DEF ExistsBijection
  <2> HIDE DEF rest, new, f
  <2> QED BY <1>3, <2>2, FS_Bijection
<1>5. CASE Head(q) = "pcm"
  <2>1. old = rest \cup {1} /\ 1 \notin rest
    BY <1>1, <1>5
  <2>2. Cardinality(old) = Cardinality(rest) + 1
    BY <1>3, <2>1, FS_AddElement
  <2>3. Cardinality(rest) \in Nat
    BY <1>3, FS_CardinalityType
  <2>4. Cardinality(new) = Cardinality(old) - 1
    <3> HIDE DEF rest, new, old
    <3> QED BY <1>4, <2>2, <2>3
  <2>5. Pcm(Tail(q)) = Pcm(q) - 1
    BY <2>4 DEF Pcm
  <2> QED BY <1>1, <1>2, <1>5, <2>5
<1>6. CASE Head(q) # "pcm"
  <2>1. old = rest
    BY <1>1, <1>6
  <2> QED BY <1>1, <1>2, <1>4, <1>6, <2>1 DEF Pcm
<1> QED BY <1>5, <1>6

LEMMA PcmAll ==
  ASSUME NEW S, NEW q \in Seq(S), ~HasEnd(q) PROVE Pcm(q) = Len(q)
<1>1. {i \in DOMAIN q : q[i] = "pcm"} = 1..Len(q) /\ Len(q) \in Nat
  BY LenProperties DEF HasEnd
<1>2. Cardinality(1..Len(q)) = Len(q)
  BY <1>1, CountTo
<1> QED BY <1>1, <1>2 DEF Pcm

LEMMA PcmShort ==
  /\ Pcm(<<>>) = 0 /\ ~HasEnd(<<>>) /\ Pcm(<<"end">>) = 0 /\ HasEnd(<<"end">>)
<1>1. {i \in DOMAIN <<>> : <<>>[i] = "pcm"} = {}
  OBVIOUS
<1>2. {i \in DOMAIN <<"end">> : <<"end">>[i] = "pcm"} = {}
  OBVIOUS
<1> QED BY <1>1, <1>2, FS_EmptySet DEF Pcm, HasEnd

-----------------------------------------------------------------------------
(* One turn.                                                               *)

\* What a turn's queue owes, whatever else the turn does.
QueueSound(r) ==
    /\ r.queue \in Seq(Items) /\ r.slots \in Nat
    /\ Pcm(r.queue) + r.slots = AudioSize /\ Len(r.queue) <= AudioSize + 1

LEMMA ForcedSound ==
  ASSUME NEW r, DOMAIN r = TurnFields, QueueSound(r), NEW item \in {"end", "failed"},
         NEW f, f = Forced(r, item)
  PROVE  /\ DOMAIN f = TurnFields /\ QueueSound(f) /\ HasEnd(f.queue)
         /\ f.sock = r.sock /\ f.closed = r.closed /\ f.listens = r.listens /\ f.last = r.last
         /\ f.reads = r.reads /\ f.cancels = r.cancels
<1> USE SpeechAssumption
<1>0. item \in Items /\ item # "pcm" /\ Len(r.queue) \in Nat
  BY LenProperties DEF Items, QueueSound
<1>1. CASE Len(r.queue) <= AudioSize
  <2>1. f = [r EXCEPT !.queue = Append(r.queue, item)]
    BY <1>1 DEF Forced
  <2>2. f.queue = Append(r.queue, item) /\ f.slots = r.slots
    BY <2>1 DEF TurnFields
  <2>3. QueueSound(f) /\ HasEnd(f.queue)
    BY <1>0, <1>1, <2>2, PcmAppend DEF QueueSound
  <2> QED BY <2>1, <2>3 DEF TurnFields
<1>2. CASE ~(Len(r.queue) <= AudioSize)
  <2> DEFINE q == Tail(r.queue)
  <2>1. f = [r EXCEPT !.queue = Append(q, item),
                      !.slots = IF Head(r.queue) = "pcm" THEN r.slots + 1 ELSE r.slots]
    BY <1>2 DEF Forced
  <2>2. f.queue = Append(q, item) /\ f.slots = IF Head(r.queue) = "pcm" THEN r.slots + 1 ELSE r.slots
    BY <2>1 DEF TurnFields
  <2>3. r.queue # <<>>
    BY <1>2
  <2>4. /\ q \in Seq(Items) /\ Len(q) = Len(r.queue) - 1
        /\ Pcm(q) = IF Head(r.queue) = "pcm" THEN Pcm(r.queue) - 1 ELSE Pcm(r.queue)
    BY <2>3, PcmTail DEF QueueSound
  <2>5. /\ Append(q, item) \in Seq(Items) /\ Len(Append(q, item)) = Len(q) + 1
        /\ Pcm(Append(q, item)) = Pcm(q) /\ HasEnd(Append(q, item))
    BY <1>0, <2>4, PcmAppend
  <2>6. Pcm(r.queue) \in 0..Len(r.queue)
    BY PcmFinite DEF QueueSound
  <2> HIDE DEF q
  <2>7. Len(f.queue) <= AudioSize + 1 /\ f.queue \in Seq(Items) /\ HasEnd(f.queue)
    BY <1>0, <2>2, <2>4, <2>5 DEF QueueSound
  <2>8. f.slots \in Nat /\ Pcm(f.queue) + f.slots = AudioSize
    <3>1. r.slots \in Nat /\ Pcm(r.queue) + r.slots = AudioSize
      BY DEF QueueSound
    <3>2. CASE Head(r.queue) = "pcm"
      <4>1. f.slots = r.slots + 1 /\ Pcm(f.queue) = Pcm(r.queue) - 1
        BY <2>2, <2>4, <2>5, <3>2
      <4> QED BY <1>0, <2>6, <3>1, <4>1
    <3>3. CASE Head(r.queue) # "pcm"
      BY <2>2, <2>4, <2>5, <3>1, <3>3
    <3> QED BY <3>2, <3>3
  <2> QED BY <2>1, <2>7, <2>8 DEF TurnFields, QueueSound
<1> QED BY <1>1, <1>2

LEMMA StoppedSound ==
  ASSUME NEW t \in Turns, TurnSound(turn[t]), Opened(t), NEW f, f = ListenerStopped(t)
  PROVE  /\ DOMAIN f = TurnFields /\ QueueSound(f)
         /\ f.sock = turn[t].sock /\ f.closed = TRUE /\ f.listens = "done"
         /\ f.reads = turn[t].reads /\ f.cancels = turn[t].cancels
         /\ turn[t].listens = "closing" \/ (turn[t].listens = "done" /\ f.queue = turn[t].queue) \/ HasEnd(f.queue)
<1>0. QueueSound(turn[t]) /\ DOMAIN turn[t] = TurnFields /\ turn[t].sock # 0
  BY DEF TurnSound, QueueSound, Opened
<1>1. CASE turn[t].listens \in {"recv", "slot"}
  <2> DEFINE g == Forced(turn[t], "failed")
  <2>1. /\ DOMAIN g = TurnFields /\ QueueSound(g) /\ HasEnd(g.queue) /\ g.sock = turn[t].sock
        /\ g.reads = turn[t].reads /\ g.cancels = turn[t].cancels
    BY <1>0, ForcedSound
  <2>2. f = [g EXCEPT !.closed = TRUE, !.listens = "done"]
    BY <1>1 DEF ListenerStopped
  <2> HIDE DEF g
  <2>3. f.queue = g.queue /\ f.slots = g.slots
    BY <2>1, <2>2 DEF TurnFields
  <2> QED BY <2>1, <2>2, <2>3 DEF TurnFields, QueueSound
<1>2. CASE turn[t].listens \notin {"recv", "slot"}
  <2>1. f = [turn[t] EXCEPT !.listens = "done"]
    BY <1>2 DEF ListenerStopped
  <2>2. turn[t].closed = TRUE /\ turn[t].listens \in {"closing", "done"}
    BY <1>0, <1>2 DEF TurnSound
  <2>3. /\ DOMAIN f = TurnFields /\ f.queue = turn[t].queue /\ f.slots = turn[t].slots
        /\ f.sock = turn[t].sock /\ f.closed = turn[t].closed /\ f.listens = "done"
        /\ f.reads = turn[t].reads /\ f.cancels = turn[t].cancels
    BY <1>0, <2>1 DEF TurnFields
  <2> QED BY <1>0, <2>2, <2>3 DEF QueueSound
<1> QED BY <1>1, <1>2

\* Only one turn is written: how its record is seen in the next state.
LEMMA OneTurn ==
  ASSUME DOMAIN turn = Turns, NEW t \in Turns, NEW r, turn' = [turn EXCEPT ![t] = r]
  PROVE  DOMAIN turn' = Turns /\ turn'[t] = r /\ \A u \in Turns \ {t} : turn'[u] = turn[u]
OBVIOUS

\* A turn that stays as open or closed as it was, and its cancels by the pool, touch no socket.
LEMMA SocketsSame ==
  ASSUME SocketInv, UNCHANGED <<pool, opener, sock>>,
         \A t \in Turns : /\ turn'[t].sock = turn[t].sock /\ turn'[t].closed = turn[t].closed
                          /\ \/ turn'[t].cancels["pool"] = turn[t].cancels["pool"]
                             \/ turn'[t].closed /\ turn[t].cancels["pool"] \notin {"no", "done"}
  PROVE  SocketInv'
BY DEF SocketInv

\* An open turn gives its websocket up.
LEMMA SocketClosed ==
  ASSUME SocketInv, UNCHANGED <<pool, opener>>, NEW t \in Turns, turn[t].sock \in Sockets, ~turn[t].closed,
         sock' = Close(turn[t].sock), turn'[t].sock = turn[t].sock, turn'[t].closed = TRUE,
         opener.at # "over",
         \A u \in Turns \ {t} : turn'[u] = turn[u]
  PROVE  SocketInv'
<1>1. /\ DOMAIN sock' = Sockets /\ sock'[turn[t].sock] = "closed"
      /\ \A w \in Sockets \ {turn[t].sock} : sock'[w] = sock[w]
  BY DEF Close, SocketInv
<1>2. \A w \in Sockets : sock'[w] = "open" <=> \/ pool.idle = w \/ opener.sock = w
                                               \/ \E u \in Turns : turn'[u].sock = w /\ ~turn'[u].closed
  <2>1. ASSUME NEW w \in Sockets, w # turn[t].sock
        PROVE  (\E u \in Turns : turn'[u].sock = w /\ ~turn'[u].closed)
                  <=> (\E u \in Turns : turn[u].sock = w /\ ~turn[u].closed)
    BY <2>1
  <2>2. ~(\E u \in Turns : turn'[u].sock = turn[t].sock /\ ~turn'[u].closed)
    BY DEF SocketInv, Sockets
  <2>3. pool.idle # turn[t].sock /\ opener.sock # turn[t].sock
    BY DEF SocketInv, Sockets
  <2> QED BY <1>1, <2>1, <2>2, <2>3 DEF SocketInv
<1>3. \A u \in Turns : turn'[u].sock # 0 /\ ~turn'[u].closed =>
          /\ turn'[u].sock # pool.idle /\ turn'[u].sock # opener.sock
          /\ \A v \in Turns \ {u} : ~turn'[v].closed => turn'[v].sock # turn'[u].sock
          /\ pool.closed => turn'[u].cancels["pool"] = "telling"
  BY DEF SocketInv
<1> QED BY <1>1, <1>2, <1>3 DEF SocketInv

\* Reduces a step of a turn to the turn's own record and the websockets.
LEMMA TurnStep ==
  ASSUME SpeechInv, NEW t \in Turns, NEW r, turn' = [turn EXCEPT ![t] = r], TurnSound(r), SocketInv'
  PROVE  SpeechInv'
BY OneTurn DEF SpeechInv

LEMMA PcmQueued ==
  ASSUME NEW t \in Turns, TurnSound(turn[t]), ~turn[t].closed
  PROVE  Pcm(turn[t].queue) = Len(turn[t].queue)
BY PcmAll DEF TurnSound

LEMMA TurnReleased ==
  ASSUME SpeechInv, NEW t \in Turns, turn[t].listens = "recv", NEW item \in {"end", "failed"}, NEW b,
         UNCHANGED opener, Release(t, b, [turn[t] EXCEPT !.last = item])
  PROVE  SpeechInv'
<1> DEFINE r == [turn[t] EXCEPT !.last = item]
<1>1. /\ TurnSound(turn[t]) /\ turn[t].sock \in Sockets /\ turn[t].closed = FALSE /\ SocketInv
      /\ DOMAIN turn = Turns
  BY DEF SpeechInv, TurnSound, Sockets
<1>2. /\ DOMAIN r = TurnFields /\ r.last = item /\ r.queue = turn[t].queue /\ r.slots = turn[t].slots
      /\ r.sock = turn[t].sock /\ r.cancels = turn[t].cancels /\ r.reads = turn[t].reads
      /\ r.listens = "recv"
  BY <1>1 DEF TurnSound, TurnFields
<1>3. opener.at # "over"
  BY <1>1 DEF SocketInv, Sockets
<1>4. Pcm(turn[t].queue) = Len(turn[t].queue) /\ Pcm(turn[t].queue) + turn[t].slots = AudioSize
      /\ turn[t].slots \in Nat /\ turn[t].queue \in Seq(Items) /\ Len(turn[t].queue) \in Nat
  BY <1>1, PcmQueued, LenProperties DEF TurnSound
<1>5. CASE b /\ ~pool.closed /\ pool.idle = 0
  <2> DEFINE s == [r EXCEPT !.closed = TRUE, !.listens = "done", !.queue = Append(r.queue, item)]
  <2>1. /\ pool' = [pool EXCEPT !.idle = turn[t].sock] /\ UNCHANGED sock
        /\ turn' = [turn EXCEPT ![t] = s]
    BY <1>2, <1>5 DEF Release
  <2>2. /\ DOMAIN s = TurnFields /\ s.closed = TRUE /\ s.listens = "done" /\ s.queue = Append(turn[t].queue, item)
        /\ s.slots = turn[t].slots /\ s.sock = turn[t].sock /\ s.cancels = turn[t].cancels
    BY <1>2 DEF TurnFields
  <2> HIDE DEF s
  <2>3. /\ Append(turn[t].queue, item) \in Seq(Items) /\ HasEnd(Append(turn[t].queue, item))
        /\ Pcm(Append(turn[t].queue, item)) = Pcm(turn[t].queue)
        /\ Len(Append(turn[t].queue, item)) = Len(turn[t].queue) + 1
    BY <1>4, PcmAppend DEF Items
  <2>4. Len(s.queue) <= AudioSize + 1
    BY <1>4, <2>2, <2>3, SpeechAssumption
  <2>5. TurnSound(s)
    BY <1>1, <1>4, <2>2, <2>3, <2>4 DEF TurnSound, Sockets
  <2>6. turn'[t] = s /\ \A u \in Turns \ {t} : turn'[u] = turn[u]
    BY <1>1, <2>1, OneTurn
  <2>7. /\ DOMAIN pool' = {"closed", "idle"} /\ pool'.idle = turn[t].sock /\ pool'.closed = pool.closed
    BY <1>1, <2>1 DEF SocketInv
  <2>8. turn'[t].closed /\ opener.sock # turn[t].sock /\ turn[t].sock # 0
    BY <1>1, <2>2, <2>6 DEF SocketInv, Sockets
  <2>9. ~\E u \in Turns \ {t} : turn[u].sock = turn[t].sock /\ ~turn[u].closed
    BY <1>1, <2>8 DEF SocketInv
  <2>10. \A w \in Sockets : sock'[w] = "open" <=> \/ pool'.idle = w \/ opener'.sock = w
                                               \/ \E u \in Turns : turn'[u].sock = w /\ ~turn'[u].closed
    <3>1. ASSUME NEW w \in Sockets, w # turn[t].sock
          PROVE (\E u \in Turns : turn'[u].sock = w /\ ~turn'[u].closed)
                  <=> (\E u \in Turns : turn[u].sock = w /\ ~turn[u].closed)
      BY <2>2, <2>6, <3>1
    <3>2. sock[turn[t].sock] = "open"
      BY <1>1 DEF SocketInv
    <3>3. ASSUME NEW w \in Sockets, w # turn[t].sock PROVE w # pool.idle
      BY <1>5 DEF Sockets
    <3> QED BY <1>1, <2>1, <2>7, <3>1, <3>2, <3>3 DEF SocketInv
  <2>11. \A u \in Turns : turn'[u].sock # 0 /\ ~turn'[u].closed =>
          /\ turn'[u].sock # pool'.idle /\ turn'[u].sock # opener'.sock
          /\ \A v \in Turns \ {u} : ~turn'[v].closed => turn'[v].sock # turn'[u].sock
    BY <1>1, <2>6, <2>7, <2>8, <2>9 DEF SocketInv
  <2>12. SocketInv'
    BY <1>1, <1>3, <1>5, <2>1, <2>7, <2>8, <2>10, <2>11 DEF SocketInv, Sockets
  <2> QED BY <2>1, <2>5, <2>12, TurnStep
<1>6. CASE ~(b /\ ~pool.closed /\ pool.idle = 0)
  <2> DEFINE s == [r EXCEPT !.closed = TRUE, !.listens = "closing"]
  <2>1. sock' = Close(turn[t].sock) /\ UNCHANGED pool /\ turn' = [turn EXCEPT ![t] = s]
    BY <1>6 DEF Release
  <2>2. /\ DOMAIN s = TurnFields /\ s.closed = TRUE /\ s.listens = "closing" /\ s.queue = turn[t].queue
        /\ s.slots = turn[t].slots /\ s.sock = turn[t].sock /\ s.cancels = turn[t].cancels
        /\ s.last = item
    BY <1>2 DEF TurnFields
  <2> HIDE DEF s
  <2>3. TurnSound(s)
    BY <1>1, <2>2 DEF TurnSound
  <2>4. turn'[t] = s /\ \A u \in Turns \ {t} : turn'[u] = turn[u]
    BY <1>1, <2>1, OneTurn
  <2>5. SocketInv'
    BY <1>1, <1>3, <2>1, <2>2, <2>4, SocketClosed
  <2> QED BY <2>1, <2>3, <2>5, TurnStep
<1> QED BY <1>5, <1>6

LEMMA ListenStep == ASSUME SpeechInv, NEW t \in Turns, Listen(t) PROVE SpeechInv'
<1>1. /\ TurnSound(turn[t]) /\ turn[t].sock \in Sockets /\ turn[t].closed = FALSE /\ SocketInv
      /\ DOMAIN turn = Turns /\ turn[t].listens \in {"recv", "slot"}
  BY DEF SpeechInv, TurnSound, Sockets, Listen
<1>2. CASE /\ turn[t].slots > 0 /\ UNCHANGED <<pool, sock, opener>>
           /\ turn' = [turn EXCEPT ![t].slots = @ - 1, ![t].listens = "recv", ![t].queue = Append(@, "pcm")]
  <2> DEFINE s == [turn[t] EXCEPT !.slots = @ - 1, !.listens = "recv", !.queue = Append(@, "pcm")]
  <2>1. turn' = [turn EXCEPT ![t] = s]
    BY <1>1, <1>2
  <2>2. /\ DOMAIN s = TurnFields /\ s.slots = turn[t].slots - 1 /\ s.listens = "recv"
        /\ s.queue = Append(turn[t].queue, "pcm") /\ s.sock = turn[t].sock /\ s.closed = FALSE
        /\ s.cancels = turn[t].cancels
    BY <1>1 DEF TurnSound, TurnFields
  <2> HIDE DEF s
  <2>3. Pcm(turn[t].queue) = Len(turn[t].queue) /\ Pcm(turn[t].queue) + turn[t].slots = AudioSize
      /\ turn[t].slots \in Nat /\ turn[t].queue \in Seq(Items) /\ Len(turn[t].queue) \in Nat
      /\ ~HasEnd(turn[t].queue)
    BY <1>1, PcmQueued, LenProperties DEF TurnSound
  <2>4. /\ s.queue \in Seq(Items) /\ ~HasEnd(s.queue) /\ Pcm(s.queue) = Pcm(turn[t].queue) + 1
        /\ Len(s.queue) = Len(turn[t].queue) + 1
    BY <2>2, <2>3, PcmAppend DEF Items
  <2>5. s.slots \in Nat /\ Pcm(s.queue) + s.slots = AudioSize /\ Len(s.queue) <= AudioSize + 1
    <3> DEFINE l == Len(turn[t].queue)
    <3> DEFINE n == turn[t].slots
    <3>1. l \in Nat /\ n \in Nat /\ n > 0 /\ l + n = AudioSize
      BY <1>2, <2>3
    <3>2. Pcm(s.queue) = l + 1 /\ Len(s.queue) = l + 1 /\ s.slots = n - 1
      BY <2>2, <2>3, <2>4
    <3> HIDE DEF l, n
    <3>3. n - 1 \in Nat /\ (l + 1) + (n - 1) = AudioSize /\ l + 1 <= AudioSize + 1
      BY ONLY <3>1
    <3> QED BY ONLY <3>2, <3>3
  <2>6. TurnSound(s)
    BY <1>1, <2>2, <2>4, <2>5 DEF TurnSound
  <2>7. turn'[t] = s /\ \A u \in Turns \ {t} : turn'[u] = turn[u]
    BY <1>1, <2>1, OneTurn
  <2>8. SocketInv'
    BY <1>1, <1>2, <2>2, <2>7, SocketsSame
  <2> QED BY <2>1, <2>6, <2>8, TurnStep
<1>3. CASE turn' = [turn EXCEPT ![t].listens = "slot"] /\ UNCHANGED <<pool, sock, opener>>
  <2> DEFINE s == [turn[t] EXCEPT !.listens = "slot"]
  <2>1. turn' = [turn EXCEPT ![t] = s]
    BY <1>1, <1>3
  <2>2. /\ DOMAIN s = TurnFields /\ s.slots = turn[t].slots /\ s.listens = "slot"
        /\ s.queue = turn[t].queue /\ s.sock = turn[t].sock /\ s.closed = FALSE
        /\ s.cancels = turn[t].cancels
    BY <1>1 DEF TurnSound, TurnFields
  <2> HIDE DEF s
  <2>3. TurnSound(s)
    BY <1>1, <2>2 DEF TurnSound
  <2>4. turn'[t] = s /\ \A u \in Turns \ {t} : turn'[u] = turn[u]
    BY <1>1, <2>1, OneTurn
  <2>5. SocketInv'
    BY <1>1, <1>3, <2>2, <2>4, SocketsSame
  <2> QED BY <2>1, <2>3, <2>5, TurnStep
<1>4. ASSUME turn[t].listens = "recv", NEW item \in {"end", "failed"}, UNCHANGED opener,
             Release(t, item = "end", [turn[t] EXCEPT !.last = item])
      PROVE  SpeechInv'
  BY <1>4, TurnReleased
<1> QED BY <1>2, <1>3, <1>4 DEF Listen

LEMMA ListenerEndsStep == ASSUME SpeechInv, NEW t \in Turns, ListenerEnds(t) PROVE SpeechInv'
<1> DEFINE g == Forced(turn[t], turn[t].last)
           s == [g EXCEPT !.listens = "done"]
<1>1. /\ TurnSound(turn[t]) /\ SocketInv /\ DOMAIN turn = Turns /\ turn[t].listens = "closing"
      /\ turn[t].last \in {"end", "failed"}
  BY DEF SpeechInv, TurnSound, ListenerEnds
<1>2. turn' = [turn EXCEPT ![t] = s] /\ UNCHANGED <<pool, opener, sock>>
  BY <1>1 DEF ListenerEnds
<1>3. /\ DOMAIN g = TurnFields /\ QueueSound(g) /\ HasEnd(g.queue)
      /\ g.sock = turn[t].sock /\ g.closed = turn[t].closed /\ g.reads = turn[t].reads
      /\ g.cancels = turn[t].cancels
  BY <1>1, ForcedSound DEF TurnSound, QueueSound
<1> HIDE DEF g
<1>4. /\ DOMAIN s = TurnFields /\ s.queue = g.queue /\ s.slots = g.slots /\ s.listens = "done"
      /\ s.sock = turn[t].sock /\ s.closed = turn[t].closed /\ s.cancels = turn[t].cancels
  BY <1>3 DEF TurnFields
<1> HIDE DEF s
<1>5. TurnSound(s)
  BY <1>1, <1>3, <1>4 DEF TurnSound, QueueSound
<1>6. turn'[t] = s /\ \A u \in Turns \ {t} : turn'[u] = turn[u]
  BY <1>1, <1>2, OneTurn
<1>7. SocketInv'
  BY <1>1, <1>2, <1>4, <1>6, SocketsSame
<1> QED BY <1>2, <1>5, <1>7, TurnStep

\* A listener is stopped, by a command that cannot be sent or by a canceller.
LEMMA GivenUp ==
  ASSUME SpeechInv, NEW t \in Turns, Opened(t), UNCHANGED <<pool, opener>>, sock' = SocketGivenUp(t),
         DOMAIN turn' = Turns, \A u \in Turns \ {t} : turn'[u] = turn[u],
         turn'[t].sock = turn[t].sock, turn'[t].closed = TRUE,
         turn[t].closed => \/ turn'[t].cancels["pool"] = turn[t].cancels["pool"]
                           \/ turn[t].cancels["pool"] \notin {"no", "done"}
  PROVE  SocketInv'
<1>1. TurnSound(turn[t]) /\ turn[t].sock \in Sockets /\ SocketInv
  BY DEF SpeechInv, TurnSound, Sockets, Opened
<1>2. CASE turn[t].closed = TRUE
  BY <1>1, <1>2, SocketsSame DEF SocketGivenUp
<1>3. CASE turn[t].closed = FALSE
  <2>1. opener.at # "over" /\ sock' = Close(turn[t].sock)
    BY <1>1, <1>3 DEF SocketInv, Sockets, SocketGivenUp
  <2> QED BY <1>1, <1>3, <2>1, SocketClosed
<1> QED BY <1>1, <1>2, <1>3 DEF TurnSound

LEMMA SendFailsStep == ASSUME SpeechInv, NEW t \in Turns, SendFails(t) PROVE SpeechInv'
<1> DEFINE h == ListenerStopped(t)
           g == Forced(h, "failed")
<1>1. /\ TurnSound(turn[t]) /\ SocketInv /\ DOMAIN turn = Turns /\ Opened(t)
      /\ turn' = [turn EXCEPT ![t] = g] /\ sock' = SocketGivenUp(t) /\ UNCHANGED <<pool, opener>>
  BY DEF SpeechInv, SendFails
<1>2. /\ DOMAIN h = TurnFields /\ QueueSound(h) /\ h.sock = turn[t].sock /\ h.closed = TRUE
      /\ h.listens = "done" /\ h.cancels = turn[t].cancels
  BY <1>1, StoppedSound
<1> HIDE DEF h
<1>3. /\ DOMAIN g = TurnFields /\ QueueSound(g) /\ HasEnd(g.queue)
      /\ g.sock = turn[t].sock /\ g.closed = TRUE /\ g.listens = "done" /\ g.cancels = turn[t].cancels
  BY <1>2, ForcedSound
<1> HIDE DEF g
<1>4. TurnSound(g)
  BY <1>1, <1>3 DEF TurnSound, QueueSound, Opened
<1>5. turn'[t] = g /\ DOMAIN turn' = Turns /\ \A u \in Turns \ {t} : turn'[u] = turn[u]
  BY <1>1, OneTurn
<1>6. SocketInv'
  BY <1>1, <1>3, <1>5, GivenUp
<1> QED BY <1>1, <1>4, <1>6, TurnStep

LEMMA CancelStepStep ==
  ASSUME SpeechInv, NEW t \in Turns, NEW c \in Cancellers, CancelStep(t, c) PROVE SpeechInv'
<1>1. /\ TurnSound(turn[t]) /\ SocketInv /\ DOMAIN turn = Turns /\ UNCHANGED <<pool, opener>>
      /\ turn[t].cancels[c] \in {"telling", "draining"} /\ Opened(t)
  BY DEF SpeechInv, CancelStep, TurnSound, Opened
<1>2. CASE /\ turn[t].cancels[c] = "telling"
           /\ turn' = [turn EXCEPT ![t] = [ListenerStopped(t) EXCEPT !.cancels[c] = "draining"]]
           /\ sock' = SocketGivenUp(t)
  <2> DEFINE h == ListenerStopped(t)
             g == [h EXCEPT !.cancels[c] = "draining"]
  <2>1. /\ DOMAIN h = TurnFields /\ QueueSound(h) /\ h.sock = turn[t].sock /\ h.closed = TRUE
        /\ h.listens = "done" /\ h.cancels = turn[t].cancels
    BY <1>1, StoppedSound
  <2> HIDE DEF h
  <2>2. /\ DOMAIN g = TurnFields /\ g.queue = h.queue /\ g.slots = h.slots /\ g.sock = turn[t].sock
        /\ g.closed = TRUE /\ g.listens = "done" /\ g.cancels = [turn[t].cancels EXCEPT ![c] = "draining"]
    BY <2>1 DEF TurnFields
  <2>3. turn' = [turn EXCEPT ![t] = g]
    BY <1>2 DEF h
  <2> HIDE DEF g
  <2>4. DOMAIN g.cancels = Cancellers /\ g.cancels[c] = "draining"
        /\ \A d \in Cancellers \ {c} : g.cancels[d] = turn[t].cancels[d]
    BY <1>1, <2>2 DEF TurnSound
  <2>5. TurnSound(g)
    BY <1>1, <2>1, <2>2, <2>4 DEF TurnSound, QueueSound, Opened
  <2>6. turn'[t] = g /\ DOMAIN turn' = Turns /\ \A u \in Turns \ {t} : turn'[u] = turn[u]
    BY <1>1, <2>3, OneTurn
  <2>7. \/ turn'[t].cancels["pool"] = turn[t].cancels["pool"]
        \/ turn[t].cancels["pool"] \notin {"no", "done"}
    BY <1>2, <2>4, <2>6 DEF Cancellers
  <2>8. SocketInv'
    BY <1>1, <1>2, <2>2, <2>6, <2>7, GivenUp
  <2> QED BY <2>3, <2>5, <2>8, TurnStep
<1>3. CASE /\ turn[t].cancels[c] = "draining" /\ UNCHANGED sock
           /\ turn' = [turn EXCEPT ![t].queue = <<"end">>, ![t].slots = AudioSize,
                         ![t].cancels[c] = IF c = "user" THEN "no" ELSE "done"]
  <2> DEFINE g == [turn[t] EXCEPT !.queue = <<"end">>, !.slots = AudioSize,
                         !.cancels[c] = IF c = "user" THEN "no" ELSE "done"]
  <2>1. turn' = [turn EXCEPT ![t] = g]
    BY <1>1, <1>3
  <2>2. /\ DOMAIN g = TurnFields /\ g.queue = <<"end">> /\ g.slots = AudioSize /\ g.sock = turn[t].sock
        /\ g.closed = turn[t].closed /\ g.listens = turn[t].listens /\ g.last = turn[t].last
        /\ g.cancels = [turn[t].cancels EXCEPT ![c] = IF c = "user" THEN "no" ELSE "done"]
    BY <1>1 DEF TurnSound, TurnFields
  <2> HIDE DEF g
  <2>3. DOMAIN g.cancels = Cancellers /\ g.cancels[c] \in {"no", "done"}
        /\ \A d \in Cancellers \ {c} : g.cancels[d] = turn[t].cancels[d]
    BY <1>1, <2>2 DEF TurnSound
  <2>4. <<"end">> \in Seq(Items) /\ Len(<<"end">>) = 1
    BY DEF Items
  <2>5. turn[t].closed
    BY <1>1, <1>3 DEF TurnSound
  <2>6. Pcm(g.queue) + g.slots = AudioSize /\ Len(g.queue) <= AudioSize + 1 /\ g.slots \in Nat
        /\ g.queue \in Seq(Items) /\ HasEnd(g.queue)
    BY <2>2, <2>4, PcmShort, SpeechAssumption
  <2>7. TurnSound(g)
    BY <1>1, <2>2, <2>3, <2>5, <2>6 DEF TurnSound, Opened
  <2>8. turn'[t] = g /\ DOMAIN turn' = Turns /\ \A u \in Turns \ {t} : turn'[u] = turn[u]
    BY <1>1, <2>1, OneTurn
  <2>9. \/ turn'[t].cancels["pool"] = turn[t].cancels["pool"]
        \/ turn[t].cancels["pool"] \notin {"no", "done"}
    BY <1>3, <2>3, <2>8 DEF Cancellers
  <2>10. SocketInv'
    BY <1>1, <1>3, <2>2, <2>5, <2>8, <2>9, SocketsSame
  <2> QED BY <2>1, <2>7, <2>10, TurnStep
<1> QED BY <1>1, <1>2, <1>3 DEF CancelStep

\* The caller decides to cancel, or gives that up; only its own mark changes.
LEMMA MarkStep ==
  ASSUME SpeechInv, NEW t \in Turns, Opened(t), NEW v \in {"no", "telling"}, turn[t].cancels["user"] # "draining",
         NEW g, turn' = [turn EXCEPT ![t] = g], UNCHANGED <<pool, opener, sock>>,
         DOMAIN g = TurnFields, g.sock = turn[t].sock, g.closed = turn[t].closed,
         g.listens = turn[t].listens, g.last = turn[t].last, g.queue = turn[t].queue,
         g.slots = turn[t].slots, g.reads \in {turn[t].reads, "gone"},
         g.cancels = [turn[t].cancels EXCEPT !["user"] = v]
  PROVE  SpeechInv'
<1>1. TurnSound(turn[t]) /\ SocketInv /\ DOMAIN turn = Turns
  BY DEF SpeechInv
<1>2. DOMAIN g.cancels = Cancellers /\ g.cancels["user"] = v /\ g.cancels["pool"] = turn[t].cancels["pool"]
  BY <1>1 DEF TurnSound, Cancellers
<1>3. \A d \in Cancellers : turn[t].cancels[d] = "draining" <=> g.cancels[d] = "draining"
  BY <1>2 DEF Cancellers
<1>4. TurnSound(g)
  BY <1>1, <1>2, <1>3 DEF TurnSound, Opened
<1>5. turn'[t] = g /\ \A u \in Turns \ {t} : turn'[u] = turn[u]
  BY <1>1, OneTurn
<1>6. SocketInv'
  BY <1>1, <1>2, <1>5, SocketsSame
<1> QED BY <1>4, <1>6, TurnStep

LEMMA CancelIsMarked ==
  ASSUME SpeechInv, NEW t \in Turns, Cancel(t) \/ CancelIsCancelled(t) PROVE SpeechInv'
<1>1. /\ TurnSound(turn[t]) /\ DOMAIN turn = Turns /\ UNCHANGED <<pool, opener, sock>>
      /\ Opened(t) /\ turn[t].cancels["user"] # "draining"
  BY DEF SpeechInv, TurnSound, Opened, Cancel, CancelIsCancelled, Cancellers
<1>2. ASSUME NEW v \in {"no", "telling"}, turn' = [turn EXCEPT ![t].cancels["user"] = v] PROVE SpeechInv'
  <2> DEFINE g == [turn[t] EXCEPT !.cancels["user"] = v]
  <2>1. turn' = [turn EXCEPT ![t] = g]
    BY <1>1, <1>2
  <2>2. /\ DOMAIN g = TurnFields /\ g.sock = turn[t].sock /\ g.closed = turn[t].closed
        /\ g.listens = turn[t].listens /\ g.last = turn[t].last /\ g.queue = turn[t].queue
        /\ g.slots = turn[t].slots /\ g.reads = turn[t].reads
        /\ g.cancels = [turn[t].cancels EXCEPT !["user"] = v]
    BY <1>1 DEF TurnSound, TurnFields
  <2> HIDE DEF g
  <2> QED BY <1>1, <2>1, <2>2, MarkStep
<1> QED BY <1>2 DEF Cancel, CancelIsCancelled

LEMMA ReadStep == ASSUME SpeechInv, NEW t \in Turns, Read(t) PROVE SpeechInv'
<1>1. /\ TurnSound(turn[t]) /\ DOMAIN turn = Turns /\ SocketInv /\ UNCHANGED <<pool, opener, sock>>
      /\ Opened(t)
  BY DEF SpeechInv, Read
<1>2. CASE turn[t].reads = "idle" /\ turn' = [turn EXCEPT ![t].reads = "get"]
  <2> DEFINE g == [turn[t] EXCEPT !.reads = "get"]
  <2>1. turn' = [turn EXCEPT ![t] = g]
    BY <1>1, <1>2
  <2>2. /\ DOMAIN g = TurnFields /\ g.sock = turn[t].sock /\ g.closed = turn[t].closed
        /\ g.listens = turn[t].listens /\ g.last = turn[t].last /\ g.queue = turn[t].queue
        /\ g.slots = turn[t].slots /\ g.cancels = turn[t].cancels
    BY <1>1 DEF TurnSound, TurnFields
  <2> HIDE DEF g
  <2>3. TurnSound(g)
    BY <1>1, <1>2, <2>2 DEF TurnSound
  <2>4. turn'[t] = g /\ \A u \in Turns \ {t} : turn'[u] = turn[u]
    BY <1>1, <2>1, OneTurn
  <2>5. SocketInv'
    BY <1>1, <2>2, <2>4, SocketsSame
  <2> QED BY <2>1, <2>3, <2>5, TurnStep
<1>3. ASSUME turn[t].reads = "get", turn[t].queue # <<>>, NEW g, turn' = [turn EXCEPT ![t] = g],
             DOMAIN g = TurnFields, g.sock = turn[t].sock, g.closed = turn[t].closed,
             g.listens = turn[t].listens, g.last = turn[t].last, g.queue = Tail(turn[t].queue),
             g.cancels = turn[t].cancels,
             IF Head(turn[t].queue) = "pcm" THEN g.slots = turn[t].slots + 1
             ELSE g.slots = turn[t].slots /\ g.reads = "over"
      PROVE  SpeechInv'
  <2>1. turn[t].queue \in Seq(Items) /\ Pcm(turn[t].queue) \in 0..Len(turn[t].queue)
        /\ Len(turn[t].queue) \in Nat /\ turn[t].slots \in Nat /\ Pcm(turn[t].queue) + turn[t].slots = AudioSize
        /\ Len(turn[t].queue) <= AudioSize + 1
    BY <1>1, PcmFinite, LenProperties DEF TurnSound
  <2>2. /\ g.queue \in Seq(Items) /\ Len(g.queue) = Len(turn[t].queue) - 1
        /\ Pcm(g.queue) = IF Head(turn[t].queue) = "pcm" THEN Pcm(turn[t].queue) - 1 ELSE Pcm(turn[t].queue)
        /\ HasEnd(turn[t].queue) <=> HasEnd(g.queue) \/ Head(turn[t].queue) # "pcm"
    BY <1>3, <2>1, PcmTail
  <2>3. Len(g.queue) <= AudioSize + 1
    BY <2>1, <2>2, SpeechAssumption
  <2>4. g.slots \in Nat /\ Pcm(g.queue) + g.slots = AudioSize
    <3>1. CASE Head(turn[t].queue) = "pcm"
      <4>1. g.slots = turn[t].slots + 1 /\ Pcm(g.queue) = Pcm(turn[t].queue) - 1
        BY <1>3, <2>2, <3>1
      <4> QED BY <2>1, <4>1
    <3>2. CASE Head(turn[t].queue) # "pcm"
      BY <1>3, <2>1, <2>2, <3>2
    <3> QED BY <3>1, <3>2
  <2>5. TurnSound(g)
    BY <1>1, <1>3, <2>2, <2>3, <2>4 DEF TurnSound
  <2>6. turn'[t] = g /\ \A u \in Turns \ {t} : turn'[u] = turn[u]
    BY <1>1, <1>3, OneTurn
  <2>7. SocketInv'
    BY <1>1, <1>3, <2>6, SocketsSame
  <2> QED BY <1>3, <2>5, <2>7, TurnStep
<1>4. CASE /\ turn[t].reads = "get" /\ turn[t].queue # <<>> /\ Head(turn[t].queue) = "pcm"
           /\ turn' = [turn EXCEPT ![t].queue = Tail(@), ![t].slots = @ + 1]
  <2> DEFINE g == [turn[t] EXCEPT !.queue = Tail(@), !.slots = @ + 1]
  <2>1. turn' = [turn EXCEPT ![t] = g]
    BY <1>1, <1>4
  <2>2. /\ DOMAIN g = TurnFields /\ g.sock = turn[t].sock /\ g.closed = turn[t].closed
        /\ g.listens = turn[t].listens /\ g.last = turn[t].last /\ g.queue = Tail(turn[t].queue)
        /\ g.slots = turn[t].slots + 1 /\ g.cancels = turn[t].cancels
    BY <1>1 DEF TurnSound, TurnFields
  <2> HIDE DEF g
  <2> QED BY <1>3, <1>4, <2>1, <2>2
<1>5. CASE /\ turn[t].reads = "get" /\ turn[t].queue # <<>> /\ Head(turn[t].queue) # "pcm"
           /\ turn' = [turn EXCEPT ![t].queue = Tail(@), ![t].reads = "over"]
  <2> DEFINE g == [turn[t] EXCEPT !.queue = Tail(@), !.reads = "over"]
  <2>1. turn' = [turn EXCEPT ![t] = g]
    BY <1>1, <1>5
  <2>2. /\ DOMAIN g = TurnFields /\ g.sock = turn[t].sock /\ g.closed = turn[t].closed
        /\ g.listens = turn[t].listens /\ g.last = turn[t].last /\ g.queue = Tail(turn[t].queue)
        /\ g.slots = turn[t].slots /\ g.reads = "over" /\ g.cancels = turn[t].cancels
    BY <1>1 DEF TurnSound, TurnFields
  <2> HIDE DEF g
  <2> QED BY <1>3, <1>5, <2>1, <2>2
<1>6. CASE /\ turn[t].reads = "get" /\ turn[t].cancels["user"] = "no"
           /\ turn' = [turn EXCEPT ![t].reads = "gone",
                         ![t].cancels["user"] = IF turn[t].closed THEN "no" ELSE "telling"]
  <2> DEFINE v == IF turn[t].closed THEN "no" ELSE "telling"
             g == [turn[t] EXCEPT !.reads = "gone", !.cancels["user"] = v]
  <2>1. turn' = [turn EXCEPT ![t] = g]
    BY <1>1, <1>6
  <2>2. /\ DOMAIN g = TurnFields /\ g.sock = turn[t].sock /\ g.closed = turn[t].closed
        /\ g.listens = turn[t].listens /\ g.last = turn[t].last /\ g.queue = turn[t].queue
        /\ g.slots = turn[t].slots /\ g.reads = "gone" /\ v \in {"no", "telling"}
        /\ g.cancels = [turn[t].cancels EXCEPT !["user"] = v]
    BY <1>1 DEF TurnSound, TurnFields
  <2> HIDE DEF g, v
  <2> QED BY <1>1, <1>6, <2>1, <2>2, MarkStep
<1> QED BY <1>2, <1>4, <1>5, <1>6 DEF Read

-----------------------------------------------------------------------------
(* The factory.                                                            *)

LEMMA FactoryStep ==
  ASSUME SpeechInv, TakeIdle \/ Connect \/ PoolCloses PROVE SpeechInv'
<1>0. UNCHANGED turn /\ SocketInv /\ \A t \in Turns : TurnSound(turn[t])
  BY DEF TakeIdle, Connect, PoolCloses, SpeechInv
<1> SUFFICES SocketInv'
  BY <1>0 DEF SpeechInv
<1>1. CASE TakeIdle
  <2>1. /\ opener' = [at |-> IF pool.idle = 0 THEN "connecting" ELSE "starting",
                      sock |-> pool.idle, retry |-> pool.idle # 0]
        /\ pool' = [pool EXCEPT !.idle = 0] /\ UNCHANGED sock /\ opener.at = "free" /\ ~pool.closed
    BY <1>1 DEF TakeIdle
  <2>2. /\ DOMAIN pool' = {"closed", "idle"} /\ pool'.idle = 0 /\ pool'.closed = pool.closed
        /\ DOMAIN opener' = {"at", "sock", "retry"} /\ opener'.sock = pool.idle
        /\ opener'.at = IF pool.idle = 0 THEN "connecting" ELSE "starting"
    BY <1>0, <2>1 DEF SocketInv
  <2>3. \A w \in Sockets : sock[w] = "open" <=> \/ pool'.idle = w \/ opener'.sock = w
                                               \/ \E t \in Turns : turn[t].sock = w /\ ~turn[t].closed
    BY <1>0, <2>1, <2>2 DEF SocketInv, Sockets
  <2> QED BY <1>0, <2>1, <2>2, <2>3 DEF SocketInv
<1>2. ASSUME opener.at = "connecting", NEW w \in Sockets, sock[w] = "new",
             sock' = [sock EXCEPT ![w] = "open"], UNCHANGED pool,
             opener' = [opener EXCEPT !.at = "starting", !.sock = w]
      PROVE  SocketInv'
  <2>1. /\ DOMAIN opener' = {"at", "sock", "retry"} /\ opener'.sock = w /\ opener'.at = "starting"
        /\ DOMAIN sock' = Sockets /\ sock'[w] = "open" /\ \A v \in Sockets \ {w} : sock'[v] = sock[v]
    BY <1>0, <1>2 DEF SocketInv
  <2>2. w # pool.idle /\ w # 0 /\ \A t \in Turns : ~turn[t].closed => turn[t].sock # w
    BY <1>0, <1>2 DEF SocketInv, Sockets
  <2>3. \A v \in Sockets : sock'[v] = "open" <=> \/ pool.idle = v \/ opener'.sock = v
                                               \/ \E t \in Turns : turn[t].sock = v /\ ~turn[t].closed
    BY <1>0, <1>2, <2>1 DEF SocketInv, Sockets
  <2> QED BY <1>0, <1>2, <2>1, <2>2, <2>3 DEF SocketInv, Sockets
<1>3. CASE opener.at = "connecting" /\ Unlock /\ UNCHANGED <<sock, pool>>
  BY <1>0, <1>3 DEF Unlock, SocketInv
<1>4. CASE PoolCloses
  BY <1>0, <1>4 DEF PoolCloses, SocketInv
<1> QED BY <1>1, <1>2, <1>3, <1>4 DEF Connect

\* A websocket that the opener gives up.
LEMMA OpenerCloses ==
  ASSUME SocketInv, UNCHANGED <<pool, turn>>, opener.at = "starting", sock' = Close(opener.sock),
         DOMAIN opener' = {"at", "sock", "retry"}, opener'.sock = 0, opener'.at \in {"free", "connecting"}
  PROVE  SocketInv'
<1>1. opener.sock \in Sockets
  BY DEF SocketInv, Sockets
<1>2. /\ DOMAIN sock' = Sockets /\ sock'[opener.sock] = "closed"
      /\ \A w \in Sockets \ {opener.sock} : sock'[w] = sock[w]
  BY <1>1 DEF Close, SocketInv
<1>3. pool.idle # opener.sock /\ \A t \in Turns : ~turn[t].closed => turn[t].sock # opener.sock
  BY <1>1 DEF SocketInv, Sockets
<1>4. \A w \in Sockets : sock'[w] = "open" <=> \/ pool.idle = w \/ opener'.sock = w
                                               \/ \E t \in Turns : turn[t].sock = w /\ ~turn[t].closed
  BY <1>1, <1>2, <1>3 DEF SocketInv, Sockets
<1>5. pool'.closed = FALSE /\ pool.closed = FALSE /\ opener'.at \notin {"closing", "over", "starting"}
  BY DEF SocketInv
<1>6. \A t \in Turns : turn'[t].sock # 0 /\ ~turn'[t].closed =>
          /\ turn'[t].sock # pool'.idle /\ turn'[t].sock # opener'.sock
          /\ \A u \in Turns \ {t} : ~turn'[u].closed => turn'[u].sock # turn'[t].sock
  BY DEF SocketInv
<1>7. DOMAIN pool' = {"closed", "idle"} /\ pool'.idle = pool.idle /\ pool'.idle \in 0..MaxSockets
  BY DEF SocketInv
<1> QED BY <1>2, <1>4, <1>5, <1>6, <1>7, SpeechAssumption DEF SocketInv

LEMMA StartTaskStep == ASSUME SpeechInv, StartTask PROVE SpeechInv'
<1>1. /\ opener.at = "starting" /\ UNCHANGED pool /\ SocketInv /\ DOMAIN turn = Turns
      /\ \A t \in Turns : TurnSound(turn[t])
  BY DEF StartTask, SpeechInv
<1>2. ASSUME NEW t \in Turns, ~Opened(t), Unlock, UNCHANGED sock,
             turn' = [turn EXCEPT ![t].sock = opener.sock, ![t].listens = "recv"]
      PROVE  SpeechInv'
  <2> DEFINE g == [turn[t] EXCEPT !.sock = opener.sock, !.listens = "recv"]
  <2>1. turn' = [turn EXCEPT ![t] = g]
    BY <1>1, <1>2
  <2>2. /\ DOMAIN g = TurnFields /\ g.sock = opener.sock /\ g.closed = turn[t].closed /\ g.listens = "recv"
        /\ g.last = turn[t].last /\ g.queue = turn[t].queue /\ g.slots = turn[t].slots
        /\ g.reads = turn[t].reads /\ g.cancels = turn[t].cancels
    BY <1>1 DEF TurnSound, TurnFields
  <2> HIDE DEF g
  <2>3. turn[t].closed = FALSE /\ opener.sock \in Sockets /\ \A c \in Cancellers : turn[t].cancels[c] = "no"
    BY <1>1, <1>2 DEF TurnSound, SocketInv, Sockets, Opened
  <2>4. TurnSound(g)
    BY <1>1, <2>2, <2>3 DEF TurnSound, Sockets
  <2>5. turn'[t] = g /\ \A u \in Turns \ {t} : turn'[u] = turn[u]
    BY <1>1, <2>1, OneTurn
  <2>6. DOMAIN opener' = {"at", "sock", "retry"} /\ opener'.at = "free" /\ opener'.sock = 0
    BY <1>2 DEF Unlock
  <2>7. \A w \in Sockets : (\E u \in Turns : turn'[u].sock = w /\ ~turn'[u].closed)
           <=> w = opener.sock \/ \E u \in Turns : turn[u].sock = w /\ ~turn[u].closed
    <3>1. turn[t].sock = 0 /\ turn'[t].sock = opener.sock /\ turn'[t].closed = FALSE
      BY <1>2, <2>2, <2>3, <2>5 DEF Opened
    <3> QED BY <2>5, <3>1 DEF Sockets
  <2>8. \A w \in Sockets : sock'[w] = "open" <=> \/ pool'.idle = w \/ opener'.sock = w
                                               \/ \E u \in Turns : turn'[u].sock = w /\ ~turn'[u].closed
    BY <1>1, <1>2, <2>6, <2>7 DEF SocketInv, Sockets
  <2>9. \A u \in Turns : turn'[u].sock # 0 /\ ~turn'[u].closed =>
          /\ turn'[u].sock # pool'.idle /\ turn'[u].sock # opener'.sock
          /\ \A v \in Turns \ {u} : ~turn'[v].closed => turn'[v].sock # turn'[u].sock
    BY <1>1, <2>2, <2>3, <2>5, <2>6 DEF SocketInv, Sockets
  <2>10. SocketInv'
    <3>1. ~pool'.closed /\ pool' = pool /\ sock' = sock /\ opener' = [at |-> "free", sock |-> 0, retry |-> FALSE]
      BY <1>1, <1>2 DEF SocketInv, Unlock
    <3>2. /\ DOMAIN pool' = {"closed", "idle"} /\ DOMAIN sock' = Sockets
          /\ pool'.closed \in BOOLEAN /\ pool'.idle \in 0..MaxSockets
      BY <1>1, <3>1 DEF SocketInv
    <3> QED BY <2>6, <2>8, <2>9, <3>1, <3>2, SpeechAssumption DEF SocketInv
  <2> QED BY <2>1, <2>4, <2>10, TurnStep
<1>3. CASE /\ sock' = Close(opener.sock) /\ UNCHANGED turn
           /\ opener' = [at |-> "connecting", sock |-> 0, retry |-> FALSE]
  <2>1. SocketInv'
    BY <1>1, <1>3, OpenerCloses
  <2> QED BY <1>1, <1>3, <2>1 DEF SpeechInv
<1>4. CASE sock' = Close(opener.sock) /\ Unlock /\ UNCHANGED turn
  <2>1. SocketInv'
    BY <1>1, <1>4, OpenerCloses DEF Unlock
  <2> QED BY <1>1, <1>4, <2>1 DEF SpeechInv
<1> QED BY <1>2, <1>3, <1>4 DEF StartTask

LEMMA ClosePoolStep == ASSUME SpeechInv, ClosePool PROVE SpeechInv'
<1>1. /\ opener.at = "free" /\ ~pool.closed /\ pool' = [closed |-> TRUE, idle |-> 0]
      /\ sock' = (IF pool.idle = 0 THEN sock ELSE Close(pool.idle))
      /\ opener' = [opener EXCEPT !.at = "closing"]
      /\ turn' = [t \in Turns |-> IF t \in OpenTurns
                                  THEN [turn[t] EXCEPT !.cancels["pool"] = "telling"] ELSE turn[t]]
      /\ SocketInv /\ DOMAIN turn = Turns /\ \A t \in Turns : TurnSound(turn[t])
  BY DEF ClosePool, SpeechInv
<1>2. ASSUME NEW t \in Turns
      PROVE  /\ TurnSound(turn'[t]) /\ turn'[t].sock = turn[t].sock /\ turn'[t].closed = turn[t].closed
             /\ t \in OpenTurns => turn'[t].cancels["pool"] = "telling"
  <2>1. CASE t \in OpenTurns
    <3>1. turn'[t] = [turn[t] EXCEPT !.cancels["pool"] = "telling"]
      BY <1>1, <2>1
    <3>2. /\ DOMAIN turn'[t] = TurnFields /\ turn'[t].sock = turn[t].sock /\ turn'[t].closed = turn[t].closed
          /\ turn'[t].listens = turn[t].listens /\ turn'[t].last = turn[t].last
          /\ turn'[t].queue = turn[t].queue /\ turn'[t].slots = turn[t].slots
          /\ turn'[t].reads = turn[t].reads
          /\ turn'[t].cancels = [turn[t].cancels EXCEPT !["pool"] = "telling"]
      BY <1>1, <3>1 DEF TurnSound, TurnFields
    <3>3. DOMAIN turn'[t].cancels = Cancellers /\ turn'[t].cancels["pool"] = "telling"
          /\ turn'[t].cancels["user"] = turn[t].cancels["user"]
      BY <1>1, <3>2 DEF TurnSound, Cancellers
    <3>4. TurnSound(turn[t]) /\ ~turn[t].closed /\ turn[t].sock # 0
      BY <1>1, <2>1 DEF OpenTurns, Opened
    <3>5. turn[t].listens # "done" /\ \A c \in Cancellers : turn'[t].cancels[c] # "draining"
      BY <3>3, <3>4 DEF TurnSound, Cancellers
    <3> HIDE <1>1
    <3>6. TurnSound(turn'[t])
      BY <3>2, <3>3, <3>4, <3>5 DEF TurnSound
    <3> QED BY <3>2, <3>3, <3>6
  <2>2. CASE t \notin OpenTurns
    BY <1>1, <2>2
  <2> QED BY <2>1, <2>2
<1>3. /\ DOMAIN pool' = {"closed", "idle"} /\ pool'.idle = 0 /\ pool'.closed = TRUE
      /\ DOMAIN opener' = {"at", "sock", "retry"} /\ opener'.at = "closing" /\ opener'.sock = opener.sock
      /\ opener.sock = 0 /\ DOMAIN turn' = Turns
  BY <1>1 DEF SocketInv
<1>4. /\ DOMAIN sock' = Sockets
      /\ pool.idle # 0 => sock'[pool.idle] = "closed"
      /\ \A w \in Sockets \ {pool.idle} : sock'[w] = sock[w]
  BY <1>1 DEF SocketInv, Close, Sockets
<1>5. \A w \in Sockets : sock'[w] = "open" <=> \/ pool'.idle = w \/ opener'.sock = w
                                               \/ \E t \in Turns : turn'[t].sock = w /\ ~turn'[t].closed
  <2>1. \A w \in Sockets : (\E t \in Turns : turn'[t].sock = w /\ ~turn'[t].closed)
                             <=> (\E t \in Turns : turn[t].sock = w /\ ~turn[t].closed)
    BY <1>2
  <2>2. \A w \in Sockets : w = pool.idle => ~\E t \in Turns : turn[t].sock = w /\ ~turn[t].closed
    BY <1>1 DEF SocketInv, Sockets
  <2>3. ASSUME NEW w \in Sockets, w = pool.idle PROVE sock'[w] # "open"
    BY <1>4, <2>3 DEF Sockets
  <2>4. ASSUME NEW w \in Sockets, w # pool.idle PROVE sock'[w] = sock[w]
    BY <1>4, <2>4
  <2>5. \A w \in Sockets : w # opener.sock /\ w # pool'.idle
    BY <1>3 DEF Sockets
  <2>6. \A w \in Sockets : sock[w] = "open" <=> \/ pool.idle = w \/ opener.sock = w
                                               \/ \E t \in Turns : turn[t].sock = w /\ ~turn[t].closed
    BY <1>1 DEF SocketInv
  <2> QED BY <1>3, <2>1, <2>2, <2>3, <2>4, <2>5, <2>6
<1>6. \A t \in Turns : turn'[t].sock # 0 /\ ~turn'[t].closed => turn'[t].cancels["pool"] = "telling"
  BY <1>2 DEF OpenTurns, Opened
<1>7. \A t \in Turns : turn'[t].sock # 0 /\ ~turn'[t].closed =>
          /\ turn'[t].sock # pool'.idle /\ turn'[t].sock # opener'.sock
          /\ \A u \in Turns \ {t} : ~turn'[u].closed => turn'[u].sock # turn'[t].sock
  BY <1>1, <1>2, <1>3 DEF SocketInv
<1>8. SocketInv'
  <2>1. 0 \in 0..MaxSockets
    BY SpeechAssumption
  <2>2. /\ pool'.closed \in BOOLEAN /\ pool'.idle \in 0..MaxSockets /\ opener'.sock \in 0..MaxSockets
        /\ (opener'.sock # 0 <=> opener'.at = "starting")
        /\ (pool'.closed <=> opener'.at \in {"closing", "over"})
    BY <1>3, <2>1
  <2> QED BY <1>3, <1>4, <1>5, <1>6, <1>7, <2>2 DEF SocketInv
<1> QED BY <1>2, <1>3, <1>8 DEF SpeechInv

LEMMA SpeechStep == SpeechInv /\ [SpeechNext]_speechVars => SpeechInv'
<1> SUFFICES ASSUME SpeechInv, [SpeechNext]_speechVars PROVE SpeechInv'
  OBVIOUS
<1>1. CASE TakeIdle \/ Connect \/ PoolCloses
  BY <1>1, FactoryStep
<1>2. CASE StartTask
  BY <1>2, StartTaskStep
<1>3. CASE ClosePool
  BY <1>3, ClosePoolStep
<1>4. ASSUME NEW t \in Turns, TurnNext(t) PROVE SpeechInv'
  BY <1>4, ListenStep, ListenerEndsStep, SendFailsStep, CancelIsMarked, ReadStep, CancelStepStep
     DEF TurnNext
<1>5. CASE UNCHANGED speechVars
  BY <1>5 DEF speechVars, SpeechInv, SocketInv
<1> QED BY <1>1, <1>2, <1>3, <1>4, <1>5 DEF SpeechNext

LEMMA SpeechStarts == SpeechInit => SpeechInv
<1> SUFFICES ASSUME SpeechInit PROVE SpeechInv
  OBVIOUS
<1>1. DOMAIN turn = Turns /\ \A t \in Turns : turn[t] = NewTurn
  BY DEF SpeechInit
<1>2. /\ DOMAIN NewTurn = TurnFields /\ NewTurn.sock = 0 /\ NewTurn.closed = FALSE /\ NewTurn.listens = "none"
      /\ NewTurn.queue = <<>> /\ NewTurn.slots = AudioSize
      /\ NewTurn.cancels = [c \in Cancellers |-> "no"]
  BY DEF NewTurn, TurnFields
<1>3. <<>> \in Seq(Items) /\ Len(<<>>) = 0
  OBVIOUS
<1>4. TurnSound(NewTurn)
  <2>1. DOMAIN NewTurn.cancels = Cancellers /\ \A c \in Cancellers : NewTurn.cancels[c] = "no"
    BY <1>2
  <2>2. Pcm(NewTurn.queue) + NewTurn.slots = AudioSize /\ Len(NewTurn.queue) <= AudioSize + 1
        /\ NewTurn.slots \in Nat /\ ~HasEnd(NewTurn.queue) /\ NewTurn.queue \in Seq(Items)
    BY <1>2, <1>3, PcmShort, SpeechAssumption
  <2>3. NewTurn.sock \in 0..MaxSockets /\ NewTurn.closed \in BOOLEAN /\ ~NewTurn.closed
    <3>1. 0 \in 0..MaxSockets
      BY SpeechAssumption
    <3> QED BY <1>2, <3>1
  <2> QED BY <1>2, <2>1, <2>2, <2>3 DEF TurnSound
<1>5. \A t \in Turns : turn[t].sock = 0 /\ turn[t].closed = FALSE
  BY <1>1, <1>2
<1>6. SocketInv
  BY <1>5, SpeechAssumption DEF SpeechInit, SocketInv, Sockets
<1> QED BY <1>1, <1>4, <1>6 DEF SpeechInv

LEMMA SpeechImplies == SpeechInv => SocketsHaveOneOwner /\ ReaderIsTold
<1> SUFFICES ASSUME SpeechInv PROVE SocketsHaveOneOwner /\ ReaderIsTold
  OBVIOUS
<1>1. SocketInv /\ \A t \in Turns : TurnSound(turn[t])
  BY DEF SpeechInv
<1>2. ReaderIsTold
  BY <1>1 DEF ReaderIsTold, TurnSound, Ended, Opened, HasEnd
<1>3. ASSUME NEW w \in Sockets
      PROVE  /\ sock[w] = "open" <=> w \in {pool.idle, opener.sock} \cup {turn[t].sock : t \in OpenTurns}
             /\ opener.at = "over" => sock[w] # "open"
             /\ Cardinality({t \in OpenTurns : turn[t].sock = w})
                   + (IF pool.idle = w THEN 1 ELSE 0) + (IF opener.sock = w THEN 1 ELSE 0) <= 1
  <2> DEFINE mine == {t \in OpenTurns : turn[t].sock = w}
  <2>1. w # 0 /\ mine = {t \in Turns : turn[t].sock = w /\ ~turn[t].closed}
    BY DEF Sockets, OpenTurns, Opened
  <2>2. (\E t \in Turns : turn[t].sock = w /\ ~turn[t].closed) <=> w \in {turn[t].sock : t \in OpenTurns}
    BY <2>1 DEF OpenTurns, Opened
  <2>3. sock[w] = "open" <=> w \in {pool.idle, opener.sock} \cup {turn[t].sock : t \in OpenTurns}
    BY <1>1, <2>2 DEF SocketInv
  <2>4. opener.at = "over" => sock[w] # "open"
    BY <1>1, <2>1 DEF SocketInv
  <2>5. CASE mine = {}
    <3>1. Cardinality(mine) = 0
      BY <2>5, FS_EmptySet
    <3>2. pool.idle = w => opener.sock # w
      BY <1>1, <2>1 DEF SocketInv
    <3>3. (IF pool.idle = w THEN 1 ELSE 0) + (IF opener.sock = w THEN 1 ELSE 0) \in {0, 1}
      BY <3>2
    <3>4. Cardinality(mine) + (IF pool.idle = w THEN 1 ELSE 0) + (IF opener.sock = w THEN 1 ELSE 0) <= 1
      <4> HIDE DEF mine
      <4> QED BY <3>1, <3>3
    <3> QED BY <2>3, <2>4, <3>4
  <2>6. ASSUME NEW t \in mine PROVE Cardinality(mine) = 1 /\ pool.idle # w /\ opener.sock # w
    <3>1. mine = {t} /\ pool.idle # w /\ opener.sock # w
      BY <1>1, <2>1, <2>6 DEF SocketInv
    <3>2. Cardinality({t}) = 1
      BY FS_Singleton
    <3> QED BY <3>1, <3>2
  <2>7. CASE mine # {}
    <3>1. Cardinality(mine) = 1 /\ pool.idle # w /\ opener.sock # w
      BY <2>6, <2>7
    <3>2. Cardinality(mine) + (IF pool.idle = w THEN 1 ELSE 0) + (IF opener.sock = w THEN 1 ELSE 0) <= 1
      <4> HIDE DEF mine
      <4> QED BY <3>1
    <3> QED BY <2>3, <2>4, <3>2
  <2> QED BY <2>5, <2>7
<1> QED BY <1>2, <1>3 DEF SocketsHaveOneOwner

-----------------------------------------------------------------------------
(* Bailian's recognition.                                                  *)

HeardFields == {"sock", "listens", "result", "finished", "cleanup"}

\* The utterance the client holds is the last one it started; one that it no longer holds is
\* let go of, or its cleanup task's; later ones are untouched.
AsrInv ==
    /\ DOMAIN asr = {"at", "cur", "stable", "started", "closed"}
    /\ DOMAIN heard = Utterances /\ \A u \in Utterances : DOMAIN heard[u] = HeardFields
    /\ asr.at \in {"idle", "connecting", "setup", "active", "finishing"}
    /\ asr.started \in 0..MaxUtterances /\ asr.closed \in BOOLEAN
    /\ asr.at # "idle" => asr.started \in Utterances /\ ~asr.closed
    /\ asr.cur = IF asr.at \in {"idle", "connecting"} THEN 0 ELSE asr.started
    /\ \A u \in Utterances :
          /\ heard[u].sock = "open" \/ heard[u].listens = "recv" =>
                asr.cur = u \/ heard[u].cleanup = "waits"
          /\ heard[u].cleanup # "no" => asr.cur # u /\ u <= asr.started
          /\ asr.at = "connecting" /\ u = asr.started => heard[u].cleanup = "no"
          /\ asr.closed => heard[u].sock # "open" /\ heard[u].listens # "recv" /\ heard[u].cleanup # "waits"

LEMMA AsrStarts == AsrInit => AsrInv
BY RecognitionAssumption DEF AsrInit, AsrInv, NewUtterance, HeardFields, Utterances

LEMMA AsrImplies == AsrInv => UtterancesAreHeld
BY DEF AsrInv, UtterancesAreHeld

\* What the client lets go of is neither open nor heard.
LEMMA DisposedIsGone ==
  ASSUME AsrInv, NEW v \in Utterances, NEW h, h = Disposed(v)
  PROVE  /\ DOMAIN h = Utterances /\ \A u \in Utterances : DOMAIN h[u] = HeardFields
         /\ h[v].sock # "open" /\ h[v].listens # "recv"
         /\ \A u \in Utterances : h[u].cleanup = heard[u].cleanup
         /\ \A u \in Utterances \ {v} : h[u] = heard[u]
<1>1. h = [heard EXCEPT ![v].sock = IF @ = "open" THEN "closed" ELSE @,
             ![v].listens = IF @ = "no" THEN @ ELSE "done", ![v].finished = TRUE,
             ![v].result = IF @ = "pending" THEN "cancelled" ELSE @]
  BY DEF Disposed, Utterances
<1> QED BY <1>1 DEF AsrInv, HeardFields

LEMMA DisposeStep ==
  ASSUME AsrInv, asr.at # "idle", Dispose("idle") PROVE AsrInv'
<1>1. asr' = [asr EXCEPT !.at = "idle", !.cur = 0] /\ heard' = Disposed(asr.cur)
  BY DEF Dispose
<1>2. /\ DOMAIN asr' = DOMAIN asr /\ asr'.at = "idle" /\ asr'.cur = 0 /\ asr'.started = asr.started
      /\ asr'.closed = asr.closed
  BY <1>1 DEF AsrInv
<1>3. CASE asr.cur = 0
  <2>1. heard' = heard
    BY <1>1, <1>3 DEF Disposed
  <2> QED BY <1>2, <1>3, <2>1 DEF AsrInv, Utterances
<1>4. CASE asr.cur # 0
  <2>1. asr.cur \in Utterances
    BY <1>4 DEF AsrInv
  <2>2. /\ DOMAIN heard' = Utterances /\ \A u \in Utterances : DOMAIN heard'[u] = HeardFields
        /\ heard'[asr.cur].sock # "open" /\ heard'[asr.cur].listens # "recv"
        /\ \A u \in Utterances : heard'[u].cleanup = heard[u].cleanup
        /\ \A u \in Utterances \ {asr.cur} : heard'[u] = heard[u]
    BY <1>1, <2>1, DisposedIsGone
  <2> QED BY <1>2, <2>1, <2>2 DEF AsrInv, Utterances
<1> QED BY <1>3, <1>4

LEMMA AsrStep == AsrInv /\ [AsrNext]_asrVars => AsrInv'
<1> SUFFICES ASSUME AsrInv, [AsrNext]_asrVars PROVE AsrInv'
  OBVIOUS
<1> USE RecognitionAssumption DEF AsrInv, HeardFields, Utterances
<1>1. CASE StartUtterance
  BY <1>1 DEF StartUtterance
<1>2. CASE SetUp
  <2>1. CASE /\ asr.at = "connecting"
             /\ heard' = [heard EXCEPT ![asr.started].sock = "open"]
             /\ asr' = [asr EXCEPT !.at = "setup", !.cur = asr.started]
    BY <2>1
  <2>2. CASE /\ asr.at = "setup"
             /\ heard' = [heard EXCEPT ![asr.cur].listens = "recv", ![asr.cur].result = "pending"]
             /\ asr' = [asr EXCEPT !.at = "active", !.stable = 0]
    BY <2>2
  <2>3. CASE asr.at \in {"connecting", "setup"} /\ Dispose("idle")
    BY <2>3, DisposeStep
  <2> QED BY <1>2, <2>1, <2>2, <2>3 DEF SetUp
<1>3. CASE Fails
  BY <1>3, DisposeStep DEF Fails
<1>4. CASE Finish
  BY <1>4 DEF Finish
<1>5. CASE Finishes
  BY <1>5 DEF Finishes
<1>6. CASE CloseRecognition
  <2>1. asr.cur = 0 /\ asr.at = "idle" /\ asr' = [asr EXCEPT !.closed = TRUE, !.cur = 0]
    BY <1>6 DEF CloseRecognition
  <2>2. heard' = [u \in Utterances |->
                    IF heard[u].cleanup = "waits"
                    THEN [heard[u] EXCEPT !.cleanup = "done", !.listens = "done", !.sock = "closed"]
                    ELSE heard[u]]
    BY <1>6, <2>1 DEF CloseRecognition, Disposed
  <2>3. ASSUME NEW u \in Utterances
        PROVE  /\ DOMAIN heard'[u] = HeardFields
               /\ heard'[u].sock # "open" /\ heard'[u].listens # "recv" /\ heard'[u].cleanup # "waits"
               /\ heard'[u].cleanup # "no" => heard[u].cleanup # "no"
    <3>1. CASE heard[u].cleanup = "waits"
      <4>1. heard'[u] = [heard[u] EXCEPT !.cleanup = "done", !.listens = "done", !.sock = "closed"]
        BY <2>2, <3>1
      <4> QED BY <3>1, <4>1
    <3>2. CASE heard[u].cleanup # "waits"
      <4>1. heard'[u] = heard[u]
        BY <2>2, <3>2
      <4> QED BY <2>1, <3>2, <4>1
    <3> QED BY <3>1, <3>2
  <2>4. /\ DOMAIN asr' = DOMAIN asr /\ asr'.at = "idle" /\ asr'.cur = 0 /\ asr'.started = asr.started
        /\ asr'.closed = TRUE
    BY <2>1
  <2>5. DOMAIN heard' = Utterances
    BY <2>2
  <2>6. \A u \in Utterances : heard[u].cleanup # "no" => u <= asr.started /\ u # 0
    BY DEF AsrInv
  <2>7. asr.started \in 0..MaxUtterances
    BY DEF AsrInv
  <2>8. \A u \in Utterances :
           /\ heard'[u].cleanup # "no" => u # 0 /\ u <= asr'.started
           /\ heard'[u].sock # "open" /\ heard'[u].listens # "recv" /\ heard'[u].cleanup # "waits"
           /\ DOMAIN heard'[u] = HeardFields
    BY <2>3, <2>4, <2>6
  <2>9. DOMAIN asr' = {"at", "cur", "stable", "started", "closed"}
    BY <2>4
  <2> HIDE DEF Utterances, HeardFields
  <2> QED BY <2>4, <2>5, <2>7, <2>8, <2>9 DEF AsrInv
<1>7. ASSUME NEW u \in Utterances, HearPartial(u) PROVE AsrInv'
  BY <1>7 DEF HearPartial
<1>8. ASSUME NEW u \in Utterances, Hear(u) PROVE AsrInv'
  <2>0. UNCHANGED asr /\ heard[u].listens = "recv"
    BY <1>8 DEF Hear
  <2>1. ASSUME NEW value, NEW h, h = Resolve(u, value)
        PROVE  /\ DOMAIN h = Utterances /\ \A v \in Utterances : DOMAIN h[v] = HeardFields
               /\ \A v \in Utterances : /\ h[v].sock = heard[v].sock /\ h[v].listens = heard[v].listens
                                        /\ h[v].cleanup = heard[v].cleanup
    <3>1. CASE heard[u].result = "pending"
      <4>1. h = [heard EXCEPT ![u].result = value]
        BY <2>1, <3>1 DEF Resolve
      <4> QED BY <4>1
    <3>2. CASE heard[u].result # "pending"
      BY <2>1, <3>2 DEF Resolve
    <3> QED BY <3>1, <3>2
  <2>2. CASE heard' = Resolve(u, "text")
    <3>1. /\ DOMAIN heard' = Utterances /\ \A v \in Utterances : DOMAIN heard'[v] = HeardFields
          /\ \A v \in Utterances : /\ heard'[v].sock = heard[v].sock /\ heard'[v].listens = heard[v].listens
                                   /\ heard'[v].cleanup = heard[v].cleanup
      BY <2>1, <2>2
    <3> QED BY <2>0, <3>1
  <2>3. ASSUME NEW value, heard' = [Resolve(u, value) EXCEPT ![u].finished = TRUE, ![u].listens = "done"]
        PROVE  AsrInv'
    <3> DEFINE h == Resolve(u, value)
    <3>1. /\ DOMAIN h = Utterances /\ \A v \in Utterances : DOMAIN h[v] = HeardFields
          /\ \A v \in Utterances : /\ h[v].sock = heard[v].sock /\ h[v].listens = heard[v].listens
                                   /\ h[v].cleanup = heard[v].cleanup
      BY <2>1
    <3>2. heard' = [h EXCEPT ![u].finished = TRUE, ![u].listens = "done"]
      BY <2>3
    <3> HIDE DEF h
    <3> QED BY <2>0, <3>1, <3>2
  <2> QED BY <1>8, <2>2, <2>3 DEF Hear
<1>9. ASSUME NEW u \in Utterances, CleanUp(u) PROVE AsrInv'
  BY <1>9 DEF CleanUp
<1>10. CASE UNCHANGED asrVars
  BY <1>10 DEF asrVars
<1> QED
  BY <1>1, <1>2, <1>3, <1>4, <1>5, <1>6, <1>7, <1>8, <1>9, <1>10 DEF AsrNext

-----------------------------------------------------------------------------
(* The client of the worker of cloned voices.                              *)

ReplyFields == {"at", "kept", "closed", "finished", "sock", "by"}

\* One stream x, while close() is at cl: its websocket is open while it starts, fails or
\* speaks, it is kept while it speaks over an open one, one closer at most closes it, and
\* the client's cancel() leaves no stream that nobody has begun to close.
Ahead == {"none", "connecting", "starting", "failing", "over"}
Held(x, cl) ==
    /\ DOMAIN x = ReplyFields /\ DOMAIN x.by = ReplyClosers
    /\ x.at \in Ahead \cup {"speaking"}
    /\ x.kept \in BOOLEAN /\ x.closed \in BOOLEAN
    /\ x.kept <=> x.at = "speaking" /\ x.sock = "open"
    /\ x.sock = "open" => x.at \in {"starting", "failing", "speaking"}
    /\ x.at = "starting" => x.sock = "open"
    /\ x.at \in Ahead => ~x.closed /\ \A c \in ReplyClosers : x.by[c] = "none"
    /\ x.at = "speaking" /\ ~x.closed => x.sock = "open"
    /\ \A c \in ReplyClosers : x.by[c] = "closing" => x.closed /\ x.sock = "open"
    /\ \A c, d \in ReplyClosers : x.by[c] = "closing" /\ x.by[d] = "closing" => c = d
    /\ x.closed /\ x.sock = "open" => \E c \in ReplyClosers : x.by[c] = "closing"
    /\ cl = "open" => x.by["client"] = "none"
    /\ x.by["client"] = "done" /\ cl # "cut" => x.closed

LocalInv == DOMAIN reply = Replies /\ \A r \in Replies : Held(reply[r], client)

LEMMA LocalStarts == LocalInit => LocalInv
<1> SUFFICES ASSUME LocalInit PROVE LocalInv
  OBVIOUS
<1>1. Held(NewReply, "open")
  BY DEF Held, Ahead, NewReply, ReplyFields, ReplyClosers
<1>2. ASSUME NEW r \in Replies PROVE reply[r] = NewReply
  BY DEF LocalInit
<1> QED BY <1>1, <1>2 DEF LocalInit, LocalInv

\* A step of one stream disturbs no other.
LEMMA OneReply ==
  ASSUME LocalInv, UNCHANGED client, NEW r \in Replies, NEW x, Held(x, client),
         reply' = [reply EXCEPT ![r] = x]
  PROVE  LocalInv'
BY DEF LocalInv

\* Another place of a closer that closes nothing, before and after.
LEMMA Moved ==
  ASSUME NEW x, NEW cl, Held(x, cl), NEW c \in ReplyClosers, NEW y,
         x.at = "speaking", x.by[c] # "closing", y \in {"sending", "done"},
         c = "client" => cl # "open",
         y = "done" => x.closed \/ c # "client" \/ cl = "cut"
  PROVE  Held([x EXCEPT !.by[c] = y], cl)
<1> DEFINE z == [x EXCEPT !.by[c] = y]
<1>1. DOMAIN z = ReplyFields /\ DOMAIN z.by = ReplyClosers /\ z.by[c] = y
  BY DEF Held, ReplyFields
<1>2. z.at = x.at /\ z.kept = x.kept /\ z.closed = x.closed /\ z.sock = x.sock
  BY DEF Held, ReplyFields
<1>3. \A d \in ReplyClosers : d # c => z.by[d] = x.by[d]
  BY DEF Held, ReplyFields
<1>4. \A d \in ReplyClosers : z.by[d] = "closing" <=> x.by[d] = "closing"
  BY <1>1, <1>3
<1>5. "client" \in ReplyClosers
  BY DEF ReplyClosers
<1> HIDE DEF z
<1>6. /\ cl = "open" => z.by["client"] = "none"
      /\ z.by["client"] = "done" /\ cl # "cut" => z.closed
  BY <1>1, <1>2, <1>3, <1>5 DEF Held
<1>7. Held(z, cl)
  BY <1>1, <1>2, <1>4, <1>6 DEF Held, Ahead
<1> QED BY <1>7 DEF z

\* A stream that is not closed yet gets the one closer that closes it.
LEMMA Taken ==
  ASSUME NEW x, NEW cl, Held(x, cl), NEW c \in ReplyClosers, x.at = "speaking", ~x.closed,
         c = "client" => cl # "open"
  PROVE  Held([x EXCEPT !.by[c] = "closing", !.closed = TRUE], cl)
<1> DEFINE z == [x EXCEPT !.by[c] = "closing", !.closed = TRUE]
<1>1. DOMAIN z = ReplyFields /\ DOMAIN z.by = ReplyClosers /\ z.by[c] = "closing"
  BY DEF Held, ReplyFields
<1>2. z.at = x.at /\ z.kept = x.kept /\ z.closed = TRUE /\ z.sock = x.sock
  BY DEF Held, ReplyFields
<1>3. \A d \in ReplyClosers : d # c => z.by[d] = x.by[d]
  BY DEF Held, ReplyFields
<1>4. \A d \in ReplyClosers : z.by[d] = "closing" => d = c
  BY <1>3 DEF Held
<1>5. "client" \in ReplyClosers
  BY DEF ReplyClosers
<1>6. x.sock = "open"
  BY DEF Held
<1> HIDE DEF z
<1>7. /\ cl = "open" => z.by["client"] = "none"
      /\ z.by["client"] = "done" /\ cl # "cut" => z.closed
  BY <1>1, <1>2, <1>3, <1>5 DEF Held
<1>8. \A d, e \in ReplyClosers : z.by[d] = "closing" /\ z.by[e] = "closing" => d = e
  BY <1>4
<1>9. Held(z, cl)
  BY <1>1, <1>2, <1>6, <1>7, <1>8 DEF Held, Ahead
<1> QED BY <1>9 DEF z

\* The closer that closes a stream is through, and nothing is open or kept.
LEMMA Left ==
  ASSUME NEW x, NEW cl, Held(x, cl), NEW c \in ReplyClosers, x.by[c] = "closing",
         NEW end \in {"closed", "cut"}
  PROVE  Held([x EXCEPT !.by[c] = "done", !.sock = end, !.kept = FALSE], cl)
<1> DEFINE z == [x EXCEPT !.by[c] = "done", !.sock = end, !.kept = FALSE]
<1>1. DOMAIN z = ReplyFields /\ DOMAIN z.by = ReplyClosers /\ z.by[c] = "done"
  BY DEF Held, ReplyFields
<1>2. z.at = x.at /\ z.kept = FALSE /\ z.closed = x.closed /\ z.sock = end
  BY DEF Held, ReplyFields
<1>3. \A d \in ReplyClosers : d # c => z.by[d] = x.by[d]
  BY DEF Held, ReplyFields
<1>4. x.closed /\ x.at = "speaking" /\ end # "open"
  BY DEF Held, Ahead
<1>5. \A d \in ReplyClosers : z.by[d] # "closing"
  BY <1>1, <1>3 DEF Held
<1>6. "client" \in ReplyClosers
  BY DEF ReplyClosers
<1> HIDE DEF z
<1>7. cl = "open" => z.by["client"] = "none"
  BY <1>1, <1>3, <1>6 DEF Held
<1>8. Held(z, cl)
  BY <1>1, <1>2, <1>4, <1>5, <1>7 DEF Held, Ahead
<1> QED BY <1>8 DEF z

\* _close, called by one that does not close the stream already.
LEMMA CloseIsHeld ==
  ASSUME LocalInv, UNCHANGED client, NEW r \in Replies, NEW c \in ReplyClosers, ReplyCloses(r, c),
         reply[r].at = "speaking", reply[r].by[c] # "closing", c = "client" => client # "open"
  PROVE  LocalInv'
<1>0. Held(reply[r], client) /\ DOMAIN reply = Replies
  BY DEF LocalInv
<1>1. CASE reply[r].closed
  <2>1. Held([reply[r] EXCEPT !.by[c] = "done"], client)
    BY <1>0, <1>1, Moved
  <2>2. reply' = [reply EXCEPT ![r] = [reply[r] EXCEPT !.by[c] = "done"]]
    BY <1>1 DEF ReplyCloses
  <2> QED BY <2>1, <2>2, OneReply
<1>2. CASE ~reply[r].closed
  <2>1. Held([reply[r] EXCEPT !.by[c] = "closing", !.closed = TRUE], client)
    BY <1>0, <1>2, Taken
  <2>2. reply' = [reply EXCEPT ![r] = [reply[r] EXCEPT !.by[c] = "closing", !.closed = TRUE]]
    BY <1>2 DEF ReplyCloses
  <2> QED BY <2>1, <2>2, OneReply
<1> QED BY <1>1, <1>2

LEMMA LocalStep == LocalInv /\ [LocalNext]_localVars => LocalInv'
<1> SUFFICES ASSUME LocalInv, [LocalNext]_localVars PROVE LocalInv'
  OBVIOUS
<1>0. DOMAIN reply = Replies /\ \A r \in Replies : Held(reply[r], client)
  BY DEF LocalInv
<1>1. ASSUME NEW r \in Replies, OpenReply(r) PROVE LocalInv'
  <2>1. Held([reply[r] EXCEPT !.at = "connecting"], client)
    BY <1>0, <1>1 DEF OpenReply, Held, Ahead, ReplyFields
  <2>2. reply' = [reply EXCEPT ![r] = [reply[r] EXCEPT !.at = "connecting"]]
    BY <1>1 DEF OpenReply
  <2> QED BY <1>1, <2>1, <2>2, OneReply DEF OpenReply
<1>2. ASSUME NEW r \in Replies, Opens(r) PROVE LocalInv'
  <2>0. UNCHANGED client /\ Held(reply[r], client)
    BY <1>0, <1>2 DEF Opens
  <2>1. CASE reply[r].at = "connecting" /\ reply' = [reply EXCEPT ![r].at = "starting", ![r].sock = "open"]
    <3>1. Held([reply[r] EXCEPT !.at = "starting", !.sock = "open"], client)
      BY <2>0, <2>1 DEF Held, Ahead, ReplyFields
    <3> QED BY <2>0, <2>1, <3>1, OneReply
  <2>2. CASE reply[r].at = "connecting" /\ reply' = [reply EXCEPT ![r].at = "over"]
    <3>1. Held([reply[r] EXCEPT !.at = "over"], client)
      BY <2>0, <2>2 DEF Held, Ahead, ReplyFields
    <3> QED BY <2>0, <2>2, <3>1, OneReply
  <2>3. CASE reply[r].at = "starting" /\ reply' = [reply EXCEPT ![r].at = "speaking", ![r].kept = TRUE]
    <3>1. Held([reply[r] EXCEPT !.at = "speaking", !.kept = TRUE], client)
      BY <2>0, <2>3 DEF Held, Ahead, ReplyFields
    <3> QED BY <2>0, <2>3, <3>1, OneReply
  <2>4. CASE reply[r].at = "starting" /\ reply' = [reply EXCEPT ![r].at = "failing"]
    <3>1. Held([reply[r] EXCEPT !.at = "failing"], client)
      BY <2>0, <2>4 DEF Held, Ahead, ReplyFields
    <3> QED BY <2>0, <2>4, <3>1, OneReply
  <2>5. CASE reply[r].at = "failing" /\ reply' = [reply EXCEPT ![r].at = "over", ![r].sock = "closed"]
    <3>1. Held([reply[r] EXCEPT !.at = "over", !.sock = "closed"], client)
      BY <2>0, <2>5 DEF Held, Ahead, ReplyFields
    <3> QED BY <2>0, <2>5, <3>1, OneReply
  <2> QED BY <1>2, <2>1, <2>2, <2>3, <2>4, <2>5 DEF Opens
<1>3. ASSUME NEW r \in Replies, FinishReply(r) PROVE LocalInv'
  <2>1. Held([reply[r] EXCEPT !.finished = TRUE], client)
    BY <1>0 DEF Held, Ahead, ReplyFields
  <2>2. reply' = [reply EXCEPT ![r] = [reply[r] EXCEPT !.finished = TRUE]]
    BY <1>3 DEF FinishReply
  <2> QED BY <1>3, <2>1, <2>2, OneReply DEF FinishReply
<1>4. ASSUME NEW r \in Replies, NEW c \in ReplyClosers, CloserStep(r, c) PROVE LocalInv'
  <2>0. Held(reply[r], client)
    BY <1>0
  <2>1. UNCHANGED client
    BY <1>4 DEF CloserStep, BeginClose, CancelSent, ReplyClosed, CloseCut
  <2>2. reply[r].by[c] # "none" => reply[r].at = "speaking"
    BY <2>0 DEF Held
  <2>3. c = "client" /\ reply[r].by[c] # "none" => client # "open"
    BY <2>0 DEF Held
  <2>4. CASE BeginClose(r, c)
    <3>1. CASE ReplyCloses(r, c)
      BY <2>1, <2>3, <2>4, <3>1, CloseIsHeld DEF BeginClose
    <3>2. CASE reply' = [reply EXCEPT ![r].by[c] = "sending"]
      <4>1. Held([reply[r] EXCEPT !.by[c] = "sending"], client)
        BY <2>0, <2>3, <2>4, Moved DEF BeginClose
      <4> QED BY <2>1, <3>2, <4>1, OneReply
    <3> QED BY <2>4, <3>1, <3>2 DEF BeginClose
  <2>5. CASE CancelSent(r, c)
    BY <2>1, <2>2, <2>3, <2>5, CloseIsHeld DEF CancelSent
  <2>6. CASE ReplyClosed(r, c)
    <3>1. Held([reply[r] EXCEPT !.by[c] = "done", !.sock = "closed", !.kept = FALSE], client)
      BY <2>0, <2>6, Left DEF ReplyClosed
    <3> QED BY <2>1, <2>6, <3>1, OneReply DEF ReplyClosed
  <2>7. CASE CloseCut(r, c)
    <3>1. CASE reply[r].by[c] = "closing"
      <4>1. Held([reply[r] EXCEPT !.by[c] = "done", !.sock = "cut", !.kept = FALSE], client)
        BY <2>0, <3>1, Left
      <4> QED BY <2>1, <2>7, <3>1, <4>1, OneReply DEF CloseCut
    <3>2. CASE reply[r].by[c] # "closing"
      <4>1. Held([reply[r] EXCEPT !.by[c] = "done"], client)
        BY <2>0, <2>2, <2>3, <2>7, <3>2, Moved DEF CloseCut
      <4> QED BY <2>1, <2>7, <3>2, <4>1, OneReply DEF CloseCut
    <3> QED BY <3>1, <3>2
  <2> QED BY <1>4, <2>4, <2>5, <2>6, <2>7 DEF CloserStep
<1>5. CASE CloseLocal
  <2>1. CASE client = "open" /\ client' = "closing"
             /\ reply' = [r \in Replies |->
                             [reply[r] EXCEPT !.by["client"] = IF reply[r].kept THEN "due" ELSE @]]
    <3> SUFFICES ASSUME NEW r \in Replies PROVE Held(reply'[r], client')
      BY <2>1 DEF LocalInv
    <3>1. Held(reply[r], "open")
      BY <1>0, <2>1
    <3>2. reply'[r] = [reply[r] EXCEPT !.by["client"] = IF reply[r].kept THEN "due" ELSE @]
      BY <2>1
    <3>3. /\ DOMAIN reply'[r] = ReplyFields /\ DOMAIN reply'[r].by = ReplyClosers
          /\ reply'[r].by["client"] = IF reply[r].kept THEN "due" ELSE reply[r].by["client"]
      BY <3>1, <3>2 DEF Held, ReplyFields, ReplyClosers
    <3>4. /\ reply'[r].at = reply[r].at /\ reply'[r].kept = reply[r].kept
          /\ reply'[r].closed = reply[r].closed /\ reply'[r].sock = reply[r].sock
      BY <3>1, <3>2 DEF Held, ReplyFields
    <3>5. \A c \in ReplyClosers : c # "client" => reply'[r].by[c] = reply[r].by[c]
      BY <3>1, <3>2 DEF Held, ReplyFields
    <3>6. reply[r].by["client"] = "none"
      BY <3>1 DEF Held
    <3>7. \A c \in ReplyClosers : reply'[r].by[c] = "closing" <=> reply[r].by[c] = "closing"
      BY <3>3, <3>5, <3>6
    <3>8. reply[r].at \in Ahead => \A c \in ReplyClosers : reply'[r].by[c] = "none"
      <4>1. reply[r].at \in Ahead => ~reply[r].kept
        BY <3>1 DEF Held, Ahead
      <4> QED BY <3>1, <3>3, <3>5, <3>6, <4>1 DEF Held
    <3>9. reply'[r].by["client"] # "done" /\ client' # "open"
      BY <2>1, <3>3, <3>6
    <3> QED BY <3>1, <3>3, <3>4, <3>7, <3>8, <3>9 DEF Held
  <2>2. CASE client = "closing" /\ UNCHANGED reply /\ client' \in {"closed", "cut"}
    BY <1>0, <2>2 DEF LocalInv, Held
  <2> QED BY <1>5, <2>1, <2>2 DEF CloseLocal
<1>6. CASE UNCHANGED localVars
  BY <1>0, <1>6 DEF localVars, LocalInv
<1> QED BY <1>1, <1>2, <1>3, <1>4, <1>5, <1>6 DEF LocalNext

LEMMA LocalImplies == LocalInv => RepliesAreKept
<1> SUFFICES ASSUME LocalInv, NEW r \in Replies
             PROVE  /\ reply[r].sock = "open" => reply[r].kept \/ reply[r].at \in {"starting", "failing"}
                    /\ \A c, d \in ReplyClosers :
                          reply[r].by[c] = "closing" /\ reply[r].by[d] = "closing" => c = d
                    /\ client = "closed" /\ reply[r].by["client"] = "done" /\ reply[r].sock = "open" =>
                          \E c \in {"reader", "engine"} : reply[r].by[c] = "closing"
  BY DEF RepliesAreKept
<1>1. Held(reply[r], client)
  BY DEF LocalInv
<1> QED BY <1>1 DEF Held, ReplyClosers

-----------------------------------------------------------------------------
(* The Codex app server.                                                   *)

Entries == [kind : {"sdp", "closed", "note", "eof"}, n : Nat]

\* The numbers of what was read, is kept back and is queued go up along the three, and none
\* is above what was sent.
Chain(read, backlog, queue, sent) ==
    /\ read \in Seq(Nat) /\ backlog \in Seq(Entries) /\ queue \in Seq(Entries) /\ sent \in Nat
    /\ \A i \in DOMAIN backlog : backlog[i].kind # "eof"
    /\ \A i \in DOMAIN read : read[i] <= sent
    /\ \A i \in DOMAIN backlog : backlog[i].n <= sent
    /\ \A i \in DOMAIN queue : queue[i].n <= sent
    /\ \A i, j \in DOMAIN read : i < j => read[i] < read[j]
    /\ \A i, j \in DOMAIN backlog : i < j => backlog[i].n < backlog[j].n
    /\ \A i, j \in DOMAIN queue : i < j /\ queue[i].kind # "eof" /\ queue[j].kind # "eof" => queue[i].n < queue[j].n
    /\ \A i \in DOMAIN read, j \in DOMAIN backlog : read[i] < backlog[j].n
    /\ \A i \in DOMAIN read, j \in DOMAIN queue : queue[j].kind # "eof" => read[i] < queue[j].n
    /\ \A i \in DOMAIN backlog, j \in DOMAIN queue : queue[j].kind # "eof" => backlog[i].n < queue[j].n

Opening == {"new", "starting", "realtime", "sdp"}

\* Who waits has a future that is pending, and nobody does without a process.
Waiting ==
    /\ DOMAIN call = Callers /\ \A c \in Callers : DOMAIN call[c] = {"at", "future"}
    /\ \A c \in Callers : /\ call[c].future \in {"none", "pending", "answered", "failed"}
                          /\ call[c].at = "wait" => call[c].future = "pending"
                          /\ link.proc = "none" => call[c].future # "pending" /\ call[c].at # "wait"

\* The session is active once, between the answer to the offer and its end or its stop.
Stopping ==
    /\ link.at \in Opening \cup {"used", "failed"} /\ stops \in Nat /\ stops <= 1
    /\ link.at \in Opening => /\ ~link.active /\ ~notices.closed /\ stops = 0 /\ link.close = "no"
                              /\ call["stop"].at = "idle"
    /\ link.active => stops = 0 /\ call["stop"].at = "idle" /\ ~notices.closed
    /\ call["stop"].at = "lock" => stops = 0

LinkInv ==
    /\ DOMAIN link = {"at", "proc", "active", "close"}
    /\ DOMAIN notices = {"sent", "queue", "backlog", "read", "closed"}
    /\ Waiting /\ Stopping
    /\ Chain(notices.read, notices.backlog, notices.queue, notices.sent)

-----------------------------------------------------------------------------
(* The notifications.                                                      *)

LEMMA Members ==
  ASSUME NEW S, NEW q \in Seq(S)
  PROVE  /\ DOMAIN q = 1..Len(q) /\ Len(q) \in Nat
         /\ \A i \in DOMAIN q : q[i] \in S
BY LenProperties, ElementOfSeq

LEMMA AppendSeen ==
  ASSUME NEW S, NEW q \in Seq(S), NEW x \in S
  PROVE  /\ Append(q, x) \in Seq(S) /\ DOMAIN q = 1..Len(q) /\ Len(q) \in Nat
         /\ DOMAIN Append(q, x) = 1..(Len(q) + 1)
         /\ \A i \in 1..Len(q) : Append(q, x)[i] = q[i]
         /\ Append(q, x)[Len(q) + 1] = x
BY AppendProperties, LenProperties

LEMMA TailSeen ==
  ASSUME NEW S, NEW q \in Seq(S), q # <<>>
  PROVE  /\ Tail(q) \in Seq(S) /\ Head(q) \in S /\ DOMAIN q = 1..Len(q) /\ Len(q) \in Nat /\ Len(q) >= 1
         /\ Head(q) = q[1] /\ DOMAIN Tail(q) = 1..(Len(q) - 1)
         /\ \A i \in DOMAIN Tail(q) : i + 1 \in DOMAIN q /\ i + 1 > 1 /\ Tail(q)[i] = q[i + 1]
<1>1. /\ DOMAIN q = 1..Len(q) /\ Len(q) \in Nat /\ Len(q) >= 1 /\ Head(q) = q[1] /\ Head(q) \in S
      /\ Tail(q) \in Seq(S) /\ Len(Tail(q)) = Len(q) - 1
      /\ DOMAIN Tail(q) = 1..(Len(q) - 1) /\ \A i \in 1..(Len(q) - 1) : Tail(q)[i] = q[i + 1]
  BY HeadTailProperties, LenProperties, EmptySeq
<1> QED BY <1>1

LEMMA ConcatSeen ==
  ASSUME NEW S, NEW p \in Seq(S), NEW q \in Seq(S), Len(p) >= 1
  PROVE  p \o q \in Seq(S) /\ (p \o q)[1] = p[1]
<1>1. /\ p \o q \in Seq(S) /\ Len(p \o q) = Len(p) + Len(q)
      /\ \A i \in 1..(Len(p) + Len(q)) : (p \o q)[i] = IF i <= Len(p) THEN p[i] ELSE q[i - Len(p)]
  BY ConcatProperties
<1>2. Len(p) \in Nat /\ Len(q) \in Nat
  BY LenProperties
<1>3. 1 \in 1..(Len(p) + Len(q)) /\ 1 <= Len(p)
  BY <1>2
<1> QED BY <1>1, <1>3

\* A notification gets the next number; the end has none.
LEMMA ChainGrows ==
  ASSUME NEW r, NEW b, NEW q, NEW s, Chain(r, b, q, s), NEW e \in Entries, NEW s2 \in {s, s + 1},
         e.kind # "eof" => s2 = s + 1 /\ e.n = s2, e.kind = "eof" => e.n = 0
  PROVE  Chain(r, b, Append(q, e), s2)
<1> DEFINE p == Append(q, e)
<1>1. /\ p \in Seq(Entries) /\ DOMAIN q = 1..Len(q) /\ Len(q) \in Nat
      /\ DOMAIN p = 1..(Len(q) + 1) /\ \A i \in 1..Len(q) : p[i] = q[i]
      /\ p[Len(q) + 1] = e
  BY AppendSeen DEF Chain
<1> HIDE DEF p
<1>2. \A i \in DOMAIN p : (i \in DOMAIN q /\ p[i] = q[i]) \/ (i = Len(q) + 1 /\ p[i] = e)
  BY <1>1
<1>3. s \in Nat /\ s2 \in Nat /\ s <= s2 /\ e.n <= s2
  BY DEF Chain
<1>4. \A i \in DOMAIN q : q[i].n \in Nat
  <2>1. \A i \in DOMAIN q : q[i] \in Entries
    BY Members DEF Chain
  <2> QED BY <2>1 DEF Entries
<1>5. \A i \in DOMAIN b : b[i].n \in Nat
  <2>1. \A i \in DOMAIN b : b[i] \in Entries
    BY Members DEF Chain
  <2> QED BY <2>1 DEF Entries
<1>6. \A i \in DOMAIN r : r[i] \in Nat
  BY Members DEF Chain
<1>7. /\ \A i \in DOMAIN p : p[i].n <= s2
      /\ \A i \in DOMAIN r : r[i] <= s2
      /\ \A i \in DOMAIN b : b[i].n <= s2
  <2>1. \A i \in DOMAIN r : r[i] <= s2
    BY <1>3, <1>6 DEF Chain
  <2>2. \A i \in DOMAIN b : b[i].n <= s2
    BY <1>3, <1>5 DEF Chain
  <2>3. \A i \in DOMAIN q : q[i].n <= s2
    BY <1>3, <1>4 DEF Chain
  <2> QED BY <1>2, <1>3, <2>1, <2>2, <2>3
<1>8. \A i, j \in DOMAIN p : i < j /\ p[i].kind # "eof" /\ p[j].kind # "eof" => p[i].n < p[j].n
  <2>1. ASSUME NEW i \in DOMAIN p, NEW j \in DOMAIN p, i < j, p[i].kind # "eof", p[j].kind # "eof"
        PROVE  p[i].n < p[j].n
    <3>1. i \in DOMAIN q /\ p[i] = q[i] /\ q[i].n <= s
      BY <1>1, <1>2, <2>1 DEF Chain
    <3>2. CASE j \in DOMAIN q /\ p[j] = q[j]
      BY <2>1, <3>1, <3>2 DEF Chain
    <3>3. CASE p[j] = e
      BY <1>3, <1>4, <2>1, <3>1, <3>3
    <3> QED BY <1>2, <3>2, <3>3
  <2> QED BY <2>1
<1>9. \A i \in DOMAIN r, j \in DOMAIN p : p[j].kind # "eof" => r[i] < p[j].n
  BY <1>2, <1>3, <1>6 DEF Chain
<1>10. \A i \in DOMAIN b, j \in DOMAIN p : p[j].kind # "eof" => b[i].n < p[j].n
  BY <1>2, <1>3, <1>5 DEF Chain
<1> QED BY <1>1, <1>3, <1>7, <1>8, <1>9, <1>10 DEF Chain, p

\* What is taken from the queue may be dropped, kept back unless it is the end, or read.
LEMMA ChainShrinks ==
  ASSUME NEW r, NEW b, NEW q, NEW s, Chain(r, b, q, s), q # <<>>
  PROVE  /\ Chain(r, b, Tail(q), s)
         /\ Head(q).kind # "eof" => Chain(r, Append(b, Head(q)), Tail(q), s)
         /\ Head(q).kind # "eof" /\ b = <<>> => Chain(Append(r, Head(q).n), b, Tail(q), s)
<1> DEFINE t == Tail(q)
           h == Head(q)
<1>1. /\ t \in Seq(Entries) /\ h \in Entries /\ DOMAIN q = 1..Len(q) /\ 1 \in DOMAIN q /\ h = q[1]
      /\ \A i \in DOMAIN t : i \in Nat /\ i + 1 \in DOMAIN q /\ i + 1 > 1 /\ t[i] = q[i + 1]
  BY TailSeen DEF Chain
<1> HIDE DEF t, h
<1>2. Chain(r, b, t, s)
  <2>1. \A i, j \in DOMAIN t : i < j => i + 1 < j + 1
    BY <1>1
  <2> QED BY <1>1, <2>1 DEF Chain
<1>3. \A j \in DOMAIN t : h.kind # "eof" /\ t[j].kind # "eof" => h.n < t[j].n
  BY <1>1 DEF Chain
<1>4. /\ h.n \in Nat /\ h.n <= s /\ h.kind # "eof" => (\A i \in DOMAIN r : r[i] < h.n)
  BY <1>1 DEF Chain, Entries
<1>5. h.kind # "eof" => \A i \in DOMAIN b : b[i].n < h.n
  BY <1>1 DEF Chain
<1>6. h.n \in Nat /\ h.n <= s
  BY <1>1 DEF Chain, Entries
<1>7. ASSUME h.kind # "eof" PROVE Chain(r, Append(b, h), t, s)
  <2> DEFINE p == Append(b, h)
  <2>1. /\ p \in Seq(Entries) /\ DOMAIN b = 1..Len(b) /\ Len(b) \in Nat
        /\ DOMAIN p = 1..(Len(b) + 1) /\ \A i \in 1..Len(b) : p[i] = b[i]
        /\ p[Len(b) + 1] = h
    BY <1>1, AppendSeen DEF Chain
  <2> HIDE DEF p
  <2>2. \A i \in DOMAIN p : (i \in DOMAIN b /\ p[i] = b[i]) \/ (i = Len(b) + 1 /\ p[i] = h)
    BY <2>1
  <2>3. \A i \in DOMAIN p : p[i].kind # "eof" /\ p[i].n <= s
    BY <1>2, <1>6, <1>7, <2>2 DEF Chain
  <2>4. \A i, j \in DOMAIN p : i < j => p[i].n < p[j].n
    <3>1. ASSUME NEW i \in DOMAIN p, NEW j \in DOMAIN p, i < j PROVE p[i].n < p[j].n
      <4>1. i \in DOMAIN b /\ p[i] = b[i]
        BY <2>1, <2>2, <3>1
      <4> QED BY <1>2, <1>5, <1>7, <2>2, <3>1, <4>1 DEF Chain
    <3> QED BY <3>1
  <2>5. \A i \in DOMAIN r, j \in DOMAIN p : r[i] < p[j].n
    BY <1>2, <1>4, <1>6, <1>7, <2>2 DEF Chain
  <2>6. \A i \in DOMAIN p, j \in DOMAIN t : t[j].kind # "eof" => p[i].n < t[j].n
    BY <1>2, <1>3, <1>7, <2>2 DEF Chain
  <2>7. Chain(r, p, t, s)
    BY <1>2, <2>1, <2>3, <2>4, <2>5, <2>6 DEF Chain
  <2> QED BY <2>7 DEF p
<1>8. ASSUME h.kind # "eof", b = <<>> PROVE Chain(Append(r, h.n), b, t, s)
  <2> DEFINE p == Append(r, h.n)
  <2>1. /\ p \in Seq(Nat) /\ DOMAIN r = 1..Len(r) /\ Len(r) \in Nat
        /\ DOMAIN p = 1..(Len(r) + 1) /\ \A i \in 1..Len(r) : p[i] = r[i]
        /\ p[Len(r) + 1] = h.n
    BY <1>6, AppendSeen DEF Chain
  <2> HIDE DEF p
  <2>2. \A i \in DOMAIN p : (i \in DOMAIN r /\ p[i] = r[i]) \/ (i = Len(r) + 1 /\ p[i] = h.n)
    BY <2>1
  <2>3. \A i \in DOMAIN p : p[i] <= s
    BY <1>2, <1>6, <2>2 DEF Chain
  <2>4. \A i, j \in DOMAIN p : i < j => p[i] < p[j]
    <3>1. ASSUME NEW i \in DOMAIN p, NEW j \in DOMAIN p, i < j PROVE p[i] < p[j]
      <4>1. i \in DOMAIN r /\ p[i] = r[i]
        BY <2>1, <2>2, <3>1
      <4> QED BY <1>2, <1>4, <1>6, <1>8, <2>2, <3>1, <4>1 DEF Chain
    <3> QED BY <3>1
  <2>5. \A i \in DOMAIN p, j \in DOMAIN t : t[j].kind # "eof" => p[i] < t[j].n
    BY <1>2, <1>3, <1>8, <2>2 DEF Chain
  <2>6. DOMAIN b = {}
    BY <1>8
  <2>7. Chain(p, b, t, s)
    BY <1>2, <2>1, <2>3, <2>4, <2>5, <2>6 DEF Chain
  <2> QED BY <2>7 DEF p
<1> QED BY <1>2, <1>7, <1>8 DEF t, h

\* What was kept back is read first.
LEMMA ChainReads ==
  ASSUME NEW r, NEW b, NEW q, NEW s, Chain(r, b, q, s), b # <<>>
  PROVE  Chain(Append(r, Head(b).n), Tail(b), q, s) /\ Head(b).kind # "eof"
<1> DEFINE t == Tail(b)
           h == Head(b)
           p == Append(r, h.n)
<1>1. /\ t \in Seq(Entries) /\ h \in Entries /\ DOMAIN b = 1..Len(b) /\ 1 \in DOMAIN b /\ h = b[1]
      /\ \A i \in DOMAIN t : i \in Nat /\ i + 1 \in DOMAIN b /\ i + 1 > 1 /\ t[i] = b[i + 1]
  BY TailSeen DEF Chain
<1> HIDE DEF t, h
<1>2. h.n \in Nat /\ h.n <= s /\ h.kind # "eof"
  BY <1>1 DEF Chain, Entries
<1>3. /\ p \in Seq(Nat) /\ DOMAIN r = 1..Len(r) /\ Len(r) \in Nat
      /\ DOMAIN p = 1..(Len(r) + 1) /\ \A i \in 1..Len(r) : p[i] = r[i]
      /\ p[Len(r) + 1] = h.n
  BY <1>2, AppendSeen DEF Chain
<1> HIDE DEF p
<1>4. \A i \in DOMAIN p : (i \in DOMAIN r /\ p[i] = r[i]) \/ (i = Len(r) + 1 /\ p[i] = h.n)
  BY <1>3
<1>5. \A j \in DOMAIN t : h.n < t[j].n
  BY <1>1 DEF Chain
<1>6. \A i, j \in DOMAIN t : i < j => t[i].n < t[j].n
  <2>1. \A i, j \in DOMAIN t : i < j => i + 1 < j + 1
    BY <1>1
  <2> QED BY <1>1, <2>1 DEF Chain
<1>7. \A i, j \in DOMAIN p : i < j => p[i] < p[j]
  <2>1. ASSUME NEW i \in DOMAIN p, NEW j \in DOMAIN p, i < j PROVE p[i] < p[j]
    <3>1. i \in DOMAIN r /\ p[i] = r[i]
      BY <1>3, <1>4, <2>1
    <3> QED BY <1>1, <1>4, <2>1, <3>1 DEF Chain
  <2> QED BY <2>1
<1>8. /\ \A i \in DOMAIN p : p[i] <= s
      /\ \A i \in DOMAIN t : t[i].n <= s /\ t[i].kind # "eof"
  BY <1>1, <1>2, <1>4 DEF Chain
<1>9. \A i \in DOMAIN p, j \in DOMAIN t : p[i] < t[j].n
  BY <1>1, <1>4, <1>5 DEF Chain
<1>10. \A i \in DOMAIN p, j \in DOMAIN q : q[j].kind # "eof" => p[i] < q[j].n
  BY <1>1, <1>4 DEF Chain
<1>11. \A i \in DOMAIN t, j \in DOMAIN q : q[j].kind # "eof" => t[i].n < q[j].n
  BY <1>1 DEF Chain
<1>12. Chain(p, t, q, s)
  BY <1>1, <1>3, <1>6, <1>7, <1>8, <1>9, <1>10, <1>11 DEF Chain
<1> QED BY <1>2, <1>12 DEF p, t, h

-----------------------------------------------------------------------------
(* Steps.                                                                  *)

\* A request changes one caller's record, or every one by resolving its future.
LEMMA ResolvedWaits ==
  ASSUME NEW r, DOMAIN r = {"at", "future"}, r.future \in {"none", "pending", "answered", "failed"},
         r.at = "wait" => r.future = "pending", NEW value \in {"answered", "failed"}, NEW f, f = Resolved(r, value)
  PROVE  /\ DOMAIN f = {"at", "future"} /\ f.future \in {"none", "answered", "failed"} /\ f.at # "wait"
         /\ f.at = "idle" <=> r.at = "idle"
         /\ f.at = "lock" <=> r.at = "lock"
<1>1. CASE r.future # "pending"
  BY <1>1 DEF Resolved
<1>2. CASE r.future = "pending" /\ r.at = "wait"
  <2>1. f = [at |-> value, future |-> "none"]
    BY <1>2 DEF Resolved
  <2> QED BY <1>2, <2>1
<1>3. CASE r.future = "pending" /\ r.at # "wait"
  <2>1. f = [r EXCEPT !.future = value]
    BY <1>3 DEF Resolved
  <2> QED BY <1>3, <2>1
<1> QED BY <1>1, <1>2, <1>3

LEMMA LinkStarts == LinkInit => LinkInv
<1> SUFFICES ASSUME LinkInit PROVE LinkInv
  OBVIOUS
<1>1. Waiting
  BY DEF LinkInit, Waiting, NoCall
<1>2. Stopping
  BY DEF LinkInit, Stopping, NoCall, Callers, Opening
<1>3. Chain(<<>>, <<>>, <<>>, 0)
  <2>1. DOMAIN <<>> = {} /\ <<>> \in Seq(Nat) /\ <<>> \in Seq(Entries)
    OBVIOUS
  <2> QED BY <2>1 DEF Chain
<1> QED BY <1>1, <1>2, <1>3 DEF LinkInit, LinkInv

LEMMA LinkImplies == LinkInv => LinkEndsCleanly
<1> SUFFICES ASSUME LinkInv PROVE LinkEndsCleanly
  OBVIOUS
<1>1. NobodyWaits
  BY DEF LinkInv, Waiting, NobodyWaits
<1>2. StopsOnce
  BY DEF LinkInv, Stopping, StopsOnce
<1>3. NoticesInOrder
  BY DEF LinkInv, Chain, NoticesInOrder
<1> QED BY <1>1, <1>2, <1>3 DEF LinkEndsCleanly

\* A step of one caller: its record is replaced.
LEMMA OneCall ==
  ASSUME LinkInv, NEW c \in Callers, NEW r, call' = [call EXCEPT ![c] = r], UNCHANGED <<link, notices>>,
         DOMAIN r = {"at", "future"}, r.future \in {"none", "pending", "answered", "failed"},
         r.at = "wait" => r.future = "pending", r.future = "pending" => link.proc # "none",
         stops' \in Nat, stops' <= 1,
         c = "stop" => r.at # "lock" /\ call["stop"].at # "idle",
         stops' = stops \/ (c = "stop" /\ call["stop"].at # "idle")
  PROVE  LinkInv'
<1>1. /\ DOMAIN call' = Callers /\ call'[c] = r /\ \A d \in Callers \ {c} : call'[d] = call[d]
  BY DEF LinkInv, Waiting
<1>2. Waiting'
  BY <1>1 DEF LinkInv, Waiting
<1>3. Stopping'
  BY <1>1 DEF LinkInv, Stopping, Callers
<1> QED BY <1>2, <1>3 DEF LinkInv

LEMMA CallStep ==
  ASSUME LinkInv, NEW c \in Callers, Write(c) \/ Drain(c) \/ DrainFails(c) \/ TimeOut(c) \/ Answer(c)
  PROVE  LinkInv'
<1>1. /\ UNCHANGED <<link, notices>> /\ DOMAIN call = Callers /\ DOMAIN call[c] = {"at", "future"}
      /\ call[c].future \in {"none", "pending", "answered", "failed"}
      /\ call[c].at = "wait" => call[c].future = "pending"
  BY DEF Write, Drain, DrainFails, TimeOut, Answer, LinkInv, Waiting
<1>2. stops \in Nat /\ stops <= 1 /\ (c = "stop" /\ call[c].at = "lock" => stops = 0)
  BY DEF LinkInv, Stopping
<1>2a. call[c].future = "pending" => link.proc # "none"
  BY DEF LinkInv, Waiting
<1>3. CASE Write(c)
  <2> DEFINE r == IF Running THEN [at |-> "write", future |-> "pending"] ELSE [at |-> "failed", future |-> "none"]
  <2>1. /\ call' = [call EXCEPT ![c] = r] /\ call[c].at = "lock"
        /\ stops' = IF c = "stop" /\ Running THEN stops + 1 ELSE stops
    BY <1>3 DEF Write
  <2>2. /\ DOMAIN r = {"at", "future"} /\ r.at \in {"write", "failed"} /\ r.future \in {"none", "pending"}
        /\ r.future = "pending" => link.proc # "none"
    BY DEF Running
  <2> HIDE DEF r
  <2>3. stops' \in Nat /\ stops' <= 1 /\ (stops' = stops \/ c = "stop")
    BY <1>2, <2>1
  <2> QED BY <1>1, <2>1, <2>2, <2>3, OneCall
<1>4. CASE Drain(c)
  <2> DEFINE r == IF call[c].future = "pending" THEN [call[c] EXCEPT !.at = "wait"]
                  ELSE [at |-> call[c].future, future |-> "none"]
  <2>1. call' = [call EXCEPT ![c] = r] /\ call[c].at = "write" /\ stops' = stops
    BY <1>4 DEF Drain
  <2>2. /\ DOMAIN r = {"at", "future"} /\ r.at \in {"wait", "none", "answered", "failed"}
        /\ r.future \in {"none", "pending"} /\ (r.at = "wait" => r.future = "pending")
        /\ r.future = "pending" => call[c].future = "pending"
    BY <1>1
  <2> HIDE DEF r
  <2> QED BY <1>1, <1>2, <1>2a, <2>1, <2>2, OneCall
<1>5. CASE DrainFails(c) \/ TimeOut(c)
  <2> DEFINE r == [at |-> "failed", future |-> "none"]
  <2>1. call' = [call EXCEPT ![c] = r] /\ call[c].at \in {"write", "wait"} /\ stops' = stops
    BY <1>5 DEF DrainFails, TimeOut
  <2>2. DOMAIN r = {"at", "future"} /\ r.at = "failed" /\ r.future = "none"
    OBVIOUS
  <2> HIDE DEF r
  <2> QED BY <1>1, <1>2, <2>1, <2>2, OneCall
<1>6. ASSUME NEW value \in {"answered", "failed"}, call' = [call EXCEPT ![c] = Resolved(@, value)], stops' = stops
      PROVE  LinkInv'
  <2> DEFINE r == Resolved(call[c], value)
  <2>1. call' = [call EXCEPT ![c] = r]
    BY <1>1, <1>6
  <2>2. /\ DOMAIN r = {"at", "future"} /\ r.future \in {"none", "answered", "failed"} /\ r.at # "wait"
        /\ r.at = "idle" <=> call[c].at = "idle"
        /\ r.at = "lock" <=> call[c].at = "lock"
    BY <1>1, ResolvedWaits
  <2> HIDE DEF r
  <2>3. /\ DOMAIN call' = Callers /\ call'[c] = r /\ \A d \in Callers \ {c} : call'[d] = call[d]
    BY <1>1, <2>1
  <2>4. Waiting'
    BY <1>1, <2>2, <2>3 DEF LinkInv, Waiting
  <2>5. Stopping'
    BY <1>1, <1>6, <2>2, <2>3 DEF LinkInv, Stopping, Callers
  <2> QED BY <1>1, <2>4, <2>5 DEF LinkInv
<1> QED BY <1>3, <1>4, <1>5, <1>6 DEF Answer

\* The reader or close() resolves every future; the link and the notifications may change.
LEMMA EveryCall ==
  ASSUME LinkInv, call' = [d \in Callers |-> Resolved(call[d], "failed")]
  PROVE  /\ DOMAIN call' = Callers
         /\ \A c \in Callers : /\ DOMAIN call'[c] = {"at", "future"} /\ call'[c].at # "wait"
                               /\ call'[c].future \in {"none", "answered", "failed"}
                               /\ call'[c].at = "idle" <=> call[c].at = "idle"
                               /\ call'[c].at = "lock" <=> call[c].at = "lock"
<1>1. ASSUME NEW c \in Callers
      PROVE  /\ DOMAIN call'[c] = {"at", "future"} /\ call'[c].at # "wait"
             /\ call'[c].future \in {"none", "answered", "failed"}
             /\ call'[c].at = "idle" <=> call[c].at = "idle"
             /\ call'[c].at = "lock" <=> call[c].at = "lock"
  <2>1. call'[c] = Resolved(call[c], "failed")
    OBVIOUS
  <2>2. /\ DOMAIN call[c] = {"at", "future"} /\ call[c].future \in {"none", "pending", "answered", "failed"}
        /\ call[c].at = "wait" => call[c].future = "pending"
    BY DEF LinkInv, Waiting
  <2> QED BY <2>1, <2>2, ResolvedWaits
<1> QED BY <1>1

LEMMA EofQueued == ASSUME LinkInv PROVE Chain(notices.read, notices.backlog, Append(notices.queue, Eof), notices.sent)
<1>1. Eof \in Entries /\ Eof.kind = "eof" /\ Eof.n = 0
  BY DEF Eof, Entries
<1>2. Chain(notices.read, notices.backlog, notices.queue, notices.sent)
  BY DEF LinkInv
<1> QED BY <1>1, <1>2, ChainGrows

LEMMA ReaderEndsStep == ASSUME LinkInv, ReaderEnds PROVE LinkInv'
<1>1. /\ UNCHANGED <<link, stops>> /\ call' = [d \in Callers |-> Resolved(call[d], "failed")]
      /\ notices' = [notices EXCEPT !.queue = Append(notices.queue, Eof)]
  BY DEF ReaderEnds
<1>2. /\ DOMAIN notices' = {"sent", "queue", "backlog", "read", "closed"}
      /\ notices'.queue = Append(notices.queue, Eof) /\ notices'.sent = notices.sent
      /\ notices'.backlog = notices.backlog /\ notices'.read = notices.read /\ notices'.closed = notices.closed
  BY <1>1 DEF LinkInv
<1>3. Waiting'
  BY <1>1, EveryCall DEF Waiting
<1>4. Stopping'
  BY <1>1, <1>2, EveryCall DEF LinkInv, Stopping, Callers
<1> QED BY <1>1, <1>2, <1>3, <1>4, EofQueued DEF LinkInv

LEMMA ClosedStep == ASSUME LinkInv, Closed PROVE LinkInv'
<1> DEFINE q == IF reader = "done" THEN notices.queue ELSE Append(notices.queue, Eof)
<1>1. /\ UNCHANGED stops /\ call' = [d \in Callers |-> Resolved(call[d], "failed")] /\ link.close = "exiting"
      /\ link' = [link EXCEPT !.close = "no", !.proc = "none", !.active = FALSE]
      /\ notices' = [notices EXCEPT !.queue = q]
  BY DEF Closed
<1>2. /\ DOMAIN notices' = {"sent", "queue", "backlog", "read", "closed"}
      /\ notices'.queue = q /\ notices'.sent = notices.sent
      /\ notices'.backlog = notices.backlog /\ notices'.read = notices.read /\ notices'.closed = notices.closed
  BY <1>1 DEF LinkInv
<1>3. Chain(notices.read, notices.backlog, q, notices.sent)
  BY EofQueued DEF LinkInv
<1> HIDE DEF q
<1>4. DOMAIN link' = DOMAIN link /\ link'.at = link.at /\ link'.active = FALSE /\ link'.close = "no"
  BY <1>1 DEF LinkInv
<1>5. Waiting'
  BY <1>1, EveryCall DEF Waiting
<1>6. Stopping'
  BY <1>1, <1>2, <1>4, EveryCall DEF LinkInv, Stopping, Callers
<1> QED BY <1>2, <1>3, <1>4, <1>5, <1>6 DEF LinkInv

\* A caller asks, or is told that its request has ended.
LEMMA AskEnd ==
  ASSUME LinkInv, NEW c \in Callers, Asks(c) \/ Ends(c)
  PROVE  /\ DOMAIN call' = Callers /\ \A d \in Callers \ {c} : call'[d] = call[d]
         /\ DOMAIN call'[c] = {"at", "future"} /\ call'[c].at \in {"lock", "idle"}
         /\ call'[c].future = "none" \/ (call'[c].future = call[c].future /\ call[c].at = "idle")
         /\ Asks(c) => call[c].at = "idle"
         /\ ~Asks(c) => call'[c].at = "idle"
<1>0. DOMAIN call = Callers /\ DOMAIN call[c] = {"at", "future"}
  BY DEF LinkInv, Waiting
<1>1. CASE Asks(c)
  BY <1>0, <1>1 DEF Asks
<1>2. CASE Ends(c)
  <2>1. DOMAIN NoCall = {"at", "future"} /\ NoCall.at = "idle" /\ NoCall.future = "none"
    BY DEF NoCall
  <2> QED BY <1>0, <1>2, <2>1 DEF Ends, Asks
<1> QED BY <1>1, <1>2

LEMMA NoticeStep == ASSUME LinkInv, NEW kind \in {"sdp", "closed", "note"}, Notice(kind) PROVE LinkInv'
<1> DEFINE e == [kind |-> kind, n |-> notices.sent + 1]
<1>1. /\ UNCHANGED <<link, reader, call, stops>>
      /\ notices' = [notices EXCEPT !.sent = @ + 1, !.queue = Append(notices.queue, e)]
  BY DEF Notice, LinkInv
<1>2. Chain(notices.read, notices.backlog, notices.queue, notices.sent) /\ notices.sent \in Nat
  BY DEF LinkInv, Chain
<1>3. e \in Entries /\ e.kind # "eof" /\ e.n = notices.sent + 1
  BY <1>2 DEF Entries
<1>4. /\ DOMAIN notices' = {"sent", "queue", "backlog", "read", "closed"}
      /\ notices'.queue = Append(notices.queue, e) /\ notices'.sent = notices.sent + 1
      /\ notices'.backlog = notices.backlog /\ notices'.read = notices.read /\ notices'.closed = notices.closed
  BY <1>1 DEF LinkInv
<1> HIDE DEF e
<1>5. Chain(notices.read, notices.backlog, Append(notices.queue, e), notices.sent + 1)
  BY <1>2, <1>3, ChainGrows
<1>6. Waiting' /\ Stopping'
  BY <1>1, <1>4 DEF LinkInv, Waiting, Stopping
<1> QED BY <1>1, <1>4, <1>5, <1>6 DEF LinkInv

\* Only the place, the process or the closing changes.
LEMMA PlaceStep == ASSUME LinkInv, Exit \/ SdpIsLate PROVE LinkInv'
<1>1. UNCHANGED <<call, notices, stops>>
  BY DEF Exit, SdpIsLate
<1>2. CASE Exit
  <2>1. DOMAIN link' = DOMAIN link /\ link'.at = link.at /\ link'.active = link.active
        /\ link'.close = link.close /\ link'.proc = "exited"
    BY <1>2 DEF Exit, LinkInv
  <2> QED BY <1>1, <2>1 DEF LinkInv, Waiting, Stopping
<1>3. CASE SdpIsLate
  <2>1. DOMAIN link' = DOMAIN link /\ link'.at = "failed" /\ link'.active = link.active
        /\ link'.proc = link.proc /\ link.at = "sdp"
    BY <1>3 DEF SdpIsLate, LinkInv
  <2> QED BY <1>1, <2>1 DEF LinkInv, Waiting, Stopping, Opening
<1> QED BY <1>2, <1>3

LEMMA StartLinkStep == ASSUME LinkInv, StartLink PROVE LinkInv'
<1>1. UNCHANGED <<notices, stops>> /\ link.at = "new" /\ Asks("opener") /\ "opener" \in Callers
  BY DEF StartLink, Callers
<1>2. DOMAIN link' = DOMAIN link /\ link'.at = "starting" /\ link'.active = link.active
      /\ link'.close = link.close /\ link'.proc = "up"
  BY DEF StartLink, LinkInv
<1>3. Waiting'
  BY <1>1, <1>2, AskEnd DEF LinkInv, Waiting
<1>4. Stopping'
  BY <1>1, <1>2, AskEnd DEF LinkInv, Stopping, Opening, Callers
<1> QED BY <1>1, <1>2, <1>3, <1>4 DEF LinkInv

LEMMA OpenGoesOnStep == ASSUME LinkInv, OpenGoesOn PROVE LinkInv'
<1>0. /\ UNCHANGED <<notices, stops>> /\ link.at \in {"starting", "realtime"} /\ "opener" \in Callers
      /\ DOMAIN call = Callers
  BY DEF OpenGoesOn, Callers, LinkInv, Waiting
<1>1. ASSUME NEW next \in {"failed", "realtime", "sdp"}, link' = [link EXCEPT !.at = next],
             NEW r, DOMAIN r = {"at", "future"}, r.at # "wait", r.future = "none", call' = [call EXCEPT !["opener"] = r]
      PROVE  LinkInv'
  <2>1. /\ DOMAIN link' = DOMAIN link /\ link'.at = next /\ link'.active = link.active
        /\ link'.close = link.close /\ link'.proc = link.proc
    BY <1>1 DEF LinkInv
  <2>2. DOMAIN call' = Callers /\ call'["opener"] = r /\ \A c \in Callers \ {"opener"} : call'[c] = call[c]
    BY <1>0, <1>1
  <2>3. Waiting'
    BY <1>0, <1>1, <2>1, <2>2 DEF LinkInv, Waiting
  <2>4. Stopping'
    BY <1>0, <1>1, <2>1, <2>2 DEF LinkInv, Stopping, Opening, Callers
  <2> QED BY <1>0, <2>1, <2>3, <2>4 DEF LinkInv
<1>2. DOMAIN NoCall = {"at", "future"} /\ NoCall.at # "wait" /\ NoCall.future = "none"
  BY DEF NoCall
<1>3. PICK next \in {"failed", "realtime", "sdp"} :
         /\ link' = [link EXCEPT !.at = next]
         /\ call' = [call EXCEPT !["opener"] = IF next = "realtime" THEN [NoCall EXCEPT !.at = "lock"] ELSE NoCall]
  BY <1>0 DEF OpenGoesOn
<1>4. CASE next = "realtime"
  <2> DEFINE r == [NoCall EXCEPT !.at = "lock"]
  <2>1. DOMAIN r = {"at", "future"} /\ r.at # "wait" /\ r.future = "none"
    BY <1>2
  <2>2. call' = [call EXCEPT !["opener"] = r]
    BY <1>3, <1>4
  <2> HIDE DEF r
  <2> QED BY <1>1, <1>3, <2>1, <2>2
<1>5. CASE next # "realtime"
  BY <1>1, <1>2, <1>3, <1>5
<1> QED BY <1>4, <1>5

LEMMA AwaitSdpStep == ASSUME LinkInv, AwaitSdp PROVE LinkInv'
<1> DEFINE head == Head(notices.queue)
           b == IF head.kind = "note" THEN Append(notices.backlog, head) ELSE notices.backlog
<1>1. /\ UNCHANGED <<call, stops>> /\ link.at = "sdp" /\ notices.queue # <<>>
      /\ notices' = [notices EXCEPT !.queue = Tail(notices.queue), !.backlog = b]
      /\ link' = IF head.kind = "sdp" THEN [link EXCEPT !.at = "used", !.active = TRUE]
                 ELSE IF head.kind = "note" THEN link ELSE [link EXCEPT !.at = "failed"]
  BY DEF AwaitSdp, LinkInv
<1>2. /\ DOMAIN notices' = {"sent", "queue", "backlog", "read", "closed"}
      /\ notices'.queue = Tail(notices.queue) /\ notices'.sent = notices.sent
      /\ notices'.backlog = b /\ notices'.read = notices.read /\ notices'.closed = notices.closed
  BY <1>1 DEF LinkInv
<1>3. Chain(notices.read, b, Tail(notices.queue), notices.sent)
  BY <1>1, ChainShrinks DEF LinkInv
<1>4. /\ DOMAIN link' = DOMAIN link /\ link'.proc = link.proc /\ link'.close = link.close
      /\ \/ link'.at = "used" /\ link'.active = TRUE
         \/ link'.at = link.at /\ link'.active = link.active
         \/ link'.at = "failed" /\ link'.active = link.active
  BY <1>1 DEF LinkInv
<1> HIDE DEF b
<1>5. Waiting'
  BY <1>1, <1>4 DEF LinkInv, Waiting
<1>6. Stopping'
  BY <1>1, <1>2, <1>4 DEF LinkInv, Stopping, Opening
<1> QED BY <1>2, <1>3, <1>4, <1>5, <1>6 DEF LinkInv

LEMMA ReadNoticeStep == ASSUME LinkInv, ReadNotice PROVE LinkInv'
<1> DEFINE head == Head(notices.backlog \o notices.queue)
           read == IF head.kind = "eof" THEN notices.read ELSE Append(notices.read, head.n)
           backlog == IF notices.backlog # <<>> THEN Tail(notices.backlog) ELSE notices.backlog
           queue == IF notices.backlog = <<>> THEN Tail(notices.queue) ELSE notices.queue
<1>1. /\ UNCHANGED <<call, stops>> /\ link.at = "used" /\ notices.backlog \o notices.queue # <<>>
      /\ notices' = [notices EXCEPT !.closed = @ \/ head.kind = "closed", !.read = read,
                        !.backlog = backlog, !.queue = queue]
      /\ link' = IF head.kind = "closed" THEN [link EXCEPT !.active = FALSE] ELSE link
  BY DEF ReadNotice, LinkInv
<1>2. /\ DOMAIN notices' = {"sent", "queue", "backlog", "read", "closed"}
      /\ notices'.queue = queue /\ notices'.sent = notices.sent /\ notices'.backlog = backlog
      /\ notices'.read = read /\ (notices'.closed => notices.closed \/ head.kind = "closed")
  BY <1>1 DEF LinkInv
<1>3. /\ DOMAIN link' = DOMAIN link /\ link'.proc = link.proc /\ link'.at = link.at
      /\ (link'.active => link.active) /\ (head.kind = "closed" => ~link'.active)
  BY <1>1 DEF LinkInv
<1>4. Chain(notices.read, notices.backlog, notices.queue, notices.sent)
      /\ notices.backlog \in Seq(Entries) /\ notices.queue \in Seq(Entries)
  BY DEF LinkInv, Chain
<1>5. Chain(read, backlog, queue, notices.sent)
  <2>1. CASE notices.backlog # <<>>
    <3>1. head = Head(notices.backlog)
      <4>1. Len(notices.backlog) \in Nat /\ Len(notices.backlog) >= 1 /\ Head(notices.backlog) = notices.backlog[1]
        BY <1>4, <2>1, TailSeen
      <4>2. /\ notices.backlog \o notices.queue \in Seq(Entries)
            /\ (notices.backlog \o notices.queue)[1] = notices.backlog[1]
        BY <1>4, <4>1, ConcatSeen
      <4> QED BY <1>1, <4>1, <4>2, TailSeen
    <3>2. Chain(Append(notices.read, Head(notices.backlog).n), Tail(notices.backlog), notices.queue, notices.sent)
          /\ Head(notices.backlog).kind # "eof"
      BY <1>4, <2>1, ChainReads
    <3> QED BY <2>1, <3>1, <3>2
  <2>2. CASE notices.backlog = <<>>
    <3>1. notices.backlog \o notices.queue = notices.queue /\ notices.queue # <<>>
      BY <1>1, <1>4, <2>2, ConcatEmptySeq
    <3>2. /\ Chain(notices.read, notices.backlog, Tail(notices.queue), notices.sent)
          /\ Head(notices.queue).kind # "eof" =>
                Chain(Append(notices.read, Head(notices.queue).n), notices.backlog, Tail(notices.queue), notices.sent)
      BY <1>4, <2>2, <3>1, ChainShrinks
    <3> QED BY <2>2, <3>1, <3>2
  <2> QED BY <2>1, <2>2
<1> HIDE DEF read, backlog, queue
<1>6. Waiting'
  BY <1>1, <1>3 DEF LinkInv, Waiting
<1>7. Stopping'
  BY <1>1, <1>2, <1>3 DEF LinkInv, Stopping, Opening
<1> QED BY <1>2, <1>3, <1>5, <1>6, <1>7 DEF LinkInv

LEMMA AppendTextStep == ASSUME LinkInv, NEW c \in Callers, AppendText(c) PROVE LinkInv'
<1>1. c \in Callers /\ c # "stop" /\ (Asks(c) \/ Ends(c)) /\ UNCHANGED <<link, notices, stops>>
  BY LinkAssumption DEF AppendText
<1>2. Waiting'
  BY <1>1, AskEnd DEF LinkInv, Waiting
<1>3. Stopping'
  BY <1>1, AskEnd DEF LinkInv, Stopping, Callers
<1> QED BY <1>1, <1>2, <1>3 DEF LinkInv

LEMMA CloseLinkStep == ASSUME LinkInv, CloseLink PROVE LinkInv'
<1>1. /\ UNCHANGED <<notices, stops>> /\ "stop" \in Callers /\ link.at \in {"used", "failed"}
      /\ (Asks("stop") /\ link.active) \/ (UNCHANGED call /\ ~link.active)
  BY DEF CloseLink, Callers
<1>2. DOMAIN link' = DOMAIN link /\ link'.at = link.at /\ link'.active = FALSE /\ link'.proc = link.proc
  BY DEF CloseLink, LinkInv
<1>3. Waiting'
  BY <1>1, <1>2, AskEnd DEF LinkInv, Waiting
<1>4. Stopping'
  BY <1>1, <1>2, AskEnd DEF LinkInv, Stopping, Opening
<1> QED BY <1>1, <1>2, <1>3, <1>4 DEF LinkInv

LEMMA StoppedStep == ASSUME LinkInv, Stopped PROVE LinkInv'
<1>1. /\ UNCHANGED <<notices, stops>> /\ "stop" \in Callers /\ Ends("stop") /\ ~Asks("stop") /\ link.close = "stopping"
      /\ call["stop"].at \in {"answered", "failed"}
  BY DEF Stopped, Callers, Asks
<1>2. DOMAIN link' = DOMAIN link /\ link'.at = link.at /\ link'.active = link.active /\ link'.proc = link.proc
  BY DEF Stopped, LinkInv
<1>3. Waiting'
  BY <1>1, <1>2, AskEnd DEF LinkInv, Waiting
<1>4. Stopping'
  BY <1>1, <1>2, AskEnd DEF LinkInv, Stopping, Opening
<1> QED BY <1>1, <1>2, <1>3, <1>4 DEF LinkInv

LEMMA LinkStep == LinkInv /\ [LinkNext]_linkVars => LinkInv'
<1> SUFFICES ASSUME LinkInv, [LinkNext]_linkVars PROVE LinkInv'
  OBVIOUS
<1>1. ASSUME NEW c \in Callers,
             Write(c) \/ Drain(c) \/ DrainFails(c) \/ TimeOut(c) \/ Answer(c) \/ AppendText(c)
      PROVE  LinkInv'
  BY <1>1, CallStep, AppendTextStep
<1>2. ASSUME NEW kind \in {"sdp", "closed", "note"}, Notice(kind) PROVE LinkInv'
  BY <1>2, NoticeStep
<1>3. CASE StartLink \/ OpenGoesOn \/ AwaitSdp \/ SdpIsLate \/ ReadNotice \/ CloseLink \/ Stopped \/ Closed
           \/ Exit \/ ReaderEnds
  BY <1>3, StartLinkStep, OpenGoesOnStep, AwaitSdpStep, PlaceStep, ReadNoticeStep, CloseLinkStep,
     StoppedStep, ClosedStep, ReaderEndsStep
<1>4. CASE UNCHANGED linkVars
  BY <1>4 DEF linkVars, LinkInv, Waiting, Stopping
<1> QED BY <1>1, <1>2, <1>3, <1>4 DEF LinkNext

-----------------------------------------------------------------------------
(* The renderer's client.                                                  *)

\* The shape of a call, of its thread and of what was received.
RenderTypes ==
    /\ render \in [at : {"idle", "acquiring", "receiving", "yielded", "joining", "releasing",
                         "resting", "over"},
                   attempt : Nat, worker : SUBSET Pool,
                   cause : {"none", "retry", "fatal", "ok", "closed", "torn"}, drawn : Nat]
    /\ thread \in [at : {"none", "asking", "receiving", "done"}, announced : Nat, sent : Nat,
                   failed : BOOLEAN]
    /\ got \in Seq([frame : Nat, attempt : Nat])
    /\ state \in Nat \cup {-1}

\* The consumer never runs ahead of the thread, nor the thread of what was announced.
Counted ==
    /\ render.drawn <= thread.sent /\ thread.sent <= thread.announced
    /\ render.drawn <= Len(got)
    /\ thread.at = "asking" => thread.sent = 0
    /\ thread.at = "done" /\ ~thread.failed => thread.sent = thread.announced

\* Frame i is the i-th that was received, and attempts do not go back.
GotInOrder ==
    /\ \A i \in 1..Len(got) : got[i].frame = i - 1 /\ got[i].attempt <= render.attempt
    /\ \A i, j \in 1..Len(got) : i < j => got[i].attempt <= got[j].attempt

\* A published state is of the attempt under way, which has ended well.
StateInTime ==
    state > 0 =>
        /\ render.at \in {"releasing", "over"} /\ thread.at = "done"
        /\ render.cause = "ok" /\ state = render.attempt /\ Len(got) >= thread.announced

\* A worker is held for the attempt under way, or adrift, and a thread that runs has one
\* unless a second cancellation tore it off.
ThreadIsHeld ==
    /\ held \subseteq adrift \cup render.worker
    /\ thread.at \in {"asking", "receiving"} =>
          \/ render.cause = "torn" /\ render.at \in {"releasing", "over"}
          \/ render.worker # {} /\ render.at \in {"receiving", "yielded", "joining"}
    /\ render.at \in {"idle", "acquiring", "resting"} => render.worker = {}
    /\ render.at = "idle" => render.attempt = 0
    /\ render.at = "over" /\ render.attempt > 0 => state # Open

RenderInv == RenderTypes /\ Counted /\ GotInOrder /\ StateInTime /\ ThreadIsHeld

\* A record as a step leaves it, each field named.
RenderIs(at, attempt, worker_, cause, drawn) ==
    render' = [at |-> at, attempt |-> attempt, worker |-> worker_, cause |-> cause, drawn |-> drawn]
ThreadIs(at, announced, sent, failed) ==
    thread' = [at |-> at, announced |-> announced, sent |-> sent, failed |-> failed]

LEMMA RenderStarts == RenderInit => RenderInv
BY DEF RenderInit, RenderInv, RenderTypes, Counted, GotInOrder, StateInTime, ThreadIsHeld, NoThread, Open

LEMMA GotTypes == RenderTypes => \A i \in 1..Len(got) : got[i].frame \in Nat /\ got[i].attempt \in Nat
<1> SUFFICES ASSUME RenderTypes, NEW i \in 1..Len(got) PROVE got[i].frame \in Nat /\ got[i].attempt \in Nat
  OBVIOUS
<1>1. got[i] \in [frame : Nat, attempt : Nat]
  BY ElementOfSeq DEF RenderTypes
<1> QED BY <1>1

\* The order of the frames does not depend on a later attempt.
LEMMA OrderKept ==
  ASSUME RenderTypes, GotInOrder, UNCHANGED got,
         render'.attempt \in Nat, render.attempt <= render'.attempt
  PROVE  GotInOrder'
<1>1. \A i \in 1..Len(got) : got[i].attempt \in Nat
  BY GotTypes
<1>2. render.attempt \in Nat
  BY DEF RenderTypes
<1> QED BY <1>1, <1>2 DEF GotInOrder

\* The next frame of an attempt follows those of the earlier ones.
LEMMA OrderGrows ==
  ASSUME RenderTypes, GotInOrder, render'.attempt = render.attempt, render.drawn = Len(got),
         got' = Append(got, [frame |-> render.drawn, attempt |-> render.attempt])
  PROVE  GotInOrder'
<1> DEFINE new == [frame |-> render.drawn, attempt |-> render.attempt]
<1>1. /\ Len(got') = Len(got) + 1 /\ got'[Len(got) + 1] = new /\ Len(got) \in Nat
      /\ \A i \in 1..Len(got) : got'[i] = got[i]
  BY DEF RenderTypes
<1>2. new.frame = Len(got) /\ new.attempt = render.attempt
  OBVIOUS
<1>3. render.attempt \in Nat /\ \A i \in 1..Len(got) : got[i].attempt \in Nat
  BY GotTypes DEF RenderTypes
<1> HIDE DEF new
<1>4. ASSUME NEW i \in 1..Len(got') PROVE got'[i].frame = i - 1 /\ got'[i].attempt <= render'.attempt
  BY <1>1, <1>2, <1>3 DEF GotInOrder
<1>5. ASSUME NEW i \in 1..Len(got'), NEW j \in 1..Len(got'), i < j
      PROVE  got'[i].attempt <= got'[j].attempt
  <2>1. i \in 1..Len(got) /\ (j \in 1..Len(got) \/ j = Len(got) + 1)
    BY <1>1, <1>5
  <2>2. CASE j \in 1..Len(got)
    BY <1>1, <1>5, <2>1, <2>2 DEF GotInOrder
  <2>3. CASE j = Len(got) + 1
    BY <1>1, <1>2, <2>1, <2>3 DEF GotInOrder
  <2> QED BY <2>1, <2>2, <2>3
<1> QED BY <1>4, <1>5 DEF GotInOrder

LEMMA RenderStep == RenderInv /\ [RenderNext]_renderVars => RenderInv'
<1> SUFFICES ASSUME RenderInv, [RenderNext]_renderVars PROVE RenderInv'
  OBVIOUS
<1> USE RenderAssumption DEF RenderInv, RenderTypes, Counted, StateInTime, ThreadIsHeld,
        NoThread, Open, Failed, RenderIs, ThreadIs
<1>1. CASE BeginCall
  <2>1. CASE render' = [render EXCEPT !.at = "acquiring", !.attempt = 1]
    <3>1. RenderIs("acquiring", 1, render.worker, render.cause, render.drawn)
      BY <2>1
    <3>2. GotInOrder'
      BY <1>1, <3>1, OrderKept DEF BeginCall
    <3> QED BY <1>1, <3>1, <3>2 DEF BeginCall
  <2>2. CASE render' = [render EXCEPT !.at = "over"]
    <3>1. RenderIs("over", render.attempt, render.worker, render.cause, render.drawn)
      BY <2>2
    <3>2. GotInOrder'
      BY <1>1, <3>1, OrderKept DEF BeginCall
    <3> QED BY <1>1, <3>1, <3>2 DEF BeginCall
  <2> QED BY <1>1, <2>1, <2>2 DEF BeginCall
<1>2. CASE Acquire
  <2>0. render.at = "acquiring" /\ UNCHANGED got
    BY <1>2 DEF Acquire
  <2>1. ASSUME NEW w \in Pool \ held, held' = held \cup {w},
               render' = [render EXCEPT !.at = "receiving", !.worker = {w}, !.drawn = 0],
               thread' = [NoThread EXCEPT !.at = "asking"], UNCHANGED <<adrift, state>>
        PROVE  RenderInv'
    <3>1. RenderIs("receiving", render.attempt, {w}, render.cause, 0)
      BY <2>1
    <3>2. ThreadIs("asking", 0, 0, FALSE)
      BY <2>1
    <3>3. GotInOrder'
      BY <2>0, <3>1, OrderKept
    <3>4. render.attempt \in Nat /\ render.cause \in {"none", "retry", "fatal", "ok", "closed", "torn"}
      OBVIOUS
    <3>5. thread' \in [at : {"none", "asking", "receiving", "done"}, announced : Nat, sent : Nat,
                        failed : BOOLEAN]
      BY <3>2
    <3>6. RenderTypes'
      BY <2>0, <2>1, <3>1, <3>4, <3>5
    <3>7. Counted'
      BY <2>0, <2>1, <3>1, <3>2, <3>3
    <3>8. StateInTime'
      BY <2>0, <2>1, <3>1, <3>2, <3>3
    <3>9. ThreadIsHeld'
      BY <2>0, <2>1, <3>1, <3>2, <3>3
    <3> QED BY <2>0, <2>1, <3>1, <3>2, <3>3, <3>6, <3>7, <3>8, <3>9
  <2>2. ASSUME NEW w \in Pool \ held, held' = held \cup {w},
               adrift' = adrift \cup {w}, UNCHANGED <<render, thread, state>>
        PROVE  RenderInv'
    <3>1. GotInOrder'
      BY <2>0, <2>2, OrderKept
    <3> QED BY <2>0, <2>2, <3>1
  <2>3. CASE render' = [render EXCEPT !.attempt = @ + 1] /\ UNCHANGED <<thread, held, adrift, state>>
    <3>1. RenderIs(render.at, render.attempt + 1, render.worker, render.cause, render.drawn)
      BY <2>3
    <3>2. GotInOrder'
      BY <2>0, <3>1, OrderKept
    <3>3. render.attempt + 1 \in Nat /\ render.drawn \in Nat /\ render.worker \in SUBSET Pool
      BY <2>3
    <3>4. RenderTypes'
      BY <3>3, <2>0, <2>3, <3>1, <3>2
    <3>5. Counted'
      BY <2>0, <2>3, <3>1, <3>2
    <3>6. StateInTime'
      BY <2>0, <2>3, <3>1, <3>2
    <3>7. ThreadIsHeld'
      BY <2>0, <2>3, <3>1, <3>2
    <3> QED BY <2>0, <2>3, <3>1, <3>2, <3>4, <3>5, <3>6, <3>7
  <2>4. CASE Over /\ UNCHANGED <<thread, held, adrift>>
    <3>1. RenderIs("over", render.attempt, render.worker, render.cause, render.drawn)
      BY <2>4 DEF Over
    <3>2. GotInOrder'
      BY <2>0, <3>1, OrderKept
    <3>3. RenderTypes'
      BY <2>0, <2>4, <3>1, <3>2 DEF Over
    <3>4. Counted'
      BY <2>0, <2>4, <3>1, <3>2 DEF Over
    <3>5. StateInTime'
      BY <2>0, <2>4, <3>1, <3>2 DEF Over
    <3>6. ThreadIsHeld'
      BY <2>0, <2>4, <3>1, <3>2 DEF Over
    <3> QED BY <2>0, <2>4, <3>1, <3>2, <3>3, <3>4, <3>5, <3>6
  <2> QED BY <1>2, <2>1, <2>2, <2>3, <2>4 DEF Acquire
<1>3. CASE Receive
  <2>0. UNCHANGED <<render, held, adrift, got, state>>
    BY <1>3 DEF Receive
  <2>5. GotInOrder'
    BY <2>0, OrderKept
  <2>1. ASSUME NEW n \in 0..MostFrames, thread.at = "asking",
               thread' = [thread EXCEPT !.at = "receiving", !.announced = n]
        PROVE  RenderInv'
    <3>1. ThreadIs("receiving", n, thread.sent, thread.failed)
      BY <2>1
    <3> QED BY <2>0, <2>1, <2>5, <3>1
  <2>2. CASE /\ thread.at = "receiving" /\ thread.sent < thread.announced
             /\ thread' = [thread EXCEPT !.sent = @ + 1]
    <3>1. ThreadIs("receiving", thread.announced, thread.sent + 1, thread.failed)
      BY <2>2
    <3>2. thread.sent + 1 \in Nat /\ thread.announced \in Nat /\ thread.failed \in BOOLEAN
      OBVIOUS
    <3>3. RenderTypes'
      BY <3>2, <2>0, <2>2, <2>5, <3>1
    <3>4. Counted'
      BY <2>0, <2>2, <2>5, <3>1
    <3>5. StateInTime'
      BY <2>0, <2>2, <2>5, <3>1
    <3>6. ThreadIsHeld'
      BY <2>0, <2>2, <2>5, <3>1
    <3> QED BY <2>0, <2>2, <2>5, <3>1, <3>3, <3>4, <3>5, <3>6
  <2>3. CASE /\ thread.at = "receiving" /\ thread.sent = thread.announced
             /\ thread' = [thread EXCEPT !.at = "done"]
    <3>1. ThreadIs("done", thread.announced, thread.sent, thread.failed)
      BY <2>3
    <3> QED BY <2>0, <2>3, <2>5, <3>1
  <2>4. CASE /\ thread.at \in {"asking", "receiving"}
             /\ thread' = [thread EXCEPT !.at = "done", !.failed = TRUE]
    <3>1. ThreadIs("done", thread.announced, thread.sent, TRUE)
      BY <2>4
    <3> QED BY <2>0, <2>4, <2>5, <3>1
  <2> QED BY <1>3, <2>1, <2>2, <2>3, <2>4 DEF Receive
<1>4. CASE Draw
  <2>0. UNCHANGED <<thread, held, adrift, state>> /\ render.at = "receiving" /\ render.drawn < thread.sent
    BY <1>4 DEF Draw
  <2>1. CASE Fresh(render.drawn)
    <3>1. RenderIs("yielded", render.attempt, render.worker, render.cause, render.drawn + 1)
      BY <1>4, <2>1 DEF Draw
    <3>2. got' = Append(got, [frame |-> render.drawn, attempt |-> render.attempt])
      BY <1>4, <2>1 DEF Draw
    <3>3. render.drawn = Len(got)
      BY <2>1 DEF Fresh
    <3>4. GotInOrder'
      BY <3>1, <3>2, <3>3, OrderGrows
    <3>5. Len(got') = Len(got) + 1 /\ got' \in Seq([frame : Nat, attempt : Nat])
      BY <3>2
    <3> QED BY <2>0, <3>1, <3>3, <3>4, <3>5
  <2>2. CASE ~Fresh(render.drawn)
    <3>1. RenderIs(render.at, render.attempt, render.worker, render.cause, render.drawn + 1)
      BY <1>4, <2>2 DEF Draw
    <3>2. GotInOrder'
      BY <1>4, <2>2, <3>1, OrderKept DEF Draw
    <3> QED BY <1>4, <2>2, <3>1, <3>2 DEF Draw, Fresh
  <2> QED BY <2>1, <2>2
<1>5. CASE AskOn
  <2>1. RenderIs("receiving", render.attempt, render.worker, render.cause, render.drawn)
    BY <1>5 DEF AskOn
  <2>2. GotInOrder'
    BY <1>5, <2>1, OrderKept DEF AskOn
  <2> QED BY <1>5, <2>1, <2>2 DEF AskOn
<1>6. CASE EndAttempt
  <2> DEFINE cause == CASE thread.failed -> "retry"
                      [] ~thread.failed /\ thread.announced < 2 -> "fatal"
                      [] OTHER -> "ok"
  <2>1. RenderIs("releasing", render.attempt, render.worker, cause, render.drawn)
    BY <1>6 DEF EndAttempt
  <2>2. state' = IF cause = "ok" THEN render.attempt ELSE state
    BY <1>6 DEF EndAttempt
  <2>3. cause \in {"retry", "fatal", "ok"} /\ (cause = "ok" => ~thread.failed)
    OBVIOUS
  <2> HIDE DEF cause
  <2>4. UNCHANGED <<thread, held, adrift, got>> /\ render.at = "receiving" /\ thread.at = "done"
        /\ render.drawn = thread.sent
    BY <1>6 DEF EndAttempt
  <2>5. GotInOrder'
    BY <2>4, <2>1, OrderKept
  <2> QED BY <2>1, <2>2, <2>3, <2>4, <2>5
<1>7. CASE LeaveCall
  <2>0. UNCHANGED <<thread, held, got>>
    BY <1>7 DEF LeaveCall
  <2>1. CASE /\ render.at \in {"receiving", "yielded"}
             /\ render' = [render EXCEPT !.at = "joining", !.cause = "closed"] /\ UNCHANGED <<adrift, state>>
    <3>1. RenderIs("joining", render.attempt, render.worker, "closed", render.drawn)
      BY <2>1
    <3>2. GotInOrder'
      BY <2>0, <3>1, OrderKept
    <3> QED BY <2>0, <2>1, <3>1, <3>2
  <2>2. CASE /\ render.at = "joining" /\ thread.at # "done"
             /\ render' = [render EXCEPT !.at = "releasing", !.cause = "torn"] /\ UNCHANGED <<adrift, state>>
    <3>1. RenderIs("releasing", render.attempt, render.worker, "torn", render.drawn)
      BY <2>2
    <3>2. GotInOrder'
      BY <2>0, <3>1, OrderKept
    <3> QED BY <2>0, <2>2, <3>1, <3>2
  <2>3. CASE render.at \in {"acquiring", "resting"} /\ Over /\ UNCHANGED adrift
    <3>1. RenderIs("over", render.attempt, render.worker, render.cause, render.drawn)
      BY <2>3 DEF Over
    <3>2. GotInOrder'
      BY <2>0, <3>1, OrderKept
    <3> QED BY <2>0, <2>3, <3>1, <3>2 DEF Over
  <2>4. CASE render.at = "releasing" /\ Over /\ adrift' = adrift \cup render.worker
    <3>1. RenderIs("over", render.attempt, render.worker, render.cause, render.drawn)
      BY <2>4 DEF Over
    <3>2. GotInOrder'
      BY <2>0, <3>1, OrderKept
    <3>3. RenderTypes'
      BY <2>0, <2>4, <3>1, <3>2 DEF Over
    <3>4. Counted'
      BY <2>0, <2>4, <3>1, <3>2 DEF Over
    <3>5. StateInTime'
      BY <2>0, <2>4, <3>1, <3>2 DEF Over
    <3>6. ThreadIsHeld'
      BY <2>0, <2>4, <3>1, <3>2 DEF Over
    <3> QED BY <2>0, <2>4, <3>1, <3>2, <3>3, <3>4, <3>5, <3>6
  <2> QED BY <1>7, <2>1, <2>2, <2>3, <2>4 DEF LeaveCall
<1>8. CASE JoinThread
  <2>1. RenderIs("releasing", render.attempt, render.worker, render.cause, render.drawn)
    BY <1>8 DEF JoinThread
  <2>2. GotInOrder'
    BY <1>8, <2>1, OrderKept DEF JoinThread
  <2> QED BY <1>8, <2>1, <2>2 DEF JoinThread
<1>9. CASE ReleaseWorker
  <2>0. /\ render.at = "releasing" /\ UNCHANGED <<thread, got>>
        /\ held' \subseteq adrift' \cup {}
    BY <1>9 DEF ReleaseWorker
  <2>1. CASE render.cause = "retry" /\ render.attempt < MostAttempts
    <3>1. RenderIs("resting", render.attempt, {}, render.cause, render.drawn) /\ UNCHANGED state
      BY <1>9, <2>1 DEF ReleaseWorker
    <3>2. GotInOrder'
      BY <2>0, <3>1, OrderKept
    <3> QED BY <2>0, <2>1, <3>1, <3>2
  <2>2. CASE ~(render.cause = "retry" /\ render.attempt < MostAttempts)
    <3>1. RenderIs("over", render.attempt, {}, render.cause, render.drawn)
      BY <1>9, <2>2 DEF ReleaseWorker
    <3>2. state' = IF state = Open THEN Failed ELSE state
      BY <1>9, <2>2 DEF ReleaseWorker
    <3>3. GotInOrder'
      BY <2>0, <3>1, OrderKept
    <3> QED BY <2>0, <2>2, <3>1, <3>2, <3>3
  <2> QED BY <2>1, <2>2
<1>10. CASE RetryCall
  <2>1. RenderIs("acquiring", render.attempt + 1, render.worker, render.cause, render.drawn)
    BY <1>10 DEF RetryCall
  <2>2. GotInOrder'
    BY <1>10, <2>1, OrderKept DEF RetryCall
  <2> QED BY <1>10, <2>1, <2>2 DEF RetryCall
<1>11. CASE UNCHANGED renderVars
  <2>1. GotInOrder'
    BY <1>11, OrderKept DEF renderVars
  <2> QED BY <1>11, <2>1 DEF renderVars
<1> QED
  BY <1>1, <1>2, <1>3, <1>4, <1>5, <1>6, <1>7, <1>8, <1>9, <1>10, <1>11 DEF RenderNext

LEMMA RenderImplies == RenderInv => FramesOnceInOrder /\ WorkersAreHeld
BY DEF RenderInv, RenderTypes, GotInOrder, StateInTime, ThreadIsHeld, FramesOnceInOrder, WorkersAreHeld

-----------------------------------------------------------------------------
(* The memory worklet.                                                     *)

\* The shape of the worklet and its task.
MemoryTypes ==
    /\ worklet \in {"hearing", "draining", "over"}
    /\ extractor \in [at : {"idle", "busy", "gone"}, hand : Seq(Sayings)]
    /\ waiting \in Seq(Sayings) /\ seen \in Seq(Sayings)
    /\ accepted \in Seq(Sayings) /\ settled \in Seq(Sayings)

\* What was accepted is settled, in hand or waiting, until the task is cancelled.
InHand ==
    /\ extractor.at # "busy" => extractor.hand = <<>>
    /\ extractor.at = "gone" => worklet = "over"
    /\ extractor.at # "gone" => accepted = settled \o (extractor.hand \o waiting)
    /\ extractor.at = "gone" => \E rest \in Seq(Sayings) : accepted = settled \o rest

\* What is remembered is the end of what was accepted, each once.
Remembers ==
    /\ Len(seen) <= Len(accepted) /\ Len(seen) <= SeenRoom
    /\ Len(seen) < SeenRoom => Len(seen) = Len(accepted)
    /\ \A i \in 1..Len(seen) : seen[i] = accepted[Len(accepted) - Len(seen) + i]
    /\ \A i, j \in 1..Len(seen) : i # j => seen[i] # seen[j]

\* What is accepted again was said often enough ago to be forgotten.
SaidAgainLater ==
    \A i \in DOMAIN accepted, j \in DOMAIN accepted :
       i < j /\ accepted[i] = accepted[j] =>
           Cardinality({accepted[k] : k \in (i + 1)..(j - 1)}) >= SeenRoom

MemoryInv == MemoryTypes /\ InHand /\ Remembers /\ SaidAgainLater

LEMMA MemoryStarts == MemoryInit => MemoryInv
<1> SUFFICES ASSUME MemoryInit PROVE MemoryInv
  OBVIOUS
<1>1. <<>> \in Seq(Sayings) /\ Len(<<>>) = 0
  BY EmptySeq
<1>2. MemoryTypes
  BY <1>1 DEF MemoryInit, MemoryTypes, NoOne
<1>3. <<>> \o (<<>> \o <<>>) = <<>>
  BY <1>1, ConcatEmptySeq
<1>4. InHand
  BY <1>3 DEF MemoryInit, InHand, NoOne
<1>5. Remembers
  BY <1>1, MemoryAssumption DEF MemoryInit, Remembers
<1>6. DOMAIN accepted = 1..0
  BY <1>1, LenProperties DEF MemoryInit
<1>7. SaidAgainLater
  BY <1>6 DEF SaidAgainLater
<1> QED BY <1>2, <1>4, <1>5, <1>7 DEF MemoryInv

\* A sequence without repetitions, at least n long, has n members; a set that holds
\* them has as many.
LEMMA DistinctCount ==
  ASSUME NEW S, NEW s \in Seq(S), \A i, j \in 1..Len(s) : i # j => s[i] # s[j],
         NEW T, IsFiniteSet(T), \A i \in 1..Len(s) : s[i] \in T
  PROVE  Len(s) <= Cardinality(T)
<1> DEFINE f == [i \in 1..Len(s) |-> s[i]]
<1>1. Len(s) \in Nat
  BY LenProperties
<1>2. f \in [1..Len(s) -> T] /\ \A i, j \in 1..Len(s) : f[i] = f[j] => i = j
  OBVIOUS
<1>3. f \in Injection(1..Len(s), T)
  BY <1>2, Fun_IsInj
<1>4. Cardinality(1..Len(s)) <= Cardinality(T)
  BY <1>3, FS_Injection
<1>5. Cardinality(1..Len(s)) = Len(s)
  <2>1. 1 \in Int /\ Len(s) \in Int
    BY <1>1
  <2>2. Cardinality(1..Len(s)) = IF 1 > Len(s) THEN 0 ELSE Len(s) - 1 + 1
    BY <2>1, FS_Interval, Zenon
  <2> QED BY <1>1, <2>2
<1> QED BY <1>4, <1>5

\* The transcripts of a span are finitely many.
LEMMA SpanFinite ==
  ASSUME NEW S, NEW s \in Seq(S), NEW i \in Int, NEW j \in Int
  PROVE  IsFiniteSet({s[k] : k \in i..j})
<1> DEFINE f == [k \in i..j |-> s[k]]
<1> DEFINE T == {s[k] : k \in i..j}
<1>1. IsFiniteSet(i..j)
  BY FS_Interval
<1>2. f \in [i..j -> T] /\ \A t \in T : \E k \in i..j : f[k] = t
  OBVIOUS
<1>3. f \in Surjection(i..j, T)
  BY <1>2, Fun_IsSurj
<1> QED BY <1>1, <1>3, FS_Surjection

\* Hearing a transcript that is not remembered: it is remembered, and what was said since
\* it was last accepted fills the memory.
LEMMA HearingStep ==
  ASSUME MemoryTypes, Remembers, SaidAgainLater, NEW t \in Sayings, ~Contains(seen, t),
         accepted' = Append(accepted, t), seen' = Remembered(t)
  PROVE  Remembers' /\ SaidAgainLater'
<1> DEFINE n == Len(accepted)  m == Len(seen)
<1>0. accepted \in Seq(Sayings) /\ seen \in Seq(Sayings) /\ n \in Nat /\ m \in Nat
  BY LenProperties DEF MemoryTypes
<1>1. /\ Len(accepted') = n + 1 /\ accepted'[n + 1] = t
      /\ \A i \in 1..n : accepted'[i] = accepted[i]
      /\ accepted' \in Seq(Sayings)
  BY <1>0, AppendProperties
<1>2. \A i \in 1..m : seen[i] # t
  BY DEF Contains
<1>3. Remembers'
  <2>1. CASE m < SeenRoom
    <3>1. /\ Len(seen') = m + 1 /\ seen'[m + 1] = t
          /\ \A i \in 1..m : seen'[i] = seen[i]
      BY <1>0, <2>1, AppendProperties DEF Remembered
    <3>2. m = n /\ SeenRoom \in Nat /\ \A i \in 1..m : seen[i] = accepted[i]
      <4>1. SeenRoom \in Nat
        BY MemoryAssumption
      <4>2. m = n /\ \A i \in 1..m : seen[i] = accepted[(n - m) + i]
        BY <2>1 DEF Remembers
      <4> HIDE DEF n, m
      <4>3. \A i \in 1..m : (n - m) + i = i
        BY ONLY <1>0, <4>2
      <4> QED BY ONLY <4>1, <4>2, <4>3
    <3>3. \A i, j \in 1..m : i # j => seen[i] # seen[j]
      BY DEF Remembers
    <3> HIDE DEF n, m
    <3>4. Len(seen') = n + 1 /\ Len(accepted') = n + 1 /\ n + 1 <= SeenRoom /\ n \in Nat
      BY ONLY <1>0, <1>1, <2>1, <3>1, <3>2
    <3>5. ASSUME NEW i \in 1..(n + 1) PROVE seen'[i] = accepted'[i]
      BY ONLY <1>0, <1>1, <3>1, <3>2, <3>5
    <3>6. ASSUME NEW i \in 1..(n + 1), NEW j \in 1..(n + 1), i # j PROVE seen'[i] # seen'[j]
      BY ONLY <1>0, <1>2, <3>1, <3>2, <3>3, <3>6
    <3>7. ASSUME NEW i \in 1..Len(seen') PROVE seen'[i] = accepted'[Len(accepted') - Len(seen') + i]
      <4>1. i \in 1..(n + 1) /\ Len(accepted') - Len(seen') + i = i
        BY ONLY <3>4, <3>7
      <4> QED BY ONLY <3>5, <4>1
    <3>8. /\ Len(seen') <= Len(accepted') /\ Len(seen') <= SeenRoom
          /\ Len(seen') = Len(accepted')
      BY ONLY <3>4
    <3>9. \A i, j \in 1..Len(seen') : i # j => seen'[i] # seen'[j]
      BY ONLY <3>4, <3>6
    <3> QED BY ONLY <3>7, <3>8, <3>9 DEF Remembers
  <2>2. CASE ~(m < SeenRoom)
    <3>1. m = SeenRoom
      BY <1>0, <2>2, MemoryAssumption DEF Remembers
    <3>2. seen # <<>>
      BY <3>1, EmptySeq, MemoryAssumption
    <3>3. /\ Tail(seen) \in Seq(Sayings) /\ Len(Tail(seen)) = m - 1
          /\ \A i \in 1..(m - 1) : Tail(seen)[i] = seen[i + 1]
      BY <1>0, <3>2, HeadTailProperties
    <3>4. /\ Len(seen') = m /\ seen'[m] = t
          /\ \A i \in 1..(m - 1) : seen'[i] = seen[i + 1]
      <4>1. seen' = Append(Tail(seen), t)
        BY <2>2 DEF Remembered
      <4>2. /\ Len(seen') = Len(Tail(seen)) + 1 /\ seen'[Len(Tail(seen)) + 1] = t
            /\ \A i \in 1..Len(Tail(seen)) : seen'[i] = Tail(seen)[i]
        BY <4>1, <3>3, AppendProperties
      <4> QED BY <4>2, <3>3, <1>0, <3>1, MemoryAssumption
    <3>5. ASSUME NEW i \in 1..m PROVE seen'[i] = accepted'[n + 1 - m + i]
      <4>1. CASE i = m
        BY <1>0, <1>1, <3>4, <4>1
      <4>2. CASE i # m
        <5>1. i \in 1..(m - 1) /\ i + 1 \in 1..m
          BY <1>0, <4>2
        <5>2. seen[i + 1] = accepted[n - m + (i + 1)]
          BY <5>1 DEF Remembers
        <5>3. n - m + (i + 1) \in 1..n /\ n - m + (i + 1) = n + 1 - m + i
          BY <1>0, <5>1 DEF Remembers
        <5> QED BY <1>1, <3>4, <5>1, <5>2, <5>3
      <4> QED BY <4>1, <4>2
    <3>6. ASSUME NEW i \in 1..m, NEW j \in 1..m, i # j PROVE seen'[i] # seen'[j]
      <4>1. \A a \in 1..m : a = m \/ (a \in 1..(m - 1) /\ a + 1 \in 1..m)
        BY <1>0
      <4>2. \A a \in 1..(m - 1) : seen'[a] # t
        BY <1>2, <3>4, <4>1
      <4>3. \A a, b \in 1..(m - 1) : a # b => a + 1 # b + 1 /\ a + 1 \in 1..m /\ b + 1 \in 1..m
        BY <1>0
      <4>4. \A a, b \in 1..(m - 1) : a # b => seen'[a] # seen'[b]
        BY <3>4, <4>3 DEF Remembers
      <4> QED BY <3>4, <3>6, <4>1, <4>2, <4>4
    <3>7. m <= n + 1 /\ m <= SeenRoom /\ ~(m < SeenRoom)
      BY <1>0, <2>2, <3>1, MemoryAssumption DEF Remembers
    <3>8. Len(seen') = m /\ Len(accepted') = n + 1
      BY <1>1, <3>4
    <3>9. Len(seen') <= Len(accepted') /\ Len(seen') <= SeenRoom /\ ~(Len(seen') < SeenRoom)
      BY <3>7, <3>8
    <3>10. \A i \in 1..Len(seen') : seen'[i] = accepted'[Len(accepted') - Len(seen') + i]
      <4> SUFFICES ASSUME NEW i \in 1..m
                   PROVE  seen'[i] = accepted'[Len(accepted') - Len(seen') + i]
        BY <3>8
      <4>1. Len(accepted') - Len(seen') + i = n + 1 - m + i
        BY <3>8
      <4> QED BY <3>5, <4>1
    <3>11. \A i, j \in 1..Len(seen') : i # j => seen'[i] # seen'[j]
      BY <3>6, <3>8
    <3> QED BY <3>9, <3>10, <3>11 DEF Remembers
  <2> QED BY <2>1, <2>2
<1>4. SaidAgainLater'
  <2>1. DOMAIN accepted' = 1..(n + 1) /\ DOMAIN accepted = 1..n
    BY <1>0, <1>1, LenProperties
  <2> SUFFICES ASSUME NEW i \in 1..(n + 1), NEW j \in 1..(n + 1), i < j, accepted'[i] = accepted'[j]
               PROVE  Cardinality({accepted'[k] : k \in (i + 1)..(j - 1)}) >= SeenRoom
    BY <2>1 DEF SaidAgainLater
  <2>2. {accepted'[k] : k \in (i + 1)..(j - 1)} = {accepted[k] : k \in (i + 1)..(j - 1)}
    BY <1>0, <1>1
  <2>3. CASE j <= n
    <3>1. i \in 1..n /\ j \in 1..n /\ accepted[i] = accepted[j]
      BY <1>0, <1>1, <2>3
    <3> QED BY <2>1, <2>2, <3>1 DEF SaidAgainLater
  <2>4. CASE j = n + 1
    <3>1. accepted[i] = t /\ i \in 1..n
      BY <1>0, <1>1, <2>4
    <3>2. i <= n - m
      <4> SUFFICES ASSUME ~(i <= n - m) PROVE FALSE
        OBVIOUS
      <4>1. i - (n - m) \in 1..m
        BY <1>0, <3>1
      <4>2. seen[i - (n - m)] = accepted[n - m + (i - (n - m))]
        BY <4>1 DEF Remembers
      <4>3. n - m + (i - (n - m)) = i
        BY <1>0
      <4> QED BY <4>1, <4>2, <4>3, <3>1, <1>2
    <3>3. m = SeenRoom
      BY <1>0, <3>1, <3>2, MemoryAssumption DEF Remembers
    <3> DEFINE T == {accepted[k] : k \in (i + 1)..(j - 1)}
    <3>4. IsFiniteSet(T)
      <4>1. i + 1 \in Int /\ j - 1 \in Int
        OBVIOUS
      <4> QED BY <1>0, <4>1, SpanFinite, Zenon
    <3>5. ASSUME NEW k \in 1..m PROVE seen[k] \in T
      <4>1. n - m + k \in (i + 1)..(j - 1)
        BY <1>0, <3>2, <2>4
      <4>2. seen[k] = accepted[n - m + k]
        BY DEF Remembers
      <4> QED BY <4>1, <4>2
    <3>6. m <= Cardinality(T)
      <4>1. \A a, b \in 1..Len(seen) : a # b => seen[a] # seen[b]
        BY DEF Remembers
      <4> HIDE DEF T
      <4> QED BY <1>0, <3>4, <3>5, <4>1, DistinctCount
    <3>7. Cardinality(T) \in Nat
      BY <3>4, FS_CardinalityType
    <3> QED BY <1>0, <2>2, <3>3, <3>6, <3>7, MemoryAssumption
  <2>5. j <= n \/ j = n + 1
    BY <1>0
  <2> QED BY <2>3, <2>4, <2>5
<1> QED BY <1>3, <1>4


\* A step that accepts nothing and remembers nothing.
LEMMA NothingHeard ==
  ASSUME Remembers, SaidAgainLater, UNCHANGED <<accepted, seen>> PROVE Remembers' /\ SaidAgainLater'
<1>1. Remembers'
  BY DEF Remembers
<1>2. SaidAgainLater'
  <2>1. ASSUME NEW i \in DOMAIN accepted', NEW j \in DOMAIN accepted', i < j, accepted'[i] = accepted'[j]
        PROVE  Cardinality({accepted'[k] : k \in (i + 1)..(j - 1)}) >= SeenRoom
    <3>1. {accepted'[k] : k \in (i + 1)..(j - 1)} = {accepted[k] : k \in (i + 1)..(j - 1)}
      OBVIOUS
    <3>2. Cardinality({accepted[k] : k \in (i + 1)..(j - 1)}) >= SeenRoom
      BY <2>1 DEF SaidAgainLater
    <3> QED BY <3>1, <3>2
  <2> QED BY <2>1 DEF SaidAgainLater
<1> QED BY <1>1, <1>2

\* Transcripts can be regrouped.
LEMMA Regroup == \A s, t, u \in Seq(Sayings) : (s \o t) \o u = s \o (t \o u)
BY ONLY ConcatAssociative

LEMMA MemoryStep == MemoryInv /\ [MemoryNext]_memoryVars => MemoryInv'
<1> SUFFICES ASSUME MemoryInv, [MemoryNext]_memoryVars PROVE MemoryInv'
  OBVIOUS
<1>0. /\ waiting \in Seq(Sayings) /\ seen \in Seq(Sayings) /\ accepted \in Seq(Sayings)
      /\ settled \in Seq(Sayings) /\ extractor.hand \in Seq(Sayings)
      /\ extractor \in [at : {"idle", "busy", "gone"}, hand : Seq(Sayings)]
      /\ extractor.at \in {"idle", "busy", "gone"} /\ <<>> \in Seq(Sayings)
      /\ worklet \in {"hearing", "draining", "over"}
      /\ MemoryTypes /\ InHand /\ Remembers /\ SaidAgainLater
  BY EmptySeq DEF MemoryInv, MemoryTypes
<1>1. ASSUME NEW t \in Sayings, HearSaying(t) PROVE MemoryInv'
  <2>0. worklet = "hearing" /\ UNCHANGED <<worklet, extractor, settled>>
    BY <1>1 DEF HearSaying
  <2>1. CASE Contains(seen, t) \/ Len(waiting) >= WaitRoom
    <3>1. UNCHANGED <<waiting, seen, accepted>>
      BY <1>1, <2>1 DEF HearSaying
    <3> QED BY <1>0, <2>0, <3>1, NothingHeard DEF MemoryInv, MemoryTypes, InHand
  <2>2. CASE ~(Contains(seen, t) \/ Len(waiting) >= WaitRoom)
    <3>1. /\ waiting' = Append(waiting, t) /\ accepted' = Append(accepted, t)
          /\ seen' = Remembered(t) /\ ~Contains(seen, t)
      BY <1>1, <2>2 DEF HearSaying
    <3>2. Remembers' /\ SaidAgainLater'
      BY <1>0, <3>1, HearingStep
    <3>3. waiting' \in Seq(Sayings) /\ accepted' \in Seq(Sayings)
      BY <1>0, <3>1, AppendProperties
    <3>4. seen' \in Seq(Sayings)
      <4>1. CASE Len(seen) < SeenRoom
        BY <1>0, <3>1, <4>1, AppendProperties DEF Remembered
      <4>2. CASE ~(Len(seen) < SeenRoom)
        <5>1. seen # <<>>
          BY <4>2, EmptySeq, MemoryAssumption
        <5> QED BY <1>0, <3>1, <4>2, <5>1, HeadTailProperties, AppendProperties DEF Remembered
      <4> QED BY <4>1, <4>2
    <3>5. InHand'
      <4>1. extractor.at # "gone"
        BY <1>0, <2>0 DEF InHand
      <4>2. accepted = settled \o (extractor.hand \o waiting)
        BY <1>0, <4>1 DEF InHand
      <4>3. accepted' = settled \o (extractor.hand \o Append(waiting, t))
        <5>1. accepted' = accepted \o <<t>> /\ Append(waiting, t) = waiting \o <<t>>
          BY <1>0, <3>1, AppendIsConcat
        <5>2. <<t>> \in Seq(Sayings)
          OBVIOUS
        <5>3. /\ settled \in Seq(Sayings) /\ extractor.hand \in Seq(Sayings) /\ waiting \in Seq(Sayings)
              /\ extractor.hand \o waiting \in Seq(Sayings)
          BY <1>0, ConcatProperties
        <5>4. (settled \o (extractor.hand \o waiting)) \o <<t>>
                 = settled \o ((extractor.hand \o waiting) \o <<t>>)
          BY ONLY <5>2, <5>3, Regroup
        <5>5. (extractor.hand \o waiting) \o <<t>> = extractor.hand \o (waiting \o <<t>>)
          BY ONLY <5>2, <5>3, Regroup
        <5> QED BY <4>2, <5>1, <5>4, <5>5
      <4> QED BY <1>0, <2>0, <3>1, <4>1, <4>3 DEF InHand
    <3> QED BY <1>0, <2>0, <3>2, <3>3, <3>4, <3>5 DEF MemoryInv, MemoryTypes
  <2> QED BY <2>1, <2>2
<1>2. CASE BeginExtraction
  <2>1. /\ extractor.at = "idle" /\ waiting # <<>>
        /\ extractor' = [at |-> "busy", hand |-> <<Head(waiting)>>] /\ waiting' = Tail(waiting)
        /\ UNCHANGED <<worklet, seen, brought, accepted, settled>>
    BY <1>2 DEF BeginExtraction
  <2>2. /\ Head(waiting) \in Sayings /\ Tail(waiting) \in Seq(Sayings)
        /\ <<Head(waiting)>> \in Seq(Sayings)
    BY <1>0, <2>1, HeadTailProperties
  <2>3. waiting = <<Head(waiting)>> \o Tail(waiting)
    <3>1. /\ Len(waiting) \in Nat \ {0} /\ Len(Tail(waiting)) = Len(waiting) - 1
          /\ \A i \in 1..Len(Tail(waiting)) : Tail(waiting)[i] = waiting[i + 1]
      BY <1>0, <2>1, EmptySeq, HeadTailProperties
    <3>2. Len(<<Head(waiting)>>) = 1 /\ <<Head(waiting)>>[1] = waiting[1]
      BY <1>0, <2>1
    <3> DEFINE w == <<Head(waiting)>> \o Tail(waiting)
    <3>3. /\ w \in Seq(Sayings) /\ Len(w) = 1 + Len(Tail(waiting))
          /\ \A i \in 1..(1 + Len(Tail(waiting))) :
                w[i] = IF i <= 1 THEN <<Head(waiting)>>[i] ELSE Tail(waiting)[i - 1]
      BY <2>2, <3>2, ConcatProperties
    <3>4. Len(w) = Len(waiting)
      BY <3>1, <3>3
    <3>5. ASSUME NEW i \in 1..Len(waiting) PROVE waiting[i] = w[i]
      BY <3>1, <3>2, <3>3
    <3> HIDE DEF w
    <3>6. waiting = w
      BY <1>0, <3>3, <3>4, <3>5, SeqEqual
    <3> QED BY <3>6 DEF w
  <2>4. <<>> \o waiting = waiting
    BY <1>0, ConcatEmptySeq
  <2>5. InHand'
    BY <1>0, <2>1, <2>3, <2>4 DEF InHand
  <2> QED BY <1>0, <2>1, <2>2, <2>5, NothingHeard DEF MemoryInv, MemoryTypes
<1>3. CASE EndExtraction
  <2>1. /\ extractor.at = "busy" /\ extractor' = [at |-> "idle", hand |-> <<>>]
        /\ settled' = settled \o extractor.hand
        /\ UNCHANGED <<worklet, waiting, seen, brought, accepted>>
    BY <1>3 DEF EndExtraction, NoOne
  <2>2. settled' \in Seq(Sayings)
    BY <1>0, <2>1, ConcatProperties
  <2>3. accepted' = settled' \o (<<>> \o waiting)
    <3>0. settled \in Seq(Sayings) /\ extractor.hand \in Seq(Sayings) /\ waiting \in Seq(Sayings)
      BY <1>0
    <3>1. (settled \o extractor.hand) \o waiting = settled \o (extractor.hand \o waiting)
      BY ONLY <3>0, Regroup
    <3>2. <<>> \o waiting = waiting
      BY <1>0, ConcatEmptySeq
    <3> QED BY <1>0, <2>1, <3>1, <3>2 DEF InHand
  <2>4. InHand'
    BY <1>0, <2>1, <2>3 DEF InHand
  <2> QED BY <1>0, <2>1, <2>2, <2>4, NothingHeard DEF MemoryInv, MemoryTypes
<1>4. CASE StopHearing
  BY <1>0, <1>4, NothingHeard DEF StopHearing, MemoryInv, MemoryTypes, InHand
<1>5. CASE EndDrain
  <2>1. /\ worklet = "draining" /\ worklet' = "over"
        /\ extractor' = [at |-> "gone", hand |-> <<>>] /\ waiting' \in {<<>>, waiting}
        /\ UNCHANGED <<seen, brought, accepted, settled>>
    BY <1>5 DEF EndDrain
  <2>2. accepted = settled \o (extractor.hand \o waiting)
    BY <1>0, <2>1 DEF InHand
  <2>3. extractor.hand \o waiting \in Seq(Sayings)
    BY <1>0, ConcatProperties
  <2>4. InHand'
    BY <1>0, <2>1, <2>2, <2>3 DEF InHand
  <2> QED BY <1>0, <2>1, <2>4, NothingHeard DEF MemoryInv, MemoryTypes
<1>6. CASE AbandonDrain
  BY <1>0, <1>6, NothingHeard DEF AbandonDrain, MemoryInv, MemoryTypes, InHand
<1>7. CASE UNCHANGED memoryVars
  BY <1>0, <1>7, NothingHeard DEF memoryVars, MemoryInv, MemoryTypes, InHand
<1> QED
  BY <1>1, <1>2, <1>3, <1>4, <1>5, <1>6, <1>7 DEF MemoryNext

LEMMA SuffixPointwise ==
  ASSUME NEW S, NEW s \in Seq(S), NEW t \in Seq(S), Len(s) <= Len(t),
         \A i \in 1..Len(s) : s[i] = t[Len(t) - Len(s) + i]
  PROVE  IsSuffix(s, t)
<1> DEFINE a == Reverse(s)  b == Reverse(t)
<1>0. Len(s) \in Nat /\ Len(t) \in Nat
  BY LenProperties
<1>1. /\ a = [i \in 1..Len(s) |-> s[(Len(s) - i) + 1]] /\ b = [i \in 1..Len(t) |-> t[(Len(t) - i) + 1]]
  BY DEF Reverse
<1>2. \A i \in 1..Len(s) : s[(Len(s) - i) + 1] \in S
  BY <1>0
<1>3. \A i \in 1..Len(t) : t[(Len(t) - i) + 1] \in S
  BY <1>0
<1>4. a \in Seq(S) /\ b \in Seq(S) /\ Len(a) = Len(s) /\ Len(b) = Len(t)
  BY <1>0, <1>1, <1>2, <1>3
<1>5. ASSUME NEW i \in 1..Len(s) PROVE a[i] = b[i]
  <2>1. a[i] = s[(Len(s) - i) + 1] /\ b[i] = t[(Len(t) - i) + 1]
    BY <1>0, <1>1
  <2>2. (Len(s) - i) + 1 \in 1..Len(s) /\ Len(t) - Len(s) + ((Len(s) - i) + 1) = (Len(t) - i) + 1
    BY <1>0
  <2> QED BY <2>1, <2>2
<1> HIDE DEF a, b
<1>6. SubSeq(a, 1, Len(a)) = SubSeq(b, 1, Len(a))
  BY <1>0, <1>4, <1>5
<1> QED BY <1>4, <1>6 DEF IsSuffix, IsPrefix, a, b

LEMMA PrefixOfConcat ==
  ASSUME NEW S, NEW s \in Seq(S), NEW t \in Seq(S) PROVE IsPrefix(s, s \o t)
<1>1. /\ s \o t \in Seq(S) /\ Len(s) \in Nat /\ Len(t) \in Nat /\ Len(s \o t) = Len(s) + Len(t)
      /\ \A i \in 1..Len(s) : (s \o t)[i] = s[i]
  BY ConcatProperties, LenProperties
<1>2. SubSeq(s, 1, Len(s)) = SubSeq(s \o t, 1, Len(s))
  BY <1>1
<1> QED BY <1>1, <1>2 DEF IsPrefix

LEMMA MemoryImplies == MemoryInv => SayingsAreKept
<1> SUFFICES ASSUME MemoryInv PROVE SayingsAreKept
  OBVIOUS
<1>0. /\ waiting \in Seq(Sayings) /\ seen \in Seq(Sayings) /\ accepted \in Seq(Sayings)
      /\ settled \in Seq(Sayings) /\ extractor.hand \in Seq(Sayings)
  BY DEF MemoryInv, MemoryTypes
<1>1. extractor.at # "gone" => accepted = settled \o extractor.hand \o waiting
  <2>1. (settled \o extractor.hand) \o waiting = settled \o (extractor.hand \o waiting)
    BY ONLY <1>0, Regroup
  <2> QED BY <2>1 DEF MemoryInv, InHand
<1>2. extractor.at = "gone" => IsPrefix(settled, accepted)
  BY <1>0, PrefixOfConcat DEF MemoryInv, InHand
<1>3. IsSuffix(seen, accepted)
  BY <1>0, SuffixPointwise DEF MemoryInv, Remembers
<1> QED BY <1>1, <1>2, <1>3 DEF MemoryInv, SaidAgainLater, SayingsAreKept

-----------------------------------------------------------------------------
(* Cutting people out.                                                     *)

\* Who has the worker's lock, and what each who has it finds and leaves.
WorkerInv ==
    /\ DOMAIN job = Uploads /\ DOMAIN fey = FeyFields
    /\ fey.model \in BOOLEAN /\ fey.processor \in BOOLEAN /\ fey.released \in BOOLEAN
    /\ fey.lock \in {Free} \cup Uploads \cup Releases
    /\ \A u \in Uploads : job[u] \in {"loading", "half", "loaded", "running"} <=> fey.lock = u
    /\ \A r \in Releases : release[r].thread \in {"dropping", "half", "empty"} <=> fey.lock = r
    /\ fey.active = IF fey.lock \in Uploads THEN 1 ELSE 0
    /\ \A u \in Uploads :
          /\ job[u] \in {"loading", "half"} => ~fey.processor
          /\ job[u] \in {"half", "loaded", "running"} => fey.model
          /\ job[u] \in {"loaded", "running"} => fey.processor
    /\ \A r \in Releases :
          /\ release[r].thread \in {"half", "empty"} => ~fey.model
          /\ release[r].thread = "empty" => ~fey.processor
    /\ fey.processor /\ ~fey.model => \E r \in Releases : release[r].thread = "half"
    /\ fey.released /\ fey.model /\ fey.processor =>
          \/ \E u \in Uploads : job[u] = "loaded"
          \/ \E r \in Releases : release[r].thread = "dropping"

ReleaseInv ==
    /\ DOMAIN release = Releases
    /\ \A r \in Releases :
          /\ DOMAIN release[r] = {"at", "thread", "told"}
          /\ release[r].told = "released" => release[r].thread \in {"gone", "away"}

LocalModelInv ==
    /\ DOMAIN cut = Uploads /\ DOMAIN local = {"lock", "loads"}
    /\ local.loads \in {0, 1} /\ local.lock \in {Free} \cup Uploads
    /\ local.lock # Free => local.loads = 0
    /\ \A u \in Uploads : cut[u] = "loading" <=> local.lock = u
    /\ \A u \in Uploads : cut[u] = "using" => local.loads = 1

CutInv == WorkerInv /\ ReleaseInv /\ LocalModelInv

LEMMA CutStarts == CutInit => CutInv
<1> SUFFICES ASSUME CutInit PROVE CutInv
  OBVIOUS
<1> USE CutoutAssumption DEF CutInit, Idle, FeyFields
<1>1. WorkerInv
  BY DEF WorkerInv
<1>2. ReleaseInv
  BY DEF ReleaseInv
<1>3. LocalModelInv
  BY DEF LocalModelInv
<1> QED BY <1>1, <1>2, <1>3 DEF CutInv

\* The renderer's threads and the local model.
LEMMA LocalModelKept ==
  ASSUME LocalModelInv, [CutNext]_cutVars PROVE LocalModelInv'
<1> USE CutoutAssumption DEF LocalModelInv
<1>1. ASSUME NEW u \in Uploads, CutStep(u) PROVE LocalModelInv'
  <2>1. CASE \E place \in {"none", "asking", "local"} : CutGoes(u, place) /\ cut[u] # "loading" /\ UNCHANGED local
    BY <2>1 DEF CutGoes
  <2>2. CASE Upload(u) \/ WorkerAnswers(u) \/ StopsAsking(u) \/ UsesLocal(u)
    BY <2>1, <2>2 DEF Upload, WorkerAnswers, StopsAsking, UsesLocal
  <2>3. CASE Unasked(u)
    BY <2>3 DEF Unasked
  <2>4. CASE LooksForLocal(u)
    BY <2>4 DEF LooksForLocal, CutGoes
  <2>5. CASE LocksLocal(u)
    BY <2>5 DEF LocksLocal, CutGoes
  <2>6. CASE LoadsLocal(u)
    <3>1. local.lock = u /\ local.loads = 0 /\ cut[u] = "loading"
      BY <2>6 DEF LoadsLocal
    <3>2. CASE local' = [lock |-> Free, loads |-> local.loads + 1] /\ CutGoes(u, "using")
      BY <3>1, <3>2 DEF CutGoes
    <3>3. CASE local' = [local EXCEPT !.lock = Free] /\ CutGoes(u, "none")
      BY <3>1, <3>3 DEF CutGoes
    <3> QED BY <2>6, <3>2, <3>3 DEF LoadsLocal
  <2> QED BY <1>1, <2>2, <2>3, <2>4, <2>5, <2>6 DEF CutStep
<1>2. ASSUME NEW u \in Uploads, JobStep(u) PROVE LocalModelInv'
  BY <1>2 DEF JobStep, WorkerRefuses, BeginCutout, LoadModel, LoadProcessor, Loads, EndCutout
<1>3. ASSUME NEW r \in Releases, ReleaseStep(r) PROVE LocalModelInv'
  BY <1>3 DEF ReleaseStep, AskRelease, TryRelease, DropModel, DropProcessor, EndRelease, TellReleased
<1>4. CASE UNCHANGED cutVars
  BY <1>4 DEF cutVars
<1> QED BY <1>1, <1>2, <1>3, <1>4 DEF CutNext

\* The worker's model, and what its releases were told.
LEMMA WorkerKept ==
  ASSUME WorkerInv, ReleaseInv, [CutNext]_cutVars PROVE WorkerInv' /\ ReleaseInv'
<1> USE CutoutAssumption DEF WorkerInv, ReleaseInv, FeyFields
<1>1. ASSUME NEW u \in Uploads, CutStep(u) PROVE WorkerInv' /\ ReleaseInv'
  <2>1. UNCHANGED <<fey, release>>
    BY <1>1 DEF CutStep, Upload, WorkerAnswers, StopsAsking, Unasked, LooksForLocal, LocksLocal,
                LoadsLocal, UsesLocal
  <2>2. \/ UNCHANGED job
        \/ \E place \in {"none", "waiting"} :
              job' = [job EXCEPT ![u] = place] /\ job[u] \in {"none", "done", "failed"}
    BY <1>1 DEF CutStep, Upload, WorkerAnswers, StopsAsking, Unasked, LooksForLocal, LocksLocal,
                LoadsLocal, UsesLocal, JobGoes
  <2> QED BY <2>1, <2>2
<1>2. ASSUME NEW u \in Uploads, JobStep(u) PROVE WorkerInv' /\ ReleaseInv'
  <2>1. UNCHANGED release
    BY <1>2 DEF JobStep, WorkerRefuses, BeginCutout, LoadModel, LoadProcessor, Loads, EndCutout
  <2>2. CASE WorkerRefuses(u)
    BY <2>1, <2>2 DEF WorkerRefuses, JobGoes
  <2>3. CASE BeginCutout(u)
    BY <2>1, <2>3 DEF BeginCutout, JobGoes
  <2>4. CASE LoadModel(u)
    BY <2>1, <2>4 DEF LoadModel, JobGoes
  <2>5. CASE LoadProcessor(u)
    BY <2>1, <2>5 DEF LoadProcessor, JobGoes
  <2>6. CASE Loads(u)
    BY <2>1, <2>6 DEF Loads, JobGoes
  <2>7. CASE EndCutout(u)
    BY <2>1, <2>7 DEF EndCutout, JobGoes
  <2> QED BY <1>2, <2>2, <2>3, <2>4, <2>5, <2>6, <2>7 DEF JobStep
<1>3. ASSUME NEW r \in Releases, ReleaseStep(r) PROVE WorkerInv' /\ ReleaseInv'
  <2>1. UNCHANGED job
    BY <1>3 DEF ReleaseStep, AskRelease, TryRelease, DropModel, DropProcessor, EndRelease, TellReleased
  <2>2. CASE AskRelease(r)
    BY <2>1, <2>2 DEF AskRelease
  <2>3. CASE TryRelease(r)
    BY <2>1, <2>3 DEF TryRelease
  <2>4. CASE DropModel(r)
    BY <2>1, <2>4 DEF DropModel
  <2>5. CASE DropProcessor(r)
    BY <2>1, <2>5 DEF DropProcessor
  <2>6. CASE EndRelease(r)
    BY <2>1, <2>6 DEF EndRelease
  <2>7. CASE TellReleased(r)
    BY <2>1, <2>7 DEF TellReleased, ToldOf
  <2> QED BY <1>3, <2>2, <2>3, <2>4, <2>5, <2>6, <2>7 DEF ReleaseStep
<1>4. CASE UNCHANGED cutVars
  BY <1>4 DEF cutVars
<1> QED BY <1>1, <1>2, <1>3, <1>4 DEF CutNext

LEMMA CutKept == CutInv /\ [CutNext]_cutVars => CutInv'
BY LocalModelKept, WorkerKept DEF CutInv

LEMMA CutImplies == CutInv => CutoutsAreKept
<1> SUFFICES ASSUME CutInv PROVE CutoutsAreKept
  OBVIOUS
<1> USE CutoutAssumption
<1>1. CutoutsAreSerial
  <2>1. \A x \in Inside \cup Dropping : x = fey.lock /\ x # Free
    BY DEF CutInv, WorkerInv, Inside, Dropping
  <2>2. fey.lock # Free => fey.lock \in Inside \cup Dropping
    BY DEF CutInv, WorkerInv, Inside, Dropping
  <2>3. Inside \cup Dropping = IF fey.lock = Free THEN {} ELSE {fey.lock}
    BY <2>1, <2>2
  <2> QED BY <2>3 DEF CutInv, WorkerInv, CutoutsAreSerial
<1>2. ReleasedIsEmpty
  BY DEF CutInv, WorkerInv, ReleaseInv, ReleasedIsEmpty
<1>3. LocalLoadedOnce
  BY DEF CutInv, LocalModelInv, LocalLoadedOnce
<1> QED BY <1>1, <1>2, <1>3 DEF CutoutsAreKept

-----------------------------------------------------------------------------
(* Super resolution.                                                       *)

\* The entry says what was made of the effect. While a load is under way the effect is set
\* to what the caller wants and the entry still has the last configuration; otherwise the
\* effect has the entry's, or kept a part of another.
EntryInv ==
    /\ DOMAIN effect = {"created", "quality", "size", "loaded", "parted"}
    /\ DOMAIN entry = {"there", "loaded", "configuration"}
    /\ entry.there \in BOOLEAN /\ effect.loaded \in BOOLEAN
    /\ effect.created = IF entry.there THEN 1 ELSE 0
    /\ entry.configuration # Unset => entry.loaded
    /\ entry.loaded => effect.loaded
    /\ work.at = "loading" => Had = work.want
    /\ entry.configuration # Unset /\ work.at # "loading" =>
          effect.parted \/ Had = entry.configuration

\* What a call is for, and what it has found.
WorkInv ==
    /\ DOMAIN work = {"at", "by", "asked", "want"}
    /\ work.at \notin {"idle", "starting"} =>
          /\ work.by \in Adapters /\ ~adapter[work.by].unavailable
          /\ work.want \in Configurations
    /\ work.at \in {"binding", "running"} => entry.configuration = work.want
    /\ work.at = "running" => adapter[work.by].bound

\* What an adapter was told.
AdapterInv ==
    /\ DOMAIN adapter = Adapters
    /\ \A a \in Adapters :
          /\ DOMAIN adapter[a] = {"bound", "unavailable", "told"}
          /\ adapter[a].unavailable \in BOOLEAN
          /\ adapter[a].unavailable <=> adapter[a].told = "unavailable"
          /\ adapter[a].bound => adapter[a].told = "ready" /\ effect.loaded

EffectInv == EntryInv /\ WorkInv /\ AdapterInv

LEMMA EffectStarts == EffectInit => EffectInv
<1> SUFFICES ASSUME EffectInit PROVE EffectInv
  OBVIOUS
<1>1. work.at = "starting" /\ DOMAIN work = {"at", "by", "asked", "want"}
  BY DEF EffectInit, NoWork
<1>2. EntryInv
  BY <1>1 DEF EffectInit, EntryInv
<1>3. WorkInv
  BY <1>1 DEF WorkInv
<1>4. AdapterInv
  BY DEF EffectInit, AdapterInv, NewAdapter
<1> QED BY <1>2, <1>3, <1>4 DEF EffectInv

\* Nobody wants an effect that is not set.
LEMMA WantedIsSet == ASSUME NEW c \in Configurations PROVE c # Unset
BY EffectAssumption DEF Configurations, Unset

\* A call that fails leaves an adapter without the effect, for good or for now.
LEMMA LetsGoKept ==
  ASSUME AdapterInv, NEW a \in Adapters, NEW transient \in BOOLEAN, LetsGo(a, transient),
         effect.loaded => effect'.loaded
  PROVE  AdapterInv' /\ WorkInv' /\ work'.at = "idle"
<1> DEFINE g == [bound |-> FALSE, unavailable |-> ~transient, told |-> Reason(transient)]
<1>1. adapter' = [adapter EXCEPT ![a] = g] /\ work' = NoWork
  BY DEF LetsGo
<1>2. g.unavailable <=> g.told = "unavailable"
  BY DEF Reason
<1>3. /\ DOMAIN g = {"bound", "unavailable", "told"} /\ ~g.bound /\ g.unavailable \in BOOLEAN
  OBVIOUS
<1> HIDE DEF g
<1> QED BY <1>1, <1>2, <1>3 DEF AdapterInv, WorkInv, NoWork

LEMMA EffectKept == EffectInv /\ [EffectNext]_effectVars => EffectInv'
<1> SUFFICES ASSUME EffectInv, [EffectNext]_effectVars PROVE EffectInv'
  OBVIOUS
<1> USE DEF EffectInv
<1>1. CASE Preinitialize
  BY <1>1 DEF Preinitialize, EntryInv, WorkInv, AdapterInv, NoWork, Had
<1>2. ASSUME NEW a \in Adapters, CloseAdapter(a) \/ NewPipeline(a) PROVE EffectInv'
  <2>1. work.at = "idle" /\ UNCHANGED <<effect, entry, work>>
    BY <1>2 DEF CloseAdapter, NewPipeline
  <2>2. EntryInv' /\ WorkInv'
    BY <2>1 DEF EntryInv, WorkInv, Had
  <2>3. AdapterInv'
    <3>1. CASE adapter' = [adapter EXCEPT ![a].bound = FALSE]
      BY <2>1, <3>1 DEF AdapterInv
    <3>2. CASE adapter' = [adapter EXCEPT ![a] = NewAdapter]
      BY <2>1, <3>2 DEF NewAdapter, AdapterInv
    <3> QED BY <1>2, <3>1, <3>2 DEF CloseAdapter, NewPipeline
  <2> QED BY <2>2, <2>3
<1>3. ASSUME NEW a \in Adapters, Prepare(a) \/ Enhance(a) PROVE EffectInv'
  <2>1. PICK what \in {"prepare", "enhance"}, c \in Configurations :
          /\ work' = [at |-> "getting", by |-> a, asked |-> what, want |-> c]
          /\ work.at = "idle" /\ ~adapter[a].unavailable /\ UNCHANGED <<effect, entry, adapter>>
    BY <1>3 DEF Prepare, Enhance, AsksEffect
  <2> QED BY <2>1 DEF EntryInv, WorkInv, AdapterInv, Had
<1>4. CASE Finds \/ Creates
  <2>1. UNCHANGED <<adapter, effect.loaded, effect.parted, Had, entry.loaded, entry.configuration>>
        /\ work.at = "getting" /\ work' = [work EXCEPT !.at = "configuring"]
    BY <1>4 DEF Finds, Creates, Had, EntryInv
  <2>2. EntryInv'
    <3>1. CASE Finds
      BY <2>1, <3>1 DEF Finds, EntryInv, WorkInv, Had
    <3>2. CASE Creates
      <4>1. effect' = [effect EXCEPT !.created = @ + 1] /\ entry' = [entry EXCEPT !.there = TRUE]
            /\ ~entry.there
        BY <3>2 DEF Creates
      <4>2. effect'.created = 1 /\ entry'.there
        BY <4>1 DEF EntryInv
      <4> QED BY <2>1, <4>1, <4>2 DEF EntryInv, WorkInv
    <3> QED BY <1>4, <3>1, <3>2
  <2>3. WorkInv' /\ AdapterInv'
    BY <2>1 DEF WorkInv, AdapterInv
  <2> QED BY <2>2, <2>3
<1>5. CASE CreationFails
  <2>1. PICK transient \in BOOLEAN : LetsGo(work.by, transient)
    BY <1>5 DEF CreationFails, CallFails
  <2>2. work.by \in Adapters /\ UNCHANGED <<effect, entry>> /\ work.at = "getting"
    BY <1>5 DEF CreationFails, WorkInv
  <2>3. AdapterInv' /\ WorkInv' /\ work'.at = "idle"
    BY <2>1, <2>2, LetsGoKept
  <2>4. EntryInv'
    BY <2>2, <2>3 DEF EntryInv, Had
  <2> QED BY <2>3, <2>4
<1>6. CASE Configured
  BY <1>6 DEF Configured, EntryInv, WorkInv, AdapterInv, Had
<1>7. CASE Configure
  <2>1. /\ effect'.quality = work.want.quality /\ effect'.size = work.want.size
        /\ UNCHANGED <<effect.created, effect.loaded, entry, adapter>> /\ DOMAIN effect' = DOMAIN effect
        /\ work' = [work EXCEPT !.at = "loading"] /\ work.at = "configuring"
    BY <1>7 DEF Configure, EntryInv
  <2>2. work.want \in Configurations
    BY <2>1 DEF WorkInv
  <2>3. Had' = work.want
    BY <2>1, <2>2 DEF Had, Configurations
  <2>4. EntryInv'
    BY <2>1, <2>3 DEF EntryInv, WorkInv
  <2> QED BY <2>1, <2>4 DEF WorkInv, AdapterInv
<1>8. CASE ConfigureFails
  <2>1. work.at = "configuring" /\ LetsGo(work.by, FALSE) /\ UNCHANGED entry /\ work.by \in Adapters
    BY <1>8 DEF ConfigureFails, CallFails, WorkInv
  <2>2. /\ UNCHANGED <<effect.created, effect.loaded>> /\ DOMAIN effect' = DOMAIN effect
        /\ UNCHANGED effect \/ effect'.parted
    BY <1>8 DEF ConfigureFails, EntryInv
  <2>3. AdapterInv' /\ WorkInv' /\ work'.at = "idle"
    BY <2>1, <2>2, LetsGoKept
  <2>4. EntryInv'
    BY <2>1, <2>2, <2>3 DEF EntryInv, Had
  <2> QED BY <2>3, <2>4
<1>9. CASE Load
  <2>1. /\ effect' = [effect EXCEPT !.loaded = TRUE] /\ work.at = "loading"
        /\ entry' = [entry EXCEPT !.loaded = TRUE, !.configuration = work.want]
        /\ work' = [work EXCEPT !.at = "binding"] /\ UNCHANGED adapter
    BY <1>9 DEF Load
  <2>2. Had' = work.want
    BY <2>1 DEF EntryInv, Had
  <2>3. EntryInv'
    BY <2>1, <2>2 DEF EntryInv, WorkInv
  <2> QED BY <2>1, <2>3 DEF EntryInv, WorkInv, AdapterInv
<1>10. CASE LoadFails
  <2>1. /\ work.at = "loading" /\ LetsGo(work.by, FALSE) /\ UNCHANGED <<effect, entry>>
        /\ work.by \in Adapters /\ entry.configuration = Unset
    BY <1>10 DEF LoadFails, CallFails, WorkInv, EntryInv
  <2>2. AdapterInv' /\ WorkInv' /\ work'.at = "idle"
    BY <2>1, LetsGoKept
  <2>3. EntryInv'
    BY <2>1, <2>2 DEF EntryInv
  <2> QED BY <2>2, <2>3
<1>11. CASE Bind
  <2>1. /\ adapter' = [adapter EXCEPT ![work.by].bound = TRUE, ![work.by].told = "ready"]
        /\ work.at = "binding" /\ work.by \in Adapters /\ UNCHANGED <<effect, entry>>
        /\ work' = NoWork \/ work' = [work EXCEPT !.at = "running"]
    BY <1>11 DEF Bind, WorkInv
  <2>2. effect.loaded /\ ~adapter[work.by].unavailable
    BY <2>1, WantedIsSet DEF WorkInv, EntryInv
  <2>3. AdapterInv'
    BY <2>1, <2>2 DEF AdapterInv
  <2>4. adapter'[work.by].bound /\ ~adapter'[work.by].unavailable
    BY <2>1, <2>2 DEF AdapterInv
  <2>5. WorkInv'
    <3>1. CASE work' = NoWork
      BY <3>1 DEF WorkInv, NoWork
    <3>2. CASE work' = [work EXCEPT !.at = "running"]
      BY <2>1, <2>4, <3>2 DEF WorkInv
    <3> QED BY <2>1, <3>1, <3>2
  <2> QED BY <2>1, <2>3, <2>5 DEF EntryInv, Had, NoWork, WorkInv
<1>12. CASE RunFrames
  <2>1. work.at = "running" /\ work.by \in Adapters /\ UNCHANGED <<effect, entry>>
    BY <1>12 DEF RunFrames, WorkInv
  <2>2. CASE work' = NoWork /\ UNCHANGED adapter
    BY <2>1, <2>2 DEF EntryInv, WorkInv, AdapterInv, Had, NoWork
  <2>3. CASE LetsGo(work.by, FALSE)
    <3>1. AdapterInv' /\ WorkInv' /\ work'.at = "idle"
      BY <2>1, <2>3, LetsGoKept
    <3> QED BY <2>1, <3>1 DEF EntryInv, Had
  <2> QED BY <1>12, <2>2, <2>3 DEF RunFrames, CallFails
<1>13. CASE UNCHANGED effectVars
  BY <1>13 DEF effectVars, EntryInv, WorkInv, AdapterInv, Had
<1> QED BY <1>1, <1>2, <1>3, <1>4, <1>5, <1>6, <1>7, <1>8, <1>9, <1>10, <1>11, <1>12, <1>13 DEF EffectNext

LEMMA EffectImplies == EffectInv => EffectsAreKept
<1> SUFFICES ASSUME EffectInv PROVE EffectsAreKept
  OBVIOUS
<1> USE DEF EffectInv
<1>1. ASSUME work.at = "running"
      PROVE  /\ effect.loaded /\ (effect.parted \/ Had = work.want)
             /\ adapter[work.by].bound /\ ~adapter[work.by].unavailable
  <2>1. entry.configuration = work.want /\ work.want # Unset
    BY <1>1, WantedIsSet DEF WorkInv
  <2> QED BY <1>1, <2>1 DEF EntryInv, WorkInv
<1> QED BY <1>1 DEF EntryInv, AdapterInv, EffectsAreKept

-----------------------------------------------------------------------------
(* The latencies.                                                          *)

TurnRecord == [turn : Names, session : Nat, spoken : BOOLEAN,
               status : {"active", "complete", "failed"}, audible : Nat]

TurnInv ==
    /\ session \in [number : Nat, collecting : BOOLEAN] /\ played \in Nat
    /\ turns \in Seq(TurnRecord)
    /\ TurnsAreKept

LEMMA TurnStarts == TurnInit => TurnInv
<1> SUFFICES ASSUME TurnInit PROVE TurnInv
  OBVIOUS
<1>1. turns = <<>> /\ turns \in Seq(TurnRecord) /\ Len(turns) = 0 /\ DOMAIN turns = {}
  BY DEF TurnInit
<1>2. session \in [number : Nat, collecting : BOOLEAN] /\ played \in Nat
  BY DEF TurnInit
<1> QED BY <1>1, <1>2, TurnAssumption DEF TurnInv, TurnsAreKept

\* A turn that is marked keeps its name, its session and its observation, and goes on to have
\* begun to speak.
LEMMA MarkedIs ==
  ASSUME NEW r \in TurnRecord, NEW p \in Phases
  PROVE  /\ Marked(r, p) \in TurnRecord
         /\ Marked(r, p).turn = r.turn /\ Marked(r, p).session = r.session
         /\ Marked(r, p).audible = r.audible /\ (r.spoken => Marked(r, p).spoken)
<1> DEFINE spoken == r.spoken \/ p = "tts_first_audio"
           status == Status(r.status, p)
<1>1. status \in {"active", "complete", "failed"} /\ spoken \in BOOLEAN /\ (r.spoken => spoken)
  BY DEF Status, TurnRecord
<1>2. Marked(r, p) = [r EXCEPT !.spoken = spoken, !.status = status]
  BY DEF Marked
<1> HIDE DEF spoken, status
<1>3. /\ Marked(r, p).turn = r.turn /\ Marked(r, p).session = r.session
      /\ Marked(r, p).audible = r.audible /\ Marked(r, p).spoken = spoken
      /\ Marked(r, p).status = status
  BY <1>1, <1>2 DEF TurnRecord
<1>4. Marked(r, p) = [turn |-> r.turn, session |-> r.session, spoken |-> spoken,
                      status |-> status, audible |-> r.audible]
  BY <1>2, <1>3 DEF TurnRecord
<1> QED BY <1>1, <1>3, <1>4 DEF TurnRecord

\* So does one that is heard, which gets the observation.
LEMMA HeardIs ==
  ASSUME NEW r \in TurnRecord, NEW n \in Nat
  PROVE  LET m == [r EXCEPT !.audible = n] IN
         /\ m \in TurnRecord /\ m.turn = r.turn /\ m.session = r.session
         /\ m.audible = n /\ m.spoken = r.spoken
BY DEF TurnRecord

LEMMA TurnKept == TurnInv /\ [MetricsNext]_turnVars => TurnInv'
<1> SUFFICES ASSUME TurnInv, [MetricsNext]_turnVars PROVE TurnInv'
  OBVIOUS
<1> USE TurnAssumption
<1>0. /\ turns \in Seq(TurnRecord) /\ Len(turns) \in Nat /\ DOMAIN turns = 1..Len(turns)
      /\ \A i \in DOMAIN turns : turns[i] \in TurnRecord
  BY LenProperties, ElementOfSeq DEF TurnInv
<1>1. CASE BeginSession
  <2>1. turns' = <<>> /\ turns' \in Seq(TurnRecord) /\ Len(turns') = 0 /\ DOMAIN turns' = {}
    BY <1>1 DEF BeginSession
  <2>2. session' \in [number : Nat, collecting : BOOLEAN] /\ played' \in Nat
    BY <1>1 DEF BeginSession, TurnInv
  <2> QED BY <2>1, <2>2 DEF TurnInv, TurnsAreKept
<1>2. CASE EndSession
  <2>1. session' \in [number : Nat, collecting : BOOLEAN] /\ session'.number = session.number
    BY <1>2 DEF EndSession, TurnInv
  <2> QED BY <1>2, <2>1 DEF EndSession, TurnInv, TurnsAreKept
<1>3. ASSUME NEW t \in Names, NEW p \in Phases, RecordKnown(t, p) PROVE TurnInv'
  <2>1. PICK i \in DOMAIN turns : turns' = [turns EXCEPT ![i] = Marked(turns[i], p)]
    BY <1>3 DEF RecordKnown, Of
  <2>2. UNCHANGED <<session, played>>
    BY <1>3 DEF RecordKnown
  <2> DEFINE m == Marked(turns[i], p)
  <2>3. /\ m \in TurnRecord /\ m.turn = turns[i].turn /\ m.session = turns[i].session
        /\ m.audible = turns[i].audible /\ (turns[i].spoken => m.spoken)
    BY <1>0, MarkedIs
  <2>4. turns' = [turns EXCEPT ![i] = m]
    BY <2>1
  <2> HIDE DEF m
  <2>5. turns' \in Seq(TurnRecord) /\ Len(turns') = Len(turns) /\ DOMAIN turns' = DOMAIN turns
    BY <1>0, <2>3, <2>4, ExceptSeq
  <2>6. \A j \in DOMAIN turns :
          /\ turns'[j].turn = turns[j].turn /\ turns'[j].session = turns[j].session
          /\ turns'[j].audible = turns[j].audible /\ (turns[j].spoken => turns'[j].spoken)
    <3>1. \A j \in DOMAIN turns : turns'[j] = IF j = i THEN m ELSE turns[j]
      BY <2>4
    <3> QED BY <2>3, <3>1
  <2>7. TurnsAreKept'
    <3>1. \A j \in DOMAIN turns' :
            /\ turns'[j].session = session'.number
            /\ turns'[j].audible # 0 => turns'[j].spoken /\ turns'[j].audible <= played'
      BY <2>2, <2>5, <2>6 DEF TurnInv, TurnsAreKept
    <3>2. \A j \in DOMAIN turns', k \in DOMAIN turns' :
            j # k => /\ turns'[j].turn # turns'[k].turn
                     /\ turns'[j].audible # turns'[k].audible \/ turns'[j].audible = 0
      BY <2>5, <2>6 DEF TurnInv, TurnsAreKept
    <3> QED BY <2>5, <3>1, <3>2 DEF TurnInv, TurnsAreKept
  <2> QED BY <2>2, <2>5, <2>7 DEF TurnInv
<1>4. ASSUME NEW t \in Names, NEW p \in Phases, RecordNew(t, p) PROVE TurnInv'
  <2> DEFINE kept == IF Len(turns) < MaxKept THEN turns ELSE Tail(turns)
             m == Marked(NewRecord(t), p)
  <2>1. turns' = Append(kept, m) /\ UNCHANGED <<session, played>> /\ Of(t) = {}
    BY <1>4 DEF RecordNew
  <2>2. NewRecord(t) \in TurnRecord /\ NewRecord(t).turn = t /\ NewRecord(t).audible = 0
        /\ NewRecord(t).session = session.number
    <3>1. session.number \in Nat
      BY DEF TurnInv
    <3> QED BY <3>1 DEF NewRecord, TurnRecord
  <2>3. m \in TurnRecord /\ m.turn = t /\ m.audible = 0 /\ m.session = session.number
    BY <2>2, MarkedIs
  <2>4. \A i \in DOMAIN turns : turns[i].turn # t
    BY <2>1 DEF Of
  <2> HIDE DEF m
  <2>5. /\ kept \in Seq(TurnRecord) /\ Len(kept) < MaxKept
        /\ \E d \in {0, 1} : /\ Len(kept) = Len(turns) - d
                             /\ \A i \in 1..Len(kept) : kept[i] = turns[i + d]
    <3>1. CASE Len(turns) < MaxKept
      BY <1>0, <3>1
    <3>2. CASE ~(Len(turns) < MaxKept)
      <4>1. Len(turns) = MaxKept /\ turns # <<>>
        <5>1. Len(turns) <= MaxKept /\ MaxKept # 0 /\ MaxKept \in Nat /\ Len(turns) \in Nat
          BY <1>0, TurnAssumption DEF TurnInv, TurnsAreKept
        <5>2. Len(turns) = MaxKept /\ Len(turns) # 0
          BY <3>2, <5>1
        <5> QED BY <5>2
      <4>2. /\ Tail(turns) \in Seq(TurnRecord) /\ Len(Tail(turns)) = Len(turns) - 1
            /\ \A i \in 1..Len(Tail(turns)) : Tail(turns)[i] = turns[i + 1]
        BY <1>0, <4>1, HeadTailProperties
      <4> QED BY <1>0, <3>2, <4>1, <4>2
    <3> QED BY <3>1, <3>2
  <2> HIDE DEF kept
  <2>6. /\ turns' \in Seq(TurnRecord) /\ Len(turns') = Len(kept) + 1
        /\ DOMAIN turns' = 1..(Len(kept) + 1) /\ turns'[Len(kept) + 1] = m
        /\ \A i \in 1..Len(kept) : turns'[i] = kept[i]
    BY <2>1, <2>3, <2>5, AppendProperties
  <2>7. PICK d \in {0, 1} : /\ Len(kept) = Len(turns) - d
                            /\ \A i \in 1..Len(kept) : kept[i] = turns[i + d]
    BY <2>5
  <2>8. \A i \in 1..Len(kept) : i + d \in DOMAIN turns /\ turns'[i] = turns[i + d]
    BY <1>0, <2>6, <2>7
  <2>9. Len(kept) \in Nat
    BY <2>5, LenProperties
  <2>10. \A i \in DOMAIN turns' : i = Len(kept) + 1 \/ i \in 1..Len(kept)
    BY <2>6, <2>9
  <2>11. Len(turns') <= MaxKept
    BY <2>5, <2>6, <2>9
  <2>12. \A i \in DOMAIN turns' :
            /\ turns'[i].session = session'.number
            /\ turns'[i].audible # 0 => turns'[i].spoken /\ turns'[i].audible <= played'
    BY <2>1, <2>3, <2>6, <2>8, <2>10 DEF TurnInv, TurnsAreKept
  <2>13. \A i \in DOMAIN turns', j \in DOMAIN turns' :
            i # j => /\ turns'[i].turn # turns'[j].turn
                     /\ turns'[i].audible # turns'[j].audible \/ turns'[i].audible = 0
    <3> SUFFICES ASSUME NEW i \in DOMAIN turns', NEW j \in DOMAIN turns', i # j
                 PROVE  /\ turns'[i].turn # turns'[j].turn
                        /\ turns'[i].audible # turns'[j].audible \/ turns'[i].audible = 0
      OBVIOUS
    <3>1. CASE i = Len(kept) + 1
      BY <2>3, <2>4, <2>6, <2>8, <2>10, <3>1
    <3>2. CASE j = Len(kept) + 1
      BY <2>3, <2>4, <2>6, <2>8, <2>10, <3>2
    <3>3. CASE i \in 1..Len(kept) /\ j \in 1..Len(kept)
      <4>1. i + d \in DOMAIN turns /\ j + d \in DOMAIN turns /\ i + d # j + d
        BY <2>7, <2>8, <2>9, <3>3
      <4> QED BY <2>8, <3>3, <4>1 DEF TurnInv, TurnsAreKept
    <3> QED BY <2>10, <3>1, <3>2, <3>3
  <2> QED BY <2>1, <2>6, <2>11, <2>12, <2>13 DEF TurnInv, TurnsAreKept
<1>5. CASE Audible
  <2>1. played' = played + 1 /\ UNCHANGED session /\ played \in Nat
    BY <1>5 DEF Audible, TurnInv
  <2>2. CASE UNCHANGED turns
    BY <1>0, <2>1, <2>2 DEF TurnInv, TurnsAreKept, TurnRecord
  <2>3. CASE \E i \in DOMAIN turns :
                Speaks(i) /\ turns' = [turns EXCEPT ![i].audible = played + 1]
    <3>1. PICK i \in DOMAIN turns :
                Speaks(i) /\ turns' = [turns EXCEPT ![i] = [turns[i] EXCEPT !.audible = played + 1]]
      BY <2>3
    <3> DEFINE m == [turns[i] EXCEPT !.audible = played + 1]
    <3>2. /\ m \in TurnRecord /\ m.turn = turns[i].turn /\ m.session = turns[i].session
          /\ m.audible = played + 1 /\ m.spoken
      <4>1. turns[i] \in TurnRecord /\ played + 1 \in Nat /\ turns[i].spoken
        BY <1>0, <2>1, <3>1 DEF Speaks
      <4> QED BY <4>1, HeardIs
    <3>3. turns' = [turns EXCEPT ![i] = m]
      BY <3>1
    <3> HIDE DEF m
    <3>4. turns' \in Seq(TurnRecord) /\ Len(turns') = Len(turns) /\ DOMAIN turns' = DOMAIN turns
      BY <1>0, <3>2, <3>3, ExceptSeq
    <3>5. \A j \in DOMAIN turns : turns[j].audible \in Nat /\ turns[j].audible <= played
      <4>1. \A j \in DOMAIN turns : turns[j].audible \in Nat
        BY <1>0 DEF TurnRecord
      <4> QED BY <2>1, <4>1 DEF TurnInv, TurnsAreKept
    <3>6. \A j \in DOMAIN turns : turns'[j] = IF j = i THEN m ELSE turns[j]
      BY <3>3
    <3>7. \A j \in DOMAIN turns :
            /\ turns'[j].turn = turns[j].turn /\ turns'[j].session = turns[j].session
            /\ IF j = i THEN turns'[j].audible = played + 1 /\ turns'[j].spoken
               ELSE turns'[j].audible = turns[j].audible /\ turns'[j].spoken = turns[j].spoken
      BY <3>2, <3>6
    <3>8. TurnsAreKept'
      <4>1. \A j \in DOMAIN turns' :
              /\ turns'[j].session = session'.number
              /\ turns'[j].audible # 0 => turns'[j].spoken /\ turns'[j].audible <= played'
        BY <2>1, <3>4, <3>5, <3>7 DEF TurnInv, TurnsAreKept
      <4>2. \A j \in DOMAIN turns', k \in DOMAIN turns' :
              j # k => /\ turns'[j].turn # turns'[k].turn
                       /\ turns'[j].audible # turns'[k].audible \/ turns'[j].audible = 0
        <5> SUFFICES ASSUME NEW j \in DOMAIN turns, NEW k \in DOMAIN turns, j # k
                     PROVE  /\ turns'[j].turn # turns'[k].turn
                            /\ turns'[j].audible # turns'[k].audible \/ turns'[j].audible = 0
          BY <3>4
        <5>1. /\ turns[j].turn # turns[k].turn
              /\ turns[j].audible # turns[k].audible \/ turns[j].audible = 0
          BY DEF TurnInv, TurnsAreKept
        <5>2. turns[j].audible # played + 1 /\ turns[k].audible # played + 1 /\ played + 1 # 0
          BY <2>1, <3>5
        <5> QED BY <3>7, <5>1, <5>2
      <4> QED BY <3>4, <4>1, <4>2 DEF TurnInv, TurnsAreKept
    <3> QED BY <2>1, <3>4, <3>8 DEF TurnInv
  <2> QED BY <1>5, <2>2, <2>3 DEF Audible
<1>6. CASE UNCHANGED turnVars
  BY <1>6 DEF turnVars, TurnInv, TurnsAreKept
<1> QED BY <1>1, <1>2, <1>3, <1>4, <1>5, <1>6 DEF MetricsNext

LEMMA TurnImplies == TurnInv => TurnsAreKept
BY DEF TurnInv

-----------------------------------------------------------------------------
(* The voices a provider keeps.                                            *)

\* The provider has a voice once, and only such as were made.
InventoryInv ==
    /\ inventory \in Seq(VoiceIds)
    /\ \A i \in DOMAIN inventory, j \in DOMAIN inventory : i # j => inventory[i] # inventory[j]
    /\ Ids(inventory) \subseteq made

CloneInv ==
    /\ DOMAIN clone = {"at", "kind", "voice"}
    /\ clone.at \in {"policy", "upload", "create"} => clone.voice \in VoiceIds
    /\ clone.at \in {"created", "told"} => clone.voice \in made

\* What is listed has what was there all the time and stands before the next page.
ListInv ==
    /\ DOMAIN query = {"at", "page", "listed", "kept"}
    /\ query.page \in Nat /\ query.listed \in Seq(VoiceIds)
    /\ Len(query.listed) <= MaxListed
    /\ \A i \in DOMAIN query.listed, j \in DOMAIN query.listed :
          i # j => query.listed[i] # query.listed[j]
    /\ query.kept \subseteq Ids(inventory)
    /\ query.at = "asking" =>
          \A i \in DOMAIN inventory :
             i <= query.page * PageSize /\ inventory[i] \in query.kept =>
                inventory[i] \in Ids(query.listed)
    /\ query.at = "whole" => query.kept \subseteq Ids(query.listed)

ProviderInv == InventoryInv /\ CloneInv /\ ListInv

LEMMA ProviderStarts == VoicesInit => ProviderInv
<1> SUFFICES ASSUME VoicesInit PROVE ProviderInv
  OBVIOUS
<1>1. inventory = <<>> /\ made = {} /\ clone = NoClone /\ query = NoQuery
  BY DEF VoicesInit
<1>2. <<>> \in Seq(VoiceIds) /\ Len(<<>>) = 0 /\ DOMAIN <<>> = {}
  OBVIOUS
<1>3. InventoryInv
  BY <1>1, <1>2 DEF InventoryInv, Ids
<1>4. CloneInv
  BY <1>1 DEF CloneInv, NoClone
<1>5. ListInv
  <2>1. query.page = 0 /\ query.listed = <<>> /\ query.kept = {} /\ query.at = "none"
        /\ DOMAIN query = {"at", "page", "listed", "kept"}
    BY <1>1 DEF NoQuery
  <2> QED BY <1>2, <2>1, InventoryAssumption DEF ListInv
<1> QED BY <1>3, <1>4, <1>5 DEF ProviderInv

LEMMA InventorySeen ==
  ASSUME InventoryInv
  PROVE  /\ Len(inventory) \in Nat /\ DOMAIN inventory = 1..Len(inventory)
         /\ \A i \in DOMAIN inventory : inventory[i] \in VoiceIds /\ inventory[i] \in made
BY LenProperties, ElementOfSeq DEF InventoryInv, Ids

\* A voice is made: the others keep their order, and move away from the beginning.
LEMMA MakesKept ==
  ASSUME InventoryInv, ListInv, NEW v \in VoiceIds, Makes(v), UNCHANGED query
  PROVE  InventoryInv' /\ ListInv' /\ made \subseteq made' /\ v \in made'
<1> DEFINE L == Len(inventory)
<1>0. L \in Nat /\ DOMAIN inventory = 1..L
      /\ \A i \in 1..L : inventory[i] \in VoiceIds /\ inventory[i] \in made
  BY InventorySeen
<1>1. PICK n \in 0..L : inventory' = InsertedAfter(n, v)
  BY DEF Makes
<1>2. v \notin made /\ made' = made \cup {v}
  BY DEF Makes
<1> DEFINE s == inventory'
<1> HIDE DEF L
<1>3. s = [i \in 1..(L + 1) |-> IF i <= n THEN inventory[i]
                                ELSE IF i = n + 1 THEN v ELSE inventory[i - 1]]
  BY <1>1 DEF InsertedAfter, L
<1>4. \A i \in 1..(L + 1) :
         \/ i <= n /\ i \in 1..L /\ s[i] = inventory[i]
         \/ i = n + 1 /\ s[i] = v
         \/ i > n + 1 /\ i - 1 \in 1..L /\ s[i] = inventory[i - 1]
  BY <1>0, <1>3
<1>5. \A i \in 1..(L + 1) : s[i] \in VoiceIds /\ s[i] \in made'
  BY <1>0, <1>2, <1>4
<1>6. s \in Seq(VoiceIds) /\ DOMAIN s = 1..(L + 1)
  <2>1. s \in [1..(L + 1) -> VoiceIds] /\ L + 1 \in Nat
    BY <1>0, <1>3, <1>5
  <2> QED BY <2>1, SeqDef
<1>7. \A i \in 1..L : \E j \in 1..(L + 1) : s[j] = inventory[i]
  <2> SUFFICES ASSUME NEW i \in 1..L PROVE \E j \in 1..(L + 1) : s[j] = inventory[i]
    OBVIOUS
  <2>1. CASE i <= n
    <3>1. i \in 1..(L + 1) /\ s[i] = inventory[i]
      BY <1>0, <1>3, <2>1
    <3> QED BY <3>1
  <2>2. CASE ~(i <= n)
    <3>1. i + 1 \in 1..(L + 1) /\ s[i + 1] = inventory[i]
      BY <1>0, <1>3, <2>2
    <3> QED BY <3>1
  <2> QED BY <2>1, <2>2
<1> HIDE DEF s
<1>8. \A i \in 1..(L + 1), j \in 1..(L + 1) : i # j => s[i] # s[j]
  <2> SUFFICES ASSUME NEW i \in 1..(L + 1), NEW j \in 1..(L + 1), i # j PROVE s[i] # s[j]
    OBVIOUS
  <2>1. CASE s[i] = v \/ s[j] = v
    BY <1>0, <1>2, <1>4, <2>1
  <2>2. CASE s[i] # v /\ s[j] # v
    <3>1. PICK a \in 1..L : s[i] = inventory[a] /\ ((i <= n /\ a = i) \/ (i > n + 1 /\ a = i - 1))
      <4>1. CASE i <= n /\ i \in 1..L /\ s[i] = inventory[i]
        BY <4>1
      <4>2. CASE i > n + 1 /\ i - 1 \in 1..L /\ s[i] = inventory[i - 1]
        BY <4>2
      <4> QED BY <1>4, <2>2, <4>1, <4>2
    <3>2. PICK b \in 1..L : s[j] = inventory[b] /\ ((j <= n /\ b = j) \/ (j > n + 1 /\ b = j - 1))
      <4>1. CASE j <= n /\ j \in 1..L /\ s[j] = inventory[j]
        BY <4>1
      <4>2. CASE j > n + 1 /\ j - 1 \in 1..L /\ s[j] = inventory[j - 1]
        BY <4>2
      <4> QED BY <1>4, <2>2, <4>1, <4>2
    <3>3. a # b
      BY <1>0, <3>1, <3>2
    <3> QED BY <1>0, <3>1, <3>2, <3>3 DEF InventoryInv
  <2> QED BY <2>1, <2>2
<1>9. InventoryInv'
  BY <1>5, <1>6, <1>8 DEF InventoryInv, Ids, s
<1>10. query.kept \subseteq Ids(s)
  BY <1>0, <1>6, <1>7 DEF ListInv, Ids
<1>11. v \notin query.kept
  BY <1>0, <1>2 DEF ListInv, Ids
<1>12. \A i \in 1..(L + 1) : s[i] \in query.kept => \E a \in 1..L : a <= i /\ s[i] = inventory[a]
  BY <1>0, <1>4, <1>11
<1>13. query.at = "asking" =>
          \A i \in 1..(L + 1) : i <= query.page * PageSize /\ s[i] \in query.kept =>
             s[i] \in Ids(query.listed)
  <2> DEFINE R == query.page * PageSize
  <2>1. R \in Nat
    BY InventoryAssumption DEF ListInv
  <2>2. query.at = "asking" => \A i \in 1..L : i <= R /\ inventory[i] \in query.kept =>
           inventory[i] \in Ids(query.listed)
    BY <1>0 DEF ListInv
  <2> HIDE DEF R
  <2>3. query.at = "asking" =>
          \A i \in 1..(L + 1) : i <= R /\ s[i] \in query.kept => s[i] \in Ids(query.listed)
    BY <1>0, <1>12, <2>1, <2>2
  <2> QED BY <2>3 DEF R
<1>14. ListInv'
  BY <1>6, <1>10, <1>13 DEF ListInv, s
<1> QED BY <1>2, <1>9, <1>14

LEMMA DeletedKept ==
  ASSUME InventoryInv, ListInv, NEW n \in DOMAIN inventory, DeletedElsewhere(n)
  PROVE  InventoryInv' /\ ListInv'
<1> DEFINE L == Len(inventory)
           s == inventory'
<1>0. L \in Nat /\ DOMAIN inventory = 1..L
      /\ \A i \in 1..L : inventory[i] \in VoiceIds /\ inventory[i] \in made
  BY InventorySeen
<1>1. s = [i \in 1..(L - 1) |-> IF i < n THEN inventory[i] ELSE inventory[i + 1]]
      /\ query' = [query EXCEPT !.kept = {}] /\ UNCHANGED made
  BY DEF DeletedElsewhere
<1> HIDE DEF L
<1>2. \A i \in 1..(L - 1) : \E a \in 1..L :
         s[i] = inventory[a] /\ ((i < n /\ a = i) \/ (i >= n /\ a = i + 1))
  <2> SUFFICES ASSUME NEW i \in 1..(L - 1)
               PROVE \E a \in 1..L : s[i] = inventory[a] /\ ((i < n /\ a = i) \/ (i >= n /\ a = i + 1))
    OBVIOUS
  <2>1. i \in 1..L /\ i + 1 \in 1..L /\ i \in Int /\ n \in Int
    BY <1>0
  <2>2. s[i] = IF i < n THEN inventory[i] ELSE inventory[i + 1]
    BY <1>1
  <2>3. CASE i < n
    BY <2>1, <2>2, <2>3
  <2>4. CASE i >= n /\ ~(i < n)
    BY <2>1, <2>2, <2>4
  <2> QED BY <2>1, <2>3, <2>4
<1>3. s \in Seq(VoiceIds) /\ DOMAIN s = 1..(L - 1)
  <2>1. s \in [1..(L - 1) -> VoiceIds] /\ L - 1 \in Nat
    BY <1>0, <1>1, <1>2
  <2> QED BY <2>1, SeqDef
<1> HIDE DEF s
<1>4. \A i \in 1..(L - 1), j \in 1..(L - 1) : i # j => s[i] # s[j]
  <2> SUFFICES ASSUME NEW i \in 1..(L - 1), NEW j \in 1..(L - 1), i # j PROVE s[i] # s[j]
    OBVIOUS
  <2>1. PICK a \in 1..L : s[i] = inventory[a] /\ ((i < n /\ a = i) \/ (i >= n /\ a = i + 1))
    BY <1>2
  <2>2. PICK b \in 1..L : s[j] = inventory[b] /\ ((j < n /\ b = j) \/ (j >= n /\ b = j + 1))
    BY <1>2
  <2>3. a # b
    BY <1>0, <2>1, <2>2
  <2> QED BY <1>0, <2>1, <2>2, <2>3 DEF InventoryInv
<1>5. InventoryInv'
  BY <1>0, <1>1, <1>2, <1>3, <1>4 DEF InventoryInv, Ids, s
<1>6. ListInv'
  <2>1. /\ query'.at = query.at /\ query'.page = query.page /\ query'.listed = query.listed
        /\ query'.kept = {} /\ DOMAIN query' = DOMAIN query
    BY <1>1 DEF ListInv
  <2> QED BY <2>1 DEF ListInv
<1> QED BY <1>5, <1>6

LEMMA ClonedKept ==
  ASSUME InventoryInv, CloneInv, ListInv,
         AskClone \/ GetPolicy \/ UploadAudio \/ CreateVoice \/ TellsClone \/ CloneFails
  PROVE  InventoryInv' /\ CloneInv' /\ ListInv'
<1>1. CASE CreateVoice
  <2>1. clone.voice \in VoiceIds /\ clone' = [clone EXCEPT !.at = "created"] /\ UNCHANGED query
    BY <1>1 DEF CreateVoice, CloneInv
  <2>2. CASE Makes(clone.voice)
    BY <2>1, <2>2, MakesKept DEF CloneInv
  <2>3. CASE made' = made \cup {clone.voice} /\ UNCHANGED inventory
    BY <2>1, <2>3 DEF InventoryInv, CloneInv, ListInv
  <2> QED BY <1>1, <2>2, <2>3 DEF CreateVoice
<1>2. CASE AskClone
  <2>1. PICK v \in VoiceIds :
           clone' \in {[at |-> "create", kind |-> "address", voice |-> v],
                       [at |-> "policy", kind |-> "bailian", voice |-> v],
                       [at |-> "upload", kind |-> "minimax", voice |-> v]}
    BY <1>2 DEF AskClone
  <2>2. DOMAIN clone' = {"at", "kind", "voice"} /\ clone'.voice = v
        /\ clone'.at \in {"create", "policy", "upload"}
    BY <2>1
  <2> QED BY <1>2, <2>2 DEF AskClone, InventoryInv, CloneInv, ListInv
<1>3. CASE GetPolicy \/ UploadAudio \/ TellsClone \/ CloneFails
  BY <1>3 DEF GetPolicy, UploadAudio, TellsClone, CloneFails, InventoryInv, CloneInv, ListInv
<1> QED BY <1>1, <1>2, <1>3

\* What a page has: the voices from where the last one ended, as many as fit.
LEMMA PageIs ==
  ASSUME InventoryInv, ListInv
  PROVE  LET R == query.page * PageSize IN
         /\ R \in Nat /\ (query.page + 1) * PageSize = R + PageSize
         /\ Page \in Seq(VoiceIds) /\ Len(Page) \in Nat /\ DOMAIN Page = 1..Len(Page)
         /\ \A m \in DOMAIN Page : R + m \in DOMAIN inventory /\ Page[m] = inventory[R + m]
         /\ \A i \in DOMAIN inventory : R < i /\ i <= R + PageSize =>
               i - R \in DOMAIN Page /\ Page[i - R] = inventory[i]
         /\ Len(Page) < PageSize => Len(inventory) <= R + PageSize
<1> DEFINE R == query.page * PageSize
           L == Len(inventory)
           e == IF (query.page + 1) * PageSize < L THEN (query.page + 1) * PageSize ELSE L
<1>0. L \in Nat /\ DOMAIN inventory = 1..L /\ \A i \in 1..L : inventory[i] \in VoiceIds
  BY InventorySeen
<1>1. query.page \in Nat /\ PageSize \in Nat /\ PageSize # 0
  BY InventoryAssumption DEF ListInv
<1>2. R \in Nat /\ (query.page + 1) * PageSize = R + PageSize
  BY <1>1
<1>3. Page = SubSeq(inventory, R + 1, e)
  BY DEF Page
<1>4. e \in Nat /\ e <= L /\ (e = L \/ e = R + PageSize) /\ e <= R + PageSize
  <2>1. e = IF R + PageSize < L THEN R + PageSize ELSE L
    BY <1>2
  <2> HIDE DEF e, R, L
  <2> QED BY <1>0, <1>1, <1>2, <2>1
<1>5. e = L \/ (e = R + PageSize /\ R + PageSize < L)
  <2>1. e = IF R + PageSize < L THEN R + PageSize ELSE L
    BY <1>2
  <2> HIDE DEF e, R, L
  <2> QED BY <1>0, <1>1, <1>2, <2>1
<1> HIDE DEF R, L, e
<1>6. \A i \in (R + 1)..e : inventory[i] \in VoiceIds
  BY <1>0, <1>2, <1>4
<1>7. /\ Page \in Seq(VoiceIds) /\ Len(Page) = IF R + 1 <= e THEN e - (R + 1) + 1 ELSE 0
      /\ \A i \in 1..(e - (R + 1) + 1) : Page[i] = inventory[(R + 1) + i - 1]
  BY <1>2, <1>3, <1>4, <1>6, SubSeqProperties
<1>8. Len(Page) \in Nat /\ DOMAIN Page = 1..Len(Page)
  BY <1>7, LenProperties
<1>9. \A m \in DOMAIN Page : R + m \in DOMAIN inventory /\ Page[m] = inventory[R + m]
  BY <1>0, <1>2, <1>4, <1>7, <1>8
<1>10. \A i \in DOMAIN inventory : R < i /\ i <= R + PageSize =>
               i - R \in DOMAIN Page /\ Page[i - R] = inventory[i]
  BY <1>0, <1>1, <1>2, <1>4, <1>5, <1>7, <1>8
<1>11. Len(Page) < PageSize => L <= R + PageSize
  BY <1>0, <1>1, <1>2, <1>4, <1>5, <1>7, <1>8
<1> QED BY <1>2, <1>7, <1>8, <1>9, <1>10, <1>11 DEF R, L

\* What is new on it was not listed and is there once.
LEMMA NewIs ==
  ASSUME InventoryInv, ListInv, NEW new \in NewOnPage
  PROVE  /\ new \in Seq(VoiceIds) /\ Ids(new) = NewIds
         /\ \A i \in DOMAIN new : new[i] \notin Ids(query.listed)
         /\ \A i \in DOMAIN new, j \in DOMAIN new : i # j => new[i] # new[j]
<1> DEFINE c == Cardinality(NewIds)
<1>1. new \in [1..c -> NewIds] /\ Ids(new) = NewIds
      /\ \A i \in DOMAIN new, j \in DOMAIN new : i < j =>
           \E m \in DOMAIN Page, n \in DOMAIN Page : m < n /\ new[i] = Page[m] /\ new[j] = Page[n]
  BY DEF NewOnPage
<1>2. /\ Page \in Seq(VoiceIds) /\ Len(Page) \in Nat /\ DOMAIN Page = 1..Len(Page)
      /\ query.page * PageSize \in Nat
      /\ \A m \in DOMAIN Page : query.page * PageSize + m \in DOMAIN inventory
            /\ Page[m] = inventory[query.page * PageSize + m]
  BY PageIs
<1>3. \A m \in DOMAIN Page, n \in DOMAIN Page : m < n => Page[m] # Page[n]
  <2> SUFFICES ASSUME NEW m \in DOMAIN Page, NEW n \in DOMAIN Page, m < n PROVE Page[m] # Page[n]
    OBVIOUS
  <2> DEFINE R == query.page * PageSize
  <2>1. R \in Nat /\ m \in Nat /\ n \in Nat
    BY <1>2
  <2> HIDE DEF R
  <2>2. R + m # R + n
    BY <2>1
  <2> QED BY <1>2, <2>2 DEF InventoryInv, R
<1>4. c \in Nat
  <2>1. NewIds \subseteq Ids(Page)
    BY DEF NewIds
  <2>2. IsFiniteSet(Ids(Page))
    <3>1. Page \in Surjection(1..Len(Page), Ids(Page))
      BY <1>2 DEF Ids, Surjection
    <3> QED BY <1>2, <3>1, FS_NatSurjection DEF ExistsSurjection
  <2> QED BY <2>1, <2>2, FS_Subset, FS_CardinalityType
<1> HIDE DEF c
<1>5. \A v \in NewIds : v \in VoiceIds /\ v \notin Ids(query.listed)
  <2>1. \A m \in DOMAIN Page : Page[m] \in VoiceIds
    BY <1>2, ElementOfSeq
  <2> QED BY <2>1 DEF NewIds, Unseen, Ids
<1>6. new \in Seq(VoiceIds) /\ DOMAIN new = 1..c
  <2>1. new \in [1..c -> VoiceIds]
    BY <1>1, <1>5
  <2> QED BY <1>4, <2>1, SeqDef
<1>7. \A i \in DOMAIN new, j \in DOMAIN new : i < j => new[i] # new[j]
  BY <1>1, <1>3
<1>8. \A i \in DOMAIN new, j \in DOMAIN new : i # j => i < j \/ j < i
  BY <1>4, <1>6
<1>9. \A i \in DOMAIN new, j \in DOMAIN new : i # j => new[i] # new[j]
  BY <1>7, <1>8
<1>10. \A i \in DOMAIN new : new[i] \notin Ids(query.listed)
  BY <1>1, <1>5, <1>6
<1> QED BY <1>1, <1>6, <1>9, <1>10

LEMMA HeardKept ==
  ASSUME InventoryInv, ListInv, HearPage PROVE ListInv'
<1> DEFINE R == query.page * PageSize
           L == query.listed
<1>1. PICK new \in NewOnPage : LET all == L \o new IN
       query' = [query EXCEPT
          !.page = @ + 1,
          !.listed = IF Len(all) > MaxListed THEN SubSeq(all, 1, MaxListed) ELSE all,
          !.at = CASE Len(all) >= MaxListed -> "full"
                   [] Len(all) < MaxListed /\ Len(Page) < PageSize -> "whole"
                   [] Len(all) < MaxListed /\ Len(Page) = PageSize /\ NewIds = {} -> "failed"
                   [] OTHER -> IF query.page + 1 = MaxPages THEN "full" ELSE "asking"]
  BY DEF HearPage
<1>2. UNCHANGED <<inventory, made>> /\ query.at = "asking"
  BY DEF HearPage
<1> DEFINE all == L \o new
           listed == IF Len(all) > MaxListed THEN SubSeq(all, 1, MaxListed) ELSE all
           at == CASE Len(all) >= MaxListed -> "full"
                   [] Len(all) < MaxListed /\ Len(Page) < PageSize -> "whole"
                   [] Len(all) < MaxListed /\ Len(Page) = PageSize /\ NewIds = {} -> "failed"
                   [] OTHER -> IF query.page + 1 = MaxPages THEN "full" ELSE "asking"
<1>3. query' = [query EXCEPT !.page = query.page + 1, !.listed = listed, !.at = at]
  BY <1>1
<1>4. /\ L \in Seq(VoiceIds) /\ Len(L) \in Nat /\ DOMAIN L = 1..Len(L)
      /\ Len(L) <= MaxListed /\ MaxListed \in Nat /\ query.page \in Nat
  BY LenProperties, InventoryAssumption DEF ListInv
<1>5. /\ new \in Seq(VoiceIds) /\ Ids(new) = NewIds
      /\ \A i \in DOMAIN new : new[i] \notin Ids(L)
      /\ \A i \in DOMAIN new, j \in DOMAIN new : i # j => new[i] # new[j]
  BY NewIs
<1>6. Len(new) \in Nat /\ DOMAIN new = 1..Len(new)
  BY <1>5, LenProperties
<1>7. /\ all \in Seq(VoiceIds) /\ Len(all) = Len(L) + Len(new)
      /\ \A i \in 1..(Len(L) + Len(new)) : all[i] = IF i <= Len(L) THEN L[i] ELSE new[i - Len(L)]
  BY <1>4, <1>5, ConcatProperties
<1>8. Len(all) \in Nat /\ DOMAIN all = 1..Len(all)
  BY <1>7, LenProperties
<1>9. at # "asking" \/ Len(all) < MaxListed
  BY <1>4, <1>8
<1>10. at = "whole" => Len(all) < MaxListed /\ Len(Page) < PageSize
  BY <1>4, <1>8
<1>11. \A i \in DOMAIN all, j \in DOMAIN all : i # j => all[i] # all[j]
  <2> SUFFICES ASSUME NEW i \in DOMAIN all, NEW j \in DOMAIN all, i < j PROVE all[i] # all[j]
    BY <1>8
  <2>1. CASE j <= Len(L)
    <3>1. i \in DOMAIN L /\ j \in DOMAIN L /\ i # j /\ all[i] = L[i] /\ all[j] = L[j]
      BY <1>4, <1>6, <1>7, <1>8, <2>1
    <3> QED BY <3>1 DEF ListInv
  <2>2. CASE i <= Len(L) /\ ~(j <= Len(L))
    <3>1. i \in DOMAIN L /\ j - Len(L) \in DOMAIN new /\ all[i] = L[i] /\ all[j] = new[j - Len(L)]
      BY <1>4, <1>6, <1>7, <1>8, <2>2
    <3>2. L[i] \in Ids(L)
      BY <3>1 DEF Ids
    <3> QED BY <1>5, <3>1, <3>2
  <2>3. CASE ~(i <= Len(L))
    <3>1. /\ i - Len(L) \in DOMAIN new /\ all[i] = new[i - Len(L)]
          /\ j - Len(L) \in DOMAIN new /\ all[j] = new[j - Len(L)] /\ i - Len(L) # j - Len(L)
      <4> DEFINE k == Len(L)
      <4>1. k \in Nat /\ i \in Nat /\ j \in Nat /\ i > k /\ j > k
        BY <1>4, <1>8, <2>3
      <4>2. i <= k + Len(new) /\ j <= k + Len(new)
        BY <1>7, <1>8
      <4> HIDE DEF k
      <4>3. i - k \in 1..Len(new) /\ j - k \in 1..Len(new) /\ i - k # j - k
        BY <1>6, <4>1, <4>2
      <4>4. i \in 1..(k + Len(new)) /\ j \in 1..(k + Len(new))
        BY <1>6, <4>1, <4>2
      <4>5. all[i] = new[i - k] /\ all[j] = new[j - k]
        BY <1>7, <4>1, <4>4 DEF k
      <4> QED BY <1>6, <4>3, <4>5 DEF k
    <3> QED BY <1>5, <3>1
  <2> QED BY <1>4, <1>8, <2>1, <2>2, <2>3
<1>12. Ids(L) \cup NewIds \subseteq Ids(all)
  <2>1. \A i \in DOMAIN L : i \in DOMAIN all /\ all[i] = L[i]
    BY <1>4, <1>6, <1>7, <1>8
  <2>2. \A i \in DOMAIN new : i + Len(L) \in DOMAIN all /\ all[i + Len(L)] = new[i]
    BY <1>4, <1>6, <1>7, <1>8
  <2>3. Ids(L) \subseteq Ids(all)
    BY <2>1 DEF Ids
  <2>4. Ids(new) \subseteq Ids(all)
    BY <2>2 DEF Ids
  <2> QED BY <1>5, <2>3, <2>4
<1> HIDE DEF all, at
<1>13. /\ listed \in Seq(VoiceIds) /\ Len(listed) <= MaxListed
       /\ \A i \in DOMAIN listed, j \in DOMAIN listed : i # j => listed[i] # listed[j]
       /\ Len(all) < MaxListed => listed = all
  <2>1. CASE Len(all) > MaxListed
    <3>1. listed = SubSeq(all, 1, MaxListed)
      BY <2>1
    <3>2. \A i \in 1..MaxListed : all[i] \in VoiceIds /\ i \in DOMAIN all
      BY <1>4, <1>7, <1>8, <2>1, ElementOfSeq
    <3>3. 1 \in Int /\ MaxListed \in Int
      BY <1>4
    <3>4. /\ listed \in Seq(VoiceIds)
          /\ Len(listed) = IF 1 <= MaxListed THEN MaxListed - 1 + 1 ELSE 0
          /\ \A i \in 1..(MaxListed - 1 + 1) : listed[i] = all[1 + i - 1]
      BY <3>1, <3>2, <3>3, SubSeqProperties
    <3>5. Len(listed) = MaxListed /\ \A i \in 1..MaxListed : listed[i] = all[i]
      BY <1>4, <3>4
    <3>6. DOMAIN listed = 1..MaxListed
      BY <3>4, <3>5, LenProperties
    <3>7. \A i \in DOMAIN listed, j \in DOMAIN listed : i # j => listed[i] # listed[j]
      BY <1>11, <3>2, <3>5, <3>6
    <3>8. ~(Len(all) < MaxListed) /\ Len(listed) <= MaxListed
      <4> HIDE DEF listed
      <4> QED BY <1>4, <1>8, <2>1, <3>5
    <3> HIDE DEF listed
    <3> QED BY <3>4, <3>7, <3>8
  <2>2. CASE ~(Len(all) > MaxListed)
    BY <1>4, <1>7, <1>8, <1>11, <2>2
  <2> QED BY <2>1, <2>2
<1> HIDE DEF listed
<1>14. /\ R \in Nat /\ (query.page + 1) * PageSize = R + PageSize /\ PageSize \in Nat
       /\ \A i \in DOMAIN inventory : R < i /\ i <= R + PageSize =>
             i - R \in DOMAIN Page /\ Page[i - R] = inventory[i]
       /\ Len(Page) < PageSize => Len(inventory) <= R + PageSize
       /\ Len(inventory) \in Nat /\ DOMAIN inventory = 1..Len(inventory)
  BY PageIs, InventorySeen, InventoryAssumption
<1>15. \A i \in DOMAIN inventory : i <= R /\ inventory[i] \in query.kept => inventory[i] \in Ids(L)
  BY <1>2 DEF ListInv
<1> HIDE DEF R
<1>16. \A i \in DOMAIN inventory :
          i <= R + PageSize /\ inventory[i] \in query.kept => inventory[i] \in Ids(all)
  <2> SUFFICES ASSUME NEW i \in DOMAIN inventory, i <= R + PageSize, inventory[i] \in query.kept
               PROVE  inventory[i] \in Ids(all)
    OBVIOUS
  <2>1. CASE i <= R
    BY <1>12, <1>15, <2>1
  <2>2. CASE R < i
    <3>1. inventory[i] \in Ids(Page)
      BY <1>14, <2>2 DEF Ids
    <3>2. inventory[i] \in Ids(L) \/ inventory[i] \in NewIds
      BY <3>1 DEF NewIds, Unseen
    <3> QED BY <1>12, <3>2
  <2> QED BY <1>14, <2>1, <2>2
<1>17. /\ DOMAIN query' = DOMAIN query /\ query'.page = query.page + 1 /\ query'.listed = listed
       /\ query'.at = at /\ query'.kept = query.kept
  BY <1>3 DEF ListInv
<1>18. query'.kept \subseteq Ids(inventory)'
  BY <1>2, <1>17 DEF ListInv, Ids
<1>19. at = "asking" => \A i \in DOMAIN inventory :
         i <= (query.page + 1) * PageSize /\ inventory[i] \in query.kept => inventory[i] \in Ids(listed)
  BY <1>9, <1>13, <1>14, <1>16
<1>20. at = "whole" => query.kept \subseteq Ids(listed)
  <2>1. query.kept \subseteq Ids(inventory)
    BY DEF ListInv
  <2>2. at = "whole" => \A i \in DOMAIN inventory : i <= R + PageSize
    BY <1>10, <1>14
  <2> QED BY <1>10, <1>13, <1>16, <2>1, <2>2 DEF Ids
<1> QED BY <1>2, <1>4, <1>13, <1>17, <1>18, <1>19, <1>20 DEF ListInv

LEMMA ProviderKept == ProviderInv /\ [VoicesNext]_voiceVars => ProviderInv'
<1> SUFFICES ASSUME ProviderInv, [VoicesNext]_voiceVars PROVE ProviderInv'
  OBVIOUS
<1> USE DEF ProviderInv
<1>1. ASSUME NEW v \in VoiceIds, MadeElsewhere(v) PROVE ProviderInv'
  BY <1>1, MakesKept DEF MadeElsewhere, CloneInv
<1>2. ASSUME NEW n \in DOMAIN inventory, DeletedElsewhere(n) PROVE ProviderInv'
  BY <1>2, DeletedKept DEF DeletedElsewhere, CloneInv
<1>3. CASE AskClone \/ GetPolicy \/ UploadAudio \/ CreateVoice \/ TellsClone \/ CloneFails
  BY <1>3, ClonedKept
<1>4. CASE AskVoices
  <2>1. query' = [at |-> "asking", page |-> 0, listed |-> <<>>, kept |-> Ids(inventory)]
        /\ UNCHANGED <<inventory, made, clone>>
    BY <1>4 DEF AskVoices
  <2>2. /\ DOMAIN query' = {"at", "page", "listed", "kept"} /\ query'.page = 0
        /\ query'.listed = <<>> /\ query'.kept = Ids(inventory) /\ query'.at = "asking"
    BY <2>1
  <2>3. <<>> \in Seq(VoiceIds) /\ Len(<<>>) = 0 /\ DOMAIN <<>> = {} /\ 0 * PageSize = 0
    BY InventoryAssumption
  <2>4. \A i \in DOMAIN inventory : ~(i <= 0)
    BY InventorySeen
  <2>5. ListInv'
    BY <2>1, <2>2, <2>3, <2>4, InventoryAssumption DEF ListInv, Ids
  <2> QED BY <2>1, <2>5 DEF InventoryInv, CloneInv
<1>5. CASE HearPage
  BY <1>5, HeardKept DEF HearPage, InventoryInv, CloneInv
<1>6. CASE QueryFails
  BY <1>6 DEF QueryFails, InventoryInv, CloneInv, ListInv
<1>7. CASE UNCHANGED voiceVars
  BY <1>7 DEF voiceVars, InventoryInv, CloneInv, ListInv
<1> QED BY <1>1, <1>2, <1>3, <1>4, <1>5, <1>6, <1>7 DEF VoicesNext

LEMMA ProviderImplies == ProviderInv => VoicesAreListed
BY DEF ProviderInv, ListInv, CloneInv, VoicesAreListed

-----------------------------------------------------------------------------
(* The services together.                                                  *)

\* A step of the specification is a step of one component, and leaves the others alone.
LEMMA StepOfEach ==
  [Next]_vars => /\ [WorkerNext]_workerVars /\ [SpeechNext]_speechVars /\ [AsrNext]_asrVars
                 /\ [LocalNext]_localVars /\ [LinkNext]_linkVars /\ [RenderNext]_renderVars
                 /\ [MemoryNext]_memoryVars /\ [CutNext]_cutVars /\ [EffectNext]_effectVars
                 /\ [MetricsNext]_turnVars /\ [VoicesNext]_voiceVars
BY DEF Next, Others, vars

LEMMA EachStarts ==
  Init => /\ WorkerInit /\ SpeechInit /\ AsrInit /\ LocalInit /\ LinkInit /\ RenderInit /\ MemoryInit
          /\ CutInit /\ EffectInit /\ TurnInit /\ VoicesInit
BY DEF Init

\* A voice the worker has deleted stays deleted and one it has saved is kept, and the
\* reservations counted are those of the streams it speaks for; a list of a provider's voices
\* has them once; the models that cut out are there while they are used, and gone when that is
\* said; one effect serves all pipelines, set to what is asked of it.
THEOREM ModelsKept == Spec => []ModelsAreKept
<1> DEFINE Inv == ReservationInv /\ VoiceInv /\ ProviderInv /\ CutInv /\ EffectInv
<1>1. Init => Inv
  BY EachStarts, ReservationStarts, VoiceStarts, ProviderStarts, CutStarts, EffectStarts
<1>2. Inv /\ [Next]_vars => Inv'
  BY StepOfEach, ReservationStep, VoiceStep, ProviderKept, CutKept, EffectKept
<1>3. Inv => ModelsAreKept
  BY WorkerImplies, ProviderImplies, CutImplies, EffectImplies DEF ModelsAreKept
<1> HIDE DEF Inv
<1> QED BY <1>1, <1>2, <1>3, PTL DEF Spec

\* Every open websocket of Bailian's speech has exactly one owner; an utterance is its
\* client's or its cleanup task's; a reply of the local client is kept while its websocket is
\* open, one task at most closes it, and what close() finds kept is closed when it returns, or
\* a reader or the engine is closing it still; a worker of the renderer is held by the
\* attempt under way.
THEOREM SocketsHeld == Spec => []SocketsAreHeld
<1> DEFINE Inv == SpeechInv /\ AsrInv /\ LocalInv /\ RenderInv
<1>1. Init => Inv
  BY EachStarts, SpeechStarts, AsrStarts, LocalStarts, RenderStarts
<1>2. Inv /\ [Next]_vars => Inv'
  BY StepOfEach, SpeechStep, AsrStep, LocalStep, RenderStep
<1>3. Inv => SocketsAreHeld
  BY SpeechImplies, AsrImplies, LocalImplies, RenderImplies DEF SocketsAreHeld
<1> HIDE DEF Inv
<1> QED BY <1>1, <1>2, <1>3, PTL DEF Spec

\* Audio and free slots are the size of the queue, and the reader of a turn that has ended
\* finds its end.
THEOREM ReaderTold == Spec => []ReaderIsTold
<1>1. Init => SpeechInv
  BY EachStarts, SpeechStarts
<1>2. SpeechInv /\ [Next]_vars => SpeechInv'
  BY StepOfEach, SpeechStep
<1> QED BY <1>1, <1>2, SpeechImplies, PTL DEF Spec

\* Nobody waits for a Codex process that is gone, its session is stopped at most once, and
\* its notifications are read in order.
THEOREM LinkEnds == Spec => []LinkEndsCleanly
<1>1. Init => LinkInv
  BY EachStarts, LinkStarts
<1>2. LinkInv /\ [Next]_vars => LinkInv'
  BY StepOfEach, LinkStep
<1> QED BY <1>1, <1>2, LinkImplies, PTL DEF Spec

\* The consumer of a render call gets each frame once and in order, whatever was retried.
THEOREM FramesInOrder == Spec => []FramesOnceInOrder
<1>1. Init => RenderInv
  BY EachStarts, RenderStarts
<1>2. RenderInv /\ [Next]_vars => RenderInv'
  BY StepOfEach, RenderStep
<1> QED BY <1>1, <1>2, RenderImplies, PTL DEF Spec

\* The memory worklet loses nothing it accepted, and accepts nothing twice while it remembers
\* it; an observation of the browser stays with one turn of this session that has spoken.
THEOREM RecordsKept == Spec => []RecordsAreKept
<1>1. Init => MemoryInv /\ TurnInv
  BY EachStarts, MemoryStarts, TurnStarts
<1>2. (MemoryInv /\ TurnInv) /\ [Next]_vars => (MemoryInv /\ TurnInv)'
  BY StepOfEach, MemoryStep, TurnKept
<1>3. MemoryInv /\ TurnInv => RecordsAreKept
  BY MemoryImplies, TurnImplies DEF RecordsAreKept
<1> QED BY <1>1, <1>2, <1>3, PTL DEF Spec
=============================================================================
