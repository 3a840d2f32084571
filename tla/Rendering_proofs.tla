-------------------------- MODULE Rendering_proofs --------------------------
(***************************************************************************)
(* Proofs about the speech of a stream, for every set of segments, every   *)
(* pair of durations with Present <= Future and every chunk length.        *)
(*                                                                         *)
(* First the scheduler: its type invariant, that no present chunk is ever  *)
(* short, that the padding always has a side to go to, and that events are *)
(* returned in their window.  Then the life of the segments: the events    *)
(* the render loop publishes implement the life SegmentPlayback promises   *)
(* their subscribers, and a segment's audio is heard between its reported  *)
(* start and end.  Both rest on LifeInv, which follows a segment from the  *)
(* queue through the step and the event queue to the log.                  *)
(***************************************************************************)
EXTENDS Rendering, TLAPS, SequenceTheorems, WellFoundedInduction

(***************************************************************************)
(* Facts about the operators.                                              *)
(***************************************************************************)

\* The least-number principle, for a set of naturals.
LEMMA SmallestOf ==
  ASSUME NEW T, T \subseteq Nat, T # {}
  PROVE  \E m \in T : \A k \in T : m <= k
<1> DEFINE R == OpToRel(<, Nat)
<1>1. IsWellFoundedOn(R, Nat)
  BY NatLessThanWellFounded
<1>2. \A x, y \in Nat : y < x => <<y, x>> \in R
  BY DEF OpToRel
<1> HIDE DEF R
<1>3. PICK x \in T : \A y \in T : ~ (<<y, x>> \in R)
  BY <1>1, WFMin
<1>4. ASSUME NEW y \in T
      PROVE  x <= y
  <2>1. ~ (y < x)
    BY <1>2, <1>3
  <2>2. x \in Nat /\ y \in Nat
    OBVIOUS
  <2> QED
    BY <2>1, <2>2
<1> QED
  BY <1>4

\* A run of n equal units is a sequence of length n.
LEMMA UnitsType ==
  ASSUME NEW S, NEW u \in S, NEW n \in Nat
  PROVE  Units(u, n) \in Seq(S) /\ Len(Units(u, n)) = n
BY DEF Units

\* Appending a run of n equal units makes a sequence n longer.
LEMMA AppendUnitsType ==
  ASSUME NEW S, NEW b \in Seq(S), NEW u \in S, NEW n \in Nat
  PROVE  b \o Units(u, n) \in Seq(S) /\ Len(b \o Units(u, n)) = Len(b) + n
<1> DEFINE pad == Units(u, n)
<1>1. pad \in Seq(S) /\ Len(pad) = n
  BY UnitsType
<1> HIDE DEF pad
<1>2. b \o pad \in Seq(S) /\ Len(b \o pad) = Len(b) + n
  BY <1>1, ConcatProperties
<1> QED
  BY <1>2 DEF pad

\* The part of a buffer before a cut is the shorter of the buffer and the cut.
LEMMA FirstPartType ==
  ASSUME NEW S, NEW b \in Seq(S), NEW n \in Nat
  PROVE  /\ FirstPart(b, n) \in Seq(S)
         /\ Len(FirstPart(b, n)) = Shorter(n, Len(b))
<1>1. Len(b) \in Nat /\ \A i \in 1..Len(b) : b[i] \in S
  BY ElementOfSeq, LenProperties
<1>2. Shorter(n, Len(b)) \in Int /\ Shorter(n, Len(b)) <= Len(b)
  BY <1>1 DEF Shorter
<1> QED
  BY <1>1, <1>2, SubSeqProperties DEF FirstPart, Shorter

\* The part of a buffer after a cut inside it is what is left.
LEMMA SecondPartType ==
  ASSUME NEW S, NEW b \in Seq(S), NEW n \in Nat
  PROVE  SecondPart(b, n) \in Seq(S)
<1>1. Len(b) \in Nat /\ \A i \in 1..Len(b) : b[i] \in S
  BY ElementOfSeq, LenProperties
<1> QED
  BY <1>1, SubSeqProperties DEF SecondPart

\* Shifting the stamps of events by a whole number of units keeps their type.
LEMMA ShiftedByType ==
  ASSUME NEW evs \in Seq(Stamped), NEW d \in Int
  PROVE  ShiftedBy(evs, d) \in Seq(Stamped)
<1>1. Len(evs) \in Nat /\ DOMAIN evs = 1..Len(evs)
  BY LenProperties
<1>2. \A i \in 1..Len(evs) : evs[i] \in Stamped
  BY ElementOfSeq
<1>3. \A i \in 1..Len(evs) : Stamp(evs[i].event, evs[i].at + d) \in Stamped
  BY <1>2 DEF Stamped, Stamp
<1> QED
  BY <1>1, <1>3 DEF ShiftedBy

\* Stamps are integers.
LEMMA StampsAreInt ==
  ASSUME NEW evs \in Seq(Stamped)
  PROVE  /\ Len(evs) \in Nat /\ DOMAIN evs = 1..Len(evs)
         /\ \A i \in 1..Len(evs) : evs[i] \in Stamped /\ evs[i].at \in Int
<1>1. Len(evs) \in Nat /\ DOMAIN evs = 1..Len(evs)
  BY LenProperties
<1>2. ASSUME NEW i \in 1..Len(evs) PROVE evs[i] \in Stamped /\ evs[i].at \in Int
  <2>1. evs[i] \in Stamped
    BY ElementOfSeq
  <2> QED
    BY <2>1 DEF Stamped
<1> QED
  BY <1>1, <1>2

\* The loop over the event queue returns what is due, and leaves what is not.
LEMMA DueIsDue ==
  ASSUME NEW evs \in Seq(Stamped), NEW t \in Int
  PROVE  LET due == DueCount(evs, t) IN
         /\ due \in 0..Len(evs)
         /\ \A i \in 1..due : evs[i].at < t
         /\ due < Len(evs) => evs[due + 1].at >= t
<1> DEFINE Late == {i \in 1..Len(evs) : evs[i].at >= t}
<1>1. /\ Len(evs) \in Nat /\ DOMAIN evs = 1..Len(evs)
      /\ \A i \in 1..Len(evs) : evs[i].at \in Int
  BY StampsAreInt
<1>2. \E n \in 0..Len(evs) :
         /\ \A i \in 1..n : evs[i].at < t
         /\ n < Len(evs) => evs[n + 1].at >= t
  <2>1. CASE Late = {}
    <3>1. \A i \in 1..Len(evs) : evs[i].at < t
      BY <1>1, <2>1
    <3>2. Len(evs) \in 0..Len(evs) /\ ~(Len(evs) < Len(evs))
      BY <1>1
    <3> QED
      BY <3>1, <3>2
  <2>2. CASE Late # {}
    <3>1. Late \subseteq Nat
      OBVIOUS
    <3>2. PICK m \in Late : \A k \in Late : m <= k
      <4> HIDE DEF Late
      <4> QED
        BY <2>2, <3>1, SmallestOf
    <3>3. /\ m - 1 \in 0..Len(evs)
          /\ \A i \in 1..(m - 1) : evs[i].at < t
          /\ evs[(m - 1) + 1].at >= t
      BY <1>1, <3>2
    <3> QED
      BY <3>3
  <2> QED
    BY <2>1, <2>2
<1> QED
  BY <1>2 DEF DueCount

\* The events and the chunks the queue is made of.
LEMMA EventTypes ==
  ASSUME NEW s \in Segments
  PROVE  /\ Started(s) \in SegmentEvent
         /\ Ended(s) \in SegmentEvent
         /\ Cancelled(s) \in SegmentEvent
         /\ \A d \in Int : Interrupted(s, d) \in SegmentEvent
         /\ \A n \in Nat : Chunk(s, n) \in QueueItem
BY DEF Started, Ended, Cancelled, Interrupted, Chunk, SegmentEvent, QueueItem

\* A queue item that is not audio is a segment event, and audio has a length.
LEMMA QueueItemCases ==
  ASSUME NEW c \in QueueItem
  PROVE  /\ c.id \in Segments
         /\ c.kind # "audio" => c \in SegmentEvent
         /\ c.kind = "audio" => c.len \in Nat
BY DEF QueueItem, SegmentEvent

-----------------------------------------------------------------------------
(***************************************************************************)
(* Type correctness, one lemma for the listener and one for the step.      *)
(***************************************************************************)

\* The initial state is type correct.
LEMMA InitTypeOK == Init => TypeOK
<1> SUFFICES ASSUME Init PROVE TypeOK
  OBVIOUS
<1>1. step \in StepLocals
  BY EmptySeq DEF Init, IdleStep, StepLocals
<1> QED
  BY <1>1, EmptySeq DEF Init, TypeOK

\* Appending to the queue and waking the step keep their types.
LEMMA AppendQueueType ==
  ASSUME TypeOK, NEW item \in QueueItem, AppendQueue(item)
  PROVE  queue' \in Seq(QueueItem) /\ signalled' \in BOOLEAN
BY AppendProperties DEF AppendQueue, Notify, Waiting, TypeOK

\* The length of the buffer an interrupt keeps.
LEMMA KeptBufferType ==
  ASSUME TypeOK
  PROVE  /\ KeptBuffer \in Seq(Unit)
         /\ Len(KeptBuffer) = Shorter(Future, Len(buffer))
         /\ Len(KeptBuffer) \in Nat
<1>1. buffer \in Seq(Unit) /\ Future \in Nat
  BY DurationAssumption DEF TypeOK
<1>2. Len(buffer) \in Nat
  BY <1>1, LenProperties
<1> QED
  BY <1>1, <1>2, FirstPartType DEF KeptBuffer, Shorter

\* An interrupt keeps everything typed, whichever of its four cases it takes.
LEMMA InterruptTypeOK ==
  ASSUME TypeOK, Interrupt, stopping' \in BOOLEAN, discards' \in Nat
  PROVE  TypeOK'
<1> USE DEF TypeOK
<1>1. /\ active' \in Segments \cup {None}
      /\ cancelled' \in Segments \cup {None}
  BY DEF Interrupt, InterruptCoalescing, InterruptPendingStart,
         InterruptPlaying, InterruptSilent
<1>2. buffer' \in Seq(Unit)
  <2>1. Units(Silence, Len(KeptBuffer)) \in Seq(Unit)
    BY KeptBufferType, UnitsType DEF Unit
  <2> QED
    BY <2>1, KeptBufferType
       DEF Interrupt, InterruptCoalescing, InterruptPendingStart,
           InterruptPlaying, InterruptSilent
<1>3. queue' \in Seq(QueueItem)
  <2>1. CASE InterruptCoalescing
    BY <2>1, EventTypes DEF InterruptCoalescing, QueueItem
  <2>2. CASE InterruptPendingStart
    BY <2>2, EventTypes DEF InterruptPendingStart, StartPending, QueueItem
  <2>3. CASE InterruptPlaying
    <3>1. nextPresent + Len(KeptBuffer) - activeStart \in Int
      BY KeptBufferType
    <3> QED
      BY <2>3, <3>1, EventTypes DEF InterruptPlaying, QueueItem
  <2>4. CASE InterruptSilent
    BY <2>4 DEF InterruptSilent
  <2> QED
    BY <2>1, <2>2, <2>3, <2>4 DEF Interrupt
<1>4. eventQueue' \in Seq(Stamped)
  <2>1. CASE InterruptPendingStart
    <3> DEFINE i == CHOOSE i \in DOMAIN eventQueue : StartPendingAt(i)
    <3>1. i \in 1..Len(eventQueue) /\ Len(eventQueue) \in Nat
      BY <2>1, LenProperties DEF InterruptPendingStart, StartPending
    <3>2. eventQueue' = SubSeq(eventQueue, 1, i - 1)
                          \o SubSeq(eventQueue, i + 1, Len(eventQueue))
      BY <2>1 DEF InterruptPendingStart
    <3> HIDE DEF i
    <3>3. \A k \in 1..Len(eventQueue) : eventQueue[k] \in Stamped
      BY ElementOfSeq
    <3>4. /\ SubSeq(eventQueue, 1, i - 1) \in Seq(Stamped)
          /\ SubSeq(eventQueue, i + 1, Len(eventQueue)) \in Seq(Stamped)
      BY <3>1, <3>3, SubSeqProperties
    <3> QED
      BY <3>2, <3>4, ConcatProperties
  <2>2. CASE ~InterruptPendingStart
    BY <2>2 DEF Interrupt, InterruptCoalescing, InterruptPlaying,
                InterruptSilent
  <2> QED
    BY <2>1, <2>2
<1>5. signalled' \in BOOLEAN
  BY DEF Interrupt, Notify, Waiting
<1> QED
  BY <1>1, <1>2, <1>3, <1>4, <1>5 DEF Interrupt, historyVars

\* The listener's operations keep everything typed.
LEMMA ListenTypeOK ==
  ASSUME TypeOK, Listen
  PROVE  TypeOK'
<1>1. ASSUME NEW s \in Segments, StartSegment(s)
      PROVE  TypeOK'
  <2>1. Started(s) \in QueueItem
    BY EventTypes DEF QueueItem
  <2>2. queue' \in Seq(QueueItem) /\ signalled' \in BOOLEAN
    BY <1>1, <2>1, AppendQueueType DEF StartSegment
  <2> QED
    BY <1>1, <2>2 DEF StartSegment, TypeOK, historyVars
<1>2. ASSUME NEW s \in Segments, NEW n \in ChunkLengths, AppendChunk(s, n)
      PROVE  TypeOK'
  <2>1. n \in Nat
    BY DurationAssumption
  <2>2. Chunk(s, n) \in QueueItem
    BY <2>1, EventTypes
  <2>3. queue' \in Seq(QueueItem) /\ signalled' \in BOOLEAN
    BY <1>2, <2>2, AppendQueueType DEF AppendChunk
  <2>4. supplied' \in [Segments -> Nat]
    BY <1>2, <2>1 DEF AppendChunk, TypeOK
  <2> QED
    BY <1>2, <2>3, <2>4 DEF AppendChunk, TypeOK, historyVars
<1>3. ASSUME NEW s \in Segments, EndSegment(s)
      PROVE  TypeOK'
  <2>1. Ended(s) \in QueueItem
    BY EventTypes DEF QueueItem
  <2>2. queue' \in Seq(QueueItem) /\ signalled' \in BOOLEAN
    BY <1>3, <2>1, AppendQueueType DEF EndSegment
  <2> QED
    BY <1>3, <2>2 DEF EndSegment, TypeOK, inputVars, historyVars
<1>4. CASE Discard
  <2>1. stopping' \in BOOLEAN /\ discards' \in Nat
    BY <1>4 DEF Discard, TypeOK
  <2> QED
    BY <1>4, <2>1, InterruptTypeOK DEF Discard
<1>5. CASE ShutdownAvatar
  <2>1. stopping' \in BOOLEAN /\ discards' \in Nat
    BY <1>5 DEF ShutdownAvatar, TypeOK
  <2> QED
    BY <1>5, <2>1, InterruptTypeOK DEF ShutdownAvatar
<1>6. CASE ShutdownUser
  <2>1. queue' \in Seq(QueueItem) /\ signalled' \in BOOLEAN
    <3>1. CASE writeActive # None /\ AppendQueue(Ended(writeActive))
      <4>1. Ended(writeActive) \in QueueItem
        BY <3>1, EventTypes DEF TypeOK, QueueItem
      <4> QED
        BY <3>1, <4>1, AppendQueueType
    <3>2. CASE UNCHANGED <<queue, signalled>>
      BY <3>2 DEF TypeOK
    <3> QED
      BY <1>6, <3>1, <3>2 DEF ShutdownUser
  <2> QED
    BY <1>6, <2>1 DEF ShutdownUser, TypeOK, inputVars, historyVars
<1>7. CASE Sweep
  <2>1. Head(sweep) \in QueueItem /\ sweep' \in Seq(QueueItem)
    BY <1>7, HeadTailProperties DEF Sweep, TypeOK
  <2>2. Cancelled(Head(sweep).id) \in QueueItem
    BY <2>1, QueueItemCases, EventTypes DEF QueueItem
  <2>3. queue' \in Seq(QueueItem)
    BY <1>7, <2>2, AppendProperties DEF Sweep, TypeOK
  <2> QED
    BY <1>7, <2>1, <2>3 DEF Sweep, TypeOK, inputVars, historyVars
<1> QED
  BY <1>1, <1>2, <1>3, <1>4, <1>5, <1>6, <1>7 DEF Listen

\* Popping the queue keeps it typed.
LEMMA HeadOfQueueType ==
  ASSUME TypeOK, queue # <<>>
  PROVE  /\ Head(queue) \in QueueItem
         /\ Tail(queue) \in Seq(QueueItem)
BY HeadTailProperties DEF TypeOK

\* The time an event popped now is stamped with.
LEMMA StampNowType ==
  ASSUME TypeOK
  PROVE  StampNow \in Nat
BY LenProperties DEF StampNow, NextEventTimestamp, TypeOK, StepLocals

\* Stamping a segment event gives a stamped event.
LEMMA StampType ==
  ASSUME NEW e \in SegmentEvent, NEW t \in Int
  PROVE  Stamp(e, t) \in Stamped
BY DEF Stamp, Stamped

\* Going to another point of do_step keeps everything typed.
LEMMA GoToTypeOK ==
  ASSUME TypeOK,
         NEW label \in {"idle", "running", "coalescing", "midsegment",
                        "finishing", "crashed"},
         GoTo(label)
  PROVE  TypeOK'
BY DEF GoTo, TypeOK, inputVars, historyVars

\* The number of units do_step pads with.
LEMMA MissingUnitsType ==
  ASSUME TypeOK
  PROVE  MissingUnits \in Nat
<1>1. Present + Future - Len(buffer) \in Int /\ step.toConsume \in Int
  BY DurationAssumption, LenProperties DEF TypeOK, StepLocals
<1> QED
  BY <1>1 DEF MissingUnits, AtLeastZero

\* The buffer do_step fills is made of what was there, the padding and the audio.
LEMMA FilledBufferType ==
  ASSUME TypeOK
  PROVE  /\ FilledBuffer \in Seq(Unit)
         /\ Len(FilledBuffer) = Len(buffer) + MissingUnits
              + (IF StartupCancelled THEN 0 ELSE Len(step.bufs))
<1> DEFINE pad == Units(Silence, MissingUnits)
           audio == IF StartupCancelled THEN <<>> ELSE step.bufs
<1>1. pad \in Seq(Unit) /\ Len(pad) = MissingUnits
  BY MissingUnitsType, UnitsType DEF Unit
<1>2. /\ audio \in Seq(Unit)
      /\ Len(audio) = IF StartupCancelled THEN 0 ELSE Len(step.bufs)
  BY EmptySeq DEF TypeOK, StepLocals
<1>3. buffer \in Seq(Unit) /\ Len(buffer) \in Nat
  BY LenProperties DEF TypeOK
<1>4. Len(pad) \in Nat /\ Len(audio) \in Nat
  BY <1>1, <1>2, LenProperties
<1>5. FilledBuffer = IF PadsLeft THEN (buffer \o pad) \o audio
                                 ELSE (buffer \o audio) \o pad
  BY DEF FilledBuffer
<1> HIDE DEF pad, audio
<1>6. /\ buffer \o pad \in Seq(Unit)
      /\ Len(buffer \o pad) = Len(buffer) + Len(pad)
      /\ buffer \o audio \in Seq(Unit)
      /\ Len(buffer \o audio) = Len(buffer) + Len(audio)
  BY <1>1, <1>2, <1>3, ConcatProperties
<1> DEFINE padded == buffer \o pad
           heard == buffer \o audio
<1>7. /\ padded \in Seq(Unit) /\ Len(padded) = Len(buffer) + Len(pad)
      /\ heard \in Seq(Unit) /\ Len(heard) = Len(buffer) + Len(audio)
      /\ FilledBuffer = IF PadsLeft THEN padded \o audio ELSE heard \o pad
  BY <1>5, <1>6
<1> HIDE DEF padded, heard
<1>8. /\ padded \o audio \in Seq(Unit)
      /\ Len(padded \o audio) = Len(padded) + Len(audio)
      /\ heard \o pad \in Seq(Unit)
      /\ Len(heard \o pad) = Len(heard) + Len(pad)
  BY <1>1, <1>2, <1>7, ConcatProperties
<1> QED
  BY <1>1, <1>2, <1>3, <1>4, <1>7, <1>8

\* The step's actions keep everything typed.
LEMMA StepTypeOK ==
  ASSUME TypeOK, Step
  PROVE  TypeOK'
<1>1. CASE TakeStarted
  <2>1. queue # <<>> /\ Head(queue).kind = "started"
    BY <1>1 DEF TakeStarted
  <2>2. /\ Head(queue) \in SegmentEvent /\ Head(queue).id \in Segments
        /\ queue' \in Seq(QueueItem)
    BY <1>1, <2>1, HeadOfQueueType, QueueItemCases DEF TakeStarted
  <2>3. Append(step.events, Stamp(Head(queue), StampNow)) \in Seq(Stamped)
    BY <2>2, StampNowType, StampType, AppendProperties DEF TypeOK, StepLocals
  <2>4. step' \in StepLocals
    BY <1>1, <2>3 DEF TakeStarted, TypeOK, StepLocals
  <2>5. /\ active' \in Segments \cup {None} /\ coalescing' \in Segments \cup {None}
        /\ activeStart' \in Nat
    BY <1>1, <2>2, StampNowType DEF TakeStarted
  <2> QED
    BY <1>1, <2>2, <2>4, <2>5 DEF TakeStarted, TypeOK, inputVars, historyVars
<1>2. CASE TakeEnded
  <2>1. queue # <<>> /\ Head(queue).kind = "ended"
    BY <1>2 DEF TakeEnded
  <2>2. Head(queue) \in SegmentEvent /\ queue' \in Seq(QueueItem)
    BY <1>2, <2>1, HeadOfQueueType, QueueItemCases DEF TakeEnded
  <2>3. Append(step.events, Stamp(Head(queue), StampNow)) \in Seq(Stamped)
    BY <2>2, StampNowType, StampType, AppendProperties DEF TypeOK, StepLocals
  <2>4. step' \in StepLocals
    BY <1>2, <2>3 DEF TakeEnded, TypeOK, StepLocals
  <2> QED
    BY <1>2, <2>2, <2>4 DEF TakeEnded, TypeOK, inputVars, historyVars
<1>3. CASE TakeChunk
  <2>1. queue # <<>> /\ Head(queue).kind = "audio"
    BY <1>3 DEF TakeChunk
  <2>2. /\ Head(queue).id \in Unit /\ Head(queue).len \in Nat
        /\ queue' \in Seq(QueueItem)
    BY <1>3, <2>1, HeadOfQueueType, QueueItemCases DEF TakeChunk, Unit
  <2>3. step.bufs \o Units(Head(queue).id, Head(queue).len) \in Seq(Unit)
    BY <2>2, UnitsType, ConcatProperties DEF TypeOK, StepLocals
  <2>4. /\ step.toConsume - Head(queue).len \in Int
        /\ step.consumed + Head(queue).len \in Nat
    <3>1. step.toConsume \in Int /\ step.consumed \in Nat
      BY DEF TypeOK, StepLocals
    <3> QED
      BY <2>2, <3>1
  <2>5. step \in StepLocals
    BY DEF TypeOK
  <2>6. step' = [step EXCEPT
                    !.bufs = step.bufs \o Units(Head(queue).id, Head(queue).len),
                    !.toConsume = step.toConsume - Head(queue).len,
                    !.consumed = step.consumed + Head(queue).len]
    BY <1>3 DEF TakeChunk
  <2>7. step' \in StepLocals
    BY <2>3, <2>4, <2>5, <2>6 DEF StepLocals
  <2> QED
    BY <1>3, <2>2, <2>7 DEF TakeChunk, TypeOK, inputVars, historyVars
<1>4. CASE TakeNotice
  <2>1. queue # <<>> /\ Head(queue).kind \in {"interrupted", "cancelled"}
    BY <1>4 DEF TakeNotice
  <2>2. Head(queue) \in SegmentEvent /\ queue' \in Seq(QueueItem)
    BY <1>4, <2>1, HeadOfQueueType, QueueItemCases DEF TakeNotice
  <2>3. eventQueue' \in Seq(Stamped)
    BY <1>4, <2>2, StampNowType, StampType, AppendProperties
       DEF TakeNotice, TypeOK
  <2> QED
    BY <1>4, <2>2, <2>3 DEF TakeNotice, TypeOK, inputVars, historyVars
<1>5. CASE \/ StopConsuming \/ AwaitStartupAudio \/ StartupAudioArrives
           \/ StartupTimesOut \/ AwaitArrival \/ ArrivalWakes \/ ArrivalCrashes
  BY <1>5, GoToTypeOK
     DEF StopConsuming, AwaitStartupAudio, StartupAudioArrives,
         StartupTimesOut, AwaitArrival, ArrivalWakes, ArrivalCrashes
<1>6. CASE Finish
  <2> DEFINE queued == eventQueue \o FinishedEvents
             due == DueCount(queued, nextPresent + Present)
  <2>1. FinishedEvents \in Seq(Stamped)
    <3>1. ShiftedBy(step.events, IF PadsLeft THEN MissingUnits ELSE 0)
             \in Seq(Stamped)
      <4>1. (IF PadsLeft THEN MissingUnits ELSE 0) \in Int
        BY MissingUnitsType
      <4>2. step.events \in Seq(Stamped)
        BY DEF TypeOK, StepLocals
      <4> QED
        BY <4>1, <4>2, ShiftedByType
    <3> QED
      BY <3>1, EmptySeq DEF FinishedEvents
  <2>2. queued \in Seq(Stamped)
    BY <2>1, ConcatProperties DEF TypeOK
  <2>3. /\ log' = log \o SubSeq(queued, 1, due)
        /\ eventQueue' = SubSeq(queued, due + 1, Len(queued))
    BY <1>6 DEF Finish
  <2>4. nextPresent + Present \in Nat
    BY DurationAssumption DEF TypeOK
  <2> HIDE DEF queued
  <2>5. due \in 0..Len(queued) /\ Len(queued) \in Nat
    BY <2>2, <2>4, DueIsDue, LenProperties
  <2> HIDE DEF due
  <2>6. \A i \in 1..Len(queued) : queued[i] \in Stamped
    BY <2>2, ElementOfSeq
  <2>7. /\ SubSeq(queued, 1, due) \in Seq(Stamped)
        /\ SubSeq(queued, due + 1, Len(queued)) \in Seq(Stamped)
    BY <2>5, <2>6, SubSeqProperties
  <2>8. log' \in Seq(Stamped) /\ eventQueue' \in Seq(Stamped)
    BY <2>3, <2>7, ConcatProperties DEF TypeOK
  <2>9. Present \in Nat
    BY DurationAssumption
  <2>10. timeline' \in Seq(Unit) /\ buffer' \in Seq(Unit)
    <3>1. /\ FirstPart(FilledBuffer, Present) \in Seq(Unit)
          /\ SecondPart(FilledBuffer, Present) \in Seq(Unit)
      BY <2>9, FilledBufferType, FirstPartType, SecondPartType
    <3> QED
      BY <1>6, <3>1, ConcatProperties DEF Finish, TypeOK
  <2>11. step' \in StepLocals
    BY <1>6, EmptySeq DEF Finish, IdleStep, StepLocals
  <2> QED
    BY <1>6, <2>4, <2>8, <2>10, <2>11 DEF Finish, TypeOK, inputVars
<1> QED
  BY <1>1, <1>2, <1>3, <1>4, <1>5, <1>6 DEF Step

\* Every step of the scheduler keeps everything typed.
LEMMA NextTypeOK == TypeOK /\ [Next]_vars => TypeOK'
<1> SUFFICES ASSUME TypeOK, [Next]_vars PROVE TypeOK'
  OBVIOUS
<1>1. CASE BeginStep
  <2>1. AtLeastZero(Present + Future - Len(buffer)) \in Int
    BY DurationAssumption, LenProperties DEF TypeOK, AtLeastZero
  <2>2. step' \in StepLocals
    BY <1>1, <2>1, EmptySeq DEF BeginStep, IdleStep, StepLocals
  <2> QED
    BY <1>1, <2>2 DEF BeginStep, TypeOK, inputVars, historyVars
<1>2. CASE UNCHANGED vars
  BY <1>2 DEF vars, TypeOK
<1> QED
  BY <1>1, <1>2, ListenTypeOK, StepTypeOK DEF Next, Terminated

\* The scheduler's fields and do_step's locals always have their types.
THEOREM TypeCorrect == Spec => []TypeOK
BY InitTypeOK, NextTypeOK, PTL DEF Spec

-----------------------------------------------------------------------------
(***************************************************************************)
(* The present chunk is never short.  PresentNeverShort alone is not       *)
(* inductive: an interrupt may cut the buffer while a step waits with a    *)
(* toConsume computed before the cut.  What survives the cut is that       *)
(* either the look-ahead is still whole, and it is at least as long as the *)
(* present, or nothing was cut and the sum is what do_step asked for.      *)
(***************************************************************************)
InStep == pc \in {"running", "coalescing", "midsegment", "finishing"}

AudioSuffices ==
    InStep =>
        /\ Len(step.bufs) = step.consumed
        /\ \/ Len(buffer) >= Future
           \/ Len(buffer) + step.consumed + step.toConsume >= Present + Future

PresentInv == PresentNeverShort /\ AudioSuffices

\* The loop's control points do not touch what PresentInv is about.
LEMMA GoToPresentInv ==
  ASSUME PresentInv, NEW label, GoTo(label), InStep
  PROVE  PresentInv'
BY DEF PresentInv, PresentNeverShort, AudioSuffices, InStep, GoTo, historyVars

\* An interrupt keeps the look-ahead or everything.
LEMMA InterruptPresentInv ==
  ASSUME TypeOK, PresentInv, Interrupt
  PROVE  PresentInv'
<1>1. /\ Len(KeptBuffer) = Shorter(Future, Len(buffer))
      /\ Len(KeptBuffer) \in Nat
      /\ Len(Units(Silence, Len(KeptBuffer))) = Len(KeptBuffer)
  BY KeptBufferType, UnitsType
<1>2. Len(buffer') = Shorter(Future, Len(buffer))
  BY <1>1 DEF Interrupt, InterruptCoalescing, InterruptPendingStart,
              InterruptPlaying, InterruptSilent
<1>3. /\ Len(buffer) \in Nat /\ Future \in Nat
      /\ step.consumed \in Nat /\ step.toConsume \in Int
  BY LenProperties, DurationAssumption DEF TypeOK, StepLocals
<1>4. UNCHANGED <<pc, step, timeline, nextPresent>>
  BY DEF Interrupt, historyVars
<1> QED
  BY <1>2, <1>3, <1>4
     DEF PresentInv, PresentNeverShort, AudioSuffices, InStep, Shorter

\* The chunk do_step returns is as long as the present duration.
LEMMA FinishPresentInv ==
  ASSUME TypeOK, PresentInv, Finish
  PROVE  PresentInv'
<1>1. /\ Len(buffer) \in Nat /\ Future \in Nat /\ Present \in Nat
      /\ Present <= Future /\ nextPresent \in Nat
      /\ step.consumed \in Nat /\ step.toConsume \in Int
  BY LenProperties, DurationAssumption DEF TypeOK, StepLocals
<1>2. /\ Len(step.bufs) = step.consumed
      /\ \/ Len(buffer) >= Future
         \/ Len(buffer) + step.consumed + step.toConsume >= Present + Future
  BY DEF PresentInv, AudioSuffices, InStep, Finish
<1>3. Len(FilledBuffer) \in Nat /\ Len(FilledBuffer) >= Present
  <2>1. /\ FilledBuffer \in Seq(Unit)
        /\ Len(FilledBuffer) = Len(buffer) + MissingUnits
              + (IF StartupCancelled THEN 0 ELSE Len(step.bufs))
    BY FilledBufferType
  <2>2. CASE StartupCancelled
    <3>1. MissingUnits = AtLeastZero(Present + Future - Len(buffer))
      BY <2>2 DEF MissingUnits
    <3> QED
      BY <1>1, <2>1, <2>2, <3>1 DEF AtLeastZero
  <2>3. CASE ~StartupCancelled
    <3>1. MissingUnits = AtLeastZero(step.toConsume)
      BY <2>3 DEF MissingUnits
    <3> QED
      BY <1>1, <1>2, <2>1, <2>3, <3>1 DEF AtLeastZero
  <2> QED
    BY <2>2, <2>3
<1>4. Len(FirstPart(FilledBuffer, Present)) = Present
  BY <1>1, <1>3, FilledBufferType, FirstPartType DEF Shorter
<1>5. Len(timeline') = nextPresent'
  <2>1. FirstPart(FilledBuffer, Present) \in Seq(Unit)
    BY <1>1, FilledBufferType, FirstPartType
  <2>2. timeline \in Seq(Unit) /\ Len(timeline) = nextPresent
    BY DEF TypeOK, PresentInv, PresentNeverShort
  <2>3. /\ timeline' = timeline \o FirstPart(FilledBuffer, Present)
        /\ nextPresent' = nextPresent + Present
    BY DEF Finish
  <2> QED
    BY <1>4, <2>1, <2>2, <2>3, ConcatProperties
<1> QED
  BY <1>5 DEF Finish, PresentInv, PresentNeverShort, AudioSuffices, InStep

\* Every step of the scheduler keeps PresentInv.
LEMMA NextPresentInv ==
  ASSUME TypeOK, PresentInv, [Next]_vars
  PROVE  PresentInv'
<1> USE DEF PresentInv, PresentNeverShort, AudioSuffices, InStep
<1>1. CASE BeginStep
  <2>1. /\ Len(buffer) \in Nat /\ Future \in Nat /\ Present \in Nat
    BY LenProperties, DurationAssumption DEF TypeOK
  <2>2. /\ step'.toConsume = AtLeastZero(Present + Future - Len(buffer))
        /\ step'.consumed = 0 /\ Len(step'.bufs) = 0
        /\ UNCHANGED <<buffer, nextPresent, timeline>>
    BY <1>1, EmptySeq DEF BeginStep, IdleStep, historyVars
  <2> QED
    BY <2>1, <2>2 DEF AtLeastZero
<1>2. CASE Listen
  <2>1. CASE Discard \/ ShutdownAvatar
    BY <2>1, InterruptPresentInv DEF Discard, ShutdownAvatar
  <2>2. CASE ~(Discard \/ ShutdownAvatar)
    BY <1>2, <2>2
       DEF Listen, StartSegment, AppendChunk, EndSegment, ShutdownUser, Sweep,
           historyVars
  <2> QED
    BY <2>1, <2>2
<1>3. CASE TakeChunk
  <2>1. /\ Head(queue).len \in Nat /\ Head(queue).id \in Unit
    <3>1. queue # <<>> /\ Head(queue).kind = "audio"
      BY <1>3 DEF TakeChunk
    <3> QED
      BY <3>1, HeadOfQueueType, QueueItemCases DEF Unit
  <2>2. /\ step.bufs \in Seq(Unit) /\ step.consumed \in Nat
        /\ step.toConsume \in Int /\ Len(buffer) \in Nat
    BY LenProperties DEF TypeOK, StepLocals
  <2>3. Len(step.bufs \o Units(Head(queue).id, Head(queue).len))
          = Len(step.bufs) + Head(queue).len
    BY <2>1, <2>2, AppendUnitsType
  <2>4. /\ step'.bufs = step.bufs \o Units(Head(queue).id, Head(queue).len)
        /\ step'.toConsume = step.toConsume - Head(queue).len
        /\ step'.consumed = step.consumed + Head(queue).len
        /\ UNCHANGED <<pc, buffer, nextPresent, timeline>>
        /\ pc = "running"
    <3>1. step \in StepLocals
      BY DEF TypeOK
    <3> QED
      BY <1>3, <3>1 DEF TakeChunk, Consuming, historyVars, StepLocals
  <2>5. Len(timeline') = nextPresent' /\ Len(buffer') = Len(buffer)
    BY <2>4
  <2>6. Len(step'.bufs) = step'.consumed
    BY <2>1, <2>2, <2>3, <2>4
  <2>7. \/ Len(buffer') >= Future
        \/ Len(buffer') + step'.consumed + step'.toConsume >= Present + Future
    <3>1. CASE Len(buffer) >= Future
      BY <2>5, <3>1
    <3>2. CASE Len(buffer) + step.consumed + step.toConsume >= Present + Future
      <4>1. Len(buffer') + step'.consumed + step'.toConsume
              = Len(buffer) + step.consumed + step.toConsume
        BY <2>1, <2>2, <2>4, <2>5
      <4> QED
        BY <3>2, <4>1
    <3> QED
      BY <2>4, <3>1, <3>2
  <2> QED
    BY <2>5, <2>6, <2>7
<1>4. CASE TakeStarted \/ TakeEnded \/ TakeNotice
  <2>1. /\ UNCHANGED <<buffer, nextPresent, timeline>>
        /\ step'.bufs = step.bufs
        /\ step'.toConsume = step.toConsume
        /\ step'.consumed = step.consumed
        /\ InStep
    <3>1. step \in StepLocals
      BY DEF TypeOK
    <3> QED
      BY <1>4, <3>1
         DEF TakeStarted, TakeEnded, TakeNotice, Consuming, historyVars,
             StepLocals
  <2> QED
    BY <2>1
<1>5. CASE \/ StopConsuming \/ AwaitStartupAudio \/ StartupAudioArrives
           \/ StartupTimesOut \/ AwaitArrival \/ ArrivalWakes \/ ArrivalCrashes
  BY <1>5, GoToPresentInv
     DEF StopConsuming, AwaitStartupAudio, StartupAudioArrives,
         StartupTimesOut, AwaitArrival, ArrivalWakes, ArrivalCrashes, Consuming
<1>6. CASE Finish
  BY <1>6, FinishPresentInv
<1>7. CASE UNCHANGED vars
  BY <1>7 DEF vars
<1> QED
  BY <1>1, <1>2, <1>3, <1>4, <1>5, <1>6, <1>7 DEF Next, Step, Terminated

\* Every present chunk the scheduler returns has the full present duration.
THEOREM PresentCorrect == Spec => []PresentNeverShort
<1>1. Init => PresentInv
  BY EmptySeq DEF Init, PresentInv, PresentNeverShort, AudioSuffices, InStep
<1>2. TypeOK /\ PresentInv /\ [Next]_vars => PresentInv'
  BY NextPresentInv
<1>3. PresentInv => PresentNeverShort
  BY DEF PresentInv
<1> QED
  BY <1>1, <1>2, <1>3, TypeCorrect, PTL DEF Spec

-----------------------------------------------------------------------------
(***************************************************************************)
(* "Should never get here" is right: the step leaves its loop short of     *)
(* audio only with no active segment or in the step a segment starts in.   *)
(***************************************************************************)
PaddingInv ==
    /\ pc = "coalescing" => step.isStart
    /\ pc = "finishing" =>
          step.toConsume <= 0 \/ active = None \/ step.isStart

\* Every step of the scheduler keeps PaddingInv.
LEMMA NextPaddingInv ==
  ASSUME TypeOK, PaddingInv, [Next]_vars
  PROVE  PaddingInv'
<1> USE DEF PaddingInv
<1>1. CASE BeginStep
  BY <1>1 DEF BeginStep
<1>2. CASE Listen
  BY <1>2 DEF Listen, StartSegment, AppendChunk, EndSegment, Discard,
              ShutdownAvatar, ShutdownUser, Interrupt, Sweep, Listening
<1>3. CASE Step
  <2>1. CASE TakeStarted \/ TakeChunk \/ TakeNotice
    BY <2>1 DEF TakeStarted, TakeChunk, TakeNotice, Consuming
  <2>2. CASE TakeEnded
    BY <2>2 DEF TakeEnded
  <2>3. CASE StopConsuming
    <3>1. step.toConsume \in Int
      BY DEF TypeOK, StepLocals
    <3> QED
      BY <2>3, <3>1 DEF StopConsuming, GoTo, Consuming, StartupCancelled
  <2>4. CASE AwaitStartupAudio \/ StartupTimesOut
    BY <2>4 DEF AwaitStartupAudio, StartupTimesOut, GoTo
  <2>5. CASE \/ StartupAudioArrives \/ AwaitArrival \/ ArrivalWakes
             \/ ArrivalCrashes
    BY <2>5 DEF StartupAudioArrives, AwaitArrival, ArrivalWakes,
                ArrivalCrashes, GoTo
  <2>6. CASE Finish
    BY <2>6 DEF Finish
  <2> QED
    BY <1>3, <2>1, <2>2, <2>3, <2>4, <2>5, <2>6 DEF Step
<1>4. CASE UNCHANGED vars
  BY <1>4 DEF vars
<1> QED
  BY <1>1, <1>2, <1>3, <1>4 DEF Next, Terminated

\* The padding of a step always has a side to go to.
THEOREM PaddingCorrect == Spec => []PaddingHasASide
<1>1. Init => PaddingInv
  BY DEF Init, PaddingInv
<1>2. TypeOK /\ PaddingInv /\ [Next]_vars => PaddingInv'
  BY NextPaddingInv
<1>3. TypeOK /\ PaddingInv => PaddingHasASide
  <2>1. TypeOK => step.toConsume \in Int
    BY DEF TypeOK, StepLocals
  <2> QED
    BY <2>1 DEF PaddingInv, PaddingHasASide, MissingUnits, AtLeastZero,
                StartupCancelled
<1> QED
  BY <1>1, <1>2, <1>3, TypeCorrect, PTL DEF Spec

\* Every step of the scheduler returns a whole present chunk, and pads only where it may.
THEOREM StepsCorrect == Spec => []StepsAreWhole
<1>1. TypeOK /\ PresentNeverShort /\ PaddingHasASide => StepsAreWhole
  BY DEF StepsAreWhole
<1> QED
  BY <1>1, TypeCorrect, PresentCorrect, PaddingCorrect, PTL
-----------------------------------------------------------------------------
(***************************************************************************)
(* Events are returned in their window.  A step returns the events in      *)
(* front of the event queue that are due, so that the queue has to be in   *)
(* order and without events of the past.  It is in order since what is     *)
(* appended to it is stamped with the end of the audio of that moment, and *)
(* no interrupt cuts the audio before a stamp: a notice enters the event   *)
(* queue while no segment is active, when the step cannot wait.            *)
(***************************************************************************)
Notice(q) == q.kind \in {"interrupted", "cancelled"}
Speech(q) == q.kind \in {"started", "audio"}
HasNotice == \E i \in DOMAIN queue : Notice(queue[i])
EndsFirst == queue # <<>> /\ Head(queue).kind = "ended"

\* No notice comes after speech, and one comes with an active segment only behind its end.
QueueInv ==
    /\ \A i, j \in DOMAIN queue : i < j /\ Notice(queue[j]) => ~Speech(queue[i])
    /\ sweep # <<>> => \A i \in DOMAIN queue : ~Speech(queue[i])
    /\ sweep # <<>> \/ HasNotice => active = None \/ EndsFirst

\* What do_step knows of the queue where it is.
StepInv ==
    /\ pc \in {"running", "finishing"} => sweep = <<>>
    /\ pc \in {"idle", "midsegment", "crashed"} => ~step.isStart
    /\ pc = "coalescing" => step.isStart
    /\ step.isStart => coalescing # None
    /\ step.isStart /\ ~StartupCancelled => sweep = <<>> /\ ~HasNotice
    /\ ~step.isStart /\ pc # "finishing" => step.events = <<>>

AllFrom(evs, t) == \A i \in DOMAIN evs : t <= evs[i].at
AllUpTo(evs, t) == \A i \in DOMAIN evs : evs[i].at <= t
InOrder(evs) == \A i, j \in DOMAIN evs : i < j => evs[i].at <= evs[j].at

LookAhead == nextPresent + Shorter(Future, Len(buffer))
Horizon == nextPresent + Present + Future

\* The events that are queued; an interrupt keeps the audio before LookAhead.
QueuedInv ==
    /\ InOrder(eventQueue) /\ AllFrom(eventQueue, nextPresent)
    /\ pc \in {"idle", "midsegment", "crashed"} \/ (~step.isStart /\ active # None) =>
          AllUpTo(eventQueue, LookAhead)
    /\ InStep => AllUpTo(eventQueue, Horizon)

\* The events of the step, which come after them.
NewInv ==
    InStep /\ ~StartupCancelled =>
        /\ step.toConsume > 0 => Len(buffer) + step.consumed + step.toConsume <= Present + Future
        /\ AllUpTo(eventQueue, StampNow)
        /\ InOrder(step.events) /\ AllFrom(step.events, nextPresent)
        /\ AllUpTo(step.events, StampNow) /\ AllUpTo(step.events, Horizon)
        /\ \A i \in DOMAIN step.events : AllUpTo(eventQueue, step.events[i].at)

StampsInv == QueueInv /\ StepInv /\ QueuedInv /\ NewInv

(***************************************************************************)
(* Sequences of stamped events.                                            *)
(***************************************************************************)

\* What is left of a sequence after its first n elements.
LEMMA RestProperties ==
  ASSUME NEW S, NEW evs \in Seq(S), NEW n \in Nat, n <= Len(evs)
  PROVE  LET rest == SubSeq(evs, n + 1, Len(evs)) IN
         /\ rest \in Seq(S) /\ Len(rest) = Len(evs) - n
         /\ \A k \in 1..(Len(evs) - n) : rest[k] = evs[n + k]
<1> DEFINE rest == SubSeq(evs, n + 1, Len(evs))
<1>1. Len(evs) \in Nat /\ \A k \in (n + 1)..Len(evs) : evs[k] \in S
  BY LenProperties, ElementOfSeq
<1>2. /\ rest \in Seq(S)
      /\ Len(rest) = IF n + 1 <= Len(evs) THEN Len(evs) - (n + 1) + 1 ELSE 0
      /\ \A k \in 1..(Len(evs) - (n + 1) + 1) : rest[k] = evs[(n + 1) + k - 1]
  BY <1>1, SubSeqProperties
<1> HIDE DEF rest
<1>3. Len(rest) = Len(evs) - n
  BY <1>1, <1>2
<1>4. ASSUME NEW k \in 1..(Len(evs) - n) PROVE rest[k] = evs[n + k]
  <2>1. k \in 1..(Len(evs) - (n + 1) + 1) /\ (n + 1) + k - 1 = n + k
    BY <1>1
  <2> QED
    BY <1>2, <2>1
<1> QED
  BY <1>2, <1>3, <1>4 DEF rest

\* A later bound is a bound.
LEMMA LaterBound ==
  ASSUME NEW evs \in Seq(Stamped), NEW t \in Int, NEW u \in Int, t <= u, AllUpTo(evs, t)
  PROVE  AllUpTo(evs, u)
BY StampsAreInt DEF AllUpTo

\* An earlier one, from below.
LEMMA EarlierBound ==
  ASSUME NEW evs \in Seq(Stamped), NEW t \in Int, NEW u \in Int, u <= t, AllFrom(evs, t)
  PROVE  AllFrom(evs, u)
BY StampsAreInt DEF AllFrom

\* Events that are stamped one by one, each as late as those before.
LEMMA StampedLast ==
  ASSUME NEW evs \in Seq(Stamped), NEW st \in Stamped, AllUpTo(evs, st.at)
  PROVE  /\ InOrder(evs) => InOrder(Append(evs, st))
         /\ AllUpTo(Append(evs, st), st.at)
         /\ \A t \in Int : AllFrom(evs, t) /\ t <= st.at => AllFrom(Append(evs, st), t)
<1> DEFINE more == Append(evs, st)
<1>1. /\ Len(evs) \in Nat /\ DOMAIN evs = 1..Len(evs) /\ DOMAIN more = 1..(Len(evs) + 1)
      /\ \A i \in 1..Len(evs) : more[i] = evs[i] /\ evs[i].at \in Int
      /\ more[Len(evs) + 1] = st /\ st.at \in Int
  <2>1. st.at \in Int
    BY DEF Stamped
  <2>2. more \in Seq(Stamped) /\ Len(more) = Len(evs) + 1
    BY AppendProperties
  <2>3. DOMAIN more = 1..Len(more)
    BY <2>2, LenProperties
  <2> QED
    BY <2>1, <2>2, <2>3, StampsAreInt, AppendProperties
<1> HIDE DEF more
<1>2. ASSUME NEW i \in DOMAIN more PROVE i \in DOMAIN evs \/ (i = Len(evs) + 1 /\ more[i] = st)
  BY <1>1
<1>3. ASSUME InOrder(evs) PROVE InOrder(more)
  <2> SUFFICES ASSUME NEW i \in DOMAIN more, NEW j \in DOMAIN more, i < j
               PROVE  more[i].at <= more[j].at
    BY DEF InOrder
  <2>1. i \in DOMAIN evs /\ more[i] = evs[i]
    BY <1>1
  <2>2. CASE j \in DOMAIN evs
    BY <1>1, <1>3, <2>1, <2>2 DEF InOrder
  <2>3. CASE j = Len(evs) + 1
    BY <1>1, <2>1, <2>3 DEF AllUpTo
  <2> QED
    BY <1>2, <2>2, <2>3
<1>4. AllUpTo(more, st.at)
  BY <1>1, <1>2 DEF AllUpTo
<1>5. ASSUME NEW t \in Int, AllFrom(evs, t), t <= st.at PROVE AllFrom(more, t)
  BY <1>1, <1>2, <1>5 DEF AllFrom
<1> QED
  BY <1>3, <1>4, <1>5 DEF more

\* What is left of a queue when a segment's start is taken out of it.
LEMMA WithoutOne ==
  ASSUME NEW evs \in Seq(Stamped), NEW i \in 1..Len(evs), InOrder(evs)
  PROVE  LET less == SubSeq(evs, 1, i - 1) \o SubSeq(evs, i + 1, Len(evs)) IN
         /\ InOrder(less)
         /\ \A t \in Int : /\ AllFrom(evs, t) => AllFrom(less, t)
                           /\ AllUpTo(evs, t) => AllUpTo(less, t)
<1> DEFINE a == SubSeq(evs, 1, i - 1)
           b == SubSeq(evs, i + 1, Len(evs))
           less == a \o b
<1>1. /\ Len(evs) \in Nat /\ DOMAIN evs = 1..Len(evs)
      /\ \A k \in 1..Len(evs) : evs[k] \in Stamped /\ evs[k].at \in Int
  BY StampsAreInt
<1>2. a \in Seq(Stamped) /\ Len(a) = i - 1 /\ \A k \in 1..(i - 1) : a[k] = evs[k]
  BY <1>1, SubSeqProperties
<1>3. b \in Seq(Stamped) /\ Len(b) = Len(evs) - i /\ \A k \in 1..(Len(evs) - i) : b[k] = evs[i + k]
  <2>1. i \in Nat /\ i <= Len(evs)
    BY <1>1
  <2> QED
    BY <2>1, RestProperties, Zenon
<1> HIDE DEF a, b
<1>4. less \in Seq(Stamped) /\ Len(less) = Len(evs) - 1
      /\ \A k \in 1..(Len(evs) - 1) : less[k] = IF k <= i - 1 THEN a[k] ELSE b[k - (i - 1)]
  <2>1. /\ less \in Seq(Stamped) /\ Len(less) = Len(a) + Len(b)
        /\ \A k \in 1..(Len(a) + Len(b)) : less[k] = IF k <= Len(a) THEN a[k] ELSE b[k - Len(a)]
    BY <1>2, <1>3, ConcatProperties
  <2> HIDE DEF less
  <2>2. Len(a) = i - 1 /\ Len(a) + Len(b) = Len(evs) - 1
    BY <1>1, <1>2, <1>3
  <2> QED
    BY <2>1, <2>2
<1>5. DOMAIN less = 1..(Len(evs) - 1)
  BY <1>4, LenProperties
<1> HIDE DEF less
<1>6. ASSUME NEW k \in 1..(Len(evs) - 1) PROVE less[k] = IF k < i THEN evs[k] ELSE evs[k + 1]
  <2>1. CASE k <= i - 1
    BY <1>1, <1>2, <1>4, <2>1
  <2>2. CASE ~(k <= i - 1)
    <3>1. k - (i - 1) \in 1..(Len(evs) - i) /\ i + (k - (i - 1)) = k + 1
      BY <1>1, <2>2
    <3>2. b[k - (i - 1)] = evs[k + 1]
      BY <1>3, <3>1
    <3>3. less[k] = b[k - (i - 1)] /\ ~(k < i)
      BY <1>1, <1>4, <2>2
    <3> QED
      BY <3>2, <3>3
  <2> QED
    BY <2>1, <2>2
<1>7. InOrder(less)
  <2> SUFFICES ASSUME NEW k \in 1..(Len(evs) - 1), NEW l \in 1..(Len(evs) - 1), k < l
               PROVE  less[k].at <= less[l].at
    BY <1>5 DEF InOrder
  <2> DEFINE m == IF k < i THEN k ELSE k + 1
             n == IF l < i THEN l ELSE l + 1
  <2>1. m \in 1..Len(evs) /\ n \in 1..Len(evs) /\ m < n
    BY <1>1
  <2>2. less[k] = evs[m] /\ less[l] = evs[n]
    BY <1>6
  <2> QED
    BY <1>1, <2>1, <2>2 DEF InOrder
<1>8. ASSUME NEW t \in Int
      PROVE  (AllFrom(evs, t) => AllFrom(less, t)) /\ (AllUpTo(evs, t) => AllUpTo(less, t))
  <2>1. ASSUME NEW k \in DOMAIN less PROVE \E m \in DOMAIN evs : less[k] = evs[m]
    <3> DEFINE m == IF k < i THEN k ELSE k + 1
    <3>1. m \in DOMAIN evs /\ less[k] = evs[m]
      BY <1>1, <1>5, <1>6
    <3> QED
      BY <3>1
  <2> QED
    BY <2>1 DEF AllFrom, AllUpTo
<1> QED
  BY <1>7, <1>8 DEF less, a, b

\* What a step adds comes after what is queued, and both are in order.
LEMMA JoinedInOrder ==
  ASSUME NEW a \in Seq(Stamped), NEW b \in Seq(Stamped), InOrder(a), InOrder(b),
         \A i \in DOMAIN b : AllUpTo(a, b[i].at)
  PROVE  /\ InOrder(a \o b)
         /\ \A t \in Int : /\ AllFrom(a, t) /\ AllFrom(b, t) => AllFrom(a \o b, t)
                           /\ AllUpTo(a, t) /\ AllUpTo(b, t) => AllUpTo(a \o b, t)
<1> DEFINE ab == a \o b
<1>1. /\ Len(a) \in Nat /\ DOMAIN a = 1..Len(a) /\ Len(b) \in Nat /\ DOMAIN b = 1..Len(b)
      /\ \A k \in 1..Len(a) : a[k].at \in Int
      /\ \A k \in 1..Len(b) : b[k].at \in Int
  BY StampsAreInt
<1>2. /\ ab \in Seq(Stamped) /\ Len(ab) = Len(a) + Len(b)
      /\ \A k \in 1..(Len(a) + Len(b)) : ab[k] = IF k <= Len(a) THEN a[k] ELSE b[k - Len(a)]
  BY ConcatProperties
<1>3. DOMAIN ab = 1..(Len(a) + Len(b))
  BY <1>2, LenProperties
<1> HIDE DEF ab
<1>4. ASSUME NEW k \in DOMAIN ab
      PROVE  \/ k \in DOMAIN a /\ ab[k] = a[k]
             \/ k > Len(a) /\ k - Len(a) \in DOMAIN b /\ ab[k] = b[k - Len(a)]
  <2>1. CASE k <= Len(a)
    BY <1>1, <1>2, <1>3, <2>1
  <2>2. CASE ~(k <= Len(a))
    <3>1. k - Len(a) \in 1..Len(b)
      BY <1>1, <1>3, <2>2
    <3> QED
      BY <1>1, <1>2, <1>3, <2>2, <3>1
  <2> QED
    BY <2>1, <2>2
<1>5. InOrder(ab)
  <2> SUFFICES ASSUME NEW k \in DOMAIN ab, NEW l \in DOMAIN ab, k < l
               PROVE  ab[k].at <= ab[l].at
    BY DEF InOrder
  <2>1. CASE l \in DOMAIN a /\ ab[l] = a[l]
    <3>1. k \in DOMAIN a /\ ab[k] = a[k]
      BY <1>1, <1>3, <1>4, <2>1
    <3> QED
      BY <2>1, <3>1 DEF InOrder
  <2>2. CASE l > Len(a) /\ l - Len(a) \in DOMAIN b /\ ab[l] = b[l - Len(a)]
    <3>1. CASE k \in DOMAIN a /\ ab[k] = a[k]
      <4>1. AllUpTo(a, b[l - Len(a)].at)
        BY <2>2
      <4> QED
        BY <2>2, <3>1, <4>1 DEF AllUpTo
    <3>2. CASE k > Len(a) /\ k - Len(a) \in DOMAIN b /\ ab[k] = b[k - Len(a)]
      <4>1. k - Len(a) < l - Len(a)
        BY <1>1, <1>3
      <4> QED
        BY <2>2, <3>2, <4>1 DEF InOrder
    <3> QED
      BY <1>4, <3>1, <3>2
  <2> QED
    BY <1>4, <2>1, <2>2
<1>6. ASSUME NEW t \in Int
      PROVE  /\ AllFrom(a, t) /\ AllFrom(b, t) => AllFrom(ab, t)
             /\ AllUpTo(a, t) /\ AllUpTo(b, t) => AllUpTo(ab, t)
  BY <1>4 DEF AllFrom, AllUpTo
<1> QED
  BY <1>5, <1>6 DEF ab

\* Padding on the left makes all events of a step later by as much.
LEMMA ShiftedInOrder ==
  ASSUME NEW evs \in Seq(Stamped), NEW d \in Nat
  PROVE  /\ ShiftedBy(evs, d) \in Seq(Stamped) /\ DOMAIN ShiftedBy(evs, d) = DOMAIN evs
         /\ \A i \in DOMAIN evs : ShiftedBy(evs, d)[i].at = evs[i].at + d
         /\ InOrder(evs) => InOrder(ShiftedBy(evs, d))
         /\ \A t \in Int : /\ AllFrom(evs, t) => AllFrom(ShiftedBy(evs, d), t)
                           /\ AllUpTo(evs, t) => AllUpTo(ShiftedBy(evs, d), t + d)
<1> DEFINE new == ShiftedBy(evs, d)
<1>1. /\ Len(evs) \in Nat /\ DOMAIN evs = 1..Len(evs)
      /\ \A i \in 1..Len(evs) : evs[i].at \in Int
  BY StampsAreInt
<1>2. new \in Seq(Stamped)
  BY ShiftedByType
<1>3. DOMAIN new = DOMAIN evs /\ \A i \in DOMAIN evs : new[i].at = evs[i].at + d
  BY DEF ShiftedBy, Stamp
<1> HIDE DEF new
<1>4. InOrder(evs) => InOrder(new)
  BY <1>1, <1>3 DEF InOrder
<1>5. ASSUME NEW t \in Int
      PROVE  /\ AllFrom(evs, t) => AllFrom(new, t)
             /\ AllUpTo(evs, t) => AllUpTo(new, t + d)
  BY <1>1, <1>3 DEF AllFrom, AllUpTo
<1> QED
  BY <1>2, <1>3, <1>4, <1>5 DEF new

\* In a queue that is in order everything that is left is of the next step.
LEMMA LeftIsLater ==
  ASSUME NEW evs \in Seq(Stamped), NEW t \in Int, InOrder(evs)
  PROVE  LET due == DueCount(evs, t)
             left == SubSeq(evs, due + 1, Len(evs)) IN
         /\ InOrder(left) /\ AllFrom(left, t)
         /\ \A u \in Int : AllUpTo(evs, u) => AllUpTo(left, u)
<1> DEFINE due == DueCount(evs, t)
           left == SubSeq(evs, due + 1, Len(evs))
<1>1. /\ Len(evs) \in Nat /\ DOMAIN evs = 1..Len(evs)
      /\ \A i \in 1..Len(evs) : evs[i] \in Stamped /\ evs[i].at \in Int
  BY StampsAreInt
<1>2. due \in 0..Len(evs) /\ (due < Len(evs) => evs[due + 1].at >= t)
  BY DueIsDue
<1> HIDE DEF due
<1>3. left \in Seq(Stamped) /\ Len(left) = Len(evs) - due
      /\ \A k \in 1..(Len(evs) - due) : left[k] = evs[due + k]
  <2>1. due \in Nat /\ due <= Len(evs)
    BY <1>1, <1>2
  <2> QED
    BY <2>1, RestProperties, Zenon
<1>4. DOMAIN left = 1..(Len(evs) - due)
  BY <1>3, LenProperties
<1> HIDE DEF left
<1>5. ASSUME NEW k \in DOMAIN left
      PROVE  due + k \in 1..Len(evs) /\ left[k] = evs[due + k] /\ left[k].at >= t
  <2>1. due + k \in 1..Len(evs) /\ left[k] = evs[due + k] /\ due + 1 \in 1..Len(evs) /\ due < Len(evs)
    BY <1>1, <1>2, <1>3, <1>4
  <2>2. evs[due + 1].at <= evs[due + k].at
    <3>1. CASE k = 1
      BY <1>1, <2>1, <3>1
    <3>2. CASE k # 1
      <4>1. due + 1 < due + k
        BY <1>2, <1>4, <3>2
      <4> QED
        BY <1>1, <2>1, <4>1 DEF InOrder
    <3> QED
      BY <3>1, <3>2
  <2> QED
    BY <1>1, <1>2, <2>1, <2>2
<1>6. InOrder(left)
  <2> SUFFICES ASSUME NEW k \in DOMAIN left, NEW l \in DOMAIN left, k < l
               PROVE  left[k].at <= left[l].at
    BY DEF InOrder
  <2>1. due + k < due + l
    BY <1>2, <1>4
  <2> QED
    BY <1>1, <1>5, <2>1 DEF InOrder
<1>7. AllFrom(left, t)
  BY <1>5 DEF AllFrom
<1>8. ASSUME NEW u \in Int, AllUpTo(evs, u) PROVE AllUpTo(left, u)
  BY <1>1, <1>5, <1>8 DEF AllUpTo
<1> QED
  BY <1>6, <1>7, <1>8 DEF left, due

(***************************************************************************)
(* The shape of the queue.                                                 *)
(***************************************************************************)

\* Items of a queue, its head and its tail.
LEMMA QueueParts ==
  ASSUME NEW q \in Seq(QueueItem), q # <<>>
  PROVE  /\ Head(q) = q[1] /\ 1 \in DOMAIN q /\ Head(q) \in QueueItem
         /\ Tail(q) \in Seq(QueueItem)
         /\ \A i \in DOMAIN Tail(q) : i + 1 \in DOMAIN q /\ 1 < i + 1 /\ Tail(q)[i] = q[i + 1]
<1>1. Len(q) \in Nat \ {0} /\ DOMAIN q = 1..Len(q)
  BY EmptySeq, LenProperties
<1>2. Head(q) = q[1] /\ Tail(q) \in Seq(QueueItem) /\ Len(Tail(q)) = Len(q) - 1
      /\ \A i \in 1..Len(Tail(q)) : Tail(q)[i] = q[i + 1]
  BY HeadTailProperties
<1>3. DOMAIN Tail(q) = 1..(Len(q) - 1)
  BY <1>2, LenProperties
<1>4. q[1] \in QueueItem
  BY <1>1, ElementOfSeq
<1> QED
  BY <1>1, <1>2, <1>3, <1>4

\* An item is appended behind the others.
LEMMA QueueAppend ==
  ASSUME NEW q \in Seq(QueueItem), NEW c \in QueueItem
  PROVE  /\ Append(q, c) # <<>>
         /\ q # <<>> => Head(Append(q, c)) = Head(q)
         /\ Len(q) + 1 \in DOMAIN Append(q, c) /\ Append(q, c)[Len(q) + 1] = c
         /\ \A i \in DOMAIN Append(q, c) :
               \/ i \in DOMAIN q /\ Append(q, c)[i] = q[i]
               \/ i = Len(q) + 1 /\ Append(q, c)[i] = c
         /\ \A i \in DOMAIN q : i < Len(q) + 1 /\ i \in DOMAIN Append(q, c) /\ Append(q, c)[i] = q[i]
<1> DEFINE more == Append(q, c)
<1>1. Len(q) \in Nat /\ DOMAIN q = 1..Len(q)
  BY LenProperties
<1>2. /\ more \in Seq(QueueItem) /\ Len(more) = Len(q) + 1
      /\ \A i \in 1..Len(q) : more[i] = q[i]
      /\ more[Len(q) + 1] = c
  BY AppendProperties
<1>3. DOMAIN more = 1..(Len(q) + 1)
  BY <1>2, LenProperties
<1>4. more # <<>>
  BY <1>1, <1>2, EmptySeq
<1> HIDE DEF more
<1>5. q # <<>> => Head(more) = Head(q)
  BY <1>1, <1>2, <1>4, QueueParts
<1> QED
  BY <1>1, <1>2, <1>3, <1>4, <1>5 DEF more

\* Nothing is notice and speech at once, and an end is neither.
LEMMA KindsDiffer ==
  ASSUME NEW c
  PROVE  /\ Notice(c) => ~Speech(c)
         /\ c.kind = "ended" => ~Notice(c) /\ ~Speech(c)
BY DEF Notice, Speech

\* The listener's appends bring no notice.
LEMMA AppendedQueue ==
  ASSUME TypeOK, QueueInv, sweep = <<>>, NEW c \in QueueItem, ~Notice(c),
         queue' = Append(queue, c), UNCHANGED <<sweep, active>>
  PROVE  QueueInv' /\ (HasNotice' => HasNotice)
<1>1. queue \in Seq(QueueItem)
  BY DEF TypeOK
<1>2. /\ queue' # <<>> /\ (queue # <<>> => Head(queue') = Head(queue))
      /\ Len(queue) + 1 \in DOMAIN queue' /\ queue'[Len(queue) + 1] = c
      /\ \A i \in DOMAIN queue' :
            (i \in DOMAIN queue /\ queue'[i] = queue[i]) \/ (i = Len(queue) + 1 /\ queue'[i] = c)
      /\ \A i \in DOMAIN queue : i < Len(queue) + 1
  BY <1>1, QueueAppend
<1>3. HasNotice' => HasNotice
  BY <1>2 DEF HasNotice
<1>4. ASSUME NEW i \in DOMAIN queue', NEW j \in DOMAIN queue', i < j, Notice(queue'[j])
      PROVE  ~Speech(queue'[i])
  <2>1. j \in DOMAIN queue /\ queue'[j] = queue[j] /\ j < Len(queue) + 1
    BY <1>2, <1>4
  <2>2. Len(queue) \in Nat /\ DOMAIN queue = 1..Len(queue)
    BY <1>1, LenProperties
  <2>3. i # Len(queue) + 1
    BY <1>4, <2>1, <2>2
  <2>4. i \in DOMAIN queue /\ queue'[i] = queue[i]
    BY <1>2, <2>3
  <2> QED
    BY <1>4, <2>1, <2>4 DEF QueueInv
<1>5. HasNotice' => active' = None \/ EndsFirst'
  BY <1>2, <1>3 DEF QueueInv, EndsFirst
<1> QED
  BY <1>3, <1>4, <1>5 DEF QueueInv

\* An interrupt replaces the queue by what tells of it.
LEMMA InterruptedQueue ==
  ASSUME TypeOK, Interrupt PROVE QueueInv'
<1> USE DEF TypeOK
<1>1. CASE InterruptCoalescing \/ InterruptPendingStart
  <2>1. PICK s \in Segments : queue' = <<Cancelled(s)>> /\ active' = None
    BY <1>1 DEF InterruptCoalescing, InterruptPendingStart, StartPending
  <2>2. DOMAIN queue' = {1} /\ queue'[1] = Cancelled(s)
    BY <2>1
  <2>3. ~Speech(Cancelled(s))
    BY DEF Speech, Cancelled
  <2> QED
    BY <2>1, <2>2, <2>3 DEF QueueInv
<1>2. CASE InterruptPlaying
  <2>1. PICK d : queue' = <<Ended(active), Interrupted(active, d)>>
    BY <1>2 DEF InterruptPlaying
  <2>2. DOMAIN queue' = 1..2 /\ queue'[1] = Ended(active) /\ queue'[2] = Interrupted(active, d)
        /\ queue' # <<>> /\ Head(queue') = Ended(active)
    BY <2>1
  <2>3. ~Speech(Ended(active)) /\ ~Speech(Interrupted(active, d)) /\ Ended(active).kind = "ended"
    BY DEF Speech, Ended, Interrupted
  <2>4. \A i \in DOMAIN queue' : ~Speech(queue'[i])
    <3>1. \A i \in 1..2 : i = 1 \/ i = 2
      OBVIOUS
    <3> QED
      BY <2>2, <2>3, <3>1
  <2> QED
    BY <2>2, <2>3, <2>4 DEF QueueInv, EndsFirst
<1>3. CASE InterruptSilent
  <2>1. queue' = <<>> /\ active' = None
    BY <1>3 DEF InterruptSilent
  <2>2. DOMAIN queue' = {}
    BY <2>1
  <2> QED
    BY <2>1, <2>2 DEF QueueInv
<1> QED
  BY <1>1, <1>2, <1>3 DEF Interrupt

\* The sweep appends notices, to a queue without speech.
LEMMA SweptQueue ==
  ASSUME TypeOK, QueueInv, Sweep PROVE QueueInv'
<1>1. queue \in Seq(QueueItem) /\ sweep \in Seq(QueueItem) /\ sweep # <<>> /\ UNCHANGED active
  BY DEF TypeOK, Sweep
<1>2. CASE Head(sweep).kind = "started"
  <2> DEFINE c == Cancelled(Head(sweep).id)
  <2>1. c \in QueueItem /\ ~Speech(c)
    <3>1. Head(sweep).id \in Segments
      BY <1>1, QueueParts, QueueItemCases
    <3> QED
      BY <3>1, EventTypes DEF QueueItem, Speech, Cancelled
  <2>2. queue' = Append(queue, c)
    BY <1>2 DEF Sweep
  <2> HIDE DEF c
  <2>3. /\ queue' # <<>> /\ (queue # <<>> => Head(queue') = Head(queue))
        /\ \A i \in DOMAIN queue' :
              (i \in DOMAIN queue /\ queue'[i] = queue[i]) \/ (i = Len(queue) + 1 /\ queue'[i] = c)
    BY <1>1, <2>1, <2>2, QueueAppend
  <2>4. \A i \in DOMAIN queue' : ~Speech(queue'[i])
    BY <1>1, <2>1, <2>3 DEF QueueInv
  <2>5. active' = None \/ EndsFirst'
    BY <1>1, <2>3 DEF QueueInv, EndsFirst
  <2> QED
    BY <2>4, <2>5 DEF QueueInv
<1>3. CASE Head(sweep).kind # "started"
  <2>1. queue' = queue
    BY <1>3 DEF Sweep
  <2> QED
    BY <1>1, <2>1 DEF QueueInv, HasNotice, EndsFirst
<1> QED
  BY <1>2, <1>3

\* do_step takes the first item: what is left has the same shape, and when it was speech,
\* no notice.
LEMMA TakenQueue ==
  ASSUME TypeOK, QueueInv, queue # <<>>, queue' = Tail(queue), sweep = <<>>, UNCHANGED sweep,
         \/ Speech(Head(queue))
         \/ Head(queue).kind = "ended" /\ active' = None
         \/ Notice(Head(queue)) /\ UNCHANGED active
  PROVE  QueueInv' /\ (HasNotice' => HasNotice) /\ (Speech(Head(queue)) => ~HasNotice')
<1>1. /\ Head(queue) = queue[1] /\ 1 \in DOMAIN queue
      /\ \A i \in DOMAIN queue' : i + 1 \in DOMAIN queue /\ 1 < i + 1 /\ queue'[i] = queue[i + 1]
  BY QueueParts DEF TypeOK
<1>2. DOMAIN queue \subseteq Nat /\ DOMAIN queue' \subseteq Nat
  <2>1. queue' \in Seq(QueueItem) /\ queue \in Seq(QueueItem)
    BY QueueParts DEF TypeOK
  <2>2. /\ DOMAIN queue = 1..Len(queue) /\ Len(queue) \in Nat
        /\ DOMAIN queue' = 1..Len(queue') /\ Len(queue') \in Nat
    BY <2>1, LenProperties
  <2> QED
    BY <2>2
<1>3. HasNotice' => HasNotice
  BY <1>1 DEF HasNotice
<1>4. Speech(Head(queue)) => ~HasNotice'
  BY <1>1 DEF HasNotice, QueueInv
<1>5. ASSUME NEW i \in DOMAIN queue', NEW j \in DOMAIN queue', i < j, Notice(queue'[j])
      PROVE  ~Speech(queue'[i])
  <2>1. i + 1 \in DOMAIN queue /\ j + 1 \in DOMAIN queue /\ i + 1 < j + 1
    BY <1>1, <1>2, <1>5
  <2>2. queue'[i] = queue[i + 1] /\ queue'[j] = queue[j + 1]
    BY <1>1
  <2> QED
    BY <1>5, <2>1, <2>2 DEF QueueInv
<1>6. HasNotice' => active' = None
  <2>1. CASE Speech(Head(queue))
    BY <1>4, <2>1
  <2>2. CASE Head(queue).kind = "ended" /\ active' = None
    BY <2>2
  <2>3. CASE Notice(Head(queue)) /\ UNCHANGED active
    BY <1>1, <2>3, KindsDiffer DEF QueueInv, HasNotice, EndsFirst
  <2> QED
    BY <2>1, <2>2, <2>3
<1> QED
  BY <1>3, <1>4, <1>5, <1>6 DEF QueueInv

(***************************************************************************)
(* What an action changes of all this.                                     *)
(***************************************************************************)

\* The listener's appends.
Appends ==
    \/ \E s \in Segments : StartSegment(s) \/ EndSegment(s) \/ \E n \in ChunkLengths : AppendChunk(s, n)
    \/ ShutdownUser

stampVars == <<buffer, eventQueue, nextPresent, active, coalescing, cancelled, pc, step, sweep>>

LEMMA AppendsQueue ==
  ASSUME TypeOK, QueueInv, Appends
  PROVE  UNCHANGED stampVars /\ QueueInv' /\ (HasNotice' => HasNotice)
<1> USE DEF stampVars
<1>1. ASSUME NEW c \in QueueItem, ~Notice(c), AppendQueue(c), sweep = <<>>, UNCHANGED stampVars
      PROVE  UNCHANGED stampVars /\ QueueInv' /\ (HasNotice' => HasNotice)
  BY <1>1, AppendedQueue DEF AppendQueue
<1>2. CASE \E s \in Segments : StartSegment(s)
  <2>1. PICK s \in Segments : StartSegment(s)
    BY <1>2
  <2>2. Started(s) \in QueueItem /\ ~Notice(Started(s))
    BY EventTypes DEF QueueItem, Notice, Started
  <2> QED
    BY <1>1, <2>1, <2>2 DEF StartSegment, Listening
<1>3. CASE \E s \in Segments : EndSegment(s)
  <2>1. PICK s \in Segments : EndSegment(s)
    BY <1>3
  <2>2. Ended(s) \in QueueItem /\ ~Notice(Ended(s))
    BY EventTypes DEF QueueItem, Notice, Ended
  <2> QED
    BY <1>1, <2>1, <2>2 DEF EndSegment, Listening
<1>4. CASE \E s \in Segments : \E n \in ChunkLengths : AppendChunk(s, n)
  <2>1. PICK s \in Segments, n \in ChunkLengths : AppendChunk(s, n)
    BY <1>4
  <2>2. Chunk(s, n) \in QueueItem /\ ~Notice(Chunk(s, n))
    BY EventTypes, DurationAssumption DEF Notice, Chunk
  <2> QED
    BY <1>1, <2>1, <2>2 DEF AppendChunk, Listening
<1>5. CASE ShutdownUser
  <2>1. CASE writeActive # None /\ AppendQueue(Ended(writeActive))
    <3>1. writeActive \in Segments
      BY <2>1 DEF TypeOK
    <3>2. Ended(writeActive) \in QueueItem /\ ~Notice(Ended(writeActive))
      BY <3>1, EventTypes DEF QueueItem, Notice, Ended
    <3> QED
      BY <1>1, <1>5, <2>1, <3>2 DEF ShutdownUser, Listening
  <2>2. CASE UNCHANGED queue
    BY <1>5, <2>2 DEF ShutdownUser, QueueInv, HasNotice, EndsFirst
  <2> QED
    BY <1>5, <2>1, <2>2 DEF ShutdownUser
<1> QED
  BY <1>2, <1>3, <1>4, <1>5 DEF Appends

\* The control points of do_step.
Moves ==
    \/ StopConsuming \/ AwaitStartupAudio \/ StartupAudioArrives \/ StartupTimesOut
    \/ AwaitArrival \/ ArrivalWakes \/ ArrivalCrashes

LEMMA MovesChange ==
  ASSUME Moves
  PROVE  /\ UNCHANGED <<queue, buffer, eventQueue, nextPresent, active, coalescing, cancelled, step, sweep>>
         /\ InStep
         /\ \/ pc = "running" /\ pc' = "finishing"
            \/ pc = "running" /\ pc' = "coalescing" /\ step.isStart
            \/ pc = "coalescing" /\ pc' \in {"running", "finishing"} /\ sweep = <<>>
            \/ pc = "running" /\ pc' = "midsegment" /\ ~step.isStart /\ active # None
            \/ pc = "midsegment" /\ pc' \in {"running", "crashed"} /\ sweep = <<>>
BY DEF Moves, StopConsuming, AwaitStartupAudio, StartupAudioArrives, StartupTimesOut, AwaitArrival,
       ArrivalWakes, ArrivalCrashes, GoTo, Consuming, InStep

\* The steps that take an item of the queue, and what they do to do_step's locals.
Takes == TakeStarted \/ TakeEnded \/ TakeChunk \/ TakeNotice

LEMMA TakesChange ==
  ASSUME TypeOK, Takes
  PROVE  /\ pc = "running" /\ step.toConsume > 0 /\ ~StartupCancelled
         /\ queue # <<>> /\ queue' = Tail(queue)
         /\ UNCHANGED <<buffer, nextPresent, cancelled, sweep>>
         /\ Head(queue) \in QueueItem /\ StampNow \in Int
         /\ step.events \in Seq(Stamped)
         /\ step.consumed \in Nat /\ step.toConsume \in Int /\ Len(buffer) \in Nat
         /\ nextPresent \in Nat
<1>1. Head(queue) \in QueueItem
  BY QueueParts DEF TypeOK, Takes, TakeStarted, TakeEnded, TakeChunk, TakeNotice
<1>2. /\ step.consumed \in Nat /\ step.toConsume \in Int /\ step.events \in Seq(Stamped)
      /\ Len(buffer) \in Nat /\ nextPresent \in Nat
  BY LenProperties DEF TypeOK, StepLocals
<1>3. StampNow \in Int
  BY <1>2 DEF StampNow, NextEventTimestamp
<1> QED
  BY <1>1, <1>2, <1>3 DEF Takes, TakeStarted, TakeEnded, TakeChunk, TakeNotice, Consuming

LEMMA TakeStartedChanges ==
  ASSUME TypeOK, TakeStarted
  PROVE  /\ Speech(Head(queue)) /\ UNCHANGED <<eventQueue, pc>>
         /\ step'.isStart /\ step'.consumed = step.consumed /\ step'.toConsume = step.toConsume
         /\ step'.events = Append(step.events, Stamp(Head(queue), StampNow))
         /\ coalescing' # None /\ Stamp(Head(queue), StampNow) \in Stamped
<1>1. step \in StepLocals
  BY DEF TypeOK
<1>2. /\ step'.isStart /\ step'.consumed = step.consumed /\ step'.toConsume = step.toConsume
      /\ step'.events = Append(step.events, Stamp(Head(queue), StampNow))
  BY <1>1 DEF TakeStarted, StepLocals
<1>3. Head(queue) \in QueueItem /\ StampNow \in Int /\ Head(queue).kind = "started"
  BY TakesChange DEF TakeStarted, Takes
<1>4. Head(queue).id \in Segments /\ Head(queue) \in SegmentEvent
  BY <1>3, QueueItemCases
<1> QED
  BY <1>2, <1>3, <1>4, NameAssumption DEF TakeStarted, Speech, Stamp, Stamped

LEMMA TakeEndedChanges ==
  ASSUME TypeOK, TakeEnded
  PROVE  /\ Head(queue).kind = "ended" /\ active' = None /\ UNCHANGED <<eventQueue, coalescing>>
         /\ pc' = "finishing"
         /\ step'.isStart = step.isStart /\ step'.consumed = step.consumed
         /\ step'.toConsume = step.toConsume
         /\ step'.events = Append(step.events, Stamp(Head(queue), StampNow))
         /\ Stamp(Head(queue), StampNow) \in Stamped
<1>1. step \in StepLocals
  BY DEF TypeOK
<1>2. /\ step'.isStart = step.isStart /\ step'.consumed = step.consumed
      /\ step'.toConsume = step.toConsume
      /\ step'.events = Append(step.events, Stamp(Head(queue), StampNow))
  BY <1>1 DEF TakeEnded, StepLocals
<1>3. Head(queue) \in QueueItem /\ StampNow \in Int /\ Head(queue).kind = "ended"
  BY TakesChange DEF TakeEnded, Takes
<1>4. Head(queue) \in SegmentEvent
  BY <1>3, QueueItemCases
<1> QED
  BY <1>2, <1>3, <1>4 DEF TakeEnded, Stamp, Stamped

LEMMA TakeChunkChanges ==
  ASSUME TypeOK, TakeChunk
  PROVE  /\ Speech(Head(queue)) /\ UNCHANGED <<eventQueue, active, coalescing, pc>>
         /\ step'.isStart = step.isStart /\ step'.events = step.events
         /\ Head(queue).len \in Nat
         /\ step'.consumed = step.consumed + Head(queue).len
         /\ step'.toConsume = step.toConsume - Head(queue).len
<1>1. step \in StepLocals
  BY DEF TypeOK
<1>2. /\ step'.isStart = step.isStart /\ step'.events = step.events
      /\ step'.consumed = step.consumed + Head(queue).len
      /\ step'.toConsume = step.toConsume - Head(queue).len
  BY <1>1 DEF TakeChunk, StepLocals
<1>3. Head(queue) \in QueueItem /\ Head(queue).kind = "audio"
  BY TakesChange DEF TakeChunk, Takes
<1>4. Head(queue).len \in Nat
  BY <1>3, QueueItemCases
<1> QED
  BY <1>2, <1>3, <1>4 DEF TakeChunk, Speech

LEMMA TakeNoticeChanges ==
  ASSUME TypeOK, TakeNotice
  PROVE  /\ Notice(Head(queue)) /\ UNCHANGED <<active, coalescing, pc, step>>
         /\ eventQueue' = Append(eventQueue, Stamp(Head(queue), StampNow))
         /\ Stamp(Head(queue), StampNow) \in Stamped
<1>1. Head(queue) \in QueueItem /\ StampNow \in Int /\ Head(queue).kind # "audio"
  BY TakesChange DEF TakeNotice, Takes
<1>2. Head(queue) \in SegmentEvent
  BY <1>1, QueueItemCases
<1> QED
  BY <1>1, <1>2 DEF TakeNotice, Notice, Stamp, Stamped

\* What an interrupt leaves of the audio and of the stamps.
LEMMA InterruptChanges ==
  ASSUME TypeOK, Interrupt, InOrder(eventQueue)
  PROVE  /\ UNCHANGED <<nextPresent, coalescing, pc, step>>
         /\ Len(buffer') = Shorter(Future, Len(buffer))
         /\ InOrder(eventQueue')
         /\ \A t \in Int : /\ AllFrom(eventQueue, t) => AllFrom(eventQueue', t)
                           /\ AllUpTo(eventQueue, t) => AllUpTo(eventQueue', t)
         /\ coalescing # None => cancelled' = coalescing'
<1>1. /\ Len(KeptBuffer) = Shorter(Future, Len(buffer))
      /\ Len(KeptBuffer) \in Nat
      /\ Len(Units(Silence, Len(KeptBuffer))) = Len(KeptBuffer)
  BY KeptBufferType, UnitsType
<1>2. Len(buffer') = Shorter(Future, Len(buffer))
  BY <1>1 DEF Interrupt, InterruptCoalescing, InterruptPendingStart,
              InterruptPlaying, InterruptSilent
<1>3. CASE InterruptPendingStart
  <2> DEFINE i == CHOOSE i \in DOMAIN eventQueue : StartPendingAt(i)
  <2>1. eventQueue \in Seq(Stamped) /\ i \in 1..Len(eventQueue)
    BY <1>3, LenProperties DEF TypeOK, InterruptPendingStart, StartPending
  <2>2. eventQueue' = SubSeq(eventQueue, 1, i - 1) \o SubSeq(eventQueue, i + 1, Len(eventQueue))
    BY <1>3 DEF InterruptPendingStart
  <2> HIDE DEF i
  <2>3. /\ InOrder(eventQueue')
        /\ \A t \in Int : /\ AllFrom(eventQueue, t) => AllFrom(eventQueue', t)
                          /\ AllUpTo(eventQueue, t) => AllUpTo(eventQueue', t)
    BY <2>1, <2>2, WithoutOne
  <2> QED
    BY <1>2, <1>3, <2>3 DEF Interrupt, InterruptPendingStart
<1>4. CASE InterruptCoalescing \/ InterruptPlaying \/ InterruptSilent
  <2>1. UNCHANGED eventQueue
    BY <1>4 DEF InterruptCoalescing, InterruptPlaying, InterruptSilent
  <2> QED
    BY <1>2, <1>4, <2>1 DEF Interrupt, InterruptCoalescing, InterruptPlaying, InterruptSilent
<1> QED
  BY <1>3, <1>4 DEF Interrupt

\* Every step is one of these.
LEMMA StepCases ==
  ASSUME [Next]_vars
  PROVE  \/ Appends
         \/ Interrupt /\ Listening
         \/ Sweep \/ BeginStep \/ Takes \/ Moves \/ Finish
         \/ UNCHANGED vars
BY DEF Next, Listen, Step, Appends, Discard, ShutdownAvatar, Takes, Moves, Terminated

LEMMA QueueStep ==
  ASSUME TypeOK, QueueInv, StepInv, [Next]_vars
  PROVE  QueueInv'
<1>1. CASE Appends
  BY <1>1, AppendsQueue
<1>2. CASE Interrupt /\ Listening
  BY <1>2, InterruptedQueue
<1>3. CASE Sweep
  BY <1>3, SweptQueue
<1>4. CASE Takes
  <2>1. sweep = <<>> /\ queue # <<>> /\ queue' = Tail(queue) /\ UNCHANGED sweep
    BY <1>4, TakesChange DEF StepInv
  <2>2. \/ Speech(Head(queue))
        \/ Head(queue).kind = "ended" /\ active' = None
        \/ Notice(Head(queue)) /\ UNCHANGED active
    BY <1>4, TakeStartedChanges, TakeEndedChanges, TakeChunkChanges, TakeNoticeChanges DEF Takes
  <2> QED
    BY <2>1, <2>2, TakenQueue
<1>5. CASE BeginStep \/ Moves \/ Finish \/ UNCHANGED vars
  <2>1. UNCHANGED <<queue, sweep, active>>
    BY <1>5, MovesChange DEF BeginStep, Finish, vars
  <2> QED
    BY <2>1 DEF QueueInv, HasNotice, EndsFirst
<1> QED
  BY <1>1, <1>2, <1>3, <1>4, <1>5, StepCases

LEMMA StepStep ==
  ASSUME TypeOK, QueueInv, StepInv, [Next]_vars
  PROVE  StepInv'
<1>1. CASE Appends
  <2>1. UNCHANGED <<pc, step, sweep, coalescing, cancelled>> /\ (HasNotice' => HasNotice)
    BY <1>1, AppendsQueue DEF stampVars
  <2> QED
    BY <2>1 DEF StepInv, StartupCancelled
<1>2. CASE Interrupt /\ Listening
  <2>1. UNCHANGED <<coalescing, pc, step>> /\ (coalescing # None => cancelled' = coalescing')
    BY <1>2 DEF Interrupt, InterruptCoalescing, InterruptPendingStart, InterruptPlaying, InterruptSilent
  <2>2. pc \in {"idle", "coalescing", "midsegment"}
    BY <1>2 DEF Listening
  <2> QED
    BY <2>1, <2>2 DEF StepInv, StartupCancelled
<1>3. CASE Sweep
  <2>1. UNCHANGED <<pc, step, coalescing, cancelled>> /\ sweep # <<>>
    BY <1>3 DEF Sweep
  <2> QED
    BY <2>1 DEF StepInv, StartupCancelled
<1>4. CASE BeginStep
  <2>1. /\ pc' = "running" /\ sweep = <<>> /\ UNCHANGED sweep
        /\ ~step'.isStart /\ step'.events = <<>>
    BY <1>4 DEF BeginStep, IdleStep
  <2> QED
    BY <2>1 DEF StepInv, StartupCancelled
<1>5. CASE Takes
  <2>1. /\ pc = "running" /\ sweep = <<>> /\ UNCHANGED sweep /\ UNCHANGED cancelled
        /\ queue # <<>> /\ queue' = Tail(queue) /\ ~StartupCancelled
    BY <1>5, TakesChange DEF StepInv
  <2>2. /\ HasNotice' => HasNotice
        /\ Speech(Head(queue)) => ~HasNotice'
    <3>1. \/ Speech(Head(queue))
          \/ Head(queue).kind = "ended" /\ active' = None
          \/ Notice(Head(queue)) /\ UNCHANGED active
      BY <1>5, TakeStartedChanges, TakeEndedChanges, TakeChunkChanges, TakeNoticeChanges DEF Takes
    <3> QED
      BY <2>1, <3>1, TakenQueue
  <2>3. CASE TakeStarted
    <3>1. Speech(Head(queue)) /\ UNCHANGED pc /\ step'.isStart /\ coalescing' # None
      BY <2>3, TakeStartedChanges
    <3> QED
      BY <2>1, <2>2, <3>1 DEF StepInv
  <2>4. CASE TakeEnded
    <3>1. UNCHANGED coalescing /\ pc' = "finishing" /\ step'.isStart = step.isStart
      BY <2>4, TakeEndedChanges
    <3> QED
      BY <2>1, <2>2, <3>1 DEF StepInv, StartupCancelled
  <2>5. CASE TakeChunk \/ TakeNotice
    <3>1. UNCHANGED <<coalescing, pc>> /\ step'.isStart = step.isStart /\ step'.events = step.events
      BY <2>5, TakeChunkChanges, TakeNoticeChanges
    <3> QED
      BY <2>1, <2>2, <3>1 DEF StepInv, StartupCancelled
  <2> QED
    BY <1>5, <2>3, <2>4, <2>5 DEF Takes
<1>6. CASE Moves
  <2>1. UNCHANGED <<queue, step, sweep, coalescing, cancelled>>
    BY <1>6, MovesChange
  <2>2. HasNotice' = HasNotice
    BY <2>1 DEF HasNotice
  <2> QED
    BY <1>6, <2>1, <2>2, MovesChange DEF StepInv, StartupCancelled
<1>7. CASE Finish
  <2>1. pc' = "idle" /\ ~step'.isStart /\ step'.events = <<>>
    BY <1>7 DEF Finish, IdleStep
  <2> QED
    BY <2>1 DEF StepInv, StartupCancelled
<1>8. CASE UNCHANGED vars
  BY <1>8 DEF vars, StepInv, StartupCancelled, HasNotice
<1> QED
  BY <1>1, <1>2, <1>3, <1>4, <1>5, <1>6, <1>7, <1>8, StepCases

(***************************************************************************)
(* The stamps.                                                             *)
(***************************************************************************)

\* The numbers there are.
LEMMA NumbersType ==
  ASSUME TypeOK
  PROVE  /\ Len(buffer) \in Nat /\ nextPresent \in Nat /\ Present \in Nat /\ Future \in Nat
         /\ Present # 0 /\ Present <= Future
         /\ step.consumed \in Nat /\ step.toConsume \in Int
         /\ eventQueue \in Seq(Stamped) /\ step.events \in Seq(Stamped)
         /\ Shorter(Future, Len(buffer)) \in Nat
         /\ Shorter(Future, Len(buffer)) <= Len(buffer) /\ Shorter(Future, Len(buffer)) <= Future
         /\ LookAhead \in Nat /\ Horizon \in Nat /\ LookAhead <= Horizon
         /\ StampNow = nextPresent + Len(buffer) + step.consumed /\ StampNow \in Nat
         /\ LookAhead <= StampNow
<1>1. /\ Len(buffer) \in Nat /\ nextPresent \in Nat /\ Present \in Nat /\ Future \in Nat
      /\ step.consumed \in Nat /\ step.toConsume \in Int
      /\ Present # 0 /\ Present <= Future
      /\ eventQueue \in Seq(Stamped) /\ step.events \in Seq(Stamped)
  BY LenProperties, DurationAssumption DEF TypeOK, StepLocals
<1> QED
  BY <1>1 DEF Shorter, LookAhead, Horizon, StampNow, NextEventTimestamp

\* While more audio is wanted, what is stamped lies before the horizon.
LEMMA StampBelowHorizon ==
  ASSUME TypeOK, NewInv, Takes
  PROVE  /\ StampNow <= Horizon /\ nextPresent <= StampNow
         /\ AllUpTo(eventQueue, StampNow)
<1>1. /\ Len(buffer) + step.consumed + step.toConsume <= Present + Future
      /\ step.toConsume > 0 /\ AllUpTo(eventQueue, StampNow)
  BY TakesChange DEF NewInv, InStep
<1>2. /\ Len(buffer) \in Nat /\ nextPresent \in Nat /\ Present \in Nat /\ Future \in Nat
      /\ step.consumed \in Nat /\ step.toConsume \in Int
      /\ StampNow = nextPresent + Len(buffer) + step.consumed
  BY NumbersType
<1>3. StampNow <= nextPresent + Present + Future /\ nextPresent <= StampNow
  BY <1>1, <1>2
<1> QED
  BY <1>1, <1>3 DEF Horizon

\* The step that finishes leaves events of the future only, and none beyond the audio
\* that an interrupt would keep.
LEMMA FinishQueuedInv ==
  ASSUME TypeOK, PresentInv, QueuedInv, NewInv, Finish
  PROVE  QueuedInv'
<1> DEFINE shift == IF PadsLeft THEN MissingUnits ELSE 0
           queued == eventQueue \o FinishedEvents
           next == nextPresent + Present
           total == Len(FilledBuffer)
<1>0. /\ Len(buffer) \in Nat /\ nextPresent \in Nat /\ Present \in Nat /\ Future \in Nat
      /\ Present # 0 /\ Present <= Future
      /\ step.consumed \in Nat /\ step.toConsume \in Int
      /\ StampNow = nextPresent + Len(buffer) + step.consumed /\ StampNow \in Nat
      /\ Horizon = nextPresent + Present + Future /\ Horizon \in Nat
      /\ eventQueue \in Seq(Stamped) /\ step.events \in Seq(Stamped)
  BY NumbersType DEF Horizon
<1>1. /\ InStep /\ InOrder(eventQueue) /\ AllFrom(eventQueue, nextPresent)
      /\ AllUpTo(eventQueue, Horizon)
      /\ Len(step.bufs) = step.consumed
  BY DEF QueuedInv, Finish, InStep, PresentInv, AudioSuffices
<1>2. /\ MissingUnits \in Nat /\ total \in Nat
      /\ total = Len(buffer) + MissingUnits + (IF StartupCancelled THEN 0 ELSE step.consumed)
  BY <1>1, FilledBufferType, MissingUnitsType, LenProperties
<1>b. buffer' = SecondPart(FilledBuffer, Present) /\ FilledBuffer \in Seq(Unit)
  BY FilledBufferType DEF Finish
<1>3. total >= Present
  <2>1. \/ Len(buffer) >= Future
        \/ Len(buffer) + step.consumed + step.toConsume >= Present + Future
    BY <1>1 DEF PresentInv, AudioSuffices
  <2>2. CASE StartupCancelled
    <3>1. MissingUnits = AtLeastZero(Present + Future - Len(buffer))
      BY <2>2 DEF MissingUnits
    <3> HIDE DEF total
    <3> QED
      BY <1>0, <1>2, <2>2, <3>1 DEF AtLeastZero
  <2>3. CASE ~StartupCancelled
    <3>1. MissingUnits = AtLeastZero(step.toConsume)
      BY <2>3 DEF MissingUnits
    <3> HIDE DEF total
    <3>2. total = Len(buffer) + MissingUnits + step.consumed
      BY <1>2, <2>3
    <3>3. MissingUnits \in Nat /\ MissingUnits >= step.toConsume
      BY <1>0, <3>1 DEF AtLeastZero
    <3>4. CASE Len(buffer) >= Future
      BY <1>0, <3>2, <3>3, <3>4
    <3>5. CASE Len(buffer) + step.consumed + step.toConsume >= Present + Future
      BY <1>0, <3>2, <3>3, <3>5
    <3> QED
      BY <2>1, <3>4, <3>5
  <2> QED
    BY <2>2, <2>3
<1>4. Len(buffer') = total - Present
  BY <1>0, <1>2, <1>b, <1>3, RestProperties DEF SecondPart
<1>5. LookAhead' = next + Shorter(Future, total - Present) /\ nextPresent' = next
  BY <1>4 DEF LookAhead, Finish
<1> DEFINE bound == next + Shorter(Future, total - Present)
<1>6. bound \in Nat /\ next \in Nat
  BY <1>0, <1>2, <1>3 DEF Shorter
<1>7. /\ FinishedEvents \in Seq(Stamped) /\ InOrder(FinishedEvents)
      /\ \A i \in DOMAIN FinishedEvents : AllUpTo(eventQueue, FinishedEvents[i].at)
      /\ AllUpTo(FinishedEvents, bound) /\ AllUpTo(eventQueue, bound)
  <2>1. CASE StartupCancelled
    <3>1. FinishedEvents = <<>> /\ MissingUnits = AtLeastZero(Present + Future - Len(buffer))
      BY <2>1 DEF FinishedEvents, MissingUnits
    <3>2. Horizon <= bound
      <4> HIDE DEF total
      <4>1. total >= Present + Future
        BY <1>0, <1>2, <2>1, <3>1 DEF AtLeastZero
      <4> QED
        BY <1>0, <1>2, <4>1 DEF Shorter
    <3>3. <<>> \in Seq(Stamped) /\ DOMAIN <<>> = {}
      BY EmptySeq
    <3>4. AllUpTo(eventQueue, bound)
      BY <1>0, <1>1, <1>6, <3>2, LaterBound
    <3> HIDE DEF bound
    <3> QED
      BY <3>1, <3>3, <3>4 DEF InOrder, AllUpTo
  <2>2. CASE ~StartupCancelled
    <3>1. /\ step.toConsume > 0 => Len(buffer) + step.consumed + step.toConsume <= Present + Future
          /\ AllUpTo(eventQueue, StampNow) /\ InOrder(step.events)
          /\ AllUpTo(step.events, StampNow) /\ AllUpTo(step.events, Horizon)
          /\ \A i \in DOMAIN step.events : AllUpTo(eventQueue, step.events[i].at)
      BY <1>1, <2>2 DEF NewInv
    <3>2. MissingUnits = AtLeastZero(step.toConsume) /\ FinishedEvents = ShiftedBy(step.events, shift)
      BY <2>2 DEF MissingUnits, FinishedEvents
    <3>3. /\ shift \in Nat /\ shift <= MissingUnits
          /\ step.toConsume > 0 => MissingUnits = step.toConsume
          /\ ~(step.toConsume > 0) => shift = 0
      BY <1>0, <1>2, <3>2 DEF AtLeastZero
    <3>a. total = Len(buffer) + MissingUnits + step.consumed
      BY <1>2, <2>2
    <3>4. /\ StampNow + shift <= bound \/ Horizon + shift <= bound
          /\ StampNow <= bound \/ Horizon <= bound
      <4> HIDE DEF shift, total
      <4>1. step.toConsume > 0 =>
               Len(buffer) + step.consumed + step.toConsume <= Present + Future
        BY <3>1
      <4>2. total \in Nat /\ MissingUnits \in Nat
        BY <1>2
      <4>3. StampNow + shift <= nextPresent + total /\ StampNow <= nextPresent + total
        BY <1>0, <3>3, <3>a, <4>2
      <4>4. CASE Future <= total - Present
        <5>1. bound = Horizon
          BY <1>0, <4>4 DEF Shorter
        <5>2. StampNow + shift <= Horizon \/ shift = 0
          BY <1>0, <3>3, <4>1, <4>2
        <5> HIDE DEF bound
        <5> QED
          BY <1>0, <5>1, <5>2
      <4>5. CASE ~(Future <= total - Present)
        <5>1. bound = nextPresent + total
          BY <1>0, <4>2, <4>5 DEF Shorter
        <5> HIDE DEF bound
        <5> QED
          BY <4>3, <5>1
      <4> QED
        BY <4>4, <4>5
    <3> HIDE DEF shift
    <3>5. /\ ShiftedBy(step.events, shift) \in Seq(Stamped)
          /\ InOrder(ShiftedBy(step.events, shift))
          /\ DOMAIN ShiftedBy(step.events, shift) = DOMAIN step.events
          /\ \A i \in DOMAIN step.events :
                ShiftedBy(step.events, shift)[i].at = step.events[i].at + shift
          /\ AllUpTo(ShiftedBy(step.events, shift), StampNow + shift)
          /\ AllUpTo(ShiftedBy(step.events, shift), Horizon + shift)
      <4> DEFINE new == ShiftedBy(step.events, shift)
      <4>1. /\ new \in Seq(Stamped) /\ DOMAIN new = DOMAIN step.events
            /\ \A i \in DOMAIN step.events : new[i].at = step.events[i].at + shift
            /\ InOrder(step.events) => InOrder(new)
            /\ \A t \in Int : /\ AllFrom(step.events, t) => AllFrom(new, t)
                              /\ AllUpTo(step.events, t) => AllUpTo(new, t + shift)
        BY <1>0, <3>3, ShiftedInOrder
      <4> HIDE DEF new
      <4>2. AllUpTo(new, StampNow + shift) /\ AllUpTo(new, Horizon + shift)
        BY <1>0, <3>1, <4>1
      <4> QED
        BY <3>1, <4>1, <4>2 DEF new
    <3>6. AllUpTo(FinishedEvents, bound)
      <4>1. StampNow + shift \in Int /\ Horizon + shift \in Int
        BY <1>0, <3>3
      <4> HIDE DEF bound
      <4> QED
        BY <1>6, <3>2, <3>4, <3>5, <4>1, LaterBound
    <3>7. AllUpTo(eventQueue, bound)
      <4>1. StampNow <= bound \/ Horizon <= bound
        BY <3>4
      <4> HIDE DEF bound
      <4> QED
        BY <1>0, <1>1, <1>6, <3>1, <4>1, LaterBound
    <3>8. ASSUME NEW i \in DOMAIN FinishedEvents PROVE AllUpTo(eventQueue, FinishedEvents[i].at)
      <4>1. i \in DOMAIN step.events /\ FinishedEvents[i].at = step.events[i].at + shift
        BY <3>2, <3>5
      <4>2. step.events[i].at \in Int
        BY <1>0, <4>1, StampsAreInt
      <4>3. AllUpTo(eventQueue, step.events[i].at)
        BY <3>1, <4>1
      <4> QED
        <5>1. FinishedEvents[i].at \in Int /\ step.events[i].at <= FinishedEvents[i].at
          BY <3>3, <4>1, <4>2
        <5> QED
          BY <1>0, <4>2, <4>3, <5>1, LaterBound
    <3> QED
      BY <3>2, <3>5, <3>6, <3>7, <3>8
  <2> QED
    BY <2>1, <2>2
<1> HIDE DEF bound
<1>8. queued \in Seq(Stamped) /\ InOrder(queued) /\ AllUpTo(queued, bound)
  BY <1>0, <1>1, <1>6, <1>7, JoinedInOrder, ConcatProperties
<1>9. eventQueue' = SubSeq(queued, DueCount(queued, next) + 1, Len(queued))
  BY DEF Finish
<1> HIDE DEF queued
<1>10. InOrder(eventQueue') /\ AllFrom(eventQueue', next) /\ AllUpTo(eventQueue', bound)
  BY <1>6, <1>8, <1>9, LeftIsLater
<1>11. bound = LookAhead' /\ ~InStep'
  BY <1>5 DEF bound, Finish, InStep
<1> QED
  BY <1>5, <1>10, <1>11 DEF QueuedInv

LEMMA QueuedStep ==
  ASSUME TypeOK, PresentInv, QueueInv, StepInv, QueuedInv, NewInv, [Next]_vars
  PROVE  QueuedInv'
<1> USE NumbersType
<1>1. CASE Appends \/ Sweep
  <2>1. UNCHANGED <<eventQueue, nextPresent, buffer, pc, step, active>>
    BY <1>1, AppendsQueue DEF stampVars, Sweep
  <2> QED
    BY <2>1 DEF QueuedInv, LookAhead, Horizon, InStep
<1>2. CASE Interrupt /\ Listening
  <2>1. /\ UNCHANGED <<nextPresent, pc, step>>
        /\ Len(buffer') = Shorter(Future, Len(buffer)) /\ InOrder(eventQueue')
        /\ \A t \in Int : /\ AllFrom(eventQueue, t) => AllFrom(eventQueue', t)
                          /\ AllUpTo(eventQueue, t) => AllUpTo(eventQueue', t)
    BY <1>2, InterruptChanges DEF QueuedInv
  <2>2. LookAhead' = LookAhead /\ Horizon' = Horizon /\ (InStep' <=> InStep)
    BY <2>1 DEF LookAhead, Horizon, Shorter, InStep
  <2>3. \/ pc \in {"idle", "midsegment"}
        \/ pc = "coalescing" /\ step'.isStart
    BY <1>2, <2>1 DEF Listening, StepInv
  <2>4. AllFrom(eventQueue', nextPresent')
    BY <2>1 DEF QueuedInv
  <2>5. InStep' => AllUpTo(eventQueue', Horizon')
    BY <2>1, <2>2 DEF QueuedInv
  <2>6. CASE pc \in {"idle", "midsegment"}
    <3>1. AllUpTo(eventQueue, LookAhead)
      BY <2>6 DEF QueuedInv
    <3>2. AllUpTo(eventQueue', LookAhead')
      BY <2>1, <2>2, <3>1
    <3> QED
      BY <2>1, <2>4, <2>5, <3>2 DEF QueuedInv
  <2>7. CASE pc = "coalescing" /\ step'.isStart
    BY <2>1, <2>4, <2>5, <2>7 DEF QueuedInv
  <2> QED
    BY <2>3, <2>6, <2>7
<1>3. CASE BeginStep
  <2>1. UNCHANGED <<eventQueue, nextPresent, buffer>> /\ pc = "idle" /\ pc' = "running"
    BY <1>3 DEF BeginStep
  <2>2. AllUpTo(eventQueue, LookAhead)
    BY <2>1 DEF QueuedInv
  <2>3. AllUpTo(eventQueue, Horizon)
    BY <2>2, LaterBound
  <2> QED
    BY <2>1, <2>2, <2>3 DEF QueuedInv, LookAhead, Horizon
<1>4. CASE TakeStarted
  <2>1. UNCHANGED <<eventQueue, nextPresent, buffer, pc>> /\ step'.isStart /\ pc = "running"
    BY <1>4, TakeStartedChanges, TakesChange DEF Takes
  <2> QED
    BY <2>1 DEF QueuedInv, Horizon, InStep
<1>5. CASE TakeEnded
  <2>1. /\ UNCHANGED <<eventQueue, nextPresent, buffer>> /\ active' = None
        /\ pc = "running" /\ pc' = "finishing"
    BY <1>5, TakeEndedChanges, TakesChange DEF Takes
  <2> QED
    BY <2>1 DEF QueuedInv, Horizon, InStep
<1>6. CASE TakeChunk
  <2>1. UNCHANGED <<eventQueue, nextPresent, buffer, pc, active>> /\ step'.isStart = step.isStart
    BY <1>6, TakeChunkChanges, TakesChange DEF Takes
  <2> QED
    BY <2>1 DEF QueuedInv, Horizon, LookAhead, InStep
<1>7. CASE TakeNotice
  <2> DEFINE st == Stamp(Head(queue), StampNow)
  <2>1. /\ UNCHANGED <<nextPresent, buffer, pc, active, step>> /\ pc = "running"
        /\ eventQueue' = Append(eventQueue, st) /\ st \in Stamped /\ st.at = StampNow
        /\ Notice(Head(queue)) /\ queue # <<>>
    BY <1>7, TakeNoticeChanges, TakesChange DEF Takes, Stamp
  <2>2. AllUpTo(eventQueue, StampNow) /\ StampNow <= Horizon /\ nextPresent <= StampNow
    BY <1>7, StampBelowHorizon DEF Takes
  <2>3. active = None
    <3>1. HasNotice
      BY <2>1, QueueParts DEF HasNotice, TypeOK
    <3> QED
      BY <2>1, <3>1, KindsDiffer DEF QueueInv, EndsFirst
  <2> HIDE DEF st
  <2>4. /\ InOrder(eventQueue') /\ AllFrom(eventQueue', nextPresent)
        /\ AllUpTo(eventQueue', StampNow)
    BY <2>1, <2>2, StampedLast DEF QueuedInv
  <2>5. AllUpTo(eventQueue', Horizon)
    <3>1. eventQueue' \in Seq(Stamped)
      BY <2>1, AppendProperties
    <3> QED
      BY <2>2, <2>4, <3>1, LaterBound
  <2> QED
    BY <2>1, <2>3, <2>4, <2>5 DEF QueuedInv, Horizon
<1>8. CASE Moves
  <2>1. UNCHANGED <<eventQueue, nextPresent, buffer, active, step>> /\ InStep
    BY <1>8, MovesChange
  <2>2. /\ pc' \in {"idle", "midsegment", "crashed"} =>
              pc = "midsegment" \/ (~step.isStart /\ active # None)
    BY <1>8, MovesChange
  <2> QED
    BY <2>1, <2>2 DEF QueuedInv, Horizon, LookAhead
<1>9. CASE Finish
  BY <1>9, FinishQueuedInv
<1>10. CASE UNCHANGED vars
  BY <1>10 DEF vars, QueuedInv, LookAhead, Horizon, InStep
<1> QED
  BY <1>1, <1>2, <1>3, <1>4, <1>5, <1>6, <1>7, <1>8, <1>9, <1>10, StepCases DEF Takes

LEMMA NewStep ==
  ASSUME TypeOK, QueueInv, StepInv, QueuedInv, NewInv, [Next]_vars
  PROVE  NewInv'
<1>0. /\ Len(buffer) \in Nat /\ nextPresent \in Nat /\ Present \in Nat /\ Future \in Nat
      /\ step.consumed \in Nat /\ step.toConsume \in Int
      /\ eventQueue \in Seq(Stamped) /\ step.events \in Seq(Stamped)
      /\ Shorter(Future, Len(buffer)) \in Nat /\ Shorter(Future, Len(buffer)) <= Len(buffer)
      /\ LookAhead \in Nat /\ Horizon \in Nat /\ StampNow \in Nat
  BY NumbersType
<1>1. CASE Appends \/ Sweep
  <2>1. UNCHANGED <<eventQueue, nextPresent, buffer, pc, step, coalescing, cancelled>>
    BY <1>1, AppendsQueue DEF stampVars, Sweep
  <2> QED
    BY <2>1 DEF NewInv, StampNow, NextEventTimestamp, Horizon, InStep, StartupCancelled
<1>2. CASE Interrupt /\ Listening
  <2>1. /\ UNCHANGED <<nextPresent, pc, step, coalescing>>
        /\ Len(buffer') = Shorter(Future, Len(buffer))
        /\ \A t \in Int : AllUpTo(eventQueue, t) => AllUpTo(eventQueue', t)
        /\ coalescing # None => cancelled' = coalescing'
    BY <1>2, InterruptChanges DEF QueuedInv
  <2>2. CASE pc = "coalescing"
    BY <2>1, <2>2 DEF NewInv, StepInv, StartupCancelled
  <2>3. CASE pc = "midsegment"
    <3>1. ~StartupCancelled /\ step.events = <<>> /\ step'.events = <<>> /\ InStep
      BY <2>1, <2>3 DEF StepInv, StartupCancelled, InStep
    <3>2. AllUpTo(eventQueue', LookAhead)
      BY <1>0, <2>1, <2>3 DEF QueuedInv
    <3>3. StampNow' = nextPresent + Shorter(Future, Len(buffer)) + step.consumed
      BY <2>1 DEF StampNow, NextEventTimestamp
    <3>4. LookAhead <= StampNow' /\ StampNow' \in Int
      <4>1. /\ nextPresent \in Nat /\ Shorter(Future, Len(buffer)) \in Nat /\ step.consumed \in Nat
        BY <1>0
      <4>2. LookAhead = nextPresent + Shorter(Future, Len(buffer))
        BY DEF LookAhead
      <4> QED
        BY <3>3, <4>1, <4>2
    <3>5. AllUpTo(eventQueue', StampNow')
      <4>1. eventQueue' \in Seq(Stamped)
        BY <1>2, NextTypeOK DEF TypeOK
      <4> QED
        BY <1>0, <3>2, <3>4, <4>1, LaterBound
    <3>6. step'.toConsume > 0 =>
             Len(buffer') + step'.consumed + step'.toConsume <= Present + Future
      <4>1. step'.toConsume = step.toConsume /\ step'.consumed = step.consumed
        BY <2>1
      <4>2. step.toConsume > 0 => Len(buffer) + step.consumed + step.toConsume <= Present + Future
        BY <3>1 DEF NewInv
      <4>3. Len(buffer') \in Nat /\ Len(buffer') <= Len(buffer)
        BY <1>0, <2>1
      <4>4. Len(buffer) \in Nat /\ step.consumed \in Nat /\ step.toConsume \in Int
        BY <1>0
      <4>5. Present \in Nat /\ Future \in Nat
        BY DurationAssumption
      <4> QED
        BY <4>1, <4>2, <4>3, <4>4, <4>5
    <3>7. DOMAIN step'.events = {}
      BY <3>1
    <3> QED
      BY <3>1, <3>5, <3>6, <3>7 DEF NewInv, InOrder, AllFrom, AllUpTo
  <2>4. CASE pc = "idle"
    BY <2>1, <2>4 DEF NewInv, InStep
  <2> QED
    BY <1>2, <2>2, <2>3, <2>4 DEF Listening
<1>3. CASE BeginStep
  <2>1. /\ UNCHANGED <<eventQueue, nextPresent, buffer>> /\ pc = "idle"
        /\ step'.events = <<>> /\ step'.consumed = 0
        /\ step'.toConsume = AtLeastZero(Present + Future - Len(buffer))
    BY <1>3 DEF BeginStep, IdleStep
  <2>2. DOMAIN step'.events = {}
    BY <2>1
  <2>3. AllUpTo(eventQueue, LookAhead)
    BY <2>1 DEF QueuedInv
  <2>4. StampNow' = nextPresent + Len(buffer)
    BY <1>0, <2>1 DEF StampNow, NextEventTimestamp
  <2>5. AllUpTo(eventQueue, StampNow')
    <3>1. LookAhead <= StampNow' /\ StampNow' \in Int
      BY <1>0, <2>4 DEF LookAhead
    <3> QED
      BY <1>0, <2>3, <3>1, LaterBound
  <2>6. step'.toConsume > 0 =>
           Len(buffer') + step'.consumed + step'.toConsume <= Present + Future
    BY <1>0, <2>1 DEF AtLeastZero
  <2> QED
    BY <2>1, <2>2, <2>5, <2>6 DEF NewInv, InOrder, AllFrom, AllUpTo
<1>4. CASE TakeStarted \/ TakeEnded
  <2> DEFINE st == Stamp(Head(queue), StampNow)
  <2>1. /\ UNCHANGED <<eventQueue, nextPresent, buffer>>
        /\ step'.consumed = step.consumed /\ step'.toConsume = step.toConsume
        /\ step'.events = Append(step.events, st) /\ st \in Stamped /\ st.at = StampNow
        /\ InStep /\ ~StartupCancelled
    BY <1>4, TakesChange, TakeStartedChanges, TakeEndedChanges DEF Takes, Stamp, InStep
  <2>2. StampNow' = StampNow /\ Horizon' = Horizon
    BY <2>1 DEF StampNow, NextEventTimestamp, Horizon
  <2>3. StampNow <= Horizon /\ nextPresent <= StampNow /\ AllUpTo(eventQueue, StampNow)
    BY <1>4, StampBelowHorizon DEF Takes
  <2> HIDE DEF st
  <2>4. /\ step.toConsume > 0 => Len(buffer) + step.consumed + step.toConsume <= Present + Future
        /\ InOrder(step.events) /\ AllFrom(step.events, nextPresent)
        /\ AllUpTo(step.events, StampNow)
        /\ \A i \in DOMAIN step.events : AllUpTo(eventQueue, step.events[i].at)
    BY <2>1 DEF NewInv
  <2>5. /\ InOrder(step'.events) /\ AllFrom(step'.events, nextPresent)
        /\ AllUpTo(step'.events, StampNow)
    BY <1>0, <2>1, <2>3, <2>4, StampedLast
  <2>6. step'.events \in Seq(Stamped)
    BY <1>0, <2>1, AppendProperties
  <2>7. AllUpTo(step'.events, Horizon)
    BY <1>0, <2>3, <2>5, <2>6, LaterBound
  <2>8. ASSUME NEW i \in DOMAIN step'.events PROVE AllUpTo(eventQueue, step'.events[i].at)
    <3>1. /\ Len(step.events) \in Nat /\ DOMAIN step.events = 1..Len(step.events)
          /\ DOMAIN step'.events = 1..Len(step'.events)
          /\ Len(step'.events) = Len(step.events) + 1
          /\ step'.events[Len(step.events) + 1] = st
          /\ \A k \in 1..Len(step.events) : step'.events[k] = step.events[k]
      BY <2>1, <2>6, LenProperties, AppendProperties
    <3>2. CASE i \in 1..Len(step.events)
      BY <2>4, <3>1, <3>2
    <3>3. CASE i = Len(step.events) + 1
      BY <2>1, <2>3, <3>1, <3>3
    <3>4. Len(step.events) \in Nat /\ i \in 1..(Len(step.events) + 1)
      BY <3>1
    <3>5. i \in 1..Len(step.events) \/ i = Len(step.events) + 1
      BY <3>4
    <3> QED
      BY <3>2, <3>3, <3>5
  <2> QED
    BY <2>1, <2>2, <2>3, <2>4, <2>5, <2>7, <2>8 DEF NewInv
<1>5. CASE TakeChunk
  <2>1. /\ UNCHANGED <<eventQueue, nextPresent, buffer, pc, coalescing, cancelled>>
        /\ step'.isStart = step.isStart /\ step'.events = step.events
        /\ Head(queue).len \in Nat
        /\ step'.consumed = step.consumed + Head(queue).len
        /\ step'.toConsume = step.toConsume - Head(queue).len
        /\ step.toConsume > 0 /\ InStep /\ ~StartupCancelled
    BY <1>5, TakesChange, TakeChunkChanges DEF Takes, InStep
  <2>2. StampNow <= StampNow' /\ StampNow' \in Int /\ Horizon' = Horizon
    <3>1. /\ StampNow = nextPresent + Len(buffer) + step.consumed
          /\ StampNow' = nextPresent + Len(buffer) + step'.consumed
          /\ Horizon' = Horizon
      BY <2>1 DEF StampNow, NextEventTimestamp, Horizon
    <3>2. /\ nextPresent \in Nat /\ Len(buffer) \in Nat /\ step.consumed \in Nat
          /\ Head(queue).len \in Nat /\ step'.consumed = step.consumed + Head(queue).len
      BY <1>0, <2>1
    <3> QED
      BY <3>1, <3>2
  <2>3. /\ Len(buffer) + step.consumed + step.toConsume <= Present + Future
        /\ AllUpTo(eventQueue, StampNow) /\ InOrder(step.events)
        /\ AllFrom(step.events, nextPresent)
        /\ AllUpTo(step.events, StampNow) /\ AllUpTo(step.events, Horizon)
        /\ \A i \in DOMAIN step.events : AllUpTo(eventQueue, step.events[i].at)
    BY <2>1 DEF NewInv
  <2>4. AllUpTo(eventQueue, StampNow') /\ AllUpTo(step.events, StampNow')
    BY <1>0, <2>2, <2>3, LaterBound
  <2>5. Len(buffer') + step'.consumed + step'.toConsume <= Present + Future
    <3>1. /\ Len(buffer) \in Nat /\ step.consumed \in Nat /\ step.toConsume \in Int
          /\ Head(queue).len \in Nat /\ Len(buffer') = Len(buffer)
      BY <1>0, <2>1
    <3>2. step'.consumed + step'.toConsume = step.consumed + step.toConsume
      BY <2>1, <3>1
    <3> QED
      BY <2>1, <2>3, <3>1, <3>2
  <2> QED
    BY <2>1, <2>2, <2>3, <2>4, <2>5 DEF NewInv
<1>6. CASE TakeNotice
  <2> DEFINE st == Stamp(Head(queue), StampNow)
  <2>1. /\ UNCHANGED <<nextPresent, buffer, pc, active, step, coalescing, cancelled>>
        /\ pc = "running" /\ InStep /\ ~StartupCancelled
        /\ eventQueue' = Append(eventQueue, st) /\ st \in Stamped /\ st.at = StampNow
        /\ Notice(Head(queue)) /\ queue # <<>>
    BY <1>6, TakeNoticeChanges, TakesChange DEF Takes, Stamp, InStep
  <2>2. AllUpTo(eventQueue, StampNow)
    BY <1>6, StampBelowHorizon DEF Takes
  <2>3. step.events = <<>>
    <3>1. HasNotice
      BY <2>1, QueueParts DEF HasNotice, TypeOK
    <3> QED
      BY <2>1, <3>1 DEF StepInv
  <2> HIDE DEF st
  <2>4. AllUpTo(eventQueue', StampNow)
    BY <1>0, <2>1, <2>2, StampedLast
  <2>5. StampNow' = StampNow
    BY <2>1 DEF StampNow, NextEventTimestamp
  <2>6. DOMAIN step'.events = {} /\ step'.events = <<>>
    BY <2>1, <2>3
  <2>7. step'.toConsume > 0 =>
           Len(buffer') + step'.consumed + step'.toConsume <= Present + Future
    BY <2>1 DEF NewInv
  <2> QED
    BY <2>4, <2>5, <2>6, <2>7 DEF NewInv, InOrder, AllFrom, AllUpTo
<1>7. CASE Moves \/ UNCHANGED vars
  <2>1. UNCHANGED <<eventQueue, nextPresent, buffer, step, coalescing, cancelled>> /\ (InStep' => InStep)
    BY <1>7, MovesChange DEF vars, InStep
  <2> QED
    BY <2>1 DEF NewInv, StampNow, NextEventTimestamp, Horizon, StartupCancelled
<1>8. CASE Finish
  BY <1>8 DEF Finish, NewInv, InStep
<1> QED
  BY <1>1, <1>2, <1>3, <1>4, <1>5, <1>6, <1>7, <1>8, StepCases DEF Takes

LEMMA StampsInit == Init => StampsInv
<1> SUFFICES ASSUME Init PROVE StampsInv
  OBVIOUS
<1>1. /\ queue = <<>> /\ sweep = <<>> /\ eventQueue = <<>> /\ pc = "idle" /\ step = IdleStep
      /\ DOMAIN queue = {} /\ DOMAIN eventQueue = {}
  BY DEF Init
<1> QED
  BY <1>1 DEF StampsInv, QueueInv, HasNotice, StepInv, IdleStep, QueuedInv, NewInv, InStep,
              InOrder, AllFrom, AllUpTo

\* What a step returns is of its window.
LEMMA FinishInWindow ==
  ASSUME TypeOK, QueuedInv, NewInv, Finish
  PROVE  \A i \in (Len(log) + 1)..Len(log') :
            nextPresent <= log'[i].at /\ log'[i].at < nextPresent'
<1> DEFINE queued == eventQueue \o FinishedEvents
           next == nextPresent + Present
           due == DueCount(queued, next)
           new == SubSeq(queued, 1, due)
<1> USE NumbersType
<1>1. FinishedEvents \in Seq(Stamped) /\ AllFrom(FinishedEvents, nextPresent)
  <2>1. CASE StartupCancelled
    <3>1. FinishedEvents = <<>> /\ DOMAIN <<>> = {}
      BY <2>1 DEF FinishedEvents
    <3> QED
      BY <3>1, EmptySeq DEF AllFrom
  <2>2. CASE ~StartupCancelled
    <3> DEFINE shift == IF PadsLeft THEN MissingUnits ELSE 0
    <3>1. shift \in Nat /\ FinishedEvents = ShiftedBy(step.events, shift)
      BY <2>2, MissingUnitsType DEF FinishedEvents
    <3>2. AllFrom(step.events, nextPresent)
      BY <2>2 DEF NewInv, InStep, Finish
    <3> HIDE DEF shift
    <3>3. step.events \in Seq(Stamped) /\ nextPresent \in Int
      OBVIOUS
    <3> HIDE NumbersType
    <3> QED
      BY <3>1, <3>2, <3>3, ShiftedInOrder
  <2> QED
    BY <2>1, <2>2
<1>2. queued \in Seq(Stamped) /\ AllFrom(queued, nextPresent)
  <2>1. \A k \in 1..Len(queued) : \/ k \in DOMAIN eventQueue /\ queued[k] = eventQueue[k]
                                  \/ k - Len(eventQueue) \in DOMAIN FinishedEvents
                                     /\ queued[k] = FinishedEvents[k - Len(eventQueue)]
    <3>1. /\ Len(eventQueue) \in Nat /\ DOMAIN eventQueue = 1..Len(eventQueue)
          /\ Len(FinishedEvents) \in Nat /\ DOMAIN FinishedEvents = 1..Len(FinishedEvents)
      BY <1>1, LenProperties
    <3>2. /\ Len(queued) = Len(eventQueue) + Len(FinishedEvents)
          /\ \A k \in 1..(Len(eventQueue) + Len(FinishedEvents)) :
                queued[k] = IF k <= Len(eventQueue) THEN eventQueue[k]
                            ELSE FinishedEvents[k - Len(eventQueue)]
      BY <1>1, ConcatProperties
    <3> HIDE DEF queued
    <3> HIDE NumbersType
    <3> TAKE k \in 1..Len(queued)
    <3>3. CASE k <= Len(eventQueue)
      BY <3>1, <3>2, <3>3
    <3>4. CASE ~(k <= Len(eventQueue))
      <4>1. k - Len(eventQueue) \in 1..Len(FinishedEvents)
        BY <3>1, <3>2, <3>4
      <4> QED
        BY <3>1, <3>2, <3>4, <4>1
    <3> QED
      BY <3>3, <3>4
  <2>2. queued \in Seq(Stamped)
    BY <1>1, ConcatProperties
  <2>3. DOMAIN queued = 1..Len(queued)
    BY <2>2, LenProperties
  <2> HIDE DEF queued
  <2> QED
    BY <1>1, <2>1, <2>2, <2>3 DEF AllFrom, QueuedInv
<1>3. next \in Int /\ nextPresent' = next
  BY DEF Finish
<1>4. log' = log \o new
  BY DEF Finish
<1> HIDE DEF queued, next
<1>5. due \in 0..Len(queued) /\ \A i \in 1..due : queued[i].at < next
  BY <1>2, <1>3, DueIsDue
<1> HIDE DEF due
<1>6. /\ Len(queued) \in Nat /\ DOMAIN queued = 1..Len(queued)
      /\ \A i \in 1..Len(queued) : queued[i] \in Stamped
  BY <1>2, StampsAreInt
<1>7. new \in Seq(Stamped) /\ Len(new) = due /\ \A i \in 1..due : new[i] = queued[i]
  BY <1>5, <1>6, SubSeqProperties
<1> HIDE DEF new
<1>8. log \in Seq(Stamped) /\ Len(log) \in Nat
  BY LenProperties DEF TypeOK
<1>9. Len(log') = Len(log) + due /\ \A i \in 1..(Len(log) + due) :
         log'[i] = IF i <= Len(log) THEN log[i] ELSE new[i - Len(log)]
  <2>1. /\ Len(log \o new) = Len(log) + Len(new)
        /\ \A i \in 1..(Len(log) + Len(new)) :
              (log \o new)[i] = IF i <= Len(log) THEN log[i] ELSE new[i - Len(log)]
    BY <1>7, <1>8, ConcatProperties
  <2>2. Len(new) = due
    BY <1>7
  <2> HIDE NumbersType
  <2> QED
    BY <1>4, <2>1, <2>2, Zenon
<1> SUFFICES ASSUME NEW i \in (Len(log) + 1)..Len(log')
             PROVE  nextPresent <= log'[i].at /\ log'[i].at < nextPresent'
  OBVIOUS
<1>10. i - Len(log) \in 1..due /\ log'[i] = new[i - Len(log)]
  <2> HIDE NumbersType
  <2>1. Len(queued) \in Nat /\ due \in Nat /\ Len(log) \in Nat
    BY <1>5, <1>6, <1>8
  <2>2. i \in 1..(Len(log) + due) /\ ~(i <= Len(log)) /\ i - Len(log) \in 1..due
    BY <1>9, <2>1
  <2> QED
    BY <1>9, <2>2
<1>11. i - Len(log) \in DOMAIN queued /\ log'[i] = queued[i - Len(log)]
  BY <1>5, <1>6, <1>7, <1>10
<1> QED
  BY <1>2, <1>3, <1>5, <1>10, <1>11 DEF AllFrom

\* A step returns an event in the window of its present chunk, neither late nor
\* early, however buffers were cut and events cancelled since it was stamped.
THEOREM WindowCorrect == Spec => EventsInWindow
<1> DEFINE Inv == TypeOK /\ PresentInv /\ StampsInv
<1>1. Init => Inv
  <2>1. Init => PresentInv
    BY EmptySeq DEF Init, PresentInv, PresentNeverShort, AudioSuffices, InStep
  <2> QED
    BY <2>1, InitTypeOK, StampsInit
<1>2. Inv /\ [Next]_vars => Inv'
  BY NextTypeOK, NextPresentInv, QueueStep, StepStep, QueuedStep, NewStep DEF StampsInv
<1>3. Inv /\ [Next]_vars => [\A i \in (Len(log) + 1)..Len(log') :
                                nextPresent <= log'[i].at /\ log'[i].at < nextPresent']_log
  <2> SUFFICES ASSUME Inv, [Next]_vars, log' # log
               PROVE  \A i \in (Len(log) + 1)..Len(log') :
                         nextPresent <= log'[i].at /\ log'[i].at < nextPresent'
    OBVIOUS
  <2>1. Finish
    BY DEF Next, Listen, Step, StartSegment, AppendChunk, EndSegment, Discard, ShutdownAvatar,
           ShutdownUser, Sweep, Interrupt, BeginStep, TakeStarted, TakeEnded, TakeChunk, TakeNotice,
           StopConsuming, AwaitStartupAudio, StartupAudioArrives, StartupTimesOut, AwaitArrival,
           ArrivalWakes, ArrivalCrashes, GoTo, Terminated, vars, inputVars, historyVars
  <2> QED
    BY <2>1, FinishInWindow DEF StampsInv
<1> QED
  BY <1>1, <1>2, <1>3, PTL DEF Spec, EventsInWindow

-----------------------------------------------------------------------------
(***************************************************************************)
(* The life of the segments, as a sequence of facts: events, and the audio *)
(* that waits among them.                                                  *)
(***************************************************************************)

Has(e, kind, s) == \E i \in DOMAIN e : e[i].kind = kind /\ e[i].id = s
Before(e, j, kind, s) == \E i \in DOMAIN e : i < j /\ e[i].kind = kind /\ e[i].id = s

\* A segment starts and ends once, has its audio in between, is interrupted after its end
\* only, and ends before another one starts.
Lawful(e) ==
    /\ \A i, j \in DOMAIN e :
          e[i].kind = e[j].kind /\ e[i].id = e[j].id /\ e[i].kind \in {"started", "ended"} => i = j
    /\ \A j \in DOMAIN e : e[j].kind \in {"ended", "audio"} => Before(e, j, "started", e[j].id)
    /\ \A j \in DOMAIN e : e[j].kind = "audio" => ~Before(e, j, "ended", e[j].id)
    /\ \A j \in DOMAIN e : e[j].kind = "interrupted" => Before(e, j, "ended", e[j].id)
    /\ \A i, j \in DOMAIN e :
          i < j /\ e[i].kind = "started" /\ e[j].kind = "started" => Before(e, j, "ended", e[i].id)

\* Only the segment a, if any, has started and not ended.
OnAir(e, a) ==
    /\ \A s \in Segments : Has(e, "started", s) /\ s # a => Has(e, "ended", s)
    /\ a # None => Has(e, "started", a) /\ ~Has(e, "ended", a)

\* c can follow e.
Follows(c, e) ==
    /\ c.kind = "started" =>
          ~Has(e, "started", c.id) /\ \A s \in Segments : Has(e, "started", s) => Has(e, "ended", s)
    /\ c.kind \in {"ended", "audio"} => Has(e, "started", c.id) /\ ~Has(e, "ended", c.id)
    /\ c.kind = "interrupted" => Has(e, "ended", c.id)

\* Where the facts of e are in Append(e, c), and in a \o b.
LEMMA AppendIndices ==
  ASSUME NEW e \in Seq(QueueItem), NEW c \in QueueItem
  PROVE  LET m == Append(e, c) n == Len(e) + 1 IN
         /\ m \in Seq(QueueItem) /\ DOMAIN e \subseteq Nat /\ n \in Nat
         /\ DOMAIN m = DOMAIN e \cup {n} /\ m[n] = c
         /\ \A i \in DOMAIN e : i < n /\ ~(n < i) /\ m[i] = e[i]
<1>1. /\ Len(e) \in Nat /\ DOMAIN e = 1..Len(e)
      /\ Append(e, c) \in Seq(QueueItem) /\ Len(Append(e, c)) = Len(e) + 1
      /\ \A i \in 1..Len(e) : Append(e, c)[i] = e[i]
      /\ Append(e, c)[Len(e) + 1] = c
  BY LenProperties, AppendProperties
<1>2. DOMAIN Append(e, c) = 1..(Len(e) + 1)
  BY <1>1, LenProperties
<1> QED BY <1>1, <1>2

LEMMA JoinIndices ==
  ASSUME NEW a \in Seq(QueueItem), NEW b \in Seq(QueueItem)
  PROVE  LET m == a \o b n == Len(a) IN
         /\ m \in Seq(QueueItem) /\ DOMAIN m \subseteq Nat /\ n \in Nat
         /\ DOMAIN a \subseteq Nat /\ DOMAIN b \subseteq Nat
         /\ \A i \in DOMAIN a : i \in DOMAIN m /\ m[i] = a[i] /\ i <= n
         /\ \A j \in DOMAIN b : n + j \in DOMAIN m /\ m[n + j] = b[j] /\ n + j > n
         /\ \A i \in DOMAIN m : i \in DOMAIN a \/ \E j \in DOMAIN b : i = n + j
         /\ \A i \in DOMAIN m : i <= n => i \in DOMAIN a
<1>1. /\ Len(a) \in Nat /\ DOMAIN a = 1..Len(a) /\ Len(b) \in Nat /\ DOMAIN b = 1..Len(b)
      /\ a \o b \in Seq(QueueItem) /\ Len(a \o b) = Len(a) + Len(b)
      /\ \A i \in 1..(Len(a) + Len(b)) : (a \o b)[i] = IF i <= Len(a) THEN a[i] ELSE b[i - Len(a)]
  BY LenProperties, ConcatProperties
<1>2. DOMAIN (a \o b) = 1..(Len(a) + Len(b))
  BY <1>1, LenProperties
<1> DEFINE m == a \o b  n == Len(a)  k == Len(b)
<1>3. /\ n \in Nat /\ k \in Nat /\ DOMAIN a = 1..n /\ DOMAIN b = 1..k /\ DOMAIN m = 1..(n + k)
      /\ m \in Seq(QueueItem)
      /\ \A i \in 1..(n + k) : m[i] = IF i <= n THEN a[i] ELSE b[i - n]
  BY <1>1, <1>2
<1> HIDE DEF m, n, k
<1>4. \A i \in 1..n : i \in 1..(n + k) /\ m[i] = a[i] /\ i <= n
  BY ONLY <1>3
<1>5. ASSUME NEW j \in 1..k PROVE n + j \in 1..(n + k) /\ m[n + j] = b[j] /\ n + j > n
  <2>1. n + j \in 1..(n + k) /\ ~(n + j <= n) /\ (n + j) - n = j
    BY ONLY <1>3, <1>5
  <2> QED BY ONLY <1>3, <2>1
<1>6. ASSUME NEW i \in 1..(n + k), ~(i \in 1..n) PROVE \E j \in 1..k : i = n + j
  <2>1. i - n \in 1..k /\ i = n + (i - n)
    BY ONLY <1>3, <1>6
  <2> QED BY ONLY <2>1
<1>7. \A i \in 1..(n + k) : i <= n => i \in 1..n
  BY ONLY <1>3
<1>8. DOMAIN m \subseteq Nat /\ DOMAIN a \subseteq Nat /\ DOMAIN b \subseteq Nat
  BY ONLY <1>3
<1>9. /\ \A i \in DOMAIN a : i \in DOMAIN m /\ m[i] = a[i] /\ i <= n
      /\ \A j \in DOMAIN b : n + j \in DOMAIN m /\ m[n + j] = b[j] /\ n + j > n
      /\ \A i \in DOMAIN m : i \in DOMAIN a \/ \E j \in DOMAIN b : i = n + j
      /\ \A i \in DOMAIN m : i <= n => i \in DOMAIN a
  BY ONLY <1>3, <1>4, <1>5, <1>6, <1>7
<1> QED BY ONLY <1>3, <1>8, <1>9 DEF m, n

LEMMA HasAppend ==
  ASSUME NEW e \in Seq(QueueItem), NEW c \in QueueItem, NEW kind, NEW s
  PROVE  Has(Append(e, c), kind, s) <=> Has(e, kind, s) \/ (c.kind = kind /\ c.id = s)
BY AppendIndices DEF Has

LEMMA HasJoin ==
  ASSUME NEW a \in Seq(QueueItem), NEW b \in Seq(QueueItem), NEW kind, NEW s
  PROVE  Has(a \o b, kind, s) <=> Has(a, kind, s) \/ Has(b, kind, s)
<1> DEFINE m == a \o b  n == Len(a)
<1>0. /\ \A i \in DOMAIN a : i \in DOMAIN m /\ m[i] = a[i]
      /\ \A j \in DOMAIN b : n + j \in DOMAIN m /\ m[n + j] = b[j]
      /\ \A i \in DOMAIN m : i \in DOMAIN a \/ \E j \in DOMAIN b : i = n + j
  BY JoinIndices
<1> HIDE DEF m, n
<1>1. Has(a, kind, s) => Has(m, kind, s)
  BY ONLY <1>0 DEF Has
<1>2. ASSUME Has(b, kind, s) PROVE Has(m, kind, s)
  <2>1. PICK j \in DOMAIN b : b[j].kind = kind /\ b[j].id = s
    BY ONLY <1>2 DEF Has
  <2>2. n + j \in DOMAIN m /\ m[n + j] = b[j]
    BY ONLY <1>0, <2>1
  <2> QED BY ONLY <2>1, <2>2 DEF Has
<1>3. Has(m, kind, s) => Has(a, kind, s) \/ Has(b, kind, s)
  BY ONLY <1>0 DEF Has
<1> QED BY <1>1, <1>2, <1>3 DEF m

LEMMA BeforeAppend ==
  ASSUME NEW e \in Seq(QueueItem), NEW c \in QueueItem, NEW kind, NEW s
  PROVE  /\ \A j \in DOMAIN e : Before(Append(e, c), j, kind, s) <=> Before(e, j, kind, s)
         /\ Before(Append(e, c), Len(e) + 1, kind, s) <=> Has(e, kind, s)
<1> DEFINE m == Append(e, c)  n == Len(e) + 1
<1>1. /\ DOMAIN e \subseteq Nat /\ n \in Nat /\ DOMAIN m = DOMAIN e \cup {n} /\ m[n] = c
      /\ \A i \in DOMAIN e : i < n /\ ~(n < i) /\ m[i] = e[i]
  BY AppendIndices
<1>2. ~(n < n)
  BY <1>1
<1> HIDE DEF m, n
<1>3. \A j \in DOMAIN e : Before(m, j, kind, s) <=> Before(e, j, kind, s)
  BY ONLY <1>1 DEF Before
<1>4. Before(m, n, kind, s) <=> Has(e, kind, s)
  BY ONLY <1>1, <1>2 DEF Before, Has
<1> QED BY <1>3, <1>4 DEF m, n

\* A lawful sequence is extended by what can follow it, and by nothing else.
LEMMA LawfulAppend ==
  ASSUME NEW e \in Seq(QueueItem), NEW c \in QueueItem
  PROVE  Lawful(Append(e, c)) <=> Lawful(e) /\ Follows(c, e)
<1> DEFINE m == Append(e, c)  n == Len(e) + 1
<1>1. /\ DOMAIN e \subseteq Nat /\ n \in Nat /\ DOMAIN m = DOMAIN e \cup {n} /\ m[n] = c
      /\ \A i \in DOMAIN e : i < n /\ ~(n < i) /\ m[i] = e[i]
  BY AppendIndices
<1>2. ~(n < n) /\ n \notin DOMAIN e
  BY <1>1
<1>3. \A kind, s : /\ \A j \in DOMAIN e : Before(m, j, kind, s) <=> Before(e, j, kind, s)
                   /\ Before(m, n, kind, s) <=> Has(e, kind, s)
  BY BeforeAppend
<1>4. \A i \in DOMAIN e : e[i].id \in Segments
  BY ElementOfSeq, LenProperties, QueueItemCases
<1> HIDE DEF m, n
<1>5. ASSUME Lawful(m) PROVE Lawful(e)
  BY ONLY <1>1, <1>3, <1>5 DEF Lawful
<1>6. ASSUME Lawful(m) PROVE Follows(c, e)
  <2>1. CASE c.kind = "started"
    <3>1. ~Has(e, "started", c.id)
      BY ONLY <1>1, <1>2, <1>6, <2>1 DEF Lawful, Has
    <3>2. \A s : Has(e, "started", s) => Has(e, "ended", s)
      BY ONLY <1>1, <1>3, <1>6, <2>1 DEF Lawful, Has
    <3> QED BY ONLY <2>1, <3>1, <3>2 DEF Follows
  <2>2. CASE c.kind = "ended"
    <3>1. Has(e, "started", c.id)
      BY ONLY <1>1, <1>3, <1>6, <2>2 DEF Lawful
    <3>2. ~Has(e, "ended", c.id)
      BY ONLY <1>1, <1>2, <1>6, <2>2 DEF Lawful, Has
    <3> QED BY ONLY <2>2, <3>1, <3>2 DEF Follows
  <2>3. CASE c.kind \notin {"started", "ended"}
    BY ONLY <1>1, <1>3, <1>6, <2>3 DEF Lawful, Follows
  <2> QED BY <2>1, <2>2, <2>3
<1>7. ASSUME Lawful(e), Follows(c, e) PROVE Lawful(m)
  <2>1. \A i, j \in DOMAIN m :
          m[i].kind = m[j].kind /\ m[i].id = m[j].id /\ m[i].kind \in {"started", "ended"} => i = j
    BY ONLY <1>1, <1>7 DEF Lawful, Follows, Has
  <2>2. \A j \in DOMAIN m : m[j].kind \in {"ended", "audio"} => Before(m, j, "started", m[j].id)
    BY ONLY <1>1, <1>3, <1>7 DEF Lawful, Follows
  <2>3. \A j \in DOMAIN m : m[j].kind = "audio" => ~Before(m, j, "ended", m[j].id)
    BY ONLY <1>1, <1>3, <1>7 DEF Lawful, Follows
  <2>4. \A j \in DOMAIN m : m[j].kind = "interrupted" => Before(m, j, "ended", m[j].id)
    BY ONLY <1>1, <1>3, <1>7 DEF Lawful, Follows
  <2>5. ASSUME NEW i \in DOMAIN m, NEW j \in DOMAIN m, i < j, m[i].kind = "started", m[j].kind = "started"
        PROVE  Before(m, j, "ended", m[i].id)
    <3>1. i \in DOMAIN e
      BY ONLY <1>1, <1>2, <2>5
    <3>2. CASE j \in DOMAIN e
      BY ONLY <1>1, <1>3, <1>7, <2>5, <3>1, <3>2 DEF Lawful
    <3>3. CASE j = n
      <4>1. Has(e, "started", e[i].id) /\ e[i].id \in Segments /\ m[i] = e[i]
        BY ONLY <1>1, <1>4, <2>5, <3>1 DEF Has
      <4> QED BY ONLY <1>1, <1>3, <1>7, <2>5, <3>3, <4>1 DEF Follows
    <3> QED BY <1>1, <3>2, <3>3
  <2> QED BY ONLY <2>1, <2>2, <2>3, <2>4, <2>5 DEF Lawful
<1> QED BY <1>5, <1>6, <1>7 DEF m

LEMMA LawfulPrefix ==
  ASSUME NEW a \in Seq(QueueItem), NEW b \in Seq(QueueItem), Lawful(a \o b)
  PROVE  Lawful(a)
<1> DEFINE m == a \o b  n == Len(a)
<1>1. /\ DOMAIN m \subseteq Nat /\ n \in Nat
      /\ \A i \in DOMAIN a : i \in DOMAIN m /\ m[i] = a[i] /\ i <= n
      /\ \A i \in DOMAIN m : i <= n => i \in DOMAIN a
  BY JoinIndices
<1>2. Lawful(m)
  OBVIOUS
<1> HIDE DEF m, n
<1>3. \A i \in DOMAIN m, j \in DOMAIN a : i < j => i \in DOMAIN a
  BY ONLY <1>1
<1>4. \A j \in DOMAIN a : \A kind, s : Before(m, j, kind, s) <=> Before(a, j, kind, s)
  BY ONLY <1>1, <1>3 DEF Before
<1> QED BY ONLY <1>1, <1>2, <1>4 DEF Lawful

\* What starts or ends in a does not start or end in b again.
LEMMA OnceAcross ==
  ASSUME NEW a \in Seq(QueueItem), NEW b \in Seq(QueueItem), Lawful(a \o b),
         NEW kind \in {"started", "ended"}, NEW s, Has(a, kind, s)
  PROVE  ~Has(b, kind, s)
<1> DEFINE m == a \o b  n == Len(a)
<1>1. /\ DOMAIN m \subseteq Nat /\ n \in Nat
      /\ \A i \in DOMAIN a : i \in DOMAIN m /\ m[i] = a[i] /\ i <= n
      /\ \A j \in DOMAIN b : n + j \in DOMAIN m /\ m[n + j] = b[j] /\ n + j > n
  BY JoinIndices
<1> SUFFICES ASSUME Has(b, kind, s) PROVE FALSE
  OBVIOUS
<1>2. PICK i \in DOMAIN a : a[i].kind = kind /\ a[i].id = s
  BY DEF Has
<1>3. PICK j \in DOMAIN b : b[j].kind = kind /\ b[j].id = s
  BY DEF Has
<1>4. Lawful(m)
  OBVIOUS
<1> HIDE DEF m, n
<1>5. i \in DOMAIN m /\ n + j \in DOMAIN m /\ m[i] = a[i] /\ m[n + j] = b[j] /\ i <= n /\ n + j > n
  BY ONLY <1>1, <1>2, <1>3
<1>6. i = n + j
  BY ONLY <1>2, <1>3, <1>4, <1>5 DEF Lawful
<1> QED BY ONLY <1>1, <1>5, <1>6

\* Who is on air after c.
LEMMA OnAirAppend ==
  ASSUME NEW e \in Seq(QueueItem), NEW c \in QueueItem, Lawful(e), Follows(c, e), NEW a, OnAir(e, a)
  PROVE  /\ c.kind = "started" => OnAir(Append(e, c), c.id)
         /\ c.kind = "ended" => c.id = a /\ OnAir(Append(e, c), None)
         /\ c.kind = "audio" => c.id = a
         /\ c.kind \notin {"started", "ended"} => OnAir(Append(e, c), a)
<1> DEFINE m == Append(e, c)
<1>0. Lawful(e) /\ Follows(c, e) /\ OnAir(e, a)
  OBVIOUS
<1>1. \A kind, s : Has(m, kind, s) <=> Has(e, kind, s) \/ (c.kind = kind /\ c.id = s)
  BY HasAppend
<1>2. c.id \in Segments
  BY QueueItemCases
<1> HIDE DEF m
<1>3. c.kind \in {"ended", "audio"} => c.id = a
  BY ONLY <1>0, <1>2 DEF Follows, OnAir
<1>4. ASSUME c.kind = "started" PROVE OnAir(m, c.id)
  <2>1. ~Has(e, "ended", c.id)
    BY ONLY <1>0, <1>4 DEF Follows, Lawful, Has, Before
  <2> QED BY ONLY <1>0, <1>1, <1>4, <2>1 DEF Follows, OnAir
<1>5. ASSUME c.kind = "ended" PROVE OnAir(m, None)
  BY ONLY <1>0, <1>1, <1>3, <1>5 DEF OnAir
<1>6. ASSUME c.kind \notin {"started", "ended"} PROVE OnAir(m, a)
  BY ONLY <1>0, <1>1, <1>6 DEF OnAir
<1> QED BY <1>3, <1>4, <1>5, <1>6 DEF m

(***************************************************************************)
(* e2 is e without its i-th element.                                       *)
(***************************************************************************)

Skip(k, i) == IF k < i THEN k ELSE k + 1
Lacks(e2, e, i) ==
    /\ i \in 1..Len(e) /\ Len(e2) = Len(e) - 1
    /\ \A k \in 1..Len(e2) : e2[k] = e[Skip(k, i)]

LEMMA Skipping ==
  ASSUME NEW n \in Nat, NEW i \in 1..n
  PROVE  /\ \A k \in 1..(n - 1) : Skip(k, i) \in 1..n /\ Skip(k, i) # i
         /\ \A j, k \in 1..(n - 1) : j < k <=> Skip(j, i) < Skip(k, i)
         /\ \A j, k \in 1..(n - 1) : Skip(j, i) = Skip(k, i) => j = k
         /\ \A m \in 1..n : m # i => \E k \in 1..(n - 1) : m = Skip(k, i)
<1>1. \A k \in 1..(n - 1) : Skip(k, i) \in 1..n /\ Skip(k, i) # i
  BY DEF Skip
<1>2. \A j, k \in 1..(n - 1) : j < k <=> Skip(j, i) < Skip(k, i)
  BY DEF Skip
<1>3. \A j, k \in 1..(n - 1) : Skip(j, i) = Skip(k, i) => j = k
  BY DEF Skip
<1>4. ASSUME NEW m \in 1..n, m # i PROVE \E k \in 1..(n - 1) : m = Skip(k, i)
  <2>1. CASE m < i
    BY <2>1, m \in 1..(n - 1) /\ m = Skip(m, i) DEF Skip
  <2>2. CASE m > i
    BY <2>2, m - 1 \in 1..(n - 1) /\ m = Skip(m - 1, i) DEF Skip
  <2> QED BY <1>4, <2>1, <2>2
<1> QED BY <1>1, <1>2, <1>3, <1>4

LEMMA LacksHas ==
  ASSUME NEW e \in Seq(QueueItem), NEW e2 \in Seq(QueueItem), NEW i, Lacks(e2, e, i), NEW kind, NEW s
  PROVE  /\ Has(e2, kind, s) => Has(e, kind, s)
         /\ Has(e, kind, s) => Has(e2, kind, s) \/ (e[i].kind = kind /\ e[i].id = s)
<1> DEFINE n == Len(e)
<1>1. n \in Nat /\ i \in 1..n /\ DOMAIN e = 1..n /\ DOMAIN e2 = 1..(n - 1)
      /\ \A k \in 1..(n - 1) : e2[k] = e[Skip(k, i)]
  BY LenProperties DEF Lacks
<1>2. /\ \A k \in 1..(n - 1) : Skip(k, i) \in 1..n
      /\ \A m \in 1..n : m # i => \E k \in 1..(n - 1) : m = Skip(k, i)
  BY <1>1, Skipping
<1> HIDE DEF n
<1>3. Has(e2, kind, s) => Has(e, kind, s)
  BY ONLY <1>1, <1>2 DEF Has
<1>4. ASSUME Has(e, kind, s) PROVE Has(e2, kind, s) \/ (e[i].kind = kind /\ e[i].id = s)
  <2>1. PICK m \in 1..n : e[m].kind = kind /\ e[m].id = s
    BY ONLY <1>1, <1>4 DEF Has
  <2>2. CASE m # i
    <3>1. PICK k \in 1..(n - 1) : m = Skip(k, i)
      BY ONLY <1>2, <2>2
    <3> QED BY ONLY <1>1, <2>1, <3>1 DEF Has
  <2> QED BY ONLY <2>1, <2>2
<1> QED BY <1>3, <1>4

\* Nothing depends on audio, nor on the start of a segment that has not ended.
LEMMA LawfulLacks ==
  ASSUME NEW e \in Seq(QueueItem), NEW e2 \in Seq(QueueItem), NEW i, Lacks(e2, e, i), Lawful(e),
         \/ e[i].kind = "audio"
         \/ e[i].kind = "started" /\ \A j \in DOMAIN e : e[j].id = e[i].id => e[j].kind \notin {"ended", "audio"}
  PROVE  Lawful(e2)
<1> DEFINE n == Len(e)  f(k) == Skip(k, i)
<1>1. n \in Nat /\ i \in 1..n /\ DOMAIN e = 1..n /\ DOMAIN e2 = 1..(n - 1)
      /\ \A k \in 1..(n - 1) : e2[k] = e[Skip(k, i)]
  BY LenProperties DEF Lacks
<1>2. /\ \A k \in 1..(n - 1) : Skip(k, i) \in 1..n /\ Skip(k, i) # i
      /\ \A j, k \in 1..(n - 1) : j < k <=> Skip(j, i) < Skip(k, i)
      /\ \A j, k \in 1..(n - 1) : Skip(j, i) = Skip(k, i) => j = k
      /\ \A m \in 1..n : m # i => \E k \in 1..(n - 1) : m = Skip(k, i)
  BY <1>1, Skipping
<1>3. /\ Lawful(e)
      /\ \/ e[i].kind = "audio"
         \/ e[i].kind = "started"
              /\ \A j \in DOMAIN e : e[j].id = e[i].id => e[j].kind \notin {"ended", "audio"}
  OBVIOUS
<1> HIDE DEF n
<1>4. ASSUME NEW k \in DOMAIN e2, NEW kind, NEW s
      PROVE  /\ Before(e2, k, kind, s) => Before(e, Skip(k, i), kind, s)
             /\ Before(e, Skip(k, i), kind, s) =>
                  Before(e2, k, kind, s) \/ (e[i].kind = kind /\ e[i].id = s)
  <2>1. ASSUME Before(e2, k, kind, s) PROVE Before(e, Skip(k, i), kind, s)
    <3>1. PICK j \in DOMAIN e2 : j < k /\ e2[j].kind = kind /\ e2[j].id = s
      BY ONLY <2>1 DEF Before
    <3>2. Skip(j, i) \in DOMAIN e /\ Skip(j, i) < Skip(k, i) /\ e2[j] = e[Skip(j, i)]
      BY ONLY <1>1, <1>2, <3>1
    <3> QED BY ONLY <3>1, <3>2 DEF Before
  <2>2. ASSUME Before(e, Skip(k, i), kind, s)
        PROVE  Before(e2, k, kind, s) \/ (e[i].kind = kind /\ e[i].id = s)
    <3>1. PICK m \in DOMAIN e : m < Skip(k, i) /\ e[m].kind = kind /\ e[m].id = s
      BY ONLY <2>2 DEF Before
    <3>2. CASE m # i
      <4>1. PICK j \in 1..(n - 1) : m = Skip(j, i)
        BY ONLY <1>1, <1>2, <3>1, <3>2
      <4>2. j \in DOMAIN e2 /\ j < k /\ e2[j] = e[m]
        BY ONLY <1>1, <1>2, <3>1, <4>1
      <4> QED BY ONLY <3>1, <4>2 DEF Before
    <3> QED BY ONLY <3>1, <3>2
  <2> QED BY <2>1, <2>2
<1>5. \A j, k \in DOMAIN e2 :
          e2[j].kind = e2[k].kind /\ e2[j].id = e2[k].id /\ e2[j].kind \in {"started", "ended"} => j = k
  BY ONLY <1>1, <1>2, <1>3 DEF Lawful
<1>6. ASSUME NEW k \in DOMAIN e2, e2[k].kind \in {"ended", "audio"}
      PROVE  Before(e2, k, "started", e2[k].id)
  <2>1. Skip(k, i) \in DOMAIN e /\ e2[k] = e[Skip(k, i)]
    BY ONLY <1>1, <1>2
  <2>2. Before(e, Skip(k, i), "started", e2[k].id)
    BY ONLY <1>3, <1>6, <2>1 DEF Lawful
  <2>3. ~(e[i].kind = "started" /\ e[i].id = e2[k].id)
    BY ONLY <1>3, <1>6, <2>1
  <2> QED BY ONLY <1>4, <2>2, <2>3
<1>7. \A k \in DOMAIN e2 : e2[k].kind = "audio" => ~Before(e2, k, "ended", e2[k].id)
  BY ONLY <1>1, <1>2, <1>3, <1>4 DEF Lawful
<1>8. \A k \in DOMAIN e2 : e2[k].kind = "interrupted" => Before(e2, k, "ended", e2[k].id)
  BY ONLY <1>1, <1>2, <1>3, <1>4 DEF Lawful
<1>9. ASSUME NEW j \in DOMAIN e2, NEW k \in DOMAIN e2, j < k, e2[j].kind = "started", e2[k].kind = "started"
      PROVE  Before(e2, k, "ended", e2[j].id)
  <2>1. Before(e, Skip(k, i), "ended", e[Skip(j, i)].id)
    BY ONLY <1>1, <1>2, <1>3, <1>9 DEF Lawful
  <2> QED BY ONLY <1>1, <1>3, <1>4, <1>9, <2>1
<1> QED BY ONLY <1>5, <1>6, <1>7, <1>8, <1>9 DEF Lawful

\* Leaving out an element of a part leaves it out of the whole.
LEMMA LacksCut ==
  ASSUME NEW evs \in Seq(Stamped), NEW i \in 1..Len(evs)
  PROVE  LET less == SubSeq(evs, 1, i - 1) \o SubSeq(evs, i + 1, Len(evs)) IN
         less \in Seq(Stamped) /\ Lacks(less, evs, i)
<1> DEFINE n == Len(evs)
           a == SubSeq(evs, 1, i - 1)
           b == SubSeq(evs, i + 1, Len(evs))
           less == a \o b
<1>1. n \in Nat /\ i \in 1..n /\ i - 1 \in Nat /\ \A k \in 1..n : evs[k] \in Stamped
  BY StampsAreInt
<1>2. a \in Seq(Stamped) /\ Len(a) = i - 1 /\ \A k \in 1..(i - 1) : a[k] = evs[k]
  BY <1>1, SubSeqProperties
<1>3. b \in Seq(Stamped) /\ Len(b) = n - i /\ \A k \in 1..(n - i) : b[k] = evs[i + k]
  <2>1. i \in Nat /\ i <= Len(evs)
    BY <1>1
  <2> QED BY <2>1, RestProperties, Zenon
<1> HIDE DEF a, b, n
<1>4. /\ less \in Seq(Stamped) /\ Len(less) = Len(a) + Len(b)
      /\ \A k \in 1..(Len(a) + Len(b)) : less[k] = IF k <= Len(a) THEN a[k] ELSE b[k - Len(a)]
  BY <1>2, <1>3, ConcatProperties
<1> HIDE DEF less
<1>5. Len(less) = n - 1
  BY ONLY <1>1, <1>2, <1>3, <1>4
<1>6. ASSUME NEW k \in 1..(n - 1) PROVE less[k] = evs[Skip(k, i)]
  <2>0. k \in 1..(Len(a) + Len(b)) /\ Len(a) = i - 1
    BY ONLY <1>1, <1>2, <1>3, <1>6
  <2>1. CASE k < i
    <3>1. k <= Len(a) /\ k \in 1..(i - 1) /\ Skip(k, i) = k
      BY ONLY <1>1, <1>2, <2>1 DEF Skip
    <3> QED BY ONLY <1>2, <1>4, <2>0, <3>1
  <2>2. CASE ~(k < i)
    <3>1. ~(k <= Len(a)) /\ k - Len(a) \in 1..(n - i) /\ i + (k - Len(a)) = k + 1 /\ Skip(k, i) = k + 1
      BY ONLY <1>1, <1>2, <1>6, <2>2 DEF Skip
    <3> QED BY ONLY <1>3, <1>4, <2>0, <3>1
  <2> QED BY <2>1, <2>2
<1> QED BY <1>1, <1>4, <1>5, <1>6 DEF Lacks, n, less, a, b

LEMMA LacksRight ==
  ASSUME NEW S, NEW a \in Seq(S), NEW b \in Seq(S), NEW b2 \in Seq(S), NEW i, Lacks(b2, b, i)
  PROVE  Lacks(a \o b2, a \o b, Len(a) + i)
<1> DEFINE m == a \o b  m2 == a \o b2  n == Len(a)  l == Len(b)
<1>1. n \in Nat /\ l \in Nat /\ i \in 1..l /\ Len(b2) = l - 1 /\ \A k \in 1..(l - 1) : b2[k] = b[Skip(k, i)]
  BY LenProperties DEF Lacks
<1>2. Len(m) = n + l /\ \A k \in 1..(n + l) : m[k] = IF k <= n THEN a[k] ELSE b[k - n]
  BY ConcatProperties
<1>3. Len(m2) = n + Len(b2) /\ \A k \in 1..(n + Len(b2)) : m2[k] = IF k <= n THEN a[k] ELSE b2[k - n]
  BY ConcatProperties
<1> HIDE DEF m, m2, n, l
<1>4. n + i \in 1..(n + l) /\ Len(m2) = (n + l) - 1
  BY ONLY <1>1, <1>3
<1>5. ASSUME NEW k \in 1..((n + l) - 1) PROVE m2[k] = m[Skip(k, n + i)]
  <2>0. k \in 1..(n + Len(b2)) /\ k \in 1..(n + l) /\ k + 1 \in 1..(n + l)
    BY ONLY <1>1, <1>5
  <2>1. CASE k <= n
    <3>1. Skip(k, n + i) = k
      BY ONLY <1>1, <2>0, <2>1 DEF Skip
    <3> QED BY ONLY <1>2, <1>3, <2>0, <2>1, <3>1
  <2>2. CASE ~(k <= n)
    <3>1. k - n \in 1..(l - 1)
      BY ONLY <1>1, <1>5, <2>2
    <3>2. CASE k - n < i
      <4>1. Skip(k, n + i) = k /\ Skip(k - n, i) = k - n
        BY ONLY <1>1, <2>0, <3>1, <3>2 DEF Skip
      <4> QED BY ONLY <1>1, <1>2, <1>3, <2>0, <2>2, <3>1, <4>1
    <3>3. CASE ~(k - n < i)
      <4>1. /\ Skip(k, n + i) = k + 1 /\ Skip(k - n, i) = (k - n) + 1
            /\ (k + 1) - n = (k - n) + 1 /\ ~(k + 1 <= n)
        BY ONLY <1>1, <2>0, <2>2, <3>1, <3>3 DEF Skip
      <4> QED BY ONLY <1>1, <1>2, <1>3, <2>0, <2>2, <3>1, <4>1
    <3> QED BY <3>2, <3>3
  <2> QED BY <2>1, <2>2
<1> QED BY <1>2, <1>4, <1>5 DEF Lacks, m, m2, n, l

LEMMA LacksLeft ==
  ASSUME NEW S, NEW a \in Seq(S), NEW a2 \in Seq(S), NEW b \in Seq(S), NEW i, Lacks(a2, a, i)
  PROVE  Lacks(a2 \o b, a \o b, i)
<1> DEFINE m == a \o b  m2 == a2 \o b  n == Len(a)  l == Len(b)
<1>1. n \in Nat /\ l \in Nat /\ i \in 1..n /\ Len(a2) = n - 1 /\ \A k \in 1..(n - 1) : a2[k] = a[Skip(k, i)]
  BY LenProperties DEF Lacks
<1>2. Len(m) = n + l /\ \A k \in 1..(n + l) : m[k] = IF k <= n THEN a[k] ELSE b[k - n]
  BY ConcatProperties
<1>3. Len(m2) = Len(a2) + l /\ \A k \in 1..(Len(a2) + l) : m2[k] = IF k <= Len(a2) THEN a2[k] ELSE b[k - Len(a2)]
  BY ConcatProperties
<1> HIDE DEF m, m2, n, l
<1>4. i \in 1..(n + l) /\ Len(m2) = (n + l) - 1
  BY ONLY <1>1, <1>3
<1>5. ASSUME NEW k \in 1..((n + l) - 1) PROVE m2[k] = m[Skip(k, i)]
  <2>0. k \in 1..(Len(a2) + l) /\ k \in 1..(n + l) /\ k + 1 \in 1..(n + l)
    BY ONLY <1>1, <1>5
  <2>1. CASE k <= n - 1
    <3>1. k \in 1..(n - 1) /\ k <= Len(a2) /\ Skip(k, i) <= n /\ Skip(k, i) \in 1..(n + l)
      BY ONLY <1>1, <2>0, <2>1 DEF Skip
    <3> QED BY ONLY <1>1, <1>2, <1>3, <2>0, <3>1
  <2>2. CASE ~(k <= n - 1)
    <3>1. /\ ~(k <= Len(a2)) /\ Skip(k, i) = k + 1 /\ ~(k + 1 <= n) /\ (k + 1) - n = k - Len(a2)
      BY ONLY <1>1, <2>0, <2>2 DEF Skip
    <3> QED BY ONLY <1>2, <1>3, <2>0, <3>1
  <2> QED BY <2>1, <2>2
<1> QED BY <1>2, <1>4, <1>5 DEF Lacks, m, m2, n, l

LEMMA LacksHead ==
  ASSUME NEW S, NEW b \in Seq(S), b # <<>>
  PROVE  Tail(b) \in Seq(S) /\ Lacks(Tail(b), b, 1)
<1>1. /\ Len(b) \in Nat \ {0} /\ Tail(b) \in Seq(S) /\ Len(Tail(b)) = Len(b) - 1
      /\ \A i \in 1..Len(Tail(b)) : Tail(b)[i] = b[i + 1]
  BY EmptySeq, HeadTailProperties
<1>2. \A k \in 1..Len(Tail(b)) : Skip(k, 1) = k + 1
  BY <1>1 DEF Skip
<1> QED BY <1>1, <1>2 DEF Lacks

\* Moving the head of b to the end of a leaves a \o b as it is.
LEMMA MoveHead ==
  ASSUME NEW S, NEW a \in Seq(S), NEW b \in Seq(S), b # <<>>
  PROVE  Append(a, Head(b)) \o Tail(b) = a \o b
<1> DEFINE h == <<Head(b)>>
<1>1. /\ Head(b) \in S /\ Tail(b) \in Seq(S) /\ Len(b) \in Nat \ {0} /\ Len(Tail(b)) = Len(b) - 1
      /\ \A i \in 1..Len(Tail(b)) : Tail(b)[i] = b[i + 1]
  BY EmptySeq, HeadTailProperties
<1>2. h \in Seq(S) /\ Len(h) = 1 /\ h[1] = b[1]
  BY <1>1
<1>3. Append(a, Head(b)) = a \o h
  BY <1>1, AppendIsConcat
<1> DEFINE w == h \o Tail(b)
<1> HIDE DEF h
<1>4. /\ w \in Seq(S) /\ Len(w) = 1 + Len(Tail(b))
      /\ \A i \in 1..(1 + Len(Tail(b))) : w[i] = IF i <= 1 THEN h[i] ELSE Tail(b)[i - 1]
  <2> DEFINE t == Tail(b)
  <2>1. h \in Seq(S) /\ t \in Seq(S)
    BY <1>1, <1>2
  <2> HIDE DEF t
  <2>2. /\ h \o t \in Seq(S) /\ Len(h \o t) = Len(h) + Len(t)
        /\ \A i \in 1..(Len(h) + Len(t)) : (h \o t)[i] = IF i <= Len(h) THEN h[i] ELSE t[i - Len(h)]
    BY ONLY <2>1, ConcatProperties
  <2> QED BY ONLY <1>2, <2>2 DEF t, w
<1> HIDE DEF w
<1>5. Len(w) = Len(b)
  BY ONLY <1>1, <1>4
<1>6. ASSUME NEW i \in 1..Len(b) PROVE w[i] = b[i]
  <2>1. CASE i = 1
    BY ONLY <1>1, <1>2, <1>4, <1>6, <2>1
  <2>2. CASE i # 1
    <3>1. ~(i <= 1) /\ i - 1 \in 1..Len(Tail(b)) /\ (i - 1) + 1 = i /\ i \in 1..(1 + Len(Tail(b)))
      BY ONLY <1>1, <1>6, <2>2
    <3> QED BY ONLY <1>1, <1>4, <3>1
  <2> QED BY <2>1, <2>2
<1>7. w = b
  BY <1>4, <1>5, <1>6, SeqEqual
<1>8. (a \o h) \o Tail(b) = a \o w
  BY <1>1, <1>2, ConcatAssociative DEF w
<1> QED BY <1>3, <1>7, <1>8

LEMMA AppendRight ==
  ASSUME NEW S, NEW a \in Seq(S), NEW b \in Seq(S), NEW c \in S
  PROVE  a \o Append(b, c) = Append(a \o b, c)
<1>1. <<c>> \in Seq(S) /\ a \o b \in Seq(S)
  BY ConcatProperties
<1>2. Append(b, c) = b \o <<c>> /\ Append(a \o b, c) = (a \o b) \o <<c>>
  BY <1>1, AppendIsConcat
<1>3. (a \o b) \o <<c>> = a \o (b \o <<c>>)
  BY <1>1, ConcatAssociative
<1> QED BY <1>2, <1>3

(***************************************************************************)
(* The life the scheduler tells.  Told is what it has reported or will     *)
(* report of what it took from the queue, whatever the stamps: the events  *)
(* returned, those queued and those of the step.  What waits in the queue  *)
(* continues it.                                                           *)
(***************************************************************************)

Facts(evs) == [i \in DOMAIN evs |-> evs[i].event]
StepFacts == IF StartupCancelled THEN <<>> ELSE Facts(step.events)
Told == (Facts(log) \o Facts(eventQueue)) \o StepFacts
Course == Told \o queue

LifeInv ==
    /\ Lawful(Course)
    /\ OnAir(Told, active)
    /\ OnAir(Course, writeActive)
    /\ \A s \in Segments : Has(Course, "started", s) => s \in begun

\* A step that starts a segment has told of nothing else, unless it is finishing; the
\* start is stamped after what is buffered.
StartInv ==
    /\ coalescing # None => step.isStart
    /\ cancelled # None => cancelled = coalescing
    /\ StartupCancelled => active = None
    /\ step.isStart /\ ~StartupCancelled =>
          \/ pc = "finishing" /\ active = None
          \/ /\ active = coalescing /\ Len(step.events) = 1
             /\ step.events[1].event.kind = "started" /\ step.events[1].event.id = coalescing
             /\ nextPresent + Len(buffer) <= step.events[1].at
    /\ stopping => writeActive = None

\* The invariants of the scheduler's steps, from its own module of proofs.
SchedulerInv == TypeOK /\ PresentInv /\ PaddingInv /\ StampsInv

LEMMA FactsType ==
  ASSUME NEW evs \in Seq(Stamped)
  PROVE  /\ Facts(evs) \in Seq(QueueItem) /\ Len(Facts(evs)) = Len(evs)
         /\ DOMAIN Facts(evs) = DOMAIN evs
         /\ \A i \in DOMAIN evs : /\ Facts(evs)[i] = evs[i].event /\ evs[i] \in Stamped
                                  /\ evs[i].event \in SegmentEvent /\ evs[i].event \in QueueItem
<1>1. Len(evs) \in Nat /\ DOMAIN evs = 1..Len(evs) /\ \A i \in 1..Len(evs) : evs[i] \in Stamped
  BY StampsAreInt
<1>2. \A i \in 1..Len(evs) : evs[i].event \in SegmentEvent /\ evs[i].event \in QueueItem
  BY <1>1 DEF Stamped, QueueItem
<1>3. Facts(evs) \in [1..Len(evs) -> QueueItem]
  BY <1>1, <1>2 DEF Facts
<1>4. Facts(evs) \in Seq(QueueItem) /\ Len(Facts(evs)) = Len(evs)
  <2> DEFINE f == Facts(evs)  n == Len(evs)
  <2>1. n \in Nat /\ f \in [1..n -> QueueItem]
    BY <1>1, <1>3
  <2> HIDE DEF f, n
  <2>2. f \in Seq(QueueItem) /\ Len(f) = n
    BY ONLY <2>1
  <2> QED BY <2>2 DEF f, n
<1> QED BY <1>1, <1>2, <1>4 DEF Facts

LEMMA FactsAppend ==
  ASSUME NEW evs \in Seq(Stamped), NEW st \in Stamped
  PROVE  Facts(Append(evs, st)) = Append(Facts(evs), st.event)
<1> DEFINE more == Append(evs, st)
<1>1. /\ more \in Seq(Stamped) /\ Len(more) = Len(evs) + 1 /\ Len(evs) \in Nat
      /\ \A i \in 1..Len(evs) : more[i] = evs[i]
      /\ more[Len(evs) + 1] = st
  BY AppendProperties, LenProperties
<1> HIDE DEF more
<1>2. DOMAIN more = 1..(Len(evs) + 1) /\ DOMAIN evs = 1..Len(evs)
  BY <1>1, LenProperties
<1> DEFINE f == Facts(evs)  g == Facts(more)  e == st.event
<1>3. f \in Seq(QueueItem) /\ Len(f) = Len(evs) /\ \A i \in 1..Len(evs) : f[i] = evs[i].event
  BY <1>2, FactsType
<1>4. g \in Seq(QueueItem) /\ Len(g) = Len(evs) + 1 /\ \A i \in 1..(Len(evs) + 1) : g[i] = more[i].event
  BY <1>1, <1>2, FactsType
<1>5. e \in QueueItem
  BY DEF Stamped, QueueItem
<1> HIDE DEF f, g, e
<1>6. /\ Append(f, e) \in Seq(QueueItem) /\ Len(Append(f, e)) = Len(f) + 1
      /\ \A i \in 1..Len(f) : Append(f, e)[i] = f[i]
      /\ Append(f, e)[Len(f) + 1] = e
  BY <1>3, <1>5, AppendProperties
<1>7. ASSUME NEW i \in 1..Len(g) PROVE g[i] = Append(f, e)[i]
  <2>1. CASE i = Len(evs) + 1
    BY <1>1, <1>3, <1>4, <1>6, <2>1 DEF e
  <2>2. CASE i # Len(evs) + 1
    <3>1. i \in 1..Len(evs) /\ i \in 1..(Len(evs) + 1)
      BY <1>1, <1>4, <1>7, <2>2
    <3> QED BY <1>1, <1>3, <1>4, <1>6, <3>1
  <2> QED BY <2>1, <2>2
<1>8. g = Append(f, e)
  BY <1>3, <1>4, <1>6, <1>7, SeqEqual
<1> QED BY <1>8 DEF f, g, e, more

LEMMA FactsJoin ==
  ASSUME NEW a \in Seq(Stamped), NEW b \in Seq(Stamped)
  PROVE  Facts(a \o b) = Facts(a) \o Facts(b)
<1> DEFINE m == a \o b  n == Len(a)  l == Len(b)
<1>1. n \in Nat /\ l \in Nat /\ DOMAIN a = 1..n /\ DOMAIN b = 1..l
  BY LenProperties
<1>2. /\ m \in Seq(Stamped) /\ Len(m) = n + l
      /\ \A i \in 1..(n + l) : m[i] = IF i <= n THEN a[i] ELSE b[i - n]
  BY ConcatProperties
<1> HIDE DEF m
<1>3. DOMAIN m = 1..(n + l)
  BY <1>2, LenProperties
<1> DEFINE f == Facts(a)  g == Facts(b)  h == Facts(m)
<1>4. f \in Seq(QueueItem) /\ Len(f) = n /\ \A i \in 1..n : f[i] = a[i].event
  BY <1>1, FactsType
<1>5. g \in Seq(QueueItem) /\ Len(g) = l /\ \A i \in 1..l : g[i] = b[i].event
  BY <1>1, FactsType
<1>6. h \in Seq(QueueItem) /\ Len(h) = n + l /\ \A i \in 1..(n + l) : h[i] = m[i].event
  BY <1>2, <1>3, FactsType
<1> HIDE DEF f, g, h, n, l
<1>7. /\ f \o g \in Seq(QueueItem) /\ Len(f \o g) = Len(f) + Len(g)
      /\ \A i \in 1..(Len(f) + Len(g)) : (f \o g)[i] = IF i <= Len(f) THEN f[i] ELSE g[i - Len(f)]
  BY <1>4, <1>5, ConcatProperties
<1>8. ASSUME NEW i \in 1..Len(h) PROVE h[i] = (f \o g)[i]
  <2>0. i \in 1..(n + l) /\ i \in 1..(Len(f) + Len(g))
    BY ONLY <1>4, <1>5, <1>6, <1>8
  <2>1. CASE i <= n
    <3>1. i \in 1..n
      BY ONLY <1>1, <2>0, <2>1
    <3> QED BY ONLY <1>2, <1>4, <1>6, <1>7, <2>0, <2>1, <3>1
  <2>2. CASE ~(i <= n)
    <3>1. i - n \in 1..l
      BY ONLY <1>1, <2>0, <2>2
    <3> QED BY ONLY <1>2, <1>4, <1>5, <1>6, <1>7, <2>0, <2>2, <3>1
  <2> QED BY <2>1, <2>2
<1>9. Len(h) = Len(f \o g)
  BY <1>4, <1>5, <1>6, <1>7
<1>10. h = f \o g
  BY <1>6, <1>7, <1>8, <1>9, SeqEqual
<1> QED BY <1>10 DEF f, g, h, m

LEMMA FactsShifted ==
  ASSUME NEW evs \in Seq(Stamped), NEW d \in Nat
  PROVE  Facts(ShiftedBy(evs, d)) = Facts(evs)
<1>1. DOMAIN ShiftedBy(evs, d) = DOMAIN evs
  BY ShiftedInOrder
<1>2. \A i \in DOMAIN evs : ShiftedBy(evs, d)[i].event = evs[i].event
  BY DEF ShiftedBy, Stamp
<1> QED BY <1>1, <1>2 DEF Facts

LEMMA FactsLack ==
  ASSUME NEW e \in Seq(Stamped), NEW e2 \in Seq(Stamped), NEW i, Lacks(e2, e, i)
  PROVE  Lacks(Facts(e2), Facts(e), i)
<1>1. /\ Len(Facts(e)) = Len(e) /\ Len(Facts(e2)) = Len(e2) /\ Len(e) \in Nat
      /\ \A k \in 1..Len(e) : Facts(e)[k] = e[k].event
      /\ \A k \in 1..Len(e2) : Facts(e2)[k] = e2[k].event
  BY FactsType, LenProperties
<1>2. \A k \in 1..Len(e2) : Skip(k, i) \in 1..Len(e)
  BY <1>1 DEF Lacks, Skip
<1> QED BY <1>1, <1>2 DEF Lacks

LEMMA FactsEmpty == Facts(<<>>) = <<>> /\ <<>> \in Seq(QueueItem) /\ <<>> \in Seq(Stamped)
BY EmptySeq DEF Facts

LEMMA ToldType ==
  ASSUME TypeOK
  PROVE  /\ Facts(log) \in Seq(QueueItem) /\ Facts(eventQueue) \in Seq(QueueItem)
         /\ Facts(step.events) \in Seq(QueueItem) /\ StepFacts \in Seq(QueueItem)
         /\ Facts(log) \o Facts(eventQueue) \in Seq(QueueItem)
         /\ Told \in Seq(QueueItem) /\ queue \in Seq(QueueItem) /\ Course \in Seq(QueueItem)
         /\ log \in Seq(Stamped) /\ eventQueue \in Seq(Stamped) /\ step.events \in Seq(Stamped)
<1>1. /\ log \in Seq(Stamped) /\ eventQueue \in Seq(Stamped) /\ step.events \in Seq(Stamped)
      /\ queue \in Seq(QueueItem)
  BY DEF TypeOK, StepLocals
<1>2. /\ Facts(log) \in Seq(QueueItem) /\ Facts(eventQueue) \in Seq(QueueItem)
      /\ Facts(step.events) \in Seq(QueueItem) /\ StepFacts \in Seq(QueueItem)
  BY <1>1, FactsType, FactsEmpty DEF StepFacts
<1>3. Facts(log) \o Facts(eventQueue) \in Seq(QueueItem)
  BY <1>2, ConcatProperties
<1>4. Told \in Seq(QueueItem)
  BY <1>2, <1>3, ConcatProperties DEF Told
<1>5. Course \in Seq(QueueItem)
  BY <1>1, <1>4, ConcatProperties DEF Course
<1> QED BY <1>1, <1>2, <1>3, <1>4, <1>5

(***************************************************************************)
(* What the steps do to what is told.                                      *)
(***************************************************************************)

LEMMA ToldSame ==
  ASSUME UNCHANGED <<log, eventQueue>>, step'.events = step.events,
         StartupCancelled' <=> StartupCancelled
  PROVE  Told' = Told
<1>1. StepFacts' = StepFacts
  BY DEF StepFacts, Facts
<1>2. Facts(log') = Facts(log) /\ Facts(eventQueue') = Facts(eventQueue)
  OBVIOUS
<1> QED BY <1>1, <1>2 DEF Told, Facts

LEMMA LifeSame ==
  ASSUME LifeInv, Told' = Told, UNCHANGED <<queue, active, writeActive, begun>>
  PROVE  LifeInv'
<1>1. Course' = Course
  BY DEF Course
<1>2. \A s : Has(Course', "started", s) <=> Has(Course, "started", s)
  BY <1>1
<1> QED BY <1>1, <1>2 DEF LifeInv, Lawful, OnAir, Has, Before

\* The head of the queue can follow what is told.
LEMMA HeadFollows ==
  ASSUME TypeOK, LifeInv, queue # <<>>
  PROVE  /\ Head(queue) \in QueueItem /\ Tail(queue) \in Seq(QueueItem)
         /\ Lawful(Told) /\ Follows(Head(queue), Told)
         /\ Append(Told, Head(queue)) \in Seq(QueueItem)
         /\ Course = Append(Told, Head(queue)) \o Tail(queue)
<1>1. Told \in Seq(QueueItem) /\ queue \in Seq(QueueItem)
  BY ToldType
<1>2. Head(queue) \in QueueItem /\ Tail(queue) \in Seq(QueueItem)
  BY <1>1, HeadTailProperties
<1>3. Append(Told, Head(queue)) \in Seq(QueueItem)
  BY <1>1, <1>2, AppendProperties
<1>4. Course = Append(Told, Head(queue)) \o Tail(queue)
  BY <1>1, MoveHead DEF Course
<1>5. Lawful(Append(Told, Head(queue)) \o Tail(queue))
  BY <1>4 DEF LifeInv
<1>6. Lawful(Append(Told, Head(queue)))
  BY <1>2, <1>3, <1>5, LawfulPrefix
<1> QED BY <1>1, <1>2, <1>3, <1>4, <1>6, LawfulAppend

LEMMA ToldLawful ==
  ASSUME TypeOK, LifeInv
  PROVE  Lawful(Told)
BY ToldType, LawfulPrefix DEF LifeInv, Course

\* The listener's appends.
LEMMA QueueGrows ==
  ASSUME TypeOK, LifeInv, Told' = Told, UNCHANGED active, NEW c \in QueueItem, queue' = Append(queue, c),
         Follows(c, Course), OnAir(Append(Course, c), writeActive'),
         begun \subseteq begun', c.kind = "started" => c.id \in begun'
  PROVE  LifeInv'
<1>1. Course' = Append(Course, c) /\ Course \in Seq(QueueItem)
  <2>1. Told \in Seq(QueueItem) /\ queue \in Seq(QueueItem) /\ Course \in Seq(QueueItem) /\ c \in QueueItem
    BY ToldType
  <2>2. Told \o Append(queue, c) = Append(Told \o queue, c)
    BY ONLY <2>1, AppendRight
  <2>3. Course' = Told \o Append(queue, c) /\ Course = Told \o queue
    BY DEF Course
  <2> QED BY ONLY <2>1, <2>2, <2>3
<1>2. Lawful(Append(Course, c))
  <2>1. Lawful(Course) /\ Follows(c, Course)
    BY DEF LifeInv
  <2>2. \A e \in Seq(QueueItem) : Lawful(Append(e, c)) <=> Lawful(e) /\ Follows(c, e)
    BY LawfulAppend
  <2> QED BY ONLY <1>1, <2>1, <2>2
<1>3. \A s \in Segments : Has(Append(Course, c), "started", s) => s \in begun'
  <2>1. \A s : Has(Append(Course, c), "started", s) <=> Has(Course, "started", s) \/ (c.kind = "started" /\ c.id = s)
    BY <1>1, HasAppend
  <2>2. \A s \in Segments : Has(Course, "started", s) => s \in begun
    BY DEF LifeInv
  <2>3. begun \subseteq begun' /\ (c.kind = "started" => c.id \in begun')
    OBVIOUS
  <2> QED BY ONLY <2>1, <2>2, <2>3
<1>4. OnAir(Told', active')
  BY DEF LifeInv
<1>5. Lawful(Course') /\ OnAir(Course', writeActive') /\ \A s \in Segments : Has(Course', "started", s) => s \in begun'
  BY <1>1, <1>2, <1>3
<1> QED BY <1>4, <1>5 DEF LifeInv, Lawful, OnAir, Has, Before

LEMMA AppendsTold ==
  ASSUME TypeOK, QueueInv, Appends
  PROVE  Told' = Told /\ UNCHANGED <<active, stampVars>>
<1>1. UNCHANGED stampVars
  BY AppendsQueue
<1>2. UNCHANGED log
  BY DEF Appends, StartSegment, EndSegment, AppendChunk, ShutdownUser, historyVars
<1>3. StartupCancelled' <=> StartupCancelled
  BY <1>1 DEF StartupCancelled, stampVars
<1> QED BY <1>1, <1>2, <1>3, ToldSame DEF stampVars

LEMMA EndAppended ==
  ASSUME TypeOK, LifeInv, writeActive # None
  PROVE  /\ writeActive \in Segments /\ Ended(writeActive) \in QueueItem
         /\ Follows(Ended(writeActive), Course)
         /\ OnAir(Append(Course, Ended(writeActive)), None)
<1>1. writeActive \in Segments /\ Ended(writeActive) \in QueueItem
  BY EventTypes DEF TypeOK, QueueItem
<1>2. Ended(writeActive).kind = "ended" /\ Ended(writeActive).id = writeActive
  BY DEF Ended
<1>3. Follows(Ended(writeActive), Course)
  BY <1>2 DEF Follows, LifeInv, OnAir
<1>4. OnAir(Append(Course, Ended(writeActive)), None)
  BY <1>1, <1>2, <1>3, ToldType, OnAirAppend DEF LifeInv
<1> QED BY <1>1, <1>3, <1>4

LEMMA AppendsLife ==
  ASSUME TypeOK, QueueInv, LifeInv, Appends
  PROVE  LifeInv'
<1>0. Told' = Told /\ UNCHANGED active /\ Course \in Seq(QueueItem)
      /\ Lawful(Course) /\ OnAir(Course, writeActive)
  BY AppendsTold, ToldType DEF LifeInv
<1>1. ASSUME NEW s \in Segments, StartSegment(s) PROVE LifeInv'
  <2>1. /\ s \notin begun /\ writeActive = None /\ begun' = begun \cup {s} /\ writeActive' = s
        /\ queue' = Append(queue, Started(s))
    BY <1>1 DEF StartSegment, AppendQueue
  <2>2. Started(s).kind = "started" /\ Started(s).id = s /\ Started(s) \in QueueItem
    BY EventTypes DEF Started, QueueItem
  <2>3. Follows(Started(s), Course)
    BY <2>1, <2>2, NameAssumption DEF Follows, LifeInv, OnAir
  <2>4. OnAir(Append(Course, Started(s)), s)
    BY <1>0, <2>2, <2>3, OnAirAppend
  <2> QED BY <1>0, <2>1, <2>2, <2>3, <2>4, QueueGrows
<1>2. ASSUME NEW s \in Segments, EndSegment(s) PROVE LifeInv'
  <2>1. /\ writeActive = s /\ writeActive' = None /\ UNCHANGED begun
        /\ queue' = Append(queue, Ended(s))
    BY <1>2 DEF EndSegment, AppendQueue, inputVars
  <2>2. writeActive # None /\ Ended(s).kind # "started"
    BY <2>1, NameAssumption DEF Ended
  <2> QED BY <1>0, <2>1, <2>2, EndAppended, QueueGrows
<1>3. ASSUME NEW s \in Segments, NEW n \in ChunkLengths, AppendChunk(s, n) PROVE LifeInv'
  <2>1. /\ writeActive = s /\ UNCHANGED <<writeActive, begun>>
        /\ queue' = Append(queue, Chunk(s, n))
    BY <1>3 DEF AppendChunk, AppendQueue
  <2>2. Chunk(s, n).kind = "audio" /\ Chunk(s, n).id = s /\ Chunk(s, n) \in QueueItem
    BY EventTypes, DurationAssumption DEF Chunk
  <2>3. Follows(Chunk(s, n), Course)
    BY <2>1, <2>2, NameAssumption DEF Follows, LifeInv, OnAir
  <2>4. OnAir(Append(Course, Chunk(s, n)), writeActive)
    BY <1>0, <2>2, <2>3, OnAirAppend
  <2> QED BY <1>0, <2>1, <2>2, <2>3, <2>4, QueueGrows
<1>4. CASE ShutdownUser
  <2>1. UNCHANGED begun /\ writeActive' = None
    BY <1>4 DEF ShutdownUser, inputVars
  <2>2. CASE writeActive # None
    <3>1. queue' = Append(queue, Ended(writeActive)) /\ Ended(writeActive).kind # "started"
      BY <1>4, <2>2 DEF ShutdownUser, AppendQueue, Ended
    <3> QED BY <1>0, <2>1, <2>2, <3>1, EndAppended, QueueGrows
  <2>3. CASE writeActive = None
    <3>1. UNCHANGED <<queue, writeActive>>
      BY <1>4, <2>1, <2>3 DEF ShutdownUser
    <3> QED BY <1>0, <2>1, <3>1, LifeSame
  <2> QED BY <2>2, <2>3
<1> QED BY <1>1, <1>2, <1>3, <1>4 DEF Appends

LEMMA SweepLife ==
  ASSUME TypeOK, LifeInv, Sweep
  PROVE  LifeInv'
<1> DEFINE c == Cancelled(Head(sweep).id)
<1>1. /\ sweep # <<>> /\ UNCHANGED <<log, eventQueue, step, coalescing, cancelled, active, writeActive, begun>>
      /\ queue' = queue \/ queue' = Append(queue, c)
  BY DEF Sweep, historyVars, inputVars
<1>2. c \in QueueItem /\ c.kind = "cancelled"
  BY <1>1, HeadTailProperties, QueueItemCases, EventTypes DEF TypeOK, Cancelled, QueueItem
<1>3. Told' = Told
  BY <1>1, ToldSame DEF StartupCancelled
<1> HIDE DEF c
<1>4. Follows(c, Course) /\ OnAir(Append(Course, c), writeActive)
  <2>1. Follows(c, Course)
    BY <1>2 DEF Follows
  <2> QED BY <1>2, <2>1, ToldType, OnAirAppend DEF LifeInv
<1>5. CASE queue' = queue
  BY <1>1, <1>3, <1>5, LifeSame
<1>6. CASE queue' = Append(queue, c)
  BY <1>1, <1>2, <1>3, <1>4, <1>6, QueueGrows
<1> QED BY <1>1, <1>5, <1>6

\* The consuming loop.
LEMMA TakeStartedTold ==
  ASSUME TypeOK, StepInv, StartInv, LifeInv, TakeStarted
  PROVE  /\ ~step.isStart /\ step.events = <<>> /\ ~StartupCancelled' /\ Told' = Append(Told, Head(queue))
         /\ Stamp(Head(queue), StampNow) \in Stamped
         /\ step'.events = <<Stamp(Head(queue), StampNow)>>
         /\ cancelled = None /\ Head(queue).id \in Segments /\ Head(queue) \in QueueItem
<1>1. /\ pc = "running" /\ ~StartupCancelled /\ queue # <<>> /\ Head(queue).kind = "started"
      /\ UNCHANGED <<log, eventQueue, cancelled>> /\ coalescing' = Head(queue).id
  BY DEF TakeStarted, Consuming, historyVars
<1>2. /\ step'.isStart /\ step'.events = Append(step.events, Stamp(Head(queue), StampNow))
      /\ Stamp(Head(queue), StampNow) \in Stamped
  BY TakeStartedChanges
<1>3. Head(queue) \in QueueItem /\ Head(queue).id \in Segments /\ Follows(Head(queue), Told)
  BY <1>1, HeadFollows, QueueItemCases
<1>4. ~step.isStart
  <2> SUFFICES ASSUME step.isStart PROVE FALSE
    OBVIOUS
  <2>1. active = coalescing /\ coalescing # None
    BY <1>1 DEF StartInv, StepInv
  <2>2. active \in Segments /\ Has(Told, "started", active) /\ ~Has(Told, "ended", active)
    BY <2>1 DEF TypeOK, LifeInv, OnAir
  <2> QED BY <1>1, <1>3, <2>2 DEF Follows
<1>5. cancelled = None
  BY <1>4 DEF StartInv
<1>6. step.events = <<>>
  BY <1>1, <1>4 DEF StepInv
<1>7. ~StartupCancelled'
  BY <1>1, <1>3, <1>5, NameAssumption DEF StartupCancelled
<1> DEFINE st == Stamp(Head(queue), StampNow)
<1>8. StepFacts = Facts(step.events) /\ StepFacts' = Facts(Append(step.events, st))
  BY <1>1, <1>2, <1>7 DEF StepFacts, Facts
<1>9. Facts(Append(step.events, st)) = Append(Facts(step.events), st.event) /\ st.event = Head(queue)
  <2>1. st \in Stamped /\ st.event = Head(queue)
    BY <1>2 DEF Stamp
  <2> HIDE DEF st
  <2> QED BY <2>1, ToldType, FactsAppend
<1> DEFINE a == Facts(log) \o Facts(eventQueue)
<1>10. Told = a \o StepFacts /\ Told' = a \o StepFacts'
  BY <1>1 DEF Told, Facts
<1>11. a \in Seq(QueueItem) /\ StepFacts \in Seq(QueueItem)
  BY ToldType
<1> HIDE DEF a, st
<1>12. Told' = Append(Told, Head(queue))
  <2>1. StepFacts' = Append(StepFacts, Head(queue))
    BY <1>8, <1>9
  <2>2. a \o Append(StepFacts, Head(queue)) = Append(a \o StepFacts, Head(queue))
    BY ONLY <1>3, <1>11, AppendRight
  <2> QED BY ONLY <1>10, <2>1, <2>2
<1>13. step'.events = <<Stamp(Head(queue), StampNow)>>
  BY <1>2, <1>6
<1> QED BY <1>2, <1>3, <1>4, <1>5, <1>6, <1>7, <1>12, <1>13

LEMMA TakeEndedTold ==
  ASSUME TypeOK, TakeEnded
  PROVE  Told' = Append(Told, Head(queue)) /\ ~StartupCancelled'
<1>1. /\ ~StartupCancelled /\ queue # <<>>
      /\ UNCHANGED <<log, eventQueue, cancelled, coalescing>>
  BY DEF TakeEnded, Consuming, historyVars
<1>2. /\ step'.isStart = step.isStart /\ step'.events = Append(step.events, Stamp(Head(queue), StampNow))
      /\ Stamp(Head(queue), StampNow) \in Stamped
  BY TakeEndedChanges
<1>3. Head(queue) \in QueueItem
  BY <1>1, HeadTailProperties DEF TypeOK
<1>7. ~StartupCancelled'
  BY <1>1, <1>2 DEF StartupCancelled
<1> DEFINE st == Stamp(Head(queue), StampNow)
<1>8. StepFacts = Facts(step.events) /\ StepFacts' = Facts(Append(step.events, st))
  BY <1>1, <1>2, <1>7 DEF StepFacts, Facts
<1>9. Facts(Append(step.events, st)) = Append(Facts(step.events), st.event) /\ st.event = Head(queue)
  <2>1. st \in Stamped /\ st.event = Head(queue)
    BY <1>2 DEF Stamp
  <2> HIDE DEF st
  <2> QED BY <2>1, ToldType, FactsAppend
<1> DEFINE a == Facts(log) \o Facts(eventQueue)
<1>10. Told = a \o StepFacts /\ Told' = a \o StepFacts'
  BY <1>1 DEF Told, Facts
<1>11. a \in Seq(QueueItem) /\ StepFacts \in Seq(QueueItem)
  BY ToldType
<1> HIDE DEF a, st
<1>12. Told' = Append(Told, Head(queue))
  <2>1. StepFacts' = Append(StepFacts, Head(queue))
    BY <1>8, <1>9
  <2>2. a \o Append(StepFacts, Head(queue)) = Append(a \o StepFacts, Head(queue))
    BY ONLY <1>3, <1>11, AppendRight
  <2> QED BY ONLY <1>10, <2>1, <2>2
<1> QED BY <1>7, <1>12

LEMMA TakeNoticeTold ==
  ASSUME TypeOK, StepInv, TakeNotice
  PROVE  Told' = Append(Told, Head(queue)) /\ ~step.isStart /\ step.events = <<>>
<1>1. /\ pc = "running" /\ ~StartupCancelled /\ queue # <<>>
      /\ UNCHANGED <<log, step, cancelled, coalescing>>
  BY DEF TakeNotice, Consuming, historyVars
<1> DEFINE st == Stamp(Head(queue), StampNow)
<1>2. eventQueue' = Append(eventQueue, st) /\ st \in Stamped /\ st.event = Head(queue) /\ Notice(Head(queue))
  BY TakeNoticeChanges DEF Stamp
<1>3. HasNotice
  BY <1>1, <1>2, QueueParts DEF TypeOK, HasNotice
<1>4. ~step.isStart /\ step.events = <<>>
  BY <1>1, <1>3 DEF StepInv
<1>5. StepFacts = <<>> /\ StepFacts' = <<>>
  BY <1>1, <1>4, FactsEmpty DEF StepFacts, StartupCancelled
<1>6. st.event \in QueueItem
  BY <1>2 DEF Stamped, QueueItem
<1> DEFINE a == Facts(log)  b == Facts(eventQueue)
<1>7. a \in Seq(QueueItem) /\ b \in Seq(QueueItem) /\ a \o b \in Seq(QueueItem)
  BY ToldType
<1>8. Facts(Append(eventQueue, st)) = Append(b, st.event)
  <2> HIDE DEF st
  <2> QED BY <1>2, ToldType, FactsAppend
<1>9. Told = (a \o b) \o <<>> /\ Told' = (a \o Append(b, st.event)) \o <<>>
  <2>1. Facts(log') = Facts(log) /\ Facts(eventQueue') = Append(b, st.event)
    BY <1>1, <1>2, <1>8
  <2> QED BY <1>5, <2>1 DEF Told, Facts
<1> HIDE DEF a, b, st
<1>10. a \o Append(b, st.event) = Append(a \o b, st.event) /\ Append(a \o b, st.event) \in Seq(QueueItem)
  BY <1>6, <1>7, AppendRight, AppendProperties
<1>11. Told = a \o b /\ Told' = Append(a \o b, st.event)
  BY <1>7, <1>9, <1>10, ConcatEmptySeq
<1> QED BY <1>2, <1>4, <1>11

LEMMA TakeChunkTold ==
  ASSUME TypeOK, TakeChunk
  PROVE  Told' = Told
<1>1. UNCHANGED <<log, eventQueue, cancelled, coalescing>>
  BY DEF TakeChunk, historyVars
<1>2. step'.isStart = step.isStart /\ step'.events = step.events
  BY TakeChunkChanges
<1> QED BY <1>1, <1>2, ToldSame DEF StartupCancelled

LEMMA TakesLife ==
  ASSUME TypeOK, StepInv, StartInv, LifeInv, Takes
  PROVE  LifeInv'
<1> DEFINE h == Head(queue)
<1>0. queue # <<>> /\ queue' = Tail(queue) /\ UNCHANGED <<writeActive, begun>>
  BY TakesChange DEF Takes, TakeStarted, TakeEnded, TakeChunk, TakeNotice, inputVars
<1>1. /\ h \in QueueItem /\ Tail(queue) \in Seq(QueueItem) /\ Lawful(Told) /\ Follows(h, Told)
      /\ Course = Append(Told, h) \o Tail(queue) /\ Told \in Seq(QueueItem) /\ OnAir(Told, active)
      /\ queue \in Seq(QueueItem) /\ Course \in Seq(QueueItem)
      /\ Lawful(Course) /\ OnAir(Course, writeActive) /\ \A s \in Segments : Has(Course, "started", s) => s \in begun
  BY <1>0, HeadFollows, ToldType DEF LifeInv
<1>2. ASSUME Told' = Append(Told, h), OnAir(Append(Told, h), active') PROVE LifeInv'
  <2>1. Course' = Course
    BY <1>0, <1>1, <1>2 DEF Course
  <2>2. Lawful(Course') /\ OnAir(Told', active') /\ OnAir(Course', writeActive')
        /\ \A s \in Segments : Has(Course', "started", s) => s \in begun'
    BY <1>0, <1>1, <1>2, <2>1
  <2> QED BY <2>2 DEF LifeInv, Lawful, OnAir, Has, Before
<1>3. /\ h.kind = "started" => OnAir(Append(Told, h), h.id)
      /\ h.kind = "ended" => OnAir(Append(Told, h), None)
      /\ h.kind \notin {"started", "ended"} => OnAir(Append(Told, h), active)
  BY <1>1, OnAirAppend
<1>4. CASE TakeStarted
  <2>1. h.kind = "started" /\ active' = h.id
    BY <1>4 DEF TakeStarted
  <2> QED BY <1>2, <1>3, <1>4, <2>1, TakeStartedTold
<1>5. CASE TakeEnded
  <2>1. h.kind = "ended" /\ active' = None
    BY <1>5 DEF TakeEnded
  <2> QED BY <1>2, <1>3, <1>5, <2>1, TakeEndedTold
<1>6. CASE TakeNotice
  <2>1. h.kind \notin {"started", "ended"} /\ active' = active
    BY <1>6 DEF TakeNotice
  <2> QED BY <1>2, <1>3, <1>6, <2>1, TakeNoticeTold
<1>7. CASE TakeChunk
  <2>1. Told' = Told /\ h.kind = "audio" /\ active' = active
    BY <1>7, TakeChunkTold DEF TakeChunk
  <2> DEFINE i == Len(Told) + 1
  <2>2. Lacks(Tail(queue), queue, 1)
    BY <1>0, <1>1, LacksHead
  <2>3. Course' = Told \o Tail(queue) /\ Course = Told \o queue
    BY <1>0, <2>1 DEF Course
  <2>4. Lacks(Told \o Tail(queue), Told \o queue, i)
    BY <1>1, <2>2, LacksRight
  <2>5. Course[i] = h
    <3>1. 1 \in DOMAIN queue /\ queue[1] = h
      BY <1>0, <1>1, QueueParts
    <3> QED BY <1>1, <2>3, <3>1, JoinIndices
  <2>6. Told \o Tail(queue) \in Seq(QueueItem)
    BY <1>1, ConcatProperties
  <2> HIDE DEF i, h
  <2>7. Lawful(Told \o Tail(queue))
    BY <1>1, <2>1, <2>3, <2>4, <2>5, <2>6, LawfulLacks
  <2>8. \A kind, s : kind # "audio" =>
          (Has(Told \o Tail(queue), kind, s) <=> Has(Course, kind, s))
    <3> DEFINE e == Told \o queue  e2 == Told \o Tail(queue)
    <3>1. e \in Seq(QueueItem) /\ e2 \in Seq(QueueItem) /\ Lacks(e2, e, i) /\ e[i].kind = "audio"
      BY <1>1, <2>1, <2>3, <2>4, <2>5, <2>6
    <3> HIDE DEF e, e2
    <3>2. ASSUME NEW kind, NEW s, kind # "audio" PROVE Has(e2, kind, s) <=> Has(e, kind, s)
      BY ONLY <3>1, <3>2, LacksHas
    <3> QED BY <2>3, <3>2 DEF e, e2
  <2>9. OnAir(Told \o Tail(queue), writeActive)
    BY <1>1, <2>8 DEF OnAir
  <2>10. \A s \in Segments : Has(Told \o Tail(queue), "started", s) => s \in begun
    BY <1>1, <2>8
  <2>11. Lawful(Course') /\ OnAir(Told', active') /\ OnAir(Course', writeActive')
         /\ \A s \in Segments : Has(Course', "started", s) => s \in begun'
    BY <1>0, <1>1, <2>1, <2>3, <2>7, <2>9, <2>10
  <2> QED BY <2>11 DEF LifeInv, Lawful, OnAir, Has, Before
<1> QED BY <1>4, <1>5, <1>6, <1>7 DEF Takes

\* An interrupt takes back the start it cancels, and nothing else.
LEMMA ToldNoAudio ==
  ASSUME TypeOK
  PROVE  \A s : ~Has(Told, "audio", s)
<1>1. ASSUME NEW evs \in Seq(Stamped), NEW s PROVE ~Has(Facts(evs), "audio", s)
  BY FactsType DEF Has, SegmentEvent
<1>2. \A s : ~Has(StepFacts, "audio", s)
  BY <1>1, ToldType, FactsEmpty DEF StepFacts, Has
<1>3. \A s : ~Has(Facts(log), "audio", s) /\ ~Has(Facts(eventQueue), "audio", s)
  BY <1>1, ToldType
<1>4. \A s : ~Has(Facts(log) \o Facts(eventQueue), "audio", s)
  BY <1>3, ToldType, HasJoin
<1> QED BY <1>2, <1>4, ToldType, HasJoin DEF Told

LEMMA CancelledQueue ==
  ASSUME LifeInv, TypeOK, NEW t \in Seq(QueueItem), Told' = t, Lawful(t), OnAir(t, None),
         \A s : Has(t, "started", s) => Has(Told, "started", s),
         active' = None, writeActive' = None, UNCHANGED begun,
         NEW c \in QueueItem, c.kind = "cancelled", queue' = <<c>>
  PROVE  LifeInv'
<1>1. Course' = Append(t, c)
  BY AppendIsConcat DEF Course
<1>2. Follows(c, t) /\ Lawful(Append(t, c)) /\ OnAir(Append(t, c), None)
  <2>1. Follows(c, t)
    BY DEF Follows
  <2> QED BY <2>1, LawfulAppend, OnAirAppend
<1>3. \A s \in Segments : Has(Append(t, c), "started", s) => s \in begun
  BY HasAppend, HasJoin, ToldType DEF LifeInv, Course
<1>4. Lawful(Course') /\ OnAir(Told', active') /\ OnAir(Course', writeActive')
      /\ \A s \in Segments : Has(Course', "started", s) => s \in begun'
  BY <1>1, <1>2, <1>3
<1> QED BY <1>4 DEF LifeInv, Lawful, OnAir, Has, Before

LEMMA InterruptCoalescingTold ==
  ASSUME TypeOK, StepInv, StartInv, LifeInv, InterruptCoalescing, UNCHANGED <<log, step, coalescing>>, pc # "finishing"
  PROVE  LET t == Facts(log) \o Facts(eventQueue) IN
         /\ StartupCancelled' /\ Told' = t /\ t \in Seq(QueueItem) /\ Lawful(t) /\ OnAir(t, None)
         /\ \A s : Has(t, "started", s) => Has(Told, "started", s)
<1> DEFINE t == Facts(log) \o Facts(eventQueue)
<1>1. coalescing # None /\ cancelled' = coalescing /\ UNCHANGED eventQueue /\ step.isStart
  BY DEF InterruptCoalescing, StartInv
<1>2. StartupCancelled'
  BY <1>1 DEF StartupCancelled
<1>3. t \in Seq(QueueItem) /\ StepFacts \in Seq(QueueItem) /\ Told = t \o StepFacts /\ Told \in Seq(QueueItem)
  BY ToldType DEF Told
<1>4. Told' = t \o <<>>
  BY <1>1, <1>2 DEF Told, StepFacts, Facts
<1> HIDE DEF t
<1>5. Told' = t
  BY <1>3, <1>4, ConcatEmptySeq
<1>6. Lawful(t)
  BY <1>3, ToldLawful, LawfulPrefix
<1>7. \A s : Has(t, "started", s) => Has(Told, "started", s)
  BY <1>3, HasJoin
<1>8. CASE StartupCancelled
  <2>1. Told = t /\ active = None
    <3>1. StepFacts = <<>> /\ active = None
      BY <1>8 DEF StepFacts, StartInv
    <3> QED BY <1>3, <3>1, ConcatEmptySeq
  <2> QED BY <1>2, <1>3, <1>5, <1>6, <1>7, <2>1 DEF LifeInv, t
<1>9. CASE ~StartupCancelled
  <2> DEFINE f == step.events[1].event
  <2>1. Len(step.events) = 1 /\ f.kind = "started"
    BY <1>1, <1>9 DEF StartInv
  <2>2. StepFacts \in Seq(QueueItem) /\ Len(StepFacts) = 1 /\ StepFacts[1] = f /\ f \in QueueItem
    <3>1. step.events \in Seq(Stamped) /\ StepFacts = Facts(step.events)
      BY <1>9, ToldType DEF StepFacts
    <3>2. 1 \in DOMAIN step.events
      BY <2>1, <3>1, LenProperties
    <3> QED BY <1>3, <2>1, <3>1, <3>2, FactsType
  <2> HIDE DEF f
  <2>3. StepFacts = <<f>>
    BY <2>2
  <2>4. Told = Append(t, f)
    BY <1>3, <2>2, <2>3, AppendIsConcat
  <2>5. Follows(f, t)
    BY <1>3, <2>2, <2>4, ToldLawful, LawfulAppend
  <2>6. OnAir(t, None)
    BY <2>1, <2>5 DEF Follows, OnAir
  <2> QED BY <1>2, <1>3, <1>5, <1>6, <1>7, <2>6 DEF t
<1> QED BY <1>8, <1>9

LEMMA PendingStartTold ==
  ASSUME TypeOK, LifeInv, InterruptPendingStart, UNCHANGED <<log, step, coalescing, cancelled>>
  PROVE  /\ Told' \in Seq(QueueItem) /\ Lawful(Told') /\ OnAir(Told', None)
         /\ \A s : Has(Told', "started", s) => Has(Told, "started", s)
         /\ \E i \in DOMAIN eventQueue :
               /\ eventQueue[i].event.kind = "started" /\ eventQueue[i].event.id = active
               /\ Lacks(eventQueue', eventQueue, i) /\ eventQueue' \in Seq(Stamped)
<1> DEFINE i == CHOOSE i \in DOMAIN eventQueue : StartPendingAt(i)
<1>1. /\ i \in DOMAIN eventQueue /\ StartPendingAt(i) /\ active # None
      /\ eventQueue' = SubSeq(eventQueue, 1, i - 1) \o SubSeq(eventQueue, i + 1, Len(eventQueue))
  BY DEF InterruptPendingStart, StartPending
<1> HIDE DEF i
<1>2. eventQueue[i].event.kind = "started" /\ eventQueue[i].event.id = active
  BY <1>1 DEF StartPendingAt, Started
<1>3. i \in 1..Len(eventQueue) /\ eventQueue \in Seq(Stamped) /\ log \in Seq(Stamped)
  BY <1>1, ToldType, LenProperties
<1>4. eventQueue' \in Seq(Stamped) /\ Lacks(eventQueue', eventQueue, i)
  BY <1>1, <1>3, LacksCut
<1> DEFINE a == Facts(log)  b == Facts(eventQueue)  b2 == Facts(eventQueue')  c == StepFacts  n == Len(a) + i
<1>5. a \in Seq(QueueItem) /\ b \in Seq(QueueItem) /\ b2 \in Seq(QueueItem) /\ c \in Seq(QueueItem)
  BY <1>4, ToldType, FactsType
<1>6. Told = (a \o b) \o c /\ Told' = (a \o b2) \o c
  <2>1. StepFacts' = StepFacts
    BY DEF StepFacts, StartupCancelled, Facts
  <2> QED BY <2>1 DEF Told, Facts
<1>7. Lacks(b2, b, i)
  BY <1>3, <1>4, FactsLack
<1>8. i \in DOMAIN b /\ b[i] = eventQueue[i].event
  BY <1>1, <1>3, FactsType
<1> HIDE DEF a, b, b2, c, n
<1>9. a \o b \in Seq(QueueItem) /\ a \o b2 \in Seq(QueueItem)
  BY <1>5, ConcatProperties
<1>10. Lacks(a \o b2, a \o b, n)
  BY <1>5, <1>7, LacksRight DEF n
<1>11. Lacks((a \o b2) \o c, (a \o b) \o c, n)
  BY <1>5, <1>9, <1>10, LacksLeft
<1>12. (a \o b)[n] = b[i] /\ n \in DOMAIN (a \o b)
  BY <1>5, <1>8, JoinIndices DEF n
<1>13. Told[n] = b[i] /\ n \in DOMAIN Told
  BY <1>5, <1>6, <1>9, <1>12, JoinIndices
<1>14. Told \in Seq(QueueItem) /\ Told' \in Seq(QueueItem) /\ Lacks(Told', Told, n)
  BY <1>5, <1>6, <1>9, <1>11, ConcatProperties
<1>15. Lawful(Told) /\ OnAir(Told, active) /\ active \in Segments
  BY <1>1, ToldLawful DEF LifeInv, TypeOK
<1>16. Told[n].kind = "started" /\ Told[n].id = active
  BY <1>2, <1>8, <1>13
<1>17. \A j \in DOMAIN Told : Told[j].id = active => Told[j].kind \notin {"ended", "audio"}
  BY <1>1, <1>15, ToldNoAudio DEF OnAir, Has
<1> DEFINE u == Told  u2 == Told'
<1>18. /\ u \in Seq(QueueItem) /\ u2 \in Seq(QueueItem) /\ Lacks(u2, u, n) /\ Lawful(u) /\ OnAir(u, active)
       /\ u[n].kind = "started" /\ u[n].id = active /\ n \in DOMAIN u
       /\ \A j \in DOMAIN u : u[j].id = active => u[j].kind \notin {"ended", "audio"}
  BY <1>13, <1>14, <1>15, <1>16, <1>17
<1> HIDE DEF u, u2
<1>19. Lawful(u2)
  BY ONLY <1>18, LawfulLacks
<1>20. \A kind, s : /\ Has(u2, kind, s) => Has(u, kind, s)
                    /\ Has(u, kind, s) => Has(u2, kind, s) \/ (u[n].kind = kind /\ u[n].id = s)
  BY ONLY <1>18, LacksHas
<1>21. ~Has(u2, "started", active)
  <2> SUFFICES ASSUME Has(u2, "started", active) PROVE FALSE
    OBVIOUS
  <2>1. PICK k \in DOMAIN u2 : u2[k].kind = "started" /\ u2[k].id = active
    BY DEF Has
  <2>2. Len(u) \in Nat /\ DOMAIN u2 = 1..(Len(u) - 1) /\ DOMAIN u = 1..Len(u) /\ n \in 1..Len(u)
        /\ \A m \in 1..(Len(u) - 1) : u2[m] = u[Skip(m, n)]
    BY <1>18, LenProperties DEF Lacks
  <2>3. Skip(k, n) \in DOMAIN u /\ Skip(k, n) # n /\ u2[k] = u[Skip(k, n)]
    BY <2>1, <2>2, Skipping
  <2> QED BY ONLY <1>18, <2>1, <2>3 DEF Lawful
<1>22. OnAir(u2, None)
  BY ONLY <1>18, <1>20, <1>21 DEF OnAir
<1>23. \A s : Has(u2, "started", s) => Has(u, "started", s)
  BY ONLY <1>20
<1> QED BY <1>1, <1>2, <1>4, <1>18, <1>19, <1>22, <1>23 DEF u, u2

LEMMA InterruptLife ==
  ASSUME TypeOK, StepInv, StartInv, LifeInv, Interrupt, Listening
  PROVE  LifeInv'
<1>1. /\ UNCHANGED <<log, step, coalescing, begun>> /\ writeActive' = None /\ pc # "finishing"
  BY DEF Interrupt, historyVars, Listening
<1>2. Told \in Seq(QueueItem) /\ Lawful(Told) /\ OnAir(Told, active)
      /\ \A s \in Segments : Has(Told, "started", s) => s \in begun
  <2>1. \A s : Has(Told, "started", s) => Has(Course, "started", s)
    BY ToldType, HasJoin DEF Course
  <2> QED BY <2>1, ToldType, ToldLawful DEF LifeInv
<1>3. CASE InterruptCoalescing
  <2>1. active' = None /\ coalescing \in Segments /\ queue' = <<Cancelled(coalescing)>>
    BY <1>3 DEF InterruptCoalescing, TypeOK
  <2>2. Cancelled(coalescing) \in QueueItem /\ Cancelled(coalescing).kind = "cancelled"
    BY <2>1, EventTypes DEF QueueItem, Cancelled
  <2> DEFINE t == Facts(log) \o Facts(eventQueue)
  <2>3. /\ Told' = t /\ t \in Seq(QueueItem) /\ Lawful(t) /\ OnAir(t, None)
        /\ \A s : Has(t, "started", s) => Has(Told, "started", s)
    BY <1>1, <1>3, InterruptCoalescingTold
  <2> HIDE DEF t
  <2> QED BY <1>1, <2>1, <2>2, <2>3, CancelledQueue
<1>4. CASE InterruptPendingStart
  <2>1. active' = None /\ active \in Segments /\ queue' = <<Cancelled(active)>> /\ UNCHANGED cancelled
    BY <1>4 DEF InterruptPendingStart, StartPending, TypeOK
  <2>2. Cancelled(active) \in QueueItem /\ Cancelled(active).kind = "cancelled"
    BY <2>1, EventTypes DEF QueueItem, Cancelled
  <2> DEFINE t == Told'
  <2>3. /\ Told' = t /\ t \in Seq(QueueItem) /\ Lawful(t) /\ OnAir(t, None)
        /\ \A s : Has(t, "started", s) => Has(Told, "started", s)
    BY <1>1, <1>4, <2>1, PendingStartTold
  <2> HIDE DEF t
  <2> QED BY <1>1, <2>1, <2>2, <2>3, CancelledQueue
<1>5. ASSUME InterruptPlaying \/ InterruptSilent PROVE Told' = Told /\ UNCHANGED active
  <2>1. UNCHANGED <<eventQueue, cancelled, active>>
    BY <1>5 DEF InterruptPlaying, InterruptSilent
  <2> QED BY <1>1, <2>1, ToldSame DEF StartupCancelled
<1>6. CASE InterruptSilent
  <2>1. active = None /\ queue' = <<>>
    BY <1>6 DEF InterruptSilent
  <2>2. Course' = Told
    BY <1>2, <1>5, <1>6, <2>1, ConcatEmptySeq DEF Course
  <2>3. Lawful(Course') /\ OnAir(Told', active') /\ OnAir(Course', writeActive')
        /\ \A s \in Segments : Has(Course', "started", s) => s \in begun'
    BY <1>1, <1>2, <1>5, <1>6, <2>1, <2>2
  <2> QED BY <2>3 DEF LifeInv, Lawful, OnAir, Has, Before
<1>7. CASE InterruptPlaying
  <2> DEFINE e == Ended(active)
             d == nextPresent + Len(KeptBuffer) - activeStart
             i == Interrupted(active, d)
  <2>1. active # None /\ active \in Segments /\ queue' = <<e, i>>
    BY <1>7 DEF InterruptPlaying, TypeOK
  <2>2. e \in QueueItem /\ i \in QueueItem /\ e.kind = "ended" /\ e.id = active
        /\ i.kind = "interrupted" /\ i.id = active
    <3>1. d \in Int
      BY KeptBufferType DEF TypeOK
    <3> HIDE DEF d
    <3> QED BY <2>1, <3>1, EventTypes DEF QueueItem, Ended, Interrupted
  <2> HIDE DEF e, i, d
  <2>3. Follows(e, Told)
    BY <1>2, <2>1, <2>2 DEF Follows, OnAir
  <2> DEFINE m == Append(Told, e)
  <2>4. m \in Seq(QueueItem) /\ Lawful(m) /\ OnAir(m, None) /\ Has(m, "ended", active)
        /\ \A s : Has(m, "started", s) => Has(Told, "started", s)
    <3>1. m \in Seq(QueueItem)
      BY <1>2, <2>2, AppendProperties
    <3>2. Lawful(m)
      BY <1>2, <2>2, <2>3, LawfulAppend
    <3>3. OnAir(m, None)
      BY <1>2, <2>2, <2>3, OnAirAppend
    <3>4. \A kind, s : Has(m, kind, s) <=> Has(Told, kind, s) \/ (e.kind = kind /\ e.id = s)
      BY <1>2, <2>2, HasAppend
    <3> QED BY <2>2, <3>1, <3>2, <3>3, <3>4
  <2> HIDE DEF m
  <2>5. Follows(i, m)
    BY <2>2, <2>4 DEF Follows
  <2>6. Lawful(Append(m, i)) /\ OnAir(Append(m, i), None)
        /\ \A s : Has(Append(m, i), "started", s) => Has(m, "started", s)
    BY <2>2, <2>4, <2>5, LawfulAppend, OnAirAppend, HasAppend
  <2>7. Told \o <<e, i>> = Append(m, i)
    <3>1. <<e>> \in Seq(QueueItem) /\ Append(<<e>>, i) = <<e, i>>
      <4>1. <<e>> \in Seq(QueueItem)
        BY <2>2
      <4> DEFINE o == <<e>>  p == Append(o, i)  r == <<e, i>>
      <4>2. o \in Seq(QueueItem) /\ Len(o) = 1 /\ o[1] = e /\ i \in QueueItem
        BY <2>2, <4>1
      <4>3. r \in Seq(QueueItem) /\ Len(r) = 2 /\ r[1] = e /\ r[2] = i
        BY <2>2
      <4> HIDE DEF o, p, r
      <4>4. /\ p \in Seq(QueueItem) /\ Len(p) = Len(o) + 1
            /\ \A k \in 1..Len(o) : p[k] = o[k]
            /\ p[Len(o) + 1] = i
        <5>1. o \in Seq(QueueItem) /\ i \in QueueItem
          BY <4>2
        <5>2. /\ Append(o, i) \in Seq(QueueItem) /\ Len(Append(o, i)) = Len(o) + 1
              /\ \A k \in 1..Len(o) : Append(o, i)[k] = o[k]
              /\ Append(o, i)[Len(o) + 1] = i
          BY ONLY <5>1, AppendProperties
        <5> QED BY <5>2 DEF p
      <4>5. Len(p) = 2 /\ p[1] = e /\ p[2] = i
        BY ONLY <4>2, <4>4
      <4>6. \A k \in 1..Len(p) : p[k] = r[k]
        BY ONLY <4>3, <4>5
      <4>7. p = r
        BY ONLY <4>3, <4>4, <4>5, <4>6, SeqEqual
      <4> QED BY <4>1, <4>7 DEF o, p, r
    <3>2. Told \o Append(<<e>>, i) = Append(Told \o <<e>>, i)
      BY <1>2, <2>2, <3>1, AppendRight
    <3>3. Told \o <<e>> = m
      BY <1>2, <2>2, AppendIsConcat DEF m
    <3> QED BY <3>1, <3>2, <3>3
  <2>8. Course' = Append(m, i)
    BY <1>5, <1>7, <2>1, <2>7 DEF Course
  <2>9. Lawful(Course') /\ OnAir(Told', active') /\ OnAir(Course', writeActive')
        /\ \A s \in Segments : Has(Course', "started", s) => s \in begun'
    BY <1>1, <1>2, <1>5, <1>7, <2>4, <2>6, <2>8
  <2> QED BY <2>9 DEF LifeInv, Lawful, OnAir, Has, Before
<1> QED BY <1>3, <1>4, <1>6, <1>7 DEF Interrupt

LEMMA Associative == \A s, t, u \in Seq(QueueItem) : (s \o t) \o u = s \o (t \o u)
BY ONLY ConcatAssociative

LEMMA CutJoin ==
  ASSUME NEW q \in Seq(Stamped), NEW d \in 0..Len(q)
  PROVE  /\ SubSeq(q, 1, d) \in Seq(Stamped) /\ SubSeq(q, d + 1, Len(q)) \in Seq(Stamped)
         /\ SubSeq(q, 1, d) \o SubSeq(q, d + 1, Len(q)) = q
<1> DEFINE n == Len(q)  a == SubSeq(q, 1, d)  b == SubSeq(q, d + 1, Len(q))
<1>1. n \in Nat /\ d \in Nat /\ d <= n /\ \A k \in 1..n : q[k] \in Stamped
  BY StampsAreInt
<1>2. a \in Seq(Stamped) /\ Len(a) = d /\ \A k \in 1..d : a[k] = q[k]
  BY <1>1, SubSeqProperties
<1>3. b \in Seq(Stamped) /\ Len(b) = n - d /\ \A k \in 1..(n - d) : b[k] = q[d + k]
  <2>1. d \in Nat /\ d <= Len(q)
    BY <1>1
  <2> QED BY <2>1, RestProperties, Zenon
<1> HIDE DEF a, b, n
<1>4. /\ a \o b \in Seq(Stamped) /\ Len(a \o b) = Len(a) + Len(b)
      /\ \A k \in 1..(Len(a) + Len(b)) : (a \o b)[k] = IF k <= Len(a) THEN a[k] ELSE b[k - Len(a)]
  BY <1>2, <1>3, ConcatProperties
<1>5. ASSUME NEW k \in 1..n PROVE (a \o b)[k] = q[k]
  <2>0. k \in 1..(Len(a) + Len(b))
    BY ONLY <1>1, <1>2, <1>3, <1>5
  <2>1. CASE k <= d
    <3>1. k \in 1..d
      BY ONLY <1>1, <1>5, <2>1
    <3> QED BY ONLY <1>2, <1>4, <2>0, <2>1, <3>1
  <2>2. CASE ~(k <= d)
    <3>1. k - d \in 1..(n - d) /\ d + (k - d) = k
      BY ONLY <1>1, <1>5, <2>2
    <3> QED BY ONLY <1>2, <1>3, <1>4, <2>0, <2>2, <3>1
  <2> QED BY <2>1, <2>2
<1>6. Len(a \o b) = n
  BY ONLY <1>1, <1>2, <1>3, <1>4
<1>7. a \o b = q
  <2>1. Len(a \o b) = Len(q) /\ \A k \in 1..Len(a \o b) : (a \o b)[k] = q[k]
    BY <1>5, <1>6 DEF n
  <2> QED BY <1>4, <2>1, SeqEqual
<1> QED BY <1>2, <1>3, <1>7 DEF a, b

\* What a finishing step reports and keeps is what was queued and what it stamped.
LEMMA FinishParts ==
  ASSUME TypeOK, Finish
  PROVE  LET queued == eventQueue \o FinishedEvents
             due == DueCount(queued, nextPresent + Present)
             out == SubSeq(queued, 1, due) IN
         /\ FinishedEvents \in Seq(Stamped) /\ queued \in Seq(Stamped) /\ due \in 0..Len(queued)
         /\ out \in Seq(Stamped) /\ eventQueue' \in Seq(Stamped)
         /\ log' = log \o out /\ eventQueue' = SubSeq(queued, due + 1, Len(queued))
         /\ out \o eventQueue' = queued
         /\ Facts(FinishedEvents) = StepFacts
         /\ step' = IdleStep /\ step'.events = <<>> /\ ~step'.isStart
<1> DEFINE queued == eventQueue \o FinishedEvents
           due == DueCount(queued, nextPresent + Present)
           out == SubSeq(queued, 1, due)
<1>1. step.events \in Seq(Stamped) /\ eventQueue \in Seq(Stamped) /\ log \in Seq(Stamped)
  BY ToldType
<1>2. FinishedEvents \in Seq(Stamped) /\ Facts(FinishedEvents) = StepFacts
  <2>1. CASE StartupCancelled
    BY <2>1, FactsEmpty DEF FinishedEvents, StepFacts
  <2>2. CASE ~StartupCancelled
    <3> DEFINE d == IF PadsLeft THEN MissingUnits ELSE 0
    <3>1. d \in Nat
      BY MissingUnitsType
    <3>2. FinishedEvents = ShiftedBy(step.events, d) /\ StepFacts = Facts(step.events)
      BY <2>2 DEF FinishedEvents, StepFacts
    <3> HIDE DEF d
    <3>3. ShiftedBy(step.events, d) \in Seq(Stamped)
      <4>1. d \in Int
        BY <3>1
      <4> QED BY ONLY <1>1, <4>1, ShiftedByType
    <3>4. Facts(ShiftedBy(step.events, d)) = Facts(step.events)
      BY ONLY <1>1, <3>1, FactsShifted
    <3> QED BY ONLY <3>2, <3>3, <3>4
  <2> QED BY <2>1, <2>2
<1>3. queued \in Seq(Stamped)
  BY <1>1, <1>2, ConcatProperties
<1>4. due \in 0..Len(queued)
  <2>1. nextPresent + Present \in Int
    BY DurationAssumption DEF TypeOK
  <2> HIDE DEF queued
  <2> QED BY <1>3, <2>1, DueIsDue
<1>5. log' = log \o out /\ eventQueue' = SubSeq(queued, due + 1, Len(queued)) /\ step' = IdleStep
  BY DEF Finish
<1>6. step'.events = <<>> /\ ~step'.isStart
  BY <1>5 DEF IdleStep
<1> HIDE DEF due, queued
<1>7. out \in Seq(Stamped) /\ eventQueue' \in Seq(Stamped) /\ out \o eventQueue' = queued
  BY <1>3, <1>4, <1>5, CutJoin
<1> QED BY <1>2, <1>3, <1>4, <1>5, <1>6, <1>7 DEF due, queued

LEMMA FinishTold ==
  ASSUME TypeOK, Finish
  PROVE  Told' = Told /\ ~StartupCancelled'
<1> DEFINE out == SubSeq(eventQueue \o FinishedEvents, 1, DueCount(eventQueue \o FinishedEvents, nextPresent + Present))
<1>1. /\ FinishedEvents \in Seq(Stamped) /\ out \in Seq(Stamped) /\ eventQueue' \in Seq(Stamped)
      /\ log' = log \o out /\ out \o eventQueue' = eventQueue \o FinishedEvents
      /\ Facts(FinishedEvents) = StepFacts /\ step'.events = <<>> /\ ~step'.isStart
      /\ log \in Seq(Stamped) /\ eventQueue \in Seq(Stamped)
  BY FinishParts, ToldType
<1> HIDE DEF out
<1> DEFINE a == Facts(log)  b == Facts(eventQueue)  c == StepFacts  o == Facts(out)  r == Facts(eventQueue')
<1>2. /\ a \in Seq(QueueItem) /\ b \in Seq(QueueItem) /\ c \in Seq(QueueItem)
      /\ o \in Seq(QueueItem) /\ r \in Seq(QueueItem)
  BY <1>1, ToldType, FactsType
<1>3. o \o r = b \o c
  <2>1. Facts(out \o eventQueue') = o \o r
    BY <1>1, FactsJoin
  <2>2. Facts(eventQueue \o FinishedEvents) = b \o c
    BY <1>1, FactsJoin
  <2> QED BY <1>1, <2>1, <2>2
<1>4. Facts(log') = a \o o
  BY <1>1, FactsJoin
<1>5. ~StartupCancelled' /\ StepFacts' = <<>>
  <2>1. ~StartupCancelled'
    BY <1>1 DEF StartupCancelled
  <2>2. StepFacts' = Facts(step'.events)
    BY <2>1 DEF StepFacts, Facts
  <2> QED BY <1>1, <2>1, <2>2, FactsEmpty
<1>6. Told' = ((a \o o) \o r) \o <<>> /\ Told = (a \o b) \o c
  BY <1>4, <1>5 DEF Told, Facts
<1> HIDE DEF a, b, c, o, r
<1>7. (a \o o) \o r \in Seq(QueueItem) /\ (a \o o) \o r = a \o (o \o r) /\ (a \o b) \o c = a \o (b \o c)
  <2>1. a \o o \in Seq(QueueItem)
    BY <1>2, ConcatProperties
  <2>2. (a \o o) \o r \in Seq(QueueItem)
    BY ONLY <1>2, <2>1, ConcatProperties
  <2>3. (a \o o) \o r = a \o (o \o r)
    BY ONLY <1>2, Associative
  <2>4. (a \o b) \o c = a \o (b \o c)
    BY ONLY <1>2, Associative
  <2> QED BY ONLY <2>2, <2>3, <2>4
<1> QED BY <1>3, <1>5, <1>6, <1>7, ConcatEmptySeq

LEMMA BeginTold ==
  ASSUME TypeOK, StepInv, BeginStep
  PROVE  /\ Told' = Told /\ step'.events = <<>> /\ step.events = <<>> /\ ~step'.isStart /\ ~step.isStart
         /\ step'.bufs = <<>>
<1>1. step' = [IdleStep EXCEPT !.toConsume = AtLeastZero(Present + Future - Len(buffer))]
      /\ pc = "idle" /\ UNCHANGED <<log, eventQueue>>
  BY DEF BeginStep, historyVars
<1>2. step'.events = <<>> /\ ~step'.isStart /\ step'.bufs = <<>>
  BY <1>1 DEF IdleStep
<1>3. step.events = <<>> /\ ~step.isStart
  BY <1>1 DEF StepInv
<1> QED BY <1>1, <1>2, <1>3, ToldSame DEF StartupCancelled

LEMMA MovesTold ==
  ASSUME Moves
  PROVE  Told' = Told /\ UNCHANGED <<log, writeActive, begun, stopping, timeline, activeStart>>
<1>1. UNCHANGED <<log, writeActive, begun, stopping, timeline, activeStart>>
  BY DEF Moves, StopConsuming, AwaitStartupAudio, StartupAudioArrives, StartupTimesOut, AwaitArrival,
         ArrivalWakes, ArrivalCrashes, GoTo, inputVars, historyVars
<1> QED BY <1>1, MovesChange, ToldSame DEF StartupCancelled

LEMMA LifeStep ==
  ASSUME TypeOK, StampsInv, StartInv, LifeInv, [Next]_vars
  PROVE  LifeInv'
<1>0. QueueInv /\ StepInv
  BY DEF StampsInv
<1>1. CASE Appends
  BY <1>0, <1>1, AppendsLife
<1>2. CASE Interrupt /\ Listening
  BY <1>0, <1>2, InterruptLife
<1>3. CASE Sweep
  BY <1>3, SweepLife
<1>4. CASE BeginStep
  <2>1. UNCHANGED <<queue, active, writeActive, begun>>
    BY <1>4 DEF BeginStep, inputVars
  <2> QED BY <1>0, <1>4, <2>1, BeginTold, LifeSame
<1>5. CASE Takes
  BY <1>0, <1>5, TakesLife
<1>6. CASE Moves
  BY <1>6, MovesChange, MovesTold, LifeSame
<1>7. CASE Finish
  <2>1. UNCHANGED <<queue, active, writeActive, begun>>
    BY <1>7 DEF Finish, inputVars
  <2> QED BY <1>7, <2>1, FinishTold, LifeSame
<1>8. CASE UNCHANGED vars
  <2>1. UNCHANGED <<queue, active, writeActive, begun, log, eventQueue, step, coalescing, cancelled>>
    BY <1>8 DEF vars, inputVars, historyVars
  <2>2. Told' = Told
    BY <2>1, ToldSame DEF StartupCancelled
  <2> QED BY <2>1, <2>2, LifeSame
<1> QED BY <1>1, <1>2, <1>3, <1>4, <1>5, <1>6, <1>7, <1>8, StepCases

\* A step that starts a segment stamps its start after what is buffered, and ends with an
\* interrupt or with the segment on air.
LEMMA StartStep ==
  ASSUME TypeOK, QueueInv, StepInv, LifeInv, StartInv, [Next]_vars
  PROVE  StartInv'
<1>1. CASE Appends
  <2>1. UNCHANGED <<step, coalescing, cancelled, active, pc, buffer, nextPresent>>
    BY <1>1, AppendsQueue DEF stampVars
  <2>2. ~stopping' \/ writeActive' = None
    BY <1>1 DEF Appends, StartSegment, EndSegment, AppendChunk, ShutdownUser, Listening
  <2> QED BY <2>1, <2>2 DEF StartInv, StartupCancelled
<1>2. CASE Interrupt /\ Listening
  <2>1. UNCHANGED <<step, coalescing, pc, nextPresent>> /\ writeActive' = None
    BY <1>2 DEF Interrupt
  <2>2. coalescing # None => cancelled' = coalescing /\ active' = None
    BY <1>2 DEF Interrupt, InterruptCoalescing, InterruptPendingStart, InterruptPlaying, InterruptSilent
  <2>3. coalescing = None => cancelled' = cancelled
    BY <1>2 DEF Interrupt, InterruptCoalescing, InterruptPendingStart, InterruptPlaying, InterruptSilent
  <2>4. step.isStart => coalescing # None
    BY DEF StepInv
  <2> QED BY <2>1, <2>2, <2>3, <2>4 DEF StartInv, StartupCancelled
<1>3. CASE Sweep
  <2>1. UNCHANGED <<step, coalescing, cancelled, active, pc, buffer, nextPresent, stopping, writeActive>>
    BY <1>3 DEF Sweep
  <2> QED BY <2>1 DEF StartInv, StartupCancelled
<1>4. CASE BeginStep
  <2>1. UNCHANGED <<coalescing, cancelled, active, stopping, writeActive>>
    BY <1>4 DEF BeginStep
  <2>2. ~step.isStart /\ ~step'.isStart
    BY <1>4, BeginTold
  <2> QED BY <2>1, <2>2 DEF StartInv, StartupCancelled
<1>5. CASE TakeStarted
  <2> DEFINE h == Head(queue)
  <2>1. /\ step'.events = <<Stamp(h, StampNow)>> /\ cancelled = None /\ h.id \in Segments
        /\ ~StartupCancelled'
    BY <1>5, TakeStartedTold
  <2>2. /\ h.kind = "started" /\ active' = h.id /\ coalescing' = h.id /\ step'.isStart
        /\ UNCHANGED <<cancelled, stopping, writeActive, buffer, nextPresent>>
    BY <1>5, TakeStartedChanges DEF TakeStarted
  <2>3. StampNow = nextPresent + Len(buffer) + step.consumed /\ nextPresent + Len(buffer) <= StampNow
    BY NumbersType
  <2>4. Len(step'.events) = 1 /\ step'.events[1].event = h /\ step'.events[1].at = StampNow
    BY <2>1 DEF Stamp
  <2> HIDE DEF h
  <2> QED BY <2>1, <2>2, <2>3, <2>4 DEF StartInv
<1>6. CASE TakeEnded
  <2>1. /\ active' = None /\ pc' = "finishing" /\ step'.isStart = step.isStart
        /\ UNCHANGED <<coalescing, cancelled, stopping, writeActive>>
    BY <1>6, TakeEndedChanges DEF TakeEnded
  <2>2. ~StartupCancelled'
    BY <1>6, TakeEndedTold
  <2> QED BY <2>1, <2>2 DEF StartInv
<1>7. CASE TakeChunk
  <2>1. /\ step'.isStart = step.isStart /\ step'.events = step.events
        /\ UNCHANGED <<coalescing, cancelled, active, pc, buffer, nextPresent, stopping, writeActive>>
    BY <1>7, TakeChunkChanges DEF TakeChunk
  <2> QED BY <2>1 DEF StartInv, StartupCancelled
<1>8. CASE TakeNotice
  <2>1. UNCHANGED <<step, coalescing, cancelled, active, pc, buffer, nextPresent, stopping, writeActive>>
    BY <1>8 DEF TakeNotice
  <2> QED BY <2>1 DEF StartInv, StartupCancelled
<1>9. CASE Moves
  <2>1. /\ UNCHANGED <<step, coalescing, cancelled, active, buffer, nextPresent, stopping, writeActive>>
        /\ pc # "finishing"
    BY <1>9, MovesChange, MovesTold
  <2> QED BY <2>1 DEF StartInv, StartupCancelled
<1>10. CASE Finish
  <2>1. /\ ~step'.isStart /\ UNCHANGED <<active, stopping, writeActive>> /\ ~StartupCancelled'
        /\ coalescing' = IF step.isStart THEN None ELSE coalescing
        /\ cancelled' = IF step.isStart THEN None ELSE cancelled
    BY <1>10, FinishTold, FinishParts DEF Finish
  <2> QED BY <2>1 DEF StartInv
<1>11. CASE UNCHANGED vars
  <2>1. UNCHANGED <<step, coalescing, cancelled, active, pc, buffer, nextPresent, stopping, writeActive>>
    BY <1>11 DEF vars
  <2> QED BY <2>1 DEF StartInv, StartupCancelled
<1> QED BY <1>1, <1>2, <1>3, <1>4, <1>5, <1>6, <1>7, <1>8, <1>9, <1>10, <1>11, StepCases DEF Takes


(***************************************************************************)
(* The published events implement the life SegmentPlayback promises.       *)
(***************************************************************************)

CourseInv == SchedulerInv /\ StartInv /\ LifeInv

LEMMA CourseInit == Init => CourseInv
<1> SUFFICES ASSUME Init PROVE CourseInv
  OBVIOUS
<1>1. TypeOK /\ StampsInv
  BY InitTypeOK, StampsInit
<1>2. PresentInv /\ PaddingInv
  BY EmptySeq DEF Init, PresentInv, PresentNeverShort, AudioSuffices, InStep, PaddingInv
<1>3. ~step.isStart /\ step.events = <<>> /\ log = <<>> /\ eventQueue = <<>> /\ queue = <<>>
      /\ active = None /\ writeActive = None /\ coalescing = None /\ cancelled = None /\ ~stopping
  BY DEF Init, IdleStep
<1>4. StartInv
  BY <1>3 DEF StartInv, StartupCancelled
<1>5. Told = <<>> /\ Course = <<>>
  <2>1. StepFacts = <<>> /\ Facts(log) = <<>> /\ Facts(eventQueue) = <<>>
    BY <1>3, FactsEmpty DEF StepFacts
  <2>2. <<>> \o <<>> = <<>>
    BY FactsEmpty, ConcatEmptySeq
  <2> QED BY <1>3, <2>1, <2>2 DEF Told, Course
<1>6. \A kind, s : ~Has(<<>>, kind, s)
  BY DEF Has
<1>7. Lawful(<<>>) /\ OnAir(<<>>, None)
  BY <1>6 DEF Lawful, OnAir
<1> QED BY <1>1, <1>2, <1>3, <1>4, <1>5, <1>6, <1>7 DEF CourseInv, SchedulerInv, LifeInv

LEMMA CourseStep == CourseInv /\ [Next]_vars => CourseInv'
<1> SUFFICES ASSUME CourseInv, [Next]_vars PROVE CourseInv'
  OBVIOUS
<1>1. TypeOK' /\ PresentInv' /\ PaddingInv'
  BY NextTypeOK, NextPresentInv, NextPaddingInv DEF CourseInv, SchedulerInv
<1>2. StampsInv'
  BY QueueStep, StepStep, QueuedStep, NewStep DEF CourseInv, SchedulerInv, StampsInv
<1>3. StartInv' /\ LifeInv'
  BY StartStep, LifeStep DEF CourseInv, SchedulerInv, StampsInv
<1> QED BY <1>1, <1>2, <1>3 DEF CourseInv, SchedulerInv

\* The log is only ever extended.
LEMMA LogGrows ==
  ASSUME TypeOK, [Next]_vars
  PROVE  \/ log' = log
         \/ \E out \in Seq(Stamped) : log' = log \o out
<1>1. CASE Finish
  BY <1>1, FinishParts
<1>2. CASE ~Finish
  BY <1>2 DEF Next, Listen, Step, StartSegment, AppendChunk, EndSegment, Discard, ShutdownAvatar,
         ShutdownUser, Sweep, Interrupt, BeginStep, TakeStarted, TakeEnded, TakeChunk, TakeNotice,
         StopConsuming, AwaitStartupAudio, StartupAudioArrives, StartupTimesOut, AwaitArrival,
         ArrivalWakes, ArrivalCrashes, GoTo, Terminated, vars, inputVars, historyVars
<1> QED BY <1>1, <1>2

LEMMA LogKept ==
  ASSUME TypeOK, [Next]_vars, TypeOK'
  PROVE  Len(log) \in Nat /\ Len(log') \in Nat /\ Len(log) <= Len(log')
         /\ \A i \in 1..Len(log) : log'[i] = log[i]
<1>1. log \in Seq(Stamped) /\ log' \in Seq(Stamped)
  BY DEF TypeOK
<1>2. Len(log) \in Nat /\ Len(log') \in Nat
  BY <1>1, LenProperties
<1>3. CASE log' = log
  BY <1>2, <1>3
<1>4. CASE \E out \in Seq(Stamped) : log' = log \o out
  <2>1. PICK out \in Seq(Stamped) : log' = log \o out
    BY <1>4
  <2>2. Len(out) \in Nat /\ Len(log \o out) = Len(log) + Len(out)
        /\ \A i \in 1..(Len(log) + Len(out)) : (log \o out)[i] = IF i <= Len(log) THEN log[i] ELSE out[i - Len(log)]
    BY <1>1, LenProperties, ConcatProperties
  <2> QED BY <1>2, <2>1, <2>2
<1> QED BY <1>2, <1>3, <1>4, LogGrows

\* What the first d events of l tell of s.
Tells(l, d, kind, s) == \E i \in 1..d : l[i].event.kind = kind /\ l[i].event.id = s

PhaseIn(l, d, s) ==
    LET told == {i \in 1..d : l[i].event.id = s /\ Published(l[i].event)}
        kinds == {l[i].event.kind : i \in told}
    IN  CASE "interrupted" \in kinds -> "interrupted"
          [] "interrupted" \notin kinds /\ "ended" \in kinds -> "completed"
          [] kinds = {"started"} -> "playing"
          [] OTHER -> "silent"

LEMMA PhaseIs ==
  ASSUME NEW l, NEW d, NEW s
  PROVE  /\ Tells(l, d, "interrupted", s) => PhaseIn(l, d, s) = "interrupted"
         /\ ~Tells(l, d, "interrupted", s) /\ Tells(l, d, "ended", s) => PhaseIn(l, d, s) = "completed"
         /\ ~Tells(l, d, "interrupted", s) /\ ~Tells(l, d, "ended", s) /\ Tells(l, d, "started", s)
               => PhaseIn(l, d, s) = "playing"
         /\ ~Tells(l, d, "interrupted", s) /\ ~Tells(l, d, "ended", s) /\ ~Tells(l, d, "started", s)
               => PhaseIn(l, d, s) = "silent"
<1> DEFINE told == {i \in 1..d : l[i].event.id = s /\ Published(l[i].event)}
           kinds == {l[i].event.kind : i \in told}
<1>1. kinds \subseteq {"started", "ended", "interrupted"}
  BY DEF Published
<1>2. \A kind \in {"started", "ended", "interrupted"} : kind \in kinds <=> Tells(l, d, kind, s)
  BY DEF Tells, Published
<1>3. PhaseIn(l, d, s) = CASE "interrupted" \in kinds -> "interrupted"
                          [] "interrupted" \notin kinds /\ "ended" \in kinds -> "completed"
                          [] kinds = {"started"} -> "playing"
                          [] OTHER -> "silent"
  BY DEF PhaseIn
<1> HIDE DEF kinds
<1> QED BY <1>1, <1>2, <1>3

PhaseMap == [s \in Segments |-> PhaseOf(s)]

LEMMA PhaseMapIs ==
  /\ PhaseMap = [s \in Segments |-> PhaseIn(log, dispatched, s)]
  /\ PhaseMap' = [s \in Segments |-> PhaseIn(log', dispatched', s)]
<1>1. \A s : PhaseOf(s) = PhaseIn(log, dispatched, s)
  BY DEF PhaseOf, PhaseIn
<1>2. \A s : PhaseOf(s)' = PhaseIn(log', dispatched', s)
  BY DEF PhaseOf, PhaseIn
<1> QED BY <1>1, <1>2 DEF PhaseMap

\* What is told before the next event to dispatch.
LEMMA NextEvent ==
  ASSUME TypeOK, LifeInv, NEW d \in Nat, d < Len(log)
  PROVE  LET e == log[d + 1].event IN
         /\ e \in SegmentEvent /\ e.id \in Segments
         /\ e.kind = "started" =>
               /\ ~Tells(log, d, "started", e.id)
               /\ \A s \in Segments : Tells(log, d, "started", s) => Tells(log, d, "ended", s)
         /\ e.kind = "ended" => Tells(log, d, "started", e.id) /\ ~Tells(log, d, "ended", e.id)
         /\ e.kind = "interrupted" => Tells(log, d, "ended", e.id)
         /\ \A s : Tells(log, d, "interrupted", s) => Tells(log, d, "ended", s)
         /\ \A s : Tells(log, d, "ended", s) => Tells(log, d, "started", s)
<1> DEFINE n == Len(log)
           a == SubSeq(log, 1, d)
           b == SubSeq(log, d + 1, Len(log))
           f == Facts(a)
           e == log[d + 1].event
<1>1. log \in Seq(Stamped) /\ n \in Nat /\ d \in 0..n /\ d + 1 \in 1..n /\ DOMAIN log = 1..n
  BY ToldType, LenProperties
<1>2. a \in Seq(Stamped) /\ b \in Seq(Stamped) /\ a \o b = log
  BY <1>1, CutJoin
<1>3. Len(a) = d /\ \A k \in 1..d : a[k] = log[k]
  <2>1. \A k \in 1..d : log[k] \in Stamped
    BY <1>1, ElementOfSeq
  <2> QED BY <2>1, SubSeqProperties
<1>4. Len(b) = n - d /\ b[1] = log[d + 1] /\ b # <<>>
  <2>1. Len(b) = Len(log) - d /\ \A k \in 1..(Len(log) - d) : b[k] = log[d + k]
    <3>1. d \in Nat /\ d <= Len(log)
      BY <1>1
    <3> QED BY <1>1, <3>1, RestProperties, Zenon
  <2> HIDE DEF b
  <2>2. 1 \in 1..(Len(log) - d)
    BY <1>1
  <2>3. b # <<>>
    BY <1>1, <2>1, <2>2, EmptySeq
  <2> QED BY <2>1, <2>2, <2>3
<1>5. e \in SegmentEvent /\ e \in QueueItem /\ e.id \in Segments
  <2>1. log[d + 1] \in Stamped
    BY <1>1, ElementOfSeq
  <2> QED BY <2>1, QueueItemCases DEF Stamped, QueueItem
<1> HIDE DEF a, b, f, n
<1>6. f \in Seq(QueueItem) /\ Len(f) = d /\ DOMAIN f = 1..d /\ \A k \in 1..d : f[k] = log[k].event
  BY <1>2, <1>3, FactsType, LenProperties DEF f
<1>7. Lawful(Facts(log))
  <2>1. Lawful(Told) /\ Told = (Facts(log) \o Facts(eventQueue)) \o StepFacts
    BY ToldLawful DEF Told
  <2>2. Lawful(Facts(log) \o Facts(eventQueue))
    BY <2>1, ToldType, LawfulPrefix
  <2> QED BY <2>2, ToldType, LawfulPrefix
<1>8. Lawful(f) /\ Follows(e, f)
  <2> DEFINE g == Facts(b)
  <2>1. Facts(log) = f \o g
    BY <1>2, FactsJoin DEF f
  <2>2. g \in Seq(QueueItem) /\ g # <<>> /\ Head(g) = e
    <3>1. g \in Seq(QueueItem) /\ Len(g) = Len(b) /\ Len(b) \in Nat \ {0}
      BY <1>2, <1>4, FactsType, EmptySeq
    <3>2. 1 \in DOMAIN b /\ g[1] = b[1].event
      <4>1. 1 \in DOMAIN b
        BY <1>2, <3>1, LenProperties
      <4> QED BY <1>2, <4>1, FactsType
    <3> HIDE DEF g
    <3>3. g # <<>>
      BY <3>1, EmptySeq
    <3> QED BY <1>4, <3>1, <3>2, <3>3, QueueParts
  <2> HIDE DEF g, e
  <2>3. Append(f, e) \o Tail(g) = f \o g /\ Tail(g) \in Seq(QueueItem) /\ Append(f, e) \in Seq(QueueItem)
    BY <1>5, <1>6, <2>2, MoveHead, HeadTailProperties, AppendProperties
  <2>4. Lawful(Append(f, e))
    BY <1>7, <2>1, <2>3, LawfulPrefix
  <2> QED BY <1>5, <1>6, <2>4, LawfulAppend
<1>9. \A kind, s : Tells(log, d, kind, s) <=> Has(f, kind, s)
  BY <1>6 DEF Tells, Has
<1>10. \A s : Has(f, "interrupted", s) => Has(f, "ended", s)
  BY <1>8 DEF Lawful, Has, Before
<1>11. \A s : Has(f, "ended", s) => Has(f, "started", s)
  BY <1>8 DEF Lawful, Has, Before
<1> HIDE DEF e
<1> QED BY <1>5, <1>8, <1>9, <1>10, <1>11 DEF Follows, e

LEMMA DispatchImplements ==
  ASSUME TypeOK, LifeInv, dispatched \in 0..Len(log), Dispatch
  PROVE  /\ dispatched' \in 0..Len(log') /\ (Playback!Next \/ UNCHANGED PhaseMap)
<1> DEFINE d == dispatched  e == log[d + 1].event  x == e.id
<1>1. UNCHANGED log /\ dispatched' = d + 1 /\ Outbox # <<>>
  BY DEF Dispatch, vars, historyVars
<1>2. Len(log) \in Nat /\ d \in Nat /\ d < Len(log)
  <2>1. Len(log) \in Nat /\ d \in 0..Len(log)
    BY LenProperties DEF TypeOK
  <2>2. ~(d = Len(log))
    <3> SUFFICES ASSUME d = Len(log) PROVE FALSE
      OBVIOUS
    <3>1. SubSeq(log, d + 1, Len(log)) = <<>>
      BY <2>1, SubSeqEmpty
    <3> QED BY <1>1, <3>1 DEF Outbox
  <2> QED BY <2>1, <2>2
<1>3. dispatched' \in 0..Len(log')
  BY <1>1, <1>2
<1>4. /\ e \in SegmentEvent /\ x \in Segments
      /\ e.kind = "started" =>
            /\ ~Tells(log, d, "started", x)
            /\ \A s \in Segments : Tells(log, d, "started", s) => Tells(log, d, "ended", s)
      /\ e.kind = "ended" => Tells(log, d, "started", x) /\ ~Tells(log, d, "ended", x)
      /\ e.kind = "interrupted" => Tells(log, d, "ended", x)
      /\ \A s : Tells(log, d, "interrupted", s) => Tells(log, d, "ended", s)
      /\ \A s : Tells(log, d, "ended", s) => Tells(log, d, "started", s)
  BY <1>2, NextEvent
<1>5. e.kind \in {"started", "ended", "cancelled", "interrupted"}
  BY <1>4 DEF SegmentEvent
<1>6. \A kind, s : Tells(log', dispatched', kind, s) <=> Tells(log, d, kind, s) \/ (e.kind = kind /\ x = s)
  <2>1. 1..(d + 1) = (1..d) \cup {d + 1}
    BY <1>2
  <2> QED BY <1>1, <2>1 DEF Tells
<1> DEFINE p == [s \in Segments |-> PhaseIn(log, dispatched, s)]
           q == [s \in Segments |-> PhaseIn(log', dispatched', s)]
<1>7. PhaseMap = p /\ PhaseMap' = q
  BY PhaseMapIs
<1>8. \A s : /\ Tells(log, d, "interrupted", s) => PhaseIn(log, d, s) = "interrupted"
             /\ ~Tells(log, d, "interrupted", s) /\ Tells(log, d, "ended", s) => PhaseIn(log, d, s) = "completed"
             /\ ~Tells(log, d, "interrupted", s) /\ ~Tells(log, d, "ended", s) /\ Tells(log, d, "started", s)
                   => PhaseIn(log, d, s) = "playing"
             /\ ~Tells(log, d, "interrupted", s) /\ ~Tells(log, d, "ended", s) /\ ~Tells(log, d, "started", s)
                   => PhaseIn(log, d, s) = "silent"
  BY PhaseIs
<1> DEFINE l2 == log'  d2 == dispatched'
<1>9. \A s : /\ Tells(l2, d2, "interrupted", s) => PhaseIn(l2, d2, s) = "interrupted"
             /\ ~Tells(l2, d2, "interrupted", s) /\ Tells(l2, d2, "ended", s) => PhaseIn(l2, d2, s) = "completed"
             /\ ~Tells(l2, d2, "interrupted", s) /\ ~Tells(l2, d2, "ended", s) /\ Tells(l2, d2, "started", s)
                   => PhaseIn(l2, d2, s) = "playing"
             /\ ~Tells(l2, d2, "interrupted", s) /\ ~Tells(l2, d2, "ended", s) /\ ~Tells(l2, d2, "started", s)
                   => PhaseIn(l2, d2, s) = "silent"
  BY PhaseIs
<1>10. \A kind, s : Tells(l2, d2, kind, s) <=> Tells(log, d, kind, s) \/ (e.kind = kind /\ x = s)
  BY <1>6
<1>11. /\ DOMAIN p = Segments /\ DOMAIN q = Segments
       /\ \A s \in Segments : p[s] = PhaseIn(log, d, s) /\ q[s] = PhaseIn(l2, d2, s)
       /\ p = [s \in Segments |-> p[s]] /\ q = [s \in Segments |-> q[s]]
  OBVIOUS
<1> HIDE DEF p, q, d, e, x, l2, d2
<1>12. \A s \in Segments : s # x => q[s] = p[s]
  BY ONLY <1>8, <1>9, <1>10, <1>11
<1>13. ASSUME e.kind = "started"
       PROVE  p[x] = "silent" /\ (\A s \in Segments : p[s] # "playing") /\ q[x] = "playing"
  <2>1. \A s \in Segments : p[s] # "playing"
    BY ONLY <1>4, <1>8, <1>11, <1>13
  <2>2. p[x] = "silent" /\ q[x] = "playing"
    BY ONLY <1>4, <1>8, <1>9, <1>10, <1>11, <1>13
  <2> QED BY <2>1, <2>2
<1>14. ASSUME e.kind = "ended" PROVE p[x] = "playing" /\ q[x] = "completed"
  BY ONLY <1>4, <1>8, <1>9, <1>10, <1>11, <1>14
<1>15. ASSUME e.kind = "interrupted"
       PROVE  (p[x] = "completed" /\ q[x] = "interrupted") \/ q[x] = p[x]
  BY ONLY <1>4, <1>8, <1>9, <1>10, <1>11, <1>15
<1>16. ASSUME e.kind = "cancelled" PROVE q[x] = p[x]
  BY ONLY <1>4, <1>8, <1>9, <1>10, <1>11, <1>16
<1>17. x \in Segments
  BY <1>4
<1>18. \A v : q[x] = v => q = [p EXCEPT ![x] = v]
  BY ONLY <1>11, <1>12, <1>17
<1>19. q[x] = p[x] => q = p
  BY ONLY <1>11, <1>12, <1>17
<1>20. CASE e.kind = "started"
  <2>1. p[x] = "silent" /\ (\A s \in Segments : p[s] # "playing") /\ q = [p EXCEPT ![x] = "playing"]
    BY ONLY <1>13, <1>18, <1>20
  <2>2. Playback!Start(x)
    BY <1>7, <2>1 DEF Playback!Start, PhaseMap
  <2> QED BY <1>3, <1>17, <2>2 DEF Playback!Next
<1>21. CASE e.kind = "ended"
  <2>1. p[x] = "playing" /\ q = [p EXCEPT ![x] = "completed"]
    BY ONLY <1>14, <1>18, <1>21
  <2>2. Playback!Complete(x)
    BY <1>7, <2>1 DEF Playback!Complete, PhaseMap
  <2> QED BY <1>3, <1>17, <2>2 DEF Playback!Next
<1>22. CASE e.kind = "interrupted" /\ q[x] # p[x]
  <2>1. p[x] = "completed" /\ q = [p EXCEPT ![x] = "interrupted"]
    BY ONLY <1>15, <1>18, <1>22
  <2>2. Playback!Interrupt(x)
    BY <1>7, <2>1 DEF Playback!Interrupt, PhaseMap
  <2> QED BY <1>3, <1>17, <2>2 DEF Playback!Next
<1>23. CASE q[x] = p[x]
  BY <1>3, <1>7, <1>19, <1>23
<1> QED BY <1>5, <1>16, <1>20, <1>21, <1>22, <1>23 DEF e, d

\* A step that dispatches nothing changes nothing the subscribers were told.
LEMMA UndispatchedSame ==
  ASSUME TypeOK, TypeOK', [Next]_vars, dispatched \in 0..Len(log), UNCHANGED dispatched
  PROVE  dispatched' \in 0..Len(log') /\ UNCHANGED PhaseMap
<1> DEFINE m == log'  d == dispatched
<1>1. Len(log) \in Nat /\ Len(m) \in Nat /\ Len(log) <= Len(m) /\ \A i \in 1..Len(log) : m[i] = log[i]
  BY LogKept
<1>2. d \in 0..Len(m) /\ \A i \in 1..d : m[i] = log[i]
  BY <1>1
<1>3. \A s : PhaseIn(m, d, s) = PhaseIn(log, d, s)
  <2> HIDE DEF m, d
  <2> TAKE s
  <2> DEFINE told(l) == {i \in 1..d : l[i].event.id = s /\ Published(l[i].event)}
             kinds(l) == {l[i].event.kind : i \in told(l)}
  <2>1. told(m) = told(log)
    BY <1>2
  <2>2. kinds(m) = kinds(log)
    BY <1>2, <2>1
  <2>3. \A l : PhaseIn(l, d, s) = CASE "interrupted" \in kinds(l) -> "interrupted"
                                  [] "interrupted" \notin kinds(l) /\ "ended" \in kinds(l) -> "completed"
                                  [] kinds(l) = {"started"} -> "playing"
                                  [] OTHER -> "silent"
    BY DEF PhaseIn
  <2> HIDE DEF kinds
  <2> QED BY <2>2, <2>3
<1>4. PhaseMap' = PhaseMap
  BY <1>3, PhaseMapIs
<1> QED BY <1>2, <1>4

LEMMA RenderingStep ==
  ASSUME TypeOK, [RenderingNext]_renderingVars
  PROVE  [Next]_vars /\ (Dispatch \/ UNCHANGED dispatched)
<1>1. CASE UNCHANGED renderingVars
  BY <1>1 DEF renderingVars
<1>2. CASE ListenBus
  <2>1. Listen /\ UNCHANGED dispatched
    BY <1>2 DEF ListenBus, GenerationStarted, Listen
  <2> QED BY <2>1 DEF Next
<1>3. CASE Dispatch
  BY <1>3 DEF Dispatch
<1>4. CASE RenderStep \/ RunStep
  BY <1>4 DEF RenderStep, RunStep, Next
<1>5. CASE RenderingTerminated
  BY <1>5 DEF RenderingTerminated, renderingVars
<1> QED BY <1>1, <1>2, <1>3, <1>4, <1>5 DEF RenderingNext

\* The events the loop publishes implement the life of the segments SegmentPlayback
\* promises their subscribers: each is started once, while no other plays, completes after
\* it started and is reported interrupted after its completion only.
THEOREM PlaybackImplemented == RenderingSpec => PlaybackSpec
<1> DEFINE Inv == CourseInv /\ dispatched \in 0..Len(log)
<1>1. RenderingInit => Inv /\ Playback!Init
  <2> SUFFICES ASSUME RenderingInit PROVE Inv /\ Playback!Init
    OBVIOUS
  <2>1. CourseInv /\ log = <<>> /\ dispatched = 0 /\ Len(log) = 0
    BY CourseInit, EmptySeq DEF RenderingInit, Init
  <2>2. \A s : PhaseIn(log, dispatched, s) = "silent"
    <3>1. \A kind, s : ~Tells(log, dispatched, kind, s)
      BY <2>1 DEF Tells
    <3> QED BY <3>1, PhaseIs
  <2>3. PhaseMap = [s \in Segments |-> "silent"]
    BY <2>2, PhaseMapIs
  <2> QED BY <2>1, <2>3 DEF Playback!Init, PhaseMap
<1>2. Inv /\ [RenderingNext]_renderingVars => Inv' /\ [Playback!Next]_PhaseMap
  <2> SUFFICES ASSUME Inv, [RenderingNext]_renderingVars
               PROVE  Inv' /\ (Playback!Next \/ UNCHANGED PhaseMap)
    OBVIOUS
  <2>1. TypeOK /\ LifeInv
    BY DEF CourseInv, SchedulerInv
  <2>2. [Next]_vars /\ (Dispatch \/ UNCHANGED dispatched)
    BY <2>1, RenderingStep
  <2>3. CourseInv'
    BY <2>2, CourseStep
  <2>4. TypeOK'
    BY <2>3 DEF CourseInv, SchedulerInv
  <2>5. CASE Dispatch
    BY <2>1, <2>3, <2>5, DispatchImplements
  <2>6. CASE UNCHANGED dispatched
    BY <2>1, <2>2, <2>3, <2>4, <2>6, UndispatchedSame
  <2> QED BY <2>2, <2>5, <2>6
<1>3. Playback!Spec <=> Playback!Init /\ [][Playback!Next]_PhaseMap
  BY DEF Playback!Spec, PhaseMap
<1> QED BY <1>1, <1>2, <1>3, PTL DEF RenderingSpec, PlaybackSpec

(***************************************************************************)
(* The render loop ends with no segment open.                              *)
(***************************************************************************)

LEMMA StoppedClosed == CourseInv => StoppedMeansClosed
<1> SUFFICES ASSUME CourseInv, pc = "idle", IsStopped, NEW s \in Segments, Logged("started", s) # {}
             PROVE  Logged("ended", s) # {}
  BY DEF StoppedMeansClosed
<1>1. TypeOK /\ LifeInv /\ StartInv /\ StepInv
  BY DEF CourseInv, SchedulerInv, StampsInv
<1>2. queue = <<>> /\ eventQueue = <<>> /\ stopping /\ writeActive = None /\ ~step.isStart /\ step.events = <<>>
  BY <1>1 DEF IsStopped, StartInv, StepInv
<1>3. StepFacts = <<>> /\ Facts(eventQueue) = <<>> /\ Facts(log) \in Seq(QueueItem)
  BY <1>1, <1>2, FactsEmpty, ToldType DEF StepFacts
<1>4. Course = Facts(log)
  <2> DEFINE f == Facts(log)
  <2>1. f \in Seq(QueueItem) /\ Course = ((f \o <<>>) \o <<>>) \o <<>>
    BY <1>2, <1>3 DEF Course, Told
  <2> HIDE DEF f
  <2>2. f \o <<>> = f
    BY <2>1, ConcatEmptySeq
  <2> QED BY <2>1, <2>2 DEF f
<1>5. \A kind : Has(Facts(log), kind, s) <=> Logged(kind, s) # {}
  <2>1. DOMAIN Facts(log) = DOMAIN log /\ \A i \in DOMAIN log : Facts(log)[i] = log[i].event
    BY DEF Facts
  <2> QED BY <2>1 DEF Has, Logged
<1>6. Has(Facts(log), "started", s) => Has(Facts(log), "ended", s)
  BY <1>1, <1>2, <1>4, NameAssumption DEF LifeInv, OnAir
<1> QED BY <1>5, <1>6

\* When the render loop ends without an exception, every segment reported as started was
\* reported as ended.
THEOREM StoppedCorrect == Spec => []StoppedMeansClosed
<1> QED BY CourseInit, CourseStep, StoppedClosed, PTL DEF Spec

(***************************************************************************)
(* What is heard.  Every unit of audio, on the stream, in the buffer or    *)
(* taken by the step, is inside its segment as the stamps of what is told  *)
(* place it.  A stamp is put behind all the audio there is, so that a new  *)
(* one finds that audio before it; the audio moves only when a step that   *)
(* starts a segment pads before it, together with the start, and when an   *)
(* interrupt cuts the look-ahead of a step that waits for more audio.      *)
(***************************************************************************)

Elems(evs) == {evs[i] : i \in DOMAIN evs}

\* The stamped events of what is told.
NewStamps == IF StartupCancelled THEN {} ELSE Elems(step.events)
Stamps == (Elems(log) \cup Elems(eventQueue)) \cup NewStamps

\* Time p is inside the segment s, as far as the events of S tell.
Within(S, s, p) ==
    \A st \in S : st.event.id = s =>
        /\ st.event.kind = "started" => st.at <= p
        /\ st.event.kind = "ended" => p < st.at

\* The events of S tell of no start and no end of s.
Mute(S, s) == \A st \in S : st.event.kind \in {"started", "ended"} => st.event.id # s

\* The unit u can be heard at time p.
Hears(S, b, q, u, p) == u # Silence => Within(S, u, p) /\ u \in b /\ ~Has(q, "started", u)
Heard(u, p) == Hears(Stamps, begun, queue, u, p)

SoundInv ==
    /\ \A k \in DOMAIN timeline : Heard(timeline[k], k - 1)
    /\ \A k \in DOMAIN buffer : Heard(buffer[k], nextPresent + k - 1)
    /\ ~StartupCancelled =>
          \A k \in DOMAIN step.bufs : Heard(step.bufs[k], nextPresent + Len(buffer) + k - 1)

\* The audio a step takes is of the segment on air, unless that was interrupted.
TakenInv ==
    /\ ~StartupCancelled =>
          \A k \in DOMAIN step.bufs :
              \/ step.bufs[k] = Silence \/ Mute(Stamps, step.bufs[k])
              \/ step.isStart /\ step.bufs[k] = coalescing
              \/ ~step.isStart /\ (step.bufs[k] = active \/ pc = "finishing")
    /\ pc = "idle" => step.bufs = <<>>

LoggedInv == \A i \in DOMAIN log : log[i].at < nextPresent

AudioInv == SoundInv /\ TakenInv /\ LoggedInv

LEMMA ElemsType ==
  ASSUME NEW evs \in Seq(Stamped)
  PROVE  /\ \A st \in Elems(evs) : st \in Stamped /\ st.at \in Int
         /\ \A kind, s : Has(Facts(evs), kind, s) <=> \E st \in Elems(evs) : st.event.kind = kind /\ st.event.id = s
<1>1. /\ \A i \in DOMAIN evs : evs[i] \in Stamped /\ evs[i].at \in Int
  BY StampsAreInt
<1>2. DOMAIN Facts(evs) = DOMAIN evs /\ \A i \in DOMAIN evs : Facts(evs)[i] = evs[i].event
  BY DEF Facts
<1> QED BY <1>1, <1>2 DEF Elems, Has

LEMMA ElemsAppend ==
  ASSUME NEW evs \in Seq(Stamped), NEW st \in Stamped
  PROVE  Elems(Append(evs, st)) = Elems(evs) \cup {st}
<1> DEFINE more == Append(evs, st)  n == Len(evs) + 1
<1>1. /\ more \in Seq(Stamped) /\ Len(more) = n /\ Len(evs) \in Nat
      /\ \A i \in 1..Len(evs) : more[i] = evs[i]
      /\ more[n] = st
  BY AppendProperties, LenProperties
<1>2. DOMAIN more = 1..n /\ DOMAIN evs = 1..Len(evs) /\ 1..n = 1..Len(evs) \cup {n}
  BY <1>1, LenProperties
<1> HIDE DEF more, n
<1>3. Elems(more) = Elems(evs) \cup {st}
  BY ONLY <1>1, <1>2 DEF Elems
<1> QED BY <1>3 DEF more

LEMMA ElemsJoin ==
  ASSUME NEW a \in Seq(Stamped), NEW b \in Seq(Stamped)
  PROVE  Elems(a \o b) = Elems(a) \cup Elems(b)
<1> DEFINE m == a \o b  n == Len(a)  l == Len(b)
<1>1. /\ n \in Nat /\ l \in Nat /\ DOMAIN a = 1..n /\ DOMAIN b = 1..l
      /\ m \in Seq(Stamped) /\ Len(m) = n + l
      /\ \A i \in 1..(n + l) : m[i] = IF i <= n THEN a[i] ELSE b[i - n]
  BY LenProperties, ConcatProperties
<1> HIDE DEF m, n, l
<1>2. DOMAIN m = 1..(n + l)
  BY <1>1, LenProperties
<1>3. \A i \in 1..n : i \in 1..(n + l) /\ m[i] = a[i]
  BY ONLY <1>1
<1>4. ASSUME NEW j \in 1..l PROVE n + j \in 1..(n + l) /\ m[n + j] = b[j]
  <2>1. n + j \in 1..(n + l) /\ ~(n + j <= n) /\ (n + j) - n = j
    BY ONLY <1>1, <1>4
  <2> QED BY ONLY <1>1, <2>1
<1>5. ASSUME NEW i \in 1..(n + l) PROVE m[i] \in Elems(a) \cup Elems(b)
  <2>1. CASE i <= n
    <3>1. i \in 1..n
      BY ONLY <1>1, <2>1
    <3> QED BY ONLY <1>1, <1>3, <3>1 DEF Elems
  <2>2. CASE ~(i <= n)
    <3>1. i - n \in 1..l /\ m[i] = b[i - n]
      BY ONLY <1>1, <2>2
    <3> QED BY ONLY <1>1, <3>1 DEF Elems
  <2> QED BY <2>1, <2>2
<1>6. Elems(m) \subseteq Elems(a) \cup Elems(b)
  BY ONLY <1>2, <1>5 DEF Elems
<1>7. Elems(a) \subseteq Elems(m)
  BY ONLY <1>1, <1>2, <1>3 DEF Elems
<1>8. Elems(b) \subseteq Elems(m)
  <2>1. ASSUME NEW j \in DOMAIN b PROVE b[j] \in Elems(m)
    <3>1. n + j \in DOMAIN m /\ m[n + j] = b[j]
      BY ONLY <1>1, <1>2, <1>4, <2>1
    <3> QED BY ONLY <3>1 DEF Elems
  <2> QED BY ONLY <2>1 DEF Elems
<1>9. Elems(m) = Elems(a) \cup Elems(b)
  BY ONLY <1>6, <1>7, <1>8
<1> QED BY <1>9 DEF m

LEMMA ElemsShifted ==
  ASSUME NEW evs \in Seq(Stamped), NEW d \in Nat, NEW st \in Elems(ShiftedBy(evs, d))
  PROVE  \E old \in Elems(evs) : st.event = old.event /\ st.at = old.at + d
BY DEF Elems, ShiftedBy, Stamp

LEMMA ElemsLacks ==
  ASSUME NEW e \in Seq(Stamped), NEW e2 \in Seq(Stamped), NEW i, Lacks(e2, e, i)
  PROVE  Elems(e2) \subseteq Elems(e)
<1>1. /\ Len(e) \in Nat /\ DOMAIN e = 1..Len(e) /\ DOMAIN e2 = 1..Len(e2)
      /\ i \in 1..Len(e) /\ Len(e2) = Len(e) - 1 /\ \A k \in 1..(Len(e) - 1) : e2[k] = e[Skip(k, i)]
  BY LenProperties DEF Lacks
<1>2. \A k \in 1..(Len(e) - 1) : Skip(k, i) \in 1..Len(e)
  BY <1>1 DEF Skip
<1> QED BY <1>1, <1>2 DEF Elems

LEMMA ElemsEmpty == Elems(<<>>) = {}
BY DEF Elems

\* The stamps, and the facts told.
LEMMA StampsTold ==
  ASSUME TypeOK
  PROVE  /\ \A st \in Stamps : st \in Stamped /\ st.at \in Int
         /\ \A kind, s : Has(Told, kind, s) <=> \E st \in Stamps : st.event.kind = kind /\ st.event.id = s
<1>1. log \in Seq(Stamped) /\ eventQueue \in Seq(Stamped) /\ step.events \in Seq(Stamped)
  BY ToldType
<1>2. /\ \A st \in NewStamps : st \in Stamped /\ st.at \in Int
      /\ \A kind, s : Has(StepFacts, kind, s) <=> \E st \in NewStamps : st.event.kind = kind /\ st.event.id = s
  <2>1. CASE StartupCancelled
    BY <2>1 DEF NewStamps, StepFacts, Has
  <2>2. CASE ~StartupCancelled
    BY <1>1, <2>2, ElemsType DEF NewStamps, StepFacts
  <2> QED BY <2>1, <2>2
<1>3. \A kind, s : Has(Told, kind, s) <=>
          (Has(Facts(log), kind, s) \/ Has(Facts(eventQueue), kind, s)) \/ Has(StepFacts, kind, s)
  BY ToldType, HasJoin DEF Told
<1>4. \A evs \in {log, eventQueue} :
          /\ \A st \in Elems(evs) : st \in Stamped /\ st.at \in Int
          /\ \A kind, s : Has(Facts(evs), kind, s) <=> \E st \in Elems(evs) : st.event.kind = kind /\ st.event.id = s
  BY <1>1, ElemsType
<1>5. \A st \in Stamps : st \in Stamped /\ st.at \in Int
  BY <1>2, <1>4 DEF Stamps
<1> HIDE DEF Elems, NewStamps
<1>6. \A kind, s : Has(Told, kind, s) <=> \E st \in Stamps : st.event.kind = kind /\ st.event.id = s
  BY ONLY <1>2, <1>3, <1>4 DEF Stamps
<1> QED BY <1>5, <1>6

\* A unit stays audible while nothing else is told and its segment is not generated again.
LEMMA HearsKept ==
  ASSUME NEW S, NEW S2, S2 \subseteq S, NEW b, NEW b2, b \subseteq b2, NEW q, NEW q2,
         \A s : Has(q2, "started", s) => Has(q, "started", s) \/ s \notin b
  PROVE  \A u, p : Hears(S, b, q, u, p) => Hears(S2, b2, q2, u, p)
BY DEF Hears, Within

LEMMA SoundKept ==
  ASSUME SoundInv, Stamps' \subseteq Stamps, begun \subseteq begun',
         \A s : Has(queue', "started", s) => Has(queue, "started", s) \/ s \notin begun,
         UNCHANGED <<timeline, buffer, nextPresent>>,
         \/ step'.bufs = <<>>
         \/ step'.bufs = step.bufs /\ (StartupCancelled => StartupCancelled')
  PROVE  SoundInv'
<1>1. \A u, p : Heard(u, p) => Heard(u, p)'
  BY HearsKept DEF Heard
<1>2. \A k \in DOMAIN timeline : Heard(timeline[k], k - 1)'
  BY <1>1 DEF SoundInv
<1>3. \A k \in DOMAIN buffer' : Heard(buffer[k], nextPresent + k - 1)'
  BY <1>1 DEF SoundInv
<1>4. ASSUME ~StartupCancelled', NEW k \in DOMAIN step'.bufs
      PROVE  Heard(step.bufs[k], nextPresent + Len(buffer) + k - 1)'
  <2>1. step'.bufs # <<>>
    BY <1>4
  <2>2. step'.bufs = step.bufs /\ ~StartupCancelled
    BY <1>4, <2>1
  <2> QED BY <1>1, <1>4, <2>2 DEF SoundInv
<1> QED BY <1>2, <1>3, <1>4 DEF SoundInv

\* What leaves the stamps alone.
LEMMA StampsSame ==
  ASSUME UNCHANGED <<log, eventQueue>>, step'.events = step.events, StartupCancelled' <=> StartupCancelled
  PROVE  Stamps' = Stamps
BY DEF Stamps, NewStamps, Elems

LEMMA LoggedSame ==
  ASSUME LoggedInv, UNCHANGED <<log, nextPresent>>
  PROVE  LoggedInv'
BY DEF LoggedInv

LEMMA AppendsAudio ==
  ASSUME TypeOK, QueueInv, AudioInv, Appends
  PROVE  AudioInv'
<1>1. UNCHANGED stampVars /\ UNCHANGED <<log, timeline>>
  BY AppendsQueue DEF Appends, StartSegment, EndSegment, AppendChunk, ShutdownUser, historyVars
<1>2. (StartupCancelled' <=> StartupCancelled) /\ Stamps' = Stamps
  BY <1>1, StampsSame DEF stampVars, StartupCancelled
<1>3. /\ begun \subseteq begun'
      /\ \A s : Has(queue', "started", s) => Has(queue, "started", s) \/ s \notin begun
  <2>1. ASSUME NEW c \in QueueItem, queue' = Append(queue, c), c.kind = "started" => c.id \notin begun
        PROVE  \A s : Has(queue', "started", s) => Has(queue, "started", s) \/ s \notin begun
    BY <2>1, HasAppend DEF TypeOK
  <2>2. ASSUME NEW s \in Segments, StartSegment(s)
        PROVE  /\ begun \subseteq begun'
               /\ \A t : Has(queue', "started", t) => Has(queue, "started", t) \/ t \notin begun
    <3>1. Started(s) \in QueueItem /\ Started(s).id = s
      BY EventTypes DEF Started, QueueItem
    <3>2. queue' = Append(queue, Started(s)) /\ s \notin begun /\ begun \subseteq begun'
      BY <2>2 DEF StartSegment, AppendQueue
    <3> QED BY <2>1, <3>1, <3>2
  <2>3. ASSUME NEW s \in Segments, EndSegment(s) \/ (ShutdownUser /\ s = writeActive)
        PROVE  /\ begun \subseteq begun'
               /\ \A t : Has(queue', "started", t) => Has(queue, "started", t) \/ t \notin begun
    <3>1. Ended(s) \in QueueItem /\ Ended(s).kind # "started"
      BY EventTypes DEF Ended, QueueItem
    <3>2. (queue' = Append(queue, Ended(s)) \/ queue' = queue) /\ begun \subseteq begun'
      BY <2>3 DEF EndSegment, ShutdownUser, AppendQueue, inputVars
    <3> QED BY <2>1, <3>1, <3>2
  <2>4. ASSUME ShutdownUser, writeActive \notin Segments
        PROVE  /\ begun \subseteq begun'
               /\ \A t : Has(queue', "started", t) => Has(queue, "started", t) \/ t \notin begun
    <3>1. writeActive = None
      BY <2>4 DEF TypeOK
    <3> QED BY <2>4, <3>1 DEF ShutdownUser, inputVars
  <2>5. ASSUME NEW s \in Segments, NEW n \in ChunkLengths, AppendChunk(s, n)
        PROVE  /\ begun \subseteq begun'
               /\ \A t : Has(queue', "started", t) => Has(queue, "started", t) \/ t \notin begun
    <3>1. Chunk(s, n) \in QueueItem /\ Chunk(s, n).kind # "started"
      BY EventTypes, DurationAssumption DEF Chunk
    <3>2. queue' = Append(queue, Chunk(s, n)) /\ begun \subseteq begun'
      BY <2>5 DEF AppendChunk, AppendQueue
    <3> QED BY <2>1, <3>1, <3>2
  <2> QED BY <2>2, <2>3, <2>4, <2>5 DEF Appends
<1>4. SoundInv'
  BY <1>1, <1>2, <1>3, SoundKept DEF AudioInv, stampVars
<1>5. TakenInv'
  BY <1>1, <1>2 DEF AudioInv, TakenInv, stampVars
<1>6. LoggedInv'
  BY <1>1, LoggedSame DEF AudioInv, stampVars
<1> QED BY <1>4, <1>5, <1>6 DEF AudioInv

LEMMA SweepAudio ==
  ASSUME TypeOK, AudioInv, Sweep
  PROVE  AudioInv'
<1> DEFINE c == Cancelled(Head(sweep).id)
<1>1. /\ sweep # <<>> /\ UNCHANGED <<log, timeline, eventQueue, step, coalescing, cancelled, active, begun, buffer, nextPresent, pc>>
      /\ queue' = queue \/ queue' = Append(queue, c)
  BY DEF Sweep, historyVars, inputVars
<1>2. c \in QueueItem /\ c.kind # "started"
  BY <1>1, HeadTailProperties, QueueItemCases, EventTypes DEF TypeOK, Cancelled, QueueItem
<1> HIDE DEF c
<1>3. (StartupCancelled' <=> StartupCancelled) /\ Stamps' = Stamps
  BY <1>1, StampsSame DEF StartupCancelled
<1>4. \A s : Has(queue', "started", s) => Has(queue, "started", s)
  BY <1>1, <1>2, HasAppend DEF TypeOK
<1>5. SoundInv'
  BY <1>1, <1>3, <1>4, SoundKept DEF AudioInv
<1>6. TakenInv'
  BY <1>1, <1>3 DEF AudioInv, TakenInv
<1>7. LoggedInv'
  BY <1>1, LoggedSame DEF AudioInv
<1> QED BY <1>5, <1>6, <1>7 DEF AudioInv

LEMMA BeginAudio ==
  ASSUME TypeOK, StepInv, AudioInv, BeginStep
  PROVE  AudioInv'
<1>1. /\ UNCHANGED <<log, timeline, eventQueue, coalescing, cancelled, active, begun, buffer, nextPresent, queue>>
      /\ step'.events = step.events /\ step'.bufs = <<>> /\ ~step'.isStart /\ ~step.isStart
  BY BeginTold DEF BeginStep, historyVars, inputVars
<1>2. Stamps' = Stamps
  BY <1>1, StampsSame DEF StartupCancelled
<1>3. SoundInv'
  BY <1>1, <1>2, SoundKept DEF AudioInv
<1>4. TakenInv'
  BY <1>1 DEF TakenInv
<1>5. LoggedInv'
  BY <1>1, LoggedSame DEF AudioInv
<1> QED BY <1>3, <1>4, <1>5 DEF AudioInv

LEMMA MovesAudio ==
  ASSUME AudioInv, Moves
  PROVE  AudioInv'
<1>1. UNCHANGED <<log, timeline, eventQueue, step, coalescing, cancelled, active, begun, buffer, nextPresent, queue>>
      /\ pc # "finishing" /\ pc' # "idle"
  BY MovesChange, MovesTold
<1>2. (StartupCancelled' <=> StartupCancelled) /\ Stamps' = Stamps
  BY <1>1, StampsSame DEF StartupCancelled
<1>3. SoundInv'
  BY <1>1, <1>2, SoundKept DEF AudioInv
<1>4. TakenInv'
  BY <1>1, <1>2 DEF AudioInv, TakenInv
<1>5. LoggedInv'
  BY <1>1, LoggedSame DEF AudioInv
<1> QED BY <1>3, <1>4, <1>5 DEF AudioInv

\* A stamp put behind a unit leaves it audible, if the queue had what it starts.
LEMMA HearsTold ==
  ASSUME NEW S, NEW st, NEW b, NEW q, NEW q2, NEW u, NEW p, Hears(S, b, q, u, p),
         \A s : Has(q2, "started", s) => Has(q, "started", s),
         st.event.kind = "started" => Has(q, "started", st.event.id),
         st.event.kind = "ended" => p < st.at
  PROVE  Hears(S \cup {st}, b, q2, u, p)
BY DEF Hears, Within

\* All the audio there is comes before what the step stamps.
LEMMA AudioBehind ==
  ASSUME TypeOK, PresentInv, Takes
  PROVE  /\ \A k \in DOMAIN timeline : k - 1 < StampNow
         /\ \A k \in DOMAIN buffer : nextPresent + k - 1 < StampNow
         /\ \A k \in DOMAIN step.bufs : nextPresent + Len(buffer) + k - 1 < StampNow
<1>1. /\ Len(buffer) \in Nat /\ nextPresent \in Nat /\ step.consumed \in Nat
      /\ StampNow = nextPresent + Len(buffer) + step.consumed
  BY NumbersType
<1>2. Len(timeline) = nextPresent /\ DOMAIN timeline = 1..nextPresent
  BY LenProperties DEF PresentInv, PresentNeverShort, TypeOK
<1>3. DOMAIN buffer = 1..Len(buffer)
  BY LenProperties DEF TypeOK
<1>4. DOMAIN step.bufs = 1..step.consumed
  <2>1. pc = "running"
    BY TakesChange
  <2>2. step.bufs \in Seq(Unit) /\ Len(step.bufs) = step.consumed
    BY <2>1 DEF PresentInv, AudioSuffices, InStep, TypeOK, StepLocals
  <2> QED BY <2>2, LenProperties
<1> HIDE DEF StampNow
<1>5. \A k \in DOMAIN timeline : k - 1 < StampNow
  BY ONLY <1>1, <1>2
<1>6. \A k \in DOMAIN buffer : nextPresent + k - 1 < StampNow
  BY ONLY <1>1, <1>3
<1>7. \A k \in DOMAIN step.bufs : nextPresent + Len(buffer) + k - 1 < StampNow
  BY ONLY <1>1, <1>4
<1> QED BY <1>5, <1>6, <1>7

\* The queue without its head.
LEMMA TailHas ==
  ASSUME NEW q \in Seq(QueueItem), q # <<>>
  PROVE  /\ \A kind, s : Has(Tail(q), kind, s) => Has(q, kind, s)
         /\ Has(q, Head(q).kind, Head(q).id)
<1>1. /\ Head(q) = q[1] /\ 1 \in DOMAIN q
      /\ \A i \in DOMAIN Tail(q) : i + 1 \in DOMAIN q /\ Tail(q)[i] = q[i + 1]
  BY QueueParts
<1> QED BY <1>1 DEF Has

LEMMA SoundTold ==
  ASSUME TypeOK, PresentInv, SoundInv, Takes,
         Stamps' = Stamps \cup {Stamp(Head(queue), StampNow)},
         UNCHANGED <<timeline, begun>>, step'.bufs = step.bufs
  PROVE  SoundInv'
<1> DEFINE st == Stamp(Head(queue), StampNow)
<1>1. /\ queue # <<>> /\ queue' = Tail(queue) /\ UNCHANGED <<buffer, nextPresent>> /\ ~StartupCancelled
  BY TakesChange
<1>2. st.at = StampNow /\ st.event = Head(queue)
  BY DEF Stamp
<1>3. /\ \A s : Has(queue', "started", s) => Has(queue, "started", s)
      /\ st.event.kind = "started" => Has(queue, "started", st.event.id)
  BY <1>1, <1>2, TailHas DEF TypeOK
<1>4. Stamps' = Stamps \cup {st}
  OBVIOUS
<1> HIDE DEF st
<1>5. ASSUME NEW u, NEW p, p < StampNow, Heard(u, p) PROVE Heard(u, p)'
  <2> DEFINE S == Stamps  S2 == Stamps'  q == queue  q2 == queue'  b == begun
  <2>1. Hears(S, b, q, u, p) /\ p < st.at /\ S2 = S \cup {st}
        /\ (\A s : Has(q2, "started", s) => Has(q, "started", s))
        /\ (st.event.kind = "started" => Has(q, "started", st.event.id))
    BY <1>2, <1>3, <1>4, <1>5 DEF Heard
  <2>2. Heard(u, p)' <=> Hears(S2, b, q2, u, p)
    BY DEF Heard
  <2> HIDE DEF S, S2, q, q2, b
  <2>3. Hears(S2, b, q2, u, p)
    BY ONLY <2>1, HearsTold
  <2> QED BY <2>2, <2>3
<1>6. \A k \in DOMAIN timeline : Heard(timeline[k], k - 1)'
  BY <1>5, AudioBehind DEF SoundInv
<1>7. \A k \in DOMAIN buffer : Heard(buffer[k], nextPresent + k - 1)'
  BY <1>1, <1>5, AudioBehind DEF SoundInv
<1>8. \A k \in DOMAIN step.bufs : Heard(step.bufs[k], nextPresent + Len(buffer) + k - 1)'
  BY <1>1, <1>5, AudioBehind DEF SoundInv
<1> QED BY <1>1, <1>6, <1>7, <1>8 DEF SoundInv

\* What is not on air is None.
LEMMA NobodyOnAir ==
  ASSUME TypeOK, LifeInv, \A s \in Segments : Has(Told, "started", s) => Has(Told, "ended", s)
  PROVE  active = None
BY DEF LifeInv, OnAir, TypeOK

LEMMA TakenType ==
  ASSUME TypeOK
  PROVE  \A k \in DOMAIN step.bufs : step.bufs[k] \in Unit /\ (step.bufs[k] # None \/ step.bufs[k] = Silence)
<1>1. step.bufs \in Seq(Unit)
  BY DEF TypeOK, StepLocals
<1>2. \A k \in DOMAIN step.bufs : step.bufs[k] \in Unit
  BY <1>1, LenProperties, ElementOfSeq
<1> QED BY <1>2, NameAssumption DEF Unit

LEMMA TakeStartedAudio ==
  ASSUME TypeOK, PresentInv, StepInv, StartInv, LifeInv, AudioInv, TakeStarted
  PROVE  AudioInv'
<1> DEFINE h == Head(queue)  st == Stamp(h, StampNow)
<1>1. /\ ~step.isStart /\ step.events = <<>> /\ ~StartupCancelled' /\ step'.events = <<st>>
      /\ h \in QueueItem /\ st \in Stamped
  BY TakeStartedTold
<1>2. /\ pc = "running" /\ queue # <<>> /\ h.kind = "started" /\ step'.bufs = step.bufs /\ step'.isStart
      /\ UNCHANGED <<log, timeline, eventQueue, begun, pc, nextPresent>> /\ coalescing' = h.id
      /\ ~StartupCancelled
  BY DEF TakeStarted, Consuming, historyVars, inputVars, TypeOK, StepLocals
<1>3. Stamps' = Stamps \cup {st}
  <2>1. Elems(<<st>>) = {st} /\ Elems(step.events) = {}
    BY <1>1 DEF Elems
  <2> HIDE DEF st
  <2> QED BY <1>1, <1>2, <2>1 DEF Stamps, NewStamps, Elems
<1>4. SoundInv'
  BY <1>2, <1>3, SoundTold DEF AudioInv, Takes
<1>5. active = None
  BY <1>2, HeadFollows, NobodyOnAir DEF Follows
<1>6. ASSUME NEW k \in DOMAIN step.bufs
      PROVE  step.bufs[k] = Silence \/ Mute(Stamps', step.bufs[k])
  <2> DEFINE u == step.bufs[k]
  <2>1. u = Silence \/ Mute(Stamps, u)
    BY <1>1, <1>2, <1>5, <1>6, TakenType DEF AudioInv, TakenInv
  <2>2. CASE u # Silence /\ Mute(Stamps, u)
    <3>1. ~Has(queue, "started", u)
      BY <1>2, <1>6, <2>2 DEF AudioInv, SoundInv, Heard, Hears
    <3>2. Has(queue, "started", h.id)
      BY <1>2, TailHas DEF TypeOK
    <3>3. st.event.id # u
      BY <3>1, <3>2 DEF Stamp
    <3> HIDE DEF st, u
    <3> QED BY <1>3, <2>2, <3>3 DEF Mute, u
  <2> QED BY <2>1, <2>2
<1>7. TakenInv'
  BY <1>2, <1>6 DEF TakenInv
<1>8. LoggedInv'
  BY <1>2, LoggedSame DEF AudioInv
<1> QED BY <1>4, <1>7, <1>8 DEF AudioInv

LEMMA TakeEndedAudio ==
  ASSUME TypeOK, PresentInv, LifeInv, AudioInv, TakeEnded
  PROVE  AudioInv'
<1> DEFINE h == Head(queue)  st == Stamp(h, StampNow)
<1>1. /\ step'.events = Append(step.events, st) /\ ~StartupCancelled' /\ step'.isStart = step.isStart
      /\ st \in Stamped
  BY TakeEndedTold, TakeEndedChanges
<1>2. /\ pc = "running" /\ queue # <<>> /\ h.kind = "ended" /\ step'.bufs = step.bufs
      /\ UNCHANGED <<log, timeline, eventQueue, begun, nextPresent, coalescing>> /\ pc' = "finishing"
      /\ ~StartupCancelled
  BY DEF TakeEnded, Consuming, historyVars, inputVars, TypeOK, StepLocals
<1>3. Stamps' = Stamps \cup {st}
  <2>1. Elems(step'.events) = Elems(step.events) \cup {st}
    BY <1>1, ElemsAppend, ToldType
  <2>2. Elems(log') = Elems(log) /\ Elems(eventQueue') = Elems(eventQueue) /\ NewStamps' = Elems(step'.events)
        /\ NewStamps = Elems(step.events)
    BY <1>1, <1>2 DEF NewStamps, Elems
  <2>3. Stamps' = (Elems(log') \cup Elems(eventQueue')) \cup NewStamps'
    BY DEF Stamps, Elems
  <2> HIDE DEF st, Elems, NewStamps
  <2> QED BY ONLY <2>1, <2>2, <2>3 DEF Stamps
<1>4. SoundInv'
  BY <1>2, <1>3, SoundTold DEF AudioInv, Takes
<1>5. ASSUME NEW k \in DOMAIN step.bufs, step.isStart
      PROVE  \/ step.bufs[k] = Silence \/ Mute(Stamps', step.bufs[k]) \/ step.bufs[k] = coalescing
  <2> DEFINE u == step.bufs[k]
  <2>1. u = Silence \/ Mute(Stamps, u) \/ u = coalescing
    BY <1>2, <1>5 DEF AudioInv, TakenInv
  <2>2. CASE Mute(Stamps, u)
    <3>1. Has(Told, "started", h.id)
      BY <1>2, HeadFollows DEF Follows
    <3>2. h.id # u
      BY <2>2, <3>1, StampsTold DEF Mute
    <3>3. st.event.id # u
      BY <3>2 DEF Stamp
    <3> HIDE DEF st, u
    <3> QED BY <1>3, <2>2, <3>3 DEF Mute, u
  <2> QED BY <2>1, <2>2
<1>6. TakenInv'
  BY <1>1, <1>2, <1>5 DEF TakenInv
<1>7. LoggedInv'
  BY <1>2, LoggedSame DEF AudioInv
<1> QED BY <1>4, <1>6, <1>7 DEF AudioInv

LEMMA TakeNoticeAudio ==
  ASSUME TypeOK, PresentInv, StepInv, LifeInv, AudioInv, TakeNotice
  PROVE  AudioInv'
<1> DEFINE h == Head(queue)  st == Stamp(h, StampNow)
<1>1. eventQueue' = Append(eventQueue, st) /\ st \in Stamped /\ Notice(h) /\ st.event = h
  BY TakeNoticeChanges DEF Stamp
<1>2. /\ pc = "running" /\ UNCHANGED <<log, timeline, begun, nextPresent, coalescing, cancelled, step, active, pc>>
      /\ ~StartupCancelled
  BY DEF TakeNotice, Consuming, historyVars, inputVars
<1>3. Stamps' = Stamps \cup {st}
  <2>1. Elems(eventQueue') = Elems(eventQueue) \cup {st}
    BY <1>1, ElemsAppend, ToldType
  <2>2. Elems(log') = Elems(log) /\ NewStamps' = NewStamps
    BY <1>2 DEF NewStamps, Elems, StartupCancelled
  <2>3. Stamps' = (Elems(log') \cup Elems(eventQueue')) \cup NewStamps'
    BY DEF Stamps, Elems
  <2> HIDE DEF st, Elems, NewStamps
  <2> QED BY ONLY <2>1, <2>2, <2>3 DEF Stamps
<1>4. SoundInv'
  BY <1>2, <1>3, SoundTold DEF AudioInv, Takes
<1>5. \A s : Mute(Stamps, s) => Mute(Stamps', s)
  <2>1. st.event.kind \notin {"started", "ended"}
    BY <1>1 DEF Notice
  <2> HIDE DEF st
  <2> QED BY ONLY <1>3, <2>1 DEF Mute
<1>6. TakenInv'
  BY <1>2, <1>5 DEF AudioInv, TakenInv
<1>7. LoggedInv'
  BY <1>2, LoggedSame DEF AudioInv
<1> QED BY <1>4, <1>6, <1>7 DEF AudioInv

LEMMA TakeChunkAudio ==
  ASSUME TypeOK, PresentInv, StampsInv, StartInv, LifeInv, AudioInv, TakeChunk
  PROVE  AudioInv'
<1> DEFINE h == Head(queue)  x == h.id  n == h.len  old == step.bufs  new == step'.bufs
<1>1. /\ pc = "running" /\ queue # <<>> /\ h.kind = "audio" /\ new = old \o Units(x, n)
      /\ UNCHANGED <<log, timeline, eventQueue, begun, nextPresent, coalescing, cancelled, active, pc, buffer>>
      /\ ~StartupCancelled /\ queue' = Tail(queue)
      /\ step'.isStart = step.isStart /\ step'.events = step.events
  BY DEF TakeChunk, Consuming, historyVars, inputVars, TypeOK, StepLocals
<1>2. h \in QueueItem /\ Follows(h, Told) /\ Lawful(Told) /\ Tail(queue) \in Seq(QueueItem)
      /\ x \in Segments /\ n \in Nat
  BY <1>1, HeadFollows, QueueItemCases
<1>3. Has(Told, "started", x) /\ ~Has(Told, "ended", x)
  BY <1>1, <1>2 DEF Follows
<1>4. x = active
  BY <1>1, <1>2, ToldType, OnAirAppend DEF LifeInv
<1>5. x \in begun /\ ~Has(queue, "started", x)
  <2>1. Lawful(Told \o queue)
    BY DEF LifeInv, Course
  <2>2. ~Has(queue, "started", x)
    BY <1>3, <2>1, OnceAcross, ToldType
  <2>3. Has(Course, "started", x)
    BY <1>3, HasJoin, ToldType DEF Course
  <2> QED BY <1>2, <2>2, <2>3 DEF LifeInv
<1>6. /\ Len(old) = step.consumed /\ step.consumed \in Nat /\ Len(buffer) \in Nat /\ nextPresent \in Nat
      /\ StampNow = nextPresent + Len(buffer) + step.consumed /\ old \in Seq(Unit)
  BY <1>1, NumbersType DEF PresentInv, AudioSuffices, InStep, TypeOK, StepLocals
<1>7. \A k \in DOMAIN new : \/ k \in DOMAIN old /\ new[k] = old[k]
                            \/ new[k] = x /\ StampNow <= nextPresent + Len(buffer) + k - 1
  <2> DEFINE pad == Units(x, n)
  <2>1. x \in Unit
    BY <1>2 DEF Unit
  <2>2. pad \in Seq(Unit) /\ Len(pad) = n
    BY <1>2, <2>1, UnitsType
  <2>3. \A k \in 1..n : pad[k] = x
    BY DEF Units
  <2>4. new = old \o pad
    BY <1>1
  <2> HIDE DEF pad, old, new
  <2>5. /\ new \in Seq(Unit) /\ Len(new) = Len(old) + Len(pad)
        /\ \A k \in 1..(Len(old) + Len(pad)) : new[k] = IF k <= Len(old) THEN old[k] ELSE pad[k - Len(old)]
    BY <1>6, <2>2, <2>4, ConcatProperties
  <2>6. DOMAIN new = 1..(Len(old) + n) /\ DOMAIN old = 1..Len(old)
    BY <1>6, <2>2, <2>5, LenProperties
  <2>7. ASSUME NEW k \in DOMAIN new
        PROVE  \/ k \in DOMAIN old /\ new[k] = old[k]
               \/ new[k] = x /\ StampNow <= nextPresent + Len(buffer) + k - 1
    <3> HIDE DEF x, n, StampNow
    <3>1. CASE k <= Len(old)
      <4>1. k \in 1..Len(old)
        BY ONLY <1>2, <1>6, <2>6, <2>7, <3>1
      <4>2. new[k] = old[k]
        BY ONLY <2>2, <2>5, <2>6, <2>7, <3>1
      <4>3. k \in DOMAIN old
        BY ONLY <2>6, <4>1
      <4> QED BY <4>2, <4>3
    <3>2. CASE ~(k <= Len(old))
      <4>1. k - Len(old) \in 1..n /\ StampNow <= nextPresent + Len(buffer) + k - 1
        BY ONLY <1>2, <1>6, <2>6, <2>7, <3>2
      <4>2. new[k] = pad[k - Len(old)]
        BY ONLY <2>2, <2>5, <2>6, <2>7, <3>2
      <4> QED BY ONLY <2>3, <4>1, <4>2
    <3> QED BY <3>1, <3>2
  <2> QED BY <2>7
<1> HIDE DEF h, x, n, old, new
<1>8. (StartupCancelled' <=> StartupCancelled) /\ Stamps' = Stamps
  BY <1>1, StampsSame DEF StartupCancelled
<1>9. \A st \in Stamps : st.at <= StampNow
  <2>1. AllUpTo(eventQueue, StampNow) /\ AllUpTo(step.events, StampNow)
    BY <1>1 DEF StampsInv, NewInv, InStep
  <2>2. \A st \in Elems(log) : st.at <= StampNow
    <3>1. \A i \in DOMAIN log : log[i].at < nextPresent /\ log[i].at \in Int
      BY ToldType, StampsAreInt DEF AudioInv, LoggedInv
    <3>2. StampNow \in Int /\ nextPresent <= StampNow /\ nextPresent \in Int
      BY <1>6
    <3> HIDE DEF StampNow
    <3> QED BY ONLY <3>1, <3>2 DEF Elems
  <2>3. \A st \in Elems(eventQueue) : st.at <= StampNow
    BY <2>1 DEF AllUpTo, Elems
  <2>4. \A st \in NewStamps : st.at <= StampNow
    BY <2>1 DEF AllUpTo, NewStamps, Elems
  <2> QED BY <2>2, <2>3, <2>4 DEF Stamps
<1>10. ASSUME NEW p \in Int, StampNow <= p PROVE Heard(x, p)
  <2>1. ASSUME NEW st \in Stamps, st.event.id = x
        PROVE  (st.event.kind = "started" => st.at <= p) /\ (st.event.kind = "ended" => p < st.at)
    <3>1. st.event.kind # "ended"
      BY <1>3, <2>1, StampsTold
    <3>2. st.at <= StampNow /\ st.at \in Int /\ StampNow \in Int
      BY <1>6, <1>9, <2>1, StampsTold
    <3> HIDE DEF StampNow
    <3>3. st.at <= p
      BY ONLY <1>10, <3>2
    <3> QED BY <3>1, <3>3
  <2> QED BY <1>5, <2>1 DEF Heard, Hears, Within
<1>11. \A s : Has(queue', "started", s) => Has(queue, "started", s)
  BY <1>1, TailHas DEF TypeOK
<1>12. \A u, p : Heard(u, p) => Heard(u, p)'
  BY <1>1, <1>8, <1>11, HearsKept DEF Heard
<1>13. \A k \in DOMAIN timeline : Heard(timeline[k], k - 1)'
  BY <1>1, <1>12 DEF AudioInv, SoundInv
<1>14. \A k \in DOMAIN buffer : Heard(buffer[k], nextPresent + k - 1)'
  BY <1>1, <1>12 DEF AudioInv, SoundInv
<1>15. ASSUME NEW k \in DOMAIN new PROVE Heard(new[k], nextPresent + Len(buffer) + k - 1)
  <2>1. CASE k \in DOMAIN old /\ new[k] = old[k]
    BY <1>1, <2>1 DEF AudioInv, SoundInv, old
  <2>2. CASE new[k] = x /\ StampNow <= nextPresent + Len(buffer) + k - 1
    <3>1. DOMAIN new \subseteq Int
      <4>1. new \in Seq(Unit)
        <5>1. x \in Unit
          BY <1>2 DEF Unit
        <5> QED BY <1>1, <1>2, <1>6, <5>1, AppendUnitsType
      <4> QED BY <4>1, LenProperties
    <3>2. nextPresent + Len(buffer) + k - 1 \in Int
      BY <1>6, <1>15, <3>1
    <3> QED BY <1>10, <2>2, <3>2
  <2> QED BY <1>7, <1>15, <2>1, <2>2
<1>16. \A k \in DOMAIN step'.bufs : Heard(step.bufs[k], nextPresent + Len(buffer) + k - 1)'
  BY <1>1, <1>12, <1>15 DEF new
<1>17. SoundInv'
  BY <1>1, <1>13, <1>14, <1>16 DEF SoundInv
<1>18. x = coalescing \/ ~step.isStart
  BY <1>1, <1>4 DEF StartInv
<1>19. TakenInv'
  <2>1. ASSUME NEW k \in DOMAIN new
        PROVE  \/ new[k] = Silence \/ Mute(Stamps, new[k])
               \/ step.isStart /\ new[k] = coalescing
               \/ ~step.isStart /\ new[k] = active
    <3>1. CASE k \in DOMAIN old /\ new[k] = old[k]
      BY <1>1, <3>1 DEF AudioInv, TakenInv, old
    <3>2. CASE new[k] = x
      BY <1>4, <1>18, <3>2
    <3> QED BY <1>7, <2>1, <3>1, <3>2
  <2> QED BY <1>1, <1>8, <2>1 DEF TakenInv, new
<1>20. LoggedInv'
  BY <1>1, LoggedSame DEF AudioInv
<1> QED BY <1>17, <1>19, <1>20 DEF AudioInv

\* What an interrupt keeps of the buffer: a first part, or as much silence.
LEMMA KeptAudio ==
  ASSUME TypeOK, Interrupt
  PROVE  /\ Len(buffer') \in Nat /\ Len(buffer') <= Len(buffer) /\ DOMAIN buffer' \subseteq DOMAIN buffer
         /\ \A k \in DOMAIN buffer' : buffer'[k] = buffer[k] \/ buffer'[k] = Silence
<1> DEFINE n == Shorter(Future, Len(buffer))
<1>1. n \in Nat /\ n <= Len(buffer) /\ Len(buffer) \in Nat /\ Future \in Nat /\ buffer \in Seq(Unit)
  BY NumbersType DEF TypeOK
<1>2. KeptBuffer \in Seq(Unit) /\ Len(KeptBuffer) = n
  BY KeptBufferType
<1>3. KeptBuffer = SubSeq(buffer, 1, n) /\ \A k \in 1..n : buffer[k] \in Unit /\ SubSeq(buffer, 1, n)[k] = buffer[k]
  <2>1. KeptBuffer = SubSeq(buffer, 1, n)
    BY DEF KeptBuffer, FirstPart
  <2>2. \A k \in 1..n : buffer[k] \in Unit
    <3>1. \A k \in 1..Len(buffer) : buffer[k] \in Unit
      BY <1>1, ElementOfSeq
    <3> QED BY <1>1, <3>1
  <2>3. \A k \in 1..n : SubSeq(buffer, 1, n)[k] = buffer[k]
    <3> HIDE DEF n
    <3> QED BY <1>1, <2>2, SubSeqProperties
  <2> QED BY <2>1, <2>2, <2>3
<1>4. DOMAIN KeptBuffer = 1..n /\ DOMAIN buffer = 1..Len(buffer)
  BY <1>1, <1>2, LenProperties
<1>5. DOMAIN Units(Silence, n) = 1..n /\ Len(Units(Silence, n)) = n /\ \A k \in 1..n : Units(Silence, n)[k] = Silence
  BY <1>1, UnitsType DEF Units, Unit
<1>6. buffer' = KeptBuffer \/ buffer' = Units(Silence, n)
  BY <1>2 DEF Interrupt, InterruptCoalescing, InterruptPendingStart, InterruptPlaying, InterruptSilent
<1> HIDE DEF n
<1>7. 1..n \subseteq 1..Len(buffer)
  BY <1>1
<1> QED BY <1>1, <1>2, <1>3, <1>4, <1>5, <1>6, <1>7

\* The segments the interrupted queue starts: none.
LEMMA InterruptedStarts ==
  ASSUME Interrupt
  PROVE  \A s : ~Has(queue', "started", s)
BY DEF Has, Interrupt, InterruptCoalescing, InterruptPendingStart, InterruptPlaying, InterruptSilent,
       Cancelled, Ended, Interrupted

\* In mid-segment, the audio the step has taken can be heard as early as the next chunk
\* starts, before the interrupt and after it.
LEMMA MidsegmentAudio ==
  ASSUME TypeOK, StepInv, StartInv, LifeInv, AudioInv, Interrupt, pc = "midsegment",
         NEW k \in DOMAIN step.bufs
  PROVE  LET u == step.bufs[k] IN
         /\ u = Silence \/ Mute(Stamps', u) \/ u = active'
         /\ \A p \in Int : nextPresent <= p => u = Silence \/ Within(Stamps', u, p)
<1> DEFINE u == step.bufs[k]
<1>1. /\ ~step.isStart /\ step.events = <<>> /\ coalescing = None /\ ~StartupCancelled
      /\ UNCHANGED <<log, step, nextPresent, coalescing>>
  BY DEF StepInv, StartInv, StartupCancelled, Interrupt, historyVars
<1>2. NewStamps = {} /\ NewStamps' = {} /\ StepFacts = <<>> /\ StepFacts' = <<>>
  <2>1. Elems(step.events) = {} /\ Facts(step.events) = <<>>
    BY <1>1, ElemsEmpty, FactsEmpty
  <2>2. Elems(step'.events) = {} /\ Facts(step'.events) = <<>>
    BY <1>1, <2>1
  <2>3. NewStamps' = IF StartupCancelled' THEN {} ELSE Elems(step'.events)
    BY DEF NewStamps, Elems
  <2>4. StepFacts' = IF StartupCancelled' THEN <<>> ELSE Facts(step'.events)
    BY DEF StepFacts, Facts
  <2> QED BY <1>1, <2>1, <2>2, <2>3, <2>4 DEF NewStamps, StepFacts
<1>3. Stamps = Elems(log) \cup Elems(eventQueue) /\ Stamps' = Elems(log) \cup Elems(eventQueue')
  BY <1>1, <1>2 DEF Stamps, Elems
<1>4. u = Silence \/ Mute(Stamps, u) \/ u = active
  BY <1>1 DEF AudioInv, TakenInv
<1>5. u # None \/ u = Silence
  BY TakenType
<1>6. ASSUME u = active, active # None PROVE ~Has(Told, "ended", u) /\ Has(Told, "started", u)
  BY <1>6 DEF LifeInv, OnAir
<1> HIDE DEF u
<1>7. ASSUME Stamps' \subseteq Stamps, Mute(Stamps, u)
      PROVE  Mute(Stamps', u) /\ \A p \in Int : Within(Stamps', u, p)
  BY ONLY <1>7 DEF Mute, Within
<1>8. CASE InterruptSilent
  <2>1. active = None /\ eventQueue' = eventQueue
    BY <1>8 DEF InterruptSilent
  <2>2. Stamps' = Stamps
    BY <1>3, <2>1
  <2> QED BY <1>4, <1>5, <1>7, <2>1, <2>2 DEF u
<1>9. CASE InterruptPlaying
  <2>1. active' = active /\ eventQueue' = eventQueue /\ active # None /\ ~StartPending
    BY <1>9 DEF InterruptPlaying
  <2>2. Stamps' = Stamps
    BY <1>3, <2>1
  <2>3. ASSUME u = active, NEW p \in Int, nextPresent <= p PROVE Within(Stamps, u, p)
    <3>1. ASSUME NEW st \in Stamps, st.event.id = u, st.event.kind = "started" PROVE st.at <= p
      <4>1. st \notin Elems(eventQueue)
        <5> SUFFICES ASSUME NEW i \in DOMAIN eventQueue, st = eventQueue[i] PROVE FALSE
          BY DEF Elems
        <5>1. st.event \in SegmentEvent /\ st.event.kind = "started"
          BY <3>1, StampsTold DEF Stamped
        <5>2. st.event = Started(st.event.id)
          BY <5>1 DEF SegmentEvent, Started
        <5> QED BY <2>1, <2>3, <3>1, <5>2 DEF StartPending, StartPendingAt
      <4>2. st \in Elems(log)
        BY <1>3, <3>1, <4>1
      <4>3. st.at < nextPresent /\ st.at \in Int /\ nextPresent \in Int
        BY <3>1, <4>2, StampsTold, NumbersType DEF AudioInv, LoggedInv, Elems
      <4> QED BY ONLY <2>3, <4>3
    <3>2. \A st \in Stamps : st.event.id = u => st.event.kind # "ended"
      BY <1>6, <2>1, <2>3, StampsTold
    <3> QED BY ONLY <3>1, <3>2 DEF Within
  <2>4. u = Silence \/ Mute(Stamps', u) \/ u = active'
    BY <1>4, <2>1, <2>2
  <2>5. \A p \in Int : nextPresent <= p => u = Silence \/ Within(Stamps', u, p)
    BY <1>4, <1>7, <2>2, <2>3
  <2> QED BY <2>4, <2>5 DEF u
<1>10. CASE InterruptPendingStart
  <2>1. /\ Told' \in Seq(QueueItem) /\ OnAir(Told', None)
        /\ \E i \in DOMAIN eventQueue : Lacks(eventQueue', eventQueue, i) /\ eventQueue' \in Seq(Stamped)
    BY <1>1, <1>10, PendingStartTold DEF InterruptPendingStart
  <2>2. Elems(eventQueue') \subseteq Elems(eventQueue) /\ eventQueue' \in Seq(Stamped)
    BY <2>1, ElemsLacks, ToldType
  <2>3. Stamps' \subseteq Stamps
    BY <1>3, <2>2
  <2>4. active \in Segments
    BY <1>10 DEF InterruptPendingStart, StartPending, TypeOK
  <2>5. \A kind, s : Has(Told', kind, s) <=> \E st \in Stamps' : st.event.kind = kind /\ st.event.id = s
    <3> DEFINE q == eventQueue'
    <3>1. Told' = (Facts(log) \o Facts(q)) \o <<>>
      BY <1>1, <1>2 DEF Told, Facts
    <3>2. Facts(log) \in Seq(QueueItem) /\ Facts(q) \in Seq(QueueItem) /\ <<>> \in Seq(QueueItem)
      BY <2>2, FactsType, ToldType, FactsEmpty
    <3>3. Facts(log) \o Facts(q) \in Seq(QueueItem)
      BY <3>2, ConcatProperties
    <3>4. \A kind, s : Has(Facts(log) \o Facts(q), kind, s) <=> Has(Facts(log), kind, s) \/ Has(Facts(q), kind, s)
      BY <3>2, HasJoin
    <3>5. \A kind, s : Has(Told', kind, s) <=> Has(Facts(log) \o Facts(q), kind, s) \/ Has(<<>>, kind, s)
      BY <3>1, <3>2, <3>3, HasJoin
    <3>6. \A kind, s : ~Has(<<>>, kind, s)
      BY DEF Has
    <3>7. \A kind, s : Has(Facts(q), kind, s) <=> \E st \in Elems(q) : st.event.kind = kind /\ st.event.id = s
      BY <2>2, ElemsType
    <3>8. \A kind, s : Has(Facts(log), kind, s) <=> \E st \in Elems(log) : st.event.kind = kind /\ st.event.id = s
      BY ElemsType, ToldType
    <3>9. Stamps' = Elems(log) \cup Elems(q)
      BY <1>3
    <3> HIDE DEF q
    <3> QED BY ONLY <3>4, <3>5, <3>6, <3>7, <3>8, <3>9
  <2>6. ~Has(Told', "ended", active)
    BY <1>6, <2>3, <2>4, <2>5, StampsTold, NameAssumption DEF LifeInv, OnAir
  <2>7. ~Has(Told', "started", active)
    BY <2>1, <2>4, <2>6, NameAssumption DEF OnAir
  <2>8. Mute(Stamps', active) /\ \A p \in Int : Within(Stamps', active, p)
    BY <2>5, <2>6, <2>7 DEF Mute, Within
  <2> QED BY <1>4, <1>7, <2>3, <2>8 DEF u
<1>11. ~InterruptCoalescing
  BY <1>1 DEF InterruptCoalescing
<1> QED BY <1>8, <1>9, <1>10, <1>11 DEF Interrupt

LEMMA InterruptAudio ==
  ASSUME TypeOK, StepInv, StartInv, LifeInv, AudioInv, Interrupt, Listening
  PROVE  AudioInv'
<1>1. /\ UNCHANGED <<log, timeline, step, begun, nextPresent, coalescing, pc>>
      /\ pc \in {"idle", "coalescing", "midsegment"}
  BY DEF Interrupt, Listening, historyVars
<1>2. \A s : Has(queue', "started", s) => Has(queue, "started", s)
  BY InterruptedStarts
<1>3. StartupCancelled => StartupCancelled'
  <2> SUFFICES ASSUME StartupCancelled PROVE cancelled' = coalescing'
    BY <1>1 DEF StartupCancelled
  <2>1. coalescing # None /\ cancelled = coalescing
    BY DEF StartupCancelled, StepInv
  <2> QED BY <1>1, <2>1 DEF Interrupt, InterruptCoalescing, InterruptPendingStart, InterruptPlaying,
                            InterruptSilent
<1>4. Elems(eventQueue') \subseteq Elems(eventQueue)
  <2>1. CASE InterruptPendingStart
    <3>1. \E i \in DOMAIN eventQueue : Lacks(eventQueue', eventQueue, i) /\ eventQueue' \in Seq(Stamped)
      BY <1>1, <2>1, PendingStartTold DEF InterruptPendingStart
    <3> QED BY <3>1, ElemsLacks, ToldType
  <2>2. CASE ~InterruptPendingStart
    <3>1. eventQueue' = eventQueue
      BY <2>2 DEF Interrupt, InterruptCoalescing, InterruptPlaying, InterruptSilent
    <3> QED BY <3>1
  <2> QED BY <2>1, <2>2
<1>5. Stamps' \subseteq Stamps
  <2>1. NewStamps' \subseteq NewStamps
    BY <1>1, <1>3 DEF NewStamps, Elems
  <2>2. Elems(log') = Elems(log)
    BY <1>1
  <2>3. Stamps' = (Elems(log') \cup Elems(eventQueue')) \cup NewStamps'
    BY DEF Stamps, Elems
  <2> QED BY <1>4, <2>1, <2>2, <2>3 DEF Stamps
<1>6. \A u, p : Heard(u, p) => Heard(u, p)'
  BY <1>1, <1>2, <1>5, HearsKept DEF Heard
<1>7. \A k \in DOMAIN timeline : Heard(timeline[k], k - 1)'
  BY <1>1, <1>6 DEF AudioInv, SoundInv
<1>8. \A k \in DOMAIN buffer' : Heard(buffer[k], nextPresent + k - 1)'
  <2>1. ASSUME NEW k \in DOMAIN buffer', buffer'[k] = buffer[k]
        PROVE  Heard(buffer[k], nextPresent + k - 1)'
    BY <1>1, <1>6, <2>1, KeptAudio DEF AudioInv, SoundInv
  <2>2. ASSUME NEW k \in DOMAIN buffer', buffer'[k] = Silence
        PROVE  Heard(buffer[k], nextPresent + k - 1)'
    BY <2>2 DEF Heard, Hears
  <2> QED BY <2>1, <2>2, KeptAudio
<1>9. CASE pc = "midsegment"
  <2>1. ASSUME NEW k \in DOMAIN step.bufs, ~StartupCancelled'
        PROVE  Heard(step.bufs[k], nextPresent + Len(buffer) + k - 1)'
    <3> DEFINE u == step.bufs[k]  p == nextPresent + Len(buffer') + k - 1
    <3>1. k \in Nat \ {0}
      <4>1. step.bufs \in Seq(Unit)
        BY DEF TypeOK, StepLocals
      <4> QED BY <2>1, <4>1, LenProperties
    <3>2. p \in Int /\ nextPresent <= p
      <4>1. Len(buffer') \in Nat /\ nextPresent \in Nat
        BY KeptAudio, NumbersType
      <4> QED BY ONLY <3>1, <4>1
    <3>3. u = Silence \/ Within(Stamps', u, p)
      BY <1>9, <2>1, <3>2, MidsegmentAudio
    <3>4. u # Silence => u \in begun
      BY <1>3, <2>1 DEF AudioInv, SoundInv, Heard, Hears
    <3>5. u # Silence => ~Has(queue', "started", u)
      BY InterruptedStarts
    <3> QED BY <1>1, <3>3, <3>4, <3>5 DEF Heard, Hears
  <2>2. SoundInv'
    BY <1>1, <1>7, <1>8, <2>1 DEF SoundInv
  <2>3. TakenInv'
    <3>1. ~step.isStart
      BY <1>9 DEF StepInv
    <3> QED BY <1>1, <1>9, <3>1, MidsegmentAudio DEF TakenInv
  <2> QED BY <1>1, <2>2, <2>3, LoggedSame DEF AudioInv
<1>10. CASE pc = "idle"
  <2>1. step'.bufs = <<>>
    BY <1>1, <1>10 DEF AudioInv, TakenInv
  <2>2. SoundInv'
    BY <1>1, <1>7, <1>8, <2>1 DEF SoundInv
  <2>3. TakenInv'
    BY <2>1 DEF TakenInv
  <2> QED BY <1>1, <2>2, <2>3, LoggedSame DEF AudioInv
<1>11. CASE pc = "coalescing"
  <2>1. StartupCancelled' /\ pc' = "coalescing"
    BY <1>1, <1>11 DEF StepInv, StartupCancelled, Interrupt, InterruptCoalescing,
                       InterruptPendingStart, InterruptPlaying, InterruptSilent
  <2>2. SoundInv'
    BY <1>1, <1>7, <1>8, <2>1 DEF SoundInv
  <2>3. TakenInv'
    BY <2>1 DEF TakenInv
  <2> QED BY <1>1, <2>2, <2>3, LoggedSame DEF AudioInv
<1> QED BY <1>1, <1>9, <1>10, <1>11

\* The stamps after a step: those of before it, the step's own moved with its audio.
LEMMA FinishStamps ==
  ASSUME TypeOK, Finish
  PROVE  /\ Stamps' = (Elems(log) \cup Elems(eventQueue)) \cup Elems(FinishedEvents)
         /\ \A st \in Elems(FinishedEvents) :
               ~StartupCancelled
               /\ \E old \in NewStamps : st.event = old.event
                                         /\ st.at = old.at + (IF PadsLeft THEN MissingUnits ELSE 0)
<1> DEFINE out == SubSeq(eventQueue \o FinishedEvents, 1, DueCount(eventQueue \o FinishedEvents, nextPresent + Present))
           q == eventQueue'  f == FinishedEvents
<1>1. /\ f \in Seq(Stamped) /\ out \in Seq(Stamped) /\ q \in Seq(Stamped)
      /\ log' = log \o out /\ out \o q = eventQueue \o f /\ step'.events = <<>>
      /\ log \in Seq(Stamped) /\ eventQueue \in Seq(Stamped) /\ step.events \in Seq(Stamped)
  BY FinishParts, ToldType
<1> HIDE DEF out, f
<1>2. Elems(log') = Elems(log) \cup Elems(out)
  BY <1>1, ElemsJoin
<1>3. Elems(out) \cup Elems(q) = Elems(eventQueue) \cup Elems(f)
  <2>1. Elems(out \o q) = Elems(out) \cup Elems(q)
    BY <1>1, ElemsJoin
  <2>2. Elems(eventQueue \o f) = Elems(eventQueue) \cup Elems(f)
    BY <1>1, ElemsJoin
  <2> QED BY <1>1, <2>1, <2>2
<1>4. Stamps' = (Elems(log') \cup Elems(q)) \cup NewStamps' /\ NewStamps' = {}
  <2>1. NewStamps' = IF StartupCancelled' THEN {} ELSE Elems(step'.events)
    BY DEF NewStamps, Elems
  <2>2. Elems(step'.events) = {}
    BY <1>1, ElemsEmpty
  <2>3. Stamps' = (Elems(log') \cup Elems(q)) \cup NewStamps'
    BY DEF Stamps, Elems
  <2> QED BY <2>1, <2>2, <2>3
<1>5. Stamps' = (Elems(log) \cup Elems(eventQueue)) \cup Elems(f)
  <2> HIDE DEF q, Elems, NewStamps, Stamps
  <2> QED BY <1>2, <1>3, <1>4
<1>6. ASSUME NEW st \in Elems(f)
      PROVE  ~StartupCancelled
             /\ \E old \in NewStamps : st.event = old.event
                                       /\ st.at = old.at + (IF PadsLeft THEN MissingUnits ELSE 0)
  <2> DEFINE d == IF PadsLeft THEN MissingUnits ELSE 0
  <2>1. ~StartupCancelled
    BY <1>6, ElemsEmpty DEF f, FinishedEvents
  <2>2. f = ShiftedBy(step.events, d)
    BY <2>1 DEF f, FinishedEvents
  <2>3. d \in Nat
    BY MissingUnitsType
  <2> HIDE DEF d
  <2>4. \E old \in Elems(step.events) : st.event = old.event /\ st.at = old.at + d
    BY <1>1, <1>6, <2>2, <2>3, ElemsShifted
  <2> QED BY <2>1, <2>4 DEF NewStamps, d
<1> QED BY <1>5, <1>6 DEF f

\* How far the audio of the step is moved: by the padding before it.
Moved == IF PadsLeft THEN MissingUnits ELSE 0

\* The units of the filled buffer: silence, what was there, or what the step took.
LEMMA FilledUnits ==
  ASSUME TypeOK
  PROVE  /\ FilledBuffer \in Seq(Unit) /\ Moved \in Nat
         /\ \A k \in DOMAIN FilledBuffer :
               \/ FilledBuffer[k] = Silence
               \/ k \in DOMAIN buffer /\ FilledBuffer[k] = buffer[k]
               \/ /\ ~StartupCancelled
                  /\ \E j \in DOMAIN step.bufs : FilledBuffer[k] = step.bufs[j] /\ k = Len(buffer) + Moved + j
<1> DEFINE pad == Units(Silence, MissingUnits)
           audio == IF StartupCancelled THEN <<>> ELSE step.bufs
           l == Len(buffer)  m == MissingUnits  a == Len(audio)
<1>1. m \in Nat /\ Moved \in Nat /\ FilledBuffer \in Seq(Unit)
  BY MissingUnitsType, FilledBufferType DEF Moved
<1>2. pad \in Seq(Unit) /\ Len(pad) = m /\ \A k \in 1..m : pad[k] = Silence
  BY <1>1, UnitsType DEF Unit, Units
<1>3. buffer \in Seq(Unit) /\ audio \in Seq(Unit) /\ l \in Nat /\ a \in Nat /\ DOMAIN buffer = 1..l /\ DOMAIN audio = 1..a
  <2>1. buffer \in Seq(Unit) /\ step.bufs \in Seq(Unit)
    BY DEF TypeOK, StepLocals
  <2>2. audio \in Seq(Unit)
    BY <2>1, EmptySeq
  <2> HIDE DEF audio
  <2> QED BY <2>1, <2>2, LenProperties
<1>4. \A j \in DOMAIN audio : ~StartupCancelled /\ j \in DOMAIN step.bufs /\ audio[j] = step.bufs[j]
  OBVIOUS
<1>5. FilledBuffer = IF PadsLeft THEN (buffer \o pad) \o audio ELSE (buffer \o audio) \o pad
  BY DEF FilledBuffer
<1> HIDE DEF pad, audio, l, m, a
<1>6. ASSUME NEW x \in Seq(Unit), NEW y \in Seq(Unit), NEW n, n = Len(buffer) + Len(x),
             NEW f, f = (buffer \o x) \o y
      PROVE  /\ Len(x) \in Nat /\ Len(y) \in Nat /\ DOMAIN f = 1..(n + Len(y))
             /\ \A k \in 1..(n + Len(y)) :
                   \/ k \in 1..Len(buffer) /\ f[k] = buffer[k]
                   \/ k - Len(buffer) \in 1..Len(x) /\ f[k] = x[k - Len(buffer)]
                   \/ k - n \in 1..Len(y) /\ f[k] = y[k - n]
  <2> DEFINE bx == buffer \o x
  <2>1. Len(buffer) \in Nat /\ Len(x) \in Nat /\ Len(y) \in Nat
    BY <1>3, <1>6, LenProperties
  <2>2. /\ bx \in Seq(Unit) /\ Len(bx) = Len(buffer) + Len(x)
        /\ \A k \in 1..(Len(buffer) + Len(x)) : bx[k] = IF k <= Len(buffer) THEN buffer[k] ELSE x[k - Len(buffer)]
    BY <1>3, <1>6, ConcatProperties
  <2>3. f = bx \o y
    BY <1>6
  <2> HIDE DEF bx
  <2>4. /\ f \in Seq(Unit) /\ Len(f) = Len(bx) + Len(y)
        /\ \A k \in 1..(Len(bx) + Len(y)) : f[k] = IF k <= Len(bx) THEN bx[k] ELSE y[k - Len(bx)]
    <3>1. bx \in Seq(Unit) /\ y \in Seq(Unit)
      BY <1>6, <2>2
    <3>2. /\ bx \o y \in Seq(Unit) /\ Len(bx \o y) = Len(bx) + Len(y)
          /\ \A k \in 1..(Len(bx) + Len(y)) : (bx \o y)[k] = IF k <= Len(bx) THEN bx[k] ELSE y[k - Len(bx)]
      BY ONLY <3>1, ConcatProperties
    <3> QED BY ONLY <2>3, <3>2
  <2>5. Len(bx) = n /\ n \in Nat
    BY ONLY <1>6, <2>1, <2>2
  <2>6. DOMAIN f = 1..(n + Len(y))
    BY <2>4, <2>5, LenProperties
  <2>7. ASSUME NEW k \in 1..(n + Len(y))
        PROVE  \/ k \in 1..Len(buffer) /\ f[k] = buffer[k]
               \/ k - Len(buffer) \in 1..Len(x) /\ f[k] = x[k - Len(buffer)]
               \/ k - n \in 1..Len(y) /\ f[k] = y[k - n]
    <3>1. CASE k <= Len(buffer)
      <4>1. k <= n /\ k \in 1..Len(buffer) /\ k \in 1..(Len(buffer) + Len(x))
        BY ONLY <1>6, <2>1, <2>5, <2>7, <3>1
      <4>2. f[k] = bx[k]
        BY ONLY <2>4, <2>5, <2>7, <4>1
      <4>3. bx[k] = buffer[k]
        BY ONLY <2>2, <3>1, <4>1
      <4> QED BY <4>1, <4>2, <4>3
    <3>2. CASE ~(k <= Len(buffer)) /\ k <= n
      <4>1. k - Len(buffer) \in 1..Len(x) /\ k \in 1..(Len(buffer) + Len(x))
        BY ONLY <1>6, <2>1, <2>5, <2>7, <3>2
      <4>2. f[k] = bx[k]
        BY ONLY <2>4, <2>5, <2>7, <3>2
      <4>3. bx[k] = x[k - Len(buffer)]
        BY ONLY <2>2, <3>2, <4>1
      <4> QED BY <4>1, <4>2, <4>3
    <3>3. CASE ~(k <= n)
      <4>1. k - n \in 1..Len(y)
        BY ONLY <2>1, <2>5, <2>7, <3>3
      <4>2. f[k] = y[k - n]
        BY ONLY <2>4, <2>5, <2>7, <3>3
      <4> QED BY <4>1, <4>2
    <3> QED BY <3>1, <3>2, <3>3
  <2> QED BY <2>1, <2>6, <2>7
<1>7. CASE PadsLeft
  <2> DEFINE n == Len(buffer) + Len(pad)  f == FilledBuffer
  <2>1. /\ DOMAIN f = 1..(n + Len(audio))
        /\ \A k \in 1..(n + Len(audio)) :
              \/ k \in 1..Len(buffer) /\ f[k] = buffer[k]
              \/ k - Len(buffer) \in 1..Len(pad) /\ f[k] = pad[k - Len(buffer)]
              \/ k - n \in 1..Len(audio) /\ f[k] = audio[k - n]
    <3>1. pad \in Seq(Unit) /\ audio \in Seq(Unit) /\ n = Len(buffer) + Len(pad) /\ f = (buffer \o pad) \o audio
      BY <1>2, <1>3, <1>5, <1>7
    <3> HIDE DEF n, f
    <3> QED BY <1>6, <3>1
  <2>2. Moved = m /\ n \in Nat /\ n = Len(buffer) + m
    BY <1>1, <1>2, <1>3, <1>7 DEF Moved, m, l
  <2> HIDE DEF n, f
  <2>3. ASSUME NEW k \in DOMAIN f
        PROVE  \/ f[k] = Silence
               \/ k \in DOMAIN buffer /\ f[k] = buffer[k]
               \/ /\ ~StartupCancelled
                  /\ \E j \in DOMAIN step.bufs : f[k] = step.bufs[j] /\ k = Len(buffer) + Moved + j
    <3>1. CASE k \in 1..Len(buffer) /\ f[k] = buffer[k]
      BY <1>3, <3>1 DEF l
    <3>2. CASE k - Len(buffer) \in 1..Len(pad) /\ f[k] = pad[k - Len(buffer)]
      BY <1>2, <3>2
    <3>3. CASE k - n \in 1..Len(audio) /\ f[k] = audio[k - n]
      <4>1. k - n \in DOMAIN audio /\ k = Len(buffer) + Moved + (k - n)
        <5>1. k \in Int
          BY <1>3, <2>1, <2>2, <2>3 DEF a
        <5>2. Len(buffer) \in Nat
          BY <1>3 DEF l
        <5>3. k = Len(buffer) + Moved + (k - n)
          BY ONLY <1>1, <2>2, <5>1, <5>2
        <5> QED BY <1>3, <3>3, <5>3 DEF a
      <4> QED BY <1>4, <3>3, <4>1
    <3> QED BY <2>1, <2>3, <3>1, <3>2, <3>3
  <2> QED BY <1>1, <2>3 DEF f
<1>8. CASE ~PadsLeft
  <2> DEFINE n == Len(buffer) + Len(audio)  f == FilledBuffer
  <2>1. /\ DOMAIN f = 1..(n + Len(pad))
        /\ \A k \in 1..(n + Len(pad)) :
              \/ k \in 1..Len(buffer) /\ f[k] = buffer[k]
              \/ k - Len(buffer) \in 1..Len(audio) /\ f[k] = audio[k - Len(buffer)]
              \/ k - n \in 1..Len(pad) /\ f[k] = pad[k - n]
    <3>1. pad \in Seq(Unit) /\ audio \in Seq(Unit) /\ n = Len(buffer) + Len(audio) /\ f = (buffer \o audio) \o pad
      BY <1>2, <1>3, <1>5, <1>8
    <3> HIDE DEF n, f
    <3> QED BY <1>6, <3>1
  <2>2. Moved = 0 /\ n \in Nat /\ Len(buffer) \in Nat /\ DOMAIN f \subseteq Int
    BY <1>1, <1>2, <1>3, <1>8, <2>1 DEF Moved, l, a
  <2> HIDE DEF n, f
  <2>3. ASSUME NEW k \in DOMAIN f
        PROVE  \/ f[k] = Silence
               \/ k \in DOMAIN buffer /\ f[k] = buffer[k]
               \/ /\ ~StartupCancelled
                  /\ \E j \in DOMAIN step.bufs : f[k] = step.bufs[j] /\ k = Len(buffer) + Moved + j
    <3>1. CASE k \in 1..Len(buffer) /\ f[k] = buffer[k]
      BY <1>3, <3>1 DEF l
    <3>2. CASE k - n \in 1..Len(pad) /\ f[k] = pad[k - n]
      BY <1>2, <3>2
    <3>3. CASE k - Len(buffer) \in 1..Len(audio) /\ f[k] = audio[k - Len(buffer)]
      <4>1. k = Len(buffer) + Moved + (k - Len(buffer))
        BY ONLY <2>2, <2>3
      <4>2. k - Len(buffer) \in DOMAIN audio
        BY <1>3, <3>3 DEF a
      <4> QED BY <1>4, <3>3, <4>1, <4>2
    <3> QED BY <2>1, <2>3, <3>1, <3>2, <3>3
  <2> QED BY <1>1, <2>3 DEF f
<1> QED BY <1>7, <1>8

\* Padding on the left moves one event: the start of the segment on air, behind what is buffered.
LEMMA PadsStart ==
  ASSUME TypeOK, PaddingInv, StartInv, Finish, PadsLeft
  PROVE  /\ step.isStart /\ active = coalescing /\ active # None
         /\ \A old \in NewStamps : /\ old.event.kind = "started" /\ old.event.id = coalescing
                                   /\ nextPresent + Len(buffer) <= old.at
<1>1. ~StartupCancelled /\ active # None /\ MissingUnits > 0 /\ pc = "finishing"
  BY DEF PadsLeft, Finish
<1>2. step.toConsume > 0 /\ step.toConsume \in Int
  <2>1. step.toConsume \in Int
    BY DEF TypeOK, StepLocals
  <2>2. MissingUnits = AtLeastZero(step.toConsume)
    BY <1>1 DEF MissingUnits
  <2> QED BY <1>1, <2>1, <2>2 DEF AtLeastZero
<1>3. step.isStart
  BY <1>1, <1>2 DEF PaddingInv
<1>4. /\ active = coalescing /\ Len(step.events) = 1
      /\ step.events[1].event.kind = "started" /\ step.events[1].event.id = coalescing
      /\ nextPresent + Len(buffer) <= step.events[1].at
  BY <1>1, <1>3 DEF StartInv
<1>5. DOMAIN step.events = {1}
  <2>1. DOMAIN step.events = 1..1
    BY <1>4, ToldType, LenProperties
  <2> QED BY <2>1
<1> QED BY <1>1, <1>3, <1>4, <1>5 DEF NewStamps, Elems

\* The unit u can be heard at time p after the step.
HeardNext(u, p) == Hears(Stamps', begun', queue', u, p)

\* What was heard before the padding is heard where it was.
LEMMA HeardBefore ==
  ASSUME TypeOK, PaddingInv, StartInv, Finish, NEW u, NEW p \in Int, p < nextPresent + Len(buffer), Heard(u, p)
  PROVE  HeardNext(u, p)
<1>1. UNCHANGED <<begun, queue>>
  BY DEF Finish, inputVars
<1>2. u # Silence => Within(Stamps, u, p) /\ u \in begun /\ ~Has(queue, "started", u)
  BY DEF Heard, Hears
<1>3. ASSUME u # Silence, NEW st \in Stamps', st.event.id = u
      PROVE  (st.event.kind = "started" => st.at <= p) /\ (st.event.kind = "ended" => p < st.at)
  <2>1. CASE st \in Elems(log) \cup Elems(eventQueue)
    BY <1>2, <1>3, <2>1 DEF Within, Stamps
  <2>2. CASE st \in Elems(FinishedEvents)
    <3>1. PICK old \in NewStamps : st.event = old.event
                                   /\ st.at = old.at + (IF PadsLeft THEN MissingUnits ELSE 0)
      BY <2>2, FinishStamps
    <3>2. old \in Stamps /\ old.at \in Int
      <4>1. old \in Stamps
        BY <3>1 DEF Stamps
      <4> QED BY <4>1, StampsTold
    <3>3. (old.event.kind = "started" => old.at <= p) /\ (old.event.kind = "ended" => p < old.at)
      BY <1>2, <1>3, <3>1, <3>2 DEF Within
    <3>4. CASE PadsLeft
      <4>1. old.event.kind = "started" /\ nextPresent + Len(buffer) <= old.at
        BY <3>1, <3>4, PadsStart
      <4>2. nextPresent + Len(buffer) \in Int
        BY NumbersType
      <4>3. old.at <= p
        BY <3>3, <4>1
      <4>4. FALSE
        BY <3>2, <4>1, <4>2, <4>3
      <4> QED BY <4>4
    <3>5. CASE ~PadsLeft
      <4>1. st.at = old.at
        BY <3>1, <3>2, <3>5
      <4> QED BY <3>1, <3>3, <4>1
    <3> QED BY <3>4, <3>5
  <2> QED BY <1>3, <2>1, <2>2, FinishStamps
<1> QED BY <1>1, <1>2, <1>3 DEF HeardNext, Hears, Within

\* What the step took is heard where the padding moves it.
LEMMA HeardMoved ==
  ASSUME TypeOK, PaddingInv, StartInv, LifeInv, AudioInv, Finish, ~StartupCancelled, NEW j \in DOMAIN step.bufs,
         NEW p \in Int, p = nextPresent + Len(buffer) + j - 1
  PROVE  HeardNext(step.bufs[j], p + Moved)
<1> DEFINE u == step.bufs[j]
<1>1. UNCHANGED <<begun, queue>>
  BY DEF Finish, inputVars
<1>2. u # Silence => Within(Stamps, u, p) /\ u \in begun /\ ~Has(queue, "started", u)
  BY DEF AudioInv, SoundInv, Heard, Hears
<1>3. Moved \in Nat /\ Moved = IF PadsLeft THEN MissingUnits ELSE 0
  BY FilledUnits DEF Moved
<1>4. ASSUME PadsLeft, u # Silence, NEW st \in Stamps, st.event.id = u PROVE st.event.kind # "ended"
  <2>1. step.isStart /\ active = coalescing /\ active # None
    BY <1>4, PadsStart
  <2>2. Mute(Stamps, u) \/ u = active
    BY <1>4, <2>1 DEF AudioInv, TakenInv
  <2>3. u = active => ~Has(Told, "ended", u)
    BY <2>1 DEF LifeInv, OnAir
  <2> QED BY <1>4, <2>2, <2>3, StampsTold DEF Mute
<1> HIDE DEF u
<1>5. ASSUME u # Silence, NEW st \in Stamps', st.event.id = u
      PROVE  (st.event.kind = "started" => st.at <= p + Moved) /\ (st.event.kind = "ended" => p + Moved < st.at)
  <2>1. CASE st \in Elems(log) \cup Elems(eventQueue)
    <3>1. st \in Stamps /\ st.at \in Int
      <4>1. st \in Stamps
        BY <2>1 DEF Stamps
      <4> QED BY <4>1, StampsTold
    <3>2. (st.event.kind = "started" => st.at <= p) /\ (st.event.kind = "ended" => p < st.at)
      BY <1>2, <1>5, <3>1 DEF Within
    <3>3. PadsLeft => st.event.kind # "ended"
      BY <1>4, <1>5, <3>1
    <3>4. st.event.kind = "started" => st.at <= p + Moved
      BY ONLY <1>3, <3>1, <3>2, p \in Int
    <3>5. st.event.kind = "ended" => p + Moved < st.at
      <4>1. ~PadsLeft => Moved = 0
        BY <1>3
      <4> QED BY ONLY <3>1, <3>2, <3>3, <4>1, p \in Int
    <3> QED BY <3>4, <3>5
  <2>2. CASE st \in Elems(FinishedEvents)
    <3>1. PICK old \in NewStamps : st.event = old.event
                                   /\ st.at = old.at + (IF PadsLeft THEN MissingUnits ELSE 0)
      BY <2>2, FinishStamps
    <3>2. old \in Stamps /\ old.at \in Int /\ st.at = old.at + Moved /\ st.event = old.event
      <4>1. old \in Stamps
        BY <3>1 DEF Stamps
      <4> QED BY <1>3, <3>1, <4>1, StampsTold
    <3>3. (old.event.kind = "started" => old.at <= p) /\ (old.event.kind = "ended" => p < old.at)
      BY <1>2, <1>5, <3>2 DEF Within
    <3>4. (old.at <= p => old.at + Moved <= p + Moved) /\ (p < old.at => p + Moved < old.at + Moved)
      BY ONLY <1>3, <3>2, p \in Int
    <3> QED BY <3>2, <3>3, <3>4
  <2> QED BY <1>5, <2>1, <2>2, FinishStamps
<1> QED BY <1>1, <1>2, <1>5 DEF HeardNext, Hears, Within, u

LEMMA FinishHeard ==
  ASSUME TypeOK, PaddingInv, StartInv, LifeInv, AudioInv, Finish, NEW k \in DOMAIN FilledBuffer
  PROVE  HeardNext(FilledBuffer[k], nextPresent + k - 1)
<1> DEFINE u == FilledBuffer[k]  p == nextPresent + k - 1
<1>1. k \in Nat /\ Len(buffer) \in Nat /\ nextPresent \in Nat /\ Moved \in Nat
      /\ DOMAIN buffer = 1..Len(buffer) /\ DOMAIN step.bufs \subseteq Int
  <2>1. k \in Nat /\ Moved \in Nat
    BY FilledUnits, LenProperties
  <2>2. DOMAIN buffer = 1..Len(buffer) /\ DOMAIN step.bufs \subseteq Int
    BY LenProperties DEF TypeOK, StepLocals
  <2> QED BY <2>1, <2>2, NumbersType
<1>2. CASE FilledBuffer[k] = Silence
  BY <1>2 DEF HeardNext, Hears
<1>3. CASE k \in DOMAIN buffer /\ FilledBuffer[k] = buffer[k]
  <2>1. Heard(buffer[k], p)
    BY <1>3 DEF AudioInv, SoundInv
  <2>2. p \in Int /\ p < nextPresent + Len(buffer)
    BY <1>1, <1>3
  <2> HIDE DEF p
  <2>3. HeardNext(buffer[k], p)
    BY <2>1, <2>2, HeardBefore
  <2> QED BY <1>3, <2>3 DEF p
<1>4. CASE ~StartupCancelled /\ \E j \in DOMAIN step.bufs : FilledBuffer[k] = step.bufs[j] /\ k = Len(buffer) + Moved + j
  <2>1. PICK j \in DOMAIN step.bufs : FilledBuffer[k] = step.bufs[j] /\ k = Len(buffer) + Moved + j
    BY <1>4
  <2> DEFINE r == nextPresent + Len(buffer) + j - 1
  <2>2. r \in Int /\ p = r + Moved
    BY <1>1, <2>1
  <2>3. HeardNext(step.bufs[j], r + Moved)
    BY <1>4, <2>1, <2>2, HeardMoved
  <2> HIDE DEF r
  <2> QED BY <2>1, <2>2, <2>3
<1> QED BY <1>2, <1>3, <1>4, FilledUnits

LEMMA FinishAudio ==
  ASSUME TypeOK, TypeOK', PresentInv, PresentInv', PaddingInv, StampsInv, StartInv, LifeInv, AudioInv, Finish
  PROVE  AudioInv'
<1> DEFINE f == FilledBuffer  a == FirstPart(f, Present)  n == nextPresent  l == Len(f)
<1>1. /\ timeline' = timeline \o a /\ buffer' = SecondPart(f, Present) /\ nextPresent' = n + Present
      /\ step' = IdleStep /\ pc' = "idle"
  BY DEF Finish
<1>2. /\ Len(timeline) = n /\ Len(timeline') = n + Present /\ n \in Nat /\ Present \in Nat
      /\ timeline \in Seq(Unit) /\ f \in Seq(Unit) /\ l \in Nat /\ DOMAIN f = 1..l
  BY <1>1, NumbersType, FilledBufferType, LenProperties DEF PresentInv, PresentNeverShort, TypeOK
<1>3. \A k \in DOMAIN f : HeardNext(f[k], n + k - 1)
  BY FinishHeard
<1>4. \A k \in DOMAIN timeline : HeardNext(timeline[k], k - 1)
  <2>1. DOMAIN timeline = 1..n /\ Len(buffer) \in Nat
    BY <1>2, LenProperties, NumbersType
  <2>2. ASSUME NEW k \in DOMAIN timeline PROVE HeardNext(timeline[k], k - 1)
    <3>1. Heard(timeline[k], k - 1)
      BY DEF AudioInv, SoundInv
    <3>2. k - 1 \in Int /\ k - 1 < nextPresent + Len(buffer)
      BY <1>2, <2>1, <2>2
    <3> QED BY <3>1, <3>2, HeardBefore
  <2> QED BY <2>2
<1>5. a = SubSeq(f, 1, Shorter(Present, l)) /\ a \in Seq(Unit) /\ Len(a) = Shorter(Present, l)
  BY <1>2, FirstPartType DEF FirstPart
<1> HIDE DEF f, a, n, l
<1>6. Len(timeline') = n + Len(a) /\ Len(a) \in Nat
      /\ \A k \in 1..(n + Len(a)) : timeline'[k] = IF k <= n THEN timeline[k] ELSE a[k - n]
  <2>1. /\ Len(timeline \o a) = Len(timeline) + Len(a)
        /\ \A k \in 1..(Len(timeline) + Len(a)) : (timeline \o a)[k] = IF k <= Len(timeline) THEN timeline[k] ELSE a[k - Len(timeline)]
    BY ONLY <1>2, <1>5, ConcatProperties
  <2>2. Len(a) \in Nat
    BY <1>5, LenProperties
  <2> QED BY ONLY <1>1, <1>2, <2>1, <2>2
<1>7. Len(a) = Present /\ Present <= l /\ Shorter(Present, l) = Present
  BY <1>2, <1>5, <1>6 DEF Shorter
<1>8. \A k \in 1..Present : a[k] = f[k] /\ k \in DOMAIN f
  <2>1. \A k \in 1..Present : k \in 1..l
    BY <1>2, <1>7
  <2>2. \A k \in 1..Present : f[k] \in Unit
    BY <1>2, <2>1, ElementOfSeq DEF l
  <2>3. a = SubSeq(f, 1, Present)
    BY <1>5, <1>7
  <2>4. \A k \in 1..Present : SubSeq(f, 1, Present)[k] = f[k]
    BY <1>2, <2>2, SubSeqProperties
  <2> QED BY <1>2, <2>1, <2>3, <2>4
<1>9. ASSUME NEW k \in DOMAIN timeline' PROVE HeardNext(timeline'[k], k - 1)
  <2>0. DOMAIN timeline' = 1..(n + Present) /\ DOMAIN timeline = 1..n
    BY <1>2, LenProperties DEF TypeOK
  <2>1. CASE k <= n
    <3>1. k \in DOMAIN timeline /\ timeline'[k] = timeline[k]
      BY <1>2, <1>6, <1>7, <1>9, <2>0, <2>1
    <3> QED BY <1>4, <3>1
  <2>2. CASE ~(k <= n)
    <3>1. k - n \in 1..Present /\ timeline'[k] = a[k - n] /\ n + (k - n) - 1 = k - 1
      BY <1>2, <1>6, <1>7, <1>9, <2>0, <2>2
    <3>2. a[k - n] = f[k - n] /\ k - n \in DOMAIN f
      BY <1>8, <3>1
    <3>3. HeardNext(f[k - n], n + (k - n) - 1)
      BY <1>3, <3>2
    <3> QED BY <3>1, <3>2, <3>3
  <2> QED BY <2>1, <2>2
<1>10. ASSUME NEW k \in DOMAIN buffer' PROVE HeardNext(buffer'[k], nextPresent' + k - 1)
  <2>1. buffer' = SubSeq(f, Present + 1, Len(f)) /\ l = Len(f)
    BY <1>1 DEF SecondPart, l
  <2>2. buffer' \in Seq(Unit) /\ Len(buffer') = l - Present /\ \A i \in 1..(l - Present) : buffer'[i] = f[Present + i]
    <3>1. Present <= Len(f)
      BY <1>7, <2>1
    <3> QED BY <1>2, <2>1, <3>1, RestProperties, Zenon
  <2>3. k \in 1..(l - Present)
    BY <1>10, <2>2, LenProperties
  <2>4. Present + k \in DOMAIN f /\ buffer'[k] = f[Present + k] /\ n + (Present + k) - 1 = nextPresent' + k - 1
    <3>1. Present + k \in 1..l /\ n + (Present + k) - 1 = (n + Present) + k - 1
      BY ONLY <1>2, <1>7, <2>3
    <3>2. buffer'[k] = f[Present + k]
      BY ONLY <2>2, <2>3
    <3> QED BY <1>1, <1>2, <3>1, <3>2 DEF n
  <2>5. HeardNext(f[Present + k], n + (Present + k) - 1)
    BY <1>3, <2>4
  <2> QED BY <2>4, <2>5
<1>11. step'.bufs = <<>>
  BY <1>1 DEF IdleStep
<1>12. \A u, p : Heard(u, p)' <=> HeardNext(u, p)
  BY DEF Heard, HeardNext
<1>13. SoundInv'
  <2>1. \A k \in DOMAIN timeline' : Heard(timeline[k], k - 1)'
    BY <1>9 DEF Heard, HeardNext
  <2>2. \A k \in DOMAIN buffer' : Heard(buffer[k], nextPresent + k - 1)'
    BY <1>10 DEF Heard, HeardNext
  <2> QED BY <1>11, <2>1, <2>2 DEF SoundInv
<1>14. TakenInv'
  BY <1>11 DEF TakenInv
<1>15. LoggedInv'
  <2>1. Len(log) \in Nat /\ Len(log') \in Nat /\ Len(log) <= Len(log')
        /\ DOMAIN log = 1..Len(log) /\ DOMAIN log' = 1..Len(log')
        /\ \A i \in 1..Len(log) : log[i].at \in Int
    <3>1. Finish => [Next]_vars
      BY DEF Next, Step
    <3>2. log' \in Seq(Stamped)
      BY DEF TypeOK
    <3>3. Len(log') \in Nat /\ DOMAIN log' = 1..Len(log')
      BY <3>2, LenProperties
    <3> QED BY <3>1, <3>3, LogKept, ToldType, StampsAreInt
  <2>2. \A i \in 1..Len(log) : log'[i] = log[i]
    BY LogKept DEF Next, Step
  <2>3. ASSUME NEW i \in DOMAIN log' PROVE log'[i].at < nextPresent'
    <3>1. CASE i \in 1..Len(log)
      <4>1. log[i].at < nextPresent /\ log[i].at \in Int
        BY <2>1, <3>1 DEF AudioInv, LoggedInv
      <4>2. log'[i] = log[i] /\ nextPresent' = nextPresent + Present
        BY <1>1, <2>2, <3>1 DEF n
      <4> QED BY <1>2, <4>1, <4>2 DEF n
    <3>2. CASE i \in (Len(log) + 1)..Len(log')
      BY <3>2, FinishInWindow DEF StampsInv
    <3>3. i \in 1..Len(log) \/ i \in (Len(log) + 1)..Len(log')
      BY <2>1, <2>3
    <3> QED BY <3>1, <3>2, <3>3
  <2> QED BY <2>3 DEF LoggedInv
<1> QED BY <1>13, <1>14, <1>15 DEF AudioInv

LEMMA AudioStep ==
  ASSUME CourseInv, CourseInv', AudioInv, [Next]_vars
  PROVE  AudioInv'
<1>0. /\ TypeOK /\ PresentInv /\ PaddingInv /\ StampsInv /\ StartInv /\ LifeInv /\ QueueInv /\ StepInv
      /\ TypeOK' /\ PresentInv'
  BY DEF CourseInv, SchedulerInv, StampsInv
<1>1. CASE Appends
  BY <1>0, <1>1, AppendsAudio
<1>2. CASE Interrupt /\ Listening
  BY <1>0, <1>2, InterruptAudio
<1>3. CASE Sweep
  BY <1>0, <1>3, SweepAudio
<1>4. CASE BeginStep
  BY <1>0, <1>4, BeginAudio
<1>5. CASE Takes
  BY <1>0, <1>5, TakeStartedAudio, TakeEndedAudio, TakeChunkAudio, TakeNoticeAudio DEF Takes
<1>6. CASE Moves
  BY <1>0, <1>6, MovesAudio
<1>7. CASE Finish
  BY <1>0, <1>7, FinishAudio
<1>8. CASE UNCHANGED vars
  <2>1. UNCHANGED <<log, timeline, eventQueue, step, coalescing, cancelled, active, begun, buffer, nextPresent, queue, pc>>
    BY <1>8 DEF vars, inputVars, historyVars
  <2>2. (StartupCancelled' <=> StartupCancelled) /\ Stamps' = Stamps
    BY <2>1, StampsSame DEF StartupCancelled
  <2>3. SoundInv'
    BY <2>1, <2>2, SoundKept DEF AudioInv
  <2>4. TakenInv'
    BY <2>1, <2>2 DEF AudioInv, TakenInv
  <2> QED BY <2>1, <2>3, <2>4, LoggedSame DEF AudioInv
<1> QED BY <1>1, <1>2, <1>3, <1>4, <1>5, <1>6, <1>7, <1>8, StepCases

\* A segment's audio is heard between its reported start and its reported end, as their
\* stamps place them on the stream, and when the render loop ends without an exception every
\* segment reported as started was reported as ended.
THEOREM SegmentsWhole == Spec => []SegmentsAreWhole
<1>1. Init => AudioInv
  <2> SUFFICES ASSUME Init PROVE AudioInv
    OBVIOUS
  <2>1. timeline = <<>> /\ buffer = <<>> /\ step.bufs = <<>> /\ log = <<>>
    BY DEF Init, IdleStep
  <2> QED BY <2>1 DEF AudioInv, SoundInv, TakenInv, LoggedInv
<1>2. CourseInv /\ CourseInv' /\ AudioInv /\ [Next]_vars => AudioInv'
  BY AudioStep
<1>3. AudioInv => AudioInsideSegment
  <2> SUFFICES ASSUME AudioInv, NEW k \in DOMAIN timeline, timeline[k] # Silence
               PROVE  /\ \A i \in Logged("started", timeline[k]) : log[i].at <= k - 1
                      /\ \A i \in Logged("ended", timeline[k]) : k - 1 < log[i].at
    BY DEF AudioInsideSegment
  <2>1. Within(Stamps, timeline[k], k - 1)
    BY DEF AudioInv, SoundInv, Heard, Hears
  <2>2. \A i \in DOMAIN log : log[i] \in Stamps
    BY DEF Stamps, Elems
  <2> QED BY <2>1, <2>2 DEF Within, Logged
<1>4. AudioInsideSegment /\ StoppedMeansClosed => SegmentsAreWhole
  BY DEF SegmentsAreWhole
<1> QED BY <1>1, <1>2, <1>3, <1>4, CourseInit, CourseStep, StoppedClosed, PTL DEF Spec
=============================================================================
