-------------------------- MODULE SpeechScheduler --------------------------
(***************************************************************************)
(* The speech scheduler of one stream                                      *)
(* (src/avaturn_live_streamer/speech/speech_scheduler.py): it turns the    *)
(* segments a conversation engine generates into render steps, each made   *)
(* of a present chunk (played now) and a future chunk (look-ahead), and    *)
(* stamps every segment event with the stream time it takes effect.        *)
(*                                                                         *)
(* Two asyncio tasks share one scheduler.  The render loop calls do_step;  *)
(* the bus listener of RenderingWorklet calls start_segment, append,       *)
(* end_segment, interrupt and stop.  A task runs until it awaits, so the   *)
(* consuming loop of do_step is cut at its two awaits only: in "running"   *)
(* and "finishing" the render task holds the event loop, and the listener  *)
(* acts in every other state.  The listener's operations never suspend     *)
(* (the condition's lock is free whenever they run), each is one action.   *)
(*                                                                         *)
(* Durations are counted in units, one unit is the greatest common divisor *)
(* of the durations in play.  A buffer is the sequence of its units, each  *)
(* tagged with the segment whose audio it is, or Silence.  Time n is the   *)
(* instant before unit n + 1 of the stream.  _autoclosed_segments is only  *)
(* ever written by the code and is left out.                               *)
(***************************************************************************)
EXTENDS Integers, Sequences

CONSTANTS
    Segments,      \* segment identifiers, each generated at most once
    None,          \* no segment
    Silence,       \* a unit of padding
    Present,       \* present_duration, in units
    Future,        \* future_duration, in units
    ChunkLengths,  \* the lengths an appended chunk can have
    MaxAudio,      \* bound: units of audio one segment is given
    MaxSteps,      \* bound: steps before the stream is shut down
    MaxDiscards    \* bound: DiscardAvatarSpeechBuffer events

ASSUME DurationAssumption ==
    /\ Present \in Nat \ {0}
    /\ Future \in Nat
    /\ Present <= Future
    /\ ChunkLengths \subseteq Nat \ {0}
    /\ MaxAudio \in Nat /\ MaxSteps \in Nat /\ MaxDiscards \in Nat

ASSUME NameAssumption == None \notin Segments /\ Silence \notin Segments

VARIABLES
    role,         \* "avatar" or "user": which of the worklet's two schedulers
    writeActive,  \* _write_active_segment
    queue,        \* _queue: segment events and audio chunks
    buffer,       \* _buffer
    eventQueue,   \* _event_queue: stamped events not returned yet
    nextPresent,  \* _next_present_timestamp
    active,       \* _active_segment
    activeStart,  \* _active_segment_start
    coalescing,   \* _coalescing_segment
    cancelled,    \* _cancelled_coalescing_segment
    stopping,     \* _stop
    sweep,        \* the old queue's items a running interrupt still looks at
    signalled,    \* a notify of _new_arrival the waiting step has not seen
    pc,           \* where do_step is
    step,         \* the local variables of do_step
    begun,        \* segments start_segment was called for
    supplied,     \* units of audio appended, per segment
    discards,     \* interrupts asked for before the shutdown
    log,          \* every event do_step has returned, in order
    timeline      \* every unit do_step has returned as present

inputVars == <<begun, supplied, discards>>
historyVars == <<log, timeline>>
vars == <<role, writeActive, queue, buffer, eventQueue, nextPresent, active,
          activeStart, coalescing, cancelled, stopping, sweep, signalled, pc,
          step, begun, supplied, discards, log, timeline>>

-----------------------------------------------------------------------------
(* Events, stamped events and audio.                                       *)

Started(s) == [kind |-> "started", id |-> s]
Ended(s) == [kind |-> "ended", id |-> s]
Cancelled(s) == [kind |-> "cancelled", id |-> s]
Interrupted(s, d) == [kind |-> "interrupted", id |-> s, played |-> d]
Chunk(s, n) == [kind |-> "audio", id |-> s, len |-> n]

SegmentEvent ==
    [kind : {"started", "ended", "cancelled"}, id : Segments]
        \cup [kind : {"interrupted"}, id : Segments, played : Int]
QueueItem == SegmentEvent \cup [kind : {"audio"}, id : Segments, len : Nat]
Stamped == [event : SegmentEvent, at : Int]
Unit == Segments \cup {Silence}

Units(u, n) == [i \in 1..n |-> u]
Shorter(m, n) == IF m <= n THEN m ELSE n
AtLeastZero(n) == IF n < 0 THEN 0 ELSE n

\* The two parts of a buffer cut after n units; a slice past its end is shorter.
FirstPart(b, n) == SubSeq(b, 1, Shorter(n, Len(b)))
SecondPart(b, n) == SubSeq(b, n + 1, Len(b))

Stamp(e, t) == [event |-> e, at |-> t]
ShiftedBy(evs, d) == [i \in DOMAIN evs |-> Stamp(evs[i].event, evs[i].at + d)]

\* As the timestamp would be if it forgot the audio already buffered.
NextEventTimestampUnbuffered == nextPresent

NextEventTimestamp == nextPresent + Len(buffer)

IdleStep == [bufs |-> <<>>, events |-> <<>>, isStart |-> FALSE,
             toConsume |-> 0, consumed |-> 0]

Init ==
    /\ role \in {"avatar", "user"}
    /\ writeActive = None /\ active = None
    /\ coalescing = None /\ cancelled = None
    /\ queue = <<>> /\ buffer = <<>> /\ eventQueue = <<>>
    /\ nextPresent = 0 /\ activeStart = 0
    /\ stopping = FALSE /\ sweep = <<>> /\ signalled = FALSE
    /\ pc = "idle" /\ step = IdleStep
    /\ begun = {} /\ supplied = [s \in Segments |-> 0] /\ discards = 0
    /\ log = <<>> /\ timeline = <<>>

\* As is_stopped would be if it forgot the events still to be returned.
IsStoppedEarly == stopping /\ queue = <<>>

IsStopped == stopping /\ queue = <<>> /\ eventQueue = <<>>

-----------------------------------------------------------------------------
(* The bus listener.  It leaves its loop on Shutdown, so no operation      *)
(* follows one.  notify wakes the step that waits, if one does.            *)

Waiting == pc \in {"coalescing", "midsegment"}
Listening ==
    /\ sweep = <<>>
    /\ ~stopping
    /\ pc \in {"idle", "coalescing", "midsegment"}

\* As Notify would be without the notify call.
NotifyForgotten == UNCHANGED signalled

Notify == signalled' = (signalled \/ Waiting)

AppendQueue(item) ==
    /\ queue' = Append(queue, item)
    /\ Notify

StartSegment(s) ==
    /\ Listening
    /\ s \notin begun
    /\ writeActive = None
    /\ begun' = begun \cup {s}
    /\ writeActive' = s
    /\ AppendQueue(Started(s))
    /\ UNCHANGED <<role, sweep, buffer, eventQueue, nextPresent, active,
                   activeStart, coalescing, cancelled, stopping, pc, step,
                   supplied, discards, historyVars>>

AppendChunk(s, n) ==
    /\ Listening
    /\ writeActive = s
    /\ supplied[s] + n <= MaxAudio
    /\ supplied' = [supplied EXCEPT ![s] = @ + n]
    /\ AppendQueue(Chunk(s, n))
    /\ UNCHANGED <<role, sweep, writeActive, buffer, eventQueue, nextPresent,
                   active, activeStart, coalescing, cancelled, stopping, pc,
                   step, begun, discards, historyVars>>

EndSegment(s) ==
    /\ Listening
    /\ writeActive = s
    /\ writeActive' = None
    /\ AppendQueue(Ended(s))
    /\ UNCHANGED <<role, sweep, buffer, eventQueue, nextPresent, active,
                   activeStart, coalescing, cancelled, stopping, pc, step,
                   inputVars, historyVars>>

(***************************************************************************)
(* interrupt: drop the audio beyond the look-ahead, close the segment that *)
(* is on air or cancel the one about to be, and replace the queue by the   *)
(* events that say so.  The loop over the old queue turns every segment    *)
(* that waits in it into a cancellation and forgets the rest; sweep is the *)
(* part of the old queue the loop has not reached, and no other task runs  *)
(* before it is done.                                                      *)
(***************************************************************************)
\* As KeptBuffer would be if interrupt dropped the look-ahead too.
KeptNothing == <<>>

KeptBuffer == FirstPart(buffer, Future)

StartPendingAt(i) == eventQueue[i].event = Started(active)
StartPending == active # None /\ \E i \in DOMAIN eventQueue : StartPendingAt(i)

InterruptCoalescing ==
    /\ coalescing # None
    /\ cancelled' = coalescing
    /\ active' = None
    /\ buffer' = KeptBuffer
    /\ queue' = <<Cancelled(coalescing)>>
    /\ UNCHANGED eventQueue

\* A segment starts once, so its start is pending at one place at most.
InterruptPendingStart ==
    /\ coalescing = None
    /\ StartPending
    /\ LET i == CHOOSE i \in DOMAIN eventQueue : StartPendingAt(i)
       IN  eventQueue' = SubSeq(eventQueue, 1, i - 1)
                           \o SubSeq(eventQueue, i + 1, Len(eventQueue))
    /\ buffer' = Units(Silence, Len(KeptBuffer))
    /\ active' = None
    /\ queue' = <<Cancelled(active)>>
    /\ UNCHANGED cancelled

\* As InterruptPlaying would be if it reported the interruption only.
InterruptPlayingUnended ==
    /\ coalescing = None
    /\ active # None /\ ~StartPending
    /\ buffer' = KeptBuffer
    /\ LET played == nextPresent + Len(KeptBuffer) - activeStart
       IN  queue' = <<Interrupted(active, played)>>
    /\ active' = None
    /\ UNCHANGED <<cancelled, eventQueue>>

InterruptPlaying ==
    /\ coalescing = None
    /\ active # None /\ ~StartPending
    /\ buffer' = KeptBuffer
    /\ LET played == nextPresent + Len(KeptBuffer) - activeStart
       IN  queue' = <<Ended(active), Interrupted(active, played)>>
    /\ UNCHANGED <<active, cancelled, eventQueue>>

InterruptSilent ==
    /\ coalescing = None
    /\ active = None
    /\ buffer' = KeptBuffer
    /\ queue' = <<>>
    /\ UNCHANGED <<active, cancelled, eventQueue>>

Interrupt ==
    /\ \/ InterruptCoalescing
       \/ InterruptPendingStart
       \/ InterruptPlaying
       \/ InterruptSilent
    /\ sweep' = queue
    /\ writeActive' = None
    /\ Notify
    /\ UNCHANGED <<role, nextPresent, activeStart, coalescing, pc, step, begun,
                   supplied, historyVars>>

Sweep ==
    /\ sweep # <<>>
    /\ queue' = IF Head(sweep).kind = "started"
                THEN Append(queue, Cancelled(Head(sweep).id)) ELSE queue
    /\ sweep' = Tail(sweep)
    /\ UNCHANGED <<role, writeActive, buffer, eventQueue, nextPresent, active,
                   activeStart, coalescing, cancelled, stopping, signalled, pc,
                   step, inputVars, historyVars>>

\* DiscardAvatarSpeechBuffer
Discard ==
    /\ Listening
    /\ role = "avatar"
    /\ discards < MaxDiscards
    /\ discards' = discards + 1
    /\ Interrupt
    /\ UNCHANGED stopping

\* Shutdown, on the avatar's scheduler: interrupt, then stop with no segment open
ShutdownAvatar ==
    /\ Listening
    /\ role = "avatar"
    /\ stopping' = TRUE
    /\ Interrupt
    /\ UNCHANGED discards

\* As ShutdownUser would be without stop's test for an open segment.
ShutdownUserUntested ==
    /\ Listening
    /\ role = "user"
    /\ stopping' = TRUE
    /\ AppendQueue(Ended(writeActive))
    /\ writeActive' = None
    /\ UNCHANGED <<role, sweep, buffer, eventQueue, nextPresent, active,
                   activeStart, coalescing, cancelled, pc, step, inputVars,
                   historyVars>>

\* Shutdown, on the user's scheduler: stop ends the segment that is open
ShutdownUser ==
    /\ Listening
    /\ role = "user"
    /\ stopping' = TRUE
    /\ \/ /\ writeActive # None
          /\ AppendQueue(Ended(writeActive))
       \/ /\ writeActive = None
          /\ UNCHANGED <<queue, signalled>>
    /\ writeActive' = None
    /\ UNCHANGED <<role, sweep, buffer, eventQueue, nextPresent, active,
                   activeStart, coalescing, cancelled, pc, step, inputVars,
                   historyVars>>

-----------------------------------------------------------------------------
(* The render loop: do_step.                                               *)

\* Steps are bounded until the shutdown only; draining after it is not.
BeginStep ==
    /\ pc = "idle"
    /\ sweep = <<>>
    /\ ~IsStopped
    /\ stopping \/ nextPresent < MaxSteps * Present
    /\ pc' = "running"
    /\ step' = [IdleStep EXCEPT
                   !.toConsume = AtLeastZero(Present + Future - Len(buffer))]
    /\ UNCHANGED <<role, sweep, writeActive, queue, buffer, eventQueue,
                   nextPresent, active, activeStart, coalescing, cancelled,
                   stopping, signalled, inputVars, historyVars>>

StartupCancelled == step.isStart /\ cancelled = coalescing

\* The while loop goes on: more audio is wanted and the segment still stands.
Consuming ==
    /\ pc = "running"
    /\ step.toConsume > 0
    /\ ~StartupCancelled

StampNow == NextEventTimestamp + step.consumed

TakeStarted ==
    /\ Consuming
    /\ queue # <<>> /\ Head(queue).kind = "started"
    /\ step' = [step EXCEPT
                   !.events = Append(@, Stamp(Head(queue), StampNow)),
                   !.isStart = TRUE]
    /\ active' = Head(queue).id
    /\ coalescing' = Head(queue).id
    /\ activeStart' = StampNow
    /\ queue' = Tail(queue)
    /\ UNCHANGED <<role, sweep, writeActive, buffer, eventQueue, nextPresent,
                   cancelled, stopping, signalled, pc, inputVars, historyVars>>

\* A segment's end breaks the loop: no segment starts in the step one ends in.
TakeEnded ==
    /\ Consuming
    /\ queue # <<>> /\ Head(queue).kind = "ended"
    /\ step' = [step EXCEPT !.events = Append(@, Stamp(Head(queue), StampNow))]
    /\ active' = None
    /\ queue' = Tail(queue)
    /\ pc' = "finishing"
    /\ UNCHANGED <<role, sweep, writeActive, buffer, eventQueue, nextPresent,
                   activeStart, coalescing, cancelled, stopping, signalled,
                   inputVars, historyVars>>

TakeChunk ==
    /\ Consuming
    /\ queue # <<>> /\ Head(queue).kind = "audio"
    /\ LET chunk == Head(queue)
       IN  step' = [step EXCEPT !.bufs = @ \o Units(chunk.id, chunk.len),
                                !.toConsume = @ - chunk.len,
                                !.consumed = @ + chunk.len]
    /\ queue' = Tail(queue)
    /\ UNCHANGED <<role, sweep, writeActive, buffer, eventQueue, nextPresent,
                   active, activeStart, coalescing, cancelled, stopping,
                   signalled, pc, inputVars, historyVars>>

\* SegmentInterrupted and SegmentCancelled are stamped and bypass new_events.
TakeNotice ==
    /\ Consuming
    /\ queue # <<>> /\ Head(queue).kind \in {"interrupted", "cancelled"}
    /\ eventQueue' = Append(eventQueue, Stamp(Head(queue), StampNow))
    /\ queue' = Tail(queue)
    /\ UNCHANGED <<role, sweep, writeActive, buffer, nextPresent, active,
                   activeStart, coalescing, cancelled, stopping, signalled, pc,
                   step, inputVars, historyVars>>

\* Leave the task's control flow for another point of do_step.
GoTo(label) ==
    /\ pc' = label
    /\ signalled' = FALSE
    /\ UNCHANGED <<role, sweep, writeActive, queue, buffer, eventQueue,
                   nextPresent, active, activeStart, coalescing, cancelled,
                   stopping, step, inputVars, historyVars>>

\* As StopConsuming would be without the test for an active segment.
StopConsumingMidSegment ==
    /\ pc = "running"
    /\ \/ ~Consuming
       \/ queue = <<>> /\ ~step.isStart
    /\ GoTo("finishing")

StopConsuming ==
    /\ pc = "running"
    /\ \/ ~Consuming
       \/ queue = <<>> /\ ~step.isStart /\ active = None
    /\ GoTo("finishing")

AwaitStartupAudio ==
    /\ Consuming
    /\ queue = <<>> /\ step.isStart
    /\ GoTo("coalescing")

StartupAudioArrives ==
    /\ pc = "coalescing"
    /\ sweep = <<>>
    /\ queue # <<>> \/ cancelled = coalescing
    /\ GoTo("running")

\* The startup deadline passes; a notify it races with is not waited for.
StartupTimesOut ==
    /\ pc = "coalescing"
    /\ sweep = <<>>
    /\ GoTo("finishing")

AwaitArrival ==
    /\ Consuming
    /\ queue = <<>> /\ ~step.isStart /\ active # None
    /\ GoTo("midsegment")

ArrivalWakes ==
    /\ pc = "midsegment"
    /\ sweep = <<>>
    /\ signalled
    /\ queue # <<>>
    /\ GoTo("running")

\* The wait has no predicate: popleft raises IndexError on an empty queue.
ArrivalCrashes ==
    /\ pc = "midsegment"
    /\ sweep = <<>>
    /\ signalled
    /\ queue = <<>>
    /\ GoTo("crashed")

(***************************************************************************)
(* After the loop: pad to the wanted length, on the left of a segment that *)
(* starts and on the right otherwise; cut off the present chunk; return    *)
(* the events whose time is before the next step, in queue order.          *)
(***************************************************************************)
MissingUnits ==
    AtLeastZero(IF StartupCancelled THEN Present + Future - Len(buffer)
                                    ELSE step.toConsume)

PadsLeft == ~StartupCancelled /\ active # None /\ MissingUnits > 0

FilledBuffer ==
    LET pad == Units(Silence, MissingUnits)
        audio == IF StartupCancelled THEN <<>> ELSE step.bufs
    IN  IF PadsLeft THEN buffer \o pad \o audio ELSE buffer \o audio \o pad

FinishedEvents ==
    IF StartupCancelled THEN <<>>
    ELSE ShiftedBy(step.events, IF PadsLeft THEN MissingUnits ELSE 0)

\* As DueCount would be with > for >= in the loop over the event queue.
DueCountLate(evs, t) ==
    CHOOSE n \in 0..Len(evs) :
        /\ \A i \in 1..n : evs[i].at <= t
        /\ n < Len(evs) => evs[n + 1].at > t

\* The number of leading events of evs that are due before time t.
DueCount(evs, t) ==
    CHOOSE n \in 0..Len(evs) :
        /\ \A i \in 1..n : evs[i].at < t
        /\ n < Len(evs) => evs[n + 1].at >= t

Finish ==
    /\ pc = "finishing"
    /\ LET queued == eventQueue \o FinishedEvents
           due == DueCount(queued, nextPresent + Present)
       IN  /\ log' = log \o SubSeq(queued, 1, due)
           /\ eventQueue' = SubSeq(queued, due + 1, Len(queued))
    /\ timeline' = timeline \o FirstPart(FilledBuffer, Present)
    /\ buffer' = SecondPart(FilledBuffer, Present)
    /\ nextPresent' = nextPresent + Present
    /\ coalescing' = IF step.isStart THEN None ELSE coalescing
    /\ cancelled' = IF step.isStart THEN None ELSE cancelled
    /\ pc' = "idle"
    /\ step' = IdleStep
    /\ UNCHANGED <<role, sweep, writeActive, queue, active, activeStart,
                   stopping, signalled, inputVars>>

-----------------------------------------------------------------------------
\* The render loop has ended, by is_stopped or by an exception.
LoopEnded == sweep = <<>> /\ ((pc = "idle" /\ IsStopped) \/ pc = "crashed")
Terminated == LoopEnded /\ UNCHANGED vars

Listen ==
    \/ \E s \in Segments :
          \/ StartSegment(s)
          \/ \E n \in ChunkLengths : AppendChunk(s, n)
          \/ EndSegment(s)
    \/ Discard
    \/ ShutdownAvatar
    \/ ShutdownUser
    \/ Sweep

Step ==
    \/ TakeStarted
    \/ TakeEnded
    \/ TakeChunk
    \/ TakeNotice
    \/ StopConsuming
    \/ AwaitStartupAudio
    \/ StartupAudioArrives
    \/ StartupTimesOut
    \/ AwaitArrival
    \/ ArrivalWakes
    \/ ArrivalCrashes
    \/ Finish

Next == Listen \/ BeginStep \/ Step \/ Terminated

\* The event loop runs every task that is ready; nothing obliges the engine.
Spec == Init /\ [][Next]_vars /\ WF_vars(Sweep \/ BeginStep \/ Step)

-----------------------------------------------------------------------------
(* Properties.                                                             *)

StepLocals == [bufs : Seq(Unit), events : Seq(Stamped), isStart : BOOLEAN,
               toConsume : Int, consumed : Nat]

\* The values the scheduler's fields and do_step's locals can take.
TypeOK ==
    /\ role \in {"avatar", "user"}
    /\ writeActive \in Segments \cup {None}
    /\ queue \in Seq(QueueItem) /\ sweep \in Seq(QueueItem)
    /\ buffer \in Seq(Unit) /\ timeline \in Seq(Unit)
    /\ eventQueue \in Seq(Stamped) /\ log \in Seq(Stamped)
    /\ nextPresent \in Nat /\ activeStart \in Nat
    /\ active \in Segments \cup {None}
    /\ coalescing \in Segments \cup {None}
    /\ cancelled \in Segments \cup {None}
    /\ stopping \in BOOLEAN /\ signalled \in BOOLEAN
    /\ pc \in {"idle", "running", "coalescing", "midsegment", "finishing",
               "crashed"}
    /\ step \in StepLocals
    /\ begun \in SUBSET Segments
    /\ supplied \in [Segments -> Nat]
    /\ discards \in Nat

\* The present chunks do_step returns follow each other without a gap: whatever
\* an interrupt cut from the buffer while a step was waiting, each step returned
\* a chunk of the full present duration.
PresentNeverShort == Len(timeline) = nextPresent

\* do_step's "Should never get here": when audio is missing after the loop, either
\* no segment is active or the one that is has started in this step, so there is
\* a side to pad on.
PaddingHasASide ==
    pc = "finishing" /\ MissingUnits > 0 => active = None \/ step.isStart

Logged(kind, s) ==
    {i \in DOMAIN log : log[i].event.kind = kind /\ log[i].event.id = s}

\* The audio of a segment reported as started, and ended, is heard between the
\* two, as their timestamps place them on the stream.
AudioInsideSegment ==
    pc = "idle" =>
        \A p \in DOMAIN timeline :
            LET s == timeline[p] IN
            s # Silence =>
                /\ \A i \in Logged("started", s) : log[i].at <= p - 1
                /\ \A i \in Logged("ended", s) : p - 1 < log[i].at

\* When the loop ends without an exception, every segment reported as started
\* was reported as ended.
StoppedMeansClosed ==
    pc = "idle" /\ sweep = <<>> /\ IsStopped =>
        \A s \in Segments : Logged("started", s) # {} => Logged("ended", s) # {}

\* A step returns an event in the window of its present chunk, neither late nor
\* early, however buffers were cut and events cancelled since it was stamped.
EventsInWindow ==
    [][\A i \in (Len(log) + 1)..Len(log') :
            nextPresent <= log'[i].at /\ log'[i].at < nextPresent']_log

\* "Block and wait for new arrivals to the queue if we are midsegment": a wait in
\* mid-segment ends with an arrival to pop, never with an exception.  This does not
\* hold: see the README.
WaitEndsWithArrival == pc # "crashed"

\* Each step returns what it should: present chunks without a gap, and padding only where
\* there is a side for it.
StepsAreWhole == TypeOK /\ PresentNeverShort /\ PaddingHasASide

\* A segment is reported as it is heard, and to its end.
SegmentsAreWhole == AudioInsideSegment /\ StoppedMeansClosed
=============================================================================
