--------------------------- MODULE MemoryWorklet ---------------------------
(***************************************************************************)
(* How a session remembers what its user says (memory/worklet.py): the     *)
(* worklet takes final transcripts from the bus into a bounded queue, each *)
(* once, a task extracts what is worth keeping and submits it, and the end *)
(* of the session waits for that task, but not for long.                   *)
(***************************************************************************)
EXTENDS Naturals, Sequences, SequencesExt, FiniteSets

CONSTANTS
    Sayings,    \* transcripts, by the digest of session, time and text
    WaitRoom,   \* queue_size
    SeenRoom,   \* digests remembered (512)
    MostHeard   \* bound: transcripts the bus brings

ASSUME MemoryAssumption == {WaitRoom, MostHeard} \subseteq Nat /\ SeenRoom \in Nat \ {0}

VARIABLES
    worklet,    \* run: hearing, draining, over
    extractor,  \* _consume: idle, busy or gone, and the transcript it works on
    waiting,    \* the queue of transcripts
    seen,       \* _seen_turns, by age
    brought,    \* transcripts the bus has brought
    accepted,   \* those that were queued, in order
    settled     \* those whose extraction has ended, in order

memoryVars == <<worklet, extractor, waiting, seen, brought, accepted, settled>>

NoOne == [at |-> "idle", hand |-> <<>>]

MemoryInit ==
    /\ worklet = "hearing" /\ extractor = NoOne /\ brought = 0
    /\ waiting = <<>> /\ seen = <<>> /\ accepted = <<>> /\ settled = <<>>

\* The oldest digest goes when there are too many.
Remembered(t) == IF Len(seen) < SeenRoom THEN Append(seen, t) ELSE Append(Tail(seen), t)

\* As HearSaying would be if a transcript counted as seen before it has found room.
HearSayingFirst(t) ==
    /\ worklet = "hearing" /\ brought < MostHeard /\ brought' = brought + 1
    /\ UNCHANGED <<worklet, extractor, settled>>
    /\ seen' = IF Contains(seen, t) THEN seen ELSE Remembered(t)
    /\ IF Contains(seen, t) \/ Len(waiting) >= WaitRoom
         THEN UNCHANGED <<waiting, accepted>>
         ELSE waiting' = Append(waiting, t) /\ accepted' = Append(accepted, t)

\* A transcript that was seen is skipped; one that finds no room is dropped, and taken
\* if it is heard again.
HearSaying(t) ==
    /\ worklet = "hearing" /\ brought < MostHeard /\ brought' = brought + 1
    /\ UNCHANGED <<worklet, extractor, settled>>
    /\ IF Contains(seen, t) \/ Len(waiting) >= WaitRoom
         THEN UNCHANGED <<waiting, seen, accepted>>
         ELSE /\ waiting' = Append(waiting, t) /\ accepted' = Append(accepted, t)
              /\ seen' = Remembered(t)

BeginExtraction ==
    /\ extractor.at = "idle" /\ waiting # <<>>
    /\ extractor' = [at |-> "busy", hand |-> <<Head(waiting)>>] /\ waiting' = Tail(waiting)
    /\ UNCHANGED <<worklet, seen, brought, accepted, settled>>

\* The batch is submitted, has nothing in it, or the extraction has failed.
EndExtraction ==
    /\ extractor.at = "busy" /\ extractor' = NoOne
    /\ settled' = settled \o extractor.hand
    /\ UNCHANGED <<worklet, waiting, seen, brought, accepted>>

\* A shutdown, or the session is cancelled.
StopHearing ==
    /\ worklet = "hearing" /\ worklet' = "draining"
    /\ UNCHANGED <<extractor, waiting, seen, brought, accepted, settled>>

\* Nothing is left to do, or 0.25 seconds are over: the task is cancelled, the result of
\* its thread is not looked at, and the queue is emptied unless a cancellation comes first.
EndDrain ==
    /\ worklet = "draining" /\ worklet' = "over"
    /\ extractor' = [at |-> "gone", hand |-> <<>>] /\ waiting' \in {<<>>, waiting}
    /\ UNCHANGED <<seen, brought, accepted, settled>>

\* Cancelled while it drains, the worklet leaves its task to itself.
AbandonDrain ==
    /\ worklet = "draining" /\ worklet' = "over"
    /\ UNCHANGED <<extractor, waiting, seen, brought, accepted, settled>>

MemoryNext ==
    \/ \E t \in Sayings : HearSaying(t)
    \/ BeginExtraction \/ EndExtraction \/ StopHearing \/ EndDrain \/ AbandonDrain

\* What was accepted is worked off in order, nothing of it lost while the worklet or its
\* task lives; nothing is accepted twice while its digest is remembered, and only what
\* was accepted is, so what found no room can be said again.
SayingsAreKept ==
    /\ extractor.at # "gone" => accepted = settled \o extractor.hand \o waiting
    /\ extractor.at = "gone" => IsPrefix(settled, accepted)
    /\ \A i \in DOMAIN accepted, j \in DOMAIN accepted :
          i < j /\ accepted[i] = accepted[j] =>
              Cardinality({accepted[k] : k \in (i + 1)..(j - 1)}) >= SeenRoom
    /\ IsSuffix(seen, accepted)
=============================================================================
