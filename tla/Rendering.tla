----------------------------- MODULE Rendering -----------------------------
(***************************************************************************)
(* The rendering worklet of one stream                                     *)
(* (src/avaturn_live_streamer/worklets/rendering.py): its bus listener and *)
(* its render loop share a SpeechScheduler and the metadata of the         *)
(* segments.  After each step the loop publishes the returned events one   *)
(* by one, and the listener may run at every publication; the frames the   *)
(* renderer makes of the chunks are not modelled.                          *)
(*                                                                         *)
(* The events of a step are the tail of the scheduler's log not dispatched *)
(* yet.  The user's scheduler runs in the same loop, which ignores its     *)
(* events.                                                                 *)
(***************************************************************************)
EXTENDS SpeechScheduler

VARIABLES
    metadata,    \* the keys of _segment_metadata
    dispatched   \* how many events of log the loop is done with

renderingVars == <<vars, metadata, dispatched>>

RenderingInit == Init /\ metadata = {} /\ dispatched = 0

Outbox == SubSeq(log, dispatched + 1, Len(log))

-----------------------------------------------------------------------------
\* SegmentGenerationStarted: the metadata is stored before the scheduler is told.
GenerationStarted(s) ==
    /\ StartSegment(s)
    /\ metadata' = IF role = "avatar" THEN metadata \cup {s} ELSE metadata
    /\ UNCHANGED dispatched

ListenBus ==
    \/ \E s \in Segments : GenerationStarted(s)
    \/ /\ \/ \E s \in Segments :
                \/ \E n \in ChunkLengths : AppendChunk(s, n)
                \/ EndSegment(s)
          \/ Discard
          \/ ShutdownAvatar
          \/ ShutdownUser
          \/ Sweep
       /\ UNCHANGED <<metadata, dispatched>>

\* An event is published only under one of these patterns.  SegmentCancelled is
\* matched by an attribute it does not have, so it falls through to the warning.
Published(e) == e.kind \in {"started", "ended", "interrupted"}

\* Publishing the end of a segment pops its metadata.
Dispatch ==
    /\ role = "avatar"
    /\ pc = "idle" /\ sweep = <<>>
    /\ Outbox # <<>>
    /\ dispatched' = dispatched + 1
    /\ LET e == Head(Outbox).event
       IN  metadata' = IF e.kind \in {"ended", "interrupted"}
                       THEN metadata \ {e.id} ELSE metadata
    /\ UNCHANGED vars

RenderStep ==
    /\ role = "user" \/ Outbox = <<>>
    /\ BeginStep
    /\ UNCHANGED <<metadata, dispatched>>

RunStep == Step /\ UNCHANGED <<metadata, dispatched>>

RenderLoop == Dispatch \/ RenderStep \/ RunStep

RenderingEnded == LoopEnded /\ (role = "user" \/ Outbox = <<>>)
RenderingTerminated == RenderingEnded /\ UNCHANGED renderingVars

RenderingNext == ListenBus \/ Dispatch \/ RenderStep \/ RunStep \/ RenderingTerminated

\* The event loop runs the render task whenever it is ready.
RenderingSpec == RenderingInit /\ [][RenderingNext]_renderingVars /\ WF_renderingVars(RenderLoop)
         /\ WF_renderingVars(Sweep /\ UNCHANGED <<metadata, dispatched>>)

-----------------------------------------------------------------------------
(* Properties.                                                             *)

\* What the subscribers of the playback events were told of a segment.
PhaseOf(s) ==
    LET told == {i \in 1..dispatched :
                    log[i].event.id = s /\ Published(log[i].event)}
        kinds == {log[i].event.kind : i \in told}
    IN  CASE "interrupted" \in kinds -> "interrupted"
          [] "interrupted" \notin kinds /\ "ended" \in kinds -> "completed"
          [] kinds = {"started"} -> "playing"
          [] OTHER -> "silent"

Playback == INSTANCE SegmentPlayback WITH phase <- [s \in Segments |-> PhaseOf(s)]

\* The published events implement the abstract life of a segment.
PlaybackSpec == Playback!Spec

\* After the shutdown the render loop ends: no step waits for audio any more.
ShutdownEndsLoop == stopping ~> RenderingEnded
=============================================================================
