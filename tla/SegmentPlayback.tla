-------------------------- MODULE SegmentPlayback --------------------------
(***************************************************************************)
(* What a stream promises the subscribers of its playback events           *)
(* (src/avaturn_live_streamer/events.py, PlaybackEvents): the segments of  *)
(* one avatar are played one after another, each is started at most once,  *)
(* completes after it started, is reported interrupted after its           *)
(* completion only, and is cancelled only if it never started.             *)
(***************************************************************************)
EXTENDS Naturals

CONSTANT Segments

VARIABLE phase  \* what the subscribers were told of each segment

Phases == {"silent", "playing", "completed", "interrupted", "cancelled"}

Init == phase = [s \in Segments |-> "silent"]

\* SegmentPlaybackStarted
Start(s) ==
    /\ phase[s] = "silent"
    /\ \A t \in Segments : phase[t] # "playing"
    /\ phase' = [phase EXCEPT ![s] = "playing"]

\* SegmentPlaybackCompleted
Complete(s) ==
    /\ phase[s] = "playing"
    /\ phase' = [phase EXCEPT ![s] = "completed"]

\* SegmentPlaybackInterrupted, which the renderer sends after a completion
Interrupt(s) ==
    /\ phase[s] = "completed"
    /\ phase' = [phase EXCEPT ![s] = "interrupted"]

\* SegmentPlaybackCancelled
Cancel(s) ==
    /\ phase[s] = "silent"
    /\ phase' = [phase EXCEPT ![s] = "cancelled"]

Next == \E s \in Segments : Start(s) \/ Complete(s) \/ Interrupt(s) \/ Cancel(s)

Spec == Init /\ [][Next]_phase
=============================================================================
