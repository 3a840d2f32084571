----------------------------- MODULE PeerMedia -----------------------------
(***************************************************************************)
(* The media of the local peer (localrtc/peer.py) and the workers that     *)
(* carry it (localrtc/worklet.py): frames from the bus to the outbound     *)
(* tracks, the user's audio and the browser's Codex audio to the bus.      *)
(*                                                                         *)
(* Video and what comes in is dropped, oldest first, when a queue is full; *)
(* audio waits for room, and with it the video worker.  External: aiortc,  *)
(* which takes from the tracks until the connection is gone, and the       *)
(* browser.  Connecting and the peer's states are StreamSession's.         *)
(***************************************************************************)
EXTENDS Naturals, Sequences, SequencesExt

CONSTANTS
    VideoQueue, AudioQueue, InboundQueue,  \* queue sizes (2, 64 and 600)
    MdFrames, MdParts,                     \* bounds: frames, 20 ms parts of one
    MdInbound                              \* bound: chunks and messages that come in

ASSUME MediaAssumption ==
    /\ {VideoQueue, AudioQueue, InboundQueue} \subseteq Nat \ {0}
    /\ {MdFrames, MdParts, MdInbound} \subseteq Nat

VARIABLES
    mdIn,      \* events of the video worker: the audio parts of each frame, and Shutdown
    mdRead,    \* history: the frames it has read, as their parts
    mdWorker,  \* its place, and the part of the frame's audio it puts next
    mdTracks,  \* the two outbound queues and whether aiortc takes from them
    mdTaken,   \* history: the audio aiortc has taken, and the last picture
    mdMic,     \* inbound chunks: queued, how many came, which were dropped
    mdUser,    \* the loop that reads them
    mdOut,     \* history: what that loop has published
    mdBridge   \* the data channel: queued, how many came, what was published

mdVars == <<mdIn, mdRead, mdWorker, mdTracks, mdTaken, mdMic, mdUser, mdOut, mdBridge>>
videoVars == <<mdIn, mdRead, mdWorker, mdTracks, mdTaken>>
userVars == <<mdMic, mdUser, mdOut>>

MdShutdown == MdParts + 1
MdInit ==
    /\ mdIn = <<>> /\ mdRead = <<>> /\ mdWorker = [at |-> "first", part |-> 1]
    /\ mdTracks = [video |-> <<>>, audio |-> <<>>, taking |-> TRUE]
    /\ mdTaken = [video |-> <<>>, audio |-> <<>>]
    /\ mdMic = [queue |-> <<>>, came |-> 0, dropped |-> {}]
    /\ mdUser = [at |-> "idle", chunk |-> 0] /\ mdOut = <<>>
    /\ mdBridge = [queue |-> <<>>, came |-> 0, out |-> <<>>]

\* A queue that drops its oldest entry for a new one.
Offered(queue, x, room) == Append(IF Len(queue) < room THEN queue ELSE Tail(queue), x)

-----------------------------------------------------------------------------
(* The video worker.                                                       *)

\* The bus brings a frame, or the shutdown after which the worker reads no more.
MdBrings ==
    /\ ~Contains(mdIn, MdShutdown) /\ mdWorker.at # "over"
    /\ \/ /\ Len(mdRead) + Len(mdIn) < MdFrames
          /\ \E parts \in 0..MdParts : mdIn' = Append(mdIn, parts)
       \/ mdIn' = Append(mdIn, MdShutdown)
    /\ UNCHANGED <<mdRead, mdWorker, mdTracks, mdTaken, userVars, mdBridge>>

\* The first frame starts the clocks and the stream.
ReadFrame ==
    /\ mdWorker.at \in {"first", "next"} /\ mdIn # <<>> /\ mdIn' = Tail(mdIn)
    /\ IF Head(mdIn) = MdShutdown
       THEN mdWorker' = [mdWorker EXCEPT !.at = "over"] /\ UNCHANGED mdRead
       ELSE /\ mdWorker' = [at |-> "video", part |-> 1]
            /\ mdRead' = Append(mdRead, Head(mdIn))
    /\ UNCHANGED <<mdTracks, mdTaken, userVars, mdBridge>>

\* As PushVideo would be if the video track waited for room as the audio track does.
PushVideoWaiting ==
    /\ mdWorker.at = "video" /\ mdWorker' = [mdWorker EXCEPT !.at = "audio"]
    /\ Len(mdTracks.video) < VideoQueue
    /\ mdTracks' = [mdTracks EXCEPT !.video = Append(@, Len(mdRead))]
    /\ UNCHANGED <<mdIn, mdRead, mdTaken, userVars, mdBridge>>

PushVideo ==
    /\ mdWorker.at = "video" /\ mdWorker' = [mdWorker EXCEPT !.at = "audio"]
    /\ mdTracks' = [mdTracks EXCEPT !.video = Offered(@, Len(mdRead), VideoQueue)]
    /\ UNCHANGED <<mdIn, mdRead, mdTaken, userVars, mdBridge>>

\* As PushAudio would be if it dropped what is oldest.
PushAudioDropping ==
    /\ mdWorker.at = "audio" /\ UNCHANGED <<mdIn, mdRead, mdTaken, userVars, mdBridge>>
    /\ IF mdWorker.part > Last(mdRead)
       THEN mdWorker' = [mdWorker EXCEPT !.at = "next"] /\ UNCHANGED mdTracks
       ELSE /\ mdTracks' = [mdTracks EXCEPT
                 !.audio = Offered(@, <<Len(mdRead), mdWorker.part>>, AudioQueue)]
            /\ mdWorker' = [mdWorker EXCEPT !.part = @ + 1]

PushAudio ==
    /\ mdWorker.at = "audio" /\ UNCHANGED <<mdIn, mdRead, mdTaken, userVars, mdBridge>>
    /\ IF mdWorker.part > Last(mdRead)
       THEN mdWorker' = [mdWorker EXCEPT !.at = "next"] /\ UNCHANGED mdTracks
       ELSE /\ Len(mdTracks.audio) < AudioQueue
            /\ mdTracks' = [mdTracks EXCEPT !.audio = Append(@, <<Len(mdRead), mdWorker.part>>)]
            /\ mdWorker' = [mdWorker EXCEPT !.part = @ + 1]

\* aiortc takes what is next on a track.
TakesFrom(track) ==
    /\ mdTracks.taking /\ mdTracks[track] # <<>>
    /\ mdTracks' = [mdTracks EXCEPT ![track] = Tail(@)]
    /\ mdTaken' = [mdTaken EXCEPT ![track] =
            IF track = "video" THEN <<Head(mdTracks.video)>> ELSE Append(@, Head(mdTracks.audio))]
    /\ UNCHANGED <<mdIn, mdRead, mdWorker, userVars, mdBridge>>

ConnectionGoes ==
    /\ mdTracks.taking /\ mdTracks' = [mdTracks EXCEPT !.taking = FALSE]
    /\ UNCHANGED <<mdIn, mdRead, mdWorker, mdTaken, userVars, mdBridge>>

-----------------------------------------------------------------------------
(* What comes in.  The worklet cancels both loops when the video worker    *)
(* has returned.                                                           *)

Carried == mdWorker.at # "over"
InboundLeft == mdTracks.taking /\ mdMic.came + mdBridge.came < MdInbound

MicBrings ==
    /\ InboundLeft
    /\ mdMic' = [queue |-> Offered(mdMic.queue, mdMic.came + 1, InboundQueue),
                 came |-> mdMic.came + 1,
                 dropped |-> IF Len(mdMic.queue) < InboundQueue THEN mdMic.dropped
                             ELSE mdMic.dropped \cup {Head(mdMic.queue)}]
    /\ UNCHANGED <<videoVars, mdUser, mdOut, mdBridge>>

\* The loop takes a chunk: the first of a stream, or the next one within its deadline,
\* which is counted on the stream's clocks.
UserTakes ==
    /\ Carried /\ mdMic.queue # <<>>
    /\ mdUser.at = "idle" \/ (mdUser.at = "waiting" /\ mdRead # <<>>)
    /\ mdMic' = [mdMic EXCEPT !.queue = Tail(@)]
    /\ mdUser' = [at |-> IF mdUser.at = "idle" THEN "start" ELSE "chunk",
                  chunk |-> Head(mdMic.queue)]
    /\ UNCHANGED <<videoVars, mdOut, mdBridge>>

\* As UserTimesOut would be if the end of the stream were not told.
UserTimesOutSilently ==
    /\ Carried /\ mdUser.at = "waiting" /\ mdRead # <<>>
    /\ mdUser' = [mdUser EXCEPT !.at = "idle"]
    /\ UNCHANGED <<videoVars, mdMic, mdOut, mdBridge>>

\* The deadline may pass as a chunk arrives: it stays in the queue.
UserTimesOut ==
    /\ Carried /\ mdUser.at = "waiting" /\ mdRead # <<>>
    /\ mdUser' = [mdUser EXCEPT !.at = "end"]
    /\ UNCHANGED <<videoVars, mdMic, mdOut, mdBridge>>

\* A publication returns.
UserPublishes ==
    /\ Carried /\ mdUser.at \in {"start", "chunk", "end"}
    /\ mdOut' = Append(mdOut, mdUser)
    /\ mdUser' = [mdUser EXCEPT !.at = CASE @ = "start" -> "chunk" [] @ = "chunk" -> "waiting"
                                         [] @ = "end" -> "idle"]
    /\ UNCHANGED <<videoVars, mdMic, mdBridge>>

ChannelBrings ==
    /\ InboundLeft
    /\ mdBridge' = [mdBridge EXCEPT !.queue = Offered(@, mdBridge.came + 1, InboundQueue),
                                    !.came = @ + 1]
    /\ UNCHANGED <<videoVars, userVars>>

BridgePublishes ==
    /\ Carried /\ mdBridge.queue # <<>>
    /\ mdBridge' = [mdBridge EXCEPT !.queue = Tail(@), !.out = Append(@, Head(mdBridge.queue))]
    /\ UNCHANGED <<videoVars, userVars>>

MdNext ==
    \/ MdBrings \/ ReadFrame \/ PushVideo \/ PushAudio \/ ConnectionGoes
    \/ TakesFrom("video") \/ TakesFrom("audio")
    \/ MicBrings \/ UserTakes \/ UserTimesOut \/ UserPublishes
    \/ ChannelBrings \/ BridgePublishes

\* The worker runs when it can, and aiortc goes on taking audio while it is connected.
MdFairness ==
    /\ WF_mdVars(ReadFrame) /\ WF_mdVars(PushVideo) /\ WF_mdVars(PushAudio)
    /\ WF_mdVars(TakesFrom("audio"))

-----------------------------------------------------------------------------
(* Properties.                                                             *)

\* The audio of the frames read so far, as <<frame, part>>, and its order.
AudioRead == {x \in (1..Len(mdRead)) \X (1..MdParts) : x[2] <= mdRead[x[1]]}
Before(x, y) == x[1] < y[1] \/ (x[1] = y[1] /\ x[2] < y[2])
Ascending(s) == \A i, j \in 1..Len(s) : i < j => s[i] < s[j]

\* The sound that leaves is what the frames carried, once, in order and without a gap,
\* never ahead of the picture it belongs to, and whole when the worker has returned;
\* pictures are dropped only for newer ones.
MediaLeavesInOrder ==
    LET sound == mdTaken.audio \o mdTracks.audio
        pictures == mdTaken.video \o mdTracks.video
        left == ToSet(sound)
    IN  /\ \A i, j \in 1..Len(sound) : i < j => Before(sound[i], sound[j])
        /\ left \subseteq AudioRead
        /\ \A y \in left, x \in AudioRead : Before(x, y) => x \in left
        /\ Ascending(pictures)
        /\ sound # <<>> => pictures # <<>> /\ Last(sound)[1] <= Last(pictures)
        /\ mdWorker.at \in {"next", "over"} /\ mdRead # <<>> =>
              left = AudioRead /\ Last(pictures) = Len(mdRead)

\* The user's chunks are published in order and once, each between the start and the
\* end of a stream, and one that is missing was dropped for newer ones; what the
\* browser's Codex says keeps its order.
UserIsHeardInOrder ==
    LET chunks == {i \in 1..Len(mdOut) : mdOut[i].at = "chunk"}
        said == {mdOut[i].chunk : i \in chunks}
        inHand == IF mdUser.at \in {"start", "chunk"} THEN {mdUser.chunk} ELSE {}
    IN  /\ \A i, j \in chunks : i < j => mdOut[i].chunk < mdOut[j].chunk
        /\ Ascending(mdMic.queue)
        /\ \A c \in said, i \in 1..Len(mdMic.queue) : c < mdMic.queue[i]
        /\ 1..mdMic.came = said \cup ToSet(mdMic.queue) \cup mdMic.dropped \cup inHand
        /\ \A i \in 1..Len(mdOut) :
              IF i = 1 THEN mdOut[i].at = "start"
              ELSE mdOut[i].at = "start" <=> mdOut[i - 1].at = "end"
        /\ Ascending(mdBridge.out \o mdBridge.queue)

\* After a shutdown the video worker returns, unless the connection has gone and left it
\* with more audio than the track has room for: then nobody takes it.
OutOfRoom == ~mdTracks.taking /\ mdWorker.at = "audio" /\ Len(mdTracks.audio) = AudioQueue
VideoWorkerReturns == Contains(mdIn, MdShutdown) ~> mdWorker.at = "over" \/ OutOfRoom
=============================================================================
