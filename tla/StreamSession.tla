--------------------------- MODULE StreamSession ---------------------------
(***************************************************************************)
(* One stream from run_stream to the end of its task group                 *)
(* (src/avaturn_live_streamer/runner.py): the worklets, the bus between    *)
(* them, the stream's clocks, the peer connection and the timers, as far   *)
(* as they decide when the stream starts and when it ends.                 *)
(*                                                                         *)
(* Tasks.  loop and listener: RenderingWorklet; main, video and lifecycle: *)
(* LocalRTCWorklet; delayed: run_delayed_event_worklet; timeout:           *)
(* TimeoutWorklet, whose timers publish from tasks of their own; stopper:  *)
(* _set_stop and _emit_stop, which answer a Shutdown by another; engine:   *)
(* the worklet that connects to a service before it says it is ready.      *)
(* What is rendered is module Rendering's business, here a step of the     *)
(* loop is one frame.  The video track drops pictures and always takes     *)
(* one; the audio track makes the video worker wait for room, and only the *)
(* connected peer makes room in it (its parts one by one: PeerMedia).      *)
(*                                                                         *)
(* asyncio's event loop runs what is ready in the order it became ready.   *)
(* So the publishers the bus releases run, in the order they came, before  *)
(* the tasks they wake (Settled), and a task that waits for an event and   *)
(* does nothing else reads it before a timer, a connection or a later      *)
(* wakeup has its turn (Calm).                                             *)
(***************************************************************************)
EXTENDS EventBus

CONSTANTS
    MaxFrames,  \* bound: steps of the render loop before the shutdown
    TrackRoom   \* the frames whose audio the audio track holds (64 parts: 32 frames)

SessionSubscribers == {"listener", "video", "delayed", "timeout", "stopper"}
SessionPublishers ==
    {"loop", "main", "video", "lifecycle", "delayed", "absent", "maximum", "stopper"}
SessionTypes ==
    {"frame", "scheduled", "playback", "started", "joined", "left", "shutdown"}
SessionEvents == [type : SessionTypes]

ASSUME SessionAssumption ==
    /\ Subscribers = SessionSubscribers
    /\ Publishers = SessionPublishers
    /\ Types = SessionTypes
    /\ Events = SessionEvents
    /\ MaxFrames \in Nat \ {0} /\ TrackRoom \in Nat \ {0}

VARIABLES
    pc,            \* where each task is
    peer,          \* connection_state: "connecting", "connected" or "lost"
    track,         \* the frames whose audio waits in the audio track
    joined,        \* the lifecycle worker's joined
    clocks,        \* the stream clocks are started
    participants,  \* participant_count
    timer,         \* "off", "armed" or "fired", for user absence and duration
    stopped,       \* the speech scheduler was told to stop
    unplayed,      \* the steps the stopped scheduler still needs
    frames,        \* steps of the render loop so far
    waiters,       \* the publishers that wait for the bus to be ready
    session        \* "running", "ended", "failed" or "cancelled"

sessionVars == <<pc, peer, track, joined, clocks, participants, timer, stopped,
                 unplayed, frames, waiters, session>>
vars == <<busVars, sessionVars>>

Tasks == {"loop", "listener", "main", "video", "lifecycle", "delayed",
          "timeout", "engine", "stopper"}
Worklets == {"loop", "listener", "main", "delayed", "timeout", "engine", "stopper"}

E(t) == [type |-> t]

\* The lists of the types: these tasks subscribe at once, in the order they are
\* created; the peer's worklet and the engine first connect.
EarlyLists ==
    [t \in Types |-> CASE t = "shutdown" -> <<"listener", "delayed", "timeout", "stopper">>
                       [] t = "scheduled" -> <<"delayed">>
                       [] t \in {"started", "joined", "left"} -> <<"timeout">>
                       [] OTHER -> <<>>]
VideoTypes == {"frame", "shutdown"}

Init ==
    /\ pending = 2  \* the peer's worklet and the engine
    /\ listed = EarlyLists
    /\ queue = [s \in Subscribers |-> <<>>]
    /\ publishing = [p \in Publishers |-> Idle]
    /\ pc = [t \in Tasks |->
                CASE t = "loop" -> "check"
                  [] t \in {"main", "engine"} -> "connecting"
                  [] t \in {"video", "lifecycle"} -> "none"
                  [] OTHER -> "reading"]
    /\ peer = "connecting" /\ track = 0
    /\ joined = FALSE /\ clocks = FALSE
    /\ participants = 0
    /\ timer = [absent |-> "off", maximum |-> "off"]
    /\ stopped = FALSE /\ unplayed = 0 /\ frames = 0
    /\ waiters = <<>>
    /\ session = "running"

-----------------------------------------------------------------------------
(* What the tasks' actions are made of.                                    *)

Goto(t, label) == pc' = [pc EXCEPT ![t] = label]

Free(p) == publishing[p] = Idle
\* The subscribers that only read: an event wakes them before anything else.
Prompt == {"listener", "timeout", "stopper"}

Settled ==
    /\ session = "running"
    /\ AllReady => waiters = <<>>
    /\ pc["video"] # "announcing"
Calm == Settled /\ \A s \in Prompt : pc[s] = "reading" => ~Arrived(s)

\* The task t is at label, not in the middle of a publication, and may run.
At(t, label) ==
    /\ pc[t] = label
    /\ t \in Publishers => Free(t)
    /\ IF label = "reading" /\ t \in Prompt THEN Settled ELSE Calm

PublishFrom(p, t) ==
    /\ Publish(p, E(t))
    /\ waiters' = IF AllReady THEN waiters ELSE Append(waiters, p)

TakesNext(s, t) == Arrived(s) /\ Head(queue[s]) = E(t)

Leaves(s) ==
    /\ Unsubscribe(s)
    /\ Goto(s, "done")
    /\ UNCHANGED <<pending, publishing>>

\* The bus lets a publisher go on.
Continue(p) ==
    /\ session = "running"
    /\ \/ waiters # <<>> /\ p = Head(waiters) /\ Released(p) /\ waiters' = Tail(waiters)
       \/ Calm /\ Resume(p) /\ UNCHANGED waiters
    /\ UNCHANGED <<pc, peer, track, joined, clocks, participants, timer, stopped,
                   unplayed, frames, session>>

\* A worklet raises, or the session's task is cancelled: the task group cancels
\* every task in it; the timers and _set_stop are not in it.
Abort(how) ==
    /\ session' = how
    /\ pc' = [t \in Tasks |-> IF t = "stopper" THEN pc[t] ELSE "done"]
    /\ listed' = [t \in Types |-> <<>>]
    /\ queue' = [s \in Subscribers |-> <<>>]
    /\ publishing' = [p \in Publishers |-> Idle]
    /\ pending' = 0 /\ waiters' = <<>>
    /\ peer' = "lost" /\ track' = 0 /\ joined' = FALSE /\ clocks' = FALSE /\ stopped' = FALSE
    /\ participants' = 0 /\ unplayed' = 0 /\ frames' = 0
    /\ UNCHANGED timer

-----------------------------------------------------------------------------
(* The environment: the browser's connection, the engine's service.        *)

PeerConnects ==
    /\ Calm
    /\ peer = "connecting"
    /\ peer' = "connected"
    /\ UNCHANGED <<busVars, pc, track, joined, clocks, participants, timer, stopped,
                   unplayed, frames, waiters, session>>

\* A state change reaches the lifecycle worker only while it waits for one.
PeerIsLost ==
    /\ Calm
    /\ peer = "connected"
    /\ peer' = "lost"
    /\ IF pc["lifecycle"] = "watching" /\ joined
       THEN Goto("lifecycle", "leaving") ELSE UNCHANGED pc
    /\ UNCHANGED <<busVars, track, joined, clocks, participants, timer, stopped,
                   unplayed, frames, waiters, session>>

\* While it is connected, the peer plays what is in the audio track.
PeerPlays ==
    /\ Calm
    /\ peer = "connected" /\ track > 0
    /\ track' = track - 1
    /\ UNCHANGED <<busVars, pc, peer, joined, clocks, participants, timer, stopped,
                   unplayed, frames, waiters, session>>

\* The peer fails before it connects, the engine cannot, the renderer fails, a
\* publisher has waited too long for the workers.
Fails ==
    /\ Calm
    /\ \/ pc["main"] = "connecting" /\ peer # "connected"
       \/ pc["engine"] = "connecting"
       \/ pc["loop"] = "check"
       \/ \E p \in Publishers : publishing[p].at = "waiting"
    /\ Abort("failed")

\* /disconnect and the other requests that cancel the session's task
Cancelled == Calm /\ Abort("cancelled")

-----------------------------------------------------------------------------
(* RenderingWorklet.                                                       *)

\* The scheduler is active: it has steps to give, bounded here.
Active == IF stopped THEN unplayed > 0 ELSE frames < MaxFrames

\* Some steps have a playback event to schedule.
LoopSchedules ==
    /\ At("loop", "check")
    /\ Active
    /\ PublishFrom("loop", "scheduled")
    /\ Goto("loop", "scheduled")
    /\ UNCHANGED <<pending, listed, peer, track, joined, clocks, participants, timer,
                   stopped, unplayed, frames, session>>

LoopPublishesFrame ==
    /\ (At("loop", "check") /\ Active) \/ At("loop", "scheduled")
    /\ PublishFrom("loop", "frame")
    /\ Goto("loop", "asleep")
    /\ frames' = IF stopped THEN frames ELSE frames + 1
    /\ unplayed' = IF stopped THEN 0 ELSE unplayed
    /\ UNCHANGED <<pending, listed, peer, track, joined, clocks, participants, timer,
                   stopped, session>>

LoopEnds ==
    /\ At("loop", "check")
    /\ stopped /\ unplayed = 0
    /\ Goto("loop", "done")
    /\ UNCHANGED <<busVars, peer, track, joined, clocks, participants, timer, stopped,
                   unplayed, frames, waiters, session>>

\* wakeup_at waits for the clocks to be started.
LoopWakes ==
    /\ At("loop", "asleep")
    /\ clocks
    /\ Goto("loop", "check")
    /\ UNCHANGED <<busVars, peer, track, joined, clocks, participants, timer, stopped,
                   unplayed, frames, waiters, session>>

ListenerShutsDown ==
    /\ At("listener", "reading")
    /\ TakesNext("listener", "shutdown")
    /\ stopped' = TRUE
    /\ unplayed' \in {0, 1}
    /\ Leaves("listener")
    /\ UNCHANGED <<peer, track, joined, clocks, participants, timer, frames, waiters,
                   session>>

-----------------------------------------------------------------------------
(* LocalRTCWorklet.                                                        *)

\* As MainConnected would be if it cloned the bus for one of its workers only.
MainConnectedUncloned ==
    /\ At("main", "connecting")
    /\ peer = "connected"
    /\ Clone(1 - 1)
    /\ PublishFrom("main", "joined")
    /\ pc' = [pc EXCEPT !["main"] = "awaiting", !["video"] = "starting",
                        !["lifecycle"] = "starting"]
    /\ UNCHANGED <<listed, peer, track, joined, clocks, participants, timer, stopped,
                   unplayed, frames, session>>

\* Clone the bus for the two workers, be ready, and publish ParticipantJoined,
\* which waits for the workers.
MainConnected ==
    /\ At("main", "connecting")
    /\ peer = "connected"
    /\ Clone(2 - 1)
    /\ PublishFrom("main", "joined")
    /\ pc' = [pc EXCEPT !["main"] = "awaiting", !["video"] = "starting",
                        !["lifecycle"] = "starting"]
    /\ UNCHANGED <<listed, peer, track, joined, clocks, participants, timer, stopped,
                   unplayed, frames, session>>

\* As MainFinishes would be if it waited for the lifecycle worker.
MainFinishesWaiting ==
    /\ At("main", "awaiting")
    /\ pc["video"] = "done" /\ pc["lifecycle"] = "done" /\ Free("lifecycle")
    /\ Goto("main", "done")
    /\ UNCHANGED <<busVars, peer, track, joined, clocks, participants, timer, stopped,
                   unplayed, frames, waiters, session>>

\* The video worker is done: cancel the lifecycle worker, wherever it is.
MainFinishes ==
    /\ At("main", "awaiting")
    /\ pc["video"] = "done"
    /\ pc' = [pc EXCEPT !["main"] = "done", !["lifecycle"] = "done"]
    /\ publishing' = [publishing EXCEPT !["lifecycle"] = Idle]
    /\ UNCHANGED <<pending, listed, queue, peer, track, joined, clocks, participants,
                   timer, stopped, unplayed, frames, waiters, session>>

VideoStarts ==
    /\ At("video", "starting")
    /\ Subscribe("video", VideoTypes)
    /\ Ready
    /\ Goto("video", "first")
    /\ UNCHANGED <<queue, publishing, peer, track, joined, clocks, participants, timer,
                   stopped, unplayed, frames, waiters, session>>

\* What the worker does with a frame: push its audio, or read on if it has none.
AfterFrame == {"sounding", "playing"}

\* The first frame starts the clocks, and StreamStarted is published at once.
VideoFirstFrame ==
    /\ At("video", "first")
    /\ TakesNext("video", "frame")
    /\ Get("video")
    /\ clocks' = TRUE
    /\ Goto("video", "announcing")
    /\ UNCHANGED <<pending, listed, publishing, peer, track, joined, participants, timer,
                   stopped, unplayed, frames, waiters, session>>

VideoAnnounces ==
    /\ session = "running"
    /\ pc["video"] = "announcing"
    /\ PublishFrom("video", "started")
    /\ \E next \in AfterFrame : Goto("video", next)
    /\ UNCHANGED <<pending, listed, peer, track, joined, clocks, participants, timer,
                   stopped, unplayed, frames, session>>

VideoPlays ==
    /\ At("video", "playing")
    /\ TakesNext("video", "frame")
    /\ Get("video")
    /\ \E next \in AfterFrame : Goto("video", next)
    /\ UNCHANGED <<pending, listed, publishing, peer, track, joined, clocks, participants,
                   timer, stopped, unplayed, frames, waiters, session>>

\* The frame's audio is put when the track has room for it, and no event is read before.
VideoSounds ==
    /\ At("video", "sounding")
    /\ track < TrackRoom /\ track' = track + 1
    /\ Goto("video", "playing")
    /\ UNCHANGED <<busVars, peer, joined, clocks, participants, timer, stopped, unplayed,
                   frames, waiters, session>>

\* A Shutdown ends the worker, before the first frame without starting the clocks.
VideoStops ==
    /\ At("video", "first") \/ At("video", "playing")
    /\ TakesNext("video", "shutdown")
    /\ Leaves("video")
    /\ UNCHANGED <<peer, track, joined, clocks, participants, timer, stopped, unplayed,
                   frames, waiters, session>>

LifecycleStarts ==
    /\ At("lifecycle", "starting")
    /\ pc["video"] # "starting"
    /\ Ready
    /\ joined' = (peer = "connected")
    /\ Goto("lifecycle", "watching")
    /\ UNCHANGED <<listed, queue, publishing, peer, track, clocks, participants, timer,
                   stopped, unplayed, frames, waiters, session>>

LifecyclePublishes(from, t, to) ==
    /\ At("lifecycle", from)
    /\ PublishFrom("lifecycle", t)
    /\ Goto("lifecycle", to)
    /\ UNCHANGED <<pending, listed, peer, track, joined, clocks, participants, timer,
                   stopped, unplayed, frames, session>>

LifecycleLeaves ==
    \/ LifecyclePublishes("leaving", "left", "left")
    \/ LifecyclePublishes("left", "shutdown", "done")

-----------------------------------------------------------------------------
(* run_delayed_event_worklet.                                              *)

DelayedTakes ==
    /\ At("delayed", "reading")
    /\ TakesNext("delayed", "scheduled")
    /\ Get("delayed")
    /\ Goto("delayed", "waiting")
    /\ UNCHANGED <<pending, listed, publishing, peer, track, joined, clocks, participants,
                   timer, stopped, unplayed, frames, waiters, session>>

DelayedPublishes ==
    /\ At("delayed", "waiting")
    /\ clocks
    /\ PublishFrom("delayed", "playback")
    /\ Goto("delayed", "reading")
    /\ UNCHANGED <<pending, listed, peer, track, joined, clocks, participants, timer,
                   stopped, unplayed, frames, session>>

DelayedStops ==
    /\ At("delayed", "reading")
    /\ TakesNext("delayed", "shutdown")
    /\ Leaves("delayed")
    /\ UNCHANGED <<peer, track, joined, clocks, participants, timer, stopped, unplayed,
                   frames, waiters, session>>

-----------------------------------------------------------------------------
(* TimeoutWorklet.                                                         *)

TimeoutTakes(t) ==
    /\ At("timeout", "reading")
    /\ TakesNext("timeout", t)

\* As TimeoutStarted would be if the stream's duration were not limited.
TimeoutStartedUnlimited ==
    /\ TimeoutTakes("started")
    /\ Get("timeout")
    /\ timer' = [timer EXCEPT !["absent"] = IF participants = 0 THEN "armed" ELSE @]
    /\ UNCHANGED <<pending, listed, publishing, pc, peer, track, joined, clocks,
                   participants, stopped, unplayed, frames, waiters, session>>

\* As TimeoutStarted would be if it did not ask who is there.
TimeoutStartedAlone ==
    /\ TimeoutTakes("started")
    /\ Get("timeout")
    /\ timer' = [absent |-> "armed", maximum |-> "armed"]
    /\ UNCHANGED <<pending, listed, publishing, pc, peer, track, joined, clocks,
                   participants, stopped, unplayed, frames, waiters, session>>

TimeoutStarted ==
    /\ TimeoutTakes("started")
    /\ Get("timeout")
    /\ timer' = [absent |-> IF participants = 0 THEN "armed" ELSE timer["absent"],
                 maximum |-> "armed"]
    /\ UNCHANGED <<pending, listed, publishing, pc, peer, track, joined, clocks,
                   participants, stopped, unplayed, frames, waiters, session>>

TimeoutJoined ==
    /\ TimeoutTakes("joined")
    /\ Get("timeout")
    /\ participants' = participants + 1
    /\ timer' = [timer EXCEPT !["absent"] = "off"]
    /\ UNCHANGED <<pending, listed, publishing, pc, peer, track, joined, clocks, stopped,
                   unplayed, frames, waiters, session>>

LastLeaves == TimeoutTakes("left") /\ participants <= 1

\* The last participant leaves: the absence timer is armed.  It raises when it has
\* been armed before: AbsenceTimerIsFree says it never has.
TimeoutLeft ==
    /\ TimeoutTakes("left")
    /\ Get("timeout")
    /\ participants' = IF LastLeaves THEN 0 ELSE participants - 1
    /\ timer' = [timer EXCEPT !["absent"] = IF LastLeaves THEN "armed" ELSE @]
    /\ UNCHANGED <<pending, listed, publishing, pc, peer, track, joined, clocks, stopped,
                   unplayed, frames, waiters, session>>

\* As TimeoutStops would be without the cancel of the duration timer.
TimeoutStopsArmed ==
    /\ TimeoutTakes("shutdown")
    /\ timer' = [timer EXCEPT !["absent"] = IF @ = "armed" THEN "off" ELSE @]
    /\ Leaves("timeout")
    /\ UNCHANGED <<peer, track, joined, clocks, participants, stopped, unplayed, frames,
                   waiters, session>>

TimeoutStops ==
    /\ TimeoutTakes("shutdown")
    /\ timer' = [k \in DOMAIN timer |->
                    IF timer[k] = "armed" THEN "off" ELSE timer[k]]
    /\ Leaves("timeout")
    /\ UNCHANGED <<peer, track, joined, clocks, participants, stopped, unplayed, frames,
                   waiters, session>>

TimerFires(k) ==
    /\ Calm
    /\ timer[k] = "armed"
    /\ timer' = [timer EXCEPT ![k] = "fired"]
    /\ PublishFrom(k, "shutdown")
    /\ UNCHANGED <<pending, listed, pc, peer, track, joined, clocks, participants, stopped,
                   unplayed, frames, session>>

-----------------------------------------------------------------------------
(* The engine, and _emit_stop, which answers a Shutdown by another.        *)

EngineConnects ==
    /\ At("engine", "connecting")
    /\ Ready
    /\ Goto("engine", "done")
    /\ UNCHANGED <<listed, queue, publishing, peer, track, joined, clocks, participants, timer,
                   stopped, unplayed, frames, waiters, session>>

StopperTakes ==
    /\ At("stopper", "reading")
    /\ TakesNext("stopper", "shutdown")
    /\ Unsubscribe("stopper")
    /\ Goto("stopper", "needed")
    /\ UNCHANGED <<pending, publishing, peer, track, joined, clocks, participants, timer,
                   stopped, unplayed, frames, waiters, session>>

StopperPublishes ==
    /\ At("stopper", "needed")
    /\ PublishFrom("stopper", "shutdown")
    /\ Goto("stopper", "done")
    /\ UNCHANGED <<pending, listed, peer, track, joined, clocks, participants, timer,
                   stopped, unplayed, frames, session>>

-----------------------------------------------------------------------------
\* Every task of the group has returned.
SessionEnds ==
    /\ session = "running"
    /\ \A t \in Worklets : pc[t] = "done" /\ (t \in Publishers => Free(t))
    /\ session' = "ended"
    /\ UNCHANGED <<busVars, pc, peer, track, joined, clocks, participants, timer, stopped,
                   unplayed, frames, waiters>>

Terminated == session # "running" /\ UNCHANGED vars

Loop == LoopSchedules \/ LoopPublishesFrame \/ LoopWakes \/ LoopEnds
Main == MainConnected \/ MainFinishes
Video == VideoStarts \/ VideoFirstFrame \/ VideoAnnounces \/ VideoPlays \/ VideoSounds
         \/ VideoStops
Lifecycle == LifecycleStarts \/ LifecycleLeaves
Delayed == DelayedTakes \/ DelayedPublishes \/ DelayedStops
Timeout == TimeoutStarted \/ TimeoutJoined \/ TimeoutLeft \/ TimeoutStops
Stopper == StopperTakes \/ StopperPublishes

Next ==
    \/ PeerConnects \/ PeerIsLost \/ PeerPlays \/ Fails \/ Cancelled \/ EngineConnects
    \/ \E p \in Publishers : Continue(p)
    \/ Loop \/ ListenerShutsDown \/ Main \/ Video \/ Lifecycle \/ Delayed
    \/ Timeout \/ Stopper
    \/ \E k \in DOMAIN timer : TimerFires(k)
    \/ SessionEnds
    \/ Terminated

\* Every task runs when it is ready, every armed timer fires and a connected peer goes
\* on playing; the browser, the engine's service and the requests do what they like.
Fairness ==
    /\ \A p \in Publishers : WF_vars(Continue(p))
    /\ \A k \in {"absent", "maximum"} : WF_vars(TimerFires(k))
    /\ WF_vars(Loop) /\ WF_vars(ListenerShutsDown) /\ WF_vars(Main)
    /\ WF_vars(Video) /\ WF_vars(Lifecycle) /\ WF_vars(Delayed)
    /\ WF_vars(Timeout) /\ WF_vars(Stopper)
    /\ WF_vars(PeerPlays) /\ WF_vars(SessionEnds)

Spec == Init /\ [][Next]_vars /\ Fairness

-----------------------------------------------------------------------------
(* Properties.                                                             *)

\* The bus's types with the worklets' own clones: ready is never called too often.
TypeOK ==
    /\ BusTypeOK
    /\ pc \in [Tasks -> {"none", "check", "rendering", "scheduled", "asleep",
                         "connecting", "awaiting", "starting", "first",
                         "announcing", "sounding", "playing", "watching", "leaving", "left",
                         "reading", "waiting", "needed", "done"}]
    /\ peer \in {"connecting", "connected", "lost"}
    /\ track \in 0..TrackRoom /\ joined \in BOOLEAN /\ clocks \in BOOLEAN /\ stopped \in BOOLEAN
    /\ participants \in Nat /\ unplayed \in {0, 1} /\ frames \in 0..MaxFrames
    /\ timer \in [{"absent", "maximum"} -> {"off", "armed", "fired"}]
    /\ waiters \in Seq(Publishers)
    /\ session \in {"running", "ended", "failed", "cancelled"}

\* A Shutdown is in the queue of s or is being put there.
ToldToStop(s) ==
    \/ \E i \in DOMAIN queue[s] : queue[s][i] = E("shutdown")
    \/ \E p \in Publishers :
          /\ publishing[p].at = "blocked" /\ publishing[p].event = E("shutdown")
          /\ \E i \in DOMAIN publishing[p].rest : publishing[p].rest[i] = s

\* Once the render loop is told to stop, so is every other worklet, although the
\* lifecycle worker's Shutdown can be cancelled while it waits for a full queue:
\* the video worker, whose return cancels it, is the last in every list.
NobodyLeftBehind ==
    (session = "running" /\ stopped) =>
        \A s \in Subscribers : SubscribedTo(s, "shutdown") => ToldToStop(s)

\* "Last participant left but user absent timer already scheduled" is never raised:
\* whoever leaves has joined before the stream started or has stopped the timer.
AbsenceTimerIsFree == LastLeaves => timer["absent"] = "off"

\* A stream that ends by itself leaves no timer armed and no subscription behind.
EndedCleanly ==
    session = "ended" =>
        /\ \A k \in DOMAIN timer : timer[k] # "armed"
        /\ \A s \in Subscribers, t \in Types : ~SubscribedTo(s, t)

\* The connection is gone and the audio track is full: nobody makes room any more, and
\* the video worker waits for it and never reads another event.
OutOfRoom == peer = "lost" /\ pc["video"] = "sounding" /\ track = TrackRoom

\* A stream whose first frame was sent ends after a Shutdown: every worklet
\* returns, whatever it was waiting for but room that will never come.
StartedSessionEnds == stopped /\ clocks ~> session # "running" \/ OutOfRoom

\* A stream whose first frame was sent does not outlive the browser's connection, even
\* if the lifecycle worker missed the change of state: then the duration timer ends it,
\* provided that the audio of the frames until then found room.
LostPeerEndsSession == peer = "lost" /\ clocks ~> session # "running" \/ OutOfRoom

\* "Hard stream duration limit": a stream ends when the duration timer has fired.
DurationIsLimited == timer["maximum"] = "fired" ~> session # "running"

\* A bus-driven shutdown ends the task group of the session and lets the caller
\* close the peer.
ShutdownEndsSession == stopped ~> session # "running"

\* Timers and subscriptions are where they should be.
LeavesNothingBehind == TypeOK /\ AbsenceTimerIsFree /\ EndedCleanly

\* A stream that has started ends: after a shutdown, and with the browser's connection.
StreamEnds == StartedSessionEnds /\ LostPeerEndsSession
=============================================================================
