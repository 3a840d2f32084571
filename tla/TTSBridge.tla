----------------------------- MODULE TTSBridge -----------------------------
(***************************************************************************)
(* The bridge between a realtime engine's text and the local synthesis     *)
(* (src/avaturn_live_streamer/conversation_engines/local_tts_bridge.py):   *)
(* text deltas are cut into pieces, a task per response turns the pieces   *)
(* into the audio of one segment, and an interrupt or a newer response     *)
(* cancels it.                                                             *)
(*                                                                         *)
(* Two tasks of the engine (realtime_api_client.py) call the bridge: the   *)
(* feeder reads the service's messages, the controller reads the bus.  A   *)
(* task runs until it awaits.  The bus is ready and has room, so to        *)
(* publish is not to wait, and the speech scheduler sees the events in     *)
(* the order they are published: open is its _write_active_segment.  The   *)
(* enqueue_lock is held by who puts pieces into the queue (LockFree).      *)
(* Responses are numbered in the order of their texts; the pieces of one   *)
(* are numbered too, and 0 is _QUEUE_END.                                  *)
(***************************************************************************)
EXTENDS Integers, Sequences

CONSTANTS
    Capacity,      \* _QUEUE_CAPACITY
    MaxResponses,  \* bound: responses the service gives
    MaxPieces      \* bound: pieces of a response's text

ASSUME BridgeAssumption ==
    /\ Capacity \in Nat \ {0}
    /\ MaxResponses \in Nat /\ MaxPieces \in Nat

Responses == 1..MaxResponses
Callers == {"feeder", "controller"}
End == 0

VARIABLES
    incremental,  \* the backend takes a stream of text (open_text_stream)
    current,      \* _state, by the number of its response; 0 for None
    state,        \* the _ResponseState of each response
    closed,       \* _closed
    call,         \* what each caller is doing
    turn,         \* the response the service is at
    open,         \* the segment the speech scheduler listens to, 0 for None
    (* history *)
    silenced,     \* the last response an interrupt was to silence
    slipped       \* responses interrupted or closed before they had a state

clientVars == <<closed, turn, slipped>>
vars == <<incremental, current, state, closed, call, turn, open, silenced, slipped>>

\* worker is task, flush is flush_task, spoken the pieces the backend was given, and
\* said that it has been given the end.
Unbegun ==
    [worker |-> "none", flush |-> "none", queue |-> <<>>, cut |-> 0, pending |-> FALSE,
     received |-> FALSE, finishing |-> FALSE, cancelled |-> FALSE, segment |-> FALSE,
     fails |-> FALSE, spoken |-> <<>>, said |-> FALSE]
Begun == [Unbegun EXCEPT !.worker = "waiting"]

\* What matters of a response whose worker is gone.
Over(s) ==
    [Unbegun EXCEPT !.worker = "done", !.cancelled = TRUE, !.segment = s.segment,
                    !.flush = s.flush]

Idle == [at |-> "idle", op |-> "none", of |-> 0, old |-> 0, upto |-> 0, rest |-> <<>>]

Init ==
    /\ incremental \in BOOLEAN
    /\ current = 0 /\ open = 0 /\ closed = FALSE
    /\ state = [r \in Responses |-> Unbegun]
    /\ call = [c \in Callers |-> Idle]
    /\ turn = 1 /\ silenced = 0 /\ slipped = {}

Feeder == call["feeder"]
Controller == call["controller"]

Does(c, does) == call' = [call EXCEPT ![c] = does]
Becomes(r, new) == state' = [state EXCEPT ![r] = new]

\* Nobody is between two puts, or takes the queue's pieces away.
LockFree(r) ==
    /\ ~(Feeder.at = "putting" /\ Feeder.of = r)
    /\ state[r].flush \notin {"putting", "cut"}

\* _cancel_idle_flush, as far as the one who calls it goes.  What is being put is put
\* if there is room, as the task of the put is scheduled before, and is lost if not.
FlushCut(s) ==
    CASE s.flush = "asleep" -> [s EXCEPT !.flush = "none"]
      [] s.flush = "putting" ->
            [s EXCEPT !.flush = "cut",
                      !.queue = IF Len(@) < Capacity THEN Append(@, s.cut) ELSE @]
      [] OTHER -> s
FlushAlive(s) == s.flush \in {"asleep", "putting"}

-----------------------------------------------------------------------------
(* feed_text and finish_text.                                              *)

\* The chunker finds n pieces and keeps a rest or not; text does not vanish.
Chunked(s, n, pending) ==
    [s EXCEPT !.cut = @ + n, !.pending = pending, !.received = TRUE]

Numbers(s, n) == [i \in 1..n |-> s.cut + i]

\* What feeding text makes of a state, and the pieces to put.
Fed(s) ==
    {[new |-> Chunked(s, cut[1], cut[2]), rest |-> Numbers(s, cut[1])] :
        cut \in {x \in (0..2) \X BOOLEAN :
                    /\ s.cut + x[1] + (IF x[2] THEN 1 ELSE 0) <= MaxPieces
                    /\ s.pending /\ x[1] = 0 => x[2]}}

\* The rest of the text, or the whole of it if there were no deltas, and the end.
Finished(s) ==
    {[new |-> [Chunked(s, n, FALSE) EXCEPT !.finishing = TRUE],
      rest |-> Append(Numbers(s, n), End)] :
        n \in {m \in 0..1 : /\ s.cut + m <= MaxPieces
                            /\ s.pending => m = 1
                            /\ s.received /\ ~s.pending => m = 0}}

Text(op, s) == IF op = "feed" THEN Fed(s) ELSE Finished(s)

\* With the lock: the text of r goes to the queue, piece by piece, or nowhere.
TakesText(op, r, s) ==
    IF s.cancelled \/ current' # r \/ s.finishing
    THEN Becomes(r, s) /\ Does("feeder", Idle)
    ELSE \E out \in Text(op, s) :
            /\ Becomes(r, out.new)
            /\ Does("feeder", [Idle EXCEPT !.at = "putting", !.op = op, !.of = r,
                                           !.rest = out.rest])

Feeds(op) == turn' = IF op = "finish" THEN turn + 1 ELSE turn

\* Text of a response comes while there is none, and starts it.
TextBegins(op) ==
    /\ Feeder.at = "idle" /\ turn <= MaxResponses /\ ~closed
    /\ current = 0
    /\ current' = turn /\ Feeds(op)
    /\ TakesText(op, turn, Begun)
    /\ UNCHANGED <<incremental, closed, open, silenced, slipped>>

\* Text of the response under way comes.  finish_text cancels the flush first.
TextJoins(op) ==
    /\ Feeder.at = "idle" /\ turn <= MaxResponses /\ ~closed
    /\ current = turn /\ Feeds(op)
    /\ LET s == state[turn]
           waiting == [Idle EXCEPT !.at = "locking", !.op = op, !.of = turn]
       IN  \/ /\ op = "finish" /\ FlushAlive(s)
              /\ Becomes(turn, FlushCut(s)) /\ Does("feeder", waiting)
           \/ /\ op = "feed" \/ ~FlushAlive(s)
              /\ ~LockFree(turn)
              /\ Does("feeder", waiting) /\ UNCHANGED state
           \/ /\ op = "feed" \/ ~FlushAlive(s)
              /\ LockFree(turn)
              /\ UNCHANGED current /\ TakesText(op, turn, s)
    /\ UNCHANGED <<incremental, current, closed, open, silenced, slipped>>

TextGetsLock ==
    /\ Feeder.at = "locking" /\ LockFree(Feeder.of)
    /\ UNCHANGED current
    /\ TakesText(Feeder.op, Feeder.of, state[Feeder.of])
    /\ UNCHANGED <<incremental, clientVars, open, silenced>>

\* As Puts would be without the size of the queue.
PutsBoundless ==
    LET r == Feeder.of IN
    /\ Feeder.at = "putting" /\ Feeder.rest # <<>> /\ ~state[r].cancelled
    /\ Becomes(r, [state[r] EXCEPT !.queue = Append(@, Head(Feeder.rest))])
    /\ Does("feeder", [Feeder EXCEPT !.rest = Tail(@)])
    /\ UNCHANGED <<incremental, current, clientVars, open, silenced>>

\* _put_or_cancel
Puts ==
    LET r == Feeder.of IN
    /\ Feeder.at = "putting" /\ Feeder.rest # <<>> /\ ~state[r].cancelled
    /\ Len(state[r].queue) < Capacity
    /\ Becomes(r, [state[r] EXCEPT !.queue = Append(@, Head(Feeder.rest))])
    /\ Does("feeder", [Feeder EXCEPT !.rest = Tail(@)])
    /\ UNCHANGED <<incremental, current, clientVars, open, silenced>>

\* As GivesUp would be if it looked at cancelled after the put only.
GivesUpWithRoom ==
    /\ Feeder.at = "putting" /\ state[Feeder.of].cancelled
    /\ Len(state[Feeder.of].queue) < Capacity
    /\ Does("feeder", Idle)
    /\ UNCHANGED <<incremental, current, state, clientVars, open, silenced>>

\* What was being put when the response was cancelled may be in the queue.
GivesUp ==
    LET r == Feeder.of IN
    /\ Feeder.at = "putting" /\ state[r].cancelled
    /\ \/ UNCHANGED state
       \/ /\ Feeder.rest # <<>> /\ Len(state[r].queue) < Capacity
          /\ Becomes(r, [state[r] EXCEPT !.queue = Append(@, Head(Feeder.rest))])
    /\ Does("feeder", Idle)
    /\ UNCHANGED <<incremental, current, clientVars, open, silenced>>

\* All is put; feed_text has the rest flushed if no more text comes for a while.
TextEnds ==
    LET r == Feeder.of
        s == state[r]
    IN
    /\ Feeder.at = "putting" /\ Feeder.rest = <<>> /\ ~s.cancelled
    /\ IF Feeder.op = "feed"
       THEN Becomes(r, [s EXCEPT !.flush = IF s.pending THEN "asleep" ELSE "none"])
       ELSE UNCHANGED state
    /\ Does("feeder", Idle)
    /\ UNCHANGED <<incremental, current, clientVars, open, silenced>>

\* feed_text raises once the bridge is closed.
TextIsLate ==
    /\ Feeder.at = "idle" /\ turn <= MaxResponses /\ closed
    /\ Does("feeder", [Idle EXCEPT !.at = "raised"])
    /\ UNCHANGED <<incremental, current, state, clientVars, open, silenced>>

-----------------------------------------------------------------------------
(* _cancel_state, for a newer response, for interrupt and for close.       *)

\* The task of a worker is cancelled: its generator is closed, or the last lines of
\* _run_response are cut short, unless they await the flush, which hides it.
WorkerCancelled(s) ==
    CASE s.worker \in {"waiting", "speaking", "draining"} ->
            [s EXCEPT !.worker = "cleaning"]
      [] s.worker = "flushing" /\ s.flush = "cut" -> s
      [] OTHER -> Over(s)

Cancelled(s) == FlushCut([s EXCEPT !.cancelled = TRUE])

\* Up to the first await: the flush, or the worker's task.
Cancels(c, op, of, upto) ==
    LET s == state[current]
        canceling == [Idle EXCEPT !.op = op, !.of = of, !.old = current, !.upto = upto]
    IN
    /\ current' = 0
    /\ IF FlushAlive(s)
       THEN /\ Becomes(current, Cancelled(s))
            /\ Does(c, [canceling EXCEPT !.at = "flushing"])
       ELSE /\ Becomes(current, WorkerCancelled(Cancelled(s)))
            /\ Does(c, [canceling EXCEPT !.at = "awaiting"])

\* Text of a response comes while another one is still spoken.
TextReplaces(op) ==
    /\ Feeder.at = "idle" /\ turn <= MaxResponses /\ ~closed
    /\ current \notin {0, turn}
    /\ Feeds(op)
    /\ Cancels("feeder", op, turn, 0)
    /\ UNCHANGED <<incremental, closed, open, silenced, slipped>>

FlushIsCut(c) ==
    LET r == call[c].old IN
    /\ call[c].at = "flushing" /\ state[r].flush = "none"
    /\ Becomes(r, WorkerCancelled(state[r]))
    /\ Does(c, [call[c] EXCEPT !.at = "awaiting"])
    /\ UNCHANGED <<incremental, current, clientVars, open, silenced>>

\* _close_segment
Closed(s) == [s EXCEPT !.segment = FALSE]
OpenAfter(r) == IF state[r].segment /\ open = r THEN 0 ELSE open

WorkerIsGone(c) ==
    /\ call[c].at = "awaiting" /\ state[call[c].old].worker = "done"

\* Somebody is putting pieces still, and will see that it was cancelled.
CancelWaits(c) ==
    LET r == call[c].old IN
    /\ WorkerIsGone(c) /\ ~LockFree(r)
    /\ open' = OpenAfter(r) /\ Becomes(r, Closed(state[r]))
    /\ Does(c, [call[c] EXCEPT !.at = "clearing"])
    /\ UNCHANGED <<incremental, current, clientVars, silenced>>

CancelEnds(c) ==
    LET r == call[c].old IN
    /\ WorkerIsGone(c) \/ call[c].at = "clearing"
    /\ LockFree(r)
    /\ open' = OpenAfter(r)

Emptied(r) == [state EXCEPT ![r] = [Closed(@) EXCEPT !.queue = <<>>]]

\* As TextStarts would be if the old response was not awaited.
TextStartsEarly ==
    LET r == Feeder.of IN
    /\ Feeder.at \in {"awaiting", "clearing"}
    /\ Feeder.op \in {"feed", "finish"}
    /\ current' = r
    /\ \E out \in Text(Feeder.op, Begun) :
          /\ state' = [state EXCEPT ![Feeder.old] = Closed(@), ![r] = out.new]
          /\ Does("feeder", [Idle EXCEPT !.at = "putting", !.op = Feeder.op, !.of = r,
                                         !.rest = out.rest])
    /\ UNCHANGED <<incremental, clientVars, open, silenced>>

\* The old response is gone and the newer one starts, whatever was called meanwhile.
TextStarts ==
    LET r == Feeder.of IN
    /\ CancelEnds("feeder") /\ Feeder.op \in {"feed", "finish"}
    /\ current' = r
    /\ \E out \in Text(Feeder.op, Begun) :
          /\ state' = [Emptied(Feeder.old) EXCEPT ![r] = out.new]
          /\ Does("feeder", [Idle EXCEPT !.at = "putting", !.op = Feeder.op, !.of = r,
                                         !.rest = out.rest])
    /\ UNCHANGED <<incremental, clientVars, silenced>>

-----------------------------------------------------------------------------
(* interrupt and close.                                                    *)

\* The clients feed no text of an interrupted response any more.
TurnBegun == turn <= MaxResponses /\ (state[turn].worker # "none" \/ Feeder.of = turn)
Suppresses == turn' = IF TurnBegun THEN turn + 1 ELSE turn

\* A response whose text waits for an older one to be cancelled has no state yet.
Slips(c) ==
    slipped' = IF c = "controller" /\ Feeder.old # 0 /\ Feeder.op \in {"feed", "finish"}
               THEN slipped \cup {Feeder.of} ELSE slipped

Discards(upto) ==
    /\ open' = 0
    /\ silenced' = IF upto > silenced THEN upto ELSE silenced

\* speech_started, for the feeder; typed text, for the controller.
Interrupt(c) ==
    /\ call[c].at = "idle" /\ ~closed
    /\ Suppresses /\ Slips(c)
    /\ \/ /\ current = 0
          /\ Discards(turn' - 1)
          /\ UNCHANGED <<current, state, call>>
       \/ /\ current # 0
          /\ Cancels(c, "interrupt", 0, turn' - 1)
          /\ UNCHANGED <<open, silenced>>
    /\ UNCHANGED <<incremental, closed>>

InterruptEnds(c) ==
    /\ WorkerIsGone(c) \/ call[c].at = "clearing"
    /\ call[c].op = "interrupt" /\ LockFree(call[c].old)
    /\ state' = Emptied(call[c].old)
    /\ Discards(call[c].upto)
    /\ Does(c, Idle)
    /\ UNCHANGED <<incremental, current, clientVars>>

\* Shutdown: the controller closes the bridge and returns.
Close ==
    /\ Controller.at = "idle" /\ ~closed
    /\ closed' = TRUE
    /\ Slips("controller")
    /\ \/ /\ current = 0
          /\ Does("controller", [Idle EXCEPT !.at = "stopped"])
          /\ UNCHANGED <<current, state>>
       \/ current # 0 /\ Cancels("controller", "close", 0, 0)
    /\ UNCHANGED <<incremental, turn, open, silenced>>

CloseEnds ==
    /\ CancelEnds("controller") /\ Controller.op = "close"
    /\ state' = Emptied(Controller.old)
    /\ Does("controller", [Idle EXCEPT !.at = "stopped"])
    /\ UNCHANGED <<incremental, current, clientVars, silenced>>

-----------------------------------------------------------------------------
(* _flush_after_idle                                                       *)

\* As FlushWakes would be without the lock.
FlushWakesUnlocked(r) ==
    LET s == state[r] IN
    /\ s.flush = "asleep"
    /\ IF current # r \/ s.cancelled \/ s.finishing \/ ~s.pending
       THEN Becomes(r, [s EXCEPT !.flush = "none"])
       ELSE Becomes(r, [s EXCEPT !.flush = "putting", !.pending = FALSE, !.cut = @ + 1])
    /\ UNCHANGED <<incremental, current, call, clientVars, open, silenced>>

FlushWakes(r) ==
    LET s == state[r] IN
    /\ s.flush = "asleep" /\ LockFree(r)
    /\ IF current # r \/ s.cancelled \/ s.finishing \/ ~s.pending
       THEN Becomes(r, [s EXCEPT !.flush = "none"])
       ELSE Becomes(r, [s EXCEPT !.flush = "putting", !.pending = FALSE, !.cut = @ + 1])
    /\ UNCHANGED <<incremental, current, call, clientVars, open, silenced>>

FlushPuts(r) ==
    LET s == state[r] IN
    /\ s.flush = "putting" /\ Len(s.queue) < Capacity
    /\ Becomes(r, [s EXCEPT !.flush = "none", !.queue = Append(@, s.cut)])
    /\ UNCHANGED <<incremental, current, call, clientVars, open, silenced>>

FlushEnds(r) ==
    /\ state[r].flush = "cut"
    /\ Becomes(r, [state[r] EXCEPT !.flush = "none"])
    /\ UNCHANGED <<incremental, current, call, clientVars, open, silenced>>

-----------------------------------------------------------------------------
(* _run_response                                                           *)

\* The last lines: they begin with cancelled and the flush, and need the lock.
Ending(s) == [Cancelled(s) EXCEPT !.worker = IF FlushAlive(s) THEN "flushing" ELSE "ending"]

WorkerTakes(r) ==
    LET s == state[r]
        rest == [s EXCEPT !.queue = Tail(@)]
    IN
    /\ s.worker = "waiting" /\ s.queue # <<>>
    /\ IF Head(s.queue) = End
       THEN Becomes(r, IF incremental THEN [rest EXCEPT !.worker = "draining", !.said = TRUE]
                       ELSE Ending([rest EXCEPT !.said = TRUE]))
       ELSE Becomes(r, [rest EXCEPT !.spoken = Append(@, Head(s.queue)),
                                    !.worker = IF incremental THEN "waiting" ELSE "speaking"])
    /\ UNCHANGED <<incremental, current, call, clientVars, open, silenced>>

Sounding(s) ==
    \/ s.worker = "speaking"
    \/ incremental /\ s.worker \in {"waiting", "draining"} /\ s.spoken # <<>>

\* As FirstAudio would be without the test for the current response and with a task
\* that outlives its cancellation.
FirstAudioOfAny(r) ==
    LET s == state[r] IN
    /\ Sounding(s) \/ s.worker = "cleaning"
    /\ ~s.segment
    /\ Becomes(r, [s EXCEPT !.segment = TRUE])
    /\ open' = IF open = 0 THEN r ELSE open
    /\ UNCHANGED <<incremental, current, call, clientVars, silenced>>

\* _publish_audio; the audio that follows is heard while the segment is open.  The
\* scheduler ignores a segment that starts while another one is open.
FirstAudio(r) ==
    LET s == state[r] IN
    /\ Sounding(s) /\ current = r /\ ~s.segment
    /\ Becomes(r, [s EXCEPT !.segment = TRUE])
    /\ open' = IF open = 0 THEN r ELSE open
    /\ UNCHANGED <<incremental, current, call, clientVars, silenced>>

\* The audio of a piece, or of the whole text, is over.
AudioEnds(r) ==
    LET s == state[r] IN
    /\ s.worker \in {"speaking", "draining"}
    /\ Becomes(r, IF s.worker = "speaking" THEN [s EXCEPT !.worker = "waiting"] ELSE Ending(s))
    /\ UNCHANGED <<incremental, current, call, clientVars, open, silenced>>

WorkerFails(r) ==
    LET s == state[r] IN
    /\ s.worker \in {"speaking", "draining"} \/ (incremental /\ s.worker = "waiting")
    /\ Becomes(r, Ending([s EXCEPT !.fails = TRUE]))
    /\ UNCHANGED <<incremental, current, call, clientVars, open, silenced>>

\* The generator of a cancelled response is closed.
WorkerCleaned(r) ==
    /\ state[r].worker = "cleaning"
    /\ Becomes(r, [state[r] EXCEPT !.worker = "ending"])
    /\ UNCHANGED <<incremental, current, call, clientVars, open, silenced>>

\* As WorkerEnds would be if it left the segment to others.
WorkerEndsOpen(r) ==
    LET s == state[r] IN
    /\ state[r].worker \in {"flushing", "ending"} /\ LockFree(r)
    /\ Becomes(r, Over(s))
    /\ current' = IF current = r THEN 0 ELSE current
    /\ open' = IF s.fails THEN 0 ELSE open
    /\ UNCHANGED <<incremental, call, clientVars, silenced>>

\* A failure discards the avatar's speech and asks for the shutdown.
WorkerEnds(r) ==
    LET s == state[r] IN
    /\ state[r].worker \in {"flushing", "ending"} /\ LockFree(r)
    /\ Becomes(r, Over(IF current = r THEN Closed(s) ELSE s))
    /\ current' = IF current = r THEN 0 ELSE current
    /\ open' = IF s.fails THEN 0 ELSE IF current = r THEN OpenAfter(r) ELSE open
    /\ UNCHANGED <<incremental, call, clientVars, silenced>>

-----------------------------------------------------------------------------
Texts ==
    \/ \E op \in {"feed", "finish"} : TextBegins(op) \/ TextJoins(op) \/ TextReplaces(op)
    \/ TextIsLate

\* What a caller does once it has called.
Calling(c) ==
    \/ c = "feeder" /\ (TextGetsLock \/ Puts \/ GivesUp \/ TextEnds \/ TextStarts)
    \/ c = "controller" /\ CloseEnds
    \/ FlushIsCut(c) \/ CancelWaits(c) \/ InterruptEnds(c)

Flush(r) == FlushWakes(r) \/ FlushPuts(r) \/ FlushEnds(r)

Worker(r) ==
    \/ WorkerTakes(r) \/ FirstAudio(r) \/ AudioEnds(r) \/ WorkerFails(r)
    \/ WorkerCleaned(r) \/ WorkerEnds(r)

Terminated ==
    /\ Feeder.at \in {"idle", "raised"} /\ Controller.at = "stopped"
    /\ UNCHANGED vars

Next ==
    \/ Texts
    \/ \E c \in Callers : Interrupt(c) \/ Calling(c)
    \/ Close
    \/ \E r \in Responses : Flush(r) \/ Worker(r)
    \/ Terminated

\* Tasks run when they can, the synthesis of a piece ends, and so does the clean-up of
\* one that was cancelled.  Nobody has to speak.
Fairness ==
    /\ \A c \in Callers : WF_vars(Calling(c))
    /\ \A r \in Responses : WF_vars(Flush(r)) /\ WF_vars(Worker(r))

Spec == Init /\ [][Next]_vars /\ Fairness

-----------------------------------------------------------------------------
(* Properties.                                                             *)

Places == {"idle", "locking", "putting", "flushing", "awaiting", "clearing", "stopped",
           "raised"}

TypeOK ==
    /\ incremental \in BOOLEAN /\ closed \in BOOLEAN
    /\ current \in 0..MaxResponses /\ open \in 0..MaxResponses
    /\ turn \in 1..(MaxResponses + 1)
    /\ silenced \in 0..MaxResponses /\ slipped \subseteq Responses
    /\ state \in [Responses ->
                     [worker : {"none", "waiting", "speaking", "draining", "cleaning",
                                "flushing", "ending", "done"},
                      flush : {"none", "asleep", "putting", "cut"},
                      queue : Seq(0..MaxPieces), cut : 0..MaxPieces,
                      pending : BOOLEAN, received : BOOLEAN, finishing : BOOLEAN,
                      cancelled : BOOLEAN, segment : BOOLEAN, fails : BOOLEAN,
                      spoken : Seq(1..MaxPieces), said : BOOLEAN]]
    /\ call \in [Callers ->
                    [at : Places, op : {"none", "feed", "finish", "interrupt", "close"},
                     of : 0..MaxResponses, old : 0..MaxResponses,
                     upto : 0..MaxResponses, rest : Seq(0..MaxPieces)]]
    /\ \A r \in Responses : Len(state[r].queue) <= Capacity

\* The speech scheduler ignores a segment that starts while another is open.  That
\* cannot happen to a response that replaces another one; only while the controller
\* waits for an interrupted response to be cleaned up.
SpeechIsHeard ==
    current # 0 /\ open \notin {0, current} =>
        Controller.op = "interrupt" /\ Controller.old = open

\* The backend gets the pieces in the order of the text, each once, and the end after
\* the last, although two tasks put them and any of them may be cancelled.
SpokenInOrder ==
    \A r \in Responses :
        LET spoken == state[r].spoken IN
        /\ \A i, j \in DOMAIN spoken : i < j => spoken[i] < spoken[j]
        /\ state[r].said =>
              \A i \in DOMAIN state[r].queue : state[r].queue[i] = 0

\* After an interrupt the scheduler listens to no response that had come before it,
\* and after a close to none, but for responses that were still replacing another.
InterruptSilences ==
    /\ open > silenced \/ open \in slipped \cup {0}
    /\ Controller.at = "stopped" => current \in slipped \cup {0}

\* A segment is open only while its response is under way or is being cancelled: the
\* avatar's speech does not stay open after either.
NoSegmentLeftOpen ==
    open # 0 =>
        \/ open = current
        \/ \E c \in Callers : call[c].old = open

\* feed_text, finish_text, interrupt and close return, whoever holds the lock and
\* however full the queue is.
CallsReturn ==
    \A c \in Callers :
        call[c].at \notin {"idle", "stopped", "raised"}
            ~> call[c].at \in {"idle", "stopped", "raised"}

\* "local_tts_queue_applies_async_backpressure_and_keeps_order": a response that has
\* been spoken to its end has had every piece of its text spoken.  This does not
\* hold: see the README.
NothingLost ==
    \A r \in Responses :
        state[r].said => \A n \in 1..state[r].cut : \E i \in DOMAIN state[r].spoken :
                              state[r].spoken[i] = n

\* A response is spoken as it was written, and is heard.
SpeechIsWhole == TypeOK /\ SpeechIsHeard /\ SpokenInOrder

\* What is interrupted or has ended leaves the avatar silent.
EndsInSilence == InterruptSilences /\ NoSegmentLeftOpen
=============================================================================
