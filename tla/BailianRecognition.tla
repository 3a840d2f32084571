------------------------- MODULE BailianRecognition -------------------------
(***************************************************************************)
(* Realtime recognition (BailianQwenRealtimeASR): one websocket for each   *)
(* utterance.  The caller starts, feeds and finishes an utterance in one   *)
(* task and may cancel it at any await; the transcript is returned as soon *)
(* as it is there, and a cleanup task of the utterance's own waits for the *)
(* end of the session.  Feeding that succeeds changes nothing.             *)
(***************************************************************************)
EXTENDS Integers, FiniteSets

CONSTANT MaxUtterances   \* bound: utterances started

ASSUME RecognitionAssumption == MaxUtterances \in Nat

Utterances == 1..MaxUtterances

VARIABLES
    asr,     \* the client: its caller's place, the utterance it holds (or 0), whether closed
    heard    \* each utterance: websocket, listener, result, session end, cleanup, observer

asrVars == <<asr, heard>>

NewUtterance == [sock |-> "none", listens |-> "no", result |-> "none", finished |-> FALSE,
                 cleanup |-> "no"]

AsrInit ==
    /\ asr = [at |-> "idle", cur |-> 0, stable |-> 0, started |-> 0, closed |-> FALSE]
    /\ heard = [u \in Utterances |-> NewUtterance]

\* _dispose_turn: everything the client holds is let go of.
Disposed(u) ==
    IF u = 0 THEN heard
    ELSE [heard EXCEPT ![u].sock = IF @ = "open" THEN "closed" ELSE @,
             ![u].listens = IF @ = "no" THEN @ ELSE "done", ![u].finished = TRUE,
             ![u].result = IF @ = "pending" THEN "cancelled" ELSE @]

Dispose(place) ==
    heard' = Disposed(asr.cur) /\ asr' = [asr EXCEPT !.at = place, !.cur = 0]

\* start: refused while an utterance is held.
StartUtterance ==
    /\ asr.at = "idle" /\ ~asr.closed /\ asr.cur = 0 /\ asr.started < MaxUtterances
    /\ asr' = [asr EXCEPT !.at = "connecting", !.started = @ + 1] /\ UNCHANGED heard

\* Connected, set up, and heard by a listener; a failure or a cancellation disposes.
SetUp ==
    \/ /\ asr.at = "connecting"
       /\ heard' = [heard EXCEPT ![asr.started].sock = "open"]
       /\ asr' = [asr EXCEPT !.at = "setup", !.cur = asr.started]
    \/ /\ asr.at = "setup"
       /\ heard' = [heard EXCEPT ![asr.cur].listens = "recv", ![asr.cur].result = "pending"]
       /\ asr' = [asr EXCEPT !.at = "active", !.stable = 0]
    \/ asr.at \in {"connecting", "setup"} /\ Dispose("idle")

\* The listener.  A stable partial transcript is the client's only while the utterance is.
HearPartial(u) ==
    /\ heard[u].listens = "recv" /\ asr.cur = u
    /\ asr' = [asr EXCEPT !.stable = u] /\ UNCHANGED heard

Resolve(u, value) ==
    IF heard[u].result = "pending" THEN [heard EXCEPT ![u].result = value] ELSE heard

Hear(u) ==
    /\ heard[u].listens = "recv" /\ UNCHANGED asr
    /\ \/ heard' = Resolve(u, "text")
       \/ \E value \in {"empty", "error"} :
             heard' = [Resolve(u, value) EXCEPT ![u].finished = TRUE, ![u].listens = "done"]

\* A frame or the commit cannot be sent, the result is an error or late, or the task
\* of the caller is cancelled.
Fails == asr.at \in {"active", "finishing"} /\ Dispose("idle")

Finish == asr.at = "active" /\ asr' = [asr EXCEPT !.at = "finishing"] /\ UNCHANGED heard

\* finish returns the transcript; the utterance goes to its cleanup task.
Finishes ==
    /\ asr.at = "finishing" /\ heard[asr.cur].result \in {"text", "empty"}
    /\ heard' = [heard EXCEPT ![asr.cur].cleanup = "waits"]
    /\ asr' = [asr EXCEPT !.at = "idle", !.cur = 0]

\* _cleanup_finished_turn: at the end of the session, when it is late, or cancelled.
CleanUp(u) ==
    /\ heard[u].cleanup = "waits"
    /\ heard' = [heard EXCEPT ![u].cleanup = "done", ![u].listens = "done", ![u].sock = "closed"]
    /\ UNCHANGED asr

\* close: the utterance is cancelled, then every cleanup task.
CloseRecognition ==
    /\ asr.at = "idle" /\ ~asr.closed
    /\ asr' = [asr EXCEPT !.closed = TRUE, !.cur = 0]
    /\ heard' = [u \in Utterances |->
                    IF heard[u].cleanup = "waits"
                    THEN [heard[u] EXCEPT !.cleanup = "done", !.listens = "done", !.sock = "closed"]
                    ELSE Disposed(asr.cur)[u]]

AsrNext ==
    \/ StartUtterance \/ SetUp \/ Fails \/ Finish \/ Finishes \/ CloseRecognition
    \/ \E u \in Utterances : HearPartial(u) \/ Hear(u) \/ CleanUp(u)

-----------------------------------------------------------------------------
\* An utterance whose websocket is open or whose listener runs is held by the client or
\* by its cleanup task, never by both; after close() by neither.
UtterancesAreHeld ==
    \A u \in Utterances :
        /\ heard[u].sock = "open" \/ heard[u].listens = "recv" =>
              (asr.cur = u) # (heard[u].cleanup = "waits") /\ ~asr.closed
        /\ asr.cur = u => heard[u].cleanup = "no"
=============================================================================
