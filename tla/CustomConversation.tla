------------------------- MODULE CustomConversation -------------------------
(***************************************************************************)
(* CustomAPIConversationEngine (conversation_engines/custom_api_client.py): *)
(* the microphone is cut into utterances, an utterance (or a typed text)   *)
(* is answered by a turn: a task that recognises, recalls, lets the model  *)
(* write and the synthesiser speak.  What the user says while the avatar   *)
(* answers interrupts the turn.                                            *)
(*                                                                         *)
(* The tasks of the event loop: the handler of the bus (hand), the turns,  *)
(* and the callback of a partial transcript.  A step runs to the next      *)
(* await that can suspend; a publication finds room in the queues.  The    *)
(* provider is "plain" (HTTP only), or "live": recognition while the user  *)
(* speaks, synthesis while the model writes, both with an HTTP fallback.   *)
(***************************************************************************)
EXTENDS TurnDetector, Sequences, FiniteSets

CONSTANTS
    MaxTurns,   \* bound: turns and captures
    MaxPieces,  \* bound: pieces of a reply
    QueueRoom,  \* _TTS_QUEUE_CAPACITY
    Texts,      \* what the user may say
    None

ASSUME ConversationAssumption ==
    /\ {MaxTurns, MaxPieces, QueueRoom} \subseteq Nat \ {0} /\ None \notin Texts

VARIABLES
    provider,  \* the configured components
    ear,       \* _vad, whose playback flag stands for _playback_segments
    talk,      \* the engine's fields
    capture,   \* _capture_*, and how much the recogniser was fed
    hand,      \* what the handler of the bus is doing
    turns,     \* the turn tasks
    guess,     \* _speculative_response
    partial,   \* the partial transcript the recogniser's listener waits on
    mouth,     \* history: the segments, each with those who spoke in it
    onStage,   \* the segments played: the last one, and whether it still is
    crossed    \* history: a turn was started while another one ran

customVars == <<provider, ear, talk, capture, hand, turns, guess, partial, mouth, onStage, crossed>>

TurnIds == 1..MaxTurns
Live == {"listening", "asking", "recalling", "speaking", "cancelled"}
NoTurn == [phase |-> "none", gen |-> 0, stream |-> FALSE, missing |-> 0, said |-> None,
           reply |-> None, voice |-> None, made |-> 0, ended |-> FALSE, left |-> FALSE,
           taken |-> 0, spoken |-> <<>>]
NoCapture == [turn |-> None, gen |-> None, started |-> FALSE, failed |-> FALSE, fed |-> 0]

CustomInit(kind) ==
    /\ provider = kind /\ ear = NewEar
    /\ talk = [gen |-> 0, current |-> None, segment |-> None, used |-> 0]
    /\ capture = NoCapture
    /\ hand = [at |-> "idle"]
    /\ turns = [t \in TurnIds |-> NoTurn]
    /\ guess = None /\ partial = None
    /\ mouth = <<>> /\ onStage = [last |-> 0, now |-> FALSE]
    /\ crossed = FALSE

Streaming == provider = "live"
Idle == hand.at = "idle"
LiveTurns == {t \in TurnIds : turns[t].phase \in Live}
Fresh == talk.used + 1
Becomes(t, record) == turns' = [turns EXCEPT ![t] = record]

-----------------------------------------------------------------------------
(* The handler: interrupting.                                              *)

\* _interrupt up to its first await: the running turn is cancelled and awaited.
Interrupt(then) ==
    /\ talk' = [talk EXCEPT !.gen = @ + 1, !.current = None]
    /\ turns' = IF talk.current = None THEN turns
                ELSE [turns EXCEPT ![talk.current].phase = "cancelled"]
    /\ hand' = [at |-> "interrupt", victim |-> talk.current, then |-> then]

\* As DropCapture would be if the cancelled turn were not awaited.
DropCaptureAtOnce ==
    /\ hand.at = "interrupt"
    /\ capture' = NoCapture /\ guess' = None
    /\ hand' = [hand EXCEPT !.at = IF capture.started THEN "dropping" ELSE "dropped"]
    /\ UNCHANGED <<provider, ear, talk, turns, partial, mouth, onStage, crossed>>

\* The victim is gone: the capture and the speculation are dropped; to cancel
\* the recogniser is to await it.
DropCapture ==
    /\ hand.at = "interrupt"
    /\ hand.victim # None => turns[hand.victim].phase \notin Live
    /\ capture' = NoCapture /\ guess' = None
    /\ hand' = [hand EXCEPT !.at = IF capture.started THEN "dropping" ELSE "dropped"]
    /\ UNCHANGED <<provider, ear, talk, turns, partial, mouth, onStage, crossed>>

CaptureDropped ==
    /\ hand.at = "dropping" /\ hand' = [hand EXCEPT !.at = "dropped"]
    /\ partial' = None
    /\ UNCHANGED <<provider, ear, talk, capture, turns, guess, mouth, onStage, crossed>>

\* _start_turn: whoever is in _turn_task is no longer anybody's.
StartTurn(t, record) ==
    /\ Becomes(t, record)
    /\ talk' = [talk EXCEPT !.current = t, !.used = IF t > @ THEN t ELSE @,
                            !.segment = IF hand.at = "dropped" THEN None ELSE @]
    /\ crossed' = (crossed \/ \E u \in LiveTurns : turns[u].phase # "cancelled")

\* The end of _interrupt, and what the event was interrupting for.
Interrupted ==
    /\ hand.at = "dropped"
    /\ \/ /\ hand.then = "text"
          /\ \E text \in Texts :
                StartTurn(Fresh, [NoTurn EXCEPT !.phase = "recalling", !.gen = talk.gen,
                                                !.said = text, !.reply = text])
          /\ hand' = [at |-> "idle"] /\ UNCHANGED <<ear, capture>>
       \/ /\ hand.then = "shutdown"
          /\ talk' = [talk EXCEPT !.segment = None]
          /\ hand' = [at |-> "closed"] /\ UNCHANGED <<ear, capture, turns, crossed>>
       \/ /\ hand.then = "capture" /\ ~Streaming
          /\ talk' = [talk EXCEPT !.segment = None]
          /\ hand' = [at |-> "idle"] /\ UNCHANGED <<ear, capture, turns, crossed>>
       \/ /\ hand.then = "capture" /\ Streaming
          /\ talk' = [talk EXCEPT !.segment = None, !.used = Fresh]
          /\ capture' = [NoCapture EXCEPT !.turn = Fresh, !.gen = talk.gen]
          /\ ear' = TakeUnstreamed(ear)
          /\ hand' = [at |-> "begin", chunks |-> ear.length - ear.sent]
          /\ UNCHANGED <<turns, crossed>>
    /\ UNCHANGED <<provider, guess, partial, mouth, onStage>>

-----------------------------------------------------------------------------
(* The handler: listening.                                                 *)

\* _streaming_asr_failed: this utterance will be recognised as a whole.
StreamFails ==
    /\ capture' = [capture EXCEPT !.started = FALSE, !.failed = TRUE]
    /\ guess' = None /\ partial' = None

\* _begin_realtime_capture: the recogniser takes what was said so far, or fails.
Begins ==
    /\ hand.at = "begin"
    /\ \/ /\ capture' = [capture EXCEPT !.started = TRUE, !.fed = hand.chunks]
          /\ UNCHANGED <<guess, partial>>
       \/ StreamFails
    /\ hand' = [at |-> "idle"]
    /\ UNCHANGED <<provider, ear, talk, turns, mouth, onStage, crossed>>

\* The end of an utterance: its turn, with the recogniser that heard it.
AnswerUtterance(length, heard) ==
    LET t == IF heard.turn # None THEN heard.turn ELSE Fresh
    IN  /\ StartTurn(t, [NoTurn EXCEPT
              !.phase = IF heard.started THEN "listening" ELSE "asking",
              !.gen = IF heard.gen # None THEN heard.gen ELSE talk.gen,
              !.stream = heard.started,
              !.missing = IF heard.started THEN length - heard.fed ELSE 0])
        /\ capture' = NoCapture

\* _feed_realtime_capture, then the end of the utterance if this was it.
Feeds ==
    /\ hand.at = "feed"
    /\ \E heard \in {[capture EXCEPT !.fed = @ + hand.chunks],
                     [capture EXCEPT !.started = FALSE, !.failed = TRUE]} :
          /\ guess' = IF heard.started THEN guess ELSE None
          /\ partial' = IF heard.started THEN partial ELSE None
          /\ IF hand.utterance = 0
             THEN capture' = heard /\ UNCHANGED <<talk, turns, crossed>>
             ELSE AnswerUtterance(hand.utterance, heard)
    /\ hand' = [at |-> "idle"]
    /\ UNCHANGED <<provider, ear, mouth, onStage>>

\* A chunk of the microphone.
Hear(sound) ==
    LET fed       == Feed(ear, sound)
        confirmed == ~ear.confirmed /\ fed.ear.confirmed
        streamed  == ear.confirmed /\ Streaming
    IN  /\ Idle /\ (talk.used < MaxTurns \/ capture.turn # None)
        /\ ear' = IF streamed /\ fed.utterance = 0 THEN TakeUnstreamed(fed.ear) ELSE fed.ear
        /\ \/ confirmed /\ Interrupt("capture") /\ UNCHANGED <<capture, crossed>>
           \/ /\ streamed /\ capture.started
              /\ hand' = [at |-> "feed", utterance |-> fed.utterance,
                          chunks |-> IF fed.utterance > 0 THEN 1 ELSE fed.ear.length - fed.ear.sent]
              /\ UNCHANGED <<talk, capture, turns, crossed>>
           \/ /\ ~confirmed /\ ~(streamed /\ capture.started) /\ fed.utterance > 0
              /\ AnswerUtterance(fed.utterance, capture) /\ UNCHANGED hand
           \/ /\ ~confirmed /\ ~(streamed /\ capture.started) /\ fed.utterance = 0
              /\ UNCHANGED <<talk, capture, hand, turns, crossed>>
        /\ UNCHANGED <<provider, guess, partial, mouth, onStage>>

TextEcho ==
    /\ Idle /\ talk.used < MaxTurns
    /\ Interrupt("text")
    /\ UNCHANGED <<provider, ear, capture, guess, partial, mouth, onStage, crossed>>

\* The avatar starts or ends to play a segment.
Playback ==
    /\ Idle
    /\ onStage' \in IF onStage.now THEN {[onStage EXCEPT !.now = FALSE]}
                    ELSE {[last |-> s, now |-> TRUE] : s \in onStage.last + 1 .. Len(mouth)}
    /\ ear' = SetPlayback(ear, onStage'.now)
    /\ UNCHANGED <<provider, talk, capture, hand, turns, guess, partial, mouth, crossed>>

ShutDown ==
    /\ Idle /\ Interrupt("shutdown")
    /\ UNCHANGED <<provider, ear, capture, guess, partial, mouth, onStage, crossed>>

\* The worklet is cancelled while it awaits: close cancels the turn and the capture.
Abort ==
    /\ hand.at # "closed"
    /\ hand' = [at |-> "closed"] /\ capture' = NoCapture /\ guess' = None /\ partial' = None
    /\ turns' = IF talk.current = None \/ turns[talk.current].phase \notin Live THEN turns
                ELSE [turns EXCEPT ![talk.current].phase = "cancelled"]
    /\ UNCHANGED <<provider, ear, talk, mouth, onStage, crossed>>

-----------------------------------------------------------------------------
(* Speculation on a partial transcript.                                    *)

\* _on_stable_partial: checked, then suspended while the memory is recalled; the
\* listener that called it receives nothing meanwhile.
Partial(text) ==
    /\ partial = None /\ capture.started /\ capture.gen = talk.gen
    /\ partial' = [turn |-> capture.turn, gen |-> capture.gen, text |-> text]
    /\ guess' = None
    /\ UNCHANGED <<provider, ear, talk, capture, hand, turns, mouth, onStage, crossed>>

\* ... and nothing is checked again when the guess is installed.
Guess ==
    /\ partial # None
    /\ guess' = partial /\ partial' = None
    /\ UNCHANGED <<provider, ear, talk, capture, hand, turns, mouth, onStage, crossed>>

-----------------------------------------------------------------------------
(* A turn.                                                                 *)

\* The turn's task is over; _run_turn clears _turn_task if it is still its own.
Gone(t) == talk' = [talk EXCEPT !.current = IF @ = t THEN None ELSE @]
GoneClosing(t) ==
    talk' = [talk EXCEPT !.current = IF @ = t THEN None ELSE @, !.segment = None]

Ends(t) == turns' = [turns EXCEPT ![t].phase = "over"] /\ Gone(t) /\ UNCHANGED mouth
\* An exception: the open segment is closed and the avatar's speech discarded.
Fails(t) == turns' = [turns EXCEPT ![t].phase = "failed"] /\ GoneClosing(t) /\ UNCHANGED mouth

\* As TakesGuess would be if it did not compare the transcripts.
TakesAnyGuess(t, text) ==
    guess # None /\ guess.turn = t /\ guess.gen = turns[t].gen

TakesGuess(t, text) ==
    /\ guess # None
    /\ guess.turn = t /\ guess.gen = turns[t].gen /\ guess.text = text

\* The transcript is there, the guess made of it is taken or dropped.
Understands(t, text) ==
    /\ guess' = IF turns[t].stream THEN None ELSE guess
    /\ IF turns[t].gen # talk.gen \/ text = None THEN Ends(t)
       ELSE LET taken == turns[t].stream /\ TakesGuess(t, text)
            IN  /\ Becomes(t, [turns[t] EXCEPT
                      !.phase = IF taken THEN "speaking" ELSE "recalling", !.said = text,
                      !.reply = IF taken THEN guess.text ELSE text])
                /\ UNCHANGED <<talk, mouth>>

\* asr.finish of what was streamed, or one request for the whole utterance.
Recognises(t) ==
    /\ turns[t].phase \in {"listening", "asking"}
    /\ \/ /\ turns[t].phase = "listening" => partial = None
          /\ \E text \in Texts \cup {None} : Understands(t, text)
          /\ UNCHANGED partial
       \/ /\ turns[t].phase = "listening" /\ partial' = None    \* HTTP fallback
          /\ turns' = [turns EXCEPT ![t].phase = "asking"]
          /\ UNCHANGED <<talk, guess, mouth>>
       \/ /\ turns[t].phase = "asking" /\ Fails(t)
          /\ guess' = IF turns[t].stream THEN None ELSE guess
          /\ UNCHANGED partial
    /\ UNCHANGED <<provider, ear, capture, hand, onStage, crossed>>

Turn(t, phase) ==
    /\ turns[t].phase = phase
    /\ UNCHANGED <<provider, ear, capture, hand, guess, partial, onStage, crossed>>

\* _process_text: what is remembered about this text, if anything is.
Recalls(t) ==
    /\ Turn(t, "recalling")
    /\ turns' = [turns EXCEPT ![t].phase = "speaking"]
    /\ UNCHANGED <<talk, mouth>>

\* As HasRoom would be if the queue had no bound.
HasRoomAlways(t) == ~turns[t].ended

HasRoom(t) == turns[t].made - turns[t].taken < QueueRoom /\ ~turns[t].ended

\* The model writes one more piece, ends, or fails; a stale reply is cut off.
Writes(t) ==
    /\ Turn(t, "speaking")
    /\ \/ /\ HasRoom(t) /\ turns[t].gen = talk.gen /\ turns[t].made < MaxPieces
          /\ turns' = [turns EXCEPT ![t].made = @ + 1] /\ UNCHANGED <<talk, mouth>>
       \/ /\ HasRoom(t)
          /\ \E left \in {FALSE} \cup {turns[t].gen # talk.gen} :
                turns' = [turns EXCEPT ![t].ended = TRUE, ![t].left = left]
          /\ UNCHANGED <<talk, mouth>>
       \/ ~turns[t].ended /\ Fails(t)

\* _publish_tts_audio: unless the turn is stale its pieces are heard, in the
\* open segment or in a new one.
Utters(t) ==
    LET open == IF talk.segment = None THEN Append(mouth, {}) ELSE mouth
    IN  IF turns[t].gen # talk.gen
        THEN UNCHANGED <<talk, mouth>>
        ELSE /\ talk' = [talk EXCEPT !.segment = Len(open)]
             /\ mouth' = [open EXCEPT ![Len(open)] = @ \cup {t}]

Spoken(t, pieces) ==
    IF turns[t].gen = talk.gen THEN turns[t].spoken \o pieces ELSE turns[t].spoken

\* Without duplex synthesis a piece is spoken when it is taken from the queue.
Speaks(t) ==
    /\ Turn(t, "speaking")
    /\ ~Streaming /\ turns[t].taken < turns[t].made
    /\ Utters(t)
    /\ Becomes(t, [turns[t] EXCEPT !.taken = @ + 1, !.spoken = Spoken(t, <<turns[t].taken + 1>>)])

\* _speak_incremental_queue: text is sent and audio received by two tasks.
Sends(t) ==
    /\ Turn(t, "speaking")
    /\ Streaming /\ turns[t].taken < turns[t].made /\ turns[t].voice # "said"
    /\ turns' = [turns EXCEPT ![t].taken = @ + 1] /\ UNCHANGED <<talk, mouth>>

IsHeard(t) ==
    LET piece == Len(turns[t].spoken) + 1
    IN  /\ Turn(t, "speaking")
        /\ Streaming /\ turns[t].voice = None /\ piece <= turns[t].taken
        /\ turns[t].gen = talk.gen
        /\ Utters(t)
        /\ Becomes(t, [turns[t] EXCEPT !.spoken = Spoken(t, <<piece>>)])

\* As VoiceFails would be if the text were left to HTTP in any case.
VoiceFailsAgain(t) ==
    /\ Turn(t, "speaking")
    /\ IF Streaming /\ turns[t].voice = None
       THEN turns' = [turns EXCEPT ![t].voice = "http"] /\ UNCHANGED <<talk, mouth>>
       ELSE Fails(t)

\* Synthesis fails.  A duplex one that was not heard yet leaves its text to HTTP;
\* one that was heard must not be said twice; a stale one is given up.
VoiceFails(t) ==
    /\ Turn(t, "speaking")
    /\ IF Streaming /\ turns[t].voice = None /\ turns[t].spoken = <<>>
       THEN /\ turns' = [turns EXCEPT ![t].voice = IF turns[t].gen = talk.gen THEN "http" ELSE "said"]
            /\ UNCHANGED <<talk, mouth>>
       ELSE Fails(t)

\* The whole text is there, and is spoken at once.
SpeaksWhole(t) ==
    LET whole == [i \in 1..turns[t].made |-> i]
    IN  /\ Turn(t, "speaking")
        /\ turns[t].voice = "http" /\ turns[t].ended /\ turns[t].taken = turns[t].made
        /\ turns[t].made > 0
        /\ Utters(t)
        /\ Becomes(t, [turns[t] EXCEPT !.voice = "said", !.spoken = Spoken(t, whole)])

HasSaidAll(t) ==
    /\ turns[t].ended
    /\ \/ turns[t].voice = "said"
       \/ /\ turns[t].taken = turns[t].made
          /\ Streaming => /\ turns[t].voice = None /\ turns[t].spoken # <<>>
                          /\ turns[t].gen = talk.gen => Len(turns[t].spoken) = turns[t].made

\* Model and synthesiser are done: the segment is closed, unless the reply was
\* cut off.
Finishes(t) ==
    /\ Turn(t, "speaking") /\ HasSaidAll(t)
    /\ turns' = [turns EXCEPT ![t].phase = "done"]
    /\ (IF turns[t].left THEN Gone(t) ELSE GoneClosing(t)) /\ UNCHANGED mouth

\* The cancelled turn has cancelled what it awaited, its speculation included.
Leaves(t) ==
    /\ turns[t].phase = "cancelled"
    /\ turns' = [turns EXCEPT ![t].phase = "over"] /\ Gone(t)
    /\ IF turns[t].stream THEN guess' \in {guess, None} /\ partial' = None
       ELSE UNCHANGED <<guess, partial>>
    /\ UNCHANGED <<provider, ear, capture, hand, mouth, onStage, crossed>>

-----------------------------------------------------------------------------
TurnStep(t) ==
    \/ Recognises(t) \/ Recalls(t) \/ Writes(t) \/ Speaks(t) \/ Sends(t) \/ IsHeard(t)
    \/ VoiceFails(t) \/ SpeaksWhole(t) \/ Finishes(t) \/ Leaves(t)

Handles ==
    \/ DropCapture \/ CaptureDropped \/ Interrupted \/ Begins \/ Feeds
    \/ (\E sound \in Sounds : Hear(sound)) \/ TextEcho \/ Playback \/ ShutDown \/ Abort

CustomNext ==
    \/ Handles
    \/ (\E text \in Texts : Partial(text)) \/ Guess
    \/ \E t \in TurnIds : TurnStep(t)

-----------------------------------------------------------------------------
(* Properties.                                                             *)

CustomTypeOK ==
    /\ provider \in {"plain", "live", None} /\ ear \in Ears
    /\ talk.gen \in Nat /\ talk.current \in TurnIds \cup {None}
    /\ talk.segment \in (1..Len(mouth)) \cup {None} /\ talk.used \in 0..MaxTurns
    /\ capture.turn \in TurnIds \cup {None} /\ capture.fed \in 0..LongestTurn
    /\ hand.at \in {"idle", "interrupt", "dropping", "dropped", "begin", "feed", "closed"}
    /\ \A t \in TurnIds :
          /\ turns[t].phase \in Live \cup {"none", "done", "failed", "over"}
          /\ turns[t].taken \in 0..turns[t].made
          /\ turns[t].made - turns[t].taken <= QueueRoom

\* Unless a turn was started while another one ran (crossed): one turn runs at a
\* time, it is the one the next interruption will cancel, no segment has two
\* speakers and none is left open.  In any case a turn that was interrupted adds
\* nothing to what its successors say.
OneVoice ==
    /\ ~crossed =>
          /\ Cardinality(LiveTurns) <= 1
          /\ \A s \in DOMAIN mouth : Cardinality(mouth[s]) <= 1
          /\ Idle => /\ \A t \in LiveTurns : talk.current = t /\ turns[t].gen = talk.gen
                     /\ LiveTurns = {} => talk.segment = None
    /\ \A s \in DOMAIN mouth : \A t, u \in mouth[s] : turns[t].gen = turns[u].gen

\* A reply is heard from its first piece on, in order, nothing twice - whatever
\* fails on the way - and one that was finished is heard to its end.
SaidOnce ==
    \A t \in TurnIds :
        /\ turns[t].spoken = [i \in 1..Len(turns[t].spoken) |-> i]
        /\ turns[t].phase = "done" /\ turns[t].gen = talk.gen =>
              Len(turns[t].spoken) = turns[t].made

\* A turn hears the whole utterance - the recogniser that listened got every
\* chunk, the pre-roll too - and answers the transcript, whatever was guessed.
AnswersWhatWasSaid ==
    \A t \in TurnIds : turns[t].missing = 0 /\ turns[t].reply = turns[t].said
=============================================================================
