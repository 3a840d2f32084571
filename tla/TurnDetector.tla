---------------------------- MODULE TurnDetector ----------------------------
(***************************************************************************)
(* EnergyTurnDetector of conversation_engines/custom_api_client.py: which  *)
(* chunks of the microphone make an utterance.  A chunk lasts one unit of  *)
(* time; it is "loud", "soft" (over the plain threshold, under the one     *)
(* used while the avatar is heard) or "silence".                           *)
(***************************************************************************)
EXTENDS Integers, FiniteSetsExt

CONSTANTS
    MinSpeech,      \* VADOptions.min_speech_ms
    GuardedSpeech,  \* _PLAYBACK_BARGE_IN_MIN_SPEECH_MS
    SilenceEnds,    \* VADOptions.silence_ms
    LongestTurn,    \* VADOptions.max_turn_seconds
    PreRoll,        \* VADOptions.pre_roll_ms
    EchoTail        \* _PLAYBACK_ECHO_TAIL_MS

ASSUME DetectorAssumption ==
    /\ {MinSpeech, GuardedSpeech, SilenceEnds, LongestTurn} \subseteq Nat \ {0}
    /\ {PreRoll, EchoTail} \subseteq Nat /\ PreRoll + 1 < LongestTurn

Sounds == {"silence", "soft", "loud"}

\* pre, length: chunks of the pre-roll and of the turn; sent: _stream_cursor.
Ears == [playing : BOOLEAN, tail : 0..EchoTail, pre : 0..PreRoll,
         active : BOOLEAN, confirmed : BOOLEAN, onset : 0..LongestTurn,
         silence : 0..SilenceEnds, length : 0..LongestTurn, sent : 0..LongestTurn]

NewEar == [playing |-> FALSE, tail |-> 0, pre |-> 0, active |-> FALSE, confirmed |-> FALSE,
           onset |-> 0, silence |-> 0, length |-> 0, sent |-> 0]

Reset(ear) == [NewEar EXCEPT !.playing = ear.playing, !.tail = ear.tail, !.pre = ear.pre]

\* A turn that is not yet speech for sure is forgotten.
ResetUnconfirmed(ear) == IF ear.active /\ ~ear.confirmed THEN Reset(ear) ELSE ear

SetPlayback(ear, on) ==
    IF on = ear.playing THEN ear
    ELSE ResetUnconfirmed([ear EXCEPT !.playing = on, !.tail = IF on THEN 0 ELSE EchoTail])

Guarded(ear) == ear.playing \/ ear.tail > 0

Needed(guarded) == IF guarded THEN Max({MinSpeech, GuardedSpeech}) ELSE MinSpeech

Tailed(ear) ==
    IF ear.playing \/ ear.tail = 0 THEN ear
    ELSE LET less == [ear EXCEPT !.tail = @ - 1]
         IN  IF less.tail = 0 THEN ResetUnconfirmed(less) ELSE less

IsSpeech(sound, guarded) == sound = "loud" \/ (sound = "soft" /\ ~guarded)

Activated(ear, guarded) ==
    [Reset(ear) EXCEPT !.active = TRUE, !.onset = 1, !.length = ear.pre + 1, !.pre = 0,
                       !.confirmed = 1 >= Needed(guarded)]

Extended(ear, speech, guarded) ==
    LET onset == IF ear.confirmed THEN ear.onset ELSE IF speech THEN ear.onset + 1 ELSE 0
    IN  [ear EXCEPT !.length = @ + 1, !.silence = IF speech THEN 0 ELSE @ + 1,
                    !.onset = onset,
                    !.confirmed = @ \/ onset >= Needed(guarded)]

Complete(ear) == ear.silence >= SilenceEnds \/ ear.length >= LongestTurn

\* The detector after a chunk, and the length of the utterance it completes (or 0).
Feed(ear, sound) ==
    LET guarded == Guarded(ear)
        now     == Tailed(ear)
        speech  == IsSpeech(sound, guarded)
        next    == Extended(now, speech, guarded)
    IN  IF now.active
        THEN IF Complete(next)
             THEN [ear |-> Reset(next), utterance |-> IF next.confirmed THEN next.length ELSE 0]
             ELSE [ear |-> next, utterance |-> 0]
        ELSE [ear |-> IF speech THEN Activated(now, guarded)
                      ELSE [now EXCEPT !.pre = Min({@ + 1, PreRoll})],
              utterance |-> 0]

TakeUnstreamed(ear) == [ear EXCEPT !.sent = ear.length]
=============================================================================
