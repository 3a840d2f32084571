------------------------ MODULE MiniMaxConversation ------------------------
(***************************************************************************)
(* MiniMaxRealtimeConversationEngine                                       *)
(* (conversation_engines/minimax_realtime_client.py) with local synthesis: *)
(* one loop takes the finished replies off the websocket and speaks them,  *)
(* the other takes the user's speech and texts off the bus and interrupts. *)
(* Both await the task of the reply they cancel; the reply's task closes   *)
(* the shared _active_segment when it ends.                                *)
(***************************************************************************)
EXTENDS Integers, Sequences, FiniteSetsExt

CONSTANTS MaxReplies, MaxAudio   \* bounds: replies of the server, audio of one

VARIABLES
    mmIds,    \* the server gives its replies ids
    mmRecent, \* replies in _recent_response_ids, or in _last_unidentified_response_text
    mmWire,   \* finished replies on the websocket; one may be announced twice
    mmTask,   \* _tts_task, or 0
    mmSpeech, \* the tasks, one for each time a reply is spoken
    mmOpen,   \* _active_segment, or 0
    mmMouth,  \* history: who spoke in each segment
    mmLoop,   \* what each loop awaits
    mmTurns   \* how often _begin_user_turn was called

mmVars == <<mmIds, mmRecent, mmWire, mmTask, mmSpeech, mmOpen, mmMouth, mmLoop, mmTurns>>

MmLoops == {"notifications", "bus"}
MmWaits == [at |-> "wait", of |-> 0, victim |-> 0, turn |-> 0]

MiniMaxInit ==
    /\ mmIds \in BOOLEAN /\ mmRecent = {} /\ mmWire = <<>>
    /\ mmTask = 0 /\ mmSpeech = <<>> /\ mmOpen = 0 /\ mmMouth = <<>>
    /\ mmLoop = [l \in MmLoops |-> MmWaits] /\ mmTurns = 0

MmLast == IF mmWire = <<>> THEN 0 ELSE mmWire[Len(mmWire)].of

\* The server finishes a reply, or says so of the same reply once more (its text
\* and its audio's transcript).
MiniMaxReplies ==
    /\ Len(mmWire) < MaxReplies + 1
    /\ \E r \in {MmLast, MmLast + 1} \cap (1..MaxReplies) :
          mmWire' = Append(mmWire, [of |-> r, read |-> FALSE])
    /\ UNCHANGED <<mmIds, mmRecent, mmTask, mmSpeech, mmOpen, mmMouth, mmLoop, mmTurns>>

MmUnread == {i \in DOMAIN mmWire : ~mmWire[i].read}

\* _cancel_tts of a task that runs: it is nobody's any more, and is awaited.
MmCancels(loop, purpose) ==
    /\ mmTask # 0 /\ mmTask' = 0
    /\ mmSpeech' = [mmSpeech EXCEPT ![mmTask].phase = "cancelled"]
    /\ mmLoop' = [mmLoop EXCEPT ![loop] = [at |-> "cancel", of |-> purpose, victim |-> mmTask,
                                         turn |-> mmTurns]]
    /\ UNCHANGED mmOpen

MmCancelled(loop) ==
    /\ mmLoop[loop].at = "cancel" /\ mmSpeech[mmLoop[loop].victim].phase = "over"
    /\ mmLoop' = [mmLoop EXCEPT ![loop] = MmWaits]

\* _finish_segment and _start_local_tts: whoever interrupted meanwhile is not asked.
MmStarts(r, turn) ==
    /\ mmOpen' = 0
    /\ mmSpeech' = Append(mmSpeech, [of |-> r, phase |-> "speaking", heard |-> 0, turn |-> turn])
    /\ mmTask' = Len(mmSpeech')

\* As MiniMaxHears would be if it did not remember what was announced.
MiniMaxHearsAgain ==
    /\ mmLoop["notifications"].at = "wait" /\ MmUnread # {}
    /\ LET i == Min(MmUnread)
           r == mmWire[i].of
       IN  /\ mmWire' = [mmWire EXCEPT ![i].read = TRUE]
           /\ \/ MmCancels("notifications", r)
              \/ mmTask = 0 /\ MmStarts(r, mmTurns) /\ UNCHANGED mmLoop
    /\ UNCHANGED <<mmIds, mmRecent, mmMouth, mmTurns>>

\* _is_duplicate_local_response, then room is made for the reply.
MiniMaxHears ==
    /\ mmLoop["notifications"].at = "wait" /\ MmUnread # {}
    /\ LET i == Min(MmUnread)
           r == mmWire[i].of
       IN  /\ mmWire' = [mmWire EXCEPT ![i].read = TRUE]
           /\ mmRecent' = IF mmIds THEN mmRecent \cup {r} ELSE {r}
           /\ \/ r \in mmRecent /\ UNCHANGED <<mmTask, mmSpeech, mmLoop, mmOpen>>
              \/ r \notin mmRecent /\ MmCancels("notifications", r)
              \/ r \notin mmRecent /\ mmTask = 0 /\ MmStarts(r, mmTurns) /\ UNCHANGED mmLoop
    /\ UNCHANGED <<mmIds, mmMouth, mmTurns>>

MiniMaxStarts ==
    /\ MmCancelled("notifications") /\ MmStarts(mmLoop["notifications"].of, mmLoop["notifications"].turn)
    /\ UNCHANGED <<mmIds, mmRecent, mmWire, mmMouth, mmTurns>>

\* Confirmed speech or a text: a new turn of the user.
MiniMaxInterrupt ==
    /\ mmLoop["bus"].at = "wait" /\ mmTurns < 2
    /\ mmTurns' = mmTurns + 1
    /\ mmRecent' = IF mmIds THEN mmRecent ELSE {}
    /\ \/ MmCancels("bus", 0)
       \/ mmTask = 0 /\ mmOpen' = 0 /\ UNCHANGED <<mmTask, mmSpeech, mmLoop>>
    /\ UNCHANGED <<mmIds, mmWire, mmMouth>>

\* ... whose segment is closed, and what was not played yet is discarded.
MiniMaxInterrupted ==
    /\ MmCancelled("bus") /\ mmOpen' = 0
    /\ UNCHANGED <<mmIds, mmRecent, mmWire, mmTask, mmSpeech, mmMouth, mmTurns>>

\* _speak_local.
MiniMaxSpeaks(k) ==
    LET open == IF mmOpen = 0 THEN Append(mmMouth, {}) ELSE mmMouth
    IN  /\ mmSpeech[k].phase = "speaking" /\ mmSpeech[k].heard < MaxAudio
        /\ mmSpeech' = [mmSpeech EXCEPT ![k].heard = @ + 1]
        /\ mmOpen' = Len(open)
        /\ mmMouth' = [open EXCEPT ![Len(open)] = @ \cup {k}]
        /\ UNCHANGED <<mmIds, mmRecent, mmWire, mmTask, mmLoop, mmTurns>>

\* The end of the task, of its own or cancelled, closes the segment that is open.
MiniMaxSpoken(k) ==
    /\ mmSpeech[k].phase \in {"speaking", "cancelled"}
    /\ mmSpeech' = [mmSpeech EXCEPT ![k].phase = "over"]
    /\ mmOpen' = 0
    /\ mmTask' = IF mmTask = k THEN 0 ELSE mmTask
    /\ UNCHANGED <<mmIds, mmRecent, mmWire, mmMouth, mmLoop, mmTurns>>

MiniMaxNext ==
    \/ MiniMaxReplies \/ MiniMaxHears \/ MiniMaxStarts \/ MiniMaxInterrupt \/ MiniMaxInterrupted
    \/ \E k \in DOMAIN mmSpeech : MiniMaxSpeaks(k) \/ MiniMaxSpoken(k)

MiniMaxTypeOK ==
    /\ mmTask \in DOMAIN mmSpeech \cup {0} /\ mmOpen \in DOMAIN mmMouth \cup {0}
    /\ mmRecent \subseteq 1..MaxReplies
    /\ \A l \in MmLoops : mmLoop[l].victim \in DOMAIN mmSpeech \cup {0}

\* One reply is spoken at a time, by the task the next interruption will cancel;
\* no segment has two speakers; and a reply that was announced twice is spoken
\* once (without ids: once in a turn of the user).
MiniMaxOneVoice ==
    /\ \A k \in DOMAIN mmSpeech : mmSpeech[k].phase = "speaking" => mmTask = k
    /\ \A s \in DOMAIN mmMouth : Cardinality(mmMouth[s]) = 1
    /\ \A j, k \in DOMAIN mmSpeech :
          mmSpeech[j].of = mmSpeech[k].of /\ (mmIds \/ mmSpeech[j].turn = mmSpeech[k].turn) => j = k
=============================================================================
