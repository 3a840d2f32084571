------------------------ MODULE RealtimeConversation ------------------------
(***************************************************************************)
(* RealtimeApiClient (conversation_engines/realtime_api_client.py): one    *)
(* task listens to the service, the other takes typed texts off the bus.   *)
(* In mode "text" the replies are spoken by the bridge (TTSBridge), in     *)
(* mode "audio" they come as audio.                                        *)
(*                                                                         *)
(* The service is external: it writes one response at a time, as pieces,   *)
(* the whole and the end; it ends one when the user speaks or the client   *)
(* cancels it, and answers a cancellation that comes too late by an error. *)
(* To feed the bridge, to interrupt it and to send are awaits.  What the   *)
(* bridge is being fed when it is interrupted is not heard; what it takes  *)
(* counts as heard here, and TTSBridge says what becomes of it.            *)
(***************************************************************************)
EXTENDS Naturals, Sequences, SequencesExt, FiniteSets

CONSTANTS
    RtReplies, RtPieces, RtTexts, RtSpeeches,  \* bounds: responses, pieces of one, typed texts, speeches
    RtAhead,                                   \* bound: messages the service is ahead
    RtRoom                                     \* _MAX_PENDING_CANCEL_EVENTS (64)

ASSUME RealtimeAssumption ==
    {RtReplies, RtPieces, RtTexts, RtSpeeches, RtAhead, RtRoom} \subseteq Nat /\ RtRoom > 0

VARIABLES
    rtMode,    \* "text" or "audio"
    rtWire,    \* messages of the service on their way
    rtUp,      \* messages to the service on their way
    rtServer,  \* what the service does, and what it still owes
    rtReply,   \* history: what became of each response
    rt,        \* the engine's fields
    rtLoop,    \* what the listener awaits
    rtHand,    \* what the handler of the bus awaits
    rtFailed   \* an error of the service has ended the session

rtVars == <<rtMode, rtWire, rtUp, rtServer, rtReply, rt, rtLoop, rtHand, rtFailed>>
serviceVars == <<rtMode, rtServer, rtFailed>>

RtIds == 1..RtReplies
NotLeft == RtPieces + 2
Listens == [at |-> "wait", of |-> 0, cut |-> FALSE]
NewResponse == [wrote |-> 0, heard |-> 0, told |-> 0, left |-> NotLeft, known |-> FALSE,
             ended |-> FALSE, completed |-> FALSE, touched |-> FALSE]

RtInit(mode) ==
    /\ rtMode = mode /\ rtWire = <<>> /\ rtUp = <<>>
    /\ rtServer = [writes |-> 0, whole |-> FALSE, count |-> 0, owes |-> FALSE, speeches |-> 0]
    /\ rtReply = [r \in RtIds |-> NewResponse]
    /\ rt = [current |-> 0, suppressed |-> {}, cancels |-> <<>>, scripts |-> {}]
    /\ rtLoop = Listens /\ rtHand = [at |-> "idle", texts |-> 0, tail |-> FALSE, undrained |-> FALSE]
    /\ rtFailed = FALSE

-----------------------------------------------------------------------------
(* The service.                                                            *)

Message(kind, r) == [kind |-> kind, of |-> r]
\* What is sent when response r ends: its whole text so far, unless it was sent, and the end.
Farewell(r, status) ==
    (IF rtServer.whole THEN <<>> ELSE <<Message("whole", r)>>) \o <<Message(status, r)>>
Quiet == /\ rtServer' = [rtServer EXCEPT !.writes = 0, !.whole = FALSE]

ServiceWrites ==
    /\ Len(rtWire) < RtAhead
    /\ LET r == rtServer.writes IN
       \/ /\ r = 0 /\ rtServer.owes /\ rtServer.count < RtReplies
          /\ rtServer' = [rtServer EXCEPT !.writes = rtServer.count + 1, !.count = @ + 1,
                                          !.owes = FALSE]
          /\ rtWire' = Append(rtWire, Message("created", rtServer.count + 1))
          /\ UNCHANGED rtReply
       \/ /\ r # 0 /\ ~rtServer.whole /\ rtReply[r].wrote < RtPieces
          /\ rtReply' = [rtReply EXCEPT ![r].wrote = @ + 1]
          /\ rtWire' = Append(rtWire, Message("piece", r)) /\ UNCHANGED rtServer
       \/ /\ r # 0 /\ ~rtServer.whole
          /\ rtServer' = [rtServer EXCEPT !.whole = TRUE]
          /\ rtWire' = Append(rtWire, Message("whole", r)) /\ UNCHANGED rtReply
       \/ /\ rtServer.whole /\ rtWire' = Append(rtWire, Message("completed", r))
          /\ Quiet /\ UNCHANGED rtReply
       \/ /\ r # 0 /\ rtWire' = rtWire \o Farewell(r, "failed")
          /\ Quiet /\ UNCHANGED rtReply
    /\ UNCHANGED <<rtMode, rtUp, rt, rtLoop, rtHand, rtFailed>>

\* Semantic VAD: the response under way ends, and another one is owed.
UserInterrupts ==
    /\ Len(rtWire) < RtAhead /\ rtServer.speeches < RtSpeeches
    /\ rtWire' = Append(rtWire, Message("speech", 0)) \o
                 (IF rtServer.writes = 0 THEN <<>> ELSE Farewell(rtServer.writes, "cancelled"))
    /\ rtServer' = [rtServer EXCEPT !.writes = 0, !.whole = FALSE, !.owes = TRUE, !.speeches = @ + 1]
    /\ UNCHANGED <<rtMode, rtUp, rtReply, rt, rtLoop, rtHand, rtFailed>>

ServiceReads ==
    /\ rtUp # <<>> /\ rtUp' = Tail(rtUp)
    /\ LET m == Head(rtUp) IN
       \/ /\ m.kind = "text" /\ rtServer' = [rtServer EXCEPT !.owes = TRUE] /\ UNCHANGED rtWire
       \/ /\ m.kind = "cancel" /\ m.of = rtServer.writes
          /\ rtWire' = rtWire \o Farewell(m.of, "cancelled") /\ Quiet
       \/ /\ m.kind = "cancel" /\ m.of # rtServer.writes
          /\ rtWire' = Append(rtWire, Message("error", m.of)) /\ UNCHANGED rtServer
    /\ UNCHANGED <<rtMode, rtReply, rt, rtLoop, rtHand, rtFailed>>

-----------------------------------------------------------------------------
(* The listener.                                                           *)

Comes(kinds) ==
    /\ rtLoop.at = "wait" /\ rtWire # <<>> /\ Head(rtWire).kind \in kinds
    /\ rtHand.at # "closed" /\ ~rtFailed
    /\ rtWire' = Tail(rtWire) /\ UNCHANGED <<rtMode, rtServer, rtUp>>

\* StreamingLocalTTSBridge.interrupt begins: what is being fed is lost, and so is what
\* was; replies is rtReply with what the caller has changed.
Interrupts(replies, suppressed) ==
    rtReply' = [r \in RtIds |->
        [replies[r] EXCEPT !.touched = @ \/ (replies[r].known /\ ~replies[r].ended),
                           !.left = IF r \in suppressed THEN replies[r].heard ELSE @]]
Touched(r) == [rtReply EXCEPT ![r].touched = TRUE]

RtHearsCreated ==
    /\ Comes({"created"})
    /\ LET r == Head(rtWire).of IN
       /\ rt' = [rt EXCEPT !.suppressed = @ \ {r}, !.current = r]
       /\ rtReply' = [rtReply EXCEPT ![r].known = TRUE]
    /\ UNCHANGED <<rtLoop, rtHand, rtFailed>>

\* A piece of text is fed to the bridge, one of audio decoded in a thread.
RtHearsPieceOfAny ==
    /\ Comes({"piece"})
    /\ rtLoop' = [at |-> "feed", of |-> Head(rtWire).of, cut |-> FALSE]
    /\ UNCHANGED <<rt, rtReply, rtHand, rtFailed>>

RtHearsPiece ==
    /\ Comes({"piece"})
    /\ LET r == Head(rtWire).of IN
       rtLoop' = IF rtMode = "text" /\ r \in rt.suppressed THEN rtLoop
                 ELSE [at |-> "feed", of |-> r, cut |-> FALSE]
    /\ UNCHANGED <<rt, rtReply, rtHand, rtFailed>>

Fed ==
    /\ rtLoop.at = "feed" /\ rtLoop' = Listens
    /\ rtReply' = IF rtLoop.cut THEN rtReply ELSE [rtReply EXCEPT ![rtLoop.of].heard = @ + 1]
    /\ rtHand' = [rtHand EXCEPT !.tail = @ \/ ~rtLoop.cut]
    /\ UNCHANGED <<rtMode, rtWire, rtUp, rtServer, rt, rtFailed>>

\* The transcript of a response that is spoken by the bridge waits for its end.
RtHearsWhole ==
    /\ Comes({"whole"})
    /\ LET r == Head(rtWire).of IN
       \/ /\ rtMode = "audio"
          /\ rtReply' = [rtReply EXCEPT ![r].told = @ + 1] /\ UNCHANGED rtLoop
       \/ /\ rtMode = "text" /\ r \in rt.suppressed /\ UNCHANGED <<rtLoop, rtReply>>
       \/ /\ rtMode = "text" /\ r \notin rt.suppressed
          /\ rtLoop' = [at |-> "finish", of |-> r, cut |-> FALSE] /\ UNCHANGED rtReply
    /\ UNCHANGED <<rt, rtHand, rtFailed>>

Finished ==
    /\ rtLoop.at = "finish" /\ rtLoop' = Listens
    /\ rt' = [rt EXCEPT !.scripts = @ \cup {rtLoop.of}]
    /\ UNCHANGED <<rtMode, rtWire, rtUp, rtServer, rtReply, rtHand, rtFailed>>

StillCurrent(r) == IF rt.current = r THEN 0 ELSE rt.current
EndedWith(r, told, ok) ==
    [rtReply EXCEPT ![r].ended = TRUE, ![r].completed = ok,
                    ![r].told = IF told THEN @ + 1 ELSE @]

\* response.done, but for the one that silences the bridge.
RtHearsDoneKeeping ==
    /\ Comes({"completed", "failed", "cancelled"})
    /\ LET r == Head(rtWire).of
           ok == Head(rtWire).kind = "completed"
       IN  /\ rtMode = "audio" \/ ok \/ r \in rt.suppressed
           /\ rtReply' = EndedWith(r, rtMode = "text" /\ r \in rt.scripts \ rt.suppressed, ok)
           /\ rt' = [rt EXCEPT !.current = StillCurrent(r), !.scripts = @ \ {r}]
    /\ UNCHANGED <<rtLoop, rtHand, rtFailed>>

RtHearsDone ==
    /\ Comes({"completed", "failed", "cancelled"})
    /\ LET r == Head(rtWire).of
           ok == Head(rtWire).kind = "completed"
       IN  /\ rtMode = "audio" \/ ok \/ r \in rt.suppressed
           /\ rtReply' = EndedWith(r, rtMode = "text" /\ r \in rt.scripts \ rt.suppressed, ok)
           /\ rt' = [rt EXCEPT !.current = StillCurrent(r), !.scripts = @ \ {r},
                               !.suppressed = @ \ {r}]
    /\ UNCHANGED <<rtLoop, rtHand, rtFailed>>

\* A response that ended early although nobody here wanted it to.
RtHearsFailure ==
    /\ Comes({"failed", "cancelled"}) /\ rtMode = "text"
    /\ LET r == Head(rtWire).of IN
       /\ r \notin rt.suppressed
       /\ rt' = [rt EXCEPT !.current = StillCurrent(r), !.scripts = @ \ {r}, !.suppressed = @ \cup {r}]
       /\ Interrupts(rtReply, {r})
       /\ rtLoop' = [at |-> "interrupt", of |-> r, cut |-> FALSE]
    /\ rtHand' = [rtHand EXCEPT !.tail = FALSE]
    /\ UNCHANGED rtFailed

RtHearsSpeech ==
    /\ Comes({"speech"})
    /\ LET r == rt.current IN
       /\ rt' = [rt EXCEPT !.current = 0,
                           !.suppressed = IF r = 0 THEN @ ELSE @ \cup {r}]
       /\ IF rtMode = "audio"
          THEN /\ rtReply' = IF r = 0 THEN rtReply ELSE Touched(r)
               /\ UNCHANGED <<rtLoop, rtHand>>
          ELSE /\ Interrupts(rtReply, rt'.suppressed)
               /\ rtLoop' = [at |-> "interrupt", of |-> 0, cut |-> FALSE]
               /\ rtHand' = [rtHand EXCEPT !.tail = FALSE]
    /\ UNCHANGED rtFailed

\* interrupt returns to the listener; response.done then forgets the response.
RtInterrupted ==
    /\ rtLoop.at = "interrupt" /\ rtLoop' = Listens
    /\ rt' = [rt EXCEPT !.suppressed = @ \ {rtLoop.of}]
    /\ rtReply' = IF rtLoop.of = 0 THEN rtReply
                  ELSE [rtReply EXCEPT ![rtLoop.of].ended = TRUE]
    /\ UNCHANGED <<rtMode, rtWire, rtUp, rtServer, rtHand, rtFailed>>

\* An error that answers a cancellation is expected, any other ends the session.
RtHearsError ==
    /\ Comes({"error"})
    /\ LET r == Head(rtWire).of IN
       /\ rtFailed' = ~Contains(rt.cancels, r)
       /\ rt' = [rt EXCEPT !.cancels = SelectSeq(@, LAMBDA c : c # r)]
    /\ UNCHANGED <<rtReply, rtLoop, rtHand>>

-----------------------------------------------------------------------------
(* The handler of the bus.                                                 *)

\* The oldest of the cancellations waited for make room for another one.
Room(cancels) == IF Len(cancels) < RtRoom THEN cancels
                 ELSE SubSeq(cancels, Len(cancels) - RtRoom + 2, Len(cancels))

\* _cancel_current_response, up to its send.  The engine's fields change before.
BeginCancel(hand) ==
    LET r == rt.current IN
    /\ r # 0
    /\ rt' = [rt EXCEPT !.current = 0, !.suppressed = @ \cup {r},
                        !.cancels = Append(Room(@), r)]
    /\ rtReply' = Touched(r) /\ rtUp' = Append(rtUp, Message("cancel", r))
    /\ rtHand' = [hand EXCEPT !.at = "cancelling"] /\ UNCHANGED rtLoop

\* The bridge is told to be silent.
Silence(hand) ==
    /\ rtMode = "text" /\ Interrupts(rtReply, rt.suppressed)
    /\ rtLoop' = [rtLoop EXCEPT !.cut = rtLoop.at = "feed"]
    /\ rtHand' = [hand EXCEPT !.at = "interrupting", !.tail = FALSE]
    /\ UNCHANGED <<rt, rtUp>>

\* No response is known to be under way: the typed text is sent.
Submit(hand) ==
    /\ rt.current = 0 /\ rtUp' = Append(rtUp, Message("text", 0))
    /\ rtHand' = [hand EXCEPT !.at = "idle", !.undrained = @ \/ hand.tail]
    /\ UNCHANGED <<rt, rtReply, rtLoop>>

TypedText ==
    /\ rtHand.at = "idle" /\ rtHand.texts < RtTexts /\ ~rtFailed
    /\ LET begun == [rtHand EXCEPT !.texts = @ + 1] IN
       \/ BeginCancel(begun)
       \/ rt.current = 0 /\ Silence(begun)
       \/ rtMode = "audio" /\ Submit(begun)
    /\ UNCHANGED <<serviceVars, rtWire>>

CancelSent ==
    /\ rtHand.at = "cancelling" /\ ~rtFailed
    /\ Silence(rtHand) \/ (rtMode = "audio" /\ (BeginCancel(rtHand) \/ Submit(rtHand)))
    /\ UNCHANGED <<serviceVars, rtWire>>

SilenceReturns ==
    /\ rtHand.at = "interrupting" /\ ~rtFailed
    /\ BeginCancel(rtHand) \/ Submit(rtHand)
    /\ UNCHANGED <<serviceVars, rtWire>>

\* Shutdown: bridge and websocket are closed, and the listener ends.
RtShutdown ==
    /\ rtHand.at = "idle" /\ rtHand' = [rtHand EXCEPT !.at = "closed"]
    /\ rtWire' = <<>> /\ rtUp' = <<>> /\ rtLoop' = Listens
    /\ UNCHANGED <<serviceVars, rtReply, rt>>

RtNext ==
    /\ rtHand.at # "closed"
    /\ \/ ServiceWrites \/ UserInterrupts \/ ServiceReads
       \/ RtHearsCreated \/ RtHearsPiece \/ Fed \/ RtHearsWhole \/ Finished
       \/ RtHearsDone \/ RtHearsFailure \/ RtHearsSpeech \/ RtInterrupted \/ RtHearsError
       \/ TypedText \/ CancelSent \/ SilenceReturns \/ RtShutdown

-----------------------------------------------------------------------------
(* Properties.                                                             *)

RtTypeOK ==
    /\ rt.current \in 0..RtReplies /\ Len(rt.cancels) <= RtRoom
    /\ rtLoop.at \in {"wait", "feed", "finish", "interrupt"} /\ rtLoop.of \in 0..RtReplies
    /\ rtHand.at \in {"idle", "cancelling", "interrupting", "closed"}
    /\ \A r \in RtIds : rtReply[r].heard \in 0..rtReply[r].wrote

\* A response that nobody touched is heard whole, and its transcript told once; of
\* one that was interrupted nothing is heard from then on, and one that did not end
\* well has no transcript.
RealtimeIsHeard ==
    \A r \in RtIds :
        LET s == rtReply[r] IN
        /\ s.ended /\ s.completed /\ (rtMode = "audio" \/ ~s.touched) =>
              s.heard = s.wrote /\ s.told = 1
        /\ s.left # NotLeft => s.heard = s.left
        /\ s.told <= 1 /\ (rtMode = "text" /\ s.told = 1 => s.completed)

\* The response under way is the one the next typed text will cancel, unless it has
\* been cancelled; what is kept of a response is forgotten at its end; and a
\* cancellation that comes too late does not end the session.
RealtimeForgets ==
    /\ \A r \in RtIds : rtReply[r].known /\ ~rtReply[r].ended =>
                           rt.current = r \/ r \in rt.suppressed
    /\ \A r \in rt.suppressed \cup rt.scripts : rtReply[r].known /\ ~rtReply[r].ended
    /\ ~rtFailed

\* "A response can be created while an async TTS generator is cleaning up. Drain each
\* such generation before submitting the typed turn."  This does not hold: see the README.
TypedTurnsAreDrained == rtMode = "text" => ~rtHand.undrained
=============================================================================
