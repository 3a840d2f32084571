------------------------- MODULE CodexConversation -------------------------
(***************************************************************************)
(* CodexConversationEngine (conversation_engines/codex_realtime_client.py) *)
(* with local synthesis: one loop takes the app-server's notifications and *)
(* feeds the text of replies to the synthesiser, the other takes the       *)
(* browser's control messages and the typed texts off the bus.             *)
(*                                                                         *)
(* The app-server is external: a reply is a few deltas and a terminal      *)
(* transcript, which comes when the user cut the reply off too.  That the  *)
(* user speaks is told twice, by a notification and - sooner or later - by *)
(* the browser.  What an interruption does to text that is being fed is    *)
(* the subject of TTSBridge: it is not heard.                              *)
(***************************************************************************)
EXTENDS Integers, Sequences

CONSTANTS CodexReplies, CodexDeltas, CodexSpeeches   \* bounds: replies, deltas of one, speeches of the user

VARIABLES
    cxWire,    \* notifications on their way
    cxServer,  \* what the server is doing: the reply it writes, does the user speak
    cxControl, \* speech_started messages of the browser on their way
    cxReply,   \* the replies: what was written, heard and cut off
    cx,        \* the engine's fields
    cxLoop,    \* what the notification loop awaits
    cxMistaken \* history: an interruption that no terminal transcript will answer

codexVars == <<cxWire, cxServer, cxControl, cxReply, cx, cxLoop, cxMistaken>>

CodexWaits == [at |-> "wait", of |-> 0, then |-> "none", cut |-> FALSE]

CodexInit ==
    /\ cxWire = <<>> /\ cxControl = 0
    /\ cxServer = [writes |-> 0, count |-> 0, user |-> FALSE, owes |-> TRUE, speeches |-> 0]
    /\ cxReply = [r \in 1..CodexReplies |->
                     [wrote |-> 0, total |-> 0, heard |-> 0, ended |-> FALSE, cut |-> FALSE,
                      left |-> 0, dropped |-> FALSE, suppressed |-> FALSE]]
    /\ cx = [user |-> FALSE, response |-> 0, parts |-> 0, suppress |-> FALSE]
    /\ cxLoop = CodexWaits /\ cxMistaken = FALSE

Notify(kind, r) == cxWire' = Append(cxWire, [kind |-> kind, of |-> r])

-----------------------------------------------------------------------------
(* The app-server and the browser.                                         *)

CodexWrites ==
    /\ Len(cxWire) < 4 /\ ~cxServer.user
    /\ \/ /\ cxServer.writes = 0 /\ cxServer.owes /\ cxServer.count < CodexReplies
          /\ cxServer' = [cxServer EXCEPT !.writes = cxServer.count + 1, !.count = @ + 1,
                                          !.owes = FALSE]
          /\ UNCHANGED <<cxWire, cxReply>>
       \/ /\ cxServer.writes # 0 /\ cxReply[cxServer.writes].wrote < CodexDeltas
          /\ cxReply' = [cxReply EXCEPT ![cxServer.writes].wrote = @ + 1]
          /\ Notify("delta", cxServer.writes) /\ UNCHANGED cxServer
       \/ /\ cxServer.writes # 0
          /\ \E more \in {0, 1} :
                cxReply' = [cxReply EXCEPT ![cxServer.writes].total = cxReply[cxServer.writes].wrote + more]
          /\ Notify("done", cxServer.writes)
          /\ cxServer' = [cxServer EXCEPT !.writes = 0]
    /\ UNCHANGED <<cxControl, cx, cxLoop, cxMistaken>>

\* The user speaks: a reply that is not over is cut off; notifications and browser
\* tell.
UserSpeaks ==
    /\ Len(cxWire) < 3 /\ ~cxServer.user /\ cxServer.speeches < CodexSpeeches
    /\ cxServer' = [cxServer EXCEPT !.user = TRUE, !.writes = 0, !.speeches = @ + 1]
    /\ cxReply' = [r \in 1..CodexReplies |->
          [cxReply[r] EXCEPT !.total = IF r = cxServer.writes THEN cxReply[r].wrote ELSE @,
                             !.cut = @ \/ (r <= cxServer.count /\ ~cxReply[r].ended)]]
    /\ cxWire' = cxWire
          \o (IF cxServer.writes = 0 THEN <<>> ELSE <<[kind |-> "done", of |-> cxServer.writes]>>)
          \o <<[kind |-> "user", of |-> 0]>>
    /\ cxControl' = cxControl + 1
    /\ UNCHANGED <<cx, cxLoop, cxMistaken>>

UserSpoke ==
    /\ cxServer.user /\ Len(cxWire) < 4
    /\ cxServer' = [cxServer EXCEPT !.user = FALSE, !.owes = TRUE] /\ Notify("userDone", 0)
    /\ UNCHANGED <<cxControl, cxReply, cx, cxLoop, cxMistaken>>

-----------------------------------------------------------------------------
(* The engine.                                                             *)

\* _interrupt_avatar: a reply that was begun is suppressed until its end.  If its
\* end is just being handled, or the user's speech is long over, the engine will
\* wait for the end of another one.
CodexInterrupts(fields, late) ==
    /\ cx' = [fields EXCEPT !.response = 0, !.parts = 0,
                            !.suppress = @ \/ cx.response # 0]
    /\ cxReply' = IF cx.response = 0 THEN cxReply
                  ELSE [cxReply EXCEPT ![cx.response].dropped = TRUE,
                                       ![cx.response].left = cxReply[cx.response].heard]
    /\ cxLoop' = [cxLoop EXCEPT !.cut = cxLoop.at # "wait"]
    /\ cxMistaken' = (cxMistaken \/ late \/ (cxLoop.then = "end" /\ cx.response # 0))

BrowserTells ==
    /\ cxControl > 0 /\ cxControl' = cxControl - 1
    /\ CodexInterrupts([cx EXCEPT !.user = TRUE],
                       ~cxServer.user /\ ~\E i \in DOMAIN cxWire : cxWire[i].kind = "userDone")
    /\ UNCHANGED <<cxWire, cxServer>>

\* A typed text interrupts, and is answered.
CodexTextEcho ==
    /\ ~cxServer.owes /\ cxServer.count < CodexReplies
    /\ CodexInterrupts(cx, FALSE)
    /\ cxServer' = [cxServer EXCEPT !.owes = TRUE]
    /\ UNCHANGED <<cxWire, cxControl>>

\* _local_tts.feed_text of some pieces of reply r; then what Done has left to do.
CodexFeeds(r, pieces, then) ==
    cxLoop' = [at |-> "feed", of |-> r, then |-> then, cut |-> FALSE, pieces |-> pieces]

CodexFed ==
    /\ cxLoop.at = "feed"
    /\ cxReply' = [cxReply EXCEPT ![cxLoop.of].heard = IF cxLoop.cut THEN @ ELSE @ + cxLoop.pieces,
                                  ![cxLoop.of].ended = cxLoop.then = "end"]
    /\ cx' = IF cxLoop.then = "end" THEN [cx EXCEPT !.response = 0, !.parts = 0] ELSE cx
    /\ cxLoop' = CodexWaits
    /\ UNCHANGED <<cxWire, cxServer, cxControl, cxMistaken>>

Takes(kind) ==
    /\ cxLoop.at = "wait" /\ cxWire # <<>> /\ Head(cxWire).kind = kind
    /\ cxWire' = Tail(cxWire) /\ UNCHANGED <<cxServer, cxControl>>

HearsUser ==
    /\ Takes("user")
    /\ IF cx.user THEN UNCHANGED <<cx, cxReply, cxLoop, cxMistaken>>
       ELSE CodexInterrupts([cx EXCEPT !.user = TRUE], FALSE)

HearsUserDone ==
    /\ Takes("userDone") /\ cx' = [cx EXCEPT !.user = FALSE]
    /\ UNCHANGED <<cxReply, cxLoop, cxMistaken>>

HearsDelta ==
    /\ Takes("delta")
    /\ IF cx.user \/ cx.suppress THEN UNCHANGED <<cx, cxLoop>>
       ELSE LET r == Head(cxWire).of IN
            /\ cx' = [cx EXCEPT !.response = r, !.parts = @ + 1]
            /\ CodexFeeds(r, 1, "none")
    /\ UNCHANGED <<cxReply, cxMistaken>>

\* As HearsDone would be if it did not lift the suppression.
HearsDoneForgetful ==
    /\ Takes("done")
    /\ LET r == Head(cxWire).of IN
       \/ /\ cx.suppress \/ cx.user
          /\ cxReply' = [cxReply EXCEPT ![r].ended = TRUE] /\ UNCHANGED <<cx, cxLoop>>
       \/ /\ ~cx.suppress /\ ~cx.user
          /\ cx' = [cx EXCEPT !.response = r]
          /\ CodexFeeds(r, cxReply[r].total - cx.parts, "end") /\ UNCHANGED cxReply
    /\ UNCHANGED cxMistaken

HearsDone ==
    /\ Takes("done")
    /\ LET r == Head(cxWire).of IN
       \/ /\ cx.suppress
          /\ cx' = [cx EXCEPT !.suppress = FALSE, !.response = 0, !.parts = 0]
          /\ cxReply' = [cxReply EXCEPT ![r].ended = TRUE, ![r].suppressed = TRUE]
          /\ UNCHANGED cxLoop
       \/ /\ ~cx.suppress /\ cx.user
          /\ cxReply' = [cxReply EXCEPT ![r].ended = TRUE] /\ UNCHANGED <<cx, cxLoop>>
       \/ /\ ~cx.suppress /\ ~cx.user
          /\ cx' = [cx EXCEPT !.response = r]
          /\ CodexFeeds(r, cxReply[r].total - cx.parts, "end") /\ UNCHANGED cxReply
    /\ UNCHANGED cxMistaken

CodexNext ==
    \/ CodexWrites \/ UserSpeaks \/ UserSpoke \/ BrowserTells \/ CodexTextEcho \/ CodexFed
    \/ HearsUser \/ HearsUserDone \/ HearsDelta \/ HearsDone

CodexTypeOK ==
    /\ cx.response \in 0..CodexReplies /\ cx.parts \in 0..CodexDeltas
    /\ cxLoop.of \in 0..CodexReplies /\ cxControl \in Nat
    /\ \A r \in 1..CodexReplies : cxReply[r].heard \in 0 .. CodexDeltas + 1

\* A reply nobody interrupted is heard whole, and nothing of a reply is heard
\* after it was interrupted - unless an interruption came when the reply's end
\* was being handled, or after the user's transcript (cxMistaken): then the next
\* reply is the one that is suppressed.
CodexIsHeard ==
    \A r \in 1..CodexReplies :
        /\ cxReply[r].ended /\ ~cxReply[r].cut /\ ~cxReply[r].dropped /\ ~cxMistaken =>
              cxReply[r].heard = cxReply[r].total
        /\ cxReply[r].dropped => cxReply[r].heard = cxReply[r].left

\* The comment in the code on what HearsDone suppresses: "Terminal transcript of
\* the response that the user's barge-in cancelled."  This does not hold: see the README.
SuppressedWasInterrupted ==
    \A r \in 1..CodexReplies : cxReply[r].suppressed => cxReply[r].cut \/ cxReply[r].dropped
=============================================================================
