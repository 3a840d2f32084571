----------------------------- MODULE CodexLink -----------------------------
(***************************************************************************)
(* The JSON-RPC client of the Codex app server (CodexRealtimeClient): one  *)
(* child process, requests of several tasks that share its stdin under a   *)
(* write lock, and a reader that resolves their futures and queues the     *)
(* notifications.  The builder opens the link, the engine uses it, and     *)
(* whoever closes it first waits for the process to exit.                  *)
(*                                                                         *)
(* The two requests of start() are one; a request of the server, which the *)
(* reader refuses under the write lock, is left out.                       *)
(***************************************************************************)
EXTENDS Integers, Sequences, FiniteSets

CONSTANTS
    Users,       \* tasks of the engine that append text or speech
    MaxNotices   \* bound: notifications of the server

ASSUME LinkAssumption == MaxNotices \in Nat /\ "opener" \notin Users /\ "stop" \notin Users

Callers == Users \cup {"opener", "stop"}

VARIABLES
    link,     \* the builder's or engine's place, the process, the session, close()
    reader,   \* _read_stdout
    call,     \* each caller's request and its future
    notices,  \* what the server sent, what is queued, kept back, and read
    stops     \* history: stop requests written

linkVars == <<link, reader, call, notices, stops>>

NoCall == [at |-> "idle", future |-> "none"]

LinkInit ==
    /\ link = [at |-> "new", proc |-> "none", active |-> FALSE, close |-> "no"]
    /\ reader = "none" /\ call = [c \in Callers |-> NoCall]
    /\ notices = [sent |-> 0, queue |-> <<>>, backlog |-> <<>>, read |-> <<>>, closed |-> FALSE]
    /\ stops = 0

-----------------------------------------------------------------------------
(* Requests.                                                               *)

Asks(c) == call[c].at = "idle" /\ call' = [call EXCEPT ![c].at = "lock"]
Ends(c) == call' = [call EXCEPT ![c] = NoCall]
Running == link.proc = "up"

\* _request: one writer at a time; the future is there before the bytes are.
Write(c) ==
    /\ call[c].at = "lock" /\ \A d \in Callers : call[d].at # "write"
    /\ call' = [call EXCEPT ![c] = IF Running THEN [at |-> "write", future |-> "pending"]
                                   ELSE [at |-> "failed", future |-> "none"]]
    /\ stops' = IF c = "stop" /\ Running THEN stops + 1 ELSE stops
    /\ UNCHANGED <<link, reader, notices>>

\* Drained: the answer is waited for; or the pipe is broken and the future forgotten.
Drain(c) ==
    /\ call[c].at = "write"
    /\ call' = [call EXCEPT ![c] = IF @.future = "pending" THEN [@ EXCEPT !.at = "wait"]
                                   ELSE [at |-> @.future, future |-> "none"]]
    /\ UNCHANGED <<link, reader, notices, stops>>

DrainFails(c) ==
    /\ call[c].at = "write" /\ call' = [call EXCEPT ![c] = [at |-> "failed", future |-> "none"]]
    /\ UNCHANGED <<link, reader, notices, stops>>

\* 30 s without an answer.
TimeOut(c) ==
    /\ call[c].at = "wait" /\ call' = [call EXCEPT ![c] = [at |-> "failed", future |-> "none"]]
    /\ UNCHANGED <<link, reader, notices, stops>>

Resolved(r, value) ==
    IF r.future # "pending" THEN r
    ELSE IF r.at = "wait" THEN [at |-> value, future |-> "none"] ELSE [r EXCEPT !.future = value]

-----------------------------------------------------------------------------
(* The reader and the server.                                              *)

Answer(c) ==
    /\ reader = "reading" /\ call[c].future = "pending"
    /\ \E value \in {"answered", "failed"} : call' = [call EXCEPT ![c] = Resolved(@, value)]
    /\ UNCHANGED <<link, reader, notices, stops>>

\* A notification: the answer to the offer, the end of the session, or another.
Notice(kind) ==
    /\ reader = "reading" /\ notices.sent < MaxNotices
    /\ kind = "sdp" => link.at = "sdp"
    /\ notices' = [notices EXCEPT !.sent = @ + 1,
                      !.queue = Append(@, [kind |-> kind, n |-> notices.sent + 1])]
    /\ UNCHANGED <<link, reader, call, stops>>

Eof == [kind |-> "eof", n |-> 0]

\* stdout ends, or the reader is cancelled by close(): every future fails, and the end
\* is queued behind the notifications.
ReaderEnds ==
    /\ reader = "reading" /\ reader' = "done"
    /\ call' = [c \in Callers |-> Resolved(call[c], "failed")]
    /\ notices' = [notices EXCEPT !.queue = Append(@, Eof)]
    /\ UNCHANGED <<link, stops>>

Exit ==
    /\ Running /\ link' = [link EXCEPT !.proc = "exited"] /\ UNCHANGED <<reader, call, notices, stops>>

-----------------------------------------------------------------------------
(* The builder and the engine.                                             *)

StartLink ==
    /\ link.at = "new"
    /\ link' = [link EXCEPT !.at = "starting", !.proc = "up"] /\ reader' = "reading"
    /\ Asks("opener") /\ UNCHANGED <<notices, stops>>

\* start() and the realtime start are answered; a failure of either closes the link.
OpenGoesOn ==
    /\ link.at \in {"starting", "realtime"} /\ call["opener"].at \in {"answered", "failed"}
    /\ LET next == IF call["opener"].at = "failed" THEN "failed"
                   ELSE IF link.at = "starting" THEN "realtime" ELSE "sdp"
       IN  /\ link' = [link EXCEPT !.at = next]
           /\ call' = [call EXCEPT !["opener"] =
                          IF next = "realtime" THEN [NoCall EXCEPT !.at = "lock"] ELSE NoCall]
    /\ UNCHANGED <<reader, notices, stops>>

\* _wait_for_sdp_answer: what is not the answer is kept back for the engine.
AwaitSdp ==
    /\ link.at = "sdp" /\ notices.queue # <<>>
    /\ LET head == Head(notices.queue)
       IN  /\ notices' = [notices EXCEPT !.queue = Tail(@),
                             !.backlog = IF head.kind = "note" THEN Append(@, head) ELSE @]
           /\ link' = IF head.kind = "sdp" THEN [link EXCEPT !.at = "used", !.active = TRUE]
                      ELSE IF head.kind = "note" THEN link ELSE [link EXCEPT !.at = "failed"]
    /\ UNCHANGED <<reader, call, stops>>

SdpIsLate ==
    /\ link.at = "sdp" /\ link' = [link EXCEPT !.at = "failed"]
    /\ UNCHANGED <<reader, call, notices, stops>>

\* notifications(): the backlog, then the queue; the end of the session is noted.
ReadNotice ==
    /\ link.at = "used" /\ notices.backlog \o notices.queue # <<>>
    /\ LET head == Head(notices.backlog \o notices.queue)
       IN  /\ notices' = [notices EXCEPT !.closed = @ \/ head.kind = "closed",
                 !.read = IF head.kind = "eof" THEN @ ELSE Append(@, head.n),
                 !.backlog = IF @ # <<>> THEN Tail(@) ELSE @,
                 !.queue = IF notices.backlog = <<>> THEN Tail(@) ELSE @]
           /\ link' = IF head.kind = "closed" THEN [link EXCEPT !.active = FALSE] ELSE link
    /\ UNCHANGED <<reader, call, stops>>

\* append_text and append_speech; their end is the caller's.
AppendText(c) ==
    /\ c \in Users
    /\ \/ link.at = "used" /\ link.active /\ Asks(c)
       \/ call[c].at \in {"answered", "failed"} /\ Ends(c)
    /\ UNCHANGED <<link, reader, notices, stops>>

\* close(): once at a time; an active session is stopped first.
CloseLink ==
    /\ link.at \in {"used", "failed"} /\ link.close = "no" /\ link.proc # "none"
    /\ link' = [link EXCEPT !.close = IF link.active THEN "stopping" ELSE "exiting", !.active = FALSE]
    /\ IF link.active THEN Asks("stop") ELSE UNCHANGED call
    /\ UNCHANGED <<reader, notices, stops>>

Stopped ==
    /\ link.close = "stopping" /\ call["stop"].at \in {"answered", "failed"}
    /\ link' = [link EXCEPT !.close = "exiting"] /\ Ends("stop") /\ UNCHANGED <<reader, notices, stops>>

\* As Closed would be if only the reader failed what is pending.
ClosedForgetful ==
    /\ link.close = "exiting"
    /\ link' = [link EXCEPT !.close = "no", !.proc = "none", !.active = FALSE]
    /\ reader' = "done"
    /\ call' = IF reader = "done" THEN call ELSE [c \in Callers |-> Resolved(call[c], "failed")]
    /\ notices' = [notices EXCEPT !.queue = IF reader = "done" THEN @ ELSE Append(@, Eof)]
    /\ UNCHANGED stops

\* stdin is closed, the process exits or is terminated, the reader is stopped, and what
\* is pending fails.
Closed ==
    /\ link.close = "exiting"
    /\ link' = [link EXCEPT !.close = "no", !.proc = "none", !.active = FALSE]
    /\ reader' = "done" /\ call' = [c \in Callers |-> Resolved(call[c], "failed")]
    /\ notices' = [notices EXCEPT !.queue = IF reader = "done" THEN @ ELSE Append(@, Eof)]
    /\ UNCHANGED stops

LinkNext ==
    \/ StartLink \/ OpenGoesOn \/ AwaitSdp \/ SdpIsLate \/ ReadNotice \/ CloseLink \/ Stopped \/ Closed
    \/ Exit \/ ReaderEnds \/ \E kind \in {"sdp", "closed", "note"} : Notice(kind)
    \/ \E c \in Callers :
          Write(c) \/ Drain(c) \/ DrainFails(c) \/ TimeOut(c) \/ Answer(c) \/ AppendText(c)

-----------------------------------------------------------------------------
\* When close() has returned nobody waits for an answer that cannot come, whichever
\* request was being written, waiting for the lock or just sent.
NobodyWaits ==
    link.proc = "none" => \A c \in Callers : call[c].future # "pending" /\ call[c].at # "wait"

\* The session is told to stop at most once, and not when its end was read before.
StopsOnce == stops <= 1 /\ ~(notices.closed /\ link.active)

\* What the server notified is read once and in order, whatever came before the answer.
NoticesInOrder ==
    \A i, j \in DOMAIN notices.read : i < j => notices.read[i] < notices.read[j]

\* The three together.
LinkEndsCleanly == NobodyWaits /\ StopsOnce /\ NoticesInOrder
=============================================================================
