---------------------------- MODULE LocalSpeech ----------------------------
(***************************************************************************)
(* The client of the CosyVoice worker (local_cosyvoice_client.py): one     *)
(* websocket for each reply, opened without a lock, and closed by whoever  *)
(* finds the reply not closed: the reader of its audio, a cancel() of the  *)
(* engine, or the cancel() that close() schedules.                         *)
(***************************************************************************)
EXTENDS Integers, FiniteSets

CONSTANT Replies   \* text streams the caller opens

VARIABLES
    client,  \* "open", close() under way ("closing"), returned ("closed") or cancelled ("cut")
    reply    \* each stream: its place, whether it is in _turns, its websocket, who closes it

localVars == <<client, reply>>

\* Where each of those who may close a reply is: the client's cancel() is "due" when it
\* is scheduled; "sending" the cancellation, and "closing" the websocket, take time.
ReplyClosers == {"reader", "engine", "client"}
NewReply == [at |-> "none", kept |-> FALSE, closed |-> FALSE, finished |-> FALSE, sock |-> "none",
             by |-> [c \in ReplyClosers |-> "none"]]

LocalInit ==
    /\ client = "open" /\ reply = [r \in Replies |-> NewReply]

\* open_text_stream: refused once closed, connected, started, then kept.
OpenReply(r) ==
    /\ reply[r].at = "none" /\ client = "open"
    /\ reply' = [reply EXCEPT ![r].at = "connecting"] /\ UNCHANGED client

\* What fails or is cancelled before it is kept is closed by its own opener.
Opens(r) ==
    /\ \/ /\ reply[r].at = "connecting"
          /\ \/ reply' = [reply EXCEPT ![r].at = "starting", ![r].sock = "open"]
             \/ reply' = [reply EXCEPT ![r].at = "over"]
       \/ /\ reply[r].at = "starting"
          /\ \/ reply' = [reply EXCEPT ![r].at = "speaking", ![r].kept = TRUE]
             \/ reply' = [reply EXCEPT ![r].at = "failing"]
       \/ /\ reply[r].at = "failing"
          /\ reply' = [reply EXCEPT ![r].at = "over", ![r].sock = "closed"]
    /\ UNCHANGED client

FinishReply(r) ==
    /\ reply[r].at = "speaking" /\ ~reply[r].finished /\ ~reply[r].closed
    /\ reply' = [reply EXCEPT ![r].finished = TRUE] /\ UNCHANGED client

\* As ReplyCloses would be if it forgot the reply before its websocket is closed.
ReplyClosesForgotten(r, c) ==
    reply' = IF reply[r].closed THEN [reply EXCEPT ![r].by[c] = "done"]
             ELSE [reply EXCEPT ![r].by[c] = "closing", ![r].closed = TRUE, ![r].kept = FALSE]

\* _close: whoever comes second returns at once, the websocket still open or not.
ReplyCloses(r, c) ==
    reply' = IF reply[r].closed THEN [reply EXCEPT ![r].by[c] = "done"]
             ELSE [reply EXCEPT ![r].by[c] = "closing", ![r].closed = TRUE]

\* The audio ends, fails or is no longer read, or the stream is cancelled, more than once
\* perhaps; the client's own cancel() begins when its task does.
BeginClose(r, c) ==
    /\ reply[r].at = "speaking" /\ UNCHANGED client
    /\ reply[r].by[c] \in IF c = "client" THEN {"due"} ELSE {"none", "done"}
    /\ IF c = "reader" \/ reply[r].closed THEN ReplyCloses(r, c)
       ELSE reply' = [reply EXCEPT ![r].by[c] = "sending"]

\* The cancellation has been sent, or could not be.
CancelSent(r, c) ==
    /\ reply[r].by[c] = "sending" /\ ReplyCloses(r, c) /\ UNCHANGED client

\* The websocket is closed, and the reply forgotten.
ReplyClosed(r, c) ==
    /\ reply[r].by[c] = "closing" /\ UNCHANGED client
    /\ reply' = [reply EXCEPT ![r].by[c] = "done", ![r].sock = "closed", ![r].kept = FALSE]

\* The closer's task is cancelled, the client's only when close() has been: a reply that is
\* being closed is forgotten, and what is left of its websocket is the library's.
CloseCut(r, c) ==
    /\ c = "client" => client = "cut"
    /\ reply[r].by[c] \in {"due", "sending", "closing"} /\ UNCHANGED client
    /\ reply' = IF reply[r].by[c] = "closing"
                THEN [reply EXCEPT ![r].by[c] = "done", ![r].sock = "cut", ![r].kept = FALSE]
                ELSE [reply EXCEPT ![r].by[c] = "done"]

\* close: a cancel() is scheduled for every stream that is kept and waited for.
CloseLocal ==
    \/ /\ client = "open" /\ client' = "closing"
       /\ reply' = [r \in Replies |->
                       [reply[r] EXCEPT !.by["client"] = IF reply[r].kept THEN "due" ELSE @]]
    \/ /\ client = "closing" /\ UNCHANGED reply
       /\ \/ client' = "closed" /\ \A r \in Replies : reply[r].by["client"] \in {"none", "done"}
          \/ client' = "cut"

CloserStep(r, c) == BeginClose(r, c) \/ CancelSent(r, c) \/ ReplyClosed(r, c) \/ CloseCut(r, c)

LocalNext ==
    \/ CloseLocal
    \/ \E r \in Replies :
          OpenReply(r) \/ Opens(r) \/ FinishReply(r) \/ \E c \in ReplyClosers : CloserStep(r, c)

-----------------------------------------------------------------------------
\* An open websocket belongs to its opener or to a stream the client keeps, and one task at
\* most closes it.  When close() has returned, a stream that was kept when it began is not
\* open, unless its reader or its engine was at it first and is closing it still.  A stream
\* that was being opened then is nobody's but its caller's.
RepliesAreKept ==
    \A r \in Replies :
        /\ reply[r].sock = "open" => reply[r].kept \/ reply[r].at \in {"starting", "failing"}
        /\ \A c, d \in ReplyClosers :
              reply[r].by[c] = "closing" /\ reply[r].by[d] = "closing" => c = d
        /\ client = "closed" /\ reply[r].by["client"] = "done" /\ reply[r].sock = "open" =>
              \E c \in {"reader", "engine"} : reply[r].by[c] = "closing"
=============================================================================
