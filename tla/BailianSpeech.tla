--------------------------- MODULE BailianSpeech ---------------------------
(***************************************************************************)
(* The realtime synthesis client of Bailian (aliyun_bailian_client.py): a  *)
(* factory that keeps one idle websocket, and the turns it opens.  A turn  *)
(* has a listener that queues audio, one reader, and a canceller: the      *)
(* caller's, the reader's that stops early, or the factory's close().      *)
(*                                                                         *)
(* No coroutine suspends while it holds the pool's lock, so what happens   *)
(* under it is one step; the open lock is held across awaits and is the    *)
(* opener.  Closing a websocket is one step, waiting for it another.       *)
(***************************************************************************)
EXTENDS Integers, Sequences, FiniteSets

CONSTANTS
    MaxSockets,  \* bound: connections made
    MaxTurns,    \* bound: turns opened
    AudioSize    \* _COSYVOICE_AUDIO_QUEUE_SIZE

ASSUME SpeechAssumption == {MaxSockets, MaxTurns} \subseteq Nat /\ AudioSize \in Nat \ {0}

Sockets == 1..MaxSockets
Turns == 1..MaxTurns
Cancellers == {"user", "pool"}

VARIABLES
    pool,    \* the factory: closed, its idle websocket (or 0)
    opener,  \* the holder of the open lock: its place, its websocket, whether it may retry
    sock,    \* each websocket: new, open, closed
    turn     \* each turn

speechVars == <<pool, opener, sock, turn>>

NewTurn == [sock |-> 0, closed |-> FALSE, listens |-> "none", last |-> "none",
            queue |-> <<>>, slots |-> AudioSize, reads |-> "idle",
            cancels |-> [c \in Cancellers |-> "no"]]

SpeechInit ==
    /\ pool = [closed |-> FALSE, idle |-> 0]
    /\ opener = [at |-> "free", sock |-> 0, retry |-> FALSE]
    /\ sock = [w \in Sockets |-> "new"] /\ turn = [t \in Turns |-> NewTurn]

Opened(t) == turn[t].sock # 0
OpenTurns == {t \in Turns : Opened(t) /\ ~turn[t].closed}    \* _turns
Close(w) == [sock EXCEPT ![w] = "closed"]

-----------------------------------------------------------------------------
(* The factory.                                                            *)

\* open_text_stream: the idle websocket is taken, or a new one connected.
TakeIdle ==
    /\ opener.at = "free" /\ ~pool.closed
    /\ opener' = [at |-> IF pool.idle = 0 THEN "connecting" ELSE "starting",
                  sock |-> pool.idle, retry |-> pool.idle # 0]
    /\ pool' = [pool EXCEPT !.idle = 0] /\ UNCHANGED <<sock, turn>>

Unlock == opener' = [at |-> "free", sock |-> 0, retry |-> FALSE]

Connect ==
    /\ opener.at = "connecting"
    /\ \/ \E w \in Sockets :
             /\ sock[w] = "new" /\ \A u \in 1..(w - 1) : sock[u] # "new"
             /\ sock' = [sock EXCEPT ![w] = "open"]
             /\ opener' = [opener EXCEPT !.at = "starting", !.sock = w]
       \/ Unlock /\ UNCHANGED sock
    /\ UNCHANGED <<pool, turn>>

\* The task is started on the websocket; a failure closes it, and an idle one that
\* fails is replaced once; a cancellation closes it.
StartTask ==
    /\ opener.at = "starting"
    /\ \/ \E t \in Turns :
             /\ ~Opened(t) /\ \A u \in 1..(t - 1) : Opened(u)
             /\ turn' = [turn EXCEPT ![t].sock = opener.sock, ![t].listens = "recv"]
             /\ Unlock /\ UNCHANGED sock
       \/ /\ opener.retry /\ sock' = Close(opener.sock)
          /\ opener' = [at |-> "connecting", sock |-> 0, retry |-> FALSE] /\ UNCHANGED turn
       \/ sock' = Close(opener.sock) /\ Unlock /\ UNCHANGED turn
    /\ UNCHANGED pool

\* close: the idle websocket is closed and every turn cancelled.
ClosePool ==
    /\ opener.at = "free" /\ ~pool.closed
    /\ pool' = [closed |-> TRUE, idle |-> 0]
    /\ sock' = IF pool.idle = 0 THEN sock ELSE Close(pool.idle)
    /\ opener' = [opener EXCEPT !.at = "closing"]
    /\ turn' = [t \in Turns |-> IF t \in OpenTurns
                                THEN [turn[t] EXCEPT !.cancels["pool"] = "telling"] ELSE turn[t]]

PoolCloses ==
    /\ opener.at = "closing" /\ \A t \in Turns : turn[t].cancels["pool"] \in {"no", "done"}
    /\ opener' = [opener EXCEPT !.at = "over"] /\ UNCHANGED <<pool, sock, turn>>

-----------------------------------------------------------------------------
(* A turn.                                                                 *)

\* _force_terminal: the oldest item makes room.
Forced(r, item) ==
    IF Len(r.queue) <= AudioSize THEN [r EXCEPT !.queue = Append(@, item)]
    ELSE [r EXCEPT !.queue = Append(Tail(@), item),
                   !.slots = IF Head(r.queue) = "pcm" THEN @ + 1 ELSE @]

\* As Release would be if the pool kept the websocket of a turn that ends after close().
ReleaseAfterClose(t, reusable, r) ==
    IF reusable /\ pool.idle = 0
    THEN /\ pool' = [pool EXCEPT !.idle = turn[t].sock] /\ UNCHANGED sock
         /\ turn' = [turn EXCEPT ![t] = [r EXCEPT !.closed = TRUE, !.listens = "done",
                        !.queue = Append(@, r.last)]]
    ELSE /\ sock' = Close(turn[t].sock) /\ UNCHANGED pool
         /\ turn' = [turn EXCEPT ![t] = [r EXCEPT !.closed = TRUE, !.listens = "closing"]]

\* _release_transport and _release_turn, by the listener: back to the pool, or
\* closed; the terminal item follows.
Release(t, reusable, r) ==
    IF reusable /\ ~pool.closed /\ pool.idle = 0
    THEN /\ pool' = [pool EXCEPT !.idle = turn[t].sock] /\ UNCHANGED sock
         /\ turn' = [turn EXCEPT ![t] = [r EXCEPT !.closed = TRUE, !.listens = "done",
                        !.queue = Append(@, r.last)]]
    ELSE /\ sock' = Close(turn[t].sock) /\ UNCHANGED pool
         /\ turn' = [turn EXCEPT ![t] = [r EXCEPT !.closed = TRUE, !.listens = "closing"]]

\* _listen: audio takes a slot or waits for one; task-finished; a failure.
Listen(t) ==
    /\ turn[t].listens \in {"recv", "slot"}
    /\ \/ /\ IF turn[t].slots > 0
             THEN turn' = [turn EXCEPT ![t].slots = @ - 1, ![t].listens = "recv",
                              ![t].queue = Append(@, "pcm")]
             ELSE turn[t].listens = "recv" /\ turn' = [turn EXCEPT ![t].listens = "slot"]
          /\ UNCHANGED <<pool, sock>>
       \/ /\ turn[t].listens = "recv"
          /\ \E item \in {"end", "failed"} :
                Release(t, item = "end", [turn[t] EXCEPT !.last = item])
    /\ UNCHANGED opener

\* The websocket is closed: the terminal item is queued.
ListenerEnds(t) ==
    /\ turn[t].listens = "closing"
    /\ turn' = [turn EXCEPT ![t] = [Forced(@, turn[t].last) EXCEPT !.listens = "done"]]
    /\ UNCHANGED <<pool, opener, sock>>

\* The listener is cancelled: it reports that the stream was closed and releases the
\* transport, unless it was already closing it.
ListenerStopped(t) ==
    IF turn[t].listens \in {"recv", "slot"}
    THEN [Forced(turn[t], "failed") EXCEPT !.closed = TRUE, !.listens = "done"]
    ELSE [turn[t] EXCEPT !.listens = "done"]

SocketGivenUp(t) == IF turn[t].closed THEN sock ELSE Close(turn[t].sock)

\* _abort: a command could not be sent.
SendFails(t) ==
    /\ Opened(t) /\ turn[t].listens # "done"
    /\ turn' = [turn EXCEPT ![t] = Forced(ListenerStopped(t), "failed")]
    /\ sock' = SocketGivenUp(t) /\ UNCHANGED <<pool, opener>>

\* cancel: the server is told, the listener stopped, the queue emptied, the end forced.
Cancel(t) ==
    /\ Opened(t) /\ ~turn[t].closed /\ turn[t].cancels["user"] = "no"
    /\ turn' = [turn EXCEPT ![t].cancels["user"] = "telling"]
    /\ UNCHANGED <<pool, opener, sock>>

\* As CancelStep would be if the emptied queue were left empty.
CancelStepSilent(t, c) ==
    /\ \/ /\ turn[t].cancels[c] = "telling"
          /\ turn' = [turn EXCEPT ![t] = [ListenerStopped(t) EXCEPT !.cancels[c] = "draining"]]
          /\ sock' = SocketGivenUp(t)
       \/ /\ turn[t].cancels[c] = "draining"
          /\ turn' = [turn EXCEPT ![t].queue = <<>>, ![t].slots = AudioSize,
                         ![t].cancels[c] = IF c = "user" THEN "no" ELSE "done"]
          /\ UNCHANGED sock
    /\ UNCHANGED <<pool, opener>>

\* Telling, then emptying.
CancelStep(t, c) ==
    /\ \/ /\ turn[t].cancels[c] = "telling"
          /\ turn' = [turn EXCEPT ![t] = [ListenerStopped(t) EXCEPT !.cancels[c] = "draining"]]
          /\ sock' = SocketGivenUp(t)
       \/ /\ turn[t].cancels[c] = "draining"
          /\ turn' = [turn EXCEPT ![t].queue = <<"end">>, ![t].slots = AudioSize,
                         ![t].cancels[c] = IF c = "user" THEN "no" ELSE "done"]
          /\ UNCHANGED sock
    /\ UNCHANGED <<pool, opener>>

\* The caller is itself cancelled while it tells the server: nothing else happens.
CancelIsCancelled(t) ==
    /\ turn[t].cancels["user"] = "telling"
    /\ turn' = [turn EXCEPT ![t].cancels["user"] = "no"] /\ UNCHANGED <<pool, opener, sock>>

\* stream_audio: once; an early stop cancels the turn.
Read(t) ==
    /\ Opened(t)
    /\ \/ turn[t].reads = "idle" /\ turn' = [turn EXCEPT ![t].reads = "get"]
       \/ /\ turn[t].reads = "get" /\ turn[t].queue # <<>>
          /\ turn' = IF Head(turn[t].queue) = "pcm"
                     THEN [turn EXCEPT ![t].queue = Tail(@), ![t].slots = @ + 1]
                     ELSE [turn EXCEPT ![t].queue = Tail(@), ![t].reads = "over"]
       \/ /\ turn[t].reads = "get" /\ turn[t].cancels["user"] = "no"
          /\ turn' = [turn EXCEPT ![t].reads = "gone",
                         ![t].cancels["user"] = IF turn[t].closed THEN "no" ELSE "telling"]
    /\ UNCHANGED <<pool, opener, sock>>

TurnNext(t) ==
    \/ Listen(t) \/ ListenerEnds(t) \/ SendFails(t) \/ Cancel(t) \/ CancelIsCancelled(t) \/ Read(t)
    \/ \E c \in Cancellers : CancelStep(t, c)

SpeechNext ==
    \/ TakeIdle \/ Connect \/ StartTask \/ ClosePool \/ PoolCloses \/ \E t \in Turns : TurnNext(t)

-----------------------------------------------------------------------------
(* Properties.                                                             *)

\* Every open websocket has one owner, the pool, the opener or a turn, who will close
\* it or pass it on; after close() none is open.
SocketsHaveOneOwner ==
    \A w \in Sockets :
        /\ sock[w] = "open" <=> w \in {pool.idle, opener.sock} \cup {turn[t].sock : t \in OpenTurns}
        /\ Cardinality({t \in OpenTurns : turn[t].sock = w})
              + (IF pool.idle = w THEN 1 ELSE 0) + (IF opener.sock = w THEN 1 ELSE 0) <= 1
        /\ opener.at = "over" => sock[w] # "open"

Ended(t) == turn[t].listens = "done" /\ \A c \in Cancellers : turn[t].cancels[c] \in {"no", "done"}
Pcm(q) == Cardinality({i \in DOMAIN q : q[i] = "pcm"})

\* A reader of a turn that has ended finds its end: the slot reserved for it is there
\* however full the queue is, and whoever stopped the listener put it.
ReaderIsTold ==
    \A t \in Turns :
        /\ Pcm(turn[t].queue) + turn[t].slots = AudioSize /\ Len(turn[t].queue) <= AudioSize + 1
        /\ Opened(t) /\ Ended(t) /\ turn[t].reads \in {"idle", "get"} =>
              \E i \in DOMAIN turn[t].queue : turn[t].queue[i] # "pcm"
=============================================================================
