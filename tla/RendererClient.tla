--------------------------- MODULE RendererClient ---------------------------
(***************************************************************************)
(* One call of the renderer (renderer/client.py): a worker of the pool is  *)
(* acquired, a thread receives the answer and hands its frames to the      *)
(* event loop, and an attempt that fails is made again from the start.     *)
(***************************************************************************)
EXTENDS Integers, Sequences, FiniteSets

CONSTANTS
    Pool,          \* workers of the load balancer
    MostFrames,    \* bound: frames an answer announces
    MostAttempts   \* bound: attempts that fit into the 60 seconds of retries

ASSUME RenderAssumption == {MostFrames, MostAttempts} \subseteq Nat

VARIABLES
    render,    \* the generator: its place, attempt, worker, how the attempt ended, frames drawn
    thread,  \* the receiving thread: its place, frames announced and handed over, its failure
    held,    \* external: workers the load balancer regards as taken
    adrift,  \* workers taken for an answer, or by a release, that got lost
    got,     \* frames the consumer was given: their number and attempt
    state    \* state_future: Open, Failed, or the attempt whose state it holds

renderVars == <<render, thread, held, adrift, got, state>>

Open == 0
Failed == -1
NoThread == [at |-> "none", announced |-> 0, sent |-> 0, failed |-> FALSE]

RenderInit ==
    /\ render = [at |-> "idle", attempt |-> 0, worker |-> {}, cause |-> "none", drawn |-> 0]
    /\ thread = NoThread
    /\ held = {} /\ adrift = {} /\ got = <<>> /\ state = Open

\* The generator's outer finally: an await of the state is always answered.
Over == /\ render' = [render EXCEPT !.at = "over"]
        /\ state' = IF state = Open THEN Failed ELSE state

\* The consumer asks for the first frame, or leaves before: then no line of it runs.
BeginCall ==
    /\ render.at = "idle" /\ UNCHANGED <<thread, held, adrift, got, state>>
    /\ \/ render' = [render EXCEPT !.at = "acquiring", !.attempt = 1]
       \/ render' = [render EXCEPT !.at = "over"]

\* _acquire: granted, granted with the answer lost (and asked again), or given up.
Acquire ==
    /\ render.at = "acquiring" /\ UNCHANGED got
    /\ \/ \E w \in Pool \ held :
             /\ held' = held \cup {w}
             /\ \/ /\ render' = [render EXCEPT !.at = "receiving", !.worker = {w}, !.drawn = 0]
                   /\ thread' = [NoThread EXCEPT !.at = "asking"] /\ UNCHANGED <<adrift, state>>
                \/ /\ adrift' = adrift \cup {w} /\ UNCHANGED <<render, thread, state>>
       \/ /\ render.attempt < MostAttempts /\ render' = [render EXCEPT !.attempt = @ + 1]
          /\ UNCHANGED <<thread, held, adrift, state>>
       \/ Over /\ UNCHANGED <<thread, held, adrift>>

\* _run_rendering_sync: the headers, one frame after the other, and the end of the
\* stream; a failed request or a body of another length than announced is a failure.
Receive ==
    /\ \/ /\ thread.at = "asking"
          /\ \E n \in 0..MostFrames : thread' = [thread EXCEPT !.at = "receiving", !.announced = n]
       \/ /\ thread.at = "receiving" /\ thread.sent < thread.announced
          /\ thread' = [thread EXCEPT !.sent = @ + 1]
       \/ /\ thread.at = "receiving" /\ thread.sent = thread.announced
          /\ thread' = [thread EXCEPT !.at = "done"]
       \/ /\ thread.at \in {"asking", "receiving"}
          /\ thread' = [thread EXCEPT !.at = "done", !.failed = TRUE]
    /\ UNCHANGED <<render, held, adrift, got, state>>

\* As Fresh would be if the frames an earlier attempt returned were returned again.
FreshAlways(i) == TRUE
Fresh(i) == i >= Len(got)

\* _produce_frames draws the next frame, and yields it unless an earlier attempt did.
Draw ==
    /\ render.at = "receiving" /\ render.drawn < thread.sent
    /\ IF Fresh(render.drawn)
         THEN /\ got' = Append(got, [frame |-> render.drawn, attempt |-> render.attempt])
              /\ render' = [render EXCEPT !.at = "yielded", !.drawn = @ + 1]
         ELSE /\ render' = [render EXCEPT !.drawn = @ + 1] /\ UNCHANGED got
    /\ UNCHANGED <<thread, held, adrift, state>>

\* The consumer asks for one more frame.
AskOn ==
    /\ render.at = "yielded" /\ render' = [render EXCEPT !.at = "receiving"]
    /\ UNCHANGED <<thread, held, adrift, got, state>>

\* The stream has ended: the thread's failure is raised, its metrics divide by the
\* frames after the first, and only then is its state published.
EndAttempt ==
    /\ render.at = "receiving" /\ thread.at = "done" /\ render.drawn = thread.sent
    /\ LET cause == CASE thread.failed -> "retry"
                      [] ~thread.failed /\ thread.announced < 2 -> "fatal"
                      [] OTHER -> "ok"
       IN  /\ render' = [render EXCEPT !.at = "releasing", !.cause = cause]
           /\ state' = IF cause = "ok" THEN render.attempt ELSE state
    /\ UNCHANGED <<thread, held, adrift, got>>

\* The consumer closes the generator or is cancelled: the thread cannot be, and is
\* waited for; a second cancellation does not wait.
LeaveCall ==
    /\ \/ /\ render.at \in {"receiving", "yielded"}
          /\ render' = [render EXCEPT !.at = "joining", !.cause = "closed"] /\ UNCHANGED <<adrift, state>>
       \/ /\ render.at = "joining" /\ thread.at # "done"
          /\ render' = [render EXCEPT !.at = "releasing", !.cause = "torn"] /\ UNCHANGED <<adrift, state>>
       \/ /\ render.at \in {"acquiring", "resting"} /\ Over /\ UNCHANGED adrift
       \/ /\ render.at = "releasing" /\ Over /\ adrift' = adrift \cup render.worker
    /\ UNCHANGED <<thread, held, got>>

JoinThread ==
    /\ render.at = "joining" /\ thread.at = "done" /\ render' = [render EXCEPT !.at = "releasing"]
    /\ UNCHANGED <<thread, held, adrift, got, state>>

\* _release, asked again for 30 seconds and then suppressed; after it a failed attempt
\* is made again, if time is left.
ReleaseWorker ==
    /\ render.at = "releasing" /\ UNCHANGED <<thread, got>>
    /\ \/ held' = held \ render.worker /\ UNCHANGED adrift
       \/ adrift' = adrift \cup render.worker /\ UNCHANGED held
    /\ IF render.cause = "retry" /\ render.attempt < MostAttempts
         THEN render' = [render EXCEPT !.at = "resting", !.worker = {}] /\ UNCHANGED state
         ELSE /\ render' = [render EXCEPT !.at = "over", !.worker = {}]
              /\ state' = IF state = Open THEN Failed ELSE state

RetryCall ==
    /\ render.at = "resting" /\ render' = [render EXCEPT !.at = "acquiring", !.attempt = @ + 1]
    /\ UNCHANGED <<thread, held, adrift, got, state>>

RenderNext ==
    \/ BeginCall \/ Acquire \/ Receive \/ Draw \/ AskOn \/ EndAttempt \/ LeaveCall
    \/ JoinThread \/ ReleaseWorker \/ RetryCall

\* The consumer gets each frame once and in order, however many attempts sent it, and a
\* state only of an attempt that succeeded, when it has all of that attempt's frames.
FramesOnceInOrder ==
    /\ \A i \in 1..Len(got) : got[i].frame = i - 1
    /\ \A i, j \in 1..Len(got) : i < j => got[i].attempt <= got[j].attempt
    /\ state > 0 => /\ render.cause = "ok" /\ state = render.attempt
                        /\ Len(got) >= thread.announced

\* A worker is taken only by the attempt under way or was lost on the wire, it is given
\* back only when its thread has ended, and a started call always settles its state.
WorkersAreHeld ==
    /\ held \subseteq adrift \cup render.worker
    /\ thread.at \in {"asking", "receiving"} =>
          render.cause = "torn" \/ (render.worker # {} /\ render.at # "releasing")
    /\ render.at = "over" /\ render.attempt > 0 => state # Open
=============================================================================
