---------------------------- MODULE MemoryWriter ----------------------------
(***************************************************************************)
(* The write side of the memory service                                    *)
(* (src/avaturn_live_streamer/memory/service.py): batches are accepted     *)
(* into a bounded queue, one writer ingests them one by one in a thread, a *)
(* clear isolates the writer while another thread deletes everything, and  *)
(* close drains what it can.                                               *)
(*                                                                         *)
(* A batch is the time it was observed at.  The threads take turns on      *)
(* _mutation_lock, in any order, so what a thread does is one step; what   *)
(* the event loop does between two awaits is one step too.  Cancelling a   *)
(* writer leaves its thread running: its batch is detached.  The service   *)
(* starts well: a store that cannot be opened refuses everything.          *)
(***************************************************************************)
EXTENDS Integers, Sequences

CONSTANTS
    QueueSize,
    MaxTime,    \* bound: batches are observed at 1..MaxTime
    MaxClears   \* bound: calls of clear_all

ASSUME WriterAssumption ==
    /\ QueueSize \in Nat \ {0}
    /\ MaxTime \in Nat
    /\ MaxClears \in Nat

Batches == 1..MaxTime

VARIABLES
    now,         \* the time
    queue,       \* _queue
    unfinished,  \* its count of unfinished tasks, which join waits for
    writer,      \* _writer_task is "running" or there is "none"
    hand,        \* the batch the writer waits for, if any
    detached,    \* _detached_mutations: ingests whose writer was cancelled
    stored,      \* the batches whose memories are in the database
    erased,      \* the batches whose memories a clear has deleted
    dropped,     \* the batches counted in _dropped_submissions
    calls,       \* the cutoffs of the clears that wait for _clear_lock
    clearing,    \* "no", "deleting", "done" or "failed"; _clear_in_progress
    cut, taken,  \* the cutoff and the queued batches of the clear under way
    cutoff,      \* _ingest_cutoff, 0 for None
    closing,     \* "no", "draining" or "closed"
    (* history *)
    cleared,     \* calls of clear_all so far
    submitted,   \* the batches try_submit was called with
    accepted,    \* those it accepted, in order
    handed,      \* those the writer took, in order
    raced        \* those in a detached ingest when a clear deleted everything

inputVars == <<now, submitted, accepted>>
clearVars == <<calls, clearing, cut, taken, cutoff, cleared, raced>>
vars == <<now, queue, unfinished, writer, hand, detached, stored, erased, dropped,
          calls, clearing, cut, taken, cutoff, closing, cleared, submitted,
          accepted, handed, raced>>

Items(s) == {s[i] : i \in DOMAIN s}

Init ==
    /\ now = 0
    /\ queue = <<>> /\ unfinished = 0
    /\ writer = "running" /\ hand = {} /\ detached = {}
    /\ stored = {} /\ erased = {} /\ dropped = {}
    /\ calls = <<>> /\ clearing = "no" /\ cut = 0 /\ taken = <<>> /\ cutoff = 0
    /\ closing = "no"
    /\ cleared = 0 /\ submitted = {} /\ accepted = <<>> /\ handed = <<>> /\ raced = {}

-----------------------------------------------------------------------------
(* try_submit.                                                             *)

Tick ==
    /\ now < MaxTime
    /\ now' = now + 1
    /\ UNCHANGED <<queue, unfinished, writer, hand, detached, stored, erased,
                   dropped, closing, submitted, accepted, handed, clearVars>>

\* As Refused would be without the test of _clear_in_progress, and of the cutoff.
RefusedOnlyFull(b) == b <= cutoff \/ Len(queue) >= QueueSize
RefusedButLate(b) == clearing # "no" \/ Len(queue) >= QueueSize

Refused(b) == clearing # "no" \/ b <= cutoff \/ Len(queue) >= QueueSize

\* The batch is observed now or before: the extractor may have taken its time.
TrySubmit(b) ==
    /\ b <= now /\ b \notin submitted
    /\ submitted' = submitted \cup {b}
    /\ \/ /\ closing # "no"
          /\ UNCHANGED <<queue, unfinished, dropped, accepted>>
       \/ /\ closing = "no" /\ Refused(b)
          /\ dropped' = dropped \cup {b}
          /\ UNCHANGED <<queue, unfinished, accepted>>
       \/ /\ closing = "no" /\ ~Refused(b)
          /\ queue' = Append(queue, b)
          /\ unfinished' = unfinished + 1
          /\ accepted' = Append(accepted, b)
          /\ UNCHANGED dropped
    /\ UNCHANGED <<now, writer, hand, detached, stored, erased, closing, handed,
                   clearVars>>

-----------------------------------------------------------------------------
(* _writer_loop and the ingest threads.                                    *)

WriterTakes ==
    /\ writer = "running" /\ hand = {} /\ queue # <<>>
    /\ hand' = {Head(queue)}
    /\ queue' = Tail(queue)
    /\ handed' = Append(handed, Head(queue))
    /\ UNCHANGED <<inputVars, unfinished, writer, detached, stored, erased, dropped,
                   closing, clearVars>>

\* The writer's own ingest ends, well or not, and the writer goes on.
WriterIngests(b) ==
    /\ b \in hand
    /\ hand' = {}
    /\ unfinished' = unfinished - 1
    /\ \/ stored' = stored \cup {b} /\ UNCHANGED dropped
       \/ dropped' = dropped \cup {b} /\ UNCHANGED stored
    /\ UNCHANGED <<inputVars, queue, writer, detached, erased, closing, handed,
                   clearVars>>

\* An ingest that has outlived its writer ends; a failure is counted until close.
DetachedIngests(b) ==
    /\ b \in detached
    /\ detached' = detached \ {b}
    /\ \/ stored' = stored \cup {b} /\ UNCHANGED dropped
       \/ /\ dropped' = IF closing = "no" THEN dropped \cup {b} ELSE dropped
          /\ UNCHANGED stored
    /\ UNCHANGED <<inputVars, queue, unfinished, writer, hand, erased, closing,
                   handed, clearVars>>

\* As WithoutHand would be if an idle writer marked a task as done too.
WithoutHandTwice == unfinished - 1

\* What is left to do for join when the writer has been cancelled.
WithoutHand == IF hand = {} THEN unfinished ELSE unfinished - 1

-----------------------------------------------------------------------------
(* clear_all of the admin service, run_clear_barrier.                      *)

\* The cutoff is the time of the call; the clear then waits for its turn.
ClearIsAsked ==
    /\ cleared < MaxClears
    /\ cleared' = cleared + 1
    /\ calls' = Append(calls, now)
    /\ UNCHANGED <<inputVars, queue, unfinished, writer, hand, detached, stored,
                   erased, dropped, clearing, cut, taken, cutoff, closing, handed,
                   raced>>

ClearIsRefused ==
    /\ calls # <<>> /\ clearing = "no" /\ closing # "no"
    /\ calls' = Tail(calls)
    /\ UNCHANGED <<inputVars, queue, unfinished, writer, hand, detached, stored,
                   erased, dropped, clearing, cut, taken, cutoff, closing, cleared,
                   handed, raced>>

\* As ClearBegins would be if the batches taken were not marked as done.
ClearBeginsUndone ==
    /\ calls # <<>> /\ clearing = "no" /\ closing = "no"
    /\ clearing' = "deleting"
    /\ cut' = Head(calls) /\ calls' = Tail(calls)
    /\ writer' = "none" /\ hand' = {} /\ detached' = detached \cup hand
    /\ taken' = queue /\ queue' = <<>>
    /\ unfinished' = WithoutHand
    /\ UNCHANGED <<inputVars, stored, erased, dropped, cutoff, closing, cleared,
                   handed, raced>>

\* Cancel the writer and take what is queued.
ClearBegins ==
    /\ calls # <<>> /\ clearing = "no" /\ closing = "no"
    /\ clearing' = "deleting"
    /\ cut' = Head(calls) /\ calls' = Tail(calls)
    /\ writer' = "none" /\ hand' = {} /\ detached' = detached \cup hand
    /\ taken' = queue /\ queue' = <<>>
    /\ unfinished' = WithoutHand - Len(queue)
    /\ UNCHANGED <<inputVars, stored, erased, dropped, cutoff, closing, cleared,
                   handed, raced>>

\* The thread of the clear: the backup or the deletion may fail.
ClearDeletes ==
    /\ clearing = "deleting"
    /\ \/ /\ clearing' = "done"
          /\ erased' = erased \cup stored
          /\ stored' = {}
          /\ raced' = raced \cup detached
       \/ clearing' = "failed" /\ UNCHANGED <<erased, stored, raced>>
    /\ UNCHANGED <<inputVars, queue, unfinished, writer, hand, detached, dropped,
                   calls, cut, taken, cutoff, closing, cleared, handed>>

\* As Reopen would be if it did not ask whether the service is closed.
ReopenAlways ==
    /\ clearing' = "no" /\ taken' = <<>> /\ cut' = 0
    /\ writer' = "running"
    /\ UNCHANGED <<inputVars, hand, detached, stored, erased, calls, closing,
                   cleared, handed, raced>>

Reopen ==
    /\ clearing' = "no" /\ taken' = <<>> /\ cut' = 0
    /\ writer' = IF closing = "no" THEN "running" ELSE "none"
    /\ UNCHANGED <<inputVars, hand, detached, stored, erased, calls, closing,
                   cleared, handed, raced>>

\* As ClearSucceeds would be if it did not count what it drops.
ClearSucceedsUncounted ==
    /\ clearing = "done"
    /\ cutoff' = IF cut > cutoff THEN cut ELSE cutoff
    /\ UNCHANGED <<queue, unfinished, dropped>>
    /\ Reopen

ClearSucceeds ==
    /\ clearing = "done"
    /\ dropped' = dropped \cup Items(taken)
    /\ cutoff' = IF cut > cutoff THEN cut ELSE cutoff
    /\ UNCHANGED <<queue, unfinished>>
    /\ Reopen

\* As ClearFails would be if it took the batches from the end.
ClearFailsReversed ==
    /\ clearing = "failed"
    /\ queue' = queue \o [i \in DOMAIN taken |-> taken[Len(taken) + 1 - i]]
    /\ unfinished' = unfinished + Len(taken)
    /\ UNCHANGED <<dropped, cutoff>>
    /\ Reopen

\* As ClearFails would be if only a success started the writer again.
ClearFailsStopped ==
    /\ clearing = "failed"
    /\ queue' = queue \o taken
    /\ unfinished' = unfinished + Len(taken)
    /\ clearing' = "no" /\ taken' = <<>> /\ cut' = 0
    /\ UNCHANGED <<inputVars, writer, hand, detached, stored, erased, dropped, calls,
                   cutoff, closing, cleared, handed, raced>>

\* The queued batches are put back; there is room: RestoreFits.
ClearFails ==
    /\ clearing = "failed"
    /\ queue' = queue \o taken
    /\ unfinished' = unfinished + Len(taken)
    /\ UNCHANGED <<dropped, cutoff>>
    /\ Reopen

-----------------------------------------------------------------------------
(* close.                                                                  *)

CloseBegins ==
    /\ closing = "no"
    /\ closing' = "draining"
    /\ UNCHANGED <<inputVars, queue, unfinished, writer, hand, detached, stored,
                   erased, dropped, handed, clearVars>>

\* join has returned or timed out: the writer is cancelled, the rest discarded.
CloseEnds ==
    /\ closing = "draining"
    /\ closing' = "closed"
    /\ writer' = "none" /\ hand' = {} /\ detached' = detached \cup hand
    /\ dropped' = dropped \cup Items(queue)
    /\ queue' = <<>>
    /\ unfinished' = WithoutHand - Len(queue)
    /\ UNCHANGED <<inputVars, stored, erased, handed, clearVars>>

-----------------------------------------------------------------------------
Terminated == closing = "closed" /\ calls = <<>> /\ UNCHANGED vars

Next ==
    \/ Tick
    \/ \E b \in Batches : TrySubmit(b) \/ WriterIngests(b) \/ DetachedIngests(b)
    \/ WriterTakes
    \/ ClearIsAsked \/ ClearIsRefused
    \/ ClearBegins \/ ClearDeletes \/ ClearSucceeds \/ ClearFails
    \/ CloseBegins \/ CloseEnds
    \/ Terminated

\* Threads and tasks run when they can; nobody has to speak, clear or close.
Fairness ==
    /\ WF_vars(WriterTakes)
    /\ \A b \in Batches : WF_vars(WriterIngests(b)) /\ WF_vars(DetachedIngests(b))
    /\ WF_vars(ClearIsRefused \/ ClearBegins)
    /\ WF_vars(ClearDeletes \/ ClearSucceeds \/ ClearFails)
    /\ WF_vars(CloseEnds)

Spec == Init /\ [][Next]_vars /\ Fairness

-----------------------------------------------------------------------------
(* Properties.                                                             *)

TypeOK ==
    /\ now \in 0..MaxTime
    /\ queue \in Seq(Batches) /\ unfinished \in Nat
    /\ writer \in {"running", "none"}
    /\ hand \subseteq Batches /\ detached \subseteq Batches
    /\ stored \subseteq Batches /\ erased \subseteq Batches
    /\ dropped \subseteq Batches
    /\ calls \in Seq(0..MaxTime) /\ clearing \in {"no", "deleting", "done", "failed"}
    /\ cut \in 0..MaxTime /\ taken \in Seq(Batches) /\ cutoff \in 0..MaxTime
    /\ closing \in {"no", "draining", "closed"}
    /\ cleared \in 0..MaxClears /\ submitted \subseteq Batches
    /\ accepted \in Seq(Batches) /\ handed \in Seq(Batches) /\ raced \subseteq Batches

\* join waits for what is queued and for the batch in the writer's hand, and for
\* nothing else, whoever took the others from the queue and put them back: task_done
\* is never called too often, and close never waits for a batch that is gone.
JoinCounts == unfinished = Len(queue) + (IF hand = {} THEN 0 ELSE 1)

\* The batches a failing clear puts back find room: put_nowait does not raise, and
\* no submission has taken their place.
RestoreFits == Len(queue) + Len(taken) <= QueueSize

\* Outside a clear there is exactly one writer until the service is closed, and then
\* none, in whatever order a clear and close began.
OneWriter ==
    /\ (closing = "no" /\ clearing = "no") => writer = "running"
    /\ (closing = "closed" \/ clearing # "no") => writer = "none" /\ hand = {}

\* The writer takes the batches in the order they were accepted and none of them
\* twice, although clears take them out of the queue and put them back.
WriterInOrder ==
    \A i, j \in DOMAIN handed :
        i < j => \E k, l \in DOMAIN accepted :
                    k < l /\ accepted[k] = handed[i] /\ accepted[l] = handed[j]

Places(b) ==
    {p \in {"queue", "hand", "detached", "taken", "stored", "erased", "dropped"} :
        b \in CASE p = "queue" -> Items(queue) [] p = "taken" -> Items(taken)
                [] p = "hand" -> hand [] p = "detached" -> detached
                [] p = "stored" -> stored [] p = "erased" -> erased
                [] p = "dropped" -> dropped}

\* Every accepted batch is in exactly one place: nothing is lost without being
\* counted, or ingested and counted, but for what fails in a thread after close.
Accounted ==
    \A b \in Items(accepted) :
        /\ \A p, q \in Places(b) : p = q
        /\ Places(b) = {} => closing # "no" /\ b \in Items(handed)

\* A clear deletes what was observed before it: a batch of that time is stored again
\* only if its ingest was already running when the clear began.
ClearedOrRaced == \A b \in stored : b <= cutoff => b \in raced

\* Accepted batches do not stay in the queue.
AcceptedSettles ==
    \A b \in Batches :
        b \in Items(queue) ~> (b \in stored \cup erased \cup dropped \/ closing # "no")

\* A clear isolates all accepted writer work: nothing observed before it is in the
\* database afterwards.  This does not
\* hold: see the README.
ClearIsFinal == \A b \in stored : b > cutoff

\* The bookkeeping of the queue survives writers, clears and the close.
QueueSurvives == TypeOK /\ JoinCounts /\ RestoreFits /\ OneWriter

\* The accepted batches are worked off in order and each is accounted for.
BatchesAreKept == WriterInOrder /\ Accounted
=============================================================================
