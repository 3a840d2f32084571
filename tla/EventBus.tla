------------------------------ MODULE EventBus ------------------------------
(***************************************************************************)
(* The event bus the worklets of a stream share                            *)
(* (src/avaturn_live_streamer/event_bus.py): it routes an event by its     *)
(* type to bounded queues, one per subscription, makes a publisher wait    *)
(* for room, and lets nothing through before every worker is ready.        *)
(*                                                                         *)
(* The module has the bus's state and its operations; the modules that     *)
(* extend it have the tasks.  Between two awaits publish fills one queue   *)
(* after the other, so a publication is cut only where a queue is full.    *)
(* publish_nowait has no caller and is left out.                           *)
(***************************************************************************)
EXTENDS Integers, Sequences

CONSTANTS
    Subscribers,  \* the subscriptions, each made at most once
    Publishers,   \* the tasks that publish, one event at a time
    Types,        \* the event types
    Events,       \* the events, records with a type
    Capacity      \* default_buffer_size

ASSUME BusAssumption ==
    /\ Capacity \in Nat \ {0}
    /\ \A e \in Events : e.type \in Types

VARIABLES
    pending,     \* _pending_ready_count
    listed,      \* _subscribers: the queues of a type, in subscription order
    queue,       \* the queue of each subscription
    publishing   \* where each publisher is in publish

busVars == <<pending, listed, queue, publishing>>

Idle == [at |-> "idle"]
Waiting(e) == [at |-> "waiting", event |-> e]
Blocked(e, rest) == [at |-> "blocked", event |-> e, rest |-> rest]

PublisherState ==
    {Idle} \cup [at : {"waiting"}, event : Events]
           \cup [at : {"blocked"}, event : Events, rest : Seq(Subscribers)]

\* As BusInit would be if the coordinator's own ready were not counted.
BusInitUncounted(clones) ==
    /\ pending = clones
    /\ listed = [t \in Types |-> <<>>]
    /\ queue = [s \in Subscribers |-> <<>>]
    /\ publishing = [p \in Publishers |-> Idle]

BusInit(clones) ==
    /\ pending = 1 + clones
    /\ listed = [t \in Types |-> <<>>]
    /\ queue = [s \in Subscribers |-> <<>>]
    /\ publishing = [p \in Publishers |-> Idle]

BusTypeOK ==
    /\ pending \in Nat
    /\ listed \in [Types -> Seq(Subscribers)]
    /\ queue \in [Subscribers -> Seq(Events)]
    /\ publishing \in [Publishers -> PublisherState]

-----------------------------------------------------------------------------
AllReady == pending = 0

\* clone, n times
Clone(n) == pending' = pending + n

\* ready, which raises when it is called at zero: BusTypeOK says it never is
Ready == pending' = pending - 1

SubscribedTo(s, t) == \E i \in DOMAIN listed[t] : listed[t][i] = s

\* As Subscribe would be if the newest subscription came first.
SubscribeFirst(s, types) ==
    listed' = [t \in Types |-> IF t \in types THEN <<s>> \o listed[t]
                                              ELSE listed[t]]

Subscribe(s, types) ==
    listed' = [t \in Types |-> IF t \in types THEN Append(listed[t], s)
                                              ELSE listed[t]]

Without(list, s) ==
    IF \E i \in DOMAIN list : list[i] = s
    THEN LET i == CHOOSE i \in DOMAIN list : list[i] = s
         IN  SubSeq(list, 1, i - 1) \o SubSeq(list, i + 1, Len(list))
    ELSE list

\* As Unsubscribe would be if it did not empty the queue it leaves behind.
UnsubscribeUndrained(s) ==
    /\ listed' = [t \in Types |-> Without(listed[t], s)]
    /\ UNCHANGED queue

\* The end of subscribe: the lists are replaced, never changed, so a publication
\* under way still reaches the queue, which is emptied to wake its putters.
Unsubscribe(s) ==
    /\ listed' = [t \in Types |-> Without(listed[t], s)]
    /\ queue' = [queue EXCEPT ![s] = <<>>]

\* As Full would be with > for >=.
FullLate(s) == Len(queue[s]) > Capacity

Full(s) == Len(queue[s]) >= Capacity

\* How many queues of the list come before the first full one.
Reach(list) ==
    CHOOSE n \in 0..Len(list) :
        /\ \A i \in 1..n : ~Full(list[i])
        /\ n < Len(list) => Full(list[n + 1])

\* As Deliver would be if a full queue were skipped for good.
DeliverSkipping(p, e, list) ==
    LET n == Reach(list) IN
    /\ queue' = [s \in Subscribers |->
                    IF \E i \in 1..n : list[i] = s THEN Append(queue[s], e)
                                                   ELSE queue[s]]
    /\ publishing' = [publishing EXCEPT
          ![p] = IF n >= Len(list) - 1 THEN Idle
                 ELSE Blocked(e, SubSeq(list, n + 2, Len(list)))]

\* Put the event in the queues of the list, up to the first that is full.
Deliver(p, e, list) ==
    LET n == Reach(list) IN
    /\ queue' = [s \in Subscribers |->
                    IF \E i \in 1..n : list[i] = s THEN Append(queue[s], e)
                                                   ELSE queue[s]]
    /\ publishing' = [publishing EXCEPT
          ![p] = IF n = Len(list) THEN Idle
                 ELSE Blocked(e, SubSeq(list, n + 1, Len(list)))]

\* publish
Publish(p, e) ==
    /\ publishing[p] = Idle
    /\ \/ AllReady /\ Deliver(p, e, listed[e.type])
       \/ /\ ~AllReady
          /\ publishing' = [publishing EXCEPT ![p] = Waiting(e)]
          /\ UNCHANGED queue

\* The wait for the workers is over.
Released(p) ==
    /\ publishing[p].at = "waiting"
    /\ AllReady
    /\ LET e == publishing[p].event
       IN  Deliver(p, e, listed[e.type])
    /\ UNCHANGED <<pending, listed>>

\* The queue the publisher waits for has room again.
Resume(p) ==
    /\ publishing[p].at = "blocked"
    /\ ~Full(Head(publishing[p].rest))
    /\ Deliver(p, publishing[p].event, publishing[p].rest)
    /\ UNCHANGED <<pending, listed>>

\* The event a subscription gets next.
Arrived(s) == queue[s] # <<>>
Get(s) == queue' = [queue EXCEPT ![s] = Tail(queue[s])]
=============================================================================
