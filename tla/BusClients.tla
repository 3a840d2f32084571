----------------------------- MODULE BusClients -----------------------------
(***************************************************************************)
(* The event bus with the tasks the worker protocol of its docstring       *)
(* allows: a worker is cloned, subscribes, says it is ready, reads, and    *)
(* leaves; publishers publish whenever they like, before the workers are   *)
(* ready too.                                                              *)
(***************************************************************************)
EXTENDS EventBus, FiniteSets

CONSTANTS
    Interest,   \* the types each subscription is made for
    MaxEvents   \* bound: events per publisher

ASSUME ClientAssumption ==
    /\ Events = [type : Types, from : Publishers, number : 1..MaxEvents]
    /\ Interest \in [Subscribers -> SUBSET Types]
    /\ MaxEvents \in Nat
    /\ IsFiniteSet(Subscribers) /\ IsFiniteSet(Publishers)
    /\ Cardinality(Publishers) <= Capacity

VARIABLES
    phase,    \* of each worker: "new", "subscribed", "reading" or "gone"
    opened,   \* the coordinator has called ready
    sent,     \* the types of the events each publisher has begun to publish
    given     \* every event a worker has taken from its queue, in order

clientVars == <<busVars, phase, opened, sent, given>>

ClientsInit ==
    /\ BusInit(Cardinality(Subscribers))
    /\ phase = [s \in Subscribers |-> "new"]
    /\ opened = FALSE
    /\ sent = [p \in Publishers |-> <<>>]
    /\ given = [s \in Subscribers |-> <<>>]

-----------------------------------------------------------------------------
\* run_stream, after it has created every worklet's task
OpenBus ==
    /\ ~opened
    /\ opened' = TRUE
    /\ Ready
    /\ UNCHANGED <<listed, queue, publishing, phase, sent, given>>

Enter(s) ==
    /\ phase[s] = "new"
    /\ phase' = [phase EXCEPT ![s] = "subscribed"]
    /\ Subscribe(s, Interest[s])
    /\ UNCHANGED <<pending, queue, publishing, opened, sent, given>>

BeReady(s) ==
    /\ phase[s] = "subscribed"
    /\ phase' = [phase EXCEPT ![s] = "reading"]
    /\ Ready
    /\ UNCHANGED <<listed, queue, publishing, opened, sent, given>>

Take(s) ==
    /\ phase[s] = "reading"
    /\ Arrived(s)
    /\ given' = [given EXCEPT ![s] = Append(@, Head(queue[s]))]
    /\ Get(s)
    /\ UNCHANGED <<pending, listed, publishing, phase, opened, sent>>

Leave(s) ==
    /\ phase[s] = "reading"
    /\ phase' = [phase EXCEPT ![s] = "gone"]
    /\ Unsubscribe(s)
    /\ UNCHANGED <<pending, publishing, opened, sent, given>>

Send(p, t) ==
    /\ Len(sent[p]) < MaxEvents
    /\ sent' = [sent EXCEPT ![p] = Append(@, t)]
    /\ Publish(p, [type |-> t, from |-> p, number |-> Len(sent[p]) + 1])
    /\ UNCHANGED <<pending, listed, phase, opened, given>>

Continue(p) ==
    /\ Released(p) \/ Resume(p)
    /\ UNCHANGED <<phase, opened, sent, given>>

ClientsNext ==
    \/ OpenBus
    \/ \E s \in Subscribers : Enter(s) \/ BeReady(s) \/ Take(s) \/ Leave(s)
    \/ \E p \in Publishers : Continue(p) \/ \E t \in Types : Send(p, t)

\* A worker reads or leaves; it need not leave.
Works(s) == Enter(s) \/ BeReady(s) \/ Take(s)

-----------------------------------------------------------------------------
(* Properties.                                                             *)

ClientsTypeOK ==
    /\ BusTypeOK
    /\ phase \in [Subscribers -> {"new", "subscribed", "reading", "gone"}]
    /\ opened \in BOOLEAN
    /\ sent \in [Publishers -> Seq(Types)]
    /\ given \in [Subscribers -> Seq(Events)]

\* What a worker has got or will find in its queue.
Reached(s) == given[s] \o queue[s]

\* The events p has sent that s asked for.
Meant(p, s) == {n \in DOMAIN sent[p] : sent[p][n] \in Interest[s]}

\* The events of p that s has got or will find in its queue.
Had(p, s) == {i \in DOMAIN Reached(s) : Reached(s)[i].from = p}

Pending(p, s) ==
    \/ publishing[p].at = "waiting"
    \/ /\ publishing[p].at = "blocked"
       /\ \E i \in DOMAIN publishing[p].rest : publishing[p].rest[i] = s

\* "This ensures events are not lost because subscribers are not yet set up": a
\* worker that has not left has every event of its types, once and in the order
\* its publisher sent them, but for one that is still being published to it.
EachOnceInOrder ==
    \A p \in Publishers, s \in Subscribers :
        phase[s] # "gone" =>
            LET owed == {n \in Meant(p, s) : Pending(p, s) => n < Len(sent[p])} IN
            /\ \A i, j \in Had(p, s) :
                  i < j => Reached(s)[i].number < Reached(s)[j].number
            /\ {Reached(s)[i].number : i \in Had(p, s)} = owed

\* Backpressure: no queue grows beyond its size, however many publishers wait for
\* room in it.
QueuesBounded == \A s \in Subscribers : Len(queue[s]) <= Capacity

\* No publisher waits for ever, not even for room in the queue of a worker that
\* leaves while several wait.
PublishReturns ==
    \A p \in Publishers : publishing[p].at = "blocked" ~> publishing[p].at = "idle"

\* The bus is sound, with the types of its fields and those of its clients.
BusIsSound == ClientsTypeOK /\ EachOnceInOrder /\ QueuesBounded
=============================================================================
