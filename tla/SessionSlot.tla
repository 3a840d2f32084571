---------------------------- MODULE SessionSlot ----------------------------
(***************************************************************************)
(* The server's one session and its engines                                *)
(* (src/avaturn_live_streamer/local_stream_cli.py): an engine is built and *)
(* kept for a browser to use later (_PreparedConnectionStore), or built by *)
(* the offer itself; an offer claims the slot (_SessionSlot), negotiates   *)
(* and hands peer and engine to the session's task.                        *)
(*                                                                         *)
(* A request is a coroutine.  The locks of slot and store are never held   *)
(* over an await, so what they guard is one step.  An engine is known by   *)
(* the request that builds it; store holds the engines by age, and the     *)
(* expired ones are the oldest.  To close an engine is to await, and may   *)
(* fail.  The server stops when the requests are answered.                 *)
(***************************************************************************)
EXTENDS Integers, Sequences, SequencesExt, FiniteSets

CONSTANTS
    Connects,  \* requests to prepare an engine
    Offers,    \* offers of a browser
    Visits,    \* requests for the state, a preview or the end of a prepared engine
    None

Builders == Connects \cup Offers
Requests == Builders \cup Visits

ASSUME SlotAssumption ==
    /\ IsFiniteSet(Requests) /\ None \notin Requests
    /\ Connects \cap Offers = {} /\ Builders \cap Visits = {}

VARIABLES
    at,        \* what each request is doing
    has,       \* the engine a request owns
    expired,   \* the expired engines a request has to close
    engine,    \* the state of each engine
    reserved,  \* _SessionSlot._reserved
    task,      \* the engine of _SessionSlot._task
    session,   \* what the session of each engine is doing
    metrics,   \* the session whose turns TurnLatencyStore counts
    store,     \* _PreparedConnectionStore._items
    server,    \* how far the lifespan is
    lost       \* history: engines somebody failed to close

slotVars == <<reserved, task, session, metrics>>
serverVars == <<at, has, expired, engine, slotVars, store, server, lost>>

SlotInit ==
    /\ at = [r \in Requests |-> "new"]
    /\ has = [r \in Requests |-> None]
    /\ expired = [r \in Requests |-> <<>>]
    /\ engine = [b \in Builders |-> "none"]
    /\ reserved = FALSE /\ task = None
    /\ session = [b \in Builders |-> "none"] /\ metrics = None
    /\ store = <<>> /\ server = "serving" /\ lost = {}

Proceeds(r, place) == at' = [at EXCEPT ![r] = place]
Holds(r, e) == has' = [has EXCEPT ![r] = e]

-----------------------------------------------------------------------------
(* Engines and the store.                                                  *)

\* _remove_expired_locked, for n expired engines.
Expires(r, n) == expired' = [expired EXCEPT ![r] = SubSeq(store, 1, n)]
Remaining(n) == SubSeq(store, n + 1, Len(store))

\* Engines without e, which is among them once at most.
Popped(engines, e) ==
    IF Contains(engines, e)
    THEN RemoveAt(engines, CHOOSE i \in DOMAIN engines : engines[i] = e)
    ELSE engines

\* _close_built_engine of an engine nobody owns any more.
ClosesWell(e) == engine' = [engine EXCEPT ![e] = "closed"] /\ UNCHANGED lost
ClosesBadly(e, others) ==
    /\ engine' = [engine EXCEPT ![e] = "broken"]
    /\ lost' = lost \cup {e} \cup others

\* build_engine, prepare_custom_api; one that fails leaves nothing behind.
Builds(r, next, failed) ==
    \/ /\ engine' = [engine EXCEPT ![r] = "open"]
       /\ Holds(r, r) /\ Proceeds(r, next)
    \/ Proceeds(r, failed) /\ UNCHANGED <<engine, has>>

ConnectBuilds(c) ==
    /\ server = "serving" /\ at[c] = "new"
    /\ Builds(c, "built", "done")
    /\ UNCHANGED <<expired, slotVars, store, server, lost>>

\* put
ConnectPuts(c) ==
    /\ at[c] = "built"
    /\ \E n \in 0..Len(store) :
          Expires(c, n) /\ store' = Append(Remaining(n), has[c])
    /\ Holds(c, None) /\ Proceeds(c, "expiring")
    /\ UNCHANGED <<engine, slotVars, server, lost>>

\* get, and remove for the engine e, whose identifier somebody was told.
VisitGets(v) ==
    /\ server = "serving" /\ at[v] = "new"
    /\ \E n \in 0..Len(store) : Expires(v, n) /\ store' = Remaining(n)
    /\ Proceeds(v, "expiring")
    /\ UNCHANGED <<has, engine, slotVars, server, lost>>

VisitRemoves(v, e) ==
    /\ server = "serving" /\ at[v] = "new" /\ Contains(store, e)
    /\ store' = Popped(store, e)
    /\ expired' = [expired EXCEPT ![v] = <<e>>]
    /\ Proceeds(v, "expiring")
    /\ UNCHANGED <<has, engine, slotVars, server, lost>>

\* A request closes what it has found expired, one after the other.
ExpiredCloses(r) ==
    /\ expired[r] # <<>>
    /\ ClosesWell(Head(expired[r]))
    /\ expired' = [expired EXCEPT ![r] = Tail(@)]
    /\ UNCHANGED <<at, has, slotVars, store, server>>

\* One that fails to close fails the request: the others, and the engine the offer has
\* taken, are forgotten.
ExpiredBreaks(r) ==
    /\ expired[r] # <<>>
    /\ ClosesBadly(Head(expired[r]), ToSet(Tail(expired[r])) \cup ({has[r]} \ {None}))
    /\ expired' = [expired EXCEPT ![r] = <<>>]
    /\ Holds(r, None)
    /\ Proceeds(r, IF r \in Offers THEN "releasing" ELSE "done")
    /\ UNCHANGED <<slotVars, store, server>>

Answered(r) ==
    /\ r \notin Offers /\ at[r] = "expiring" /\ expired[r] = <<>>
    /\ Proceeds(r, "done")
    /\ UNCHANGED <<has, expired, engine, slotVars, store, server, lost>>

-----------------------------------------------------------------------------
(* The offer and the slot.                                                 *)

SessionAlive == task # None /\ session[task] # "done"

\* As Claim would be if it looked at the task alone.
ClaimUnreserved(o) ==
    /\ server = "serving" /\ at[o] = "new"
    /\ ~SessionAlive
    /\ task' = None /\ reserved' = TRUE
    /\ Proceeds(o, "claimed")
    /\ UNCHANGED <<has, expired, engine, session, metrics, store, server, lost>>

Claim(o) ==
    /\ server = "serving" /\ at[o] = "new"
    /\ ~reserved /\ ~SessionAlive
    /\ task' = None /\ reserved' = TRUE
    /\ Proceeds(o, "claimed")
    /\ UNCHANGED <<has, expired, engine, session, metrics, store, server, lost>>

\* "Another session is active", or the renderer's preflight for super resolution fails.
Refused(o) ==
    /\ server = "serving" /\ at[o] = "new"
    /\ Proceeds(o, "done")
    /\ UNCHANGED <<has, expired, engine, slotVars, store, server, lost>>

OfferBuilds(o) ==
    /\ at[o] = "claimed"
    /\ Builds(o, "negotiating", "releasing")
    /\ UNCHANGED <<expired, slotVars, store, server, lost>>

\* As OfferTakes would be if it left the engine in the store.
OfferTakesCopy(o, e) ==
    /\ at[o] = "claimed" /\ engine[e] # "none"
    /\ \E n \in 0..Len(store) :
          /\ Expires(o, n)
          /\ store' = Remaining(n)
          /\ Holds(o, IF Contains(Remaining(n), e) THEN e ELSE None)
    /\ Proceeds(o, "taking")
    /\ UNCHANGED <<engine, slotVars, server, lost>>

\* take, of an engine that was in the store at some time.
OfferTakes(o, e) ==
    /\ at[o] = "claimed" /\ engine[e] # "none"
    /\ \E n \in 0..Len(store) :
          /\ Expires(o, n)
          /\ store' = Popped(Remaining(n), e)
          /\ Holds(o, IF Contains(Remaining(n), e) THEN e ELSE None)
    /\ Proceeds(o, "taking")
    /\ UNCHANGED <<engine, slotVars, server, lost>>

OfferHasTaken(o) ==
    /\ at[o] = "taking" /\ expired[o] = <<>>
    /\ Proceeds(o, IF has[o] = None THEN "releasing" ELSE "negotiating")
    /\ UNCHANGED <<has, expired, engine, slotVars, store, server, lost>>

\* The negotiation fails or the browser has gone: the peer and the engine are closed.
OfferFails(o) ==
    /\ at[o] = "negotiating"
    /\ Proceeds(o, "cleaning")
    /\ UNCHANGED <<has, expired, engine, slotVars, store, server, lost>>

\* A peer that fails to close keeps the engine from being closed.
OfferCleans(o) ==
    /\ at[o] = "cleaning"
    /\ \/ ClosesWell(has[o])
       \/ ClosesBadly(has[o], {})
       \/ lost' = lost \cup {has[o]} /\ UNCHANGED engine
    /\ Holds(o, None) /\ Proceeds(o, "releasing")
    /\ UNCHANGED <<expired, slotVars, store, server>>

\* As ReleaseSlot would be if only the offers that had an engine released the slot.
ReleaseSlotForgotten(o) ==
    /\ at[o] = "releasing"
    /\ reserved' = (reserved /\ (task # None \/ engine[o] = "none"))
    /\ Proceeds(o, "done")
    /\ UNCHANGED <<has, expired, engine, task, session, metrics, store, server, lost>>

ReleaseSlot(o) ==
    /\ at[o] = "releasing"
    /\ reserved' = (reserved /\ task # None)
    /\ Proceeds(o, "done")
    /\ UNCHANGED <<has, expired, engine, task, session, metrics, store, server, lost>>

\* As Attach would be if it kept the reservation.
AttachKeeps(o) ==
    /\ at[o] = "negotiating" /\ reserved
    /\ task' = has[o]
    /\ session' = [session EXCEPT ![has[o]] = "created"]
    /\ Holds(o, None) /\ Proceeds(o, "done")
    /\ UNCHANGED <<expired, engine, reserved, metrics, store, server, lost>>

\* The session's task is made and attached; no request has been cut short (stop_and_wait
\* comes when they are answered), so the slot is still reserved.
Attach(o) ==
    /\ at[o] = "negotiating" /\ reserved
    /\ reserved' = FALSE /\ task' = has[o]
    /\ session' = [session EXCEPT ![has[o]] = "created"]
    /\ Holds(o, None) /\ Proceeds(o, "done")
    /\ UNCHANGED <<expired, engine, metrics, store, server, lost>>

-----------------------------------------------------------------------------
(* The session's task.                                                     *)

SessionRuns(e) ==
    /\ session[e] = "created"
    /\ session' = [session EXCEPT ![e] = "running"] /\ metrics' = e
    /\ UNCHANGED <<at, has, expired, engine, reserved, task, store, server, lost>>

\* The stream ends, fails, or is cancelled; then its peer is closed.
SessionEnds(e) ==
    /\ session[e] = "running"
    /\ session' = [session EXCEPT ![e] = "closing"] /\ metrics' = None
    /\ UNCHANGED <<at, has, expired, engine, reserved, task, store, server, lost>>

SessionCloses(e) ==
    /\ session[e] = "closing"
    /\ ClosesWell(e) \/ ClosesBadly(e, {})
    /\ session' = [session EXCEPT ![e] = "done"]
    /\ UNCHANGED <<at, has, expired, reserved, task, metrics, store, server>>

\* _on_done
OnDone(e) ==
    /\ session[e] = "done" /\ task = e
    /\ task' = None
    /\ UNCHANGED <<at, has, expired, engine, reserved, session, metrics, store, server,
                   lost>>

-----------------------------------------------------------------------------
(* The lifespan ends.                                                      *)

\* stop_and_wait: a task that is cancelled before it runs never closes its engine; one
\* that is closing it is cut short.
StopSession ==
    /\ server = "serving" /\ \A r \in Requests : at[r] \in {"new", "done"}
    /\ reserved' = FALSE /\ server' = "waiting"
    /\ IF SessionAlive
       THEN /\ session' = [session EXCEPT ![task] =
                              IF @ = "running" THEN "closing" ELSE "done"]
            /\ IF session[task] = "running" THEN UNCHANGED <<engine, lost>>
               ELSE ClosesBadly(task, {})
       ELSE UNCHANGED <<session, engine, lost>>
    /\ metrics' = None
    /\ UNCHANGED <<at, has, expired, task, store>>

SessionStopped ==
    /\ server = "waiting" /\ ~SessionAlive
    /\ task' = None /\ server' = "closing"
    /\ UNCHANGED <<at, has, expired, engine, reserved, session, metrics, store, lost>>

\* close_all goes on when an engine fails to close.
CloseAll ==
    /\ server = "closing" /\ store # <<>>
    /\ ClosesWell(Head(store)) \/ ClosesBadly(Head(store), {})
    /\ store' = Tail(store)
    /\ UNCHANGED <<at, has, expired, slotVars, server>>

\* The memory is closed last, and the server has stopped.
ServerStops ==
    /\ server = "closing" /\ store = <<>>
    /\ server' = "stopped"
    /\ UNCHANGED <<at, has, expired, engine, slotVars, store, lost>>

-----------------------------------------------------------------------------
Handler(r) ==
    \/ r \in Connects /\ ConnectPuts(r)
    \/ r \in Offers /\ (OfferBuilds(r) \/ (\E e \in Builders : OfferTakes(r, e))
                        \/ OfferHasTaken(r) \/ OfferFails(r) \/ OfferCleans(r)
                        \/ ReleaseSlot(r) \/ Attach(r))
    \/ ExpiredCloses(r) \/ ExpiredBreaks(r) \/ Answered(r)

Session(e) == SessionRuns(e) \/ SessionCloses(e) \/ OnDone(e)
Lifespan == SessionStopped \/ CloseAll \/ ServerStops

SlotNext ==
    \/ \E c \in Connects : ConnectBuilds(c)
    \/ \E v \in Visits : VisitGets(v) \/ \E e \in Builders : VisitRemoves(v, e)
    \/ \E o \in Offers : Claim(o) \/ Refused(o)
    \/ \E r \in Requests : Handler(r)
    \/ \E e \in Builders : Session(e) \/ SessionEnds(e)
    \/ StopSession \/ Lifespan

\* Whatever a handler awaits comes to an end; a session need not, and nobody has to stop
\* the server.
SlotFairness ==
    /\ \A r \in Requests : WF_serverVars(Handler(r))
    /\ \A e \in Builders : WF_serverVars(Session(e))
    /\ WF_serverVars(Lifespan)

-----------------------------------------------------------------------------
(* Properties.                                                             *)

\* The types of the fields; the slot is reserved or has a task, never both.
SlotTypeOK ==
    /\ at \in [Requests -> {"new", "built", "expiring", "claimed", "taking",
                            "negotiating", "cleaning", "releasing", "done"}]
    /\ has \in [Requests -> Builders \cup {None}]
    /\ expired \in [Requests -> Seq(Builders)]
    /\ engine \in [Builders -> {"none", "open", "closed", "broken"}]
    /\ reserved \in BOOLEAN /\ task \in Builders \cup {None}
    /\ reserved => task = None
    /\ session \in [Builders -> {"none", "created", "running", "closing", "done"}]
    /\ metrics \in Builders \cup {None}
    /\ store \in Seq(Builders) /\ lost \subseteq Builders
    /\ server \in {"serving", "waiting", "closing", "stopped"}

Sessions == {e \in Builders : session[e] \notin {"none", "done"}}

Owners(e) ==
    {<<"request", r>> : r \in {q \in Requests : has[q] = e \/ Contains(expired[q], e)}}
        \cup {<<"store", i>> : i \in {j \in DOMAIN store : store[j] = e}}
        \cup {<<"session", s>> : s \in Sessions \cap {e}}

\* Every open engine has exactly one owner, who is to close it, but for those that were
\* let go when another one failed to close; and no owner has a closed engine.
OneOwner ==
    \A e \in Builders :
        /\ engine[e] = "open" /\ e \notin lost => Cardinality(Owners(e)) = 1
        /\ engine[e] # "open" => Owners(e) = {}

\* There is one session at most, none while an offer is being answered, and its turns
\* are the ones that are counted.
OneSession ==
    /\ Cardinality({o \in Offers : at[o] \in {"claimed", "taking", "negotiating",
                                              "cleaning", "releasing"}})
           + Cardinality(Sessions) <= 1
    /\ metrics = None \/ session[metrics] = "running"

\* A slot that is claimed is freed or used, and a server that stops closes its engines
\* and comes to an end.
SlotIsFreed ==
    /\ reserved ~> ~reserved
    /\ server = "waiting" ~>
          /\ server = "stopped"
          /\ \A e \in Builders : engine[e] = "open" => e \in lost

\* The slot and the engines are sound, with the types of their fields.
SlotIsSound == SlotTypeOK /\ OneOwner /\ OneSession
=============================================================================
