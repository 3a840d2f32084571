------------------------------- MODULE Server -------------------------------
(***************************************************************************)
(* What a session rests on in its server, one at a time: the slot and the  *)
(* engines it may use, the bus of its stream, and the peer that carries    *)
(* the media between bus and browser.  They share no state.                *)
(***************************************************************************)
EXTENDS SessionSlot, BusClients, PeerMedia

VARIABLE part   \* "slot", "bus" or "peer"

vars == <<part, serverVars, clientVars, mdVars>>

Init == part \in {"slot", "bus", "peer"} /\ SlotInit /\ ClientsInit /\ MdInit

Next ==
    /\ UNCHANGED part
    /\ \/ part = "slot" /\ SlotNext /\ UNCHANGED <<clientVars, mdVars>>
       \/ part = "bus" /\ ClientsNext /\ UNCHANGED <<serverVars, mdVars>>
       \/ part = "peer" /\ MdNext /\ UNCHANGED <<serverVars, clientVars>>

\* Every task of the bus runs when it is ready; a worker reads or leaves, a publisher
\* goes on, but nobody has to publish.
OnBus == part = "bus"
ClientsFairness ==
    /\ WF_clientVars(OnBus /\ OpenBus)
    /\ \A s \in Subscribers : WF_clientVars(OnBus /\ Works(s))
    /\ \A p \in Publishers : WF_clientVars(OnBus /\ Continue(p))

Spec == Init /\ [][Next]_vars /\ SlotFairness /\ ClientsFairness /\ MdFairness

\* What a stream hands on arrives in order and once: the events of the bus (BusIsSound),
\* the sound and pictures that leave for the browser (MediaLeavesInOrder) and what it
\* says (UserIsHeardInOrder).
StreamsKeepOrder == BusIsSound /\ MediaLeavesInOrder /\ UserIsHeardInOrder

\* Nobody is left waiting for room: a publisher on a full queue goes on (PublishReturns),
\* and the video worker returns after a shutdown (VideoWorkerReturns).
WaitsForRoomEnd == PublishReturns /\ VideoWorkerReturns
=============================================================================
