----------------------- MODULE RendererRuntime_proofs -----------------------
(***************************************************************************)
(* What RendererRuntime keeps for any requests, any avatars and any number *)
(* of chunks.  IndInv is the inductive invariant: where each request is,   *)
(* who therefore has each lock, how many live requests there are, what the *)
(* runtime being loaded and the runtime in use are to one another, and     *)
(* what an upload or a deletion under way still owes the shelf.  For each  *)
(* part a lemma takes the actions one by one.                              *)
(***************************************************************************)
EXTENDS RendererRuntime, TLAPS, FiniteSetTheorems, SequenceTheorems

PlacesInv ==
    /\ DOMAIN at = Requests
    /\ \A l \in Lives : at[l] \in LivePlaces
    /\ \A j \in Jobs : at[j] \in JobPlaces
    /\ \A r \in Releases : at[r] \in ReleasePlaces

\* Where a request has each lock.
RuntimePlaces == [t \in Requests |->
    IF t \in Releases THEN ReleasePlaces \ {"none", "waiting", "locking"}
    ELSE {"loading", "restored"}]
UserPlaces == [t \in Requests |->
    IF t \in Lives THEN {}
    ELSE IF t \in Jobs THEN JobPlaces \ {"none", "waiting"}
    ELSE ReleasePlaces \ {"none", "waiting"}]
InferencePlaces == [t \in Requests |->
    IF t \in Lives THEN {"preflight", "rendering"}
    ELSE IF t \in Jobs THEN {"holding", "idling"}
    ELSE {"holding", "closing", "clearing", "forgetting"}]

LocksInv ==
    /\ {runtimeLock, userLock, inference} \subseteq Requests \cup {Nobody}
    /\ \A t \in Requests : runtimeLock = t <=> at[t] \in RuntimePlaces[t]
    /\ \A t \in Requests : userLock = t <=> at[t] \in UserPlaces[t]
    /\ \A t \in Requests : inference = t <=> at[t] \in InferencePlaces[t]

\* A lock is taken, given back or left alone by a request that goes to its next place.
Moves(lock, next, t, here, there, places) ==
    \/ next = lock /\ (here \in places <=> there \in places)
    \/ lock = Nobody /\ next = t /\ there \in places
    \/ next = Nobody /\ here \in places /\ there \notin places

MovesAll(t) ==
    /\ at' = [at EXCEPT ![t] = at'[t]]
    /\ Moves(runtimeLock, runtimeLock', t, at[t], at'[t], RuntimePlaces[t])
    /\ Moves(userLock, userLock', t, at[t], at'[t], UserPlaces[t])
    /\ Moves(inference, inference', t, at[t], at'[t], InferencePlaces[t])

\* If every lock changes hands as the request moves, the holders stay those by place.
LEMMA LocksMove == ASSUME PlacesInv, LocksInv, NEW t \in Requests,
     MovesAll(t) PROVE LocksInv'
<1> DEFINE place == at'[t]
<1>1. /\ Moves(runtimeLock, runtimeLock', t, at[t], place, RuntimePlaces[t])
      /\ Moves(userLock, userLock', t, at[t], place, UserPlaces[t])
      /\ Moves(inference, inference', t, at[t], place, InferencePlaces[t])
  BY DEF MovesAll
<1>2. \A u \in Requests : u # t => at'[u] = at[u]
  BY DEF MovesAll, PlacesInv
<1>3. RuntimePlaces' = RuntimePlaces /\ UserPlaces' = UserPlaces
      /\ InferencePlaces' = InferencePlaces
  BY DEF RuntimePlaces, UserPlaces, InferencePlaces
<1> HIDE DEF place
<1>4. \A u \in Requests : runtimeLock' = u <=> at'[u] \in RuntimePlaces[u]
  BY <1>1, <1>2, RuntimeAssumption DEF LocksInv, Moves, place
<1>5. \A u \in Requests : userLock' = u <=> at'[u] \in UserPlaces[u]
  BY <1>1, <1>2, RuntimeAssumption DEF LocksInv, Moves, place
<1>6. \A u \in Requests : inference' = u <=> at'[u] \in InferencePlaces[u]
  BY <1>1, <1>2, RuntimeAssumption DEF LocksInv, Moves, place
<1>7. {runtimeLock, userLock, inference}' \subseteq Requests \cup {Nobody}
  BY <1>1 DEF LocksInv, Moves
<1> QED BY <1>3, <1>4, <1>5, <1>6, <1>7 DEF LocksInv


\* The live requests under way are those counted.
Present == {l \in Lives : at[l] # "none"}
ActiveInv == active = Cardinality(Present)

\* There are finitely many live requests.
LEMMA PresentFinite == IsFiniteSet(Present)
<1>1. Present \subseteq Requests
  BY DEF Present, Requests
<1> QED BY <1>1, FS_Subset, RuntimeAssumption

\* A live request comes and is counted.
LEMMA ComingCounts ==
  ASSUME PlacesInv, ActiveInv, NEW l \in Lives, at[l] = "none", at'[l] # "none",
         active' = active + 1, \A u \in Lives \ {l} : at'[u] = at[u]
  PROVE  ActiveInv'
<1>1. Present' = Present \cup {l} /\ l \notin Present
  BY DEF Present
<1>2. Cardinality(Present \cup {l}) = Cardinality(Present) + 1
  BY <1>1, PresentFinite, FS_AddElement
<1> QED BY <1>1, <1>2 DEF ActiveInv

\* A live request leaves and is no longer counted.
LEMMA LeavingCounts ==
  ASSUME PlacesInv, ActiveInv, NEW l \in Lives, at[l] # "none", at'[l] = "none",
         active' = active - 1, \A u \in Lives \ {l} : at'[u] = at[u]
  PROVE  ActiveInv'
<1>1. Present' = Present \ {l} /\ l \in Present
  BY DEF Present
<1>2. Cardinality(Present \ {l}) = Cardinality(Present) - 1
  BY <1>1, PresentFinite, FS_RemoveElement
<1> QED BY <1>1, <1>2 DEF ActiveInv

\* Nothing is counted while nobody comes or leaves.
LEMMA StayingCounts ==
  ASSUME ActiveInv, active' = active, \A l \in Lives : at'[l] = "none" <=> at[l] = "none"
  PROVE  ActiveInv'
<1>1. Present' = Present
  BY DEF Present
<1> QED BY <1>1 DEF ActiveInv


\* A job is where its kind goes.
Kinds == {"upload", "idle", "delete"}
AsksInv ==
    /\ DOMAIN asks = Jobs
    /\ \A j \in Jobs : at[j] # "none" =>
          /\ asks[j].kind \in Kinds /\ asks[j].avatar \in Avatars
          /\ asks[j].kind # "idle" => asks[j].avatar \notin Bundled
          /\ at[j] \in {"deleting", "trashed"} => asks[j].kind = "delete"
          /\ asks[j].kind = "delete" =>
                at[j] \in {"waiting", "deleting", "trashed", "ending"}
          /\ at[j] = "stored" => asks[j].kind = "upload"


HasInv ==
    /\ DOMAIN has = Requests
    /\ \A t \in Requests :
          /\ DOMAIN has[t] = {"pipeline", "registry", "samples"}
          /\ has[t].pipeline \in 0..Len(shelf) /\ has[t].registry \in 0..Len(shelf)

ValuesInv ==
    /\ shelf \in Seq(SUBSET Avatars) /\ disk \subseteq Avatars \ Bundled
    /\ pipeline \in 0..Len(shelf) /\ registry \in 1..Len(shelf)
    /\ samples \in 0..Len(shelf)
    /\ met \subseteq Lives /\ stale \subseteq Avatars

\* What replacing and adding a registry does to the shelf.
LEMMA OneMore ==
  ASSUME shelf \in Seq(SUBSET Avatars), NEW i \in Nat, NEW s \in SUBSET Avatars
  PROVE  /\ [shelf EXCEPT ![i] = s] \in Seq(SUBSET Avatars)
         /\ Len([shelf EXCEPT ![i] = s]) = Len(shelf)
         /\ Append(shelf, s) \in Seq(SUBSET Avatars)
         /\ Len(Append(shelf, s)) = Len(shelf) + 1
         /\ Append(shelf, s)[Len(shelf) + 1] = s
         /\ \A n \in 1..Len(shelf) : Append(shelf, s)[n] = shelf[n]
<1>1. /\ Len([shelf EXCEPT ![i] = s]) = Len(shelf)
      /\ [shelf EXCEPT ![i] = s] \in Seq(SUBSET Avatars)
  <2>1. CASE i \in 1..Len(shelf)
    BY <2>1, ExceptSeq
  <2>2. CASE i \notin 1..Len(shelf)
    <3>1. [shelf EXCEPT ![i] = s] = shelf
      BY <2>2
    <3> QED BY <3>1
  <2> QED BY <2>1, <2>2
<1> QED BY <1>1, AppendProperties


\* A runtime being loaded is not in use, and no deletion is about its registry.
LoadInv ==
    \A t \in Lives \cup Jobs : at[t] \in {"loading", "restored"} =>
        /\ pipeline = 0 /\ has[t].pipeline # 0 /\ has[t].registry = has[t].pipeline
        /\ has[t].registry # registry
        /\ \A j \in Jobs : at[j] # "none" /\ asks[j].kind = "delete" =>
              has[j].registry # has[t].registry

SyncInv ==
    /\ pipeline # 0 => registry = pipeline /\ samples = pipeline
    /\ \A r \in Releases : at[r] \in {"clearing", "forgetting"} => pipeline = 0

\* From the last check of a release on, only those who came too late are present.
MetInv ==
    \A r \in Releases : at[r] = "closing" => \A l \in Lives : at[l] # "none" => l \in met

\* What a request has is in use.
KeptInv ==
    \A t \in (Lives \ met) \cup Jobs :
        /\ at[t] = "found" => pipeline # 0 /\ has[t].pipeline = pipeline
        /\ Working(t) => InUse(t)

\* No count, no live request.
LEMMA NobodyPresent == ASSUME ActiveInv, active = 0 PROVE \A l \in Lives : at[l] = "none"
<1>1. Present = {}
  BY PresentFinite, FS_EmptySet DEF ActiveInv
<1> QED BY <1>1 DEF Present


\* While an idle chunk is made, no live request has waited for another.
IdleInv ==
    /\ delays \in [Lives -> {0, 1}] /\ chunks \in 0..MaxChunks
    /\ \A l \in Lives : delays[l] # 0 => at[l] # "none"
    /\ \A j \in Jobs : at[j] = "idling" => \A l \in Lives : delays[l] = 0
    /\ \A j \in Jobs : at[j] \notin {"none", "waiting", "ending"} => chunks < MaxChunks

\* An upload or a deletion under way has yet to tell the shelf of the avatar.
Owed(a) == \E j \in Jobs : at[j] \in {"stored", "trashed"} /\ asks[j].avatar = a

Agrees(s) == \A a \in Avatars \ (Bundled \cup stale) : ~Owed(a) => (a \in disk <=> a \in s)

\* The registry in use, or about to be, agrees with the disk but for what is owed.
ShelfInv ==
    /\ pipeline # 0 => Agrees(shelf[registry])
    /\ \A t \in Lives \cup Jobs : at[t] = "restored" => Agrees(shelf[has[t].registry])
    /\ \A j \in Jobs : at[j] = "stored" => asks[j].avatar \in disk
    /\ \A j \in Jobs : at[j] = "trashed" =>
          /\ asks[j].avatar \notin disk
          /\ pipeline # 0 /\ registry = has[j].registry /\ asks[j].avatar \notin stale =>
                asks[j].avatar \in shelf[registry]

\* A step that is not about avatars keeps the agreement.
LEMMA ShelfStays ==
  ASSUME ShelfInv, UNCHANGED <<pipeline, registry, shelf, disk, stale>>,
         \A t \in Lives \cup Jobs : at'[t] = "restored" =>
            at[t] = "restored" /\ has'[t].registry = has[t].registry,
         \A j \in Jobs : at[j] \in {"stored", "trashed"} \/ at'[j] \in {"stored",
              "trashed"} =>
            at'[j] = at[j] /\ asks'[j] = asks[j] /\ has'[j] = has[j]
  PROVE  ShelfInv'
<1>1. \A a : Owed(a)' <=> Owed(a)
  BY DEF Owed
<1>2. \A s : Agrees(s)' <=> Agrees(s)
  BY <1>1 DEF Agrees
<1> QED BY <1>2 DEF ShelfInv

\* A request only goes to places of its kind.
LEMMA PlacesKept ==
  ASSUME PlacesInv, [Next]_vars PROVE PlacesInv'
<1> USE RuntimeAssumption DEF Requests, Goes, LivePlaces, JobPlaces, ReleasePlaces
<1>1. ASSUME NEW t \in Lives \cup Jobs, FindsPipeline(t) PROVE PlacesInv'
  BY <1>1 DEF FindsPipeline, PlacesInv
<1>2. ASSUME NEW t \in Lives \cup Jobs, FindsRegistry(t) PROVE PlacesInv'
  BY <1>2 DEF FindsRegistry, PlacesInv
<1>3. ASSUME NEW t \in Lives \cup Jobs, GetsRuntime(t) PROVE PlacesInv'
  BY <1>3 DEF GetsRuntime, PlacesInv
<1>4. ASSUME NEW t \in Lives \cup Jobs, StartsLoading(t) PROVE PlacesInv'
  BY <1>4 DEF StartsLoading, PlacesInv
<1>5. ASSUME NEW t \in Lives \cup Jobs, Restores(t) PROVE PlacesInv'
  BY <1>5 DEF Restores, PlacesInv
<1>6. ASSUME NEW t \in Lives \cup Jobs, Installs(t) PROVE PlacesInv'
  BY <1>6 DEF Installs, PlacesInv
<1>7. ASSUME NEW l \in Lives, Reserve(l) PROVE PlacesInv'
  BY <1>7 DEF Reserve, Comes, PlacesInv
<1>8. ASSUME NEW l \in Lives, LiveLoadFails(l) PROVE PlacesInv'
  BY <1>8 DEF LiveLoadFails, Leaves, Answered, PlacesInv
<1>9. ASSUME NEW l \in Lives, Preflights(l) PROVE PlacesInv'
  BY <1>9 DEF Preflights, PlacesInv
<1>10. ASSUME NEW l \in Lives, PreflightStarts(l) PROVE PlacesInv'
  BY <1>10 DEF PreflightStarts, PlacesInv
<1>11. ASSUME NEW l \in Lives, PreflightEnds(l) PROVE PlacesInv'
  BY <1>11 DEF PreflightEnds, PlacesInv
<1>12. ASSUME NEW l \in Lives, LooksUp(l) PROVE PlacesInv'
  BY <1>12 DEF LooksUp, PlacesInv
<1>13. ASSUME NEW l \in Lives, LiveStops(l) PROVE PlacesInv'
  BY <1>13 DEF LiveStops, Leaves, Answered, PlacesInv
<1>14. ASSUME NEW l \in Lives, Submits(l) PROVE PlacesInv'
  BY <1>14 DEF Submits, PlacesInv
<1>15. ASSUME NEW l \in Lives, Renders(l) PROVE PlacesInv'
  BY <1>15 DEF Renders, PlacesInv
<1>16. ASSUME NEW l \in Lives, LiveEnds(l) PROVE PlacesInv'
  BY <1>16 DEF LiveEnds, Leaves, Answered, PlacesInv
<1>17. ASSUME NEW j \in Jobs, JobAsked(j) PROVE PlacesInv'
  BY <1>17 DEF JobAsked, Comes, PlacesInv
<1>18. ASSUME NEW j \in Jobs, JobStarts(j) PROVE PlacesInv'
  BY <1>18 DEF JobStarts, PlacesInv
<1>19. ASSUME NEW j \in Jobs, JobLoadFails(j) PROVE PlacesInv'
  BY <1>19 DEF JobLoadFails, Answered, PlacesInv
<1>20. ASSUME NEW j \in Jobs, Stores(j) PROVE PlacesInv'
  BY <1>20 DEF Stores, PlacesInv
<1>21. ASSUME NEW j \in Jobs, Publishes(j) PROVE PlacesInv'
  BY <1>21 DEF Publishes, PlacesInv
<1>22. ASSUME NEW j \in Jobs, Generates(j) PROVE PlacesInv'
  BY <1>22 DEF Generates, PlacesInv
<1>23. ASSUME NEW j \in Jobs, IdleChecks(j) PROVE PlacesInv'
  BY <1>23 DEF IdleChecks, NoLive, PlacesInv
<1>24. ASSUME NEW j \in Jobs, IdleTries(j) PROVE PlacesInv'
  BY <1>24 DEF IdleTries, PlacesInv
<1>25. ASSUME NEW j \in Jobs, IdleStarts(j) PROVE PlacesInv'
  BY <1>25 DEF IdleStarts, NoLive, PlacesInv
<1>26. ASSUME NEW j \in Jobs, IdleEnds(j) PROVE PlacesInv'
  BY <1>26 DEF IdleEnds, Reserved, PlacesInv
<1>27. ASSUME NEW j \in Jobs, Trashes(j) PROVE PlacesInv'
  BY <1>27 DEF Trashes, PlacesInv
<1>28. ASSUME NEW j \in Jobs, Forgets(j) PROVE PlacesInv'
  BY <1>28 DEF Forgets, Outdated, PlacesInv
<1>29. ASSUME NEW j \in Jobs, JobEnds(j) PROVE PlacesInv'
  BY <1>29 DEF JobEnds, Answered, PlacesInv
<1>30. ASSUME NEW r \in Releases, ReleaseAsked(r) PROVE PlacesInv'
  BY <1>30 DEF ReleaseAsked, Comes, PlacesInv
<1>31. ASSUME NEW r \in Releases, ReleaseWaits(r) PROVE PlacesInv'
  BY <1>31 DEF ReleaseWaits, PlacesInv
<1>32. ASSUME NEW r \in Releases, ReleaseLocks(r) PROVE PlacesInv'
  BY <1>32 DEF ReleaseLocks, PlacesInv
<1>33. ASSUME NEW r \in Releases, ReleaseChecks(r) PROVE PlacesInv'
  BY <1>33 DEF ReleaseChecks, PlacesInv
<1>34. ASSUME NEW r \in Releases, ReleaseTries(r) PROVE PlacesInv'
  BY <1>34 DEF ReleaseTries, PlacesInv
<1>35. ASSUME NEW r \in Releases, ReleaseStarts(r) PROVE PlacesInv'
  BY <1>35 DEF ReleaseStarts, PlacesInv
<1>36. ASSUME NEW r \in Releases, Closes(r) PROVE PlacesInv'
  BY <1>36 DEF Closes, PlacesInv
<1>37. ASSUME NEW r \in Releases, Clears(r) PROVE PlacesInv'
  BY <1>37 DEF Clears, PlacesInv
<1>38. ASSUME NEW r \in Releases, Drops(r) PROVE PlacesInv'
  BY <1>38 DEF Drops, PlacesInv
<1>39. ASSUME NEW r \in Releases, ReleaseEnds(r) PROVE PlacesInv'
  BY <1>39 DEF ReleaseEnds, Answered, PlacesInv
<1>40. CASE UNCHANGED vars
  BY <1>40 DEF vars, stateVars, lockVars, gateVars, assetVars, liveVars, PlacesInv
<1> QED
  BY <1>1, <1>2, <1>3, <1>4, <1>5, <1>6, <1>7, <1>8, <1>9, <1>10, <1>11, <1>12, <1>13,
       <1>14, <1>15, <1>16, <1>17, <1>18, <1>19, <1>20, <1>21, <1>22, <1>23, <1>24, <1>25,
            <1>26, <1>27, <1>28, <1>29, <1>30, <1>31, <1>32, <1>33, <1>34, <1>35, <1>36,
                 <1>37, <1>38, <1>39, <1>40
     DEF Next, LiveStep, JobStep, ReleaseStep, Ensures, Terminated

\* Each lock is held by who is where it is held.
LEMMA LocksKept ==
  ASSUME PlacesInv, LocksInv, [Next]_vars PROVE LocksInv'
<1> USE RuntimeAssumption DEF Requests, Goes, lockVars, gateVars, LivePlaces, JobPlaces,
     ReleasePlaces
<1>1. ASSUME NEW t \in Lives \cup Jobs, FindsPipeline(t) PROVE LocksInv'
  <2>1. MovesAll(t)
    BY <1>1 DEF FindsPipeline, PlacesInv, MovesAll, Moves, RuntimePlaces, UserPlaces,
         InferencePlaces
  <2> QED BY <2>1, LocksMove
<1>2. ASSUME NEW t \in Lives \cup Jobs, FindsRegistry(t) PROVE LocksInv'
  <2>1. MovesAll(t)
    BY <1>2 DEF FindsRegistry, PlacesInv, MovesAll, Moves, RuntimePlaces, UserPlaces,
         InferencePlaces
  <2> QED BY <2>1, LocksMove
<1>3. ASSUME NEW t \in Lives \cup Jobs, GetsRuntime(t) PROVE LocksInv'
  <2>1. MovesAll(t)
    BY <1>3 DEF GetsRuntime, PlacesInv, MovesAll, Moves, RuntimePlaces, UserPlaces,
         InferencePlaces
  <2> QED BY <2>1, LocksMove
<1>4. ASSUME NEW t \in Lives \cup Jobs, StartsLoading(t) PROVE LocksInv'
  <2>1. MovesAll(t)
    BY <1>4 DEF StartsLoading, PlacesInv, MovesAll, Moves, RuntimePlaces, UserPlaces,
         InferencePlaces
  <2> QED BY <2>1, LocksMove
<1>5. ASSUME NEW t \in Lives \cup Jobs, Restores(t) PROVE LocksInv'
  <2>1. MovesAll(t)
    BY <1>5 DEF Restores, PlacesInv, MovesAll, Moves, RuntimePlaces, UserPlaces,
         InferencePlaces
  <2> QED BY <2>1, LocksMove
<1>6. ASSUME NEW t \in Lives \cup Jobs, Installs(t) PROVE LocksInv'
  <2>1. MovesAll(t)
    BY <1>6 DEF Installs, PlacesInv, MovesAll, Moves, RuntimePlaces, UserPlaces,
         InferencePlaces
  <2> QED BY <2>1, LocksMove
<1>7. ASSUME NEW l \in Lives, Reserve(l) PROVE LocksInv'
  <2>1. MovesAll(l)
    BY <1>7 DEF Reserve, Comes, PlacesInv, MovesAll, Moves, RuntimePlaces, UserPlaces,
         InferencePlaces
  <2> QED BY <2>1, LocksMove
<1>8. ASSUME NEW l \in Lives, LiveLoadFails(l) PROVE LocksInv'
  <2>1. MovesAll(l)
    BY <1>8 DEF LiveLoadFails, Leaves, Answered, PlacesInv, MovesAll, Moves, RuntimePlaces,
         UserPlaces, InferencePlaces
  <2> QED BY <2>1, LocksMove
<1>9. ASSUME NEW l \in Lives, Preflights(l) PROVE LocksInv'
  <2>1. MovesAll(l)
    BY <1>9 DEF Preflights, PlacesInv, MovesAll, Moves, RuntimePlaces, UserPlaces,
         InferencePlaces
  <2> QED BY <2>1, LocksMove
<1>10. ASSUME NEW l \in Lives, PreflightStarts(l) PROVE LocksInv'
  <2>1. MovesAll(l)
    BY <1>10 DEF PreflightStarts, PlacesInv, MovesAll, Moves, RuntimePlaces, UserPlaces,
         InferencePlaces
  <2> QED BY <2>1, LocksMove
<1>11. ASSUME NEW l \in Lives, PreflightEnds(l) PROVE LocksInv'
  <2>1. MovesAll(l)
    BY <1>11 DEF PreflightEnds, PlacesInv, MovesAll, Moves, RuntimePlaces, UserPlaces,
         InferencePlaces
  <2> QED BY <2>1, LocksMove
<1>12. ASSUME NEW l \in Lives, LooksUp(l) PROVE LocksInv'
  <2>1. MovesAll(l)
    BY <1>12 DEF LooksUp, PlacesInv, MovesAll, Moves, RuntimePlaces, UserPlaces,
         InferencePlaces
  <2> QED BY <2>1, LocksMove
<1>13. ASSUME NEW l \in Lives, LiveStops(l) PROVE LocksInv'
  <2>1. MovesAll(l)
    BY <1>13 DEF LiveStops, Leaves, Answered, PlacesInv, MovesAll, Moves, RuntimePlaces,
         UserPlaces, InferencePlaces
  <2> QED BY <2>1, LocksMove
<1>14. ASSUME NEW l \in Lives, Submits(l) PROVE LocksInv'
  <2>1. MovesAll(l)
    BY <1>14 DEF Submits, PlacesInv, MovesAll, Moves, RuntimePlaces, UserPlaces,
         InferencePlaces
  <2> QED BY <2>1, LocksMove
<1>15. ASSUME NEW l \in Lives, Renders(l) PROVE LocksInv'
  <2>1. MovesAll(l)
    BY <1>15 DEF Renders, PlacesInv, MovesAll, Moves, RuntimePlaces, UserPlaces,
         InferencePlaces
  <2> QED BY <2>1, LocksMove
<1>16. ASSUME NEW l \in Lives, LiveEnds(l) PROVE LocksInv'
  <2>1. MovesAll(l)
    BY <1>16 DEF LiveEnds, Leaves, Answered, PlacesInv, MovesAll, Moves, RuntimePlaces,
         UserPlaces, InferencePlaces
  <2> QED BY <2>1, LocksMove
<1>17. ASSUME NEW j \in Jobs, JobAsked(j) PROVE LocksInv'
  <2>1. MovesAll(j)
    BY <1>17 DEF JobAsked, Comes, PlacesInv, MovesAll, Moves, RuntimePlaces, UserPlaces,
         InferencePlaces
  <2> QED BY <2>1, LocksMove
<1>18. ASSUME NEW j \in Jobs, JobStarts(j) PROVE LocksInv'
  <2>1. MovesAll(j)
    BY <1>18 DEF JobStarts, PlacesInv, MovesAll, Moves, RuntimePlaces, UserPlaces,
         InferencePlaces
  <2> QED BY <2>1, LocksMove
<1>19. ASSUME NEW j \in Jobs, JobLoadFails(j) PROVE LocksInv'
  <2>1. MovesAll(j)
    BY <1>19 DEF JobLoadFails, Answered, PlacesInv, MovesAll, Moves, RuntimePlaces,
         UserPlaces, InferencePlaces
  <2> QED BY <2>1, LocksMove
<1>20. ASSUME NEW j \in Jobs, Stores(j) PROVE LocksInv'
  <2>1. MovesAll(j)
    BY <1>20 DEF Stores, PlacesInv, MovesAll, Moves, RuntimePlaces, UserPlaces,
         InferencePlaces
  <2> QED BY <2>1, LocksMove
<1>21. ASSUME NEW j \in Jobs, Publishes(j) PROVE LocksInv'
  <2>1. MovesAll(j)
    BY <1>21 DEF Publishes, PlacesInv, MovesAll, Moves, RuntimePlaces, UserPlaces,
         InferencePlaces
  <2> QED BY <2>1, LocksMove
<1>22. ASSUME NEW j \in Jobs, Generates(j) PROVE LocksInv'
  <2>1. MovesAll(j)
    BY <1>22 DEF Generates, PlacesInv, MovesAll, Moves, RuntimePlaces, UserPlaces,
         InferencePlaces
  <2> QED BY <2>1, LocksMove
<1>23. ASSUME NEW j \in Jobs, IdleChecks(j) PROVE LocksInv'
  <2>1. MovesAll(j)
    BY <1>23 DEF IdleChecks, NoLive, PlacesInv, MovesAll, Moves, RuntimePlaces, UserPlaces,
         InferencePlaces
  <2> QED BY <2>1, LocksMove
<1>24. ASSUME NEW j \in Jobs, IdleTries(j) PROVE LocksInv'
  <2>1. MovesAll(j)
    BY <1>24 DEF IdleTries, PlacesInv, MovesAll, Moves, RuntimePlaces, UserPlaces,
         InferencePlaces
  <2> QED BY <2>1, LocksMove
<1>25. ASSUME NEW j \in Jobs, IdleStarts(j) PROVE LocksInv'
  <2>1. MovesAll(j)
    BY <1>25 DEF IdleStarts, NoLive, PlacesInv, MovesAll, Moves, RuntimePlaces, UserPlaces,
         InferencePlaces
  <2> QED BY <2>1, LocksMove
<1>26. ASSUME NEW j \in Jobs, IdleEnds(j) PROVE LocksInv'
  <2>1. MovesAll(j)
    BY <1>26 DEF IdleEnds, Reserved, PlacesInv, MovesAll, Moves, RuntimePlaces, UserPlaces,
         InferencePlaces
  <2> QED BY <2>1, LocksMove
<1>27. ASSUME NEW j \in Jobs, Trashes(j) PROVE LocksInv'
  <2>1. MovesAll(j)
    BY <1>27 DEF Trashes, PlacesInv, MovesAll, Moves, RuntimePlaces, UserPlaces,
         InferencePlaces
  <2> QED BY <2>1, LocksMove
<1>28. ASSUME NEW j \in Jobs, Forgets(j) PROVE LocksInv'
  <2>1. MovesAll(j)
    BY <1>28 DEF Forgets, Outdated, PlacesInv, MovesAll, Moves, RuntimePlaces, UserPlaces,
         InferencePlaces
  <2> QED BY <2>1, LocksMove
<1>29. ASSUME NEW j \in Jobs, JobEnds(j) PROVE LocksInv'
  <2>1. MovesAll(j)
    BY <1>29 DEF JobEnds, Answered, PlacesInv, MovesAll, Moves, RuntimePlaces, UserPlaces,
         InferencePlaces
  <2> QED BY <2>1, LocksMove
<1>30. ASSUME NEW r \in Releases, ReleaseAsked(r) PROVE LocksInv'
  <2>1. MovesAll(r)
    BY <1>30 DEF ReleaseAsked, Comes, PlacesInv, MovesAll, Moves, RuntimePlaces,
         UserPlaces, InferencePlaces
  <2> QED BY <2>1, LocksMove
<1>31. ASSUME NEW r \in Releases, ReleaseWaits(r) PROVE LocksInv'
  <2>1. MovesAll(r)
    BY <1>31 DEF ReleaseWaits, PlacesInv, MovesAll, Moves, RuntimePlaces, UserPlaces,
         InferencePlaces
  <2> QED BY <2>1, LocksMove
<1>32. ASSUME NEW r \in Releases, ReleaseLocks(r) PROVE LocksInv'
  <2>1. MovesAll(r)
    BY <1>32 DEF ReleaseLocks, PlacesInv, MovesAll, Moves, RuntimePlaces, UserPlaces,
         InferencePlaces
  <2> QED BY <2>1, LocksMove
<1>33. ASSUME NEW r \in Releases, ReleaseChecks(r) PROVE LocksInv'
  <2>1. MovesAll(r)
    BY <1>33 DEF ReleaseChecks, PlacesInv, MovesAll, Moves, RuntimePlaces, UserPlaces,
         InferencePlaces
  <2> QED BY <2>1, LocksMove
<1>34. ASSUME NEW r \in Releases, ReleaseTries(r) PROVE LocksInv'
  <2>1. MovesAll(r)
    BY <1>34 DEF ReleaseTries, PlacesInv, MovesAll, Moves, RuntimePlaces, UserPlaces,
         InferencePlaces
  <2> QED BY <2>1, LocksMove
<1>35. ASSUME NEW r \in Releases, ReleaseStarts(r) PROVE LocksInv'
  <2>1. MovesAll(r)
    BY <1>35 DEF ReleaseStarts, PlacesInv, MovesAll, Moves, RuntimePlaces, UserPlaces,
         InferencePlaces
  <2> QED BY <2>1, LocksMove
<1>36. ASSUME NEW r \in Releases, Closes(r) PROVE LocksInv'
  <2>1. MovesAll(r)
    BY <1>36 DEF Closes, PlacesInv, MovesAll, Moves, RuntimePlaces, UserPlaces,
         InferencePlaces
  <2> QED BY <2>1, LocksMove
<1>37. ASSUME NEW r \in Releases, Clears(r) PROVE LocksInv'
  <2>1. MovesAll(r)
    BY <1>37 DEF Clears, PlacesInv, MovesAll, Moves, RuntimePlaces, UserPlaces,
         InferencePlaces
  <2> QED BY <2>1, LocksMove
<1>38. ASSUME NEW r \in Releases, Drops(r) PROVE LocksInv'
  <2>1. MovesAll(r)
    BY <1>38 DEF Drops, PlacesInv, MovesAll, Moves, RuntimePlaces, UserPlaces,
         InferencePlaces
  <2> QED BY <2>1, LocksMove
<1>39. ASSUME NEW r \in Releases, ReleaseEnds(r) PROVE LocksInv'
  <2>1. MovesAll(r)
    BY <1>39 DEF ReleaseEnds, Answered, PlacesInv, MovesAll, Moves, RuntimePlaces,
         UserPlaces, InferencePlaces
  <2> QED BY <2>1, LocksMove
<1>40. CASE UNCHANGED vars
  BY <1>40 DEF vars, stateVars, lockVars, gateVars, assetVars, liveVars, LocksInv,
       RuntimePlaces, UserPlaces, InferencePlaces
<1> QED
  BY <1>1, <1>2, <1>3, <1>4, <1>5, <1>6, <1>7, <1>8, <1>9, <1>10, <1>11, <1>12, <1>13,
       <1>14, <1>15, <1>16, <1>17, <1>18, <1>19, <1>20, <1>21, <1>22, <1>23, <1>24, <1>25,
            <1>26, <1>27, <1>28, <1>29, <1>30, <1>31, <1>32, <1>33, <1>34, <1>35, <1>36,
                 <1>37, <1>38, <1>39, <1>40
     DEF Next, LiveStep, JobStep, ReleaseStep, Ensures, Terminated

\* The count of the live requests is that of their reservations.
LEMMA ActiveKept ==
  ASSUME PlacesInv, ActiveInv, [Next]_vars PROVE ActiveInv'
<1> USE RuntimeAssumption DEF Requests, Goes, stateVars, lockVars, gateVars, LivePlaces,
     JobPlaces, ReleasePlaces
<1>1. ASSUME NEW t \in Lives \cup Jobs, FindsPipeline(t) PROVE ActiveInv'
  <2>1. active' = active /\ \A m \in Lives : at'[m] = "none" <=> at[m] = "none"
    BY <1>1 DEF FindsPipeline, PlacesInv
  <2> QED BY <2>1, StayingCounts
<1>2. ASSUME NEW t \in Lives \cup Jobs, FindsRegistry(t) PROVE ActiveInv'
  <2>1. active' = active /\ \A m \in Lives : at'[m] = "none" <=> at[m] = "none"
    BY <1>2 DEF FindsRegistry, PlacesInv
  <2> QED BY <2>1, StayingCounts
<1>3. ASSUME NEW t \in Lives \cup Jobs, GetsRuntime(t) PROVE ActiveInv'
  <2>1. active' = active /\ \A m \in Lives : at'[m] = "none" <=> at[m] = "none"
    BY <1>3 DEF GetsRuntime, PlacesInv
  <2> QED BY <2>1, StayingCounts
<1>4. ASSUME NEW t \in Lives \cup Jobs, StartsLoading(t) PROVE ActiveInv'
  <2>1. active' = active /\ \A m \in Lives : at'[m] = "none" <=> at[m] = "none"
    BY <1>4 DEF StartsLoading, PlacesInv
  <2> QED BY <2>1, StayingCounts
<1>5. ASSUME NEW t \in Lives \cup Jobs, Restores(t) PROVE ActiveInv'
  <2>1. active' = active /\ \A m \in Lives : at'[m] = "none" <=> at[m] = "none"
    BY <1>5 DEF Restores, PlacesInv
  <2> QED BY <2>1, StayingCounts
<1>6. ASSUME NEW t \in Lives \cup Jobs, Installs(t) PROVE ActiveInv'
  <2>1. active' = active /\ \A m \in Lives : at'[m] = "none" <=> at[m] = "none"
    BY <1>6 DEF Installs, PlacesInv
  <2> QED BY <2>1, StayingCounts
<1>7. ASSUME NEW l \in Lives, Reserve(l) PROVE ActiveInv'
  <2>1. /\ at[l] = "none" /\ at'[l] # "none" /\ active' = active + 1
        /\ \A u \in Lives \ {l} : at'[u] = at[u]
    BY <1>7 DEF Reserve, Comes, PlacesInv
  <2> QED BY <2>1, ComingCounts
<1>8. ASSUME NEW l \in Lives, LiveLoadFails(l) PROVE ActiveInv'
  <2>1. /\ at[l] # "none" /\ at'[l] = "none" /\ active' = active - 1
        /\ \A u \in Lives \ {l} : at'[u] = at[u]
    BY <1>8 DEF LiveLoadFails, Leaves, Answered, PlacesInv
  <2> QED BY <2>1, LeavingCounts
<1>9. ASSUME NEW l \in Lives, Preflights(l) PROVE ActiveInv'
  <2>1. active' = active /\ \A m \in Lives : at'[m] = "none" <=> at[m] = "none"
    BY <1>9 DEF Preflights, PlacesInv
  <2> QED BY <2>1, StayingCounts
<1>10. ASSUME NEW l \in Lives, PreflightStarts(l) PROVE ActiveInv'
  <2>1. active' = active /\ \A m \in Lives : at'[m] = "none" <=> at[m] = "none"
    BY <1>10 DEF PreflightStarts, PlacesInv
  <2> QED BY <2>1, StayingCounts
<1>11. ASSUME NEW l \in Lives, PreflightEnds(l) PROVE ActiveInv'
  <2>1. active' = active /\ \A m \in Lives : at'[m] = "none" <=> at[m] = "none"
    BY <1>11 DEF PreflightEnds, PlacesInv
  <2> QED BY <2>1, StayingCounts
<1>12. ASSUME NEW l \in Lives, LooksUp(l) PROVE ActiveInv'
  <2>1. active' = active /\ \A m \in Lives : at'[m] = "none" <=> at[m] = "none"
    BY <1>12 DEF LooksUp, PlacesInv
  <2> QED BY <2>1, StayingCounts
<1>13. ASSUME NEW l \in Lives, LiveStops(l) PROVE ActiveInv'
  <2>1. /\ at[l] # "none" /\ at'[l] = "none" /\ active' = active - 1
        /\ \A u \in Lives \ {l} : at'[u] = at[u]
    BY <1>13 DEF LiveStops, Leaves, Answered, PlacesInv
  <2> QED BY <2>1, LeavingCounts
<1>14. ASSUME NEW l \in Lives, Submits(l) PROVE ActiveInv'
  <2>1. active' = active /\ \A m \in Lives : at'[m] = "none" <=> at[m] = "none"
    BY <1>14 DEF Submits, PlacesInv
  <2> QED BY <2>1, StayingCounts
<1>15. ASSUME NEW l \in Lives, Renders(l) PROVE ActiveInv'
  <2>1. active' = active /\ \A m \in Lives : at'[m] = "none" <=> at[m] = "none"
    BY <1>15 DEF Renders, PlacesInv
  <2> QED BY <2>1, StayingCounts
<1>16. ASSUME NEW l \in Lives, LiveEnds(l) PROVE ActiveInv'
  <2>1. /\ at[l] # "none" /\ at'[l] = "none" /\ active' = active - 1
        /\ \A u \in Lives \ {l} : at'[u] = at[u]
    BY <1>16 DEF LiveEnds, Leaves, Answered, PlacesInv
  <2> QED BY <2>1, LeavingCounts
<1>17. ASSUME NEW j \in Jobs, JobAsked(j) PROVE ActiveInv'
  <2>1. active' = active /\ \A m \in Lives : at'[m] = "none" <=> at[m] = "none"
    BY <1>17 DEF JobAsked, Comes, PlacesInv
  <2> QED BY <2>1, StayingCounts
<1>18. ASSUME NEW j \in Jobs, JobStarts(j) PROVE ActiveInv'
  <2>1. active' = active /\ \A m \in Lives : at'[m] = "none" <=> at[m] = "none"
    BY <1>18 DEF JobStarts, PlacesInv
  <2> QED BY <2>1, StayingCounts
<1>19. ASSUME NEW j \in Jobs, JobLoadFails(j) PROVE ActiveInv'
  <2>1. active' = active /\ \A m \in Lives : at'[m] = "none" <=> at[m] = "none"
    BY <1>19 DEF JobLoadFails, Answered, PlacesInv
  <2> QED BY <2>1, StayingCounts
<1>20. ASSUME NEW j \in Jobs, Stores(j) PROVE ActiveInv'
  <2>1. active' = active /\ \A m \in Lives : at'[m] = "none" <=> at[m] = "none"
    BY <1>20 DEF Stores, PlacesInv
  <2> QED BY <2>1, StayingCounts
<1>21. ASSUME NEW j \in Jobs, Publishes(j) PROVE ActiveInv'
  <2>1. active' = active /\ \A m \in Lives : at'[m] = "none" <=> at[m] = "none"
    BY <1>21 DEF Publishes, PlacesInv
  <2> QED BY <2>1, StayingCounts
<1>22. ASSUME NEW j \in Jobs, Generates(j) PROVE ActiveInv'
  <2>1. active' = active /\ \A m \in Lives : at'[m] = "none" <=> at[m] = "none"
    BY <1>22 DEF Generates, PlacesInv
  <2> QED BY <2>1, StayingCounts
<1>23. ASSUME NEW j \in Jobs, IdleChecks(j) PROVE ActiveInv'
  <2>1. active' = active /\ \A m \in Lives : at'[m] = "none" <=> at[m] = "none"
    BY <1>23 DEF IdleChecks, NoLive, PlacesInv
  <2> QED BY <2>1, StayingCounts
<1>24. ASSUME NEW j \in Jobs, IdleTries(j) PROVE ActiveInv'
  <2>1. active' = active /\ \A m \in Lives : at'[m] = "none" <=> at[m] = "none"
    BY <1>24 DEF IdleTries, PlacesInv
  <2> QED BY <2>1, StayingCounts
<1>25. ASSUME NEW j \in Jobs, IdleStarts(j) PROVE ActiveInv'
  <2>1. active' = active /\ \A m \in Lives : at'[m] = "none" <=> at[m] = "none"
    BY <1>25 DEF IdleStarts, NoLive, PlacesInv
  <2> QED BY <2>1, StayingCounts
<1>26. ASSUME NEW j \in Jobs, IdleEnds(j) PROVE ActiveInv'
  <2>1. active' = active /\ \A m \in Lives : at'[m] = "none" <=> at[m] = "none"
    BY <1>26 DEF IdleEnds, Reserved, PlacesInv
  <2> QED BY <2>1, StayingCounts
<1>27. ASSUME NEW j \in Jobs, Trashes(j) PROVE ActiveInv'
  <2>1. active' = active /\ \A m \in Lives : at'[m] = "none" <=> at[m] = "none"
    BY <1>27 DEF Trashes, PlacesInv
  <2> QED BY <2>1, StayingCounts
<1>28. ASSUME NEW j \in Jobs, Forgets(j) PROVE ActiveInv'
  <2>1. active' = active /\ \A m \in Lives : at'[m] = "none" <=> at[m] = "none"
    BY <1>28 DEF Forgets, Outdated, PlacesInv
  <2> QED BY <2>1, StayingCounts
<1>29. ASSUME NEW j \in Jobs, JobEnds(j) PROVE ActiveInv'
  <2>1. active' = active /\ \A m \in Lives : at'[m] = "none" <=> at[m] = "none"
    BY <1>29 DEF JobEnds, Answered, PlacesInv
  <2> QED BY <2>1, StayingCounts
<1>30. ASSUME NEW r \in Releases, ReleaseAsked(r) PROVE ActiveInv'
  <2>1. active' = active /\ \A m \in Lives : at'[m] = "none" <=> at[m] = "none"
    BY <1>30 DEF ReleaseAsked, Comes, PlacesInv
  <2> QED BY <2>1, StayingCounts
<1>31. ASSUME NEW r \in Releases, ReleaseWaits(r) PROVE ActiveInv'
  <2>1. active' = active /\ \A m \in Lives : at'[m] = "none" <=> at[m] = "none"
    BY <1>31 DEF ReleaseWaits, PlacesInv
  <2> QED BY <2>1, StayingCounts
<1>32. ASSUME NEW r \in Releases, ReleaseLocks(r) PROVE ActiveInv'
  <2>1. active' = active /\ \A m \in Lives : at'[m] = "none" <=> at[m] = "none"
    BY <1>32 DEF ReleaseLocks, PlacesInv
  <2> QED BY <2>1, StayingCounts
<1>33. ASSUME NEW r \in Releases, ReleaseChecks(r) PROVE ActiveInv'
  <2>1. active' = active /\ \A m \in Lives : at'[m] = "none" <=> at[m] = "none"
    BY <1>33 DEF ReleaseChecks, PlacesInv
  <2> QED BY <2>1, StayingCounts
<1>34. ASSUME NEW r \in Releases, ReleaseTries(r) PROVE ActiveInv'
  <2>1. active' = active /\ \A m \in Lives : at'[m] = "none" <=> at[m] = "none"
    BY <1>34 DEF ReleaseTries, PlacesInv
  <2> QED BY <2>1, StayingCounts
<1>35. ASSUME NEW r \in Releases, ReleaseStarts(r) PROVE ActiveInv'
  <2>1. active' = active /\ \A m \in Lives : at'[m] = "none" <=> at[m] = "none"
    BY <1>35 DEF ReleaseStarts, PlacesInv
  <2> QED BY <2>1, StayingCounts
<1>36. ASSUME NEW r \in Releases, Closes(r) PROVE ActiveInv'
  <2>1. active' = active /\ \A m \in Lives : at'[m] = "none" <=> at[m] = "none"
    BY <1>36 DEF Closes, PlacesInv
  <2> QED BY <2>1, StayingCounts
<1>37. ASSUME NEW r \in Releases, Clears(r) PROVE ActiveInv'
  <2>1. active' = active /\ \A m \in Lives : at'[m] = "none" <=> at[m] = "none"
    BY <1>37 DEF Clears, PlacesInv
  <2> QED BY <2>1, StayingCounts
<1>38. ASSUME NEW r \in Releases, Drops(r) PROVE ActiveInv'
  <2>1. active' = active /\ \A m \in Lives : at'[m] = "none" <=> at[m] = "none"
    BY <1>38 DEF Drops, PlacesInv
  <2> QED BY <2>1, StayingCounts
<1>39. ASSUME NEW r \in Releases, ReleaseEnds(r) PROVE ActiveInv'
  <2>1. active' = active /\ \A m \in Lives : at'[m] = "none" <=> at[m] = "none"
    BY <1>39 DEF ReleaseEnds, Answered, PlacesInv
  <2> QED BY <2>1, StayingCounts
<1>40. CASE UNCHANGED vars
  BY <1>40, StayingCounts DEF vars, gateVars
<1> QED
  BY <1>1, <1>2, <1>3, <1>4, <1>5, <1>6, <1>7, <1>8, <1>9, <1>10, <1>11, <1>12, <1>13,
       <1>14, <1>15, <1>16, <1>17, <1>18, <1>19, <1>20, <1>21, <1>22, <1>23, <1>24, <1>25,
            <1>26, <1>27, <1>28, <1>29, <1>30, <1>31, <1>32, <1>33, <1>34, <1>35, <1>36,
                 <1>37, <1>38, <1>39, <1>40
     DEF Next, LiveStep, JobStep, ReleaseStep, Ensures, Terminated

\* A job keeps to its kind.
LEMMA AsksKept ==
  ASSUME PlacesInv, AsksInv, [Next]_vars PROVE AsksInv'
<1> USE RuntimeAssumption DEF Requests, Goes, LivePlaces, JobPlaces, ReleasePlaces
<1>1. ASSUME NEW t \in Lives \cup Jobs, FindsPipeline(t) PROVE AsksInv'
  BY <1>1 DEF FindsPipeline, PlacesInv, AsksInv, Kinds
<1>2. ASSUME NEW t \in Lives \cup Jobs, FindsRegistry(t) PROVE AsksInv'
  BY <1>2 DEF FindsRegistry, PlacesInv, AsksInv, Kinds
<1>3. ASSUME NEW t \in Lives \cup Jobs, GetsRuntime(t) PROVE AsksInv'
  BY <1>3 DEF GetsRuntime, PlacesInv, AsksInv, Kinds
<1>4. ASSUME NEW t \in Lives \cup Jobs, StartsLoading(t) PROVE AsksInv'
  BY <1>4 DEF StartsLoading, PlacesInv, AsksInv, Kinds
<1>5. ASSUME NEW t \in Lives \cup Jobs, Restores(t) PROVE AsksInv'
  BY <1>5 DEF Restores, PlacesInv, AsksInv, Kinds
<1>6. ASSUME NEW t \in Lives \cup Jobs, Installs(t) PROVE AsksInv'
  BY <1>6 DEF Installs, PlacesInv, AsksInv, Kinds
<1>7. ASSUME NEW l \in Lives, Reserve(l) PROVE AsksInv'
  BY <1>7 DEF Reserve, Comes, PlacesInv, AsksInv, Kinds
<1>8. ASSUME NEW l \in Lives, LiveLoadFails(l) PROVE AsksInv'
  BY <1>8 DEF LiveLoadFails, Leaves, Answered, PlacesInv, AsksInv, Kinds
<1>9. ASSUME NEW l \in Lives, Preflights(l) PROVE AsksInv'
  BY <1>9 DEF Preflights, PlacesInv, AsksInv, Kinds
<1>10. ASSUME NEW l \in Lives, PreflightStarts(l) PROVE AsksInv'
  BY <1>10 DEF PreflightStarts, PlacesInv, AsksInv, Kinds
<1>11. ASSUME NEW l \in Lives, PreflightEnds(l) PROVE AsksInv'
  BY <1>11 DEF PreflightEnds, PlacesInv, AsksInv, Kinds
<1>12. ASSUME NEW l \in Lives, LooksUp(l) PROVE AsksInv'
  BY <1>12 DEF LooksUp, PlacesInv, AsksInv, Kinds
<1>13. ASSUME NEW l \in Lives, LiveStops(l) PROVE AsksInv'
  BY <1>13 DEF LiveStops, Leaves, Answered, PlacesInv, AsksInv, Kinds
<1>14. ASSUME NEW l \in Lives, Submits(l) PROVE AsksInv'
  BY <1>14 DEF Submits, PlacesInv, AsksInv, Kinds
<1>15. ASSUME NEW l \in Lives, Renders(l) PROVE AsksInv'
  BY <1>15 DEF Renders, PlacesInv, AsksInv, Kinds
<1>16. ASSUME NEW l \in Lives, LiveEnds(l) PROVE AsksInv'
  BY <1>16 DEF LiveEnds, Leaves, Answered, PlacesInv, AsksInv, Kinds
<1>17. ASSUME NEW j \in Jobs, JobAsked(j) PROVE AsksInv'
  BY <1>17 DEF JobAsked, Comes, PlacesInv, AsksInv, Kinds
<1>18. ASSUME NEW j \in Jobs, JobStarts(j) PROVE AsksInv'
  BY <1>18 DEF JobStarts, PlacesInv, AsksInv, Kinds
<1>19. ASSUME NEW j \in Jobs, JobLoadFails(j) PROVE AsksInv'
  BY <1>19 DEF JobLoadFails, Answered, PlacesInv, AsksInv, Kinds
<1>20. ASSUME NEW j \in Jobs, Stores(j) PROVE AsksInv'
  BY <1>20 DEF Stores, PlacesInv, AsksInv, Kinds
<1>21. ASSUME NEW j \in Jobs, Publishes(j) PROVE AsksInv'
  BY <1>21 DEF Publishes, PlacesInv, AsksInv, Kinds
<1>22. ASSUME NEW j \in Jobs, Generates(j) PROVE AsksInv'
  BY <1>22 DEF Generates, PlacesInv, AsksInv, Kinds
<1>23. ASSUME NEW j \in Jobs, IdleChecks(j) PROVE AsksInv'
  BY <1>23 DEF IdleChecks, NoLive, PlacesInv, AsksInv, Kinds
<1>24. ASSUME NEW j \in Jobs, IdleTries(j) PROVE AsksInv'
  BY <1>24 DEF IdleTries, PlacesInv, AsksInv, Kinds
<1>25. ASSUME NEW j \in Jobs, IdleStarts(j) PROVE AsksInv'
  BY <1>25 DEF IdleStarts, NoLive, PlacesInv, AsksInv, Kinds
<1>26. ASSUME NEW j \in Jobs, IdleEnds(j) PROVE AsksInv'
  BY <1>26 DEF IdleEnds, Reserved, PlacesInv, AsksInv, Kinds
<1>27. ASSUME NEW j \in Jobs, Trashes(j) PROVE AsksInv'
  BY <1>27 DEF Trashes, PlacesInv, AsksInv, Kinds
<1>28. ASSUME NEW j \in Jobs, Forgets(j) PROVE AsksInv'
  BY <1>28 DEF Forgets, Outdated, PlacesInv, AsksInv, Kinds
<1>29. ASSUME NEW j \in Jobs, JobEnds(j) PROVE AsksInv'
  BY <1>29 DEF JobEnds, Answered, PlacesInv, AsksInv, Kinds
<1>30. ASSUME NEW r \in Releases, ReleaseAsked(r) PROVE AsksInv'
  BY <1>30 DEF ReleaseAsked, Comes, PlacesInv, AsksInv, Kinds
<1>31. ASSUME NEW r \in Releases, ReleaseWaits(r) PROVE AsksInv'
  BY <1>31 DEF ReleaseWaits, PlacesInv, AsksInv, Kinds
<1>32. ASSUME NEW r \in Releases, ReleaseLocks(r) PROVE AsksInv'
  BY <1>32 DEF ReleaseLocks, PlacesInv, AsksInv, Kinds
<1>33. ASSUME NEW r \in Releases, ReleaseChecks(r) PROVE AsksInv'
  BY <1>33 DEF ReleaseChecks, PlacesInv, AsksInv, Kinds
<1>34. ASSUME NEW r \in Releases, ReleaseTries(r) PROVE AsksInv'
  BY <1>34 DEF ReleaseTries, PlacesInv, AsksInv, Kinds
<1>35. ASSUME NEW r \in Releases, ReleaseStarts(r) PROVE AsksInv'
  BY <1>35 DEF ReleaseStarts, PlacesInv, AsksInv, Kinds
<1>36. ASSUME NEW r \in Releases, Closes(r) PROVE AsksInv'
  BY <1>36 DEF Closes, PlacesInv, AsksInv, Kinds
<1>37. ASSUME NEW r \in Releases, Clears(r) PROVE AsksInv'
  BY <1>37 DEF Clears, PlacesInv, AsksInv, Kinds
<1>38. ASSUME NEW r \in Releases, Drops(r) PROVE AsksInv'
  BY <1>38 DEF Drops, PlacesInv, AsksInv, Kinds
<1>39. ASSUME NEW r \in Releases, ReleaseEnds(r) PROVE AsksInv'
  BY <1>39 DEF ReleaseEnds, Answered, PlacesInv, AsksInv, Kinds
<1>40. CASE UNCHANGED vars
  BY <1>40 DEF vars, stateVars, lockVars, gateVars, assetVars, liveVars, PlacesInv,
       AsksInv, Kinds
<1> QED
  BY <1>1, <1>2, <1>3, <1>4, <1>5, <1>6, <1>7, <1>8, <1>9, <1>10, <1>11, <1>12, <1>13,
       <1>14, <1>15, <1>16, <1>17, <1>18, <1>19, <1>20, <1>21, <1>22, <1>23, <1>24, <1>25,
            <1>26, <1>27, <1>28, <1>29, <1>30, <1>31, <1>32, <1>33, <1>34, <1>35, <1>36,
                 <1>37, <1>38, <1>39, <1>40
     DEF Next, LiveStep, JobStep, ReleaseStep, Ensures, Terminated

\* The numbers of the runtimes and the shelf keep their types.
LEMMA ValuesKept ==
  ASSUME PlacesInv, AsksInv, HasInv, LoadInv, ValuesInv,
       [Next]_vars PROVE ValuesInv' /\ HasInv'
<1> USE RuntimeAssumption DEF Requests, Goes, stateVars, assetVars, liveVars, Empty
<1>1. ASSUME NEW t \in Lives \cup Jobs, FindsPipeline(t) PROVE ValuesInv' /\ HasInv'
  BY <1>1 DEF FindsPipeline, ValuesInv, HasInv
<1>2. ASSUME NEW t \in Lives \cup Jobs, FindsRegistry(t) PROVE ValuesInv' /\ HasInv'
  BY <1>2 DEF FindsRegistry, ValuesInv, HasInv
<1>3. ASSUME NEW t \in Lives \cup Jobs, GetsRuntime(t) PROVE ValuesInv' /\ HasInv'
  BY <1>3 DEF GetsRuntime, ValuesInv, HasInv
<1>4. ASSUME NEW t \in Lives \cup Jobs, StartsLoading(t) PROVE ValuesInv' /\ HasInv'
  <2>1. /\ shelf' \in Seq(SUBSET Avatars) /\ Len(shelf') = Len(shelf) + 1
        /\ Len(shelf) \in Nat
    BY <1>4, OneMore, LenProperties DEF StartsLoading, ValuesInv
  <2>2. ValuesInv'
    BY <1>4, <2>1 DEF StartsLoading, ValuesInv
  <2>3. HasInv'
    BY <1>4, <2>1 DEF StartsLoading, HasInv
  <2> QED BY <2>2, <2>3
<1>5. ASSUME NEW t \in Lives \cup Jobs, Restores(t) PROVE ValuesInv' /\ HasInv'
  <2>1. has[t].registry \in Nat /\ Bundled \cup disk \in SUBSET Avatars
    BY DEF HasInv, ValuesInv
  <2>2. shelf' \in Seq(SUBSET Avatars) /\ Len(shelf') = Len(shelf)
    BY <1>5, <2>1, OneMore DEF Restores, ValuesInv
  <2> QED BY <1>5, <2>2 DEF Restores, ValuesInv, HasInv
<1>6. ASSUME NEW t \in Lives \cup Jobs, Installs(t) PROVE ValuesInv' /\ HasInv'
  BY <1>6 DEF Installs, ValuesInv, HasInv, LoadInv
<1>7. ASSUME NEW l \in Lives, Reserve(l) PROVE ValuesInv' /\ HasInv'
  BY <1>7 DEF Reserve, Comes, ValuesInv, HasInv
<1>8. ASSUME NEW l \in Lives, LiveLoadFails(l) PROVE ValuesInv' /\ HasInv'
  BY <1>8 DEF LiveLoadFails, Leaves, Answered, ValuesInv, HasInv
<1>9. ASSUME NEW l \in Lives, Preflights(l) PROVE ValuesInv' /\ HasInv'
  BY <1>9 DEF Preflights, ValuesInv, HasInv
<1>10. ASSUME NEW l \in Lives, PreflightStarts(l) PROVE ValuesInv' /\ HasInv'
  BY <1>10 DEF PreflightStarts, ValuesInv, HasInv
<1>11. ASSUME NEW l \in Lives, PreflightEnds(l) PROVE ValuesInv' /\ HasInv'
  BY <1>11 DEF PreflightEnds, ValuesInv, HasInv
<1>12. ASSUME NEW l \in Lives, LooksUp(l) PROVE ValuesInv' /\ HasInv'
  BY <1>12 DEF LooksUp, ValuesInv, HasInv
<1>13. ASSUME NEW l \in Lives, LiveStops(l) PROVE ValuesInv' /\ HasInv'
  BY <1>13 DEF LiveStops, Leaves, Answered, ValuesInv, HasInv
<1>14. ASSUME NEW l \in Lives, Submits(l) PROVE ValuesInv' /\ HasInv'
  BY <1>14 DEF Submits, ValuesInv, HasInv
<1>15. ASSUME NEW l \in Lives, Renders(l) PROVE ValuesInv' /\ HasInv'
  BY <1>15 DEF Renders, ValuesInv, HasInv
<1>16. ASSUME NEW l \in Lives, LiveEnds(l) PROVE ValuesInv' /\ HasInv'
  BY <1>16 DEF LiveEnds, Leaves, Answered, ValuesInv, HasInv
<1>17. ASSUME NEW j \in Jobs, JobAsked(j) PROVE ValuesInv' /\ HasInv'
  BY <1>17 DEF JobAsked, Comes, ValuesInv, HasInv
<1>18. ASSUME NEW j \in Jobs, JobStarts(j) PROVE ValuesInv' /\ HasInv'
  BY <1>18 DEF JobStarts, ValuesInv, HasInv
<1>19. ASSUME NEW j \in Jobs, JobLoadFails(j) PROVE ValuesInv' /\ HasInv'
  BY <1>19 DEF JobLoadFails, Answered, ValuesInv, HasInv
<1>20. ASSUME NEW j \in Jobs, Stores(j) PROVE ValuesInv' /\ HasInv'
  BY <1>20 DEF Stores, ValuesInv, HasInv, AsksInv, PlacesInv
<1>21. ASSUME NEW j \in Jobs, Publishes(j) PROVE ValuesInv' /\ HasInv'
  <2>1. j \in Requests /\ has[j].registry \in Nat /\ asks[j].avatar \in Avatars
    BY <1>21 DEF Publishes, HasInv, AsksInv
  <2>2. \/ shelf[has[j].registry] \cup {asks[j].avatar} \in SUBSET Avatars
        \/ has[j].registry \notin 1..Len(shelf)
    BY <2>1, ElementOfSeq DEF ValuesInv
  <2>3. shelf' \in Seq(SUBSET Avatars) /\ Len(shelf') = Len(shelf)
    <3>1. CASE has[j].registry \in 1..Len(shelf)
      BY <1>21, <2>1, <2>2, <3>1, OneMore DEF Publishes, ValuesInv
    <3>2. CASE has[j].registry \notin 1..Len(shelf)
      <4>1. shelf' = shelf
        BY <1>21, <3>2 DEF Publishes, ValuesInv
      <4> QED BY <4>1 DEF ValuesInv
    <3> QED BY <3>1, <3>2
  <2> QED BY <1>21, <2>3 DEF Publishes, ValuesInv, HasInv
<1>22. ASSUME NEW j \in Jobs, Generates(j) PROVE ValuesInv' /\ HasInv'
  BY <1>22 DEF Generates, ValuesInv, HasInv
<1>23. ASSUME NEW j \in Jobs, IdleChecks(j) PROVE ValuesInv' /\ HasInv'
  BY <1>23 DEF IdleChecks, NoLive, ValuesInv, HasInv
<1>24. ASSUME NEW j \in Jobs, IdleTries(j) PROVE ValuesInv' /\ HasInv'
  BY <1>24 DEF IdleTries, ValuesInv, HasInv
<1>25. ASSUME NEW j \in Jobs, IdleStarts(j) PROVE ValuesInv' /\ HasInv'
  BY <1>25 DEF IdleStarts, NoLive, ValuesInv, HasInv
<1>26. ASSUME NEW j \in Jobs, IdleEnds(j) PROVE ValuesInv' /\ HasInv'
  BY <1>26 DEF IdleEnds, Reserved, ValuesInv, HasInv
<1>27. ASSUME NEW j \in Jobs, Trashes(j) PROVE ValuesInv' /\ HasInv'
  BY <1>27 DEF Trashes, ValuesInv, HasInv
<1>28. ASSUME NEW j \in Jobs, Forgets(j) PROVE ValuesInv' /\ HasInv'
  <2>1. j \in Requests /\ has[j].registry \in Nat
        /\ asks[j].avatar \in Avatars \ Bundled
    BY <1>28 DEF Forgets, HasInv, AsksInv
  <2>2. \/ shelf[has[j].registry] \ {asks[j].avatar} \in SUBSET Avatars
        \/ has[j].registry \notin 1..Len(shelf)
    BY <2>1, ElementOfSeq DEF ValuesInv
  <2>3. shelf' \in Seq(SUBSET Avatars) /\ Len(shelf') = Len(shelf)
    <3>1. CASE shelf' = shelf
      BY <3>1 DEF ValuesInv
    <3>2. CASE has[j].registry \in 1..Len(shelf) /\ shelf' # shelf
      BY <1>28, <2>1, <2>2, <3>2, OneMore DEF Forgets, ValuesInv
    <3>3. CASE has[j].registry \notin 1..Len(shelf)
      <4>1. shelf' = shelf
        BY <1>28, <3>3 DEF Forgets, ValuesInv
      <4> QED BY <4>1 DEF ValuesInv
    <3> QED BY <3>1, <3>2, <3>3
  <2>4. disk' \subseteq Avatars \ Bundled /\ stale' \subseteq Avatars
    BY <1>28, <2>1 DEF Forgets, ValuesInv
  <2> QED BY <1>28, <2>3, <2>4 DEF Forgets, ValuesInv, HasInv
<1>29. ASSUME NEW j \in Jobs, JobEnds(j) PROVE ValuesInv' /\ HasInv'
  BY <1>29 DEF JobEnds, Answered, ValuesInv, HasInv
<1>30. ASSUME NEW r \in Releases, ReleaseAsked(r) PROVE ValuesInv' /\ HasInv'
  BY <1>30 DEF ReleaseAsked, Comes, ValuesInv, HasInv
<1>31. ASSUME NEW r \in Releases, ReleaseWaits(r) PROVE ValuesInv' /\ HasInv'
  BY <1>31 DEF ReleaseWaits, ValuesInv, HasInv
<1>32. ASSUME NEW r \in Releases, ReleaseLocks(r) PROVE ValuesInv' /\ HasInv'
  BY <1>32 DEF ReleaseLocks, ValuesInv, HasInv
<1>33. ASSUME NEW r \in Releases, ReleaseChecks(r) PROVE ValuesInv' /\ HasInv'
  BY <1>33 DEF ReleaseChecks, ValuesInv, HasInv
<1>34. ASSUME NEW r \in Releases, ReleaseTries(r) PROVE ValuesInv' /\ HasInv'
  BY <1>34 DEF ReleaseTries, ValuesInv, HasInv
<1>35. ASSUME NEW r \in Releases, ReleaseStarts(r) PROVE ValuesInv' /\ HasInv'
  BY <1>35 DEF ReleaseStarts, ValuesInv, HasInv
<1>36. ASSUME NEW r \in Releases, Closes(r) PROVE ValuesInv' /\ HasInv'
  BY <1>36 DEF Closes, ValuesInv, HasInv
<1>37. ASSUME NEW r \in Releases, Clears(r) PROVE ValuesInv' /\ HasInv'
  <2> DEFINE cleared == [shelf EXCEPT ![registry] = {}]
  <2>1. cleared \in Seq(SUBSET Avatars) /\ Len(cleared) = Len(shelf)
    BY OneMore DEF ValuesInv
  <2>2. shelf' = Append(cleared, {})
    BY <1>37 DEF Clears
  <2> HIDE DEF cleared
  <2>3. /\ shelf' \in Seq(SUBSET Avatars) /\ Len(shelf') = Len(shelf) + 1
        /\ Len(shelf) \in Nat
    BY <2>1, <2>2, AppendProperties, LenProperties
  <2>4. UNCHANGED <<pipeline, samples, disk, met, stale, has>> /\ registry' = Len(shelf')
    BY <1>37 DEF Clears
  <2> QED BY <2>3, <2>4 DEF ValuesInv, HasInv
<1>38. ASSUME NEW r \in Releases, Drops(r) PROVE ValuesInv' /\ HasInv'
  BY <1>38 DEF Drops, ValuesInv, HasInv
<1>39. ASSUME NEW r \in Releases, ReleaseEnds(r) PROVE ValuesInv' /\ HasInv'
  BY <1>39 DEF ReleaseEnds, Answered, ValuesInv, HasInv
<1>40. CASE UNCHANGED vars
  BY <1>40 DEF vars, stateVars, lockVars, gateVars, assetVars, liveVars, ValuesInv, HasInv
<1> QED
  BY <1>1, <1>2, <1>3, <1>4, <1>5, <1>6, <1>7, <1>8, <1>9, <1>10, <1>11, <1>12, <1>13,
       <1>14, <1>15, <1>16, <1>17, <1>18, <1>19, <1>20, <1>21, <1>22, <1>23, <1>24, <1>25,
            <1>26, <1>27, <1>28, <1>29, <1>30, <1>31, <1>32, <1>33, <1>34, <1>35, <1>36,
                 <1>37, <1>38, <1>39, <1>40
     DEF Next, LiveStep, JobStep, ReleaseStep, Ensures, Terminated

\* A runtime being loaded stays apart from the one in use.
LEMMA LoadKept ==
  ASSUME PlacesInv, LocksInv, AsksInv, HasInv, ValuesInv, LoadInv,
       [Next]_vars PROVE LoadInv'
<1> USE RuntimeAssumption DEF Requests, Goes, stateVars, assetVars, liveVars, Empty
<1>1. ASSUME NEW t \in Lives \cup Jobs, FindsPipeline(t) PROVE LoadInv'
  BY <1>1 DEF FindsPipeline, PlacesInv, LocksInv, RuntimePlaces, HasInv, ValuesInv, LoadInv
<1>2. ASSUME NEW t \in Lives \cup Jobs, FindsRegistry(t) PROVE LoadInv'
  BY <1>2 DEF FindsRegistry, PlacesInv, LocksInv, RuntimePlaces, HasInv, ValuesInv, LoadInv
<1>3. ASSUME NEW t \in Lives \cup Jobs, GetsRuntime(t) PROVE LoadInv'
  BY <1>3 DEF GetsRuntime, PlacesInv, LocksInv, RuntimePlaces, HasInv, ValuesInv, LoadInv
<1>4. ASSUME NEW t \in Lives \cup Jobs, StartsLoading(t) PROVE LoadInv'
  <2> SUFFICES ASSUME NEW u \in Lives \cup Jobs, at'[u] \in {"loading", "restored"}
               PROVE  /\ pipeline' = 0 /\ has'[u].pipeline # 0
                      /\ has'[u].registry = has'[u].pipeline
                      /\ has'[u].registry # registry'
                      /\ \A k \in Jobs : at'[k] # "none" /\ asks'[k].kind = "delete" =>
                            has'[k].registry # has'[u].registry
    BY DEF LoadInv
  <2>1. u = t
    BY <1>4 DEF StartsLoading, PlacesInv, LocksInv, RuntimePlaces
  <2>2. Len(shelf') = Len(shelf) + 1 /\ Len(shelf) \in Nat
    BY <1>4, OneMore, LenProperties DEF StartsLoading, ValuesInv
  <2>3. has'[t].pipeline = Len(shelf') /\ has'[t].registry = Len(shelf')
    BY <1>4 DEF StartsLoading, HasInv
  <2>4. pipeline' = 0 /\ registry' \in 1..Len(shelf)
    BY <1>4 DEF StartsLoading, ValuesInv
  <2>5. ASSUME NEW k \in Jobs, at'[k] # "none", asks'[k].kind = "delete"
        PROVE  has'[k].registry \in 0..Len(shelf)
    <3>1. k # t
      BY <1>4, <2>5 DEF StartsLoading, AsksInv, PlacesInv
    <3> QED BY <1>4, <3>1 DEF StartsLoading, HasInv
  <2> QED BY <2>1, <2>2, <2>3, <2>4, <2>5
<1>5. ASSUME NEW t \in Lives \cup Jobs, Restores(t) PROVE LoadInv'
  BY <1>5 DEF Restores, PlacesInv, LocksInv, RuntimePlaces, HasInv, ValuesInv, LoadInv
<1>6. ASSUME NEW t \in Lives \cup Jobs, Installs(t) PROVE LoadInv'
  <2> SUFFICES ASSUME NEW u \in Lives \cup Jobs, at'[u] \in {"loading", "restored"}
               PROVE  /\ pipeline' = 0 /\ has'[u].pipeline # 0
                      /\ has'[u].registry = has'[u].pipeline
                      /\ has'[u].registry # registry'
                      /\ \A k \in Jobs : at'[k] # "none" /\ asks'[k].kind = "delete" =>
                            has'[k].registry # has'[u].registry
    BY DEF LoadInv
  <2>1. at'[t] = "ready" /\ u # t /\ at[u] = at'[u] /\ at[t] = "restored"
    BY <1>6 DEF Installs, PlacesInv
  <2>2. t \in Requests /\ u \in Requests /\ t \notin Releases /\ u \notin Releases
    OBVIOUS
  <2>3. runtimeLock = t
    BY <2>1, <2>2 DEF LocksInv, RuntimePlaces
  <2>4. runtimeLock = u
    BY <2>1, <2>2 DEF LocksInv, RuntimePlaces
  <2> QED BY <2>1, <2>3, <2>4
<1>7. ASSUME NEW l \in Lives, Reserve(l) PROVE LoadInv'
  BY <1>7 DEF Reserve, Comes, PlacesInv, LocksInv, RuntimePlaces, HasInv, ValuesInv, LoadInv
<1>8. ASSUME NEW l \in Lives, LiveLoadFails(l) PROVE LoadInv'
  BY <1>8 DEF LiveLoadFails, Leaves, Answered, PlacesInv, LocksInv, RuntimePlaces, HasInv,
       ValuesInv, LoadInv
<1>9. ASSUME NEW l \in Lives, Preflights(l) PROVE LoadInv'
  BY <1>9 DEF Preflights, PlacesInv, LocksInv, RuntimePlaces, HasInv, ValuesInv, LoadInv
<1>10. ASSUME NEW l \in Lives, PreflightStarts(l) PROVE LoadInv'
  BY <1>10 DEF PreflightStarts, PlacesInv, LocksInv, RuntimePlaces, HasInv, ValuesInv,
       LoadInv
<1>11. ASSUME NEW l \in Lives, PreflightEnds(l) PROVE LoadInv'
  BY <1>11 DEF PreflightEnds, PlacesInv, LocksInv, RuntimePlaces, HasInv, ValuesInv, LoadInv
<1>12. ASSUME NEW l \in Lives, LooksUp(l) PROVE LoadInv'
  BY <1>12 DEF LooksUp, PlacesInv, LocksInv, RuntimePlaces, HasInv, ValuesInv, LoadInv
<1>13. ASSUME NEW l \in Lives, LiveStops(l) PROVE LoadInv'
  BY <1>13 DEF LiveStops, Leaves, Answered, PlacesInv, LocksInv, RuntimePlaces, HasInv,
       ValuesInv, LoadInv
<1>14. ASSUME NEW l \in Lives, Submits(l) PROVE LoadInv'
  BY <1>14 DEF Submits, PlacesInv, LocksInv, RuntimePlaces, HasInv, ValuesInv, LoadInv
<1>15. ASSUME NEW l \in Lives, Renders(l) PROVE LoadInv'
  BY <1>15 DEF Renders, PlacesInv, LocksInv, RuntimePlaces, HasInv, ValuesInv, LoadInv
<1>16. ASSUME NEW l \in Lives, LiveEnds(l) PROVE LoadInv'
  BY <1>16 DEF LiveEnds, Leaves, Answered, PlacesInv, LocksInv, RuntimePlaces, HasInv,
       ValuesInv, LoadInv
<1>17. ASSUME NEW j \in Jobs, JobAsked(j) PROVE LoadInv'
  <2> SUFFICES ASSUME NEW u \in Lives \cup Jobs, at'[u] \in {"loading", "restored"}
               PROVE  /\ pipeline' = 0 /\ has'[u].pipeline # 0
                      /\ has'[u].registry = has'[u].pipeline
                      /\ has'[u].registry # registry'
                      /\ \A k \in Jobs : at'[k] # "none" /\ asks'[k].kind = "delete" =>
                            has'[k].registry # has'[u].registry
    BY DEF LoadInv
  <2>1. u # j /\ at[u] = at'[u] /\ has'[u] = has[u]
    BY <1>17 DEF JobAsked, PlacesInv, HasInv
  <2>2. has[u].registry # registry /\ UNCHANGED <<pipeline, registry>>
    BY <1>17, <2>1 DEF JobAsked, LoadInv
  <2>3. ASSUME NEW k \in Jobs, at'[k] # "none", asks'[k].kind = "delete"
        PROVE  has'[k].registry # has[u].registry
    <3>1. CASE k = j
      BY <1>17, <2>2, <2>3, <3>1 DEF JobAsked, HasInv, AsksInv
    <3>2. CASE k # j
      BY <1>17, <2>1, <2>3, <3>2 DEF JobAsked, HasInv, AsksInv, PlacesInv, LoadInv
    <3> QED BY <3>1, <3>2
  <2> QED BY <2>1, <2>2, <2>3 DEF LoadInv
<1>18. ASSUME NEW j \in Jobs, JobStarts(j) PROVE LoadInv'
  BY <1>18 DEF JobStarts, PlacesInv, LocksInv, RuntimePlaces, HasInv, ValuesInv, LoadInv
<1>19. ASSUME NEW j \in Jobs, JobLoadFails(j) PROVE LoadInv'
  BY <1>19 DEF JobLoadFails, Answered, PlacesInv, LocksInv, RuntimePlaces, HasInv,
       ValuesInv, LoadInv
<1>20. ASSUME NEW j \in Jobs, Stores(j) PROVE LoadInv'
  BY <1>20 DEF Stores, PlacesInv, LocksInv, RuntimePlaces, HasInv, ValuesInv, LoadInv
<1>21. ASSUME NEW j \in Jobs, Publishes(j) PROVE LoadInv'
  BY <1>21 DEF Publishes, PlacesInv, LocksInv, RuntimePlaces, HasInv, ValuesInv, LoadInv
<1>22. ASSUME NEW j \in Jobs, Generates(j) PROVE LoadInv'
  BY <1>22 DEF Generates, PlacesInv, LocksInv, RuntimePlaces, HasInv, ValuesInv, LoadInv
<1>23. ASSUME NEW j \in Jobs, IdleChecks(j) PROVE LoadInv'
  BY <1>23 DEF IdleChecks, NoLive, PlacesInv, LocksInv, RuntimePlaces, HasInv, ValuesInv,
       LoadInv
<1>24. ASSUME NEW j \in Jobs, IdleTries(j) PROVE LoadInv'
  BY <1>24 DEF IdleTries, PlacesInv, LocksInv, RuntimePlaces, HasInv, ValuesInv, LoadInv
<1>25. ASSUME NEW j \in Jobs, IdleStarts(j) PROVE LoadInv'
  BY <1>25 DEF IdleStarts, NoLive, PlacesInv, LocksInv, RuntimePlaces, HasInv, ValuesInv,
       LoadInv
<1>26. ASSUME NEW j \in Jobs, IdleEnds(j) PROVE LoadInv'
  BY <1>26 DEF IdleEnds, Reserved, PlacesInv, LocksInv, RuntimePlaces, HasInv, ValuesInv,
       LoadInv
<1>27. ASSUME NEW j \in Jobs, Trashes(j) PROVE LoadInv'
  BY <1>27 DEF Trashes, PlacesInv, LocksInv, RuntimePlaces, HasInv, ValuesInv, LoadInv
<1>28. ASSUME NEW j \in Jobs, Forgets(j) PROVE LoadInv'
  BY <1>28 DEF Forgets, Outdated, PlacesInv, LocksInv, RuntimePlaces, HasInv, ValuesInv,
       LoadInv
<1>29. ASSUME NEW j \in Jobs, JobEnds(j) PROVE LoadInv'
  BY <1>29 DEF JobEnds, Answered, PlacesInv, LocksInv, RuntimePlaces, HasInv, ValuesInv,
       LoadInv
<1>30. ASSUME NEW r \in Releases, ReleaseAsked(r) PROVE LoadInv'
  BY <1>30 DEF ReleaseAsked, Comes, PlacesInv, LocksInv, RuntimePlaces, HasInv, ValuesInv,
       LoadInv
<1>31. ASSUME NEW r \in Releases, ReleaseWaits(r) PROVE LoadInv'
  BY <1>31 DEF ReleaseWaits, PlacesInv, LocksInv, RuntimePlaces, HasInv, ValuesInv, LoadInv
<1>32. ASSUME NEW r \in Releases, ReleaseLocks(r) PROVE LoadInv'
  BY <1>32 DEF ReleaseLocks, PlacesInv, LocksInv, RuntimePlaces, HasInv, ValuesInv, LoadInv
<1>33. ASSUME NEW r \in Releases, ReleaseChecks(r) PROVE LoadInv'
  BY <1>33 DEF ReleaseChecks, PlacesInv, LocksInv, RuntimePlaces, HasInv, ValuesInv, LoadInv
<1>34. ASSUME NEW r \in Releases, ReleaseTries(r) PROVE LoadInv'
  BY <1>34 DEF ReleaseTries, PlacesInv, LocksInv, RuntimePlaces, HasInv, ValuesInv, LoadInv
<1>35. ASSUME NEW r \in Releases, ReleaseStarts(r) PROVE LoadInv'
  BY <1>35 DEF ReleaseStarts, PlacesInv, LocksInv, RuntimePlaces, HasInv, ValuesInv, LoadInv
<1>36. ASSUME NEW r \in Releases, Closes(r) PROVE LoadInv'
  BY <1>36 DEF Closes, PlacesInv, LocksInv, RuntimePlaces, HasInv, ValuesInv, LoadInv
<1>37. ASSUME NEW r \in Releases, Clears(r) PROVE LoadInv'
  BY <1>37 DEF Clears, PlacesInv, LocksInv, RuntimePlaces, HasInv, ValuesInv, LoadInv
<1>38. ASSUME NEW r \in Releases, Drops(r) PROVE LoadInv'
  BY <1>38 DEF Drops, PlacesInv, LocksInv, RuntimePlaces, HasInv, ValuesInv, LoadInv
<1>39. ASSUME NEW r \in Releases, ReleaseEnds(r) PROVE LoadInv'
  BY <1>39 DEF ReleaseEnds, Answered, PlacesInv, LocksInv, RuntimePlaces, HasInv,
       ValuesInv, LoadInv
<1>40. CASE UNCHANGED vars
  BY <1>40 DEF vars, stateVars, lockVars, gateVars, assetVars, liveVars, PlacesInv,
       LocksInv, RuntimePlaces, HasInv, ValuesInv, LoadInv
<1> QED
  BY <1>1, <1>2, <1>3, <1>4, <1>5, <1>6, <1>7, <1>8, <1>9, <1>10, <1>11, <1>12, <1>13,
       <1>14, <1>15, <1>16, <1>17, <1>18, <1>19, <1>20, <1>21, <1>22, <1>23, <1>24, <1>25,
            <1>26, <1>27, <1>28, <1>29, <1>30, <1>31, <1>32, <1>33, <1>34, <1>35, <1>36,
                 <1>37, <1>38, <1>39, <1>40
     DEF Next, LiveStep, JobStep, ReleaseStep, Ensures, Terminated

\* pipeline, registry and samples change together as far as one can tell.
LEMMA SyncKept ==
  ASSUME PlacesInv, LocksInv, LoadInv, SyncInv, [Next]_vars PROVE SyncInv'
<1> USE RuntimeAssumption DEF Requests, Goes, stateVars, assetVars, liveVars, ReleasePlaces
<1>1. ASSUME NEW t \in Lives \cup Jobs, FindsPipeline(t) PROVE SyncInv'
  BY <1>1 DEF FindsPipeline, PlacesInv, LocksInv, RuntimePlaces, LoadInv, SyncInv
<1>2. ASSUME NEW t \in Lives \cup Jobs, FindsRegistry(t) PROVE SyncInv'
  BY <1>2 DEF FindsRegistry, PlacesInv, LocksInv, RuntimePlaces, LoadInv, SyncInv
<1>3. ASSUME NEW t \in Lives \cup Jobs, GetsRuntime(t) PROVE SyncInv'
  BY <1>3 DEF GetsRuntime, PlacesInv, LocksInv, RuntimePlaces, LoadInv, SyncInv
<1>4. ASSUME NEW t \in Lives \cup Jobs, StartsLoading(t) PROVE SyncInv'
  BY <1>4 DEF StartsLoading, PlacesInv, LocksInv, RuntimePlaces, LoadInv, SyncInv
<1>5. ASSUME NEW t \in Lives \cup Jobs, Restores(t) PROVE SyncInv'
  BY <1>5 DEF Restores, PlacesInv, LocksInv, RuntimePlaces, LoadInv, SyncInv
<1>6. ASSUME NEW t \in Lives \cup Jobs, Installs(t) PROVE SyncInv'
  BY <1>6 DEF Installs, PlacesInv, LocksInv, RuntimePlaces, LoadInv, SyncInv
<1>7. ASSUME NEW l \in Lives, Reserve(l) PROVE SyncInv'
  BY <1>7 DEF Reserve, Comes, PlacesInv, LocksInv, RuntimePlaces, LoadInv, SyncInv
<1>8. ASSUME NEW l \in Lives, LiveLoadFails(l) PROVE SyncInv'
  BY <1>8 DEF LiveLoadFails, Leaves, Answered, PlacesInv, LocksInv, RuntimePlaces, LoadInv,
       SyncInv
<1>9. ASSUME NEW l \in Lives, Preflights(l) PROVE SyncInv'
  BY <1>9 DEF Preflights, PlacesInv, LocksInv, RuntimePlaces, LoadInv, SyncInv
<1>10. ASSUME NEW l \in Lives, PreflightStarts(l) PROVE SyncInv'
  BY <1>10 DEF PreflightStarts, PlacesInv, LocksInv, RuntimePlaces, LoadInv, SyncInv
<1>11. ASSUME NEW l \in Lives, PreflightEnds(l) PROVE SyncInv'
  BY <1>11 DEF PreflightEnds, PlacesInv, LocksInv, RuntimePlaces, LoadInv, SyncInv
<1>12. ASSUME NEW l \in Lives, LooksUp(l) PROVE SyncInv'
  BY <1>12 DEF LooksUp, PlacesInv, LocksInv, RuntimePlaces, LoadInv, SyncInv
<1>13. ASSUME NEW l \in Lives, LiveStops(l) PROVE SyncInv'
  BY <1>13 DEF LiveStops, Leaves, Answered, PlacesInv, LocksInv, RuntimePlaces, LoadInv,
       SyncInv
<1>14. ASSUME NEW l \in Lives, Submits(l) PROVE SyncInv'
  BY <1>14 DEF Submits, PlacesInv, LocksInv, RuntimePlaces, LoadInv, SyncInv
<1>15. ASSUME NEW l \in Lives, Renders(l) PROVE SyncInv'
  BY <1>15 DEF Renders, PlacesInv, LocksInv, RuntimePlaces, LoadInv, SyncInv
<1>16. ASSUME NEW l \in Lives, LiveEnds(l) PROVE SyncInv'
  BY <1>16 DEF LiveEnds, Leaves, Answered, PlacesInv, LocksInv, RuntimePlaces, LoadInv,
       SyncInv
<1>17. ASSUME NEW j \in Jobs, JobAsked(j) PROVE SyncInv'
  BY <1>17 DEF JobAsked, Comes, PlacesInv, LocksInv, RuntimePlaces, LoadInv, SyncInv
<1>18. ASSUME NEW j \in Jobs, JobStarts(j) PROVE SyncInv'
  BY <1>18 DEF JobStarts, PlacesInv, LocksInv, RuntimePlaces, LoadInv, SyncInv
<1>19. ASSUME NEW j \in Jobs, JobLoadFails(j) PROVE SyncInv'
  BY <1>19 DEF JobLoadFails, Answered, PlacesInv, LocksInv, RuntimePlaces, LoadInv, SyncInv
<1>20. ASSUME NEW j \in Jobs, Stores(j) PROVE SyncInv'
  BY <1>20 DEF Stores, PlacesInv, LocksInv, RuntimePlaces, LoadInv, SyncInv
<1>21. ASSUME NEW j \in Jobs, Publishes(j) PROVE SyncInv'
  BY <1>21 DEF Publishes, PlacesInv, LocksInv, RuntimePlaces, LoadInv, SyncInv
<1>22. ASSUME NEW j \in Jobs, Generates(j) PROVE SyncInv'
  BY <1>22 DEF Generates, PlacesInv, LocksInv, RuntimePlaces, LoadInv, SyncInv
<1>23. ASSUME NEW j \in Jobs, IdleChecks(j) PROVE SyncInv'
  BY <1>23 DEF IdleChecks, NoLive, PlacesInv, LocksInv, RuntimePlaces, LoadInv, SyncInv
<1>24. ASSUME NEW j \in Jobs, IdleTries(j) PROVE SyncInv'
  BY <1>24 DEF IdleTries, PlacesInv, LocksInv, RuntimePlaces, LoadInv, SyncInv
<1>25. ASSUME NEW j \in Jobs, IdleStarts(j) PROVE SyncInv'
  BY <1>25 DEF IdleStarts, NoLive, PlacesInv, LocksInv, RuntimePlaces, LoadInv, SyncInv
<1>26. ASSUME NEW j \in Jobs, IdleEnds(j) PROVE SyncInv'
  BY <1>26 DEF IdleEnds, Reserved, PlacesInv, LocksInv, RuntimePlaces, LoadInv, SyncInv
<1>27. ASSUME NEW j \in Jobs, Trashes(j) PROVE SyncInv'
  BY <1>27 DEF Trashes, PlacesInv, LocksInv, RuntimePlaces, LoadInv, SyncInv
<1>28. ASSUME NEW j \in Jobs, Forgets(j) PROVE SyncInv'
  BY <1>28 DEF Forgets, Outdated, PlacesInv, LocksInv, RuntimePlaces, LoadInv, SyncInv
<1>29. ASSUME NEW j \in Jobs, JobEnds(j) PROVE SyncInv'
  BY <1>29 DEF JobEnds, Answered, PlacesInv, LocksInv, RuntimePlaces, LoadInv, SyncInv
<1>30. ASSUME NEW r \in Releases, ReleaseAsked(r) PROVE SyncInv'
  BY <1>30 DEF ReleaseAsked, Comes, PlacesInv, LocksInv, RuntimePlaces, LoadInv, SyncInv
<1>31. ASSUME NEW r \in Releases, ReleaseWaits(r) PROVE SyncInv'
  BY <1>31 DEF ReleaseWaits, PlacesInv, LocksInv, RuntimePlaces, LoadInv, SyncInv
<1>32. ASSUME NEW r \in Releases, ReleaseLocks(r) PROVE SyncInv'
  BY <1>32 DEF ReleaseLocks, PlacesInv, LocksInv, RuntimePlaces, LoadInv, SyncInv
<1>33. ASSUME NEW r \in Releases, ReleaseChecks(r) PROVE SyncInv'
  BY <1>33 DEF ReleaseChecks, PlacesInv, LocksInv, RuntimePlaces, LoadInv, SyncInv
<1>34. ASSUME NEW r \in Releases, ReleaseTries(r) PROVE SyncInv'
  BY <1>34 DEF ReleaseTries, PlacesInv, LocksInv, RuntimePlaces, LoadInv, SyncInv
<1>35. ASSUME NEW r \in Releases, ReleaseStarts(r) PROVE SyncInv'
  BY <1>35 DEF ReleaseStarts, PlacesInv, LocksInv, RuntimePlaces, LoadInv, SyncInv
<1>36. ASSUME NEW r \in Releases, Closes(r) PROVE SyncInv'
  BY <1>36 DEF Closes, PlacesInv, LocksInv, RuntimePlaces, LoadInv, SyncInv
<1>37. ASSUME NEW r \in Releases, Clears(r) PROVE SyncInv'
  BY <1>37 DEF Clears, PlacesInv, LocksInv, RuntimePlaces, LoadInv, SyncInv
<1>38. ASSUME NEW r \in Releases, Drops(r) PROVE SyncInv'
  BY <1>38 DEF Drops, PlacesInv, LocksInv, RuntimePlaces, LoadInv, SyncInv
<1>39. ASSUME NEW r \in Releases, ReleaseEnds(r) PROVE SyncInv'
  BY <1>39 DEF ReleaseEnds, Answered, PlacesInv, LocksInv, RuntimePlaces, LoadInv, SyncInv
<1>40. CASE UNCHANGED vars
  BY <1>40 DEF vars, stateVars, lockVars, gateVars, assetVars, liveVars, PlacesInv,
       LocksInv, RuntimePlaces, LoadInv, SyncInv
<1> QED
  BY <1>1, <1>2, <1>3, <1>4, <1>5, <1>6, <1>7, <1>8, <1>9, <1>10, <1>11, <1>12, <1>13,
       <1>14, <1>15, <1>16, <1>17, <1>18, <1>19, <1>20, <1>21, <1>22, <1>23, <1>24, <1>25,
            <1>26, <1>27, <1>28, <1>29, <1>30, <1>31, <1>32, <1>33, <1>34, <1>35, <1>36,
                 <1>37, <1>38, <1>39, <1>40
     DEF Next, LiveStep, JobStep, ReleaseStep, Ensures, Terminated

\* Who comes while a release closes the pipeline is in met.
LEMMA MetKept ==
  ASSUME PlacesInv, LocksInv, ActiveInv, MetInv, [Next]_vars PROVE MetInv'
<1> USE RuntimeAssumption DEF Requests, Goes, assetVars, liveVars, LivePlaces, JobPlaces,
     ReleasePlaces
<1>1. ASSUME NEW t \in Lives \cup Jobs, FindsPipeline(t) PROVE MetInv'
  BY <1>1 DEF FindsPipeline, PlacesInv, MetInv
<1>2. ASSUME NEW t \in Lives \cup Jobs, FindsRegistry(t) PROVE MetInv'
  BY <1>2 DEF FindsRegistry, PlacesInv, MetInv
<1>3. ASSUME NEW t \in Lives \cup Jobs, GetsRuntime(t) PROVE MetInv'
  BY <1>3 DEF GetsRuntime, PlacesInv, MetInv
<1>4. ASSUME NEW t \in Lives \cup Jobs, StartsLoading(t) PROVE MetInv'
  BY <1>4 DEF StartsLoading, PlacesInv, MetInv
<1>5. ASSUME NEW t \in Lives \cup Jobs, Restores(t) PROVE MetInv'
  BY <1>5 DEF Restores, PlacesInv, MetInv
<1>6. ASSUME NEW t \in Lives \cup Jobs, Installs(t) PROVE MetInv'
  BY <1>6 DEF Installs, PlacesInv, MetInv
<1>7. ASSUME NEW l \in Lives, Reserve(l) PROVE MetInv'
  BY <1>7 DEF Reserve, Comes, PlacesInv, MetInv
<1>8. ASSUME NEW l \in Lives, LiveLoadFails(l) PROVE MetInv'
  BY <1>8 DEF LiveLoadFails, Leaves, Answered, PlacesInv, MetInv
<1>9. ASSUME NEW l \in Lives, Preflights(l) PROVE MetInv'
  BY <1>9 DEF Preflights, PlacesInv, MetInv
<1>10. ASSUME NEW l \in Lives, PreflightStarts(l) PROVE MetInv'
  BY <1>10 DEF PreflightStarts, PlacesInv, MetInv
<1>11. ASSUME NEW l \in Lives, PreflightEnds(l) PROVE MetInv'
  BY <1>11 DEF PreflightEnds, PlacesInv, MetInv
<1>12. ASSUME NEW l \in Lives, LooksUp(l) PROVE MetInv'
  BY <1>12 DEF LooksUp, PlacesInv, MetInv
<1>13. ASSUME NEW l \in Lives, LiveStops(l) PROVE MetInv'
  BY <1>13 DEF LiveStops, Leaves, Answered, PlacesInv, MetInv
<1>14. ASSUME NEW l \in Lives, Submits(l) PROVE MetInv'
  BY <1>14 DEF Submits, PlacesInv, MetInv
<1>15. ASSUME NEW l \in Lives, Renders(l) PROVE MetInv'
  BY <1>15 DEF Renders, PlacesInv, MetInv
<1>16. ASSUME NEW l \in Lives, LiveEnds(l) PROVE MetInv'
  BY <1>16 DEF LiveEnds, Leaves, Answered, PlacesInv, MetInv
<1>17. ASSUME NEW j \in Jobs, JobAsked(j) PROVE MetInv'
  BY <1>17 DEF JobAsked, Comes, PlacesInv, MetInv
<1>18. ASSUME NEW j \in Jobs, JobStarts(j) PROVE MetInv'
  BY <1>18 DEF JobStarts, PlacesInv, MetInv
<1>19. ASSUME NEW j \in Jobs, JobLoadFails(j) PROVE MetInv'
  BY <1>19 DEF JobLoadFails, Answered, PlacesInv, MetInv
<1>20. ASSUME NEW j \in Jobs, Stores(j) PROVE MetInv'
  BY <1>20 DEF Stores, PlacesInv, MetInv
<1>21. ASSUME NEW j \in Jobs, Publishes(j) PROVE MetInv'
  BY <1>21 DEF Publishes, PlacesInv, MetInv
<1>22. ASSUME NEW j \in Jobs, Generates(j) PROVE MetInv'
  BY <1>22 DEF Generates, PlacesInv, MetInv
<1>23. ASSUME NEW j \in Jobs, IdleChecks(j) PROVE MetInv'
  BY <1>23 DEF IdleChecks, NoLive, PlacesInv, MetInv
<1>24. ASSUME NEW j \in Jobs, IdleTries(j) PROVE MetInv'
  BY <1>24 DEF IdleTries, PlacesInv, MetInv
<1>25. ASSUME NEW j \in Jobs, IdleStarts(j) PROVE MetInv'
  BY <1>25 DEF IdleStarts, NoLive, PlacesInv, MetInv
<1>26. ASSUME NEW j \in Jobs, IdleEnds(j) PROVE MetInv'
  BY <1>26 DEF IdleEnds, Reserved, PlacesInv, MetInv
<1>27. ASSUME NEW j \in Jobs, Trashes(j) PROVE MetInv'
  BY <1>27 DEF Trashes, PlacesInv, MetInv
<1>28. ASSUME NEW j \in Jobs, Forgets(j) PROVE MetInv'
  BY <1>28 DEF Forgets, Outdated, PlacesInv, MetInv
<1>29. ASSUME NEW j \in Jobs, JobEnds(j) PROVE MetInv'
  BY <1>29 DEF JobEnds, Answered, PlacesInv, MetInv
<1>30. ASSUME NEW r \in Releases, ReleaseAsked(r) PROVE MetInv'
  BY <1>30 DEF ReleaseAsked, Comes, PlacesInv, MetInv
<1>31. ASSUME NEW r \in Releases, ReleaseWaits(r) PROVE MetInv'
  BY <1>31 DEF ReleaseWaits, PlacesInv, MetInv
<1>32. ASSUME NEW r \in Releases, ReleaseLocks(r) PROVE MetInv'
  BY <1>32 DEF ReleaseLocks, PlacesInv, MetInv
<1>33. ASSUME NEW r \in Releases, ReleaseChecks(r) PROVE MetInv'
  BY <1>33 DEF ReleaseChecks, PlacesInv, MetInv
<1>34. ASSUME NEW r \in Releases, ReleaseTries(r) PROVE MetInv'
  BY <1>34 DEF ReleaseTries, PlacesInv, MetInv
<1>35. ASSUME NEW r \in Releases, ReleaseStarts(r) PROVE MetInv'
  BY <1>35, NobodyPresent DEF ReleaseStarts, MetInv, PlacesInv
<1>36. ASSUME NEW r \in Releases, Closes(r) PROVE MetInv'
  BY <1>36 DEF Closes, PlacesInv, MetInv
<1>37. ASSUME NEW r \in Releases, Clears(r) PROVE MetInv'
  BY <1>37 DEF Clears, PlacesInv, MetInv
<1>38. ASSUME NEW r \in Releases, Drops(r) PROVE MetInv'
  BY <1>38 DEF Drops, PlacesInv, MetInv
<1>39. ASSUME NEW r \in Releases, ReleaseEnds(r) PROVE MetInv'
  BY <1>39 DEF ReleaseEnds, Answered, PlacesInv, MetInv
<1>40. CASE UNCHANGED vars
  BY <1>40 DEF vars, stateVars, lockVars, gateVars, assetVars, liveVars, PlacesInv, MetInv
<1> QED
  BY <1>1, <1>2, <1>3, <1>4, <1>5, <1>6, <1>7, <1>8, <1>9, <1>10, <1>11, <1>12, <1>13,
       <1>14, <1>15, <1>16, <1>17, <1>18, <1>19, <1>20, <1>21, <1>22, <1>23, <1>24, <1>25,
            <1>26, <1>27, <1>28, <1>29, <1>30, <1>31, <1>32, <1>33, <1>34, <1>35, <1>36,
                 <1>37, <1>38, <1>39, <1>40
     DEF Next, LiveStep, JobStep, ReleaseStep, Ensures, Terminated

\* A request that works keeps the runtime it works with.
LEMMA KeptKept ==
  ASSUME PlacesInv, LocksInv, HasInv, LoadInv, SyncInv, MetInv, KeptInv,
       [Next]_vars PROVE KeptInv'
<1> USE RuntimeAssumption DEF Requests, Goes, stateVars, assetVars, liveVars, JobPlaces,
     ReleasePlaces, Empty
<1>1. ASSUME NEW t \in Lives \cup Jobs, FindsPipeline(t) PROVE KeptInv'
  BY <1>1 DEF FindsPipeline, PlacesInv, LocksInv, UserPlaces, HasInv, LoadInv, SyncInv,
       MetInv, KeptInv, Working, InUse
<1>2. ASSUME NEW t \in Lives \cup Jobs, FindsRegistry(t) PROVE KeptInv'
  BY <1>2 DEF FindsRegistry, PlacesInv, LocksInv, UserPlaces, HasInv, LoadInv, SyncInv,
       MetInv, KeptInv, Working, InUse
<1>3. ASSUME NEW t \in Lives \cup Jobs, GetsRuntime(t) PROVE KeptInv'
  BY <1>3 DEF GetsRuntime, PlacesInv, LocksInv, UserPlaces, HasInv, LoadInv, SyncInv,
       MetInv, KeptInv, Working, InUse
<1>4. ASSUME NEW t \in Lives \cup Jobs, StartsLoading(t) PROVE KeptInv'
  BY <1>4 DEF StartsLoading, PlacesInv, LocksInv, UserPlaces, HasInv, LoadInv, SyncInv,
       MetInv, KeptInv, Working, InUse
<1>5. ASSUME NEW t \in Lives \cup Jobs, Restores(t) PROVE KeptInv'
  BY <1>5 DEF Restores, PlacesInv, LocksInv, UserPlaces, HasInv, LoadInv, SyncInv, MetInv,
       KeptInv, Working, InUse
<1>6. ASSUME NEW t \in Lives \cup Jobs, Installs(t) PROVE KeptInv'
  BY <1>6 DEF Installs, PlacesInv, LocksInv, UserPlaces, HasInv, LoadInv, SyncInv, MetInv,
       KeptInv, Working, InUse
<1>7. ASSUME NEW l \in Lives, Reserve(l) PROVE KeptInv'
  BY <1>7 DEF Reserve, Comes, PlacesInv, LocksInv, UserPlaces, HasInv, LoadInv, SyncInv,
       MetInv, KeptInv, Working, InUse
<1>8. ASSUME NEW l \in Lives, LiveLoadFails(l) PROVE KeptInv'
  BY <1>8 DEF LiveLoadFails, Leaves, Answered, PlacesInv, LocksInv, UserPlaces, HasInv,
       LoadInv, SyncInv, MetInv, KeptInv, Working, InUse
<1>9. ASSUME NEW l \in Lives, Preflights(l) PROVE KeptInv'
  BY <1>9 DEF Preflights, PlacesInv, LocksInv, UserPlaces, HasInv, LoadInv, SyncInv,
       MetInv, KeptInv, Working, InUse
<1>10. ASSUME NEW l \in Lives, PreflightStarts(l) PROVE KeptInv'
  BY <1>10 DEF PreflightStarts, PlacesInv, LocksInv, UserPlaces, HasInv, LoadInv, SyncInv,
       MetInv, KeptInv, Working, InUse
<1>11. ASSUME NEW l \in Lives, PreflightEnds(l) PROVE KeptInv'
  BY <1>11 DEF PreflightEnds, PlacesInv, LocksInv, UserPlaces, HasInv, LoadInv, SyncInv,
       MetInv, KeptInv, Working, InUse
<1>12. ASSUME NEW l \in Lives, LooksUp(l) PROVE KeptInv'
  BY <1>12 DEF LooksUp, PlacesInv, LocksInv, UserPlaces, HasInv, LoadInv, SyncInv, MetInv,
       KeptInv, Working, InUse
<1>13. ASSUME NEW l \in Lives, LiveStops(l) PROVE KeptInv'
  BY <1>13 DEF LiveStops, Leaves, Answered, PlacesInv, LocksInv, UserPlaces, HasInv,
       LoadInv, SyncInv, MetInv, KeptInv, Working, InUse
<1>14. ASSUME NEW l \in Lives, Submits(l) PROVE KeptInv'
  BY <1>14 DEF Submits, PlacesInv, LocksInv, UserPlaces, HasInv, LoadInv, SyncInv, MetInv,
       KeptInv, Working, InUse
<1>15. ASSUME NEW l \in Lives, Renders(l) PROVE KeptInv'
  BY <1>15 DEF Renders, PlacesInv, LocksInv, UserPlaces, HasInv, LoadInv, SyncInv, MetInv,
       KeptInv, Working, InUse
<1>16. ASSUME NEW l \in Lives, LiveEnds(l) PROVE KeptInv'
  BY <1>16 DEF LiveEnds, Leaves, Answered, PlacesInv, LocksInv, UserPlaces, HasInv,
       LoadInv, SyncInv, MetInv, KeptInv, Working, InUse
<1>17. ASSUME NEW j \in Jobs, JobAsked(j) PROVE KeptInv'
  BY <1>17 DEF JobAsked, Comes, PlacesInv, LocksInv, UserPlaces, HasInv, LoadInv, SyncInv,
       MetInv, KeptInv, Working, InUse
<1>18. ASSUME NEW j \in Jobs, JobStarts(j) PROVE KeptInv'
  BY <1>18 DEF JobStarts, PlacesInv, LocksInv, UserPlaces, HasInv, LoadInv, SyncInv,
       MetInv, KeptInv, Working, InUse
<1>19. ASSUME NEW j \in Jobs, JobLoadFails(j) PROVE KeptInv'
  BY <1>19 DEF JobLoadFails, Answered, PlacesInv, LocksInv, UserPlaces, HasInv, LoadInv,
       SyncInv, MetInv, KeptInv, Working, InUse
<1>20. ASSUME NEW j \in Jobs, Stores(j) PROVE KeptInv'
  BY <1>20 DEF Stores, PlacesInv, LocksInv, UserPlaces, HasInv, LoadInv, SyncInv, MetInv,
       KeptInv, Working, InUse
<1>21. ASSUME NEW j \in Jobs, Publishes(j) PROVE KeptInv'
  BY <1>21 DEF Publishes, PlacesInv, LocksInv, UserPlaces, HasInv, LoadInv, SyncInv,
       MetInv, KeptInv, Working, InUse
<1>22. ASSUME NEW j \in Jobs, Generates(j) PROVE KeptInv'
  BY <1>22 DEF Generates, PlacesInv, LocksInv, UserPlaces, HasInv, LoadInv, SyncInv,
       MetInv, KeptInv, Working, InUse
<1>23. ASSUME NEW j \in Jobs, IdleChecks(j) PROVE KeptInv'
  BY <1>23 DEF IdleChecks, NoLive, PlacesInv, LocksInv, UserPlaces, HasInv, LoadInv,
       SyncInv, MetInv, KeptInv, Working, InUse
<1>24. ASSUME NEW j \in Jobs, IdleTries(j) PROVE KeptInv'
  BY <1>24 DEF IdleTries, PlacesInv, LocksInv, UserPlaces, HasInv, LoadInv, SyncInv,
       MetInv, KeptInv, Working, InUse
<1>25. ASSUME NEW j \in Jobs, IdleStarts(j) PROVE KeptInv'
  BY <1>25 DEF IdleStarts, NoLive, PlacesInv, LocksInv, UserPlaces, HasInv, LoadInv,
       SyncInv, MetInv, KeptInv, Working, InUse
<1>26. ASSUME NEW j \in Jobs, IdleEnds(j) PROVE KeptInv'
  BY <1>26 DEF IdleEnds, Reserved, PlacesInv, LocksInv, UserPlaces, HasInv, LoadInv,
       SyncInv, MetInv, KeptInv, Working, InUse
<1>27. ASSUME NEW j \in Jobs, Trashes(j) PROVE KeptInv'
  BY <1>27 DEF Trashes, PlacesInv, LocksInv, UserPlaces, HasInv, LoadInv, SyncInv, MetInv,
       KeptInv, Working, InUse
<1>28. ASSUME NEW j \in Jobs, Forgets(j) PROVE KeptInv'
  BY <1>28 DEF Forgets, Outdated, PlacesInv, LocksInv, UserPlaces, HasInv, LoadInv,
       SyncInv, MetInv, KeptInv, Working, InUse
<1>29. ASSUME NEW j \in Jobs, JobEnds(j) PROVE KeptInv'
  BY <1>29 DEF JobEnds, Answered, PlacesInv, LocksInv, UserPlaces, HasInv, LoadInv,
       SyncInv, MetInv, KeptInv, Working, InUse
<1>30. ASSUME NEW r \in Releases, ReleaseAsked(r) PROVE KeptInv'
  BY <1>30 DEF ReleaseAsked, Comes, PlacesInv, LocksInv, UserPlaces, HasInv, LoadInv,
       SyncInv, MetInv, KeptInv, Working, InUse
<1>31. ASSUME NEW r \in Releases, ReleaseWaits(r) PROVE KeptInv'
  BY <1>31 DEF ReleaseWaits, PlacesInv, LocksInv, UserPlaces, HasInv, LoadInv, SyncInv,
       MetInv, KeptInv, Working, InUse
<1>32. ASSUME NEW r \in Releases, ReleaseLocks(r) PROVE KeptInv'
  BY <1>32 DEF ReleaseLocks, PlacesInv, LocksInv, UserPlaces, HasInv, LoadInv, SyncInv,
       MetInv, KeptInv, Working, InUse
<1>33. ASSUME NEW r \in Releases, ReleaseChecks(r) PROVE KeptInv'
  BY <1>33 DEF ReleaseChecks, PlacesInv, LocksInv, UserPlaces, HasInv, LoadInv, SyncInv,
       MetInv, KeptInv, Working, InUse
<1>34. ASSUME NEW r \in Releases, ReleaseTries(r) PROVE KeptInv'
  BY <1>34 DEF ReleaseTries, PlacesInv, LocksInv, UserPlaces, HasInv, LoadInv, SyncInv,
       MetInv, KeptInv, Working, InUse
<1>35. ASSUME NEW r \in Releases, ReleaseStarts(r) PROVE KeptInv'
  BY <1>35 DEF ReleaseStarts, PlacesInv, LocksInv, UserPlaces, HasInv, LoadInv, SyncInv,
       MetInv, KeptInv, Working, InUse
<1>36. ASSUME NEW r \in Releases, Closes(r) PROVE KeptInv'
  <2>1. ASSUME NEW l \in Lives \ met PROVE at[l] = "none" /\ at'[l] = "none"
    BY <1>36, <2>1 DEF Closes, MetInv, PlacesInv
  <2>2. ASSUME NEW j \in Jobs PROVE at[j] \in {"none", "waiting"} /\ at'[j] = at[j]
    BY <1>36, <2>2 DEF Closes, LocksInv, UserPlaces, PlacesInv
  <2>3. met' = met
    BY <1>36 DEF Closes
  <2> QED BY <2>1, <2>2, <2>3 DEF KeptInv, Working
<1>37. ASSUME NEW r \in Releases, Clears(r) PROVE KeptInv'
  BY <1>37 DEF Clears, PlacesInv, LocksInv, UserPlaces, HasInv, LoadInv, SyncInv, MetInv,
       KeptInv, Working, InUse
<1>38. ASSUME NEW r \in Releases, Drops(r) PROVE KeptInv'
  BY <1>38 DEF Drops, PlacesInv, LocksInv, UserPlaces, HasInv, LoadInv, SyncInv, MetInv,
       KeptInv, Working, InUse
<1>39. ASSUME NEW r \in Releases, ReleaseEnds(r) PROVE KeptInv'
  BY <1>39 DEF ReleaseEnds, Answered, PlacesInv, LocksInv, UserPlaces, HasInv, LoadInv,
       SyncInv, MetInv, KeptInv, Working, InUse
<1>40. CASE UNCHANGED vars
  BY <1>40 DEF vars, stateVars, lockVars, gateVars, assetVars, liveVars, PlacesInv,
       LocksInv, UserPlaces, HasInv, LoadInv, SyncInv, MetInv, KeptInv, Working, InUse
<1> QED
  BY <1>1, <1>2, <1>3, <1>4, <1>5, <1>6, <1>7, <1>8, <1>9, <1>10, <1>11, <1>12, <1>13,
       <1>14, <1>15, <1>16, <1>17, <1>18, <1>19, <1>20, <1>21, <1>22, <1>23, <1>24, <1>25,
            <1>26, <1>27, <1>28, <1>29, <1>30, <1>31, <1>32, <1>33, <1>34, <1>35, <1>36,
                 <1>37, <1>38, <1>39, <1>40
     DEF Next, LiveStep, JobStep, ReleaseStep, Ensures, Terminated

\* One idle chunk at most delays a live request.
LEMMA IdleKept ==
  ASSUME PlacesInv, LocksInv, ActiveInv, IdleInv, [Next]_vars PROVE IdleInv'
<1> USE RuntimeAssumption DEF Requests, Goes, assetVars, liveVars, LivePlaces, JobPlaces,
     ReleasePlaces
<1>1. ASSUME NEW t \in Lives \cup Jobs, FindsPipeline(t) PROVE IdleInv'
  BY <1>1 DEF FindsPipeline, PlacesInv, IdleInv
<1>2. ASSUME NEW t \in Lives \cup Jobs, FindsRegistry(t) PROVE IdleInv'
  BY <1>2 DEF FindsRegistry, PlacesInv, IdleInv
<1>3. ASSUME NEW t \in Lives \cup Jobs, GetsRuntime(t) PROVE IdleInv'
  BY <1>3 DEF GetsRuntime, PlacesInv, IdleInv
<1>4. ASSUME NEW t \in Lives \cup Jobs, StartsLoading(t) PROVE IdleInv'
  BY <1>4 DEF StartsLoading, PlacesInv, IdleInv
<1>5. ASSUME NEW t \in Lives \cup Jobs, Restores(t) PROVE IdleInv'
  BY <1>5 DEF Restores, PlacesInv, IdleInv
<1>6. ASSUME NEW t \in Lives \cup Jobs, Installs(t) PROVE IdleInv'
  BY <1>6 DEF Installs, PlacesInv, IdleInv
<1>7. ASSUME NEW l \in Lives, Reserve(l) PROVE IdleInv'
  BY <1>7 DEF Reserve, Comes, PlacesInv, IdleInv
<1>8. ASSUME NEW l \in Lives, LiveLoadFails(l) PROVE IdleInv'
  BY <1>8 DEF LiveLoadFails, Leaves, Answered, PlacesInv, IdleInv
<1>9. ASSUME NEW l \in Lives, Preflights(l) PROVE IdleInv'
  BY <1>9 DEF Preflights, PlacesInv, IdleInv
<1>10. ASSUME NEW l \in Lives, PreflightStarts(l) PROVE IdleInv'
  BY <1>10 DEF PreflightStarts, PlacesInv, IdleInv
<1>11. ASSUME NEW l \in Lives, PreflightEnds(l) PROVE IdleInv'
  BY <1>11 DEF PreflightEnds, PlacesInv, IdleInv
<1>12. ASSUME NEW l \in Lives, LooksUp(l) PROVE IdleInv'
  BY <1>12 DEF LooksUp, PlacesInv, IdleInv
<1>13. ASSUME NEW l \in Lives, LiveStops(l) PROVE IdleInv'
  BY <1>13 DEF LiveStops, Leaves, Answered, PlacesInv, IdleInv
<1>14. ASSUME NEW l \in Lives, Submits(l) PROVE IdleInv'
  BY <1>14 DEF Submits, PlacesInv, IdleInv
<1>15. ASSUME NEW l \in Lives, Renders(l) PROVE IdleInv'
  BY <1>15 DEF Renders, PlacesInv, IdleInv
<1>16. ASSUME NEW l \in Lives, LiveEnds(l) PROVE IdleInv'
  BY <1>16 DEF LiveEnds, Leaves, Answered, PlacesInv, IdleInv
<1>17. ASSUME NEW j \in Jobs, JobAsked(j) PROVE IdleInv'
  BY <1>17 DEF JobAsked, Comes, PlacesInv, IdleInv
<1>18. ASSUME NEW j \in Jobs, JobStarts(j) PROVE IdleInv'
  BY <1>18 DEF JobStarts, PlacesInv, IdleInv
<1>19. ASSUME NEW j \in Jobs, JobLoadFails(j) PROVE IdleInv'
  BY <1>19 DEF JobLoadFails, Answered, PlacesInv, IdleInv
<1>20. ASSUME NEW j \in Jobs, Stores(j) PROVE IdleInv'
  BY <1>20 DEF Stores, PlacesInv, IdleInv
<1>21. ASSUME NEW j \in Jobs, Publishes(j) PROVE IdleInv'
  BY <1>21 DEF Publishes, PlacesInv, IdleInv
<1>22. ASSUME NEW j \in Jobs, Generates(j) PROVE IdleInv'
  BY <1>22 DEF Generates, PlacesInv, IdleInv
<1>23. ASSUME NEW j \in Jobs, IdleChecks(j) PROVE IdleInv'
  BY <1>23 DEF IdleChecks, NoLive, PlacesInv, IdleInv
<1>24. ASSUME NEW j \in Jobs, IdleTries(j) PROVE IdleInv'
  BY <1>24 DEF IdleTries, PlacesInv, IdleInv
<1>25. ASSUME NEW j \in Jobs, IdleStarts(j) PROVE IdleInv'
  <2>1. NoLive => \A l \in Lives : delays[l] = 0
    BY NobodyPresent DEF NoLive, IdleInv
  <2> QED BY <1>25, <2>1 DEF IdleStarts, PlacesInv, IdleInv
<1>26. ASSUME NEW j \in Jobs, IdleEnds(j) PROVE IdleInv'
  <2>1. chunks' = chunks + 1 /\ chunks < MaxChunks /\ chunks \in Nat
        /\ (at'[j] = "generating" => chunks' < MaxChunks)
    BY <1>26 DEF IdleEnds, IdleInv, PlacesInv
  <2>2. \A k \in Jobs \ {j} : at'[k] = at[k] /\ at[k] \in {"none", "waiting"}
    BY <1>26 DEF IdleEnds, LocksInv, UserPlaces, PlacesInv
  <2>3. at'[j] \in {"generating", "ending"} /\ \A l \in Lives : at'[l] = at[l]
    BY <1>26 DEF IdleEnds, PlacesInv
  <2>4. \A l \in Lives : delays[l] = 0
    BY <1>26 DEF IdleEnds, IdleInv
  <2>5. delays' = [l \in Lives |-> IF at[l] # "none" THEN 1 ELSE 0]
    BY <1>26, <2>4 DEF IdleEnds, Reserved
  <2> QED BY <2>1, <2>2, <2>3, <2>5 DEF IdleInv
<1>27. ASSUME NEW j \in Jobs, Trashes(j) PROVE IdleInv'
  BY <1>27 DEF Trashes, PlacesInv, IdleInv
<1>28. ASSUME NEW j \in Jobs, Forgets(j) PROVE IdleInv'
  BY <1>28 DEF Forgets, Outdated, PlacesInv, IdleInv
<1>29. ASSUME NEW j \in Jobs, JobEnds(j) PROVE IdleInv'
  BY <1>29 DEF JobEnds, Answered, PlacesInv, IdleInv
<1>30. ASSUME NEW r \in Releases, ReleaseAsked(r) PROVE IdleInv'
  BY <1>30 DEF ReleaseAsked, Comes, PlacesInv, IdleInv
<1>31. ASSUME NEW r \in Releases, ReleaseWaits(r) PROVE IdleInv'
  BY <1>31 DEF ReleaseWaits, PlacesInv, IdleInv
<1>32. ASSUME NEW r \in Releases, ReleaseLocks(r) PROVE IdleInv'
  BY <1>32 DEF ReleaseLocks, PlacesInv, IdleInv
<1>33. ASSUME NEW r \in Releases, ReleaseChecks(r) PROVE IdleInv'
  BY <1>33 DEF ReleaseChecks, PlacesInv, IdleInv
<1>34. ASSUME NEW r \in Releases, ReleaseTries(r) PROVE IdleInv'
  BY <1>34 DEF ReleaseTries, PlacesInv, IdleInv
<1>35. ASSUME NEW r \in Releases, ReleaseStarts(r) PROVE IdleInv'
  BY <1>35 DEF ReleaseStarts, PlacesInv, IdleInv
<1>36. ASSUME NEW r \in Releases, Closes(r) PROVE IdleInv'
  BY <1>36 DEF Closes, PlacesInv, IdleInv
<1>37. ASSUME NEW r \in Releases, Clears(r) PROVE IdleInv'
  BY <1>37 DEF Clears, PlacesInv, IdleInv
<1>38. ASSUME NEW r \in Releases, Drops(r) PROVE IdleInv'
  BY <1>38 DEF Drops, PlacesInv, IdleInv
<1>39. ASSUME NEW r \in Releases, ReleaseEnds(r) PROVE IdleInv'
  BY <1>39 DEF ReleaseEnds, Answered, PlacesInv, IdleInv
<1>40. CASE UNCHANGED vars
  BY <1>40 DEF vars, stateVars, lockVars, gateVars, assetVars, liveVars, PlacesInv, IdleInv
<1> QED
  BY <1>1, <1>2, <1>3, <1>4, <1>5, <1>6, <1>7, <1>8, <1>9, <1>10, <1>11, <1>12, <1>13,
       <1>14, <1>15, <1>16, <1>17, <1>18, <1>19, <1>20, <1>21, <1>22, <1>23, <1>24, <1>25,
            <1>26, <1>27, <1>28, <1>29, <1>30, <1>31, <1>32, <1>33, <1>34, <1>35, <1>36,
                 <1>37, <1>38, <1>39, <1>40
     DEF Next, LiveStep, JobStep, ReleaseStep, Ensures, Terminated

\* The shelf and the disk agree, but for what is owed.
LEMMA ShelfKept ==
  ASSUME PlacesInv, LocksInv, AsksInv, HasInv, ValuesInv, LoadInv, SyncInv, KeptInv,
       ShelfInv, [Next]_vars PROVE ShelfInv'
<1> USE RuntimeAssumption DEF Requests, Goes, stateVars, assetVars
<1>1. ASSUME NEW t \in Lives \cup Jobs, FindsPipeline(t) PROVE ShelfInv'
  <2>1. /\ UNCHANGED <<pipeline, registry, shelf, disk, stale>>
        /\ \A u \in Lives \cup Jobs : at'[u] = "restored" =>
              at[u] = "restored" /\ has'[u].registry = has[u].registry
        /\ \A k \in Jobs : at[k] \in {"stored", "trashed"} \/ at'[k] \in {"stored",
             "trashed"} =>
              at'[k] = at[k] /\ asks'[k] = asks[k] /\ has'[k] = has[k]
    BY <1>1 DEF FindsPipeline, PlacesInv, HasInv, AsksInv
  <2> QED BY <2>1, ShelfStays
<1>2. ASSUME NEW t \in Lives \cup Jobs, FindsRegistry(t) PROVE ShelfInv'
  <2>1. /\ UNCHANGED <<pipeline, registry, shelf, disk, stale>>
        /\ \A u \in Lives \cup Jobs : at'[u] = "restored" =>
              at[u] = "restored" /\ has'[u].registry = has[u].registry
        /\ \A k \in Jobs : at[k] \in {"stored", "trashed"} \/ at'[k] \in {"stored",
             "trashed"} =>
              at'[k] = at[k] /\ asks'[k] = asks[k] /\ has'[k] = has[k]
    BY <1>2 DEF FindsRegistry, PlacesInv, HasInv, AsksInv
  <2> QED BY <2>1, ShelfStays
<1>3. ASSUME NEW t \in Lives \cup Jobs, GetsRuntime(t) PROVE ShelfInv'
  <2>1. /\ UNCHANGED <<pipeline, registry, shelf, disk, stale>>
        /\ \A u \in Lives \cup Jobs : at'[u] = "restored" =>
              at[u] = "restored" /\ has'[u].registry = has[u].registry
        /\ \A k \in Jobs : at[k] \in {"stored", "trashed"} \/ at'[k] \in {"stored",
             "trashed"} =>
              at'[k] = at[k] /\ asks'[k] = asks[k] /\ has'[k] = has[k]
    BY <1>3 DEF GetsRuntime, PlacesInv, HasInv, AsksInv
  <2> QED BY <2>1, ShelfStays
<1>4. ASSUME NEW t \in Lives \cup Jobs, StartsLoading(t) PROVE ShelfInv'
  <2>1. pipeline' = 0 /\ disk' = disk
    BY <1>4 DEF StartsLoading
  <2>2. \A u \in Lives \cup Jobs : at'[u] # "restored"
    BY <1>4 DEF StartsLoading, PlacesInv, LocksInv, RuntimePlaces
  <2>3. \A k \in Jobs : at'[k] \in {"stored",
       "trashed"} => at[k] = at'[k] /\ asks'[k] = asks[k]
    BY <1>4 DEF StartsLoading, PlacesInv
  <2> QED BY <2>1, <2>2, <2>3 DEF ShelfInv
<1>5. ASSUME NEW t \in Lives \cup Jobs, Restores(t) PROVE ShelfInv'
  <2>1. pipeline' = 0 /\ disk' = disk /\ has' = has
    BY <1>5 DEF Restores, LoadInv
  <2>2. \A u \in Lives \cup Jobs : at'[u] = "restored" => u = t
    <3> SUFFICES ASSUME NEW u \in Lives \cup Jobs, u # t, at'[u] = "restored" PROVE FALSE
      OBVIOUS
    <3>1. at[u] = "restored" /\ at[t] = "loading"
      BY <1>5 DEF Restores, PlacesInv
    <3>2. t \notin Releases /\ u \notin Releases
      OBVIOUS
    <3>3. runtimeLock = t
      BY <3>1, <3>2 DEF LocksInv, RuntimePlaces
    <3>4. runtimeLock = u
      BY <3>1, <3>2 DEF LocksInv, RuntimePlaces
    <3> QED BY <3>3, <3>4
  <2>3. \A k \in Jobs : at'[k] \in {"stored",
       "trashed"} => at[k] = at'[k] /\ asks'[k] = asks[k]
    BY <1>5 DEF Restores, PlacesInv
  <2>4. shelf'[has[t].registry] = Bundled \cup disk
    <3>1. has[t].registry \in 1..Len(shelf)
      BY <1>5 DEF Restores, LoadInv, HasInv
    <3> QED BY <1>5, <3>1 DEF Restores, ValuesInv
  <2>5. Agrees(shelf[has[t].registry])'
    BY <2>1, <2>4 DEF Agrees
  <2> QED BY <2>1, <2>2, <2>3, <2>5 DEF ShelfInv
<1>6. ASSUME NEW t \in Lives \cup Jobs, Installs(t) PROVE ShelfInv'
  <2>1. /\ UNCHANGED <<shelf, disk, stale, asks, has>> /\ registry' = has[t].registry
        /\ at[t] = "restored"
    BY <1>6 DEF Installs
  <2>2. \A u \in Lives \cup Jobs : at'[u] = "restored" => at[u] = "restored"
    BY <1>6 DEF Installs, PlacesInv
  <2>3. \A k \in Jobs : at[k] \in {"stored", "trashed"} \/ at'[k] \in {"stored",
       "trashed"} => at[k] = at'[k]
    BY <1>6 DEF Installs, PlacesInv
  <2>4. \A s : Agrees(s) => Agrees(s)'
    BY <2>1, <2>3 DEF Agrees, Owed
  <2>5. \A k \in Jobs : at[k] = "trashed" => has[k].registry # registry'
    BY <2>1 DEF LoadInv, AsksInv
  <2> QED BY <2>1, <2>2, <2>3, <2>4, <2>5 DEF ShelfInv
<1>7. ASSUME NEW l \in Lives, Reserve(l) PROVE ShelfInv'
  <2>1. /\ UNCHANGED <<pipeline, registry, shelf, disk, stale>>
        /\ \A u \in Lives \cup Jobs : at'[u] = "restored" =>
              at[u] = "restored" /\ has'[u].registry = has[u].registry
        /\ \A k \in Jobs : at[k] \in {"stored", "trashed"} \/ at'[k] \in {"stored",
             "trashed"} =>
              at'[k] = at[k] /\ asks'[k] = asks[k] /\ has'[k] = has[k]
    BY <1>7 DEF Reserve, Comes, PlacesInv, HasInv, AsksInv
  <2> QED BY <2>1, ShelfStays
<1>8. ASSUME NEW l \in Lives, LiveLoadFails(l) PROVE ShelfInv'
  <2>1. /\ UNCHANGED <<pipeline, registry, shelf, disk, stale>>
        /\ \A u \in Lives \cup Jobs : at'[u] = "restored" =>
              at[u] = "restored" /\ has'[u].registry = has[u].registry
        /\ \A k \in Jobs : at[k] \in {"stored", "trashed"} \/ at'[k] \in {"stored",
             "trashed"} =>
              at'[k] = at[k] /\ asks'[k] = asks[k] /\ has'[k] = has[k]
    BY <1>8 DEF LiveLoadFails, Leaves, Answered, PlacesInv, HasInv, AsksInv
  <2> QED BY <2>1, ShelfStays
<1>9. ASSUME NEW l \in Lives, Preflights(l) PROVE ShelfInv'
  <2>1. /\ UNCHANGED <<pipeline, registry, shelf, disk, stale>>
        /\ \A u \in Lives \cup Jobs : at'[u] = "restored" =>
              at[u] = "restored" /\ has'[u].registry = has[u].registry
        /\ \A k \in Jobs : at[k] \in {"stored", "trashed"} \/ at'[k] \in {"stored",
             "trashed"} =>
              at'[k] = at[k] /\ asks'[k] = asks[k] /\ has'[k] = has[k]
    BY <1>9 DEF Preflights, PlacesInv, HasInv, AsksInv
  <2> QED BY <2>1, ShelfStays
<1>10. ASSUME NEW l \in Lives, PreflightStarts(l) PROVE ShelfInv'
  <2>1. /\ UNCHANGED <<pipeline, registry, shelf, disk, stale>>
        /\ \A u \in Lives \cup Jobs : at'[u] = "restored" =>
              at[u] = "restored" /\ has'[u].registry = has[u].registry
        /\ \A k \in Jobs : at[k] \in {"stored", "trashed"} \/ at'[k] \in {"stored",
             "trashed"} =>
              at'[k] = at[k] /\ asks'[k] = asks[k] /\ has'[k] = has[k]
    BY <1>10 DEF PreflightStarts, PlacesInv, HasInv, AsksInv
  <2> QED BY <2>1, ShelfStays
<1>11. ASSUME NEW l \in Lives, PreflightEnds(l) PROVE ShelfInv'
  <2>1. /\ UNCHANGED <<pipeline, registry, shelf, disk, stale>>
        /\ \A u \in Lives \cup Jobs : at'[u] = "restored" =>
              at[u] = "restored" /\ has'[u].registry = has[u].registry
        /\ \A k \in Jobs : at[k] \in {"stored", "trashed"} \/ at'[k] \in {"stored",
             "trashed"} =>
              at'[k] = at[k] /\ asks'[k] = asks[k] /\ has'[k] = has[k]
    BY <1>11 DEF PreflightEnds, PlacesInv, HasInv, AsksInv
  <2> QED BY <2>1, ShelfStays
<1>12. ASSUME NEW l \in Lives, LooksUp(l) PROVE ShelfInv'
  <2>1. /\ UNCHANGED <<pipeline, registry, shelf, disk, stale>>
        /\ \A u \in Lives \cup Jobs : at'[u] = "restored" =>
              at[u] = "restored" /\ has'[u].registry = has[u].registry
        /\ \A k \in Jobs : at[k] \in {"stored", "trashed"} \/ at'[k] \in {"stored",
             "trashed"} =>
              at'[k] = at[k] /\ asks'[k] = asks[k] /\ has'[k] = has[k]
    BY <1>12 DEF LooksUp, PlacesInv, HasInv, AsksInv
  <2> QED BY <2>1, ShelfStays
<1>13. ASSUME NEW l \in Lives, LiveStops(l) PROVE ShelfInv'
  <2>1. /\ UNCHANGED <<pipeline, registry, shelf, disk, stale>>
        /\ \A u \in Lives \cup Jobs : at'[u] = "restored" =>
              at[u] = "restored" /\ has'[u].registry = has[u].registry
        /\ \A k \in Jobs : at[k] \in {"stored", "trashed"} \/ at'[k] \in {"stored",
             "trashed"} =>
              at'[k] = at[k] /\ asks'[k] = asks[k] /\ has'[k] = has[k]
    BY <1>13 DEF LiveStops, Leaves, Answered, PlacesInv, HasInv, AsksInv
  <2> QED BY <2>1, ShelfStays
<1>14. ASSUME NEW l \in Lives, Submits(l) PROVE ShelfInv'
  <2>1. /\ UNCHANGED <<pipeline, registry, shelf, disk, stale>>
        /\ \A u \in Lives \cup Jobs : at'[u] = "restored" =>
              at[u] = "restored" /\ has'[u].registry = has[u].registry
        /\ \A k \in Jobs : at[k] \in {"stored", "trashed"} \/ at'[k] \in {"stored",
             "trashed"} =>
              at'[k] = at[k] /\ asks'[k] = asks[k] /\ has'[k] = has[k]
    BY <1>14 DEF Submits, PlacesInv, HasInv, AsksInv
  <2> QED BY <2>1, ShelfStays
<1>15. ASSUME NEW l \in Lives, Renders(l) PROVE ShelfInv'
  <2>1. /\ UNCHANGED <<pipeline, registry, shelf, disk, stale>>
        /\ \A u \in Lives \cup Jobs : at'[u] = "restored" =>
              at[u] = "restored" /\ has'[u].registry = has[u].registry
        /\ \A k \in Jobs : at[k] \in {"stored", "trashed"} \/ at'[k] \in {"stored",
             "trashed"} =>
              at'[k] = at[k] /\ asks'[k] = asks[k] /\ has'[k] = has[k]
    BY <1>15 DEF Renders, PlacesInv, HasInv, AsksInv
  <2> QED BY <2>1, ShelfStays
<1>16. ASSUME NEW l \in Lives, LiveEnds(l) PROVE ShelfInv'
  <2>1. /\ UNCHANGED <<pipeline, registry, shelf, disk, stale>>
        /\ \A u \in Lives \cup Jobs : at'[u] = "restored" =>
              at[u] = "restored" /\ has'[u].registry = has[u].registry
        /\ \A k \in Jobs : at[k] \in {"stored", "trashed"} \/ at'[k] \in {"stored",
             "trashed"} =>
              at'[k] = at[k] /\ asks'[k] = asks[k] /\ has'[k] = has[k]
    BY <1>16 DEF LiveEnds, Leaves, Answered, PlacesInv, HasInv, AsksInv
  <2> QED BY <2>1, ShelfStays
<1>17. ASSUME NEW j \in Jobs, JobAsked(j) PROVE ShelfInv'
  <2>1. /\ UNCHANGED <<pipeline, registry, shelf, disk, stale>>
        /\ \A u \in Lives \cup Jobs : at'[u] = "restored" =>
              at[u] = "restored" /\ has'[u].registry = has[u].registry
        /\ \A k \in Jobs : at[k] \in {"stored", "trashed"} \/ at'[k] \in {"stored",
             "trashed"} =>
              at'[k] = at[k] /\ asks'[k] = asks[k] /\ has'[k] = has[k]
    BY <1>17 DEF JobAsked, Comes, PlacesInv, HasInv, AsksInv
  <2> QED BY <2>1, ShelfStays
<1>18. ASSUME NEW j \in Jobs, JobStarts(j) PROVE ShelfInv'
  <2>1. /\ UNCHANGED <<pipeline, registry, shelf, disk, stale>>
        /\ \A u \in Lives \cup Jobs : at'[u] = "restored" =>
              at[u] = "restored" /\ has'[u].registry = has[u].registry
        /\ \A k \in Jobs : at[k] \in {"stored", "trashed"} \/ at'[k] \in {"stored",
             "trashed"} =>
              at'[k] = at[k] /\ asks'[k] = asks[k] /\ has'[k] = has[k]
    BY <1>18 DEF JobStarts, PlacesInv, HasInv, AsksInv
  <2> QED BY <2>1, ShelfStays
<1>19. ASSUME NEW j \in Jobs, JobLoadFails(j) PROVE ShelfInv'
  <2>1. /\ UNCHANGED <<pipeline, registry, shelf, disk, stale>>
        /\ \A u \in Lives \cup Jobs : at'[u] = "restored" =>
              at[u] = "restored" /\ has'[u].registry = has[u].registry
        /\ \A k \in Jobs : at[k] \in {"stored", "trashed"} \/ at'[k] \in {"stored",
             "trashed"} =>
              at'[k] = at[k] /\ asks'[k] = asks[k] /\ has'[k] = has[k]
    BY <1>19 DEF JobLoadFails, Answered, PlacesInv, HasInv, AsksInv
  <2> QED BY <2>1, ShelfStays
<1>20. ASSUME NEW j \in Jobs, Stores(j) PROVE ShelfInv'
  <2>0. CASE disk' = disk /\ at'[j] = "ending"
    <3>1. /\ UNCHANGED <<pipeline, registry, shelf, disk, stale>>
          /\ \A u \in Lives \cup Jobs : at'[u] = "restored" =>
                at[u] = "restored" /\ has'[u].registry = has[u].registry
          /\ \A k \in Jobs : at[k] \in {"stored", "trashed"} \/ at'[k] \in {"stored",
               "trashed"} =>
                at'[k] = at[k] /\ asks'[k] = asks[k] /\ has'[k] = has[k]
      BY <1>20, <2>0 DEF Stores, PlacesInv
    <3> QED BY <3>1, ShelfStays
  <2>1. CASE disk' = disk \cup {asks[j].avatar} /\ at'[j] = "stored"
    <3>1. UNCHANGED <<pipeline, registry, shelf, stale, asks, has>>
      BY <1>20 DEF Stores
    <3>2. \A k \in Jobs \ {j} : at'[k] = at[k] /\ at[k] \in {"none", "waiting"}
      BY <1>20 DEF Stores, LocksInv, UserPlaces, PlacesInv
    <3>3. \A s : Agrees(s) => Agrees(s)'
      BY <1>20, <2>1, <3>1, <3>2 DEF Agrees, Owed, Stores
    <3>4. \A u \in Lives \cup Jobs : at'[u] = "restored" => at[u] = "restored"
      BY <1>20 DEF Stores, PlacesInv
    <3> QED BY <2>1, <3>1, <3>2, <3>3, <3>4 DEF ShelfInv
  <2> QED BY <1>20, <2>0, <2>1 DEF Stores, PlacesInv
<1>21. ASSUME NEW j \in Jobs, Publishes(j) PROVE ShelfInv'
  <2> DEFINE a == asks[j].avatar
  <2>1. UNCHANGED <<pipeline, registry, disk, stale, asks, has>> /\ at'[j] = "published"
        /\ at[j] = "stored"
    BY <1>21 DEF Publishes, PlacesInv
  <2>2. \A k \in Jobs \ {j} : at'[k] = at[k] /\ at[k] \in {"none", "waiting"}
    BY <1>21 DEF Publishes, LocksInv, UserPlaces, PlacesInv
  <2>3. pipeline # 0 /\ has[j].registry = registry
    BY <2>1 DEF KeptInv, Working, InUse
  <2>4. shelf'[registry] = shelf[registry] \cup {a}
    BY <1>21, <2>3 DEF Publishes, ValuesInv
  <2>5. a \in disk
    BY <2>1 DEF ShelfInv
  <2>6. Agrees(shelf[registry])
    BY <2>3 DEF ShelfInv
  <2>7. \A b : Owed(b) <=> b = a
    BY <2>1, <2>2 DEF Owed
  <2>8. Agrees(shelf[registry])'
    BY <2>1, <2>4, <2>5, <2>6, <2>7 DEF Agrees
  <2>9. \A u \in Lives \cup Jobs : at'[u] # "restored"
    BY <1>21, <2>3 DEF Publishes, PlacesInv, LoadInv
  <2> QED BY <2>1, <2>2, <2>8, <2>9 DEF ShelfInv
<1>22. ASSUME NEW j \in Jobs, Generates(j) PROVE ShelfInv'
  <2>1. /\ UNCHANGED <<pipeline, registry, shelf, disk, stale>>
        /\ \A u \in Lives \cup Jobs : at'[u] = "restored" =>
              at[u] = "restored" /\ has'[u].registry = has[u].registry
        /\ \A k \in Jobs : at[k] \in {"stored", "trashed"} \/ at'[k] \in {"stored",
             "trashed"} =>
              at'[k] = at[k] /\ asks'[k] = asks[k] /\ has'[k] = has[k]
    BY <1>22 DEF Generates, PlacesInv, HasInv, AsksInv
  <2> QED BY <2>1, ShelfStays
<1>23. ASSUME NEW j \in Jobs, IdleChecks(j) PROVE ShelfInv'
  <2>1. /\ UNCHANGED <<pipeline, registry, shelf, disk, stale>>
        /\ \A u \in Lives \cup Jobs : at'[u] = "restored" =>
              at[u] = "restored" /\ has'[u].registry = has[u].registry
        /\ \A k \in Jobs : at[k] \in {"stored", "trashed"} \/ at'[k] \in {"stored",
             "trashed"} =>
              at'[k] = at[k] /\ asks'[k] = asks[k] /\ has'[k] = has[k]
    BY <1>23 DEF IdleChecks, NoLive, PlacesInv, HasInv, AsksInv
  <2> QED BY <2>1, ShelfStays
<1>24. ASSUME NEW j \in Jobs, IdleTries(j) PROVE ShelfInv'
  <2>1. /\ UNCHANGED <<pipeline, registry, shelf, disk, stale>>
        /\ \A u \in Lives \cup Jobs : at'[u] = "restored" =>
              at[u] = "restored" /\ has'[u].registry = has[u].registry
        /\ \A k \in Jobs : at[k] \in {"stored", "trashed"} \/ at'[k] \in {"stored",
             "trashed"} =>
              at'[k] = at[k] /\ asks'[k] = asks[k] /\ has'[k] = has[k]
    BY <1>24 DEF IdleTries, PlacesInv, HasInv, AsksInv
  <2> QED BY <2>1, ShelfStays
<1>25. ASSUME NEW j \in Jobs, IdleStarts(j) PROVE ShelfInv'
  <2>1. /\ UNCHANGED <<pipeline, registry, shelf, disk, stale>>
        /\ \A u \in Lives \cup Jobs : at'[u] = "restored" =>
              at[u] = "restored" /\ has'[u].registry = has[u].registry
        /\ \A k \in Jobs : at[k] \in {"stored", "trashed"} \/ at'[k] \in {"stored",
             "trashed"} =>
              at'[k] = at[k] /\ asks'[k] = asks[k] /\ has'[k] = has[k]
    BY <1>25 DEF IdleStarts, NoLive, PlacesInv, HasInv, AsksInv
  <2> QED BY <2>1, ShelfStays
<1>26. ASSUME NEW j \in Jobs, IdleEnds(j) PROVE ShelfInv'
  <2>1. /\ UNCHANGED <<pipeline, registry, shelf, disk, stale>>
        /\ \A u \in Lives \cup Jobs : at'[u] = "restored" =>
              at[u] = "restored" /\ has'[u].registry = has[u].registry
        /\ \A k \in Jobs : at[k] \in {"stored", "trashed"} \/ at'[k] \in {"stored",
             "trashed"} =>
              at'[k] = at[k] /\ asks'[k] = asks[k] /\ has'[k] = has[k]
    BY <1>26 DEF IdleEnds, Reserved, PlacesInv, HasInv, AsksInv
  <2> QED BY <2>1, ShelfStays
<1>27. ASSUME NEW j \in Jobs, Trashes(j) PROVE ShelfInv'
  <2>0. CASE asks[j].avatar \notin disk
    <3>1. /\ UNCHANGED <<pipeline, registry, shelf, disk, stale>>
          /\ \A u \in Lives \cup Jobs : at'[u] = "restored" =>
                at[u] = "restored" /\ has'[u].registry = has[u].registry
          /\ \A k \in Jobs : at[k] \in {"stored", "trashed"} \/ at'[k] \in {"stored",
               "trashed"} =>
                at'[k] = at[k] /\ asks'[k] = asks[k] /\ has'[k] = has[k]
      BY <1>27, <2>0 DEF Trashes, PlacesInv
    <3> QED BY <3>1, ShelfStays
  <2>1. CASE asks[j].avatar \in disk
    <3>1. /\ UNCHANGED <<pipeline, registry, shelf, stale, asks, has>> /\ at'[j] = "trashed"
          /\ disk' = disk \ {asks[j].avatar} /\ at[j] = "deleting"
      BY <1>27, <2>1 DEF Trashes, PlacesInv
    <3>2. \A k \in Jobs \ {j} : at'[k] = at[k] /\ at[k] \in {"none", "waiting"}
      BY <1>27 DEF Trashes, LocksInv, UserPlaces, PlacesInv
    <3>3. \A s : Agrees(s) => Agrees(s)'
      BY <3>1, <3>2 DEF Agrees, Owed
    <3>4. \A u \in Lives \cup Jobs : at'[u] = "restored" => at[u] = "restored"
      BY <1>27 DEF Trashes, PlacesInv
    <3>5. asks[j].avatar \in Avatars \ Bundled /\ ~Owed(asks[j].avatar)
      BY <3>1, <3>2 DEF AsksInv, Owed
    <3>6. pipeline # 0 /\ asks[j].avatar \notin stale => asks[j].avatar \in shelf[registry]
      BY <2>1, <3>5 DEF ShelfInv, Agrees
    <3> QED BY <3>1, <3>2, <3>3, <3>4, <3>6 DEF ShelfInv
  <2> QED BY <2>0, <2>1
<1>28. ASSUME NEW j \in Jobs, Forgets(j) PROVE ShelfInv'
  <2> DEFINE a == asks[j].avatar
  <2>1. UNCHANGED <<pipeline, registry, asks,
       has>> /\ at'[j] = "ending" /\ at[j] = "trashed"
    BY <1>28 DEF Forgets, PlacesInv
  <2>2. \A k \in Jobs \ {j} : at'[k] = at[k] /\ at[k] \in {"none", "waiting"}
    BY <1>28 DEF Forgets, LocksInv, UserPlaces, PlacesInv
  <2>3. \A b : (Owed(b) <=> b = a) /\ ~Owed(b)'
    BY <2>1, <2>2 DEF Owed
  <2>4. /\ stale' = stale \/ stale' = stale \cup {a}
        /\ a \in stale' \/ ~Outdated(j)
    BY <1>28 DEF Forgets
  <2>5. a \notin disk
    BY <2>1 DEF ShelfInv
  <2>6. \A u \in Lives \cup Jobs : at'[u] = "restored" =>
            /\ at[u] = "restored" /\ pipeline = 0 /\ has[u].registry # has[j].registry
            /\ a \in stale'
    BY <1>28, <2>1, <2>4 DEF Forgets, PlacesInv, LoadInv, AsksInv, Outdated
  <2>7. \/ shelf' = [shelf EXCEPT ![has[j].registry] = @ \ {a}] /\ disk' = disk
        \/ disk' = disk \cup {a} /\ shelf' = shelf
    BY <1>28 DEF Forgets
  <2>8. ASSUME pipeline # 0 PROVE Agrees(shelf[registry])'
    <3>1. Agrees(shelf[registry])
      BY <2>8 DEF ShelfInv
    <3>2. CASE a \in stale'
      <4>1. \A b : b # a => /\ b \in shelf'[registry] <=> b \in shelf[registry]
                            /\ b \in disk' <=> b \in disk
        BY <2>7 DEF ValuesInv
      <4> QED BY <2>1, <2>3, <2>4, <3>1, <3>2, <4>1 DEF Agrees
    <3>3. CASE a \notin stale'
      <4>1. registry = has[j].registry /\ a \notin stale
        BY <2>4, <3>3 DEF Outdated
      <4>2. a \in shelf[registry]
        BY <2>1, <2>8, <4>1 DEF ShelfInv
      <4>3. a \in disk' <=> a \in shelf'[registry]
        BY <2>5, <2>7, <4>1, <4>2 DEF ValuesInv
      <4>4. \A b : b # a => /\ b \in shelf'[registry] <=> b \in shelf[registry]
                            /\ b \in disk' <=> b \in disk
        BY <2>7 DEF ValuesInv
      <4> QED BY <2>1, <2>3, <2>4, <3>1, <4>3, <4>4 DEF Agrees
    <3> QED BY <3>2, <3>3
  <2>9. ASSUME NEW u \in Lives \cup Jobs, at'[u] = "restored"
        PROVE  Agrees(shelf[has[u].registry])'
    <3>0. has[u].registry \in 1..Len(shelf) /\ has[u].registry # has[j].registry
      BY <2>6, <2>9 DEF LoadInv, HasInv
    <3>1. Agrees(shelf[has[u].registry])
      BY <2>6, <2>9 DEF ShelfInv
    <3>2. \A b : b # a =>
            /\ b \in shelf'[has[u].registry] <=> b \in shelf[has[u].registry]
            /\ b \in disk' <=> b \in disk
      BY <2>6, <2>7, <2>9, <3>0 DEF ValuesInv
    <3> QED BY <2>1, <2>3, <2>4, <2>6, <2>9, <3>0, <3>1, <3>2 DEF Agrees
  <2> QED BY <2>1, <2>2, <2>8, <2>9 DEF ShelfInv
<1>29. ASSUME NEW j \in Jobs, JobEnds(j) PROVE ShelfInv'
  <2>1. /\ UNCHANGED <<pipeline, registry, shelf, disk, stale>>
        /\ \A u \in Lives \cup Jobs : at'[u] = "restored" =>
              at[u] = "restored" /\ has'[u].registry = has[u].registry
        /\ \A k \in Jobs : at[k] \in {"stored", "trashed"} \/ at'[k] \in {"stored",
             "trashed"} =>
              at'[k] = at[k] /\ asks'[k] = asks[k] /\ has'[k] = has[k]
    BY <1>29 DEF JobEnds, Answered, PlacesInv, HasInv, AsksInv
  <2> QED BY <2>1, ShelfStays
<1>30. ASSUME NEW r \in Releases, ReleaseAsked(r) PROVE ShelfInv'
  <2>1. /\ UNCHANGED <<pipeline, registry, shelf, disk, stale>>
        /\ \A u \in Lives \cup Jobs : at'[u] = "restored" =>
              at[u] = "restored" /\ has'[u].registry = has[u].registry
        /\ \A k \in Jobs : at[k] \in {"stored", "trashed"} \/ at'[k] \in {"stored",
             "trashed"} =>
              at'[k] = at[k] /\ asks'[k] = asks[k] /\ has'[k] = has[k]
    BY <1>30 DEF ReleaseAsked, Comes, PlacesInv, HasInv, AsksInv
  <2> QED BY <2>1, ShelfStays
<1>31. ASSUME NEW r \in Releases, ReleaseWaits(r) PROVE ShelfInv'
  <2>1. /\ UNCHANGED <<pipeline, registry, shelf, disk, stale>>
        /\ \A u \in Lives \cup Jobs : at'[u] = "restored" =>
              at[u] = "restored" /\ has'[u].registry = has[u].registry
        /\ \A k \in Jobs : at[k] \in {"stored", "trashed"} \/ at'[k] \in {"stored",
             "trashed"} =>
              at'[k] = at[k] /\ asks'[k] = asks[k] /\ has'[k] = has[k]
    BY <1>31 DEF ReleaseWaits, PlacesInv, HasInv, AsksInv
  <2> QED BY <2>1, ShelfStays
<1>32. ASSUME NEW r \in Releases, ReleaseLocks(r) PROVE ShelfInv'
  <2>1. /\ UNCHANGED <<pipeline, registry, shelf, disk, stale>>
        /\ \A u \in Lives \cup Jobs : at'[u] = "restored" =>
              at[u] = "restored" /\ has'[u].registry = has[u].registry
        /\ \A k \in Jobs : at[k] \in {"stored", "trashed"} \/ at'[k] \in {"stored",
             "trashed"} =>
              at'[k] = at[k] /\ asks'[k] = asks[k] /\ has'[k] = has[k]
    BY <1>32 DEF ReleaseLocks, PlacesInv, HasInv, AsksInv
  <2> QED BY <2>1, ShelfStays
<1>33. ASSUME NEW r \in Releases, ReleaseChecks(r) PROVE ShelfInv'
  <2>1. /\ UNCHANGED <<pipeline, registry, shelf, disk, stale>>
        /\ \A u \in Lives \cup Jobs : at'[u] = "restored" =>
              at[u] = "restored" /\ has'[u].registry = has[u].registry
        /\ \A k \in Jobs : at[k] \in {"stored", "trashed"} \/ at'[k] \in {"stored",
             "trashed"} =>
              at'[k] = at[k] /\ asks'[k] = asks[k] /\ has'[k] = has[k]
    BY <1>33 DEF ReleaseChecks, PlacesInv, HasInv, AsksInv
  <2> QED BY <2>1, ShelfStays
<1>34. ASSUME NEW r \in Releases, ReleaseTries(r) PROVE ShelfInv'
  <2>1. /\ UNCHANGED <<pipeline, registry, shelf, disk, stale>>
        /\ \A u \in Lives \cup Jobs : at'[u] = "restored" =>
              at[u] = "restored" /\ has'[u].registry = has[u].registry
        /\ \A k \in Jobs : at[k] \in {"stored", "trashed"} \/ at'[k] \in {"stored",
             "trashed"} =>
              at'[k] = at[k] /\ asks'[k] = asks[k] /\ has'[k] = has[k]
    BY <1>34 DEF ReleaseTries, PlacesInv, HasInv, AsksInv
  <2> QED BY <2>1, ShelfStays
<1>35. ASSUME NEW r \in Releases, ReleaseStarts(r) PROVE ShelfInv'
  <2>1. /\ UNCHANGED <<pipeline, registry, shelf, disk, stale>>
        /\ \A u \in Lives \cup Jobs : at'[u] = "restored" =>
              at[u] = "restored" /\ has'[u].registry = has[u].registry
        /\ \A k \in Jobs : at[k] \in {"stored", "trashed"} \/ at'[k] \in {"stored",
             "trashed"} =>
              at'[k] = at[k] /\ asks'[k] = asks[k] /\ has'[k] = has[k]
    BY <1>35 DEF ReleaseStarts, PlacesInv, HasInv, AsksInv
  <2> QED BY <2>1, ShelfStays
<1>36. ASSUME NEW r \in Releases, Closes(r) PROVE ShelfInv'
  <2>1. /\ UNCHANGED <<shelf, disk, stale, asks, has>> /\ pipeline' = 0
    BY <1>36 DEF Closes
  <2>2. \A u \in Lives \cup Jobs : at'[u] = at[u]
    BY <1>36 DEF Closes, PlacesInv
  <2>3. \A s : Agrees(s) => Agrees(s)'
    BY <2>1, <2>2 DEF Agrees, Owed
  <2> QED BY <2>1, <2>2, <2>3 DEF ShelfInv
<1>37. ASSUME NEW r \in Releases, Clears(r) PROVE ShelfInv'
  <2>1. /\ UNCHANGED <<pipeline, disk, stale, asks, has>> /\ pipeline = 0
    BY <1>37 DEF Clears, SyncInv
  <2>2. \A u \in Lives \cup Jobs : at'[u] = at[u] /\ at[u] # "restored"
    BY <1>37 DEF Clears, PlacesInv, LocksInv, RuntimePlaces
  <2> QED BY <2>1, <2>2 DEF ShelfInv
<1>38. ASSUME NEW r \in Releases, Drops(r) PROVE ShelfInv'
  <2>1. /\ UNCHANGED <<pipeline, registry, shelf, disk, stale>>
        /\ \A u \in Lives \cup Jobs : at'[u] = "restored" =>
              at[u] = "restored" /\ has'[u].registry = has[u].registry
        /\ \A k \in Jobs : at[k] \in {"stored", "trashed"} \/ at'[k] \in {"stored",
             "trashed"} =>
              at'[k] = at[k] /\ asks'[k] = asks[k] /\ has'[k] = has[k]
    BY <1>38 DEF Drops, PlacesInv, HasInv, AsksInv
  <2> QED BY <2>1, ShelfStays
<1>39. ASSUME NEW r \in Releases, ReleaseEnds(r) PROVE ShelfInv'
  <2>1. /\ UNCHANGED <<pipeline, registry, shelf, disk, stale>>
        /\ \A u \in Lives \cup Jobs : at'[u] = "restored" =>
              at[u] = "restored" /\ has'[u].registry = has[u].registry
        /\ \A k \in Jobs : at[k] \in {"stored", "trashed"} \/ at'[k] \in {"stored",
             "trashed"} =>
              at'[k] = at[k] /\ asks'[k] = asks[k] /\ has'[k] = has[k]
    BY <1>39 DEF ReleaseEnds, Answered, PlacesInv, HasInv, AsksInv
  <2> QED BY <2>1, ShelfStays
<1>40. CASE UNCHANGED vars
  BY <1>40, ShelfStays DEF vars, stateVars, assetVars
<1> QED
  BY <1>1, <1>2, <1>3, <1>4, <1>5, <1>6, <1>7, <1>8, <1>9, <1>10, <1>11, <1>12, <1>13,
       <1>14, <1>15, <1>16, <1>17, <1>18, <1>19, <1>20, <1>21, <1>22, <1>23, <1>24, <1>25,
            <1>26, <1>27, <1>28, <1>29, <1>30, <1>31, <1>32, <1>33, <1>34, <1>35, <1>36,
                 <1>37, <1>38, <1>39, <1>40
     DEF Next, LiveStep, JobStep, ReleaseStep, Ensures, Terminated

(***************************************************************************)
(* The invariant, and what follows from it.                                *)
(***************************************************************************)
IndInv ==
    /\ PlacesInv /\ LocksInv /\ ActiveInv /\ AsksInv /\ HasInv /\ ValuesInv
    /\ LoadInv /\ SyncInv /\ MetInv /\ KeptInv /\ IdleInv /\ ShelfInv

\* The invariant holds when the program starts.
LEMMA StartsRight == ASSUME Init PROVE IndInv
<1> USE RuntimeAssumption DEF Init, Requests
<1>1. PlacesInv /\ LocksInv
  BY DEF PlacesInv, LocksInv, LivePlaces, JobPlaces, ReleasePlaces,
         RuntimePlaces, UserPlaces, InferencePlaces
<1>2. ActiveInv
  <2>1. Present = {}
    BY DEF Present
  <2> QED BY <2>1, FS_EmptySet DEF ActiveInv
<1>3. Len(shelf) = 1 /\ shelf[1] = Bundled \cup disk /\ shelf \in Seq(SUBSET Avatars)
  OBVIOUS
<1>4. AsksInv /\ LoadInv /\ SyncInv /\ MetInv
  BY DEF AsksInv, LoadInv, SyncInv, MetInv
<1>5. HasInv /\ ValuesInv
  BY <1>3 DEF HasInv, ValuesInv, Empty
<1>6. KeptInv /\ IdleInv
  <2>1. 0 \in 0..MaxChunks
    OBVIOUS
  <2> QED BY <2>1 DEF KeptInv, IdleInv, Working
<1>7. ShelfInv
  BY <1>3 DEF ShelfInv, Agrees
<1> QED BY <1>1, <1>2, <1>4, <1>5, <1>6, <1>7 DEF IndInv

\* Every step keeps the invariant.
LEMMA StepsKeep == ASSUME IndInv, [Next]_vars PROVE IndInv'
<1> USE DEF IndInv
<1>1. PlacesInv' /\ LocksInv'
  BY PlacesKept, LocksKept
<1>2. ActiveInv' /\ AsksInv'
  BY ActiveKept, AsksKept
<1>3. ValuesInv' /\ HasInv'
  BY ValuesKept
<1>4. LoadInv' /\ SyncInv'
  BY LoadKept, SyncKept
<1>5. MetInv' /\ KeptInv'
  BY MetKept, KeptKept
<1>6. IdleInv' /\ ShelfInv'
  BY IdleKept, ShelfKept
<1> QED BY <1>1, <1>2, <1>3, <1>4, <1>5, <1>6

\* The invariant holds.
LEMMA Invariantly == Spec => []IndInv
<1>1. Init => IndInv
  BY StartsRight
<1>2. IndInv /\ [Next]_vars => IndInv'
  BY StepsKeep
<1> QED BY <1>1, <1>2, PTL DEF Spec

\* The invariant implies the types.
LEMMA TypesFollow == ASSUME IndInv PROVE TypeOK
<1> USE RuntimeAssumption DEF IndInv
<1>1. active \in 0..Cardinality(Lives)
  <2>1. Lives \subseteq Requests /\ Present \subseteq Lives
    BY DEF Requests, Present
  <2>2. /\ IsFiniteSet(Lives) /\ Cardinality(Present) <= Cardinality(Lives)
        /\ Cardinality(Present) \in Nat /\ Cardinality(Lives) \in Nat
    BY <2>1, PresentFinite, FS_Subset, FS_CardinalityType
  <2> QED BY <2>2 DEF ActiveInv
<1>2. {runtimeLock, userLock, inference} \subseteq Requests \cup {Nobody}
  BY DEF LocksInv
<1>3. delays \in [Lives -> 0..MaxChunks]
  BY DEF IdleInv
<1> QED BY <1>1, <1>2, <1>3 DEF TypeOK, ValuesInv, IdleInv, PlacesInv

\* The invariant implies that there is one runtime.
LEMMA OneFollows == ASSUME IndInv PROVE OneRuntime
<1> USE RuntimeAssumption DEF IndInv
<1> DEFINE Users == {u \in (Lives \cup Jobs) \ met :
                        Working(u) \/ at[u] \in {"loading", "restored"}}
           Runtimes == ({pipeline} \ {0}) \cup {has[t].pipeline : t \in Users}
<1>1. \E x : Runtimes \subseteq {x}
  <2>1. CASE pipeline # 0
    <3>1. \A u \in Users : has[u].pipeline = pipeline
      BY <2>1 DEF KeptInv, LoadInv, InUse
    <3> QED BY <2>1, <3>1
  <2>2. CASE pipeline = 0
    <3>1. \A u \in Users : at[u] \in {"loading", "restored"}
      BY <2>2 DEF KeptInv, InUse
    <3>2. \A u \in Users : u = runtimeLock
      <4> SUFFICES ASSUME NEW u \in Users PROVE u = runtimeLock
        OBVIOUS
      <4>1. u \in Requests /\ u \notin Releases
        BY DEF Requests
      <4> QED BY <3>1, <4>1 DEF LocksInv, RuntimePlaces
    <3>3. Runtimes \subseteq {has[runtimeLock].pipeline}
      BY <2>2, <3>2
    <3> QED BY <3>3
  <2> QED BY <2>1, <2>2
<1>2. PICK x : Runtimes \subseteq {x}
  BY <1>1
<1>3. IsFiniteSet({x}) /\ Cardinality({x}) = 1
  BY FS_Singleton
<1>4. Cardinality(Runtimes) <= 1
  <2> HIDE DEF Runtimes
  <2> QED BY <1>2, <1>3, FS_Subset
<1> QED BY <1>4 DEF OneRuntime

\* The models are not released or replaced under whoever works with them, and are in
\* memory once, whatever the requests that come: app.state, its locks and the gate of
\* the inference agree.
THEOREM RuntimeKept == Spec => []RuntimeIsKept
<1>1. IndInv => RuntimeIsKept
  <2> SUFFICES ASSUME IndInv PROVE RuntimeIsKept
    OBVIOUS
  <2>1. LiveKeepsRuntime /\ JobKeepsRuntime
    BY DEF IndInv, KeptInv, LiveKeepsRuntime, JobKeepsRuntime
  <2> QED BY <2>1, TypesFollow, OneFollows DEF RuntimeIsKept
<1> QED BY <1>1, Invariantly, PTL

\* A live request waits for at most one idle chunk, however many chunks a loop has.
THEOREM LiveFirst == Spec => []LiveGoesFirst
<1>1. IndInv => LiveGoesFirst
  BY DEF IndInv, IdleInv, LiveGoesFirst
<1> QED BY <1>1, Invariantly, PTL

\* While no asset is being worked on, the avatars one can ask for are those on the disk,
\* but for those deleted from a registry that was no longer in use.
THEOREM ShelfAgrees == Spec => []ShelfIsDisk
<1>1. IndInv => ShelfIsDisk
  <2> SUFFICES ASSUME IndInv, pipeline # 0, userLock = Nobody
               PROVE  \A a \in Avatars \ (Bundled \cup stale) :
                         a \in disk <=> a \in shelf[registry]
    BY DEF ShelfIsDisk
  <2>1. \A j \in Jobs : at[j] \in {"none", "waiting"}
    BY RuntimeAssumption DEF IndInv, LocksInv, UserPlaces, PlacesInv, Requests
  <2>2. \A a : ~Owed(a)
    BY <2>1 DEF Owed
  <2> QED BY <2>2 DEF IndInv, ShelfInv, Agrees
<1> QED BY <1>1, Invariantly, PTL
=============================================================================
