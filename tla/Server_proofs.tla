---------------------------- MODULE Server_proofs ----------------------------
(***************************************************************************)
(* Proofs about what a session rests on in its server, for any number of   *)
(* requests, workers and publishers and queues of any size.  The slot and  *)
(* the engines: each open engine has one owner, and there is one session   *)
(* at most.  The bus: who has not left has each event once and in order.   *)
(* The media: sound, pictures and what the user says leave in order.       *)
(***************************************************************************)
EXTENDS Server, TLAPS, SequenceTheorems, FiniteSetTheorems, WellFoundedInduction

(***************************************************************************)
(* Sequences without repetitions, and what is in them.                     *)
(***************************************************************************)

Distinct(s) == \A i, j \in 1..Len(s) : s[i] = s[j] => i = j

\* Without its head, a sequence has what it had but for the head.
LEMMA TailHas ==
    ASSUME NEW S, NEW s \in Seq(S), s # <<>>, Distinct(s)
    PROVE  /\ Head(s) \in S /\ Contains(s, Head(s))
           /\ Tail(s) \in Seq(S) /\ Distinct(Tail(s))
           /\ \A e : Contains(Tail(s), e) <=> Contains(s, e) /\ e # Head(s)
<1>1. /\ Len(s) \in Nat \ {0} /\ Head(s) = s[1] /\ Head(s) \in S
      /\ Tail(s) \in Seq(S) /\ Len(Tail(s)) = Len(s) - 1
      /\ \A i \in 1..Len(Tail(s)) : Tail(s)[i] = s[i + 1]
    BY HeadTailProperties, LenProperties, EmptySeq
<1>2. Contains(s, Head(s))
    BY <1>1 DEF Contains
<1>3. Distinct(Tail(s))
    BY <1>1 DEF Distinct
<1>4. ASSUME NEW e, Contains(Tail(s), e)
      PROVE  Contains(s, e) /\ e # Head(s)
  <2>1. PICK i \in 1..Len(Tail(s)) : Tail(s)[i] = e
      BY <1>4 DEF Contains
  <2>2. i + 1 \in 1..Len(s) /\ s[i + 1] = e /\ i + 1 # 1 /\ 1 \in 1..Len(s)
      BY <1>1, <2>1
  <2> QED
      BY <1>1, <2>2 DEF Contains, Distinct
<1>5. ASSUME NEW e, Contains(s, e), e # Head(s)
      PROVE  Contains(Tail(s), e)
  <2>1. PICK i \in 1..Len(s) : s[i] = e
      BY <1>5 DEF Contains
  <2>2. i - 1 \in 1..Len(Tail(s)) /\ Tail(s)[i - 1] = s[(i - 1) + 1]
      BY <1>1, <1>5, <2>1
  <2>3. Tail(s)[i - 1] = e
      BY <1>1, <2>1, <2>2
  <2> QED
      BY <2>2, <2>3 DEF Contains
<1> QED
    BY <1>1, <1>2, <1>3, <1>4, <1>5

\* A cut divides what is in a sequence.
LEMMA CutHas ==
    ASSUME NEW S, NEW s \in Seq(S), NEW n \in 0..Len(s), Distinct(s)
    PROVE  LET old == SubSeq(s, 1, n)
               young == SubSeq(s, n + 1, Len(s))
           IN  /\ old \in Seq(S) /\ young \in Seq(S)
               /\ Distinct(old) /\ Distinct(young)
               /\ \A e : Contains(s, e) <=> Contains(old, e) \/ Contains(young, e)
               /\ \A e : ~(Contains(old, e) /\ Contains(young, e))
<1> DEFINE old == SubSeq(s, 1, n)
           young == SubSeq(s, n + 1, Len(s))
<1>1. Len(s) \in Nat /\ \A i \in 1..Len(s) : s[i] \in S
    BY ElementOfSeq, LenProperties
<1>2. old \in Seq(S) /\ Len(old) = n /\ \A i \in 1..n : old[i] = s[i]
    BY <1>1, SubSeqProperties
<1>3. /\ young \in Seq(S) /\ Len(young) = Len(s) - n
      /\ \A i \in 1..(Len(s) - n) : young[i] = s[n + i]
    BY <1>1, SubSeqProperties
<1> HIDE DEF old, young
<1>4. Distinct(old) /\ Distinct(young)
  <2>1. Distinct(old)
      BY <1>1, <1>2 DEF Distinct
  <2>2. ASSUME NEW i \in 1..Len(young), NEW j \in 1..Len(young), young[i] = young[j]
        PROVE  i = j
    <3>1. i \in 1..(Len(s) - n) /\ j \in 1..(Len(s) - n)
        BY <1>3
    <3>2. s[n + i] = s[n + j]
        BY ONLY <1>3, <2>2, <3>1
    <3>3. n + i \in 1..Len(s) /\ n + j \in 1..Len(s)
        BY <1>1, <3>1
    <3>4. n + i = n + j
        BY ONLY <3>2, <3>3, Distinct(s) DEF Distinct
    <3> QED
        BY <1>1, <3>1, <3>4
  <2> QED
      BY <2>1, <2>2 DEF Distinct
<1>5. ASSUME NEW e, Contains(s, e)
      PROVE  Contains(old, e) \/ Contains(young, e)
  <2>1. PICK i \in 1..Len(s) : s[i] = e
      BY <1>5 DEF Contains
  <2>2. CASE i <= n
      BY <1>1, <1>2, <2>1, <2>2 DEF Contains
  <2>3. CASE i > n
    <3>1. i - n \in 1..Len(young) /\ young[i - n] = s[n + (i - n)] /\ n + (i - n) = i
        BY <1>1, <1>3, <2>1, <2>3
    <3> QED
        BY <2>1, <3>1 DEF Contains
  <2> QED
      BY <1>1, <2>1, <2>2, <2>3
<1>6. \A e : Contains(old, e) => Contains(s, e)
    BY <1>1, <1>2 DEF Contains
<1>7. \A e : Contains(young, e) => Contains(s, e)
    BY <1>1, <1>3 DEF Contains
<1>8. ASSUME NEW e, Contains(old, e), Contains(young, e)
      PROVE  FALSE
  <2>1. PICK i \in 1..n : s[i] = e
      BY <1>2, <1>8 DEF Contains
  <2>2. PICK j \in 1..(Len(s) - n) : s[n + j] = e
      BY <1>3, <1>8 DEF Contains
  <2> QED
      BY <1>1, <2>1, <2>2 DEF Distinct
<1> QED
    BY <1>2, <1>3, <1>4, <1>5, <1>6, <1>7, <1>8 DEF old, young

LEMMA AppendHas ==
    ASSUME NEW S, NEW s \in Seq(S), NEW x \in S, Distinct(s), ~Contains(s, x)
    PROVE  /\ Append(s, x) \in Seq(S) /\ Distinct(Append(s, x))
           /\ \A e : Contains(Append(s, x), e) <=> Contains(s, e) \/ e = x
<1>1. /\ Len(s) \in Nat /\ Append(s, x) \in Seq(S)
      /\ Len(Append(s, x)) = Len(s) + 1 /\ Append(s, x)[Len(s) + 1] = x
      /\ \A i \in 1..Len(s) : Append(s, x)[i] = s[i]
    BY AppendProperties, LenProperties
<1>2. Distinct(Append(s, x))
    BY <1>1 DEF Distinct, Contains
<1>3. \A e : Contains(Append(s, x), e) <=> Contains(s, e) \/ e = x
    BY <1>1 DEF Contains
<1> QED
    BY <1>1, <1>2, <1>3

\* Popped takes one engine out and leaves the others.
LEMMA PoppedHas ==
    ASSUME NEW S, NEW s \in Seq(S), NEW x, Distinct(s)
    PROVE  /\ Popped(s, x) \in Seq(S) /\ Distinct(Popped(s, x))
           /\ \A e : Contains(Popped(s, x), e) <=> Contains(s, e) /\ e # x
<1>1. CASE ~Contains(s, x)
    BY <1>1 DEF Popped
<1>2. CASE Contains(s, x)
  <2> DEFINE k == CHOOSE i \in DOMAIN s : s[i] = x
             old == SubSeq(s, 1, k - 1)
             young == SubSeq(s, k + 1, Len(s))
  <2>1. Len(s) \in Nat /\ DOMAIN s = 1..Len(s) /\ k \in 1..Len(s) /\ s[k] = x
      BY <1>2, LenProperties DEF Contains
  <2>2. Popped(s, x) = old \o young
      BY <1>2 DEF Popped, RemoveAt
  <2> HIDE DEF k
  <2>3. old \in Seq(S) /\ Len(old) = k - 1 /\ \A i \in 1..(k - 1) : old[i] = s[i]
      BY <2>1, SubSeqProperties
  <2>4. /\ young \in Seq(S) /\ Len(young) = Len(s) - k
        /\ \A i \in 1..(Len(s) - k) : young[i] = s[k + i]
    <3>1. k + 1 \in 1..(Len(s) + 1) /\ Len(s) \in k..Len(s)
        BY <2>1
    <3>2. /\ young \in Seq(S)
          /\ Len(young) = IF k + 1 <= Len(s) THEN Len(s) - (k + 1) + 1 ELSE 0
          /\ \A i \in 1..(Len(s) - (k + 1) + 1) : young[i] = s[(k + 1) + i - 1]
        BY <2>1, <3>1, SubSeqProperties
    <3> HIDE DEF young
    <3>3. Len(young) = Len(s) - k
      <4>1. CASE k + 1 <= Len(s)
        <5>1. Len(young) = Len(s) - (k + 1) + 1
            BY ONLY <3>2, <4>1
        <5> QED
            BY ONLY <2>1, <5>1
      <4>2. CASE ~(k + 1 <= Len(s))
        <5>1. Len(young) = 0
            BY ONLY <3>2, <4>2
        <5>2. Len(s) \in Nat /\ k \in Nat /\ k <= Len(s)
            BY ONLY <2>1
        <5>3. k = Len(s)
            BY ONLY <4>2, <5>2
        <5> QED
            BY ONLY <5>1, <5>2, <5>3
      <4> QED
          BY ONLY <4>1, <4>2
    <3>4. ASSUME NEW i \in 1..(Len(s) - k)
          PROVE  young[i] = s[k + i]
      <4>1. i \in 1..(Len(s) - (k + 1) + 1) /\ (k + 1) + i - 1 = k + i
          BY <2>1
      <4>2. young[i] = s[(k + 1) + i - 1]
          BY <3>2, <4>1
      <4> QED
          BY <4>1, <4>2
    <3> QED
        BY <3>2, <3>3, <3>4
  <2> HIDE DEF old, young
  <2> DEFINE both == old \o young
  <2>5. /\ both \in Seq(S) /\ Len(both) = Len(s) - 1
        /\ \A i \in 1..(Len(s) - 1) : both[i] = IF i < k THEN s[i] ELSE s[i + 1]
    <3>1. /\ both \in Seq(S) /\ Len(both) = Len(old) + Len(young)
          /\ \A i \in 1..(Len(old) + Len(young)) :
                both[i] = IF i <= Len(old) THEN old[i] ELSE young[i - Len(old)]
        BY <2>3, <2>4, ConcatProperties
    <3> HIDE DEF both
    <3>2. ASSUME NEW i \in 1..(Len(s) - 1)
          PROVE  both[i] = IF i < k THEN s[i] ELSE s[i + 1]
      <4>1. CASE i < k
        <5>1. i \in 1..(k - 1) /\ i <= Len(old) /\ i \in 1..(Len(old) + Len(young))
            BY <2>1, <2>3, <2>4, <4>1
        <5>2. both[i] = old[i] /\ old[i] = s[i]
            BY <2>3, <3>1, <5>1
        <5> QED
            BY <4>1, <5>2
      <4>2. CASE i >= k
        <5>1. /\ i - (k - 1) \in 1..(Len(s) - k)
              /\ k + (i - (k - 1)) = i + 1
            BY <2>1, <4>2
        <5>2. both[i] = young[i - (k - 1)]
            BY <2>1, <2>3, <2>4, <3>1, <4>2
        <5>3. young[i - (k - 1)] = s[k + (i - (k - 1))]
            BY ONLY <2>4, <5>1
        <5>4. both[i] = s[i + 1]
            BY ONLY <5>1, <5>2, <5>3
        <5>5. ~(i < k)
            BY <2>1, <4>2
        <5> QED
            BY ONLY <5>4, <5>5
      <4> QED
          BY <2>1, <4>1, <4>2
    <3> QED
        BY <2>1, <2>3, <2>4, <3>1, <3>2
  <2> HIDE DEF both
  <2>6. Distinct(both)
    <3> SUFFICES ASSUME NEW i \in 1..Len(both), NEW j \in 1..Len(both),
                        both[i] = both[j]
                 PROVE  i = j
        BY DEF Distinct
    <3> DEFINE a == IF i < k THEN i ELSE i + 1
               b == IF j < k THEN j ELSE j + 1
    <3>1. both[i] = s[a] /\ both[j] = s[b]
        BY <2>5
    <3>2. a \in 1..Len(s) /\ b \in 1..Len(s) /\ (a = b => i = j)
        BY <2>1, <2>5
    <3> HIDE DEF a, b
    <3>3. a = b
        BY ONLY <3>1, <3>2, both[i] = both[j], Distinct(s) DEF Distinct
    <3> QED
        BY <3>2, <3>3
  <2>7. ASSUME NEW e, Contains(both, e)
        PROVE  Contains(s, e) /\ e # x
      BY <2>1, <2>5, <2>7 DEF Contains, Distinct
  <2>8. ASSUME NEW e, Contains(s, e), e # x
        PROVE  Contains(both, e)
    <3>1. PICK i \in 1..Len(s) : s[i] = e
        BY <2>8 DEF Contains
    <3>2. CASE i < k
        BY <2>1, <2>5, <3>1, <3>2 DEF Contains
    <3>3. CASE i > k
      <4>1. i - 1 \in 1..Len(both) /\ both[i - 1] = s[i]
          BY <2>1, <2>5, <3>1, <3>3
      <4> QED
          BY <3>1, <4>1 DEF Contains
    <3> QED
        BY <2>1, <2>8, <3>1, <3>2, <3>3
  <2> QED
      BY <2>2, <2>5, <2>6, <2>7, <2>8 DEF both
<1> QED
    BY <1>1, <1>2

(***************************************************************************)
(* The invariant of the slot and the engines.                              *)
(***************************************************************************)

SlotTypes ==
    /\ at \in [Requests -> {"new", "built", "expiring", "claimed", "taking",
                            "negotiating", "cleaning", "releasing", "done"}]
    /\ has \in [Requests -> Builders \cup {None}]
    /\ expired \in [Requests -> Seq(Builders)]
    /\ engine \in [Builders -> {"none", "open", "closed", "broken"}]
    /\ reserved \in BOOLEAN /\ task \in Builders \cup {None}
    /\ session \in [Builders -> {"none", "created", "running", "closing", "done"}]
    /\ metrics \in Builders \cup {None}
    /\ store \in Seq(Builders) /\ lost \subseteq Builders
    /\ server \in {"serving", "waiting", "closing", "stopped"}

\* Who has the engine e: a request, for itself or among the expired ones it closes, the
\* store, or a session.
HasIt(r, e) == has[r] = e
Expiring(r, e) == Contains(expired[r], e)
Stored(e) == Contains(store, e)
Live(e) == session[e] \notin {"none", "done"}

\* What a request has at each of its places.
Place(r) ==
    /\ r \in Offers => at[r] \notin {"built", "expiring"}
    /\ r \notin Offers => at[r] \in {"new", "built", "expiring", "done"}
    /\ at[r] \in {"built", "negotiating", "cleaning"} => has[r] \in Builders
    /\ at[r] \notin {"built", "taking", "negotiating", "cleaning"} => has[r] = None
    /\ at[r] \notin {"expiring", "taking"} => expired[r] = <<>>
    /\ r \in Builders /\ at[r] \in {"new", "claimed"} => engine[r] = "none"
Places == \A r \in Requests : Place(r)

\* The slot: reserved by the one offer that is being answered, or the task of the one
\* session there is.  A server that stops has no requests.
Occupied(o) == at[o] \in {"claimed", "taking", "negotiating", "cleaning", "releasing"}
OneAtATime ==
    /\ \A o \in Offers : Occupied(o) => reserved
    /\ \A o, p \in Offers : Occupied(o) /\ Occupied(p) => o = p
    /\ \A e \in Builders : Live(e) => task = e
    /\ reserved => task = None
    /\ task # None => session[task] # "none"
    /\ metrics = None \/ session[metrics] = "running"
    /\ server # "serving" => \A r \in Requests : at[r] \in {"new", "done"}

\* Nobody has an engine that another one has, nor one engine twice.
Apart ==
    /\ \A r, q \in Requests, e \in Builders : HasIt(r, e) /\ HasIt(q, e) => r = q
    /\ \A r, q \in Requests, e \in Builders : Expiring(r, e) /\ Expiring(q, e) => r = q
    /\ \A r, q \in Requests, e \in Builders : ~(HasIt(r, e) /\ Expiring(q, e))
    /\ \A r \in Requests, e \in Builders : ~(HasIt(r, e) /\ Stored(e))
    /\ \A r \in Requests, e \in Builders : ~(Expiring(r, e) /\ Stored(e))
    /\ \A r \in Requests, e \in Builders : ~(HasIt(r, e) /\ Live(e))
    /\ \A r \in Requests, e \in Builders : ~(Expiring(r, e) /\ Live(e))
    /\ \A e \in Builders : ~(Stored(e) /\ Live(e))
Singly == Distinct(store) /\ \A r \in Requests : Distinct(expired[r])

\* Who has an engine has an open one, and an open one that nobody has is lost.
Owned(e) == Stored(e) \/ Live(e) \/ \E r \in Requests : HasIt(r, e) \/ Expiring(r, e)
Kept ==
    /\ \A e \in Builders : Owned(e) <=> engine[e] = "open" /\ e \notin lost
    /\ \A e \in lost : engine[e] # "none"

SlotInv == SlotTypes /\ Places /\ OneAtATime /\ Apart /\ Singly /\ Kept

-----------------------------------------------------------------------------
\* A request moves; what the others have stays, and no engine disappears.
LEMMA PlacesMove ==
    ASSUME SlotTypes, Places, NEW r \in Requests, Place(r)',
           \A q \in Requests \ {r} :
              at'[q] = at[q] /\ has'[q] = has[q] /\ expired'[q] = expired[q],
           \A b \in Builders : engine'[b] = engine[b] \/ engine[b] # "none" \/ b = r
    PROVE  Places'
BY Zenon DEF Places, Place

\* No request moves.
LEMMA PlacesStay ==
    ASSUME Places, UNCHANGED <<at, has, expired>>,
           \A b \in Builders : engine'[b] = engine[b] \/ engine[b] # "none"
    PROVE  Places'
BY Zenon DEF Places, Place

\* No engine changes hands.
LEMMA SameHands ==
    ASSUME Apart, Singly, Kept, UNCHANGED <<has, expired, store, engine, lost>>,
           \A e \in Builders : Live(e)' <=> Live(e)
    PROVE  Apart' /\ Singly' /\ Kept'
<1>1. \A r \in Requests, e \in Builders :
          (HasIt(r, e)' <=> HasIt(r, e)) /\ (Expiring(r, e)' <=> Expiring(r, e))
    BY DEF HasIt, Expiring
<1>2. \A e \in Builders : Stored(e)' <=> Stored(e)
    BY DEF Stored
<1>3. Apart'
    BY <1>1, <1>2 DEF Apart
<1>4. Singly'
    BY DEF Singly
<1>5. \A e \in Builders : Owned(e)' <=> Owned(e)
    BY <1>1, <1>2 DEF Owned
<1>6. Kept'
    BY <1>5 DEF Kept
<1> QED
    BY <1>3, <1>4, <1>6

\* The slot when a request moves that is not being answered as an offer, before or after.
LEMMA SlotStays ==
    ASSUME SlotTypes, OneAtATime, UNCHANGED <<reserved, task, metrics, server>>,
           \A o \in Offers : Occupied(o)' => Occupied(o),
           \A r \in Requests : at[r] \in {"new", "done"} => at'[r] \in {"new", "done"} \/ server = "serving",
           \A e \in Builders : Live(e)' => Live(e),
           metrics # None => session'[metrics] = session[metrics],
           \A e \in Builders : session[e] # "none" => session'[e] # "none"
    PROVE  OneAtATime'
<1>1. task # None => session'[task] # "none"
    BY DEF OneAtATime, SlotTypes
<1> QED
    BY <1>1 DEF OneAtATime

\* An offer claims a slot that is free.
LEMMA ClaimKeeps ==
    ASSUME SlotInv, NEW o \in Offers, Claim(o)
    PROVE  SlotInv'
<1> USE DEF SlotInv
<1>0. o \in Requests /\ o \in Builders
    BY DEF Requests, Builders
<1>1. SlotTypes'
    BY <1>0 DEF SlotTypes, Claim, Proceeds, slotVars
<1>2. Place(o)'
    BY <1>0 DEF SlotTypes, Places, Place, OneAtATime, Claim, Proceeds, slotVars
<1>3. Places'
    BY <1>0, <1>2, PlacesMove DEF SlotTypes, Claim, Proceeds
<1>4. OneAtATime'
    BY <1>0 DEF SlotTypes, Places, Place, OneAtATime, Occupied, Live, SessionAlive, Claim, Proceeds, slotVars
<1>5. Apart' /\ Singly' /\ Kept'
    BY SameHands DEF Claim, slotVars, Live
<1> QED
    BY <1>1, <1>3, <1>4, <1>5

\* An offer is refused.
LEMMA RefusedKeeps ==
    ASSUME SlotInv, NEW o \in Offers, Refused(o)
    PROVE  SlotInv'
<1> USE DEF SlotInv
<1>0. o \in Requests /\ o \in Builders
    BY DEF Requests, Builders
<1>1. SlotTypes'
    BY <1>0 DEF SlotTypes, Refused, Proceeds, slotVars
<1>2. Place(o)'
    BY <1>0 DEF SlotTypes, Places, Place, OneAtATime, Refused, Proceeds, slotVars
<1>3. Places'
    BY <1>0, <1>2, PlacesMove DEF SlotTypes, Refused, Proceeds
<1>4. OneAtATime'
    BY <1>0 DEF SlotTypes, Places, Place, OneAtATime, Occupied, Live, SessionAlive, Refused, Proceeds, slotVars
<1>5. Apart' /\ Singly' /\ Kept'
    BY SameHands DEF Refused, slotVars, Live
<1> QED
    BY <1>1, <1>3, <1>4, <1>5

\* A request is answered.
LEMMA AnsweredKeeps ==
    ASSUME SlotInv, NEW r \in Requests, Answered(r)
    PROVE  SlotInv'
<1> USE DEF SlotInv
<1>0. r \in Requests
    BY DEF Requests, Builders
<1>1. SlotTypes'
    BY <1>0 DEF SlotTypes, Answered, Proceeds, slotVars
<1>2. Place(r)'
    BY <1>0 DEF SlotTypes, Places, Place, OneAtATime, Answered, Proceeds, slotVars
<1>3. Places'
    BY <1>0, <1>2, PlacesMove DEF SlotTypes, Answered, Proceeds
<1>4. OneAtATime'
    BY <1>0 DEF SlotTypes, Places, Place, OneAtATime, Occupied, Live, SessionAlive, Answered, Proceeds, slotVars
<1>5. Apart' /\ Singly' /\ Kept'
    BY SameHands DEF Answered, slotVars, Live
<1> QED
    BY <1>1, <1>3, <1>4, <1>5

\* An offer has taken its engine, or found none.
LEMMA HasTakenKeeps ==
    ASSUME SlotInv, NEW o \in Offers, OfferHasTaken(o)
    PROVE  SlotInv'
<1> USE DEF SlotInv
<1>0. o \in Requests /\ o \in Builders
    BY DEF Requests, Builders
<1>1. SlotTypes'
    BY <1>0 DEF SlotTypes, OfferHasTaken, Proceeds, slotVars
<1>2. Place(o)'
    BY <1>0 DEF SlotTypes, Places, Place, OneAtATime, OfferHasTaken, Proceeds, slotVars
<1>3. Places'
    BY <1>0, <1>2, PlacesMove DEF SlotTypes, OfferHasTaken, Proceeds
<1>4. OneAtATime'
    BY <1>0 DEF SlotTypes, Places, Place, OneAtATime, Occupied, Live, SessionAlive, OfferHasTaken, Proceeds, slotVars
<1>5. Apart' /\ Singly' /\ Kept'
    BY SameHands DEF OfferHasTaken, slotVars, Live
<1> QED
    BY <1>1, <1>3, <1>4, <1>5

\* A negotiation fails.
LEMMA FailsKeeps ==
    ASSUME SlotInv, NEW o \in Offers, OfferFails(o)
    PROVE  SlotInv'
<1> USE DEF SlotInv
<1>0. o \in Requests /\ o \in Builders
    BY DEF Requests, Builders
<1>1. SlotTypes'
    BY <1>0 DEF SlotTypes, OfferFails, Proceeds, slotVars
<1>2. Place(o)'
    BY <1>0 DEF SlotTypes, Places, Place, OneAtATime, OfferFails, Proceeds, slotVars
<1>3. Places'
    BY <1>0, <1>2, PlacesMove DEF SlotTypes, OfferFails, Proceeds
<1>4. OneAtATime'
    BY <1>0 DEF SlotTypes, Places, Place, OneAtATime, Occupied, Live, SessionAlive, OfferFails, Proceeds, slotVars
<1>5. Apart' /\ Singly' /\ Kept'
    BY SameHands DEF OfferFails, slotVars, Live
<1> QED
    BY <1>1, <1>3, <1>4, <1>5

\* An offer releases the slot.
LEMMA ReleaseKeeps ==
    ASSUME SlotInv, NEW o \in Offers, ReleaseSlot(o)
    PROVE  SlotInv'
<1> USE DEF SlotInv
<1>0. o \in Requests /\ o \in Builders
    BY DEF Requests, Builders
<1>1. SlotTypes'
    BY <1>0 DEF SlotTypes, ReleaseSlot, Proceeds, slotVars
<1>2. Place(o)'
    BY <1>0 DEF SlotTypes, Places, Place, OneAtATime, ReleaseSlot, Proceeds, slotVars
<1>3. Places'
    BY <1>0, <1>2, PlacesMove DEF SlotTypes, ReleaseSlot, Proceeds
<1>4. OneAtATime'
    BY <1>0 DEF SlotTypes, Places, Place, OneAtATime, Occupied, Live, SessionAlive, ReleaseSlot, Proceeds, slotVars
<1>5. Apart' /\ Singly' /\ Kept'
    BY SameHands DEF ReleaseSlot, slotVars, Live
<1> QED
    BY <1>1, <1>3, <1>4, <1>5

\* A session runs, and its turns are counted.
LEMMA RunsKeeps ==
    ASSUME SlotInv, NEW e \in Builders, SessionRuns(e)
    PROVE  SlotInv'
<1> USE DEF SlotInv
<1>1. SlotTypes'
    BY DEF SlotTypes, SessionRuns, slotVars
<1>2. Places'
    BY PlacesStay DEF SessionRuns, slotVars
<1>3. OneAtATime'
    BY SlotAssumption DEF SlotTypes, OneAtATime, Occupied, Live, SessionAlive, SessionRuns, slotVars
<1>4. Apart' /\ Singly' /\ Kept'
    BY SameHands DEF SlotTypes, SessionRuns, slotVars, Live
<1> QED
    BY <1>1, <1>2, <1>3, <1>4

\* The stream of a session ends.
LEMMA EndsKeeps ==
    ASSUME SlotInv, NEW e \in Builders, SessionEnds(e)
    PROVE  SlotInv'
<1> USE DEF SlotInv
<1>1. SlotTypes'
    BY DEF SlotTypes, SessionEnds, slotVars
<1>2. Places'
    BY PlacesStay DEF SessionEnds, slotVars
<1>3. OneAtATime'
    BY SlotAssumption DEF SlotTypes, OneAtATime, Occupied, Live, SessionAlive, SessionEnds, slotVars
<1>4. Apart' /\ Singly' /\ Kept'
    BY SameHands DEF SlotTypes, SessionEnds, slotVars, Live
<1> QED
    BY <1>1, <1>2, <1>3, <1>4

\* The task of a session that is done is forgotten.
LEMMA OnDoneKeeps ==
    ASSUME SlotInv, NEW e \in Builders, OnDone(e)
    PROVE  SlotInv'
<1> USE DEF SlotInv
<1>1. SlotTypes'
    BY DEF SlotTypes, OnDone, slotVars
<1>2. Places'
    BY PlacesStay DEF OnDone, slotVars
<1>3. OneAtATime'
    BY SlotAssumption DEF SlotTypes, OneAtATime, Occupied, Live, SessionAlive, OnDone, slotVars
<1>4. Apart' /\ Singly' /\ Kept'
    BY SameHands DEF SlotTypes, OnDone, slotVars, Live
<1> QED
    BY <1>1, <1>2, <1>3, <1>4

\* The session has stopped.
LEMMA StoppedKeeps ==
    ASSUME SlotInv, SessionStopped
    PROVE  SlotInv'
<1> USE DEF SlotInv
<1>1. SlotTypes'
    BY DEF SlotTypes, SessionStopped, slotVars
<1>2. Places'
    BY PlacesStay DEF SessionStopped, slotVars
<1>3. OneAtATime'
    BY SlotAssumption DEF SlotTypes, OneAtATime, Occupied, Live, SessionAlive, SessionStopped, slotVars
<1>4. Apart' /\ Singly' /\ Kept'
    BY SameHands DEF SlotTypes, SessionStopped, slotVars, Live
<1> QED
    BY <1>1, <1>2, <1>3, <1>4

\* The server stops.
LEMMA ServerStopsKeeps ==
    ASSUME SlotInv, ServerStops
    PROVE  SlotInv'
<1> USE DEF SlotInv
<1>1. SlotTypes'
    BY DEF SlotTypes, ServerStops, slotVars
<1>2. Places'
    BY PlacesStay DEF ServerStops, slotVars
<1>3. OneAtATime'
    BY SlotAssumption DEF SlotTypes, OneAtATime, Occupied, Live, SessionAlive, ServerStops, slotVars
<1>4. Apart' /\ Singly' /\ Kept'
    BY SameHands DEF SlotTypes, ServerStops, slotVars, Live
<1> QED
    BY <1>1, <1>2, <1>3, <1>4

-----------------------------------------------------------------------------
(***************************************************************************)
(* The actions by which engines change hands.                              *)
(***************************************************************************)

\* A request builds an engine, or fails to.
LEMMA BuildsKeeps ==
    ASSUME SlotInv, NEW r \in Builders, NEW next, NEW failed, Builds(r, next, failed),
           engine[r] = "none", has[r] = None, expired[r] = <<>>,
           UNCHANGED <<expired, store, session, lost>>
    PROVE  Apart' /\ Singly' /\ Kept'
<1> USE DEF SlotInv
<1>1. CASE UNCHANGED <<engine, has>>
    BY <1>1, SameHands DEF Live
<1>2. CASE engine' = [engine EXCEPT ![r] = "open"] /\ Holds(r, r)
  <2>1. r \in Requests /\ ~Owned(r) /\ r \notin lost
      BY DEF Kept, Requests
  <2>2. \A q \in Requests, e \in Builders :
            HasIt(q, e)' <=> HasIt(q, e) \/ (q = r /\ e = r)
      BY <1>2, <2>1, SlotAssumption DEF SlotTypes, HasIt, Holds, Requests
  <2>3. /\ \A q \in Requests, e \in Builders : Expiring(q, e)' <=> Expiring(q, e)
        /\ \A e \in Builders : (Stored(e)' <=> Stored(e)) /\ (Live(e)' <=> Live(e))
      BY DEF Expiring, Stored, Live
  <2>4. \A e \in Builders : Owned(e)' <=> Owned(e) \/ e = r
      BY <2>1, <2>2, <2>3 DEF Owned
  <2>5. Apart'
      BY <2>1, <2>2, <2>3 DEF Apart, Owned
  <2>6. Singly'
      BY DEF Singly
  <2>7. Kept'
      BY <1>2, <2>1, <2>4 DEF Kept, SlotTypes
  <2> QED
      BY <2>5, <2>6, <2>7
<1> QED
    BY <1>1, <1>2 DEF Builds

LEMMA BuildsTypes ==
    ASSUME SlotTypes, NEW r \in Builders, NEW next, NEW failed, Builds(r, next, failed),
           UNCHANGED <<expired, slotVars, store, server, lost>>,
           {next, failed} \subseteq {"built", "negotiating", "releasing", "done"}
    PROVE  /\ SlotTypes'
           /\ at'[r] \in {next, failed}
           /\ \A q \in Requests \ {r} : at'[q] = at[q]
<1>1. r \in Requests
    BY DEF Requests
<1>2. PICK place \in {next, failed} : at' = [at EXCEPT ![r] = place]
    BY DEF Builds, Proceeds
<1>3. at' \in [Requests -> {"new", "built", "expiring", "claimed", "taking",
                            "negotiating", "cleaning", "releasing", "done"}]
    BY <1>1, <1>2 DEF SlotTypes
<1>4. engine' \in [Builders -> {"none", "open", "closed", "broken"}]
    BY <1>1 DEF SlotTypes, Builds
<1>5. has' \in [Requests -> Builders \cup {None}]
    BY <1>1 DEF SlotTypes, Builds, Holds
<1>6. SlotTypes'
    BY <1>3, <1>4, <1>5 DEF SlotTypes, slotVars
<1> QED
    BY <1>1, <1>2, <1>6 DEF SlotTypes

LEMMA ConnectBuildsKeeps ==
    ASSUME SlotInv, NEW c \in Connects, ConnectBuilds(c)
    PROVE  SlotInv'
<1> USE DEF SlotInv
<1>0. c \in Requests /\ c \in Builders /\ c \notin Offers /\ c # None
    BY SlotAssumption DEF Requests, Builders
<1>1. /\ SlotTypes'
      /\ at'[c] \in {"built", "done"}
      /\ \A q \in Requests \ {c} : at'[q] = at[q]
    BY <1>0, BuildsTypes DEF ConnectBuilds
<1>2. Place(c)'
    BY <1>0 DEF SlotTypes, Places, Place, ConnectBuilds, Builds, Holds, Proceeds, slotVars
<1>3. Places'
    BY <1>0, <1>2, PlacesMove DEF SlotTypes, ConnectBuilds, Builds, Holds, Proceeds
<1>4. OneAtATime'
  <2>1. \A p \in Offers : Occupied(p)' => Occupied(p)
      BY <1>0, <1>1 DEF ConnectBuilds, Occupied, Requests, Builders
  <2>2. server = "serving"
      BY <1>0 DEF ConnectBuilds, OneAtATime
  <2> QED
      BY <2>1, <2>2, SlotStays DEF ConnectBuilds, slotVars, Live
<1>5. engine[c] = "none" /\ has[c] = None /\ expired[c] = <<>>
    BY <1>0 DEF Places, Place, ConnectBuilds
<1>6. Apart' /\ Singly' /\ Kept'
    BY <1>0, <1>5, BuildsKeeps DEF ConnectBuilds, slotVars
<1> QED
    BY <1>1, <1>3, <1>4, <1>6

LEMMA OfferBuildsKeeps ==
    ASSUME SlotInv, NEW o \in Offers, OfferBuilds(o)
    PROVE  SlotInv'
<1> USE DEF SlotInv
<1>0. o \in Requests /\ o \in Builders /\ o # None
    BY SlotAssumption DEF Requests, Builders
<1>1. /\ SlotTypes'
      /\ at'[o] \in {"negotiating", "releasing"}
      /\ \A q \in Requests \ {o} : at'[q] = at[q]
    BY <1>0, BuildsTypes DEF OfferBuilds
<1>2. Place(o)'
    BY <1>0 DEF SlotTypes, Places, Place, OfferBuilds, Builds, Holds, Proceeds, slotVars
<1>3. Places'
    BY <1>0, <1>2, PlacesMove DEF SlotTypes, OfferBuilds, Builds, Holds, Proceeds
<1>4. OneAtATime'
  <2>1. \A p \in Offers : Occupied(p)' => Occupied(p)
      BY <1>0, <1>1 DEF OfferBuilds, Occupied, Requests, Builders
  <2>2. server = "serving"
      BY <1>0 DEF OfferBuilds, OneAtATime
  <2> QED
      BY <2>1, <2>2, SlotStays DEF OfferBuilds, slotVars, Live
<1>5. engine[o] = "none" /\ has[o] = None /\ expired[o] = <<>>
    BY <1>0 DEF Places, Place, OfferBuilds
<1>6. Apart' /\ Singly' /\ Kept'
    BY <1>0, <1>5, BuildsKeeps DEF OfferBuilds, slotVars
<1> QED
    BY <1>1, <1>3, <1>4, <1>6

\* put: the oldest engines are for the request to close, and it leaves its own.
LEMMA ConnectPutsKeeps ==
    ASSUME SlotInv, NEW c \in Connects, ConnectPuts(c)
    PROVE  SlotInv'
<1> USE DEF SlotInv
<1>0. /\ c \in Requests /\ c \notin Offers
      /\ has[c] \in Builders /\ has[c] # None /\ expired[c] = <<>>
    BY SlotAssumption DEF Requests, Builders, Places, Place, ConnectPuts
<1>1. PICK n \in 0..Len(store) :
          /\ expired' = [expired EXCEPT ![c] = SubSeq(store, 1, n)]
          /\ store' = Append(SubSeq(store, n + 1, Len(store)), has[c])
    BY DEF ConnectPuts, Expires, Remaining
<1> DEFINE old == SubSeq(store, 1, n)
           young == SubSeq(store, n + 1, Len(store))
<1>2. /\ old \in Seq(Builders) /\ young \in Seq(Builders)
      /\ Distinct(old) /\ Distinct(young)
      /\ \A e : Contains(store, e) <=> Contains(old, e) \/ Contains(young, e)
      /\ \A e : ~(Contains(old, e) /\ Contains(young, e))
    BY CutHas DEF SlotTypes, Singly
<1> HIDE DEF old, young
<1>3. ~Contains(young, has[c])
    BY <1>0, <1>2 DEF Apart, HasIt, Stored
<1>4. /\ Append(young, has[c]) \in Seq(Builders) /\ Distinct(Append(young, has[c]))
      /\ \A e : Contains(Append(young, has[c]), e) <=> Contains(young, e) \/ e = has[c]
    BY <1>0, <1>2, <1>3, AppendHas
<1>5. expired' = [expired EXCEPT ![c] = old] /\ store' = Append(young, has[c])
    BY <1>1 DEF old, young
<1>6. SlotTypes'
    BY <1>0, <1>2, <1>4, <1>5 DEF SlotTypes, ConnectPuts, Holds, Proceeds, slotVars
<1>7. Place(c)'
    BY <1>0 DEF SlotTypes, Places, Place, ConnectPuts, Holds, Proceeds
<1>8. Places'
    BY <1>0, <1>5, <1>7, PlacesMove DEF SlotTypes, ConnectPuts, Holds, Proceeds
<1>9. OneAtATime'
    BY <1>0 DEF SlotTypes, OneAtATime, Occupied, Live, ConnectPuts, Proceeds, slotVars
<1>10. \A r \in Requests, e \in Builders : HasIt(r, e)' <=> HasIt(r, e) /\ r # c
    BY <1>0, SlotAssumption DEF HasIt, SlotTypes, ConnectPuts, Holds, Requests
<1>11. \A r \in Requests, e \in Builders :
           Expiring(r, e)' <=> Expiring(r, e) \/ (r = c /\ Contains(old, e))
    BY <1>0, <1>5 DEF Expiring, SlotTypes, Contains
<1>12. \A e \in Builders : Stored(e)' <=> Contains(young, e) \/ HasIt(c, e)
    BY <1>4, <1>5 DEF Stored, HasIt
<1>13. \A e \in Builders : /\ Live(e)' <=> Live(e)
                           /\ Stored(e) <=> Contains(old, e) \/ Contains(young, e)
    BY <1>2 DEF Live, Stored, ConnectPuts, slotVars
<1>14. Apart'
    BY <1>0, <1>2, <1>10, <1>11, <1>12, <1>13 DEF Apart
<1>15. Singly'
    BY <1>0, <1>2, <1>4, <1>5 DEF Singly, SlotTypes
<1>16. \A e \in Builders : Owned(e)' <=> Owned(e)
    BY <1>0, <1>10, <1>11, <1>12, <1>13 DEF Owned
<1>17. Kept'
    BY <1>16 DEF Kept, ConnectPuts
<1> QED
    BY <1>6, <1>8, <1>9, <1>14, <1>15, <1>17

\* get: the oldest engines are for the request to close.
LEMMA VisitGetsKeeps ==
    ASSUME SlotInv, NEW v \in Visits, VisitGets(v)
    PROVE  SlotInv'
<1> USE DEF SlotInv
<1>0. /\ v \in Requests /\ v \notin Offers /\ v \notin Builders
      /\ has[v] = None /\ expired[v] = <<>>
    BY SlotAssumption DEF Requests, Builders, Places, Place, VisitGets
<1>1. PICK n \in 0..Len(store) :
          /\ expired' = [expired EXCEPT ![v] = SubSeq(store, 1, n)]
          /\ store' = SubSeq(store, n + 1, Len(store))
    BY DEF VisitGets, Expires, Remaining
<1> DEFINE old == SubSeq(store, 1, n)
           young == SubSeq(store, n + 1, Len(store))
<1>2. /\ old \in Seq(Builders) /\ young \in Seq(Builders)
      /\ Distinct(old) /\ Distinct(young)
      /\ \A e : Contains(store, e) <=> Contains(old, e) \/ Contains(young, e)
      /\ \A e : ~(Contains(old, e) /\ Contains(young, e))
    BY CutHas DEF SlotTypes, Singly
<1> HIDE DEF old, young
<1>3. expired' = [expired EXCEPT ![v] = old] /\ store' = young
    BY <1>1 DEF old, young
<1>4. SlotTypes'
    BY <1>0, <1>2, <1>3 DEF SlotTypes, VisitGets, Proceeds, slotVars
<1>5. Place(v)'
    BY <1>0 DEF SlotTypes, Places, Place, VisitGets, Proceeds
<1>6. Places'
    BY <1>0, <1>3, <1>5, PlacesMove DEF SlotTypes, VisitGets, Proceeds
<1>7. OneAtATime'
    BY <1>0 DEF SlotTypes, OneAtATime, Occupied, Live, VisitGets, Proceeds, slotVars
<1>8. \A r \in Requests, e \in Builders :
          /\ HasIt(r, e)' <=> HasIt(r, e)
          /\ Expiring(r, e)' <=> Expiring(r, e) \/ (r = v /\ Contains(old, e))
    BY <1>0, <1>3 DEF HasIt, Expiring, SlotTypes, Contains, VisitGets
<1>9. \A e \in Builders : /\ Live(e)' <=> Live(e)
                          /\ Stored(e)' <=> Contains(young, e)
                          /\ Stored(e) <=> Contains(old, e) \/ Contains(young, e)
    BY <1>2, <1>3 DEF Live, Stored, VisitGets, slotVars
<1>10. Apart'
    BY <1>0, <1>2, <1>8, <1>9 DEF Apart
<1>11. Singly'
    BY <1>0, <1>2, <1>3 DEF Singly, SlotTypes
<1>12. \A e \in Builders : Owned(e)' <=> Owned(e)
    BY <1>0, <1>8, <1>9 DEF Owned
<1>13. Kept'
    BY <1>12 DEF Kept, VisitGets
<1> QED
    BY <1>4, <1>6, <1>7, <1>10, <1>11, <1>13

\* remove: an engine leaves the store for the request to close.
LEMMA VisitRemovesKeeps ==
    ASSUME SlotInv, NEW v \in Visits, NEW x \in Builders, VisitRemoves(v, x)
    PROVE  SlotInv'
<1> USE DEF SlotInv
<1>0. /\ v \in Requests /\ v \notin Offers /\ v \notin Builders
      /\ has[v] = None /\ expired[v] = <<>> /\ Stored(x)
    BY SlotAssumption DEF Requests, Builders, Places, Place, VisitRemoves, Stored
<1> DEFINE rest == Popped(store, x)
           one == <<x>>
<1>1. expired' = [expired EXCEPT ![v] = one] /\ store' = rest
    BY DEF VisitRemoves
<1>2. /\ rest \in Seq(Builders) /\ Distinct(rest)
      /\ \A e : Contains(rest, e) <=> Contains(store, e) /\ e # x
    BY PoppedHas DEF SlotTypes, Singly
<1>3. one \in Seq(Builders) /\ Distinct(one) /\ \A e : Contains(one, e) <=> e = x
    BY DEF Distinct, Contains
<1> HIDE DEF rest, one
<1>4. SlotTypes'
    BY <1>0, <1>1, <1>2, <1>3 DEF SlotTypes, VisitRemoves, Proceeds, slotVars
<1>5. Place(v)'
    BY <1>0 DEF SlotTypes, Places, Place, VisitRemoves, Proceeds
<1>6. Places'
    BY <1>0, <1>1, <1>5, PlacesMove DEF SlotTypes, VisitRemoves, Proceeds
<1>7. OneAtATime'
    BY <1>0 DEF SlotTypes, OneAtATime, Occupied, Live, VisitRemoves, Proceeds, slotVars
<1>8. \A r \in Requests, e \in Builders :
          /\ HasIt(r, e)' <=> HasIt(r, e)
          /\ Expiring(r, e)' <=> Expiring(r, e) \/ (r = v /\ e = x)
    BY <1>0, <1>1, <1>3 DEF HasIt, Expiring, SlotTypes, Contains, VisitRemoves
<1>9. \A e \in Builders : /\ Live(e)' <=> Live(e)
                          /\ Stored(e)' <=> Stored(e) /\ e # x
    BY <1>1, <1>2 DEF Live, Stored, VisitRemoves, slotVars
<1>10. Apart'
    BY <1>0, <1>8, <1>9 DEF Apart
<1>11. Singly'
    BY <1>0, <1>1, <1>2, <1>3 DEF Singly, SlotTypes
<1>12. \A e \in Builders : Owned(e)' <=> Owned(e)
    BY <1>0, <1>8, <1>9 DEF Owned
<1>13. Kept'
    BY <1>12 DEF Kept, VisitRemoves
<1> QED
    BY <1>4, <1>6, <1>7, <1>10, <1>11, <1>13

\* take: the oldest engines are for the offer to close, and it has the one it asked for,
\* if that is still in the store.
LEMMA OfferTakesKeeps ==
    ASSUME SlotInv, NEW o \in Offers, NEW x \in Builders, OfferTakes(o, x)
    PROVE  SlotInv'
<1> USE DEF SlotInv
<1>0. /\ o \in Requests /\ o \in Builders /\ x # None
      /\ has[o] = None /\ expired[o] = <<>> /\ at[o] = "claimed"
    BY SlotAssumption DEF Requests, Builders, Places, Place, OfferTakes
<1>1. PICK n \in 0..Len(store) :
          /\ expired' = [expired EXCEPT ![o] = SubSeq(store, 1, n)]
          /\ store' = Popped(SubSeq(store, n + 1, Len(store)), x)
          /\ has' = [has EXCEPT ![o] =
                        IF Contains(SubSeq(store, n + 1, Len(store)), x) THEN x ELSE None]
    BY DEF OfferTakes, Expires, Remaining, Holds
<1> DEFINE old == SubSeq(store, 1, n)
           young == SubSeq(store, n + 1, Len(store))
           rest == Popped(young, x)
<1>2. /\ old \in Seq(Builders) /\ young \in Seq(Builders)
      /\ Distinct(old) /\ Distinct(young)
      /\ \A e : Contains(store, e) <=> Contains(old, e) \/ Contains(young, e)
      /\ \A e : ~(Contains(old, e) /\ Contains(young, e))
    BY CutHas DEF SlotTypes, Singly
<1> HIDE DEF old, young
<1>3. /\ rest \in Seq(Builders) /\ Distinct(rest)
      /\ \A e : Contains(rest, e) <=> Contains(young, e) /\ e # x
    BY <1>2, PoppedHas
<1>4. expired' = [expired EXCEPT ![o] = old] /\ store' = rest
    BY <1>1 DEF old, young
<1>5. has' = [has EXCEPT ![o] = IF Contains(young, x) THEN x ELSE None]
    BY <1>1 DEF young
<1> HIDE DEF rest
<1>6. SlotTypes'
    BY <1>0, <1>2, <1>3, <1>4, <1>5 DEF SlotTypes, OfferTakes, Proceeds, slotVars
<1>7. Place(o)'
    BY <1>0 DEF SlotTypes, Places, Place, OfferTakes, Proceeds
<1>8. Places'
    BY <1>0, <1>4, <1>5, <1>7, PlacesMove DEF SlotTypes, OfferTakes, Proceeds
<1>9. OneAtATime'
  <2>1. \A p \in Offers : Occupied(p)' => Occupied(p)
      BY <1>0 DEF OfferTakes, Proceeds, Occupied, SlotTypes
  <2>2. server = "serving"
      BY <1>0 DEF OneAtATime
  <2> QED
      BY <2>1, <2>2, SlotStays DEF OfferTakes, slotVars, Live
<1>10. \A r \in Requests, e \in Builders :
          /\ HasIt(r, e)' <=> HasIt(r, e) \/ (r = o /\ e = x /\ Contains(young, x))
          /\ Expiring(r, e)' <=> Expiring(r, e) \/ (r = o /\ Contains(old, e))
  <2>1. ASSUME NEW r \in Requests, NEW e \in Builders
        PROVE  HasIt(r, e)' <=> HasIt(r, e) \/ (r = o /\ e = x /\ Contains(young, x))
      BY <1>0, <1>5, SlotAssumption DEF HasIt, SlotTypes, Requests
  <2>2. \A r \in Requests, e \in Builders :
           Expiring(r, e)' <=> Expiring(r, e) \/ (r = o /\ Contains(old, e))
      BY <1>0, <1>4 DEF Expiring, SlotTypes, Contains
  <2> QED
      BY <2>1, <2>2
<1>11. \A e \in Builders : /\ Live(e)' <=> Live(e)
                           /\ Stored(e)' <=> Contains(young, e) /\ e # x
                           /\ Stored(e) <=> Contains(old, e) \/ Contains(young, e)
    BY <1>2, <1>3, <1>4 DEF Live, Stored, OfferTakes, slotVars
<1>12. Apart'
    BY <1>0, <1>2, <1>10, <1>11 DEF Apart
<1>13. Singly'
    BY <1>0, <1>2, <1>3, <1>4 DEF Singly, SlotTypes
<1>14. \A e \in Builders : Owned(e)' <=> Owned(e)
    BY <1>0, <1>10, <1>11 DEF Owned
<1>15. Kept'
    BY <1>14 DEF Kept, OfferTakes
<1> QED
    BY <1>6, <1>8, <1>9, <1>12, <1>13, <1>15

(***************************************************************************)
(* The actions by which engines are closed, and the one that makes a       *)
(* session.                                                                *)
(***************************************************************************)

\* A request closes the oldest of its expired engines.
LEMMA ExpiredClosesKeeps ==
    ASSUME SlotInv, NEW r \in Requests, ExpiredCloses(r)
    PROVE  SlotInv'
<1> USE DEF SlotInv
<1> DEFINE x == Head(expired[r])
           rest == Tail(expired[r])
<1>1. /\ x \in Builders /\ Expiring(r, x)
      /\ rest \in Seq(Builders) /\ Distinct(rest)
      /\ \A e : Contains(rest, e) <=> Contains(expired[r], e) /\ e # x
    BY TailHas DEF SlotTypes, Singly, ExpiredCloses, Expiring
<1>2. /\ expired' = [expired EXCEPT ![r] = rest]
      /\ engine' = [engine EXCEPT ![x] = "closed"] /\ lost' = lost
      /\ UNCHANGED <<at, has, slotVars, store, server>>
    BY DEF ExpiredCloses, ClosesWell
<1> HIDE DEF x, rest
<1>3. engine[x] = "open" /\ x \notin lost
    BY <1>1 DEF Kept, Owned
<1>4. SlotTypes'
    BY <1>1, <1>2 DEF SlotTypes, slotVars
<1>5. expired[r] # <<>>
    BY DEF ExpiredCloses
<1>6. Place(r)'
    BY <1>2, <1>3, <1>5 DEF SlotTypes, Places, Place
<1>7. Places'
    BY <1>2, <1>3, <1>6, PlacesMove DEF SlotTypes
<1>8. OneAtATime'
    BY <1>2, SlotStays DEF slotVars, Live, Occupied
<1>9. \A q \in Requests, e \in Builders :
          /\ HasIt(q, e)' <=> HasIt(q, e)
          /\ Expiring(q, e)' <=> Expiring(q, e) /\ ~(q = r /\ e = x)
    BY <1>1, <1>2 DEF HasIt, Expiring, SlotTypes
<1>10. \A e \in Builders : (Live(e)' <=> Live(e)) /\ (Stored(e)' <=> Stored(e))
    BY <1>2 DEF Live, Stored, slotVars
<1>11. Apart'
    BY <1>9, <1>10 DEF Apart
<1>12. Singly'
    BY <1>1, <1>2 DEF Singly, SlotTypes
<1>13. \A e \in Builders : Owned(e)' <=> Owned(e) /\ e # x
    BY <1>1, <1>9, <1>10 DEF Owned, Apart
<1>14. Kept'
    BY <1>1, <1>2, <1>13 DEF Kept, SlotTypes
<1> QED
    BY <1>4, <1>7, <1>8, <1>11, <1>12, <1>14

\* An expired engine fails to close: what else the request has is lost.
LEMMA ExpiredBreaksKeeps ==
    ASSUME SlotInv, NEW r \in Requests, ExpiredBreaks(r)
    PROVE  SlotInv'
<1> USE DEF SlotInv
<1> DEFINE x == Head(expired[r])
           rest == Tail(expired[r])
           gone == {x} \cup (ToSet(rest) \cup ({has[r]} \ {None}))
<1>0. None \notin Builders
    BY SlotAssumption DEF Requests
<1>1. /\ x \in Builders /\ Expiring(r, x)
      /\ rest \in Seq(Builders) /\ Distinct(rest)
      /\ \A e : Contains(rest, e) <=> Contains(expired[r], e) /\ e # x
    BY TailHas DEF SlotTypes, Singly, ExpiredBreaks, Expiring
<1>2. /\ expired' = [expired EXCEPT ![r] = <<>>]
      /\ has' = [has EXCEPT ![r] = None]
      /\ at' = [at EXCEPT ![r] = IF r \in Offers THEN "releasing" ELSE "done"]
      /\ engine' = [engine EXCEPT ![x] = "broken"] /\ lost' = lost \cup gone
      /\ UNCHANGED <<slotVars, store, server>>
    BY DEF ExpiredBreaks, ClosesBadly, Holds, Proceeds
<1>3. \A e : e \in ToSet(rest) <=> Contains(rest, e)
    BY <1>1, LenProperties DEF ToSet, Contains
<1>4. \A e \in Builders : e \in gone <=> HasIt(r, e) \/ Expiring(r, e)
    BY <1>0, <1>1, <1>3 DEF HasIt, Expiring
<1>5. gone \subseteq Builders
    BY <1>1, <1>3 DEF SlotTypes, Contains
<1> HIDE DEF x, rest, gone
<1>6. engine[x] = "open" /\ \A e \in gone : engine[e] = "open" /\ Owned(e)
    BY <1>1, <1>4, <1>5 DEF Kept, Owned
<1>7. SlotTypes'
    BY <1>1, <1>2, <1>5 DEF SlotTypes, slotVars
<1>8. /\ expired[r] # <<>> /\ at[r] \in {"expiring", "taking"}
      /\ r \in Offers => at[r] = "taking"
    BY DEF ExpiredBreaks, Places, Place
<1>9. Place(r)'
    BY <1>2, <1>8 DEF SlotTypes, Places, Place
<1>10. Places'
    BY <1>2, <1>6, <1>9, PlacesMove DEF SlotTypes
<1>11. OneAtATime'
  <2>1. \A p \in Offers : Occupied(p)' => Occupied(p)
      BY <1>2, <1>8 DEF Occupied, SlotTypes
  <2>2. server = "serving"
      BY <1>8 DEF OneAtATime
  <2> QED
      BY <1>2, <2>1, <2>2, SlotStays DEF slotVars, Live
<1>12. \A q \in Requests, e \in Builders :
          /\ HasIt(q, e)' <=> HasIt(q, e) /\ q # r
          /\ Expiring(q, e)' <=> Expiring(q, e) /\ q # r
    BY <1>0, <1>2 DEF HasIt, Expiring, SlotTypes, Contains
<1>13. \A e \in Builders : (Live(e)' <=> Live(e)) /\ (Stored(e)' <=> Stored(e))
    BY <1>2 DEF Live, Stored, slotVars
<1>14. Apart'
    BY <1>12, <1>13 DEF Apart
<1>15. Singly'
    BY <1>2 DEF Singly, SlotTypes, Distinct
<1>16. \A e \in Builders : Owned(e)' <=> Owned(e) /\ e \notin gone
    BY <1>4, <1>12, <1>13 DEF Owned, Apart
<1>17. x \in gone
    BY DEF gone
<1>18. Kept'
    BY <1>1, <1>2, <1>5, <1>6, <1>16, <1>17 DEF Kept, SlotTypes
<1> QED
    BY <1>7, <1>10, <1>11, <1>14, <1>15, <1>18

\* An offer that failed closes its engine, or loses it.
LEMMA CleansKeeps ==
    ASSUME SlotInv, NEW o \in Offers, OfferCleans(o)
    PROVE  SlotInv'
<1> USE DEF SlotInv
<1> DEFINE x == has[o]
<1>0. /\ o \in Requests /\ o \in Builders /\ at[o] = "cleaning"
      /\ x \in Builders /\ x # None /\ HasIt(o, x) /\ None \notin Builders
    BY SlotAssumption DEF Requests, Builders, Places, Place, OfferCleans, HasIt
<1>1. engine[x] = "open" /\ x \notin lost
    BY <1>0 DEF Kept, Owned
<1>2. /\ at' = [at EXCEPT ![o] = "releasing"] /\ has' = [has EXCEPT ![o] = None]
      /\ UNCHANGED <<expired, slotVars, store, server>>
    BY DEF OfferCleans, Holds, Proceeds
<1>3. /\ lost' \in {lost, lost \cup {x}}
      /\ engine' \in [Builders -> {"none", "open", "closed", "broken"}]
      /\ \A e \in Builders \ {x} : engine'[e] = engine[e]
      /\ engine'[x] # "none"
      /\ x \in lost' \/ engine'[x] # "open"
    BY <1>0, <1>1 DEF OfferCleans, ClosesWell, ClosesBadly, SlotTypes
<1> HIDE DEF x
<1>4. SlotTypes'
    BY <1>0, <1>2, <1>3 DEF SlotTypes, slotVars
<1>5. Place(o)'
    BY <1>0, <1>2 DEF SlotTypes, Places, Place
<1>6. Places'
    BY <1>0, <1>1, <1>2, <1>3, <1>5, PlacesMove DEF SlotTypes
<1>7. OneAtATime'
  <2>1. \A p \in Offers : Occupied(p)' => Occupied(p)
      BY <1>0, <1>2 DEF Occupied, SlotTypes
  <2>2. server = "serving"
      BY <1>0 DEF OneAtATime
  <2> QED
      BY <1>2, <2>1, <2>2, SlotStays DEF slotVars, Live
<1>8. \A q \in Requests, e \in Builders :
          /\ HasIt(q, e)' <=> HasIt(q, e) /\ q # o
          /\ Expiring(q, e)' <=> Expiring(q, e)
    BY <1>0, <1>2 DEF HasIt, Expiring, SlotTypes
<1>9. \A e \in Builders : (Live(e)' <=> Live(e)) /\ (Stored(e)' <=> Stored(e))
    BY <1>2 DEF Live, Stored, slotVars
<1>10. Apart'
    BY <1>8, <1>9 DEF Apart
<1>11. Singly'
    BY <1>2 DEF Singly
<1>12. \A e \in Builders : HasIt(o, e) => e = x
    BY DEF HasIt, x
<1>13. \A e \in Builders : Owned(e)' <=> Owned(e) /\ e # x
    BY <1>0, <1>8, <1>9, <1>12 DEF Owned, Apart
<1>14. Kept'
    BY <1>0, <1>1, <1>3, <1>13 DEF Kept, SlotTypes
<1> QED
    BY <1>4, <1>6, <1>7, <1>10, <1>11, <1>14

\* An offer hands its engine to a session.
LEMMA AttachedKeeps ==
    ASSUME SlotInv, NEW o \in Offers, Attach(o)
    PROVE  SlotInv'
<1> USE DEF SlotInv
<1> DEFINE x == has[o]
<1>0. /\ o \in Requests /\ o \in Builders /\ at[o] = "negotiating" /\ reserved
      /\ x \in Builders /\ x # None /\ HasIt(o, x) /\ None \notin Builders
    BY SlotAssumption DEF Requests, Builders, Places, Place, Attach, HasIt
<1>1. /\ at' = [at EXCEPT ![o] = "done"] /\ has' = [has EXCEPT ![o] = None]
      /\ session' = [session EXCEPT ![x] = "created"]
      /\ reserved' = FALSE /\ task' = x
      /\ UNCHANGED <<expired, engine, metrics, store, server, lost>>
    BY DEF Attach, Holds, Proceeds
<1> HIDE DEF x
<1>2. SlotTypes'
    BY <1>0, <1>1 DEF SlotTypes
<1>3. Place(o)'
    BY <1>0, <1>1 DEF SlotTypes, Places, Place
<1>4. Places'
    BY <1>0, <1>1, <1>3, PlacesMove DEF SlotTypes
<1>5. \A e \in Builders : ~Live(e)
    BY <1>0 DEF OneAtATime
<1>6. metrics = None
    BY <1>5 DEF OneAtATime, Live, SlotTypes
<1>7. \A e \in Builders : Live(e)' <=> e = x
    BY <1>0, <1>1, <1>5 DEF Live, SlotTypes
<1>8. \A p \in Offers : ~Occupied(p)'
    BY <1>0, <1>1 DEF OneAtATime, Occupied, SlotTypes
<1>9. server' = "serving"
    BY <1>0, <1>1 DEF OneAtATime
<1>10. OneAtATime'
  <2>1. session'[x] # "none"
      BY <1>0, <1>1 DEF SlotTypes
  <2> QED
      BY <1>1, <1>6, <1>7, <1>8, <1>9, <2>1 DEF OneAtATime
<1>11. \A q \in Requests, e \in Builders :
          /\ HasIt(q, e)' <=> HasIt(q, e) /\ q # o
          /\ Expiring(q, e)' <=> Expiring(q, e)
    BY <1>0, <1>1 DEF HasIt, Expiring, SlotTypes
<1>12. \A e \in Builders : Stored(e)' <=> Stored(e)
    BY <1>1 DEF Stored
<1>13. Apart'
    BY <1>0, <1>7, <1>11, <1>12 DEF Apart
<1>14. Singly'
    BY <1>1 DEF Singly
<1>15. \A e \in Builders : HasIt(o, e) => e = x
    BY DEF HasIt, x
<1>16. \A e \in Builders : Owned(e)' <=> Owned(e)
    BY <1>0, <1>5, <1>7, <1>11, <1>12, <1>15 DEF Owned
<1>17. Kept'
    BY <1>1, <1>16 DEF Kept
<1> QED
    BY <1>2, <1>4, <1>10, <1>13, <1>14, <1>17

\* A session closes its engine and is done.
LEMMA ClosesKeeps ==
    ASSUME SlotInv, NEW x \in Builders, SessionCloses(x)
    PROVE  SlotInv'
<1> USE DEF SlotInv
<1>0. None \notin Builders /\ session[x] = "closing" /\ Live(x)
    BY SlotAssumption DEF Requests, SessionCloses, Live
<1>1. engine[x] = "open" /\ x \notin lost
    BY <1>0 DEF Kept, Owned
<1>2. /\ session' = [session EXCEPT ![x] = "done"]
      /\ UNCHANGED <<at, has, expired, reserved, task, metrics, store, server>>
      /\ lost' \in {lost, lost \cup {x}}
      /\ engine' \in [Builders -> {"none", "open", "closed", "broken"}]
      /\ \A e \in Builders \ {x} : engine'[e] = engine[e]
      /\ engine'[x] \notin {"none", "open"}
    BY <1>1 DEF SessionCloses, ClosesWell, ClosesBadly, SlotTypes
<1>3. SlotTypes'
    BY <1>2 DEF SlotTypes
<1>4. Places'
    BY <1>1, <1>2, PlacesStay
<1>5. \A e \in Builders : Live(e)' <=> Live(e) /\ e # x
    BY <1>2 DEF Live, SlotTypes
<1>6. OneAtATime'
  <2>1. metrics # None => session'[metrics] = session[metrics]
      BY <1>0, <1>2 DEF OneAtATime, SlotTypes
  <2> QED
      BY <1>2, <1>5, <2>1, SlotStays DEF Occupied
<1>7. \A q \in Requests, e \in Builders :
          (HasIt(q, e)' <=> HasIt(q, e)) /\ (Expiring(q, e)' <=> Expiring(q, e))
    BY <1>2 DEF HasIt, Expiring
<1>8. \A e \in Builders : Stored(e)' <=> Stored(e)
    BY <1>2 DEF Stored
<1>9. Apart'
    BY <1>5, <1>7, <1>8 DEF Apart
<1>10. Singly'
    BY <1>2 DEF Singly
<1>11. \A e \in Builders : Owned(e)' <=> Owned(e) /\ e # x
    BY <1>0, <1>5, <1>7, <1>8 DEF Owned, Apart
<1>12. Kept'
    BY <1>1, <1>2, <1>11 DEF Kept, SlotTypes
<1> QED
    BY <1>3, <1>4, <1>6, <1>9, <1>10, <1>12

\* The server stops the session: one that runs is to close its engine, and one that does
\* not loses it.
LEMMA StopKeeps ==
    ASSUME SlotInv, StopSession
    PROVE  SlotInv'
<1> USE DEF SlotInv
<1>0. None \notin Builders /\ \A r \in Requests : at[r] \in {"new", "done"}
    BY SlotAssumption DEF Requests, StopSession
<1>1. /\ reserved' = FALSE /\ server' = "waiting" /\ metrics' = None
      /\ UNCHANGED <<at, has, expired, task, store>>
    BY DEF StopSession
<1>2. \A o \in Offers : ~Occupied(o)'
    BY <1>0, <1>1 DEF Occupied, Requests, Builders
<1>3. \A q \in Requests, e \in Builders :
          (HasIt(q, e)' <=> HasIt(q, e)) /\ (Expiring(q, e)' <=> Expiring(q, e))
    BY <1>1 DEF HasIt, Expiring
<1>4. \A e \in Builders : Stored(e)' <=> Stored(e)
    BY <1>1 DEF Stored
<1>5. Singly'
    BY <1>1 DEF Singly
<1>6. CASE UNCHANGED <<engine, lost>> /\ \A e \in Builders : Live(e)' <=> Live(e)
  <2>1. SlotTypes'
      BY <1>1, <1>6 DEF SlotTypes, StopSession, SessionAlive
  <2>2. Places'
      BY <1>1, <1>6, PlacesStay
  <2>3. OneAtATime'
    <3>1. task # None => session'[task] # "none"
        BY <1>6 DEF OneAtATime, SlotTypes, StopSession, SessionAlive, ClosesBadly
    <3> QED
        BY <1>0, <1>1, <1>2, <1>6, <3>1 DEF OneAtATime
  <2>4. Apart' /\ Kept'
      BY <1>1, <1>6, SameHands
  <2> QED
      BY <1>5, <2>1, <2>2, <2>3, <2>4
<1>7. CASE /\ task \in Builders /\ Live(task)
           /\ engine' = [engine EXCEPT ![task] = "broken"] /\ lost' = lost \cup {task}
           /\ session' = [session EXCEPT ![task] = "done"]
  <2>1. engine[task] = "open" /\ task \notin lost
      BY <1>7 DEF Kept, Owned
  <2>2. SlotTypes'
      BY <1>1, <1>7 DEF SlotTypes
  <2>3. Places'
      BY <1>1, <1>7, <2>1, PlacesStay DEF SlotTypes
  <2>4. \A e \in Builders : Live(e)' <=> Live(e) /\ e # task
      BY <1>7 DEF Live, SlotTypes
  <2>5. OneAtATime'
      BY <1>0, <1>1, <1>2, <1>7, <2>2, <2>4 DEF OneAtATime, SlotTypes, Live
  <2>6. Apart'
      BY <1>3, <1>4, <2>4 DEF Apart
  <2>7. \A e \in Builders : Owned(e)' <=> Owned(e) /\ e # task
      BY <1>3, <1>4, <1>7, <2>4 DEF Owned, Apart
  <2>8. Kept'
      BY <1>7, <2>1, <2>7 DEF Kept, SlotTypes
  <2> QED
      BY <1>5, <2>2, <2>3, <2>5, <2>6, <2>8
<1>8. CASE ~SessionAlive
    BY <1>6, <1>8 DEF StopSession, Live
<1>9. CASE SessionAlive
  <2>1. task \in Builders /\ task # None /\ session[task] # "done"
      BY <1>9 DEF SessionAlive, SlotTypes
  <2>2. CASE session[task] = "running"
    <3>1. UNCHANGED <<engine, lost>> /\ session' = [session EXCEPT ![task] = "closing"]
        BY <1>9, <2>2 DEF StopSession
    <3>2. \A e \in Builders : Live(e)' <=> Live(e)
        BY <2>1, <2>2, <3>1 DEF Live, SlotTypes
    <3> QED
        BY <1>6, <3>1, <3>2
  <2>3. CASE session[task] # "running"
    <3>1. /\ engine' = [engine EXCEPT ![task] = "broken"] /\ lost' = lost \cup {task}
          /\ session' = [session EXCEPT ![task] = "done"]
        BY <1>9, <2>3 DEF StopSession, ClosesBadly
    <3>2. Live(task)
        BY <2>1 DEF Live, OneAtATime
    <3> QED
        BY <1>7, <2>1, <3>1, <3>2
  <2> QED
      BY <2>2, <2>3
<1> QED
    BY <1>8, <1>9

\* The server closes the engines in the store.
LEMMA CloseAllKeeps ==
    ASSUME SlotInv, CloseAll
    PROVE  SlotInv'
<1> USE DEF SlotInv
<1> DEFINE x == Head(store)
           rest == Tail(store)
<1>1. /\ x \in Builders /\ Stored(x)
      /\ rest \in Seq(Builders) /\ Distinct(rest)
      /\ \A e : Contains(rest, e) <=> Contains(store, e) /\ e # x
    BY TailHas DEF SlotTypes, Singly, CloseAll, Stored
<1>2. engine[x] = "open" /\ x \notin lost
    BY <1>1 DEF Kept, Owned
<1>3. /\ store' = rest
      /\ UNCHANGED <<at, has, expired, slotVars, server>>
      /\ lost' \in {lost, lost \cup {x}}
      /\ engine' \in [Builders -> {"none", "open", "closed", "broken"}]
      /\ \A e \in Builders \ {x} : engine'[e] = engine[e]
      /\ engine'[x] \notin {"none", "open"}
    BY <1>1 DEF CloseAll, ClosesWell, ClosesBadly, SlotTypes
<1> HIDE DEF x, rest
<1>4. SlotTypes'
    BY <1>1, <1>3 DEF SlotTypes, slotVars
<1>5. Places'
    BY <1>1, <1>2, <1>3, PlacesStay
<1>6. OneAtATime'
    BY <1>3, SlotStays DEF slotVars, Live, Occupied
<1>7. \A q \in Requests, e \in Builders :
          (HasIt(q, e)' <=> HasIt(q, e)) /\ (Expiring(q, e)' <=> Expiring(q, e))
    BY <1>3 DEF HasIt, Expiring
<1>8. \A e \in Builders : (Live(e)' <=> Live(e)) /\ (Stored(e)' <=> Stored(e) /\ e # x)
    BY <1>1, <1>3 DEF Live, Stored, slotVars
<1>9. Apart'
    BY <1>7, <1>8 DEF Apart
<1>10. Singly'
    BY <1>1, <1>3 DEF Singly
<1>11. \A e \in Builders : Owned(e)' <=> Owned(e) /\ e # x
    BY <1>1, <1>7, <1>8 DEF Owned, Apart
<1>12. Kept'
    BY <1>1, <1>2, <1>3, <1>11 DEF Kept, SlotTypes
<1> QED
    BY <1>4, <1>5, <1>6, <1>9, <1>10, <1>12

-----------------------------------------------------------------------------
(***************************************************************************)
(* The slot and the engines, put together.                                 *)
(***************************************************************************)

LEMMA SlotBegins == SlotInit => SlotInv
<1> SUFFICES ASSUME SlotInit
             PROVE  SlotInv
    OBVIOUS
<1> USE DEF SlotInit
<1>0. None \notin Builders /\ \A e : ~Contains(<<>>, e)
    BY SlotAssumption DEF Requests, Contains
<1>1. SlotTypes
  <2>1. expired \in [Requests -> Seq(Builders)] /\ store \in Seq(Builders)
      BY EmptySeq
  <2> QED
      BY <2>1 DEF SlotTypes
<1>2. Places
    BY DEF Places, Place, Requests
<1>3. OneAtATime
    BY DEF OneAtATime, Occupied, Live, Requests, Builders
<1>4. /\ \A r \in Requests, e \in Builders : ~HasIt(r, e) /\ ~Expiring(r, e)
      /\ \A e \in Builders : ~Stored(e) /\ ~Live(e)
    BY <1>0 DEF HasIt, Expiring, Stored, Live
<1>5. Apart /\ Kept
    BY <1>4 DEF Apart, Kept, Owned
<1>6. Singly
    BY DEF Singly, Distinct
<1> QED
    BY <1>1, <1>2, <1>3, <1>5, <1>6 DEF SlotInv

LEMMA SlotUnchanged ==
    ASSUME SlotInv, UNCHANGED serverVars
    PROVE  SlotInv'
<1>1. /\ at' = at /\ has' = has /\ expired' = expired /\ engine' = engine
      /\ reserved' = reserved /\ task' = task /\ session' = session
      /\ metrics' = metrics /\ store' = store /\ server' = server /\ lost' = lost
    BY DEF serverVars, slotVars
<1>2. SlotTypes' /\ Places' /\ OneAtATime'
    BY <1>1 DEF SlotInv, SlotTypes, Places, Place, OneAtATime, Occupied, Live
<1>3. Apart' /\ Singly' /\ Kept'
    BY <1>1, SameHands DEF SlotInv, Live
<1> QED
    BY <1>2, <1>3 DEF SlotInv

LEMMA SlotStep == SlotInv /\ SlotNext => SlotInv'
<1> SUFFICES ASSUME SlotInv, SlotNext
             PROVE  SlotInv'
    OBVIOUS
<1>1. ASSUME NEW c \in Connects, ConnectBuilds(c)
      PROVE  SlotInv'
    BY <1>1, ConnectBuildsKeeps
<1>2. ASSUME NEW v \in Visits,
             VisitGets(v) \/ \E e \in Builders : VisitRemoves(v, e)
      PROVE  SlotInv'
    BY <1>2, VisitGetsKeeps, VisitRemovesKeeps
<1>3. ASSUME NEW o \in Offers, Claim(o) \/ Refused(o)
      PROVE  SlotInv'
    BY <1>3, ClaimKeeps, RefusedKeeps
<1>4. ASSUME NEW r \in Requests, Handler(r)
      PROVE  SlotInv'
  <2>1. CASE r \in Connects /\ ConnectPuts(r)
      BY <2>1, ConnectPutsKeeps
  <2>2. CASE r \in Offers /\ \E e \in Builders : OfferTakes(r, e)
      BY <2>2, OfferTakesKeeps
  <2>3. CASE r \in Offers /\ (OfferBuilds(r) \/ OfferHasTaken(r) \/ OfferFails(r))
      BY <2>3, OfferBuildsKeeps, HasTakenKeeps, FailsKeeps
  <2>4. CASE r \in Offers /\ (OfferCleans(r) \/ ReleaseSlot(r) \/ Attach(r))
      BY <2>4, CleansKeeps, ReleaseKeeps, AttachedKeeps
  <2>5. CASE ExpiredCloses(r) \/ ExpiredBreaks(r) \/ Answered(r)
      BY <2>5, ExpiredClosesKeeps, ExpiredBreaksKeeps, AnsweredKeeps
  <2> QED
      BY <1>4, <2>1, <2>2, <2>3, <2>4, <2>5 DEF Handler
<1>5. ASSUME NEW e \in Builders, Session(e) \/ SessionEnds(e)
      PROVE  SlotInv'
    BY <1>5, RunsKeeps, ClosesKeeps, OnDoneKeeps, EndsKeeps DEF Session
<1>6. CASE StopSession \/ Lifespan
    BY <1>6, StopKeeps, StoppedKeeps, CloseAllKeeps, ServerStopsKeeps DEF Lifespan
<1> QED
    BY <1>1, <1>2, <1>3, <1>4, <1>5, <1>6 DEF SlotNext

\* An owned engine has one owner.
LEMMA OwnedByOne ==
    ASSUME SlotInv, NEW e \in Builders, Owned(e)
    PROVE  \E x : Owners(e) = {x}
<1> USE DEF SlotInv
<1> DEFINE Asking == {q \in Requests : has[q] = e \/ Contains(expired[q], e)}
           AtStore == {j \in DOMAIN store : store[j] = e}
           Own == Sessions \cap {e}
           ByRequest == {<<"request", r>> : r \in Asking}
           ByStore == {<<"store", i>> : i \in AtStore}
           BySession == {<<"session", s>> : s \in Own}
<1>1. Owners(e) = ByRequest \cup ByStore \cup BySession
    BY DEF Owners
<1>1a. /\ Asking = {} => ByRequest = {}
       /\ \A r : Asking = {r} => ByRequest = {<<"request", r>>}
       /\ AtStore = {} => ByStore = {}
       /\ \A i : AtStore = {i} => ByStore = {<<"store", i>>}
       /\ Own = {} => BySession = {}
       /\ \A s : Own = {s} => BySession = {<<"session", s>>}
    OBVIOUS
<1>2. \A q : q \in Asking <=> q \in Requests /\ (HasIt(q, e) \/ Expiring(q, e))
    BY DEF HasIt, Expiring
<1>3. AtStore # {} <=> Stored(e)
    BY LenProperties DEF Stored, Contains, SlotTypes
<1>4. Own = IF Live(e) THEN {e} ELSE {}
    BY DEF Sessions, Live
<1>5. \A i, j \in AtStore : i = j
    BY LenProperties DEF Singly, Distinct, SlotTypes
<1> HIDE DEF Asking, AtStore, Own, ByRequest, ByStore, BySession
<1>6. CASE Stored(e)
  <2>1. PICK i : AtStore = {i}
      BY <1>3, <1>5, <1>6
  <2>2. Asking = {} /\ Own = {}
      BY <1>2, <1>4, <1>6 DEF Apart
  <2> QED
    <3>1. ByRequest = {} /\ ByStore = {<<"store", i>>} /\ BySession = {}
        BY ONLY <1>1a, <2>1, <2>2
    <3>2. Owners(e) = {<<"store", i>>}
        BY ONLY <1>1, <3>1
    <3> QED
        BY <3>2
<1>7. CASE Live(e)
  <2>1. Asking = {} /\ AtStore = {} /\ Own = {e}
      BY <1>2, <1>3, <1>4, <1>7 DEF Apart
  <2> QED
    <3>1. ByRequest = {} /\ ByStore = {} /\ BySession = {<<"session", e>>}
        BY ONLY <1>1a, <2>1
    <3>2. Owners(e) = {<<"session", e>>}
        BY ONLY <1>1, <3>1
    <3> QED
        BY <3>2
<1>8. CASE \E r \in Requests : HasIt(r, e) \/ Expiring(r, e)
  <2>1. PICK r \in Requests : HasIt(r, e) \/ Expiring(r, e)
      BY <1>8
  <2>2. Asking = {r} /\ AtStore = {} /\ Own = {}
      BY <1>2, <1>3, <1>4, <2>1 DEF Apart
  <2> QED
    <3>1. ByRequest = {<<"request", r>>} /\ ByStore = {} /\ BySession = {}
        BY ONLY <1>1a, <2>2
    <3>2. Owners(e) = {<<"request", r>>}
        BY ONLY <1>1, <3>1
    <3> QED
        BY <3>2
<1> QED
    BY <1>6, <1>7, <1>8 DEF Owned

LEMMA NobodyElse ==
    ASSUME SlotInv, NEW e \in Builders, ~Owned(e)
    PROVE  Owners(e) = {}
<1>1. {q \in Requests : has[q] = e \/ Contains(expired[q], e)} = {}
    BY DEF Owned, HasIt, Expiring
<1>2. {j \in DOMAIN store : store[j] = e} = {}
    BY LenProperties DEF Owned, Stored, Contains, SlotInv, SlotTypes
<1>3. Sessions \cap {e} = {}
    BY DEF Owned, Sessions, Live
<1> QED
    BY <1>1, <1>2, <1>3 DEF Owners

LEMMA SlotInvSound == SlotInv => SlotIsSound
<1> SUFFICES ASSUME SlotInv
             PROVE  SlotIsSound
    OBVIOUS
<1> USE DEF SlotInv
<1>1. SlotTypeOK
    BY DEF SlotTypes, SlotTypeOK, OneAtATime
<1>2. OneOwner
  <2>1. ASSUME NEW e \in Builders, engine[e] = "open", e \notin lost
        PROVE  Cardinality(Owners(e)) = 1
    <3>1. PICK x : Owners(e) = {x}
        BY <2>1, OwnedByOne DEF Kept
    <3> QED
        BY <3>1, FS_Singleton
  <2>2. ASSUME NEW e \in Builders, engine[e] # "open"
        PROVE  Owners(e) = {}
      BY <2>2, NobodyElse DEF Kept
  <2> QED
      BY <2>1, <2>2 DEF OneOwner
<1>3. OneSession
  <2> DEFINE asking == {o \in Offers : at[o] \in {"claimed", "taking", "negotiating",
                                                  "cleaning", "releasing"}}
  <2>1. asking = {o \in Offers : Occupied(o)} /\ Sessions = {e \in Builders : Live(e)}
      BY DEF Occupied, Sessions, Live
  <2> HIDE DEF asking
  <2>2. Cardinality(asking) + Cardinality(Sessions) <= 1
    <3>1. CASE \E o \in Offers : Occupied(o)
      <4>1. PICK o \in Offers : Occupied(o)
          BY <3>1
      <4>2. asking = {o} /\ Sessions = {}
          BY <2>1, <4>1, SlotAssumption DEF OneAtATime, Requests
      <4> QED
        <5>1. Cardinality(asking) = 1 /\ Cardinality(Sessions) = 0
            BY <4>2, FS_Singleton, FS_EmptySet
        <5> QED
            BY <5>1
    <3>2. CASE \E e \in Builders : Live(e)
      <4>1. PICK e \in Builders : Live(e)
          BY <3>2
      <4>2. Sessions = {e} /\ asking = {}
          BY <2>1, <4>1, SlotAssumption DEF OneAtATime, Requests
      <4> QED
        <5>1. Cardinality(asking) = 0 /\ Cardinality(Sessions) = 1
            BY <4>2, FS_Singleton, FS_EmptySet
        <5> QED
            BY <5>1
    <3>3. CASE ~(\E o \in Offers : Occupied(o)) /\ ~(\E e \in Builders : Live(e))
      <4>1. asking = {} /\ Sessions = {}
          BY <2>1, <3>3
      <4> QED
          BY <4>1, FS_EmptySet
    <3> QED
        BY <3>1, <3>2, <3>3
  <2>3. metrics = None \/ session[metrics] = "running"
      BY DEF OneAtATime
  <2> QED
      BY <2>2, <2>3 DEF OneSession, asking
<1> QED
    BY <1>1, <1>2, <1>3 DEF SlotIsSound

\* Whatever the requests, the session and the end of the server do: every open engine that
\* was not lost to a failure has one owner who is to close it, no owner has a closed one,
\* and there is one session at most, none while an offer is being answered.
THEOREM SlotSound == Spec => []SlotIsSound
<1>1. Init => SlotInv
    BY SlotBegins DEF Init
<1>2. SlotInv /\ [Next]_vars => SlotInv'
    BY SlotStep, SlotUnchanged DEF Next, vars
<1>3. SlotInv => SlotIsSound
    BY SlotInvSound
<1> QED
    BY <1>1, <1>2, <1>3, PTL DEF Spec

(***************************************************************************)
(* The event bus and its clients.                                          *)
(***************************************************************************)

\* The types of the fields.  That the count of who is awaited is never negative follows
\* from Counted.
BusTypes ==
    /\ listed \in [Types -> Seq(Subscribers)]
    /\ queue \in [Subscribers -> Seq(Events)]
    /\ publishing \in [Publishers -> PublisherState]
    /\ phase \in [Subscribers -> {"new", "subscribed", "reading", "gone"}]
    /\ opened \in BOOLEAN
    /\ sent \in [Publishers -> Seq(Types)]
    /\ given \in [Subscribers -> Seq(Events)]

\* The bus waits for the workers that are not ready, and for the coordinator.
Preparing == {s \in Subscribers : phase[s] \in {"new", "subscribed"}}
Counted == pending = Cardinality(Preparing) + (IF opened THEN 0 ELSE 1)

\* A type's list has the workers that want it and are there, once each.
ListsAgree ==
    \A t \in Types :
        /\ Distinct(listed[t])
        /\ \A s \in Subscribers :
              Contains(listed[t], s) <=>
                  phase[s] \in {"subscribed", "reading"} /\ t \in Interest[s]

\* What is being published is what was sent last; who is still to have it wants it, and
\* nobody is to have it twice.
Newest(p, e) ==
    /\ sent[p] # <<>> /\ e.from = p
    /\ e.number = Len(sent[p]) /\ e.type = sent[p][Len(sent[p])]
UnderWay(p) ==
    /\ publishing[p].at = "waiting" => Newest(p, publishing[p].event)
    /\ publishing[p].at = "blocked" =>
          /\ Newest(p, publishing[p].event)
          /\ Distinct(publishing[p].rest)
          /\ \A s \in Subscribers : Contains(publishing[p].rest, s) =>
                publishing[p].event.type \in Interest[s]

\* The numbers of p's events in a sequence of events, and that they rise.
NumbersIn(p, q) == {q[i].number : i \in {j \in DOMAIN q : q[j].from = p}}
Rising(p, q) ==
    \A i, j \in DOMAIN q :
        q[i].from = p /\ q[j].from = p /\ i < j => q[i].number < q[j].number

\* What s ought to have of p.
Owed(p, s) == {n \in Meant(p, s) : Pending(p, s) => n < Len(sent[p])}
Served(p, s) ==
    phase[s] # "gone" =>
        Rising(p, Reached(s)) /\ NumbersIn(p, Reached(s)) = Owed(p, s)

BusInv ==
    /\ BusTypes /\ Counted /\ ListsAgree /\ QueuesBounded
    /\ \A p \in Publishers : UnderWay(p)
    /\ \A p \in Publishers, s \in Subscribers : Served(p, s)

-----------------------------------------------------------------------------
(***************************************************************************)
(* The operators of the bus.                                               *)
(***************************************************************************)

\* The least-number principle, for a set of naturals.
LEMMA LeastOf ==
    ASSUME NEW T, T \subseteq Nat, T # {}
    PROVE  \E m \in T : \A k \in T : m <= k
<1> DEFINE R == OpToRel(<, Nat)
<1>1. IsWellFoundedOn(R, Nat)
    BY NatLessThanWellFounded
<1>2. \A x, y \in Nat : y < x => <<y, x>> \in R
    BY DEF OpToRel
<1> HIDE DEF R
<1>3. PICK x \in T : \A y \in T : ~ (<<y, x>> \in R)
    BY <1>1, WFMin
<1>4. ASSUME NEW y \in T
      PROVE  x <= y
  <2>1. ~(y < x)
      BY <1>2, <1>3
  <2>2. x \in Nat /\ y \in Nat
      OBVIOUS
  <2> QED
      BY <2>1, <2>2
<1> QED
    BY <1>4

\* Reach is the number of queues before the first full one.
LEMMA ReachStops ==
    ASSUME NEW list \in Seq(Subscribers)
    PROVE  /\ Reach(list) \in 0..Len(list)
           /\ \A i \in 1..Reach(list) : ~Full(list[i])
<1> DEFINE Good(n) == /\ \A i \in 1..n : ~Full(list[i])
                      /\ n < Len(list) => Full(list[n + 1])
           T == {m \in 1..Len(list) : Full(list[m])}
<1>1. Len(list) \in Nat
    BY LenProperties
<1>2. \E n \in 0..Len(list) : Good(n)
  <2>1. CASE T = {}
      BY <1>1, <2>1
  <2>2. CASE T # {}
    <3>1. PICK m \in T : \A k \in T : m <= k
      <4>1. T \subseteq Nat
          BY <1>1
      <4> HIDE DEF T
      <4> QED
          BY <2>2, <4>1, LeastOf
    <3>2. m - 1 \in 0..Len(list) /\ (m - 1) + 1 = m /\ Full(list[m])
        BY <1>1, <3>1
    <3>3. ASSUME NEW i \in 1..(m - 1)
          PROVE  ~Full(list[i])
        BY <1>1, <3>1, <3>2
    <3>4. Good(m - 1)
        BY <3>2, <3>3
    <3> QED
        BY <3>2, <3>4
  <2> QED
      BY <2>1, <2>2
<1>3. Reach(list) = CHOOSE n \in 0..Len(list) : Good(n)
    BY DEF Reach
<1> HIDE DEF Good
<1>4. Reach(list) \in 0..Len(list) /\ Good(Reach(list))
    BY <1>2, <1>3
<1> QED
    BY <1>4 DEF Good

\* Without takes one worker out of a list, as Popped does an engine.
LEMMA WithoutIsPopped ==
    ASSUME NEW S, NEW list \in Seq(S), NEW s
    PROVE  Without(list, s) = Popped(list, s)
<1>1. DOMAIN list = 1..Len(list)
    BY LenProperties
<1> QED
    BY <1>1 DEF Without, Popped, RemoveAt, Contains

\* What a publisher can be doing.
LEMMA PublisherIs ==
    ASSUME NEW x \in PublisherState
    PROVE  /\ x.at \in {"idle", "waiting", "blocked"}
           /\ x.at = "idle" => x = Idle
           /\ x.at = "waiting" => x.event \in Events
           /\ x.at = "blocked" => x.event \in Events /\ x.rest \in Seq(Subscribers)
BY DEF PublisherState, Idle

LEMMA BlockedIs ==
    ASSUME NEW e \in Events, NEW rest \in Seq(Subscribers)
    PROVE  /\ Blocked(e, rest) \in PublisherState /\ Blocked(e, rest).at = "blocked"
           /\ Blocked(e, rest).event = e /\ Blocked(e, rest).rest = rest
           /\ Waiting(e) \in PublisherState /\ Waiting(e).at = "waiting"
           /\ Waiting(e).event = e
           /\ Idle \in PublisherState /\ Idle.at = "idle"
BY DEF PublisherState, Blocked, Waiting, Idle

LEMMA AppendOfConcat ==
    ASSUME NEW S, NEW s \in Seq(S), NEW t \in Seq(S), NEW x \in S
    PROVE  s \o Append(t, x) = Append(s \o t, x)
<1>1. /\ Append(t, x) = t \o <<x>> /\ s \o t \in Seq(S) /\ <<x>> \in Seq(S)
      /\ Append(s \o t, x) = (s \o t) \o <<x>>
    BY AppendIsConcat, ConcatProperties
<1> QED
    BY <1>1, ConcatAssociative

\* One more event in a sequence of events.
LEMMA OneMore ==
    ASSUME NEW q \in Seq(Events), NEW e \in Events, NEW p
    PROVE  /\ NumbersIn(p, Append(q, e)) =
                  NumbersIn(p, q) \cup (IF e.from = p THEN {e.number} ELSE {})
           /\ Rising(p, q) /\ (e.from = p => \A n \in NumbersIn(p, q) : n < e.number)
                  => Rising(p, Append(q, e))
<1> DEFINE more == Append(q, e)
<1>1. /\ Len(q) \in Nat /\ DOMAIN q = 1..Len(q) /\ DOMAIN more = 1..(Len(q) + 1)
      /\ more[Len(q) + 1] = e /\ \A i \in 1..Len(q) : more[i] = q[i]
    BY AppendProperties, LenProperties
<1> HIDE DEF more
<1>2. ASSUME NEW n \in NumbersIn(p, more)
      PROVE  n \in NumbersIn(p, q) \cup (IF e.from = p THEN {e.number} ELSE {})
  <2>1. PICK i \in 1..(Len(q) + 1) : more[i].from = p /\ n = more[i].number
      BY <1>1 DEF NumbersIn
  <2>2. CASE i = Len(q) + 1
      BY <1>1, <2>1, <2>2
  <2>3. CASE i \in 1..Len(q)
      BY <1>1, <2>1, <2>3 DEF NumbersIn
  <2> QED
      BY <1>1, <2>2, <2>3
<1>3. \A n \in NumbersIn(p, q) : n \in NumbersIn(p, more)
    BY <1>1 DEF NumbersIn
<1>4. e.from = p => e.number \in NumbersIn(p, more)
  <2>1. Len(q) + 1 \in DOMAIN more
      BY <1>1
  <2> QED
      BY <1>1, <2>1 DEF NumbersIn
<1>5. ASSUME Rising(p, q), e.from = p => \A n \in NumbersIn(p, q) : n < e.number
      PROVE  Rising(p, more)
  <2> SUFFICES ASSUME NEW i \in DOMAIN more, NEW j \in DOMAIN more,
                      more[i].from = p, more[j].from = p, i < j
               PROVE  more[i].number < more[j].number
      BY DEF Rising
  <2>1. i \in 1..Len(q)
      BY <1>1
  <2>2. CASE j \in 1..Len(q)
      BY <1>1, <1>5, <2>1, <2>2 DEF Rising
  <2>3. CASE j = Len(q) + 1
    <3>1. more[j] = e /\ more[i] = q[i] /\ q[i].number \in NumbersIn(p, q)
        BY <1>1, <2>1, <2>3 DEF NumbersIn
    <3> QED
        BY <1>5, <3>1
  <2> QED
      BY <1>1, <2>2, <2>3
<1> QED
    BY <1>2, <1>3, <1>4, <1>5 DEF more

\* Deliver tells the workers at the head of the list, and leaves the others for later.
LEMMA DeliverTells ==
    ASSUME BusTypes, QueuesBounded, NEW p \in Publishers, NEW e \in Events,
           NEW list \in Seq(Subscribers), Distinct(list), Deliver(p, e, list)
    PROVE  \E Told \in SUBSET Subscribers :
              /\ queue' = [s \in Subscribers |->
                              IF s \in Told THEN Append(queue[s], e) ELSE queue[s]]
              /\ \A s \in Told : Contains(list, s) /\ ~Full(s)
              /\ \A q \in Publishers \ {p} : publishing'[q] = publishing[q]
              /\ publishing' \in [Publishers -> PublisherState]
              /\ \/ /\ publishing'[p].at = "idle"
                    /\ \A s \in Subscribers : Contains(list, s) => s \in Told
                 \/ /\ publishing'[p].at = "blocked" /\ publishing'[p].event = e
                    /\ Distinct(publishing'[p].rest)
                    /\ \A s \in Subscribers :
                          Contains(publishing'[p].rest, s) <=> Contains(list, s) /\ s \notin Told
<1> DEFINE n == Reach(list)
           head == SubSeq(list, 1, n)
           rest == SubSeq(list, n + 1, Len(list))
           Told == {s \in Subscribers : \E i \in 1..n : list[i] = s}
<1>1. n \in 0..Len(list) /\ \A i \in 1..n : ~Full(list[i])
    BY ReachStops
<1>2. /\ queue' = [s \in Subscribers |-> IF \E i \in 1..n : list[i] = s
                                         THEN Append(queue[s], e) ELSE queue[s]]
      /\ publishing' = [publishing EXCEPT ![p] = IF n = Len(list) THEN Idle
                                                 ELSE Blocked(e, rest)]
    BY DEF Deliver
<1> HIDE DEF n
<1>3. Len(list) \in Nat /\ \A i \in 1..Len(list) : list[i] \in Subscribers
    BY LenProperties, ElementOfSeq
<1>4. /\ head \in Seq(Subscribers) /\ rest \in Seq(Subscribers) /\ Distinct(rest)
      /\ \A s : Contains(list, s) <=> Contains(head, s) \/ Contains(rest, s)
      /\ \A s : ~(Contains(head, s) /\ Contains(rest, s))
    BY <1>1, CutHas
<1>5. Len(head) = n /\ \A i \in 1..n : head[i] = list[i]
    BY <1>1, <1>3, SubSeqProperties
<1>6. \A s \in Subscribers : s \in Told <=> Contains(head, s)
    BY <1>5 DEF Contains
<1>7. n = Len(list) => \A s : ~Contains(rest, s)
  <2>1. n = Len(list) => Len(rest) = 0
    <3>1. ASSUME n = Len(list)
          PROVE  rest = <<>>
        BY <1>3, <3>1, SubSeqEmpty
    <3> QED
        BY <3>1
  <2> QED
      BY <2>1 DEF Contains
<1>8. \A s \in Told : ~Full(s)
    BY <1>1
<1>9. queue' = [s \in Subscribers |-> IF s \in Told THEN Append(queue[s], e) ELSE queue[s]]
    BY <1>2
<1> HIDE DEF head, rest, Told
<1>10. Told \in SUBSET Subscribers
    BY DEF Told
<1>11. /\ Idle \in PublisherState /\ Idle.at = "idle"
       /\ Blocked(e, rest) \in PublisherState /\ Blocked(e, rest).at = "blocked"
       /\ Blocked(e, rest).event = e /\ Blocked(e, rest).rest = rest
    BY <1>4, BlockedIs
<1>12. /\ publishing' \in [Publishers -> PublisherState]
       /\ \A q \in Publishers \ {p} : publishing'[q] = publishing[q]
       /\ publishing'[p] = IF n = Len(list) THEN Idle ELSE Blocked(e, rest)
    BY <1>2, <1>11 DEF BusTypes
<1>13. CASE n = Len(list)
  <2>1. publishing'[p].at = "idle" /\ \A s \in Subscribers : Contains(list, s) => s \in Told
      BY <1>4, <1>6, <1>7, <1>11, <1>12, <1>13
  <2> QED
      BY <1>4, <1>6, <1>8, <1>9, <1>10, <1>12, <2>1
<1>14. CASE n # Len(list)
  <2>1. publishing'[p] = Blocked(e, rest)
      BY <1>12, <1>14
  <2>2. /\ publishing'[p].at = "blocked" /\ publishing'[p].event = e
        /\ publishing'[p].rest = rest
      BY <1>11, <2>1
  <2>3. \A s \in Subscribers : Contains(rest, s) <=> Contains(list, s) /\ s \notin Told
      BY <1>4, <1>6
  <2> QED
      BY <1>4, <1>6, <1>8, <1>9, <1>10, <1>12, <2>2, <2>3
<1> QED
    BY <1>13, <1>14

\* What s has of p stays as it ought to be when neither of them does anything.
LEMMA ServedStays ==
    ASSUME NEW p \in Publishers, NEW s \in Subscribers, Served(p, s),
           Reached(s)' = Reached(s), sent'[p] = sent[p], publishing'[p] = publishing[p],
           phase'[s] # "gone" => phase[s] # "gone"
    PROVE  Served(p, s)'
<1>1. Owed(p, s)' = Owed(p, s)
    BY DEF Owed, Meant, Pending
<1>2. Rising(p, Reached(s))' = Rising(p, Reached(s))
    BY DEF Rising
<1>3. NumbersIn(p, Reached(s))' = NumbersIn(p, Reached(s))
    BY DEF NumbersIn
<1> QED
    BY <1>1, <1>2, <1>3 DEF Served

LEMMA UnderWayStays ==
    ASSUME NEW p \in Publishers, UnderWay(p), sent'[p] = sent[p],
           publishing'[p] = publishing[p]
    PROVE  UnderWay(p)'
BY DEF UnderWay, Newest

\* When an event is delivered, whoever is to have it has got it or will get it, in order.
LEMMA DeliverServes ==
    ASSUME BusTypes, QueuesBounded, NEW p \in Publishers, NEW e \in Events,
           NEW list \in Seq(Subscribers), Distinct(list), Deliver(p, e, list),
           \A q \in Publishers : q # p => UnderWay(q) /\ sent'[q] = sent[q],
           \A q \in Publishers, s \in Subscribers : q # p => Served(q, s),
           sent' \in [Publishers -> Seq(Types)], Newest(p, e)',
           UNCHANGED <<listed, phase, opened, given>>,
           \A s \in Subscribers : Contains(list, s) => e.type \in Interest[s],
           \A s \in Subscribers : phase[s] # "gone" =>
               /\ Rising(p, Reached(s))
               /\ NumbersIn(p, Reached(s)) =
                     {n \in Meant(p, s)' : Contains(list, s) => n < Len(sent'[p])}
    PROVE  /\ BusTypes' /\ QueuesBounded'
           /\ \A q \in Publishers : UnderWay(q)'
           /\ \A q \in Publishers, s \in Subscribers : Served(q, s)'
<1>1. PICK Told \in SUBSET Subscribers :
          /\ queue' = [s \in Subscribers |->
                          IF s \in Told THEN Append(queue[s], e) ELSE queue[s]]
          /\ \A s \in Told : Contains(list, s) /\ ~Full(s)
          /\ \A q \in Publishers \ {p} : publishing'[q] = publishing[q]
          /\ publishing' \in [Publishers -> PublisherState]
          /\ \/ /\ publishing'[p].at = "idle"
                /\ \A s \in Subscribers : Contains(list, s) => s \in Told
             \/ /\ publishing'[p].at = "blocked" /\ publishing'[p].event = e
                /\ Distinct(publishing'[p].rest)
                /\ \A s \in Subscribers :
                      Contains(publishing'[p].rest, s) <=> Contains(list, s) /\ s \notin Told
    BY DeliverTells
<1>2. queue' \in [Subscribers -> Seq(Events)]
    BY <1>1, AppendProperties DEF BusTypes
<1>3. BusTypes'
    BY <1>1, <1>2 DEF BusTypes
<1>4. QueuesBounded'
  <2> SUFFICES ASSUME NEW s \in Subscribers
               PROVE  Len(queue'[s]) <= Capacity
      BY DEF QueuesBounded
  <2>1. queue[s] \in Seq(Events) /\ Len(queue[s]) \in Nat /\ Len(queue[s]) <= Capacity
      BY LenProperties DEF BusTypes, QueuesBounded
  <2>2. CASE s \in Told
    <3>1. ~(Len(queue[s]) >= Capacity) /\ queue'[s] = Append(queue[s], e)
        BY <1>1, <2>2 DEF Full
    <3>2. Len(queue'[s]) = Len(queue[s]) + 1
        BY <2>1, <3>1, AppendProperties
    <3> QED
        BY <2>1, <3>1, <3>2, BusAssumption
  <2>3. CASE s \notin Told
      BY <1>1, <2>1, <2>3
  <2> QED
      BY <2>2, <2>3
<1>5. UnderWay(p)'
    BY <1>1 DEF UnderWay
<1>6. ASSUME NEW q \in Publishers, q # p
      PROVE  UnderWay(q)'
    BY <1>1, <1>6, UnderWayStays
<1>7. ASSUME NEW s \in Subscribers
      PROVE  /\ Reached(s) \in Seq(Events)
             /\ Reached(s)' = IF s \in Told THEN Append(Reached(s), e) ELSE Reached(s)
  <2>1. given[s] \in Seq(Events) /\ queue[s] \in Seq(Events) /\ given'[s] = given[s]
      BY DEF BusTypes
  <2>2. CASE s \in Told
    <3>1. queue'[s] = Append(queue[s], e)
        BY <1>1, <2>2
    <3>2. given[s] \o Append(queue[s], e) = Append(given[s] \o queue[s], e)
      <4> DEFINE g == given[s]
                 u == queue[s]
      <4>1. g \in Seq(Events) /\ u \in Seq(Events)
          BY <2>1
      <4> HIDE DEF g, u
      <4>2. g \o Append(u, e) = Append(g \o u, e)
          BY ONLY <4>1, e \in Events, AppendOfConcat
      <4> QED
          BY <4>2 DEF g, u
    <3> QED
        BY <2>1, <2>2, <3>1, <3>2, ConcatProperties DEF Reached
  <2>3. CASE s \notin Told
    <3>1. queue'[s] = queue[s]
        BY <1>1, <2>3
    <3> QED
        BY <2>1, <2>3, <3>1, ConcatProperties DEF Reached
  <2> QED
      BY <2>2, <2>3
<1>8. ASSUME NEW q \in Publishers, NEW s \in Subscribers, q # p
      PROVE  Served(q, s)'
  <2>1. CASE s \notin Told
      BY <1>1, <1>7, <1>8, <2>1, ServedStays
  <2>2. CASE s \in Told
    <3>1. Reached(s)' = Append(Reached(s), e) /\ e.from # q /\ Reached(s) \in Seq(Events)
        BY <1>7, <1>8, <2>2 DEF Newest
    <3>2. /\ NumbersIn(q, Append(Reached(s), e)) = NumbersIn(q, Reached(s))
          /\ Rising(q, Reached(s)) => Rising(q, Append(Reached(s), e))
      <4> DEFINE q1 == Reached(s)
      <4>1. q1 \in Seq(Events) /\ e.from # q
          BY <3>1
      <4> HIDE DEF q1
      <4>2. /\ NumbersIn(q, Append(q1, e)) = NumbersIn(q, q1)
            /\ Rising(q, q1) => Rising(q, Append(q1, e))
        <5>1. NumbersIn(q, Append(q1, e)) =
                  NumbersIn(q, q1) \cup (IF e.from = q THEN {e.number} ELSE {})
            BY ONLY <4>1, e \in Events, OneMore
        <5>2. Rising(q, q1) /\ (e.from = q => \A n \in NumbersIn(q, q1) : n < e.number)
                  => Rising(q, Append(q1, e))
            BY ONLY <4>1, e \in Events, OneMore
        <5> QED
            BY ONLY <4>1, <5>1, <5>2
      <4> QED
          BY <4>2 DEF q1
    <3>3. Owed(q, s)' = Owed(q, s)
        BY <1>1, <1>8 DEF Owed, Meant, Pending
    <3>4. Rising(q, Reached(s))' = Rising(q, Reached(s)')
        BY DEF Rising
    <3>5. NumbersIn(q, Reached(s))' = NumbersIn(q, Reached(s)')
        BY DEF NumbersIn
    <3> QED
        BY <1>8, <3>1, <3>2, <3>3, <3>4, <3>5 DEF Served
  <2> QED
      BY <2>1, <2>2
<1>9. ASSUME NEW s \in Subscribers
      PROVE  Served(p, s)'
  <2> SUFFICES ASSUME phase[s] # "gone"
               PROVE  /\ Rising(p, Reached(s))'
                      /\ NumbersIn(p, Reached(s))' = Owed(p, s)'
      BY DEF Served
  <2> DEFINE last == Len(sent'[p])
             meant == Meant(p, s)'
  <2>1. /\ Rising(p, Reached(s))' = Rising(p, Reached(s)')
        /\ NumbersIn(p, Reached(s))' = NumbersIn(p, Reached(s)')
      BY DEF Rising, NumbersIn
  <2>2. /\ Rising(p, Reached(s))
        /\ NumbersIn(p, Reached(s)) = {n \in meant : Contains(list, s) => n < last}
      OBVIOUS
  <2>3. /\ last \in Nat \ {0} /\ meant \subseteq 1..last /\ e.from = p /\ e.number = last
        /\ e.type \in Interest[s] => last \in meant
      BY LenProperties, EmptySeq DEF Newest, Meant
  <2>4. Pending(p, s)' <=> Contains(list, s) /\ s \notin Told
    <3>1. CASE publishing'[p].at = "idle"
        BY <1>1, <3>1 DEF Pending
    <3>2. CASE publishing'[p].at = "blocked"
      <4>1. publishing'[p].rest \in Seq(Subscribers)
          BY <1>1, <3>2, PublisherIs
      <4>2. Pending(p, s)' <=> Contains(publishing'[p].rest, s)
          BY <3>2, <4>1, LenProperties DEF Pending, Contains
      <4> QED
          BY <1>1, <3>2, <4>2
    <3> QED
        BY <1>1, <3>1, <3>2
  <2>5. Owed(p, s)' = {n \in meant : Pending(p, s)' => n < last}
      BY DEF Owed
  <2> HIDE DEF last, meant
  <2>6. CASE s \in Told
    <3>1. Contains(list, s) /\ last \in meant
        BY <1>1, <2>3, <2>6
    <3>2. Owed(p, s)' = meant
        BY <2>4, <2>5, <2>6
    <3>3. \A n \in NumbersIn(p, Reached(s)) : n < e.number
        BY <2>2, <2>3, <3>1
    <3>4. /\ Rising(p, Append(Reached(s), e))
          /\ NumbersIn(p, Append(Reached(s), e)) = NumbersIn(p, Reached(s)) \cup {last}
        BY <1>7, <2>2, <2>3, <3>3, OneMore
    <3>5. {n \in meant : Contains(list, s) => n < last} \cup {last} = meant
        BY <2>3, <3>1
    <3> QED
        BY <1>7, <2>1, <2>2, <2>6, <3>2, <3>4, <3>5
  <2>7. CASE s \notin Told
    <3>1. Owed(p, s)' = NumbersIn(p, Reached(s))
        BY <2>2, <2>4, <2>5, <2>7
    <3> QED
        BY <1>7, <2>1, <2>2, <2>7, <3>1
  <2> QED
      BY <2>6, <2>7
<1> QED
    BY <1>3, <1>4, <1>5, <1>6, <1>8, <1>9

-----------------------------------------------------------------------------
(***************************************************************************)
(* Every step of the bus keeps the invariant.                              *)
(***************************************************************************)

LEMMA BusBegins == ClientsInit => BusInv
<1> SUFFICES ASSUME ClientsInit
             PROVE  BusInv
    OBVIOUS
<1> USE DEF ClientsInit, BusInit
<1>0. Idle \in PublisherState /\ Idle.at = "idle"
    BY DEF PublisherState, Idle
<1>1. BusTypes
    BY <1>0, EmptySeq DEF BusTypes
<1>2. Counted
  <2>1. Preparing = Subscribers
      BY DEF Preparing
  <2>2. Cardinality(Subscribers) \in Nat
      BY ClientAssumption, FS_CardinalityType
  <2> QED
      BY <2>1, <2>2 DEF Counted
<1>3. ListsAgree
    BY DEF ListsAgree, Distinct, Contains
<1>4. QueuesBounded
    BY BusAssumption DEF QueuesBounded
<1>5. ASSUME NEW p \in Publishers
      PROVE  UnderWay(p)
    BY <1>0 DEF UnderWay
<1>6. ASSUME NEW p \in Publishers, NEW s \in Subscribers
      PROVE  Served(p, s)
  <2>1. Reached(s) = <<>>
      BY EmptySeq, ConcatEmptySeq DEF Reached
  <2>2. NumbersIn(p, <<>>) = {} /\ Rising(p, <<>>) /\ Owed(p, s) = {}
      BY DEF NumbersIn, Rising, Owed, Meant
  <2> QED
      BY <2>1, <2>2 DEF Served
<1> QED
    BY <1>1, <1>2, <1>3, <1>4, <1>5, <1>6 DEF BusInv

\* When nobody is awaited, every worker is reading or has left.
LEMMA NobodyAwaited ==
    ASSUME BusTypes, Counted, AllReady
    PROVE  \A s \in Subscribers : phase[s] \in {"reading", "gone"}
<1>1. IsFiniteSet(Preparing)
    BY ClientAssumption, FS_Subset DEF Preparing
<1>2. Cardinality(Preparing) \in Nat
    BY <1>1, FS_CardinalityType
<1>3. Cardinality(Preparing) = 0
    BY <1>2 DEF Counted, AllReady
<1>4. Preparing = {}
    BY <1>1, <1>3, FS_EmptySet
<1> QED
    BY <1>4 DEF Preparing, BusTypes

LEMMA CountStays ==
    ASSUME Counted, Preparing' = Preparing, UNCHANGED <<pending, opened>>
    PROVE  Counted'
BY DEF Counted

LEMMA OpenKeeps == BusInv /\ OpenBus => BusInv'
<1> SUFFICES ASSUME BusInv, OpenBus
             PROVE  BusInv'
    OBVIOUS
<1> USE DEF BusInv, OpenBus
<1>1. BusTypes'
    BY DEF BusTypes
<1>2. Counted'
  <2>1. Preparing' = Preparing
      BY DEF Preparing
  <2>2. Cardinality(Preparing) \in Nat
      BY ClientAssumption, FS_Subset, FS_CardinalityType DEF Preparing
  <2>3. pending = Cardinality(Preparing) + 1 /\ pending' = pending - 1
      BY DEF Counted, Ready
  <2> QED
      BY <2>1, <2>2, <2>3 DEF Counted
<1>3. ListsAgree' /\ QueuesBounded'
    BY DEF ListsAgree, QueuesBounded
<1>4. \A p \in Publishers : UnderWay(p)'
    BY UnderWayStays
<1>5. \A p \in Publishers, s \in Subscribers : Served(p, s)'
    BY ServedStays DEF Reached
<1> QED
    BY <1>1, <1>2, <1>3, <1>4, <1>5

LEMMA EnterKeeps ==
    ASSUME BusInv, NEW w \in Subscribers, Enter(w)
    PROVE  BusInv'
<1> USE DEF BusInv, Enter
<1>1. /\ \A t \in Types : listed'[t] = IF t \in Interest[w] THEN Append(listed[t], w)
                                                            ELSE listed[t]
      /\ DOMAIN listed' = Types /\ listed' = [t \in Types |-> listed'[t]]
    BY DEF Subscribe
<1>2. ASSUME NEW t \in Types
      PROVE  /\ listed'[t] \in Seq(Subscribers) /\ Distinct(listed'[t])
             /\ \A s \in Subscribers :
                   Contains(listed'[t], s) <=>
                       Contains(listed[t], s) \/ (s = w /\ t \in Interest[w])
  <2>1. listed[t] \in Seq(Subscribers) /\ Distinct(listed[t]) /\ ~Contains(listed[t], w)
      BY DEF BusTypes, ListsAgree
  <2>2. /\ Append(listed[t], w) \in Seq(Subscribers) /\ Distinct(Append(listed[t], w))
        /\ \A s : Contains(Append(listed[t], w), s) <=> Contains(listed[t], s) \/ s = w
      BY <2>1, AppendHas
  <2> QED
      BY <1>1, <2>1, <2>2
<1>3. BusTypes'
  <2>1. listed' \in [Types -> Seq(Subscribers)]
      BY <1>1, <1>2
  <2> QED
      BY <2>1 DEF BusTypes
<1>4. phase' = [phase EXCEPT ![w] = "subscribed"] /\ phase[w] = "new"
    BY DEF BusTypes
<1>5. Counted'
  <2>1. Preparing' = Preparing
      BY <1>4 DEF Preparing, BusTypes
  <2> QED
      BY <2>1, CountStays
<1>6. ListsAgree'
  <2> SUFFICES ASSUME NEW t \in Types
               PROVE  /\ Distinct(listed'[t])
                      /\ \A s \in Subscribers :
                            Contains(listed'[t], s) <=>
                               phase'[s] \in {"subscribed", "reading"} /\ t \in Interest[s]
      BY DEF ListsAgree, Distinct, Contains
  <2> QED
      BY <1>2, <1>4 DEF ListsAgree, BusTypes
<1>7. QueuesBounded'
    BY DEF QueuesBounded
<1>8. \A p \in Publishers : UnderWay(p)'
    BY UnderWayStays
<1>9. \A p \in Publishers, s \in Subscribers : Served(p, s)'
    BY <1>4, ServedStays DEF Reached, BusTypes
<1> QED
    BY <1>3, <1>5, <1>6, <1>7, <1>8, <1>9

LEMMA BeReadyKeeps ==
    ASSUME BusInv, NEW w \in Subscribers, BeReady(w)
    PROVE  BusInv'
<1> USE DEF BusInv, BeReady
<1>1. phase' = [phase EXCEPT ![w] = "reading"] /\ phase[w] = "subscribed"
    OBVIOUS
<1>2. BusTypes'
    BY DEF BusTypes
<1>3. Counted'
  <2>1. IsFiniteSet(Preparing) /\ w \in Preparing
      BY <1>1, ClientAssumption, FS_Subset DEF Preparing
  <2>2. Preparing' = Preparing \ {w}
      BY <1>1 DEF Preparing, BusTypes
  <2>3. /\ Cardinality(Preparing) \in Nat
        /\ Cardinality(Preparing \ {w}) = Cardinality(Preparing) - 1
      BY <2>1, FS_RemoveElement, FS_CardinalityType
  <2>4. pending' = pending - 1 /\ opened' = opened
      BY DEF Ready
  <2>5. CASE opened
      BY <2>2, <2>3, <2>4, <2>5 DEF Counted
  <2>6. CASE ~opened
      BY <2>2, <2>3, <2>4, <2>6 DEF Counted
  <2> QED
      BY <2>5, <2>6
<1>4. ListsAgree'
    BY <1>1 DEF ListsAgree, BusTypes
<1>5. QueuesBounded'
    BY DEF QueuesBounded
<1>6. \A p \in Publishers : UnderWay(p)'
    BY UnderWayStays
<1>7. \A p \in Publishers, s \in Subscribers : Served(p, s)'
    BY <1>1, ServedStays DEF Reached, BusTypes
<1> QED
    BY <1>2, <1>3, <1>4, <1>5, <1>6, <1>7

\* To take the head of one sequence to the end of the other changes nothing of both.
LEMMA HeadMoves ==
    ASSUME NEW S, NEW s \in Seq(S), NEW t \in Seq(S), t # <<>>
    PROVE  Append(s, Head(t)) \o Tail(t) = s \o t
<1>1. Head(t) \in S /\ Tail(t) \in Seq(S) /\ t = <<Head(t)>> \o Tail(t)
  <2>1. Head(t) \in S /\ Tail(t) \in Seq(S) /\ Len(t) \in Nat \ {0}
        /\ Len(Tail(t)) = Len(t) - 1 /\ \A i \in 1..Len(Tail(t)) : Tail(t)[i] = t[i + 1]
        /\ Head(t) = t[1]
      BY HeadTailProperties, LenProperties, EmptySeq
  <2> DEFINE one == <<Head(t)>>
             rest == Tail(t)
  <2>2. one \in Seq(S) /\ Len(one) = 1 /\ one[1] = t[1]
      BY <2>1
  <2>3. rest \in Seq(S) /\ Len(rest) = Len(t) - 1
      BY <2>1
  <2> HIDE DEF one, rest
  <2>4. /\ one \o rest \in Seq(S) /\ Len(one \o rest) = Len(one) + Len(rest)
        /\ \A i \in 1..(Len(one) + Len(rest)) :
              (one \o rest)[i] = IF i <= Len(one) THEN one[i] ELSE rest[i - Len(one)]
      BY <2>2, <2>3, ConcatProperties
  <2>5. Len(one \o rest) = Len(t)
      BY <2>1, <2>2, <2>3, <2>4
  <2>6. ASSUME NEW i \in 1..Len(t)
        PROVE  (one \o rest)[i] = t[i]
    <3>1. CASE i = 1
        BY <2>1, <2>2, <2>3, <2>4, <3>1
    <3>2. CASE i # 1
      <4>1. (one \o rest)[i] = rest[i - 1] /\ i - 1 \in 1..(Len(t) - 1)
          BY <2>1, <2>2, <2>3, <2>4, <3>2
      <4>2. rest[i - 1] = t[(i - 1) + 1] /\ (i - 1) + 1 = i
          BY <2>1, <4>1 DEF rest
      <4> QED
          BY <4>1, <4>2
    <3> QED
        BY <3>1, <3>2
  <2>7. one \o rest = t
      BY <2>4, <2>5, <2>6, SeqEqual
  <2> QED
      BY <2>1, <2>7 DEF one, rest
<1>2. <<Head(t)>> \in Seq(S) /\ Append(s, Head(t)) = s \o <<Head(t)>>
    BY <1>1, AppendIsConcat
<1>3. (s \o <<Head(t)>>) \o Tail(t) = s \o (<<Head(t)>> \o Tail(t))
    BY <1>1, <1>2, ConcatAssociative
<1> QED
    BY <1>1, <1>2, <1>3

LEMMA TakeKeeps ==
    ASSUME BusInv, NEW w \in Subscribers, Take(w)
    PROVE  BusInv'
<1> USE DEF BusInv
<1>1. /\ queue[w] # <<>>
      /\ given' = [given EXCEPT ![w] = Append(given[w], Head(queue[w]))]
      /\ queue' = [queue EXCEPT ![w] = Tail(queue[w])]
      /\ UNCHANGED <<pending, listed, publishing, phase, opened, sent>>
    BY DEF Take, Arrived, Get
<1>2. /\ queue[w] \in Seq(Events) /\ given[w] \in Seq(Events)
      /\ Head(queue[w]) \in Events /\ Tail(queue[w]) \in Seq(Events)
      /\ Len(Tail(queue[w])) = Len(queue[w]) - 1 /\ Len(queue[w]) \in Nat
    BY <1>1, HeadTailProperties, LenProperties DEF BusTypes
<1>3. Append(given[w], Head(queue[w])) \in Seq(Events)
    BY <1>2, AppendProperties
<1>4. BusTypes'
    BY <1>1, <1>2, <1>3 DEF BusTypes
<1>5. Counted' /\ ListsAgree'
    BY <1>1 DEF Counted, Preparing, ListsAgree
<1>6. QueuesBounded'
    BY <1>1, <1>2, BusAssumption DEF QueuesBounded, BusTypes
<1>7. \A p \in Publishers : UnderWay(p)'
    BY <1>1, UnderWayStays
<1>8. ASSUME NEW s \in Subscribers
      PROVE  Reached(s)' = Reached(s)
  <2>1. CASE s = w
    <3>1. given'[w] = Append(given[w], Head(queue[w])) /\ queue'[w] = Tail(queue[w])
        BY <1>1 DEF BusTypes
    <3>2. Append(given[w], Head(queue[w])) \o Tail(queue[w]) = given[w] \o queue[w]
        BY <1>1, <1>2, HeadMoves
    <3> QED
        BY <2>1, <3>1, <3>2 DEF Reached
  <2>2. CASE s # w
      BY <1>1, <2>2 DEF Reached, BusTypes
  <2> QED
      BY <2>1, <2>2
<1>9. \A p \in Publishers, s \in Subscribers : Served(p, s)'
    BY <1>1, <1>8, ServedStays
<1> QED
    BY <1>4, <1>5, <1>6, <1>7, <1>9

LEMMA LeaveKeeps ==
    ASSUME BusInv, NEW w \in Subscribers, Leave(w)
    PROVE  BusInv'
<1> USE DEF BusInv
<1>1. /\ phase' = [phase EXCEPT ![w] = "gone"] /\ phase[w] = "reading"
      /\ listed' = [t \in Types |-> Without(listed[t], w)]
      /\ queue' = [queue EXCEPT ![w] = <<>>]
      /\ UNCHANGED <<pending, publishing, opened, sent, given>>
    BY DEF Leave, Unsubscribe
<1>2. ASSUME NEW t \in Types
      PROVE  /\ listed'[t] \in Seq(Subscribers) /\ Distinct(listed'[t])
             /\ \A s \in Subscribers :
                   Contains(listed'[t], s) <=> Contains(listed[t], s) /\ s # w
  <2>1. listed[t] \in Seq(Subscribers) /\ Distinct(listed[t])
      BY DEF BusTypes, ListsAgree
  <2>2. Without(listed[t], w) = Popped(listed[t], w)
      BY <2>1, WithoutIsPopped
  <2>3. listed'[t] = Popped(listed[t], w)
      BY <1>1, <2>2
  <2> QED
      BY <2>1, <2>3, PoppedHas
<1>3. BusTypes'
  <2>1. listed' \in [Types -> Seq(Subscribers)]
      BY <1>1, <1>2
  <2>2. queue' \in [Subscribers -> Seq(Events)]
      BY <1>1, EmptySeq DEF BusTypes
  <2> QED
      BY <1>1, <2>1, <2>2 DEF BusTypes
<1>4. Counted'
  <2>1. Preparing' = Preparing
      BY <1>1 DEF Preparing, BusTypes
  <2> QED
      BY <1>1, <2>1, CountStays
<1>5. ListsAgree'
  <2> SUFFICES ASSUME NEW t \in Types
               PROVE  /\ Distinct(listed'[t])
                      /\ \A s \in Subscribers :
                            Contains(listed'[t], s) <=>
                               phase'[s] \in {"subscribed", "reading"} /\ t \in Interest[s]
      BY DEF ListsAgree, Distinct, Contains
  <2> QED
      BY <1>1, <1>2 DEF ListsAgree, BusTypes
<1>6. QueuesBounded'
    BY <1>1, BusAssumption DEF QueuesBounded, BusTypes
<1>7. \A p \in Publishers : UnderWay(p)'
    BY <1>1, UnderWayStays
<1>8. ASSUME NEW p \in Publishers, NEW s \in Subscribers
      PROVE  Served(p, s)'
  <2>1. CASE s = w
      BY <1>1, <2>1 DEF Served, BusTypes
  <2>2. CASE s # w
      BY <1>1, <2>2, ServedStays DEF Reached, BusTypes
  <2> QED
      BY <2>1, <2>2
<1> QED
    BY <1>3, <1>4, <1>5, <1>6, <1>7, <1>8

\* Send: the event is delivered to the workers in the list of its type, or waits.
LEMMA SendKeeps ==
    ASSUME BusInv, NEW p \in Publishers, NEW t \in Types, Send(p, t)
    PROVE  BusInv'
<1> USE DEF BusInv
<1>2. sent[p] \in Seq(Types) /\ Len(sent[p]) \in Nat /\ Len(sent[p]) < MaxEvents
    BY LenProperties DEF BusTypes, Send
<1>13. Len(sent[p]) + 1 \in 1..MaxEvents
    BY <1>2, ClientAssumption
<1>12. [type |-> t, from |-> p, number |-> Len(sent[p]) + 1] \in Events
    BY <1>13, ClientAssumption
<1>0. PICK e \in Events : e = [type |-> t, from |-> p, number |-> Len(sent[p]) + 1]
    BY <1>12
<1>1. /\ Len(sent[p]) < MaxEvents /\ sent' = [sent EXCEPT ![p] = Append(@, t)]
      /\ Publish(p, e) /\ UNCHANGED <<pending, listed, phase, opened, given>>
    BY <1>0 DEF Send
<1>3. /\ e \in Events /\ e.from = p /\ e.type = t /\ e.number = Len(sent[p]) + 1
    BY <1>0
<1>4. /\ sent' \in [Publishers -> Seq(Types)] /\ sent'[p] = Append(sent[p], t)
      /\ \A q \in Publishers : q # p => sent'[q] = sent[q]
    BY <1>1, AppendProperties DEF BusTypes
<1>5. /\ sent'[p] # <<>> /\ Len(sent'[p]) = Len(sent[p]) + 1
      /\ sent'[p][Len(sent[p]) + 1] = t
      /\ \A i \in 1..Len(sent[p]) : sent'[p][i] = sent[p][i]
    BY <1>2, <1>4, AppendProperties
<1>6. Newest(p, e)'
    BY <1>3, <1>5 DEF Newest
<1>7. publishing[p] = Idle /\ Idle.at = "idle"
    BY <1>1 DEF Publish, Idle
<1>8. ASSUME NEW s \in Subscribers
      PROVE  /\ Owed(p, s) = Meant(p, s) /\ Meant(p, s) \subseteq 1..Len(sent[p])
             /\ Meant(p, s)' =
                   Meant(p, s) \cup (IF t \in Interest[s] THEN {Len(sent[p]) + 1} ELSE {})
  <2>1. ~Pending(p, s)
      BY <1>7 DEF Pending
  <2>2. DOMAIN sent[p] = 1..Len(sent[p]) /\ DOMAIN sent'[p] = 1..(Len(sent[p]) + 1)
      BY <1>2, <1>4, <1>5, LenProperties
  <2>3. ASSUME NEW n \in 1..(Len(sent[p]) + 1)
        PROVE  sent'[p][n] = IF n = Len(sent[p]) + 1 THEN t ELSE sent[p][n]
      BY <1>2, <1>5
  <2>4. Meant(p, s)' = {n \in 1..(Len(sent[p]) + 1) : sent'[p][n] \in Interest[s]}
      BY <2>2 DEF Meant
  <2>5. Meant(p, s) = {n \in 1..Len(sent[p]) : sent[p][n] \in Interest[s]}
      BY <2>2 DEF Meant
  <2>6. Len(sent[p]) + 1 \in Meant(p, s)' <=> t \in Interest[s]
      BY <1>2, <2>3, <2>4
  <2>7. ASSUME NEW n, n # Len(sent[p]) + 1
        PROVE  n \in Meant(p, s)' <=> n \in Meant(p, s)
      BY <1>2, <2>3, <2>4, <2>5, <2>7
  <2>8. Len(sent[p]) + 1 \notin Meant(p, s)
      BY <1>2, <2>5
  <2>9. Meant(p, s)' =
            Meant(p, s) \cup (IF t \in Interest[s] THEN {Len(sent[p]) + 1} ELSE {})
      BY <2>6, <2>7, <2>8
  <2> QED
      BY <2>1, <2>5, <2>9 DEF Owed
<1>9. Counted' /\ ListsAgree'
    BY <1>1 DEF Counted, Preparing, ListsAgree
<1>10. CASE AllReady
  <2>1. Deliver(p, e, listed[t])
      BY <1>1, <1>3, <1>10 DEF Publish
  <2>2. listed[t] \in Seq(Subscribers) /\ Distinct(listed[t])
      BY DEF BusTypes, ListsAgree
  <2>3. \A s \in Subscribers :
            /\ Contains(listed[t], s) => e.type \in Interest[s]
            /\ phase[s] # "gone" => (Contains(listed[t], s) <=> t \in Interest[s])
      BY <1>3, <1>10, NobodyAwaited DEF ListsAgree
  <2>4. ASSUME NEW s \in Subscribers, phase[s] # "gone"
        PROVE  /\ Rising(p, Reached(s))
               /\ NumbersIn(p, Reached(s)) =
                     {n \in Meant(p, s)' : Contains(listed[t], s) => n < Len(sent'[p])}
    <3>1. Rising(p, Reached(s)) /\ NumbersIn(p, Reached(s)) = Meant(p, s)
        BY <1>8, <2>4 DEF Served
    <3>2. CASE t \in Interest[s]
      <4>1. \A n : n \in Meant(p, s) <=> n \in Meant(p, s)' /\ n < Len(sent'[p])
          BY <1>2, <1>5, <1>8, <3>2
      <4> QED
          BY <2>3, <2>4, <3>1, <3>2, <4>1
    <3>3. CASE t \notin Interest[s]
        BY <1>8, <2>3, <2>4, <3>1, <3>3
    <3> QED
        BY <3>2, <3>3
  <2>5. /\ BusTypes' /\ QueuesBounded'
        /\ \A q \in Publishers : UnderWay(q)'
        /\ \A q \in Publishers, s \in Subscribers : Served(q, s)'
    <3>1. \A q \in Publishers : q # p => UnderWay(q) /\ sent'[q] = sent[q]
        BY <1>4
    <3> QED
        BY <1>1, <1>3, <1>4, <1>6, <2>1, <2>2, <2>3, <2>4, <3>1, DeliverServes
  <2> QED
      BY <1>9, <2>5
<1>11. CASE ~AllReady
  <2>1. publishing' = [publishing EXCEPT ![p] = Waiting(e)] /\ queue' = queue
      BY <1>1, <1>11 DEF Publish
  <2>2. /\ Waiting(e) \in PublisherState /\ Waiting(e).at = "waiting" /\ Waiting(e).event = e
      BY <1>3 DEF Waiting, PublisherState
  <2>3. BusTypes' /\ QueuesBounded'
      BY <1>1, <1>4, <2>1, <2>2 DEF BusTypes, QueuesBounded
  <2>4. ASSUME NEW q \in Publishers
        PROVE  UnderWay(q)'
    <3>1. CASE q = p
        BY <1>6, <2>1, <2>2, <3>1 DEF UnderWay, BusTypes
    <3>2. CASE q # p
        BY <1>4, <2>1, <3>2, UnderWayStays DEF BusTypes
    <3> QED
        BY <3>1, <3>2
  <2>5. ASSUME NEW q \in Publishers, NEW s \in Subscribers
        PROVE  Served(q, s)'
    <3>0. Reached(s)' = Reached(s)
        BY <1>1, <2>1 DEF Reached
    <3>1. CASE q = p
      <4> SUFFICES ASSUME phase[s] # "gone"
                   PROVE  Rising(p, Reached(s))' /\ NumbersIn(p, Reached(s))' = Owed(p, s)'
          BY <1>1, <3>1 DEF Served
      <4>1. Rising(p, Reached(s)) /\ NumbersIn(p, Reached(s)) = Meant(p, s)
          BY <1>8 DEF Served
      <4>2. Pending(p, s)'
          BY <2>1, <2>2 DEF Pending, BusTypes
      <4>3. \A n : n \in Meant(p, s) <=> n \in Meant(p, s)' /\ n < Len(sent'[p])
          BY <1>2, <1>5, <1>8
      <4>4. Owed(p, s)' = Meant(p, s)
          BY <4>2, <4>3 DEF Owed
      <4>5. /\ Rising(p, Reached(s))' = Rising(p, Reached(s))
            /\ NumbersIn(p, Reached(s))' = NumbersIn(p, Reached(s))
          BY <3>0 DEF Rising, NumbersIn
      <4> QED
          BY <4>1, <4>4, <4>5
    <3>2. CASE q # p
        BY <1>1, <1>4, <2>1, <3>0, <3>2, ServedStays DEF BusTypes
    <3> QED
        BY <3>1, <3>2
  <2> QED
      BY <1>9, <2>3, <2>4, <2>5
<1> QED
    BY <1>10, <1>11

\* What a publisher has begun to publish goes on.
LEMMA ContinueKeeps ==
    ASSUME BusInv, NEW p \in Publishers, Continue(p)
    PROVE  BusInv'
<1> USE DEF BusInv
<1>1. UNCHANGED <<pending, listed, phase, opened, sent, given>>
    BY DEF Continue, Released, Resume
<1>2. Counted' /\ ListsAgree'
    BY <1>1 DEF Counted, Preparing, ListsAgree
<1>3. PICK e \in Events, list \in Seq(Subscribers) :
          /\ Distinct(list) /\ Deliver(p, e, list) /\ Newest(p, e)
          /\ \A s \in Subscribers : Contains(list, s) => e.type \in Interest[s]
          /\ \A s \in Subscribers : phase[s] # "gone" =>
                /\ Rising(p, Reached(s))
                /\ NumbersIn(p, Reached(s)) =
                      {n \in Meant(p, s) : Contains(list, s) => n < Len(sent[p])}
  <2> DEFINE e == publishing[p].event
  <2>1. CASE Released(p)
    <3>1. /\ publishing[p].at = "waiting" /\ AllReady /\ Deliver(p, e, listed[e.type])
        BY <2>1 DEF Released
    <3>2. e \in Events /\ Newest(p, e) /\ e.type \in Types
        BY <3>1, PublisherIs, BusAssumption DEF BusTypes, UnderWay
    <3>3. listed[e.type] \in Seq(Subscribers) /\ Distinct(listed[e.type])
        BY <3>2 DEF BusTypes, ListsAgree
    <3>4. \A s \in Subscribers :
              /\ Contains(listed[e.type], s) => e.type \in Interest[s]
              /\ phase[s] # "gone" => (Contains(listed[e.type], s) <=> e.type \in Interest[s])
        BY <3>1, <3>2, NobodyAwaited DEF ListsAgree
    <3>5. ASSUME NEW s \in Subscribers, phase[s] # "gone"
          PROVE  /\ Rising(p, Reached(s))
                 /\ NumbersIn(p, Reached(s)) =
                       {n \in Meant(p, s) : Contains(listed[e.type], s) => n < Len(sent[p])}
      <4>1. Pending(p, s)
          BY <3>1 DEF Pending
      <4>2. /\ Rising(p, Reached(s))
            /\ NumbersIn(p, Reached(s)) = {n \in Meant(p, s) : n < Len(sent[p])}
          BY <3>5, <4>1 DEF Served, Owed
      <4>3. CASE e.type \in Interest[s]
          BY <3>4, <3>5, <4>2, <4>3
      <4>4. CASE e.type \notin Interest[s]
        <5>1. \A n \in Meant(p, s) : n \in 1..Len(sent[p]) /\ n # Len(sent[p])
            BY <3>2, <4>4, LenProperties DEF Meant, Newest, BusTypes
        <5>2. Len(sent[p]) \in Nat
            BY LenProperties DEF BusTypes
        <5>3. \A n \in Meant(p, s) : n < Len(sent[p])
            BY <5>1, <5>2
        <5> QED
            BY <3>4, <3>5, <4>2, <4>4, <5>3
      <4> QED
          BY <4>3, <4>4
    <3> QED
        BY <3>1, <3>2, <3>3, <3>4, <3>5
  <2>2. CASE Resume(p)
    <3> DEFINE rest == publishing[p].rest
    <3>1. publishing[p].at = "blocked" /\ Deliver(p, e, rest)
        BY <2>2 DEF Resume
    <3>2. /\ e \in Events /\ rest \in Seq(Subscribers) /\ Newest(p, e) /\ Distinct(rest)
          /\ \A s \in Subscribers : Contains(rest, s) => e.type \in Interest[s]
        BY <3>1, PublisherIs DEF BusTypes, UnderWay
    <3>3. ASSUME NEW s \in Subscribers
          PROVE  Pending(p, s) <=> Contains(rest, s)
        BY <3>1, <3>2, LenProperties DEF Pending, Contains
    <3>4. ASSUME NEW s \in Subscribers, phase[s] # "gone"
          PROVE  /\ Rising(p, Reached(s))
                 /\ NumbersIn(p, Reached(s)) =
                       {n \in Meant(p, s) : Contains(rest, s) => n < Len(sent[p])}
        BY <3>3, <3>4 DEF Served, Owed
    <3> HIDE DEF rest
    <3> QED
        BY <3>1, <3>2, <3>4
  <2> QED
      BY <2>1, <2>2 DEF Continue
<1>4. \A s \in Subscribers : Meant(p, s)' = Meant(p, s)
    BY <1>1 DEF Meant
<1>5. Newest(p, e)'
    BY <1>1, <1>3 DEF Newest
<1>6. ASSUME NEW s \in Subscribers, phase[s] # "gone"
      PROVE  /\ Rising(p, Reached(s))
             /\ NumbersIn(p, Reached(s)) =
                   {n \in Meant(p, s)' : Contains(list, s) => n < Len(sent'[p])}
    BY <1>1, <1>3, <1>4, <1>6
<1>7. /\ BusTypes' /\ QueuesBounded'
      /\ \A q \in Publishers : UnderWay(q)'
      /\ \A q \in Publishers, s \in Subscribers : Served(q, s)'
  <2>1. sent' \in [Publishers -> Seq(Types)] /\ \A q \in Publishers : sent'[q] = sent[q]
      BY <1>1 DEF BusTypes
  <2> QED
      BY <1>1, <1>3, <1>5, <1>6, <2>1, DeliverServes
<1> QED
    BY <1>2, <1>7

LEMMA BusUnchanged ==
    ASSUME BusInv, UNCHANGED clientVars
    PROVE  BusInv'
<1> USE DEF BusInv, clientVars, busVars
<1>1. BusTypes' /\ Counted' /\ ListsAgree' /\ QueuesBounded'
    BY DEF BusTypes, Counted, Preparing, ListsAgree, QueuesBounded
<1>2. \A p \in Publishers : UnderWay(p)'
    BY UnderWayStays
<1>3. \A p \in Publishers, s \in Subscribers : Served(p, s)'
    BY ServedStays DEF Reached
<1> QED
    BY <1>1, <1>2, <1>3

LEMMA BusStep == BusInv /\ ClientsNext => BusInv'
BY OpenKeeps, EnterKeeps, BeReadyKeeps, TakeKeeps, LeaveKeeps, SendKeeps, ContinueKeeps
   DEF ClientsNext

\* The invariant is what the clients are promised.
LEMMA BusInvSound == BusInv => BusIsSound
<1> SUFFICES ASSUME BusInv
             PROVE  BusIsSound
    OBVIOUS
<1> USE DEF BusInv
<1>1. ClientsTypeOK
  <2>1. Cardinality(Preparing) \in Nat
      BY ClientAssumption, FS_Subset, FS_CardinalityType DEF Preparing
  <2>2. pending \in Nat
      BY <2>1 DEF Counted
  <2> QED
      BY <2>2 DEF BusTypes, ClientsTypeOK, BusTypeOK
<1>2. ASSUME NEW p \in Publishers, NEW s \in Subscribers, phase[s] # "gone"
      PROVE  /\ \A i, j \in Had(p, s) : i < j => Reached(s)[i].number < Reached(s)[j].number
             /\ {Reached(s)[i].number : i \in Had(p, s)} =
                    {n \in Meant(p, s) : Pending(p, s) => n < Len(sent[p])}
  <2>1. Rising(p, Reached(s)) /\ NumbersIn(p, Reached(s)) = Owed(p, s)
      BY <1>2 DEF Served
  <2> QED
      BY <2>1 DEF Rising, NumbersIn, Owed, Had
<1>3. EachOnceInOrder
    BY <1>2 DEF EachOnceInOrder
<1> QED
    BY <1>1, <1>3 DEF BusIsSound

\* Every worker that has not left has each event of its types once and in its publisher's
\* order, but for one that is still being published to it, and no queue outgrows its size.
THEOREM BusSound == Spec => []BusIsSound
<1>1. Init => BusInv
    BY BusBegins DEF Init
<1>2. BusInv /\ [Next]_vars => BusInv'
    BY BusStep, BusUnchanged DEF Next, vars
<1>3. BusInv => BusIsSound
    BY BusInvSound
<1> QED
    BY <1>1, <1>2, <1>3, PTL DEF Spec


(***************************************************************************)
(* The media.                                                              *)
(***************************************************************************)

MediaTypes ==
    /\ mdIn \in Seq(0..MdShutdown)
    /\ mdRead \in Seq(0..MdParts)
    /\ mdWorker \in [at : {"first", "next", "video", "audio", "over"}, part : Nat \ {0}]
    /\ mdTracks \in [video : Seq(Nat), audio : Seq(Nat \X Nat), taking : BOOLEAN]
    /\ mdTaken \in [video : Seq(Nat), audio : Seq(Nat \X Nat)]
    /\ mdMic \in [queue : Seq(Nat), came : Nat, dropped : SUBSET Nat]
    /\ mdUser \in [at : {"idle", "start", "chunk", "waiting", "end"}, chunk : Nat]
    /\ mdOut \in Seq([at : {"start", "chunk", "end"}, chunk : Nat])
    /\ mdBridge \in [queue : Seq(Nat), came : Nat, out : Seq(Nat)]

\* The video worker has a frame in hand from the first one on.
WorkerPlace ==
    /\ mdWorker.at = "first" => mdRead = <<>>
    /\ mdWorker.at \in {"next", "video", "audio"} => mdRead # <<>>
    /\ mdWorker.at = "video" => mdWorker.part = 1
    /\ mdWorker.at = "audio" => mdWorker.part \in 1..(Last(mdRead) + 1)

\* What it has put on the tracks: all sound but the rest of the frame in hand, and the
\* pictures up to the last one.
Put ==
    IF mdWorker.at \in {"video", "audio"}
    THEN {x \in AudioRead : x[1] < Len(mdRead) \/ x[2] < mdWorker.part}
    ELSE AudioRead
Shown == IF mdWorker.at = "video" THEN Len(mdRead) - 1 ELSE Len(mdRead)

Sound == mdTaken.audio \o mdTracks.audio
SoundIsPut ==
    /\ \A i, j \in 1..Len(Sound) : i < j => Before(Sound[i], Sound[j])
    /\ \A x : Contains(Sound, x) <=> x \in Put

\* Two sequences of numbers, one after the other, and a bound of both.
InOrder(s, t) ==
    /\ Ascending(s) /\ Ascending(t)
    /\ \A i \in 1..Len(s), j \in 1..Len(t) : s[i] < t[j]
UpTo(s, n) == \A i \in 1..Len(s) : s[i] <= n

PicturesShown ==
    /\ InOrder(mdTaken.video, mdTracks.video)
    /\ UpTo(mdTaken.video, Shown) /\ UpTo(mdTracks.video, Shown)
    /\ IF mdTracks.video # <<>> THEN Last(mdTracks.video) = Shown
       ELSE IF mdTaken.video # <<>> THEN Last(mdTaken.video) = Shown
       ELSE Shown = 0

\* The user's stream: the loop's place follows from what it published last, and the
\* chunk in hand lies between those published and those queued.
Holding == mdUser.at \in {"start", "chunk"}
Chunks == {i \in 1..Len(mdOut) : mdOut[i].at = "chunk"}
Said == {mdOut[i].chunk : i \in Chunks}
InHand == IF Holding THEN {mdUser.chunk} ELSE {}

StreamTold ==
    /\ \A i \in 1..Len(mdOut) :
          IF i = 1 THEN mdOut[i].at = "start"
          ELSE mdOut[i].at = "start" <=> mdOut[i - 1].at = "end"
    /\ mdUser.at \in {"idle", "start"} <=> mdOut = <<>> \/ Last(mdOut).at = "end"

ChunksInOrder ==
    /\ \A i, j \in Chunks : i < j => mdOut[i].chunk < mdOut[j].chunk
    /\ Ascending(mdMic.queue) /\ UpTo(mdMic.queue, mdMic.came)
    /\ \A c \in Said \cup InHand : c <= mdMic.came
    /\ \A c \in Said \cup InHand, i \in 1..Len(mdMic.queue) : c < mdMic.queue[i]
    /\ \A c \in Said, d \in InHand : c < d
    /\ \A n \in Nat :
          n \in 1..mdMic.came <=>
              n \in Said \cup InHand \cup mdMic.dropped \/ Contains(mdMic.queue, n)

BridgeInOrder ==
    /\ InOrder(mdBridge.out, mdBridge.queue)
    /\ UpTo(mdBridge.out, mdBridge.came) /\ UpTo(mdBridge.queue, mdBridge.came)

MediaInv ==
    /\ MediaTypes /\ WorkerPlace /\ SoundIsPut /\ PicturesShown
    /\ StreamTold /\ ChunksInOrder /\ BridgeInOrder

\* The elements of a sequence, its last one and those of its tail.
LEMMA SequenceParts ==
    ASSUME NEW S, NEW s \in Seq(S)
    PROVE  /\ Len(s) \in Nat /\ DOMAIN s = 1..Len(s) /\ \A i \in 1..Len(s) : s[i] \in S
           /\ s = <<>> <=> Len(s) = 0
           /\ s # <<>> => /\ Len(s) \in 1..Len(s) /\ Last(s) = s[Len(s)] /\ Last(s) \in S
                          /\ Head(s) = s[1] /\ Head(s) \in S /\ Tail(s) \in Seq(S)
                          /\ Len(Tail(s)) = Len(s) - 1
                          /\ \A i \in 1..(Len(s) - 1) : Tail(s)[i] = s[i + 1]
<1>1. Len(s) \in Nat /\ DOMAIN s = 1..Len(s) /\ \A i \in 1..Len(s) : s[i] \in S
    BY LenProperties, ElementOfSeq
<1>2. s = <<>> <=> Len(s) = 0
    BY EmptySeq
<1>3. ASSUME s # <<>>
      PROVE  /\ Head(s) = s[1] /\ Head(s) \in S /\ Tail(s) \in Seq(S)
             /\ Len(Tail(s)) = Len(s) - 1
             /\ \A i \in 1..(Len(s) - 1) : Tail(s)[i] = s[i + 1]
    BY <1>1, <1>3, HeadTailProperties
<1> QED
    BY <1>1, <1>2, <1>3 DEF Last

LEMMA AppendParts ==
    ASSUME NEW S, NEW s \in Seq(S), NEW x \in S
    PROVE  /\ Append(s, x) \in Seq(S) /\ Len(Append(s, x)) = Len(s) + 1
           /\ Append(s, x) # <<>> /\ Last(Append(s, x)) = x
           /\ Append(s, x)[Len(s) + 1] = x
           /\ \A i \in 1..Len(s) : Append(s, x)[i] = s[i]
           /\ \A e : Contains(Append(s, x), e) <=> Contains(s, e) \/ e = x
<1>1. /\ Append(s, x) \in Seq(S) /\ Len(Append(s, x)) = Len(s) + 1 /\ Len(s) \in Nat
      /\ Append(s, x)[Len(s) + 1] = x /\ \A i \in 1..Len(s) : Append(s, x)[i] = s[i]
    BY AppendProperties, LenProperties
<1>2. Append(s, x) # <<>> /\ Last(Append(s, x)) = x
    BY <1>1 DEF Last
<1>3. \A e : Contains(Append(s, x), e) <=> Contains(s, e) \/ e = x
    BY <1>1 DEF Contains
<1> QED
    BY <1>1, <1>2, <1>3

\* Two ascending sequences in order make one.
LEMMA AscendingConcat ==
    ASSUME NEW s \in Seq(Nat), NEW t \in Seq(Nat), InOrder(s, t)
    PROVE  Ascending(s \o t)
<1> DEFINE both == s \o t
<1>1. /\ Len(s) \in Nat /\ Len(t) \in Nat /\ Len(both) = Len(s) + Len(t)
      /\ \A i \in 1..(Len(s) + Len(t)) :
            both[i] = IF i <= Len(s) THEN s[i] ELSE t[i - Len(s)]
    BY ConcatProperties, LenProperties
<1> HIDE DEF both
<1>2. ASSUME NEW i \in 1..Len(both), NEW j \in 1..Len(both), i < j
      PROVE  both[i] < both[j]
  <2>1. i \in 1..(Len(s) + Len(t)) /\ j \in 1..(Len(s) + Len(t))
      BY <1>1
  <2>2. CASE j <= Len(s)
    <3>1. both[i] = s[i] /\ both[j] = s[j] /\ i \in 1..Len(s) /\ j \in 1..Len(s)
        BY <1>1, <1>2, <2>1, <2>2
    <3> QED
        BY <1>2, <3>1 DEF InOrder, Ascending
  <2>3. CASE ~(j <= Len(s)) /\ i <= Len(s)
    <3>1. both[i] = s[i] /\ both[j] = t[j - Len(s)]
        BY <1>1, <2>1, <2>3
    <3>2. i \in 1..Len(s) /\ j - Len(s) \in 1..Len(t)
        BY <1>1, <2>1, <2>3
    <3> QED
        BY <3>1, <3>2 DEF InOrder
  <2>4. CASE ~(i <= Len(s))
    <3>1. both[i] = t[i - Len(s)]
        BY <1>1, <2>1, <2>4
    <3>2. ~(j <= Len(s))
        BY <1>1, <1>2, <2>1, <2>4
    <3>3. both[j] = t[j - Len(s)]
        BY <1>1, <2>1, <3>2
    <3>4. /\ i - Len(s) \in 1..Len(t) /\ j - Len(s) \in 1..Len(t)
          /\ i - Len(s) < j - Len(s)
        BY <1>1, <1>2, <2>1, <2>4
    <3> QED
        BY <3>1, <3>3, <3>4 DEF InOrder, Ascending
  <2> QED
      BY <2>2, <2>3, <2>4
<1> QED
    BY <1>2 DEF Ascending, both

\* What is last and what is in two sequences, one after the other.
LEMMA ConcatParts ==
    ASSUME NEW S, NEW s \in Seq(S), NEW t \in Seq(S)
    PROVE  /\ s \o t \in Seq(S)
           /\ s \o t = <<>> <=> s = <<>> /\ t = <<>>
           /\ t # <<>> => Last(s \o t) = Last(t)
           /\ t = <<>> /\ s # <<>> => Last(s \o t) = Last(s)
<1> DEFINE both == s \o t
<1>1. /\ Len(s) \in Nat /\ Len(t) \in Nat /\ Len(both) = Len(s) + Len(t)
      /\ both \in Seq(S)
      /\ \A i \in 1..(Len(s) + Len(t)) :
            both[i] = IF i <= Len(s) THEN s[i] ELSE t[i - Len(s)]
    BY ConcatProperties, LenProperties
<1> HIDE DEF both
<1>2. /\ both = <<>> <=> Len(both) = 0
      /\ s = <<>> <=> Len(s) = 0
      /\ t = <<>> <=> Len(t) = 0
    BY <1>1, EmptySeq
<1>3. ASSUME t # <<>>
      PROVE  Last(both) = Last(t)
  <2>1. /\ Len(s) + Len(t) \in 1..(Len(s) + Len(t)) /\ ~(Len(s) + Len(t) <= Len(s))
        /\ (Len(s) + Len(t)) - Len(s) = Len(t)
      BY <1>1, <1>2, <1>3
  <2>2. both[Len(s) + Len(t)] = t[(Len(s) + Len(t)) - Len(s)]
      BY <1>1, <2>1
  <2> QED
      BY <1>1, <2>1, <2>2 DEF Last
<1>4. ASSUME t = <<>>, s # <<>>
      PROVE  Last(both) = Last(s)
  <2>1. Len(both) = Len(s) /\ Len(s) \in 1..(Len(s) + Len(t)) /\ Len(s) <= Len(s)
      BY <1>1, <1>2, <1>4
  <2> QED
      BY <1>1, <2>1 DEF Last
<1> QED
    BY <1>1, <1>2, <1>3, <1>4 DEF both

\* Numbers in order stay so without the first of the second sequence, and with a larger
\* one at its end.
LEMMA TailInOrder ==
    ASSUME NEW s \in Seq(Nat), NEW t \in Seq(Nat), NEW n \in Nat,
           InOrder(s, t), UpTo(t, n), t # <<>>
    PROVE  /\ InOrder(s, Tail(t)) /\ UpTo(Tail(t), n)
           /\ Tail(t) # <<>> => Last(Tail(t)) = Last(t)
           /\ Tail(t) = <<>> => Last(t) = Head(t)
<1>1. /\ Len(t) \in Nat \ {0} /\ Tail(t) \in Seq(Nat) /\ Len(Tail(t)) = Len(t) - 1
      /\ Head(t) = t[1] /\ \A i \in 1..(Len(t) - 1) : Tail(t)[i] = t[i + 1]
      /\ \A i \in 1..Len(t) : t[i] \in Nat
    BY SequenceParts
<1>2. \A i \in 1..Len(Tail(t)) : i + 1 \in 1..Len(t) /\ Tail(t)[i] = t[i + 1]
    BY <1>1
<1>3. Ascending(Tail(t))
    BY <1>1, <1>2 DEF InOrder, Ascending
<1>4. UpTo(Tail(t), n)
    BY <1>2 DEF UpTo
<1>5. \A i \in 1..Len(s), j \in 1..Len(Tail(t)) : s[i] < Tail(t)[j]
    BY <1>2 DEF InOrder
<1>6. ASSUME Tail(t) # <<>>
      PROVE  Last(Tail(t)) = Last(t)
  <2>1. Len(Tail(t)) \in 1..(Len(t) - 1) /\ Len(Tail(t)) + 1 = Len(t)
      BY <1>1, <1>6, EmptySeq
  <2> QED
      BY <1>1, <2>1 DEF Last
<1>7. ASSUME Tail(t) = <<>>
      PROVE  Last(t) = Head(t)
  <2> DEFINE rest == Tail(t)
  <2>1. rest \in Seq(Nat) /\ rest = <<>> /\ Len(rest) = Len(t) - 1 /\ Len(t) \in Nat
      BY <1>1, <1>7
  <2> HIDE DEF rest
  <2>2. Len(t) = 1
    <3>1. Len(rest) = 0
        BY ONLY <2>1, SequenceParts
    <3> QED
        BY ONLY <2>1, <3>1
  <2> QED
      BY <1>1, <2>2 DEF Last
<1> QED
    BY <1>3, <1>4, <1>5, <1>6, <1>7 DEF InOrder

LEMMA AppendInOrder ==
    ASSUME NEW s \in Seq(Nat), NEW t \in Seq(Nat), NEW n \in Nat, NEW m \in Nat,
           InOrder(s, t), UpTo(s, n), UpTo(t, n), n < m
    PROVE  /\ InOrder(s, Append(t, m)) /\ UpTo(s, m) /\ UpTo(Append(t, m), m)
<1> DEFINE more == Append(t, m)
<1>1. /\ Len(t) \in Nat /\ Len(more) = Len(t) + 1 /\ more[Len(t) + 1] = m
      /\ \A i \in 1..Len(t) : more[i] = t[i]
    BY AppendParts, SequenceParts
<1>2. /\ \A i \in 1..Len(s) : s[i] \in Nat /\ s[i] <= n
      /\ \A i \in 1..Len(t) : t[i] \in Nat /\ t[i] <= n
    BY SequenceParts DEF UpTo
<1> HIDE DEF more
<1>3. \A i \in 1..Len(more) : IF i = Len(t) + 1 THEN more[i] = m
                              ELSE i \in 1..Len(t) /\ more[i] = t[i]
    BY <1>1
<1>4. Ascending(more)
  <2> SUFFICES ASSUME NEW i \in 1..Len(more), NEW j \in 1..Len(more), i < j
               PROVE  more[i] < more[j]
      BY DEF Ascending
  <2>1. i # Len(t) + 1
      BY <1>1
  <2>2. CASE j = Len(t) + 1
      BY <1>2, <1>3, <2>1, <2>2
  <2>3. CASE j # Len(t) + 1
      BY <1>3, <2>1, <2>3 DEF InOrder, Ascending
  <2> QED
      BY <2>2, <2>3
<1>5. UpTo(s, m) /\ UpTo(more, m)
  <2>1. \A i \in 1..Len(s) : s[i] <= m
      BY <1>2
  <2>2. ASSUME NEW i \in 1..Len(more)
        PROVE  more[i] <= m
    <3>1. CASE i = Len(t) + 1
        BY <1>3, <3>1
    <3>2. CASE i # Len(t) + 1
      <4>1. i \in 1..Len(t) /\ more[i] = t[i]
          BY ONLY <1>3, <3>2, i \in 1..Len(more)
      <4>2. t[i] \in Nat /\ t[i] <= n
          BY ONLY <1>2, <4>1
      <4> QED
          BY ONLY <4>1, <4>2, n \in Nat, m \in Nat, n < m
    <3> QED
        BY <3>1, <3>2
  <2>3. UpTo(s, m)
      BY ONLY <2>1 DEF UpTo
  <2>4. UpTo(more, m)
      BY ONLY <2>2 DEF UpTo
  <2> QED
      BY <2>3, <2>4
<1>6. ASSUME NEW i \in 1..Len(s), NEW j \in 1..Len(more)
      PROVE  s[i] < more[j]
  <2>1. CASE j = Len(t) + 1
      BY <1>2, <1>3, <2>1
  <2>2. CASE j # Len(t) + 1
      BY <1>3, <2>2 DEF InOrder
  <2> QED
      BY <2>1, <2>2
<1> QED
    BY <1>4, <1>5, <1>6 DEF InOrder, more

\* A full queue loses its oldest entry to the new one.
LEMMA OfferedInOrder ==
    ASSUME NEW s \in Seq(Nat), NEW t \in Seq(Nat), NEW n \in Nat, NEW m \in Nat,
           NEW room \in Nat \ {0},
           InOrder(s, t), UpTo(s, n), UpTo(t, n), n < m
    PROVE  LET new == Offered(t, m, room)
           IN  /\ new \in Seq(Nat) /\ InOrder(s, new) /\ UpTo(s, m) /\ UpTo(new, m)
               /\ new # <<>> /\ Last(new) = m
<1>1. CASE Len(t) < room
  <2>1. Offered(t, m, room) = Append(t, m)
      BY <1>1 DEF Offered
  <2> QED
      BY <2>1, AppendParts, AppendInOrder
<1>2. CASE ~(Len(t) < room)
  <2>1. Offered(t, m, room) = Append(Tail(t), m)
      BY <1>2 DEF Offered
  <2>2. t # <<>> /\ Tail(t) \in Seq(Nat)
      BY <1>2, SequenceParts
  <2>3. InOrder(s, Tail(t)) /\ UpTo(Tail(t), n)
      BY <2>2, TailInOrder
  <2> DEFINE rest == Tail(t)
  <2>4. rest \in Seq(Nat) /\ InOrder(s, rest) /\ UpTo(rest, n)
      BY <2>2, <2>3
  <2> HIDE DEF rest
  <2>5. InOrder(s, Append(rest, m)) /\ UpTo(s, m) /\ UpTo(Append(rest, m), m)
      BY ONLY <2>4, AppendInOrder, s \in Seq(Nat), n \in Nat, m \in Nat, UpTo(s, n), n < m
  <2>6. /\ Append(rest, m) \in Seq(Nat) /\ Append(rest, m) # <<>>
        /\ Last(Append(rest, m)) = m
      BY <2>4, AppendParts
  <2> QED
      BY <2>1, <2>5, <2>6 DEF rest
<1> QED
    BY <1>1, <1>2

(***************************************************************************)
(* The video worker and the tracks.                                        *)
(***************************************************************************)

LEMMA MediaBegins == MdInit => MediaInv
<1> SUFFICES ASSUME MdInit
             PROVE  MediaInv
    OBVIOUS
<1> USE DEF MdInit
<1>1. /\ <<>> \in Seq(0..MdShutdown) /\ <<>> \in Seq(0..MdParts) /\ <<>> \in Seq(Nat)
      /\ <<>> \in Seq(Nat \X Nat)
      /\ <<>> \in Seq([at : {"start", "chunk", "end"}, chunk : Nat])
      /\ Len(<<>>) = 0
    OBVIOUS
<1>2. MediaTypes
    BY <1>1 DEF MediaTypes
<1>3. \A e : ~Contains(<<>>, e)
    BY <1>1 DEF Contains
<1>4. Sound = <<>> /\ AudioRead = {}
    BY <1>1, ConcatParts DEF Sound, AudioRead
<1>5. SoundIsPut
    BY <1>1, <1>3, <1>4 DEF SoundIsPut, Put
<1>6. WorkerPlace /\ PicturesShown
    BY <1>1 DEF WorkerPlace, PicturesShown, InOrder, Ascending, UpTo, Shown
<1>7. StreamTold
    BY <1>1 DEF StreamTold
<1>8. Said = {} /\ InHand = {}
    BY <1>1 DEF Said, Chunks, InHand, Holding
<1>9. ChunksInOrder
    BY <1>1, <1>3, <1>8 DEF ChunksInOrder, Ascending, UpTo, Chunks
<1>10. BridgeInOrder
    BY <1>1 DEF BridgeInOrder, InOrder, Ascending, UpTo
<1> QED
    BY <1>2, <1>5, <1>6, <1>7, <1>9, <1>10 DEF MediaInv

\* The parts of the invariant that a step leaves alone.
LEMMA VideoStays ==
    ASSUME UNCHANGED <<mdRead, mdWorker, mdTracks, mdTaken>>,
           WorkerPlace, SoundIsPut, PicturesShown
    PROVE  WorkerPlace' /\ SoundIsPut' /\ PicturesShown'
BY DEF WorkerPlace, SoundIsPut, PicturesShown, Sound, Put, AudioRead, Shown

LEMMA UserStays ==
    ASSUME UNCHANGED userVars, StreamTold, ChunksInOrder
    PROVE  StreamTold' /\ ChunksInOrder'
<1>1. Said' = Said /\ InHand' = InHand /\ Chunks' = Chunks
    BY DEF userVars, Said, Chunks, InHand, Holding
<1> QED
    BY <1>1 DEF userVars, StreamTold, ChunksInOrder

LEMMA BridgeStays ==
    ASSUME UNCHANGED mdBridge, BridgeInOrder
    PROVE  BridgeInOrder'
BY DEF BridgeInOrder

LEMMA MediaUnchanged ==
    ASSUME MediaInv, UNCHANGED mdVars
    PROVE  MediaInv'
<1>1. MediaTypes'
    BY DEF MediaInv, MediaTypes, mdVars, MdShutdown
<1> QED
    BY <1>1, VideoStays, UserStays, BridgeStays DEF MediaInv, mdVars, userVars

LEMMA MdBringsKeeps == MediaInv /\ MdBrings => MediaInv'
<1> SUFFICES ASSUME MediaInv, MdBrings
             PROVE  MediaInv'
    OBVIOUS
<1>1. PICK x \in 0..MdShutdown : mdIn' = Append(mdIn, x)
    BY MediaAssumption DEF MdBrings, MdShutdown
<1>2. mdIn' \in Seq(0..MdShutdown)
    BY <1>1, AppendParts DEF MediaInv, MediaTypes
<1>3. MediaTypes'
    BY <1>2 DEF MediaInv, MediaTypes, MdBrings, userVars, MdShutdown
<1> QED
    BY <1>3, VideoStays, UserStays, BridgeStays DEF MediaInv, MdBrings

LEMMA ReadFrameKeeps == MediaInv /\ ReadFrame => MediaInv'
<1> SUFFICES ASSUME MediaInv, ReadFrame
             PROVE  MediaInv'
    OBVIOUS
<1>1. /\ mdIn \in Seq(0..MdShutdown) /\ mdIn # <<>> /\ mdIn' = Tail(mdIn)
      /\ mdWorker.at \in {"first", "next"}
      /\ UNCHANGED <<mdTracks, mdTaken, userVars, mdBridge>>
    BY DEF ReadFrame, MediaInv, MediaTypes
<1>2. mdIn' \in Seq(0..MdShutdown) /\ Head(mdIn) \in 0..MdShutdown
    BY <1>1, SequenceParts
<1>3. /\ mdRead \in Seq(0..MdParts) /\ Len(mdRead) \in Nat
      /\ \A i \in 1..Len(mdRead) : mdRead[i] \in 0..MdParts
    BY SequenceParts DEF MediaInv, MediaTypes
<1>4. Put = AudioRead /\ Shown = Len(mdRead)
    BY <1>1 DEF Put, Shown
<1>5. StreamTold' /\ ChunksInOrder' /\ BridgeInOrder'
    BY <1>1, UserStays, BridgeStays DEF MediaInv
<1>6. CASE Head(mdIn) = MdShutdown
  <2>1. mdWorker' = [mdWorker EXCEPT !.at = "over"] /\ mdRead' = mdRead
      BY <1>6 DEF ReadFrame
  <2>2. /\ mdWorker' \in [at : {"first", "next", "video", "audio", "over"}, part : Nat \ {0}]
        /\ mdWorker'.at = "over"
      BY <2>1 DEF MediaInv, MediaTypes
  <2>3. MediaTypes'
      BY <1>1, <1>2, <2>1, <2>2 DEF MediaInv, MediaTypes, userVars, MdShutdown
  <2>4. WorkerPlace'
      BY <2>2 DEF WorkerPlace
  <2>5. AudioRead' = AudioRead
      BY <2>1 DEF AudioRead
  <2>6. Put' = Put /\ Shown' = Shown
      BY <1>4, <2>1, <2>2, <2>5 DEF Put, Shown
  <2>7. SoundIsPut' /\ PicturesShown'
      BY <1>1, <2>6 DEF MediaInv, SoundIsPut, PicturesShown, Sound
  <2> QED
      BY <1>5, <2>3, <2>4, <2>7 DEF MediaInv
<1>7. CASE Head(mdIn) # MdShutdown
  <2>1. mdWorker' = [at |-> "video", part |-> 1] /\ mdRead' = Append(mdRead, Head(mdIn))
      BY <1>7 DEF ReadFrame
  <2>2. Head(mdIn) \in 0..MdParts
      BY <1>2, <1>7, MediaAssumption DEF MdShutdown
  <2>3. /\ mdRead' \in Seq(0..MdParts) /\ Len(mdRead') = Len(mdRead) + 1 /\ mdRead' # <<>>
        /\ \A i \in 1..Len(mdRead) : mdRead'[i] = mdRead[i]
      BY <1>3, <2>1, <2>2, AppendParts
  <2>4. MediaTypes'
      BY <1>1, <1>2, <2>1, <2>3 DEF MediaInv, MediaTypes, userVars, MdShutdown
  <2>5. WorkerPlace'
      BY <2>1, <2>3 DEF WorkerPlace
  <2>6. Shown' = Shown
      BY <1>3, <1>4, <2>1, <2>3 DEF Shown
  <2>7. Put' = {x \in AudioRead' : x[1] < Len(mdRead') \/ x[2] < 1}
      BY <2>1 DEF Put
  <2>8. ASSUME NEW x
        PROVE  x \in Put' <=> x \in AudioRead
    <3>1. /\ x \in AudioRead <=> /\ x \in (1..Len(mdRead)) \X (1..MdParts)
                                 /\ x[2] <= mdRead[x[1]]
          /\ x \in AudioRead' <=> /\ x \in (1..Len(mdRead')) \X (1..MdParts)
                                  /\ x[2] <= mdRead'[x[1]]
        BY DEF AudioRead
    <3>2. ASSUME NEW f \in 1..(Len(mdRead) + 1), NEW k \in 1..MdParts
          PROVE  f < Len(mdRead) + 1 \/ k < 1 <=> f \in 1..Len(mdRead)
        BY <1>3, MediaAssumption
    <3>3. x \in (1..(Len(mdRead) + 1)) \X (1..MdParts) =>
             (x[1] < Len(mdRead) + 1 \/ x[2] < 1 <=> x[1] \in 1..Len(mdRead))
        BY <3>2
    <3>4. x \in (1..Len(mdRead)) \X (1..MdParts) <=>
             x \in (1..(Len(mdRead) + 1)) \X (1..MdParts) /\ x[1] \in 1..Len(mdRead)
        BY <1>3
    <3> QED
        BY <2>3, <2>7, <3>1, <3>3, <3>4
  <2>9. Put' = Put
      BY <1>4, <2>8
  <2>10. SoundIsPut' /\ PicturesShown'
      BY <1>1, <2>6, <2>9 DEF MediaInv, SoundIsPut, PicturesShown, Sound
  <2> QED
      BY <1>5, <2>4, <2>5, <2>10 DEF MediaInv
<1> QED
    BY <1>6, <1>7

LEMMA PushVideoKeeps == MediaInv /\ PushVideo => MediaInv'
<1> SUFFICES ASSUME MediaInv, PushVideo
             PROVE  MediaInv'
    OBVIOUS
<1> DEFINE new == Offered(mdTracks.video, Len(mdRead), VideoQueue)
<1>1. /\ mdWorker.at = "video" /\ mdWorker' = [mdWorker EXCEPT !.at = "audio"]
      /\ mdTracks' = [mdTracks EXCEPT !.video = new]
      /\ UNCHANGED <<mdIn, mdRead, mdTaken, userVars, mdBridge>>
    BY DEF PushVideo
<1>2. /\ mdWorker.part = 1 /\ mdRead # <<>> /\ Len(mdRead) \in Nat \ {0}
      /\ Last(mdRead) \in 0..MdParts
  <2>1. mdWorker.part = 1 /\ mdRead # <<>> /\ mdRead \in Seq(0..MdParts)
      BY <1>1 DEF MediaInv, MediaTypes, WorkerPlace
  <2> DEFINE S == 0..MdParts
  <2>2. mdRead \in Seq(S)
      BY <2>1
  <2> HIDE DEF S
  <2>3. Len(mdRead) \in Nat /\ Len(mdRead) # 0
      BY ONLY <2>1, <2>2, SequenceParts
  <2>4. Last(mdRead) \in S
      BY ONLY <2>1, <2>2, SequenceParts
  <2> QED
      BY <2>1, <2>3, <2>4 DEF S
<1>3. Shown = Len(mdRead) - 1
    BY <1>1 DEF Shown
<1>4. /\ mdTracks.video \in Seq(Nat) /\ mdTaken.video \in Seq(Nat)
      /\ VideoQueue \in Nat \ {0}
    BY MediaAssumption DEF MediaInv, MediaTypes
<1>5. /\ new \in Seq(Nat) /\ InOrder(mdTaken.video, new) /\ UpTo(mdTaken.video, Len(mdRead))
      /\ UpTo(new, Len(mdRead)) /\ new # <<>> /\ Last(new) = Len(mdRead)
  <2>1. Shown \in Nat /\ Len(mdRead) \in Nat /\ Shown < Len(mdRead)
      BY <1>2, <1>3
  <2>2. /\ InOrder(mdTaken.video, mdTracks.video)
        /\ UpTo(mdTaken.video, Shown) /\ UpTo(mdTracks.video, Shown)
      BY DEF MediaInv, PicturesShown
  <2> QED
      BY ONLY <1>4, <2>1, <2>2, OfferedInOrder
<1> HIDE DEF new
<1>6. /\ mdWorker'.at = "audio" /\ mdWorker'.part = 1
      /\ mdWorker' \in [at : {"first", "next", "video", "audio", "over"}, part : Nat \ {0}]
      /\ mdTracks' \in [video : Seq(Nat), audio : Seq(Nat \X Nat), taking : BOOLEAN]
      /\ mdTracks'.video = new /\ mdTracks'.audio = mdTracks.audio
    BY <1>1, <1>2, <1>5 DEF MediaInv, MediaTypes
<1>7. MediaTypes'
    BY <1>1, <1>6 DEF MediaInv, MediaTypes, userVars, MdShutdown
<1>8. 1 \in 1..(Last(mdRead) + 1)
    BY <1>2, MediaAssumption
<1>9. WorkerPlace'
    BY <1>1, <1>2, <1>6, <1>8 DEF WorkerPlace
<1>10. Sound' = Sound
    BY <1>1, <1>6 DEF Sound
<1>11. Put' = Put
  <2>1. AudioRead' = AudioRead
      BY <1>1 DEF AudioRead
  <2> QED
      BY <1>1, <1>2, <1>6, <2>1 DEF Put
<1>12. SoundIsPut'
    BY <1>10, <1>11 DEF MediaInv, SoundIsPut
<1>13. Shown' = Len(mdRead)
    BY <1>1, <1>6 DEF Shown
<1>14. PicturesShown'
    BY <1>1, <1>5, <1>6, <1>13 DEF PicturesShown
<1> QED
    BY <1>1, <1>7, <1>9, <1>12, <1>14, UserStays, BridgeStays DEF MediaInv

\* The parts of a frame's sound that have been read.
LEMMA AudioParts ==
    ASSUME NEW x, mdRead \in Seq(0..MdParts)
    PROVE  /\ x \in AudioRead => /\ x = <<x[1], x[2]>> /\ x[1] \in 1..Len(mdRead)
                                 /\ x[2] \in 1..MdParts /\ x[2] <= mdRead[x[1]]
           /\ \A f \in 1..Len(mdRead), k \in 1..MdParts :
                 <<f, k>> \in AudioRead <=> k <= mdRead[f]
BY DEF AudioRead

LEMMA PushAudioKeeps == MediaInv /\ PushAudio => MediaInv'
<1> SUFFICES ASSUME MediaInv, PushAudio
             PROVE  MediaInv'
    OBVIOUS
<1> DEFINE n == Len(mdRead)
           k == mdWorker.part
           next == <<n, k>>
<1>1. /\ mdWorker.at = "audio" /\ UNCHANGED <<mdIn, mdRead, mdTaken, userVars, mdBridge>>
    BY DEF PushAudio
<1>2. /\ mdRead \in Seq(0..MdParts) /\ mdRead # <<>>
      /\ k \in 1..(Last(mdRead) + 1)
    BY <1>1 DEF MediaInv, MediaTypes, WorkerPlace
<1>3. /\ n \in Nat \ {0} /\ n \in 1..n /\ Last(mdRead) = mdRead[n]
      /\ \A i \in 1..n : mdRead[i] \in 0..MdParts
  <2>1. n \in Nat /\ n # 0 /\ Last(mdRead) = mdRead[n]
      BY ONLY <1>2, SequenceParts
  <2>2. \A i \in 1..n : mdRead[i] \in 0..MdParts
      BY ONLY <1>2, ElementOfSeq
  <2> QED
      BY <2>1, <2>2
<1>4. mdRead[n] \in Nat /\ mdRead[n] <= MdParts /\ k \in Nat \ {0} /\ k <= mdRead[n] + 1
    BY <1>2, <1>3, MediaAssumption
<1> HIDE DEF n, k
<1>5. StreamTold' /\ ChunksInOrder' /\ BridgeInOrder'
    BY <1>1, UserStays, BridgeStays DEF MediaInv
<1>6. AudioRead' = AudioRead
    BY <1>1 DEF AudioRead
<1>7. \A x : x \in Put <=> x \in AudioRead /\ (x[1] < n \/ x[2] < k)
    BY <1>1 DEF Put, n, k
<1>8. \A x \in AudioRead : /\ x = <<x[1], x[2]>> /\ x[1] \in 1..n
                           /\ x[2] \in 1..MdParts /\ x[2] <= mdRead[x[1]]
    BY <1>2, AudioParts DEF n
<1>9. CASE k > Last(mdRead)
  <2>1. mdWorker' = [mdWorker EXCEPT !.at = "next"] /\ mdTracks' = mdTracks
      BY <1>9 DEF PushAudio, k
  <2>2. /\ mdWorker' \in [at : {"first", "next", "video", "audio", "over"}, part : Nat \ {0}]
        /\ mdWorker'.at = "next"
      BY <2>1 DEF MediaInv, MediaTypes
  <2>3. MediaTypes'
      BY <1>1, <2>1, <2>2 DEF MediaInv, MediaTypes, userVars, MdShutdown
  <2>4. WorkerPlace'
      BY <1>1, <1>2, <2>2 DEF WorkerPlace
  <2>5. ASSUME NEW x \in AudioRead
        PROVE  x[1] < n \/ x[2] < k
    <3>1. x[1] \in 1..n /\ x[2] \in 1..MdParts /\ x[2] <= mdRead[x[1]]
        BY <1>8
    <3>2. CASE x[1] = n
      <4>1. x[2] <= mdRead[n] /\ mdRead[n] < k
          BY <1>3, <1>9, <3>1, <3>2
      <4> QED
          BY <1>4, <3>1, <4>1, MediaAssumption
    <3> QED
        BY <1>3, <3>1, <3>2
  <2>6. Put' = Put
    <3>1. Put' = AudioRead
        BY <1>6, <2>2 DEF Put
    <3>2. \A x : x \in Put <=> x \in AudioRead
        BY <1>7, <2>5
    <3> QED
        BY <3>1, <3>2 DEF Put
  <2>7. Shown' = Shown
      BY <1>1, <2>2 DEF Shown
  <2>8. SoundIsPut' /\ PicturesShown'
      BY <1>1, <2>1, <2>6, <2>7 DEF MediaInv, SoundIsPut, PicturesShown, Sound
  <2> QED
      BY <1>5, <2>3, <2>4, <2>8 DEF MediaInv
<1>10. CASE ~(k > Last(mdRead))
  <2>1. /\ mdTracks' = [mdTracks EXCEPT !.audio = Append(@, next)]
        /\ mdWorker' = [mdWorker EXCEPT !.part = @ + 1]
      BY <1>10 DEF PushAudio, k, n
  <2>2. k <= mdRead[n] /\ k \in 1..MdParts /\ k + 1 \in 1..(mdRead[n] + 1)
      BY <1>3, <1>4, <1>10, MediaAssumption
  <2>3. next \in Nat \X Nat
      BY <1>3, <1>4
  <2>4. next \in AudioRead
      BY <1>2, <1>3, <2>2, AudioParts DEF n
  <2>5. /\ mdTracks.audio \in Seq(Nat \X Nat) /\ mdTaken.audio \in Seq(Nat \X Nat)
        /\ Sound \in Seq(Nat \X Nat)
      BY ConcatParts DEF MediaInv, MediaTypes, Sound
  <2>6. /\ mdWorker'.at = "audio" /\ mdWorker'.part = k + 1
        /\ mdWorker' \in [at : {"first", "next", "video", "audio", "over"}, part : Nat \ {0}]
    <3>1. /\ mdWorker \in [at : {"first", "next", "video", "audio", "over"}, part : Nat \ {0}]
          /\ k = mdWorker.part
        BY DEF MediaInv, MediaTypes, k
    <3>2. k + 1 \in Nat \ {0} /\ mdWorker.part + 1 = k + 1
        BY <1>4, <3>1
    <3> QED
        BY <1>1, <2>1, <3>1, <3>2
  <2>7. /\ mdTracks'.video = mdTracks.video
        /\ mdTracks'.audio = Append(mdTracks.audio, next)
        /\ mdTracks' \in [video : Seq(Nat), audio : Seq(Nat \X Nat), taking : BOOLEAN]
    <3>1. Append(mdTracks.audio, next) \in Seq(Nat \X Nat)
        BY <2>3, <2>5, AppendParts
    <3> QED
        BY <2>1, <3>1 DEF MediaInv, MediaTypes
  <2>8. MediaTypes'
      BY <1>1, <2>6, <2>7 DEF MediaInv, MediaTypes, userVars, MdShutdown
  <2>9. WorkerPlace'
      BY <1>1, <1>2, <1>3, <2>2, <2>6 DEF WorkerPlace
  <2>10. Sound' = Append(Sound, next)
    <3> DEFINE old == mdTaken.audio
               young == mdTracks.audio
               Parts == Nat \X Nat
    <3>1. Sound' = old \o Append(young, next) /\ Sound = old \o young
        BY <1>1, <2>7 DEF Sound
    <3>2. old \in Seq(Parts) /\ young \in Seq(Parts) /\ next \in Parts
        BY <2>3, <2>5
    <3> HIDE DEF old, young, next, Parts
    <3>3. old \o Append(young, next) = Append(old \o young, next)
        BY ONLY <3>2, AppendOfConcat
    <3> QED
        BY <3>1, <3>3
  <2>11. Shown' = Shown
      BY <1>1, <2>6 DEF Shown
  <2>12. PicturesShown'
      BY <1>1, <2>7, <2>11 DEF MediaInv, PicturesShown
  <2>13. \A x : x \in Put' <=> x \in AudioRead /\ (x[1] < n \/ x[2] < k + 1)
      BY <1>1, <1>6, <2>6 DEF Put, n
  <2>14. ASSUME NEW x
         PROVE  x \in Put' <=> x \in Put \/ x = next
    <3>1. CASE x \in AudioRead
      <4>1. x = <<x[1], x[2]>> /\ x[1] \in 1..n /\ x[2] \in Nat
          BY <1>8, <3>1, MediaAssumption
      <4>2. x[1] < n \/ x[2] < k + 1 <=> (x[1] < n \/ x[2] < k) \/ (x[1] = n /\ x[2] = k)
          BY ONLY <1>3, <1>4, <4>1
      <4>3. x = next <=> x[1] = n /\ x[2] = k
          BY <4>1
      <4> QED
          BY <1>7, <2>13, <3>1, <4>2, <4>3
    <3>2. CASE x \notin AudioRead
        BY <1>7, <2>4, <2>13, <3>2
    <3> QED
        BY <3>1, <3>2
  <2>15. /\ Len(Sound) \in Nat /\ Len(Sound') = Len(Sound) + 1
         /\ Sound'[Len(Sound) + 1] = next
         /\ \A i \in 1..Len(Sound) : Sound'[i] = Sound[i]
         /\ \A x : Contains(Sound', x) <=> Contains(Sound, x) \/ x = next
    <3> DEFINE s == Sound
               Parts == Nat \X Nat
    <3>1. s \in Seq(Parts) /\ next \in Parts /\ Sound' = Append(s, next)
        BY <2>3, <2>5, <2>10
    <3> HIDE DEF s, next, Parts
    <3>2. /\ Len(s) \in Nat /\ Len(Append(s, next)) = Len(s) + 1
          /\ Append(s, next)[Len(s) + 1] = next
          /\ \A i \in 1..Len(s) : Append(s, next)[i] = s[i]
          /\ \A x : Contains(Append(s, next), x) <=> Contains(s, x) \/ x = next
      <4>1. Len(s) \in Nat
          BY ONLY <3>1, SequenceParts
      <4> QED
          BY ONLY <3>1, <4>1, AppendParts
    <3> QED
        BY <3>1, <3>2 DEF s
  <2>16. \A x : Contains(Sound', x) <=> x \in Put'
      BY <2>14, <2>15 DEF MediaInv, SoundIsPut
  <2>17. ASSUME NEW i \in 1..Len(Sound'), NEW j \in 1..Len(Sound'), i < j
         PROVE  Before(Sound'[i], Sound'[j])
    <3>1. i \in 1..Len(Sound) /\ Sound'[i] = Sound[i] /\ j \in 1..(Len(Sound) + 1)
        BY <2>15, <2>17
    <3>2. CASE j \in 1..Len(Sound)
      <4>1. Sound'[j] = Sound[j]
          BY <2>15, <3>2
      <4> QED
          BY <2>17, <3>1, <3>2, <4>1 DEF MediaInv, SoundIsPut
    <3>3. CASE j = Len(Sound) + 1
      <4>1. Sound'[j] = next
          BY <2>15, <3>3
      <4>2. Sound[i] \in Put
          BY <3>1 DEF Contains, MediaInv, SoundIsPut
      <4>3. /\ Sound[i][1] \in 1..n /\ Sound[i][2] \in Nat
            /\ Sound[i][1] < n \/ Sound[i][2] < k
          BY <1>7, <1>8, <4>2, MediaAssumption
      <4>4. next[1] = n /\ next[2] = k
          OBVIOUS
      <4>5. Sound[i][1] < n \/ (Sound[i][1] = n /\ Sound[i][2] < k)
          BY ONLY <1>3, <4>3
      <4> QED
          BY <3>1, <4>1, <4>4, <4>5 DEF Before
    <3> QED
        BY <2>15, <3>1, <3>2, <3>3
  <2>18. SoundIsPut'
      BY <2>16, <2>17 DEF SoundIsPut
  <2> QED
      BY <1>5, <2>8, <2>9, <2>12, <2>18 DEF MediaInv
<1> QED
    BY <1>9, <1>10

\* A picture that is taken takes the place of the one before.
LEMMA TakesVideoKeeps == MediaInv /\ TakesFrom("video") => MediaInv'
<1> SUFFICES ASSUME MediaInv, TakesFrom("video")
             PROVE  MediaInv'
    OBVIOUS
<1> DEFINE q == mdTracks.video
           first == <<Head(q)>>
<1>1. /\ q # <<>> /\ mdTracks' = [mdTracks EXCEPT !["video"] = Tail(@)]
      /\ mdTaken' = [mdTaken EXCEPT !["video"] = first]
      /\ UNCHANGED <<mdIn, mdRead, mdWorker, userVars, mdBridge>>
    BY DEF TakesFrom
<1>2. /\ q \in Seq(Nat) /\ Head(q) \in Nat /\ Head(q) = q[1] /\ Tail(q) \in Seq(Nat)
      /\ Len(q) \in Nat \ {0} /\ Len(Tail(q)) = Len(q) - 1
      /\ \A i \in 1..(Len(q) - 1) : Tail(q)[i] = q[i + 1]
  <2>1. q \in Seq(Nat)
      BY DEF MediaInv, MediaTypes
  <2> QED
      BY <1>1, <2>1, SequenceParts
<1>3. /\ first \in Seq(Nat) /\ Len(first) = 1 /\ first[1] = q[1] /\ Last(first) = Head(q)
      /\ first # <<>>
    BY <1>2 DEF Last
<1>4. /\ mdTracks'.video = Tail(q) /\ mdTracks'.audio = mdTracks.audio
      /\ mdTaken'.video = first /\ mdTaken'.audio = mdTaken.audio
      /\ mdTracks' \in [video : Seq(Nat), audio : Seq(Nat \X Nat), taking : BOOLEAN]
      /\ mdTaken' \in [video : Seq(Nat), audio : Seq(Nat \X Nat)]
    BY <1>1, <1>2, <1>3 DEF MediaInv, MediaTypes
<1>5. MediaTypes'
    BY <1>1, <1>4 DEF MediaInv, MediaTypes, userVars, MdShutdown
<1>6. WorkerPlace' /\ Shown' = Shown /\ Put' = Put /\ Sound' = Sound
    BY <1>1, <1>4 DEF MediaInv, WorkerPlace, Shown, Put, AudioRead, Sound
<1>7. SoundIsPut'
    BY <1>6 DEF MediaInv, SoundIsPut
<1>8. Ascending(q) /\ UpTo(q, Shown) /\ Last(q) = Shown
    BY <1>1 DEF MediaInv, PicturesShown, InOrder
<1>9. Shown \in Nat
    BY <1>1, <1>2, <1>8, SequenceParts
<1>10. InOrder(<<>>, q)
    BY <1>8 DEF InOrder, Ascending
<1>11. /\ Ascending(Tail(q)) /\ UpTo(Tail(q), Shown)
       /\ Tail(q) # <<>> => Last(Tail(q)) = Last(q)
       /\ Tail(q) = <<>> => Last(q) = Head(q)
  <2>1. <<>> \in Seq(Nat)
      OBVIOUS
  <2> QED
      BY <1>1, <1>2, <1>8, <1>9, <1>10, <2>1, TailInOrder DEF InOrder
<1>12. Ascending(first) /\ UpTo(first, Shown)
    BY <1>2, <1>3, <1>8 DEF Ascending, UpTo
<1>13. \A i \in 1..Len(first), j \in 1..Len(Tail(q)) : first[i] < Tail(q)[j]
  <2> SUFFICES ASSUME NEW j \in 1..Len(Tail(q))
               PROVE  q[1] < Tail(q)[j]
      BY <1>3
  <2>1. j + 1 \in 1..Len(q) /\ 1 \in 1..Len(q) /\ 1 < j + 1 /\ Tail(q)[j] = q[j + 1]
      BY <1>2
  <2> QED
      BY <1>8, <2>1 DEF Ascending
<1>14. PicturesShown'
    BY <1>3, <1>4, <1>6, <1>8, <1>11, <1>12, <1>13 DEF PicturesShown, InOrder
<1> QED
    BY <1>1, <1>5, <1>6, <1>7, <1>14, UserStays, BridgeStays DEF MediaInv

LEMMA TakesAudioKeeps == MediaInv /\ TakesFrom("audio") => MediaInv'
<1> SUFFICES ASSUME MediaInv, TakesFrom("audio")
             PROVE  MediaInv'
    OBVIOUS
<1> DEFINE q == mdTracks.audio
<1>1. /\ q # <<>> /\ mdTracks' = [mdTracks EXCEPT !["audio"] = Tail(@)]
      /\ mdTaken' = [mdTaken EXCEPT !["audio"] = Append(@, Head(q))]
      /\ UNCHANGED <<mdIn, mdRead, mdWorker, userVars, mdBridge>>
    BY DEF TakesFrom
<1>2. q \in Seq(Nat \X Nat) /\ mdTaken.audio \in Seq(Nat \X Nat)
    BY DEF MediaInv, MediaTypes
<1>3. Head(q) \in Nat \X Nat /\ Tail(q) \in Seq(Nat \X Nat)
    BY <1>1, <1>2, SequenceParts
<1>4. Append(mdTaken.audio, Head(q)) \in Seq(Nat \X Nat)
    BY <1>2, <1>3, AppendParts
<1>5. /\ mdTracks'.audio = Tail(q) /\ mdTracks'.video = mdTracks.video
      /\ mdTaken'.audio = Append(mdTaken.audio, Head(q)) /\ mdTaken'.video = mdTaken.video
      /\ mdTracks' \in [video : Seq(Nat), audio : Seq(Nat \X Nat), taking : BOOLEAN]
      /\ mdTaken' \in [video : Seq(Nat), audio : Seq(Nat \X Nat)]
    BY <1>1, <1>3, <1>4 DEF MediaInv, MediaTypes
<1>6. MediaTypes'
    BY <1>1, <1>5 DEF MediaInv, MediaTypes, userVars, MdShutdown
<1>7. Sound' = Sound
  <2> DEFINE old == mdTaken.audio
  <2>1. Sound' = Append(old, Head(q)) \o Tail(q) /\ Sound = old \o q
      BY <1>5 DEF Sound
  <2>2. old \in Seq(Nat \X Nat) /\ q # <<>>
      BY <1>1, <1>2
  <2> HIDE DEF old, q
  <2>3. Append(old, Head(q)) \o Tail(q) = old \o q
      BY ONLY <1>2, <2>2, HeadMoves
  <2> QED
      BY <2>1, <2>3
<1>8. WorkerPlace' /\ Shown' = Shown /\ Put' = Put
    BY <1>1 DEF MediaInv, WorkerPlace, Shown, Put, AudioRead
<1>9. SoundIsPut' /\ PicturesShown'
    BY <1>5, <1>7, <1>8 DEF MediaInv, SoundIsPut, PicturesShown
<1> QED
    BY <1>1, <1>6, <1>8, <1>9, UserStays, BridgeStays DEF MediaInv

LEMMA ConnectionGoesKeeps == MediaInv /\ ConnectionGoes => MediaInv'
<1> SUFFICES ASSUME MediaInv, ConnectionGoes
             PROVE  MediaInv'
    OBVIOUS
<1>1. /\ mdTracks' = [mdTracks EXCEPT !.taking = FALSE]
      /\ UNCHANGED <<mdIn, mdRead, mdWorker, mdTaken, userVars, mdBridge>>
    BY DEF ConnectionGoes
<1>2. /\ mdTracks'.audio = mdTracks.audio /\ mdTracks'.video = mdTracks.video
      /\ mdTracks' \in [video : Seq(Nat), audio : Seq(Nat \X Nat), taking : BOOLEAN]
    BY <1>1 DEF MediaInv, MediaTypes
<1>3. MediaTypes'
    BY <1>1, <1>2 DEF MediaInv, MediaTypes, userVars, MdShutdown
<1>4. WorkerPlace' /\ Shown' = Shown /\ Put' = Put /\ Sound' = Sound
    BY <1>1, <1>2 DEF MediaInv, WorkerPlace, Shown, Put, AudioRead, Sound
<1>5. SoundIsPut' /\ PicturesShown'
    BY <1>1, <1>2, <1>4 DEF MediaInv, SoundIsPut, PicturesShown
<1> QED
    BY <1>1, <1>3, <1>4, <1>5, UserStays, BridgeStays DEF MediaInv

(***************************************************************************)
(* What the user says, and what the browser's Codex says.                  *)
(***************************************************************************)

\* The parts of the invariant about the video worker, when only what comes in moves.
LEMMA InboundOnly ==
    ASSUME MediaInv, UNCHANGED videoVars
    PROVE  WorkerPlace' /\ SoundIsPut' /\ PicturesShown'
BY VideoStays DEF MediaInv, videoVars

LEMMA UserTypes ==
    ASSUME MediaInv
    PROVE  /\ mdMic \in [queue : Seq(Nat), came : Nat, dropped : SUBSET Nat]
           /\ mdUser \in [at : {"idle", "start", "chunk", "waiting", "end"}, chunk : Nat]
           /\ mdOut \in Seq([at : {"start", "chunk", "end"}, chunk : Nat])
           /\ Said \subseteq Nat /\ InHand \subseteq Nat
<1>1. /\ mdMic \in [queue : Seq(Nat), came : Nat, dropped : SUBSET Nat]
      /\ mdUser \in [at : {"idle", "start", "chunk", "waiting", "end"}, chunk : Nat]
      /\ mdOut \in Seq([at : {"start", "chunk", "end"}, chunk : Nat])
    BY DEF MediaInv, MediaTypes
<1>2. \A i \in 1..Len(mdOut) : mdOut[i].chunk \in Nat
  <2> DEFINE Told == [at : {"start", "chunk", "end"}, chunk : Nat]
  <2>1. mdOut \in Seq(Told)
      BY <1>1
  <2>2. \A x \in Told : x.chunk \in Nat
      OBVIOUS
  <2> HIDE DEF Told
  <2>3. \A i \in 1..Len(mdOut) : mdOut[i] \in Told
      BY ONLY <2>1, ElementOfSeq
  <2> QED
      BY <2>2, <2>3
<1> QED
    BY <1>1, <1>2 DEF Said, Chunks, InHand

LEMMA MicBringsKeeps == MediaInv /\ MicBrings => MediaInv'
<1> SUFFICES ASSUME MediaInv, MicBrings
             PROVE  MediaInv'
    OBVIOUS
<1> DEFINE q == mdMic.queue
           n == mdMic.came
           new == Offered(q, n + 1, InboundQueue)
           gone == IF Len(q) < InboundQueue THEN {} ELSE {Head(q)}
<1>1. /\ mdMic' = [queue |-> new, came |-> n + 1, dropped |-> mdMic.dropped \cup gone]
      /\ UNCHANGED <<videoVars, mdUser, mdOut, mdBridge>>
    BY DEF MicBrings
<1>2. /\ q \in Seq(Nat) /\ n \in Nat /\ mdMic.dropped \subseteq Nat
      /\ InboundQueue \in Nat \ {0}
    BY UserTypes, MediaAssumption
<1>3. Ascending(q) /\ UpTo(q, n)
    BY DEF MediaInv, ChunksInOrder
<1>4. \A c \in Said \cup InHand : c \in Nat /\ c <= n /\ \A i \in 1..Len(q) : c < q[i]
    BY UserTypes DEF MediaInv, ChunksInOrder
<1>5. \A m \in Nat : m \in 1..n <=>
          m \in Said \cup InHand \cup mdMic.dropped \/ Contains(q, m)
    BY DEF MediaInv, ChunksInOrder
<1>6. Len(q) \in Nat /\ (~(Len(q) < InboundQueue) => q # <<>>)
  <2>1. Len(q) \in Nat /\ (q = <<>> <=> Len(q) = 0)
      BY <1>2, SequenceParts
  <2> QED
      BY <1>2, <2>1
<1> HIDE DEF q, n
<1>7. new \in Seq(Nat) /\ Ascending(new) /\ UpTo(new, n + 1)
  <2>1. <<>> \in Seq(Nat) /\ InOrder(<<>>, q) /\ UpTo(<<>>, n)
      BY <1>3 DEF InOrder, Ascending, UpTo
  <2>2. n + 1 \in Nat /\ n < n + 1
      BY <1>2
  <2> QED
      BY <1>2, <1>3, <2>1, <2>2, OfferedInOrder DEF InOrder
<1>8. ASSUME NEW c \in Said \cup InHand
      PROVE  c <= n + 1 /\ \A i \in 1..Len(new) : c < new[i]
  <2> DEFINE one == <<c>>
  <2>1. /\ one \in Seq(Nat) /\ Len(one) = 1 /\ one[1] = c /\ c \in Nat /\ c <= n
        /\ \A i \in 1..Len(q) : c < q[i]
      BY <1>4
  <2> HIDE DEF one
  <2>2. InOrder(one, q) /\ UpTo(one, n)
      BY <1>3, <2>1 DEF InOrder, Ascending, UpTo
  <2>3. n + 1 \in Nat /\ n < n + 1
      BY <1>2
  <2>4. InOrder(one, new)
      BY <1>2, <1>3, <2>1, <2>2, <2>3, OfferedInOrder
  <2> QED
      BY <1>2, <2>1, <2>4 DEF InOrder
<1>9. /\ \A m : Contains(new, m) \/ m \in gone <=> Contains(q, m) \/ m = n + 1 \/ m \in gone
      /\ \A m \in gone : m \in Nat /\ Contains(q, m)
  <2>1. n + 1 \in Nat
      BY <1>2
  <2>2. CASE Len(q) < InboundQueue
    <3>1. new = Append(q, n + 1) /\ gone = {}
        BY <2>2 DEF Offered
    <3>2. \A m : Contains(Append(q, n + 1), m) <=> Contains(q, m) \/ m = n + 1
        BY ONLY <1>2, <2>1, AppendParts
    <3> QED
        BY <3>1, <3>2
  <2>3. CASE ~(Len(q) < InboundQueue)
    <3>1. new = Append(Tail(q), n + 1) /\ gone = {Head(q)}
        BY <2>3 DEF Offered
    <3>2. q # <<>>
        BY <1>6, <2>3
    <3>3. Distinct(q)
      <4>1. \A i \in 1..Len(q) : q[i] \in Nat
          BY <1>2, ElementOfSeq
      <4> QED
          BY <1>3, <1>6, <4>1 DEF Ascending, Distinct
    <3>4. /\ Head(q) \in Nat /\ Contains(q, Head(q)) /\ Tail(q) \in Seq(Nat)
          /\ \A m : Contains(Tail(q), m) <=> Contains(q, m) /\ m # Head(q)
        BY <1>2, <3>2, <3>3, TailHas
    <3>5. \A m : Contains(new, m) <=> Contains(Tail(q), m) \/ m = n + 1
      <4> DEFINE rest == Tail(q)
      <4>1. rest \in Seq(Nat)
          BY <3>4
      <4> HIDE DEF rest
      <4>2. \A m : Contains(Append(rest, n + 1), m) <=> Contains(rest, m) \/ m = n + 1
          BY ONLY <2>1, <4>1, AppendParts
      <4> QED
          BY <3>1, <4>2 DEF rest
    <3> QED
        BY <3>1, <3>4, <3>5
  <2> QED
      BY <2>2, <2>3
<1> HIDE DEF new, gone
<1>10. /\ mdMic'.queue = new /\ mdMic'.came = n + 1
       /\ mdMic'.dropped = mdMic.dropped \cup gone
       /\ mdMic' \in [queue : Seq(Nat), came : Nat, dropped : SUBSET Nat]
    BY <1>1, <1>2, <1>7, <1>9
<1>11. MediaTypes'
    BY <1>1, <1>10 DEF MediaInv, MediaTypes, videoVars, MdShutdown
<1>12. Said' = Said /\ InHand' = InHand /\ Chunks' = Chunks
    BY <1>1 DEF Said, Chunks, InHand, Holding
<1>13. StreamTold'
    BY <1>1 DEF MediaInv, StreamTold
<1>14. ASSUME NEW m \in Nat
       PROVE  m \in 1..(n + 1) <=>
                 m \in Said \cup InHand \cup (mdMic.dropped \cup gone) \/ Contains(new, m)
  <2>1. m \in 1..(n + 1) <=> m \in 1..n \/ m = n + 1
      BY <1>2
  <2> QED
      BY <1>5, <1>9, <2>1
<1>15. /\ \A i, j \in Chunks : i < j => mdOut[i].chunk < mdOut[j].chunk
       /\ \A c \in Said, d \in InHand : c < d
    BY DEF MediaInv, ChunksInOrder
<1>16. ChunksInOrder'
    BY <1>1, <1>7, <1>8, <1>10, <1>12, <1>14, <1>15 DEF ChunksInOrder
<1> QED
    BY <1>1, <1>11, <1>13, <1>16, InboundOnly, BridgeStays DEF MediaInv

LEMMA UserTakesKeeps == MediaInv /\ UserTakes => MediaInv'
<1> SUFFICES ASSUME MediaInv, UserTakes
             PROVE  MediaInv'
    OBVIOUS
<1> DEFINE q == mdMic.queue
           c == Head(q)
<1>1. /\ q # <<>> /\ mdUser.at \in {"idle", "waiting"}
      /\ mdMic' = [mdMic EXCEPT !.queue = Tail(q)]
      /\ mdUser' = [at |-> IF mdUser.at = "idle" THEN "start" ELSE "chunk", chunk |-> c]
      /\ UNCHANGED <<videoVars, mdOut, mdBridge>>
    BY DEF UserTakes
<1>2. q \in Seq(Nat) /\ mdMic.came \in Nat
    BY UserTypes
<1>3. /\ c \in Nat /\ c = q[1] /\ Tail(q) \in Seq(Nat) /\ Len(q) \in Nat \ {0}
      /\ Len(Tail(q)) = Len(q) - 1
      /\ \A i \in 1..(Len(q) - 1) : Tail(q)[i] = q[i + 1]
    BY <1>1, <1>2, SequenceParts
<1>4. /\ mdMic'.queue = Tail(q) /\ mdMic'.came = mdMic.came
      /\ mdMic'.dropped = mdMic.dropped
      /\ mdMic' \in [queue : Seq(Nat), came : Nat, dropped : SUBSET Nat]
      /\ mdUser' \in [at : {"idle", "start", "chunk", "waiting", "end"}, chunk : Nat]
    BY <1>1, <1>3, UserTypes
<1>5. MediaTypes'
    BY <1>1, <1>4 DEF MediaInv, MediaTypes, videoVars, MdShutdown
<1>6. Said' = Said /\ Chunks' = Chunks /\ InHand = {} /\ InHand' = {c}
    BY <1>1 DEF Said, Chunks, InHand, Holding
<1>7. StreamTold'
    BY <1>1 DEF MediaInv, StreamTold
<1>8. /\ \A i, j \in Chunks : i < j => mdOut[i].chunk < mdOut[j].chunk
      /\ Ascending(q) /\ UpTo(q, mdMic.came)
      /\ \A d \in Said : d <= mdMic.came /\ \A i \in 1..Len(q) : d < q[i]
      /\ \A m \in Nat : m \in 1..mdMic.came <=>
             m \in Said \cup mdMic.dropped \/ Contains(q, m)
    BY <1>6 DEF MediaInv, ChunksInOrder
<1> HIDE DEF q
<1>9. 1 \in 1..Len(q) /\ c <= mdMic.came /\ \A d \in Said : d < c
    BY <1>3, <1>8 DEF UpTo
<1>10. \A i \in 1..Len(Tail(q)) : /\ i + 1 \in 1..Len(q) /\ Tail(q)[i] = q[i + 1]
                                  /\ 1 < i + 1
    BY <1>3
<1>11. Ascending(Tail(q)) /\ UpTo(Tail(q), mdMic.came)
  <2>1. InOrder(<<>>, q) /\ <<>> \in Seq(Nat)
      BY <1>8 DEF InOrder, Ascending
  <2> QED
      BY <1>1, <1>2, <1>8, <2>1, TailInOrder DEF InOrder
<1>12. /\ \A d \in Said, i \in 1..Len(Tail(q)) : d < Tail(q)[i]
       /\ \A i \in 1..Len(Tail(q)) : c < Tail(q)[i]
    BY <1>3, <1>8, <1>9, <1>10 DEF Ascending
<1>13. /\ Contains(q, c)
       /\ \A m : Contains(Tail(q), m) <=> Contains(q, m) /\ m # c
  <2>1. \A i \in 1..Len(q) : q[i] \in Nat
      BY <1>2, ElementOfSeq
  <2>2. Distinct(q)
      BY <1>3, <1>8, <2>1 DEF Ascending, Distinct
  <2> QED
      BY <1>1, <1>2, <2>2, TailHas
<1>14. \A m \in Nat : m \in 1..mdMic.came <=>
           m \in Said \cup {c} \cup mdMic.dropped \/ Contains(Tail(q), m)
    BY <1>8, <1>13
<1> HIDE DEF c
<1>15. ChunksInOrder'
    BY <1>1, <1>4, <1>6, <1>8, <1>9, <1>11, <1>12, <1>14 DEF ChunksInOrder
<1> QED
    BY <1>1, <1>5, <1>7, <1>15, InboundOnly, BridgeStays DEF MediaInv

LEMMA UserTimesOutKeeps == MediaInv /\ UserTimesOut => MediaInv'
<1> SUFFICES ASSUME MediaInv, UserTimesOut
             PROVE  MediaInv'
    OBVIOUS
<1>1. /\ mdUser.at = "waiting" /\ mdUser' = [mdUser EXCEPT !.at = "end"]
      /\ UNCHANGED <<videoVars, mdMic, mdOut, mdBridge>>
    BY DEF UserTimesOut
<1>2. /\ mdUser'.at = "end"
      /\ mdUser' \in [at : {"idle", "start", "chunk", "waiting", "end"}, chunk : Nat]
    BY <1>1, UserTypes
<1>3. MediaTypes'
    BY <1>1, <1>2 DEF MediaInv, MediaTypes, videoVars, MdShutdown
<1>4. Said' = Said /\ InHand' = InHand /\ Chunks' = Chunks
    BY <1>1, <1>2 DEF Said, Chunks, InHand, Holding
<1>5. StreamTold' /\ ChunksInOrder'
    BY <1>1, <1>2, <1>4 DEF MediaInv, StreamTold, ChunksInOrder
<1> QED
    BY <1>1, <1>3, <1>5, InboundOnly, BridgeStays DEF MediaInv

LEMMA UserPublishesKeeps == MediaInv /\ UserPublishes => MediaInv'
<1> SUFFICES ASSUME MediaInv, UserPublishes
             PROVE  MediaInv'
    OBVIOUS
<1> DEFINE Told == [at : {"start", "chunk", "end"}, chunk : Nat]
           l == Len(mdOut)
           here == mdUser.at
           c == mdUser.chunk
<1>1. /\ here \in {"start", "chunk", "end"} /\ mdOut' = Append(mdOut, mdUser)
      /\ mdUser' = [mdUser EXCEPT !.at = CASE @ = "start" -> "chunk"
                                           [] @ = "chunk" -> "waiting"
                                           [] @ = "end" -> "idle"]
      /\ UNCHANGED <<videoVars, mdMic, mdBridge>>
    BY DEF UserPublishes
<1>2. mdOut \in Seq(Told) /\ mdUser \in Told /\ c \in Nat
    BY <1>1, UserTypes
<1>3. /\ here = "start" => mdUser'.at = "chunk"
      /\ here = "chunk" => mdUser'.at = "waiting"
      /\ here = "end" => mdUser'.at = "idle"
      /\ mdUser'.chunk = c
      /\ mdUser' \in [at : {"idle", "start", "chunk", "waiting", "end"}, chunk : Nat]
    BY <1>1, UserTypes
<1> HIDE DEF Told
<1>4. /\ l \in Nat /\ mdOut' \in Seq(Told) /\ Len(mdOut') = l + 1
      /\ mdOut' # <<>> /\ Last(mdOut') = mdUser /\ mdOut'[l + 1] = mdUser
      /\ \A i \in 1..l : mdOut'[i] = mdOut[i]
      /\ mdOut = <<>> <=> l = 0
      /\ mdOut # <<>> => Last(mdOut) = mdOut[l]
  <2>1. /\ l \in Nat /\ (mdOut = <<>> <=> l = 0)
        /\ mdOut # <<>> => Last(mdOut) = mdOut[l]
      BY <1>2, SequenceParts
  <2> QED
      BY <1>1, <1>2, <2>1, AppendParts
<1>5. MediaTypes'
    BY <1>1, <1>3, <1>4 DEF MediaInv, MediaTypes, videoVars, MdShutdown, Told
<1> HIDE DEF l, c
<1>6. StreamTold'
  <2>1. mdUser'.at \in {"idle", "start"} <=> Last(mdOut').at = "end"
      BY <1>1, <1>3, <1>4
  <2>2. here = "start" <=> mdOut = <<>> \/ Last(mdOut).at = "end"
      BY <1>1 DEF MediaInv, StreamTold
  <2>3. ASSUME NEW i \in 1..(l + 1)
        PROVE  IF i = 1 THEN mdOut'[i].at = "start"
               ELSE mdOut'[i].at = "start" <=> mdOut'[i - 1].at = "end"
    <3>1. CASE i \in 1..l
      <4>1. mdOut'[i] = mdOut[i] /\ (i # 1 => mdOut'[i - 1] = mdOut[i - 1])
          BY <1>4, <3>1
      <4>2. IF i = 1 THEN mdOut[i].at = "start"
            ELSE mdOut[i].at = "start" <=> mdOut[i - 1].at = "end"
          BY <3>1 DEF MediaInv, StreamTold, l
      <4> QED
          BY <4>1, <4>2
    <3>2. CASE i = l + 1 /\ l = 0
        BY <1>4, <2>2, <3>2
    <3>3. CASE i = l + 1 /\ l # 0
      <4>1. l \in 1..l /\ i - 1 = l /\ i # 1 /\ mdOut # <<>>
          BY <1>4, <3>3
      <4>2. mdOut'[i] = mdUser /\ mdOut'[i - 1] = Last(mdOut)
          BY <1>4, <3>3, <4>1
      <4> QED
          BY <2>2, <4>1, <4>2
    <3> QED
        BY <1>4, <3>1, <3>2, <3>3
  <2> QED
      BY <1>4, <2>1, <2>3 DEF StreamTold
<1>7. /\ Chunks = {i \in 1..l : mdOut[i].at = "chunk"}
      /\ Chunks' = Chunks \cup (IF here = "chunk" THEN {l + 1} ELSE {})
  <2>1. Chunks = {i \in 1..l : mdOut[i].at = "chunk"}
      BY DEF Chunks, l
  <2>2. Chunks' = {i \in 1..(l + 1) : mdOut'[i].at = "chunk"}
      BY <1>4 DEF Chunks
  <2>3. ASSUME NEW i \in 1..(l + 1)
        PROVE  mdOut'[i].at = "chunk" <=> i \in Chunks \/ (i = l + 1 /\ here = "chunk")
    <3>1. CASE i \in 1..l
        BY <1>4, <2>1, <3>1
    <3>2. CASE i = l + 1
        BY <1>4, <2>1, <3>2
    <3> QED
        BY <1>4, <3>1, <3>2
  <2>4. l + 1 \in 1..(l + 1) /\ Chunks \subseteq 1..(l + 1)
      BY <1>4, <2>1
  <2> QED
      BY <2>1, <2>2, <2>3, <2>4
<1>8. Said' = Said \cup (IF here = "chunk" THEN {c} ELSE {})
  <2>1. Said' = {mdOut'[i].chunk : i \in Chunks'}
      BY DEF Said
  <2>2. \A i \in Chunks : mdOut'[i] = mdOut[i]
      BY <1>4, <1>7
  <2>3. mdOut'[l + 1].chunk = c
      BY <1>4 DEF c
  <2>4. CASE here = "chunk"
    <3>1. Chunks' = Chunks \cup {l + 1}
        BY <1>7, <2>4
    <3>2. Said' = {mdOut'[i].chunk : i \in Chunks} \cup {mdOut'[l + 1].chunk}
        BY <2>1, <3>1
    <3>3. {mdOut'[i].chunk : i \in Chunks} = Said
        BY <2>2 DEF Said
    <3> QED
        BY <2>3, <2>4, <3>2, <3>3
  <2>5. CASE here # "chunk"
      BY <1>7, <2>1, <2>2, <2>5 DEF Said
  <2> QED
      BY <2>4, <2>5
<1>9. /\ InHand = (IF here = "end" THEN {} ELSE {c})
      /\ InHand' = (IF here = "start" THEN {c} ELSE {})
    BY <1>1, <1>3 DEF InHand, Holding, c
<1>10. Said' \cup InHand' = Said \cup InHand
    BY <1>1, <1>8, <1>9
<1>11. /\ \A i, j \in Chunks : i < j => mdOut[i].chunk < mdOut[j].chunk
       /\ \A d \in Said, e \in InHand : d < e
    BY DEF MediaInv, ChunksInOrder
<1>12. ASSUME NEW i \in Chunks', NEW j \in Chunks', i < j
       PROVE  mdOut'[i].chunk < mdOut'[j].chunk
  <2>1. CASE j \in Chunks
    <3>1. i \in Chunks
        BY <1>4, <1>7, <1>12, <2>1
    <3> QED
        BY <1>4, <1>7, <1>11, <1>12, <2>1, <3>1
  <2>2. CASE j \notin Chunks
    <3>1. here = "chunk" /\ j = l + 1 /\ i \in Chunks
        BY <1>4, <1>7, <1>12, <2>2
    <3>2. mdOut'[i].chunk = mdOut[i].chunk /\ mdOut[i].chunk \in Said
        BY <1>4, <1>7, <3>1 DEF Said
    <3>3. mdOut'[j].chunk = c /\ c \in InHand
        BY <1>4, <1>9, <3>1 DEF c
    <3> QED
        BY <1>11, <3>2, <3>3
  <2> QED
      BY <2>1, <2>2
<1>13. \A d \in Said', e \in InHand' : d < e
    BY <1>1, <1>8, <1>9, <1>11
<1>14. /\ Ascending(mdMic.queue) /\ UpTo(mdMic.queue, mdMic.came)
       /\ \A d \in Said \cup InHand : d <= mdMic.came
       /\ \A d \in Said \cup InHand, i \in 1..Len(mdMic.queue) : d < mdMic.queue[i]
       /\ \A n \in Nat : n \in 1..mdMic.came <=>
             n \in Said \cup InHand \cup mdMic.dropped \/ Contains(mdMic.queue, n)
    BY DEF MediaInv, ChunksInOrder
<1>15. ChunksInOrder'
    BY <1>1, <1>10, <1>12, <1>13, <1>14 DEF ChunksInOrder
<1> QED
    BY <1>1, <1>5, <1>6, <1>15, InboundOnly, BridgeStays DEF MediaInv

LEMMA BridgeTypes ==
    ASSUME MediaInv
    PROVE  mdBridge \in [queue : Seq(Nat), came : Nat, out : Seq(Nat)]
BY DEF MediaInv, MediaTypes

LEMMA ChannelBringsKeeps == MediaInv /\ ChannelBrings => MediaInv'
<1> SUFFICES ASSUME MediaInv, ChannelBrings
             PROVE  MediaInv'
    OBVIOUS
<1> DEFINE q == mdBridge.queue
           n == mdBridge.came
           new == Offered(q, n + 1, InboundQueue)
<1>1. /\ mdBridge' = [mdBridge EXCEPT !.queue = new, !.came = n + 1]
      /\ UNCHANGED <<videoVars, userVars>>
    BY DEF ChannelBrings
<1>2. /\ q \in Seq(Nat) /\ mdBridge.out \in Seq(Nat) /\ n \in Nat
      /\ InboundQueue \in Nat \ {0}
    BY BridgeTypes, MediaAssumption
<1>3. InOrder(mdBridge.out, q) /\ UpTo(mdBridge.out, n) /\ UpTo(q, n)
    BY DEF MediaInv, BridgeInOrder
<1> HIDE DEF q, n
<1>4. /\ new \in Seq(Nat) /\ InOrder(mdBridge.out, new)
      /\ UpTo(mdBridge.out, n + 1) /\ UpTo(new, n + 1)
  <2>1. n + 1 \in Nat /\ n < n + 1
      BY <1>2
  <2> QED
      BY <1>2, <1>3, <2>1, OfferedInOrder
<1> HIDE DEF new
<1>5. /\ mdBridge'.queue = new /\ mdBridge'.came = n + 1 /\ mdBridge'.out = mdBridge.out
      /\ mdBridge' \in [queue : Seq(Nat), came : Nat, out : Seq(Nat)]
  <2>1. n + 1 \in Nat
      BY <1>2
  <2> QED
      BY <1>1, <1>4, <2>1, BridgeTypes
<1>6. MediaTypes'
    BY <1>1, <1>5 DEF MediaInv, MediaTypes, videoVars, userVars, MdShutdown
<1>7. BridgeInOrder'
    BY <1>4, <1>5 DEF BridgeInOrder
<1> QED
    BY <1>1, <1>6, <1>7, InboundOnly, UserStays DEF MediaInv

LEMMA BridgePublishesKeeps == MediaInv /\ BridgePublishes => MediaInv'
<1> SUFFICES ASSUME MediaInv, BridgePublishes
             PROVE  MediaInv'
    OBVIOUS
<1> DEFINE q == mdBridge.queue
           o == mdBridge.out
           n == mdBridge.came
           rest == Tail(q)
           x == Head(q)
           more == Append(o, x)
<1>1. /\ q # <<>> /\ mdBridge' = [mdBridge EXCEPT !.queue = rest, !.out = more]
      /\ UNCHANGED <<videoVars, userVars>>
    BY DEF BridgePublishes
<1>2. q \in Seq(Nat) /\ o \in Seq(Nat) /\ n \in Nat
    BY BridgeTypes
<1>3. InOrder(o, q) /\ UpTo(o, n) /\ UpTo(q, n)
    BY DEF MediaInv, BridgeInOrder
<1> HIDE DEF q, o, n
<1>4. /\ x \in Nat /\ x = q[1] /\ rest \in Seq(Nat) /\ Len(q) \in Nat \ {0}
      /\ Len(rest) = Len(q) - 1
      /\ \A i \in 1..(Len(q) - 1) : rest[i] = q[i + 1]
    BY <1>1, <1>2, SequenceParts
<1>5. InOrder(o, rest) /\ UpTo(rest, n)
    BY <1>1, <1>2, <1>3, TailInOrder
<1> HIDE DEF rest, x
<1>6. /\ more \in Seq(Nat) /\ Len(o) \in Nat /\ Len(more) = Len(o) + 1
      /\ more[Len(o) + 1] = x /\ \A i \in 1..Len(o) : more[i] = o[i]
  <2>1. Len(o) \in Nat
      BY <1>2, SequenceParts
  <2> QED
      BY <1>2, <1>4, <2>1, AppendParts
<1> HIDE DEF more
<1>7. /\ \A i \in 1..Len(o) : o[i] < x /\ o[i] <= n
      /\ \A i \in 1..Len(rest) : x < rest[i]
      /\ x <= n
  <2>1. 1 \in 1..Len(q)
      BY <1>4
  <2>2. \A i \in 1..Len(rest) : i + 1 \in 1..Len(q) /\ 1 < i + 1 /\ rest[i] = q[i + 1]
      BY <1>4
  <2> QED
      BY <1>3, <1>4, <2>1, <2>2 DEF InOrder, Ascending, UpTo
<1>8. \A i \in 1..Len(more) : IF i = Len(o) + 1 THEN more[i] = x
                              ELSE i \in 1..Len(o) /\ more[i] = o[i]
    BY <1>6
<1>9. Ascending(more)
  <2> SUFFICES ASSUME NEW i \in 1..Len(more), NEW j \in 1..Len(more), i < j
               PROVE  more[i] < more[j]
      BY DEF Ascending
  <2>1. i # Len(o) + 1
      BY <1>6
  <2>2. CASE j = Len(o) + 1
      BY <1>7, <1>8, <2>1, <2>2
  <2>3. CASE j # Len(o) + 1
      BY <1>3, <1>8, <2>1, <2>3 DEF InOrder, Ascending
  <2> QED
      BY <2>2, <2>3
<1>10. InOrder(more, rest) /\ UpTo(more, n)
  <2>1. ASSUME NEW i \in 1..Len(more), NEW j \in 1..Len(rest)
        PROVE  more[i] < rest[j]
    <3>1. CASE i = Len(o) + 1
        BY <1>7, <1>8, <3>1
    <3>2. CASE i # Len(o) + 1
        BY <1>5, <1>8, <3>2 DEF InOrder
    <3> QED
        BY <3>1, <3>2
  <2>2. UpTo(more, n)
      BY <1>7, <1>8 DEF UpTo
  <2> QED
      BY <1>5, <1>9, <2>1, <2>2 DEF InOrder
<1>11. /\ mdBridge'.queue = rest /\ mdBridge'.came = n /\ mdBridge'.out = more
       /\ mdBridge' \in [queue : Seq(Nat), came : Nat, out : Seq(Nat)]
    BY <1>1, <1>4, <1>6, BridgeTypes DEF n
<1>12. MediaTypes'
    BY <1>1, <1>11 DEF MediaInv, MediaTypes, videoVars, userVars, MdShutdown
<1>13. BridgeInOrder'
    BY <1>5, <1>10, <1>11 DEF BridgeInOrder
<1> QED
    BY <1>1, <1>12, <1>13, InboundOnly, UserStays DEF MediaInv

LEMMA MediaStep == MediaInv /\ MdNext => MediaInv'
BY MdBringsKeeps, ReadFrameKeeps, PushVideoKeeps, PushAudioKeeps, ConnectionGoesKeeps,
   TakesVideoKeeps, TakesAudioKeeps, MicBringsKeeps, UserTakesKeeps, UserTimesOutKeeps,
   UserPublishesKeeps, ChannelBringsKeeps, BridgePublishesKeeps
   DEF MdNext

\* The invariant is what the two histories promise.
LEMMA MediaLeaves ==
    ASSUME MediaInv
    PROVE  MediaLeavesInOrder
<1> DEFINE pictures == mdTaken.video \o mdTracks.video
           left == ToSet(Sound)
<1>1. /\ mdRead \in Seq(0..MdParts) /\ Sound \in Seq(Nat \X Nat)
      /\ mdTaken.video \in Seq(Nat) /\ mdTracks.video \in Seq(Nat)
      /\ mdWorker.at \in {"first", "next", "video", "audio", "over"}
      /\ mdWorker.part \in Nat
    BY ConcatParts DEF MediaInv, MediaTypes, Sound
<1>2. Len(mdRead) \in Nat /\ (mdRead = <<>> <=> Len(mdRead) = 0)
    BY <1>1, SequenceParts
<1>3. left = Put
  <2>1. DOMAIN Sound = 1..Len(Sound)
      BY <1>1, LenProperties
  <2>2. \A x : x \in left <=> Contains(Sound, x)
      BY <2>1 DEF ToSet, Contains
  <2>3. \A x : Contains(Sound, x) <=> x \in Put
      BY DEF MediaInv, SoundIsPut
  <2> QED
      BY <2>2, <2>3
<1>4. \A x \in AudioRead : x[1] \in 1..Len(mdRead) /\ x[2] \in 1..MdParts
    BY <1>1, AudioParts
<1> HIDE DEF left
<1>5. Put \subseteq AudioRead
    BY DEF Put
<1>6. ASSUME NEW y \in Put, NEW x \in AudioRead, Before(x, y)
      PROVE  x \in Put
  <2>1. /\ x[1] \in 1..Len(mdRead) /\ x[2] \in 1..MdParts
        /\ y[1] \in 1..Len(mdRead) /\ y[2] \in 1..MdParts
      BY <1>4, <1>5
  <2>2. CASE mdWorker.at \in {"video", "audio"}
    <3>1. y[1] < Len(mdRead) \/ y[2] < mdWorker.part
        BY <2>2 DEF Put
    <3>2. x[1] < y[1] \/ (x[1] = y[1] /\ x[2] < y[2])
        BY <1>6 DEF Before
    <3>3. x[1] \in Nat /\ x[2] \in Nat /\ y[1] \in Nat /\ y[2] \in Nat /\ y[1] <= Len(mdRead)
        BY <1>2, <2>1, MediaAssumption
    <3>4. x[1] < Len(mdRead) \/ x[2] < mdWorker.part
        BY ONLY <1>1, <1>2, <3>1, <3>2, <3>3
    <3> QED
        BY <2>2, <3>4 DEF Put
  <2>3. CASE mdWorker.at \notin {"video", "audio"}
      BY <2>3 DEF Put
  <2> QED
      BY <2>2, <2>3
<1>7. /\ InOrder(mdTaken.video, mdTracks.video)
      /\ IF mdTracks.video # <<>> THEN Last(mdTracks.video) = Shown
         ELSE IF mdTaken.video # <<>> THEN Last(mdTaken.video) = Shown
         ELSE Shown = 0
    BY DEF MediaInv, PicturesShown
<1>8. Ascending(pictures)
    BY <1>1, <1>7, AscendingConcat
<1>9. Shown # 0 => pictures # <<>> /\ Last(pictures) = Shown
  <2>1. /\ pictures = <<>> <=> mdTaken.video = <<>> /\ mdTracks.video = <<>>
        /\ mdTracks.video # <<>> => Last(pictures) = Last(mdTracks.video)
        /\ mdTracks.video = <<>> /\ mdTaken.video # <<>> =>
              Last(pictures) = Last(mdTaken.video)
      BY <1>1, ConcatParts
  <2> QED
      BY <1>7, <2>1
<1> HIDE DEF pictures
<1>10. ASSUME Sound # <<>>
       PROVE  pictures # <<>> /\ Last(Sound)[1] <= Last(pictures)
  <2>1. Contains(Sound, Last(Sound))
    <3>1. Len(Sound) \in Nat /\ Len(Sound) # 0 /\ Last(Sound) = Sound[Len(Sound)]
      <4> DEFINE S == Nat \X Nat
                 s == Sound
      <4>1. s \in Seq(S) /\ s # <<>>
          BY <1>1, <1>10
      <4> HIDE DEF S, s
      <4>2. Len(s) \in Nat /\ Len(s) # 0 /\ Last(s) = s[Len(s)]
          BY ONLY <4>1, SequenceParts
      <4> QED
          BY <4>2 DEF s
    <3>2. Len(Sound) \in 1..Len(Sound)
        BY <3>1
    <3> QED
        BY <3>1, <3>2 DEF Contains
  <2>2. Last(Sound) \in Put
      BY <2>1 DEF MediaInv, SoundIsPut
  <2>3. Last(Sound)[1] \in 1..Len(mdRead) /\ Last(Sound)[2] \in 1..MdParts
      BY <1>4, <1>5, <2>2
  <2>4. Last(Sound)[1] <= Shown
    <3>1. CASE mdWorker.at = "video"
      <4>1. mdWorker.part = 1
          BY <3>1 DEF MediaInv, WorkerPlace
      <4>2. Last(Sound)[1] < Len(mdRead) \/ Last(Sound)[2] < 1
          BY <2>2, <3>1, <4>1 DEF Put
      <4>3. ~(Last(Sound)[2] < 1)
          BY <2>3, MediaAssumption
      <4> QED
          BY <1>2, <2>3, <3>1, <4>2, <4>3 DEF Shown
    <3>2. CASE mdWorker.at # "video"
        BY <1>2, <2>3, <3>2 DEF Shown
    <3> QED
        BY <3>1, <3>2
  <2>5. Shown # 0
      BY <1>2, <2>3, <2>4
  <2> QED
      BY <1>9, <2>4, <2>5
<1>11. ASSUME mdWorker.at \in {"next", "over"}, mdRead # <<>>
       PROVE  left = AudioRead /\ Last(pictures) = Len(mdRead)
    BY <1>2, <1>3, <1>9, <1>11 DEF Put, Shown
<1>12. \A i, j \in 1..Len(Sound) : i < j => Before(Sound[i], Sound[j])
    BY DEF MediaInv, SoundIsPut
<1> QED
    BY <1>3, <1>5, <1>6, <1>8, <1>10, <1>11, <1>12
       DEF MediaLeavesInOrder, Sound, pictures, left

LEMMA UserIsHeard ==
    ASSUME MediaInv
    PROVE  UserIsHeardInOrder
<1>1. /\ \A i, j \in Chunks : i < j => mdOut[i].chunk < mdOut[j].chunk
      /\ Ascending(mdMic.queue)
      /\ \A c \in Said, i \in 1..Len(mdMic.queue) : c < mdMic.queue[i]
    BY DEF MediaInv, ChunksInOrder
<1>2. /\ mdMic.queue \in Seq(Nat) /\ mdMic.dropped \subseteq Nat /\ mdMic.came \in Nat
      /\ Said \subseteq Nat /\ InHand \subseteq Nat
    BY UserTypes
<1>3. 1..mdMic.came = Said \cup ToSet(mdMic.queue) \cup mdMic.dropped \cup InHand
  <2>1. /\ DOMAIN mdMic.queue = 1..Len(mdMic.queue)
        /\ \A i \in 1..Len(mdMic.queue) : mdMic.queue[i] \in Nat
      BY <1>2, LenProperties, ElementOfSeq
  <2>2. /\ \A n : n \in ToSet(mdMic.queue) <=> Contains(mdMic.queue, n)
        /\ ToSet(mdMic.queue) \subseteq Nat
      BY <2>1 DEF ToSet, Contains
  <2>3. \A n \in Nat : n \in 1..mdMic.came <=>
            n \in Said \cup InHand \cup mdMic.dropped \/ Contains(mdMic.queue, n)
      BY DEF MediaInv, ChunksInOrder
  <2>4. \A n \in 1..mdMic.came : n \in Nat
      BY <1>2
  <2> QED
      BY <1>2, <2>2, <2>3, <2>4
<1>4. \A i \in 1..Len(mdOut) :
          IF i = 1 THEN mdOut[i].at = "start"
          ELSE mdOut[i].at = "start" <=> mdOut[i - 1].at = "end"
    BY DEF MediaInv, StreamTold
<1>5. Ascending(mdBridge.out \o mdBridge.queue)
  <2>1. mdBridge.out \in Seq(Nat) /\ mdBridge.queue \in Seq(Nat)
      BY BridgeTypes
  <2> QED
      BY <2>1, AscendingConcat DEF MediaInv, BridgeInOrder
<1> QED
    BY <1>1, <1>3, <1>4, <1>5 DEF UserIsHeardInOrder, Said, Chunks, InHand, Holding

\* What leaves for the browser and what it sends is in order and whole: the sound of the
\* frames without a gap and never ahead of its picture, the user's chunks between the start
\* and the end of a stream, and one that is missing was dropped for newer ones; and so are
\* the events of the bus.
THEOREM StreamsOrdered == Spec => []StreamsKeepOrder
<1>1. Init => MediaInv
    BY MediaBegins DEF Init
<1>2. MediaInv /\ [Next]_vars => MediaInv'
    BY MediaStep, MediaUnchanged DEF Next, vars
<1>3. MediaInv => MediaLeavesInOrder /\ UserIsHeardInOrder
    BY MediaLeaves, UserIsHeard
<1>4. Spec => [](MediaLeavesInOrder /\ UserIsHeardInOrder)
    BY <1>1, <1>2, <1>3, PTL DEF Spec
<1>5. BusIsSound /\ (MediaLeavesInOrder /\ UserIsHeardInOrder) <=> StreamsKeepOrder
    BY DEF StreamsKeepOrder
<1> QED
    BY <1>4, <1>5, BusSound, PTL
=============================================================================
