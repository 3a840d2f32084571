----------------------- MODULE StreamSession_proofs -----------------------
(***************************************************************************)
(* Proofs about one stream, for every size of the bus's queues and any     *)
(* number of frames: that nobody is left behind when the render loop is    *)
(* told to stop, and that the stream leaves no timer and no subscription   *)
(* behind.                                                                 *)
(*                                                                         *)
(* Each action does one thing to the bus: it publishes, reads, subscribes, *)
(* leaves or lets a publisher go on.  A lemma says what that does to an    *)
(* invariant, whoever does it; the lemma on an action names its part.      *)
(***************************************************************************)
EXTENDS StreamSession, TLAPS, SequenceTheorems, WellFoundedInduction

(***************************************************************************)
(* Lists without repetitions, in which the video worker is the last.       *)
(***************************************************************************)

Has(list, x) == \E i \in DOMAIN list : list[i] = x
Distinct(list) == \A i, j \in DOMAIN list : list[i] = list[j] => i = j
VideoLast(list) == \A i \in DOMAIN list : list[i] = "video" => i = Len(list)

\* The least-number principle, for a set of naturals.
LEMMA LeastOf ==
    ASSUME NEW T, T \subseteq Nat, T # {}
    PROVE  \E m \in T : \A k \in T : m <= k
<1> DEFINE R == OpToRel(<, Nat)
<1>1. IsWellFoundedOn(R, Nat)
    BY NatLessThanWellFounded
<1>2. \A x, y \in Nat : y < x => <<y, x>> \in R
    BY DEF OpToRel
<1> HIDE DEF R
<1>3. PICK x \in T : \A y \in T : ~ (<<y, x>> \in R)
    BY <1>1, WFMin
<1>4. ASSUME NEW y \in T
      PROVE  x <= y
  <2>1. ~(y < x)
      BY <1>2, <1>3
  <2>2. x \in Nat /\ y \in Nat
      OBVIOUS
  <2> QED
      BY <2>1, <2>2
<1> QED
    BY <1>4

\* What is left of a sequence after its first n members.
LEMMA RestOf ==
    ASSUME NEW S, NEW s \in Seq(S), NEW n \in 0..Len(s)
    PROVE  LET young == SubSeq(s, n + 1, Len(s))
           IN  /\ young \in Seq(S) /\ Len(young) = Len(s) - n
               /\ \A i \in 1..(Len(s) - n) : young[i] = s[n + i]
<1> DEFINE young == SubSeq(s, n + 1, Len(s))
<1>1. Len(s) \in Nat /\ DOMAIN s = 1..Len(s) /\ \A i \in 1..Len(s) : s[i] \in S
    BY ElementOfSeq, LenProperties
<1>2. n + 1 \in 1..(Len(s) + 1) /\ Len(s) \in n..Len(s) /\ n \in Nat /\ n <= Len(s)
    BY <1>1
<1>3. /\ young \in Seq(S)
      /\ Len(young) = IF n + 1 <= Len(s) THEN Len(s) - (n + 1) + 1 ELSE 0
      /\ \A i \in 1..(Len(s) - (n + 1) + 1) : young[i] = s[(n + 1) + i - 1]
    BY <1>1, <1>2, SubSeqProperties
<1> HIDE DEF young
<1>4. Len(young) = Len(s) - n
  <2>1. CASE n + 1 <= Len(s)
    <3>1. Len(young) = Len(s) - (n + 1) + 1
        BY ONLY <1>3, <2>1
    <3> QED
        BY ONLY <1>1, <1>2, <3>1
  <2>2. CASE ~(n + 1 <= Len(s))
    <3>1. Len(young) = 0
        BY ONLY <1>3, <2>2
    <3>2. Len(s) \in Nat /\ n \in Nat /\ n <= Len(s)
        BY ONLY <1>1, <1>2
    <3>3. n = Len(s)
        BY ONLY <2>2, <3>2
    <3> QED
        BY ONLY <3>1, <3>2, <3>3
  <2> QED
      BY ONLY <2>1, <2>2
<1>5. ASSUME NEW i \in 1..(Len(s) - n)
      PROVE  young[i] = s[n + i]
  <2>1. i \in 1..(Len(s) - (n + 1) + 1) /\ (n + 1) + i - 1 = n + i
      BY <1>1, <1>2
  <2>2. young[i] = s[(n + 1) + i - 1]
      BY <1>3, <2>1
  <2> QED
      BY <2>1, <2>2
<1> QED
    BY <1>3, <1>4, <1>5

\* What is left of a list after its first n names.
LEMMA CutHas ==
    ASSUME NEW S, NEW s \in Seq(S), NEW n \in 0..Len(s), Distinct(s), VideoLast(s)
    PROVE  LET young == SubSeq(s, n + 1, Len(s))
           IN  /\ young \in Seq(S) /\ Distinct(young) /\ VideoLast(young)
               /\ Len(young) = Len(s) - n
               /\ \A e : Has(young, e) <=> Has(s, e) /\ ~\E i \in 1..n : s[i] = e
<1> DEFINE young == SubSeq(s, n + 1, Len(s))
<1>1. Len(s) \in Nat /\ DOMAIN s = 1..Len(s) /\ \A i \in 1..Len(s) : s[i] \in S
    BY ElementOfSeq, LenProperties
<1>2. /\ young \in Seq(S) /\ Len(young) = Len(s) - n
      /\ \A i \in 1..(Len(s) - n) : young[i] = s[n + i]
    BY RestOf
<1> HIDE DEF young
<1>3. DOMAIN young = 1..(Len(s) - n)
    BY <1>2, LenProperties
<1>4. ASSUME NEW i \in DOMAIN young, NEW j \in DOMAIN young, young[i] = young[j]
      PROVE  i = j
  <2>1. i \in 1..(Len(s) - n) /\ j \in 1..(Len(s) - n)
      BY <1>3
  <2>2. s[n + i] = s[n + j]
      BY ONLY <1>2, <1>4, <2>1
  <2>3. n + i \in DOMAIN s /\ n + j \in DOMAIN s
      BY <1>1, <2>1
  <2>4. n + i = n + j
      BY ONLY <2>2, <2>3, Distinct(s) DEF Distinct
  <2> QED
      BY <1>1, <2>1, <2>4
<1>5. ASSUME NEW i \in DOMAIN young, young[i] = "video"
      PROVE  i = Len(young)
  <2>1. i \in 1..(Len(s) - n) /\ n + i \in DOMAIN s /\ s[n + i] = "video"
      BY <1>1, <1>2, <1>3, <1>5
  <2>2. n + i = Len(s)
      BY ONLY <2>1, VideoLast(s) DEF VideoLast
  <2> QED
      BY <1>1, <1>2, <2>1, <2>2
<1>6. ASSUME NEW e, Has(s, e), ~\E i \in 1..n : s[i] = e
      PROVE  Has(young, e)
  <2>1. PICK i \in 1..Len(s) : s[i] = e
      BY <1>1, <1>6 DEF Has
  <2>2. i > n
      BY <1>1, <1>6, <2>1
  <2>3. i - n \in 1..(Len(s) - n) /\ n + (i - n) = i
      BY <1>1, <2>1, <2>2
  <2>4. young[i - n] = e
      BY <1>2, <2>1, <2>3
  <2> QED
      BY <1>3, <2>3, <2>4 DEF Has
<1>7. ASSUME NEW e, Has(young, e)
      PROVE  Has(s, e) /\ ~\E i \in 1..n : s[i] = e
  <2>1. PICK j \in 1..(Len(s) - n) : s[n + j] = e
      BY <1>2, <1>3, <1>7 DEF Has
  <2>2. n + j \in DOMAIN s
      BY <1>1, <2>1
  <2>3. ASSUME NEW i \in 1..n, s[i] = e
        PROVE  FALSE
    <3>1. i \in DOMAIN s
        BY <1>1
    <3>2. i = n + j
        BY ONLY <2>1, <2>2, <2>3, <3>1, Distinct(s) DEF Distinct
    <3> QED
        BY <1>1, <2>1, <3>2
  <2> QED
      BY <2>1, <2>2, <2>3 DEF Has
<1> QED
    BY <1>2, <1>4, <1>5, <1>6, <1>7 DEF young, Distinct, VideoLast

\* A list with one more name.
LEMMA AppendHas ==
    ASSUME NEW S, NEW s \in Seq(S), NEW x \in S
    PROVE  /\ Append(s, x) \in Seq(S)
           /\ DOMAIN Append(s, x) = 1..(Len(s) + 1) /\ Len(Append(s, x)) = Len(s) + 1
           /\ Append(s, x)[Len(s) + 1] = x
           /\ DOMAIN s = 1..Len(s) /\ Len(s) \in Nat
           /\ \A i \in 1..Len(s) : Append(s, x)[i] = s[i]
           /\ \A e : Has(Append(s, x), e) <=> Has(s, e) \/ e = x
           /\ Distinct(s) /\ ~Has(s, x) => Distinct(Append(s, x))
<1>1. /\ Len(s) \in Nat /\ Append(s, x) \in Seq(S)
      /\ Len(Append(s, x)) = Len(s) + 1 /\ Append(s, x)[Len(s) + 1] = x
      /\ \A i \in 1..Len(s) : Append(s, x)[i] = s[i]
      /\ DOMAIN s = 1..Len(s) /\ DOMAIN Append(s, x) = 1..(Len(s) + 1)
    BY AppendProperties, LenProperties
<1>2. Distinct(s) /\ ~Has(s, x) => Distinct(Append(s, x))
    BY <1>1 DEF Distinct, Has
<1>3. \A e : Has(Append(s, x), e) <=> Has(s, e) \/ e = x
  <2>1. ASSUME NEW e, Has(s, e)
        PROVE  Has(Append(s, x), e)
      BY <1>1, <2>1 DEF Has
  <2>2. Has(Append(s, x), x)
    <3>1. Len(s) + 1 \in DOMAIN Append(s, x)
        BY <1>1
    <3> QED
        BY <1>1, <3>1 DEF Has
  <2>3. ASSUME NEW e, Has(Append(s, x), e), e # x
        PROVE  Has(s, e)
      BY <1>1, <2>3 DEF Has
  <2> QED
      BY <2>1, <2>2, <2>3
<1> QED
    BY <1>1, <1>2, <1>3

\* What is behind the head of a list.
LEMMA TailHas ==
    ASSUME NEW S, NEW s \in Seq(S), s # <<>>
    PROVE  /\ Tail(s) \in Seq(S) /\ Head(s) \in S /\ Has(s, Head(s))
           /\ Len(s) \in Nat \ {0} /\ DOMAIN s = 1..Len(s) /\ Head(s) = s[1]
           /\ DOMAIN Tail(s) = 1..(Len(s) - 1)
           /\ \A i \in 1..(Len(s) - 1) : Tail(s)[i] = s[i + 1]
           /\ \A e : Has(Tail(s), e) => Has(s, e)
           /\ \A e : Has(s, e) => e = Head(s) \/ Has(Tail(s), e)
<1>1. /\ Len(s) \in Nat \ {0} /\ Head(s) = s[1] /\ Head(s) \in S
      /\ Tail(s) \in Seq(S) /\ Len(Tail(s)) = Len(s) - 1
      /\ \A i \in 1..Len(Tail(s)) : Tail(s)[i] = s[i + 1]
      /\ DOMAIN s = 1..Len(s) /\ DOMAIN Tail(s) = 1..(Len(s) - 1)
    BY HeadTailProperties, LenProperties, EmptySeq
<1>2. Has(s, Head(s))
    BY <1>1 DEF Has
<1>3. ASSUME NEW e, Has(Tail(s), e)
      PROVE  Has(s, e)
  <2>1. PICK i \in 1..(Len(s) - 1) : s[i + 1] = e
      BY <1>1, <1>3 DEF Has
  <2>2. i + 1 \in DOMAIN s
      BY <1>1
  <2> QED
      BY <2>1, <2>2 DEF Has
<1>4. ASSUME NEW e, Has(s, e), e # Head(s)
      PROVE  Has(Tail(s), e)
  <2>1. PICK i \in 1..Len(s) : s[i] = e
      BY <1>1, <1>4 DEF Has
  <2>2. i - 1 \in 1..(Len(s) - 1) /\ (i - 1) + 1 = i
      BY <1>1, <1>4, <2>1
  <2> QED
      BY <1>1, <2>1, <2>2 DEF Has
<1> QED
    BY <1>1, <1>2, <1>3, <1>4

\* A list without one of its names.
LEMMA WithoutHas ==
    ASSUME NEW S, NEW s \in Seq(S), NEW x, Distinct(s), VideoLast(s)
    PROVE  /\ Without(s, x) \in Seq(S) /\ Distinct(Without(s, x)) /\ VideoLast(Without(s, x))
           /\ \A e : Has(Without(s, x), e) <=> Has(s, e) /\ e # x
<1>1. CASE ~Has(s, x)
  <2>1. Without(s, x) = s
      BY <1>1 DEF Without, Has
  <2> QED
      BY <1>1, <2>1
<1>2. CASE Has(s, x)
  <2> DEFINE k == CHOOSE i \in DOMAIN s : s[i] = x
             old == SubSeq(s, 1, k - 1)
             young == SubSeq(s, k + 1, Len(s))
  <2>1. Len(s) \in Nat /\ DOMAIN s = 1..Len(s) /\ k \in 1..Len(s) /\ s[k] = x
      BY <1>2, LenProperties DEF Has
  <2>2. Without(s, x) = old \o young
      BY <1>2 DEF Without, Has
  <2> HIDE DEF k
  <2>3. old \in Seq(S) /\ Len(old) = k - 1 /\ \A i \in 1..(k - 1) : old[i] = s[i]
      BY <2>1, SubSeqProperties
  <2>4. /\ young \in Seq(S) /\ Len(young) = Len(s) - k
        /\ \A i \in 1..(Len(s) - k) : young[i] = s[k + i]
    <3>1. k \in 0..Len(s)
        BY <2>1
    <3> QED
        BY <3>1, RestOf
  <2> HIDE DEF old, young
  <2> DEFINE both == old \o young
  <2>5. /\ both \in Seq(S) /\ Len(both) = Len(s) - 1 /\ DOMAIN both = 1..(Len(s) - 1)
        /\ \A i \in 1..(Len(s) - 1) : both[i] = IF i < k THEN s[i] ELSE s[i + 1]
    <3>1. /\ both \in Seq(S) /\ Len(both) = Len(old) + Len(young)
          /\ \A i \in 1..(Len(old) + Len(young)) :
                both[i] = IF i <= Len(old) THEN old[i] ELSE young[i - Len(old)]
        BY <2>3, <2>4, ConcatProperties
    <3> HIDE DEF both
    <3>2. ASSUME NEW i \in 1..(Len(s) - 1)
          PROVE  both[i] = IF i < k THEN s[i] ELSE s[i + 1]
      <4>1. CASE i < k
        <5>1. i \in 1..(k - 1) /\ i <= Len(old) /\ i \in 1..(Len(old) + Len(young))
            BY <2>1, <2>3, <2>4, <4>1
        <5>2. both[i] = old[i] /\ old[i] = s[i]
            BY <2>3, <3>1, <5>1
        <5> QED
            BY <4>1, <5>2
      <4>2. CASE i >= k
        <5>1. /\ i - (k - 1) \in 1..(Len(s) - k)
              /\ k + (i - (k - 1)) = i + 1
            BY <2>1, <4>2
        <5>2. both[i] = young[i - (k - 1)]
            BY <2>1, <2>3, <2>4, <3>1, <4>2
        <5>3. young[i - (k - 1)] = s[k + (i - (k - 1))]
            BY ONLY <2>4, <5>1
        <5>4. both[i] = s[i + 1]
            BY ONLY <5>1, <5>2, <5>3
        <5>5. ~(i < k)
            BY <2>1, <4>2
        <5> QED
            BY ONLY <5>4, <5>5
      <4> QED
          BY <2>1, <4>1, <4>2
    <3>3. Len(both) = Len(s) - 1 /\ DOMAIN both = 1..(Len(s) - 1)
        BY <2>1, <2>3, <2>4, <3>1, LenProperties
    <3> QED
        BY <3>1, <3>2, <3>3
  <2> HIDE DEF both
  <2>6. Distinct(both)
    <3> SUFFICES ASSUME NEW i \in 1..Len(both), NEW j \in 1..Len(both),
                        both[i] = both[j]
                 PROVE  i = j
        BY <2>5 DEF Distinct
    <3> DEFINE a == IF i < k THEN i ELSE i + 1
               b == IF j < k THEN j ELSE j + 1
    <3>1. both[i] = s[a] /\ both[j] = s[b]
        BY <2>5
    <3>2. a \in DOMAIN s /\ b \in DOMAIN s /\ (a = b => i = j)
        BY <2>1, <2>5
    <3> HIDE DEF a, b
    <3>3. a = b
        BY ONLY <3>1, <3>2, both[i] = both[j], Distinct(s) DEF Distinct
    <3> QED
        BY <3>2, <3>3
  <2>7. VideoLast(both)
    <3> SUFFICES ASSUME NEW i \in 1..(Len(s) - 1), both[i] = "video"
                 PROVE  i = Len(s) - 1
        BY <2>5 DEF VideoLast
    <3> DEFINE a == IF i < k THEN i ELSE i + 1
    <3>1. s[a] = "video" /\ a \in DOMAIN s
        BY <2>1, <2>5
    <3>2. a = Len(s) => i = Len(s) - 1
      <4>1. Len(s) \in Nat /\ i \in Nat /\ i < Len(s) /\ (a = i \/ a = i + 1)
          BY <2>1
      <4> HIDE DEF a
      <4>2. CASE a = i
          BY ONLY <4>1, <4>2
      <4>3. CASE a = i + 1
        <5>1. i + 1 = Len(s) => i = Len(s) - 1
            BY ONLY <4>1
        <5> QED
            BY ONLY <4>3, <5>1
      <4> QED
          BY ONLY <4>1, <4>2, <4>3
    <3> HIDE DEF a
    <3>3. a = Len(s)
        BY ONLY <3>1, VideoLast(s) DEF VideoLast
    <3> QED
        BY <3>2, <3>3
  <2>8. ASSUME NEW e, Has(both, e)
        PROVE  Has(s, e) /\ e # x
      BY <2>1, <2>5, <2>8 DEF Has, Distinct
  <2>9. ASSUME NEW e, Has(s, e), e # x
        PROVE  Has(both, e)
    <3>1. PICK i \in 1..Len(s) : s[i] = e
        BY <2>1, <2>9 DEF Has
    <3>2. CASE i < k
        BY <2>1, <2>5, <3>1, <3>2 DEF Has
    <3>3. CASE i > k
      <4>1. i - 1 \in 1..(Len(s) - 1) /\ both[i - 1] = s[i]
          BY <2>1, <2>5, <3>1, <3>3
      <4> QED
          BY <2>5, <3>1, <4>1 DEF Has
    <3> QED
        BY <2>1, <2>9, <3>1, <3>2, <3>3
  <2> QED
      BY <2>2, <2>5, <2>6, <2>7, <2>8, <2>9 DEF both
<1> QED
    BY <1>1, <1>2

-----------------------------------------------------------------------------
(***************************************************************************)
(* The bus: what a publisher can be doing, and what one delivery does.     *)
(***************************************************************************)

LEMMA PublisherIs ==
    ASSUME NEW x \in PublisherState
    PROVE  /\ x.at \in {"idle", "waiting", "blocked"}
           /\ x.at = "idle" <=> x = Idle
           /\ x.at = "waiting" => x.event \in Events /\ x = Waiting(x.event)
           /\ x.at = "blocked" => x.event \in Events /\ x.rest \in Seq(Subscribers)
BY DEF PublisherState, Idle, Waiting

LEMMA BlockedIs ==
    ASSUME NEW e \in Events, NEW rest \in Seq(Subscribers)
    PROVE  /\ Blocked(e, rest) \in PublisherState /\ Blocked(e, rest).at = "blocked"
           /\ Blocked(e, rest).event = e /\ Blocked(e, rest).rest = rest
           /\ Blocked(e, rest) # Idle
BY DEF PublisherState, Blocked, Waiting, Idle

LEMMA WaitingIs ==
    ASSUME NEW e \in Events
    PROVE  /\ Waiting(e) \in PublisherState /\ Waiting(e).at = "waiting"
           /\ Waiting(e).event = e /\ Waiting(e) # Idle
           /\ Idle \in PublisherState /\ Idle.at = "idle"
BY DEF PublisherState, Blocked, Waiting, Idle

\* Reach is the number of queues before the first full one.
LEMMA ReachStops ==
    ASSUME NEW list \in Seq(Subscribers)
    PROVE  /\ Reach(list) \in 0..Len(list)
           /\ \A i \in 1..Reach(list) : ~Full(list[i])
           /\ Reach(list) < Len(list) => Full(list[Reach(list) + 1])
<1> DEFINE Good(n) == /\ \A i \in 1..n : ~Full(list[i])
                      /\ n < Len(list) => Full(list[n + 1])
           T == {m \in 1..Len(list) : Full(list[m])}
<1>1. Len(list) \in Nat
    BY LenProperties
<1>2. \E n \in 0..Len(list) : Good(n)
  <2>1. CASE T = {}
      BY <1>1, <2>1
  <2>2. CASE T # {}
    <3>1. PICK m \in T : \A k \in T : m <= k
      <4>1. T \subseteq Nat
          BY <1>1
      <4> HIDE DEF T
      <4> QED
          BY <2>2, <4>1, LeastOf
    <3>2. m - 1 \in 0..Len(list) /\ (m - 1) + 1 = m /\ Full(list[m])
        BY <1>1, <3>1
    <3>3. ASSUME NEW i \in 1..(m - 1)
          PROVE  ~Full(list[i])
        BY <1>1, <3>1, <3>2
    <3>4. Good(m - 1)
        BY <3>2, <3>3
    <3> QED
        BY <3>2, <3>4
  <2> QED
      BY <2>1, <2>2
<1>3. Reach(list) = CHOOSE n \in 0..Len(list) : Good(n)
    BY DEF Reach
<1> HIDE DEF Good
<1>4. Reach(list) \in 0..Len(list) /\ Good(Reach(list))
    BY <1>2, <1>3
<1> QED
    BY <1>4 DEF Good

\* What a delivery of e to the queues of a list by p does: Told are the subscribers
\* whose queue it reaches.
Delivered(p, e, list, Told) ==
    /\ queue' = [s \in Subscribers |-> IF s \in Told THEN Append(queue[s], e) ELSE queue[s]]
    /\ \A s \in Told : Has(list, s)
    /\ \A q \in Publishers \ {p} : publishing'[q] = publishing[q]
    /\ publishing' \in [Publishers -> PublisherState]
    /\ \/ /\ publishing'[p] = Idle
          /\ \A s \in Subscribers : Has(list, s) => s \in Told
       \/ /\ publishing'[p].at = "blocked" /\ publishing'[p].event = e
          /\ Distinct(publishing'[p].rest) /\ VideoLast(publishing'[p].rest)
          /\ \A s \in Subscribers : Has(publishing'[p].rest, s) <=> Has(list, s) /\ s \notin Told
          /\ \E s \in Subscribers : Has(publishing'[p].rest, s) /\ Full(s)
          /\ "video" \notin Told

\* Deliver tells the workers at the head of the list, and leaves the others for later.
LEMMA DeliverTells ==
    ASSUME BusTypeOK, NEW p \in Publishers, NEW e \in Events,
           NEW list \in Seq(Subscribers), Distinct(list), VideoLast(list), Deliver(p, e, list)
    PROVE  \E Told \in SUBSET Subscribers : Delivered(p, e, list, Told)
<1> DEFINE n == Reach(list)
           rest == SubSeq(list, n + 1, Len(list))
           Told == {s \in Subscribers : \E i \in 1..n : list[i] = s}
<1>1. n \in 0..Len(list) /\ (n < Len(list) => Full(list[n + 1]))
    BY ReachStops
<1>2. /\ queue' = [s \in Subscribers |-> IF \E i \in 1..n : list[i] = s
                                         THEN Append(queue[s], e) ELSE queue[s]]
      /\ publishing' = [publishing EXCEPT ![p] = IF n = Len(list) THEN Idle
                                                 ELSE Blocked(e, rest)]
    BY DEF Deliver
<1> HIDE DEF n
<1>3. /\ Len(list) \in Nat /\ DOMAIN list = 1..Len(list)
      /\ \A i \in 1..Len(list) : list[i] \in Subscribers
    BY LenProperties, ElementOfSeq
<1>4. /\ rest \in Seq(Subscribers) /\ Distinct(rest) /\ VideoLast(rest)
      /\ \A s : Has(rest, s) <=> Has(list, s) /\ ~\E i \in 1..n : list[i] = s
    BY <1>1, CutHas
<1>5. \A s \in Told : Has(list, s)
    BY <1>1, <1>3 DEF Has
<1>6. queue' = [s \in Subscribers |-> IF s \in Told THEN Append(queue[s], e) ELSE queue[s]]
    BY <1>2
<1>7. \A s \in Subscribers : Has(rest, s) <=> Has(list, s) /\ s \notin Told
    BY <1>4
<1>8. n = Len(list) => \A s \in Subscribers : Has(list, s) => s \in Told
    BY <1>3 DEF Has
<1>9. ASSUME n # Len(list)
      PROVE  /\ \E s \in Subscribers : Has(rest, s) /\ Full(s)
             /\ "video" \notin Told
  <2>1. n \in Nat /\ n <= Len(list) /\ Len(list) \in Nat
      BY ONLY <1>1, <1>3
  <2>2. n < Len(list) /\ n \in Nat /\ n + 1 \in 1..Len(list)
      BY ONLY <1>9, <2>1
  <2>3. list[n + 1] \in Subscribers /\ Full(list[n + 1]) /\ Has(list, list[n + 1])
      BY <1>1, <1>3, <2>2 DEF Has
  <2>4. ASSUME NEW i \in 1..n
        PROVE  list[i] # list[n + 1] /\ list[i] # "video"
    <3>1. i \in 1..Len(list) /\ i # n + 1 /\ i # Len(list)
        BY <2>1, <2>2
    <3>2. i \in DOMAIN list /\ n + 1 \in DOMAIN list
        BY ONLY <1>3, <2>2, <3>1
    <3> QED
        BY ONLY <3>1, <3>2, Distinct(list), VideoLast(list) DEF Distinct, VideoLast
  <2>5. Has(rest, list[n + 1])
      BY <1>4, <2>3, <2>4
  <2> QED
      BY <2>3, <2>4, <2>5
<1> HIDE DEF rest, Told
<1>10. Told \in SUBSET Subscribers
    BY DEF Told
<1>11. /\ Idle \in PublisherState
       /\ Blocked(e, rest) \in PublisherState /\ Blocked(e, rest).at = "blocked"
       /\ Blocked(e, rest).event = e /\ Blocked(e, rest).rest = rest
    BY <1>4, BlockedIs, WaitingIs
<1>12. /\ publishing' \in [Publishers -> PublisherState]
       /\ \A q \in Publishers \ {p} : publishing'[q] = publishing[q]
       /\ publishing'[p] = IF n = Len(list) THEN Idle ELSE Blocked(e, rest)
    BY <1>2, <1>11 DEF BusTypeOK
<1>13. CASE n = Len(list)
    BY <1>5, <1>6, <1>8, <1>10, <1>12, <1>13 DEF Delivered
<1>14. CASE n # Len(list)
  <2>1. publishing'[p] = Blocked(e, rest)
      BY <1>12, <1>14
  <2>2. /\ publishing'[p].at = "blocked" /\ publishing'[p].event = e
        /\ publishing'[p].rest = rest
      BY <1>11, <2>1
  <2> QED
      BY <1>4, <1>5, <1>6, <1>7, <1>9, <1>10, <1>12, <1>14, <2>2 DEF Delivered
<1> QED
    BY <1>13, <1>14

-----------------------------------------------------------------------------
(***************************************************************************)
(* The invariant of the tasks and of the bus they share.                   *)
(***************************************************************************)

Labels == {"none", "check", "rendering", "scheduled", "asleep", "connecting", "awaiting",
           "starting", "first", "announcing", "sounding", "playing", "watching",
           "leaving", "left", "reading", "waiting", "needed", "done"}

TaskTypes ==
    /\ pc \in [Tasks -> Labels]
    /\ peer \in {"connecting", "connected", "lost"}
    /\ track \in 0..TrackRoom /\ joined \in BOOLEAN /\ clocks \in BOOLEAN /\ stopped \in BOOLEAN
    /\ participants \in Nat /\ unplayed \in {0, 1} /\ frames \in 0..MaxFrames
    /\ timer \in [{"absent", "maximum"} -> {"off", "armed", "fired"}]
    /\ waiters \in Seq(Publishers)
    /\ session \in {"running", "ended", "failed", "cancelled"}

\* Where a task is while it is subscribed.
Reads(s) == CASE s = "video" -> {"first", "announcing", "sounding", "playing"}
              [] s = "delayed" -> {"reading", "waiting"}
              [] OTHER -> {"reading"}

\* A step that has events to schedule still has its frame to publish.
FramesLeft == pc["loop"] = "scheduled" /\ ~stopped => frames < MaxFrames

\* ready is called once by each worklet that connects and by each of its workers.
Owes(t, label) == IF pc[t] = label THEN 1 ELSE 0
ReadyIsCounted ==
    pending = Owes("main", "connecting") + Owes("engine", "connecting")
                  + Owes("video", "starting") + Owes("lifecycle", "starting")

\* Before every worker is ready, nothing has arrived and nobody has begun to stop.
NothingBegun ==
    pending # 0 =>
        /\ ~stopped /\ session = "running"
        /\ pc["video"] \in {"none", "starting", "first"}
        /\ pc["delayed"] = "reading" /\ pc["stopper"] = "reading"
        /\ \A k \in {"absent", "maximum"} : timer[k] = "off"

NothingSent ==
    pending # 0 =>
        /\ \A s \in Subscribers : queue[s] = <<>>
        /\ \A p \in Publishers : publishing[p].at # "blocked"

\* The workers begin when the main task has connected, and it ends after the video worker.
MainPath ==
    /\ pc["main"] \in {"connecting", "awaiting", "done"}
    /\ pc["main"] = "connecting" => pc["video"] = "none" /\ pc["lifecycle"] = "none"
    /\ pc["main"] = "done" => pc["video"] = "done"
    /\ pc["timeout"] \in {"reading", "done"}

\* The timeout worklet leaves no timer armed, and a stream ends when all are done.
TimersStopped ==
    pc["timeout"] = "done" /\ session \in {"running", "ended"} =>
        \A k \in {"absent", "maximum"} : timer[k] # "armed"
AllDone == session = "ended" => \A t \in Worklets : pc[t] = "done"

TasksInv ==
    /\ TaskTypes /\ FramesLeft /\ ReadyIsCounted /\ NothingBegun /\ MainPath
    /\ TimersStopped /\ AllDone

\* Who is in the list of a type is there once and reads; the video worker, which
\* subscribes last, is the last of its lists.
ListsAgree ==
    \A t \in Types :
        /\ Distinct(listed[t]) /\ VideoLast(listed[t])
        /\ \A s \in Subscribers : Has(listed[t], s) => pc[s] \in Reads(s)
RestsAgree ==
    \A p \in Publishers :
        publishing[p].at = "blocked" =>
            Distinct(publishing[p].rest) /\ VideoLast(publishing[p].rest)

BusInv == BusTypeOK /\ NothingSent /\ ListsAgree /\ RestsAgree

SessionInv == TasksInv /\ BusInv

-----------------------------------------------------------------------------
\* The names of the tasks and of the types.
LEMMA Names ==
    /\ Subscribers = {"listener", "video", "delayed", "timeout", "stopper"}
    /\ Publishers = {"loop", "main", "video", "lifecycle", "delayed", "absent",
                     "maximum", "stopper"}
    /\ Types = {"frame", "scheduled", "playback", "started", "joined", "left", "shutdown"}
    /\ \A t \in Types : E(t) \in Events /\ E(t).type = t
    /\ \A e \in Events : e.type \in Types /\ e = E(e.type)
    /\ \A t, u \in Types : E(t) = E(u) => t = u
    /\ Capacity \in Nat \ {0} /\ MaxFrames \in Nat \ {0} /\ TrackRoom \in Nat \ {0}
BY SessionAssumption, BusAssumption
   DEF SessionSubscribers, SessionPublishers, SessionTypes, SessionEvents, E

LEMMA Readers ==
    /\ Reads("listener") = {"reading"} /\ Reads("timeout") = {"reading"}
    /\ Reads("stopper") = {"reading"} /\ Reads("delayed") = {"reading", "waiting"}
    /\ Reads("video") = {"first", "announcing", "sounding", "playing"}
BY DEF Reads

LEMMA TypesMakeTypeOK == TypeOK <=> BusTypeOK /\ TaskTypes
BY DEF TypeOK, TaskTypes, Labels

\* A task that is at a label runs in a stream that is running.
LEMMA AtIs ==
    ASSUME NEW t, NEW label, At(t, label)
    PROVE  pc[t] = label /\ session = "running" /\ (t \in Publishers => publishing[t] = Idle)
BY DEF At, Calm, Settled, Free

\* What arrives arrives when every worker is ready.
LEMMA NothingArrives ==
    ASSUME SessionInv, NEW s \in Subscribers, queue[s] # <<>>
    PROVE  pending = 0
BY DEF SessionInv, BusInv, NothingSent

-----------------------------------------------------------------------------
(***************************************************************************)
(* What each use of the bus does to the bus.                               *)
(***************************************************************************)

\* The workers that read still do.
StillReads == \A s \in Subscribers : pc[s] \in Reads(s) => pc'[s] \in Reads(s)

LEMMA ListsStay ==
    ASSUME ListsAgree, StillReads, listed' = listed
    PROVE  ListsAgree'
BY DEF ListsAgree, StillReads, Reads

\* The bus is not used.
LEMMA BusStays ==
    ASSUME BusInv, StillReads, UNCHANGED busVars
    PROVE  BusInv'
<1>1. ListsAgree'
    BY ListsStay DEF BusInv, busVars
<1>2. BusTypeOK'
    BY DEF BusInv, busVars, BusTypeOK
<1>3. NothingSent' /\ RestsAgree'
    BY DEF BusInv, busVars, NothingSent, RestsAgree
<1> QED
    BY <1>1, <1>2, <1>3 DEF BusInv

\* A worker says it is ready.
LEMMA ReadyKeeps ==
    ASSUME BusInv, StillReads, Ready, UNCHANGED <<listed, queue, publishing>>, pending' \in Nat
    PROVE  BusInv'
<1>1. ListsAgree'
    BY ListsStay DEF BusInv
<1>2. BusTypeOK'
    BY DEF BusInv, BusTypeOK
<1>3. NothingSent' /\ RestsAgree'
    BY DEF BusInv, NothingSent, RestsAgree, Ready, BusTypeOK
<1> QED
    BY <1>1, <1>2, <1>3 DEF BusInv

\* An event is delivered.
LEMMA DeliveredKeeps ==
    ASSUME BusInv, StillReads, UNCHANGED <<pending, listed>>, pending = 0,
           NEW p \in Publishers, NEW e \in Events, NEW list, NEW Told \in SUBSET Subscribers,
           Delivered(p, e, list, Told)
    PROVE  BusInv'
<1>1. ListsAgree'
    BY ListsStay DEF BusInv
<1>2. queue' \in [Subscribers -> Seq(Events)]
  <2>1. \A s \in Subscribers : queue[s] \in Seq(Events) /\ Append(queue[s], e) \in Seq(Events)
      BY AppendProperties DEF BusInv, BusTypeOK
  <2> QED
      BY <2>1 DEF Delivered
<1>3. BusTypeOK'
    BY <1>2 DEF BusInv, BusTypeOK, Delivered
<1>4. RestsAgree'
  <2> SUFFICES ASSUME NEW q \in Publishers, publishing'[q].at = "blocked"
               PROVE  Distinct(publishing'[q].rest) /\ VideoLast(publishing'[q].rest)
      BY DEF RestsAgree, Distinct, VideoLast
  <2>1. CASE q = p
    <3>1. publishing'[p] # Idle
        BY <2>1 DEF Idle
    <3> QED
        BY <2>1, <3>1 DEF Delivered
  <2>2. CASE q # p
      BY <2>2 DEF Delivered, BusInv, RestsAgree
  <2> QED
      BY <2>1, <2>2
<1>5. NothingSent'
    BY DEF NothingSent
<1> QED
    BY <1>1, <1>3, <1>4, <1>5 DEF BusInv

\* The two ways a publication begins.
Told(p, e, list) ==
    pending = 0 /\ \E names \in SUBSET Subscribers : Delivered(p, e, list, names)
Held(p, e) ==
    pending # 0 /\ queue' = queue /\ publishing' = [publishing EXCEPT ![p] = Waiting(e)]

LEMMA PublishTold ==
    ASSUME BusInv, NEW p \in Publishers, NEW t \in Types, Publish(p, E(t))
    PROVE  publishing[p] = Idle /\ (Told(p, E(t), listed[t]) \/ Held(p, E(t)))
<1>1. E(t) \in Events /\ E(t).type = t
    BY Names
<1>2. publishing[p] = Idle
    BY DEF Publish
<1>3. CASE AllReady /\ Deliver(p, E(t), listed[E(t).type])
  <2>1. /\ BusTypeOK /\ listed[t] \in Seq(Subscribers) /\ Distinct(listed[t])
        /\ VideoLast(listed[t]) /\ Deliver(p, E(t), listed[t]) /\ pending = 0
      BY <1>1, <1>3 DEF BusInv, BusTypeOK, ListsAgree, AllReady
  <2>2. PICK names \in SUBSET Subscribers : Delivered(p, E(t), listed[t], names)
      BY <1>1, <2>1, DeliverTells
  <2> QED
      BY <1>2, <2>1, <2>2 DEF Told
<1>4. CASE ~AllReady /\ publishing' = [publishing EXCEPT ![p] = Waiting(E(t))] /\ UNCHANGED queue
    BY <1>2, <1>4 DEF Held, AllReady
<1> QED
    BY <1>3, <1>4 DEF Publish

LEMMA PublishKeeps ==
    ASSUME BusInv, StillReads, UNCHANGED <<pending, listed>>,
           NEW p \in Publishers, NEW t \in Types, Publish(p, E(t))
    PROVE  BusInv' /\ publishing[p] = Idle /\ (Told(p, E(t), listed[t]) \/ Held(p, E(t)))
<1>1. E(t) \in Events
    BY Names
<1>2. publishing[p] = Idle /\ (Told(p, E(t), listed[t]) \/ Held(p, E(t)))
    BY PublishTold
<1>3. CASE Told(p, E(t), listed[t])
  <2>1. PICK names \in SUBSET Subscribers : Delivered(p, E(t), listed[t], names)
      BY <1>3 DEF Told
  <2> QED
      BY <1>1, <1>2, <1>3, <2>1, DeliveredKeeps DEF Told
<1>4. CASE Held(p, E(t))
  <2>1. ListsAgree'
      BY ListsStay DEF BusInv
  <2>2. Waiting(E(t)) \in PublisherState /\ Waiting(E(t)).at = "waiting"
      BY <1>1, WaitingIs
  <2>3. BusTypeOK' /\ \A q \in Publishers : publishing'[q] =
            IF q = p THEN Waiting(E(t)) ELSE publishing[q]
      BY <1>4, <2>2 DEF BusInv, BusTypeOK, Held
  <2>4. NothingSent' /\ RestsAgree'
      BY <1>4, <2>2, <2>3 DEF BusInv, NothingSent, RestsAgree, Held
  <2> QED
      BY <1>2, <1>4, <2>1, <2>3, <2>4 DEF BusInv
<1> QED
    BY <1>2, <1>3, <1>4

\* The list a publication that goes on is delivered to.
ListOf(p) ==
    IF publishing[p].at = "waiting" THEN listed[publishing[p].event.type] ELSE publishing[p].rest

LEMMA GoesOnKeeps ==
    ASSUME BusInv, StillReads, NEW p \in Publishers, Released(p) \/ Resume(p)
    PROVE  /\ BusInv' /\ UNCHANGED <<pending, listed>>
           /\ publishing[p].at \in {"waiting", "blocked"} /\ publishing[p].event \in Events
           /\ Told(p, publishing[p].event, ListOf(p))
<1> DEFINE e == publishing[p].event
<1>1. UNCHANGED <<pending, listed>> /\ publishing[p].at \in {"waiting", "blocked"}
    BY DEF Released, Resume
<1>2. e \in Events /\ (publishing[p].at = "blocked" => publishing[p].rest \in Seq(Subscribers))
    BY <1>1, PublisherIs DEF BusInv, BusTypeOK
<1>3. pending = 0
    BY DEF Released, Resume, AllReady, BusInv, NothingSent
<1>4. /\ ListOf(p) \in Seq(Subscribers) /\ Distinct(ListOf(p)) /\ VideoLast(ListOf(p))
      /\ Deliver(p, e, ListOf(p))
  <2>1. CASE Released(p)
    <3>1. /\ publishing[p].at = "waiting" /\ e.type \in Types
          /\ Deliver(p, e, listed[e.type])
        BY <1>2, <2>1, BusAssumption DEF Released
    <3> QED
        BY <3>1 DEF ListOf, BusInv, BusTypeOK, ListsAgree
  <2>2. CASE Resume(p)
    <3>1. publishing[p].at = "blocked" /\ Deliver(p, e, publishing[p].rest)
        BY <2>2 DEF Resume
    <3> QED
        BY <1>2, <3>1 DEF ListOf, BusInv, RestsAgree
  <2> QED
      BY <2>1, <2>2
<1>5. PICK names \in SUBSET Subscribers : Delivered(p, e, ListOf(p), names)
    BY <1>2, <1>4, DeliverTells DEF BusInv
<1>6. BusInv'
    BY <1>1, <1>2, <1>3, <1>5, DeliveredKeeps
<1> QED
    BY <1>1, <1>2, <1>3, <1>5, <1>6 DEF Told

\* A worker reads the event at the head of its queue.
LEMMA GetKeeps ==
    ASSUME BusInv, StillReads, UNCHANGED <<pending, listed, publishing>>,
           NEW s \in Subscribers, Arrived(s), Get(s)
    PROVE  BusInv' /\ pending = 0
<1>1. ListsAgree'
    BY ListsStay DEF BusInv
<1>2. queue[s] \in Seq(Events) /\ queue[s] # <<>> /\ Tail(queue[s]) \in Seq(Events)
    BY HeadTailProperties DEF BusInv, BusTypeOK, Arrived
<1>3. pending = 0
    BY <1>2 DEF BusInv, NothingSent
<1>4. BusTypeOK'
    BY <1>2 DEF BusInv, BusTypeOK, Get
<1>5. NothingSent' /\ RestsAgree'
    BY <1>3 DEF BusInv, NothingSent, RestsAgree
<1> QED
    BY <1>1, <1>3, <1>4, <1>5 DEF BusInv

\* A worker leaves.
LEMMA UnsubscribeKeeps ==
    ASSUME BusInv, UNCHANGED <<pending, publishing>>,
           NEW s \in Subscribers, Unsubscribe(s),
           \A r \in Subscribers \ {s} : pc[r] \in Reads(r) => pc'[r] \in Reads(r)
    PROVE  /\ BusInv'
           /\ \A t \in Types : \A r : Has(listed'[t], r) <=> Has(listed[t], r) /\ r # s
<1>1. ASSUME NEW t \in Types
      PROVE  /\ listed'[t] \in Seq(Subscribers) /\ Distinct(listed'[t]) /\ VideoLast(listed'[t])
             /\ \A r : Has(listed'[t], r) <=> Has(listed[t], r) /\ r # s
  <2>1. listed[t] \in Seq(Subscribers) /\ Distinct(listed[t]) /\ VideoLast(listed[t])
      BY DEF BusInv, BusTypeOK, ListsAgree
  <2>2. listed'[t] = Without(listed[t], s)
      BY DEF Unsubscribe
  <2> QED
      BY <2>1, <2>2, WithoutHas
<1>2. ListsAgree'
  <2> SUFFICES ASSUME NEW t \in Types
               PROVE  /\ Distinct(listed'[t]) /\ VideoLast(listed'[t])
                      /\ \A r \in Subscribers : Has(listed'[t], r) => pc'[r] \in Reads(r)
      BY DEF ListsAgree, Distinct, VideoLast, Has, Reads
  <2> QED
      BY <1>1 DEF BusInv, ListsAgree
<1>3. BusTypeOK'
  <2>1. listed' \in [Types -> Seq(Subscribers)]
      BY <1>1 DEF Unsubscribe
  <2>2. queue' \in [Subscribers -> Seq(Events)]
      BY EmptySeq DEF Unsubscribe, BusInv, BusTypeOK
  <2> QED
      BY <2>1, <2>2 DEF BusInv, BusTypeOK
<1>4. NothingSent' /\ RestsAgree'
    BY DEF BusInv, BusTypeOK, NothingSent, RestsAgree, Unsubscribe
<1> QED
    BY <1>1, <1>2, <1>3, <1>4 DEF BusInv

\* The video worker subscribes, the last in its lists, and says it is ready.
LEMMA SubscribeKeeps ==
    ASSUME BusInv, UNCHANGED <<queue, publishing>>, pending' \in Nat, Ready,
           Subscribe("video", VideoTypes), pc["video"] = "starting",
           StillReads, pc'["video"] = "first"
    PROVE  /\ BusInv'
           /\ \A t \in Types : \A r : Has(listed'[t], r) <=>
                  Has(listed[t], r) \/ (r = "video" /\ t \in {"frame", "shutdown"})
<1>1. /\ "video" \in Subscribers /\ VideoTypes = {"frame", "shutdown"}
      /\ "starting" \notin Reads("video") /\ "first" \in Reads("video")
    BY Names, Readers DEF VideoTypes
<1>2. ASSUME NEW t \in Types
      PROVE  /\ listed'[t] \in Seq(Subscribers) /\ Distinct(listed'[t]) /\ VideoLast(listed'[t])
             /\ \A r : Has(listed'[t], r) <=>
                    Has(listed[t], r) \/ (r = "video" /\ t \in {"frame", "shutdown"})
  <2>1. /\ listed[t] \in Seq(Subscribers) /\ Distinct(listed[t]) /\ VideoLast(listed[t])
        /\ ~Has(listed[t], "video")
      BY <1>1 DEF BusInv, BusTypeOK, ListsAgree
  <2>2. CASE t \in {"frame", "shutdown"}
    <3>1. listed'[t] = Append(listed[t], "video")
        BY <1>1, <2>2 DEF Subscribe
    <3>2. /\ DOMAIN listed[t] = 1..Len(listed[t]) /\ Len(listed[t]) \in Nat
          /\ DOMAIN listed'[t] = 1..(Len(listed[t]) + 1) /\ Len(listed'[t]) = Len(listed[t]) + 1
          /\ \A i \in 1..Len(listed[t]) : listed'[t][i] = listed[t][i]
          /\ listed'[t] \in Seq(Subscribers) /\ Distinct(listed'[t])
          /\ \A r : Has(listed'[t], r) <=> Has(listed[t], r) \/ r = "video"
        BY <1>1, <2>1, <3>1, AppendHas
    <3>3. VideoLast(listed'[t])
      <4> SUFFICES ASSUME NEW i \in 1..(Len(listed[t]) + 1), listed'[t][i] = "video"
                   PROVE  i = Len(listed[t]) + 1
          BY <3>2 DEF VideoLast
      <4>1. i \in 1..Len(listed[t]) => Has(listed[t], "video")
          BY <3>2 DEF Has
      <4> QED
          BY <2>1, <3>2, <4>1
    <3> QED
        BY <2>2, <3>2, <3>3
  <2>3. CASE t \notin {"frame", "shutdown"}
    <3>1. listed'[t] = listed[t]
        BY <1>1, <2>3 DEF Subscribe
    <3> QED
        BY <2>1, <2>3, <3>1
  <2> QED
      BY <2>2, <2>3
<1>3. ListsAgree'
  <2> SUFFICES ASSUME NEW t \in Types
               PROVE  /\ Distinct(listed'[t]) /\ VideoLast(listed'[t])
                      /\ \A r \in Subscribers : Has(listed'[t], r) => pc'[r] \in Reads(r)
      BY DEF ListsAgree, Distinct, VideoLast, Has, Reads
  <2> QED
      BY <1>1, <1>2 DEF BusInv, ListsAgree, StillReads
<1>4. BusTypeOK'
  <2>1. listed' \in [Types -> Seq(Subscribers)]
      BY <1>2 DEF Subscribe
  <2> QED
      BY <2>1 DEF BusInv, BusTypeOK
<1>5. NothingSent' /\ RestsAgree'
    BY DEF BusInv, NothingSent, RestsAgree, Ready, BusTypeOK
<1> QED
    BY <1>2, <1>3, <1>4, <1>5 DEF BusInv

\* A publication is cancelled.
LEMMA CancelKeeps ==
    ASSUME BusInv, StillReads, UNCHANGED <<pending, listed, queue>>, NEW p \in Publishers,
           publishing' = [publishing EXCEPT ![p] = Idle]
    PROVE  BusInv'
<1>1. ListsAgree'
    BY ListsStay DEF BusInv
<1>2. Idle \in PublisherState /\ Idle.at = "idle"
    BY DEF PublisherState, Idle
<1>3. BusTypeOK'
    BY <1>2 DEF BusInv, BusTypeOK
<1>4. NothingSent' /\ RestsAgree'
    BY <1>2 DEF BusInv, BusTypeOK, NothingSent, RestsAgree
<1> QED
    BY <1>1, <1>3, <1>4 DEF BusInv

\* The task group is cancelled.
LEMMA AbortKeeps ==
    ASSUME SessionInv, NEW how \in {"failed", "cancelled"}, Abort(how)
    PROVE  SessionInv'
<1> USE DEF SessionInv
<1>1. /\ pc' = [t \in Tasks |-> IF t = "stopper" THEN pc[t] ELSE "done"]
      /\ listed' = [t \in Types |-> <<>>] /\ queue' = [s \in Subscribers |-> <<>>]
      /\ publishing' = [p \in Publishers |-> Idle] /\ pending' = 0 /\ waiters' = <<>>
      /\ session' = how
    BY DEF Abort
<1>2. \A x : ~Has(<<>>, x) /\ Distinct(<<>>) /\ VideoLast(<<>>)
    BY EmptySeq DEF Has, Distinct, VideoLast
<1>3. ListsAgree'
  <2>1. \A t \in Types : listed'[t] = <<>>
      BY <1>1
  <2> SUFFICES ASSUME NEW t \in Types
               PROVE  /\ Distinct(listed'[t]) /\ VideoLast(listed'[t])
                      /\ \A r \in Subscribers : Has(listed'[t], r) => pc'[r] \in Reads(r)
      BY DEF ListsAgree, Distinct, VideoLast, Has, Reads
  <2> QED
      BY <1>2, <2>1
<1>4. BusTypeOK'
    BY <1>1, EmptySeq, Names DEF BusTypeOK, PublisherState
<1>5. NothingSent' /\ RestsAgree'
    BY <1>1 DEF NothingSent, RestsAgree, Idle
<1>6. \A t \in Tasks : pc'[t] \in Labels /\ (t # "stopper" => pc'[t] = "done")
    BY <1>1 DEF TasksInv, TaskTypes, Labels
<1>7. TaskTypes'
  <2>1. pc' \in [Tasks -> Labels]
      BY <1>1, <1>6
  <2>2. waiters' \in Seq(Publishers) /\ frames' \in 0..MaxFrames /\ timer' = timer
        /\ track' \in 0..TrackRoom
      BY <1>1, EmptySeq, Names DEF Abort
  <2> QED
      BY <1>1, <2>1, <2>2 DEF Abort, TasksInv, TaskTypes
<1>8. /\ FramesLeft' /\ ReadyIsCounted' /\ NothingBegun' /\ MainPath'
      /\ TimersStopped' /\ AllDone'
    BY <1>1, <1>6 DEF Tasks, FramesLeft, ReadyIsCounted, Owes, NothingBegun, MainPath,
                      TimersStopped, AllDone
<1> QED
    BY <1>3, <1>4, <1>5, <1>7, <1>8 DEF TasksInv, BusInv

\* Lists of no name and of one.
LEMMA NoName ==
    ASSUME NEW list, list = <<>>
    PROVE  list \in Seq(Subscribers) /\ Distinct(list) /\ VideoLast(list) /\ \A x : ~Has(list, x)
BY EmptySeq DEF Distinct, VideoLast, Has

LEMMA OneName ==
    ASSUME NEW s \in Subscribers, NEW list, list = <<s>>
    PROVE  /\ list \in Seq(Subscribers) /\ Distinct(list) /\ VideoLast(list)
           /\ \A x : Has(list, x) <=> x = s
<1>1. list \in Seq(Subscribers) /\ DOMAIN list = 1..1 /\ list[1] = s /\ Len(list) = 1
    OBVIOUS
<1>2. Distinct(list) /\ VideoLast(list)
    BY ONLY <1>1 DEF Distinct, VideoLast
<1>3. \A x : Has(list, x) <=> x = s
    BY ONLY <1>1 DEF Has
<1> QED
    BY <1>1, <1>2, <1>3

\* At first nobody is ready, and four workers have subscribed.
LEMMA SessionBegins == Init => SessionInv
<1> SUFFICES ASSUME Init
             PROVE  SessionInv
    OBVIOUS
<1>1. /\ listed["frame"] = <<>> /\ listed["scheduled"] = <<"delayed">>
      /\ listed["playback"] = <<>> /\ listed["started"] = <<"timeout">>
      /\ listed["joined"] = <<"timeout">> /\ listed["left"] = <<"timeout">>
      /\ listed["shutdown"] = <<"listener", "delayed", "timeout", "stopper">>
    BY Names DEF Init, EarlyLists
<1>2. /\ \A s \in Subscribers : queue[s] = <<>>
      /\ \A p \in Publishers : publishing[p] = Idle /\ Idle \in PublisherState
      /\ Idle.at = "idle" /\ pending = 2
    BY DEF Init, PublisherState, Idle
<1>3. /\ pc \in [Tasks -> Labels]
      /\ pc["loop"] = "check" /\ pc["main"] = "connecting" /\ pc["engine"] = "connecting"
      /\ pc["video"] = "none" /\ pc["lifecycle"] = "none" /\ pc["listener"] = "reading"
      /\ pc["delayed"] = "reading" /\ pc["timeout"] = "reading" /\ pc["stopper"] = "reading"
    BY DEF Init, Tasks, Labels
<1>4. TasksInv
  <2>1. /\ timer \in [{"absent", "maximum"} -> {"off", "armed", "fired"}]
        /\ \A k \in {"absent", "maximum"} : timer[k] = "off"
      BY DEF Init
  <2>2. TaskTypes
    <3>1. /\ waiters \in Seq(Publishers) /\ frames \in 0..MaxFrames
          /\ track \in 0..TrackRoom
        BY EmptySeq, Names DEF Init
    <3>2. /\ peer = "connecting" /\ joined = FALSE /\ clocks = FALSE /\ stopped = FALSE
          /\ participants = 0 /\ unplayed = 0 /\ session = "running"
        BY DEF Init
    <3> QED
        BY <1>3, <2>1, <3>1, <3>2 DEF TaskTypes
  <2>3. /\ FramesLeft /\ ReadyIsCounted /\ NothingBegun /\ MainPath /\ TimersStopped
        /\ AllDone
      BY <1>2, <1>3, <2>1 DEF Init, FramesLeft, ReadyIsCounted, Owes, NothingBegun, MainPath,
                              TimersStopped, AllDone
  <2> QED
      BY <2>2, <2>3 DEF TasksInv
<1>5. ASSUME NEW t \in Types
      PROVE  /\ listed[t] \in Seq(Subscribers) /\ Distinct(listed[t]) /\ VideoLast(listed[t])
             /\ \A s : Has(listed[t], s) => s \in {"listener", "delayed", "timeout", "stopper"}
  <2>1. CASE t \in {"frame", "playback"}
    <3>1. listed[t] = <<>>
        BY <1>1, <2>1
    <3> QED
        BY <3>1, NoName
  <2>2. CASE t = "scheduled"
    <3>1. listed[t] = <<"delayed">> /\ "delayed" \in Subscribers
        BY <1>1, <2>2, Names
    <3> QED
        BY ONLY <3>1, OneName
  <2>3. CASE t \in {"started", "joined", "left"}
    <3>1. listed[t] = <<"timeout">> /\ "timeout" \in Subscribers
        BY <1>1, <2>3, Names
    <3> QED
        BY ONLY <3>1, OneName
  <2>4. CASE t = "shutdown"
    <3> DEFINE four == <<"listener", "delayed", "timeout", "stopper">>
    <3>1. four \in Seq(Subscribers) /\ Len(four) = 4 /\ DOMAIN four = 1..4
        BY Names
    <3>2. /\ four[1] = "listener" /\ four[2] = "delayed" /\ four[3] = "timeout"
          /\ four[4] = "stopper"
        OBVIOUS
    <3>3. listed[t] = four
        BY <1>1, <2>4
    <3> HIDE DEF four
    <3>4. Distinct(four) /\ VideoLast(four)
        BY <3>1, <3>2 DEF Distinct, VideoLast
    <3>5. \A s : Has(four, s) => s \in {"listener", "delayed", "timeout", "stopper"}
        BY <3>1, <3>2 DEF Has
    <3> QED
        BY <3>1, <3>3, <3>4, <3>5
  <2> QED
      BY <2>1, <2>2, <2>3, <2>4, Names
<1>6. BusInv
  <2>1. listed \in [Types -> Seq(Subscribers)]
      BY <1>5 DEF Init, EarlyLists
  <2>2. BusTypeOK
      BY <1>2, <2>1, EmptySeq DEF Init, BusTypeOK
  <2>3. ListsAgree
      BY <1>3, <1>5, Readers DEF ListsAgree
  <2>4. NothingSent /\ RestsAgree
      BY <1>2 DEF NothingSent, RestsAgree
  <2> QED
      BY <2>2, <2>3, <2>4 DEF BusInv
<1> QED
    BY <1>4, <1>6 DEF SessionInv

-----------------------------------------------------------------------------
(***************************************************************************)
(* Every action keeps the invariant of the tasks and of the bus.           *)
(***************************************************************************)

\* A task moves on, where that is not a step that ends or begins something.
LEMMA PeerKeeps == SessionInv /\ (PeerConnects \/ PeerIsLost \/ PeerPlays) => SessionInv'
<1> SUFFICES ASSUME SessionInv, PeerConnects \/ PeerIsLost \/ PeerPlays
             PROVE  SessionInv'
    OBVIOUS
<1> USE DEF SessionInv
<1>1. /\ UNCHANGED <<busVars, joined, clocks, participants, timer, stopped, unplayed, frames,
                     waiters, session>>
      /\ peer' \in {"connected", "lost"} /\ track' \in 0..TrackRoom
      /\ \/ pc' = pc
         \/ pc["lifecycle"] = "watching" /\ pc' = [pc EXCEPT !["lifecycle"] = "leaving"]
    BY Names DEF PeerConnects, PeerIsLost, PeerPlays, Goto, TasksInv, TaskTypes
<1>2. StillReads
    BY <1>1, Names, Readers DEF StillReads, TasksInv, TaskTypes, Tasks
<1>3. BusInv'
    BY <1>1, <1>2, BusStays
<1>4. TasksInv'
    BY <1>1 DEF busVars, TasksInv, TaskTypes, Tasks, Labels, FramesLeft, ReadyIsCounted, Owes,
                NothingBegun, MainPath, TimersStopped, AllDone, Worklets
<1> QED
    BY <1>3, <1>4

\* A worklet publishes: the event is delivered, or it waits for the workers.
LEMMA PublishFromKeeps ==
    ASSUME SessionInv, StillReads, UNCHANGED <<pending, listed>>,
           NEW p \in Publishers, NEW t \in Types, PublishFrom(p, t)
    PROVE  /\ BusInv' /\ waiters' \in Seq(Publishers) /\ publishing[p] = Idle
           /\ \/ Told(p, E(t), listed[t]) /\ waiters' = waiters
              \/ Held(p, E(t)) /\ waiters' = Append(waiters, p)
<1>1. /\ Publish(p, E(t))
      /\ waiters' = IF pending = 0 THEN waiters ELSE Append(waiters, p)
    BY DEF PublishFrom, AllReady
<1>2. BusInv' /\ publishing[p] = Idle /\ (Told(p, E(t), listed[t]) \/ Held(p, E(t)))
    BY <1>1, PublishKeeps DEF SessionInv
<1>3. waiters' \in Seq(Publishers)
    BY <1>1, AppendProperties DEF SessionInv, TasksInv, TaskTypes
<1> QED
    BY <1>1, <1>2, <1>3 DEF Told, Held

\* The engine connects and is ready.
LEMMA EngineKeeps ==
    ASSUME SessionInv, EngineConnects
    PROVE  SessionInv'
<1>1. /\ Ready /\ UNCHANGED <<listed, queue, publishing>>
      /\ pc["engine"] = "connecting" /\ session = "running"
      /\ pc' = [pc EXCEPT !["engine"] = "done"]
      /\ UNCHANGED <<peer, track, joined, clocks, participants, timer, stopped, unplayed, frames,
                     waiters, session>>
    BY AtIs DEF EngineConnects, Goto
<1>2. StillReads
    BY <1>1, Names, Readers DEF StillReads, SessionInv, TasksInv, TaskTypes, Tasks
<1>3. BusInv' /\ pending' = pending - 1 /\ pending' \in Nat
  <2>1. pending' = pending - 1 /\ pending' \in Nat
      BY <1>1 DEF Ready, SessionInv, TasksInv, ReadyIsCounted, Owes
  <2> QED
      BY <1>1, <1>2, <2>1, ReadyKeeps DEF SessionInv
<1>4. TasksInv'
    BY <1>1, <1>3 DEF SessionInv, TasksInv, TaskTypes, Tasks, Labels, FramesLeft, ReadyIsCounted, Owes,
        NothingBegun, MainPath, TimersStopped, AllDone
<1> QED
    BY <1>3, <1>4 DEF SessionInv

\* A publication goes on.
LEMMA ContinueKeeps ==
    ASSUME SessionInv, NEW p \in Publishers, Continue(p)
    PROVE  SessionInv'
<1>1. /\ Released(p) \/ Resume(p)
      /\ waiters' = waiters \/ (waiters # <<>> /\ waiters' = Tail(waiters))
      /\ session = "running"
      /\ UNCHANGED <<pc, peer, track, joined, clocks, participants, timer, stopped, unplayed, frames,
                     session>>
    BY DEF Continue
<1>2. StillReads
    BY <1>1, Names, Readers DEF StillReads, SessionInv, TasksInv, TaskTypes, Tasks
<1>3. BusInv' /\ waiters' \in Seq(Publishers) /\ pending' = pending
  <2>1. BusInv' /\ pending' = pending
      BY <1>1, <1>2, GoesOnKeeps DEF SessionInv
  <2>2. waiters' \in Seq(Publishers)
      BY <1>1, HeadTailProperties DEF SessionInv, TasksInv, TaskTypes
  <2> QED
      BY <2>1, <2>2
<1>4. TasksInv'
    BY <1>1, <1>3 DEF SessionInv, TasksInv, TaskTypes, Tasks, Labels, FramesLeft, ReadyIsCounted, Owes,
        NothingBegun, MainPath, TimersStopped, AllDone
<1> QED
    BY <1>3, <1>4 DEF SessionInv

\* The loop schedules the playback events of its next steps.
LEMMA SchedulesKeeps ==
    ASSUME SessionInv, LoopSchedules
    PROVE  SessionInv'
<1>1. /\ PublishFrom("loop", "scheduled") /\ "loop" \in Publishers /\ "scheduled" \in Types
      /\ pc["loop"] = "check" /\ session = "running" /\ Active
      /\ pc' = [pc EXCEPT !["loop"] = "scheduled"]
      /\ UNCHANGED <<pending, listed, peer, track, joined, clocks, participants, timer, stopped,
                     unplayed, frames, session>>
    BY Names, AtIs DEF LoopSchedules, Goto
<1>2. StillReads
    BY <1>1, Names, Readers DEF StillReads, SessionInv, TasksInv, TaskTypes, Tasks
<1>3. BusInv' /\ waiters' \in Seq(Publishers)
    BY <1>1, <1>2, PublishFromKeeps
<1>4. TasksInv'
    BY <1>1, <1>3 DEF SessionInv, TasksInv, TaskTypes, Tasks, Labels, FramesLeft, ReadyIsCounted, Owes,
        NothingBegun, MainPath, TimersStopped, AllDone, Active
<1> QED
    BY <1>3, <1>4 DEF SessionInv

\* The loop publishes a frame.
LEMMA FrameKeeps ==
    ASSUME SessionInv, LoopPublishesFrame
    PROVE  SessionInv'
<1>1. /\ PublishFrom("loop", "frame") /\ "loop" \in Publishers /\ "frame" \in Types
      /\ pc["loop"] \in {"check", "scheduled"} /\ session = "running"
      /\ pc["loop"] = "check" => Active
      /\ pc' = [pc EXCEPT !["loop"] = "asleep"]
      /\ frames' = IF stopped THEN frames ELSE frames + 1
      /\ unplayed' = IF stopped THEN 0 ELSE unplayed
      /\ UNCHANGED <<pending, listed, peer, track, joined, clocks, participants, timer, stopped, session>>
    BY Names, AtIs DEF LoopPublishesFrame, Goto
<1>2. StillReads
    BY <1>1, Names, Readers DEF StillReads, SessionInv, TasksInv, TaskTypes, Tasks
<1>3. BusInv' /\ waiters' \in Seq(Publishers)
    BY <1>1, <1>2, PublishFromKeeps
<1>4. TasksInv'
    BY <1>1, <1>3, Names DEF SessionInv, TasksInv, TaskTypes, Tasks, Labels, FramesLeft, ReadyIsCounted, Owes,
        NothingBegun, MainPath, TimersStopped, AllDone, Active
<1> QED
    BY <1>3, <1>4 DEF SessionInv

\* The loop ends, or wakes up.
LEMMA LoopMovesKeeps ==
    ASSUME SessionInv, LoopEnds \/ LoopWakes
    PROVE  SessionInv'
<1>1. /\ UNCHANGED busVars
      /\ session = "running"
      /\ \E label \in {"check", "done"} : pc' = [pc EXCEPT !["loop"] = label]
      /\ UNCHANGED <<peer, track, joined, clocks, participants, timer, stopped, unplayed, frames,
                     waiters, session>>
    BY AtIs DEF LoopEnds, LoopWakes, Goto
<1>2. StillReads
    BY <1>1, Names, Readers DEF StillReads, SessionInv, TasksInv, TaskTypes, Tasks
<1>3. BusInv' /\ UNCHANGED pending
    BY <1>1, <1>2, BusStays DEF SessionInv, busVars
<1>4. TasksInv'
    BY <1>1, <1>3 DEF SessionInv, TasksInv, TaskTypes, Tasks, Labels, FramesLeft, ReadyIsCounted, Owes,
        NothingBegun, MainPath, TimersStopped, AllDone
<1> QED
    BY <1>3, <1>4 DEF SessionInv

\* The listener stops the scheduler.
LEMMA ListenerKeeps ==
    ASSUME SessionInv, ListenerShutsDown
    PROVE  SessionInv'
<1>1. /\ TakesNext("listener", "shutdown") /\ Unsubscribe("listener") /\ UNCHANGED <<pending, publishing>>
      /\ session = "running" /\ "listener" \in Subscribers
      /\ pc' = [pc EXCEPT !["listener"] = "done"]
      /\ stopped' = TRUE /\ unplayed' \in {0, 1}
      /\ UNCHANGED <<peer, track, joined, clocks, participants, timer, frames, waiters, session>>
    BY AtIs, Names DEF ListenerShutsDown, Leaves, Goto
<1>2. \A r \in Subscribers \ {"listener"} : pc[r] \in Reads(r) => pc'[r] \in Reads(r)
    BY <1>1, Names DEF SessionInv, TasksInv, TaskTypes, Tasks, Reads
<1>3. BusInv' /\ pending = 0 /\ pending' = 0
  <2>1. BusInv'
      BY <1>1, <1>2, UnsubscribeKeeps DEF SessionInv
  <2>2. pending = 0
      BY <1>1, NothingArrives DEF TakesNext, Arrived
  <2> QED
      BY <1>1, <2>1, <2>2
<1>4. TasksInv'
    BY <1>1, <1>3 DEF SessionInv, TasksInv, TaskTypes, Tasks, Labels, FramesLeft, ReadyIsCounted, Owes,
        NothingBegun, MainPath, TimersStopped, AllDone
<1> QED
    BY <1>3, <1>4 DEF SessionInv

\* The video worker ends.
LEMMA VideoStopsKeeps ==
    ASSUME SessionInv, VideoStops
    PROVE  SessionInv'
<1>1. /\ TakesNext("video", "shutdown") /\ Unsubscribe("video") /\ UNCHANGED <<pending, publishing>>
      /\ session = "running" /\ "video" \in Subscribers
      /\ pc' = [pc EXCEPT !["video"] = "done"]
      /\ pc["video"] \in {"first", "playing"}
      /\ UNCHANGED <<peer, track, joined, clocks, participants, timer, stopped, unplayed, frames,
                     waiters, session>>
    BY AtIs, Names DEF VideoStops, Leaves, Goto
<1>2. \A r \in Subscribers \ {"video"} : pc[r] \in Reads(r) => pc'[r] \in Reads(r)
    BY <1>1, Names DEF SessionInv, TasksInv, TaskTypes, Tasks, Reads
<1>3. BusInv' /\ pending = 0 /\ pending' = 0
  <2>1. BusInv'
      BY <1>1, <1>2, UnsubscribeKeeps DEF SessionInv
  <2>2. pending = 0
      BY <1>1, NothingArrives DEF TakesNext, Arrived
  <2> QED
      BY <1>1, <2>1, <2>2
<1>4. TasksInv'
    BY <1>1, <1>3 DEF SessionInv, TasksInv, TaskTypes, Tasks, Labels, FramesLeft, ReadyIsCounted, Owes,
        NothingBegun, MainPath, TimersStopped, AllDone
<1> QED
    BY <1>3, <1>4 DEF SessionInv

\* The delayed event worklet ends.
LEMMA DelayedStopsKeeps ==
    ASSUME SessionInv, DelayedStops
    PROVE  SessionInv'
<1>1. /\ TakesNext("delayed", "shutdown") /\ Unsubscribe("delayed") /\ UNCHANGED <<pending, publishing>>
      /\ session = "running" /\ "delayed" \in Subscribers
      /\ pc' = [pc EXCEPT !["delayed"] = "done"]
      /\ UNCHANGED <<peer, track, joined, clocks, participants, timer, stopped, unplayed, frames,
                     waiters, session>>
    BY AtIs, Names DEF DelayedStops, Leaves, Goto
<1>2. \A r \in Subscribers \ {"delayed"} : pc[r] \in Reads(r) => pc'[r] \in Reads(r)
    BY <1>1, Names DEF SessionInv, TasksInv, TaskTypes, Tasks, Reads
<1>3. BusInv' /\ pending = 0 /\ pending' = 0
  <2>1. BusInv'
      BY <1>1, <1>2, UnsubscribeKeeps DEF SessionInv
  <2>2. pending = 0
      BY <1>1, NothingArrives DEF TakesNext, Arrived
  <2> QED
      BY <1>1, <2>1, <2>2
<1>4. TasksInv'
    BY <1>1, <1>3 DEF SessionInv, TasksInv, TaskTypes, Tasks, Labels, FramesLeft, ReadyIsCounted, Owes,
        NothingBegun, MainPath, TimersStopped, AllDone
<1> QED
    BY <1>3, <1>4 DEF SessionInv

\* The timeout worklet ends, and stops its timers.
LEMMA TimeoutStopsKeeps ==
    ASSUME SessionInv, TimeoutStops
    PROVE  SessionInv'
<1>1. /\ TakesNext("timeout", "shutdown") /\ Unsubscribe("timeout") /\ UNCHANGED <<pending, publishing>>
      /\ session = "running" /\ "timeout" \in Subscribers
      /\ pc' = [pc EXCEPT !["timeout"] = "done"]
      /\ timer' = [k \in DOMAIN timer |-> IF timer[k] = "armed" THEN "off" ELSE timer[k]]
      /\ UNCHANGED <<peer, track, joined, clocks, participants, stopped, unplayed, frames, waiters,
                     session>>
    BY AtIs, Names DEF TimeoutStops, TimeoutTakes, Leaves, Goto
<1>2. \A r \in Subscribers \ {"timeout"} : pc[r] \in Reads(r) => pc'[r] \in Reads(r)
    BY <1>1, Names DEF SessionInv, TasksInv, TaskTypes, Tasks, Reads
<1>3. BusInv' /\ pending = 0 /\ pending' = 0
  <2>1. BusInv'
      BY <1>1, <1>2, UnsubscribeKeeps DEF SessionInv
  <2>2. pending = 0
      BY <1>1, NothingArrives DEF TakesNext, Arrived
  <2> QED
      BY <1>1, <2>1, <2>2
<1>4. TasksInv'
    BY <1>1, <1>3 DEF SessionInv, TasksInv, TaskTypes, Tasks, Labels, FramesLeft, ReadyIsCounted, Owes,
        NothingBegun, MainPath, TimersStopped, AllDone
<1> QED
    BY <1>3, <1>4 DEF SessionInv

\* _emit_stop is called.
LEMMA StopperTakesKeeps ==
    ASSUME SessionInv, StopperTakes
    PROVE  SessionInv'
<1>1. /\ TakesNext("stopper", "shutdown") /\ Unsubscribe("stopper") /\ UNCHANGED <<pending, publishing>>
      /\ session = "running" /\ "stopper" \in Subscribers
      /\ pc' = [pc EXCEPT !["stopper"] = "needed"]
      /\ UNCHANGED <<peer, track, joined, clocks, participants, timer, stopped, unplayed, frames,
                     waiters, session>>
    BY AtIs, Names DEF StopperTakes, Goto
<1>2. \A r \in Subscribers \ {"stopper"} : pc[r] \in Reads(r) => pc'[r] \in Reads(r)
    BY <1>1, Names DEF SessionInv, TasksInv, TaskTypes, Tasks, Reads
<1>3. BusInv' /\ pending = 0 /\ pending' = 0
  <2>1. BusInv'
      BY <1>1, <1>2, UnsubscribeKeeps DEF SessionInv
  <2>2. pending = 0
      BY <1>1, NothingArrives DEF TakesNext, Arrived
  <2> QED
      BY <1>1, <2>1, <2>2
<1>4. TasksInv'
    BY <1>1, <1>3 DEF SessionInv, TasksInv, TaskTypes, Tasks, Labels, FramesLeft, ReadyIsCounted, Owes,
        NothingBegun, MainPath, TimersStopped, AllDone
<1> QED
    BY <1>3, <1>4 DEF SessionInv

\* The peer's worklet clones the bus for its workers, and is ready itself.
LEMMA ConnectedKeeps ==
    ASSUME SessionInv, MainConnected
    PROVE  SessionInv'
<1>1. /\ pending' = pending + 1 /\ Publish("main", E("joined"))
      /\ waiters' = IF AllReady THEN waiters ELSE Append(waiters, "main")
      /\ pc["main"] = "connecting" /\ session = "running"
      /\ pc' = [pc EXCEPT !["main"] = "awaiting", !["video"] = "starting",
                          !["lifecycle"] = "starting"]
      /\ UNCHANGED <<listed, peer, track, joined, clocks, participants, timer, stopped, unplayed,
                     frames, session>>
    BY AtIs DEF MainConnected, Clone, PublishFrom
<1>2. StillReads
    BY <1>1, Names, Readers DEF StillReads, SessionInv, TasksInv, TaskTypes, Tasks, MainPath
<1>3. /\ BusInv' /\ waiters' \in Seq(Publishers) /\ pending' = pending + 1 /\ pending # 0
      /\ pc["video"] = "none" /\ pc["lifecycle"] = "none"
  <2>1. pending # 0 /\ pending \in Nat /\ pc["video"] = "none" /\ pc["lifecycle"] = "none"
      BY <1>1 DEF SessionInv, TasksInv, ReadyIsCounted, Owes, MainPath
  <2>2. /\ publishing' = [publishing EXCEPT !["main"] = Waiting(E("joined"))]
        /\ queue' = queue /\ waiters' = Append(waiters, "main")
        /\ "main" \in Publishers /\ E("joined") \in Events
      BY <1>1, <2>1, Names DEF Publish, AllReady
  <2>3. Waiting(E("joined")) \in PublisherState /\ Waiting(E("joined")).at = "waiting"
      BY <2>2, WaitingIs
  <2>4. BusTypeOK' /\ \A q \in Publishers : publishing'[q] =
            IF q = "main" THEN Waiting(E("joined")) ELSE publishing[q]
      BY <1>1, <2>1, <2>2, <2>3 DEF SessionInv, BusInv, BusTypeOK
  <2>5. NothingSent' /\ RestsAgree'
      BY <1>1, <2>1, <2>2, <2>3, <2>4 DEF SessionInv, BusInv, NothingSent, RestsAgree
  <2>6. ListsAgree'
      BY <1>1, <1>2, ListsStay DEF SessionInv, BusInv
  <2>7. waiters' \in Seq(Publishers)
      BY <2>2, AppendProperties DEF SessionInv, TasksInv, TaskTypes
  <2> QED
      BY <1>1, <2>1, <2>4, <2>5, <2>6, <2>7 DEF BusInv
<1>4. TasksInv'
    BY <1>1, <1>3 DEF SessionInv, TasksInv, TaskTypes, Tasks, Labels, FramesLeft, ReadyIsCounted, Owes,
        NothingBegun, MainPath, TimersStopped, AllDone
<1> QED
    BY <1>3, <1>4 DEF SessionInv

\* The peer's worklet ends with its video worker.
LEMMA FinishesKeeps ==
    ASSUME SessionInv, MainFinishes
    PROVE  SessionInv'
<1>1. /\ pc["main"] = "awaiting" /\ pc["video"] = "done" /\ session = "running"
      /\ pc' = [pc EXCEPT !["main"] = "done", !["lifecycle"] = "done"]
      /\ publishing' = [publishing EXCEPT !["lifecycle"] = Idle] /\ "lifecycle" \in Publishers
      /\ UNCHANGED <<pending, listed, queue, peer, track, joined, clocks, participants, timer, stopped,
                     unplayed, frames, waiters, session>>
    BY AtIs, Names DEF MainFinishes
<1>2. StillReads
    BY <1>1, Names, Readers DEF StillReads, SessionInv, TasksInv, TaskTypes, Tasks
<1>3. BusInv'
    BY <1>1, <1>2, CancelKeeps DEF SessionInv
<1>4. TasksInv'
    BY <1>1, <1>3 DEF SessionInv, TasksInv, TaskTypes, Tasks, Labels, FramesLeft, ReadyIsCounted, Owes,
        NothingBegun, MainPath, TimersStopped, AllDone
<1> QED
    BY <1>3, <1>4 DEF SessionInv

\* The video worker subscribes, and is ready.
LEMMA VideoStartsKeeps ==
    ASSUME SessionInv, VideoStarts
    PROVE  SessionInv'
<1>1. /\ Subscribe("video", VideoTypes) /\ Ready /\ UNCHANGED <<queue, publishing>>
      /\ pc["video"] = "starting" /\ session = "running"
      /\ pc' = [pc EXCEPT !["video"] = "first"]
      /\ UNCHANGED <<peer, track, joined, clocks, participants, timer, stopped, unplayed, frames,
                     waiters, session>>
    BY AtIs DEF VideoStarts, Goto
<1>2. StillReads
    BY <1>1, Names, Readers DEF StillReads, SessionInv, TasksInv, TaskTypes, Tasks
<1>3. BusInv' /\ pending' = pending - 1 /\ pending' \in Nat
  <2>1. pending' = pending - 1 /\ pending' \in Nat
      BY <1>1 DEF Ready, SessionInv, TasksInv, ReadyIsCounted, Owes
  <2>2. pc'["video"] = "first"
      BY <1>1 DEF SessionInv, TasksInv, TaskTypes, Tasks
  <2> QED
      BY <1>1, <1>2, <2>1, <2>2, SubscribeKeeps DEF SessionInv
<1>4. TasksInv'
    BY <1>1, <1>3 DEF SessionInv, TasksInv, TaskTypes, Tasks, Labels, FramesLeft, ReadyIsCounted, Owes,
        NothingBegun, MainPath, TimersStopped, AllDone
<1> QED
    BY <1>3, <1>4 DEF SessionInv

\* The lifecycle worker is ready, and asks for the state of the peer.
LEMMA LifecycleStartsKeeps ==
    ASSUME SessionInv, LifecycleStarts
    PROVE  SessionInv'
<1>1. /\ Ready /\ UNCHANGED <<listed, queue, publishing>>
      /\ pc["lifecycle"] = "starting" /\ session = "running" /\ joined' \in BOOLEAN
      /\ pc' = [pc EXCEPT !["lifecycle"] = "watching"]
      /\ UNCHANGED <<peer, track, clocks, participants, timer, stopped, unplayed, frames, waiters,
                     session>>
    BY AtIs DEF LifecycleStarts, Goto
<1>2. StillReads
    BY <1>1, Names, Readers DEF StillReads, SessionInv, TasksInv, TaskTypes, Tasks
<1>3. BusInv' /\ pending' = pending - 1 /\ pending' \in Nat
  <2>1. pending' = pending - 1 /\ pending' \in Nat
      BY <1>1 DEF Ready, SessionInv, TasksInv, ReadyIsCounted, Owes
  <2> QED
      BY <1>1, <1>2, <2>1, ReadyKeeps DEF SessionInv
<1>4. TasksInv'
    BY <1>1, <1>3 DEF SessionInv, TasksInv, TaskTypes, Tasks, Labels, FramesLeft, ReadyIsCounted, Owes,
        NothingBegun, MainPath, TimersStopped, AllDone
<1> QED
    BY <1>3, <1>4 DEF SessionInv

\* The video worker takes its first frame.
LEMMA FirstFrameKeeps ==
    ASSUME SessionInv, VideoFirstFrame
    PROVE  SessionInv'
<1>1. /\ Arrived("video") /\ Get("video") /\ UNCHANGED <<pending, listed, publishing>>
      /\ session = "running" /\ "video" \in Subscribers
      /\ pc["video"] = "first" /\ clocks' = TRUE
      /\ pc' = [pc EXCEPT !["video"] = "announcing"]
      /\ UNCHANGED <<peer, track, joined, participants, timer, stopped, unplayed, frames, waiters,
                     session>>
    BY AtIs, Names DEF VideoFirstFrame, Goto, TakesNext
<1>2. StillReads
    BY <1>1, Names, Readers DEF StillReads, SessionInv, TasksInv, TaskTypes, Tasks
<1>3. BusInv' /\ pending = 0 /\ pending' = 0
    BY <1>1, <1>2, GetKeeps DEF SessionInv
<1>4. TasksInv'
    BY <1>1, <1>3 DEF SessionInv, TasksInv, TaskTypes, Tasks, Labels, FramesLeft, ReadyIsCounted, Owes,
        NothingBegun, MainPath, TimersStopped, AllDone
<1> QED
    BY <1>3, <1>4 DEF SessionInv

\* The video worker takes another frame.
LEMMA PlaysKeeps ==
    ASSUME SessionInv, VideoPlays
    PROVE  SessionInv'
<1>1. /\ Arrived("video") /\ Get("video") /\ UNCHANGED <<pending, listed, publishing>>
      /\ session = "running" /\ "video" \in Subscribers
      /\ pc["video"] = "playing"
      /\ \E next \in AfterFrame : pc' = [pc EXCEPT !["video"] = next]
      /\ UNCHANGED <<peer, track, joined, clocks, participants, timer, stopped, unplayed,
                     frames, waiters, session>>
  <2>1. pc["video"] = "playing" /\ session = "running"
      BY AtIs DEF VideoPlays
  <2> QED
      BY <2>1, Names DEF VideoPlays, Goto, TakesNext
<1>2. StillReads
    BY <1>1, Names, Readers
       DEF StillReads, AfterFrame, SessionInv, TasksInv, TaskTypes, Tasks
<1>3. BusInv' /\ pending = 0 /\ pending' = 0
    BY <1>1, <1>2, GetKeeps DEF SessionInv
<1>4. TasksInv'
    BY <1>1, <1>3 DEF SessionInv, TasksInv, TaskTypes, Tasks, Labels, FramesLeft, ReadyIsCounted, Owes,
        NothingBegun, MainPath, TimersStopped, AllDone, AfterFrame
<1> QED
    BY <1>3, <1>4 DEF SessionInv

\* The video worker puts the audio of its frame.
LEMMA SoundsKeeps ==
    ASSUME SessionInv, VideoSounds
    PROVE  SessionInv'
<1>1. /\ UNCHANGED busVars /\ session = "running" /\ pc["video"] = "sounding"
      /\ pc' = [pc EXCEPT !["video"] = "playing"] /\ track' \in 0..TrackRoom
      /\ UNCHANGED <<peer, joined, clocks, participants, timer, stopped, unplayed, frames,
                     waiters, session>>
    BY AtIs, Names DEF VideoSounds, Goto, SessionInv, TasksInv, TaskTypes
<1>2. StillReads
    BY <1>1, Names, Readers DEF StillReads, SessionInv, TasksInv, TaskTypes, Tasks
<1>3. BusInv' /\ UNCHANGED pending
    BY <1>1, <1>2, BusStays DEF SessionInv, busVars
<1>4. TasksInv'
    BY <1>1, <1>3 DEF SessionInv, TasksInv, TaskTypes, Tasks, Labels, FramesLeft, ReadyIsCounted, Owes,
        NothingBegun, MainPath, TimersStopped, AllDone
<1> QED
    BY <1>3, <1>4 DEF SessionInv

\* The delayed event worklet takes an event.
LEMMA DelayedTakesKeeps ==
    ASSUME SessionInv, DelayedTakes
    PROVE  SessionInv'
<1>1. /\ Arrived("delayed") /\ Get("delayed") /\ UNCHANGED <<pending, listed, publishing>>
      /\ session = "running" /\ "delayed" \in Subscribers
      /\ pc["delayed"] = "reading"
      /\ pc' = [pc EXCEPT !["delayed"] = "waiting"]
      /\ UNCHANGED <<peer, track, joined, clocks, participants, timer, stopped, unplayed, frames,
                     waiters, session>>
    BY AtIs, Names DEF DelayedTakes, Goto, TakesNext
<1>2. StillReads
    BY <1>1, Names, Readers DEF StillReads, SessionInv, TasksInv, TaskTypes, Tasks
<1>3. BusInv' /\ pending = 0 /\ pending' = 0
    BY <1>1, <1>2, GetKeeps DEF SessionInv
<1>4. TasksInv'
    BY <1>1, <1>3 DEF SessionInv, TasksInv, TaskTypes, Tasks, Labels, FramesLeft, ReadyIsCounted, Owes,
        NothingBegun, MainPath, TimersStopped, AllDone
<1> QED
    BY <1>3, <1>4 DEF SessionInv

\* The timeout worklet counts the participants and arms its timers.
LEMMA TimeoutKeeps ==
    ASSUME SessionInv, TimeoutStarted \/ TimeoutJoined \/ TimeoutLeft
    PROVE  SessionInv'
<1>1. /\ Arrived("timeout") /\ Get("timeout") /\ UNCHANGED <<pending, listed, publishing>>
      /\ session = "running" /\ "timeout" \in Subscribers /\ pc["timeout"] = "reading"
      /\ UNCHANGED <<pc, peer, track, joined, clocks, stopped, unplayed, frames, waiters, session>>
      /\ participants' \in Nat
      /\ timer' \in [{"absent", "maximum"} -> {"off", "armed", "fired"}]
  <2>1. CASE TimeoutStarted
      BY <2>1, AtIs, Names DEF TimeoutStarted, TimeoutTakes, TakesNext, SessionInv, TasksInv, TaskTypes
  <2>2. CASE TimeoutJoined
      BY <2>2, AtIs, Names DEF TimeoutJoined, TimeoutTakes, TakesNext, SessionInv, TasksInv, TaskTypes
  <2>3. CASE TimeoutLeft
    <3>1. participants' \in Nat
        BY <2>3 DEF TimeoutLeft, LastLeaves, TimeoutTakes, SessionInv, TasksInv, TaskTypes
    <3> QED
        BY <2>3, <3>1, AtIs, Names DEF TimeoutLeft, TimeoutTakes, TakesNext, SessionInv, TasksInv, TaskTypes
  <2> QED
      BY <2>1, <2>2, <2>3
<1>2. StillReads
    BY <1>1 DEF StillReads
<1>3. BusInv' /\ pending = 0 /\ pending' = 0
    BY <1>1, <1>2, GetKeeps DEF SessionInv
<1>4. TasksInv'
    BY <1>1, <1>3 DEF SessionInv, TasksInv, TaskTypes, Tasks, Labels, FramesLeft, ReadyIsCounted, Owes,
        NothingBegun, MainPath, TimersStopped, AllDone
<1> QED
    BY <1>3, <1>4 DEF SessionInv

\* The video worker says that the stream has started.
LEMMA AnnouncesKeeps ==
    ASSUME SessionInv, VideoAnnounces
    PROVE  SessionInv'
<1>1. /\ PublishFrom("video", "started") /\ "video" \in Publishers /\ "started" \in Types
      /\ pc["video"] = "announcing" /\ session = "running"
      /\ \E next \in AfterFrame : pc' = [pc EXCEPT !["video"] = next]
      /\ UNCHANGED <<pending, listed, peer, track, joined, clocks, participants, timer, stopped,
                     unplayed, frames, session>>
    BY Names, AtIs DEF VideoAnnounces, Goto
<1>2. StillReads
    BY <1>1, Names, Readers
       DEF StillReads, AfterFrame, SessionInv, TasksInv, TaskTypes, Tasks
<1>3. BusInv' /\ waiters' \in Seq(Publishers)
    BY <1>1, <1>2, PublishFromKeeps
<1>4. TasksInv'
    BY <1>1, <1>3 DEF SessionInv, TasksInv, TaskTypes, Tasks, Labels, FramesLeft, ReadyIsCounted, Owes,
        NothingBegun, MainPath, TimersStopped, AllDone, AfterFrame
<1> QED
    BY <1>3, <1>4 DEF SessionInv

\* The lifecycle worker publishes that the participant left, and a Shutdown.
LEMMA LeavesKeeps ==
    ASSUME SessionInv, NEW from \in {"leaving", "left"}, NEW to \in {"left", "done"},
           NEW t \in Types, LifecyclePublishes(from, t, to)
    PROVE  SessionInv'
<1>1. /\ PublishFrom("lifecycle", t) /\ "lifecycle" \in Publishers /\ t \in Types
      /\ session = "running" /\ pc' = [pc EXCEPT !["lifecycle"] = to]
      /\ pc["lifecycle"] = from
      /\ UNCHANGED <<pending, listed, peer, track, joined, clocks, participants, timer, stopped,
                     unplayed, frames, session>>
    BY Names, AtIs DEF LifecyclePublishes, Goto
<1>2. StillReads
    BY <1>1, Names, Readers DEF StillReads, SessionInv, TasksInv, TaskTypes, Tasks
<1>3. BusInv' /\ waiters' \in Seq(Publishers)
    BY <1>1, <1>2, PublishFromKeeps
<1>4. TasksInv'
    BY <1>1, <1>3 DEF SessionInv, TasksInv, TaskTypes, Tasks, Labels, FramesLeft, ReadyIsCounted, Owes,
        NothingBegun, MainPath, TimersStopped, AllDone
<1> QED
    BY <1>3, <1>4 DEF SessionInv

\* A playback event is published at its time.
LEMMA PlaybackKeeps ==
    ASSUME SessionInv, DelayedPublishes
    PROVE  SessionInv'
<1>1. /\ PublishFrom("delayed", "playback") /\ "delayed" \in Publishers /\ "playback" \in Types
      /\ pc["delayed"] = "waiting" /\ session = "running"
      /\ pc' = [pc EXCEPT !["delayed"] = "reading"]
      /\ UNCHANGED <<pending, listed, peer, track, joined, clocks, participants, timer, stopped,
                     unplayed, frames, session>>
    BY Names, AtIs DEF DelayedPublishes, Goto
<1>2. StillReads
    BY <1>1, Names, Readers DEF StillReads, SessionInv, TasksInv, TaskTypes, Tasks
<1>3. BusInv' /\ waiters' \in Seq(Publishers)
    BY <1>1, <1>2, PublishFromKeeps
<1>4. TasksInv'
    BY <1>1, <1>3 DEF SessionInv, TasksInv, TaskTypes, Tasks, Labels, FramesLeft, ReadyIsCounted, Owes,
        NothingBegun, MainPath, TimersStopped, AllDone
<1> QED
    BY <1>3, <1>4 DEF SessionInv

\* _emit_stop publishes another Shutdown.
LEMMA StopperPublishesKeeps ==
    ASSUME SessionInv, StopperPublishes
    PROVE  SessionInv'
<1>1. /\ PublishFrom("stopper", "shutdown") /\ "stopper" \in Publishers /\ "shutdown" \in Types
      /\ pc["stopper"] = "needed" /\ session = "running"
      /\ pc' = [pc EXCEPT !["stopper"] = "done"]
      /\ UNCHANGED <<pending, listed, peer, track, joined, clocks, participants, timer, stopped,
                     unplayed, frames, session>>
    BY Names, AtIs DEF StopperPublishes, Goto
<1>2. StillReads
    BY <1>1, Names, Readers DEF StillReads, SessionInv, TasksInv, TaskTypes, Tasks
<1>3. BusInv' /\ waiters' \in Seq(Publishers)
    BY <1>1, <1>2, PublishFromKeeps
<1>4. TasksInv'
    BY <1>1, <1>3 DEF SessionInv, TasksInv, TaskTypes, Tasks, Labels, FramesLeft, ReadyIsCounted, Owes,
        NothingBegun, MainPath, TimersStopped, AllDone
<1> QED
    BY <1>3, <1>4 DEF SessionInv

\* A timer fires.
LEMMA TimerKeeps ==
    ASSUME SessionInv, NEW k \in {"absent", "maximum"}, TimerFires(k)
    PROVE  SessionInv'
<1>1. /\ PublishFrom(k, "shutdown") /\ k \in Publishers /\ "shutdown" \in Types
      /\ timer[k] = "armed" /\ session = "running" /\ timer' = [timer EXCEPT ![k] = "fired"]
      /\ UNCHANGED <<pending, listed, pc, peer, track, joined, clocks, participants, stopped,
                     unplayed, frames, session>>
    BY Names, AtIs DEF TimerFires, Calm, Settled
<1>2. StillReads
    BY <1>1, Names, Readers DEF StillReads, SessionInv, TasksInv, TaskTypes, Tasks
<1>3. BusInv' /\ waiters' \in Seq(Publishers)
    BY <1>1, <1>2, PublishFromKeeps
<1>4. TasksInv'
    BY <1>1, <1>3 DEF SessionInv, TasksInv, TaskTypes, Tasks, Labels, FramesLeft, ReadyIsCounted, Owes,
        NothingBegun, MainPath, TimersStopped, AllDone
<1> QED
    BY <1>3, <1>4 DEF SessionInv

\* Every task of the group has returned.
LEMMA EndsKeeps ==
    ASSUME SessionInv, SessionEnds
    PROVE  SessionInv'
<1>1. /\ \A t \in Worklets : pc[t] = "done"
      /\ session = "running" /\ session' = "ended"
      /\ UNCHANGED <<busVars, pc, peer, track, joined, clocks, participants, timer, stopped,
                     unplayed, frames, waiters>>
    BY DEF SessionEnds
<1>2. StillReads
    BY <1>1, Names, Readers DEF StillReads, SessionInv, TasksInv, TaskTypes, Tasks
<1>3. BusInv' /\ UNCHANGED pending
    BY <1>1, <1>2, BusStays DEF SessionInv, busVars
<1>4. TasksInv'
    BY <1>1, <1>3 DEF SessionInv, TasksInv, TaskTypes, Tasks, Labels, FramesLeft, ReadyIsCounted, Owes,
        NothingBegun, MainPath, TimersStopped, AllDone, Worklets
<1> QED
    BY <1>3, <1>4 DEF SessionInv

\* Nothing happens any more.
LEMMA OverKeeps == SessionInv /\ UNCHANGED vars => SessionInv'
<1> SUFFICES ASSUME SessionInv, UNCHANGED vars
             PROVE  SessionInv'
    OBVIOUS
<1>1. UNCHANGED <<busVars, pc, peer, track, joined, clocks, participants, timer, stopped, unplayed,
                  frames, waiters, session>>
    BY DEF vars, sessionVars
<1>2. StillReads
    BY <1>1 DEF StillReads
<1>3. BusInv' /\ UNCHANGED pending
    BY <1>1, <1>2, BusStays DEF SessionInv, busVars
<1>4. TasksInv'
    BY <1>1, <1>3 DEF SessionInv, TasksInv, TaskTypes, Tasks, Labels, FramesLeft, ReadyIsCounted, Owes,
        NothingBegun, MainPath, TimersStopped, AllDone
<1> QED
    BY <1>3, <1>4 DEF SessionInv

LEMMA SessionStep == SessionInv /\ [Next]_vars => SessionInv'
<1> SUFFICES ASSUME SessionInv, [Next]_vars
             PROVE  SessionInv'
    OBVIOUS
<1>1. CASE PeerConnects \/ PeerIsLost \/ PeerPlays
    BY <1>1, PeerKeeps
<1>2. CASE Fails \/ Cancelled
    BY <1>2, AbortKeeps DEF Fails, Cancelled
<1>3. CASE EngineConnects
    BY <1>3, EngineKeeps
<1>4. CASE \E p \in Publishers : Continue(p)
    BY <1>4, ContinueKeeps
<1>5. CASE Loop
    BY <1>5, SchedulesKeeps, FrameKeeps, LoopMovesKeeps DEF Loop
<1>6. CASE ListenerShutsDown
    BY <1>6, ListenerKeeps
<1>7. CASE Main
    BY <1>7, ConnectedKeeps, FinishesKeeps DEF Main
<1>8. CASE Video
    BY <1>8, VideoStartsKeeps, FirstFrameKeeps, AnnouncesKeeps, PlaysKeeps, SoundsKeeps,
       VideoStopsKeeps DEF Video
<1>9. CASE Lifecycle
    BY <1>9, LifecycleStartsKeeps, LeavesKeeps, Names DEF Lifecycle, LifecycleLeaves
<1>10. CASE Delayed
    BY <1>10, DelayedTakesKeeps, PlaybackKeeps, DelayedStopsKeeps DEF Delayed
<1>11. CASE Timeout
    BY <1>11, TimeoutKeeps, TimeoutStopsKeeps DEF Timeout
<1>12. CASE Stopper
    BY <1>12, StopperTakesKeeps, StopperPublishesKeeps DEF Stopper
<1>13. CASE \E k \in DOMAIN timer : TimerFires(k)
  <2>1. DOMAIN timer = {"absent", "maximum"}
      BY DEF SessionInv, TasksInv, TaskTypes
  <2> QED
      BY <1>13, <2>1, TimerKeeps
<1>14. CASE SessionEnds
    BY <1>14, EndsKeeps
<1>15. CASE Terminated \/ UNCHANGED vars
    BY <1>15, OverKeeps DEF Terminated
<1> QED
    BY <1>1, <1>2, <1>3, <1>4, <1>5, <1>6, <1>7, <1>8, <1>9, <1>10, <1>11, <1>12, <1>13,
       <1>14, <1>15 DEF Next

-----------------------------------------------------------------------------
(***************************************************************************)
(* Nobody is left behind.  A Shutdown is given to the listener first and   *)
(* to the video worker last.  So once the listener has it, everyone who    *)
(* is subscribed has one or will be given one by a publisher that waits    *)
(* for room; and once the video worker has it, and may go and have the     *)
(* lifecycle worker cancelled, everyone has one.                           *)
(***************************************************************************)

Stop == E("shutdown")
HasStop(s) == Has(queue[s], Stop)
Subscribed(s) == Has(listed["shutdown"], s)
Stopping(p) == publishing[p].at = "blocked" /\ publishing[p].event = Stop
Owed(p, s) == Stopping(p) /\ Has(publishing[p].rest, s)

\* A publisher of a Shutdown that waits for room still has to give it to whoever has none.
StopsReach ==
    \A p \in Publishers, s \in Subscribers :
        Stopping(p) /\ Subscribed(s) => HasStop(s) \/ Has(publishing[p].rest, s)

VideoIsLast ==
    pc["video"] = "done" \/ (Subscribed("video") /\ HasStop("video")) =>
        \A s \in Subscribers : Subscribed(s) => HasStop(s)

ListenerIsFirst ==
    session = "running" /\ (stopped \/ (Subscribed("listener") /\ HasStop("listener"))) =>
        \A s \in Subscribers :
            Subscribed(s) => HasStop(s) \/ \E p \in Publishers : Owed(p, s)

\* Who reads is subscribed.
ReadersListed ==
    session = "running" =>
        \A s \in Subscribers : pc[s] \in Reads(s) => Subscribed(s)

StopInv == StopsReach /\ VideoIsLast /\ ListenerIsFirst /\ ReadersListed

\* Nobody begins to read and nobody ends.
SameReaders ==
    /\ UNCHANGED <<stopped, session>>
    /\ pc'["video"] = "done" => pc["video"] = "done"
    /\ \A s \in Subscribers : pc'[s] \in Reads(s) => pc[s] \in Reads(s)

\* No Shutdown comes and none goes.
LEMMA StopAlike ==
    ASSUME StopInv, listed' = listed, \A s \in Subscribers : HasStop(s)' = HasStop(s),
           \A p \in Publishers : /\ Stopping(p)' = Stopping(p)
                                 /\ Stopping(p) => publishing'[p] = publishing[p],
           stopped' = stopped, session' = "running" => session = "running",
           pc'["video"] = "done" => pc["video"] = "done",
           \A s \in Subscribers : pc'[s] \in Reads(s) => pc[s] \in Reads(s)
    PROVE  StopInv'
<1>1. \A s \in Subscribers : Subscribed(s)' = Subscribed(s)
    BY DEF Subscribed, Has
<1>2. "video" \in Subscribers /\ "listener" \in Subscribers
    BY Names
<1>3. StopsReach'
  <2> SUFFICES ASSUME NEW p \in Publishers, NEW s \in Subscribers, Stopping(p)', Subscribed(s)'
               PROVE  HasStop(s)' \/ Has(publishing'[p].rest, s)
      BY DEF StopsReach, Has
  <2> QED
      BY <1>1 DEF StopInv, StopsReach
<1>4. VideoIsLast'
    BY <1>1, <1>2 DEF StopInv, VideoIsLast
<1>5. \A p \in Publishers, s \in Subscribers : Owed(p, s)' = Owed(p, s)
    BY DEF Owed, Has
<1>6. ListenerIsFirst'
    BY <1>1, <1>2, <1>5 DEF StopInv, ListenerIsFirst
<1>7. ReadersListed'
    BY <1>1 DEF StopInv, ReadersListed, Reads
<1> QED
    BY <1>3, <1>4, <1>6, <1>7 DEF StopInv

\* The queues, the lists and the publications stay as they are.
LEMMA StopStays ==
    ASSUME StopInv, UNCHANGED <<listed, queue, publishing>>,
           stopped' = stopped, session' = "running" => session = "running",
           pc'["video"] = "done" => pc["video"] = "done",
           \A s \in Subscribers : pc'[s] \in Reads(s) => pc[s] \in Reads(s)
    PROVE  StopInv'
<1>1. \A s \in Subscribers : HasStop(s)' = HasStop(s)
    BY DEF HasStop, Has, Stop, E
<1>2. \A p \in Publishers : Stopping(p)' = Stopping(p) /\ publishing'[p] = publishing[p]
    BY DEF Stopping, Stop, E
<1> QED
    BY <1>1, <1>2, StopAlike

\* An event is delivered; a Shutdown to all who have none.
LEMMA StopDelivered ==
    ASSUME SessionInv, StopInv, UNCHANGED listed, SameReaders,
           NEW p \in Publishers, NEW e \in Events, NEW list, NEW names \in SUBSET Subscribers,
           Delivered(p, e, list, names),
           e = Stop => \A s \in Subscribers : Subscribed(s) => HasStop(s) \/ Has(list, s),
           Stopping(p) => e = Stop /\ list = publishing[p].rest
    PROVE  StopInv'
<1>1. /\ \A s \in Subscribers : queue[s] \in Seq(Events)
      /\ \A s \in Subscribers : Subscribed(s)' = Subscribed(s)
      /\ "video" \in Subscribers /\ "listener" \in Subscribers /\ Stop \in Events
    BY Names DEF SessionInv, BusInv, BusTypeOK, Subscribed, Has, Stop
<1>2. ASSUME NEW s \in Subscribers
      PROVE  HasStop(s)' <=> HasStop(s) \/ (s \in names /\ e = Stop)
  <2>1. queue'[s] = IF s \in names THEN Append(queue[s], e) ELSE queue[s]
      BY DEF Delivered
  <2>2. \A x : Has(Append(queue[s], e), x) <=> Has(queue[s], x) \/ x = e
      BY <1>1, AppendHas
  <2>3. HasStop(s)' = Has(queue'[s], Stop)
      BY DEF HasStop, Has, Stop, E
  <2> QED
      BY <2>1, <2>2, <2>3 DEF HasStop
<1>3. \A q \in Publishers : q # p => /\ publishing'[q] = publishing[q] /\ Stopping(q)' = Stopping(q)
                                     /\ \A s \in Subscribers : Owed(q, s)' = Owed(q, s)
    BY DEF Delivered, Stopping, Owed, Has, Stop, E
<1>4. ASSUME Stopping(p)', NEW s \in Subscribers
      PROVE  e = Stop /\ (Has(publishing'[p].rest, s) <=> Has(list, s) /\ s \notin names)
  <2>1. publishing'[p] # Idle /\ publishing'[p].event = Stop
      BY <1>4 DEF Stopping, Idle, Stop, E
  <2> QED
      BY <2>1 DEF Delivered
<1>5. ASSUME NEW s \in Subscribers, Has(list, s), e = Stop
      PROVE  HasStop(s)' \/ Owed(p, s)'
  <2>1. CASE publishing'[p] = Idle
      BY <1>2, <1>5, <2>1 DEF Delivered, Idle
  <2>2. CASE publishing'[p] # Idle
    <3>1. Stopping(p)' /\ (Has(publishing'[p].rest, s) <=> Has(list, s) /\ s \notin names)
        BY <1>5, <2>2 DEF Delivered, Stopping, Stop, E
    <3>2. Has(publishing[p].rest, s)' = Has(publishing'[p].rest, s)
        BY DEF Has
    <3> QED
        BY <1>2, <1>5, <3>1, <3>2 DEF Owed
  <2> QED
      BY <2>1, <2>2
<1>6. StopsReach'
  <2> SUFFICES ASSUME NEW q \in Publishers, NEW s \in Subscribers, Stopping(q)', Subscribed(s)'
               PROVE  HasStop(s)' \/ Has(publishing'[q].rest, s)
      BY DEF StopsReach, Has
  <2>1. CASE q = p
      BY <1>1, <1>2, <1>4, <2>1
  <2>2. CASE q # p
      BY <1>1, <1>2, <1>3, <2>2 DEF StopInv, StopsReach
  <2> QED
      BY <2>1, <2>2
<1>7. VideoIsLast'
  <2> SUFFICES ASSUME pc'["video"] = "done" \/ (Subscribed("video")' /\ HasStop("video")'),
                      NEW s \in Subscribers, Subscribed(s)'
               PROVE  HasStop(s)'
      BY DEF VideoIsLast
  <2>1. CASE pc["video"] = "done" \/ (Subscribed("video") /\ HasStop("video"))
      BY <1>1, <1>2, <2>1 DEF StopInv, VideoIsLast
  <2>2. CASE ~(pc["video"] = "done" \/ (Subscribed("video") /\ HasStop("video")))
    <3>1. "video" \in names /\ e = Stop
        BY <1>1, <1>2, <2>2 DEF SameReaders
    <3>2. \A r \in Subscribers : Has(list, r) => r \in names
        BY <3>1 DEF Delivered
    <3> QED
        BY <1>1, <1>2, <3>1, <3>2
  <2> QED
      BY <2>1, <2>2
<1>8. ListenerIsFirst'
  <2> SUFFICES ASSUME session' = "running",
                      stopped' \/ (Subscribed("listener")' /\ HasStop("listener")'),
                      NEW s \in Subscribers, Subscribed(s)'
               PROVE  HasStop(s)' \/ \E q \in Publishers : Owed(q, s)'
      BY DEF ListenerIsFirst
  <2>1. CASE e = Stop
      BY <1>1, <1>2, <1>5, <2>1
  <2>2. CASE e # Stop
    <3>1. HasStop(s) \/ \E q \in Publishers : Owed(q, s)
        BY <1>1, <1>2, <2>2 DEF StopInv, ListenerIsFirst, SameReaders
    <3>2. ~Owed(p, s)
        BY <2>2 DEF Owed
    <3> QED
        BY <1>2, <1>3, <3>1, <3>2
  <2> QED
      BY <2>1, <2>2
<1>9. ReadersListed'
    BY <1>1 DEF StopInv, ReadersListed, SameReaders, Reads
<1> QED
    BY <1>6, <1>7, <1>8, <1>9 DEF StopInv

\* A publication begins.
LEMMA StopPublish ==
    ASSUME SessionInv, StopInv, SameReaders, UNCHANGED <<pending, listed>>,
           NEW p \in Publishers, NEW t \in Types, PublishFrom(p, t)
    PROVE  StopInv'
<1>1. /\ publishing[p] = Idle /\ E(t) \in Events /\ Stop = E("shutdown")
      /\ (E(t) = Stop => t = "shutdown")
      /\ (Told(p, E(t), listed[t]) \/ Held(p, E(t)))
    BY Names, PublishTold DEF PublishFrom, Stop, SessionInv
<1>2. CASE Told(p, E(t), listed[t])
  <2>1. PICK names \in SUBSET Subscribers : Delivered(p, E(t), listed[t], names)
      BY <1>2 DEF Told
  <2>2. ~Stopping(p)
      BY <1>1 DEF Stopping, Idle
  <2> QED
      BY <1>1, <2>1, <2>2, StopDelivered DEF Subscribed
<1>3. CASE Held(p, E(t))
  <2>1. /\ queue' = queue /\ publishing' = [publishing EXCEPT ![p] = Waiting(E(t))]
        /\ Waiting(E(t)).at = "waiting" /\ publishing \in [Publishers -> PublisherState]
      BY <1>1, <1>3, WaitingIs DEF Held, SessionInv, BusInv, BusTypeOK
  <2>2. \A q \in Publishers : IF q = p THEN publishing'[q].at = "waiting" /\ publishing[q].at = "idle"
                                       ELSE publishing'[q] = publishing[q]
      BY <1>1, <2>1 DEF Idle
  <2>3. \A q \in Publishers : Stopping(q)' = Stopping(q)
                              /\ (Stopping(q) => publishing'[q] = publishing[q])
      BY <2>2 DEF Stopping, Stop, E
  <2>4. \A s \in Subscribers : HasStop(s)' = HasStop(s)
      BY <2>1 DEF HasStop, Has, Stop, E
  <2> QED
      BY <2>3, <2>4, StopAlike DEF SameReaders
<1> QED
    BY <1>1, <1>2, <1>3

\* A publication goes on.
LEMMA StopGoesOn ==
    ASSUME SessionInv, StopInv, NEW p \in Publishers, Continue(p)
    PROVE  StopInv'
<1>1. /\ UNCHANGED <<pc, stopped, session>> /\ (Released(p) \/ Resume(p))
    BY DEF Continue
<1>2. SameReaders /\ StillReads
    BY <1>1 DEF SameReaders, StillReads, Reads
<1>3. /\ UNCHANGED listed /\ publishing[p].at \in {"waiting", "blocked"}
      /\ publishing[p].event \in Events /\ Told(p, publishing[p].event, ListOf(p))
    BY <1>1, <1>2, GoesOnKeeps DEF SessionInv
<1>4. PICK names \in SUBSET Subscribers : Delivered(p, publishing[p].event, ListOf(p), names)
    BY <1>3 DEF Told
<1>5. ASSUME publishing[p].event = Stop, NEW s \in Subscribers, Subscribed(s)
      PROVE  HasStop(s) \/ Has(ListOf(p), s)
  <2>1. CASE publishing[p].at = "waiting"
    <3>1. ListOf(p) = listed["shutdown"]
        BY <1>5, <2>1, Names DEF ListOf, Stop
    <3> QED
        BY <1>5, <3>1 DEF Subscribed
  <2>2. CASE publishing[p].at = "blocked"
      BY <1>5, <2>2 DEF ListOf, StopInv, StopsReach, Stopping
  <2> QED
      BY <1>3, <2>1, <2>2
<1>6. Stopping(p) => publishing[p].event = Stop /\ ListOf(p) = publishing[p].rest
    BY DEF Stopping, ListOf
<1> QED
    BY <1>2, <1>3, <1>4, <1>5, <1>6, StopDelivered

\* A worker reads an event that is not a Shutdown.
LEMMA StopGets ==
    ASSUME SessionInv, StopInv, SameReaders, UNCHANGED <<listed, publishing>>,
           NEW s \in Subscribers, NEW t \in Types, t # "shutdown", TakesNext(s, t), Get(s)
    PROVE  StopInv'
<1>1. /\ queue[s] \in Seq(Events) /\ queue[s] # <<>> /\ Head(queue[s]) # Stop
      /\ queue' = [queue EXCEPT ![s] = Tail(queue[s])]
      /\ queue \in [Subscribers -> Seq(Events)]
    BY Names DEF TakesNext, Arrived, Get, Stop, SessionInv, BusInv, BusTypeOK
<1>2. Has(Tail(queue[s]), Stop) <=> Has(queue[s], Stop)
    BY <1>1, TailHas
<1>3. \A r \in Subscribers : HasStop(r)' = HasStop(r)
  <2> SUFFICES ASSUME NEW r \in Subscribers
               PROVE  Has(queue'[r], Stop) <=> Has(queue[r], Stop)
      BY DEF HasStop, Has, Stop, E
  <2> QED
      BY <1>1, <1>2
<1> QED
    BY <1>3, StopAlike DEF SameReaders, Stopping, Stop, E

\* A worker leaves with a Shutdown.
LEMMA StopLeaves ==
    ASSUME SessionInv, StopInv, UNCHANGED <<pending, publishing, session>>, session = "running",
           NEW s \in Subscribers, pc[s] \in Reads(s), TakesNext(s, "shutdown"), Unsubscribe(s),
           pc'[s] \notin Reads(s), \A r \in Subscribers \ {s} : pc'[r] = pc[r],
           stopped' # stopped => s = "listener"
    PROVE  StopInv'
<1>1. Subscribed(s)
    BY DEF StopInv, ReadersListed
<1>2. HasStop(s)
  <2>1. queue[s] \in Seq(Events) /\ queue[s] # <<>> /\ Head(queue[s]) = Stop
      BY DEF TakesNext, Arrived, Stop, SessionInv, BusInv, BusTypeOK
  <2> QED
      BY <2>1, TailHas DEF HasStop
<1>3. \A r \in Subscribers : Subscribed(r)' <=> Subscribed(r) /\ r # s
  <2>1. \A r \in Subscribers \ {s} : pc[r] \in Reads(r) => pc'[r] \in Reads(r)
      OBVIOUS
  <2>2. \A r : Has(listed'["shutdown"], r) <=> Has(listed["shutdown"], r) /\ r # s
      BY <2>1, UnsubscribeKeeps, Names DEF SessionInv
  <2>3. \A r : Subscribed(r)' = Has(listed'["shutdown"], r)
      BY DEF Subscribed, Has
  <2> QED
      BY <2>2, <2>3 DEF Subscribed
<1>4. \A r \in Subscribers \ {s} : HasStop(r)' = HasStop(r)
  <2>1. \A r \in Subscribers \ {s} : queue'[r] = queue[r]
      BY DEF Unsubscribe, SessionInv, BusInv, BusTypeOK
  <2> QED
      BY <2>1 DEF HasStop, Has, Stop, E
<1>5. \A p \in Publishers : Stopping(p)' = Stopping(p) /\ publishing'[p] = publishing[p]
    BY DEF Stopping, Stop, E
<1>6. \A p \in Publishers, r \in Subscribers : Owed(p, r)' = Owed(p, r)
    BY <1>5 DEF Owed, Has
<1>7. "video" \in Subscribers /\ "listener" \in Subscribers /\ "done" \notin Reads("video")
    BY Names, Readers
<1>8. StopsReach'
    BY <1>3, <1>4, <1>5 DEF StopInv, StopsReach, Has
<1>9. VideoIsLast'
  <2> SUFFICES ASSUME pc'["video"] = "done" \/ (Subscribed("video")' /\ HasStop("video")'),
                      NEW r \in Subscribers, Subscribed(r)'
               PROVE  HasStop(r)'
      BY DEF VideoIsLast
  <2>1. pc["video"] = "done" \/ (Subscribed("video") /\ HasStop("video"))
      BY <1>1, <1>2, <1>3, <1>4, <1>7
  <2> QED
      BY <1>3, <1>4, <2>1 DEF StopInv, VideoIsLast
<1>10. ListenerIsFirst'
  <2> SUFFICES ASSUME stopped' \/ (Subscribed("listener")' /\ HasStop("listener")'),
                      NEW r \in Subscribers, Subscribed(r)'
               PROVE  HasStop(r)' \/ \E p \in Publishers : Owed(p, r)'
      BY DEF ListenerIsFirst
  <2>1. stopped \/ (Subscribed("listener") /\ HasStop("listener"))
      BY <1>1, <1>2, <1>3, <1>4, <1>7
  <2>2. HasStop(r) \/ \E p \in Publishers : Owed(p, r)
      BY <1>3, <2>1 DEF StopInv, ListenerIsFirst
  <2> QED
      BY <1>3, <1>4, <1>6, <2>2
<1>11. ReadersListed'
    BY <1>3 DEF StopInv, ReadersListed, Reads
<1> QED
    BY <1>8, <1>9, <1>10, <1>11 DEF StopInv

\* Before every worker is ready no Shutdown is anywhere.
LEMMA StopSubscribes ==
    ASSUME SessionInv, StopInv, VideoStarts
    PROVE  StopInv'
<1>1. /\ UNCHANGED <<queue, publishing, stopped, session>> /\ Ready
      /\ Subscribe("video", VideoTypes) /\ session = "running"
      /\ pc["video"] = "starting" /\ pc' = [pc EXCEPT !["video"] = "first"]
    BY AtIs DEF VideoStarts, Goto
<1>2. /\ pending # 0 /\ pending' = pending - 1 /\ pending' \in Nat
      /\ pc \in [Tasks -> Labels] /\ "video" \in Tasks
    BY <1>1 DEF Ready, SessionInv, TasksInv, TaskTypes, Tasks, ReadyIsCounted, Owes
<1>3. /\ ~stopped' /\ \A s \in Subscribers : ~HasStop(s)'
      /\ \A p \in Publishers : ~Stopping(p)'
    BY <1>1, <1>2, EmptySeq
       DEF SessionInv, TasksInv, BusInv, NothingBegun, NothingSent, HasStop, Has, Stopping
<1>4. StillReads /\ pc'["video"] = "first"
    BY <1>1, <1>2, Readers DEF StillReads
<1>5. \A r : Subscribed(r)' <=> Subscribed(r) \/ r = "video"
  <2>1. \A r : Has(listed'["shutdown"], r) <=> Has(listed["shutdown"], r) \/ r = "video"
      BY <1>1, <1>2, <1>4, SubscribeKeeps, Names DEF SessionInv
  <2>2. \A r : Subscribed(r)' = Has(listed'["shutdown"], r)
      BY DEF Subscribed, Has
  <2> QED
      BY <2>1, <2>2 DEF Subscribed
<1>6. ReadersListed'
    BY <1>1, <1>2, <1>5 DEF StopInv, ReadersListed, Reads
<1>7. "video" \in Subscribers /\ "listener" \in Subscribers
    BY Names
<1>8. StopsReach' /\ VideoIsLast' /\ ListenerIsFirst'
    BY <1>3, <1>4, <1>7 DEF StopsReach, VideoIsLast, ListenerIsFirst
<1> QED
    BY <1>6, <1>8 DEF StopInv

\* When the lifecycle worker is cancelled, whoever it would have told has been told.
LEMMA StopCancels ==
    ASSUME SessionInv, StopInv, MainFinishes
    PROVE  StopInv'
<1>1. /\ pc["video"] = "done" /\ session = "running"
      /\ pc' = [pc EXCEPT !["main"] = "done", !["lifecycle"] = "done"]
      /\ publishing' = [publishing EXCEPT !["lifecycle"] = Idle]
      /\ UNCHANGED <<listed, queue, stopped, session>>
    BY AtIs DEF MainFinishes
<1>2. \A s \in Subscribers : pc'[s] = pc[s]
    BY <1>1, Names DEF SessionInv, TasksInv, TaskTypes, Tasks
<1>3. \A s \in Subscribers : HasStop(s)' = HasStop(s) /\ Subscribed(s)' = Subscribed(s)
    BY <1>1 DEF HasStop, Subscribed, Has, Stop, E
<1>4. \A s \in Subscribers : Subscribed(s)' => HasStop(s)'
    BY <1>1, <1>3 DEF StopInv, VideoIsLast
<1>5. StopsReach' /\ VideoIsLast' /\ ListenerIsFirst'
    BY <1>4 DEF StopsReach, VideoIsLast, ListenerIsFirst
<1>6. ReadersListed'
    BY <1>1, <1>2, <1>3 DEF StopInv, ReadersListed, Reads
<1> QED
    BY <1>5, <1>6 DEF StopInv

LEMMA StopAborts ==
    ASSUME SessionInv, StopInv, NEW how \in {"failed", "cancelled"}, Abort(how)
    PROVE  StopInv'
<1>1. /\ session' # "running" /\ \A p \in Publishers : publishing'[p] = Idle
      /\ listed'["shutdown"] = <<>>
    BY Names DEF Abort
<1>2. \A s \in Subscribers : ~Subscribed(s)'
    BY <1>1, EmptySeq DEF Subscribed, Has
<1>3. \A p \in Publishers : ~Stopping(p)'
    BY <1>1 DEF Stopping, Idle
<1> QED
    BY <1>1, <1>2, <1>3 DEF StopInv, StopsReach, VideoIsLast, ListenerIsFirst, ReadersListed

\* At first nobody publishes and everyone who reads is subscribed.
LEMMA StopBegins == Init => StopInv
<1> SUFFICES ASSUME Init
             PROVE  StopInv
    OBVIOUS
<1>1. /\ listed["shutdown"] = <<"listener", "delayed", "timeout", "stopper">>
      /\ pc["video"] = "none" /\ ~stopped
    BY Names DEF Init, EarlyLists, Tasks
<1>2. (\A s \in Subscribers : ~HasStop(s)) /\ \A p \in Publishers : ~Stopping(p)
    BY EmptySeq DEF Init, HasStop, Has, Stopping, Idle
<1>3. ReadersListed
  <2> DEFINE four == <<"listener", "delayed", "timeout", "stopper">>
  <2>1. /\ DOMAIN four = 1..4 /\ four[1] = "listener" /\ four[2] = "delayed"
        /\ four[3] = "timeout" /\ four[4] = "stopper"
      OBVIOUS
  <2>2. listed["shutdown"] = four
      BY <1>1
  <2> HIDE DEF four
  <2>3. \A s \in {"listener", "delayed", "timeout", "stopper"} : Has(four, s)
      BY <2>1 DEF Has
  <2>4. "none" \notin Reads("video")
      BY Readers
  <2> QED
      BY <1>1, <2>2, <2>3, <2>4, Names DEF ReadersListed, Subscribed
<1> QED
    BY <1>1, <1>2, <1>3, Names DEF StopInv, StopsReach, VideoIsLast, ListenerIsFirst

\* The actions that do not touch what is read, published or subscribed.
LEMMA StopQuiet ==
    ASSUME SessionInv, StopInv,
           \/ PeerConnects \/ PeerIsLost \/ PeerPlays \/ EngineConnects \/ LoopEnds \/ LoopWakes
           \/ VideoSounds \/ LifecycleStarts \/ SessionEnds \/ UNCHANGED vars
    PROVE  StopInv'
<1>1. /\ UNCHANGED <<listed, queue, publishing, stopped>>
      /\ session' = "running" => session = "running"
      /\ \/ pc' = pc
         \/ pc["video"] = "sounding" /\ pc' = [pc EXCEPT !["video"] = "playing"]
         \/ \E t \in {"lifecycle", "engine", "loop"}, label \in Labels :
               pc' = [pc EXCEPT ![t] = label]
    BY AtIs DEF PeerConnects, PeerIsLost, PeerPlays, EngineConnects, LoopEnds, LoopWakes,
                VideoSounds, LifecycleStarts, SessionEnds, vars, busVars, sessionVars, Goto,
                Labels, Ready
<1>2. /\ \A s \in Subscribers : pc'[s] \in Reads(s) => pc[s] \in Reads(s)
      /\ pc'["video"] = "done" => pc["video"] = "done"
    BY <1>1, Names, Readers DEF SessionInv, TasksInv, TaskTypes, Tasks
<1> QED
    BY <1>1, <1>2, StopStays

\* The actions that publish.
LEMMA StopPublishes ==
    ASSUME SessionInv, StopInv,
           \/ LoopSchedules \/ LoopPublishesFrame \/ MainConnected \/ VideoAnnounces
           \/ LifecycleLeaves \/ DelayedPublishes \/ StopperPublishes
           \/ \E k \in {"absent", "maximum"} : TimerFires(k)
    PROVE  StopInv'
<1> DEFINE Publishes(p, t) ==
              /\ PublishFrom(p, t) /\ UNCHANGED <<pending, listed, stopped, session>>
              /\ \/ pc' = pc
                 \/ \E x \in {"loop", "lifecycle"}, label \in Labels : pc' = [pc EXCEPT ![x] = label]
                 \/ /\ pc["video"] = "announcing"
                    /\ \E next \in AfterFrame : pc' = [pc EXCEPT !["video"] = next]
                 \/ pc["delayed"] = "waiting" /\ pc' = [pc EXCEPT !["delayed"] = "reading"]
                 \/ pc' = [pc EXCEPT !["stopper"] = "done"]
<1>1. ASSUME NEW p \in Publishers, NEW t \in Types, Publishes(p, t)
      PROVE  StopInv'
  <2>1. SameReaders
      BY <1>1, Names, Readers DEF SameReaders, AfterFrame, SessionInv, TasksInv, TaskTypes, Tasks
  <2> QED
      BY <1>1, <2>1, StopPublish
<1>2. CASE MainConnected
  <2>1. /\ pc["main"] = "connecting" /\ PublishFrom("main", "joined") /\ pending' = pending + 1
        /\ UNCHANGED <<listed, stopped, session>>
        /\ pc' = [pc EXCEPT !["main"] = "awaiting", !["video"] = "starting",
                            !["lifecycle"] = "starting"]
      BY <1>2, AtIs DEF MainConnected, Clone
  <2>2. ~AllReady
      BY <2>1 DEF AllReady, SessionInv, TasksInv, TaskTypes, ReadyIsCounted, Owes
  <2>3. /\ publishing["main"] = Idle /\ queue' = queue
        /\ publishing' = [publishing EXCEPT !["main"] = Waiting(E("joined"))]
      BY <2>1, <2>2 DEF PublishFrom, Publish
  <2>4. /\ "main" \in Publishers /\ "joined" \in Types /\ "shutdown" \in Types
        /\ E("joined") \in Events /\ E("joined") # Stop
      BY Names DEF Stop
  <2>5. Waiting(E("joined")).at = "waiting" /\ publishing \in [Publishers -> PublisherState]
      BY <2>4, WaitingIs DEF SessionInv, BusInv, BusTypeOK
  <2>6. \A p \in Publishers :
          IF p = "main" THEN publishing[p].at = "idle" /\ publishing'[p].at = "waiting"
                        ELSE publishing'[p] = publishing[p]
      BY <2>3, <2>4, <2>5 DEF Idle
  <2>7. \A p \in Publishers : /\ Stopping(p)' = Stopping(p)
                              /\ Stopping(p) => publishing'[p] = publishing[p]
      BY <2>6 DEF Stopping, Stop, E
  <2>8. \A s \in Subscribers : HasStop(s)' = HasStop(s)
      BY <2>3 DEF HasStop, Has, Stop, E
  <2>9. /\ pc'["video"] = "starting"
        /\ \A s \in Subscribers : pc'[s] \in Reads(s) => pc[s] \in Reads(s)
      BY <2>1, Names, Readers DEF SessionInv, TasksInv, TaskTypes, Tasks
  <2>10. /\ listed' = listed /\ stopped' = stopped
         /\ session' = "running" => session = "running"
         /\ pc'["video"] = "done" => pc["video"] = "done"
      BY ONLY <2>1, <2>9
  <2> QED
      BY <2>7, <2>8, <2>9, <2>10, StopAlike
<1>3. CASE LoopSchedules
  <2>1. Publishes("loop", "scheduled")
      BY <1>3 DEF LoopSchedules, Goto, Labels
  <2> QED
      BY <1>1, <2>1, Names
<1>4. CASE LoopPublishesFrame
  <2>1. Publishes("loop", "frame")
      BY <1>4 DEF LoopPublishesFrame, Goto, Labels
  <2> QED
      BY <1>1, <2>1, Names
<1>5. CASE VideoAnnounces
  <2>1. Publishes("video", "started")
      BY <1>5 DEF VideoAnnounces, Goto
  <2> QED
      BY <1>1, <2>1, Names
<1>6. CASE LifecycleLeaves
  <2>1. Publishes("lifecycle", "left") \/ Publishes("lifecycle", "shutdown")
      BY <1>6 DEF LifecycleLeaves, LifecyclePublishes, Goto, Labels
  <2> QED
      BY <1>1, <2>1, Names
<1>7. CASE DelayedPublishes
  <2>1. Publishes("delayed", "playback")
      BY <1>7, AtIs DEF DelayedPublishes, Goto
  <2> QED
      BY <1>1, <2>1, Names
<1>8. CASE StopperPublishes
  <2>1. Publishes("stopper", "shutdown")
      BY <1>8 DEF StopperPublishes, Goto
  <2> QED
      BY <1>1, <2>1, Names
<1>9. CASE \E k \in {"absent", "maximum"} : TimerFires(k)
  <2>1. PICK k \in {"absent", "maximum"} : Publishes(k, "shutdown")
      BY <1>9 DEF TimerFires
  <2> QED
      BY <1>1, <2>1, Names
<1> QED
    BY <1>2, <1>3, <1>4, <1>5, <1>6, <1>7, <1>8, <1>9

\* The actions that read.
LEMMA StopReads ==
    ASSUME SessionInv, StopInv,
           \/ VideoFirstFrame \/ VideoPlays \/ DelayedTakes
           \/ TimeoutStarted \/ TimeoutJoined \/ TimeoutLeft
    PROVE  StopInv'
<1>1. PICK s \in Subscribers, t \in Types :
         /\ t # "shutdown" /\ TakesNext(s, t) /\ Get(s)
         /\ UNCHANGED <<listed, publishing, stopped, session>>
         /\ \/ pc' = pc
            \/ pc["video"] = "first" /\ pc' = [pc EXCEPT !["video"] = "announcing"]
            \/ /\ pc["video"] = "playing"
               /\ \E next \in AfterFrame : pc' = [pc EXCEPT !["video"] = next]
            \/ pc["delayed"] = "reading" /\ pc' = [pc EXCEPT !["delayed"] = "waiting"]
  <2> DEFINE Reading(s, t) ==
                /\ t # "shutdown" /\ TakesNext(s, t) /\ Get(s)
                /\ UNCHANGED <<listed, publishing, stopped, session>>
                /\ \/ pc' = pc
                   \/ pc["video"] = "first" /\ pc' = [pc EXCEPT !["video"] = "announcing"]
                   \/ /\ pc["video"] = "playing"
                      /\ \E next \in AfterFrame : pc' = [pc EXCEPT !["video"] = next]
                   \/ pc["delayed"] = "reading" /\ pc' = [pc EXCEPT !["delayed"] = "waiting"]
  <2>1. CASE VideoFirstFrame
    <3>1. Reading("video", "frame")
        BY <2>1, AtIs DEF VideoFirstFrame, Goto
    <3> QED
        BY <3>1, Names
  <2>2. CASE VideoPlays
    <3>1. Reading("video", "frame")
        BY <2>2, AtIs DEF VideoPlays, Goto
    <3> QED
        BY <3>1, Names
  <2>3. CASE DelayedTakes
    <3>1. Reading("delayed", "scheduled")
        BY <2>3, AtIs DEF DelayedTakes, Goto
    <3> QED
        BY <3>1, Names
  <2>4. CASE TimeoutStarted \/ TimeoutJoined \/ TimeoutLeft
    <3>1. Reading("timeout", "started") \/ Reading("timeout", "joined") \/ Reading("timeout", "left")
        BY <2>4 DEF TimeoutStarted, TimeoutJoined, TimeoutLeft, TimeoutTakes
    <3> QED
        BY <3>1, Names
  <2> QED
      BY <2>1, <2>2, <2>3, <2>4
<1>2. SameReaders
    BY <1>1, Names, Readers DEF SameReaders, AfterFrame, SessionInv, TasksInv, TaskTypes, Tasks
<1> QED
    BY <1>1, <1>2, StopGets

\* The actions that leave.
LEMMA StopEnds ==
    ASSUME SessionInv, StopInv,
           ListenerShutsDown \/ VideoStops \/ DelayedStops \/ TimeoutStops \/ StopperTakes
    PROVE  StopInv'
<1> DEFINE Leaving(s) ==
              /\ TakesNext(s, "shutdown") /\ Unsubscribe(s) /\ session = "running"
              /\ pc[s] \in Reads(s) /\ UNCHANGED <<pending, publishing, session>>
              /\ \E label \in {"needed", "done"} : pc' = [pc EXCEPT ![s] = label]
              /\ stopped' # stopped => s = "listener"
<1>1. ASSUME NEW s \in Subscribers, Leaving(s)
      PROVE  StopInv'
  <2>1. pc \in [Tasks -> Labels] /\ s \in Tasks
      BY Names DEF SessionInv, TasksInv, TaskTypes, Tasks
  <2>2. pc'[s] \notin Reads(s) /\ \A r \in Subscribers \ {s} : pc'[r] = pc[r]
      BY <1>1, <2>1, Names, Readers DEF Tasks
  <2> QED
      BY <1>1, <2>2, StopLeaves
<1>2. CASE ListenerShutsDown
  <2>1. Leaving("listener")
      BY <1>2, AtIs, Readers DEF ListenerShutsDown, Leaves, Goto
  <2> QED
      BY <1>1, <2>1, Names
<1>3. CASE VideoStops
  <2>1. Leaving("video")
      BY <1>3, AtIs, Readers DEF VideoStops, Leaves, Goto
  <2> QED
      BY <1>1, <2>1, Names
<1>4. CASE DelayedStops
  <2>1. Leaving("delayed")
      BY <1>4, AtIs, Readers DEF DelayedStops, Leaves, Goto
  <2> QED
      BY <1>1, <2>1, Names
<1>5. CASE TimeoutStops
  <2>1. Leaving("timeout")
      BY <1>5, AtIs, Readers DEF TimeoutStops, TimeoutTakes, Leaves, Goto
  <2> QED
      BY <1>1, <2>1, Names
<1>6. CASE StopperTakes
  <2>1. Leaving("stopper")
      BY <1>6, AtIs, Readers DEF StopperTakes, Goto
  <2> QED
      BY <1>1, <2>1, Names
<1> QED
    BY <1>2, <1>3, <1>4, <1>5, <1>6

LEMMA StopStep == SessionInv /\ StopInv /\ [Next]_vars => StopInv'
<1> SUFFICES ASSUME SessionInv, StopInv, [Next]_vars
             PROVE  StopInv'
    OBVIOUS
<1>1. DOMAIN timer = {"absent", "maximum"}
    BY DEF SessionInv, TasksInv, TaskTypes
<1>2. CASE Fails \/ Cancelled
    BY <1>2, StopAborts DEF Fails, Cancelled
<1>3. CASE \E p \in Publishers : Continue(p)
    BY <1>3, StopGoesOn
<1>4. CASE VideoStarts
    BY <1>4, StopSubscribes
<1>5. CASE MainFinishes
    BY <1>5, StopCancels
<1>6. CASE \/ PeerConnects \/ PeerIsLost \/ PeerPlays \/ EngineConnects \/ LoopEnds
           \/ LoopWakes \/ VideoSounds \/ LifecycleStarts \/ SessionEnds \/ Terminated
           \/ UNCHANGED vars
    BY <1>6, StopQuiet DEF Terminated
<1>7. CASE \/ LoopSchedules \/ LoopPublishesFrame \/ MainConnected \/ VideoAnnounces
           \/ LifecycleLeaves \/ DelayedPublishes \/ StopperPublishes
           \/ \E k \in {"absent", "maximum"} : TimerFires(k)
    BY <1>7, StopPublishes
<1>8. CASE \/ VideoFirstFrame \/ VideoPlays \/ DelayedTakes
           \/ TimeoutStarted \/ TimeoutJoined \/ TimeoutLeft
    BY <1>8, StopReads
<1>9. CASE ListenerShutsDown \/ VideoStops \/ DelayedStops \/ TimeoutStops \/ StopperTakes
    BY <1>9, StopEnds
<1> QED
    BY <1>1, <1>2, <1>3, <1>4, <1>5, <1>6, <1>7, <1>8, <1>9
       DEF Next, Loop, Main, Video, Lifecycle, Delayed, Timeout, Stopper

\* Once the render loop is told to stop, so is every other worklet, although the
\* lifecycle worker's Shutdown can be cancelled while it waits for a full queue
\* (run_stream and the worklets it starts).
THEOREM NobodyLeft == Spec => []NobodyLeftBehind
<1>1. Init => SessionInv /\ StopInv
    BY SessionBegins, StopBegins
<1>2. SessionInv /\ StopInv /\ [Next]_vars => (SessionInv /\ StopInv)'
    BY SessionStep, StopStep
<1>3. SessionInv /\ StopInv => NobodyLeftBehind
  <2> SUFFICES ASSUME StopInv, session = "running", stopped,
                      NEW s \in Subscribers, SubscribedTo(s, "shutdown")
               PROVE  ToldToStop(s)
      BY DEF NobodyLeftBehind
  <2>1. Subscribed(s)
      BY DEF SubscribedTo, Subscribed, Has
  <2>2. HasStop(s) \/ \E p \in Publishers : Owed(p, s)
      BY <2>1 DEF StopInv, ListenerIsFirst
  <2> QED
      BY <2>2 DEF ToldToStop, HasStop, Owed, Stopping, Has, Stop
<1> QED
    BY <1>1, <1>2, <1>3, PTL DEF Spec

-----------------------------------------------------------------------------
(***************************************************************************)
(* The absence timer is free.  The peer's worklet publishes that its       *)
(* participant has joined before its lifecycle worker can publish that he  *)
(* has left, the bus lets the publishers it held go on in the order they   *)
(* came, and the queue of the timeout worklet keeps the order.  So whoever *)
(* leaves has been counted, and while he was counted no timer was armed.   *)
(***************************************************************************)

Moves == {E("joined"), E("left")}
Mail == queue["timeout"]
OnItsWay == publishing["main"] # Idle
Leaving == publishing["lifecycle"] # Idle /\ publishing["lifecycle"].event = E("left")

\* Of two moves the first is the arrival and the second the departure.
Ordered(list) ==
    \A i, j \in DOMAIN list : i < j /\ list[i] \in Moves /\ list[j] \in Moves =>
        list[i] = E("joined") /\ list[j] = E("left")

\* The lifecycle worker does not go on before the main task.
MainFirst(list) ==
    \A j \in DOMAIN list : list[j] = "lifecycle" =>
        \E i \in DOMAIN list : i < j /\ list[i] = "main"

LEMMA OrderedAppend ==
    ASSUME NEW S, NEW s \in Seq(S), NEW x \in S, Ordered(s),
           x = E("joined") => \A m \in Moves : ~Has(s, m),
           x = E("left") => ~Has(s, E("left"))
    PROVE  Ordered(Append(s, x))
<1> SUFFICES ASSUME NEW i \in DOMAIN Append(s, x), NEW j \in DOMAIN Append(s, x), i < j,
                    Append(s, x)[i] \in Moves, Append(s, x)[j] \in Moves
             PROVE  Append(s, x)[i] = E("joined") /\ Append(s, x)[j] = E("left")
    BY DEF Ordered
<1>1. /\ DOMAIN Append(s, x) = 1..(Len(s) + 1) /\ Append(s, x)[Len(s) + 1] = x
      /\ DOMAIN s = 1..Len(s) /\ Len(s) \in Nat
      /\ \A k \in 1..Len(s) : Append(s, x)[k] = s[k]
    BY AppendHas
<1>2. i \in 1..Len(s) /\ Append(s, x)[i] = s[i] /\ Has(s, s[i])
    BY <1>1 DEF Has
<1>3. CASE j \in 1..Len(s)
    BY <1>1, <1>2, <1>3 DEF Ordered
<1>4. CASE j = Len(s) + 1
  <2>1. Append(s, x)[j] = x /\ s[i] \in Moves
      BY <1>1, <1>2, <1>4
  <2> QED
      BY <1>2, <2>1 DEF Moves
<1> QED
    BY <1>1, <1>3, <1>4

LEMMA OrderedTail ==
    ASSUME NEW S, NEW s \in Seq(S), s # <<>>, Ordered(s)
    PROVE  /\ Ordered(Tail(s))
           /\ Head(s) \in Moves => ~Has(Tail(s), E("joined"))
           /\ Head(s) = E("left") => ~Has(Tail(s), E("left"))
<1>1. /\ Len(s) \in Nat \ {0} /\ DOMAIN s = 1..Len(s) /\ Head(s) = s[1]
      /\ DOMAIN Tail(s) = 1..(Len(s) - 1)
      /\ \A i \in 1..(Len(s) - 1) : Tail(s)[i] = s[i + 1]
    BY TailHas
<1>2. Ordered(Tail(s))
  <2> SUFFICES ASSUME NEW i \in 1..(Len(s) - 1), NEW j \in 1..(Len(s) - 1), i < j,
                      Tail(s)[i] \in Moves, Tail(s)[j] \in Moves
               PROVE  Tail(s)[i] = E("joined") /\ Tail(s)[j] = E("left")
      BY <1>1 DEF Ordered
  <2>1. /\ i + 1 \in DOMAIN s /\ j + 1 \in DOMAIN s /\ i + 1 < j + 1
        /\ Tail(s)[i] = s[i + 1] /\ Tail(s)[j] = s[j + 1]
      BY <1>1
  <2> QED
      BY <2>1 DEF Ordered
<1>3. ASSUME NEW e \in Moves, Has(Tail(s), e), Head(s) \in Moves
      PROVE  Head(s) = E("joined") /\ e = E("left")
  <2>1. PICK i \in 1..(Len(s) - 1) : Tail(s)[i] = e
      BY <1>1, <1>3 DEF Has
  <2>2. 1 \in DOMAIN s /\ i + 1 \in DOMAIN s /\ 1 < i + 1 /\ s[i + 1] = e
      BY <1>1, <2>1
  <2> QED
      BY <1>1, <1>3, <2>2 DEF Ordered
<1>4. E("joined") # E("left") /\ Moves = {E("joined"), E("left")}
    BY DEF E, Moves
<1> QED
    BY <1>2, <1>3, <1>4

LEMMA FirstAppend ==
    ASSUME NEW S, NEW s \in Seq(S), NEW x \in S, MainFirst(s),
           x # "lifecycle" \/ Has(s, "main")
    PROVE  MainFirst(Append(s, x))
<1> SUFFICES ASSUME NEW j \in DOMAIN Append(s, x), Append(s, x)[j] = "lifecycle"
             PROVE  \E i \in DOMAIN Append(s, x) : i < j /\ Append(s, x)[i] = "main"
    BY DEF MainFirst
<1>1. /\ DOMAIN Append(s, x) = 1..(Len(s) + 1) /\ Append(s, x)[Len(s) + 1] = x
      /\ DOMAIN s = 1..Len(s) /\ Len(s) \in Nat
      /\ \A k \in 1..Len(s) : Append(s, x)[k] = s[k]
    BY AppendHas
<1>2. \E i \in 1..Len(s) : i < j /\ s[i] = "main"
  <2>1. CASE j \in 1..Len(s)
      BY <1>1, <2>1 DEF MainFirst
  <2>2. CASE j = Len(s) + 1
      BY <1>1, <2>2 DEF Has
  <2> QED
      BY <1>1, <2>1, <2>2
<1> QED
    BY <1>1, <1>2

LEMMA FirstTail ==
    ASSUME NEW S, NEW s \in Seq(S), s # <<>>, MainFirst(s)
    PROVE  Head(s) # "lifecycle" /\ (Head(s) # "main" => MainFirst(Tail(s)))
<1>1. /\ Len(s) \in Nat \ {0} /\ DOMAIN s = 1..Len(s) /\ Head(s) = s[1]
      /\ DOMAIN Tail(s) = 1..(Len(s) - 1)
      /\ \A i \in 1..(Len(s) - 1) : Tail(s)[i] = s[i + 1]
    BY TailHas
<1>2. Head(s) # "lifecycle"
    BY <1>1 DEF MainFirst
<1>3. ASSUME Head(s) # "main", NEW j \in 1..(Len(s) - 1), Tail(s)[j] = "lifecycle"
      PROVE  \E i \in 1..(Len(s) - 1) : i < j /\ Tail(s)[i] = "main"
  <2>1. j + 1 \in DOMAIN s /\ s[j + 1] = "lifecycle"
      BY <1>1, <1>3
  <2>2. PICK k \in DOMAIN s : k < j + 1 /\ s[k] = "main"
      BY <2>1 DEF MainFirst
  <2>3. k - 1 \in 1..(Len(s) - 1) /\ k - 1 < j /\ (k - 1) + 1 = k
      BY <1>1, <1>3, <2>2
  <2>4. Tail(s)[k - 1] = "main"
      BY <1>1, <2>2, <2>3
  <2> QED
      BY <2>3, <2>4
<1> QED
    BY <1>1, <1>2, <1>3 DEF MainFirst

Early == {"starting", "watching", "leaving"}
Before == {"none"} \cup Early

\* Who waits for the workers, in which order, and with what.
HeldAre ==
    /\ \A p \in Publishers :
          publishing[p].at = "waiting" => p \in {"loop", "main", "lifecycle"} /\ Has(waiters, p)
    /\ publishing["loop"].at = "waiting" =>
          publishing["loop"].event \in {E("frame"), E("scheduled")}
    /\ pc["video"] = "announcing" => waiters = <<>>
    /\ OnItsWay => MainFirst(waiters)

\* Who says who comes and goes.
MoversAre ==
    /\ \A p \in Publishers : publishing[p] # Idle =>
          /\ publishing[p].event = E("joined") => p = "main"
          /\ publishing[p].event = E("left") => p = "lifecycle"
    /\ publishing["main"] \in {Idle, Waiting(E("joined"))}
    /\ pc["main"] = "connecting" => ~OnItsWay
    /\ pc["lifecycle"] \in Before =>
          publishing["lifecycle"] = Idle /\ ~Has(waiters, "lifecycle")
    /\ Leaving /\ publishing["lifecycle"].at = "blocked" =>
          \A s \in Subscribers : Has(publishing["lifecycle"].rest, s) => s = "timeout"

\* While it counts, the timeout worklet is the one that is told.
Counts == pc["timeout"] = "reading" /\ session = "running"
CounterIsListed ==
    /\ \A t \in Types : Has(listed[t], "timeout") => t \in {"started", "joined", "left", "shutdown"}
    /\ \A t \in {"joined", "left"}, s \in Subscribers : Has(listed[t], s) => s = "timeout"
    /\ Counts => Has(listed["joined"], "timeout")

\* The participant on his way, in the queue, counted and gone.
IsComing == OnItsWay \/ Has(Mail, E("joined")) \/ participants = 1
MayLeave == pc["lifecycle"] \in Early \/ Leaving \/ Has(Mail, E("left"))
CountIsRight ==
    Counts =>
        /\ Ordered(Mail)
        /\ pc["main"] = "connecting" => ~Has(Mail, E("joined")) /\ participants = 0
        /\ OnItsWay => Mail = <<>> /\ participants = 0
        /\ Has(Mail, E("joined")) => participants = 0
        /\ participants # 0 => participants = 1 /\ timer["absent"] = "off"
        /\ MayLeave => IsComing
        /\ Has(Mail, E("left")) => ~Leaving /\ pc["lifecycle"] \notin Early

JoinInv == HeldAre /\ MoversAre /\ CounterIsListed /\ CountIsRight

-----------------------------------------------------------------------------
\* The count stays right as long as what arrives in the queue of the timeout worklet
\* is no arrival, and no departure unless somebody may leave.
LEMMA CountStays ==
    ASSUME SessionInv, JoinInv, Counts' => Counts, OnItsWay' = OnItsWay,
           participants' = participants,
           participants # 0 => timer'["absent"] = timer["absent"],
           pc'["main"] = "connecting" => pc["main"] = "connecting",
           pc'["lifecycle"] \in Early => pc["lifecycle"] \in Early,
           Leaving' => Leaving \/ pc["lifecycle"] \in Early,
           NEW e \in Events,
           \/ queue'["timeout"] = Mail
           \/ /\ queue'["timeout"] = Append(Mail, e) /\ ~OnItsWay /\ e # E("joined")
              /\ e = E("left") =>
                    /\ Leaving \/ pc["lifecycle"] \in Early
                    /\ ~Leaving' /\ pc'["lifecycle"] \notin Early
    PROVE  CountIsRight'
<1> SUFFICES ASSUME Counts'
             PROVE  /\ Ordered(queue'["timeout"])
                    /\ pc'["main"] = "connecting" =>
                          ~Has(queue'["timeout"], E("joined")) /\ participants' = 0
                    /\ OnItsWay' => queue'["timeout"] = <<>> /\ participants' = 0
                    /\ Has(queue'["timeout"], E("joined")) => participants' = 0
                    /\ participants' # 0 => participants' = 1 /\ timer'["absent"] = "off"
                    /\ pc'["lifecycle"] \in Early \/ Leaving' \/ Has(queue'["timeout"], E("left")) =>
                          OnItsWay' \/ Has(queue'["timeout"], E("joined")) \/ participants' = 1
                    /\ Has(queue'["timeout"], E("left")) => ~Leaving' /\ pc'["lifecycle"] \notin Early
    BY DEF CountIsRight, MayLeave, IsComing, Mail, Has, Ordered, E, Moves
<1> DEFINE mail == queue'["timeout"]
<1>1. /\ Ordered(Mail)
      /\ pc["main"] = "connecting" => ~Has(Mail, E("joined")) /\ participants = 0
      /\ OnItsWay => Mail = <<>> /\ participants = 0
      /\ Has(Mail, E("joined")) => participants = 0
      /\ participants # 0 => participants = 1 /\ timer["absent"] = "off"
      /\ MayLeave => IsComing
      /\ Has(Mail, E("left")) => ~Leaving /\ pc["lifecycle"] \notin Early
      /\ Mail \in Seq(Events)
    BY Names DEF JoinInv, CountIsRight, SessionInv, BusInv, BusTypeOK, Mail
<1>2. CASE mail = Mail
    BY <1>1, <1>2 DEF MayLeave, IsComing
<1>3. CASE mail # Mail
  <2>1. /\ mail = Append(Mail, e) /\ ~OnItsWay /\ e # E("joined")
        /\ e = E("left") => /\ Leaving \/ pc["lifecycle"] \in Early
                            /\ ~Leaving' /\ pc'["lifecycle"] \notin Early
      BY <1>3
  <2> HIDE DEF mail
  <2>2. \A x : Has(mail, x) <=> Has(Mail, x) \/ x = e
      BY <1>1, <2>1, AppendHas
  <2>3. Ordered(mail)
    <3>1. e = E("left") => ~Has(Mail, E("left"))
        BY <1>1, <2>1
    <3> QED
        BY <1>1, <2>1, <3>1, OrderedAppend
  <2>4. /\ Has(mail, E("joined")) <=> Has(Mail, E("joined"))
        /\ Has(mail, E("left")) <=> Has(Mail, E("left")) \/ e = E("left")
      BY <2>1, <2>2
  <2> QED
      BY <1>1, <2>1, <2>3, <2>4 DEF MayLeave, IsComing, mail
<1> QED
    BY <1>2, <1>3

\* What a step that has nothing to do with the count leaves alone.
CountApart ==
    /\ (Counts' => Counts) /\ participants' = participants
    /\ participants # 0 => timer'["absent"] = timer["absent"]
    /\ pc'["main"] = "connecting" => pc["main"] = "connecting"
    /\ pc'["lifecycle"] \in Early => pc["lifecycle"] \in Early
    /\ pc'["lifecycle"] \in Before => pc["lifecycle"] \in Before

\* An event that is no arrival is delivered.
LEMMA JoinDelivered ==
    ASSUME SessionInv, JoinInv, UNCHANGED listed, CountApart,
           NEW p \in Publishers, NEW e \in Events, NEW list, NEW names \in SUBSET Subscribers,
           Delivered(p, e, list, names), p # "main", e # E("joined"),
           p = "lifecycle" => pc'["lifecycle"] \notin Before,
           OnItsWay => "timeout" \notin names,
           e = E("left") =>
               /\ p = "lifecycle" /\ (Leaving \/ pc["lifecycle"] \in Early)
               /\ \A s \in Subscribers : Has(list, s) => s = "timeout",
           \A q \in Publishers \ {p} : publishing[q].at = "waiting" => Has(waiters', q),
           MainFirst(waiters) => MainFirst(waiters'),
           ~Has(waiters, "lifecycle") => ~Has(waiters', "lifecycle"),
           pc'["video"] = "announcing" => waiters' = <<>>
    PROVE  JoinInv'
<1>1. /\ "main" \in Publishers /\ "loop" \in Publishers /\ "lifecycle" \in Publishers
      /\ "timeout" \in Subscribers /\ E("joined") # E("left") /\ Idle.at = "idle"
      /\ E("frame") \in Events
    BY Names DEF Idle
<1>2. \A q \in Publishers \ {p} : publishing'[q] = publishing[q]
    BY DEF Delivered
<1>3. publishing'[p] = Idle \/ (publishing'[p].at = "blocked" /\ publishing'[p].event = e)
    BY DEF Delivered
<1>4. publishing'[p].at # "waiting"
    BY <1>1, <1>3
<1>5. OnItsWay' = OnItsWay
    BY <1>1, <1>2 DEF OnItsWay
<1>6. HeldAre'
  <2>1. OnItsWay' => MainFirst(waiters')
      BY <1>5 DEF JoinInv, HeldAre
  <2>2. \A q \in Publishers : publishing'[q].at = "waiting" =>
            q \in {"loop", "main", "lifecycle"} /\ Has(waiters', q)
      BY <1>2, <1>4 DEF JoinInv, HeldAre
  <2>3. publishing'["loop"].at = "waiting" =>
            publishing'["loop"].event \in {E("frame"), E("scheduled")}
      BY <1>1, <1>2, <1>4 DEF JoinInv, HeldAre
  <2> QED
      BY <2>1, <2>2, <2>3 DEF HeldAre, Has, MainFirst, E
<1>7. MoversAre'
  <2>1. \A q \in Publishers : publishing'[q] # Idle =>
            /\ publishing'[q].event = E("joined") => q = "main"
            /\ publishing'[q].event = E("left") => q = "lifecycle"
      BY <1>2, <1>3 DEF JoinInv, MoversAre
  <2>2. /\ publishing'["main"] \in {Idle, Waiting(E("joined"))}
        /\ pc'["main"] = "connecting" => ~OnItsWay'
      BY <1>1, <1>2, <1>5 DEF JoinInv, MoversAre, CountApart
  <2>3. pc'["lifecycle"] \in Before =>
            publishing'["lifecycle"] = Idle /\ ~Has(waiters', "lifecycle")
      BY <1>1, <1>2 DEF JoinInv, MoversAre, CountApart
  <2>4. Leaving' /\ publishing'["lifecycle"].at = "blocked" =>
            \A s \in Subscribers : Has(publishing'["lifecycle"].rest, s) => s = "timeout"
    <3>1. CASE p = "lifecycle"
      <4> SUFFICES ASSUME publishing'[p] # Idle, publishing'[p].event = E("left"),
                          NEW s \in Subscribers, Has(publishing'[p].rest, s)
                   PROVE  s = "timeout"
          BY <3>1 DEF Leaving, E
      <4> QED
          BY <1>3 DEF Delivered
    <3>2. CASE p # "lifecycle"
        BY <1>1, <1>2, <3>2 DEF JoinInv, MoversAre, Leaving, E
    <3> QED
        BY <3>1, <3>2
  <2> QED
      BY <2>1, <2>2, <2>3, <2>4 DEF MoversAre, Has, E, Waiting, Idle, Leaving
<1>8. CounterIsListed'
  <2>1. Counts' => Counts
      BY DEF CountApart
  <2> QED
      BY <2>1 DEF JoinInv, CounterIsListed, Has
<1>9. CountIsRight'
  <2>1. Leaving' => Leaving \/ pc["lifecycle"] \in Early
      BY <1>1, <1>2, <1>3 DEF Leaving, E
  <2>2. queue'["timeout"] = IF "timeout" \in names THEN Append(Mail, e) ELSE Mail
      BY <1>1 DEF Delivered, Mail
  <2>3. ASSUME "timeout" \in names, e = E("left")
        PROVE  ~Leaving' /\ pc'["lifecycle"] \notin Early
    <3>1. publishing'[p] = Idle
        BY <2>3 DEF Delivered
    <3> QED
        BY <2>3, <3>1 DEF Leaving, Idle, Before
  <2>4. Counts' => Counts
      BY DEF CountApart
  <2> QED
      BY <1>5, <2>1, <2>2, <2>3, <2>4, CountStays DEF CountApart
<1> QED
    BY <1>6, <1>7, <1>8, <1>9 DEF JoinInv
\* Once the workers are ready and the bus has settled, nobody waits for them.
LEMMA NobodyWaits ==
    ASSUME SessionInv, JoinInv, pending = 0, Settled \/ pc["video"] = "announcing"
    PROVE  waiters = <<>> /\ ~OnItsWay /\ \A p \in Publishers : publishing[p].at # "waiting"
<1>1. waiters = <<>>
    BY DEF Settled, AllReady, JoinInv, HeldAre
<1>2. \A p \in Publishers : publishing[p].at # "waiting"
    BY <1>1, EmptySeq DEF JoinInv, HeldAre, Has
<1>3. Waiting(E("joined")).at = "waiting" /\ "main" \in Publishers
    BY Names, WaitingIs
<1> QED
    BY <1>1, <1>2, <1>3 DEF JoinInv, MoversAre, OnItsWay

\* Anybody but the main task begins a publication.
LEMMA JoinPublish ==
    ASSUME SessionInv, JoinInv, UNCHANGED <<pending, listed>>, CountApart,
           NEW p \in Publishers, NEW t \in Types, PublishFrom(p, t), p # "main", t # "joined",
           Settled \/ pc["video"] = "announcing", pc'["video"] # "announcing",
           p = "lifecycle" => pc'["lifecycle"] \notin Before,
           t = "left" => p = "lifecycle" /\ pc["lifecycle"] \in Early,
           pending # 0 => p \in {"loop", "lifecycle"},
           p = "loop" => t \in {"frame", "scheduled"}
    PROVE  JoinInv'
<1>1. /\ publishing[p] = Idle /\ E(t) \in Events /\ E(t) # E("joined")
      /\ (E(t) = E("left") => t = "left")
      /\ (Told(p, E(t), listed[t]) \/ Held(p, E(t)))
      /\ "main" \in Publishers /\ "lifecycle" \in Publishers /\ "loop" \in Publishers
      /\ waiters \in Seq(Publishers) /\ Idle.at = "idle" /\ "timeout" \in Subscribers
    BY Names, PublishTold DEF PublishFrom, SessionInv, TasksInv, TaskTypes, Idle
<1>2. CASE Told(p, E(t), listed[t])
  <2>1. PICK names \in SUBSET Subscribers : Delivered(p, E(t), listed[t], names)
      BY <1>2 DEF Told
  <2>2. waiters = <<>> /\ ~OnItsWay /\ \A q \in Publishers : publishing[q].at # "waiting"
      BY <1>2, NobodyWaits DEF Told
  <2>3. waiters' = waiters
      BY <1>2 DEF Told, PublishFrom, AllReady
  <2>4. t = "left" => \A s \in Subscribers : Has(listed[t], s) => s = "timeout"
      BY DEF JoinInv, CounterIsListed
  <2> QED
      BY <1>1, <2>1, <2>2, <2>3, <2>4, JoinDelivered
<1>3. CASE Held(p, E(t))
  <2>1. /\ queue' = queue /\ publishing' = [publishing EXCEPT ![p] = Waiting(E(t))]
        /\ publishing \in [Publishers -> PublisherState] /\ pending # 0
        /\ Waiting(E(t)).at = "waiting" /\ Waiting(E(t)).event = E(t) /\ Waiting(E(t)) # Idle
      BY <1>1, <1>3, WaitingIs DEF Held, SessionInv, BusInv, BusTypeOK
  <2>2. waiters' = Append(waiters, p)
      BY <2>1 DEF PublishFrom, AllReady
  <2>3. \A q : Has(waiters', q) <=> Has(waiters, q) \/ q = p
      BY <1>1, <2>2, AppendHas
  <2>4. \A q \in Publishers : publishing'[q] = IF q = p THEN Waiting(E(t)) ELSE publishing[q]
      BY <2>1
  <2>5. OnItsWay' = OnItsWay /\ pending' = pending /\ p \in {"loop", "lifecycle"}
      BY <1>1, <2>1, <2>4 DEF OnItsWay
  <2>6. HeldAre'
    <3>1. OnItsWay' => MainFirst(waiters')
      <4> SUFFICES ASSUME OnItsWay
                   PROVE  MainFirst(waiters')
          BY <2>5
      <4>1. Has(waiters, "main") /\ MainFirst(waiters)
        <5>1. Waiting(E("joined")).at = "waiting"
            BY DEF Waiting
        <5> QED
            BY <1>1, <5>1 DEF OnItsWay, JoinInv, HeldAre, MoversAre
      <4> QED
          BY <1>1, <2>2, <4>1, FirstAppend
    <3>2. \A q \in Publishers : publishing'[q].at = "waiting" =>
              q \in {"loop", "main", "lifecycle"} /\ Has(waiters', q)
        BY <2>3, <2>4, <2>5 DEF JoinInv, HeldAre
    <3>3. publishing'["loop"].at = "waiting" =>
              publishing'["loop"].event \in {E("frame"), E("scheduled")}
        BY <1>1, <2>1, <2>4 DEF JoinInv, HeldAre
    <3> QED
        BY <3>1, <3>2, <3>3 DEF HeldAre, Has, MainFirst, E
  <2>7. MoversAre'
    <3>1. \A q \in Publishers : publishing'[q] # Idle =>
              /\ publishing'[q].event = E("joined") => q = "main"
              /\ publishing'[q].event = E("left") => q = "lifecycle"
        BY <1>1, <2>1, <2>4 DEF JoinInv, MoversAre
    <3>2. /\ publishing'["main"] \in {Idle, Waiting(E("joined"))}
          /\ pc'["main"] = "connecting" => ~OnItsWay'
        BY <1>1, <2>4, <2>5 DEF JoinInv, MoversAre, CountApart
    <3>3. pc'["lifecycle"] \in Before =>
              publishing'["lifecycle"] = Idle /\ ~Has(waiters', "lifecycle")
        BY <1>1, <2>3, <2>4 DEF JoinInv, MoversAre, CountApart
    <3>4. Leaving' /\ publishing'["lifecycle"].at = "blocked" =>
              \A s \in Subscribers : Has(publishing'["lifecycle"].rest, s) => s = "timeout"
        BY <1>1, <2>1, <2>4 DEF JoinInv, MoversAre, Leaving, E
    <3> QED
        BY <3>1, <3>2, <3>3, <3>4 DEF MoversAre, Has, E, Waiting, Idle, Leaving
  <2>8. Counts' => Counts
      BY DEF CountApart
  <2>9. CounterIsListed'
      BY <2>8 DEF JoinInv, CounterIsListed, Has
  <2>10. CountIsRight'
    <3>1. Leaving' => Leaving \/ pc["lifecycle"] \in Early
        BY <1>1, <2>1, <2>4 DEF Leaving, E
    <3>2. queue'["timeout"] = Mail
        BY <2>1 DEF Mail
    <3> QED
        BY <1>1, <2>5, <2>8, <3>1, <3>2, CountStays DEF CountApart
  <2> QED
      BY <2>6, <2>7, <2>9, <2>10 DEF JoinInv
<1> QED
    BY <1>1, <1>2, <1>3

\* The arrival goes on: it is the first thing the timeout worklet hears.
LEMMA JoinArrives ==
    ASSUME SessionInv, JoinInv, Released("main"), UNCHANGED <<pc, participants, timer, session>>,
           session = "running", waiters # <<>>, Head(waiters) = "main", waiters' = Tail(waiters)
    PROVE  JoinInv'
<1>1. /\ "main" \in Publishers /\ "timeout" \in Subscribers /\ "joined" \in Types
      /\ E("joined") \in Events /\ E("joined").type = "joined" /\ E("joined") # E("left")
      /\ waiters \in Seq(Publishers) /\ Idle.at = "idle" /\ "lifecycle" \in Publishers
      /\ "loop" \in Publishers /\ Capacity \in Nat \ {0}
    BY Names DEF SessionInv, TasksInv, TaskTypes, Idle
<1>2. publishing["main"] = Waiting(E("joined")) /\ OnItsWay /\ pc["main"] # "connecting"
    BY <1>1 DEF Released, JoinInv, MoversAre, OnItsWay
<1>3. publishing["main"].event = E("joined") /\ ListOf("main") = listed["joined"]
    BY <1>1, <1>2, WaitingIs DEF ListOf
<1>4. UNCHANGED listed /\ Told("main", E("joined"), listed["joined"])
  <2>1. StillReads
      BY DEF StillReads, Reads
  <2> QED
      BY <1>1, <1>3, <2>1, GoesOnKeeps DEF SessionInv
<1>5. PICK names \in SUBSET Subscribers :
         Delivered("main", E("joined"), listed["joined"], names)
    BY <1>4 DEF Told
<1>6. /\ \A s \in Subscribers : Has(listed["joined"], s) => s = "timeout"
      /\ \A s \in names : Has(listed["joined"], s)
      /\ (Counts => Has(listed["joined"], "timeout"))
      /\ (Has(listed["joined"], "timeout") => Counts)
    BY <1>1, <1>5, Readers DEF JoinInv, CounterIsListed, Delivered, Counts, SessionInv, BusInv,
                               ListsAgree
<1>7. Counts => Mail = <<>> /\ participants = 0
    BY <1>2 DEF JoinInv, CountIsRight
<1>8. publishing'["main"] = Idle
  <2>1. Counts => ~Full("timeout")
      BY <1>1, <1>7 DEF Full, Mail
  <2> QED
      BY <1>5, <1>6, <2>1 DEF Delivered
<1>9. \A q \in Publishers : q # "main" => publishing'[q] = publishing[q]
    BY <1>5 DEF Delivered
<1>10. ~OnItsWay' /\ Leaving' = Leaving /\ Counts' = Counts
    BY <1>1, <1>8, <1>9 DEF OnItsWay, Leaving, Counts, E
<1>11. /\ \A q : Has(waiters, q) => q = "main" \/ Has(waiters', q)
       /\ \A q : Has(waiters', q) => Has(waiters, q)
    BY <1>1, TailHas
<1>12. HeldAre'
  <2>1. \A q \in Publishers : publishing'[q].at = "waiting" =>
            q \in {"loop", "main", "lifecycle"} /\ Has(waiters', q)
      BY <1>1, <1>8, <1>9, <1>11 DEF JoinInv, HeldAre
  <2>2. publishing'["loop"].at = "waiting" =>
            publishing'["loop"].event \in {E("frame"), E("scheduled")}
      BY <1>1, <1>9 DEF JoinInv, HeldAre
  <2>3. pc'["video"] # "announcing"
      BY DEF JoinInv, HeldAre
  <2> QED
      BY <1>10, <2>1, <2>2, <2>3 DEF HeldAre, Has, MainFirst, E
<1>13. MoversAre'
  <2>1. \A q \in Publishers : publishing'[q] # Idle =>
            /\ publishing'[q].event = E("joined") => q = "main"
            /\ publishing'[q].event = E("left") => q = "lifecycle"
      BY <1>8, <1>9 DEF JoinInv, MoversAre
  <2>2. pc'["lifecycle"] \in Before =>
            publishing'["lifecycle"] = Idle /\ ~Has(waiters', "lifecycle")
      BY <1>1, <1>9, <1>11 DEF JoinInv, MoversAre
  <2>3. Leaving' /\ publishing'["lifecycle"].at = "blocked" =>
            \A s \in Subscribers : Has(publishing'["lifecycle"].rest, s) => s = "timeout"
      BY <1>1, <1>9, <1>10 DEF JoinInv, MoversAre
  <2> QED
      BY <1>8, <1>10, <2>1, <2>2, <2>3 DEF MoversAre, Has, E, Waiting, Idle, Leaving
<1>14. CounterIsListed'
    BY <1>4, <1>10 DEF JoinInv, CounterIsListed, Has
<1>15. CountIsRight'
  <2> SUFFICES ASSUME Counts
               PROVE  CountIsRight'
      BY <1>10 DEF CountIsRight
  <2> DEFINE mail == queue'["timeout"]
  <2>1. mail = Append(Mail, E("joined"))
      BY <1>1, <1>5, <1>6, <1>7, <1>8 DEF Delivered, Mail, Idle
  <2>2. Mail \in Seq(Events) /\ Ordered(Mail) /\ \A x : ~Has(Mail, x)
      BY <1>1, <1>7, EmptySeq DEF Has, JoinInv, CountIsRight, SessionInv, BusInv, BusTypeOK, Mail
  <2> HIDE DEF mail
  <2>3. Ordered(mail) /\ \A x : Has(mail, x) <=> x = E("joined")
    <3>1. Ordered(mail)
        BY <1>1, <2>1, <2>2, OrderedAppend
    <3>2. \A x : Has(mail, x) <=> Has(Mail, x) \/ x = E("joined")
        BY <1>1, <2>1, <2>2, AppendHas
    <3> QED
        BY <2>2, <3>1, <3>2
  <2>4. Has(mail, E("joined")) /\ ~Has(mail, E("left")) /\ pc'["main"] # "connecting"
      BY <1>1, <1>2, <2>3
  <2>5. participants' = 0
      BY <1>7
  <2> QED
      BY <1>10, <2>3, <2>4, <2>5
         DEF CountIsRight, MayLeave, IsComing, Mail, mail, Has, Ordered, E, Moves
<1> QED
    BY <1>12, <1>13, <1>14, <1>15 DEF JoinInv

\* A publication goes on.
LEMMA JoinGoesOn ==
    ASSUME SessionInv, JoinInv, NEW p \in Publishers, Continue(p)
    PROVE  JoinInv'
<1>1. /\ UNCHANGED <<pc, participants, timer, session>> /\ session = "running"
      /\ \/ /\ waiters # <<>> /\ p = Head(waiters) /\ Released(p) /\ waiters' = Tail(waiters)
         \/ Settled /\ Resume(p) /\ waiters' = waiters
    BY DEF Continue, Calm
<1>2. StillReads /\ CountApart
    BY <1>1 DEF StillReads, Reads, CountApart, Counts
<1>3. /\ UNCHANGED <<pending, listed>> /\ publishing[p].event \in Events
      /\ Told(p, publishing[p].event, ListOf(p)) /\ publishing[p] # Idle
    BY <1>1, <1>2, GoesOnKeeps DEF SessionInv, Released, Resume, Idle
<1>4. PICK names \in SUBSET Subscribers : Delivered(p, publishing[p].event, ListOf(p), names)
    BY <1>3 DEF Told
<1>5. /\ (publishing[p].event = E("joined") => p = "main")
      /\ (publishing[p].event = E("left") => p = "lifecycle" /\ Leaving)
      /\ (p = "lifecycle" => pc'["lifecycle"] \notin Before)
    BY <1>1, <1>3 DEF JoinInv, MoversAre, Leaving
<1>6. waiters \in Seq(Publishers) /\ "timeout" \in Subscribers /\ "left" \in Types
    BY Names DEF SessionInv, TasksInv, TaskTypes
<1>7. CASE Settled /\ Resume(p) /\ waiters' = waiters
  <2>1. waiters = <<>> /\ ~OnItsWay /\ \A q \in Publishers : publishing[q].at # "waiting"
      BY <1>3, <1>7, NobodyWaits DEF Told
  <2>2. p # "main" /\ publishing[p].event # E("joined")
      BY <1>3, <1>5, <2>1 DEF OnItsWay
  <2>3. publishing[p].event = E("left") =>
            \A s \in Subscribers : Has(ListOf(p), s) => s = "timeout"
      BY <1>5, <1>7 DEF Resume, ListOf, JoinInv, MoversAre
  <2> QED
      BY <1>2, <1>3, <1>4, <1>5, <1>7, <2>1, <2>2, <2>3, JoinDelivered
<1>8. CASE /\ waiters # <<>> /\ p = Head(waiters) /\ Released(p)
           /\ waiters' = Tail(waiters)
  <2>1. CASE p = "main"
      BY <1>1, <1>8, <2>1, JoinArrives
  <2>2. CASE p # "main"
    <3>1. /\ \A q : Has(waiters, q) => q = p \/ Has(waiters', q)
          /\ \A q : Has(waiters', q) => Has(waiters, q)
        BY <1>6, <1>8, TailHas
    <3>2. publishing[p].at = "waiting" /\ p \in {"loop", "lifecycle"}
        BY <1>8, <2>2 DEF Released, JoinInv, HeldAre
    <3>3. ListOf(p) = listed[publishing[p].event.type]
        BY <3>2 DEF ListOf
    <3>4. OnItsWay => "timeout" \notin names
      <4> SUFFICES ASSUME OnItsWay
                   PROVE  "timeout" \notin names
          OBVIOUS
      <4>1. p = "loop"
          BY <1>6, <1>8, <3>2, FirstTail DEF JoinInv, HeldAre
      <4>2. publishing[p].event \in {E("frame"), E("scheduled")}
          BY <3>2, <4>1 DEF JoinInv, HeldAre
      <4>3. ListOf(p) = listed["frame"] \/ ListOf(p) = listed["scheduled"]
          BY <3>3, <4>2, Names
      <4>4. ~Has(ListOf(p), "timeout")
          BY <4>3, Names DEF JoinInv, CounterIsListed
      <4> QED
          BY <1>4, <4>4 DEF Delivered
    <3>5. publishing[p].event = E("left") =>
              \A s \in Subscribers : Has(ListOf(p), s) => s = "timeout"
        BY <3>3, Names DEF JoinInv, CounterIsListed
    <3>6. MainFirst(waiters) => MainFirst(waiters')
        BY <1>6, <1>8, <2>2, FirstTail
    <3>7. \A q \in Publishers \ {p} : publishing[q].at = "waiting" => Has(waiters', q)
        BY <3>1 DEF JoinInv, HeldAre
    <3>8. pc'["video"] # "announcing"
        BY <1>1, <1>8 DEF JoinInv, HeldAre
    <3> QED
        BY <1>2, <1>3, <1>4, <1>5, <2>2, <3>1, <3>4, <3>5, <3>6, <3>7, <3>8, JoinDelivered
  <2> QED
      BY <2>1, <2>2
<1> QED
    BY <1>1, <1>7, <1>8
\* Nothing begins to be published, and the timeout worklet hears nothing.
LEMMA JoinStays ==
    ASSUME SessionInv, JoinInv, CountApart, waiters' = waiters,
           \A q \in Publishers :
               publishing'[q] = publishing[q] \/ (q = "lifecycle" /\ publishing'[q] = Idle),
           Counts' => queue'["timeout"] = Mail /\ Has(listed'["joined"], "timeout"),
           \A t \in Types, s \in Subscribers :
               Has(listed'[t], s) => Has(listed[t], s) \/ (s = "video" /\ t \in VideoTypes),
           pc'["video"] = "announcing" => waiters = <<>>
    PROVE  JoinInv'
<1>1. /\ "main" \in Publishers /\ "loop" \in Publishers /\ "lifecycle" \in Publishers
      /\ "timeout" \in Subscribers /\ Idle.at = "idle" /\ E("frame") \in Events
      /\ VideoTypes = {"frame", "shutdown"} /\ "joined" \in Types /\ "left" \in Types
    BY Names DEF Idle, VideoTypes
<1>2. /\ publishing'["main"] = publishing["main"] /\ publishing'["loop"] = publishing["loop"]
      /\ OnItsWay' = OnItsWay /\ (Leaving' => Leaving)
    BY <1>1 DEF OnItsWay, Leaving, E
<1>3. HeldAre'
  <2>1. \A q \in Publishers : publishing'[q].at = "waiting" =>
            q \in {"loop", "main", "lifecycle"} /\ Has(waiters, q)
      BY <1>1 DEF JoinInv, HeldAre
  <2>2. publishing'["loop"].at = "waiting" =>
            publishing'["loop"].event \in {E("frame"), E("scheduled")}
      BY <1>2 DEF JoinInv, HeldAre
  <2>3. OnItsWay' => MainFirst(waiters)
      BY <1>2 DEF JoinInv, HeldAre
  <2> QED
      BY <2>1, <2>2, <2>3 DEF HeldAre, Has, MainFirst, E
<1>4. MoversAre'
  <2>1. \A q \in Publishers : publishing'[q] # Idle =>
            /\ publishing'[q].event = E("joined") => q = "main"
            /\ publishing'[q].event = E("left") => q = "lifecycle"
      BY DEF JoinInv, MoversAre
  <2>2. /\ publishing'["main"] \in {Idle, Waiting(E("joined"))}
        /\ pc'["main"] = "connecting" => ~OnItsWay'
      BY <1>2 DEF JoinInv, MoversAre, CountApart
  <2>3. pc'["lifecycle"] \in Before =>
            publishing'["lifecycle"] = Idle /\ ~Has(waiters, "lifecycle")
      BY <1>1 DEF JoinInv, MoversAre, CountApart
  <2>4. Leaving' /\ publishing'["lifecycle"].at = "blocked" =>
            \A s \in Subscribers : Has(publishing'["lifecycle"].rest, s) => s = "timeout"
    <3>1. publishing'["lifecycle"].at = "blocked" =>
              publishing'["lifecycle"] = publishing["lifecycle"]
        BY <1>1
    <3> QED
        BY <1>2, <3>1 DEF JoinInv, MoversAre
  <2> QED
      BY <2>1, <2>2, <2>3, <2>4 DEF MoversAre, Has, E, Waiting, Idle, Leaving
<1>5. CounterIsListed'
  <2>1. \A t \in Types : Has(listed'[t], "timeout") =>
            t \in {"started", "joined", "left", "shutdown"}
      BY <1>1 DEF JoinInv, CounterIsListed
  <2>2. \A t \in {"joined", "left"}, s \in Subscribers : Has(listed'[t], s) => s = "timeout"
      BY <1>1 DEF JoinInv, CounterIsListed
  <2> QED
      BY <2>1, <2>2 DEF CounterIsListed, Has
<1>6. CountIsRight'
  <2>1. CASE ~Counts'
      BY <2>1 DEF CountIsRight
  <2>2. CASE Counts'
      BY <1>1, <1>2, <2>2, CountStays DEF CountApart
  <2> QED
      BY <2>1, <2>2
<1> QED
    BY <1>3, <1>4, <1>5, <1>6 DEF JoinInv

\* Nothing is read or published.
LEMMA JoinQuiet ==
    ASSUME SessionInv, JoinInv,
           \/ PeerConnects \/ PeerIsLost \/ PeerPlays \/ EngineConnects \/ LoopEnds \/ LoopWakes
           \/ VideoSounds \/ LifecycleStarts \/ SessionEnds \/ MainFinishes \/ UNCHANGED vars
    PROVE  JoinInv'
<1>1. /\ UNCHANGED <<listed, queue, participants, timer, waiters>>
      /\ session' = session \/ session' = "ended"
      /\ \/ publishing' = publishing
         \/ publishing' = [publishing EXCEPT !["lifecycle"] = Idle]
    BY DEF PeerConnects, PeerIsLost, PeerPlays, EngineConnects, LoopEnds, LoopWakes,
           VideoSounds, LifecycleStarts, SessionEnds, MainFinishes, vars, busVars, sessionVars, Ready
<1>2. \/ pc' = pc
      \/ \E label \in Labels : pc' = [pc EXCEPT !["engine"] = label]
      \/ \E label \in Labels : pc' = [pc EXCEPT !["loop"] = label]
      \/ pc["video"] = "sounding" /\ pc' = [pc EXCEPT !["video"] = "playing"]
      \/ pc["lifecycle"] = "watching" /\ pc' = [pc EXCEPT !["lifecycle"] = "leaving"]
      \/ pc["lifecycle"] = "starting" /\ pc' = [pc EXCEPT !["lifecycle"] = "watching"]
      \/ pc' = [pc EXCEPT !["main"] = "done", !["lifecycle"] = "done"]
    BY AtIs DEF PeerConnects, PeerIsLost, PeerPlays, EngineConnects, LoopEnds, LoopWakes,
           VideoSounds, LifecycleStarts, SessionEnds, MainFinishes, vars, busVars, sessionVars, Goto, Labels
<1>3. /\ pc'["video"] = "announcing" => pc["video"] = "announcing"
      /\ pc'["timeout"] = pc["timeout"]
      /\ pc'["main"] = "connecting" => pc["main"] = "connecting"
      /\ pc'["lifecycle"] \in Early => pc["lifecycle"] \in Early
      /\ pc'["lifecycle"] \in Before => pc["lifecycle"] \in Before
    BY <1>2 DEF SessionInv, TasksInv, TaskTypes, Tasks, Early, Before
<1>4. CountApart
    BY <1>1, <1>3 DEF CountApart, Counts
<1>5. \A q \in Publishers :
          publishing'[q] = publishing[q] \/ (q = "lifecycle" /\ publishing'[q] = Idle)
    BY <1>1 DEF SessionInv, BusInv, BusTypeOK
<1>6. /\ queue'["timeout"] = Mail
      /\ Counts' => Has(listed'["joined"], "timeout")
      /\ pc'["video"] = "announcing" => waiters = <<>>
    BY <1>1, <1>3, <1>4 DEF Mail, CountApart, JoinInv, CounterIsListed, HeldAre
<1> QED
    BY <1>1, <1>4, <1>5, <1>6, JoinStays

\* Somebody else reads.
LEMMA JoinOthersRead ==
    ASSUME SessionInv, JoinInv, VideoFirstFrame \/ VideoPlays \/ DelayedTakes
    PROVE  JoinInv'
<1>1. PICK s \in {"video", "delayed"} :
         /\ Arrived(s) /\ Get(s) /\ Settled
         /\ UNCHANGED <<listed, publishing, participants, timer, waiters, session>>
         /\ pc' = pc \/ \E label \in Labels : pc' = [pc EXCEPT ![s] = label]
    BY DEF VideoFirstFrame, VideoPlays, DelayedTakes, TakesNext, At, Calm, Goto, Labels,
           AfterFrame
<1>2. \A t \in {"main", "lifecycle", "timeout"} : pc'[t] = pc[t]
    BY <1>1 DEF SessionInv, TasksInv, TaskTypes, Tasks
<1>3. CountApart
    BY <1>1, <1>2 DEF CountApart, Counts
<1>4. pending = 0 /\ waiters = <<>> /\ queue'["timeout"] = Mail
  <2>1. "timeout" \in Subscribers /\ s \in Subscribers /\ queue[s] # <<>>
      BY <1>1, Names DEF Arrived
  <2>2. queue'["timeout"] = Mail
      BY <1>1, <2>1 DEF Get, Mail, SessionInv, BusInv, BusTypeOK
  <2> QED
      BY <1>1, <2>1, <2>2, NothingArrives, NobodyWaits
<1>5. Counts' => Has(listed'["joined"], "timeout")
    BY <1>1, <1>3 DEF CountApart, JoinInv, CounterIsListed
<1> QED
    BY <1>1, <1>3, <1>4, <1>5, JoinStays

\* Somebody leaves.
LEMMA JoinLeaves ==
    ASSUME SessionInv, JoinInv,
           ListenerShutsDown \/ VideoStops \/ DelayedStops \/ TimeoutStops \/ StopperTakes
    PROVE  JoinInv'
<1>1. PICK s \in Subscribers :
         /\ Unsubscribe(s)
         /\ UNCHANGED <<pending, publishing, participants, waiters, session>>
         /\ \/ timer' = timer
            \/ /\ s = "timeout" /\ Counts
               /\ timer' = [k \in DOMAIN timer |-> IF timer[k] = "armed" THEN "off" ELSE timer[k]]
         /\ \E label \in {"needed", "done"} : pc' = [pc EXCEPT ![s] = label]
  <2> DEFINE Ends(s) ==
                /\ Unsubscribe(s)
                /\ UNCHANGED <<pending, publishing, participants, waiters, session>>
                /\ \/ timer' = timer
                   \/ /\ s = "timeout" /\ Counts
                      /\ timer' = [k \in DOMAIN timer |->
                                      IF timer[k] = "armed" THEN "off" ELSE timer[k]]
                /\ \E label \in {"needed", "done"} : pc' = [pc EXCEPT ![s] = label]
  <2>1. CASE ListenerShutsDown \/ VideoStops \/ DelayedStops \/ StopperTakes
    <3>1. Ends("listener") \/ Ends("video") \/ Ends("delayed") \/ Ends("stopper")
        BY <2>1 DEF ListenerShutsDown, VideoStops, DelayedStops, StopperTakes, Leaves, Goto
    <3> QED
        BY <3>1, Names
  <2>2. CASE TimeoutStops
    <3>1. Counts
        BY <2>2, AtIs DEF TimeoutStops, TimeoutTakes, Counts
    <3>2. Ends("timeout")
        BY <2>2, <3>1 DEF TimeoutStops, Leaves, Goto
    <3> QED
        BY <3>2, Names
  <2> QED
      BY <2>1, <2>2
<1>2. /\ s \in Tasks /\ pc \in [Tasks -> Labels] /\ pc'[s] \in {"needed", "done"}
      /\ \A t \in Tasks \ {s} : pc'[t] = pc[t]
    BY <1>1, Names DEF SessionInv, TasksInv, TaskTypes, Tasks
<1>3. /\ Counts' => s # "timeout" /\ Counts
      /\ pc'["main"] = "connecting" => pc["main"] = "connecting"
      /\ pc'["lifecycle"] \in Before => pc["lifecycle"] \in Before
      /\ pc'["lifecycle"] \in Early => pc["lifecycle"] \in Early
      /\ pc'["video"] = "announcing" => pc["video"] = "announcing"
    BY <1>1, <1>2 DEF Counts, Tasks, Before, Early
<1>4. /\ "timeout" \in Subscribers /\ "joined" \in Types
      /\ \A t \in Types : \A r : Has(listed'[t], r) <=> Has(listed[t], r) /\ r # s
  <2>1. \A r \in Subscribers \ {s} : pc[r] \in Reads(r) => pc'[r] \in Reads(r)
      BY <1>2, Names DEF Tasks
  <2> QED
      BY <1>1, <2>1, Names, UnsubscribeKeeps DEF SessionInv
<1>5. Counts' => queue'["timeout"] = Mail /\ Has(listed'["joined"], "timeout")
    BY <1>1, <1>3, <1>4 DEF Unsubscribe, Mail, SessionInv, BusInv, BusTypeOK, JoinInv,
                            CounterIsListed
<1>6. participants # 0 => timer'["absent"] = timer["absent"]
  <2>1. Counts /\ participants # 0 => timer["absent"] = "off"
      BY DEF JoinInv, CountIsRight
  <2>2. "absent" \in DOMAIN timer
      BY DEF SessionInv, TasksInv, TaskTypes
  <2> QED
      BY <1>1, <2>1, <2>2
<1> QED
    BY <1>1, <1>3, <1>4, <1>5, <1>6, JoinStays DEF CountApart, JoinInv, HeldAre
\* The video worker subscribes.
LEMMA JoinSubscribes ==
    ASSUME SessionInv, JoinInv, VideoStarts
    PROVE  JoinInv'
<1>1. /\ Subscribe("video", VideoTypes) /\ pc' = [pc EXCEPT !["video"] = "first"]
      /\ UNCHANGED <<queue, publishing, participants, timer, waiters, session>>
      /\ "timeout" \in Subscribers /\ "joined" \in Types
    BY Names DEF VideoStarts, Goto
<1>2. pc'["video"] = "first" /\ \A t \in {"main", "lifecycle", "timeout"} : pc'[t] = pc[t]
    BY <1>1 DEF SessionInv, TasksInv, TaskTypes, Tasks
<1>3. CountApart
    BY <1>1, <1>2 DEF CountApart, Counts
<1>4. ASSUME NEW t \in Types, NEW s \in Subscribers
      PROVE  /\ Has(listed'[t], s) => Has(listed[t], s) \/ (s = "video" /\ t \in VideoTypes)
             /\ Has(listed[t], s) => Has(listed'[t], s)
  <2>1. /\ listed'[t] = IF t \in VideoTypes THEN Append(listed[t], "video") ELSE listed[t]
        /\ listed[t] \in Seq(Subscribers) /\ "video" \in Subscribers
      BY <1>1, Names DEF Subscribe, SessionInv, BusInv, BusTypeOK
  <2>2. Has(Append(listed[t], "video"), s) <=> Has(listed[t], s) \/ s = "video"
      BY <2>1, AppendHas
  <2> QED
      BY <2>1, <2>2
<1>5. Counts' => queue'["timeout"] = Mail /\ Has(listed'["joined"], "timeout")
    BY <1>1, <1>3, <1>4 DEF CountApart, Mail, JoinInv, CounterIsListed
<1> QED
    BY <1>1, <1>2, <1>3, <1>4, <1>5, JoinStays

\* The task group is cancelled.
LEMMA JoinAborts ==
    ASSUME SessionInv, NEW how \in {"failed", "cancelled"}, Abort(how)
    PROVE  JoinInv'
<1>1. /\ \A t \in Tasks : t # "stopper" => pc'[t] = "done"
      /\ \A t \in Types : listed'[t] = <<>>
      /\ \A p \in Publishers : publishing'[p] = Idle
      /\ waiters' = <<>> /\ ~Counts' /\ Idle.at = "idle"
    BY DEF Abort, Counts, Idle
<1>2. \A x : ~Has(<<>>, x)
    BY EmptySeq DEF Has
<1>3. /\ "main" \in Publishers /\ "loop" \in Publishers /\ "lifecycle" \in Publishers
      /\ "timeout" \in Subscribers /\ "joined" \in Types /\ "left" \in Types
    BY Names
<1>4. HeldAre'
    BY <1>1, <1>3 DEF HeldAre, OnItsWay
<1>5. MoversAre'
    BY <1>1, <1>3 DEF MoversAre, OnItsWay, Leaving, Before, Early, Tasks
<1>6. CounterIsListed'
    BY <1>1, <1>2, <1>3 DEF CounterIsListed, Has
<1>7. CountIsRight'
    BY <1>1 DEF CountIsRight
<1> QED
    BY <1>4, <1>5, <1>6, <1>7 DEF JoinInv

\* At first nobody is there and only the timeout worklet listens.
LEMMA JoinBegins == Init => JoinInv
<1> SUFFICES ASSUME Init
             PROVE  JoinInv
    OBVIOUS
<1>1. /\ listed["frame"] = <<>> /\ listed["scheduled"] = <<"delayed">>
      /\ listed["playback"] = <<>>
      /\ \A t \in {"started", "joined", "left"} : listed[t] = <<"timeout">>
    BY Names DEF Init, EarlyLists
<1>2. /\ pc["main"] = "connecting" /\ pc["lifecycle"] = "none" /\ pc["video"] = "none"
      /\ \A p \in Publishers : publishing[p] = Idle
      /\ Mail = <<>> /\ waiters = <<>> /\ participants = 0 /\ Idle.at = "idle"
    BY Names DEF Init, Tasks, Mail, Idle
<1>3. /\ "main" \in Publishers /\ "loop" \in Publishers /\ "lifecycle" \in Publishers
      /\ "timeout" \in Subscribers /\ "delayed" \in Subscribers
    BY Names
<1>4. /\ \A x : ~Has(<<>>, x)
      /\ \A x : Has(<<"timeout">>, x) <=> x = "timeout"
      /\ \A x : Has(<<"delayed">>, x) <=> x = "delayed"
    BY <1>3, NoName, OneName
<1>5. HeldAre
    BY <1>2, <1>3 DEF HeldAre, OnItsWay
<1>6. MoversAre
    BY <1>2, <1>3, <1>4 DEF MoversAre, OnItsWay, Leaving
<1>7. CounterIsListed
  <2>1. \A t \in Types : Has(listed[t], "timeout") => t \in {"started", "joined", "left", "shutdown"}
      BY <1>1, <1>4, Names
  <2>2. \A t \in {"joined", "left"}, s \in Subscribers : Has(listed[t], s) <=> s = "timeout"
      BY <1>1, <1>4
  <2> QED
      BY <1>3, <2>1, <2>2 DEF CounterIsListed
<1>8. CountIsRight
  <2>1. Ordered(Mail) /\ \A x : ~Has(Mail, x)
      BY <1>2, <1>4, EmptySeq DEF Ordered
  <2>2. ~MayLeave /\ ~OnItsWay
      BY <1>2, <1>3, <2>1 DEF MayLeave, Early, Leaving, OnItsWay
  <2> QED
      BY <1>2, <2>1, <2>2 DEF CountIsRight
<1> QED
    BY <1>5, <1>6, <1>7, <1>8 DEF JoinInv

\* The main task, connected, has the arrival held until its workers are ready.
LEMMA JoinConnects ==
    ASSUME SessionInv, JoinInv, MainConnected
    PROVE  JoinInv'
<1>1. /\ pc["main"] = "connecting" /\ PublishFrom("main", "joined") /\ session = "running"
      /\ UNCHANGED <<listed, participants, timer, session>>
      /\ pc' = [pc EXCEPT !["main"] = "awaiting", !["video"] = "starting",
                          !["lifecycle"] = "starting"]
    BY AtIs DEF MainConnected
<1>2. pending # 0 /\ pc["lifecycle"] = "none" /\ pc \in [Tasks -> Labels]
    BY <1>1 DEF SessionInv, TasksInv, TaskTypes, ReadyIsCounted, Owes, MainPath
<1>3. /\ pc'["main"] = "awaiting" /\ pc'["video"] = "starting" /\ pc'["lifecycle"] = "starting"
      /\ pc'["timeout"] = pc["timeout"]
    BY <1>1, <1>2 DEF Tasks
<1>4. /\ "main" \in Publishers /\ "loop" \in Publishers /\ "lifecycle" \in Publishers
      /\ "timeout" \in Subscribers /\ "joined" \in Types /\ E("joined") \in Events
      /\ E("joined") # E("left") /\ waiters \in Seq(Publishers)
    BY Names DEF SessionInv, TasksInv, TaskTypes
<1>5. /\ queue' = queue /\ publishing' = [publishing EXCEPT !["main"] = Waiting(E("joined"))]
      /\ waiters' = Append(waiters, "main") /\ publishing \in [Publishers -> PublisherState]
    BY <1>1, <1>2 DEF PublishFrom, Publish, AllReady, SessionInv, BusInv, BusTypeOK
<1>6. /\ Waiting(E("joined")).at = "waiting" /\ Waiting(E("joined")).event = E("joined")
      /\ Waiting(E("joined")) # Idle
    BY <1>4, WaitingIs
<1>7. \A q \in Publishers : publishing'[q] = IF q = "main" THEN Waiting(E("joined"))
                                                           ELSE publishing[q]
    BY <1>5
<1>8. \A q : Has(waiters', q) <=> Has(waiters, q) \/ q = "main"
    BY <1>4, <1>5, AppendHas
<1>9. ~Has(waiters, "lifecycle") /\ publishing["lifecycle"] = Idle
    BY <1>2 DEF JoinInv, MoversAre, Before
<1>10. OnItsWay' /\ ~Leaving' /\ Counts' = Counts
    BY <1>1, <1>3, <1>4, <1>6, <1>7, <1>9 DEF OnItsWay, Leaving, Counts
<1>11. HeldAre'
  <2>1. MainFirst(waiters')
    <3>1. ~Has(waiters', "lifecycle")
        BY <1>8, <1>9
    <3> QED
        BY <3>1 DEF MainFirst, Has
  <2>2. \A q \in Publishers : publishing'[q].at = "waiting" =>
            q \in {"loop", "main", "lifecycle"} /\ Has(waiters', q)
      BY <1>7, <1>8 DEF JoinInv, HeldAre
  <2>3. publishing'["loop"].at = "waiting" =>
            publishing'["loop"].event \in {E("frame"), E("scheduled")}
      BY <1>4, <1>7 DEF JoinInv, HeldAre
  <2> QED
      BY <1>3, <2>1, <2>2, <2>3 DEF HeldAre, Has, MainFirst, E
<1>12. MoversAre'
  <2>1. \A q \in Publishers : publishing'[q] # Idle =>
            /\ publishing'[q].event = E("joined") => q = "main"
            /\ publishing'[q].event = E("left") => q = "lifecycle"
      BY <1>4, <1>6, <1>7 DEF JoinInv, MoversAre
  <2>2. publishing'["lifecycle"] = Idle /\ ~Has(waiters', "lifecycle")
      BY <1>4, <1>7, <1>8, <1>9
  <2>3. publishing'["main"] = Waiting(E("joined"))
      BY <1>4, <1>7
  <2> QED
      BY <1>3, <1>10, <2>1, <2>2, <2>3 DEF MoversAre, Has, E, Waiting, Idle, Leaving
<1>13. CounterIsListed'
    BY <1>1, <1>10 DEF JoinInv, CounterIsListed, Has
<1>14. CountIsRight'
  <2> SUFFICES ASSUME Counts
               PROVE  CountIsRight'
      BY <1>10 DEF CountIsRight
  <2>1. Mail = <<>> /\ queue'["timeout"] = <<>> /\ participants' = 0
      BY <1>1, <1>2, <1>4, <1>5 DEF Mail, SessionInv, BusInv, NothingSent, JoinInv, CountIsRight
  <2>2. \A x : ~Has(queue'["timeout"], x)
      BY <2>1, EmptySeq DEF Has
  <2>3. Ordered(queue'["timeout"])
      BY <2>1, EmptySeq DEF Ordered
  <2> QED
      BY <1>3, <1>10, <2>1, <2>2, <2>3
         DEF CountIsRight, MayLeave, IsComing, Mail, Has, Ordered, E, Moves
<1> QED
    BY <1>11, <1>12, <1>13, <1>14 DEF JoinInv

\* The timeout worklet reads: an arrival counts one, a departure none, and the absence
\* timer is armed only while nobody is there.
LEMMA JoinCounts ==
    ASSUME SessionInv, JoinInv, TimeoutStarted \/ TimeoutJoined \/ TimeoutLeft
    PROVE  JoinInv'
<1>1. /\ UNCHANGED <<listed, publishing, pc, waiters, session>> /\ Counts /\ Get("timeout")
      /\ Mail # <<>>
    BY AtIs DEF TimeoutStarted, TimeoutJoined, TimeoutLeft, TimeoutTakes, TakesNext, Arrived,
                Counts, Mail
<1>2. HeldAre' /\ MoversAre' /\ CounterIsListed' /\ Counts' /\ (OnItsWay' = OnItsWay)
      /\ (Leaving' = Leaving)
    BY <1>1 DEF JoinInv, HeldAre, MoversAre, CounterIsListed, Counts, OnItsWay, Leaving, E,
                MainFirst, Has, Waiting, Idle
<1>3. /\ Ordered(Mail) /\ Mail \in Seq(Events) /\ Mail # <<>> /\ ~OnItsWay
      /\ pc["main"] = "connecting" => ~Has(Mail, E("joined")) /\ participants = 0
      /\ Has(Mail, E("joined")) => participants = 0
      /\ participants # 0 => participants = 1 /\ timer["absent"] = "off"
      /\ MayLeave => IsComing
      /\ Has(Mail, E("left")) => ~Leaving /\ pc["lifecycle"] \notin Early
    BY <1>1, Names DEF JoinInv, CountIsRight, SessionInv, BusInv, BusTypeOK, Mail
<1> DEFINE mail == queue'["timeout"]
<1>4. mail = Tail(Mail)
    BY <1>1, Names DEF Get, Mail, SessionInv, BusInv, BusTypeOK
<1> HIDE DEF mail
<1>5. /\ Ordered(mail)
      /\ Head(Mail) \in Moves => ~Has(mail, E("joined"))
      /\ Head(Mail) = E("left") => ~Has(mail, E("left"))
    BY <1>3, <1>4, OrderedTail
<1>6. /\ Has(Mail, Head(Mail)) /\ (\A e : Has(mail, e) => Has(Mail, e))
      /\ \A e : Has(Mail, e) => e = Head(Mail) \/ Has(mail, e)
    BY <1>3, <1>4, TailHas
<1>7. /\ E("joined") # E("left") /\ E("started") # E("left") /\ E("started") # E("joined")
      /\ E("joined") \in Moves /\ E("left") \in Moves
      /\ timer \in [{"absent", "maximum"} -> {"off", "armed", "fired"}]
    BY Names DEF Moves, SessionInv, TasksInv, TaskTypes
<1>8. /\ pc["main"] = "connecting" => ~Has(mail, E("joined")) /\ participants' = 0
      /\ Has(mail, E("joined")) => participants' = 0
      /\ participants' # 0 => participants' = 1 /\ timer'["absent"] = "off"
      /\ pc["lifecycle"] \in Early \/ Leaving \/ Has(mail, E("left")) =>
            Has(mail, E("joined")) \/ participants' = 1
  <2>1. CASE TimeoutStarted
    <3>1. Head(Mail) = E("started") /\ participants' = participants
        BY <2>1 DEF TimeoutStarted, TimeoutTakes, TakesNext, Mail
    <3>2. participants # 0 => timer'["absent"] = timer["absent"]
        BY <2>1 DEF TimeoutStarted
    <3> QED
        BY <1>3, <1>6, <1>7, <3>1, <3>2 DEF MayLeave, IsComing
  <2>2. CASE TimeoutJoined
    <3>1. Head(Mail) = E("joined") /\ participants' = participants + 1
          /\ timer' = [timer EXCEPT !["absent"] = "off"]
        BY <2>2 DEF TimeoutJoined, TimeoutTakes, TakesNext, Mail
    <3> QED
        BY <1>3, <1>5, <1>6, <1>7, <3>1
  <2>3. CASE TimeoutLeft
    <3>1. Head(Mail) = E("left") /\ TimeoutTakes("left")
        BY <2>3 DEF TimeoutLeft, TimeoutTakes, TakesNext, Mail
    <3>2. participants <= 1
        BY <1>3 DEF SessionInv, TasksInv, TaskTypes
    <3>3. participants' = 0
        BY <2>3, <3>1, <3>2 DEF TimeoutLeft, LastLeaves
    <3>4. ~Leaving /\ pc["lifecycle"] \notin Early
        BY <1>3, <1>6, <3>1
    <3> QED
        BY <1>5, <1>7, <3>1, <3>3, <3>4
  <2> QED
      BY <2>1, <2>2, <2>3
<1>9. CountIsRight'
  <2>1. Has(mail, E("left")) => ~Leaving /\ pc["lifecycle"] \notin Early
      BY <1>3, <1>6
  <2> QED
      BY <1>1, <1>2, <1>3, <1>5, <1>8, <2>1
         DEF CountIsRight, MayLeave, IsComing, Mail, mail, Has, Ordered, E, Moves
<1> QED
    BY <1>2, <1>9 DEF JoinInv
\* Somebody begins a publication.
LEMMA JoinPublishes ==
    ASSUME SessionInv, JoinInv,
           \/ LoopSchedules \/ LoopPublishesFrame \/ VideoAnnounces
           \/ LifecycleLeaves \/ DelayedPublishes \/ StopperPublishes
           \/ \E k \in {"absent", "maximum"} : TimerFires(k)
    PROVE  JoinInv'
<1> DEFINE Publishes(p, t) ==
              /\ PublishFrom(p, t) /\ UNCHANGED <<pending, listed, participants, session>>
              /\ Settled \/ pc["video"] = "announcing"
              /\ participants # 0 => timer'["absent"] = timer["absent"]
              /\ pending # 0 => p \in {"loop", "lifecycle"}
<1>1. ASSUME NEW p \in Publishers, NEW t \in Types, Publishes(p, t), p # "main",
             t # "joined", t # "left", p = "loop" => t \in {"frame", "scheduled"},
             \A x \in {"main", "timeout"} : pc'[x] = pc[x],
             pc'["lifecycle"] = pc["lifecycle"] \/ pc'["lifecycle"] = "done",
             p = "lifecycle" => pc'["lifecycle"] = "done",
             pc'["video"] # "announcing"
      PROVE  JoinInv'
  <2>1. CountApart /\ (p = "lifecycle" => pc'["lifecycle"] \notin Before)
      BY <1>1 DEF CountApart, Counts, Before, Early
  <2> QED
      BY <1>1, <2>1, JoinPublish
<1>2. pc \in [Tasks -> Labels]
    BY DEF SessionInv, TasksInv, TaskTypes
<1>3. Calm => Settled /\ pc["video"] # "announcing"
    BY DEF Calm, Settled
<1>4. CASE LoopSchedules \/ LoopPublishesFrame
  <2>1. PICK t \in {"scheduled", "frame"}, label \in {"scheduled", "asleep"} :
           Publishes("loop", t) /\ Calm /\ pc' = [pc EXCEPT !["loop"] = label]
      BY <1>3, <1>4 DEF LoopSchedules, LoopPublishesFrame, At, Goto
  <2>2. /\ \A x \in {"main", "timeout", "lifecycle", "video"} : pc'[x] = pc[x]
        /\ t # "joined" /\ t # "left"
      BY <1>2, <2>1 DEF Tasks
  <2> QED
      BY <1>1, <1>3, <2>1, <2>2, Names
<1>5. CASE VideoAnnounces
  <2>1. PICK next \in AfterFrame :
           Publishes("video", "started") /\ pc' = [pc EXCEPT !["video"] = next]
      BY <1>5 DEF VideoAnnounces, Goto, SessionInv, TasksInv, NothingBegun
  <2>2. /\ \A x \in {"main", "timeout", "lifecycle"} : pc'[x] = pc[x]
        /\ pc'["video"] # "announcing"
      BY <1>2, <2>1 DEF Tasks, AfterFrame
  <2> QED
      BY <1>1, <2>1, <2>2, Names
<1>6. CASE LifecyclePublishes("leaving", "left", "left")
  <2>1. /\ PublishFrom("lifecycle", "left") /\ Calm /\ pc["lifecycle"] = "leaving"
        /\ UNCHANGED <<pending, listed, participants, timer, session>>
        /\ pc' = [pc EXCEPT !["lifecycle"] = "left"]
      BY <1>6 DEF LifecyclePublishes, Goto, At
  <2>2. /\ \A x \in {"main", "timeout", "video"} : pc'[x] = pc[x]
        /\ pc'["lifecycle"] = "left"
      BY <1>2, <2>1 DEF Tasks
  <2>3. CountApart /\ pc'["lifecycle"] \notin Before /\ pc["lifecycle"] \in Early
      BY <2>1, <2>2 DEF CountApart, Counts, Before, Early
  <2> QED
      BY <1>3, <2>1, <2>2, <2>3, Names, JoinPublish
<1>7. CASE LifecyclePublishes("left", "shutdown", "done")
  <2>1. /\ Publishes("lifecycle", "shutdown") /\ Calm
        /\ pc' = [pc EXCEPT !["lifecycle"] = "done"]
      BY <1>3, <1>7 DEF LifecyclePublishes, Goto, At
  <2>2. /\ \A x \in {"main", "timeout", "video"} : pc'[x] = pc[x]
        /\ pc'["lifecycle"] = "done"
      BY <1>2, <2>1 DEF Tasks
  <2> QED
      BY <1>1, <1>3, <2>1, <2>2, Names
<1>8. CASE DelayedPublishes
  <2>1. /\ Publishes("delayed", "playback") /\ Calm /\ pc' = [pc EXCEPT !["delayed"] = "reading"]
      BY <1>3, <1>8 DEF DelayedPublishes, Goto, At, SessionInv, TasksInv, NothingBegun
  <2>2. \A x \in {"main", "timeout", "lifecycle", "video"} : pc'[x] = pc[x]
      BY <1>2, <2>1 DEF Tasks
  <2> QED
      BY <1>1, <1>3, <2>1, <2>2, Names
<1>9. CASE StopperPublishes
  <2>1. /\ Publishes("stopper", "shutdown") /\ Calm /\ pc' = [pc EXCEPT !["stopper"] = "done"]
      BY <1>3, <1>9 DEF StopperPublishes, Goto, At, SessionInv, TasksInv, NothingBegun
  <2>2. \A x \in {"main", "timeout", "lifecycle", "video"} : pc'[x] = pc[x]
      BY <1>2, <2>1 DEF Tasks
  <2> QED
      BY <1>1, <1>3, <2>1, <2>2, Names
<1>10. CASE \E k \in {"absent", "maximum"} : TimerFires(k)
  <2>1. PICK k \in {"absent", "maximum"} : TimerFires(k)
      BY <1>10
  <2>2. /\ timer[k] = "armed" /\ Calm /\ timer' = [timer EXCEPT ![k] = "fired"]
        /\ UNCHANGED <<pending, listed, pc, participants, session>> /\ PublishFrom(k, "shutdown")
      BY <2>1 DEF TimerFires
  <2>3. pending = 0 /\ Counts
      BY <2>2 DEF SessionInv, TasksInv, NothingBegun, TimersStopped, MainPath, Counts, Calm,
                  Settled
  <2>4. participants # 0 => timer'["absent"] = timer["absent"]
      BY <2>2, <2>3 DEF JoinInv, CountIsRight, SessionInv, TasksInv, TaskTypes
  <2>5. Publishes(k, "shutdown")
      BY <1>3, <2>2, <2>3, <2>4
  <2> QED
      BY <1>1, <1>3, <2>2, <2>5, Names
<1> QED
    BY <1>4, <1>5, <1>6, <1>7, <1>8, <1>9, <1>10 DEF LifecycleLeaves

LEMMA JoinStep == SessionInv /\ JoinInv /\ [Next]_vars => JoinInv'
<1> SUFFICES ASSUME SessionInv, JoinInv, [Next]_vars
             PROVE  JoinInv'
    OBVIOUS
<1>1. DOMAIN timer = {"absent", "maximum"}
    BY DEF SessionInv, TasksInv, TaskTypes
<1>2. CASE Fails \/ Cancelled
    BY <1>2, JoinAborts DEF Fails, Cancelled
<1>3. CASE \E p \in Publishers : Continue(p)
    BY <1>3, JoinGoesOn
<1>4. CASE VideoStarts
    BY <1>4, JoinSubscribes
<1>5. CASE MainConnected
    BY <1>5, JoinConnects
<1>6. CASE \/ PeerConnects \/ PeerIsLost \/ PeerPlays \/ EngineConnects \/ LoopEnds \/ LoopWakes
           \/ VideoSounds \/ LifecycleStarts \/ SessionEnds \/ MainFinishes \/ Terminated \/ UNCHANGED vars
    BY <1>6, JoinQuiet DEF Terminated
<1>7. CASE \/ LoopSchedules \/ LoopPublishesFrame \/ VideoAnnounces
           \/ LifecycleLeaves \/ DelayedPublishes \/ StopperPublishes
           \/ \E k \in {"absent", "maximum"} : TimerFires(k)
    BY <1>7, JoinPublishes
<1>8. CASE VideoFirstFrame \/ VideoPlays \/ DelayedTakes
    BY <1>8, JoinOthersRead
<1>9. CASE TimeoutStarted \/ TimeoutJoined \/ TimeoutLeft
    BY <1>9, JoinCounts
<1>10. CASE ListenerShutsDown \/ VideoStops \/ DelayedStops \/ TimeoutStops \/ StopperTakes
    BY <1>10, JoinLeaves
<1> QED
    BY <1>1, <1>2, <1>3, <1>4, <1>5, <1>6, <1>7, <1>8, <1>9, <1>10
       DEF Next, Loop, Main, Video, Lifecycle, Delayed, Timeout, Stopper

\* The stream leaves nothing behind: ready is called no more often than the bus was
\* cloned, the absence timer is armed only when it is free (on_participant_left), and
\* a stream that ends by itself has stopped both timers and every subscription.
THEOREM NothingLeft == Spec => []LeavesNothingBehind
<1>1. Init => SessionInv /\ JoinInv
    BY SessionBegins, JoinBegins
<1>2. SessionInv /\ JoinInv /\ [Next]_vars => (SessionInv /\ JoinInv)'
    BY SessionStep, JoinStep
<1>3. ASSUME SessionInv, JoinInv
      PROVE  LeavesNothingBehind
  <2>1. TypeOK
      BY <1>3, TypesMakeTypeOK DEF SessionInv, TasksInv, BusInv
  <2>2. AbsenceTimerIsFree
    <3> SUFFICES ASSUME LastLeaves
                 PROVE  timer["absent"] = "off"
        BY DEF AbsenceTimerIsFree
    <3>1. /\ Counts /\ Mail \in Seq(Events) /\ Mail # <<>> /\ Head(Mail) = E("left")
        BY <1>3, AtIs, Names
           DEF LastLeaves, TimeoutTakes, TakesNext, Arrived, Counts, Mail, SessionInv, BusInv,
               BusTypeOK
    <3>2. Has(Mail, E("left")) /\ MayLeave
        BY <3>1, TailHas DEF MayLeave
    <3>3. ~Has(Mail, E("joined")) /\ ~OnItsWay
      <4>1. ~Has(Tail(Mail), E("joined")) /\ Ordered(Mail)
          BY <1>3, <3>1, OrderedTail DEF JoinInv, CountIsRight, Moves
      <4>2. Has(Mail, E("joined")) => E("joined") = Head(Mail) \/ Has(Tail(Mail), E("joined"))
          BY <3>1, TailHas
      <4> QED
          BY <1>3, <3>1, <4>1, <4>2, Names DEF JoinInv, CountIsRight
    <3> QED
        BY <1>3, <3>1, <3>2, <3>3 DEF JoinInv, CountIsRight, IsComing
  <2>3. EndedCleanly
    <3> SUFFICES ASSUME session = "ended"
                 PROVE  /\ \A k \in DOMAIN timer : timer[k] # "armed"
                        /\ \A s \in Subscribers, t \in Types : ~SubscribedTo(s, t)
        BY DEF EndedCleanly
    <3>1. \A t \in Worklets : pc[t] = "done"
        BY <1>3 DEF SessionInv, TasksInv, AllDone
    <3>2. \A k \in DOMAIN timer : timer[k] # "armed"
        BY <1>3, <3>1 DEF SessionInv, TasksInv, TaskTypes, TimersStopped, Worklets
    <3>3. \A s \in Subscribers : pc[s] \notin Reads(s)
      <4>1. pc["main"] = "done" /\ pc["video"] = "done"
          BY <1>3, <3>1 DEF SessionInv, TasksInv, MainPath, Worklets
      <4> QED
          BY <3>1, <4>1, Names, Readers DEF Worklets
    <3> QED
        BY <1>3, <3>2, <3>3 DEF SessionInv, BusInv, ListsAgree, SubscribedTo, Has
  <2> QED
      BY <2>1, <2>2, <2>3 DEF LeavesNothingBehind
<1> QED
    BY <1>1, <1>2, <1>3, PTL DEF Spec

=============================================================================
