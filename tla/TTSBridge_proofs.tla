-------------------------- MODULE TTSBridge_proofs --------------------------
(***************************************************************************)
(* Proofs about the speech bridge, for any number of responses and pieces  *)
(* and any size of the queue: a response is spoken in the order of its     *)
(* text and is heard, and what is interrupted or has ended leaves the      *)
(* avatar silent, whichever of the four tasks is cancelled where.          *)
(***************************************************************************)
EXTENDS TTSBridge, TLAPS, SequenceTheorems

Queued == Seq(0..MaxPieces)

(***************************************************************************)
(* Types.                                                                  *)
(***************************************************************************)

ResponseState ==
    [worker : {"none", "waiting", "speaking", "draining", "cleaning", "flushing", "ending",
               "done"},
     flush : {"none", "asleep", "putting", "cut"},
     queue : Queued, cut : 0..MaxPieces,
     pending : BOOLEAN, received : BOOLEAN, finishing : BOOLEAN,
     cancelled : BOOLEAN, segment : BOOLEAN, fails : BOOLEAN,
     spoken : Seq(1..MaxPieces), said : BOOLEAN]
CallState ==
    [at : Places, op : {"none", "feed", "finish", "interrupt", "close"},
     of : 0..MaxResponses, old : 0..MaxResponses,
     upto : 0..MaxResponses, rest : Queued]

(***************************************************************************)
(* One response.                                                           *)
(***************************************************************************)

\* A response without a worker has not begun; a cancelled one has no flush that will
\* still put a piece, and neither has one whose end is put.
StateSound(s) ==
    /\ s.worker = "none" => s = Unbegun
    /\ s.worker \in {"cleaning", "flushing", "ending", "done"} => s.cancelled
    /\ s.cancelled => s.flush \in {"none", "cut"}
    /\ s.flush = "putting" => ~s.finishing
    /\ s.pending => s.cut < MaxPieces
    /\ Len(s.queue) <= Capacity

\* Pieces in the order of the text, and nothing after the end.
Before(x, y) == x # End /\ (y # End => x < y)
Sorted(q) == \A i, j \in 1..Len(q) : i < j => Before(q[i], q[j])
Precedes(p, q) == \A i \in 1..Len(p), j \in 1..Len(q) : Before(p[i], q[j])

\* What is still to be put into the queue of r: by the feeder, or by the flush.
FeederPuts(r) == Feeder.at = "putting" /\ Feeder.of = r
ComingTo(k, r, s) ==
    IF k.at = "putting" /\ k.of = r THEN k.rest
    ELSE IF s.flush = "putting" THEN <<s.cut>> ELSE <<>>
Coming(r) == ComingTo(Feeder, r, state[r])

\* Nothing but the pieces of the text that have been cut is in the queue or comes.
Bounded(q, n) == \A i \in 1..Len(q) : q[i] <= n
HasEnd(q) == \E i \in 1..Len(q) : q[i] = End

Ordered(s, q) ==
    /\ Sorted(s.spoken) /\ Sorted(s.queue) /\ Sorted(q)
    /\ Precedes(s.spoken, s.queue) /\ Precedes(s.spoken, q) /\ Precedes(s.queue, q)
    /\ ~s.cancelled =>
          /\ Bounded(s.spoken, s.cut) /\ Bounded(s.queue, s.cut) /\ Bounded(q, s.cut)
          /\ HasEnd(s.queue) \/ HasEnd(q) \/ s.said => s.finishing
    /\ s.said => s.queue = <<>> /\ q = <<>>

\* Only one of the two tasks puts pieces.
OnePuts(r) == ~(FeederPuts(r) /\ state[r].flush \in {"putting", "cut"})

ResponseSound(r) == StateSound(state[r]) /\ OnePuts(r) /\ Ordered(state[r], Coming(r))

(***************************************************************************)
(* The calls.                                                              *)
(***************************************************************************)

Cancelling(c) == call[c].at \in {"flushing", "awaiting", "clearing"}
Replacing == Cancelling("feeder") /\ Feeder.op \in {"feed", "finish"}

CallSound(c) ==
    LET k == call[c] IN
    /\ k.at \in {"idle", "stopped", "raised"} => k = [Idle EXCEPT !.at = k.at]
    /\ k.at = "raised" => c = "feeder"
    /\ k.at = "stopped" => c = "controller" /\ closed
    /\ k.at \in {"locking", "putting"} =>
          c = "feeder" /\ k.op \in {"feed", "finish"} /\ k.of \in 1..turn /\ k.old = 0
    /\ k.at = "putting" => k.of \in Responses /\ state[k.of].worker # "none"
    /\ k.at = "locking" => k.of \in Responses
    /\ Cancelling(c) =>
          /\ k.old \in Responses /\ k.old # current /\ (k.old < turn \/ closed)
          /\ state[k.old].worker # "none" /\ state[k.old].cancelled
          /\ \/ k.op = "interrupt" /\ k.upto < turn
             \/ c = "feeder" /\ Replacing
             \/ c = "controller" /\ k.op = "close" /\ closed /\ current = 0

\* The feeder that waits for an older response has none, and closing, nobody begins one
\* but a feeder that did so already.
CallsAgree ==
    /\ Feeder.old # 0 => current = 0
    /\ Replacing => Feeder.of \in Responses /\ Feeder.of <= turn /\ Feeder.old < Feeder.of
    /\ Controller.op = "close" => ~Replacing
    /\ closed =>
          /\ Controller.at = "stopped" \/ (Cancelling("controller") /\ Controller.op = "close")
          /\ current \in slipped \cup {0}
          /\ Replacing => Feeder.of \in slipped

\* Later responses have not begun.
TurnsInOrder ==
    /\ current <= turn /\ (current # 0 => state[current].worker \notin {"none", "done", "cleaning"})
    /\ \A r \in Responses :
          \/ r > turn \/ (current # 0 /\ r > current) \/ (Replacing /\ r >= Feeder.of)
             => state[r] = Unbegun

(***************************************************************************)
(* Silence.                                                                *)
(***************************************************************************)

\* A response that is or will be current comes after the last one silenced, or slipped.
Later(r, upto) == r = 0 \/ r > upto \/ r \in slipped
Silences ==
    /\ open # 0 => state[open].segment
    /\ silenced < turn
    /\ Later(current, silenced) /\ (Replacing => Later(Feeder.of, silenced))
    /\ \A c \in Callers : Cancelling(c) /\ call[c].op = "interrupt" =>
          Later(current, call[c].upto) /\ (Replacing => Later(Feeder.of, call[c].upto))

Control ==
    /\ \A c \in Callers : CallSound(c)
    /\ CallsAgree /\ TurnsInOrder
    /\ Silences /\ SpeechIsHeard /\ EndsInSilence

BridgeInv == TypeOK /\ (\A r \in Responses : ResponseSound(r)) /\ Control

-----------------------------------------------------------------------------
(***************************************************************************)
(* Sequences of pieces.                                                    *)
(***************************************************************************)

LEMMA AppendIs ==
    ASSUME NEW p \in Queued, NEW x \in 0..MaxPieces
    PROVE  /\ Append(p, x) \in Queued /\ Len(p) \in Nat /\ Len(Append(p, x)) = Len(p) + 1
           /\ \A i \in 1..Len(p) : Append(p, x)[i] = p[i]
           /\ Append(p, x)[Len(p) + 1] = x
    BY AppendProperties, LenProperties DEF Queued

LEMMA TailIs ==
    ASSUME NEW q \in Queued, q # <<>>
    PROVE  /\ Len(q) \in Nat \ {0} /\ Tail(q) \in Queued /\ Len(Tail(q)) = Len(q) - 1
           /\ \A i \in 1..Len(Tail(q)) : Tail(q)[i] = q[i + 1]
           /\ Head(q) = q[1] /\ Head(q) \in 0..MaxPieces
           /\ \A i \in 1..Len(q) : q[i] \in 0..MaxPieces
<1>1. Len(q) \in Nat \ {0}
    BY LenProperties, EmptySeq DEF Queued
<1>2. /\ Tail(q) \in Queued /\ Len(Tail(q)) = Len(q) - 1 /\ Head(q) = q[1]
      /\ \A i \in 1..Len(Tail(q)) : Tail(q)[i] = q[i + 1]
    BY HeadTailProperties DEF Queued
<1>3. \A i \in 1..Len(q) : q[i] \in 0..MaxPieces
    BY ElementOfSeq DEF Queued
<1>4. Head(q) \in 0..MaxPieces
    BY <1>1, <1>2, <1>3
<1> QED
    BY <1>1, <1>2, <1>3, <1>4

LEMMA EmptyIs ==
    /\ <<>> \in Queued /\ Len(<<>>) = 0 /\ Sorted(<<>>) /\ ~HasEnd(<<>>)
    /\ \A q : Precedes(q, <<>>) /\ Precedes(<<>>, q)
    /\ \A n : Bounded(<<>>, n)
    BY DEF Queued, Sorted, HasEnd, Precedes, Bounded

LEMMA PiecesAreNumbers ==
    ASSUME NEW q \in Queued
    PROVE  Len(q) \in Nat /\ \A i \in 1..Len(q) : q[i] \in 0..MaxPieces /\ q[i] \in Nat
    BY LenProperties, ElementOfSeq, BridgeAssumption DEF Queued

\* The first of what comes is put behind what is there.
LEMMA HeadMoves ==
    ASSUME NEW p \in Queued, NEW q \in Queued, q # <<>>, Sorted(p), Sorted(q), Precedes(p, q)
    PROVE  /\ Append(p, Head(q)) \in Queued /\ Tail(q) \in Queued
           /\ Len(Append(p, Head(q))) = Len(p) + 1
           /\ Sorted(Append(p, Head(q))) /\ Sorted(Tail(q)) /\ Precedes(Append(p, Head(q)), Tail(q))
<1> DEFINE a == Append(p, Head(q))
           t == Tail(q)
<1>1. /\ a \in Queued /\ Len(p) \in Nat /\ Len(a) = Len(p) + 1
      /\ \A i \in 1..Len(p) : a[i] = p[i]
      /\ a[Len(p) + 1] = q[1]
    BY AppendIs, TailIs
<1>2. /\ t \in Queued /\ Len(q) \in Nat \ {0} /\ Len(t) = Len(q) - 1
      /\ \A i \in 1..Len(t) : t[i] = q[i + 1]
    BY TailIs
<1> HIDE DEF a, t
<1>3. Sorted(a)
  <2> SUFFICES ASSUME NEW i \in 1..Len(a), NEW j \in 1..Len(a), i < j
               PROVE  Before(a[i], a[j])
      BY DEF Sorted
  <2>1. i \in 1..Len(p) /\ 1 \in 1..Len(q)
      BY <1>1, <1>2
  <2>2. CASE j \in 1..Len(p)
      BY <1>1, <2>1, <2>2 DEF Sorted
  <2>3. CASE j = Len(p) + 1
      BY <1>1, <2>1, <2>3 DEF Precedes
  <2> QED
      BY <1>1, <2>2, <2>3
<1>4. Sorted(t)
  <2> SUFFICES ASSUME NEW i \in 1..Len(t), NEW j \in 1..Len(t), i < j
               PROVE  Before(t[i], t[j])
      BY DEF Sorted
  <2>1. i + 1 \in 1..Len(q) /\ j + 1 \in 1..Len(q) /\ i + 1 < j + 1
      BY <1>2
  <2> QED
      BY <1>2, <2>1 DEF Sorted
<1>5. Precedes(a, t)
  <2> SUFFICES ASSUME NEW i \in 1..Len(a), NEW j \in 1..Len(t)
               PROVE  Before(a[i], t[j])
      BY DEF Precedes
  <2>1. j + 1 \in 1..Len(q) /\ 1 \in 1..Len(q) /\ 1 < j + 1
      BY <1>2
  <2>2. CASE i \in 1..Len(p)
      BY <1>1, <1>2, <2>1, <2>2 DEF Precedes
  <2>3. CASE i = Len(p) + 1
      BY <1>1, <1>2, <2>1, <2>3 DEF Sorted
  <2> QED
      BY <1>1, <2>2, <2>3
<1> QED
    BY <1>1, <1>2, <1>3, <1>4, <1>5 DEF a, t

\* What comes before both, or after both, still does.
LEMMA MovesBehind ==
    ASSUME NEW z \in Queued, NEW p \in Queued, NEW q \in Queued, q # <<>>,
           Precedes(z, p), Precedes(z, q)
    PROVE  Precedes(z, Append(p, Head(q))) /\ Precedes(z, Tail(q))
<1> DEFINE a == Append(p, Head(q))
           t == Tail(q)
<1>1. /\ Len(p) \in Nat /\ Len(a) = Len(p) + 1
      /\ \A i \in 1..Len(p) : a[i] = p[i]
      /\ a[Len(p) + 1] = q[1]
    BY AppendIs, TailIs
<1>2. /\ Len(q) \in Nat \ {0} /\ Len(t) = Len(q) - 1
      /\ \A i \in 1..Len(t) : t[i] = q[i + 1]
    BY TailIs
<1> HIDE DEF a, t
<1>3. Precedes(z, a)
  <2> SUFFICES ASSUME NEW i \in 1..Len(z), NEW j \in 1..Len(a)
               PROVE  Before(z[i], a[j])
      BY DEF Precedes
  <2>1. 1 \in 1..Len(q) /\ (j \in 1..Len(p) \/ j = Len(p) + 1)
      BY <1>1, <1>2
  <2> QED
      BY <1>1, <2>1 DEF Precedes
<1>4. Precedes(z, t)
  <2> SUFFICES ASSUME NEW i \in 1..Len(z), NEW j \in 1..Len(t)
               PROVE  Before(z[i], t[j])
      BY DEF Precedes
  <2>1. j + 1 \in 1..Len(q)
      BY <1>2
  <2> QED
      BY <1>2, <2>1 DEF Precedes
<1> QED
    BY <1>3, <1>4 DEF a, t

LEMMA MovesAhead ==
    ASSUME NEW z \in Queued, NEW p \in Queued, NEW q \in Queued, q # <<>>,
           Precedes(p, z), Precedes(q, z)
    PROVE  Precedes(Append(p, Head(q)), z) /\ Precedes(Tail(q), z)
<1> DEFINE a == Append(p, Head(q))
           t == Tail(q)
<1>1. /\ Len(p) \in Nat /\ Len(a) = Len(p) + 1
      /\ \A i \in 1..Len(p) : a[i] = p[i]
      /\ a[Len(p) + 1] = q[1]
    BY AppendIs, TailIs
<1>2. /\ Len(q) \in Nat \ {0} /\ Len(t) = Len(q) - 1
      /\ \A i \in 1..Len(t) : t[i] = q[i + 1]
    BY TailIs
<1> HIDE DEF a, t
<1>3. Precedes(a, z)
  <2> SUFFICES ASSUME NEW i \in 1..Len(a), NEW j \in 1..Len(z)
               PROVE  Before(a[i], z[j])
      BY DEF Precedes
  <2>1. 1 \in 1..Len(q) /\ (i \in 1..Len(p) \/ i = Len(p) + 1)
      BY <1>1, <1>2
  <2> QED
      BY <1>1, <2>1 DEF Precedes
<1>4. Precedes(t, z)
  <2> SUFFICES ASSUME NEW i \in 1..Len(t), NEW j \in 1..Len(z)
               PROVE  Before(t[i], z[j])
      BY DEF Precedes
  <2>1. i + 1 \in 1..Len(q)
      BY <1>2
  <2> QED
      BY <1>2, <2>1 DEF Precedes
<1> QED
    BY <1>3, <1>4 DEF a, t

\* A bound of both is one, and an end in one of them was in one of them.
LEMMA BoundsMove ==
    ASSUME NEW p \in Queued, NEW q \in Queued, q # <<>>
    PROVE  /\ \A n : Bounded(p, n) /\ Bounded(q, n) =>
                     Bounded(Append(p, Head(q)), n) /\ Bounded(Tail(q), n)
           /\ HasEnd(Append(p, Head(q))) \/ HasEnd(Tail(q)) => HasEnd(p) \/ HasEnd(q)
<1> DEFINE a == Append(p, Head(q))
           t == Tail(q)
<1>1. /\ Len(p) \in Nat /\ Len(a) = Len(p) + 1
      /\ \A i \in 1..Len(p) : a[i] = p[i]
      /\ a[Len(p) + 1] = q[1]
    BY AppendIs, TailIs
<1>2. /\ Len(q) \in Nat \ {0} /\ Len(t) = Len(q) - 1
      /\ \A i \in 1..Len(t) : t[i] = q[i + 1]
    BY TailIs
<1> HIDE DEF a, t
<1>3. /\ 1 \in 1..Len(q)
      /\ \A i \in 1..Len(t) : i + 1 \in 1..Len(q)
      /\ \A i \in 1..Len(a) : i \in 1..Len(p) \/ i = Len(p) + 1
    BY <1>1, <1>2
<1>4. ASSUME NEW n, Bounded(p, n), Bounded(q, n)
      PROVE  Bounded(a, n) /\ Bounded(t, n)
    BY <1>1, <1>2, <1>3, <1>4 DEF Bounded
<1>5. HasEnd(a) \/ HasEnd(t) => HasEnd(p) \/ HasEnd(q)
    BY <1>1, <1>2, <1>3 DEF HasEnd
<1> QED
    BY <1>4, <1>5 DEF a, t

\* Nothing comes after an end.
LEMMA EndIsLast ==
    ASSUME NEW q \in Queued, NEW z \in Queued, q # <<>>, Head(q) = End, Sorted(q), Precedes(q, z)
    PROVE  Tail(q) = <<>> /\ z = <<>>
<1>1. Len(q) \in Nat \ {0} /\ q[1] = End /\ Tail(q) \in Queued /\ Len(Tail(q)) = Len(q) - 1
    BY TailIs
<1>2. Len(z) \in Nat
    BY PiecesAreNumbers
<1>3. ~(Len(q) > 1)
    BY <1>1 DEF Sorted, Before
<1>4. ~(Len(z) > 0)
    BY <1>1, <1>2 DEF Precedes, Before
<1> QED
    BY <1>1, <1>2, <1>3, <1>4, EmptySeq DEF Queued

\* The pieces that are cut next come after all that was cut before.
LEMMA NumbersAre ==
    ASSUME NEW s \in ResponseState, NEW n \in Nat, s.cut + n <= MaxPieces
    PROVE  /\ Numbers(s, n) \in Queued /\ Len(Numbers(s, n)) = n
           /\ \A i \in 1..n : Numbers(s, n)[i] = s.cut + i
<1>1. s.cut \in Nat /\ MaxPieces \in Nat
    BY BridgeAssumption DEF ResponseState
<1>2. \A i \in 1..n : s.cut + i \in 0..MaxPieces
    BY <1>1
<1>3. Numbers(s, n) \in [1..n -> 0..MaxPieces]
    BY <1>2 DEF Numbers
<1>4. \A i \in 1..n : Numbers(s, n)[i] = s.cut + i
    BY DEF Numbers
<1>5. Numbers(s, n) \in Queued
    BY <1>3, SeqDef DEF Queued
<1>6. Len(Numbers(s, n)) = n
    BY <1>3
<1> QED
    BY <1>4, <1>5, <1>6

LEMMA NextPieces ==
    ASSUME NEW s \in ResponseState, NEW n \in Nat, s.cut + n <= MaxPieces,
           NEW w \in {Numbers(s, n), Append(Numbers(s, n), End)}
    PROVE  /\ w \in Queued /\ Sorted(w) /\ Bounded(w, s.cut + n)
           /\ w = Numbers(s, n) => ~HasEnd(w)
           /\ \A z \in Queued : Bounded(z, s.cut) /\ ~HasEnd(z) => Precedes(z, w)
<1>1. s.cut \in Nat /\ MaxPieces \in Nat /\ End = 0 /\ 0 \in 0..MaxPieces
    BY BridgeAssumption DEF ResponseState, End
<1>2. /\ w \in Queued /\ Len(w) \in {n, n + 1}
      /\ \A i \in 1..n : w[i] = s.cut + i
      /\ w # Numbers(s, n) => Len(w) = n + 1 /\ w[n + 1] = End
      /\ w = Numbers(s, n) => Len(w) = n
  <2> DEFINE v == Numbers(s, n)
  <2>1. v \in Queued /\ Len(v) = n /\ \A i \in 1..n : v[i] = s.cut + i
      BY NumbersAre
  <2> HIDE DEF v
  <2>2. CASE w = v
      BY <2>1, <2>2 DEF v
  <2>3. CASE w = Append(v, End)
    <3>1. /\ w \in Queued /\ Len(w) = n + 1 /\ w[n + 1] = End
          /\ \A i \in 1..n : w[i] = v[i]
        BY <1>1, <2>1, <2>3, AppendIs
    <3> QED
        BY <2>1, <3>1 DEF v
  <2> QED
      BY <2>2, <2>3 DEF v
<1>3. \A i \in 1..Len(w) : (i \in 1..n /\ w[i] = s.cut + i) \/ (i = n + 1 /\ w[i] = End /\ w # Numbers(s, n))
    BY <1>2
<1>4. Sorted(w)
  <2> SUFFICES ASSUME NEW i \in 1..Len(w), NEW j \in 1..Len(w), i < j
               PROVE  Before(w[i], w[j])
      BY DEF Sorted
  <2>1. i \in 1..n /\ w[i] = s.cut + i
      BY <1>2, <1>3
  <2> QED
      BY <1>1, <1>3, <2>1 DEF Before
<1>5. Bounded(w, s.cut + n)
    BY <1>1, <1>3 DEF Bounded
<1>6. w = Numbers(s, n) => ~HasEnd(w)
    BY <1>1, <1>3 DEF HasEnd
<1>7. ASSUME NEW z \in Queued, Bounded(z, s.cut), ~HasEnd(z)
      PROVE  Precedes(z, w)
  <2> SUFFICES ASSUME NEW i \in 1..Len(z), NEW j \in 1..Len(w)
               PROVE  Before(z[i], w[j])
      BY DEF Precedes
  <2>1. z[i] \in Nat /\ z[i] <= s.cut /\ z[i] # End
      BY <1>7, PiecesAreNumbers DEF Bounded, HasEnd
  <2> QED
      BY <1>1, <1>3, <2>1 DEF Before
<1> QED
    BY <1>2, <1>4, <1>5, <1>6, <1>7

-----------------------------------------------------------------------------
(***************************************************************************)
(* The order of one response's pieces.                                     *)
(***************************************************************************)

LEMMA PiecesOf ==
    ASSUME NEW s \in ResponseState
    PROVE  /\ s.queue \in Queued /\ s.spoken \in Queued /\ s.cut \in Nat
           /\ s.spoken \in Seq(1..MaxPieces)
<1>1. 1..MaxPieces \subseteq 0..MaxPieces
    BY BridgeAssumption
<1>2. \A q \in Seq(1..MaxPieces) : q \in Seq(0..MaxPieces)
    BY <1>1, SeqMonotonic
<1>3. s.cut \in Nat
    BY BridgeAssumption DEF ResponseState
<1> QED
    BY <1>2, <1>3 DEF ResponseState, Queued

\* Nothing is put or spoken; what comes may be lost.
LEMMA SameOrder ==
    ASSUME NEW s \in ResponseState, NEW t \in ResponseState, NEW q \in Queued,
           NEW p \in {q, <<>>}, Ordered(s, q),
           t.spoken = s.spoken, t.queue = s.queue, t.cut = s.cut, t.said = s.said,
           t.finishing = s.finishing, s.cancelled => t.cancelled
    PROVE  Ordered(t, p)
<1>1. CASE p = q
    BY <1>1 DEF Ordered
<1>2. CASE p = <<>>
    BY <1>2, EmptyIs DEF Ordered
<1> QED
    BY <1>1, <1>2

\* The next of what comes is put; the others may be lost.
LEMMA PutInOrder ==
    ASSUME NEW s \in ResponseState, NEW t \in ResponseState, NEW q \in Queued, q # <<>>,
           NEW p \in {Tail(q), <<>>}, Ordered(s, q),
           t.spoken = s.spoken, t.queue = Append(s.queue, Head(q)), t.cut = s.cut,
           t.said = s.said, t.finishing = s.finishing, s.cancelled => t.cancelled
    PROVE  Ordered(t, p)
<1> DEFINE b == Append(s.queue, Head(q))
<1>1. s.queue \in Queued /\ s.spoken \in Queued
    BY PiecesOf
<1>2. /\ Tail(q) \in Queued /\ Sorted(b) /\ Sorted(Tail(q)) /\ Precedes(b, Tail(q))
    BY <1>1, HeadMoves DEF Ordered
<1>3. Precedes(s.spoken, b) /\ Precedes(s.spoken, Tail(q))
    BY <1>1, MovesBehind DEF Ordered
<1>4. ~s.cancelled => Bounded(b, s.cut) /\ Bounded(Tail(q), s.cut)
    BY <1>1, BoundsMove DEF Ordered
<1>5. HasEnd(b) \/ HasEnd(Tail(q)) => HasEnd(s.queue) \/ HasEnd(q)
    BY <1>1, BoundsMove
<1>6. ~s.said
    BY DEF Ordered
<1>7. t.queue = b
    OBVIOUS
<1> HIDE DEF b
<1>8. CASE p = Tail(q)
    BY <1>2, <1>3, <1>4, <1>5, <1>6, <1>7, <1>8 DEF Ordered
<1>9. CASE p = <<>>
    BY <1>2, <1>3, <1>4, <1>5, <1>6, <1>7, <1>9, EmptyIs DEF Ordered
<1> QED
    BY <1>8, <1>9

\* The next piece in the queue is spoken.
LEMMA TakenInOrder ==
    ASSUME NEW s \in ResponseState, NEW t \in ResponseState, NEW q \in Queued, Ordered(s, q),
           s.queue # <<>>, Head(s.queue) # End,
           t.spoken = Append(s.spoken, Head(s.queue)), t.queue = Tail(s.queue), t.cut = s.cut,
           t.said = s.said, t.finishing = s.finishing, s.cancelled => t.cancelled
    PROVE  Ordered(t, q)
<1> DEFINE a == Append(s.spoken, Head(s.queue))
           b == Tail(s.queue)
<1>1. s.queue \in Queued /\ s.spoken \in Queued
    BY PiecesOf
<1>2. Sorted(a) /\ Sorted(b) /\ Precedes(a, b)
    BY <1>1, HeadMoves DEF Ordered
<1>3. Precedes(a, q) /\ Precedes(b, q)
    BY <1>1, MovesAhead DEF Ordered
<1>4. ~s.cancelled => Bounded(a, s.cut) /\ Bounded(b, s.cut)
    BY <1>1, BoundsMove DEF Ordered
<1>5. HasEnd(b) => HasEnd(s.queue)
  <2>1. /\ Len(s.queue) \in Nat \ {0} /\ Len(b) = Len(s.queue) - 1
        /\ \A i \in 1..Len(b) : b[i] = s.queue[i + 1]
      BY <1>1, TailIs
  <2> HIDE DEF b
  <2>2. \A i \in 1..Len(b) : i + 1 \in 1..Len(s.queue)
      BY <2>1
  <2> QED
      BY <2>1, <2>2 DEF HasEnd
<1>6. ~s.said
    BY DEF Ordered
<1>7. t.queue = b /\ t.spoken = a
    OBVIOUS
<1> HIDE DEF a, b
<1> QED
    BY <1>2, <1>3, <1>4, <1>5, <1>6, <1>7 DEF Ordered

\* The end in the queue was the last.
LEMMA EndTaken ==
    ASSUME NEW s \in ResponseState, NEW t \in ResponseState, NEW q \in Queued, Ordered(s, q),
           s.queue # <<>>, Head(s.queue) = End,
           t.spoken = s.spoken, t.queue = Tail(s.queue), t.cut = s.cut,
           t.finishing = s.finishing, s.cancelled => t.cancelled
    PROVE  Ordered(t, q)
<1>1. s.queue \in Queued
    BY PiecesOf
<1>2. Tail(s.queue) = <<>> /\ q = <<>>
    BY <1>1, EndIsLast DEF Ordered
<1>3. HasEnd(s.queue)
    BY <1>1, TailIs DEF HasEnd
<1> QED
    BY <1>2, <1>3, EmptyIs DEF Ordered

\* The queue is emptied, or the response is over.
LEMMA EmptiedInOrder ==
    ASSUME NEW s \in ResponseState, NEW t \in ResponseState, NEW q \in Queued,
           NEW p \in {q, <<>>}, Ordered(s, q),
           t.queue = <<>>, t.spoken \in {s.spoken, <<>>}, t.said => s.said,
           t.cancelled \/ (t.cut = s.cut /\ t.finishing = s.finishing /\ ~s.cancelled)
    PROVE  Ordered(t, p)
<1>1. CASE p = q /\ t.spoken = s.spoken
    BY <1>1, EmptyIs DEF Ordered
<1>2. CASE p = q /\ t.spoken = <<>>
    BY <1>2, EmptyIs DEF Ordered
<1>3. CASE p = <<>>
    BY <1>3, EmptyIs DEF Ordered
<1> QED
    BY <1>1, <1>2, <1>3

\* The text that is cut next comes, and its end.
LEMMA NewInOrder ==
    ASSUME NEW s \in ResponseState, NEW t \in ResponseState, Ordered(s, <<>>),
           ~s.cancelled, ~s.finishing, NEW n \in Nat, s.cut + n <= MaxPieces,
           NEW w \in {Numbers(s, n), Append(Numbers(s, n), End)},
           t.spoken = s.spoken, t.queue = s.queue, t.cut = s.cut + n, t.said = s.said,
           ~t.cancelled, w # Numbers(s, n) => t.finishing
    PROVE  Ordered(t, w) /\ w \in Queued
<1>1. s.queue \in Queued /\ s.spoken \in Queued /\ s.cut \in Nat
    BY PiecesOf
<1>2. ~s.said /\ ~HasEnd(s.queue) /\ ~HasEnd(s.spoken)
  <2>1. ~s.said /\ ~HasEnd(s.queue)
      BY DEF Ordered
  <2>2. \A i \in 1..Len(s.spoken) : s.spoken[i] \in 1..MaxPieces
      BY PiecesOf, ElementOfSeq
  <2> QED
      BY <2>1, <2>2 DEF HasEnd, End
<1>3. /\ w \in Queued /\ Sorted(w) /\ Bounded(w, s.cut + n) /\ (w = Numbers(s, n) => ~HasEnd(w))
      /\ \A z \in Queued : Bounded(z, s.cut) /\ ~HasEnd(z) => Precedes(z, w)
    BY NextPieces
<1>4. Precedes(s.spoken, w) /\ Precedes(s.queue, w)
    BY <1>1, <1>2, <1>3 DEF Ordered
<1>5. \A z \in Queued : Bounded(z, s.cut) => Bounded(z, s.cut + n)
  <2> SUFFICES ASSUME NEW z \in Queued, Bounded(z, s.cut), NEW i \in 1..Len(z)
               PROVE  z[i] <= s.cut + n
      BY DEF Bounded
  <2>1. z[i] \in Nat /\ z[i] <= s.cut
      BY PiecesAreNumbers DEF Bounded
  <2> QED
      BY <1>1, <2>1
<1> QED
    BY <1>1, <1>2, <1>3, <1>4, <1>5 DEF Ordered

-----------------------------------------------------------------------------
(***************************************************************************)
(* What becomes of one response.                                           *)
(***************************************************************************)

\* What the flush that is putting has in hand is what comes.
ComesFrom(s, q) == s.flush = "putting" => q = <<s.cut>>
Left(s, q) == IF s.flush = "putting" THEN <<>> ELSE q

\* t is s, but for its flush, its queue and whether it is cancelled.
LikeBut(s, t) ==
    /\ t.worker = s.worker /\ t.cut = s.cut /\ t.pending = s.pending /\ t.received = s.received
    /\ t.finishing = s.finishing /\ t.segment = s.segment /\ t.fails = s.fails
    /\ t.spoken = s.spoken /\ t.said = s.said

LEMMA OnePiece ==
    ASSUME NEW n \in 0..MaxPieces
    PROVE  <<n>> \in Queued /\ <<n>> # <<>> /\ Head(<<n>>) = n /\ Tail(<<n>>) = <<>>
    BY DEF Queued

\* A flush that is cut has no piece any more: it is in the queue, or lost.
LEMMA FlushCutIs ==
    ASSUME NEW s \in ResponseState, NEW q \in Queued, Ordered(s, q), ComesFrom(s, q),
           Len(s.queue) <= Capacity
    PROVE  /\ FlushCut(s) \in ResponseState /\ LikeBut(s, FlushCut(s))
           /\ FlushCut(s).cancelled = s.cancelled
           /\ FlushCut(s).flush \in {"none", "cut"}
           /\ FlushCut(s).flush = "cut" <=> s.flush \in {"putting", "cut"}
           /\ Len(FlushCut(s).queue) <= Capacity
           /\ Ordered(FlushCut(s), Left(s, q)) /\ Left(s, q) \in Queued
<1> DEFINE t == FlushCut(s)
<1>1. s.queue \in Queued /\ s.cut \in 0..MaxPieces
    BY DEF ResponseState
<1>2. CASE s.flush = "asleep"
  <2>1. t = [s EXCEPT !.flush = "none"]
      BY <1>2 DEF FlushCut
  <2>2. t \in ResponseState /\ LikeBut(s, t) /\ t.queue = s.queue /\ t.cancelled = s.cancelled /\ t.flush = "none"
      BY <2>1 DEF ResponseState, LikeBut
  <2> HIDE DEF t
  <2>3. Ordered(t, q)
      BY <2>2, SameOrder DEF LikeBut
  <2> QED
      BY <1>2, <2>2, <2>3 DEF Left, t
<1>3. CASE s.flush = "putting"
  <2> DEFINE w == IF Len(s.queue) < Capacity THEN Append(s.queue, s.cut) ELSE s.queue
  <2>1. t = [s EXCEPT !.flush = "cut", !.queue = w]
      BY <1>3 DEF FlushCut
  <2>2. w \in Queued /\ Len(w) <= Capacity
    <3>1. CASE Len(s.queue) < Capacity
      <4>1. Append(s.queue, s.cut) \in Queued /\ Len(s.queue) \in Nat
            /\ Len(Append(s.queue, s.cut)) = Len(s.queue) + 1
          BY <1>1, AppendIs
      <4> QED
          BY <3>1, <4>1, BridgeAssumption
    <3>2. CASE ~(Len(s.queue) < Capacity)
        BY <1>1, <3>2
    <3> QED
        BY <3>1, <3>2
  <2> HIDE DEF w
  <2>3. t \in ResponseState /\ LikeBut(s, t) /\ t.queue = w /\ t.cancelled = s.cancelled /\ t.flush = "cut"
      BY <2>1, <2>2 DEF ResponseState, LikeBut
  <2> HIDE DEF t
  <2>4. q = <<s.cut>> /\ q # <<>> /\ Head(q) = s.cut /\ Tail(q) = <<>>
      BY <1>1, <1>3, OnePiece DEF ComesFrom
  <2>5. w = s.queue \/ w = Append(s.queue, Head(q))
      BY <2>4 DEF w
  <2>6. Ordered(t, <<>>)
    <3>1. CASE w = s.queue
        BY <2>3, <3>1, SameOrder DEF LikeBut
    <3>2. CASE w = Append(s.queue, Head(q))
        BY <2>3, <2>4, <3>2, PutInOrder DEF LikeBut
    <3> QED
        BY <2>5, <3>1, <3>2
  <2> QED
      BY <1>3, <2>2, <2>3, <2>6, EmptyIs DEF Left, t
<1>4. CASE s.flush \in {"none", "cut"}
  <2>1. t = s
      BY <1>4 DEF FlushCut
  <2> QED
      BY <1>4, <2>1 DEF Left, LikeBut
<1> QED
    BY <1>2, <1>3, <1>4 DEF ResponseState

LEMMA CancelledIs ==
    ASSUME NEW s \in ResponseState, NEW q \in Queued, Ordered(s, q), ComesFrom(s, q),
           StateSound(s)
    PROVE  /\ Cancelled(s) \in ResponseState /\ LikeBut(s, Cancelled(s))
           /\ Cancelled(s).cancelled
           /\ Cancelled(s).flush \in {"none", "cut"}
           /\ Cancelled(s).flush = "cut" <=> s.flush \in {"putting", "cut"}
           /\ s.worker # "none" => StateSound(Cancelled(s))
           /\ Ordered(Cancelled(s), Left(s, q)) /\ Left(s, q) \in Queued
<1> DEFINE u == [s EXCEPT !.cancelled = TRUE]
<1>1. /\ u \in ResponseState /\ LikeBut(s, u) /\ u.cancelled /\ u.queue = s.queue /\ u.flush = s.flush
    BY DEF ResponseState, LikeBut
<1> HIDE DEF u
<1>2. Ordered(u, q) /\ ComesFrom(u, q) /\ Left(u, q) = Left(s, q)
    BY <1>1, SameOrder DEF LikeBut, ComesFrom, Left
<1>3. Cancelled(s) = FlushCut(u)
    BY DEF Cancelled, u
<1> DEFINE t == FlushCut(u)
<1>4. /\ t \in ResponseState /\ LikeBut(u, t) /\ t.cancelled = u.cancelled
      /\ t.flush \in {"none", "cut"}
      /\ t.flush = "cut" <=> u.flush \in {"putting", "cut"}
      /\ Len(t.queue) <= Capacity
      /\ Ordered(t, Left(u, q)) /\ Left(u, q) \in Queued
    BY <1>1, <1>2, FlushCutIs DEF StateSound
<1> HIDE DEF t
<1>5. s.worker # "none" => StateSound(t)
    BY <1>1, <1>4 DEF StateSound, LikeBut
<1>6. LikeBut(s, t)
    BY <1>1, <1>4 DEF LikeBut
<1> QED
    BY <1>1, <1>2, <1>3, <1>4, <1>5, <1>6 DEF t

\* A response that is over has nothing in its queue and has not been spoken.
LEMMA OverIs ==
    ASSUME NEW s \in ResponseState, NEW q \in Queued, Ordered(s, q),
           s.flush \in {"none", "cut"}
    PROVE  /\ Over(s) \in ResponseState /\ StateSound(Over(s)) /\ Ordered(Over(s), q)
           /\ Over(s).worker = "done" /\ Over(s).cancelled /\ Over(s).segment = s.segment
           /\ Over(s).flush = s.flush
<1> DEFINE t == Over(s)
<1>1. MaxPieces \in Nat /\ Capacity \in Nat \ {0}
    BY BridgeAssumption
<1>2. <<>> \in Queued /\ <<>> \in Seq(1..MaxPieces) /\ Len(<<>>) = 0
    BY DEF Queued
<1>3. /\ t.worker = "done" /\ t.cancelled = TRUE /\ t.segment = s.segment /\ t.flush = s.flush
      /\ t.queue = <<>> /\ t.spoken = <<>> /\ t.said = FALSE /\ t.pending = FALSE /\ t.finishing = FALSE
    BY DEF Over, Unbegun
<1>4. t \in ResponseState
  <2>1. s.segment \in BOOLEAN /\ s.flush \in {"none", "asleep", "putting", "cut"} /\ 0 \in 0..MaxPieces
      BY <1>1 DEF ResponseState
  <2>2. Unbegun \in ResponseState
      BY <1>2, <2>1 DEF Unbegun, ResponseState
  <2> QED
      BY <2>1, <2>2 DEF Over, ResponseState
<1> HIDE DEF t
<1>5. StateSound(t)
    BY <1>1, <1>2, <1>3 DEF StateSound
<1>6. Ordered(t, q)
    BY <1>3, <1>4, EmptiedInOrder
<1> QED
    BY <1>3, <1>4, <1>5, <1>6 DEF t

\* The worker of a cancelled response cleans up or is gone, unless it waits for the flush.
LEMMA WorkerCancelledIs ==
    ASSUME NEW s \in ResponseState, NEW q \in Queued, Ordered(s, q), StateSound(s), s.cancelled,
           s.worker # "none"
    PROVE  LET t == WorkerCancelled(s) IN
           /\ t \in ResponseState /\ StateSound(t) /\ Ordered(t, q)
           /\ t.worker # "none" /\ t.cancelled /\ t.segment = s.segment /\ t.flush = s.flush
<1> DEFINE t == WorkerCancelled(s)
<1>1. s.flush \in {"none", "cut"}
    BY DEF StateSound
<1>2. CASE s.worker \in {"waiting", "speaking", "draining"}
  <2>1. t = [s EXCEPT !.worker = "cleaning"]
      BY <1>2 DEF WorkerCancelled
  <2>2. /\ t \in ResponseState /\ t.worker = "cleaning" /\ t.cancelled = s.cancelled /\ t.flush = s.flush
        /\ t.queue = s.queue /\ t.spoken = s.spoken /\ t.said = s.said /\ t.cut = s.cut
        /\ t.finishing = s.finishing /\ t.pending = s.pending /\ t.segment = s.segment
      BY <2>1 DEF ResponseState
  <2> HIDE DEF t
  <2>3. StateSound(t)
      BY <2>2 DEF StateSound
  <2>4. Ordered(t, q)
      BY <2>2, SameOrder
  <2> QED
      BY <2>2, <2>3, <2>4 DEF t
<1>3. CASE s.worker = "flushing" /\ s.flush = "cut"
  <2>1. t = s
      BY <1>3 DEF WorkerCancelled
  <2> QED
      BY <1>3, <2>1
<1>4. CASE ~(s.worker \in {"waiting", "speaking", "draining"}) /\ ~(s.worker = "flushing" /\ s.flush = "cut")
  <2>1. t = Over(s)
      BY <1>4 DEF WorkerCancelled
  <2> QED
      BY <1>1, <2>1, OverIs
<1> QED
    BY <1>2, <1>3, <1>4

\* The last lines begin with cancelled and the flush.
LEMMA EndingIs ==
    ASSUME NEW s \in ResponseState, NEW q \in Queued, Ordered(s, q), ComesFrom(s, q),
           StateSound(s), s.worker # "none"
    PROVE  LET t == Ending(s) IN
           /\ t \in ResponseState /\ StateSound(t) /\ Ordered(t, Left(s, q)) /\ Left(s, q) \in Queued
           /\ t.worker \in {"flushing", "ending"} /\ t.cancelled /\ t.segment = s.segment
           /\ t.flush \in {"none", "cut"}
           /\ t.flush = "cut" <=> s.flush \in {"putting", "cut"}
<1> DEFINE u == Cancelled(s)
           w == IF FlushAlive(s) THEN "flushing" ELSE "ending"
           t == [u EXCEPT !.worker = w]
<1>1. /\ u \in ResponseState /\ LikeBut(s, u) /\ u.cancelled
      /\ u.flush \in {"none", "cut"}
      /\ u.flush = "cut" <=> s.flush \in {"putting", "cut"}
      /\ StateSound(u) /\ Ordered(u, Left(s, q)) /\ Left(s, q) \in Queued
    BY CancelledIs
<1>2. Ending(s) = t /\ w \in {"flushing", "ending"}
    BY DEF Ending
<1> HIDE DEF u, w
<1>3. /\ t \in ResponseState /\ t.worker \in {"flushing", "ending"} /\ t.cancelled = u.cancelled
      /\ t.flush = u.flush /\ t.queue = u.queue /\ t.spoken = u.spoken /\ t.said = u.said
      /\ t.cut = u.cut /\ t.finishing = u.finishing /\ t.pending = u.pending /\ t.segment = u.segment
    BY <1>1, <1>2 DEF ResponseState
<1> HIDE DEF t
<1>4. StateSound(t)
    BY <1>1, <1>3 DEF StateSound
<1>5. Ordered(t, Left(s, q))
    BY <1>1, <1>3, SameOrder
<1> QED
    BY <1>1, <1>2, <1>3, <1>4, <1>5 DEF LikeBut

-----------------------------------------------------------------------------
(***************************************************************************)
(* What a step leaves alone.                                               *)
(***************************************************************************)

LEMMA TypeIs ==
    ASSUME TypeOK
    PROVE  /\ incremental \in BOOLEAN /\ closed \in BOOLEAN
           /\ current \in 0..MaxResponses /\ open \in 0..MaxResponses
           /\ turn \in 1..(MaxResponses + 1)
           /\ silenced \in 0..MaxResponses /\ slipped \subseteq Responses
           /\ state \in [Responses -> ResponseState] /\ call \in [Callers -> CallState]
           /\ Feeder \in CallState /\ Controller \in CallState
           /\ MaxResponses \in Nat
    BY BridgeAssumption DEF TypeOK, ResponseState, CallState, Queued, Feeder, Controller, Callers

LEMMA TypeKept ==
    ASSUME incremental' \in BOOLEAN, closed' \in BOOLEAN,
           current' \in 0..MaxResponses, open' \in 0..MaxResponses,
           turn' \in 1..(MaxResponses + 1),
           silenced' \in 0..MaxResponses, slipped' \subseteq Responses,
           state' \in [Responses -> ResponseState], call' \in [Callers -> CallState],
           \A r \in Responses : Len(state'[r].queue) <= Capacity
    PROVE  TypeOK'
    BY DEF TypeOK, ResponseState, CallState, Queued

\* A step that changes one response and what the feeder has to put for it.
LEMMA OneChanges ==
    ASSUME TypeOK, \A x \in Responses : ResponseSound(x),
           NEW r \in Responses, NEW t \in ResponseState, Becomes(r, t), StateSound(t),
           NEW k \in CallState, call'["feeder"] = k,
           \/ k = Feeder
           \/ (Feeder.at = "putting" => Feeder.of = r) /\ (k.at = "putting" => k.of = r),
           ~(k.at = "putting" /\ k.of = r /\ t.flush \in {"putting", "cut"}),
           Ordered(t, ComingTo(k, r, t))
    PROVE  /\ state' \in [Responses -> ResponseState]
           /\ state'[r] = t /\ \A x \in Responses \ {r} : state'[x] = state[x]
           /\ \A x \in Responses : ResponseSound(x)'
           /\ \A x \in Responses : Len(state'[x].queue) <= Capacity
<1>1. state \in [Responses -> ResponseState]
    BY TypeIs
<1>2. /\ state' \in [Responses -> ResponseState]
      /\ state'[r] = t /\ \A x \in Responses \ {r} : state'[x] = state[x]
    BY <1>1 DEF Becomes
<1>3. ASSUME NEW x \in Responses
      PROVE  ResponseSound(x)'
  <2>1. CASE x = r
    <3>1. Coming(x)' = ComingTo(k, r, t)
        BY <1>2, <2>1 DEF Coming, ComingTo, Feeder
    <3>2. OnePuts(x)'
        BY <1>2, <2>1 DEF OnePuts, FeederPuts, Feeder
    <3> QED
        BY <1>2, <2>1, <3>1, <3>2 DEF ResponseSound
  <2>2. CASE x # r
    <3>1. state'[x] = state[x] /\ ResponseSound(x)
        BY <1>2, <2>2
    <3>2. Coming(x)' = Coming(x) /\ FeederPuts(x)' = FeederPuts(x)
        BY <2>2, <3>1 DEF Coming, ComingTo, FeederPuts, Feeder
    <3> QED
        BY <3>1, <3>2 DEF ResponseSound, OnePuts
  <2> QED
      BY <2>1, <2>2
<1>4. \A x \in Responses : Len(state'[x].queue) <= Capacity
    BY <1>3 DEF ResponseSound, StateSound
<1> QED
    BY <1>2, <1>3, <1>4

\* A call that goes on as it did: the feeder's text, or what it cancelled is gone.
GoesOn(c, k) ==
    \/ c = "feeder" /\ call[c].at \in {"idle", "locking", "putting"}
                    /\ k.at \in {"idle", "locking", "putting", "raised"}
    \/ call[c].at = "flushing" /\ k = [call[c] EXCEPT !.at = "awaiting"]
    \/ call[c].at = "awaiting" /\ k = [call[c] EXCEPT !.at = "clearing"]

\* A response that is under way, or being cancelled, still is.
Lasts(s, t) == s.worker # "none" /\ t.worker # "none" /\ (s.cancelled => t.cancelled)
Keeps(s, t) == Lasts(s, t) /\ t.segment = s.segment

LEMMA CallsRest ==
    ASSUME TypeOK, Control, NEW c \in Callers, NEW k \in CallState, Does(c, k),
           k = call[c] \/ (GoesOn(c, k) /\ CallSound(c)')
    PROVE  /\ call' \in [Callers -> CallState]
           /\ \A x \in Callers :
                 /\ call'[x].old = call[x].old /\ (Cancelling(x)' <=> Cancelling(x))
                 /\ Cancelling(x) => /\ call'[x].op = call[x].op /\ call'[x].of = call[x].of
                                     /\ call'[x].upto = call[x].upto
                 /\ call'[x] = call[x] \/ CallSound(x)'
           /\ Controller'.op = Controller.op
           /\ Controller'.at = "stopped" <=> Controller.at = "stopped"
           /\ (Replacing' <=> Replacing) /\ (Replacing => Feeder'.of = Feeder.of)
<1>1. call \in [Callers -> CallState] /\ "feeder" \in Callers /\ "controller" \in Callers
    BY TypeIs DEF Callers
<1>2. /\ call' \in [Callers -> CallState] /\ call'[c] = k
      /\ \A x \in Callers \ {c} : call'[x] = call[x]
    BY <1>1 DEF Does
<1>3. CallSound(c)
    BY DEF Control
<1>4. CASE k = call[c]
  <2>1. call' = call
      BY <1>1, <1>2, <1>4
  <2> QED
      BY <1>1, <2>1 DEF Cancelling, Replacing, Controller, Feeder
<1>5. CASE /\ c = "feeder" /\ call[c].at \in {"idle", "locking", "putting"}
           /\ k.at \in {"idle", "locking", "putting", "raised"} /\ CallSound(c)'
  <2>1. call[c].old = 0
      BY <1>3, <1>5 DEF CallSound, Idle
  <2>2. k.old = 0
      BY <1>2, <1>5 DEF CallSound, Idle
  <2>3. ~Cancelling(c) /\ ~Cancelling(c)'
      BY <1>2, <1>5 DEF Cancelling
  <2> QED
      BY <1>1, <1>2, <1>5, <2>1, <2>2, <2>3 DEF Cancelling, Replacing, Controller, Feeder
<1>6. CASE /\ \/ call[c].at = "flushing" /\ k = [call[c] EXCEPT !.at = "awaiting"]
              \/ call[c].at = "awaiting" /\ k = [call[c] EXCEPT !.at = "clearing"]
           /\ CallSound(c)'
  <2>1. /\ k.at \in {"awaiting", "clearing"} /\ k.old = call[c].old /\ k.op = call[c].op /\ k.of = call[c].of
        /\ k.upto = call[c].upto
      BY <1>1, <1>6 DEF CallState
  <2>2. Cancelling(c) /\ Cancelling(c)'
      BY <1>2, <1>6, <2>1 DEF Cancelling
  <2>3. ASSUME NEW x \in Callers
        PROVE  /\ call'[x].old = call[x].old /\ call'[x].op = call[x].op
               /\ call'[x].of = call[x].of /\ call'[x].upto = call[x].upto
               /\ Cancelling(x)' <=> Cancelling(x)
               /\ call'[x].at = "stopped" <=> call[x].at = "stopped"
               /\ call'[x] = call[x] \/ CallSound(x)'
    <3>1. CASE x = c
        BY <1>2, <1>6, <2>1, <2>2, <3>1
    <3>2. CASE x # c
        BY <1>2, <3>2 DEF Cancelling
    <3> QED
        BY <3>1, <3>2
  <2> QED
      BY <1>1, <1>2, <2>3 DEF Replacing, Controller, Feeder
<1> QED
    BY <1>4, <1>5, <1>6 DEF GoesOn

\* A call that does not move stays sound.
LEMMA CallStays ==
    ASSUME TypeOK, NEW x \in Callers, CallSound(x), call'[x] = call[x],
           turn' \in Nat, turn <= turn', closed => closed',
           Cancelling(x) =>
              LET o == call[x].old IN
              /\ o # current' /\ (state'[o] = state[o] \/ Lasts(state[o], state'[o]))
              /\ x = "controller" /\ current = 0 /\ call[x].op = "close" => current' = 0,
           call[x].at = "putting" => state'[call[x].of].worker # "none"
    PROVE  CallSound(x)'
<1>1. turn \in Nat /\ MaxResponses \in Nat /\ call \in [Callers -> CallState]
    BY TypeIs
<1>2. call[x].of \in 0..MaxResponses /\ call[x].old \in 0..MaxResponses /\ call[x].upto \in 0..MaxResponses
    BY <1>1 DEF CallState
<1>3. /\ (call[x].of <= turn => call[x].of <= turn')
      /\ (call[x].old < turn => call[x].old < turn')
      /\ (call[x].upto < turn => call[x].upto < turn')
      /\ (call[x].of \in 1..turn => call[x].of \in 1..turn')
    BY <1>1, <1>2
<1>4. /\ call[x].at \in {"idle", "stopped", "raised"} => call[x] = [Idle EXCEPT !.at = call[x].at]
      /\ call[x].at = "raised" => x = "feeder"
      /\ call[x].at = "stopped" => x = "controller" /\ closed'
      /\ call[x].at \in {"locking", "putting"} =>
            x = "feeder" /\ call[x].op \in {"feed", "finish"} /\ call[x].of \in 1..turn' /\ call[x].old = 0
      /\ call[x].at = "putting" => call[x].of \in Responses /\ state'[call[x].of].worker # "none"
      /\ call[x].at = "locking" => call[x].of \in Responses
    BY <1>3 DEF CallSound
<1>5. Cancelling(x) =>
        /\ call[x].old \in Responses /\ call[x].old # current' /\ (call[x].old < turn' \/ closed')
        /\ state'[call[x].old].worker # "none" /\ state'[call[x].old].cancelled
        /\ \/ call[x].op = "interrupt" /\ call[x].upto < turn'
           \/ x = "feeder" /\ Replacing'
           \/ x = "controller" /\ call[x].op = "close" /\ closed' /\ current' = 0
  <2> SUFFICES ASSUME Cancelling(x)
               PROVE  /\ call[x].old \in Responses /\ call[x].old # current'
                      /\ (call[x].old < turn' \/ closed')
                      /\ state'[call[x].old].worker # "none" /\ state'[call[x].old].cancelled
                      /\ \/ call[x].op = "interrupt" /\ call[x].upto < turn'
                         \/ x = "feeder" /\ Replacing'
                         \/ x = "controller" /\ call[x].op = "close" /\ closed' /\ current' = 0
      OBVIOUS
  <2>1. /\ call[x].old \in Responses /\ call[x].old # current /\ (call[x].old < turn \/ closed)
        /\ state[call[x].old].worker # "none" /\ state[call[x].old].cancelled
        /\ \/ call[x].op = "interrupt" /\ call[x].upto < turn
           \/ x = "feeder" /\ Replacing
           \/ x = "controller" /\ call[x].op = "close" /\ closed /\ current = 0
      BY ONLY Cancelling(x), CallSound(x) DEF CallSound
  <2>2. x = "feeder" /\ Replacing => Replacing'
      BY DEF Replacing, Cancelling, Feeder
  <2>3. /\ call[x].old # current'
        /\ state'[call[x].old].worker # "none" /\ state'[call[x].old].cancelled
      BY <2>1 DEF Lasts
  <2>4. x = "controller" /\ current = 0 /\ call[x].op = "close" => current' = 0
      OBVIOUS
  <2>5. closed => closed'
      OBVIOUS
  <2> QED
      BY ONLY <1>3, <2>1, <2>2, <2>3, <2>4, <2>5
<1>6. Cancelling(x)' <=> Cancelling(x)
    BY DEF Cancelling
<1> QED
    BY ONLY call'[x] = call[x], <1>4, <1>5, <1>6 DEF CallSound

\* A step that moves one response and one call, and may close a segment or the response.
LEMMA ControlRests ==
    ASSUME TypeOK, Control,
           NEW r \in Responses, NEW t \in ResponseState, Becomes(r, t),
           t = state[r] \/ (Lasts(state[r], t) /\ (r = current' => t.worker \notin {"done", "cleaning"})),
           NEW c \in Callers, NEW k \in CallState, Does(c, k),
           k = call[c] \/ (GoesOn(c, k) /\ CallSound(c)'),
           turn' \in Nat, turn <= turn',
           current' \in {current, 0}, open' \in {0, open, current'},
           open' # 0 => state'[open'].segment,
           open' # 0 /\ open' = current => current' = current,
           UNCHANGED <<closed, slipped, silenced>>
    PROVE  Control'
<1>1. /\ current \in 0..MaxResponses /\ open \in 0..MaxResponses
      /\ turn \in Nat /\ silenced \in Nat /\ MaxResponses \in Nat
      /\ state \in [Responses -> ResponseState] /\ call \in [Callers -> CallState]
      /\ "feeder" \in Callers /\ "controller" \in Callers
    BY TypeIs DEF Callers
<1>2. /\ call' \in [Callers -> CallState]
      /\ \A x \in Callers :
            /\ call'[x].old = call[x].old /\ (Cancelling(x)' <=> Cancelling(x))
            /\ Cancelling(x) => /\ call'[x].op = call[x].op /\ call'[x].of = call[x].of
                                /\ call'[x].upto = call[x].upto
            /\ call'[x] = call[x] \/ CallSound(x)'
      /\ Controller'.op = Controller.op
      /\ Controller'.at = "stopped" <=> Controller.at = "stopped"
      /\ (Replacing' <=> Replacing) /\ (Replacing => Feeder'.of = Feeder.of)
    BY CallsRest
<1>3. /\ state'[r] = t
      /\ \A x \in Responses \ {r} : state'[x] = state[x]
    BY <1>1 DEF Becomes
<1>4. \A x \in Responses : state'[x] = state[x] \/ Lasts(state[x], state'[x])
    BY <1>3
<1>5. \A x \in Callers : CallSound(x)'
  <2> SUFFICES ASSUME NEW x \in Callers, call'[x] = call[x]
               PROVE  CallSound(x)'
      BY <1>2
  <2>1. CallSound(x)
      BY DEF Control
  <2>2. closed => closed'
      OBVIOUS
  <2>3. Cancelling(x) =>
           LET o == call[x].old IN
           /\ o # current' /\ (state'[o] = state[o] \/ Lasts(state[o], state'[o]))
           /\ x = "controller" /\ current = 0 /\ call[x].op = "close" => current' = 0
    <3> SUFFICES ASSUME Cancelling(x)
                 PROVE  LET o == call[x].old IN
                        /\ o # current' /\ (state'[o] = state[o] \/ Lasts(state[o], state'[o]))
                        /\ x = "controller" /\ current = 0 /\ call[x].op = "close" => current' = 0
        OBVIOUS
    <3>1. call[x].old \in Responses /\ call[x].old # current
        BY ONLY Cancelling(x), <2>1 DEF CallSound
    <3> QED
        BY <1>1, <1>4, <3>1 DEF Responses
  <2>4. call[x].at = "putting" => state'[call[x].of].worker # "none"
    <3> SUFFICES ASSUME call[x].at = "putting"
                 PROVE  state'[call[x].of].worker # "none"
        OBVIOUS
    <3>1. call[x].of \in Responses /\ state[call[x].of].worker # "none"
        BY <2>1 DEF CallSound
    <3> QED
        BY <1>4, <3>1 DEF Lasts
  <2> QED
      BY <2>1, <2>2, <2>3, <2>4, CallStays
<1>6. CallsAgree'
  <2>1. CallsAgree
      BY DEF Control
  <2>2. Feeder.of \in 0..MaxResponses
      BY <1>1 DEF CallState, Feeder
  <2>3. Feeder'.old = Feeder.old /\ (Feeder.of <= turn => Feeder.of <= turn')
      BY <1>1, <1>2, <2>2 DEF Feeder
  <2>4. Replacing' => Feeder'.of \in Responses /\ Feeder'.of <= turn' /\ Feeder'.old < Feeder'.of
      BY <1>2, <2>1, <2>3 DEF CallsAgree
  <2>5. Cancelling("controller")' <=> Cancelling("controller")
      BY <1>1, <1>2
  <2> QED
      BY <1>2, <2>1, <2>3, <2>4, <2>5 DEF CallsAgree
<1>7. TurnsInOrder'
  <2>1. TurnsInOrder
      BY DEF Control
  <2>2. current' <= turn'
      BY <1>1, <2>1 DEF TurnsInOrder
  <2>3. current' # 0 => state'[current'].worker \notin {"none", "done", "cleaning"}
      BY <1>1, <1>3, <2>1 DEF TurnsInOrder, Lasts, Responses
  <2>4. ASSUME NEW x \in Responses,
               x > turn' \/ (current' # 0 /\ x > current') \/ (Replacing' /\ x >= Feeder'.of)
        PROVE  state'[x] = Unbegun
    <3>1. x > turn' => x > turn
        BY <1>1 DEF Responses
    <3>2. state[x] = Unbegun
        BY <1>2, <2>1, <2>4, <3>1 DEF TurnsInOrder
    <3> QED
        BY <1>4, <3>2 DEF Lasts, Unbegun
  <2> QED
      BY <2>2, <2>3, <2>4 DEF TurnsInOrder
<1>8. Silences' /\ SpeechIsHeard' /\ EndsInSilence'
  <2>1. Silences /\ SpeechIsHeard /\ EndsInSilence
      BY DEF Control
  <2>2. silenced < turn' /\ slipped' = slipped /\ silenced' = silenced
      BY <1>1, <2>1 DEF Silences
  <2>3. Later(current, silenced)' /\ (Replacing' => Later(Feeder.of, silenced)')
      BY <1>2, <2>1, <2>2 DEF Silences, Later, Feeder
  <2>4. ASSUME NEW x \in Callers, Cancelling(x)', call'[x].op = "interrupt"
        PROVE  Later(current, call[x].upto)' /\ (Replacing' => Later(Feeder.of, call[x].upto)')
      BY <1>2, <2>1, <2>2, <2>4 DEF Silences, Later, Feeder
  <2>5. Silences'
      BY <2>2, <2>3, <2>4 DEF Silences
  <2>6. SpeechIsHeard'
      BY <1>1, <1>2, <2>1 DEF SpeechIsHeard, Controller
  <2>7. InterruptSilences'
    <3>1. open' > silenced \/ open' \in slipped \cup {0}
        BY <1>1, <2>1, <2>2 DEF Silences, Later, EndsInSilence, InterruptSilences
    <3>2. Controller'.at = "stopped" => current' \in slipped \cup {0}
        BY <1>2, <2>1 DEF EndsInSilence, InterruptSilences
    <3> QED
        BY <2>2, <3>1, <3>2 DEF InterruptSilences
  <2>8. NoSegmentLeftOpen'
    <3> SUFFICES ASSUME open' # 0, open' # current'
                 PROVE  \E x \in Callers : call'[x].old = open'
        BY DEF NoSegmentLeftOpen
    <3>1. open' = open /\ open # current
        OBVIOUS
    <3> QED
        BY <1>2, <2>1, <3>1 DEF EndsInSilence, NoSegmentLeftOpen
  <2> QED
      BY <2>5, <2>6, <2>7, <2>8 DEF EndsInSilence
<1> QED
    BY <1>5, <1>6, <1>7, <1>8 DEF Control

LEMMA InvIs ==
    ASSUME BridgeInv
    PROVE  TypeOK /\ (\A r \in Responses : ResponseSound(r)) /\ Control
    BY DEF BridgeInv

LEMMA WideStep ==
    ASSUME BridgeInv,
           NEW r \in Responses, NEW t \in ResponseState, Becomes(r, t), StateSound(t),
           t = state[r] \/ (Lasts(state[r], t) /\ (r = current' => t.worker \notin {"done", "cleaning"})),
           NEW c \in Callers, NEW k \in CallState, Does(c, k),
           k = call[c] \/ (GoesOn(c, k) /\ CallSound(c)'),
           NEW f, f = IF c = "feeder" THEN k ELSE Feeder,
           \/ f = Feeder
           \/ (Feeder.at = "putting" => Feeder.of = r) /\ (f.at = "putting" => f.of = r),
           ~(f.at = "putting" /\ f.of = r /\ t.flush \in {"putting", "cut"}),
           Ordered(t, ComingTo(f, r, t)),
           turn' \in 1..(MaxResponses + 1), turn <= turn',
           current' \in {current, 0}, open' \in {0, open, current'},
           open' # 0 => state'[open'].segment,
           open' # 0 /\ open' = current => current' = current,
           UNCHANGED <<incremental, closed, slipped, silenced>>
    PROVE  BridgeInv'
<1>1. TypeOK /\ (\A x \in Responses : ResponseSound(x)) /\ Control
    BY InvIs
<1>2. /\ current \in 0..MaxResponses /\ open \in 0..MaxResponses
      /\ silenced \in 0..MaxResponses /\ slipped \subseteq Responses
      /\ incremental \in BOOLEAN /\ closed \in BOOLEAN /\ MaxResponses \in Nat
      /\ call \in [Callers -> CallState] /\ Feeder \in CallState
      /\ "feeder" \in Callers /\ "controller" \in Callers
    BY <1>1, TypeIs DEF Callers
<1>3. call' \in [Callers -> CallState] /\ call'["feeder"] = f /\ f \in CallState
    BY <1>2 DEF Does, Feeder
<1>4. /\ state' \in [Responses -> ResponseState]
      /\ \A x \in Responses : ResponseSound(x)'
      /\ \A x \in Responses : Len(state'[x].queue) <= Capacity
    BY <1>1, <1>3, OneChanges
<1>5. turn' \in Nat
    BY <1>2
<1>6. UNCHANGED <<closed, slipped, silenced>>
    OBVIOUS
<1>7. Control'
    BY <1>1, <1>5, <1>6, ControlRests
<1>8. 0 \in 0..MaxResponses
    BY <1>2
<1>9. TypeOK'
    BY <1>2, <1>3, <1>4, <1>8, TypeKept
<1> QED
    BY <1>4, <1>7, <1>9 DEF BridgeInv

LEMMA OneStep ==
    ASSUME BridgeInv,
           NEW r \in Responses, NEW t \in ResponseState, Becomes(r, t), StateSound(t),
           t = state[r] \/ (Keeps(state[r], t) /\ (r = current => t.worker \notin {"done", "cleaning"})),
           NEW c \in Callers, NEW k \in CallState, Does(c, k),
           k = call[c] \/ (GoesOn(c, k) /\ CallSound(c)'),
           NEW f, f = IF c = "feeder" THEN k ELSE Feeder,
           \/ f = Feeder
           \/ (Feeder.at = "putting" => Feeder.of = r) /\ (f.at = "putting" => f.of = r),
           ~(f.at = "putting" /\ f.of = r /\ t.flush \in {"putting", "cut"}),
           Ordered(t, ComingTo(f, r, t)),
           turn' \in 1..(MaxResponses + 1), turn <= turn',
           UNCHANGED <<incremental, current, closed, slipped, open, silenced>>
    PROVE  BridgeInv'
<1>1. t = state[r] \/ (Lasts(state[r], t) /\ (r = current' => t.worker \notin {"done", "cleaning"}))
    BY DEF Keeps
<1>2. /\ open # 0 => state[open].segment
      /\ open \in 0..MaxResponses /\ state \in [Responses -> ResponseState] /\ MaxResponses \in Nat
    BY InvIs, TypeIs DEF Control, Silences
<1>3. open' # 0 => state'[open'].segment
    BY <1>2 DEF Becomes, Keeps, Responses
<1>4. /\ current' \in {current, 0} /\ open' \in {0, open, current'}
      /\ open' # 0 /\ open' = current => current' = current
      /\ UNCHANGED <<incremental, closed, slipped, silenced>>
    OBVIOUS
<1> QED
    BY <1>1, <1>3, <1>4, WideStep

\* A step of a task of the response that changes nothing but its state.
LEMMA StateStep ==
    ASSUME BridgeInv,
           NEW r \in Responses, NEW t \in ResponseState, Becomes(r, t), StateSound(t),
           t = state[r] \/ (Keeps(state[r], t) /\ (r = current => t.worker \notin {"done", "cleaning"})),
           ~(FeederPuts(r) /\ t.flush \in {"putting", "cut"}),
           Ordered(t, ComingTo(Feeder, r, t)),
           UNCHANGED <<incremental, current, call, clientVars, open, silenced>>
    PROVE  BridgeInv'
<1>1. TypeOK
    BY InvIs
<1>2. /\ turn \in 1..(MaxResponses + 1) /\ turn <= turn /\ call \in [Callers -> CallState]
      /\ "feeder" \in Callers /\ Feeder \in CallState /\ Feeder = call["feeder"]
    BY <1>1, TypeIs DEF Callers, Feeder
<1>3. Does("feeder", Feeder)
    BY <1>2 DEF Does
<1>4. turn' = turn /\ UNCHANGED <<incremental, current, closed, slipped, open, silenced>>
    BY DEF clientVars
<1> DEFINE f == Feeder
<1>5. f = IF "feeder" = "feeder" THEN Feeder ELSE Feeder
    OBVIOUS
<1>6. ~(f.at = "putting" /\ f.of = r /\ t.flush \in {"putting", "cut"})
    BY DEF FeederPuts
<1>7. Ordered(t, ComingTo(f, r, t))
    OBVIOUS
<1>8. turn' \in 1..(MaxResponses + 1) /\ turn <= turn'
    BY <1>2, <1>4
<1> QED
    BY <1>2, <1>3, <1>4, <1>6, <1>7, <1>8, OneStep

\* What is known of a response.
LEMMA ResponseIs ==
    ASSUME BridgeInv, NEW r \in Responses
    PROVE  /\ state[r] \in ResponseState /\ StateSound(state[r])
           /\ Coming(r) \in Queued /\ Ordered(state[r], Coming(r)) /\ ComesFrom(state[r], Coming(r))
           /\ LockFree(r) => Coming(r) = <<>> /\ ~FeederPuts(r)
           /\ FeederPuts(r) => Coming(r) = Feeder.rest /\ state[r].flush \notin {"putting", "cut"}
           /\ ~FeederPuts(r) /\ state[r].flush # "putting" => Coming(r) = <<>>
           /\ state[r].flush # "none" \/ state[r].queue # <<>> => state[r].worker # "none"
           /\ r = current => state[r].worker \notin {"none", "done", "cleaning"}
<1>1. /\ state[r] \in ResponseState /\ Feeder \in CallState /\ state[r].cut \in 0..MaxPieces
      /\ MaxResponses \in Nat
    BY InvIs, TypeIs DEF ResponseState
<1>2. StateSound(state[r]) /\ OnePuts(r) /\ Ordered(state[r], Coming(r))
    BY InvIs DEF ResponseSound
<1>3. <<state[r].cut>> \in Queued /\ <<>> \in Queued /\ Feeder.rest \in Queued
    BY <1>1, OnePiece, EmptyIs DEF CallState
<1>4. Coming(r) \in Queued
    BY <1>3 DEF Coming, ComingTo
<1>5. ComesFrom(state[r], Coming(r))
    BY <1>2 DEF ComesFrom, Coming, ComingTo, OnePuts, FeederPuts
<1>6. LockFree(r) => Coming(r) = <<>> /\ ~FeederPuts(r)
    BY DEF LockFree, Coming, ComingTo, FeederPuts
<1>7. /\ FeederPuts(r) => Coming(r) = Feeder.rest /\ state[r].flush \notin {"putting", "cut"}
      /\ ~FeederPuts(r) /\ state[r].flush # "putting" => Coming(r) = <<>>
    BY <1>2 DEF Coming, ComingTo, FeederPuts, OnePuts
<1>8. state[r].flush # "none" \/ state[r].queue # <<>> => state[r].worker # "none"
    BY <1>2 DEF StateSound, Unbegun
<1>9. r = current => state[r].worker \notin {"none", "done", "cleaning"}
    BY <1>1, InvIs DEF Control, TurnsInOrder, Responses
<1> QED
    BY <1>1, <1>2, <1>4, <1>5, <1>6, <1>7, <1>8, <1>9

\* What comes is the same if the flush is, and is what is left if the flush was cut.
LEMMA ComesStill ==
    ASSUME NEW r \in Responses, NEW t
    PROVE  /\ t.flush = state[r].flush /\ t.cut = state[r].cut => ComingTo(Feeder, r, t) = Coming(r)
           /\ t.flush # "putting" /\ ~(FeederPuts(r) /\ state[r].flush = "putting") =>
                 ComingTo(Feeder, r, t) = Left(state[r], Coming(r))
           /\ t.flush # "putting" /\ ~FeederPuts(r) => ComingTo(Feeder, r, t) = <<>>
    BY DEF ComingTo, Coming, Left, FeederPuts

-----------------------------------------------------------------------------
(***************************************************************************)
(* The flush and the worker.                                               *)
(***************************************************************************)

LEMMA FlushWakesKeeps ==
    ASSUME BridgeInv, NEW r \in Responses, FlushWakes(r)
    PROVE  BridgeInv'
<1> DEFINE s == state[r]
<1>1. s.flush = "asleep" /\ LockFree(r)
    BY DEF FlushWakes
<1>2. /\ s \in ResponseState /\ StateSound(s) /\ Ordered(s, <<>>) /\ Coming(r) = <<>>
      /\ s.worker # "none" /\ ~FeederPuts(r) /\ (r = current => s.worker \notin {"none", "done", "cleaning"})
    BY <1>1, ResponseIs
<1>3. UNCHANGED <<incremental, current, call, clientVars, open, silenced>>
    BY DEF FlushWakes
<1>4. CASE current # r \/ s.cancelled \/ s.finishing \/ ~s.pending
  <2> DEFINE t == [s EXCEPT !.flush = "none"]
  <2>1. Becomes(r, t)
      BY <1>4 DEF FlushWakes
  <2>2. /\ t \in ResponseState /\ t.worker = s.worker /\ t.flush = "none" /\ t.queue = s.queue
        /\ t.cut = s.cut /\ t.pending = s.pending /\ t.finishing = s.finishing
        /\ t.cancelled = s.cancelled /\ t.segment = s.segment /\ t.spoken = s.spoken /\ t.said = s.said
      BY <1>2 DEF ResponseState
  <2> HIDE DEF t
  <2>3. StateSound(t) /\ Keeps(s, t)
      BY <1>2, <2>2 DEF StateSound, Keeps, Lasts
  <2>4. Ordered(t, <<>>)
      BY <1>2, <2>2, SameOrder, EmptyIs
  <2>5. ComingTo(Feeder, r, t) = <<>>
      BY <1>2, <2>2, ComesStill
  <2> QED
      BY <1>2, <1>3, <2>1, <2>2, <2>3, <2>4, <2>5, StateStep
<1>5. CASE ~(current # r \/ s.cancelled \/ s.finishing \/ ~s.pending)
  <2> DEFINE t == [s EXCEPT !.flush = "putting", !.pending = FALSE, !.cut = @ + 1]
             w == Numbers(s, 1)
  <2>1. Becomes(r, t)
      BY <1>5 DEF FlushWakes
  <2>2. s.cut \in 0..MaxPieces /\ s.cut < MaxPieces /\ MaxPieces \in Nat
      BY <1>2, <1>5, BridgeAssumption DEF ResponseState, StateSound
  <2>3. s.cut + 1 \in 0..MaxPieces /\ s.cut + 1 <= MaxPieces
      BY <2>2
  <2>4. /\ t \in ResponseState /\ t.worker = s.worker /\ t.flush = "putting" /\ t.queue = s.queue
        /\ t.cut = s.cut + 1 /\ t.pending = FALSE /\ t.finishing = s.finishing
        /\ t.cancelled = s.cancelled /\ t.segment = s.segment /\ t.spoken = s.spoken /\ t.said = s.said
      BY <1>2, <2>3 DEF ResponseState
  <2> HIDE DEF t
  <2>5. StateSound(t) /\ Keeps(s, t)
      BY <1>2, <1>5, <2>4 DEF StateSound, Keeps, Lasts
  <2>6. w = <<s.cut + 1>>
      BY DEF Numbers
  <2>7. Ordered(t, w)
      BY <1>2, <1>5, <2>3, <2>4, NewInOrder
  <2> HIDE DEF w
  <2>8. ComingTo(Feeder, r, t) = <<s.cut + 1>>
      BY <1>2, <2>4 DEF ComingTo, FeederPuts
  <2> QED
      BY <1>2, <1>3, <2>1, <2>4, <2>5, <2>6, <2>7, <2>8, StateStep
<1> QED
    BY <1>4, <1>5

LEMMA FlushPutsKeeps ==
    ASSUME BridgeInv, NEW r \in Responses, FlushPuts(r)
    PROVE  BridgeInv'
<1> DEFINE s == state[r]
           b == Append(s.queue, s.cut)
           t == [s EXCEPT !.flush = "none", !.queue = b]
<1>1. s.flush = "putting" /\ Len(s.queue) < Capacity /\ Becomes(r, t)
    BY DEF FlushPuts
<1>2. /\ s \in ResponseState /\ StateSound(s) /\ Ordered(s, Coming(r)) /\ Coming(r) = <<s.cut>>
      /\ s.worker # "none" /\ ~FeederPuts(r) /\ (r = current => s.worker \notin {"none", "done", "cleaning"})
    BY <1>1, ResponseIs DEF ComesFrom
<1>3. UNCHANGED <<incremental, current, call, clientVars, open, silenced>>
    BY DEF FlushPuts
<1>4. s.queue \in Queued /\ s.cut \in 0..MaxPieces
    BY <1>2 DEF ResponseState
<1>5. b \in Queued /\ Len(s.queue) \in Nat /\ Len(b) = Len(s.queue) + 1
    BY <1>4, AppendIs
<1> HIDE DEF b
<1>6. Len(b) <= Capacity
    BY <1>1, <1>5, BridgeAssumption
<1>7. /\ t \in ResponseState /\ t.worker = s.worker /\ t.flush = "none" /\ t.queue = b
      /\ t.cut = s.cut /\ t.pending = s.pending /\ t.finishing = s.finishing
      /\ t.cancelled = s.cancelled /\ t.segment = s.segment /\ t.spoken = s.spoken /\ t.said = s.said
    BY <1>2, <1>5 DEF ResponseState
<1> HIDE DEF t
<1>8. StateSound(t) /\ Keeps(s, t)
    BY <1>2, <1>6, <1>7 DEF StateSound, Keeps, Lasts
<1>9. Ordered(t, <<>>)
  <2> DEFINE q == Coming(r)
  <2>1. q \in Queued /\ q # <<>> /\ Head(q) = s.cut
      BY <1>2, <1>4, OnePiece
  <2> HIDE DEF q
  <2>2. Ordered(s, q)
      BY <1>2 DEF q
  <2> QED
      BY <1>2, <1>7, <2>1, <2>2, PutInOrder DEF b
<1>10. ComingTo(Feeder, r, t) = <<>>
    BY <1>2, <1>7, ComesStill
<1> QED
    BY <1>1, <1>2, <1>3, <1>7, <1>8, <1>9, <1>10, StateStep

LEMMA FlushEndsKeeps ==
    ASSUME BridgeInv, NEW r \in Responses, FlushEnds(r)
    PROVE  BridgeInv'
<1> DEFINE s == state[r]
           t == [s EXCEPT !.flush = "none"]
<1>1. /\ s.flush = "cut" /\ Becomes(r, t)
      /\ UNCHANGED <<incremental, current, call, clientVars, open, silenced>>
    BY DEF FlushEnds
<1>2. /\ s \in ResponseState /\ StateSound(s) /\ Ordered(s, <<>>)
      /\ s.worker # "none" /\ ~FeederPuts(r) /\ (r = current => s.worker \notin {"none", "done", "cleaning"})
    BY <1>1, ResponseIs
<1>3. /\ t \in ResponseState /\ t.worker = s.worker /\ t.flush = "none" /\ t.queue = s.queue
      /\ t.cut = s.cut /\ t.pending = s.pending /\ t.finishing = s.finishing
      /\ t.cancelled = s.cancelled /\ t.segment = s.segment /\ t.spoken = s.spoken /\ t.said = s.said
    BY <1>2 DEF ResponseState
<1> HIDE DEF t
<1>4. StateSound(t) /\ Keeps(s, t)
    BY <1>2, <1>3 DEF StateSound, Keeps, Lasts
<1>5. Ordered(t, <<>>)
    BY <1>2, <1>3, SameOrder, EmptyIs
<1>6. ComingTo(Feeder, r, t) = <<>>
    BY <1>2, <1>3, ComesStill
<1> QED
    BY <1>1, <1>2, <1>3, <1>4, <1>5, <1>6, StateStep

\* The worker comes to its last lines, from u.
LEMMA EndingKeeps ==
    ASSUME BridgeInv, NEW r \in Responses, state[r].worker # "none",
           NEW u \in ResponseState, StateSound(u), Ordered(u, Coming(r)),
           u.worker # "none", u.flush = state[r].flush, u.cut = state[r].cut,
           u.segment = state[r].segment,
           Becomes(r, Ending(u)),
           UNCHANGED <<incremental, current, call, clientVars, open, silenced>>
    PROVE  BridgeInv'
<1> DEFINE s == state[r]
           q == Coming(r)
           t == Ending(u)
<1>1. /\ q \in Queued /\ ComesFrom(s, q) /\ (FeederPuts(r) => s.flush \notin {"putting", "cut"})
    BY ResponseIs
<1>2. ComesFrom(u, q) /\ Left(u, q) = Left(s, q)
    BY <1>1 DEF ComesFrom, Left
<1> HIDE DEF q
<1>3. /\ t \in ResponseState /\ StateSound(t) /\ Ordered(t, Left(u, q))
      /\ t.worker \in {"flushing", "ending"} /\ t.cancelled /\ t.segment = u.segment
      /\ t.flush \in {"none", "cut"}
      /\ t.flush = "cut" <=> u.flush \in {"putting", "cut"}
    BY <1>2, <1>1, EndingIs DEF q
<1> HIDE DEF t
<1>4. ComingTo(Feeder, r, t) = Left(s, q)
    BY <1>1, <1>3, ComesStill DEF q
<1>5. Keeps(s, t)
    BY <1>3 DEF Keeps, Lasts
<1>6. ~(FeederPuts(r) /\ t.flush \in {"putting", "cut"})
    BY <1>1, <1>3
<1>7. Becomes(r, t)
    BY DEF t
<1> QED
    BY <1>2, <1>3, <1>4, <1>5, <1>6, <1>7, StateStep

LEMMA AudioEndsKeeps ==
    ASSUME BridgeInv, NEW r \in Responses, AudioEnds(r)
    PROVE  BridgeInv'
<1> DEFINE s == state[r]
<1>1. /\ s.worker \in {"speaking", "draining"}
      /\ UNCHANGED <<incremental, current, call, clientVars, open, silenced>>
    BY DEF AudioEnds
<1>2. /\ s \in ResponseState /\ StateSound(s) /\ Coming(r) \in Queued /\ Ordered(s, Coming(r))
      /\ (FeederPuts(r) => s.flush \notin {"putting", "cut"})
    BY ResponseIs
<1>3. CASE s.worker = "speaking"
  <2> DEFINE t == [s EXCEPT !.worker = "waiting"]
  <2>1. Becomes(r, t)
      BY <1>3 DEF AudioEnds
  <2>2. /\ t \in ResponseState /\ t.worker = "waiting" /\ t.flush = s.flush /\ t.queue = s.queue
        /\ t.cut = s.cut /\ t.pending = s.pending /\ t.finishing = s.finishing
        /\ t.cancelled = s.cancelled /\ t.segment = s.segment /\ t.spoken = s.spoken /\ t.said = s.said
      BY <1>2 DEF ResponseState
  <2> HIDE DEF t
  <2>3. StateSound(t) /\ Keeps(s, t)
      BY <1>1, <1>2, <2>2 DEF StateSound, Keeps, Lasts
  <2>4. Ordered(t, Coming(r))
      BY <1>2, <2>2, SameOrder
  <2>5. ComingTo(Feeder, r, t) = Coming(r)
      BY <2>2, ComesStill
  <2> QED
      BY <1>1, <1>2, <2>1, <2>2, <2>3, <2>4, <2>5, StateStep
<1>4. CASE s.worker # "speaking"
  <2>1. Becomes(r, Ending(s))
      BY <1>4 DEF AudioEnds
  <2> QED
      BY <1>1, <1>2, <2>1, EndingKeeps
<1> QED
    BY <1>3, <1>4

LEMMA WorkerFailsKeeps ==
    ASSUME BridgeInv, NEW r \in Responses, WorkerFails(r)
    PROVE  BridgeInv'
<1> DEFINE s == state[r]
           u == [s EXCEPT !.fails = TRUE]
<1>1. /\ s.worker \in {"speaking", "draining", "waiting"}
      /\ Becomes(r, Ending(u))
      /\ UNCHANGED <<incremental, current, call, clientVars, open, silenced>>
    BY DEF WorkerFails
<1>2. /\ s \in ResponseState /\ StateSound(s) /\ Coming(r) \in Queued /\ Ordered(s, Coming(r))
    BY ResponseIs
<1>3. /\ u \in ResponseState /\ u.worker = s.worker /\ u.flush = s.flush /\ u.queue = s.queue
      /\ u.cut = s.cut /\ u.pending = s.pending /\ u.finishing = s.finishing
      /\ u.cancelled = s.cancelled /\ u.segment = s.segment /\ u.spoken = s.spoken /\ u.said = s.said
    BY <1>2 DEF ResponseState
<1> HIDE DEF u
<1>4. StateSound(u)
    BY <1>1, <1>2, <1>3 DEF StateSound
<1>5. Ordered(u, Coming(r))
    BY <1>2, <1>3, SameOrder
<1> QED
    BY <1>1, <1>3, <1>4, <1>5, EndingKeeps

LEMMA WorkerCleanedKeeps ==
    ASSUME BridgeInv, NEW r \in Responses, WorkerCleaned(r)
    PROVE  BridgeInv'
<1> DEFINE s == state[r]
           t == [s EXCEPT !.worker = "ending"]
<1>1. /\ s.worker = "cleaning" /\ Becomes(r, t)
      /\ UNCHANGED <<incremental, current, call, clientVars, open, silenced>>
    BY DEF WorkerCleaned
<1>2. /\ s \in ResponseState /\ StateSound(s) /\ Coming(r) \in Queued /\ Ordered(s, Coming(r))
      /\ (FeederPuts(r) => s.flush \notin {"putting", "cut"})
    BY ResponseIs
<1>3. /\ t \in ResponseState /\ t.worker = "ending" /\ t.flush = s.flush /\ t.queue = s.queue
      /\ t.cut = s.cut /\ t.pending = s.pending /\ t.finishing = s.finishing
      /\ t.cancelled = s.cancelled /\ t.segment = s.segment /\ t.spoken = s.spoken /\ t.said = s.said
    BY <1>2 DEF ResponseState
<1> HIDE DEF t
<1>4. StateSound(t) /\ Keeps(s, t)
    BY <1>1, <1>2, <1>3 DEF StateSound, Keeps, Lasts
<1>5. Ordered(t, Coming(r))
    BY <1>2, <1>3, SameOrder
<1>6. ComingTo(Feeder, r, t) = Coming(r)
    BY <1>3, ComesStill
<1> QED
    BY <1>1, <1>2, <1>3, <1>4, <1>5, <1>6, StateStep

LEMMA WorkerTakesKeeps ==
    ASSUME BridgeInv, NEW r \in Responses, WorkerTakes(r)
    PROVE  BridgeInv'
<1> DEFINE s == state[r]
           h == Head(s.queue)
           rest == [s EXCEPT !.queue = Tail(@)]
<1>1. /\ s.worker = "waiting" /\ s.queue # <<>>
      /\ UNCHANGED <<incremental, current, call, clientVars, open, silenced>>
    BY DEF WorkerTakes
<1>2. /\ s \in ResponseState /\ StateSound(s) /\ Coming(r) \in Queued /\ Ordered(s, Coming(r))
      /\ (FeederPuts(r) => s.flush \notin {"putting", "cut"})
    BY ResponseIs
<1>3. s.queue \in Queued /\ s.spoken \in Seq(1..MaxPieces) /\ s.spoken \in Queued
    BY <1>2, PiecesOf
<1>4. /\ Tail(s.queue) \in Queued /\ Len(s.queue) \in Nat \ {0} /\ Len(Tail(s.queue)) = Len(s.queue) - 1
      /\ h \in 0..MaxPieces
    BY <1>1, <1>3, TailIs
<1>5. Len(Tail(s.queue)) <= Capacity
    BY <1>2, <1>4, BridgeAssumption DEF StateSound
<1>6. CASE h = End
  <2> DEFINE u == [rest EXCEPT !.said = TRUE]
             v == [rest EXCEPT !.worker = "draining", !.said = TRUE]
  <2>1. /\ u \in ResponseState /\ u.worker = s.worker /\ u.flush = s.flush /\ u.queue = Tail(s.queue)
        /\ u.cut = s.cut /\ u.pending = s.pending /\ u.finishing = s.finishing
        /\ u.cancelled = s.cancelled /\ u.segment = s.segment /\ u.spoken = s.spoken
      BY <1>2, <1>4 DEF ResponseState, Queued
  <2>2. /\ v \in ResponseState /\ v.worker = "draining" /\ v.flush = s.flush /\ v.queue = Tail(s.queue)
        /\ v.cut = s.cut /\ v.pending = s.pending /\ v.finishing = s.finishing
        /\ v.cancelled = s.cancelled /\ v.segment = s.segment /\ v.spoken = s.spoken
      BY <1>2, <1>4 DEF ResponseState, Queued
  <2>3. Becomes(r, IF incremental THEN v ELSE Ending(u))
      BY <1>6 DEF WorkerTakes
  <2> HIDE DEF u, v
  <2>4. StateSound(u) /\ StateSound(v) /\ Keeps(s, v)
      BY <1>1, <1>2, <1>5, <2>1, <2>2 DEF StateSound, Keeps, Lasts
  <2>5. Ordered(u, Coming(r)) /\ Ordered(v, Coming(r))
      BY <1>1, <1>2, <1>6, <2>1, <2>2, EndTaken
  <2>6. CASE incremental
    <3>1. Becomes(r, v)
        BY <2>3, <2>6
    <3>2. ComingTo(Feeder, r, v) = Coming(r)
        BY <2>2, ComesStill
    <3> QED
        BY <1>1, <1>2, <2>2, <2>4, <2>5, <3>1, <3>2, StateStep
  <2>7. CASE ~incremental
    <3>1. Becomes(r, Ending(u))
        BY <2>3, <2>7
    <3> QED
        BY <1>1, <2>1, <2>4, <2>5, <3>1, EndingKeeps
  <2> QED
      BY <2>6, <2>7
<1>7. CASE h # End
  <2> DEFINE a == Append(s.spoken, h)
             w == IF incremental THEN "waiting" ELSE "speaking"
             t == [rest EXCEPT !.spoken = a, !.worker = w]
  <2>1. Becomes(r, t)
    <3>1. t = [rest EXCEPT !.spoken = Append(@, h), !.worker = w]
        BY <1>2 DEF ResponseState
    <3> QED
        BY <1>7, <3>1 DEF WorkerTakes
  <2>2. h \in 1..MaxPieces
      BY <1>4, <1>7, BridgeAssumption DEF End
  <2>3. a \in Seq(1..MaxPieces)
      BY <1>3, <2>2, AppendProperties
  <2>4. w \in {"waiting", "speaking"}
      OBVIOUS
  <2> HIDE DEF w
  <2>5. /\ t \in ResponseState /\ t.worker = w /\ t.flush = s.flush /\ t.queue = Tail(s.queue)
        /\ t.cut = s.cut /\ t.pending = s.pending /\ t.finishing = s.finishing
        /\ t.cancelled = s.cancelled /\ t.segment = s.segment /\ t.spoken = a /\ t.said = s.said
      BY <1>2, <1>4, <2>3, <2>4 DEF ResponseState, Queued
  <2> HIDE DEF t
  <2>6. StateSound(t) /\ Keeps(s, t)
      BY <1>1, <1>2, <1>5, <2>4, <2>5 DEF StateSound, Keeps, Lasts
  <2>7. Ordered(t, Coming(r))
      BY <1>1, <1>2, <1>7, <2>5, TakenInOrder
  <2>8. ComingTo(Feeder, r, t) = Coming(r)
      BY <2>5, ComesStill
  <2>9. t.worker \notin {"done", "cleaning"}
      BY <2>4, <2>5
  <2> QED
      BY <1>1, <1>2, <2>1, <2>5, <2>6, <2>7, <2>8, <2>9, StateStep
<1> QED
    BY <1>6, <1>7

-----------------------------------------------------------------------------
(***************************************************************************)
(* The feeder and its text.                                                *)
(***************************************************************************)

LEMMA IdleIs ==
    /\ Idle \in CallState /\ [Idle EXCEPT !.at = "raised"] \in CallState
    /\ [Idle EXCEPT !.at = "stopped"] \in CallState
    /\ Idle.at = "idle" /\ Idle.old = 0
    BY EmptyIs, BridgeAssumption DEF Idle, CallState, Places

LEMMA FeederCalls ==
    ASSUME NEW k \in CallState, call'["feeder"] = k,
           \/ k \in {Idle, [Idle EXCEPT !.at = "raised"]}
           \/ /\ k.at \in {"locking", "putting"} /\ k.op \in {"feed", "finish"}
              /\ k.of \in Responses /\ k.of \in 1..turn' /\ k.old = 0
              /\ k.at = "putting" => state'[k.of].worker # "none"
    PROVE  CallSound("feeder")'
<1>1. CASE k = Idle
    BY <1>1 DEF CallSound, Cancelling, Idle
<1>2. CASE k = [Idle EXCEPT !.at = "raised"]
    BY <1>2 DEF CallSound, Cancelling, Idle
<1>3. CASE /\ k.at \in {"locking", "putting"} /\ k.op \in {"feed", "finish"}
           /\ k.of \in Responses /\ k.of \in 1..turn' /\ k.old = 0
           /\ k.at = "putting" => state'[k.of].worker # "none"
    BY <1>3 DEF CallSound, Cancelling
<1> QED
    BY <1>1, <1>2, <1>3

LEMMA FeederStep ==
    ASSUME BridgeInv,
           NEW r \in Responses, NEW t \in ResponseState, Becomes(r, t), StateSound(t),
           t = state[r] \/ (Keeps(state[r], t) /\ (r = current => t.worker \notin {"done", "cleaning"})),
           NEW k \in CallState, Does("feeder", k), GoesOn("feeder", k), CallSound("feeder")',
           Feeder.at = "putting" => Feeder.of = r, k.at = "putting" => k.of = r,
           ~(k.at = "putting" /\ t.flush \in {"putting", "cut"}),
           Ordered(t, ComingTo(k, r, t)),
           turn' \in 1..(MaxResponses + 1), turn <= turn',
           UNCHANGED <<incremental, current, closed, slipped, open, silenced>>
    PROVE  BridgeInv'
<1>1. "feeder" \in Callers
    BY DEF Callers
<1>2. ~(k.at = "putting" /\ k.of = r /\ t.flush \in {"putting", "cut"})
    OBVIOUS
<1> QED
    BY <1>1, <1>2, OneStep

LEMMA BegunIs ==
    /\ Unbegun \in ResponseState /\ Begun \in ResponseState /\ StateSound(Begun) /\ StateSound(Unbegun)
    /\ Ordered(Begun, <<>>) /\ Ordered(Unbegun, <<>>)
    /\ ~Begun.cancelled /\ ~Begun.finishing /\ Begun.worker = "waiting" /\ Begun.flush = "none"
    /\ ~Begun.segment /\ Unbegun.worker = "none" /\ ~Unbegun.segment /\ ~Unbegun.cancelled
    /\ Unbegun.flush = "none"
<1>1. MaxPieces \in Nat /\ Capacity \in Nat \ {0} /\ 0 \in 0..MaxPieces
    BY BridgeAssumption
<1>2. <<>> \in Queued /\ <<>> \in Seq(1..MaxPieces) /\ Len(<<>>) = 0
    BY DEF Queued
<1>3. Unbegun \in ResponseState
    BY <1>1, <1>2 DEF Unbegun, ResponseState
<1>4. Begun \in ResponseState
    BY <1>3 DEF Begun, ResponseState
<1>5. /\ ~Begun.cancelled /\ ~Begun.finishing /\ Begun.worker = "waiting" /\ Begun.flush = "none"
      /\ ~Begun.segment /\ Begun.queue = <<>> /\ Begun.spoken = <<>> /\ ~Begun.pending /\ ~Begun.said
    BY DEF Begun, Unbegun
<1>6. /\ Unbegun.worker = "none" /\ ~Unbegun.segment /\ ~Unbegun.cancelled /\ ~Unbegun.finishing
      /\ Unbegun.flush = "none" /\ Unbegun.queue = <<>> /\ Unbegun.spoken = <<>>
      /\ ~Unbegun.pending /\ ~Unbegun.said
    BY DEF Unbegun
<1>7. StateSound(Begun)
    BY <1>1, <1>2, <1>5 DEF StateSound
<1>8. StateSound(Unbegun)
    BY <1>1, <1>2, <1>6 DEF StateSound
<1>9. Ordered(Begun, <<>>)
    BY <1>5, EmptyIs DEF Ordered
<1>10. Ordered(Unbegun, <<>>)
    BY <1>6, EmptyIs DEF Ordered
<1> QED
    BY <1>3, <1>4, <1>5, <1>6, <1>7, <1>8, <1>9, <1>10

\* The text that is chunked comes after all there is.
LEMMA TextIs ==
    ASSUME NEW s \in ResponseState, StateSound(s), Ordered(s, <<>>), ~s.cancelled, ~s.finishing,
           s.worker # "none", s.flush # "putting",
           NEW op \in {"feed", "finish"}, NEW out \in Text(op, s)
    PROVE  /\ out.new \in ResponseState /\ StateSound(out.new) /\ Ordered(out.new, out.rest)
           /\ out.rest \in Queued
           /\ out.new.worker = s.worker /\ out.new.flush = s.flush
           /\ out.new.cancelled = s.cancelled /\ out.new.segment = s.segment
<1>1. s.cut \in 0..MaxPieces /\ s.cut \in Nat /\ MaxPieces \in Nat
    BY BridgeAssumption DEF ResponseState
<1>2. CASE op = "feed"
  <2>1. out \in Fed(s)
      BY <1>2 DEF Text
  <2>2. PICK x \in (0..2) \X BOOLEAN :
            /\ s.cut + x[1] + (IF x[2] THEN 1 ELSE 0) <= MaxPieces
            /\ out = [new |-> Chunked(s, x[1], x[2]), rest |-> Numbers(s, x[1])]
      BY <2>1 DEF Fed
  <2> DEFINE n == x[1]
             b == x[2]
             t == [s EXCEPT !.cut = @ + n, !.pending = b, !.received = TRUE]
             w == Numbers(s, n)
  <2>3. out.new = t /\ out.rest = w
      BY <2>2 DEF Chunked
  <2>4. n \in Nat /\ b \in BOOLEAN /\ s.cut + n <= MaxPieces /\ s.cut + n \in 0..MaxPieces
        /\ (b => s.cut + n < MaxPieces)
      BY <1>1, <2>2
  <2> HIDE DEF n, b
  <2>5. /\ t \in ResponseState /\ t.worker = s.worker /\ t.flush = s.flush /\ t.queue = s.queue
        /\ t.cut = s.cut + n /\ t.pending = b /\ t.finishing = s.finishing
        /\ t.cancelled = s.cancelled /\ t.segment = s.segment /\ t.spoken = s.spoken /\ t.said = s.said
      BY <2>4 DEF ResponseState
  <2> HIDE DEF t
  <2>6. StateSound(t)
      BY <2>4, <2>5 DEF StateSound
  <2>7. Ordered(t, w) /\ w \in Queued
      BY <2>4, <2>5, NewInOrder
  <2> QED
      BY <2>3, <2>5, <2>6, <2>7
<1>3. CASE op = "finish"
  <2>1. out \in Finished(s)
      BY <1>3 DEF Text
  <2>2. PICK n \in 0..1 :
            /\ s.cut + n <= MaxPieces
            /\ out = [new |-> [Chunked(s, n, FALSE) EXCEPT !.finishing = TRUE],
                      rest |-> Append(Numbers(s, n), End)]
      BY <2>1 DEF Finished
  <2> DEFINE t == [Chunked(s, n, FALSE) EXCEPT !.finishing = TRUE]
             w == Append(Numbers(s, n), End)
  <2>3. out.new = t /\ out.rest = w
      BY <2>2
  <2>4. n \in Nat /\ s.cut + n <= MaxPieces /\ s.cut + n \in 0..MaxPieces
      BY <1>1, <2>2
  <2>5. /\ t \in ResponseState /\ t.worker = s.worker /\ t.flush = s.flush /\ t.queue = s.queue
        /\ t.cut = s.cut + n /\ t.pending = FALSE /\ t.finishing = TRUE
        /\ t.cancelled = s.cancelled /\ t.segment = s.segment /\ t.spoken = s.spoken /\ t.said = s.said
      BY <2>4 DEF ResponseState, Chunked
  <2> HIDE DEF t
  <2>6. StateSound(t)
      BY <2>4, <2>5 DEF StateSound
  <2>7. Ordered(t, w) /\ w \in Queued
      BY <2>4, <2>5, NewInOrder
  <2> QED
      BY <2>3, <2>5, <2>6, <2>7
<1> QED
    BY <1>2, <1>3

\* A call of the feeder that has text to put.
Putting(op, r, w) == [Idle EXCEPT !.at = "putting", !.op = op, !.of = r, !.rest = w]

LEMMA PuttingIs ==
    ASSUME NEW op \in {"feed", "finish"}, NEW r \in Responses, NEW w \in Queued
    PROVE  /\ Putting(op, r, w) \in CallState /\ Putting(op, r, w).at = "putting"
           /\ Putting(op, r, w).op = op /\ Putting(op, r, w).of = r
           /\ Putting(op, r, w).rest = w /\ Putting(op, r, w).old = 0
<1>1. r \in 0..MaxResponses
    BY BridgeAssumption DEF Responses
<1> QED
    BY <1>1, IdleIs DEF Putting, CallState, Places, Idle

LEMMA TakesTextKeeps ==
    ASSUME BridgeInv, NEW r \in Responses, NEW op \in {"feed", "finish"}, LockFree(r),
           Feeder.at \in {"idle", "locking"}, r <= turn',
           TakesText(op, r, state[r]),
           turn' \in 1..(MaxResponses + 1), turn <= turn',
           UNCHANGED <<incremental, current, closed, slipped, open, silenced>>
    PROVE  BridgeInv'
<1> DEFINE s == state[r]
<1>1. /\ s \in ResponseState /\ StateSound(s) /\ Ordered(s, <<>>) /\ Coming(r) = <<>>
      /\ ~FeederPuts(r) /\ (r = current => s.worker \notin {"none", "done", "cleaning"})
    BY ResponseIs
<1>2. s.flush \notin {"putting", "cut"} /\ r \in 1..turn'
    BY DEF LockFree, Responses
<1>3. call \in [Callers -> CallState] /\ "feeder" \in Callers /\ Feeder = call["feeder"]
    BY InvIs, TypeIs DEF Callers, Feeder
<1>4. CASE s.cancelled \/ current' # r \/ s.finishing
  <2>1. Becomes(r, s) /\ Does("feeder", Idle)
      BY <1>4 DEF TakesText
  <2>2. call'["feeder"] = Idle /\ GoesOn("feeder", Idle)
      BY <1>3, <2>1, IdleIs DEF Does, GoesOn
  <2>3. CallSound("feeder")'
      BY <2>2, IdleIs, FeederCalls
  <2>4. ComingTo(Idle, r, s) = <<>>
      BY <1>2, IdleIs DEF ComingTo
  <2> QED
      BY <1>1, <2>1, <2>2, <2>3, <2>4, IdleIs, FeederStep
<1>5. CASE ~(s.cancelled \/ current' # r \/ s.finishing)
  <2>1. PICK out \in Text(op, s) :
            /\ Becomes(r, out.new)
            /\ Does("feeder", [Idle EXCEPT !.at = "putting", !.op = op, !.of = r, !.rest = out.rest])
      BY <1>5 DEF TakesText
  <2> DEFINE t == out.new
             w == out.rest
             k == Putting(op, r, w)
  <2>2. s.worker \notin {"none", "done", "cleaning"} /\ ~s.cancelled /\ ~s.finishing
      BY <1>1, <1>5
  <2>3. /\ t \in ResponseState /\ StateSound(t) /\ Ordered(t, w) /\ w \in Queued
        /\ t.worker = s.worker /\ t.flush = s.flush
        /\ t.cancelled = s.cancelled /\ t.segment = s.segment
      BY <1>1, <1>2, <2>2, TextIs
  <2>4. Becomes(r, t) /\ Does("feeder", k)
      BY <2>1 DEF Putting
  <2> HIDE DEF t, w
  <2>5. /\ k \in CallState /\ k.at = "putting" /\ k.op = op /\ k.of = r /\ k.rest = w /\ k.old = 0
      BY <2>3, PuttingIs
  <2> HIDE DEF k
  <2>6. call'["feeder"] = k /\ GoesOn("feeder", k) /\ state'[r] = t
      BY <1>3, <2>4, <2>5, InvIs, TypeIs DEF Does, GoesOn, Becomes
  <2>7. CallSound("feeder")'
      BY <1>2, <2>2, <2>3, <2>5, <2>6, FeederCalls
  <2>8. ComingTo(k, r, t) = w
      BY <2>5 DEF ComingTo
  <2>9. Keeps(s, t)
      BY <2>2, <2>3 DEF Keeps, Lasts
  <2>10. t.flush \notin {"putting", "cut"} /\ t.worker \notin {"done", "cleaning"}
      BY <1>2, <2>2, <2>3
  <2> QED
      BY <1>3, <2>3, <2>4, <2>5, <2>6, <2>7, <2>8, <2>9, <2>10, FeederStep
<1> QED
    BY <1>4, <1>5

\* What is known of the feeder.
LEMMA FeederIs ==
    ASSUME BridgeInv
    PROVE  /\ Feeder \in CallState /\ call \in [Callers -> CallState] /\ "feeder" \in Callers
           /\ Feeder = call["feeder"]
           /\ Feeder.at = "idle" => Feeder = Idle
           /\ Feeder.at \in {"locking", "putting"} =>
                 /\ Feeder.op \in {"feed", "finish"} /\ Feeder.of \in Responses
                 /\ Feeder.of \in 1..turn /\ Feeder.old = 0
           /\ Feeder.at = "putting" => state[Feeder.of].worker # "none" /\ FeederPuts(Feeder.of)
           /\ turn \in 1..(MaxResponses + 1) /\ turn <= turn /\ MaxResponses \in Nat
<1>1. Feeder \in CallState /\ call \in [Callers -> CallState] /\ "feeder" \in Callers
      /\ Feeder = call["feeder"] /\ turn \in 1..(MaxResponses + 1) /\ MaxResponses \in Nat
    BY InvIs, TypeIs DEF Callers, Feeder
<1>2. CallSound("feeder")
    BY <1>1, InvIs DEF Control
<1>3. Feeder.at = "idle" => Feeder = Idle
    BY <1>1, <1>2 DEF CallSound, Idle
<1>4. /\ Feeder.at \in {"locking", "putting"} =>
            /\ Feeder.op \in {"feed", "finish"} /\ Feeder.of \in Responses
            /\ Feeder.of \in 1..turn /\ Feeder.old = 0
      /\ Feeder.at = "putting" => state[Feeder.of].worker # "none" /\ FeederPuts(Feeder.of)
    BY <1>1, <1>2 DEF CallSound, FeederPuts
<1>5. turn <= turn
    BY <1>1
<1> QED
    BY <1>1, <1>3, <1>4, <1>5

LEMMA TextGetsLockKeeps ==
    ASSUME BridgeInv, TextGetsLock
    PROVE  BridgeInv'
<1> DEFINE r == Feeder.of
           op == Feeder.op
<1>1. /\ Feeder.at = "locking" /\ LockFree(r) /\ TakesText(op, r, state[r])
      /\ UNCHANGED <<incremental, current, closed, slipped, open, silenced>> /\ turn' = turn
    BY DEF TextGetsLock, clientVars
<1>2. op \in {"feed", "finish"} /\ r \in Responses /\ r \in 1..turn /\ turn \in 1..(MaxResponses + 1)
    BY <1>1, FeederIs
<1>3. r <= turn' /\ turn' \in 1..(MaxResponses + 1) /\ turn <= turn'
    BY <1>1, <1>2, FeederIs
<1> HIDE DEF r, op
<1> QED
    BY <1>1, <1>2, <1>3, TakesTextKeeps

LEMMA TextJoinsKeeps ==
    ASSUME BridgeInv, NEW op \in {"feed", "finish"}, TextJoins(op)
    PROVE  BridgeInv'
<1> DEFINE r == turn
           s == state[r]
           waiting == [Idle EXCEPT !.at = "locking", !.op = op, !.of = turn]
<1>1. /\ Feeder.at = "idle" /\ turn <= MaxResponses /\ current = turn
      /\ turn' = (IF op = "finish" THEN turn + 1 ELSE turn)
      /\ UNCHANGED <<incremental, current, closed, slipped, open, silenced>>
    BY DEF TextJoins, Feeds
<1>2. turn \in 1..(MaxResponses + 1) /\ MaxResponses \in Nat /\ Feeder = Idle
    BY <1>1, FeederIs
<1>3. /\ r \in Responses /\ r \in 0..MaxResponses /\ turn' \in 1..(MaxResponses + 1)
      /\ turn <= turn' /\ r <= turn' /\ r \in 1..turn'
    BY <1>1, <1>2 DEF Responses
<1>4. \/ FlushAlive(s) /\ Becomes(r, FlushCut(s)) /\ Does("feeder", waiting)
      \/ Does("feeder", waiting) /\ UNCHANGED state
      \/ LockFree(r) /\ TakesText(op, r, s)
    BY DEF TextJoins
<1>5. /\ s \in ResponseState /\ StateSound(s) /\ Coming(r) \in Queued /\ Ordered(s, Coming(r))
      /\ ComesFrom(s, Coming(r)) /\ s.worker \notin {"none", "done", "cleaning"}
      /\ ~FeederPuts(r)
  <2>1. r = current
      BY <1>1
  <2> QED
      BY <1>1, <1>3, <2>1, ResponseIs DEF FeederPuts
<1>6. /\ waiting \in CallState /\ waiting.at = "locking" /\ waiting.op = op /\ waiting.of = r
      /\ waiting.old = 0
    BY <1>3, IdleIs DEF CallState, Places, Idle
<1> HIDE DEF waiting
<1>7. ASSUME Does("feeder", waiting)
      PROVE  /\ GoesOn("feeder", waiting) /\ CallSound("feeder")'
  <2>1. call'["feeder"] = waiting
      BY <1>7, FeederIs DEF Does
  <2> QED
      BY <1>1, <1>3, <1>6, <2>1, FeederCalls, FeederIs DEF GoesOn
<1>8. CASE FlushAlive(s) /\ Becomes(r, FlushCut(s)) /\ Does("feeder", waiting)
  <2> DEFINE t == FlushCut(s)
  <2>1. /\ t \in ResponseState /\ LikeBut(s, t) /\ t.cancelled = s.cancelled
        /\ t.flush \in {"none", "cut"} /\ Len(t.queue) <= Capacity
        /\ Ordered(t, Left(s, Coming(r)))
      BY <1>5, FlushCutIs DEF StateSound
  <2>2. Becomes(r, t)
      BY <1>8
  <2> HIDE DEF t
  <2>3. StateSound(t) /\ Keeps(s, t) /\ t.worker \notin {"done", "cleaning"}
      BY <1>5, <2>1 DEF StateSound, LikeBut, Keeps, Lasts
  <2>4. ComingTo(waiting, r, t) = <<>>
      BY <1>6, <2>1 DEF ComingTo
  <2>5. Left(s, Coming(r)) = <<>>
      BY <1>3, <1>5, ResponseIs DEF Left
  <2> QED
      BY <1>1, <1>3, <1>6, <1>7, <1>8, <2>1, <2>2, <2>3, <2>4, <2>5, FeederStep
<1>9. CASE Does("feeder", waiting) /\ UNCHANGED state
  <2>1. Becomes(r, s)
      BY <1>3, <1>9, InvIs, TypeIs DEF Becomes
  <2>2. ComingTo(waiting, r, s) = Coming(r)
      BY <1>5, <1>6 DEF ComingTo, Coming, FeederPuts
  <2> QED
      BY <1>1, <1>3, <1>5, <1>6, <1>7, <1>9, <2>1, <2>2, FeederStep
<1>10. CASE LockFree(r) /\ TakesText(op, r, s)
  <2>1. Feeder.at \in {"idle", "locking"}
      BY <1>1
  <2> QED
      BY <1>1, <1>3, <1>10, <2>1, TakesTextKeeps
<1> QED
    BY <1>4, <1>8, <1>9, <1>10

LEMMA PutsKeeps ==
    ASSUME BridgeInv, Puts
    PROVE  BridgeInv'
<1> DEFINE r == Feeder.of
           s == state[r]
           q == Feeder.rest
           b == Append(s.queue, Head(q))
           t == [s EXCEPT !.queue = b]
           k == [Feeder EXCEPT !.rest = Tail(@)]
<1>1. /\ Feeder.at = "putting" /\ q # <<>> /\ ~s.cancelled /\ Len(s.queue) < Capacity
      /\ UNCHANGED <<incremental, current, closed, slipped, open, silenced>> /\ turn' = turn
    BY DEF Puts, clientVars
<1>2. Becomes(r, t) /\ Does("feeder", k)
    BY DEF Puts
<1>3. /\ Feeder \in CallState /\ Feeder.op \in {"feed", "finish"} /\ r \in Responses
      /\ r \in 1..turn /\ Feeder.old = 0 /\ s.worker # "none" /\ FeederPuts(r)
      /\ turn \in 1..(MaxResponses + 1) /\ turn <= turn
    BY <1>1, FeederIs
<1>4. /\ s \in ResponseState /\ StateSound(s) /\ Coming(r) = q /\ Ordered(s, q) /\ q \in Queued
      /\ s.flush \notin {"putting", "cut"} /\ (r = current => s.worker \notin {"none", "done", "cleaning"})
    BY <1>3, ResponseIs
<1>5. Head(q) \in 0..MaxPieces /\ Tail(q) \in Queued /\ s.queue \in Queued
    BY <1>1, <1>4, TailIs, PiecesOf
<1>6. b \in Queued /\ Len(s.queue) \in Nat /\ Len(b) = Len(s.queue) + 1
    BY <1>5, AppendIs
<1>7. /\ k \in CallState /\ k.at = "putting" /\ k.op = Feeder.op /\ k.of = r /\ k.old = 0
      /\ k.rest = Tail(q)
    BY <1>1, <1>3, <1>5 DEF CallState
<1> HIDE DEF b
<1>8. Len(b) <= Capacity
    BY <1>1, <1>6, BridgeAssumption
<1>9. /\ t \in ResponseState /\ t.worker = s.worker /\ t.flush = s.flush /\ t.queue = b
      /\ t.cut = s.cut /\ t.pending = s.pending /\ t.finishing = s.finishing
      /\ t.cancelled = s.cancelled /\ t.segment = s.segment /\ t.spoken = s.spoken /\ t.said = s.said
    BY <1>4, <1>6 DEF ResponseState
<1> HIDE DEF t, k
<1>10. StateSound(t) /\ Keeps(s, t)
    BY <1>3, <1>4, <1>8, <1>9 DEF StateSound, Keeps, Lasts
<1>11. Ordered(t, Tail(q))
    BY <1>1, <1>4, <1>9, PutInOrder DEF b
<1>12. ComingTo(k, r, t) = Tail(q)
    BY <1>7 DEF ComingTo
<1>13. call'["feeder"] = k /\ GoesOn("feeder", k) /\ state'[r] = t
    BY <1>1, <1>2, <1>3, <1>7, FeederIs, InvIs, TypeIs DEF Does, GoesOn, Becomes
<1>14. CallSound("feeder")'
    BY <1>1, <1>3, <1>7, <1>9, <1>13, FeederCalls
<1>15. turn' \in 1..(MaxResponses + 1) /\ turn <= turn'
    BY <1>1, <1>3
<1> HIDE DEF r, s, q
<1>16. s = state[r] /\ Feeder.of = r
    BY DEF r, s
<1> QED
    BY <1>1, <1>2, <1>3, <1>4, <1>7, <1>9, <1>10, <1>11, <1>12, <1>13, <1>14, <1>15, <1>16, FeederStep

LEMMA GivesUpKeeps ==
    ASSUME BridgeInv, GivesUp
    PROVE  BridgeInv'
<1> DEFINE r == Feeder.of
           s == state[r]
           q == Feeder.rest
           b == Append(s.queue, Head(q))
<1>1. /\ Feeder.at = "putting" /\ s.cancelled /\ Does("feeder", Idle)
      /\ UNCHANGED <<incremental, current, closed, slipped, open, silenced>> /\ turn' = turn
    BY DEF GivesUp, clientVars
<1>2. UNCHANGED state \/ (q # <<>> /\ Len(s.queue) < Capacity /\ Becomes(r, [s EXCEPT !.queue = b]))
    BY DEF GivesUp
<1>3. /\ r \in Responses /\ s.worker # "none" /\ FeederPuts(r)
      /\ turn \in 1..(MaxResponses + 1) /\ turn <= turn
    BY <1>1, FeederIs
<1>4. /\ s \in ResponseState /\ StateSound(s) /\ Coming(r) = q /\ Ordered(s, q) /\ q \in Queued
      /\ s.flush \notin {"putting", "cut"} /\ (r = current => s.worker \notin {"none", "done", "cleaning"})
    BY <1>3, ResponseIs
<1>5. call'["feeder"] = Idle /\ GoesOn("feeder", Idle)
    BY <1>1, IdleIs, FeederIs DEF Does, GoesOn
<1>6. CallSound("feeder")'
    BY <1>5, IdleIs, FeederCalls
<1>7. turn' \in 1..(MaxResponses + 1) /\ turn <= turn'
    BY <1>1, <1>3
<1>8. CASE UNCHANGED state
  <2>1. Becomes(r, s)
      BY <1>3, <1>8, InvIs, TypeIs DEF Becomes
  <2>2. ComingTo(Idle, r, s) = <<>>
      BY <1>4, IdleIs DEF ComingTo
  <2>3. Ordered(s, <<>>)
      BY <1>4, SameOrder
  <2> QED
      BY <1>1, <1>3, <1>4, <1>5, <1>6, <1>7, <2>1, <2>2, <2>3, IdleIs, FeederStep
<1>9. CASE q # <<>> /\ Len(s.queue) < Capacity /\ Becomes(r, [s EXCEPT !.queue = b])
  <2> DEFINE t == [s EXCEPT !.queue = b]
  <2>1. Head(q) \in 0..MaxPieces /\ s.queue \in Queued
      BY <1>4, <1>9, TailIs, PiecesOf
  <2>2. b \in Queued /\ Len(s.queue) \in Nat /\ Len(b) = Len(s.queue) + 1
      BY <2>1, AppendIs
  <2>3. Becomes(r, t)
      BY <1>9
  <2> HIDE DEF b
  <2>4. Len(b) <= Capacity
      BY <1>9, <2>2, BridgeAssumption
  <2>5. /\ t \in ResponseState /\ t.worker = s.worker /\ t.flush = s.flush /\ t.queue = b
        /\ t.cut = s.cut /\ t.pending = s.pending /\ t.finishing = s.finishing
        /\ t.cancelled = s.cancelled /\ t.segment = s.segment /\ t.spoken = s.spoken /\ t.said = s.said
      BY <1>4, <2>2 DEF ResponseState
  <2> HIDE DEF t
  <2>6. StateSound(t) /\ Keeps(s, t)
      BY <1>3, <1>4, <2>4, <2>5 DEF StateSound, Keeps, Lasts
  <2>7. Ordered(t, <<>>)
      BY <1>4, <1>9, <2>5, PutInOrder DEF b
  <2>8. ComingTo(Idle, r, t) = <<>>
      BY <1>4, <2>5, IdleIs DEF ComingTo
  <2> QED
      BY <1>1, <1>3, <1>4, <1>5, <1>6, <1>7, <2>3, <2>5, <2>6, <2>7, <2>8, IdleIs, FeederStep
<1> QED
    BY <1>2, <1>8, <1>9

LEMMA TextEndsKeeps ==
    ASSUME BridgeInv, TextEnds
    PROVE  BridgeInv'
<1> DEFINE r == Feeder.of
           s == state[r]
           w == IF s.pending THEN "asleep" ELSE "none"
           t == IF Feeder.op = "feed" THEN [s EXCEPT !.flush = w] ELSE s
<1>1. /\ Feeder.at = "putting" /\ Feeder.rest = <<>> /\ ~s.cancelled /\ Does("feeder", Idle)
      /\ UNCHANGED <<incremental, current, closed, slipped, open, silenced>> /\ turn' = turn
    BY DEF TextEnds, clientVars
<1>2. /\ r \in Responses /\ s.worker # "none" /\ FeederPuts(r)
      /\ turn \in 1..(MaxResponses + 1) /\ turn <= turn
    BY <1>1, FeederIs
<1>3. /\ s \in ResponseState /\ StateSound(s) /\ Ordered(s, <<>>)
      /\ s.flush \notin {"putting", "cut"} /\ (r = current => s.worker \notin {"none", "done", "cleaning"})
    BY <1>1, <1>2, ResponseIs
<1>4. Becomes(r, t)
  <2>1. CASE Feeder.op = "feed"
      BY <2>1 DEF TextEnds
  <2>2. CASE Feeder.op # "feed"
      BY <1>2, <2>2, InvIs, TypeIs DEF TextEnds, Becomes
  <2> QED
      BY <2>1, <2>2
<1>5. w \in {"asleep", "none"}
    OBVIOUS
<1> HIDE DEF w
<1>6. /\ t \in ResponseState /\ t.worker = s.worker /\ t.flush \notin {"putting", "cut"} /\ t.queue = s.queue
      /\ t.cut = s.cut /\ t.pending = s.pending /\ t.finishing = s.finishing
      /\ t.cancelled = s.cancelled /\ t.segment = s.segment /\ t.spoken = s.spoken /\ t.said = s.said
    BY <1>3, <1>5 DEF ResponseState
<1> HIDE DEF t
<1>7. StateSound(t) /\ Keeps(s, t)
    BY <1>1, <1>2, <1>3, <1>6 DEF StateSound, Keeps, Lasts
<1>8. Ordered(t, <<>>)
    BY <1>3, <1>6, SameOrder, EmptyIs
<1>9. ComingTo(Idle, r, t) = <<>>
    BY <1>6, IdleIs DEF ComingTo
<1>10. call'["feeder"] = Idle /\ GoesOn("feeder", Idle)
    BY <1>1, IdleIs, FeederIs DEF Does, GoesOn
<1>11. CallSound("feeder")'
    BY <1>10, IdleIs, FeederCalls
<1>12. turn' \in 1..(MaxResponses + 1) /\ turn <= turn'
    BY <1>1, <1>2
<1> QED
    BY <1>1, <1>2, <1>3, <1>4, <1>6, <1>7, <1>8, <1>9, <1>10, <1>11, <1>12, IdleIs, FeederStep

LEMMA TextIsLateKeeps ==
    ASSUME BridgeInv, TextIsLate
    PROVE  BridgeInv'
<1> DEFINE k == [Idle EXCEPT !.at = "raised"]
           s == state[turn]
<1>1. /\ Feeder.at = "idle" /\ turn <= MaxResponses /\ Does("feeder", k) /\ UNCHANGED state
      /\ UNCHANGED <<incremental, current, closed, slipped, open, silenced>> /\ turn' = turn
    BY DEF TextIsLate, clientVars
<1>2. turn \in Responses /\ turn' \in 1..(MaxResponses + 1) /\ turn <= turn'
    BY <1>1, FeederIs DEF Responses
<1>3. s \in ResponseState /\ StateSound(s) /\ Ordered(s, Coming(turn))
    BY <1>2, ResponseIs
<1>4. k \in CallState /\ k.at = "raised"
    BY IdleIs DEF Idle
<1>5. call'["feeder"] = k /\ GoesOn("feeder", k)
    BY <1>1, <1>4, FeederIs DEF Does, GoesOn
<1>6. CallSound("feeder")'
    BY <1>4, <1>5, FeederCalls
<1> HIDE DEF k
<1>7. ComingTo(k, turn, s) = Coming(turn)
    BY <1>1, <1>4 DEF ComingTo, Coming
<1>8. Becomes(turn, s)
    BY <1>1, <1>2, InvIs, TypeIs DEF Becomes
<1> QED
    BY <1>1, <1>2, <1>3, <1>4, <1>5, <1>6, <1>7, <1>8, FeederStep

-----------------------------------------------------------------------------
(***************************************************************************)
(* Calls that cancel.                                                      *)
(***************************************************************************)

\* What is known of a call that cancels a response.
LEMMA CancellingIs ==
    ASSUME BridgeInv, NEW c \in Callers, Cancelling(c)
    PROVE  /\ call[c] \in CallState /\ call[c].old \in Responses /\ call[c].old # current
           /\ call[c].old < turn \/ closed
           /\ state[call[c].old].worker # "none" /\ state[call[c].old].cancelled
           /\ \/ call[c].op = "interrupt" /\ call[c].upto < turn
              \/ c = "feeder" /\ Replacing
              \/ c = "controller" /\ call[c].op = "close" /\ closed /\ current = 0
<1>1. CallSound(c) /\ call \in [Callers -> CallState]
    BY InvIs, TypeIs DEF Control
<1> QED
    BY <1>1 DEF CallSound

LEMMA FlushIsCutKeeps ==
    ASSUME BridgeInv, NEW c \in Callers, FlushIsCut(c)
    PROVE  BridgeInv'
<1> DEFINE r == call[c].old
           s == state[r]
           t == WorkerCancelled(s)
           k == [call[c] EXCEPT !.at = "awaiting"]
           f == IF c = "feeder" THEN k ELSE Feeder
<1>1. /\ call[c].at = "flushing" /\ s.flush = "none" /\ Becomes(r, t) /\ Does(c, k)
      /\ UNCHANGED <<incremental, current, closed, slipped, open, silenced>> /\ turn' = turn
    BY DEF FlushIsCut, clientVars
<1>2. Cancelling(c)
    BY <1>1 DEF Cancelling
<1>3. /\ call[c] \in CallState /\ r \in Responses /\ r # current /\ (r < turn \/ closed)
      /\ s.worker # "none" /\ s.cancelled
      /\ \/ call[c].op = "interrupt" /\ call[c].upto < turn
         \/ c = "feeder" /\ Replacing
         \/ c = "controller" /\ call[c].op = "close" /\ closed /\ current = 0
    BY <1>2, CancellingIs
<1>4. s \in ResponseState /\ StateSound(s) /\ Coming(r) \in Queued /\ Ordered(s, Coming(r))
    BY <1>3, ResponseIs
<1>5. /\ t \in ResponseState /\ StateSound(t) /\ Ordered(t, Coming(r))
      /\ t.worker # "none" /\ t.cancelled /\ t.segment = s.segment /\ t.flush = s.flush
    BY <1>3, <1>4, WorkerCancelledIs
<1>6. /\ k \in CallState /\ k.at = "awaiting" /\ k.old = call[c].old /\ k.op = call[c].op
      /\ k.of = call[c].of /\ k.upto = call[c].upto
    BY <1>3 DEF CallState, Places
<1>7. GoesOn(c, k)
    BY <1>1 DEF GoesOn
<1>8. Keeps(s, t)
    BY <1>3, <1>5 DEF Keeps, Lasts
<1>9. call'[c] = k /\ state'[r] = t
    BY <1>1, <1>3, FeederIs, InvIs, TypeIs DEF Does, Becomes
<1>10. f.at # "putting" \/ f = Feeder
    BY <1>6
<1>11. ComingTo(f, r, t) = Coming(r)
  <2>1. CASE c = "feeder"
    <3>1. Feeder.at # "putting" /\ f.at # "putting"
        BY <1>1, <1>6, <2>1, FeederIs
    <3> QED
        BY <1>1, <1>5, <3>1 DEF ComingTo, Coming
  <2>2. CASE c # "feeder"
      BY <1>1, <1>5, <2>2 DEF ComingTo, Coming
  <2> QED
      BY <2>1, <2>2
<1>12. f = Feeder \/ ((Feeder.at = "putting" => Feeder.of = r) /\ (f.at = "putting" => f.of = r))
    BY <1>1, <1>6, FeederIs
<1>13. ~(f.at = "putting" /\ f.of = r /\ t.flush \in {"putting", "cut"})
    BY <1>1, <1>5
<1> HIDE DEF t, k
<1>14. CallSound(c)'
  <2>1. closed' = closed /\ current' = current
      BY <1>1
  <2>2. c = "feeder" /\ Replacing => Replacing'
      BY <1>6, <1>9 DEF Replacing, Cancelling, Feeder
  <2>3. /\ k.old \in Responses /\ k.old # current' /\ (k.old < turn' \/ closed')
        /\ state'[k.old].worker # "none" /\ state'[k.old].cancelled
      BY <1>1, <1>3, <1>5, <1>6, <1>9, <2>1
  <2>4. \/ k.op = "interrupt" /\ k.upto < turn'
        \/ c = "feeder" /\ Replacing'
        \/ c = "controller" /\ k.op = "close" /\ closed' /\ current' = 0
      BY <1>1, <1>3, <1>6, <2>1, <2>2
  <2> QED
      BY <1>6, <1>9, <2>3, <2>4 DEF CallSound
<1> HIDE DEF f
<1>15. f = IF c = "feeder" THEN k ELSE Feeder
    BY DEF f
<1>16. turn' \in 1..(MaxResponses + 1) /\ turn <= turn'
    BY <1>1, FeederIs
<1>17. Ordered(t, ComingTo(f, r, t))
    BY <1>5, <1>11
<1> QED
    BY <1>1, <1>3, <1>5, <1>6, <1>7, <1>8, <1>12, <1>13, <1>14, <1>15, <1>16, <1>17, OneStep

-----------------------------------------------------------------------------
(***************************************************************************)
(* Segments that open and close.                                           *)
(***************************************************************************)

LEMMA FirstAudioKeeps ==
    ASSUME BridgeInv, NEW r \in Responses, FirstAudio(r)
    PROVE  BridgeInv'
<1> DEFINE s == state[r]
           t == [s EXCEPT !.segment = TRUE]
<1>1. /\ s.worker \in {"waiting", "speaking", "draining"} /\ current = r
      /\ Becomes(r, t) /\ open' = IF open = 0 THEN r ELSE open
      /\ UNCHANGED <<incremental, current, call, closed, slipped, silenced>> /\ turn' = turn
    BY DEF FirstAudio, Sounding, clientVars
<1>2. /\ s \in ResponseState /\ StateSound(s) /\ Coming(r) \in Queued /\ Ordered(s, Coming(r))
      /\ (FeederPuts(r) => s.flush \notin {"putting", "cut"})
    BY ResponseIs
<1>3. /\ t \in ResponseState /\ t.worker = s.worker /\ t.flush = s.flush /\ t.queue = s.queue
      /\ t.cut = s.cut /\ t.pending = s.pending /\ t.finishing = s.finishing
      /\ t.cancelled = s.cancelled /\ t.segment /\ t.spoken = s.spoken /\ t.said = s.said
    BY <1>2 DEF ResponseState
<1> HIDE DEF t
<1>4. StateSound(t) /\ Lasts(s, t)
    BY <1>1, <1>2, <1>3 DEF StateSound, Lasts
<1>5. Ordered(t, Coming(r))
    BY <1>2, <1>3, SameOrder
<1>6. ComingTo(Feeder, r, t) = Coming(r)
    BY <1>3, ComesStill
<1>7. /\ state \in [Responses -> ResponseState] /\ open \in 0..MaxResponses /\ MaxResponses \in Nat
      /\ (open # 0 => state[open].segment)
    BY InvIs, TypeIs DEF Control, Silences
<1>8. open' # 0 => state'[open'].segment
    BY <1>1, <1>3, <1>7 DEF Becomes, Responses
<1>9. /\ current' \in {current, 0} /\ open' \in {0, open, current'}
      /\ open' # 0 /\ open' = current => current' = current
      /\ UNCHANGED <<incremental, closed, slipped, silenced>>
    BY <1>1
<1>10. Does("feeder", Feeder) /\ Feeder = call["feeder"] /\ Feeder \in CallState /\ "feeder" \in Callers
    BY <1>1, FeederIs DEF Does
<1>11. turn' \in 1..(MaxResponses + 1) /\ turn <= turn'
    BY <1>1, FeederIs
<1>12. ~(Feeder.at = "putting" /\ Feeder.of = r /\ t.flush \in {"putting", "cut"})
    BY <1>2, <1>3 DEF FeederPuts
<1>13. t.worker \notin {"done", "cleaning"}
    BY <1>1, <1>3
<1> QED
    BY <1>1, <1>3, <1>4, <1>5, <1>6, <1>8, <1>9, <1>10, <1>11, <1>12, <1>13, WideStep

\* A closed segment is no longer open.
LEMMA OpenAfterIs ==
    ASSUME BridgeInv, NEW r \in Responses
    PROVE  /\ OpenAfter(r) \in {0, open} /\ OpenAfter(r) # r
           /\ OpenAfter(r) # 0 => OpenAfter(r) \in Responses /\ state[OpenAfter(r)].segment
           /\ open # 0 => open \in Responses /\ state[open].segment
<1>1. (open # 0 => state[open].segment) /\ open \in 0..MaxResponses /\ MaxResponses \in Nat
    BY InvIs, TypeIs DEF Control, Silences
<1>2. open # 0 => open \in Responses
    BY <1>1 DEF Responses
<1>3. r # 0
    BY DEF Responses
<1> QED
    BY <1>1, <1>2, <1>3 DEF OpenAfter

LEMMA WorkerEndsKeeps ==
    ASSUME BridgeInv, NEW r \in Responses, WorkerEnds(r)
    PROVE  BridgeInv'
<1> DEFINE s == state[r]
           q == Coming(r)
           u == IF current = r THEN Closed(s) ELSE s
           t == Over(u)
<1>1. /\ s.worker \in {"flushing", "ending"} /\ LockFree(r) /\ Becomes(r, t)
      /\ current' = IF current = r THEN 0 ELSE current
      /\ open' = IF s.fails THEN 0 ELSE IF current = r THEN OpenAfter(r) ELSE open
      /\ UNCHANGED <<incremental, call, closed, slipped, silenced>> /\ turn' = turn
    BY DEF WorkerEnds, clientVars
<1>2. /\ s \in ResponseState /\ StateSound(s) /\ q = <<>> /\ Ordered(s, q) /\ ~FeederPuts(r)
    BY <1>1, ResponseIs
<1>3. s.cancelled /\ s.flush = "none"
    BY <1>1, <1>2 DEF StateSound, LockFree
<1>4. /\ u \in ResponseState /\ u.flush = "none" /\ u.segment = (IF current = r THEN FALSE ELSE s.segment)
      /\ Ordered(u, q) /\ q \in Queued
  <2>1. CASE current = r
    <3> DEFINE v == [s EXCEPT !.segment = FALSE]
    <3>1. u = v
        BY <2>1 DEF Closed
    <3>2. /\ v \in ResponseState /\ v.flush = s.flush /\ v.queue = s.queue
          /\ v.cut = s.cut /\ v.finishing = s.finishing
          /\ v.cancelled = s.cancelled /\ v.segment = FALSE /\ v.spoken = s.spoken /\ v.said = s.said
        BY <1>2 DEF ResponseState
    <3> HIDE DEF u, v
    <3>3. Ordered(v, q)
        BY <1>2, <3>2, SameOrder, EmptyIs
    <3> QED
        BY <1>2, <1>3, <2>1, <3>1, <3>2, <3>3, EmptyIs
  <2>2. CASE current # r
    <3>1. u = s
        BY <2>2
    <3> QED
        BY <1>2, <1>3, <2>2, <3>1, EmptyIs
  <2> QED
      BY <2>1, <2>2
<1> HIDE DEF u
<1>5. /\ t \in ResponseState /\ StateSound(t) /\ Ordered(t, q)
      /\ t.worker = "done" /\ t.cancelled /\ t.segment = u.segment /\ t.flush = "none"
    BY <1>4, OverIs
<1> HIDE DEF t
<1>6. ComingTo(Feeder, r, t) = q
    BY <1>2, <1>5, ComesStill
<1>7. Lasts(s, t)
    BY <1>1, <1>5 DEF Lasts
<1>8. /\ OpenAfter(r) \in {0, open} /\ OpenAfter(r) # r
      /\ OpenAfter(r) # 0 => OpenAfter(r) \in Responses /\ state[OpenAfter(r)].segment
      /\ open # 0 => open \in Responses /\ state[open].segment
    BY OpenAfterIs
<1>9. state \in [Responses -> ResponseState] /\ state'[r] = t /\ \A x \in Responses \ {r} : state'[x] = state[x]
    BY <1>1, InvIs, TypeIs DEF Becomes
<1>10. open' # 0 => state'[open'].segment
  <2>1. CASE s.fails
      BY <1>1, <2>1
  <2>2. CASE ~s.fails /\ current = r
      BY <1>1, <1>8, <1>9, <2>2
  <2>3. CASE ~s.fails /\ current # r
      BY <1>1, <1>4, <1>5, <1>8, <1>9, <2>3
  <2> QED
      BY <2>1, <2>2, <2>3
<1>11. /\ current' \in {current, 0} /\ open' \in {0, open, current'}
       /\ open' # 0 /\ open' = current => current' = current
       /\ UNCHANGED <<incremental, closed, slipped, silenced>>
    BY <1>1, <1>8
<1>12. Does("feeder", Feeder) /\ Feeder = call["feeder"] /\ Feeder \in CallState /\ "feeder" \in Callers
    BY <1>1, FeederIs DEF Does
<1>13. turn' \in 1..(MaxResponses + 1) /\ turn <= turn'
    BY <1>1, FeederIs
<1>14. ~(Feeder.at = "putting" /\ Feeder.of = r /\ t.flush \in {"putting", "cut"})
    BY <1>5
<1>15. r # current'
    BY <1>1 DEF Responses
<1> QED
    BY <1>1, <1>5, <1>6, <1>7, <1>10, <1>11, <1>12, <1>13, <1>14, <1>15, WideStep

LEMMA CancelWaitsKeeps ==
    ASSUME BridgeInv, NEW c \in Callers, CancelWaits(c)
    PROVE  BridgeInv'
<1> DEFINE r == call[c].old
           s == state[r]
           t == Closed(s)
           k == [call[c] EXCEPT !.at = "clearing"]
           f == IF c = "feeder" THEN k ELSE Feeder
<1>1. /\ call[c].at = "awaiting" /\ Becomes(r, t) /\ Does(c, k) /\ open' = OpenAfter(r)
      /\ UNCHANGED <<incremental, current, closed, slipped, silenced>> /\ turn' = turn
    BY DEF CancelWaits, WorkerIsGone, clientVars
<1>2. Cancelling(c)
    BY <1>1 DEF Cancelling
<1>3. /\ call[c] \in CallState /\ r \in Responses /\ r # current /\ (r < turn \/ closed)
      /\ s.worker # "none" /\ s.cancelled
      /\ \/ call[c].op = "interrupt" /\ call[c].upto < turn
         \/ c = "feeder" /\ Replacing
         \/ c = "controller" /\ call[c].op = "close" /\ closed /\ current = 0
    BY <1>2, CancellingIs
<1>4. /\ s \in ResponseState /\ StateSound(s) /\ Coming(r) \in Queued /\ Ordered(s, Coming(r))
      /\ (FeederPuts(r) => s.flush \notin {"putting", "cut"})
    BY <1>3, ResponseIs
<1>5. /\ t \in ResponseState /\ t.worker = s.worker /\ t.flush = s.flush /\ t.queue = s.queue
      /\ t.cut = s.cut /\ t.pending = s.pending /\ t.finishing = s.finishing
      /\ t.cancelled = s.cancelled /\ t.spoken = s.spoken /\ t.said = s.said
    BY <1>4 DEF Closed, ResponseState
<1> HIDE DEF t
<1>6. StateSound(t) /\ Lasts(s, t)
    BY <1>3, <1>4, <1>5 DEF StateSound, Lasts
<1>7. Ordered(t, Coming(r))
    BY <1>4, <1>5, SameOrder
<1>8. /\ k \in CallState /\ k.at = "clearing" /\ k.old = call[c].old /\ k.op = call[c].op
      /\ k.of = call[c].of /\ k.upto = call[c].upto
    BY <1>3 DEF CallState, Places
<1>9. GoesOn(c, k)
    BY <1>1 DEF GoesOn
<1>10. call'[c] = k /\ state'[r] = t /\ \A x \in Responses \ {r} : state'[x] = state[x]
    BY <1>1, <1>3, FeederIs, InvIs, TypeIs DEF Does, Becomes
<1>11. ComingTo(f, r, t) = Coming(r)
  <2>1. CASE c = "feeder"
    <3>1. Feeder.at # "putting" /\ f.at # "putting"
        BY <1>1, <1>8, <2>1, FeederIs
    <3> QED
        BY <1>1, <1>5, <3>1 DEF ComingTo, Coming
  <2>2. CASE c # "feeder"
      BY <1>1, <1>5, <2>2 DEF ComingTo, Coming
  <2> QED
      BY <2>1, <2>2
<1>12. f = Feeder \/ ((Feeder.at = "putting" => Feeder.of = r) /\ (f.at = "putting" => f.of = r))
    BY <1>1, <1>8, FeederIs
<1>13. ~(f.at = "putting" /\ f.of = r /\ t.flush \in {"putting", "cut"})
    BY <1>4, <1>5, <1>8 DEF FeederPuts
<1> HIDE DEF k
<1>14. CallSound(c)'
  <2>1. closed' = closed /\ current' = current
      BY <1>1
  <2>2. c = "feeder" /\ Replacing => Replacing'
      BY <1>8, <1>10 DEF Replacing, Cancelling, Feeder
  <2>3. /\ k.old \in Responses /\ k.old # current' /\ (k.old < turn' \/ closed')
        /\ state'[k.old].worker # "none" /\ state'[k.old].cancelled
    <3>1. k.old = r /\ turn' = turn
        BY <1>1, <1>8
    <3>2. state'[r].worker # "none" /\ state'[r].cancelled
        BY <1>3, <1>5, <1>10
    <3> QED
        BY <1>3, <2>1, <3>1, <3>2
  <2>4. \/ k.op = "interrupt" /\ k.upto < turn'
        \/ c = "feeder" /\ Replacing'
        \/ c = "controller" /\ k.op = "close" /\ closed' /\ current' = 0
      BY <1>1, <1>3, <1>8, <2>1, <2>2
  <2> QED
      BY <1>8, <1>10, <2>3, <2>4 DEF CallSound
<1>15. /\ OpenAfter(r) \in {0, open} /\ OpenAfter(r) # r
       /\ OpenAfter(r) # 0 => OpenAfter(r) \in Responses /\ state[OpenAfter(r)].segment
    BY <1>3, OpenAfterIs
<1>16. open' # 0 => state'[open'].segment
    BY <1>1, <1>10, <1>15
<1>17. /\ current' \in {current, 0} /\ open' \in {0, open, current'}
       /\ open' # 0 /\ open' = current => current' = current
       /\ UNCHANGED <<incremental, closed, slipped, silenced>>
    BY <1>1, <1>15
<1> HIDE DEF f
<1>18. f = IF c = "feeder" THEN k ELSE Feeder
    BY DEF f
<1>19. turn' \in 1..(MaxResponses + 1) /\ turn <= turn'
    BY <1>1, FeederIs
<1>20. Ordered(t, ComingTo(f, r, t))
    BY <1>7, <1>11
<1>21. r # current'
    BY <1>1, <1>3
<1> QED
    BY <1>1, <1>3, <1>5, <1>6, <1>8, <1>9, <1>12, <1>13, <1>14, <1>16, <1>17, <1>18, <1>19, <1>20, <1>21, WideStep

-----------------------------------------------------------------------------
(***************************************************************************)
(* Calls that end.                                                         *)
(***************************************************************************)

\* What is known of the callers together.
LEMMA ControlIs ==
    ASSUME BridgeInv
    PROVE  /\ \A x \in Callers : CallSound(x)
           /\ CallsAgree /\ TurnsInOrder /\ Silences /\ SpeechIsHeard
           /\ InterruptSilences /\ NoSegmentLeftOpen
           /\ \A x \in Callers : ~Cancelling(x) => call[x].old = 0
           /\ Callers = {"feeder", "controller"} /\ Controller = call["controller"]
           /\ current \in 0..MaxResponses /\ open \in 0..MaxResponses
           /\ turn \in Nat /\ silenced \in Nat /\ MaxResponses \in Nat
           /\ state \in [Responses -> ResponseState] /\ call \in [Callers -> CallState]
<1>1. /\ \A x \in Callers : CallSound(x)
      /\ CallsAgree /\ TurnsInOrder /\ Silences /\ SpeechIsHeard
      /\ InterruptSilences /\ NoSegmentLeftOpen
    BY InvIs DEF Control, EndsInSilence
<1>2. /\ current \in 0..MaxResponses /\ open \in 0..MaxResponses
      /\ turn \in Nat /\ silenced \in Nat /\ MaxResponses \in Nat
      /\ state \in [Responses -> ResponseState] /\ call \in [Callers -> CallState]
    BY InvIs, TypeIs
<1>3. ASSUME NEW x \in Callers, ~Cancelling(x)
      PROVE  call[x].old = 0
  <2>1. call[x].at \in Places /\ CallSound(x)
      BY <1>1, <1>2 DEF CallState
  <2> QED
      BY <1>3, <2>1 DEF CallSound, Cancelling, Places, Idle
<1> QED
    BY <1>1, <1>2, <1>3 DEF Callers, Controller

LEMMA ControlEnds ==
    ASSUME BridgeInv, NEW c \in Callers, Cancelling(c), NEW k \in CallState, Does(c, k),
           \/ k = Idle /\ call[c].op = "interrupt"
           \/ k = [Idle EXCEPT !.at = "stopped"] /\ c = "controller" /\ call[c].op = "close",
           NEW r, r = call[c].old,
           NEW t \in ResponseState, Becomes(r, t), t.worker # "none", t.cancelled,
           open' \in {0, open}, open' # r, open' # 0 => silenced' = silenced,
           silenced' \in {silenced, call[c].upto}, silenced' # silenced => call[c].op = "interrupt",
           UNCHANGED <<current, turn, closed, slipped>>
    PROVE  Control'
<1>1. /\ \A x \in Callers : CallSound(x)
      /\ CallsAgree /\ TurnsInOrder /\ Silences /\ SpeechIsHeard
      /\ InterruptSilences /\ NoSegmentLeftOpen
      /\ \A x \in Callers : ~Cancelling(x) => call[x].old = 0
      /\ Callers = {"feeder", "controller"} /\ Controller = call["controller"]
      /\ current \in 0..MaxResponses /\ open \in 0..MaxResponses
      /\ turn \in Nat /\ silenced \in Nat /\ MaxResponses \in Nat
      /\ state \in [Responses -> ResponseState] /\ call \in [Callers -> CallState]
    BY ControlIs
<1>2. /\ call[c] \in CallState /\ r \in Responses /\ r # current /\ (r < turn \/ closed)
      /\ state[r].worker # "none" /\ state[r].cancelled
      /\ \/ call[c].op = "interrupt" /\ call[c].upto < turn
         \/ c = "feeder" /\ Replacing
         \/ c = "controller" /\ call[c].op = "close" /\ closed /\ current = 0
    BY CancellingIs
<1>3. call'[c] = k /\ \A x \in Callers \ {c} : call'[x] = call[x]
    BY <1>1 DEF Does
<1>4. state'[r] = t /\ \A x \in Responses \ {r} : state'[x] = state[x]
    BY <1>1, <1>2 DEF Becomes
<1>5. Lasts(state[r], t)
    BY <1>2 DEF Lasts
<1>6. k.at \in {"idle", "stopped"} /\ k.old = 0 /\ k.op = "none" /\ ~Cancelling(c)'
    BY <1>3, IdleIs DEF Idle, Cancelling
<1>7. Replacing' => Replacing /\ c = "controller" /\ Feeder' = Feeder
    BY <1>1, <1>3, <1>6 DEF Replacing, Cancelling, Feeder
<1>8. call[c].op = "interrupt" => call[c].upto < turn
    BY <1>2 DEF Replacing, Feeder
<1>9. UNCHANGED <<current, turn, closed, slipped>>
    OBVIOUS
<1>10. \A x \in Callers : CallSound(x)'
  <2>1. CallSound(c)'
    <3>1. CASE k = Idle
        BY <1>3, <1>6, <3>1 DEF CallSound, Idle
    <3>2. CASE k = [Idle EXCEPT !.at = "stopped"] /\ c = "controller" /\ call[c].op = "close"
      <4>1. closed'
          BY <1>2, <1>9, <3>2
      <4> QED
          BY <1>3, <1>6, <3>2, <4>1 DEF CallSound, Idle
    <3> QED
        BY <3>1, <3>2
  <2>2. ASSUME NEW x \in Callers, x # c
        PROVE  CallSound(x)'
    <3>1. call'[x] = call[x] /\ CallSound(x) /\ TypeOK /\ turn' \in Nat /\ turn <= turn' /\ (closed => closed')
        BY <1>1, <1>3, <1>9, <2>2, InvIs
    <3>2. Cancelling(x) =>
             LET o == call[x].old IN
             /\ o # current' /\ (state'[o] = state[o] \/ Lasts(state[o], state'[o]))
             /\ x = "controller" /\ current = 0 /\ call[x].op = "close" => current' = 0
      <4> SUFFICES ASSUME Cancelling(x)
                   PROVE  LET o == call[x].old IN
                          /\ o # current' /\ (state'[o] = state[o] \/ Lasts(state[o], state'[o]))
                          /\ x = "controller" /\ current = 0 /\ call[x].op = "close" => current' = 0
          OBVIOUS
      <4>1. call[x].old \in Responses /\ call[x].old # current
          BY CancellingIs
      <4> QED
          BY <1>4, <1>5, <1>9, <4>1
    <3>3. call[x].at = "putting" => state'[call[x].of].worker # "none"
      <4> SUFFICES ASSUME call[x].at = "putting"
                   PROVE  state'[call[x].of].worker # "none"
          OBVIOUS
      <4>1. call[x].of \in Responses /\ state[call[x].of].worker # "none"
          BY <3>1 DEF CallSound
      <4> QED
          BY <1>4, <4>1
    <3> QED
        BY <3>1, <3>2, <3>3, CallStays
  <2> QED
      BY <2>1, <2>2
<1>11. CallsAgree'
  <2>1. Feeder'.old # 0 => current' = 0
      BY <1>1, <1>3, <1>6, <1>9 DEF CallsAgree, Feeder
  <2>2. Replacing' => Feeder'.of \in Responses /\ Feeder'.of <= turn' /\ Feeder'.old < Feeder'.of
      BY <1>1, <1>7, <1>9 DEF CallsAgree
  <2>3. Controller'.op = "close" => ~Replacing'
      BY <1>1, <1>3, <1>6, <1>7 DEF CallsAgree, Controller
  <2>4. closed' => /\ Controller'.at = "stopped" \/ (Cancelling("controller")' /\ Controller'.op = "close")
                   /\ current' \in slipped' \cup {0}
                   /\ Replacing' => Feeder'.of \in slipped'
    <3> SUFFICES ASSUME closed
                 PROVE  /\ Controller'.at = "stopped" \/ (Cancelling("controller")' /\ Controller'.op = "close")
                        /\ current' \in slipped' \cup {0}
                        /\ Replacing' => Feeder'.of \in slipped'
        BY <1>9
    <3>1. Controller.at = "stopped" \/ (Cancelling("controller") /\ Controller.op = "close")
        BY <1>1 DEF CallsAgree
    <3>2. CASE c = "controller"
      <4>1. k = [Idle EXCEPT !.at = "stopped"]
          BY <1>1, <3>1, <3>2 DEF Cancelling
      <4>2. Controller'.at = "stopped"
          BY <1>3, <3>2, <4>1 DEF Controller, Idle
      <4> QED
          BY <1>1, <1>7, <1>9, <4>2 DEF CallsAgree
    <3>3. CASE c # "controller"
      <4>1. call'["controller"] = call["controller"]
          BY <1>1, <1>3, <3>3
      <4> QED
          BY <1>1, <1>7, <1>9, <3>1, <4>1 DEF CallsAgree, Controller, Cancelling
    <3> QED
        BY <3>2, <3>3
  <2> QED
      BY <2>1, <2>2, <2>3, <2>4 DEF CallsAgree
<1>12. TurnsInOrder'
  <2>1. current' <= turn'
      BY <1>1, <1>9 DEF TurnsInOrder
  <2>2. current' # 0 => state'[current'].worker \notin {"none", "done", "cleaning"}
      BY <1>1, <1>2, <1>4, <1>9 DEF TurnsInOrder, Responses
  <2>3. ASSUME NEW x \in Responses,
               x > turn' \/ (current' # 0 /\ x > current') \/ (Replacing' /\ x >= Feeder'.of)
        PROVE  state'[x] = Unbegun
    <3>1. state[x] = Unbegun
        BY <1>1, <1>7, <1>9, <2>3 DEF TurnsInOrder
    <3>2. x # r
        BY <1>2, <3>1 DEF Unbegun
    <3> QED
        BY <1>4, <3>1, <3>2
  <2> QED
      BY <2>1, <2>2, <2>3 DEF TurnsInOrder
<1>13. Silences'
  <2>1. open' # 0 => state'[open'].segment
      BY <1>1, <1>4 DEF Silences, Responses
  <2>2. silenced' < turn'
      BY <1>1, <1>8, <1>9 DEF Silences
  <2>3. Later(current, silenced)' /\ (Replacing' => Later(Feeder.of, silenced)')
    <3>1. CASE silenced' = silenced
        BY <1>1, <1>7, <1>9, <3>1 DEF Silences, Later
    <3>2. CASE silenced' = call[c].upto /\ call[c].op = "interrupt"
        BY <1>1, <1>7, <1>9, <3>2 DEF Silences, Later
    <3> QED
        BY <3>1, <3>2
  <2>4. ASSUME NEW x \in Callers, Cancelling(x)', call'[x].op = "interrupt"
        PROVE  Later(current, call[x].upto)' /\ (Replacing' => Later(Feeder.of, call[x].upto)')
    <3>1. x # c
        BY <1>6, <2>4
    <3>2. call'[x] = call[x] /\ Cancelling(x)
        BY <1>3, <2>4, <3>1 DEF Cancelling
    <3> QED
        BY <1>1, <1>7, <1>9, <2>4, <3>2 DEF Silences, Later
  <2> QED
      BY <2>1, <2>2, <2>3, <2>4 DEF Silences
<1>14. SpeechIsHeard'
  <2> SUFFICES ASSUME current' # 0, open' \notin {0, current'}
               PROVE  Controller'.op = "interrupt" /\ Controller'.old = open'
      BY DEF SpeechIsHeard
  <2>1. Controller.op = "interrupt" /\ Controller.old = open /\ open' = open
      BY <1>1, <1>9 DEF SpeechIsHeard
  <2>2. c # "controller"
      BY <1>1, <2>1
  <2> QED
      BY <1>1, <1>3, <2>1, <2>2 DEF Controller
<1>15. InterruptSilences'
  <2>1. open' > silenced' \/ open' \in slipped' \cup {0}
      BY <1>1, <1>9 DEF InterruptSilences
  <2>2. Controller'.at = "stopped" => current' \in slipped' \cup {0}
    <3> SUFFICES ASSUME Controller'.at = "stopped"
                 PROVE  current' \in slipped' \cup {0}
        OBVIOUS
    <3>1. CallSound("controller")' /\ Controller' = call'["controller"]
        BY <1>1, <1>10 DEF Controller
    <3>2. closed'
        BY <3>1 DEF CallSound
    <3> QED
        BY <1>11, <3>2 DEF CallsAgree
  <2> QED
      BY <2>1, <2>2 DEF InterruptSilences
<1>16. NoSegmentLeftOpen'
  <2> SUFFICES ASSUME open' # 0, open' # current'
               PROVE  \E x \in Callers : call'[x].old = open'
      BY DEF NoSegmentLeftOpen
  <2>1. open' = open /\ open # current
      BY <1>9
  <2>2. PICK x \in Callers : call[x].old = open
      BY <1>1, <2>1 DEF NoSegmentLeftOpen
  <2>3. x # c
      BY <2>1, <2>2
  <2> QED
      BY <1>3, <2>1, <2>2, <2>3
<1> QED
    BY <1>10, <1>11, <1>12, <1>13, <1>14, <1>15, <1>16 DEF Control, EndsInSilence

\* A response whose queue is cleared and whose segment is closed.
Cleared(s) == [Closed(s) EXCEPT !.queue = <<>>]

LEMMA ClearedIs ==
    ASSUME NEW s \in ResponseState, StateSound(s), Ordered(s, <<>>), s.cancelled, s.worker # "none"
    PROVE  /\ Cleared(s) \in ResponseState /\ StateSound(Cleared(s)) /\ Ordered(Cleared(s), <<>>)
           /\ Cleared(s).worker = s.worker /\ Cleared(s).cancelled /\ Cleared(s).flush = s.flush
<1> DEFINE t == Cleared(s)
<1>1. /\ t \in ResponseState /\ t.worker = s.worker /\ t.flush = s.flush /\ t.queue = <<>>
      /\ t.cut = s.cut /\ t.pending = s.pending /\ t.finishing = s.finishing
      /\ t.cancelled = s.cancelled /\ t.spoken = s.spoken /\ t.said = s.said
    BY EmptyIs DEF Cleared, Closed, ResponseState
<1> HIDE DEF t
<1>2. StateSound(t)
    BY <1>1, EmptyIs, BridgeAssumption DEF StateSound
<1>3. Ordered(t, <<>>)
    BY <1>1, EmptiedInOrder, EmptyIs
<1> QED
    BY <1>1, <1>2, <1>3 DEF t

\* A call that ends clears the response it cancelled.
LEMMA EndingCalls ==
    ASSUME BridgeInv, NEW c \in Callers, Cancelling(c), LockFree(call[c].old),
           NEW k \in {Idle, [Idle EXCEPT !.at = "stopped"]}, Does(c, k),
           state' = Emptied(call[c].old), Control',
           open' \in {0, open}, silenced' \in 0..MaxResponses,
           UNCHANGED <<incremental, current, turn, closed, slipped>>
    PROVE  BridgeInv'
<1> DEFINE r == call[c].old
           s == state[r]
           t == Cleared(s)
           f == IF c = "feeder" THEN k ELSE Feeder
<1>1. r \in Responses /\ s.worker # "none" /\ s.cancelled
    BY CancellingIs
<1>2. s \in ResponseState /\ StateSound(s) /\ Ordered(s, <<>>) /\ ~FeederPuts(r)
    BY <1>1, ResponseIs
<1>3. /\ t \in ResponseState /\ StateSound(t) /\ Ordered(t, <<>>)
      /\ t.worker = s.worker /\ t.cancelled /\ t.flush = s.flush
    BY <1>1, <1>2, ClearedIs
<1>4. t.flush \notin {"putting", "cut"}
    BY <1>3 DEF LockFree
<1>5. Becomes(r, t)
    BY DEF Emptied, Becomes, Cleared
<1> HIDE DEF t
<1>6. k \in CallState /\ k.at \in {"idle", "stopped"}
    BY IdleIs DEF Idle
<1>7. call' \in [Callers -> CallState] /\ call'["feeder"] = f /\ f \in CallState
    BY <1>6, FeederIs DEF Does
<1>8. \/ f = Feeder
      \/ (Feeder.at = "putting" => Feeder.of = r) /\ (f.at = "putting" => f.of = r)
    BY <1>6, FeederIs DEF Cancelling
<1>9. f.at = "putting" => f = Feeder
    BY <1>6
<1> HIDE DEF f
<1>10. ComingTo(f, r, t) = <<>>
    BY <1>2, <1>4, <1>9 DEF ComingTo, FeederPuts
<1>11. /\ state' \in [Responses -> ResponseState]
       /\ \A x \in Responses : ResponseSound(x)'
       /\ \A x \in Responses : Len(state'[x].queue) <= Capacity
  <2>1. ~(f.at = "putting" /\ f.of = r /\ t.flush \in {"putting", "cut"}) /\ Ordered(t, ComingTo(f, r, t))
      BY <1>3, <1>4, <1>10
  <2> QED
      BY <1>1, <1>3, <1>5, <1>7, <1>8, <2>1, OneChanges, InvIs
<1>12. /\ incremental \in BOOLEAN /\ closed \in BOOLEAN
       /\ current \in 0..MaxResponses /\ open \in 0..MaxResponses
       /\ turn \in 1..(MaxResponses + 1) /\ slipped \subseteq Responses /\ 0 \in 0..MaxResponses
    BY InvIs, TypeIs
<1>13. TypeOK'
    BY <1>7, <1>11, <1>12, TypeKept
<1> QED
    BY <1>11, <1>13 DEF BridgeInv

LEMMA InterruptEndsKeeps ==
    ASSUME BridgeInv, NEW c \in Callers, InterruptEnds(c)
    PROVE  BridgeInv'
<1> DEFINE r == call[c].old
           s == state[r]
           t == Cleared(s)
           upto == call[c].upto
<1>1. /\ call[c].at \in {"awaiting", "clearing"} /\ call[c].op = "interrupt" /\ LockFree(r)
      /\ state' = Emptied(r) /\ open' = 0 /\ silenced' = (IF upto > silenced THEN upto ELSE silenced)
      /\ Does(c, Idle)
      /\ UNCHANGED <<incremental, current, turn, closed, slipped>>
    BY DEF InterruptEnds, WorkerIsGone, Discards, clientVars
<1>2. Cancelling(c)
    BY <1>1 DEF Cancelling
<1>3. r \in Responses /\ s.worker # "none" /\ s.cancelled /\ call[c] \in CallState
    BY <1>2, CancellingIs
<1>4. s \in ResponseState /\ StateSound(s) /\ Ordered(s, <<>>)
    BY <1>1, <1>3, ResponseIs
<1>5. t \in ResponseState /\ t.worker = s.worker /\ t.cancelled
    BY <1>3, <1>4, ClearedIs
<1>6. Becomes(r, t)
    BY <1>1 DEF Emptied, Becomes, Cleared
<1> HIDE DEF t
<1>7. /\ open' \in {0, open} /\ open' # r /\ (open' # 0 => silenced' = silenced)
      /\ silenced' \in {silenced, upto} /\ (silenced' # silenced => call[c].op = "interrupt")
      /\ UNCHANGED <<current, turn, closed, slipped>>
    BY <1>1, <1>3 DEF Responses
<1>8. silenced \in 0..MaxResponses /\ upto \in 0..MaxResponses
    BY <1>3, InvIs, TypeIs DEF CallState
<1>9. Control'
    BY <1>1, <1>2, <1>3, <1>5, <1>6, <1>7, IdleIs, ControlEnds
<1> QED
    BY <1>1, <1>2, <1>7, <1>8, <1>9, EndingCalls

LEMMA CloseEndsKeeps ==
    ASSUME BridgeInv, CloseEnds
    PROVE  BridgeInv'
<1> DEFINE c == "controller"
           r == call[c].old
           s == state[r]
           t == Cleared(s)
           k == [Idle EXCEPT !.at = "stopped"]
<1>1. /\ call[c].at \in {"awaiting", "clearing"} /\ call[c].op = "close" /\ LockFree(r)
      /\ state' = Emptied(r) /\ open' = OpenAfter(r) /\ Does(c, k)
      /\ UNCHANGED <<incremental, current, turn, closed, slipped, silenced>>
    BY DEF CloseEnds, CancelEnds, WorkerIsGone, Controller, clientVars
<1>2. Cancelling(c) /\ c \in Callers
    BY <1>1 DEF Cancelling, Callers
<1>3. r \in Responses /\ s.worker # "none" /\ s.cancelled
    BY <1>2, CancellingIs
<1>4. s \in ResponseState /\ StateSound(s) /\ Ordered(s, <<>>)
    BY <1>1, <1>3, ResponseIs
<1>5. t \in ResponseState /\ t.worker = s.worker /\ t.cancelled
    BY <1>3, <1>4, ClearedIs
<1>6. Becomes(r, t)
    BY <1>1 DEF Emptied, Becomes, Cleared
<1> HIDE DEF t
<1>7. /\ open' \in {0, open} /\ open' # r /\ (open' # 0 => silenced' = silenced)
      /\ silenced' \in {silenced, call[c].upto} /\ (silenced' # silenced => call[c].op = "interrupt")
      /\ UNCHANGED <<current, turn, closed, slipped>>
    BY <1>1, <1>3, OpenAfterIs
<1>8. silenced' \in 0..MaxResponses
    BY <1>1, InvIs, TypeIs
<1>9. k \in CallState
    BY IdleIs
<1>10. Control'
    BY <1>1, <1>2, <1>3, <1>5, <1>6, <1>7, <1>9, ControlEnds
<1>11. k \in {Idle, [Idle EXCEPT !.at = "stopped"]}
    OBVIOUS
<1> HIDE DEF k
<1> QED
    BY <1>1, <1>2, <1>7, <1>8, <1>10, <1>11, EndingCalls

-----------------------------------------------------------------------------
(***************************************************************************)
(* Responses that begin.                                                   *)
(***************************************************************************)

\* A response begins: the text of the service's turn, or what replaces an older one.
LEMMA ControlBegins ==
    ASSUME BridgeInv, NEW r \in Responses, current = 0, current' = r, r <= turn,
           NEW k \in CallState, Does("feeder", k), k.at = "putting", k.of = r, k.old = 0,
           k.op \in {"feed", "finish"},
           state'[r].worker \notin {"none", "done", "cleaning"},
           \A x \in Responses \ {r} : state'[x] = state[x] \/ Lasts(state[x], state'[x]),
           \/ ~Cancelling("feeder") /\ r = turn /\ ~closed
           \/ Replacing /\ r = Feeder.of,
           turn' \in Nat, turn <= turn',
           open' \in {0, open}, open' # 0 => state'[open'].segment /\ open' # Feeder.old,
           UNCHANGED <<closed, slipped, silenced>>
    PROVE  Control'
<1>1. /\ \A x \in Callers : CallSound(x)
      /\ CallsAgree /\ TurnsInOrder /\ Silences /\ SpeechIsHeard
      /\ InterruptSilences /\ NoSegmentLeftOpen
      /\ \A x \in Callers : ~Cancelling(x) => call[x].old = 0
      /\ Callers = {"feeder", "controller"} /\ Controller = call["controller"]
      /\ current \in 0..MaxResponses /\ open \in 0..MaxResponses
      /\ turn \in Nat /\ silenced \in Nat /\ MaxResponses \in Nat
      /\ state \in [Responses -> ResponseState] /\ call \in [Callers -> CallState]
    BY ControlIs
<1>2. call'["feeder"] = k /\ call'["controller"] = call["controller"] /\ Feeder' = k /\ Controller' = Controller
    BY <1>1 DEF Does, Feeder, Controller
<1>3. r \in Nat /\ r # 0 /\ \A x \in Responses : x \in Nat
    BY DEF Responses
<1>4. UNCHANGED <<closed, slipped, silenced>>
    OBVIOUS
<1>5. Later(r, silenced)
    BY <1>1, <1>3 DEF Silences, Later
<1>6. \A x \in Responses : x > r => state[x] = Unbegun
  <2>1. CASE r = turn
      BY <1>1, <2>1 DEF TurnsInOrder
  <2>2. CASE Replacing /\ r = Feeder.of
      BY <1>1, <1>3, <2>2 DEF TurnsInOrder
  <2> QED
      BY <2>1, <2>2
<1>7. Cancelling("controller") =>
         /\ Controller.op = "interrupt" /\ Controller.old \in Responses /\ Controller.old # r
         /\ Later(r, Controller.upto)
  <2> SUFFICES ASSUME Cancelling("controller")
               PROVE  /\ Controller.op = "interrupt" /\ Controller.old \in Responses /\ Controller.old # r
                      /\ Later(r, Controller.upto)
      OBVIOUS
  <2>1. /\ Controller.old \in Responses /\ (Controller.old < turn \/ closed)
        /\ state[Controller.old].worker # "none"
        /\ \/ Controller.op = "interrupt" /\ Controller.upto < turn
           \/ Controller.op = "close" /\ closed
        /\ Controller.upto \in 0..MaxResponses
      BY <1>1, CancellingIs DEF CallState
  <2>2. CASE r = turn /\ ~closed
      BY <1>1, <1>3, <2>1, <2>2 DEF Later
  <2>3. CASE Replacing /\ r = Feeder.of
    <3>1. Controller.op = "interrupt"
        BY <1>1, <2>1, <2>3 DEF CallsAgree
    <3>2. state[r] = Unbegun
        BY <1>1, <1>3, <2>3 DEF TurnsInOrder
    <3>3. Controller.old # r
        BY <2>1, <3>2 DEF Unbegun
    <3>4. Later(r, Controller.upto)
        BY <1>1, <2>3, <3>1 DEF Silences
    <3> QED
        BY <2>1, <3>1, <3>3, <3>4
  <2> QED
      BY <2>2, <2>3
<1>8. closed => Controller.at = "stopped" /\ r \in slipped
  <2> SUFFICES ASSUME closed, Replacing, r = Feeder.of
               PROVE  Controller.at = "stopped" /\ r \in slipped
      OBVIOUS
  <2> QED
      BY <1>1 DEF CallsAgree
<1>9. open' # 0 => Cancelling("controller") /\ Controller.old = open' /\ open' = open
  <2> SUFFICES ASSUME open' # 0
               PROVE  Cancelling("controller") /\ Controller.old = open' /\ open' = open
      OBVIOUS
  <2>1. open' = open /\ open # Feeder.old
      OBVIOUS
  <2>2. \E c \in Callers : call[c].old = open
      BY <1>1, <2>1 DEF NoSegmentLeftOpen
  <2>3. Controller.old = open
      BY <1>1, <2>1, <2>2 DEF Feeder
  <2> QED
      BY <1>1, <2>1, <2>3
<1>10. ~Cancelling("feeder")' /\ ~Replacing' /\ (Cancelling("controller")' <=> Cancelling("controller"))
    BY <1>2 DEF Cancelling, Replacing
<1>11. \A x \in Callers : CallSound(x)'
  <2>1. CallSound("feeder")'
    <3>1. r \in 1..turn'
        BY <1>1, <1>3
    <3> QED
        BY <1>2, <3>1, FeederCalls
  <2>2. CallSound("controller")'
    <3> DEFINE x == "controller"
    <3>1. /\ x \in Callers /\ call'[x] = call[x] /\ CallSound(x) /\ TypeOK
          /\ (closed => closed')
        BY <1>1, <1>2, <1>4, InvIs
    <3>2. Cancelling(x) =>
             LET o == call[x].old IN
             /\ o # current' /\ (state'[o] = state[o] \/ Lasts(state[o], state'[o]))
             /\ x = "controller" /\ current = 0 /\ call[x].op = "close" => current' = 0
        BY <1>1, <1>7
    <3>3. call[x].at = "putting" => state'[call[x].of].worker # "none"
        BY <3>1 DEF CallSound
    <3> QED
        BY <3>1, <3>2, <3>3, CallStays
  <2> QED
      BY <1>1, <2>1, <2>2
<1>12. CallsAgree'
    BY <1>2, <1>4, <1>8, <1>10 DEF CallsAgree
<1>13. TurnsInOrder'
  <2>1. current' <= turn'
      BY <1>1, <1>3
  <2>2. ASSUME NEW x \in Responses, x > turn' \/ x > current'
        PROVE  state'[x] = Unbegun
    <3>1. x > r
      <4>1. x > turn' => x > turn
          BY <1>1, <1>3
      <4>2. x > turn => x > r
          BY <1>1, <1>3
      <4> QED
          BY <2>2, <4>1, <4>2
    <3>2. state[x] = Unbegun /\ x # r
        BY <1>3, <1>6, <3>1
    <3> QED
        BY <3>2 DEF Lasts, Unbegun
  <2> QED
      BY <1>10, <2>1, <2>2 DEF TurnsInOrder
<1>14. Silences'
  <2>1. silenced' < turn'
      BY <1>1, <1>4 DEF Silences
  <2>2. Later(current, silenced)'
      BY <1>4, <1>5 DEF Later
  <2>3. ASSUME NEW x \in Callers, Cancelling(x)', call'[x].op = "interrupt"
        PROVE  Later(current, call[x].upto)'
    <3>1. x = "controller" /\ Cancelling("controller")
        BY <1>1, <1>10, <2>3
    <3> QED
        BY <1>1, <1>2, <1>4, <1>7, <3>1 DEF Later
  <2> QED
      BY <1>10, <2>1, <2>2, <2>3 DEF Silences
<1>15. SpeechIsHeard'
    BY <1>2, <1>7, <1>9 DEF SpeechIsHeard
<1>16. InterruptSilences'
    BY <1>1, <1>2, <1>4, <1>8, <1>11 DEF InterruptSilences, CallSound
<1>17. NoSegmentLeftOpen'
  <2> SUFFICES ASSUME open' # 0
               PROVE  \E x \in Callers : call'[x].old = open'
      BY DEF NoSegmentLeftOpen
  <2>1. call'["controller"].old = open' /\ "controller" \in Callers
      BY <1>1, <1>2, <1>9
  <2> QED
      BY <2>1
<1> QED
    BY <1>11, <1>12, <1>13, <1>14, <1>15, <1>16, <1>17 DEF Control, EndsInSilence

LEMMA TextBeginsKeeps ==
    ASSUME BridgeInv, NEW op \in {"feed", "finish"}, TextBegins(op)
    PROVE  BridgeInv'
<1> DEFINE r == turn
           s == state[r]
<1>1. /\ Feeder.at = "idle" /\ turn <= MaxResponses /\ ~closed /\ current = 0 /\ current' = turn
      /\ turn' = (IF op = "finish" THEN turn + 1 ELSE turn)
      /\ TakesText(op, r, Begun)
      /\ UNCHANGED <<incremental, closed, open, silenced, slipped>>
    BY DEF TextBegins, Feeds
<1>2. turn \in 1..(MaxResponses + 1) /\ MaxResponses \in Nat /\ Feeder = Idle
    BY <1>1, FeederIs
<1>3. /\ r \in Responses /\ r \in 0..MaxResponses /\ turn' \in 1..(MaxResponses + 1)
      /\ turn' \in Nat /\ turn <= turn' /\ r <= turn
    BY <1>1, <1>2 DEF Responses
<1>4. PICK out \in Text(op, Begun) :
          /\ Becomes(r, out.new)
          /\ Does("feeder", [Idle EXCEPT !.at = "putting", !.op = op, !.of = r, !.rest = out.rest])
    BY <1>1, BegunIs DEF TakesText
<1> DEFINE t == out.new
           w == out.rest
           k == Putting(op, r, w)
<1>5. /\ t \in ResponseState /\ StateSound(t) /\ Ordered(t, w) /\ w \in Queued
      /\ t.worker = "waiting" /\ t.flush = "none"
    BY BegunIs, TextIs
<1>6. Becomes(r, t) /\ Does("feeder", k)
    BY <1>4 DEF Putting
<1> HIDE DEF t, w
<1>7. k \in CallState /\ k.at = "putting" /\ k.op = op /\ k.of = r /\ k.rest = w /\ k.old = 0
    BY <1>3, <1>5, PuttingIs
<1> HIDE DEF k
<1>8. call' \in [Callers -> CallState] /\ call'["feeder"] = k
    BY <1>6, <1>7, FeederIs DEF Does
<1>9. Feeder.at # "putting" /\ Feeder.old = 0 /\ ~Cancelling("feeder")
    BY <1>1, <1>2, IdleIs DEF Cancelling, Feeder
<1>10. ComingTo(k, r, t) = w
    BY <1>7 DEF ComingTo
<1>11. /\ state' \in [Responses -> ResponseState]
       /\ state'[r] = t /\ \A x \in Responses \ {r} : state'[x] = state[x]
       /\ \A x \in Responses : ResponseSound(x)'
       /\ \A x \in Responses : Len(state'[x].queue) <= Capacity
  <2>1. /\ TypeOK /\ (\A x \in Responses : ResponseSound(x))
        /\ ~(k.at = "putting" /\ k.of = r /\ t.flush \in {"putting", "cut"})
        /\ (Feeder.at = "putting" => Feeder.of = r) /\ (k.at = "putting" => k.of = r)
        /\ Ordered(t, ComingTo(k, r, t))
      BY <1>5, <1>7, <1>9, <1>10, InvIs
  <2> QED
      BY <1>3, <1>5, <1>6, <1>7, <1>8, <2>1, OneChanges
<1>12. /\ open \in 0..MaxResponses /\ silenced \in 0..MaxResponses /\ slipped \subseteq Responses
       /\ incremental \in BOOLEAN /\ closed \in BOOLEAN
    BY InvIs, TypeIs
<1>13. open # 0 => state'[open].segment
  <2> SUFFICES ASSUME open # 0
               PROVE  state'[open].segment
      OBVIOUS
  <2>1. /\ NoSegmentLeftOpen /\ Callers = {"feeder", "controller"} /\ open \in Responses /\ state[open].segment
        /\ \A x \in Callers : ~Cancelling(x) => call[x].old = 0
      BY <1>2, ControlIs, OpenAfterIs, <1>3
  <2>2. PICK x \in Callers : call[x].old = open
      BY <1>1, <2>1 DEF NoSegmentLeftOpen
  <2>3. Cancelling(x)
      BY <2>1, <2>2
  <2>4. open < turn
      BY <1>1, <2>2, <2>3, CancellingIs
  <2>5. open # r
      BY <1>3, <2>4
  <2> QED
      BY <1>11, <2>1, <2>5
<1>14. Control'
  <2>1. /\ current' = r /\ open' \in {0, open} /\ (open' # 0 => state'[open'].segment /\ open' # Feeder.old)
        /\ UNCHANGED <<closed, slipped, silenced>>
      BY <1>1, <1>9, <1>13
  <2>2. /\ \A x \in Responses \ {r} : state'[x] = state[x] \/ Lasts(state[x], state'[x])
        /\ state'[r].worker \notin {"none", "done", "cleaning"}
      BY <1>5, <1>11
  <2> QED
      BY <1>1, <1>3, <1>6, <1>7, <1>9, <2>1, <2>2, ControlBegins
<1>15. TypeOK'
    BY <1>1, <1>3, <1>8, <1>11, <1>12, TypeKept
<1> QED
    BY <1>11, <1>14, <1>15 DEF BridgeInv

LEMMA TextStartsKeeps ==
    ASSUME BridgeInv, TextStarts
    PROVE  BridgeInv'
<1> DEFINE r == Feeder.of
           o == Feeder.old
           op == Feeder.op
<1>1. /\ Feeder.at \in {"awaiting", "clearing"} /\ op \in {"feed", "finish"} /\ LockFree(o)
      /\ current' = r /\ open' = OpenAfter(o)
      /\ UNCHANGED <<incremental, turn, closed, slipped, silenced>>
    BY DEF TextStarts, CancelEnds, WorkerIsGone, Feeder, clientVars
<1>2. PICK out \in Text(op, Begun) :
          /\ state' = [Emptied(o) EXCEPT ![r] = out.new]
          /\ Does("feeder", [Idle EXCEPT !.at = "putting", !.op = op, !.of = r, !.rest = out.rest])
    BY DEF TextStarts
<1> DEFINE t == out.new
           w == out.rest
           k == Putting(op, r, w)
           d == Cleared(state[o])
<1>3. Replacing /\ Cancelling("feeder") /\ "feeder" \in Callers
    BY <1>1 DEF Replacing, Cancelling, Feeder, Callers
<1>4. o \in Responses /\ state[o].worker # "none" /\ state[o].cancelled
    BY <1>3, CancellingIs DEF Feeder
<1>5. current = 0 /\ r \in Responses /\ r <= turn /\ o < r
    BY <1>3, <1>4, ControlIs DEF CallsAgree, Responses
<1>6. o # r /\ r \in 0..MaxResponses
    BY <1>4, <1>5, ControlIs DEF Responses
<1>7. /\ t \in ResponseState /\ StateSound(t) /\ Ordered(t, w) /\ w \in Queued
      /\ t.worker = "waiting" /\ t.flush = "none"
    BY <1>1, BegunIs, TextIs
<1>8. Does("feeder", k) /\ state' = [Emptied(o) EXCEPT ![r] = t]
    BY <1>2 DEF Putting
<1> HIDE DEF t, w
<1>9. k \in CallState /\ k.at = "putting" /\ k.op = op /\ k.of = r /\ k.rest = w /\ k.old = 0
    BY <1>1, <1>5, <1>7, PuttingIs
<1> HIDE DEF k
<1>10. call' \in [Callers -> CallState] /\ call'["feeder"] = k
    BY <1>8, <1>9, FeederIs DEF Does
<1>11. state[o] \in ResponseState /\ StateSound(state[o]) /\ Ordered(state[o], <<>>)
    BY <1>1, <1>4, ResponseIs
<1>12. /\ d \in ResponseState /\ StateSound(d) /\ Ordered(d, <<>>)
       /\ d.worker = state[o].worker /\ d.cancelled /\ d.flush = state[o].flush
    BY <1>4, <1>11, ClearedIs
<1>13. d.flush \notin {"putting", "cut"}
    BY <1>1, <1>12 DEF LockFree
<1>14. Emptied(o) = [state EXCEPT ![o] = d]
    BY DEF Emptied, Cleared
<1> HIDE DEF d
<1>15. /\ state' \in [Responses -> ResponseState] /\ state'[r] = t /\ state'[o] = d
       /\ \A x \in Responses : x # r /\ x # o => state'[x] = state[x]
    BY <1>4, <1>5, <1>6, <1>7, <1>8, <1>12, <1>14, InvIs, TypeIs
<1>16. ASSUME NEW x \in Responses
       PROVE  ResponseSound(x)'
  <2>1. Feeder' = k
      BY <1>10 DEF Feeder
  <2>2. CASE x = r
    <3>1. Coming(x)' = w
        BY <1>9, <2>1, <2>2 DEF Coming, ComingTo
    <3>2. OnePuts(x)'
        BY <1>7, <1>15, <2>2 DEF OnePuts
    <3> QED
        BY <1>7, <1>15, <2>2, <3>1, <3>2 DEF ResponseSound
  <2>3. CASE x = o
    <3>1. Coming(x)' = <<>>
        BY <1>6, <1>9, <1>13, <1>15, <2>1, <2>3 DEF Coming, ComingTo
    <3>2. OnePuts(x)'
        BY <1>13, <1>15, <2>3 DEF OnePuts
    <3> QED
        BY <1>12, <1>15, <2>3, <3>1, <3>2 DEF ResponseSound
  <2>4. CASE x # r /\ x # o
    <3>1. state'[x] = state[x] /\ ResponseSound(x)
        BY <1>15, <2>4, InvIs
    <3>2. Coming(x)' = Coming(x) /\ ~FeederPuts(x)'
        BY <1>1, <1>9, <2>1, <2>4, <3>1 DEF Coming, ComingTo, FeederPuts
    <3> QED
        BY <3>1, <3>2 DEF ResponseSound, OnePuts
  <2> QED
      BY <2>2, <2>3, <2>4
<1>17. \A x \in Responses : Len(state'[x].queue) <= Capacity
    BY <1>16 DEF ResponseSound, StateSound
<1>18. /\ open \in 0..MaxResponses /\ silenced \in 0..MaxResponses /\ slipped \subseteq Responses
       /\ incremental \in BOOLEAN /\ closed \in BOOLEAN /\ turn \in 1..(MaxResponses + 1)
       /\ 0 \in 0..MaxResponses /\ turn \in Nat
    BY InvIs, TypeIs
<1>19. /\ open' \in {0, open} /\ open' # o
       /\ open' # 0 => open' \in Responses /\ state[open'].segment
    BY <1>1, <1>4, OpenAfterIs
<1>20. state[r] = Unbegun
    BY <1>3, <1>5, <1>18, ControlIs DEF TurnsInOrder, Responses
<1>21. open' # 0 => state'[open'].segment
    BY <1>15, <1>19, <1>20, BegunIs
<1>22. Control'
  <2>1. \A x \in Responses \ {r} : state'[x] = state[x] \/ Lasts(state[x], state'[x])
      BY <1>4, <1>12, <1>15 DEF Lasts
  <2>2. /\ turn' \in Nat /\ turn <= turn' /\ UNCHANGED <<closed, slipped, silenced>>
        /\ (open' # 0 => state'[open'].segment /\ open' # Feeder.old)
        /\ state'[r].worker \notin {"none", "done", "cleaning"}
      BY <1>1, <1>7, <1>15, <1>18, <1>19, <1>21
  <2>3. k.op \in {"feed", "finish"}
      BY <1>1, <1>9
  <2> HIDE DEF r
  <2>4. r = Feeder.of
      BY DEF r
  <2> QED
      BY <1>1, <1>3, <1>5, <1>8, <1>9, <1>19, <2>1, <2>2, <2>3, <2>4, ControlBegins
<1>23. TypeOK'
  <2>1. open' \in 0..MaxResponses /\ current' \in 0..MaxResponses /\ turn' \in 1..(MaxResponses + 1)
        /\ silenced' \in 0..MaxResponses /\ slipped' \subseteq Responses
        /\ incremental' \in BOOLEAN /\ closed' \in BOOLEAN
      BY <1>1, <1>6, <1>18, <1>19
  <2> QED
      BY <1>10, <1>15, <1>17, <2>1, TypeKept
<1> QED
    BY <1>16, <1>22, <1>23 DEF BridgeInv

-----------------------------------------------------------------------------
(***************************************************************************)
(* Responses that are cancelled.                                           *)
(***************************************************************************)

LEMMA ControlCancels ==
    ASSUME BridgeInv, NEW c \in Callers, call[c].at = "idle", ~closed,
           NEW r \in Responses, r = current,
           NEW t \in ResponseState, Becomes(r, t), t.worker # "none", t.cancelled,
           t.segment = state[r].segment,
           NEW k \in CallState, Does(c, k), k.at \in {"flushing", "awaiting"}, k.old = r,
           \/ k.op = "interrupt" /\ k.upto < turn' /\ closed' = closed
           \/ /\ c = "feeder" /\ k.op \in {"feed", "finish"} /\ closed' = closed
              /\ k.of = turn /\ r < turn /\ turn \in Responses
           \/ c = "controller" /\ k.op = "close" /\ closed',
           turn' \in Nat, turn <= turn', r < turn' \/ closed',
           current' = 0, UNCHANGED <<slipped, open, silenced>>
    PROVE  Control'
<1>1. /\ \A x \in Callers : CallSound(x)
      /\ CallsAgree /\ TurnsInOrder /\ Silences /\ SpeechIsHeard
      /\ InterruptSilences /\ NoSegmentLeftOpen
      /\ \A x \in Callers : ~Cancelling(x) => call[x].old = 0
      /\ Callers = {"feeder", "controller"} /\ Controller = call["controller"]
      /\ current \in 0..MaxResponses /\ open \in 0..MaxResponses
      /\ turn \in Nat /\ silenced \in Nat /\ MaxResponses \in Nat
      /\ state \in [Responses -> ResponseState] /\ call \in [Callers -> CallState]
    BY ControlIs
<1>2. call'[c] = k /\ \A x \in Callers \ {c} : call'[x] = call[x]
    BY <1>1 DEF Does
<1>3. state'[r] = t /\ \A x \in Responses \ {r} : state'[x] = state[x]
    BY <1>1 DEF Becomes
<1>4. state[r].worker # "none" /\ r # 0 /\ r \in Nat
    BY <1>1 DEF TurnsInOrder, Responses
<1>5. Lasts(state[r], t)
    BY <1>4 DEF Lasts
<1>6. UNCHANGED <<slipped, open, silenced>>
    OBVIOUS
<1>7. ~Replacing
  <2>1. Feeder.old = 0
      BY <1>1, <1>4 DEF CallsAgree
  <2> QED
      BY <1>1, <2>1, CancellingIs DEF Replacing, Feeder, Responses
<1>8. Controller.at # "stopped" /\ (Cancelling("controller") => Controller.op = "interrupt")
  <2>1. CallSound("controller")
      BY <1>1
  <2> QED
      BY <1>1, <2>1 DEF CallSound
<1>9. Replacing' => /\ c = "feeder" /\ k.op \in {"feed", "finish"} /\ closed' = closed
                    /\ Feeder' = k /\ k.of = turn /\ r < turn /\ turn \in Responses
  <2>1. CASE c = "feeder"
    <3>1. Feeder' = k
        BY <1>2, <2>1 DEF Feeder
    <3> QED
        BY <2>1, <3>1 DEF Replacing
  <2>2. CASE c # "feeder"
      BY <1>1, <1>2, <1>7, <2>2 DEF Replacing, Cancelling, Feeder
  <2> QED
      BY <2>1, <2>2
<1>10. Cancelling(c)' /\ ~Cancelling(c)
    BY <1>2 DEF Cancelling
<1>11. \A x \in Callers : CallSound(x)'
  <2>1. CallSound(c)'
    <3>1. /\ k.old \in Responses /\ k.old # current' /\ (k.old < turn' \/ closed')
          /\ state'[k.old].worker # "none" /\ state'[k.old].cancelled
        BY <1>3, <1>4
    <3>2. \/ k.op = "interrupt" /\ k.upto < turn'
          \/ c = "feeder" /\ Replacing'
          \/ c = "controller" /\ k.op = "close" /\ closed' /\ current' = 0
        BY <1>2, <1>10 DEF Replacing, Feeder
    <3> QED
        BY <1>2, <3>1, <3>2 DEF CallSound
  <2>2. ASSUME NEW x \in Callers, x # c
        PROVE  CallSound(x)'
    <3>1. call'[x] = call[x] /\ CallSound(x) /\ TypeOK
        BY <1>1, <1>2, <2>2, InvIs
    <3>2. Cancelling(x) =>
             LET y == call[x].old IN
             /\ y # current' /\ (state'[y] = state[y] \/ Lasts(state[y], state'[y]))
             /\ x = "controller" /\ current = 0 /\ call[x].op = "close" => current' = 0
      <4> SUFFICES ASSUME Cancelling(x)
                   PROVE  LET y == call[x].old IN
                          /\ y # current' /\ (state'[y] = state[y] \/ Lasts(state[y], state'[y]))
                          /\ x = "controller" /\ current = 0 /\ call[x].op = "close" => current' = 0
          OBVIOUS
      <4>1. call[x].old \in Responses
          BY CancellingIs
      <4> QED
          BY <1>3, <1>5, <4>1 DEF Responses
    <3>3. call[x].at = "putting" => state'[call[x].of].worker # "none"
      <4> SUFFICES ASSUME call[x].at = "putting"
                   PROVE  state'[call[x].of].worker # "none"
          OBVIOUS
      <4>1. call[x].of \in Responses /\ state[call[x].of].worker # "none"
          BY <3>1 DEF CallSound
      <4> QED
          BY <1>3, <4>1
    <3> QED
        BY <3>1, <3>2, <3>3, CallStays
  <2> QED
      BY <2>1, <2>2
<1>12. CallsAgree'
  <2>1. Feeder'.old # 0 => current' = 0
      OBVIOUS
  <2>2. Replacing' => Feeder'.of \in Responses /\ Feeder'.of <= turn' /\ Feeder'.old < Feeder'.of
      BY <1>9
  <2>3. Controller'.op = "close" => ~Replacing'
    <3> SUFFICES ASSUME Replacing'
                 PROVE  Controller'.op # "close"
        OBVIOUS
    <3>1. c = "feeder" /\ Controller' = Controller /\ ~closed
        BY <1>1, <1>2, <1>9 DEF Controller
    <3>2. CASE Cancelling("controller")
        BY <1>8, <3>1, <3>2
    <3>3. CASE ~Cancelling("controller")
      <4>1. CallSound("controller") /\ Controller.at \in Places
          BY <1>1 DEF CallState
      <4> QED
          BY <1>1, <3>1, <3>3, <4>1 DEF CallSound, Cancelling, Places, Idle
    <3> QED
        BY <3>2, <3>3
  <2>4. closed' => /\ Controller'.at = "stopped" \/ (Cancelling("controller")' /\ Controller'.op = "close")
                   /\ current' \in slipped' \cup {0}
                   /\ Replacing' => Feeder'.of \in slipped'
    <3> SUFFICES ASSUME closed'
                 PROVE  Cancelling("controller")' /\ Controller'.op = "close" /\ ~Replacing'
        OBVIOUS
    <3>1. c = "controller" /\ k.op = "close"
        OBVIOUS
    <3> QED
        BY <1>2, <1>9, <1>10, <3>1 DEF Controller
  <2> QED
      BY <2>1, <2>2, <2>3, <2>4 DEF CallsAgree
<1>13. TurnsInOrder'
  <2>1. current' <= turn'
      BY <1>1
  <2>2. ASSUME NEW x \in Responses, x > turn' \/ (Replacing' /\ x >= Feeder'.of)
        PROVE  state'[x] = Unbegun
    <3>1. x > turn' => x > turn
        BY <1>1 DEF Responses
    <3>2. Replacing' /\ x >= Feeder'.of => x > current
        BY <1>1, <1>4, <1>9 DEF Responses
    <3>3. state[x] = Unbegun
        BY <1>1, <1>4, <2>2, <3>1, <3>2 DEF TurnsInOrder
    <3>4. x # r
        BY <1>4, <3>3 DEF Unbegun
    <3> QED
        BY <1>3, <3>3, <3>4
  <2> QED
      BY <2>1, <2>2 DEF TurnsInOrder
<1>14. Silences'
  <2>1. open' # 0 => state'[open'].segment
      BY <1>1, <1>3, <1>6 DEF Silences, Responses
  <2>2. silenced' < turn'
      BY <1>1, <1>6 DEF Silences
  <2>3. Later(current, silenced)' /\ (Replacing' => Later(Feeder.of, silenced)')
      BY <1>1, <1>6, <1>9 DEF Silences, Later
  <2>4. ASSUME NEW x \in Callers, Cancelling(x)', call'[x].op = "interrupt"
        PROVE  Later(current, call[x].upto)' /\ (Replacing' => Later(Feeder.of, call[x].upto)')
    <3>1. Later(current, call[x].upto)'
        BY DEF Later
    <3>2. ASSUME Replacing'
          PROVE  Later(Feeder.of, call[x].upto)'
      <4>1. c = "feeder" /\ k.op # "interrupt" /\ Feeder'.of = turn
          BY <1>9, <3>2
      <4>2. x # c
          BY <1>2, <2>4, <4>1
      <4>3. call'[x] = call[x] /\ Cancelling(x) /\ call[x].op = "interrupt"
          BY <1>2, <2>4, <4>2 DEF Cancelling
      <4>4. call[x].upto < turn /\ call[x].upto \in 0..MaxResponses
          BY <1>1, <4>3, CancellingIs DEF Replacing, Feeder, CallState
      <4>5. turn > call[x].upto
          BY <1>1, <4>4
      <4> QED
          BY <4>1, <4>3, <4>5 DEF Later
    <3> QED
        BY <3>1, <3>2
  <2> QED
      BY <2>1, <2>2, <2>3, <2>4 DEF Silences
<1>15. SpeechIsHeard'
    BY DEF SpeechIsHeard
<1>16. InterruptSilences'
  <2>1. open' > silenced' \/ open' \in slipped' \cup {0}
      BY <1>1, <1>6 DEF InterruptSilences
  <2> QED
      BY <2>1 DEF InterruptSilences
<1>17. NoSegmentLeftOpen'
  <2> SUFFICES ASSUME open # 0
               PROVE  \E x \in Callers : call'[x].old = open
      BY <1>6 DEF NoSegmentLeftOpen
  <2>1. CASE open = current
      BY <1>2, <2>1
  <2>2. CASE open # current
    <3>1. PICK x \in Callers : call[x].old = open
        BY <1>1, <2>2 DEF NoSegmentLeftOpen
    <3>2. x # c
        BY <1>1, <1>10, <3>1
    <3> QED
        BY <1>2, <3>1, <3>2
  <2> QED
      BY <2>1, <2>2
<1> QED
    BY <1>11, <1>12, <1>13, <1>14, <1>15, <1>16, <1>17 DEF Control, EndsInSilence

\* The response under way is cancelled, up to the first await.
LEMMA CancelsKeeps ==
    ASSUME BridgeInv, NEW c \in Callers, call[c].at = "idle", current # 0, ~closed,
           NEW op \in {"feed", "finish", "interrupt", "close"},
           NEW of \in 0..MaxResponses, NEW upto \in 0..MaxResponses,
           Cancels(c, op, of, upto),
           \/ op = "interrupt" /\ upto < turn' /\ closed' = closed
           \/ /\ c = "feeder" /\ op \in {"feed", "finish"} /\ closed' = closed
              /\ of = turn /\ current < turn /\ turn \in Responses
           \/ c = "controller" /\ op = "close" /\ closed',
           turn' \in 1..(MaxResponses + 1), turn <= turn', current < turn' \/ closed', closed' \in BOOLEAN,
           UNCHANGED <<incremental, slipped, open, silenced>>
    PROVE  BridgeInv'
<1> DEFINE r == current
           s == state[r]
           q == Coming(r)
           k0 == [Idle EXCEPT !.op = op, !.of = of, !.old = current, !.upto = upto]
           t == IF FlushAlive(s) THEN Cancelled(s) ELSE WorkerCancelled(Cancelled(s))
           k == IF FlushAlive(s) THEN [k0 EXCEPT !.at = "flushing"] ELSE [k0 EXCEPT !.at = "awaiting"]
           f == IF c = "feeder" THEN k ELSE Feeder
<1>1. Becomes(r, t) /\ Does(c, k) /\ current' = 0
    BY DEF Cancels
<1>2. /\ incremental \in BOOLEAN /\ current \in 0..MaxResponses /\ open \in 0..MaxResponses
      /\ silenced \in 0..MaxResponses /\ slipped \subseteq Responses /\ MaxResponses \in Nat
      /\ 0 \in 0..MaxResponses
    BY InvIs, TypeIs
<1>3. r \in Responses
    BY <1>2 DEF Responses
<1>4. /\ s \in ResponseState /\ StateSound(s) /\ q \in Queued /\ Ordered(s, q) /\ ComesFrom(s, q)
      /\ s.worker \notin {"none", "done", "cleaning"}
      /\ (FeederPuts(r) => s.flush \notin {"putting", "cut"})
      /\ (~FeederPuts(r) /\ s.flush # "putting" => q = <<>>)
    BY <1>3, ResponseIs
<1> HIDE DEF q
<1>5. /\ Cancelled(s) \in ResponseState /\ LikeBut(s, Cancelled(s)) /\ Cancelled(s).cancelled
      /\ Cancelled(s).flush \in {"none", "cut"}
      /\ Cancelled(s).flush = "cut" <=> s.flush \in {"putting", "cut"}
      /\ StateSound(Cancelled(s)) /\ Ordered(Cancelled(s), Left(s, q)) /\ Left(s, q) \in Queued
    BY <1>4, CancelledIs
<1>6. /\ t \in ResponseState /\ StateSound(t) /\ Ordered(t, Left(s, q))
      /\ t.worker # "none" /\ t.cancelled /\ t.segment = s.segment
      /\ t.flush \in {"none", "cut"}
      /\ t.flush = "cut" <=> s.flush \in {"putting", "cut"}
  <2>1. CASE FlushAlive(s)
    <3>1. t = Cancelled(s)
        BY <2>1
    <3> HIDE DEF t
    <3> QED
        BY <1>4, <1>5, <3>1 DEF LikeBut
  <2>2. CASE ~FlushAlive(s)
    <3>1. t = WorkerCancelled(Cancelled(s))
        BY <2>2
    <3> DEFINE u == Cancelled(s)
    <3>2. u.worker # "none" /\ u.segment = s.segment
        BY <1>4, <1>5 DEF LikeBut
    <3>3. /\ u \in ResponseState /\ StateSound(u) /\ Ordered(u, Left(s, q)) /\ u.cancelled
          /\ Left(s, q) \in Queued
        BY <1>5
    <3> HIDE DEF u
    <3>4. LET z == WorkerCancelled(u) IN
          /\ z \in ResponseState /\ StateSound(z) /\ Ordered(z, Left(s, q))
          /\ z.worker # "none" /\ z.cancelled /\ z.segment = u.segment /\ z.flush = u.flush
        BY <3>2, <3>3, WorkerCancelledIs
    <3>5. t = WorkerCancelled(u)
        BY <3>1 DEF u
    <3>6. u.flush \in {"none", "cut"} /\ (u.flush = "cut" <=> s.flush \in {"putting", "cut"})
        BY <1>5 DEF u
    <3> HIDE DEF t
    <3> QED
        BY <3>2, <3>4, <3>5, <3>6
  <2> QED
      BY <2>1, <2>2
<1> HIDE DEF t
<1>7. /\ k0 \in CallState /\ k0.op = op /\ k0.of = of /\ k0.old = r /\ k0.upto = upto
    BY <1>2, IdleIs DEF CallState, Places, Idle
<1> HIDE DEF k0
<1>8. /\ k \in CallState /\ k.at \in {"flushing", "awaiting"} /\ k.op = op /\ k.of = of
      /\ k.old = r /\ k.upto = upto
    BY <1>7 DEF CallState, Places
<1> HIDE DEF k
<1>9. call' \in [Callers -> CallState] /\ call'["feeder"] = f /\ f \in CallState
    BY <1>1, <1>8, FeederIs DEF Does
<1>10. f = Feeder \/ ((Feeder.at = "putting" => Feeder.of = r) /\ (f.at = "putting" => f.of = r))
  <2>1. CASE c = "feeder"
      BY <1>8, <2>1, FeederIs
  <2>2. CASE c # "feeder"
      BY <2>2
  <2> QED
      BY <2>1, <2>2
<1>11. Ordered(t, ComingTo(f, r, t)) /\ ~(f.at = "putting" /\ f.of = r /\ t.flush \in {"putting", "cut"})
  <2>1. CASE c = "feeder"
    <3>1. f = k /\ ~FeederPuts(r)
        BY <2>1, FeederIs DEF FeederPuts
    <3>2. ComingTo(f, r, t) = <<>>
        BY <1>6, <1>8, <3>1 DEF ComingTo
    <3>3. Left(s, q) = <<>>
        BY <1>4, <3>1 DEF Left
    <3> QED
        BY <1>6, <1>8, <3>1, <3>2, <3>3
  <2>2. CASE c # "feeder"
    <3>1. f = Feeder
        BY <2>2
    <3>2. ComingTo(Feeder, r, t) = Left(s, q)
        BY <1>3, <1>4, <1>6, ComesStill DEF q
    <3>3. ~(FeederPuts(r) /\ t.flush \in {"putting", "cut"})
        BY <1>4, <1>6
    <3> QED
        BY <1>6, <3>1, <3>2, <3>3 DEF FeederPuts
  <2> QED
      BY <2>1, <2>2
<1> HIDE DEF f
<1>12. /\ state' \in [Responses -> ResponseState]
       /\ \A x \in Responses : ResponseSound(x)'
       /\ \A x \in Responses : Len(state'[x].queue) <= Capacity
    BY <1>1, <1>3, <1>6, <1>9, <1>10, <1>11, OneChanges, InvIs
<1>13. Control'
  <2>1. \/ k.op = "interrupt" /\ k.upto < turn' /\ closed' = closed
        \/ /\ c = "feeder" /\ k.op \in {"feed", "finish"} /\ closed' = closed
           /\ k.of = turn /\ r < turn /\ turn \in Responses
        \/ c = "controller" /\ k.op = "close" /\ closed'
      BY <1>8
  <2>2. turn' \in Nat /\ turn <= turn' /\ (r < turn' \/ closed') /\ UNCHANGED <<slipped, open, silenced>>
      BY <1>2
  <2> QED
      BY <1>1, <1>3, <1>6, <1>8, <2>1, <2>2, ControlCancels
<1>14. TypeOK'
  <2>1. /\ open' \in 0..MaxResponses /\ current' \in 0..MaxResponses
        /\ silenced' \in 0..MaxResponses /\ slipped' \subseteq Responses /\ incremental' \in BOOLEAN
      BY <1>1, <1>2
  <2> QED
      BY <1>9, <1>12, <2>1, TypeKept
<1> QED
    BY <1>12, <1>13, <1>14 DEF BridgeInv

LEMMA TextReplacesKeeps ==
    ASSUME BridgeInv, NEW op \in {"feed", "finish"}, TextReplaces(op)
    PROVE  BridgeInv'
<1>1. /\ Feeder.at = "idle" /\ turn <= MaxResponses /\ ~closed /\ current # 0 /\ current # turn
      /\ turn' = (IF op = "finish" THEN turn + 1 ELSE turn)
      /\ Cancels("feeder", op, turn, 0)
      /\ UNCHANGED <<incremental, closed, open, silenced, slipped>>
    BY DEF TextReplaces, Feeds
<1>2. /\ turn \in 1..(MaxResponses + 1) /\ MaxResponses \in Nat /\ "feeder" \in Callers
      /\ call["feeder"].at = "idle"
    BY <1>1, FeederIs
<1>3. current <= turn /\ current \in 0..MaxResponses
    BY ControlIs DEF TurnsInOrder
<1>4. /\ turn \in Responses /\ turn \in 0..MaxResponses /\ 0 \in 0..MaxResponses
      /\ turn' \in 1..(MaxResponses + 1) /\ turn <= turn' /\ current < turn
    BY <1>1, <1>2, <1>3 DEF Responses
<1>5. current < turn'
    BY <1>1, <1>2, <1>3, <1>4
<1>6. closed' = closed /\ closed' \in BOOLEAN /\ UNCHANGED <<incremental, slipped, open, silenced>>
    BY <1>1, InvIs, TypeIs
<1> QED
    BY <1>1, <1>2, <1>4, <1>5, <1>6, CancelsKeeps

\* Whoever interrupts while a response is under way lets no text slip.
LEMMA NoneSlips ==
    ASSUME BridgeInv, current # 0, NEW c, Slips(c)
    PROVE  slipped' = slipped
    BY ControlIs DEF CallsAgree, Slips

LEMMA InterruptKeeps ==
    ASSUME BridgeInv, NEW c \in Callers, Interrupt(c)
    PROVE  BridgeInv'
<1>1. /\ call[c].at = "idle" /\ ~closed /\ Suppresses /\ Slips(c) /\ UNCHANGED <<incremental, closed>>
    BY DEF Interrupt
<1>2. /\ \A x \in Callers : CallSound(x)
      /\ CallsAgree /\ TurnsInOrder /\ Silences /\ SpeechIsHeard
      /\ InterruptSilences /\ NoSegmentLeftOpen
      /\ \A x \in Callers : ~Cancelling(x) => call[x].old = 0
      /\ Callers = {"feeder", "controller"} /\ Controller = call["controller"]
      /\ current \in 0..MaxResponses /\ open \in 0..MaxResponses
      /\ turn \in Nat /\ silenced \in Nat /\ MaxResponses \in Nat
      /\ state \in [Responses -> ResponseState] /\ call \in [Callers -> CallState]
    BY ControlIs
<1>3. /\ turn \in 1..(MaxResponses + 1) /\ slipped \subseteq Responses /\ incremental \in BOOLEAN
      /\ closed \in BOOLEAN /\ silenced \in 0..MaxResponses
    BY InvIs, TypeIs
<1>4. turn' = (IF TurnBegun THEN turn + 1 ELSE turn) /\ (TurnBegun => turn <= MaxResponses)
    BY <1>1 DEF Suppresses, TurnBegun
<1>5. turn' \in 1..(MaxResponses + 1) /\ turn <= turn'
    BY <1>2, <1>3, <1>4
<1>6. turn' - 1 \in 0..MaxResponses /\ turn' - 1 < turn' /\ turn' \in Nat
  <2> DEFINE m == turn'
  <2>1. m \in 1..(MaxResponses + 1) /\ MaxResponses \in Nat
      BY <1>2, <1>5
  <2> HIDE DEF m
  <2>2. m - 1 \in 0..MaxResponses /\ m - 1 < m /\ m \in Nat
      BY <2>1
  <2> QED
      BY <2>2 DEF m
<1>7. CASE current # 0
  <2>1. Cancels(c, "interrupt", 0, turn' - 1) /\ UNCHANGED <<open, silenced>>
      BY <1>7 DEF Interrupt
  <2>2. slipped' = slipped
      BY <1>1, <1>7, NoneSlips
  <2>3. current < turn'
    <3>1. current <= turn /\ current \in Responses /\ state[current].worker # "none"
        BY <1>2, <1>7 DEF TurnsInOrder, Responses
    <3>2. CASE current = turn
      <4>1. TurnBegun
          BY <1>2, <3>1, <3>2 DEF TurnBegun, Responses
      <4> QED
          BY <1>2, <1>4, <3>2, <4>1
    <3>3. CASE current # turn
      <4>1. current < turn
          BY <1>2, <3>1, <3>3
      <4> QED
          BY <1>2, <1>4, <4>1
    <3> QED
        BY <3>2, <3>3
  <2>4. 0 \in 0..MaxResponses /\ closed' = closed /\ closed' \in BOOLEAN
      BY <1>1, <1>2, <1>3
  <2>5. UNCHANGED <<incremental, slipped, open, silenced>>
      BY <1>1, <2>1, <2>2
  <2> DEFINE n == turn' - 1
  <2>6. n \in 0..MaxResponses /\ n < turn' /\ Cancels(c, "interrupt", 0, n)
      BY <1>6, <2>1
  <2> HIDE DEF n
  <2> QED
      BY <1>1, <1>5, <1>7, <2>3, <2>4, <2>5, <2>6, CancelsKeeps
<1>8. CASE current = 0
  <2> DEFINE n == turn' - 1
  <2>1. open' = 0 /\ silenced' = (IF n > silenced THEN n ELSE silenced) /\ UNCHANGED <<current, state, call>>
      BY <1>8 DEF Interrupt, Discards
  <2>2. n \in 0..MaxResponses /\ n < turn'
      BY <1>6
  <2> HIDE DEF n
  <2>3. UNCHANGED <<current, state, call>> /\ Feeder' = Feeder /\ Controller' = Controller
        /\ UNCHANGED <<incremental, closed>>
      BY <1>1, <2>1 DEF Feeder, Controller
  <2>4. slipped \subseteq slipped' /\ slipped' \subseteq Responses
    <3>1. Replacing => Feeder.of \in Responses
        BY <1>2 DEF CallsAgree
    <3>2. Feeder.old # 0 => Cancelling("feeder")
        BY <1>2 DEF Feeder
    <3> QED
        BY <1>1, <1>3, <3>1, <3>2 DEF Slips, Replacing
  <2>5. Replacing => Feeder.of \in slipped'
    <3> SUFFICES ASSUME Replacing
                 PROVE  Feeder.of \in slipped'
        OBVIOUS
    <3>1. c # "feeder"
        BY <1>1 DEF Replacing, Cancelling
    <3>2. c = "controller" /\ Feeder.old # 0 /\ Feeder.op \in {"feed", "finish"}
        BY <1>2, <3>1, CancellingIs DEF Replacing, Feeder, Responses
    <3> QED
        BY <1>1, <3>2 DEF Slips
  <2>6. Replacing' = Replacing /\ \A x \in Callers : Cancelling(x)' = Cancelling(x)
      BY <2>3 DEF Replacing, Cancelling
  <2>7. \A x \in Callers : CallSound(x)'
    <3> SUFFICES ASSUME NEW x \in Callers
                 PROVE  CallSound(x)'
        OBVIOUS
    <3>1. call'[x] = call[x] /\ CallSound(x) /\ TypeOK /\ (closed => closed')
        BY <1>2, <2>3, InvIs
    <3>2. Cancelling(x) =>
             LET y == call[x].old IN
             /\ y # current' /\ (state'[y] = state[y] \/ Lasts(state[y], state'[y]))
             /\ x = "controller" /\ current = 0 /\ call[x].op = "close" => current' = 0
        BY <1>8, <2>3, CancellingIs
    <3>3. call[x].at = "putting" => state'[call[x].of].worker # "none"
        BY <2>3, <3>1 DEF CallSound
    <3> QED
        BY <1>5, <1>6, <3>1, <3>2, <3>3, CallStays
  <2>8. CallsAgree'
    <3>1. Replacing' => Feeder'.of \in Responses /\ Feeder'.of <= turn' /\ Feeder'.old < Feeder'.of
      <4>1. \A x \in Responses : x <= turn => x <= turn'
          BY <1>2, <1>5 DEF Responses
      <4> QED
          BY <1>2, <2>3, <2>6, <4>1 DEF CallsAgree
    <3> QED
        BY <1>1, <1>2, <1>8, <2>3, <2>6, <3>1 DEF CallsAgree
  <2>9. TurnsInOrder'
    <3>1. \A x \in Responses : x > turn' => x > turn
        BY <1>2, <1>5 DEF Responses
    <3>2. current' <= turn'
        BY <1>2, <1>5, <1>8, <2>3
    <3> QED
        BY <1>2, <1>8, <2>3, <2>6, <3>1, <3>2 DEF TurnsInOrder
  <2>10. Silences'
    <3>1. silenced' < turn'
        BY <1>2, <1>5, <2>1, <2>2 DEF Silences
    <3>2. Replacing' => Later(Feeder.of, silenced)'
        BY <2>3, <2>5, <2>6 DEF Later
    <3>3. \A x \in Callers : Replacing' => Later(Feeder.of, call[x].upto)'
        BY <2>3, <2>5, <2>6 DEF Later
    <3> QED
        BY <1>8, <2>1, <2>3, <3>1, <3>2, <3>3 DEF Silences, Later
  <2>11. SpeechIsHeard' /\ InterruptSilences' /\ NoSegmentLeftOpen'
      BY <1>8, <2>1, <2>3 DEF SpeechIsHeard, InterruptSilences, NoSegmentLeftOpen
  <2>12. Control'
      BY <2>7, <2>8, <2>9, <2>10, <2>11 DEF Control, EndsInSilence
  <2>13. \A x \in Responses : ResponseSound(x)'
      BY <2>3, InvIs DEF ResponseSound, OnePuts, Coming, ComingTo, FeederPuts
  <2>14. silenced' \in 0..MaxResponses /\ open' \in 0..MaxResponses /\ current' \in 0..MaxResponses
      BY <1>2, <1>3, <1>8, <2>1, <2>2
  <2>15. \A x \in Responses : Len(state'[x].queue) <= Capacity
      BY <2>13 DEF ResponseSound, StateSound
  <2>16. TypeOK'
      BY <1>2, <1>3, <1>5, <2>3, <2>4, <2>14, <2>15, TypeKept
  <2> QED
      BY <2>12, <2>13, <2>16 DEF BridgeInv
<1> QED
    BY <1>7, <1>8

LEMMA CloseKeeps ==
    ASSUME BridgeInv, Close
    PROVE  BridgeInv'
<1>1. /\ Controller.at = "idle" /\ ~closed /\ closed' = TRUE /\ Slips("controller")
      /\ UNCHANGED <<incremental, turn, open, silenced>>
    BY DEF Close
<1>2. /\ \A x \in Callers : CallSound(x)
      /\ CallsAgree /\ TurnsInOrder /\ Silences /\ SpeechIsHeard
      /\ InterruptSilences /\ NoSegmentLeftOpen
      /\ \A x \in Callers : ~Cancelling(x) => call[x].old = 0
      /\ Callers = {"feeder", "controller"} /\ Controller = call["controller"]
      /\ current \in 0..MaxResponses /\ open \in 0..MaxResponses
      /\ turn \in Nat /\ silenced \in Nat /\ MaxResponses \in Nat
      /\ state \in [Responses -> ResponseState] /\ call \in [Callers -> CallState]
    BY ControlIs
<1>3. /\ turn \in 1..(MaxResponses + 1) /\ slipped \subseteq Responses /\ incremental \in BOOLEAN
      /\ silenced \in 0..MaxResponses
    BY InvIs, TypeIs
<1>4. CASE current # 0
  <2>1. Cancels("controller", "close", 0, 0)
      BY <1>4 DEF Close
  <2>2. slipped' = slipped
      BY <1>1, <1>4, NoneSlips
  <2>3. /\ "controller" \in Callers /\ call["controller"].at = "idle" /\ 0 \in 0..MaxResponses
        /\ turn' \in 1..(MaxResponses + 1) /\ turn <= turn' /\ closed' /\ closed' \in BOOLEAN
      BY <1>1, <1>2, <1>3
  <2>4. UNCHANGED <<incremental, slipped, open, silenced>>
      BY <1>1, <2>2
  <2> QED
      BY <1>1, <1>4, <2>1, <2>3, <2>4, CancelsKeeps
<1>5. CASE current = 0
  <2> DEFINE k == [Idle EXCEPT !.at = "stopped"]
  <2>1. Does("controller", k) /\ UNCHANGED <<current, state>>
      BY <1>5 DEF Close
  <2>2. k \in CallState /\ k.at = "stopped" /\ k.old = 0 /\ k.op = "none"
      BY IdleIs DEF Idle
  <2>3. /\ call' \in [Callers -> CallState] /\ call'["controller"] = k /\ call'["feeder"] = call["feeder"]
        /\ Feeder' = Feeder /\ Controller' = k
      BY <1>2, <2>1, <2>2 DEF Does, Feeder, Controller
  <2>4. UNCHANGED <<current, state, incremental, turn, open, silenced>>
      BY <1>1, <2>1
  <2>5. slipped \subseteq slipped' /\ slipped' \subseteq Responses
    <3>1. Replacing => Feeder.of \in Responses
        BY <1>2 DEF CallsAgree
    <3>2. Feeder.old # 0 => Cancelling("feeder")
        BY <1>2 DEF Feeder
    <3> QED
        BY <1>1, <1>3, <3>1, <3>2 DEF Slips, Replacing
  <2>6. Replacing => Feeder.of \in slipped'
    <3> SUFFICES ASSUME Replacing
                 PROVE  Feeder.of \in slipped'
        OBVIOUS
    <3>1. Feeder.old # 0 /\ Feeder.op \in {"feed", "finish"}
        BY <1>2, CancellingIs DEF Replacing, Feeder, Responses
    <3> QED
        BY <1>1, <3>1 DEF Slips
  <2>7. /\ (Replacing' <=> Replacing) /\ (Cancelling("feeder")' <=> Cancelling("feeder"))
        /\ ~Cancelling("controller")' /\ ~Cancelling("controller")
      BY <1>1, <1>2, <2>2, <2>3 DEF Replacing, Cancelling
  <2>8. \A x \in Callers : CallSound(x)'
    <3>1. CallSound("controller")'
      <4>1. k = [Idle EXCEPT !.at = k.at]
          BY <2>2
      <4> HIDE DEF k
      <4> QED
          BY <1>1, <2>2, <2>3, <2>7, <4>1 DEF CallSound
    <3>2. CallSound("feeder")'
      <4> DEFINE x == "feeder"
      <4>1. /\ x \in Callers /\ call'[x] = call[x] /\ CallSound(x) /\ TypeOK /\ (closed => closed')
            /\ turn' \in Nat /\ turn <= turn'
          BY <1>1, <1>2, <2>3, InvIs
      <4>2. Cancelling(x) =>
               LET y == call[x].old IN
               /\ y # current' /\ (state'[y] = state[y] \/ Lasts(state[y], state'[y]))
               /\ x = "controller" /\ current = 0 /\ call[x].op = "close" => current' = 0
          BY <1>2, <1>5, <2>4, CancellingIs
      <4>3. call[x].at = "putting" => state'[call[x].of].worker # "none"
          BY <2>4, <4>1 DEF CallSound
      <4> QED
          BY <4>1, <4>2, <4>3, CallStays
    <3> QED
        BY <1>2, <3>1, <3>2
  <2> HIDE DEF k
  <2>9. CallsAgree'
      BY <1>2, <1>5, <2>2, <2>3, <2>4, <2>6, <2>7 DEF CallsAgree
  <2>10. TurnsInOrder'
      BY <1>2, <2>3, <2>4, <2>7 DEF TurnsInOrder
  <2>11. Silences'
    <3>1. ASSUME NEW x \in Callers, Cancelling(x)', call'[x].op = "interrupt"
          PROVE  Later(current, call[x].upto)' /\ (Replacing' => Later(Feeder.of, call[x].upto)')
      <4>1. x = "feeder" /\ ~Replacing'
        <5>1. x = "feeder"
            BY <1>2, <2>7, <3>1
        <5> QED
            BY <2>3, <3>1, <5>1 DEF Replacing, Feeder
      <4> QED
          BY <1>5, <2>4, <4>1 DEF Later
    <3>2. Later(current, silenced)' /\ (Replacing' => Later(Feeder.of, silenced)')
        BY <1>5, <2>3, <2>4, <2>6, <2>7 DEF Later
    <3>3. (open' # 0 => state'[open'].segment) /\ silenced' < turn'
        BY <1>2, <2>4 DEF Silences
    <3> QED
        BY <3>1, <3>2, <3>3 DEF Silences
  <2>12. SpeechIsHeard' /\ InterruptSilences'
      BY <1>2, <1>5, <2>4, <2>5 DEF SpeechIsHeard, InterruptSilences
  <2>13. NoSegmentLeftOpen'
    <3> SUFFICES ASSUME open # 0
                 PROVE  \E x \in Callers : call'[x].old = open
        BY <2>4 DEF NoSegmentLeftOpen
    <3>1. PICK x \in Callers : call[x].old = open
        BY <1>2, <1>5 DEF NoSegmentLeftOpen
    <3>2. x = "feeder"
        BY <1>2, <2>7, <3>1
    <3> QED
        BY <2>3, <3>1, <3>2
  <2>14. Control'
      BY <2>8, <2>9, <2>10, <2>11, <2>12, <2>13 DEF Control, EndsInSilence
  <2>15. \A x \in Responses : ResponseSound(x)'
      BY <2>3, <2>4, InvIs DEF ResponseSound, OnePuts, Coming, ComingTo, FeederPuts
  <2>16. \A x \in Responses : Len(state'[x].queue) <= Capacity
      BY <2>15 DEF ResponseSound, StateSound
  <2>17. TypeOK'
      BY <1>1, <1>2, <1>3, <2>3, <2>4, <2>5, <2>16, TypeKept
  <2> QED
      BY <2>14, <2>15, <2>17 DEF BridgeInv
<1> QED
    BY <1>4, <1>5

-----------------------------------------------------------------------------
(***************************************************************************)
(* The invariant and the theorems.                                         *)
(***************************************************************************)

LEMMA BridgeInit ==
    ASSUME Init
    PROVE  BridgeInv
<1>1. /\ incremental \in BOOLEAN /\ current = 0 /\ open = 0 /\ closed = FALSE
      /\ state = [r \in Responses |-> Unbegun] /\ call = [c \in Callers |-> Idle]
      /\ turn = 1 /\ silenced = 0 /\ slipped = {}
    BY DEF Init
<1>2. MaxResponses \in Nat /\ 0 \in 0..MaxResponses /\ 1 \in 1..(MaxResponses + 1)
    BY BridgeAssumption
<1>3. /\ \A r \in Responses : state[r] = Unbegun
      /\ \A c \in Callers : call[c] = Idle
      /\ Feeder = Idle /\ Controller = Idle
    BY <1>1 DEF Feeder, Controller, Callers
<1>4. \A r \in Responses : ResponseSound(r)
    BY <1>3, BegunIs, IdleIs DEF ResponseSound, OnePuts, Coming, ComingTo, FeederPuts
<1>5. TypeOK
  <2>1. state \in [Responses -> ResponseState] /\ call \in [Callers -> CallState]
      BY <1>1, BegunIs, IdleIs
  <2>2. \A r \in Responses : Len(state[r].queue) <= Capacity
      BY <1>4 DEF ResponseSound, StateSound
  <2> QED
      BY <1>1, <1>2, <2>1, <2>2 DEF TypeOK, ResponseState, CallState, Queued
<1>6. \A c \in Callers : ~Cancelling(c)
    BY <1>3, IdleIs DEF Cancelling
<1>7. ~Replacing
    BY <1>6 DEF Replacing, Callers
<1>8. \A c \in Callers : CallSound(c)
    BY <1>3, <1>6 DEF CallSound, Idle
<1>9. CallsAgree
    BY <1>1, <1>3, <1>7, IdleIs DEF CallsAgree
<1>10. TurnsInOrder
    BY <1>1, <1>3 DEF TurnsInOrder
<1>11. Silences
    BY <1>1, <1>6, <1>7 DEF Silences, Later
<1>12. SpeechIsHeard /\ EndsInSilence
    BY <1>1 DEF SpeechIsHeard, EndsInSilence, InterruptSilences, NoSegmentLeftOpen
<1> QED
    BY <1>4, <1>5, <1>8, <1>9, <1>10, <1>11, <1>12 DEF BridgeInv, Control

LEMMA BridgeUnchanged ==
    ASSUME BridgeInv, UNCHANGED vars
    PROVE  BridgeInv'
<1>1. UNCHANGED <<incremental, current, state, closed, call, turn, open, silenced, slipped>>
    BY DEF vars
<1>2. Feeder' = Feeder /\ Controller' = Controller
    BY <1>1 DEF Feeder, Controller
<1>3. TypeOK'
    BY <1>1 DEF BridgeInv, TypeOK
<1>4. \A r \in Responses : ResponseSound(r)'
    BY <1>1, <1>2, InvIs DEF ResponseSound, OnePuts, Coming, ComingTo, FeederPuts
<1>5. (\A c \in Callers : Cancelling(c)' <=> Cancelling(c)) /\ (Replacing' <=> Replacing)
    BY <1>1, <1>2 DEF Replacing, Cancelling
<1>6. \A c \in Callers : CallSound(c)'
    BY <1>1, <1>5, ControlIs DEF CallSound
<1>7. CallsAgree' /\ TurnsInOrder'
  <2>1. Cancelling("controller")' <=> Cancelling("controller")
      BY <1>5, ControlIs
  <2> QED
      BY <1>1, <1>2, <1>5, <2>1, ControlIs DEF CallsAgree, TurnsInOrder
<1>8. Silences' /\ SpeechIsHeard' /\ InterruptSilences' /\ NoSegmentLeftOpen'
    BY <1>1, <1>2, <1>5, ControlIs
       DEF Silences, Later, SpeechIsHeard, InterruptSilences, NoSegmentLeftOpen
<1> QED
    BY <1>3, <1>4, <1>6, <1>7, <1>8 DEF BridgeInv, Control, EndsInSilence

LEMMA BridgeNext ==
    ASSUME BridgeInv, [Next]_vars
    PROVE  BridgeInv'
<1>1. CASE Texts
  <2>1. ASSUME NEW op \in {"feed", "finish"}, TextBegins(op) \/ TextJoins(op) \/ TextReplaces(op)
        PROVE  BridgeInv'
      BY <2>1, TextBeginsKeeps, TextJoinsKeeps, TextReplacesKeeps
  <2> QED
      BY <1>1, <2>1, TextIsLateKeeps DEF Texts
<1>2. ASSUME NEW c \in Callers, Interrupt(c)
      PROVE  BridgeInv'
    BY <1>2, InterruptKeeps
<1>3. ASSUME NEW c \in Callers, Calling(c)
      PROVE  BridgeInv'
    BY <1>3, TextGetsLockKeeps, PutsKeeps, GivesUpKeeps, TextEndsKeeps, TextStartsKeeps,
       CloseEndsKeeps, FlushIsCutKeeps, CancelWaitsKeeps, InterruptEndsKeeps DEF Calling
<1>4. ASSUME NEW r \in Responses, Flush(r)
      PROVE  BridgeInv'
    BY <1>4, FlushWakesKeeps, FlushPutsKeeps, FlushEndsKeeps DEF Flush
<1>5. ASSUME NEW r \in Responses, Worker(r)
      PROVE  BridgeInv'
    BY <1>5, WorkerTakesKeeps, FirstAudioKeeps, AudioEndsKeeps, WorkerFailsKeeps,
       WorkerCleanedKeeps, WorkerEndsKeeps DEF Worker
<1>6. CASE Terminated \/ UNCHANGED vars
    BY <1>6, BridgeUnchanged DEF Terminated
<1> QED
    BY <1>1, <1>2, <1>3, <1>4, <1>5, <1>6, CloseKeeps DEF Next

\* The invariant gives the order in which a response is spoken.
LEMMA SpokenIs ==
    ASSUME BridgeInv
    PROVE  SpokenInOrder
<1> SUFFICES ASSUME NEW r \in Responses
             PROVE  LET spoken == state[r].spoken IN
                    /\ \A i, j \in DOMAIN spoken : i < j => spoken[i] < spoken[j]
                    /\ state[r].said =>
                          \A i \in DOMAIN state[r].queue : state[r].queue[i] = 0
    BY DEF SpokenInOrder
<1> DEFINE p == state[r].spoken
<1>1. state[r] \in ResponseState /\ Ordered(state[r], Coming(r))
    BY ResponseIs
<1>2. p \in Seq(1..MaxPieces)
    BY <1>1, PiecesOf
<1>3. DOMAIN p = 1..Len(p) /\ \A i \in 1..Len(p) : p[i] \in 1..MaxPieces
    BY <1>2, LenProperties, ElementOfSeq
<1>4. Sorted(p)
    BY <1>1 DEF Ordered
<1> HIDE DEF p
<1>5. \A i, j \in DOMAIN p : i < j => p[i] < p[j]
  <2> SUFFICES ASSUME NEW i \in 1..Len(p), NEW j \in 1..Len(p), i < j
               PROVE  p[i] < p[j]
      BY <1>3
  <2>1. Before(p[i], p[j])
      BY <1>4 DEF Sorted
  <2>2. p[j] # End
      BY <1>3 DEF End
  <2> QED
      BY <2>1, <2>2 DEF Before
<1>6. state[r].said => \A i \in DOMAIN state[r].queue : state[r].queue[i] = 0
  <2> SUFFICES ASSUME state[r].said
               PROVE  DOMAIN state[r].queue = {}
      OBVIOUS
  <2>1. state[r].queue = <<>>
      BY <1>1 DEF Ordered
  <2> QED
      BY <2>1
<1> QED
    BY <1>5, <1>6 DEF p

\* The responses and the calls stay sound: types, the order of the pieces wherever they
\* are, and what a call that cancels a response knows of it and of the other call. This
\* is the inductive invariant, and it has both invariants below for its parts.
THEOREM BridgeIsSound == Spec => []BridgeInv
<1>1. Init => BridgeInv
    BY BridgeInit
<1>2. BridgeInv /\ [Next]_vars => BridgeInv'
    BY BridgeNext
<1> QED
    BY <1>1, <1>2, PTL DEF Spec

\* Whichever of the tasks is cancelled where, the backend of a response is given the
\* pieces of its text in their order, each once, and nothing after the end; and the
\* segment that is open while a response is current is its own, but for the time in
\* which an interrupt of the controller waits for the older one
\* (feed_text, _flush_after_idle, _run_response and _publish_audio).
THEOREM SpeechKeepsOrder == Spec => []SpeechIsWhole
<1>1. BridgeInv => SpeechIsWhole
  <2> SUFFICES ASSUME BridgeInv
               PROVE  SpeechIsWhole
      OBVIOUS
  <2> QED
      BY InvIs, SpokenIs DEF Control, SpeechIsWhole
<1> QED
    BY <1>1, BridgeIsSound, PTL

\* After an interrupt the avatar is heard with no response that had come before it, and
\* after close with none, but for those that were still replacing another one; and no
\* segment stays open once its response has ended and every call that cancels it has
\* returned (interrupt, close, _cancel_state and _close_segment).
THEOREM BridgeFallsSilent == Spec => []EndsInSilence
<1>1. BridgeInv => EndsInSilence
    BY InvIs DEF Control
<1> QED
    BY <1>1, BridgeIsSound, PTL
=============================================================================
