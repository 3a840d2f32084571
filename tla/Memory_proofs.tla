--------------------------- MODULE Memory_proofs ---------------------------
(***************************************************************************)
(* Proofs about the memory.                                                *)
(*                                                                         *)
(* The writer, for every queue size and any number of batches and clears:  *)
(* the bookkeeping of its queue, that only an ingest already running can   *)
(* outlive a clear, and that each batch is accounted for, in order.        *)
(*                                                                         *)
(* The imports, for whatever turns are heard, any export that is imported, *)
(* any previews and sessions: an import does what was previewed to a       *)
(* database that nobody has changed since, its backup is that database,    *)
(* and no staged file is left without a preview.  Nothing is needed of     *)
(* what a transaction does to the rows but that it counts the revision.    *)
(***************************************************************************)
EXTENDS MemoryWriter, MemoryStore, TLAPS, SequenceTheorems

(***************************************************************************)
(* Types.  That the count of unfinished tasks is never negative follows    *)
(* from JoinCounts, below.                                                 *)
(***************************************************************************)

Times == 0..MaxTime

SetTypes ==
    /\ hand \subseteq Batches /\ detached \subseteq Batches
    /\ stored \subseteq Batches /\ erased \subseteq Batches
    /\ dropped \subseteq Batches /\ submitted \subseteq Batches
    /\ raced \subseteq Batches

SeqTypes ==
    /\ queue \in Seq(Batches) /\ taken \in Seq(Batches)
    /\ accepted \in Seq(Batches) /\ handed \in Seq(Batches)
    /\ calls \in Seq(Times)

OtherTypes ==
    /\ now \in Times /\ cut \in Times /\ cutoff \in Times
    /\ cleared \in 0..MaxClears
    /\ writer \in {"running", "none"}
    /\ clearing \in {"no", "deleting", "done", "failed"}
    /\ closing \in {"no", "draining", "closed"}

Types == SetTypes /\ SeqTypes /\ OtherTypes

\* The type invariant, put together again.
LEMMA TypesMakeTypeOK == TypeOK <=> Types /\ unfinished \in Nat
BY DEF TypeOK, Types, SetTypes, SeqTypes, OtherTypes, Times

\* The members of a sequence are of its type.
LEMMA ItemsType ==
  ASSUME NEW S, NEW s \in Seq(S)
  PROVE  Items(s) \subseteq S
BY DEF Items

\* Every step keeps the types of the sets.
LEMMA SetTypesStep == Types /\ [Next]_vars => SetTypes'
<1> SUFFICES ASSUME Types, [Next]_vars PROVE SetTypes'
  OBVIOUS
<1>0. SetTypes /\ SeqTypes
  BY DEF Types
<1>1. Items(queue) \subseteq Batches /\ Items(taken) \subseteq Batches
  BY <1>0, ItemsType DEF SeqTypes
<1>2. queue # <<>> => Head(queue) \in Batches
  BY <1>0, HeadTailProperties DEF SeqTypes
<1> QED
  BY <1>0, <1>1, <1>2
  DEF SetTypes, Next, vars, inputVars, clearVars, Tick, TrySubmit, WriterTakes,
      WriterIngests, DetachedIngests, ClearIsAsked, ClearIsRefused, ClearBegins,
      ClearDeletes, ClearSucceeds, ClearFails, Reopen, CloseBegins, CloseEnds,
      Terminated

\* Every step keeps the types of the sequences.
LEMMA SeqTypesStep == Types /\ [Next]_vars => SeqTypes'
<1> SUFFICES ASSUME Types, [Next]_vars PROVE SeqTypes'
  OBVIOUS
<1>0. SeqTypes /\ now \in Times
  BY DEF Types, OtherTypes
<1>1. queue # <<>> => Head(queue) \in Batches /\ Tail(queue) \in Seq(Batches)
  BY <1>0, HeadTailProperties DEF SeqTypes
<1>2. calls # <<>> => Tail(calls) \in Seq(Times)
  BY <1>0, HeadTailProperties DEF SeqTypes
<1>3. queue \o taken \in Seq(Batches)
  BY <1>0, ConcatProperties DEF SeqTypes
<1>4. <<>> \in Seq(Batches)
  OBVIOUS
<1>5. \A b \in Batches : /\ Append(queue, b) \in Seq(Batches)
                         /\ Append(accepted, b) \in Seq(Batches)
                         /\ Append(handed, b) \in Seq(Batches)
  BY <1>0, AppendProperties DEF SeqTypes
<1>6. Append(calls, now) \in Seq(Times)
  BY <1>0, AppendProperties DEF SeqTypes
<1> QED
  BY <1>0, <1>1, <1>2, <1>3, <1>4, <1>5, <1>6
  DEF SeqTypes, Next, vars, inputVars, clearVars, Tick, TrySubmit, WriterTakes,
      WriterIngests, DetachedIngests, ClearIsAsked, ClearIsRefused, ClearBegins,
      ClearDeletes, ClearSucceeds, ClearFails, Reopen, CloseBegins, CloseEnds,
      Terminated

\* Every step keeps the other types.
LEMMA OtherTypesStep == Types /\ [Next]_vars => OtherTypes'
<1> SUFFICES ASSUME Types, [Next]_vars PROVE OtherTypes'
  OBVIOUS
<1>0. OtherTypes /\ calls \in Seq(Times)
  BY DEF Types, SeqTypes
<1>1. calls # <<>> => Head(calls) \in Times
  BY <1>0, HeadTailProperties
<1>2. 0 \in Times
  BY WriterAssumption DEF Times
<1>3. now < MaxTime => now + 1 \in Times
  BY <1>0, WriterAssumption DEF OtherTypes, Times
<1>4. cleared < MaxClears => cleared + 1 \in 0..MaxClears
  BY <1>0, WriterAssumption DEF OtherTypes
<1> QED
  BY <1>0, <1>1, <1>2, <1>3, <1>4
  DEF OtherTypes, Next, vars, inputVars, clearVars, Tick, TrySubmit, WriterTakes,
      WriterIngests, DetachedIngests, ClearIsAsked, ClearIsRefused, ClearBegins,
      ClearDeletes, ClearSucceeds, ClearFails, Reopen, CloseBegins, CloseEnds,
      Terminated

(***************************************************************************)
(* The bookkeeping of the queue.  JoinCounts and RestoreFits need each     *)
(* other's company: a clear that fails adds what it took to a queue that   *)
(* nobody has added to, because submissions are refused until it is over,  *)
(* and a writer's hand is empty when there is no writer.                   *)
(***************************************************************************)

Bookkeeping ==
    /\ JoinCounts /\ RestoreFits /\ OneWriter
    /\ clearing = "no" => taken = <<>>

\* It holds at first.
LEMMA BookkeepingInit == Init => Types /\ Bookkeeping
BY WriterAssumption
DEF Init, Types, SetTypes, SeqTypes, OtherTypes, Times, Bookkeeping, JoinCounts,
    RestoreFits, OneWriter

\* Every step of the tasks and the threads keeps it.
LEMMA BookkeepingStep ==
  Types /\ Bookkeeping /\ [Next]_vars => Bookkeeping'
<1> SUFFICES ASSUME Types, Bookkeeping, [Next]_vars PROVE Bookkeeping'
  OBVIOUS
<1>0. /\ queue \in Seq(Batches) /\ taken \in Seq(Batches)
      /\ closing \in {"no", "draining", "closed"}
      /\ clearing \in {"no", "deleting", "done", "failed"}
  BY DEF Types, SeqTypes, OtherTypes
<1>1. /\ Len(queue) \in Nat /\ Len(taken) \in Nat /\ QueueSize \in Nat \ {0}
      /\ Len(<<>>) = 0
  BY <1>0, LenProperties, EmptySeq, WriterAssumption
<1>2. Len(queue \o taken) = Len(queue) + Len(taken)
  BY <1>0, ConcatProperties
<1>3. \A b \in Batches : Len(Append(queue, b)) = Len(queue) + 1
  BY <1>0, AppendProperties
<1>4. queue # <<>> => Len(Tail(queue)) = Len(queue) - 1
  BY <1>0, HeadTailProperties
<1> USE DEF Bookkeeping, JoinCounts, RestoreFits, OneWriter, inputVars, clearVars
<1>5. CASE Tick
  BY <1>5 DEF Tick
<1>6. ASSUME NEW b \in Batches, TrySubmit(b) PROVE Bookkeeping'
  BY <1>1, <1>3, <1>6 DEF TrySubmit, Refused
<1>7. ASSUME NEW b \in Batches, WriterIngests(b) PROVE Bookkeeping'
  BY <1>1, <1>7 DEF WriterIngests
<1>8. ASSUME NEW b \in Batches, DetachedIngests(b) PROVE Bookkeeping'
  BY <1>8 DEF DetachedIngests
<1>9. CASE WriterTakes
  BY <1>1, <1>4, <1>9 DEF WriterTakes
<1>10. CASE ClearIsAsked \/ ClearIsRefused
  BY <1>10 DEF ClearIsAsked, ClearIsRefused
<1>11. CASE ClearBegins
  BY <1>1, <1>11 DEF ClearBegins, WithoutHand
<1>12. CASE ClearDeletes
  BY <1>12 DEF ClearDeletes
<1>13. CASE ClearSucceeds
  BY <1>1, <1>13 DEF ClearSucceeds, Reopen
<1>14. CASE ClearFails
  BY <1>1, <1>2, <1>14 DEF ClearFails, Reopen
<1>15. CASE CloseBegins
  BY <1>0, <1>15 DEF CloseBegins
<1>16. CASE CloseEnds
  BY <1>1, <1>16 DEF CloseEnds, WithoutHand
<1>17. CASE Terminated \/ UNCHANGED vars
  BY <1>17 DEF Terminated, vars
<1> QED
  BY <1>5, <1>6, <1>7, <1>8, <1>9, <1>10, <1>11, <1>12, <1>13, <1>14, <1>15,
     <1>16, <1>17 DEF Next

\* The types and the bookkeeping hold of every behaviour.
LEMMA BookkeepingCorrect == Spec => [](Types /\ Bookkeeping)
<1>1. Types /\ Bookkeeping /\ [Next]_vars => (Types /\ Bookkeeping)'
  BY SetTypesStep, SeqTypesStep, OtherTypesStep, BookkeepingStep DEF Types
<1> QED
  BY <1>1, BookkeepingInit, PTL DEF Spec

\* A count of tasks is never negative: task_done is not called too often.
LEMMA UnfinishedType == Types /\ Bookkeeping => unfinished \in Nat
<1> SUFFICES ASSUME Types, Bookkeeping PROVE unfinished \in Nat
  OBVIOUS
<1>1. Len(queue) \in Nat
  BY LenProperties DEF Types, SeqTypes
<1> QED
  BY <1>1 DEF Bookkeeping, JoinCounts

\* The fields of the service keep their types.
THEOREM TypeCorrect == Spec => []TypeOK
<1>1. Types /\ Bookkeeping => TypeOK
  BY UnfinishedType, TypesMakeTypeOK
<1> QED
  BY <1>1, BookkeepingCorrect, PTL

\* join waits for the queued batches and the one in the writer's hand, whatever
\* clears and close have taken out and put back.
THEOREM JoinCorrect == Spec => []JoinCounts
<1>1. Bookkeeping => JoinCounts
  BY DEF Bookkeeping
<1> QED
  BY <1>1, BookkeepingCorrect, PTL

\* What a failing clear puts back always finds room.
THEOREM RestoreCorrect == Spec => []RestoreFits
<1>1. Bookkeeping => RestoreFits
  BY DEF Bookkeeping
<1> QED
  BY <1>1, BookkeepingCorrect, PTL

\* There is one writer while the service is open, and none once it is closed.
THEOREM WriterCorrect == Spec => []OneWriter
<1>1. Bookkeeping => OneWriter
  BY DEF Bookkeeping
<1> QED
  BY <1>1, BookkeepingCorrect, PTL

\* The bookkeeping of the queue survives writers, clears and the close.
THEOREM QueueCorrect == Spec => []QueueSurvives
<1>1. TypeOK /\ JoinCounts /\ RestoreFits /\ OneWriter => QueueSurvives
  BY DEF QueueSurvives
<1> QED
  BY <1>1, TypeCorrect, JoinCorrect, RestoreCorrect, WriterCorrect, PTL

(***************************************************************************)
(* What can outlive a clear.  ClearedOrRaced speaks of the database; the   *)
(* invariant speaks of everything that can still get there: what is queued *)
(* or was taken is newer than the last clear, and a detached ingest is     *)
(* newer or was running when a clear deleted everything.                   *)
(***************************************************************************)

Newer(S) == \A b \in S : b > cutoff

ClearsHold ==
    /\ Newer(Items(queue)) /\ Newer(Items(taken)) /\ Newer(hand)
    /\ \A b \in stored \cup detached : b <= cutoff => b \in raced
    /\ clearing # "no" => queue = <<>>
    /\ clearing = "done" => stored \cup detached \subseteq raced

\* What Items makes of the sequence operations.
LEMMA ItemsOf ==
  /\ Items(<<>>) = {}
  /\ \A s \in Seq(Batches) : \A b \in Batches :
        Items(Append(s, b)) \subseteq Items(s) \cup {b}
  /\ \A s \in Seq(Batches) :
        s # <<>> => /\ Items(Tail(s)) \subseteq Items(s)
                    /\ Head(s) \in Items(s)
  /\ \A s \in Seq(Batches) : <<>> \o s = s
<1>1. Items(<<>>) = {}
  BY DEF Items
<1>2. ASSUME NEW s \in Seq(Batches), NEW b \in Batches
      PROVE  Items(Append(s, b)) \subseteq Items(s) \cup {b}
  BY AppendProperties DEF Items
<1>3. ASSUME NEW s \in Seq(Batches), s # <<>>
      PROVE  Items(Tail(s)) \subseteq Items(s) /\ Head(s) \in Items(s)
  BY <1>3, HeadTailProperties, LenProperties, EmptySeq DEF Items
<1>4. ASSUME NEW s \in Seq(Batches)
      PROVE  <<>> \o s = s
  BY ConcatEmptySeq
<1> QED
  BY <1>1, <1>2, <1>3, <1>4

\* It holds at first: nothing is queued, in a hand or stored.
LEMMA ClearedInit == Init => ClearsHold
BY ItemsOf DEF Init, ClearsHold, Newer

\* Every step keeps it.  A clear makes the cutoff later when everything is deleted,
\* and what is still in a thread is noted in raced.
LEMMA ClearedStep ==
  Types /\ Bookkeeping /\ ClearsHold /\ [Next]_vars => ClearsHold'
<1> SUFFICES ASSUME Types, Bookkeeping, ClearsHold, [Next]_vars PROVE ClearsHold'
  OBVIOUS
<1>0. /\ queue \in Seq(Batches) /\ taken \in Seq(Batches)
      /\ hand \subseteq Batches
      /\ cut \in Int /\ cutoff \in Int
  BY WriterAssumption DEF Types, SeqTypes, SetTypes, OtherTypes, Times
<1>1. clearing # "no" => hand = {}
  BY DEF Bookkeeping, OneWriter
<1>2. Batches \subseteq Int
  BY DEF Batches
<1>3. \A b \in stored \cup (detached \cup hand) : b <= cutoff => b \in raced
  <2>1. ASSUME NEW b \in hand PROVE ~(b <= cutoff)
    <3>1. b \in Int /\ b > cutoff
      BY <1>0, <1>2 DEF ClearsHold, Newer
    <3> QED
      BY <1>0, <3>1
  <2> QED
    BY <2>1 DEF ClearsHold
<1>4. clearing = "done" => stored \cup (detached \cup hand) \subseteq raced
  BY <1>1 DEF ClearsHold
<1>5. Items(<<>>) = {}
  BY ItemsOf
<1> USE DEF ClearsHold, Newer, inputVars, clearVars
<1>6. CASE Tick
  BY <1>6 DEF Tick
<1>7. ASSUME NEW b \in Batches, TrySubmit(b) PROVE ClearsHold'
  <2>1. b > cutoff \/ queue' = queue
    BY <1>0, <1>2, <1>7 DEF TrySubmit, Refused
  <2>2. \/ Items(queue') \subseteq Items(queue)
       \/ Items(queue') \subseteq Items(queue) \cup {b}
    BY <1>0, <1>7, ItemsOf DEF TrySubmit
  <2>3. clearing # "no" => queue' = queue
    BY <1>7 DEF TrySubmit, Refused
  <2>4. Newer(Items(queue))' = \A c \in Items(queue') : c > cutoff
    BY <1>7 DEF TrySubmit
  <2>5. Newer(Items(queue))'
    BY <2>1, <2>2, <2>4
  <2> QED
    BY <1>7, <2>3, <2>5 DEF TrySubmit
<1>8. ASSUME NEW b \in Batches, WriterIngests(b) PROVE ClearsHold'
  BY <1>1, <1>0, <1>2, <1>8 DEF WriterIngests
<1>9. ASSUME NEW b \in Batches, DetachedIngests(b) PROVE ClearsHold'
  BY <1>9 DEF DetachedIngests
<1>10. CASE WriterTakes
  BY <1>0, <1>1, <1>10, ItemsOf DEF WriterTakes
<1>11. CASE ClearIsAsked \/ ClearIsRefused
  BY <1>11 DEF ClearIsAsked, ClearIsRefused
<1>12. CASE ClearBegins
  BY <1>12, <1>3, <1>5 DEF ClearBegins
<1>13. CASE ClearDeletes
  BY <1>13 DEF ClearDeletes
<1>14. CASE ClearSucceeds
  BY <1>1, <1>14, ItemsOf DEF ClearSucceeds, Reopen
<1>15. CASE ClearFails
  BY <1>0, <1>1, <1>15, ItemsOf DEF ClearFails, Reopen
<1>16. CASE CloseBegins
  BY <1>16 DEF CloseBegins
<1>17. CASE CloseEnds
  BY <1>17, <1>3, <1>4, <1>5 DEF CloseEnds
<1>18. CASE Terminated \/ UNCHANGED vars
  BY <1>18 DEF Terminated, vars
<1> QED
  BY <1>6, <1>7, <1>8, <1>9, <1>10, <1>11, <1>12, <1>13, <1>14, <1>15, <1>16,
     <1>17, <1>18 DEF Next

\* A batch observed before a clear is stored after it only if its ingest was running
\* when the clear deleted everything.
THEOREM ClearedCorrect == Spec => []ClearedOrRaced
<1>1. Types /\ Bookkeeping /\ ClearsHold /\ [Next]_vars => ClearsHold'
  BY ClearedStep
<1>2. ClearsHold => ClearedOrRaced
  BY DEF ClearsHold, ClearedOrRaced
<1> QED
  BY <1>1, <1>2, ClearedInit, BookkeepingCorrect, PTL DEF Spec

(***************************************************************************)
(* The order of the batches, and their places.  Ordered says that what the *)
(* writer has taken, then what a clear has taken out or what is queued,    *)
(* come in the order in which they were accepted; since no batch is        *)
(* accepted twice, none is in two of these places.  Placed says the same   *)
(* of all the places, and where a batch that is in none of them has been.  *)
(***************************************************************************)

\* x was accepted before y.
Before(x, y) ==
    \E k, l \in DOMAIN accepted : k < l /\ accepted[k] = x /\ accepted[l] = y

Sorted(s) == \A i, j \in DOMAIN s : i < j => Before(s[i], s[j])
Precedes(s, t) == \A x \in Items(s), y \in Items(t) : Before(x, y)

Ordered ==
    /\ \A i, j \in DOMAIN accepted : accepted[i] = accepted[j] => i = j
    /\ Items(handed) \subseteq Items(accepted) /\ Items(accepted) \subseteq submitted
    /\ Sorted(handed) /\ Sorted(queue) /\ Sorted(taken)
    /\ Precedes(handed, queue) /\ Precedes(handed, taken)

\* Nothing is accepted before itself.
LEMMA BeforeIsStrict == ASSUME Ordered, Types, NEW x PROVE ~Before(x, x)
<1>1. DOMAIN accepted \subseteq Int
  BY DEF Types, SeqTypes
<1> QED BY <1>1 DEF Ordered, Before

\* What Before makes of a batch accepted last.
LEMMA BeforeGrows ==
  ASSUME Types, NEW b \in Batches, accepted' = Append(accepted, b)
  PROVE  /\ \A x, y : Before(x, y) => Before(x, y)'
         /\ \A x \in Items(accepted) : Before(x, b)'
         /\ Items(accepted') = Items(accepted) \cup {b}
<1>1. accepted \in Seq(Batches)
  BY DEF Types, SeqTypes
<1>2. /\ DOMAIN accepted = 1..Len(accepted) /\ Len(accepted) \in Nat
      /\ DOMAIN accepted' = 1..(Len(accepted) + 1)
      /\ \A i \in DOMAIN accepted : accepted'[i] = accepted[i]
      /\ accepted'[Len(accepted) + 1] = b
  BY <1>1, AppendProperties, LenProperties
<1>3. ASSUME NEW x, NEW y, Before(x, y) PROVE Before(x, y)'
  <2>1. PICK k, l \in DOMAIN accepted : k < l /\ accepted[k] = x /\ accepted[l] = y
    BY <1>3 DEF Before
  <2>2. /\ k \in DOMAIN accepted' /\ l \in DOMAIN accepted' /\ k < l
        /\ accepted'[k] = x /\ accepted'[l] = y
    BY <1>2, <2>1
  <2> QED BY <2>2 DEF Before
<1>4. ASSUME NEW x \in Items(accepted) PROVE Before(x, b)'
  <2>1. PICK k \in DOMAIN accepted : accepted[k] = x
    BY DEF Items
  <2>2. /\ k \in DOMAIN accepted' /\ Len(accepted) + 1 \in DOMAIN accepted'
        /\ k < Len(accepted) + 1 /\ accepted'[k] = x /\ accepted'[Len(accepted) + 1] = b
    BY <1>2, <2>1
  <2> QED BY <2>2 DEF Before
<1>5. Items(accepted') = Items(accepted) \cup {b}
  <2>1. \A i \in DOMAIN accepted' : i \in DOMAIN accepted \/ i = Len(accepted) + 1
    BY <1>2
  <2>2. Len(accepted) + 1 \in DOMAIN accepted' /\ DOMAIN accepted \subseteq DOMAIN accepted'
    BY <1>2
  <2> QED BY <1>2, <2>1, <2>2 DEF Items
<1> QED BY <1>3, <1>4, <1>5

\* A batch that comes after all the others keeps a sequence in order.
LEMMA SortedAppend ==
  ASSUME NEW s \in Seq(Batches), NEW b \in Batches,
         Sorted(s), \A x \in Items(s) : Before(x, b)
  PROVE  Sorted(Append(s, b)) /\ Items(Append(s, b)) = Items(s) \cup {b}
<1>1. /\ DOMAIN s = 1..Len(s) /\ Len(s) \in Nat
      /\ DOMAIN Append(s, b) = 1..(Len(s) + 1)
      /\ \A i \in DOMAIN s : Append(s, b)[i] = s[i]
      /\ Append(s, b)[Len(s) + 1] = b
  BY AppendProperties, LenProperties
<1>2. Sorted(Append(s, b))
  <2> SUFFICES ASSUME NEW i \in DOMAIN Append(s, b), NEW j \in DOMAIN Append(s, b), i < j
               PROVE  Before(Append(s, b)[i], Append(s, b)[j])
    BY DEF Sorted
  <2>1. i \in DOMAIN s /\ Append(s, b)[i] = s[i] /\ s[i] \in Items(s)
    BY <1>1 DEF Items
  <2>2. CASE j \in DOMAIN s
    BY <1>1, <2>1, <2>2 DEF Sorted
  <2>3. CASE j = Len(s) + 1
    BY <1>1, <2>1, <2>3
  <2> QED BY <1>1, <2>2, <2>3
<1>3. Items(Append(s, b)) = Items(s) \cup {b}
  <2>1. \A i \in DOMAIN Append(s, b) : i \in DOMAIN s \/ i = Len(s) + 1
    BY <1>1
  <2>2. Len(s) + 1 \in DOMAIN Append(s, b) /\ DOMAIN s \subseteq DOMAIN Append(s, b)
    BY <1>1
  <2> QED BY <1>1, <2>1, <2>2 DEF Items
<1> QED BY <1>2, <1>3

\* The head of a sequence in order comes before its tail, which is in order too.
LEMMA SortedTail ==
  ASSUME NEW s \in Seq(Batches), s # <<>>, Sorted(s)
  PROVE  /\ Sorted(Tail(s)) /\ \A y \in Items(Tail(s)) : Before(Head(s), y)
         /\ Items(s) = Items(Tail(s)) \cup {Head(s)}
<1>1. /\ DOMAIN s = 1..Len(s) /\ Len(s) \in Nat \ {0} /\ Head(s) = s[1]
      /\ DOMAIN Tail(s) = 1..(Len(s) - 1)
      /\ \A i \in DOMAIN Tail(s) : Tail(s)[i] = s[i + 1] /\ i + 1 \in DOMAIN s /\ i + 1 > 1
  BY HeadTailProperties, LenProperties, EmptySeq
<1>2. \A j \in DOMAIN s : j = 1 \/ (j - 1 \in DOMAIN Tail(s) /\ Tail(s)[j - 1] = s[j])
  BY <1>1
<1>3. 1 \in DOMAIN s
  BY <1>1
<1>4. Sorted(Tail(s))
  BY <1>1 DEF Sorted
<1>5. \A y \in Items(Tail(s)) : Before(Head(s), y)
  BY <1>1, <1>3 DEF Sorted, Items
<1>6. Items(s) = Items(Tail(s)) \cup {Head(s)}
  BY <1>1, <1>2, <1>3 DEF Items
<1> QED BY <1>4, <1>5, <1>6

\* Where a batch is; it is in one place only.
Live == hand \cup detached \cup stored \cup erased \cup Items(queue) \cup Items(taken)

Placed ==
    /\ \A x, y \in hand : x = y
    /\ Live \subseteq Items(accepted) /\ dropped \subseteq submitted
    /\ hand \cup detached \subseteq Items(handed)
    /\ Items(queue) \cap (Items(taken) \cup hand \cup detached) = {}
    /\ Items(queue) \cap (stored \cup erased \cup dropped) = {}
    /\ Items(taken) \cap (hand \cup detached \cup stored \cup erased \cup dropped) = {}
    /\ hand \cap (detached \cup stored \cup erased \cup dropped) = {}
    /\ detached \cap (stored \cup erased \cup dropped) = {}
    /\ stored \cap (erased \cup dropped) = {}
    /\ erased \cap dropped = {}
    /\ \A b \in Items(accepted) :
          b \in Live \cup dropped \/ (closing # "no" /\ b \in Items(handed))

\* Both hold at first.
LEMMA KeptInit == Init => Ordered /\ Placed
<1> SUFFICES ASSUME Init PROVE Ordered /\ Placed
  OBVIOUS
<1>1. Items(<<>>) = {} /\ DOMAIN <<>> = {}
  BY DEF Items
<1> QED BY <1>1 DEF Init, Ordered, Placed, Live, Sorted, Precedes

\* Every step keeps the order.
LEMMA OrderedStep ==
  Types /\ Bookkeeping /\ ClearsHold /\ Placed /\ Ordered /\ [Next]_vars => Ordered'
<1> SUFFICES ASSUME Types, Bookkeeping, ClearsHold, Placed, Ordered, [Next]_vars PROVE Ordered'
  OBVIOUS
<1>0. /\ queue \in Seq(Batches) /\ taken \in Seq(Batches)
      /\ accepted \in Seq(Batches) /\ handed \in Seq(Batches)
  BY DEF Types, SeqTypes
<1>1. Items(<<>>) = {} /\ Sorted(<<>>)
  BY DEF Items, Sorted
<1>2. ASSUME UNCHANGED <<accepted, handed>>, submitted \subseteq submitted',
             queue' \in {queue, taken, <<>>}, taken' \in {queue, taken, <<>>}
      PROVE  Ordered'
  <2>1. \A x, y : Before(x, y)' <=> Before(x, y)
    BY <1>2 DEF Before
  <2>2. \A s : Sorted(s)' <=> Sorted(s)
    BY <2>1 DEF Sorted
  <2>3. \A s, t : Precedes(s, t)' <=> Precedes(s, t)
    BY <2>1 DEF Precedes
  <2>4. Precedes(handed, <<>>)
    BY <1>1 DEF Precedes
  <2> QED BY <1>1, <1>2, <2>2, <2>3, <2>4 DEF Ordered
<1> USE DEF inputVars, clearVars
<1>6. CASE Tick
  BY <1>2, <1>6 DEF Tick
<1>7. ASSUME NEW b \in Batches, TrySubmit(b) PROVE Ordered'
  <2>1. CASE accepted' = accepted
    <3>1. queue' = queue
      BY <1>0, <1>7, <2>1, AppendProperties DEF TrySubmit
    <3> QED BY <1>2, <1>7, <2>1, <3>1 DEF TrySubmit
  <2>2. CASE accepted' # accepted
    <3>1. /\ accepted' = Append(accepted, b) /\ queue' = Append(queue, b)
          /\ b \notin submitted /\ submitted' = submitted \cup {b}
          /\ UNCHANGED <<handed, taken>> /\ clearing = "no"
      BY <1>7, <2>2 DEF TrySubmit, Refused
    <3>2. /\ \A x, y : Before(x, y) => Before(x, y)'
          /\ \A x \in Items(accepted) : Before(x, b)'
          /\ Items(accepted') = Items(accepted) \cup {b}
      BY <3>1, BeforeGrows
    <3>3. taken = <<>> /\ \A x : Precedes(x, <<>>)'
      BY <1>1, <3>1 DEF Bookkeeping, Precedes
    <3>4. Sorted(handed)' /\ Sorted(queue)'
      <4>1. \A s : Sorted(s) => \A i, j \in DOMAIN s : i < j => Before(s[i], s[j])'
        BY <3>2 DEF Sorted
      <4>2. Sorted(handed)'
        BY <3>1, <4>1 DEF Sorted, Ordered
      <4>3. /\ DOMAIN queue = 1..Len(queue) /\ Len(queue) \in Nat
            /\ DOMAIN queue' = 1..(Len(queue) + 1)
            /\ \A i \in DOMAIN queue : queue'[i] = queue[i]
            /\ queue'[Len(queue) + 1] = b
        BY <1>0, <3>1, AppendProperties, LenProperties
      <4>4. ASSUME NEW i \in DOMAIN queue', NEW j \in DOMAIN queue', i < j
            PROVE  Before(queue[i], queue[j])'
        <5>1. i \in DOMAIN queue /\ queue'[i] = queue[i] /\ queue[i] \in Items(accepted)
          BY <4>3, <4>4 DEF Placed, Live, Items
        <5>2. CASE j \in DOMAIN queue
          BY <4>1, <4>3, <4>4, <5>1, <5>2 DEF Ordered, Before
        <5>3. CASE j = Len(queue) + 1
          BY <3>2, <4>3, <5>1, <5>3 DEF Before
        <5> QED BY <4>3, <5>2, <5>3
      <4> QED BY <4>2, <4>4 DEF Sorted
    <3>5. Items(queue') \subseteq Items(queue) \cup {b}
      BY <1>0, <3>1, ItemsOf
    <3>6. Items(handed) \subseteq Items(accepted)
      BY DEF Ordered
    <3>7. Precedes(handed, queue)'
      BY <3>1, <3>2, <3>5, <3>6 DEF Precedes, Ordered
    <3>8. \A i, j \in DOMAIN accepted' : accepted'[i] = accepted'[j] => i = j
      <4>1. /\ DOMAIN accepted = 1..Len(accepted) /\ Len(accepted) \in Nat
            /\ DOMAIN accepted' = 1..(Len(accepted) + 1)
            /\ \A i \in DOMAIN accepted : accepted'[i] = accepted[i]
            /\ accepted'[Len(accepted) + 1] = b
        BY <1>0, <3>1, AppendProperties, LenProperties
      <4>2. \A i \in DOMAIN accepted : accepted[i] # b
        BY <3>1 DEF Ordered, Items
      <4>3. \A i \in DOMAIN accepted' : i \in DOMAIN accepted \/ i = Len(accepted) + 1
        BY <4>1
      <4> QED BY <4>1, <4>2, <4>3 DEF Ordered
    <3> QED BY <1>1, <3>1, <3>2, <3>3, <3>4, <3>7, <3>8 DEF Ordered, Sorted
  <2> QED BY <2>1, <2>2
<1>8. ASSUME NEW b \in Batches, WriterIngests(b) \/ DetachedIngests(b) PROVE Ordered'
  BY <1>2, <1>8 DEF WriterIngests, DetachedIngests
<1>9. CASE WriterTakes
  <2>1. /\ queue # <<>> /\ queue' = Tail(queue) /\ handed' = Append(handed, Head(queue))
        /\ UNCHANGED <<accepted, taken, submitted>>
    BY <1>9 DEF WriterTakes
  <2>2. taken = <<>>
    BY <1>9 DEF WriterTakes, Bookkeeping, OneWriter
  <2>3. \A x, y : Before(x, y)' <=> Before(x, y)
    BY <2>1 DEF Before
  <2>4. Head(queue) \in Batches
    BY <1>0, <2>1, HeadTailProperties
  <2>5. /\ Sorted(Tail(queue)) /\ \A y \in Items(Tail(queue)) : Before(Head(queue), y)
        /\ Items(queue) = Items(Tail(queue)) \cup {Head(queue)}
    BY <1>0, <2>1, SortedTail DEF Ordered
  <2>6. Sorted(handed') /\ Items(handed') = Items(handed) \cup {Head(queue)}
    BY <1>0, <2>1, <2>4, <2>5, SortedAppend DEF Ordered, Precedes
  <2>7. Precedes(handed, queue)'
    BY <2>1, <2>3, <2>5, <2>6 DEF Ordered, Precedes
  <2>8. Sorted(handed)' /\ Sorted(queue)'
    BY <2>1, <2>3, <2>5, <2>6 DEF Sorted
  <2>9. Head(queue) \in Items(accepted)
    BY <2>5 DEF Placed, Live
  <2> QED BY <1>1, <2>1, <2>2, <2>6, <2>7, <2>8, <2>9 DEF Ordered, Sorted, Precedes
<1>10. CASE ClearIsAsked \/ ClearIsRefused \/ ClearDeletes \/ CloseBegins
  BY <1>2, <1>10 DEF ClearIsAsked, ClearIsRefused, ClearDeletes, CloseBegins
<1>11. CASE ClearBegins \/ ClearSucceeds \/ CloseEnds
  BY <1>2, <1>11 DEF ClearBegins, ClearSucceeds, CloseEnds, Reopen
<1>12. CASE ClearFails
  <2>1. queue' = taken
    BY <1>0, <1>12, ItemsOf DEF ClearFails, ClearsHold
  <2> QED BY <1>2, <1>12, <2>1 DEF ClearFails, Reopen
<1>13. CASE Terminated \/ UNCHANGED vars
  BY <1>2, <1>13 DEF Terminated, vars
<1> QED
  BY <1>6, <1>7, <1>8, <1>9, <1>10, <1>11, <1>12, <1>13 DEF Next

\* Every step takes a batch from one place to another.
LEMMA PlacedStep ==
  Types /\ Bookkeeping /\ ClearsHold /\ Placed /\ Ordered /\ [Next]_vars => Placed'
<1> SUFFICES ASSUME Types, Bookkeeping, ClearsHold, Placed, Ordered, [Next]_vars PROVE Placed'
  OBVIOUS
<1>0. /\ queue \in Seq(Batches) /\ taken \in Seq(Batches)
      /\ accepted \in Seq(Batches) /\ handed \in Seq(Batches)
  BY DEF Types, SeqTypes
<1>1. Items(<<>>) = {}
  BY DEF Items
<1>2. \A s, b : s \in Seq(Batches) /\ b \in Batches =>
         Items(Append(s, b)) = Items(s) \cup {b}
  <2> SUFFICES ASSUME NEW s \in Seq(Batches), NEW b \in Batches
               PROVE  Items(Append(s, b)) = Items(s) \cup {b}
    OBVIOUS
  <2>1. /\ DOMAIN s = 1..Len(s) /\ Len(s) \in Nat
        /\ DOMAIN Append(s, b) = 1..(Len(s) + 1)
        /\ \A i \in DOMAIN s : Append(s, b)[i] = s[i]
        /\ Append(s, b)[Len(s) + 1] = b
    BY AppendProperties, LenProperties
  <2>2. \A i \in DOMAIN Append(s, b) : i \in DOMAIN s \/ i = Len(s) + 1
    BY <2>1
  <2>3. Len(s) + 1 \in DOMAIN Append(s, b) /\ DOMAIN s \subseteq DOMAIN Append(s, b)
    BY <2>1
  <2> QED BY <2>1, <2>2, <2>3 DEF Items
<1>3. ASSUME UNCHANGED <<queue, taken, accepted, handed>>
      PROVE  /\ Items(queue') = Items(queue) /\ Items(taken') = Items(taken)
             /\ Items(accepted') = Items(accepted) /\ Items(handed') = Items(handed)
  BY <1>3
<1> USE DEF inputVars, clearVars, Live
<1>6. CASE Tick \/ Terminated \/ UNCHANGED vars
  BY <1>6 DEF Tick, Terminated, vars, Placed
<1>7. ASSUME NEW b \in Batches, TrySubmit(b) PROVE Placed'
  <2>1. CASE UNCHANGED <<queue, accepted>>
    BY <1>7, <2>1 DEF TrySubmit, Placed, Ordered
  <2>2. CASE /\ queue' = Append(queue, b) /\ accepted' = Append(accepted, b)
             /\ UNCHANGED dropped
    <3>1. /\ Items(queue') = Items(queue) \cup {b}
          /\ Items(accepted') = Items(accepted) \cup {b}
      BY <1>0, <1>2, <2>2
    <3>2. b \notin Live \cup dropped
      BY <1>7 DEF TrySubmit, Placed, Ordered
    <3> QED BY <1>7, <2>2, <3>1, <3>2 DEF TrySubmit, Placed
  <2> QED BY <1>7, <2>1, <2>2 DEF TrySubmit
<1>8. ASSUME NEW b \in Batches, WriterIngests(b) PROVE Placed'
  <2>1. hand = {b}
    BY <1>8 DEF WriterIngests, Placed
  <2> QED BY <1>8, <2>1 DEF WriterIngests, Placed, Ordered
<1>9. ASSUME NEW b \in Batches, DetachedIngests(b) PROVE Placed'
  BY <1>9 DEF DetachedIngests, Placed, Ordered
<1>10. CASE WriterTakes
  <2>1. /\ queue # <<>> /\ queue' = Tail(queue) /\ handed' = Append(handed, Head(queue))
        /\ hand = {} /\ hand' = {Head(queue)}
        /\ UNCHANGED <<accepted, taken, submitted, detached, stored, erased, dropped,
                       closing>>
    BY <1>10 DEF WriterTakes
  <2>2. Head(queue) \in Batches
    BY <1>0, <2>1, HeadTailProperties
  <2>3. /\ \A y \in Items(Tail(queue)) : Before(Head(queue), y)
        /\ Items(queue) = Items(Tail(queue)) \cup {Head(queue)}
    BY <1>0, <2>1, SortedTail DEF Ordered
  <2>4. Head(queue) \notin Items(Tail(queue))
    BY <2>3, BeforeIsStrict
  <2>5. Items(handed') = Items(handed) \cup {Head(queue)}
    BY <1>0, <1>2, <2>1, <2>2
  <2> QED BY <2>1, <2>3, <2>4, <2>5 DEF Placed
<1>11. CASE ClearIsAsked \/ ClearIsRefused \/ CloseBegins
  BY <1>11 DEF ClearIsAsked, ClearIsRefused, CloseBegins, Placed
<1>12. CASE ClearBegins
  <2>1. taken = <<>>
    BY <1>12 DEF ClearBegins, Bookkeeping
  <2> QED BY <1>1, <1>12, <2>1 DEF ClearBegins, Placed
<1>13. CASE ClearDeletes
  BY <1>13 DEF ClearDeletes, Placed
<1>14. CASE ClearSucceeds
  BY <1>1, <1>14 DEF ClearSucceeds, Reopen, Placed, Ordered
<1>15. CASE ClearFails
  <2>1. queue' = taken /\ queue = <<>>
    BY <1>0, <1>15, ItemsOf DEF ClearFails, ClearsHold
  <2> QED BY <1>1, <1>15, <2>1 DEF ClearFails, Reopen, Placed
<1>16. CASE CloseEnds
  BY <1>1, <1>16 DEF CloseEnds, Placed, Ordered
<1> QED
  BY <1>6, <1>7, <1>8, <1>9, <1>10, <1>11, <1>12, <1>13, <1>14, <1>15, <1>16 DEF Next

\* The writer takes the batches in the order of their acceptance, and each of them is in
\* one place, whatever is cleared and whenever the service is closed.
THEOREM BatchesKept == Spec => []BatchesAreKept
<1> DEFINE Inv == Types /\ Bookkeeping /\ ClearsHold /\ Placed /\ Ordered
<1>1. Inv /\ [Next]_vars => (ClearsHold /\ Placed /\ Ordered)'
  BY ClearedStep, PlacedStep, OrderedStep
<1>2. Inv => BatchesAreKept
  <2> SUFFICES ASSUME Inv PROVE BatchesAreKept
    OBVIOUS
  <2>1. WriterInOrder
    BY DEF Ordered, Sorted, Before, WriterInOrder
  <2>2. ASSUME NEW b \in Items(accepted)
        PROVE  /\ \A p, q \in Places(b) : p = q
               /\ Places(b) = {} => closing # "no" /\ b \in Items(handed)
    <3>1. /\ "queue" \in Places(b) <=> b \in Items(queue)
          /\ "taken" \in Places(b) <=> b \in Items(taken)
          /\ "hand" \in Places(b) <=> b \in hand
          /\ "detached" \in Places(b) <=> b \in detached
          /\ "stored" \in Places(b) <=> b \in stored
          /\ "erased" \in Places(b) <=> b \in erased
          /\ "dropped" \in Places(b) <=> b \in dropped
          /\ Places(b) \subseteq {"queue", "taken", "hand", "detached", "stored",
                                  "erased", "dropped"}
      BY DEF Places
    <3>2. \A p, q \in Places(b) : p = q
      BY <3>1 DEF Placed
    <3>3. Places(b) = {} => closing # "no" /\ b \in Items(handed)
      BY <3>1 DEF Placed, Live
    <3> QED BY <3>2, <3>3
  <2> QED BY <2>1, <2>2 DEF BatchesAreKept, Accounted
<1>3. Init => ClearsHold /\ Placed /\ Ordered
  BY ClearedInit, KeptInit
<1> QED
  BY <1>1, <1>2, <1>3, BookkeepingCorrect, PTL DEF Spec

-----------------------------------------------------------------------------
(***************************************************************************)
(* The imports: first sequences without repetitions, and what is in them.  *)
(***************************************************************************)

Distinct(s) == \A i, j \in 1..Len(s) : s[i] = s[j] => i = j

\* What is appended to a sequence is in it, once if it was not before.
LEMMA AppendedHas ==
    ASSUME NEW S, NEW s \in Seq(S), NEW x \in S, Distinct(s), ~Contains(s, x)
    PROVE  /\ Append(s, x) \in Seq(S) /\ Distinct(Append(s, x))
           /\ Len(Append(s, x)) = Len(s) + 1
           /\ \A e : Contains(Append(s, x), e) <=> Contains(s, e) \/ e = x
<1>1. /\ Len(s) \in Nat /\ Append(s, x) \in Seq(S)
      /\ Len(Append(s, x)) = Len(s) + 1 /\ Append(s, x)[Len(s) + 1] = x
      /\ \A i \in 1..Len(s) : Append(s, x)[i] = s[i]
    BY AppendProperties, LenProperties
<1>2. Distinct(Append(s, x))
    BY <1>1 DEF Distinct, Contains
<1>3. \A e : Contains(Append(s, x), e) <=> Contains(s, e) \/ e = x
    BY <1>1 DEF Contains
<1> QED
    BY <1>1, <1>2, <1>3

\* What is taken out of a sequence that had it once is gone, and the others are there.
LEMMA RemovedHas ==
    ASSUME NEW S, NEW s \in Seq(S), NEW x, Distinct(s), Contains(s, x)
    PROVE  LET less == RemoveAt(s, CHOOSE i \in DOMAIN s : s[i] = x)
           IN  /\ less \in Seq(S) /\ Distinct(less) /\ Len(less) = Len(s) - 1
               /\ \A e : Contains(less, e) <=> Contains(s, e) /\ e # x
<1> DEFINE k == CHOOSE i \in DOMAIN s : s[i] = x
           old == SubSeq(s, 1, k - 1)
           young == SubSeq(s, k + 1, Len(s))
<1>1. Len(s) \in Nat /\ DOMAIN s = 1..Len(s) /\ k \in 1..Len(s) /\ s[k] = x
    BY LenProperties DEF Contains
<1>2. RemoveAt(s, k) = old \o young
    BY DEF RemoveAt
<1> HIDE DEF k
<1>3. old \in Seq(S) /\ Len(old) = k - 1 /\ \A i \in 1..(k - 1) : old[i] = s[i]
    BY <1>1, SubSeqProperties
<1>4. /\ young \in Seq(S) /\ Len(young) = Len(s) - k
      /\ \A i \in 1..(Len(s) - k) : young[i] = s[k + i]
  <2>1. k + 1 \in 1..(Len(s) + 1) /\ Len(s) \in k..Len(s)
      BY <1>1
  <2>2. /\ young \in Seq(S)
        /\ Len(young) = IF k + 1 <= Len(s) THEN Len(s) - (k + 1) + 1 ELSE 0
        /\ \A i \in 1..(Len(s) - (k + 1) + 1) : young[i] = s[(k + 1) + i - 1]
      BY <1>1, <2>1, SubSeqProperties
  <2> HIDE DEF young
  <2>3. Len(young) = Len(s) - k
    <3>1. CASE k + 1 <= Len(s)
      <4>1. Len(young) = Len(s) - (k + 1) + 1
          BY ONLY <2>2, <3>1
      <4> QED
          BY ONLY <1>1, <4>1
    <3>2. CASE ~(k + 1 <= Len(s))
      <4>1. Len(young) = 0
          BY ONLY <2>2, <3>2
      <4>2. Len(s) \in Nat /\ k \in Nat /\ k <= Len(s)
          BY ONLY <1>1
      <4>3. k = Len(s)
          BY ONLY <3>2, <4>2
      <4> QED
          BY ONLY <4>1, <4>2, <4>3
    <3> QED
        BY ONLY <3>1, <3>2
  <2>4. ASSUME NEW i \in 1..(Len(s) - k)
        PROVE  young[i] = s[k + i]
    <3>1. i \in 1..(Len(s) - (k + 1) + 1) /\ (k + 1) + i - 1 = k + i
        BY <1>1
    <3>2. young[i] = s[(k + 1) + i - 1]
        BY <2>2, <3>1
    <3> QED
        BY <3>1, <3>2
  <2> QED
      BY <2>2, <2>3, <2>4
<1> HIDE DEF old, young
<1> DEFINE both == old \o young
<1>5. /\ both \in Seq(S) /\ Len(both) = Len(s) - 1
      /\ \A i \in 1..(Len(s) - 1) : both[i] = IF i < k THEN s[i] ELSE s[i + 1]
  <2>1. /\ both \in Seq(S) /\ Len(both) = Len(old) + Len(young)
        /\ \A i \in 1..(Len(old) + Len(young)) :
              both[i] = IF i <= Len(old) THEN old[i] ELSE young[i - Len(old)]
      BY <1>3, <1>4, ConcatProperties
  <2> HIDE DEF both
  <2>2. ASSUME NEW i \in 1..(Len(s) - 1)
        PROVE  both[i] = IF i < k THEN s[i] ELSE s[i + 1]
    <3>1. CASE i < k
      <4>1. i \in 1..(k - 1) /\ i <= Len(old) /\ i \in 1..(Len(old) + Len(young))
          BY <1>1, <1>3, <1>4, <3>1
      <4>2. both[i] = old[i] /\ old[i] = s[i]
          BY <1>3, <2>1, <4>1
      <4> QED
          BY <3>1, <4>2
    <3>2. CASE i >= k
      <4>1. /\ i - (k - 1) \in 1..(Len(s) - k)
            /\ k + (i - (k - 1)) = i + 1
          BY <1>1, <3>2
      <4>2. both[i] = young[i - (k - 1)]
        <5>1. /\ i \in 1..(Len(old) + Len(young)) /\ ~(i <= Len(old))
              /\ i - Len(old) = i - (k - 1)
            BY <1>1, <1>3, <1>4, <3>2
        <5> QED
            BY ONLY <2>1, <5>1
      <4>3. young[i - (k - 1)] = s[k + (i - (k - 1))]
          BY ONLY <1>4, <4>1
      <4>4. both[i] = s[i + 1]
          BY ONLY <4>1, <4>2, <4>3
      <4>5. ~(i < k)
          BY <1>1, <3>2
      <4> QED
          BY ONLY <4>4, <4>5
    <3> QED
        BY <1>1, <3>1, <3>2
  <2> QED
      BY <1>1, <1>3, <1>4, <2>1, <2>2
<1> HIDE DEF both
<1>6. Distinct(both)
  <2> SUFFICES ASSUME NEW i \in 1..Len(both), NEW j \in 1..Len(both),
                      both[i] = both[j]
               PROVE  i = j
      BY DEF Distinct
  <2> DEFINE a == IF i < k THEN i ELSE i + 1
             b == IF j < k THEN j ELSE j + 1
  <2>1. both[i] = s[a] /\ both[j] = s[b]
      BY <1>5
  <2>2. a \in 1..Len(s) /\ b \in 1..Len(s) /\ (a = b => i = j)
      BY <1>1, <1>5
  <2> HIDE DEF a, b
  <2>3. a = b
      BY ONLY <2>1, <2>2, both[i] = both[j], Distinct(s) DEF Distinct
  <2> QED
      BY <2>2, <2>3
<1>7. ASSUME NEW e, Contains(both, e)
      PROVE  Contains(s, e) /\ e # x
    BY <1>1, <1>5, <1>7 DEF Contains, Distinct
<1>8. ASSUME NEW e, Contains(s, e), e # x
      PROVE  Contains(both, e)
  <2>1. PICK i \in 1..Len(s) : s[i] = e
      BY <1>8 DEF Contains
  <2>2. CASE i < k
      BY <1>1, <1>5, <2>1, <2>2 DEF Contains
  <2>3. CASE i > k
    <3>1. i - 1 \in 1..Len(both) /\ both[i - 1] = s[i]
        BY <1>1, <1>5, <2>1, <2>3
    <3> QED
        BY <2>1, <3>1 DEF Contains
  <2> QED
      BY <1>1, <1>8, <2>1, <2>2, <2>3
<1> QED
    BY <1>2, <1>5, <1>6, <1>7, <1>8 DEF both, k

\* The set of a sequence is what it contains.
LEMMA SetOfSequence ==
    ASSUME NEW S, NEW s \in Seq(S)
    PROVE  /\ \A e : e \in ToSet(s) <=> Contains(s, e)
           /\ \A e : Contains(s, e) => e \in S
<1>1. Len(s) \in Nat /\ DOMAIN s = 1..Len(s) /\ \A i \in 1..Len(s) : s[i] \in S
    BY ElementOfSeq, LenProperties
<1> QED
    BY <1>1 DEF ToSet, Contains

-----------------------------------------------------------------------------
(***************************************************************************)
(* The invariant.                                                          *)
(***************************************************************************)

\* What is used of a database: it has a revision, which is counted.
IsDatabase(d) == "revision" \in DOMAIN d /\ d.revision \in Nat

StoreTypes ==
    /\ IsDatabase(db) /\ IsDatabase(backup)
    /\ cached \in Seq(Tokens) /\ files \subseteq Tokens /\ up \in BOOLEAN
    /\ job \in [kind : {"none", "preview", "copy", "apply", "discard"},
                token : Tokens \cup {None}, base : Nat]
    /\ DOMAIN plans = Tokens
    /\ plans = [p \in Tokens |-> plans[p]]

\* Which previews there are while the import lock is held, and that each is kept once.
Applying == job.kind \in {"copy", "apply", "discard"}
PreviewsAreKept ==
    /\ Distinct(cached) /\ Len(cached) <= MaxPending
    /\ job.kind = "none" <=> job.token = None
    /\ job.kind = "none" => job = NoJob
    /\ job.kind = "preview" => Len(cached) < MaxPending /\ ~Contains(cached, job.token)
    /\ Applying => Contains(cached, job.token)
    /\ ~up => cached = <<>> /\ job = NoJob

FilesAreOwned == up => \A p \in Tokens : p \in files <=> Contains(cached, p) \/ p = job.token

\* A plan of the revision the database has is a plan for that database.
PlanFits(p) ==
    /\ plans[p].base \in Nat /\ plans[p].base <= db.revision
    /\ plans[p].base = db.revision => plans[p].plan = Plan(db, plans[p].bundle)
PlansFit ==
    /\ \A p \in Tokens : Contains(cached, p) => PlanFits(p)
    /\ job.base <= db.revision
    /\ job.kind \in {"copy", "apply"} => job.base = plans[job.token].base

\* And so is the backup, if the revision is the one it was made of.
BackupFits ==
    job.kind = "apply" =>
        /\ job.base <= backup.revision /\ backup.revision <= db.revision
        /\ backup.revision = db.revision => backup = db

StoreInv == StoreTypes /\ PreviewsAreKept /\ FilesAreOwned /\ PlansFit /\ BackupFits

-----------------------------------------------------------------------------
(***************************************************************************)
(* A transaction leaves the database alone, or counts the revision.        *)
(***************************************************************************)

Counts(d, new) == IsDatabase(new) /\ (new = d \/ new.revision = d.revision + 1)

LEMMA IngestedCounts ==
    ASSUME NEW d, IsDatabase(d), NEW t, NEW n
    PROVE  Counts(d, Ingested(d, t, n))
BY DEF IsDatabase, Counts, Ingested

LEMMA PurgedCounts ==
    ASSUME NEW d, IsDatabase(d), NEW expired
    PROVE  Counts(d, Purged(d, expired))
BY DEF IsDatabase, Counts, Purged

LEMMA ForgottenCounts ==
    ASSUME NEW d, IsDatabase(d), NEW i
    PROVE  Counts(d, ForgottenIn(d, i))
BY DEF IsDatabase, Counts, ForgottenIn

LEMMA ClearedCounts ==
    ASSUME NEW d, IsDatabase(d)
    PROVE  Counts(d, Cleared(d))
BY DEF IsDatabase, Counts, Cleared, EmptyDatabase

LEMMA ClaimedCounts ==
    ASSUME NEW d, IsDatabase(d), NEW i, NEW revision
    PROVE  Counts(d, Claimed(d, i, revision))
BY DEF IsDatabase, Counts, Claimed

LEMMA ImportedCounts ==
    ASSUME NEW d, IsDatabase(d), NEW bundle, NEW plan
    PROVE  Counts(d, Imported(d, bundle, plan))
BY DEF IsDatabase, Counts, Imported

-----------------------------------------------------------------------------
(***************************************************************************)
(* The invariant holds at first, and every step keeps it.                  *)
(***************************************************************************)

LEMMA StoreBegins == StoreInit => StoreInv
<1> SUFFICES ASSUME StoreInit
             PROVE  StoreInv
    OBVIOUS
<1> USE StoreAssumption DEF StoreInit
<1>1. IsDatabase(EmptyDatabase) /\ EmptyDatabase.revision = 0
    BY DEF IsDatabase, EmptyDatabase
<1>2. <<>> \in Seq(Tokens) /\ Len(<<>>) = 0 /\ \A p : ~Contains(<<>>, p)
    BY EmptySeq DEF Contains
<1>3. StoreTypes
    BY <1>1, <1>2 DEF StoreTypes, NoJob
<1>4. PreviewsAreKept
    BY <1>2 DEF PreviewsAreKept, Distinct, Applying, NoJob
<1>5. FilesAreOwned
    BY <1>2 DEF FilesAreOwned, NoJob
<1>6. PlansFit /\ BackupFits
    BY <1>1, <1>2 DEF PlansFit, BackupFits, NoJob
<1> QED
    BY <1>3, <1>4, <1>5, <1>6 DEF StoreInv

\* Who changes the database counts its revision: a plan and a backup that were for it
\* are of an older revision now.
LEMMA TransactionKeeps ==
    ASSUME StoreInv, Counts(db, db'), UNCHANGED <<up, importVars>>
    PROVE  StoreInv'
<1>1. IsDatabase(db) /\ IsDatabase(db') /\ (db' = db \/ db'.revision = db.revision + 1)
    BY DEF StoreInv, StoreTypes, Counts
<1>2. db.revision \in Nat /\ db'.revision \in Nat /\ db.revision <= db'.revision
    BY <1>1 DEF IsDatabase
<1>3. StoreTypes' /\ PreviewsAreKept' /\ FilesAreOwned'
    BY <1>1 DEF StoreInv, StoreTypes, PreviewsAreKept, FilesAreOwned, Applying, importVars
<1>4. ASSUME NEW p \in Tokens, Contains(cached, p)
      PROVE  PlanFits(p)'
    BY <1>1, <1>2, <1>4 DEF StoreInv, PlansFit, PlanFits, importVars
<1>5. PlansFit'
    BY <1>2, <1>4 DEF StoreInv, StoreTypes, PlansFit, importVars
<1>6. BackupFits'
  <2>1. backup.revision \in Nat /\ job.base \in Nat
      BY DEF StoreInv, StoreTypes, IsDatabase
  <2> QED
      BY <1>1, <1>2, <2>1 DEF StoreInv, BackupFits, importVars
<1> QED
    BY <1>3, <1>5, <1>6 DEF StoreInv

\* Without a preview's plan and its file, all others are as they were.
LEMMA DiscardsKeeps ==
    ASSUME StoreInv, NEW p \in Tokens, Contains(cached, p), Discards(p)
    PROVE  /\ cached' \in Seq(Tokens) /\ Distinct(cached') /\ Len(cached') = Len(cached) - 1
           /\ \A e : Contains(cached', e) <=> Contains(cached, e) /\ e # p
           /\ DOMAIN plans' = Tokens /\ plans' = [q \in Tokens |-> plans'[q]]
           /\ \A q \in Tokens \ {p} : plans'[q] = plans[q]
<1>1. cached \in Seq(Tokens) /\ Distinct(cached)
    BY DEF StoreInv, StoreTypes, PreviewsAreKept
<1>2. cached' = RemoveAt(cached, CHOOSE i \in DOMAIN cached : cached[i] = p)
    BY DEF Discards
<1>3. /\ cached' \in Seq(Tokens) /\ Distinct(cached') /\ Len(cached') = Len(cached) - 1
      /\ \A e : Contains(cached', e) <=> Contains(cached, e) /\ e # p
    BY <1>1, <1>2, RemovedHas
<1>4. /\ DOMAIN plans' = Tokens /\ plans' = [q \in Tokens |-> plans'[q]]
      /\ \A q \in Tokens \ {p} : plans'[q] = plans[q]
    BY DEF StoreInv, StoreTypes, Discards
<1> QED
    BY <1>3, <1>4

\* A plan for the same database is still one.
LEMMA PlansFitStill ==
    ASSUME StoreInv, db' = db,
           \A p \in Tokens : Contains(cached', p) => Contains(cached, p) /\ plans'[p] = plans[p]
    PROVE  \A p \in Tokens : Contains(cached', p) => PlanFits(p)'
BY DEF StoreInv, PlansFit, PlanFits

LEMMA DiscardKeeps ==
    ASSUME StoreInv, NEW p \in Tokens, Discard(p)
    PROVE  StoreInv'
<1> USE StoreAssumption DEF Discard
<1>1. /\ cached' \in Seq(Tokens) /\ Distinct(cached') /\ Len(cached') = Len(cached) - 1
      /\ \A e : Contains(cached', e) <=> Contains(cached, e) /\ e # p
      /\ DOMAIN plans' = Tokens /\ plans' = [q \in Tokens |-> plans'[q]]
      /\ \A q \in Tokens \ {p} : plans'[q] = plans[q]
    BY DiscardsKeeps
<1>2. Len(cached) \in Nat /\ Len(cached) <= MaxPending
    BY LenProperties DEF StoreInv, StoreTypes, PreviewsAreKept
<1>3. StoreTypes'
    BY <1>1 DEF StoreInv, StoreTypes, IsDatabase
<1>4. PreviewsAreKept'
    BY <1>1, <1>2 DEF StoreInv, PreviewsAreKept, Applying, NoJob
<1>5. FilesAreOwned'
    BY <1>1 DEF StoreInv, FilesAreOwned, NoJob
<1>6. \A q \in Tokens : Contains(cached', q) => PlanFits(q)'
    BY <1>1, PlansFitStill
<1>7. PlansFit' /\ BackupFits'
    BY <1>6 DEF StoreInv, PlansFit, BackupFits, NoJob
<1> QED
    BY <1>3, <1>4, <1>5, <1>7 DEF StoreInv

LEMMA PreviewStagesKeeps ==
    ASSUME StoreInv, NEW p \in Tokens, PreviewStages(p)
    PROVE  StoreInv'
<1> USE StoreAssumption DEF PreviewStages
<1> DEFINE oldest == Head(cached)
<1>1. Len(cached) \in Nat /\ Len(cached) <= MaxPending /\ MaxPending \in Nat \ {0}
    BY LenProperties DEF StoreInv, StoreTypes, PreviewsAreKept
<1>2. \A q \in Tokens : q \in files <=> Contains(cached, q)
    BY DEF StoreInv, FilesAreOwned, NoJob
<1>3. /\ cached' \in Seq(Tokens) /\ Distinct(cached') /\ Len(cached') < MaxPending
      /\ ~Contains(cached', p)
      /\ DOMAIN plans' = Tokens /\ plans' = [q \in Tokens |-> plans'[q]]
      /\ \A q \in Tokens : Contains(cached', q) => Contains(cached, q) /\ plans'[q] = plans[q]
      /\ files' \subseteq Tokens
      /\ \A q \in Tokens : q \in files' <=> Contains(cached', q) \/ q = p
  <2>1. CASE Len(cached) < MaxPending
      BY <1>1, <1>2, <2>1 DEF StoreInv, StoreTypes, PreviewsAreKept
  <2>2. CASE ~(Len(cached) < MaxPending)
    <3>1. oldest \in Tokens /\ Contains(cached, oldest)
      <4>1. cached \in Seq(Tokens) /\ cached # <<>>
          BY <1>1, <2>2, EmptySeq DEF StoreInv, StoreTypes
      <4>2. Head(cached) = cached[1] /\ Head(cached) \in Tokens /\ 1 \in 1..Len(cached)
          BY <1>1, <2>2, <4>1, HeadTailProperties
      <4> QED
          BY <4>2 DEF Contains
    <3>2. Discards(oldest) /\ files' = (files \ {oldest}) \cup {p}
        BY <2>2
    <3> HIDE DEF oldest
    <3>3. /\ cached' \in Seq(Tokens) /\ Distinct(cached') /\ Len(cached') = Len(cached) - 1
          /\ \A e : Contains(cached', e) <=> Contains(cached, e) /\ e # oldest
          /\ DOMAIN plans' = Tokens /\ plans' = [q \in Tokens |-> plans'[q]]
          /\ \A q \in Tokens \ {oldest} : plans'[q] = plans[q]
        BY <3>1, <3>2, DiscardsKeeps
    <3> QED
        BY <1>1, <1>2, <3>1, <3>2, <3>3 DEF StoreInv, StoreTypes
  <2> QED
      BY <2>1, <2>2
<1>4. db.revision \in Nat
    BY DEF StoreInv, StoreTypes, IsDatabase
<1>5. StoreTypes'
    BY <1>3, <1>4 DEF StoreInv, StoreTypes, IsDatabase
<1>6. PreviewsAreKept'
    BY <1>3 DEF StoreInv, PreviewsAreKept, Applying
<1>7. FilesAreOwned'
    BY <1>3 DEF FilesAreOwned
<1>8. \A q \in Tokens : Contains(cached', q) => PlanFits(q)'
    BY <1>3, PlansFitStill
<1>9. PlansFit' /\ BackupFits'
    BY <1>4, <1>8 DEF PlansFit, BackupFits
<1> QED
    BY <1>5, <1>6, <1>7, <1>9 DEF StoreInv

\* The plan is made for the database as it is, whatever its revision was at the staging.
LEMMA PreviewPlansKeeps ==
    ASSUME StoreInv, PreviewPlans
    PROVE  StoreInv'
<1> USE StoreAssumption DEF PreviewPlans
<1> DEFINE p == job.token
<1> PICK bundle : plans' = [plans EXCEPT ![job.token] =
                     [base |-> job.base, bundle |-> Rederived(bundle),
                      plan |-> Plan(db, Rederived(bundle))]]
    OBVIOUS
<1>1. /\ p \in Tokens /\ job.base \in Nat /\ job.base <= db.revision
      /\ ~Contains(cached, p) /\ Len(cached) < MaxPending
      /\ cached \in Seq(Tokens) /\ Distinct(cached) /\ DOMAIN plans = Tokens
    BY DEF StoreInv, StoreTypes, PreviewsAreKept, PlansFit
<1>2. /\ cached' \in Seq(Tokens) /\ Distinct(cached') /\ Len(cached') = Len(cached) + 1
      /\ \A e : Contains(cached', e) <=> Contains(cached, e) \/ e = p
    BY <1>1, AppendedHas
<1>3. Len(cached) \in Nat /\ Len(cached') <= MaxPending
    BY <1>1, <1>2, LenProperties
<1>4. /\ DOMAIN plans' = Tokens /\ plans' = [q \in Tokens |-> plans'[q]]
      /\ \A q \in Tokens \ {p} : plans'[q] = plans[q]
      /\ plans'[p] = [base |-> job.base, bundle |-> Rederived(bundle),
                      plan |-> Plan(db, Rederived(bundle))]
    BY <1>1 DEF StoreInv, StoreTypes
<1>5. StoreTypes'
    BY <1>2, <1>4 DEF StoreInv, StoreTypes, NoJob, IsDatabase
<1>6. PreviewsAreKept'
    BY <1>2, <1>3 DEF StoreInv, PreviewsAreKept, Applying, NoJob
<1>7. FilesAreOwned'
    BY <1>2 DEF StoreInv, FilesAreOwned, NoJob
<1>8. ASSUME NEW q \in Tokens, Contains(cached', q)
      PROVE  PlanFits(q)'
  <2>1. CASE q = p
      BY <1>1, <1>4, <2>1 DEF PlanFits
  <2>2. CASE q # p
      BY <1>2, <1>4, <1>8, <2>2 DEF StoreInv, PlansFit, PlanFits
  <2> QED
      BY <2>1, <2>2
<1>9. PlansFit' /\ BackupFits'
    BY <1>8 DEF StoreInv, StoreTypes, IsDatabase, PlansFit, BackupFits, NoJob
<1> QED
    BY <1>5, <1>6, <1>7, <1>9 DEF StoreInv

LEMMA PreviewFailsKeeps ==
    ASSUME StoreInv, PreviewFails
    PROVE  StoreInv'
<1> USE StoreAssumption DEF PreviewFails
<1>1. StoreTypes'
    BY DEF StoreInv, StoreTypes, NoJob, IsDatabase
<1>2. PreviewsAreKept' /\ FilesAreOwned'
    BY DEF StoreInv, PreviewsAreKept, Applying, FilesAreOwned, NoJob
<1>3. \A q \in Tokens : Contains(cached', q) => PlanFits(q)'
    BY PlansFitStill
<1>4. PlansFit' /\ BackupFits'
    BY <1>3 DEF StoreInv, StoreTypes, IsDatabase, PlansFit, BackupFits, NoJob
<1> QED
    BY <1>1, <1>2, <1>4 DEF StoreInv

LEMMA ApplyBeginsKeeps ==
    ASSUME StoreInv, NEW p \in Tokens, ApplyBegins(p)
    PROVE  StoreInv'
<1> USE StoreAssumption DEF ApplyBegins
<1>1. PlanFits(p)
    BY DEF StoreInv, PlansFit
<1>2. /\ job'.kind \in {"discard", "copy"} /\ job'.token = p /\ job'.base = plans[p].base
      /\ job' \in [kind : {"none", "preview", "copy", "apply", "discard"},
                   token : Tokens \cup {None}, base : Nat]
    BY <1>1 DEF PlanFits
<1>3. StoreTypes'
    BY <1>2 DEF StoreInv, StoreTypes, IsDatabase
<1>4. PreviewsAreKept' /\ FilesAreOwned'
    BY <1>2 DEF StoreInv, PreviewsAreKept, Applying, FilesAreOwned, NoJob
<1>5. \A q \in Tokens : Contains(cached', q) => PlanFits(q)'
    BY PlansFitStill
<1>6. PlansFit' /\ BackupFits'
    BY <1>1, <1>2, <1>5 DEF PlanFits, PlansFit, BackupFits
<1> QED
    BY <1>3, <1>4, <1>6 DEF StoreInv

\* The import that holds the lock goes on with the same preview.
LEMMA ImportGoesOn ==
    ASSUME StoreInv, Applying, job'.kind \in {"copy", "apply", "discard"},
           job' = [job EXCEPT !.kind = job'.kind],
           UNCHANGED <<up, cached, plans, files>>, IsDatabase(db'), IsDatabase(backup')
    PROVE  StoreTypes' /\ PreviewsAreKept' /\ FilesAreOwned'
           /\ job'.token = job.token /\ job'.base = job.base
<1> USE StoreAssumption
<1>1. /\ job'.token = job.token /\ job'.base = job.base
      /\ job' \in [kind : {"none", "preview", "copy", "apply", "discard"},
                   token : Tokens \cup {None}, base : Nat]
    BY DEF StoreInv, StoreTypes
<1>2. StoreTypes'
    BY <1>1 DEF StoreInv, StoreTypes
<1>3. PreviewsAreKept' /\ FilesAreOwned'
    BY <1>1 DEF StoreInv, PreviewsAreKept, Applying, FilesAreOwned, NoJob
<1> QED
    BY <1>1, <1>2, <1>3

\* The backup is the database, and if its revision has changed since the preview it is
\* a later one.
LEMMA ApplyBacksUpKeeps ==
    ASSUME StoreInv, ApplyBacksUp
    PROVE  StoreInv'
<1> USE DEF ApplyBacksUp
<1>1. Applying /\ job'.kind = "apply" /\ job' = [job EXCEPT !.kind = job'.kind]
    BY DEF Applying, StoreInv, StoreTypes
<1>2. StoreTypes' /\ PreviewsAreKept' /\ FilesAreOwned' /\ job'.token = job.token
      /\ job'.base = job.base
    BY <1>1, ImportGoesOn DEF StoreInv, StoreTypes
<1>3. \A q \in Tokens : Contains(cached', q) => PlanFits(q)'
    BY PlansFitStill
<1>4. db.revision \in Nat
    BY DEF StoreInv, StoreTypes, IsDatabase
<1>5. PlansFit' /\ BackupFits'
    BY <1>2, <1>3, <1>4 DEF StoreInv, PlansFit, BackupFits
<1> QED
    BY <1>2, <1>5 DEF StoreInv

LEMMA ApplyCommitsKeeps ==
    ASSUME StoreInv, ApplyCommits
    PROVE  StoreInv'
<1> USE DEF ApplyCommits
<1>1. Counts(db, db')
    BY ImportedCounts DEF Changes, StoreInv, StoreTypes
<1>2. /\ IsDatabase(db') /\ IsDatabase(EmptyDatabase)
      /\ db.revision \in Nat /\ db'.revision \in Nat /\ (db' = db \/ db'.revision = db.revision + 1)
    BY <1>1 DEF Counts, IsDatabase, EmptyDatabase, StoreInv, StoreTypes
<1>3. Applying /\ job'.kind = "discard" /\ job' = [job EXCEPT !.kind = job'.kind]
    BY DEF Applying, StoreInv, StoreTypes
<1>4. StoreTypes' /\ PreviewsAreKept' /\ FilesAreOwned' /\ job'.token = job.token
      /\ job'.base = job.base
    BY <1>2, <1>3, ImportGoesOn
<1>5. ASSUME NEW q \in Tokens, Contains(cached', q)
      PROVE  PlanFits(q)'
    BY <1>2, <1>5 DEF StoreInv, PlansFit, PlanFits
<1>6. PlansFit' /\ BackupFits'
    BY <1>2, <1>3, <1>4, <1>5 DEF StoreInv, StoreTypes, PlansFit, BackupFits
<1> QED
    BY <1>4, <1>6 DEF StoreInv

LEMMA ApplyFailsKeeps ==
    ASSUME StoreInv, ApplyFails
    PROVE  StoreInv'
<1> USE DEF ApplyFails
<1>1. Applying /\ job'.kind = "discard" /\ job' = [job EXCEPT !.kind = job'.kind]
    BY DEF Applying, StoreInv, StoreTypes
<1>2. StoreTypes' /\ PreviewsAreKept' /\ FilesAreOwned' /\ job'.token = job.token
      /\ job'.base = job.base
    BY <1>1, ImportGoesOn DEF StoreInv, StoreTypes, IsDatabase, EmptyDatabase
<1>3. \A q \in Tokens : Contains(cached', q) => PlanFits(q)'
    BY PlansFitStill
<1>4. PlansFit' /\ BackupFits'
    BY <1>1, <1>2, <1>3 DEF StoreInv, PlansFit, BackupFits
<1> QED
    BY <1>2, <1>4 DEF StoreInv

LEMMA ApplyEndsKeeps ==
    ASSUME StoreInv, ApplyEnds
    PROVE  StoreInv'
<1> USE StoreAssumption DEF ApplyEnds
<1> DEFINE p == job.token
<1>1. p \in Tokens /\ Contains(cached, p)
    BY DEF StoreInv, StoreTypes, PreviewsAreKept, Applying
<1>2. /\ cached' \in Seq(Tokens) /\ Distinct(cached') /\ Len(cached') = Len(cached) - 1
      /\ \A e : Contains(cached', e) <=> Contains(cached, e) /\ e # p
      /\ DOMAIN plans' = Tokens /\ plans' = [q \in Tokens |-> plans'[q]]
      /\ \A q \in Tokens \ {p} : plans'[q] = plans[q]
    BY <1>1, DiscardsKeeps
<1>3. Len(cached) \in Nat /\ Len(cached) <= MaxPending
    BY LenProperties DEF StoreInv, StoreTypes, PreviewsAreKept
<1>4. StoreTypes'
    BY <1>2 DEF StoreInv, StoreTypes, IsDatabase, NoJob
<1>5. PreviewsAreKept'
    BY <1>2, <1>3 DEF StoreInv, PreviewsAreKept, Applying, NoJob
<1>6. FilesAreOwned'
    BY <1>1, <1>2 DEF StoreInv, FilesAreOwned, NoJob
<1>7. \A q \in Tokens : Contains(cached', q) => PlanFits(q)'
    BY <1>2, PlansFitStill
<1>8. PlansFit' /\ BackupFits'
    BY <1>7 DEF StoreInv, StoreTypes, IsDatabase, PlansFit, BackupFits, NoJob
<1> QED
    BY <1>4, <1>5, <1>6, <1>8 DEF StoreInv

\* A crash leaves the files; the next start removes them.
LEMMA CrashKeeps ==
    ASSUME StoreInv, Crash
    PROVE  StoreInv'
<1> USE StoreAssumption DEF Crash
<1>1. IsDatabase(EmptyDatabase) /\ IsDatabase(db) /\ db.revision \in Nat
    BY DEF IsDatabase, EmptyDatabase, StoreInv, StoreTypes
<1>2. <<>> \in Seq(Tokens) /\ Len(<<>>) = 0 /\ \A p : ~Contains(<<>>, p)
    BY EmptySeq DEF Contains
<1>3. StoreTypes'
  <2>1. IsDatabase(db)' /\ IsDatabase(backup)'
      BY <1>1
  <2>2. DOMAIN plans' = Tokens /\ plans' = [p \in Tokens |-> plans'[p]]
      OBVIOUS
  <2> QED
      BY <1>2, <2>1, <2>2 DEF StoreInv, StoreTypes, NoJob
<1>4. PreviewsAreKept' /\ FilesAreOwned'
    BY <1>2 DEF PreviewsAreKept, Distinct, Applying, FilesAreOwned, NoJob
<1>5. PlansFit' /\ BackupFits'
    BY <1>1, <1>2 DEF PlansFit, BackupFits, NoJob
<1> QED
    BY <1>3, <1>4, <1>5 DEF StoreInv

LEMMA RestartKeeps ==
    ASSUME StoreInv, Restart
    PROVE  StoreInv'
<1> USE StoreAssumption DEF Restart
<1>1. cached = <<>> /\ job = NoJob /\ \A p : ~Contains(<<>>, p)
    BY DEF StoreInv, PreviewsAreKept, Contains
<1>2. StoreTypes'
    BY DEF StoreInv, StoreTypes, IsDatabase
<1>3. PreviewsAreKept' /\ FilesAreOwned'
    BY <1>1 DEF StoreInv, PreviewsAreKept, Applying, FilesAreOwned, NoJob
<1>4. PlansFit' /\ BackupFits'
    BY <1>1 DEF StoreInv, PlansFit, BackupFits, NoJob
<1> QED
    BY <1>2, <1>3, <1>4 DEF StoreInv

-----------------------------------------------------------------------------
\* A step of the store changes the database by a transaction, or is one of an import.
LEMMA TransactionCounts ==
    ASSUME StoreInv,
           \/ \E t \in Said : Ingest(t)
           \/ Purge \/ Clear \/ Export
           \/ \E i \in Ids(db) : Forget(i)
           \/ \E s \in Sessions : SessionReads(s) \/ ThreadClaims(s) \/ ThreadGivesUp(s)
                                  \/ CallerGivesUp(s)
           \/ UNCHANGED storeVars
    PROVE  Counts(db, db') /\ UNCHANGED <<up, importVars>>
<1>1. IsDatabase(db)
    BY DEF StoreInv, StoreTypes
<1>2. ASSUME NEW t \in Said, Ingest(t)
      PROVE  Counts(db, db') /\ UNCHANGED <<up, importVars>>
    BY <1>1, <1>2, IngestedCounts DEF Ingest, Changes
<1>3. ASSUME Purge
      PROVE  Counts(db, db') /\ UNCHANGED <<up, importVars>>
    BY <1>1, <1>3, PurgedCounts DEF Purge, Changes
<1>4. ASSUME Clear
      PROVE  Counts(db, db') /\ UNCHANGED <<up, importVars>>
    BY <1>1, <1>4, ClearedCounts DEF Clear, Changes
<1>5. ASSUME NEW i \in Ids(db), Forget(i)
      PROVE  Counts(db, db') /\ UNCHANGED <<up, importVars>>
    BY <1>1, <1>5, ForgottenCounts DEF Forget, Changes
<1>6. ASSUME NEW s \in Sessions, ThreadClaims(s)
      PROVE  Counts(db, db') /\ UNCHANGED <<up, importVars>>
    BY <1>1, <1>6, ClaimedCounts DEF ThreadClaims, Changes
<1>7. ASSUME \/ Export \/ UNCHANGED storeVars
             \/ \E s \in Sessions : SessionReads(s) \/ ThreadGivesUp(s) \/ CallerGivesUp(s)
      PROVE  Counts(db, db') /\ UNCHANGED <<up, importVars>>
    BY <1>1, <1>7 DEF Counts, Export, SessionReads, ThreadGivesUp, CallerGivesUp, storeVars
<1> QED
    BY <1>2, <1>3, <1>4, <1>5, <1>6, <1>7

LEMMA StoreKeeps == StoreInv /\ [StoreNext]_storeVars => StoreInv'
<1> SUFFICES ASSUME StoreInv, [StoreNext]_storeVars
             PROVE  StoreInv'
    OBVIOUS
<1>1. ASSUME \/ \E t \in Said : Ingest(t)
             \/ Purge \/ Clear \/ Export
             \/ \E i \in Ids(db) : Forget(i)
             \/ \E s \in Sessions : SessionReads(s) \/ ThreadClaims(s) \/ ThreadGivesUp(s)
                                    \/ CallerGivesUp(s)
             \/ UNCHANGED storeVars
      PROVE  StoreInv'
    BY <1>1, TransactionCounts, TransactionKeeps
<1>2. ASSUME NEW p \in Tokens, Discard(p)
      PROVE  StoreInv'
    BY <1>2, DiscardKeeps
<1>3. ASSUME NEW p \in Tokens, PreviewStages(p)
      PROVE  StoreInv'
    BY <1>3, PreviewStagesKeeps
<1>4. ASSUME NEW p \in Tokens, ApplyBegins(p)
      PROVE  StoreInv'
    BY <1>4, ApplyBeginsKeeps
<1>5. CASE PreviewPlans
    BY <1>5, PreviewPlansKeeps
<1>6. CASE PreviewFails
    BY <1>6, PreviewFailsKeeps
<1>7. CASE ApplyBacksUp
    BY <1>7, ApplyBacksUpKeeps
<1>8. CASE ApplyCommits
    BY <1>8, ApplyCommitsKeeps
<1>9. CASE ApplyFails
    BY <1>9, ApplyFailsKeeps
<1>10. CASE ApplyEnds
    BY <1>10, ApplyEndsKeeps
<1>11. CASE Crash
    BY <1>11, CrashKeeps
<1>12. CASE Restart
    BY <1>12, RestartKeeps
<1> QED
    BY <1>1, <1>2, <1>3, <1>4, <1>5, <1>6, <1>7, <1>8, <1>9, <1>10, <1>11, <1>12 DEF StoreNext

\* What there is of an import - its preview, its file, its plan and its backup - agrees
\* with the lock, with each other and with the revision of the database, in every state.
THEOREM ImportsAreSound == StoreSpec => []StoreInv
<1> QED
    BY StoreBegins, StoreKeeps, PTL DEF StoreSpec

\* The staged files are those of the previews that can be applied, and of the one that
\* the handler with the import lock works on; no more previews are kept than allowed;
\* and after a crash nothing of them stays (preview_import, apply_import,
\* _discard_expired_imports and start of the administration).
THEOREM FilesOwned == StoreSpec => []FilesHaveOwners
<1>1. StoreInv => FilesHaveOwners
  <2> SUFFICES ASSUME StoreInv
               PROVE  FilesHaveOwners
      OBVIOUS
  <2>1. Len(cached) <= MaxPending
      BY DEF StoreInv, PreviewsAreKept
  <2>2. ASSUME up
        PROVE  files = ToSet(cached) \cup ({job.token} \ {None})
    <3>1. /\ \A p : p \in ToSet(cached) <=> Contains(cached, p)
          /\ \A p : Contains(cached, p) => p \in Tokens
        BY SetOfSequence DEF StoreInv, StoreTypes
    <3>2. files \subseteq Tokens /\ job.token \in Tokens \cup {None} /\ None \notin Tokens
        BY StoreAssumption DEF StoreInv, StoreTypes
    <3>3. \A p \in Tokens : p \in files <=> Contains(cached, p) \/ p = job.token
        BY <2>2 DEF StoreInv, FilesAreOwned
    <3> QED
        BY <3>1, <3>2, <3>3
  <2> QED
      BY <2>1, <2>2 DEF FilesHaveOwners
<1> QED
    BY <1>1, ImportsAreSound, PTL

\* An import changes the database as it would be planned to now, although turns, purges
\* and claims have gone on since the preview; and its backup is the database that it
\* changes (apply_import, which compares the revision again in its transaction).
THEOREM ImportsFresh == StoreSpec => ImportIsFresh
<1> DEFINE Fresh == job.kind = "apply" /\ db' # db /\ job'.kind = "discard" =>
                        /\ plans[job.token].plan = Plan(db, plans[job.token].bundle)
                        /\ backup = db
<1>1. StoreInv /\ [StoreNext]_storeVars => [Fresh]_storeVars
  <2> SUFFICES ASSUME StoreInv, [StoreNext]_storeVars, job.kind = "apply", db' # db,
                      job'.kind = "discard"
               PROVE  /\ plans[job.token].plan = Plan(db, plans[job.token].bundle)
                      /\ backup = db
      OBVIOUS
  <2>1. ApplyCommits
    <3>1. ~ \/ \E t \in Said : Ingest(t)
            \/ Purge \/ Clear \/ Export
            \/ \E i \in Ids(db) : Forget(i)
            \/ \E s \in Sessions : SessionReads(s) \/ ThreadClaims(s) \/ ThreadGivesUp(s)
                                   \/ CallerGivesUp(s)
            \/ UNCHANGED storeVars
        BY TransactionCounts DEF importVars
    <3>2. \A p \in Tokens : ~(Discard(p) \/ PreviewStages(p) \/ ApplyBegins(p))
        BY DEF Discard, PreviewStages, ApplyBegins
    <3>3. ~PreviewPlans
        BY DEF PreviewPlans
    <3>4. ~(PreviewFails \/ ApplyBacksUp \/ ApplyFails \/ ApplyEnds \/ Crash \/ Restart)
        BY DEF PreviewFails, ApplyBacksUp, ApplyFails, ApplyEnds, Crash, Restart
    <3> QED
        BY <3>1, <3>2, <3>3, <3>4 DEF StoreNext
  <2>2. /\ db.revision = job.base /\ job.base = plans[job.token].base
        /\ Contains(cached, job.token) /\ job.token \in Tokens
      BY <2>1, SetOfSequence
      DEF ApplyCommits, StoreInv, StoreTypes, PreviewsAreKept, Applying, PlansFit
  <2>3. plans[job.token].plan = Plan(db, plans[job.token].bundle)
      BY <2>2 DEF StoreInv, PlansFit, PlanFits
  <2>4. backup.revision = db.revision
      BY <2>2 DEF StoreInv, StoreTypes, IsDatabase, BackupFits
  <2> QED
      BY <2>3, <2>4 DEF StoreInv, BackupFits
<1> QED
    BY <1>1, ImportsAreSound, PTL DEF StoreSpec, ImportIsFresh
=============================================================================
