--------------------------- MODULE MCMemoryStore ---------------------------
(***************************************************************************)
(* A friend, an event with her, somebody of the same name, and the export  *)
(* of another memory for TLC.                                              *)
(***************************************************************************)
EXTENDS MemoryStore, TLC

CONSTANTS p1, p2, s1, s2

Person(name, notes, aliases, standing) ==
    [name |-> name, notes |-> notes, aliases |-> aliases, standing |-> standing]
Related(name, type, standing) ==
    [source |-> Nothing, target |-> name, type |-> type, standing |-> standing]
Happening(status, people, standing) ==
    [title |-> "trip", status |-> status, participants |-> people, standing |-> standing]
Turn(people, relationships, events) ==
    [owner |-> Nothing, people |-> people, relationships |-> relationships,
     events |-> events]

MCBatch ==
    [friend |-> Turn(<<Person("li", "friend", {"lili"}, "confirmed")>>,
                     <<Related("li", "friend", "confirmed")>>,
                     <<Happening("planned", {"li"}, "confirmed")>>),
     boss |-> [Turn(<<Person("lili", "boss", {}, "vague")>>,
                    <<Related("lili", "boss", "vague")>>,
                    <<Happening("completed", {"lili"}, "vague")>>) EXCEPT !.owner = "me"],
     again |-> Turn(<<>>, <<>>, <<Happening("planned", {"lili"}, "confirmed")>>),
     theirs |-> Turn(<<Person("li", "friend", {}, "confirmed")>>,
                     <<Related("li", "friend", "confirmed")>>,
                     <<Happening("planned", {"li"}, "confirmed")>>),
     gone |-> Turn(<<>>, <<>>, <<Happening("completed", {}, "confirmed")>>)]

MCForeign ==
    LET a == Ingested(EmptyDatabase, "gone", 100)
    IN  Ingested(ForgottenIn(a, 101), "theirs", 101)

Symmetry == Permutations({p1, p2}) \cup Permutations({s1, s2})
=============================================================================
