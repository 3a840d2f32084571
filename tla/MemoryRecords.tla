--------------------------- MODULE MemoryRecords ---------------------------
(***************************************************************************)
(* What the transactions of the memory do to the database                  *)
(* (src/avaturn_live_streamer/memory/sqlite_store.py and transfer.py).     *)
(*                                                                         *)
(* A database is a record: revision, the owner's name, turns (the turns    *)
(* ingested), rows (the memories by their identifier) and tombstones.  A   *)
(* row has the columns of table memories, one record of what its kind's    *)
(* table holds (about), the turns that are its evidence, and the revisions *)
(* its audit tells of.  Texts are names without spelling, times are left   *)
(* out: what is due or expired is the caller's choice.  A transaction that *)
(* raises is written as one that returns the database it was given.        *)
(***************************************************************************)
EXTENDS Naturals, Sequences, SequencesExt, FiniteSets

CONSTANTS
    Nothing,  \* NULL: no name, no notes, or the owner
    Batch     \* the candidates the extractor finds in a turn

Standings == <<"vague", "likely", "confirmed">>

EmptyDatabase ==
    [revision |-> 0, owner |-> Nothing, turns |-> {}, rows |-> <<>>, tombstones |-> {}]

Ids(db) == DOMAIN db.rows
Forgotten(db, print) == print \in db.tombstones

\* The columns canonical_key and content_fingerprint, from what the row is about.
KeyOf(a) ==
    CASE a.kind = "person" -> <<"person", a.name, a.notes>>
      [] a.kind = "relationship" -> <<"relationship", a.source, a.target, a.type>>
      [] a.kind = "event" -> <<"event", a.title>>
PrintOf(a) ==
    CASE a.kind = "person" -> <<"person", a.name, a.notes, a.aliases>>
      [] a.kind = "relationship" -> KeyOf(a)
      [] a.kind = "event" -> <<"event", a.title, a.status>>

\* The people a row refers to.
PeopleOf(a) ==
    CASE a.kind = "person" -> {}
      [] a.kind = "relationship" -> {a.source, a.target} \ {Nothing}
      [] a.kind = "event" -> a.people

IdsByKey(rows, key) == {i \in DOMAIN rows : rows[i].key = key}
PersonIdsByName(rows, name) ==
    {i \in DOMAIN rows :
        rows[i].about.kind = "person" /\ name \in {rows[i].about.name} \cup rows[i].about.aliases}

\* The stronger of two standings; low-confidence candidates are the temporary rows.
Merged(s, t) ==
    LET Rank(x) == CHOOSE n \in 1..3 : Standings[n] = x
    IN  IF Rank(s) < Rank(t) THEN t ELSE s

-----------------------------------------------------------------------------
(* ingest.  w is the work in progress: the rows, the last identifier, the  *)
(* people found so far by name and notes, the names that are forgotten or  *)
(* ambiguous, and whether a name could not be resolved.                    *)

Overlay(f, i, v) == [j \in DOMAIN f \cup {i} |-> IF j = i THEN v ELSE f[j]]
Stays(w) == w

\* _upsert_memory and _insert_evidence; old holds the row to update, if there is one.
Upserted(w, old, about, standing, turn) ==
    IF old = {}
    THEN [w EXCEPT !.last = @ + 1,
                   !.rows = Overlay(@, w.last + 1,
                        [key |-> KeyOf(about), print |-> PrintOf(about),
                         standing |-> standing, revision |-> 1, about |-> about,
                         evidence |-> {turn}, audit |-> {1}])]
    ELSE LET i == CHOOSE x \in old : TRUE
         IN  [w EXCEPT !.rows[i] =
                 [key |-> KeyOf(about), print |-> PrintOf(about),
                  standing |-> Merged(@.standing, standing), revision |-> @.revision + 1,
                  about |-> about, evidence |-> @.evidence \cup {turn},
                  audit |-> @.audit \cup {@.revision + 1}]]

Found(w, name, notes, i) ==
    [w EXCEPT !.people = Overlay(@, <<name, notes>>, i)]

\* A participant of an event who is one known person, and so needs no row of her own.
Recognized(w, c, turn) ==
    LET i == CHOOSE x \in PersonIdsByName(w.rows, c.name) : TRUE
    IN  Found([w EXCEPT !.rows[i].evidence = @ \cup {turn}], c.name, Nothing, i)

\* The row of a person: the one of her name and notes, or the one known by her name only.
RowOfPerson(w, c) ==
    LET exact == IdsByKey(w.rows, <<"person", c.name, c.notes>>)
        named == PersonIdsByName(w.rows, c.name)
    IN  IF exact # {} THEN exact
        ELSE {i \in named : /\ c.notes # Nothing /\ Cardinality(named) = 1
                            /\ w.rows[i].about.notes = Nothing}

NewPerson(w, c) ==
    [kind |-> "person", name |-> c.name, notes |-> c.notes,
     aliases |-> c.aliases \cup UNION {w.rows[i].about.aliases : i \in RowOfPerson(w, c)}]

PersonIngested(w, c, tombstones, turn) ==
    LET named == PersonIdsByName(w.rows, c.name)
        about == NewPerson(w, c)
        old == RowOfPerson(w, c)
        i == IF old = {} THEN w.last + 1 ELSE CHOOSE x \in old : TRUE
    IN  CASE c.participant /\ <<c.name, Nothing>> \in DOMAIN w.people -> Stays(w)
          [] c.participant /\ <<c.name, Nothing>> \notin DOMAIN w.people
                /\ Cardinality(named) = 1 -> Recognized(w, c, turn)
          [] c.participant /\ <<c.name, Nothing>> \notin DOMAIN w.people
                /\ Cardinality(named) > 1 -> [w EXCEPT !.ambiguous = @ \cup {c.name}]
          [] OTHER ->
                IF PrintOf(about) \in tombstones
                THEN [w EXCEPT !.forgotten = @ \cup {c.name} \cup c.aliases]
                ELSE Found(Upserted(w, old, about, c.standing, turn), c.name, c.notes, i)

\* _resolve_person, after the people of this batch; no identifier is an error.
Resolved(w, name, notes) ==
    CASE name = Nothing -> {Nothing}
      [] name # Nothing /\ <<name, notes>> \in DOMAIN w.people -> {w.people[<<name, notes>>]}
      [] OTHER -> IF Cardinality(PersonIdsByName(w.rows, name)) = 1
                  THEN PersonIdsByName(w.rows, name) ELSE {}

RelationIngested(w, c, tombstones, turn) ==
    LET sources == Resolved(w, c.source, c.type)
        targets == Resolved(w, c.target, c.type)
        about == [kind |-> "relationship", source |-> CHOOSE s \in sources : TRUE,
                  target |-> CHOOSE t \in targets : TRUE, type |-> c.type]
    IN  IF {c.source, c.target} \cap w.forgotten # {} THEN Stays(w)
        ELSE IF sources = {} \/ targets = {} THEN [w EXCEPT !.failed = TRUE]
        ELSE IF PrintOf(about) \in tombstones THEN Stays(w)
        ELSE Upserted(w, IdsByKey(w.rows, KeyOf(about)), about, c.standing, turn)

Eligible(c) == c.standing = "confirmed" /\ c.status = "planned"

\* As FollowUp would be if it looked at the new status first.
FollowUpAnew(before, c) ==
    IF Eligible(c) THEN "eligible"
    ELSE IF before \in {"asked", "dismissed"} THEN before
    ELSE IF c.status = "completed" /\ before # "new" THEN "dismissed" ELSE "none"

FollowUp(before, c) ==
    CASE before \in {"asked", "dismissed"} -> before
      [] before \notin {"asked", "dismissed", "new"} /\ c.status = "completed" -> "dismissed"
      [] OTHER -> IF Eligible(c) THEN "eligible" ELSE "none"

EventIngested(w, c, tombstones, turn) ==
    LET old == IdsByKey(w.rows, <<"event", c.title>>)
        before == IF old = {} THEN [followUp |-> "new", people |-> {}]
                  ELSE w.rows[CHOOSE i \in old : TRUE].about
        names == c.participants \ (w.forgotten \cup w.ambiguous)
        about == [kind |-> "event", title |-> c.title, status |-> c.status,
                  followUp |-> FollowUp(before.followUp, c),
                  people |-> before.people \cup UNION {Resolved(w, n, Nothing) : n \in names}]
    IN  IF PrintOf(about) \in tombstones THEN Stays(w)
        ELSE Upserted([w EXCEPT !.failed = @ \/ \E n \in names : Resolved(w, n, Nothing) = {}],
                      old, about, c.standing, turn)

\* The people of a turn, and then the participants of its events, who are known by name.
PersonCandidates(b) ==
    [n \in DOMAIN b.people |-> [name |-> b.people[n].name, notes |-> b.people[n].notes,
        aliases |-> b.people[n].aliases, standing |-> b.people[n].standing,
        participant |-> FALSE]]
    \o FlattenSeq([n \in DOMAIN b.events |->
         SetToSeq({[name |-> p, notes |-> Nothing, aliases |-> {},
                    standing |-> b.events[n].standing, participant |-> TRUE] :
                       p \in b.events[n].participants})])

\* The people, then the relationships, then the events of a turn; last is the highest
\* identifier in use anywhere.
WorkedOff(db, turn, last) ==
    LET b == Batch[turn]
        start == [rows |-> db.rows, last |-> last, people |-> <<>>, forgotten |-> {},
                  ambiguous |-> {}, failed |-> FALSE]
        people == FoldLeft(LAMBDA w, c : PersonIngested(w, c, db.tombstones, turn),
                           start, PersonCandidates(b))
        relations == FoldLeft(LAMBDA w, c : RelationIngested(w, c, db.tombstones, turn),
                              people, b.relationships)
    IN  FoldLeft(LAMBDA w, c : EventIngested(w, c, db.tombstones, turn), relations, b.events)

\* The whole transaction.
Ingested(db, turn, last) ==
    LET w == WorkedOff(db, turn, last)
        owner == Batch[turn].owner
    IN  IF turn \in db.turns \/ w.failed THEN db
        ELSE [db EXCEPT !.revision = @ + 1, !.turns = @ \cup {turn}, !.rows = w.rows,
                        !.owner = IF owner = Nothing THEN @ ELSE owner]

-----------------------------------------------------------------------------
(* The other transactions on rows.                                         *)

Without(rows, ids) == [i \in DOMAIN rows \ ids |-> rows[i]]
Referring(rows, i) ==
    {j \in DOMAIN rows : rows[j].about.kind = "relationship" /\ i \in PeopleOf(rows[j].about)}

\* forget: the row, for a person also her relationships; events lose the participant.
ForgottenIn(db, i) ==
    LET gone == {i} \cup Referring(db.rows, i)
        rest == Without(db.rows, gone)
    IN  [db EXCEPT !.revision = @ + 1,
            !.tombstones = @ \cup {db.rows[j].print : j \in gone},
            !.rows = [j \in DOMAIN rest |->
                IF rest[j].about.kind = "event" THEN [rest[j] EXCEPT !.about.people = (@) \ {i}]
                ELSE rest[j]]]

\* claim_follow_up, claim_follow_up_before
Claimable(db, i, revision) ==
    /\ i \in Ids(db) /\ db.rows[i].revision = revision
    /\ db.rows[i].about.kind = "event" /\ db.rows[i].about.followUp = "eligible"
Claimed(db, i, revision) ==
    [db EXCEPT !.revision = @ + 1, !.rows[i].about.followUp = "asked",
               !.rows[i].revision = @ + 1,
               !.rows[i].audit = @ \cup {revision + 1}]

\* clear_all
Cleared(db) == [EmptyDatabase EXCEPT !.revision = db.revision + 1]

\* purge_expired, of temporary rows that have expired; a person somebody refers to stays.
Purged(db, expired) ==
    LET others == {i \in expired : db.rows[i].about.kind # "person"}
        left == Without(db.rows, others)
        gone == others \cup {i \in expired \ others :
                                \A j \in DOMAIN left : i \notin PeopleOf(left[j].about)}
    IN  IF gone = {} THEN db
        ELSE [db EXCEPT !.revision = @ + 1, !.rows = Without(@, gone)]

\* build_session_profile: the events somebody may be asked about.
Due(db) ==
    {i \in Ids(db) : /\ db.rows[i].standing = "confirmed" /\ db.rows[i].about.kind = "event"
                     /\ db.rows[i].about.status = "planned"
                     /\ db.rows[i].about.followUp = "eligible"}

-----------------------------------------------------------------------------
(* Import and export.                                                      *)

\* _validate_bundle, by its parts.  A row keeps one of the three standings a state, a
\* confidence and a retention make together, and a revision.
WellKept(row) == row.standing \in ToSet(Standings) /\ row.revision \in Nat \ {0}

\* A relationship has two ends, one of them a person; who takes part in an event is known.
KnowsItsPeople(b, row) ==
    /\ row.about.kind = "relationship" => PeopleOf(row.about) # {}
    /\ PeopleOf(row.about) \subseteq {j \in Ids(b) : b.rows[j].about.kind = "person"}

\* The turns it was said in are sources of the bundle, and there is one.
Witnessed(b, row) == row.evidence # {} /\ row.evidence \subseteq b.turns

\* The audit has revisions up to the row's own, and that one.
Audited(row) == row.revision \in row.audit /\ row.audit \subseteq 1..row.revision

ValidBundle(b) ==
    \A i \in Ids(b) :
        LET row == b.rows[i]
        IN  WellKept(row) /\ KnowsItsPeople(b, row) /\ Witnessed(b, row) /\ Audited(row)

\* Keys and fingerprints are never read from a bundle but made again from the content.
Rederived(b) ==
    [b EXCEPT !.rows = [i \in DOMAIN b.rows |->
        LET row == b.rows[i]
        IN  [row EXCEPT !.key = KeyOf(row.about), !.print = PrintOf(row.about)]]]

\* classify, for one row of the bundle; c is what has been decided so far.
Classified(c, db, bundle, i) ==
    LET row == bundle.rows[i]
        blocked == \/ row.print \in bundle.tombstones
                   \/ i \in Ids(db) /\ db.rows[i].print # row.print
                   \/ i \notin Ids(db) /\ \/ row.print \in db.tombstones \cup c.prints
                                          \/ row.key \in c.keys
                   \/ PeopleOf(row.about) \cap c.blocked # {}
    IN  IF blocked
        THEN [c EXCEPT !.blocked = @ \cup (IF row.about.kind = "person" THEN {i} ELSE {})]
        ELSE IF i \in Ids(db) THEN c
        ELSE [c EXCEPT !.insertable = @ \cup {i}, !.prints = @ \cup {row.print},
                       !.keys = @ \cup {row.key}]

\* As Plan would be if it imported every tombstone of the bundle.
PlanWithTombstones(db, bundle) ==
    LET start == [insertable |-> {}, blocked |-> {}, keys |-> {db.rows[i].key : i \in Ids(db)},
                  prints |-> {db.rows[i].print : i \in Ids(db)}]
        ids == SetToSortSeq(Ids(bundle), <)
        IsPerson(i) == bundle.rows[i].about.kind = "person"
        result == FoldLeft(LAMBDA c, i : Classified(c, db, bundle, i), start,
                           SelectSeq(ids, IsPerson)
                               \o SelectSeq(ids, LAMBDA i : ~IsPerson(i)))
    IN  [insertable |-> result.insertable,
         tombstones |-> bundle.tombstones,
         owner |-> IF db.owner = Nothing THEN bundle.owner ELSE Nothing]

\* preview_import: people first, then the rows that may refer to them.
Plan(db, bundle) ==
    LET start == [insertable |-> {}, blocked |-> {}, keys |-> {db.rows[i].key : i \in Ids(db)},
                  prints |-> {db.rows[i].print : i \in Ids(db)}]
        ids == SetToSortSeq(Ids(bundle), <)
        IsPerson(i) == bundle.rows[i].about.kind = "person"
        result == FoldLeft(LAMBDA c, i : Classified(c, db, bundle, i), start,
                           SelectSeq(ids, IsPerson)
                               \o SelectSeq(ids, LAMBDA i : ~IsPerson(i)))
    IN  [insertable |-> result.insertable,
         tombstones |-> bundle.tombstones \ (db.tombstones \cup start.prints),
         owner |-> IF db.owner = Nothing THEN bundle.owner ELSE Nothing]

NoEffect(plan) == plan.insertable = {} /\ plan.tombstones = {} /\ plan.owner = Nothing

\* apply_import, of a plan that is not stale.
Imported(db, bundle, plan) ==
    [db EXCEPT
        !.revision = @ + 1,
        !.rows = [i \in Ids(db) \cup plan.insertable |->
                     IF i \in DOMAIN db.rows THEN db.rows[i] ELSE bundle.rows[i]],
        !.turns = @ \cup UNION {bundle.rows[i].evidence : i \in plan.insertable},
        !.tombstones = @ \cup plan.tombstones,
        !.owner = IF plan.owner = Nothing \/ @ # Nothing THEN @ ELSE plan.owner]
=============================================================================
