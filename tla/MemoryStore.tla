---------------------------- MODULE MemoryStore ----------------------------
(***************************************************************************)
(* Who works on the memory's database, and when: the writer, the retention *)
(* loop, the sessions that claim a follow-up (memory/service.py), and the  *)
(* administration with its imports (memory/admin.py, memory/transfer.py).  *)
(*                                                                         *)
(* A transaction is one step (MemoryRecords).  An import is not: it is     *)
(* previewed, and later checked, backed up and applied, while others write *)
(* to the database; only the administration's own changes wait for it.     *)
(* The process may crash at any time; the database and the staged files    *)
(* are what it finds again.                                                *)
(***************************************************************************)
EXTENDS MemoryRecords

CONSTANTS
    Said,         \* turns heard here
    Foreign,      \* an export of somebody else's memory
    Tokens,       \* names of previews
    MaxPending,   \* previews kept at once
    Sessions,     \* sessions to be built
    MaxRevision, ExportRevision,  \* bounds of the model
    None

ASSUME StoreAssumption ==
    /\ Said \subseteq DOMAIN Batch /\ MaxPending \in Nat \ {0} /\ MaxRevision \in Nat
    /\ IsFiniteSet(Tokens) /\ None \notin Tokens

VARIABLES
    db,        \* the database
    last,      \* the identifiers given so far
    exported,  \* the user's last export
    up,        \* whether the process is running
    cached,    \* MemoryAdminService._imports, by age
    plans,     \* MemoryTransfer._plans
    files,     \* the staged files on disk
    job,       \* the handler that holds the import lock
    backup,    \* the backup before the import
    caller,    \* what each session does about its follow-up
    thread,    \* whether claim_follow_up_before runs for each session
    context    \* the event each session wants to claim, with its revision

importVars == <<cached, plans, files, job, backup>>
sessionVars == <<caller, thread, context>>
storeVars == <<db, last, exported, up, importVars, sessionVars>>

NoJob == [kind |-> "none", token |-> None, base |-> 0]
NoPlan == [base |-> 0, bundle |-> EmptyDatabase, plan |-> Plan(EmptyDatabase, EmptyDatabase)]

StoreInit ==
    /\ db = EmptyDatabase /\ last = 0 /\ exported = EmptyDatabase /\ up = TRUE
    /\ cached = <<>> /\ plans = [p \in Tokens |-> NoPlan] /\ files = {} /\ job = NoJob
    /\ backup = EmptyDatabase
    /\ caller = [s \in Sessions |-> "idle"] /\ thread = [s \in Sessions |-> FALSE]
    /\ context = [s \in Sessions |-> None]

Changes(new) ==
    /\ db.revision < MaxRevision
    /\ db' = new /\ last' = Max({last} \cup Ids(new))

-----------------------------------------------------------------------------
(* The writer and the retention loop.                                      *)

Ingest(t) ==
    /\ up
    /\ Changes(Ingested(db, t, last))
    /\ UNCHANGED <<exported, up, importVars, sessionVars>>

Purge ==
    /\ up
    /\ \E expired \in SUBSET {i \in Ids(db) : db.rows[i].standing = "vague"} :
          Changes(Purged(db, expired))
    /\ UNCHANGED <<exported, up, importVars, sessionVars>>

-----------------------------------------------------------------------------
(* The administration.  forget and clear_all do not run while an import is *)
(* applied.                                                                *)

MayMutate == up /\ job.kind \in {"none", "preview"}

Forget(i) ==
    /\ MayMutate /\ i \in Ids(db)
    /\ Changes(ForgottenIn(db, i))
    /\ UNCHANGED <<exported, up, importVars, sessionVars>>

Clear ==
    /\ MayMutate
    /\ Changes(Cleared(db))
    /\ caller' = [s \in Sessions |-> IF caller[s] = "told" THEN "idle" ELSE caller[s]]
    /\ context' = [s \in Sessions |-> IF caller[s] = "told" THEN None ELSE context[s]]
    /\ UNCHANGED <<exported, up, importVars, thread>>

\* An export that is not valid is refused.  The revision is a bound of the model.
Export ==
    /\ up /\ ValidBundle(db) /\ db.revision = ExportRevision
    /\ exported' = db
    /\ UNCHANGED <<db, last, up, importVars, sessionVars>>

-----------------------------------------------------------------------------
(* An import.  Who holds the import lock runs to its end.                  *)

Discards(p) ==
    /\ cached' = IF Contains(cached, p)
                 THEN RemoveAt(cached, CHOOSE i \in DOMAIN cached : cached[i] = p)
                 ELSE cached
    /\ plans' = [plans EXCEPT ![p] = NoPlan]

\* As Discard would be if it did not wait for the import.
DiscardAnytime(p) ==
    /\ up /\ Contains(cached, p)
    /\ Discards(p) /\ files' = files \ {p}
    /\ UNCHANGED <<db, last, exported, up, job, backup, sessionVars>>

\* _discard_expired_imports, in any of the requests that look for them.
Discard(p) ==
    /\ up /\ job = NoJob /\ Contains(cached, p)
    /\ Discards(p) /\ files' = files \ {p}
    /\ UNCHANGED <<db, last, exported, up, job, backup, sessionVars>>

\* preview_import: makes room, stages the file and reads the revision.
PreviewStages(p) ==
    /\ up /\ job = NoJob /\ ~Contains(cached, p) /\ p \notin files
    /\ IF Len(cached) < MaxPending
       THEN files' = files \cup {p} /\ UNCHANGED <<cached, plans>>
       ELSE files' = (files \ {Head(cached)}) \cup {p} /\ Discards(Head(cached))
    /\ job' = [kind |-> "preview", token |-> p, base |-> db.revision]
    /\ UNCHANGED <<db, last, exported, up, backup, sessionVars>>

PreviewPlans ==
    /\ up /\ job.kind = "preview"
    /\ \E bundle \in {Foreign, exported} :
          /\ ValidBundle(bundle)
          /\ plans' = [plans EXCEPT ![job.token] =
                 [base |-> job.base, bundle |-> Rederived(bundle),
                  plan |-> Plan(db, Rederived(bundle))]]
    /\ cached' = Append(cached, job.token) /\ job' = NoJob
    /\ UNCHANGED <<db, last, exported, up, files, backup, sessionVars>>

\* The file is too large, is no bundle, or cannot be read.
PreviewFails ==
    /\ up /\ job.kind = "preview"
    /\ files' = files \ {job.token} /\ job' = NoJob
    /\ UNCHANGED <<db, last, exported, up, cached, plans, backup, sessionVars>>

\* apply_import of the administration; a plan without effect ends here.
ApplyBegins(p) ==
    /\ up /\ job = NoJob /\ Contains(cached, p)
    /\ job' = [kind |-> IF db.revision # plans[p].base \/ NoEffect(plans[p].plan)
                        THEN "discard" ELSE "copy",
               token |-> p, base |-> plans[p].base]
    /\ UNCHANGED <<db, last, exported, up, cached, plans, files, backup, sessionVars>>

ApplyBacksUp ==
    /\ up /\ job.kind = "copy"
    /\ backup' = db /\ job' = [job EXCEPT !.kind = "apply"]
    /\ UNCHANGED <<db, last, exported, up, cached, plans, files, sessionVars>>

\* As ApplyCommits would be if the first look at the revision were enough.
ApplyCommitsUnseen ==
    /\ up /\ job.kind = "apply"
    /\ LET p == plans[job.token] IN Changes(Imported(db, p.bundle, p.plan))
    /\ job' = [job EXCEPT !.kind = "discard"] /\ backup' = EmptyDatabase
    /\ UNCHANGED <<exported, up, cached, plans, files, sessionVars>>

\* The backup is no longer looked at, and the model forgets it.
ApplyCommits ==
    /\ up /\ job.kind = "apply" /\ db.revision = job.base
    /\ LET p == plans[job.token] IN Changes(Imported(db, p.bundle, p.plan))
    /\ job' = [job EXCEPT !.kind = "discard"] /\ backup' = EmptyDatabase
    /\ UNCHANGED <<exported, up, cached, plans, files, sessionVars>>

\* The revision has changed, or the database fails, and everything is rolled back.
ApplyFails ==
    /\ up /\ job.kind \in {"copy", "apply"}
    /\ job' = [job EXCEPT !.kind = "discard"] /\ backup' = EmptyDatabase
    /\ UNCHANGED <<db, last, exported, up, cached, plans, files, sessionVars>>

ApplyEnds ==
    /\ up /\ job.kind = "discard"
    /\ Discards(job.token) /\ files' = files \ {job.token} /\ job' = NoJob
    /\ UNCHANGED <<db, last, exported, up, backup, sessionVars>>

-----------------------------------------------------------------------------
(* A session's follow-up: the profile is read, the event it found is       *)
(* claimed in a thread, and the caller waits for it, but not for long.     *)

SessionReads(s) ==
    /\ up /\ caller[s] = "idle" /\ ~thread[s]
    /\ \E i \in Due(db) :
          context' = [context EXCEPT ![s] = [id |-> i, revision |-> db.rows[i].revision]]
    /\ caller' = [caller EXCEPT ![s] = "waiting"]
    /\ thread' = [thread EXCEPT ![s] = TRUE]
    /\ UNCHANGED <<db, last, exported, up, importVars>>

ThreadEnds(s, answer) ==
    /\ thread' = [thread EXCEPT ![s] = FALSE]
    /\ caller' = [caller EXCEPT ![s] = IF @ = "waiting" THEN answer ELSE @]
    /\ context' = [context EXCEPT ![s] = IF caller'[s] = "told" THEN @ ELSE None]

\* The deadline is tested before the commit, so the claim may be made when the caller has
\* given up already.
ThreadClaims(s) ==
    /\ up /\ thread[s]
    /\ Claimable(db, context[s].id, context[s].revision)
    /\ Changes(Claimed(db, context[s].id, context[s].revision))
    /\ ThreadEnds(s, "told")
    /\ UNCHANGED <<exported, up, importVars>>

\* The event has changed, the deadline is near, or somebody else is writing.
ThreadGivesUp(s) ==
    /\ up /\ thread[s]
    /\ ThreadEnds(s, "idle")
    /\ UNCHANGED <<db, last, exported, up, importVars>>

CallerGivesUp(s) ==
    /\ up /\ caller[s] = "waiting"
    /\ caller' = [caller EXCEPT ![s] = "idle"]
    /\ UNCHANGED <<db, last, exported, up, importVars, thread, context>>

-----------------------------------------------------------------------------
(* The process ends in the middle, and starts again.                       *)

Crash ==
    /\ up /\ up' = FALSE
    /\ job' = NoJob /\ cached' = <<>> /\ plans' = [p \in Tokens |-> NoPlan]
    /\ caller' = [s \in Sessions |-> IF caller[s] = "told" THEN "told" ELSE "idle"]
    /\ thread' = [s \in Sessions |-> FALSE]
    /\ context' = [s \in Sessions |-> IF caller[s] = "told" THEN context[s] ELSE None]
    /\ backup' = EmptyDatabase
    /\ UNCHANGED <<db, last, exported, files>>

\* As Restart would be if it kept what was staged.
RestartDirty ==
    /\ ~up /\ up' = TRUE
    /\ UNCHANGED <<db, last, exported, importVars, sessionVars>>

\* MemoryAdminService.start
Restart ==
    /\ ~up /\ up' = TRUE
    /\ files' = {}
    /\ UNCHANGED <<db, last, exported, cached, plans, job, backup, sessionVars>>

-----------------------------------------------------------------------------
StoreNext ==
    \/ \E t \in Said : Ingest(t)
    \/ Purge \/ Clear \/ Export
    \/ \E i \in Ids(db) : Forget(i)
    \/ \E p \in Tokens : Discard(p) \/ PreviewStages(p) \/ ApplyBegins(p)
    \/ PreviewPlans \/ PreviewFails \/ ApplyBacksUp \/ ApplyCommits \/ ApplyFails \/ ApplyEnds
    \/ \E s \in Sessions : SessionReads(s) \/ ThreadClaims(s) \/ ThreadGivesUp(s)
                           \/ CallerGivesUp(s)
    \/ Crash \/ Restart

StoreSpec == StoreInit /\ [][StoreNext]_storeVars

-----------------------------------------------------------------------------
(* Properties.                                                             *)

\* The fields keep their types: the standing of a row is one of three, its revision grows
\* from 1, and what is being applied is a preview that is kept.
StoreTypeOK ==
    /\ db.revision \in 0..MaxRevision /\ last \in Nat
    /\ \A i \in Ids(db) :
          /\ i \in 1..last
          /\ db.rows[i].standing \in ToSet(Standings)
          /\ db.rows[i].revision \in Nat \ {0}
    /\ ToSet(cached) \subseteq Tokens /\ files \subseteq Tokens /\ up \in BOOLEAN
    /\ job.kind \in {"none", "preview", "copy", "apply", "discard"}
    /\ job.kind \notin {"none", "preview"} => Contains(cached, job.token)
    /\ \A s \in Sessions : /\ caller[s] \in {"idle", "waiting", "told"}
                           /\ thread[s] \in BOOLEAN

\* Whatever was said, forgotten, purged and imported: the database can be exported and
\* read again as it is, whoever refers to whom, no two rows have the same key, and nothing
\* that was forgotten is in it.
StoreIsSound ==
    /\ StoreTypeOK
    /\ ValidBundle(db) /\ Rederived(db) = db
    /\ \A i, j \in Ids(db) : i # j => db.rows[i].key # db.rows[j].key
    /\ \A i \in Ids(db) : ~Forgotten(db, db.rows[i].print)

\* What an import does is what it would plan to do now, and its backup is the database it
\* changes, whoever has written since the preview and the backup.
ImportIsFresh ==
    [][job.kind = "apply" /\ db' # db /\ job'.kind = "discard" =>
          /\ plans[job.token].plan = Plan(db, plans[job.token].bundle)
          /\ backup = db]_storeVars

\* An event that somebody was asked about is asked about once, and the memory knows.
AskedOnce ==
    \A s \in Sessions : caller[s] = "told" =>
        /\ \A t \in Sessions \ {s} : caller[t] = "told" => context[t].id # context[s].id
        /\ context[s].id \in Ids(db) =>
              db.rows[context[s].id].about.followUp = "asked"

\* The staged files are those of the previews that can be applied, and no more of them
\* than allowed.
FilesHaveOwners ==
    /\ Len(cached) <= MaxPending
    /\ up => files = ToSet(cached) \cup ({job.token} \ {None})
=============================================================================
