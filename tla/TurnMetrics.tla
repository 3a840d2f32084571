----------------------------- MODULE TurnMetrics -----------------------------
(***************************************************************************)
(* The latencies of the last turns (performance_metrics.py): the collector *)
(* of a session records the milestones that the engine, the bridge and the *)
(* renderer publish, in the order of the bus; the browser tells when it    *)
(* hears something, and does not say of which turn.  Times are left out.   *)
(***************************************************************************)
EXTENDS Naturals, Sequences

CONSTANTS
    Names,         \* of the turns of a session
    MaxKept,      \* turns that are kept
    MaxSessions,   \* bound: sessions
    MaxPlayed      \* bound: what the browser tells

ASSUME TurnAssumption ==
    /\ MaxKept \in Nat \ {0} /\ MaxSessions \in Nat /\ MaxPlayed \in Nat

VARIABLES
    turns,      \* _turns, by age
    session,    \* the session, by its number, and whether its collector is still there
    played      \* what the browser has told so far

turnVars == <<turns, session, played>>

\* vad_complete stands for the phases the store does not look at, failed for interrupted.
Phases == {"vad_complete", "tts_first_audio", "renderer_first_frame", "failed"}

\* spoken is that it has tts_first_audio, audible which of the browser's observations is
\* its browser_first_audible.
NewRecord(t) == [turn |-> t, session |-> session.number, spoken |-> FALSE,
                 status |-> "active", audible |-> 0]

TurnInit ==
    /\ turns = <<>> /\ session = [number |-> 0, collecting |-> FALSE] /\ played = 0

\* As BeginSession would be if it left the turns of the last session.
BeginSessionOver ==
    /\ ~session.collecting /\ session.number < MaxSessions
    /\ session' = [number |-> session.number + 1, collecting |-> TRUE]
    /\ UNCHANGED <<turns, played>>

\* The slot runs one session at a time.
BeginSession ==
    /\ ~session.collecting /\ session.number < MaxSessions
    /\ session' = [number |-> session.number + 1, collecting |-> TRUE]
    /\ turns' = <<>> /\ UNCHANGED played

\* The collector hears of the shutdown or is cancelled, with its session.
EndSession ==
    /\ session.collecting /\ session' = [session EXCEPT !.collecting = FALSE]
    /\ UNCHANGED <<turns, played>>

Status(old, p) ==
    CASE p = "renderer_first_frame" -> "complete" [] p = "failed" -> p [] OTHER -> old

Marked(r, p) ==
    [r EXCEPT !.spoken = @ \/ p = "tts_first_audio", !.status = Status(@, p)]

Of(t) == {i \in DOMAIN turns : turns[i].turn = t}

\* The turn is known, and stays where it is.
RecordKnown(t, p) ==
    /\ session.collecting
    /\ \E i \in Of(t) : turns' = [turns EXCEPT ![i] = Marked(@, p)]
    /\ UNCHANGED <<session, played>>

\* A new turn, or one that was dropped before; the oldest goes when there are too many.
RecordNew(t, p) ==
    /\ session.collecting /\ Of(t) = {}
    /\ turns' = Append(IF Len(turns) < MaxKept THEN turns ELSE Tail(turns),
                       Marked(NewRecord(t), p))
    /\ UNCHANGED <<session, played>>

Speaks(i) ==
    turns[i].status # "failed" /\ turns[i].spoken /\ turns[i].audible = 0

\* The latest turn that speaks and was not heard yet is heard now, if there is one, even
\* when the session is over.
Audible ==
    /\ played < MaxPlayed /\ played' = played + 1
    /\ UNCHANGED session
    /\ \/ /\ \A i \in DOMAIN turns : ~Speaks(i)
          /\ UNCHANGED turns
       \/ \E i \in DOMAIN turns :
             /\ Speaks(i) /\ \A j \in (i + 1)..Len(turns) : ~Speaks(j)
             /\ turns' = [turns EXCEPT ![i].audible = played + 1]

MetricsNext ==
    \/ BeginSession \/ EndSession \/ Audible
    \/ \E t \in Names, p \in Phases : RecordKnown(t, p) \/ RecordNew(t, p)

\* An observation of the browser is kept with one turn at most, one that has begun to
\* speak; the store has every turn once, of this session only, and
\* not too many of them.
TurnsAreKept ==
    /\ Len(turns) <= MaxKept
    /\ \A i \in DOMAIN turns :
          /\ turns[i].session = session.number
          /\ turns[i].audible # 0 => turns[i].spoken /\ turns[i].audible <= played
    /\ \A i \in DOMAIN turns, j \in DOMAIN turns :
          i # j => /\ turns[i].turn # turns[j].turn
                   /\ turns[i].audible # turns[j].audible \/ turns[i].audible = 0
=============================================================================
