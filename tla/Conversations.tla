--------------------------- MODULE Conversations ---------------------------
(***************************************************************************)
(* The conversation engines of which a stream runs one: the engine built   *)
(* from API components, the Codex app-server, MiniMax Realtime, OpenAI     *)
(* Realtime.                                                               *)
(***************************************************************************)
EXTENDS CustomConversation, CodexConversation, MiniMaxConversation, RealtimeConversation, TLC

VARIABLE engine   \* the configured engine

vars == <<engine, customVars, codexVars, mmVars, rtVars>>

Init ==
    /\ engine \in {"custom", "codex", "minimax", "realtime"}
    /\ \E kind \in {"plain", "live"} : CustomInit(kind)
    /\ CodexInit /\ MiniMaxInit /\ \E mode \in {"text", "audio"} : RtInit(mode)
    /\ engine # "custom" => provider = "plain"
    /\ engine # "minimax" => mmIds
    /\ engine # "realtime" => rtMode = "text"

Next ==
    \/ engine = "custom" /\ CustomNext /\ UNCHANGED <<engine, codexVars, mmVars, rtVars>>
    \/ engine = "codex" /\ CodexNext /\ UNCHANGED <<engine, customVars, mmVars, rtVars>>
    \/ engine = "minimax" /\ MiniMaxNext /\ UNCHANGED <<engine, customVars, codexVars, rtVars>>
    \/ engine = "realtime" /\ RtNext /\ UNCHANGED <<engine, customVars, codexVars, mmVars>>

Spec == Init /\ [][Next]_vars

\* What is said is not told apart, for TLC.
Symmetry == Permutations(Texts)

\* The type invariant of the four engines.
TypeOK == CustomTypeOK /\ CodexTypeOK /\ MiniMaxTypeOK /\ RtTypeOK

\* Whatever engine a stream runs, it has one voice.
OneVoiceEach == TypeOK /\ OneVoice /\ MiniMaxOneVoice

\* What the service writes is heard and told once unless the user interrupts it, and of
\* an interrupted reply nothing is heard; the engine forgets a reply when it ends.
RepliesAreHeard == CodexIsHeard /\ RealtimeIsHeard /\ RealtimeForgets
=============================================================================
