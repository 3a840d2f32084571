---------------------------- MODULE ProviderVoices ----------------------------
(***************************************************************************)
(* The voices a user has at a provider of speech (local_stream_cli.py,     *)
(* aliyun_bailian_client.py, minimax_voice_client.py): they are cloned in  *)
(* several requests, each of which may fail, and listed page by page while *)
(* others are made and deleted, perhaps by another program.                *)
(*                                                                         *)
(* What a page says of a voice besides its id is left out, and so is the   *)
(* reason why a request is refused before it is begun.                     *)
(***************************************************************************)
EXTENDS Naturals, Sequences, FiniteSets

CONSTANTS
    VoiceIds,
    PageSize,
    MaxListed    \* _MAX_COSYVOICE_INVENTORY

ASSUME InventoryAssumption == PageSize \in Nat \ {0} /\ MaxListed \in Nat \ {0}

VARIABLES
    inventory,  \* external: the voices of Bailian's account, in the provider's order
    made,       \* the voices that were ever made, with either provider
    clone,      \* the request that clones a voice: where it is, of which kind, which voice
    query       \* the query: where it is, the next page, what is listed; history: the
                \* voices that were there all the time, unless one was deleted meanwhile

voiceVars == <<inventory, made, clone, query>>

NoClone == [at |-> "none", kind |-> "none", voice |-> "none"]
NoQuery == [at |-> "none", page |-> 0, listed |-> <<>>, kept |-> {}]

VoicesInit == inventory = <<>> /\ made = {} /\ clone = NoClone /\ query = NoQuery

Ids(s) == {s[i] : i \in DOMAIN s}

\* v comes to stand after the first n.
InsertedAfter(n, v) ==
    [i \in 1..(Len(inventory) + 1) |->
        IF i <= n THEN inventory[i] ELSE IF i = n + 1 THEN v ELSE inventory[i - 1]]

\* The provider makes a voice, and puts it where it likes.
Makes(v) ==
    /\ v \notin made /\ made' = made \cup {v}
    /\ \E n \in 0..Len(inventory) : inventory' = InsertedAfter(n, v)

\* By another program of the user's, or in the provider's console.
MadeElsewhere(v) == Makes(v) /\ UNCHANGED <<clone, query>>

DeletedElsewhere(n) ==
    /\ inventory' = [i \in 1..(Len(inventory) - 1) |->
                        IF i < n THEN inventory[i] ELSE inventory[i + 1]]
    /\ query' = [query EXCEPT !.kept = {}]
    /\ UNCHANGED <<made, clone>>

-----------------------------------------------------------------------------
(* provider_voice_clone, clone_cosyvoice and clone_minimax_voice.          *)

\* The audio is uploaded or named by its address; what is invalid is refused.
AskClone ==
    /\ clone.at \in {"none", "told", "failed"}
    /\ \E v \in VoiceIds \ made :
          clone' \in {[at |-> "create", kind |-> "address", voice |-> v],
                      [at |-> "policy", kind |-> "bailian", voice |-> v],
                      [at |-> "upload", kind |-> "minimax", voice |-> v]}
    /\ UNCHANGED <<inventory, made, query>>

GetPolicy ==
    /\ clone.at = "policy" /\ clone' = [clone EXCEPT !.at = "upload"]
    /\ UNCHANGED <<inventory, made, query>>

UploadAudio ==
    /\ clone.at = "upload" /\ clone' = [clone EXCEPT !.at = "create"]
    /\ UNCHANGED <<inventory, made, query>>

\* create_voice and voice_clone.
CreateVoice ==
    /\ clone.at = "create" /\ clone' = [clone EXCEPT !.at = "created"]
    /\ IF clone.kind = "minimax"
       THEN clone.voice \notin made /\ made' = made \cup {clone.voice} /\ UNCHANGED inventory
       ELSE Makes(clone.voice)
    /\ UNCHANGED query

\* As TellsClone would be if an upload that was taken were enough.
TellsCloneEarly ==
    /\ clone.at \in {"create", "created"} /\ clone' = [clone EXCEPT !.at = "told"]
    /\ UNCHANGED <<inventory, made, query>>

TellsClone ==
    /\ clone.at = "created" /\ clone' = [clone EXCEPT !.at = "told"]
    /\ UNCHANGED <<inventory, made, query>>

\* A request fails, or its answer does not come or is not understood; nothing that was
\* uploaded or made is taken back.
CloneFails ==
    /\ clone.at \in {"policy", "upload", "create", "created"}
    /\ clone' = [clone EXCEPT !.at = "failed"]
    /\ UNCHANGED <<inventory, made, query>>

-----------------------------------------------------------------------------
(* provider_voice_clone_query and list_cosyvoice_voices.                   *)

AskVoices ==
    /\ query.at # "asking"
    /\ query' = [at |-> "asking", page |-> 0, listed |-> <<>>, kept |-> Ids(inventory)]
    /\ UNCHANGED <<inventory, made, clone>>

\* The rest of a page that is not full when there is none.
Page == SubSeq(inventory, query.page * PageSize + 1,
            IF (query.page + 1) * PageSize < Len(inventory)
            THEN (query.page + 1) * PageSize ELSE Len(inventory))

\* As Unseen would be if it looked at nothing it has.
UnseenAny(v) == TRUE

Unseen(v) == v \notin Ids(query.listed)

NewIds == {v \in Ids(Page) : Unseen(v)}

\* What is new on the page, in its order: a provider has a voice once.
NewOnPage == {new \in [1..Cardinality(NewIds) -> NewIds] :
    /\ Ids(new) = NewIds
    /\ \A i \in DOMAIN new, j \in DOMAIN new : i < j =>
          \E m \in DOMAIN Page, n \in DOMAIN Page : m < n /\ new[i] = Page[m] /\ new[j] = Page[n]}

MaxPages == (MaxListed + PageSize - 1) \div PageSize

\* All that fit are listed, a page is not full, or it brings nothing new.
HearPage ==
    /\ query.at = "asking"
    /\ \E new \in NewOnPage : LET all == query.listed \o new IN
       query' = [query EXCEPT
          !.page = @ + 1,
          !.listed = IF Len(all) > MaxListed THEN SubSeq(all, 1, MaxListed) ELSE all,
          !.at = CASE Len(all) >= MaxListed -> "full"
                   [] Len(all) < MaxListed /\ Len(Page) < PageSize -> "whole"
                   [] Len(all) < MaxListed /\ Len(Page) = PageSize /\ NewIds = {} -> "failed"
                   [] OTHER -> IF query.page + 1 = MaxPages THEN "full" ELSE "asking"]
    /\ UNCHANGED <<inventory, made, clone>>

QueryFails ==
    /\ query.at = "asking" /\ query' = [query EXCEPT !.at = "failed"]
    /\ UNCHANGED <<inventory, made, clone>>

VoicesNext ==
    \/ \E v \in VoiceIds : MadeElsewhere(v)
    \/ \E n \in DOMAIN inventory : DeletedElsewhere(n)
    \/ AskClone \/ GetPolicy \/ UploadAudio \/ CreateVoice \/ TellsClone \/ CloneFails
    \/ AskVoices \/ HearPage \/ QueryFails

-----------------------------------------------------------------------------
(* Properties.                                                             *)

\* No voice is listed twice, and no more than fit, although the pages move under the
\* query; a list that ends with its last page has every voice that was there all the time
\* if none was deleted meanwhile; and a voice whose cloning was answered was made.
VoicesAreListed ==
    /\ Len(query.listed) <= MaxListed
    /\ \A i \in DOMAIN query.listed, j \in DOMAIN query.listed :
          i # j => query.listed[i] # query.listed[j]
    /\ query.at = "whole" => query.kept \subseteq Ids(query.listed)
    /\ clone.at = "told" => clone.voice \in made
=============================================================================
