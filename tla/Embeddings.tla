----------------------------- MODULE Embeddings ----------------------------
(***************************************************************************)
(* Where the vectors of memories come from, and what becomes of memories   *)
(* whose vectors do not have one dimension.  The settings choose a         *)
(* provider when the process starts; the database outlives the process.    *)
(* A vector is known by its dimension: "0" is the empty one.               *)
(***************************************************************************)
EXTENDS Naturals

VARIABLES
    database, \* "sqlite" or "postgres"
    column,   \* dimension of the column of postgres
    provider, \* what the settings of this process choose
    changed,  \* whether processes have had different ones
    rows,     \* rows[p]: the dimensions stored in a place
    answer    \* of the last call

vars == <<database, column, provider, changed, rows, answer>>

Providers == {"OpenAI", "Ollama", "GaiaNet", "BGE"}

(* getEmbeddingConfig and getEmbeddingZeroVector. *)
Config == [OpenAI |-> "1536", Ollama |-> "1024", GaiaNet |-> "1536", BGE |-> "384"]
ZeroVector == [OpenAI |-> "1536", Ollama |-> "1024", GaiaNet |-> "384", BGE |-> "384"]

Dimensions == {"384", "1024", "1536"}
Zero == ZeroVector[provider]

(* A table of memories in one room: messages of a Discord channel (facts   *)
(* are embedded like them), of a Telegram chat (the agent's documents have *)
(* zeros, too) and of the REST client, and fragments of documents.         *)
Messages == {"discord", "telegram", "direct"}
Places == Messages \cup {"fragments"}

NoCall == [call |-> "none", place |-> "none", vector |-> "none", ok |-> TRUE]

(* What postgres' column holds is set by the database's own settings.      *)
Init ==
    /\ database \in {"sqlite", "postgres"}
    /\ column \in IF database = "sqlite" THEN {"384"} ELSE Dimensions
    /\ provider \in Providers
    /\ changed = FALSE
    /\ rows = [p \in Places |-> {}]
    /\ answer = NoCall

----------------------------------------------------------------------------
(* getRemoteEmbedding: an error is thrown; an answer without data is       *)
(* undefined; otherwise the server keeps to the dimensions it is asked.    *)
Remote == {Config[provider], "undefined", "throws"}

(* getLocalEmbedding, and the fallback when it throws. *)
Local == {"384"} \cup Remote

(* getCachedEmbeddings looks inside the column called content for the      *)
(* field content.text; the column is the content.  What sqlite would find  *)
(* it would read one byte a number; postgres' texts are filtered out.      *)
Fields == {"text", "source", "action", "inReplyTo", "url", "attachments"}
CachedIn(fields) == "content.text" \in fields
ReadBack(v) == IF v = "0" THEN "0" ELSE "bytes"
Cached ==
    IF CachedIn(Fields) /\ database = "sqlite"
    THEN {ReadBack(v) : v \in UNION {rows[p] : p \in Messages}} ELSE {}

(* embed, of a text that is not blank. *)
Embed ==
    IF Cached # {} THEN Cached
    ELSE IF provider = "BGE" THEN Local ELSE Remote

(* addEmbeddingToMemory. *)
Embedded == {IF v = "throws" THEN Zero ELSE v : v \in Embed}

----------------------------------------------------------------------------
(* vec_distance_L2 of all rows of the place: vectors of two dimensions and *)
(* empty ones are errors.                                                  *)
Comparable(S, v) == S \subseteq {v} /\ (v = "0" => S = {})

(* createMemory of sqlite searches for similar memories first, unless      *)
(* there is no vector; then an empty one is stored.                        *)
(* Mutant: it does not search.                                             *)
SqliteTakes_Unsearched(S, v) == TRUE
SqliteTakes(S, v) == v = "undefined" \/ Comparable(S, v)

(* Postgres' search is of the dimension the settings say, and its column   *)
(* takes one dimension, and nulls.                                         *)
PostgresTakes(v) == v = "undefined" \/ (v = Config[provider] /\ v = column)

Takes(p, v) == IF database = "sqlite" THEN SqliteTakes(rows[p], v) ELSE PostgresTakes(v)
Kept(v) ==
    IF v # "undefined" THEN v ELSE IF database = "sqlite" THEN "0" ELSE "null"

CreateMemory(p, v) ==
    /\ rows' = IF Takes(p, v) THEN [rows EXCEPT ![p] = @ \cup {Kept(v)}] ELSE rows
    /\ answer' = [call |-> "create", place |-> p, vector |-> v, ok |-> Takes(p, v)]
    /\ UNCHANGED <<database, column, provider, changed>>

(* A message with a text on Discord, or a claim of the fact evaluator. *)
StoreEmbedded == \E v \in Embedded : CreateMemory("discord", v)

(* The agent's own messages and reactions on Discord, and both sides of a  *)
(* chat on Telegram.                                                       *)
StoreZeros == \E p \in {"discord", "telegram"} : CreateMemory(p, Zero)

(* The REST client's messages. *)
StoreBare == CreateMemory("direct", "undefined")

Fail(call, p, v) ==
    /\ answer' = [call |-> call, place |-> p, vector |-> v, ok |-> FALSE]
    /\ UNCHANGED <<database, column, provider, changed, rows>>

(* knowledge.set. *)
StoreFragment ==
    \E v \in Embed : IF v = "throws" THEN Fail("embed", "fragments", v)
                     ELSE CreateMemory("fragments", v)

(* knowledge.get, which composeState calls: the search for fragments. *)
Finds(S, v) ==
    IF database = "sqlite" THEN Comparable(S, IF v = "undefined" THEN "0" ELSE v)
    ELSE v = Config[provider] /\ (S \ {"null"} # {} => v = column)

Search ==
    \E v \in Embed :
        IF v = "throws" THEN Fail("embed", "fragments", v)
        ELSE /\ answer' = [call |-> "search", place |-> "fragments", vector |-> v,
                           ok |-> Finds(rows["fragments"], v)]
             /\ UNCHANGED <<database, column, provider, changed, rows>>

(* The facts provider embeds the recent messages and uses nothing of it,   *)
(* except that the composition of the state fails with it.                 *)
Provide ==
    \E v \in Embed :
        /\ answer' = [call |-> "provide", place |-> "discord", vector |-> v, ok |-> v # "throws"]
        /\ UNCHANGED <<database, column, provider, changed, rows>>

Restart ==
    \E p \in Providers :
        /\ provider' = p
        /\ changed' = (changed \/ p # provider)
        /\ answer' = NoCall
        /\ UNCHANGED <<database, column, rows>>

Next ==
    \/ StoreEmbedded \/ StoreZeros \/ StoreBare
    \/ StoreFragment \/ Search \/ Provide \/ Restart

Spec == Init /\ [][Next]_vars

----------------------------------------------------------------------------
TypeOK ==
    /\ database \in {"sqlite", "postgres"} /\ column \in Dimensions
    /\ provider \in Providers /\ changed \in BOOLEAN
    /\ rows \in [Places -> SUBSET (Dimensions \cup {"0", "null", "bytes"})]
    /\ answer \in [call : {"none", "create", "embed", "search", "provide"},
                   place : Places \cup {"none"},
                   vector : Dimensions \cup {"none", "0", "bytes", "undefined", "throws"},
                   ok : BOOLEAN]

(* In a place of sqlite all vectors have one dimension: the search before  *)
(* an insertion refuses the others.  An answer without data goes around    *)
(* it, and from then on nothing that has a vector is taken, ever.          *)
OneDimension ==
    database = "sqlite" =>
        /\ \A p \in Places : \A v, w \in rows[p] \ {"0"} : v = w
        /\ (answer.call = "create" /\ answer.ok /\ answer.vector # "undefined") =>
               rows[answer.place] = {answer.vector}

(* While the settings never change and every answer has data, nothing is   *)
(* refused, and nothing found, for its dimension, with one exception: what *)
(* GaiaNet embeds has not the dimension of zeros, so that in a channel of  *)
(* Discord either the agent's messages are kept or the users'.             *)
SteadySettingsFit ==
    (/\ database = "sqlite" /\ ~changed
     /\ \A p \in {"discord", "fragments"} : "0" \notin rows[p]
     /\ answer.vector \in Dimensions) =>
        \/ answer.ok
        \/ /\ provider = "GaiaNet" /\ answer.place = "discord"
           /\ answer.vector = "384" <=> "1536" \in rows[answer.place]

(* In postgres a place holds vectors of the column's dimension only, and   *)
(* while the settings have another no vector is stored and no fragment     *)
(* found.                                                                  *)
ColumnDecides ==
    database = "postgres" =>
        /\ \A p \in Places : rows[p] \subseteq {column, "null"}
        /\ (answer.call = "create" /\ answer.ok /\ Config[provider] # column) =>
               answer.vector = "undefined"
        /\ (answer.call = "search" /\ answer.ok) =>
               answer.vector = Config[provider] /\ rows["fragments"] \subseteq {Config[provider], "null"}

VectorsFit == OneDimension /\ SteadySettingsFit /\ ColumnDecides

============================================================================
