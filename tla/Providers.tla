------------------------------ MODULE Providers ----------------------------
(***************************************************************************)
(* Which server is asked for a text, an object or a picture, with whose    *)
(* key, and who speaks: getTokenForProvider, generateText,                 *)
(* generateObjectV2, generateImage and the speech service.  A key X stands *)
(* for the setting X_API_KEY, a server is named like its provider.  Which  *)
(* of a provider's models is asked, a character's modelEndpointOverride,   *)
(* and keys in its settings that are not secrets are left out.             *)
(***************************************************************************)
EXTENDS Naturals, Sequences

R == INSTANCE SequencesExt

CONSTANTS
    Names,   \* keys that may be set
    Painters \* providers of pictures that a character may name

VARIABLES
    keys,     \* keys[n]: where the key is set
    url,      \* ETERNALAI_URL, which .env.example leaves empty
    provider, \* the character's modelProvider
    painter,  \* its imageModelProvider, or else modelProvider
    answer    \* of the last call

vars == <<keys, url, provider, painter, answer>>

Compatible == {"OPENAI", "ETERNALAI", "ALI_BAILIAN", "VOLENGINE", "LLAMACLOUD", "TOGETHER"}
Providers ==
    Compatible \cup
    {"ANTHROPIC", "CLAUDE_VERTEX", "GROK", "GROQ", "LLAMALOCAL", "GOOGLE", "REDPILL",
     "OPENROUTER", "OLLAMA", "HEURIST", "GALADRIEL", "FAL", "GAIANET"}

ProvidersAssumption == Painters \subseteq Providers

NoAnswer == [call |-> "none", server |-> "none", key |-> "none", ok |-> FALSE]

Init ==
    /\ keys \in [Names -> {"unset", "env", "secret"}]
    /\ url \in {"set", "empty", "unset"}
    /\ provider \in Providers
    /\ painter \in Painters \cup {provider}
    /\ answer = NoAnswer

----------------------------------------------------------------------------
In(k, n, places) == n \in DOMAIN k /\ k[n] \in places
FirstOf(k, names, places) ==
    LET set == {i \in DOMAIN names : In(k, names[i], places)}
    IN  IF set = {} THEN "none" ELSE names[CHOOSE i \in set : \A j \in set : i <= j]

(* getTokenForProvider.  (A secret of OpenRouter is looked for under       *)
(* another name.  Which of Anthropic's two is taken makes no difference.)  *)
(* Mutant: OpenAI's key first, as for the servers that take no other.      *)
TogetherKeys_OpenAIFirst == <<"OPENAI", "LLAMACLOUD", "TOGETHER", "XAI">>
TogetherKeys == <<"LLAMACLOUD", "TOGETHER", "XAI", "OPENAI">>
KeysOf(p) ==
    CASE p \in {"LLAMACLOUD", "TOGETHER"} -> TogetherKeys
      [] p = "ANTHROPIC" -> <<"ANTHROPIC", "CLAUDE">>
      [] p \in {"OPENAI", "ETERNALAI", "REDPILL", "OPENROUTER", "GROK", "HEURIST", "GROQ",
                "GALADRIEL", "FAL", "ALI_BAILIAN", "VOLENGINE"} -> <<p>>
      [] OTHER -> <<>>

Places(p) == IF p = "OPENROUTER" THEN {"env"} ELSE {"env", "secret"}
Token(k, p) == FirstOf(k, KeysOf(p), Places(p))

(* Without a key the libraries take one from the environment or throw. *)
Fallback(p) ==
    IF p \in {"ANTHROPIC", "CLAUDE_VERTEX"} THEN "ANTHROPIC"
    ELSE IF p \in {"GROQ", "GOOGLE"} THEN p ELSE "OPENAI"

Sent(k, p) ==
    LET token == IF p = "GOOGLE" THEN "none" ELSE Token(k, p)
    IN  IF token # "none" THEN token ELSE FirstOf(k, <<Fallback(p)>>, {"env"})

(* The endpoints of models.ts, and whose keys they take.  EternalAI's is a *)
(* setting, without which the client asks OpenAI.                          *)
Server(p) == IF p = "LLAMACLOUD" THEN "TOGETHER"
             ELSE IF p = "CLAUDE_VERTEX" THEN "ANTHROPIC"
             ELSE IF p = "ETERNALAI" /\ url = "unset" THEN "OPENAI" ELSE p
Owners(server) ==
    CASE server = "TOGETHER" -> {"TOGETHER", "LLAMACLOUD"}
      [] server = "ANTHROPIC" -> {"ANTHROPIC", "CLAUDE"}
      [] server = "GROK" -> {"GROK", "XAI"}
      [] OTHER -> {server}

Refused == [server |-> "none", key |-> "none"]
Local(server) == [server |-> server, key |-> "local"]
Takes(r) ==
    /\ r.key # "none"
    /\ r.key \in Owners(r.server) \cup {"local"} \/ r.server = "GAIANET"

(* generateText: FAL has no case, and an empty URL is nobody's. *)
Text(k, p) ==
    IF p = "FAL" \/ (p = "ETERNALAI" /\ url = "empty") THEN Refused
    ELSE IF p \in {"LLAMALOCAL", "OLLAMA"} THEN Local(p)
    ELSE [server |-> Server(p), key |-> Sent(k, p)]

(* generateObjectV2 counts tokens with the model's own tokenizer, which is *)
(* known for the models of OpenAI, RedPill's defaults among them; for the  *)
(* others it throws.                                                       *)
HasTokenizer(p) == p \in {"OPENAI", "REDPILL"}

(* The handlers send to OpenAI what is compatible with it. *)
ObjectServer(p) == IF p \in Compatible THEN "OPENAI" ELSE Server(p)
AskForObject(k, p) == [server |-> ObjectServer(p), key |-> Sent(k, p)]

(* handleProvider *)
Object(k, p) ==
    IF ~HasTokenizer(p) \/ p \in {"CLAUDE_VERTEX", "HEURIST", "GALADRIEL", "FAL", "GAIANET"}
    THEN Refused
    ELSE IF p \in {"LLAMALOCAL", "OLLAMA"} THEN Local(p)
    ELSE AskForObject(k, p)

(* generateImage.  Of two providers the first key that is set is taken,    *)
(* whoever is asked; the null of none is no reason to look further.        *)
ImageKeys == <<"HEURIST", "TOGETHER", "FAL", "OPENAI">>
ImageServer(i) ==
    IF i \in {"TOGETHER", "LLAMACLOUD"} THEN "TOGETHER"
    ELSE IF i \in {"HEURIST", "FAL"} THEN i ELSE "OPENAI"
ImageToken(k, p, i) ==
    IF i # p THEN FirstOf(k, ImageKeys, {"env", "secret"})
    ELSE IF Token(k, p) # "none" \/ ImageServer(i) \in {"HEURIST", "FAL"} THEN Token(k, p)
    ELSE FirstOf(k, <<ImageServer(i)>>, {"env"})
Picture(k, p, i) == [server |-> ImageServer(i), key |-> ImageToken(k, p, i)]

(* OpenAI refuses the models of these two; where a provider names none it  *)
(* takes its own.                                                          *)
Paints(i) == i \notin {"ETERNALAI", "ALI_BAILIAN"}

----------------------------------------------------------------------------
(* Anything may fail besides. *)
Answer(call, r, possible) ==
    \E ok \in BOOLEAN :
        /\ ok => possible /\ Takes(r)
        /\ answer' = [call |-> call, server |-> r.server, key |-> r.key, ok |-> ok]
        /\ UNCHANGED <<keys, url, provider, painter>>

GenerateText == Answer("text", Text(keys, provider), TRUE)
GenerateObject == Answer("object", Object(keys, provider), TRUE)
GenerateImage == Answer("image", Picture(keys, provider, painter), Paints(painter))

Spoken(server, key, ok) ==
    /\ answer' = [call |-> "speech", server |-> server, key |-> key, ok |-> ok]
    /\ UNCHANGED <<keys, url, provider, painter>>

(* validateNodeConfig demands a key of OpenAI, which is not used; the      *)
(* defaults it makes are not used either, so that without a setting for    *)
(* the format what ElevenLabs has been paid for is thrown away.            *)
Validated == In(keys, "OPENAI", {"env", "secret"})
SpeakEleven ==
    /\ In(keys, "ELEVENLABS", {"env", "secret"}) /\ Validated
    /\ \E whole \in BOOLEAN : Spoken("ELEVENLABS", "ELEVENLABS", whole)

(* Whatever fails before is made up for by the synthesizer, after a quota  *)
(* that is exceeded twice if it fails itself; in the end it may throw.     *)
SpeakVits ==
    \E paid \in {"none", "ELEVENLABS"}, ok \in BOOLEAN :
        /\ paid # "none" => In(keys, "ELEVENLABS", {"env", "secret"}) /\ Validated
        /\ Spoken("VITS", paid, ok)

Next ==
    /\ answer = NoAnswer
    /\ GenerateText \/ GenerateObject \/ GenerateImage \/ SpeakEleven \/ SpeakVits

Spec == Init /\ [][Next]_vars

----------------------------------------------------------------------------
TypeOK ==
    /\ keys \in [Names -> {"unset", "env", "secret"}] /\ url \in {"set", "empty", "unset"}
    /\ provider \in Providers /\ painter \in Providers
    /\ answer.call \in {"none", "text", "object", "image", "speech"} /\ answer.ok \in BOOLEAN
    /\ answer.server \in Providers \cup {"none", "ELEVENLABS", "VITS"}

(* A key is sent to a server that is not its owner's only if none is set   *)
(* of those that the provider looks for and its server takes, and then it  *)
(* is OpenAI's, or Grok's from Together; or it is EternalAI's, sent to     *)
(* OpenAI where no URL is set.  (Pictures are another matter.)             *)
OwnKeySet(p) ==
    \E n \in Owners(Server(p)) : R!Contains(KeysOf(p), n) /\ In(keys, n, Places(p))

KeysStayHome ==
    (answer.call \in {"text", "object"} /\ answer.key \notin {"none", "local"}
     /\ answer.key \notin Owners(answer.server)) =>
        \/ ~OwnKeySet(provider) /\ answer.key \in {"OPENAI", "XAI"}
        \/ answer.key = "ETERNALAI" /\ answer.server = "OPENAI" /\ url = "unset"

Rank(key) == CHOOSE i \in 1 .. Len(ImageKeys) : ImageKeys[i] = key

(* A key more in the environment does not spoil a text, unless EternalAI's *)
(* own ends what OpenAI did in its place, nor an object.  It spoils the    *)
(* pictures of another provider only if it comes before that one's in the  *)
(* order of the four, and of the same provider only if OpenAI made them    *)
(* because that one had no key.                                            *)
Spoils(n, before) ==
    /\ n \notin Owners(before.server)
    /\ IF painter = provider THEN Token(keys, provider) = "none" /\ R!Contains(KeysOf(provider), n)
       ELSE R!Contains(ImageKeys, n) /\ Rank(n) < Rank(before.key)

MoreKeysDoNoHarm ==
    answer = NoAnswer =>
        \A n \in {m \in Names : keys[m] = "unset"} :
            LET more == [keys EXCEPT ![n] = "env"]
                before == Picture(keys, provider, painter)
            IN  /\ Takes(Text(keys, provider)) =>
                      Takes(Text(more, provider)) \/ (n = "ETERNALAI" /\ url = "unset")
                /\ Takes(Object(keys, provider)) => Takes(Object(more, provider))
                /\ Takes(before) =>
                      Takes(Picture(more, provider, painter)) \/ Spoils(n, before)

(* ElevenLabs speaks only for who has a key of OpenAI. *)
VoiceNeedsOpenAI ==
    (answer.call = "speech" /\ "ELEVENLABS" \in {answer.server, answer.key}) =>
        In(keys, "OPENAI", {"env", "secret"})

KeysFit == KeysStayHome /\ MoreKeysDoNoHarm /\ VoiceNeedsOpenAI

============================================================================
