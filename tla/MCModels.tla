------------------------------ MODULE MCModels -----------------------------
(***************************************************************************)
(* What asks models that write, hear and speak, on small instances: Llama, *)
(* which this module extends, the loops that ask for an answer until it    *)
(* can be parsed, the voice client of Discord, Embeddings, the vectors of  *)
(* memories, and Providers, whose server is asked with whose key.  They    *)
(* share no state, so each is driven on its own: the first state chooses   *)
(* which.                                                                  *)
(***************************************************************************)
EXTENDS Llama, FiniteSets

CONSTANTS
    Questions, Message, MaxTries,                         \* of Generation
    MaxSize, MaxSaid, MaxSpoken, MaxRejoins, MaxPlayers,  \* of Voice
    Channels, MaxConnections, MaxDrops,                   \* of VoiceChannels
    Names, Painters                                       \* of Providers

VARIABLES
    driven,
    geAt, geDelay, geFailures, geGap,
    voAlive, voSpeaking, voSpoken, voFetching, voLate, voSubscribed, voUnread, voMonitors,
    voBuffers, voTimers, voJobs, voMessages, voPlaying, voPlayer, voRejoins,
    chRunning, chMade, chStatus, chGoal, chTracked, chJoining, chMap, chWaiting, chDrops,
    emDatabase, emColumn, emProvider, emChanged, emRows, emAnswer,
    prKeys, prUrl, prProvider, prPainter, prAnswer

Ge == INSTANCE Generation WITH
    Calls <- Questions,
    at <- geAt, delay <- geDelay, failures <- geFailures, gap <- geGap

Vo == INSTANCE Voice WITH
    alive <- voAlive, speaking <- voSpeaking, spoken <- voSpoken, fetching <- voFetching,
    late <- voLate, subscribed <- voSubscribed, unread <- voUnread,
    monitors <- voMonitors, buffers <- voBuffers, timers <- voTimers, jobs <- voJobs,
    messages <- voMessages, playing <- voPlaying, player <- voPlayer, rejoins <- voRejoins

Ch == INSTANCE VoiceChannels WITH
    running <- chRunning, made <- chMade, status <- chStatus, goal <- chGoal,
    tracked <- chTracked, joining <- chJoining, map <- chMap, waiting <- chWaiting,
    drops <- chDrops

Em == INSTANCE Embeddings WITH
    database <- emDatabase, column <- emColumn, provider <- emProvider,
    changed <- emChanged, rows <- emRows, answer <- emAnswer

Pr == INSTANCE Providers WITH
    keys <- prKeys, url <- prUrl, provider <- prProvider, painter <- prPainter, answer <- prAnswer

geVars == <<geAt, geDelay, geFailures, geGap>>
voVars == <<voAlive, voSpeaking, voSpoken, voFetching, voLate, voSubscribed, voUnread,
            voMonitors, voBuffers, voTimers, voJobs, voMessages, voPlaying, voPlayer, voRejoins>>
chVars == <<chRunning, chMade, chStatus, chGoal, chTracked, chJoining, chMap, chWaiting, chDrops>>
emVars == <<emDatabase, emColumn, emProvider, emChanged, emRows, emAnswer>>
prVars == <<prKeys, prUrl, prProvider, prPainter, prAnswer>>

ASSUME Instances ==
    /\ Ge!GenerationAssumption /\ Vo!VoiceAssumption
    /\ Ch!VoiceChannelsAssumption /\ Pr!ProvidersAssumption

sysVars == <<driven, vars, geVars, voVars, chVars, emVars, prVars>>

(* Of the keys that Providers tells apart at most two are set. *)
SysInit ==
    /\ driven \in {"llama", "generation", "voice", "channels", "embeddings", "providers"}
    /\ Init /\ Ge!Init /\ Vo!Init /\ Ch!Init /\ Em!Init
    /\ IF driven = "providers"
       THEN Pr!Init /\ Cardinality({n \in DOMAIN prKeys : prKeys[n] # "unset"}) <= 2
       ELSE /\ prKeys = [n \in {} |-> "unset"] /\ prAnswer = Pr!NoAnswer
            /\ prUrl = "set" /\ prProvider = "OPENAI" /\ prPainter = "OPENAI"
    /\ driven # "embeddings" => emDatabase = "sqlite" /\ emProvider = "BGE"

Completing ==
    driven = "llama" /\ Next /\ UNCHANGED <<driven, geVars, voVars, chVars, emVars, prVars>>
Asking ==
    driven = "generation" /\ Ge!Next /\ UNCHANGED <<driven, vars, voVars, chVars, emVars, prVars>>
Talking ==
    driven = "voice" /\ Vo!Next /\ UNCHANGED <<driven, vars, geVars, chVars, emVars, prVars>>
Joining ==
    driven = "channels" /\ Ch!Next /\ UNCHANGED <<driven, vars, geVars, voVars, emVars, prVars>>
Embedding ==
    driven = "embeddings" /\ Em!Next /\ UNCHANGED <<driven, vars, geVars, voVars, chVars, prVars>>
Choosing ==
    driven = "providers" /\ Pr!Next /\ UNCHANGED <<driven, vars, geVars, voVars, chVars, emVars>>

SysNext == Completing \/ Asking \/ Talking \/ Joining \/ Embedding \/ Choosing

(* Each part's own fairness; it asks nothing of a part at rest. *)
SysSpec ==
    /\ SysInit /\ [][SysNext]_sysVars
    /\ WF_vars(Worker)
    /\ \A r \in Requests : WF_vars(Initialize(r))
    /\ \A c \in Questions : WF_geVars(driven = "generation" /\ Ge!Step(c))
    /\ WF_voVars(Vo!Continue)

----------------------------------------------------------------------------
(* Types of the services' fields, of the calls' progress and of vectors. *)
TypesOK ==
    /\ TypeOK
    /\ driven = "generation" => Ge!TypeOK
    /\ driven = "voice" => Vo!TypeOK
    /\ driven = "channels" => Ch!TypeOK
    /\ driven = "embeddings" => Em!TypeOK
    /\ driven = "providers" => Pr!TypeOK

(* Voice: what is said is handed over in order and once, the process does  *)
(* not hang on speech that a monitor can hold, and the agent speaks with   *)
(* one voice.  VoiceChannels: the map of connections is right while calls  *)
(* overlap.                                                                *)
VoiceIsHeard ==
    /\ driven = "voice" => Vo!HeardInOrder /\ Vo!HangsOnLongSpeech /\ Vo!OneVoice
    /\ driven = "channels" => Ch!MapFollowsConnection /\ Ch!JoinsMayOverlap

(* Embeddings: which vectors are stored, and found, together.              *)
VectorsFit == driven = "embeddings" => Em!VectorsFit

(* Providers: which keys are sent where, and what one more of them spoils. *)
KeysFit == driven = "providers" => Pr!KeysFit

(* Every question to a model is answered: a call that is alone gets its    *)
(* local model, what is in the queue is completed, the loops end, with     *)
(* pauses that double while a timer can hold them, and what was heard is   *)
(* transcribed.                                                            *)
QuestionsEnd ==
    /\ AloneGetsThrough /\ QueuedAnswered
    /\ []Ge!PausesDouble
    /\ driven = "generation" => Ge!CallsEnd
    /\ Vo!BuffersAreTranscribed

============================================================================
