# Verification of the elizaOS agent runtime

TLA+ models of the agent runtime in `src/` (a fork of elizaOS 0.1.x in TypeScript), the TLC
configurations that check them on small instances, and proofs, checked by TLAPS, of what matters
most for every instance. `PROJECT.json` maps each definition to the lines it models and lists the
runs, the mutants of the code each property catches, the hazards and the theorems.

- [1 The system](#1-the-system): inventory of components
- [2 Modules](#2-modules): what models what, and how it corresponds to the code
- [3 Runs](#3-runs): what each checks, bounds, results
- [4 Fairness](#4-fairness)
- [5 Proofs](#5-proofs)
- [6 What the code does that its documentation does not say](#6-what-the-code-does-that-its-documentation-does-not-say)
- [7 What is not modelled](#7-what-is-not-modelled)
- [8 Plan](#8-plan)

## 1 The system

A process (`src/agent/src/index.ts`) launches *characters* one after the other. Each becomes an
`AgentRuntime` (`packages/core/src/runtime.ts`) with a database adapter, memory managers, a cache,
actions, evaluators, providers, services, and clients that receive messages and drive the runtime.
Inside a process everything runs on one event loop, so code between two `await`s is atomic and
everything else interleaves. Several processes may share a database; the agents of one process
share the service singletons of plugin-node. A rejected promise that nobody handles ends the
process, with every agent in it.

    clients (Discord, Telegram, REST, Twitter posts)     plugins (actions, evaluators)
        |  message                                            ^ handlers
        v                                                     |
    AgentRuntime: ensureConnection -> createMemory -> composeState -> model -> processActions -> evaluate
        |                |                 |                              |
        v                v                 v                              v
    accounts, rooms,   memories      goals, cache              services: transcription, llama, speech,
    participants       (adapter: sqlite or postgres)           video, image, browser, wallets, devices

| component | state | what is hard | what makes it correct | module |
|---|---|---|---|---|
| launcher (`agent/src/index.ts`) | position in `startAgents`, databases, clients, agents known to the server | un-awaited database tests and logins, a failure halfway | a registered agent is whole; one failure is one agent's | `Launch` |
| knowledge ingestion (`runtime.ts` 375-437, `knowledge.ts`, `memory.ts`) | memories, position in nested loops | crash between a document and its fragments, check-then-insert by two processes, a lost answer, ids shared by agents | no fragment without its document; a fault tears at most one item; a memory changes its owner in one race only | `Knowledge` |
| accounts, rooms, participants (`runtime.ts` 208-255, 642-737) | three tables | concurrent check-then-insert; errors answered with `false`; the constructor awaits nothing; sqlite checks no foreign key | a returned call has made its rows; rows resolve | `Connection` |
| Discord conversations (`messages.ts`, `utils.ts`, room actions) | userState of the agent in a room, memories | handlers interleave; state is read, then used after calls of the model; sending fails halfway | muted rooms stay silent; replies resolve; bounded answers; every handler ends | `Conversation` |
| Discord attachments, reactions | cache by url, temporary files; reaction memories | ffmpeg runs twice on files named by the millisecond; ids made of names and clocks | what is kept of a url is its own; an event that was handled is remembered | `Attachments`, `Reactions` |
| Discord voice (`voice.ts`) | monitors, buffers, timers, connections of a guild | awaits between *start* and reset, debounce, buffers at their limit, listeners that outlive a connection | speech in order and once; one voice; the map of connections is right | `Voice`, `VoiceChannels` |
| Telegram, REST, Twitter, Farcaster clients | handlers in flight, timers | ids from numbers and clocks, errors nobody catches, Telegraf's limit of 90 s, answers that are stored after they were sent | what a client thinks stored is stored; the process survives | `Telegram`, `Direct`, `Posting`, `Farcaster` |
| state composition (`runtime.ts` 739-1230) | none of its own; the state it returns | reads spread over awaits, arrays reversed in place | what is composed is what was said | `Recall` |
| goal evaluator (`evaluators/goal.ts`) | goals rows | read, ask, read, merge, write; not awaited | no objective lost; what is finished stays | `Goals` |
| actions of the plugins | what they changed outside | a step after the change fails; the callback is not awaited; results are ignored | who is told of success got it | `Actions` |
| Coinbase wallets, devices | wallet seeds in files, queue of vibrations | a wallet per call until a restart; services initialized twice | some seed on file once a wallet was saved, nobody paid twice | `Coinbase`, `Haptics` |
| trust scores (plugin-solana) | tables, cache of market data, consumers of a queue | promises taken for values, statements that are refused, an un-awaited evaluator | recommendations are decided on what the market says, and credited to who made them | `Trust` |
| transcription, local model, image, video, browser services | queues, flags, files, lazily made objects | initialization by every caller, a job done by worker and caller, names by the millisecond | a serial server, or the right answer to each; every call ends | `Transcription`, `Llama`, `Image`, `Video`, `Browser` |
| text, objects, pictures, speech (`generation.ts`, `models.ts`, `speech.ts`) | loops that ask again; keys and providers | unbounded retry, four tables in three files that choose a key | pauses; a key goes to its owner | `Generation`, `Providers` |
| embeddings (`embedding.ts`) | vectors in the database | dimensions that differ by provider and by process | what is stored can be searched | `Embeddings` |
| adapters (sqlite, postgres, sql.js, supabase) | the tables, as each database keeps them | errors that are thrown, caught or retried, by method | the databases answer alike | `Tables`, `Adapters`, `Ports` |
| pool of postgres, cache manager | pools; cache rows | overlapping pool errors; un-awaited deletions | an error is survived; a set value is found until it expires | `Pool`, `Cache` |

`PROJECT.json` gives each component's sources and status, and lists those that are left out with
the reason; section 7 repeats the important ones.

## 2 Modules

| module | kind |
|---|---|
| `SerialServer` | abstract specification: requests served one at a time, in order, answered once |
| `Transcription`, `Llama` | detailed specifications; both implement `SerialServer` (refinement mapping by `INSTANCE ... WITH`) |
| `Tables` | the tables of a database, what callers store in them, and the methods of the sqlite adapter as operators over them (`Sq...`); those of the others are `Pg...` in `Adapters` (postgres), `Sj...` (sql.js) and `Su...` (supabase) in `Ports` |
| `Adapters`, `Ports` | compose them: the same calls on two, or three, databases |
| the other modules of the table above | one component, or one part of it, each |
| `MCKnowledge` | instances of Knowledge |
| `MCClients`, `MCConnection`, `MCModels`, `MCServices`, `MCTables` | extend the component that is named last in their comment's first sentence (Conversation, Connection, Llama, Transcription, Goals) and hold small instances of others |
| `KnowledgeProofs`, `ConnectionProofs`, `TablesProofs`, `ClientsProofs`, `ServicesProofs`, `ModelsProofs` | theorems about the `MC` module they are named after (`KnowledgeProofs`: Knowledge) and the components it holds |
| `OutcomesProofs` | the rest of `MCServices`: Actions, Coinbase, Haptics and the properties of the run |
| `QueueTheorems` | lemmas about a queue without repetitions, for the two refinements, and the least member of a set of numbers, for the proofs about tables, messages and objectives |

An action is the code between two `await`s, named after the call or callback that ends it; the
variable `pc`, `at`, `phase` or `task` is the position at an `await`. What the language model, an
external command or a platform answers is a choice. Operators named `X_Word` next to an operator `X`
are plausible mistakes in the code of `X` (*mutants*): with `X` replaced by one of them, the property
that is about it fails.

**Modules that hold several components.** The components of one `MC` module share no state in the
code, so their product would only multiply states. A variable `driven`, chosen initially, says which
of them takes steps; the others rest in one of their initial states. Each component is thereby
checked on its own instance, as if it had a run of its own; what two components do to each other is
not lost but modelled inside a component (for example the search for similar memories in `Adapters`
while others create or remove memories).

### Knowledge

`owner` is the memories table: the id of a document is a hash of its text and the id of a fragment a
hash of the document's id and the chunk (`stringToUuid`), so `owner` maps `<<item, n>>` to the
`agentId` column; ids are the same for every agent, as in the code. `pc`, `cur`, `item` and `frag` are
the loop positions of each process in `startAgents`, `processCharacterKnowledge` and `knowledge.set`.
`LookupDocument` is `getMemoryById`, which hides other agents' rows (`Visible`); `CheckDocument` and
`CheckFragment` are the test inside `createMemory`, which does not (`Exists`). `InsertRow` is `INSERT
OR REPLACE` on sqlite and a plain `INSERT` on postgres; the database is the variable `adapter`, chosen
initially, so that one run covers both. `CallFails` is any exception in between, `DuplicateKey` and
`LostAck` are what `withRetry` can make of an `INSERT`, `Crash` and `Boot` end and start a process.
`startAgents`' catch keeps a process with the agents it has, which is `Abort`. The embedding, the text
and the splitting into chunks are data.

### Launch

The database is opened, tested and given its tables (`db.init` is called by `initializeDatabase`,
whose errors are only logged, and awaited once more by `startAgent`), the runtime is made, which
connects the agent to itself without being awaited, services and clients are started in the order
of `initializeClients`, and the agent is registered with the server. On a fresh postgres the two
`init`s collide, and the first launch may fail; whatever fails closes the database under the clients
that already run and leaves the later agents unstarted; the tests and logins that nobody awaits end
the process.

### Connection

`accounts`, `rooms`, `participants` are the tables; `participants` counts rows because sqlite has no
constraint on them. A call of `ensureConnection` is a record with two rounds of concurrent tasks (its
two `Promise.all`), each a SELECT (`Check`) and an INSERT; the constructor is a call with three tasks
of its own. `Reject` is what `Promise.all` does with a failed task: the others go on. Any statement
may fail for a reason of the database's own (`QueryFails`, `InsertFails`, at most `MaxFaults`).
`createAccount`, `addParticipant` and sqlite's `createRoom` answer such a failure, like a duplicate,
with `false`, at which nobody looks; `lost` remembers those rows. The database is `adapter` here too.

### Conversation

`userState` is the agent's `participants.userState` in one room, `stored` and `replies` the memories.
`at[m]` is where `handleMessage(m)` is: storing, the gates (`canSendMessage`, `_shouldIgnore`), the
read of the user state, `_shouldRespond`, `_generateResponse`, the callback that sends chunks and
stores them, `processActions`, the handler it runs, `evaluate`. `Registered`, `Contains` and
`Matches` are how `processActions` finds the action: the first one whose normalized name contains
the answer's or is contained in it. Of names only that relation is kept. `silent` is a history
variable: the messages that came while the room was muted and it has been ever since.

### Telegram, Direct, Posting, Attachments, Reactions, Farcaster

Handlers of one client, interleaved at their awaits, with the database chosen initially where it
decides whether an id that is taken replaces a row (sqlite) or is refused (postgres). In `Telegram`
a message's id is made of its number in the chat and the agent, so two supergroups collide; `late`
remembers that Telegraf gave up on a handler. In `Direct` the id is made of the millisecond, and
Express 4 does not look at what an async handler returns, so its error ends the process. In
`Posting` only what is left of the Twitter client is modelled: three loops that write to a Telegram
channel. `Attachments` has the two runs of ffmpeg that `save` and `run` start on the same two files.
`Reactions` stores additions under an id with the millisecond, and removals under one without.
`Farcaster` is not started by the agent yet. Its loop of mentions reads all of them at every poll and
answers those it has answered again; an error before sending ends the loop until a restart, while the
loop of posts catches all of its own. Of the thread a mention belongs to only the mention is stored:
the test for visited casts asks about the mention at every level.

### Voice, VoiceChannels

`Voice` is one user of a channel: the stream, the `AudioMonitor`s that read it, the buffers and the
debounced transcription, `handleUserMessage`, the players. The condition under which the monitor's
loop never ends (`voice.ts:81`) is a state of the model, after which the process hangs.
`VoiceChannels` is one guild: `joinChannel` with its 20 s, the listener that waits 5 s when a
connection is dropped, the map and the connection that @discordjs/voice tracks. `activeMonitors` is
never filled and `leaveChannel` has no caller; the action JOIN_VOICE calls a method that
`VoiceManager` does not have.

### Recall

`composeState`, `updateRecentMessageState` and `evaluate` as the reads they make, one per await, of
messages with and without attachments, on both sides of an hour, in rooms whose messages have vectors
or not (the REST client's have none). `formatMessages` reverses its argument in place, so from then on
the oldest message with an attachment counts as the last one. The properties do not take this for what
is wanted: they say what must hold in whatever order the code looks at the messages
(NewestPicturesShown), and what other handlers that store messages between the reads must not undo
(OnlyNewcomersUnknown, AnswerIsReflectedOn, OwnWordsRecalled, FactsRecalled). `Length` is what
`getConversationLength` returns, 32 for every caller; `Interacted` the number of messages of other
rooms that are composed, 20 in the code (`runtime.ts:907`).

### Goals

`goal` is the row, `eval[e]` one activation of the handler: `Validate`, `Show` (composeState),
`Answer` (the model, which keeps to the template: it may complete objectives and finish a goal),
then the second read, the merge (`Updated`, `Merged`) and the write. better-sqlite3 is synchronous
and nothing awaits between this read and this write but resolved promises of the same evaluation, so
`ReadAndWrite` is one step for sqlite; `Read` and `Write` are two for postgres. `mode` chooses the
adapter, and whether messages arrive while another is evaluated.

### Actions, Coinbase, Haptics

`Actions` runs the handlers of the plugins as programs: a step asks a service, changes something,
tells the user, or approves an allowance, and has a way to fail (caught, thrown, rejected where nobody
awaits). `processActions` passes empty options, ignores what a handler returns and never calls
`validate`. TAKE_ORDER, ZG_UPLOAD, the EVM actions and JOIN_VOICE can never succeed (a step of theirs
is `Broken`), and EXECUTE_SWAP hides EXECUTE_SWAP_DAO. The user asks again when not told of success,
which is what makes a change happen twice. `Coinbase` is the wallet behind payouts and trades: until a
restart reads the character's file every call makes a wallet of its own. A wallet is made, its address
asked for, and its seed written to the character's file or, if that fails, by `saveSeed` to a file of
its own; if the address fails, or `saveSeed` as well (`utils.ts:35`, `:56`; both files are to be in
`characters/`, which is not there when the agent is started from `agent/`), the call rejects and the
wallet is `lost`. Payouts and trades append their rows to `transactions.csv`, the payment of a trade
to the charity among them. The charity's address is undefined for every network the payout accepts,
and a trade passes the network where the address belongs; what Coinbase answers is left open.
`Haptics` is the device plugin: the runtime initializes each service twice.

### Trust

The evaluator with its recommendations in flight, the confirmed swaps, the managers that consume the
queue of sell messages, the cache and the tables. `Seen` is a look into the cache whose promise is not
awaited (`token.ts:164`): whatever the cache holds, nothing included, passes for a hit; `asked`
remembers what the market was asked for, which the run `trust_cache` is about. Statements that bind a
Date or count their columns wrong are refused and answered with `false`, which nobody looks at.

### Transcription, Llama, Image, Video, Browser

The fields of the classes. In `Transcription` the worker's position is the external command it waits
for, `files` the directory `content_cache`. In `Llama` `file` and `whole` are the model file (whose
write stream opened it last, and whether it is whole), `unlinks` the deletions of it that a broken
download has left to another thread (`llama.ts:351`, `:360`): one may come between the look and the
deletion of the retry, which then throws, and the call rejects. `history` is the prompts left in
`this.sequence`; `isProcessing` is `current # None`. Both map `waiting` to the queue, `serving` to the
current request and `answered` to the settled promises. `Image` and `Video` put a url into a queue,
poll until it is gone and then process it themselves, as the worker does: two jobs per call, which is
in the model, with the frame files named by the millisecond (`Image`), and the sound file that one job
writes and the other reads (`Video`). Of a direct link to an mp4 the two jobs share one temporary file
(`temp`); the second to convert it deletes what is gone, in a listener where nobody catches, and the
process ends. `Browser` has the launch whose first half is visible before its second, and pages nested
in archives.

### Generation, Providers, Embeddings

`Generation` is the loops that ask until an answer parses, with the pause that doubles until no timer
holds it. `Providers` has the tables that decide which server gets which key (`getTokenForProvider`,
`models`, the `switch` of `generateText`, `handleProvider`, `generateImage`), and the two voices of
the speech service. `url` is `ETERNALAI_URL`, set, empty (as in `.env.example`) or unset; a
character's `modelEndpointOverride` is left out. Its machine makes one call; the point is the initial
states, all ways to set the keys. `Embeddings` knows a vector by its dimension.

### Tables, Adapters, Ports, Pool, Cache

A database is a record of tables; a method is an operator from a record and its arguments to a new
record and an answer. `Adapters` makes the same calls on sqlite and postgres and records in `parted`
whether they have answered differently; `createMemory` is three steps on postgres. A memory comes with
an embedding or without (`Vectored`); without one both adapters look for no similar memory and store
it as unique. sqlite stores it with an empty blob, to which sqlite-vec computes no distance, so no
search of that room succeeds any more (`SqSearchable`). `Ports` makes an agent's calls on sqlite,
sql.js and supabase. sql.js' getters read statements they never step, so no account, room or memory is
found by its id, nor what a caller asks for after that; supabase's schema has none of the functions,
defaults and tables its adapter calls. Only test resources of core construct these two. `Pool` is
`withRetry` and `handlePoolError` with the pools they end and make. In `Cache` operations are sent,
applied and answered; `stray` counts the deletions that `get` starts for expired entries and does not
await; `kept` and `outlived` are history.

## 3 Runs

| run | instance | states | properties |
|---|---|---|---|
| `knowledge` | either database; two processes; one launches two agents that share an item, which one of them has twice, and a third agent, which the other process launches too, before one with the same item; 2 boots each, 2 faults | 113,983 | TypeOK, FragmentsFollowDocument, CompleteUnlessFaulty, EachFaultTearsOneItem, ReadableUnlessFaulty, RowsKeepOwner, LaunchEnds |
| `knowledge_crash` | one agent, one fault | | violates KnowledgeComplete |
| `knowledge_nofault` | two agents share an item, no fault | | violates KnowledgeComplete |
| `connection` | *Connection*: two calls, either adapter, one agent, one user, one room, one constructor, one failing statement. *Trust*: two users, two tokens, two managers, one restart. *Recall*: two users, a chat and a REST room, three messages, two facts, one hour, one message of elsewhere composed; symmetry | 1,682,395 | TypesOK, ConnectedMembers, ParticipantsResolve, PostgresRowsValid, WhatIsRecalled |
| `trust_credit` | one recommendation in a room of two | | violates CreditedToNamed |
| `trust_cache` | one recommendation of a token nobody has asked for | | violates PairsAreAskedFor |
| `conversation` | *Conversation*: two messages, up to two chunks per answer. *Telegram*: two chats, two updates, three failures. *Direct*: two requests, one tick. *Posting*: two rounds of a loop at a time. *Attachments*: two jobs, four urls. *Reactions*: four events. *Launch*: two agents, three clients, two failures. *Farcaster*: two mentions, one without text, two casts, two failures or restarts | 496,161 | TypesOK, RepliesResolve, SilentUnanswered, BoundedContinuation, Remembered, AgentsAreWhole, AllEnd |
| `conversation_unmute` | one message | | violates UnmuteIsNotMute |
| `tables` | *Goals*: two evaluations of a goal with two objectives, both adapters, with and without overlap. *Adapters*, *Ports*: two users, one room, two similar memories and one without embedding, three rows, one goal, one lost answer. *Cache*: two callers, two values, expiry at 2 or never, clock to 3. *Pool*: two queries, two errors, one failed test | 159,974 | TypesOK, DatabasesAgree, ObjectivesKept, ProgressStays, DoneIsComplete, StoresHold, StoresRecover |
| `goals_duplicates` | one evaluation | | violates NoDuplicates |
| `models` | *Llama*: three calls, one needless failure. *Generation*: two calls, 24 failures. *Voice*: the user speaks twice, three chunks in all, one rejoin, two players. *VoiceChannels*: three connections, two drops. *Embeddings*: four providers, either database, restarts. *Providers*: seven keys of which at most two are set, EternalAI's URL set, empty or not, all providers | 318,427 | TypesOK, OnlyFailuresLeak, VoiceIsHeard, VectorsFit, KeysFit, ServesSerially, QuestionsEnd |
| `services` | *Transcription*: four calls, one too short. *Image*: three calls. *Browser*: two calls for one page. *Video*: three, for a video with captions, one without and a direct link. *Actions*: every handler, asked twice, one refusal. *Coinbase*: two recipients, two calls, one restart or failing transfer, file or request. *Haptics*: two vibrations, one rotation. One fault each, two for the device | 324,917 | TypesOK, FlagIsRight, LeftoversOfFailures, OutcomesHaveCause, ServesSerially, CallsEnd |

What the properties say is written above each of them in its module. Those of `MC` modules are
conjunctions of properties of the components they hold, which the comments there name.

**Bounds.** *Knowledge*: two processes are enough for a check and an insert of one to fall around an
insert of the other, and they share an agent and an item, so that they do race; an item with two
fragments can be torn before, between and after them; two boots are one crash and its restart;
`MaxFaults` bounds crashes and failures together. The bounds are constants of the modules that are
checked, given values in the `.cfg` files alone, so the theorems of section 5 remove them for the
properties they name (all safety properties of the passing runs; what an `MC` module fixes is the
three clients of `Launch`). *Connection*: every race is between two calls for the same row, as a
user's message and one of the agent's own are for the agent's account and membership; one failing
statement is a row that is missing, or a rejected call; `MaxBoots` 1 lets the constructor race with a
message. *Trust*: two managers are the two ends of the queue, and the restart is what forgets what the
first was doing. *Recall*: three messages are one that is hidden, one that is last, one that came
meanwhile, or two of elsewhere of which `Interacted` = 1 leaves one out; an hour is the limit of
`composeState`. *Conversation*: two messages are a handler and the mute, follow or answer that
overtakes it; two chunks are the difference between a whole and a cut answer. *Telegram*: two chats
are two messages with one number; the third failure is the one that ends the process. *Direct*,
*Reactions*, *Attachments*: one tick of the clock makes two things share a millisecond, or not.
*Launch*: of two agents one comes before a failure and one after it. *Goals*: two evaluations overlap
in every way; `MaxLength` only stops showing a row that doubled too often. *Adapters*: a duplicate of
every row is one copy more; `MaxRows` bounds sqlite's memories. *Cache*: an entry written, expired,
read, deleted late and rewritten needs three ticks and two callers. *Pool*: the second error meets a
pool that is ending, or one without a listener. *Transcription*, *Llama*: one request being served,
two waiting in order; in `Llama` three callers race for the file. *Image*, *Video*, *Browser*: a call,
the worker's or the launching call's other job, and one that overtakes both. *Generation*: the pause
passes 2^31 ms at the 23rd failure. *Voice*: a monitor holds two chunks and three are more.
*Providers*: a property of one more key than is set needs one key that works and the one added.
*Coinbase*: the seed of the first call's wallet is overwritten by the second's, or one of them is
lost.

**Deadlock** is not checked: launches, messages, evaluations and requests are finite in number, and
some processes really end (`alive`), so every instance may stop, `CHECK_DEADLOCK FALSE`; that they do
not stop early is what LaunchEnds, AllEnd, CallsEnd, QuestionsEnd and StoresRecover say. (The
components of `connection` have no liveness: a call that is not answered is an external matter
there.) **Symmetry** is used in `connection` alone, whose properties are all safety.

**Conditions that are part of a property.** Some properties hold only under a condition, and each of
these is a place where TLC found the code to do otherwise without it:

- SetSticks stops at the first expired entry: the deletion of an expired entry that nobody awaits
  (`cache.ts:110`) can remove the value stored after it.
- FinishedStays is for sqlite: over postgres an evaluation that read the goal before writes it back
  `IN_PROGRESS` (`goal.ts:128`). CompletedStays and DoneIsComplete are for evaluations that do not
  overlap: an answer about an older row undoes a completion.
- CompleteUnlessFaulty is about items that one agent has and one process ingests, see finding 2.
  EachFaultTearsOneItem and ReadableUnlessFaulty are about the items that one process ingests (`Own`;
  its agents may share them): two processes with one item tear it without a fault, as the second finds
  the document of the first and stores the fragments that one has not come to. RowsKeepOwner has the
  race as its exception: on sqlite, an item of two processes, of which one looked before the other
  stored it.
- SilentUnanswered is about messages that came after the mute took effect: one that came before, and
  passed the check at `messages.ts:180`, is answered into the muted room.
- PostgresRowsValid is for postgres: on sqlite an agent that handles its own message becomes a
  participant twice (`runtime.ts:718`). ParticipantsResolve is for chat rooms: the constructor's
  membership of the agent's own room (`runtime.ts:252`) can precede its account and room on sqlite and
  is then dropped silently by postgres. ConnectedMembers and ParticipantsResolve except the rows whose
  own insertion failed and was answered with `false`.
- AloneGetsThrough is for a call that initializes the model alone: two can delete each other's file
  for ever, without any failure (`llama.ts:265`). OnlyFailuresLeak leaves failed requests in the
  context (`llama.ts:597`).
- AdaptersAgree ends at the first call only one database refuses, and says nothing of the unique flag,
  which sqlite denies every memory with an embedding but the first of its room, nor of searches in
  rooms where sqlite cannot search. UniqueRowsDiffer, of similar memories, is about those with an
  embedding, and excepts on postgres two that are created at the same time. SqlJsAddsNothing and
  SupabaseAddsNothing ask of the other two only that they answer with nothing that sqlite does not
  have.
- SurvivesOneError stops at the second error of an idle connection: ending a pool twice throws, and
  the second pool has no listener (`adapter-postgres/src/index.ts:130`).
- Telegram!Remembered excepts messages of one number in two chats, Direct!Remembered those of one
  millisecond, Reactions!Remembered all removals but one. KeptIsOwn excepts an mp4 whose sound is
  read while ffmpeg's second run writes it.
- RegisteredAreWhole says nothing of an agent whose launch failed: its clients go on without a
  database. FreshLaunchOnly is what the two `init`s of a new postgres do.
- HeardInOrder excepts what a monitor held when the user stopped before the member was fetched
  (`voice.ts:310`); HangsOnLongSpeech names when the loop at `voice.ts:81` never ends; JoinsMayOverlap
  excepts a listener that destroys a connection that is gone (`voice.ts:261`).
- PausesDouble ends at the 23rd failure, after which the provider is asked every millisecond.
- SteadySettingsFit excepts GaiaNet: `getEmbeddingZeroVector` has 384 numbers where its vectors have
  1536, so in a room of Discord either the users' messages are stored or the agent's. OneDimension
  lets an empty answer through, after which the place takes nothing any more.
- KeysStayHome excepts the keys of OpenAI and Grok that stand in for others', and EternalAI's where
  its URL is not set. MoreKeysDoNoHarm gives the exact condition under which a new key ends the
  pictures, or, without that URL, the texts.
- ErrorsHaveCause excepts calls between `browser` and `context`; DiesOnlyOfFaults frames of one
  millisecond; AnswersMatch urls that are not YouTube's (one cache key for all) and videos without
  captions, whose sound file one job reads while another writes it (`video.ts:99`); EndsHaveCause
  direct links, which end the process without a failure (`video.ts:410`).
- ChangesAreTold and EndsWithAWord name the handlers with a step after the change, and the silent
  ones.
  PaidTwiceHasCause excepts a refused charity: it makes the whole payout fail, and the user asks again.
  SeedsKept is about wallets whose saving went through: one whose address could not be had or whose seed
  `saveSeed` could not write is lost (`utils.ts:35`, `:56`), and of several that were saved at least one
  seed is left.
- OwnWordsRecalled ends where as many younger messages were said elsewhere as are composed, and these
  may be of rooms the user is not in; AnswerIsReflectedOn where a whole conversation has come since.
  OnlyNewcomersUnknown excepts who joined after the actors were read. FactsRecalled asks for one fact:
  on sqlite only the first of a room is unique.

## 4 Fairness

Node runs every callback whose promise has settled, so a step whose guard stays true is taken.
Where a component alone is specified this is weak fairness per process (`Knowledge!FairSpec`), per
operation (`Cache`), for the worker (`Transcription`, `Llama`) and per initializing call (`Llama`), per
loop (`Generation`, `Posting`). The `MC` modules of several components ask less where that suffices,
that *some* handler which can go on does (`WF` of a disjunction over handlers: Conversation, Telegram,
Direct, Attachments, Reactions, Image, Video, Voice, Pool, Actions, Coinbase, Haptics, Launch), and they ask
it of the component that is driven only.

This assumes that external parties answer, well or badly: the database, Discord, the model, ffmpeg,
whisper, the download. It is what the code assumes as well, as it sets hardly any timeouts; those it
sets (Telegraf's, the 20 s and 5 s of voice connections) are steps that may be taken at any time.
Nothing obliges a caller to call, an operator to boot a process, or a failure to happen.
`Conversation` abstracts the retry loops of `generation.ts` (501, 598, 770), which `Generation` has:
they return once the provider answers. In `Llama`, fairness per call does not help two calls that
initialize at once, which is why the property is restricted. Liveness of finite systems is stated as
`[]<>Quiet` (again and again nothing is under way), which is false of a handler that hangs, or as
leads-to.

## 5 Proofs

Every theorem is for all values of the constants that satisfy the named assumptions of the modules:
any number of processes, agents, calls, messages, rooms, memories, retries and failures. A theorem
about a component is stated of the component's own specification; one about `SysSpec` is the
property of the run, for all components the `MC` module holds.

| theorem | says |
|---|---|
| `KnowledgeProofs!TypeCorrect` | Spec => []TypeOK |
| `KnowledgeProofs!DocumentsPrecedeFragments` | Spec => []FragmentsFollowDocument |
| `KnowledgeProofs!OwnersChangeInRacesOnly` | Spec => RowsKeepOwner |
| `KnowledgeProofs!FaultsTearOneItemEach` | Spec => []EachFaultTearsOneItem |
| `KnowledgeProofs!FragmentsReadableUnlessFaulty` | Spec => []ReadableUnlessFaulty |
| `KnowledgeProofs!PrivateItemsComplete` | Spec => []CompleteUnlessFaulty |
| `ConnectionProofs!TypeCorrect` | Spec => []TypeOK |
| `ConnectionProofs!ConnectedCallsHaveRows` | Spec => []ConnectedMembers |
| `ConnectionProofs!RowsResolve` | Spec => []ParticipantsResolve |
| `ConnectionProofs!PostgresRowsStayValid` | Spec => []PostgresRowsValid |
| `ConnectionProofs!RecalledRightly` | SysSpec => WhatIsRecalled |
| `ConnectionProofs!ConnectionKeepsTypes` | SysSpec => []TypesOK |
| `ClientsProofs!TypeCorrect` | Spec => []TypeOK |
| `ClientsProofs!AnswersResolve` | Spec => []RepliesResolve |
| `ClientsProofs!MuteSilences` | Spec => []SilentUnanswered |
| `ClientsProofs!ContinuationBounded` | Spec => []BoundedContinuation |
| `ClientsProofs!RegisteredAgentsAreWhole`, `FailuresAreOneAgents`, `OnlyFreshLaunchesFail` | Launch: RegisteredAreWhole, FailureIsOneAgents, FreshLaunchOnly |
| `ClientsProofs!MessagesAreRemembered`, `ServerSurvives` | Direct: Remembered, Survives |
| `ClientsProofs!NumbersAreRemembered`, `BotSurvives` | Telegram: Remembered, Survives |
| `ClientsProofs!PostsDoNotPileUp` | Posting: PostsInTurn |
| `ClientsProofs!ReactionsAreRemembered` | Reactions: Remembered |
| `ClientsProofs!AnswersHaveTheirThread` | Farcaster: AnswersResolve |
| `ClientsProofs!KeptTextsAreTheirOwn` | Attachments: KeptIsOwn, OthersAreWhole, InputsRemoved |
| `ClientsProofs!AgentsStayWhole` | SysSpec => []AgentsAreWhole |
| `ClientsProofs!ClientsAreRemembered` | SysSpec => []Remembered |
| `ClientsProofs!ClientsKeepTypes` | SysSpec => []TypesOK |
| `TablesProofs!TypeCorrect` | Spec => []TypeOK |
| `TablesProofs!NoObjectiveIsLost` | Spec => ObjectivesKept |
| `TablesProofs!ProgressIsKept` | Spec => ProgressStays |
| `TablesProofs!DoneMeansComplete` | Spec => []DoneIsComplete |
| `TablesProofs!SetValuesStick` | Cache: SetSticks |
| `TablesProofs!OneErrorIsSurvived` | Pool: SurvivesOneError |
| `TablesProofs!StoresKeepWorking` | SysSpec => []StoresHold |
| `TablesProofs!DatabasesStayAlike` | SysSpec => []DatabasesAgree |
| `TablesProofs!TablesKeepTypes` | SysSpec => []TypesOK |
| `ModelsProofs!TypeCorrect` | Spec => []TypeOK |
| `ModelsProofs!ContextIsClean` | Spec => []OnlyFailuresLeak |
| `ModelsProofs!Refinement` | Spec => ServesSerially (Llama implements `SerialServer`) |
| `ModelsProofs!MapIsRight`, `JoiningEndsNothing` | VoiceChannels: MapFollowsConnection, JoinsMayOverlap |
| `ModelsProofs!SpeechIsHeard` | Voice: HeardInOrder, HangsOnLongSpeech, OneVoice |
| `ModelsProofs!VoiceStaysHeard` | SysSpec => []VoiceIsHeard |
| `ModelsProofs!VectorsStayComparable` | SysSpec => []VectorsFit |
| `ModelsProofs!KeysGoHome`, `KeysStayFit` | Providers: KeysFit; SysSpec => []KeysFit |
| `ModelsProofs!ModelsKeepTypes` | SysSpec => []TypesOK |
| `ServicesProofs!TypeCorrect` | Spec => []TypeOK |
| `ServicesProofs!NoLostWakeup` | Spec => []FlagIsRight |
| `ServicesProofs!CleansUp` | Spec => []LeftoversOfFailures |
| `ServicesProofs!Refinement` | Spec => ServesSerially (Transcription implements `SerialServer`) |
| `ServicesProofs!PagesFailForACause` | Browser: ErrorsHaveCause |
| `ServicesProofs!ImagesEndNoProcess` | Image: DiesOnlyOfFaults |
| `ServicesProofs!TextsAreOfTheVideo` | Video: AnswersMatch |
| `OutcomesProofs!ActionsTellTheTruth` | Actions: GoodMeansDone, ChangesAreTold, EndsWithAWord, ShortAfterFailure |
| `OutcomesProofs!OneVibrationAtATime` | Haptics: QueueHasOneWorker, StopsHaveCause |
| `OutcomesProofs!SeedsAndPayments` | Coinbase: SeedsKept, PaidTwiceHasCause |
| `OutcomesProofs!ServicesKeepTypes` | SysSpec => []TypesOK (of `MCServices`) |
| `OutcomesProofs!OutcomesAreCaused` | SysSpec => []OutcomesHaveCause |

**Assumptions.** Those on constants say of what kind they are (sets, bounds in `Nat`, a default that
is not a member) and, where the code relies on it, more: that a chunk's limit is not 0, that `Forced`
is none of the actions a model names. No theorem has a hypothesis about the deployment: what holds
only of items of one process, or only while nothing has failed, says so in the property itself.

**Knowledge.** FragmentsFollowDocument is not inductive: that an insert of a fragment finds the
document there depends on where the process is. `Inv` adds `At(p)`: the loop counters point into
`Characters`, `KnowledgeOf` and `1 .. Fragments[i]` where they are read, and a process among the
fragments has its document in the table. RowsKeepOwner follows for postgres from the INSERT itself
(`CanInsert`). For sqlite, `OwnInv` says (`Pass`) of a process that ingests an item nobody else does
(`Own`) that between check and insert the row is still missing, and that the fragments it has passed
are those of the document; no other process can change that (`OthersPass`), whatever it does to items
that are shared. EachFaultTearsOneItem counts: the torn ones of these items are no more than the
faults (`TornInv`), as only the step that fails leaves one. `CalmInv` is for a launch without a fault:
a row has a reason (`RowsHaveReason`: its owner has the item), fragments have their document's owner
(`OwnReadable`), and the items an agent has passed in its loop (`Progress`) are there.

**Connection.** `CallOK` ties the state of a call to its tasks: what a task has seen to when it is
done (`Effects`), what the first `Promise.all` leaves to the second (`HalfConnected`), which tasks can
be under way. Rows are only added, so one lemma (`Frame`) carries it over for the other calls; that a
membership resolves holds because the second half starts only when all of the first is done. A task is
done with its row there or `lost`, which only grows as well; on postgres a membership whose account is
lost is refused. Of *Trust* only the types are proved, for which the tables have to stay empty.

**Recall.** `RecallInv` says of each room that its messages are in order of time (`RowsAreRight`), so
the messages that are hidden for their age are the oldest ones, and by members, which only grow, so
the rooms that are searched hold all the user has said; that the agent is a member of the room it
answers in (`JobIsRight`); that of a room's facts the first is unique (`FactsAreRight`); and that what
the handler composed are messages of the room, whose authors it knows by name up to the last one it
saw (`StateIsRight`), after which its own answer comes (`AnswerIsStored`).

**Conversation.** None of the three safety properties is inductive: each speaks of what has been
sent and depends on where the handlers are. `Inv` adds, for every message, what its place says has
been stored and answered (`Stored`), how many answers have been sent by then (`Counted`), and that a
handler past the gates does not belong to a silent message that has to be ignored (`KeptQuiet`); for
the room, that a message is silent only while the room is muted (`MutedWhileSilent`), so that the
read of the user state by such a message finds MUTED. A step moves one handler and only adds to the
memories, so `Frame` carries the conjuncts of the other messages over, and the handlers that change
the user state to something else empty `silent`.

**The other clients.** *Launch*: `startAgents` cuts the agents in three: those before the current one
are as they were left, registered and whole, those after it are untouched (`OthersAsTheyWere`), and of
the current one the place says how far it is (`CurrentAgent`); the two calls of `db.init` can only
meet at the first agent (`FreshDatabase`). *Direct*, *Telegram*, *Reactions* are about ids that are
made of too little. A row is replaced only by one of the same id, so once an id is in the memories it
stays there (`Held`, `Numbered`, `DoneAreHeld`); in `Telegram` the numbers of a chat only grow, hence
"or another chat has come to that number", and a number is given to a handler before it stores anything,
so a row's is never 0 and never beyond the chat's last (`TelegramBounds`); in `Reactions` no two memories have one id. *Posting*: of the
rounds of the loop of posts at most one is between its timer and its next (`InTurn`). *Farcaster*: of
an answer's casts, those before the position are in the memories. *Attachments*: a file is told by the
millisecond in its name, so what is found there is of an attachment whose job began in that
millisecond; it stays so (`StaysOf`) whatever the two runs of ffmpeg do to it.

**Goals.** An evaluation holds descriptions of the goal's own objectives, in the row it read and in its
answer (`Holds`), so whatever it writes back, and whenever, loses none (`MergedDescriptions`). Where
evaluations do not overlap (`Alone`) what it read is the goal itself and its answer undoes nothing.
`MergedIs` characterizes the merge without recursion; the first objective of a description is found by
a least-element lemma (`Least`).

**Cache, Pool.** SetSticks: while no entry of the key has expired, no deletion is under way that nobody
awaits, and the row is what was set last. SurvivesOneError: the errors of idle connections and the
pools made are counted together (`PoolsInStep`), so the first error finds the first pool open, and what
throws comes after it.

**Adapters, Ports.** `AdaptersInv` relates the two databases while they have not parted: the same
accounts, rooms, participants, goals and relationships (`SameTables`), and memories that match: a
memory that postgres is creating, in three steps, has on sqlite, which does it in one, exactly one row
more, with the number its row will have there (`Matched`, `NextOf`). The number is the least free one
of that memory, which exists by a pigeonhole argument (`FreeNumber`); no two rows of a memory have the
same one. Each method then has a lemma (`CreateAccountIs`, ..., `InsertMemoryIs`): it answers the same
on both and changes both alike, or the answers differ, which is recorded in `parted`, after which
nothing is claimed. Calls repeated by `withRetry` after a lost answer are idempotent or part the two.
`AdaptersRead` reads AdaptersAgree and UniqueRowsDiffer off the invariant. That no row is numbered beyond
the copies there may be needs a count of what is still to come: while a memory is being created there
is one row less of it on postgres than there may be (`RowToCome`, `CopiesLeft`). *Ports*: sql.js is sqlite
without accounts and memories (`Bare`), which every method preserves; supabase holds accounts and
nothing else (`OnlyAccounts`).

**Llama.** `Inv` is that a request is in one place (`OnePlace`: in the queue, being completed,
answered, and only if its call got through the initialization) and that nothing waits while the worker
is idle (`NoneWaits`). Nothing about the file is needed: whoever deletes whose download, a call enters
the queue once or rejects, and all other steps of the initialization stutter. **Transcription.** The
same (`OnePlace`), and that only the temporary file is left once whisper runs (`OnlyTemp`). The
refinement maps `Resolve` to `Answer` (the answer and the next request are one step of both), the
three kinds of call to `SubmitAndServe`, `Submit` and `Dismiss`, and the steps between two external
commands to stuttering. The lemmas about joining and leaving a queue are in `QueueTheorems`, for both.

**Voice.** HeardInOrder speaks of what was handed over and depends on what may still be. `VoiceInv`
follows a chunk on its way: the texts, the jobs and the buffers are each in order and one before the
other (`InTurn`), what the stream holds was said after all of that and after what the monitor holds,
and the monitor's is new once the user speaks and nobody waits for the member (`Ahead`), which is what
a stop needs to buffer it. That a monitor overflows only of long speech needs a bound on what is still
to flow into it: with one monitor, no more than was said in the last two times, and in the last one if
there is no monitor yet (`HeldIsRecent`); `LongSpeech` finds the two times.

**VoiceChannels, Embeddings.** The connection in the map is the one the library tracks or one being
dropped, and what waits for a connection is still to be told. *Embeddings*: a place of sqlite has
vectors of one dimension besides the empty one; under steady settings they are of the provider's
dimension or of the zeros'; on postgres of the column's. A search throws before an insertion that
would break it.

**Providers.** The key that is sent is the first one set of a list (`FirstOfIs`), so one more key
changes it only by coming first; which lists it is in is decided for tokens, texts and pictures apart
(`TokenMore`, `SentMore`, `TextMore`, `PictureMore`), for any set of keys.

**Browser, Image, Video.** *Browser*: a call past the launch has a context unless it came between
`browser` and `context`, and owns the pages it has open. *Image*: the three parts of the model are
loaded in order, so who starts finds all of them, and a frame is there until its own job removes it
unless two were written in one millisecond. *Video*: a video of YouTube has a cache key of its own, so
what is under it is its text, and a job knows its url until it has stored what it got. Whatever is in
the queue or being worked on was asked for (`OnlyBegun`), so a direct link that ends the process or a
call was.

**Actions, Haptics, Coinbase.** *Actions*: a handler is a program of steps, and what makes it keep its
promises is a property of the program, which is checked once for each of the 31 (`ProgramsFit`): the
good word comes after every change, a change is followed by its word before anything may fail, the
last step is a word, the only approval is before the only sale; those of which one of this is not true
are the ones the properties except by name. One invariant over any program that fits then says, from
the place alone, what is done, told and approved (`DoneBefore`, `ToldNext`, `AllowanceIsRight`).
*Haptics*: the flag `isProcessing` is set while a call works on the queue, so a second does not start
(`QueueHasOneWorker`). *Coinbase*: a wallet that was made is being saved by the job that made it, or
given up, or some seed is on file (`KeysSafe`); who is still to be paid has not been (`PaidOnce`), and
each line of the result tells what became of its recipient.

**Composition.** In `SysSpec` a component does its own steps while it is driven and none otherwise, so
each invariant carries over: `[SysNext]_sysVars` implies `[Next]` of the component.

**Only model-checked**: liveness (LaunchEnds, AllEnd, CallsEnd, QuestionsEnd, StoresRecover), since the
prover handles neither fairness nor ENABLED. Every other property of a passing run is stated by a
theorem above. PausesDouble of `Generation`, a part of QuestionsEnd, is an invariant, but it is about
powers of two, which none of the provers knows.

## 6 What the code does that its documentation does not say

Found by a run that TLC finds violated:

1. `knowledge_crash`: an ingestion that stops after the document was stored is never completed, as
   the next start takes the document for the whole item (`knowledge.ts:73`, comment at
   `runtime.ts:410`).
2. `knowledge_nofault`: ids are hashes of the text alone and `createMemory` skips ids of any agent,
   while reads see only the agent's own rows: the second of two characters that share an item never
   gets it (`memory.ts:175`).
3. `conversation_unmute`: UNMUTE_ROOM runs the handler of MUTE_ROOM, whose name it contains and which
   is registered first; FOLLOW_ROOM likewise hides UNFOLLOW_ROOM (`runtime.ts:518`).
4. `goals_duplicates`: an update of a goal doubles its objectives (`goal.ts:111`).
5. `trust_credit`: a recommendation is credited to whoever is the first participant of the room, as
   `Array.find` is given an async function (`trust.ts:204`, comment at `trust.ts:203`).
6. `trust_cache`: the Solana plugin takes the promise of its cache for a hit, so the market is never
   asked and a recommendation is decided on without the pairs of its token (`token.ts:607`; comments
   at `token.ts:66` and `:633`, test at `token.test.ts:59`, which awaits what the provider does not).

Met while modelling, and part of the models, where a comment says otherwise but no run is about it:

- `composeState` gathers the interactions of every room the user *or* the agent is in, where the
  comments speak of the two (`runtime.ts:890`, `:991`).
- What hides the attachments of the last hour's messages is the age against the *oldest* message with
  an attachment, as `formatMessages` has reversed the array that `runtime.ts:800` searches for the
  last one.
- sqlite's search for similar memories ignores the threshold and takes the most distant one, so of the
  memories with an embedding only the first of a room is ever unique, where `core/src/database.ts`
  speaks of one flag for all adapters; a room with a memory without embedding cannot be searched
  there.
- `generateObjectV2` counts tokens with the tokenizer of OpenAI's models, so with most other providers
  it throws before the handlers that are documented for them (`generation.ts:1240`) are called.
- The id of a reaction that is removed, said to be unique (`client-discord/src/index.ts:320`), is made
  of names alone, and that of one that is added of the millisecond besides.

And where no document of the repository says anything:

- Without `ETERNALAI_URL` the key of EternalAI is sent to OpenAI's endpoint (`models.ts:24`).
- A direct link to an mp4 is processed twice at once, on one temporary file; the second deletion
  throws in a listener and ends the process (`video.ts:410`).
- A wallet whose seed `saveSeed` cannot write is lost (`plugin-coinbase/src/utils.ts:56`).
- Of the Solana plugin, the prices of a sell message are asked with a null runtime; metrics are read
  by the id of the recommender where callers pass that of the user.
- `plugin-solana` is commented out in the agent's list of plugins (`agent/src/index.ts:460`), but a
  character's file may name it.
- sql.js and supabase: see `Ports`; with supabase the constructor's un-awaited
  `ensureRoomExists` ends the process.
- An embedding without data is stored as an empty vector, after which no similar memory can be
  searched, and none stored, in that place; the cache of embeddings is looked up at a path of the
  content that no memory has; postgres' column has 384 numbers unless the database's own settings
  say otherwise, whatever provider the character has.
- `updateRecentMessageState` drops the attachments of old messages; the REST client never tells
  `evaluate` that it responded.
- LLAMACLOUD and TOGETHER fall back on the keys of Grok and OpenAI, which are then sent to Together;
  the secret of OpenRouter is looked for as `OPENROUTER`; a key of OpenAI is needed for ElevenLabs;
  its defaults are computed and not used, so that without ELEVENLABS_OUTPUT_FORMAT what was paid for
  is thrown away.
- An mp4's sound is extracted twice at once (`save`, then `run`).
- A failure while an agent starts closes its database under the clients that run.

## 7 What is not modelled

- Texts, prompts, vectors, media, formatting: data. The model's answer is a choice, restricted in
  `Goals` to what its template asks for.
- In `Conversation`: attachments (see `Attachments`), voice channels, `interestChannels` (never filled
  by the code), the plugins' other actions (see `Actions`), and several rooms (they share nothing but
  the process).
- Libraries, from how the code uses them: discord.js and @discordjs/voice, Telegraf, Express,
  better-sqlite3 and sqlite-vec, sql.js, pg, PostgREST, the AI SDK, Coinbase's SDK, puppeteer, ffmpeg.
  Their definitions are marked external in `PROJECT.json`.
- The OpenAI branch of transcription (its client is never set) and the Ollama branch of the local
  model (one HTTP request). The FsCacheAdapter and MemoryCacheAdapter, which the agent does not use.
- The Twitter client's request queue, mentions, search, discovery and likes: `TwitterManager` has
  their constructors commented out.
- GitHub and Auto clients, WhatsApp, TEE, the Starknet providers (copies of Solana's), the example
  plugin, the web interface and the scripts: no state of their own that is changed by more than one
  activity, or nothing that the agent runs.
- The scores' arithmetic in TrustScoreDatabase's callers: `generateTrustScore` and
  `updateRecommenderMetrics` have no caller.

## 8 Plan

Done, in the order in which a message meets it: launch and ingestion, connection, conversation and the
other clients, voice, state, services, actions, text generation and keys, embeddings, databases. Next:

1. **Proofs**: nothing that a passing run checks and TLAPS can state is left; the conjuncts of the
   liveness properties that are safety (PausesDouble) with a prover for exponentiation.
2. **Refinement**: `Image` and `Video` have queues of the shape of `SerialServer` but serve each request
   twice, so they do not implement it; an abstract specification that allows a second answer, and a
   proof that both implement it.
3. **Pure algorithms**: the three functions that split messages and `truncateToCompleteSentence`, whose
   boundaries differ by one from their limits.
