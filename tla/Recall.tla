------------------------------- MODULE Recall ------------------------------
(***************************************************************************)
(* What an agent knows when it answers: composeState gathers, across its   *)
(* awaits, the actors and messages of the room, the user's interactions    *)
(* elsewhere, the facts and the evaluators; updateRecentMessageState reads *)
(* the messages again; evaluate lets the language model call evaluators.   *)
(* Memories are in sqlite, which counts a memory with a vector as unique   *)
(* only if its table has none yet in the room (module Tables).             *)
(***************************************************************************)
EXTENDS Naturals, Sequences, FiniteSets

R == INSTANCE SequencesExt

CONSTANTS
    Users,       \* who talks to the agent
    Agent,
    Rooms,
    Bare,        \* rooms whose messages come without vectors: the REST client's
    Length,      \* getConversationLength
    Interacted,  \* messages of elsewhere that are composed
    MaxMessages, \* bound: messages of all rooms
    MaxFacts,    \* bound: facts of a room
    MaxHours     \* bound: times that more than an hour passes

(* No caller asks for another length than the default, which is 32; the    *)
(* messages of elsewhere are 20.                                           *)
RecallAssumption ==
    /\ IsFiniteSet(Rooms) /\ Rooms # {} /\ Bare \subseteq Rooms
    /\ Length \in Nat \ {0} /\ Interacted \in Nat
    /\ MaxMessages \in Nat /\ MaxFacts \in Nat /\ MaxHours \in Nat

VARIABLES
    hour,     \* the time; what differs differs by more than an hour
    members,  \* rows of participants
    messages, \* messages[r]: the memories of a room, oldest first
    facts,    \* facts[r]: whether each fact of the room is unique
    claims,   \* claims[r]: a handler of the fact evaluator runs, unawaited
    goals,    \* rooms that have a goal in progress
    at, job,  \* a handler of a message, and its message
    state     \* what it has composed

vars == <<hour, members, messages, facts, claims, goals, at, job, state>>

NoJob == [room |-> CHOOSE r \in Rooms : TRUE, by |-> Agent, media |-> FALSE]
NoState == [actors |-> {}, recent |-> <<>>, last |-> 0, shown |-> {}, elsewhere |-> {},
            facts |-> 0]

Init ==
    /\ hour = 0
    /\ members = {}
    /\ messages = [r \in Rooms |-> <<>>]
    /\ facts = [r \in Rooms |-> <<>>]
    /\ claims = [r \in Rooms |-> FALSE]
    /\ goals \in SUBSET (Rooms \ Bare)
    /\ at = "idle" /\ job = NoJob /\ state = NoState

MessagesOf(S) == UNION {{r} \X DOMAIN messages[r] : r \in S}

(* ensureConnection and createMemory of a client.  A message is younger    *)
(* than all that are there.                                                *)
Connected(u, r) == members \cup {<<u, r>>, <<Agent, r>>}
Stored(u, media, r) ==
    [messages EXCEPT ![r] = Append(@, [by |-> u, hour |-> hour, media |-> media,
                                       born |-> Cardinality(MessagesOf(Rooms)),
                                       unique |-> r \in Bare \/ messages[r] = <<>>])]
Bounded == Cardinality(MessagesOf(Rooms)) < MaxMessages

(* On Discord a message without a text is not stored. *)
Receive(u, r, media, stored) ==
    /\ at = "idle" /\ Bounded /\ (r \in Bare => stored)
    /\ members' = Connected(u, r)
    /\ messages' = IF stored THEN Stored(u, media, r) ELSE messages
    /\ job' = [room |-> r, by |-> u, media |-> media]
    /\ at' = "compose" /\ state' = NoState
    /\ UNCHANGED <<hour, facts, claims, goals>>

(* Meanwhile other handlers store messages. *)
Post(u, r, media) ==
    /\ at # "idle" /\ Bounded
    /\ members' = Connected(u, r)
    /\ messages' = Stored(u, media, r)
    /\ UNCHANGED <<hour, facts, claims, goals, at, job, state>>

Tick ==
    /\ hour < MaxHours
    /\ hour' = hour + 1
    /\ UNCHANGED <<members, messages, facts, claims, goals, at, job, state>>

----------------------------------------------------------------------------
(* getMemories: the newest of the room, newest first. *)
Newest(r) ==
    LET n == Len(messages[r])
    IN  [i \in 1 .. (IF n < Length THEN n ELSE Length) |-> n + 1 - i]

(* formatMessages reverses the array it is given. *)
Formatted(s) == R!Reverse(s)

Media(r, s) == {n \in R!ToSet(s) : messages[r][n].media}
FirstOf(s, S) == s[CHOOSE i \in DOMAIN s : s[i] \in S /\ \A j \in 1 .. i - 1 : s[j] \notin S]
(* Within an hour of message n.  Mutant: later than its hour. *)
Since_Later(r, S, n) == {k \in S : messages[r][k].hour > messages[r][n].hour}
Since(r, S, n) == {k \in S : messages[r][k].hour >= messages[r][n].hour}

(* The attachments: the first of the messages that has any counts as the   *)
(* last, and who is more than an hour older than it is hidden.  When there *)
(* is one the messages are reversed once more.                             *)
Compose ==
    LET r == job.room
        recent == Formatted(Newest(r))
        media == Media(r, recent)
        near == Since(r, media, FirstOf(recent, media))
    IN  /\ at = "compose"
        /\ state' = [state EXCEPT
               !.actors = {u \in Users \cup {Agent} : <<u, r>> \in members},
               !.last = Len(messages[r]),
               !.recent = IF media = {} THEN recent ELSE R!Reverse(recent),
               !.shown = IF media # {} THEN near ELSE IF job.media THEN {0} ELSE {}]
        /\ at' = "interactions"
        /\ UNCHANGED <<hour, members, messages, facts, claims, goals, job>>

(* getRoomsForParticipants asks for rooms of any of the two; the youngest  *)
(* messages of those rooms are kept.                                       *)
RoomsFor(u) == {r \in Rooms : <<u, r>> \in members \/ <<Agent, r>> \in members}

Younger(S, born) == {m \in S : messages[m[1]][m[2]].born > born}
Youngest(S) == {m \in S : Cardinality(Younger(S, messages[m[1]][m[2]].born)) < Interacted}

Interactions ==
    /\ at = "interactions"
    /\ state' = [state EXCEPT !.elsewhere = Youngest(MessagesOf(RoomsFor(job.by) \ {job.room}))]
    /\ at' = "provide"
    /\ UNCHANGED <<hour, members, messages, facts, claims, goals, job>>

(* countMemories and getMemories, of unique memories. *)
Counted(s) == Cardinality({i \in DOMAIN s : s[i].unique})
Known(s) == Cardinality({i \in DOMAIN s : s[i]})

(* The facts provider. *)
Provide ==
    /\ at = "provide"
    /\ state' = [state EXCEPT !.facts = Known(facts[job.room])]
    /\ at' = "decide"
    /\ UNCHANGED <<hour, members, messages, facts, claims, goals, job>>

(* The client does not answer, and evaluates nothing that is not to always *)
(* run; or its answer is stored.                                           *)
Ignore ==
    /\ at = "decide"
    /\ at' = "idle" /\ job' = NoJob /\ state' = NoState
    /\ UNCHANGED <<hour, members, messages, facts, claims, goals>>

(* The REST client does not tell evaluate that it responded. *)
Respond ==
    /\ at = "decide" /\ Bounded
    /\ messages' = Stored(Agent, FALSE, job.room)
    /\ IF job.room \in Bare THEN at' = "idle" /\ job' = NoJob /\ state' = NoState
       ELSE at' = "update" /\ UNCHANGED <<job, state>>
    /\ UNCHANGED <<hour, members, facts, claims, goals>>

(* updateRecentMessageState formats a copy of the messages. *)
Update ==
    LET r == job.room
        recent == Newest(r)
        media == Media(r, recent)
    IN  /\ at = "update"
        /\ state' = [state EXCEPT
               !.recent = recent,
               !.shown = IF media = {} THEN {}
                         ELSE Since(r, media, FirstOf(recent, media))]
        /\ at' = "evaluate"
        /\ UNCHANGED <<hour, members, messages, facts, claims, goals, job>>

(* evaluate: if any evaluator is valid the language model names those to   *)
(* call, of all that are registered.                                       *)
Reflects(r) == Counted(messages[r]) % ((Length + 1) \div 2) = 0

Evaluate(named) ==
    /\ at = "evaluate"
    /\ named => Reflects(job.room) \/ job.room \in goals
    /\ claims' = [claims EXCEPT ![job.room] = @ \/ named]
    /\ at' = "idle" /\ job' = NoJob /\ state' = NoState
    /\ UNCHANGED <<hour, members, messages, facts, goals>>

(* The handler of the fact evaluator, which nobody awaits. *)
StoreFact(r) ==
    /\ claims[r] /\ Len(facts[r]) < MaxFacts
    /\ facts' = [facts EXCEPT ![r] = Append(@, @ = <<>>)]
    /\ UNCHANGED <<hour, members, messages, claims, goals, at, job, state>>

HandlerEnds(r) ==
    /\ claims[r]
    /\ claims' = [claims EXCEPT ![r] = FALSE]
    /\ UNCHANGED <<hour, members, messages, facts, goals, at, job, state>>

Step == Compose \/ Interactions \/ Provide \/ Respond \/ Update \/ \E b \in BOOLEAN : Evaluate(b)

Next ==
    \/ Tick \/ Step \/ Ignore
    \/ \E u \in Users, r \in Rooms, media \in BOOLEAN :
         Post(u, r, media) \/ \E stored \in BOOLEAN : Receive(u, r, media, stored)
    \/ \E r \in Rooms : StoreFact(r) \/ HandlerEnds(r)

Spec == Init /\ [][Next]_vars

----------------------------------------------------------------------------
(* Types of the rooms, of the handler and of the message it is about. *)
TypeOK ==
    /\ hour \in 0 .. MaxHours
    /\ members \subseteq (Users \cup {Agent}) \X Rooms
    /\ \A r \in Rooms : Len(messages[r]) <= MaxMessages /\ Len(facts[r]) <= MaxFacts
    /\ claims \in [Rooms -> BOOLEAN] /\ goals \subseteq Rooms
    /\ at \in {"idle", "compose", "interactions", "provide", "decide", "update", "evaluate"}
    /\ job.room \in Rooms /\ job.by \in Users \cup {Agent}

Begun == {"interactions", "provide", "decide", "update", "evaluate"}

(* Whatever order the messages are in when the last attachment is looked   *)
(* for: where there are pictures one is shown, and all that are not shown  *)
(* are older than all that are.                                            *)
NewestPicturesShown ==
    at \in Begun =>
        LET media == {n \in R!ToSet(state.recent) : messages[job.room][n].media}
        IN  /\ media # {} => media \cap state.shown # {}
            /\ \A n \in media \ state.shown, k \in media \cap state.shown : n < k

(* Everyone whose messages are composed is known by name; after the agent  *)
(* has spoken those who came meanwhile are not.                            *)
OnlyNewcomersUnknown ==
    at \in Begun =>
        \A n \in R!ToSet(state.recent) :
            messages[job.room][n].by \in state.actors \/ n > state.last

(* The evaluators are shown what the agent has just said, unless a whole   *)
(* conversation has come since.                                            *)
AnswerIsReflectedOn ==
    at = "evaluate" =>
        LET said == messages[job.room]
        IN  \E n \in DOMAIN said :
                /\ said[n].by = Agent /\ n > state.last
                /\ n \in R!ToSet(state.recent) \/ Len(said) - n >= Length

(* What the user has said elsewhere is recalled, unless as much as is      *)
(* composed was said there after it.                                       *)
OwnWordsRecalled ==
    [][(at = "interactions" /\ at' = "provide") =>
          \A r \in Rooms \ {job.room} : \A n \in DOMAIN messages[r] :
              messages[r][n].by = job.by =>
                  \/ <<r, n>> \in state'.elsewhere
                  \/ Cardinality(Younger(MessagesOf(Rooms \ {job.room}), messages[r][n].born))
                        >= Interacted]_vars

(* A room whose conversation has left facts has some recalled. *)
FactsRecalled ==
    [][(at = "provide" /\ at' = "decide" /\ facts[job.room] # <<>>) => state'.facts > 0]_vars

(* What is composed, whatever other handlers store between its reads. *)
Recalls ==
    /\ [](NewestPicturesShown /\ OnlyNewcomersUnknown /\ AnswerIsReflectedOn)
    /\ OwnWordsRecalled /\ FactsRecalled

============================================================================
