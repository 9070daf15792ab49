---------------------------- MODULE Conversation ---------------------------
(***************************************************************************)
(* How an agent answers the messages of one Discord room.  handleMessage   *)
(* runs once per message; the handlers of several messages interleave at   *)
(* every await.  They share the agent's state in the room (MUTED, FOLLOWED *)
(* or none) and the room's memories.  What the model answers is arbitrary. *)
(***************************************************************************)
EXTENDS Sequences, Naturals, FiniteSets

CONSTANTS
    Messages,  \* messages of other users in the room
    MaxChunks  \* bound: Discord messages one answer is split into

ASSUME ConversationAssumption == MaxChunks \in Nat \ {0}

VARIABLES
    userState, \* the agent's participants.userState in the room
    stored,    \* messages in the memories table
    replies,   \* replies[m]: number of stored answers to m
    at,        \* at[m]: the await the handler of m is in
    job,       \* job[m]: the handler's local variables
    silent     \* messages that arrived in a muted room, muted ever since

vars == <<userState, stored, replies, at, job, silent>>

RoomActions == {"MUTE_ROOM", "UNMUTE_ROOM", "FOLLOW_ROOM", "UNFOLLOW_ROOM"}
Actions == RoomActions \cup {"CONTINUE", "NONE"}
UserStates == {"none", "MUTED", "FOLLOWED"}
Ended == {"done", "failed"}
Places == Ended \cup {"new", "store", "gate", "check", "decide", "generate",
                      "send", "record", "act", "ask", "continue", "evaluate"}
Jobs == [mention : BOOLEAN, text : {"empty", "short", "long"}, action : Actions,
         runs : Actions, chunks : 0 .. MaxChunks, sent : 0 .. MaxChunks,
         saved : 0 .. MaxChunks, round : 0 .. 2]
NewJob == [mention |-> FALSE, text |-> "empty", action |-> "NONE", runs |-> "NONE",
           chunks |-> 0, sent |-> 0, saved |-> 0, round |-> 0]

Init ==
    /\ userState = "none"
    /\ stored = {}
    /\ replies = [m \in Messages |-> 0]
    /\ at = [m \in Messages |-> "new"]
    /\ job = [m \in Messages |-> NewJob]
    /\ silent = {}

Go(m, place) == at' = [at EXCEPT ![m] = place]
Stay(m, place) == Go(m, place) /\ UNCHANGED job

(* The local variables of the answer are dead when the evaluators run or   *)
(* the handler ends; the properties still ask about two of them.           *)
End(m, place) ==
    /\ Go(m, place)
    /\ job' = [job EXCEPT ![m] = [NewJob EXCEPT !.mention = job[m].mention, !.sent = job[m].sent]]

----------------------------------------------------------------------------
(* The name the model chose and the action whose handler runs: the first   *)
(* registered action whose name contains the other or is contained in it.  *)
(* NONE stands for no action too, and for IGNORE: their handlers do        *)
(* nothing.                                                                *)

Registered == <<"CONTINUE", "FOLLOW_ROOM", "UNFOLLOW_ROOM", "NONE",
                "MUTE_ROOM", "UNMUTE_ROOM">>

Contains(a, b) ==
    a = b \/ <<a, b>> \in {<<"UNMUTE_ROOM", "MUTE_ROOM">>, <<"UNFOLLOW_ROOM", "FOLLOW_ROOM">>}

Matches(name, a) == Contains(name, a) \/ Contains(a, name)

Chosen(name) ==
    LET first == CHOOSE i \in 1 .. Len(Registered) :
                     /\ Matches(name, Registered[i])
                     /\ \A j \in 1 .. i - 1 : ~Matches(name, Registered[j])
    IN  Registered[first]

----------------------------------------------------------------------------
Receive(m) ==
    /\ at[m] = "new"
    /\ \E mention \in BOOLEAN, text \in {"empty", "short", "long"} :
           job' = [job EXCEPT ![m].mention = mention, ![m].text = text]
    /\ silent' = IF userState = "MUTED" THEN silent \cup {m} ELSE silent
    /\ Go(m, "store")
    /\ UNCHANGED <<userState, stored, replies>>

(* if (content.text) createMemory(memory) *)
Store(m) ==
    /\ at[m] = "store"
    /\ stored' = IF job[m].text = "empty" THEN stored ELSE stored \cup {m}
    /\ Go(m, "gate")
    /\ UNCHANGED <<userState, replies, job, silent>>

(* canSendMessage and _shouldIgnore: fewer than ten characters are ignored *)
(* (the agent is never "interested" in a channel), and so are some words.  *)
(* Mutant: the length is not looked at.                                    *)
TooShort_Never(m) == FALSE
TooShort(m) == job[m].text # "long"

Gate(m) ==
    /\ at[m] = "gate"
    /\ \/ ~TooShort(m) /\ Stay(m, "check")
       \/ End(m, "done")
    /\ UNCHANGED <<userState, stored, replies, silent>>

(* Mutant: a muted room is treated like any other. *)
Muted_Never(m) == FALSE
Muted(m) == userState = "MUTED" /\ ~job[m].mention

CheckUserState(m) ==
    /\ at[m] = "check"
    /\ IF Muted(m) THEN End(m, "done")
       ELSE Stay(m, IF userState = "FOLLOWED" \/ job[m].mention THEN "generate"
                    ELSE "decide")
    /\ UNCHANGED <<userState, stored, replies, silent>>

(* The model says RESPOND, or IGNORE or STOP. *)
Decide(m) ==
    /\ at[m] = "decide"
    /\ \/ Stay(m, "generate")
       \/ End(m, "evaluate")
    /\ UNCHANGED <<userState, stored, replies, silent>>

(* An answer a with action name a, split into n Discord messages, none if  *)
(* it has no text.  Only the first answer is refused for being empty.      *)
Answered(m, a, n, round) ==
    IF n = 0 THEN End(m, IF round = 1 THEN "done" ELSE "evaluate")
    ELSE /\ job' = [job EXCEPT ![m].action = a, ![m].chunks = n, ![m].sent = 0,
                               ![m].saved = 0, ![m].round = round]
         /\ Go(m, "send")

Generate(m) ==
    /\ at[m] = "generate"
    /\ \E a \in Actions, n \in 0 .. MaxChunks : Answered(m, a, n, 1)
    /\ UNCHANGED <<userState, stored, replies, silent>>

----------------------------------------------------------------------------
(* The callback: send every chunk, then store what was sent. *)

SendChunk(m) ==
    /\ at[m] = "send"
    /\ job' = [job EXCEPT ![m].sent = @ + 1]
    /\ Go(m, IF job[m].sent + 1 = job[m].chunks THEN "record" ELSE "send")
    /\ UNCHANGED <<userState, stored, replies, silent>>

(* processActions(memory, [], ...) throws; the second callback's result is *)
(* not looked at.                                                          *)
NothingReturned(m) ==
    End(m, IF job[m].round = 1 THEN "failed" ELSE "evaluate")

(* Mutant: it starts over instead. *)
SendFails_Retry(m) ==
    /\ at[m] = "send"
    /\ job' = [job EXCEPT ![m].sent = 0]
    /\ UNCHANGED <<userState, stored, replies, at, silent>>

(* sendMessageInChunks gives up and returns what was sent. *)
SendFails(m) ==
    /\ at[m] = "send"
    /\ IF job[m].sent = 0 THEN NothingReturned(m) ELSE Stay(m, "record")
    /\ UNCHANGED <<userState, stored, replies, silent>>

(* All messages but the last are stored with the action CONTINUE, and      *)
(* processActions looks at the first.                                      *)
FirstAction(m) == IF job[m].sent > 1 THEN "CONTINUE" ELSE job[m].action

Record(m) ==
    /\ at[m] = "record"
    /\ replies' = [replies EXCEPT ![m] = @ + 1]
    /\ IF job[m].saved + 1 < job[m].sent
       THEN job' = [job EXCEPT ![m].saved = @ + 1] /\ Go(m, "record")
       ELSE IF job[m].round = 1
       THEN job' = [job EXCEPT ![m].runs = Chosen(FirstAction(m))] /\ Go(m, "act")
       ELSE End(m, "evaluate")
    /\ UNCHANGED <<userState, stored, silent>>

RecordFails(m) ==
    /\ at[m] = "record"
    /\ NothingReturned(m)
    /\ UNCHANGED <<userState, stored, replies, silent>>

----------------------------------------------------------------------------
(* processActions runs the handler of one action. *)

Act(m) ==
    /\ at[m] = "act"
    /\ CASE job[m].runs = "CONTINUE" -> Stay(m, "continue")
         [] job[m].runs \in RoomActions -> Stay(m, "ask")
         [] OTHER -> End(m, "evaluate")
    /\ UNCHANGED <<userState, stored, replies, silent>>

(* A message ending in ? or !, or a model that says no, ends the handler.  *)
(* A continuation is sent and stored, its own action is not processed.     *)
(* Mutant: it is processed like a first answer.                            *)
Continuation_Again(m) == 1
Continuation(m) == 2

Continue(m) ==
    /\ at[m] = "continue"
    /\ \/ End(m, "evaluate")
       \/ \E a \in Actions, n \in 0 .. MaxChunks : Answered(m, a, n, Continuation(m))
    /\ UNCHANGED <<userState, stored, replies, silent>>

NewUserState(a) ==
    CASE a = "MUTE_ROOM" -> "MUTED"
      [] a = "FOLLOW_ROOM" -> "FOLLOWED"
      [] OTHER -> "none"

(* The handler asks the model once more; no is an answer too. *)
SetUserState(m) ==
    /\ at[m] = "ask"
    /\ userState' = NewUserState(job[m].runs)
    /\ silent' = IF userState' = "MUTED" THEN silent ELSE {}
    /\ End(m, "evaluate")
    /\ UNCHANGED <<stored, replies>>

AskSaysNo(m) ==
    /\ at[m] = "ask"
    /\ End(m, "evaluate")
    /\ UNCHANGED <<userState, stored, replies, silent>>

(* Errors of an action's handler are caught by processActions. *)
HandlerFails(m) ==
    /\ at[m] = "continue"
    /\ End(m, "evaluate")
    /\ UNCHANGED <<userState, stored, replies, silent>>

Evaluate(m) ==
    /\ at[m] = "evaluate"
    /\ End(m, "done")
    /\ UNCHANGED <<userState, stored, replies, silent>>

(* A database or Discord error anywhere else ends the handler. *)
Throw(m) ==
    /\ at[m] \in {"store", "gate", "check", "generate", "act", "evaluate"}
    /\ End(m, "failed")
    /\ UNCHANGED <<userState, stored, replies, silent>>

Step(m) ==
    \/ Store(m) \/ Gate(m) \/ CheckUserState(m) \/ Decide(m) \/ Generate(m)
    \/ SendChunk(m) \/ SendFails(m) \/ Record(m) \/ RecordFails(m)
    \/ Act(m) \/ Continue(m) \/ SetUserState(m) \/ AskSaysNo(m) \/ HandlerFails(m)
    \/ Evaluate(m) \/ Throw(m)

Next == \E m \in Messages : Receive(m) \/ Step(m)

(* Discord, the database and the model answer in the end. *)
Spec == Init /\ [][Next]_vars /\ \A m \in Messages : WF_vars(Step(m))

----------------------------------------------------------------------------
(* Types of the room's rows and of the handlers. *)
TypeOK ==
    /\ userState \in UserStates
    /\ stored \subseteq Messages
    /\ replies \in [Messages -> Nat]
    /\ at \in [Messages -> Places]
    /\ job \in [Messages -> Jobs]
    /\ silent \subseteq Messages

(* An answer in the memories replies to a message that is there too: a     *)
(* message without text is not stored, and is never answered because its   *)
(* length is taken from the same text.                                     *)
RepliesResolve == \A m \in Messages : replies[m] > 0 => m \in stored

(* A message that came to a room that was muted, and still is, gets no     *)
(* answer unless it mentions the agent, whatever is in flight.             *)
SilentUnanswered ==
    \A m \in silent : ~job[m].mention => replies[m] = 0 /\ job[m].sent = 0

(* One message leads to one answer and at most one continuation: CONTINUE  *)
(* cannot go on for ever.                                                  *)
BoundedContinuation == \A m \in Messages : replies[m] <= 2 * MaxChunks

(* Every handler comes to an end. *)
HandlersEnd == \A m \in Messages : at[m] # "new" ~> at[m] \in Ended

(* A muted room can be unmuted: when the model answers UNMUTE_ROOM, the    *)
(* handler that runs is not the one that mutes.                            *)
UnmuteIsNotMute ==
    \A m \in Messages : at[m] = "ask" /\ job[m].action = "UNMUTE_ROOM" => job[m].runs # "MUTE_ROOM"

============================================================================
