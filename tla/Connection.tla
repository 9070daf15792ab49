----------------------------- MODULE Connection ----------------------------
(***************************************************************************)
(* Accounts, rooms and participants.                                       *)
(*                                                                         *)
(* Every incoming message calls AgentRuntime.ensureConnection, which first *)
(* makes sure the two accounts and the room exist and then that both       *)
(* accounts are participants of the room.  Within each half the tasks run  *)
(* concurrently (Promise.all), and each task is a SELECT followed, after   *)
(* an await, by an INSERT.  The constructor of AgentRuntime starts three   *)
(* such tasks for the agent's own room and awaits none of them.  Several   *)
(* calls, of one process or of several, are in flight at once.             *)
(***************************************************************************)
EXTENDS Naturals, FiniteSets

CONSTANTS
    Agents,    \* agent ids; an agent's own room has the same id
    Users,     \* ids of the other accounts
    ChatRooms, \* rooms of the clients
    Calls,     \* concurrent activations of ensureConnection / the constructor
    MaxBoots,  \* bound: runtimes constructed, over all calls
    MaxFaults  \* bound: statements that fail for a reason of the database's own

ASSUME ConnectionAssumption ==
    /\ MaxBoots \in Nat /\ MaxFaults \in Nat
    /\ Agents # {} /\ Agents \cap Users = {} /\ Agents \cap ChatRooms = {}

Accounts == Agents \cup Users
Rooms == Agents \cup ChatRooms

VARIABLES
    accounts,     \* ids in the accounts table
    rooms,        \* ids in the rooms table
    participants, \* participants[<<u, r>>]: number of rows for user u in room r
    call,         \* call[c]: what activation c was called for, and how far it is
    task,         \* task[c][t]: progress of each concurrent task of c
    boots,        \* runtimes constructed so far
    faults,       \* statements that have failed so far
    lost,         \* rows whose insertion failed and was reported to nobody
    adapter       \* the database, "sqlite" or "postgres"; never changes

vars == <<accounts, rooms, participants, call, task, boots, faults, lost, adapter>>

FirstHalf == {"agentUser", "user", "room"}
SecondHalf == {"agentIn", "userIn"}
BootTasks == {"room", "agentUser", "ownIn"}
Tasks == FirstHalf \cup SecondHalf \cup BootTasks
TaskStates == {"none", "read", "write", "done", "failed"}
CallStates == {"idle", "first", "second", "boot", "connected", "rejected"}

(* The record of a call that is not in flight; its ids mean nothing. *)
SomeAgent == CHOOSE a \in Agents : TRUE
Blank == [state |-> "idle", agent |-> SomeAgent, user |-> SomeAgent,
          room |-> SomeAgent]

Idle == [t \in Tasks |-> "none"]
Start(S) == [t \in Tasks |-> IF t \in S THEN "read" ELSE "none"]

Init ==
    /\ accounts = {}
    /\ rooms = {}
    /\ participants = [k \in Accounts \X Rooms |-> 0]
    /\ call = [c \in Calls |-> Blank]
    /\ task = [c \in Calls |-> Idle]
    /\ boots = 0
    /\ faults = 0
    /\ lost = {}
    /\ adapter \in {"sqlite", "postgres"}

(* The account and the room a task is about. *)
Account(c, t) == IF t \in {"user", "userIn"} THEN call[c].user ELSE call[c].agent
(* Mutant: the arguments userId and roomId swapped. *)
Room_Swapped(c) == IF call[c].state = "boot" THEN call[c].agent ELSE call[c].user
Room(c) == IF call[c].state = "boot" THEN call[c].agent ELSE call[c].room

SetTask(c, t, s) == task' = [task EXCEPT ![c][t] = s]

----------------------------------------------------------------------------
(* A client handles a message of user u in room r (u may be the agent      *)
(* itself: the Twitter client connects the agent's own tweets), or a       *)
(* runtime is constructed for agent a.                                     *)

EnsureConnection(c, a, u, r) ==
    /\ call[c].state = "idle"
    /\ call' = [call EXCEPT ![c] = [state |-> "first", agent |-> a,
                                    user |-> u, room |-> r]]
    /\ task' = [task EXCEPT ![c] = Start(FirstHalf)]
    /\ UNCHANGED <<accounts, rooms, participants, boots, faults, lost, adapter>>

ConstructRuntime(c, a) ==
    /\ call[c].state = "idle"
    /\ boots < MaxBoots
    /\ boots' = boots + 1
    /\ call' = [call EXCEPT ![c] = [state |-> "boot", agent |-> a,
                                    user |-> a, room |-> a]]
    /\ task' = [task EXCEPT ![c] = Start(BootTasks)]
    /\ UNCHANGED <<accounts, rooms, participants, faults, lost, adapter>>

----------------------------------------------------------------------------
(* The tasks: ensureUserExists, ensureRoomExists, ensureParticipantInRoom, *)
(* ensureParticipantExists.                                                *)

(* ensureParticipantInRoom asks for the room's participants,               *)
(* ensureParticipantExists for any participation of the account.           *)
(* Mutant: the first asks like the second.                                 *)
Participates_Anywhere(c, t) ==
    \E r \in Rooms : participants[<<Account(c, t), r>>] > 0
Participates(c, t) ==
    IF t = "ownIn"
    THEN \E r \in Rooms : participants[<<Account(c, t), r>>] > 0
    ELSE participants[<<Account(c, t), Room(c)>>] > 0

Present(c, t) ==
    CASE t \in {"agentUser", "user"} -> Account(c, t) \in accounts
      [] t = "room" -> Room(c) \in rooms
      [] OTHER -> Participates(c, t)

Check(c, t) ==
    /\ task[c][t] = "read"
    /\ SetTask(c, t, IF Present(c, t) THEN "done" ELSE "write")
    /\ UNCHANGED <<accounts, rooms, participants, call, boots, faults, lost, adapter>>

(* createAccount reports a taken id as false, which nobody looks at. *)
InsertAccount(c, t) ==
    /\ t \in {"agentUser", "user"}
    /\ task[c][t] = "write"
    /\ accounts' = accounts \cup {Account(c, t)}
    /\ SetTask(c, t, "done")
    /\ UNCHANGED <<rooms, participants, call, boots, faults, lost, adapter>>

(* createRoom swallows a taken id on sqlite and throws it on postgres. *)
InsertRoom(c) ==
    /\ task[c]["room"] = "write"
    /\ rooms' = rooms \cup {Room(c)}
    /\ SetTask(c, "room", IF adapter = "postgres" /\ Room(c) \in rooms
                          THEN "failed" ELSE "done")
    /\ UNCHANGED <<accounts, participants, call, boots, faults, lost, adapter>>

(* sqlite checks neither foreign keys nor duplicates of participants;      *)
(* postgres does both, and addParticipant turns the error into false.      *)
(* Mutants: no UNIQUE constraint; no foreign keys.                         *)
Accepted_NoUnique(u, r) ==
    adapter = "postgres" => u \in accounts /\ r \in rooms
Accepted_NoKeys(u, r) ==
    adapter = "postgres" => participants[<<u, r>>] = 0
Accepted(u, r) ==
    adapter = "postgres" =>
        u \in accounts /\ r \in rooms /\ participants[<<u, r>>] = 0

AddParticipant(c, t) ==
    /\ t \in SecondHalf \cup {"ownIn"}
    /\ task[c][t] = "write"
    /\ LET k == <<Account(c, t), Room(c)>>
       IN  participants' = IF Accepted(k[1], k[2])
                           THEN [participants EXCEPT ![k] = @ + 1]
                           ELSE participants
    /\ SetTask(c, t, "done")
    /\ UNCHANGED <<accounts, rooms, call, boots, faults, lost, adapter>>

(* Any statement may fail for a reason of the database's own: it is busy,  *)
(* full or away.  A query that fails rejects its task.  An insertion that  *)
(* fails rejects it only where createRoom of postgres throws it: createRoom *)
(* of sqlite, createAccount and addParticipant catch it and return, and    *)
(* the task goes on without its row.                                       *)
Row(c, t) ==
    CASE t \in {"agentUser", "user"} -> <<"account", Account(c, t)>>
      [] t = "room" -> <<"room", Room(c)>>
      [] OTHER -> <<"participant", Account(c, t), Room(c)>>

Thrown(t) == t = "room" /\ adapter = "postgres"

QueryFails(c, t) ==
    /\ task[c][t] = "read"
    /\ faults < MaxFaults
    /\ faults' = faults + 1
    /\ SetTask(c, t, "failed")
    /\ UNCHANGED <<accounts, rooms, participants, call, boots, lost, adapter>>

InsertFails(c, t) ==
    /\ task[c][t] = "write"
    /\ faults < MaxFaults
    /\ faults' = faults + 1
    /\ SetTask(c, t, IF Thrown(t) THEN "failed" ELSE "done")
    /\ lost' = IF Thrown(t) THEN lost ELSE lost \cup {Row(c, t)}
    /\ UNCHANGED <<accounts, rooms, participants, call, boots, adapter>>

----------------------------------------------------------------------------
(* The two Promise.all of ensureConnection. *)

AllDone(c, S) == \A t \in S : task[c][t] = "done"

(* Mutant: the second half starts with the first task that is done. *)
Joined_Any(c) == \E t \in FirstHalf : task[c][t] = "done"
Joined(c) == AllDone(c, FirstHalf)

StartSecondHalf(c) ==
    /\ call[c].state = "first"
    /\ Joined(c)
    /\ call' = [call EXCEPT ![c].state = "second"]
    /\ task' = [task EXCEPT ![c] = Start(SecondHalf)]
    /\ UNCHANGED <<accounts, rooms, participants, boots, faults, lost, adapter>>

Finish(c) ==
    /\ \/ call[c].state = "second" /\ AllDone(c, SecondHalf)
       \/ call[c].state = "boot" /\ AllDone(c, BootTasks)
    /\ call' = [call EXCEPT ![c].state = "connected"]
    /\ task' = [task EXCEPT ![c] = Idle]
    /\ UNCHANGED <<accounts, rooms, participants, boots, faults, lost, adapter>>

(* Promise.all rejects with its first failure, the tasks already started   *)
(* run on.  In the constructor nobody awaits: the rejection ends node.     *)
Reject(c) ==
    /\ call[c].state \in {"first", "second", "boot"}
    /\ \E t \in Tasks : task[c][t] = "failed"
    /\ call' = [call EXCEPT ![c].state = "rejected"]
    /\ task' = IF call[c].state = "boot"
               THEN [task EXCEPT ![c] = Idle] ELSE task
    /\ UNCHANGED <<accounts, rooms, participants, boots, faults, lost, adapter>>

(* The caller is done with the call and handles its next message. *)
Return(c) ==
    /\ call[c].state \in {"connected", "rejected"}
    /\ \A t \in Tasks : task[c][t] \notin {"read", "write"}
    /\ call' = [call EXCEPT ![c] = Blank]
    /\ task' = [task EXCEPT ![c] = Idle]
    /\ UNCHANGED <<accounts, rooms, participants, boots, faults, lost, adapter>>

TaskStep(c) ==
    \/ \E t \in Tasks : \/ Check(c, t) \/ InsertAccount(c, t) \/ AddParticipant(c, t)
                        \/ QueryFails(c, t) \/ InsertFails(c, t)
    \/ InsertRoom(c)

Next ==
    \E c \in Calls :
        \/ \E a \in Agents : \/ ConstructRuntime(c, a)
                             \/ \E u \in Accounts, r \in ChatRooms :
                                    EnsureConnection(c, a, u, r)
        \/ TaskStep(c)
        \/ StartSecondHalf(c) \/ Finish(c) \/ Reject(c) \/ Return(c)

Spec == Init /\ [][Next]_vars

----------------------------------------------------------------------------
(* Types of the tables and of the calls in flight. *)
TypeOK ==
    /\ accounts \subseteq Accounts
    /\ rooms \subseteq Rooms
    /\ participants \in [Accounts \X Rooms -> Nat]
    /\ call \in [Calls -> [state : CallStates, agent : Agents,
                           user : Accounts, room : Rooms]]
    /\ task \in [Calls -> [Tasks -> TaskStates]]
    /\ boots \in 0 .. MaxBoots
    /\ faults \in 0 .. MaxFaults
    /\ lost \subseteq ({"account"} \X Accounts) \cup ({"room"} \X Rooms)
                     \cup ({"participant"} \X Accounts \X Rooms)

Connected(c) == call[c].state = "connected"

(* A row is there, or its insertion failed: a failure costs its own row    *)
(* and, of an account on postgres, the memberships that refer to it.       *)
HasAccount(u) == u \in accounts \/ <<"account", u>> \in lost
HasRoom(r) == r \in rooms \/ <<"room", r>> \in lost
IsMember(u, r) ==
    \/ participants[<<u, r>>] > 0
    \/ <<"participant", u, r>> \in lost
    \/ adapter = "postgres" /\ <<"account", u>> \in lost

(* When ensureConnection returns, the message it was called for can be     *)
(* stored: its author, its room and the agent exist and both are members,  *)
(* whatever other calls were creating the same rows at the same time; only *)
(* a row whose own insertion the database refused may be missing, and on   *)
(* postgres the room never is.                                             *)
ConnectedMembers ==
    \A c \in Calls : Connected(c) /\ call[c].room \in ChatRooms =>
        /\ \A u \in {call[c].agent, call[c].user} :
              HasAccount(u) /\ IsMember(u, call[c].room)
        /\ HasRoom(call[c].room)
        /\ adapter = "postgres" => call[c].room \in rooms

(* No participant row of a chat room refers to an account or a room that   *)
(* does not exist, but for one whose insertion failed.  With sqlite, whose *)
(* foreign keys are off, only the order of the two halves of               *)
(* ensureConnection sees to it.                                            *)
ParticipantsResolve ==
    \A u \in Accounts, r \in ChatRooms :
        participants[<<u, r>>] > 0 => HasAccount(u) /\ HasRoom(r)

(* With postgres an account is at most once in a room, and its own room    *)
(* keeps the same rules, whatever fails: a row that would break them is    *)
(* dropped without a word.  (With sqlite calls that overlap, and the two   *)
(* halves of a call for the agent's own message, store it twice.)          *)
PostgresRowsValid ==
    \A u \in Accounts, r \in Rooms :
        adapter = "postgres" =>
            /\ participants[<<u, r>>] <= 1
            /\ participants[<<u, r>>] > 0 => u \in accounts /\ r \in rooms

============================================================================
