------------------------------- MODULE Tables ------------------------------
(***************************************************************************)
(* The tables of an agent's database, as one record, and what callers ask  *)
(* to store in them.  All memories are of one table and of one agent.      *)
(***************************************************************************)
EXTENDS Sequences, Naturals, FiniteSets

CONSTANTS
    Users,     \* account ids
    Rooms,     \* room ids
    Messages,  \* memories callers create
    Named,     \* those that come with an id
    Vectored,  \* those that come with an embedding
    About,     \* About[m]: the room, the user and the text of m
    Goals,     \* goals callers create, without an id
    Aim        \* Aim[g]: the room and the user of g

TablesAssumption ==
    /\ Named \subseteq Messages /\ Vectored \subseteq Messages
    /\ \A m \in Messages : About[m].room \in Rooms /\ About[m].user \in Users
    /\ \A g \in Goals : Aim[g].room \in Rooms /\ Aim[g].user \in Users

States == {"none", "FOLLOWED", "MUTED"}
Pairs == Users \X Rooms

Init ==
    [accounts |-> {}, rooms |-> {},
     members  |-> [k \in Pairs |-> <<>>], \* the states of the rows for user and room
     memories |-> {},                     \* [msg, copy, unique]
     goals    |-> {},                     \* [goal, copy, status]
     bonds    |-> [p \in Users \X Users |-> 0]] \* relationships

(* What a call did: the tables after it and its answer. *)
Did(db, answer) == [db |-> db, answer |-> answer]
Copies(db, m) == {row \in db.memories : row.msg = m}
Twins(db, g) == {row \in db.goals : row.goal = g}

(* Another row for m, with an id of its own. *)
Fresh(rows) ==
    LET taken == {row.copy : row \in rows}
    IN  CHOOSE n \in 0 .. Cardinality(taken) : n \notin taken
MemoryRow(db, m, unique) == [msg |-> m, copy |-> Fresh(Copies(db, m)), unique |-> unique]
GoalRow(db, g) == [goal |-> g, copy |-> Fresh(Twins(db, g)), status |-> "IN_PROGRESS"]

InRoom(db, r) == {row \in db.memories : About[row.msg].room = r}
Similar(m, n) ==
    /\ {m, n} \subseteq Vectored
    /\ About[m].room = About[n].room /\ About[m].text = About[n].text
Repeat(state, n) == [i \in 1 .. n |-> state]

----------------------------------------------------------------------------
(* SqliteDatabaseAdapter.  Every method is one synchronous statement.      *)
(* Foreign keys are off.  Texts compared by distance stand for vectors.    *)

(* Accounts have a primary key; a taken id is answered false. *)
SqCreateAccount(db, u) ==
    Did([db EXCEPT !.accounts = @ \cup {u}], IF u \in db.accounts THEN "false" ELSE "true")

SqCreateRoom(db, r) == Did([db EXCEPT !.rooms = @ \cup {r}], "true")

(* Only the room itself goes. *)
SqRemoveRoom(db, r) == Did([db EXCEPT !.rooms = @ \ {r}], "true")

SqAddParticipant(db, u, r) ==
    Did([db EXCEPT !.members[<<u, r>>] = Append(@, "none")], "true")

SqRemoveParticipant(db, u, r) == Did([db EXCEPT !.members[<<u, r>>] = <<>>], "true")

SqSetParticipantUserState(db, u, r, s) ==
    Did([db EXCEPT !.members[<<u, r>>] = Repeat(s, Len(@))], "true")

(* A missing embedding is stored as an empty blob, and sqlite-vec refuses   *)
(* to compute a distance to one: no search of such a room succeeds.        *)
SqSearchable(db, r) == \A row \in InRoom(db, r) : row.msg \in Vectored

(* Only memories with an embedding are searched for.  The search asks for  *)
(* the most distant memory of the room and ignores the threshold: any      *)
(* memory makes the new one a copy.                                        *)
SqIsUnique(db, m) == m \in Vectored => InRoom(db, About[m].room) = {}

(* The search, then INSERT OR REPLACE. *)
SqCreateMemory(db, m, unique) ==
    LET replaced == IF m \in Named THEN Copies(db, m) ELSE {}
        rest == [db EXCEPT !.memories = @ \ replaced]
    IN  IF m \in Vectored /\ ~SqSearchable(db, About[m].room) THEN Did(db, "throws")
        ELSE Did([rest EXCEPT !.memories = @ \cup {MemoryRow(rest, m, unique)}], "true")

SqRemoveMemory(db, m) ==
    Did([db EXCEPT !.memories = @ \ {row \in Copies(db, m) : row.copy = 0}], "true")

SqRemoveAllMemories(db, r) == Did([db EXCEPT !.memories = @ \ InRoom(db, r)], "true")

SqCreateGoal(db, g) == Did([db EXCEPT !.goals = @ \cup {GoalRow(db, g)}], "true")

SqUpdateGoalStatus(db, g, s) ==
    Did([db EXCEPT !.goals = {IF row.goal = g /\ row.copy = 0 THEN [row EXCEPT !.status = s]
                              ELSE row : row \in @}], "true")

SqRemoveGoal(db, g) ==
    Did([db EXCEPT !.goals = @ \ {row \in Twins(db, g) : row.copy = 0}], "true")

SqRemoveAllGoals(db, r) ==
    Did([db EXCEPT !.goals = {row \in @ : Aim[row.goal].room # r}], "true")

SqCreateRelationship(db, u, v) == Did([db EXCEPT !.bonds[<<u, v>>] = @ + 1], "true")

(* What the getters answer. *)
SqGetRoom(db, r) == r \in db.rooms
SqGetAccountById(db, u) == u \in db.accounts
SqGetParticipantsForRoom(db, r) == [u \in Users |-> Len(db.members[u, r])]
SqGetParticipantsForAccount(db, u) == [r \in Rooms |-> Len(db.members[u, r])]
SqGetRoomsForParticipants(db, S) == {r \in Rooms : \E u \in S : db.members[u, r] # <<>>}

(* One actor per row, empty if there is no account. *)
SqGetActorDetails(db, r) ==
    [u \in Users |-> [rows |-> Len(db.members[u, r]), known |-> u \in db.accounts]]

SqGetParticipantUserState(db, u, r) ==
    IF db.members[u, r] = <<>> THEN "none" ELSE Head(db.members[u, r])

SqGetMemoryById(db, m) == \E row \in Copies(db, m) : row.copy = 0
SqGetMemories(db, r, unique) == {row \in InRoom(db, r) : unique => row.unique}
SqGetMemoriesByRoomIds(db, R) == UNION {InRoom(db, r) : r \in R}
SqCountMemories(db, r, unique) == Cardinality(SqGetMemories(db, r, unique))

(* The nearest memories of a searchable room, however far they are. *)
SqSearchMemories(db, m, unique) == SqGetMemories(db, About[m].room, unique)

SqGetGoals(db, r, inProgress) ==
    {row \in db.goals : Aim[row.goal].room = r /\ (inProgress => row.status = "IN_PROGRESS")}

SqGetRelationship(db, u, v) == db.bonds[u, v] + db.bonds[v, u] > 0
SqGetRelationships(db, u) ==
    [p \in {q \in DOMAIN db.bonds : u \in {q[1], q[2]}} |-> db.bonds[p]]

============================================================================
