------------------------------- MODULE Ports -------------------------------
(***************************************************************************)
(* An agent moved to another database: the calls AgentRuntime, the memory  *)
(* managers and the goals make, on sqlite, on sql.js and on supabase.      *)
(***************************************************************************)
EXTENDS Tables

CONSTANTS
    Agent,     \* one of Users
    Own,       \* the agent's own room
    MaxCopies  \* bound: rows of one participant, goal or relationship

PortsAssumption == TablesAssumption /\ Agent \in Users /\ Own \in Rooms /\ MaxCopies \in Nat

----------------------------------------------------------------------------
(* SqlJsDatabaseAdapter: the statements of the sqlite adapter, prepared,   *)
(* bound and stepped by sql.js.  Four getters read the row of a statement  *)
(* they never step, which is an object whose columns are all undefined.    *)
(* (Only the core's test resources construct this adapter and supabase's.) *)
Unstepped(found) == "blank"

(* The id of a blank row is undefined. *)
SjGetRoom(db, r) == IF Unstepped(r \in db.rooms) = "row" THEN "row" ELSE "null"
SjGetAccountById(db, u) == Unstepped(u \in db.accounts)
(* What is undefined cannot be bound. *)
SjGetMemoryById(db, m) ==
    IF m \in Named THEN Unstepped(SqGetMemoryById(db, m)) ELSE "throws"
SjGetParticipantUserState(db, u, r) ==
    IF Unstepped(db.members[u, r] # <<>>) = "row" THEN SqGetParticipantUserState(db, u, r)
    ELSE "none"

(* The row is compared with the text 'type'. *)
SjGetMemoriesByRoomIds(db, R) == {}

(* Four values for five placeholders: the limit is null. *)
SjSearchMemoriesByEmbedding(db, m) == "throws"

(* Nor can an embedding that is missing be bound by the insertion. *)
SjCreateMemory(db, m) ==
    IF m \notin Vectored \/ SjSearchMemoriesByEmbedding(db, m) = "throws" THEN Did(db, "throws")
    ELSE SqCreateMemory(db, m, SqIsUnique(db, m))

(* The rest is the same. *)
SjCreateAccount(db, u) == SqCreateAccount(db, u)
SjCreateRoom(db, r) == SqCreateRoom(db, r)
SjRemoveRoom(db, r) == SqRemoveRoom(db, r)
SjAddParticipant(db, u, r) == SqAddParticipant(db, u, r)
SjRemoveParticipant(db, u, r) == SqRemoveParticipant(db, u, r)
SjSetParticipantUserState(db, u, r, s) == SqSetParticipantUserState(db, u, r, s)
SjRemoveMemory(db, m) == SqRemoveMemory(db, m)
SjRemoveAllMemories(db, r) == SqRemoveAllMemories(db, r)
SjCreateGoal(db, g) == SqCreateGoal(db, g)
SjUpdateGoalStatus(db, g, s) == SqUpdateGoalStatus(db, g, s)
SjRemoveGoal(db, g) == SqRemoveGoal(db, g)
SjRemoveAllGoals(db, r) == SqRemoveAllGoals(db, r)
SjCreateRelationship(db, u, v) == SqCreateRelationship(db, u, v)

SjGetParticipantsForRoom(db, r) == SqGetParticipantsForRoom(db, r)
SjGetParticipantsForAccount(db, u) == SqGetParticipantsForAccount(db, u)
SjGetRoomsForParticipants(db, U) == SqGetRoomsForParticipants(db, U)
SjGetActorDetails(db, r) == SqGetActorDetails(db, r)
SjGetMemories(db, r, unique) == SqGetMemories(db, r, unique)
SjCountMemories(db, r, unique) == SqCountMemories(db, r, unique)
(* Every memory of the room, whatever its distance. *)
SjSearchMemories(db, m, unique) == SqSearchMemories(db, m, unique)
SjGetGoals(db, r, inProgress) == SqGetGoals(db, r, inProgress)
SjGetRelationship(db, u, v) == SqGetRelationship(db, u, v)
SjGetRelationships(db, u) == SqGetRelationships(db, u)

----------------------------------------------------------------------------
(* SupabaseDatabaseAdapter over the tables of its schema.sql, which has no *)
(* functions to call, no default for the id of a participant, and a view   *)
(* for the memories.  Errors are thrown, logged or passed over, by method. *)

(* The statement when it is accepted, otherwise nothing. *)
If(accepted, db, then) == IF accepted THEN Did(then, "true") ELSE Did(db, "throws")
Caught(did) == IF did.answer = "throws" THEN [did EXCEPT !.answer = "false"] ELSE did

(* What the schema defines. *)
Functions == {}
Tabled == {"accounts", "rooms", "goals", "logs", "participants", "relationships"}
(* What has to come with an id: rows without a default for it. *)
NeedsId == {"accounts", "rooms", "goals", "participants", "relationships"}
Insertable(table, named) == table \in Tabled /\ (table \in NeedsId => named)
Rpc(function) == IF function \in Functions THEN "row" ELSE "throws"

(* .single() is an error when there is no row. *)
Single(found) == IF found THEN "row" ELSE "error"

SuGetRoom(db, r) == IF Single(r \in db.rooms) = "error" THEN "throws" ELSE "row"
SuGetAccountById(db, u) == IF u \in db.accounts THEN "row" ELSE "null"
SuGetMemoryById(db, m) ==
    IF Single(m \in Named /\ Copies(db, m) # {}) = "error" THEN "null" ELSE "row"
SuGetParticipantUserState(db, u, r) ==
    IF Single(Len(db.members[u, r]) = 1) = "error" THEN "none" ELSE db.members[u, r][1]
SuGetParticipantsForRoom(db, r) == [u \in Users |-> Len(db.members[u, r])]
SuGetParticipantsForAccount(db, u) == [r \in Rooms |-> Len(db.members[u, r])]
SuGetRoomsForParticipants(db, U) == {r \in Rooms : \E u \in U : db.members[u, r] # <<>>}
(* The tables of memories are asked for by the name of their type. *)
SuGetMemories(db, r) == IF "messages" \in Tabled THEN "row" ELSE "throws"
SuCountMemories(db, r) == Rpc("count_memories")
SuSearchMemories(db, m) == Rpc("search_memories")
SuGetGoals(db, r) == Rpc("get_goals")
SuGetRelationship(db, u, v) == Rpc("get_relationship")
SuGetRelationships(db, u) ==
    [p \in {q \in DOMAIN db.bonds : u \in {q[1], q[2]}} |-> db.bonds[p]]

(* upsert. *)
SuCreateAccount(db, u) == Did([db EXCEPT !.accounts = @ \cup {u}], "true")
SuCreateRoom(db, r) ==
    If(Rpc("create_room") = "row", db, [db EXCEPT !.rooms = @ \cup {r}])
SuRemoveRoom(db, r) == Did([db EXCEPT !.rooms = @ \ {r}], "true")
SuAddParticipant(db, u, r) ==
    Caught(If(Insertable("participants", FALSE) /\ u \in db.accounts /\ r \in db.rooms, db,
              [db EXCEPT !.members[<<u, r>>] = Append(@, "none")]))
SuRemoveParticipant(db, u, r) == Did([db EXCEPT !.members[<<u, r>>] = <<>>], "true")
SuSetParticipantUserState(db, u, r, s) ==
    Did([db EXCEPT !.members[<<u, r>>] = Repeat(s, Len(@))], "true")

SuCreateMemory(db, m, unique) ==
    If(IF unique THEN Rpc("check_similarity_and_insert") = "row"
       ELSE Insertable("memories", m \in Named), db,
       [db EXCEPT !.memories = @ \cup {MemoryRow(db, m, unique)}])
SuRemoveMemory(db, m) ==
    If("memories" \in Tabled, db, [db EXCEPT !.memories = @ \ Copies(db, m)])
SuRemoveAllMemories(db, r) ==
    If(Rpc("remove_memories") = "row", db, [db EXCEPT !.memories = @ \ InRoom(db, r)])

(* The goals of callers have no id. *)
SuCreateGoal(db, g) ==
    If(Insertable("goals", FALSE) /\ Aim[g].room \in db.rooms, db,
       [db EXCEPT !.goals = @ \cup {GoalRow(db, g)}])
SuUpdateGoalStatus(db, g, s) ==
    Did([db EXCEPT !.goals = {IF row.goal = g THEN [row EXCEPT !.status = s] ELSE row :
                                row \in @}], "true")
SuRemoveGoal(db, g) == Did([db EXCEPT !.goals = @ \ Twins(db, g)], "true")
SuRemoveAllGoals(db, r) ==
    Did([db EXCEPT !.goals = {row \in @ : Aim[row.goal].room # r}], "true")

(* A room for the two, and both in it, before they are related. *)
SuCreateRelationship(db, u, v) ==
    If(/\ SuGetRoomsForParticipants(db, {u, v}) # {} \/ Insertable("rooms", FALSE)
       /\ Insertable("participants", FALSE) /\ Insertable("relationships", FALSE), db,
       [db EXCEPT !.bonds[<<u, v>>] = @ + 1])

----------------------------------------------------------------------------
VARIABLES
    sq, sj, su, \* the databases
    unhandled,  \* a rejection nobody awaits, on supabase
    alive       \* the process of the supabase agent

vars == <<sq, sj, su, unhandled, alive>>

PortsInit ==
    /\ sq = Init /\ sj = Init /\ su = Init
    /\ unhandled = FALSE /\ alive = TRUE

(* One call on the three; the process that has ended calls nothing. *)
All(s, j, p) ==
    /\ sq' = s.db /\ sj' = j.db
    /\ su' = IF alive THEN p.db ELSE su

(* ensureUserExists and ensureRoomExists, by what the getter answers: a    *)
(* row, even a blank one, is there.                                        *)
Row(found) == IF found THEN "row" ELSE "null"
Ensured(answer, db, did) ==
    IF answer = "null" THEN did ELSE Did(db, IF answer = "throws" THEN answer ELSE "true")

SqUser(db, u) == Ensured(Row(SqGetAccountById(db, u)), db, SqCreateAccount(db, u))
SjUser(db, u) == Ensured(SjGetAccountById(db, u), db, SjCreateAccount(db, u))
SuUser(db, u) == Ensured(SuGetAccountById(db, u), db, SuCreateAccount(db, u))

SqRoom(db, r) == Ensured(Row(SqGetRoom(db, r)), db, SqCreateRoom(db, r))
SjRoom(db, r) == Ensured(SjGetRoom(db, r), db, SjCreateRoom(db, r))
SuRoom(db, r) == Ensured(SuGetRoom(db, r), db, SuCreateRoom(db, r))

(* ensureParticipantInRoom. *)
SqMember(db, u, r) ==
    IF SqGetParticipantsForRoom(db, r)[u] > 0 THEN db ELSE SqAddParticipant(db, u, r).db
SjMember(db, u, r) ==
    IF SjGetParticipantsForRoom(db, r)[u] > 0 THEN db ELSE SjAddParticipant(db, u, r).db
SuMember(db, u, r) ==
    IF SuGetParticipantsForRoom(db, r)[u] > 0 THEN db ELSE SuAddParticipant(db, u, r).db

(* The constructor awaits none of them; its own participant is looked for  *)
(* in every room.                                                          *)
Construct ==
    /\ LET s == SqUser(SqRoom(sq, Own).db, Agent).db
           j == SjUser(SjRoom(sj, Own).db, Agent).db
           p == SuUser(SuRoom(su, Own).db, Agent).db
           new(rows) == \A r \in Rooms : rows[r] = 0
       IN  /\ sq' = IF new(SqGetParticipantsForAccount(s, Agent))
                    THEN SqMember(s, Agent, Own) ELSE s
           /\ sj' = IF new(SjGetParticipantsForAccount(j, Agent))
                    THEN SjMember(j, Agent, Own) ELSE j
           /\ su' = IF ~alive THEN su
                    ELSE IF new(SuGetParticipantsForAccount(p, Agent))
                    THEN SuMember(p, Agent, Own) ELSE p
    /\ unhandled' = (alive /\ SuRoom(su, Own).answer = "throws")
    /\ UNCHANGED alive

(* ensureConnection. *)
EnsureConnection(u, r) ==
    /\ LET s == SqRoom(SqUser(SqUser(sq, Agent).db, u).db, r)
           j == SjRoom(SjUser(SjUser(sj, Agent).db, u).db, r)
           p == SuRoom(SuUser(SuUser(su, Agent).db, u).db, r)
       IN  /\ sq' = SqMember(SqMember(s.db, u, r), Agent, r)
           /\ sj' = SjMember(SjMember(j.db, u, r), Agent, r)
           /\ su' = IF ~alive THEN su
                    ELSE IF p.answer = "throws" THEN p.db
                    ELSE SuMember(SuMember(p.db, u, r), Agent, r)
    /\ UNCHANGED <<unhandled, alive>>

(* MemoryManager.createMemory. *)
Stored(answer, db, did) == IF answer = "null" THEN did ELSE Did(db, answer)

CreateMemory(m, unique) ==
    /\ Cardinality(Copies(sq, m)) < MaxCopies
    /\ All(Stored(Row(m \in Named /\ SqGetMemoryById(sq, m)), sq,
                  SqCreateMemory(sq, m, SqIsUnique(sq, m))),
           Stored(SjGetMemoryById(sj, m), sj, SjCreateMemory(sj, m)),
           Stored(SuGetMemoryById(su, m), su, SuCreateMemory(su, m, unique)))
    /\ UNCHANGED <<unhandled, alive>>

Forget(r) ==
    /\ \/ All(SqRemoveAllMemories(sq, r), SjRemoveAllMemories(sj, r),
              SuRemoveAllMemories(su, r))
       \/ \E m \in Named : All(SqRemoveMemory(sq, m), SjRemoveMemory(sj, m),
                               SuRemoveMemory(su, m))
    /\ UNCHANGED <<unhandled, alive>>

(* Of rooms and memberships, what the clients call. *)
Participation(u, r) ==
    /\ \/ \E s \in States : All(SqSetParticipantUserState(sq, u, r, s),
                                SjSetParticipantUserState(sj, u, r, s),
                                SuSetParticipantUserState(su, u, r, s))
       \/ All(SqRemoveParticipant(sq, u, r), SjRemoveParticipant(sj, u, r),
              SuRemoveParticipant(su, u, r))
       \/ All(SqRemoveRoom(sq, r), SjRemoveRoom(sj, r), SuRemoveRoom(su, r))
    /\ UNCHANGED <<unhandled, alive>>

Planning(g) ==
    /\ \/ /\ Cardinality(Twins(sq, g)) < MaxCopies
          /\ All(SqCreateGoal(sq, g), SjCreateGoal(sj, g), SuCreateGoal(su, g))
       \/ \E s \in {"IN_PROGRESS", "DONE"} :
              All(SqUpdateGoalStatus(sq, g, s), SjUpdateGoalStatus(sj, g, s),
                  SuUpdateGoalStatus(su, g, s))
       \/ All(SqRemoveGoal(sq, g), SjRemoveGoal(sj, g), SuRemoveGoal(su, g))
       \/ \E r \in Rooms : All(SqRemoveAllGoals(sq, r), SjRemoveAllGoals(sj, r),
                               SuRemoveAllGoals(su, r))
    /\ UNCHANGED <<unhandled, alive>>

CreateRelationship(u, v) ==
    /\ u # v /\ sq.bonds[u, v] < MaxCopies
    /\ All(SqCreateRelationship(sq, u, v), SjCreateRelationship(sj, u, v),
           SuCreateRelationship(su, u, v))
    /\ UNCHANGED <<unhandled, alive>>

(* An unhandled rejection ends the process. *)
Dies ==
    /\ unhandled /\ alive
    /\ unhandled' = FALSE /\ alive' = FALSE
    /\ UNCHANGED <<sq, sj, su>>

PortsNext ==
    \/ Construct \/ Dies
    \/ \E u \in Users, r \in Rooms : EnsureConnection(u, r) \/ Participation(u, r)
    \/ \E m \in Messages, b \in BOOLEAN : CreateMemory(m, b)
    \/ \E r \in Rooms : Forget(r)
    \/ \E g \in Goals : Planning(g)
    \/ \E u, v \in Users : CreateRelationship(u, v)

PortsSpec == PortsInit /\ [][PortsNext]_vars

----------------------------------------------------------------------------
(* An agent moved to sql.js enumerates the rooms, participants, goals and  *)
(* relationships that sqlite would, although every look-up of a row fails  *)
(* and callers insert it again; of accounts and memories it may read less. *)
SqlJsAddsNothing ==
    /\ sj.rooms = sq.rooms /\ sj.accounts \subseteq sq.accounts
    /\ \A r \in Rooms :
         /\ SjGetParticipantsForRoom(sj, r) = SqGetParticipantsForRoom(sq, r)
         /\ \A b \in BOOLEAN : SjGetGoals(sj, r, b) = SqGetGoals(sq, r, b)
         /\ SjGetMemories(sj, r, FALSE) \subseteq SqGetMemories(sq, r, FALSE)
         /\ SjGetMemoriesByRoomIds(sj, {r}) \subseteq SqGetMemoriesByRoomIds(sq, {r})
         /\ SjCountMemories(sj, r, FALSE) > 0 => SqGetMemories(sq, r, FALSE) # {}
         /\ \A m \in Messages :
              SjSearchMemories(sj, m, FALSE) \subseteq SqSearchMemories(sq, m, FALSE)
         /\ \A u \in Users :
              /\ SjGetActorDetails(sj, r)[u].known => SqGetActorDetails(sq, r)[u].known
              /\ SjGetParticipantUserState(sj, u, r) \in {"none", SqGetParticipantUserState(sq, u, r)}
    /\ \A u, v \in Users :
         /\ SjGetRelationship(sj, u, v) = SqGetRelationship(sq, u, v)
         /\ SjGetRelationships(sj, u) = SqGetRelationships(sq, u)
         /\ SjGetRoomsForParticipants(sj, {u, v}) = SqGetRoomsForParticipants(sq, {u, v})

(* What an agent moved to supabase finds, sqlite has too, whichever of its *)
(* insertions were refused or logged and wherever its process ended.       *)
SupabaseAddsNothing ==
    /\ \A u, v \in Users :
         /\ SuGetAccountById(su, u) = "row" => SqGetAccountById(sq, u)
         /\ SuGetRelationship(su, u, v) = "row" => SqGetRelationship(sq, u, v)
         /\ \A p \in DOMAIN SuGetRelationships(su, u) : su.bonds[p] > 0 => sq.bonds[p] > 0
    /\ \A r \in Rooms :
         /\ SuGetRoom(su, r) = "row" => SqGetRoom(sq, r)
         /\ SuGetGoals(su, r) = "row" => SqGetGoals(sq, r, FALSE) # {}
         /\ "row" \in {SuGetMemories(su, r), SuCountMemories(su, r)} =>
              SqGetMemories(sq, r, FALSE) # {}
         /\ \A u \in Users :
              SuGetParticipantUserState(su, u, r) \in {"none", SqGetParticipantUserState(sq, u, r)}
    /\ \A m \in Messages :
         "row" \in {SuGetMemoryById(su, m), SuSearchMemories(su, m)} => SqGetMemoryById(sq, m)

============================================================================
