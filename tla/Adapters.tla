------------------------------ MODULE Adapters -----------------------------
(***************************************************************************)
(* The same calls made on a sqlite and on a postgres database.  A caller   *)
(* waits for each answer, except that MemoryManager.createMemory of one    *)
(* memory may run while others do anything: on postgres it is a lookup of  *)
(* the id, a search for similar memories and an insertion, with awaits in  *)
(* between; on sqlite nothing can come in between.                         *)
(***************************************************************************)
EXTENDS Tables

CONSTANTS
    MaxCopies, \* bound: rows of one participant, memory, goal or relationship
    MaxFaults  \* bound: answers of postgres that are lost

AdaptersAssumption == TablesAssumption /\ MaxCopies \in Nat /\ MaxFaults \in Nat

----------------------------------------------------------------------------
(* PostgresDatabaseAdapter.  Foreign keys, primary keys and the pair of a  *)
(* participant are checked by the database.  Every method runs under       *)
(* withRetry: what it throws is tried again, and an error it catches       *)
(* itself is not.  A refusal is refused every time; but a statement whose  *)
(* answer is lost has been done, and is done again.                        *)

(* The statement when it is accepted, otherwise nothing. *)
If(accepted, db, then, answer) == IF accepted THEN Did(then, answer) ELSE Did(db, "throws")
Caught(did) == IF did.answer = "throws" THEN [did EXCEPT !.answer = "false"] ELSE did

(* withRetry when the answer of the first attempt is lost. *)
WithRetry(Op(_), db, lost) == IF lost THEN Op(Op(db).db) ELSE Op(db)

(* Methods with a try block of their own: a lost answer is false. *)
NoRetry(Op(_), db, lost) ==
    IF lost THEN Did(Op(db).db, "false") ELSE Caught(Op(db))

PgCreateAccount(db, u, lost) ==
    LET Op(d) == If(u \notin d.accounts, d, [d EXCEPT !.accounts = @ \cup {u}], "true")
    IN  NoRetry(Op, db, lost)

PgCreateRoom(db, r, lost) ==
    LET Op(d) == If(r \notin d.rooms, d, [d EXCEPT !.rooms = @ \cup {r}], "true")
    IN  WithRetry(Op, db, lost)

(* One transaction; a room that is missing is an error. *)
Emptied(d, r) ==
    [d EXCEPT !.memories = @ \ InRoom(d, r), !.goals = {row \in @ : Aim[row.goal].room # r},
              !.members = [k \in Pairs |-> IF k[2] = r THEN <<>> ELSE @[k]]]

PgRemoveRoom(db, r, lost) ==
    LET Op(d) == If(r \in d.rooms, d, [Emptied(d, r) EXCEPT !.rooms = @ \ {r}], "true")
    IN  WithRetry(Op, db, lost)

(* The UNIQUE constraint and the foreign keys. *)
Joins(d, u, r) == u \in d.accounts /\ r \in d.rooms /\ d.members[u, r] = <<>>

PgAddParticipant(db, u, r, lost) ==
    LET Op(d) == If(Joins(d, u, r), d, [d EXCEPT !.members[<<u, r>>] = <<"none">>], "true")
    IN  NoRetry(Op, db, lost)

PgRemoveParticipant(db, u, r, lost) ==
    LET Op(d) == Did([d EXCEPT !.members[<<u, r>>] = <<>>], "true")
    IN  NoRetry(Op, db, lost)

(* Mutant: the condition on the user is left out. *)
PgSetParticipantUserState_Room(db, u, r, s, lost) ==
    LET Op(d) == Did([d EXCEPT !.members = [k \in Pairs |->
                         IF k[2] = r THEN Repeat(s, Len(@[k])) ELSE @[k]]], "true")
    IN  WithRetry(Op, db, lost)
PgSetParticipantUserState(db, u, r, s, lost) ==
    LET Op(d) == Did([d EXCEPT !.members[<<u, r>>] = Repeat(s, Len(@))], "true")
    IN  WithRetry(Op, db, lost)

(* Only memories with an embedding are searched for, and only similar ones *)
(* are found: the embedding of the others is NULL.                         *)
PgIsUnique(db, m) == m \in Vectored => \A row \in db.memories : ~Similar(row.msg, m)

Known(d, place) == place.user \in d.accounts /\ place.room \in d.rooms

(* The retry searches again. *)
PgCreateMemory(db, m, unique, lost) ==
    LET taken(d) == m \in Named /\ Copies(d, m) # {}
        Insert(d, q) == If(Known(d, About[m]) /\ ~taken(d), d,
                           [d EXCEPT !.memories = @ \cup {MemoryRow(d, m, q)}], "true")
        once == Insert(db, unique)
    IN  IF lost THEN Insert(once.db, PgIsUnique(once.db, m)) ELSE once

PgRemoveMemory(db, m, lost) ==
    LET Op(d) == Did([d EXCEPT !.memories = @ \ {row \in Copies(d, m) : row.copy = 0}], "true")
    IN  WithRetry(Op, db, lost)

PgRemoveAllMemories(db, r, lost) ==
    LET Op(d) == Did([d EXCEPT !.memories = @ \ InRoom(d, r)], "true")
    IN  WithRetry(Op, db, lost)

(* The id is made in the operation: each attempt inserts another row. *)
PgCreateGoal(db, g, lost) ==
    LET Op(d) == If(Known(d, Aim[g]), d, [d EXCEPT !.goals = @ \cup {GoalRow(d, g)}], "true")
    IN  WithRetry(Op, db, lost)

PgUpdateGoalStatus(db, g, s, lost) ==
    LET Set(row) == IF row.goal = g /\ row.copy = 0 THEN [row EXCEPT !.status = s] ELSE row
        Op(d) == Did([d EXCEPT !.goals = {Set(row) : row \in @}], "true")
    IN  WithRetry(Op, db, lost)

PgRemoveGoal(db, g, lost) ==
    LET Op(d) == Did([d EXCEPT !.goals = @ \ {row \in Twins(d, g) : row.copy = 0}], "true")
    IN  WithRetry(Op, db, lost)

PgRemoveAllGoals(db, r, lost) ==
    LET Op(d) == Did([d EXCEPT !.goals = {row \in @ : Aim[row.goal].room # r}], "true")
    IN  WithRetry(Op, db, lost)

PgCreateRelationship(db, u, v, lost) ==
    LET Op(d) == If({u, v} \subseteq d.accounts, d, [d EXCEPT !.bonds[<<u, v>>] = @ + 1], "true")
    IN  NoRetry(Op, db, lost)

(* What the getters answer. *)
PgGetRoom(db, r) == r \in db.rooms
PgGetAccountById(db, u) == u \in db.accounts
PgGetParticipantsForRoom(db, r) == [u \in Users |-> Len(db.members[u, r])]
PgGetParticipantsForAccount(db, u) == [r \in Rooms |-> Len(db.members[u, r])]
PgGetRoomsForParticipants(db, S) == {r \in Rooms : \E u \in S : db.members[u, r] # <<>>}

(* One actor per row, empty if there is no account. *)
PgGetActorDetails(db, r) ==
    [u \in Users |-> [rows |-> Len(db.members[u, r]), known |-> u \in db.accounts]]

PgGetParticipantUserState(db, u, r) ==
    IF db.members[u, r] = <<>> THEN "none" ELSE Head(db.members[u, r])

PgGetMemoryById(db, m) == \E row \in Copies(db, m) : row.copy = 0
PgGetMemories(db, r, unique) == {row \in InRoom(db, r) : unique => row.unique}
PgGetMemoriesByRoomIds(db, R) == UNION {InRoom(db, r) : r \in R}
PgCountMemories(db, r, unique) == Cardinality(PgGetMemories(db, r, unique))

(* Those of the room above the threshold. *)
PgSearchMemories(db, m, unique) ==
    {row \in PgGetMemories(db, About[m].room, unique) : Similar(row.msg, m)}

PgGetGoals(db, r, inProgress) ==
    {row \in db.goals : Aim[row.goal].room = r /\ (inProgress => row.status = "IN_PROGRESS")}

PgGetRelationship(db, u, v) == db.bonds[u, v] + db.bonds[v, u] > 0
PgGetRelationships(db, u) ==
    [p \in {q \in DOMAIN db.bonds : u \in {q[1], q[2]}} |-> db.bonds[p]]

----------------------------------------------------------------------------
VARIABLES
    sq, pg,   \* the two databases
    creating, \* creating[m]: how far createMemory(m) is on postgres
    overlaps, \* pairs of memories that were created at the same time
    parted,   \* whether the two have answered a call differently
    faults

vars == <<sq, pg, creating, overlaps, parted, faults>>

SysInit ==
    /\ sq = Init /\ pg = Init
    /\ creating = [m \in Messages |-> "no"]
    /\ overlaps = {}
    /\ parted = FALSE
    /\ faults = 0

Lost(lost) == faults' = (IF lost THEN faults + 1 ELSE faults) /\ faults' <= MaxFaults

(* One call on both, which end in s and in p. *)
Both(s, p, strays) ==
    /\ sq' = s.db /\ pg' = p.db
    /\ parted' = (parted \/ s.answer # p.answer \/ strays)
    /\ UNCHANGED <<creating, overlaps>>

Pending(r) == \E m \in Messages : creating[m] # "no" /\ About[m].room = r
InUse(r) == InRoom(sq, r) # {} \/ (\E g \in sq.goals : Aim[g.goal].room = r)
            \/ \E u \in Users : sq.members[u, r] # <<>>

----------------------------------------------------------------------------
Accounts(lost) == \E u \in Users :
    Both(SqCreateAccount(sq, u), PgCreateAccount(pg, u, lost), FALSE)

(* createRoom and removeRoom. *)
OpenRoom(lost) == \E r \in Rooms :
    Both(SqCreateRoom(sq, r), PgCreateRoom(pg, r, lost), FALSE)
CloseRoom(lost) == \E r \in Rooms :
    Both(SqRemoveRoom(sq, r), PgRemoveRoom(pg, r, lost), InUse(r) \/ Pending(r))

Participants(lost) == \E u \in Users, r \in Rooms :
    \/ /\ Len(sq.members[u, r]) < MaxCopies
       /\ Both(SqAddParticipant(sq, u, r), PgAddParticipant(pg, u, r, lost), FALSE)
    \/ Both(SqRemoveParticipant(sq, u, r), PgRemoveParticipant(pg, u, r, lost), FALSE)
    \/ \E s \in States :
           Both(SqSetParticipantUserState(sq, u, r, s),
                PgSetParticipantUserState(pg, u, r, s, lost), FALSE)

Relations(lost) == \E u, v \in Users :
    /\ u # v /\ sq.bonds[u, v] < MaxCopies
    /\ Both(SqCreateRelationship(sq, u, v), PgCreateRelationship(pg, u, v, lost), FALSE)

(* createGoal, updateGoalStatus, removeGoal and removeAllGoals. *)
Planning(lost) ==
    \/ \E g \in Goals :
         \/ /\ Cardinality(Twins(sq, g)) < MaxCopies
            /\ Both(SqCreateGoal(sq, g), PgCreateGoal(pg, g, lost), lost)
         \/ \E s \in {"IN_PROGRESS", "DONE"} :
                Both(SqUpdateGoalStatus(sq, g, s), PgUpdateGoalStatus(pg, g, s, lost), FALSE)
         \/ Both(SqRemoveGoal(sq, g), PgRemoveGoal(pg, g, lost), FALSE)
    \/ \E r \in Rooms : Both(SqRemoveAllGoals(sq, r), PgRemoveAllGoals(pg, r, lost), FALSE)

Forget(lost) ==
    \/ \E m \in Named :
           Both(SqRemoveMemory(sq, m), PgRemoveMemory(pg, m, lost), creating[m] # "no")
    \/ \E r \in Rooms :
           Both(SqRemoveAllMemories(sq, r), PgRemoveAllMemories(pg, r, lost), Pending(r))

----------------------------------------------------------------------------
(* MemoryManager.createMemory: a memory whose id is taken is skipped. *)
Skips(get, m) == m \in Named /\ get

CreateMemory(m) ==
    /\ creating[m] = "no"
    /\ Cardinality(Copies(sq, m)) < MaxCopies
    /\ LET did == IF Skips(SqGetMemoryById(sq, m), m) THEN Did(sq, "true")
                  ELSE SqCreateMemory(sq, m, SqIsUnique(sq, m)) IN
           /\ sq' = did.db
           /\ parted' = (parted \/ did.answer = "throws")
    /\ creating' = [creating EXCEPT ![m] = IF Skips(PgGetMemoryById(pg, m), m)
                                           THEN "no" ELSE "looked"]
    /\ overlaps' = overlaps \cup {{m, n} : n \in {n \in Messages : creating[n] # "no"}}
    /\ UNCHANGED <<pg, faults>>

SearchSimilar(m) ==
    /\ creating[m] = "looked"
    /\ creating' = [creating EXCEPT ![m] = IF PgIsUnique(pg, m) THEN "unique" ELSE "copy"]
    /\ UNCHANGED <<sq, pg, overlaps, parted, faults>>

InsertMemory(m, lost) ==
    /\ creating[m] \in {"unique", "copy"}
    /\ LET did == PgCreateMemory(pg, m, creating[m] = "unique", lost) IN
           /\ pg' = did.db
           /\ parted' = (parted \/ lost \/ did.answer = "throws")
    /\ creating' = [creating EXCEPT ![m] = "no"]
    /\ UNCHANGED <<sq, overlaps>>

(* Databases that have parted are not compared any further. *)
SysNext == ~parted /\
    \/ \E m \in Messages : CreateMemory(m) \/ SearchSimilar(m)
    \/ \E lost \in BOOLEAN :
         /\ Lost(lost)
         /\ \/ Accounts(lost) \/ OpenRoom(lost) \/ CloseRoom(lost) \/ Participants(lost)
            \/ Relations(lost) \/ Planning(lost) \/ Forget(lost)
            \/ \E m \in Messages : InsertMemory(m, lost)

SysSpec == SysInit /\ [][SysNext]_vars

----------------------------------------------------------------------------
(* Types of the tables. *)
Database ==
    [accounts : SUBSET Users, rooms : SUBSET Rooms,
     members : [Pairs -> UNION {[1 .. n -> States] : n \in 0 .. MaxCopies}],
     memories : SUBSET [msg : Messages, copy : 0 .. MaxCopies, unique : BOOLEAN],
     goals : SUBSET [goal : Goals, copy : 0 .. MaxCopies, status : {"IN_PROGRESS", "DONE"}],
     bonds : [Users \X Users -> 0 .. MaxCopies]]

TypeOK ==
    /\ sq \in Database /\ pg \in Database
    /\ creating \in [Messages -> {"no", "looked", "unique", "copy"}]
    /\ parted \in BOOLEAN /\ faults \in 0 .. MaxFaults

(* Rows without their unique flag. *)
Rows(S) == {<<row.msg, row.copy>> : row \in S}

(* Replacing the database does not change what callers read, but for the   *)
(* flag of memories and the reach of a search, as long as no call was      *)
(* answered differently: that is, until a call is refused by one of them   *)
(* alone, an answer is lost, or a room is removed that is in use.          *)
AdaptersAgree ==
    parted \/
    /\ \A r \in Rooms :
         /\ SqGetRoom(sq, r) = PgGetRoom(pg, r)
         /\ SqGetParticipantsForRoom(sq, r) = PgGetParticipantsForRoom(pg, r)
         /\ SqGetActorDetails(sq, r) = PgGetActorDetails(pg, r)
         /\ \A b \in BOOLEAN : SqGetGoals(sq, r, b) = PgGetGoals(pg, r, b)
         /\ ~Pending(r) =>
              /\ Rows(SqGetMemories(sq, r, FALSE)) = Rows(PgGetMemories(pg, r, FALSE))
              /\ SqCountMemories(sq, r, FALSE) = PgCountMemories(pg, r, FALSE)
    /\ \A u \in Users :
         /\ SqGetAccountById(sq, u) = PgGetAccountById(pg, u)
         /\ SqGetParticipantsForAccount(sq, u) = PgGetParticipantsForAccount(pg, u)
         /\ SqGetRelationships(sq, u) = PgGetRelationships(pg, u)
         /\ \A v \in Users : /\ SqGetRelationship(sq, u, v) = PgGetRelationship(pg, u, v)
                             /\ SqGetRoomsForParticipants(sq, {u, v})
                                  = PgGetRoomsForParticipants(pg, {u, v})
         /\ \A r \in Rooms : SqGetParticipantUserState(sq, u, r)
                               = PgGetParticipantUserState(pg, u, r)
    /\ (\A r \in Rooms : ~Pending(r)) =>
         /\ \A R \in SUBSET Rooms : Rows(SqGetMemoriesByRoomIds(sq, R))
                                      = Rows(PgGetMemoriesByRoomIds(pg, R))
         /\ \A m \in Messages :
              /\ SqGetMemoryById(sq, m) = PgGetMemoryById(pg, m)
              /\ m \in Vectored /\ SqSearchable(sq, About[m].room) =>
                   Rows(PgSearchMemories(pg, m, FALSE)) \subseteq Rows(SqSearchMemories(sq, m, FALSE))

(* Two similar memories are never both marked unique on sqlite; and on     *)
(* postgres only if they were being created at the same time, between the  *)
(* search of one and the insertion of the other.                           *)
UniqueRowsDiffer ==
    /\ \A x, y \in sq.memories : x # y /\ x.unique /\ y.unique => ~Similar(x.msg, y.msg)
    /\ \A x, y \in pg.memories :
         x # y /\ x.unique /\ y.unique /\ Similar(x.msg, y.msg) => {x.msg, y.msg} \in overlaps

============================================================================
