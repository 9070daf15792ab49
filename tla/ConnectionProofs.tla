-------------------------- MODULE ConnectionProofs -------------------------
(* What holds of Connection for every set of agents, users and rooms, any  *)
(* number of concurrent calls, and either database.                        *)
EXTENDS MCConnection, QueueTheorems

(* The tasks that may be under way while a call is in state s.             *)
TasksOf(s) ==
    CASE s = "first" -> FirstHalf
      [] s = "second" -> SecondHalf
      [] s = "rejected" -> FirstHalf \cup SecondHalf
      [] s = "boot" -> BootTasks
      [] OTHER -> {}

RoomMade(r) == HasRoom(r) /\ (adapter = "postgres" => r \in rooms)

(* What a task has seen to when it is done.                                *)
Effects(c) ==
    /\ task[c]["agentUser"] = "done" => HasAccount(call[c].agent)
    /\ task[c]["user"] = "done" => HasAccount(call[c].user)
    /\ task[c]["room"] = "done" => RoomMade(Room(c))
    /\ task[c]["agentIn"] = "done" => IsMember(call[c].agent, call[c].room)
    /\ task[c]["userIn"] = "done" => IsMember(call[c].user, call[c].room)

(* What the first half of ensureConnection leaves to the second.           *)
HalfConnected(c) ==
    /\ HasAccount(call[c].agent) /\ HasAccount(call[c].user)
    /\ RoomMade(call[c].room)

Member(c) ==
    /\ HalfConnected(c)
    /\ IsMember(call[c].agent, call[c].room) /\ IsMember(call[c].user, call[c].room)

(* A call in its second half, or one rejected there whose tasks run on.    *)
Halfway(c) ==
    call[c].state = "second" \/ \E t \in SecondHalf : task[c][t] # "none"

CallOK(c) ==
    /\ \A t \in Tasks \ TasksOf(call[c].state) : task[c][t] = "none"
    /\ Effects(c)
    /\ call[c].state \in {"first", "second"} => call[c].room \in ChatRooms
    /\ call[c].state = "boot" => call[c].room \notin ChatRooms
    /\ Halfway(c) => HalfConnected(c)
    /\ Connected(c) /\ call[c].room \in ChatRooms => Member(c)

Inv ==
    /\ TypeOK
    /\ \A c \in Calls : CallOK(c)
    /\ ParticipantsResolve
    /\ PostgresRowsValid

(* The names of the tasks.                                                 *)
LEMMA TaskNames ==
    /\ FirstHalf = {"agentUser", "user", "room"}
    /\ SecondHalf = {"agentIn", "userIn"}
    /\ BootTasks = {"room", "agentUser", "ownIn"}
    /\ Tasks = {"agentUser", "user", "room", "agentIn", "userIn", "ownIn"}
    /\ TaskStates = {"none", "read", "write", "done", "failed"}
    /\ CallStates = {"idle", "first", "second", "boot", "connected", "rejected"}
  BY DEF FirstHalf, SecondHalf, BootTasks, Tasks, TaskStates, CallStates

LEMMA SomeAgentType == SomeAgent \in Agents
  BY ConnectionAssumption DEF SomeAgent

(* The account and the room of a task have rows to be looked for.          *)
LEMMA IdTypes ==
    ASSUME TypeOK, NEW c \in Calls, NEW t \in Tasks
    PROVE  Account(c, t) \in Accounts /\ Room(c) \in Rooms
  BY DEF TypeOK, Account, Room, Accounts, Rooms

LEMMA InitInv == Init => Inv
  <1> SUFFICES ASSUME Init PROVE Inv
    OBVIOUS
  <1>1. TypeOK
    BY SomeAgentType, ConnectionAssumption, TaskNames
       DEF Init, TypeOK, Blank, Idle, Accounts, Rooms
  <1>2. ASSUME NEW c \in Calls PROVE CallOK(c)
    BY TaskNames, SomeAgentType, ConnectionAssumption
       DEF Init, CallOK, Effects, TasksOf, Blank, Idle, Connected, Halfway
  <1>3. \A u \in Accounts, r \in Rooms : participants[<<u, r>>] = 0
    BY DEF Init
  <1>4. ParticipantsResolve /\ PostgresRowsValid
    BY <1>3 DEF ParticipantsResolve, PostgresRowsValid, Rooms
  <1> QED BY <1>1, <1>2, <1>4 DEF Inv

(* A step of call c that deletes no row disturbs no other call.            *)
LEMMA Frame ==
    ASSUME Inv, NEW c \in Calls, TypeOK', CallOK(c)',
           ParticipantsResolve', PostgresRowsValid',
           \A d \in Calls \ {c} : call'[d] = call[d] /\ task'[d] = task[d],
           accounts \subseteq accounts', rooms \subseteq rooms', lost \subseteq lost',
           adapter' = adapter,
           \A k \in Accounts \X Rooms : participants[k] > 0 => participants'[k] > 0
    PROVE  Inv'
  <1> SUFFICES ASSUME NEW d \in Calls \ {c} PROVE CallOK(d)'
    BY DEF Inv
  <1>1. CallOK(d) /\ TypeOK
    BY DEF Inv
  <1>2. /\ <<call[d].agent, call[d].room>> \in Accounts \X Rooms
        /\ <<call[d].user, call[d].room>> \in Accounts \X Rooms
    BY <1>1 DEF TypeOK, Accounts, Rooms
  <1>3. /\ \A u : HasAccount(u) => HasAccount(u)'
        /\ \A r : RoomMade(r) => RoomMade(r)'
        /\ \A u, r : IsMember(u, r) /\ <<u, r>> \in Accounts \X Rooms => IsMember(u, r)'
    BY DEF HasAccount, HasRoom, RoomMade, IsMember
  <1> QED BY <1>1, <1>2, <1>3
          DEF CallOK, Effects, Halfway, HalfConnected, Member, Connected, Room

(* A call that starts has done nothing yet.                                *)
LEMMA StartPreservesInv ==
    ASSUME Inv, NEW c \in Calls, NEW a \in Agents, NEW u \in Accounts, NEW r \in ChatRooms,
           EnsureConnection(c, a, u, r)
    PROVE  Inv'
  <1> USE TaskNames DEF Inv
  <1>1. /\ call[c].state = "idle"
        /\ UNCHANGED <<accounts, rooms, participants, faults, lost, adapter>>
        /\ \A d \in Calls \ {c} : call'[d] = call[d] /\ task'[d] = task[d]
    BY DEF EnsureConnection, TypeOK
  <1>2. ParticipantsResolve' /\ PostgresRowsValid'
    BY <1>1 DEF ParticipantsResolve, PostgresRowsValid, HasAccount, HasRoom
  <1>3. /\ call'[c] = [state |-> "first", agent |-> a, user |-> u, room |-> r]
        /\ task'[c] = Start(FirstHalf)
    BY DEF EnsureConnection, TypeOK
  <1>4. TypeOK'
    BY <1>1 DEF EnsureConnection, TypeOK, Start, Rooms, Accounts
  <1>5. CallOK(c)'
    BY <1>3 DEF CallOK, Effects, TasksOf, Start, Connected, Halfway
  <1> QED BY <1>1, <1>2, <1>4, <1>5, Frame

LEMMA ConstructPreservesInv ==
    ASSUME Inv, NEW c \in Calls, NEW a \in Agents, ConstructRuntime(c, a)
    PROVE  Inv'
  <1> USE TaskNames DEF Inv
  <1>1. /\ call[c].state = "idle"
        /\ UNCHANGED <<accounts, rooms, participants, faults, lost, adapter>>
        /\ \A d \in Calls \ {c} : call'[d] = call[d] /\ task'[d] = task[d]
    BY DEF ConstructRuntime, TypeOK
  <1>2. ParticipantsResolve' /\ PostgresRowsValid'
    BY <1>1 DEF ParticipantsResolve, PostgresRowsValid, HasAccount, HasRoom
  <1>3. /\ call'[c] = [state |-> "boot", agent |-> a, user |-> a, room |-> a]
        /\ task'[c] = Start(BootTasks)
    BY DEF ConstructRuntime, TypeOK
  <1>4. TypeOK'
    BY <1>1, ConnectionAssumption DEF ConstructRuntime, TypeOK, Start, Rooms, Accounts
  <1>5. CallOK(c)'
    BY <1>3, ConnectionAssumption DEF CallOK, Effects, TasksOf, Start, Connected, Halfway
  <1> QED BY <1>1, <1>2, <1>4, <1>5, Frame

(* A task finds its row, and then it is there; or it goes on to write it.  *)
LEMMA CheckPreservesInv ==
    ASSUME Inv, NEW c \in Calls, NEW t \in Tasks, Check(c, t)
    PROVE  Inv'
  <1> USE TaskNames DEF Inv
  <1>1. /\ UNCHANGED <<accounts, rooms, participants, call, boots, faults, lost, adapter>>
        /\ task[c][t] = "read"
        /\ task' = [task EXCEPT ![c][t] = IF Present(c, t) THEN "done" ELSE "write"]
    BY DEF Check, SetTask
  <1>2. ParticipantsResolve' /\ PostgresRowsValid'
    BY <1>1 DEF ParticipantsResolve, PostgresRowsValid, HasAccount, HasRoom
  <1>3. TypeOK'
    BY <1>1 DEF TypeOK
  <1>4. /\ task'[c][t] = "done" => Present(c, t)
        /\ \A s \in Tasks \ {t} : task'[c][s] = task[c][s]
        /\ \A d \in Calls \ {c} : task'[d] = task[d]
    BY <1>1 DEF TypeOK
  <1>5. CallOK(c)
    OBVIOUS
  <1>6. t \in {"agentIn", "userIn"} => Room(c) = call[c].room
    BY <1>1, <1>5 DEF CallOK, TasksOf, TypeOK, Room
  <1>7. task'[c][t] = "done" =>
            /\ t \in {"agentUser", "user"} => HasAccount(Account(c, t))
            /\ t = "room" => RoomMade(Room(c))
            /\ t \in {"agentIn", "userIn"} => IsMember(Account(c, t), Room(c))
    BY <1>4 DEF Present, Participates, HasAccount, HasRoom, RoomMade, IsMember
  <1>8. /\ \A u : HasAccount(u)' = HasAccount(u)
        /\ \A r : RoomMade(r)' = RoomMade(r)
        /\ \A u, r : IsMember(u, r)' = IsMember(u, r)
    BY <1>1 DEF HasAccount, HasRoom, RoomMade, IsMember
  <1>9. Effects(c)'
    <2>1. CallOK(c)!2
      BY <1>5 DEF CallOK
    <2> QED BY <1>1, <1>4, <1>6, <1>7, <1>8, <2>1 DEF Effects, Account, Room
  <1>10. Halfway(c)' => Halfway(c)
    BY <1>1, <1>4 DEF Halfway
  <1>11. CallOK(c)'
    BY <1>1, <1>4, <1>5, <1>8, <1>9, <1>10 DEF CallOK, HalfConnected, Member, Connected
  <1> QED BY <1>1, <1>2, <1>3, <1>4, <1>11, Frame

(* createAccount and createRoom leave the row in the table, whether it was *)
(* there before or not.                                                    *)
LEMMA InsertPreservesInv ==
    ASSUME Inv, NEW c \in Calls, NEW t \in Tasks,
           InsertAccount(c, t) \/ InsertRoom(c)
    PROVE  Inv'
  <1> USE TaskNames DEF Inv
  <1>1. /\ UNCHANGED <<participants, call, boots, faults, lost, adapter>>
        /\ accounts \subseteq accounts' /\ rooms \subseteq rooms'
        /\ \A d \in Calls \ {c} : task'[d] = task[d]
    BY DEF InsertAccount, InsertRoom, SetTask, TypeOK
  <1>2. ParticipantsResolve' /\ PostgresRowsValid'
    BY <1>1 DEF ParticipantsResolve, PostgresRowsValid, HasAccount, HasRoom
  <1>3. CallOK(c)
    OBVIOUS
  <1>4. /\ \A u : HasAccount(u) => HasAccount(u)'
        /\ \A r : RoomMade(r) => RoomMade(r)'
        /\ \A u, r : IsMember(u, r) => IsMember(u, r)'
    BY <1>1 DEF HasAccount, HasRoom, RoomMade, IsMember
  <1>5. CASE InsertAccount(c, t)
    <2>1. /\ t \in {"agentUser", "user"} /\ task[c][t] = "write"
          /\ task' = [task EXCEPT ![c][t] = "done"]
          /\ accounts' = accounts \cup {Account(c, t)} /\ UNCHANGED rooms
      BY <1>5 DEF InsertAccount, SetTask
    <2>2. TypeOK'
      BY <1>1, <2>1, IdTypes DEF TypeOK
    <2>3. task'[c][t] = "done" /\ \A s \in Tasks \ {t} : task'[c][s] = task[c][s]
      BY <2>1 DEF TypeOK
    <2>4. (t = "agentUser" => HasAccount(call[c].agent)') /\ (t = "user" => HasAccount(call[c].user)')
      BY <1>1, <2>1 DEF HasAccount, Account
    <2>5. Effects(c)'
      BY <1>1, <1>3, <1>4, <2>1, <2>3, <2>4 DEF CallOK, Effects, Account, Room
    <2>6. Halfway(c)' => Halfway(c)
      BY <1>1, <2>1, <2>3 DEF Halfway
    <2>7. CallOK(c)'
      BY <1>1, <1>3, <1>4, <2>1, <2>3, <2>5, <2>6
         DEF CallOK, HalfConnected, Member, Connected
    <2> QED BY <1>1, <1>2, <2>2, <2>7, Frame
  <1>6. CASE InsertRoom(c)
    <2>1. /\ task[c]["room"] = "write"
          /\ rooms' = rooms \cup {Room(c)} /\ UNCHANGED accounts
      BY <1>6 DEF InsertRoom
    <2>2. PICK s \in TaskStates \ {"none"} : task' = [task EXCEPT ![c]["room"] = s]
      BY <1>6 DEF InsertRoom, SetTask
    <2>3. TypeOK'
      BY <1>1, <2>1, <2>2, IdTypes DEF TypeOK
    <2>4. \A q \in Tasks \ {"room"} : task'[c][q] = task[c][q]
      BY <2>2 DEF TypeOK
    <2>5. RoomMade(Room(c))'
      BY <1>1, <2>1 DEF RoomMade, HasRoom, Room
    <2>6. Effects(c)'
      BY <1>1, <1>3, <1>4, <2>4, <2>5 DEF CallOK, Effects, Room
    <2>7. Halfway(c)' => Halfway(c)
      BY <1>1, <2>4 DEF Halfway
    <2>8. "room" \in TasksOf(call[c].state)
      BY <1>3, <2>1 DEF CallOK
    <2>9. CallOK(c)'
      BY <1>1, <1>3, <1>4, <2>4, <2>6, <2>7, <2>8
         DEF CallOK, HalfConnected, Member, Connected
    <2> QED BY <1>1, <1>2, <2>3, <2>9, Frame
  <1> QED BY <1>5, <1>6

(* A statement that fails leaves the tables alone: its row is among the    *)
(* lost ones, or its task fails and the call does not get further.         *)
LEMMA FaultPreservesInv ==
    ASSUME Inv, NEW c \in Calls, NEW t \in Tasks,
           QueryFails(c, t) \/ InsertFails(c, t)
    PROVE  Inv'
  <1> USE TaskNames DEF Inv
  <1>1. /\ UNCHANGED <<accounts, rooms, participants, call, boots, adapter>>
        /\ task[c][t] \in {"read", "write"}
        /\ lost \subseteq lost'
        /\ faults < MaxFaults /\ faults' = faults + 1
    BY DEF QueryFails, InsertFails
  <1>2. PICK s \in {"failed", "done"} :
            /\ task' = [task EXCEPT ![c][t] = s]
            /\ s = "done" => ~Thrown(t) /\ lost' = lost \cup {Row(c, t)}
            /\ s = "failed" => lost' = lost
    BY DEF QueryFails, InsertFails, SetTask
  <1>3. /\ task'[c][t] = s
        /\ \A q \in Tasks \ {t} : task'[c][q] = task[c][q]
        /\ \A d \in Calls \ {c} : task'[d] = task[d]
    BY <1>2 DEF TypeOK
  <1>4. CallOK(c)
    OBVIOUS
  <1>5. Row(c, t) \in ({"account"} \X Accounts) \cup ({"room"} \X Rooms)
                          \cup ({"participant"} \X Accounts \X Rooms)
    BY IdTypes DEF Row
  <1>6. TypeOK'
    <2>1. lost' \subseteq ({"account"} \X Accounts) \cup ({"room"} \X Rooms)
                             \cup ({"participant"} \X Accounts \X Rooms)
      BY <1>2, <1>5 DEF TypeOK
    <2>2. faults' \in 0 .. MaxFaults
      BY <1>1, ConnectionAssumption DEF TypeOK
    <2> QED BY <1>1, <1>2, <2>1, <2>2 DEF TypeOK
  <1>7. /\ \A u : HasAccount(u) => HasAccount(u)'
        /\ \A r : RoomMade(r) => RoomMade(r)'
        /\ \A u, r : IsMember(u, r) => IsMember(u, r)'
    BY <1>1 DEF HasAccount, HasRoom, RoomMade, IsMember
  <1>8. ParticipantsResolve' /\ PostgresRowsValid'
    BY <1>1 DEF ParticipantsResolve, PostgresRowsValid, HasAccount, HasRoom
  <1>9. t \in {"agentIn", "userIn"} => Room(c) = call[c].room
    BY <1>1, <1>4 DEF CallOK, TasksOf, TypeOK, Room
  <1>10. s = "done" =>
            /\ t \in {"agentUser", "user"} => HasAccount(Account(c, t))'
            /\ t = "room" => RoomMade(Room(c))'
            /\ t \in {"agentIn", "userIn"} => IsMember(Account(c, t), Room(c))'
    BY <1>1, <1>2 DEF Row, Thrown, HasAccount, HasRoom, RoomMade, IsMember, Account, Room
  <1>11. Effects(c)'
    BY <1>1, <1>3, <1>4, <1>7, <1>9, <1>10 DEF CallOK, Effects, Account, Room
  <1>12. Halfway(c)' => Halfway(c)
    BY <1>1, <1>3 DEF Halfway
  <1>13. t \in TasksOf(call[c].state)
    BY <1>1, <1>4 DEF CallOK
  <1>14. CallOK(c)'
    BY <1>1, <1>3, <1>4, <1>7, <1>11, <1>12, <1>13
       DEF CallOK, HalfConnected, Member, Connected
  <1> QED BY <1>1, <1>3, <1>6, <1>8, <1>14, Frame

(* A row that postgres accepts keeps its rules.                            *)
LEMMA RowStaysValid ==
    ASSUME PostgresRowsValid, UNCHANGED <<accounts, rooms, adapter>>,
           participants \in [Accounts \X Rooms -> Nat],
           NEW u \in Accounts, NEW r \in Rooms, Accepted(u, r),
           participants' = [participants EXCEPT ![<<u, r>>] = @ + 1]
    PROVE  PostgresRowsValid'
  <1>1. /\ participants'[<<u, r>>] = participants[<<u, r>>] + 1
        /\ \A j \in (Accounts \X Rooms) \ {<<u, r>>} : participants'[j] = participants[j]
    OBVIOUS
  <1>2. adapter = "postgres" => participants[<<u, r>>] = 0 /\ u \in accounts /\ r \in rooms
    BY DEF Accepted
  <1> QED BY <1>1, <1>2 DEF PostgresRowsValid

(* addParticipant only runs when the rows it refers to are there, or for   *)
(* an agent's own room.                                                    *)
LEMMA AddParticipantPreservesInv ==
    ASSUME Inv, NEW c \in Calls, NEW t \in Tasks, AddParticipant(c, t)
    PROVE  Inv'
  <1> USE TaskNames DEF Inv
  <1> DEFINE k == <<Account(c, t), Room(c)>>
  <1>1. /\ UNCHANGED <<accounts, rooms, call, boots, faults, lost, adapter>>
        /\ t \in {"agentIn", "userIn", "ownIn"} /\ task[c][t] = "write"
        /\ task' = [task EXCEPT ![c][t] = "done"]
        /\ participants' = IF Accepted(k[1], k[2])
                           THEN [participants EXCEPT ![k] = @ + 1]
                           ELSE participants
    BY DEF AddParticipant, SetTask
  <1>2. k \in Accounts \X Rooms /\ CallOK(c)
    BY IdTypes
  <1>3. TypeOK'
    BY <1>1, <1>2 DEF TypeOK
  <1>4. /\ task'[c][t] = "done"
        /\ \A s \in Tasks \ {t} : task'[c][s] = task[c][s]
        /\ \A d \in Calls \ {c} : task'[d] = task[d]
        /\ \A j \in (Accounts \X Rooms) \ {k} : participants'[j] = participants[j]
        /\ participants'[k] >= participants[k]
        /\ Accepted(k[1], k[2]) => participants'[k] = participants[k] + 1
        /\ ~Accepted(k[1], k[2]) => participants'[k] = participants[k]
    BY <1>1, <1>2 DEF TypeOK
  <1>5. /\ t \in {"agentIn", "userIn"} => Halfway(c) /\ Room(c) = call[c].room
        /\ t = "ownIn" => call[c].state = "boot" /\ Room(c) \notin ChatRooms
    BY <1>1, <1>2, ConnectionAssumption DEF CallOK, TasksOf, TypeOK, Halfway, Room
  <1>6. t \in {"agentIn", "userIn"} => HasAccount(Account(c, t)) /\ RoomMade(Room(c))
    BY <1>2, <1>5 DEF CallOK, HalfConnected, Account
  <1>7. participants[k] \in Nat
    BY <1>2 DEF TypeOK
  <1>8. ParticipantsResolve'
    <2> SUFFICES ASSUME NEW u \in Accounts, NEW r \in ChatRooms,
                        participants'[<<u, r>>] > 0
                 PROVE  HasAccount(u) /\ HasRoom(r)
      BY <1>1 DEF ParticipantsResolve, HasAccount, HasRoom
    <2>1. CASE <<u, r>> = k
      BY <2>1, <1>1, <1>5, <1>6 DEF RoomMade
    <2>2. CASE <<u, r>> # k
      BY <2>2, <1>4 DEF ParticipantsResolve, Rooms
    <2> QED BY <2>1, <2>2
  <1>9. PostgresRowsValid'
    <2>1. CASE Accepted(k[1], k[2])
      BY <2>1, <1>1, <1>2, IdTypes, RowStaysValid DEF TypeOK
    <2>2. CASE ~Accepted(k[1], k[2])
      <3>1. adapter' = adapter /\ accounts' = accounts /\ rooms' = rooms
        BY <1>1
      <3>2. participants' = participants
        BY <2>2, <1>1
      <3> QED BY <3>1, <3>2 DEF PostgresRowsValid
    <2> QED BY <2>1, <2>2
  <1>10. ASSUME t \in {"agentIn", "userIn"} PROVE IsMember(Account(c, t), Room(c))'
    <2> DEFINE u == Account(c, t)  r == Room(c)
    <2>1. HasAccount(u) /\ (adapter = "postgres" => r \in rooms)
      BY <1>10, <1>6 DEF RoomMade
    <2>2. u' = u /\ r' = r /\ adapter' = adapter /\ lost' = lost /\ k = <<u, r>>
      BY <1>1 DEF Account, Room
    <2>3. CASE participants'[k] > 0
      BY <2>2, <2>3 DEF IsMember
    <2>4. CASE ~Accepted(u, r) /\ participants[k] = 0
      <3>1. adapter = "postgres" /\ <<"account", u>> \in lost
        BY <2>1, <2>4 DEF Accepted, HasAccount
      <3> QED BY <3>1, <2>2 DEF IsMember
    <2> QED BY <2>3, <2>4, <1>4, <1>7
  <1>11. \A j \in Accounts \X Rooms : participants[j] > 0 => participants'[j] > 0
    BY <1>4, <1>7
  <1>12. /\ <<call[c].agent, call[c].room>> \in Accounts \X Rooms
         /\ <<call[c].user, call[c].room>> \in Accounts \X Rooms
    BY DEF TypeOK, Accounts, Rooms
  <1>13. /\ \A u : HasAccount(u)' = HasAccount(u)
         /\ \A r : RoomMade(r)' = RoomMade(r)
         /\ \A u \in Accounts, r \in Rooms : IsMember(u, r) => IsMember(u, r)'
    BY <1>1, <1>11 DEF HasAccount, HasRoom, RoomMade, IsMember
  <1>14. Effects(c)'
    <2>1. call[c].agent \in Accounts /\ call[c].user \in Accounts /\ call[c].room \in Rooms
      BY DEF TypeOK, Accounts
    <2>2. CASE t = "ownIn"
      BY <2>1, <2>2, <1>1, <1>2, <1>4, <1>13 DEF CallOK, Effects, Room
    <2>3. CASE t \in {"agentIn", "userIn"}
      BY <2>1, <2>3, <1>1, <1>2, <1>4, <1>5, <1>10, <1>13
         DEF CallOK, Effects, Account, Room
    <2> QED BY <1>1, <2>2, <2>3
  <1>15. Halfway(c)' => Halfway(c)
    BY <1>1, <1>4 DEF Halfway
  <1>16. t \in TasksOf(call[c].state)
    BY <1>1, <1>2 DEF CallOK
  <1>17. CallOK(c)'
    <2>1. call[c].agent \in Accounts /\ call[c].user \in Accounts /\ call[c].room \in Rooms
      BY DEF TypeOK, Accounts
    <2> QED BY <2>1, <1>1, <1>2, <1>4, <1>13, <1>14, <1>15, <1>16
            DEF CallOK, HalfConnected, Member, Connected
  <1> QED BY <1>1, <1>3, <1>4, <1>8, <1>9, <1>11, <1>17, Frame

(* The two Promise.all: the second half starts from what the first has     *)
(* done, and the call is connected by what the second has done.            *)
LEMMA MovePreservesInv ==
    ASSUME Inv, NEW c \in Calls,
           StartSecondHalf(c) \/ Finish(c) \/ Reject(c) \/ Return(c)
    PROVE  Inv'
  <1> USE TaskNames DEF Inv
  <1>1. /\ UNCHANGED <<accounts, rooms, participants, boots, faults, lost, adapter>>
        /\ \A d \in Calls \ {c} : call'[d] = call[d] /\ task'[d] = task[d]
    BY DEF StartSecondHalf, Finish, Reject, Return, TypeOK
  <1>2. ParticipantsResolve' /\ PostgresRowsValid'
    BY <1>1 DEF ParticipantsResolve, PostgresRowsValid, HasAccount, HasRoom
  <1>3. /\ CallOK(c)
        /\ \A u : HasAccount(u)' = HasAccount(u)
        /\ \A r : RoomMade(r)' = RoomMade(r)
        /\ \A u, r : IsMember(u, r)' = IsMember(u, r)
    BY <1>1 DEF HasAccount, HasRoom, RoomMade, IsMember
  <1>4. CASE StartSecondHalf(c)
    <2>1. /\ call[c].state = "first" /\ Joined(c)
          /\ call' = [call EXCEPT ![c].state = "second"]
          /\ task' = [task EXCEPT ![c] = Start(SecondHalf)]
      BY <1>4 DEF StartSecondHalf
    <2>2. TypeOK'
      BY <1>1, <2>1 DEF TypeOK, Start
    <2>3. /\ call'[c] = [call[c] EXCEPT !.state = "second"]
          /\ task'[c] = Start(SecondHalf)
      BY <2>1 DEF TypeOK
    <2>4. HalfConnected(c)
      BY <1>3, <2>1 DEF CallOK, Effects, Joined, AllDone, HalfConnected, Room
    <2>5. CallOK(c)'
      BY <1>1, <1>3, <2>1, <2>2, <2>3, <2>4
         DEF CallOK, Effects, TasksOf, Start, HalfConnected, Connected, Halfway, TypeOK
    <2> QED BY <1>1, <1>2, <2>2, <2>5, Frame
  <1>5. CASE Finish(c)
    <2>1. /\ call' = [call EXCEPT ![c].state = "connected"]
          /\ task' = [task EXCEPT ![c] = Idle]
          /\ \/ call[c].state = "second" /\ AllDone(c, SecondHalf)
             \/ call[c].state = "boot"
      BY <1>5 DEF Finish
    <2>2. TypeOK'
      BY <1>1, <2>1 DEF TypeOK, Idle
    <2>3. /\ call'[c] = [call[c] EXCEPT !.state = "connected"]
          /\ task'[c] = Idle
      BY <2>1 DEF TypeOK
    <2>4. call[c].room \in ChatRooms => Member(c)
      BY <1>3, <2>1, ConnectionAssumption DEF CallOK, Effects, AllDone, Member, Halfway
    <2>5. CallOK(c)'
      BY <1>1, <1>3, <2>2, <2>3, <2>4
         DEF CallOK, Effects, TasksOf, Idle, HalfConnected, Member, Connected, Halfway, TypeOK
    <2> QED BY <1>1, <1>2, <2>2, <2>5, Frame
  <1>6. CASE Reject(c)
    <2>1. /\ call' = [call EXCEPT ![c].state = "rejected"]
          /\ call[c].state \in {"first", "second", "boot"}
          /\ call[c].state = "boot" => task' = [task EXCEPT ![c] = Idle]
          /\ call[c].state # "boot" => task' = task
      BY <1>6 DEF Reject
    <2>2. TypeOK'
      BY <1>1, <2>1 DEF TypeOK, Idle
    <2>3. /\ call'[c] = [call[c] EXCEPT !.state = "rejected"]
          /\ call[c].state = "boot" => task'[c] = Idle
          /\ call[c].state # "boot" => task'[c] = task[c]
      BY <2>1 DEF TypeOK
    <2>4. ASSUME call[c].state # "boot" PROVE CallOK(c)'
      <3>1. /\ call'[c].agent = call[c].agent /\ call'[c].user = call[c].user
            /\ call'[c].room = call[c].room /\ Room(c)' = Room(c)
            /\ Halfway(c)' => Halfway(c)
        BY <1>1, <2>3, <2>4 DEF TypeOK, Room, Halfway
      <3> QED BY <1>1, <1>3, <2>1, <2>2, <2>3, <2>4, <3>1
              DEF CallOK, Effects, TasksOf, HalfConnected, Connected, TypeOK
    <2>5. ASSUME call[c].state = "boot" PROVE CallOK(c)'
      BY <1>1, <2>1, <2>2, <2>3, <2>5
         DEF CallOK, Effects, TasksOf, Idle, Connected, Halfway, TypeOK
    <2> QED BY <1>1, <1>2, <2>1, <2>2, <2>4, <2>5, Frame
  <1>7. CASE Return(c)
    <2>1. call' = [call EXCEPT ![c] = Blank] /\ task' = [task EXCEPT ![c] = Idle]
      BY <1>7 DEF Return
    <2>2. TypeOK'
      BY <1>1, <2>1, SomeAgentType DEF TypeOK, Idle, Blank, Accounts, Rooms
    <2>3. call'[c] = Blank /\ task'[c] = Idle
      BY <2>1 DEF TypeOK
    <2>4. CallOK(c)'
      BY <2>3 DEF CallOK, Effects, TasksOf, Idle, Blank, Connected, Halfway
    <2> QED BY <1>1, <1>2, <2>2, <2>4, Frame
  <1> QED BY <1>4, <1>5, <1>6, <1>7

LEMMA NextInv == Inv /\ [Next]_vars => Inv'
  <1> SUFFICES ASSUME Inv, [Next]_vars PROVE Inv'
    OBVIOUS
  <1>1. CASE UNCHANGED vars
    <2>1. /\ UNCHANGED <<accounts, rooms, participants, call, task>>
          /\ UNCHANGED <<boots, faults, lost, adapter>>
      BY <1>1 DEF vars
    <2>2. TypeOK' /\ ParticipantsResolve' /\ PostgresRowsValid'
      BY <2>1 DEF Inv, TypeOK, ParticipantsResolve, PostgresRowsValid, HasAccount, HasRoom
    <2>3. ASSUME NEW c \in Calls PROVE CallOK(c)'
      BY <2>1 DEF Inv, CallOK, Effects, HalfConnected, Member, Halfway, Connected,
         Room, RoomMade, HasAccount, HasRoom, IsMember
    <2> QED BY <2>2, <2>3 DEF Inv
  <1>2. ASSUME NEW c \in Calls, TaskStep(c) PROVE Inv'
    <2>1. "room" \in Tasks
      BY TaskNames
    <2> QED BY <1>2, <2>1, CheckPreservesInv, InsertPreservesInv,
            AddParticipantPreservesInv, FaultPreservesInv DEF TaskStep
  <1>3. ASSUME NEW c \in Calls, NEW a \in Agents, ConstructRuntime(c, a) PROVE Inv'
    BY <1>3, ConstructPreservesInv
  <1> QED BY <1>1, <1>2, <1>3, StartPreservesInv, MovePreservesInv DEF Next

LEMMA SpecInv == Spec => []Inv
  BY InitInv, NextInv, PTL DEF Spec

----------------------------------------------------------------------------
(* The tables and the calls in flight keep their types.                    *)
THEOREM TypeCorrect == Spec => []TypeOK
  BY SpecInv, PTL DEF Inv

(* When ensureConnection returns, the author, the room and the agent of    *)
(* the message have their rows, and both are members of the room: for any  *)
(* number of calls that look for and create the same rows at once.         *)
THEOREM ConnectedCallsHaveRows == Spec => []ConnectedMembers
  <1>1. Inv => ConnectedMembers
    BY DEF Inv, CallOK, Member, HalfConnected, RoomMade, ConnectedMembers
  <1> QED BY <1>1, SpecInv, PTL

(* No row of participants in a chat room refers to an account or to a room *)
(* without a row, on sqlite as on postgres.                                *)
THEOREM RowsResolve == Spec => []ParticipantsResolve
  BY SpecInv, PTL DEF Inv

(* On postgres an account is in a room at most once, in the agent's own    *)
(* room too, and every row refers to rows that exist.                      *)
THEOREM PostgresRowsStayValid == Spec => []PostgresRowsValid
  BY SpecInv, PTL DEF Inv

----------------------------------------------------------------------------
(* Trust.  The tables stay as the first process made them, empty, since    *)
(* nothing the market is asked for comes: the cache that is looked in is   *)
(* never filled, and a promise of its entry is taken for it.               *)
EmptyTables ==
    [schema : BOOLEAN, keys : BOOLEAN, recommenders : {{}}, metrics : {{}},
     performance : {{}}, trades : {{}}, recommendations : {{}}, transactions : {{}}]

Unfilled == {k \in Tr!Kinds : k # "search"}

TrustInv ==
    /\ trDb \in EmptyTables /\ trAlive \in BOOLEAN /\ trAsked \subseteq Tr!Kinds
    /\ trCache \in [Tr!Kinds -> {"null", "data", "empty"}]
    /\ \A k \in Unfilled : trCache[k] = "null"

(* What is asked of the market while the cache is not filled. *)
LEMMA NothingIsAnswered ==
    ASSUME TrustInv
    PROVE  /\ Tr!CalculateBuyAmounts = {"fails"}
           /\ Tr!GetProcessedTokenData \subseteq {"fails"}
           /\ Tr!ShouldTradeToken \subseteq {"fails", "no"}
  <1>1. /\ trCache.security = "null" /\ trCache.codex = "null" /\ trCache.prices = "null"
    BY DEF TrustInv, Unfilled, Tr!Kinds
  <1>2. /\ Tr!FetchTokenSecurity = {"null"} /\ Tr!FetchTokenCodex = {"null"}
        /\ Tr!FetchPrices = {"null"}
    BY <1>1 DEF Tr!FetchTokenSecurity, Tr!FetchTokenCodex, Tr!FetchPrices, Tr!Cached, Tr!Seen
  <1>3. Tr!Needed({"null"}) = {"fails"}
    BY DEF Tr!Needed
  <1>4. Tr!CalculateBuyAmounts = {"fails"}
    BY <1>2, <1>3 DEF Tr!CalculateBuyAmounts
  <1>5. Tr!GetProcessedTokenData \subseteq {"fails"}
    BY <1>2, <1>3 DEF Tr!GetProcessedTokenData
  <1>6. Tr!ShouldTradeToken \subseteq {"fails", "no"}
    BY <1>5 DEF Tr!ShouldTradeToken
  <1> QED BY <1>4, <1>5, <1>6

LEMMA OpenedStaysEmpty ==
    ASSUME NEW d \in EmptyTables
    PROVE  Tr!Opened(d) \in EmptyTables
  BY DEF Tr!Opened, EmptyTables

LEMMA TrustNext ==
    ASSUME TrustInv, Tr!Next
    PROVE  TrustInv'
  <1>1. ASSUME NEW u \in Recommenders, NEW t \in Tokens, NEW given \in BOOLEAN,
               Tr!Recommend(u, t, given)
        PROVE  TrustInv'
    <2>1. trDb' = Tr!Opened(trDb) /\ UNCHANGED <<trAsked, trAlive>>
      BY <1>1 DEF Tr!Recommend
    <2>2. trCache' = trCache \/ \E r \in {"data"} : trCache' = [trCache EXCEPT !.search = r]
      BY <1>1 DEF Tr!Recommend, Tr!Locate
    <2>3. /\ trCache' \in [Tr!Kinds -> {"null", "data", "empty"}]
          /\ \A k \in Unfilled : trCache'[k] = "null"
      BY <2>2 DEF TrustInv, Unfilled
    <2>4. trDb' \in EmptyTables
      BY <2>1, OpenedStaysEmpty DEF TrustInv
    <2> QED BY <2>1, <2>3, <2>4 DEF TrustInv
  <1>2. ASSUME NEW p \in trInflight, Tr!Trade(p)
        PROVE  TrustInv'
    <2>1. PICK amounts \in Tr!CalculateBuyAmounts, should \in Tr!ShouldTradeToken,
               prices \in Tr!FetchWalletPrices("agent") :
            LET trades == amounts # "fails" /\ should = "yes"
                known == IF trades THEN Tr!GetOrCreate(trDb, p.user) ELSE trDb
                d == IF trades /\ prices # "fails" THEN Tr!Created(known, p.user, p.token, TRUE)
                     ELSE known
            IN  /\ trDb' = d
                /\ trAlive' = ~(amounts = "fails" \/ should = "fails"
                                \/ (trades /\ prices = "fails"))
      BY <1>2 DEF Tr!Trade
    <2>2. amounts = "fails"
      BY NothingIsAnswered
    <2>3. trDb' = trDb /\ trAlive' = FALSE
      BY <2>1, <2>2
    <2>4. trCache' = trCache /\ trAsked' = trAsked \cup Tr!Missing({"dex", "prices"})
      BY <1>2 DEF Tr!Trade
    <2>5. trAsked' \subseteq Tr!Kinds
      BY <2>4 DEF TrustInv, Tr!Missing, Tr!Seen
    <2> QED BY <2>3, <2>4, <2>5 DEF TrustInv
  <1>3. ASSUME NEW u \in Recommenders, NEW t \in Tokens, Tr!SellMessage(u, t)
        PROVE  TrustInv'
    <2>1. t \notin trDb.performance
      BY DEF TrustInv, EmptyTables
    <2>2. trDb' = trDb
      BY <1>3, <2>1 DEF Tr!SellMessage
    <2>3. UNCHANGED <<trCache, trAsked, trAlive>>
      BY <1>3 DEF Tr!SellMessage
    <2> QED BY <2>2, <2>3 DEF TrustInv
  <1>4. ASSUME NEW t \in Tokens, Tr!SellMessageLost(t)
        PROVE  TrustInv'
    BY <1>4 DEF Tr!SellMessageLost, TrustInv
  <1>5. ASSUME NEW u \in Recommenders, NEW t \in Tokens, NEW type \in {"buy", "sell"},
               Tr!ConfirmedSwap(u, type, t)
        PROVE  TrustInv'
    BY <1>5 DEF Tr!ConfirmedSwap, TrustInv
  <1>6. CASE Tr!Provide
    BY <1>6, OpenedStaysEmpty DEF Tr!Provide, TrustInv
  <1>7. CASE Tr!Expire
    BY <1>7 DEF Tr!Expire, TrustInv, Unfilled
  <1>8. CASE Tr!Restart
    <2>1. /\ trDb' = [trDb EXCEPT !.keys = FALSE] /\ trAlive' = TRUE /\ trAsked' = {}
          /\ trCache' = trCache
      BY <1>8 DEF Tr!Restart
    <2>2. trDb' \in EmptyTables
      BY <2>1 DEF TrustInv, EmptyTables
    <2> QED BY <2>1, <2>2 DEF TrustInv
  <1> QED BY <1>1, <1>2, <1>3, <1>4, <1>5, <1>6, <1>7, <1>8 DEF Tr!Next

----------------------------------------------------------------------------
(***************************************************************************)
(* Recall.  Messages of a room are stored by its members and in the order  *)
(* of time; of its facts the first is unique.  What has been composed is   *)
(* of messages that are still there, and whose authors were members when   *)
(* it began; an answer of the agent's is among those stored since.         *)
(***************************************************************************)
People == Talkers \cup {Agent}
Messages == [by : People, hour : Nat, media : BOOLEAN, born : Nat, unique : BOOLEAN]
Begun == {"interactions", "provide", "decide", "update", "evaluate"}

RecallTypes ==
    /\ reHour \in 0 .. MaxHours /\ reMembers \subseteq People \X Halls
    /\ reMessages \in [Halls -> Seq(Messages)] /\ reFacts \in [Halls -> Seq(BOOLEAN)]
    /\ reClaims \in [Halls -> BOOLEAN] /\ reGoals \subseteq Halls
    /\ reAt \in {"idle", "compose"} \cup Begun
    /\ reJob \in [room : Halls, by : People, media : BOOLEAN]
    /\ reState \in [actors : SUBSET People, recent : Seq(Nat), last : Nat, shown : SUBSET Nat,
                    elsewhere : SUBSET (Halls \X Nat), facts : Nat]

RowsAreRight ==
    \A r \in Halls : \A i \in 1 .. Len(reMessages[r]) :
        /\ <<reMessages[r][i].by, r>> \in reMembers /\ <<Agent, r>> \in reMembers
        /\ reMessages[r][i].hour <= reHour
        /\ \A j \in 1 .. i : reMessages[r][j].hour <= reMessages[r][i].hour

FactsAreRight ==
    \A r \in Halls : /\ Len(reFacts[r]) <= MaxFacts
                     /\ \A i \in 1 .. Len(reFacts[r]) : reFacts[r][i] <=> i = 1

RoomsHold == \A r \in Halls : Len(reMessages[r]) <= MaxMessages

JobIsRight == reAt # "idle" => <<Agent, reJob.room>> \in reMembers

StateIsRight ==
    reAt \in Begun =>
        /\ reState.last <= Len(reMessages[reJob.room])
        /\ Re!R!ToSet(reState.recent) \subseteq 1 .. Len(reMessages[reJob.room])
        /\ \A n \in 1 .. reState.last : reMessages[reJob.room][n].by \in reState.actors

AnswerIsStored ==
    reAt = "update" =>
        \E n \in 1 .. Len(reMessages[reJob.room]) :
            reMessages[reJob.room][n].by = Agent /\ n > reState.last

RecallInv ==
    /\ RecallTypes /\ RowsAreRight /\ FactsAreRight /\ RoomsHold /\ JobIsRight /\ StateIsRight
    /\ AnswerIsStored /\ Re!NewestPicturesShown /\ Re!AnswerIsReflectedOn

(* What is in a sequence and in its reverse. *)
LEMMA ReverseIs ==
    ASSUME NEW S, NEW s \in Seq(S)
    PROVE  /\ Re!R!Reverse(s) \in Seq(S) /\ Len(Re!R!Reverse(s)) = Len(s)
           /\ \A i \in 1 .. Len(s) : Re!R!Reverse(s)[i] = s[Len(s) - i + 1]
           /\ Re!R!ToSet(Re!R!Reverse(s)) = Re!R!ToSet(s)
  <1>1. Re!R!Reverse(s) = [i \in 1 .. Len(s) |-> s[(Len(s) - i) + 1]]
    BY DEF Re!R!Reverse
  <1>2. /\ Len(s) \in Nat /\ \A i \in 1 .. Len(s) : s[i] \in S /\ (Len(s) - i) + 1 \in 1 .. Len(s)
    OBVIOUS
  <1>3. Re!R!Reverse(s) \in Seq(S) /\ Len(Re!R!Reverse(s)) = Len(s)
    BY <1>1, <1>2
  <1>4. Re!R!ToSet(Re!R!Reverse(s)) = Re!R!ToSet(s)
    <2>1. \A i \in 1 .. Len(s) : \E j \in 1 .. Len(s) : Re!R!Reverse(s)[j] = s[i]
      <3> TAKE i \in 1 .. Len(s)
      <3>1. (Len(s) - i) + 1 \in 1 .. Len(s) /\ (Len(s) - ((Len(s) - i) + 1)) + 1 = i
        BY <1>2
      <3> QED BY <1>1, <3>1
    <2>2. \A j \in 1 .. Len(s) : \E i \in 1 .. Len(s) : Re!R!Reverse(s)[j] = s[i]
      BY <1>1, <1>2
    <2>3. DOMAIN s = 1 .. Len(s) /\ DOMAIN Re!R!Reverse(s) = 1 .. Len(s)
      BY <1>1
    <2> DEFINE t == Re!R!Reverse(s)
    <2>4. \A x : (\E j \in DOMAIN t : x = t[j]) <=> \E i \in DOMAIN s : x = s[i]
      BY <2>1, <2>2, <2>3
    <2> HIDE DEF t
    <2>5. {t[j] : j \in DOMAIN t} = {s[i] : i \in DOMAIN s}
      BY <2>4
    <2> QED BY <2>5 DEF Re!R!ToSet, t
  <1> QED BY <1>1, <1>3, <1>4
(* What getMemories returns, and what formatMessages makes of it. *)
Kept(n) == IF n < Length THEN n ELSE Length
LEMMA NewestIs ==
    ASSUME Re!RecallAssumption, RecallTypes, NEW r \in Halls,
           NEW n, n = Len(reMessages[r]), NEW k, k = Kept(n)
    PROVE  /\ n \in Nat /\ k \in 0 .. n
           /\ Re!Newest(r) \in Seq(Nat) /\ Len(Re!Newest(r)) = k
           /\ \A i \in 1 .. k : Re!Newest(r)[i] = n + 1 - i
           /\ Re!Formatted(Re!Newest(r)) \in Seq(Nat) /\ Len(Re!Formatted(Re!Newest(r))) = k
           /\ \A i \in 1 .. k : Re!Formatted(Re!Newest(r))[i] = n - k + i
           /\ Re!R!ToSet(Re!Formatted(Re!Newest(r))) \subseteq 1 .. n
           /\ Re!R!ToSet(Re!Newest(r)) = Re!R!ToSet(Re!Formatted(Re!Newest(r)))
  <1>1. n \in Nat /\ k \in 0 .. n
    BY DEF RecallTypes, Kept, Re!RecallAssumption
  <1> DEFINE s == Re!Newest(r)
             f == Re!Formatted(s)
  <1>2. s = [i \in 1 .. k |-> n + 1 - i]
    BY DEF Re!Newest, Kept
  <1>3. s \in Seq(Nat) /\ Len(s) = k /\ \A i \in 1 .. k : s[i] = n + 1 - i
    BY <1>1, <1>2
  <1> HIDE DEF s
  <1>4. /\ f \in Seq(Nat) /\ Len(f) = k
        /\ \A i \in 1 .. k : f[i] = s[k - i + 1]
        /\ Re!R!ToSet(f) = Re!R!ToSet(s)
    <2>1. f = Re!R!Reverse(s)
      BY DEF Re!Formatted
    <2>2. /\ Re!R!Reverse(s) \in Seq(Nat) /\ Len(Re!R!Reverse(s)) = Len(s)
          /\ \A i \in 1 .. Len(s) : Re!R!Reverse(s)[i] = s[Len(s) - i + 1]
          /\ Re!R!ToSet(Re!R!Reverse(s)) = Re!R!ToSet(s)
      BY <1>3, ReverseIs
    <2> QED BY <1>3, <2>1, <2>2
  <1> HIDE DEF f
  <1>5. \A i \in 1 .. k : f[i] = n - k + i
    <2> TAKE i \in 1 .. k
    <2>1. k - i + 1 \in 1 .. k
      BY <1>1
    <2>2. s[k - i + 1] = n + 1 - (k - i + 1)
      BY <1>3, <2>1
    <2> QED BY <1>1, <1>4, <2>2
  <1>6. Re!R!ToSet(f) \subseteq 1 .. n
    <2>1. \A i \in DOMAIN f : f[i] \in 1 .. n
      BY <1>1, <1>4, <1>5
    <2> QED BY <2>1 DEF Re!R!ToSet
  <1> QED BY <1>1, <1>3, <1>4, <1>5, <1>6 DEF s, f

(* The first of a sequence that is in a set. *)
LEMMA FirstIs ==
    ASSUME NEW S, NEW s \in Seq(S), NEW P, NEW x \in Re!R!ToSet(s), x \in P
    PROVE  \E i \in 1 .. Len(s) : /\ Re!FirstOf(s, P) = s[i] /\ s[i] \in P
                                  /\ \A j \in 1 .. i - 1 : s[j] \notin P
  <1> DEFINE I == {i \in 1 .. Len(s) : s[i] \in P}
  <1>1. Len(s) \in Nat /\ DOMAIN s = 1 .. Len(s)
    OBVIOUS
  <1>2. I \in SUBSET Nat /\ I # {}
    BY <1>1 DEF Re!R!ToSet
  <1>3. PICK i \in I : \A j \in I : i <= j
    BY <1>2, Least
  <1>4. i \in DOMAIN s /\ s[i] \in P /\ \A j \in 1 .. i - 1 : s[j] \notin P
    BY <1>1, <1>3
  <1> DEFINE Q(h) == s[h] \in P /\ \A j \in 1 .. h - 1 : s[j] \notin P
             c == CHOOSE h \in DOMAIN s : Q(h)
  <1>5. c \in DOMAIN s /\ Q(c)
    BY <1>4
  <1>6. Re!FirstOf(s, P) = s[c]
    BY DEF Re!FirstOf
  <1> QED BY <1>1, <1>5, <1>6

(* Of messages in the order of time, those within an hour of any one are   *)
(* the newest.                                                             *)
LEMMA NewestAreShown ==
    ASSUME RecallTypes, RowsAreRight, NEW r \in Halls,
           NEW s \in Seq(Nat), Re!R!ToSet(s) \subseteq 1 .. Len(reMessages[r]),
           NEW M, M = Re!Media(r, s), M # {},
           NEW N, N = Re!Since(r, M, Re!FirstOf(s, M))
    PROVE  N \subseteq M /\ N # {} /\ \A n \in M \ N, k \in N : n < k
  <1> DEFINE f == Re!FirstOf(s, M)
             h(n) == reMessages[r][n].hour
  <1>1. M \subseteq Re!R!ToSet(s)
    BY DEF Re!Media
  <1>2. f \in M
    BY <1>1, FirstIs
  <1> HIDE DEF f
  <1>3. ASSUME NEW n \in M
        PROVE  h(n) \in Nat /\ n \in Nat /\ \A j \in 1 .. n : h(j) <= h(n)
    <2>1. n \in 1 .. Len(reMessages[r])
      BY <1>1
    <2>2. reMessages[r][n] \in Messages
      BY <2>1 DEF RecallTypes
    <2>3. h(n) \in Nat /\ n \in Nat
      BY <2>1, <2>2 DEF Messages
    <2>4. \A j \in 1 .. n : h(j) <= h(n)
      BY <2>1 DEF RowsAreRight
    <2> HIDE DEF h
    <2> QED BY <2>3, <2>4
  <1>4. N = {k \in M : h(k) >= h(f)}
    BY DEF Re!Since, f
  <1>5. f \in N
    BY <1>2, <1>3, <1>4
  <1>6. ASSUME NEW n \in M \ N, NEW k \in N PROVE n < k
    <2>1. k \in M /\ h(n) < h(f) /\ h(f) <= h(k)
      BY <1>2, <1>3, <1>4
    <2>2. n \in Nat /\ k \in Nat /\ h(n) \in Nat /\ h(f) \in Nat /\ h(k) \in Nat
      BY <1>2, <1>3, <2>1
    <2>3. k # 0
      BY <1>1, <2>1
    <2>4. SUFFICES ASSUME k <= n PROVE FALSE
      BY <2>2
    <2>5. k \in 1 .. n
      BY <2>2, <2>3, <2>4
    <2>6. h(k) <= h(n)
      BY <1>3, <2>5
    <2> HIDE DEF h
    <2> QED BY <2>1, <2>2, <2>6
  <1> QED BY <1>4, <1>5, <1>6
(* There are finitely many messages, and not more of a room than of all.   *)
LEMMA MessagesAreFinite ==
    ASSUME Re!RecallAssumption, RecallTypes, NEW Q \in SUBSET Halls
    PROVE  IsFiniteSet(Re!MessagesOf(Q))
  <1>1. IsFiniteSet(Q)
    <2>1. IsFiniteSet(Halls)
      BY Zenon DEF Re!RecallAssumption, Re!IsFiniteSet, IsFiniteSet
    <2> QED BY <2>1, FS_Subset
  <1>2. \A q \in Q : Len(reMessages[q]) \in Nat /\ DOMAIN reMessages[q] = 1 .. Len(reMessages[q])
    BY DEF RecallTypes
  <1> DEFINE Of(q) == {q} \X DOMAIN reMessages[q]
             F == {Of(q) : q \in Q}
             T == Re!MessagesOf(Q)
  <1>3. ASSUME NEW q \in Q PROVE IsFiniteSet(Of(q))
    <2> DEFINE D == 1 .. Len(reMessages[q])
               f == [i \in D |-> <<q, i>>]
    <2>1. IsFiniteSet(D)
      BY <1>2, FS_Interval
    <2>2. \A t \in Of(q) : \E i \in D : f[i] = t
      <3> TAKE t \in Of(q)
      <3>1. PICK i \in DOMAIN reMessages[q] : t = <<q, i>>
        OBVIOUS
      <3>2. i \in D
        BY <1>2, <3>1
      <3> QED BY <3>1, <3>2
    <2>3. f \in [D -> Of(q)]
      BY <1>2
    <2>4. f \in Surjection(D, Of(q))
      BY <2>2, <2>3 DEF Surjection
    <2> QED BY <2>1, <2>4, FS_Surjection
  <1>4. IsFiniteSet(F)
    <2> DEFINE g == [q \in Q |-> Of(q)]
    <2>1. g \in Surjection(Q, F)
      BY DEF Surjection
    <2> HIDE DEF g, F
    <2> QED BY <1>1, <2>1, FS_Surjection
  <1>5. T = UNION F
    BY DEF Re!MessagesOf
  <1>6. IsFiniteSet(T)
    <2>1. \A X \in F : IsFiniteSet(X)
      BY <1>3
    <2> HIDE DEF F, T
    <2> QED BY <1>4, <1>5, <2>1, FS_UNION
  <1> QED BY <1>5, <1>6

LEMMA BoundedIs ==
    ASSUME Re!RecallAssumption, RecallTypes, Re!Bounded, NEW r \in Halls
    PROVE  Len(reMessages[r]) < MaxMessages
  <1> DEFINE T == Re!MessagesOf(Halls)
  <1>1. MaxMessages \in Nat /\ IsFiniteSet(T)
    BY MessagesAreFinite DEF Re!RecallAssumption
  <1>2. Len(reMessages[r]) \in Nat /\ DOMAIN reMessages[r] = 1 .. Len(reMessages[r])
    BY DEF RecallTypes
  <1>3. Cardinality(T) < MaxMessages
    <2>1. Re!Cardinality(T) = Cardinality(T)
      BY Zenon DEF Re!Cardinality, Cardinality
    <2>2. Re!Cardinality(T) < MaxMessages
      BY DEF Re!Bounded
    <2> QED BY <2>1, <2>2
  <1> DEFINE n == Len(reMessages[r])
             h == [i \in 1 .. n |-> <<r, i>>]
  <1>4. h \in Injection(1 .. n, T)
    <2>1. \A i \in 1 .. n : <<r, i>> \in T
      BY <1>2 DEF Re!MessagesOf
    <2> HIDE DEF T
    <2> QED BY <2>1 DEF Injection, IsInjective
  <1>5. IsFiniteSet(1 .. n) /\ Cardinality(1 .. n) = n
    BY <1>2, FS_Interval
  <1>6. Cardinality(1 .. n) <= Cardinality(T)
    <2> HIDE DEF T, n, h
    <2> QED BY <1>1, <1>4, FS_Injection
  <1>7. Cardinality(T) \in Nat
    BY <1>1, FS_CardinalityType
  <1> HIDE DEF T
  <1> QED BY <1>1, <1>2, <1>3, <1>5, <1>6, <1>7

(* Messages stay, and others come after them. *)
MessagesStay ==
    \A q \in Halls : /\ Len(reMessages[q]) \in Nat /\ Len(reMessages'[q]) \in Nat
                     /\ Len(reMessages[q]) <= Len(reMessages'[q])
                     /\ \A i \in 1 .. Len(reMessages[q]) : reMessages'[q][i] = reMessages[q][i]

LEMMA StoredIs ==
    ASSUME Re!RecallAssumption, RecallTypes, RowsAreRight, RoomsHold, Re!Bounded,
           NEW u \in People, NEW r \in Halls, NEW media \in BOOLEAN,
           reMessages' = Re!Stored(u, media, r), reHour' = reHour,
           reMembers \subseteq reMembers', <<u, r>> \in reMembers', <<Agent, r>> \in reMembers'
    PROVE  /\ reMessages' \in [Halls -> Seq(Messages)] /\ RowsAreRight' /\ RoomsHold' /\ MessagesStay
           /\ Len(reMessages'[r]) = Len(reMessages[r]) + 1
           /\ reMessages'[r][Len(reMessages[r]) + 1].by = u
  <1> DEFINE n == Len(reMessages[r])
             row == [by |-> u, hour |-> reHour, media |-> media,
                     born |-> Re!Cardinality(Re!MessagesOf(Halls)),
                     unique |-> r \in Bare \/ reMessages[r] = <<>>]
  <1>1. reMessages' = [reMessages EXCEPT ![r] = Append(reMessages[r], row)]
    BY DEF Re!Stored
  <1>2. row \in Messages /\ reHour \in Nat
    <2>1. Re!Cardinality(Re!MessagesOf(Halls)) = Cardinality(Re!MessagesOf(Halls))
      BY Zenon DEF Re!Cardinality, Cardinality
    <2>2. Re!Cardinality(Re!MessagesOf(Halls)) \in Nat
      BY <2>1, MessagesAreFinite, FS_CardinalityType
    <2> QED BY <2>2 DEF Messages, RecallTypes, Re!RecallAssumption
  <1>3. reMessages[r] \in Seq(Messages) /\ n \in Nat
    BY DEF RecallTypes
  <1>4. row.by = u /\ row.hour = reHour
    OBVIOUS
  <1> HIDE DEF row
  <1>5. /\ reMessages'[r] \in Seq(Messages) /\ Len(reMessages'[r]) = n + 1
        /\ reMessages'[r][n + 1] = row
        /\ \A i \in 1 .. n : reMessages'[r][i] = reMessages[r][i]
    <2>1. reMessages'[r] = Append(reMessages[r], row)
      BY <1>1 DEF RecallTypes
    <2> QED BY <1>2, <1>3, <2>1
  <1>6. \A q \in Halls : q # r => reMessages'[q] = reMessages[q]
    BY <1>1 DEF RecallTypes
  <1>7. reMessages' \in [Halls -> Seq(Messages)]
    BY <1>1, <1>2 DEF RecallTypes
  <1>8. MessagesStay
    <2> SUFFICES ASSUME NEW q \in Halls
                 PROVE  /\ Len(reMessages[q]) \in Nat /\ Len(reMessages'[q]) \in Nat
                        /\ Len(reMessages[q]) <= Len(reMessages'[q])
                        /\ \A i \in 1 .. Len(reMessages[q]) : reMessages'[q][i] = reMessages[q][i]
      BY DEF MessagesStay
    <2>1. Len(reMessages[q]) \in Nat
      BY DEF RecallTypes
    <2> QED BY <1>3, <1>5, <1>6, <2>1
  <1>9. RoomsHold'
    <2>1. n < MaxMessages /\ MaxMessages \in Nat
      BY BoundedIs DEF Re!RecallAssumption
    <2> QED BY <1>3, <1>5, <1>6, <2>1 DEF RoomsHold
  <1>10. RowsAreRight'
    <2> SUFFICES ASSUME NEW q \in Halls, NEW i \in 1 .. Len(reMessages'[q])
                 PROVE  /\ <<reMessages'[q][i].by, q>> \in reMembers' /\ <<Agent, q>> \in reMembers'
                        /\ reMessages'[q][i].hour <= reHour
                        /\ \A j \in 1 .. i : reMessages'[q][j].hour <= reMessages'[q][i].hour
      BY DEF RowsAreRight
    <2>1. CASE q # r
      BY <1>6, <2>1 DEF RowsAreRight
    <2>2. CASE q = r /\ i \in 1 .. n
      <3>1. \A j \in 1 .. i : j \in 1 .. n /\ reMessages'[q][j] = reMessages[q][j]
        BY <1>3, <1>5, <2>2
      <3>2. reMessages'[q][i] = reMessages[q][i]
        BY <1>5, <2>2
      <3> QED BY <2>2, <3>1, <3>2 DEF RowsAreRight
    <2>3. CASE q = r /\ i = n + 1
      <3>1. \A j \in 1 .. i : j \in 1 .. n \/ j = n + 1
        BY <1>3, <2>3
      <3>2. \A j \in 1 .. n : reMessages'[q][j].hour <= reHour
        BY <1>5, <2>3 DEF RowsAreRight
      <3>3. \A j \in 1 .. i : reMessages'[q][j].hour <= reMessages'[q][i].hour
        BY <1>2, <1>4, <1>5, <2>3, <3>1, <3>2
      <3>4. reMessages'[q][i] = row
        BY <1>5, <2>3
      <3> QED BY <1>2, <1>4, <2>3, <3>3, <3>4
    <2> QED BY <1>3, <1>5, <2>1, <2>2, <2>3
  <1> QED BY <1>3, <1>4, <1>5, <1>7, <1>8, <1>9, <1>10

(* What has been composed stays right while messages are added. *)
LEMMA ComposedStays ==
    ASSUME RecallTypes, MessagesStay, StateIsRight, Re!NewestPicturesShown,
           UNCHANGED <<reJob, reState>>, reAt' \in Begun => reAt \in Begun
    PROVE  StateIsRight' /\ Re!NewestPicturesShown'
  <1>1. reJob.room \in Halls /\ reState.last \in Nat
    BY DEF RecallTypes
  <1> DEFINE M == reMessages[reJob.room]
             N == reMessages'[reJob.room]
  <1>2. /\ Len(M) \in Nat /\ Len(N) \in Nat /\ Len(M) <= Len(N)
        /\ \A i \in 1 .. Len(M) : N[i] = M[i]
    BY <1>1 DEF MessagesStay
  <1>3. StateIsRight'
    <2> HIDE DEF M, N
    <2> SUFFICES ASSUME reAt' \in Begun
                 PROVE  /\ reState.last <= Len(N) /\ Re!R!ToSet(reState.recent) \subseteq 1 .. Len(N)
                        /\ \A n \in 1 .. reState.last : N[n].by \in reState.actors
      BY DEF StateIsRight, N
    <2>1. /\ reState.last <= Len(M) /\ Re!R!ToSet(reState.recent) \subseteq 1 .. Len(M)
          /\ \A n \in 1 .. reState.last : M[n].by \in reState.actors
      BY DEF StateIsRight, M
    <2> QED BY <1>1, <1>2, <2>1
  <1>4. Re!NewestPicturesShown'
    <2> SUFFICES ASSUME reAt' \in Begun PROVE Re!NewestPicturesShown'
      BY DEF Re!NewestPicturesShown, Re!Begun, Begun
    <2>1. Re!R!ToSet(reState.recent) \subseteq 1 .. Len(M)
      BY DEF StateIsRight
    <2>2. \A n \in Re!R!ToSet(reState.recent) : N[n] = M[n]
      BY <1>2, <2>1
    <2>3. {n \in Re!R!ToSet(reState.recent) : N[n].media}
            = {n \in Re!R!ToSet(reState.recent) : M[n].media}
      BY <2>2
    <2> QED BY <2>3 DEF Re!NewestPicturesShown, Re!Begun, Begun
  <1> QED BY <1>3, <1>4

(* So does what has been answered, and reflected on.                       *)
LEMMA AnswerStays ==
    ASSUME RecallTypes, MessagesStay, AnswerIsStored, Re!AnswerIsReflectedOn,
           UNCHANGED <<reAt, reJob, reState>>, reMessages' \in [Halls -> Seq(Messages)],
           Re!RecallAssumption
    PROVE  AnswerIsStored' /\ Re!AnswerIsReflectedOn'
  <1> DEFINE M == reMessages[reJob.room]
             N == reMessages'[reJob.room]
  <1>1. reJob.room \in Halls /\ Length \in Nat
    BY DEF RecallTypes, Re!RecallAssumption
  <1>2. /\ Len(M) \in Nat /\ Len(N) \in Nat /\ Len(M) <= Len(N)
        /\ \A i \in 1 .. Len(M) : N[i] = M[i]
    BY <1>1 DEF MessagesStay
  <1>3. DOMAIN M = 1 .. Len(M) /\ DOMAIN N = 1 .. Len(N)
    BY <1>1 DEF RecallTypes
  <1> HIDE DEF M, N
  <1>4. AnswerIsStored'
    <2> SUFFICES ASSUME reAt = "update"
                 PROVE  \E n \in 1 .. Len(N) : N[n].by = Agent /\ n > reState.last
      BY DEF AnswerIsStored, N
    <2>1. PICK n \in 1 .. Len(M) : M[n].by = Agent /\ n > reState.last
      BY DEF AnswerIsStored, M
    <2> QED BY <1>2, <2>1
  <1>5. Re!AnswerIsReflectedOn'
    <2> SUFFICES ASSUME reAt = "evaluate"
                 PROVE  \E n \in 1 .. Len(N) :
                            /\ N[n].by = Agent /\ n > reState.last
                            /\ n \in Re!R!ToSet(reState.recent) \/ Len(N) - n >= Length
      BY <1>3 DEF Re!AnswerIsReflectedOn, N
    <2>1. PICK n \in 1 .. Len(M) :
                 /\ M[n].by = Agent /\ n > reState.last
                 /\ n \in Re!R!ToSet(reState.recent) \/ Len(M) - n >= Length
      BY <1>3 DEF Re!AnswerIsReflectedOn, M
    <2>2. Len(M) - n >= Length => Len(N) - n >= Length
      BY <1>1, <1>2
    <2> QED BY <1>2, <2>1, <2>2
  <1> QED BY <1>4, <1>5

LEMMA NothingComposed ==
    ASSUME Re!RecallAssumption
    PROVE  /\ Re!NoJob \in [room : Halls, by : People, media : BOOLEAN]
           /\ Re!NoState \in [actors : SUBSET People, recent : Seq(Nat), last : Nat,
                              shown : SUBSET Nat,
                              elsewhere : SUBSET (Halls \X Nat), facts : Nat]
  <1>1. (CHOOSE r \in Halls : TRUE) \in Halls
    BY DEF Re!RecallAssumption
  <1>2. <<>> \in Seq(Nat)
    BY EmptySeq
  <1> QED BY <1>1, <1>2 DEF Re!NoJob, Re!NoState, People

(* Where nothing has been composed. *)
LEMMA Restarts ==
    ASSUME Re!RecallAssumption, RecallTypes', RowsAreRight', FactsAreRight', RoomsHold',
           JobIsRight', reAt' \in {"idle", "compose"}, reState' = Re!NoState
    PROVE  RecallInv'
  <1>1. StateIsRight' /\ AnswerIsStored' /\ Re!NewestPicturesShown' /\ Re!AnswerIsReflectedOn'
    BY DEF StateIsRight, Begun, AnswerIsStored, Re!NewestPicturesShown, Re!Begun,
           Re!AnswerIsReflectedOn
  <1> QED BY <1>1 DEF RecallInv

LEMMA HandlerReturns ==
    ASSUME Re!RecallAssumption, RecallInv, Re!Ignore \/ \E named \in BOOLEAN : Re!Evaluate(named)
    PROVE  RecallInv'
  <1>1. /\ UNCHANGED <<reHour, reMembers, reMessages, reFacts, reGoals>>
        /\ reAt' = "idle" /\ reJob' = Re!NoJob /\ reState' = Re!NoState
    BY DEF Re!Ignore, Re!Evaluate
  <1>2. reClaims' \in [Halls -> BOOLEAN]
    BY DEF Re!Ignore, Re!Evaluate, RecallInv, RecallTypes
  <1>3. RecallTypes'
    BY <1>1, <1>2, NothingComposed DEF RecallInv, RecallTypes
  <1>4. RowsAreRight' /\ FactsAreRight' /\ RoomsHold' /\ JobIsRight'
    BY <1>1 DEF RecallInv, RowsAreRight, FactsAreRight, RoomsHold, JobIsRight
  <1> QED BY <1>1, <1>3, <1>4, Restarts

LEMMA RecallReceives ==
    ASSUME Re!RecallAssumption, RecallInv,
           NEW u \in Talkers, NEW r \in Halls, NEW media \in BOOLEAN, NEW stored \in BOOLEAN,
           Re!Receive(u, r, media, stored)
    PROVE  RecallInv'
  <1>1. /\ reMembers' = reMembers \cup {<<u, r>>, <<Agent, r>>}
        /\ reMessages' = IF stored THEN Re!Stored(u, media, r) ELSE reMessages
        /\ reJob' = [room |-> r, by |-> u, media |-> media]
        /\ reAt' = "compose" /\ reState' = Re!NoState /\ Re!Bounded
        /\ UNCHANGED <<reHour, reFacts, reClaims, reGoals>>
    BY DEF Re!Receive, Re!Connected
  <1>2. u \in People /\ Agent \in People
    BY DEF People
  <1>3. reMessages' \in [Halls -> Seq(Messages)] /\ RowsAreRight' /\ RoomsHold'
    <2>1. CASE stored
      BY <1>1, <1>2, <2>1, StoredIs DEF RecallInv
    <2>2. CASE ~stored
      BY <1>1, <2>2 DEF RecallInv, RecallTypes, RowsAreRight, RoomsHold
    <2> QED BY <2>1, <2>2
  <1>4. RecallTypes'
    <2>1. reMembers' \subseteq People \X Halls
      BY <1>1, <1>2 DEF RecallInv, RecallTypes
    <2>2. reJob' \in [room : Halls, by : People, media : BOOLEAN]
      BY <1>1, <1>2
    <2> QED BY <1>1, <1>3, <2>1, <2>2, NothingComposed DEF RecallInv, RecallTypes
  <1>5. FactsAreRight' /\ JobIsRight'
    BY <1>1 DEF RecallInv, FactsAreRight, JobIsRight
  <1> QED BY <1>1, <1>3, <1>4, <1>5, Restarts

LEMMA RecallPosts ==
    ASSUME Re!RecallAssumption, RecallInv,
           NEW u \in Talkers, NEW r \in Halls, NEW media \in BOOLEAN, Re!Post(u, r, media)
    PROVE  RecallInv'
  <1>1. /\ reMembers' = reMembers \cup {<<u, r>>, <<Agent, r>>}
        /\ reMessages' = Re!Stored(u, media, r) /\ Re!Bounded
        /\ UNCHANGED <<reHour, reFacts, reClaims, reGoals, reAt, reJob, reState>>
    BY DEF Re!Post, Re!Connected
  <1>2. u \in People /\ Agent \in People
    BY DEF People
  <1>3. reMessages' \in [Halls -> Seq(Messages)] /\ RowsAreRight' /\ RoomsHold' /\ MessagesStay
    BY <1>1, <1>2, StoredIs DEF RecallInv
  <1>4. RecallTypes'
    <2>1. reMembers' \subseteq People \X Halls
      BY <1>1, <1>2 DEF RecallInv, RecallTypes
    <2> QED BY <1>1, <1>3, <2>1 DEF RecallInv, RecallTypes
  <1>5. FactsAreRight' /\ JobIsRight'
    BY <1>1 DEF RecallInv, FactsAreRight, JobIsRight
  <1>6. AnswerIsStored' /\ Re!AnswerIsReflectedOn'
    BY <1>1, <1>3, AnswerStays DEF RecallInv
  <1>7. StateIsRight' /\ Re!NewestPicturesShown'
    BY <1>1, <1>3, ComposedStays DEF RecallInv
  <1> QED BY <1>3, <1>4, <1>5, <1>6, <1>7 DEF RecallInv

LEMMA RecallResponds ==
    ASSUME Re!RecallAssumption, RecallInv, Re!Respond
    PROVE  RecallInv'
  <1>1. /\ reAt = "decide" /\ Re!Bounded /\ reMessages' = Re!Stored(Agent, FALSE, reJob.room)
        /\ UNCHANGED <<reHour, reMembers, reFacts, reClaims, reGoals>>
    BY DEF Re!Respond
  <1>2. Agent \in People /\ reJob.room \in Halls /\ <<Agent, reJob.room>> \in reMembers
    BY <1>1 DEF People, RecallInv, RecallTypes, JobIsRight
  <1>3. /\ reMessages' \in [Halls -> Seq(Messages)] /\ RowsAreRight' /\ RoomsHold' /\ MessagesStay
        /\ Len(reMessages'[reJob.room]) = Len(reMessages[reJob.room]) + 1
        /\ reMessages'[reJob.room][Len(reMessages[reJob.room]) + 1].by = Agent
    BY <1>1, <1>2, StoredIs DEF RecallInv
  <1>4. FactsAreRight'
    BY <1>1 DEF RecallInv, FactsAreRight
  <1>5. CASE reJob.room \in Bare
    <2>1. reAt' = "idle" /\ reJob' = Re!NoJob /\ reState' = Re!NoState
      BY <1>5 DEF Re!Respond
    <2>2. RecallTypes' /\ JobIsRight'
      BY <1>1, <1>3, <2>1, NothingComposed DEF RecallInv, RecallTypes, JobIsRight
    <2> QED BY <1>3, <1>4, <2>1, <2>2, Restarts
  <1>6. CASE reJob.room \notin Bare
    <2>1. reAt' = "update" /\ reJob' = reJob /\ reState' = reState
      BY <1>6 DEF Re!Respond
    <2>2. RecallTypes' /\ JobIsRight'
      BY <1>1, <1>2, <1>3, <1>6, <2>1 DEF RecallInv, RecallTypes, JobIsRight, Begun
    <2>3. StateIsRight' /\ Re!NewestPicturesShown'
      BY <1>1, <1>3, <2>1, ComposedStays DEF RecallInv, Begun
    <2>4. AnswerIsStored' /\ Re!AnswerIsReflectedOn'
      <3> DEFINE n == Len(reMessages[reJob.room])
      <3>1. n \in Nat /\ reState.last \in Nat /\ reState.last <= n
        BY <1>1, <1>2 DEF RecallInv, RecallTypes, StateIsRight, Begun
      <3>2. n + 1 \in 1 .. Len(reMessages'[reJob.room]) /\ n + 1 > reState.last
        BY <1>3, <3>1
      <3> QED BY <1>3, <2>1, <3>2 DEF AnswerIsStored, Re!AnswerIsReflectedOn
    <2> QED BY <1>3, <1>4, <2>2, <2>3, <2>4 DEF RecallInv
  <1> QED BY <1>5, <1>6

(* One fact of a room is unique. *)
LEMMA OneOf ==
    ASSUME NEW s, NEW S, s \in Seq(S), NEW U, U = {i \in DOMAIN s : i = 1}
    PROVE  /\ Re!Cardinality(U) <= 1 /\ Re!Cardinality(U) \in Nat
           /\ Len(s) > 0 => Re!Cardinality(U) = 1
  <1>1. Re!Cardinality(U) = Cardinality(U)
    BY Zenon DEF Re!Cardinality, Cardinality
  <1>2. DOMAIN s = 1 .. Len(s) /\ Len(s) \in Nat
    OBVIOUS
  <1>3. U = {} \/ U = {1}
    BY <1>2
  <1>4. Len(s) > 0 => U = {1}
    BY <1>2
  <1>5. Cardinality({}) = 0 /\ Cardinality({1}) = 1
    BY FS_EmptySet, FS_Singleton
  <1>6. U = {} => Cardinality(U) = 0
    BY <1>5
  <1>7. U = {1} => Cardinality(U) = 1
    BY <1>5
  <1> DEFINE c == Cardinality(U)
  <1>8. c = 0 \/ c = 1
    BY <1>3, <1>6, <1>7
  <1>9. Len(s) > 0 => c = 1
    BY <1>4, <1>7
  <1> HIDE DEF c
  <1>10. c <= 1 /\ c \in Nat
    BY <1>8
  <1>11. Re!Cardinality(U) = c
    BY <1>1 DEF c
  <1> HIDE <1>1
  <1> QED BY <1>9, <1>10, <1>11

LEMMA RecallProvides ==
    ASSUME Re!RecallAssumption, RecallInv, Re!Provide
    PROVE  RecallInv'
  <1> DEFINE s == reFacts[reJob.room]
  <1>1. /\ reState' = [reState EXCEPT !.facts = Re!Known(s)]
        /\ reAt = "provide" /\ reAt' = "decide"
        /\ UNCHANGED <<reHour, reMembers, reMessages, reFacts, reClaims, reGoals, reJob>>
    BY DEF Re!Provide
  <1>2. reJob.room \in Halls /\ s \in Seq(BOOLEAN) /\ DOMAIN s = 1 .. Len(s)
    BY DEF RecallInv, RecallTypes
  <1>3. {i \in DOMAIN s : s[i]} = {i \in DOMAIN s : i = 1}
    BY <1>2 DEF RecallInv, FactsAreRight
  <1>4. Re!Known(s) = Re!Cardinality({i \in DOMAIN s : s[i]})
    BY DEF Re!Known
  <1>5. Re!Known(s) \in Nat
    <2> HIDE DEF s
    <2> QED BY <1>2, <1>3, <1>4, OneOf
  <1> HIDE DEF s
  <1>6. RecallTypes'
    BY <1>1, <1>5 DEF RecallInv, RecallTypes, Begun
  <1>7. /\ reState'.facts = Re!Known(s) /\ reState'.recent = reState.recent
        /\ reState'.last = reState.last /\ reState'.actors = reState.actors
        /\ reState'.shown = reState.shown
    BY <1>1 DEF RecallInv, RecallTypes
  <1>8. StateIsRight' /\ AnswerIsStored' /\ Re!NewestPicturesShown' /\ Re!AnswerIsReflectedOn'
    BY <1>1, <1>7
       DEF RecallInv, StateIsRight, AnswerIsStored, Begun, Re!Begun, Re!NewestPicturesShown,
           Re!AnswerIsReflectedOn
  <1>9. RowsAreRight' /\ FactsAreRight' /\ RoomsHold' /\ JobIsRight'
    BY <1>1 DEF RecallInv, RowsAreRight, FactsAreRight, RoomsHold, JobIsRight
  <1> QED BY <1>6, <1>8, <1>9 DEF RecallInv

LEMMA RecallInteracts ==
    ASSUME Re!RecallAssumption, RecallInv, Re!Interactions
    PROVE  RecallInv'
  <1> DEFINE E == Re!Youngest(Re!MessagesOf(Re!RoomsFor(reJob.by) \ {reJob.room}))
  <1>1. /\ reState' = [reState EXCEPT !.elsewhere = E]
        /\ reAt = "interactions" /\ reAt' = "provide"
        /\ UNCHANGED <<reHour, reMembers, reMessages, reFacts, reClaims, reGoals, reJob>>
    BY DEF Re!Interactions
  <1>2. E \in SUBSET (Halls \X Nat)
    <2>1. \A r \in Halls : DOMAIN reMessages[r] \subseteq Nat
      BY DEF RecallInv, RecallTypes
    <2> DEFINE Q == Re!RoomsFor(reJob.by) \ {reJob.room}
    <2>2. Q \subseteq Halls
      BY DEF Re!RoomsFor
    <2> HIDE DEF Q
    <2>3. Re!MessagesOf(Q) \subseteq Halls \X Nat
      BY <2>1, <2>2 DEF Re!MessagesOf
    <2>4. E \subseteq Re!MessagesOf(Q)
      BY DEF Re!Youngest, Q
    <2> QED BY <2>3, <2>4
  <1> HIDE DEF E
  <1>3. RecallTypes'
    BY <1>1, <1>2 DEF RecallInv, RecallTypes, Begun
  <1>4. /\ reState'.facts = reState.facts /\ reState'.recent = reState.recent
        /\ reState'.last = reState.last /\ reState'.actors = reState.actors
        /\ reState'.shown = reState.shown
    BY <1>1 DEF RecallInv, RecallTypes
  <1>5. StateIsRight' /\ AnswerIsStored' /\ Re!NewestPicturesShown' /\ Re!AnswerIsReflectedOn'
    BY <1>1, <1>4
       DEF RecallInv, StateIsRight, AnswerIsStored, Begun, Re!Begun, Re!NewestPicturesShown,
           Re!AnswerIsReflectedOn
  <1>6. RowsAreRight' /\ FactsAreRight' /\ RoomsHold' /\ JobIsRight'
    BY <1>1 DEF RecallInv, RowsAreRight, FactsAreRight, RoomsHold, JobIsRight
  <1> QED BY <1>3, <1>5, <1>6 DEF RecallInv

LEMMA RecallBeside ==
    ASSUME Re!RecallAssumption, RecallInv,
           Re!Tick \/ \E r \in Halls : Re!StoreFact(r) \/ Re!HandlerEnds(r)
    PROVE  RecallInv'
  <1>1. UNCHANGED <<reMembers, reMessages, reGoals, reAt, reJob, reState>>
    BY DEF Re!Tick, Re!StoreFact, Re!HandlerEnds
  <1>2. /\ RoomsHold' /\ JobIsRight' /\ StateIsRight' /\ AnswerIsStored'
        /\ Re!NewestPicturesShown' /\ Re!AnswerIsReflectedOn'
    BY <1>1 DEF RecallInv, RoomsHold, JobIsRight, StateIsRight, AnswerIsStored, Begun, Re!Begun, Re!NewestPicturesShown,
           Re!AnswerIsReflectedOn
  <1>3. reHour' \in 0 .. MaxHours /\ reHour <= reHour'
    BY DEF Re!Tick, Re!StoreFact, Re!HandlerEnds, RecallInv, RecallTypes, Re!RecallAssumption
  <1>4. RowsAreRight'
    <2> SUFFICES ASSUME NEW r \in Halls, NEW i \in 1 .. Len(reMessages[r])
                 PROVE  reMessages[r][i].hour <= reHour'
      BY <1>1 DEF RecallInv, RowsAreRight
    <2>1. reMessages[r][i].hour <= reHour
      BY DEF RecallInv, RowsAreRight
    <2>2. reMessages[r][i] \in Messages
      BY DEF RecallInv, RecallTypes
    <2>3. reMessages[r][i].hour \in Nat
      BY <2>2 DEF Messages
    <2> QED BY <1>3, <2>1, <2>3 DEF RecallInv, RecallTypes
  <1>5. reClaims' \in [Halls -> BOOLEAN]
    BY DEF Re!Tick, Re!StoreFact, Re!HandlerEnds, RecallInv, RecallTypes
  <1>6. reFacts' \in [Halls -> Seq(BOOLEAN)] /\ FactsAreRight'
    <2>1. CASE reFacts' = reFacts
      BY <2>1 DEF RecallInv, RecallTypes, FactsAreRight
    <2>2. CASE \E r \in Halls : Re!StoreFact(r)
      <3>1. PICK r \in Halls : /\ Len(reFacts[r]) < MaxFacts
                               /\ reFacts' = [reFacts EXCEPT ![r] = Append(@, @ = <<>>)]
        BY <2>2 DEF Re!StoreFact
      <3> DEFINE s == reFacts[r]
                 n == Len(s)
      <3>2. s \in Seq(BOOLEAN) /\ n \in Nat /\ n < MaxFacts /\ MaxFacts \in Nat
        BY <3>1 DEF RecallInv, RecallTypes, Re!RecallAssumption
      <3>3. (s = <<>>) \in BOOLEAN /\ (s = <<>> <=> n = 0)
        BY <3>2, EmptySeq
      <3>4. reFacts'[r] = Append(s, s = <<>>) /\ \A q \in Halls : q # r => reFacts'[q] = reFacts[q]
        BY <3>1 DEF RecallInv, RecallTypes
      <3> HIDE DEF s
      <3>5. /\ Append(s, s = <<>>) \in Seq(BOOLEAN) /\ Len(Append(s, s = <<>>)) = n + 1
            /\ Append(s, s = <<>>)[n + 1] = (s = <<>>)
            /\ \A i \in 1 .. n : Append(s, s = <<>>)[i] = s[i]
        BY <3>2, <3>3
      <3>6. \A i \in 1 .. n : s[i] <=> i = 1
        BY DEF RecallInv, FactsAreRight, s
      <3>7. \A i \in 1 .. n + 1 : Append(s, s = <<>>)[i] <=> i = 1
        <4> TAKE i \in 1 .. n + 1
        <4>1. CASE i \in 1 .. n
          BY <3>5, <3>6, <4>1
        <4>2. CASE i = n + 1
          <5>1. Append(s, s = <<>>)[i] <=> n = 0
            BY <3>3, <3>5, <4>2
          <5>2. n = 0 <=> i = 1
            BY <3>2, <4>2
          <5> QED BY <5>1, <5>2
        <4> QED BY <3>2, <4>1, <4>2
      <3>8. FactsAreRight'
        BY <3>2, <3>4, <3>5, <3>7 DEF RecallInv, FactsAreRight
      <3>9. reFacts' = [reFacts EXCEPT ![r] = Append(s, s = <<>>)]
        BY <3>1 DEF s
      <3> QED BY <3>5, <3>8, <3>9 DEF RecallInv, RecallTypes
    <2> QED BY <2>1, <2>2 DEF Re!Tick, Re!HandlerEnds
  <1>7. RecallTypes'
    BY <1>1, <1>3, <1>5, <1>6 DEF RecallInv, RecallTypes
  <1> QED BY <1>2, <1>4, <1>6, <1>7 DEF RecallInv

(* The messages of the room, and its members, are composed. *)
LEMMA RecallComposes ==
    ASSUME Re!RecallAssumption, RecallInv, Re!Compose
    PROVE  RecallInv'
  <1> DEFINE r == reJob.room
             n == Len(reMessages[r])
             k == Kept(n)
             s == Re!Newest(r)
             f == Re!Formatted(s)
             M == Re!Media(r, f)
             N == Re!Since(r, M, Re!FirstOf(f, M))
             A == {u \in People : <<u, r>> \in reMembers}
             S == IF M # {} THEN N ELSE IF reJob.media THEN {0} ELSE {}
             C == IF M = {} THEN f ELSE Re!R!Reverse(f)
  <1>1. /\ reState' = [reState EXCEPT !.actors = A, !.last = n, !.recent = C, !.shown = S]
        /\ reAt = "compose" /\ reAt' = "interactions"
        /\ UNCHANGED <<reHour, reMembers, reMessages, reFacts, reClaims, reGoals, reJob>>
    BY DEF Re!Compose, People
  <1>2. r \in Halls
    BY DEF RecallInv, RecallTypes
  <1>3. /\ n \in Nat /\ k \in 0 .. n /\ f \in Seq(Nat) /\ Len(f) = k
        /\ \A i \in 1 .. k : f[i] = n - k + i
        /\ Re!R!ToSet(f) \subseteq 1 .. n
    <2>1. RecallTypes /\ n = Len(reMessages[r]) /\ k = Kept(n)
      BY DEF RecallInv
    <2> HIDE DEF n, k, r
    <2> QED BY <1>2, <2>1, NewestIs
  <1>4. M # {} => N \subseteq M /\ N # {} /\ \A m \in M \ N, j \in N : m < j
    <2>1. /\ RecallTypes /\ RowsAreRight /\ f \in Seq(Nat) /\ M = Re!Media(r, f)
          /\ Re!R!ToSet(f) \subseteq 1 .. Len(reMessages[r]) /\ N = Re!Since(r, M, Re!FirstOf(f, M))
      BY <1>3 DEF RecallInv
    <2> HIDE DEF f, M, N, r
    <2> QED BY <1>2, <2>1, NewestAreShown
  <1>5. M \subseteq Re!R!ToSet(f) /\ M \subseteq 1 .. n
    BY <1>3 DEF Re!Media
  <1>6. S \in SUBSET Nat /\ (M # {} => S = N)
    <2>1. 1 .. n \subseteq Nat
      BY <1>3
    <2> HIDE DEF M, N, n
    <2>2. CASE M = {}
      BY <2>2
    <2>3. CASE M # {}
      BY <1>4, <1>5, <2>1, <2>3
    <2> QED BY <2>2, <2>3
  <1>7. C \in Seq(Nat) /\ Re!R!ToSet(C) = Re!R!ToSet(f)
    <2> HIDE DEF M, f, k, n
    <2> QED BY <1>3, ReverseIs
  <1>8. A \in SUBSET People
    OBVIOUS
  <1> HIDE DEF A, C, S
  <1>9. /\ reState'.facts = reState.facts /\ reState'.recent = C
        /\ reState'.last = n /\ reState'.actors = A /\ reState'.shown = S
    BY <1>1 DEF RecallInv, RecallTypes
  <1>10. RecallTypes'
    <2> HIDE DEF n
    <2> QED BY <1>1, <1>3, <1>6, <1>7, <1>8 DEF RecallInv, RecallTypes, Begun
  <1>11. StateIsRight'
    <2>1. \A m \in 1 .. n : reMessages[r][m].by \in A
      <3> TAKE m \in 1 .. n
      <3>1. <<reMessages[r][m].by, r>> \in reMembers
        BY <1>2 DEF RecallInv, RowsAreRight
      <3>2. reMessages[r][m] \in Messages
        BY <1>2 DEF RecallInv, RecallTypes
      <3> QED BY <3>1, <3>2 DEF A, Messages
    <2>2. Re!R!ToSet(C) \subseteq 1 .. n /\ n <= n
      BY <1>3, <1>7
    <2>3. reState'.last = n /\ reState'.recent = C /\ reState'.actors = A
          /\ reJob' = reJob /\ reMessages' = reMessages
      BY <1>1, <1>9
    <2> QED BY <2>1, <2>2, <2>3 DEF StateIsRight
  <1>12. Re!NewestPicturesShown'
    <2>1. {m \in Re!R!ToSet(C) : reMessages[r][m].media} = M
      BY <1>7 DEF Re!Media
    <2> HIDE DEF M, N
    <2>2. M # {} => M \cap S # {}
      BY <1>4, <1>6
    <2>3. \A m \in M \ S, j \in M \cap S : m < j
      BY <1>4, <1>6
    <2>4. /\ reState'.recent = C /\ reState'.shown = S
          /\ reJob' = reJob /\ reMessages' = reMessages
      BY <1>1, <1>9
    <2> QED BY <2>1, <2>2, <2>3, <2>4 DEF Re!NewestPicturesShown
  <1>13. AnswerIsStored' /\ Re!AnswerIsReflectedOn'
    BY <1>1 DEF AnswerIsStored, Re!AnswerIsReflectedOn
  <1>14. RowsAreRight' /\ FactsAreRight' /\ RoomsHold' /\ JobIsRight'
    BY <1>1 DEF RecallInv, RowsAreRight, FactsAreRight, RoomsHold, JobIsRight
  <1> QED BY <1>10, <1>11, <1>12, <1>13, <1>14 DEF RecallInv

(* The messages are read again, and no one else is. *)
LEMMA RecallUpdates ==
    ASSUME Re!RecallAssumption, RecallInv, Re!Update
    PROVE  RecallInv'
  <1> DEFINE r == reJob.room
             n == Len(reMessages[r])
             s == Re!Newest(r)
             M == Re!Media(r, s)
             S == IF M = {} THEN {} ELSE Re!Since(r, M, Re!FirstOf(s, M))
  <1>1. /\ reState' = [reState EXCEPT !.recent = s, !.shown = S]
        /\ reAt = "update" /\ reAt' = "evaluate"
        /\ UNCHANGED <<reHour, reMembers, reMessages, reFacts, reClaims, reGoals, reJob>>
    BY DEF Re!Update
  <1> DEFINE k == Kept(n)
  <1>2. /\ r \in Halls /\ n \in Nat /\ k \in 0 .. n
        /\ s \in Seq(Nat) /\ Re!R!ToSet(s) \subseteq 1 .. n
        /\ Len(s) = k /\ \A i \in 1 .. k : s[i] = n + 1 - i
    <2>1. r \in Halls /\ RecallTypes /\ n = Len(reMessages[r]) /\ k = Kept(n)
      BY DEF RecallInv, RecallTypes
    <2> HIDE DEF n, r, k
    <2>2. n \in Nat /\ k \in 0 .. n /\ s \in Seq(Nat) /\ Len(s) = k
      BY <2>1, NewestIs
    <2>3. ASSUME NEW i \in 1 .. k PROVE s[i] = n + 1 - i
      <3>1. s = [j \in 1 .. k |-> n + 1 - j]
        BY <2>1 DEF Re!Newest, Kept
      <3> QED BY <3>1
    <2>4. Re!R!ToSet(s) \subseteq 1 .. n
      BY <2>1, NewestIs
    <2> QED BY <2>1, <2>2, <2>3, <2>4
  <1>3. /\ M # {} => S \subseteq M /\ S # {} /\ \A m \in M \ S, j \in S : m < j
        /\ M = {} => S = {}
    <2>1. RecallTypes /\ RowsAreRight /\ M = Re!Media(r, s) /\ n = Len(reMessages[r])
      BY DEF RecallInv
    <2> HIDE DEF s, M, r, n
    <2> QED BY <1>2, <2>1, NewestAreShown
  <1>4. S \in SUBSET Nat
    BY <1>2 DEF Re!Since, Re!Media
  <1>5. ASSUME NEW m \in 1 .. n PROVE m \in Re!R!ToSet(s) \/ n - m >= Length
    <2> HIDE DEF s
    <2>1. CASE m > n - k
      <3>1. n + 1 - m \in 1 .. k /\ n + 1 - (n + 1 - m) = m
        BY <1>2, <2>1
      <3>2. s[n + 1 - m] = m /\ n + 1 - m \in DOMAIN s
        BY <1>2, <3>1
      <3> QED BY <3>2 DEF Re!R!ToSet
    <2>2. CASE m <= n - k
      BY <1>2, <2>2, Instances DEF Kept, Re!RecallAssumption
    <2> QED BY <1>2, <2>1, <2>2
  <1> HIDE DEF s, S
  <1>6. /\ reState'.facts = reState.facts /\ reState'.recent = s /\ reState'.shown = S
        /\ reState'.last = reState.last /\ reState'.actors = reState.actors
    BY <1>1 DEF RecallInv, RecallTypes
  <1>7. RecallTypes'
    BY <1>1, <1>2, <1>4 DEF RecallInv, RecallTypes, Begun
  <1>8. StateIsRight' /\ AnswerIsStored'
    BY <1>1, <1>2, <1>6 DEF RecallInv, StateIsRight, Begun, AnswerIsStored
  <1>9. Re!NewestPicturesShown'
    <2>1. {m \in Re!R!ToSet(s) : reMessages[r][m].media} = M
      BY DEF Re!Media
    <2> HIDE DEF M
    <2>2. (M # {} => M \cap S # {}) /\ \A m \in M \ S, j \in M \cap S : m < j
      BY <1>3
    <2>3. /\ reState'.recent = s /\ reState'.shown = S
          /\ reJob' = reJob /\ reMessages' = reMessages
      BY <1>1, <1>6
    <2> QED BY <2>1, <2>2, <2>3 DEF Re!NewestPicturesShown
  <1>10. Re!AnswerIsReflectedOn'
    <2>1. PICK m \in 1 .. n : reMessages[r][m].by = Agent /\ m > reState.last
      BY <1>1 DEF RecallInv, AnswerIsStored
    <2>2. DOMAIN reMessages[r] = 1 .. n
      BY <1>2 DEF RecallInv, RecallTypes
    <2>3. m \in Re!R!ToSet(s) \/ n - m >= Length
      BY <1>5
    <2> QED BY <1>1, <1>6, <2>1, <2>2, <2>3 DEF Re!AnswerIsReflectedOn
  <1>11. RowsAreRight' /\ FactsAreRight' /\ RoomsHold' /\ JobIsRight'
    BY <1>1 DEF RecallInv, RowsAreRight, FactsAreRight, RoomsHold, JobIsRight, Begun
  <1> QED BY <1>7, <1>8, <1>9, <1>10, <1>11 DEF RecallInv

LEMMA RecallNext ==
    ASSUME Re!RecallAssumption, RecallInv, Re!Next
    PROVE  RecallInv'
  <1>1. CASE Re!Step \/ Re!Ignore
    <2>1. Re!Compose \/ Re!Interactions \/ Re!Provide \/ Re!Respond \/ Re!Update
          \/ (Re!Ignore \/ \E named \in BOOLEAN : Re!Evaluate(named))
      BY <1>1 DEF Re!Step
    <2> QED BY <2>1, RecallComposes, RecallInteracts, RecallProvides, RecallResponds, RecallUpdates,
               HandlerReturns
  <1>2. CASE \E u \in Talkers, r \in Halls, media \in BOOLEAN :
               Re!Post(u, r, media) \/ \E stored \in BOOLEAN : Re!Receive(u, r, media, stored)
    BY <1>2, RecallPosts, RecallReceives
  <1>3. CASE Re!Tick \/ \E r \in Halls : Re!StoreFact(r) \/ Re!HandlerEnds(r)
    BY <1>3, RecallBeside
  <1> QED BY <1>1, <1>2, <1>3 DEF Re!Next

(* Nothing is remembered of anyone at first. *)
LEMMA RecallBegins == ASSUME Re!RecallAssumption, Re!Init PROVE RecallInv
  <1>1. /\ reHour = 0 /\ reMembers = {} /\ reMessages = [r \in Halls |-> <<>>]
        /\ reFacts = [r \in Halls |-> <<>>] /\ reClaims = [r \in Halls |-> FALSE]
        /\ reGoals \subseteq Halls /\ reAt = "idle" /\ reJob = Re!NoJob /\ reState = Re!NoState
    BY DEF Re!Init
  <1>2. <<>> \in Seq(Messages) /\ <<>> \in Seq(BOOLEAN) /\ Len(<<>>) = 0
    OBVIOUS
  <1>3. RecallTypes
    BY <1>1, <1>2, NothingComposed DEF RecallTypes, Re!RecallAssumption
  <1>4. \A r \in Halls : reMessages[r] = <<>> /\ reFacts[r] = <<>>
    BY <1>1
  <1>5. RowsAreRight /\ FactsAreRight /\ RoomsHold
    BY <1>2, <1>4 DEF RowsAreRight, FactsAreRight, RoomsHold, Re!RecallAssumption
  <1>6. /\ JobIsRight /\ StateIsRight /\ AnswerIsStored
        /\ Re!NewestPicturesShown /\ Re!AnswerIsReflectedOn
    BY <1>1 DEF JobIsRight, StateIsRight, AnswerIsStored, Begun, Re!Begun, Re!NewestPicturesShown,
           Re!AnswerIsReflectedOn
  <1> QED BY <1>3, <1>5, <1>6 DEF RecallInv

(* A user is a member of the rooms that have messages of theirs, so those  *)
(* are looked in; and what is left out is so for younger messages.         *)
LEMMA OwnWordsAre ==
    ASSUME Re!RecallAssumption, RecallInv, Re!Next, reAt = "interactions", reAt' = "provide",
           NEW r \in Halls \ {reJob.room}, NEW n \in DOMAIN reMessages[r],
           reMessages[r][n].by = reJob.by
    PROVE  \/ <<r, n>> \in reState'.elsewhere
           \/ Re!Cardinality(Re!Younger(Re!MessagesOf(Halls \ {reJob.room}),
                                        reMessages[r][n].born)) >= Interacted
  <1>1. Re!Interactions
    BY DEF Re!Next, Re!Step, Re!Compose, Re!Provide, Re!Respond, Re!Update, Re!Evaluate, Re!Ignore,
           Re!Tick, Re!Post, Re!Receive, Re!StoreFact, Re!HandlerEnds
  <1> DEFINE E == Re!MessagesOf(Re!RoomsFor(reJob.by) \ {reJob.room})
             A == Re!MessagesOf(Halls \ {reJob.room})
             b == reMessages[r][n].born
             Y == Re!Younger(E, b)
             Z == Re!Younger(A, b)
  <1>2. reState'.elsewhere = Re!Youngest(E)
    BY <1>1 DEF Re!Interactions, RecallInv, RecallTypes
  <1>3. <<r, n>> \in E
    <2>1. n \in 1 .. Len(reMessages[r])
      BY DEF RecallInv, RecallTypes
    <2>2. <<reJob.by, r>> \in reMembers
      BY <2>1 DEF RecallInv, RowsAreRight
    <2> QED BY <2>2 DEF Re!RoomsFor, Re!MessagesOf
  <1>4. E \subseteq A
    BY DEF Re!RoomsFor, Re!MessagesOf
  <1>5. Y \subseteq Z /\ Z \subseteq A
    BY <1>4 DEF Re!Younger
  <1>6. IsFiniteSet(Z)
    <2>1. IsFiniteSet(A)
      BY MessagesAreFinite DEF RecallInv
    <2> HIDE DEF A, Z
    <2> QED BY <1>5, <2>1, FS_Subset
  <1>7. /\ Cardinality(Y) <= Cardinality(Z)
        /\ Cardinality(Y) \in Nat /\ Cardinality(Z) \in Nat
    <2> HIDE DEF Y, Z
    <2>1. IsFiniteSet(Y)
      BY <1>5, <1>6, FS_Subset
    <2> QED BY <1>5, <1>6, <2>1, FS_Subset, FS_CardinalityType
  <1>8. Re!Cardinality(Y) = Cardinality(Y) /\ Re!Cardinality(Z) = Cardinality(Z)
    BY Zenon DEF Re!Cardinality, Cardinality
  <1>9. Interacted \in Nat
    BY DEF Re!RecallAssumption
  <1>10. Re!Cardinality(Y) < Interacted => <<r, n>> \in Re!Youngest(E)
    BY <1>3 DEF Re!Youngest
  <1> HIDE DEF E, A, Y, Z
  <1>11. CASE Re!Cardinality(Y) < Interacted
    BY <1>2, <1>10, <1>11
  <1>12. CASE ~(Re!Cardinality(Y) < Interacted)
    <2> DEFINE y == Cardinality(Y)
               z == Cardinality(Z)
    <2>1. y <= z /\ y \in Nat /\ z \in Nat /\ ~(y < Interacted)
      BY <1>7, <1>8, <1>12
    <2> HIDE DEF y, z
    <2>2. z >= Interacted
      BY <1>9, <2>1
    <2> QED BY <1>8, <2>2 DEF z, Z, A, b
  <1> QED BY <1>11, <1>12

(* The first fact of a room is unique, and the provider asks for those.    *)
LEMMA FactsAre ==
    ASSUME Re!RecallAssumption, RecallInv, Re!Next, reAt = "provide", reAt' = "decide",
           reFacts[reJob.room] # <<>>
    PROVE  reState'.facts > 0
  <1>1. Re!Provide
    BY DEF Re!Next, Re!Step, Re!Compose, Re!Interactions, Re!Respond, Re!Update, Re!Evaluate,
           Re!Ignore, Re!Tick, Re!Post, Re!Receive, Re!StoreFact, Re!HandlerEnds
  <1> DEFINE s == reFacts[reJob.room]
             U == {i \in DOMAIN s : s[i]}
  <1>2. s \in Seq(BOOLEAN) /\ DOMAIN s = 1 .. Len(s) /\ Len(s) > 0
    BY EmptySeq DEF RecallInv, RecallTypes
  <1>3. U = {i \in DOMAIN s : i = 1}
    BY <1>2 DEF RecallInv, RecallTypes, FactsAreRight
  <1>4. reState'.facts = Re!Cardinality(U)
    BY <1>1 DEF Re!Provide, Re!Known, RecallInv, RecallTypes
  <1> HIDE DEF s, U
  <1>5. Re!Cardinality(U) = 1
    BY <1>2, <1>3, OneOf
  <1> QED BY <1>4, <1>5

(* What the invariant says of what is composed. *)
LEMMA RecallTold ==
    ASSUME RecallInv
    PROVE  /\ Re!NewestPicturesShown /\ Re!OnlyNewcomersUnknown /\ Re!AnswerIsReflectedOn
           /\ Re!TypeOK
  <1>1. Re!NewestPicturesShown /\ Re!AnswerIsReflectedOn
    BY DEF RecallInv
  <1>2. Re!OnlyNewcomersUnknown
    <2> SUFFICES ASSUME reAt \in Begun, NEW n \in Re!R!ToSet(reState.recent)
                 PROVE  reMessages[reJob.room][n].by \in reState.actors \/ n > reState.last
      BY DEF Re!OnlyNewcomersUnknown, Begun, Re!Begun
    <2>1. /\ n \in 1 .. Len(reMessages[reJob.room]) /\ reState.last \in Nat
          /\ \A m \in 1 .. reState.last : reMessages[reJob.room][m].by \in reState.actors
      BY DEF RecallInv, RecallTypes, StateIsRight
    <2> QED BY <2>1
  <1>3. Re!TypeOK
    BY DEF RecallInv, RecallTypes, RoomsHold, FactsAreRight, Begun, People, Re!TypeOK
  <1> QED BY <1>1, <1>2, <1>3

LEMMA RecallStays == RecallInv /\ UNCHANGED reVars => RecallInv'
  <1> SUFFICES ASSUME RecallInv, UNCHANGED reVars PROVE RecallInv'
    OBVIOUS
  <1>1. UNCHANGED <<reHour, reMembers, reMessages, reFacts, reClaims, reGoals, reAt, reJob, reState>>
    BY DEF reVars
  <1>2. RecallTypes' /\ RowsAreRight' /\ FactsAreRight'
    BY <1>1 DEF RecallInv, RecallTypes, RowsAreRight, FactsAreRight
  <1>3. RoomsHold' /\ JobIsRight' /\ StateIsRight'
    BY <1>1 DEF RecallInv, RoomsHold, JobIsRight, StateIsRight
  <1>4. AnswerIsStored' /\ Re!NewestPicturesShown' /\ Re!AnswerIsReflectedOn'
    BY <1>1 DEF RecallInv, AnswerIsStored, Re!NewestPicturesShown, Re!AnswerIsReflectedOn
  <1> QED BY <1>2, <1>3, <1>4 DEF RecallInv

(* Whichever part is driven, the others keep still. *)
LEMMA RecallSystem == SysSpec => []RecallInv
  <1>1. SysInit => RecallInv
    BY Instances, RecallBegins DEF SysInit
  <1>2. RecallInv /\ [SysNext]_sysVars => RecallInv'
    <2> SUFFICES ASSUME RecallInv, [SysNext]_sysVars PROVE RecallInv'
      OBVIOUS
    <2>1. Re!Next \/ UNCHANGED reVars
      BY DEF SysNext, sysVars, Connecting, Recommending, Recalling
    <2> QED BY <2>1, Instances, RecallNext, RecallStays
  <1> QED BY <1>1, <1>2, PTL DEF SysSpec

(* In every state a handler of a message reaches, whatever others store    *)
(* meanwhile: where there are pictures the newest are shown, every author  *)
(* it cannot name came after it began, and the evaluators are shown what   *)
(* was answered.  In every step: what the user has said elsewhere is       *)
(* recalled unless enough was said there since, and so is a fact of a room *)
(* that has any.                                                           *)
THEOREM RecalledRightly == SysSpec => WhatIsRecalled
  <1>1. SysSpec => [](Re!NewestPicturesShown /\ Re!OnlyNewcomersUnknown /\ Re!AnswerIsReflectedOn)
    BY RecallSystem, RecallTold, PTL
  <1>2. RecallInv /\ [SysNext]_sysVars
          => [(reAt = "interactions" /\ reAt' = "provide") =>
                 \A r \in Halls \ {reJob.room} : \A n \in DOMAIN reMessages[r] :
                    reMessages[r][n].by = reJob.by =>
                       \/ <<r, n>> \in reState'.elsewhere
                       \/ Re!Cardinality(Re!Younger(Re!MessagesOf(Halls \ {reJob.room}),
                                                    reMessages[r][n].born)) >= Interacted]_reVars
    <2> SUFFICES ASSUME RecallInv, [SysNext]_sysVars, ~UNCHANGED reVars,
                        reAt = "interactions", reAt' = "provide",
                        NEW r \in Halls \ {reJob.room}, NEW n \in DOMAIN reMessages[r],
                        reMessages[r][n].by = reJob.by
                 PROVE  \/ <<r, n>> \in reState'.elsewhere
                        \/ Re!Cardinality(Re!Younger(Re!MessagesOf(Halls \ {reJob.room}),
                                                     reMessages[r][n].born)) >= Interacted
      OBVIOUS
    <2>1. Re!Next
      BY DEF SysNext, sysVars, Connecting, Recommending, Recalling
    <2> QED BY <2>1, Instances, OwnWordsAre
  <1>3. RecallInv /\ [SysNext]_sysVars
          => [(reAt = "provide" /\ reAt' = "decide" /\ reFacts[reJob.room] # <<>>)
                 => reState'.facts > 0]_reVars
    <2> SUFFICES ASSUME RecallInv, [SysNext]_sysVars, ~UNCHANGED reVars,
                        reAt = "provide", reAt' = "decide", reFacts[reJob.room] # <<>>
                 PROVE  reState'.facts > 0
      OBVIOUS
    <2>1. Re!Next
      BY DEF SysNext, sysVars, Connecting, Recommending, Recalling
    <2> QED BY <2>1, Instances, FactsAre
  <1>4. SysSpec => Re!OwnWordsRecalled
    BY <1>2, RecallSystem, PTL DEF SysSpec, Re!OwnWordsRecalled, Re!vars, reVars
  <1>5. SysSpec => Re!FactsRecalled
    BY <1>3, RecallSystem, PTL DEF SysSpec, Re!FactsRecalled, Re!vars, reVars
  <1> QED BY <1>1, <1>4, <1>5, PTL DEF WhatIsRecalled, Re!Recalls

----------------------------------------------------------------------------
(* What is counted of recommenders stays within its bounds, and the        *)
(* recommendations that wait are of managers of this process.              *)
TrustCounts ==
    /\ trManagers \in [own : Nat, swaps : Nat]
    /\ trManagers.own + trManagers.swaps <= MaxManagers
    /\ trRestarts \in 0 .. MaxRestarts /\ trLost \subseteq Tokens
    /\ \A p \in trInflight : p.by \in 1 .. trManagers.own

LEMMA TrustCountsNext ==
    ASSUME Tr!TrustAssumption, TrustCounts, Tr!Next
    PROVE  TrustCounts'
  <1>1. ASSUME NEW u \in Recommenders, NEW t \in Tokens, NEW given \in BOOLEAN,
               Tr!Recommend(u, t, given)
        PROVE  TrustCounts'
    <2> DEFINE new == [user |-> Tr!Credited(u), token |-> t, by |-> trManagers'.own]
    <2>1. /\ trManagers.own + trManagers.swaps < MaxManagers
          /\ trManagers' = [trManagers EXCEPT !.own = @ + 1]
          /\ trInflight' = trInflight \cup {new}
          /\ UNCHANGED <<trLost, trRestarts>>
      BY <1>1 DEF Tr!Recommend, Tr!Consume
    <2>2. /\ trManagers' \in [own : Nat, swaps : Nat]
          /\ trManagers'.own = trManagers.own + 1 /\ trManagers'.swaps = trManagers.swaps
      BY <2>1 DEF TrustCounts
    <2>3. new.by = trManagers'.own
      OBVIOUS
    <2> HIDE DEF new
    <2>4. \A p \in trInflight' : p.by \in 1 .. trManagers'.own
      BY <2>1, <2>2, <2>3 DEF TrustCounts
    <2> QED BY <2>1, <2>2, <2>4 DEF TrustCounts, Tr!TrustAssumption
  <1>2. ASSUME NEW p \in trInflight, Tr!Trade(p) PROVE TrustCounts'
    <2>1. trInflight' \subseteq trInflight /\ UNCHANGED <<trManagers, trLost, trRestarts>>
      BY <1>2 DEF Tr!Trade
    <2> QED BY <2>1 DEF TrustCounts
  <1>3. ASSUME NEW u \in Recommenders, NEW t \in Tokens, Tr!SellMessage(u, t) PROVE TrustCounts'
    <2>1. /\ trLost' \subseteq trLost \cup {t}
          /\ UNCHANGED <<trInflight, trManagers, trRestarts>>
      BY <1>3 DEF Tr!SellMessage
    <2> QED BY <2>1 DEF TrustCounts
  <1>4. ASSUME NEW u \in Recommenders, NEW t \in Tokens, NEW type \in {"buy", "sell"},
               Tr!ConfirmedSwap(u, type, t)
        PROVE  TrustCounts'
    <2>1. /\ trManagers.own + trManagers.swaps < MaxManagers
          /\ trManagers' = [trManagers EXCEPT !.swaps = @ + 1]
          /\ UNCHANGED <<trInflight, trLost, trRestarts>>
      BY <1>4 DEF Tr!ConfirmedSwap, Tr!Consume
    <2>2. /\ trManagers' \in [own : Nat, swaps : Nat]
          /\ trManagers'.own = trManagers.own /\ trManagers'.swaps = trManagers.swaps + 1
      BY <2>1 DEF TrustCounts
    <2> QED BY <2>1, <2>2 DEF TrustCounts, Tr!TrustAssumption
  <1>5. CASE Tr!Provide \/ Tr!Expire
    BY <1>5 DEF Tr!Provide, Tr!Expire, TrustCounts
  <1>6. CASE Tr!Restart
    <2>1. /\ trRestarts < MaxRestarts /\ trRestarts' = trRestarts + 1 /\ trInflight' = {}
          /\ trManagers' = [own |-> 0, swaps |-> 0] /\ trLost' = trLost
      BY <1>6 DEF Tr!Restart
    <2> QED BY <2>1 DEF TrustCounts, Tr!TrustAssumption
  <1>7. ASSUME NEW t \in Tokens, Tr!SellMessageLost(t) PROVE TrustCounts'
    <2>1. /\ trLost' \subseteq trLost \cup {t}
          /\ UNCHANGED <<trInflight, trManagers, trRestarts>>
      BY <1>7 DEF Tr!SellMessageLost
    <2> QED BY <2>1 DEF TrustCounts
  <1> QED BY <1>1, <1>2, <1>3, <1>4, <1>5, <1>6, <1>7 DEF Tr!Next

(* The agent's tables, the recommenders' and what an agent recalls keep    *)
(* their types together, whichever of them is driven.                      *)
THEOREM ConnectionKeepsTypes == SysSpec => []TypesOK
  <1>1. SysInit => Inv /\ TrustInv /\ TrustCounts
    <2> SUFFICES ASSUME SysInit PROVE Inv /\ TrustInv /\ TrustCounts
      OBVIOUS
    <2>1. Init /\ Tr!Init
      BY DEF SysInit
    <2>2. TrustInv
      BY <2>1 DEF Tr!Init, Tr!Empty, TrustInv, EmptyTables, Unfilled
    <2>3. TrustCounts
      BY <2>1, Instances DEF Tr!Init, TrustCounts, Tr!TrustAssumption
    <2> QED BY <2>1, <2>2, <2>3, InitInv
  <1>2. Inv /\ TrustInv /\ TrustCounts /\ [SysNext]_sysVars
          => (Inv /\ TrustInv /\ TrustCounts)'
    <2> SUFFICES ASSUME Inv, TrustInv, TrustCounts, [SysNext]_sysVars
                 PROVE  (Inv /\ TrustInv /\ TrustCounts)'
      OBVIOUS
    <2>1. [Next]_vars /\ (Tr!Next \/ UNCHANGED trVars)
      BY DEF SysNext, sysVars, Connecting, Recommending, Recalling
    <2>2. Inv'
      BY <2>1, NextInv
    <2>3. CASE Tr!Next
      BY <2>2, <2>3, Instances, TrustNext, TrustCountsNext
    <2>4. CASE UNCHANGED trVars
      BY <2>2, <2>4 DEF trVars, TrustInv, TrustCounts
    <2> QED BY <2>1, <2>3, <2>4
  <1>3. Inv /\ TrustInv /\ TrustCounts /\ RecallInv => TypesOK
    <2> SUFFICES ASSUME Inv, TrustInv, TrustCounts, RecallInv PROVE TypesOK
      OBVIOUS
    <2>1. /\ trDb.recommenders = {} /\ trDb.metrics = {}
          /\ trDb.schema \in BOOLEAN /\ trDb.keys \in BOOLEAN
      BY DEF TrustInv, EmptyTables
    <2>2. Tr!TypeOK
      BY <2>1, Instances DEF TrustInv, TrustCounts, Tr!TypeOK, Tr!TrustAssumption
    <2> QED BY <2>2, RecallTold DEF Inv, TypesOK
  <1> QED BY <1>1, <1>2, <1>3, RecallSystem, PTL DEF SysSpec

============================================================================
