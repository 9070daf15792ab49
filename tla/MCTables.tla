------------------------------ MODULE MCTables -----------------------------
(***************************************************************************)
(* What the database holds and how it is reached, on small instances:      *)
(* Goals, which this module extends; Adapters, the same calls on both      *)
(* databases; Ports, an agent's calls on two others; Cache, the cache      *)
(* manager over them; Pool, the connections of the postgres adapter.  They *)
(* share no state, so each is driven on its own: the first state chooses   *)
(* which.                                                                  *)
(***************************************************************************)
EXTENDS Goals, FiniteSets

CONSTANTS
    Users, Rooms, Messages, Named, Vectored, About, Plans, Aim, MaxCopies,  \* of Adapters and Ports
    MaxLost,                                                      \* of Adapters
    MaxRows,                                                      \* bound: rows of sqlite
    Agent, Own,                                                   \* of Ports
    u1, u2, rm, m1,                                               \* two users, a room, a memory
    Callers, Values, Expiries, MaxTime, MaxStray, MaxCacheFaults, \* of Cache
    Queries, MaxRetries, MaxErrors, MaxPoolFaults                 \* of Pool

(* Memories of one room and of one text, and a goal of the room. *)
Alike == [m \in Messages |->
             [room |-> rm, user |-> IF m = m1 THEN u1 ELSE u2, text |-> "same"]]
OneAim == [g \in Plans |-> [room |-> rm, user |-> u1]]

VARIABLES
    driven,
    adSq, adPg, adCreating, adOverlaps, adParted, adFaults,
    ptSq, ptSj, ptSu, ptUnhandled, ptAlive,
    caEntry, caCaller, caStray, caNow, caFaults, caKept, caOutlived,
    poAlive, poCur, poPool, poQuery, poHandler, poErrors, poBadTest, poFaults

Ad == INSTANCE Adapters WITH
    Goals <- Plans, MaxFaults <- MaxLost,
    sq <- adSq, pg <- adPg, creating <- adCreating, overlaps <- adOverlaps,
    parted <- adParted, faults <- adFaults

Pt == INSTANCE Ports WITH
    Goals <- Plans,
    sq <- ptSq, sj <- ptSj, su <- ptSu, unhandled <- ptUnhandled, alive <- ptAlive

Ca == INSTANCE Cache WITH
    MaxFaults <- MaxCacheFaults,
    entry <- caEntry, caller <- caCaller, stray <- caStray, now <- caNow,
    faults <- caFaults, kept <- caKept, outlived <- caOutlived

Po == INSTANCE Pool WITH
    MaxFaults <- MaxPoolFaults,
    alive <- poAlive, cur <- poCur, pool <- poPool, query <- poQuery,
    handler <- poHandler, errors <- poErrors, badTest <- poBadTest, faults <- poFaults

adVars == <<adSq, adPg, adCreating, adOverlaps, adParted, adFaults>>
ptVars == <<ptSq, ptSj, ptSu, ptUnhandled, ptAlive>>
caVars == <<caEntry, caCaller, caStray, caNow, caFaults, caKept, caOutlived>>
poVars == <<poAlive, poCur, poPool, poQuery, poHandler, poErrors, poBadTest, poFaults>>

ASSUME Instances ==
    Ad!AdaptersAssumption /\ Pt!PortsAssumption /\ Ca!CacheAssumption /\ Po!PoolAssumption

sysVars == <<driven, vars, adVars, ptVars, caVars, poVars>>

(* The goal of a run of the others, which does not matter. *)
Resting ==
    /\ mode = [adapter |-> "sqlite", overlap |-> FALSE]
    /\ goal.objectives[1].description = CHOOSE o \in Objectives : TRUE

SysInit ==
    /\ driven \in {"goals", "adapters", "ports", "cache", "pool"}
    /\ Init /\ Ad!SysInit /\ Pt!PortsInit /\ Ca!Init /\ Po!Init
    /\ driven # "goals" => Resting

(* Rows of a database beside its accounts and rooms. *)
RowCount(db) ==
    LET joined == {k \in DOMAIN db.members : db.members[k] # <<>>}
        related == {p \in DOMAIN db.bonds : db.bonds[p] > 0}
    IN  Cardinality(db.memories) + Cardinality(db.goals) + Cardinality(joined) + Cardinality(related)

Evaluating == driven = "goals" /\ Next /\ UNCHANGED <<driven, adVars, ptVars, caVars, poVars>>
Storing ==
    /\ driven = "adapters" /\ Ad!SysNext /\ RowCount(adSq') <= MaxRows
    /\ UNCHANGED <<driven, vars, ptVars, caVars, poVars>>
Porting == driven = "ports" /\ Pt!PortsNext /\ UNCHANGED <<driven, vars, adVars, caVars, poVars>>
Caching == driven = "cache" /\ Ca!Next /\ UNCHANGED <<driven, vars, adVars, ptVars, poVars>>
Pooling == driven = "pool" /\ Po!Next /\ UNCHANGED <<driven, vars, adVars, ptVars, caVars>>

SysNext == Evaluating \/ Storing \/ Porting \/ Caching \/ Pooling

(* The fairness of each, asked of what is driven.  (At first nobody calls  *)
(* the cache, and nothing is asked of it.)                                 *)
SysSpec ==
    /\ SysInit /\ [][SysNext]_sysVars
    /\ WF_caVars(Ca!StrayDelete) /\ \A c \in Callers : WF_caVars(Ca!Step(c))
    /\ WF_poVars(driven = "pool" /\ Po!Continue)

----------------------------------------------------------------------------
(* Types of the goal, its evaluations, the two databases, cache and pool. *)
TypesOK ==
    /\ TypeOK
    /\ driven = "adapters" => Ad!TypeOK
    /\ driven = "cache" => Ca!TypeOK
    /\ driven = "pool" => Po!TypeOK

(* Adapters: the databases answer alike until a call parts them, and of    *)
(* two similar memories one is marked a copy, but for overlaps.  Ports: an *)
(* agent moved to the other two reads nothing it would not read on sqlite. *)
DatabasesAgree ==
    /\ driven = "adapters" => Ad!AdaptersAgree /\ Ad!UniqueRowsDiffer
    /\ driven = "ports" => Pt!SqlJsAddsNothing /\ Pt!SupabaseAddsNothing

(* Cache and pool: what was set is found, while nothing has expired, and   *)
(* one error of an idle connection is survived.                            *)
StoresHold ==
    /\ driven = "cache" => Ca!SetSticks
    /\ driven = "pool" => Po!SurvivesOneError

(* What is stale is replaced: an expired entry that was looked at leaves   *)
(* the table, and a pool that was ended gives way to a new one.            *)
StoresRecover == Ca!ExpiredPurged /\ Po!Reconnects

============================================================================
