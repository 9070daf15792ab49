---------------------------- MODULE MCConnection ---------------------------
(***************************************************************************)
(* Who is who, on small instances: Connection, which this module extends   *)
(* (calls and users are interchangeable), Trust, the recommenders among    *)
(* the users and their trades, and Recall, what an agent composes of what  *)
(* it has been told.  They share no state, so each is driven on its own:   *)
(* the first state chooses which.                                          *)
(***************************************************************************)
EXTENDS Connection, TLC

CONSTANTS
    Recommenders, First, Tokens, MaxManagers, MaxRestarts, \* of Trust
    Talkers, Agent, Halls, Bare, Length,                   \* of Recall
    Interacted, MaxMessages, MaxFacts, MaxHours

VARIABLES
    driven,
    trDb, trCache, trMemories, trInflight, trManagers, trWatching, trLost, trSwaps,
    trAsked, trAlive, trRestarts,
    reHour, reMembers, reMessages, reFacts, reClaims, reGoals, reAt, reJob, reState

Tr == INSTANCE Trust WITH
    Users <- Recommenders,
    db <- trDb, cache <- trCache, memories <- trMemories, inflight <- trInflight,
    managers <- trManagers, watching <- trWatching, lost <- trLost, swaps <- trSwaps,
    asked <- trAsked, alive <- trAlive, restarts <- trRestarts

Re == INSTANCE Recall WITH
    Users <- Talkers, Rooms <- Halls,
    hour <- reHour, members <- reMembers, messages <- reMessages, facts <- reFacts,
    claims <- reClaims, goals <- reGoals, at <- reAt, job <- reJob, state <- reState

trVars ==
    <<trDb, trCache, trMemories, trInflight, trManagers, trWatching, trLost, trSwaps,
      trAsked, trAlive, trRestarts>>
reVars == <<reHour, reMembers, reMessages, reFacts, reClaims, reGoals, reAt, reJob, reState>>
ASSUME Instances == Tr!TrustAssumption /\ Re!RecallAssumption

sysVars == <<driven, vars, trVars, reVars>>

SysInit ==
    /\ driven \in {"connection", "trust", "recall"}
    /\ Init /\ Tr!Init /\ Re!Init
    /\ driven # "connection" => adapter = "sqlite"
    /\ driven # "recall" => reGoals = {}

Connecting == driven = "connection" /\ Next /\ UNCHANGED <<driven, trVars, reVars>>
Recommending == driven = "trust" /\ Tr!Next /\ UNCHANGED <<driven, vars, reVars>>
Recalling == driven = "recall" /\ Re!Next /\ UNCHANGED <<driven, vars, trVars>>

SysNext == Connecting \/ Recommending \/ Recalling

SysSpec == SysInit /\ [][SysNext]_sysVars

Symmetry == Permutations(Calls) \cup Permutations(Users) \cup Permutations(Tokens)
            \cup Permutations(Talkers)

----------------------------------------------------------------------------
(* Types of the tables of the agent and of the recommenders, and of states. *)
TypesOK == TypeOK /\ Tr!TypeOK /\ Re!TypeOK

(* Recall: what of messages, pictures, other rooms and facts is composed.  *)
WhatIsRecalled == Re!Recalls

============================================================================
