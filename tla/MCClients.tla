------------------------------ MODULE MCClients ----------------------------
(***************************************************************************)
(* The clients of an agent, on small instances: Conversation, which this   *)
(* module extends; Telegram, Direct and Posting, the other ways to talk to *)
(* it; Farcaster, which it does not start; Attachments and Reactions, the  *)
(* rest of Discord's text channels; Launch, which starts them.  Each is    *)
(* driven on its own: the first state chooses which.                       *)
(***************************************************************************)
EXTENDS Conversation

CONSTANTS
    Chats, Updates, MaxNumber, MaxTelegramFaults,    \* of Telegram
    Requests,                                        \* of Direct
    Slots,                                           \* of Posting
    Attached, Mp4s, Videos, Others, j1, j2, v1,      \* of Attachments, and three of them
    Users, MaxEvents,                                \* of Reactions
    Agents, Kinds, MaxLaunchFaults,                  \* of Launch
    Mentions, Silent, MaxCasts, MaxFarcasterFaults,  \* of Farcaster
    MaxTime, MaxFaults                               \* of the others

(* Three clients for each agent. *)
ThreeKinds == <<"discord", "telegram", "twitter">>

VARIABLES
    driven,
    teDb, teAlive, teLast, teRows, teAt, teJob, teLate, teFaults,
    diDb, diAlive, diClosing, diNow, diRows, diAt, diId, diTold, diFaults,
    poAlive, poTimer, poRound, poChunks, poSending, poFaults,
    anNow, anCache, anAt, anUrl, anStamp, anText, anRun, anSource, anMp4, anMp3, anFaults,
    reAlive, reNow, reDb, reLast, reAt, reStamp, reRows, reNamed, reFaults,
    laAlive, laDb, laMade, laCur, laAt, laBase, laTest, laInit, laAwaited, laEnsuring,
    laClients, laRegistered, laFaults,
    faMentions, faMute, faAt, faTodo, faAnswer, faCasts, faKnown, faRows, faPosting, faFaults

Te == INSTANCE Telegram WITH
    MaxFaults <- MaxTelegramFaults,
    db <- teDb, alive <- teAlive, last <- teLast, rows <- teRows, at <- teAt, job <- teJob,
    late <- teLate, faults <- teFaults

Di == INSTANCE Direct WITH
    db <- diDb, alive <- diAlive, closing <- diClosing, now <- diNow, rows <- diRows,
    at <- diAt, id <- diId, told <- diTold, faults <- diFaults

Po == INSTANCE Posting WITH
    alive <- poAlive, timer <- poTimer, round <- poRound, chunks <- poChunks,
    sending <- poSending, faults <- poFaults

An == INSTANCE Attachments WITH
    Jobs <- Attached,
    now <- anNow, cache <- anCache, at <- anAt, url <- anUrl, stamp <- anStamp,
    text <- anText, run <- anRun, source <- anSource, mp4 <- anMp4, mp3 <- anMp3,
    faults <- anFaults

Re == INSTANCE Reactions WITH
    alive <- reAlive, now <- reNow, db <- reDb, last <- reLast, at <- reAt,
    stamp <- reStamp, rows <- reRows, named <- reNamed, faults <- reFaults

La == INSTANCE Launch WITH
    MaxFaults <- MaxLaunchFaults,
    alive <- laAlive, db <- laDb, made <- laMade, cur <- laCur, at <- laAt, base <- laBase,
    test <- laTest, init <- laInit, awaited <- laAwaited, ensuring <- laEnsuring,
    clients <- laClients, registered <- laRegistered, faults <- laFaults

Fa == INSTANCE Farcaster WITH
    MaxFaults <- MaxFarcasterFaults,
    mentions <- faMentions, mute <- faMute, at <- faAt, todo <- faTodo, answer <- faAnswer,
    casts <- faCasts, known <- faKnown, rows <- faRows, posting <- faPosting, faults <- faFaults

teVars == <<teDb, teAlive, teLast, teRows, teAt, teJob, teLate, teFaults>>
diVars == <<diDb, diAlive, diClosing, diNow, diRows, diAt, diId, diTold, diFaults>>
poVars == <<poAlive, poTimer, poRound, poChunks, poSending, poFaults>>
anVars == <<anNow, anCache, anAt, anUrl, anStamp, anText, anRun, anSource, anMp4, anMp3, anFaults>>
reVars == <<reAlive, reNow, reDb, reLast, reAt, reStamp, reRows, reNamed, reFaults>>
laVars == <<laAlive, laDb, laMade, laCur, laAt, laBase, laTest, laInit, laAwaited,
            laEnsuring, laClients, laRegistered, laFaults>>
faVars == <<faMentions, faMute, faAt, faTodo, faAnswer, faCasts, faKnown, faRows, faPosting,
            faFaults>>
ASSUME Instances ==
    /\ La!LaunchAssumption /\ Po!PostingAssumption /\ An!AttachmentsAssumption
    /\ Re!ReactionsAssumption /\ Fa!FarcasterAssumption
    /\ Di!DirectAssumption /\ Te!TelegramAssumption

sysVars == <<driven, vars, teVars, diVars, poVars, anVars, reVars, laVars, faVars>>

(* What was chosen first in those that are not driven does not matter.  A  *)
(* pair of attachments has an mp4, the first of the two and of the mp4s.    *)
Resting ==
    /\ driven # "telegram" => teDb = "sqlite"
    /\ driven # "direct" => diDb = "sqlite"
    /\ driven # "posting" => poRound["post"] = [s \in Slots |-> "idle"]
    /\ anUrl[j1] = v1 /\ (driven # "attachments" => anUrl[j2] = v1)
    /\ driven # "reactions" => reDb = "sqlite"
    /\ driven # "launch" => laDb = "sqlite"
    /\ faMute = IF driven = "farcaster" THEN Silent ELSE {}

SysInit ==
    /\ driven \in {"discord", "telegram", "direct", "posting", "attachments", "reactions", "launch", "farcaster"}
    /\ Init /\ Te!Init /\ Di!Init /\ Po!Init /\ An!Init /\ Re!Init /\ La!Init /\ Fa!Init
    /\ Resting

Discord == driven = "discord" /\ Next
           /\ UNCHANGED <<driven, teVars, diVars, poVars, anVars, reVars, laVars, faVars>>
Telegram == driven = "telegram" /\ Te!Next
            /\ UNCHANGED <<driven, vars, diVars, poVars, anVars, reVars, laVars, faVars>>
Direct == driven = "direct" /\ Di!Next
          /\ UNCHANGED <<driven, vars, teVars, poVars, anVars, reVars, laVars, faVars>>
Posting == driven = "posting" /\ Po!Next
           /\ UNCHANGED <<driven, vars, teVars, diVars, anVars, reVars, laVars, faVars>>
Attaching == driven = "attachments" /\ An!Next
             /\ UNCHANGED <<driven, vars, teVars, diVars, poVars, reVars, laVars, faVars>>
Reacting == driven = "reactions" /\ Re!Next
            /\ UNCHANGED <<driven, vars, teVars, diVars, poVars, anVars, laVars, faVars>>
Launching == driven = "launch" /\ La!Next
             /\ UNCHANGED <<driven, vars, teVars, diVars, poVars, anVars, reVars, faVars>>

Casting == driven = "farcaster" /\ Fa!Next
           /\ UNCHANGED <<driven, vars, teVars, diVars, poVars, anVars, reVars, laVars>>

SysNext == Discord \/ Telegram \/ Direct \/ Posting \/ Attaching \/ Reacting \/ Launching \/ Casting

(* The fairness of each, asked of what is driven.  (At first no handler    *)
(* runs, and nothing is asked of the others.)                              *)
SysSpec ==
    /\ SysInit /\ [][SysNext]_sysVars
    /\ WF_vars(driven = "discord" /\ \E m \in Messages : Step(m))
    /\ WF_teVars(driven = "telegram" /\ \E u \in Updates : Te!Step(u))
    /\ WF_diVars(driven = "direct" /\ \E r \in Requests : Di!Step(r))
    /\ WF_anVars(driven = "attachments" /\ \E j \in Attached : An!Step(j))
    /\ WF_reVars(driven = "reactions" /\ \E u \in Users, n \in 1 .. MaxEvents : Re!Step(u, n))
    /\ WF_laVars(driven = "launch" /\ La!Step)
    /\ WF_faVars(driven = "farcaster" /\ Fa!MentionStep)
    /\ WF_faVars(driven = "farcaster" /\ Fa!PostStep)
    /\ \A l \in Po!Loops : WF_poVars(driven = "posting" /\ Po!LoopStep(l))

----------------------------------------------------------------------------
(* Types of what is driven; the others keep their first state. *)
TypesOK ==
    /\ driven = "discord" => TypeOK
    /\ driven = "telegram" => Te!TypeOK
    /\ driven = "direct" => Di!TypeOK
    /\ driven = "posting" => Po!TypeOK
    /\ driven = "attachments" => An!TypeOK
    /\ driven = "reactions" => Re!TypeOK
    /\ driven = "launch" => La!TypeOK
    /\ driven = "farcaster" => Fa!TypeOK

(* What a client thinks is in the memories of the agent is there, as far   *)
(* as the ids of its messages tell them apart; and what is kept of an      *)
(* attachment is what was read in it.                                      *)
Remembered ==
    /\ driven = "telegram" => Te!Remembered
    /\ driven = "direct" => Di!Remembered
    /\ driven = "reactions" => Re!Remembered
    /\ driven = "farcaster" => Fa!AnswersResolve
    /\ driven = "attachments" => An!KeptIsOwn /\ An!OthersAreWhole /\ An!InputsRemoved

(* The agents that run are whole, what they post does not pile up, and     *)
(* their process ends for the reasons named, and no other.                 *)
AgentsAreWhole ==
    /\ driven = "launch" =>
           La!RegisteredAreWhole /\ La!FailureIsOneAgents /\ La!FreshLaunchOnly
    /\ driven = "posting" => Po!PostsInTurn
    /\ Te!Survives /\ Di!Survives /\ Re!Survives

(* What was started ends, and what is to be repeated is. *)
Quiet ==
    /\ \A m \in Messages : at[m] \in Ended \cup {"new"}
    /\ driven = "telegram" => Te!Quiet
    /\ driven = "direct" => Di!Quiet
    /\ driven = "attachments" => An!Quiet
    /\ driven = "reactions" => Re!Quiet
    /\ driven = "launch" => La!Launched
    /\ driven = "farcaster" => Fa!Quiet
AllEnd == []<>Quiet /\ \A l \in Po!Loops : []<>(driven = "posting" => Po!HasRound(l))

============================================================================
