------------------------------- MODULE Launch ------------------------------
(***************************************************************************)
(* startAgents: the REST server, then one agent after the other, each with *)
(* a database, a runtime and its clients, then the chat of the terminal.   *)
(* What is started is never stopped: when one part of an agent fails, its  *)
(* database is closed under the clients that run already, and no further   *)
(* agent is started.  Much is started without being awaited; what of that  *)
(* fails ends the process, unless its error is caught.                     *)
(***************************************************************************)
EXTENDS Naturals, Sequences

CONSTANTS
    Agents,   \* bound: characters, started in the order of their numbers
    Kinds,    \* character.clients, in the order of initializeClients
    MaxFaults \* bound: failures of files, the database, services and platforms

LaunchAssumption ==
    Agents \in Nat \ {0} /\ Kinds \in Seq(STRING) /\ MaxFaults \in Nat

VARIABLES
    alive,      \* the process runs
    db,         \* which database the environment asks for
    made,       \* the tables of the database exist
    cur,        \* the agent that is started
    at,         \* the await startAgents is in
    base,       \* base[c]: the connection of agent c
    test,       \* test[c]: the test of the pool's constructor is under way
    init,       \* init[c]: the call of db.init whose errors are only logged
    awaited,    \* awaited[c]: the one startAgent waits for
    ensuring,   \* ensuring[c]: the runtime's constructor connects the agent to itself
    clients,    \* clients[c]: how many of its clients run
    registered, \* agents the server knows
    faults

vars == <<alive, db, made, cur, at, base, test, init, awaited, ensuring, clients,
          registered, faults>>

All == 1 .. Agents
Initing == {"test", "check", "create"}

Init ==
    /\ alive = TRUE
    /\ db \in {"sqlite", "postgres"}
    /\ made \in IF db = "sqlite" THEN {TRUE} ELSE BOOLEAN
    /\ cur = 1 /\ at = "load"
    /\ base = [c \in All |-> "none"]
    /\ test = [c \in All |-> FALSE]
    /\ init = [c \in All |-> "none"]
    /\ awaited = [c \in All |-> "none"]
    /\ ensuring = [c \in All |-> FALSE]
    /\ clients = [c \in All |-> 0]
    /\ registered = {}
    /\ faults = 0

Fault == faults < MaxFaults /\ faults' = faults + 1
Starting(place) == alive /\ at = place

----------------------------------------------------------------------------
(* loadCharacters; a file that is not found or not valid ends the process. *)
Load ==
    /\ Starting("load")
    /\ \/ at' = "open" /\ UNCHANGED <<alive, faults>>
       \/ Fault /\ alive' = FALSE /\ UNCHANGED at
    /\ UNCHANGED <<db, made, cur, base, test, init, awaited, ensuring, clients, registered>>

(* initializeDatabase and the call of db.init. *)
Open ==
    /\ Starting("open")
    /\ base' = [base EXCEPT ![cur] = "open"]
    /\ IF db = "sqlite" THEN at' = "construct" /\ UNCHANGED <<test, init, awaited>>
       ELSE /\ at' = "init"
            /\ test' = [test EXCEPT ![cur] = TRUE]
            /\ init' = [init EXCEPT ![cur] = "test"]
            /\ awaited' = [awaited EXCEPT ![cur] = "test"]
    /\ UNCHANGED <<alive, db, made, cur, ensuring, clients, registered, faults>>

(* The file of sqlite, or its extension, cannot be opened. *)
OpenFails ==
    /\ Starting("open") /\ db = "sqlite"
    /\ Fault
    /\ at' = "ask"
    /\ UNCHANGED <<alive, db, made, cur, base, test, init, awaited, ensuring, clients, registered>>

(* The pool's own test of the connection, which nobody awaits. *)
Test(c) ==
    /\ alive /\ test[c]
    /\ \/ UNCHANGED <<alive, faults>>
       \/ Fault /\ alive' = FALSE
    /\ test' = [test EXCEPT ![c] = FALSE]
    /\ UNCHANGED <<db, made, cur, at, base, init, awaited, ensuring, clients, registered>>

(* One step of db.init: the connection is tested, the tables are looked    *)
(* for in a transaction, and made.  Of two that make them at the same time *)
(* the second is refused, or finds that IF NOT EXISTS they do.             *)
(* Mutant: they are made without looking for them.                         *)
Looked_Never == {"create"}
Looked == IF made THEN {"done"} ELSE {"create"}

Outcomes(place, closed) ==
    CASE place = "test" -> IF closed THEN {"failed"} ELSE {"check"}
      [] place = "check" -> Looked
      [] place = "create" -> IF made THEN {"done", "failed"} ELSE {"done"}

Logged(c) ==
    /\ alive /\ init[c] \in Initing
    /\ \/ /\ \E next \in Outcomes(init[c], base[c] = "closed") : init' = [init EXCEPT ![c] = next]
          /\ made' = (made \/ init[c] = "create")
          /\ UNCHANGED faults
       \/ Fault /\ init' = [init EXCEPT ![c] = "failed"] /\ UNCHANGED made
    /\ UNCHANGED <<alive, db, cur, at, base, test, awaited, ensuring, clients, registered>>

Awaited ==
    /\ Starting("init")
    /\ \/ /\ \E next \in Outcomes(awaited[cur], FALSE) :
                 /\ awaited' = [awaited EXCEPT ![cur] = next]
                 /\ at' = CASE next = "done" -> "construct" [] next = "failed" -> "close"
                            [] OTHER -> "init"
          /\ made' = (made \/ awaited[cur] = "create")
          /\ UNCHANGED faults
       \/ /\ Fault
          /\ awaited' = [awaited EXCEPT ![cur] = "failed"] /\ at' = "close"
          /\ UNCHANGED made
    /\ UNCHANGED <<alive, db, cur, base, test, init, ensuring, clients, registered>>

----------------------------------------------------------------------------
(* createAgent: the constructor of the runtime does not await the rows of  *)
(* the agent itself, and then refuses a model provider it does not know.   *)
Construct ==
    /\ Starting("construct")
    /\ ensuring' = [ensuring EXCEPT ![cur] = TRUE]
    /\ \/ at' = "initialize" /\ UNCHANGED faults
       \/ Fault /\ at' = "close"
    /\ UNCHANGED <<alive, db, made, cur, base, test, init, awaited, clients, registered>>

(* They fail if the database is closed before: with sqlite they are done   *)
(* within the turn, with postgres their queries are refused.               *)
Ensure(c) ==
    /\ alive /\ ensuring[c]
    /\ \/ base[c] = "open" /\ UNCHANGED <<alive, faults>>
       \/ alive' = FALSE /\ IF base[c] = "closed" THEN UNCHANGED faults ELSE Fault
    /\ ensuring' = [ensuring EXCEPT ![c] = FALSE]
    /\ UNCHANGED <<db, made, cur, at, base, test, init, awaited, clients, registered>>

EnsuredFirst == db = "sqlite" => ~ensuring[cur]

(* runtime.initialize: the services, the plugins' services, knowledge. *)
(* Mutant: the server gets the agent before its clients start.         *)
Initialized_Registered == "register"
Initialized == "clients"

Initialize ==
    /\ Starting("initialize") /\ EnsuredFirst
    /\ \/ at' = Initialized /\ UNCHANGED faults
       \/ Fault /\ at' = "close"
    /\ UNCHANGED <<alive, db, made, cur, base, test, init, awaited, ensuring, clients, registered>>

(* initializeClients: one after the other.  A configuration that is not    *)
(* valid is refused; a platform that refuses the login, which nobody       *)
(* awaits, ends the process.                                               *)
StartClient ==
    /\ Starting("clients") /\ clients[cur] < Len(Kinds)
    /\ clients' = [clients EXCEPT ![cur] = @ + 1]
    /\ UNCHANGED <<alive, db, made, cur, at, base, test, init, awaited, ensuring, registered, faults>>

ClientFails ==
    /\ Starting("clients") /\ clients[cur] < Len(Kinds)
    /\ Fault
    /\ \/ at' = "close" /\ Kinds[clients[cur] + 1] \in {"telegram", "twitter"} /\ UNCHANGED alive
       \/ alive' = FALSE /\ Kinds[clients[cur] + 1] \in {"discord", "telegram"} /\ UNCHANGED at
    /\ UNCHANGED <<db, made, cur, base, test, init, awaited, ensuring, clients, registered>>

ClientsStarted ==
    /\ Starting("clients") /\ clients[cur] = Len(Kinds)
    /\ at' = "register"
    /\ UNCHANGED <<alive, db, made, cur, base, test, init, awaited, ensuring, clients, registered, faults>>

Register ==
    /\ Starting("register")
    /\ registered' = registered \cup {cur}
    /\ IF cur < Agents THEN cur' = cur + 1 /\ at' = "open" ELSE at' = "ask" /\ UNCHANGED cur
    /\ UNCHANGED <<alive, db, made, base, test, init, awaited, ensuring, clients, faults>>

(* The error of one agent is the end of the loop over the agents. *)
Close ==
    /\ Starting("close") /\ EnsuredFirst
    /\ base' = [base EXCEPT ![cur] = "closed"]
    /\ at' = "ask"
    /\ UNCHANGED <<alive, db, made, cur, test, init, awaited, ensuring, clients, registered, faults>>

----------------------------------------------------------------------------
(* chat: a line goes to the first agent through the server, whose refusals *)
(* are caught; "exit" is the end of the process, which closes nothing.     *)
Ask ==
    /\ Starting("ask")
    /\ at' = "fetch"
    /\ UNCHANGED <<alive, db, made, cur, base, test, init, awaited, ensuring, clients, registered, faults>>

Answer ==
    /\ Starting("fetch")
    /\ at' = "ask"
    /\ UNCHANGED <<alive, db, made, cur, base, test, init, awaited, ensuring, clients, registered, faults>>

Exit ==
    /\ Starting("ask")
    /\ alive' = FALSE /\ at' = "exit"
    /\ UNCHANGED <<db, made, cur, base, test, init, awaited, ensuring, clients, registered, faults>>

Step ==
    \/ Load \/ Open \/ OpenFails \/ Awaited \/ Construct \/ Initialize \/ StartClient \/ ClientFails
    \/ ClientsStarted \/ Register \/ Close \/ Answer
    \/ \E c \in All : Test(c) \/ Logged(c) \/ Ensure(c)

Next == Step \/ Ask \/ Exit

(* Everything but the user at the terminal goes on. *)
Spec == Init /\ [][Next]_vars /\ WF_vars(Step)

----------------------------------------------------------------------------
(* Types of the launcher and its agents. *)
TypeOK ==
    /\ alive \in BOOLEAN /\ made \in BOOLEAN /\ cur \in All
    /\ base \in [All -> {"none", "open", "closed"}]
    /\ clients \in [All -> 0 .. Len(Kinds)] /\ faults \in 0 .. MaxFaults
    /\ \A c \in All : {init[c], awaited[c]} \subseteq Initing \cup {"none", "done", "failed"}

(* An agent the server knows is whole: its database is open and has its    *)
(* tables, and all of its clients run.  (That of a failed agent is closed  *)
(* while those of its clients that had started run on.)                    *)
RegisteredAreWhole ==
    \A c \in registered : made /\ base[c] = "open" /\ clients[c] = Len(Kinds)

(* One failure is one agent's: those before it are registered, those after *)
(* it were never begun, and nothing of theirs is open.                     *)
FailureIsOneAgents ==
    \A c \in All : base[c] = "closed" =>
        /\ registered = 1 .. (c - 1)
        /\ \A d \in All : d > c => base[d] = "none" /\ clients[d] = 0

(* Without a fault an agent fails only because db.init ran twice at the    *)
(* same time on a fresh database, and then the tables exist for the next   *)
(* launch.                                                                 *)
FreshLaunchOnly ==
    (\E c \in All : base[c] = "closed") /\ faults = 0 =>
        db = "postgres" /\ made /\ init[cur] # "none" /\ awaited[cur] = "failed" /\ cur = 1

(* The agents are started or given up, and the user is asked. *)
Launched == ~alive \/ at \in {"ask", "fetch"}
LaunchEnds == []<>Launched

============================================================================
