------------------------------- MODULE Direct ------------------------------
(***************************************************************************)
(* DirectClient: the HTTP server of the agents.  Requests are handled at   *)
(* the same time, and nobody catches their errors: a handler that rejects  *)
(* is an unhandled rejection, which ends the process with every agent.     *)
(***************************************************************************)
EXTENDS Naturals, FiniteSets

CONSTANTS
    Requests,
    MaxTime,  \* bound: milliseconds that pass
    MaxFaults \* bound: failures of the database and of external services

DirectAssumption == MaxTime \in Nat /\ MaxFaults \in Nat

VARIABLES
    db,      \* which database holds the memories
    alive,   \* the process runs
    closing, \* it was asked to stop
    now,     \* milliseconds
    rows,    \* memories: [id, request] of messages, and of answers with id "new"
    at,      \* at[r]: the await the handler of r is in
    id,      \* id[r]: the millisecond its message got its id from
    told,    \* told[r]: how many answers the client got
    faults

vars == <<db, alive, closing, now, rows, at, id, told, faults>>

Ended == {"new", "refused", "answered"}
Running(r) == alive /\ at[r] \notin Ended

Init ==
    /\ db \in {"sqlite", "postgres"}
    /\ alive = TRUE /\ closing = FALSE
    /\ now = 0
    /\ rows = {}
    /\ at = [r \in Requests |-> "new"]
    /\ id = [r \in Requests |-> 0]
    /\ told = [r \in Requests |-> 0]
    /\ faults = 0

Tick ==
    /\ alive /\ now < MaxTime
    /\ now' = now + 1
    /\ UNCHANGED <<db, alive, closing, rows, at, id, told, faults>>

Go(r, place) == at' = [at EXCEPT ![r] = place]

----------------------------------------------------------------------------
(* A request for an agent: 404 if it is not registered; or a request for   *)
(* the agent's model, or for files of it.                                  *)
Arrive(r) ==
    /\ alive /\ ~closing /\ at[r] = "new"
    /\ \E place \in {"refused", "connect", "whisper", "picture", "tune", "download"} :
           Go(r, place)
    /\ UNCHANGED <<db, alive, closing, now, rows, id, told, faults>>

Tell(r, n) == Go(r, "answered") /\ told' = [told EXCEPT ![r] = n]

Answer(r, place) ==
    /\ Running(r) /\ at[r] = place
    /\ Tell(r, 1)
    /\ UNCHANGED <<db, alive, closing, now, rows, id, faults>>

(* A transcription; a picture and what is seen in it; a model tuned, and   *)
(* the files of one written to the disk, whose errors the client is told.  *)
Whisper(r) == Answer(r, "whisper")
Picture(r) == Answer(r, "picture")
FineTune(r) == Answer(r, "tune")
Download(r) == Answer(r, "download")

(* Once the user is connected, the message gets the hash of the            *)
(* millisecond for an id.                                                  *)
Connect(r) ==
    /\ Running(r) /\ at[r] = "connect"
    /\ id' = [id EXCEPT ![r] = now]
    /\ Go(r, "look")
    /\ UNCHANGED <<db, alive, closing, now, rows, told, faults>>

(* Mutant: the hash of every millisecond is the same. *)
Hash_Fixed(time) == 0
Hash(time) == time

Taken(r) == {row \in rows : Hash(row.id) = Hash(id[r]) /\ row.of = "message"}
Row(r, of) == [id |-> id[r], of |-> of, request |-> r]

(* createMemory skips a message whose id is taken. *)
Look(r) ==
    /\ Running(r) /\ at[r] = "look"
    /\ Go(r, IF Taken(r) = {} THEN "insert" ELSE "generate")
    /\ UNCHANGED <<db, alive, closing, now, rows, id, told, faults>>

(* Of two that found the id free, the second replaces the first one's row  *)
(* on sqlite; on postgres it is refused, and the process ends.             *)
Insert(r) ==
    /\ Running(r) /\ at[r] = "insert"
    /\ IF db = "postgres" /\ Taken(r) # {}
       THEN alive' = FALSE /\ UNCHANGED <<rows, at>>
       ELSE /\ rows' = (rows \ Taken(r)) \cup {Row(r, "message")}
            /\ Go(r, "generate")
            /\ UNCHANGED alive
    /\ UNCHANGED <<db, closing, now, id, told, faults>>

(* composeState and generateMessageResponse, which retries until there is  *)
(* an answer; the answer is stored without an id of its own.               *)
Generate(r) ==
    /\ Running(r) /\ at[r] = "generate"
    /\ rows' = rows \cup {Row(r, "answer")}
    /\ Go(r, "evaluate")
    /\ UNCHANGED <<db, alive, closing, now, id, told, faults>>

(* The evaluators that always run come before the action. *)
Evaluate(r) ==
    /\ Running(r) /\ at[r] = "evaluate"
    /\ Go(r, "act")
    /\ UNCHANGED <<db, alive, closing, now, rows, id, told, faults>>

(* The callback only keeps the last answer of an action for the client; an *)
(* error of the action is caught.                                          *)
Act(r) ==
    /\ Running(r) /\ at[r] = "act"
    /\ Tell(r, 1) \/ Tell(r, 2)
    /\ UNCHANGED <<db, alive, closing, now, rows, id, faults>>

(* An error anywhere else. *)
Throw(r) ==
    /\ Running(r) /\ faults < MaxFaults
    /\ faults' = faults + 1
    /\ IF at[r] \in {"tune", "download", "act"} THEN Tell(r, 1) /\ UNCHANGED alive
       ELSE alive' = FALSE /\ UNCHANGED <<at, told>>
    /\ UNCHANGED <<db, closing, now, rows, id>>

(* SIGTERM: no request is taken any more, and the process ends when those  *)
(* under way have, or five seconds later.                                  *)
Stop ==
    /\ alive /\ ~closing
    /\ closing' = TRUE
    /\ UNCHANGED <<db, alive, now, rows, at, id, told, faults>>

Exit ==
    /\ alive /\ closing
    /\ alive' = FALSE
    /\ UNCHANGED <<db, closing, now, rows, at, id, told, faults>>

Step(r) == Whisper(r) \/ Picture(r) \/ FineTune(r) \/ Download(r) \/ Connect(r) \/ Look(r) \/ Insert(r) \/ Generate(r) \/ Evaluate(r)
           \/ Act(r) \/ Throw(r)

Next == Tick \/ Stop \/ Exit \/ \E r \in Requests : Arrive(r) \/ Step(r)

(* What a request waits for answers in the end. *)
Spec == Init /\ [][Next]_vars /\ WF_vars(\E r \in Requests : Step(r))

----------------------------------------------------------------------------
(* Types of the server and its requests. *)
TypeOK ==
    /\ alive \in BOOLEAN /\ closing \in BOOLEAN
    /\ now \in 0 .. MaxTime /\ faults \in 0 .. MaxFaults
    /\ rows \subseteq [id : 0 .. MaxTime, of : {"message", "answer"}, request : Requests]
    /\ told \in [Requests -> 0 .. 2]

(* The first answer a client got to a message is in the memories, and so   *)
(* is the message, unless another came in the same millisecond.  What an   *)
(* action answers is in no memory.                                         *)
Remembered ==
    \A r \in Requests : Row(r, "answer") \in rows =>
        \/ Row(r, "message") \in rows
        \/ \E q \in Requests \ {r} : Row(q, "message") \in rows /\ id[q] = id[r]

(* The process goes on until something fails, it is asked to stop, or      *)
(* postgres refuses one of two messages of one millisecond.                *)
Survives ==
    ~alive => \/ closing \/ faults > 0
              \/ db = "postgres" /\ \E q, r \in Requests :
                    q # r /\ at[q] = "insert" /\ Row(r, "message") \in rows /\ id[q] = id[r]

(* Again and again every request is answered, or the process has ended. *)
Quiet == \A r \in Requests : ~Running(r)

============================================================================
