------------------------------ MODULE Telegram -----------------------------
(***************************************************************************)
(* TelegramClient and its MessageManager: the updates of several chats,    *)
(* each handled by one run of the bot's message handler, interleaved at    *)
(* every await.  A memory's id is made of the number of the message and    *)
(* the agent, and a supergroup numbers its messages on its own: the chat   *)
(* is not in the id.                                                       *)
(***************************************************************************)
EXTENDS Naturals, Sequences

CONSTANTS
    Chats,     \* supergroups the bot is in
    Updates,   \* messages of users
    MaxNumber, \* bound: messages of one chat
    MaxChunks, \* bound: messages one answer is split into
    MaxFaults  \* bound: failures of Telegram, the model and the database

TelegramAssumption ==
    Chats # {} /\ MaxNumber \in Nat /\ MaxChunks \in Nat /\ MaxFaults \in Nat

VARIABLES
    db,      \* which database holds the memories
    alive,   \* the process runs
    last,    \* last[c]: the number of the last message of chat c
    rows,    \* the memories of messages
    at,      \* at[u]: the await the handler of u is in
    job,     \* job[u]: its local variables
    late,    \* Telegraf has given up waiting for a handler, and nobody could be told
    faults

vars == <<db, alive, last, rows, at, job, late, faults>>

NewJob == [chat |-> CHOOSE c \in Chats : TRUE, number |-> 0, asks |-> "open",
           action |-> "other",
           chunks |-> 0, sent |-> <<>>, saved |-> 0, round |-> 0]
Ended == {"new", "done", "failed"}
Running(u) == alive /\ at[u] \notin Ended

Init ==
    /\ db \in {"sqlite", "postgres"}
    /\ alive = TRUE
    /\ last = [c \in Chats |-> 0]
    /\ rows = {}
    /\ at = [u \in Updates |-> "new"]
    /\ job = [u \in Updates |-> NewJob]
    /\ late = FALSE
    /\ faults = 0

Go(u, place) == at' = [at EXCEPT ![u] = place]
Stay(u, place) == Go(u, place) /\ UNCHANGED job
End(u, place) == Go(u, place) /\ job' = [job EXCEPT ![u] = NewJob]
Fault == faults < MaxFaults /\ faults' = faults + 1

----------------------------------------------------------------------------
(* A command is answered at once; what is neither text nor a picture with  *)
(* a description is dropped before it is stored.                           *)
Receive(u) ==
    /\ alive /\ at[u] = "new"
    /\ \E c \in Chats, asks \in {"direct", "picture", "open"},
         first \in {"command", "connect"} :
         /\ first = "command" => asks = "open"
         /\ last[c] < MaxNumber
         /\ last' = [last EXCEPT ![c] = @ + 1]
         /\ job' = [job EXCEPT ![u].chat = c, ![u].number = last[c] + 1, ![u].asks = asks]
         /\ Go(u, first)
    /\ UNCHANGED <<db, alive, rows, late, faults>>

(* ctx.reply of a command; of the apology when that fails; of bot.catch    *)
(* when that fails too, which nobody awaits: a rejection ends the process. *)
(* Mutant: the apology is not awaited either.                              *)
AfterRefusal_Unawaited == [command |-> "sorry", sorry |-> "exit", caught |-> "exit"]
AfterRefusal == [command |-> "sorry", sorry |-> "caught", caught |-> "exit"]

Reply(u) ==
    /\ Running(u) /\ at[u] \in {"command", "sorry", "caught"}
    /\ \/ End(u, "done") /\ UNCHANGED <<alive, faults>>
       \/ /\ Fault
          /\ IF AfterRefusal[at[u]] = "exit" THEN alive' = FALSE /\ UNCHANGED <<at, job>>
             ELSE Stay(u, AfterRefusal[at[u]]) /\ UNCHANGED alive
    /\ UNCHANGED <<db, last, rows, late>>

(* Telegraf waits 90 seconds for a handler, which goes on after bot.catch; *)
(* it matters only if the reply of bot.catch fails.                        *)
TimesOut(u) ==
    /\ Running(u)
    /\ Fault
    /\ late' = TRUE /\ alive' = FALSE
    /\ UNCHANGED <<db, last, rows, at, job>>

(* ensureConnection and processImage, which catches its errors. *)
Connect(u) ==
    /\ Running(u) /\ at[u] = "connect"
    /\ Stay(u, "look") \/ End(u, "done")
    /\ UNCHANGED <<db, alive, last, rows, late, faults>>

----------------------------------------------------------------------------
(* createMemory, of the message and then of every message of the answer.   *)
(* Mutant: every message of a chat has one id.                             *)
Id_OfChat(row) == row.chat
Id(row) == row.number

Storing(u) ==
    [chat |-> job[u].chat,
     number |-> IF job[u].sent = <<>> THEN job[u].number ELSE job[u].sent[job[u].saved + 1],
     replyTo |-> IF job[u].sent = <<>> THEN 0 ELSE job[u].number]

Clash(u) == {row \in rows : Id(row) = Id(Storing(u))}

Stored(u) ==
    IF job[u].sent = <<>> THEN Stay(u, "decide")
    ELSE /\ job' = [job EXCEPT ![u].saved = @ + 1]
         /\ Go(u, IF job[u].saved + 1 < Len(job[u].sent) THEN "look"
                  ELSE IF job[u].round = 1 /\ job[u].action = "CONTINUE" THEN "continue"
                  ELSE "evaluate")

Look(u) ==
    /\ Running(u) /\ at[u] = "look"
    /\ IF Clash(u) # {} THEN Stored(u) ELSE Stay(u, "insert")
    /\ UNCHANGED <<db, alive, last, rows, late, faults>>

(* Errors of an action are caught by processActions, others end the        *)
(* handler, which tells nobody.                                            *)
Throws(u) ==
    IF at[u] = "continue" \/ (at[u] # "evaluate" /\ job[u].round = 2)
    THEN Stay(u, "evaluate") ELSE End(u, "failed")

(* Sqlite replaces a row that came meanwhile, postgres refuses the new one. *)
Insert(u) ==
    /\ Running(u) /\ at[u] = "insert"
    /\ IF db = "postgres" /\ Clash(u) # {} THEN Throws(u) /\ UNCHANGED rows
       ELSE rows' = (rows \ Clash(u)) \cup {Storing(u)} /\ Stored(u)
    /\ UNCHANGED <<db, alive, last, late, faults>>

----------------------------------------------------------------------------
(* _shouldRespond: to mentions and private chats, not to pictures, and     *)
(* otherwise as the model says.                                            *)
Decide(u) ==
    /\ Running(u) /\ at[u] = "decide"
    /\ \/ job[u].asks # "picture" /\ Go(u, "generate")
       \/ job[u].asks # "direct" /\ Go(u, "evaluate")
    /\ job' = [job EXCEPT ![u].asks = "open"]
    /\ UNCHANGED <<db, alive, last, rows, late, faults>>

(* An answer without text ends the handler; one of CONTINUE's throws, which *)
(* processActions catches.  The action is that of the first message sent:  *)
(* all messages but the last get CONTINUE, whatever the answer's action.   *)
FirstActions(n) == IF n > 1 THEN {"CONTINUE"} ELSE {"CONTINUE", "other"}

(* Mutant: it comes after what was sent before. *)
Unsent_Kept(u) == job[u].sent
Unsent(u) == <<>>

Answered(u, round) ==
    \/ IF round = 1 THEN End(u, "done") ELSE Stay(u, "evaluate")
    \/ \E n \in 1 .. MaxChunks : \E a \in FirstActions(n) :
           /\ job' = [job EXCEPT ![u].action = a, ![u].chunks = n, ![u].sent = Unsent(u),
                                 ![u].saved = 0, ![u].round = round]
           /\ Go(u, "send")

Generate(u) ==
    /\ Running(u) /\ at[u] = "generate"
    /\ Answered(u, 1)
    /\ UNCHANGED <<db, alive, last, rows, late, faults>>

(* The answer is sent whole before any of it is stored. *)
SendChunk(u) ==
    LET c == job[u].chat IN
    /\ Running(u) /\ at[u] = "send"
    /\ last[c] < MaxNumber
    /\ last' = [last EXCEPT ![c] = @ + 1]
    /\ job' = [job EXCEPT ![u].sent = Append(@, last[c] + 1)]
    /\ Go(u, IF Len(job[u].sent) + 1 = job[u].chunks THEN "look" ELSE "send")
    /\ UNCHANGED <<db, alive, rows, late, faults>>

Continue(u) ==
    /\ Running(u) /\ at[u] = "continue"
    /\ \/ Answered(u, 2)
       \/ Stay(u, "evaluate")
    /\ UNCHANGED <<db, alive, last, rows, late, faults>>

Evaluate(u) ==
    /\ Running(u) /\ at[u] = "evaluate"
    /\ End(u, "done")
    /\ UNCHANGED <<db, alive, last, rows, late, faults>>

(* Anything may fail.  (A chat at the bound is an error of sending.)       *)
Throw(u) ==
    /\ Running(u) /\ at[u] \notin {"command", "sorry", "caught"}
    /\ Fault \/ (at[u] = "send" /\ last[job[u].chat] = MaxNumber /\ UNCHANGED faults)
    /\ Throws(u)
    /\ UNCHANGED <<db, alive, last, rows, late>>

Step(u) ==
    \/ Reply(u) \/ Connect(u) \/ Look(u) \/ Insert(u) \/ Decide(u) \/ Generate(u)
    \/ SendChunk(u) \/ Continue(u) \/ Evaluate(u) \/ Throw(u)

Next == \E u \in Updates : Receive(u) \/ TimesOut(u) \/ Step(u)

(* Telegram, the model and the database answer in the end: some handler    *)
(* that can go on does.                                                    *)
Spec == Init /\ [][Next]_vars /\ WF_vars(\E u \in Updates : Step(u))

----------------------------------------------------------------------------
(* Types of the bot, its chats and its handlers. *)
TypeOK ==
    /\ db \in {"sqlite", "postgres"} /\ alive \in BOOLEAN /\ late \in BOOLEAN
    /\ last \in [Chats -> 0 .. MaxNumber] /\ faults \in 0 .. MaxFaults
    /\ rows \subseteq [chat : Chats, number : 1 .. MaxNumber, replyTo : 0 .. MaxNumber]
    /\ \A u \in Updates : /\ (at[u] \in Ended => job[u] = NewJob) /\ job[u].chat \in Chats /\ job[u].number \in 0 .. MaxNumber
                          /\ Len(job[u].sent) <= job[u].chunks /\ job[u].saved <= Len(job[u].sent)

(* What the handlers believe stored: the message, once they decide, and    *)
(* the part of the answer they went through.                               *)
Believed(u) ==
    {job[u].sent[i] : i \in 1 .. job[u].saved}
    \cup (IF job[u].round > 0 \/ at[u] \in {"decide", "generate"} THEN {job[u].number} ELSE {})

(* A message or an answer that a handler went on from is in the memories   *)
(* of its chat, unless another chat has a message of that number; and the  *)
(* message an answer replies to is there under the same condition.         *)
Remembered ==
    \A u \in Updates : \A n \in Believed(u) :
        \/ \E row \in rows : row.chat = job[u].chat /\ row.number = n
        \/ \E c \in Chats \ {job[u].chat} : last[c] >= n

(* The process outlives two failures of Telegram, unless one of them meets *)
(* a handler that took longer than Telegraf waits.                         *)
Survives == ~alive => faults >= 3 \/ late

(* Again and again every handler has come to an end, or the process has. *)
Quiet == \A u \in Updates : ~Running(u)
HandlersEnd == []<>Quiet

============================================================================
