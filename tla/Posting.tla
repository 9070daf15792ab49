------------------------------ MODULE Posting ------------------------------
(***************************************************************************)
(* What the Twitter client still does: three loops that write to one       *)
(* Telegram channel.  The loop of posts waits for its round, the loops of  *)
(* scalping ideas and of trends start the next one whatever became of the  *)
(* last.  What a round does not catch, or does not wait for, is an         *)
(* unhandled rejection, which ends the process.  (The time of the last     *)
(* post is read but nothing writes it: a post is always due.)              *)
(***************************************************************************)
EXTENDS Naturals

CONSTANTS
    Slots,     \* bound: rounds of one loop at a time
    MaxChunks, \* bound: messages one analysis of trends is split into
    MaxFaults  \* bound: failures of Telegram, the model, the database and the prices

PostingAssumption == MaxChunks \in Nat /\ MaxFaults \in Nat

Loops == {"post", "scalp", "trend"}

VARIABLES
    alive,    \* the process runs
    timer,    \* timer[l]: the loop's timer is set, or (posts) its body runs
    round,    \* round[l][s]: the await a round of loop l is in
    chunks,   \* chunks[s]: messages of a round of trends that are not sent yet
    sending,  \* messages are on their way that nobody waits for
    faults

vars == <<alive, timer, round, chunks, sending, faults>>

(* With POST_IMMEDIATELY a round of posts starts that no loop waits for. *)
Init ==
    /\ alive = TRUE
    /\ timer = [l \in Loops |-> "set"]
    /\ \E now \in {"idle", "write"}, s \in Slots :
           round = [l \in Loops |-> [t \in Slots |->
                       IF l = "post" /\ t = s THEN now ELSE "idle"]]
    /\ chunks = [s \in Slots |-> 0]
    /\ sending = FALSE /\ faults = 0

Go(l, s, place) == round' = [round EXCEPT ![l][s] = place]
Fault == faults < MaxFaults /\ faults' = faults + 1
Idle(l, s) == round[l][s] = "idle"

----------------------------------------------------------------------------
(* generateNewTweetLoop: the last post is looked up in the cache, the post *)
(* is written, and only then the timer is set again.                       *)
PostDue ==
    /\ alive /\ timer["post"] = "set"
    /\ timer' = [timer EXCEPT !["post"] = "body"]
    /\ \E s \in Slots : Idle("post", s) /\ Go("post", s, "recall")
    /\ UNCHANGED <<alive, chunks, sending, faults>>

(* The round is done; the loop's own one sets the timer.  *)
(* Mutant: the timer is set before the round.             *)
Recalled_Armed == "set"
Recalled == "body"

Recall(s) ==
    /\ alive /\ round["post"][s] = "recall"
    /\ Go("post", s, "loop")
    /\ timer' = [timer EXCEPT !["post"] = Recalled]
    /\ UNCHANGED <<alive, chunks, sending, faults>>

(* generateNewTweet catches its errors, but does not wait for Telegram. *)
Finish(s) ==
    /\ Go("post", s, "idle")
    /\ timer' = IF round["post"][s] = "loop" THEN [timer EXCEPT !["post"] = "set"] ELSE timer

Write(s) ==
    /\ alive /\ round["post"][s] \in {"write", "loop"}
    /\ Finish(s)
    /\ sending' = TRUE
    /\ UNCHANGED <<alive, chunks, faults>>

WriteFails(s) ==
    /\ alive /\ round["post"][s] \in {"write", "loop"}
    /\ Fault
    /\ Finish(s)
    /\ UNCHANGED <<alive, chunks, sending>>

----------------------------------------------------------------------------
(* The timers of the other two loops are always set. *)
Due(l) ==
    /\ alive /\ l # "post"
    /\ \E s \in Slots : Idle(l, s) /\ Go(l, s, "ask")
    /\ UNCHANGED <<alive, timer, chunks, sending, faults>>

(* Prices, the model, and a message nobody waits for. *)
Scalp(s) ==
    /\ alive /\ round["scalp"][s] = "ask"
    /\ Go("scalp", s, "idle")
    /\ sending' = TRUE
    /\ UNCHANGED <<alive, timer, chunks, faults>>

(* An analysis of trends is sent message by message, then stored. *)
Analyse(s) ==
    /\ alive /\ round["trend"][s] = "ask"
    /\ \/ Go("trend", s, "idle") /\ UNCHANGED chunks
       \/ \E n \in 1 .. MaxChunks : chunks' = [chunks EXCEPT ![s] = n] /\ Go("trend", s, "send")
    /\ UNCHANGED <<alive, timer, sending, faults>>

SendChunk(s) ==
    /\ alive /\ round["trend"][s] = "send"
    /\ chunks' = [chunks EXCEPT ![s] = @ - 1]
    /\ IF chunks[s] = 1 THEN Go("trend", s, "save") ELSE UNCHANGED round
    /\ UNCHANGED <<alive, timer, sending, faults>>

Save(s) ==
    /\ alive /\ round["trend"][s] = "save"
    /\ Go("trend", s, "idle")
    /\ UNCHANGED <<alive, timer, chunks, sending, faults>>

TrendFails(s) ==
    /\ alive /\ round["trend"][s] # "idle"
    /\ Fault
    /\ Go("trend", s, "idle") /\ chunks' = [chunks EXCEPT ![s] = 0]
    /\ UNCHANGED <<alive, timer, sending>>

----------------------------------------------------------------------------
Delivered ==
    /\ alive /\ sending
    /\ sending' = FALSE
    /\ UNCHANGED <<alive, timer, round, chunks, faults>>

(* Nobody catches a message that Telegram refuses, an error of a scalping  *)
(* round or of the look at the last post.                                  *)
Uncaught ==
    /\ alive
    /\ Fault
    /\ \/ sending
       \/ \E s \in Slots : round["scalp"][s] = "ask" \/ round["post"][s] = "recall"
    /\ alive' = FALSE
    /\ UNCHANGED <<timer, round, chunks, sending>>

PostStep(s) == Recall(s) \/ Write(s)
TrendStep(s) == Analyse(s) \/ SendChunk(s) \/ Save(s)

Next ==
    \/ PostDue \/ Due("scalp") \/ Due("trend") \/ Delivered \/ Uncaught
    \/ \E s \in Slots : PostStep(s) \/ Scalp(s) \/ TrendStep(s) \/ WriteFails(s) \/ TrendFails(s)

(* Timers fire, and every round goes on. *)
LoopStep(l) ==
    \/ l = "post" /\ (PostDue \/ \E s \in Slots : PostStep(s))
    \/ l = "scalp" /\ (Due(l) \/ \E s \in Slots : Scalp(s))
    \/ l = "trend" /\ (Due(l) \/ \E s \in Slots : TrendStep(s))

Spec == Init /\ [][Next]_vars /\ \A l \in Loops : WF_vars(LoopStep(l))

----------------------------------------------------------------------------
(* Types of the loops and their rounds. *)
TypeOK ==
    /\ alive \in BOOLEAN /\ timer \in [Loops -> {"set", "body"}]
    /\ round \in [Loops -> [Slots -> {"idle", "recall", "loop", "write", "ask", "send", "save"}]]
    /\ chunks \in [Slots -> 0 .. MaxChunks] /\ faults \in 0 .. MaxFaults

(* Posts do not pile up: beside the first, if it was asked for at once,    *)
(* one at most is being written.                                           *)
PostsInTurn ==
    \A s, t \in {u \in Slots : round["post"][u] \in {"recall", "loop"}} : s = t

(* Each loop has rounds again and again for as long as the process lives. *)
HasRound(l) == ~alive \/ \E s \in Slots : round[l][s] \in {"recall", "ask"}

============================================================================
