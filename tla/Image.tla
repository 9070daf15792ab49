------------------------------- MODULE Image -------------------------------
(***************************************************************************)
(* ImageDescriptionService (plugin-node).  With a local model every call   *)
(* that finds the service uninitialized loads the model's three parts on   *)
(* its own.  A call then puts its url into a queue and polls until the url *)
(* is gone from it; the worker takes it off and describes the image, and   *)
(* so does the call.  The worker's promise is not awaited: when it is      *)
(* rejected, the process ends.  Otherwise a call is a request to OpenAI.   *)
(***************************************************************************)
EXTENDS Sequences, Naturals

CONSTANTS
    Calls,      \* calls of describeImage
    UrlOf,      \* UrlOf[c]: the image c is about
    Gifs,       \* urls that end with .gif
    Worker,     \* processQueue, the other job besides the calls
    None,       \* no url, no frame file
    MaxMs,      \* bound: milliseconds that pass
    MaxFaults   \* bound: requests, loads and model runs that fail

Urls == {UrlOf[c] : c \in Calls}
Jobs == Calls \cup {Worker}
Ms == 0 .. MaxMs

ImageAssumption ==
    /\ Worker \notin Calls /\ None \notin Urls \cup Ms
    /\ MaxMs \in Nat /\ MaxFaults \in Nat

VARIABLES
    local,       \* the character's provider is the local one
    alive,       \* the process has not ended
    initialized, \* this.initialized
    parts,       \* those of model, processor and tokenizer that are set
    queue,       \* this.queue
    at,          \* at[j]: what job j waits for
    taken,       \* the url the worker is at, or None
    frame,       \* frame[j]: the millisecond that names j's file, or None
    frames,      \* the frame files that exist
    now,         \* Date.now()
    faults, clash

vars == <<local, alive, initialized, parts, queue, at, taken, frame, frames, now,
          faults, clash>>

Parts == {"model", "processor", "tokenizer"}
Busy == {"gif", "image"}

Init ==
    /\ local \in BOOLEAN
    /\ alive = TRUE
    /\ initialized = FALSE
    /\ parts = {}
    /\ queue = <<>>
    /\ at = [j \in Jobs |-> IF j = Worker THEN "idle" ELSE "new"]
    /\ taken = None
    /\ frame = [j \in Jobs |-> None]
    /\ frames = {}
    /\ now = 0
    /\ faults = 0
    /\ clash = FALSE

Url(j) == IF j = Worker THEN taken ELSE UrlOf[j]
Fault == faults < MaxFaults /\ faults' = faults + 1
Queued(q) == {q[i] : i \in 1 .. Len(q)}

----------------------------------------------------------------------------
(* processImage up to its first await: all parts must be there. *)
Entry(u, loaded) ==
    IF loaded # Parts THEN "thrown" ELSE IF u \in Gifs THEN "gif" ELSE "image"

(* The call queues its url and runs processQueue and checkQueue, all       *)
(* before anything else happens.  An idle worker takes the url off at once *)
(* and the call, which no longer finds it, starts on it as well.           *)
Enqueue(c, loaded) ==
    LET u == UrlOf[c]
        idle == at[Worker] = "idle"
        start == Entry(u, loaded)
        rest == IF idle THEN Tail(Append(queue, u)) ELSE Append(queue, u)
    IN  /\ queue' = rest
        /\ taken' = IF idle THEN u ELSE taken
        /\ at' = [at EXCEPT ![c] = IF u \in Queued(rest) THEN "waiting" ELSE start,
                            ![Worker] = IF idle THEN start ELSE @]
        /\ alive' = ~(idle /\ start = "thrown")

(* Mutant: the flag is set before the parts are loaded. *)
Flagged_Early == TRUE
Flagged == initialized

Describe(c) ==
    /\ alive /\ at[c] = "new"
    /\ \/ local /\ initialized /\ Enqueue(c, parts) /\ UNCHANGED initialized
       \/ local /\ ~initialized /\ initialized' = Flagged
          /\ at' = [at EXCEPT ![c] = "model"] /\ UNCHANGED <<queue, taken, alive>>
       \/ ~local /\ initialized' = TRUE
          /\ at' = [at EXCEPT ![c] = "cloud"] /\ UNCHANGED <<queue, taken, alive>>
    /\ UNCHANGED <<local, parts, frame, frames, now, faults, clash>>

(* initializeLocalModel: from_pretrained for the three, one after another. *)
PartLoaded(c) ==
    /\ alive /\ at[c] \in Parts
    /\ parts' = parts \cup {at[c]}
    /\ IF at[c] = "tokenizer"
       THEN Enqueue(c, parts') /\ initialized' = TRUE
       ELSE /\ at' = [at EXCEPT ![c] = IF @ = "model" THEN "processor" ELSE "tokenizer"]
            /\ UNCHANGED <<queue, taken, alive, initialized>>
    /\ UNCHANGED <<local, frame, frames, now, faults, clash>>

LoadFails(c) ==
    /\ alive /\ at[c] \in Parts
    /\ Fault
    /\ at' = [at EXCEPT ![c] = "thrown"]
    /\ UNCHANGED <<local, alive, initialized, parts, queue, taken, frame, frames, now, clash>>

(* recognizeWithOpenAI: the image is fetched, the request tried up to     *)
(* three times.                                                           *)
CloudAnswers(c) ==
    /\ alive /\ at[c] = "cloud"
    /\ \/ at' = [at EXCEPT ![c] = "described"] /\ UNCHANGED faults
       \/ at' = [at EXCEPT ![c] = "thrown"] /\ Fault
    /\ UNCHANGED <<local, alive, initialized, parts, queue, taken, frame, frames, now, clash>>

(* checkQueue, every 100 ms. *)
Poll(c) ==
    /\ alive /\ at[c] = "waiting"
    /\ UrlOf[c] \notin Queued(queue)
    /\ at' = [at EXCEPT ![c] = Entry(UrlOf[c], parts)]
    /\ UNCHANGED <<local, alive, initialized, parts, queue, taken, frame, frames, now,
                   faults, clash>>

----------------------------------------------------------------------------
(* processImage. *)

(* The first frame of a gif goes to a file named after the clock. *)
FrameWritten(j) ==
    /\ alive /\ at[j] = "gif"
    /\ \E ms \in {now, now + 1} \cap Ms :
           /\ now' = ms
           /\ frame' = [frame EXCEPT ![j] = ms]
           /\ frames' = frames \cup {ms}
           /\ clash' = (clash \/ \E k \in Jobs : frame[k] = ms)
    /\ at' = [at EXCEPT ![j] = "image"]
    /\ UNCHANGED <<local, alive, initialized, parts, queue, taken, faults>>

(* The end of processImage for the worker is the loop of processQueue, or  *)
(* the end of the process.                                                 *)
Leave(j, outcome) ==
    /\ frame' = [frame EXCEPT ![j] = None]
    /\ alive' = (j # Worker \/ outcome = "described")
    /\ IF j = Worker /\ outcome = "described"
       THEN /\ taken' = IF queue = <<>> THEN None ELSE Head(queue)
            /\ queue' = IF queue = <<>> THEN queue ELSE Tail(queue)
            /\ at' = [at EXCEPT ![j] = IF queue = <<>> THEN "idle"
                                       ELSE Entry(Head(queue), parts)]
       ELSE /\ at' = [at EXCEPT ![j] = outcome]
            /\ UNCHANGED <<queue, taken>>
    /\ UNCHANGED <<local, initialized, parts, now, clash>>

Missing(j) == frame[j] # None /\ frame[j] \notin frames

(* The finally block removes the frame; a frame another job with the same *)
(* name has removed already makes reading or removing it throw.           *)
(* Mutant: it always throws on removal when nothing is there.             *)
Outcome_Unlinked(j) == IF frame[j] \notin frames THEN "thrown" ELSE "described"
Outcome(j) == IF Missing(j) THEN "thrown" ELSE "described"

Described(j) ==
    /\ alive /\ at[j] = "image"
    /\ frames' = frames \ {frame[j]}
    /\ Leave(j, Outcome(j))
    /\ UNCHANGED faults

ProcessingFails(j) ==
    /\ alive /\ at[j] \in Busy
    /\ Fault
    /\ frames' = frames \ {frame[j]}
    /\ Leave(j, "thrown")

Process(j) == FrameWritten(j) \/ Described(j) \/ ProcessingFails(j)
Advance(c) == PartLoaded(c) \/ LoadFails(c) \/ CloudAnswers(c) \/ Poll(c)

Continue == (\E c \in Calls : Advance(c)) \/ \E j \in Jobs : Process(j)

Next == Continue \/ \E c \in Calls : Describe(c)

(* Loads, requests and the model end, well or badly, and timers fire. *)
Spec == Init /\ [][Next]_vars /\ WF_vars(Continue)

----------------------------------------------------------------------------
(* Types of the service's fields and files. *)
TypeOK ==
    /\ local \in BOOLEAN /\ alive \in BOOLEAN /\ initialized \in BOOLEAN
    /\ parts \subseteq Parts
    /\ queue \in Seq(Urls)
    /\ at \in [Jobs -> Parts \cup Busy \cup
                       {"new", "idle", "cloud", "waiting", "described", "thrown"}]
    /\ taken \in Urls \cup {None}
    /\ frame \in [Jobs -> Ms \cup {None}]
    /\ frames \subseteq Ms
    /\ now \in Ms /\ faults \in 0 .. MaxFaults /\ clash \in BOOLEAN

(* The worker, whose error would end the process, fails only when the      *)
(* image or the model does, or when two frames were written in one         *)
(* millisecond: no order of the calls makes it start on a model that is    *)
(* not loaded or lose its frame.                                           *)
DiesOnlyOfFaults == ~alive => faults > 0 \/ clash

(* Again and again every call has ended, or the process has. *)
Quiet == ~alive \/ \A c \in Calls : at[c] \in {"new", "described", "thrown"}

============================================================================
