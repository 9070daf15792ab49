------------------------------- MODULE Llama -------------------------------
(***************************************************************************)
(* LlamaService (plugin-node): completions by a local model.  Every call   *)
(* that finds the service uninitialized runs initializeModel on its own:   *)
(* download the model unless the file exists, load it, and on any error    *)
(* delete the file and begin again, or give up if that throws.  Then the   *)
(* call puts its request into a queue that is served one at a time on one  *)
(* context sequence.                                                       *)
(***************************************************************************)
EXTENDS Sequences, Naturals

CONSTANTS
    Requests,  \* calls of queueTextCompletion
    None,      \* not a request
    MaxFaults  \* bound: downloads and loads that fail although they need not

ASSUME LlamaAssumption == None \notin Requests /\ MaxFaults \in Nat

VARIABLES
    file,        \* the model file: None, or the call that last opened it
    whole,       \* whether that call wrote all of it
    at,          \* at[r]: how far the call is
    unlinks,     \* deletions of the file that broken downloads left to another thread
    initialized, \* this.modelInitialized
    queue,       \* this.messageQueue
    current,     \* the request being completed, or None
    history,     \* requests whose text is in this.sequence
    answer,      \* answer[r]: "none" until the queue settles r's promise
    faults

initVars == <<file, whole, unlinks, initialized, faults>>
queueVars == <<queue, current, history, answer>>
vars == <<file, whole, unlinks, at, initialized, queue, current, history, answer, faults>>

Initializing == {"open", "download", "load"}

Init ==
    /\ file = None
    /\ whole = FALSE
    /\ unlinks = 0
    /\ at = [r \in Requests |-> "new"]
    /\ initialized = FALSE
    /\ queue = <<>>
    /\ current = None
    /\ history = {}
    /\ answer = [r \in Requests |-> "none"]
    /\ faults = 0

Go(r, place) == at' = [at EXCEPT ![r] = place]

----------------------------------------------------------------------------
(* The queue.  isProcessing is TRUE exactly while there is a current one:  *)
(* an idle worker starts on the request in the step that queues it.        *)

(* Mutants: a call does not look whether the worker is busy; it leaves the *)
(* worker alone.                                                           *)
Idle_Always == TRUE
Idle_Never == FALSE
Idle == current = None

Enqueue(r, clean) ==
    /\ Go(r, "queued")
    /\ IF Idle
       THEN /\ current' = r
            /\ history' = clean \cup {r}
            /\ UNCHANGED queue
       ELSE /\ queue' = Append(queue, r)
            /\ history' = clean
            /\ UNCHANGED current

(* The answer, and the next request if there is one. *)
Settle(a, remaining) ==
    /\ answer' = [answer EXCEPT ![current] = a]
    /\ IF queue = <<>>
       THEN /\ current' = None
            /\ history' = remaining
            /\ UNCHANGED queue
       ELSE /\ current' = Head(queue)
            /\ queue' = Tail(queue)
            /\ history' = remaining \cup {Head(queue)}
    /\ UNCHANGED <<at, initVars>>

(* sequence.clearHistory(), before the response is returned. *)
(* Mutant: only the last request is dropped.                 *)
Cleared_Not == history
Cleared == {}

Complete == current # None /\ Settle("text", Cleared)

(* An empty response or an error of the model is thrown before that. *)
CompletionFails == current # None /\ Settle("error", history)

----------------------------------------------------------------------------
(* checkModel: the file is believed to be the model if it exists.  The     *)
(* write stream opens it later.                                            *)
(* Mutant: an existing file passes for a loaded model.                     *)
Checked_Loaded(f) == IF f = None THEN "open" ELSE "loaded"
Checked(f) == IF f = None THEN "open" ELSE "load"

Call(r) ==
    /\ at[r] = "new"
    /\ IF initialized THEN Enqueue(r, history)
       ELSE Go(r, Checked(file)) /\ UNCHANGED <<queue, current, history>>
    /\ UNCHANGED <<answer, initVars>>

(* The file is created, or truncated if another call created it. *)
Open(r) ==
    /\ at[r] = "open"
    /\ file' = r
    /\ whole' = FALSE
    /\ Go(r, "download")
    /\ UNCHANGED <<unlinks, initialized, queueVars, faults>>

(* What r wrote is the file, unless another call opened or deleted it. *)
Downloaded(r) ==
    /\ at[r] = "download"
    /\ whole' = (whole \/ file = r)
    /\ Go(r, "load")
    /\ UNCHANGED <<file, unlinks, initialized, queueVars, faults>>

(* initializeModel's catch: deleteModel and, in the same turn of the event *)
(* loop, initializeModel again.                                            *)
(* Mutant: the file is not deleted.                                        *)
DeleteModel_Not == file
DeleteModel == None

(* Between existsSync and unlinkSync a deletion that was left to another   *)
(* thread may take the file away: unlinkSync throws, and the call rejects. *)
Retry(r, left) ==
    /\ \/ /\ file' = DeleteModel
          /\ unlinks' = left
          /\ Go(r, Checked(file'))
       \/ /\ left > 0 /\ file # None
          /\ file' = None
          /\ unlinks' = left - 1
          /\ Go(r, "rejected")
    /\ whole' = (whole /\ file' # None)
    /\ UNCHANGED <<initialized, queueVars>>

(* fs.unlink: it deletes whatever file there is by then. *)
Unlink ==
    /\ unlinks > 0
    /\ unlinks' = unlinks - 1
    /\ file' = None
    /\ whole' = FALSE
    /\ UNCHANGED <<at, initialized, queueVars, faults>>

(* A request or a stream that breaks begins to delete the file before the  *)
(* catch does; an HTTP status does not.                                    *)
DownloadFails(r) ==
    /\ at[r] = "download"
    /\ faults < MaxFaults
    /\ faults' = faults + 1
    /\ \E left \in {unlinks, unlinks + 1} : Retry(r, left)

Loadable == file # None /\ whole

(* Model, context and sequence are replaced even if another call made them *)
(* before.                                                                 *)
Load(r) ==
    /\ at[r] = "load"
    /\ Loadable
    /\ initialized' = TRUE
    /\ Enqueue(r, {})
    /\ UNCHANGED <<file, whole, unlinks, answer, faults>>

LoadFails(r) ==
    /\ at[r] = "load"
    /\ ~Loadable
    /\ Retry(r, unlinks)
    /\ UNCHANGED faults

LoadFault(r) ==
    /\ at[r] = "load"
    /\ Loadable
    /\ faults < MaxFaults
    /\ faults' = faults + 1
    /\ Retry(r, unlinks)

Worker == Complete \/ CompletionFails
Initialize(r) ==
    Open(r) \/ Downloaded(r) \/ DownloadFails(r) \/ Load(r) \/ LoadFails(r) \/ LoadFault(r)

Next == Worker \/ Unlink \/ \E r \in Requests : Call(r) \/ Initialize(r)

(* Downloads, loads and completions end, well or badly. *)
Spec == Init /\ [][Next]_vars /\ WF_vars(Worker)
        /\ \A r \in Requests : WF_vars(Initialize(r))

----------------------------------------------------------------------------
(* Types of the service's fields. *)
TypeOK ==
    /\ file \in Requests \cup {None}
    /\ whole \in BOOLEAN
    /\ at \in [Requests -> Initializing \cup {"new", "queued", "rejected"}]
    /\ unlinks \in 0 .. faults
    /\ initialized \in BOOLEAN
    /\ queue \in Seq(Requests)
    /\ current \in Requests \cup {None}
    /\ history \subseteq Requests
    /\ answer \in [Requests -> {"none", "text", "error"}]
    /\ faults \in 0 .. MaxFaults

(* The model never sees the text of another request that was answered:     *)
(* what is left in the sequence are failed requests.                       *)
OnlyFailuresLeak == \A r \in history : r = current \/ answer[r] = "error"

(* Requests are completed one at a time, in the order the calls got        *)
(* through the initialization, and each is answered once.                  *)
Serial == INSTANCE SerialServer WITH
    waiting <- queue,
    serving <- {current} \ {None},
    answered <- {r \in Requests : answer[r] # "none"}

ServesSerially == Serial!Spec

(* A call does not initialize the model for ever when it is the only one   *)
(* that does: a broken download is deleted and made again.  (Two calls can *)
(* delete each other's file for ever.)                                     *)
Alone(r) ==
    /\ at[r] \in Initializing
    /\ \A q \in Requests \ {r} : at[q] \notin Initializing

AloneGetsThrough == \A r \in Requests : []<>~Alone(r)

(* Every request that got into the queue is answered. *)
QueuedAnswered == \A r \in Requests : at[r] = "queued" ~> answer[r] # "none"

============================================================================
