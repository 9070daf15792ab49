---------------------------- MODULE SerialServer ---------------------------
(***************************************************************************)
(* What the queues of the node plugin promise their callers: requests are  *)
(* served one at a time, in the order they were accepted, and each that    *)
(* was accepted is answered once.  TranscriptionService and the message    *)
(* queue of LlamaService implement it.                                     *)
(***************************************************************************)
EXTENDS Sequences, Naturals

CONSTANT Requests

VARIABLES
    waiting,  \* requests accepted and not yet taken up, in order
    serving,  \* the requests being served
    answered  \* the requests whose caller has an answer

vars == <<waiting, serving, answered>>

Accepted == {waiting[i] : i \in 1 .. Len(waiting)} \cup serving \cup answered

Init == waiting = <<>> /\ serving = {} /\ answered = {}

Submit(r) ==
    /\ r \notin Accepted
    /\ waiting' = Append(waiting, r)
    /\ UNCHANGED <<serving, answered>>

(* An idle server takes a request up at once. *)
SubmitAndServe(r) ==
    /\ r \notin Accepted
    /\ waiting = <<>> /\ serving = {}
    /\ serving' = {r}
    /\ UNCHANGED <<waiting, answered>>

(* A request too small to be worth a place in the queue. *)
Dismiss(r) ==
    /\ r \notin Accepted
    /\ answered' = answered \cup {r}
    /\ UNCHANGED <<waiting, serving>>

(* The answer of one request and the start of the next are one step. *)
Answer(r) ==
    /\ serving = {r}
    /\ answered' = answered \cup {r}
    /\ IF waiting = <<>> THEN serving' = {} /\ UNCHANGED waiting
                         ELSE serving' = {Head(waiting)} /\ waiting' = Tail(waiting)

Next == \E r \in Requests :
            Submit(r) \/ SubmitAndServe(r) \/ Dismiss(r) \/ Answer(r)

Spec == Init /\ [][Next]_vars

============================================================================
