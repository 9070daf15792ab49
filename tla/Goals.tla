------------------------------- MODULE Goals -------------------------------
(***************************************************************************)
(* The goal evaluator: one goal of a room, and evaluations of several      *)
(* messages that update it.  The handler shows the goal to the model,      *)
(* reads the goal again when the model has answered, merges the answer     *)
(* into what it read and writes the whole row back.  With sqlite the last  *)
(* read and the write happen in one turn of the event loop; with postgres  *)
(* other evaluations run in between.                                       *)
(***************************************************************************)
EXTENDS Sequences, Naturals

CONSTANTS
    Evaluations, \* activations of the handler, each run once
    Objectives,  \* descriptions
    MaxLength    \* bound: objectives in a row the evaluations still touch

ASSUME GoalsAssumption == MaxLength \in Nat

VARIABLES
    goal, \* the row: its status and its objectives, in order
    eval, \* eval[e]: how far evaluation e is and what it holds
    mode  \* the database, and whether messages come while one is evaluated

vars == <<goal, eval, mode>>

Statuses == {"IN_PROGRESS", "DONE", "FAILED"}
ObjectiveRecords == [description : Objectives, completed : BOOLEAN]
Descriptions(s) == {s[i].description : i \in 1 .. Len(s)}
AllCompleted(s) == \A i \in 1 .. Len(s) : s[i].completed

NoUpdate == [status |-> "same", objectives |-> <<>>]
NewEval == [phase |-> "new", read |-> <<>>, update |-> NoUpdate]

(* createGoal stores every objective once. *)
Init ==
    /\ \E s \in [1 .. 2 -> [description : Objectives, completed : {FALSE}]] :
           /\ s[1].description # s[2].description
           /\ goal = [status |-> "IN_PROGRESS", objectives |-> s]
    /\ eval = [e \in Evaluations |-> NewEval]
    /\ mode \in [adapter : {"sqlite", "postgres"}, overlap : BOOLEAN]

----------------------------------------------------------------------------
(* validate; the model is then asked which evaluators to run. *)
Validate(e) ==
    /\ eval[e].phase = "new"
    /\ mode.overlap \/ \A f \in Evaluations : eval[f].phase \in {"new", "done"}
    /\ goal.status = "IN_PROGRESS"
    /\ eval' = [eval EXCEPT ![e].phase = "validated"]
    /\ UNCHANGED <<goal, mode>>

(* The first half of the handler: composeState shows the goal to the model,*)
(* in progress or not.                                                     *)
Show(e) ==
    /\ eval[e].phase = "validated"
    /\ Len(goal.objectives) <= MaxLength
    /\ eval' = [eval EXCEPT ![e].phase = "asked", ![e].read = goal.objectives]
    /\ UNCHANGED <<goal, mode>>

(* What the template asks the model for: the objectives it was shown, some *)
(* more of them completed, or none if they are unchanged; a status only to *)
(* finish the goal.                                                        *)
Progress(shown) ==
    {s \in [1 .. Len(shown) -> ObjectiveRecords] :
        \A i \in 1 .. Len(shown) : /\ s[i].description = shown[i].description
                                   /\ shown[i].completed => s[i].completed}

Answers(shown) ==
    {[status |-> "same", objectives |-> s] : s \in Progress(shown) \cup {<<>>}}
    \cup {[status |-> "DONE", objectives |-> s] : s \in {t \in Progress(shown) : AllCompleted(t)}}
    \cup {[status |-> "FAILED", objectives |-> <<>>]}

Answer(e) ==
    /\ eval[e].phase = "asked"
    /\ \E u \in Answers(eval[e].read) :
           eval' = [eval EXCEPT ![e].phase = "answered", ![e].update = u, ![e].read = <<>>]
    /\ UNCHANGED <<goal, mode>>

(* The update for an objective is the first with its description.          *)
Updated(o, update) ==
    LET found == {i \in 1 .. Len(update) : update[i].description = o.description}
    IN  IF found = {} THEN o
        ELSE update[CHOOSE i \in found : \A j \in found : i <= j]

(* Mutants: the objectives are replaced by the update's; the update's      *)
(* objectives are only appended.                                           *)
Merged_Replaced(objectives, update) == update
Merged_Appended(objectives, update) == objectives \o update
Merged(objectives, update) ==
    [i \in 1 .. Len(objectives) |-> Updated(objectives[i], update)] \o update

(* Mutant: a status is written as it comes, progress or not. *)
Row_Raw(objectives, update) ==
    [status |-> update.status, objectives |-> Merged(objectives, update.objectives)]
Row(objectives, update) ==
    [status |-> IF update.status = "same" THEN "IN_PROGRESS" ELSE update.status,
     objectives |-> Merged(objectives, update.objectives)]

(* Only goals still in progress are read, merged and written.              *)
(* Mutant: the second reading takes finished goals too.                    *)
Relevant_Any == TRUE
Relevant == goal.status = "IN_PROGRESS"

End(e) == eval' = [eval EXCEPT ![e] = [NewEval EXCEPT !.phase = "done"]]

Skip(e) ==
    /\ eval[e].phase = "answered"
    /\ ~Relevant
    /\ End(e)
    /\ UNCHANGED <<goal, mode>>

ReadAndWrite(e) ==
    /\ mode.adapter = "sqlite"
    /\ eval[e].phase = "answered"
    /\ Relevant
    /\ goal' = Row(goal.objectives, eval[e].update)
    /\ End(e)
    /\ UNCHANGED mode

Read(e) ==
    /\ mode.adapter = "postgres"
    /\ eval[e].phase = "answered"
    /\ Relevant
    /\ eval' = [eval EXCEPT ![e].phase = "read", ![e].read = goal.objectives]
    /\ UNCHANGED <<goal, mode>>

Write(e) ==
    /\ eval[e].phase = "read"
    /\ goal' = Row(eval[e].read, eval[e].update)
    /\ End(e)
    /\ UNCHANGED mode

(* The model's call or the database throws; nobody awaits the handler. *)
Fail(e) ==
    /\ eval[e].phase \in {"validated", "asked", "answered", "read"}
    /\ End(e)
    /\ UNCHANGED <<goal, mode>>

Next == \E e \in Evaluations :
    Validate(e) \/ Show(e) \/ Answer(e) \/ Skip(e) \/ ReadAndWrite(e) \/ Read(e) \/ Write(e) \/ Fail(e)

Spec == Init /\ [][Next]_vars

----------------------------------------------------------------------------
(* Types of the row and of the evaluations. *)
TypeOK ==
    /\ goal \in [status : Statuses, objectives : Seq(ObjectiveRecords)]
    /\ \A e \in Evaluations :
           /\ eval[e].phase \in {"new", "validated", "asked", "answered", "read", "done"}
           /\ eval[e].read \in Seq(ObjectiveRecords)
           /\ eval[e].update.status \in Statuses \cup {"same"}
           /\ eval[e].update.objectives \in Seq(ObjectiveRecords)

(* No evaluation makes the goal forget one of its objectives. *)
ObjectivesKept ==
    [][Descriptions(goal.objectives) \subseteq Descriptions(goal'.objectives)]_vars

(* With sqlite a goal that is finished stays as it is: an evaluation that  *)
(* made no progress does not change its status back.  (With postgres one   *)
(* that read the goal before does.)                                        *)
FinishedStays ==
    [][mode.adapter = "sqlite" /\ goal.status # "IN_PROGRESS" => goal' = goal]_vars

(* A goal is DONE only with all its objectives completed, if the model     *)
(* keeps to the template and evaluations do not overlap.                   *)
DoneIsComplete ==
    ~mode.overlap /\ goal.status = "DONE" => AllCompleted(goal.objectives)

(* Completed objectives stay completed, where evaluations do not overlap. *)
Completed(d) == \E i \in 1 .. Len(goal.objectives) :
                    goal.objectives[i].description = d /\ goal.objectives[i].completed
CompletedStays ==
    [][~mode.overlap => \A d \in Objectives : Completed(d) => Completed(d)']_vars

(* What was achieved stays achieved, in the goal and in its parts. *)
ProgressStays == FinishedStays /\ CompletedStays

(* An objective occurs once in its goal. *)
NoDuplicates ==
    \A i, j \in 1 .. Len(goal.objectives) :
        goal.objectives[i].description = goal.objectives[j].description => i = j

============================================================================
