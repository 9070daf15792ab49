---------------------------- MODULE TablesProofs ---------------------------
(* What holds of the tables: of Goals, for any number of evaluations and   *)
(* objectives and goals of every length; of Cache and Pool; and of the     *)
(* databases of Ports and Adapters, for any users, rooms, memories and     *)
(* goals.                                                                  *)
EXTENDS MCTables, QueueTheorems

Records == Seq(ObjectiveRecords)

(* An objective is replaced by one of the update with its description, if  *)
(* there is one.                                                           *)
LEMMA UpdatedIs ==
    ASSUME NEW o \in ObjectiveRecords, NEW update \in Records
    PROVE  \/ /\ Updated(o, update) = o
              /\ \A j \in 1 .. Len(update) : update[j].description # o.description
           \/ \E j \in 1 .. Len(update) : /\ Updated(o, update) = update[j]
                                          /\ update[j].description = o.description
  <1> DEFINE found == {i \in 1 .. Len(update) : update[i].description = o.description}
  <1>1. Len(update) \in Nat /\ found \in SUBSET Nat
    BY LenProperties DEF Records
  <1>2. CASE found = {}
    BY <1>2 DEF Updated
  <1>3. CASE found # {}
    <2>1. \E i \in found : \A j \in found : i <= j
      BY <1>1, <1>3, Least
    <2>2. (CHOOSE i \in found : \A j \in found : i <= j) \in found
      BY <2>1
    <2> QED BY <1>3, <2>2 DEF Updated
  <1> QED BY <1>2, <1>3

LEMMA FunctionIsSeq ==
    ASSUME NEW S, NEW n \in Nat, NEW h \in [1 .. n -> S]
    PROVE  h \in Seq(S) /\ Len(h) = n
  OBVIOUS

(* What of the goal's objectives and of the update's a merge returns.      *)
LEMMA MergedIs ==
    ASSUME NEW s \in Records, NEW update \in Records
    PROVE  /\ Merged(s, update) \in Records
           /\ Len(Merged(s, update)) = Len(s) + Len(update)
           /\ \A i \in 1 .. Len(s) : Merged(s, update)[i] = Updated(s[i], update)
           /\ \A j \in 1 .. Len(update) : Merged(s, update)[Len(s) + j] = update[j]
  <1> DEFINE h == [i \in 1 .. Len(s) |-> Updated(s[i], update)]
  <1>1. /\ Len(s) \in Nat /\ Len(update) \in Nat
        /\ \A i \in 1 .. Len(s) : s[i] \in ObjectiveRecords
        /\ \A i \in 1 .. Len(update) : update[i] \in ObjectiveRecords
    BY LenProperties, ElementOfSeq DEF Records
  <1>2. \A i \in 1 .. Len(s) : Updated(s[i], update) \in ObjectiveRecords
    BY <1>1, UpdatedIs
  <1>3. h \in Seq(ObjectiveRecords) /\ Len(h) = Len(s)
    <2>1. h \in [1 .. Len(s) -> ObjectiveRecords]
      BY <1>2
    <2> HIDE DEF h
    <2> QED BY <1>1, <2>1, FunctionIsSeq
  <1> HIDE DEF h
  <1>4. /\ h \o update \in Seq(ObjectiveRecords)
        /\ Len(h \o update) = Len(s) + Len(update)
        /\ \A i \in 1 .. Len(s) + Len(update) :
               (h \o update)[i] = IF i <= Len(s) THEN h[i] ELSE update[i - Len(s)]
    <2>1. update \in Seq(ObjectiveRecords)
      BY DEF Records
    <2>2. /\ h \o update \in Seq(ObjectiveRecords)
          /\ Len(h \o update) = Len(h) + Len(update)
          /\ \A i \in 1 .. Len(h) + Len(update) :
                 (h \o update)[i] = IF i <= Len(h) THEN h[i] ELSE update[i - Len(h)]
      BY <1>3, <2>1, ConcatProperties
    <2> QED BY <1>3, <2>2
  <1>5. \A i \in 1 .. Len(s) : (h \o update)[i] = Updated(s[i], update)
    BY <1>1, <1>4 DEF h
  <1>6. \A j \in 1 .. Len(update) : (h \o update)[Len(s) + j] = update[j]
    BY <1>1, <1>4
  <1>7. Merged(s, update) = h \o update
    BY DEF Merged, h
  <1> QED BY <1>4, <1>5, <1>6, <1>7 DEF Records

(* No description is lost in a merge, and none comes from elsewhere.       *)
LEMMA MergedDescriptions ==
    ASSUME NEW s \in Records, NEW update \in Records
    PROVE  Descriptions(Merged(s, update)) = Descriptions(s) \cup Descriptions(update)
  <1> DEFINE m == Merged(s, update)
  <1>1. /\ Len(m) = Len(s) + Len(update)
        /\ \A i \in 1 .. Len(s) : m[i] = Updated(s[i], update)
        /\ \A j \in 1 .. Len(update) : m[Len(s) + j] = update[j]
    BY MergedIs
  <1>2. /\ Len(s) \in Nat /\ Len(update) \in Nat
        /\ \A i \in 1 .. Len(s) : s[i] \in ObjectiveRecords
    BY LenProperties, ElementOfSeq DEF Records
  <1> HIDE DEF m
  <1>3. \A i \in 1 .. Len(s) : m[i].description = s[i].description
    BY <1>1, <1>2, UpdatedIs
  <1>4. Descriptions(m) \subseteq Descriptions(s) \cup Descriptions(update)
    <2> SUFFICES ASSUME NEW i \in 1 .. Len(m)
                 PROVE  m[i].description \in Descriptions(s) \cup Descriptions(update)
      BY DEF Descriptions
    <2>1. CASE i <= Len(s)
      BY <1>2, <1>3, <2>1, <1>1 DEF Descriptions
    <2>2. CASE ~(i <= Len(s))
      <3>1. i - Len(s) \in 1 .. Len(update) /\ Len(s) + (i - Len(s)) = i
        BY <1>1, <1>2, <2>2
      <3>2. m[i] = update[i - Len(s)]
        BY <1>1, <3>1
      <3> QED BY <3>1, <3>2 DEF Descriptions
    <2> QED BY <2>1, <2>2
  <1>5. Descriptions(s) \subseteq Descriptions(m)
    BY <1>1, <1>2, <1>3 DEF Descriptions
  <1>6. Descriptions(update) \subseteq Descriptions(m)
    <2> SUFFICES ASSUME NEW j \in 1 .. Len(update)
                 PROVE  update[j].description \in Descriptions(m)
      BY DEF Descriptions
    <2>1. Len(s) + j \in 1 .. Len(m)
      BY <1>1, <1>2
    <2> QED BY <1>1, <2>1 DEF Descriptions
  <1> QED BY <1>4, <1>5, <1>6 DEF m

----------------------------------------------------------------------------
(* The objectives the model may answer with are those it was shown, none   *)
(* of them undone.                                                         *)
LEMMA AnswersAre ==
    ASSUME NEW shown \in Records, NEW u \in Answers(shown)
    PROVE  /\ u.status \in Statuses \cup {"same"} /\ u.objectives \in Records
           /\ \/ u.objectives = <<>> /\ u.status # "DONE"
              \/ u.objectives \in Progress(shown) /\ Len(u.objectives) = Len(shown)
           /\ u.status = "DONE" => AllCompleted(u.objectives)
           /\ Descriptions(u.objectives) \subseteq Descriptions(shown)
  <1>1. Len(shown) \in Nat /\ <<>> \in Records
    BY LenProperties, EmptySeq DEF Records
  <1>2. \A s \in Progress(shown) :
            /\ s \in Records /\ Len(s) = Len(shown)
            /\ Descriptions(s) \subseteq Descriptions(shown)
    <2> SUFFICES ASSUME NEW s \in Progress(shown)
                 PROVE  /\ s \in Records /\ Len(s) = Len(shown)
                        /\ Descriptions(s) \subseteq Descriptions(shown)
      OBVIOUS
    <2>1. s \in Records /\ Len(s) = Len(shown)
      BY <1>1, FunctionIsSeq DEF Progress, Records
    <2> QED BY <2>1 DEF Progress, Descriptions
  <1>6. Descriptions(<<>>) = {}
    BY EmptySeq DEF Descriptions
  <1>3. CASE \E s \in Progress(shown) \cup {<<>>} : u = [status |-> "same", objectives |-> s]
    BY <1>1, <1>2, <1>3, <1>6
  <1>4. CASE \E s \in {t \in Progress(shown) : AllCompleted(t)} :
                 u = [status |-> "DONE", objectives |-> s]
    BY <1>2, <1>4 DEF Statuses
  <1>5. CASE u = [status |-> "FAILED", objectives |-> <<>>]
    BY <1>1, <1>5, <1>6 DEF Statuses
  <1> QED BY <1>3, <1>4, <1>5 DEF Answers

(* A row written back: its type, and where its descriptions come from.     *)
LEMMA RowIs ==
    ASSUME NEW s \in Records, NEW u, u.objectives \in Records,
           u.status \in Statuses \cup {"same"}
    PROVE  /\ Row(s, u) \in [status : Statuses, objectives : Records]
           /\ Row(s, u).objectives = Merged(s, u.objectives)
           /\ Row(s, u).status = "DONE" => u.status = "DONE"
           /\ Descriptions(Row(s, u).objectives)
                  = Descriptions(s) \cup Descriptions(u.objectives)
  <1>1. /\ Merged(s, u.objectives) \in Records
        /\ Descriptions(Merged(s, u.objectives))
               = Descriptions(s) \cup Descriptions(u.objectives)
    BY MergedIs, MergedDescriptions
  <1> QED BY <1>1 DEF Row, Statuses

----------------------------------------------------------------------------
Phases == {"new", "validated", "asked", "answered", "read", "done"}
Active == {"validated", "asked", "answered", "read"}

(* What evaluation e holds, whoever else evaluates: descriptions of the    *)
(* goal's objectives, in a copy of the row or in an answer.                *)
Holds(e) ==
    /\ eval[e].phase \in {"asked", "read"} =>
           Descriptions(eval[e].read) = Descriptions(goal.objectives)
    /\ eval[e].phase \in {"answered", "read"} =>
           Descriptions(eval[e].update.objectives) \subseteq Descriptions(goal.objectives)
    /\ mode.adapter = "sqlite" => eval[e].phase # "read"

(* What it holds if no message comes while one is evaluated: the goal      *)
(* itself, still in progress, and an answer that continues it.             *)
Alone(e) ==
    eval[e].phase \in Active =>
        /\ \A f \in Evaluations \ {e} : eval[f].phase \notin Active
        /\ goal.status = "IN_PROGRESS"
        /\ eval[e].phase \in {"asked", "read"} => eval[e].read = goal.objectives
        /\ eval[e].phase \in {"answered", "read"} =>
               /\ \/ eval[e].update.objectives = <<>> /\ eval[e].update.status # "DONE"
                  \/ /\ eval[e].update.objectives \in Progress(goal.objectives)
                     /\ Len(eval[e].update.objectives) = Len(goal.objectives)
               /\ eval[e].update.status = "DONE" => AllCompleted(eval[e].update.objectives)

EvalRecords ==
    [phase : Phases, read : Records,
     update : [status : Statuses \cup {"same"}, objectives : Records]]

Types ==
    /\ goal \in [status : Statuses, objectives : Records]
    /\ eval \in [Evaluations -> EvalRecords]

Inv ==
    /\ Types
    /\ \A e \in Evaluations : Holds(e)
    /\ ~mode.overlap => \A e \in Evaluations : Alone(e)
    /\ DoneIsComplete

LEMMA TypesAgree == Types => TypeOK
  BY DEF Types, TypeOK, EvalRecords, Phases, Records

LEMMA InitInv == Init => Inv
  <1> SUFFICES ASSUME Init PROVE Inv
    OBVIOUS
  <1>1. PICK s \in [1 .. 2 -> [description : Objectives, completed : {FALSE}]] :
            goal = [status |-> "IN_PROGRESS", objectives |-> s]
    BY DEF Init
  <1>2. s \in [1 .. 2 -> ObjectiveRecords]
    BY DEF ObjectiveRecords
  <1>3. s \in Records
    BY <1>2, FunctionIsSeq DEF Records
  <1>4. NewEval \in EvalRecords /\ NewEval.phase = "new"
    <2>1. <<>> \in Records
      BY EmptySeq DEF Records
    <2> QED BY <2>1 DEF NewEval, NoUpdate, EvalRecords, Phases
  <1>5. Types
    BY <1>1, <1>3, <1>4 DEF Init, Types, Statuses
  <1>6. \A e \in Evaluations : Holds(e) /\ Alone(e)
    BY <1>4 DEF Init, Holds, Alone, Active
  <1> QED BY <1>1, <1>5, <1>6 DEF Inv, DoneIsComplete

(* An answer that continues the goal completes what it says it completes,  *)
(* and undoes nothing.                                                     *)
LEMMA MergedCompletes ==
    ASSUME NEW s \in Records, NEW u \in Records,
           u = <<>> \/ (u \in Progress(s) /\ Len(u) = Len(s))
    PROVE  /\ u # <<>> /\ AllCompleted(u) => AllCompleted(Merged(s, u))
           /\ \A i \in 1 .. Len(s) : s[i].completed =>
                  \E j \in 1 .. Len(Merged(s, u)) :
                      /\ Merged(s, u)[j].description = s[i].description
                      /\ Merged(s, u)[j].completed
  <1> DEFINE m == Merged(s, u)
  <1>1. /\ Len(m) = Len(s) + Len(u)
        /\ \A i \in 1 .. Len(s) : m[i] = Updated(s[i], u)
        /\ \A j \in 1 .. Len(u) : m[Len(s) + j] = u[j]
    BY MergedIs
  <1>2. /\ Len(s) \in Nat /\ Len(u) \in Nat
        /\ \A i \in 1 .. Len(s) : s[i] \in ObjectiveRecords
    BY LenProperties, ElementOfSeq DEF Records
  <1> HIDE DEF m
  <1>3. CASE u = <<>>
    <2>1. Len(u) = 0
      BY <1>3
    <2>2. \A i \in 1 .. Len(s) : m[i] = s[i]
      BY <1>1, <1>2, <2>1, UpdatedIs
    <2> QED BY <1>1, <1>2, <1>3, <2>1, <2>2 DEF m
  <1>4. CASE u \in Progress(s) /\ Len(u) = Len(s)
    <2>1. \A i \in 1 .. Len(s) : /\ u[i].description = s[i].description
                                 /\ s[i].completed => u[i].completed
      BY <1>4 DEF Progress
    <2>2. ASSUME NEW i \in 1 .. Len(s), s[i].completed
          PROVE  \E j \in 1 .. Len(m) : /\ m[j].description = s[i].description
                                        /\ m[j].completed
      <3>1. Len(s) + i \in 1 .. Len(m) /\ m[Len(s) + i] = u[i]
        BY <1>1, <1>2, <1>4
      <3> QED BY <2>1, <2>2, <3>1
    <2>3. ASSUME AllCompleted(u), NEW j \in 1 .. Len(m) PROVE m[j].completed
      <3>1. CASE j <= Len(s)
        <4>1. j \in 1 .. Len(s) /\ j \in 1 .. Len(u)
          BY <1>1, <1>2, <1>4, <3>1
        <4>2. PICK k \in 1 .. Len(u) : Updated(s[j], u) = u[k]
          BY <1>2, <2>1, <4>1, UpdatedIs
        <4> QED BY <1>1, <2>3, <4>1, <4>2 DEF AllCompleted
      <3>2. CASE ~(j <= Len(s))
        <4>1. j - Len(s) \in 1 .. Len(u) /\ Len(s) + (j - Len(s)) = j
          BY <1>1, <1>2, <3>2
        <4>2. m[j] = u[j - Len(s)]
          BY <1>1, <4>1
        <4> QED BY <2>3, <4>1, <4>2 DEF AllCompleted
      <3> QED BY <3>1, <3>2
    <2>4. AllCompleted(u) => AllCompleted(m)
      BY <2>3 DEF AllCompleted
    <2> QED BY <2>2, <2>4 DEF m
  <1> QED BY <1>3, <1>4

(* A step of e that keeps the goal's objectives disturbs no evaluation.    *)
LEMMA Frame ==
    ASSUME Inv, NEW e \in Evaluations, Types', mode' = mode,
           \A f \in Evaluations \ {e} : eval'[f] = eval[f],
           Descriptions(goal'.objectives) = Descriptions(goal.objectives),
           Holds(e)', DoneIsComplete',
           ~mode.overlap => /\ Alone(e)'
                            /\ \A f \in Evaluations \ {e} : eval[f].phase \notin Active
    PROVE  Inv'
  <1>1. ASSUME NEW f \in Evaluations \ {e} PROVE Holds(f)'
    <2>1. Holds(f)
      BY DEF Inv
    <2> QED BY <2>1 DEF Holds
  <1>2. ASSUME ~mode.overlap, NEW f \in Evaluations \ {e} PROVE Alone(f)'
    BY <1>2 DEF Alone
  <1> QED BY <1>1, <1>2 DEF Inv

(* Up to the answer, and on a failure, the goal is only looked at.         *)
LEMMA LookPreservesInv ==
    ASSUME Inv, NEW e \in Evaluations,
           Validate(e) \/ Show(e) \/ Answer(e) \/ Skip(e) \/ Read(e) \/ Fail(e)
    PROVE  Inv'
  <1>1. /\ goal \in [status : Statuses, objectives : Records]
        /\ eval \in [Evaluations -> EvalRecords] /\ eval[e] \in EvalRecords
        /\ Holds(e) /\ (~mode.overlap => Alone(e)) /\ DoneIsComplete
    BY DEF Inv, Types
  <1>2. UNCHANGED <<goal, mode>>
    BY DEF Validate, Show, Answer, Skip, Read, Fail
  <1>3. ASSUME NEW r \in EvalRecords, eval' = [eval EXCEPT ![e] = r],
               ~mode.overlap => \A f \in Evaluations \ {e} : eval[f].phase \notin Active,
               r.phase \in {"asked", "read"} => r.read = goal.objectives,
               r.phase \in {"answered", "read"} =>
                   Descriptions(r.update.objectives) \subseteq Descriptions(goal.objectives),
               mode.adapter = "sqlite" => r.phase # "read",
               ~mode.overlap /\ r.phase \in Active =>
                   /\ goal.status = "IN_PROGRESS"
                   /\ r.phase \in {"answered", "read"} =>
                        /\ \/ r.update.objectives = <<>> /\ r.update.status # "DONE"
                           \/ /\ r.update.objectives \in Progress(goal.objectives)
                              /\ Len(r.update.objectives) = Len(goal.objectives)
                        /\ r.update.status = "DONE" => AllCompleted(r.update.objectives)
        PROVE  Inv'
    <2>1. eval'[e] = r /\ \A f \in Evaluations \ {e} : eval'[f] = eval[f]
      BY <1>1, <1>3
    <2>2. Types'
      BY <1>1, <1>2, <1>3 DEF Types
    <2>3. Holds(e)'
      BY <1>2, <1>3, <2>1 DEF Holds
    <2>4. ~mode.overlap => Alone(e)'
      BY <1>2, <1>3, <2>1 DEF Alone
    <2>5. DoneIsComplete'
      BY <1>1, <1>2 DEF DoneIsComplete
    <2> QED BY <1>2, <1>3, <2>1, <2>2, <2>3, <2>4, <2>5, Frame
  <1>4. eval[e].phase \in Active =>
            (~mode.overlap => \A f \in Evaluations \ {e} : eval[f].phase \notin Active)
    BY <1>1 DEF Alone
  <1> USE DEF EvalRecords, Phases, Active
  <1>5. CASE Validate(e)
    <2> DEFINE r == [eval[e] EXCEPT !.phase = "validated"]
    <2>1. /\ r \in EvalRecords /\ eval' = [eval EXCEPT ![e] = r] /\ r.phase = "validated"
          /\ goal.status = "IN_PROGRESS"
          /\ ~mode.overlap => \A f \in Evaluations \ {e} : eval[f].phase \notin Active
      BY <1>1, <1>5 DEF Validate
    <2> HIDE DEF r
    <2> QED BY <1>3, <2>1
  <1>6. CASE Show(e)
    <2> DEFINE r == [eval[e] EXCEPT !.phase = "asked", !.read = goal.objectives]
    <2>1. /\ r \in EvalRecords /\ eval' = [eval EXCEPT ![e] = r] /\ r.phase = "asked"
          /\ r.read = goal.objectives /\ eval[e].phase = "validated"
      BY <1>1, <1>6 DEF Show
    <2> HIDE DEF r
    <2> QED BY <1>1, <1>3, <1>4, <2>1 DEF Alone
  <1>7. CASE Answer(e)
    <2>1. PICK u \in Answers(eval[e].read) :
              eval' = [eval EXCEPT ![e].phase = "answered", ![e].update = u, ![e].read = <<>>]
      BY <1>7 DEF Answer
    <2>2. eval[e].phase = "asked" /\ eval[e].read \in Records
      BY <1>1, <1>7 DEF Answer
    <2>3. /\ u.status \in Statuses \cup {"same"} /\ u.objectives \in Records
          /\ \/ u.objectives = <<>> /\ u.status # "DONE"
             \/ u.objectives \in Progress(eval[e].read) /\ Len(u.objectives) = Len(eval[e].read)
          /\ u.status = "DONE" => AllCompleted(u.objectives)
          /\ Descriptions(u.objectives) \subseteq Descriptions(eval[e].read)
      BY <2>2, AnswersAre
    <2>4. u \in [status : Statuses \cup {"same"}, objectives : Records] /\ <<>> \in Records
      <3>1. \E s \in Records, t \in Statuses \cup {"same"} : u = [status |-> t, objectives |-> s]
        BY <2>3 DEF Answers
      <3> QED BY <3>1, EmptySeq DEF Records
    <2> DEFINE r == [eval[e] EXCEPT !.phase = "answered", !.update = u, !.read = <<>>]
    <2>5. /\ r \in EvalRecords /\ eval' = [eval EXCEPT ![e] = r] /\ r.phase = "answered"
          /\ r.update = u
      BY <1>1, <2>1, <2>4
    <2>6. Descriptions(eval[e].read) = Descriptions(goal.objectives)
      BY <1>1, <2>2 DEF Holds
    <2>7. ~mode.overlap => eval[e].read = goal.objectives /\ goal.status = "IN_PROGRESS"
      BY <1>1, <2>2 DEF Alone
    <2> HIDE DEF r
    <2> QED BY <1>3, <1>4, <2>2, <2>3, <2>5, <2>6, <2>7
  <1>8. CASE Skip(e) \/ Fail(e)
    <2> DEFINE r == [NewEval EXCEPT !.phase = "done"]
    <2>1. <<>> \in Records
      BY EmptySeq DEF Records
    <2>2. /\ r \in EvalRecords /\ eval' = [eval EXCEPT ![e] = r] /\ r.phase = "done"
          /\ eval[e].phase \in Active
      BY <1>1, <1>8, <2>1 DEF Skip, Fail, End, NewEval, NoUpdate
    <2> HIDE DEF r
    <2> QED BY <1>3, <1>4, <2>2
  <1>9. CASE Read(e)
    <2> DEFINE r == [eval[e] EXCEPT !.phase = "read", !.read = goal.objectives]
    <2>1. /\ r \in EvalRecords /\ eval' = [eval EXCEPT ![e] = r] /\ r.phase = "read"
          /\ r.read = goal.objectives /\ r.update = eval[e].update
          /\ eval[e].phase = "answered" /\ mode.adapter = "postgres"
      BY <1>1, <1>9 DEF Read
    <2> HIDE DEF r
    <2> QED BY <1>1, <1>3, <1>4, <2>1 DEF Alone, Holds
  <1> QED BY <1>5, <1>6, <1>7, <1>8, <1>9

(* What is written back: the answer merged into the objectives read, which *)
(* are the goal's own unless another evaluation came between.              *)
LEMMA Written ==
    ASSUME Inv, NEW e \in Evaluations, ReadAndWrite(e) \/ Write(e)
    PROVE  /\ eval[e].phase \in {"answered", "read"}
           /\ eval' = [eval EXCEPT ![e] = [NewEval EXCEPT !.phase = "done"]]
           /\ mode' = mode
           /\ mode.adapter = "sqlite" => goal.status = "IN_PROGRESS"
           /\ \E s \in Records : /\ goal' = Row(s, eval[e].update)
                                 /\ Descriptions(s) = Descriptions(goal.objectives)
                                 /\ ~mode.overlap => s = goal.objectives
  <1>1. /\ goal.objectives \in Records /\ eval[e].read \in Records
        /\ Holds(e) /\ (~mode.overlap => Alone(e))
    BY DEF Inv, Types, EvalRecords
  <1>2. CASE ReadAndWrite(e)
    BY <1>1, <1>2 DEF ReadAndWrite, Relevant, End
  <1>3. CASE Write(e)
    BY <1>1, <1>3 DEF Write, End, Holds, Alone, Active
  <1> QED BY <1>2, <1>3

LEMMA WritePreservesInv ==
    ASSUME Inv, NEW e \in Evaluations, ReadAndWrite(e) \/ Write(e)
    PROVE  Inv'
  <1>1. /\ eval \in [Evaluations -> EvalRecords] /\ eval[e] \in EvalRecords
        /\ Holds(e) /\ (~mode.overlap => Alone(e))
    BY DEF Inv, Types
  <1> DEFINE u == eval[e].update
  <1>2. u.objectives \in Records /\ u.status \in Statuses \cup {"same"}
    BY <1>1 DEF EvalRecords
  <1>3. /\ eval[e].phase \in {"answered", "read"} /\ mode' = mode
        /\ eval' = [eval EXCEPT ![e] = [NewEval EXCEPT !.phase = "done"]]
    BY Written
  <1>4. PICK s \in Records : /\ goal' = Row(s, u)
                             /\ Descriptions(s) = Descriptions(goal.objectives)
                             /\ ~mode.overlap => s = goal.objectives
    BY Written
  <1> HIDE DEF u
  <1>5. /\ goal' \in [status : Statuses, objectives : Records]
        /\ goal'.objectives = Merged(s, u.objectives)
        /\ goal'.status = "DONE" => u.status = "DONE"
        /\ Descriptions(goal'.objectives)
               = Descriptions(s) \cup Descriptions(u.objectives)
    BY <1>2, <1>4, RowIs
  <1>6. Descriptions(goal'.objectives) = Descriptions(goal.objectives)
    BY <1>1, <1>3, <1>4, <1>5 DEF Holds, u
  <1>7. DoneIsComplete'
    <2> SUFFICES ASSUME ~mode.overlap, goal'.status = "DONE"
                 PROVE  AllCompleted(goal'.objectives)
      BY <1>3 DEF DoneIsComplete
    <2>1. u.status = "DONE" /\ s = goal.objectives
      BY <1>4, <1>5
    <2>2. /\ u.objectives \in Progress(s) /\ Len(u.objectives) = Len(s)
          /\ AllCompleted(u.objectives)
      BY <1>1, <1>3, <2>1 DEF Alone, Active, u
    <2>3. CASE u.objectives # <<>>
      BY <1>2, <1>5, <2>2, <2>3, MergedCompletes
    <2>4. CASE u.objectives = <<>>
      <3>1. Len(s) = 0 /\ Len(u.objectives) = 0
        BY <2>2, <2>4
      <3>2. Len(goal'.objectives) = 0
        BY <1>2, <1>5, <3>1, MergedIs
      <3> QED BY <3>2 DEF AllCompleted
    <2> QED BY <2>3, <2>4
  <1>8. /\ [NewEval EXCEPT !.phase = "done"] \in EvalRecords
        /\ eval'[e].phase = "done"
        /\ \A f \in Evaluations \ {e} : eval'[f] = eval[f]
    <2>1. <<>> \in Records
      BY EmptySeq DEF Records
    <2> QED BY <1>1, <1>3, <2>1 DEF EvalRecords, Phases, NewEval, NoUpdate
  <1>9. Types' /\ Holds(e)' /\ Alone(e)'
    BY <1>1, <1>3, <1>5, <1>8 DEF Types, Holds, Alone, Active
  <1>10. ~mode.overlap => \A f \in Evaluations \ {e} : eval[f].phase \notin Active
    BY <1>1, <1>3 DEF Alone, Active
  <1> QED BY <1>3, <1>6, <1>7, <1>8, <1>9, <1>10, Frame

LEMMA NextInv == Inv /\ [Next]_vars => Inv'
  <1> SUFFICES ASSUME Inv, [Next]_vars PROVE Inv'
    OBVIOUS
  <1>1. CASE UNCHANGED vars
    BY <1>1 DEF vars, Inv, Types, Holds, Alone, DoneIsComplete
  <1> QED BY <1>1, LookPreservesInv, WritePreservesInv DEF Next

LEMMA SpecInv == Spec => []Inv
  BY InitInv, NextInv, PTL DEF Spec

(* Only a write changes the goal.                                          *)
LEMMA GoalChanges ==
    ASSUME [Next]_vars
    PROVE  /\ mode' = mode
           /\ goal' = goal \/ \E e \in Evaluations : ReadAndWrite(e) \/ Write(e)
  BY DEF Next, vars, Validate, Show, Answer, Skip, Read, ReadAndWrite, Write, Fail

----------------------------------------------------------------------------
(* The row of the goal and what evaluations hold keep their types.         *)
THEOREM TypeCorrect == Spec => []TypeOK
  <1>1. Inv => TypeOK
    BY TypesAgree DEF Inv
  <1> QED BY <1>1, SpecInv, PTL

(* On both databases, for evaluations that overlap in any way and write    *)
(* back what they read before others wrote, no objective is ever lost.     *)
THEOREM NoObjectiveIsLost == Spec => ObjectivesKept
  <1>1. Inv /\ [Next]_vars =>
            [Descriptions(goal.objectives) \subseteq Descriptions(goal'.objectives)]_vars
    <2> SUFFICES ASSUME Inv, [Next]_vars
                 PROVE  Descriptions(goal.objectives) \subseteq Descriptions(goal'.objectives)
      OBVIOUS
    <2>1. CASE goal' = goal
      BY <2>1
    <2>2. ASSUME NEW e \in Evaluations, ReadAndWrite(e) \/ Write(e)
          PROVE  Descriptions(goal.objectives) \subseteq Descriptions(goal'.objectives)
      <3>1. PICK s \in Records : /\ goal' = Row(s, eval[e].update)
                                 /\ Descriptions(s) = Descriptions(goal.objectives)
        BY <2>2, Written
      <3>2. /\ eval[e].update.objectives \in Records
            /\ eval[e].update.status \in Statuses \cup {"same"}
        BY DEF Inv, Types, EvalRecords
      <3> QED BY <3>1, <3>2, RowIs
    <2> QED BY <2>1, <2>2, GoalChanges
  <1> QED BY <1>1, SpecInv, PTL DEF Spec, ObjectivesKept

(* What was achieved stays achieved: a finished goal on sqlite, completed  *)
(* objectives where messages are evaluated one after the other.            *)
THEOREM ProgressIsKept == Spec => ProgressStays
  <1>1. Inv /\ [Next]_vars =>
            [mode.adapter = "sqlite" /\ goal.status # "IN_PROGRESS" => goal' = goal]_vars
    BY GoalChanges, Written
  <1>2. Inv /\ [Next]_vars =>
            [~mode.overlap => \A d \in Objectives : Completed(d) => Completed(d)']_vars
    <2> SUFFICES ASSUME Inv, [Next]_vars, ~mode.overlap, NEW d \in Objectives, Completed(d)
                 PROVE  Completed(d)'
      OBVIOUS
    <2>1. CASE goal' = goal
      BY <2>1 DEF Completed
    <2>2. ASSUME NEW e \in Evaluations, ReadAndWrite(e) \/ Write(e)
          PROVE  Completed(d)'
      <3> DEFINE u == eval[e].update
                 s == goal.objectives
      <3>1. /\ u.objectives \in Records /\ u.status \in Statuses \cup {"same"}
            /\ s \in Records /\ Alone(e)
        BY DEF Inv, Types, EvalRecords
      <3>2. goal' = Row(s, u) /\ eval[e].phase \in {"answered", "read"}
        BY <2>2, Written
      <3>3. \/ u.objectives = <<>>
            \/ u.objectives \in Progress(s) /\ Len(u.objectives) = Len(s)
        BY <3>1, <3>2 DEF Alone, Active
      <3>4. goal'.objectives = Merged(s, u.objectives)
        BY <3>1, <3>2, RowIs
      <3>5. PICK i \in 1 .. Len(s) : s[i].description = d /\ s[i].completed
        BY DEF Completed
      <3> HIDE DEF u, s
      <3>6. \E j \in 1 .. Len(goal'.objectives) :
                /\ goal'.objectives[j].description = d /\ goal'.objectives[j].completed
        BY <3>1, <3>3, <3>4, <3>5, MergedCompletes
      <3> QED BY <3>6 DEF Completed
    <2> QED BY <2>1, <2>2, GoalChanges
  <1> QED BY <1>1, <1>2, SpecInv, PTL
          DEF Spec, ProgressStays, FinishedStays, CompletedStays

(* A goal that is DONE has all its objectives completed, for every number  *)
(* of messages evaluated one after the other, on both databases.           *)
THEOREM DoneMeansComplete == Spec => []DoneIsComplete
  BY SpecInv, PTL DEF Inv

----------------------------------------------------------------------------
(* Cache.  As long as nothing expired, no deletion is under way that       *)
(* nobody waits for, and the row is what was set last.                     *)

IsFresh(row, time) == \A e \in row : e.expires = 0 \/ e.expires > time

CacheInv ==
    /\ Ca!TypeOK
    /\ \A c \in Callers : caCaller[c].op = "set" => \E e \in Ca!Entries : caCaller[c].seen = {e}
    /\ caKept = {} \/ \E e \in Ca!Entries : caKept = {e}
    /\ ~caOutlived => /\ caStray = 0 /\ caEntry = caKept /\ IsFresh(caEntry, caNow)
                      /\ \A c \in Callers : caCaller[c].op = "inspect" =>
                                               IsFresh(caCaller[c].seen, caNow)

LEMMA NotPast ==
    ASSUME Ca!CacheAssumption, NEW row \in SUBSET Ca!Entries, NEW time \in Nat,
           ~Ca!Past(row, time)
    PROVE  IsFresh(row, time)
  <1>1. \A e \in row : e.expires \in Nat
    BY DEF Ca!Entries, Ca!CacheAssumption
  <1> QED BY <1>1 DEF Ca!Past, IsFresh

(* A step of a caller: what it is doing changes, and perhaps the row.      *)
LEMMA CacheMove ==
    ASSUME Ca!CacheAssumption, CacheInv, NEW c \in Callers,
           NEW op \in Ca!Ops, NEW seen \in SUBSET Ca!Entries, Ca!Do(c, op, seen),
           op = "set" => \E e \in Ca!Entries : seen = {e},
           caNow' = caNow, caFaults' \in 0 .. MaxCacheFaults, caStray' \in 0 .. MaxStray,
           caKept' = {} \/ \E e \in Ca!Entries : caKept' = {e},
           caEntry' \subseteq Ca!Entries, caOutlived' \in BOOLEAN,
           ~caOutlived' => /\ ~caOutlived /\ caStray' = 0 /\ caEntry' = caKept'
                           /\ IsFresh(caEntry', caNow)
                           /\ op = "inspect" => IsFresh(seen, caNow)
    PROVE  CacheInv'
  <1>1. caCaller \in [Callers -> [op : Ca!Ops, seen : SUBSET Ca!Entries]]
    BY DEF CacheInv, Ca!TypeOK
  <1>2. /\ caCaller' = [caCaller EXCEPT ![c] = [op |-> op, seen |-> seen]]
        /\ caCaller' \in [Callers -> [op : Ca!Ops, seen : SUBSET Ca!Entries]]
    BY <1>1 DEF Ca!Do
  <1>3. Ca!TypeOK'
    <2>1. caNow \in 1 .. MaxTime + 1
      BY DEF CacheInv, Ca!TypeOK
    <2>2. caKept' \subseteq Ca!Entries
      OBVIOUS
    <2> QED BY <1>2, <2>1, <2>2 DEF Ca!TypeOK, Ca!Entries
  <1>4. \A d \in Callers : /\ caCaller'[d].op = IF d = c THEN op ELSE caCaller[d].op
                           /\ caCaller'[d].seen = IF d = c THEN seen ELSE caCaller[d].seen
    BY <1>1, <1>2
  <1>5. \A d \in Callers :
            caCaller'[d].op = "set" => \E e \in Ca!Entries : caCaller'[d].seen = {e}
    BY <1>4 DEF CacheInv
  <1>6. ASSUME ~caOutlived'
        PROVE  \A d \in Callers : caCaller'[d].op = "inspect" => IsFresh(caCaller'[d].seen, caNow)
    BY <1>4, <1>6 DEF CacheInv
  <1> QED BY <1>3, <1>5, <1>6 DEF CacheInv, Ca!Entries

LEMMA CacheCalls ==
    ASSUME Ca!CacheAssumption, CacheInv, NEW c \in Callers, Ca!Call(c) \/ Ca!Step(c)
    PROVE  CacheInv'
  <1> USE DEF Ca!Ops
  <1>1. /\ MaxStray \in Nat /\ MaxCacheFaults \in Nat
        /\ caEntry \subseteq Ca!Entries /\ caKept \subseteq Ca!Entries
        /\ caCaller \in [Callers -> [op : Ca!Ops, seen : SUBSET Ca!Entries]]
        /\ caStray \in 0 .. MaxStray /\ caFaults \in 0 .. MaxCacheFaults /\ caOutlived \in BOOLEAN
    BY DEF CacheInv, Ca!TypeOK, Ca!CacheAssumption
  <1>2. /\ caKept = {} \/ \E e \in Ca!Entries : caKept = {e}
        /\ ~caOutlived => /\ caStray = 0 /\ caEntry = caKept /\ IsFresh(caEntry, caNow)
                          /\ caCaller[c].op = "inspect" => IsFresh(caCaller[c].seen, caNow)
        /\ caCaller[c].op = "set" => \E e \in Ca!Entries : caCaller[c].seen = {e}
    BY DEF CacheInv
  <1>3. caCaller[c].seen \in SUBSET Ca!Entries
    BY <1>1
  <1>4. CASE Ca!Get(c) \/ Ca!Delete(c)
    BY <1>1, <1>2, <1>4, CacheMove DEF Ca!Get, Ca!Delete
  <1>5. ASSUME NEW v \in Values, NEW x \in Expiries, Ca!Set(c, v, x) PROVE CacheInv'
    <2>1. [value |-> v, expires |-> x] \in Ca!Entries
      BY DEF Ca!Entries
    <2> QED BY <1>1, <1>2, <1>5, <2>1, CacheMove DEF Ca!Set
  <1>6. CASE Ca!ReadRow(c)
    BY <1>1, <1>2, <1>6, CacheMove DEF Ca!ReadRow
  <1>7. CASE Ca!ReadFails(c)
    BY <1>1, <1>2, <1>7, CacheMove DEF Ca!ReadFails
  <1>8. CASE Ca!Answer(c)
    BY <1>1, <1>2, <1>3, <1>8, CacheMove DEF Ca!Answer
  <1>9. CASE Ca!AnswerExpired(c)
    <2>1. caOutlived
      BY <1>2, <1>9 DEF Ca!AnswerExpired, Ca!Fresh, IsFresh
    <2> QED BY <1>1, <1>2, <1>9, <2>1, CacheMove DEF Ca!AnswerExpired, Ca!Expired
  <1>10. CASE Ca!WriteRow(c)
    <2>1. /\ caOutlived' \in BOOLEAN
          /\ ~caOutlived' => ~caOutlived /\ ~Ca!Past(caCaller[c].seen, caNow)
      BY <1>1, <1>10, Zenon DEF Ca!WriteRow
    <2>2. ~caOutlived' => IsFresh(caCaller[c].seen, caNow)
      <3>1. caNow \in Nat
        BY DEF CacheInv, Ca!TypeOK
      <3> QED BY <1>3, <2>1, <3>1, NotPast
    <2>3. /\ caCaller[c].op = "set" /\ Ca!Do(c, "stored", {})
          /\ caEntry' = caCaller[c].seen /\ caKept' = caCaller[c].seen
          /\ UNCHANGED <<caStray, caNow, caFaults>>
      BY <1>10 DEF Ca!WriteRow
    <2> QED BY <1>1, <1>2, <1>3, <2>1, <2>2, <2>3, CacheMove
  <1>11. CASE Ca!WriteFails(c) \/ Ca!Acknowledge(c)
    BY <1>1, <1>2, <1>11, CacheMove DEF Ca!WriteFails, Ca!Acknowledge
  <1>12. CASE Ca!DeleteRow(c)
    BY <1>1, <1>2, <1>12, CacheMove DEF Ca!DeleteRow, IsFresh
  <1>13. CASE Ca!DeleteFails(c)
    BY <1>1, <1>2, <1>13, CacheMove DEF Ca!DeleteFails
  <1> QED BY <1>4, <1>5, <1>6, <1>7, <1>8, <1>9, <1>10, <1>11, <1>12, <1>13
          DEF Ca!Call, Ca!Step

(* The deletions that nobody waits for, and the clock. *)
LEMMA CacheBeside ==
    ASSUME Ca!CacheAssumption, CacheInv, Ca!StrayDelete \/ Ca!StrayFails \/ Ca!Tick
    PROVE  CacheInv'
  <1>1. /\ MaxStray \in Nat /\ MaxCacheFaults \in Nat /\ MaxTime \in Nat
        /\ caNow \in 1 .. MaxTime + 1 /\ caStray \in 0 .. MaxStray
        /\ caFaults \in 0 .. MaxCacheFaults
        /\ caEntry \subseteq Ca!Entries /\ caOutlived \in BOOLEAN
        /\ caCaller \in [Callers -> [op : Ca!Ops, seen : SUBSET Ca!Entries]]
    BY DEF CacheInv, Ca!TypeOK, Ca!CacheAssumption
  <1>2. CASE Ca!StrayDelete \/ Ca!StrayFails
    <2>1. /\ caStray > 0 /\ caStray' = caStray - 1
          /\ UNCHANGED <<caCaller, caNow, caKept, caOutlived>>
          /\ caEntry' \subseteq Ca!Entries /\ caFaults' \in 0 .. MaxCacheFaults
      BY <1>1, <1>2 DEF Ca!StrayDelete, Ca!StrayFails
    <2>2. caOutlived
      BY <1>1, <2>1 DEF CacheInv
    <2>3. Ca!TypeOK'
      BY <1>1, <2>1 DEF CacheInv, Ca!TypeOK, Ca!Entries, Ca!Ops
    <2> QED BY <2>1, <2>2, <2>3 DEF CacheInv, Ca!Entries
  <1>3. CASE Ca!Tick
    <2> DEFINE all == caEntry \cup UNION {caCaller[c].seen : c \in Callers}
    <2>1. /\ caNow < MaxTime /\ caNow' = caNow + 1
          /\ UNCHANGED <<caEntry, caCaller, caStray, caFaults, caKept>>
      BY <1>3 DEF Ca!Tick
    <2>2. caOutlived' \in BOOLEAN /\ (~caOutlived' => ~caOutlived /\ ~Ca!Past(all, caNow + 1))
      BY <1>1, <1>3, Zenon DEF Ca!Tick
    <2>3. all \in SUBSET Ca!Entries
      BY <1>1
    <2>4. ~caOutlived' => IsFresh(all, caNow + 1)
      BY <1>1, <2>2, <2>3, NotPast
    <2>5. ~caOutlived' => /\ IsFresh(caEntry, caNow + 1)
                          /\ \A c \in Callers : IsFresh(caCaller[c].seen, caNow + 1)
      BY <2>4 DEF IsFresh
    <2>6. Ca!TypeOK'
      BY <1>1, <2>1, <2>2 DEF CacheInv, Ca!TypeOK, Ca!Entries, Ca!Ops
    <2> QED BY <2>1, <2>2, <2>5, <2>6 DEF CacheInv, Ca!Entries
  <1> QED BY <1>2, <1>3

LEMMA CacheSpec ==
    ASSUME Ca!CacheAssumption
    PROVE  Ca!Init /\ [][Ca!Next]_Ca!vars => []CacheInv
  <1>1. Ca!Init => CacheInv
    <2> SUFFICES ASSUME Ca!Init PROVE CacheInv
      OBVIOUS
    <2>1. \A c \in Callers : caCaller[c] = [op |-> "idle", seen |-> {}]
      BY DEF Ca!Init, Ca!Idle
    <2>2. Ca!TypeOK
      <3>1. caCaller \in [Callers -> [op : Ca!Ops, seen : SUBSET Ca!Entries]]
        BY DEF Ca!Init, Ca!Idle, Ca!Ops
      <3>2. /\ caStray \in 0 .. MaxStray /\ caFaults \in 0 .. MaxCacheFaults
            /\ caNow \in 1 .. MaxTime + 1
        BY DEF Ca!Init, Ca!CacheAssumption
      <3>3. caEntry \subseteq Ca!Entries /\ caKept \subseteq Ca!Entries /\ caOutlived \in BOOLEAN
        BY DEF Ca!Init
      <3> QED BY <3>1, <3>2, <3>3 DEF Ca!TypeOK
    <2> QED BY <2>1, <2>2 DEF Ca!Init, CacheInv, IsFresh
  <1>2. CacheInv /\ [Ca!Next]_Ca!vars => CacheInv'
    <2>1. CASE UNCHANGED Ca!vars
      BY <2>1 DEF Ca!vars, CacheInv, Ca!TypeOK, Ca!Entries, Ca!Ops, IsFresh
    <2>2. CacheInv /\ Ca!Next => CacheInv'
      BY CacheCalls, CacheBeside DEF Ca!Next
    <2> QED BY <2>1, <2>2
  <1> QED BY <1>1, <1>2, PTL

(* What was set is found, by any number of callers, until an entry of the  *)
(* key has expired: from then on a deletion may be under way that comes    *)
(* after the next set.                                                     *)
THEOREM SetValuesStick ==
    ASSUME Ca!CacheAssumption
    PROVE  Ca!Spec => []Ca!SetSticks
  <1>1. CacheInv => Ca!SetSticks
    BY DEF CacheInv, Ca!SetSticks, Ca!Fresh, IsFresh
  <1> QED BY <1>1, CacheSpec, PTL DEF Ca!Spec

----------------------------------------------------------------------------
(* Pool.  As long as the process lives, the errors of idle connections and *)
(* the pools are counted together: the one that is behind is being         *)
(* replaced by the handler of the last error.                              *)
PoolsInStep ==
    /\ poCur <= poErrors /\ poErrors <= poCur + 1
    /\ poErrors = poCur <=> poPool[poCur] = "open"
    /\ \A p \in Po!Pools : poPool[p] = "none" <=> p > poCur
    /\ \A h \in Po!Handlers :
           poHandler[h].at = "ending" =>
               h = poErrors /\ poErrors = poCur + 1 /\ poHandler[h].pool = poCur

PoolInv ==
    /\ Po!TypeOK /\ Po!SurvivesOneError
    /\ \A q \in Queries : poQuery[q].at # "failed" => poQuery[q].attempt <= MaxRetries
    /\ poAlive => PoolsInStep

PoolRecords == [at : {"none", "ending", "testing", "done"}, pool : Po!Pools]
QueryRecords ==
    [at : {"waiting", "running", "done", "failed"}, attempt : 1 .. MaxRetries + 1,
     pool : Po!Pools]

LEMMA PoolTypes ==
    ASSUME Po!PoolAssumption, PoolInv
    PROVE  /\ poQuery \in [Queries -> QueryRecords] /\ poHandler \in [Po!Handlers -> PoolRecords]
           /\ poPool \in [Po!Pools -> {"none", "open", "ending", "ended"}]
           /\ poCur \in 0 .. MaxErrors /\ poErrors \in 0 .. MaxErrors
           /\ poFaults \in 0 .. MaxPoolFaults /\ poAlive \in BOOLEAN /\ poBadTest \in BOOLEAN
           /\ Po!Pools = 0 .. MaxErrors /\ Po!Handlers = 1 .. MaxErrors
           /\ MaxErrors \in Nat /\ MaxPoolFaults \in Nat /\ MaxRetries \in Nat \ {0}
  BY DEF Po!PoolAssumption, PoolInv, Po!TypeOK, QueryRecords, PoolRecords, Po!Pools, Po!Handlers

(* A query is sent, answered, or tried again. *)
LEMMA QueryMoves ==
    ASSUME Po!PoolAssumption, PoolInv, NEW q \in Queries,
           Po!Attempt(q) \/ Po!QueryReturns(q)
    PROVE  PoolInv'
  <1>1. UNCHANGED <<poAlive, poCur, poPool, poHandler, poErrors, poBadTest>>
    BY DEF Po!Attempt, Po!QueryReturns
  <1>2. poFaults' \in 0 .. MaxPoolFaults
    BY PoolTypes DEF Po!Attempt, Po!QueryReturns, Po!Fault
  <1>3. PICK new \in QueryRecords :
          /\ poQuery' = [poQuery EXCEPT ![q] = new]
          /\ new.at # "failed" => new.attempt <= MaxRetries
    <2>1. poQuery[q] \in QueryRecords /\ MaxRetries \in Nat /\ poCur \in Po!Pools
      BY PoolTypes
    <2>2. poQuery[q].attempt \in 1 .. MaxRetries + 1
      BY <2>1 DEF QueryRecords
    <2>3. poQuery[q].at # "failed" /\ poQuery[q].attempt <= MaxRetries
      BY DEF Po!Attempt, Po!QueryReturns, PoolInv
    <2>4. poQuery[q].attempt + 1 \in 1 .. MaxRetries + 1
      BY <2>1, <2>2, <2>3
    <2> DEFINE again == IF poQuery[q].attempt < MaxRetries THEN "waiting" ELSE "failed"
               later == [poQuery[q] EXCEPT !.at = again, !.attempt = poQuery[q].attempt + 1]
               sent == [poQuery[q] EXCEPT !.at = "running", !.pool = poCur]
               answered == [poQuery[q] EXCEPT !.at = "done"]
    <2>5. CASE Po!Failed(q)
      <3>1. later \in QueryRecords /\ later.at = again /\ later.attempt = poQuery[q].attempt + 1
        BY <2>1, <2>4 DEF QueryRecords
      <3>2. poQuery' = [poQuery EXCEPT ![q] = later]
        <4>1. poQuery' = [poQuery EXCEPT ![q].at = again,
                                         ![q].attempt = poQuery[q].attempt + 1]
          <5>1. poQuery' = [poQuery EXCEPT
                    ![q].at = IF @ # "failed" /\ poQuery[q].attempt < MaxRetries
                              THEN "waiting" ELSE "failed",
                    ![q].attempt = @ + 1]
            BY <2>5 DEF Po!Failed
          <5> QED BY <2>3, <5>1
        <4> QED BY <4>1
      <3>3. again # "failed" => poQuery[q].attempt + 1 <= MaxRetries
        BY <2>1, <2>2
      <3> HIDE DEF later
      <3> QED BY <2>1, <3>1, <3>2, <3>3
    <2>6. CASE poQuery' = [poQuery EXCEPT ![q].at = "running", ![q].pool = poCur]
      <3>1. sent \in QueryRecords /\ sent.attempt = poQuery[q].attempt
        BY <2>1 DEF QueryRecords
      <3>2. poQuery' = [poQuery EXCEPT ![q] = sent]
        BY <2>6
      <3> HIDE DEF sent
      <3> QED BY <2>3, <3>1, <3>2
    <2>7. CASE poQuery' = [poQuery EXCEPT ![q].at = "done"]
      <3>1. answered \in QueryRecords /\ answered.attempt = poQuery[q].attempt
        BY <2>1 DEF QueryRecords
      <3>2. poQuery' = [poQuery EXCEPT ![q] = answered]
        BY <2>7
      <3> HIDE DEF answered
      <3> QED BY <2>3, <3>1, <3>2
    <2> QED BY <2>5, <2>6, <2>7 DEF Po!Attempt, Po!QueryReturns
  <1>4. poQuery' \in [Queries -> QueryRecords]
    BY <1>3, PoolTypes
  <1>5. \A r \in Queries : poQuery'[r].at # "failed" => poQuery'[r].attempt <= MaxRetries
    BY <1>3, PoolTypes DEF PoolInv
  <1>6. Po!TypeOK'
    BY <1>1, <1>2, <1>4 DEF PoolInv, Po!TypeOK, QueryRecords, Po!Pools
  <1>7. Po!SurvivesOneError' /\ (poAlive' => PoolsInStep')
    BY <1>1 DEF PoolInv, Po!SurvivesOneError, PoolsInStep
  <1> QED BY <1>5, <1>6, <1>7 DEF PoolInv

(* The first error finds the first pool open; what ends the process comes  *)
(* after it.                                                               *)
LEMMA PoolErrors ==
    ASSUME Po!PoolAssumption, PoolInv, NEW p \in Po!Pools, Po!IdleError(p)
    PROVE  PoolInv'
  <1>1. /\ poAlive /\ PoolsInStep /\ poErrors < MaxErrors /\ poErrors' = poErrors + 1
        /\ UNCHANGED <<poCur, poQuery, poBadTest, poFaults>>
    BY DEF Po!IdleError, PoolInv
  <1>2. poErrors' \in 0 .. MaxErrors
    BY <1>1, PoolTypes
  <1>3. CASE p = 0 /\ poPool[poCur] = "open"
    <2>1. /\ poPool' = [poPool EXCEPT ![poCur] = "ending"] /\ poAlive' = poAlive
          /\ poHandler' = [poHandler EXCEPT ![poErrors'] = [at |-> "ending", pool |-> poCur]]
      BY <1>3 DEF Po!IdleError
    <2>2. poErrors = poCur
      BY <1>1, <1>3, PoolTypes DEF PoolsInStep
    <2>3. poErrors' \in Po!Handlers
      BY <1>1, PoolTypes
    <2>4. poHandler' \in [Po!Handlers -> PoolRecords]
      BY <2>1, <2>3, PoolTypes DEF PoolRecords
    <2>5. poPool' \in [Po!Pools -> {"none", "open", "ending", "ended"}]
      BY <2>1, PoolTypes
    <2>6. Po!TypeOK'
      BY <1>1, <1>2, <2>1, <2>4, <2>5 DEF PoolInv, Po!TypeOK, PoolRecords, Po!Pools, Po!Handlers
    <2>7. \A h \in Po!Handlers :
              poHandler'[h].at = "ending" => h = poErrors' /\ poHandler'[h].pool = poCur
      BY <1>1, <2>1, <2>2, <2>3, PoolTypes DEF PoolsInStep
    <2>8. \A o \in Po!Pools : poPool'[o] = "none" <=> o > poCur
      BY <1>1, <2>1, PoolTypes DEF PoolsInStep
    <2>9. poPool'[poCur] # "open"
      BY <2>1, PoolTypes
    <2>10. PoolsInStep'
      BY <1>1, <2>2, <2>7, <2>8, <2>9, PoolTypes DEF PoolsInStep, Po!Pools, Po!Handlers
    <2> QED BY <1>1, <2>1, <2>6, <2>10 DEF PoolInv, Po!SurvivesOneError
  <1>4. CASE ~(p = 0 /\ poPool[poCur] = "open")
    <2>1. poAlive' = FALSE /\ UNCHANGED <<poPool, poHandler>> /\ poPool[p] # "none"
      BY <1>4 DEF Po!IdleError
    <2>2. poErrors >= 1
      <3>1. CASE p # 0
        BY <1>1, <2>1, <3>1, PoolTypes DEF PoolsInStep
      <3>2. CASE poPool[poCur] # "open"
        BY <1>1, <3>2, PoolTypes DEF PoolsInStep
      <3> QED BY <1>4, <3>1, <3>2
    <2>3. Po!TypeOK'
      BY <1>1, <1>2, <2>1 DEF PoolInv, Po!TypeOK, Po!Pools, Po!Handlers
    <2>4. poErrors' > 1
      BY <1>1, <2>2, PoolTypes
    <2> QED BY <1>1, <2>1, <2>3, <2>4 DEF PoolInv, Po!SurvivesOneError
  <1> QED BY <1>3, <1>4

(* The replaced pool is the last one, and the new one is the next. *)
LEMMA PoolReplaced ==
    ASSUME Po!PoolAssumption, PoolInv, NEW h \in Po!Handlers, Po!Replace(h)
    PROVE  PoolInv'
  <1>1. /\ poAlive /\ PoolsInStep /\ poHandler[h].at = "ending"
        /\ poCur' = poCur + 1 /\ UNCHANGED <<poQuery, poErrors, poBadTest, poFaults>>
    BY DEF Po!Replace, Po!Replaced, PoolInv
  <1>2. h = poErrors /\ poErrors = poCur + 1
    BY <1>1 DEF PoolsInStep
  <1>3. poCur' \in Po!Pools /\ poCur' = poErrors
    BY <1>1, <1>2, PoolTypes
  <1>4. poPool[poCur'] = "none"
    BY <1>1, <1>3, PoolTypes DEF PoolsInStep
  <1>5. /\ poPool' = [poPool EXCEPT ![poCur'] = "open"] /\ poAlive' = poAlive
        /\ poHandler' = [poHandler EXCEPT ![h] = [at |-> "testing", pool |-> poCur']]
    BY <1>4 DEF Po!Replace
  <1>6. /\ poHandler' \in [Po!Handlers -> PoolRecords]
        /\ poPool' \in [Po!Pools -> {"none", "open", "ending", "ended"}]
    BY <1>3, <1>5, PoolTypes DEF PoolRecords
  <1>7. Po!TypeOK'
    BY <1>1, <1>3, <1>5, <1>6 DEF PoolInv, Po!TypeOK, PoolRecords, Po!Pools, Po!Handlers
  <1>8. \A i \in Po!Handlers : poHandler'[i].at # "ending"
    BY <1>1, <1>2, <1>5, PoolTypes DEF PoolsInStep
  <1>9. \A o \in Po!Pools : poPool'[o] = "none" <=> o > poCur'
    BY <1>1, <1>3, <1>5, PoolTypes DEF PoolsInStep
  <1>10. poPool'[poCur'] = "open"
    BY <1>3, <1>5, PoolTypes
  <1>11. PoolsInStep'
    BY <1>1, <1>3, <1>8, <1>9, <1>10, PoolTypes DEF PoolsInStep, Po!Pools, Po!Handlers
  <1> QED BY <1>1, <1>5, <1>7, <1>11 DEF PoolInv, Po!SurvivesOneError

LEMMA PoolDrained ==
    ASSUME Po!PoolAssumption, PoolInv, NEW p \in Po!Pools, Po!Drained(p)
    PROVE  PoolInv'
  <1>1. /\ poAlive /\ PoolsInStep /\ poPool[p] = "ending"
        /\ poPool' = [poPool EXCEPT ![p] = "ended"]
        /\ UNCHANGED <<poAlive, poCur, poQuery, poHandler, poErrors, poBadTest, poFaults>>
    BY DEF Po!Drained, PoolInv
  <1>2. poPool' \in [Po!Pools -> {"none", "open", "ending", "ended"}]
    BY <1>1, PoolTypes
  <1>3. Po!TypeOK'
    BY <1>1, <1>2 DEF PoolInv, Po!TypeOK, Po!Pools, Po!Handlers
  <1>4. \A o \in Po!Pools : /\ poPool'[o] = "none" <=> poPool[o] = "none"
                            /\ poPool'[o] = "open" <=> poPool[o] = "open"
    BY <1>1, PoolTypes
  <1>5. PoolsInStep'
    BY <1>1, <1>4, PoolTypes DEF PoolsInStep, Po!Pools, Po!Handlers
  <1> QED BY <1>1, <1>3, <1>5 DEF PoolInv, Po!SurvivesOneError

LEMMA PoolTested ==
    ASSUME Po!PoolAssumption, PoolInv, NEW h \in Po!Handlers, Po!TestReturns(h)
    PROVE  PoolInv'
  <1>1. /\ poAlive /\ PoolsInStep
        /\ UNCHANGED <<poCur, poPool, poQuery, poErrors>>
    BY DEF Po!TestReturns, PoolInv
  <1>2. CASE Po!Fault /\ poAlive' = FALSE /\ poBadTest' = TRUE /\ poHandler' = poHandler
    <2>1. poFaults' \in 0 .. MaxPoolFaults /\ poBadTest' = TRUE /\ poHandler' = poHandler
      BY <1>2, PoolTypes DEF Po!Fault
    <2>2. Po!TypeOK'
      BY <1>1, <1>2, <2>1 DEF PoolInv, Po!TypeOK, Po!Pools, Po!Handlers
    <2> QED BY <1>1, <1>2, <2>1, <2>2 DEF PoolInv, Po!SurvivesOneError
  <1>3. CASE poHandler' = [poHandler EXCEPT ![h].at = "done"]
             /\ UNCHANGED <<poAlive, poBadTest, poFaults>>
    <2> DEFINE done == [poHandler[h] EXCEPT !.at = "done"]
    <2>1. done \in PoolRecords /\ done.at = "done"
      BY PoolTypes DEF PoolRecords
    <2>2. poHandler' = [poHandler EXCEPT ![h] = done]
      BY <1>3
    <2> HIDE DEF done
    <2>3. poHandler' \in [Po!Handlers -> PoolRecords]
      BY <2>1, <2>2, PoolTypes
    <2>4. Po!TypeOK'
      BY <1>1, <1>3, <2>3 DEF PoolInv, Po!TypeOK, PoolRecords, Po!Pools, Po!Handlers
    <2>5. \A i \in Po!Handlers : poHandler'[i].at = "ending" => poHandler'[i] = poHandler[i]
      BY <2>1, <2>2, PoolTypes
    <2>6. \A i \in Po!Handlers : poHandler'[i].at = "ending" =>
              i = poErrors /\ poErrors = poCur + 1 /\ poHandler'[i].pool = poCur
      BY <1>1, <2>5 DEF PoolsInStep
    <2>7. PoolsInStep'
      BY <1>1, <2>6 DEF PoolsInStep, Po!Pools, Po!Handlers
    <2> QED BY <1>1, <1>3, <2>4, <2>7 DEF PoolInv, Po!SurvivesOneError
  <1> QED BY <1>2, <1>3 DEF Po!TestReturns, Po!Fault

LEMMA PoolSpec ==
    ASSUME Po!PoolAssumption
    PROVE  Po!Init /\ [][Po!Next]_Po!vars => []PoolInv
  <1>1. Po!Init => PoolInv
    <2> SUFFICES ASSUME Po!Init PROVE PoolInv
      OBVIOUS
    <2>1. MaxErrors \in Nat /\ MaxRetries \in Nat \ {0} /\ MaxPoolFaults \in Nat
      BY DEF Po!PoolAssumption
    <2>2. poErrors = 0 /\ poCur = 0 /\ poAlive = TRUE /\ poBadTest = FALSE /\ poFaults = 0
      BY DEF Po!Init
    <2>3. /\ \A q \in Queries : poQuery[q] = [at |-> "waiting", attempt |-> 1, pool |-> 0]
          /\ \A h \in Po!Handlers : poHandler[h].at = "none"
          /\ \A p \in Po!Pools : poPool[p] = IF p = 0 THEN "open" ELSE "none"
      BY DEF Po!Init
    <2>4. 0 \in Po!Pools /\ 1 \in 1 .. MaxRetries + 1
      BY <2>1 DEF Po!Pools
    <2>5. /\ poQuery \in [Queries -> QueryRecords] /\ poHandler \in [Po!Handlers -> PoolRecords]
          /\ poPool \in [Po!Pools -> {"none", "open", "ending", "ended"}]
      BY <2>4 DEF Po!Init, QueryRecords, PoolRecords
    <2>6. Po!TypeOK
      <3>1. poErrors \in 0 .. MaxErrors /\ poFaults \in 0 .. MaxPoolFaults /\ poCur \in Po!Pools
        BY <2>1, <2>2, <2>4
      <3> QED BY <2>2, <2>5, <3>1 DEF Po!TypeOK, QueryRecords, PoolRecords
    <2>7. PoolsInStep
      BY <2>1, <2>2, <2>3, <2>4 DEF PoolsInStep, Po!Pools
    <2> QED BY <2>1, <2>2, <2>3, <2>6, <2>7 DEF PoolInv, Po!SurvivesOneError
  <1>2. PoolInv /\ [Po!Next]_Po!vars => PoolInv'
    <2>1. ASSUME PoolInv, UNCHANGED Po!vars PROVE PoolInv'
      BY <2>1 DEF Po!vars, PoolInv, PoolsInStep, Po!TypeOK, Po!SurvivesOneError, Po!Pools,
                  Po!Handlers
    <2>2. ASSUME PoolInv, Po!Next PROVE PoolInv'
      BY <2>2, QueryMoves, PoolErrors, PoolReplaced, PoolDrained, PoolTested
         DEF Po!Next, Po!Continue
    <2> QED BY <2>1, <2>2
  <1> QED BY <1>1, <1>2, PTL

(* However many queries are tried however often, and whatever becomes of   *)
(* them: one error of an idle connection ends the process only if the test *)
(* of the new pool fails.                                                  *)
THEOREM OneErrorIsSurvived ==
    ASSUME Po!PoolAssumption
    PROVE  Po!Spec => []Po!SurvivesOneError
  <1>1. PoolInv => Po!SurvivesOneError
    BY DEF PoolInv
  <1> QED BY <1>1, PoolSpec, PTL DEF Po!Spec

(* Both of what is driven: nothing set is lost before an entry expires,    *)
(* and the pool survives one error.                                        *)
THEOREM StoresKeepWorking == SysSpec => []StoresHold
  <1>1. SysInit => Ca!Init /\ Po!Init
    BY DEF SysInit
  <1>2. [SysNext]_sysVars => [Ca!Next]_Ca!vars
    BY DEF SysNext, sysVars, Evaluating, Storing, Porting, Caching, Pooling, caVars, Ca!vars
  <1>3. [SysNext]_sysVars => [Po!Next]_Po!vars
    BY DEF SysNext, sysVars, Evaluating, Storing, Porting, Caching, Pooling, poVars, Po!vars
  <1>4. Ca!Init /\ [][Ca!Next]_Ca!vars => []CacheInv
    BY CacheSpec, Instances
  <1>5. Po!Init /\ [][Po!Next]_Po!vars => []PoolInv
    BY PoolSpec, Instances
  <1>6. CacheInv /\ PoolInv => StoresHold
    BY DEF CacheInv, PoolInv, StoresHold, Ca!SetSticks, Ca!Fresh, IsFresh
  <1> QED BY <1>1, <1>2, <1>3, <1>4, <1>5, <1>6, PTL DEF SysSpec

----------------------------------------------------------------------------
(* Ports.  What sql.js holds is what sqlite holds without accounts and     *)
(* memories, and supabase nothing but accounts.                            *)
IsTables(d) ==
    d = [accounts |-> d.accounts, rooms |-> d.rooms, members |-> d.members,
         memories |-> d.memories, goals |-> d.goals, bonds |-> d.bonds]

Bare(d) ==
    [accounts |-> {}, rooms |-> d.rooms, members |-> d.members, memories |-> {},
     goals |-> d.goals, bonds |-> d.bonds]

OnlyAccounts(A) ==
    [accounts |-> A, rooms |-> {}, members |-> [k \in Users \X Rooms |-> <<>>],
     memories |-> {}, goals |-> {}, bonds |-> [p \in Users \X Users |-> 0]]

PortsInv ==
    /\ IsTables(ptSq) /\ ptSj = Bare(ptSq)
    /\ ptSu = OnlyAccounts(ptSu.accounts) /\ ptSu.accounts \subseteq ptSq.accounts

LEMMA BareIs ==
    ASSUME NEW d, IsTables(d)
    PROVE  /\ Bare(d) = [d EXCEPT !.accounts = {}, !.memories = {}]
           /\ Bare(d).rooms = d.rooms /\ Bare(d).members = d.members
           /\ Bare(d).goals = d.goals /\ Bare(d).bonds = d.bonds
           /\ Bare(d).accounts = {} /\ Bare(d).memories = {}
  <1>1. ASSUME NEW a, NEW b, NEW c, NEW e, NEW f, NEW g,
               d = [accounts |-> a, rooms |-> b, members |-> c, memories |-> e, goals |-> f,
                    bonds |-> g]
        PROVE  Bare(d) = [d EXCEPT !.accounts = {}, !.memories = {}]
    <2> DEFINE k == [d EXCEPT !.accounts = {}]
    <2>1. /\ k = [accounts |-> {}, rooms |-> b, members |-> c, memories |-> e, goals |-> f,
                  bonds |-> g]
          /\ [d EXCEPT !.accounts = {}, !.memories = {}] = [k EXCEPT !.memories = {}]
      BY <1>1
    <2> HIDE DEF k
    <2>2. [k EXCEPT !.memories = {}]
            = [accounts |-> {}, rooms |-> b, members |-> c, memories |-> {}, goals |-> f,
               bonds |-> g]
      BY <2>1
    <2> QED BY <1>1, <2>1, <2>2 DEF Bare
  <1>2. Bare(d) = [d EXCEPT !.accounts = {}, !.memories = {}]
    BY <1>1 DEF IsTables
  <1> QED BY <1>2 DEF Bare

(* A database later: no account has gone. *)
After(d, e) == IsTables(e) /\ d.accounts \subseteq e.accounts

(* The calls that are one statement on sqlite and on sql.js. *)
LEMMA BareRooms ==
    ASSUME NEW d, IsTables(d), NEW r \in Rooms
    PROVE  /\ After(d, Pt!SqRemoveRoom(d, r).db)
           /\ Pt!SjRemoveRoom(Bare(d), r).db = Bare(Pt!SqRemoveRoom(d, r).db)
           /\ After(d, Pt!SqRoom(d, r).db)
           /\ Pt!SjRoom(Bare(d), r).db = Bare(Pt!SqRoom(d, r).db)
  <1>1. /\ After(d, Pt!SqRemoveRoom(d, r).db)
        /\ Pt!SjRemoveRoom(Bare(d), r).db = Bare(Pt!SqRemoveRoom(d, r).db)
    BY DEF After, IsTables, Bare, Pt!SjRemoveRoom, Pt!SqRemoveRoom, Pt!Did
  <1>2. Pt!SjRoom(Bare(d), r).db = [Bare(d) EXCEPT !.rooms = d.rooms \cup {r}]
    BY DEF Bare, Pt!SjRoom, Pt!SjGetRoom, Pt!Unstepped, Pt!Ensured, Pt!SjCreateRoom,
           Pt!SqCreateRoom, Pt!Did
  <1>3. Pt!SqRoom(d, r).db = [d EXCEPT !.rooms = d.rooms \cup {r}]
    <2>1. CASE r \in d.rooms
      <3>1. Pt!SqRoom(d, r).db = d
        BY <2>1 DEF Pt!SqRoom, Pt!Row, Pt!SqGetRoom, Pt!Ensured, Pt!Did
      <3>2. d.rooms \cup {r} = d.rooms
        BY <2>1
      <3> QED BY <3>1, <3>2 DEF After, IsTables
    <2>2. CASE r \notin d.rooms
      BY <2>2 DEF Pt!SqRoom, Pt!Row, Pt!SqGetRoom, Pt!Ensured, Pt!Did, Pt!SqCreateRoom
    <2> QED BY <2>1, <2>2
  <1> QED BY <1>1, <1>2, <1>3 DEF After, IsTables, Bare

LEMMA BareUsers ==
    ASSUME NEW d, IsTables(d), NEW u \in Users
    PROVE  /\ After(d, Pt!SqUser(d, u).db) /\ u \in Pt!SqUser(d, u).db.accounts
           /\ Pt!SjUser(Bare(d), u).db = Bare(Pt!SqUser(d, u).db)
  <1>1. Pt!SjUser(Bare(d), u).db = Bare(d)
    BY DEF Pt!SjUser, Pt!SjGetAccountById, Pt!Unstepped, Pt!Ensured, Pt!Did
  <1>2. Pt!SqUser(d, u).db = [d EXCEPT !.accounts = d.accounts \cup {u}]
    <2>1. CASE u \in d.accounts
      <3>1. d.accounts \cup {u} = d.accounts
        BY <2>1
      <3>2. d = [d EXCEPT !.accounts = d.accounts \cup {u}]
        BY <3>1 DEF IsTables
      <3>3. Pt!SqUser(d, u).db = d
        BY <2>1 DEF Pt!SqUser, Pt!Row, Pt!SqGetAccountById, Pt!Ensured, Pt!Did
      <3> QED BY <3>2, <3>3
    <2>2. CASE u \notin d.accounts
      BY <2>2 DEF Pt!SqUser, Pt!Row, Pt!SqGetAccountById, Pt!Ensured, Pt!Did, Pt!SqCreateAccount
    <2> QED BY <2>1, <2>2
  <1> QED BY <1>1, <1>2 DEF After, IsTables, Bare

LEMMA BareMembers ==
    ASSUME NEW d, IsTables(d), NEW u \in Users, NEW r \in Rooms, NEW s
    PROVE  /\ After(d, Pt!SqMember(d, u, r))
           /\ Pt!SjMember(Bare(d), u, r) = Bare(Pt!SqMember(d, u, r))
           /\ After(d, Pt!SqSetParticipantUserState(d, u, r, s).db)
           /\ Pt!SjSetParticipantUserState(Bare(d), u, r, s).db
                = Bare(Pt!SqSetParticipantUserState(d, u, r, s).db)
           /\ After(d, Pt!SqRemoveParticipant(d, u, r).db)
           /\ Pt!SjRemoveParticipant(Bare(d), u, r).db = Bare(Pt!SqRemoveParticipant(d, u, r).db)
  <1>1. ASSUME NEW M
        PROVE  After(d, [d EXCEPT !.members = M])
               /\ [Bare(d) EXCEPT !.members = M] = Bare([d EXCEPT !.members = M])
    BY DEF After, IsTables, Bare
  <1>2. Bare(d).members = d.members
    BY BareIs
  <1>3. /\ After(d, Pt!SqSetParticipantUserState(d, u, r, s).db)
        /\ Pt!SjSetParticipantUserState(Bare(d), u, r, s).db
                = Bare(Pt!SqSetParticipantUserState(d, u, r, s).db)
    <2> DEFINE M == [d.members EXCEPT ![<<u, r>>] = Pt!Repeat(s, Len(@))]
    <2>1. /\ Pt!SqSetParticipantUserState(d, u, r, s).db = [d EXCEPT !.members = M]
          /\ Pt!SqSetParticipantUserState(Bare(d), u, r, s).db = [Bare(d) EXCEPT !.members = M]
      BY <1>2 DEF Pt!SqSetParticipantUserState, Pt!Did
    <2> HIDE DEF M
    <2> QED BY <1>1, <2>1 DEF Pt!SjSetParticipantUserState
  <1>4. /\ After(d, Pt!SqRemoveParticipant(d, u, r).db)
        /\ Pt!SjRemoveParticipant(Bare(d), u, r).db = Bare(Pt!SqRemoveParticipant(d, u, r).db)
    <2> DEFINE M == [d.members EXCEPT ![<<u, r>>] = <<>>]
    <2>1. /\ Pt!SqRemoveParticipant(d, u, r).db = [d EXCEPT !.members = M]
          /\ Pt!SqRemoveParticipant(Bare(d), u, r).db = [Bare(d) EXCEPT !.members = M]
      BY <1>2 DEF Pt!SqRemoveParticipant, Pt!Did
    <2> HIDE DEF M
    <2> QED BY <1>1, <2>1 DEF Pt!SjRemoveParticipant
  <1>5. /\ After(d, Pt!SqMember(d, u, r))
        /\ Pt!SjMember(Bare(d), u, r) = Bare(Pt!SqMember(d, u, r))
    <2> DEFINE M == [d.members EXCEPT ![<<u, r>>] = Append(@, "none")]
               found == Pt!SqGetParticipantsForRoom(d, r)[u] > 0
    <2>1. Pt!SqGetParticipantsForRoom(Bare(d), r) = Pt!SqGetParticipantsForRoom(d, r)
      BY <1>2 DEF Pt!SqGetParticipantsForRoom
    <2>2. /\ Pt!SqAddParticipant(d, u, r).db = [d EXCEPT !.members = M]
          /\ Pt!SqAddParticipant(Bare(d), u, r).db = [Bare(d) EXCEPT !.members = M]
      BY <1>2 DEF Pt!SqAddParticipant, Pt!Did
    <2> HIDE DEF M
    <2>3. /\ Pt!SqMember(d, u, r) = IF found THEN d ELSE [d EXCEPT !.members = M]
          /\ Pt!SjMember(Bare(d), u, r) = IF found THEN Bare(d) ELSE [Bare(d) EXCEPT !.members = M]
      BY <2>1, <2>2 DEF Pt!SqMember, Pt!SjMember, Pt!SjGetParticipantsForRoom, Pt!SjAddParticipant
    <2>4. After(d, d)
      BY DEF After
    <2> HIDE DEF found
    <2> QED BY <1>1, <2>3, <2>4
  <1> QED BY <1>3, <1>4, <1>5

LEMMA BareMemories ==
    ASSUME NEW d, IsTables(d), NEW m \in Messages
    PROVE  /\ After(d, Pt!SqRemoveMemory(d, m).db)
           /\ Pt!SjRemoveMemory(Bare(d), m).db = Bare(Pt!SqRemoveMemory(d, m).db)
           /\ LET s == Pt!Stored(Pt!Row(m \in Named /\ Pt!SqGetMemoryById(d, m)), d,
                                 Pt!SqCreateMemory(d, m, Pt!SqIsUnique(d, m))).db
                  j == Pt!Stored(Pt!SjGetMemoryById(Bare(d), m), Bare(d),
                                 Pt!SjCreateMemory(Bare(d), m)).db
              IN  After(d, s) /\ j = Bare(s)
  <1>1. ASSUME NEW M
        PROVE  After(d, [d EXCEPT !.memories = M]) /\ Bare([d EXCEPT !.memories = M]) = Bare(d)
    BY DEF After, IsTables, Bare
  <1>2. Pt!SqRemoveMemory(d, m).db = [d EXCEPT !.memories = @ \ {row \in Pt!Copies(d, m) : row.copy = 0}]
    BY DEF Pt!SqRemoveMemory, Pt!Did
  <1>3. ASSUME NEW X PROVE [Bare(d) EXCEPT !.memories = @ \ X] = Bare(d)
    BY DEF Bare
  <1>5. Pt!SjRemoveMemory(Bare(d), m).db = Bare(d)
    BY <1>3 DEF Pt!SjRemoveMemory, Pt!SqRemoveMemory, Pt!Did
  <1>6. Pt!Stored(Pt!SjGetMemoryById(Bare(d), m), Bare(d), Pt!SjCreateMemory(Bare(d), m)).db = Bare(d)
    BY DEF Pt!Stored, Pt!SjGetMemoryById, Pt!Unstepped, Pt!Did
  <1>7. \E M : Pt!Stored(Pt!Row(m \in Named /\ Pt!SqGetMemoryById(d, m)), d,
                         Pt!SqCreateMemory(d, m, Pt!SqIsUnique(d, m))).db = [d EXCEPT !.memories = M]
    <2>1. d = [d EXCEPT !.memories = d.memories]
      BY DEF After, IsTables
    <2>2. \E M : Pt!SqCreateMemory(d, m, Pt!SqIsUnique(d, m)).db = [d EXCEPT !.memories = M]
      <3> DEFINE replaced == IF m \in Named THEN Pt!Copies(d, m) ELSE {}
                 rest == [d EXCEPT !.memories = @ \ replaced]
                 new == Pt!MemoryRow(rest, m, Pt!SqIsUnique(d, m))
      <3>1. Pt!SqCreateMemory(d, m, Pt!SqIsUnique(d, m)).db
              \in {d, [rest EXCEPT !.memories = @ \cup {new}]}
        BY DEF Pt!SqCreateMemory, Pt!Did
      <3> HIDE DEF new, replaced
      <3>2. [rest EXCEPT !.memories = @ \cup {new}]
              = [d EXCEPT !.memories = rest.memories \cup {new}]
        BY DEF After, IsTables
      <3> QED BY <2>1, <3>1, <3>2
    <2>3. CASE Pt!Row(m \in Named /\ Pt!SqGetMemoryById(d, m)) = "null"
      BY <2>2, <2>3 DEF Pt!Stored
    <2>4. CASE Pt!Row(m \in Named /\ Pt!SqGetMemoryById(d, m)) # "null"
      BY <2>1, <2>4 DEF Pt!Stored, Pt!Did
    <2> QED BY <2>3, <2>4
  <1> QED BY <1>1, <1>2, <1>5, <1>6, <1>7

LEMMA BareEmptied ==
    ASSUME NEW d, IsTables(d), NEW r \in Rooms
    PROVE  /\ After(d, Pt!SqRemoveAllMemories(d, r).db)
           /\ Pt!SjRemoveAllMemories(Bare(d), r).db = Bare(Pt!SqRemoveAllMemories(d, r).db)
           /\ After(d, Pt!SqRemoveAllGoals(d, r).db)
           /\ Pt!SjRemoveAllGoals(Bare(d), r).db = Bare(Pt!SqRemoveAllGoals(d, r).db)
  <1>1. /\ After(d, Pt!SqRemoveAllMemories(d, r).db)
        /\ Pt!SjRemoveAllMemories(Bare(d), r).db = Bare(Pt!SqRemoveAllMemories(d, r).db)
    <2>1. ASSUME NEW M
          PROVE  After(d, [d EXCEPT !.memories = M]) /\ Bare([d EXCEPT !.memories = M]) = Bare(d)
      BY DEF After, IsTables, Bare
    <2>2. Pt!SqRemoveAllMemories(d, r).db = [d EXCEPT !.memories = @ \ Pt!InRoom(d, r)]
      BY DEF Pt!SqRemoveAllMemories, Pt!Did
    <2>3. Pt!SjRemoveAllMemories(Bare(d), r).db = Bare(d)
      <3>1. ASSUME NEW X PROVE [Bare(d) EXCEPT !.memories = @ \ X] = Bare(d)
        BY DEF Bare
      <3> QED BY <3>1 DEF Pt!SjRemoveAllMemories, Pt!SqRemoveAllMemories, Pt!Did
    <2> QED BY <2>1, <2>2, <2>3
  <1>2. /\ After(d, Pt!SqRemoveAllGoals(d, r).db)
        /\ Pt!SjRemoveAllGoals(Bare(d), r).db = Bare(Pt!SqRemoveAllGoals(d, r).db)
    <2>1. ASSUME NEW G
          PROVE  After(d, [d EXCEPT !.goals = G])
                 /\ [Bare(d) EXCEPT !.goals = G] = Bare([d EXCEPT !.goals = G])
      BY DEF After, IsTables, Bare
    <2>2. \E G : /\ Pt!SqRemoveAllGoals(d, r).db = [d EXCEPT !.goals = G]
                 /\ Pt!SqRemoveAllGoals(Bare(d), r).db = [Bare(d) EXCEPT !.goals = G]
      BY BareIs DEF Pt!SqRemoveAllGoals, Pt!Did
    <2> QED BY <2>1, <2>2 DEF Pt!SjRemoveAllGoals
  <1> QED BY <1>1, <1>2

LEMMA BareGoals ==
    ASSUME NEW d, IsTables(d), NEW g \in Plans, NEW s
    PROVE  /\ After(d, Pt!SqCreateGoal(d, g).db)
           /\ Pt!SjCreateGoal(Bare(d), g).db = Bare(Pt!SqCreateGoal(d, g).db)
           /\ After(d, Pt!SqUpdateGoalStatus(d, g, s).db)
           /\ Pt!SjUpdateGoalStatus(Bare(d), g, s).db = Bare(Pt!SqUpdateGoalStatus(d, g, s).db)
           /\ After(d, Pt!SqRemoveGoal(d, g).db)
           /\ Pt!SjRemoveGoal(Bare(d), g).db = Bare(Pt!SqRemoveGoal(d, g).db)
  <1>1. ASSUME NEW G
        PROVE  After(d, [d EXCEPT !.goals = G])
               /\ [Bare(d) EXCEPT !.goals = G] = Bare([d EXCEPT !.goals = G])
    BY DEF After, IsTables, Bare
  <1>2. Bare(d).goals = d.goals
    BY BareIs
  <1>3. Pt!GoalRow(Bare(d), g) = Pt!GoalRow(d, g) /\ Pt!Twins(Bare(d), g) = Pt!Twins(d, g)
    BY <1>2 DEF Pt!GoalRow, Pt!Twins
  <1>4. /\ Pt!SqCreateGoal(d, g).db = [d EXCEPT !.goals = d.goals \cup {Pt!GoalRow(d, g)}]
        /\ Pt!SqCreateGoal(Bare(d), g).db = [Bare(d) EXCEPT !.goals = d.goals \cup {Pt!GoalRow(d, g)}]
    BY <1>2, <1>3 DEF Pt!SqCreateGoal, Pt!Did
  <1>5. \E G : /\ Pt!SqUpdateGoalStatus(d, g, s).db = [d EXCEPT !.goals = G]
               /\ Pt!SqUpdateGoalStatus(Bare(d), g, s).db = [Bare(d) EXCEPT !.goals = G]
    BY <1>2 DEF Pt!SqUpdateGoalStatus, Pt!Did
  <1>6. \E G : /\ Pt!SqRemoveGoal(d, g).db = [d EXCEPT !.goals = G]
               /\ Pt!SqRemoveGoal(Bare(d), g).db = [Bare(d) EXCEPT !.goals = G]
    BY <1>2, <1>3 DEF Pt!SqRemoveGoal, Pt!Did
  <1>8. /\ After(d, Pt!SqCreateGoal(d, g).db)
        /\ Pt!SjCreateGoal(Bare(d), g).db = Bare(Pt!SqCreateGoal(d, g).db)
    BY <1>1, <1>4 DEF Pt!SjCreateGoal
  <1>9. /\ After(d, Pt!SqUpdateGoalStatus(d, g, s).db)
        /\ Pt!SjUpdateGoalStatus(Bare(d), g, s).db = Bare(Pt!SqUpdateGoalStatus(d, g, s).db)
    BY <1>1, <1>5 DEF Pt!SjUpdateGoalStatus
  <1>10. /\ After(d, Pt!SqRemoveGoal(d, g).db)
         /\ Pt!SjRemoveGoal(Bare(d), g).db = Bare(Pt!SqRemoveGoal(d, g).db)
    BY <1>1, <1>6 DEF Pt!SjRemoveGoal
  <1> QED BY <1>8, <1>9, <1>10

LEMMA BareBonds ==
    ASSUME NEW d, IsTables(d), NEW u \in Users, NEW v \in Users
    PROVE  /\ After(d, Pt!SqCreateRelationship(d, u, v).db)
           /\ Pt!SjCreateRelationship(Bare(d), u, v).db = Bare(Pt!SqCreateRelationship(d, u, v).db)
  <1> DEFINE B == [d.bonds EXCEPT ![<<u, v>>] = @ + 1]
  <1>1. /\ Pt!SqCreateRelationship(d, u, v).db = [d EXCEPT !.bonds = B]
        /\ Pt!SqCreateRelationship(Bare(d), u, v).db = [Bare(d) EXCEPT !.bonds = B]
    BY BareIs DEF Pt!SqCreateRelationship, Pt!Did
  <1> HIDE DEF B
  <1> QED BY <1>1 DEF After, IsTables, Bare, Pt!SjCreateRelationship

(* Supabase: whatever is called, what is stored stays as it was, but for   *)
(* the accounts.                                                           *)
LEMMA EmptyRepeat == ASSUME NEW s PROVE Pt!Repeat(s, 0) = <<>>
  <1>1. \A i : i \notin 1 .. 0
    OBVIOUS
  <1>2. [i \in 1 .. 0 |-> s] \in Seq({s})
    BY <1>1
  <1>3. Len([i \in 1 .. 0 |-> s]) = 0
    BY <1>2, LenProperties
  <1> QED BY <1>2, <1>3, EmptySeq DEF Pt!Repeat

LEMMA OnlyAccountsIs ==
    ASSUME NEW A, NEW d, d = OnlyAccounts(A)
    PROVE  /\ d.accounts = A /\ d.rooms = {} /\ d.memories = {} /\ d.goals = {}
           /\ d.members = [k \in Users \X Rooms |-> <<>>]
           /\ d.bonds = [p \in Users \X Users |-> 0]
           /\ \A B : [d EXCEPT !.accounts = B] = OnlyAccounts(B)
           /\ [d EXCEPT !.rooms = {}] = d /\ [d EXCEPT !.memories = {}] = d
           /\ [d EXCEPT !.goals = {}] = d
           /\ [d EXCEPT !.members = d.members] = d
  <1> DEFINE M == [k \in Users \X Rooms |-> <<>>]
             Z == [p \in Users \X Users |-> 0]
  <1>1. d = [accounts |-> A, rooms |-> {}, members |-> M, memories |-> {}, goals |-> {}, bonds |-> Z]
        /\ \A B : OnlyAccounts(B) = [accounts |-> B, rooms |-> {}, members |-> M, memories |-> {},
                                     goals |-> {}, bonds |-> Z]
    BY DEF OnlyAccounts
  <1>2. d.members = M /\ d.bonds = Z
    BY <1>1
  <1> HIDE DEF M, Z
  <1>3. d.accounts = A /\ d.rooms = {} /\ d.memories = {} /\ d.goals = {}
    BY <1>1
  <1>4. d = [accounts |-> A, rooms |-> {}, members |-> M, memories |-> {}, goals |-> {}, bonds |-> Z]
    BY <1>1
  <1>5. ASSUME NEW B PROVE [d EXCEPT !.accounts = B] = OnlyAccounts(B)
    <2>1. [d EXCEPT !.accounts = B] = [accounts |-> B, rooms |-> {}, members |-> M,
                                       memories |-> {}, goals |-> {}, bonds |-> Z]
      BY <1>4
    <2> QED BY <1>1, <2>1
  <1>6. /\ [d EXCEPT !.rooms = {}] = d /\ [d EXCEPT !.memories = {}] = d
        /\ [d EXCEPT !.goals = {}] = d /\ [d EXCEPT !.members = d.members] = d
    <2>1. [d EXCEPT !.rooms = {}] = d
      BY <1>4
    <2>2. [d EXCEPT !.memories = {}] = d
      BY <1>4
    <2>3. [d EXCEPT !.goals = {}] = d
      BY <1>4
    <2>4. [d EXCEPT !.members = d.members] = d
      BY <1>4
    <2> QED BY <2>1, <2>2, <2>3, <2>4
  <1> QED BY <1>2, <1>3, <1>5, <1>6 DEF M, Z

LEMMA SupabaseUsers ==
    ASSUME NEW A, NEW d, d = OnlyAccounts(A), NEW u
    PROVE  \E B \in SUBSET (A \cup {u}) : Pt!SuUser(d, u).db = OnlyAccounts(B)
  <1>0. d.accounts = A
    BY OnlyAccountsIs
  <1>1. CASE u \in d.accounts
    <2>1. Pt!SuUser(d, u).db = d
      BY <1>1 DEF Pt!SuUser, Pt!SuGetAccountById, Pt!Ensured, Pt!Did
    <2> QED BY <2>1
  <1>2. CASE u \notin d.accounts
    <2>1. Pt!SuUser(d, u).db = [d EXCEPT !.accounts = A \cup {u}]
      BY <1>0, <1>2 DEF Pt!SuUser, Pt!SuGetAccountById, Pt!Ensured, Pt!Did, Pt!SuCreateAccount
    <2>2. [d EXCEPT !.accounts = A \cup {u}] = OnlyAccounts(A \cup {u})
      BY OnlyAccountsIs
    <2> QED BY <2>1, <2>2
  <1> QED BY <1>1, <1>2

LEMMA SupabaseRooms ==
    ASSUME NEW A, NEW d, d = OnlyAccounts(A), NEW r \in Rooms
    PROVE  /\ Pt!SuRoom(d, r).answer = "throws" /\ Pt!SuRoom(d, r).db = d
           /\ Pt!SuRemoveRoom(d, r).db = d
  <1>1. r \notin d.rooms /\ d.rooms \ {r} = {}
    BY OnlyAccountsIs
  <1>2. Pt!SuRemoveRoom(d, r).db = d
    BY <1>1, OnlyAccountsIs DEF Pt!SuRemoveRoom, Pt!Did
  <1> QED BY <1>1, <1>2 DEF Pt!SuRoom, Pt!SuGetRoom, Pt!Single, Pt!Ensured, Pt!Did

LEMMA SupabaseMembers ==
    ASSUME NEW A, NEW d, d = OnlyAccounts(A), NEW u \in Users, NEW r \in Rooms, NEW s
    PROVE  /\ Pt!SuMember(d, u, r) = d
           /\ Pt!SuRemoveParticipant(d, u, r).db = d
           /\ Pt!SuSetParticipantUserState(d, u, r, s).db = d
  <1>1. d.members[<<u, r>>] = <<>> /\ Len(d.members[<<u, r>>]) = 0
    <2>1. d.members[<<u, r>>] = <<>>
      BY OnlyAccountsIs
    <2> QED BY <2>1, EmptySeq
  <1>2. [d.members EXCEPT ![<<u, r>>] = <<>>] = d.members
    BY OnlyAccountsIs
  <1>3. Pt!SuAddParticipant(d, u, r).db = d
    BY DEF Pt!SuAddParticipant, Pt!Caught, Pt!If, Pt!Insertable, Pt!Tabled, Pt!NeedsId, Pt!Did
  <1>4. Pt!SuMember(d, u, r) = d
    BY <1>3 DEF Pt!SuMember
  <1>5. Pt!SuRemoveParticipant(d, u, r).db = d
    BY <1>2, OnlyAccountsIs DEF Pt!SuRemoveParticipant, Pt!Did
  <1>6. Pt!SuSetParticipantUserState(d, u, r, s).db = d
    BY <1>1, <1>2, EmptyRepeat, OnlyAccountsIs DEF Pt!SuSetParticipantUserState, Pt!Did
  <1> QED BY <1>4, <1>5, <1>6

LEMMA SupabaseMemories ==
    ASSUME NEW A, NEW d, d = OnlyAccounts(A), NEW m \in Messages, NEW b \in BOOLEAN
    PROVE  /\ Pt!SuRemoveMemory(d, m).db = d
           /\ Pt!Stored(Pt!SuGetMemoryById(d, m), d, Pt!SuCreateMemory(d, m, b)).db = d
  <1>1. Pt!SuRemoveMemory(d, m).db = d
    BY DEF Pt!SuRemoveMemory, Pt!If, Pt!Tabled, Pt!Did
  <1>2. Pt!SuCreateMemory(d, m, b).db = d
    BY DEF Pt!SuCreateMemory, Pt!If, Pt!Rpc, Pt!Functions, Pt!Insertable, Pt!Tabled, Pt!Did
  <1> QED BY <1>1, <1>2 DEF Pt!Stored, Pt!Did

LEMMA SupabaseEmptied ==
    ASSUME NEW A, NEW d, d = OnlyAccounts(A), NEW r \in Rooms
    PROVE  Pt!SuRemoveAllMemories(d, r).db = d /\ Pt!SuRemoveAllGoals(d, r).db = d
  <1>1. Pt!SuRemoveAllMemories(d, r).db = d
    BY DEF Pt!SuRemoveAllMemories, Pt!If, Pt!Rpc, Pt!Functions, Pt!Did
  <1>2. {row \in d.goals : Aim[row.goal].room # r} = {}
    BY OnlyAccountsIs
  <1>3. Pt!SuRemoveAllGoals(d, r).db = d
    BY <1>2, OnlyAccountsIs DEF Pt!SuRemoveAllGoals, Pt!Did
  <1> QED BY <1>1, <1>3

LEMMA SupabaseGoals ==
    ASSUME NEW A, NEW d, d = OnlyAccounts(A), NEW g \in Plans, NEW s
    PROVE  /\ Pt!SuCreateGoal(d, g).db = d /\ Pt!SuUpdateGoalStatus(d, g, s).db = d
           /\ Pt!SuRemoveGoal(d, g).db = d
  <1>1. d.goals = {}
    BY OnlyAccountsIs
  <1>2. Pt!SuCreateGoal(d, g).db = d
    BY DEF Pt!SuCreateGoal, Pt!If, Pt!Insertable, Pt!NeedsId, Pt!Did
  <1>3. Pt!SuUpdateGoalStatus(d, g, s).db = d
    <2>1. {IF row.goal = g THEN [row EXCEPT !.status = s] ELSE row : row \in d.goals} = {}
      BY <1>1
    <2> QED BY <2>1, OnlyAccountsIs DEF Pt!SuUpdateGoalStatus, Pt!Did
  <1>4. Pt!SuRemoveGoal(d, g).db = d
    <2>1. d.goals \ Pt!Twins(d, g) = {}
      BY <1>1
    <2> QED BY <2>1, OnlyAccountsIs DEF Pt!SuRemoveGoal, Pt!Did
  <1> QED BY <1>2, <1>3, <1>4

LEMMA SupabaseBonds ==
    ASSUME NEW A, NEW d, d = OnlyAccounts(A), NEW u, NEW v
    PROVE  Pt!SuCreateRelationship(d, u, v).db = d
  BY DEF Pt!SuCreateRelationship, Pt!If, Pt!Insertable, Pt!NeedsId, Pt!Did

(* One call on the three. *)
LEMMA PortsAll ==
    ASSUME PortsInv, NEW s, NEW j, NEW p, Pt!All(s, j, p), After(ptSq, s.db), j.db = Bare(s.db),
           p.db = ptSu
    PROVE  PortsInv'
  BY DEF PortsInv, Pt!All, After, IsTables, Bare, OnlyAccounts

(* What the constructor and ensureConnection leave of the databases. *)
LEMMA PortsEnsure ==
    ASSUME PortsInv, IsTables(ptSq'), ptSj' = Bare(ptSq'),
           \E B \in SUBSET ptSq'.accounts : ptSu' = OnlyAccounts(B)
    PROVE  PortsInv'
  <1>1. PICK B \in SUBSET ptSq'.accounts : ptSu' = OnlyAccounts(B)
    OBVIOUS
  <1>2. ptSu'.accounts = B
    BY <1>1, OnlyAccountsIs
  <1>3. ptSu' = OnlyAccounts(ptSu'.accounts)
    BY <1>1, <1>2
  <1>4. IsTables(ptSq)' /\ (ptSj = Bare(ptSq))'
    BY DEF IsTables, Bare
  <1>5. (ptSu = OnlyAccounts(ptSu.accounts))'
    BY <1>3 DEF OnlyAccounts
  <1> QED BY <1>1, <1>2, <1>4, <1>5 DEF PortsInv

LEMMA PortsConstruct ==
    ASSUME Pt!PortsAssumption, PortsInv, Pt!Construct
    PROVE  PortsInv'
  <1> USE DEF Pt!PortsAssumption
  <1> DEFINE s == Pt!SqUser(Pt!SqRoom(ptSq, Own).db, Agent).db
             j == Pt!SjUser(Pt!SjRoom(ptSj, Own).db, Agent).db
             p == Pt!SuUser(Pt!SuRoom(ptSu, Own).db, Agent).db
             new(rows) == \A r \in Rooms : rows[r] = 0
             alone == new(Pt!SqGetParticipantsForAccount(s, Agent))
  <1>1. After(ptSq, s) /\ Agent \in s.accounts /\ j = Bare(s)
    <2>1. After(ptSq, Pt!SqRoom(ptSq, Own).db)
          /\ Pt!SjRoom(ptSj, Own).db = Bare(Pt!SqRoom(ptSq, Own).db)
      BY BareRooms DEF PortsInv
    <2>2. IsTables(Pt!SqRoom(ptSq, Own).db) /\ Agent \in Users
      BY <2>1 DEF After
    <2>3. After(Pt!SqRoom(ptSq, Own).db, s) /\ Agent \in s.accounts /\ j = Bare(s)
      BY <2>1, <2>2, BareUsers
    <2> HIDE DEF s, j
    <2> QED BY <2>1, <2>3 DEF After
  <1>2. Pt!SjGetParticipantsForAccount(j, Agent) = Pt!SqGetParticipantsForAccount(s, Agent)
    <2>1. IsTables(s)
      BY <1>1 DEF After
    <2> HIDE DEF s, j
    <2>2. j.members = s.members
      BY <1>1, <2>1, BareIs
    <2> QED BY <2>2 DEF Pt!SjGetParticipantsForAccount, Pt!SqGetParticipantsForAccount
  <1>3. /\ ptSq' = IF alone THEN Pt!SqMember(s, Agent, Own) ELSE s
        /\ ptSj' = IF alone THEN Pt!SjMember(j, Agent, Own) ELSE j
        /\ ptSu' = IF ~ptAlive THEN ptSu
                   ELSE IF new(Pt!SuGetParticipantsForAccount(p, Agent))
                   THEN Pt!SuMember(p, Agent, Own) ELSE p
    <2>1. /\ ptSq' = IF new(Pt!SqGetParticipantsForAccount(s, Agent))
                     THEN Pt!SqMember(s, Agent, Own) ELSE s
          /\ ptSj' = IF new(Pt!SjGetParticipantsForAccount(j, Agent))
                     THEN Pt!SjMember(j, Agent, Own) ELSE j
          /\ ptSu' = IF ~ptAlive THEN ptSu
                     ELSE IF new(Pt!SuGetParticipantsForAccount(p, Agent))
                     THEN Pt!SuMember(p, Agent, Own) ELSE p
      BY Zenon DEF Pt!Construct
    <2>2. new(Pt!SjGetParticipantsForAccount(j, Agent))
            <=> new(Pt!SqGetParticipantsForAccount(s, Agent))
      BY <1>2
    <2> HIDE DEF s, j, p, new
    <2> QED BY <2>1, <2>2
  <1>4. \E B \in SUBSET (ptSu.accounts \cup {Agent}) : p = OnlyAccounts(B)
    BY SupabaseRooms, SupabaseUsers DEF PortsInv
  <1> HIDE DEF s, j, p, new, alone
  <1>5. After(s, ptSq') /\ ptSj' = Bare(ptSq')
    BY <1>1, <1>3, BareMembers DEF After
  <1>6. \E B \in SUBSET (ptSu.accounts \cup {Agent}) : ptSu' = OnlyAccounts(B)
    BY <1>3, <1>4, SupabaseMembers DEF PortsInv
  <1>7. ptSu.accounts \cup {Agent} \subseteq ptSq'.accounts
    BY <1>1, <1>5 DEF After, PortsInv
  <1> QED BY <1>5, <1>6, <1>7, PortsEnsure DEF After

LEMMA PortsConnect ==
    ASSUME Pt!PortsAssumption, PortsInv, NEW u \in Users, NEW r \in Rooms,
           Pt!EnsureConnection(u, r)
    PROVE  PortsInv'
  <1> USE DEF Pt!PortsAssumption
  <1> DEFINE s0 == Pt!SqUser(Pt!SqUser(ptSq, Agent).db, u).db
             j0 == Pt!SjUser(Pt!SjUser(ptSj, Agent).db, u).db
             p0 == Pt!SuUser(Pt!SuUser(ptSu, Agent).db, u).db
             s == Pt!SqRoom(s0, r)
             j == Pt!SjRoom(j0, r)
             p == Pt!SuRoom(p0, r)
  <1>1. /\ ptSq' = Pt!SqMember(Pt!SqMember(s.db, u, r), Agent, r)
        /\ ptSj' = Pt!SjMember(Pt!SjMember(j.db, u, r), Agent, r)
        /\ ptSu' = IF ~ptAlive THEN ptSu
                   ELSE IF p.answer = "throws" THEN p.db
                   ELSE Pt!SuMember(Pt!SuMember(p.db, u, r), Agent, r)
    BY Zenon DEF Pt!EnsureConnection
  <1>2. After(ptSq, s0) /\ {u, Agent} \subseteq s0.accounts /\ j0 = Bare(s0)
    <2>1. /\ After(ptSq, Pt!SqUser(ptSq, Agent).db)
          /\ Agent \in Pt!SqUser(ptSq, Agent).db.accounts
          /\ Pt!SjUser(ptSj, Agent).db = Bare(Pt!SqUser(ptSq, Agent).db)
      BY BareUsers DEF PortsInv
    <2> QED BY <2>1, BareUsers DEF After
  <1>3. \E B \in SUBSET (ptSu.accounts \cup {u, Agent}) : p0 = OnlyAccounts(B)
    <2>1. PICK B \in SUBSET (ptSu.accounts \cup {Agent}) :
                 Pt!SuUser(ptSu, Agent).db = OnlyAccounts(B)
      BY SupabaseUsers DEF PortsInv
    <2>2. PICK C \in SUBSET (B \cup {u}) : p0 = OnlyAccounts(C)
      BY <2>1, SupabaseUsers
    <2>3. C \subseteq ptSu.accounts \cup {u, Agent}
      BY <2>1, <2>2
    <2> QED BY <2>2, <2>3
  <1> HIDE DEF s0, j0, p0
  <1>4. After(s0, s.db) /\ j.db = Bare(s.db)
    BY <1>2, BareRooms DEF After
  <1>5. p.answer = "throws" /\ p.db = p0
    BY <1>3, SupabaseRooms
  <1> HIDE DEF s, j, p
  <1>6. After(s.db, Pt!SqMember(s.db, u, r))
        /\ Pt!SjMember(j.db, u, r) = Bare(Pt!SqMember(s.db, u, r))
    BY <1>4, BareMembers DEF After
  <1>7. After(Pt!SqMember(s.db, u, r), ptSq') /\ ptSj' = Bare(ptSq')
    BY <1>1, <1>6, BareMembers DEF After
  <1>8. \E B \in SUBSET (ptSu.accounts \cup {u, Agent}) : ptSu' = OnlyAccounts(B)
    BY <1>1, <1>3, <1>5 DEF PortsInv
  <1>9. ptSu.accounts \cup {u, Agent} \subseteq ptSq'.accounts
    <2>1. ptSu.accounts \cup {u, Agent} \subseteq s0.accounts
      BY <1>2 DEF After, PortsInv
    <2> QED BY <2>1, <1>4, <1>6, <1>7 DEF After
  <1> QED BY <1>7, <1>8, <1>9, PortsEnsure DEF After

LEMMA PortsNextInv ==
    ASSUME Pt!PortsAssumption, PortsInv, Pt!PortsNext
    PROVE  PortsInv'
  <1>0. Named \subseteq Messages
    BY DEF Pt!PortsAssumption, Pt!TablesAssumption
  <1>1. CASE Pt!Construct
    BY <1>1, PortsConstruct
  <1>2. CASE Pt!Dies
    BY <1>2 DEF Pt!Dies, PortsInv, IsTables, Bare, OnlyAccounts
  <1>3. ASSUME NEW u \in Users, NEW r \in Rooms, Pt!EnsureConnection(u, r)
        PROVE  PortsInv'
    BY <1>3, PortsConnect
  <1>4. ASSUME NEW u \in Users, NEW r \in Rooms, Pt!Participation(u, r)
        PROVE  PortsInv'
    <2>1. ASSUME NEW s, Pt!All(Pt!SqSetParticipantUserState(ptSq, u, r, s),
                               Pt!SjSetParticipantUserState(ptSj, u, r, s),
                               Pt!SuSetParticipantUserState(ptSu, u, r, s))
          PROVE  PortsInv'
      BY <1>4, <2>1, PortsAll, BareMembers, SupabaseMembers DEF PortsInv, Pt!Participation
    <2>2. ASSUME Pt!All(Pt!SqRemoveParticipant(ptSq, u, r), Pt!SjRemoveParticipant(ptSj, u, r),
                        Pt!SuRemoveParticipant(ptSu, u, r))
          PROVE  PortsInv'
      BY <1>4, <2>2, PortsAll, BareMembers, SupabaseMembers DEF PortsInv, Pt!Participation
    <2>3. ASSUME Pt!All(Pt!SqRemoveRoom(ptSq, r), Pt!SjRemoveRoom(ptSj, r),
                        Pt!SuRemoveRoom(ptSu, r))
          PROVE  PortsInv'
      BY <1>4, <2>3, PortsAll, BareRooms, SupabaseRooms DEF PortsInv, Pt!Participation
    <2> QED BY <1>4, <2>1, <2>2, <2>3 DEF Pt!Participation
  <1>5. ASSUME NEW m \in Messages, NEW b \in BOOLEAN, Pt!CreateMemory(m, b)
        PROVE  PortsInv'
    <2> DEFINE s == Pt!Stored(Pt!Row(m \in Named /\ Pt!SqGetMemoryById(ptSq, m)), ptSq,
                              Pt!SqCreateMemory(ptSq, m, Pt!SqIsUnique(ptSq, m)))
               j == Pt!Stored(Pt!SjGetMemoryById(ptSj, m), ptSj, Pt!SjCreateMemory(ptSj, m))
               p == Pt!Stored(Pt!SuGetMemoryById(ptSu, m), ptSu, Pt!SuCreateMemory(ptSu, m, b))
    <2>1. Pt!All(s, j, p)
      BY <1>5 DEF Pt!CreateMemory
    <2>2. After(ptSq, s.db) /\ j.db = Bare(s.db)
      BY BareMemories DEF PortsInv
    <2>3. p.db = ptSu
      BY SupabaseMemories DEF PortsInv
    <2> HIDE DEF s, j, p
    <2> QED BY <2>1, <2>2, <2>3, PortsAll
  <1>6. ASSUME NEW r \in Rooms, Pt!Forget(r)
        PROVE  PortsInv'
    <2>1. ASSUME Pt!All(Pt!SqRemoveAllMemories(ptSq, r), Pt!SjRemoveAllMemories(ptSj, r),
                        Pt!SuRemoveAllMemories(ptSu, r))
          PROVE  PortsInv'
      BY <1>6, <2>1, PortsAll, BareEmptied, SupabaseEmptied DEF PortsInv, Pt!Forget
    <2>2. ASSUME NEW m \in Named, Pt!All(Pt!SqRemoveMemory(ptSq, m), Pt!SjRemoveMemory(ptSj, m),
                                         Pt!SuRemoveMemory(ptSu, m))
          PROVE  PortsInv'
      <3>1. /\ After(ptSq, Pt!SqRemoveMemory(ptSq, m).db)
            /\ Pt!SjRemoveMemory(ptSj, m).db = Bare(Pt!SqRemoveMemory(ptSq, m).db)
            /\ Pt!SuRemoveMemory(ptSu, m).db = ptSu
        BY <1>0, BareMemories, SupabaseMemories DEF PortsInv
      <3> QED BY <1>6, <2>2, <3>1, PortsAll DEF Pt!Forget
    <2> QED BY <1>6, <2>1, <2>2 DEF Pt!Forget
  <1>7. ASSUME NEW g \in Plans, Pt!Planning(g)
        PROVE  PortsInv'
    <2>1. ASSUME Pt!All(Pt!SqCreateGoal(ptSq, g), Pt!SjCreateGoal(ptSj, g),
                        Pt!SuCreateGoal(ptSu, g))
          PROVE  PortsInv'
      BY <2>1, PortsAll, BareGoals, SupabaseGoals DEF PortsInv
    <2>2. ASSUME NEW s, Pt!All(Pt!SqUpdateGoalStatus(ptSq, g, s), Pt!SjUpdateGoalStatus(ptSj, g, s),
                               Pt!SuUpdateGoalStatus(ptSu, g, s))
          PROVE  PortsInv'
      <3>1. /\ After(ptSq, Pt!SqUpdateGoalStatus(ptSq, g, s).db)
            /\ Pt!SjUpdateGoalStatus(ptSj, g, s).db = Bare(Pt!SqUpdateGoalStatus(ptSq, g, s).db)
            /\ Pt!SuUpdateGoalStatus(ptSu, g, s).db = ptSu
        BY BareGoals, SupabaseGoals DEF PortsInv
      <3> QED BY <2>2, <3>1, PortsAll
    <2>3. ASSUME Pt!All(Pt!SqRemoveGoal(ptSq, g), Pt!SjRemoveGoal(ptSj, g),
                        Pt!SuRemoveGoal(ptSu, g))
          PROVE  PortsInv'
      BY <2>3, PortsAll, BareGoals, SupabaseGoals DEF PortsInv
    <2>4. ASSUME NEW r \in Rooms, Pt!All(Pt!SqRemoveAllGoals(ptSq, r), Pt!SjRemoveAllGoals(ptSj, r),
                                         Pt!SuRemoveAllGoals(ptSu, r))
          PROVE  PortsInv'
      BY <2>4, PortsAll, BareEmptied, SupabaseEmptied DEF PortsInv
    <2> QED BY <1>7, <2>1, <2>2, <2>3, <2>4 DEF Pt!Planning
  <1>8. ASSUME NEW u \in Users, NEW v \in Users, Pt!CreateRelationship(u, v)
        PROVE  PortsInv'
    <2>1. /\ After(ptSq, Pt!SqCreateRelationship(ptSq, u, v).db)
          /\ Pt!SjCreateRelationship(ptSj, u, v).db = Bare(Pt!SqCreateRelationship(ptSq, u, v).db)
          /\ Pt!SuCreateRelationship(ptSu, u, v).db = ptSu
      BY BareBonds, SupabaseBonds DEF PortsInv
    <2> QED BY <1>8, <2>1, PortsAll DEF Pt!CreateRelationship
  <1> QED BY <1>1, <1>2, <1>3, <1>4, <1>5, <1>6, <1>7, <1>8 DEF Pt!PortsNext

LEMMA PortsSpec ==
    ASSUME Pt!PortsAssumption
    PROVE  Pt!PortsInit /\ [][Pt!PortsNext]_Pt!vars => []PortsInv
  <1>1. Pt!PortsInit => PortsInv
    BY DEF Pt!PortsInit, Pt!Init, Pt!Pairs, PortsInv, IsTables, Bare, OnlyAccounts
  <1>2. PortsInv /\ [Pt!PortsNext]_Pt!vars => PortsInv'
    <2>1. PortsInv /\ UNCHANGED Pt!vars => PortsInv'
      BY DEF Pt!vars, PortsInv, IsTables, Bare, OnlyAccounts
    <2> QED BY <2>1, PortsNextInv
  <1> QED BY <1>1, <1>2, PTL

(* The cardinality the instances of Tables know is that of the library. *)
LEMMA CountIs == ASSUME NEW S PROVE Pt!Cardinality(S) = Cardinality(S) /\ Ad!Cardinality(S) = Cardinality(S)
  BY Zenon DEF Pt!Cardinality, Ad!Cardinality, Cardinality

(* What is read on sql.js. *)
LEMMA SqlJsRead ==
    ASSUME PortsInv
    PROVE  Pt!SqlJsAddsNothing
  <1>1. /\ ptSj.accounts = {} /\ ptSj.memories = {} /\ ptSj.members = ptSq.members
        /\ ptSj.rooms = ptSq.rooms /\ ptSj.goals = ptSq.goals /\ ptSj.bonds = ptSq.bonds
    BY BareIs DEF PortsInv
  <1>2. ASSUME NEW r \in Rooms
        PROVE  /\ Pt!SjGetParticipantsForRoom(ptSj, r) = Pt!SqGetParticipantsForRoom(ptSq, r)
               /\ \A b \in BOOLEAN : Pt!SjGetGoals(ptSj, r, b) = Pt!SqGetGoals(ptSq, r, b)
    BY <1>1 DEF Pt!SjGetParticipantsForRoom, Pt!SqGetParticipantsForRoom, Pt!SjGetGoals, Pt!SqGetGoals
  <1>3. ASSUME NEW r \in Rooms
        PROVE  /\ Pt!SjGetMemories(ptSj, r, FALSE) = {} /\ ~(Pt!SjCountMemories(ptSj, r, FALSE) > 0)
               /\ Pt!SjGetMemoriesByRoomIds(ptSj, {r}) = {}
               /\ \A m \in Messages :
                    Pt!SjSearchMemories(ptSj, m, FALSE) \subseteq Pt!SqSearchMemories(ptSq, m, FALSE)
    <2>1. \A q : Pt!SqGetMemories(ptSj, q, FALSE) = {}
      BY <1>1 DEF Pt!SqGetMemories, Pt!InRoom
    <2>2. Pt!SjCountMemories(ptSj, r, FALSE) = 0
      BY <2>1, CountIs, FS_EmptySet DEF Pt!SjCountMemories, Pt!SqCountMemories
    <2>3. Pt!SjGetMemories(ptSj, r, FALSE) = {} /\ Pt!SjGetMemoriesByRoomIds(ptSj, {r}) = {}
      BY <2>1 DEF Pt!SjGetMemories, Pt!SjGetMemoriesByRoomIds
    <2>4. \A m \in Messages : Pt!SjSearchMemories(ptSj, m, FALSE) = {}
      BY <2>1 DEF Pt!SjSearchMemories, Pt!SqSearchMemories
    <2>5. \A c : c = 0 => ~(c > 0)
      OBVIOUS
    <2> QED BY <2>2, <2>3, <2>4, <2>5, Zenon
  <1>4. ASSUME NEW r \in Rooms, NEW u \in Users
        PROVE  /\ ~Pt!SjGetActorDetails(ptSj, r)[u].known
               /\ Pt!SjGetParticipantUserState(ptSj, u, r) = "none"
    BY <1>1 DEF Pt!SjGetParticipantUserState, Pt!Unstepped, Pt!SjGetActorDetails, Pt!SqGetActorDetails
  <1>5. \A u, v \in Users :
            /\ Pt!SjGetRelationship(ptSj, u, v) = Pt!SqGetRelationship(ptSq, u, v)
            /\ Pt!SjGetRelationships(ptSj, u) = Pt!SqGetRelationships(ptSq, u)
            /\ Pt!SjGetRoomsForParticipants(ptSj, {u, v}) = Pt!SqGetRoomsForParticipants(ptSq, {u, v})
    BY <1>1 DEF Pt!SjGetRelationship, Pt!SqGetRelationship, Pt!SjGetRelationships,
                Pt!SqGetRelationships, Pt!SjGetRoomsForParticipants, Pt!SqGetRoomsForParticipants
  <1> QED BY <1>1, <1>2, <1>3, <1>4, <1>5 DEF Pt!SqlJsAddsNothing

(* What is found on supabase. *)
LEMMA SupabaseRead ==
    ASSUME PortsInv
    PROVE  Pt!SupabaseAddsNothing
  <1>1. /\ ptSu.rooms = {} /\ ptSu.members = [k \in Users \X Rooms |-> <<>>]
        /\ ptSu.memories = {} /\ ptSu.bonds = [p \in Users \X Users |-> 0]
        /\ ptSu.accounts \subseteq ptSq.accounts
    BY OnlyAccountsIs DEF PortsInv
  <1>2. ASSUME NEW u \in Users, NEW v \in Users
        PROVE  /\ Pt!SuGetAccountById(ptSu, u) = "row" => Pt!SqGetAccountById(ptSq, u)
               /\ Pt!SuGetRelationship(ptSu, u, v) # "row"
               /\ \A p \in DOMAIN Pt!SuGetRelationships(ptSu, u) : ~(ptSu.bonds[p] > 0)
    <2>1. \A p \in DOMAIN Pt!SuGetRelationships(ptSu, u) : p \in Users \X Users
      BY <1>1 DEF Pt!SuGetRelationships
    <2>2. \A p \in DOMAIN Pt!SuGetRelationships(ptSu, u) : ptSu.bonds[p] = 0
      BY <1>1, <2>1
    <2>3. Pt!SuGetRelationship(ptSu, u, v) # "row"
      BY DEF Pt!SuGetRelationship, Pt!Rpc, Pt!Functions
    <2>4. Pt!SuGetAccountById(ptSu, u) = "row" => Pt!SqGetAccountById(ptSq, u)
      BY <1>1 DEF Pt!SuGetAccountById, Pt!SqGetAccountById
    <2> QED BY <2>2, <2>3, <2>4
  <1>3. ASSUME NEW r \in Rooms
        PROVE  /\ Pt!SuGetRoom(ptSu, r) # "row" /\ Pt!SuGetGoals(ptSu, r) # "row"
               /\ "row" \notin {Pt!SuGetMemories(ptSu, r), Pt!SuCountMemories(ptSu, r)}
    BY <1>1 DEF Pt!SuGetRoom, Pt!Single, Pt!SuGetGoals, Pt!SuGetMemories, Pt!SuCountMemories,
                Pt!Rpc, Pt!Functions, Pt!Tabled
  <1>4. ASSUME NEW r \in Rooms, NEW u \in Users
        PROVE  Pt!SuGetParticipantUserState(ptSu, u, r) = "none"
    <2>1. ptSu.members[<<u, r>>] = <<>>
      BY <1>1
    <2>2. Len(ptSu.members[<<u, r>>]) # 1
      BY <2>1, EmptySeq
    <2>3. Pt!Single(Len(ptSu.members[<<u, r>>]) = 1) = "error"
      BY <2>2, Zenon DEF Pt!Single
    <2> QED BY <2>3 DEF Pt!SuGetParticipantUserState
  <1>5. ASSUME NEW m \in Messages
        PROVE  "row" \notin {Pt!SuGetMemoryById(ptSu, m), Pt!SuSearchMemories(ptSu, m)}
    <2>1. Pt!Copies(ptSu, m) = {}
      BY <1>1 DEF Pt!Copies
    <2> QED BY <2>1 DEF Pt!SuGetMemoryById, Pt!Single, Pt!SuSearchMemories, Pt!Rpc, Pt!Functions
  <1> QED BY <1>2, <1>3, <1>4, <1>5 DEF Pt!SupabaseAddsNothing

----------------------------------------------------------------------------
(***************************************************************************)
(* Adapters.  Until a call parts them, the two databases hold the same but *)
(* for the unique flags of memories and for those being created; and no    *)
(* two rows of one memory have the same number.                            *)
(***************************************************************************)
Numbers(M, m) == {row.copy : row \in {x \in M : x.msg = m}}
NextOf(N) == CHOOSE n \in 0 .. Ad!Cardinality(N) : n \notin N

MemoryRecords == [msg : Messages, copy : Nat, unique : BOOLEAN]

Memorised(M) ==
    /\ M \in SUBSET MemoryRecords /\ IsFiniteSet(M)
    /\ \A x, y \in M : x.msg = y.msg /\ x.copy = y.copy => x = y
    /\ \A x \in M : x.msg \in Named => x.copy = 0

GoalShaped(G) == \A row \in G : row = [goal |-> row.goal, copy |-> row.copy, status |-> row.status]
Memberships == [Users \X Rooms -> Seq(Ad!States)]

(* The two are alike in all but the memories. *)
SameTables(s, p) ==
    /\ IsTables(s) /\ IsTables(p)
    /\ s.accounts = p.accounts /\ s.rooms = p.rooms /\ s.members = p.members
    /\ s.goals = p.goals /\ s.bonds = p.bonds
    /\ s.members \in Memberships /\ GoalShaped(s.goals)

(* A memory that is being created has one more row on sqlite, with the     *)
(* number that its row on postgres will have.                              *)
Matched(S, P) ==
    /\ Memorised(S) /\ Memorised(P)
    /\ \A m \in Messages :
         IF adCreating[m] = "no" THEN Numbers(S, m) = Numbers(P, m)
         ELSE /\ Numbers(S, m) = Numbers(P, m) \cup {NextOf(Numbers(P, m))}
              /\ m \in Named => Numbers(P, m) = {}

Creation == [Messages -> {"no", "looked", "unique", "copy"}]

AdaptersInv ==
    /\ adCreating \in Creation /\ adParted \in BOOLEAN
    /\ \A m, n \in Messages : m # n /\ adCreating[m] # "no" /\ adCreating[n] # "no"
                                => {m, n} \in adOverlaps
    /\ \A m \in Messages : adCreating[m] = "unique" =>
         \A row \in adPg.memories : row.unique /\ Ad!Similar(row.msg, m) => {row.msg, m} \in adOverlaps
    /\ Ad!UniqueRowsDiffer
    /\ ~adParted => SameTables(adSq, adPg) /\ Matched(adSq.memories, adPg.memories)

(* Some number up to the size of a finite set is not in it. *)
LEMMA FreeNumber ==
    ASSUME NEW N \in SUBSET Nat, IsFiniteSet(N)
    PROVE  NextOf(N) \in Nat /\ NextOf(N) \notin N /\ NextOf(N) <= Cardinality(N)
  <1> DEFINE c == Cardinality(N)
  <1>1. c \in Nat
    BY FS_CardinalityType
  <1>2. IsFiniteSet(0 .. c) /\ Cardinality(0 .. c) = c + 1
    BY <1>1, FS_Interval
  <1>3. ~(0 .. c \subseteq N)
    BY <1>1, <1>2, FS_Subset
  <1> HIDE DEF c
  <1>4. \E n \in 0 .. c : n \notin N
    BY <1>3
  <1>5. c = Ad!Cardinality(N)
    BY CountIs DEF c
  <1>6. \E n \in 0 .. Ad!Cardinality(N) : n \notin N
    BY <1>4, <1>5
  <1>7. NextOf(N) \in 0 .. Ad!Cardinality(N) /\ NextOf(N) \notin N
    BY <1>6 DEF NextOf
  <1> QED BY <1>1, <1>5, <1>7 DEF c

LEMMA NumbersAre ==
    ASSUME NEW M, Memorised(M), NEW m
    PROVE  /\ Numbers(M, m) \in SUBSET Nat /\ IsFiniteSet(Numbers(M, m))
           /\ NextOf(Numbers(M, m)) \in Nat /\ NextOf(Numbers(M, m)) \notin Numbers(M, m)
  <1> DEFINE R == {x \in M : x.msg = m}
             f == [row \in R |-> row.copy]
  <1>1. IsFiniteSet(R)
    BY FS_Subset DEF Memorised
  <1>2. Numbers(M, m) \in SUBSET Nat
    BY DEF Numbers, Memorised, MemoryRecords
  <1>3. f \in Surjection(R, Numbers(M, m))
    BY DEF Surjection, Numbers
  <1>4. IsFiniteSet(Numbers(M, m))
    BY <1>1, <1>3, FS_Surjection
  <1> QED BY <1>2, <1>4, FreeNumber

LEMMA FreshIs ==
    ASSUME NEW d, NEW m, NEW q
    PROVE  Ad!MemoryRow(d, m, q) = [msg |-> m, copy |-> NextOf(Numbers(d.memories, m)), unique |-> q]
  <1>1. Ad!Copies(d, m) = {x \in d.memories : x.msg = m}
    BY DEF Ad!Copies
  <1>2. Ad!Fresh(Ad!Copies(d, m)) = NextOf({row.copy : row \in Ad!Copies(d, m)})
    BY DEF Ad!Fresh, NextOf
  <1>3. Ad!Fresh(Ad!Copies(d, m)) = NextOf(Numbers(d.memories, m))
    BY <1>1, <1>2 DEF Numbers
  <1> QED BY <1>3 DEF Ad!MemoryRow

Tab(a, r, e, m, g, b) ==
    [accounts |-> a, rooms |-> r, members |-> e, memories |-> m, goals |-> g, bonds |-> b]

LEMMA TabIs ==
    ASSUME NEW a, NEW r, NEW e, NEW m, NEW g, NEW b
    PROVE  LET d == Tab(a, r, e, m, g, b)
           IN  /\ IsTables(d) /\ d.accounts = a /\ d.rooms = r /\ d.members = e
               /\ d.memories = m /\ d.goals = g /\ d.bonds = b
  BY DEF IsTables, Tab

(* What replacing one table leaves. *)
LEMMA Put ==
    ASSUME NEW d, IsTables(d), NEW X
    PROVE  /\ [d EXCEPT !.accounts = X] = Tab(X, d.rooms, d.members, d.memories, d.goals, d.bonds)
           /\ [d EXCEPT !.rooms = X] = Tab(d.accounts, X, d.members, d.memories, d.goals, d.bonds)
           /\ [d EXCEPT !.members = X] = Tab(d.accounts, d.rooms, X, d.memories, d.goals, d.bonds)
           /\ [d EXCEPT !.memories = X] = Tab(d.accounts, d.rooms, d.members, X, d.goals, d.bonds)
           /\ [d EXCEPT !.goals = X] = Tab(d.accounts, d.rooms, d.members, d.memories, X, d.bonds)
           /\ [d EXCEPT !.bonds = X] = Tab(d.accounts, d.rooms, d.members, d.memories, d.goals, X)
  <1>1. ASSUME NEW a, NEW b, NEW c, NEW e, NEW f, NEW g, d = Tab(a, b, c, e, f, g)
        PROVE  /\ [d EXCEPT !.accounts = X] = Tab(X, b, c, e, f, g)
               /\ [d EXCEPT !.rooms = X] = Tab(a, X, c, e, f, g)
               /\ [d EXCEPT !.members = X] = Tab(a, b, X, e, f, g)
               /\ [d EXCEPT !.memories = X] = Tab(a, b, c, X, f, g)
               /\ [d EXCEPT !.goals = X] = Tab(a, b, c, e, X, g)
               /\ [d EXCEPT !.bonds = X] = Tab(a, b, c, e, f, X)
    <2>1. [d EXCEPT !.accounts = X] = Tab(X, b, c, e, f, g)
      BY <1>1 DEF Tab
    <2>2. [d EXCEPT !.rooms = X] = Tab(a, X, c, e, f, g)
      BY <1>1 DEF Tab
    <2>3. [d EXCEPT !.members = X] = Tab(a, b, X, e, f, g)
      BY <1>1 DEF Tab
    <2>4. [d EXCEPT !.memories = X] = Tab(a, b, c, X, f, g)
      BY <1>1 DEF Tab
    <2>5. [d EXCEPT !.goals = X] = Tab(a, b, c, e, X, g)
      BY <1>1 DEF Tab
    <2>6. [d EXCEPT !.bonds = X] = Tab(a, b, c, e, f, X)
      BY <1>1 DEF Tab
    <2> QED BY <2>1, <2>2, <2>3, <2>4, <2>5, <2>6
  <1>2. d = Tab(d.accounts, d.rooms, d.members, d.memories, d.goals, d.bonds)
    BY Zenon DEF IsTables, Tab
  <1> QED BY <1>1, <1>2

(* One call on both: enough is that neither gains a memory, and that they  *)
(* stay alike if they answered alike.                                      *)
LEMMA BothKeep ==
    ASSUME AdaptersInv, ~adParted, NEW s, NEW p, NEW strays \in BOOLEAN, Ad!Both(s, p, strays),
           s.db.memories \subseteq adSq.memories, p.db.memories \subseteq adPg.memories,
           s.answer = p.answer /\ ~strays => SameTables(s.db, p.db) /\ Matched(s.db.memories, p.db.memories)
    PROVE  AdaptersInv'
  <1>1. /\ adSq' = s.db /\ adPg' = p.db /\ adCreating' = adCreating /\ adOverlaps' = adOverlaps
        /\ adParted' = (s.answer # p.answer \/ strays)
    BY DEF Ad!Both
  <1>2. /\ (adCreating \in Creation)' /\ (adParted \in BOOLEAN)'
        /\ (\A m, n \in Messages : m # n /\ adCreating[m] # "no" /\ adCreating[n] # "no"
                                     => {m, n} \in adOverlaps)'
    BY <1>1 DEF AdaptersInv
  <1>3. (\A m \in Messages : adCreating[m] = "unique" =>
          \A row \in adPg.memories : row.unique /\ Ad!Similar(row.msg, m) => {row.msg, m} \in adOverlaps)'
    BY <1>1 DEF AdaptersInv, Ad!Similar
  <1>4. Ad!UniqueRowsDiffer'
    <2>1. Ad!UniqueRowsDiffer
      BY DEF AdaptersInv
    <2>2. adSq'.memories \subseteq adSq.memories /\ adPg'.memories \subseteq adPg.memories
      BY <1>1
    <2> QED BY <1>1, <2>1, <2>2 DEF Ad!UniqueRowsDiffer, Ad!Similar
  <1>5. ~adParted' => SameTables(adSq, adPg)' /\ Matched(adSq.memories, adPg.memories)'
    BY <1>1 DEF SameTables, Matched, IsTables
  <1> QED BY <1>2, <1>3, <1>4, <1>5 DEF AdaptersInv

(* A call that does not touch the memories. *)
Beside(s, p, s1, p1) ==
    /\ s1.db.memories = s.memories /\ p1.db.memories = p.memories
    /\ s1.answer = p1.answer => SameTables(s1.db, p1.db)

(* One table of both replaced by the same. *)
LEMMA SameAccounts ==
    ASSUME NEW s, NEW p, SameTables(s, p), NEW X
    PROVE  LET t == [s EXCEPT !.accounts = X]
               q == [p EXCEPT !.accounts = X]
           IN  SameTables(t, q) /\ t.memories = s.memories /\ q.memories = p.memories
  <1> DEFINE t == [s EXCEPT !.accounts = X]
             q == [p EXCEPT !.accounts = X]
  <1>1. /\ t = Tab(X, s.rooms, s.members, s.memories, s.goals, s.bonds)
        /\ q = Tab(X, p.rooms, p.members, p.memories, p.goals, p.bonds)
    BY Put DEF SameTables
  <1> HIDE DEF t, q
  <1>2. /\ IsTables(t) /\ t.accounts = X /\ t.rooms = s.rooms /\ t.members = s.members
        /\ t.memories = s.memories /\ t.goals = s.goals /\ t.bonds = s.bonds
    BY <1>1, TabIs
  <1>3. /\ IsTables(q) /\ q.accounts = X /\ q.rooms = p.rooms /\ q.members = p.members
        /\ q.memories = p.memories /\ q.goals = p.goals /\ q.bonds = p.bonds
    BY <1>1, TabIs
  <1>4. SameTables(t, q)
    BY <1>2, <1>3 DEF SameTables
  <1> QED BY <1>2, <1>3, <1>4 DEF t, q

LEMMA SameRooms ==
    ASSUME NEW s, NEW p, SameTables(s, p), NEW X
    PROVE  LET t == [s EXCEPT !.rooms = X]
               q == [p EXCEPT !.rooms = X]
           IN  SameTables(t, q) /\ t.memories = s.memories /\ q.memories = p.memories
  <1> DEFINE t == [s EXCEPT !.rooms = X]
             q == [p EXCEPT !.rooms = X]
  <1>1. /\ t = Tab(s.accounts, X, s.members, s.memories, s.goals, s.bonds)
        /\ q = Tab(p.accounts, X, p.members, p.memories, p.goals, p.bonds)
    BY Put DEF SameTables
  <1> HIDE DEF t, q
  <1>2. /\ IsTables(t) /\ t.accounts = s.accounts /\ t.rooms = X /\ t.members = s.members
        /\ t.memories = s.memories /\ t.goals = s.goals /\ t.bonds = s.bonds
    BY <1>1, TabIs
  <1>3. /\ IsTables(q) /\ q.accounts = p.accounts /\ q.rooms = X /\ q.members = p.members
        /\ q.memories = p.memories /\ q.goals = p.goals /\ q.bonds = p.bonds
    BY <1>1, TabIs
  <1>4. SameTables(t, q)
    BY <1>2, <1>3 DEF SameTables
  <1> QED BY <1>2, <1>3, <1>4 DEF t, q

LEMMA SameMembers ==
    ASSUME NEW s, NEW p, SameTables(s, p), NEW X \in Memberships
    PROVE  LET t == [s EXCEPT !.members = X]
               q == [p EXCEPT !.members = X]
           IN  SameTables(t, q) /\ t.memories = s.memories /\ q.memories = p.memories
  <1> DEFINE t == [s EXCEPT !.members = X]
             q == [p EXCEPT !.members = X]
  <1>1. /\ t = Tab(s.accounts, s.rooms, X, s.memories, s.goals, s.bonds)
        /\ q = Tab(p.accounts, p.rooms, X, p.memories, p.goals, p.bonds)
    BY Put DEF SameTables
  <1> HIDE DEF t, q
  <1>2. /\ IsTables(t) /\ t.accounts = s.accounts /\ t.rooms = s.rooms /\ t.members = X
        /\ t.memories = s.memories /\ t.goals = s.goals /\ t.bonds = s.bonds
    BY <1>1, TabIs
  <1>3. /\ IsTables(q) /\ q.accounts = p.accounts /\ q.rooms = p.rooms /\ q.members = X
        /\ q.memories = p.memories /\ q.goals = p.goals /\ q.bonds = p.bonds
    BY <1>1, TabIs
  <1>4. SameTables(t, q)
    BY <1>2, <1>3 DEF SameTables
  <1> QED BY <1>2, <1>3, <1>4 DEF t, q

LEMMA SameGoals ==
    ASSUME NEW s, NEW p, SameTables(s, p), NEW X, GoalShaped(X)
    PROVE  LET t == [s EXCEPT !.goals = X]
               q == [p EXCEPT !.goals = X]
           IN  SameTables(t, q) /\ t.memories = s.memories /\ q.memories = p.memories
  <1> DEFINE t == [s EXCEPT !.goals = X]
             q == [p EXCEPT !.goals = X]
  <1>1. /\ t = Tab(s.accounts, s.rooms, s.members, s.memories, X, s.bonds)
        /\ q = Tab(p.accounts, p.rooms, p.members, p.memories, X, p.bonds)
    BY Put DEF SameTables
  <1> HIDE DEF t, q
  <1>2. /\ IsTables(t) /\ t.accounts = s.accounts /\ t.rooms = s.rooms /\ t.members = s.members
        /\ t.memories = s.memories /\ t.goals = X /\ t.bonds = s.bonds
    BY <1>1, TabIs
  <1>3. /\ IsTables(q) /\ q.accounts = p.accounts /\ q.rooms = p.rooms /\ q.members = p.members
        /\ q.memories = p.memories /\ q.goals = X /\ q.bonds = p.bonds
    BY <1>1, TabIs
  <1>4. SameTables(t, q)
    BY <1>2, <1>3 DEF SameTables
  <1> QED BY <1>2, <1>3, <1>4 DEF t, q

LEMMA SameBonds ==
    ASSUME NEW s, NEW p, SameTables(s, p), NEW X
    PROVE  LET t == [s EXCEPT !.bonds = X]
               q == [p EXCEPT !.bonds = X]
           IN  SameTables(t, q) /\ t.memories = s.memories /\ q.memories = p.memories
  <1> DEFINE t == [s EXCEPT !.bonds = X]
             q == [p EXCEPT !.bonds = X]
  <1>1. /\ t = Tab(s.accounts, s.rooms, s.members, s.memories, s.goals, X)
        /\ q = Tab(p.accounts, p.rooms, p.members, p.memories, p.goals, X)
    BY Put DEF SameTables
  <1> HIDE DEF t, q
  <1>2. /\ IsTables(t) /\ t.accounts = s.accounts /\ t.rooms = s.rooms /\ t.members = s.members
        /\ t.memories = s.memories /\ t.goals = s.goals /\ t.bonds = X
    BY <1>1, TabIs
  <1>3. /\ IsTables(q) /\ q.accounts = p.accounts /\ q.rooms = p.rooms /\ q.members = p.members
        /\ q.memories = p.memories /\ q.goals = p.goals /\ q.bonds = X
    BY <1>1, TabIs
  <1>4. SameTables(t, q)
    BY <1>2, <1>3 DEF SameTables
  <1> QED BY <1>2, <1>3, <1>4 DEF t, q

LEMMA SameAgain ==
    ASSUME NEW d, IsTables(d)
    PROVE  /\ [d EXCEPT !.accounts = d.accounts] = d /\ [d EXCEPT !.members = d.members] = d
           /\ [d EXCEPT !.memories = d.memories] = d /\ [d EXCEPT !.goals = d.goals] = d
  <1>1. d = Tab(d.accounts, d.rooms, d.members, d.memories, d.goals, d.bonds)
    BY Zenon DEF IsTables, Tab
  <1> QED BY <1>1, Put

LEMMA CreateAccountIs ==
    ASSUME NEW s, NEW p, SameTables(s, p), NEW u \in Users, NEW lost \in BOOLEAN
    PROVE  Beside(s, p, Ad!SqCreateAccount(s, u), Ad!PgCreateAccount(p, u, lost))
  <1> DEFINE a == Ad!SqCreateAccount(s, u)
             b == Ad!PgCreateAccount(p, u, lost)
             t == [s EXCEPT !.accounts = s.accounts \cup {u}]
             q == [p EXCEPT !.accounts = p.accounts \cup {u}]
  <1>1. a.db = t /\ a.answer = IF u \in s.accounts THEN "false" ELSE "true"
    BY DEF Ad!SqCreateAccount, Ad!Did
  <1>2. CASE u \in p.accounts
    <2>1. b.db = p /\ b.answer = "false"
      BY <1>2 DEF Ad!PgCreateAccount, Ad!NoRetry, Ad!If, Ad!Caught, Ad!Did
    <2>2. s.accounts \cup {u} = p.accounts \cup {u}
      BY DEF SameTables
    <2>3. p.accounts \cup {u} = p.accounts
      BY <1>2
    <2>4. q = p
      BY <2>3, SameAgain DEF SameTables
    <2> QED BY <1>1, <2>1, <2>2, <2>4, SameAccounts DEF Beside
  <1>3. CASE u \notin p.accounts
    <2>1. b.db = q /\ b.answer = IF lost THEN "false" ELSE "true"
      BY <1>3 DEF Ad!PgCreateAccount, Ad!NoRetry, Ad!If, Ad!Caught, Ad!Did
    <2>2. s.accounts \cup {u} = p.accounts \cup {u}
      BY DEF SameTables
    <2> QED BY <1>1, <2>1, <2>2, SameAccounts DEF Beside
  <1> QED BY <1>2, <1>3

LEMMA CreateRoomIs ==
    ASSUME NEW s, NEW p, SameTables(s, p), NEW r \in Rooms, NEW lost \in BOOLEAN
    PROVE  Beside(s, p, Ad!SqCreateRoom(s, r), Ad!PgCreateRoom(p, r, lost))
  <1> DEFINE a == Ad!SqCreateRoom(s, r)
             b == Ad!PgCreateRoom(p, r, lost)
             t == [s EXCEPT !.rooms = s.rooms \cup {r}]
             q == [p EXCEPT !.rooms = p.rooms \cup {r}]
  <1>1. a.db = t /\ a.answer = "true"
    BY DEF Ad!SqCreateRoom, Ad!Did
  <1>2. s.rooms \cup {r} = p.rooms \cup {r} /\ q.rooms = p.rooms \cup {r}
    <2>1. p.rooms = s.rooms /\ q = Tab(p.accounts, p.rooms \cup {r}, p.members, p.memories, p.goals, p.bonds)
      BY Put DEF SameTables
    <2> QED BY <2>1, TabIs
  <1>3. CASE r \in p.rooms
    <2>1. b.db = p /\ b.answer = "throws"
      BY <1>3 DEF Ad!PgCreateRoom, Ad!WithRetry, Ad!If, Ad!Did
    <2> QED BY <1>1, <2>1, SameRooms DEF Beside
  <1>4. CASE r \notin p.rooms
    <2>1. b.db = q /\ b.answer = IF lost THEN "throws" ELSE "true"
      BY <1>2, <1>4 DEF Ad!PgCreateRoom, Ad!WithRetry, Ad!If, Ad!Did
    <2> QED BY <1>1, <1>2, <2>1, SameRooms DEF Beside
  <1> QED BY <1>3, <1>4

LEMMA MembersOf ==
    ASSUME NEW s, NEW p, SameTables(s, p), NEW u \in Users, NEW r \in Rooms
    PROVE  s.members[<<u, r>>] \in Seq(Ad!States) /\ p.members[<<u, r>>] = s.members[<<u, r>>]
  <1>1. s.members \in Memberships /\ p.members = s.members
    BY Zenon DEF SameTables
  <1> QED BY <1>1 DEF Memberships

LEMMA AddParticipantIs ==
    ASSUME NEW s, NEW p, SameTables(s, p), NEW u \in Users, NEW r \in Rooms, NEW lost \in BOOLEAN
    PROVE  Beside(s, p, Ad!SqAddParticipant(s, u, r), Ad!PgAddParticipant(p, u, r, lost))
  <1> DEFINE a == Ad!SqAddParticipant(s, u, r)
             b == Ad!PgAddParticipant(p, u, r, lost)
             e == [s.members EXCEPT ![<<u, r>>] = Append(@, "none")]
             f == [p.members EXCEPT ![<<u, r>>] = <<"none">>]
  <1>1. a.db = [s EXCEPT !.members = e] /\ a.answer = "true"
    BY DEF Ad!SqAddParticipant, Ad!Did
  <1>2. e \in Memberships
    <2>1. Append(s.members[<<u, r>>], "none") \in Seq(Ad!States)
      BY MembersOf DEF Ad!States
    <2> QED BY <2>1 DEF SameTables, Memberships
  <1>3. CASE Ad!Joins(p, u, r)
    <2>1. b.db = [p EXCEPT !.members = f] /\ b.answer = IF lost THEN "false" ELSE "true"
      BY <1>3 DEF Ad!PgAddParticipant, Ad!NoRetry, Ad!If, Ad!Caught, Ad!Did
    <2>2. Append(s.members[<<u, r>>], "none") = <<"none">>
      <3>1. s.members[<<u, r>>] = <<>>
        BY <1>3, MembersOf DEF Ad!Joins
      <3> QED BY <3>1
    <2>3. e = f
      BY <2>2 DEF SameTables
    <2> HIDE DEF e, f
    <2> QED BY <1>1, <1>2, <2>1, <2>3, SameMembers DEF Beside
  <1>4. CASE ~Ad!Joins(p, u, r)
    <2>1. b.db = p /\ b.answer = "false"
      BY <1>4 DEF Ad!PgAddParticipant, Ad!NoRetry, Ad!If, Ad!Caught, Ad!Did
    <2> HIDE DEF e
    <2> QED BY <1>1, <1>2, <2>1, SameMembers DEF Beside
  <1> QED BY <1>3, <1>4

LEMMA RemoveParticipantIs ==
    ASSUME NEW s, NEW p, SameTables(s, p), NEW u \in Users, NEW r \in Rooms, NEW lost \in BOOLEAN
    PROVE  Beside(s, p, Ad!SqRemoveParticipant(s, u, r), Ad!PgRemoveParticipant(p, u, r, lost))
  <1> DEFINE a == Ad!SqRemoveParticipant(s, u, r)
             b == Ad!PgRemoveParticipant(p, u, r, lost)
             e == [s.members EXCEPT ![<<u, r>>] = <<>>]
  <1>1. a.db = [s EXCEPT !.members = e] /\ a.answer = "true"
    BY DEF Ad!SqRemoveParticipant, Ad!Did
  <1>2. e \in Memberships
    <2>1. <<>> \in Seq(Ad!States)
      BY EmptySeq
    <2> QED BY <2>1 DEF SameTables, Memberships
  <1>3. b.db = [p EXCEPT !.members = e] /\ b.answer = IF lost THEN "false" ELSE "true"
    BY DEF Ad!PgRemoveParticipant, Ad!NoRetry, Ad!Caught, Ad!Did, SameTables
  <1> HIDE DEF a, b, e
  <1>4. Beside(s, p, a, b)
    BY <1>1, <1>2, <1>3, SameMembers DEF Beside
  <1> QED BY <1>4 DEF a, b

LEMMA Repeated ==
    ASSUME NEW x, NEW n \in Nat
    PROVE  /\ Ad!Repeat(x, n) \in Seq({x}) /\ Len(Ad!Repeat(x, n)) = n
  BY DEF Ad!Repeat

LEMMA SetUserStateIs ==
    ASSUME NEW s, NEW p, SameTables(s, p), NEW u \in Users, NEW r \in Rooms, NEW st \in Ad!States,
           NEW lost \in BOOLEAN
    PROVE  Beside(s, p, Ad!SqSetParticipantUserState(s, u, r, st),
                        Ad!PgSetParticipantUserState(p, u, r, st, lost))
  <1> DEFINE a == Ad!SqSetParticipantUserState(s, u, r, st)
             b == Ad!PgSetParticipantUserState(p, u, r, st, lost)
             n == Len(s.members[<<u, r>>])
             e == [s.members EXCEPT ![<<u, r>>] = Ad!Repeat(st, n)]
  <1>1. a.db = [s EXCEPT !.members = e] /\ a.answer = "true"
    BY DEF Ad!SqSetParticipantUserState, Ad!Did
  <1>2. n \in Nat
    BY MembersOf
  <1>3. Ad!Repeat(st, n) \in Seq(Ad!States) /\ Len(Ad!Repeat(st, n)) = n
    <2>1. Seq({st}) \subseteq Seq(Ad!States)
      OBVIOUS
    <2> QED BY <1>2, <2>1, Repeated
  <1> HIDE DEF n
  <1>4. e \in Memberships
    BY <1>3 DEF SameTables, Memberships
  <1>5. b.db = [p EXCEPT !.members = e] /\ b.answer = "true"
    <2> DEFINE Op(d) == Ad!Did([d EXCEPT !.members[<<u, r>>] = Ad!Repeat(st, Len(@))], "true")
               q == [p EXCEPT !.members = e]
    <2>1. b = IF lost THEN Op(Op(p).db) ELSE Op(p)
      BY DEF Ad!PgSetParticipantUserState, Ad!WithRetry
    <2>2. Op(p).db = q /\ Op(p).answer = "true"
      BY DEF Ad!Did, SameTables, n
    <2>3. q.members = e /\ IsTables(q)
      <3>1. q = Tab(p.accounts, p.rooms, e, p.memories, p.goals, p.bonds)
        BY Put DEF SameTables
      <3> QED BY <3>1, TabIs
    <2>4. Op(q).db = q /\ Op(q).answer = "true"
      <3>1. e[<<u, r>>] = Ad!Repeat(st, n)
        BY DEF SameTables, Memberships
      <3>2. [e EXCEPT ![<<u, r>>] = Ad!Repeat(st, Len(@))] = e
        BY <1>3, <3>1
      <3>3. Op(q).db = [q EXCEPT !.members = e] /\ Op(q).answer = "true"
        BY <2>3, <3>2 DEF Ad!Did
      <3> HIDE DEF e, q, Op
      <3>4. q = Tab(q.accounts, q.rooms, q.members, q.memories, q.goals, q.bonds)
        BY <2>3, Zenon DEF IsTables, Tab
      <3> QED BY <2>3, <3>3, <3>4, Put
    <2> HIDE DEF Op, q, b
    <2> QED BY <2>1, <2>2, <2>4 DEF q
  <1> HIDE DEF a, b, e
  <1>6. Beside(s, p, a, b)
    BY <1>1, <1>4, <1>5, SameMembers DEF Beside
  <1> QED BY <1>6 DEF a, b

LEMMA CreateRelationshipIs ==
    ASSUME NEW s, NEW p, SameTables(s, p), NEW u \in Users, NEW v \in Users, NEW lost \in BOOLEAN
    PROVE  Beside(s, p, Ad!SqCreateRelationship(s, u, v), Ad!PgCreateRelationship(p, u, v, lost))
  <1> DEFINE a == Ad!SqCreateRelationship(s, u, v)
             b == Ad!PgCreateRelationship(p, u, v, lost)
             e == [s.bonds EXCEPT ![<<u, v>>] = @ + 1]
             f == [p.bonds EXCEPT ![<<u, v>>] = @ + 1]
  <1>1. a.db = [s EXCEPT !.bonds = e] /\ a.answer = "true"
    BY DEF Ad!SqCreateRelationship, Ad!Did
  <1>2. e = f
    BY DEF SameTables
  <1>3. CASE {u, v} \subseteq p.accounts
    <2>1. b.db = [p EXCEPT !.bonds = f] /\ b.answer = IF lost THEN "false" ELSE "true"
      BY <1>3 DEF Ad!PgCreateRelationship, Ad!NoRetry, Ad!If, Ad!Caught, Ad!Did
    <2> HIDE DEF e, f
    <2> QED BY <1>1, <1>2, <2>1, SameBonds DEF Beside
  <1>4. CASE ~({u, v} \subseteq p.accounts)
    <2>1. b.db = p /\ b.answer = "false"
      BY <1>4 DEF Ad!PgCreateRelationship, Ad!NoRetry, Ad!If, Ad!Caught, Ad!Did
    <2> HIDE DEF e
    <2> QED BY <1>1, <2>1, SameBonds DEF Beside
  <1> QED BY <1>3, <1>4

LEMMA GoalsOf ==
    ASSUME NEW d, NEW g \in Plans
    PROVE  /\ Ad!Twins(d, g) = {row \in d.goals : row.goal = g}
           /\ \E c : Ad!GoalRow(d, g) = [goal |-> g, copy |-> c, status |-> "IN_PROGRESS"]
           /\ \A e : e.goals = d.goals => Ad!GoalRow(e, g) = Ad!GoalRow(d, g)
  BY DEF Ad!Twins, Ad!GoalRow

(* An insertion whose answer is lost is another row. *)
LEMMA CreateGoalIs ==
    ASSUME NEW s, NEW p, SameTables(s, p), NEW g \in Plans, NEW lost \in BOOLEAN
    PROVE  LET a == Ad!SqCreateGoal(s, g)
               b == Ad!PgCreateGoal(p, g, lost)
           IN  /\ a.db.memories = s.memories /\ b.db.memories = p.memories
               /\ ~lost => Beside(s, p, a, b)
  <1> DEFINE a == Ad!SqCreateGoal(s, g)
             b == Ad!PgCreateGoal(p, g, lost)
             Op(d) == Ad!If(Ad!Known(d, Aim[g]), d,
                            [d EXCEPT !.goals = d.goals \cup {Ad!GoalRow(d, g)}], "true")
             X == s.goals \cup {Ad!GoalRow(s, g)}
             Y == p.goals \cup {Ad!GoalRow(p, g)}
  <1>1. a.db = [s EXCEPT !.goals = X] /\ a.answer = "true"
    BY DEF Ad!SqCreateGoal, Ad!Did
  <1>2. X = Y /\ GoalShaped(X)
    <2>1. s.goals = p.goals /\ GoalShaped(s.goals)
      BY DEF SameTables
    <2>2. X = Y
      BY <2>1, GoalsOf
    <2>3. PICK c : Ad!GoalRow(s, g) = [goal |-> g, copy |-> c, status |-> "IN_PROGRESS"]
      BY GoalsOf
    <2> QED BY <2>1, <2>2, <2>3 DEF GoalShaped
  <1>3. b = IF lost THEN Op(Op(p).db) ELSE Op(p)
    BY DEF Ad!PgCreateGoal, Ad!WithRetry
  <1>4. ASSUME NEW d, IsTables(d)
        PROVE  IsTables(Op(d).db) /\ Op(d).db.memories = d.memories
    <2>1. CASE Ad!Known(d, Aim[g])
      <3> DEFINE Z == d.goals \cup {Ad!GoalRow(d, g)}
      <3>1. Op(d).db = [d EXCEPT !.goals = Z]
        BY <2>1 DEF Ad!If, Ad!Did
      <3> HIDE DEF Z, Op
      <3>2. Op(d).db = Tab(d.accounts, d.rooms, d.members, d.memories, Z, d.bonds)
        BY <1>4, <3>1, Put
      <3> QED BY <3>2, TabIs
    <2>2. CASE ~Ad!Known(d, Aim[g])
      BY <1>4, <2>2 DEF Ad!If, Ad!Did
    <2> QED BY <2>1, <2>2
  <1>5. Op(p).db = IF Ad!Known(p, Aim[g]) THEN [p EXCEPT !.goals = Y] ELSE p
    BY DEF Ad!If, Ad!Did
  <1>6. Op(p).answer = IF Ad!Known(p, Aim[g]) THEN "true" ELSE "throws"
    BY DEF Ad!If, Ad!Did
  <1> HIDE DEF Op, X, Y
  <1>7. a.db.memories = s.memories
    BY <1>1, <1>2, SameGoals
  <1>8. b.db.memories = p.memories
    BY <1>3, <1>4 DEF SameTables
  <1>9. ~lost => Beside(s, p, a, b)
    BY <1>1, <1>2, <1>3, <1>5, <1>6, <1>7, <1>8, SameGoals DEF Beside
  <1> QED BY <1>7, <1>8, <1>9

(* Goals of both replaced by the same ones, and once more if lost. *)
LEMMA GoalsReplaced ==
    ASSUME NEW s, NEW p, SameTables(s, p), NEW X, GoalShaped(X), NEW a, NEW b,
           a.db = [s EXCEPT !.goals = X], a.answer = "true",
           b.db = [p EXCEPT !.goals = X], b.answer = "true"
    PROVE  Beside(s, p, a, b)
  BY SameGoals DEF Beside

Marked(G, g, st) ==
    {IF row.goal = g /\ row.copy = 0 THEN [row EXCEPT !.status = st] ELSE row : row \in G}

LEMMA MarkedIs ==
    ASSUME NEW G, GoalShaped(G), NEW g, NEW st
    PROVE  GoalShaped(Marked(G, g, st)) /\ Marked(Marked(G, g, st), g, st) = Marked(G, g, st)
  <1> DEFINE To(row) == IF row.goal = g /\ row.copy = 0 THEN [row EXCEPT !.status = st] ELSE row
  <1>1. ASSUME NEW a, NEW b, NEW c, NEW row, row = [goal |-> a, copy |-> b, status |-> c]
        PROVE  /\ [row EXCEPT !.status = st] = [goal |-> a, copy |-> b, status |-> st]
               /\ To(row) = IF a = g /\ b = 0 THEN [goal |-> a, copy |-> b, status |-> st] ELSE row
    BY <1>1
  <1>2. ASSUME NEW row \in G
        PROVE  /\ To(row) = [goal |-> To(row).goal, copy |-> To(row).copy, status |-> To(row).status]
               /\ To(To(row)) = To(row)
    <2>1. PICK a, b, c : row = [goal |-> a, copy |-> b, status |-> c]
      BY DEF GoalShaped
    <2>2. CASE a = g /\ b = 0
      <3>1. To(row) = [goal |-> a, copy |-> b, status |-> st]
        BY <1>1, <2>1, <2>2
      <3>2. To(To(row)) = [goal |-> a, copy |-> b, status |-> st]
        BY <1>1, <2>2, <3>1
      <3> HIDE DEF To
      <3> QED BY <3>1, <3>2
    <2>3. CASE ~(a = g /\ b = 0)
      <3>1. To(row) = row
        BY <1>1, <2>1, <2>3
      <3> HIDE DEF To
      <3> QED BY <2>1, <3>1
    <2> QED BY <2>2, <2>3
  <1>3. Marked(G, g, st) = {To(row) : row \in G}
    BY DEF Marked
  <1>4. Marked(Marked(G, g, st), g, st) = {To(row) : row \in Marked(G, g, st)}
    BY DEF Marked
  <1> HIDE DEF To
  <1> QED BY <1>2, <1>3, <1>4 DEF GoalShaped

LEMMA UpdateGoalIs ==
    ASSUME NEW s, NEW p, SameTables(s, p), NEW g, NEW st, NEW lost \in BOOLEAN
    PROVE  Beside(s, p, Ad!SqUpdateGoalStatus(s, g, st), Ad!PgUpdateGoalStatus(p, g, st, lost))
  <1> DEFINE a == Ad!SqUpdateGoalStatus(s, g, st)
             b == Ad!PgUpdateGoalStatus(p, g, st, lost)
             Op(d) == Ad!Did([d EXCEPT !.goals = Marked(d.goals, g, st)], "true")
             X == Marked(p.goals, g, st)
             q == [p EXCEPT !.goals = X]
  <1>1. a.db = [s EXCEPT !.goals = X] /\ a.answer = "true"
    BY DEF Ad!SqUpdateGoalStatus, Ad!Did, Marked, SameTables
  <1>2. GoalShaped(X) /\ Marked(X, g, st) = X
    BY MarkedIs DEF SameTables
  <1>3. b = IF lost THEN Op(Op(p).db) ELSE Op(p)
    BY DEF Ad!PgUpdateGoalStatus, Ad!WithRetry, Marked
  <1>4. Op(p).db = q /\ Op(p).answer = "true"
    BY DEF Ad!Did
  <1>5. IsTables(q) /\ q.goals = X
    <2>1. q = Tab(p.accounts, p.rooms, p.members, p.memories, X, p.bonds)
      BY Put DEF SameTables
    <2> QED BY <2>1, TabIs
  <1>6. Op(q).db = q /\ Op(q).answer = "true"
    <2>1. Op(q).db = [q EXCEPT !.goals = X] /\ Op(q).answer = "true"
      BY <1>2, <1>5 DEF Ad!Did
    <2> HIDE DEF q, X, Op
    <2> QED BY <1>5, <2>1, SameAgain
  <1> HIDE DEF Op, X
  <1>7. b.db = q /\ b.answer = "true"
    BY <1>3, <1>4, <1>6
  <1> QED BY <1>1, <1>2, <1>7, GoalsReplaced

(* Goals that are removed stay removed. *)
LEMMA RemoveGoalsIs ==
    ASSUME NEW s, NEW p, SameTables(s, p), NEW lost \in BOOLEAN
    PROVE  /\ \A g : Beside(s, p, Ad!SqRemoveGoal(s, g), Ad!PgRemoveGoal(p, g, lost))
           /\ \A r : Beside(s, p, Ad!SqRemoveAllGoals(s, r), Ad!PgRemoveAllGoals(p, r, lost))
  <1>1. ASSUME NEW X, X \subseteq p.goals
        PROVE  /\ GoalShaped(X) /\ IsTables([p EXCEPT !.goals = X])
               /\ [p EXCEPT !.goals = X].goals = X
               /\ [[p EXCEPT !.goals = X] EXCEPT !.goals = X] = [p EXCEPT !.goals = X]
    <2> DEFINE q == [p EXCEPT !.goals = X]
    <2>1. GoalShaped(X)
      BY <1>1 DEF SameTables, GoalShaped
    <2>2. IsTables(q) /\ q.goals = X
      <3>1. q = Tab(p.accounts, p.rooms, p.members, p.memories, X, p.bonds)
        BY Put DEF SameTables
      <3> QED BY <3>1, TabIs
    <2> HIDE DEF q
    <2>3. [q EXCEPT !.goals = X] = q
      BY <2>2, SameAgain
    <2> QED BY <2>1, <2>2, <2>3 DEF q
  <1>2. ASSUME NEW g
        PROVE  Beside(s, p, Ad!SqRemoveGoal(s, g), Ad!PgRemoveGoal(p, g, lost))
    <2> DEFINE a == Ad!SqRemoveGoal(s, g)
               b == Ad!PgRemoveGoal(p, g, lost)
               X == p.goals \ {row \in Ad!Twins(p, g) : row.copy = 0}
               q == [p EXCEPT !.goals = X]
               Op(d) == Ad!Did([d EXCEPT !.goals = d.goals \ {row \in Ad!Twins(d, g) : row.copy = 0}],
                               "true")
    <2>1. a.db = [s EXCEPT !.goals = X] /\ a.answer = "true"
      BY DEF Ad!SqRemoveGoal, Ad!Did, Ad!Twins, SameTables
    <2>2. b = IF lost THEN Op(Op(p).db) ELSE Op(p)
      BY DEF Ad!PgRemoveGoal, Ad!WithRetry
    <2>3. q.goals = X
      BY <1>1
    <2>4. X \ {row \in Ad!Twins(q, g) : row.copy = 0} = X
      BY <2>3 DEF Ad!Twins
    <2>5. Op(p).db = q /\ Op(p).answer = "true"
      BY DEF Ad!Did
    <2>6. Op(q).db = [q EXCEPT !.goals = X] /\ Op(q).answer = "true"
      BY <2>3, <2>4 DEF Ad!Did
    <2>7. GoalShaped(X) /\ [q EXCEPT !.goals = X] = q
      BY <1>1
    <2> HIDE DEF Op, X, q
    <2>8. b.db = q /\ b.answer = "true"
      BY <2>2, <2>5, <2>6, <2>7
    <2> QED BY <2>1, <2>7, <2>8, GoalsReplaced DEF q
  <1>3. ASSUME NEW r
        PROVE  Beside(s, p, Ad!SqRemoveAllGoals(s, r), Ad!PgRemoveAllGoals(p, r, lost))
    <2> DEFINE a == Ad!SqRemoveAllGoals(s, r)
               b == Ad!PgRemoveAllGoals(p, r, lost)
               Rest(G) == {row \in G : Aim[row.goal].room # r}
               X == Rest(p.goals)
               q == [p EXCEPT !.goals = X]
               Op(d) == Ad!Did([d EXCEPT !.goals = Rest(d.goals)], "true")
    <2>1. a.db = [s EXCEPT !.goals = X] /\ a.answer = "true"
      BY DEF Ad!SqRemoveAllGoals, Ad!Did, SameTables
    <2>2. b = IF lost THEN Op(Op(p).db) ELSE Op(p)
      BY DEF Ad!PgRemoveAllGoals, Ad!WithRetry
    <2>3. q.goals = X
      BY <1>1
    <2>4. Rest(X) = X
      OBVIOUS
    <2>5. Op(p).db = q /\ Op(p).answer = "true"
      BY DEF Ad!Did
    <2>6. Op(q).db = [q EXCEPT !.goals = X] /\ Op(q).answer = "true"
      BY <2>3, <2>4 DEF Ad!Did
    <2>7. GoalShaped(X) /\ [q EXCEPT !.goals = X] = q
      BY <1>1
    <2> HIDE DEF Op, X, q
    <2>8. b.db = q /\ b.answer = "true"
      BY <2>2, <2>5, <2>6, <2>7
    <2> QED BY <2>1, <2>7, <2>8, GoalsReplaced DEF q
  <1> QED BY <1>2, <1>3

LEMMA SameButMemories ==
    ASSUME NEW s, NEW p, SameTables(s, p), NEW X, NEW Y
    PROVE  LET t == [s EXCEPT !.memories = X]
               q == [p EXCEPT !.memories = Y]
           IN  SameTables(t, q) /\ t.memories = X /\ q.memories = Y
  <1> DEFINE t == [s EXCEPT !.memories = X]
             q == [p EXCEPT !.memories = Y]
  <1>1. /\ t = Tab(s.accounts, s.rooms, s.members, X, s.goals, s.bonds)
        /\ q = Tab(p.accounts, p.rooms, p.members, Y, p.goals, p.bonds)
    BY Put DEF SameTables
  <1> HIDE DEF t, q
  <1>2. /\ IsTables(t) /\ t.accounts = s.accounts /\ t.rooms = s.rooms /\ t.members = s.members
        /\ t.memories = X /\ t.goals = s.goals /\ t.bonds = s.bonds
    BY <1>1, TabIs
  <1>3. /\ IsTables(q) /\ q.accounts = p.accounts /\ q.rooms = p.rooms /\ q.members = p.members
        /\ q.memories = Y /\ q.goals = p.goals /\ q.bonds = p.bonds
    BY <1>1, TabIs
  <1>4. SameTables(t, q)
    BY <1>2, <1>3 DEF SameTables
  <1> QED BY <1>2, <1>3, <1>4 DEF t, q

(* The rows without those whose memory and number are in K. *)
Without(M, K) == {x \in M : <<x.msg, x.copy>> \notin K}

LEMMA Cut ==
    ASSUME NEW S, NEW P, Matched(S, P), NEW K,
           \A m \in Messages : (\E c : <<m, c>> \in K) => adCreating[m] = "no"
    PROVE  Matched(Without(S, K), Without(P, K))
  <1>1. ASSUME NEW M, Memorised(M) PROVE Memorised(Without(M, K))
    <2>1. IsFiniteSet(Without(M, K))
      BY <1>1, FS_Subset DEF Memorised, Without
    <2> QED BY <1>1, <2>1 DEF Memorised, Without
  <1>2. ASSUME NEW M, NEW m
        PROVE  Numbers(Without(M, K), m) = {c \in Numbers(M, m) : <<m, c>> \notin K}
    BY DEF Numbers, Without
  <1>3. ASSUME NEW m \in Messages
        PROVE  IF adCreating[m] = "no" THEN Numbers(Without(S, K), m) = Numbers(Without(P, K), m)
               ELSE /\ Numbers(Without(S, K), m)
                         = Numbers(Without(P, K), m) \cup {NextOf(Numbers(Without(P, K), m))}
                    /\ m \in Named => Numbers(Without(P, K), m) = {}
    <2>1. CASE adCreating[m] = "no"
      BY <1>2, <2>1 DEF Matched
    <2>2. CASE adCreating[m] # "no"
      <3>1. \A c : <<m, c>> \notin K
        BY <2>2
      <3>2. Numbers(Without(S, K), m) = Numbers(S, m) /\ Numbers(Without(P, K), m) = Numbers(P, m)
        BY <1>2, <3>1
      <3> QED BY <2>2, <3>2 DEF Matched
    <2> QED BY <2>1, <2>2
  <1> QED BY <1>1, <1>3 DEF Matched

(* A call that takes memories away. *)
Fewer(s, p, s1, p1) ==
    s1.db.memories \subseteq s.memories /\ p1.db.memories \subseteq p.memories
Agreed(s1, p1) ==
    s1.answer = p1.answer => SameTables(s1.db, p1.db) /\ Matched(s1.db.memories, p1.db.memories)

LEMMA CutBoth ==
    ASSUME NEW s, NEW p, SameTables(s, p), Matched(s.memories, p.memories), NEW K, NEW a, NEW b,
           a.db = [s EXCEPT !.memories = Without(s.memories, K)],
           b.db = [p EXCEPT !.memories = Without(p.memories, K)]
    PROVE  /\ Fewer(s, p, a, b)
           /\ (\A m \in Messages : (\E c : <<m, c>> \in K) => adCreating[m] = "no") => Agreed(a, b)
  <1>1. a.db.memories = Without(s.memories, K) /\ b.db.memories = Without(p.memories, K)
        /\ SameTables(a.db, b.db)
    BY SameButMemories
  <1>2. Fewer(s, p, a, b)
    BY <1>1 DEF Fewer, Without
  <1>3. ASSUME \A m \in Messages : (\E c : <<m, c>> \in K) => adCreating[m] = "no"
        PROVE  Agreed(a, b)
    <2>1. Matched(Without(s.memories, K), Without(p.memories, K))
      BY <1>3, Cut
    <2> QED BY <1>1, <2>1 DEF Agreed
  <1> QED BY <1>2, <1>3

(* On postgres once more, if its answer is lost. *)
LEMMA CutAgain ==
    ASSUME NEW d, IsTables(d), NEW K
    PROVE  LET q == [d EXCEPT !.memories = Without(d.memories, K)]
           IN  /\ q.memories = Without(d.memories, K)
               /\ [q EXCEPT !.memories = Without(q.memories, K)] = q
  <1> DEFINE X == Without(d.memories, K)
             q == [d EXCEPT !.memories = X]
  <1>1. Without(X, K) = X
    BY DEF Without
  <1>2. q.memories = X /\ IsTables(q)
    <2>1. q = Tab(d.accounts, d.rooms, d.members, X, d.goals, d.bonds)
      BY Put
    <2> QED BY <2>1, TabIs
  <1> HIDE DEF X, q
  <1>3. [q EXCEPT !.memories = Without(q.memories, K)] = q
    BY <1>1, <1>2, SameAgain
  <1> QED BY <1>2, <1>3 DEF X, q

LEMMA RemoveMemoryIs ==
    ASSUME NEW s, NEW p, SameTables(s, p), Matched(s.memories, p.memories), NEW m \in Messages,
           NEW lost \in BOOLEAN
    PROVE  LET a == Ad!SqRemoveMemory(s, m)
               b == Ad!PgRemoveMemory(p, m, lost)
           IN  Fewer(s, p, a, b) /\ (adCreating[m] = "no" => Agreed(a, b))
  <1> DEFINE a == Ad!SqRemoveMemory(s, m)
             b == Ad!PgRemoveMemory(p, m, lost)
             K == {<<m, 0>>}
             Op(d) == Ad!Did([d EXCEPT !.memories = Without(d.memories, K)], "true")
             q == [p EXCEPT !.memories = Without(p.memories, K)]
  <1>1. \A d : d.memories \ {row \in Ad!Copies(d, m) : row.copy = 0} = Without(d.memories, K)
    BY DEF Ad!Copies, Without
  <1>2. a.db = [s EXCEPT !.memories = Without(s.memories, K)]
    BY <1>1 DEF Ad!SqRemoveMemory, Ad!Did
  <1>3. b = IF lost THEN Op(Op(p).db) ELSE Op(p)
    BY <1>1 DEF Ad!PgRemoveMemory, Ad!WithRetry
  <1>4. Op(p).db = q
    BY DEF Ad!Did
  <1>5. Op(q).db = q
    BY CutAgain DEF Ad!Did, SameTables
  <1> HIDE DEF Op
  <1>6. b.db = q
    BY <1>3, <1>4, <1>5
  <1>7. adCreating[m] = "no" => \A n \in Messages : (\E c : <<n, c>> \in K) => adCreating[n] = "no"
    OBVIOUS
  <1> HIDE DEF K
  <1> QED BY <1>2, <1>6, <1>7, CutBoth

InRoomKeys(r) == {k \in Messages \X Nat : About[k[1]].room = r}

LEMMA RoomCut ==
    ASSUME NEW d, Memorised(d.memories), NEW r
    PROVE  d.memories \ Ad!InRoom(d, r) = Without(d.memories, InRoomKeys(r))
  BY DEF Ad!InRoom, Without, InRoomKeys, Memorised, MemoryRecords

LEMMA RoomFree ==
    ASSUME NEW r, ~Ad!Pending(r)
    PROVE  \A m \in Messages : (\E c : <<m, c>> \in InRoomKeys(r)) => adCreating[m] = "no"
  BY DEF InRoomKeys, Ad!Pending

LEMMA RemoveAllMemoriesIs ==
    ASSUME NEW s, NEW p, SameTables(s, p), Matched(s.memories, p.memories), NEW r,
           NEW lost \in BOOLEAN
    PROVE  LET a == Ad!SqRemoveAllMemories(s, r)
               b == Ad!PgRemoveAllMemories(p, r, lost)
           IN  Fewer(s, p, a, b) /\ (~Ad!Pending(r) => Agreed(a, b))
  <1> DEFINE a == Ad!SqRemoveAllMemories(s, r)
             b == Ad!PgRemoveAllMemories(p, r, lost)
             K == InRoomKeys(r)
             Op(d) == Ad!Did([d EXCEPT !.memories = d.memories \ Ad!InRoom(d, r)], "true")
             q == [p EXCEPT !.memories = Without(p.memories, K)]
  <1>1. a.db = [s EXCEPT !.memories = Without(s.memories, K)]
    BY RoomCut DEF Ad!SqRemoveAllMemories, Ad!Did, Matched
  <1>2. b = IF lost THEN Op(Op(p).db) ELSE Op(p)
    BY DEF Ad!PgRemoveAllMemories, Ad!WithRetry
  <1>3. Op(p).db = q
    BY RoomCut DEF Ad!Did, Matched
  <1>4. q.memories = Without(p.memories, K) /\ [q EXCEPT !.memories = Without(q.memories, K)] = q
    BY CutAgain DEF SameTables
  <1>5. Memorised(q.memories)
    <2>1. Memorised(p.memories)
      BY DEF Matched
    <2>2. q.memories \subseteq p.memories
      BY <1>4 DEF Without
    <2>3. IsFiniteSet(q.memories)
      BY <2>1, <2>2, FS_Subset DEF Memorised
    <2> QED BY <2>1, <2>2, <2>3 DEF Memorised
  <1>6. Op(q).db = q
    <2>1. q.memories \ Ad!InRoom(q, r) = Without(q.memories, K)
      BY <1>5, RoomCut
    <2> QED BY <1>4, <2>1 DEF Ad!Did
  <1> HIDE DEF Op, q
  <1>7. b.db = q
    BY <1>2, <1>3, <1>6
  <1>8. ~Ad!Pending(r) => \A m \in Messages : (\E c : <<m, c>> \in K) => adCreating[m] = "no"
    BY RoomFree
  <1>9. b.db = [p EXCEPT !.memories = Without(p.memories, K)]
    BY <1>7 DEF q
  <1> HIDE DEF K
  <1> QED BY <1>1, <1>8, <1>9, CutBoth

EmptiedAs(e, d, r) ==
    /\ IsTables(e) /\ e.accounts = d.accounts /\ e.rooms = d.rooms /\ e.bonds = d.bonds
    /\ e.memories = d.memories \ Ad!InRoom(d, r)
    /\ e.goals = {row \in d.goals : Aim[row.goal].room # r}
    /\ e.members = [k \in Users \X Rooms |-> IF k[2] = r THEN <<>> ELSE d.members[k]]

LEMMA EmptiedIs ==
    ASSUME NEW d, IsTables(d), NEW r
    PROVE  EmptiedAs(Ad!Emptied(d, r), d, r)
  <1>1. ASSUME NEW X, NEW Y, NEW Z
        PROVE  [d EXCEPT !.memories = X, !.goals = Y, !.members = Z]
                 = Tab(d.accounts, d.rooms, Z, X, Y, d.bonds)
    <2> DEFINE f == [d EXCEPT !.memories = X]
               g == [f EXCEPT !.goals = Y]
    <2>1. [d EXCEPT !.memories = X, !.goals = Y, !.members = Z] = [g EXCEPT !.members = Z]
      BY Zenon
    <2>2. f = Tab(d.accounts, d.rooms, d.members, X, d.goals, d.bonds)
      BY Put
    <2> HIDE DEF f
    <2>3. g = Tab(d.accounts, d.rooms, d.members, X, Y, d.bonds)
      BY <2>2 DEF Tab
    <2> HIDE DEF g
    <2>4. [g EXCEPT !.members = Z] = Tab(d.accounts, d.rooms, Z, X, Y, d.bonds)
      BY <2>3 DEF Tab
    <2> QED BY <2>1, <2>4
  <1> DEFINE X == d.memories \ Ad!InRoom(d, r)
             Y == {row \in d.goals : Aim[row.goal].room # r}
             Z == [k \in Users \X Rooms |-> IF k[2] = r THEN <<>> ELSE d.members[k]]
  <1>2. Ad!Emptied(d, r) = [d EXCEPT !.memories = X, !.goals = Y, !.members = Z]
    BY DEF Ad!Emptied, Ad!Pairs
  <1> HIDE DEF X, Y, Z
  <1>3. Ad!Emptied(d, r) = Tab(d.accounts, d.rooms, Z, X, Y, d.bonds)
    BY <1>1, <1>2
  <1> QED BY <1>3, TabIs DEF X, Y, Z, EmptiedAs

(* A room without rows is removed alike.  In one with rows postgres has    *)
(* more to remove, and the two part.                                       *)
LEMMA RemoveRoomIs ==
    ASSUME NEW r \in Rooms, NEW lost \in BOOLEAN,
           SameTables(adSq, adPg), Matched(adSq.memories, adPg.memories)
    PROVE  LET a == Ad!SqRemoveRoom(adSq, r)
               b == Ad!PgRemoveRoom(adPg, r, lost)
           IN  /\ Fewer(adSq, adPg, a, b)
               /\ ~Ad!InUse(r) /\ ~Ad!Pending(r) => Agreed(a, b)
  <1> DEFINE a == Ad!SqRemoveRoom(adSq, r)
             b == Ad!PgRemoveRoom(adPg, r, lost)
  <1>0. PICK e : e = Ad!Emptied(adPg, r)
    OBVIOUS
  <1> DEFINE q == [e EXCEPT !.rooms = e.rooms \ {r}]
             t == [adSq EXCEPT !.rooms = adSq.rooms \ {r}]
  <1>1. a.db = t /\ a.answer = "true"
    BY DEF Ad!SqRemoveRoom, Ad!Did
  <1>2. IsTables(adSq) /\ IsTables(adPg)
    BY DEF SameTables
  <1>3. /\ IsTables(e) /\ e.accounts = adPg.accounts /\ e.rooms = adPg.rooms /\ e.bonds = adPg.bonds
        /\ e.memories = adPg.memories \ Ad!InRoom(adPg, r)
        /\ e.goals = {row \in adPg.goals : Aim[row.goal].room # r}
        /\ e.members = [k \in Users \X Rooms |-> IF k[2] = r THEN <<>> ELSE adPg.members[k]]
    <2>1. EmptiedAs(e, adPg, r)
      BY <1>0, <1>2, EmptiedIs
    <2> QED BY <2>1 DEF EmptiedAs
  <1>4. b.db = IF r \in adPg.rooms THEN q ELSE adPg
    <2> DEFINE Op(d) == Ad!If(r \in d.rooms, d,
                              [Ad!Emptied(d, r) EXCEPT !.rooms = Ad!Emptied(d, r).rooms \ {r}], "true")
    <2>1. b = IF lost THEN Op(Op(adPg).db) ELSE Op(adPg)
      BY DEF Ad!PgRemoveRoom, Ad!WithRetry
    <2>2. Op(adPg).db = IF r \in adPg.rooms THEN q ELSE adPg
      BY <1>0 DEF Ad!If, Ad!Did
    <2>3. r \notin q.rooms
      <3>1. q = Tab(e.accounts, e.rooms \ {r}, e.members, e.memories, e.goals, e.bonds)
        BY <1>3, Put
      <3> QED BY <3>1, TabIs
    <2>4. Op(Op(adPg).db).db = Op(adPg).db
      BY <2>2, <2>3 DEF Ad!If, Ad!Did
    <2> HIDE DEF Op
    <2> QED BY <2>1, <2>2, <2>4
  <1>5. b.answer = "true" => r \in adPg.rooms
    <2> DEFINE Op(d) == Ad!If(r \in d.rooms, d,
                              [Ad!Emptied(d, r) EXCEPT !.rooms = Ad!Emptied(d, r).rooms \ {r}], "true")
    <2>1. b = IF lost THEN Op(Op(adPg).db) ELSE Op(adPg)
      BY DEF Ad!PgRemoveRoom, Ad!WithRetry
    <2>2. r \notin adPg.rooms => Op(adPg) = Ad!Did(adPg, "throws") /\ Op(adPg).db = adPg
      BY DEF Ad!If, Ad!Did
    <2>3. Ad!Did(adPg, "throws").answer = "throws"
      BY DEF Ad!Did
    <2> HIDE DEF Op
    <2> QED BY <2>1, <2>2, <2>3
  <1> HIDE DEF a, b
  <1>6. /\ IsTables(q) /\ q.accounts = adPg.accounts /\ q.rooms = adPg.rooms \ {r}
        /\ q.members = e.members /\ q.memories = e.memories /\ q.goals = e.goals
        /\ q.bonds = adPg.bonds
    <2>1. q = Tab(e.accounts, e.rooms \ {r}, e.members, e.memories, e.goals, e.bonds)
      BY <1>3, Put
    <2> HIDE DEF q
    <2> QED BY <1>3, <2>1, TabIs
  <1>7. /\ IsTables(t) /\ t.accounts = adSq.accounts /\ t.rooms = adSq.rooms \ {r}
        /\ t.members = adSq.members /\ t.memories = adSq.memories /\ t.goals = adSq.goals
        /\ t.bonds = adSq.bonds
    <2>1. t = Tab(adSq.accounts, adSq.rooms \ {r}, adSq.members, adSq.memories, adSq.goals, adSq.bonds)
      BY <1>2, Put
    <2> HIDE DEF t
    <2> QED BY <2>1, TabIs
  <1> HIDE DEF q, t
  <1>8. Fewer(adSq, adPg, a, b)
    BY <1>1, <1>3, <1>4, <1>6, <1>7 DEF Fewer
  <1>9. ASSUME ~Ad!InUse(r), ~Ad!Pending(r) PROVE Agreed(a, b)
    <2>1. CASE r \notin adPg.rooms
      BY <1>1, <1>5, <2>1 DEF Agreed
    <2>2. CASE r \in adPg.rooms
      <3>1. Ad!InRoom(adSq, r) = {} /\ (\A g \in adSq.goals : Aim[g.goal].room # r)
            /\ \A u \in Users : adSq.members[<<u, r>>] = <<>>
        BY <1>9 DEF Ad!InUse
      <3>2. Ad!InRoom(adPg, r) = {}
        <4>1. ASSUME NEW row \in Ad!InRoom(adPg, r) PROVE FALSE
          <5> DEFINE m == row.msg
          <5>1. row \in adPg.memories /\ m \in Messages /\ About[m].room = r
            BY <4>1 DEF Ad!InRoom, Matched, Memorised, MemoryRecords
          <5>2. adCreating[m] = "no"
            BY <1>9, <5>1 DEF Ad!Pending
          <5>3. row.copy \in Numbers(adPg.memories, m)
            BY <5>1 DEF Numbers
          <5>4. row.copy \in Numbers(adSq.memories, m)
            BY <5>1, <5>2, <5>3 DEF Matched
          <5>5. \E x \in adSq.memories : x.msg = m
            BY <5>4 DEF Numbers
          <5> QED BY <3>1, <5>1, <5>5 DEF Ad!InRoom
        <4> QED BY <4>1
      <3>3. q.memories = adPg.memories
        BY <1>3, <1>6, <3>2
      <3>4. q.goals = adPg.goals
        BY <1>3, <1>6, <3>1 DEF SameTables
      <3>5. q.members = adPg.members
        <4>1. adSq.members = adPg.members /\ adPg.members \in Memberships
          BY DEF SameTables
        <4>2. ASSUME NEW k \in Users \X Rooms, k[2] = r PROVE adPg.members[k] = <<>>
          <5>1. k = <<k[1], r>> /\ k[1] \in Users
            BY <4>2
          <5> QED BY <3>1, <4>1, <5>1
        <4>3. [k \in Users \X Rooms |-> IF k[2] = r THEN <<>> ELSE adPg.members[k]]
                = [k \in Users \X Rooms |-> adPg.members[k]]
          BY <4>2
        <4> QED BY <1>3, <1>6, <4>1, <4>3 DEF Memberships
      <3>6. SameTables(t, q)
        BY <1>6, <1>7, <3>4, <3>5 DEF SameTables
      <3>7. a.db = t /\ b.db = q
        BY <1>1, <1>4, <2>2
      <3> QED BY <1>7, <3>3, <3>6, <3>7 DEF Agreed
    <2> QED BY <2>1, <2>2
  <1> QED BY <1>8, <1>9 DEF a, b

(* A new row of m, whose number is free. *)
LEMMA Gains ==
    ASSUME NEW M, Memorised(M), NEW m \in Messages, NEW q \in BOOLEAN,
           m \in Named => Numbers(M, m) = {}, NEW x,
           x = [msg |-> m, copy |-> NextOf(Numbers(M, m)), unique |-> q]
    PROVE  /\ Memorised(M \cup {x})
           /\ Numbers(M \cup {x}, m) = Numbers(M, m) \cup {NextOf(Numbers(M, m))}
           /\ \A n : n # m => Numbers(M \cup {x}, n) = Numbers(M, n)
  <1> DEFINE c == NextOf(Numbers(M, m))
  <1>1. c \in Nat /\ c \notin Numbers(M, m)
    BY NumbersAre
  <1>2. m \in Named => c = 0
    <2>1. Ad!Cardinality({}) = 0
      BY CountIs, FS_EmptySet
    <2>2. NextOf({}) = CHOOSE n \in 0 .. 0 : n \notin {}
      BY <2>1, Zenon DEF NextOf
    <2>3. \E n \in 0 .. 0 : n \notin {}
      OBVIOUS
    <2>4. NextOf({}) \in 0 .. 0
      BY <2>2, <2>3
    <2> QED BY <2>4
  <1> HIDE DEF c
  <1>3. x = [msg |-> m, copy |-> c, unique |-> q]
    BY DEF c
  <1>4. x \in MemoryRecords /\ x.msg = m /\ x.copy = c
    BY <1>1, <1>3 DEF MemoryRecords
  <1>5. \A y \in M : y.msg = m => y.copy # c
    BY <1>1 DEF Numbers
  <1>6. IsFiniteSet(M \cup {x})
    BY FS_AddElement DEF Memorised
  <1>7. M \cup {x} \in SUBSET MemoryRecords
    BY <1>4 DEF Memorised
  <1>8. \A y, z \in M \cup {x} : y.msg = z.msg /\ y.copy = z.copy => y = z
    BY <1>4, <1>5 DEF Memorised
  <1>9. \A y \in M \cup {x} : y.msg \in Named => y.copy = 0
    BY <1>2, <1>4 DEF Memorised
  <1>10. Memorised(M \cup {x})
    BY <1>6, <1>7, <1>8, <1>9 DEF Memorised
  <1>11. Numbers(M \cup {x}, m) = Numbers(M, m) \cup {c}
    BY <1>4 DEF Numbers
  <1>12. \A n : n # m => Numbers(M \cup {x}, n) = Numbers(M, n)
    BY <1>4 DEF Numbers
  <1> QED BY <1>10, <1>11, <1>12 DEF c

LEMMA CreateMemoryIs ==
    ASSUME AdaptersInv, ~adParted, NEW m \in Messages, Ad!CreateMemory(m)
    PROVE  AdaptersInv'
  <1> DEFINE S == adSq.memories
             P == adPg.memories
             skips == m \in Named /\ 0 \in Numbers(S, m)
             refused == m \in Vectored /\ ~Ad!SqSearchable(adSq, About[m].room)
             x == Ad!MemoryRow(adSq, m, Ad!SqIsUnique(adSq, m))
             did == IF skips THEN Ad!Did(adSq, "true")
                    ELSE Ad!SqCreateMemory(adSq, m, Ad!SqIsUnique(adSq, m))
  <1>1. /\ adCreating[m] = "no" /\ adPg' = adPg
        /\ adOverlaps' = adOverlaps \cup {{m, n} : n \in {n \in Messages : adCreating[n] # "no"}}
    BY DEF Ad!CreateMemory
  <1>2. SameTables(adSq, adPg) /\ Matched(S, P) /\ adCreating \in Creation
    BY DEF AdaptersInv
  <1>3. Numbers(S, m) = Numbers(P, m)
    BY <1>1, <1>2 DEF Matched
  <1>4. \A d : (\E row \in Ad!Copies(d, m) : row.copy = 0) <=> 0 \in Numbers(d.memories, m)
    BY DEF Ad!Copies, Numbers
  <1>5. Ad!Skips(Ad!SqGetMemoryById(adSq, m), m) <=> skips
    BY <1>4 DEF Ad!Skips, Ad!SqGetMemoryById
  <1>6. Ad!Skips(Ad!PgGetMemoryById(adPg, m), m) <=> skips
    BY <1>3, <1>4 DEF Ad!Skips, Ad!PgGetMemoryById
  <1>7. /\ adCreating' = [adCreating EXCEPT ![m] = IF skips THEN "no" ELSE "looked"]
        /\ adSq' = did.db /\ adParted' = (did.answer = "throws")
    BY <1>5, <1>6 DEF Ad!CreateMemory
  <1>8. adOverlaps \subseteq adOverlaps'
    BY <1>1
  <1>9. \A n \in Messages : adCreating'[n] = IF n = m THEN (IF skips THEN "no" ELSE "looked")
                                             ELSE adCreating[n]
    BY <1>2, <1>7 DEF Creation
  <1>10. adCreating' \in Creation /\ adParted' \in BOOLEAN
    BY <1>2, <1>7 DEF Creation
  <1>11. (\A k, n \in Messages : k # n /\ adCreating[k] # "no" /\ adCreating[n] # "no"
                                   => {k, n} \in adOverlaps)'
    <2>1. ASSUME NEW k \in Messages, NEW n \in Messages, k # n, adCreating'[k] # "no",
                 adCreating'[n] # "no"
          PROVE  {k, n} \in adOverlaps'
      <3>1. CASE k = m
        BY <1>1, <1>9, <2>1, <3>1
      <3>2. CASE n = m
        <4>1. {m, k} \in adOverlaps'
          BY <1>1, <1>9, <2>1, <3>2
        <4>2. {k, n} = {m, k}
          BY <3>2
        <4> QED BY <4>1, <4>2
      <3>3. CASE k # m /\ n # m
        BY <1>8, <1>9, <2>1, <3>3 DEF AdaptersInv
      <3> QED BY <3>1, <3>2, <3>3
    <2> QED BY <2>1
  <1>12. (\A n \in Messages : adCreating[n] = "unique" =>
            \A row \in adPg.memories : row.unique /\ Ad!Similar(row.msg, n) => {row.msg, n} \in adOverlaps)'
    BY <1>1, <1>8, <1>9 DEF AdaptersInv, Ad!Similar
  <1>13. CASE skips
    <2>1. adSq' = adSq /\ adCreating' = adCreating
      BY <1>1, <1>2, <1>7, <1>13 DEF Creation, Ad!Did
    <2>2. Ad!UniqueRowsDiffer'
      BY <1>1, <1>8, <2>1 DEF AdaptersInv, Ad!UniqueRowsDiffer, Ad!Similar
    <2>3. SameTables(adSq, adPg)' /\ Matched(adSq.memories, adPg.memories)'
      BY <1>1, <1>2, <2>1 DEF SameTables, Matched, IsTables
    <2> QED BY <1>10, <1>11, <1>12, <2>2, <2>3 DEF AdaptersInv
  <1>15. CASE ~skips /\ refused
    <2>1. did.db = adSq /\ did.answer = "throws"
      BY <1>15 DEF Ad!SqCreateMemory, Ad!Did
    <2>2. adSq' = adSq /\ adParted' = TRUE
      <3> HIDE DEF did
      <3> QED BY <1>7, <2>1
    <2>3. Ad!UniqueRowsDiffer'
      BY <1>1, <1>8, <2>2 DEF AdaptersInv, Ad!UniqueRowsDiffer, Ad!Similar
    <2> QED BY <1>10, <1>11, <1>12, <2>2, <2>3 DEF AdaptersInv
  <1>14. CASE ~skips /\ ~refused
    <2>1. m \in Named => Numbers(S, m) = {}
      BY <1>2, <1>14 DEF Matched, Memorised, Numbers
    <2>2. adSq' = [adSq EXCEPT !.memories = S \cup {x}]
      <3> DEFINE replaced == IF m \in Named THEN Ad!Copies(adSq, m) ELSE {}
                 rest == [adSq EXCEPT !.memories = S \ replaced]
      <3>1. replaced = {}
        BY <2>1 DEF Ad!Copies, Numbers
      <3>2. S \ replaced = S
        BY <3>1
      <3>3. rest = adSq
        BY <1>2, <3>2, SameAgain DEF SameTables
      <3>4. Ad!SqCreateMemory(adSq, m, Ad!SqIsUnique(adSq, m)).db
              = [rest EXCEPT !.memories
                   = rest.memories \cup {Ad!MemoryRow(rest, m, Ad!SqIsUnique(adSq, m))}]
        BY <1>14 DEF Ad!SqCreateMemory, Ad!Did
      <3> QED BY <1>7, <1>14, <3>3, <3>4
    <2>3. x = [msg |-> m, copy |-> NextOf(Numbers(S, m)), unique |-> Ad!SqIsUnique(adSq, m)]
      BY FreshIs
    <2>4. Ad!SqIsUnique(adSq, m) \in BOOLEAN
      BY DEF Ad!SqIsUnique
    <2> DEFINE T == S \cup {x}
    <2>5. /\ Memorised(T) /\ Numbers(T, m) = Numbers(S, m) \cup {NextOf(Numbers(S, m))}
          /\ \A n : n # m => Numbers(T, n) = Numbers(S, n)
      BY <1>2, <2>1, <2>3, <2>4, Gains DEF Matched
    <2>6. adPg = [adPg EXCEPT !.memories = P]
      BY <1>2, SameAgain DEF SameTables
    <2>7. SameTables(adSq', adPg') /\ adSq'.memories = T /\ adPg'.memories = P
      BY <1>1, <1>2, <2>2, <2>6, SameButMemories
    <2>8. Matched(adSq.memories, adPg.memories)'
      <3>1. Memorised(T) /\ Memorised(P)
        BY <1>2, <2>5 DEF Matched
      <3>2. \A n \in Messages :
              IF adCreating'[n] = "no" THEN Numbers(T, n) = Numbers(P, n)
              ELSE /\ Numbers(T, n) = Numbers(P, n) \cup {NextOf(Numbers(P, n))}
                   /\ n \in Named => Numbers(P, n) = {}
        <4>1. ASSUME NEW n \in Messages, n # m
              PROVE  IF adCreating'[n] = "no" THEN Numbers(T, n) = Numbers(P, n)
                     ELSE /\ Numbers(T, n) = Numbers(P, n) \cup {NextOf(Numbers(P, n))}
                          /\ n \in Named => Numbers(P, n) = {}
          <5>1. Numbers(T, n) = Numbers(S, n) /\ adCreating'[n] = adCreating[n]
            BY <1>9, <2>5, <4>1
          <5> HIDE DEF T, S, P
          <5> QED BY <1>2, <5>1 DEF Matched
        <4>2. /\ adCreating'[m] = "looked"
              /\ Numbers(T, m) = Numbers(P, m) \cup {NextOf(Numbers(P, m))}
              /\ m \in Named => Numbers(P, m) = {}
          BY <1>3, <1>9, <1>14, <2>1, <2>5
        <4> QED BY <4>1, <4>2
      <3> QED BY <2>7, <3>1, <3>2 DEF Matched
    <2>9. Ad!UniqueRowsDiffer'
      <3>1. \A y, z \in adPg'.memories :
              y # z /\ y.unique /\ z.unique /\ Ad!Similar(y.msg, z.msg) => {y.msg, z.msg} \in adOverlaps'
        BY <1>1, <1>8 DEF AdaptersInv, Ad!UniqueRowsDiffer
      <3>2. \A y, z \in T : y # z /\ y.unique /\ z.unique => ~Ad!Similar(y.msg, z.msg)
        <4>1. x.msg = m /\ (x.unique /\ m \in Vectored => Ad!InRoom(adSq, About[m].room) = {})
          <5>1. x.msg = m /\ x.unique = Ad!SqIsUnique(adSq, m)
            BY <2>3
          <5> QED BY <5>1 DEF Ad!SqIsUnique
        <4>2. \A y \in S : x.unique => ~Ad!Similar(y.msg, m) /\ ~Ad!Similar(m, y.msg)
          BY <4>1 DEF Ad!InRoom, Ad!Similar
        <4>3. \A y, z \in S : y # z /\ y.unique /\ z.unique => ~Ad!Similar(y.msg, z.msg)
          BY DEF AdaptersInv, Ad!UniqueRowsDiffer
        <4> HIDE DEF x, S
        <4> QED BY <4>1, <4>2, <4>3
      <3> QED BY <2>7, <3>1, <3>2 DEF Ad!UniqueRowsDiffer, Ad!Similar
    <2>10. SameTables(adSq, adPg)'
      BY <2>7 DEF SameTables, IsTables
    <2> QED BY <1>10, <1>11, <1>12, <2>8, <2>9, <2>10 DEF AdaptersInv
  <1> QED BY <1>13, <1>14, <1>15

LEMMA SearchSimilarIs ==
    ASSUME AdaptersInv, ~adParted, NEW m \in Messages, Ad!SearchSimilar(m)
    PROVE  AdaptersInv'
  <1> DEFINE found == Ad!PgIsUnique(adPg, m)
  <1>1. /\ adCreating[m] = "looked" /\ UNCHANGED <<adSq, adPg, adOverlaps, adParted>>
        /\ adCreating' = [adCreating EXCEPT ![m] = IF found THEN "unique" ELSE "copy"]
    BY DEF Ad!SearchSimilar
  <1>2. adCreating \in Creation
    BY DEF AdaptersInv
  <1>3. \A n \in Messages : adCreating'[n] = IF n = m THEN (IF found THEN "unique" ELSE "copy")
                                             ELSE adCreating[n]
    BY <1>1, <1>2 DEF Creation
  <1>4. adCreating' \in Creation /\ adParted' \in BOOLEAN
    BY <1>1, <1>2 DEF Creation, AdaptersInv
  <1>5. (\A k, n \in Messages : k # n /\ adCreating[k] # "no" /\ adCreating[n] # "no"
                                  => {k, n} \in adOverlaps)'
    BY <1>1, <1>3 DEF AdaptersInv
  <1>6. (\A n \in Messages : adCreating[n] = "unique" =>
           \A row \in adPg.memories : row.unique /\ Ad!Similar(row.msg, n) => {row.msg, n} \in adOverlaps)'
    <2>1. ASSUME NEW n \in Messages, adCreating'[n] = "unique", NEW row \in adPg.memories,
                 row.unique, Ad!Similar(row.msg, n)
          PROVE  {row.msg, n} \in adOverlaps
      <3>1. CASE n = m
        <4>1. m \in Vectored
          BY <2>1, <3>1 DEF Ad!Similar
        <4> QED BY <1>3, <2>1, <3>1, <4>1 DEF Ad!PgIsUnique
      <3>2. CASE n # m
        BY <1>3, <2>1, <3>2 DEF AdaptersInv
      <3> QED BY <3>1, <3>2
    <2> QED BY <1>1, <2>1 DEF Ad!Similar
  <1>7. Ad!UniqueRowsDiffer'
    BY <1>1 DEF AdaptersInv, Ad!UniqueRowsDiffer, Ad!Similar
  <1>8. SameTables(adSq, adPg)' /\ Matched(adSq.memories, adPg.memories)'
    <2>1. SameTables(adSq, adPg) /\ Matched(adSq.memories, adPg.memories)
      BY DEF AdaptersInv
    <2>2. \A n \in Messages : adCreating'[n] = "no" <=> adCreating[n] = "no"
      BY <1>1, <1>3
    <2> QED BY <1>1, <2>1, <2>2 DEF SameTables, Matched, IsTables
  <1> QED BY <1>4, <1>5, <1>6, <1>7, <1>8 DEF AdaptersInv

(* The insertion on postgres, and what comes of trying it again. *)
Insertable(d, m) == Ad!Known(d, About[m]) /\ ~(m \in Named /\ Ad!Copies(d, m) # {})
Inserted(d, m, q) == [d EXCEPT !.memories = d.memories \cup {Ad!MemoryRow(d, m, q)}]

InsertedAs(b, d, m, q, lost) ==
    /\ ~Insertable(d, m) => b.db = d /\ b.answer = "throws"
    /\ Insertable(d, m) /\ ~lost => b.db = Inserted(d, m, q) /\ b.answer = "true"
    /\ Insertable(d, m) => \E y : /\ (m \in Vectored => y.unique = FALSE) /\ y.msg = m
                                  /\ d.memories \subseteq b.db.memories
                                  /\ b.db.memories \subseteq d.memories \cup {Ad!MemoryRow(d, m, q), y}

LEMMA InsertIs ==
    ASSUME NEW d, IsTables(d), NEW m, NEW q, NEW lost \in BOOLEAN
    PROVE  InsertedAs(Ad!PgCreateMemory(d, m, q, lost), d, m, q, lost)
  <1> DEFINE b == Ad!PgCreateMemory(d, m, q, lost)
             Insert(f, z) == Ad!If(Insertable(f, m), f, Inserted(f, m, z), "true")
             e == Inserted(d, m, q)
             x == Ad!MemoryRow(d, m, q)
             again == Ad!PgIsUnique(e, m)
             y == Ad!MemoryRow(e, m, again)
  <1>1. b = IF lost THEN Insert(Insert(d, q).db, Ad!PgIsUnique(Insert(d, q).db, m)) ELSE Insert(d, q)
    BY DEF Ad!PgCreateMemory, Insertable, Inserted
  <1>2. \A f, z : /\ Insert(f, z).db = IF Insertable(f, m) THEN Inserted(f, m, z) ELSE f
                  /\ Insert(f, z).answer = IF Insertable(f, m) THEN "true" ELSE "throws"
    BY DEF Ad!If, Ad!Did
  <1>3. x.msg = m /\ y.msg = m /\ y.unique = again
    BY FreshIs
  <1>4. ASSUME NEW f, NEW z, IsTables(f)
        PROVE  /\ IsTables(Inserted(f, m, z))
               /\ Inserted(f, m, z).memories = f.memories \cup {Ad!MemoryRow(f, m, z)}
    <2> DEFINE X == f.memories \cup {Ad!MemoryRow(f, m, z)}
    <2>1. Inserted(f, m, z) = [f EXCEPT !.memories = X]
      BY DEF Inserted
    <2> HIDE DEF X
    <2>2. Inserted(f, m, z) = Tab(f.accounts, f.rooms, f.members, X, f.goals, f.bonds)
      BY <1>4, <2>1, Put
    <2> QED BY <2>2, TabIs DEF X
  <1>5. e.memories = d.memories \cup {x} /\ IsTables(e)
    BY <1>4
  <1>6. m \in Vectored => again = FALSE
    <2>1. x \in e.memories /\ (m \in Vectored => Ad!Similar(x.msg, m))
      BY <1>3, <1>5 DEF Ad!Similar
    <2> QED BY <2>1 DEF Ad!PgIsUnique
  <1>7. Inserted(e, m, again).memories = d.memories \cup {x} \cup {y}
    BY <1>4, <1>5
  <1>11. again = Ad!PgIsUnique(e, m) /\ (m \in Vectored => y.unique = FALSE)
    BY <1>3, <1>6
  <1> HIDE DEF Insert, e, x, y, b, again
  <1>8. CASE ~Insertable(d, m)
    <2>1. Insert(d, q).db = d /\ Insert(d, q).answer = "throws"
      BY <1>2, <1>8
    <2>2. b.db = d /\ b.answer = "throws"
      BY <1>1, <1>2, <1>8, <2>1
    <2> QED BY <1>8, <2>2 DEF InsertedAs, b
  <1>9. CASE Insertable(d, m) /\ ~lost
    <2>1. b.db = e /\ b.answer = "true"
      BY <1>1, <1>2, <1>9 DEF e
    <2>2. /\ (m \in Vectored => y.unique = FALSE) /\ y.msg = m /\ d.memories \subseteq b.db.memories
          /\ b.db.memories \subseteq d.memories \cup {x, y}
      BY <1>3, <1>5, <1>11, <2>1
    <2> QED BY <1>9, <2>1, <2>2 DEF InsertedAs, b, x, e
  <1>10. CASE Insertable(d, m) /\ lost
    <2>1. Insert(d, q).db = e
      BY <1>2, <1>10 DEF e
    <2>2. b.db = IF Insertable(e, m) THEN Inserted(e, m, again) ELSE e
      <3>1. b = Insert(e, again)
        BY <1>1, <1>10, <1>11, <2>1
      <3> QED BY <1>2, <3>1
    <2>3. /\ (m \in Vectored => y.unique = FALSE) /\ y.msg = m /\ d.memories \subseteq b.db.memories
          /\ b.db.memories \subseteq d.memories \cup {x, y}
      BY <1>3, <1>5, <1>7, <1>11, <2>2
    <2> QED BY <1>10, <2>3 DEF InsertedAs, b, x
  <1> QED BY <1>8, <1>9, <1>10

LEMMA InsertMemoryIs ==
    ASSUME AdaptersInv, ~adParted, NEW m \in Messages, NEW lost \in BOOLEAN,
           Ad!InsertMemory(m, lost)
    PROVE  AdaptersInv'
  <1> DEFINE S == adSq.memories
             P == adPg.memories
             q == adCreating[m] = "unique"
             b == Ad!PgCreateMemory(adPg, m, q, lost)
             x == Ad!MemoryRow(adPg, m, q)
  <1>1. /\ adCreating[m] \in {"unique", "copy"} /\ adSq' = adSq /\ adOverlaps' = adOverlaps
        /\ adPg' = b.db /\ adParted' = (lost \/ b.answer = "throws")
        /\ adCreating' = [adCreating EXCEPT ![m] = "no"]
    BY DEF Ad!InsertMemory
  <1>2. SameTables(adSq, adPg) /\ Matched(S, P) /\ adCreating \in Creation
    BY DEF AdaptersInv
  <1>3. IsTables(adPg)
    BY <1>2 DEF SameTables
  <1>0. InsertedAs(b, adPg, m, q, lost)
    BY <1>3, InsertIs
  <1>4. \A n \in Messages : adCreating'[n] = IF n = m THEN "no" ELSE adCreating[n]
    BY <1>1, <1>2 DEF Creation
  <1>5. adCreating' \in Creation /\ adParted' \in BOOLEAN
    BY <1>1, <1>2 DEF Creation
  <1>6. (\A k, n \in Messages : k # n /\ adCreating[k] # "no" /\ adCreating[n] # "no"
                                  => {k, n} \in adOverlaps)'
    BY <1>1, <1>4 DEF AdaptersInv
  <1>7. \E y : /\ (m \in Vectored => y.unique = FALSE) /\ y.msg = m /\ P \subseteq adPg'.memories
               /\ adPg'.memories \subseteq P \cup {x, y}
    <2>1. CASE Insertable(adPg, m)
      BY <1>0, <1>1, <2>1 DEF InsertedAs
    <2>2. CASE ~Insertable(adPg, m)
      <3>1. adPg' = adPg
        BY <1>0, <1>1, <2>2 DEF InsertedAs
      <3>2. [unique |-> FALSE, msg |-> m].unique = FALSE /\ [unique |-> FALSE, msg |-> m].msg = m
        OBVIOUS
      <3> QED BY <3>1, <3>2
    <2> QED BY <2>1, <2>2
  <1>8. PICK y : /\ (m \in Vectored => y.unique = FALSE) /\ y.msg = m /\ P \subseteq adPg'.memories
                 /\ adPg'.memories \subseteq P \cup {x, y}
    BY <1>7
  <1>9. x.msg = m /\ x.unique = q
    BY FreshIs
  <1>10. \A row \in P : q /\ row.unique /\ Ad!Similar(row.msg, m) => {row.msg, m} \in adOverlaps
    BY DEF AdaptersInv
  <1>11. \A n \in Messages : n # m /\ adCreating[n] # "no" => {m, n} \in adOverlaps
    BY <1>1 DEF AdaptersInv
  <1> HIDE DEF b, x
  <1>12. (\A n \in Messages : adCreating[n] = "unique" =>
            \A row \in adPg.memories : row.unique /\ Ad!Similar(row.msg, n) => {row.msg, n} \in adOverlaps)'
    <2>1. ASSUME NEW n \in Messages, adCreating'[n] = "unique", NEW row \in adPg'.memories,
                 row.unique, Ad!Similar(row.msg, n)
          PROVE  {row.msg, n} \in adOverlaps
      <3>1. n # m /\ adCreating[n] = "unique"
        BY <1>4, <2>1
      <3>2. CASE row \in P
        BY <2>1, <3>1, <3>2 DEF AdaptersInv
      <3>3. CASE row \in {x, y}
        <4>1. row.msg = m
          BY <1>8, <1>9, <3>3
        <4>2. {m, n} \in adOverlaps
          BY <1>11, <3>1
        <4> QED BY <4>1, <4>2
      <3> QED BY <1>8, <2>1, <3>2, <3>3
    <2> QED BY <1>1, <2>1 DEF Ad!Similar
  <1>13. Ad!UniqueRowsDiffer'
    <2>1. ASSUME NEW k \in adPg'.memories, NEW n \in adPg'.memories, k # n, k.unique, n.unique,
                 Ad!Similar(k.msg, n.msg)
          PROVE  {k.msg, n.msg} \in adOverlaps
      <3>1. k \in P \cup {x} /\ n \in P \cup {x}
        <4>1. k.msg \in Vectored /\ n.msg \in Vectored
          BY <2>1 DEF Ad!Similar
        <4> QED BY <1>8, <2>1, <4>1
      <3>2. CASE k \in P /\ n \in P
        BY <2>1, <3>2 DEF AdaptersInv, Ad!UniqueRowsDiffer
      <3>3. CASE k = x
        <4>1. n \in P /\ q /\ Ad!Similar(n.msg, m)
          BY <1>9, <2>1, <3>1, <3>3 DEF Ad!Similar
        <4>2. {n.msg, m} \in adOverlaps
          BY <1>10, <2>1, <4>1
        <4>3. {k.msg, n.msg} = {n.msg, m}
          BY <1>9, <3>3
        <4> QED BY <4>2, <4>3
      <3>4. CASE n = x
        <4>1. k \in P /\ q /\ Ad!Similar(k.msg, m)
          BY <1>9, <2>1, <3>1, <3>4
        <4>2. {k.msg, m} \in adOverlaps
          BY <1>10, <2>1, <4>1
        <4> QED BY <1>9, <3>4, <4>2
      <3> QED BY <3>1, <3>2, <3>3, <3>4
    <2>2. \A k, n \in adSq'.memories : k # n /\ k.unique /\ n.unique => ~Ad!Similar(k.msg, n.msg)
      BY <1>1 DEF AdaptersInv, Ad!UniqueRowsDiffer
    <2> QED BY <1>1, <2>1, <2>2 DEF Ad!UniqueRowsDiffer, Ad!Similar
  <1>14. ASSUME ~adParted' PROVE SameTables(adSq, adPg)' /\ Matched(adSq.memories, adPg.memories)'
    <2>1. ~lost /\ b.answer # "throws"
      BY <1>1, <1>14
    <2>2. Insertable(adPg, m) /\ adPg' = [adPg EXCEPT !.memories = P \cup {x}]
      BY <1>0, <1>1, <2>1 DEF InsertedAs, x, Inserted
    <2>3. adSq = [adSq EXCEPT !.memories = S]
      BY <1>2, SameAgain DEF SameTables
    <2>4. SameTables(adSq', adPg') /\ adSq'.memories = S /\ adPg'.memories = P \cup {x}
      BY <1>1, <1>2, <2>2, <2>3, SameButMemories
    <2>5. /\ Numbers(S, m) = Numbers(P, m) \cup {NextOf(Numbers(P, m))}
          /\ m \in Named => Numbers(P, m) = {}
      <3>1. adCreating[m] # "no"
        BY <1>1
      <3> HIDE DEF S, P, q
      <3> QED BY <1>2, <3>1 DEF Matched
    <2>6. x = [msg |-> m, copy |-> NextOf(Numbers(P, m)), unique |-> q]
      BY FreshIs DEF x
    <2> DEFINE T == P \cup {x}
    <2>7. q \in BOOLEAN /\ Memorised(P)
      BY <1>2 DEF Matched
    <2>8. /\ Memorised(T) /\ Numbers(T, m) = Numbers(P, m) \cup {NextOf(Numbers(P, m))}
          /\ \A n : n # m => Numbers(T, n) = Numbers(P, n)
      <3> HIDE DEF q, P
      <3> QED BY <2>5, <2>6, <2>7, Gains
    <2>9. Matched(adSq.memories, adPg.memories)'
      <3>1. Memorised(S) /\ Memorised(T)
        BY <1>2, <2>8 DEF Matched
      <3>2. ASSUME NEW n \in Messages
            PROVE  IF adCreating'[n] = "no" THEN Numbers(S, n) = Numbers(T, n)
                   ELSE /\ Numbers(S, n) = Numbers(T, n) \cup {NextOf(Numbers(T, n))}
                        /\ n \in Named => Numbers(T, n) = {}
        <4>1. CASE n = m
          BY <1>4, <2>5, <2>8, <4>1
        <4>2. CASE n # m
          <5>1. Numbers(T, n) = Numbers(P, n) /\ adCreating'[n] = adCreating[n]
            BY <1>4, <2>8, <4>2
          <5> HIDE DEF T, S, P
          <5> QED BY <1>2, <5>1 DEF Matched
        <4> QED BY <4>1, <4>2
      <3> HIDE DEF T, S
      <3> QED BY <2>4, <3>1, <3>2 DEF Matched, T
    <2>10. SameTables(adSq, adPg)'
      BY <2>4 DEF SameTables, IsTables
    <2> QED BY <2>9, <2>10
  <1> QED BY <1>5, <1>6, <1>12, <1>13, <1>14 DEF AdaptersInv

LEMMA BesideKeeps ==
    ASSUME AdaptersInv, ~adParted, NEW s, NEW p, Beside(adSq, adPg, s, p), Ad!Both(s, p, FALSE)
    PROVE  AdaptersInv'
  <1>1. s.db.memories = adSq.memories /\ p.db.memories = adPg.memories
    BY DEF Beside
  <1>2. s.answer = p.answer => SameTables(s.db, p.db) /\ Matched(s.db.memories, p.db.memories)
    BY <1>1 DEF Beside, AdaptersInv
  <1> QED BY <1>1, <1>2, BothKeep

LEMMA AdaptersNextInv ==
    ASSUME Ad!AdaptersAssumption, AdaptersInv, Ad!SysNext
    PROVE  AdaptersInv'
  <1>1. ~adParted /\ SameTables(adSq, adPg) /\ Matched(adSq.memories, adPg.memories)
    BY DEF Ad!SysNext, AdaptersInv
  <1>2. Named \subseteq Messages
    BY DEF Ad!AdaptersAssumption, Ad!TablesAssumption
  <1>3. CASE \E m \in Messages : Ad!CreateMemory(m) \/ Ad!SearchSimilar(m)
    BY <1>1, <1>3, CreateMemoryIs, SearchSimilarIs
  <1>4. ASSUME NEW lost \in BOOLEAN, Ad!Accounts(lost) PROVE AdaptersInv'
    <2>1. PICK u \in Users : Ad!Both(Ad!SqCreateAccount(adSq, u), Ad!PgCreateAccount(adPg, u, lost), FALSE)
      BY <1>4 DEF Ad!Accounts
    <2> QED BY <1>1, <2>1, CreateAccountIs, BesideKeeps
  <1>5. ASSUME NEW lost \in BOOLEAN, Ad!OpenRoom(lost) PROVE AdaptersInv'
    <2>1. PICK r \in Rooms : Ad!Both(Ad!SqCreateRoom(adSq, r), Ad!PgCreateRoom(adPg, r, lost), FALSE)
      BY <1>5 DEF Ad!OpenRoom
    <2> QED BY <1>1, <2>1, CreateRoomIs, BesideKeeps
  <1>6. ASSUME NEW lost \in BOOLEAN, Ad!CloseRoom(lost) PROVE AdaptersInv'
    <2>1. PICK r \in Rooms : Ad!Both(Ad!SqRemoveRoom(adSq, r), Ad!PgRemoveRoom(adPg, r, lost),
                                     Ad!InUse(r) \/ Ad!Pending(r))
      BY <1>6 DEF Ad!CloseRoom
    <2> DEFINE s == Ad!SqRemoveRoom(adSq, r)
               p == Ad!PgRemoveRoom(adPg, r, lost)
               strays == Ad!InUse(r) \/ Ad!Pending(r)
    <2>2. Fewer(adSq, adPg, s, p) /\ (~strays => Agreed(s, p))
      BY <1>1, RemoveRoomIs
    <2>3. strays \in BOOLEAN /\ Ad!Both(s, p, strays)
      BY <2>1
    <2> HIDE DEF s, p, strays
    <2> QED BY <1>1, <2>2, <2>3, BothKeep DEF Fewer, Agreed
  <1>7. ASSUME NEW lost \in BOOLEAN, Ad!Participants(lost) PROVE AdaptersInv'
    <2>1. PICK u \in Users, r \in Rooms :
            \/ Ad!Both(Ad!SqAddParticipant(adSq, u, r), Ad!PgAddParticipant(adPg, u, r, lost), FALSE)
            \/ Ad!Both(Ad!SqRemoveParticipant(adSq, u, r), Ad!PgRemoveParticipant(adPg, u, r, lost), FALSE)
            \/ \E st \in Ad!States :
                 Ad!Both(Ad!SqSetParticipantUserState(adSq, u, r, st),
                         Ad!PgSetParticipantUserState(adPg, u, r, st, lost), FALSE)
      BY <1>7 DEF Ad!Participants
    <2> QED BY <1>1, <2>1, AddParticipantIs, RemoveParticipantIs, SetUserStateIs, BesideKeeps
  <1>8. ASSUME NEW lost \in BOOLEAN, Ad!Relations(lost) PROVE AdaptersInv'
    <2>1. PICK u \in Users, v \in Users :
            Ad!Both(Ad!SqCreateRelationship(adSq, u, v), Ad!PgCreateRelationship(adPg, u, v, lost), FALSE)
      BY <1>8 DEF Ad!Relations
    <2> QED BY <1>1, <2>1, CreateRelationshipIs, BesideKeeps
  <1>9. ASSUME NEW lost \in BOOLEAN, Ad!Planning(lost) PROVE AdaptersInv'
    <2>1. ASSUME NEW g \in Plans,
                 Ad!Both(Ad!SqCreateGoal(adSq, g), Ad!PgCreateGoal(adPg, g, lost), lost)
          PROVE  AdaptersInv'
      <3> DEFINE s == Ad!SqCreateGoal(adSq, g)
                 p == Ad!PgCreateGoal(adPg, g, lost)
      <3>1. /\ s.db.memories = adSq.memories /\ p.db.memories = adPg.memories
            /\ ~lost => Beside(adSq, adPg, s, p)
        BY <1>1, CreateGoalIs
      <3> HIDE DEF s, p
      <3>2. Ad!Both(s, p, lost)
        BY <2>1 DEF s, p
      <3> QED BY <1>1, <3>1, <3>2, BothKeep DEF Beside
    <2>2. ASSUME NEW g \in Plans, NEW st,
                 Ad!Both(Ad!SqUpdateGoalStatus(adSq, g, st), Ad!PgUpdateGoalStatus(adPg, g, st, lost), FALSE)
          PROVE  AdaptersInv'
      BY <1>1, <2>2, UpdateGoalIs, BesideKeeps
    <2>3. ASSUME NEW g \in Plans,
                 Ad!Both(Ad!SqRemoveGoal(adSq, g), Ad!PgRemoveGoal(adPg, g, lost), FALSE)
          PROVE  AdaptersInv'
      BY <1>1, <2>3, RemoveGoalsIs, BesideKeeps
    <2>4. ASSUME NEW r \in Rooms,
                 Ad!Both(Ad!SqRemoveAllGoals(adSq, r), Ad!PgRemoveAllGoals(adPg, r, lost), FALSE)
          PROVE  AdaptersInv'
      BY <1>1, <2>4, RemoveGoalsIs, BesideKeeps
    <2> QED BY <1>9, <2>1, <2>2, <2>3, <2>4 DEF Ad!Planning
  <1>10. ASSUME NEW lost \in BOOLEAN, Ad!Forget(lost) PROVE AdaptersInv'
    <2>1. ASSUME NEW m \in Named,
                 Ad!Both(Ad!SqRemoveMemory(adSq, m), Ad!PgRemoveMemory(adPg, m, lost), adCreating[m] # "no")
          PROVE  AdaptersInv'
      <3> DEFINE s == Ad!SqRemoveMemory(adSq, m)
                 p == Ad!PgRemoveMemory(adPg, m, lost)
                 strays == adCreating[m] # "no"
      <3>1. Fewer(adSq, adPg, s, p) /\ (~strays => Agreed(s, p))
        BY <1>1, <1>2, RemoveMemoryIs
      <3>2. strays \in BOOLEAN /\ Ad!Both(s, p, strays)
        BY <2>1
      <3> HIDE DEF s, p, strays
      <3> QED BY <1>1, <3>1, <3>2, BothKeep DEF Fewer, Agreed
    <2>2. ASSUME NEW r \in Rooms,
                 Ad!Both(Ad!SqRemoveAllMemories(adSq, r), Ad!PgRemoveAllMemories(adPg, r, lost),
                         Ad!Pending(r))
          PROVE  AdaptersInv'
      <3> DEFINE s == Ad!SqRemoveAllMemories(adSq, r)
                 p == Ad!PgRemoveAllMemories(adPg, r, lost)
                 strays == Ad!Pending(r)
      <3>1. Fewer(adSq, adPg, s, p) /\ (~strays => Agreed(s, p))
        BY <1>1, RemoveAllMemoriesIs
      <3>2. strays \in BOOLEAN /\ Ad!Both(s, p, strays)
        BY <2>2 DEF Ad!Pending
      <3> HIDE DEF s, p, strays
      <3> QED BY <1>1, <3>1, <3>2, BothKeep DEF Fewer, Agreed
    <2> QED BY <1>10, <2>1, <2>2 DEF Ad!Forget
  <1>11. ASSUME NEW lost \in BOOLEAN, NEW m \in Messages, Ad!InsertMemory(m, lost)
         PROVE  AdaptersInv'
    BY <1>1, <1>11, InsertMemoryIs
  <1> QED BY <1>3, <1>4, <1>5, <1>6, <1>7, <1>8, <1>9, <1>10, <1>11 DEF Ad!SysNext

LEMMA AdaptersSpec ==
    ASSUME Ad!AdaptersAssumption
    PROVE  Ad!SysInit /\ [][Ad!SysNext]_Ad!vars => []AdaptersInv
  <1>1. Ad!SysInit => AdaptersInv
    <2> SUFFICES ASSUME Ad!SysInit PROVE AdaptersInv
      OBVIOUS
    <2>1. adSq = Ad!Init /\ adPg = Ad!Init
      BY DEF Ad!SysInit
    <2>2. adCreating = [m \in Messages |-> "no"] /\ adParted = FALSE
      BY DEF Ad!SysInit
    <2> DEFINE M == [k \in Users \X Rooms |-> <<>>]
               Z == [p \in Users \X Users |-> 0]
    <2>3. Ad!Init = Tab({}, {}, M, {}, {}, Z)
      BY DEF Ad!Init, Ad!Pairs, Tab
    <2>4. M \in Memberships
      BY EmptySeq DEF Memberships
    <2> HIDE DEF M, Z
    <2>5. /\ IsTables(adSq) /\ adSq.accounts = {} /\ adSq.rooms = {} /\ adSq.members = M
          /\ adSq.memories = {} /\ adSq.goals = {} /\ adSq.bonds = Z /\ adPg = adSq
      BY <2>1, <2>3, TabIs
    <2>6. SameTables(adSq, adPg)
      BY <2>4, <2>5 DEF SameTables, GoalShaped
    <2>7. Matched({}, {})
      BY <2>2, FS_EmptySet DEF Matched, Memorised, Numbers
    <2> QED BY <2>2, <2>5, <2>6, <2>7 DEF AdaptersInv, Creation, Ad!UniqueRowsDiffer
  <1>2. AdaptersInv /\ [Ad!SysNext]_Ad!vars => AdaptersInv'
    <2>1. AdaptersInv /\ UNCHANGED Ad!vars => AdaptersInv'
      BY DEF Ad!vars, AdaptersInv, SameTables, Matched, IsTables, Ad!UniqueRowsDiffer, Ad!Similar
    <2> QED BY <2>1, AdaptersNextInv
  <1> QED BY <1>1, <1>2, PTL

(* The rows of some memories. *)
RowsOf(M, R) == {x \in M : x.msg \in R}

(* Memories that nobody is creating have the same rows on both. *)
LEMMA SameRows ==
    ASSUME NEW S, NEW P, Matched(S, P), NEW R \in SUBSET Messages,
           \A m \in R : adCreating[m] = "no"
    PROVE  Ad!Rows(RowsOf(S, R)) = Ad!Rows(RowsOf(P, R))
  <1>1. ASSUME NEW M, NEW k
        PROVE  k \in Ad!Rows(RowsOf(M, R))
                 <=> \E m \in R : \E c \in Numbers(M, m) : k = <<m, c>>
    BY DEF Ad!Rows, Numbers, RowsOf
  <1>2. \A m \in R : Numbers(S, m) = Numbers(P, m)
    BY DEF Matched
  <1>3. \A k : k \in Ad!Rows(RowsOf(S, R)) <=> k \in Ad!Rows(RowsOf(P, R))
    BY <1>1, <1>2
  <1> QED BY <1>3

(* A row is told by its memory and its number. *)
LEMMA RowsCount ==
    ASSUME NEW M, Memorised(M), NEW R \in SUBSET M
    PROVE  Cardinality(Ad!Rows(R)) = Cardinality(R)
  <1> DEFINE f == [row \in R |-> <<row.msg, row.copy>>]
  <1>1. IsFiniteSet(R)
    BY FS_Subset DEF Memorised
  <1>2. f \in Surjection(R, Ad!Rows(R))
    BY DEF Surjection, Ad!Rows
  <1>3. f \in Injection(R, Ad!Rows(R))
    <2>1. \A x, y \in R : f[x] = f[y] => x = y
      BY DEF Memorised
    <2>2. f \in [R -> Ad!Rows(R)]
      BY DEF Ad!Rows
    <2> HIDE DEF f
    <2> QED BY <2>1, <2>2 DEF Injection, IsInjective
  <1>4. f \in Bijection(R, Ad!Rows(R))
    BY <1>2, <1>3 DEF Bijection
  <1>5. ExistsBijection(R, Ad!Rows(R))
    BY <1>4 DEF ExistsBijection
  <1> QED BY <1>1, <1>5, FS_Bijection

LEMMA AdaptersRead ==
    ASSUME Ad!AdaptersAssumption, AdaptersInv
    PROVE  Ad!AdaptersAgree /\ Ad!UniqueRowsDiffer
  <1> DEFINE S == adSq.memories
             P == adPg.memories
             Of(r) == {m \in Messages : About[m].room = r}
  <1>1. SUFFICES ASSUME ~adParted PROVE Ad!AdaptersAgree
    BY DEF AdaptersInv, Ad!AdaptersAgree
  <1>2. SameTables(adSq, adPg) /\ Matched(S, P)
    BY <1>1 DEF AdaptersInv
  <1>3. Memorised(S) /\ Memorised(P)
    BY <1>2 DEF Matched
  <1>4. /\ adSq.accounts = adPg.accounts /\ adSq.rooms = adPg.rooms
        /\ adSq.members = adPg.members /\ adSq.goals = adPg.goals /\ adSq.bonds = adPg.bonds
    BY <1>2 DEF SameTables
  <1>5. \A m \in Messages : About[m].room \in Rooms
    BY DEF Ad!AdaptersAssumption, Ad!TablesAssumption
  <1>6. \A r : /\ Ad!SqGetMemories(adSq, r, FALSE) = RowsOf(S, Of(r))
               /\ Ad!PgGetMemories(adPg, r, FALSE) = RowsOf(P, Of(r))
    BY <1>3 DEF Ad!SqGetMemories, Ad!PgGetMemories, Ad!InRoom, Memorised, MemoryRecords,
                RowsOf
  <1>7. ASSUME NEW r, ~Ad!Pending(r)
        PROVE  /\ Ad!Rows(Ad!SqGetMemories(adSq, r, FALSE)) = Ad!Rows(Ad!PgGetMemories(adPg, r, FALSE))
               /\ Ad!SqCountMemories(adSq, r, FALSE) = Ad!PgCountMemories(adPg, r, FALSE)
    <2> DEFINE X == RowsOf(S, Of(r))
               Y == RowsOf(P, Of(r))
    <2>1. Of(r) \in SUBSET Messages /\ \A m \in Of(r) : adCreating[m] = "no"
      BY <1>7 DEF Ad!Pending
    <2> HIDE DEF Of, S, P
    <2>2. Ad!Rows(X) = Ad!Rows(Y)
      BY <1>2, <2>1, SameRows
    <2>3. X \in SUBSET S /\ Y \in SUBSET P
      BY DEF RowsOf
    <2> HIDE DEF X, Y
    <2>4. Cardinality(X) = Cardinality(Y)
      BY <1>3, <2>2, <2>3, RowsCount
    <2>5. Ad!Cardinality(X) = Ad!Cardinality(Y)
      BY <2>4, CountIs
    <2>6. Ad!SqGetMemories(adSq, r, FALSE) = X /\ Ad!PgGetMemories(adPg, r, FALSE) = Y
      BY <1>6 DEF X, Y
    <2> QED BY <2>2, <2>5, <2>6 DEF Ad!SqCountMemories, Ad!PgCountMemories
  <1>8. ASSUME \A r \in Rooms : ~Ad!Pending(r)
        PROVE  /\ \A R \in SUBSET Rooms : Ad!Rows(Ad!SqGetMemoriesByRoomIds(adSq, R))
                                            = Ad!Rows(Ad!PgGetMemoriesByRoomIds(adPg, R))
               /\ \A m \in Messages :
                    /\ Ad!SqGetMemoryById(adSq, m) = Ad!PgGetMemoryById(adPg, m)
                    /\ Ad!Rows(Ad!PgSearchMemories(adPg, m, FALSE))
                         \subseteq Ad!Rows(Ad!SqSearchMemories(adSq, m, FALSE))
    <2>1. \A m \in Messages : adCreating[m] = "no"
      BY <1>5, <1>8 DEF Ad!Pending
    <2>2. ASSUME NEW R \in SUBSET Rooms
          PROVE  Ad!Rows(Ad!SqGetMemoriesByRoomIds(adSq, R)) = Ad!Rows(Ad!PgGetMemoriesByRoomIds(adPg, R))
      <3> DEFINE Q == {m \in Messages : About[m].room \in R}
      <3>1. /\ Ad!SqGetMemoriesByRoomIds(adSq, R) = RowsOf(S, Q)
            /\ Ad!PgGetMemoriesByRoomIds(adPg, R) = RowsOf(P, Q)
        BY <1>3 DEF Ad!SqGetMemoriesByRoomIds, Ad!PgGetMemoriesByRoomIds, Ad!InRoom, Memorised,
                    MemoryRecords, RowsOf
      <3>2. Q \in SUBSET Messages /\ \A m \in Q : adCreating[m] = "no"
        BY <2>1
      <3> HIDE DEF Q, S, P
      <3> QED BY <1>2, <3>1, <3>2, SameRows
    <2>3. ASSUME NEW m \in Messages
          PROVE  /\ Ad!SqGetMemoryById(adSq, m) = Ad!PgGetMemoryById(adPg, m)
                 /\ Ad!Rows(Ad!PgSearchMemories(adPg, m, FALSE))
                      \subseteq Ad!Rows(Ad!SqSearchMemories(adSq, m, FALSE))
      <3>1. Numbers(S, m) = Numbers(P, m)
        BY <1>2, <2>1 DEF Matched
      <3>2. \A d : (\E row \in Ad!Copies(d, m) : row.copy = 0) <=> 0 \in Numbers(d.memories, m)
        BY DEF Ad!Copies, Numbers
      <3>3. Ad!SqGetMemoryById(adSq, m) <=> Ad!PgGetMemoryById(adPg, m)
        BY <3>1, <3>2 DEF Ad!SqGetMemoryById, Ad!PgGetMemoryById
      <3>4. Ad!Rows(Ad!PgSearchMemories(adPg, m, FALSE))
              \subseteq Ad!Rows(Ad!PgGetMemories(adPg, About[m].room, FALSE))
        BY DEF Ad!Rows, Ad!PgSearchMemories
      <3>5. Ad!Rows(Ad!SqSearchMemories(adSq, m, FALSE))
              = Ad!Rows(Ad!PgGetMemories(adPg, About[m].room, FALSE))
        BY <1>5, <1>7, <1>8 DEF Ad!SqSearchMemories
      <3>6. Ad!SqGetMemoryById(adSq, m) = Ad!PgGetMemoryById(adPg, m)
        BY <3>3 DEF Ad!SqGetMemoryById, Ad!PgGetMemoryById
      <3> QED BY <3>4, <3>5, <3>6
    <2> QED BY <2>2, <2>3
  <1>9. \A r \in Rooms :
          /\ Ad!SqGetRoom(adSq, r) = Ad!PgGetRoom(adPg, r)
          /\ Ad!SqGetParticipantsForRoom(adSq, r) = Ad!PgGetParticipantsForRoom(adPg, r)
          /\ Ad!SqGetActorDetails(adSq, r) = Ad!PgGetActorDetails(adPg, r)
          /\ \A b \in BOOLEAN : Ad!SqGetGoals(adSq, r, b) = Ad!PgGetGoals(adPg, r, b)
    BY <1>4 DEF Ad!SqGetRoom, Ad!PgGetRoom, Ad!SqGetParticipantsForRoom, Ad!PgGetParticipantsForRoom,
                Ad!SqGetActorDetails, Ad!PgGetActorDetails, Ad!SqGetGoals, Ad!PgGetGoals
  <1>10. \A u \in Users :
          /\ Ad!SqGetAccountById(adSq, u) = Ad!PgGetAccountById(adPg, u)
          /\ Ad!SqGetParticipantsForAccount(adSq, u) = Ad!PgGetParticipantsForAccount(adPg, u)
          /\ Ad!SqGetRelationships(adSq, u) = Ad!PgGetRelationships(adPg, u)
          /\ \A v \in Users : /\ Ad!SqGetRelationship(adSq, u, v) = Ad!PgGetRelationship(adPg, u, v)
                              /\ Ad!SqGetRoomsForParticipants(adSq, {u, v})
                                   = Ad!PgGetRoomsForParticipants(adPg, {u, v})
          /\ \A r \in Rooms : Ad!SqGetParticipantUserState(adSq, u, r)
                                = Ad!PgGetParticipantUserState(adPg, u, r)
    BY <1>4 DEF Ad!SqGetAccountById, Ad!PgGetAccountById, Ad!SqGetParticipantsForAccount,
                Ad!PgGetParticipantsForAccount, Ad!SqGetRelationships, Ad!PgGetRelationships,
                Ad!SqGetRelationship, Ad!PgGetRelationship, Ad!SqGetRoomsForParticipants,
                Ad!PgGetRoomsForParticipants, Ad!SqGetParticipantUserState, Ad!PgGetParticipantUserState
  <1> QED BY <1>7, <1>8, <1>9, <1>10 DEF Ad!AdaptersAgree

(* For any users, rooms, memories and bounds: what callers read of sqlite, *)
(* they read of postgres until a call parts the two; two similar memories  *)
(* are both marked unique only on postgres and only if they overlapped;    *)
(* and nothing is found on sql.js or on supabase that sqlite does not have.*)
THEOREM DatabasesStayAlike == SysSpec => []DatabasesAgree
  <1>1. SysInit => Ad!SysInit /\ Pt!PortsInit
    BY DEF SysInit
  <1>2. [SysNext]_sysVars => [Ad!SysNext]_Ad!vars
    BY DEF SysNext, sysVars, Evaluating, Storing, Porting, Caching, Pooling, adVars, Ad!vars
  <1>3. [SysNext]_sysVars => [Pt!PortsNext]_Pt!vars
    BY DEF SysNext, sysVars, Evaluating, Storing, Porting, Caching, Pooling, ptVars, Pt!vars
  <1>4. Ad!SysInit /\ [][Ad!SysNext]_Ad!vars => []AdaptersInv
    BY AdaptersSpec, Instances
  <1>5. Pt!PortsInit /\ [][Pt!PortsNext]_Pt!vars => []PortsInv
    BY PortsSpec, Instances
  <1>6. AdaptersInv /\ PortsInv => DatabasesAgree
    BY AdaptersRead, SqlJsRead, SupabaseRead, Instances DEF DatabasesAgree
  <1> QED BY <1>1, <1>2, <1>3, <1>4, <1>5, <1>6, PTL DEF SysSpec

----------------------------------------------------------------------------
(***************************************************************************)
(* The types of both databases: a row is never numbered higher than there  *)
(* may be copies of it, not even one an answer's loss inserts again.       *)
(***************************************************************************)
MemberRows == UNION {[1 .. n -> Ad!States] : n \in 0 .. MaxCopies}
CopyRecords == [msg : Messages, copy : 0 .. MaxCopies, unique : BOOLEAN]
GoalRecords == [goal : Plans, copy : 0 .. MaxCopies, status : {"IN_PROGRESS", "DONE"}]

LEMMA RowLists ==
    ASSUME Ad!AdaptersAssumption, NEW s
    PROVE  s \in MemberRows <=> s \in Seq(Ad!States) /\ Len(s) <= MaxCopies
  <1>1. MaxCopies \in Nat
    BY DEF Ad!AdaptersAssumption
  <1>2. ASSUME s \in MemberRows PROVE s \in Seq(Ad!States) /\ Len(s) <= MaxCopies
    <2>1. PICK n \in 0 .. MaxCopies : s \in [1 .. n -> Ad!States]
      BY <1>2 DEF MemberRows
    <2>2. n \in Nat /\ n <= MaxCopies
      BY <1>1, <2>1
    <2> QED BY <2>1, <2>2, FunctionIsSeq
  <1>3. ASSUME s \in Seq(Ad!States), Len(s) <= MaxCopies PROVE s \in MemberRows
    <2> DEFINE n == Len(s)
    <2>1. n \in 0 .. MaxCopies /\ s \in [1 .. n -> Ad!States]
      BY <1>1, <1>3
    <2> HIDE DEF n
    <2> QED BY <2>1 DEF MemberRows
  <1> QED BY <1>2, <1>3

LEMMA ShortLists ==
    ASSUME Ad!AdaptersAssumption
    PROVE  <<>> \in MemberRows /\ (MaxCopies > 0 => <<"none">> \in MemberRows)
  <1>1. MaxCopies \in Nat
    BY DEF Ad!AdaptersAssumption
  <1> DEFINE none == <<>>
             one == <<"none">>
  <1>2. none \in Seq(Ad!States) /\ Len(none) = 0
    BY EmptySeq
  <1>3. one \in Seq(Ad!States) /\ Len(one) = 1
    BY DEF Ad!States
  <1> HIDE DEF none, one
  <1>4. Len(none) <= MaxCopies /\ (MaxCopies > 0 => Len(one) <= MaxCopies)
    BY <1>1, <1>2, <1>3
  <1>5. none \in MemberRows
    BY <1>2, <1>4, RowLists
  <1>6. MaxCopies > 0 => one \in MemberRows
    BY <1>3, <1>4, RowLists
  <1> QED BY <1>5, <1>6 DEF none, one

LEMMA TypedIs ==
    ASSUME NEW d \in Ad!Database
    PROVE  /\ IsTables(d) /\ d.accounts \in SUBSET Users /\ d.rooms \in SUBSET Rooms
           /\ d.members \in [Users \X Rooms -> MemberRows] /\ d.memories \in SUBSET CopyRecords
           /\ d.goals \in SUBSET GoalRecords /\ d.bonds \in [Users \X Users -> 0 .. MaxCopies]
  <1>1. d \in [accounts : SUBSET Users, rooms : SUBSET Rooms, members : [Users \X Rooms -> MemberRows],
               memories : SUBSET CopyRecords, goals : SUBSET GoalRecords,
               bonds : [Users \X Users -> 0 .. MaxCopies]]
    BY DEF Ad!Database, Ad!Pairs, MemberRows, CopyRecords, GoalRecords
  <1> QED BY <1>1 DEF IsTables

LEMMA TypedTab ==
    ASSUME NEW a \in SUBSET Users, NEW r \in SUBSET Rooms, NEW e \in [Users \X Rooms -> MemberRows],
           NEW m \in SUBSET CopyRecords, NEW g \in SUBSET GoalRecords,
           NEW b \in [Users \X Users -> 0 .. MaxCopies]
    PROVE  Tab(a, r, e, m, g, b) \in Ad!Database
  BY DEF Tab, Ad!Database, Ad!Pairs, MemberRows, CopyRecords, GoalRecords

(* A database with its types, and no memories that d has not. *)
KeptOf(d, e) == e \in Ad!Database /\ e.memories \subseteq d.memories

LEMMA TypedPut ==
    ASSUME NEW d \in Ad!Database
    PROVE  /\ KeptOf(d, d)
           /\ \A X \in SUBSET Users : KeptOf(d, [d EXCEPT !.accounts = X])
           /\ \A X \in SUBSET Rooms : KeptOf(d, [d EXCEPT !.rooms = X])
           /\ \A X \in [Users \X Rooms -> MemberRows] : KeptOf(d, [d EXCEPT !.members = X])
           /\ \A X \in SUBSET d.memories : KeptOf(d, [d EXCEPT !.memories = X])
           /\ \A X \in SUBSET CopyRecords : [d EXCEPT !.memories = X] \in Ad!Database
           /\ \A X : [d EXCEPT !.memories = X].memories = X
           /\ \A X \in SUBSET GoalRecords : /\ KeptOf(d, [d EXCEPT !.goals = X])
                                            /\ [d EXCEPT !.goals = X].goals = X
           /\ \A X \in [Users \X Users -> 0 .. MaxCopies] : KeptOf(d, [d EXCEPT !.bonds = X])
  <1>1. /\ IsTables(d) /\ d.accounts \in SUBSET Users /\ d.rooms \in SUBSET Rooms
        /\ d.members \in [Users \X Rooms -> MemberRows] /\ d.memories \in SUBSET CopyRecords
        /\ d.goals \in SUBSET GoalRecords /\ d.bonds \in [Users \X Users -> 0 .. MaxCopies]
    BY TypedIs
  <1>2. KeptOf(d, d)
    BY DEF KeptOf
  <1>3. ASSUME NEW X \in SUBSET Users PROVE KeptOf(d, [d EXCEPT !.accounts = X])
    <2>1. [d EXCEPT !.accounts = X] = Tab(X, d.rooms, d.members, d.memories, d.goals, d.bonds)
      BY <1>1, Put
    <2>2. Tab(X, d.rooms, d.members, d.memories, d.goals, d.bonds) \in Ad!Database
      BY <1>1, TypedTab
    <2>3. Tab(X, d.rooms, d.members, d.memories, d.goals, d.bonds).memories = d.memories
      BY TabIs
    <2> QED BY <2>1, <2>2, <2>3 DEF KeptOf
  <1>4. ASSUME NEW X \in SUBSET Rooms PROVE KeptOf(d, [d EXCEPT !.rooms = X])
    <2>1. [d EXCEPT !.rooms = X] = Tab(d.accounts, X, d.members, d.memories, d.goals, d.bonds)
      BY <1>1, Put
    <2>2. Tab(d.accounts, X, d.members, d.memories, d.goals, d.bonds) \in Ad!Database
      BY <1>1, TypedTab
    <2>3. Tab(d.accounts, X, d.members, d.memories, d.goals, d.bonds).memories = d.memories
      BY TabIs
    <2> QED BY <2>1, <2>2, <2>3 DEF KeptOf
  <1>5. ASSUME NEW X \in [Users \X Rooms -> MemberRows] PROVE KeptOf(d, [d EXCEPT !.members = X])
    <2>1. [d EXCEPT !.members = X] = Tab(d.accounts, d.rooms, X, d.memories, d.goals, d.bonds)
      BY <1>1, Put
    <2>2. Tab(d.accounts, d.rooms, X, d.memories, d.goals, d.bonds) \in Ad!Database
      BY <1>1, TypedTab
    <2>3. Tab(d.accounts, d.rooms, X, d.memories, d.goals, d.bonds).memories = d.memories
      BY TabIs
    <2> QED BY <2>1, <2>2, <2>3 DEF KeptOf
  <1>6. \A X : [d EXCEPT !.memories = X] = Tab(d.accounts, d.rooms, d.members, X, d.goals, d.bonds)
    BY <1>1, Put
  <1>7. \A X : [d EXCEPT !.memories = X].memories = X
    BY <1>6, TabIs
  <1>8. ASSUME NEW X \in SUBSET CopyRecords PROVE [d EXCEPT !.memories = X] \in Ad!Database
    <2>1. Tab(d.accounts, d.rooms, d.members, X, d.goals, d.bonds) \in Ad!Database
      BY <1>1, TypedTab
    <2> QED BY <1>6, <2>1
  <1>9. \A X \in SUBSET d.memories : KeptOf(d, [d EXCEPT !.memories = X])
    BY <1>1, <1>7, <1>8 DEF KeptOf
  <1>10. ASSUME NEW X \in SUBSET GoalRecords
         PROVE  KeptOf(d, [d EXCEPT !.goals = X]) /\ [d EXCEPT !.goals = X].goals = X
    <2>1. [d EXCEPT !.goals = X] = Tab(d.accounts, d.rooms, d.members, d.memories, X, d.bonds)
      BY <1>1, Put
    <2>2. Tab(d.accounts, d.rooms, d.members, d.memories, X, d.bonds) \in Ad!Database
      BY <1>1, TypedTab
    <2>3. Tab(d.accounts, d.rooms, d.members, d.memories, X, d.bonds).memories = d.memories /\ Tab(d.accounts, d.rooms, d.members, d.memories, X, d.bonds).goals = X
      BY TabIs
    <2> QED BY <2>1, <2>2, <2>3 DEF KeptOf
  <1>11. ASSUME NEW X \in [Users \X Users -> 0 .. MaxCopies] PROVE KeptOf(d, [d EXCEPT !.bonds = X])
    <2>1. [d EXCEPT !.bonds = X] = Tab(d.accounts, d.rooms, d.members, d.memories, d.goals, X)
      BY <1>1, Put
    <2>2. Tab(d.accounts, d.rooms, d.members, d.memories, d.goals, X) \in Ad!Database
      BY <1>1, TypedTab
    <2>3. Tab(d.accounts, d.rooms, d.members, d.memories, d.goals, X).memories = d.memories
      BY TabIs
    <2> QED BY <2>1, <2>2, <2>3 DEF KeptOf
  <1> QED BY <1>2, <1>3, <1>4, <1>5, <1>7, <1>8, <1>9, <1>10, <1>11

LEMMA TypedAccounts ==
    ASSUME NEW d \in Ad!Database, NEW u \in Users, NEW lost \in BOOLEAN
    PROVE  KeptOf(d, Ad!SqCreateAccount(d, u).db) /\ KeptOf(d, Ad!PgCreateAccount(d, u, lost).db)
  <1> DEFINE e == [d EXCEPT !.accounts = d.accounts \cup {u}]
  <1>1. KeptOf(d, d) /\ KeptOf(d, e)
    <2>1. d.accounts \cup {u} \in SUBSET Users
      BY TypedIs
    <2> QED BY <2>1, TypedPut
  <1>2. Ad!SqCreateAccount(d, u).db = e
    BY DEF Ad!SqCreateAccount, Ad!Did
  <1>3. Ad!PgCreateAccount(d, u, lost).db = IF u \notin d.accounts THEN e ELSE d
    BY DEF Ad!PgCreateAccount, Ad!NoRetry, Ad!If, Ad!Caught, Ad!Did
  <1> HIDE DEF e
  <1> QED BY <1>1, <1>2, <1>3

LEMMA TypedRooms ==
    ASSUME Ad!AdaptersAssumption, NEW d \in Ad!Database, NEW r \in Rooms, NEW lost \in BOOLEAN
    PROVE  /\ KeptOf(d, Ad!SqCreateRoom(d, r).db) /\ KeptOf(d, Ad!PgCreateRoom(d, r, lost).db)
           /\ KeptOf(d, Ad!SqRemoveRoom(d, r).db) /\ KeptOf(d, Ad!PgRemoveRoom(d, r, lost).db)
  <1> DEFINE In(f) == [f EXCEPT !.rooms = f.rooms \cup {r}]
             Out(f) == [f EXCEPT !.rooms = f.rooms \ {r}]
             Open(f) == Ad!If(r \notin f.rooms, f, In(f), "true")
             Close(f) == Ad!If(r \in f.rooms, f, Out(Ad!Emptied(f, r)), "true")
  <1>1. ASSUME NEW f \in Ad!Database PROVE KeptOf(f, In(f)) /\ KeptOf(f, Out(f))
    <2>1. f.rooms \cup {r} \in SUBSET Rooms /\ f.rooms \ {r} \in SUBSET Rooms
      BY TypedIs
    <2> QED BY <2>1, TypedPut
  <1>2. ASSUME NEW f \in Ad!Database PROVE KeptOf(f, Ad!Emptied(f, r))
    <2> DEFINE e == Ad!Emptied(f, r)
               M == [k \in Users \X Rooms |-> IF k[2] = r THEN <<>> ELSE f.members[k]]
    <2>1. IsTables(f) /\ f.accounts \in SUBSET Users /\ f.rooms \in SUBSET Rooms
          /\ f.members \in [Users \X Rooms -> MemberRows] /\ f.memories \in SUBSET CopyRecords
          /\ f.goals \in SUBSET GoalRecords /\ f.bonds \in [Users \X Users -> 0 .. MaxCopies]
      BY TypedIs
    <2>2. EmptiedAs(e, f, r)
      BY <2>1, EmptiedIs
    <2>3. <<>> \in MemberRows
      BY ShortLists
    <2>4. M \in [Users \X Rooms -> MemberRows]
      BY <2>1, <2>3
    <2> HIDE DEF M, e
    <2>5. /\ IsTables(e) /\ e.accounts = f.accounts /\ e.rooms = f.rooms /\ e.bonds = f.bonds
          /\ e.memories \subseteq f.memories /\ e.goals \subseteq f.goals /\ e.members = M
      BY <2>2 DEF EmptiedAs, M
    <2>6. e = Tab(e.accounts, e.rooms, e.members, e.memories, e.goals, e.bonds)
      BY <2>5, Zenon DEF IsTables, Tab
    <2>7. e.memories \in SUBSET CopyRecords /\ e.goals \in SUBSET GoalRecords
      BY <2>1, <2>5
    <2>8. Tab(e.accounts, e.rooms, e.members, e.memories, e.goals, e.bonds) \in Ad!Database
      BY <2>1, <2>4, <2>5, <2>7, TypedTab
    <2> QED BY <2>5, <2>6, <2>8 DEF KeptOf, e
  <1>3. \A f \in Ad!Database : KeptOf(f, f)
    BY TypedPut
  <1>4. Ad!SqCreateRoom(d, r).db = In(d) /\ Ad!SqRemoveRoom(d, r).db = Out(d)
    BY DEF Ad!SqCreateRoom, Ad!SqRemoveRoom, Ad!Did
  <1>5. \A f : Open(f).db = IF r \notin f.rooms THEN In(f) ELSE f
    BY DEF Ad!If, Ad!Did
  <1>6. \A f : Close(f).db = IF r \in f.rooms THEN Out(Ad!Emptied(f, r)) ELSE f
    BY DEF Ad!If, Ad!Did
  <1>7. Ad!PgCreateRoom(d, r, lost) = IF lost THEN Open(Open(d).db) ELSE Open(d)
    BY DEF Ad!PgCreateRoom, Ad!WithRetry
  <1>8. Ad!PgRemoveRoom(d, r, lost) = IF lost THEN Close(Close(d).db) ELSE Close(d)
    BY DEF Ad!PgRemoveRoom, Ad!WithRetry
  <1> HIDE DEF In, Out, Open, Close
  <1>9. ASSUME NEW f \in Ad!Database PROVE KeptOf(f, Open(f).db) /\ KeptOf(f, Close(f).db)
    <2>1. KeptOf(f, Open(f).db)
      BY <1>1, <1>3, <1>5, <1>9
    <2>2. Ad!Emptied(f, r) \in Ad!Database /\ Ad!Emptied(f, r).memories \subseteq f.memories
      BY <1>2, <1>9 DEF KeptOf
    <2>3. KeptOf(f, Out(Ad!Emptied(f, r)))
      BY <1>1, <2>2 DEF KeptOf
    <2>4. KeptOf(f, Close(f).db)
      BY <1>3, <1>6, <1>9, <2>3
    <2> QED BY <2>1, <2>4
  <1> QED BY <1>1, <1>4, <1>7, <1>8, <1>9 DEF KeptOf

LEMMA TypedMembers ==
    ASSUME Ad!AdaptersAssumption, NEW d \in Ad!Database, NEW u \in Users, NEW r \in Rooms,
           NEW st \in Ad!States, NEW lost \in BOOLEAN
    PROVE  /\ Len(d.members[<<u, r>>]) < MaxCopies => KeptOf(d, Ad!SqAddParticipant(d, u, r).db)
           /\ MaxCopies > 0 => KeptOf(d, Ad!PgAddParticipant(d, u, r, lost).db)
           /\ KeptOf(d, Ad!SqRemoveParticipant(d, u, r).db)
           /\ KeptOf(d, Ad!PgRemoveParticipant(d, u, r, lost).db)
           /\ KeptOf(d, Ad!SqSetParticipantUserState(d, u, r, st).db)
           /\ KeptOf(d, Ad!PgSetParticipantUserState(d, u, r, st, lost).db)
  <1> DEFINE k == <<u, r>>
             With(f, s) == [f EXCEPT !.members = [f.members EXCEPT ![k] = s]]
             Set(f) == With(f, Ad!Repeat(st, Len(f.members[k])))
             More(f) == With(f, Append(f.members[k], "none"))
  <1>0. MaxCopies \in Nat
    BY DEF Ad!AdaptersAssumption
  <1>1. ASSUME NEW f \in Ad!Database, NEW s \in MemberRows
        PROVE  KeptOf(f, With(f, s))
    <2> DEFINE X == [f.members EXCEPT ![k] = s]
    <2>1. f.members \in [Users \X Rooms -> MemberRows]
      BY <1>1, TypedIs
    <2>2. X \in [Users \X Rooms -> MemberRows]
      BY <2>1
    <2> HIDE DEF X
    <2>3. KeptOf(f, [f EXCEPT !.members = X])
      BY <1>1, <2>2, TypedPut
    <2> QED BY <2>3 DEF X
  <1>2. ASSUME NEW f \in Ad!Database
        PROVE  f.members[k] \in Seq(Ad!States) /\ Len(f.members[k]) <= MaxCopies
               /\ Len(f.members[k]) \in Nat
    <2>1. f.members[k] \in MemberRows
      BY <1>2, TypedIs
    <2> QED BY <2>1, RowLists
  <1>3. ASSUME NEW f \in Ad!Database PROVE KeptOf(f, Set(f))
    <2> DEFINE n == Len(f.members[k])
    <2>1. n \in Nat /\ n <= MaxCopies
      BY <1>2, <1>3
    <2> HIDE DEF n
    <2>2. Ad!Repeat(st, n) \in Seq(Ad!States) /\ Len(Ad!Repeat(st, n)) = n
      <3>1. Seq({st}) \subseteq Seq(Ad!States)
        OBVIOUS
      <3> QED BY <2>1, <3>1, Repeated
    <2>3. KeptOf(f, With(f, Ad!Repeat(st, n)))
      BY <1>1, <1>3, <2>1, <2>2, RowLists
    <2> QED BY <2>3 DEF n
  <1>4. ASSUME Len(d.members[k]) < MaxCopies PROVE KeptOf(d, More(d))
    <2> DEFINE s == d.members[k]
    <2>1. s \in Seq(Ad!States) /\ Len(s) < MaxCopies /\ Len(s) \in Nat /\ "none" \in Ad!States
      BY <1>2, <1>4 DEF Ad!States
    <2> HIDE DEF s
    <2>2. Append(s, "none") \in Seq(Ad!States) /\ Len(Append(s, "none")) <= MaxCopies
      BY <1>0, <2>1
    <2>3. KeptOf(d, With(d, Append(s, "none")))
      BY <1>1, <2>2, RowLists
    <2> QED BY <2>3 DEF s
  <1>5. KeptOf(d, With(d, <<>>)) /\ (MaxCopies > 0 => KeptOf(d, With(d, <<"none">>)))
    <2> HIDE DEF With
    <2> QED BY <1>1, ShortLists
  <1>7. KeptOf(d, d)
    BY TypedPut
  <1>8. Ad!SqAddParticipant(d, u, r).db = More(d)
    BY DEF Ad!SqAddParticipant, Ad!Did
  <1>9. Ad!PgAddParticipant(d, u, r, lost).db = IF Ad!Joins(d, u, r) THEN With(d, <<"none">>) ELSE d
    BY DEF Ad!PgAddParticipant, Ad!NoRetry, Ad!If, Ad!Caught, Ad!Did
  <1>10. /\ Ad!SqRemoveParticipant(d, u, r).db = With(d, <<>>)
         /\ Ad!PgRemoveParticipant(d, u, r, lost).db = With(d, <<>>)
    BY DEF Ad!SqRemoveParticipant, Ad!PgRemoveParticipant, Ad!NoRetry, Ad!Caught, Ad!Did
  <1>11. Ad!SqSetParticipantUserState(d, u, r, st).db = Set(d)
    BY DEF Ad!SqSetParticipantUserState, Ad!Did
  <1>12. Ad!PgSetParticipantUserState(d, u, r, st, lost).db = IF lost THEN Set(Set(d)) ELSE Set(d)
    BY DEF Ad!PgSetParticipantUserState, Ad!WithRetry, Ad!Did
  <1> HIDE DEF With, Set, More
  <1>13. KeptOf(d, Set(d)) /\ KeptOf(d, Set(Set(d)))
    BY <1>3 DEF KeptOf
  <1> QED BY <1>4, <1>5, <1>7, <1>8, <1>9, <1>10, <1>11, <1>12, <1>13

LEMMA TypedBonds ==
    ASSUME Ad!AdaptersAssumption, NEW d \in Ad!Database, NEW u \in Users, NEW v \in Users,
           NEW lost \in BOOLEAN, d.bonds[<<u, v>>] < MaxCopies
    PROVE  /\ KeptOf(d, Ad!SqCreateRelationship(d, u, v).db)
           /\ KeptOf(d, Ad!PgCreateRelationship(d, u, v, lost).db)
  <1> DEFINE X == [d.bonds EXCEPT ![<<u, v>>] = @ + 1]
             e == [d EXCEPT !.bonds = X]
  <1>1. X \in [Users \X Users -> 0 .. MaxCopies]
    <2>1. d.bonds \in [Users \X Users -> 0 .. MaxCopies] /\ MaxCopies \in Nat
      BY TypedIs DEF Ad!AdaptersAssumption
    <2>2. d.bonds[<<u, v>>] \in 0 .. MaxCopies
      BY <2>1
    <2>3. d.bonds[<<u, v>>] + 1 \in 0 .. MaxCopies
      BY <2>1, <2>2
    <2> QED BY <2>1, <2>3
  <1>2. Ad!SqCreateRelationship(d, u, v).db = e
    BY DEF Ad!SqCreateRelationship, Ad!Did
  <1>3. Ad!PgCreateRelationship(d, u, v, lost).db = IF {u, v} \subseteq d.accounts THEN e ELSE d
    BY DEF Ad!PgCreateRelationship, Ad!NoRetry, Ad!If, Ad!Caught, Ad!Did
  <1> HIDE DEF X
  <1>4. KeptOf(d, e) /\ KeptOf(d, d)
    BY <1>1, TypedPut
  <1> HIDE DEF e
  <1> QED BY <1>2, <1>3, <1>4

LEMMA OneMore ==
    ASSUME NEW S, IsFiniteSet(S), NEW x
    PROVE  /\ IsFiniteSet(S \cup {x}) /\ Cardinality(S \cup {x}) \in Nat
           /\ Cardinality(S \cup {x}) <= Cardinality(S) + 1
  <1>1. IsFiniteSet(S \cup {x}) /\ (x \notin S => Cardinality(S \cup {x}) = Cardinality(S) + 1)
    BY FS_AddElement
  <1>2. x \in S => S \cup {x} = S
    OBVIOUS
  <1>3. Cardinality(S \cup {x}) \in Nat /\ Cardinality(S) \in Nat
    BY <1>1, FS_CardinalityType
  <1> QED BY <1>1, <1>2, <1>3

(* A new row of some has a number up to as many as they are. *)
LEMMA FreshBound ==
    ASSUME NEW R, IsFiniteSet(R), \A x \in R : x.copy \in Nat
    PROVE  Ad!Fresh(R) \in Nat /\ Ad!Fresh(R) <= Cardinality(R)
  <1> DEFINE N == {row.copy : row \in R}
             f == [row \in R |-> row.copy]
  <1>1. f \in Surjection(R, N)
    BY DEF Surjection
  <1>2. N \in SUBSET Nat
    OBVIOUS
  <1>3. Ad!Fresh(R) = NextOf(N)
    BY DEF Ad!Fresh, NextOf
  <1> HIDE DEF N, f
  <1>4. IsFiniteSet(N) /\ Cardinality(N) <= Cardinality(R)
    BY <1>1, FS_Surjection
  <1>5. NextOf(N) \in Nat /\ NextOf(N) <= Cardinality(N)
    BY <1>2, <1>4, FreeNumber
  <1>6. Cardinality(N) \in Nat /\ Cardinality(R) \in Nat
    BY <1>4, FS_CardinalityType
  <1> QED BY <1>3, <1>4, <1>5, <1>6

LEMMA TwinsFinite ==
    ASSUME Ad!AdaptersAssumption, NEW d \in Ad!Database, NEW g
    PROVE  /\ IsFiniteSet(Ad!Twins(d, g)) /\ Cardinality(Ad!Twins(d, g)) \in Nat
           /\ \A x \in Ad!Twins(d, g) : x.copy \in Nat
  <1> DEFINE T == Ad!Twins(d, g)
             N == 0 .. MaxCopies
             K == {"IN_PROGRESS", "DONE"}
             f == [x \in T |-> <<x.copy, x.status>>]
  <1>1. MaxCopies \in Nat
    BY DEF Ad!AdaptersAssumption
  <1>2. T \subseteq GoalRecords /\ \A x \in T : x.goal = g
    BY TypedIs DEF Ad!Twins
  <1>3. IsFiniteSet(N \X K)
    <2>1. IsFiniteSet(N)
      BY <1>1, FS_Interval
    <2>2. IsFiniteSet({}) /\ IsFiniteSet({"DONE"}) /\ IsFiniteSet(K)
      BY FS_EmptySet, FS_AddElement, FS_Singleton
    <2> QED BY <2>1, <2>2, FS_Product
  <1>4. \A x \in T : x.copy \in N /\ x.status \in K
    BY <1>2 DEF GoalRecords
  <1>5. \A x, y \in T : x.copy = y.copy /\ x.status = y.status => x = y
    BY <1>2 DEF GoalRecords
  <1>6. f \in Injection(T, N \X K)
    BY <1>4, <1>5 DEF Injection, IsInjective
  <1> HIDE DEF T, N, K, f
  <1>7. IsFiniteSet(T)
    BY <1>3, <1>6, FS_Injection
  <1>8. Cardinality(T) \in Nat
    BY <1>7, FS_CardinalityType
  <1>9. \A x \in T : x.copy \in Nat
    BY <1>1, <1>4 DEF N
  <1> QED BY <1>7, <1>8, <1>9 DEF T

LEMMA GoalGained ==
    ASSUME Ad!AdaptersAssumption, NEW d \in Ad!Database, NEW g \in Plans,
           Cardinality(Ad!Twins(d, g)) <= MaxCopies,
           NEW e, e = [d EXCEPT !.goals = d.goals \cup {Ad!GoalRow(d, g)}]
    PROVE  KeptOf(d, e) /\ Cardinality(Ad!Twins(e, g)) <= Cardinality(Ad!Twins(d, g)) + 1
  <1> DEFINE x == Ad!GoalRow(d, g)
             T == Ad!Twins(d, g)
  <1>0. MaxCopies \in Nat
    BY DEF Ad!AdaptersAssumption
  <1>1. IsFiniteSet(T) /\ Cardinality(T) \in Nat /\ \A y \in T : y.copy \in Nat
    BY TwinsFinite
  <1>2. x = [goal |-> g, copy |-> Ad!Fresh(T), status |-> "IN_PROGRESS"]
    BY DEF Ad!GoalRow
  <1>3. Ad!Fresh(T) \in 0 .. MaxCopies
    <2> HIDE DEF T
    <2>1. Ad!Fresh(T) \in Nat /\ Ad!Fresh(T) <= Cardinality(T)
      BY <1>1, FreshBound
    <2>2. Cardinality(T) <= MaxCopies
      BY DEF T
    <2> QED BY <1>0, <1>1, <2>1, <2>2
  <1>4. x \in GoalRecords /\ x.goal = g
    BY <1>2, <1>3 DEF GoalRecords
  <1> HIDE DEF x, T
  <1>5. d.goals \cup {x} \in SUBSET GoalRecords
    BY <1>4, TypedIs
  <1>6. KeptOf(d, e) /\ e.goals = d.goals \cup {x}
    BY <1>5, TypedPut DEF x
  <1>7. Ad!Twins(e, g) = T \cup {x}
    BY <1>4, <1>6 DEF Ad!Twins, T
  <1>8. Cardinality(T \cup {x}) <= Cardinality(T) + 1
    BY <1>1, OneMore
  <1> QED BY <1>6, <1>7, <1>8 DEF T

LEMMA TypedGoals ==
    ASSUME Ad!AdaptersAssumption, NEW d \in Ad!Database, NEW g \in Plans,
           NEW st \in {"IN_PROGRESS", "DONE"}, NEW lost \in BOOLEAN
    PROVE  /\ Cardinality(Ad!Twins(d, g)) < MaxCopies =>
                KeptOf(d, Ad!SqCreateGoal(d, g).db) /\ KeptOf(d, Ad!PgCreateGoal(d, g, lost).db)
           /\ KeptOf(d, Ad!SqUpdateGoalStatus(d, g, st).db)
           /\ KeptOf(d, Ad!PgUpdateGoalStatus(d, g, st, lost).db)
           /\ KeptOf(d, Ad!SqRemoveGoal(d, g).db) /\ KeptOf(d, Ad!PgRemoveGoal(d, g, lost).db)
  <1> DEFINE More(f) == [f EXCEPT !.goals = f.goals \cup {Ad!GoalRow(f, g)}]
             Mark(f) == [f EXCEPT !.goals = Marked(f.goals, g, st)]
             First(f) == [f EXCEPT !.goals = f.goals \ {row \in Ad!Twins(f, g) : row.copy = 0}]
             Op(f) == Ad!If(Ad!Known(f, Aim[g]), f, More(f), "true")
  <1>1. ASSUME NEW f \in Ad!Database
        PROVE  KeptOf(f, Mark(f)) /\ KeptOf(f, First(f))
    <2>1. f.goals \in SUBSET GoalRecords
      BY TypedIs
    <2>2. Marked(f.goals, g, st) \in SUBSET GoalRecords
      BY <2>1 DEF Marked, GoalRecords
    <2>3. f.goals \ {row \in Ad!Twins(f, g) : row.copy = 0} \in SUBSET GoalRecords
      BY <2>1
    <2> QED BY <2>2, <2>3, TypedPut
  <1>2. Ad!SqUpdateGoalStatus(d, g, st).db = Mark(d)
    BY DEF Ad!SqUpdateGoalStatus, Ad!Did, Marked
  <1>3. Ad!PgUpdateGoalStatus(d, g, st, lost).db = IF lost THEN Mark(Mark(d)) ELSE Mark(d)
    BY DEF Ad!PgUpdateGoalStatus, Ad!WithRetry, Ad!Did, Marked
  <1>4. Ad!SqRemoveGoal(d, g).db = First(d)
    BY DEF Ad!SqRemoveGoal, Ad!Did
  <1>5. Ad!PgRemoveGoal(d, g, lost).db = IF lost THEN First(First(d)) ELSE First(d)
    BY DEF Ad!PgRemoveGoal, Ad!WithRetry, Ad!Did
  <1>8. Ad!SqCreateGoal(d, g).db = More(d)
    BY DEF Ad!SqCreateGoal, Ad!Did
  <1>9. Ad!PgCreateGoal(d, g, lost) = IF lost THEN Op(Op(d).db) ELSE Op(d)
    BY DEF Ad!PgCreateGoal, Ad!WithRetry
  <1>10. \A f : Op(f).db = IF Ad!Known(f, Aim[g]) THEN More(f) ELSE f
    BY DEF Ad!If, Ad!Did
  <1>11. KeptOf(d, d)
    BY TypedPut
  <1>12. ASSUME Cardinality(Ad!Twins(d, g)) < MaxCopies
         PROVE  KeptOf(d, More(d)) /\ KeptOf(More(d), More(More(d)))
    <2>1. Cardinality(Ad!Twins(d, g)) \in Nat /\ MaxCopies \in Nat
      BY TwinsFinite DEF Ad!AdaptersAssumption
    <2> DEFINE e == More(d)
    <2>2. KeptOf(d, e) /\ Cardinality(Ad!Twins(e, g)) <= Cardinality(Ad!Twins(d, g)) + 1
      BY <1>12, <2>1, GoalGained
    <2> HIDE DEF e
    <2>3. e \in Ad!Database
      BY <2>2 DEF KeptOf
    <2>4. Cardinality(Ad!Twins(e, g)) \in Nat
      BY <2>3, TwinsFinite
    <2>5. Cardinality(Ad!Twins(e, g)) <= MaxCopies
      BY <1>12, <2>1, <2>2, <2>4
    <2>6. KeptOf(e, More(e))
      BY <2>3, <2>5, GoalGained
    <2> QED BY <2>2, <2>6 DEF e
  <1> HIDE DEF More, Mark, First, Op
  <1>13. KeptOf(d, Mark(Mark(d))) /\ KeptOf(d, First(First(d)))
    BY <1>1 DEF KeptOf
  <1>14. ASSUME Cardinality(Ad!Twins(d, g)) < MaxCopies
         PROVE  KeptOf(d, Ad!SqCreateGoal(d, g).db) /\ KeptOf(d, Ad!PgCreateGoal(d, g, lost).db)
    <2>1. KeptOf(d, More(d)) /\ KeptOf(d, More(More(d)))
      BY <1>12, <1>14 DEF KeptOf
    <2>2. KeptOf(d, Op(d).db) /\ KeptOf(d, Op(Op(d).db).db)
      BY <1>10, <1>11, <2>1
    <2> QED BY <1>8, <1>9, <2>1, <2>2
  <1> QED BY <1>1, <1>2, <1>3, <1>4, <1>5, <1>13, <1>14

LEMMA GoalsLeft ==
    ASSUME NEW d \in Ad!Database, NEW r, NEW lost \in BOOLEAN
    PROVE  KeptOf(d, Ad!SqRemoveAllGoals(d, r).db) /\ KeptOf(d, Ad!PgRemoveAllGoals(d, r, lost).db)
  <1> DEFINE Else(f) == [f EXCEPT !.goals = {row \in f.goals : Aim[row.goal].room # r}]
  <1>1. ASSUME NEW f \in Ad!Database PROVE KeptOf(f, Else(f))
    <2>1. {row \in f.goals : Aim[row.goal].room # r} \in SUBSET GoalRecords
      BY TypedIs
    <2> QED BY <2>1, TypedPut
  <1>2. Ad!SqRemoveAllGoals(d, r).db = Else(d)
    BY DEF Ad!SqRemoveAllGoals, Ad!Did
  <1>3. Ad!PgRemoveAllGoals(d, r, lost).db = IF lost THEN Else(Else(d)) ELSE Else(d)
    BY DEF Ad!PgRemoveAllGoals, Ad!WithRetry, Ad!Did
  <1> HIDE DEF Else
  <1>4. KeptOf(d, Else(Else(d)))
    BY <1>1 DEF KeptOf
  <1> QED BY <1>1, <1>2, <1>3, <1>4

LEMMA TypedMemories ==
    ASSUME NEW d \in Ad!Database, NEW m, NEW r, NEW lost \in BOOLEAN
    PROVE  /\ KeptOf(d, Ad!SqRemoveMemory(d, m).db) /\ KeptOf(d, Ad!PgRemoveMemory(d, m, lost).db)
           /\ KeptOf(d, Ad!SqRemoveAllMemories(d, r).db)
           /\ KeptOf(d, Ad!PgRemoveAllMemories(d, r, lost).db)
  <1> DEFINE One(f) == [f EXCEPT !.memories = f.memories \ {row \in Ad!Copies(f, m) : row.copy = 0}]
             All(f) == [f EXCEPT !.memories = f.memories \ Ad!InRoom(f, r)]
  <1>1. ASSUME NEW f \in Ad!Database PROVE KeptOf(f, One(f)) /\ KeptOf(f, All(f))
    <2>1. /\ f.memories \ {row \in Ad!Copies(f, m) : row.copy = 0} \in SUBSET f.memories
          /\ f.memories \ Ad!InRoom(f, r) \in SUBSET f.memories
      OBVIOUS
    <2> QED BY <2>1, TypedPut
  <1>2. Ad!SqRemoveMemory(d, m).db = One(d) /\ Ad!SqRemoveAllMemories(d, r).db = All(d)
    BY DEF Ad!SqRemoveMemory, Ad!SqRemoveAllMemories, Ad!Did
  <1>3. Ad!PgRemoveMemory(d, m, lost).db = IF lost THEN One(One(d)) ELSE One(d)
    BY DEF Ad!PgRemoveMemory, Ad!WithRetry, Ad!Did
  <1>4. Ad!PgRemoveAllMemories(d, r, lost).db = IF lost THEN All(All(d)) ELSE All(d)
    BY DEF Ad!PgRemoveAllMemories, Ad!WithRetry, Ad!Did
  <1> HIDE DEF One, All
  <1>5. KeptOf(d, One(One(d))) /\ KeptOf(d, All(All(d)))
    BY <1>1 DEF KeptOf
  <1> QED BY <1>1, <1>2, <1>3, <1>4, <1>5

(* A row of a memory that has less than as many as it may have. *)
LEMMA MemoryGained ==
    ASSUME Ad!AdaptersAssumption, NEW d \in Ad!Database, IsFiniteSet(d.memories),
           NEW m \in Messages, NEW q \in BOOLEAN, Cardinality(Ad!Copies(d, m)) <= MaxCopies,
           NEW e, e = [d EXCEPT !.memories = d.memories \cup {Ad!MemoryRow(d, m, q)}]
    PROVE  /\ e \in Ad!Database /\ IsFiniteSet(e.memories)
           /\ Cardinality(Ad!Copies(e, m)) \in Nat
           /\ Cardinality(Ad!Copies(e, m)) <= Cardinality(Ad!Copies(d, m)) + 1
           /\ \A n : n # m => Ad!Copies(e, n) = Ad!Copies(d, n)
  <1> DEFINE x == Ad!MemoryRow(d, m, q)
             C == Ad!Copies(d, m)
  <1>1. d.memories \in SUBSET CopyRecords /\ MaxCopies \in Nat
    BY TypedIs DEF Ad!AdaptersAssumption
  <1>2. C \subseteq d.memories
    BY DEF Ad!Copies
  <1>3. IsFiniteSet(C) /\ \A y \in C : y.copy \in Nat
    BY <1>1, <1>2, FS_Subset DEF CopyRecords
  <1>4. x = [msg |-> m, copy |-> Ad!Fresh(C), unique |-> q]
    BY DEF Ad!MemoryRow
  <1>5. Ad!Fresh(C) \in 0 .. MaxCopies
    <2> HIDE DEF C
    <2>1. Ad!Fresh(C) \in Nat /\ Ad!Fresh(C) <= Cardinality(C)
      BY <1>3, FreshBound
    <2>2. Cardinality(C) <= MaxCopies /\ Cardinality(C) \in Nat
      BY <1>3, FS_CardinalityType DEF C
    <2> QED BY <1>1, <2>1, <2>2
  <1>6. x \in CopyRecords /\ x.msg = m
    BY <1>4, <1>5 DEF CopyRecords
  <1> HIDE DEF x, C
  <1>7. d.memories \cup {x} \in SUBSET CopyRecords
    BY <1>1, <1>6
  <1>8. e \in Ad!Database /\ e.memories = d.memories \cup {x}
    BY <1>7, TypedPut DEF x
  <1>9. Ad!Copies(e, m) = C \cup {x} /\ \A n : n # m => Ad!Copies(e, n) = Ad!Copies(d, n)
    BY <1>6, <1>8 DEF Ad!Copies, C
  <1>10. IsFiniteSet(e.memories)
    BY <1>8, OneMore
  <1>11. Cardinality(C \cup {x}) \in Nat /\ Cardinality(C \cup {x}) <= Cardinality(C) + 1
    BY <1>3, OneMore
  <1> QED BY <1>8, <1>9, <1>10, <1>11 DEF C

LEMMA TypedInsert ==
    ASSUME Ad!AdaptersAssumption, NEW d \in Ad!Database, IsFiniteSet(d.memories),
           NEW m \in Messages, NEW q \in BOOLEAN, NEW lost \in BOOLEAN,
           Cardinality(Ad!Copies(d, m)) < MaxCopies
    PROVE  Ad!PgCreateMemory(d, m, q, lost).db \in Ad!Database
  <1> DEFINE More(f, z) == [f EXCEPT !.memories = f.memories \cup {Ad!MemoryRow(f, m, z)}]
             Insert(f, z) == Ad!If(Insertable(f, m), f, More(f, z), "true")
             e == More(d, q)
  <1>1. Ad!PgCreateMemory(d, m, q, lost)
          = IF lost THEN Insert(Insert(d, q).db, Ad!PgIsUnique(Insert(d, q).db, m)) ELSE Insert(d, q)
    BY DEF Ad!PgCreateMemory, Insertable
  <1>2. \A f, z : Insert(f, z).db = IF Insertable(f, m) THEN More(f, z) ELSE f
    BY DEF Ad!If, Ad!Did
  <1>3. Cardinality(Ad!Copies(d, m)) \in Nat /\ MaxCopies \in Nat
    <2>1. IsFiniteSet(Ad!Copies(d, m))
      BY FS_Subset DEF Ad!Copies
    <2> QED BY <2>1, FS_CardinalityType DEF Ad!AdaptersAssumption
  <1>4. Cardinality(Ad!Copies(d, m)) <= MaxCopies
    BY <1>3
  <1>5. /\ e \in Ad!Database /\ IsFiniteSet(e.memories) /\ Cardinality(Ad!Copies(e, m)) \in Nat
        /\ Cardinality(Ad!Copies(e, m)) <= Cardinality(Ad!Copies(d, m)) + 1
    BY <1>4, MemoryGained
  <1> HIDE DEF e
  <1>6. Cardinality(Ad!Copies(e, m)) <= MaxCopies
    BY <1>3, <1>5
  <1>7. \A z \in BOOLEAN : More(d, z) \in Ad!Database /\ More(e, z) \in Ad!Database
    BY <1>4, <1>5, <1>6, MemoryGained
  <1>8. \A f : Ad!PgIsUnique(f, m) \in BOOLEAN
    BY DEF Ad!PgIsUnique
  <1>9. e = More(d, q)
    BY DEF e
  <1> HIDE DEF More, Insert
  <1>10. Insert(d, q).db = d \/ Insert(d, q).db = e
    BY <1>2, <1>9
  <1>11. \A z \in BOOLEAN : Insert(d, z).db \in Ad!Database /\ Insert(e, z).db \in Ad!Database
    BY <1>2, <1>5, <1>7
  <1> QED BY <1>1, <1>8, <1>10, <1>11

AdaptersTypes ==
    /\ Ad!TypeOK
    /\ ~adParted => \A m \in Messages : Cardinality(Ad!Copies(adSq, m)) <= MaxCopies

(* Fewer memories, fewer rows of each. *)
LEMMA CopiesLeft ==
    ASSUME NEW d, IsFiniteSet(d.memories), NEW e, e.memories \subseteq d.memories, NEW m
    PROVE  /\ Cardinality(Ad!Copies(e, m)) \in Nat /\ Cardinality(Ad!Copies(d, m)) \in Nat
           /\ Cardinality(Ad!Copies(e, m)) <= Cardinality(Ad!Copies(d, m))
  <1>1. Ad!Copies(e, m) \subseteq Ad!Copies(d, m) /\ Ad!Copies(d, m) \subseteq d.memories
    BY DEF Ad!Copies
  <1>2. IsFiniteSet(Ad!Copies(d, m))
    BY <1>1, FS_Subset
  <1> QED BY <1>1, <1>2, FS_Subset, FS_CardinalityType

LEMMA BothTyped ==
    ASSUME Ad!AdaptersAssumption, AdaptersInv, AdaptersInv', AdaptersTypes, ~adParted,
           NEW s, NEW p, NEW strays, Ad!Both(s, p, strays), NEW lost \in BOOLEAN, Ad!Lost(lost),
           KeptOf(adSq, s.db), KeptOf(adPg, p.db)
    PROVE  AdaptersTypes'
  <1>1. adSq' = s.db /\ adPg' = p.db
    BY DEF Ad!Both
  <1>2. adSq' \in Ad!Database /\ adPg' \in Ad!Database /\ adSq'.memories \subseteq adSq.memories
    BY <1>1 DEF KeptOf
  <1>3. adCreating' \in Creation /\ adParted' \in BOOLEAN
    BY DEF AdaptersInv
  <1>4. adFaults' \in 0 .. MaxLost
    <2>1. adFaults \in 0 .. MaxLost /\ MaxLost \in Nat
      BY DEF AdaptersTypes, Ad!TypeOK, Ad!AdaptersAssumption
    <2> QED BY <2>1 DEF Ad!Lost
  <1>5. Ad!TypeOK'
    BY <1>2, <1>3, <1>4 DEF Ad!TypeOK, Ad!Database, Ad!Pairs, Creation
  <1>6. ASSUME NEW m \in Messages PROVE Cardinality(Ad!Copies(adSq', m)) <= MaxCopies
    <2>1. IsFiniteSet(adSq.memories)
      BY DEF AdaptersInv, Matched, Memorised
    <2>2. Cardinality(Ad!Copies(adSq, m)) <= MaxCopies /\ MaxCopies \in Nat
      BY DEF AdaptersTypes, Ad!AdaptersAssumption
    <2>3. /\ Cardinality(Ad!Copies(adSq', m)) \in Nat /\ Cardinality(Ad!Copies(adSq, m)) \in Nat
          /\ Cardinality(Ad!Copies(adSq', m)) <= Cardinality(Ad!Copies(adSq, m))
      BY <1>2, <2>1, CopiesLeft
    <2> QED BY <2>2, <2>3
  <1>7. (\A m \in Messages : Cardinality(Ad!Copies(adSq, m)) <= MaxCopies)'
    BY <1>6 DEF Ad!Copies
  <1> QED BY <1>5, <1>7 DEF AdaptersTypes

(* A memory that is being created has a row less on postgres. *)
LEMMA RowToCome ==
    ASSUME Ad!AdaptersAssumption, AdaptersInv, AdaptersTypes, ~adParted, NEW m \in Messages,
           adCreating[m] # "no"
    PROVE  Cardinality(Ad!Copies(adPg, m)) < MaxCopies
  <1> DEFINE S == adSq.memories
             P == adPg.memories
             N == Numbers(P, m)
             L == Numbers(S, m)
             C == Ad!Copies(adPg, m)
             D == Ad!Copies(adSq, m)
             f == [row \in C |-> row.copy]
             h == [row \in D |-> row.copy]
  <1>1. Memorised(S) /\ Memorised(P) /\ L = N \cup {NextOf(N)}
    BY DEF AdaptersInv, Matched
  <1>2. /\ IsFiniteSet(N) /\ NextOf(N) \notin N
    BY <1>1, NumbersAre
  <1>3. f \in Injection(C, N)
    <2>1. N = {row.copy : row \in C}
      BY DEF Numbers, Ad!Copies
    <2>2. \A x, y \in C : x.copy = y.copy => x = y
      BY <1>1 DEF Memorised, Ad!Copies
    <2> HIDE DEF C, N
    <2> QED BY <2>1, <2>2 DEF Injection, IsInjective
  <1>4. h \in Surjection(D, L)
    <2>1. L = {row.copy : row \in D}
      BY DEF Numbers, Ad!Copies
    <2> HIDE DEF D, L
    <2> QED BY <2>1 DEF Surjection
  <1>5. IsFiniteSet(D)
    <2>1. D \subseteq S /\ IsFiniteSet(S)
      BY <1>1 DEF Ad!Copies, Memorised
    <2> QED BY <2>1, FS_Subset
  <1>6. Cardinality(D) <= MaxCopies /\ MaxCopies \in Nat
    BY DEF AdaptersTypes, Ad!AdaptersAssumption
  <1> HIDE DEF N, L, C, D, f, h
  <1>7. IsFiniteSet(C) /\ Cardinality(C) <= Cardinality(N)
    BY <1>2, <1>3, FS_Injection
  <1>8. Cardinality(L) <= Cardinality(D)
    BY <1>4, <1>5, FS_Surjection
  <1>9. IsFiniteSet(L) /\ Cardinality(L) = Cardinality(N) + 1
    BY <1>1, <1>2, FS_AddElement
  <1>10. /\ Cardinality(C) \in Nat /\ Cardinality(N) \in Nat /\ Cardinality(L) \in Nat
         /\ Cardinality(D) \in Nat
    BY <1>2, <1>5, <1>7, <1>9, FS_CardinalityType
  <1>11. Cardinality(C) < MaxCopies
    BY <1>6, <1>7, <1>8, <1>9, <1>10
  <1> QED BY <1>11 DEF C

LEMMA MemoriesTyped ==
    ASSUME Ad!AdaptersAssumption, AdaptersInv, AdaptersInv', AdaptersTypes, ~adParted,
           NEW m \in Messages,
           Ad!CreateMemory(m) \/ Ad!SearchSimilar(m)
             \/ \E lost \in BOOLEAN : Ad!Lost(lost) /\ Ad!InsertMemory(m, lost)
    PROVE  AdaptersTypes'
  <1>1. /\ adSq \in Ad!Database /\ adPg \in Ad!Database /\ adFaults \in 0 .. MaxLost
        /\ MaxLost \in Nat /\ MaxCopies \in Nat
        /\ \A n \in Messages : Cardinality(Ad!Copies(adSq, n)) <= MaxCopies
    BY DEF AdaptersTypes, Ad!TypeOK, Ad!AdaptersAssumption
  <1>2. adCreating' \in Creation /\ adParted' \in BOOLEAN
    BY DEF AdaptersInv
  <1>3. IsFiniteSet(adSq.memories) /\ IsFiniteSet(adPg.memories)
    BY DEF AdaptersInv, Matched, Memorised
  <1>4. SUFFICES /\ adSq' \in Ad!Database /\ adPg' \in Ad!Database /\ adFaults' \in 0 .. MaxLost
                 /\ \A n \in Messages : Cardinality(Ad!Copies(adSq', n)) <= MaxCopies
    <2>1. Ad!TypeOK'
      BY <1>2, <1>4 DEF Ad!TypeOK, Ad!Database, Ad!Pairs, Creation
    <2>2. (\A n \in Messages : Cardinality(Ad!Copies(adSq, n)) <= MaxCopies)'
      BY <1>4 DEF Ad!Copies
    <2> QED BY <2>1, <2>2 DEF AdaptersTypes
  <1>5. CASE Ad!CreateMemory(m)
    <2> DEFINE q == Ad!SqIsUnique(adSq, m)
               replaced == IF m \in Named THEN Ad!Copies(adSq, m) ELSE {}
               rest == [adSq EXCEPT !.memories = adSq.memories \ replaced]
               full == [rest EXCEPT !.memories = rest.memories \cup {Ad!MemoryRow(rest, m, q)}]
    <2>1. adPg' = adPg /\ adFaults' = adFaults /\ adSq' \in {adSq, Ad!SqCreateMemory(adSq, m, q).db}
      <3>1. Ad!Did(adSq, "true").db = adSq
        BY DEF Ad!Did
      <3> HIDE DEF q
      <3> QED BY <1>5, <3>1 DEF Ad!CreateMemory, q
    <2>2. Ad!SqCreateMemory(adSq, m, q).db \in {adSq, full}
      <3>1. Ad!Did(adSq, "throws").db = adSq /\ Ad!Did(full, "true").db = full
        BY DEF Ad!Did
      <3> QED BY <3>1 DEF Ad!SqCreateMemory
    <2>3. Cardinality(Ad!Copies(adSq, m)) < MaxCopies
      BY <1>5, CountIs DEF Ad!CreateMemory
    <2>4. q \in BOOLEAN
      BY DEF Ad!SqIsUnique
    <2>5. KeptOf(adSq, rest)
      <3>1. adSq.memories \ replaced \in SUBSET adSq.memories
        OBVIOUS
      <3> HIDE DEF replaced
      <3> QED BY <1>1, <3>1, TypedPut
    <2> HIDE DEF q, rest
    <2>6. rest \in Ad!Database /\ rest.memories \subseteq adSq.memories /\ IsFiniteSet(rest.memories)
      BY <1>3, <2>5, FS_Subset DEF KeptOf
    <2>7. \A n : /\ Cardinality(Ad!Copies(rest, n)) \in Nat /\ Cardinality(Ad!Copies(adSq, n)) \in Nat
                 /\ Cardinality(Ad!Copies(rest, n)) <= Cardinality(Ad!Copies(adSq, n))
      BY <1>3, <2>6, CopiesLeft
    <2>8. Cardinality(Ad!Copies(rest, m)) < MaxCopies /\ Cardinality(Ad!Copies(rest, m)) <= MaxCopies
      BY <1>1, <2>3, <2>7
    <2>9. /\ full \in Ad!Database /\ Cardinality(Ad!Copies(full, m)) \in Nat
          /\ Cardinality(Ad!Copies(full, m)) <= Cardinality(Ad!Copies(rest, m)) + 1
          /\ \A n : n # m => Ad!Copies(full, n) = Ad!Copies(rest, n)
      BY <2>4, <2>6, <2>8, MemoryGained
    <2> HIDE DEF full
    <2>10. Cardinality(Ad!Copies(full, m)) <= MaxCopies
      BY <1>1, <2>7, <2>8, <2>9
    <2>11. \A n \in Messages : Cardinality(Ad!Copies(rest, n)) <= MaxCopies
      BY <1>1, <2>7
    <2>12. \A n \in Messages : Cardinality(Ad!Copies(full, n)) <= MaxCopies
      BY <2>9, <2>10, <2>11
    <2> QED BY <1>1, <2>1, <2>2, <2>9, <2>12
  <1>6. CASE Ad!SearchSimilar(m)
    <2>1. adSq' = adSq /\ adPg' = adPg /\ adFaults' = adFaults
      BY <1>6 DEF Ad!SearchSimilar
    <2> QED BY <1>1, <2>1
  <1>7. ASSUME NEW lost \in BOOLEAN, Ad!Lost(lost), Ad!InsertMemory(m, lost)
        PROVE  /\ adSq' \in Ad!Database /\ adPg' \in Ad!Database /\ adFaults' \in 0 .. MaxLost
               /\ \A n \in Messages : Cardinality(Ad!Copies(adSq', n)) <= MaxCopies
    <2> DEFINE q == adCreating[m] = "unique"
    <2>1. /\ adSq' = adSq /\ adPg' = Ad!PgCreateMemory(adPg, m, q, lost).db
          /\ adCreating[m] \in {"unique", "copy"}
      BY <1>7 DEF Ad!InsertMemory
    <2>2. Cardinality(Ad!Copies(adPg, m)) < MaxCopies
      BY <2>1, RowToCome
    <2>3. q \in BOOLEAN
      OBVIOUS
    <2> HIDE DEF q
    <2>4. adPg' \in Ad!Database
      BY <1>1, <1>3, <2>1, <2>2, <2>3, TypedInsert
    <2>5. adFaults' \in 0 .. MaxLost
      BY <1>1, <1>7 DEF Ad!Lost
    <2> QED BY <1>1, <2>1, <2>4, <2>5
  <1> QED BY <1>5, <1>6, <1>7

LEMMA CallsTyped ==
    ASSUME Ad!AdaptersAssumption, AdaptersInv, AdaptersInv', AdaptersTypes, ~adParted,
           NEW lost \in BOOLEAN, Ad!Lost(lost),
           \/ Ad!Accounts(lost) \/ Ad!OpenRoom(lost) \/ Ad!CloseRoom(lost) \/ Ad!Participants(lost)
           \/ Ad!Relations(lost) \/ Ad!Planning(lost) \/ Ad!Forget(lost)
    PROVE  AdaptersTypes'
  <1>1. adSq \in Ad!Database /\ adPg \in Ad!Database /\ MaxCopies \in Nat
    BY DEF AdaptersTypes, Ad!TypeOK, Ad!AdaptersAssumption
  <1>2. SameTables(adSq, adPg)
    BY DEF AdaptersInv
  <1>3. CASE Ad!Accounts(lost)
    <2>1. PICK u \in Users : Ad!Both(Ad!SqCreateAccount(adSq, u), Ad!PgCreateAccount(adPg, u, lost), FALSE)
      BY <1>3 DEF Ad!Accounts
    <2> QED BY <1>1, <2>1, TypedAccounts, BothTyped
  <1>4. CASE Ad!OpenRoom(lost)
    <2>1. PICK r \in Rooms : Ad!Both(Ad!SqCreateRoom(adSq, r), Ad!PgCreateRoom(adPg, r, lost), FALSE)
      BY <1>4 DEF Ad!OpenRoom
    <2> QED BY <1>1, <2>1, TypedRooms, BothTyped
  <1>5. CASE Ad!CloseRoom(lost)
    <2>1. PICK r \in Rooms : Ad!Both(Ad!SqRemoveRoom(adSq, r), Ad!PgRemoveRoom(adPg, r, lost),
                                     Ad!InUse(r) \/ Ad!Pending(r))
      BY <1>5 DEF Ad!CloseRoom
    <2> QED BY <1>1, <2>1, TypedRooms, BothTyped
  <1>6. CASE Ad!Participants(lost)
    <2>1. PICK u \in Users, r \in Rooms :
            \/ /\ Len(adSq.members[<<u, r>>]) < MaxCopies
               /\ Ad!Both(Ad!SqAddParticipant(adSq, u, r), Ad!PgAddParticipant(adPg, u, r, lost), FALSE)
            \/ Ad!Both(Ad!SqRemoveParticipant(adSq, u, r), Ad!PgRemoveParticipant(adPg, u, r, lost), FALSE)
            \/ \E st \in Ad!States :
                 Ad!Both(Ad!SqSetParticipantUserState(adSq, u, r, st),
                         Ad!PgSetParticipantUserState(adPg, u, r, st, lost), FALSE)
      BY <1>6 DEF Ad!Participants
    <2>2. Len(adSq.members[<<u, r>>]) < MaxCopies => MaxCopies > 0
      <3>1. adSq.members \in [Users \X Rooms -> MemberRows]
        BY <1>1, TypedIs
      <3> DEFINE k == adSq.members[<<u, r>>]
      <3>2. k \in MemberRows
        BY <2>1, <3>1
      <3> HIDE DEF k
      <3>3. k \in Seq(Ad!States)
        BY <3>2, RowLists
      <3>4. Len(k) \in Nat
        BY <3>3
      <3>5. k = adSq.members[<<u, r>>]
        BY DEF k
      <3> QED BY <1>1, <3>4, <3>5
    <2>3. "none" \in Ad!States
      BY DEF Ad!States
    <2>4. CASE /\ Len(adSq.members[<<u, r>>]) < MaxCopies
               /\ Ad!Both(Ad!SqAddParticipant(adSq, u, r), Ad!PgAddParticipant(adPg, u, r, lost), FALSE)
      BY <1>1, <2>2, <2>3, <2>4, TypedMembers, BothTyped
    <2>5. CASE Ad!Both(Ad!SqRemoveParticipant(adSq, u, r), Ad!PgRemoveParticipant(adPg, u, r, lost), FALSE)
      BY <1>1, <2>3, <2>5, TypedMembers, BothTyped
    <2>6. ASSUME NEW st \in Ad!States,
                 Ad!Both(Ad!SqSetParticipantUserState(adSq, u, r, st),
                         Ad!PgSetParticipantUserState(adPg, u, r, st, lost), FALSE)
          PROVE  AdaptersTypes'
      BY <1>1, <2>6, TypedMembers, BothTyped
    <2> QED BY <2>1, <2>4, <2>5, <2>6
  <1>7. CASE Ad!Relations(lost)
    <2>1. PICK u \in Users, v \in Users :
            /\ adSq.bonds[u, v] < MaxCopies
            /\ Ad!Both(Ad!SqCreateRelationship(adSq, u, v), Ad!PgCreateRelationship(adPg, u, v, lost), FALSE)
      BY <1>7 DEF Ad!Relations
    <2>2. adPg.bonds[<<u, v>>] < MaxCopies /\ adSq.bonds[<<u, v>>] < MaxCopies
      BY <1>2, <2>1 DEF SameTables
    <2> QED BY <1>1, <2>1, <2>2, TypedBonds, BothTyped
  <1>8. CASE Ad!Planning(lost)
    <2>1. \A g : Ad!Twins(adSq, g) = Ad!Twins(adPg, g)
      BY <1>2 DEF SameTables, Ad!Twins
    <2>2. "DONE" \in {"IN_PROGRESS", "DONE"}
      OBVIOUS
    <2>3. ASSUME NEW g \in Plans, Ad!Cardinality(Ad!Twins(adSq, g)) < MaxCopies,
                 Ad!Both(Ad!SqCreateGoal(adSq, g), Ad!PgCreateGoal(adPg, g, lost), lost)
          PROVE  AdaptersTypes'
      <3>1. Cardinality(Ad!Twins(adSq, g)) < MaxCopies /\ Cardinality(Ad!Twins(adPg, g)) < MaxCopies
        BY <2>1, <2>3, CountIs
      <3> QED BY <1>1, <2>2, <2>3, <3>1, TypedGoals, BothTyped
    <2>4. ASSUME NEW g \in Plans, NEW st \in {"IN_PROGRESS", "DONE"},
                 Ad!Both(Ad!SqUpdateGoalStatus(adSq, g, st), Ad!PgUpdateGoalStatus(adPg, g, st, lost), FALSE)
          PROVE  AdaptersTypes'
      BY <1>1, <2>4, TypedGoals, BothTyped
    <2>5. ASSUME NEW g \in Plans,
                 Ad!Both(Ad!SqRemoveGoal(adSq, g), Ad!PgRemoveGoal(adPg, g, lost), FALSE)
          PROVE  AdaptersTypes'
      BY <1>1, <2>2, <2>5, TypedGoals, BothTyped
    <2>6. ASSUME NEW r \in Rooms,
                 Ad!Both(Ad!SqRemoveAllGoals(adSq, r), Ad!PgRemoveAllGoals(adPg, r, lost), FALSE)
          PROVE  AdaptersTypes'
      <3>1. KeptOf(adSq, Ad!SqRemoveAllGoals(adSq, r).db) /\ KeptOf(adPg, Ad!PgRemoveAllGoals(adPg, r, lost).db)
        BY <1>1, GoalsLeft
      <3> QED BY <2>6, <3>1, BothTyped
    <2> QED BY <1>8, <2>3, <2>4, <2>5, <2>6 DEF Ad!Planning
  <1>9. CASE Ad!Forget(lost)
    <2>1. ASSUME NEW m \in Named,
                 Ad!Both(Ad!SqRemoveMemory(adSq, m), Ad!PgRemoveMemory(adPg, m, lost), adCreating[m] # "no")
          PROVE  AdaptersTypes'
      BY <1>1, <2>1, TypedMemories, BothTyped
    <2>2. ASSUME NEW r \in Rooms,
                 Ad!Both(Ad!SqRemoveAllMemories(adSq, r), Ad!PgRemoveAllMemories(adPg, r, lost),
                         Ad!Pending(r))
          PROVE  AdaptersTypes'
      BY <1>1, <2>2, TypedMemories, BothTyped
    <2> QED BY <1>9, <2>1, <2>2 DEF Ad!Forget
  <1> QED BY <1>3, <1>4, <1>5, <1>6, <1>7, <1>8, <1>9

LEMMA AdaptersTyped ==
    ASSUME Ad!AdaptersAssumption
    PROVE  Ad!SysInit /\ [][Ad!SysNext]_Ad!vars => [](AdaptersInv /\ AdaptersTypes)
  <1>1. Ad!SysInit => AdaptersTypes
    <2> SUFFICES ASSUME Ad!SysInit PROVE AdaptersTypes
      OBVIOUS
    <2>1. MaxCopies \in Nat /\ MaxLost \in Nat
      BY DEF Ad!AdaptersAssumption
    <2>2. /\ adSq = Ad!Init /\ adPg = Ad!Init /\ adCreating = [m \in Messages |-> "no"]
          /\ adParted = FALSE /\ adFaults = 0
      BY DEF Ad!SysInit
    <2> DEFINE M == [k \in Users \X Rooms |-> <<>>]
               Z == [p \in Users \X Users |-> 0]
    <2>3. Ad!Init = Tab({}, {}, M, {}, {}, Z)
      BY DEF Ad!Init, Ad!Pairs, Tab
    <2>4. M \in [Users \X Rooms -> MemberRows] /\ Z \in [Users \X Users -> 0 .. MaxCopies]
      BY <2>1, ShortLists
    <2> HIDE DEF M, Z
    <2>5. Ad!Init \in Ad!Database /\ Ad!Init.memories = {}
      <3>1. Tab({}, {}, M, {}, {}, Z) \in Ad!Database
        BY <2>4, TypedTab
      <3>2. Tab({}, {}, M, {}, {}, Z).memories = {}
        BY TabIs
      <3> QED BY <2>3, <3>1, <3>2
    <2>6. Ad!TypeOK
      <3>1. adSq \in Ad!Database /\ adPg \in Ad!Database
        BY <2>2, <2>5
      <3>2. adCreating \in [Messages -> {"no", "looked", "unique", "copy"}]
        BY <2>2
      <3>3. adParted \in BOOLEAN
        BY <2>2
      <3>4. adFaults = 0
        BY <2>2
      <3>5. adFaults \in 0 .. MaxLost
        BY <2>1, <3>4
      <3> QED BY <3>1, <3>2, <3>3, <3>5 DEF Ad!TypeOK
    <2>7. \A m : Ad!Copies(adSq, m) = {}
      BY <2>2, <2>5 DEF Ad!Copies
    <2>8. \A m : Cardinality(Ad!Copies(adSq, m)) <= MaxCopies
      BY <2>1, <2>7, FS_EmptySet
    <2> QED BY <2>6, <2>8 DEF AdaptersTypes
  <1>2. AdaptersInv /\ AdaptersTypes /\ AdaptersInv' /\ [Ad!SysNext]_Ad!vars => AdaptersTypes'
    <2>1. AdaptersTypes /\ UNCHANGED Ad!vars => AdaptersTypes'
      BY DEF Ad!vars, AdaptersTypes, Ad!TypeOK, Ad!Database, Ad!Pairs, Ad!Copies
    <2>2. ASSUME AdaptersInv, AdaptersInv', AdaptersTypes, Ad!SysNext PROVE AdaptersTypes'
      <3>1. ~adParted
        BY <2>2 DEF Ad!SysNext
      <3>2. \/ \E m \in Messages : Ad!CreateMemory(m) \/ Ad!SearchSimilar(m)
            \/ \E lost \in BOOLEAN :
                 /\ Ad!Lost(lost)
                 /\ \/ \/ Ad!Accounts(lost) \/ Ad!OpenRoom(lost) \/ Ad!CloseRoom(lost)
                       \/ Ad!Participants(lost)
                       \/ Ad!Relations(lost) \/ Ad!Planning(lost) \/ Ad!Forget(lost)
                    \/ \E m \in Messages : Ad!InsertMemory(m, lost)
        BY <2>2 DEF Ad!SysNext
      <3>3. ASSUME NEW m \in Messages, Ad!CreateMemory(m) \/ Ad!SearchSimilar(m) PROVE AdaptersTypes'
        BY <2>2, <3>1, <3>3, MemoriesTyped
      <3>4. ASSUME NEW lost \in BOOLEAN, Ad!Lost(lost), NEW m \in Messages, Ad!InsertMemory(m, lost)
            PROVE  AdaptersTypes'
        BY <2>2, <3>1, <3>4, MemoriesTyped
      <3>5. ASSUME NEW lost \in BOOLEAN, Ad!Lost(lost),
                   \/ Ad!Accounts(lost) \/ Ad!OpenRoom(lost) \/ Ad!CloseRoom(lost)
                   \/ Ad!Participants(lost)
                   \/ Ad!Relations(lost) \/ Ad!Planning(lost) \/ Ad!Forget(lost)
            PROVE  AdaptersTypes'
        BY <2>2, <3>1, <3>5, CallsTyped
      <3> QED BY <3>2, <3>3, <3>4, <3>5
    <2> QED BY <2>1, <2>2
  <1>3. Ad!SysInit /\ [][Ad!SysNext]_Ad!vars => []AdaptersInv
    BY AdaptersSpec
  <1> QED BY <1>1, <1>2, <1>3, PTL

(* The types of all that is driven: of the goal and its evaluations, of    *)
(* both databases, of the cache and of the pool.                           *)
THEOREM TablesKeepTypes == SysSpec => []TypesOK
  <1>1. SysInit => Init /\ Ad!SysInit /\ Ca!Init /\ Po!Init
    BY DEF SysInit
  <1>2. [SysNext]_sysVars => [Next]_vars
    BY DEF SysNext, sysVars, Evaluating, Storing, Porting, Caching, Pooling
  <1>3. [SysNext]_sysVars => [Ad!SysNext]_Ad!vars
    BY DEF SysNext, sysVars, Evaluating, Storing, Porting, Caching, Pooling, adVars, Ad!vars
  <1>4. [SysNext]_sysVars => [Ca!Next]_Ca!vars
    BY DEF SysNext, sysVars, Evaluating, Storing, Porting, Caching, Pooling, caVars, Ca!vars
  <1>5. [SysNext]_sysVars => [Po!Next]_Po!vars
    BY DEF SysNext, sysVars, Evaluating, Storing, Porting, Caching, Pooling, poVars, Po!vars
  <1>6. Ad!SysInit /\ [][Ad!SysNext]_Ad!vars => [](AdaptersInv /\ AdaptersTypes)
    BY AdaptersTyped, Instances
  <1>7. Ca!Init /\ [][Ca!Next]_Ca!vars => []CacheInv
    BY CacheSpec, Instances
  <1>8. Po!Init /\ [][Po!Next]_Po!vars => []PoolInv
    BY PoolSpec, Instances
  <1>9. Init => Inv
    BY InitInv
  <1>10. Inv /\ [Next]_vars => Inv'
    BY NextInv
  <1>11. Inv /\ AdaptersTypes /\ CacheInv /\ PoolInv => TypesOK
    BY TypesAgree DEF Inv, AdaptersTypes, CacheInv, PoolInv, TypesOK
  <1> QED BY <1>1, <1>2, <1>3, <1>4, <1>5, <1>6, <1>7, <1>8, <1>9, <1>10, <1>11, PTL DEF SysSpec

============================================================================
