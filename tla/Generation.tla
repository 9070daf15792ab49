----------------------------- MODULE Generation ----------------------------
(***************************************************************************)
(* Asking the language model until its answer can be parsed: the loops of  *)
(* generateShouldRespond, generateTrueOrFalse, generateTextArray,          *)
(* generateObject, generateObjectArray and generateMessageResponse.  They  *)
(* differ in what they parse, and in what they do when it cannot be.       *)
(***************************************************************************)
EXTENDS Naturals

CONSTANTS
    Calls,
    Message,      \* the calls of generateMessageResponse
    MaxTries      \* bound: requests of a call that fail, before one succeeds

GenerationAssumption == Message \subseteq Calls /\ MaxTries \in Nat

VARIABLES
    at,       \* at[c]: "asking" from the request to its answer, "pausing", "done"
    delay,    \* delay[c]: seconds, retryDelay or retryLength
    failures, \* failures[c]: requests that threw or could not be parsed
    gap       \* gap[c]: seconds since the answer before; a millisecond is 0

vars == <<at, delay, failures, gap>>

(* setTimeout: Node's timers hold 2^31 - 1 ms; what is longer takes one. *)
(* Mutant: a timer holds any delay. *)
MaxTimer == 2147483
Elapse_Any(s) == s
Elapse(s) == IF s > MaxTimer THEN 0 ELSE s

Init ==
    /\ at = [c \in Calls |-> "asking"]
    /\ delay = [c \in Calls |-> 1]
    /\ failures = [c \in Calls |-> 0]
    /\ gap = [c \in Calls |-> 0]

Failed(c) ==
    /\ at[c] = "asking" /\ failures[c] < MaxTries
    /\ failures' = [failures EXCEPT ![c] = @ + 1]

(* The answer is parsed: RESPOND, IGNORE or STOP, a boolean, an array or   *)
(* an object.                                                              *)
Answer(c) ==
    /\ at[c] = "asking"
    /\ at' = [at EXCEPT ![c] = "done"]
    /\ UNCHANGED <<delay, failures, gap>>

(* generateText throws, or the answer cannot be parsed: a pause, and twice *)
(* as long a one the next time.  generateMessageResponse doubles first,    *)
(* and after an answer that it cannot parse it asks again at once.         *)
(* Mutant: a second call begins with the pause the first one left.         *)
Pause_Short(c) == IF c \in Message THEN delay[c] * 2 ELSE delay[c] \div 2
Pause(c) == IF c \in Message THEN delay[c] * 2 ELSE delay[c]

BackOff(c) ==
    /\ Failed(c)
    /\ at' = [at EXCEPT ![c] = "pausing"]
    /\ delay' = [delay EXCEPT ![c] = @ * 2]
    /\ gap' = [gap EXCEPT ![c] = Elapse(Pause(c))]

AskAtOnce(c) ==
    /\ c \in Message /\ Failed(c)
    /\ gap' = [gap EXCEPT ![c] = 0]
    /\ UNCHANGED <<at, delay>>

(* Mutant: the loop ends after the pause. *)
Resume_Not(c) == FALSE
Resume(c) ==
    /\ at[c] = "pausing"
    /\ at' = [at EXCEPT ![c] = "asking"]
    /\ UNCHANGED <<delay, failures, gap>>

Step(c) == Answer(c) \/ BackOff(c) \/ AskAtOnce(c) \/ Resume(c)

Next == \E c \in Calls : Step(c)

(* Every request is answered or fails, and every timer fires. *)
Spec == Init /\ [][Next]_vars /\ \A c \in Calls : WF_vars(Step(c))

----------------------------------------------------------------------------
(* Types of the loops. *)
TypeOK ==
    /\ at \in [Calls -> {"asking", "pausing", "done"}]
    /\ failures \in [Calls -> 0 .. MaxTries]
    /\ delay \in [Calls -> Nat] /\ gap \in [Calls -> 0 .. MaxTimer]

(* The loops do not hammer the provider: a call that is not                *)
(* generateMessageResponse asks again no sooner than a second after a      *)
(* failure, and the n-th time after 2^(n-1) seconds, for its first 22      *)
(* failures.  From the 23rd the pause is too long for a timer, and it asks *)
(* every millisecond.                                                      *)
PausesDouble ==
    \A c \in Calls \ Message :
        /\ failures[c] \in 1 .. 22 => gap[c] = 2 ^ (failures[c] - 1)
        /\ failures[c] > 22 => gap[c] = 0

(* A model that answers well in the end ends every call. *)
CallsEnd == \A c \in Calls : <>(at[c] = "done")

============================================================================
