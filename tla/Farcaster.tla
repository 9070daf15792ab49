----------------------------- MODULE Farcaster -----------------------------
(***************************************************************************)
(* FarcasterAgentClient: the loop of mentions and the loop of posts.  A    *)
(* poll goes through all mentions there ever were, answered or not.  The   *)
(* first error outside of sending ends the loop of mentions for good; the  *)
(* loop of posts catches all of its own.                                   *)
(***************************************************************************)
EXTENDS Naturals, Sequences

CONSTANTS
    Mentions,  \* casts that mention the agent
    MaxCasts,  \* bound: casts the agent answers with
    MaxChunks, \* bound: casts one answer is split into
    MaxFaults  \* bound: failures of the hub, the model and the database; restarts

FarcasterAssumption ==
    MaxCasts \in Nat /\ MaxChunks \in Nat \ {0} /\ MaxFaults \in Nat

VARIABLES
    mentions, \* the mentions the hub has
    mute,     \* those by the agent itself or without text
    at,       \* the await the loop of mentions is in
    todo,     \* mentions of this poll that are still to come
    answer,   \* the mention being handled and what is sent for it
    casts,    \* number of casts sent in answers: the last of their ids
    known,    \* mentions in the memories
    rows,     \* the answers' casts in the memories
    posting,  \* the await the loop of posts is in
    faults

vars == <<mentions, mute, at, todo, answer, casts, known, rows, posting, faults>>

NewAnswer == [to |-> "nobody", chunks |-> 0, sent |-> <<>>, saved |-> 0]

(* Both loops start at once. *)
Starts == at' = "fetch" /\ todo' = {} /\ answer' = NewAnswer /\ posting' = "write"

Init ==
    /\ mentions = {} /\ mute \in SUBSET Mentions
    /\ at = "fetch" /\ todo = {} /\ answer = NewAnswer
    /\ casts = 0 /\ known = {} /\ rows = {}
    /\ posting = "write" /\ faults = 0

Fault == faults < MaxFaults /\ faults' = faults + 1

Restart ==
    /\ Fault /\ Starts
    /\ UNCHANGED <<mentions, mute, casts, known, rows>>

Mention ==
    /\ \E m \in Mentions \ mentions : mentions' = mentions \cup {m}
    /\ UNCHANGED <<mute, at, todo, answer, casts, known, rows, posting, faults>>

----------------------------------------------------------------------------
Poll ==
    /\ at = "timer" /\ at' = "fetch"
    /\ UNCHANGED <<mentions, mute, todo, answer, casts, known, rows, posting, faults>>

GetMentions ==
    /\ at = "fetch" /\ at' = "next" /\ todo' = mentions
    /\ UNCHANGED <<mentions, mute, answer, casts, known, rows, posting, faults>>

(* The timer is set when all are handled. *)
TakeMention ==
    /\ at = "next"
    /\ \/ todo = {} /\ at' = "timer" /\ UNCHANGED <<todo, answer>>
       \/ \E m \in todo : /\ todo' = todo \ {m} /\ at' = "thread"
                          /\ answer' = [NewAnswer EXCEPT !.to = m]
    /\ UNCHANGED <<mentions, mute, casts, known, rows, posting, faults>>

End(place) == at' = place /\ answer' = NewAnswer

(* buildConversationThread stores the mention.  It fetches the cast it     *)
(* answers, but stores no cast other than the mention: all of a thread are *)
(* taken for visited.                                                      *)
BuildThread ==
    /\ at = "thread" /\ at' = "parent"
    /\ known' = known \cup {answer.to}
    /\ UNCHANGED <<mentions, mute, todo, answer, casts, rows, posting, faults>>

GetParent ==
    /\ at = "parent"
    /\ IF answer.to \in mute THEN End("next") ELSE at' = "decide" /\ UNCHANGED answer
    /\ UNCHANGED <<mentions, mute, todo, casts, known, rows, posting, faults>>

(* The model does not want to answer, answers nothing, or answers. *)
Decide ==
    /\ at = "decide"
    /\ \/ End("next")
       \/ at' = "send" /\ \E n \in 1 .. MaxChunks : answer' = [answer EXCEPT !.chunks = n]
    /\ UNCHANGED <<mentions, mute, todo, casts, known, rows, posting, faults>>

(* sendCast: each chunk answers the one before it, all are sent before any *)
(* is stored.                                                              *)
SendCast ==
    /\ at = "send" /\ casts < MaxCasts
    /\ casts' = casts + 1
    /\ answer' = [answer EXCEPT !.sent = Append(@, casts + 1)]
    /\ at' = IF Len(answer.sent) + 1 = answer.chunks THEN "store" ELSE "send"
    /\ UNCHANGED <<mentions, mute, todo, known, rows, posting, faults>>

(* createMemory of its casts, the first one first. *)
Store ==
    LET i == answer.saved + 1 IN
    /\ at = "store"
    /\ rows' = rows \cup {[cast |-> answer.sent[i], to |-> answer.to,
                           after |-> IF i = 1 THEN 0 ELSE answer.sent[i - 1]]}
    /\ answer' = [answer EXCEPT !.saved = @ + 1]
    /\ at' = IF answer.saved + 1 = answer.chunks THEN "act" ELSE "store"
    /\ UNCHANGED <<mentions, mute, todo, casts, known, posting, faults>>

(* evaluate and processActions. *)
Act ==
    /\ at = "act" /\ End("next")
    /\ UNCHANGED <<mentions, mute, todo, casts, known, rows, posting, faults>>

(* Errors from sending on are caught, and the next mention is taken; after *)
(* any other the timer is not set again.                                   *)
Fails ==
    /\ at \in {"fetch", "thread", "parent", "decide", "send", "store", "act"}
    /\ Fault \/ (at = "send" /\ casts = MaxCasts /\ UNCHANGED faults)
    /\ IF at \in {"send", "store", "act"} THEN End("next") /\ UNCHANGED todo
       ELSE End("stopped") /\ todo' = {}
    /\ UNCHANGED <<mentions, mute, casts, known, rows, posting>>

----------------------------------------------------------------------------
PostDue ==
    /\ posting = "timer" /\ posting' = "write"
    /\ UNCHANGED <<mentions, mute, at, todo, answer, casts, known, rows, faults>>

(* generateNewCast has sent and stored one cast, or sent it only, or caught *)
(* an error.  No answer is to a post, and what is stored of it is left out. *)
EndPost ==
    /\ posting = "write" /\ posting' = "timer"
    /\ UNCHANGED <<mentions, mute, at, todo, answer, casts, known, rows, faults>>

----------------------------------------------------------------------------
MentionStep ==
    \/ Poll \/ GetMentions \/ TakeMention \/ BuildThread \/ GetParent \/ Decide
    \/ SendCast \/ Store \/ Act \/ Fails
PostStep == PostDue \/ EndPost

Next == Mention \/ Restart \/ MentionStep \/ PostStep

(* Timers fire; the hub, the model and the database answer. *)
Spec == Init /\ [][Next]_vars /\ WF_vars(MentionStep) /\ WF_vars(PostStep)

----------------------------------------------------------------------------
(* Types of the two loops and the memories. *)
TypeOK ==
    /\ mentions \subseteq Mentions /\ mute \subseteq Mentions
    /\ todo \subseteq mentions /\ known \subseteq mentions
    /\ casts \in 0 .. MaxCasts /\ faults \in 0 .. MaxFaults
    /\ answer.saved <= Len(answer.sent) /\ Len(answer.sent) <= answer.chunks
    /\ at \in {"timer", "fetch", "next", "thread", "parent", "decide", "send", "store",
               "act", "stopped"}
    /\ posting \in {"timer", "write", "store"}

(* What an answer in the memories replies to is there before it, the       *)
(* mention and every earlier part of the answer, whatever was lost of it   *)
(* on the way and however often the mention was answered.                  *)
AnswersResolve ==
    \A row \in rows : row.to \in Mentions =>
        /\ row.to \in known \ mute
        /\ row.after # 0 => \E r \in rows : r.cast = row.after /\ r.to = row.to

(* Again and again all mentions are in the memories, unless an error has   *)
(* stopped their loop; and posts are due again whatever failed.            *)
Quiet == (mentions \subseteq known \/ at = "stopped") /\ posting = "timer"
PollsGoOn == []<>Quiet

============================================================================
