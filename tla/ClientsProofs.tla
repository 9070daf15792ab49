---------------------------- MODULE ClientsProofs --------------------------
(***************************************************************************)
(* Proofs about the clients of an agent and what starts them, for any      *)
(* number of agents, clients, chats, requests, reactions, attachments and  *)
(* mentions, and whatever fails.  Each component is proved on its own; the *)
(* last section puts them together.                                        *)
(***************************************************************************)
EXTENDS MCClients, Integers, SequenceTheorems, TLAPS

----------------------------------------------------------------------------
(* Conversation, for any number of messages and of chunks.  The inductive  *)
(* invariant says, for each place a handler can be in, what it has stored  *)
(* and sent so far, and that a handler which has passed the gates belongs  *)
(* to no message that must stay unanswered.                                *)
Before == {"new", "store", "gate", "check", "decide", "generate"}
Passed == {"check", "decide", "generate", "send", "record", "act", "ask", "continue"}
Refused == {"store", "gate", "check", "done", "failed"}

(* What is stored of m and of the answers to it. *)
Stored(m) ==
    /\ at[m] = "gate" /\ job[m].text = "long" => m \in stored
    /\ at[m] \in Passed => m \in stored
    /\ replies[m] > 0 => m \in stored

(* How many answers there are, and how many chunks of the current one. *)
Counted(m) ==
    /\ at[m] \in Before => replies[m] = 0
    /\ at[m] = "send" => job[m].saved = 0 /\ job[m].sent < job[m].chunks
    /\ at[m] = "record" => job[m].saved < job[m].sent
    /\ at[m] \in {"send", "record"} =>
           /\ job[m].round \in {1, 2}
           /\ job[m].round = 1 => replies[m] <= job[m].saved
           /\ replies[m] <= MaxChunks + job[m].saved
    /\ at[m] \in {"act", "ask", "continue"} => replies[m] <= MaxChunks
    /\ replies[m] <= 2 * MaxChunks

(* A message that must stay unanswered does not get past the gates. *)
KeptQuiet(m) ==
    /\ at[m] = "new" => m \notin silent
    /\ at[m] \in Before => job[m].sent = 0
    /\ m \in silent /\ ~job[m].mention =>
           at[m] \in Refused /\ replies[m] = 0 /\ job[m].sent = 0

MutedWhileSilent == silent # {} => userState = "MUTED"

Inv ==
    /\ TypeOK
    /\ MutedWhileSilent
    /\ \A m \in Messages : Stored(m) /\ Counted(m) /\ KeptQuiet(m)

LEMMA InitInv == Init => Inv
  <1> SUFFICES ASSUME Init PROVE Inv
    OBVIOUS
  <1> USE ConversationAssumption DEF Init, NewJob
  <1>1. TypeOK
    BY DEF TypeOK, UserStates, Places, Ended, Jobs, Actions
  <1>2. ASSUME NEW m \in Messages
        PROVE  Stored(m) /\ Counted(m) /\ KeptQuiet(m)
    BY DEF Stored, Counted, KeptQuiet, Passed, Before
  <1> QED BY <1>1, <1>2 DEF Inv, MutedWhileSilent

----------------------------------------------------------------------------
(* A step of one handler leaves the others alone, stores more and makes no *)
(* other message one that must stay unanswered.                            *)
LEMMA Frame ==
    ASSUME Inv, NEW m \in Messages, TypeOK', MutedWhileSilent',
           Stored(m)', Counted(m)', KeptQuiet(m)',
           \A n \in Messages \ {m} :
               at'[n] = at[n] /\ job'[n] = job[n] /\ replies'[n] = replies[n],
           stored \subseteq stored', silent' \subseteq silent \cup {m}
    PROVE  Inv'
  <1> SUFFICES ASSUME NEW n \in Messages \ {m}
               PROVE  Stored(n)' /\ Counted(n)' /\ KeptQuiet(n)'
    BY DEF Inv
  <1>1. Stored(n) /\ Counted(n) /\ KeptQuiet(n)
    BY DEF Inv
  <1> QED BY <1>1 DEF Stored, Counted, KeptQuiet

(* What the three ways of moving on do to at and job. *)
Moved(m, place) ==
    /\ at' \in [Messages -> Places] /\ job' \in [Messages -> Jobs]
    /\ at'[m] = place
    /\ \A n \in Messages \ {m} : at'[n] = at[n] /\ job'[n] = job[n]

LEMMA StayMoves ==
    ASSUME TypeOK, NEW m \in Messages, NEW place \in Places, Stay(m, place)
    PROVE  Moved(m, place) /\ job'[m] = job[m]
  BY DEF TypeOK, Stay, Go, Moved

LEMMA EndMoves ==
    ASSUME TypeOK, NEW m \in Messages, NEW place \in Places, End(m, place)
    PROVE  /\ Moved(m, place)
           /\ job'[m].mention = job[m].mention /\ job'[m].sent = job[m].sent
           /\ job'[m].text = "empty"
  <1> DEFINE j == [NewJob EXCEPT !.mention = job[m].mention, !.sent = job[m].sent]
  <1>1. job[m] \in Jobs
    BY DEF TypeOK
  <1>2. job[m].mention \in BOOLEAN /\ job[m].sent \in 0 .. MaxChunks
    BY <1>1 DEF Jobs
  <1>3. NewJob \in Jobs /\ NewJob.text = "empty"
    BY ConversationAssumption DEF NewJob, Jobs, Actions
  <1>4. /\ j \in Jobs /\ j.text = "empty"
        /\ j.mention = job[m].mention /\ j.sent = job[m].sent
    BY <1>2, <1>3 DEF Jobs
  <1>5. job' = [job EXCEPT ![m] = j] /\ at' = [at EXCEPT ![m] = place]
    BY DEF End, Go
  <1> HIDE DEF j
  <1>6. Moved(m, place) /\ job'[m] = j
    BY <1>4, <1>5 DEF TypeOK, Moved
  <1> QED BY <1>4, <1>6

LEMMA AnsweredMoves ==
    ASSUME TypeOK, NEW m \in Messages, NEW a \in Actions, NEW n \in 0 .. MaxChunks,
           NEW round \in {1, 2}, Answered(m, a, n, round), n # 0
    PROVE  /\ Moved(m, "send")
           /\ job'[m].mention = job[m].mention /\ job'[m].chunks = n
           /\ job'[m].sent = 0 /\ job'[m].saved = 0 /\ job'[m].round = round
  <1> DEFINE w1 == [job[m] EXCEPT !.action = a, !.chunks = n]
             w2 == [w1 EXCEPT !.sent = 0, !.saved = 0]
             w3 == [w2 EXCEPT !.round = round]
  <1>1. job[m] \in Jobs
    BY DEF TypeOK
  <1>2. w1 \in Jobs /\ w1.mention = job[m].mention /\ w1.chunks = n
    BY <1>1 DEF Jobs
  <1>3. job' = [job EXCEPT ![m] = w3] /\ at' = [at EXCEPT ![m] = "send"]
    BY DEF Answered, Go
  <1> HIDE DEF w1
  <1>4. /\ w2 \in Jobs /\ w2.mention = job[m].mention /\ w2.chunks = n
        /\ w2.sent = 0 /\ w2.saved = 0
    <2>1. 0 \in 0 .. MaxChunks
      BY ConversationAssumption
    <2> QED BY <1>2, <2>1 DEF Jobs
  <1> HIDE DEF w2
  <1>5. /\ w3 \in Jobs /\ w3.mention = job[m].mention /\ w3.chunks = n
        /\ w3.sent = 0 /\ w3.saved = 0 /\ w3.round = round
    BY <1>4 DEF Jobs
  <1> HIDE DEF w3
  <1>6. Moved(m, "send") /\ job'[m] = w3
    BY <1>3, <1>5 DEF TypeOK, Moved, Places
  <1> QED BY <1>5, <1>6

(* processActions finds an action for every name. *)
LEMMA ChosenType == ASSUME NEW name \in Actions PROVE Chosen(name) \in Actions
  <1> DEFINE First(i) == /\ Matches(name, Registered[i])
                         /\ \A j \in 1 .. i - 1 : ~Matches(name, Registered[j])
  <1>1. Len(Registered) = 6 /\ \A i \in 1 .. 6 : Registered[i] \in Actions
    BY DEF Registered, Actions, RoomActions
  <1>2. \E i \in 1 .. 6 : First(i)
    <2> USE DEF Registered, Matches, Contains
    <2>1. CASE name = "CONTINUE"
      BY <2>1, First(1)
    <2>2. CASE name \in {"FOLLOW_ROOM", "UNFOLLOW_ROOM"}
      BY <2>2, First(2)
    <2>3. CASE name = "NONE"
      BY <2>3, First(4)
    <2>4. CASE name \in {"MUTE_ROOM", "UNMUTE_ROOM"}
      BY <2>4, First(5)
    <2> QED BY <2>1, <2>2, <2>3, <2>4 DEF Actions, RoomActions
  <1>3. (CHOOSE i \in 1 .. 6 : First(i)) \in 1 .. 6
    BY <1>2
  <1>4. Chosen(name) = Registered[CHOOSE i \in 1 .. 6 : First(i)]
    BY <1>1 DEF Chosen
  <1> QED BY <1>1, <1>3, <1>4

----------------------------------------------------------------------------
(* Steps that change nothing but the handler's place and locals. *)
Still == UNCHANGED <<userState, stored, replies, silent>>

LEMMA MoveInv ==
    ASSUME Inv, NEW m \in Messages, NEW place, Moved(m, place), Still,
           Stored(m)', Counted(m)', KeptQuiet(m)'
    PROVE  Inv'
  <1>1. TypeOK' /\ MutedWhileSilent'
    BY DEF Inv, TypeOK, Moved, Still, MutedWhileSilent
  <1> QED BY <1>1, Frame DEF Moved, Still

(* A handler that ends, or goes on to the evaluators: only one that has    *)
(* passed the gates gets that far.                                         *)
LEMMA EndInv ==
    ASSUME Inv, NEW m \in Messages, at[m] # "new", Still,
           NEW place \in {"done", "failed", "evaluate"}, End(m, place),
           place = "evaluate" => at[m] \notin Refused
    PROVE  Inv'
  <1>1. Stored(m) /\ Counted(m) /\ KeptQuiet(m) /\ TypeOK
    BY DEF Inv
  <1>2. /\ Moved(m, place) /\ job'[m].mention = job[m].mention
        /\ job'[m].sent = job[m].sent /\ job'[m].text = "empty"
    BY <1>1, EndMoves DEF Places, Ended
  <1>3. Stored(m)' /\ Counted(m)' /\ KeptQuiet(m)'
    BY <1>1, <1>2 DEF Stored, Counted, KeptQuiet, Still, Moved, Before, Passed, Refused
  <1> QED BY <1>2, <1>3, MoveInv

LEMMA StayInv ==
    ASSUME Inv, NEW m \in Messages, NEW place \in Places, Stay(m, place), Still,
           \/ at[m] = "gate" /\ place = "check" /\ job[m].text = "long"
           \/ at[m] = "check" /\ place \in {"decide", "generate"} /\ ~Muted(m)
           \/ at[m] = "decide" /\ place = "generate"
           \/ at[m] = "send" /\ place = "record" /\ job[m].sent # 0
           \/ at[m] = "act" /\ place \in {"ask", "continue"}
    PROVE  Inv'
  <1>1. Stored(m) /\ Counted(m) /\ KeptQuiet(m) /\ TypeOK /\ MutedWhileSilent
    BY DEF Inv
  <1>2. Moved(m, place) /\ job'[m] = job[m]
    BY <1>1, StayMoves
  <1>3. Stored(m)'
    BY <1>1, <1>2 DEF Stored, Still, Moved, Passed
  <1>4. job[m].sent \in Nat
    BY <1>1 DEF TypeOK, Jobs
  <1>5. Counted(m)'
    BY <1>1, <1>2, <1>4 DEF Counted, Still, Moved, Before
  <1>6. KeptQuiet(m)'
    BY <1>1, <1>2 DEF KeptQuiet, Still, Moved, Before, Refused, Muted, MutedWhileSilent
  <1> QED BY <1>2, <1>3, <1>5, <1>6, MoveInv

(* An answer of the model: the first, or a continuation of the first. *)
LEMMA AnsweredInv ==
    ASSUME Inv, NEW m \in Messages, Still,
           NEW a \in Actions, NEW n \in 0 .. MaxChunks, NEW round \in {1, 2},
           Answered(m, a, n, round),
           \/ at[m] = "generate" /\ round = 1
           \/ at[m] = "continue" /\ round = 2
    PROVE  Inv'
  <1>1. Stored(m) /\ Counted(m) /\ KeptQuiet(m) /\ TypeOK
    BY DEF Inv
  <1>2. CASE n = 0
    BY <1>2, EndInv DEF Answered, Refused
  <1>3. CASE n # 0
    <2>1. /\ Moved(m, "send") /\ job'[m].mention = job[m].mention
          /\ job'[m].chunks = n /\ job'[m].sent = 0 /\ job'[m].saved = 0
          /\ job'[m].round = round
      BY <1>1, <1>3, AnsweredMoves
    <2>2. Stored(m)' /\ KeptQuiet(m)'
      BY <1>1, <2>1 DEF Stored, KeptQuiet, Still, Moved, Before, Passed, Refused
    <2>3. MaxChunks \in Nat \ {0} /\ replies[m] \in Nat
      BY <1>1, ConversationAssumption DEF TypeOK
    <2>4. Counted(m)'
      BY <1>1, <1>3, <2>1, <2>3 DEF Counted, Still, Moved, Before
    <2> QED BY <2>1, <2>2, <2>4, MoveInv
  <1> QED BY <1>2, <1>3

----------------------------------------------------------------------------
(* Steps that change the tables or what was sent. *)

LEMMA ReceiveInv ==
    ASSUME Inv, NEW m \in Messages, Receive(m)
    PROVE  Inv'
  <1>1. Stored(m) /\ Counted(m) /\ KeptQuiet(m) /\ TypeOK /\ MutedWhileSilent
    BY DEF Inv
  <1>2. PICK mention \in BOOLEAN, text \in {"empty", "short", "long"} :
            job' = [job EXCEPT ![m].mention = mention, ![m].text = text]
    BY DEF Receive
  <1>3. at' = [at EXCEPT ![m] = "store"] /\ at[m] = "new"
    BY DEF Receive, Go
  <1>4. /\ Moved(m, "store") /\ job'[m].sent = job[m].sent
    <2> DEFINE j == [job[m] EXCEPT !.mention = mention, !.text = text]
    <2>1. job[m] \in Jobs
      BY <1>1 DEF TypeOK
    <2>2. j \in Jobs /\ j.sent = job[m].sent
      BY <2>1 DEF Jobs
    <2>3. job' = [job EXCEPT ![m] = j]
      BY <1>1, <1>2 DEF TypeOK
    <2> HIDE DEF j
    <2> QED BY <1>1, <1>3, <2>2, <2>3 DEF TypeOK, Moved, Places
  <1>5. TypeOK' /\ MutedWhileSilent'
    BY <1>1, <1>4 DEF Receive, TypeOK, MutedWhileSilent, Moved
  <1>6. Stored(m)' /\ Counted(m)' /\ KeptQuiet(m)'
    BY <1>1, <1>3, <1>4 DEF Receive, Stored, Counted, KeptQuiet, Moved, Before, Passed, Refused
  <1> QED BY <1>4, <1>5, <1>6, Frame DEF Receive, Moved

LEMMA StoreInv ==
    ASSUME Inv, NEW m \in Messages, Store(m)
    PROVE  Inv'
  <1>1. Stored(m) /\ Counted(m) /\ KeptQuiet(m) /\ TypeOK
    BY DEF Inv
  <1>2. Moved(m, "gate") /\ job' = job
    BY <1>1 DEF Store, Go, Moved, TypeOK, Places
  <1>3. TypeOK' /\ MutedWhileSilent'
    BY <1>1, <1>2 DEF Inv, Store, TypeOK, MutedWhileSilent, Moved
  <1>4. Stored(m)' /\ Counted(m)' /\ KeptQuiet(m)'
    BY <1>1, <1>2 DEF Store, Stored, Counted, KeptQuiet, Moved, Before, Passed, Refused
  <1> QED BY <1>2, <1>3, <1>4, Frame DEF Store, Moved

LEMMA SendChunkInv ==
    ASSUME Inv, NEW m \in Messages, SendChunk(m)
    PROVE  Inv'
  <1> DEFINE place == IF job[m].sent + 1 = job[m].chunks THEN "record" ELSE "send"
             j == [job[m] EXCEPT !.sent = job[m].sent + 1]
  <1>1. Stored(m) /\ Counted(m) /\ KeptQuiet(m) /\ TypeOK /\ at[m] = "send"
    BY DEF Inv, SendChunk
  <1>2. job[m] \in Jobs /\ job[m].sent + 1 \in 0 .. MaxChunks
    <2>1. job[m] \in Jobs
      BY <1>1 DEF TypeOK
    <2>2. job[m].sent \in 0 .. MaxChunks /\ job[m].chunks \in 0 .. MaxChunks
      BY <2>1 DEF Jobs
    <2> QED BY <1>1, <2>1, <2>2, ConversationAssumption DEF Counted
  <1>3. /\ j \in Jobs /\ j.sent = job[m].sent + 1 /\ j.mention = job[m].mention
        /\ j.saved = job[m].saved /\ j.chunks = job[m].chunks /\ j.round = job[m].round
    BY <1>2 DEF Jobs
  <1>4. job' = [job EXCEPT ![m] = j] /\ at' = [at EXCEPT ![m] = place]
    BY DEF SendChunk, Go
  <1> HIDE DEF j
  <1>5. Moved(m, place) /\ job'[m] = j
    BY <1>1, <1>3, <1>4 DEF TypeOK, Moved, Places
  <1>6. job[m].sent \in Nat /\ job[m].chunks \in Nat
    BY <1>2 DEF Jobs
  <1>7. Stored(m)' /\ Counted(m)' /\ KeptQuiet(m)'
    BY <1>1, <1>3, <1>5, <1>6
    DEF SendChunk, Stored, Counted, KeptQuiet, Moved, Before, Passed, Refused
  <1>8. Still
    BY DEF SendChunk, Still
  <1> QED BY <1>5, <1>7, <1>8, MoveInv

(* One more answer is stored, or the last of them. *)
LEMMA RecordInv ==
    ASSUME Inv, NEW m \in Messages, Record(m)
    PROVE  Inv'
  <1>1. Stored(m) /\ Counted(m) /\ KeptQuiet(m) /\ TypeOK /\ at[m] = "record"
    BY DEF Inv, Record
  <1>2. job[m] \in Jobs /\ replies[m] \in Nat /\ MaxChunks \in Nat \ {0}
    BY <1>1, ConversationAssumption DEF TypeOK
  <1>3. /\ job[m].saved \in 0 .. MaxChunks /\ job[m].sent \in 0 .. MaxChunks
        /\ job[m].saved + 1 \in 0 .. MaxChunks /\ job[m].saved < job[m].sent
    <2>1. job[m].saved \in 0 .. MaxChunks /\ job[m].sent \in 0 .. MaxChunks
      BY <1>2 DEF Jobs
    <2> QED BY <1>1, <1>2, <2>1 DEF Counted
  <1>4. /\ replies' = [replies EXCEPT ![m] = replies[m] + 1]
        /\ replies' \in [Messages -> Nat] /\ replies'[m] = replies[m] + 1
        /\ UNCHANGED <<userState, stored, silent>>
    BY <1>1, <1>2 DEF Record, TypeOK
  <1>5. m \in stored /\ ~(m \in silent /\ ~job[m].mention)
    BY <1>1 DEF Stored, KeptQuiet, Passed, Refused
  <1>6. ASSUME NEW place, Moved(m, place), Counted(m)',
               job'[m].mention = job[m].mention,
               place \in {"record", "act", "evaluate"}
        PROVE  Inv'
    <2>1. TypeOK' /\ MutedWhileSilent'
      BY <1>1, <1>4, <1>6 DEF Inv, TypeOK, MutedWhileSilent, Moved
    <2>2. Stored(m)' /\ KeptQuiet(m)'
      BY <1>4, <1>5, <1>6 DEF Stored, KeptQuiet, Moved, Before, Passed
    <2> QED BY <1>4, <1>6, <2>1, <2>2, Frame DEF Moved
  <1>7. CASE job[m].saved + 1 < job[m].sent
    <2> DEFINE j == [job[m] EXCEPT !.saved = job[m].saved + 1]
    <2>1. /\ j \in Jobs /\ j.saved = job[m].saved + 1 /\ j.mention = job[m].mention
          /\ j.sent = job[m].sent /\ j.round = job[m].round
      BY <1>2, <1>3 DEF Jobs
    <2>2. job' = [job EXCEPT ![m] = j] /\ at' = [at EXCEPT ![m] = "record"]
      BY <1>7 DEF Record, Go
    <2> HIDE DEF j
    <2>3. Moved(m, "record") /\ job'[m] = j
      BY <1>1, <2>1, <2>2 DEF TypeOK, Moved
    <2>4. Counted(m)'
      BY <1>1, <1>2, <1>3, <1>4, <1>7, <2>1, <2>3 DEF Counted, Moved, Before
    <2> QED BY <1>6, <2>1, <2>3, <2>4
  <1>8. CASE job[m].saved + 1 >= job[m].sent /\ job[m].round = 1
    <2> DEFINE j == [job[m] EXCEPT !.runs = Chosen(FirstAction(m))]
    <2>1. Chosen(FirstAction(m)) \in Actions
      <3>1. FirstAction(m) \in Actions
        BY <1>2 DEF FirstAction, Jobs, Actions
      <3> QED BY <3>1, ChosenType
    <2>2. j \in Jobs /\ j.mention = job[m].mention
      BY <1>2, <2>1 DEF Jobs
    <2>3. job' = [job EXCEPT ![m] = j] /\ at' = [at EXCEPT ![m] = "act"]
      BY <1>3, <1>8 DEF Record, Go
    <2> HIDE DEF j
    <2>4. Moved(m, "act") /\ job'[m] = j
      BY <1>1, <2>2, <2>3 DEF TypeOK, Moved, Places
    <2>5. Counted(m)'
      BY <1>1, <1>2, <1>3, <1>4, <1>8, <2>4 DEF Counted, Moved, Before
    <2> QED BY <1>6, <2>2, <2>4, <2>5
  <1>9. CASE job[m].saved + 1 >= job[m].sent /\ job[m].round # 1
    <2>1. End(m, "evaluate")
      BY <1>3, <1>9 DEF Record
    <2>2. Moved(m, "evaluate") /\ job'[m].mention = job[m].mention
      BY <1>1, <2>1, EndMoves DEF Places
    <2>3. Counted(m)'
      BY <1>1, <1>2, <1>3, <1>4, <2>2 DEF Counted, Moved, Before
    <2> QED BY <1>6, <2>2, <2>3
  <1>10. job[m].saved + 1 < job[m].sent \/ job[m].saved + 1 >= job[m].sent
    BY <1>3
  <1> QED BY <1>7, <1>8, <1>9, <1>10

(* The handler of a room action changes the room for every message. *)
LEMMA SetUserStateInv ==
    ASSUME Inv, NEW m \in Messages, SetUserState(m)
    PROVE  Inv'
  <1>1. Stored(m) /\ Counted(m) /\ KeptQuiet(m) /\ TypeOK /\ at[m] = "ask"
    BY DEF Inv, SetUserState
  <1>2. /\ Moved(m, "evaluate") /\ job'[m].mention = job[m].mention
        /\ job'[m].sent = job[m].sent
    BY <1>1, EndMoves DEF SetUserState, Places
  <1>3. userState' \in UserStates
    BY DEF SetUserState, NewUserState, UserStates
  <1>4. TypeOK' /\ MutedWhileSilent' /\ silent' \subseteq silent
    BY <1>1, <1>2, <1>3 DEF SetUserState, TypeOK, MutedWhileSilent, Moved
  <1>5. Stored(m)' /\ Counted(m)' /\ KeptQuiet(m)'
    BY <1>1, <1>2, <1>4
    DEF SetUserState, Stored, Counted, KeptQuiet, Moved, Before, Passed, Refused
  <1> QED BY <1>2, <1>4, <1>5, Frame DEF SetUserState, Moved

----------------------------------------------------------------------------
(* Every step of a handler, by the place it is in. *)

LEMMA HandlerInv ==
    ASSUME Inv, NEW m \in Messages, Receive(m) \/ Step(m)
    PROVE  Inv'
  <1>1. CASE Receive(m)
    BY <1>1, ReceiveInv
  <1>2. CASE Store(m)
    BY <1>2, StoreInv
  <1>3. CASE Gate(m)
    <2>1. CASE ~TooShort(m) /\ Stay(m, "check")
      BY <1>3, <2>1, StayInv DEF Gate, Still, TooShort, Places
    <2>2. CASE End(m, "done")
      BY <1>3, <2>2, EndInv DEF Gate, Still
    <2> QED BY <1>3, <2>1, <2>2 DEF Gate
  <1>4. CASE CheckUserState(m)
    <2>1. CASE Muted(m)
      BY <1>4, <2>1, EndInv DEF CheckUserState, Still
    <2>2. CASE ~Muted(m)
      <3>1. PICK place \in {"decide", "generate"} : Stay(m, place)
        BY <1>4, <2>2 DEF CheckUserState
      <3> QED BY <1>4, <2>2, <3>1, StayInv DEF CheckUserState, Still, Places
    <2> QED BY <2>1, <2>2
  <1>5. CASE Decide(m)
    <2>1. CASE Stay(m, "generate")
      BY <1>5, <2>1, StayInv DEF Decide, Still, Places
    <2>2. CASE End(m, "evaluate")
      BY <1>5, <2>2, EndInv DEF Decide, Still, Refused
    <2> QED BY <1>5, <2>1, <2>2 DEF Decide
  <1>6. CASE Generate(m)
    BY <1>6, AnsweredInv DEF Generate, Still
  <1>7. CASE SendChunk(m)
    BY <1>7, SendChunkInv
  <1>8. CASE SendFails(m)
    <2>1. CASE job[m].sent = 0
      BY <1>8, <2>1, EndInv DEF SendFails, NothingReturned, Still, Refused
    <2>2. CASE job[m].sent # 0
      BY <1>8, <2>2, StayInv DEF SendFails, Still, Places
    <2> QED BY <2>1, <2>2
  <1>9. CASE Record(m)
    BY <1>9, RecordInv
  <1>10. CASE RecordFails(m)
    BY <1>10, EndInv DEF RecordFails, NothingReturned, Still, Refused
  <1>11. CASE Act(m)
    <2>1. CASE job[m].runs = "CONTINUE"
      BY <1>11, <2>1, StayInv DEF Act, Still, Places
    <2>2. CASE job[m].runs \in RoomActions
      BY <1>11, <2>2, StayInv DEF Act, Still, Places, RoomActions
    <2>3. CASE job[m].runs # "CONTINUE" /\ job[m].runs \notin RoomActions
      BY <1>11, <2>3, EndInv DEF Act, Still, Refused
    <2> QED BY <2>1, <2>2, <2>3
  <1>12. CASE Continue(m)
    <2>1. CASE End(m, "evaluate")
      BY <1>12, <2>1, EndInv DEF Continue, Still, Refused
    <2>2. CASE \E a \in Actions, n \in 0 .. MaxChunks : Answered(m, a, n, 2)
      BY <1>12, <2>2, AnsweredInv DEF Continue, Still
    <2> QED BY <1>12, <2>1, <2>2 DEF Continue, Continuation
  <1>13. CASE SetUserState(m)
    BY <1>13, SetUserStateInv
  <1>14. CASE AskSaysNo(m)
    BY <1>14, EndInv DEF AskSaysNo, Still, Refused
  <1>15. CASE HandlerFails(m)
    BY <1>15, EndInv DEF HandlerFails, Still, Refused
  <1>16. CASE Evaluate(m)
    BY <1>16, EndInv DEF Evaluate, Still
  <1>17. CASE Throw(m)
    BY <1>17, EndInv DEF Throw, Still
  <1> QED BY <1>1, <1>2, <1>3, <1>4, <1>5, <1>6, <1>7, <1>8, <1>9, <1>10, <1>11,
             <1>12, <1>13, <1>14, <1>15, <1>16, <1>17 DEF Step

LEMMA NextInv == Inv /\ [Next]_vars => Inv'
  <1>1. ASSUME Inv, UNCHANGED vars
        PROVE  Inv'
    BY <1>1 DEF Inv, TypeOK, MutedWhileSilent, Stored, Counted, KeptQuiet, vars
  <1> QED BY <1>1, HandlerInv DEF Next

LEMMA SpecInv == Spec => []Inv
  BY InitInv, NextInv, PTL DEF Spec

(* The room's rows and the handlers' locals keep their types. *)
THEOREM TypeCorrect == Spec => []TypeOK
  <1>1. Inv => TypeOK
    BY DEF Inv
  <1> QED BY <1>1, SpecInv, PTL

(* However many messages are handled at once, an answer in the memories    *)
(* replies to a message that is there.                                     *)
THEOREM AnswersResolve == Spec => []RepliesResolve
  <1>1. Inv => RepliesResolve
    BY DEF Inv, Stored, RepliesResolve
  <1> QED BY <1>1, SpecInv, PTL

(* Whatever the other handlers of the room do, a message that came to it   *)
(* muted is not answered as long as it stays muted.                        *)
THEOREM MuteSilences == Spec => []SilentUnanswered
  <1>1. Inv => SilentUnanswered
    BY DEF Inv, TypeOK, KeptQuiet, SilentUnanswered
  <1> QED BY <1>1, SpecInv, PTL

(* A message has at most one answer and one continuation, however the      *)
(* model chooses and whatever fails.                                       *)
THEOREM ContinuationBounded == Spec => []BoundedContinuation
  <1>1. Inv => BoundedContinuation
    BY DEF Inv, Counted, BoundedContinuation
  <1> QED BY <1>1, SpecInv, PTL

----------------------------------------------------------------------------
(* Launch.  What holds of an agent depends on whether startAgents has been *)
(* past it, is at it, or has not come to it.                               *)

LaunchPlaces ==
    {"load", "open", "init", "construct", "initialize", "clients", "register",
     "close", "ask", "fetch", "exit"}
LaunchEnded == {"ask", "fetch", "exit"}
Ready == {"construct", "initialize", "clients", "register"}

LaunchTypes ==
    /\ La!TypeOK
    /\ laAt \in LaunchPlaces /\ laDb \in {"sqlite", "postgres"}
    /\ laInit \in [1 .. Agents -> La!Initing \cup {"none", "done", "failed"}]
    /\ laAwaited \in [1 .. Agents -> La!Initing \cup {"none", "done", "failed"}]

OthersAsTheyWere ==
    /\ \A c \in 1 .. (laCur - 1) : laMade /\ laBase[c] = "open" /\ laClients[c] = Len(Kinds)
    /\ \A c \in (laCur + 1) .. Agents : laBase[c] = "none" /\ laClients[c] = 0

(* The agent that is started, or that was the last to be. *)
CurrentAgent ==
    /\ laAt \notin LaunchEnded => laRegistered = 1 .. (laCur - 1)
    /\ laAt \in LaunchEnded =>
        \/ laRegistered = 1 .. (laCur - 1)
        \/ /\ laRegistered = 1 .. laCur /\ laCur = Agents
           /\ laMade /\ laBase[laCur] = "open" /\ laClients[laCur] = Len(Kinds)
    /\ laAt \in {"load", "open"} => laBase[laCur] = "none"
    /\ laAt \in Ready \cup {"init", "close"} => laBase[laCur] = "open"
    /\ laAt \in Ready => laMade
    /\ laAt = "register" => laClients[laCur] = Len(Kinds)

(* The two calls of db.init meet on a fresh database only, that is, when   *)
(* the first agent is started.                                             *)
FreshDatabase ==
    /\ laDb = "sqlite" => laMade /\ laAt # "init"
    /\ laAt = "init" => /\ laInit[laCur] # "none" /\ laAwaited[laCur] \in La!Initing
                        /\ laAwaited[laCur] = "create" => laCur = 1
    /\ (laAt = "close" \/ laBase[laCur] = "closed") /\ laFaults = 0 =>
        laDb = "postgres" /\ laMade /\ laInit[laCur] # "none" /\ laAwaited[laCur] = "failed"
                          /\ laCur = 1

LaunchInv == LaunchTypes /\ OthersAsTheyWere /\ CurrentAgent /\ FreshDatabase

(* What a step of db.init comes to. *)
LEMMA OutcomesOfInit ==
    ASSUME NEW place \in La!Initing, NEW closed \in BOOLEAN,
           NEW next \in La!Outcomes(place, closed)
    PROVE  /\ next \in {"check", "create", "done", "failed"}
           /\ next = "done" => laMade \/ place = "create"
           /\ next = "create" => ~laMade
           /\ next = "failed" /\ ~closed => laMade /\ place = "create"
  <1>1. "test" # "check" /\ "test" # "create" /\ "check" # "create"
    OBVIOUS
  <1>2. CASE place = "test"
    <2>1. next \in IF closed THEN {"failed"} ELSE {"check"}
      BY <1>1, <1>2, Zenon DEF La!Outcomes
    <2> QED BY <1>2, <2>1
  <1>3. CASE place = "check"
    <2>1. next \in IF laMade THEN {"done"} ELSE {"create"}
      BY <1>1, <1>3, Zenon DEF La!Outcomes, La!Looked
    <2> QED BY <1>3, <2>1
  <1>4. CASE place = "create"
    <2>1. next \in IF laMade THEN {"done", "failed"} ELSE {"done"}
      BY <1>1, <1>4, Zenon DEF La!Outcomes
    <2> QED BY <1>4, <2>1
  <1> QED BY <1>2, <1>3, <1>4 DEF La!Initing

LEMMA LaunchInit == ASSUME La!LaunchAssumption, La!Init PROVE LaunchInv
  <1> USE DEF La!All, La!Initing
  <1>1. Len(Kinds) \in Nat /\ Agents \in Nat \ {0} /\ MaxLaunchFaults \in Nat
    BY LenProperties DEF La!LaunchAssumption
  <1>2. laMade \in BOOLEAN /\ (laDb = "sqlite" => laMade)
    BY DEF La!Init
  <1>3. /\ laAlive = TRUE /\ laCur = 1 /\ laAt = "load" /\ laDb \in {"sqlite", "postgres"}
        /\ laBase = [c \in 1 .. Agents |-> "none"] /\ laInit = [c \in 1 .. Agents |-> "none"]
        /\ laAwaited = [c \in 1 .. Agents |-> "none"] /\ laClients = [c \in 1 .. Agents |-> 0]
        /\ laRegistered = {} /\ laFaults = 0
    BY DEF La!Init
  <1>4. La!TypeOK
    BY <1>1, <1>2, <1>3 DEF La!TypeOK
  <1>5. LaunchTypes
    BY <1>1, <1>3, <1>4 DEF LaunchTypes, LaunchPlaces
  <1>6. OthersAsTheyWere /\ CurrentAgent /\ FreshDatabase
    BY <1>1, <1>2, <1>3 DEF OthersAsTheyWere, CurrentAgent, FreshDatabase, LaunchEnded, Ready
  <1> QED BY <1>5, <1>6 DEF LaunchInv

(* Steps of what startAgents did not wait for: they go by the others.      *)
LEMMA LaunchBeside ==
    ASSUME La!LaunchAssumption, LaunchInv, NEW c \in La!All,
           La!Test(c) \/ La!Logged(c) \/ La!Ensure(c)
    PROVE  LaunchInv'
  <1> USE DEF La!All, La!Initing, La!Fault
  <1>1. Len(Kinds) \in Nat /\ Agents \in Nat \ {0} /\ MaxLaunchFaults \in Nat
    BY LenProperties DEF La!LaunchAssumption
  <1>2. laAlive' \in BOOLEAN /\ laMade' \in BOOLEAN /\ (laMade => laMade')
    <2>1. laAlive \in BOOLEAN /\ laMade \in BOOLEAN
      BY DEF LaunchInv, LaunchTypes, La!TypeOK
    <2> QED BY <2>1, Zenon DEF La!Test, La!Logged, La!Ensure
  <1>3. UNCHANGED <<laDb, laCur, laAt, laBase, laAwaited, laClients, laRegistered>>
    BY DEF La!Test, La!Logged, La!Ensure
  <1>4. laFaults \in Nat /\ laFaults' \in 0 .. MaxLaunchFaults /\ (laFaults' = 0 => laFaults = 0)
    <2>1. laFaults \in 0 .. MaxLaunchFaults
      BY DEF LaunchInv, LaunchTypes, La!TypeOK
    <2>2. laFaults' = laFaults \/ (laFaults < MaxLaunchFaults /\ laFaults' = laFaults + 1)
      BY Zenon DEF La!Test, La!Logged, La!Ensure
    <2> QED BY <1>1, <2>1, <2>2
  <1>5. laInit' = laInit \/ \E next \in {"check", "create", "done", "failed"} :
                              laInit' = [laInit EXCEPT ![c] = next]
    <2>1. ASSUME La!Logged(c), NEW next \in La!Outcomes(laInit[c], laBase[c] = "closed")
          PROVE  next \in {"check", "create", "done", "failed"}
      <3>1. laInit[c] \in La!Initing /\ (laBase[c] = "closed") \in BOOLEAN
        BY <2>1, Zenon DEF La!Logged
      <3> QED BY <2>1, <3>1, OutcomesOfInit, Zenon
    <2> QED BY <2>1, Zenon DEF La!Test, La!Logged, La!Ensure
  <1>6. LaunchTypes'
    BY <1>1, <1>2, <1>3, <1>4, <1>5 DEF LaunchInv, LaunchTypes, La!TypeOK
  <1>7. \A d \in 1 .. Agents : laInit[d] # "none" => laInit'[d] # "none"
    BY <1>5 DEF LaunchInv, LaunchTypes
  <1>8. laCur \in 1 .. Agents
    BY DEF LaunchInv, LaunchTypes, La!TypeOK
  <1> QED BY <1>2, <1>3, <1>4, <1>6, <1>7, <1>8
          DEF LaunchInv, OthersAsTheyWere, CurrentAgent, FreshDatabase
(* Steps of the loop over the agents. *)
LEMMA LaunchAhead ==
    ASSUME La!LaunchAssumption, LaunchInv,
           \/ La!Load \/ La!Open \/ La!OpenFails \/ La!Awaited \/ La!Construct
           \/ La!Initialize \/ La!StartClient \/ La!ClientFails \/ La!ClientsStarted
           \/ La!Register \/ La!Close \/ La!Ask \/ La!Answer \/ La!Exit
    PROVE  LaunchInv'
  <1> USE DEF La!All, La!Initing, La!Fault, La!Starting, LaunchPlaces, LaunchEnded, Ready
  <1>1. Len(Kinds) \in Nat /\ Agents \in Nat \ {0} /\ MaxLaunchFaults \in Nat
    BY LenProperties DEF La!LaunchAssumption
  <1>2. /\ LaunchTypes /\ OthersAsTheyWere /\ CurrentAgent /\ FreshDatabase
        /\ laCur \in 1 .. Agents
    BY DEF LaunchInv, LaunchTypes, La!TypeOK
  <1> USE DEF LaunchTypes, La!TypeOK, OthersAsTheyWere, CurrentAgent, FreshDatabase
  <1>0. laAlive' \in BOOLEAN
    BY <1>2, Zenon DEF La!Load, La!Open, La!OpenFails, La!Awaited, La!Construct, La!Initialize,
       La!StartClient, La!ClientFails, La!ClientsStarted, La!Register, La!Close, La!Ask,
       La!Answer, La!Exit
  <1>3. CASE La!Load
    <2>1. /\ UNCHANGED <<laDb, laMade, laCur, laBase, laInit, laAwaited, laClients, laRegistered>>
          /\ laAt = "load" /\ laAt' \in {"load", "open"}
          /\ laFaults' = laFaults \/ (laFaults < MaxLaunchFaults /\ laFaults' = laFaults + 1)
      BY <1>3 DEF La!Load
    <2>2. LaunchTypes'
      BY <1>0, <1>1, <1>2, <2>1
    <2>3. OthersAsTheyWere' /\ CurrentAgent' /\ FreshDatabase'
      BY <1>2, <2>1
    <2> QED BY <2>2, <2>3 DEF LaunchInv
  <1>4. CASE La!Open
    <2>1. /\ laAt = "open" /\ UNCHANGED <<laDb, laMade, laCur, laClients, laRegistered, laFaults>>
          /\ laBase' = [laBase EXCEPT ![laCur] = "open"]
          /\ \/ laDb = "sqlite" /\ laAt' = "construct" /\ UNCHANGED <<laInit, laAwaited>>
             \/ /\ laDb = "postgres" /\ laAt' = "init"
                /\ laInit' = [laInit EXCEPT ![laCur] = "test"]
                /\ laAwaited' = [laAwaited EXCEPT ![laCur] = "test"]
      BY <1>2, <1>4 DEF La!Open
    <2>2. LaunchTypes'
      <3>1. /\ laInit' \in [1 .. Agents -> La!Initing \cup {"none", "done", "failed"}]
            /\ laAwaited' \in [1 .. Agents -> La!Initing \cup {"none", "done", "failed"}]
        BY <1>2, <2>1
      <3>2. laBase' \in [1 .. Agents -> {"none", "open", "closed"}]
        BY <1>2, <2>1
      <3>3. UNCHANGED <<laMade, laDb, laCur, laClients, laFaults>> /\ laAt' \in LaunchPlaces
        BY <2>1
      <3> QED BY <1>0, <1>1, <1>2, <3>1, <3>2, <3>3
    <2>3. OthersAsTheyWere' /\ CurrentAgent' /\ FreshDatabase'
      BY <1>1, <1>2, <2>1
    <2> QED BY <2>2, <2>3 DEF LaunchInv
  <1>5. CASE La!OpenFails
    BY <1>1, <1>2, <1>5 DEF La!OpenFails, LaunchInv
  <1>6. CASE La!Awaited
    <2>1. /\ laAt = "init"
          /\ UNCHANGED <<laAlive, laDb, laCur, laBase, laInit, laClients, laRegistered>>
          /\ laAwaited[laCur] \in La!Initing
      BY <1>2, <1>6 DEF La!Awaited
    <2>2. CASE /\ La!Fault /\ laAwaited' = [laAwaited EXCEPT ![laCur] = "failed"]
               /\ laAt' = "close" /\ UNCHANGED laMade
      BY <1>1, <1>2, <2>1, <2>2 DEF LaunchInv
    <2>3. ASSUME NEW next \in La!Outcomes(laAwaited[laCur], FALSE),
                 laAwaited' = [laAwaited EXCEPT ![laCur] = next], UNCHANGED laFaults,
                 laAt' = CASE next = "done" -> "construct" [] next = "failed" -> "close"
                         [] OTHER -> "init",
                 laMade' = (laMade \/ laAwaited[laCur] = "create")
          PROVE  LaunchInv'
      <3>1. /\ next \in {"check", "create", "done", "failed"}
            /\ next = "done" => laMade \/ laAwaited[laCur] = "create"
            /\ next = "create" => ~laMade
            /\ next = "failed" => laMade /\ laAwaited[laCur] = "create"
        BY <2>1, <2>3, OutcomesOfInit
      <3>2. /\ laMade \in BOOLEAN /\ laMade' \in BOOLEAN /\ (laMade => laMade')
            /\ next \in {"done", "failed"} => laMade'
        BY <1>2, <2>3, <3>1, Zenon
      <3>3. /\ next = "done" => laAt' = "construct"
            /\ next = "failed" => laAt' = "close"
            /\ next \in {"check", "create"} => laAt' = "init"
        <4>1. "done" # "failed" /\ "check" \notin {"done", "failed"}
              /\ "create" \notin {"done", "failed"}
          OBVIOUS
        <4> QED BY <2>3, <4>1, Zenon
      <3>4. LaunchTypes'
        BY <1>1, <1>2, <2>1, <2>3, <3>1, <3>2, <3>3
      <3>5. OthersAsTheyWere' /\ CurrentAgent'
        BY <1>1, <1>2, <2>1, <3>1, <3>2, <3>3
      <3>6. next \in {"create", "failed"} => laCur = 1
        BY <1>2, <2>1, <3>1
      <3>7. FreshDatabase'
        <4>1. laDb = "postgres" /\ laBase[laCur] = "open" /\ laInit[laCur] # "none"
          BY <1>2, <2>1
        <4>2. laAwaited'[laCur] = next
          BY <1>2, <2>3
        <4> QED BY <2>1, <3>1, <3>2, <3>3, <3>6, <4>1, <4>2
      <3> QED BY <3>4, <3>5, <3>7 DEF LaunchInv
    <2> QED BY <1>6, <2>2, <2>3, Zenon DEF La!Awaited
  <1>7. CASE La!Construct
    BY <1>1, <1>2, <1>7 DEF La!Construct, LaunchInv
  <1>8. CASE La!Initialize
    BY <1>1, <1>2, <1>8 DEF La!Initialize, La!Initialized, LaunchInv
  <1>9. CASE La!StartClient
    BY <1>1, <1>2, <1>9 DEF La!StartClient, LaunchInv
  <1>10. CASE La!ClientFails
    <2>1. /\ UNCHANGED <<laDb, laMade, laCur, laBase, laInit, laAwaited, laClients, laRegistered>>
          /\ laAt = "clients" /\ laAt' \in {"clients", "close"}
          /\ laFaults < MaxLaunchFaults /\ laFaults' = laFaults + 1
      BY <1>10 DEF La!ClientFails
    <2>2. LaunchTypes'
      BY <1>0, <1>1, <1>2, <2>1
    <2>3. OthersAsTheyWere' /\ CurrentAgent' /\ FreshDatabase'
      BY <1>2, <2>1
    <2> QED BY <2>2, <2>3 DEF LaunchInv
  <1>11. CASE La!ClientsStarted
    BY <1>1, <1>2, <1>11 DEF La!ClientsStarted, LaunchInv
  <1>12. CASE La!Register
    <2>1. /\ laAt = "register" /\ laRegistered' = laRegistered \cup {laCur}
          /\ UNCHANGED <<laAlive, laDb, laMade, laBase, laInit, laAwaited, laClients, laFaults>>
          /\ \/ laCur < Agents /\ laCur' = laCur + 1 /\ laAt' = "open"
             \/ laCur = Agents /\ laCur' = laCur /\ laAt' = "ask"
      BY <1>1, <1>2, <1>12 DEF La!Register
    <2>2. laRegistered' = 1 .. laCur
      BY <1>2, <2>1
    <2>3. LaunchTypes'
      BY <1>1, <1>2, <2>1
    <2>4. OthersAsTheyWere'
      BY <1>1, <1>2, <2>1
    <2>5. CurrentAgent' /\ FreshDatabase'
      BY <1>1, <1>2, <2>1, <2>2
    <2> QED BY <2>3, <2>4, <2>5 DEF LaunchInv
  <1>13. CASE La!Close
    BY <1>1, <1>2, <1>13 DEF La!Close, LaunchInv
  <1>14. CASE La!Ask \/ La!Answer \/ La!Exit
    <2>1. /\ UNCHANGED <<laDb, laMade, laCur, laBase, laInit, laAwaited, laClients, laRegistered,
                      laFaults>>
          /\ laAt \in LaunchEnded /\ laAt' \in LaunchEnded
      BY <1>14 DEF La!Ask, La!Answer, La!Exit
    <2>2. LaunchTypes'
      BY <1>0, <1>1, <1>2, <2>1
    <2>3. OthersAsTheyWere' /\ CurrentAgent' /\ FreshDatabase'
      BY <1>2, <2>1
    <2> QED BY <2>2, <2>3 DEF LaunchInv
  <1> QED BY <1>3, <1>4, <1>5, <1>6, <1>7, <1>8, <1>9, <1>10, <1>11, <1>12, <1>13, <1>14

LEMMA LaunchNext ==
    ASSUME La!LaunchAssumption, LaunchInv, [La!Next]_La!vars
    PROVE  LaunchInv'
  <1>1. CASE UNCHANGED La!vars
    <2>1. /\ UNCHANGED <<laAlive, laDb, laMade, laCur, laAt, laBase>>
          /\ UNCHANGED <<laInit, laAwaited, laClients, laRegistered,
                      laFaults>>
      BY <1>1 DEF La!vars
    <2>2. LaunchTypes' /\ OthersAsTheyWere'
      BY <2>1 DEF LaunchInv, LaunchTypes, La!TypeOK, OthersAsTheyWere
    <2>3. CurrentAgent' /\ FreshDatabase'
      BY <2>1 DEF LaunchInv, CurrentAgent, FreshDatabase
    <2> QED BY <2>2, <2>3 DEF LaunchInv
  <1>2. CASE La!Next
    BY <1>2, LaunchBeside, LaunchAhead, Zenon DEF La!Next, La!Step
  <1> QED BY <1>1, <1>2

LEMMA LaunchSpec ==
    ASSUME La!LaunchAssumption
    PROVE  La!Init /\ [][La!Next]_La!vars => []LaunchInv
  <1>1. La!Init => LaunchInv
    BY LaunchInit
  <1>2. LaunchInv /\ [La!Next]_La!vars => LaunchInv'
    BY LaunchNext
  <1> QED BY <1>1, <1>2, PTL

LEMMA LaunchHeld ==
    ASSUME La!LaunchAssumption, LaunchInv
    PROVE  La!RegisteredAreWhole /\ La!FailureIsOneAgents /\ La!FreshLaunchOnly
  <1>1. laCur \in 1 .. Agents /\ Agents \in Nat \ {0}
    BY DEF LaunchInv, LaunchTypes, La!TypeOK, La!All, La!LaunchAssumption
  <1>2. La!RegisteredAreWhole
    <2> SUFFICES ASSUME NEW c \in laRegistered
                 PROVE  laMade /\ laBase[c] = "open" /\ laClients[c] = Len(Kinds)
      BY DEF La!RegisteredAreWhole
    <2>1. CASE laRegistered = 1 .. (laCur - 1)
      BY <2>1 DEF LaunchInv, OthersAsTheyWere
    <2>2. CASE /\ laRegistered = 1 .. laCur /\ laMade
               /\ laBase[laCur] = "open" /\ laClients[laCur] = Len(Kinds)
      <3>1. c \in 1 .. (laCur - 1) \/ c = laCur
        BY <1>1, <2>2
      <3> QED BY <2>2, <3>1 DEF LaunchInv, OthersAsTheyWere
    <2> QED BY <2>1, <2>2 DEF LaunchInv, CurrentAgent
  <1>3. \A c \in 1 .. Agents : laBase[c] = "closed" => c = laCur
    BY <1>1 DEF LaunchInv, OthersAsTheyWere
  <1>4. La!FailureIsOneAgents
    BY <1>1, <1>3 DEF La!FailureIsOneAgents, La!All, LaunchInv, OthersAsTheyWere, CurrentAgent
  <1>5. La!FreshLaunchOnly
    BY <1>3 DEF La!FreshLaunchOnly, La!All, LaunchInv, FreshDatabase
  <1> QED BY <1>2, <1>4, <1>5

(* An agent that the server knows has an open database with its tables,    *)
(* and all of its clients run: for any number of agents and clients, and   *)
(* whatever fails.                                                         *)
THEOREM RegisteredAgentsAreWhole ==
    ASSUME La!LaunchAssumption
    PROVE  La!Spec => []La!RegisteredAreWhole
  <1>1. LaunchInv => La!RegisteredAreWhole
    BY LaunchHeld
  <1> QED BY <1>1, LaunchSpec, PTL DEF La!Spec

(* When the launch of an agent failed, those before it are known to the    *)
(* server and nothing of those after it was begun.                         *)
THEOREM FailuresAreOneAgents ==
    ASSUME La!LaunchAssumption
    PROVE  La!Spec => []La!FailureIsOneAgents
  <1>1. LaunchInv => La!FailureIsOneAgents
    BY LaunchHeld
  <1> QED BY <1>1, LaunchSpec, PTL DEF La!Spec

(* Without a failure the launch of an agent fails only if it is the first  *)
(* on a fresh postgres, and the tables are there for the next attempt.     *)
THEOREM OnlyFreshLaunchesFail ==
    ASSUME La!LaunchAssumption
    PROVE  La!Spec => []La!FreshLaunchOnly
  <1>1. LaunchInv => La!FreshLaunchOnly
    BY LaunchHeld
  <1> QED BY <1>1, LaunchSpec, PTL DEF La!Spec

----------------------------------------------------------------------------
(* Direct.  A request has rows only once it has an id, and what it looked  *)
(* for, or stored, is there under its id for good: a row is replaced only  *)
(* by one of the same id.                                                  *)

DirectTypes ==
    /\ diId \in [Requests -> Nat] /\ diNow \in Nat /\ diFaults \in Nat
    /\ DOMAIN diAt = Requests /\ diAlive \in BOOLEAN

RowsOfRequests ==
    \A row \in diRows : /\ row.request \in Requests /\ row.of \in {"message", "answer"}
                        /\ row = Di!Row(row.request, row.of)
                        /\ diAt[row.request] \notin {"new", "connect", "look", "insert"}

Held(r) == \E q \in Requests : Di!Row(q, "message") \in diRows /\ diId[q] = diId[r]

HeldOnceAnswered ==
    \A r \in Requests : diAt[r] = "generate" \/ Di!Row(r, "answer") \in diRows => Held(r)

DirectInv == DirectTypes /\ RowsOfRequests /\ HeldOnceAnswered /\ Di!Survives

(* Rows of different requests are different, and so are a message and its  *)
(* answer.                                                                 *)
LEMMA RowsDiffer ==
    ASSUME NEW q, NEW r, NEW of, NEW what, Di!Row(q, of) = Di!Row(r, what)
    PROVE  q = r /\ of = what
  <1>1. /\ Di!Row(q, of).request = q /\ Di!Row(r, what).request = r
        /\ Di!Row(q, of).of = of /\ Di!Row(r, what).of = what
    BY DEF Di!Row
  <1> QED BY <1>1

(* A step of one request that stores nothing. *)
LEMMA DirectMove ==
    ASSUME DirectInv, NEW r \in Requests, NEW place, diAt' = [diAt EXCEPT ![r] = place],
           diAlive, UNCHANGED <<diDb, diAlive, diNow, diRows, diId>>, diFaults' \in Nat,
           place = "generate" => Held(r),
           place \in {"new", "connect", "look", "insert"} =>
               diAt[r] \in {"new", "connect", "look", "insert"}
    PROVE  DirectInv'
  <1>1. /\ DirectTypes'
        /\ \A q \in Requests : diAt'[q] = IF q = r THEN place ELSE diAt[q]
    BY DEF DirectInv, DirectTypes
  <1>2. RowsOfRequests'
    BY <1>1 DEF DirectInv, RowsOfRequests, Di!Row
  <1>3. HeldOnceAnswered'
    BY <1>1 DEF DirectInv, HeldOnceAnswered, Held, Di!Row
  <1>4. Di!Survives'
    BY DEF Di!Survives
  <1> QED BY <1>1, <1>2, <1>3, <1>4 DEF DirectInv

LEMMA DirectStep ==
    ASSUME DirectInv, NEW r \in Requests, Di!Arrive(r) \/ Di!Step(r)
    PROVE  DirectInv'
  <1> USE DEF Di!Go, Di!Tell, Di!Running, Di!Ended
  <1>1. DirectTypes /\ RowsOfRequests /\ HeldOnceAnswered
    BY DEF DirectInv
  <1>2. diFaults \in Nat
    BY DEF DirectInv, DirectTypes
  <1>3. CASE Di!Arrive(r)
    BY <1>2, <1>3, DirectMove DEF Di!Arrive
  <1>4. CASE Di!Whisper(r) \/ Di!Picture(r) \/ Di!FineTune(r) \/ Di!Download(r)
    <2>1. /\ diAt' = [diAt EXCEPT ![r] = "answered"] /\ diAlive
          /\ UNCHANGED <<diDb, diAlive, diNow, diRows, diId, diFaults>>
      BY <1>4 DEF Di!Whisper, Di!Picture, Di!FineTune, Di!Download, Di!Answer
    <2> QED BY <1>2, <2>1, DirectMove
  <1>5. CASE Di!Connect(r)
    <2>1. /\ diAlive /\ diAt[r] = "connect" /\ diId' = [diId EXCEPT ![r] = diNow]
          /\ diAt' = [diAt EXCEPT ![r] = "look"]
          /\ UNCHANGED <<diDb, diAlive, diClosing, diNow, diRows, diTold, diFaults>>
      BY <1>5 DEF Di!Connect
    <2>2. \A q \in Requests \ {r} : diId'[q] = diId[q] /\ diAt'[q] = diAt[q]
      BY <1>1, <2>1 DEF DirectTypes
    <2>3. diAt'[r] = "look" /\ \A row \in diRows : row.request # r
      BY <1>1, <2>1 DEF DirectTypes, RowsOfRequests
    <2>4. DirectTypes'
      BY <1>1, <2>1 DEF DirectTypes
    <2>5. \A q \in Requests \ {r} : \A of : Di!Row(q, of)' = Di!Row(q, of)
      BY <2>2 DEF Di!Row
    <2>6. RowsOfRequests'
      BY <1>1, <2>1, <2>2, <2>3, <2>5 DEF RowsOfRequests
    <2>7. \A of : Di!Row(r, of)' \notin diRows
      BY <2>3 DEF Di!Row
    <2>8. HeldOnceAnswered'
      <3>1. ASSUME NEW q \in Requests, diAt'[q] = "generate" \/ (Di!Row(q, "answer") \in diRows)'
            PROVE  Held(q)'
        <4>1. q # r
          BY <2>1, <2>3, <2>7, <3>1
        <4>2. PICK w \in Requests : Di!Row(w, "message") \in diRows /\ diId[w] = diId[q]
          BY <1>1, <2>1, <2>2, <2>5, <3>1, <4>1 DEF HeldOnceAnswered, Held
        <4>3. w # r
          BY <2>3, <4>2 DEF Di!Row
        <4> QED BY <2>1, <2>2, <2>5, <4>1, <4>2, <4>3 DEF Held
      <3> QED BY <3>1 DEF HeldOnceAnswered
    <2>9. Di!Survives'
      BY <2>1 DEF Di!Survives
    <2> QED BY <2>4, <2>6, <2>8, <2>9 DEF DirectInv
  <1>6. ASSUME NEW row \in Di!Taken(r) PROVE Held(r) /\ row = Di!Row(row.request, "message")
    <2>1. row \in diRows /\ row.of = "message" /\ row.id = diId[r] /\ row.request \in Requests
          /\ row = Di!Row(row.request, "message")
      BY <1>1, <1>6 DEF Di!Taken, Di!Hash, RowsOfRequests
    <2>2. row.id = diId[row.request]
      BY <2>1 DEF Di!Row
    <2> QED BY <2>1, <2>2 DEF Held
  <1>7. CASE Di!Look(r)
    <2>1. /\ diAlive /\ diAt[r] = "look"
          /\ UNCHANGED <<diDb, diAlive, diClosing, diNow, diRows, diId, diTold, diFaults>>
          /\ \/ Di!Taken(r) = {} /\ diAt' = [diAt EXCEPT ![r] = "insert"]
             \/ Di!Taken(r) # {} /\ diAt' = [diAt EXCEPT ![r] = "generate"]
      BY <1>7 DEF Di!Look
    <2> QED BY <1>2, <1>6, <2>1, DirectMove
  <1>8. CASE Di!Insert(r)
    <2>1. diAlive /\ diAt[r] = "insert"
                  /\ UNCHANGED <<diDb, diClosing, diNow, diId, diTold, diFaults>>
      BY <1>8 DEF Di!Insert
    <2>2. CASE diDb = "postgres" /\ Di!Taken(r) # {}
      <3>1. diAlive' = FALSE /\ UNCHANGED <<diRows, diAt>>
        BY <1>8, <2>2 DEF Di!Insert
      <3>2. PICK row \in Di!Taken(r) : TRUE
        BY <2>2
      <3>3. /\ row \in diRows /\ row = Di!Row(row.request, "message") /\ row.id = diId[r]
            /\ row.request \in Requests /\ row.request # r
        BY <1>1, <1>6, <2>1 DEF RowsOfRequests, Di!Taken, Di!Hash
      <3>4. diId[row.request] = diId[r]
        BY <3>3 DEF Di!Row
      <3>5. Di!Survives'
        BY <2>1, <2>2, <3>1, <3>3, <3>4 DEF Di!Survives, Di!Row
      <3>6. DirectTypes' /\ RowsOfRequests' /\ HeldOnceAnswered'
        BY <1>1, <2>1, <3>1 DEF DirectTypes, RowsOfRequests, HeldOnceAnswered, Held, Di!Row
      <3> QED BY <3>5, <3>6 DEF DirectInv
    <2>3. CASE ~(diDb = "postgres" /\ Di!Taken(r) # {})
      <3>1. /\ diRows' = (diRows \ Di!Taken(r)) \cup {Di!Row(r, "message")}
            /\ diAt' = [diAt EXCEPT ![r] = "generate"] /\ diAlive' = diAlive
        BY <1>8, <2>3 DEF Di!Insert
      <3>2. \A q, of : Di!Row(q, of)' = Di!Row(q, of)
        BY <2>1 DEF Di!Row
      <3>3. /\ DirectTypes'
            /\ \A q \in Requests : diAt'[q] = IF q = r THEN "generate" ELSE diAt[q]
        BY <1>1, <2>1, <3>1 DEF DirectTypes
      <3>4. RowsOfRequests'
        <4>1. ASSUME NEW row \in diRows' 
              PROVE  /\ row.request \in Requests /\ row.of \in {"message", "answer"}
                     /\ row = Di!Row(row.request, row.of)
                     /\ diAt'[row.request] \notin {"new", "connect", "look", "insert"}
          <5>1. CASE row \in diRows
            BY <1>1, <3>3, <5>1 DEF RowsOfRequests
          <5>2. CASE row = Di!Row(r, "message")
            BY <3>3, <5>2 DEF Di!Row
          <5> QED BY <3>1, <4>1, <5>1, <5>2
        <4> QED BY <3>2, <4>1 DEF RowsOfRequests
      <3>5. \A q \in Requests : Held(q) => Held(q)'
        <4>1. ASSUME NEW q \in Requests, NEW w \in Requests,
                     Di!Row(w, "message") \in diRows, diId[w] = diId[q]
              PROVE  Held(q)'
          <5>1. CASE Di!Row(w, "message") \in Di!Taken(r)
            <6>1. diId[w] = diId[r]
              BY <5>1 DEF Di!Taken, Di!Hash, Di!Row
            <6> QED BY <2>1, <3>1, <3>2, <4>1, <6>1 DEF Held
          <5>2. CASE Di!Row(w, "message") \notin Di!Taken(r)
            BY <2>1, <3>1, <3>2, <4>1, <5>2 DEF Held
          <5> QED BY <5>1, <5>2
        <4> QED BY <4>1 DEF Held
      <3>6. HeldOnceAnswered'
        <4>1. ASSUME NEW q \in Requests, Di!Row(q, "answer") \in diRows'
              PROVE  Di!Row(q, "answer") \in diRows
          <5>1. Di!Row(q, "answer") # Di!Row(r, "message")
            <6>1. "answer" # "message"
              OBVIOUS
            <6> QED BY <6>1, RowsDiffer
          <5> QED BY <3>1, <4>1, <5>1
        <4>2. Held(r)'
          BY <2>1, <3>1, <3>2 DEF Held
        <4> QED BY <1>1, <3>2, <3>3, <3>5, <4>1, <4>2 DEF HeldOnceAnswered
      <3>7. Di!Survives'
        BY <2>1, <3>1 DEF Di!Survives
      <3> QED BY <3>3, <3>4, <3>6, <3>7 DEF DirectInv
    <2> QED BY <2>2, <2>3
  <1>9. CASE Di!Generate(r)
    <2>1. /\ diAlive /\ diAt[r] = "generate" /\ diRows' = diRows \cup {Di!Row(r, "answer")}
          /\ diAt' = [diAt EXCEPT ![r] = "evaluate"]
          /\ UNCHANGED <<diDb, diAlive, diClosing, diNow, diId, diTold, diFaults>>
      BY <1>9 DEF Di!Generate
    <2>2. \A q, of : Di!Row(q, of)' = Di!Row(q, of)
      BY <2>1 DEF Di!Row
    <2>3. /\ DirectTypes'
          /\ \A q \in Requests : diAt'[q] = IF q = r THEN "evaluate" ELSE diAt[q]
      BY <1>1, <2>1 DEF DirectTypes
    <2>4. RowsOfRequests'
      <3>1. Di!Row(r, "answer").request = r /\ Di!Row(r, "answer").of = "answer"
        BY DEF Di!Row
      <3> QED BY <1>1, <2>1, <2>2, <2>3, <3>1 DEF RowsOfRequests
    <2>5. HeldOnceAnswered'
      <3>1. \A q \in Requests : Held(q) => Held(q)'
        BY <2>1, <2>2 DEF Held
      <3>2. Held(r)'
        BY <1>1, <2>1, <3>1 DEF HeldOnceAnswered
      <3>3. \A q \in Requests : q # r /\ Di!Row(q, "answer") \in diRows' =>
                                    Di!Row(q, "answer") \in diRows
        BY <2>1, RowsDiffer
      <3> QED BY <1>1, <2>2, <2>3, <3>1, <3>2, <3>3 DEF HeldOnceAnswered
    <2>6. Di!Survives'
      BY <2>1 DEF Di!Survives
    <2> QED BY <2>3, <2>4, <2>5, <2>6 DEF DirectInv
  <1>10. CASE Di!Evaluate(r)
    BY <1>2, <1>10, DirectMove DEF Di!Evaluate
  <1>11. CASE Di!Act(r)
    <2>1. /\ diAt' = [diAt EXCEPT ![r] = "answered"] /\ diAlive
          /\ UNCHANGED <<diDb, diAlive, diNow, diRows, diId, diFaults>>
      BY <1>11 DEF Di!Act
    <2> QED BY <1>2, <2>1, DirectMove
  <1>12. CASE Di!Throw(r)
    <2>1. diAlive /\ diFaults' = diFaults + 1 /\ UNCHANGED <<diDb, diClosing, diNow, diRows, diId>>
      BY <1>12 DEF Di!Throw
    <2>2. diFaults' \in Nat /\ diFaults' > 0
      BY <1>2, <2>1
    <2>3. CASE diAt[r] \in {"tune", "download", "act"}
      <3>1. diAt' = [diAt EXCEPT ![r] = "answered"] /\ diAlive' = diAlive
        BY <1>12, <2>3 DEF Di!Throw
      <3> QED BY <2>1, <2>2, <3>1, DirectMove
    <2>4. CASE diAt[r] \notin {"tune", "download", "act"}
      <3>1. diAlive' = FALSE /\ UNCHANGED <<diAt, diTold>>
        BY <1>12, <2>4 DEF Di!Throw
      <3>2. DirectTypes' /\ RowsOfRequests' /\ HeldOnceAnswered'
        BY <1>1, <2>1, <2>2, <3>1
           DEF DirectTypes, RowsOfRequests, HeldOnceAnswered, Held, Di!Row
      <3> QED BY <2>2, <3>2 DEF DirectInv, Di!Survives
    <2> QED BY <2>3, <2>4
  <1> QED BY <1>3, <1>4, <1>5, <1>7, <1>8, <1>9, <1>10, <1>11, <1>12 DEF Di!Step

LEMMA DirectSpec == Di!Init /\ [][Di!Next]_Di!vars => []DirectInv
  <1>1. Di!Init => DirectInv
    BY DEF Di!Init, DirectInv, DirectTypes, RowsOfRequests, HeldOnceAnswered, Di!Survives
  <1>2. DirectInv /\ [Di!Next]_Di!vars => DirectInv'
    <2> SUFFICES ASSUME DirectInv, [Di!Next]_Di!vars PROVE DirectInv'
      OBVIOUS
    <2>1. ASSUME UNCHANGED <<diDb, diRows, diAt, diId, diFaults>>, diNow' \in Nat,
                 diAlive' \in BOOLEAN,
                 Di!Survives' PROVE DirectInv'
      BY <2>1 DEF DirectInv, DirectTypes, RowsOfRequests, HeldOnceAnswered, Held, Di!Row
    <2>2. CASE UNCHANGED Di!vars
      BY <2>1, <2>2 DEF Di!vars, DirectInv, DirectTypes, Di!Survives, Di!Row
    <2>3. CASE Di!Tick \/ Di!Stop
      BY <2>1, <2>3 DEF Di!Tick, Di!Stop, DirectInv, DirectTypes, Di!Survives, Di!Row
    <2>4. CASE Di!Exit
      <3>1. diAlive' = FALSE /\ diClosing'
                             /\ UNCHANGED <<diDb, diRows, diAt, diId, diFaults, diNow>>
        BY <2>4 DEF Di!Exit
      <3> QED BY <2>1, <3>1 DEF DirectInv, DirectTypes, Di!Survives
    <2> QED BY <2>2, <2>3, <2>4, DirectStep DEF Di!Next
  <1> QED BY <1>1, <1>2, PTL

(* An answer in the memories has its message there, or a message of        *)
(* another request of the same millisecond.                                *)
THEOREM MessagesAreRemembered == Di!Spec => []Di!Remembered
  <1>1. DirectInv => Di!Remembered
    BY DEF DirectInv, HeldOnceAnswered, Held, Di!Remembered
  <1> QED BY <1>1, DirectSpec, PTL DEF Di!Spec

(* The server's process ends for the reasons named, and no other. *)
THEOREM ServerSurvives == Di!Spec => []Di!Survives
  <1>1. DirectInv => Di!Survives
    BY DEF DirectInv
  <1> QED BY <1>1, DirectSpec, PTL DEF Di!Spec

(* What an HTTP server counts and stamps stays within its bounds. *)
DirectBounds ==
    /\ diClosing \in BOOLEAN /\ diNow \in 0 .. MaxTime /\ diFaults \in 0 .. MaxFaults
    /\ diId \in [Requests -> 0 .. MaxTime] /\ diTold \in [Requests -> 0 .. 2]
    /\ diRows \subseteq [id : 0 .. MaxTime, of : {"message", "answer"}, request : Requests]

LEMMA DirectRow ==
    ASSUME DirectBounds, NEW r \in Requests, NEW of \in {"message", "answer"}
    PROVE  Di!Row(r, of) \in [id : 0 .. MaxTime, of : {"message", "answer"}, request : Requests]
  <1>1. diId[r] \in 0 .. MaxTime
    BY DEF DirectBounds
  <1> QED BY <1>1 DEF Di!Row

LEMMA DirectStays ==
    ASSUME Di!DirectAssumption, DirectBounds, [Di!Next]_Di!vars
    PROVE  DirectBounds'
  <1>0. MaxTime \in Nat /\ MaxFaults \in Nat
    BY DEF Di!DirectAssumption
  <1>1. CASE UNCHANGED Di!vars
    BY <1>1 DEF Di!vars, DirectBounds
  <1>2. CASE Di!Tick \/ Di!Stop \/ Di!Exit
    <2>1. diNow' = diNow \/ (diNow < MaxTime /\ diNow' = diNow + 1)
      BY <1>2 DEF Di!Tick, Di!Stop, Di!Exit
    <2>2. diNow' \in 0 .. MaxTime
      BY <1>0, <2>1 DEF DirectBounds
    <2>3. diClosing' \in BOOLEAN
      BY <1>2 DEF Di!Tick, Di!Stop, Di!Exit, DirectBounds
    <2>4. UNCHANGED <<diRows, diId, diTold, diFaults>>
      BY <1>2 DEF Di!Tick, Di!Stop, Di!Exit
    <2> QED BY <2>2, <2>3, <2>4 DEF DirectBounds
  <1>3. ASSUME NEW r \in Requests, Di!Arrive(r) \/ Di!Step(r)
        PROVE  DirectBounds'
    <2> USE DEF Di!Go, Di!Tell, Di!Answer
    <2>1. UNCHANGED <<diClosing, diNow>>
      BY <1>3 DEF Di!Arrive, Di!Step, Di!Whisper, Di!Picture, Di!FineTune, Di!Download, Di!Connect,
                  Di!Look, Di!Insert, Di!Generate, Di!Evaluate, Di!Act, Di!Throw
    <2>2. diId' = diId \/ diId' = [diId EXCEPT ![r] = diNow]
      BY <1>3 DEF Di!Arrive, Di!Step, Di!Whisper, Di!Picture, Di!FineTune, Di!Download, Di!Connect,
                  Di!Look, Di!Insert, Di!Generate, Di!Evaluate, Di!Act, Di!Throw
    <2>3. diTold' = diTold \/ (\E n \in 1 .. 2 : diTold' = [diTold EXCEPT ![r] = n])
      BY <1>3 DEF Di!Arrive, Di!Step, Di!Whisper, Di!Picture, Di!FineTune, Di!Download, Di!Connect,
                  Di!Look, Di!Insert, Di!Generate, Di!Evaluate, Di!Act, Di!Throw
    <2>4. diFaults' = diFaults \/ (diFaults < MaxFaults /\ diFaults' = diFaults + 1)
      BY <1>3 DEF Di!Arrive, Di!Step, Di!Whisper, Di!Picture, Di!FineTune, Di!Download, Di!Connect,
                  Di!Look, Di!Insert, Di!Generate, Di!Evaluate, Di!Act, Di!Throw
    <2>5. \E of \in {"message", "answer"} : diRows' \subseteq diRows \cup {Di!Row(r, of)}
      BY <1>3 DEF Di!Arrive, Di!Step, Di!Whisper, Di!Picture, Di!FineTune, Di!Download, Di!Connect,
                  Di!Look, Di!Insert, Di!Generate, Di!Evaluate, Di!Act, Di!Throw
    <2>6. diId' \in [Requests -> 0 .. MaxTime]
      BY <2>2 DEF DirectBounds
    <2>7. diTold' \in [Requests -> 0 .. 2]
      BY <2>3 DEF DirectBounds
    <2>8. diFaults' \in 0 .. MaxFaults
      BY <1>0, <2>4 DEF DirectBounds
    <2>9. diRows' \subseteq [id : 0 .. MaxTime, of : {"message", "answer"}, request : Requests]
      BY <2>5, DirectRow DEF DirectBounds
    <2> QED BY <2>1, <2>6, <2>7, <2>8, <2>9 DEF DirectBounds
  <1> QED BY <1>1, <1>2, <1>3 DEF Di!Next

LEMMA DirectTyped ==
    ASSUME Di!DirectAssumption
    PROVE  Di!Init /\ [][Di!Next]_Di!vars => [](DirectInv /\ DirectBounds)
  <1>1. Di!Init => DirectBounds
    <2>1. 0 \in 0 .. MaxTime /\ 0 \in 0 .. MaxFaults /\ 0 \in 0 .. 2
      BY DEF Di!DirectAssumption
    <2> SUFFICES ASSUME Di!Init PROVE DirectBounds
      OBVIOUS
    <2>2. /\ diClosing = FALSE /\ diNow = 0 /\ diFaults = 0 /\ diRows = {}
          /\ diId = [r \in Requests |-> 0] /\ diTold = [r \in Requests |-> 0]
      BY DEF Di!Init
    <2> QED BY <2>1, <2>2 DEF DirectBounds
  <1>2. DirectBounds /\ [Di!Next]_Di!vars => DirectBounds'
    BY DirectStays
  <1> QED BY <1>1, <1>2, DirectSpec, PTL

----------------------------------------------------------------------------
(* Telegram.  A number a handler believes stored has a row of its chat, or *)
(* another chat has come to that number; numbers only grow, and a row is   *)
(* replaced only by one of its number.                                     *)

TelegramPlaces ==
    {"new", "command", "sorry", "caught", "connect", "look", "insert", "decide", "generate",
     "send", "continue", "evaluate", "done", "failed"}

TelegramJobs ==
    [chat : Chats \cup {Te!NewJob.chat}, number : Nat, asks : {"direct", "picture", "open"},
     action : {"CONTINUE", "other"}, chunks : Nat, sent : Seq(Nat), saved : Nat, round : 0 .. 2]

TelegramTypes ==
    /\ teAt \in [Updates -> TelegramPlaces] /\ teJob \in [Updates -> TelegramJobs]
    /\ teLast \in [Chats -> Nat] /\ teFaults \in Nat

RowsAreNumbered ==
    \A row \in teRows : row.chat \in Chats /\ row.number \in Nat /\ row.number <= teLast[row.chat]

(* What its place says of a handler's variables. *)
JobIsWithin(j) ==
    /\ j.chat \in Chats /\ j.number <= teLast[j.chat] /\ j.saved <= Len(j.sent)
    /\ \A i \in 1 .. Len(j.sent) : j.sent[i] <= teLast[j.chat]

HandlerIsAt(u) ==
    /\ teAt[u] \in Te!Ended => teJob[u] = Te!NewJob
    /\ teAt[u] \notin Te!Ended => JobIsWithin(teJob[u])
    /\ teAt[u] \in {"command", "sorry", "caught", "connect", "decide", "generate"} =>
           teJob[u].round = 0 /\ teJob[u].sent = <<>>
    /\ teAt[u] \in {"look", "insert"} =>
           IF teJob[u].sent = <<>> THEN teJob[u].round = 0
           ELSE teJob[u].round > 0 /\ teJob[u].saved < Len(teJob[u].sent)
    /\ teAt[u] = "send" =>
           teJob[u].round > 0 /\ teJob[u].saved = 0 /\ Len(teJob[u].sent) < teJob[u].chunks
    /\ teAt[u] = "continue" => teJob[u].round > 0
    /\ teAt[u] = "sorry" => teFaults >= 1
    /\ teAt[u] = "caught" => teFaults >= 2

Numbered(chat, n) ==
    \/ \E row \in teRows : row.chat = chat /\ row.number = n
    \/ \E c \in Chats \ {chat} : teLast[c] >= n

HandlerKnows(u) == \A n \in Te!Believed(u) : Numbered(teJob[u].chat, n)

TelegramInv ==
    /\ TelegramTypes /\ RowsAreNumbered /\ Te!Survives
    /\ \A u \in Updates : HandlerIsAt(u) /\ HandlerKnows(u)

LEMMA NewJobIsAJob ==
    /\ Te!NewJob \in TelegramJobs
    /\ Te!NewJob.saved = 0 /\ Te!NewJob.round = 0 /\ Te!NewJob.sent = <<>>
  <1>1. <<>> \in Seq(Nat)
    OBVIOUS
  <1> DEFINE start == CHOOSE c \in Chats : TRUE
  <1>2. Te!NewJob = [chat |-> start, number |-> 0, asks |-> "open", action |-> "other",
                     chunks |-> 0, sent |-> <<>>, saved |-> 0, round |-> 0]
    BY DEF Te!NewJob
  <1> HIDE DEF start
  <1> QED BY <1>1, <1>2 DEF TelegramJobs

(* A step of one handler leaves what the others know. *)
LEMMA TelegramMove ==
    ASSUME TelegramInv, TelegramTypes', RowsAreNumbered', Te!Survives', NEW u \in Updates,
           HandlerIsAt(u)', HandlerKnows(u)',
           \A v \in Updates \ {u} : teAt'[v] = teAt[v] /\ teJob'[v] = teJob[v],
           \A c \in Chats : teLast'[c] >= teLast[c], teFaults' >= teFaults,
           \A c \in Chats : \A n \in Nat : Numbered(c, n) => Numbered(c, n)'
    PROVE  TelegramInv'
  <1>1. ASSUME NEW v \in Updates, v # u PROVE HandlerIsAt(v)' /\ HandlerKnows(v)'
    <2>1. /\ HandlerIsAt(v) /\ HandlerKnows(v) /\ teAt'[v] = teAt[v] /\ teJob'[v] = teJob[v]
          /\ teJob[v] \in TelegramJobs /\ teLast \in [Chats -> Nat] /\ teLast' \in [Chats -> Nat]
          /\ teFaults \in Nat /\ teFaults' \in Nat
      BY <1>1 DEF TelegramInv, TelegramTypes
    <2>2. /\ teJob[v].number \in Nat /\ teJob[v].sent \in Seq(Nat) /\ Len(teJob[v].sent) \in Nat
          /\ teJob[v].saved \in Nat
          /\ \A i \in 1 .. Len(teJob[v].sent) : teJob[v].sent[i] \in Nat
      BY <2>1 DEF TelegramJobs
    <2>3. HandlerIsAt(v)'
      <3>1. teJob[v].chat \in Chats => teLast'[teJob[v].chat] >= teLast[teJob[v].chat]
                                       /\ teLast[teJob[v].chat] \in Nat
                                       /\ teLast'[teJob[v].chat] \in Nat
        BY <2>1
      <3>2. Te!NewJob' = Te!NewJob
        BY DEF Te!NewJob
      <3>3. JobIsWithin(teJob[v]) => JobIsWithin(teJob[v])'
        BY <2>1, <2>2, <3>1 DEF JobIsWithin
      <3> QED BY <2>1, <3>2, <3>3 DEF HandlerIsAt, Te!Ended
    <2>4. HandlerKnows(v)'
      <3>1. Te!Believed(v)' = Te!Believed(v)
        BY <2>1 DEF Te!Believed
      <3>2. ASSUME NEW n \in Te!Believed(v) PROVE Numbered(teJob[v].chat, n)'
        <4>1. teAt[v] \notin Te!Ended
          BY <2>1, <3>2, NewJobIsAJob DEF HandlerIsAt, Te!Believed, Te!Ended
        <4>2. teJob[v].chat \in Chats /\ teJob[v].saved <= Len(teJob[v].sent)
          BY <2>1, <4>1 DEF HandlerIsAt, JobIsWithin
        <4>3. n \in Nat
          BY <2>2, <3>2, <4>2 DEF Te!Believed
        <4>4. Numbered(teJob[v].chat, n)
          BY <2>1, <3>2 DEF HandlerKnows, Numbered
        <4>5. PICK c \in Chats : c = teJob[v].chat
          BY <4>2
        <4>6. Numbered(c, n) => Numbered(c, n)'
          BY <4>3
        <4> QED BY <2>1, <4>4, <4>5, <4>6 DEF Numbered
      <3> QED BY <2>1, <3>1, <3>2 DEF HandlerKnows, Numbered
    <2> QED BY <2>3, <2>4
  <1> QED BY <1>1 DEF TelegramInv

(* A handler that stores nothing, sends nothing and learns nothing. *)
LEMMA TelegramQuietMove ==
    ASSUME TelegramInv, NEW u \in Updates, NEW place \in TelegramPlaces,
           teAt' = [teAt EXCEPT ![u] = place], UNCHANGED <<teLast, teRows>>, Te!Survives',
           teFaults' \in Nat, teFaults' >= teFaults,
           teJob' \in [Updates -> TelegramJobs], \A v \in Updates \ {u} : teJob'[v] = teJob[v],
           HandlerIsAt(u)', HandlerKnows(u)'
    PROVE  TelegramInv'
  <1>1. TelegramTypes' /\ \A v \in Updates \ {u} : teAt'[v] = teAt[v]
    BY DEF TelegramInv, TelegramTypes
  <1>2. RowsAreNumbered' /\ \A c \in Chats : teLast'[c] >= teLast[c]
    BY DEF TelegramInv, RowsAreNumbered, TelegramTypes
  <1>3. \A c \in Chats : \A n \in Nat : Numbered(c, n) => Numbered(c, n)'
    BY DEF Numbered
  <1> QED BY <1>1, <1>2, <1>3, TelegramMove

(* The end of a handler. *)
LEMMA TelegramEnd ==
    ASSUME TelegramInv, NEW u \in Updates, NEW place \in {"done", "failed"}, Te!End(u, place),
           UNCHANGED <<teLast, teRows>>, Te!Survives', teFaults' \in Nat, teFaults' >= teFaults
    PROVE  TelegramInv'
  <1>1. teAt' = [teAt EXCEPT ![u] = place] /\ teJob' = [teJob EXCEPT ![u] = Te!NewJob]
    BY DEF Te!End, Te!Go
  <1>2. /\ teAt'[u] = place /\ teJob'[u] = Te!NewJob /\ teJob' \in [Updates -> TelegramJobs]
        /\ \A v \in Updates \ {u} : teJob'[v] = teJob[v]
    BY <1>1, NewJobIsAJob DEF TelegramInv, TelegramTypes
  <1>3. Te!NewJob' = Te!NewJob
    BY DEF Te!NewJob
  <1>4. HandlerIsAt(u)'
    BY <1>2, <1>3 DEF HandlerIsAt, Te!Ended
  <1>5. HandlerKnows(u)'
    BY <1>2, NewJobIsAJob DEF HandlerKnows, Te!Believed
  <1> QED BY <1>1, <1>2, <1>4, <1>5, TelegramQuietMove DEF TelegramPlaces

(* A handler that goes on with the job it has. *)
LEMMA TelegramStay ==
    ASSUME TelegramInv, NEW u \in Updates, NEW place \in TelegramPlaces \ Te!Ended,
           teAt[u] \notin Te!Ended, Te!Stay(u, place),
           UNCHANGED <<teLast, teRows>>, Te!Survives', teFaults' \in Nat, teFaults' >= teFaults,
           place \in {"decide", "generate"} => HandlerKnows(u)',
           HandlerIsAt(u)'
    PROVE  TelegramInv'
  <1>1. teAt' = [teAt EXCEPT ![u] = place] /\ teJob' = teJob
    BY DEF Te!Stay, Te!Go
  <1>2. teAt'[u] = place /\ teJob' \in [Updates -> TelegramJobs]
    BY <1>1 DEF TelegramInv, TelegramTypes
  <1>3. HandlerKnows(u)'
    <2>1. place \notin {"decide", "generate"} => Te!Believed(u)' \subseteq Te!Believed(u)
      BY <1>1, <1>2 DEF Te!Believed
    <2> QED BY <1>1, <2>1 DEF HandlerKnows, TelegramInv, Numbered
  <1> QED BY <1>1, <1>2, <1>3, TelegramQuietMove

(* An error. *)
LEMMA TelegramThrows ==
    ASSUME TelegramInv, NEW u \in Updates, teAt[u] \notin Te!Ended, Te!Throws(u),
           teAt[u] \notin {"command", "sorry", "caught"},
           UNCHANGED <<teLast, teRows>>, Te!Survives', teFaults' \in Nat, teFaults' >= teFaults
    PROVE  TelegramInv'
  <1>1. CASE Te!End(u, "failed")
    BY <1>1, TelegramEnd
  <1>2. CASE Te!Stay(u, "evaluate")
    <2>1. teAt' = [teAt EXCEPT ![u] = "evaluate"] /\ teJob' = teJob
      BY <1>2 DEF Te!Stay, Te!Go
    <2>2. teAt'[u] = "evaluate"
      BY <2>1 DEF TelegramInv, TelegramTypes
    <2>3. JobIsWithin(teJob[u])'
      BY <2>1 DEF TelegramInv, HandlerIsAt, JobIsWithin
    <2>4. HandlerIsAt(u)'
      BY <2>1, <2>2, <2>3 DEF HandlerIsAt, Te!Ended
    <2> QED BY <1>2, <2>2, <2>4, TelegramStay DEF TelegramPlaces, Te!Ended
  <1> QED BY <1>1, <1>2 DEF Te!Throws

(* A message is sent to a chat, or comes in: the numbers grow. *)
LEMMA NumbersGrow ==
    ASSUME TelegramInv, NEW c \in Chats, teLast' = [teLast EXCEPT ![c] = @ + 1], teRows' = teRows
    PROVE  /\ teLast' \in [Chats -> Nat] /\ RowsAreNumbered'
           /\ \A d \in Chats : teLast'[d] >= teLast[d]
           /\ \A d \in Chats : \A n \in Nat : Numbered(d, n) => Numbered(d, n)'
  <1>1. teLast \in [Chats -> Nat]
    BY DEF TelegramInv, TelegramTypes
  <1>2. teLast' \in [Chats -> Nat] /\ \A d \in Chats : teLast'[d] >= teLast[d]
    BY <1>1
  <1>3. RowsAreNumbered'
    BY <1>1, <1>2 DEF TelegramInv, RowsAreNumbered
  <1>4. \A d \in Chats : \A n \in Nat : Numbered(d, n) => Numbered(d, n)'
    <2>1. \A d \in Chats : \A n \in Nat : teLast[d] >= n => teLast'[d] >= n
      BY <1>1, <1>2
    <2> QED BY <2>1 DEF Numbered
  <1> QED BY <1>2, <1>3, <1>4

LEMMA TelegramReceive ==
    ASSUME TelegramInv, NEW u \in Updates, Te!Receive(u)
    PROVE  TelegramInv'
  <1>1. /\ teAt \in [Updates -> TelegramPlaces] /\ teJob \in [Updates -> TelegramJobs]
        /\ teLast \in [Chats -> Nat] /\ teFaults \in Nat
    BY DEF TelegramInv, TelegramTypes
  <1>2. PICK c \in Chats, asks \in {"direct", "picture", "open"},
             first \in {"command", "connect"} :
          /\ teLast' = [teLast EXCEPT ![c] = @ + 1]
          /\ teJob' = [teJob EXCEPT ![u].chat = c, ![u].number = teLast[c] + 1, ![u].asks = asks]
          /\ teAt' = [teAt EXCEPT ![u] = first]
    BY DEF Te!Receive, Te!Go
  <1>3. teAt[u] = "new" /\ teJob[u] = Te!NewJob
                        /\ UNCHANGED <<teDb, teAlive, teRows, teLate, teFaults>>
    BY DEF Te!Receive, TelegramInv, HandlerIsAt, Te!Ended
  <1>4. /\ teJob' \in [Updates -> TelegramJobs] /\ teAt' \in [Updates -> TelegramPlaces]
        /\ \A v \in Updates \ {u} : teAt'[v] = teAt[v] /\ teJob'[v] = teJob[v]
    <2> DEFINE got == [teJob[u] EXCEPT !.chat = c, !.number = teLast[c] + 1, !.asks = asks]
    <2>1. got \in TelegramJobs
      <3>1. teLast[c] + 1 \in Nat /\ teJob[u] \in TelegramJobs
        BY <1>1
      <3> QED BY <3>1 DEF TelegramJobs
    <2>2. teJob' = [teJob EXCEPT ![u] = got]
      BY <1>2
    <2> HIDE DEF got
    <2>3. teJob' \in [Updates -> TelegramJobs] /\ \A v \in Updates \ {u} : teJob'[v] = teJob[v]
      BY <1>1, <2>1, <2>2
    <2>4. teAt' \in [Updates -> TelegramPlaces] /\ \A v \in Updates \ {u} : teAt'[v] = teAt[v]
      BY <1>1, <1>2 DEF TelegramPlaces
    <2> QED BY <2>3, <2>4
  <1>5. /\ teAt'[u] = first /\ teJob'[u].chat = c /\ teJob'[u].number = teLast[c] + 1
        /\ teJob'[u].saved = 0 /\ teJob'[u].round = 0 /\ teJob'[u].sent = <<>>
    BY <1>1, <1>2, <1>3, NewJobIsAJob DEF TelegramJobs
  <1>6. TelegramTypes'
    BY <1>1, <1>2, <1>3, <1>4, NumbersGrow DEF TelegramTypes
  <1>7. JobIsWithin(teJob[u])'
    BY <1>1, <1>2, <1>5 DEF JobIsWithin
  <1>8. HandlerIsAt(u)'
    BY <1>5, <1>7 DEF HandlerIsAt, Te!Ended
  <1>9. HandlerKnows(u)'
    BY <1>5 DEF HandlerKnows, Te!Believed
  <1>10. Te!Survives'
    BY <1>3 DEF TelegramInv, Te!Survives
  <1>11. /\ RowsAreNumbered' /\ \A d \in Chats : teLast'[d] >= teLast[d]
         /\ \A d \in Chats : \A n \in Nat : Numbered(d, n) => Numbered(d, n)'
    BY <1>2, <1>3, NumbersGrow
  <1> QED BY <1>1, <1>3, <1>4, <1>6, <1>8, <1>9, <1>10, <1>11, TelegramMove

LEMMA TelegramReply ==
    ASSUME TelegramInv, NEW u \in Updates, Te!Reply(u)
    PROVE  TelegramInv'
  <1> USE DEF Te!Fault
  <1>1. /\ teAt \in [Updates -> TelegramPlaces] /\ teJob \in [Updates -> TelegramJobs]
        /\ teLast \in [Chats -> Nat] /\ teFaults \in Nat
    BY DEF TelegramInv, TelegramTypes
  <1>2. teAt[u] \in {"command", "sorry", "caught"} /\ UNCHANGED <<teDb, teLast, teRows, teLate>>
                                                   /\ teAlive
    BY DEF Te!Reply, Te!Running
  <1>3. HandlerIsAt(u)
    BY DEF TelegramInv
  <1>4. CASE Te!End(u, "done") /\ UNCHANGED <<teAlive, teFaults>>
    BY <1>1, <1>2, <1>4, TelegramEnd DEF TelegramInv, Te!Survives
  <1>5. ASSUME Te!Fault, Te!AfterRefusal[teAt[u]] = "exit", teAlive' = FALSE,
               UNCHANGED <<teAt, teJob>>
        PROVE  TelegramInv'
    <2>1. teAt[u] = "caught" /\ teFaults' = teFaults + 1
      BY <1>2, <1>5 DEF Te!AfterRefusal
    <2>2. teFaults' >= 3 /\ teFaults' \in Nat
      BY <1>1, <1>3, <2>1 DEF HandlerIsAt
    <2>3. Te!Survives'
      BY <2>2 DEF Te!Survives
    <2>4. HandlerIsAt(u)' /\ teAt[u] \notin Te!Ended
      <3>1. JobIsWithin(teJob[u])'
        BY <1>2, <1>3, <1>5, <2>1 DEF HandlerIsAt, JobIsWithin, Te!Ended
      <3> QED BY <1>1, <1>3, <1>5, <2>1, <2>2, <3>1 DEF HandlerIsAt, Te!Ended
    <2>5. teAt' = [teAt EXCEPT ![u] = "caught"]
      <3>1. teAt' = teAt /\ teAt[u] = "caught"
        BY <1>5, <2>1
      <3> QED BY <1>1, <3>1
    <2>6. Te!Stay(u, "caught") /\ "caught" \in TelegramPlaces \ Te!Ended
      BY <1>5, <2>5 DEF Te!Stay, Te!Go, TelegramPlaces, Te!Ended
    <2>7. UNCHANGED <<teLast, teRows>> /\ teFaults' >= teFaults
      BY <1>1, <1>2, <2>1
    <2> QED BY <2>2, <2>3, <2>4, <2>6, <2>7, TelegramStay
  <1>6. ASSUME Te!Fault, NEW place \in {"sorry", "caught"}, Te!AfterRefusal[teAt[u]] = place,
               Te!Stay(u, place), UNCHANGED teAlive
        PROVE  TelegramInv'
    <2>1. /\ teFaults' = teFaults + 1
          /\ place = "sorry" => teAt[u] = "command"
          /\ place = "caught" => teAt[u] = "sorry"
      BY <1>2, <1>6 DEF Te!AfterRefusal
    <2>2. teAt' = [teAt EXCEPT ![u] = place] /\ teJob' = teJob
      BY <1>6 DEF Te!Stay, Te!Go
    <2>3. teAt'[u] = place /\ teAt[u] \notin Te!Ended
      BY <1>1, <1>2, <2>2 DEF Te!Ended
    <2>4. JobIsWithin(teJob[u])'
      BY <1>2, <1>3, <2>2, <2>3 DEF HandlerIsAt, JobIsWithin
    <2>5. HandlerIsAt(u)'
      BY <1>1, <1>2, <1>3, <2>1, <2>2, <2>3, <2>4 DEF HandlerIsAt, Te!Ended
    <2>6. Te!Survives'
      BY <1>2, <1>6 DEF TelegramInv, Te!Survives
    <2> QED BY <1>1, <1>2, <1>6, <2>1, <2>3, <2>5, <2>6, TelegramStay
            DEF TelegramPlaces, Te!Ended
  <1>7. Te!AfterRefusal[teAt[u]] \in {"sorry", "caught", "exit"}
    BY <1>2 DEF Te!AfterRefusal
  <1>8. \/ Te!End(u, "done") /\ UNCHANGED <<teAlive, teFaults>>
        \/ /\ Te!Fault /\ Te!AfterRefusal[teAt[u]] = "exit" /\ teAlive' = FALSE
           /\ UNCHANGED <<teAt, teJob>>
        \/ /\ Te!Fault /\ Te!AfterRefusal[teAt[u]] # "exit"
           /\ Te!Stay(u, Te!AfterRefusal[teAt[u]]) /\ UNCHANGED teAlive
    BY DEF Te!Reply
  <1> QED BY <1>4, <1>5, <1>6, <1>7, <1>8

(* The row a handler is about to store. *)
LEMMA WhatIsStored ==
    ASSUME TelegramInv, NEW u \in Updates, teAt[u] \in {"look", "insert"}
    PROVE  /\ Te!Storing(u).chat = teJob[u].chat /\ teJob[u].chat \in Chats
           /\ Te!Storing(u).number \in Nat
           /\ Te!Storing(u).number <= teLast[teJob[u].chat]
           /\ teJob[u].sent = <<>> => Te!Storing(u).number = teJob[u].number
           /\ teJob[u].sent # <<>> => Te!Storing(u).number = teJob[u].sent[teJob[u].saved + 1]
  <1>1. HandlerIsAt(u) /\ teJob[u] \in TelegramJobs
    BY DEF TelegramInv, TelegramTypes
  <1>2. JobIsWithin(teJob[u]) /\ (teJob[u].sent # <<>> => teJob[u].saved < Len(teJob[u].sent))
    BY <1>1 DEF HandlerIsAt, Te!Ended
  <1>3. /\ teJob[u].number \in Nat /\ teJob[u].saved \in Nat /\ teJob[u].sent \in Seq(Nat)
        /\ Len(teJob[u].sent) \in Nat
    BY <1>1 DEF TelegramJobs
  <1>4. CASE teJob[u].sent = <<>>
    <2>1. Te!Storing(u).number = teJob[u].number /\ Te!Storing(u).chat = teJob[u].chat
      BY <1>4 DEF Te!Storing
    <2> QED BY <1>2, <1>3, <1>4, <2>1 DEF JobIsWithin
  <1>5. CASE teJob[u].sent # <<>>
    <2>1. /\ Te!Storing(u).number = teJob[u].sent[teJob[u].saved + 1]
          /\ Te!Storing(u).chat = teJob[u].chat
      BY <1>5 DEF Te!Storing
    <2>2. teJob[u].saved + 1 \in 1 .. Len(teJob[u].sent)
      BY <1>2, <1>3, <1>5
    <2>3. teJob[u].sent[teJob[u].saved + 1] \in Nat
      BY <1>3, <2>2
    <2> QED BY <1>2, <1>5, <2>1, <2>2, <2>3 DEF JobIsWithin
  <1> QED BY <1>4, <1>5

LEMMA TelegramStored ==
    ASSUME TelegramInv, NEW u \in Updates, teAt[u] \in {"look", "insert"}, Te!Stored(u),
           NEW chat \in Chats, chat = teJob[u].chat, NEW m \in Nat, m = Te!Storing(u).number,
           RowsAreNumbered', UNCHANGED <<teAlive, teLast, teLate, teFaults>>,
           \A c \in Chats : \A n \in Nat : Numbered(c, n) => Numbered(c, n)',
           Numbered(chat, m)'
    PROVE  TelegramInv'
  <1>1. /\ teAt \in [Updates -> TelegramPlaces] /\ teJob \in [Updates -> TelegramJobs]
        /\ teLast \in [Chats -> Nat] /\ teFaults \in Nat
    BY DEF TelegramInv, TelegramTypes
  <1>2. HandlerIsAt(u) /\ HandlerKnows(u)
    BY DEF TelegramInv
  <1>3. JobIsWithin(teJob[u])
    BY <1>2 DEF HandlerIsAt, Te!Ended
  <1>4. /\ teJob[u].saved \in Nat /\ teJob[u].sent \in Seq(Nat) /\ Len(teJob[u].sent) \in Nat
        /\ teJob[u].number \in Nat /\ teJob[u].round \in 0 .. 2
    BY <1>1 DEF TelegramJobs
  <1>5. Te!Survives'
    BY DEF TelegramInv, Te!Survives
  <1>6. \A d \in Chats : teLast'[d] >= teLast[d]
    BY <1>1
  <1>7. ASSUME NEW n \in Te!Believed(u) PROVE Numbered(chat, n)'
    <2>1. n \in Nat
      BY <1>3, <1>4, <1>7 DEF Te!Believed, JobIsWithin
    <2>2. Numbered(chat, n)
      BY <1>2, <1>7 DEF HandlerKnows, Numbered
    <2> QED BY <2>1, <2>2
  <1>8. CASE teJob[u].sent = <<>>
    <2>1. teAt' = [teAt EXCEPT ![u] = "decide"] /\ teJob' = teJob /\ m = teJob[u].number
      BY <1>8, WhatIsStored DEF Te!Stored, Te!Stay, Te!Go
    <2>2. /\ teAt'[u] = "decide" /\ TelegramTypes'
          /\ \A v \in Updates \ {u} : teAt'[v] = teAt[v] /\ teJob'[v] = teJob[v]
      BY <1>1, <2>1 DEF TelegramTypes, TelegramPlaces
    <2>3. HandlerIsAt(u)'
      <3>1. JobIsWithin(teJob[u])'
        BY <1>3, <2>1 DEF JobIsWithin
      <3>2. teJob[u].round = 0
        BY <1>2, <1>8 DEF HandlerIsAt
      <3> QED BY <1>8, <2>1, <2>2, <3>1, <3>2 DEF HandlerIsAt, Te!Ended
    <2>4. HandlerKnows(u)'
      <3>1. Te!Believed(u)' \subseteq Te!Believed(u) \cup {m}
        BY <2>1 DEF Te!Believed
      <3>2. \A n \in Te!Believed(u)' : Numbered(chat, n)'
        BY <1>7, <3>1
      <3> QED BY <2>1, <3>2 DEF HandlerKnows, Numbered
    <2> QED BY <1>1, <1>5, <1>6, <2>2, <2>3, <2>4, TelegramMove
  <1>9. CASE teJob[u].sent # <<>>
    <2>1. PICK place \in {"look", "continue", "evaluate"} :
            /\ teAt' = [teAt EXCEPT ![u] = place]
            /\ place = "look" => teJob[u].saved + 1 < Len(teJob[u].sent)
      BY <1>9 DEF Te!Stored, Te!Go
    <2>2. teJob' = [teJob EXCEPT ![u].saved = @ + 1] /\ m = teJob[u].sent[teJob[u].saved + 1]
      BY <1>9, WhatIsStored DEF Te!Stored
    <2>3. /\ teJob'[u].saved = teJob[u].saved + 1 /\ teJob'[u].sent = teJob[u].sent
          /\ teJob'[u].chat = chat /\ teJob'[u].number = teJob[u].number
          /\ teJob'[u].round = teJob[u].round
          /\ teJob' \in [Updates -> TelegramJobs]
          /\ \A v \in Updates \ {u} : teJob'[v] = teJob[v]
      <3> DEFINE further == [teJob[u] EXCEPT !.saved = teJob[u].saved + 1]
      <3>1. /\ further \in TelegramJobs /\ further.saved = teJob[u].saved + 1
            /\ further.sent = teJob[u].sent /\ further.chat = chat
            /\ further.number = teJob[u].number /\ further.round = teJob[u].round
        <4>1. teJob[u] \in TelegramJobs /\ teJob[u].chat = chat
          BY <1>1
        <4>2. teJob[u].saved + 1 \in Nat
          BY <4>1 DEF TelegramJobs
        <4> QED BY <4>1, <4>2 DEF TelegramJobs
      <3>2. teJob' = [teJob EXCEPT ![u] = further]
        BY <2>2
      <3> HIDE DEF further
      <3> QED BY <1>1, <3>1, <3>2
    <2>4. /\ teAt'[u] = place /\ teAt' \in [Updates -> TelegramPlaces]
          /\ \A v \in Updates \ {u} : teAt'[v] = teAt[v]
      BY <1>1, <2>1 DEF TelegramPlaces
    <2>5. teJob[u].saved < Len(teJob[u].sent) /\ teJob[u].round > 0
      BY <1>2, <1>9 DEF HandlerIsAt
    <2>6. HandlerIsAt(u)'
      <3>1. JobIsWithin(teJob[u])'
        BY <1>3, <1>4, <2>3, <2>5 DEF JobIsWithin
      <3> QED BY <1>9, <2>1, <2>3, <2>4, <2>5, <3>1 DEF HandlerIsAt, Te!Ended
    <2>7. HandlerKnows(u)'
      <3>1. Te!Believed(u)' \subseteq Te!Believed(u) \cup {m}
        BY <1>4, <2>1, <2>2, <2>3, <2>4, <2>5 DEF Te!Believed
      <3>2. \A n \in Te!Believed(u)' : Numbered(chat, n)'
        BY <1>7, <3>1
      <3> QED BY <2>3, <3>2 DEF HandlerKnows, Numbered
    <2>8. TelegramTypes'
      BY <1>1, <2>3, <2>4 DEF TelegramTypes
    <2> QED BY <1>1, <1>5, <1>6, <2>3, <2>4, <2>6, <2>7, <2>8, TelegramMove
  <1> QED BY <1>8, <1>9

(* createMemory skips a row whose number is taken, by this chat or by      *)
(* another that has come so far; and puts its own in the place of such.    *)
LEMMA TelegramStores ==
    ASSUME TelegramInv, NEW u \in Updates, Te!Look(u) \/ Te!Insert(u)
    PROVE  TelegramInv'
  <1>1. teAt[u] \in {"look", "insert"} /\ UNCHANGED <<teDb, teAlive, teLast, teLate, teFaults>>
    BY DEF Te!Look, Te!Insert
  <1>2. PICK chat \in Chats : chat = teJob[u].chat
    BY <1>1, WhatIsStored
  <1>3. PICK m \in Nat : m = Te!Storing(u).number /\ m <= teLast[chat]
    BY <1>1, <1>2, WhatIsStored
  <1>4. RowsAreNumbered /\ teLast \in [Chats -> Nat] /\ teFaults \in Nat
        /\ teAt \in [Updates -> TelegramPlaces] /\ teJob \in [Updates -> TelegramJobs]
    BY DEF TelegramInv, TelegramTypes
  <1>5. \A row \in Te!Clash(u) : row \in teRows /\ row.number = m
    BY <1>3 DEF Te!Clash, Te!Id
  <1>6. CASE Te!Look(u) /\ Te!Clash(u) # {}
    <2>1. Te!Stored(u) /\ teRows' = teRows
      BY <1>6 DEF Te!Look
    <2>2. Numbered(chat, m)
      BY <1>4, <1>5, <1>6 DEF RowsAreNumbered, Numbered
    <2>3. \A c \in Chats : \A n \in Nat : Numbered(c, n) => Numbered(c, n)'
      BY <1>1, <2>1 DEF Numbered
    <2>4. RowsAreNumbered'
      BY <1>1, <1>4, <2>1 DEF RowsAreNumbered
    <2> QED BY <1>1, <1>2, <1>3, <2>1, <2>2, <2>3, <2>4, TelegramStored
  <1>7. CASE Te!Look(u) /\ Te!Clash(u) = {}
    <2>1. Te!Stay(u, "insert") /\ teRows' = teRows /\ teAt[u] = "look"
      BY <1>7 DEF Te!Look
    <2>2. teAt'[u] = "insert" /\ teJob' = teJob
      BY <1>4, <2>1 DEF Te!Stay, Te!Go
    <2>3. HandlerIsAt(u) /\ JobIsWithin(teJob[u])
      BY <2>1 DEF TelegramInv, HandlerIsAt, Te!Ended
    <2>4. HandlerIsAt(u)'
      <3>1. JobIsWithin(teJob[u])'
        BY <1>1, <2>2, <2>3 DEF JobIsWithin
      <3> QED BY <2>1, <2>2, <2>3, <3>1 DEF HandlerIsAt, Te!Ended
    <2>5. Te!Survives'
      BY <1>1 DEF TelegramInv, Te!Survives
    <2>6. "insert" \in TelegramPlaces \ Te!Ended /\ teAt[u] \notin Te!Ended
      BY <2>1 DEF TelegramPlaces, Te!Ended
    <2> QED BY <1>1, <1>4, <2>1, <2>4, <2>5, <2>6, TelegramStay
  <1>8. CASE Te!Insert(u) /\ teDb = "postgres" /\ Te!Clash(u) # {}
    <2>1. Te!Throws(u) /\ teRows' = teRows /\ teAt[u] = "insert"
      BY <1>8 DEF Te!Insert
    <2>2. Te!Survives'
      BY <1>1 DEF TelegramInv, Te!Survives
    <2> QED BY <1>1, <1>4, <2>1, <2>2, TelegramThrows DEF Te!Ended
  <1>9. CASE Te!Insert(u) /\ ~(teDb = "postgres" /\ Te!Clash(u) # {})
    <2>1. teRows' = (teRows \ Te!Clash(u)) \cup {Te!Storing(u)} /\ Te!Stored(u)
      BY <1>9 DEF Te!Insert
    <2>2. PICK new \in teRows' : new.chat = chat /\ new.number = m /\ new = Te!Storing(u)
      BY <1>1, <1>2, <1>3, <2>1, WhatIsStored
    <2>3. RowsAreNumbered'
      BY <1>1, <1>3, <1>4, <2>1, <2>2 DEF RowsAreNumbered
    <2>4. Numbered(chat, m)'
      BY <2>2 DEF Numbered
    <2>5. ASSUME NEW c \in Chats, NEW n \in Nat, Numbered(c, n) PROVE Numbered(c, n)'
      <3>1. CASE \E row \in Te!Clash(u) : row.chat = c /\ row.number = n
        <4>1. n = m
          BY <1>5, <3>1
        <4>2. c # chat => teLast'[chat] >= n
          BY <1>1, <1>3, <4>1
        <4> QED BY <2>4, <4>1, <4>2 DEF Numbered
      <3>2. CASE ~\E row \in Te!Clash(u) : row.chat = c /\ row.number = n
        BY <1>1, <2>1, <2>5, <3>2 DEF Numbered
      <3> QED BY <3>1, <3>2
    <2> QED BY <1>1, <1>2, <1>3, <2>1, <2>3, <2>4, <2>5, TelegramStored
  <1> QED BY <1>6, <1>7, <1>8, <1>9 DEF Te!Look, Te!Insert

LEMMA TelegramDecide ==
    ASSUME TelegramInv, NEW u \in Updates, Te!Decide(u)
    PROVE  TelegramInv'
  <1>1. /\ teAt \in [Updates -> TelegramPlaces] /\ teJob \in [Updates -> TelegramJobs]
        /\ teLast \in [Chats -> Nat] /\ teFaults \in Nat
    BY DEF TelegramInv, TelegramTypes
  <1>2. PICK place \in {"generate", "evaluate"} : teAt' = [teAt EXCEPT ![u] = place]
    BY DEF Te!Decide, Te!Go
  <1>3. /\ teAt[u] = "decide" /\ UNCHANGED <<teDb, teAlive, teLast, teRows, teLate, teFaults>>
        /\ teJob' = [teJob EXCEPT ![u].asks = "open"]
    BY DEF Te!Decide
  <1>4. /\ teJob' \in [Updates -> TelegramJobs] /\ \A v \in Updates \ {u} : teJob'[v] = teJob[v]
        /\ teJob'[u].chat = teJob[u].chat /\ teJob'[u].number = teJob[u].number
        /\ teJob'[u].saved = teJob[u].saved /\ teJob'[u].sent = teJob[u].sent
        /\ teJob'[u].round = teJob[u].round
    <2> DEFINE settled == [teJob[u] EXCEPT !.asks = "open"]
    <2>1. /\ settled \in TelegramJobs
          /\ settled.chat = teJob[u].chat /\ settled.number = teJob[u].number
          /\ settled.saved = teJob[u].saved /\ settled.sent = teJob[u].sent
          /\ settled.round = teJob[u].round
      <3>1. teJob[u] \in TelegramJobs
        BY <1>1
      <3> QED BY <3>1 DEF TelegramJobs
    <2>2. teJob' = [teJob EXCEPT ![u] = settled]
      BY <1>3
    <2> HIDE DEF settled
    <2> QED BY <1>1, <2>1, <2>2
  <1>5. teAt'[u] = place
    BY <1>1, <1>2
  <1>6. HandlerIsAt(u)'
    <2>1. HandlerIsAt(u) /\ JobIsWithin(teJob[u])
      BY <1>3 DEF TelegramInv, HandlerIsAt, Te!Ended
    <2>2. JobIsWithin(teJob[u])'
      BY <1>3, <1>4, <2>1 DEF JobIsWithin
    <2> QED BY <1>3, <1>4, <1>5, <2>1, <2>2 DEF HandlerIsAt, Te!Ended
  <1>7. HandlerKnows(u)'
    <2>1. Te!Believed(u)' \subseteq Te!Believed(u)
      BY <1>3, <1>4, <1>5 DEF Te!Believed
    <2> QED BY <1>3, <1>4, <2>1 DEF HandlerKnows, TelegramInv, Numbered
  <1>8. Te!Survives'
    BY <1>3 DEF TelegramInv, Te!Survives
  <1>9. place \in TelegramPlaces
    BY DEF TelegramPlaces
  <1>10. UNCHANGED <<teLast, teRows>> /\ teFaults' \in Nat /\ teFaults' >= teFaults
    BY <1>1, <1>3
  <1> QED BY <1>2, <1>4, <1>6, <1>7, <1>8, <1>9, <1>10, TelegramQuietMove

(* The model's answer, or the next one of an action: nothing of it is      *)
(* believed stored, and the message is.                                    *)
LEMMA TelegramAnswered ==
    ASSUME TelegramInv, NEW u \in Updates, NEW round \in {1, 2}, Te!Answered(u, round),
           teAt[u] = IF round = 1 THEN "generate" ELSE "continue",
           round = 2 => teJob[u].round > 0,
           UNCHANGED <<teAlive, teLast, teRows, teLate, teFaults>>
    PROVE  TelegramInv'
  <1>1. /\ teAt \in [Updates -> TelegramPlaces] /\ teJob \in [Updates -> TelegramJobs]
        /\ teLast \in [Chats -> Nat] /\ teFaults \in Nat
    BY DEF TelegramInv, TelegramTypes
  <1>2. Te!Survives'
    BY DEF TelegramInv, Te!Survives
  <1>3. HandlerIsAt(u) /\ JobIsWithin(teJob[u])
    BY DEF TelegramInv, HandlerIsAt, Te!Ended
  <1>4. CASE Te!End(u, "done")
    BY <1>1, <1>2, <1>4, TelegramEnd
  <1>5. CASE Te!Stay(u, "evaluate")
    <2>1. teAt'[u] = "evaluate" /\ teJob' = teJob
      BY <1>1, <1>5 DEF Te!Stay, Te!Go
    <2>2. HandlerIsAt(u)'
      <3>1. JobIsWithin(teJob[u])'
        BY <1>3, <2>1 DEF JobIsWithin
      <3> QED BY <2>1, <3>1 DEF HandlerIsAt, Te!Ended
    <2> QED BY <1>1, <1>2, <1>5, <2>2, TelegramStay DEF TelegramPlaces, Te!Ended
  <1>6. ASSUME NEW n \in 1 .. MaxChunks, NEW a \in Te!FirstActions(n), Te!Go(u, "send"),
               teJob' = [teJob EXCEPT ![u].action = a, ![u].chunks = n,
                                      ![u].sent = Te!Unsent(u), ![u].saved = 0,
                                      ![u].round = round]
        PROVE  TelegramInv'
    <2> DEFINE asked == [teJob[u] EXCEPT !.action = a, !.chunks = n, !.sent = <<>>, !.saved = 0,
                                         !.round = round]
    <2>1. teJob' = [teJob EXCEPT ![u] = asked]
      BY <1>6 DEF Te!Unsent
    <2>2. /\ asked \in TelegramJobs /\ asked.chat = teJob[u].chat
          /\ asked.number = teJob[u].number /\ asked.sent = <<>> /\ asked.saved = 0
          /\ asked.round = round /\ asked.chunks = n
      <3>1. teJob[u] \in TelegramJobs /\ n \in Nat /\ a \in {"CONTINUE", "other"}
            /\ <<>> \in Seq(Nat) /\ round \in 0 .. 2
        BY <1>1 DEF Te!FirstActions
      <3> QED BY <3>1 DEF TelegramJobs
    <2> HIDE DEF asked
    <2>3. /\ teJob'[u] = asked /\ teJob' \in [Updates -> TelegramJobs]
          /\ \A v \in Updates \ {u} : teJob'[v] = teJob[v]
      BY <1>1, <2>1, <2>2
    <2>4. teAt' = [teAt EXCEPT ![u] = "send"] /\ teAt'[u] = "send"
      BY <1>1, <1>6 DEF Te!Go
    <2>5. HandlerIsAt(u)'
      <3>1. JobIsWithin(teJob[u])'
        BY <1>3, <2>2, <2>3 DEF JobIsWithin
      <3> QED BY <2>2, <2>3, <2>4, <3>1 DEF HandlerIsAt, Te!Ended
    <2>6. HandlerKnows(u)'
      <3>1. Te!Believed(u)' \subseteq Te!Believed(u)
        <4>1. Te!Believed(u)' \subseteq {teJob[u].number}
          BY <2>2, <2>3 DEF Te!Believed
        <4>2. teJob[u].number \in Te!Believed(u)
          BY DEF Te!Believed
        <4> QED BY <4>1, <4>2
      <3> QED BY <2>2, <2>3, <3>1 DEF HandlerKnows, TelegramInv, Numbered
    <2>7. "send" \in TelegramPlaces
      BY DEF TelegramPlaces
    <2>8. UNCHANGED <<teLast, teRows>> /\ teFaults' \in Nat /\ teFaults' >= teFaults
      BY <1>1
    <2> QED BY <1>2, <2>3, <2>4, <2>5, <2>6, <2>7, <2>8, TelegramQuietMove
  <1> QED BY <1>4, <1>5, <1>6 DEF Te!Answered

LEMMA TelegramSend ==
    ASSUME TelegramInv, NEW u \in Updates, Te!SendChunk(u)
    PROVE  TelegramInv'
  <1>1. /\ teAt \in [Updates -> TelegramPlaces] /\ teJob \in [Updates -> TelegramJobs]
        /\ teLast \in [Chats -> Nat] /\ teFaults \in Nat
    BY DEF TelegramInv, TelegramTypes
  <1>2. teAt[u] = "send" /\ UNCHANGED <<teDb, teAlive, teRows, teLate, teFaults>>
    BY DEF Te!SendChunk
  <1>3. HandlerIsAt(u) /\ HandlerKnows(u) /\ JobIsWithin(teJob[u])
    BY <1>2 DEF TelegramInv, HandlerIsAt, Te!Ended
  <1>4. teJob[u].round > 0 /\ teJob[u].saved = 0 /\ Len(teJob[u].sent) < teJob[u].chunks
    BY <1>2, <1>3 DEF HandlerIsAt
  <1>5. PICK chat \in Chats : chat = teJob[u].chat
    BY <1>3 DEF JobIsWithin
  <1> DEFINE more == [teJob[u] EXCEPT !.sent = Append(@, teLast[chat] + 1)]
  <1>6. /\ teLast' = [teLast EXCEPT ![chat] = @ + 1]
        /\ teJob' = [teJob EXCEPT ![u] = more]
    BY <1>5 DEF Te!SendChunk
  <1>7. PICK place \in {"look", "send"} :
          /\ teAt' = [teAt EXCEPT ![u] = place]
          /\ place = "send" => Len(teJob[u].sent) + 1 # teJob[u].chunks
    BY DEF Te!SendChunk, Te!Go
  <1>8. /\ more \in TelegramJobs /\ more.chat = chat /\ more.number = teJob[u].number
        /\ more.sent = Append(teJob[u].sent, teLast[chat] + 1)
        /\ more.saved = 0 /\ more.round = teJob[u].round /\ more.chunks = teJob[u].chunks
    <2>1. teJob[u] \in TelegramJobs /\ teLast[chat] + 1 \in Nat
      BY <1>1
    <2>2. Append(teJob[u].sent, teLast[chat] + 1) \in Seq(Nat)
      BY <2>1 DEF TelegramJobs
    <2> QED BY <1>4, <1>5, <2>1, <2>2 DEF TelegramJobs
  <1> HIDE DEF more
  <1>9. /\ teJob'[u] = more /\ teJob' \in [Updates -> TelegramJobs]
        /\ \A v \in Updates \ {u} : teJob'[v] = teJob[v]
    BY <1>1, <1>6, <1>8
  <1>10. /\ teAt'[u] = place /\ teAt' \in [Updates -> TelegramPlaces]
         /\ \A v \in Updates \ {u} : teAt'[v] = teAt[v]
    BY <1>1, <1>7 DEF TelegramPlaces
  <1>11. /\ teLast' \in [Chats -> Nat] /\ RowsAreNumbered'
         /\ \A d \in Chats : teLast'[d] >= teLast[d]
         /\ \A d \in Chats : \A n \in Nat : Numbered(d, n) => Numbered(d, n)'
    BY <1>2, <1>6, NumbersGrow
  <1>12. TelegramTypes'
    BY <1>1, <1>2, <1>9, <1>10, <1>11 DEF TelegramTypes
  <1>13. /\ teJob[u].sent \in Seq(Nat) /\ Len(teJob[u].sent) \in Nat /\ teJob[u].number \in Nat
         /\ teJob[u].chunks \in Nat /\ teJob[u].round \in 0 .. 2
    BY <1>1 DEF TelegramJobs
  <1>14. /\ Len(more.sent) = Len(teJob[u].sent) + 1 /\ more.sent # <<>>
         /\ \A i \in 1 .. Len(more.sent) :
                more.sent[i] = IF i <= Len(teJob[u].sent) THEN teJob[u].sent[i]
                               ELSE teLast[chat] + 1
    <2>1. more.sent = Append(teJob[u].sent, teLast[chat] + 1)
      BY <1>8
    <2>2. Len(more.sent) = Len(teJob[u].sent) + 1
      BY <1>13, <2>1
    <2> QED BY <1>13, <2>1, <2>2
  <1>15. HandlerIsAt(u)'
    <2>1. JobIsWithin(teJob[u])'
      <3>1. teLast'[chat] = teLast[chat] + 1 /\ teLast[chat] \in Nat
        BY <1>1, <1>6
      <3>2. \A i \in 1 .. Len(teJob[u].sent) :
                teJob[u].sent[i] \in Nat /\ teJob[u].sent[i] <= teLast[chat]
        BY <1>3, <1>5, <1>13 DEF JobIsWithin
      <3>3. \A i \in 1 .. Len(more.sent) : more.sent[i] <= teLast'[chat]
        <4> SUFFICES ASSUME NEW i \in 1 .. Len(more.sent) PROVE more.sent[i] <= teLast'[chat]
          OBVIOUS
        <4>1. CASE i <= Len(teJob[u].sent)
          <5>1. i \in 1 .. Len(teJob[u].sent) /\ more.sent[i] = teJob[u].sent[i]
            BY <1>13, <1>14, <4>1
          <5>2. teJob[u].sent[i] \in Nat /\ teJob[u].sent[i] <= teLast[chat]
            BY <3>2, <5>1
          <5> QED BY <3>1, <5>1, <5>2
        <4>2. CASE ~(i <= Len(teJob[u].sent))
          BY <1>14, <3>1, <4>2
        <4> QED BY <4>1, <4>2
      <3>4. more.number <= teLast'[chat] /\ more.saved <= Len(more.sent)
        BY <1>3, <1>5, <1>8, <1>13, <1>14, <3>1 DEF JobIsWithin
      <3> QED BY <1>8, <1>9, <3>3, <3>4 DEF JobIsWithin
    <2>2. place = "send" => Len(more.sent) < more.chunks
      BY <1>4, <1>7, <1>8, <1>13, <1>14
    <2>3. Len(more.sent) > 0 /\ more.round > 0
      BY <1>4, <1>8, <1>13, <1>14
    <2> QED BY <1>8, <1>9, <1>10, <1>14, <2>1, <2>2, <2>3 DEF HandlerIsAt, Te!Ended
  <1>16. HandlerKnows(u)'
    <2>1. Te!Believed(u)' \subseteq {teJob[u].number}
      BY <1>8, <1>9, <1>10 DEF Te!Believed
    <2>2. teJob[u].number \in Te!Believed(u)
      BY <1>4 DEF Te!Believed
    <2>3. Numbered(chat, teJob[u].number)
      BY <1>3, <1>5, <2>2 DEF HandlerKnows, Numbered
    <2>4. PICK n \in Nat : n = teJob[u].number
      BY <1>13
    <2>5. Numbered(chat, n)'
      BY <1>11, <2>3, <2>4
    <2> QED BY <1>8, <1>9, <2>1, <2>4, <2>5 DEF HandlerKnows, Numbered
  <1>17. Te!Survives'
    BY <1>2 DEF TelegramInv, Te!Survives
  <1> QED BY <1>1, <1>2, <1>9, <1>10, <1>11, <1>12, <1>15, <1>16, <1>17, TelegramMove

LEMMA TelegramConnect ==
    ASSUME TelegramInv, NEW u \in Updates, Te!Connect(u)
    PROVE  TelegramInv'
  <1>1. teAt \in [Updates -> TelegramPlaces] /\ teFaults \in Nat
    BY DEF TelegramInv, TelegramTypes
  <1>2. teAt[u] = "connect" /\ UNCHANGED <<teDb, teAlive, teLast, teRows, teLate, teFaults>>
    BY DEF Te!Connect
  <1>3. Te!Survives' /\ teFaults' \in Nat /\ teFaults' >= teFaults
    BY <1>1, <1>2 DEF TelegramInv, Te!Survives
  <1>4. CASE Te!End(u, "done")
    BY <1>2, <1>3, <1>4, TelegramEnd
  <1>5. CASE Te!Stay(u, "look")
    <2>1. teAt'[u] = "look" /\ teJob' = teJob
      BY <1>1, <1>5 DEF Te!Stay, Te!Go
    <2>2. /\ teJob[u].round = 0 /\ teJob[u].sent = <<>> /\ JobIsWithin(teJob[u])
      BY <1>2 DEF TelegramInv, HandlerIsAt, Te!Ended
    <2>3. JobIsWithin(teJob[u])'
      BY <1>2, <2>1, <2>2 DEF JobIsWithin
    <2>4. HandlerIsAt(u)'
      BY <2>1, <2>2, <2>3 DEF HandlerIsAt, Te!Ended
    <2>5. "look" \in TelegramPlaces \ Te!Ended /\ teAt[u] \notin Te!Ended
      BY <1>2 DEF TelegramPlaces, Te!Ended
    <2> QED BY <1>2, <1>3, <1>5, <2>4, <2>5, TelegramStay
  <1> QED BY <1>4, <1>5 DEF Te!Connect

(* CONTINUE asks the model again, or refuses. *)
LEMMA TelegramContinue ==
    ASSUME TelegramInv, NEW u \in Updates, Te!Continue(u)
    PROVE  TelegramInv'
  <1>1. teAt \in [Updates -> TelegramPlaces] /\ teFaults \in Nat
    BY DEF TelegramInv, TelegramTypes
  <1>2. teAt[u] = "continue" /\ UNCHANGED <<teDb, teAlive, teLast, teRows, teLate, teFaults>>
    BY DEF Te!Continue
  <1>3. Te!Survives' /\ teFaults' \in Nat /\ teFaults' >= teFaults
    BY <1>1, <1>2 DEF TelegramInv, Te!Survives
  <1>4. CASE Te!Answered(u, 2)
    <2>1. teJob[u].round > 0
      BY <1>2 DEF TelegramInv, HandlerIsAt
    <2> QED BY <1>2, <1>4, <2>1, TelegramAnswered
  <1>5. CASE Te!Stay(u, "evaluate")
    <2>1. Te!Throws(u)
      BY <1>2, <1>5 DEF Te!Throws
    <2> QED BY <1>2, <1>3, <2>1, TelegramThrows DEF Te!Ended
  <1> QED BY <1>4, <1>5 DEF Te!Continue

(* Any other await, and Telegraf's patience with one of them. *)
LEMMA TelegramOther ==
    ASSUME TelegramInv, NEW u \in Updates,
           Te!Generate(u) \/ Te!Evaluate(u) \/ Te!Throw(u) \/ Te!TimesOut(u)
    PROVE  TelegramInv'
  <1>1. teAt \in [Updates -> TelegramPlaces] /\ teFaults \in Nat
    BY DEF TelegramInv, TelegramTypes
  <1>2. CASE Te!Generate(u)
    <2>1. /\ teAt[u] = "generate" /\ Te!Answered(u, 1)
          /\ UNCHANGED <<teDb, teAlive, teLast, teRows, teLate, teFaults>>
      BY <1>2 DEF Te!Generate
    <2> QED BY <2>1, TelegramAnswered
  <1>3. CASE Te!Evaluate(u)
    <2>1. Te!End(u, "done") /\ UNCHANGED <<teDb, teAlive, teLast, teRows, teLate, teFaults>>
      BY <1>3 DEF Te!Evaluate
    <2>2. Te!Survives' /\ teFaults' \in Nat /\ teFaults' >= teFaults
      BY <1>1, <2>1 DEF TelegramInv, Te!Survives
    <2> QED BY <2>1, <2>2, TelegramEnd
  <1>4. CASE Te!Throw(u)
    <2>1. /\ teAt[u] \notin Te!Ended /\ teAt[u] \notin {"command", "sorry", "caught"}
          /\ Te!Throws(u)
          /\ UNCHANGED <<teDb, teAlive, teLast, teRows, teLate>>
      BY <1>4 DEF Te!Throw, Te!Running
    <2>2. teFaults' = teFaults + 1 \/ teFaults' = teFaults
      BY <1>4 DEF Te!Throw, Te!Fault
    <2>3. teAlive
      BY <1>4 DEF Te!Throw, Te!Running
    <2>4. Te!Survives' /\ teFaults' \in Nat /\ teFaults' >= teFaults
      BY <1>1, <2>1, <2>2, <2>3 DEF Te!Survives
    <2> QED BY <2>1, <2>4, TelegramThrows
  <1>5. CASE Te!TimesOut(u)
    <2>1. /\ teLate' = TRUE /\ teFaults' = teFaults + 1
          /\ UNCHANGED <<teLast, teRows, teAt, teJob>>
      BY <1>5 DEF Te!TimesOut, Te!Fault
    <2>2. teFaults' \in Nat /\ teFaults' >= teFaults /\ Te!Survives'
      BY <1>1, <2>1 DEF Te!Survives
    <2>3. HandlerIsAt(u) /\ HandlerKnows(u)
      BY DEF TelegramInv
    <2>4. Te!NewJob' = Te!NewJob
      BY DEF Te!NewJob
    <2>5. HandlerIsAt(u)'
      <3>1. JobIsWithin(teJob[u]) => JobIsWithin(teJob[u])'
        BY <2>1 DEF JobIsWithin
      <3> QED BY <1>1, <2>1, <2>2, <2>3, <2>4, <3>1 DEF HandlerIsAt, Te!Ended
    <2>6. HandlerKnows(u)'
      BY <2>1, <2>3 DEF HandlerKnows, Te!Believed, Numbered
    <2>7. teAt' = [teAt EXCEPT ![u] = teAt[u]] /\ teAt[u] \in TelegramPlaces
      BY <1>1, <2>1
    <2>8. teJob' \in [Updates -> TelegramJobs] /\ \A v \in Updates \ {u} : teJob'[v] = teJob[v]
      BY <2>1 DEF TelegramInv, TelegramTypes
    <2> QED BY <2>1, <2>2, <2>5, <2>6, <2>7, <2>8, TelegramQuietMove
  <1> QED BY <1>2, <1>3, <1>4, <1>5

LEMMA TelegramSpec == Te!Init /\ [][Te!Next]_Te!vars => []TelegramInv
  <1>1. Te!Init => TelegramInv
    <2> SUFFICES ASSUME Te!Init PROVE TelegramInv
      OBVIOUS
    <2>1. /\ teLast = [c \in Chats |-> 0] /\ teRows = {} /\ teAt = [u \in Updates |-> "new"]
          /\ teJob = [u \in Updates |-> Te!NewJob] /\ teAlive = TRUE /\ teFaults = 0
      BY DEF Te!Init
    <2>2. TelegramTypes
      BY <2>1, NewJobIsAJob DEF TelegramTypes, TelegramPlaces
    <2>3. RowsAreNumbered /\ Te!Survives
      BY <2>1 DEF RowsAreNumbered, Te!Survives
    <2>4. ASSUME NEW u \in Updates PROVE HandlerIsAt(u) /\ HandlerKnows(u)
      <3>1. teAt[u] = "new" /\ teJob[u] = Te!NewJob
        BY <2>1
      <3>2. HandlerIsAt(u)
        BY <3>1 DEF HandlerIsAt, Te!Ended
      <3>3. Te!Believed(u) = {}
        BY <3>1, NewJobIsAJob DEF Te!Believed
      <3> QED BY <3>2, <3>3 DEF HandlerKnows
    <2> QED BY <2>2, <2>3, <2>4 DEF TelegramInv
  <1>2. TelegramInv /\ [Te!Next]_Te!vars => TelegramInv'
    <2> SUFFICES ASSUME TelegramInv, [Te!Next]_Te!vars PROVE TelegramInv'
      OBVIOUS
    <2>1. CASE UNCHANGED Te!vars
      <3>1. UNCHANGED <<teAlive, teLast, teRows, teAt, teJob, teLate, teFaults>>
        BY <2>1 DEF Te!vars
      <3>2. TelegramTypes' /\ RowsAreNumbered' /\ Te!Survives'
        BY <3>1 DEF TelegramInv, TelegramTypes, RowsAreNumbered, Te!Survives
      <3>3. ASSUME NEW u \in Updates PROVE HandlerIsAt(u)' /\ HandlerKnows(u)'
        <4>1. HandlerIsAt(u) /\ HandlerKnows(u)
          BY DEF TelegramInv
        <4>2. Te!NewJob' = Te!NewJob
          BY DEF Te!NewJob
        <4>3. HandlerIsAt(u)'
          BY <3>1, <4>1, <4>2 DEF HandlerIsAt, JobIsWithin, Te!Ended
        <4>4. HandlerKnows(u)'
          BY <3>1, <4>1 DEF HandlerKnows, Te!Believed, Numbered
        <4> QED BY <4>3, <4>4
      <3> QED BY <3>2, <3>3 DEF TelegramInv
    <2>2. ASSUME NEW u \in Updates,
                 Te!Receive(u) \/ Te!TimesOut(u) \/ Te!Step(u)
          PROVE  TelegramInv'
      BY <2>2, TelegramReceive, TelegramReply, TelegramConnect, TelegramStores, TelegramDecide,
         TelegramSend, TelegramContinue, TelegramOther DEF Te!Step
    <2> QED BY <2>1, <2>2 DEF Te!Next
  <1> QED BY <1>1, <1>2, PTL

(* A message or a part of an answer that a handler went on from is in the   *)
(* memories of its chat, unless another chat has come to that number, by    *)
(* whatever interleaving of the handlers and whichever database.            *)
THEOREM NumbersAreRemembered == Te!Spec => []Te!Remembered
  <1>1. TelegramInv => Te!Remembered
    BY DEF TelegramInv, HandlerKnows, Numbered, Te!Remembered
  <1> QED BY <1>1, TelegramSpec, PTL DEF Te!Spec

(* The process ends only by a third failure, the one bot.catch meets when   *)
(* the reply and the apology have failed, or by a handler Telegraf gave up  *)
(* waiting for.                                                             *)
THEOREM BotSurvives == Te!Spec => []Te!Survives
  <1>1. TelegramInv => Te!Survives
    BY DEF TelegramInv
  <1> QED BY <1>1, TelegramSpec, PTL DEF Te!Spec

(* What a Telegram bot numbers stays within its bounds: a message has a    *)
(* number from its chat once its handler runs, and so has each part of an  *)
(* answer that was sent, of which there are no more than it was split in.  *)
TelegramRows == [chat : Chats, number : 1 .. MaxNumber, replyTo : 0 .. MaxNumber]

JobIsBounded(u) ==
    /\ Len(teJob[u].sent) <= teJob[u].chunks
    /\ teAt[u] \notin Te!Ended => teJob[u].number >= 1
    /\ \A i \in 1 .. Len(teJob[u].sent) : teJob[u].sent[i] >= 1

TelegramBounds ==
    /\ teDb \in {"sqlite", "postgres"} /\ teAlive \in BOOLEAN /\ teLate \in BOOLEAN
    /\ teLast \in [Chats -> 0 .. MaxNumber] /\ teFaults \in 0 .. MaxTelegramFaults
    /\ teRows \subseteq TelegramRows
    /\ \A u \in Updates : JobIsBounded(u)

(* The faults and the numbers, whatever a handler does. *)
LEMMA TelegramCounts ==
    ASSUME Te!TelegramAssumption, TelegramBounds, NEW u \in Updates,
           Te!Receive(u) \/ Te!TimesOut(u) \/ Te!Step(u)
    PROVE  /\ teLast' \in [Chats -> 0 .. MaxNumber] /\ teFaults' \in 0 .. MaxTelegramFaults
           /\ teDb' = teDb /\ teAlive' \in BOOLEAN /\ teLate' \in BOOLEAN
  <1>1. MaxNumber \in Nat /\ MaxTelegramFaults \in Nat
    BY DEF Te!TelegramAssumption
  <1>2. /\ teFaults' = teFaults \/ (teFaults < MaxTelegramFaults /\ teFaults' = teFaults + 1)
        /\ teLast' = teLast
           \/ \E c \in Chats \cup {teJob[u].chat} :
                  teLast[c] < MaxNumber /\ teLast' = [teLast EXCEPT ![c] = @ + 1]
        /\ teDb' = teDb
        /\ teAlive' = teAlive \/ teAlive' = FALSE
        /\ teLate' = teLate \/ teLate' = TRUE
    <2> USE DEF Te!Receive, Te!TimesOut, Te!Step, Te!Reply, Te!Connect, Te!Look, Te!Insert,
                Te!Decide, Te!Generate, Te!SendChunk, Te!Continue, Te!Evaluate, Te!Throw
    <2>1. teFaults' = teFaults \/ (teFaults < MaxTelegramFaults /\ teFaults' = teFaults + 1)
      BY DEF Te!Fault
    <2>2. teLast' = teLast
           \/ \E c \in Chats \cup {teJob[u].chat} :
                  teLast[c] < MaxNumber /\ teLast' = [teLast EXCEPT ![c] = @ + 1]
      OBVIOUS
    <2>3. teDb' = teDb
      OBVIOUS
    <2>4. teAlive' = teAlive \/ teAlive' = FALSE
      OBVIOUS
    <2>5. teLate' = teLate \/ teLate' = TRUE
      OBVIOUS
    <2> QED BY <2>1, <2>2, <2>3, <2>4, <2>5
  <1>3. teFaults' \in 0 .. MaxTelegramFaults
    <2>1. teFaults \in 0 .. MaxTelegramFaults
      BY DEF TelegramBounds
    <2> QED BY <1>1, <1>2, <2>1
  <1>4. teLast' \in [Chats -> 0 .. MaxNumber]
    <2>1. teLast \in [Chats -> 0 .. MaxNumber]
      BY DEF TelegramBounds
    <2>2. ASSUME NEW c \in Chats, teLast[c] < MaxNumber,
                 teLast' = [teLast EXCEPT ![c] = @ + 1]
          PROVE  teLast' \in [Chats -> 0 .. MaxNumber]
      <3>1. teLast[c] + 1 \in 0 .. MaxNumber
        BY <1>1, <2>1, <2>2
      <3> QED BY <2>1, <2>2, <3>1
    <2>3. ASSUME NEW c, c \notin Chats, teLast' = [teLast EXCEPT ![c] = @ + 1]
          PROVE  teLast' = teLast
      BY <2>1, <2>3
    <2> QED BY <1>2, <2>1, <2>2, <2>3
  <1>5. teAlive' \in BOOLEAN /\ teLate' \in BOOLEAN
    BY <1>2 DEF TelegramBounds
  <1> QED BY <1>2, <1>3, <1>4, <1>5

(* A row that is stored is within the bounds of its chat. *)
LEMMA TelegramRow ==
    ASSUME Te!TelegramAssumption, TelegramInv, TelegramBounds, NEW u \in Updates,
           teAt[u] \in {"look", "insert"}
    PROVE  Te!Storing(u) \in TelegramRows
  <1>1. HandlerIsAt(u) /\ teJob[u] \in TelegramJobs /\ JobIsBounded(u)
    BY DEF TelegramInv, TelegramTypes, TelegramBounds
  <1>2. /\ JobIsWithin(teJob[u]) /\ teAt[u] \notin Te!Ended
        /\ (teJob[u].sent # <<>> => teJob[u].saved < Len(teJob[u].sent))
    BY <1>1 DEF HandlerIsAt, Te!Ended
  <1>3. /\ teJob[u].number \in Nat /\ teJob[u].saved \in Nat /\ teJob[u].sent \in Seq(Nat)
        /\ Len(teJob[u].sent) \in Nat
    BY <1>1 DEF TelegramJobs
  <1>4. PICK c \in Chats : c = teJob[u].chat
    BY <1>2 DEF JobIsWithin
  <1>5. MaxNumber \in Nat /\ teLast[c] \in 0 .. MaxNumber
    BY DEF TelegramBounds, Te!TelegramAssumption
  <1>6. teJob[u].number \in 1 .. MaxNumber
    BY <1>1, <1>2, <1>3, <1>4, <1>5 DEF JobIsBounded, JobIsWithin
  <1>7. ASSUME teJob[u].sent # <<>> PROVE teJob[u].sent[teJob[u].saved + 1] \in 1 .. MaxNumber
    <2>1. teJob[u].saved + 1 \in 1 .. Len(teJob[u].sent)
      BY <1>2, <1>3, <1>7
    <2>2. teJob[u].sent[teJob[u].saved + 1] \in Nat
      BY <1>3, <2>1
    <2> QED BY <1>1, <1>2, <1>4, <1>5, <2>1, <2>2 DEF JobIsBounded, JobIsWithin
  <1>8. teJob[u].number \in 0 .. MaxNumber /\ 0 \in 0 .. MaxNumber
    BY <1>5, <1>6
  <1> QED BY <1>4, <1>6, <1>7, <1>8 DEF Te!Storing, TelegramRows

(* A handler whose answer is as it was, or has none. *)
LEMMA BoundedAsBefore ==
    ASSUME NEW u \in Updates, JobIsBounded(u),
           \/ /\ teJob'[u].sent = teJob[u].sent /\ teJob'[u].chunks = teJob[u].chunks
              /\ teJob'[u].number = teJob[u].number
              /\ teAt'[u] \in Te!Ended \/ teAt[u] \notin Te!Ended
           \/ teJob'[u] = Te!NewJob /\ teAt'[u] \in Te!Ended
    PROVE  JobIsBounded(u)'
  <1>1. CASE /\ teJob'[u].sent = teJob[u].sent /\ teJob'[u].chunks = teJob[u].chunks
             /\ teJob'[u].number = teJob[u].number
             /\ teAt'[u] \in Te!Ended \/ teAt[u] \notin Te!Ended
    BY <1>1 DEF JobIsBounded, Te!Ended
  <1>2. CASE teJob'[u] = Te!NewJob /\ teAt'[u] \in Te!Ended
    <2>1. Te!NewJob.sent = <<>> /\ Te!NewJob.chunks = 0
      BY DEF Te!NewJob
    <2> QED BY <1>2, <2>1 DEF JobIsBounded, Te!Ended
  <1> QED BY <1>1, <1>2

LEMMA TelegramJob ==
    ASSUME Te!TelegramAssumption, TelegramInv, TelegramBounds, NEW u \in Updates,
           Te!Receive(u) \/ Te!TimesOut(u) \/ Te!Step(u)
    PROVE  JobIsBounded(u)'
  <1>1. /\ teAt \in [Updates -> TelegramPlaces] /\ teJob \in [Updates -> TelegramJobs]
        /\ teJob[u] \in TelegramJobs /\ JobIsBounded(u) /\ HandlerIsAt(u)
    BY DEF TelegramInv, TelegramTypes, TelegramBounds
  <1>2. /\ teJob[u].number \in Nat /\ teJob[u].chunks \in Nat /\ teJob[u].saved \in Nat
        /\ teJob[u].sent \in Seq(Nat) /\ Len(teJob[u].sent) \in Nat
    BY <1>1 DEF TelegramJobs
  <1>3. ASSUME NEW place, Te!Stay(u, place), teAt[u] \notin Te!Ended PROVE JobIsBounded(u)'
    BY <1>1, <1>3, BoundedAsBefore DEF Te!Stay, Te!Go
  <1>4. ASSUME NEW place \in {"done", "failed"}, Te!End(u, place) PROVE JobIsBounded(u)'
    <2>1. teJob'[u] = Te!NewJob /\ teAt'[u] = place
      BY <1>1, <1>4 DEF Te!End, Te!Go
    <2> QED BY <1>1, <2>1, BoundedAsBefore DEF Te!Ended
  <1>5. ASSUME teJob' = teJob, teAt' = teAt PROVE JobIsBounded(u)'
    BY <1>1, <1>5 DEF JobIsBounded, Te!Ended
  <1>6. CASE Te!Receive(u)
    <2>1. PICK c \in Chats, asks \in {"direct", "picture", "open"}, first \in {"command", "connect"} :
            /\ teJob' = [teJob EXCEPT ![u].chat = c, ![u].number = teLast[c] + 1, ![u].asks = asks]
            /\ teAt' = [teAt EXCEPT ![u] = first]
      BY <1>6 DEF Te!Receive, Te!Go
    <2>2. teLast[c] \in Nat
      BY DEF TelegramInv, TelegramTypes
    <2> DEFINE got == [teJob[u] EXCEPT !.chat = c, !.number = teLast[c] + 1, !.asks = asks]
    <2>3. got.number = teLast[c] + 1 /\ got.sent = teJob[u].sent /\ got.chunks = teJob[u].chunks
      BY <1>1 DEF TelegramJobs
    <2>4. teJob' = [teJob EXCEPT ![u] = got]
      BY <2>1
    <2> HIDE DEF got
    <2>5. teJob'[u] = got
      BY <1>1, <2>4
    <2> QED BY <1>1, <2>2, <2>3, <2>5 DEF JobIsBounded
  <1>7. CASE Te!TimesOut(u)
    BY <1>5, <1>7 DEF Te!TimesOut
  <1>8. CASE Te!Reply(u)
    <2>1. teAt[u] \notin Te!Ended
      BY <1>8 DEF Te!Reply, Te!Ended
    <2>2. \/ Te!End(u, "done") \/ UNCHANGED <<teAt, teJob>>
          \/ \E place : Te!Stay(u, place)
      BY <1>8 DEF Te!Reply
    <2> QED BY <1>3, <1>4, <1>5, <2>1, <2>2
  <1>9. CASE Te!Connect(u) \/ Te!Evaluate(u)
    <2>1. teAt[u] \notin Te!Ended
      BY <1>9 DEF Te!Connect, Te!Evaluate, Te!Ended
    <2>2. Te!End(u, "done") \/ Te!Stay(u, "look")
      BY <1>9 DEF Te!Connect, Te!Evaluate
    <2> QED BY <1>3, <1>4, <2>1, <2>2
  <1>10. CASE Te!Decide(u)
    <2>1. teJob' = [teJob EXCEPT ![u].asks = "open"] /\ teAt[u] \notin Te!Ended
      BY <1>10 DEF Te!Decide, Te!Ended
    <2>2. /\ teJob'[u].sent = teJob[u].sent /\ teJob'[u].chunks = teJob[u].chunks
          /\ teJob'[u].number = teJob[u].number
      BY <1>1, <2>1 DEF TelegramJobs
    <2> QED BY <1>1, <2>1, <2>2, BoundedAsBefore
  <1>11. ASSUME Te!Throws(u), teAt[u] \notin Te!Ended PROVE JobIsBounded(u)'
    BY <1>3, <1>4, <1>11 DEF Te!Throws
  <1>12. CASE Te!Throw(u)
    BY <1>11, <1>12 DEF Te!Throw, Te!Running
  <1>13. ASSUME Te!Stored(u), teAt[u] \notin Te!Ended PROVE JobIsBounded(u)'
    <2>1. CASE teJob[u].sent = <<>>
      BY <1>3, <1>13, <2>1 DEF Te!Stored
    <2>2. CASE teJob[u].sent # <<>>
      <3>1. teJob' = [teJob EXCEPT ![u].saved = @ + 1]
        BY <1>13, <2>2 DEF Te!Stored
      <3>2. /\ teJob'[u].sent = teJob[u].sent /\ teJob'[u].chunks = teJob[u].chunks
            /\ teJob'[u].number = teJob[u].number
        BY <1>1, <3>1 DEF TelegramJobs
      <3> QED BY <1>1, <1>13, <3>2, BoundedAsBefore
    <2> QED BY <2>1, <2>2
  <1>14. CASE Te!Look(u) \/ Te!Insert(u)
    <2>1. teAt[u] \notin Te!Ended
      BY <1>14 DEF Te!Look, Te!Insert, Te!Ended
    <2>2. Te!Stored(u) \/ Te!Stay(u, "insert") \/ Te!Throws(u)
      BY <1>14 DEF Te!Look, Te!Insert
    <2> QED BY <1>3, <1>11, <1>13, <2>1, <2>2
  <1>15. ASSUME NEW round \in {1, 2}, Te!Answered(u, round), teAt[u] \notin Te!Ended
         PROVE  JobIsBounded(u)'
    <2>1. CASE Te!End(u, "done")
      BY <1>4, <2>1
    <2>2. CASE Te!Stay(u, "evaluate")
      BY <1>3, <1>15, <2>2
    <2>3. ASSUME NEW n \in 1 .. MaxChunks, NEW a,
                 teJob' = [teJob EXCEPT ![u].action = a, ![u].chunks = n,
                                        ![u].sent = Te!Unsent(u), ![u].saved = 0,
                                        ![u].round = round]
          PROVE  JobIsBounded(u)'
      <3> DEFINE asked == [teJob[u] EXCEPT !.action = a, !.chunks = n, !.sent = <<>>, !.saved = 0,
                                           !.round = round]
      <3>1. teJob' = [teJob EXCEPT ![u] = asked]
        BY <2>3 DEF Te!Unsent
      <3>2. asked.number = teJob[u].number /\ asked.sent = <<>> /\ asked.chunks = n
        BY <1>1 DEF TelegramJobs
      <3> HIDE DEF asked
      <3>3. teJob'[u] = asked
        BY <1>1, <3>1
      <3> QED BY <1>1, <1>15, <3>2, <3>3 DEF JobIsBounded
    <2> QED BY <1>15, <2>1, <2>2, <2>3 DEF Te!Answered
  <1>16. CASE Te!Generate(u)
    BY <1>15, <1>16 DEF Te!Generate, Te!Ended
  <1>17. CASE Te!Continue(u)
    BY <1>3, <1>15, <1>17 DEF Te!Continue, Te!Ended
  <1>18. CASE Te!SendChunk(u)
    <2>1. teAt[u] = "send" /\ Len(teJob[u].sent) < teJob[u].chunks
      BY <1>1, <1>18 DEF Te!SendChunk, HandlerIsAt
    <2>2. PICK c \in Chats : c = teJob[u].chat
      BY <1>1, <2>1 DEF HandlerIsAt, JobIsWithin, Te!Ended
    <2>3. teLast[c] \in Nat
      BY DEF TelegramInv, TelegramTypes
    <2> DEFINE new == teLast[c] + 1
    <2> DEFINE more == [teJob[u] EXCEPT !.sent = Append(@, new)]
    <2>4. teJob' = [teJob EXCEPT ![u] = more]
      BY <1>18, <2>2 DEF Te!SendChunk
    <2>5. /\ more.number = teJob[u].number /\ more.chunks = teJob[u].chunks
          /\ more.sent = Append(teJob[u].sent, new)
      BY <1>1 DEF TelegramJobs
    <2> HIDE DEF more
    <2>6. teJob'[u] = more
      BY <1>1, <2>4
    <2>7. new \in Nat /\ new >= 1
      BY <2>3
    <2> HIDE DEF new
    <2>8. Len(more.sent) = Len(teJob[u].sent) + 1
      BY <1>2, <2>5, <2>7
    <2>9. ASSUME NEW i \in 1 .. Len(more.sent) PROVE more.sent[i] >= 1
      <3>1. CASE i <= Len(teJob[u].sent)
        <4>1. i \in 1 .. Len(teJob[u].sent) /\ more.sent[i] = teJob[u].sent[i]
          BY <1>2, <2>5, <2>7, <2>8, <3>1
        <4> QED BY <1>1, <4>1 DEF JobIsBounded
      <3>2. CASE ~(i <= Len(teJob[u].sent))
        <4>1. i = Len(teJob[u].sent) + 1
          BY <1>2, <2>8, <3>2
        <4>2. more.sent[i] = new
          BY <1>2, <2>5, <2>7, <4>1
        <4> QED BY <2>7, <4>2
      <3> QED BY <3>1, <3>2
    <2>10. Len(more.sent) <= more.chunks
      BY <1>2, <2>1, <2>5, <2>8
    <2>11. more.number >= 1
      BY <1>1, <2>1, <2>5 DEF JobIsBounded, Te!Ended
    <2> QED BY <2>6, <2>9, <2>10, <2>11 DEF JobIsBounded
  <1> QED BY <1>6, <1>7, <1>8, <1>9, <1>10, <1>12, <1>14, <1>16, <1>17, <1>18 DEF Te!Step

LEMMA TelegramStays ==
    ASSUME Te!TelegramAssumption, TelegramInv, TelegramBounds, [Te!Next]_Te!vars
    PROVE  TelegramBounds'
  <1>1. CASE UNCHANGED Te!vars
    <2>1. UNCHANGED <<teDb, teAlive, teLast, teRows, teAt, teJob, teLate, teFaults>>
      BY <1>1 DEF Te!vars
    <2>2. \A u \in Updates : JobIsBounded(u)'
      BY <2>1 DEF TelegramBounds, JobIsBounded, Te!Ended
    <2> QED BY <2>1, <2>2 DEF TelegramBounds, TelegramRows
  <1>2. ASSUME NEW u \in Updates, Te!Receive(u) \/ Te!TimesOut(u) \/ Te!Step(u)
        PROVE  TelegramBounds'
    <2>1. /\ teLast' \in [Chats -> 0 .. MaxNumber] /\ teFaults' \in 0 .. MaxTelegramFaults
          /\ teDb' = teDb /\ teAlive' \in BOOLEAN /\ teLate' \in BOOLEAN
      BY <1>2, TelegramCounts
    <2>2. teRows' \subseteq TelegramRows
      <3>1. CASE Te!Insert(u)
        <4>1. teAt[u] = "insert" /\ teRows' \subseteq teRows \cup {Te!Storing(u)}
          BY <3>1 DEF Te!Insert
        <4> QED BY <4>1, TelegramRow DEF TelegramBounds
      <3>2. CASE ~Te!Insert(u)
        <4>1. teRows' = teRows
          BY <1>2, <3>2 DEF Te!Receive, Te!TimesOut, Te!Step, Te!Reply, Te!Connect, Te!Look,
                            Te!Decide, Te!Generate, Te!SendChunk, Te!Continue, Te!Evaluate, Te!Throw
        <4> QED BY <4>1 DEF TelegramBounds
      <3> QED BY <3>1, <3>2
    <2>3. ASSUME NEW v \in Updates PROVE JobIsBounded(v)'
      <3>1. CASE v = u
        BY <1>2, <3>1, TelegramJob
      <3>2. CASE v # u
        <4>1. /\ teAt \in [Updates -> TelegramPlaces] /\ teJob \in [Updates -> TelegramJobs]
              /\ v \in Updates \ {u}
          BY <3>2 DEF TelegramInv, TelegramTypes
        <4>2. teAt'[v] = teAt[v]
          BY <1>2, <4>1 DEF Te!Receive, Te!TimesOut, Te!Step, Te!Reply, Te!Connect, Te!Look,
                      Te!Insert, Te!Stored, Te!Throws, Te!Stay, Te!End, Te!Answered, Te!Go,
                      Te!Decide, Te!Generate, Te!SendChunk, Te!Continue, Te!Evaluate, Te!Throw
        <4>3. teJob'[v] = teJob[v]
          BY <1>2, <4>1 DEF Te!Receive, Te!TimesOut, Te!Step, Te!Reply, Te!Connect, Te!Look,
                      Te!Insert, Te!Stored, Te!Throws, Te!Stay, Te!End, Te!Answered, Te!Go,
                      Te!Decide, Te!Generate, Te!SendChunk, Te!Continue, Te!Evaluate, Te!Throw
        <4>4. teAt'[v] = teAt[v] /\ teJob'[v] = teJob[v]
          BY <4>2, <4>3
        <4> QED BY <4>4 DEF TelegramBounds, JobIsBounded, Te!Ended
      <3> QED BY <3>1, <3>2
    <2> QED BY <2>1, <2>2, <2>3 DEF TelegramBounds, TelegramRows
  <1> QED BY <1>1, <1>2 DEF Te!Next

LEMMA TelegramTyped ==
    ASSUME Te!TelegramAssumption
    PROVE  Te!Init /\ [][Te!Next]_Te!vars => [](TelegramInv /\ TelegramBounds)
  <1>1. Te!Init => TelegramBounds
    <2> SUFFICES ASSUME Te!Init PROVE TelegramBounds
      OBVIOUS
    <2>1. 0 \in 0 .. MaxNumber /\ 0 \in 0 .. MaxTelegramFaults
      BY DEF Te!TelegramAssumption
    <2>2. /\ teDb \in {"sqlite", "postgres"} /\ teAlive = TRUE /\ teLate = FALSE
          /\ teLast = [c \in Chats |-> 0] /\ teFaults = 0 /\ teRows = {}
          /\ teAt = [u \in Updates |-> "new"] /\ teJob = [u \in Updates |-> Te!NewJob]
      BY DEF Te!Init
    <2>3. Te!NewJob.sent = <<>> /\ Te!NewJob.chunks = 0
      BY DEF Te!NewJob
    <2>4. \A u \in Updates : JobIsBounded(u)
      BY <2>2, <2>3 DEF JobIsBounded, Te!Ended
    <2> QED BY <2>1, <2>2, <2>4 DEF TelegramBounds
  <1>2. TelegramInv /\ TelegramBounds /\ [Te!Next]_Te!vars => TelegramBounds'
    BY TelegramStays
  <1> QED BY <1>1, <1>2, TelegramSpec, PTL

(* The types of a bot follow from where its handlers are and its bounds. *)
LEMMA TelegramIsTyped ==
    ASSUME Te!TelegramAssumption, TelegramInv, TelegramBounds
    PROVE  Te!TypeOK
  <1>1. ASSUME NEW u \in Updates
        PROVE  /\ (teAt[u] \in Te!Ended => teJob[u] = Te!NewJob) /\ teJob[u].chat \in Chats
               /\ teJob[u].number \in 0 .. MaxNumber
               /\ Len(teJob[u].sent) <= teJob[u].chunks /\ teJob[u].saved <= Len(teJob[u].sent)
    <2>1. HandlerIsAt(u) /\ JobIsBounded(u) /\ teJob[u] \in TelegramJobs
      BY DEF TelegramInv, TelegramTypes, TelegramBounds
    <2>2. MaxNumber \in Nat /\ teLast \in [Chats -> 0 .. MaxNumber]
      BY DEF Te!TelegramAssumption, TelegramBounds
    <2>3. CASE teAt[u] \in Te!Ended
      <3>1. teJob[u] = Te!NewJob
        BY <2>1, <2>3 DEF HandlerIsAt
      <3>2. PICK c \in Chats : c = CHOOSE d \in Chats : TRUE
        BY DEF Te!TelegramAssumption
      <3>3. /\ Te!NewJob.chat = c /\ Te!NewJob.number = 0 /\ Te!NewJob.sent = <<>>
            /\ Te!NewJob.saved = 0
        BY <3>2 DEF Te!NewJob
      <3>4. 0 \in 0 .. MaxNumber
        BY <2>2
      <3>5. Len(Te!NewJob.sent) = 0
        BY <3>3
      <3> QED BY <2>1, <2>2, <3>1, <3>3, <3>4, <3>5 DEF JobIsBounded
    <2>4. CASE teAt[u] \notin Te!Ended
      <3>1. JobIsWithin(teJob[u]) /\ teJob[u].number \in Nat
        BY <2>1, <2>4 DEF HandlerIsAt, TelegramJobs
      <3>2. teJob[u].number \in 0 .. MaxNumber
        BY <2>2, <3>1 DEF JobIsWithin
      <3> QED BY <2>1, <2>4, <3>1, <3>2 DEF JobIsBounded, JobIsWithin
    <2> QED BY <2>3, <2>4
  <1>2. /\ teDb \in {"sqlite", "postgres"} /\ teAlive \in BOOLEAN /\ teLate \in BOOLEAN
        /\ teLast \in [Chats -> 0 .. MaxNumber] /\ teFaults \in 0 .. MaxTelegramFaults
        /\ teRows \subseteq [chat : Chats, number : 1 .. MaxNumber, replyTo : 0 .. MaxNumber]
    BY DEF TelegramBounds, TelegramRows
  <1> QED BY <1>1, <1>2 DEF Te!TypeOK

----------------------------------------------------------------------------
(* Posting.  The timer of the posts is not set while one is being written, *)
(* apart from the first.                                                   *)
InTurn == {s \in Slots : poRound["post"][s] \in {"recall", "loop"}}
PostingPlaces == {"idle", "write", "recall", "loop", "ask", "send", "save"}

PostingInv ==
    /\ poTimer \in [Po!Loops -> {"set", "body"}]
    /\ poRound \in [Po!Loops -> [Slots -> PostingPlaces]]
    /\ poChunks \in [Slots -> 0 .. MaxChunks]
    /\ poAlive \in BOOLEAN /\ poFaults \in 0 .. MaxFaults
    /\ \A s \in Slots : poRound["trend"][s] = "send" => poChunks[s] > 0
    /\ \A s, t \in InTurn : s = t
    /\ poTimer["post"] = "set" => InTurn = {}

(* A round goes from one await to the next. *)
LEMMA PostingGo ==
    ASSUME PostingInv, NEW l \in Po!Loops, NEW s \in Slots, NEW place \in PostingPlaces,
           Po!Go(l, s, place)
    PROVE  /\ poRound' \in [Po!Loops -> [Slots -> PostingPlaces]]
           /\ poRound'[l][s] = place
           /\ \A k \in Po!Loops, t \in Slots :
                  (k # l \/ t # s) => poRound'[k][t] = poRound[k][t]
  BY DEF PostingInv, Po!Go

LEMMA PostsStep ==
    ASSUME PostingInv, NEW s \in Slots,
           \/ /\ Po!Go("post", s, "recall")
              /\ Po!Idle("post", s) /\ poTimer["post"] = "set"
              /\ poTimer' = [poTimer EXCEPT !["post"] = "body"]
           \/ /\ Po!Go("post", s, "loop")
              /\ poRound["post"][s] = "recall"
              /\ poTimer' = [poTimer EXCEPT !["post"] = "body"]
           \/ poRound["post"][s] \in {"write", "loop"} /\ Po!Finish(s),
           poAlive' \in BOOLEAN, poFaults' \in 0 .. MaxFaults, UNCHANGED poChunks
    PROVE  PostingInv'
  <1>1. /\ "post" \in Po!Loops /\ "trend" \in Po!Loops /\ "post" # "trend"
        /\ {"idle", "recall", "loop"} \subseteq PostingPlaces
    BY DEF Po!Loops, PostingPlaces
  <1>2. /\ poTimer \in [Po!Loops -> {"set", "body"}]
        /\ poRound \in [Po!Loops -> [Slots -> PostingPlaces]]
        /\ \A u, t \in InTurn : u = t
        /\ poTimer["post"] = "set" => InTurn = {}
        /\ \A t \in Slots : poRound["trend"][t] = "send" => poChunks[t] > 0
    BY DEF PostingInv
  <1>3. PICK place \in {"idle", "recall", "loop"} :
          /\ Po!Go("post", s, place)
          /\ place # "idle" => s \in InTurn \/ InTurn = {}
          /\ place # "idle" => poTimer' = [poTimer EXCEPT !["post"] = "body"]
          /\ place = "idle" => \/ poTimer' = poTimer
                               \/ /\ poTimer' = [poTimer EXCEPT !["post"] = "set"]
                                  /\ s \in InTurn
    BY <1>2 DEF Po!Finish, InTurn
  <1>4. /\ poRound' \in [Po!Loops -> [Slots -> PostingPlaces]]
        /\ poRound'["post"][s] = place
        /\ \A t \in Slots : t # s => poRound'["post"][t] = poRound["post"][t]
        /\ \A t \in Slots : poRound'["trend"][t] = poRound["trend"][t]
    BY <1>1, <1>3, PostingGo
  <1>5. poTimer' \in [Po!Loops -> {"set", "body"}]
    BY <1>2, <1>3
  <1>6. InTurn' = IF place = "idle" THEN InTurn \ {s} ELSE InTurn \cup {s}
    BY <1>4 DEF InTurn
  <1>7. /\ \A u, t \in InTurn' : u = t
        /\ poTimer'["post"] = "set" => InTurn' = {}
    BY <1>1, <1>2, <1>3, <1>6
  <1> QED BY <1>2, <1>4, <1>5, <1>7 DEF PostingInv

(* The rounds of the other loops, and messages on their way. *)
LEMMA PostingOther ==
    ASSUME PostingInv, UNCHANGED poTimer, poAlive' \in BOOLEAN, poFaults' \in 0 .. MaxFaults,
           \/ UNCHANGED <<poRound, poChunks>>
           \/ \E l \in Po!Loops \ {"post"}, s \in Slots, place \in {"idle", "ask", "send", "save"},
                 n \in 0 .. MaxChunks :
                /\ Po!Go(l, s, place) /\ poChunks' = [poChunks EXCEPT ![s] = n]
                /\ l # "trend" => n = poChunks[s]
                /\ place = "send" => n > 0
    PROVE  PostingInv'
  <1>1. CASE UNCHANGED <<poRound, poChunks>>
    BY <1>1 DEF PostingInv, InTurn
  <1>2. ASSUME NEW l \in Po!Loops \ {"post"}, NEW s \in Slots,
               NEW place \in {"idle", "ask", "send", "save"}, NEW n \in 0 .. MaxChunks,
               Po!Go(l, s, place), poChunks' = [poChunks EXCEPT ![s] = n],
               l # "trend" => n = poChunks[s], place = "send" => n > 0
        PROVE  PostingInv'
    <2>1. "post" \in Po!Loops /\ "trend" \in Po!Loops /\ place \in PostingPlaces
      BY DEF Po!Loops, PostingPlaces
    <2>2. /\ poRound' \in [Po!Loops -> [Slots -> PostingPlaces]]
          /\ poRound'[l][s] = place
          /\ \A k \in Po!Loops, t \in Slots :
                 (k # l \/ t # s) => poRound'[k][t] = poRound[k][t]
      BY <1>2, <2>1, PostingGo
    <2>3. poChunks' \in [Slots -> 0 .. MaxChunks]
      BY <1>2 DEF PostingInv
    <2>4. InTurn' = InTurn
      BY <2>1, <2>2 DEF InTurn
    <2>5. \A t \in Slots : poRound'["trend"][t] = "send" => poChunks'[t] > 0
      <3>1. \A t \in Slots : poRound["trend"][t] = "send" => poChunks[t] > 0
        BY DEF PostingInv
      <3> QED BY <1>2, <2>1, <2>2, <3>1 DEF PostingInv
    <2> QED BY <2>2, <2>3, <2>4, <2>5 DEF PostingInv
  <1> QED BY <1>1, <1>2

LEMMA PostingSpec ==
    ASSUME Po!PostingAssumption
    PROVE  Po!Init /\ [][Po!Next]_Po!vars => []PostingInv
  <1>1. Po!Init => PostingInv
    <2> SUFFICES ASSUME Po!Init PROVE PostingInv
      OBVIOUS
    <2>1. PICK now \in {"idle", "write"}, s \in Slots :
              poRound = [l \in Po!Loops |-> [t \in Slots |->
                            IF l = "post" /\ t = s THEN now ELSE "idle"]]
      BY DEF Po!Init
    <2>2. /\ poRound \in [Po!Loops -> [Slots -> PostingPlaces]]
          /\ \A l \in Po!Loops, t \in Slots : poRound[l][t] \in {"idle", "write"}
      BY <2>1 DEF PostingPlaces
    <2>3. InTurn = {}
      BY <2>2 DEF InTurn, Po!Loops
    <2>4. /\ poChunks \in [Slots -> 0 .. MaxChunks] /\ poFaults \in 0 .. MaxFaults
          /\ poTimer \in [Po!Loops -> {"set", "body"}] /\ poAlive \in BOOLEAN
      BY DEF Po!Init, Po!PostingAssumption
    <2> QED BY <2>2, <2>3, <2>4 DEF PostingInv, Po!Loops
  <1>2. ASSUME PostingInv, UNCHANGED Po!vars PROVE PostingInv'
    BY <1>2 DEF Po!vars, PostingInv, InTurn
  <1>3. ASSUME PostingInv, Po!Next PROVE PostingInv'
    <2>1. /\ MaxFaults \in Nat /\ MaxChunks \in Nat \ {0}
          /\ poFaults \in 0 .. MaxFaults /\ poAlive \in BOOLEAN
          /\ poChunks \in [Slots -> 0 .. MaxChunks]
          /\ poTimer \in [Po!Loops -> {"set", "body"}]
          /\ "post" \in Po!Loops /\ "scalp" \in Po!Loops /\ "trend" \in Po!Loops
      BY <1>3, ConversationAssumption DEF PostingInv, Po!PostingAssumption, Po!Loops
    <2>2. Po!Fault => poFaults' \in 0 .. MaxFaults
      BY <2>1 DEF Po!Fault
    <2>3. CASE Po!PostDue
      <3>1. PICK s \in Slots : Po!Idle("post", s) /\ Po!Go("post", s, "recall")
        BY <2>3 DEF Po!PostDue
      <3>2. /\ poTimer["post"] = "set" /\ poTimer' = [poTimer EXCEPT !["post"] = "body"]
            /\ UNCHANGED <<poAlive, poChunks, poFaults>>
        BY <2>3 DEF Po!PostDue
      <3> QED BY <1>3, <2>1, <3>1, <3>2, PostsStep
    <2>4. ASSUME NEW s \in Slots, Po!Recall(s) \/ Po!Write(s) \/ Po!WriteFails(s)
          PROVE  PostingInv'
      <3>1. poAlive' \in BOOLEAN /\ poFaults' \in 0 .. MaxFaults /\ UNCHANGED poChunks
        BY <2>1, <2>2, <2>4 DEF Po!Recall, Po!Write, Po!WriteFails
      <3>2. \/ /\ poRound["post"][s] = "recall" /\ Po!Go("post", s, "loop")
               /\ poTimer' = [poTimer EXCEPT !["post"] = "body"]
            \/ poRound["post"][s] \in {"write", "loop"} /\ Po!Finish(s)
        BY <2>4 DEF Po!Recall, Po!Recalled, Po!Write, Po!WriteFails
      <3> QED BY <1>3, <3>1, <3>2, PostsStep
    <2>5. CASE Po!Due("scalp") \/ Po!Due("trend")
      <3>1. PICK l \in {"scalp", "trend"}, s \in Slots : Po!Go(l, s, "ask")
        BY <2>5 DEF Po!Due
      <3>2. /\ poChunks' = [poChunks EXCEPT ![s] = poChunks[s]] /\ poChunks[s] \in 0 .. MaxChunks
            /\ UNCHANGED <<poTimer, poAlive, poFaults>>
        BY <2>1, <2>5 DEF Po!Due
      <3> QED BY <1>3, <2>1, <3>1, <3>2, PostingOther
    <2>6. CASE Po!Delivered \/ Po!Uncaught
      <3>1. poAlive' \in BOOLEAN /\ poFaults' \in 0 .. MaxFaults
        BY <2>1, <2>2, <2>6 DEF Po!Delivered, Po!Uncaught
      <3>2. UNCHANGED <<poTimer, poRound, poChunks>>
        BY <2>6 DEF Po!Delivered, Po!Uncaught
      <3> QED BY <1>3, <3>1, <3>2, PostingOther
    <2>7. ASSUME NEW s \in Slots, Po!Scalp(s)
          PROVE  PostingInv'
      <3>1. /\ poChunks' = [poChunks EXCEPT ![s] = poChunks[s]] /\ poChunks[s] \in 0 .. MaxChunks
            /\ Po!Go("scalp", s, "idle") /\ UNCHANGED <<poTimer, poAlive, poFaults>>
        BY <2>1, <2>7 DEF Po!Scalp
      <3> QED BY <1>3, <2>1, <3>1, PostingOther
    <2>8. ASSUME NEW s \in Slots, Po!TrendStep(s) \/ Po!TrendFails(s)
          PROVE  PostingInv'
      <3>1. poAlive' \in BOOLEAN /\ poFaults' \in 0 .. MaxFaults /\ UNCHANGED poTimer
        BY <2>1, <2>2, <2>8
           DEF Po!TrendStep, Po!Analyse, Po!SendChunk, Po!Save, Po!TrendFails
      <3>2. poRound["trend"][s] = "send" => poChunks[s] - 1 \in 0 .. MaxChunks
        BY <1>3, <2>1 DEF PostingInv
      <3>3. CASE Po!Analyse(s)
        <4>1. CASE Po!Go("trend", s, "idle") /\ UNCHANGED poChunks
          <5>1. poChunks' = [poChunks EXCEPT ![s] = poChunks[s]] /\ poChunks[s] \in 0 .. MaxChunks
            BY <2>1, <4>1
          <5> QED BY <1>3, <2>1, <3>1, <4>1, <5>1, PostingOther
        <4>2. ASSUME NEW n \in 1 .. MaxChunks, poChunks' = [poChunks EXCEPT ![s] = n],
                     Po!Go("trend", s, "send")
              PROVE  PostingInv'
          <5>1. n \in 0 .. MaxChunks /\ n > 0
            BY <2>1
          <5> QED BY <1>3, <2>1, <3>1, <4>2, <5>1, PostingOther
        <4> QED BY <3>3, <4>1, <4>2 DEF Po!Analyse
      <3>4. CASE Po!SendChunk(s)
        <4>1. /\ poRound["trend"][s] = "send"
              /\ poChunks' = [poChunks EXCEPT ![s] = poChunks[s] - 1]
          BY <3>4 DEF Po!SendChunk
        <4>2. CASE poChunks[s] = 1
          <5>1. Po!Go("trend", s, "save")
            BY <3>4, <4>2 DEF Po!SendChunk
          <5> QED BY <1>3, <2>1, <3>1, <3>2, <4>1, <5>1, PostingOther
        <4>3. CASE poChunks[s] # 1
          <5>1. poRound' = poRound /\ poChunks[s] > 0
            BY <1>3, <3>4, <4>1, <4>3 DEF Po!SendChunk, PostingInv
          <5>2. Po!Go("trend", s, "send")
            BY <1>3, <2>1, <4>1, <5>1 DEF Po!Go, PostingInv
          <5>3. poChunks[s] - 1 > 0
            BY <2>1, <4>3, <5>1
          <5> QED BY <1>3, <2>1, <3>1, <3>2, <4>1, <5>2, <5>3, PostingOther
        <4> QED BY <4>2, <4>3
      <3>5. CASE Po!Save(s)
        <4>1. poChunks' = [poChunks EXCEPT ![s] = poChunks[s]] /\ poChunks[s] \in 0 .. MaxChunks
          BY <2>1, <3>5 DEF Po!Save
        <4>2. Po!Go("trend", s, "idle")
          BY <3>5 DEF Po!Save
        <4> QED BY <1>3, <2>1, <3>1, <4>1, <4>2, PostingOther
      <3>6. CASE Po!TrendFails(s)
        <4>1. Po!Go("trend", s, "idle") /\ poChunks' = [poChunks EXCEPT ![s] = 0]
          BY <3>6 DEF Po!TrendFails
        <4>2. 0 \in 0 .. MaxChunks
          BY <2>1
        <4> QED BY <1>3, <2>1, <3>1, <4>1, <4>2, PostingOther
      <3> QED BY <2>8, <3>3, <3>4, <3>5, <3>6 DEF Po!TrendStep
    <2> QED BY <1>3, <2>3, <2>4, <2>5, <2>6, <2>7, <2>8 DEF Po!Next, Po!PostStep
  <1> QED BY <1>1, <1>2, <1>3, PTL

(* However many rounds are under way and whatever fails, the loop of posts *)
(* has one at a time.                                                      *)
THEOREM PostsDoNotPileUp ==
    ASSUME Po!PostingAssumption
    PROVE  Po!Spec => []Po!PostsInTurn
  <1>1. PostingInv => Po!PostsInTurn
    BY DEF PostingInv, InTurn, Po!PostsInTurn
  <1> QED BY <1>1, PostingSpec, PTL DEF Po!Spec

----------------------------------------------------------------------------
(* Reactions.  A memory tells of an event whose handler is done and has    *)
(* the id made of that event; two memories never have the same id; and a   *)
(* handler that is done found a memory with its id, or stored one.         *)
ReactionPlaces == {"new", "fetch", "connect", "look", "insert", "done", "lost"}
Events == 1 .. MaxEvents
ReactionRows == [user : Users, kind : {"added", "removed"}, stamp : 0 .. MaxTime, event : Events]

ReactionTypes ==
    /\ reAlive \in BOOLEAN /\ reNow \in 0 .. MaxTime /\ reFaults \in 0 .. MaxFaults
    /\ reLast \in [Users -> 0 .. MaxEvents]
    /\ reAt \in [Users -> [Events -> ReactionPlaces]]
    /\ reStamp \in [Users -> [Events -> 0 .. MaxTime]]
    /\ reRows \subseteq ReactionRows
    /\ reNamed \subseteq Users \X {"added", "removed"}

RowsTellOfEvents ==
    \A row \in reRows : /\ reAt[row.user][row.event] = "done"
                        /\ row.kind = Re!Kind(row.event)
                        /\ row.stamp = reStamp[row.user][row.event]

IdsAreUnique == \A r, s \in reRows : Re!Id(r) = Re!Id(s) => r = s

RemovalsHaveNoStamp ==
    \A u \in Users, n \in Events : n \notin Re!Added => reStamp[u][n] = 0

DoneAreHeld ==
    \A u \in Users, n \in Events : reAt[u][n] = "done" =>
        \E row \in reRows : Re!Id(row) = Re!Id(Re!Row(u, n))

LaterAreNew == \A u \in Users, n \in Events : n > reLast[u] => reAt[u][n] = "new"

ReactionInv ==
    /\ ReactionTypes /\ LaterAreNew /\ RowsTellOfEvents /\ IdsAreUnique /\ RemovalsHaveNoStamp
    /\ DoneAreHeld /\ Re!Survives

LEMMA RowOfEvent ==
    ASSUME ReactionTypes, NEW u \in Users, NEW n \in Events
    PROVE  /\ Re!Row(u, n) \in ReactionRows
           /\ Re!Row(u, n).user = u /\ Re!Row(u, n).kind = Re!Kind(n)
           /\ Re!Row(u, n).stamp = reStamp[u][n] /\ Re!Row(u, n).event = n
           /\ Re!Kind(n) = "removed" <=> n \notin Re!Added
  <1>1. reStamp[u][n] \in 0 .. MaxTime
    BY DEF ReactionTypes
  <1>2. Re!Kind(n) \in {"added", "removed"} /\ (Re!Kind(n) = "removed" <=> n \notin Re!Added)
    BY DEF Re!Kind
  <1> QED BY <1>1, <1>2 DEF Re!Row, ReactionRows

(* A handler that is not done, and stays so, goes to its next await. *)
LEMMA ReactionGo ==
    ASSUME Re!ReactionsAssumption, ReactionInv, NEW u \in Users, NEW n \in Events,
           reAt[u][n] # "done",
           NEW place \in ReactionPlaces \ {"done"}, Re!Go(u, n, place),
           NEW ms \in 0 .. MaxTime, reStamp' = [reStamp EXCEPT ![u][n] = ms],
           n \notin Re!Added => ms = 0,
           UNCHANGED <<reAlive, reNow, reRows>>, reAlive,
           reFaults' \in 0 .. MaxFaults, reLast' \in [Users -> 0 .. MaxEvents],
           n <= reLast'[u], \A v \in Users : reLast'[v] >= reLast[v],
           reNamed' \subseteq Users \X {"added", "removed"}
    PROVE  ReactionInv'
  <1>1. /\ reAt' \in [Users -> [Events -> ReactionPlaces]]
        /\ reStamp' \in [Users -> [Events -> 0 .. MaxTime]]
        /\ \A v \in Users, m \in Events :
               /\ reAt'[v][m] = "done" <=> reAt[v][m] = "done"
               /\ reAt[v][m] = "done" => reStamp'[v][m] = reStamp[v][m]
               /\ reStamp'[v][m] = reStamp[v][m] \/ (v = u /\ m = n /\ reStamp'[v][m] = ms)
    BY DEF ReactionInv, ReactionTypes, Re!Go
  <1>2. ReactionTypes'
    BY <1>1 DEF ReactionInv, ReactionTypes
  <1>3. RowsTellOfEvents'
    BY <1>1 DEF ReactionInv, ReactionTypes, RowsTellOfEvents, ReactionRows
  <1>4. IdsAreUnique' /\ RemovalsHaveNoStamp'
    BY <1>1 DEF ReactionInv, IdsAreUnique, RemovalsHaveNoStamp
  <1>5. LaterAreNew'
    <2> SUFFICES ASSUME NEW v \in Users, NEW m \in Events, m > reLast'[v]
                 PROVE  reAt'[v][m] = "new"
      BY DEF LaterAreNew
    <2>1. reLast'[v] \in Nat /\ reLast[v] \in Nat /\ m \in Nat /\ reLast'[v] >= reLast[v]
      <3>1. reLast \in [Users -> 0 .. MaxEvents] /\ MaxEvents \in Nat
        BY DEF ReactionInv, ReactionTypes, Re!ReactionsAssumption
      <3>2. reLast'[v] \in 0 .. MaxEvents /\ reLast[v] \in 0 .. MaxEvents
        BY <3>1
      <3> QED BY <3>1, <3>2 DEF Events
    <2>2. m > reLast[v] /\ (v # u \/ m # n)
      BY <2>1 DEF Events
    <2>3. reAt[v][m] = "new"
      BY <2>2 DEF ReactionInv, LaterAreNew
    <2> QED BY <2>2, <2>3 DEF ReactionInv, ReactionTypes, Re!Go
  <1>6. DoneAreHeld'
    <2> SUFFICES ASSUME NEW v \in Users, NEW m \in Events, reAt'[v][m] = "done"
                 PROVE  \E row \in reRows : Re!Id(row) = Re!Id(Re!Row(v, m)')
      BY <1>1 DEF DoneAreHeld, Re!Id
    <2>1. reAt[v][m] = "done" /\ reStamp'[v][m] = reStamp[v][m]
      BY <1>1
    <2>2. Re!Row(v, m)' = Re!Row(v, m)
      BY <2>1 DEF Re!Row
    <2> QED BY <2>1, <2>2 DEF ReactionInv, DoneAreHeld
  <1> QED BY <1>2, <1>3, <1>4, <1>5, <1>6 DEF ReactionInv, Re!Survives

(* A handler is done: its memory is there, or stored now in place of those *)
(* with its id.                                                            *)
LEMMA ReactionDone ==
    ASSUME ReactionInv, NEW u \in Users, NEW n \in Events, reAt[u][n] \in {"look", "insert"},
           Re!Go(u, n, "done"),
           UNCHANGED <<reAlive, reNow, reDb, reLast, reStamp, reNamed, reFaults>>, reAlive,
           \/ reRows' = reRows /\ Re!Taken(u, n) # {}
           \/ reRows' = (reRows \ Re!Taken(u, n)) \cup {Re!Row(u, n)}
    PROVE  ReactionInv'
  <1> DEFINE own == Re!Row(u, n)
  <1>1. /\ own \in ReactionRows /\ own.user = u /\ own.kind = Re!Kind(n)
        /\ own.stamp = reStamp[u][n] /\ own.event = n
    BY RowOfEvent DEF ReactionInv
  <1>2. Re!Taken(u, n) = {row \in reRows : Re!Id(row) = Re!Id(own)}
    BY DEF Re!Taken
  <1>3. /\ reAt' \in [Users -> [Events -> ReactionPlaces]] /\ reAt'[u][n] = "done"
        /\ \A v \in Users, m \in Events : (v # u \/ m # n) => reAt'[v][m] = reAt[v][m]
    BY DEF ReactionInv, ReactionTypes, Re!Go, ReactionPlaces
  <1>4. \A v \in Users, m \in Events : Re!Row(v, m)' = Re!Row(v, m)
    BY DEF Re!Row
  <1> HIDE DEF own
  <1>5. reRows' \subseteq reRows \cup {own}
    BY <1>2 DEF own
  <1>6. ReactionTypes'
    BY <1>1, <1>3, <1>5 DEF ReactionInv, ReactionTypes
  <1>7. RowsTellOfEvents'
    <2> SUFFICES ASSUME NEW row \in reRows'
                 PROVE  /\ reAt'[row.user][row.event] = "done"
                        /\ row.kind = Re!Kind(row.event)
                        /\ row.stamp = reStamp[row.user][row.event]
      BY DEF RowsTellOfEvents
    <2>1. CASE row = own
      BY <1>1, <1>3, <2>1
    <2>2. CASE row \in reRows
      <3>1. row.user \in Users /\ row.event \in Events
        BY <2>2 DEF ReactionInv, ReactionTypes, ReactionRows
      <3> QED BY <1>3, <2>2, <3>1 DEF ReactionInv, RowsTellOfEvents
    <2> QED BY <1>5, <2>1, <2>2
  <1>8. /\ \A r, s \in reRows' : Re!Id(r) = Re!Id(s) => r = s
        /\ \E row \in reRows' : Re!Id(row) = Re!Id(own)
        /\ \A row \in reRows : \E r \in reRows' : Re!Id(r) = Re!Id(row)
    <2>1. \A r, s \in reRows : Re!Id(r) = Re!Id(s) => r = s
      BY DEF ReactionInv, IdsAreUnique
    <2>2. CASE reRows' = reRows /\ Re!Taken(u, n) # {}
      BY <1>2, <2>1, <2>2
    <2>3. CASE reRows' = (reRows \ Re!Taken(u, n)) \cup {own}
      BY <1>2, <2>1, <2>3
    <2> QED BY <2>2, <2>3 DEF own
  <1>9. IdsAreUnique' /\ RemovalsHaveNoStamp'
    BY <1>8 DEF ReactionInv, IdsAreUnique, RemovalsHaveNoStamp, Re!Id
  <1>10. DoneAreHeld'
    <2> SUFFICES ASSUME NEW v \in Users, NEW m \in Events, reAt'[v][m] = "done"
                 PROVE  \E row \in reRows' : Re!Id(row) = Re!Id(Re!Row(v, m))
      BY <1>4 DEF DoneAreHeld, Re!Id
    <2>1. CASE v = u /\ m = n
      BY <1>8, <2>1 DEF own
    <2>2. CASE v # u \/ m # n
      <3>1. \E row \in reRows : Re!Id(row) = Re!Id(Re!Row(v, m))
        BY <1>3, <2>2 DEF ReactionInv, DoneAreHeld
      <3> QED BY <1>8, <3>1
    <2> QED BY <2>1, <2>2
  <1>11. LaterAreNew'
    BY <1>3 DEF ReactionInv, LaterAreNew
  <1> QED BY <1>6, <1>7, <1>9, <1>10, <1>11 DEF ReactionInv, Re!Survives

LEMMA ReactionNext ==
    ASSUME Re!ReactionsAssumption, ReactionInv, Re!Next
    PROVE  ReactionInv'
  <1>1. /\ MaxTime \in Nat /\ MaxEvents \in Nat /\ MaxFaults \in Nat
        /\ reAlive \in BOOLEAN /\ reNow \in 0 .. MaxTime /\ reFaults \in 0 .. MaxFaults
        /\ reLast \in [Users -> 0 .. MaxEvents] /\ reStamp \in [Users -> [Events -> 0 .. MaxTime]]
        /\ reAt \in [Users -> [Events -> ReactionPlaces]]
        /\ reNamed \subseteq Users \X {"added", "removed"}
    BY DEF Re!ReactionsAssumption, ReactionInv, ReactionTypes
  <1>2. \A u \in Users, n \in Events :
            /\ n \notin Re!Added => reStamp[u][n] = 0
            /\ reStamp' = reStamp => reStamp' = [reStamp EXCEPT ![u][n] = reStamp[u][n]]
            /\ reStamp[u][n] \in 0 .. MaxTime
            /\ reAt[u][n] # "new" => n <= reLast[u]
    BY <1>1 DEF ReactionInv, RemovalsHaveNoStamp, LaterAreNew, Events
  <1>3. CASE Re!Tick
    <2>1. reNow' \in 0 .. MaxTime
      BY <1>1, <1>3 DEF Re!Tick
    <2>2. UNCHANGED <<reAlive, reDb, reLast, reAt, reStamp, reRows, reNamed, reFaults>>
      BY <1>3 DEF Re!Tick
    <2> QED BY <2>1, <2>2
            DEF ReactionInv, ReactionTypes, LaterAreNew, RowsTellOfEvents, IdsAreUnique,
                RemovalsHaveNoStamp, DoneAreHeld, Re!Survives, Re!Id, Re!Row
  <1>4. ASSUME NEW u \in Users, Re!Toggle(u)
        PROVE  ReactionInv'
    <2>1. reAlive /\ reLast[u] + 1 \in Events /\ reLast' \in [Users -> 0 .. MaxEvents]
      BY <1>1, <1>4 DEF Re!Toggle, Events
    <2>2. PICK n \in Events : n = reLast[u] + 1
      BY <2>1
    <2>3. Re!Go(u, n, "fetch") /\ UNCHANGED <<reAlive, reNow, reStamp, reRows, reNamed, reFaults>>
      BY <1>4, <2>2 DEF Re!Toggle
    <2>4. reAt[u][n] # "done"
      <3>1. n > reLast[u]
        BY <1>1, <2>2
      <3> QED BY <3>1 DEF ReactionInv, LaterAreNew
    <2>5. n <= reLast'[u] /\ \A v \in Users : reLast'[v] >= reLast[v]
      <3>1. reLast' = [reLast EXCEPT ![u] = reLast[u] + 1]
        BY <1>4 DEF Re!Toggle
      <3> QED BY <1>1, <2>2, <3>1
    <2> QED BY <1>1, <1>2, <2>1, <2>3, <2>4, <2>5, ReactionGo DEF ReactionPlaces
  <1>5. ASSUME NEW u \in Users, NEW n \in Events,
               Re!Fetch(u, n) \/ Re!Connect(u, n)
        PROVE  ReactionInv'
    <2>1. /\ reAlive /\ reAt[u][n] # "done" /\ reAt[u][n] # "new"
          /\ UNCHANGED <<reAlive, reNow, reLast, reRows, reFaults>>
      BY <1>5 DEF Re!Fetch, Re!Connect, Re!Running
    <2>4. n <= reLast'[u] /\ \A v \in Users : reLast'[v] >= reLast[v]
      BY <1>1, <1>2, <2>1
    <2>2. CASE Re!Fetch(u, n)
      <3>1. PICK ms \in 0 .. MaxTime : /\ reStamp' = [reStamp EXCEPT ![u][n] = ms]
                                       /\ n \notin Re!Added => ms = 0
        <4>1. reStamp' = [reStamp EXCEPT ![u][n] = IF n \in Re!Added THEN reNow ELSE 0]
          BY <2>2 DEF Re!Fetch
        <4>2. CASE n \in Re!Added
          BY <1>1, <4>1, <4>2
        <4>3. CASE n \notin Re!Added
          <5>1. 0 \in 0 .. MaxTime /\ reStamp' = [reStamp EXCEPT ![u][n] = 0]
            BY <1>1, <4>1, <4>3
          <5> QED BY <5>1
        <4> QED BY <4>2, <4>3
      <3>2. Re!Go(u, n, "connect") /\ UNCHANGED reNamed
        BY <2>2 DEF Re!Fetch
      <3> QED BY <1>1, <2>1, <2>4, <3>1, <3>2, ReactionGo DEF ReactionPlaces
    <2>3. CASE Re!Connect(u, n)
      <3>1. Re!Go(u, n, "look") /\ UNCHANGED reStamp
        BY <2>3 DEF Re!Connect
      <3>2. reNamed' \subseteq Users \X {"added", "removed"}
        BY <1>1, <2>3 DEF Re!Connect, Re!Kind
      <3> QED BY <1>1, <1>2, <2>1, <2>4, <3>1, <3>2, ReactionGo DEF ReactionPlaces
    <2> QED BY <1>5, <2>2, <2>3
  <1>6. ASSUME NEW u \in Users, NEW n \in Events,
               Re!Look(u, n) \/ Re!Insert(u, n)
        PROVE  ReactionInv'
    <2>1. /\ reAlive /\ reAt[u][n] \in {"look", "insert"}
          /\ UNCHANGED <<reAlive, reNow, reDb, reLast, reStamp, reNamed, reFaults>>
      BY <1>6 DEF Re!Look, Re!Insert, Re!Running
    <2>5. n <= reLast'[u] /\ \A v \in Users : reLast'[v] >= reLast[v]
      BY <1>1, <1>2, <2>1
    <2>2. CASE Re!Look(u, n) /\ Re!Taken(u, n) = {}
      <3>1. Re!Go(u, n, "insert") /\ UNCHANGED reRows
        BY <2>2 DEF Re!Look
      <3> QED BY <1>1, <1>2, <2>1, <2>5, <3>1, ReactionGo DEF ReactionPlaces
    <2>3. CASE Re!Look(u, n) /\ Re!Taken(u, n) # {}
      <3>1. Re!Go(u, n, "done") /\ UNCHANGED reRows
        BY <2>3 DEF Re!Look
      <3> QED BY <2>1, <2>3, <3>1, ReactionDone
    <2>4. CASE Re!Insert(u, n)
      <3>1. /\ Re!Go(u, n, "done")
            /\ \/ reRows' = reRows /\ Re!Taken(u, n) # {}
               \/ reRows' = (reRows \ Re!Taken(u, n)) \cup {Re!Row(u, n)}
        BY <2>4 DEF Re!Insert
      <3> QED BY <2>1, <3>1, ReactionDone
    <2> QED BY <1>6, <2>2, <2>3, <2>4
  <1>7. ASSUME NEW u \in Users, NEW n \in Events, Re!Throw(u, n)
        PROVE  ReactionInv'
    <2>1. /\ reAlive /\ reAt[u][n] \in {"fetch", "connect", "look", "insert"}
          /\ reFaults' \in 0 .. MaxFaults
          /\ UNCHANGED <<reNow, reDb, reLast, reStamp, reRows, reNamed>>
      BY <1>1, <1>7 DEF Re!Throw, Re!Running
    <2>4. n <= reLast'[u] /\ \A v \in Users : reLast'[v] >= reLast[v]
      BY <1>1, <1>2, <2>1
    <2>2. CASE reAt[u][n] = "connect" /\ n \notin Re!Added
      <3>1. reAlive' = FALSE /\ UNCHANGED reAt
        BY <1>7, <2>2 DEF Re!Throw
      <3>2. Re!Survives'
        BY <2>2, <3>1 DEF Re!Survives, Events
      <3>3. ReactionTypes'
        BY <2>1, <3>1 DEF ReactionInv, ReactionTypes
      <3>4. RowsTellOfEvents' /\ IdsAreUnique' /\ RemovalsHaveNoStamp' /\ LaterAreNew'
        BY <2>1, <3>1 DEF ReactionInv, RowsTellOfEvents, IdsAreUnique, RemovalsHaveNoStamp,
                          LaterAreNew, Re!Id
      <3>5. DoneAreHeld'
        BY <2>1, <3>1 DEF ReactionInv, DoneAreHeld, Re!Id, Re!Row
      <3> QED BY <3>2, <3>3, <3>4, <3>5 DEF ReactionInv
    <2>3. CASE ~(reAt[u][n] = "connect" /\ n \notin Re!Added)
      <3>1. Re!Go(u, n, "lost") /\ UNCHANGED reAlive
        BY <1>7, <2>3 DEF Re!Throw
      <3> QED BY <1>1, <1>2, <2>1, <2>4, <3>1, ReactionGo DEF ReactionPlaces
    <2> QED BY <2>2, <2>3
  <1> QED BY <1>3, <1>4, <1>5, <1>6, <1>7 DEF Re!Next, Re!Step, Events

LEMMA ReactionSpec ==
    ASSUME Re!ReactionsAssumption
    PROVE  Re!Init /\ [][Re!Next]_Re!vars => []ReactionInv
  <1>1. Re!Init => ReactionInv
    <2> SUFFICES ASSUME Re!Init PROVE ReactionInv
      OBVIOUS
    <2>1. /\ reAlive = TRUE /\ reNow = 0 /\ reFaults = 0 /\ reRows = {} /\ reNamed = {}
          /\ reLast = [u \in Users |-> 0]
          /\ reAt = [u \in Users |-> [n \in Events |-> "new"]]
          /\ reStamp = [u \in Users |-> [n \in Events |-> 0]]
      BY DEF Re!Init, Events
    <2>2. 0 \in 0 .. MaxTime /\ 0 \in 0 .. MaxEvents /\ 0 \in 0 .. MaxFaults
      BY DEF Re!ReactionsAssumption
    <2>3. ReactionTypes
      BY <2>1, <2>2 DEF ReactionTypes, ReactionPlaces
    <2>4. LaterAreNew
      BY <2>1 DEF LaterAreNew
    <2> QED BY <2>1, <2>3, <2>4
            DEF ReactionInv, RowsTellOfEvents, IdsAreUnique, RemovalsHaveNoStamp, DoneAreHeld,
                Re!Survives
  <1>2. ReactionInv /\ [Re!Next]_Re!vars => ReactionInv'
    <2>1. ASSUME ReactionInv, UNCHANGED Re!vars PROVE ReactionInv'
      BY <2>1 DEF Re!vars, ReactionInv, ReactionTypes, RowsTellOfEvents, IdsAreUnique,
                  RemovalsHaveNoStamp, DoneAreHeld, LaterAreNew, Re!Survives, Re!Id, Re!Row
    <2> QED BY <2>1, ReactionNext
  <1> QED BY <1>1, <1>2, PTL

LEMMA HeldReactions == ASSUME ReactionInv PROVE Re!Remembered
  <1>1. ASSUME NEW u \in Users, NEW n \in Events, reAt[u][n] = "done"
        PROVE  \E row \in reRows :
                   /\ row.user = u /\ row.kind = Re!Kind(n)
                   /\ n \in Re!Added => row.event = n \/ reStamp[u][row.event] = reStamp[u][n]
    <2>1. PICK row \in reRows : Re!Id(row) = Re!Id(Re!Row(u, n))
      BY <1>1 DEF ReactionInv, DoneAreHeld
    <2>2. row.user = u /\ row.kind = Re!Kind(n) /\ row.stamp = reStamp[u][n]
      BY <2>1, RowOfEvent DEF ReactionInv, Re!Id
    <2>3. row.stamp = reStamp[row.user][row.event]
      BY DEF ReactionInv, RowsTellOfEvents
    <2> QED BY <2>2, <2>3
  <1>2. ASSUME NEW r \in reRows, NEW s \in reRows, r.kind = "removed", s.kind = "removed",
               r.user = s.user
        PROVE  r = s
    <2>1. \A row \in {r, s} : row.stamp = 0
      <3> SUFFICES ASSUME NEW row \in {r, s} PROVE row.stamp = 0
        OBVIOUS
      <3>1. row.user \in Users /\ row.event \in Events
        BY DEF ReactionInv, ReactionTypes, ReactionRows
      <3>2. row.kind = Re!Kind(row.event) /\ row.stamp = reStamp[row.user][row.event]
        BY DEF ReactionInv, RowsTellOfEvents
      <3>3. row.event \notin Re!Added
        BY <1>2, <3>2 DEF Re!Kind
      <3> QED BY <3>1, <3>2, <3>3 DEF ReactionInv, RemovalsHaveNoStamp
    <2>2. Re!Id(r) = Re!Id(s)
      BY <1>2, <2>1 DEF Re!Id
    <2> QED BY <2>2 DEF ReactionInv, IdsAreUnique
  <1> QED BY <1>1, <1>2 DEF Re!Remembered, Events

(* However the handlers of any number of reactions interleave, an addition *)
(* that was handled is held, and of a user's removals one.                 *)
THEOREM ReactionsAreRemembered ==
    ASSUME Re!ReactionsAssumption
    PROVE  Re!Spec => []Re!Remembered
  <1> QED BY ReactionSpec, HeldReactions, PTL DEF Re!Spec

----------------------------------------------------------------------------
(* Farcaster.  The mention that is answered is in the memories, and of the *)
(* answer's casts those that were stored are there too.                    *)
CastRecords == [to : Mentions \cup {Fa!NewAnswer.to}, chunks : Nat, sent : Seq(Nat), saved : Nat]
CastRows == [cast : Nat, to : Mentions, after : Nat]

FarcasterTypes ==
    /\ Fa!TypeOK
    /\ faAnswer \in CastRecords /\ faRows \subseteq CastRows

AnsweredMention ==
    /\ faAt \in {"thread", "parent", "decide", "send", "store", "act"} =>
           faAnswer.to \in faMentions
    /\ faAt \in {"parent", "decide", "send", "store", "act"} => faAnswer.to \in faKnown
    /\ faAt \in {"decide", "send", "store", "act"} => faAnswer.to \notin faMute

AnsweringCasts ==
    /\ faAt \in {"thread", "parent", "decide"} => faAnswer.sent = <<>> /\ faAnswer.saved = 0
    /\ faAt = "send" => faAnswer.saved = 0 /\ Len(faAnswer.sent) < faAnswer.chunks
    /\ faAt = "store" =>
           Len(faAnswer.sent) = faAnswer.chunks /\ faAnswer.saved < faAnswer.chunks
    /\ \A i \in 1 .. faAnswer.saved :
           \E row \in faRows : row.cast = faAnswer.sent[i] /\ row.to = faAnswer.to

FarcasterInv ==
    FarcasterTypes /\ AnsweredMention /\ AnsweringCasts /\ Fa!AnswersResolve

LEMMA NewCasts ==
    /\ Fa!NewAnswer \in CastRecords /\ Fa!NewAnswer.sent = <<>> /\ Fa!NewAnswer.saved = 0
    /\ Fa!NewAnswer.chunks = 0 /\ Len(Fa!NewAnswer.sent) = 0
    /\ \A m : /\ [Fa!NewAnswer EXCEPT !.to = m].to = m
              /\ [Fa!NewAnswer EXCEPT !.to = m].sent = <<>>
              /\ [Fa!NewAnswer EXCEPT !.to = m].saved = 0
              /\ [Fa!NewAnswer EXCEPT !.to = m].chunks = 0
              /\ m \in Mentions => [Fa!NewAnswer EXCEPT !.to = m] \in CastRecords
  <1>1. <<>> \in Seq(Nat) /\ Len(<<>>) = 0
    OBVIOUS
  <1> QED BY <1>1 DEF Fa!NewAnswer, CastRecords

LEMMA FarcasterFacts ==
    ASSUME Fa!FarcasterAssumption, FarcasterInv
    PROVE  /\ MaxCasts \in Nat /\ MaxChunks \in Nat \ {0} /\ MaxFarcasterFaults \in Nat
           /\ faMentions \subseteq Mentions /\ faMute \subseteq Mentions
           /\ faTodo \subseteq faMentions /\ faKnown \subseteq faMentions
           /\ faCasts \in 0 .. MaxCasts /\ faFaults \in 0 .. MaxFarcasterFaults
           /\ faAnswer.sent \in Seq(Nat) /\ Len(faAnswer.sent) \in Nat
           /\ faAnswer.saved \in Nat /\ faAnswer.chunks \in Nat
           /\ faAnswer.saved <= Len(faAnswer.sent) /\ Len(faAnswer.sent) <= faAnswer.chunks
           /\ faAnswer \in CastRecords /\ faRows \subseteq CastRows
  BY DEF FarcasterInv, FarcasterTypes, Fa!TypeOK, Fa!FarcasterAssumption, CastRecords

(* The answer is over, or has not begun. *)
LEMMA FarcasterRests ==
    ASSUME Fa!FarcasterAssumption, FarcasterInv, faAnswer' = Fa!NewAnswer,
           faAt' \in {"timer", "fetch", "next", "stopped"},
           faPosting' \in {"timer", "write"}, faTodo' \subseteq faMentions,
           faFaults' \in 0 .. MaxFarcasterFaults,
           UNCHANGED <<faMentions, faMute, faCasts, faKnown, faRows>>
    PROVE  FarcasterInv'
  <1>1. faAnswer'.saved = 0 /\ Len(faAnswer'.sent) = 0 /\ faAnswer'.chunks = 0
    BY NewCasts
  <1>2. Fa!TypeOK'
    BY <1>1, FarcasterFacts DEF Fa!TypeOK
  <1>3. FarcasterTypes'
    BY <1>2, NewCasts, FarcasterFacts DEF FarcasterTypes, CastRecords, CastRows
  <1>4. AnsweredMention' /\ AnsweringCasts'
    BY <1>1 DEF AnsweredMention, AnsweringCasts
  <1> QED BY <1>3, <1>4 DEF FarcasterInv, Fa!AnswersResolve

LEMMA FarcasterPosts ==
    ASSUME Fa!FarcasterAssumption, FarcasterInv, Fa!Mention \/ Fa!PostStep
    PROVE  FarcasterInv'
  <1>1. /\ UNCHANGED <<faMute, faAt, faTodo, faAnswer, faCasts, faKnown, faRows, faFaults>>
        /\ faMentions \subseteq faMentions' /\ faMentions' \subseteq Mentions
        /\ faPosting' \in {"timer", "write", "store"}
    BY FarcasterFacts
       DEF FarcasterInv, FarcasterTypes, Fa!TypeOK, Fa!Mention, Fa!PostStep, Fa!PostDue, Fa!EndPost
  <1>2. Fa!TypeOK'
    BY <1>1 DEF FarcasterInv, FarcasterTypes, Fa!TypeOK
  <1>3. FarcasterTypes'
    BY <1>1, <1>2 DEF FarcasterInv, FarcasterTypes
  <1>4. AnsweredMention'
    BY <1>1 DEF FarcasterInv, AnsweredMention
  <1>5. AnsweringCasts'
    BY <1>1 DEF FarcasterInv, AnsweringCasts
  <1> QED BY <1>1, <1>3, <1>4, <1>5 DEF FarcasterInv, Fa!AnswersResolve

(* From the mention to what the model answers. *)
LEMMA FarcasterReads ==
    ASSUME Fa!FarcasterAssumption, FarcasterInv,
           Fa!TakeMention \/ Fa!BuildThread \/ Fa!GetParent \/ Fa!Decide
    PROVE  FarcasterInv'
  <1>1. /\ UNCHANGED <<faMentions, faMute, faCasts, faRows, faPosting, faFaults>>
        /\ faPosting \in {"timer", "write", "store"} /\ faTodo' \subseteq faMentions
    BY FarcasterFacts
       DEF Fa!TakeMention, Fa!BuildThread, Fa!GetParent, Fa!Decide, FarcasterInv, FarcasterTypes,
           Fa!TypeOK
  <1>2. ASSUME faAnswer'.sent = <<>>, faAnswer'.saved = 0, faAnswer' \in CastRecords,
               faAnswer'.chunks \in Nat, faKnown' \subseteq faMentions, faKnown \subseteq faKnown',
               faAt' \in {"timer", "next", "thread", "parent", "decide", "send"},
               faAt' \in {"thread", "parent", "decide", "send"} => faAnswer'.to \in faMentions,
               faAt' \in {"parent", "decide", "send"} => faAnswer'.to \in faKnown',
               faAt' \in {"decide", "send"} => faAnswer'.to \notin faMute,
               faAt' = "send" => faAnswer'.chunks > 0
        PROVE  FarcasterInv'
    <2>1. Len(faAnswer'.sent) = 0
      BY <1>2
    <2>2. Fa!TypeOK'
      BY <1>1, <1>2, <2>1, FarcasterFacts DEF Fa!TypeOK
    <2>3. FarcasterTypes'
      BY <1>1, <1>2, <2>2, FarcasterFacts DEF FarcasterTypes, CastRecords, CastRows
    <2>4. AnsweredMention'
      BY <1>1, <1>2 DEF AnsweredMention
    <2>5. AnsweringCasts'
      BY <1>1, <1>2, <2>1 DEF AnsweringCasts
    <2>6. Fa!AnswersResolve'
      BY <1>1, <1>2 DEF FarcasterInv, Fa!AnswersResolve
    <2> QED BY <2>3, <2>4, <2>5, <2>6 DEF FarcasterInv
  <1>3. CASE Fa!TakeMention /\ faTodo = {}
    <2>1. /\ faAt' = "timer" /\ faAnswer' = faAnswer /\ faTodo' = faTodo /\ faKnown' = faKnown
          /\ faAt = "next"
      BY <1>3 DEF Fa!TakeMention
    <2>2. /\ Fa!TypeOK' /\ FarcasterTypes'
      BY <1>1, <2>1, FarcasterFacts DEF Fa!TypeOK, FarcasterTypes, FarcasterInv
    <2>3. AnsweredMention' /\ AnsweringCasts' /\ Fa!AnswersResolve'
      BY <1>1, <2>1 DEF FarcasterInv, AnsweredMention, AnsweringCasts, Fa!AnswersResolve
    <2> QED BY <2>2, <2>3 DEF FarcasterInv
  <1>4. CASE Fa!TakeMention /\ faTodo # {}
    <2>1. PICK m \in faTodo : /\ faTodo' = faTodo \ {m} /\ faAt' = "thread"
                              /\ faAnswer' = [Fa!NewAnswer EXCEPT !.to = m]
      BY <1>4 DEF Fa!TakeMention
    <2>2. /\ faAnswer'.to = m /\ faAnswer'.sent = <<>> /\ faAnswer'.saved = 0
          /\ faAnswer'.chunks = 0 /\ faAnswer' \in CastRecords /\ m \in faMentions
          /\ faKnown' = faKnown
      BY <1>4, <2>1, NewCasts, FarcasterFacts DEF Fa!TakeMention
    <2> QED BY <1>2, <2>1, <2>2, FarcasterFacts
  <1>5. CASE Fa!BuildThread
    <2>1. /\ faAt = "thread" /\ faAt' = "parent" /\ faKnown' = faKnown \cup {faAnswer.to}
          /\ faAnswer' = faAnswer
      BY <1>5 DEF Fa!BuildThread
    <2>2. faAnswer.to \in faMentions /\ faAnswer.sent = <<>> /\ faAnswer.saved = 0
      BY <2>1 DEF FarcasterInv, AnsweredMention, AnsweringCasts
    <2> QED BY <1>2, <2>1, <2>2, FarcasterFacts
  <1>6. CASE Fa!GetParent
    <2>1. faAt = "parent" /\ faKnown' = faKnown
      BY <1>6 DEF Fa!GetParent
    <2>2. /\ faAnswer.to \in faMentions /\ faAnswer.to \in faKnown
          /\ faAnswer.sent = <<>> /\ faAnswer.saved = 0
      BY <2>1 DEF FarcasterInv, AnsweredMention, AnsweringCasts
    <2>3. CASE faAnswer.to \in faMute
      <3>1. faAt' = "next" /\ faAnswer' = Fa!NewAnswer
        BY <1>6, <2>3 DEF Fa!GetParent, Fa!End
      <3> QED BY <1>2, <2>1, <3>1, NewCasts, FarcasterFacts
    <2>4. CASE faAnswer.to \notin faMute
      <3>1. faAt' = "decide" /\ faAnswer' = faAnswer
        BY <1>6, <2>4 DEF Fa!GetParent
      <3> QED BY <1>2, <2>1, <2>2, <2>4, <3>1, FarcasterFacts
    <2> QED BY <2>3, <2>4
  <1>7. CASE Fa!Decide
    <2>1. faAt = "decide" /\ faKnown' = faKnown
      BY <1>7 DEF Fa!Decide
    <2>2. /\ faAnswer.to \in faMentions /\ faAnswer.to \in faKnown /\ faAnswer.to \notin faMute
          /\ faAnswer.sent = <<>> /\ faAnswer.saved = 0
      BY <2>1 DEF FarcasterInv, AnsweredMention, AnsweringCasts
    <2>3. CASE Fa!End("next")
      <3>1. faAt' = "next" /\ faAnswer' = Fa!NewAnswer
        BY <2>3 DEF Fa!End
      <3> QED BY <1>2, <2>1, <3>1, NewCasts, FarcasterFacts
    <2>4. ASSUME faAt' = "send", NEW n \in 1 .. MaxChunks,
                 faAnswer' = [faAnswer EXCEPT !.chunks = n]
          PROVE  FarcasterInv'
      <3>1. n \in Nat /\ n > 0
        BY FarcasterFacts
      <3>2. /\ faAnswer' \in CastRecords /\ faAnswer'.to = faAnswer.to /\ faAnswer'.chunks = n
            /\ faAnswer'.sent = faAnswer.sent /\ faAnswer'.saved = faAnswer.saved
        BY <2>4, <3>1, FarcasterFacts DEF CastRecords
      <3> QED BY <1>2, <2>1, <2>2, <2>4, <3>1, <3>2, FarcasterFacts
    <2> QED BY <1>7, <2>3, <2>4 DEF Fa!Decide
  <1> QED BY <1>3, <1>4, <1>5, <1>6, <1>7

(* A cast is sent, and is not in the memories yet. *)
LEMMA FarcasterSends ==
    ASSUME Fa!FarcasterAssumption, FarcasterInv, Fa!SendCast
    PROVE  FarcasterInv'
  <1> DEFINE more == [faAnswer EXCEPT !.sent = Append(faAnswer.sent, faCasts + 1)]
  <1>1. /\ faAt = "send" /\ faCasts < MaxCasts /\ faCasts' = faCasts + 1
        /\ faAnswer' = more
        /\ UNCHANGED <<faMentions, faMute, faTodo, faKnown, faRows, faPosting, faFaults>>
    BY DEF Fa!SendCast
  <1>2. /\ faAt' \in {"store", "send"}
        /\ faAt' = "store" <=> Len(faAnswer.sent) + 1 = faAnswer.chunks
    BY DEF Fa!SendCast
  <1>3. faAnswer.saved = 0 /\ Len(faAnswer.sent) < faAnswer.chunks
    BY <1>1 DEF FarcasterInv, AnsweringCasts
  <1>4. /\ faCasts' \in 0 .. MaxCasts /\ Append(faAnswer.sent, faCasts + 1) \in Seq(Nat)
        /\ Len(Append(faAnswer.sent, faCasts + 1)) = Len(faAnswer.sent) + 1
    BY <1>1, FarcasterFacts
  <1>5. /\ more \in CastRecords /\ more.to = faAnswer.to /\ more.chunks = faAnswer.chunks
        /\ more.saved = faAnswer.saved /\ Len(more.sent) = Len(faAnswer.sent) + 1
    BY <1>4, FarcasterFacts DEF CastRecords
  <1> HIDE DEF more
  <1>6. Fa!TypeOK'
    BY <1>1, <1>2, <1>3, <1>4, <1>5, FarcasterFacts
       DEF Fa!TypeOK, FarcasterInv, FarcasterTypes
  <1>7. FarcasterTypes'
    BY <1>1, <1>5, <1>6, FarcasterFacts DEF FarcasterTypes, CastRecords, CastRows
  <1>8. AnsweredMention'
    BY <1>1, <1>2, <1>5 DEF FarcasterInv, AnsweredMention
  <1>9. AnsweringCasts'
    BY <1>1, <1>2, <1>3, <1>5, FarcasterFacts DEF AnsweringCasts
  <1> QED BY <1>1, <1>7, <1>8, <1>9 DEF FarcasterInv, Fa!AnswersResolve

LEMMA FarcasterStores ==
    ASSUME Fa!FarcasterAssumption, FarcasterInv, Fa!Store
    PROVE  FarcasterInv'
  <1> DEFINE i == faAnswer.saved + 1
             row == [cast |-> faAnswer.sent[i], to |-> faAnswer.to,
                     after |-> IF i = 1 THEN 0 ELSE faAnswer.sent[i - 1]]
             more == [faAnswer EXCEPT !.saved = faAnswer.saved + 1]
  <1>1. /\ faAt = "store" /\ faRows' = faRows \cup {row} /\ faAnswer' = more
        /\ UNCHANGED <<faMentions, faMute, faTodo, faCasts, faKnown, faPosting, faFaults>>
    BY DEF Fa!Store
  <1>2. /\ faAt' \in {"act", "store"}
        /\ faAt' = "act" <=> faAnswer.saved + 1 = faAnswer.chunks
    BY DEF Fa!Store
  <1>3. /\ Len(faAnswer.sent) = faAnswer.chunks /\ faAnswer.saved < faAnswer.chunks
        /\ \A k \in 1 .. faAnswer.saved :
               \E r \in faRows : r.cast = faAnswer.sent[k] /\ r.to = faAnswer.to
        /\ faAnswer.to \in faMentions /\ faAnswer.to \in faKnown /\ faAnswer.to \notin faMute
    BY <1>1 DEF FarcasterInv, AnsweringCasts, AnsweredMention
  <1>4. i \in 1 .. Len(faAnswer.sent) /\ (i # 1 => i - 1 \in 1 .. faAnswer.saved)
    BY <1>3, FarcasterFacts
  <1>5. faAnswer.sent[i] \in Nat /\ (i # 1 => faAnswer.sent[i - 1] \in Nat)
    <2>1. \A k \in 1 .. Len(faAnswer.sent) : faAnswer.sent[k] \in Nat
      BY FarcasterFacts, ElementOfSeq
    <2>2. i # 1 => i - 1 \in 1 .. Len(faAnswer.sent)
      BY <1>3, <1>4, FarcasterFacts
    <2> QED BY <1>4, <2>1, <2>2
  <1>6. /\ row.cast = faAnswer.sent[i] /\ row.to = faAnswer.to /\ row \in CastRows
        /\ row.after # 0 => \E r \in faRows : r.cast = row.after /\ r.to = row.to
    <2>1. faAnswer.to \in Mentions
      BY <1>3, FarcasterFacts
    <2>2. CASE i = 1
      <3>1. row.after = 0
        BY <2>2
      <3> QED BY <1>5, <2>1, <3>1 DEF CastRows
    <2>3. CASE i # 1
      <3>1. row.after = faAnswer.sent[i - 1]
        BY <2>3
      <3>2. \E r \in faRows : r.cast = faAnswer.sent[i - 1] /\ r.to = faAnswer.to
        BY <1>3, <1>4, <2>3
      <3> QED BY <1>5, <2>1, <2>3, <3>1, <3>2 DEF CastRows
    <2> QED BY <2>2, <2>3
  <1>7. /\ more \in CastRecords /\ more.to = faAnswer.to /\ more.chunks = faAnswer.chunks
        /\ more.saved = i /\ more.sent = faAnswer.sent
    <2>1. faAnswer \in CastRecords /\ faAnswer.saved + 1 \in Nat
      BY FarcasterFacts
    <2> QED BY <2>1 DEF CastRecords
  <1>8. i \in Nat /\ i = faAnswer.saved + 1 /\ i <= Len(faAnswer.sent)
    BY <1>4, FarcasterFacts
  <1> HIDE DEF more, row, i
  <1>9. Fa!TypeOK'
    BY <1>1, <1>2, <1>3, <1>7, <1>8, FarcasterFacts DEF Fa!TypeOK, FarcasterInv, FarcasterTypes
  <1>10. FarcasterTypes'
    BY <1>1, <1>6, <1>7, <1>9, FarcasterFacts DEF FarcasterTypes, CastRecords, CastRows
  <1>11. AnsweredMention'
    BY <1>1, <1>2, <1>3, <1>7 DEF AnsweredMention
  <1>12. \A k \in 1 .. i : \E r \in faRows' : r.cast = faAnswer.sent[k] /\ r.to = faAnswer.to
    <2> SUFFICES ASSUME NEW k \in 1 .. i
                 PROVE  \E r \in faRows' : r.cast = faAnswer.sent[k] /\ r.to = faAnswer.to
      OBVIOUS
    <2>1. k = i \/ k \in 1 .. faAnswer.saved
      BY <1>8, FarcasterFacts
    <2> QED BY <1>1, <1>3, <1>6, <2>1
  <1>13. AnsweringCasts'
    BY <1>1, <1>2, <1>3, <1>7, <1>8, <1>12, FarcasterFacts DEF AnsweringCasts
  <1>14. Fa!AnswersResolve'
    BY <1>1, <1>3, <1>6 DEF FarcasterInv, Fa!AnswersResolve
  <1> QED BY <1>10, <1>11, <1>13, <1>14 DEF FarcasterInv

LEMMA FarcasterNext ==
    ASSUME Fa!FarcasterAssumption, FarcasterInv, Fa!Next
    PROVE  FarcasterInv'
  <1>1. Fa!Fault => faFaults' \in 0 .. MaxFarcasterFaults
    BY FarcasterFacts DEF Fa!Fault
  <1>2. CASE Fa!Restart
    BY <1>1, <1>2, FarcasterRests DEF Fa!Restart, Fa!Starts
  <1>3. CASE Fa!Poll \/ Fa!GetMentions
    <2>1. /\ faAt \in {"timer", "fetch"} /\ faAt' \in {"fetch", "next"}
          /\ faTodo' \subseteq faMentions
          /\ UNCHANGED <<faMentions, faMute, faAnswer, faCasts, faKnown, faRows, faPosting,
                         faFaults>>
      BY <1>3, FarcasterFacts DEF Fa!Poll, Fa!GetMentions
    <2>2. Fa!TypeOK' /\ FarcasterTypes'
      BY <2>1 DEF FarcasterInv, FarcasterTypes, Fa!TypeOK
    <2>3. AnsweredMention' /\ AnsweringCasts' /\ Fa!AnswersResolve'
      BY <2>1 DEF FarcasterInv, AnsweredMention, AnsweringCasts, Fa!AnswersResolve
    <2> QED BY <2>2, <2>3 DEF FarcasterInv
  <1>4. CASE Fa!Act \/ Fa!Fails
    <2>1. /\ faAnswer' = Fa!NewAnswer /\ faAt' \in {"next", "stopped"}
          /\ UNCHANGED <<faMentions, faMute, faCasts, faKnown, faRows, faPosting>>
      BY <1>4 DEF Fa!Act, Fa!Fails, Fa!End
    <2>2. faTodo' \subseteq faMentions /\ faFaults' \in 0 .. MaxFarcasterFaults
      BY <1>1, <1>4, FarcasterFacts DEF Fa!Act, Fa!Fails
    <2>3. Fa!TypeOK'
      BY <2>1, <2>2, NewCasts, FarcasterFacts DEF Fa!TypeOK, FarcasterInv, FarcasterTypes
    <2>4. FarcasterTypes'
      BY <2>1, <2>3, NewCasts, FarcasterFacts DEF FarcasterTypes, CastRecords, CastRows
    <2>5. AnsweredMention' /\ AnsweringCasts' /\ Fa!AnswersResolve'
      BY <2>1, NewCasts DEF FarcasterInv, AnsweredMention, AnsweringCasts, Fa!AnswersResolve
    <2> QED BY <2>4, <2>5 DEF FarcasterInv
  <1> QED BY <1>2, <1>3, <1>4, FarcasterPosts, FarcasterReads, FarcasterSends, FarcasterStores
          DEF Fa!Next, Fa!MentionStep

LEMMA FarcasterSpec ==
    ASSUME Fa!FarcasterAssumption
    PROVE  Fa!Init /\ [][Fa!Next]_Fa!vars => []FarcasterInv
  <1>1. Fa!Init => FarcasterInv
    <2> SUFFICES ASSUME Fa!Init PROVE FarcasterInv
      OBVIOUS
    <2>1. Fa!TypeOK
      BY NewCasts DEF Fa!Init, Fa!TypeOK, Fa!FarcasterAssumption
    <2>2. FarcasterTypes
      BY <2>1, NewCasts DEF Fa!Init, FarcasterTypes
    <2>3. AnsweredMention /\ AnsweringCasts /\ Fa!AnswersResolve
      BY NewCasts DEF Fa!Init, AnsweredMention, AnsweringCasts, Fa!AnswersResolve
    <2> QED BY <2>2, <2>3 DEF FarcasterInv
  <1>2. FarcasterInv /\ [Fa!Next]_Fa!vars => FarcasterInv'
    <2>1. ASSUME FarcasterInv, UNCHANGED Fa!vars PROVE FarcasterInv'
      BY <2>1 DEF Fa!vars, FarcasterInv, FarcasterTypes, AnsweredMention, AnsweringCasts,
                  Fa!AnswersResolve, Fa!TypeOK
    <2> QED BY <2>1, FarcasterNext
  <1> QED BY <1>1, <1>2, PTL

(* However often the mentions are answered and whatever is lost of it: an  *)
(* answer in the memories has before it the mention and what it continues. *)
THEOREM AnswersHaveTheirThread ==
    ASSUME Fa!FarcasterAssumption
    PROVE  Fa!Spec => []Fa!AnswersResolve
  <1>1. FarcasterInv => Fa!AnswersResolve
    BY DEF FarcasterInv
  <1> QED BY <1>1, FarcasterSpec, PTL DEF Fa!Spec

----------------------------------------------------------------------------
(* Attachments.  Whatever is found in the files of a millisecond is of an  *)
(* attachment whose job was given that millisecond; and an input file is   *)
(* that of a job that still waits for ffmpeg.                              *)
AttachPlaces == {"new", "fetch", "video", "extract", "describe", "done", "failed"}
RunPlaces == {"none", "spawned", "reading", "writing", "ended"}
UrlTexts == [of : An!Urls, whole : BOOLEAN]
Outputs == [by : Attached \X An!Runs, content : UrlTexts]

HasBegun(j) == anAt[j] \notin {"new", "fetch"}
IsOf(t, u) == \E k \in Attached : HasBegun(k) /\ anStamp[k] = t /\ anUrl[k] = u

AttachTypes ==
    /\ anNow \in An!Times /\ anFaults \in 0 .. MaxFaults
    /\ anUrl \in [Attached -> An!Urls] /\ anStamp \in [Attached -> An!Times]
    /\ anCache \in [An!Urls -> An!Texts] /\ anText \in [Attached -> An!Texts]
    /\ anAt \in [Attached -> AttachPlaces]
    /\ anRun \in [Attached -> [An!Runs -> RunPlaces]]
    /\ anSource \in [Attached -> [An!Runs -> An!Texts]]
    /\ anMp4 \in [An!Times -> {An!Nothing} \cup UrlTexts]
    /\ anMp3 \in [An!Times -> {An!NoFile} \cup Outputs]

RunsReadOwn ==
    \A j \in Attached, p \in An!Runs :
        /\ anAt[j] \in {"new", "fetch", "video"} => anRun[j][p] = "none"
        /\ anRun[j][p] \in {"reading", "writing"} =>
               anSource[j][p] \in UrlTexts /\ IsOf(anStamp[j], anSource[j][p].of)

InputsAreOwn ==
    \A t \in An!Times : anMp4[t] # An!Nothing =>
        /\ IsOf(t, anMp4[t].of)
        /\ \E k \in Attached : anAt[k] = "extract" /\ anStamp[k] = t

OutputsAreOwn == \A t \in An!Times : anMp3[t] # An!NoFile => IsOf(t, anMp3[t].content.of)

TextsAreOwn ==
    \A j \in Attached :
        /\ anAt[j] = "extract" => anUrl[j] \in Mp4s
        /\ anAt[j] = "describe" =>
               /\ anText[j] \in UrlTexts /\ IsOf(anStamp[j], anText[j].of)
               /\ anUrl[j] \notin Mp4s => anText[j] = An!Text(anUrl[j], TRUE)

KeptTextsAreOwn ==
    \A u \in An!Urls : anCache[u].of \in An!Urls \ {u} =>
        \E t \in An!Times : IsOf(t, u) /\ IsOf(t, anCache[u].of)

AttachInv ==
    /\ AttachTypes /\ RunsReadOwn /\ InputsAreOwn /\ OutputsAreOwn /\ TextsAreOwn
    /\ KeptTextsAreOwn /\ An!OthersAreWhole

LEMMA TextsAre ==
    ASSUME An!AttachmentsAssumption
    PROVE  /\ An!Texts = {An!Nothing, An!Failure} \cup UrlTexts
           /\ \A u \in An!Urls, b \in BOOLEAN :
                  /\ An!Text(u, b) \in UrlTexts
                  /\ An!Text(u, b).of = u /\ An!Text(u, b).whole = b
           /\ An!Nothing \notin UrlTexts /\ An!Failure \notin UrlTexts
           /\ An!Nothing.of \notin An!Urls /\ An!Failure.of \notin An!Urls
           /\ An!NoFile.content = An!Nothing /\ An!NoFile \notin Outputs
           /\ An!Failure # An!Nothing
  <1>1. {An!Text(u, b) : u \in An!Urls, b \in BOOLEAN} = UrlTexts
    <2>1. ASSUME NEW t \in UrlTexts
          PROVE  \E u \in An!Urls, b \in BOOLEAN : t = An!Text(u, b)
      <3>1. t = An!Text(t.of, t.whole) /\ t.of \in An!Urls /\ t.whole \in BOOLEAN
        BY DEF UrlTexts, An!Text
      <3> QED BY <3>1
    <2>2. \A u \in An!Urls, b \in BOOLEAN : An!Text(u, b) \in UrlTexts
      BY DEF UrlTexts, An!Text
    <2> QED BY <2>1, <2>2
  <1>2. "nothing" \notin An!Urls /\ "failure" \notin An!Urls
    BY DEF An!AttachmentsAssumption, An!Urls
  <1>3. An!NoFile \notin Outputs
    <2>1. An!NoFile.content.of = "nothing"
      BY DEF An!NoFile, An!Nothing
    <2> QED BY <1>2, <2>1 DEF Outputs, UrlTexts
  <1>4. An!Texts = {An!Nothing, An!Failure} \cup UrlTexts
    BY <1>1 DEF An!Texts
  <1>5. \A u \in An!Urls, b \in BOOLEAN :
            An!Text(u, b) \in UrlTexts /\ An!Text(u, b).of = u /\ An!Text(u, b).whole = b
    BY DEF UrlTexts, An!Text
  <1>6. An!Nothing.of = "nothing" /\ An!Failure.of = "failure"
    BY DEF An!Nothing, An!Failure
  <1>7. An!Nothing \notin UrlTexts /\ An!Failure \notin UrlTexts
    BY <1>2, <1>6 DEF UrlTexts
  <1>8. An!NoFile.content = An!Nothing
    BY DEF An!NoFile
  <1>9. An!Failure # An!Nothing
    BY <1>6
  <1> QED BY <1>2, <1>3, <1>4, <1>5, <1>6, <1>7, <1>8, <1>9

(* What a file is of, it stays of. *)
LEMMA StaysOf ==
    ASSUME NEW t, NEW u, IsOf(t, u), UNCHANGED anUrl,
           \A k \in Attached : HasBegun(k) => HasBegun(k)' /\ anStamp'[k] = anStamp[k]
    PROVE  IsOf(t, u)'
  BY DEF IsOf

LEMMA AttachFacts ==
    ASSUME An!AttachmentsAssumption, AttachInv
    PROVE  /\ MaxTime \in Nat /\ MaxFaults \in Nat
           /\ anNow \in An!Times /\ anFaults \in 0 .. MaxFaults
           /\ anUrl \in [Attached -> An!Urls] /\ anStamp \in [Attached -> An!Times]
           /\ anCache \in [An!Urls -> An!Texts] /\ anText \in [Attached -> An!Texts]
           /\ anAt \in [Attached -> AttachPlaces]
           /\ anRun \in [Attached -> [An!Runs -> RunPlaces]]
           /\ anSource \in [Attached -> [An!Runs -> An!Texts]]
           /\ anMp4 \in [An!Times -> {An!Nothing} \cup UrlTexts]
           /\ anMp3 \in [An!Times -> {An!NoFile} \cup Outputs]
           /\ An!Fault => anFaults' \in 0 .. MaxFaults
  BY DEF An!AttachmentsAssumption, AttachInv, AttachTypes, An!Fault

(* A job that looks at no file any more keeps what it has read, or the     *)
(* failure.                                                                *)
LEMMA AttachKeeps ==
    ASSUME An!AttachmentsAssumption, AttachInv, NEW j \in Attached,
           anAt[j] \in {"fetch", "video", "describe", "extract"},
           NEW answer \in An!Texts, An!Keep(j, answer),
           UNCHANGED <<anNow, anUrl, anStamp>>, anFaults' \in 0 .. MaxFaults,
           answer # An!Failure =>
               /\ anAt[j] # "fetch" /\ answer \in UrlTexts
               /\ answer.of # anUrl[j] => IsOf(anStamp[j], answer.of)
               /\ anUrl[j] \notin Mp4s => answer = An!Text(anUrl[j], TRUE),
           anRun' \in [Attached -> [An!Runs -> RunPlaces]],
           anSource' \in [Attached -> [An!Runs -> An!Texts]],
           \A k \in Attached, p \in An!Runs :
               /\ anAt'[k] \in {"new", "fetch", "video"} => anRun'[k][p] = anRun[k][p]
               /\ anRun'[k][p] \in {"reading", "writing"} =>
                      anRun[k][p] = anRun'[k][p] /\ anSource'[k][p] = anSource[k][p],
           \/ UNCHANGED <<anMp4, anMp3>> /\ anAt[j] # "extract"
           \/ /\ anMp4' = [anMp4 EXCEPT ![anStamp[j]] = An!Nothing]
              /\ anMp3' = [anMp3 EXCEPT ![anStamp[j]] = An!NoFile]
    PROVE  AttachInv'
  <1>1. /\ anCache' = [anCache EXCEPT ![anUrl[j]] = answer]
        /\ anText' = [anText EXCEPT ![j] = An!Nothing]
        /\ anAt' = [anAt EXCEPT ![j] = "done"]
    BY DEF An!Keep, An!Go
  <1>2. /\ anAt' \in [Attached -> AttachPlaces] /\ anAt'[j] = "done"
        /\ \A k \in Attached : k # j => anAt'[k] = anAt[k]
        /\ anText' \in [Attached -> An!Texts] /\ anCache' \in [An!Urls -> An!Texts]
        /\ anCache'[anUrl[j]] = answer
        /\ \A u \in An!Urls : u # anUrl[j] => anCache'[u] = anCache[u]
        /\ \A k \in Attached : k # j => anText'[k] = anText[k]
        /\ anUrl[j] \in An!Urls /\ anStamp[j] \in An!Times
    BY <1>1, AttachFacts, TextsAre DEF AttachPlaces
  <1>3. /\ anMp4' \in [An!Times -> {An!Nothing} \cup UrlTexts]
        /\ anMp3' \in [An!Times -> {An!NoFile} \cup Outputs]
        /\ \A t \in An!Times : /\ anMp4'[t] # An!Nothing => anMp4'[t] = anMp4[t]
                               /\ anMp3'[t] # An!NoFile => anMp3'[t] = anMp3[t]
                               /\ anMp4'[t] # An!Nothing =>
                                      anAt[j] # "extract" \/ t # anStamp[j]
    BY <1>2, AttachFacts
  <1>4. \A k \in Attached : HasBegun(k) => HasBegun(k)' /\ anStamp'[k] = anStamp[k]
    BY <1>2 DEF HasBegun
  <1>5. \A t, u : IsOf(t, u) => IsOf(t, u)'
    BY <1>4, StaysOf
  <1>6. AttachTypes'
    BY <1>2, <1>3, AttachFacts DEF AttachTypes
  <1>7. RunsReadOwn'
    <2>1. ASSUME NEW k \in Attached, NEW p \in An!Runs
          PROVE  /\ anAt'[k] \in {"new", "fetch", "video"} => anRun'[k][p] = "none"
                 /\ anRun'[k][p] \in {"reading", "writing"} =>
                        /\ anSource'[k][p] \in UrlTexts
                        /\ IsOf(anStamp[k], anSource[k][p].of)
                        /\ anSource'[k][p].of = anSource[k][p].of
      <3>1. /\ anAt[k] \in {"new", "fetch", "video"} => anRun[k][p] = "none"
            /\ anRun[k][p] \in {"reading", "writing"} =>
                   anSource[k][p] \in UrlTexts /\ IsOf(anStamp[k], anSource[k][p].of)
        BY DEF AttachInv, RunsReadOwn
      <3> QED BY <1>2, <3>1
    <2>2. \A k \in Attached, p \in An!Runs : anRun'[k][p] \in {"reading", "writing"} =>
              \E i \in Attached : HasBegun(i)' /\ anStamp'[i] = anStamp'[k]
                                  /\ anUrl'[i] = anSource'[k][p].of
      BY <1>4, <2>1 DEF IsOf
    <2> QED BY <2>1, <2>2 DEF RunsReadOwn, IsOf
  <1>8. InputsAreOwn'
    <2>1. ASSUME NEW t \in An!Times, anMp4'[t] # An!Nothing
          PROVE  /\ anMp4'[t] = anMp4[t]
                 /\ \E i \in Attached : HasBegun(i)' /\ anStamp'[i] = t /\ anUrl'[i] = anMp4'[t].of
                 /\ \E k \in Attached : anAt'[k] = "extract" /\ anStamp'[k] = t
      <3>1. anMp4'[t] = anMp4[t] /\ (anAt[j] # "extract" \/ t # anStamp[j])
        BY <1>3, <2>1
      <3>2. /\ IsOf(t, anMp4[t].of)
            /\ \E k \in Attached : anAt[k] = "extract" /\ anStamp[k] = t
        BY <2>1, <3>1 DEF AttachInv, InputsAreOwn
      <3>3. PICK i \in Attached : HasBegun(i) /\ anStamp[i] = t /\ anUrl[i] = anMp4[t].of
        BY <3>2 DEF IsOf
      <3>4. HasBegun(i)' /\ anStamp'[i] = t /\ anUrl'[i] = anMp4'[t].of
        BY <1>4, <3>1, <3>3
      <3>5. PICK k \in Attached : anAt[k] = "extract" /\ anStamp[k] = t
        BY <3>2
      <3>6. anAt'[k] = "extract" /\ anStamp'[k] = t
        BY <1>2, <3>1, <3>5
      <3> QED BY <3>1, <3>4, <3>6
    <2> QED BY <2>1 DEF InputsAreOwn, IsOf
  <1>9. OutputsAreOwn'
    <2>1. ASSUME NEW t \in An!Times, anMp3'[t] # An!NoFile
          PROVE  \E i \in Attached : HasBegun(i)' /\ anStamp'[i] = t
                                     /\ anUrl'[i] = anMp3'[t].content.of
      <3>1. anMp3'[t] = anMp3[t]
        BY <1>3, <2>1
      <3>2. IsOf(t, anMp3[t].content.of)
        BY <2>1, <3>1 DEF AttachInv, OutputsAreOwn
      <3>3. PICK i \in Attached : HasBegun(i) /\ anStamp[i] = t
                                  /\ anUrl[i] = anMp3[t].content.of
        BY <3>2 DEF IsOf
      <3> QED BY <1>4, <3>1, <3>3
    <2> QED BY <2>1 DEF OutputsAreOwn, IsOf
  <1>10. TextsAreOwn'
    <2>1. ASSUME NEW k \in Attached
          PROVE  /\ anAt'[k] = "extract" => anUrl'[k] \in Mp4s
                 /\ anAt'[k] = "describe" =>
                        /\ anText'[k] \in UrlTexts
                        /\ \E i \in Attached : HasBegun(i)' /\ anStamp'[i] = anStamp'[k]
                                               /\ anUrl'[i] = anText'[k].of
                        /\ anUrl'[k] \notin Mp4s => anText'[k] = An!Text(anUrl'[k], TRUE)
      <3>1. CASE k = j
        BY <1>2, <3>1
      <3>2. CASE k # j
        <4>1. /\ anAt[k] = "extract" => anUrl[k] \in Mp4s
              /\ anAt[k] = "describe" =>
                     /\ anText[k] \in UrlTexts /\ IsOf(anStamp[k], anText[k].of)
                     /\ anUrl[k] \notin Mp4s => anText[k] = An!Text(anUrl[k], TRUE)
          BY DEF AttachInv, TextsAreOwn
        <4>2. anAt'[k] = anAt[k] /\ anText'[k] = anText[k] /\ anStamp'[k] = anStamp[k]
              /\ anUrl'[k] = anUrl[k]
          BY <1>2, <3>2
        <4>3. anAt[k] = "describe" =>
                  \E i \in Attached : HasBegun(i)' /\ anStamp'[i] = anStamp[k]
                                      /\ anUrl'[i] = anText[k].of
          BY <1>4, <4>1 DEF IsOf
        <4> QED BY <4>1, <4>2, <4>3
      <3> QED BY <3>1, <3>2
    <2> QED BY <2>1 DEF TextsAreOwn, IsOf
  <1>11. KeptTextsAreOwn'
    <2>1. ASSUME NEW u \in An!Urls, anCache'[u].of \in An!Urls \ {u}
          PROVE  \E t \in An!Times :
                     \E i, k \in Attached : /\ HasBegun(i)' /\ anStamp'[i] = t /\ anUrl'[i] = u
                                           /\ HasBegun(k)' /\ anStamp'[k] = t
                                           /\ anUrl'[k] = anCache'[u].of
      <3>1. CASE u = anUrl[j]
        <4>1. answer # An!Failure
          BY <1>2, <2>1, <3>1, TextsAre
        <4>2. IsOf(anStamp[j], answer.of)
          BY <1>2, <2>1, <3>1, <4>1
        <4>3. PICK k \in Attached : HasBegun(k) /\ anStamp[k] = anStamp[j]
                                    /\ anUrl[k] = answer.of
          BY <4>2 DEF IsOf
        <4>4. HasBegun(j)'
          BY <1>2 DEF HasBegun
        <4> QED BY <1>2, <1>4, <3>1, <4>3, <4>4
      <3>2. CASE u # anUrl[j]
        <4>1. anCache'[u] = anCache[u]
          BY <1>2, <3>2
        <4>2. PICK t \in An!Times : IsOf(t, u) /\ IsOf(t, anCache[u].of)
          BY <2>1, <4>1 DEF AttachInv, KeptTextsAreOwn
        <4>3. PICK i \in Attached : HasBegun(i) /\ anStamp[i] = t /\ anUrl[i] = u
          BY <4>2 DEF IsOf
        <4>4. PICK k \in Attached : HasBegun(k) /\ anStamp[k] = t /\ anUrl[k] = anCache[u].of
          BY <4>2 DEF IsOf
        <4> QED BY <1>4, <4>1, <4>3, <4>4
      <3> QED BY <3>1, <3>2
    <2> QED BY <2>1 DEF KeptTextsAreOwn, IsOf
  <1>12. An!OthersAreWhole'
    <2>1. An!OthersAreWhole
      BY DEF AttachInv
    <2> QED BY <1>2, <2>1 DEF An!OthersAreWhole
  <1> QED BY <1>6, <1>7, <1>8, <1>9, <1>10, <1>11, <1>12 DEF AttachInv

WillBeOf(t, u) == \E k \in Attached : HasBegun(k)' /\ anStamp'[k] = t /\ anUrl'[k] = u

(* A job that answers nothing moves on.                                    *)
LEMMA AttachMoves ==
    ASSUME An!AttachmentsAssumption, AttachInv, NEW j \in Attached, AttachTypes',
           UNCHANGED <<anCache, anUrl>>,
           \A k \in Attached : HasBegun(k) => HasBegun(k)' /\ anStamp'[k] = anStamp[k],
           \A k \in Attached \ {j} :
               /\ anAt'[k] = anAt[k] /\ anStamp'[k] = anStamp[k] /\ anText'[k] = anText[k]
               /\ anRun'[k] = anRun[k] /\ anSource'[k] = anSource[k],
           \A p \in An!Runs :
               /\ anAt'[j] \in {"new", "fetch", "video"} => anRun'[j][p] = "none"
               /\ anRun'[j][p] \in {"reading", "writing"} =>
                      anSource'[j][p] \in UrlTexts /\ WillBeOf(anStamp'[j], anSource'[j][p].of),
           anAt'[j] = "extract" => anUrl[j] \in Mp4s,
           anAt'[j] = "describe" =>
               /\ anText'[j] \in UrlTexts /\ WillBeOf(anStamp'[j], anText'[j].of)
               /\ anUrl[j] \notin Mp4s => anText'[j] = An!Text(anUrl[j], TRUE),
           \A t \in An!Times : anMp4'[t] # An!Nothing =>
               /\ WillBeOf(t, anMp4'[t].of)
               /\ \E k \in Attached : anAt'[k] = "extract" /\ anStamp'[k] = t,
           \A t \in An!Times : anMp3'[t] # An!NoFile => WillBeOf(t, anMp3'[t].content.of)
    PROVE  AttachInv'
  <1>1. ASSUME NEW t, NEW u, IsOf(t, u)
        PROVE  WillBeOf(t, u)
    BY <1>1 DEF IsOf, WillBeOf
  <1>2. RunsReadOwn'
    <2>1. ASSUME NEW k \in Attached, NEW p \in An!Runs
          PROVE  /\ anAt'[k] \in {"new", "fetch", "video"} => anRun'[k][p] = "none"
                 /\ anRun'[k][p] \in {"reading", "writing"} =>
                        anSource'[k][p] \in UrlTexts /\ WillBeOf(anStamp'[k], anSource'[k][p].of)
      <3>1. CASE k = j
        BY <3>1
      <3>2. CASE k # j
        <4>1. /\ anAt[k] \in {"new", "fetch", "video"} => anRun[k][p] = "none"
              /\ anRun[k][p] \in {"reading", "writing"} =>
                     anSource[k][p] \in UrlTexts /\ IsOf(anStamp[k], anSource[k][p].of)
          BY DEF AttachInv, RunsReadOwn
        <4> QED BY <1>1, <3>2, <4>1
      <3> QED BY <3>1, <3>2
    <2> QED BY <2>1 DEF RunsReadOwn, IsOf, WillBeOf
  <1>3. InputsAreOwn' /\ OutputsAreOwn'
    BY DEF InputsAreOwn, OutputsAreOwn, IsOf, WillBeOf
  <1>4. TextsAreOwn'
    <2>1. ASSUME NEW k \in Attached
          PROVE  /\ anAt'[k] = "extract" => anUrl'[k] \in Mp4s
                 /\ anAt'[k] = "describe" =>
                        /\ anText'[k] \in UrlTexts /\ WillBeOf(anStamp'[k], anText'[k].of)
                        /\ anUrl'[k] \notin Mp4s => anText'[k] = An!Text(anUrl'[k], TRUE)
      <3>1. CASE k = j
        BY <3>1
      <3>2. CASE k # j
        <4>1. /\ anAt[k] = "extract" => anUrl[k] \in Mp4s
              /\ anAt[k] = "describe" =>
                     /\ anText[k] \in UrlTexts /\ IsOf(anStamp[k], anText[k].of)
                     /\ anUrl[k] \notin Mp4s => anText[k] = An!Text(anUrl[k], TRUE)
          BY DEF AttachInv, TextsAreOwn
        <4> QED BY <1>1, <3>2, <4>1
      <3> QED BY <3>1, <3>2
    <2> QED BY <2>1 DEF TextsAreOwn, IsOf, WillBeOf
  <1>5. KeptTextsAreOwn'
    <2>1. ASSUME NEW u \in An!Urls, anCache'[u].of \in An!Urls \ {u}
          PROVE  \E t \in An!Times : WillBeOf(t, u) /\ WillBeOf(t, anCache'[u].of)
      <3>1. PICK t \in An!Times : IsOf(t, u) /\ IsOf(t, anCache[u].of)
        BY <2>1 DEF AttachInv, KeptTextsAreOwn
      <3> QED BY <1>1, <3>1
    <2> QED BY <2>1 DEF KeptTextsAreOwn, IsOf, WillBeOf
  <1>6. An!OthersAreWhole'
    BY DEF AttachInv, An!OthersAreWhole
  <1> QED BY <1>2, <1>3, <1>4, <1>5, <1>6 DEF AttachInv

(* What ffmpeg gives, or its failure, settles the promise, if it is the    *)
(* first to end.                                                           *)
LEMMA AttachSettles ==
    ASSUME An!AttachmentsAssumption, AttachInv, NEW j \in Attached, NEW p \in An!Runs,
           NEW output, NEW written, An!Settle(j, output, written),
           anRun[j][p] \in {"spawned", "reading", "writing"}, An!Run(j, p, "ended"),
           \/ anSource' = [anSource EXCEPT ![j][p] = An!Nothing]
           \/ anSource' = anSource,
           UNCHANGED <<anNow, anUrl, anStamp>>, anFaults' \in 0 .. MaxFaults,
           output # An!Nothing => output \in UrlTexts /\ IsOf(anStamp[j], output.of),
           written \in [An!Times -> {An!NoFile} \cup Outputs],
           \A t \in An!Times : written[t] # An!NoFile => IsOf(t, written[t].content.of)
    PROVE  AttachInv'
  <1>1. /\ anRun' = [anRun EXCEPT ![j][p] = "ended"]
        /\ anRun' \in [Attached -> [An!Runs -> RunPlaces]]
        /\ anSource' \in [Attached -> [An!Runs -> An!Texts]]
        /\ \A k \in Attached \ {j} : anRun'[k] = anRun[k] /\ anSource'[k] = anSource[k]
        /\ anRun'[j][p] = "ended"
        /\ \A q \in An!Runs \ {p} : /\ anRun'[j][q] = anRun[j][q]
                                    /\ anSource'[j][q] = anSource[j][q]
    <2>1. /\ anRun \in [Attached -> [An!Runs -> RunPlaces]]
          /\ anSource \in [Attached -> [An!Runs -> An!Texts]]
          /\ An!Nothing \in An!Texts /\ "ended" \in RunPlaces
      BY AttachFacts, TextsAre DEF RunPlaces
    <2>2. anRun' = [anRun EXCEPT ![j][p] = "ended"]
      BY DEF An!Run
    <2>3. anRun' \in [Attached -> [An!Runs -> RunPlaces]]
      BY <2>1, <2>2
    <2>4. anSource' \in [Attached -> [An!Runs -> An!Texts]]
      <3>1. CASE anSource' = anSource
        BY <2>1, <3>1
      <3>2. CASE anSource' = [anSource EXCEPT ![j][p] = An!Nothing]
        BY <2>1, <3>2
      <3> QED BY <3>1, <3>2
    <2>5. \A k \in Attached \ {j} : anRun'[k] = anRun[k] /\ anSource'[k] = anSource[k]
      BY <2>1, <2>2
    <2>6. anRun'[j][p] = "ended"
      BY <2>1, <2>2
    <2>7. \A q \in An!Runs \ {p} : /\ anRun'[j][q] = anRun[j][q]
                                    /\ anSource'[j][q] = anSource[j][q]
      BY <2>1, <2>2
    <2> QED BY <2>2, <2>3, <2>4, <2>5, <2>6, <2>7
  <1>2. anAt[j] \in {"extract", "describe", "done", "failed"}
    BY AttachFacts DEF AttachInv, RunsReadOwn, AttachPlaces
  <1>3. \A k \in Attached, q \in An!Runs :
            anRun'[k][q] \in {"reading", "writing"} =>
                /\ anRun[k][q] = anRun'[k][q] /\ anSource'[k][q] = anSource[k][q]
                /\ anSource[k][q] \in UrlTexts /\ IsOf(anStamp[k], anSource[k][q].of)
    BY <1>1 DEF AttachInv, RunsReadOwn
  <1>4. CASE anAt[j] = "extract" /\ output = An!Nothing
    <2>1. /\ An!Keep(j, An!Failure)
          /\ anMp4' = [anMp4 EXCEPT ![anStamp[j]] = An!Nothing]
          /\ anMp3' = [anMp3 EXCEPT ![anStamp[j]] = An!NoFile]
      BY <1>4 DEF An!Settle, An!Names
    <2>2. An!Failure \in An!Texts
      BY TextsAre
    <2>3. anAt' = [anAt EXCEPT ![j] = "done"]
      BY <2>1 DEF An!Keep, An!Go
    <2>4. ASSUME NEW k \in Attached, NEW q \in An!Runs
          PROVE  /\ anAt'[k] \in {"new", "fetch", "video"} => anRun'[k][q] = anRun[k][q]
                 /\ anRun'[k][q] \in {"reading", "writing"} =>
                        anRun[k][q] = anRun'[k][q] /\ anSource'[k][q] = anSource[k][q]
      BY <1>1, <1>3, <2>3, AttachFacts
    <2> QED BY <1>1, <1>4, <2>1, <2>2, <2>4, AttachKeeps
  <1>5. CASE anAt[j] = "extract" /\ output # An!Nothing
    <2>1. /\ anMp4' = [anMp4 EXCEPT ![anStamp[j]] = An!Nothing]
          /\ anMp3' = [anMp3 EXCEPT ![anStamp[j]] = An!NoFile]
          /\ anText' = [anText EXCEPT ![j] = output]
          /\ anAt' = [anAt EXCEPT ![j] = "describe"]
          /\ anCache' = anCache
      BY <1>5 DEF An!Settle, An!Names, An!Go
    <2>2. /\ anAt' \in [Attached -> AttachPlaces] /\ anAt'[j] = "describe"
          /\ anText' \in [Attached -> An!Texts] /\ anText'[j] = output
          /\ \A k \in Attached \ {j} : anAt'[k] = anAt[k] /\ anText'[k] = anText[k]
          /\ anMp4' \in [An!Times -> {An!Nothing} \cup UrlTexts]
          /\ anMp3' \in [An!Times -> {An!NoFile} \cup Outputs]
          /\ anMp4'[anStamp[j]] = An!Nothing /\ anMp3'[anStamp[j]] = An!NoFile
          /\ \A t \in An!Times \ {anStamp[j]} : anMp4'[t] = anMp4[t] /\ anMp3'[t] = anMp3[t]
      BY <1>5, <2>1, AttachFacts, TextsAre DEF AttachPlaces
    <2>3. AttachTypes'
      BY <1>1, <2>1, <2>2, AttachFacts DEF AttachTypes
    <2>4. \A k \in Attached : HasBegun(k) => HasBegun(k)' /\ anStamp'[k] = anStamp[k]
      BY <2>2 DEF HasBegun
    <2>5. ASSUME NEW t, NEW u, IsOf(t, u)
          PROVE  WillBeOf(t, u)
      BY <2>4, <2>5 DEF IsOf, WillBeOf
    <2>6. \A q \in An!Runs :
              /\ anAt'[j] \in {"new", "fetch", "video"} => anRun'[j][q] = "none"
              /\ anRun'[j][q] \in {"reading", "writing"} =>
                     anSource'[j][q] \in UrlTexts /\ WillBeOf(anStamp'[j], anSource'[j][q].of)
      BY <1>3, <2>2, <2>5
    <2>7. anUrl[j] \in Mp4s
      BY <1>5 DEF AttachInv, TextsAreOwn
    <2>8. /\ anText'[j] \in UrlTexts /\ WillBeOf(anStamp'[j], anText'[j].of)
          /\ anUrl[j] \notin Mp4s => anText'[j] = An!Text(anUrl[j], TRUE)
      BY <1>5, <2>2, <2>5, <2>7
    <2>9. ASSUME NEW t \in An!Times, anMp4'[t] # An!Nothing
          PROVE  /\ WillBeOf(t, anMp4'[t].of)
                 /\ \E k \in Attached : anAt'[k] = "extract" /\ anStamp'[k] = t
      <3>1. t # anStamp[j] /\ anMp4'[t] = anMp4[t]
        BY <2>2, <2>9
      <3>2. IsOf(t, anMp4[t].of) /\ \E k \in Attached : anAt[k] = "extract" /\ anStamp[k] = t
        BY <2>9, <3>1 DEF AttachInv, InputsAreOwn
      <3> QED BY <2>2, <2>5, <3>1, <3>2
    <2>10. ASSUME NEW t \in An!Times, anMp3'[t] # An!NoFile
           PROVE  WillBeOf(t, anMp3'[t].content.of)
      <3>1. anMp3'[t] = anMp3[t]
        BY <2>2, <2>10
      <3>2. IsOf(t, anMp3[t].content.of)
        BY <2>10, <3>1 DEF AttachInv, OutputsAreOwn
      <3> QED BY <2>5, <3>1, <3>2
    <2> QED BY <1>1, <2>1, <2>2, <2>3, <2>4, <2>6, <2>8, <2>9, <2>10, AttachMoves
  <1>6. CASE anAt[j] # "extract"
    <2>1. anMp3' = written /\ UNCHANGED <<anAt, anCache, anText, anMp4>>
      BY <1>6 DEF An!Settle
    <2>2. AttachTypes'
      BY <1>1, <2>1, AttachFacts DEF AttachTypes
    <2>3. \A k \in Attached : HasBegun(k) => HasBegun(k)' /\ anStamp'[k] = anStamp[k]
      BY <2>1 DEF HasBegun
    <2>4. ASSUME NEW t, NEW u, IsOf(t, u)
          PROVE  WillBeOf(t, u)
      BY <2>3, <2>4 DEF IsOf, WillBeOf
    <2>5. \A q \in An!Runs :
              /\ anAt'[j] \in {"new", "fetch", "video"} => anRun'[j][q] = "none"
              /\ anRun'[j][q] \in {"reading", "writing"} =>
                     anSource'[j][q] \in UrlTexts /\ WillBeOf(anStamp'[j], anSource'[j][q].of)
      BY <1>2, <1>3, <2>1, <2>4
    <2>6. anAt[j] = "describe" =>
              /\ anText[j] \in UrlTexts /\ WillBeOf(anStamp[j], anText[j].of)
              /\ anUrl[j] \notin Mp4s => anText[j] = An!Text(anUrl[j], TRUE)
      BY <2>4 DEF AttachInv, TextsAreOwn
    <2>7. ASSUME NEW t \in An!Times, anMp4'[t] # An!Nothing
          PROVE  /\ WillBeOf(t, anMp4'[t].of)
                 /\ \E k \in Attached : anAt'[k] = "extract" /\ anStamp'[k] = t
      BY <2>1, <2>4, <2>7 DEF AttachInv, InputsAreOwn
    <2>8. \A t \in An!Times : anMp3'[t] # An!NoFile => WillBeOf(t, anMp3'[t].content.of)
      BY <2>1, <2>4
    <2> QED BY <1>1, <1>6, <2>1, <2>2, <2>3, <2>5, <2>6, <2>7, <2>8, AttachMoves
  <1> QED BY <1>4, <1>5, <1>6

(* The same, of a job whose files are not touched. *)
LEMMA AttachStarts ==
    ASSUME An!AttachmentsAssumption, AttachInv, NEW j \in Attached, An!Start(j)
    PROVE  AttachInv'
  <1>1. /\ anAt[j] = "new" /\ UNCHANGED <<anNow, anCache, anUrl, anStamp, anText, anRun, anSource>>
        /\ UNCHANGED <<anMp4, anMp3, anFaults>>
        /\ \E place \in {"done", "video", "fetch"} : anAt' = [anAt EXCEPT ![j] = place]
    BY DEF An!Start, An!Go
  <1>2. /\ anAt' \in [Attached -> AttachPlaces] /\ anAt'[j] \in {"done", "video", "fetch"}
        /\ \A k \in Attached \ {j} : anAt'[k] = anAt[k]
    BY <1>1, AttachFacts DEF AttachPlaces
  <1>3. AttachTypes'
    BY <1>1, <1>2, AttachFacts DEF AttachTypes
  <1>4. \A k \in Attached : HasBegun(k) => HasBegun(k)' /\ anStamp'[k] = anStamp[k]
    BY <1>1, <1>2 DEF HasBegun
  <1>5. ASSUME NEW t, NEW u, IsOf(t, u)
        PROVE  WillBeOf(t, u)
    BY <1>1, <1>4, <1>5 DEF IsOf, WillBeOf
  <1>6. \A p \in An!Runs : anRun'[j][p] = "none"
    BY <1>1 DEF AttachInv, RunsReadOwn
  <1>7. ASSUME NEW t \in An!Times, anMp4'[t] # An!Nothing
        PROVE  /\ WillBeOf(t, anMp4'[t].of)
               /\ \E k \in Attached : anAt'[k] = "extract" /\ anStamp'[k] = t
    BY <1>1, <1>2, <1>5, <1>7 DEF AttachInv, InputsAreOwn
  <1>8. \A t \in An!Times : anMp3'[t] # An!NoFile => WillBeOf(t, anMp3'[t].content.of)
    BY <1>1, <1>5 DEF AttachInv, OutputsAreOwn
  <1>9. \A k \in Attached \ {j} :
             /\ anAt'[k] = anAt[k] /\ anStamp'[k] = anStamp[k] /\ anText'[k] = anText[k]
             /\ anRun'[k] = anRun[k] /\ anSource'[k] = anSource[k]
    BY <1>1, <1>2
  <1>10. \A p \in An!Runs :
             /\ anAt'[j] \in {"new", "fetch", "video"} => anRun'[j][p] = "none"
             /\ anRun'[j][p] \in {"reading", "writing"} =>
                    anSource'[j][p] \in UrlTexts /\ WillBeOf(anStamp'[j], anSource'[j][p].of)
    BY <1>6
  <1>11. anAt'[j] # "extract" /\ anAt'[j] # "describe"
    BY <1>2
  <1> QED BY <1>1, <1>3, <1>4, <1>7, <1>8, <1>9, <1>10, <1>11, AttachMoves

LEMMA AttachFetchesMp4 ==
    ASSUME An!AttachmentsAssumption, AttachInv, NEW j \in Attached, An!FetchMp4(j)
    PROVE  AttachInv'
  <1>1. /\ anAt[j] = "fetch" /\ anUrl[j] \in Mp4s
        /\ anStamp' = [anStamp EXCEPT ![j] = anNow]
        /\ anMp4' = [anMp4 EXCEPT ![anNow] = An!Text(anUrl[j], TRUE)]
        /\ anRun' = [anRun EXCEPT ![j] = [p \in An!Runs |-> "spawned"]]
        /\ anAt' = [anAt EXCEPT ![j] = "extract"]
        /\ UNCHANGED <<anNow, anCache, anUrl, anText, anSource, anMp3, anFaults>>
    BY DEF An!FetchMp4, An!Go
  <1>2. /\ anUrl[j] \in An!Urls /\ anNow \in An!Times
        /\ An!Text(anUrl[j], TRUE) \in UrlTexts /\ An!Text(anUrl[j], TRUE).of = anUrl[j]
    BY AttachFacts, TextsAre
  <1>3. /\ anAt' \in [Attached -> AttachPlaces] /\ anAt'[j] = "extract"
        /\ anStamp' \in [Attached -> An!Times] /\ anStamp'[j] = anNow
        /\ \A k \in Attached \ {j} : anAt'[k] = anAt[k] /\ anStamp'[k] = anStamp[k]
    BY <1>1, <1>2, AttachFacts DEF AttachPlaces
  <1>4. /\ anMp4' \in [An!Times -> {An!Nothing} \cup UrlTexts]
        /\ anMp4'[anNow] = An!Text(anUrl[j], TRUE)
        /\ \A t \in An!Times \ {anNow} : anMp4'[t] = anMp4[t]
    BY <1>1, <1>2, AttachFacts
  <1>5. /\ anRun' \in [Attached -> [An!Runs -> RunPlaces]]
        /\ \A p \in An!Runs : anRun'[j][p] = "spawned"
        /\ \A k \in Attached \ {j} : anRun'[k] = anRun[k]
    <2> DEFINE new == [p \in An!Runs |-> "spawned"]
    <2>1. new \in [An!Runs -> RunPlaces] /\ \A p \in An!Runs : new[p] = "spawned"
      BY DEF RunPlaces
    <2>2. anRun' = [anRun EXCEPT ![j] = new]
      BY <1>1
    <2> HIDE DEF new
    <2> QED BY <2>1, <2>2, AttachFacts
  <1>6. AttachTypes'
    BY <1>1, <1>3, <1>4, <1>5, AttachFacts DEF AttachTypes
  <1>7. \A k \in Attached : HasBegun(k) => HasBegun(k)' /\ anStamp'[k] = anStamp[k]
    BY <1>1, <1>3 DEF HasBegun
  <1>8. ASSUME NEW t, NEW u, IsOf(t, u)
        PROVE  WillBeOf(t, u)
    BY <1>1, <1>7, <1>8 DEF IsOf, WillBeOf
  <1>9. WillBeOf(anNow, anUrl[j])
    BY <1>1, <1>3 DEF WillBeOf, HasBegun
  <1>10. ASSUME NEW t \in An!Times, anMp4'[t] # An!Nothing
         PROVE  /\ WillBeOf(t, anMp4'[t].of)
                /\ \E k \in Attached : anAt'[k] = "extract" /\ anStamp'[k] = t
    <2>1. CASE t = anNow
      BY <1>2, <1>3, <1>4, <1>9, <2>1
    <2>2. CASE t # anNow
      <3>1. IsOf(t, anMp4[t].of) /\ anMp4'[t] = anMp4[t]
        BY <1>4, <1>10, <2>2 DEF AttachInv, InputsAreOwn
      <3>2. PICK k \in Attached : anAt[k] = "extract" /\ anStamp[k] = t
        BY <1>4, <1>10, <2>2 DEF AttachInv, InputsAreOwn
      <3>3. k # j
        BY <1>1, <3>2
      <3> QED BY <1>3, <1>8, <3>1, <3>2, <3>3
    <2> QED BY <2>1, <2>2
  <1>11. \A t \in An!Times : anMp3'[t] # An!NoFile => WillBeOf(t, anMp3'[t].content.of)
    BY <1>1, <1>8 DEF AttachInv, OutputsAreOwn
  <1> QED BY <1>1, <1>3, <1>5, <1>6, <1>7, <1>10, <1>11, AttachMoves

LEMMA AttachFetches ==
    ASSUME An!AttachmentsAssumption, AttachInv, NEW j \in Attached, An!Fetch(j)
    PROVE  AttachInv'
  <1>1. /\ anAt[j] = "fetch"
        /\ anText' = [anText EXCEPT ![j] = An!Text(anUrl[j], TRUE)]
        /\ anAt' = [anAt EXCEPT ![j] = "describe"]
        /\ UNCHANGED <<anNow, anCache, anUrl, anStamp, anRun, anSource, anMp4, anMp3, anFaults>>
    BY DEF An!Fetch, An!Go
  <1>2. /\ An!Text(anUrl[j], TRUE) \in UrlTexts /\ An!Text(anUrl[j], TRUE).of = anUrl[j]
        /\ An!Text(anUrl[j], TRUE) \in An!Texts
    BY AttachFacts, TextsAre
  <1>3. /\ anAt' \in [Attached -> AttachPlaces] /\ anAt'[j] = "describe"
        /\ anText' \in [Attached -> An!Texts] /\ anText'[j] = An!Text(anUrl[j], TRUE)
        /\ \A k \in Attached \ {j} : anAt'[k] = anAt[k] /\ anText'[k] = anText[k]
    BY <1>1, <1>2, AttachFacts DEF AttachPlaces
  <1>4. AttachTypes'
    BY <1>1, <1>3, AttachFacts DEF AttachTypes
  <1>5. \A k \in Attached : HasBegun(k) => HasBegun(k)' /\ anStamp'[k] = anStamp[k]
    BY <1>1, <1>3 DEF HasBegun
  <1>6. ASSUME NEW t, NEW u, IsOf(t, u)
        PROVE  WillBeOf(t, u)
    BY <1>1, <1>5, <1>6 DEF IsOf, WillBeOf
  <1>7. WillBeOf(anStamp'[j], anUrl[j])
    BY <1>1, <1>3 DEF WillBeOf, HasBegun
  <1>8. \A p \in An!Runs : anRun'[j][p] = "none"
    BY <1>1 DEF AttachInv, RunsReadOwn
  <1>9. ASSUME NEW t \in An!Times, anMp4'[t] # An!Nothing
        PROVE  /\ WillBeOf(t, anMp4'[t].of)
               /\ \E k \in Attached : anAt'[k] = "extract" /\ anStamp'[k] = t
    <2>1. IsOf(t, anMp4[t].of)
      BY <1>1, <1>9 DEF AttachInv, InputsAreOwn
    <2>2. PICK k \in Attached : anAt[k] = "extract" /\ anStamp[k] = t
      BY <1>1, <1>9 DEF AttachInv, InputsAreOwn
    <2>3. k # j
      BY <1>1, <2>2
    <2> QED BY <1>1, <1>3, <1>6, <2>1, <2>2, <2>3
  <1>10. \A t \in An!Times : anMp3'[t] # An!NoFile => WillBeOf(t, anMp3'[t].content.of)
    BY <1>1, <1>6 DEF AttachInv, OutputsAreOwn
  <1>11. \A k \in Attached \ {j} :
             /\ anAt'[k] = anAt[k] /\ anStamp'[k] = anStamp[k] /\ anText'[k] = anText[k]
             /\ anRun'[k] = anRun[k] /\ anSource'[k] = anSource[k]
    BY <1>1, <1>3
  <1>12. \A p \in An!Runs :
             /\ anAt'[j] \in {"new", "fetch", "video"} => anRun'[j][p] = "none"
             /\ anRun'[j][p] \in {"reading", "writing"} =>
                    anSource'[j][p] \in UrlTexts /\ WillBeOf(anStamp'[j], anSource'[j][p].of)
    BY <1>8
  <1>13. /\ anAt'[j] # "extract"
         /\ anText'[j] \in UrlTexts /\ WillBeOf(anStamp'[j], anText'[j].of)
         /\ anText'[j] = An!Text(anUrl[j], TRUE)
    BY <1>2, <1>3, <1>7
  <1> QED BY <1>1, <1>4, <1>5, <1>9, <1>10, <1>11, <1>12, <1>13, AttachMoves

(* One of the two runs reads what is there, empties the output, or ends.   *)
LEMMA AttachRuns ==
    ASSUME An!AttachmentsAssumption, AttachInv, NEW j \in Attached, NEW p \in An!Runs,
           An!ReadInput(j, p) \/ An!OpenOutput(j, p) \/ An!EndOutput(j, p) \/ An!RunFails(j, p)
    PROVE  AttachInv'
  <1>1. anMp3 \in [An!Times -> {An!NoFile} \cup Outputs]
        /\ \A t \in An!Times : anMp3[t] # An!NoFile => IsOf(t, anMp3[t].content.of)
    BY AttachFacts DEF AttachInv, OutputsAreOwn
  <1>2. anStamp[j] \in An!Times
    BY AttachFacts
  <1>3. ASSUME An!ReadInput(j, p), anMp4[anStamp[j]] = An!Nothing
        PROVE  AttachInv'
    <2>1. /\ anRun[j][p] = "spawned" /\ An!Run(j, p, "ended")
          /\ An!Settle(j, An!Nothing, anMp3)
          /\ UNCHANGED <<anSource, anNow, anUrl, anStamp, anFaults>>
      BY <1>3 DEF An!ReadInput, An!Names
    <2> QED BY <1>1, <2>1, AttachSettles, AttachFacts
  <1>4. ASSUME An!RunFails(j, p)
        PROVE  AttachInv'
    <2>1. /\ anRun[j][p] \in {"spawned", "reading", "writing"} /\ An!Run(j, p, "ended")
          /\ An!Settle(j, An!Nothing, anMp3) /\ anFaults' \in 0 .. MaxFaults
          /\ anSource' = [anSource EXCEPT ![j][p] = An!Nothing]
          /\ UNCHANGED <<anNow, anUrl, anStamp>>
      BY <1>4, AttachFacts DEF An!RunFails
    <2> QED BY <1>1, <2>1, AttachSettles
  <1>5. ASSUME An!EndOutput(j, p)
        PROVE  AttachInv'
    <2> DEFINE t == anStamp[j]
               written == IF anMp3[t].by = <<j, p>> THEN [anMp3 EXCEPT ![t].content.whole = TRUE]
                          ELSE anMp3
    <2>1. /\ anRun[j][p] = "writing" /\ An!Run(j, p, "ended")
          /\ An!Settle(j, written[t].content, written)
          /\ anSource' = [anSource EXCEPT ![j][p] = An!Nothing]
          /\ UNCHANGED <<anNow, anUrl, anStamp, anFaults>>
      BY <1>5 DEF An!EndOutput, An!Names
    <2>2. /\ written \in [An!Times -> {An!NoFile} \cup Outputs]
          /\ \A s \in An!Times : written[s] # An!NoFile => IsOf(s, written[s].content.of)
      <3>1. CASE anMp3[t].by = <<j, p>>
        <4> DEFINE new == [anMp3[t] EXCEPT !.content.whole = TRUE]
        <4>1. written = [anMp3 EXCEPT ![t] = new]
          BY <1>1, <1>2, <3>1
        <4>2. anMp3[t] # An!NoFile
          <5>1. An!NoFile.by = <<"nobody", "">>
            BY DEF An!NoFile
          <5>2. p # ""
            BY DEF An!Runs
          <5>3. <<j, p>>[2] = p /\ <<"nobody", "">>[2] = ""
            OBVIOUS
          <5>4. <<j, p>> # <<"nobody", "">>
            BY <5>2, <5>3
          <5> QED BY <3>1, <5>1, <5>4
        <4>3. anMp3[t] \in Outputs
          BY <1>1, <1>2, <4>2
        <4>4. new \in Outputs /\ new.content.of = anMp3[t].content.of
          BY <4>3 DEF Outputs, UrlTexts
        <4>5. IsOf(t, anMp3[t].content.of)
          BY <1>1, <1>2, <4>2
        <4> HIDE DEF new, written
        <4>6. written \in [An!Times -> {An!NoFile} \cup Outputs]
          BY <1>1, <1>2, <4>1, <4>4
        <4>7. /\ written[t].content.of = anMp3[t].content.of
              /\ \A s \in An!Times \ {t} : written[s] = anMp3[s]
          BY <1>1, <1>2, <4>1, <4>4
        <4> QED BY <1>1, <1>2, <4>5, <4>6, <4>7
      <3>2. CASE anMp3[t].by # <<j, p>>
        BY <1>1, <3>2
      <3> QED BY <3>1, <3>2
    <2> HIDE DEF written
    <2>3. written[t].content # An!Nothing =>
              written[t].content \in UrlTexts /\ IsOf(t, written[t].content.of)
      <3>1. written[t] # An!NoFile =>
                written[t].content \in UrlTexts /\ IsOf(t, written[t].content.of)
        BY <1>2, <2>2 DEF Outputs
      <3> QED BY <3>1, TextsAre
    <2> QED BY <2>1, <2>2, <2>3, AttachSettles, AttachFacts
  <1>6. ASSUME An!ReadInput(j, p) \/ An!OpenOutput(j, p),
               NEW place \in {"reading", "writing"},
               anRun' = [anRun EXCEPT ![j][p] = place],
               anSource' \in [Attached -> [An!Runs -> An!Texts]],
               anSource'[j][p] \in UrlTexts, IsOf(anStamp[j], anSource'[j][p].of),
               \A k \in Attached, q \in An!Runs :
                   k # j \/ q # p => anSource'[k][q] = anSource[k][q],
               \A k \in Attached \ {j} : anSource'[k] = anSource[k],
               UNCHANGED <<anNow, anCache, anAt, anUrl, anStamp, anText, anMp4, anFaults>>,
               anMp3' \in [An!Times -> {An!NoFile} \cup Outputs],
               \A t \in An!Times : anMp3'[t] # An!NoFile => IsOf(t, anMp3'[t].content.of),
               anRun[j][p] # "none"
        PROVE  AttachInv'
    <2>1. /\ anRun \in [Attached -> [An!Runs -> RunPlaces]] /\ place \in RunPlaces
      BY AttachFacts DEF RunPlaces
    <2>2. anRun' \in [Attached -> [An!Runs -> RunPlaces]]
      BY <1>6, <2>1
    <2>3. /\ \A k \in Attached \ {j} : anRun'[k] = anRun[k]
          /\ \A q \in An!Runs \ {p} : anRun'[j][q] = anRun[j][q]
      BY <1>6, <2>1
    <2>4. AttachTypes'
      BY <1>6, <2>2, AttachFacts DEF AttachTypes
    <2>5. \A k \in Attached : HasBegun(k) => HasBegun(k)' /\ anStamp'[k] = anStamp[k]
      BY <1>6 DEF HasBegun
    <2>6. ASSUME NEW t, NEW u, IsOf(t, u)
          PROVE  WillBeOf(t, u)
      BY <1>6, <2>5, <2>6 DEF IsOf, WillBeOf
    <2>7. anAt[j] \notin {"new", "fetch", "video"}
      BY <1>6 DEF AttachInv, RunsReadOwn
    <2>8. ASSUME NEW q \in An!Runs, anRun'[j][q] \in {"reading", "writing"}
          PROVE  anSource'[j][q] \in UrlTexts /\ WillBeOf(anStamp'[j], anSource'[j][q].of)
      <3>1. CASE q = p
        BY <1>6, <2>6, <3>1
      <3>2. CASE q # p
        <4>1. anSource[j][q] \in UrlTexts /\ IsOf(anStamp[j], anSource[j][q].of)
          BY <2>3, <2>8, <3>2 DEF AttachInv, RunsReadOwn
        <4> QED BY <1>6, <2>6, <3>2, <4>1
      <3> QED BY <3>1, <3>2
    <2>9. /\ anAt[j] = "extract" => anUrl[j] \in Mp4s
          /\ anAt[j] = "describe" =>
                 /\ anText[j] \in UrlTexts /\ WillBeOf(anStamp[j], anText[j].of)
                 /\ anUrl[j] \notin Mp4s => anText[j] = An!Text(anUrl[j], TRUE)
      BY <2>6 DEF AttachInv, TextsAreOwn
    <2>10. ASSUME NEW t \in An!Times, anMp4'[t] # An!Nothing
           PROVE  /\ WillBeOf(t, anMp4'[t].of)
                  /\ \E k \in Attached : anAt'[k] = "extract" /\ anStamp'[k] = t
      BY <1>6, <2>6, <2>10 DEF AttachInv, InputsAreOwn
    <2>11. \A t \in An!Times : anMp3'[t] # An!NoFile => WillBeOf(t, anMp3'[t].content.of)
      BY <1>6, <2>6
    <2>12. \A k \in Attached \ {j} :
             /\ anAt'[k] = anAt[k] /\ anStamp'[k] = anStamp[k] /\ anText'[k] = anText[k]
             /\ anRun'[k] = anRun[k] /\ anSource'[k] = anSource[k]
      BY <1>6, <2>3
    <2>13. \A q \in An!Runs :
             /\ anAt'[j] \in {"new", "fetch", "video"} => anRun'[j][q] = "none"
             /\ anRun'[j][q] \in {"reading", "writing"} =>
                    anSource'[j][q] \in UrlTexts /\ WillBeOf(anStamp'[j], anSource'[j][q].of)
      BY <1>6, <2>7, <2>8
    <2>14. /\ anAt'[j] = "extract" => anUrl[j] \in Mp4s
           /\ anAt'[j] = "describe" =>
                  /\ anText'[j] \in UrlTexts /\ WillBeOf(anStamp'[j], anText'[j].of)
                  /\ anUrl[j] \notin Mp4s => anText'[j] = An!Text(anUrl[j], TRUE)
      BY <1>6, <2>9
    <2> QED BY <1>6, <2>4, <2>5, <2>10, <2>11, <2>12, <2>13, <2>14, AttachMoves
  <1>7. ASSUME An!ReadInput(j, p), anMp4[anStamp[j]] # An!Nothing
        PROVE  AttachInv'
    <2>1. /\ anRun[j][p] = "spawned" /\ anRun' = [anRun EXCEPT ![j][p] = "reading"]
          /\ anSource' = [anSource EXCEPT ![j][p] = anMp4[anStamp[j]]]
          /\ UNCHANGED <<anNow, anCache, anAt, anUrl, anStamp, anText, anMp4, anMp3, anFaults>>
      BY <1>7 DEF An!ReadInput, An!Names, An!Run
    <2>2. /\ anMp4[anStamp[j]] \in UrlTexts /\ anMp4[anStamp[j]] \in An!Texts
          /\ IsOf(anStamp[j], anMp4[anStamp[j]].of)
      BY <1>2, <1>7, AttachFacts, TextsAre DEF AttachInv, InputsAreOwn
    <2>3. anSource \in [Attached -> [An!Runs -> An!Texts]]
      BY AttachFacts
    <2>4. /\ anSource' \in [Attached -> [An!Runs -> An!Texts]]
          /\ anSource'[j][p] = anMp4[anStamp[j]]
      BY <2>1, <2>2, <2>3
    <2>5. /\ \A k \in Attached, q \in An!Runs :
                 k # j \/ q # p => anSource'[k][q] = anSource[k][q]
          /\ \A k \in Attached \ {j} : anSource'[k] = anSource[k]
      BY <2>1, <2>3
    <2> QED BY <1>1, <1>6, <1>7, <2>1, <2>2, <2>4, <2>5
  <1>8. ASSUME An!OpenOutput(j, p)
        PROVE  AttachInv'
    <2> DEFINE new == [by |-> <<j, p>>, content |-> An!Text(anSource[j][p].of, FALSE)]
    <2>1. /\ anRun[j][p] = "reading" /\ anRun' = [anRun EXCEPT ![j][p] = "writing"]
          /\ anMp3' = [anMp3 EXCEPT ![anStamp[j]] = new]
          /\ UNCHANGED <<anNow, anCache, anAt, anUrl, anStamp, anText, anSource, anMp4, anFaults>>
      BY <1>8 DEF An!OpenOutput, An!Names, An!Run
    <2>2. anSource[j][p] \in UrlTexts /\ IsOf(anStamp[j], anSource[j][p].of)
      BY <2>1 DEF AttachInv, RunsReadOwn
    <2>3. anSource[j][p].of \in An!Urls
      BY <2>2 DEF UrlTexts
    <2>4. /\ An!Text(anSource[j][p].of, FALSE) \in UrlTexts
          /\ An!Text(anSource[j][p].of, FALSE).of = anSource[j][p].of
      BY <2>3, TextsAre
    <2>5. new \in Outputs /\ new.content.of = anSource[j][p].of
      BY <2>4 DEF Outputs
    <2> HIDE DEF new
    <2>6. /\ anMp3' \in [An!Times -> {An!NoFile} \cup Outputs]
          /\ \A t \in An!Times : anMp3'[t] # An!NoFile => IsOf(t, anMp3'[t].content.of)
      BY <1>1, <1>2, <2>1, <2>2, <2>5
    <2>7. anSource' \in [Attached -> [An!Runs -> An!Texts]]
      BY <2>1, AttachFacts
    <2> QED BY <1>6, <1>8, <2>1, <2>2, <2>6, <2>7
  <1> QED BY <1>3, <1>4, <1>5, <1>7, <1>8

LEMMA AttachAnswers ==
    ASSUME An!AttachmentsAssumption, AttachInv, NEW j \in Attached,
           An!Describe(j) \/ An!Watch(j) \/ An!Fails(j)
    PROVE  AttachInv'
  <1>1. \A k \in Attached, p \in An!Runs :
            UNCHANGED <<anRun, anSource>> =>
                /\ anAt'[k] \in {"new", "fetch", "video"} => anRun'[k][p] = anRun[k][p]
                /\ anRun'[k][p] \in {"reading", "writing"} =>
                       anRun[k][p] = anRun'[k][p] /\ anSource'[k][p] = anSource[k][p]
    OBVIOUS
  <1>2. CASE An!Describe(j)
    <2>1. /\ anAt[j] = "describe" /\ An!Keep(j, anText[j])
          /\ UNCHANGED <<anNow, anUrl, anStamp, anRun, anSource, anMp4, anMp3, anFaults>>
      BY <1>2 DEF An!Describe
    <2>2. /\ anText[j] \in UrlTexts /\ IsOf(anStamp[j], anText[j].of)
          /\ anUrl[j] \notin Mp4s => anText[j] = An!Text(anUrl[j], TRUE)
      BY <2>1 DEF AttachInv, TextsAreOwn
    <2>3. anText[j] \in An!Texts
      BY <2>2, TextsAre
    <2> QED BY <1>1, <2>1, <2>2, <2>3, AttachFacts, AttachKeeps
  <1>3. CASE An!Watch(j)
    <2>1. /\ anAt[j] = "video" /\ An!Keep(j, An!Text(anUrl[j], TRUE))
          /\ UNCHANGED <<anNow, anUrl, anStamp, anRun, anSource, anMp4, anMp3, anFaults>>
      BY <1>3 DEF An!Watch
    <2>2. /\ An!Text(anUrl[j], TRUE) \in UrlTexts /\ An!Text(anUrl[j], TRUE).of = anUrl[j]
          /\ An!Text(anUrl[j], TRUE) \in An!Texts
      BY AttachFacts, TextsAre
    <2> QED BY <1>1, <2>1, <2>2, AttachFacts, AttachKeeps
  <1>4. CASE An!Fails(j) /\ anAt[j] # "video"
    <2>1. /\ anAt[j] \in {"fetch", "describe"} /\ An!Keep(j, An!Failure)
          /\ anFaults' \in 0 .. MaxFaults
          /\ UNCHANGED <<anNow, anUrl, anStamp, anRun, anSource, anMp4, anMp3>>
      BY <1>4, AttachFacts DEF An!Fails
    <2>2. An!Failure \in An!Texts
      BY TextsAre
    <2> QED BY <1>1, <2>1, <2>2, AttachFacts, AttachKeeps
  <1>5. CASE An!Fails(j) /\ anAt[j] = "video"
    <2>1. /\ anAt' = [anAt EXCEPT ![j] = "failed"] /\ anFaults' \in 0 .. MaxFaults
          /\ UNCHANGED <<anNow, anCache, anUrl, anStamp, anText, anRun, anSource, anMp4, anMp3>>
      BY <1>5, AttachFacts DEF An!Fails, An!Go
    <2>2. /\ anAt' \in [Attached -> AttachPlaces] /\ anAt'[j] = "failed"
          /\ \A k \in Attached \ {j} : anAt'[k] = anAt[k]
      BY <2>1, AttachFacts DEF AttachPlaces
    <2>3. AttachTypes'
      BY <2>1, <2>2, AttachFacts DEF AttachTypes
    <2>4. \A k \in Attached : HasBegun(k) => HasBegun(k)' /\ anStamp'[k] = anStamp[k]
      BY <2>1, <2>2 DEF HasBegun
    <2>5. ASSUME NEW t, NEW u, IsOf(t, u)
          PROVE  WillBeOf(t, u)
      BY <2>1, <2>4, <2>5 DEF IsOf, WillBeOf
    <2>6. \A p \in An!Runs : anRun'[j][p] = "none"
      BY <1>5, <2>1 DEF AttachInv, RunsReadOwn
    <2>7. ASSUME NEW t \in An!Times, anMp4'[t] # An!Nothing
          PROVE  /\ WillBeOf(t, anMp4'[t].of)
                 /\ \E k \in Attached : anAt'[k] = "extract" /\ anStamp'[k] = t
      <3>1. IsOf(t, anMp4[t].of)
        BY <2>1, <2>7 DEF AttachInv, InputsAreOwn
      <3>2. PICK k \in Attached : anAt[k] = "extract" /\ anStamp[k] = t
        BY <2>1, <2>7 DEF AttachInv, InputsAreOwn
      <3>3. k # j
        BY <1>5, <3>2
      <3> QED BY <2>1, <2>2, <2>5, <3>1, <3>2, <3>3
    <2>8. \A t \in An!Times : anMp3'[t] # An!NoFile => WillBeOf(t, anMp3'[t].content.of)
      BY <2>1, <2>5 DEF AttachInv, OutputsAreOwn
    <2>9. \A k \in Attached \ {j} :
              /\ anAt'[k] = anAt[k] /\ anStamp'[k] = anStamp[k] /\ anText'[k] = anText[k]
              /\ anRun'[k] = anRun[k] /\ anSource'[k] = anSource[k]
      BY <2>1, <2>2
    <2>10. \A p \in An!Runs :
               /\ anAt'[j] \in {"new", "fetch", "video"} => anRun'[j][p] = "none"
               /\ anRun'[j][p] \in {"reading", "writing"} =>
                      anSource'[j][p] \in UrlTexts /\ WillBeOf(anStamp'[j], anSource'[j][p].of)
      BY <2>6
    <2>11. anAt'[j] # "extract" /\ anAt'[j] # "describe"
      BY <2>2
    <2> QED BY <2>1, <2>3, <2>4, <2>7, <2>8, <2>9, <2>10, <2>11, AttachMoves
  <1> QED BY <1>2, <1>3, <1>4, <1>5

LEMMA AttachRests ==
    ASSUME An!AttachmentsAssumption, AttachInv, anNow' \in An!Times,
           UNCHANGED <<anCache, anAt, anUrl, anStamp, anText, anRun, anSource, anMp4, anMp3>>,
           UNCHANGED anFaults
    PROVE  AttachInv'
  <1>1. AttachTypes'
    BY DEF AttachInv, AttachTypes
  <1>2. RunsReadOwn'
    BY DEF AttachInv, RunsReadOwn, IsOf, HasBegun
  <1>3. InputsAreOwn'
    BY DEF AttachInv, InputsAreOwn, IsOf, HasBegun
  <1>4. OutputsAreOwn'
    BY DEF AttachInv, OutputsAreOwn, IsOf, HasBegun
  <1>5. TextsAreOwn'
    BY DEF AttachInv, TextsAreOwn, IsOf, HasBegun
  <1>6. KeptTextsAreOwn'
    BY DEF AttachInv, KeptTextsAreOwn, IsOf, HasBegun
  <1>7. An!OthersAreWhole'
    BY DEF AttachInv, An!OthersAreWhole
  <1> QED BY <1>1, <1>2, <1>3, <1>4, <1>5, <1>6, <1>7 DEF AttachInv

LEMMA AttachBegins == ASSUME An!AttachmentsAssumption, An!Init PROVE AttachInv
  <1>1. /\ anNow = 0 /\ anFaults = 0 /\ anUrl \in [Attached -> An!Urls]
        /\ anCache = [u \in An!Urls |-> An!Nothing] /\ anAt = [j \in Attached |-> "new"]
        /\ anStamp = [j \in Attached |-> 0] /\ anText = [j \in Attached |-> An!Nothing]
        /\ anRun = [j \in Attached |-> [p \in An!Runs |-> "none"]]
        /\ anSource = [j \in Attached |-> [p \in An!Runs |-> An!Nothing]]
        /\ anMp4 = [t \in An!Times |-> An!Nothing] /\ anMp3 = [t \in An!Times |-> An!NoFile]
    BY DEF An!Init
  <1>2. 0 \in An!Times /\ 0 \in 0 .. MaxFaults
    BY DEF An!AttachmentsAssumption, An!Times
  <1>3. AttachTypes
    BY <1>1, <1>2, TextsAre DEF AttachTypes, AttachPlaces, RunPlaces
  <1>4. RunsReadOwn /\ InputsAreOwn /\ OutputsAreOwn /\ TextsAreOwn
    BY <1>1 DEF RunsReadOwn, InputsAreOwn, OutputsAreOwn, TextsAreOwn
  <1>5. KeptTextsAreOwn /\ An!OthersAreWhole
    BY <1>1, TextsAre DEF KeptTextsAreOwn, An!OthersAreWhole
  <1> QED BY <1>3, <1>4, <1>5 DEF AttachInv

LEMMA AttachSpec ==
    ASSUME An!AttachmentsAssumption
    PROVE  An!Init /\ [][An!Next]_An!vars => []AttachInv
  <1>1. An!Init => AttachInv
    BY AttachBegins
  <1>2. AttachInv /\ [An!Next]_An!vars => AttachInv'
    <2> SUFFICES ASSUME AttachInv, [An!Next]_An!vars PROVE AttachInv'
      OBVIOUS
    <2>1. CASE UNCHANGED An!vars
      BY <2>1, AttachRests, AttachFacts DEF An!vars
    <2>2. CASE An!Tick
      <3>1. anNow' \in An!Times
        BY <2>2, AttachFacts DEF An!Tick, An!Times
      <3> QED BY <2>2, <3>1, AttachRests DEF An!Tick
    <2>3. ASSUME NEW j \in Attached, An!Start(j) \/ An!Step(j)
          PROVE  AttachInv'
      BY <2>3, AttachStarts, AttachFetchesMp4, AttachFetches, AttachRuns, AttachAnswers DEF An!Step
    <2> QED BY <2>1, <2>2, <2>3 DEF An!Next
  <1> QED BY <1>1, <1>2, PTL

LEMMA AttachmentsHeld ==
    ASSUME An!AttachmentsAssumption, AttachInv
    PROVE  An!KeptIsOwn /\ An!OthersAreWhole /\ An!InputsRemoved
  <1>1. An!KeptIsOwn
    <2> SUFFICES ASSUME NEW u \in An!Urls, anCache[u].of \in An!Urls \ {u}
                 PROVE  \E i, j \in Attached : /\ anUrl[i] = u /\ anUrl[j] = anCache[u].of
                                               /\ i # j /\ anStamp[i] = anStamp[j]
      BY DEF An!KeptIsOwn
    <2>1. PICK t \in An!Times : IsOf(t, u) /\ IsOf(t, anCache[u].of)
      BY DEF AttachInv, KeptTextsAreOwn
    <2>2. PICK i \in Attached : anStamp[i] = t /\ anUrl[i] = u
      BY <2>1 DEF IsOf
    <2>3. PICK j \in Attached : anStamp[j] = t /\ anUrl[j] = anCache[u].of
      BY <2>1 DEF IsOf
    <2> QED BY <2>2, <2>3
  <1>2. An!InputsRemoved
    <2>1. \A t \in An!Times : anMp4[t] # An!Nothing => \E k \in Attached : anAt[k] = "extract"
      BY DEF AttachInv, InputsAreOwn
    <2> QED BY <2>1 DEF An!InputsRemoved
  <1> QED BY <1>1, <1>2 DEF AttachInv

(* Of whatever attachments, by whatever interleaving of their ffmpegs: the *)
(* text kept of one is its own, or that of another of its millisecond,     *)
(* whole unless it is an mp4's; and the inputs of ffmpeg are removed.      *)
THEOREM KeptTextsAreTheirOwn ==
    ASSUME An!AttachmentsAssumption
    PROVE  An!Spec => [](An!KeptIsOwn /\ An!OthersAreWhole /\ An!InputsRemoved)
  <1>1. AttachInv => An!KeptIsOwn /\ An!OthersAreWhole /\ An!InputsRemoved
    BY AttachmentsHeld
  <1> QED BY <1>1, AttachSpec, PTL DEF An!Spec

(* What is read of an attachment, and what its files hold, are texts. *)
LEMMA AttachmentsAreTyped ==
    ASSUME An!AttachmentsAssumption, AttachTypes
    PROVE  An!TypeOK
  <1>1. UrlTexts \subseteq An!Texts /\ An!Nothing \in An!Texts /\ An!NoFile.content \in An!Texts
    BY TextsAre
  <1>2. ASSUME NEW t \in An!Times PROVE anMp4[t] \in An!Texts /\ anMp3[t].content \in An!Texts
    <2>1. anMp4[t] \in {An!Nothing} \cup UrlTexts /\ anMp3[t] \in {An!NoFile} \cup Outputs
      BY DEF AttachTypes
    <2>2. ASSUME NEW o \in Outputs PROVE o.content \in UrlTexts
      BY DEF Outputs
    <2> QED BY <1>1, <2>1, <2>2
  <1> QED BY <1>2 DEF AttachTypes, An!TypeOK

----------------------------------------------------------------------------
(* All together: each component does its own steps and no others.          *)
LEMMA ClientsAreTheirOwn ==
    /\ SysInit => /\ Te!Init /\ Di!Init /\ Po!Init /\ An!Init /\ Re!Init /\ La!Init /\ Fa!Init
    /\ [SysNext]_sysVars => [Te!Next]_Te!vars
    /\ [SysNext]_sysVars => [Di!Next]_Di!vars
    /\ [SysNext]_sysVars => [Po!Next]_Po!vars
    /\ [SysNext]_sysVars => [An!Next]_An!vars
    /\ [SysNext]_sysVars => [Re!Next]_Re!vars
    /\ [SysNext]_sysVars => [La!Next]_La!vars
    /\ [SysNext]_sysVars => [Fa!Next]_Fa!vars
  <1> USE DEF SysNext, sysVars, Discord, Telegram, Direct, Posting, Attaching, Reacting,
              Launching, Casting
  <1>1. SysInit => /\ Te!Init /\ Di!Init /\ Po!Init /\ An!Init /\ Re!Init /\ La!Init /\ Fa!Init
    BY DEF SysInit
  <1>2. [SysNext]_sysVars => [Te!Next]_Te!vars
    BY DEF teVars, Te!vars
  <1>3. [SysNext]_sysVars => [Di!Next]_Di!vars
    BY DEF diVars, Di!vars
  <1>4. [SysNext]_sysVars => [Po!Next]_Po!vars
    BY DEF poVars, Po!vars
  <1>5. [SysNext]_sysVars => [An!Next]_An!vars
    BY DEF anVars, An!vars
  <1>6. [SysNext]_sysVars => [Re!Next]_Re!vars
    BY DEF reVars, Re!vars
  <1>7. [SysNext]_sysVars => [La!Next]_La!vars
    BY DEF laVars, La!vars
  <1>8. [SysNext]_sysVars => [Fa!Next]_Fa!vars
    BY DEF faVars, Fa!vars
  <1> QED BY <1>1, <1>2, <1>3, <1>4, <1>5, <1>6, <1>7, <1>8

(* Of any number of agents, clients, posts, chats and requests: an agent   *)
(* that the server knows is whole, posts do not pile up, and the processes *)
(* of the clients end for the reasons named, and no other.                 *)
THEOREM AgentsStayWhole == SysSpec => []AgentsAreWhole
  <1>1. La!Init /\ [][La!Next]_La!vars => []LaunchInv
    BY LaunchSpec, Instances
  <1>2. Po!Init /\ [][Po!Next]_Po!vars => []PostingInv
    BY PostingSpec, Instances
  <1>3. Re!Init /\ [][Re!Next]_Re!vars => []ReactionInv
    BY ReactionSpec, Instances
  <1>4. LaunchInv => La!RegisteredAreWhole /\ La!FailureIsOneAgents /\ La!FreshLaunchOnly
    BY LaunchHeld, Instances
  <1>5. PostingInv => Po!PostsInTurn
    BY DEF PostingInv, InTurn, Po!PostsInTurn
  <1>6. TelegramInv /\ DirectInv /\ ReactionInv => Te!Survives /\ Di!Survives /\ Re!Survives
    BY DEF TelegramInv, DirectInv, ReactionInv
  <1>7. LaunchInv /\ PostingInv /\ TelegramInv /\ DirectInv /\ ReactionInv => AgentsAreWhole
    BY <1>4, <1>5, <1>6 DEF AgentsAreWhole
  <1> QED BY <1>1, <1>2, <1>3, <1>7, TelegramSpec, DirectSpec, ClientsAreTheirOwn, PTL DEF SysSpec

(* What a client thinks is in the memories of the agent is there, as far   *)
(* as the ids of its messages tell them apart; and what is kept of an      *)
(* attachment is what was read in it: of any number of messages, events,   *)
(* mentions and attachments.                                               *)
THEOREM ClientsAreRemembered == SysSpec => []Remembered
  <1>1. Re!Init /\ [][Re!Next]_Re!vars => []ReactionInv
    BY ReactionSpec, Instances
  <1>2. Fa!Init /\ [][Fa!Next]_Fa!vars => []FarcasterInv
    BY FarcasterSpec, Instances
  <1>3. An!Init /\ [][An!Next]_An!vars => []AttachInv
    BY AttachSpec, Instances
  <1>4. TelegramInv => Te!Remembered
    BY DEF TelegramInv, HandlerKnows, Numbered, Te!Remembered
  <1>5. DirectInv => Di!Remembered
    BY DEF DirectInv, HeldOnceAnswered, Held, Di!Remembered
  <1>6. ReactionInv => Re!Remembered
    BY HeldReactions
  <1>7. FarcasterInv => Fa!AnswersResolve
    BY DEF FarcasterInv
  <1>8. AttachInv => An!KeptIsOwn /\ An!OthersAreWhole /\ An!InputsRemoved
    BY AttachmentsHeld, Instances
  <1>9. TelegramInv /\ DirectInv /\ ReactionInv /\ FarcasterInv /\ AttachInv => Remembered
    BY <1>4, <1>5, <1>6, <1>7, <1>8 DEF Remembered
  <1> QED BY <1>1, <1>2, <1>3, <1>9, TelegramSpec, DirectSpec, ClientsAreTheirOwn, PTL DEF SysSpec

(* The types of all that is driven, of any number of messages, chats,      *)
(* requests, posts, attachments, events, agents and mentions.              *)
THEOREM ClientsKeepTypes == SysSpec => []TypesOK
  <1>1. [SysNext]_sysVars => [Next]_vars
    BY DEF SysNext, sysVars, Discord, Telegram, Direct, Posting, Attaching, Reacting, Launching,
           Casting
  <1>2. SysInit => Init
    BY DEF SysInit
  <1>3. Te!Init /\ [][Te!Next]_Te!vars => [](TelegramInv /\ TelegramBounds)
    BY TelegramTyped, Instances
  <1>4. Di!Init /\ [][Di!Next]_Di!vars => [](DirectInv /\ DirectBounds)
    BY DirectTyped, Instances
  <1>5. Po!Init /\ [][Po!Next]_Po!vars => []PostingInv
    BY PostingSpec, Instances
  <1>6. An!Init /\ [][An!Next]_An!vars => []AttachInv
    BY AttachSpec, Instances
  <1>7. Re!Init /\ [][Re!Next]_Re!vars => []ReactionInv
    BY ReactionSpec, Instances
  <1>8. La!Init /\ [][La!Next]_La!vars => []LaunchInv
    BY LaunchSpec, Instances
  <1>9. Fa!Init /\ [][Fa!Next]_Fa!vars => []FarcasterInv
    BY FarcasterSpec, Instances
  <1>10. ASSUME Inv, TelegramInv, TelegramBounds, DirectInv, DirectBounds, PostingInv, AttachInv,
                ReactionInv, LaunchInv, FarcasterInv
         PROVE  TypesOK
    <2>1. TypeOK
      BY <1>10 DEF Inv
    <2>2. Te!TypeOK
      BY <1>10, TelegramIsTyped, Instances
    <2>3. Di!TypeOK
      BY <1>10 DEF DirectInv, DirectTypes, DirectBounds, Di!TypeOK
    <2>4. Po!TypeOK
      BY <1>10 DEF PostingInv, PostingPlaces, Po!TypeOK
    <2>5. An!TypeOK
      BY <1>10, AttachmentsAreTyped, Instances DEF AttachInv
    <2>6. Re!TypeOK
      BY <1>10 DEF ReactionInv, ReactionTypes, ReactionRows, Events, Re!TypeOK
    <2>7. La!TypeOK /\ Fa!TypeOK
      BY <1>10 DEF LaunchInv, LaunchTypes, FarcasterInv, FarcasterTypes
    <2> QED BY <2>1, <2>2, <2>3, <2>4, <2>5, <2>6, <2>7 DEF TypesOK
  <1> QED BY <1>1, <1>2, <1>3, <1>4, <1>5, <1>6, <1>7, <1>8, <1>9, <1>10, InitInv, NextInv,
             ClientsAreTheirOwn, PTL DEF SysSpec

============================================================================
