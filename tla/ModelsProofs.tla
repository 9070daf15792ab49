----------------------------- MODULE ModelsProofs --------------------------
(***************************************************************************)
(* Proofs about what asks models that write and speak, for any number of   *)
(* calls, keys, chunks of audio, connections and failures.  Each component *)
(* is proved on its own; what a run says of it follows.                    *)
(***************************************************************************)
EXTENDS MCModels, Integers, QueueTheorems

----------------------------------------------------------------------------
(* Llama.  How the model file is fought over does not matter to the queue: *)
(* a call gets into it once, and a request is then in one place only.      *)
Queued == Elements(queue)

(* A request is waiting, being completed or answered, one of the three,    *)
(* and only if its call has got through the initialization.                *)
OnePlace ==
    /\ current # None => /\ answer[current] = "none" /\ current \notin Queued
                         /\ at[current] = "queued"
    /\ \A r \in Queued : answer[r] = "none" /\ at[r] = "queued"
    /\ Distinct(queue)
    /\ \A r \in Requests : at[r] # "queued" => answer[r] = "none"

(* Nothing waits while the worker is idle. *)
NoneWaits == current = None => queue = <<>>

Inv == TypeOK /\ OnePlace /\ NoneWaits /\ OnlyFailuresLeak

LEMMA NextQueued ==
    /\ Queued' = Elements(queue')
    /\ Distinct(queue)' <=> Distinct(queue')
  BY DEF Queued, Elements, Distinct

LEMMA InitInv == Init => Inv
  <1> SUFFICES ASSUME Init PROVE Inv
    OBVIOUS
  <1>1. TypeOK
    <2>1. queue \in Seq(Requests) /\ faults \in 0 .. MaxFaults /\ unlinks \in 0 .. faults
      BY EmptySeq, LlamaAssumption DEF Init
    <2> QED BY <2>1, Zenon DEF Init, TypeOK
  <1>2. OnePlace
    BY EmptyQueue DEF Init, OnePlace, Queued
  <1> QED BY <1>1, <1>2 DEF Init, Inv, NoneWaits, OnlyFailuresLeak

----------------------------------------------------------------------------
(* A call that gets to the queue.  Its initialization may have emptied the *)
(* sequence.                                                               *)
LEMMA EnqueueInv ==
    ASSUME Inv, NEW r \in Requests, NEW clean \in SUBSET history,
           Enqueue(r, clean), at[r] # "queued", UNCHANGED answer,
           file' \in Requests \cup {None}, whole' \in BOOLEAN,
           initialized' \in BOOLEAN, faults' \in 0 .. MaxFaults, unlinks' \in 0 .. faults'
    PROVE  Inv'
  <1>1. /\ at' = [at EXCEPT ![r] = "queued"]
        /\ at' \in [Requests -> Initializing \cup {"new", "queued", "rejected"}]
    BY DEF Enqueue, Go, Inv, TypeOK
  <1>2. r \notin Queued /\ r # current /\ answer[r] = "none" /\ Queued \subseteq Requests
    BY ElementsType, LlamaAssumption DEF Inv, OnePlace, TypeOK, Queued
  <1>3. CASE current = None
    <2>1. current' = r /\ queue' = <<>> /\ history' = clean \cup {r} /\ queue = <<>>
      BY <1>3 DEF Enqueue, Idle, Inv, NoneWaits
    <2>2. TypeOK'
      BY <1>1, <2>1, EmptySeq DEF Inv, TypeOK
    <2>3. OnePlace'
      BY <1>1, <1>2, <2>1, NextQueued, EmptyQueue DEF Inv, TypeOK, OnePlace
    <2>4. NoneWaits' /\ OnlyFailuresLeak'
      BY <1>3, <2>1, LlamaAssumption DEF Inv, TypeOK, NoneWaits, OnlyFailuresLeak
    <2> QED BY <2>2, <2>3, <2>4 DEF Inv
  <1>4. CASE current # None
    <2>1. current' = current /\ queue' = Append(queue, r) /\ history' = clean
      BY <1>4 DEF Enqueue, Idle
    <2>2. /\ queue' \in Seq(Requests) /\ Queued' = Queued \cup {r}
          /\ Distinct(queue)'
      BY <1>2, <2>1, JoinQueue, NextQueued DEF Inv, TypeOK, OnePlace, Queued
    <2>3. TypeOK'
      BY <1>1, <2>1, <2>2 DEF Inv, TypeOK
    <2>4. OnePlace'
      <3>1. current' # None => /\ answer'[current'] = "none" /\ current' \notin Queued'
                               /\ at'[current'] = "queued"
        BY <1>1, <1>2, <1>4, <2>1, <2>2 DEF Inv, TypeOK, OnePlace
      <3>2. \A q \in Queued' : answer'[q] = "none" /\ at'[q] = "queued"
        BY <1>1, <1>2, <2>2 DEF Inv, TypeOK, OnePlace
      <3>3. \A q \in Requests : at'[q] # "queued" => answer'[q] = "none"
        BY <1>1, <1>2 DEF Inv, TypeOK, OnePlace
      <3> QED BY <2>2, <3>1, <3>2, <3>3 DEF OnePlace
    <2>5. NoneWaits' /\ OnlyFailuresLeak'
      BY <1>4, <2>1 DEF Inv, NoneWaits, OnlyFailuresLeak
    <2> QED BY <2>3, <2>4, <2>5 DEF Inv
  <1> QED BY <1>3, <1>4

(* The worker's answer.  What remains in the sequence is nothing, or what  *)
(* was in it, the request that failed included.                            *)
LEMMA SettleInv ==
    ASSUME Inv, current # None, NEW a \in {"text", "error"}, NEW remaining \in SUBSET history,
           Settle(a, remaining), a = "text" => remaining = {}
    PROVE  Inv'
  <1>1. /\ current \in Requests /\ answer' = [answer EXCEPT ![current] = a]
        /\ answer' \in [Requests -> {"none", "text", "error"}]
        /\ UNCHANGED <<at, file, whole, unlinks, initialized, faults>>
    BY DEF Inv, TypeOK, Settle, initVars
  <1>2. \A r \in remaining : answer'[r] = "error"
    BY <1>1 DEF Inv, TypeOK, OnlyFailuresLeak
  <1>3. at[current] = "queued" /\ current \notin Queued
    BY DEF Inv, OnePlace
  <1>4. CASE queue = <<>>
    <2>1. current' = None /\ queue' = <<>> /\ history' = remaining
      BY <1>4 DEF Settle
    <2>2. TypeOK'
      BY <1>1, <2>1, EmptySeq DEF Inv, TypeOK
    <2>3. OnePlace'
      BY <1>1, <1>3, <2>1, NextQueued, EmptyQueue DEF Inv, TypeOK, OnePlace
    <2>4. NoneWaits' /\ OnlyFailuresLeak'
      BY <1>2, <2>1 DEF NoneWaits, OnlyFailuresLeak
    <2> QED BY <2>2, <2>3, <2>4 DEF Inv
  <1>5. CASE queue # <<>>
    <2>1. /\ current' = Head(queue) /\ queue' = Tail(queue)
          /\ history' = remaining \cup {Head(queue)}
      BY <1>5 DEF Settle
    <2>2. /\ queue' \in Seq(Requests) /\ Head(queue) \in Requests /\ Head(queue) \in Queued
          /\ Queued' = Queued \ {Head(queue)} /\ Distinct(queue)'
      BY <1>5, <2>1, LeaveQueue, NextQueued DEF Inv, TypeOK, OnePlace, Queued
    <2>3. TypeOK'
      BY <1>1, <2>1, <2>2 DEF Inv, TypeOK
    <2>4. OnePlace'
      <3>1. \A r \in Queued : r \in Requests /\ answer'[r] = "none" /\ at'[r] = "queued"
        BY <1>1, <1>3, ElementsType DEF Inv, TypeOK, OnePlace, Queued
      <3>2. \A r \in Requests : at'[r] # "queued" => answer'[r] = "none"
        BY <1>1, <1>3 DEF Inv, TypeOK, OnePlace
      <3> QED BY <2>1, <2>2, <3>1, <3>2 DEF OnePlace
    <2>5. NoneWaits' /\ OnlyFailuresLeak'
      BY <1>2, <2>1, <2>2, LlamaAssumption DEF NoneWaits, OnlyFailuresLeak
    <2> QED BY <2>3, <2>4, <2>5 DEF Inv
  <1> QED BY <1>4, <1>5

(* A call that is initializing, or begins to, and moves on. *)
LEMMA InitializingInv ==
    ASSUME Inv, NEW r \in Requests, NEW place \in Initializing \cup {"rejected"}, Go(r, place),
           at[r] # "queued", UNCHANGED queueVars, initialized' \in BOOLEAN,
           file' \in Requests \cup {None}, whole' \in BOOLEAN, faults' \in 0 .. MaxFaults, unlinks' \in 0 .. faults'
    PROVE  Inv'
  <1>1. /\ at' = [at EXCEPT ![r] = place]
        /\ at' \in [Requests -> Initializing \cup {"new", "queued", "rejected"}]
        /\ place # "queued" /\ \A q \in Requests : at[q] = "queued" => at'[q] = "queued"
    BY DEF Go, Inv, TypeOK, Initializing
  <1>2. UNCHANGED <<queue, current, history, answer>> /\ Queued' = Queued
        /\ (Distinct(queue)' <=> Distinct(queue))
    BY NextQueued DEF queueVars, Queued
  <1>3. TypeOK'
    BY <1>1, <1>2 DEF Inv, TypeOK
  <1>4. OnePlace'
    <2>1. Queued \subseteq Requests /\ (current # None => current \in Requests)
      BY ElementsType DEF Inv, TypeOK, Queued
    <2> QED BY <1>1, <1>2, <2>1 DEF Inv, OnePlace, TypeOK
  <1>5. NoneWaits' /\ OnlyFailuresLeak'
    BY <1>2 DEF Inv, NoneWaits, OnlyFailuresLeak
  <1> QED BY <1>3, <1>4, <1>5 DEF Inv

LEMMA RetryInv ==
    ASSUME Inv, NEW r \in Requests, at[r] \in Initializing, NEW left \in Nat, Retry(r, left),
           faults' \in 0 .. MaxFaults, left \in 0 .. faults'
    PROVE  Inv'
  <1>1. file' = None /\ whole' \in BOOLEAN /\ initialized' = initialized /\ UNCHANGED queueVars
    BY DEF Retry, DeleteModel, Inv, TypeOK, queueVars
  <1>2. PICK place \in Initializing \cup {"rejected"} : Go(r, place)
    BY <1>1 DEF Retry, Checked, Initializing
  <1>3. unlinks' \in 0 .. faults' /\ at[r] # "queued"
    BY LlamaAssumption DEF Retry, Initializing
  <1> QED BY <1>1, <1>2, <1>3, InitializingInv DEF Inv, TypeOK

LEMMA NextInv == Inv /\ [Next]_vars => Inv'
  <1> SUFFICES ASSUME Inv, [Next]_vars PROVE Inv'
    OBVIOUS
  <1>1. CASE Complete
    BY <1>1, SettleInv DEF Complete, Cleared
  <1>2. CASE CompletionFails
    BY <1>2, SettleInv DEF CompletionFails
  <1>3. ASSUME NEW r \in Requests, Call(r)
        PROVE  Inv'
    <2>1. at[r] = "new" /\ UNCHANGED <<answer, file, whole, unlinks, initialized, faults>>
      BY <1>3 DEF Call, initVars
    <2>2. CASE initialized
      <3>1. Enqueue(r, history)
        BY <1>3, <2>2 DEF Call
      <3> QED BY <2>1, <3>1, EnqueueInv DEF Inv, TypeOK
    <2>3. CASE ~initialized
      <3>1. Go(r, Checked(file)) /\ UNCHANGED queueVars /\ Checked(file) \in Initializing
        BY <1>3, <2>1, <2>3 DEF Call, queueVars, Checked, Initializing
      <3> QED BY <2>1, <3>1, InitializingInv DEF Inv, TypeOK
    <2> QED BY <2>2, <2>3
  <1>4. ASSUME NEW r \in Requests, Open(r) \/ Downloaded(r)
        PROVE  Inv'
    <2>1. PICK place \in Initializing : Go(r, place)
      BY <1>4 DEF Open, Downloaded, Initializing
    <2>2. /\ file' \in Requests \cup {None} /\ whole' \in BOOLEAN
          /\ UNCHANGED <<unlinks, initialized, queueVars, faults>> /\ at[r] # "queued"
      BY <1>4 DEF Open, Downloaded, Inv, TypeOK
    <2> QED BY <2>1, <2>2, InitializingInv DEF Inv, TypeOK
  <1>5. ASSUME NEW r \in Requests, DownloadFails(r) \/ LoadFails(r) \/ LoadFault(r)
        PROVE  Inv'
    <2>1. faults' \in 0 .. MaxFaults /\ at[r] \in Initializing
      BY <1>5, LlamaAssumption DEF DownloadFails, LoadFails, LoadFault, Inv, TypeOK, Initializing
    <2>2. PICK left \in 0 .. faults' : Retry(r, left)
      BY <1>5, LlamaAssumption DEF DownloadFails, LoadFails, LoadFault, Inv, TypeOK
    <2> QED BY <2>1, <2>2, RetryInv
  <1>6. ASSUME NEW r \in Requests, Load(r)
        PROVE  Inv'
    <2>1. /\ Enqueue(r, {}) /\ at[r] = "load" /\ initialized' = TRUE
          /\ UNCHANGED <<file, whole, unlinks, answer, faults>>
      BY <1>6 DEF Load
    <2> QED BY <2>1, EnqueueInv DEF Inv, TypeOK
  <1>7. CASE UNCHANGED vars
    BY <1>7, NextQueued
    DEF vars, Inv, TypeOK, OnePlace, NoneWaits, OnlyFailuresLeak, Queued
  <1>8. CASE Unlink
    <2>1. /\ UNCHANGED <<at, initialized, queue, current, history, answer, faults>>
          /\ file' = None /\ whole' = FALSE /\ unlinks' \in 0 .. faults
      BY <1>8, LlamaAssumption DEF Unlink, queueVars, Inv, TypeOK
    <2> QED BY <2>1, NextQueued DEF Inv, TypeOK, OnePlace, NoneWaits, OnlyFailuresLeak, Queued
  <1> QED BY <1>1, <1>2, <1>3, <1>4, <1>5, <1>6, <1>7, <1>8 DEF Next, Worker, Initialize

LEMMA SpecInv == Spec => []Inv
  BY InitInv, NextInv, PTL DEF Spec

(* The service's fields keep their types. *)
THEOREM TypeCorrect == Spec => []TypeOK
  <1>1. Inv => TypeOK
    BY DEF Inv
  <1> QED BY <1>1, SpecInv, PTL

(* However the calls race through the initialization, the context holds no *)
(* text of another request unless that one failed.                         *)
THEOREM ContextIsClean == Spec => []OnlyFailuresLeak
  <1>1. Inv => OnlyFailuresLeak
    BY DEF Inv
  <1> QED BY <1>1, SpecInv, PTL

----------------------------------------------------------------------------
(* Every step is a step of the serial server, or none of its. *)

LEMMA EnqueueServes ==
    ASSUME Inv, NEW r \in Requests, NEW clean, Enqueue(r, clean), at[r] # "queued",
           UNCHANGED answer
    PROVE  Serial!Next
  <1>1. r \notin Serial!Accepted
    BY LlamaAssumption DEF Serial!Accepted, Inv, OnePlace, TypeOK, Queued, Elements
  <1>2. CASE current = None
    <2>1. current' = r /\ queue' = queue /\ queue = <<>>
      BY <1>2 DEF Enqueue, Idle, Inv, NoneWaits
    <2>2. {current} \ {None} = {} /\ {current'} \ {None} = {r}
      BY <1>2, <2>1, LlamaAssumption
    <2> QED BY <1>1, <2>1, <2>2 DEF Serial!Next, Serial!SubmitAndServe
  <1>3. CASE current # None
    BY <1>1, <1>3 DEF Enqueue, Idle, Serial!Next, Serial!Submit
  <1> QED BY <1>2, <1>3

LEMMA SettleServes ==
    ASSUME Inv, current # None, NEW a \in {"text", "error"}, NEW remaining,
           Settle(a, remaining)
    PROVE  Serial!Next
  <1>0. current \in Requests /\ {current} \ {None} = {current}
    BY LlamaAssumption DEF Inv, TypeOK
  <1>1. {r \in Requests : answer'[r] # "none"}
            = {r \in Requests : answer[r] # "none"} \cup {current}
    <2>1. answer' = [answer EXCEPT ![current] = a]
      BY DEF Settle
    <2> QED BY <1>0, <2>1 DEF Inv, TypeOK
  <1>2. CASE queue = <<>>
    <2>1. queue' = queue /\ {current'} \ {None} = {}
      BY <1>2 DEF Settle
    <2> QED BY <1>0, <1>1, <1>2, <2>1 DEF Serial!Next, Serial!Answer
  <1>3. CASE queue # <<>>
    <2>1. current' = Head(queue) /\ queue' = Tail(queue)
      BY <1>3 DEF Settle
    <2>2. Head(queue) \in Requests
      BY <1>3, HeadTailProperties DEF Inv, TypeOK
    <2>3. {current'} \ {None} = {Head(queue)}
      BY <2>1, <2>2, LlamaAssumption
    <2> QED BY <1>0, <1>1, <1>3, <2>1, <2>3 DEF Serial!Next, Serial!Answer
  <1> QED BY <1>2, <1>3

LEMMA StepServes == Inv /\ [Next]_vars => [Serial!Next]_(Serial!vars)
  <1> SUFFICES ASSUME Inv, [Next]_vars PROVE [Serial!Next]_(Serial!vars)
    OBVIOUS
  <1>1. CASE Worker
    BY <1>1, SettleServes DEF Worker, Complete, CompletionFails
  <1>2. ASSUME NEW r \in Requests, Call(r)
        PROVE  [Serial!Next]_(Serial!vars)
    <2>1. CASE initialized
      BY <1>2, <2>1, EnqueueServes DEF Call
    <2>2. CASE ~initialized
      BY <1>2, <2>2 DEF Call, Serial!vars
    <2> QED BY <2>1, <2>2
  <1>3. ASSUME NEW r \in Requests, Load(r)
        PROVE  Serial!Next
    BY <1>3, EnqueueServes DEF Load
  <1>4. ASSUME NEW r \in Requests, \/ Open(r) \/ Downloaded(r) \/ DownloadFails(r)
                                   \/ LoadFails(r) \/ LoadFault(r)
        PROVE  UNCHANGED Serial!vars
    BY <1>4 DEF Open, Downloaded, DownloadFails, LoadFails, LoadFault, Retry,
                queueVars, Serial!vars
  <1>5. CASE UNCHANGED vars
    BY <1>5 DEF vars, Serial!vars
  <1>6. CASE Unlink
    BY <1>6 DEF Unlink, queueVars, Serial!vars
  <1> QED BY <1>1, <1>2, <1>3, <1>4, <1>5, <1>6 DEF Next, Initialize

(* The queue of the local model implements the serial server, for any      *)
(* number of calls, downloads and failures.                                *)
THEOREM Refinement == Spec => ServesSerially
  <1>1. Init => Serial!Init
    BY DEF Init, Serial!Init
  <1> QED BY <1>1, StepServes, SpecInv, PTL DEF Spec, ServesSerially, Serial!Spec

----------------------------------------------------------------------------
(* VoiceChannels.  At most one connection is not destroyed, the one that   *)
(* is tracked, and only one that listens is in the map or waited for.      *)

OnlyTracked ==
    /\ \A c \in 1 .. chMade : chStatus[c] # "destroyed" => c = chTracked
    /\ \A c \in 1 .. chMade : chStatus[c] = "up" \/ c \in chWaiting => Ch!Listening(c)

MapIsTracked ==
    /\ \A ch \in Channels : chMap[ch] # 0 =>
           /\ chMap[ch] = chTracked /\ chStatus[chMap[ch]] # "destroyed"
           /\ chGoal[chMap[ch]] = ch /\ Ch!Listening(chMap[ch])
    /\ chTracked # 0 /\ Ch!Listening(chTracked) => chMap[chGoal[chTracked]] = chTracked

EndsAfterADrop ==
    /\ chWaiting # {} => chDrops > 0
    /\ Ch!JoinsMayOverlap

ChannelsInv == Ch!TypeOK /\ OnlyTracked /\ MapIsTracked /\ EndsAfterADrop

LEMMA AppendIs ==
    ASSUME NEW S, NEW n \in Nat, NEW f \in [1 .. n -> S], NEW x \in S
    PROVE  /\ Append(f, x) \in [1 .. (n + 1) -> S]
           /\ \A i \in 1 .. n : Append(f, x)[i] = f[i]
           /\ Append(f, x)[n + 1] = x
  <1>1. f \in Seq(S)
    OBVIOUS
  <1>2. Len(f) = n
    BY <1>1, LenProperties
  <1>3. LET g == Append(f, x)
        IN  /\ g \in Seq(S) /\ Len(g) = n + 1
            /\ \A i \in 1 .. n : g[i] = f[i]
            /\ g[n + 1] = x
    BY <1>1, <1>2, AppendProperties
  <1> QED BY <1>3, LenProperties

(* The map has no entry, or that of the tracked connection. *)
LEMMA OnlyEntry ==
    ASSUME ChannelsInv
    PROVE  LET empty == [k \in Channels |-> 0]
           IN  /\ chTracked = 0 \/ ~Ch!Listening(chTracked) => chMap = empty
               /\ chTracked # 0 => /\ Ch!Unlisted(chTracked) = empty
                                   /\ Ch!Forget(chGoal[chTracked]) = empty
  <1>1. chMap \in [Channels -> 0 .. chMade] /\ chTracked \in 0 .. chMade /\ chMade \in Nat
    BY DEF ChannelsInv, Ch!TypeOK
  <1>2. ASSUME NEW k \in Channels, chMap[k] # 0
        PROVE  k = chGoal[chTracked] /\ Ch!Listening(chTracked) /\ chTracked # 0
    BY <1>2 DEF ChannelsInv, MapIsTracked
  <1> QED BY <1>1, <1>2 DEF Ch!Unlisted, Ch!Forget

(* joinChannel: the connection that was tracked is destroyed, and with it  *)
(* goes its entry, the only one there was.                                 *)
LEMMA ChannelsJoin ==
    ASSUME Ch!VoiceChannelsAssumption, ChannelsInv, NEW ch \in Channels, Ch!Join(ch)
    PROVE  ChannelsInv'
  <1> DEFINE c == chMade + 1
             left == IF chTracked = 0 THEN chStatus ELSE Ch!Destroyed(chTracked)
             rest == IF chTracked = 0 THEN chMap ELSE Ch!Unlisted(chTracked)
  <1>1. /\ chMade \in Nat /\ chMade < MaxConnections /\ MaxConnections \in Nat
        /\ chStatus \in [1 .. chMade -> {"up", "down", "destroyed"}]
        /\ chGoal \in [1 .. chMade -> Channels]
        /\ chJoining \in [1 .. chMade -> {"connecting", "deafened", "joined", "failed"}]
        /\ chTracked \in 0 .. chMade /\ chMap \in [Channels -> 0 .. chMade]
        /\ chWaiting \subseteq 1 .. chMade
    BY DEF ChannelsInv, Ch!TypeOK, Ch!Made, Ch!Join, Ch!VoiceChannelsAssumption
  <1>2. /\ chRunning /\ chMade' = c /\ chTracked' = c /\ chGoal' = Append(chGoal, ch)
        /\ UNCHANGED <<chRunning, chWaiting, chDrops>>
        /\ \/ /\ chStatus' = Append(left, "up")
              /\ \E place \in Ch!Entered : chJoining' = Append(chJoining, place)
              /\ chMap' = [rest EXCEPT ![ch] = c]
           \/ /\ chStatus' = Append(left, "down") /\ chJoining' = Append(chJoining, "connecting")
              /\ chMap' = rest
    BY Zenon DEF Ch!Join
  <1>3. /\ left \in [1 .. chMade -> {"up", "down", "destroyed"}]
        /\ \A d \in 1 .. chMade : left[d] = "destroyed"
        /\ \A d \in 1 .. chMade : chStatus[d] = "destroyed" => left[d] = "destroyed"
    BY <1>1 DEF ChannelsInv, OnlyTracked, Ch!Destroyed
  <1>4. rest = [k \in Channels |-> 0]
    BY OnlyEntry
  <1> HIDE DEF left, rest
  <1>5. PICK up \in {"up", "down"}, place \in {"connecting", "deafened", "joined"} :
            /\ chStatus' = Append(left, up) /\ chJoining' = Append(chJoining, place)
            /\ \/ /\ up = "up" /\ place \in Ch!Entered
                  /\ chMap' = [rest EXCEPT ![ch] = c]
               \/ up = "down" /\ place = "connecting" /\ chMap' = rest
    BY <1>2 DEF Ch!Entered
  <1>6. /\ chStatus' \in [1 .. c -> {"up", "down", "destroyed"}]
        /\ \A d \in 1 .. chMade : chStatus'[d] = "destroyed"
        /\ \A d \in 1 .. chMade : chStatus[d] = "destroyed" => chStatus'[d] = "destroyed"
        /\ chStatus'[c] = up
    <2>1. up \in {"up", "down", "destroyed"}
      BY <1>5
    <2>2. chStatus' \in [1 .. (chMade + 1) -> {"up", "down", "destroyed"}]
      BY <1>1, <1>3, <1>5, <2>1, AppendIs, Zenon
    <2>3. \A d \in 1 .. chMade : chStatus'[d] = left[d]
      BY <1>1, <1>3, <1>5, <2>1, AppendIs
    <2>4. chStatus'[chMade + 1] = up
      BY <1>1, <1>3, <1>5, <2>1, AppendIs
    <2> QED BY <1>3, <2>2, <2>3, <2>4
  <1>7. /\ chJoining' \in [1 .. c -> {"connecting", "deafened", "joined", "failed"}]
        /\ \A d \in 1 .. chMade : chJoining'[d] = chJoining[d]
        /\ chJoining'[c] = place
    <2>1. place \in {"connecting", "deafened", "joined", "failed"}
      BY <1>5
    <2>2. chJoining' \in [1 .. (chMade + 1) -> {"connecting", "deafened", "joined", "failed"}]
      BY <1>1, <1>5, <2>1, AppendIs, Zenon
    <2>3. \A d \in 1 .. chMade : chJoining'[d] = chJoining[d]
      BY <1>1, <1>5, <2>1, AppendIs
    <2>4. chJoining'[chMade + 1] = place
      BY <1>1, <1>5, <2>1, AppendIs
    <2> QED BY <2>2, <2>3, <2>4
  <1>8. chGoal' \in [1 .. c -> Channels] /\ chGoal'[c] = ch
    <2>1. chGoal' \in [1 .. (chMade + 1) -> Channels]
      BY <1>1, <1>2, AppendIs, Zenon
    <2>2. chGoal'[chMade + 1] = ch
      BY <1>1, <1>2, AppendIs
    <2> QED BY <2>1, <2>2
  <1>9. /\ chMap' \in [Channels -> 0 .. c]
        /\ chMap'[ch] = IF up = "up" THEN c ELSE 0
        /\ \A k \in Channels \ {ch} : chMap'[k] = 0
    <2>1. CASE up = "up" /\ chMap' = [rest EXCEPT ![ch] = c]
      BY <1>1, <1>4, <2>1
    <2>2. CASE up = "down" /\ chMap' = rest
      BY <1>1, <1>4, <2>2
    <2> QED BY <1>5, <2>1, <2>2
  <1>10. Ch!TypeOK'
    BY <1>1, <1>2, <1>6, <1>7, <1>8, <1>9 DEF ChannelsInv, Ch!TypeOK, Ch!Made
  <1>11. OnlyTracked'
    BY <1>1, <1>2, <1>5, <1>6, <1>7
       DEF ChannelsInv, OnlyTracked, Ch!Listening, Ch!Entered
  <1>12. MapIsTracked'
    BY <1>1, <1>2, <1>5, <1>6, <1>7, <1>8, <1>9 DEF MapIsTracked, Ch!Listening, Ch!Entered
  <1>13. EndsAfterADrop'
    BY <1>2 DEF ChannelsInv, EndsAfterADrop, Ch!JoinsMayOverlap
  <1> QED BY <1>10, <1>11, <1>12, <1>13 DEF ChannelsInv

(* The other steps. *)
LEMMA ChannelsStep ==
    ASSUME Ch!VoiceChannelsAssumption, ChannelsInv,
           \/ Ch!Leave
           \/ \E c \in Ch!Made :
                  \/ Ch!Connected(c) \/ Ch!ConnectTimesOut(c) \/ Ch!Undeafened(c)
                  \/ Ch!Drop(c) \/ Ch!Return(c) \/ Ch!WaitTimesOut(c)
    PROVE  ChannelsInv'
  <1> USE DEF Ch!Made, Ch!Listening
  <1>1. /\ chMade \in Nat /\ chMade' = chMade /\ chGoal' = chGoal
        /\ MaxConnections \in Nat /\ MaxDrops \in Nat /\ chDrops \in Nat
        /\ chStatus \in [1 .. chMade -> {"up", "down", "destroyed"}]
        /\ chGoal \in [1 .. chMade -> Channels]
        /\ chJoining \in [1 .. chMade -> {"connecting", "deafened", "joined", "failed"}]
        /\ chTracked \in 0 .. chMade /\ chMap \in [Channels -> 0 .. chMade]
        /\ chWaiting \subseteq 1 .. chMade
    BY DEF ChannelsInv, Ch!TypeOK, Ch!VoiceChannelsAssumption, Ch!Leave, Ch!Connected,
           Ch!ConnectTimesOut, Ch!Undeafened, Ch!Drop, Ch!Return, Ch!WaitTimesOut
  <1>2. CASE Ch!Leave
    <2>1. /\ chRunning /\ chTracked # 0 /\ chTracked' = 0
          /\ chStatus' = [chStatus EXCEPT ![chTracked] = "destroyed"]
          /\ chMap' = [k \in Channels |-> 0]
          /\ UNCHANGED <<chRunning, chJoining, chWaiting, chDrops>>
      BY <1>2, OnlyEntry DEF Ch!Leave, Ch!Destroyed
    <2>2. \A c \in 1 .. chMade : chStatus'[c] = "destroyed"
      BY <1>1, <2>1 DEF ChannelsInv, OnlyTracked
    <2>3. Ch!TypeOK' /\ OnlyTracked'
      BY <1>1, <2>1, <2>2 DEF ChannelsInv, Ch!TypeOK, OnlyTracked
    <2>4. MapIsTracked' /\ EndsAfterADrop'
      BY <2>1 DEF ChannelsInv, MapIsTracked, EndsAfterADrop, Ch!JoinsMayOverlap
    <2> QED BY <2>3, <2>4 DEF ChannelsInv
  <1>3. ASSUME NEW c \in 1 .. chMade, Ch!Connected(c) PROVE ChannelsInv'
    <2>1. /\ chRunning /\ chJoining[c] = "connecting" /\ chStatus[c] = "down"
          /\ chStatus' = [chStatus EXCEPT ![c] = "up"]
          /\ \E place \in {"deafened", "joined"} : chJoining' = [chJoining EXCEPT ![c] = place]
          /\ chMap' = [chMap EXCEPT ![chGoal[c]] = c]
          /\ UNCHANGED <<chRunning, chTracked, chWaiting, chDrops>>
      BY <1>3 DEF Ch!Connected, Ch!Entered
    <2>2. c = chTracked /\ c # 0
      BY <2>1 DEF ChannelsInv, OnlyTracked
    <2>3. chMap = [k \in Channels |-> 0]
      BY <2>1, <2>2, OnlyEntry
    <2>4. Ch!TypeOK' /\ OnlyTracked'
      BY <1>1, <2>1 DEF ChannelsInv, Ch!TypeOK, OnlyTracked
    <2>5. MapIsTracked'
      BY <1>1, <2>1, <2>2, <2>3 DEF MapIsTracked
    <2>6. EndsAfterADrop'
      BY <2>1 DEF ChannelsInv, EndsAfterADrop, Ch!JoinsMayOverlap
    <2> QED BY <2>4, <2>5, <2>6 DEF ChannelsInv
  <1>4. ASSUME NEW c \in 1 .. chMade, Ch!ConnectTimesOut(c) PROVE ChannelsInv'
    <2>1. /\ chRunning /\ chJoining[c] = "connecting"
          /\ chJoining' = [chJoining EXCEPT ![c] = "failed"]
          /\ UNCHANGED <<chRunning, chWaiting, chDrops>>
          /\ Ch!GiveUp(c)
      BY <1>4 DEF Ch!ConnectTimesOut
    <2>2. chStatus[c] # "up" /\ c \notin chWaiting
      BY <2>1 DEF ChannelsInv, OnlyTracked
    <2>3. EndsAfterADrop'
      BY <2>1 DEF ChannelsInv, EndsAfterADrop, Ch!JoinsMayOverlap
    <2>4. CASE chStatus[c] = "destroyed"
      <3>1. UNCHANGED <<chStatus, chTracked, chMap>>
        BY <2>1, <2>4 DEF Ch!GiveUp
      <3> QED BY <1>1, <2>1, <2>2, <2>3, <3>1
              DEF ChannelsInv, Ch!TypeOK, OnlyTracked, MapIsTracked
    <2>5. CASE chStatus[c] # "destroyed"
      <3>1. c = chTracked
        BY <2>5 DEF ChannelsInv, OnlyTracked
      <3>2. /\ chStatus' = [chStatus EXCEPT ![c] = "destroyed"] /\ chTracked' = 0
            /\ chMap' = [k \in Channels |-> 0]
        BY <2>1, <2>5, <3>1, OnlyEntry DEF Ch!GiveUp, Ch!Destroyed
      <3>3. Ch!TypeOK' /\ OnlyTracked'
        BY <1>1, <2>1, <2>2, <3>1, <3>2 DEF ChannelsInv, Ch!TypeOK, OnlyTracked
      <3>4. MapIsTracked'
        BY <3>2 DEF MapIsTracked
      <3> QED BY <2>3, <3>3, <3>4 DEF ChannelsInv
    <2> QED BY <2>4, <2>5
  <1>5. ASSUME NEW c \in 1 .. chMade, Ch!Undeafened(c) PROVE ChannelsInv'
    <2>1. /\ chJoining[c] = "deafened" /\ chJoining' = [chJoining EXCEPT ![c] = "joined"]
          /\ UNCHANGED <<chRunning, chStatus, chTracked, chMap, chWaiting, chDrops>>
      BY <1>5 DEF Ch!Undeafened
    <2>2. Ch!TypeOK' /\ OnlyTracked' /\ MapIsTracked'
      BY <1>1, <2>1 DEF ChannelsInv, Ch!TypeOK, OnlyTracked, MapIsTracked
    <2>3. EndsAfterADrop'
      BY <1>1, <2>1 DEF ChannelsInv, EndsAfterADrop, Ch!JoinsMayOverlap
    <2> QED BY <2>2, <2>3 DEF ChannelsInv
  <1>6. ASSUME NEW c \in 1 .. chMade, Ch!Drop(c) PROVE ChannelsInv'
    <2>1. /\ chRunning /\ chStatus[c] = "up" /\ chDrops < MaxDrops /\ chDrops' = chDrops + 1
          /\ chStatus' = [chStatus EXCEPT ![c] = "down"] /\ chWaiting' = chWaiting \cup {c}
          /\ UNCHANGED <<chRunning, chTracked, chJoining, chMap>>
      BY <1>6 DEF Ch!Drop
    <2>2. Ch!TypeOK' /\ OnlyTracked'
      BY <1>1, <2>1 DEF ChannelsInv, Ch!TypeOK, OnlyTracked
    <2>3. MapIsTracked'
      BY <1>1, <2>1 DEF ChannelsInv, MapIsTracked
    <2>4. EndsAfterADrop'
      BY <1>1, <2>1 DEF ChannelsInv, EndsAfterADrop, Ch!JoinsMayOverlap
    <2> QED BY <2>2, <2>3, <2>4 DEF ChannelsInv
  <1>7. ASSUME NEW c \in 1 .. chMade, Ch!Return(c) PROVE ChannelsInv'
    <2>1. /\ chRunning /\ c \in chWaiting /\ chStatus[c] = "down"
          /\ chStatus' = [chStatus EXCEPT ![c] = "up"] /\ chWaiting' = chWaiting \ {c}
          /\ chMap' = IF chMap[chGoal[c]] = 0 THEN [chMap EXCEPT ![chGoal[c]] = c] ELSE chMap
          /\ UNCHANGED <<chRunning, chTracked, chJoining, chDrops>>
      BY <1>7 DEF Ch!Return
    <2>2. c = chTracked /\ c # 0 /\ Ch!Listening(c)
      BY <2>1 DEF ChannelsInv, OnlyTracked
    <2>3. chMap' = chMap
      BY <2>1, <2>2 DEF ChannelsInv, MapIsTracked
    <2>4. Ch!TypeOK' /\ OnlyTracked'
      BY <1>1, <2>1, <2>2, <2>3 DEF ChannelsInv, Ch!TypeOK, OnlyTracked
    <2>5. MapIsTracked'
      BY <1>1, <2>1, <2>2, <2>3 DEF ChannelsInv, MapIsTracked
    <2>6. EndsAfterADrop'
      BY <1>1, <2>1 DEF ChannelsInv, EndsAfterADrop, Ch!JoinsMayOverlap
    <2> QED BY <2>4, <2>5, <2>6 DEF ChannelsInv
  <1>8. ASSUME NEW c \in 1 .. chMade, Ch!WaitTimesOut(c) PROVE ChannelsInv'
    <2>1. /\ chRunning /\ c \in chWaiting /\ chWaiting' = chWaiting \ {c}
          /\ UNCHANGED <<chJoining, chDrops>> /\ Ch!Confirm(c)
      BY <1>8 DEF Ch!WaitTimesOut
    <2>2. chDrops > 0
      BY <2>1 DEF ChannelsInv, EndsAfterADrop
    <2>3. CASE chStatus[c] = "destroyed"
      <3>1. chRunning' = FALSE /\ UNCHANGED <<chStatus, chTracked, chMap>>
        BY <2>1, <2>3 DEF Ch!Confirm
      <3>2. Ch!TypeOK'
        BY <1>1, <2>1, <3>1 DEF ChannelsInv, Ch!TypeOK
      <3>3. OnlyTracked' /\ MapIsTracked'
        BY <1>1, <2>1, <3>1 DEF ChannelsInv, OnlyTracked, MapIsTracked
      <3>4. EndsAfterADrop'
        BY <1>1, <2>1, <2>2, <2>3, <3>1 DEF EndsAfterADrop, Ch!JoinsMayOverlap
      <3> QED BY <3>2, <3>3, <3>4 DEF ChannelsInv
    <2>4. CASE chStatus[c] # "destroyed"
      <3>1. c = chTracked
        BY <2>4 DEF ChannelsInv, OnlyTracked
      <3>2. /\ chStatus' = [chStatus EXCEPT ![c] = "destroyed"] /\ chTracked' = 0
            /\ chMap' = [k \in Channels |-> 0] /\ chRunning' = chRunning
        BY <2>1, <2>4, <3>1, OnlyEntry DEF Ch!Confirm, Ch!GiveUp, Ch!Destroyed
      <3>3. Ch!TypeOK' /\ OnlyTracked'
        BY <1>1, <2>1, <3>1, <3>2 DEF ChannelsInv, Ch!TypeOK, OnlyTracked
      <3>4. MapIsTracked' /\ EndsAfterADrop'
        BY <2>1, <2>2, <3>2 DEF MapIsTracked, EndsAfterADrop, Ch!JoinsMayOverlap
      <3> QED BY <3>3, <3>4 DEF ChannelsInv
    <2> QED BY <2>3, <2>4
  <1> QED BY <1>2, <1>3, <1>4, <1>5, <1>6, <1>7, <1>8

LEMMA ChannelsSpec == ASSUME Ch!VoiceChannelsAssumption PROVE Ch!Spec => []ChannelsInv
  <1>1. Ch!Init => ChannelsInv
    BY DEF Ch!VoiceChannelsAssumption, Ch!Init, ChannelsInv, Ch!TypeOK, Ch!Made, OnlyTracked,
           MapIsTracked, EndsAfterADrop, Ch!JoinsMayOverlap
  <1>2. ChannelsInv /\ [Ch!Next]_Ch!vars => ChannelsInv'
    <2>1. CASE UNCHANGED Ch!vars
      BY <2>1 DEF Ch!vars, ChannelsInv, Ch!TypeOK, Ch!Made, OnlyTracked, Ch!Listening,
         MapIsTracked, EndsAfterADrop, Ch!JoinsMayOverlap
    <2>2. ChannelsInv /\ Ch!Next => ChannelsInv'
      BY ChannelsJoin, ChannelsStep DEF Ch!Next
    <2> QED BY <2>1, <2>2
  <1> QED BY <1>1, <1>2, PTL DEF Ch!Spec

(* The map of connections and the connection that Discord's library tracks *)
(* agree, however calls, drops and timeouts overlap.                       *)
THEOREM MapIsRight ==
    ASSUME Ch!VoiceChannelsAssumption
    PROVE  Ch!Spec => []Ch!MapFollowsConnection
  <1>1. ChannelsInv => Ch!MapFollowsConnection
    BY DEF ChannelsInv, OnlyTracked, MapIsTracked, Ch!MapFollowsConnection, Ch!Made
  <1> QED BY <1>1, ChannelsSpec, PTL

(* Calls of joinChannel that overlap never end the process by themselves:  *)
(* there was a drop, and a connection that is gone.                        *)
THEOREM JoiningEndsNothing ==
    ASSUME Ch!VoiceChannelsAssumption
    PROVE  Ch!Spec => []Ch!JoinsMayOverlap
  <1>1. ChannelsInv => Ch!JoinsMayOverlap
    BY DEF ChannelsInv, EndsAfterADrop
  <1> QED BY <1>1, ChannelsSpec, PTL

----------------------------------------------------------------------------
(* Embeddings.  A place of sqlite has vectors of one dimension besides the *)
(* empty one; while the settings stay, those of each place come from one   *)
(* source, or in a channel of Discord from two.                            *)
SqliteRows ==
    emDatabase = "sqlite" =>
        \A p \in Em!Places : \A v, w \in emRows[p] \ {"0"} : v = w

SteadyRows ==
    (emDatabase = "sqlite" /\ ~emChanged) =>
        /\ emRows["fragments"] \subseteq {"0", Em!Config[emProvider]}
        /\ emRows["discord"] \subseteq {"0", Em!Config[emProvider], Em!Zero}
        /\ emRows["telegram"] \subseteq {Em!Zero}

PostgresRows ==
    emDatabase = "postgres" => \A p \in Em!Places : emRows[p] \subseteq {emColumn, "null"}

EmbeddingsInv ==
    Em!TypeOK /\ SqliteRows /\ SteadyRows /\ PostgresRows
    /\ Em!OneDimension /\ Em!SteadySettingsFit /\ Em!ColumnDecides

(* The dimensions of a provider's vectors, and of its zeros. *)
LEMMA ProviderDimensions ==
    ASSUME Em!TypeOK
    PROVE  /\ Em!Config[emProvider] \in Em!Dimensions /\ Em!Zero \in Em!Dimensions
           /\ emProvider = "BGE" => Em!Config[emProvider] = "384"
           /\ \/ Em!Zero = Em!Config[emProvider]
              \/ /\ emProvider = "GaiaNet"
                 /\ Em!Config[emProvider] = "1536" /\ Em!Zero = "384"
  BY DEF Em!TypeOK, Em!Providers, Em!Config, Em!ZeroVector, Em!Zero, Em!Dimensions

(* What is embedded is of the provider's dimension, if there is an answer: *)
(* the cache never has any.                                                *)
LEMMA EmbedIs ==
    ASSUME Em!TypeOK
    PROVE  /\ Em!Embed \subseteq {Em!Config[emProvider], "undefined", "throws"}
           /\ Em!Embedded \subseteq {Em!Config[emProvider], Em!Zero, "undefined"}
  <1>1. Em!Cached = {}
    BY DEF Em!Cached, Em!CachedIn, Em!Fields
  <1>2. Em!Embed \subseteq {Em!Config[emProvider], "undefined", "throws"}
    BY <1>1, ProviderDimensions DEF Em!Embed, Em!Local, Em!Remote
  <1> QED BY <1>2 DEF Em!Embedded

(* The sources of a place. *)
Source(p) ==
    CASE p = "fragments" -> {Em!Config[emProvider], "undefined"}
      [] p = "discord" -> {Em!Config[emProvider], Em!Zero, "undefined"}
      [] p = "telegram" -> {Em!Zero}
      [] OTHER -> {"undefined"}

LEMMA CreateKeepsInv ==
    ASSUME EmbeddingsInv, NEW p \in Em!Places, NEW v \in Source(p), Em!CreateMemory(p, v)
    PROVE  EmbeddingsInv'
  <1> DEFINE S == emRows[p]
  <1>1. /\ UNCHANGED <<emDatabase, emColumn, emProvider, emChanged>>
        /\ emRows' = IF Em!Takes(p, v) THEN [emRows EXCEPT ![p] = S \cup {Em!Kept(v)}] ELSE emRows
        /\ emAnswer' = [call |-> "create", place |-> p, vector |-> v, ok |-> Em!Takes(p, v)]
    BY DEF Em!CreateMemory
  <1>2. v \in Em!Dimensions \cup {"undefined"} /\ Em!Kept(v) \in Em!Dimensions \cup {"0", "null"}
    BY ProviderDimensions DEF EmbeddingsInv, Source, Em!Kept, Em!Dimensions
  <1>3. Em!Takes(p, v) \in BOOLEAN
    BY DEF Em!Takes, Em!SqliteTakes, Em!PostgresTakes, Em!Comparable
  <1>4. Em!TypeOK'
    BY <1>1, <1>2, <1>3 DEF EmbeddingsInv, Em!TypeOK
  <1>5. SqliteRows' /\ Em!OneDimension'
    <2> SUFFICES ASSUME emDatabase = "sqlite" PROVE SqliteRows' /\ Em!OneDimension'
      BY <1>1 DEF SqliteRows, Em!OneDimension
    <2>1. \A q \in Em!Places : emRows'[q] = IF q = p /\ Em!Takes(p, v) THEN S \cup {Em!Kept(v)}
                                            ELSE emRows[q]
      BY <1>1 DEF EmbeddingsInv, Em!TypeOK
    <2>2. Em!Takes(p, v) => \/ v = "undefined" /\ Em!Kept(v) = "0"
                            \/ v # "undefined" /\ Em!Kept(v) = v /\ S \subseteq {v}
      BY DEF Em!Takes, Em!SqliteTakes, Em!Comparable, Em!Kept
    <2>3. \A q \in Em!Places : \A x, y \in emRows'[q] \ {"0"} : x = y
      BY <2>1, <2>2 DEF EmbeddingsInv, SqliteRows
    <2>4. Em!Takes(p, v) /\ v # "undefined" => emRows'[p] = {v}
      BY <2>1, <2>2
    <2>6. emAnswer'.place = p /\ emAnswer'.vector = v /\ emAnswer'.ok = Em!Takes(p, v)
      BY <1>1
    <2>7. SqliteRows'
      BY <2>3 DEF SqliteRows
    <2>8. (Em!Takes(p, v) /\ v # "undefined") => emRows'[emAnswer'.place] = {emAnswer'.vector}
      BY <2>4, <2>6
    <2>9. Em!OneDimension'
      BY <2>3, <2>6, <2>8 DEF Em!OneDimension
    <2> QED BY <2>7, <2>9
  <1>6. SteadyRows' /\ Em!SteadySettingsFit'
    <2> SUFFICES ASSUME emDatabase = "sqlite", ~emChanged PROVE SteadyRows' /\ Em!SteadySettingsFit'
      BY <1>1 DEF SteadyRows, Em!SteadySettingsFit
    <2>1. SteadyRows'
      <3>1. \A q \in Em!Places : emRows'[q] = emRows[q] \/ (q = p /\ emRows'[q] = S \cup {Em!Kept(v)})
        BY <1>1 DEF EmbeddingsInv, Em!TypeOK
      <3>2. Em!Kept(v) = IF v = "undefined" THEN "0" ELSE v
        BY DEF Em!Kept
      <3>3. Em!Zero \in Em!Dimensions /\ Em!Zero' = Em!Zero
        BY <1>1, ProviderDimensions DEF EmbeddingsInv, Em!Zero
      <3>4. emRows'["fragments"] \subseteq {"0", Em!Config[emProvider]}
        BY <3>1, <3>2 DEF EmbeddingsInv, SteadyRows, Source, Em!Places, Em!Messages
      <3>5. emRows'["discord"] \subseteq {"0", Em!Config[emProvider], Em!Zero}
        BY <3>1, <3>2 DEF EmbeddingsInv, SteadyRows, Source, Em!Places, Em!Messages
      <3>6. emRows'["telegram"] \subseteq {Em!Zero}
        BY <3>1, <3>2, <3>3
           DEF EmbeddingsInv, SteadyRows, Source, Em!Places, Em!Messages, Em!Dimensions
      <3> QED BY <1>1, <3>3, <3>4, <3>5, <3>6 DEF SteadyRows
    <2>2. ASSUME "0" \notin emRows["discord"], "0" \notin emRows["fragments"],
                 v \in Em!Dimensions, ~Em!Takes(p, v)
          PROVE  emProvider = "GaiaNet" /\ p = "discord" /\ (v = "384" <=> "1536" \in S)
      <3>1. ~(S \subseteq {v})
        BY <2>2 DEF Em!Takes, Em!SqliteTakes, Em!Comparable, Em!Dimensions
      <3>2. p # "fragments" /\ p # "telegram" /\ p # "direct"
        BY <2>2, <3>1 DEF EmbeddingsInv, SteadyRows, Source, Em!Dimensions
      <3>3. p = "discord" /\ S \subseteq {Em!Config[emProvider], Em!Zero}
        BY <2>2, <3>2 DEF EmbeddingsInv, SteadyRows, Em!Places, Em!Messages
      <3>4. v \in {Em!Config[emProvider], Em!Zero}
        BY <2>2, <3>3 DEF Source, Em!Dimensions
      <3>5. emProvider = "GaiaNet" /\ Em!Config[emProvider] = "1536" /\ Em!Zero = "384"
        BY <3>1, <3>3, <3>4, ProviderDimensions DEF EmbeddingsInv
      <3>6. \A x, y \in S : x = y
        BY <2>2, <3>3 DEF EmbeddingsInv, SqliteRows
      <3> QED BY <3>1, <3>3, <3>4, <3>5, <3>6
    <2> QED BY <1>1, <2>1, <2>2 DEF Em!SteadySettingsFit
  <1>7. PostgresRows' /\ Em!ColumnDecides'
    <2> SUFFICES ASSUME emDatabase = "postgres" PROVE PostgresRows' /\ Em!ColumnDecides'
      BY <1>1 DEF PostgresRows, Em!ColumnDecides
    <2>1. Em!Takes(p, v) => \/ v = "undefined" /\ Em!Kept(v) = "null"
                            \/ v = Em!Config[emProvider] /\ v = emColumn /\ Em!Kept(v) = v
      BY DEF Em!Takes, Em!PostgresTakes, Em!Kept
    <2>2. PostgresRows'
      BY <1>1, <2>1 DEF EmbeddingsInv, PostgresRows, Em!TypeOK
    <2> QED BY <1>1, <2>1, <2>2 DEF PostgresRows, Em!ColumnDecides
  <1> QED BY <1>4, <1>5, <1>6, <1>7 DEF EmbeddingsInv

(* A call that changes no row. *)
LEMMA LookKeepsInv ==
    ASSUME EmbeddingsInv, NEW call \in {"embed", "search", "provide"}, NEW p \in Em!Places,
           NEW v \in Em!Embed, NEW ok \in BOOLEAN,
           UNCHANGED <<emDatabase, emColumn, emProvider, emChanged, emRows>>,
           emAnswer' = [call |-> call, place |-> p, vector |-> v, ok |-> ok],
           call = "embed" => v = "throws",
           call = "provide" => (ok <=> v # "throws"),
           call = "search" => p = "fragments" /\ ok = Em!Finds(emRows[p], v) /\ v # "throws"
    PROVE  EmbeddingsInv'
  <1>1. v \in {Em!Config[emProvider], "undefined", "throws"}
    BY EmbedIs DEF EmbeddingsInv
  <1>2. Em!TypeOK'
    BY <1>1, ProviderDimensions DEF EmbeddingsInv, Em!TypeOK
  <1>3. SqliteRows' /\ SteadyRows' /\ PostgresRows' /\ Em!OneDimension'
    BY DEF EmbeddingsInv, SqliteRows, SteadyRows, PostgresRows, Em!OneDimension, Em!Zero
  <1>4. Em!SteadySettingsFit'
    <2> SUFFICES ASSUME emDatabase = "sqlite", ~emChanged, "0" \notin emRows["fragments"],
                        v \in Em!Dimensions, ~ok
                 PROVE  FALSE
      BY DEF Em!SteadySettingsFit
    <2>1. v = Em!Config[emProvider] /\ call = "search" /\ p = "fragments"
      BY <1>1 DEF Em!Dimensions
    <2>2. emRows[p] \subseteq {v}
      BY <2>1 DEF EmbeddingsInv, SteadyRows
    <2> QED BY <2>1, <2>2 DEF Em!Finds, Em!Comparable, Em!Dimensions
  <1>5. Em!ColumnDecides'
    BY DEF EmbeddingsInv, Em!ColumnDecides, Em!Finds
  <1> QED BY <1>2, <1>3, <1>4, <1>5 DEF EmbeddingsInv

LEMMA EmbeddingsNext == EmbeddingsInv /\ [Em!Next]_Em!vars => EmbeddingsInv'
  <1> SUFFICES ASSUME EmbeddingsInv, [Em!Next]_Em!vars PROVE EmbeddingsInv'
    OBVIOUS
  <1>1. CASE UNCHANGED Em!vars
    BY <1>1 DEF Em!vars, EmbeddingsInv, Em!TypeOK, SqliteRows, SteadyRows, PostgresRows,
                Em!OneDimension, Em!SteadySettingsFit, Em!ColumnDecides, Em!Zero
  <1>2. CASE Em!StoreEmbedded
    BY <1>2, EmbedIs, CreateKeepsInv
       DEF Em!StoreEmbedded, EmbeddingsInv, Source, Em!Places, Em!Messages
  <1>3. CASE Em!StoreZeros
    BY <1>3, CreateKeepsInv DEF Em!StoreZeros, Source, Em!Places, Em!Messages
  <1>4. CASE Em!StoreBare
    BY <1>4, CreateKeepsInv DEF Em!StoreBare, Source, Em!Places, Em!Messages
  <1>5. CASE Em!StoreFragment
    <2>1. PICK v \in Em!Embed : IF v = "throws" THEN Em!Fail("embed", "fragments", v)
                                ELSE Em!CreateMemory("fragments", v)
      BY <1>5 DEF Em!StoreFragment
    <2>2. CASE v = "throws"
      BY <2>1, <2>2, LookKeepsInv DEF Em!Fail, Em!Places
    <2>3. CASE v # "throws"
      BY <2>1, <2>3, EmbedIs, CreateKeepsInv DEF EmbeddingsInv, Source, Em!Places
    <2> QED BY <2>2, <2>3
  <1>6. CASE Em!Search
    <2>1. PICK v \in Em!Embed :
              IF v = "throws" THEN Em!Fail("embed", "fragments", v)
              ELSE /\ emAnswer' = [call |-> "search", place |-> "fragments", vector |-> v,
                                   ok |-> Em!Finds(emRows["fragments"], v)]
                   /\ UNCHANGED <<emDatabase, emColumn, emProvider, emChanged, emRows>>
      BY <1>6 DEF Em!Search
    <2>2. CASE v = "throws"
      BY <2>1, <2>2, LookKeepsInv DEF Em!Fail, Em!Places
    <2>3. CASE v # "throws"
      <3>1. Em!Finds(emRows["fragments"], v) \in BOOLEAN
        BY DEF Em!Finds, Em!Comparable
      <3> QED BY <2>1, <2>3, <3>1, LookKeepsInv DEF Em!Places
    <2> QED BY <2>2, <2>3
  <1>7. CASE Em!Provide
    BY <1>7, LookKeepsInv DEF Em!Provide, Em!Places, Em!Messages
  <1>8. CASE Em!Restart
    <2>1. PICK q \in Em!Providers :
              /\ emProvider' = q /\ emChanged' = (emChanged \/ q # emProvider)
              /\ emAnswer' = Em!NoCall /\ UNCHANGED <<emDatabase, emColumn, emRows>>
      BY <1>8 DEF Em!Restart
    <2>2. Em!TypeOK'
      BY <2>1 DEF EmbeddingsInv, Em!TypeOK, Em!NoCall
    <2>3. SqliteRows' /\ SteadyRows' /\ PostgresRows'
      BY <2>1 DEF EmbeddingsInv, SqliteRows, SteadyRows, PostgresRows, Em!Zero
    <2>4. Em!OneDimension' /\ Em!SteadySettingsFit' /\ Em!ColumnDecides'
      BY <2>1 DEF EmbeddingsInv, Em!OneDimension, Em!SteadySettingsFit, Em!ColumnDecides, Em!NoCall
    <2> QED BY <2>2, <2>3, <2>4 DEF EmbeddingsInv
  <1> QED BY <1>1, <1>2, <1>3, <1>4, <1>5, <1>6, <1>7, <1>8 DEF Em!Next

LEMMA EmbeddingsInit == Em!Init => EmbeddingsInv
  <1> SUFFICES ASSUME Em!Init PROVE EmbeddingsInv
    OBVIOUS
  <1>1. \A p \in Em!Places : emRows[p] = {}
    BY DEF Em!Init
  <1>3. Em!TypeOK
    BY DEF Em!Init, Em!TypeOK, Em!NoCall, Em!Dimensions
  <1>4. SqliteRows /\ SteadyRows /\ PostgresRows
    BY <1>1 DEF SqliteRows, SteadyRows, PostgresRows, Em!Places, Em!Messages
  <1>5. emAnswer = [call |-> "none", place |-> "none", vector |-> "none", ok |-> TRUE]
    BY DEF Em!Init, Em!NoCall
  <1>6. Em!OneDimension /\ Em!SteadySettingsFit
    BY <1>1, <1>5 DEF Em!OneDimension, Em!SteadySettingsFit, Em!Dimensions
  <1>7. Em!ColumnDecides
    BY <1>1, <1>5 DEF Em!ColumnDecides
  <1> QED BY <1>3, <1>4, <1>6, <1>7 DEF EmbeddingsInv

LEMMA EmbeddingsSpec == Em!Init /\ [][Em!Next]_Em!vars => []EmbeddingsInv
  BY EmbeddingsInit, EmbeddingsNext, PTL

(* Whatever providers the settings choose from one process to the next and *)
(* whatever is stored where: sqlite's rows of a place can be compared,     *)
(* under steady settings nothing is refused for its dimension but what     *)
(* GaiaNet embeds, and postgres' column decides what is stored and found.  *)
THEOREM VectorsStayComparable == SysSpec => []VectorsFit
  <1>1. SysInit => Em!Init
    BY DEF SysInit
  <1>2. [SysNext]_sysVars => [Em!Next]_Em!vars
    BY DEF SysNext, sysVars, Completing, Asking, Talking, Joining, Embedding, Choosing, emVars,
           Em!vars
  <1>3. EmbeddingsInv => VectorsFit
    BY DEF EmbeddingsInv, VectorsFit, Em!VectorsFit
  <1> QED BY <1>1, <1>2, <1>3, EmbeddingsSpec, PTL DEF SysSpec

----------------------------------------------------------------------------
(* Providers.  The first key that is set, or none. *)
LEMMA FirstOfIs ==
    ASSUME NEW k, NEW places, NEW names, DOMAIN names \subseteq Nat
    PROVE  /\ (\A i \in DOMAIN names : ~Pr!In(k, names[i], places)) =>
                  Pr!FirstOf(k, names, places) = "none"
           /\ \A i \in DOMAIN names :
                  (/\ Pr!In(k, names[i], places)
                   /\ \A j \in DOMAIN names : j < i => ~Pr!In(k, names[j], places)) =>
                       Pr!FirstOf(k, names, places) = names[i]
  <1> DEFINE S == {i \in DOMAIN names : Pr!In(k, names[i], places)}
             least == CHOOSE i \in S : \A j \in S : i <= j
  <1>1. Pr!FirstOf(k, names, places) = IF S = {} THEN "none" ELSE names[least]
    BY DEF Pr!FirstOf
  <1>2. ASSUME NEW i \in DOMAIN names, Pr!In(k, names[i], places),
               \A j \in DOMAIN names : j < i => ~Pr!In(k, names[j], places)
        PROVE  Pr!FirstOf(k, names, places) = names[i]
    <2>1. i \in S /\ \A j \in S : i <= j
      BY <1>2
    <2> HIDE DEF S
    <2>2. least \in S /\ \A j \in S : least <= j
      BY <2>1
    <2>3. S \subseteq Nat
      BY DEF S
    <2>4. least = i
      BY <2>1, <2>2, <2>3
    <2> QED BY <1>1, <2>1, <2>4
  <1> QED BY <1>1, <1>2

LEMMA FirstOfOne ==
    ASSUME NEW k, NEW places, NEW a
    PROVE  Pr!FirstOf(k, <<a>>, places) = IF Pr!In(k, a, places) THEN a ELSE "none"
  <1>1. DOMAIN <<a>> = {1} /\ <<a>>[1] = a
    OBVIOUS
  <1> QED BY <1>1, FirstOfIs

LEMMA FirstOfTwo ==
    ASSUME NEW k, NEW places, NEW a, NEW b
    PROVE  Pr!FirstOf(k, <<a, b>>, places) =
               IF Pr!In(k, a, places) THEN a ELSE IF Pr!In(k, b, places) THEN b ELSE "none"
  <1> DEFINE names == <<a, b>>
  <1>1. DOMAIN names = {1, 2} /\ names[1] = a /\ names[2] = b
    OBVIOUS
  <1> HIDE DEF names
  <1>2. Pr!FirstOf(k, names, places) =
               IF Pr!In(k, a, places) THEN a ELSE IF Pr!In(k, b, places) THEN b ELSE "none"
    BY <1>1, FirstOfIs
  <1> QED BY <1>2 DEF names

LEMMA FirstOfFour ==
    ASSUME NEW k, NEW places, NEW a, NEW b, NEW c, NEW d
    PROVE  Pr!FirstOf(k, <<a, b, c, d>>, places) =
               IF Pr!In(k, a, places) THEN a ELSE IF Pr!In(k, b, places) THEN b
               ELSE IF Pr!In(k, c, places) THEN c ELSE IF Pr!In(k, d, places) THEN d ELSE "none"
  <1> DEFINE names == <<a, b, c, d>>
  <1>1. /\ DOMAIN names = {1, 2, 3, 4}
        /\ names[1] = a /\ names[2] = b /\ names[3] = c /\ names[4] = d
    OBVIOUS
  <1> HIDE DEF names
  <1>2. Pr!FirstOf(k, names, places) =
               IF Pr!In(k, a, places) THEN a ELSE IF Pr!In(k, b, places) THEN b
               ELSE IF Pr!In(k, c, places) THEN c ELSE IF Pr!In(k, d, places) THEN d ELSE "none"
    BY <1>1, FirstOfIs
  <1> QED BY <1>2 DEF names

LEMMA FirstOfNone == ASSUME NEW k, NEW places PROVE Pr!FirstOf(k, <<>>, places) = "none"
  BY FirstOfIs
Kept == {"env", "secret"}
OneKeyed == {"OPENAI", "ETERNALAI", "REDPILL", "GROK", "HEURIST", "GROQ", "GALADRIEL", "FAL",
             "ALI_BAILIAN", "VOLENGINE"}

LEMMA TokenIs ==
    ASSUME NEW k, NEW p \in Pr!Providers
    PROVE  Pr!Token(k, p) =
               IF p \in {"LLAMACLOUD", "TOGETHER"}
               THEN IF Pr!In(k, "LLAMACLOUD", Kept) THEN "LLAMACLOUD"
                    ELSE IF Pr!In(k, "TOGETHER", Kept) THEN "TOGETHER"
                    ELSE IF Pr!In(k, "XAI", Kept) THEN "XAI"
                    ELSE IF Pr!In(k, "OPENAI", Kept) THEN "OPENAI" ELSE "none"
               ELSE IF p = "ANTHROPIC"
               THEN IF Pr!In(k, "ANTHROPIC", Kept) THEN "ANTHROPIC"
                    ELSE IF Pr!In(k, "CLAUDE", Kept) THEN "CLAUDE" ELSE "none"
               ELSE IF p = "OPENROUTER"
               THEN IF Pr!In(k, "OPENROUTER", {"env"}) THEN "OPENROUTER" ELSE "none"
               ELSE IF p \in OneKeyed /\ Pr!In(k, p, Kept) THEN p ELSE "none"
  <1>1. CASE p \in {"LLAMACLOUD", "TOGETHER"}
    <2>1. Pr!Token(k, p) = Pr!FirstOf(k, <<"LLAMACLOUD", "TOGETHER", "XAI", "OPENAI">>, Kept)
      BY <1>1 DEF Pr!Token, Pr!KeysOf, Pr!TogetherKeys, Pr!Places, Kept
    <2> QED BY <1>1, <2>1, FirstOfFour
  <1>2. CASE p = "ANTHROPIC"
    <2>1. Pr!Token(k, p) = Pr!FirstOf(k, <<"ANTHROPIC", "CLAUDE">>, Kept)
      BY <1>2 DEF Pr!Token, Pr!KeysOf, Pr!Places, Kept
    <2> QED BY <1>2, <2>1, FirstOfTwo
  <1>3. CASE p = "OPENROUTER"
    <2>1. Pr!Token(k, p) = Pr!FirstOf(k, <<p>>, {"env"})
      BY <1>3 DEF Pr!Token, Pr!KeysOf, Pr!Places
    <2> QED BY <1>3, <2>1, FirstOfOne
  <1>4. CASE p \in OneKeyed
    <2>1. Pr!Token(k, p) = Pr!FirstOf(k, <<p>>, Kept)
      BY <1>4 DEF Pr!Token, Pr!KeysOf, Pr!Places, Kept, OneKeyed
    <2> QED BY <1>4, <2>1, FirstOfOne DEF OneKeyed
  <1>5. CASE p \notin OneKeyed \cup {"LLAMACLOUD", "TOGETHER", "ANTHROPIC", "OPENROUTER"}
    <2>1. Pr!Token(k, p) = Pr!FirstOf(k, <<>>, Kept)
      BY <1>5 DEF Pr!Token, Pr!KeysOf, Pr!Places, Kept, OneKeyed
    <2> QED BY <1>5, <2>1, FirstOfNone
  <1> QED BY <1>1, <1>2, <1>3, <1>4, <1>5

LEMMA SentIs ==
    ASSUME NEW k, NEW p
    PROVE  Pr!Sent(k, p) =
               IF p # "GOOGLE" /\ Pr!Token(k, p) # "none" THEN Pr!Token(k, p)
               ELSE IF Pr!In(k, Pr!Fallback(p), {"env"}) THEN Pr!Fallback(p) ELSE "none"
  BY FirstOfOne DEF Pr!Sent

(* What one more key adds. *)
LEMMA OneMoreKey ==
    ASSUME NEW k \in [Names -> {"unset", "env", "secret"}], NEW n \in Names, k[n] = "unset",
           NEW a, NEW places \in {Kept, {"env"}}
    PROVE  Pr!In([k EXCEPT ![n] = "env"], a, places) <=> a = n \/ Pr!In(k, a, places)
  BY DEF Pr!In, Kept

(* A text or an object is asked for with a key that is taken, or not; with *)
(* one more key it is another of the owner's, if any.                      *)
LEMMA TokenMore ==
    ASSUME NEW k \in [Names -> {"unset", "env", "secret"}], NEW n \in Names, k[n] = "unset",
           NEW p \in Pr!Providers
    PROVE  LET more == [k EXCEPT ![n] = "env"] IN
           /\ Pr!Token(k, p) # "none" => Pr!Token(more, p) # "none"
           /\ Pr!Token(more, p) \in {Pr!Token(k, p), n}
           /\ Pr!Token(k, p) \in Pr!Owners(Pr!Server(p)) => Pr!Token(more, p) \in Pr!Owners(Pr!Server(p))
  <1> DEFINE more == [k EXCEPT ![n] = "env"]
  <1>1. \A a : /\ Pr!In(more, a, Kept) <=> a = n \/ Pr!In(k, a, Kept)
               /\ Pr!In(more, a, {"env"}) <=> a = n \/ Pr!In(k, a, {"env"})
    BY OneMoreKey
  <1> HIDE DEF more
  <1>2. /\ Pr!Token(k, p) # "none" => Pr!Token(more, p) # "none"
        /\ Pr!Token(more, p) \in {Pr!Token(k, p), n}
    BY <1>1, TokenIs DEF OneKeyed
  <1>3. Pr!Token(k, p) \in Pr!Owners(Pr!Server(p)) => Pr!Token(more, p) \in Pr!Owners(Pr!Server(p))
    <2>1. CASE p \in {"LLAMACLOUD", "TOGETHER"}
      BY <1>1, <2>1, TokenIs DEF Pr!Owners, Pr!Server
    <2>2. CASE p = "ANTHROPIC"
      BY <1>1, <2>2, TokenIs DEF Pr!Owners, Pr!Server
    <2>3. CASE p \notin {"LLAMACLOUD", "TOGETHER", "ANTHROPIC"}
      BY <1>1, <2>3, TokenIs DEF Pr!Owners, Pr!Server, OneKeyed, Pr!Providers, Pr!Compatible
    <2> QED BY <2>1, <2>2, <2>3
  <1> QED BY <1>2, <1>3 DEF more

LEMMA SentMore ==
    ASSUME NEW k \in [Names -> {"unset", "env", "secret"}], NEW n \in Names, k[n] = "unset",
           NEW p \in Pr!Providers, NEW server, server \in {Pr!Server(p), Pr!ObjectServer(p)},
           Pr!Takes([server |-> server, key |-> Pr!Sent(k, p)]),
           server # Pr!Server(p) => p \in {"OPENAI", "REDPILL"},
           p # "ETERNALAI" \/ n # "ETERNALAI" \/ prUrl # "unset"
    PROVE  Pr!Takes([server |-> server, key |-> Pr!Sent([k EXCEPT ![n] = "env"], p)])
  <1> DEFINE more == [k EXCEPT ![n] = "env"]
             token == Pr!Token(k, p)
             other == Pr!Token(more, p)
             back == Pr!Fallback(p)
  <1>0. server = Pr!Server(p)
    BY DEF Pr!ObjectServer, Pr!Server, Pr!Compatible
  <1>1. /\ token # "none" => other # "none"
        /\ other \in {token, n}
        /\ token \in Pr!Owners(server) => other \in Pr!Owners(server)
    BY <1>0, TokenMore
  <1>2. /\ Pr!Sent(k, p) = IF p # "GOOGLE" /\ token # "none" THEN token
                           ELSE IF Pr!In(k, back, {"env"}) THEN back ELSE "none"
        /\ Pr!Sent(more, p) = IF p # "GOOGLE" /\ other # "none" THEN other
                              ELSE IF Pr!In(more, back, {"env"}) THEN back ELSE "none"
    BY SentIs
  <1>3. Pr!In(k, back, {"env"}) => Pr!In(more, back, {"env"})
    BY OneMoreKey
  <1>4. /\ token = "none" /\ other # "none" /\ back \in Pr!Owners(server) => other \in Pr!Owners(server)
        /\ token # "local" /\ back # "local" /\ (p = "GAIANET" => token = "none" /\ other = "none")
        /\ server = "GAIANET" => p = "GAIANET"
    <2>1. \A a : /\ Pr!In(more, a, Kept) <=> a = n \/ Pr!In(k, a, Kept)
                 /\ Pr!In(more, a, {"env"}) <=> a = n \/ Pr!In(k, a, {"env"})
      BY OneMoreKey
    <2> HIDE DEF more
    <2>2. token # "local" /\ (p = "GAIANET" => token = "none" /\ other = "none")
      BY TokenIs DEF OneKeyed
    <2>3. back # "local" /\ (server = "GAIANET" => p = "GAIANET")
      BY <1>0 DEF Pr!Fallback, Pr!Server
    <2>4. ASSUME token = "none", other # "none", back \in Pr!Owners(server)
          PROVE  other \in Pr!Owners(server)
      <3>1. \/ p \in {"ANTHROPIC", "CLAUDE_VERTEX", "GROQ", "GOOGLE", "OPENAI"}
            \/ p = "ETERNALAI" /\ prUrl = "unset"
        BY <1>0, <2>4 DEF Pr!Fallback, Pr!Server, Pr!Owners, Pr!Providers, Pr!Compatible
      <3>2. p # "ETERNALAI"
        BY <1>1, <2>4, <3>1, TokenIs DEF OneKeyed
      <3> QED BY <1>0, <2>4, <3>1, <3>2, TokenIs DEF Pr!Fallback, Pr!Server, Pr!Owners, OneKeyed
    <2> QED BY <2>2, <2>3, <2>4
  <1> HIDE DEF more, token, other, back
  <1>5. Pr!Sent(k, p) # "none" /\ (Pr!Sent(k, p) \in Pr!Owners(server) \cup {"local"} \/ server = "GAIANET")
    BY DEF Pr!Takes
  <1>6. Pr!Sent(more, p) # "none" /\ (Pr!Sent(more, p) \in Pr!Owners(server) \/ server = "GAIANET")
    BY <1>1, <1>2, <1>3, <1>4, <1>5
  <1> QED BY <1>6 DEF Pr!Takes, more

LEMMA TextMore ==
    ASSUME NEW k \in [Names -> {"unset", "env", "secret"}], NEW n \in Names, k[n] = "unset",
           NEW p \in Pr!Providers
    PROVE  LET more == [k EXCEPT ![n] = "env"] IN
           /\ Pr!Takes(Pr!Text(k, p)) =>
                 Pr!Takes(Pr!Text(more, p)) \/ (n = "ETERNALAI" /\ prUrl = "unset")
           /\ Pr!Takes(Pr!Object(k, p)) => Pr!Takes(Pr!Object(more, p))
  <1>1. Pr!Takes(Pr!Text(k, p)) =>
            Pr!Takes(Pr!Text([k EXCEPT ![n] = "env"], p)) \/ (n = "ETERNALAI" /\ prUrl = "unset")
    BY SentMore DEF Pr!Text
  <1>2. Pr!Takes(Pr!Object(k, p)) => Pr!Takes(Pr!Object([k EXCEPT ![n] = "env"], p))
    BY SentMore DEF Pr!Object, Pr!AskForObject, Pr!HasTokenizer
  <1> QED BY <1>1, <1>2

(* Pictures. *)
LEMMA RanksAre ==
    /\ \A a : Pr!R!Contains(Pr!ImageKeys, a) <=> a \in {"HEURIST", "TOGETHER", "FAL", "OPENAI"}
    /\ Pr!Rank("HEURIST") = 1 /\ Pr!Rank("TOGETHER") = 2
    /\ Pr!Rank("FAL") = 3 /\ Pr!Rank("OPENAI") = 4
  <1>1. /\ Pr!ImageKeys[1] = "HEURIST" /\ Pr!ImageKeys[2] = "TOGETHER"
        /\ Pr!ImageKeys[3] = "FAL" /\ Pr!ImageKeys[4] = "OPENAI"
        /\ Len(Pr!ImageKeys) = 4 /\ 1 .. 4 = {1, 2, 3, 4}
    BY DEF Pr!ImageKeys
  <1>2. \A i \in 1 .. 4 : (CHOOSE j \in 1 .. 4 : Pr!ImageKeys[j] = Pr!ImageKeys[i]) = i
    BY <1>1
  <1>3. \A a : Pr!R!Contains(Pr!ImageKeys, a) <=> \E i \in 1 .. 4 : Pr!ImageKeys[i] = a
    BY <1>1 DEF Pr!R!Contains
  <1> QED BY <1>1, <1>2, <1>3 DEF Pr!Rank

LEMMA KeysAre ==
    ASSUME NEW p \in Pr!Providers, NEW a
    PROVE  Pr!R!Contains(Pr!KeysOf(p), a) <=>
               \/ p \in {"LLAMACLOUD", "TOGETHER"} /\ a \in {"LLAMACLOUD", "TOGETHER", "XAI", "OPENAI"}
               \/ p = "ANTHROPIC" /\ a \in {"ANTHROPIC", "CLAUDE"}
               \/ p \in OneKeyed \cup {"OPENROUTER"} /\ a = p
  <1>1. CASE p \in {"LLAMACLOUD", "TOGETHER"}
    <2>1. Pr!KeysOf(p) = <<"LLAMACLOUD", "TOGETHER", "XAI", "OPENAI">>
      BY <1>1 DEF Pr!KeysOf, Pr!TogetherKeys
    <2> QED BY <1>1, <2>1 DEF Pr!R!Contains, OneKeyed
  <1>2. CASE p = "ANTHROPIC"
    <2>1. Pr!KeysOf(p) = <<"ANTHROPIC", "CLAUDE">>
      BY <1>2 DEF Pr!KeysOf
    <2> QED BY <1>2, <2>1 DEF Pr!R!Contains, OneKeyed
  <1>3. CASE p \in OneKeyed \cup {"OPENROUTER"}
    <2>1. Pr!KeysOf(p) = <<p>>
      BY <1>3 DEF Pr!KeysOf, OneKeyed
    <2> QED BY <1>3, <2>1 DEF Pr!R!Contains, OneKeyed
  <1>4. CASE p \notin OneKeyed \cup {"LLAMACLOUD", "TOGETHER", "ANTHROPIC", "OPENROUTER"}
    <2>1. Pr!KeysOf(p) = <<>>
      BY <1>4 DEF Pr!KeysOf, OneKeyed
    <2> QED BY <1>4, <2>1 DEF Pr!R!Contains
  <1> QED BY <1>1, <1>2, <1>3, <1>4

(* One more key spoils a picture that was painted as Spoils says: it comes *)
(* before the key that was taken, or is no key of the server's.            *)
LEMMA PictureMore ==
    ASSUME NEW k \in [Names -> {"unset", "env", "secret"}], NEW n \in Names, k[n] = "unset",
           NEW p \in Pr!Providers, NEW i, Pr!Takes(Pr!Picture(k, p, i))
    PROVE  ~Pr!Takes(Pr!Picture([k EXCEPT ![n] = "env"], p, i)) <=>
               /\ n \notin Pr!Owners(Pr!ImageServer(i))
               /\ IF i = p THEN Pr!Token(k, p) = "none" /\ Pr!R!Contains(Pr!KeysOf(p), n)
                  ELSE /\ Pr!R!Contains(Pr!ImageKeys, n)
                       /\ Pr!Rank(n) < Pr!Rank(Pr!ImageToken(k, p, i))
  <1> DEFINE more == [k EXCEPT ![n] = "env"]
             server == Pr!ImageServer(i)
  <1>1. \A a : /\ Pr!In(more, a, Kept) <=> a = n \/ Pr!In(k, a, Kept)
               /\ Pr!In(more, a, {"env"}) <=> a = n \/ Pr!In(k, a, {"env"})
    BY OneMoreKey
  <1>2. ~Pr!In(k, n, Kept) /\ ~Pr!In(k, n, {"env"}) /\ \A a : Pr!In(k, a, {"env"}) => Pr!In(k, a, Kept)
    BY DEF Pr!In, Kept
  <1> HIDE DEF more
  <1>3. server \in {"HEURIST", "TOGETHER", "FAL", "OPENAI"}
    BY DEF Pr!ImageServer
  <1>4. Pr!Owners(server) = IF server = "TOGETHER" THEN {"TOGETHER", "LLAMACLOUD"} ELSE {server}
    BY <1>3 DEF Pr!Owners
  <1>5. \A m : Pr!Takes(Pr!Picture(m, p, i)) <=>
                   /\ Pr!ImageToken(m, p, i) # "none"
                   /\ Pr!ImageToken(m, p, i) \in Pr!Owners(server) \cup {"local"}
    BY <1>3 DEF Pr!Takes, Pr!Picture
  <1>6. CASE i # p
    <2>1. \A m : Pr!ImageToken(m, p, i) =
                     IF Pr!In(m, "HEURIST", Kept) THEN "HEURIST"
                     ELSE IF Pr!In(m, "TOGETHER", Kept) THEN "TOGETHER"
                     ELSE IF Pr!In(m, "FAL", Kept) THEN "FAL"
                     ELSE IF Pr!In(m, "OPENAI", Kept) THEN "OPENAI" ELSE "none"
      BY <1>6, FirstOfFour DEF Pr!ImageToken, Pr!ImageKeys, Kept
    <2> DEFINE key == Pr!ImageToken(k, p, i)
               other == Pr!ImageToken(more, p, i)
    <2>2. key \in {"HEURIST", "TOGETHER", "FAL", "OPENAI"} /\ key = server
      BY <1>3, <1>4, <1>5, <2>1
    <2>3. /\ key = IF Pr!In(k, "HEURIST", Kept) THEN "HEURIST"
                   ELSE IF Pr!In(k, "TOGETHER", Kept) THEN "TOGETHER"
                   ELSE IF Pr!In(k, "FAL", Kept) THEN "FAL" ELSE "OPENAI"
          /\ other = IF n = "HEURIST" \/ Pr!In(k, "HEURIST", Kept) THEN "HEURIST"
                     ELSE IF n = "TOGETHER" \/ Pr!In(k, "TOGETHER", Kept) THEN "TOGETHER"
                     ELSE IF n = "FAL" \/ Pr!In(k, "FAL", Kept) THEN "FAL" ELSE "OPENAI"
      BY <1>1, <2>1, <2>2
    <2> HIDE DEF key, other
    <2>4. other \notin Pr!Owners(server) \cup {"local"} <=>
              /\ n \notin Pr!Owners(server)
              /\ Pr!R!Contains(Pr!ImageKeys, n) /\ Pr!Rank(n) < Pr!Rank(key)
      <3>1. CASE ~Pr!R!Contains(Pr!ImageKeys, n)
        BY <1>4, <2>2, <2>3, <3>1, RanksAre
      <3>2. CASE Pr!R!Contains(Pr!ImageKeys, n)
        <4>1. n \in {"HEURIST", "TOGETHER", "FAL", "OPENAI"}
          BY <3>2, RanksAre
        <4> QED BY <1>2, <1>4, <2>2, <2>3, <3>2, <4>1, RanksAre
      <3> QED BY <3>1, <3>2
    <2>5. other # "none"
      BY <2>3
    <2> QED BY <1>5, <1>6, <2>4, <2>5 DEF key, other, more
  <1>7. CASE i = p
    <2> DEFINE token == Pr!Token(k, p)
               other == Pr!Token(more, p)
    <2>1. \A m : Pr!ImageToken(m, p, i) =
                     IF Pr!Token(m, p) # "none" \/ server \in {"HEURIST", "FAL"} THEN Pr!Token(m, p)
                     ELSE IF Pr!In(m, server, {"env"}) THEN server ELSE "none"
      BY <1>7, FirstOfOne DEF Pr!ImageToken
    <2>2. /\ token # "none" => other # "none" /\ other \in {token, n}
          /\ token = "none" => other = IF Pr!R!Contains(Pr!KeysOf(p), n) THEN n ELSE "none"
      BY <1>1, TokenIs, KeysAre DEF OneKeyed
    <2>3. /\ token # "none" /\ token \in Pr!Owners(server) => other \in Pr!Owners(server)
          /\ token # "local" /\ other # "local"
      <3>1. token # "local" /\ other # "local"
        BY TokenIs DEF OneKeyed
      <3>2. ASSUME token # "none", token \in Pr!Owners(server) PROVE other \in Pr!Owners(server)
        <4>1. server = Pr!Server(p)
          BY <1>4, <1>7, <3>2, TokenIs DEF Pr!ImageServer, Pr!Server, OneKeyed
        <4> QED BY <3>2, <4>1, TokenMore DEF more
      <3> QED BY <3>1, <3>2
    <2>4. \A a : a \in Pr!Owners(server) => a # "none"
      BY <1>3, <1>4
    <2>5. Pr!R!Contains(Pr!KeysOf(p), n) => n # "none"
      BY KeysAre DEF OneKeyed, Pr!Providers, Pr!Compatible
    <2>6. Pr!In(k, server, {"env"}) => Pr!In(more, server, {"env"})
      BY <1>1
    <2>7. server \in Pr!Owners(server)
      BY <1>4
    <2> HIDE DEF token, other
    <2>8. /\ Pr!ImageToken(k, p, i) = IF token # "none" \/ server \in {"HEURIST", "FAL"} THEN token
                     ELSE IF Pr!In(k, server, {"env"}) THEN server ELSE "none"
          /\ Pr!ImageToken(more, p, i) = IF other # "none" \/ server \in {"HEURIST", "FAL"} THEN other
                     ELSE IF Pr!In(more, server, {"env"}) THEN server ELSE "none"
      BY <2>1 DEF token, other
    <2> HIDE DEF server
    <2>9. CASE token # "none"
      <3>1. Pr!ImageToken(k, p, i) = token /\ Pr!ImageToken(more, p, i) = other
        BY <2>2, <2>8, <2>9
      <3> QED BY <1>5, <1>7, <2>2, <2>3, <2>9, <3>1 DEF token, other, more
    <2>10. CASE token = "none"
      <3>1. Pr!ImageToken(k, p, i) = server /\ Pr!In(k, server, {"env"}) /\ server \notin {"HEURIST", "FAL"}
        BY <1>5, <2>8, <2>10
      <3>2. Pr!ImageToken(more, p, i) = IF Pr!R!Contains(Pr!KeysOf(p), n) THEN n ELSE server
        BY <2>2, <2>5, <2>6, <2>8, <2>10, <3>1
      <3>3. Pr!R!Contains(Pr!KeysOf(p), n) => n # "local"
        BY KeysAre DEF OneKeyed, Pr!Providers, Pr!Compatible
      <3> QED BY <1>5, <1>7, <2>4, <2>7, <2>10, <3>2, <3>3 DEF token, more, server
    <2> QED BY <2>9, <2>10
  <1> QED BY <1>6, <1>7

(* What a key goes to, when there is an answer. *)
ProvidersInv == Pr!TypeOK /\ Pr!KeysFit

LEMMA NoKeyDoesHarm ==
    ASSUME prKeys \in [Names -> {"unset", "env", "secret"}], prProvider \in Pr!Providers
    PROVE  Pr!MoreKeysDoNoHarm
  <1> SUFFICES ASSUME NEW n \in {m \in Names : prKeys[m] = "unset"}
               PROVE  LET more == [prKeys EXCEPT ![n] = "env"]
                          before == Pr!Picture(prKeys, prProvider, prPainter)
                      IN  /\ Pr!Takes(Pr!Text(prKeys, prProvider)) =>
                                \/ Pr!Takes(Pr!Text(more, prProvider))
                                \/ n = "ETERNALAI" /\ prUrl = "unset"
                          /\ Pr!Takes(Pr!Object(prKeys, prProvider)) => Pr!Takes(Pr!Object(more, prProvider))
                          /\ Pr!Takes(before) =>
                                Pr!Takes(Pr!Picture(more, prProvider, prPainter)) \/ Pr!Spoils(n, before)
    BY DEF Pr!MoreKeysDoNoHarm
  <1>1. /\ Pr!Picture(prKeys, prProvider, prPainter).server = Pr!ImageServer(prPainter)
        /\ Pr!Picture(prKeys, prProvider, prPainter).key = Pr!ImageToken(prKeys, prProvider, prPainter)
    BY DEF Pr!Picture
  <1>2. n \in Names /\ prKeys[n] = "unset"
    OBVIOUS
  <1> DEFINE more == [prKeys EXCEPT ![n] = "env"]
             before == Pr!Picture(prKeys, prProvider, prPainter)
  <1>3. /\ Pr!Takes(Pr!Text(prKeys, prProvider)) =>
              \/ Pr!Takes(Pr!Text(more, prProvider))
              \/ n = "ETERNALAI" /\ prUrl = "unset"
        /\ Pr!Takes(Pr!Object(prKeys, prProvider)) => Pr!Takes(Pr!Object(more, prProvider))
    BY <1>2, TextMore
  <1>4. ASSUME Pr!Takes(before)
        PROVE  Pr!Takes(Pr!Picture(more, prProvider, prPainter)) \/ Pr!Spoils(n, before)
    BY <1>1, <1>2, <1>4, PictureMore DEF Pr!Spoils
  <1> QED BY <1>3, <1>4

(* Who is asked. *)
LEMMA ServersAre ==
    ASSUME Pr!TypeOK
    PROVE  /\ Pr!Text(prKeys, prProvider).server \in Pr!Providers \cup {"none"}
           /\ Pr!Object(prKeys, prProvider).server \in Pr!Providers \cup {"none"}
           /\ Pr!Picture(prKeys, prProvider, prPainter).server \in Pr!Providers
  BY DEF Pr!TypeOK, Pr!Text, Pr!Object, Pr!Picture, Pr!Refused, Pr!Local, Pr!AskForObject, Pr!Server,
         Pr!ObjectServer, Pr!ImageServer, Pr!Providers, Pr!Compatible

(* Whose keys are sent for a text or an object. *)
LEMMA SentKeys ==
    ASSUME NEW r \in {Pr!Text(prKeys, prProvider), Pr!Object(prKeys, prProvider)},
           prProvider \in Pr!Providers,
           r.key \notin {"none", "local"}, r.key \notin Pr!Owners(r.server)
    PROVE  \/ ~Pr!OwnKeySet(prProvider) /\ r.key \in {"OPENAI", "XAI"}
           \/ r.key = "ETERNALAI" /\ r.server = "OPENAI" /\ prUrl = "unset"
  <1> DEFINE k == prKeys
             p == prProvider
  <1>1. /\ r.key = Pr!Sent(k, p)
        /\ \/ r.server = Pr!Server(p)
           \/ p \in {"OPENAI", "REDPILL"} /\ r.server = Pr!ObjectServer(p)
    BY DEF Pr!Text, Pr!Object, Pr!AskForObject, Pr!Refused, Pr!Local, Pr!HasTokenizer
  <1>2. r.server = Pr!Server(p)
    BY <1>1 DEF Pr!ObjectServer, Pr!Server, Pr!Compatible
  <1>3. Pr!OwnKeySet(p) <=>
            \E n \in Pr!Owners(Pr!Server(p)) : Pr!R!Contains(Pr!KeysOf(p), n) /\ Pr!In(k, n, Pr!Places(p))
    BY DEF Pr!OwnKeySet
  <1>4. \A n : Pr!R!Contains(Pr!KeysOf(p), n) <=>
                   \/ p \in {"LLAMACLOUD", "TOGETHER"} /\ n \in {"LLAMACLOUD", "TOGETHER", "XAI", "OPENAI"}
                   \/ p = "ANTHROPIC" /\ n \in {"ANTHROPIC", "CLAUDE"}
                   \/ p \in OneKeyed \cup {"OPENROUTER"} /\ n = p
    BY KeysAre
  <1> HIDE DEF k, p
  <1>5. p \in Pr!Providers
    BY DEF p
  <1>6. Pr!Token(k, p) = "none" => \A n : Pr!R!Contains(Pr!KeysOf(p), n) => ~Pr!In(k, n, Pr!Places(p))
    <2>1. Pr!Places(p) = IF p = "OPENROUTER" THEN {"env"} ELSE Kept
      BY DEF Pr!Places, Kept
    <2> QED BY <1>4, <1>5, <2>1, TokenIs DEF OneKeyed
  <1>7. CASE p # "GOOGLE" /\ Pr!Token(k, p) # "none"
    <2>1. r.key = Pr!Token(k, p)
      BY <1>1, <1>7, SentIs
    <2>2. CASE p \in {"LLAMACLOUD", "TOGETHER"}
      <3>1. Pr!Owners(r.server) = {"TOGETHER", "LLAMACLOUD"} /\ Pr!Places(p) = Kept
        BY <1>2, <2>2 DEF Pr!Owners, Pr!Server, Pr!Places, Kept
      <3>2. r.key \in {"XAI", "OPENAI"} /\ ~Pr!In(k, "LLAMACLOUD", Kept) /\ ~Pr!In(k, "TOGETHER", Kept)
        BY <1>5, <2>1, <2>2, <3>1, TokenIs
      <3> QED BY <1>2, <1>3, <3>1, <3>2 DEF p
    <2>3. CASE p = "ETERNALAI"
      BY <1>2, <1>5, <1>7, <2>1, <2>3, TokenIs DEF Pr!Owners, Pr!Server
    <2>4. CASE p \notin {"LLAMACLOUD", "TOGETHER", "ETERNALAI"}
      BY <1>2, <1>5, <1>7, <2>1, <2>4, TokenIs DEF Pr!Owners, Pr!Server, OneKeyed
    <2> QED BY <2>2, <2>3, <2>4
  <1>8. CASE p = "GOOGLE" \/ Pr!Token(k, p) = "none"
    <2>1. Pr!Token(k, p) = "none"
      BY <1>5, <1>8, TokenIs DEF OneKeyed
    <2>2. r.key = Pr!Fallback(p)
      BY <1>1, <1>8, SentIs
    <2>3. r.key = "OPENAI"
      BY <1>2, <1>5, <2>2 DEF Pr!Owners, Pr!Server, Pr!Fallback, Pr!Providers, Pr!Compatible
    <2> QED BY <1>3, <1>6, <2>1, <2>3 DEF p
  <1> QED BY <1>7, <1>8

LEMMA ProvidersNext == ProvidersInv /\ [Pr!Next]_Pr!vars => ProvidersInv'
  <1> SUFFICES ASSUME ProvidersInv, [Pr!Next]_Pr!vars PROVE ProvidersInv'
    OBVIOUS
  <1> USE DEF ProvidersInv
  <1>1. CASE UNCHANGED Pr!vars
    <2>1. Pr!TypeOK' /\ Pr!KeysStayHome' /\ Pr!VoiceNeedsOpenAI'
      BY <1>1 DEF Pr!vars, Pr!TypeOK, Pr!KeysFit, Pr!KeysStayHome, Pr!VoiceNeedsOpenAI, Pr!OwnKeySet,
                  Pr!Server
    <2>2. Pr!MoreKeysDoNoHarm'
      BY <1>1 DEF Pr!vars, Pr!KeysFit, Pr!MoreKeysDoNoHarm, Pr!Spoils, Pr!Text, Pr!Object, Pr!AskForObject,
                  Pr!ObjectServer, Pr!Server
    <2> QED BY <2>1, <2>2 DEF Pr!KeysFit
  <1>2. ASSUME NEW call \in {"text", "object", "image"}, NEW r, NEW possible, Pr!Answer(call, r, possible),
               r = CASE call = "text" -> Pr!Text(prKeys, prProvider)
                     [] call = "object" -> Pr!Object(prKeys, prProvider)
                     [] call = "image" -> Pr!Picture(prKeys, prProvider, prPainter)
        PROVE  ProvidersInv'
    <2>1. PICK ok \in BOOLEAN :
              /\ ok => Pr!Takes(r)
              /\ prAnswer' = [call |-> call, server |-> r.server, key |-> r.key, ok |-> ok]
              /\ prKeys' = prKeys /\ prUrl' = prUrl
              /\ prProvider' = prProvider /\ prPainter' = prPainter
      BY <1>2 DEF Pr!Answer
    <2>2. Pr!TypeOK'
      BY <1>2, <2>1, ServersAre DEF Pr!TypeOK
    <2>3. Pr!KeysStayHome'
      BY <1>2, <2>1, SentKeys DEF Pr!TypeOK, Pr!KeysStayHome, Pr!OwnKeySet, Pr!Server
    <2>4. Pr!MoreKeysDoNoHarm'
      BY <2>1 DEF Pr!MoreKeysDoNoHarm, Pr!NoAnswer
    <2>5. Pr!VoiceNeedsOpenAI'
      BY <1>2, <2>1 DEF Pr!TypeOK, Pr!VoiceNeedsOpenAI
    <2> QED BY <2>2, <2>3, <2>4, <2>5 DEF Pr!KeysFit
  <1>3. CASE Pr!GenerateText \/ Pr!GenerateObject \/ Pr!GenerateImage
    BY <1>2, <1>3 DEF Pr!GenerateText, Pr!GenerateObject, Pr!GenerateImage
  <1>4. ASSUME NEW server \in {"ELEVENLABS", "VITS"}, NEW key \in {"none", "ELEVENLABS"}, NEW ok \in BOOLEAN,
               Pr!Spoken(server, key, ok),
               "ELEVENLABS" \in {server, key} => Pr!Validated
        PROVE  ProvidersInv'
    <2>1. /\ prAnswer' = [call |-> "speech", server |-> server, key |-> key, ok |-> ok]
          /\ prKeys' = prKeys /\ prUrl' = prUrl
              /\ prProvider' = prProvider /\ prPainter' = prPainter
      BY <1>4 DEF Pr!Spoken
    <2>2. Pr!TypeOK'
      BY <2>1 DEF Pr!TypeOK
    <2>3. Pr!KeysFit'
      BY <1>4, <2>1 DEF Pr!KeysFit, Pr!KeysStayHome, Pr!MoreKeysDoNoHarm, Pr!NoAnswer,
         Pr!VoiceNeedsOpenAI, Pr!Validated
    <2> QED BY <2>2, <2>3
  <1>5. CASE Pr!SpeakEleven \/ Pr!SpeakVits
    BY <1>4, <1>5 DEF Pr!SpeakEleven, Pr!SpeakVits
  <1> QED BY <1>1, <1>3, <1>5 DEF Pr!Next

LEMMA ProvidersBegin ==
    ASSUME Pr!ProvidersAssumption
    PROVE  Pr!Init => ProvidersInv
  <1> SUFFICES ASSUME Pr!Init PROVE ProvidersInv
    OBVIOUS
  <1>1. Pr!TypeOK
    BY DEF Pr!Init, Pr!TypeOK, Pr!ProvidersAssumption, Pr!NoAnswer
  <1>2. Pr!KeysFit
    BY NoKeyDoesHarm
       DEF Pr!Init, Pr!NoAnswer, Pr!KeysFit, Pr!KeysStayHome, Pr!VoiceNeedsOpenAI
  <1> QED BY <1>1, <1>2 DEF ProvidersInv

LEMMA ProvidersSpec ==
    ASSUME Pr!ProvidersAssumption
    PROVE  Pr!Init /\ [][Pr!Next]_Pr!vars => []ProvidersInv
  BY ProvidersBegin, ProvidersNext, PTL

(* However many keys are set: a key goes to another server than its        *)
(* owner's only where none of the owner's is set, or without EternalAI's   *)
(* URL; one more key harms nothing but the pictures it comes before, and   *)
(* what OpenAI did for an EternalAI that had neither key nor URL;          *)
(* ElevenLabs speaks only for who has a key of OpenAI.                     *)
THEOREM KeysGoHome ==
    ASSUME Pr!ProvidersAssumption
    PROVE  Pr!Spec => []Pr!KeysFit
  <1>1. ProvidersInv => Pr!KeysFit
    BY DEF ProvidersInv
  <1> QED BY <1>1, ProvidersSpec, PTL DEF Pr!Spec

(* The same of the instance that is driven with the others. *)
THEOREM KeysStayFit == SysSpec => []KeysFit
  <1>1. SysInit => (driven = "providers" => ProvidersInv)
    BY ProvidersBegin, Instances DEF SysInit
  <1>2. (driven = "providers" => ProvidersInv) /\ [SysNext]_sysVars => (driven = "providers" => ProvidersInv)'
    <2>1. [SysNext]_sysVars => [Pr!Next]_Pr!vars /\ UNCHANGED driven
      BY DEF SysNext, sysVars, Completing, Asking, Talking, Joining, Embedding, Choosing, prVars, Pr!vars
    <2> QED BY <2>1, ProvidersNext
  <1>3. (driven = "providers" => ProvidersInv) => KeysFit
    BY DEF ProvidersInv, KeysFit
  <1> QED BY <1>1, <1>2, <1>3, PTL DEF SysSpec

----------------------------------------------------------------------------
(* Voice.  As long as the user never stopped before the member was         *)
(* fetched: what was handed over (T, J and B: as texts, at the service and *)
(* in the buffers) is in order, what the stream holds, U, was said after   *)
(* it and after what the monitor holds, H; and that is new since the user  *)
(* began to speak.  Nothing has a number above the last chunk's.           *)
Rng(s) == {s[i] : i \in DOMAIN s}
Rising(s) == \A i, j \in DOMAIN s : i < j => s[i] < s[j]
Chunks(parts) == UNION {Rng(parts[i]) : i \in DOMAIN parts}
Less(A, B) == \A a \in A, b \in B : a < b
Past(T, J, B) == Chunks(T) \cup Chunks(J) \cup Rng(B)

InTurn(T, J, B) ==
    /\ Vo!InOrder(T) /\ Vo!InOrder(J) /\ Rising(B)
    /\ Less(Chunks(T), Chunks(J)) /\ Less(Chunks(T), Rng(B)) /\ Less(Chunks(J), Rng(B))

Ahead(P, H, U, said, new) ==
    /\ Rising(H) /\ Rising(U)
    /\ Less(P, Rng(U)) /\ Less(Rng(H), Rng(U))
    /\ \A c \in P \cup Rng(H) \cup Rng(U) : c <= said
    /\ new => Less(P, Rng(H))

(* The chunks of a sequence with one more, with one less, or two of them.  *)
LEMMA RangesAre ==
    ASSUME NEW S, NEW s \in Seq(S)
    PROVE  /\ Rng(<<>>) = {} /\ Rising(<<>>)
           /\ \A e \in S : Rng(Append(s, e)) = Rng(s) \cup {e}
           /\ s # <<>> => Rng(Tail(s)) \subseteq Rng(s) /\ Head(s) \in Rng(s)
           /\ \A t \in Seq(S) : Rng(s \o t) = Rng(s) \cup Rng(t)
  <1>1. Rng(<<>>) = {} /\ Rising(<<>>)
    BY DEF Rng, Rising
  <1>2. ASSUME NEW e \in S PROVE Rng(Append(s, e)) = Rng(s) \cup {e}
    <2>1. /\ Append(s, e) \in Seq(S) /\ Len(Append(s, e)) = Len(s) + 1
          /\ \A i \in 1 .. Len(s) : Append(s, e)[i] = s[i]
          /\ Append(s, e)[Len(s) + 1] = e /\ Len(s) \in Nat
      OBVIOUS
    <2>2. DOMAIN Append(s, e) = 1 .. Len(s) + 1 /\ DOMAIN s = 1 .. Len(s)
      BY <2>1
    <2> QED BY <2>1, <2>2 DEF Rng
  <1>3. ASSUME s # <<>> PROVE Rng(Tail(s)) \subseteq Rng(s) /\ Head(s) \in Rng(s)
    <2>1. /\ Tail(s) \in Seq(S) /\ Len(Tail(s)) = Len(s) - 1 /\ Len(s) \in Nat /\ Len(s) > 0
          /\ \A i \in 1 .. Len(s) - 1 : Tail(s)[i] = s[i + 1]
          /\ Head(s) = s[1]
      BY <1>3
    <2>2. DOMAIN Tail(s) = 1 .. Len(s) - 1 /\ DOMAIN s = 1 .. Len(s)
      BY <2>1
    <2> QED BY <2>1, <2>2 DEF Rng
  <1>4. ASSUME NEW t \in Seq(S) PROVE Rng(s \o t) = Rng(s) \cup Rng(t)
    <2>1. /\ s \o t \in Seq(S) /\ Len(s \o t) = Len(s) + Len(t) /\ Len(s) \in Nat /\ Len(t) \in Nat
          /\ \A i \in 1 .. Len(s) : (s \o t)[i] = s[i]
          /\ \A i \in 1 .. Len(t) : (s \o t)[Len(s) + i] = t[i]
      OBVIOUS
    <2>2. DOMAIN (s \o t) = 1 .. Len(s) + Len(t) /\ DOMAIN s = 1 .. Len(s) /\ DOMAIN t = 1 .. Len(t)
      BY <2>1
    <2>3. \A i \in 1 .. Len(s) + Len(t) : i \in 1 .. Len(s) \/ \E j \in 1 .. Len(t) : i = Len(s) + j
      <3> SUFFICES ASSUME NEW i \in 1 .. Len(s) + Len(t), i \notin 1 .. Len(s)
                   PROVE  \E j \in 1 .. Len(t) : i = Len(s) + j
        OBVIOUS
      <3>1. i - Len(s) \in 1 .. Len(t) /\ i = Len(s) + (i - Len(s))
        BY <2>1
      <3> QED BY <3>1
    <2>4. \A j \in 1 .. Len(t) : Len(s) + j \in 1 .. Len(s) + Len(t)
      BY <2>1
    <2>5. \A i \in 1 .. Len(s) : i \in 1 .. Len(s) + Len(t)
      BY <2>1
    <2>6. Rng(s \o t) \subseteq Rng(s) \cup Rng(t)
      BY <2>1, <2>2, <2>3 DEF Rng
    <2>7. Rng(s) \subseteq Rng(s \o t)
      BY <2>1, <2>2, <2>5 DEF Rng
    <2>8. Rng(t) \subseteq Rng(s \o t)
      BY <2>1, <2>2, <2>4 DEF Rng
    <2> QED BY <2>6, <2>7, <2>8
  <1> QED BY <1>1, <1>2, <1>3, <1>4

LEMMA RisingMore ==
    ASSUME NEW s \in Seq(Nat), Rising(s)
    PROVE  /\ \A e \in Nat : (\A c \in Rng(s) : c < e) => Rising(Append(s, e))
           /\ s # <<>> => Rising(Tail(s)) /\ \A c \in Rng(Tail(s)) : Head(s) < c
           /\ \A t \in Seq(Nat) : Rising(t) /\ Less(Rng(s), Rng(t)) => Rising(s \o t)
  <1>1. ASSUME NEW e \in Nat, \A c \in Rng(s) : c < e PROVE Rising(Append(s, e))
    <2>1. /\ Append(s, e) \in Seq(Nat) /\ Len(Append(s, e)) = Len(s) + 1
          /\ \A i \in 1 .. Len(s) : Append(s, e)[i] = s[i]
          /\ Append(s, e)[Len(s) + 1] = e /\ Len(s) \in Nat
      OBVIOUS
    <2>2. DOMAIN Append(s, e) = 1 .. Len(s) + 1 /\ DOMAIN s = 1 .. Len(s)
      BY <2>1
    <2> QED BY <1>1, <2>1, <2>2 DEF Rng, Rising
  <1>2. ASSUME s # <<>> PROVE Rising(Tail(s)) /\ \A c \in Rng(Tail(s)) : Head(s) < c
    <2>1. /\ Tail(s) \in Seq(Nat) /\ Len(Tail(s)) = Len(s) - 1 /\ Len(s) \in Nat /\ Len(s) > 0
          /\ \A i \in 1 .. Len(s) - 1 : Tail(s)[i] = s[i + 1]
          /\ Head(s) = s[1]
      BY <1>2
    <2>2. DOMAIN Tail(s) = 1 .. Len(s) - 1 /\ DOMAIN s = 1 .. Len(s)
      BY <2>1
    <2>3. \A i, j \in 1 .. Len(s) : i < j => s[i] < s[j]
      BY <2>2 DEF Rising
    <2>4. \A i, j \in 1 .. Len(s) - 1 : i < j => Tail(s)[i] < Tail(s)[j]
      <3> SUFFICES ASSUME NEW i \in 1 .. Len(s) - 1, NEW j \in 1 .. Len(s) - 1, i < j
                   PROVE  Tail(s)[i] < Tail(s)[j]
        OBVIOUS
      <3>1. i + 1 \in 1 .. Len(s) /\ j + 1 \in 1 .. Len(s) /\ i + 1 < j + 1
        BY <2>1
      <3>2. s[i + 1] < s[j + 1]
        BY <2>3, <3>1
      <3> QED BY <2>1, <3>2
    <2>5. \A i \in 1 .. Len(s) - 1 : s[1] < Tail(s)[i]
      <3> SUFFICES ASSUME NEW i \in 1 .. Len(s) - 1 PROVE s[1] < Tail(s)[i]
        OBVIOUS
      <3>1. i + 1 \in 1 .. Len(s) /\ 1 \in 1 .. Len(s) /\ 1 < i + 1
        BY <2>1
      <3>2. s[1] < s[i + 1]
        BY <2>3, <3>1
      <3> QED BY <2>1, <3>2
    <2> QED BY <2>1, <2>2, <2>4, <2>5 DEF Rng, Rising
  <1>3. ASSUME NEW t \in Seq(Nat), Rising(t), Less(Rng(s), Rng(t)) PROVE Rising(s \o t)
    <2>1. /\ s \o t \in Seq(Nat) /\ Len(s \o t) = Len(s) + Len(t) /\ Len(s) \in Nat /\ Len(t) \in Nat
          /\ \A i \in 1 .. Len(s) : (s \o t)[i] = s[i]
          /\ \A i \in (Len(s) + 1) .. (Len(s) + Len(t)) : (s \o t)[i] = t[i - Len(s)]
      OBVIOUS
    <2>2. DOMAIN (s \o t) = 1 .. Len(s) + Len(t) /\ DOMAIN s = 1 .. Len(s) /\ DOMAIN t = 1 .. Len(t)
      BY <2>1
    <2>3. \A i \in 1 .. Len(s), j \in 1 .. Len(t) : s[i] < t[j]
      BY <1>3, <2>2 DEF Less, Rng
    <2>4. SUFFICES ASSUME NEW i \in 1 .. Len(s) + Len(t), NEW j \in 1 .. Len(s) + Len(t), i < j
                   PROVE  (s \o t)[i] < (s \o t)[j]
      BY <2>2 DEF Rising
    <2>5. CASE j \in 1 .. Len(s)
      <3>1. i \in 1 .. Len(s)
        BY <2>1, <2>4, <2>5
      <3>2. s[i] < s[j]
        BY <2>2, <2>4, <2>5, <3>1 DEF Rising
      <3> QED BY <2>1, <2>5, <3>1, <3>2
    <2>6. CASE i \in 1 .. Len(s) /\ j \notin 1 .. Len(s)
      BY <2>1, <2>2, <2>3, <2>4, <2>6
    <2>7. CASE i \notin 1 .. Len(s)
      <3>1. i - Len(s) \in 1 .. Len(t) /\ j - Len(s) \in 1 .. Len(t) /\ i - Len(s) < j - Len(s)
        BY <2>1, <2>4, <2>7
      <3>2. t[i - Len(s)] < t[j - Len(s)]
        BY <1>3, <2>2, <3>1 DEF Rising
      <3>3. i \in (Len(s) + 1) .. (Len(s) + Len(t)) /\ j \in (Len(s) + 1) .. (Len(s) + Len(t))
        BY <2>1, <2>4, <2>7
      <3> QED BY <2>1, <3>2, <3>3
    <2> QED BY <2>4, <2>5, <2>6, <2>7
  <1> QED BY <1>1, <1>2, <1>3

(* The same of a sequence of sequences. *)
LEMMA ChunksAre ==
    ASSUME NEW P \in Seq(Seq(Nat))
    PROVE  /\ Chunks(<<>>) = {} /\ Vo!InOrder(<<>>)
           /\ \A b \in Seq(Nat) : Chunks(Append(P, b)) = Chunks(P) \cup Rng(b)
           /\ P # <<>> => /\ Chunks(P) = Rng(Head(P)) \cup Chunks(Tail(P))
                          /\ Head(P) \in Seq(Nat) /\ Tail(P) \in Seq(Seq(Nat))
  <1>1. Chunks(<<>>) = {} /\ Vo!InOrder(<<>>)
    BY DEF Chunks, Vo!InOrder
  <1>2. ASSUME NEW b \in Seq(Nat) PROVE Chunks(Append(P, b)) = Chunks(P) \cup Rng(b)
    <2>1. /\ DOMAIN Append(P, b) = 1 .. Len(P) + 1 /\ DOMAIN P = 1 .. Len(P) /\ Len(P) \in Nat
          /\ \A i \in 1 .. Len(P) : Append(P, b)[i] = P[i]
          /\ Append(P, b)[Len(P) + 1] = b
      OBVIOUS
    <2>2. \A i : i \in 1 .. Len(P) + 1 <=> i \in 1 .. Len(P) \/ i = Len(P) + 1
      BY <2>1
    <2>3. \A c : c \in Chunks(Append(P, b)) <=> \E i \in 1 .. Len(P) + 1 : c \in Rng(Append(P, b)[i])
      BY <2>1 DEF Chunks
    <2>4. \A c : c \in Chunks(P) <=> \E i \in 1 .. Len(P) : c \in Rng(P[i])
      BY <2>1 DEF Chunks
    <2>5. \A i \in 1 .. Len(P) : Rng(Append(P, b)[i]) = Rng(P[i])
      BY <2>1
    <2>6. Rng(Append(P, b)[Len(P) + 1]) = Rng(b)
      BY <2>1
    <2> QED BY <2>2, <2>3, <2>4, <2>5, <2>6
  <1>3. ASSUME P # <<>>
        PROVE  /\ Chunks(P) = Rng(Head(P)) \cup Chunks(Tail(P))
               /\ Head(P) \in Seq(Nat) /\ Tail(P) \in Seq(Seq(Nat))
    <2>1. /\ Tail(P) \in Seq(Seq(Nat)) /\ Head(P) \in Seq(Nat) /\ Head(P) = P[1]
          /\ DOMAIN Tail(P) = 1 .. Len(P) - 1 /\ DOMAIN P = 1 .. Len(P) /\ Len(P) \in Nat /\ Len(P) > 0
          /\ \A i \in 1 .. Len(P) - 1 : Tail(P)[i] = P[i + 1]
      BY <1>3
    <2>2. \A c : c \in Chunks(P) <=> \E i \in 1 .. Len(P) : c \in Rng(P[i])
      BY <2>1 DEF Chunks
    <2>3. \A c : c \in Chunks(Tail(P)) <=> \E i \in 1 .. Len(P) - 1 : c \in Rng(P[i + 1])
      BY <2>1 DEF Chunks
    <2>4. \A c : c \in Chunks(P) => c \in Rng(P[1]) \/ c \in Chunks(Tail(P))
      <3> SUFFICES ASSUME NEW c, c \in Chunks(P), c \notin Rng(P[1]) PROVE c \in Chunks(Tail(P))
        OBVIOUS
      <3>1. PICK i \in 1 .. Len(P) : c \in Rng(P[i])
        BY <2>2
      <3>2. i - 1 \in 1 .. Len(P) - 1 /\ (i - 1) + 1 = i
        BY <2>1, <3>1
      <3>3. c \in Rng(P[(i - 1) + 1])
        BY <3>1, <3>2
      <3> QED BY <2>3, <3>2, <3>3
    <2>5. \A c : c \in Rng(P[1]) \/ c \in Chunks(Tail(P)) => c \in Chunks(P)
      <3>1. 1 \in 1 .. Len(P) /\ \A i \in 1 .. Len(P) - 1 : i + 1 \in 1 .. Len(P)
        BY <2>1
      <3> QED BY <2>2, <2>3, <3>1
    <2> QED BY <2>1, <2>4, <2>5
  <1> QED BY <1>1, <1>2, <1>3

LEMMA InOrderMore ==
    ASSUME NEW P \in Seq(Seq(Nat)), Vo!InOrder(P)
    PROVE  /\ \A b \in Seq(Nat) : Rising(b) /\ Less(Chunks(P), Rng(b)) => Vo!InOrder(Append(P, b))
           /\ P # <<>> => /\ Vo!InOrder(Tail(P)) /\ Rising(Head(P))
                          /\ Less(Rng(Head(P)), Chunks(Tail(P)))
  <1>1. ASSUME NEW b \in Seq(Nat), Rising(b), Less(Chunks(P), Rng(b))
        PROVE  Vo!InOrder(Append(P, b))
    <2>1. /\ DOMAIN Append(P, b) = 1 .. Len(P) + 1 /\ DOMAIN P = 1 .. Len(P) /\ Len(P) \in Nat
          /\ \A i \in 1 .. Len(P) : Append(P, b)[i] = P[i]
          /\ Append(P, b)[Len(P) + 1] = b
      OBVIOUS
    <2>2. SUFFICES ASSUME NEW i \in 1 .. Len(P) + 1, NEW j \in 1 .. Len(P) + 1,
                          NEW k \in DOMAIN Append(P, b)[i], NEW l \in DOMAIN Append(P, b)[j],
                          i < j \/ (i = j /\ k < l)
                   PROVE  Append(P, b)[i][k] < Append(P, b)[j][l]
      BY <2>1 DEF Vo!InOrder
    <2>3. CASE j \in 1 .. Len(P)
      <3>1. i \in 1 .. Len(P)
        BY <2>1, <2>2, <2>3
      <3> QED BY <2>1, <2>2, <2>3, <3>1 DEF Vo!InOrder
    <2>4. CASE i \in 1 .. Len(P) /\ j = Len(P) + 1
      <3>1. Append(P, b)[i][k] \in Chunks(P) /\ Append(P, b)[j][l] \in Rng(b)
        <4>1. Append(P, b)[i] = P[i] /\ k \in DOMAIN P[i] /\ i \in DOMAIN P
          BY <2>1, <2>4
        <4>2. Append(P, b)[j] = b /\ l \in DOMAIN b
          BY <2>1, <2>4
        <4> QED BY <4>1, <4>2 DEF Chunks, Rng
      <3> QED BY <1>1, <3>1 DEF Less
    <2>5. CASE i = Len(P) + 1
      <3>1. j = Len(P) + 1 /\ k < l
        BY <2>1, <2>2, <2>5
      <3>2. Append(P, b)[i] = b /\ Append(P, b)[j] = b
        BY <2>1, <2>5, <3>1
      <3> QED BY <1>1, <2>2, <3>1, <3>2 DEF Rising
    <2> QED BY <2>1, <2>3, <2>4, <2>5
  <1>2. ASSUME P # <<>>
        PROVE  /\ Vo!InOrder(Tail(P)) /\ Rising(Head(P))
               /\ Less(Rng(Head(P)), Chunks(Tail(P)))
    <2>1. /\ Head(P) = P[1] /\ 1 \in 1 .. Len(P)
          /\ DOMAIN Tail(P) = 1 .. Len(P) - 1 /\ DOMAIN P = 1 .. Len(P) /\ Len(P) \in Nat /\ Len(P) > 0
          /\ \A i \in 1 .. Len(P) - 1 : Tail(P)[i] = P[i + 1]
      BY <1>2
    <2>2. Rising(Head(P))
      BY <2>1 DEF Rising, Vo!InOrder
    <2>3. Vo!InOrder(Tail(P))
      <3> SUFFICES ASSUME NEW i \in 1 .. Len(P) - 1, NEW j \in 1 .. Len(P) - 1,
                          NEW k \in DOMAIN Tail(P)[i], NEW l \in DOMAIN Tail(P)[j],
                          i < j \/ (i = j /\ k < l)
                   PROVE  Tail(P)[i][k] < Tail(P)[j][l]
        BY <2>1 DEF Vo!InOrder
      <3>1. i + 1 \in DOMAIN P /\ j + 1 \in DOMAIN P /\ (i + 1 < j + 1 \/ (i + 1 = j + 1 /\ k < l))
        BY <2>1
      <3>2. Tail(P)[i] = P[i + 1] /\ Tail(P)[j] = P[j + 1]
        BY <2>1
      <3> QED BY <3>1, <3>2 DEF Vo!InOrder
    <2>4. Less(Rng(Head(P)), Chunks(Tail(P)))
      <3> SUFFICES ASSUME NEW a \in Rng(P[1]), NEW c \in Chunks(Tail(P)) PROVE a < c
        BY <2>1 DEF Less
      <3>1. PICK k \in DOMAIN P[1] : a = P[1][k]
        BY DEF Rng
      <3>2. PICK i \in 1 .. Len(P) - 1 : c \in Rng(Tail(P)[i])
        BY <2>1 DEF Chunks
      <3>3. PICK l \in DOMAIN Tail(P)[i] : c = Tail(P)[i][l]
        BY <3>2 DEF Rng
      <3>4. 1 \in DOMAIN P /\ i + 1 \in DOMAIN P /\ 1 < i + 1 /\ Tail(P)[i] = P[i + 1]
        BY <2>1
      <3> QED BY <3>1, <3>3, <3>4 DEF Vo!InOrder
    <2> QED BY <2>2, <2>3, <2>4
  <1> QED BY <1>1, <1>2

(* What is handed over, from the monitor to the buffers, to the service,   *)
(* to the texts, stays in order.                                           *)
LEMMA Buffered ==
    ASSUME NEW T \in Seq(Seq(Nat)), NEW J \in Seq(Seq(Nat)), NEW B \in Seq(Nat), NEW H \in Seq(Nat),
           NEW U, NEW said, InTurn(T, J, B), Ahead(Past(T, J, B), H, U, said, TRUE)
    PROVE  InTurn(T, J, B \o H) /\ Ahead(Past(T, J, B \o H), H, U, said, FALSE)
  <1>1. Rng(B \o H) = Rng(B) \cup Rng(H)
    BY RangesAre
  <1>2. Rising(B \o H)
    BY RisingMore DEF InTurn, Ahead, Past, Less
  <1> QED BY <1>1, <1>2 DEF InTurn, Ahead, Past, Less

LEMMA Fired ==
    ASSUME NEW T \in Seq(Seq(Nat)), NEW J \in Seq(Seq(Nat)), NEW B \in Seq(Nat), InTurn(T, J, B)
    PROVE  InTurn(T, Append(J, B), <<>>) /\ Past(T, Append(J, B), <<>>) = Past(T, J, B)
  <1>1. Chunks(Append(J, B)) = Chunks(J) \cup Rng(B) /\ Rng(<<>>) = {} /\ Rising(<<>>)
    BY ChunksAre, RangesAre
  <1>2. Vo!InOrder(Append(J, B))
    BY InOrderMore DEF InTurn
  <1> QED BY <1>1, <1>2 DEF InTurn, Past, Less

LEMMA Answered ==
    ASSUME NEW T \in Seq(Seq(Nat)), NEW J \in Seq(Seq(Nat)), NEW B \in Seq(Nat), InTurn(T, J, B),
           J # <<>>
    PROVE  /\ InTurn(T, Tail(J), B) /\ Past(T, Tail(J), B) \subseteq Past(T, J, B)
           /\ InTurn(Append(T, Head(J)), Tail(J), B)
           /\ Past(Append(T, Head(J)), Tail(J), B) = Past(T, J, B)
  <1>1. /\ Chunks(J) = Rng(Head(J)) \cup Chunks(Tail(J))
        /\ Head(J) \in Seq(Nat) /\ Tail(J) \in Seq(Seq(Nat))
    BY ChunksAre
  <1>2. Vo!InOrder(Tail(J)) /\ Rising(Head(J)) /\ Less(Rng(Head(J)), Chunks(Tail(J)))
    BY InOrderMore DEF InTurn
  <1>3. Chunks(Append(T, Head(J))) = Chunks(T) \cup Rng(Head(J))
    BY <1>1, ChunksAre
  <1>4. Vo!InOrder(Append(T, Head(J)))
    <2>1. Less(Chunks(T), Rng(Head(J))) /\ Vo!InOrder(T)
      BY <1>1 DEF InTurn, Less
    <2> QED BY <1>1, <1>2, <2>1, InOrderMore
  <1> QED BY <1>1, <1>2, <1>3, <1>4 DEF InTurn, Past, Less

(* What the stream and the monitor hold. *)
LEMMA AheadFewer ==
    ASSUME NEW P, NEW Q \in SUBSET P, NEW H, NEW U, NEW said, NEW new \in BOOLEAN,
           Ahead(P, H, U, said, new)
    PROVE  Ahead(Q, H, U, said, new) /\ Ahead(P, <<>>, U, said, TRUE) /\ Ahead(P, <<>>, <<>>, said, TRUE)
  BY DEF Ahead, Less, Rng, Rising

LEMMA AheadSaid ==
    ASSUME NEW P \in SUBSET Nat, NEW H \in Seq(Nat), NEW U \in Seq(Nat), NEW said \in Nat,
           NEW new \in BOOLEAN, Ahead(P, H, U, said, new)
    PROVE  Ahead(P, H, U, said + 1, new) /\ Ahead(P, H, Append(U, said + 1), said + 1, new)
  <1>1. Rng(Append(U, said + 1)) = Rng(U) \cup {said + 1}
    BY RangesAre
  <1>2. Rng(U) \subseteq Nat /\ Rng(H) \subseteq Nat
    BY DEF Rng
  <1>3. \A c \in P \cup Rng(H) \cup Rng(U) : c <= said /\ c <= said + 1 /\ c < said + 1
    BY <1>2 DEF Ahead
  <1>4. Rising(Append(U, said + 1))
    <2>1. \A c \in Rng(U) : c < said + 1
      BY <1>3
    <2>2. Rising(U)
      BY DEF Ahead
    <2>3. said + 1 \in Nat
      OBVIOUS
    <2> QED BY <2>1, <2>2, <2>3, RisingMore
  <1>5. Ahead(P, H, U, said + 1, new)
    BY <1>3 DEF Ahead
  <1>6. Less(P, Rng(U) \cup {said + 1}) /\ Less(Rng(H), Rng(U) \cup {said + 1})
    BY <1>3 DEF Ahead, Less
  <1>7. \A c \in P \cup Rng(H) \cup (Rng(U) \cup {said + 1}) : c <= said + 1
    BY <1>3
  <1> QED BY <1>1, <1>4, <1>5, <1>6, <1>7 DEF Ahead

LEMMA AheadFlows ==
    ASSUME NEW P \in SUBSET Nat, NEW H \in Seq(Nat), NEW U \in Seq(Nat), NEW said,
           NEW new \in BOOLEAN, Ahead(P, H, U, said, new), U # <<>>
    PROVE  Ahead(P, Append(H, Head(U)), Tail(U), said, new)
  <1>1. /\ Head(U) \in Nat /\ Head(U) \in Rng(U) /\ Rng(Tail(U)) \subseteq Rng(U)
        /\ Rng(Append(H, Head(U))) = Rng(H) \cup {Head(U)}
    BY RangesAre
  <1>2. Rising(Tail(U)) /\ \A c \in Rng(Tail(U)) : Head(U) < c
    BY RisingMore DEF Ahead
  <1>3. Rising(Append(H, Head(U)))
    BY <1>1, RisingMore DEF Ahead, Less
  <1> QED BY <1>1, <1>2, <1>3 DEF Ahead, Less

(* Two such sequences, one after the other. *)
LEMMA InOrderJoin ==
    ASSUME NEW P \in Seq(Seq(Nat)), NEW Q \in Seq(Seq(Nat)), Vo!InOrder(P), Vo!InOrder(Q),
           Less(Chunks(P), Chunks(Q))
    PROVE  Vo!InOrder(P \o Q) /\ Chunks(P \o Q) \subseteq Chunks(P) \cup Chunks(Q)
  <1> DEFINE R == P \o Q
  <1>1. /\ DOMAIN R = 1 .. Len(P) + Len(Q) /\ DOMAIN P = 1 .. Len(P) /\ DOMAIN Q = 1 .. Len(Q)
        /\ Len(P) \in Nat /\ Len(Q) \in Nat
        /\ \A i \in 1 .. Len(P) : R[i] = P[i]
        /\ \A i \in (Len(P) + 1) .. (Len(P) + Len(Q)) : R[i] = Q[i - Len(P)]
    OBVIOUS
  <1> HIDE DEF R
  <1>2. \A i \in DOMAIN R :
            i \notin 1 .. Len(P) => i - Len(P) \in 1 .. Len(Q) /\ R[i] = Q[i - Len(P)]
    <2> SUFFICES ASSUME NEW i \in 1 .. Len(P) + Len(Q), i \notin 1 .. Len(P)
                 PROVE  i - Len(P) \in 1 .. Len(Q) /\ R[i] = Q[i - Len(P)]
      BY <1>1
    <2>1. i \in (Len(P) + 1) .. (Len(P) + Len(Q)) /\ i - Len(P) \in 1 .. Len(Q)
      BY <1>1
    <2> QED BY <1>1, <2>1
  <1>3. SUFFICES /\ \A i, j \in DOMAIN R : \A k \in DOMAIN R[i], l \in DOMAIN R[j] :
                        i < j \/ (i = j /\ k < l) => R[i][k] < R[j][l]
                 /\ Chunks(R) \subseteq Chunks(P) \cup Chunks(Q)
    BY DEF R, Vo!InOrder
  <1>4. ASSUME NEW i \in DOMAIN R, NEW j \in DOMAIN R, NEW k \in DOMAIN R[i], NEW l \in DOMAIN R[j],
               i < j \/ (i = j /\ k < l)
        PROVE  R[i][k] < R[j][l]
    <2>1. CASE j \in 1 .. Len(P)
      <3>1. i \in 1 .. Len(P)
        BY <1>1, <1>4, <2>1
      <3>2. R[i] = P[i] /\ R[j] = P[j] /\ i \in DOMAIN P /\ j \in DOMAIN P
        BY <1>1, <2>1, <3>1
      <3> QED BY <1>4, <3>2 DEF Vo!InOrder
    <2>2. CASE i \in 1 .. Len(P) /\ j \notin 1 .. Len(P)
      <3>1. R[i] = P[i] /\ i \in DOMAIN P /\ j - Len(P) \in DOMAIN Q /\ R[j] = Q[j - Len(P)]
        BY <1>1, <1>2, <2>2
      <3>2. R[i][k] \in Chunks(P)
        BY <1>4, <3>1 DEF Chunks, Rng
      <3>3. R[j][l] \in Chunks(Q)
        BY <1>4, <3>1 DEF Chunks, Rng
      <3> QED BY <3>2, <3>3 DEF Less
    <2>3. CASE i \notin 1 .. Len(P)
      <3>1. i - Len(P) \in DOMAIN Q /\ R[i] = Q[i - Len(P)]
        BY <1>1, <1>2, <2>3
      <3>2. j \notin 1 .. Len(P)
        BY <1>1, <1>4, <2>3
      <3>3. j - Len(P) \in DOMAIN Q /\ R[j] = Q[j - Len(P)]
        BY <1>1, <1>2, <3>2
      <3>4. i - Len(P) < j - Len(P) \/ (i - Len(P) = j - Len(P) /\ k < l)
        BY <1>1, <1>4
      <3> QED BY <1>4, <3>1, <3>3, <3>4 DEF Vo!InOrder
    <2> QED BY <2>1, <2>2, <2>3
  <1>5. Chunks(R) \subseteq Chunks(P) \cup Chunks(Q)
    <2> SUFFICES ASSUME NEW i \in DOMAIN R, NEW c \in Rng(R[i]) PROVE c \in Chunks(P) \cup Chunks(Q)
      BY DEF Chunks
    <2>1. CASE i \in 1 .. Len(P)
      <3>1. R[i] = P[i] /\ i \in DOMAIN P
        BY <1>1, <2>1
      <3> QED BY <3>1 DEF Chunks
    <2>2. CASE i \notin 1 .. Len(P)
      <3>1. i - Len(P) \in DOMAIN Q /\ R[i] = Q[i - Len(P)]
        BY <1>1, <1>2, <2>2
      <3> QED BY <3>1 DEF Chunks
    <2> QED BY <2>1, <2>2
  <1> QED BY <1>4, <1>5

LEMMA InTurnJoins ==
    ASSUME NEW T \in Seq(Seq(Nat)), NEW J \in Seq(Seq(Nat)), NEW B \in Seq(Nat), InTurn(T, J, B)
    PROVE  Vo!InOrder(T \o J \o <<B>>)
  <1>1. Vo!InOrder(T \o J) /\ Chunks(T \o J) \subseteq Chunks(T) \cup Chunks(J)
    BY InOrderJoin DEF InTurn
  <1>2. <<B>> \in Seq(Seq(Nat)) /\ DOMAIN <<B>> = {1} /\ <<B>>[1] = B
    OBVIOUS
  <1>3. Vo!InOrder(<<B>>) /\ Chunks(<<B>>) = Rng(B)
    <2> DEFINE S == <<B>>
    <2>1. DOMAIN S = {1} /\ S[1] = B
      OBVIOUS
    <2> HIDE DEF S
    <2>2. Vo!InOrder(S)
      BY <2>1 DEF Vo!InOrder, InTurn, Rising
    <2>3. Chunks(S) = Rng(B)
      BY <2>1 DEF Chunks
    <2> QED BY <2>2, <2>3 DEF S
  <1>4. Less(Chunks(T \o J), Chunks(<<B>>))
    BY <1>1, <1>3 DEF Less, InTurn
  <1>5. T \o J \in Seq(Seq(Nat))
    OBVIOUS
  <1> QED BY <1>1, <1>2, <1>3, <1>4, <1>5, InOrderJoin

(* What the monitor holds that is told of the user's starts and stops.     *)
Held == IF voMonitors = <<>> THEN <<>> ELSE voMonitors[Len(voMonitors)]

HeardTexts == [text : Seq(Nat), at : {"store", "speak", "again", "done"}]

VoiceTypes ==
    /\ voAlive \in BOOLEAN /\ voSpeaking \in BOOLEAN /\ voLate \in BOOLEAN /\ voSubscribed \in BOOLEAN
    /\ voSpoken \in Seq(Nat) /\ voFetching \in 0 .. Len(voSpoken) /\ Len(voSpoken) <= MaxSpoken
    /\ voUnread \in Seq(Nat) /\ voMonitors \in Seq(Seq(Nat))
    /\ voBuffers \in Seq(Nat) /\ voTimers \subseteq Nat /\ voJobs \in Seq(Seq(Nat))
    /\ voMessages \in Seq(HeardTexts)
    /\ voPlaying \subseteq 1 .. MaxPlayers /\ voPlayer \in {0} \cup 1 .. MaxPlayers

(* The number of the last chunk, and how many were said in the last time,  *)
(* or in the last two.                                                     *)
LastOf(s) == IF Len(s) = 0 THEN 0 ELSE s[Len(s)]
Since(s, k) == IF Len(s) <= k THEN LastOf(s) ELSE LastOf(s) - s[Len(s) - k]
Sorted(s) == \A i, j \in 1 .. Len(s) : i <= j => s[i] <= s[j]

InTime == Sorted(voSpoken) /\ (voSpeaking => Len(voSpoken) # 0)

HandedInTurn ==
    ~voLate =>
        /\ InTurn(Vo!Texts, voJobs, voBuffers)
        /\ Ahead(Past(Vo!Texts, voJobs, voBuffers), Held, voUnread, Vo!Said,
                 voSpeaking /\ voFetching = 0)

(* What one monitor may still come to hold: what was said in the last two  *)
(* times at most, in the last one if there is no monitor for it yet.       *)
HeldIsRecent ==
    voAlive /\ ~voLate =>
        /\ voMonitors = <<>> => Len(voUnread) <= Since(voSpoken, 2)
        /\ voMonitors = <<>> /\ ~(voSpeaking /\ voFetching > 0) => Len(voUnread) <= Since(voSpoken, 1)
        /\ Len(voMonitors) = 1 /\ voFetching = 0 => Len(Held) + Len(voUnread) <= Since(voSpoken, 2)

VoiceInv ==
    VoiceTypes /\ InTime /\ HandedInTurn /\ HeldIsRecent /\ Vo!HangsOnLongSpeech /\ Vo!OneVoice

LEMMA VoiceFacts ==
    ASSUME VoiceTypes
    PROVE  /\ Vo!Texts \in Seq(Seq(Nat)) /\ Vo!Said \in Nat /\ Held \in Seq(Nat)
           /\ Vo!Said = LastOf(voSpoken) /\ voSpoken \in Seq(Nat)
           /\ Past(Vo!Texts, voJobs, voBuffers) \subseteq Nat
  <1>1. Vo!Texts \in Seq(Seq(Nat))
    <2>1. Vo!Texts = [m \in 1 .. Len(voMessages) |-> voMessages[m].text]
      BY DEF VoiceTypes, Vo!Texts
    <2>2. Len(voMessages) \in Nat /\ \A m \in 1 .. Len(voMessages) : voMessages[m].text \in Seq(Nat)
      <3>1. Len(voMessages) \in Nat /\ \A m \in 1 .. Len(voMessages) : voMessages[m] \in HeardTexts
        BY DEF VoiceTypes
      <3> QED BY <3>1 DEF HeardTexts
    <2> QED BY <2>1, <2>2
  <1>2. Vo!Said = LastOf(voSpoken) /\ Vo!Said \in Nat /\ voSpoken \in Seq(Nat)
    <2>1. voSpoken \in Seq(Nat) /\ (voSpoken = <<>> <=> Len(voSpoken) = 0)
      BY DEF VoiceTypes
    <2> QED BY <2>1 DEF Vo!Said, Vo!Last, LastOf
  <1>3. Held \in Seq(Nat)
    BY DEF VoiceTypes, Held
  <1>4. Past(Vo!Texts, voJobs, voBuffers) \subseteq Nat
    <2>1. \A s \in Seq(Nat) : Rng(s) \subseteq Nat
      BY DEF Rng
    <2>2. \A P \in Seq(Seq(Nat)) : Chunks(P) \subseteq Nat
      <3> SUFFICES ASSUME NEW P \in Seq(Seq(Nat)), NEW i \in DOMAIN P PROVE Rng(P[i]) \subseteq Nat
        BY DEF Chunks
      <3>1. P[i] \in Seq(Nat)
        OBVIOUS
      <3> QED BY <2>1, <3>1
    <2> QED BY <1>1, <2>1, <2>2 DEF VoiceTypes, Past
  <1> QED BY <1>1, <1>2, <1>3, <1>4

(* A handler of start resets the last monitor, new or not. *)
LEMMA BeginIs ==
    ASSUME VoiceTypes, Vo!Begin
    PROVE  /\ voSubscribed' = TRUE /\ voUnread' = voUnread /\ voMonitors' \in Seq(Seq(Nat))
           /\ Held' = <<>>
           /\ Len(voMonitors') = IF voUnread = <<>> THEN Len(voMonitors) ELSE Len(voMonitors) + 1
           /\ voMonitors' = <<>> <=> voMonitors = <<>> /\ voUnread = <<>>
  <1>1. PICK all : all = IF voUnread = <<>> THEN voMonitors ELSE Append(voMonitors, <<>>)
    OBVIOUS
  <1>2. /\ voSubscribed' = TRUE /\ voUnread' = voUnread
        /\ voMonitors' = IF all = <<>> THEN all ELSE [all EXCEPT ![Len(all)] = <<>>]
    BY <1>1 DEF Vo!Begin, Vo!Reset
  <1>3. /\ all \in Seq(Seq(Nat))
        /\ Len(all) = IF voUnread = <<>> THEN Len(voMonitors) ELSE Len(voMonitors) + 1
        /\ all = <<>> <=> voMonitors = <<>> /\ voUnread = <<>>
    <2>1. voMonitors \in Seq(Seq(Nat)) /\ <<>> \in Seq(Nat) /\ Len(voMonitors) \in Nat
      BY DEF VoiceTypes
    <2>2. ASSUME NEW M \in Seq(Seq(Nat)), NEW e \in Seq(Nat), NEW A, A = Append(M, e)
          PROVE  A \in Seq(Seq(Nat)) /\ A # <<>> /\ Len(A) = Len(M) + 1
      <3>1. A \in Seq(Seq(Nat)) /\ Len(A) = Len(M) + 1 /\ Len(M) \in Nat
        BY <2>2
      <3>2. Len(A) # 0
        BY <3>1
      <3> QED BY <3>1, <3>2
    <2>3. CASE voUnread = <<>>
      BY <1>1, <2>1, <2>3
    <2>4. CASE voUnread # <<>>
      <3>1. all = Append(voMonitors, <<>>)
        BY <1>1, <2>4
      <3> QED BY <2>1, <2>2, <2>4, <3>1
    <2> QED BY <2>3, <2>4
  <1>4. CASE all = <<>>
    <2>1. voMonitors' = <<>>
      BY <1>2, <1>4
    <2>2. Held' = <<>>
      BY <2>1 DEF Held
    <2> QED BY <1>2, <1>3, <1>4, <2>1, <2>2
  <1>5. CASE all # <<>>
    <2>1. Len(all) \in 1 .. Len(all) /\ Len(all) \in Nat /\ <<>> \in Seq(Nat)
      BY <1>3, <1>5
    <2>2. /\ voMonitors' \in Seq(Seq(Nat)) /\ Len(voMonitors') = Len(all)
          /\ voMonitors'[Len(all)] = <<>>
      BY <1>2, <1>3, <1>5, <2>1
    <2>3. voMonitors' # <<>>
      BY <2>1, <2>2
    <2>4. Held' = <<>>
      BY <2>2, <2>3 DEF Held
    <2> QED BY <1>2, <1>3, <1>5, <2>2, <2>3, <2>4
  <1> QED BY <1>4, <1>5

(* What stays as it was of what was handed over. *)
LEMMA HandedStays ==
    ASSUME UNCHANGED <<voMessages, voJobs, voBuffers>>
    PROVE  /\ Vo!Texts' = Vo!Texts
           /\ Past(Vo!Texts, voJobs, voBuffers)' = Past(Vo!Texts, voJobs, voBuffers)
           /\ InTurn(Vo!Texts, voJobs, voBuffers)' <=> InTurn(Vo!Texts, voJobs, voBuffers)
  BY DEF Vo!Texts, Past, Chunks, Rng, InTurn, Rising, Less, Vo!InOrder

(* How much was said of late, and how that changes.                        *)
LEMMA SinceIs ==
    ASSUME NEW s \in Seq(Nat), Sorted(s)
    PROVE  /\ LastOf(s) \in Nat /\ \A i \in 1 .. Len(s) : s[i] \in Nat /\ s[i] <= LastOf(s)
           /\ Since(s, 1) \in Nat /\ Since(s, 2) \in Nat /\ Since(s, 1) <= Since(s, 2)
  <1>1. Len(s) \in Nat /\ \A i \in 1 .. Len(s) : s[i] \in Nat
    OBVIOUS
  <1>2. LastOf(s) \in Nat /\ \A i \in 1 .. Len(s) : s[i] <= LastOf(s)
    <2>1. Len(s) # 0 => Len(s) \in 1 .. Len(s) /\ \A i \in 1 .. Len(s) : i <= Len(s)
      BY <1>1
    <2> QED BY <1>1, <2>1 DEF LastOf, Sorted
  <1>3. \A k \in {1, 2} : ~(Len(s) <= k) => Len(s) - k \in 1 .. Len(s)
    BY <1>1
  <1>4. ASSUME NEW k \in {1, 2} PROVE Since(s, k) \in Nat
    <2>1. CASE Len(s) <= k
      BY <1>2, <2>1 DEF Since
    <2>2. CASE ~(Len(s) <= k)
      <3>1. s[Len(s) - k] \in Nat /\ s[Len(s) - k] <= LastOf(s)
        BY <1>1, <1>2, <1>3, <2>2
      <3>2. LastOf(s) - s[Len(s) - k] \in Nat
        BY <1>2, <3>1
      <3> QED BY <2>2, <3>2 DEF Since
    <2> QED BY <2>1, <2>2
  <1>5. Since(s, 1) <= Since(s, 2)
    <2>1. CASE Len(s) <= 1
      BY <1>1, <1>2, <2>1 DEF Since
    <2>2. CASE Len(s) = 2
      <3>1. s[1] \in Nat
        BY <1>1, <2>2
      <3> QED BY <1>1, <1>2, <2>2, <3>1 DEF Since
    <2>3. CASE Len(s) > 2
      <3>1. Len(s) - 1 \in 1 .. Len(s) /\ Len(s) - 2 \in 1 .. Len(s) /\ Len(s) - 2 <= Len(s) - 1
        BY <1>1, <2>3
      <3>2. s[Len(s) - 2] <= s[Len(s) - 1] /\ s[Len(s) - 1] \in Nat /\ s[Len(s) - 2] \in Nat
        BY <1>1, <3>1 DEF Sorted
      <3> QED BY <1>1, <1>2, <2>3, <3>2 DEF Since
    <2>4. Len(s) <= 1 \/ Len(s) = 2 \/ Len(s) > 2
      <3>1. \A n \in Nat : n <= 1 \/ n = 2 \/ n > 2
        OBVIOUS
      <3> QED BY <1>1, <3>1
    <2> QED BY <2>1, <2>2, <2>3, <2>4
  <1> QED BY <1>1, <1>2, <1>4, <1>5

LEMMA SpeaksAgain ==
    ASSUME NEW s \in Seq(Nat), Sorted(s), NEW t, t = Append(s, LastOf(s))
    PROVE  /\ t \in Seq(Nat) /\ Len(t) = Len(s) + 1 /\ Sorted(t) /\ LastOf(t) = LastOf(s)
           /\ Since(t, 2) = Since(s, 1) /\ Since(t, 1) \in Nat /\ Since(t, 1) <= Since(s, 1)
  <1> DEFINE said == LastOf(s)
  <1>1. /\ Len(s) \in Nat /\ said \in Nat
        /\ \A i \in 1 .. Len(s) : s[i] \in Nat /\ s[i] <= said
    BY SinceIs
  <1>2. /\ t \in Seq(Nat) /\ Len(t) = Len(s) + 1 /\ t[Len(s) + 1] = said
        /\ \A i \in 1 .. Len(s) : t[i] = s[i]
    BY <1>1
  <1>3. LastOf(t) = said
    BY <1>1, <1>2 DEF LastOf
  <1> HIDE DEF said
  <1>4. \A i \in 1 .. Len(s) + 1 : i \in 1 .. Len(s) \/ i = Len(s) + 1
    BY <1>1
  <1>5. Sorted(t)
    <2>1. SUFFICES ASSUME NEW i \in 1 .. Len(s) + 1, NEW j \in 1 .. Len(s) + 1, i <= j
                   PROVE  t[i] <= t[j]
      BY <1>2 DEF Sorted
    <2>2. CASE j \in 1 .. Len(s)
      <3>1. i \in 1 .. Len(s)
        BY <1>1, <2>1, <2>2
      <3>2. s[i] <= s[j]
        BY <2>1, <2>2, <3>1 DEF Sorted
      <3> QED BY <1>2, <2>2, <3>1, <3>2
    <2>3. CASE j = Len(s) + 1
      <3>1. t[i] \in Nat /\ t[i] <= said
        BY <1>1, <1>2, <1>4
      <3> QED BY <1>2, <2>3, <3>1
    <2> QED BY <1>4, <2>2, <2>3
  <1>6. /\ Since(t, 1) = IF Len(s) = 0 THEN said ELSE said - t[Len(s)]
        /\ Since(t, 2) = IF Len(s) <= 1 THEN said ELSE said - t[Len(s) - 1]
        /\ Since(s, 1) = IF Len(s) <= 1 THEN said ELSE said - s[Len(s) - 1]
    <2>1. Len(t) - 1 = Len(s) /\ Len(t) - 2 = Len(s) - 1
      BY <1>1, <1>2
    <2>2. (Len(t) <= 1 <=> Len(s) = 0) /\ (Len(t) <= 2 <=> Len(s) <= 1)
      BY <1>1, <1>2
    <2> QED BY <1>3, <2>1, <2>2 DEF Since, said
  <1>7. /\ Len(s) # 0 => t[Len(s)] = s[Len(s)] /\ s[Len(s)] \in Nat /\ s[Len(s)] <= said
        /\ ~(Len(s) <= 1) => /\ t[Len(s) - 1] = s[Len(s) - 1] /\ s[Len(s) - 1] \in Nat
                            /\ s[Len(s) - 1] <= s[Len(s)]
    <2>1. /\ Len(s) # 0 => Len(s) \in 1 .. Len(s)
          /\ ~(Len(s) <= 1) => Len(s) - 1 \in 1 .. Len(s) /\ Len(s) \in 1 .. Len(s) /\ Len(s) - 1 <= Len(s)
      BY <1>1
    <2> QED BY <1>1, <1>2, <2>1 DEF Sorted
  <1>8. Since(t, 2) = Since(s, 1) /\ Since(t, 1) \in Nat /\ Since(t, 1) <= Since(s, 1)
    <2>1. CASE Len(s) = 0
      BY <1>1, <1>6, <2>1
    <2>2. CASE Len(s) = 1
      BY <1>1, <1>6, <1>7, <2>2
    <2>3. CASE ~(Len(s) <= 1)
      BY <1>1, <1>6, <1>7, <2>3
    <2>4. Len(s) = 0 \/ Len(s) = 1 \/ ~(Len(s) <= 1)
      <3>1. \A n \in Nat : n = 0 \/ n = 1 \/ ~(n <= 1)
        OBVIOUS
      <3> QED BY <1>1, <3>1
    <2> QED BY <2>1, <2>2, <2>3, <2>4
  <1> QED BY <1>2, <1>3, <1>5, <1>8 DEF said

LEMMA SpeaksOn ==
    ASSUME NEW s \in Seq(Nat), Sorted(s), Len(s) # 0,
           NEW t, t = [s EXCEPT ![Len(s)] = LastOf(s) + 1]
    PROVE  /\ t \in Seq(Nat) /\ Len(t) = Len(s) /\ Sorted(t) /\ LastOf(t) = LastOf(s) + 1
           /\ \A k \in {1, 2} : Since(t, k) = Since(s, k) + 1
  <1> DEFINE said == LastOf(s)
  <1>1. /\ Len(s) \in Nat /\ said \in Nat /\ Len(s) \in 1 .. Len(s)
        /\ \A i \in 1 .. Len(s) : s[i] \in Nat /\ s[i] <= said
    BY SinceIs
  <1>2. /\ t \in Seq(Nat) /\ Len(t) = Len(s) /\ t[Len(s)] = said + 1
        /\ \A i \in 1 .. Len(s) : i # Len(s) => t[i] = s[i]
    BY <1>1
  <1>3. LastOf(t) = said + 1
    BY <1>1, <1>2 DEF LastOf
  <1> HIDE DEF said
  <1>4. Sorted(t)
    <2>1. SUFFICES ASSUME NEW i \in 1 .. Len(s), NEW j \in 1 .. Len(s), i <= j
                   PROVE  t[i] <= t[j]
      BY <1>2 DEF Sorted
    <2>2. s[i] <= s[j] /\ s[i] <= said /\ s[i] \in Nat
      BY <1>1, <2>1 DEF Sorted
    <2>3. CASE j # Len(s)
      <3>1. i # Len(s)
        BY <1>1, <2>1, <2>3
      <3> QED BY <1>2, <2>2, <2>3, <3>1
    <2>4. CASE j = Len(s)
      <3>1. t[j] = said + 1 /\ (i # Len(s) => t[i] = s[i]) /\ (i = Len(s) => t[i] = said + 1)
        BY <1>2, <2>4
      <3>2. t[i] = s[i] => t[i] <= said + 1
        BY <1>1, <2>2
      <3>3. said + 1 <= said + 1
        BY <1>1
      <3> QED BY <3>1, <3>2, <3>3
    <2> QED BY <2>3, <2>4
  <1>5. ASSUME NEW k \in {1, 2} PROVE Since(t, k) = Since(s, k) + 1
    <2>1. CASE Len(s) <= k
      BY <1>1, <1>2, <1>3, <2>1 DEF Since, said
    <2>2. CASE ~(Len(s) <= k)
      <3>1. Len(s) - k \in 1 .. Len(s) /\ Len(s) - k # Len(s)
        BY <1>1, <2>2
      <3>2. t[Len(s) - k] = s[Len(s) - k] /\ s[Len(s) - k] \in Nat
        BY <1>1, <1>2, <3>1
      <3>3. Since(t, k) = LastOf(t) - t[Len(s) - k] /\ Since(s, k) = said - s[Len(s) - k]
        <4>1. Len(t) = Len(s)
          BY <1>2
        <4> QED BY <2>2, <4>1 DEF Since, said
      <3> QED BY <1>1, <1>3, <3>2, <3>3
    <2> QED BY <2>1, <2>2
  <1> QED BY <1>2, <1>3, <1>4, <1>5 DEF said

(* What is ahead of a monitor that is emptied. *)
LEMMA BeginAhead ==
    ASSUME VoiceTypes, Vo!Begin, NEW P, NEW said, NEW new \in BOOLEAN,
           Ahead(P, Held, voUnread, said, new)
    PROVE  \A b \in BOOLEAN : Ahead(P, Held', voUnread', said, b)
  <1>1. Held' = <<>> /\ voUnread' = voUnread
    BY BeginIs
  <1>2. Rng(<<>>) = {} /\ Rising(<<>>)
    BY DEF Rng, Rising
  <1> QED BY <1>1, <1>2 DEF Ahead, Less

LEMMA HeldStays ==
    ASSUME UNCHANGED voMonitors
    PROVE  Held' = Held
  BY DEF Held

LEMMA HandedIs ==
    ASSUME VoiceTypes, VoiceTypes', UNCHANGED <<voMessages, voJobs, voBuffers>>, voLate' = voLate,
           HandedInTurn,
           ~voLate => Ahead(Past(Vo!Texts, voJobs, voBuffers), Held', voUnread', Vo!Said',
                            (voSpeaking /\ voFetching = 0)')
    PROVE  HandedInTurn'
  BY HandedStays DEF HandedInTurn

(* The steps. *)
LEMMA VoiceStart ==
    ASSUME VoiceInv, Vo!VoiceAssumption, Vo!SpeakingStarts
    PROVE  VoiceInv'
  <1>1. /\ voAlive /\ voAlive' = voAlive /\ voSpeaking = FALSE /\ Len(voSpoken) < MaxSpoken
        /\ voSpeaking' = TRUE /\ voSpoken' = Append(voSpoken, LastOf(voSpoken))
        /\ UNCHANGED <<voLate, voBuffers, voTimers, voJobs, voMessages, voPlaying, voPlayer>>
        /\ \/ Vo!Begin /\ voFetching' = voFetching
           \/ voFetching' = voFetching + 1 /\ UNCHANGED <<voSubscribed, voUnread, voMonitors>>
    BY VoiceFacts DEF VoiceInv, Vo!SpeakingStarts, Vo!waits, Vo!hears, VoiceTypes
  <1>2. /\ VoiceTypes /\ InTime /\ HandedInTurn /\ HeldIsRecent /\ Vo!HangsOnLongSpeech /\ Vo!OneVoice
        /\ Vo!Said \in Nat /\ Vo!Said = LastOf(voSpoken) /\ Sorted(voSpoken)
        /\ voSpoken \in Seq(Nat) /\ Len(voSpoken) \in Nat
    BY VoiceFacts DEF VoiceInv, InTime
  <1>3. /\ voSpoken' \in Seq(Nat) /\ Len(voSpoken') = Len(voSpoken) + 1 /\ Sorted(voSpoken')
        /\ LastOf(voSpoken') = LastOf(voSpoken) /\ Since(voSpoken', 2) = Since(voSpoken, 1)
        /\ Since(voSpoken', 1) \in Nat /\ Since(voSpoken', 1) <= Since(voSpoken, 1)
        /\ Since(voSpoken, 1) \in Nat
    BY <1>1, <1>2, SpeaksAgain, SinceIs
  <1>4. VoiceTypes'
    <2>1. voFetching \in 0 .. Len(voSpoken) /\ Len(voSpoken) + 1 <= MaxSpoken
      BY <1>1, <1>2 DEF VoiceTypes, Vo!VoiceAssumption
    <2>2. voFetching' \in 0 .. Len(voSpoken) + 1
      BY <1>1, <1>2, <2>1
    <2>3. voSubscribed' \in BOOLEAN /\ voUnread' \in Seq(Nat) /\ voMonitors' \in Seq(Seq(Nat))
      BY <1>1, <1>2, BeginIs DEF VoiceTypes
    <2> QED BY <1>1, <1>2, <1>3, <2>1, <2>2, <2>3 DEF VoiceTypes
  <1>5. Vo!Said' = Vo!Said
    <2>1. Vo!Said' = LastOf(voSpoken')
      <3>1. voSpoken' = <<>> <=> Len(voSpoken') = 0
        BY <1>3
      <3> QED BY <3>1 DEF Vo!Said, Vo!Last, LastOf
    <2> QED BY <1>2, <1>3, <2>1
  <1>6. InTime'
    BY <1>2, <1>3 DEF InTime
  <1>7. HandedInTurn'
    <2> SUFFICES ASSUME ~voLate
                 PROVE  Ahead(Past(Vo!Texts, voJobs, voBuffers), Held', voUnread', Vo!Said,
                              (voSpeaking /\ voFetching = 0)')
      BY <1>1, <1>2, <1>4, <1>5, HandedIs
    <2>1. Ahead(Past(Vo!Texts, voJobs, voBuffers), Held, voUnread, Vo!Said, FALSE)
      BY <1>1, <1>2 DEF HandedInTurn, Ahead
    <2>2. CASE Vo!Begin
      BY <1>2, <2>1, <2>2, BeginAhead
    <2>3. CASE voFetching' = voFetching + 1 /\ UNCHANGED <<voSubscribed, voUnread, voMonitors>>
      <3>1. Held' = Held /\ voUnread' = voUnread
        BY <2>3, HeldStays
      <3>2. voFetching' # 0
        BY <1>2, <2>3 DEF VoiceTypes
      <3> QED BY <2>1, <3>1, <3>2
    <2> QED BY <1>1, <2>2, <2>3
  <1>8. HeldIsRecent'
    <2> DEFINE one == Since(voSpoken, 1)
               oneMore == Since(voSpoken', 1)
    <2> SUFFICES ASSUME voAlive, ~voLate
                 PROVE  /\ voMonitors' = <<>> => Len(voUnread') <= Since(voSpoken', 2)
                        /\ voMonitors' = <<>> /\ ~(voFetching' > 0) => Len(voUnread') <= Since(voSpoken', 1)
                        /\ Len(voMonitors') = 1 /\ voFetching' = 0 => Len(Held') + Len(voUnread') <= Since(voSpoken', 2)
      BY <1>1 DEF HeldIsRecent
    <2>1. Since(voSpoken', 2) = one /\ oneMore \in Nat /\ oneMore <= one /\ one \in Nat
      BY <1>3
    <2> HIDE DEF one, oneMore
    <2>2. voMonitors = <<>> => Len(voUnread) <= one
      BY <1>1, <1>2 DEF HeldIsRecent, one
    <2>3. CASE Vo!Begin
      <3>1. /\ voUnread' = voUnread /\ Held' = <<>>
            /\ Len(voMonitors') = IF voUnread = <<>> THEN Len(voMonitors) ELSE Len(voMonitors) + 1
            /\ voMonitors' = <<>> <=> voMonitors = <<>> /\ voUnread = <<>>
        BY <1>2, <2>3, BeginIs
      <3>2. /\ Len(<<>>) = 0 /\ (Len(voMonitors) = 0 => voMonitors = <<>>)
            /\ Len(voMonitors) \in Nat /\ Len(voUnread) \in Nat
        BY <1>2 DEF VoiceTypes
      <3>3. voUnread = <<>> => Len(voUnread') = 0
        BY <3>1
      <3>4. voMonitors' = <<>> => Len(voUnread') <= one /\ Len(voUnread') <= oneMore
        BY <2>1, <3>1, <3>3
      <3>5. ASSUME Len(voMonitors') = 1 PROVE Len(Held') + Len(voUnread') <= one
        <4>1. CASE voUnread = <<>>
          BY <2>1, <3>1, <3>2, <3>3, <4>1
        <4>2. CASE voUnread # <<>>
          <5>1. Len(voMonitors) = 0
            <6>1. Len(voMonitors) + 1 = 1
              BY <3>1, <3>5, <4>2
            <6> QED BY <3>2, <6>1
          <5> QED BY <2>2, <3>1, <3>2, <5>1
        <4> QED BY <4>1, <4>2
      <3> QED BY <2>1, <3>4, <3>5 DEF oneMore
    <2>4. CASE voFetching' = voFetching + 1 /\ UNCHANGED <<voSubscribed, voUnread, voMonitors>>
      <3>1. voFetching' > 0 /\ voFetching' # 0
        BY <1>2, <2>4 DEF VoiceTypes
      <3> QED BY <2>1, <2>2, <2>4, <3>1
    <2> QED BY <1>1, <2>3, <2>4
  <1>9. Vo!HangsOnLongSpeech' /\ Vo!OneVoice'
    BY <1>1, <1>2 DEF Vo!HangsOnLongSpeech, Vo!OneVoice
  <1> QED BY <1>4, <1>6, <1>7, <1>8, <1>9 DEF VoiceInv

LEMMA VoiceFetched ==
    ASSUME VoiceInv, Vo!MemberFetched
    PROVE  VoiceInv'
  <1>1. /\ voAlive /\ voAlive' = voAlive /\ voFetching > 0 /\ voFetching' = voFetching - 1
        /\ UNCHANGED <<voSpeaking, voSpoken, voBuffers, voTimers, voJobs, voMessages, voPlaying, voPlayer>>
        /\ \/ Vo!Begin /\ voLate' = voLate
           \/ voLate' = TRUE /\ UNCHANGED <<voSubscribed, voUnread, voMonitors>>
    BY DEF VoiceInv, Vo!MemberFetched, Vo!waits, Vo!hears, VoiceTypes
  <1>2. /\ VoiceTypes /\ InTime /\ HandedInTurn /\ HeldIsRecent /\ Vo!HangsOnLongSpeech /\ Vo!OneVoice
        /\ Sorted(voSpoken) /\ voSpoken \in Seq(Nat)
    BY VoiceFacts DEF VoiceInv, InTime
  <1>3. VoiceTypes'
    <2>1. voFetching \in 0 .. Len(voSpoken) /\ Len(voSpoken) \in Nat
      BY <1>2 DEF VoiceTypes
    <2>2. voFetching' \in 0 .. Len(voSpoken)
      BY <1>1, <2>1
    <2>3. /\ voSubscribed' \in BOOLEAN /\ voUnread' \in Seq(Nat) /\ voMonitors' \in Seq(Seq(Nat))
          /\ voLate' \in BOOLEAN
      BY <1>1, <1>2, BeginIs DEF VoiceTypes
    <2> QED BY <1>1, <1>2, <2>1, <2>2, <2>3 DEF VoiceTypes
  <1>4. Vo!Said' = Vo!Said /\ InTime'
    BY <1>1, <1>2 DEF InTime, Vo!Said
  <1>5. HandedInTurn' /\ HeldIsRecent'
    <2>1. CASE voLate' = TRUE
      BY <2>1 DEF HandedInTurn, HeldIsRecent
    <2>2. CASE Vo!Begin /\ voLate' = voLate /\ ~voLate
      <3>1. Ahead(Past(Vo!Texts, voJobs, voBuffers), Held, voUnread, Vo!Said, FALSE)
        BY <1>1, <1>2, <2>2 DEF HandedInTurn, Ahead
      <3>2. HandedInTurn'
        <4> SUFFICES Ahead(Past(Vo!Texts, voJobs, voBuffers), Held', voUnread', Vo!Said,
                           (voSpeaking /\ voFetching = 0)')
          BY <1>1, <1>2, <1>3, <1>4, <2>2, HandedIs
        <4> QED BY <1>2, <2>2, <3>1, BeginAhead
      <3>3. /\ voUnread' = voUnread /\ Held' = <<>>
            /\ Len(voMonitors') = IF voUnread = <<>> THEN Len(voMonitors) ELSE Len(voMonitors) + 1
            /\ voMonitors' = <<>> <=> voMonitors = <<>> /\ voUnread = <<>>
        BY <1>2, <2>2, BeginIs
      <3>4. /\ Len(<<>>) = 0 /\ (Len(voMonitors) = 0 => voMonitors = <<>>)
            /\ Len(voMonitors) \in Nat /\ Len(voUnread) \in Nat
        BY <1>2 DEF VoiceTypes
      <3>5. voMonitors = <<>> => Len(voUnread) <= Since(voSpoken, 2)
        BY <1>1, <1>2, <2>2 DEF HeldIsRecent
      <3>6. Since(voSpoken, 1) \in Nat /\ Since(voSpoken, 2) \in Nat
        BY <1>2, SinceIs
      <3>7. voMonitors' = <<>> => Len(voUnread') = 0
        BY <3>3
      <3>8. ASSUME Len(voMonitors') = 1 PROVE Len(Held') + Len(voUnread') <= Since(voSpoken, 2)
        <4>1. CASE voUnread = <<>>
          <5>1. Len(voUnread') = 0 /\ Len(Held') = 0
            BY <3>3, <4>1
          <5> QED BY <3>6, <5>1
        <4>2. CASE voUnread # <<>>
          <5>1. Len(voMonitors) = 0
            <6>1. Len(voMonitors) + 1 = 1
              BY <3>3, <3>8, <4>2
            <6> QED BY <3>4, <6>1
          <5> QED BY <3>3, <3>4, <3>5, <3>6, <5>1
        <4> QED BY <4>1, <4>2
      <3>9. HeldIsRecent'
        <4>1. voSpoken' = voSpoken
          BY <1>1
        <4>2. voMonitors' = <<>> => Len(voUnread') <= Since(voSpoken, 2) /\ Len(voUnread') <= Since(voSpoken, 1)
          BY <3>6, <3>7
        <4> QED BY <3>8, <4>1, <4>2 DEF HeldIsRecent
      <3> QED BY <3>2, <3>9
    <2>3. CASE voLate' = voLate /\ voLate
      BY <2>3 DEF HandedInTurn, HeldIsRecent
    <2> QED BY <1>1, <2>1, <2>2, <2>3
  <1>6. Vo!HangsOnLongSpeech' /\ Vo!OneVoice'
    BY <1>1, <1>2 DEF Vo!HangsOnLongSpeech, Vo!OneVoice
  <1> QED BY <1>3, <1>4, <1>5, <1>6 DEF VoiceInv

LEMMA VoiceJoins ==
    ASSUME VoiceInv, Vo!MemberJoins
    PROVE  VoiceInv'
  <1>1. /\ voAlive /\ voAlive' = voAlive
        /\ UNCHANGED <<voLate, voFetching, voSpeaking, voSpoken, voUnread, voBuffers, voTimers, voJobs,
                       voMessages, voPlaying, voPlayer>>
        /\ voSubscribed' = TRUE
        /\ voMonitors' = IF voUnread = <<>> THEN voMonitors ELSE Append(voMonitors, <<>>)
    BY DEF VoiceInv, Vo!MemberJoins, Vo!waits, VoiceTypes
  <1>2. /\ VoiceTypes /\ InTime /\ HandedInTurn /\ HeldIsRecent /\ Vo!HangsOnLongSpeech /\ Vo!OneVoice
    BY DEF VoiceInv
  <1>3. CASE voUnread = <<>>
    <2>1. UNCHANGED voMonitors
      BY <1>1, <1>3
    <2>2. Held' = Held /\ Vo!Said' = Vo!Said
      BY <1>1, <2>1, HeldStays DEF Vo!Said
    <2>3. VoiceTypes' /\ InTime'
      BY <1>1, <1>2, <2>1 DEF VoiceTypes, InTime
    <2>4. HandedInTurn'
      <3> SUFFICES ASSUME ~voLate
                   PROVE  Ahead(Past(Vo!Texts, voJobs, voBuffers), Held', voUnread', Vo!Said,
                                (voSpeaking /\ voFetching = 0)')
        BY <1>1, <1>2, <2>2, <2>3, HandedIs
      <3> QED BY <1>1, <1>2, <2>2 DEF HandedInTurn
    <2>5. HeldIsRecent'
      BY <1>1, <1>2, <2>1, <2>2 DEF HeldIsRecent
    <2>6. Vo!HangsOnLongSpeech' /\ Vo!OneVoice'
      BY <1>1, <1>2 DEF Vo!HangsOnLongSpeech, Vo!OneVoice
    <2> QED BY <2>3, <2>4, <2>5, <2>6 DEF VoiceInv
  <1>4. CASE voUnread # <<>>
    <2>1. /\ voMonitors' \in Seq(Seq(Nat)) /\ Len(voMonitors') = Len(voMonitors) + 1
          /\ voMonitors'[Len(voMonitors) + 1] = <<>> /\ Len(voMonitors) \in Nat
          /\ Len(voMonitors) = 0 => voMonitors = <<>>
      <3>1. voMonitors \in Seq(Seq(Nat)) /\ <<>> \in Seq(Nat) /\ voMonitors' = Append(voMonitors, <<>>)
        BY <1>1, <1>2, <1>4 DEF VoiceTypes
      <3> QED BY <3>1
    <2>2. voMonitors' # <<>> /\ Held' = <<>>
      <3>1. voMonitors' # <<>>
        BY <2>1
      <3> QED BY <2>1, <3>1 DEF Held
    <2>3. Vo!Said' = Vo!Said
      BY <1>1 DEF Vo!Said
    <2>4. VoiceTypes' /\ InTime'
      BY <1>1, <1>2, <2>1 DEF VoiceTypes, InTime
    <2>5. HandedInTurn'
      <3> SUFFICES ASSUME ~voLate
                   PROVE  Ahead(Past(Vo!Texts, voJobs, voBuffers), Held', voUnread', Vo!Said,
                                (voSpeaking /\ voFetching = 0)')
        BY <1>1, <1>2, <2>3, <2>4, HandedIs
      <3>1. Rng(<<>>) = {} /\ Rising(<<>>)
        BY DEF Rng, Rising
      <3> QED BY <1>1, <1>2, <2>2, <3>1 DEF HandedInTurn, Ahead, Less
    <2>6. HeldIsRecent'
      <3>1. Len(voMonitors') = 1 => voMonitors = <<>>
        <4>1. \A n \in Nat : n + 1 = 1 => n = 0
          OBVIOUS
        <4> QED BY <2>1, <4>1
      <3>2. ~voLate /\ voMonitors = <<>> => Len(voUnread) <= Since(voSpoken, 2)
        BY <1>1, <1>2 DEF HeldIsRecent
      <3>3. Len(voUnread) \in Nat /\ Len(Held') = 0 /\ 0 + Len(voUnread) = Len(voUnread)
        BY <1>2, <2>2 DEF VoiceTypes
      <3> QED BY <1>1, <2>2, <3>1, <3>2, <3>3 DEF HeldIsRecent
    <2>7. Vo!HangsOnLongSpeech' /\ Vo!OneVoice'
      BY <1>1, <1>2 DEF Vo!HangsOnLongSpeech, Vo!OneVoice
    <2> QED BY <2>4, <2>5, <2>6, <2>7 DEF VoiceInv
  <1> QED BY <1>3, <1>4

LEMMA VoicePacket ==
    ASSUME VoiceInv, Vo!PacketArrives
    PROVE  VoiceInv'
  <1>1. /\ voAlive /\ voAlive' = voAlive /\ voSpeaking
        /\ UNCHANGED <<voLate, voFetching, voSpeaking, voSubscribed, voMonitors, voBuffers, voTimers,
                       voJobs, voMessages, voPlaying, voPlayer>>
        /\ voSpoken' = [voSpoken EXCEPT ![Len(voSpoken)] = LastOf(voSpoken) + 1]
        /\ voUnread' = voUnread \/ voUnread' = Append(voUnread, Vo!Said + 1)
    BY VoiceFacts DEF VoiceInv, Vo!PacketArrives, Vo!waits
  <1>2. /\ VoiceTypes /\ InTime /\ HandedInTurn /\ HeldIsRecent /\ Vo!HangsOnLongSpeech /\ Vo!OneVoice
        /\ Vo!Said \in Nat /\ Vo!Said = LastOf(voSpoken) /\ Sorted(voSpoken) /\ Len(voSpoken) # 0
        /\ voSpoken \in Seq(Nat) /\ Len(voSpoken) \in Nat
        /\ voUnread \in Seq(Nat) /\ Held \in Seq(Nat) /\ Past(Vo!Texts, voJobs, voBuffers) \subseteq Nat
    BY <1>1, VoiceFacts DEF VoiceInv, InTime, VoiceTypes
  <1>3. /\ voSpoken' \in Seq(Nat) /\ Len(voSpoken') = Len(voSpoken) /\ Sorted(voSpoken')
        /\ LastOf(voSpoken') = LastOf(voSpoken) + 1
        /\ \A k \in {1, 2} : Since(voSpoken', k) = Since(voSpoken, k) + 1
        /\ Since(voSpoken, 1) \in Nat /\ Since(voSpoken, 2) \in Nat
    BY <1>1, <1>2, SpeaksOn, SinceIs
  <1>4. /\ voUnread' \in Seq(Nat) /\ Len(voUnread) \in Nat /\ Len(Held) \in Nat
        /\ Len(voUnread') = Len(voUnread) \/ Len(voUnread') = Len(voUnread) + 1
    <2>1. Vo!Said + 1 \in Nat /\ Len(voUnread) \in Nat /\ Len(Held) \in Nat
      BY <1>2
    <2>2. /\ Append(voUnread, Vo!Said + 1) \in Seq(Nat)
          /\ Len(Append(voUnread, Vo!Said + 1)) = Len(voUnread) + 1
      BY <1>2, <2>1
    <2>3. CASE voUnread' = voUnread
      BY <1>2, <2>1, <2>3
    <2>4. CASE voUnread' = Append(voUnread, Vo!Said + 1)
      BY <2>1, <2>2, <2>4
    <2> QED BY <1>1, <2>3, <2>4
  <1>5. VoiceTypes' /\ InTime'
    BY <1>1, <1>2, <1>3, <1>4 DEF VoiceTypes, InTime
  <1>6. Vo!Said' = Vo!Said + 1
    <2>1. voSpoken' = <<>> <=> Len(voSpoken') = 0
      BY <1>3
    <2>2. Vo!Said' = LastOf(voSpoken')
      BY <2>1 DEF Vo!Said, Vo!Last, LastOf
    <2> QED BY <1>2, <1>3, <2>2
  <1>7. Held' = Held
    BY <1>1, HeldStays
  <1>8. HandedInTurn'
    <2> SUFFICES ASSUME ~voLate
                 PROVE  Ahead(Past(Vo!Texts, voJobs, voBuffers), Held, voUnread', Vo!Said + 1,
                              voSpeaking /\ voFetching = 0)
      BY <1>1, <1>2, <1>5, <1>6, <1>7, HandedIs
    <2>1. Ahead(Past(Vo!Texts, voJobs, voBuffers), Held, voUnread, Vo!Said, voSpeaking /\ voFetching = 0)
      BY <1>2 DEF HandedInTurn
    <2>2. (voSpeaking /\ voFetching = 0) \in BOOLEAN
      OBVIOUS
    <2> QED BY <1>1, <1>2, <2>1, <2>2, AheadSaid
  <1>9. HeldIsRecent'
    <2>1. /\ Len(voUnread) <= Since(voSpoken, 2) => Len(voUnread') <= Since(voSpoken', 2)
          /\ Len(voUnread) <= Since(voSpoken, 1) => Len(voUnread') <= Since(voSpoken', 1)
          /\ Len(Held) + Len(voUnread) <= Since(voSpoken, 2)
                => Len(Held) + Len(voUnread') <= Since(voSpoken', 2)
      <3>1. Since(voSpoken', 1) = Since(voSpoken, 1) + 1 /\ Since(voSpoken', 2) = Since(voSpoken, 2) + 1
        BY <1>3
      <3> QED BY <1>3, <1>4, <3>1
    <2> QED BY <1>1, <1>2, <1>7, <2>1 DEF HeldIsRecent
  <1>10. Vo!HangsOnLongSpeech' /\ Vo!OneVoice'
    BY <1>1, <1>2 DEF Vo!HangsOnLongSpeech, Vo!OneVoice
  <1> QED BY <1>5, <1>8, <1>9, <1>10 DEF VoiceInv

(* What a monitor cannot hold was said in two times in a row at most. *)
LEMMA LongSpeech ==
    ASSUME VoiceTypes, MaxSize \in Nat, Since(voSpoken, 2) > MaxSize
    PROVE  \E i, j \in DOMAIN voSpoken : j \in {i, i + 1} /\ voSpoken[j] - Vo!SaidBefore(i) > MaxSize
  <1> DEFINE n == Len(voSpoken)
  <1>1. n \in Nat /\ DOMAIN voSpoken = 1 .. n /\ \A i \in 1 .. n : voSpoken[i] \in Nat
    BY DEF VoiceTypes
  <1>2. Since(voSpoken, 2) = IF n <= 2 THEN IF n = 0 THEN 0 ELSE voSpoken[n]
                             ELSE voSpoken[n] - voSpoken[n - 2]
    <2>1. ~(n <= 2) => n # 0
      BY <1>1
    <2> QED BY <2>1 DEF Since, LastOf
  <1> HIDE DEF n
  <1>3. CASE n = 0
    <2>1. Since(voSpoken, 2) = 0
      BY <1>2, <1>3
    <2> QED BY <2>1
  <1>4. CASE n = 1
    <2>1. 1 \in DOMAIN voSpoken /\ voSpoken[1] \in Nat /\ Vo!SaidBefore(1) = 0
          /\ Since(voSpoken, 2) = voSpoken[1]
      BY <1>1, <1>2, <1>4 DEF Vo!SaidBefore
    <2>2. voSpoken[1] - Vo!SaidBefore(1) > MaxSize
      BY <2>1
    <2> QED BY <2>1, <2>2
  <1>5. CASE n = 2
    <2>1. 1 \in DOMAIN voSpoken /\ 2 \in DOMAIN voSpoken /\ voSpoken[2] \in Nat
          /\ Vo!SaidBefore(1) = 0 /\ Since(voSpoken, 2) = voSpoken[2] /\ 2 \in {1, 1 + 1}
      BY <1>1, <1>2, <1>5 DEF Vo!SaidBefore
    <2>2. voSpoken[2] - Vo!SaidBefore(1) > MaxSize
      BY <2>1
    <2> QED BY <2>1, <2>2
  <1>6. CASE n > 2
    <2>1. n \in 1 .. n /\ n - 1 \in 1 .. n /\ n - 1 # 1 /\ (n - 1) - 1 = n - 2 /\ n = (n - 1) + 1
          /\ ~(n <= 2)
      BY <1>1, <1>6
    <2>2. Vo!SaidBefore(n - 1) = voSpoken[n - 2]
      BY <2>1 DEF Vo!SaidBefore
    <2>3. n \in DOMAIN voSpoken /\ n - 1 \in DOMAIN voSpoken /\ n \in {n - 1, (n - 1) + 1}
      BY <1>1, <2>1
    <2>4. voSpoken[n] - Vo!SaidBefore(n - 1) > MaxSize
      BY <1>2, <2>1, <2>2
    <2> QED BY <2>3, <2>4
  <1>7. n = 0 \/ n = 1 \/ n = 2 \/ n > 2
    <2>1. \A k \in Nat : k = 0 \/ k = 1 \/ k = 2 \/ k > 2
      OBVIOUS
    <2> QED BY <1>1, <2>1
  <1> QED BY <1>3, <1>4, <1>5, <1>6, <1>7

LEMMA VoiceFlows ==
    ASSUME VoiceInv, Vo!VoiceAssumption, Vo!Flow
    PROVE  VoiceInv'
  <1>1. /\ voAlive /\ voUnread # <<>> /\ voMonitors # <<>>
        /\ UNCHANGED <<voLate, voFetching, voSpeaking, voSpoken, voSubscribed, voBuffers, voTimers,
                       voJobs, voMessages, voPlaying, voPlayer>>
        /\ voUnread' = Tail(voUnread)
        /\ voMonitors' = [i \in DOMAIN voMonitors |-> Append(voMonitors[i], Head(voUnread))]
        /\ voAlive' = \A i \in DOMAIN voMonitors : Len(voMonitors'[i]) <= MaxSize
    BY DEF VoiceInv, Vo!Flow, Vo!waits
  <1>2. /\ VoiceTypes /\ InTime /\ HandedInTurn /\ HeldIsRecent /\ Vo!HangsOnLongSpeech /\ Vo!OneVoice
        /\ voUnread \in Seq(Nat) /\ Held \in Seq(Nat) /\ voMonitors \in Seq(Seq(Nat))
        /\ Past(Vo!Texts, voJobs, voBuffers) \subseteq Nat
    BY VoiceFacts DEF VoiceInv, VoiceTypes
  <1>3. /\ voUnread' \in Seq(Nat) /\ Head(voUnread) \in Nat /\ Len(voUnread) \in Nat
        /\ Len(voUnread') \in Nat /\ Len(voUnread) = Len(voUnread') + 1
    BY <1>1, <1>2
  <1>4. /\ Len(voMonitors) \in Nat /\ Len(voMonitors) \in 1 .. Len(voMonitors)
        /\ DOMAIN voMonitors = 1 .. Len(voMonitors)
        /\ \A i \in 1 .. Len(voMonitors) : voMonitors[i] \in Seq(Nat)
    BY <1>1, <1>2
  <1>5. /\ voMonitors' \in Seq(Seq(Nat)) /\ Len(voMonitors') = Len(voMonitors) /\ voMonitors' # <<>>
        /\ voMonitors'[Len(voMonitors)] = Append(voMonitors[Len(voMonitors)], Head(voUnread))
    <2>1. \A i \in 1 .. Len(voMonitors) : Append(voMonitors[i], Head(voUnread)) \in Seq(Nat)
      BY <1>3, <1>4
    <2>2. voMonitors' = [i \in 1 .. Len(voMonitors) |-> Append(voMonitors[i], Head(voUnread))]
      BY <1>1, <1>4
    <2>3. voMonitors' \in Seq(Seq(Nat)) /\ Len(voMonitors') = Len(voMonitors)
      BY <1>4, <2>1, <2>2
    <2>4. voMonitors' # <<>>
      BY <1>4, <2>3
    <2> QED BY <1>4, <2>2, <2>3, <2>4
  <1>6. Held = voMonitors[Len(voMonitors)] /\ Held' = Append(Held, Head(voUnread))
        /\ Len(Held') = Len(Held) + 1 /\ Len(Held) \in Nat
    <2>1. Held = voMonitors[Len(voMonitors)]
      BY <1>1 DEF Held
    <2>2. Held' = voMonitors'[Len(voMonitors')]
      BY <1>5 DEF Held
    <2>3. Held' = Append(Held, Head(voUnread))
      BY <1>5, <2>1, <2>2
    <2> QED BY <1>2, <1>3, <2>1, <2>3
  <1>7. VoiceTypes' /\ InTime' /\ Vo!Said' = Vo!Said
    <2>1. voAlive' \in BOOLEAN
      BY <1>1
    <2> QED BY <1>1, <1>2, <1>3, <1>5, <2>1 DEF VoiceTypes, InTime, Vo!Said
  <1>8. HandedInTurn'
    <2> SUFFICES ASSUME ~voLate
                 PROVE  Ahead(Past(Vo!Texts, voJobs, voBuffers), Held', voUnread', Vo!Said,
                              voSpeaking /\ voFetching = 0)
      BY <1>1, <1>2, <1>7, HandedIs
    <2>1. Ahead(Past(Vo!Texts, voJobs, voBuffers), Held, voUnread, Vo!Said, voSpeaking /\ voFetching = 0)
      BY <1>2 DEF HandedInTurn
    <2>2. (voSpeaking /\ voFetching = 0) \in BOOLEAN
      OBVIOUS
    <2> QED BY <1>1, <1>2, <1>6, <2>1, <2>2, AheadFlows
  <1>9. Len(voMonitors) = 1 /\ voFetching = 0 /\ ~voLate =>
            Len(Held') + Len(voUnread') <= Since(voSpoken, 2)
    <2>1. Len(Held') + Len(voUnread') = Len(Held) + Len(voUnread)
      <3>1. \A h, u \in Nat : (h + 1) + u = h + (u + 1)
        OBVIOUS
      <3> QED BY <1>3, <1>6, <3>1
    <2> QED BY <1>1, <1>2, <2>1 DEF HeldIsRecent
  <1>10. HeldIsRecent'
    BY <1>1, <1>5, <1>9 DEF HeldIsRecent
  <1>11. Vo!HangsOnLongSpeech'
    <2> SUFFICES ASSUME ~voAlive', ~voLate, voFetching = 0, Len(voMonitors) = 1
                 PROVE  \E i, j \in DOMAIN voSpoken :
                            j \in {i, i + 1} /\ voSpoken[j] - Vo!SaidBefore(i) > MaxSize
      <3>1. Len(voMonitors) = 1 \/ Len(voMonitors) > 1
        <4>1. \A k \in Nat : k \in 1 .. k => k = 1 \/ k > 1
          OBVIOUS
        <4> QED BY <1>4, <4>1
      <3>2. voFetching = 0 \/ voFetching > 0
        BY <1>2 DEF VoiceTypes
      <3>3. Vo!HangsOnLongSpeech' <=>
              \/ voAlive' \/ voLate \/ voFetching > 0 \/ Len(voMonitors) > 1
              \/ \E i, j \in DOMAIN voSpoken :
                    j \in {i, i + 1} /\ voSpoken[j] - Vo!SaidBefore(i) > MaxSize
        BY <1>1, <1>5 DEF Vo!HangsOnLongSpeech, Vo!SaidBefore
      <3> QED BY <3>1, <3>2, <3>3
    <2>1. PICK i \in 1 .. Len(voMonitors) : ~(Len(voMonitors'[i]) <= MaxSize)
      BY <1>1, <1>4
    <2>2. ~(Len(Held') <= MaxSize)
      <3>1. i = Len(voMonitors) /\ voMonitors'[i] = Held'
        BY <1>5, <1>6
      <3> QED BY <2>1, <3>1
    <2>3. Since(voSpoken, 2) > MaxSize
      <3>1. Len(Held') + Len(voUnread') <= Since(voSpoken, 2) /\ MaxSize \in Nat
        BY <1>9 DEF Vo!VoiceAssumption
      <3>2. Since(voSpoken, 2) \in Nat
        BY <1>2, SinceIs DEF VoiceTypes, InTime
      <3> QED BY <1>3, <1>6, <2>2, <3>1, <3>2
    <2> QED BY <1>2, <2>3, LongSpeech DEF Vo!VoiceAssumption
  <1>12. Vo!OneVoice'
    BY <1>1, <1>2 DEF Vo!OneVoice
  <1> QED BY <1>7, <1>8, <1>10, <1>11, <1>12 DEF VoiceInv

LEMMA VoiceStops ==
    ASSUME VoiceInv, Vo!SpeakingStops
    PROVE  VoiceInv'
  <1>1. /\ voAlive /\ voAlive' = voAlive /\ voSpeaking /\ voSpeaking' = FALSE
        /\ UNCHANGED <<voFetching, voSpoken, voSubscribed, voUnread, voMonitors, voJobs, voMessages,
                       voPlaying, voPlayer>>
        /\ voLate' = (voLate \/ voFetching > 0)
        /\ \/ /\ voMonitors # <<>> /\ voBuffers' = voBuffers \o voMonitors[Len(voMonitors)]
              /\ voTimers' = voTimers \cup {Len(voMonitors)}
           \/ UNCHANGED <<voBuffers, voTimers>>
    BY DEF VoiceInv, Vo!SpeakingStops, Vo!hears, Vo!Last, Vo!Due
  <1>2. /\ VoiceTypes /\ InTime /\ HandedInTurn /\ HeldIsRecent /\ Vo!HangsOnLongSpeech /\ Vo!OneVoice
        /\ Vo!Texts \in Seq(Seq(Nat)) /\ voJobs \in Seq(Seq(Nat)) /\ voBuffers \in Seq(Nat)
        /\ Held \in Seq(Nat)
    BY VoiceFacts DEF VoiceInv, VoiceTypes
  <1>3. Held' = Held /\ Vo!Said' = Vo!Said /\ Vo!Texts' = Vo!Texts
    BY <1>1, HeldStays DEF Vo!Said, Vo!Texts
  <1>4. \/ UNCHANGED <<voBuffers, voTimers>>
        \/ voBuffers' = voBuffers \o Held /\ voTimers' = voTimers \cup {Len(voMonitors)}
    BY <1>1 DEF Held
  <1>5. VoiceTypes' /\ InTime'
    <2>1. voBuffers' \in Seq(Nat)
      <3>1. voBuffers \o Held \in Seq(Nat)
        BY <1>2
      <3> QED BY <1>2, <1>4, <3>1
    <2>2. Len(voMonitors) \in Nat
      BY <1>2 DEF VoiceTypes
    <2>3. voTimers' \subseteq Nat /\ voLate' \in BOOLEAN
      BY <1>1, <1>2, <1>4, <2>2 DEF VoiceTypes
    <2> QED BY <1>1, <1>2, <2>1, <2>3 DEF VoiceTypes, InTime
  <1>6. HandedInTurn'
    <2> SUFFICES ASSUME ~voLate, ~(voFetching > 0)
                 PROVE  /\ InTurn(Vo!Texts, voJobs, voBuffers')
                        /\ Ahead(Past(Vo!Texts, voJobs, voBuffers'), Held, voUnread, Vo!Said, FALSE)
      <3>1. /\ InTurn(Vo!Texts, voJobs, voBuffers)' <=> InTurn(Vo!Texts, voJobs, voBuffers')
            /\ Past(Vo!Texts, voJobs, voBuffers)' = Past(Vo!Texts, voJobs, voBuffers')
        BY <1>1, <1>3 DEF InTurn, Past, Chunks, Rng, Rising, Less, Vo!InOrder
      <3> QED BY <1>1, <1>3, <3>1 DEF HandedInTurn
    <2>1. /\ InTurn(Vo!Texts, voJobs, voBuffers)
          /\ Ahead(Past(Vo!Texts, voJobs, voBuffers), Held, voUnread, Vo!Said, TRUE)
          /\ Ahead(Past(Vo!Texts, voJobs, voBuffers), Held, voUnread, Vo!Said, FALSE)
      <3>1. voFetching = 0
        BY <1>2 DEF VoiceTypes
      <3> QED BY <1>1, <1>2, <3>1 DEF HandedInTurn, Ahead
    <2>2. CASE voBuffers' = voBuffers
      BY <2>1, <2>2
    <2>3. CASE voBuffers' = voBuffers \o Held
      BY <1>2, <2>1, <2>3, Buffered
    <2> QED BY <1>4, <2>2, <2>3
  <1>7. HeldIsRecent'
    BY <1>1, <1>2, <1>3 DEF HeldIsRecent
  <1>8. Vo!HangsOnLongSpeech' /\ Vo!OneVoice'
    BY <1>1, <1>2 DEF Vo!HangsOnLongSpeech, Vo!OneVoice
  <1> QED BY <1>5, <1>6, <1>7, <1>8 DEF VoiceInv

LEMMA VoiceRejoins ==
    ASSUME VoiceInv, Vo!Rejoin
    PROVE  VoiceInv'
  <1>1. /\ voAlive /\ voAlive' = voAlive /\ voSpeaking' = FALSE /\ voSubscribed' = FALSE
        /\ voUnread' = <<>> /\ voMonitors' = <<>>
        /\ UNCHANGED <<voLate, voFetching, voSpoken, voBuffers, voTimers, voJobs, voMessages,
                       voPlaying, voPlayer>>
    BY DEF VoiceInv, Vo!Rejoin, Vo!waits
  <1>2. /\ VoiceTypes /\ InTime /\ HandedInTurn /\ HeldIsRecent /\ Vo!HangsOnLongSpeech /\ Vo!OneVoice
    BY DEF VoiceInv
  <1>3. VoiceTypes' /\ InTime' /\ Held' = <<>> /\ Vo!Said' = Vo!Said
    <2>1. <<>> \in Seq(Nat) /\ <<>> \in Seq(Seq(Nat))
      OBVIOUS
    <2>2. VoiceTypes'
      BY <1>1, <1>2, <2>1 DEF VoiceTypes
    <2>3. InTime' /\ Held' = <<>> /\ Vo!Said' = Vo!Said
      BY <1>1, <1>2 DEF InTime, Held, Vo!Said
    <2> QED BY <2>2, <2>3
  <1>4. HandedInTurn'
    <2> SUFFICES ASSUME ~voLate
                 PROVE  Ahead(Past(Vo!Texts, voJobs, voBuffers), <<>>, <<>>, Vo!Said, FALSE)
      BY <1>1, <1>2, <1>3, HandedIs
    <2>1. Ahead(Past(Vo!Texts, voJobs, voBuffers), Held, voUnread, Vo!Said, voSpeaking /\ voFetching = 0)
      BY <1>2 DEF HandedInTurn
    <2>2. Rng(<<>>) = {} /\ Rising(<<>>)
      BY DEF Rng, Rising
    <2> QED BY <2>1, <2>2 DEF Ahead, Less
  <1>5. HeldIsRecent'
    <2>1. Len(voUnread') = 0 /\ Len(voMonitors') = 0
      BY <1>1
    <2>2. Since(voSpoken, 1) \in Nat /\ Since(voSpoken, 2) \in Nat
      BY <1>2, SinceIs DEF VoiceTypes, InTime
    <2>3. 0 <= Since(voSpoken, 1) /\ 0 <= Since(voSpoken, 2)
      BY <2>2
    <2> QED BY <1>1, <2>1, <2>3 DEF HeldIsRecent
  <1>6. Vo!HangsOnLongSpeech' /\ Vo!OneVoice'
    BY <1>1, <1>2 DEF Vo!HangsOnLongSpeech, Vo!OneVoice
  <1> QED BY <1>3, <1>4, <1>5, <1>6 DEF VoiceInv

(* What is kept of the audio when only what was handed over moves on. *)
LEMMA HeardStays ==
    ASSUME VoiceInv, VoiceTypes', voAlive, voAlive' = voAlive,
           UNCHANGED <<voLate, voFetching, voSpeaking, voSpoken, voUnread, voMonitors>>,
           ~voLate /\ InTurn(Vo!Texts, voJobs, voBuffers) =>
              /\ InTurn(Vo!Texts', voJobs', voBuffers')
              /\ Past(Vo!Texts', voJobs', voBuffers') \subseteq Past(Vo!Texts, voJobs, voBuffers),
           Vo!OneVoice'
    PROVE  VoiceInv'
  <1>1. /\ VoiceTypes /\ InTime /\ HandedInTurn /\ HeldIsRecent
    BY DEF VoiceInv
  <1>2. Held' = Held /\ Vo!Said' = Vo!Said
    BY HeldStays DEF Vo!Said
  <1>3. HandedInTurn'
    <2>1. /\ InTurn(Vo!Texts, voJobs, voBuffers)' <=> InTurn(Vo!Texts', voJobs', voBuffers')
          /\ Past(Vo!Texts, voJobs, voBuffers)' = Past(Vo!Texts', voJobs', voBuffers')
      BY DEF InTurn, Past, Chunks, Rng, Rising, Less, Vo!InOrder
    <2> SUFFICES ASSUME ~voLate
                 PROVE  Ahead(Past(Vo!Texts', voJobs', voBuffers'), Held, voUnread, Vo!Said,
                              voSpeaking /\ voFetching = 0)
      BY <1>1, <1>2, <2>1 DEF HandedInTurn
    <2>2. (voSpeaking /\ voFetching = 0) \in BOOLEAN
      OBVIOUS
    <2>3. /\ Ahead(Past(Vo!Texts, voJobs, voBuffers), Held, voUnread, Vo!Said, voSpeaking /\ voFetching = 0)
          /\ Past(Vo!Texts', voJobs', voBuffers') \in SUBSET Past(Vo!Texts, voJobs, voBuffers)
      BY <1>1 DEF HandedInTurn
    <2> QED BY <2>2, <2>3, AheadFewer
  <1>4. HeldIsRecent' /\ InTime'
    BY <1>1, <1>2 DEF HeldIsRecent, InTime
  <1>5. Vo!HangsOnLongSpeech'
    BY DEF Vo!HangsOnLongSpeech
  <1> QED BY <1>3, <1>4, <1>5 DEF VoiceInv

LEMMA VoiceFires ==
    ASSUME VoiceInv, NEW i \in voTimers, Vo!DebounceFires(i)
    PROVE  VoiceInv'
  <1>1. /\ voAlive /\ voAlive' = voAlive /\ voTimers' = voTimers \ {i} /\ voBuffers' = <<>>
        /\ voJobs' = IF voBuffers = <<>> THEN voJobs ELSE Append(voJobs, voBuffers)
        /\ UNCHANGED <<voLate, voFetching, voSpeaking, voSpoken, voSubscribed, voUnread, voMonitors,
                       voMessages, voPlaying, voPlayer>>
    BY DEF VoiceInv, Vo!DebounceFires, Vo!hears
  <1>2. /\ VoiceTypes /\ Vo!OneVoice
        /\ Vo!Texts \in Seq(Seq(Nat)) /\ voJobs \in Seq(Seq(Nat)) /\ voBuffers \in Seq(Nat)
    BY VoiceFacts DEF VoiceInv, VoiceTypes
  <1>3. voJobs' \in Seq(Seq(Nat)) /\ Vo!Texts' = Vo!Texts
    BY <1>1, <1>2 DEF Vo!Texts
  <1>4. VoiceTypes' /\ Vo!OneVoice'
    BY <1>1, <1>2, <1>3 DEF VoiceTypes, Vo!OneVoice
  <1>5. ASSUME InTurn(Vo!Texts, voJobs, voBuffers)
        PROVE  InTurn(Vo!Texts, voJobs', <<>>) /\ Past(Vo!Texts, voJobs', <<>>) = Past(Vo!Texts, voJobs, voBuffers)
    <2>1. CASE voBuffers = <<>>
      BY <1>1, <1>5, <2>1
    <2>2. CASE voBuffers # <<>>
      BY <1>1, <1>2, <1>5, <2>2, Fired
    <2> QED BY <2>1, <2>2
  <1> QED BY <1>1, <1>3, <1>4, <1>5, HeardStays

LEMMA VoiceTranscribed ==
    ASSUME VoiceInv, Vo!Transcribed
    PROVE  VoiceInv'
  <1>1. /\ voAlive /\ voAlive' = voAlive /\ voJobs # <<>> /\ voJobs' = Tail(voJobs)
        /\ UNCHANGED <<voLate, voFetching, voSpeaking, voSpoken, voSubscribed, voUnread, voMonitors,
                       voBuffers, voTimers>>
        /\ \/ UNCHANGED <<voMessages, voPlaying, voPlayer>>
           \/ /\ voMessages' = Append(voMessages, [text |-> Head(voJobs), at |-> "store"])
              /\ voPlaying' = voPlaying \ {voPlayer} /\ voPlayer' = 0
    BY DEF VoiceInv, Vo!Transcribed, Vo!hears, Vo!Silenced
  <1>2. /\ VoiceTypes /\ Vo!OneVoice
        /\ Vo!Texts \in Seq(Seq(Nat)) /\ voJobs \in Seq(Seq(Nat)) /\ voBuffers \in Seq(Nat)
    BY VoiceFacts DEF VoiceInv, VoiceTypes
  <1>3. /\ voJobs' \in Seq(Seq(Nat)) /\ Head(voJobs) \in Seq(Nat)
        /\ [text |-> Head(voJobs), at |-> "store"] \in HeardTexts
    BY <1>1, <1>2 DEF HeardTexts
  <1>4. VoiceTypes'
    <2>1. voMessages' \in Seq(HeardTexts)
      <3>1. PICK m \in HeardTexts : m = [text |-> Head(voJobs), at |-> "store"]
        BY <1>3
      <3>2. voMessages' = voMessages \/ voMessages' = Append(voMessages, m)
        BY <1>1, <3>1
      <3>3. voMessages \in Seq(HeardTexts)
        BY <1>2 DEF VoiceTypes
      <3> QED BY <3>2, <3>3
    <2>2. voPlaying' \subseteq 1 .. MaxPlayers /\ voPlayer' \in {0} \cup 1 .. MaxPlayers
      BY <1>1, <1>2 DEF VoiceTypes
    <2> QED BY <1>1, <1>2, <1>3, <2>1, <2>2 DEF VoiceTypes
  <1>5. Vo!OneVoice'
    BY <1>1, <1>2 DEF Vo!OneVoice
  <1>6. Vo!Texts' = Vo!Texts \/ Vo!Texts' = Append(Vo!Texts, Head(voJobs))
    <2>1. CASE voMessages' = voMessages
      BY <2>1 DEF Vo!Texts
    <2>2. CASE voMessages' = Append(voMessages, [text |-> Head(voJobs), at |-> "store"])
      <3>1. PICK m : m = [text |-> Head(voJobs), at |-> "store"]
        OBVIOUS
      <3>2. m.text = Head(voJobs) /\ m \in HeardTexts /\ voMessages' = Append(voMessages, m)
        BY <1>3, <2>2, <3>1
      <3>3. /\ voMessages \in Seq(HeardTexts) /\ Len(voMessages) \in Nat
            /\ DOMAIN voMessages = 1 .. Len(voMessages)
        BY <1>2 DEF VoiceTypes
      <3>4. /\ DOMAIN voMessages' = 1 .. Len(voMessages) + 1
            /\ \A k \in 1 .. Len(voMessages) : voMessages'[k] = voMessages[k]
            /\ voMessages'[Len(voMessages) + 1] = m
        BY <3>2, <3>3
      <3>5. /\ Vo!Texts = [k \in 1 .. Len(voMessages) |-> voMessages[k].text]
            /\ Vo!Texts' = [k \in 1 .. Len(voMessages) + 1 |-> voMessages'[k].text]
        BY <3>3, <3>4 DEF Vo!Texts
      <3>6. PICK T : T = Append(Vo!Texts, Head(voJobs))
        OBVIOUS
      <3>7. /\ Len(Vo!Texts) = Len(voMessages)
            /\ \A k \in 1 .. Len(voMessages) : Vo!Texts[k] = voMessages[k].text
        BY <1>2, <3>3, <3>5
      <3>8. /\ T = [k \in 1 .. Len(voMessages) + 1 |-> T[k]]
            /\ T[Len(voMessages) + 1] = Head(voJobs)
            /\ \A k \in 1 .. Len(voMessages) : T[k] = voMessages[k].text
        <4>1. /\ T \in Seq(Seq(Nat)) /\ Len(T) = Len(Vo!Texts) + 1
              /\ T[Len(Vo!Texts) + 1] = Head(voJobs)
              /\ \A k \in 1 .. Len(Vo!Texts) : T[k] = Vo!Texts[k]
          BY <1>2, <1>3, <3>6
        <4>2. T = [k \in 1 .. Len(T) |-> T[k]]
          BY <4>1
        <4> QED BY <3>7, <4>1, <4>2
      <3>9. \A k \in 1 .. Len(voMessages) + 1 : k \in 1 .. Len(voMessages) \/ k = Len(voMessages) + 1
        BY <3>3
      <3>10. \A k \in 1 .. Len(voMessages) + 1 : T[k] = voMessages'[k].text
        BY <3>2, <3>4, <3>8, <3>9
      <3> QED BY <3>5, <3>6, <3>8, <3>10
    <2> QED BY <1>1, <2>1, <2>2
  <1>7. ASSUME InTurn(Vo!Texts, voJobs, voBuffers)
        PROVE  /\ InTurn(Vo!Texts', voJobs', voBuffers)
               /\ Past(Vo!Texts', voJobs', voBuffers) \subseteq Past(Vo!Texts, voJobs, voBuffers)
    <2>1. CASE Vo!Texts' = Vo!Texts
      BY <1>1, <1>2, <1>7, <2>1, Answered
    <2>2. CASE Vo!Texts' = Append(Vo!Texts, Head(voJobs))
      BY <1>1, <1>2, <1>7, <2>2, Answered
    <2> QED BY <1>6, <2>1, <2>2
  <1> QED BY <1>1, <1>4, <1>5, <1>7, HeardStays

(* A message that is decided about, or played, keeps its text. *)
LEMMA TextsStay ==
    ASSUME VoiceTypes, NEW m \in DOMAIN voMessages, NEW s \in {"store", "speak", "again", "done"},
           voMessages' = [voMessages EXCEPT ![m].at = s]
    PROVE  voMessages' \in Seq(HeardTexts) /\ Vo!Texts' = Vo!Texts
  <1>1. /\ voMessages \in Seq(HeardTexts) /\ Len(voMessages) \in Nat
        /\ DOMAIN voMessages = 1 .. Len(voMessages)
        /\ \A k \in 1 .. Len(voMessages) : voMessages[k] \in HeardTexts
    BY DEF VoiceTypes
  <1>2. PICK r : r = [voMessages[m] EXCEPT !.at = s]
    OBVIOUS
  <1>3. r \in HeardTexts /\ r.text = voMessages[m].text
    <2>1. voMessages[m] \in HeardTexts
      BY <1>1
    <2> QED BY <1>2, <2>1 DEF HeardTexts
  <1>4. /\ voMessages' = [k \in 1 .. Len(voMessages) |-> IF k = m THEN r ELSE voMessages[k]]
    BY <1>1, <1>2
  <1>5. voMessages' \in Seq(HeardTexts) /\ DOMAIN voMessages' = 1 .. Len(voMessages)
    BY <1>1, <1>3, <1>4
  <1>6. \A k \in 1 .. Len(voMessages) : voMessages'[k].text = voMessages[k].text
    BY <1>3, <1>4
  <1>7. Vo!Texts' = Vo!Texts
    BY <1>1, <1>5, <1>6 DEF Vo!Texts
  <1> QED BY <1>5, <1>7

LEMMA VoiceDecides ==
    ASSUME VoiceInv, NEW m \in DOMAIN voMessages, Vo!Decide(m) \/ Vo!Play(m)
    PROVE  VoiceInv'
  <1>1. /\ voAlive /\ voAlive' = voAlive
        /\ UNCHANGED <<voLate, voFetching, voSpeaking, voSpoken, voSubscribed, voUnread, voMonitors,
                       voBuffers, voTimers, voJobs>>
        /\ \E s \in {"store", "speak", "again", "done"} : voMessages' = [voMessages EXCEPT ![m].at = s]
        /\ \/ UNCHANGED <<voPlaying, voPlayer>>
           \/ \E p \in 1 .. MaxPlayers : voPlayer' = p /\ voPlaying' = (voPlaying \ {voPlayer}) \cup {p}
    <2>1. CASE Vo!Decide(m)
      BY <2>1 DEF VoiceInv, Vo!Decide, Vo!hears, Vo!waits
    <2>2. CASE Vo!Play(m)
      BY <2>2 DEF VoiceInv, Vo!Play, Vo!hears, Vo!waits, Vo!Silenced
    <2> QED BY <2>1, <2>2
  <1>2. VoiceTypes /\ Vo!OneVoice
    BY DEF VoiceInv
  <1>3. voMessages' \in Seq(HeardTexts) /\ Vo!Texts' = Vo!Texts
    BY <1>1, <1>2, TextsStay
  <1>4. VoiceTypes' /\ Vo!OneVoice'
    <2>1. CASE UNCHANGED <<voPlaying, voPlayer>>
      BY <1>1, <1>2, <1>3, <2>1 DEF VoiceTypes, Vo!OneVoice
    <2>2. CASE \E p \in 1 .. MaxPlayers :
                  voPlayer' = p /\ voPlaying' = (voPlaying \ {voPlayer}) \cup {p}
      <3>1. /\ voPlaying' \subseteq 1 .. MaxPlayers /\ voPlayer' \in {0} \cup 1 .. MaxPlayers
            /\ voPlaying' \subseteq {voPlayer'}
        BY <1>2, <2>2 DEF VoiceTypes, Vo!OneVoice
      <3> QED BY <1>1, <1>2, <1>3, <3>1 DEF VoiceTypes, Vo!OneVoice
    <2> QED BY <1>1, <2>1, <2>2
  <1> QED BY <1>1, <1>3, <1>4, HeardStays

LEMMA VoiceSilent ==
    ASSUME VoiceInv, Vo!PlayerEnds \/ Vo!Interrupt
    PROVE  VoiceInv'
  <1>1. /\ voAlive /\ voAlive' = voAlive
        /\ UNCHANGED <<voLate, voFetching, voSpeaking, voSpoken, voSubscribed, voUnread, voMonitors,
                       voBuffers, voTimers, voJobs, voMessages>>
        /\ \/ voPlayer' = voPlayer /\ voPlaying' \subseteq voPlaying
           \/ voPlayer' = 0 /\ voPlaying' = voPlaying \ {voPlayer}
    <2>1. CASE Vo!PlayerEnds
      BY <2>1 DEF VoiceInv, Vo!PlayerEnds, Vo!hears, Vo!waits
    <2>2. CASE Vo!Interrupt
      BY <2>2 DEF VoiceInv, Vo!Interrupt, Vo!hears, Vo!waits, Vo!Silenced
    <2> QED BY <2>1, <2>2
  <1>2. VoiceTypes /\ Vo!OneVoice
    BY DEF VoiceInv
  <1>3. VoiceTypes' /\ Vo!OneVoice'
    <2>1. voPlaying' \subseteq 1 .. MaxPlayers /\ voPlayer' \in {0} \cup 1 .. MaxPlayers
          /\ voPlaying' \subseteq {voPlayer'}
      BY <1>1, <1>2 DEF VoiceTypes, Vo!OneVoice
    <2> QED BY <1>1, <1>2, <2>1 DEF VoiceTypes, Vo!OneVoice
  <1>4. Vo!Texts' = Vo!Texts
    BY <1>1 DEF Vo!Texts
  <1> QED BY <1>1, <1>3, <1>4, HeardStays

LEMMA VoiceStutters ==
    ASSUME VoiceInv, UNCHANGED Vo!vars
    PROVE  VoiceInv'
  <1>1. UNCHANGED <<voAlive, voSpeaking, voSpoken, voFetching, voLate, voSubscribed, voUnread, voMonitors,
                    voBuffers, voTimers, voJobs, voMessages, voPlaying, voPlayer>>
    BY DEF Vo!vars, Vo!hears, Vo!waits
  <1>2. VoiceTypes' /\ InTime' /\ HeldIsRecent' /\ Vo!HangsOnLongSpeech' /\ Vo!OneVoice'
    BY <1>1, HeldStays DEF VoiceInv, VoiceTypes, InTime, HeldIsRecent, Vo!HangsOnLongSpeech,
         Vo!SaidBefore, Vo!OneVoice
  <1>3. Vo!Said' = Vo!Said /\ Held' = Held
    BY <1>1, HeldStays DEF Vo!Said
  <1>4. HandedInTurn'
    <2> SUFFICES ASSUME ~voLate
                 PROVE  Ahead(Past(Vo!Texts, voJobs, voBuffers), Held', voUnread', Vo!Said',
                              (voSpeaking /\ voFetching = 0)')
      BY <1>1, <1>2, HandedIs DEF VoiceInv
    <2> QED BY <1>1, <1>3 DEF VoiceInv, HandedInTurn
  <1> QED BY <1>2, <1>4 DEF VoiceInv

LEMMA VoiceNext ==
    ASSUME VoiceInv, Vo!VoiceAssumption, [Vo!Next]_Vo!vars
    PROVE  VoiceInv'
  <1>1. CASE Vo!SpeakingStarts BY <1>1, VoiceStart
  <1>2. CASE Vo!PacketArrives BY <1>2, VoicePacket
  <1>3. CASE Vo!SpeakingStops BY <1>3, VoiceStops
  <1>4. CASE Vo!Rejoin BY <1>4, VoiceRejoins
  <1>5. CASE Vo!MemberJoins BY <1>5, VoiceJoins
  <1>6. CASE Vo!Interrupt BY <1>6, VoiceSilent
  <1>7. CASE Vo!Continue
    <2>1. CASE Vo!MemberFetched BY <2>1, VoiceFetched
    <2>2. CASE Vo!Flow BY <2>2, VoiceFlows
    <2>3. CASE Vo!Transcribed BY <2>3, VoiceTranscribed
    <2>4. CASE Vo!PlayerEnds BY <2>4, VoiceSilent
    <2>5. CASE \E i \in voTimers : Vo!DebounceFires(i) BY <2>5, VoiceFires
    <2>6. CASE \E m \in DOMAIN voMessages : Vo!Decide(m) \/ Vo!Play(m) BY <2>6, VoiceDecides
    <2> QED BY <1>7, <2>1, <2>2, <2>3, <2>4, <2>5, <2>6 DEF Vo!Continue
  <1>8. CASE UNCHANGED Vo!vars BY <1>8, VoiceStutters
  <1> QED BY <1>1, <1>2, <1>3, <1>4, <1>5, <1>6, <1>7, <1>8 DEF Vo!Next

LEMMA VoiceBegins == ASSUME Vo!VoiceAssumption, Vo!Init PROVE VoiceInv
  <1>1. /\ voAlive = TRUE /\ voSpeaking = FALSE /\ voSpoken = <<>> /\ voFetching = 0 /\ voLate = FALSE
        /\ voSubscribed = FALSE /\ voUnread = <<>> /\ voMonitors = <<>> /\ voBuffers = <<>>
        /\ voTimers = {} /\ voJobs = <<>> /\ voMessages = <<>> /\ voPlaying = {} /\ voPlayer = 0
    BY DEF Vo!Init
  <1>2. /\ <<>> \in Seq(Nat) /\ <<>> \in Seq(Seq(Nat)) /\ <<>> \in Seq(HeardTexts)
        /\ Len(<<>>) = 0 /\ DOMAIN <<>> = {}
    OBVIOUS
  <1>3. Len(voSpoken) = 0 /\ Len(voUnread) = 0 /\ Len(voMonitors) = 0
    BY <1>1, <1>2
  <1>4. VoiceTypes
    <2>1. voFetching \in 0 .. Len(voSpoken) /\ Len(voSpoken) <= MaxSpoken
      BY <1>1, <1>3 DEF Vo!VoiceAssumption
    <2> QED BY <1>1, <1>2, <2>1 DEF VoiceTypes
  <1>5. InTime
    BY <1>1, <1>3 DEF InTime, Sorted
  <1>6. Since(voSpoken, 1) = 0 /\ Since(voSpoken, 2) = 0 /\ Vo!Said = 0 /\ Held = <<>>
    BY <1>1, <1>3 DEF Since, LastOf, Vo!Said, Held
  <1>7. HeldIsRecent
    BY <1>1, <1>3, <1>6 DEF HeldIsRecent
  <1>8. HandedInTurn
    <2>1. Vo!Texts = <<>>
      BY <1>1, <1>2 DEF Vo!Texts
    <2>2. Rng(<<>>) = {} /\ Rising(<<>>) /\ Chunks(<<>>) = {} /\ Vo!InOrder(<<>>)
      BY DEF Rng, Rising, Chunks, Vo!InOrder
    <2>3. InTurn(<<>>, <<>>, <<>>) /\ \A new \in BOOLEAN : Ahead(Past(<<>>, <<>>, <<>>), <<>>, <<>>, 0, new)
      BY <2>2 DEF InTurn, Past, Less, Ahead
    <2> QED BY <1>1, <1>6, <2>1, <2>3 DEF HandedInTurn
  <1>9. Vo!HangsOnLongSpeech /\ Vo!OneVoice
    BY <1>1 DEF Vo!HangsOnLongSpeech, Vo!OneVoice
  <1> QED BY <1>4, <1>5, <1>7, <1>8, <1>9 DEF VoiceInv

(* What the invariant says of what was handed over. *)
LEMMA VoiceIsInOrder == ASSUME VoiceInv PROVE Vo!HeardInOrder
  <1>1. Vo!Texts \in Seq(Seq(Nat)) /\ voJobs \in Seq(Seq(Nat)) /\ voBuffers \in Seq(Nat)
    BY VoiceFacts DEF VoiceInv, VoiceTypes
  <1>2. ~voLate => InTurn(Vo!Texts, voJobs, voBuffers)
    BY DEF VoiceInv, HandedInTurn
  <1> QED BY <1>1, <1>2, InTurnJoins DEF Vo!HeardInOrder, Vo!HandedOver

(* However long the user speaks, and whatever is fetched, joined or        *)
(* transcribed meanwhile: what was said is handed over in order and once,  *)
(* a monitor only overflows of long speech, and one player plays.          *)
THEOREM SpeechIsHeard ==
    ASSUME Vo!VoiceAssumption
    PROVE  Vo!Spec => [](Vo!HeardInOrder /\ Vo!HangsOnLongSpeech /\ Vo!OneVoice)
  <1>1. Vo!Init => VoiceInv
    BY VoiceBegins
  <1>2. VoiceInv /\ [Vo!Next]_Vo!vars => VoiceInv'
    BY VoiceNext
  <1>3. VoiceInv => Vo!HeardInOrder /\ Vo!HangsOnLongSpeech /\ Vo!OneVoice
    BY VoiceIsInOrder DEF VoiceInv
  <1> QED BY <1>1, <1>2, <1>3, PTL DEF Vo!Spec

(* The same, with the map of connections, where one part is driven at a    *)
(* time.                                                                   *)
THEOREM VoiceStaysHeard == SysSpec => []VoiceIsHeard
  <1>1. SysInit => VoiceInv /\ Ch!Init
    BY VoiceBegins, Instances DEF SysInit
  <1>2. [SysNext]_sysVars => [Vo!Next]_Vo!vars /\ [Ch!Next]_Ch!vars
    BY DEF SysNext, sysVars, Completing, Asking, Talking, Joining, Embedding, Choosing, voVars, Vo!vars,
         Vo!hears, Vo!waits, chVars, Ch!vars
  <1>3. VoiceInv /\ [Vo!Next]_Vo!vars => VoiceInv'
    BY VoiceNext, Instances
  <1>4. Ch!Spec => []Ch!MapFollowsConnection /\ []Ch!JoinsMayOverlap
    BY MapIsRight, JoiningEndsNothing, Instances
  <1>5. VoiceInv /\ Ch!MapFollowsConnection /\ Ch!JoinsMayOverlap => VoiceIsHeard
    BY VoiceIsInOrder DEF VoiceInv, VoiceIsHeard
  <1> QED BY <1>1, <1>2, <1>3, <1>4, <1>5, PTL DEF SysSpec, Ch!Spec

----------------------------------------------------------------------------
(* Generation.  The loops keep their types; a timer's pause has a bound.   *)

LEMMA TimersHold == Ge!MaxTimer \in Nat /\ Ge!MaxTimer' = Ge!MaxTimer
  BY SMT DEF Ge!MaxTimer

LEMMA LoopsKeepTypes ==
    ASSUME Ge!GenerationAssumption, Ge!TypeOK, [Ge!Next]_Ge!vars
    PROVE  Ge!TypeOK'
  <1>1. CASE UNCHANGED Ge!vars
    BY <1>1 DEF Ge!vars, Ge!TypeOK
  <1>2. ASSUME NEW c \in Questions, Ge!Answer(c) \/ Ge!Resume(c) PROVE Ge!TypeOK'
    BY <1>2 DEF Ge!Answer, Ge!Resume, Ge!TypeOK
  <1>3. ASSUME NEW c \in Questions, Ge!Failed(c) PROVE geFailures' \in [Questions -> 0 .. MaxTries]
    BY <1>3 DEF Ge!Failed, Ge!TypeOK, Ge!GenerationAssumption
  <1>4. ASSUME NEW c \in Questions, Ge!AskAtOnce(c) PROVE Ge!TypeOK'
    <2>1. geFailures' \in [Questions -> 0 .. MaxTries]
      BY <1>3, <1>4 DEF Ge!AskAtOnce
    <2>2. geGap' \in [Questions -> 0 .. Ge!MaxTimer] /\ geDelay' \in [Questions -> Nat]
      BY <1>4, TimersHold, SMT DEF Ge!AskAtOnce, Ge!TypeOK
    <2>3. geAt' \in [Questions -> {"asking", "pausing", "done"}]
      BY <1>4 DEF Ge!AskAtOnce, Ge!TypeOK
    <2> QED BY <2>1, <2>2, <2>3, TimersHold, Zenon DEF Ge!TypeOK
  <1>5. ASSUME NEW c \in Questions, Ge!BackOff(c) PROVE Ge!TypeOK'
    <2>1. geFailures' \in [Questions -> 0 .. MaxTries]
      BY <1>3, <1>5 DEF Ge!BackOff
    <2>2. Ge!Pause(c) \in Nat
      BY DEF Ge!Pause, Ge!TypeOK
    <2>3. Ge!Elapse(Ge!Pause(c)) \in 0 .. Ge!MaxTimer
      BY <2>2, TimersHold DEF Ge!Elapse
    <2>4. geGap' \in [Questions -> 0 .. Ge!MaxTimer] /\ geDelay' \in [Questions -> Nat]
      BY <1>5, <2>3, TimersHold, SMT DEF Ge!BackOff, Ge!TypeOK
    <2>5. geAt' \in [Questions -> {"asking", "pausing", "done"}]
      BY <1>5 DEF Ge!BackOff, Ge!TypeOK
    <2> QED BY <2>1, <2>4, <2>5, TimersHold, Zenon DEF Ge!TypeOK
  <1> QED BY <1>1, <1>2, <1>4, <1>5 DEF Ge!Next, Ge!Step

LEMMA LoopsBegin == Ge!GenerationAssumption /\ Ge!Init => Ge!TypeOK
  BY TimersHold DEF Ge!Init, Ge!TypeOK, Ge!GenerationAssumption

(* Every part keeps the types of its state, with any number of requests,   *)
(* chunks, channels, places and keys.                                      *)
THEOREM ModelsKeepTypes == SysSpec => []TypesOK
  <1>1. Init /\ [][Next]_vars => []TypeOK
    <2>1. Inv => TypeOK
      BY DEF Inv
    <2> QED BY <2>1, InitInv, NextInv, PTL
  <1>2. Ge!Init /\ [][Ge!Next]_Ge!vars => []Ge!TypeOK
    BY LoopsBegin, LoopsKeepTypes, Instances, PTL
  <1>3. Vo!Init /\ [][Vo!Next]_Vo!vars => []VoiceTypes
    <2>1. VoiceInv => VoiceTypes
      BY DEF VoiceInv
    <2> QED BY <2>1, VoiceBegins, VoiceNext, Instances, PTL
  <1>4. Ch!Init /\ [][Ch!Next]_Ch!vars => []ChannelsInv
    BY ChannelsSpec, Instances DEF Ch!Spec
  <1>5. SysInit => /\ Init /\ Ge!Init /\ Vo!Init /\ Ch!Init /\ Em!Init
                   /\ driven = "providers" => ProvidersInv
    BY ProvidersBegin, Instances DEF SysInit
  <1>6. [SysNext]_sysVars => [Next]_vars /\ [Ge!Next]_Ge!vars /\ [Em!Next]_Em!vars
    BY DEF SysNext, sysVars, Completing, Asking, Talking, Joining, Embedding, Choosing, geVars, Ge!vars,
           emVars, Em!vars
  <1>7. [SysNext]_sysVars => [Vo!Next]_Vo!vars /\ [Ch!Next]_Ch!vars
    BY DEF SysNext, sysVars, Completing, Asking, Talking, Joining, Embedding, Choosing, voVars, Vo!vars,
         Vo!hears, Vo!waits, chVars, Ch!vars
  <1>8. (driven = "providers" => ProvidersInv) /\ [SysNext]_sysVars => (driven = "providers" => ProvidersInv)'
    <2>1. [SysNext]_sysVars => [Pr!Next]_Pr!vars /\ UNCHANGED driven
      BY DEF SysNext, sysVars, Completing, Asking, Talking, Joining, Embedding, Choosing, prVars, Pr!vars
    <2> QED BY <2>1, ProvidersNext
  <1>9. /\ TypeOK /\ Ge!TypeOK /\ VoiceTypes /\ ChannelsInv /\ EmbeddingsInv
        /\ driven = "providers" => ProvidersInv
        => TypesOK
    <2> SUFFICES ASSUME VoiceTypes PROVE Vo!TypeOK
      BY DEF ChannelsInv, EmbeddingsInv, ProvidersInv, TypesOK
    <2>1. \A m \in DOMAIN voMessages : voMessages[m] \in HeardTexts
      BY DEF VoiceTypes
    <2>2. \A m \in DOMAIN voMessages : voMessages[m].at \in {"store", "speak", "again", "done"}
      BY <2>1 DEF HeardTexts
    <2>3. Len(voSpoken) \in Nat /\ MaxSpoken \in Nat /\ MaxPlayers \in Nat
      BY Instances DEF VoiceTypes, Vo!VoiceAssumption
    <2>4. voFetching \in 0 .. MaxSpoken /\ voPlayer \in 0 .. MaxPlayers
      BY <2>3 DEF VoiceTypes
    <2> QED BY <2>2, <2>4 DEF VoiceTypes, Vo!TypeOK
  <1> QED BY <1>1, <1>2, <1>3, <1>4, <1>5, <1>6, <1>7, <1>8, <1>9, EmbeddingsSpec, PTL DEF SysSpec

============================================================================
