---------------------------- MODULE ServicesProofs -------------------------
(***************************************************************************)
(* Proofs about the services of plugin-node for any set of requests and    *)
(* calls and whatever fails.  Each service is proved on its own.           *)
(***************************************************************************)
EXTENDS MCServices, Integers, FiniteSets, QueueTheorems

----------------------------------------------------------------------------
(* Transcription.  The inductive invariant adds to the types and the flag  *)
(* that a request is in one place only: waiting, being worked on, or       *)
(* answered; and that of the request whisper works on only the temporary   *)
(* recording is left.                                                      *)
OnePlace ==
    /\ current # None => answer[current] = "none" /\ current \notin Queued
    /\ \A r \in Queued : answer[r] = "none"
    /\ Distinct(queue)

OnlyTemp ==
    phase = "whisper" => \A f \in files : f[2] = current => f[1] = "temp"

Inv == TypeOK /\ FlagIsRight /\ OnePlace /\ OnlyTemp /\ LeftoversOfFailures

LEMMA QueuedElements ==
    /\ Queued = Elements(queue) /\ Queued' = Elements(queue')
    /\ Distinct(queue)' <=> Distinct(queue')
  BY DEF Queued, Elements, Distinct

LEMMA NothingQueued == queue = <<>> => Queued = {}
  BY DEF Queued

LEMMA InitInv == Init => Inv
  <1> SUFFICES ASSUME Init PROVE Inv
    OBVIOUS
  <1> USE DEF Init
  <1>1. TypeOK
    BY EmptySeq DEF TypeOK, Phases, Answers
  <1>2. FlagIsRight
    BY DEF FlagIsRight
  <1>3. OnePlace
    BY NothingQueued, EmptyQueue DEF OnePlace
  <1>4. OnlyTemp /\ LeftoversOfFailures
    BY DEF OnlyTemp, LeftoversOfFailures
  <1> QED BY <1>1, <1>2, <1>3, <1>4 DEF Inv

----------------------------------------------------------------------------
(* The three ways a call of transcribe ends its synchronous part. *)

LEMMA ShortInv ==
    ASSUME Inv, NEW r \in Requests, TranscribeShort(r)
    PROVE  Inv'
  <1> USE DEF Inv, TranscribeShort, New
  <1>1. TypeOK'
    BY DEF TypeOK, Answers
  <1>2. FlagIsRight'
    BY DEF FlagIsRight
  <1>3. OnePlace' /\ OnlyTemp' /\ LeftoversOfFailures'
    BY DEF OnePlace, OnlyTemp, LeftoversOfFailures, TypeOK, Queued
  <1> QED BY <1>1, <1>2, <1>3

LEMMA BusyInv ==
    ASSUME Inv, NEW r \in Requests, TranscribeBusy(r)
    PROVE  Inv'
  <1> USE DEF Inv, TranscribeBusy, New
  <1>1. TypeOK'
    BY JoinQueue DEF TypeOK
  <1>2. FlagIsRight'
    BY DEF FlagIsRight
  <1>3. OnePlace'
    <2>1. Queued' = Queued \cup {r} /\ Distinct(queue')
      BY QueuedElements, JoinQueue DEF OnePlace, TypeOK
    <2> QED BY <2>1, QueuedElements DEF OnePlace
  <1>4. OnlyTemp' /\ LeftoversOfFailures'
    BY DEF OnlyTemp, LeftoversOfFailures
  <1> QED BY <1>1, <1>2, <1>3, <1>4

(* With the queue empty the new request is the one that is taken up. *)
LEMMA IdleTakesIt ==
    ASSUME Inv, NEW r \in Requests, TranscribeIdle(r)
    PROVE  queue = <<>> /\ current = None /\ queue' = <<>> /\ current' = r
  <1>1. queue = <<>> /\ current = None
    BY DEF Inv, FlagIsRight, TranscribeIdle
  <1>2. Append(<<>>, r) = <<r>>
    OBVIOUS
  <1> QED BY <1>1, <1>2 DEF TranscribeIdle, StartWork

LEMMA IdleInv ==
    ASSUME Inv, NEW r \in Requests, TranscribeIdle(r)
    PROVE  Inv'
  <1>0. /\ queue = <<>> /\ current = None /\ queue' = <<>> /\ current' = r
        /\ Queued' = {}
    BY IdleTakesIt, NothingQueued DEF Queued
  <1>1. /\ New(r) /\ processing' = TRUE /\ phase' = "ffprobe" /\ answer' = answer
        /\ files' = files \cup {<<"input", r>>}
    BY <1>0 DEF TranscribeIdle, RaiseFlag, StartWork
  <1>2. TypeOK'
    BY <1>0, <1>1, EmptySeq DEF Inv, TypeOK, Phases, Kinds
  <1>3. FlagIsRight'
    BY <1>0, <1>1, TranscriptionAssumption DEF FlagIsRight
  <1>4. OnePlace'
    BY <1>0, <1>1, EmptyQueue, QueuedElements DEF OnePlace, New
  <1>5. OnlyTemp' /\ LeftoversOfFailures'
    BY <1>0, <1>1, TranscriptionAssumption
    DEF Inv, TypeOK, OnlyTemp, LeftoversOfFailures, Kinds
  <1> QED BY <1>2, <1>3, <1>4, <1>5 DEF Inv

----------------------------------------------------------------------------
(* The worker's answer, with the files it leaves behind. *)

LEMMA ResolveInv ==
    ASSUME Inv, NEW a \in {"text", "null"}, NEW leftover, Resolve(a, leftover),
           phase # "idle", leftover \subseteq Kinds \X Requests,
           \A f \in leftover : \/ f \in files /\ f[2] # current
                               \/ f[2] = current /\ a = "null"
    PROVE  Inv'
  <1>0. current \in Requests /\ answer[current] = "none" /\ processing
    BY DEF Inv, FlagIsRight, OnePlace, TypeOK
  <1>1. answer' = [answer EXCEPT ![current] = a] /\ answer' \in [Requests -> Answers]
    BY <1>0 DEF Resolve, Inv, TypeOK, Answers
  <1>2. \A f \in leftover : answer'[f[2]] = "null"
    BY <1>0, <1>1 DEF Inv, TypeOK, LeftoversOfFailures
  <1>3. CASE queue = <<>>
    <2>1. /\ processing' = FALSE /\ current' = None /\ phase' = "idle"
          /\ files' = leftover /\ queue' = <<>> /\ Queued' = {}
      BY <1>3 DEF Resolve, Queued
    <2>2. TypeOK'
      BY <1>1, <2>1, EmptySeq DEF TypeOK, Phases
    <2>3. FlagIsRight'
      BY <2>1 DEF FlagIsRight
    <2>4. OnePlace' /\ OnlyTemp' /\ LeftoversOfFailures'
      BY <1>2, <2>1, EmptyQueue, QueuedElements DEF OnePlace, OnlyTemp, LeftoversOfFailures
    <2> QED BY <2>2, <2>3, <2>4 DEF Inv
  <1>4. CASE queue # <<>>
    <2>1. /\ processing' = processing /\ current' = Head(queue)
          /\ phase' = "ffprobe" /\ queue' = Tail(queue)
          /\ files' = leftover \cup {<<"input", Head(queue)>>}
      BY <1>4 DEF Resolve, StartWork, NextUp, Rest
    <2>2. /\ queue' \in Seq(Requests) /\ Head(queue) \in Requests
          /\ Head(queue) \in Queued
          /\ Queued' = Queued \ {Head(queue)}
          /\ Distinct(queue')
      BY <1>4, <2>1, LeaveQueue, QueuedElements DEF Inv, OnePlace, TypeOK
    <2>3. TypeOK'
      BY <1>1, <2>1, <2>2 DEF Inv, TypeOK, Phases, Kinds
    <2>4. FlagIsRight'
      BY <1>0, <2>1, <2>2, TranscriptionAssumption DEF FlagIsRight
    <2>5. OnePlace'
      <3>1. current \notin Queued
        BY <1>0, TranscriptionAssumption DEF Inv, OnePlace
      <3>2. \A r \in Queued : r \in Requests /\ answer'[r] = "none"
        BY <1>1, <3>1, ElementOfSeq DEF Inv, OnePlace, Queued, TypeOK
      <3> QED BY <2>1, <2>2, <3>2, QueuedElements DEF OnePlace
    <2>6. OnlyTemp' /\ LeftoversOfFailures'
      BY <1>2, <2>1, <2>2 DEF OnlyTemp, LeftoversOfFailures
    <2> QED BY <2>3, <2>4, <2>5, <2>6 DEF Inv
  <1> QED BY <1>3, <1>4

(* What the answering steps of the worker leave behind. *)
LEMMA WorkerAnswers ==
    ASSUME Inv, ProbeFails \/ ConvertFails \/ Recognise \/ WhisperFails
    PROVE  \E a \in {"text", "null"}, leftover \in SUBSET (Kinds \X Requests) :
               /\ Resolve(a, leftover)
               /\ phase # "idle"
               /\ \A f \in leftover : \/ f \in files /\ f[2] # current
                                      \/ f[2] = current /\ a = "null"
  <1> USE DEF Inv
  <1>0. current \in Requests \/ phase = "idle"
    BY DEF FlagIsRight, TypeOK
  <1>1. CASE ProbeFails
    <2>1. Resolve("null", files) /\ phase # "idle" /\ files \in SUBSET (Kinds \X Requests)
      BY <1>1 DEF ProbeFails, TypeOK
    <2> QED BY <2>1
  <1>2. CASE ConvertFails
    <2>1. PICK part \in SUBSET {<<"output", current>>} : Resolve("null", files \cup part)
      BY <1>2 DEF ConvertFails
    <2>2. phase # "idle"
      BY <1>2 DEF ConvertFails
    <2>3. files \cup part \in SUBSET (Kinds \X Requests)
      BY <1>0, <2>2 DEF TypeOK, Kinds
    <2>4. \A f \in files \cup part : f \in files \/ f[2] = current
      OBVIOUS
    <2> QED BY <2>1, <2>2, <2>3, <2>4
  <1>3. CASE Recognise
    <2>1. PICK a \in {"text", "null"} : Resolve(a, files \ {<<"temp", current>>})
      BY <1>3 DEF Recognise, Transcribed
    <2>2. phase = "whisper"
      BY <1>3 DEF Recognise
    <2>3. \A f \in files : f[2] = current => f = <<"temp", current>>
      BY <2>2 DEF OnlyTemp, TypeOK
    <2>4. files \ {<<"temp", current>>} \in SUBSET (Kinds \X Requests)
      BY DEF TypeOK
    <2> QED BY <2>1, <2>2, <2>3, <2>4
  <1>4. CASE WhisperFails
    <2>1. Resolve("null", files) /\ phase # "idle" /\ files \in SUBSET (Kinds \X Requests)
      BY <1>4 DEF WhisperFails, TypeOK
    <2> QED BY <2>1
  <1> QED BY <1>1, <1>2, <1>3, <1>4

LEMMA ProbedInv == Inv /\ Probed => Inv'
  <1> SUFFICES ASSUME Inv, Probed PROVE Inv'
    OBVIOUS
  <1> USE DEF Inv, Probed
  <1>1. TypeOK' /\ FlagIsRight' /\ OnePlace'
    BY DEF TypeOK, Phases, FlagIsRight, OnePlace, Queued
  <1>2. OnlyTemp' /\ LeftoversOfFailures'
    BY DEF OnlyTemp, LeftoversOfFailures
  <1> QED BY <1>1, <1>2

LEMMA ConvertInv == Inv /\ Convert => Inv'
  <1> SUFFICES ASSUME Inv, Convert PROVE Inv'
    OBVIOUS
  <1> USE DEF Inv, Convert
  <1>1. current \in Requests
    BY DEF TypeOK, FlagIsRight
  <1>2. TypeOK'
    BY <1>1 DEF TypeOK, Phases, Kinds, Converted
  <1>3. FlagIsRight' /\ OnePlace'
    BY DEF FlagIsRight, OnePlace, Queued
  <1>4. LeftoversOfFailures'
    BY DEF LeftoversOfFailures, Converted
  <1>5. OnlyTemp'
    BY DEF OnlyTemp, Converted, TypeOK, Kinds
  <1> QED BY <1>2, <1>3, <1>4, <1>5

LEMMA NextInv == Inv /\ [Next]_vars => Inv'
  <1> SUFFICES ASSUME Inv, [Next]_vars PROVE Inv'
    OBVIOUS
  <1>1. CASE \E r \in Requests : TranscribeShort(r) \/ TranscribeIdle(r) \/ TranscribeBusy(r)
    BY <1>1, ShortInv, IdleInv, BusyInv
  <1>2. CASE Probed \/ Convert
    BY <1>2, ProbedInv, ConvertInv
  <1>3. CASE ProbeFails \/ ConvertFails \/ Recognise \/ WhisperFails
    BY <1>3, WorkerAnswers, ResolveInv
  <1>4. CASE UNCHANGED vars
    BY <1>4 DEF vars, Inv, TypeOK, FlagIsRight, OnePlace, OnlyTemp,
                LeftoversOfFailures, Queued
  <1> QED BY <1>1, <1>2, <1>3, <1>4 DEF Next, Worker

(* The service's fields keep their types. *)
THEOREM TypeCorrect == Spec => []TypeOK
  <1>1. Spec => []Inv
    BY InitInv, NextInv, PTL DEF Spec
  <1>2. Inv => TypeOK
    BY DEF Inv
  <1> QED BY <1>1, <1>2, PTL

(* However many calls of transcribe there are, none is left in the queue   *)
(* with nobody working: the flag is up exactly while the worker is busy.   *)
THEOREM NoLostWakeup == Spec => []FlagIsRight
  <1>1. Spec => []Inv
    BY InitInv, NextInv, PTL DEF Spec
  <1>2. Inv => FlagIsRight
    BY DEF Inv
  <1> QED BY <1>1, <1>2, PTL

(* A recording that got its text leaves no file behind. *)
THEOREM CleansUp == Spec => []LeftoversOfFailures
  <1>1. Spec => []Inv
    BY InitInv, NextInv, PTL DEF Spec
  <1>2. Inv => LeftoversOfFailures
    BY DEF Inv
  <1> QED BY <1>1, <1>2, PTL

----------------------------------------------------------------------------
(* Every step of the service is a step of the serial server, or none. *)

LEMMA NewToServer ==
    ASSUME Inv, NEW r \in Requests, New(r)
    PROVE  r \notin Serial!Accepted
  BY DEF New, Serial!Accepted, Queued

LEMMA ResolveServes ==
    ASSUME Inv, phase # "idle", NEW a \in {"text", "null"}, NEW leftover,
           Resolve(a, leftover)
    PROVE  Serial!Next
  <1>0. current \in Requests /\ {current} \ {None} = {current}
    BY TranscriptionAssumption DEF Inv, FlagIsRight, TypeOK
  <1>1. answer' = [answer EXCEPT ![current] = a]
    BY DEF Resolve
  <1>2. {r \in Requests : answer'[r] # "none"}
            = {r \in Requests : answer[r] # "none"} \cup {current}
    BY <1>0, <1>1 DEF Inv, TypeOK
  <1>3. CASE queue = <<>>
    <2>1. queue' = queue /\ {current'} \ {None} = {}
      BY <1>3 DEF Resolve
    <2> QED BY <1>0, <1>2, <1>3, <2>1 DEF Serial!Next, Serial!Answer
  <1>4. CASE queue # <<>>
    <2>1. current' = Head(queue) /\ queue' = Tail(queue)
      BY <1>4 DEF Resolve, StartWork, NextUp, Rest
    <2>2. Head(queue) \in Requests
      BY <1>4, HeadTailProperties DEF Inv, TypeOK
    <2>3. {current'} \ {None} = {Head(queue)}
      BY <2>1, <2>2, TranscriptionAssumption
    <2> QED BY <1>0, <1>2, <1>4, <2>1, <2>3 DEF Serial!Next, Serial!Answer
  <1> QED BY <1>3, <1>4

LEMMA StepServes == Inv /\ [Next]_vars => [Serial!Next]_(Serial!vars)
  <1> SUFFICES ASSUME Inv, [Next]_vars PROVE [Serial!Next]_(Serial!vars)
    OBVIOUS
  <1>1. ASSUME NEW r \in Requests, TranscribeShort(r)
        PROVE  Serial!Next
    <2>1. New(r) /\ answer' = [answer EXCEPT ![r] = "null"]
          /\ queue' = queue /\ current' = current
      BY <1>1 DEF TranscribeShort
    <2>2. {q \in Requests : answer'[q] # "none"}
              = {q \in Requests : answer[q] # "none"} \cup {r}
      BY <2>1 DEF Inv, TypeOK
    <2> QED BY <2>1, <2>2, NewToServer DEF Serial!Next, Serial!Dismiss
  <1>2. ASSUME NEW r \in Requests, TranscribeIdle(r)
        PROVE  Serial!Next
    <2>1. queue = <<>> /\ current = None /\ queue' = <<>> /\ current' = r
      BY <1>2, IdleTakesIt
    <2>2. New(r) /\ answer' = answer
      BY <1>2 DEF TranscribeIdle
    <2>3. {current} \ {None} = {} /\ {current'} \ {None} = {r}
      BY <2>1, TranscriptionAssumption
    <2> QED BY <2>1, <2>2, <2>3, NewToServer DEF Serial!Next, Serial!SubmitAndServe
  <1>3. ASSUME NEW r \in Requests, TranscribeBusy(r)
        PROVE  Serial!Next
    BY <1>3, NewToServer DEF TranscribeBusy, Serial!Next, Serial!Submit
  <1>4. CASE Probed \/ Convert
    BY <1>4 DEF Probed, Convert, Serial!vars
  <1>5. CASE ProbeFails \/ ConvertFails \/ Recognise \/ WhisperFails
    BY <1>5, WorkerAnswers, ResolveServes
  <1>6. CASE UNCHANGED vars
    BY <1>6 DEF vars, Serial!vars
  <1> QED BY <1>1, <1>2, <1>3, <1>4, <1>5, <1>6 DEF Next, Worker

LEMMA InitServes == Init => Serial!Init
  BY DEF Init, Serial!Init

(* The service implements the serial server: any number of calls, made at  *)
(* any time, are served one at a time, in order, and answered once.        *)
THEOREM Refinement == Spec => ServesSerially
  <1>1. Spec => []Inv
    BY InitInv, NextInv, PTL DEF Spec
  <1> QED BY <1>1, InitServes, StepServes, PTL DEF Spec, ServesSerially, Serial!Spec

----------------------------------------------------------------------------
(* Browser.  A call that is past the launch has a context, unless it came  *)
(* early; and the pages it has open are those it is nested in.             *)

BrowserCall(c) ==
    /\ brAt[c] \in {"new", "launch", "context", "blocker"} => brTrail[c] = <<>> /\ brOpen[c] = 0
    /\ brAt[c] \in {"lookup", "page"} => brOpen[c] = Len(brTrail[c]) /\ Len(brTrail[c]) <= MaxDepth
    /\ brAt[c] = "load" => brOpen[c] = Len(brTrail[c]) + 1 /\ Len(brTrail[c]) <= MaxDepth
    /\ brAt[c] \in {"blocker", "page", "load"} => brContext
    /\ brAt[c] = "lookup" => brContext \/ c \in brEarly
    /\ brResult[c] = "error" => brFaults > 0 \/ c \in brEarly

BrowserInv == Br!TypeOK /\ \A c \in Fetches : BrowserCall(c)

LEMMA TrailsAreSequences ==
    ASSUME Br!BrowserAssumption, NEW s \in Br!Trails
    PROVE  s \in Seq(Br!Sources) /\ Len(s) \in 0 .. MaxDepth + 1
  BY DEF Br!Trails, Br!BrowserAssumption

LEMMA SequencesAreTrails ==
    ASSUME Br!BrowserAssumption, NEW s \in Seq(Br!Sources), Len(s) <= MaxDepth + 1
    PROVE  s \in Br!Trails
  <1>1. s \in [1 .. Len(s) -> Br!Sources] /\ Len(s) \in 0 .. MaxDepth + 1
    BY LenProperties DEF Br!BrowserAssumption
  <1> QED BY <1>1 DEF Br!Trails

(* A step of one call. *)
LEMMA BrowserMove ==
    ASSUME Br!BrowserAssumption, BrowserInv, Br!TypeOK', NEW c \in Fetches,
           \A d \in Fetches \ {c} : /\ brAt'[d] = brAt[d] /\ brTrail'[d] = brTrail[d]
                                    /\ brOpen'[d] = brOpen[d] /\ brResult'[d] = brResult[d],
           BrowserCall(c)', brEarly \subseteq brEarly', brContext => brContext',
           brFaults' >= brFaults
    PROVE  BrowserInv'
  <1>1. brFaults \in Nat /\ brFaults' \in Nat
    BY DEF BrowserInv, Br!TypeOK, Br!BrowserAssumption
  <1>2. ASSUME NEW d \in Fetches, d # c PROVE BrowserCall(d)'
    BY <1>1, <1>2 DEF BrowserInv, BrowserCall
  <1> QED BY <1>2 DEF BrowserInv

LEMMA BrowserStep ==
    ASSUME Br!BrowserAssumption, BrowserInv, NEW c \in Fetches,
    Br!GetPageContent(c) \/ Br!Advance(c)
    PROVE  BrowserInv'
  <1> USE DEF Br!Go, Br!Finish, Br!Fault
  <1>1. /\ brBrowser \in BOOLEAN /\ brContext \in BOOLEAN
        /\ brAt \in [Fetches -> {"new", "launch", "context", "blocker", "lookup", "page", "load",
                             "closing", "done"}]
        /\ brTrail \in [Fetches -> Br!Trails] /\ brOpen \in [Fetches -> 0 .. MaxDepth + 1]
        /\ brResult \in [Fetches -> {"none", "content", "error", "rejected"}]
        /\ brCached \subseteq Br!Pages \X Br!Trails /\ brEarly \subseteq Fetches
        /\ brFaults \in 0 .. MaxFaults /\ MaxFaults \in Nat /\ MaxDepth \in Nat
    BY DEF BrowserInv, Br!TypeOK, Br!BrowserAssumption
  <1>2. brTrail[c] \in Seq(Br!Sources) /\ Len(brTrail[c]) \in 0 .. MaxDepth + 1
    BY <1>1, TrailsAreSequences
  <1>3. BrowserCall(c)
    BY DEF BrowserInv
  <1>4. CASE Br!GetPageContent(c)
    <2>1. brEarly' \subseteq Fetches /\ brEarly \subseteq brEarly'
                                     /\ (brBrowser /\ ~brContext => c \in brEarly')
      BY <1>1, <1>4 DEF Br!GetPageContent
    <2>2. /\ brAt' = [brAt EXCEPT ![c] = IF brBrowser THEN "lookup" ELSE "launch"]
          /\ UNCHANGED <<brBrowser, brContext, brTrail, brOpen, brResult, brCached, brFaults>>
          /\ brAt[c] = "new"
      BY <1>4 DEF Br!GetPageContent
    <2>3. Br!TypeOK'
      BY <1>1, <2>1, <2>2 DEF Br!TypeOK, Br!Pages
    <2>4. BrowserCall(c)'
      BY <1>1, <1>3, <2>1, <2>2 DEF BrowserCall
    <2> QED BY <1>1, <2>1, <2>2, <2>3, <2>4, BrowserMove
  <1>5. CASE Br!Launched(c)
    <2>1. /\ brAt[c] = "launch" /\ brAt' = [brAt EXCEPT ![c] = "context"] /\ brBrowser' = TRUE
          /\ UNCHANGED <<brContext, brTrail, brOpen, brResult, brCached, brEarly, brFaults>>
      BY <1>5 DEF Br!Launched, Br!AfterLaunch
    <2>2. Br!TypeOK'
      BY <1>1, <2>1 DEF Br!TypeOK, Br!Pages
    <2>3. BrowserCall(c)'
      BY <1>1, <1>3, <2>1 DEF BrowserCall
    <2> QED BY <1>1, <2>1, <2>2, <2>3, BrowserMove
  <1>6. CASE Br!ContextMade(c) \/ Br!BlockerLoaded(c)
    <2>1. Br!TypeOK'
      BY <1>1, <1>6 DEF Br!TypeOK, Br!Pages, Br!ContextMade, Br!BlockerLoaded
    <2>2. BrowserCall(c)'
      BY <1>1, <1>3, <1>6 DEF BrowserCall, Br!ContextMade, Br!BlockerLoaded
    <2> QED BY <1>1, <1>6, <2>1, <2>2, BrowserMove DEF Br!ContextMade, Br!BlockerLoaded
  <1>7. CASE Br!InitializationFails(c) \/ Br!FetchFails(c)
    <2>1. Br!TypeOK'
      BY <1>1, <1>7 DEF Br!TypeOK, Br!Pages, Br!InitializationFails, Br!FetchFails
    <2>2. BrowserCall(c)'
      BY <1>1, <1>3, <1>7 DEF BrowserCall, Br!InitializationFails, Br!FetchFails
    <2> QED BY <1>1, <1>7, <2>1, <2>2, BrowserMove DEF Br!InitializationFails, Br!FetchFails
  <1>8. CASE Br!Lookup(c)
    <2>1. /\ brAt[c] = "lookup"
          /\ UNCHANGED <<brBrowser, brContext, brTrail, brOpen, brCached, brEarly, brFaults>>
          /\ \/ \E what \in {"content", "error"} :
                  /\ brAt' = [brAt EXCEPT ![c] = "closing"]
                  /\ brResult' = [brResult EXCEPT ![c] = what]
                  /\ what = "error" => ~brContext
             \/ brContext /\ brAt' = [brAt EXCEPT ![c] = "page"] /\ brResult' = brResult
      BY <1>8 DEF Br!Lookup
    <2>2. Br!TypeOK'
      BY <1>1, <2>1 DEF Br!TypeOK, Br!Pages
    <2>3. BrowserCall(c)'
      BY <1>1, <1>3, <2>1 DEF BrowserCall
    <2> QED BY <1>1, <2>1, <2>2, <2>3, BrowserMove
  <1>9. CASE Br!LookupFails(c)
    <2> DEFINE n == Len(brTrail[c])
               again == [brTrail[c] EXCEPT ![n] = "google"]
    <2>0. [brTrail EXCEPT ![c][n] = "google"] = [brTrail EXCEPT ![c] = again]
      OBVIOUS
    <2>1. /\ brAt[c] = "lookup" /\ UNCHANGED <<brBrowser, brContext, brOpen, brCached, brEarly>>
          /\ brFaults' = brFaults + 1 /\ brFaults < MaxFaults
          /\ \/ \E what \in {"rejected", "error"} :
                  /\ brAt' = [brAt EXCEPT ![c] = "closing"]
                  /\ brResult' = [brResult EXCEPT ![c] = what]
                  /\ brTrail' = brTrail
             \/ /\ n # 0 /\ brTrail' = [brTrail EXCEPT ![c] = again]
                /\ UNCHANGED <<brAt, brResult>>
      BY <1>9 DEF Br!LookupFails
    <2>2. n # 0 => again \in Seq(Br!Sources) /\ Len(again) = n
      <3>1. n # 0 => n \in 1 .. Len(brTrail[c])
        BY <1>2
      <3> QED BY <1>2, <3>1, ExceptSeq DEF Br!Sources
    <2>3. n # 0 => again \in Br!Trails
      BY <1>2, <2>2, SequencesAreTrails
    <2>4. Br!TypeOK'
      <3>1. brTrail' \in [Fetches -> Br!Trails] /\ brFaults' \in 0 .. MaxFaults
        <4> HIDE DEF n, again
        <4> QED BY <1>1, <2>1, <2>3
      <3>2. brAt' \in [Fetches -> {"new", "launch", "context", "blocker", "lookup", "page", "load",
                                  "closing", "done"}]
        BY <1>1, <2>1
      <3>3. brResult' \in [Fetches -> {"none", "content", "error", "rejected"}]
        BY <1>1, <2>1
      <3> QED BY <1>1, <2>1, <3>1, <3>2, <3>3 DEF Br!TypeOK, Br!Pages
    <2>5. BrowserCall(c)'
      BY <1>1, <1>3, <2>1, <2>2 DEF BrowserCall
    <2> QED BY <1>1, <2>1, <2>4, <2>5, BrowserMove
  <1>10. CASE Br!PageOpened(c)
    <2>1. Br!TypeOK'
      BY <1>1, <1>2, <1>3, <1>10 DEF Br!TypeOK, Br!Pages, Br!PageOpened, BrowserCall
    <2>2. BrowserCall(c)'
      BY <1>1, <1>2, <1>3, <1>10 DEF BrowserCall, Br!PageOpened
    <2> QED BY <1>1, <1>10, <2>1, <2>2, BrowserMove DEF Br!PageOpened
  <1>11. CASE Br!Loaded(c)
    <2>1. Br!Key(c) \in Br!Pages \X Br!Trails
      BY <1>1 DEF Br!Key, Br!Pages
    <2>2. Br!TypeOK'
      BY <1>1, <1>11, <2>1 DEF Br!TypeOK, Br!Pages, Br!Loaded
    <2>3. BrowserCall(c)'
      BY <1>1, <1>3, <1>11 DEF BrowserCall, Br!Loaded
    <2> QED BY <1>1, <1>11, <2>2, <2>3, BrowserMove DEF Br!Loaded
  <1>12. CASE Br!Refused(c)
    <2> DEFINE deeper == Append(brTrail[c], "archive")
    <2>1. deeper \in Seq(Br!Sources) /\ Len(deeper) = Len(brTrail[c]) + 1
      BY <1>2 DEF Br!Sources
    <2>2. /\ brAt[c] = "load" /\ Len(brTrail[c]) < MaxDepth
          /\ brTrail' = [brTrail EXCEPT ![c] = deeper]
          /\ brAt' = [brAt EXCEPT ![c] = "lookup"]
          /\ UNCHANGED <<brBrowser, brContext, brOpen, brResult, brCached, brEarly, brFaults>>
      BY <1>12 DEF Br!Refused
    <2>3. deeper \in Br!Trails
      <3>1. Len(deeper) <= MaxDepth + 1
        BY <1>1, <1>2, <2>1, <2>2
      <3> HIDE DEF deeper
      <3> QED BY <2>1, <3>1, SequencesAreTrails
    <2>4. Br!TypeOK'
      BY <1>1, <2>2, <2>3 DEF Br!TypeOK, Br!Pages
    <2>5. BrowserCall(c)'
      BY <1>1, <1>2, <1>3, <2>1, <2>2 DEF BrowserCall
    <2> QED BY <1>1, <2>2, <2>4, <2>5, BrowserMove
  <1>13. CASE Br!ClosePage(c)
    <2>1. Br!TypeOK'
      BY <1>1, <1>13 DEF Br!TypeOK, Br!Pages, Br!ClosePage
    <2>2. BrowserCall(c)'
      BY <1>1, <1>3, <1>13 DEF BrowserCall, Br!ClosePage
    <2> QED BY <1>1, <1>13, <2>1, <2>2, BrowserMove DEF Br!ClosePage
  <1> QED BY <1>4, <1>5, <1>6, <1>7, <1>8, <1>9, <1>10, <1>11, <1>12, <1>13 DEF Br!Advance

LEMMA BrowserSpec ==
    ASSUME Br!BrowserAssumption
    PROVE  Br!Init /\ [][Br!Next]_Br!vars => []BrowserInv
  <1>1. Br!Init => BrowserInv
    <2> SUFFICES ASSUME Br!Init PROVE BrowserInv
      OBVIOUS
    <2>1. <<>> \in Br!Trails
      <3>1. <<>> \in Seq(Br!Sources) /\ Len(<<>>) <= MaxDepth + 1
        BY DEF Br!BrowserAssumption
      <3> QED BY <3>1, SequencesAreTrails
    <2>2. /\ brTrail \in [Fetches -> Br!Trails] /\ brOpen \in [Fetches -> 0 .. MaxDepth + 1]
          /\ brFaults \in 0 .. MaxFaults
      BY <2>1 DEF Br!Init, Br!BrowserAssumption
    <2>3. Br!TypeOK
      BY <2>2 DEF Br!Init, Br!TypeOK
    <2> QED BY <2>3, LenProperties DEF Br!Init, BrowserInv, BrowserCall
  <1>2. BrowserInv /\ [Br!Next]_Br!vars => BrowserInv'
    <2>1. CASE UNCHANGED Br!vars
      BY <2>1 DEF Br!vars, BrowserInv, BrowserCall, Br!TypeOK, Br!Pages
    <2>2. BrowserInv /\ Br!Next => BrowserInv'
      BY BrowserStep DEF Br!Next
    <2> QED BY <2>1, <2>2
  <1> QED BY <1>1, <1>2, PTL

LEMMA BrowserMeans == BrowserInv => Br!ErrorsHaveCause
  BY DEF BrowserInv, BrowserCall, Br!ErrorsHaveCause

(* Calls of getPageContent fail for a reason: something failed, or the     *)
(* call came between the launch of the browser and its context.            *)
THEOREM PagesFailForACause ==
    ASSUME Br!BrowserAssumption
    PROVE  Br!Spec => []Br!ErrorsHaveCause
  BY BrowserMeans, BrowserSpec, PTL DEF Br!Spec

----------------------------------------------------------------------------
(* Image.  Who starts on an image finds the three parts of the model, and  *)
(* a frame is there and nobody else's unless two were written at once.     *)

PartsInOrder ==
    /\ imLocal /\ imInitialized => imParts = Im!Parts
    /\ \A c \in Lookups : /\ imAt[c] = "processor" => "model" \in imParts
                          /\ imAt[c] = "tokenizer" => {"model", "processor"} \subseteq imParts
    /\ imAt[Loop] # "idle" => imParts = Im!Parts

FramesAreOwn ==
    \/ imClash
    \/ /\ \A j \in Im!Jobs : imFrame[j] # None => imFrame[j] \in imFrames
       /\ \A j, k \in Im!Jobs : j # k /\ imFrame[j] = imFrame[k] => imFrame[j] = None

ImageInv == Im!TypeOK /\ PartsInOrder /\ FramesAreOwn /\ Im!DiesOnlyOfFaults

LEMMA EntryWhenLoaded ==
    ASSUME NEW u PROVE Im!Entry(u, Im!Parts) \in Im!Busy
  BY DEF Im!Entry, Im!Busy

(* The call's url joins the queue, and the worker takes the first one. *)
LEMMA ImageEnqueue ==
    ASSUME Im!ImageAssumption, ImageInv, imAlive, NEW c \in Lookups,
           imParts' = Im!Parts, Im!Enqueue(c, imParts'), imInitialized' \in BOOLEAN,
           UNCHANGED <<imLocal, imFrame, imFrames, imNow, imFaults, imClash>>
    PROVE  ImageInv'
  <1> DEFINE u == ImageOf[c]
             idle == imAt[Loop] = "idle"
             rest == IF idle THEN Tail(Append(imQueue, u)) ELSE Append(imQueue, u)
             start == Im!Entry(u, Im!Parts)
  <1>1. start \in {"gif", "image"} /\ u \in Im!Urls /\ c \in Im!Jobs /\ Loop \in Im!Jobs
        /\ c # Loop
    BY EntryWhenLoaded DEF Im!Busy, Im!Urls, Im!Jobs, Im!ImageAssumption
  <1>2. /\ imQueue' = rest /\ imTaken' = IF idle THEN u ELSE imTaken
        /\ imAt' = [imAt EXCEPT ![c] = IF u \in Im!Queued(rest) THEN "waiting" ELSE start,
                                ![Loop] = IF idle THEN start ELSE @]
    BY DEF Im!Enqueue
  <1>3. imAlive' = TRUE
    <2>1. imAlive' = ~(idle /\ start = "thrown")
      BY Zenon DEF Im!Enqueue
    <2>2. start # "thrown"
      BY <1>1
    <2> QED BY <2>1, <2>2, Zenon
  <1>4. imQueue' \in Seq(Im!Urls)
    <2>1. imQueue \in Seq(Im!Urls)
      BY DEF ImageInv, Im!TypeOK
    <2>2. Append(imQueue, u) \in Seq(Im!Urls) /\ Append(imQueue, u) # <<>>
      BY <1>1, <2>1
    <2> HIDE DEF u
    <2>3. Tail(Append(imQueue, u)) \in Seq(Im!Urls)
      BY <2>2
    <2> QED BY <1>2, <2>2, <2>3
  <1> HIDE DEF start, rest, u
  <1>5. Im!TypeOK'
    <2>1. imAt' \in [Im!Jobs -> Im!Parts \cup Im!Busy \cup
                       {"new", "idle", "cloud", "waiting", "described", "thrown"}]
      BY <1>1, <1>2 DEF ImageInv, Im!TypeOK, Im!Busy
    <2> QED BY <1>1, <1>2, <1>3, <1>4, <2>1 DEF ImageInv, Im!TypeOK, Im!Urls
  <1>6. PartsInOrder'
    <2>1. \A d \in Lookups : imAt'[d] \in {"processor", "tokenizer"} => imAt'[d] = imAt[d]
      BY <1>1, <1>2 DEF ImageInv, Im!TypeOK, Im!Jobs
    <2> QED BY <2>1 DEF PartsInOrder, Im!Parts
  <1> QED BY <1>3, <1>5, <1>6 DEF ImageInv, FramesAreOwn, Im!DiesOnlyOfFaults

(* A step of a call before or after its image is described. *)
LEMMA ImageCalls ==
    ASSUME Im!ImageAssumption, ImageInv, NEW c \in Lookups, Im!Describe(c) \/ Im!Advance(c)
    PROVE  ImageInv'
  <1> USE DEF Im!Fault
  <1>1. c \in Im!Jobs /\ Loop \in Im!Jobs /\ c # Loop /\ MaxFaults \in Nat
    BY DEF Im!Jobs, Im!ImageAssumption
  <1>2. /\ imLocal \in BOOLEAN /\ imInitialized \in BOOLEAN /\ imFaults \in 0 .. MaxFaults
        /\ imAt \in [Im!Jobs -> Im!Parts \cup Im!Busy \cup
                       {"new", "idle", "cloud", "waiting", "described", "thrown"}]
    BY DEF ImageInv, Im!TypeOK
  <1>3. ASSUME NEW place \in {"model", "processor", "tokenizer", "cloud", "described", "thrown",
                              "gif", "image"},
               imAlive, imAt' = [imAt EXCEPT ![c] = place], imInitialized' \in BOOLEAN,
               imParts' \subseteq Im!Parts, imParts \subseteq imParts',
               imLocal /\ imInitialized' => imParts' = Im!Parts,
               place = "processor" => "model" \in imParts',
               place = "tokenizer" => {"model", "processor"} \subseteq imParts',
               imFaults' \in 0 .. MaxFaults, imFaults' >= imFaults,
               UNCHANGED <<imLocal, imAlive, imQueue, imTaken, imFrame, imFrames, imNow, imClash>>
        PROVE  ImageInv'
    <2>1. imAt' \in [Im!Jobs -> Im!Parts \cup Im!Busy \cup
                       {"new", "idle", "cloud", "waiting", "described", "thrown"}]
      BY <1>1, <1>2, <1>3 DEF Im!Parts, Im!Busy
    <2>2. Im!TypeOK'
      BY <1>3, <2>1 DEF ImageInv, Im!TypeOK, Im!Urls
    <2>3. /\ imAt'[Loop] = imAt[Loop]
          /\ \A d \in Lookups : imAt'[d] = IF d = c THEN place ELSE imAt[d]
      BY <1>1, <1>2, <1>3 DEF Im!Jobs
    <2>4. PartsInOrder'
      BY <1>3, <2>3 DEF ImageInv, PartsInOrder
    <2> QED BY <1>3, <2>2, <2>4 DEF ImageInv, FramesAreOwn, Im!DiesOnlyOfFaults
  <1>4. CASE Im!Describe(c)
    <2>1. imAlive /\ UNCHANGED <<imLocal, imParts, imFrame, imFrames, imNow, imFaults, imClash>>
      BY <1>4 DEF Im!Describe
    <2>2. CASE imLocal /\ imInitialized /\ Im!Enqueue(c, imParts) /\ UNCHANGED imInitialized
      <3>1. imParts = Im!Parts /\ imParts' = Im!Parts
        BY <2>1, <2>2 DEF ImageInv, PartsInOrder
      <3> QED BY <1>2, <2>1, <2>2, <3>1, ImageEnqueue
    <2>3. CASE /\ imLocal /\ ~imInitialized /\ imInitialized' = Im!Flagged
               /\ imAt' = [imAt EXCEPT ![c] = "model"] /\ UNCHANGED <<imQueue, imTaken, imAlive>>
      BY <1>2, <1>3, <2>1, <2>3 DEF Im!Flagged, ImageInv, Im!TypeOK
    <2>4. CASE /\ ~imLocal /\ imInitialized' = TRUE
               /\ imAt' = [imAt EXCEPT ![c] = "cloud"] /\ UNCHANGED <<imQueue, imTaken, imAlive>>
      BY <1>2, <1>3, <2>1, <2>4 DEF ImageInv, Im!TypeOK
    <2> QED BY <1>4, <2>2, <2>3, <2>4 DEF Im!Describe
  <1>5. CASE Im!PartLoaded(c)
    <2>1. /\ imAlive /\ imAt[c] \in Im!Parts /\ imParts' = imParts \cup {imAt[c]}
          /\ UNCHANGED <<imLocal, imFrame, imFrames, imNow, imFaults, imClash>>
      BY <1>5 DEF Im!PartLoaded
    <2>2. imParts \subseteq Im!Parts /\ imParts' \subseteq Im!Parts
      BY <2>1 DEF ImageInv, Im!TypeOK
    <2>3. CASE imAt[c] = "tokenizer"
      <3>1. Im!Enqueue(c, imParts') /\ imInitialized' = TRUE
        BY <1>5, <2>3 DEF Im!PartLoaded
      <3>2. imParts' = Im!Parts
        BY <2>1, <2>2, <2>3 DEF ImageInv, PartsInOrder, Im!Parts
      <3> QED BY <2>1, <3>1, <3>2, ImageEnqueue
    <2>4. CASE imAt[c] = "model"
      <3>1. /\ imAt' = [imAt EXCEPT ![c] = "processor"]
            /\ UNCHANGED <<imQueue, imTaken, imAlive, imInitialized>>
        BY <1>5, <2>4 DEF Im!PartLoaded
      <3> QED BY <1>2, <1>3, <2>1, <2>2, <2>4, <3>1 DEF ImageInv, PartsInOrder
    <2>5. CASE imAt[c] = "processor"
      <3>1. /\ imAt' = [imAt EXCEPT ![c] = "tokenizer"]
            /\ UNCHANGED <<imQueue, imTaken, imAlive, imInitialized>>
        BY <1>5, <2>5 DEF Im!PartLoaded
      <3> QED BY <1>2, <1>3, <2>1, <2>2, <2>5, <3>1 DEF ImageInv, PartsInOrder
    <2> QED BY <2>1, <2>3, <2>4, <2>5 DEF Im!Parts
  <1>6. imParts \subseteq Im!Parts /\ (imLocal /\ imInitialized => imParts = Im!Parts)
    BY DEF ImageInv, PartsInOrder, Im!TypeOK
  <1>7. CASE Im!LoadFails(c)
    <2>1. /\ imAlive /\ imAt' = [imAt EXCEPT ![c] = "thrown"] /\ imFaults' = imFaults + 1
          /\ imFaults < MaxFaults
          /\ UNCHANGED <<imLocal, imAlive, imInitialized, imParts, imQueue, imTaken, imFrame,
                         imFrames, imNow, imClash>>
      BY <1>7 DEF Im!LoadFails
    <2> QED BY <1>1, <1>2, <1>3, <1>6, <2>1
  <1>8. CASE Im!CloudAnswers(c)
    <2>1. /\ imAlive /\ imFaults' \in 0 .. MaxFaults /\ imFaults' >= imFaults
          /\ UNCHANGED <<imLocal, imAlive, imInitialized, imParts, imQueue, imTaken, imFrame,
                         imFrames, imNow, imClash>>
      BY <1>1, <1>2, <1>8 DEF Im!CloudAnswers
    <2>2. \/ imAt' = [imAt EXCEPT ![c] = "described"]
          \/ imAt' = [imAt EXCEPT ![c] = "thrown"]
      BY <1>8 DEF Im!CloudAnswers
    <2> QED BY <1>2, <1>3, <1>6, <2>1, <2>2
  <1>9. CASE Im!Poll(c)
    <2>1. \/ imAt' = [imAt EXCEPT ![c] = "gif"]
          \/ imAt' = [imAt EXCEPT ![c] = "image"]
          \/ imAt' = [imAt EXCEPT ![c] = "thrown"]
      BY <1>9 DEF Im!Poll, Im!Entry
    <2>2. /\ imAlive
          /\ UNCHANGED <<imLocal, imAlive, imInitialized, imParts, imQueue, imTaken, imFrame,
                         imFrames, imNow,
                         imFaults, imClash>>
      BY <1>9 DEF Im!Poll
    <2> QED BY <1>1, <1>2, <1>3, <1>6, <2>1, <2>2
  <1> QED BY <1>4, <1>5, <1>7, <1>8, <1>9 DEF Im!Advance

(* The end of an image, in which the file of its frame is removed. *)
LEMMA ImageLeaves ==
    ASSUME Im!ImageAssumption, ImageInv, imAlive, NEW j \in Im!Jobs, imAt[j] \in Im!Busy,
           NEW outcome \in {"described", "thrown"}, Im!Leave(j, outcome),
           imFrames' = imFrames \ {imFrame[j]}, imFaults' \in 0 .. MaxFaults,
           imFaults' >= imFaults,
           outcome = "thrown" => imFaults' > 0 \/ imClash \/ j # Loop
    PROVE  ImageInv'
  <1>1. /\ UNCHANGED <<imLocal, imInitialized, imParts, imNow, imClash>>
        /\ imFrame' = [imFrame EXCEPT ![j] = None]
    BY DEF Im!Leave
  <1>2. /\ imAlive' \in BOOLEAN
        /\ ~imAlive' => j = Loop /\ outcome = "thrown"
    BY Zenon DEF Im!Leave
  <1>3. /\ imAt \in [Im!Jobs -> Im!Parts \cup Im!Busy \cup
                       {"new", "idle", "cloud", "waiting", "described", "thrown"}]
        /\ imQueue \in Seq(Im!Urls) /\ imTaken \in Im!Urls \cup {None}
        /\ imFrame \in [Im!Jobs -> Im!Ms \cup {None}] /\ imFrames \subseteq Im!Ms
        /\ None \notin Im!Ms /\ Loop \in Im!Jobs
    BY DEF ImageInv, Im!TypeOK, Im!ImageAssumption, Im!Jobs
  <1>4. /\ imQueue' \in Seq(Im!Urls) /\ imTaken' \in Im!Urls \cup {None}
        /\ \E place \in Im!Busy \cup {"idle", "described", "thrown"} :
               imAt' = [imAt EXCEPT ![j] = place]
    <2>1. CASE j = Loop /\ outcome = "described" /\ imQueue # <<>>
      <3>1. /\ imTaken' = Head(imQueue) /\ imQueue' = Tail(imQueue)
            /\ imAt' = [imAt EXCEPT ![j] = Im!Entry(Head(imQueue), imParts)]
        BY <2>1 DEF Im!Leave
      <3>2. imParts = Im!Parts
        BY <2>1 DEF ImageInv, PartsInOrder, Im!Busy
      <3>3. Im!Entry(Head(imQueue), imParts) \in Im!Busy
        BY <3>2, EntryWhenLoaded
      <3>4. Head(imQueue) \in Im!Urls /\ Tail(imQueue) \in Seq(Im!Urls)
        BY <1>3, <2>1
      <3> QED BY <3>1, <3>3, <3>4
    <2>2. CASE j = Loop /\ outcome = "described" /\ imQueue = <<>>
      BY <1>3, <2>2 DEF Im!Leave
    <2>3. CASE ~(j = Loop /\ outcome = "described")
      BY <1>3, <2>3 DEF Im!Leave
    <2> QED BY <2>1, <2>2, <2>3
  <1>5. PICK place \in Im!Busy \cup {"idle", "described", "thrown"} :
            imAt' = [imAt EXCEPT ![j] = place]
    BY <1>4
  <1>6. Im!TypeOK'
    <2>1. imAt' \in [Im!Jobs -> Im!Parts \cup Im!Busy \cup
                       {"new", "idle", "cloud", "waiting", "described", "thrown"}]
      BY <1>3, <1>5
    <2>2. imFrame' \in [Im!Jobs -> Im!Ms \cup {None}] /\ imFrames' \subseteq Im!Ms
      BY <1>1, <1>3
    <2> QED BY <1>1, <1>2, <1>4, <2>1, <2>2 DEF ImageInv, Im!TypeOK
  <1>7. PartsInOrder'
    <2>1. \A k \in Im!Jobs : imAt'[k] = IF k = j THEN place ELSE imAt[k]
      BY <1>3, <1>5
    <2>2. imAt[Loop] # "idle" => imParts = Im!Parts
      BY DEF ImageInv, PartsInOrder
    <2>3. imAt'[Loop] # "idle" => imParts = Im!Parts
      BY <1>3, <2>1, <2>2 DEF Im!Busy
    <2>4. \A c \in Lookups : imAt'[c] \in {"processor", "tokenizer"} => imAt'[c] = imAt[c]
      BY <2>1 DEF Im!Jobs, Im!Busy
    <2> QED BY <1>1, <2>3, <2>4 DEF ImageInv, PartsInOrder
  <1>8. FramesAreOwn'
    <2>1. CASE imClash
      BY <1>1, <2>1 DEF FramesAreOwn
    <2>2. CASE ~imClash
      <3>1. /\ \A k \in Im!Jobs : imFrame[k] # None => imFrame[k] \in imFrames
            /\ \A k, l \in Im!Jobs : k # l /\ imFrame[k] = imFrame[l] => imFrame[k] = None
        BY <2>2 DEF ImageInv, FramesAreOwn
      <3>2. \A k \in Im!Jobs : imFrame'[k] = IF k = j THEN None ELSE imFrame[k]
        BY <1>1, <1>3
      <3> QED BY <3>1, <3>2 DEF FramesAreOwn
    <2> QED BY <2>1, <2>2
  <1>9. Im!DiesOnlyOfFaults'
    BY <1>1, <1>2 DEF Im!DiesOnlyOfFaults
  <1> QED BY <1>6, <1>7, <1>8, <1>9 DEF ImageInv

LEMMA ImageProcess ==
    ASSUME Im!ImageAssumption, ImageInv, NEW j \in Im!Jobs, Im!Process(j)
    PROVE  ImageInv'
  <1>1. /\ Loop \in Im!Jobs /\ MaxFaults \in Nat /\ None \notin Im!Ms
        /\ imFaults \in 0 .. MaxFaults /\ imClash \in BOOLEAN /\ imFrames \subseteq Im!Ms
        /\ imFrame \in [Im!Jobs -> Im!Ms \cup {None}]
        /\ imAt \in [Im!Jobs -> Im!Parts \cup Im!Busy \cup
                       {"new", "idle", "cloud", "waiting", "described", "thrown"}]
    BY DEF ImageInv, Im!TypeOK, Im!ImageAssumption, Im!Jobs
  <1>2. CASE Im!FrameWritten(j)
    <2>1. /\ imAlive /\ imAt[j] = "gif" /\ imAt' = [imAt EXCEPT ![j] = "image"]
          /\ UNCHANGED <<imLocal, imAlive, imInitialized, imParts, imQueue, imTaken, imFaults>>
      BY <1>2 DEF Im!FrameWritten
    <2>2. PICK ms \in Im!Ms :
            /\ imNow' = ms /\ imFrame' = [imFrame EXCEPT ![j] = ms]
            /\ imFrames' = imFrames \cup {ms}
            /\ imClash' = (imClash \/ \E k \in Im!Jobs : imFrame[k] = ms)
      BY <1>2 DEF Im!FrameWritten
    <2>3. imClash' \in BOOLEAN /\ (~imClash' => ~imClash /\ \A k \in Im!Jobs : imFrame[k] # ms)
      BY <2>2, Zenon
    <2>4. Im!TypeOK'
      <3>1. imAt' \in [Im!Jobs -> Im!Parts \cup Im!Busy \cup
                       {"new", "idle", "cloud", "waiting", "described", "thrown"}]
        BY <1>1, <2>1 DEF Im!Busy
      <3>2. imFrame' \in [Im!Jobs -> Im!Ms \cup {None}] /\ imFrames' \subseteq Im!Ms
                                                        /\ imNow' \in Im!Ms
        BY <1>1, <2>2
      <3> QED BY <2>1, <2>3, <3>1, <3>2 DEF ImageInv, Im!TypeOK
    <2>5. PartsInOrder'
      <3>1. \A k \in Im!Jobs : imAt'[k] = IF k = j THEN "image" ELSE imAt[k]
        BY <1>1, <2>1
      <3>2. imAt'[Loop] # "idle" => imAt[Loop] # "idle"
        BY <1>1, <2>1, <3>1
      <3>3. \A c \in Lookups : imAt'[c] \in {"processor", "tokenizer"} => imAt'[c] = imAt[c]
        BY <3>1 DEF Im!Jobs
      <3> QED BY <2>1, <3>2, <3>3 DEF ImageInv, PartsInOrder
    <2>6. FramesAreOwn'
      <3>1. CASE imClash'
        BY <3>1 DEF FramesAreOwn
      <3>2. CASE ~imClash'
        <4>1. /\ \A k \in Im!Jobs : imFrame[k] # None => imFrame[k] \in imFrames
              /\ \A k, l \in Im!Jobs : k # l /\ imFrame[k] = imFrame[l] => imFrame[k] = None
          BY <2>3, <3>2 DEF ImageInv, FramesAreOwn
        <4>2. \A k \in Im!Jobs : imFrame'[k] = IF k = j THEN ms ELSE imFrame[k]
          BY <1>1, <2>2
        <4> QED BY <2>2, <2>3, <3>2, <4>1, <4>2 DEF FramesAreOwn
      <3> QED BY <3>1, <3>2
    <2>7. Im!DiesOnlyOfFaults'
      BY <2>1 DEF Im!DiesOnlyOfFaults
    <2> QED BY <2>4, <2>5, <2>6, <2>7 DEF ImageInv
  <1>3. CASE Im!Described(j)
    <2>1. /\ imAlive /\ imAt[j] = "image" /\ imFrames' = imFrames \ {imFrame[j]}
          /\ Im!Leave(j, Im!Outcome(j)) /\ imFaults' = imFaults
      BY <1>3 DEF Im!Described
    <2>2. Im!Outcome(j) \in {"described", "thrown"}
      BY DEF Im!Outcome
    <2>3. Im!Outcome(j) = "thrown" => imClash
      BY DEF Im!Outcome, Im!Missing, ImageInv, FramesAreOwn
    <2> QED BY <1>1, <2>1, <2>2, <2>3, ImageLeaves DEF Im!Busy
  <1>4. CASE Im!ProcessingFails(j)
    BY <1>1, <1>4, ImageLeaves DEF Im!ProcessingFails, Im!Fault
  <1> QED BY <1>2, <1>3, <1>4 DEF Im!Process

LEMMA ImageSpec ==
    ASSUME Im!ImageAssumption
    PROVE  Im!Init /\ [][Im!Next]_Im!vars => []ImageInv
  <1>1. Im!Init => ImageInv
    <2> SUFFICES ASSUME Im!Init PROVE ImageInv
      OBVIOUS
    <2>1. Loop \in Im!Jobs /\ Loop \notin Lookups /\ 0 \in Im!Ms /\ 0 \in 0 .. MaxFaults
      BY DEF Im!ImageAssumption, Im!Jobs, Im!Ms
    <2>2. <<>> \in Seq(Im!Urls)
      OBVIOUS
    <2>3. Im!TypeOK
      BY <2>1, <2>2 DEF Im!Init, Im!TypeOK
    <2> QED BY <2>1, <2>3 DEF Im!Init, ImageInv, PartsInOrder, FramesAreOwn,
               Im!DiesOnlyOfFaults, Im!Jobs
  <1>2. ImageInv /\ [Im!Next]_Im!vars => ImageInv'
    <2>1. CASE UNCHANGED Im!vars
      BY <2>1 DEF Im!vars, ImageInv, Im!TypeOK, PartsInOrder, FramesAreOwn, Im!DiesOnlyOfFaults
    <2>2. ImageInv /\ Im!Next => ImageInv'
      BY ImageCalls, ImageProcess DEF Im!Next, Im!Continue
    <2> QED BY <2>1, <2>2
  <1> QED BY <1>1, <1>2, PTL

(* No order of the calls makes the worker of the images, whose errors end  *)
(* the process, start on a model that is not loaded or lose its frame: it  *)
(* fails of a fault or of two frames of one millisecond.                   *)
THEOREM ImagesEndNoProcess ==
    ASSUME Im!ImageAssumption
    PROVE  Im!Spec => []Im!DiesOnlyOfFaults
  <1>1. ImageInv => Im!DiesOnlyOfFaults
    BY DEF ImageInv
  <1> QED BY <1>1, ImageSpec, PTL DEF Im!Spec

----------------------------------------------------------------------------
(* Video.  A video of YouTube has a key of its own in the cache, and a job *)
(* knows which url it is at until it stores what it got.                   *)

RightText(t, u) == t.url = u /\ (u \in Captioned => t.whole)

JobIsRight(j) ==
    /\ viAt[j] \in {"transcribe", "store"} => viFound[j] \in Vi!Texts
    /\ viAt[j] \in {"download", "convert", "transcribe"} => Vi!Url(j) \notin Captioned
    /\ viAt[j] \in {"transcribe", "store", "answered"} /\ Vi!Url(j) \in Youtube =>
           RightText(viFound[j], Vi!Url(j))

CacheIsRight ==
    \A u \in Vi!Urls \cap Youtube : viCache[u] # None => RightText(viCache[u], u)

WorkerHasUrl == viAt[Loop] # "idle" => viTaken \in Vi!Urls

VideoInv == Vi!TypeOK /\ WorkerHasUrl /\ CacheIsRight /\ \A j \in Vi!Jobs : JobIsRight(j)

VideoPlaces == {"new", "idle", "waiting", "lookup", "info", "captions", "download",
                "convert", "transcribe", "store", "answered", "rejected"}

LEMMA VideoKeys ==
    ASSUME Vi!VideoAssumption, NEW u \in Vi!Urls
    PROVE  /\ Vi!Key(u) \in Vi!Keys
           /\ u \in Youtube => Vi!Key(u) = u
           /\ \A v \in Vi!Urls \cap Youtube : Vi!Key(u) = v => u = v
  BY DEF Vi!Key, Vi!Keys, Vi!VideoAssumption

(* A step of one job. *)
LEMMA VideoMove ==
    ASSUME VideoInv, Vi!TypeOK', CacheIsRight', NEW j \in Vi!Jobs, JobIsRight(j)',
           \A k \in Vi!Jobs \ {j} : viAt'[k] = viAt[k] /\ viFound'[k] = viFound[k],
           IF j = Loop THEN viAt'[Loop] # "idle" => viTaken' \in Vi!Urls ELSE viTaken' = viTaken
    PROVE  VideoInv'
  <1>1. WorkerHasUrl'
    BY DEF VideoInv, WorkerHasUrl, Vi!Jobs, Vi!Urls
  <1>2. ASSUME NEW k \in Vi!Jobs, k # j PROVE JobIsRight(k)'
    <2>1. Vi!Url(k)' = Vi!Url(k)
      BY <1>2 DEF Vi!Url
    <2> QED BY <1>2, <2>1 DEF VideoInv, JobIsRight, RightText, Vi!Texts, Vi!Urls
  <1> QED BY <1>1, <1>2 DEF VideoInv, Vi!Jobs

LEMMA VideoCall ==
    ASSUME Vi!VideoAssumption, VideoInv, NEW c \in Lookups, Vi!ProcessVideo(c)
    PROVE  VideoInv'
  <1> DEFINE u == VideoOf[c]
             idle == viAt[Loop] = "idle"
             rest == IF idle THEN Tail(Append(viQueue, u)) ELSE Append(viQueue, u)
  <1>1. /\ c \in Vi!Jobs /\ Loop \in Vi!Jobs /\ c # Loop /\ u \in Vi!Urls
        /\ viQueue \in Seq(Vi!Urls) /\ viAt \in [Vi!Jobs -> VideoPlaces]
    BY DEF VideoInv, Vi!TypeOK, Vi!VideoAssumption, Vi!Jobs, Vi!Urls, VideoPlaces
  <1>2. /\ viQueue' = rest /\ viTaken' = IF idle THEN u ELSE viTaken
        /\ UNCHANGED <<viAlive, viSound, viTemp, viFound, viCache, viFaults>>
    BY DEF Vi!ProcessVideo
  <1>3. PICK place \in {"waiting", "lookup"} :
            viAt' = [viAt EXCEPT ![c] = place, ![Loop] = IF idle THEN "lookup" ELSE @]
    BY DEF Vi!ProcessVideo
  <1>4. viQueue' \in Seq(Vi!Urls)
    <2>1. Append(viQueue, u) \in Seq(Vi!Urls) /\ Append(viQueue, u) # <<>>
      BY <1>1
    <2> HIDE DEF u
    <2>2. Tail(Append(viQueue, u)) \in Seq(Vi!Urls)
      BY <2>1
    <2> QED BY <1>2, <2>1, <2>2
  <1> HIDE DEF rest, u
  <1>5. Vi!TypeOK'
    <2>1. viAt' \in [Vi!Jobs -> VideoPlaces]
      BY <1>1, <1>3 DEF VideoPlaces
    <2> QED BY <1>1, <1>2, <1>4, <2>1 DEF VideoInv, Vi!TypeOK, VideoPlaces, Vi!Texts, Vi!Urls
  <1>6. \A j \in Vi!Jobs : viAt'[j] = IF j = c THEN place
                                   ELSE IF j = Loop /\ idle THEN "lookup" ELSE viAt[j]
    BY <1>1, <1>3
  <1>7. WorkerHasUrl' /\ CacheIsRight'
    BY <1>1, <1>2, <1>6 DEF VideoInv, WorkerHasUrl, CacheIsRight, RightText, Vi!Urls
  <1>8. ASSUME NEW j \in Vi!Jobs PROVE JobIsRight(j)'
    <2>1. CASE j = c \/ (j = Loop /\ idle)
      BY <1>6, <2>1 DEF JobIsRight
    <2>2. CASE ~(j = c \/ (j = Loop /\ idle))
      <3>1. Vi!Url(j)' = Vi!Url(j) /\ viAt'[j] = viAt[j] /\ viFound'[j] = viFound[j]
        BY <1>2, <1>6, <2>2 DEF Vi!Url
      <3> QED BY <3>1 DEF VideoInv, JobIsRight, RightText, Vi!Texts, Vi!Urls
    <2> QED BY <2>1, <2>2
  <1> QED BY <1>5, <1>7, <1>8 DEF VideoInv, Vi!Jobs

(* The end of a job: that of the worker is the next url. *)
LEMMA VideoLeaves ==
    ASSUME Vi!VideoAssumption, VideoInv, NEW j \in Vi!Jobs, viAt[j] # "idle",
           NEW outcome \in {"answered", "rejected"}, Vi!Leave(j, outcome),
           outcome = "answered" /\ Vi!Url(j) \in Youtube => RightText(viFound'[j], Vi!Url(j)),
           viFound' \in [Vi!Jobs -> Vi!Texts \cup {None}],
           \A k \in Vi!Jobs \ {j} : viFound'[k] = viFound[k],
           viCache' \in [Vi!Keys -> Vi!Texts \cup {None}], CacheIsRight',
           viFaults' \in 0 .. MaxFaults, viSound' = viSound, viTemp' = viTemp
    PROVE  VideoInv'
  <1>1. viAlive' \in BOOLEAN
    BY Zenon DEF Vi!Leave
  <1>2. /\ viAt \in [Vi!Jobs -> VideoPlaces] /\ viQueue \in Seq(Vi!Urls)
        /\ viTaken \in Vi!Urls \cup {None} /\ Loop \in Vi!Jobs
    BY DEF VideoInv, Vi!TypeOK, Vi!Jobs, VideoPlaces
  <1>3. CASE j = Loop /\ outcome = "answered"
    <2>1. PICK place \in {"idle", "lookup"} :
            /\ viAt' = [viAt EXCEPT ![j] = place] /\ viQueue' \in Seq(Vi!Urls)
            /\ viTaken' \in Vi!Urls \cup {None} /\ (place = "lookup" => viTaken' \in Vi!Urls)
      <3>1. CASE viQueue = <<>>
        BY <1>2, <1>3, <3>1 DEF Vi!Leave, Vi!Go
      <3>2. CASE viQueue # <<>>
        <4>1. Head(viQueue) \in Vi!Urls /\ Tail(viQueue) \in Seq(Vi!Urls)
          BY <1>2, <3>2
        <4>2. /\ viTaken' = Head(viQueue) /\ viQueue' = Tail(viQueue)
              /\ viAt' = [viAt EXCEPT ![j] = "lookup"]
          BY <1>3, <3>2 DEF Vi!Leave, Vi!Go
        <4> QED BY <4>1, <4>2
      <3> QED BY <3>1, <3>2
    <2>2. viAt' \in [Vi!Jobs -> VideoPlaces] /\ viAt'[j] = place
          /\ \A k \in Vi!Jobs \ {j} : viAt'[k] = viAt[k]
      BY <1>2, <2>1 DEF VideoPlaces
    <2>3. Vi!TypeOK'
      BY <1>1, <2>1, <2>2 DEF VideoInv, Vi!TypeOK, VideoPlaces, Vi!Texts, Vi!Urls
    <2>4. JobIsRight(j)'
      BY <2>1, <2>2 DEF JobIsRight
    <2> QED BY <1>3, <2>1, <2>2, <2>3, <2>4, VideoMove
  <1>4. CASE ~(j = Loop /\ outcome = "answered")
    <2>1. viAt' = [viAt EXCEPT ![j] = outcome] /\ UNCHANGED <<viQueue, viTaken>>
      BY <1>4 DEF Vi!Leave, Vi!Go
    <2>2. viAt' \in [Vi!Jobs -> VideoPlaces] /\ viAt'[j] = outcome
          /\ \A k \in Vi!Jobs \ {j} : viAt'[k] = viAt[k]
      BY <1>2, <2>1 DEF VideoPlaces
    <2>3. Vi!TypeOK'
      BY <1>1, <1>2, <2>1, <2>2 DEF VideoInv, Vi!TypeOK, VideoPlaces, Vi!Texts, Vi!Urls
    <2>4. JobIsRight(j)'
      <3>1. Vi!Url(j)' = Vi!Url(j)
        BY <2>1 DEF Vi!Url
      <3> QED BY <2>2, <3>1 DEF JobIsRight, RightText
    <2>5. j = Loop => viTaken' \in Vi!Urls
      BY <2>1 DEF VideoInv, WorkerHasUrl, Vi!Urls
    <2> QED BY <1>4, <2>1, <2>2, <2>3, <2>4, <2>5, VideoMove
  <1> QED BY <1>3, <1>4

LEMMA VideoProcess ==
    ASSUME Vi!VideoAssumption, VideoInv, NEW j \in Vi!Jobs, Vi!Process(j)
    PROVE  VideoInv'
  <1> USE DEF Vi!Go, Vi!Fault
  <1>1. /\ viAt \in [Vi!Jobs -> VideoPlaces] /\ Loop \in Vi!Jobs
        /\ viFound \in [Vi!Jobs -> Vi!Texts \cup {None}]
        /\ viCache \in [Vi!Keys -> Vi!Texts \cup {None}]
        /\ viSound \in [Vi!Urls -> {"absent", "part", "whole"}]
        /\ viTemp \subseteq Vi!Urls /\ viAlive \in BOOLEAN
        /\ viFaults \in 0 .. MaxFaults /\ MaxFaults \in Nat /\ None \notin Vi!Urls
    BY DEF VideoInv, Vi!TypeOK, Vi!Jobs, VideoPlaces, Vi!VideoAssumption
  <1>2. JobIsRight(j) /\ CacheIsRight /\ WorkerHasUrl
    BY DEF VideoInv
  <1>3. viAt[j] # "idle" => Vi!Url(j) \in Vi!Urls
    BY <1>2 DEF WorkerHasUrl, Vi!Url, Vi!Urls, Vi!Jobs
  <1>4. Vi!Texts = [url : Vi!Urls, whole : BOOLEAN]
    BY DEF Vi!Texts
  (* A job that goes on with what it is at. *)
  <1>5. ASSUME viAt[j] # "idle", UNCHANGED <<viQueue, viTaken, viCache, viFaults>>,
               viAlive' \in BOOLEAN, viTemp' \subseteq Vi!Urls,
               NEW place \in VideoPlaces \ {"idle"}, viAt' = [viAt EXCEPT ![j] = place],
               viSound' \in [Vi!Urls -> {"absent", "part", "whole"}],
               viFound' \in [Vi!Jobs -> Vi!Texts \cup {None}],
               \A k \in Vi!Jobs \ {j} : viFound'[k] = viFound[k],
               place \in {"transcribe", "store"} => viFound'[j] \in Vi!Texts,
               place \in {"download", "convert", "transcribe"} => Vi!Url(j) \notin Captioned,
               place \in {"transcribe", "store", "answered"} /\ Vi!Url(j) \in Youtube =>
                   RightText(viFound'[j], Vi!Url(j))
        PROVE  VideoInv'
    <2>1. /\ viAt' \in [Vi!Jobs -> VideoPlaces] /\ viAt'[j] = place
          /\ \A k \in Vi!Jobs \ {j} : viAt'[k] = viAt[k]
      BY <1>1, <1>5
    <2>2. Vi!TypeOK'
      BY <1>5, <2>1 DEF VideoInv, Vi!TypeOK, VideoPlaces, Vi!Texts, Vi!Urls
    <2>3. CacheIsRight'
      BY <1>2, <1>5 DEF CacheIsRight, RightText, Vi!Urls
    <2>4. JobIsRight(j)'
      <3>1. Vi!Url(j)' = Vi!Url(j)
        BY <1>5 DEF Vi!Url
      <3> QED BY <1>4, <1>5, <2>1, <3>1 DEF JobIsRight, RightText, Vi!Texts, Vi!Urls
    <2>5. IF j = Loop THEN viAt'[Loop] # "idle" => viTaken' \in Vi!Urls ELSE viTaken' = viTaken
      BY <1>2, <1>5 DEF WorkerHasUrl
    <2> QED BY <2>1, <2>2, <2>3, <2>4, <2>5, <1>5, VideoMove
  <1>6. CASE Vi!Lookup(j)
    <2>1. /\ viAt[j] = "lookup" /\ viFound' = [viFound EXCEPT ![j] = viCache[Vi!Key(Vi!Url(j))]]
          /\ UNCHANGED <<viSound, viTemp, viCache, viFaults>>
      BY <1>6 DEF Vi!Lookup
    <2>2. viCache[Vi!Key(Vi!Url(j))] \in Vi!Texts \cup {None}
      BY <1>1, <1>3, <2>1, VideoKeys
    <2>3. /\ viFound' \in [Vi!Jobs -> Vi!Texts \cup {None}]
          /\ viFound'[j] = viCache[Vi!Key(Vi!Url(j))]
          /\ \A k \in Vi!Jobs \ {j} : viFound'[k] = viFound[k]
      BY <1>1, <2>1, <2>2
    <2>4. CASE viFound'[j] # None
      <3>1. Vi!Leave(j, "answered")
        BY <1>6, <2>4 DEF Vi!Lookup
      <3>2. Vi!Url(j) \in Youtube => RightText(viFound'[j], Vi!Url(j))
        BY <1>2, <1>3, <2>1, <2>3, <2>4, VideoKeys DEF CacheIsRight
      <3>3. CacheIsRight'
        BY <1>2, <2>1 DEF CacheIsRight, RightText, Vi!Urls
      <3> QED BY <1>1, <2>1, <2>3, <3>1, <3>2, <3>3, VideoLeaves
    <2>5. CASE viFound'[j] = None
      <3>1. viAt' = [viAt EXCEPT ![j] = "info"] /\ UNCHANGED <<viAlive, viQueue, viTaken>>
        BY <1>6, <2>5 DEF Vi!Lookup
      <3> QED BY <1>1, <1>5, <2>1, <2>3, <3>1 DEF VideoPlaces
    <2> QED BY <2>4, <2>5
  (* Where the sound is heard, the text may be that of a part. *)
  <1>7. ASSUME viAt[j] \in {"info", "convert"}, Vi!Url(j) \notin Captioned,
               NEW state, Vi!Hear(j, Vi!Url(j), state),
               UNCHANGED <<viQueue, viTaken, viCache, viFaults>>,
               viAlive' \in BOOLEAN, viTemp' \subseteq Vi!Urls,
               viSound' \in [Vi!Urls -> {"absent", "part", "whole"}]
        PROVE  VideoInv'
    <2> DEFINE heard == [url |-> Vi!Url(j), whole |-> state = "whole"]
    <2>1. viAt' = [viAt EXCEPT ![j] = "transcribe"] /\ viFound' = [viFound EXCEPT ![j] = heard]
      BY <1>7 DEF Vi!Hear
    <2>2. heard \in Vi!Texts /\ heard.url = Vi!Url(j)
      <3>1. (state = "whole") \in BOOLEAN
        OBVIOUS
      <3> QED BY <1>3, <1>4, <1>7, <3>1
    <2> HIDE DEF heard
    <2>3. /\ viFound' \in [Vi!Jobs -> Vi!Texts \cup {None}] /\ viFound'[j] = heard
          /\ \A k \in Vi!Jobs \ {j} : viFound'[k] = viFound[k]
      BY <1>1, <2>1, <2>2
    <2> QED BY <1>5, <1>7, <2>1, <2>2, <2>3 DEF VideoPlaces, RightText
  <1>8. CASE Vi!InfoFetched(j)
    <2>1. viAt[j] = "info" /\ UNCHANGED <<viAlive, viQueue, viTaken, viSound, viTemp, viCache, viFaults>>
      BY <1>8 DEF Vi!InfoFetched
    <2>2. CASE Vi!Url(j) \in Captioned
      <3>1. viAt' = [viAt EXCEPT ![j] = "captions"] /\ UNCHANGED viFound
        BY <1>8, <2>2 DEF Vi!InfoFetched
      <3> QED BY <1>1, <1>5, <2>1, <3>1 DEF VideoPlaces
    <2>3. CASE Vi!Url(j) \notin Captioned /\ viSound[Vi!Url(j)] # "absent"
      <3>1. Vi!Hear(j, Vi!Url(j), viSound[Vi!Url(j)])
        BY <1>8, <2>3 DEF Vi!InfoFetched
      <3> QED BY <1>1, <1>7, <2>1, <2>3, <3>1
    <2>4. CASE Vi!Url(j) \notin Captioned /\ viSound[Vi!Url(j)] = "absent"
      <3>1. viAt' = [viAt EXCEPT ![j] = "download"] /\ UNCHANGED viFound
        BY <1>8, <2>4 DEF Vi!InfoFetched
      <3> QED BY <1>1, <1>5, <2>1, <2>4, <3>1 DEF VideoPlaces
    <2> QED BY <2>2, <2>3, <2>4
  <1>9. CASE Vi!CaptionsRead(j)
    <2> DEFINE read == [url |-> Vi!Url(j), whole |-> TRUE]
    <2>1. /\ viAt[j] = "captions"
          /\ UNCHANGED <<viAlive, viQueue, viTaken, viSound, viTemp, viCache, viFaults>>
          /\ viAt' = [viAt EXCEPT ![j] = "store"] /\ viFound' = [viFound EXCEPT ![j] = read]
      BY <1>9 DEF Vi!CaptionsRead
    <2>2. read \in Vi!Texts /\ RightText(read, Vi!Url(j))
      BY <1>3, <1>4, <2>1 DEF RightText
    <2> HIDE DEF read
    <2>3. /\ viFound' \in [Vi!Jobs -> Vi!Texts \cup {None}] /\ viFound'[j] = read
          /\ \A k \in Vi!Jobs \ {j} : viFound'[k] = viFound[k]
      BY <1>1, <2>1, <2>2
    <2> QED BY <1>1, <1>5, <2>1, <2>2, <2>3 DEF VideoPlaces
  <1>10. CASE Vi!FileAppears(j)
    <2>1. /\ viAt[j] = "download"
          /\ UNCHANGED <<viAlive, viQueue, viTaken, viFound, viCache, viFaults>>
          /\ viAt' = [viAt EXCEPT ![j] = "convert"]
          /\ viTemp' = viTemp \cup ({Vi!Url(j)} \cap Direct)
          /\ viSound' \in [Vi!Urls -> {"absent", "part", "whole"}]
      BY <1>1, <1>10 DEF Vi!FileAppears
    <2>2. Vi!Url(j) \notin Captioned
      BY <1>2, <2>1 DEF JobIsRight
    <2>3. viTemp' \subseteq Vi!Urls
      BY <1>1, <1>3, <2>1
    <2> QED BY <1>1, <1>5, <2>1, <2>2, <2>3 DEF VideoPlaces
  <1>11. CASE Vi!Downloaded(j)
    <2>1. PICK state \in {"whole", "part"} :
            viSound' = [viSound EXCEPT ![Vi!Url(j)] = state] /\ Vi!Hear(j, Vi!Url(j), state)
      BY <1>11 DEF Vi!Downloaded
    <2>2. /\ viAt[j] = "convert" /\ UNCHANGED <<viQueue, viTaken, viCache, viFaults>>
          /\ viAlive' \in BOOLEAN /\ viTemp' \subseteq Vi!Urls
          /\ viSound' \in [Vi!Urls -> {"absent", "part", "whole"}]
      BY <1>1, <1>11, <2>1 DEF Vi!Downloaded
    <2>3. Vi!Url(j) \notin Captioned
      BY <1>2, <2>2 DEF JobIsRight
    <2> QED BY <1>7, <2>1, <2>2, <2>3
  <1>12. CASE Vi!Transcribed(j)
    <2>1. /\ viAt[j] = "transcribe"
          /\ UNCHANGED <<viAlive, viQueue, viTaken, viSound, viTemp, viCache, viFaults>>
          /\ viAt' = [viAt EXCEPT ![j] = "store"]
      BY <1>12 DEF Vi!Transcribed
    <2>2. /\ viFound[j] \in Vi!Texts /\ Vi!Url(j) \notin Captioned
          /\ Vi!Url(j) \in Youtube => viFound[j].url = Vi!Url(j)
      BY <1>2, <2>1 DEF JobIsRight, RightText
    <2>3. PICK whole \in BOOLEAN : viFound' = [viFound EXCEPT ![j].whole = whole]
      <3>1. viFound[j].whole \in BOOLEAN
        BY <1>4, <2>2
      <3> QED BY <1>12, <3>1 DEF Vi!Transcribed
    <2>4. /\ viFound'[j] \in Vi!Texts /\ viFound'[j].url = viFound[j].url
          /\ viFound' \in [Vi!Jobs -> Vi!Texts \cup {None}]
          /\ \A k \in Vi!Jobs \ {j} : viFound'[k] = viFound[k]
      BY <1>1, <1>4, <2>2, <2>3
    <2> QED BY <1>1, <1>5, <2>1, <2>2, <2>4 DEF VideoPlaces, RightText
  <1>13. CASE Vi!Store(j)
    <2>1. /\ viAt[j] = "store" /\ viCache' = [viCache EXCEPT ![Vi!Key(Vi!Url(j))] = viFound[j]]
          /\ Vi!Leave(j, "answered") /\ UNCHANGED <<viSound, viTemp, viFound, viFaults>>
      BY <1>13 DEF Vi!Store
    <2>2. /\ viFound[j] \in Vi!Texts /\ Vi!Url(j) \in Vi!Urls
          /\ Vi!Url(j) \in Youtube => RightText(viFound[j], Vi!Url(j))
      BY <1>2, <1>3, <2>1 DEF JobIsRight
    <2>3. viCache' \in [Vi!Keys -> Vi!Texts \cup {None}]
      BY <1>1, <2>1, <2>2, VideoKeys
    <2>4. CacheIsRight'
      <3>1. ASSUME NEW u \in Vi!Urls, u \in Youtube, viCache'[u] # None
            PROVE  RightText(viCache'[u], u)
        <4>1. u \in Vi!Keys
          BY <3>1 DEF Vi!Keys
        <4>2. CASE Vi!Key(Vi!Url(j)) = u
          <5>1. Vi!Url(j) = u
            BY <2>2, <3>1, <4>2, VideoKeys
          <5> QED BY <1>1, <2>1, <2>2, <3>1, <4>1, <4>2, <5>1
        <4>3. CASE Vi!Key(Vi!Url(j)) # u
          BY <1>1, <1>2, <2>1, <3>1, <4>1, <4>3 DEF CacheIsRight
        <4> QED BY <4>2, <4>3
      <3> QED BY <3>1 DEF CacheIsRight, RightText, Vi!Urls
    <2> QED BY <1>1, <2>1, <2>2, <2>3, <2>4, VideoLeaves
  <1>14. CASE Vi!ProcessingFails(j)
    <2>1. /\ viAt[j] # "idle" /\ Vi!Leave(j, "rejected") /\ UNCHANGED <<viSound, viTemp, viFound, viCache>>
          /\ viFaults' \in 0 .. MaxFaults
      BY <1>1, <1>14 DEF Vi!ProcessingFails
    <2>2. CacheIsRight'
      BY <1>2, <2>1 DEF CacheIsRight, RightText, Vi!Urls
    <2> QED BY <1>1, <2>1, <2>2, VideoLeaves
  <1> QED BY <1>6, <1>8, <1>9, <1>10, <1>11, <1>12, <1>13, <1>14 DEF Vi!Process

LEMMA VideoPoll ==
    ASSUME Vi!VideoAssumption, VideoInv, NEW c \in Lookups, Vi!Poll(c)
    PROVE  VideoInv'
  <1>1. /\ viAt \in [Vi!Jobs -> VideoPlaces] /\ c \in Vi!Jobs /\ c # Loop
        /\ viAt' = [viAt EXCEPT ![c] = "lookup"]
        /\ UNCHANGED <<viAlive, viQueue, viTaken, viSound, viTemp, viFound, viCache, viFaults>>
    BY DEF Vi!Poll, Vi!Go, VideoInv, Vi!TypeOK, VideoPlaces, Vi!Jobs, Vi!VideoAssumption
  <1>2. /\ viAt' \in [Vi!Jobs -> VideoPlaces] /\ viAt'[c] = "lookup"
        /\ \A k \in Vi!Jobs \ {c} : viAt'[k] = viAt[k]
    BY <1>1 DEF VideoPlaces
  <1>3. Vi!TypeOK' /\ CacheIsRight'
    BY <1>1, <1>2 DEF VideoInv, Vi!TypeOK, VideoPlaces, Vi!Texts, Vi!Urls, CacheIsRight, RightText
  <1>4. JobIsRight(c)'
    BY <1>2 DEF JobIsRight
  <1> QED BY <1>1, <1>2, <1>3, <1>4, VideoMove

LEMMA VideoSpec ==
    ASSUME Vi!VideoAssumption
    PROVE  Vi!Init /\ [][Vi!Next]_Vi!vars => []VideoInv
  <1>1. Vi!Init => VideoInv
    <2> SUFFICES ASSUME Vi!Init PROVE VideoInv
      OBVIOUS
    <2>1. Loop \in Vi!Jobs /\ 0 \in 0 .. MaxFaults /\ <<>> \in Seq(Vi!Urls)
      BY DEF Vi!VideoAssumption, Vi!Jobs
    <2>2. \A j \in Vi!Jobs : viAt[j] \in {"idle", "new"}
      BY DEF Vi!Init
    <2>3. Vi!TypeOK
      BY <2>1 DEF Vi!Init, Vi!TypeOK
    <2> QED BY <2>1, <2>2, <2>3 DEF Vi!Init, VideoInv, WorkerHasUrl, CacheIsRight, JobIsRight,
               Vi!Keys
  <1>2. VideoInv /\ [Vi!Next]_Vi!vars => VideoInv'
    <2>1. CASE UNCHANGED Vi!vars
      BY <2>1 DEF Vi!vars, VideoInv, Vi!TypeOK, Vi!Texts, Vi!Urls, Vi!Jobs, Vi!Url, WorkerHasUrl,
         CacheIsRight, JobIsRight, RightText
    <2>2. VideoInv /\ Vi!Next => VideoInv'
      BY VideoCall, VideoPoll, VideoProcess DEF Vi!Next, Vi!Continue
    <2> QED BY <2>1, <2>2
  <1> QED BY <1>1, <1>2, PTL

(* What the worker is at, and what waits for it, is a url of a call. *)
Begun(u) == \E c \in Lookups : VideoOf[c] = u /\ viAt[c] # "new"

OnlyBegun ==
    /\ viAt[Loop] # "idle" => Begun(viTaken)
    /\ \A i \in 1 .. Len(viQueue) : Begun(viQueue[i])

Cause == viFaults > 0 \/ \E u \in Direct : Begun(u)
Ended == ~viAlive \/ \E c \in Lookups : viAt[c] = "rejected"
EndsInv == OnlyBegun /\ (Ended => Cause)

(* A job that goes on: the worker with the url it is at or with the next,  *)
(* a call to where it is not new.                                          *)
LEMMA VideoGoesOn ==
    ASSUME Vi!VideoAssumption, VideoInv, EndsInv, NEW j \in Vi!Jobs, viAt[j] \notin {"new", "idle"},
           NEW place \in VideoPlaces \ {"new"}, viAt' = [viAt EXCEPT ![j] = place],
           \/ UNCHANGED <<viQueue, viTaken>> /\ place # "idle"
           \/ j = Loop /\ viQueue = <<>> /\ viQueue' = viQueue /\ place = "idle"
           \/ /\ j = Loop /\ viQueue # <<>> /\ place # "idle"
              /\ viTaken' = Head(viQueue) /\ viQueue' = Tail(viQueue),
           viFaults \in Nat, viFaults' \in {viFaults, viFaults + 1},
           place = "rejected" \/ ~viAlive' =>
               Ended \/ viFaults' = viFaults + 1 \/ Vi!Url(j) \in Direct
    PROVE  EndsInv'
  <1>1. /\ viAt \in [Vi!Jobs -> VideoPlaces] /\ Loop \in Vi!Jobs /\ Lookups \subseteq Vi!Jobs
        /\ Loop \notin Lookups /\ viQueue \in Seq(Vi!Urls)
    BY DEF VideoInv, Vi!TypeOK, Vi!Jobs, VideoPlaces, Vi!VideoAssumption
  <1>2. \A k \in Vi!Jobs : viAt'[k] = IF k = j THEN place ELSE viAt[k]
    BY <1>1
  <1>3. \A u : Begun(u) => Begun(u)'
    BY <1>1, <1>2 DEF Begun
  <1>4. Begun(Vi!Url(j))
    BY <1>1 DEF EndsInv, OnlyBegun, Begun, Vi!Url, Vi!Jobs
  <1>5. OnlyBegun'
    <2>1. CASE UNCHANGED <<viQueue, viTaken>> /\ place # "idle"
      <3>1. viAt'[Loop] # "idle" => viAt[Loop] # "idle"
        BY <1>1, <1>2
      <3> QED BY <1>3, <2>1, <3>1 DEF EndsInv, OnlyBegun
    <2>2. CASE j = Loop /\ viQueue = <<>> /\ viQueue' = viQueue /\ place = "idle"
      BY <1>1, <1>2, <2>2 DEF OnlyBegun
    <2>3. CASE j = Loop /\ viQueue # <<>> /\ viTaken' = Head(viQueue) /\ viQueue' = Tail(viQueue)
      <3>1. /\ Head(viQueue) = viQueue[1] /\ 1 \in 1 .. Len(viQueue)
            /\ \A i \in 1 .. Len(viQueue') : /\ viQueue'[i] = viQueue[i + 1]
                                             /\ i + 1 \in 1 .. Len(viQueue)
        BY <1>1, <2>3
      <3> QED BY <1>3, <2>3, <3>1 DEF EndsInv, OnlyBegun
    <2> QED BY <2>1, <2>2, <2>3
  <1>6. Cause => Cause'
    BY <1>3 DEF Cause
  <1>7. Ended' => Cause'
    <2>1. Ended => Cause'
      BY <1>6 DEF EndsInv
    <2>2. Vi!Url(j) \in Direct => Cause'
      BY <1>3, <1>4 DEF Cause
    <2>3. viFaults' = viFaults + 1 => Cause'
      BY DEF Cause
    <2>4. ASSUME NEW c \in Lookups, viAt'[c] = "rejected"
          PROVE  Ended \/ place = "rejected"
      BY <1>1, <1>2, <2>4 DEF Ended
    <2> QED BY <2>1, <2>2, <2>3, <2>4 DEF Ended
  <1> QED BY <1>5, <1>7 DEF EndsInv

LEMMA VideoLeaving ==
    ASSUME Vi!VideoAssumption, VideoInv, EndsInv, NEW j \in Vi!Jobs, viAt[j] \notin {"new", "idle"},
           NEW outcome \in {"answered", "rejected"}, Vi!Leave(j, outcome),
           viFaults \in Nat, viFaults' \in {viFaults, viFaults + 1},
           outcome = "rejected" => viFaults' = viFaults + 1 \/ Vi!Url(j) \in Direct
    PROVE  EndsInv'
  <1>1. ~viAlive' => outcome = "rejected"
    BY DEF Vi!Leave
  <1>2. CASE j = Loop /\ outcome = "answered"
    <2>1. CASE viQueue = <<>>
      <3>1. viAt' = [viAt EXCEPT ![j] = "idle"] /\ viQueue' = viQueue
        BY <1>2, <2>1 DEF Vi!Leave, Vi!Go
      <3> QED BY <1>1, <1>2, <2>1, <3>1, VideoGoesOn DEF VideoPlaces
    <2>2. CASE viQueue # <<>>
      <3>1. /\ viAt' = [viAt EXCEPT ![j] = "lookup"]
            /\ viTaken' = Head(viQueue) /\ viQueue' = Tail(viQueue)
        BY <1>2, <2>2 DEF Vi!Leave, Vi!Go
      <3> QED BY <1>1, <1>2, <2>2, <3>1, VideoGoesOn DEF VideoPlaces
    <2> QED BY <2>1, <2>2
  <1>3. CASE ~(j = Loop /\ outcome = "answered")
    <2>1. viAt' = [viAt EXCEPT ![j] = outcome] /\ UNCHANGED <<viQueue, viTaken>>
      BY <1>3 DEF Vi!Leave, Vi!Go
    <2> QED BY <1>1, <2>1, VideoGoesOn DEF VideoPlaces
  <1> QED BY <1>2, <1>3

LEMMA VideoAsked ==
    ASSUME Vi!VideoAssumption, VideoInv, EndsInv, NEW c \in Lookups, Vi!ProcessVideo(c)
    PROVE  EndsInv'
  <1> DEFINE u == VideoOf[c]
             idle == viAt[Loop] = "idle"
             rest == IF idle THEN Tail(Append(viQueue, u)) ELSE Append(viQueue, u)
             BegunBy(v) == \E d \in Lookups : VideoOf[d] = v /\ viAt'[d] # "new"
  <1>1. /\ viAt \in [Vi!Jobs -> VideoPlaces] /\ Loop \in Vi!Jobs /\ Lookups \subseteq Vi!Jobs
        /\ Loop \notin Lookups /\ viQueue \in Seq(Vi!Urls) /\ u \in Vi!Urls
    BY DEF VideoInv, Vi!TypeOK, Vi!Jobs, VideoPlaces, Vi!VideoAssumption, Vi!Urls
  <1>2. /\ viAt[c] = "new" /\ viQueue' = rest /\ viTaken' = IF idle THEN u ELSE viTaken
        /\ UNCHANGED <<viAlive, viFaults>>
    BY DEF Vi!ProcessVideo
  <1>3. PICK place \in {"waiting", "lookup"} :
            viAt' = [viAt EXCEPT ![c] = place, ![Loop] = IF idle THEN "lookup" ELSE @]
    BY DEF Vi!ProcessVideo
  <1>4. \A k \in Vi!Jobs : viAt'[k] = IF k = c THEN place
                                   ELSE IF k = Loop /\ idle THEN "lookup" ELSE viAt[k]
    BY <1>1, <1>3
  <1>5. BegunBy(u) /\ \A v : Begun(v) => BegunBy(v)
    BY <1>1, <1>4 DEF Begun
  <1> HIDE DEF BegunBy
  <1>6. \A i \in 1 .. Len(viQueue') : BegunBy(viQueue'[i])
    <2> DEFINE all == Append(viQueue, u)
    <2>1. /\ all \in Seq(Vi!Urls) /\ all # <<>>
          /\ \A i \in 1 .. Len(all) : all[i] = u \/ \E k \in 1 .. Len(viQueue) : all[i] = viQueue[k]
      BY <1>1
    <2>2. \A i \in 1 .. Len(all) : BegunBy(all[i])
      BY <1>5, <2>1 DEF EndsInv, OnlyBegun
    <2>3. viQueue' = IF idle THEN Tail(all) ELSE all
      BY <1>2
    <2> HIDE DEF all
    <2>4. \A i \in 1 .. Len(viQueue') : \E k \in 1 .. Len(all) : viQueue'[i] = all[k]
      BY <2>1, <2>3
    <2> QED BY <2>2, <2>4
  <1>7. viAt'[Loop] # "idle" => BegunBy(viTaken')
    BY <1>1, <1>2, <1>4, <1>5 DEF EndsInv, OnlyBegun
  <1>8. Ended' => Cause'
    <2>1. Ended' => Ended
      BY <1>1, <1>2, <1>4 DEF Ended
    <2>2. Cause => Cause'
      BY <1>2, <1>5 DEF Cause, Begun, BegunBy
    <2> QED BY <2>1, <2>2 DEF EndsInv
  <1> QED BY <1>6, <1>7, <1>8 DEF EndsInv, OnlyBegun, Begun, BegunBy

LEMMA VideoEnds ==
    ASSUME Vi!VideoAssumption
    PROVE  Vi!Init /\ [][Vi!Next]_Vi!vars => []EndsInv
  <1>1. Vi!Init => EndsInv
    BY DEF Vi!Init, EndsInv, OnlyBegun, Ended, Vi!Jobs, Vi!VideoAssumption
  <1>2. VideoInv /\ EndsInv /\ [Vi!Next]_Vi!vars => EndsInv'
    <2> SUFFICES ASSUME VideoInv, EndsInv, [Vi!Next]_Vi!vars PROVE EndsInv'
      OBVIOUS
    <2>0. viFaults \in Nat /\ Lookups \subseteq Vi!Jobs
      BY DEF VideoInv, Vi!TypeOK, Vi!VideoAssumption, Vi!Jobs
    <2>1. CASE UNCHANGED Vi!vars
      BY <2>1 DEF Vi!vars, EndsInv, OnlyBegun, Begun, Ended, Cause
    <2>2. ASSUME NEW c \in Lookups, Vi!Poll(c) PROVE EndsInv'
      <3>1. /\ viAlive /\ viAt[c] = "waiting" /\ viAt' = [viAt EXCEPT ![c] = "lookup"]
            /\ UNCHANGED <<viAlive, viQueue, viTaken, viFaults>>
        BY <2>2 DEF Vi!Poll, Vi!Go
      <3> QED BY <2>0, <3>1, VideoGoesOn DEF VideoPlaces
    <2>3. ASSUME NEW j \in Vi!Jobs, Vi!Lookup(j) PROVE EndsInv'
      <3>1. viAlive /\ viAt[j] = "lookup" /\ viFaults' = viFaults
        BY <2>3 DEF Vi!Lookup
      <3>2. \/ Vi!Leave(j, "answered")
            \/ viAt' = [viAt EXCEPT ![j] = "info"] /\ UNCHANGED <<viAlive, viQueue, viTaken>>
        BY <2>3 DEF Vi!Lookup, Vi!Go
      <3>3. CASE Vi!Leave(j, "answered")
        BY <2>0, <3>1, <3>3, VideoLeaving
      <3>4. CASE viAt' = [viAt EXCEPT ![j] = "info"] /\ UNCHANGED <<viAlive, viQueue, viTaken>>
        BY <2>0, <3>1, <3>4, VideoGoesOn DEF VideoPlaces
      <3> QED BY <3>2, <3>3, <3>4
    <2>4. ASSUME NEW j \in Vi!Jobs,
                 Vi!InfoFetched(j) \/ Vi!CaptionsRead(j) \/ Vi!FileAppears(j) \/ Vi!Transcribed(j)
          PROVE  EndsInv'
      <3>1. /\ viAlive /\ viAt[j] \notin {"new", "idle"}
            /\ UNCHANGED <<viAlive, viQueue, viTaken, viFaults>>
        BY <2>4 DEF Vi!InfoFetched, Vi!CaptionsRead, Vi!FileAppears, Vi!Transcribed
      <3>2. PICK place \in {"captions", "transcribe", "download", "store", "convert"} :
                viAt' = [viAt EXCEPT ![j] = place]
        BY <2>4 DEF Vi!InfoFetched, Vi!CaptionsRead, Vi!FileAppears, Vi!Transcribed, Vi!Hear, Vi!Go
      <3> QED BY <2>0, <3>1, <3>2, VideoGoesOn DEF VideoPlaces
    <2>5. ASSUME NEW j \in Vi!Jobs, Vi!Downloaded(j) PROVE EndsInv'
      <3>1. /\ viAt[j] = "convert" /\ viAt' = [viAt EXCEPT ![j] = "transcribe"]
            /\ UNCHANGED <<viQueue, viTaken, viFaults>> /\ (~viAlive' => Vi!Url(j) \in Direct)
        BY <2>5 DEF Vi!Downloaded, Vi!Hear, Vi!Go
      <3> QED BY <2>0, <3>1, VideoGoesOn DEF VideoPlaces
    <2>6. ASSUME NEW j \in Vi!Jobs, Vi!Store(j) PROVE EndsInv'
      BY <2>0, <2>6, VideoLeaving DEF Vi!Store
    <2>7. ASSUME NEW j \in Vi!Jobs, Vi!ProcessingFails(j) PROVE EndsInv'
      <3>1. /\ viAt[j] \notin {"new", "idle"} /\ Vi!Leave(j, "rejected")
            /\ \/ viFaults' = viFaults + 1
               \/ Vi!Url(j) \in Direct /\ viFaults' = viFaults
        BY <2>7 DEF Vi!ProcessingFails, Vi!Fault
      <3> QED BY <2>0, <3>1, VideoLeaving
    <2> QED BY <2>1, <2>2, <2>3, <2>4, <2>5, <2>6, <2>7, VideoAsked
        DEF Vi!Next, Vi!Continue, Vi!Process
  <1> QED BY <1>1, <1>2, VideoSpec, PTL

LEMMA EndsMean == ASSUME EndsInv, VideoInv PROVE Vi!EndsHaveCause
  <1>1. viFaults \in Nat
    BY DEF VideoInv, Vi!TypeOK
  <1> QED BY <1>1 DEF EndsInv, Ended, Cause, Begun, Vi!EndsHaveCause

LEMMA VideoMeans == ASSUME Vi!VideoAssumption, VideoInv PROVE Vi!AnswersMatch
  BY DEF VideoInv, JobIsRight, RightText, Vi!AnswersMatch, Vi!Url, Vi!Jobs, Vi!VideoAssumption

(* Whoever asks for a video of YouTube gets the text of that video, and    *)
(* all of it if it has captions, whatever other calls and the worker put   *)
(* into the cache.                                                         *)
THEOREM TextsAreOfTheVideo ==
    ASSUME Vi!VideoAssumption
    PROVE  Vi!Spec => []Vi!AnswersMatch
  <1>1. VideoInv => Vi!AnswersMatch
    BY VideoMeans
  <1> QED BY <1>1, VideoSpec, PTL DEF Vi!Spec

============================================================================
