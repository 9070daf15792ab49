---------------------------- MODULE Transcription --------------------------
(***************************************************************************)
(* TranscriptionService (plugin-node): transcribe() puts a recording into  *)
(* a queue and returns a promise; processQueue takes recordings up one by  *)
(* one, runs ffprobe, ffmpeg and whisper on files of content_cache, and    *)
(* resolves the promise with the text or with null.  The service never     *)
(* sets its OpenAI client, so every recording is transcribed locally.      *)
(* Code between two awaits is one step.                                    *)
(***************************************************************************)
EXTENDS Sequences, Naturals

CONSTANTS
    Requests,  \* calls of transcribe
    Short,     \* those whose recording is shorter than .2 seconds
    None       \* not a request

ASSUME TranscriptionAssumption == Short \subseteq Requests /\ None \notin Requests

VARIABLES
    queue,      \* this.queue
    processing, \* this.processing
    current,    \* the request processQueue shifted off the queue, or None
    phase,      \* the external command the worker waits for
    files,      \* files in content_cache, as <<kind, request>>
    answer      \* answer[r]: "none" until r's promise resolves

vars == <<queue, processing, current, phase, files, answer>>

Kinds == {"input", "output", "temp"}
Phases == {"idle", "ffprobe", "ffmpeg", "whisper"}
Answers == {"none", "text", "null"}

Init ==
    /\ queue = <<>>
    /\ processing = FALSE
    /\ current = None
    /\ phase = "idle"
    /\ files = {}
    /\ answer = [r \in Requests |-> "none"]

Queued == {queue[i] : i \in 1 .. Len(queue)}
New(r) == answer[r] = "none" /\ r \notin Queued /\ r # current

(* convertAudio writes the recording and starts ffprobe on it. *)
StartWork(r, leftover) ==
    /\ current' = r
    /\ phase' = "ffprobe"
    /\ files' = leftover \cup {<<"input", r>>}

TranscribeShort(r) ==
    /\ New(r)
    /\ r \in Short
    /\ answer' = [answer EXCEPT ![r] = "null"]
    /\ UNCHANGED <<queue, processing, current, phase, files>>

(* Mutant: the flag is raised only after the first await. *)
RaiseFlag_Late == FALSE
RaiseFlag == TRUE

(* processQueue, called when nothing is being processed, takes the request *)
(* up before transcribe returns.                                           *)
TranscribeIdle(r) ==
    /\ New(r)
    /\ r \notin Short
    /\ ~processing
    /\ queue' = Tail(Append(queue, r))
    /\ processing' = RaiseFlag
    /\ StartWork(Head(Append(queue, r)), files)
    /\ UNCHANGED answer

TranscribeBusy(r) ==
    /\ New(r)
    /\ r \notin Short
    /\ processing
    /\ queue' = Append(queue, r)
    /\ UNCHANGED <<processing, current, phase, files, answer>>

----------------------------------------------------------------------------
(* The worker.  Every error is caught and becomes the answer null. *)

(* Mutants: the newest request first; the loop runs only once. *)
NextUp_Newest(q) == q[Len(q)]
NextUp(q) == Head(q)
Rest_Drop(q) == <<>>
Rest(q) == Tail(q)

(* resolve, the loop's test, and either the end or the next request. *)
Resolve(a, leftover) ==
    /\ answer' = [answer EXCEPT ![current] = a]
    /\ IF queue = <<>>
       THEN /\ processing' = FALSE
            /\ current' = None
            /\ phase' = "idle"
            /\ files' = leftover
            /\ UNCHANGED queue
       ELSE /\ StartWork(NextUp(queue), leftover)
            /\ queue' = Rest(queue)
            /\ UNCHANGED processing

Probed ==
    /\ phase = "ffprobe"
    /\ phase' = "ffmpeg"
    /\ UNCHANGED <<queue, processing, current, files, answer>>

ProbeFails == phase = "ffprobe" /\ Resolve("null", files)

(* convertAudio removes its files only when the conversion succeeded. *)
(* Mutant: it forgets the output file.                                *)
Converted_KeepOutput(r) == (files \ {<<"input", r>>}) \cup {<<"output", r>>}
Converted(r) == files \ {<<"input", r>>, <<"output", r>>}

Convert ==
    /\ phase = "ffmpeg"
    /\ phase' = "whisper"
    /\ files' = Converted(current) \cup {<<"temp", current>>}
    /\ UNCHANGED <<queue, processing, current, answer>>

(* ffmpeg fails and may leave part of its output. *)
ConvertFails ==
    /\ phase = "ffmpeg"
    /\ \E part \in SUBSET {<<"output", current>>} : Resolve("null", files \cup part)

(* A transcript of fewer than five characters counts as none. *)
(* Mutants: the file stays; the transcript is not looked at.  *)
Transcribed_Keep(a) == files
Transcribed(a) == files \ {<<"temp", current>>}

Recognise_Unchecked ==
    phase = "whisper" /\ \E a \in {"text", "few"} : Resolve(a, Transcribed(a))
Recognise == phase = "whisper" /\ \E a \in {"text", "null"} : Resolve(a, Transcribed(a))

WhisperFails == phase = "whisper" /\ Resolve("null", files)

Worker == Probed \/ ProbeFails \/ Convert \/ ConvertFails \/ Recognise \/ WhisperFails

Next ==
    \/ \E r \in Requests : TranscribeShort(r) \/ TranscribeIdle(r) \/ TranscribeBusy(r)
    \/ Worker

(* The external commands end, well or badly. *)
Spec == Init /\ [][Next]_vars /\ WF_vars(Worker)

----------------------------------------------------------------------------
(* Types of the service's fields and files. *)
TypeOK ==
    /\ queue \in Seq(Requests)
    /\ processing \in BOOLEAN
    /\ current \in Requests \cup {None}
    /\ phase \in Phases
    /\ files \subseteq Kinds \X Requests
    /\ answer \in [Requests -> Answers]

(* The flag is up exactly while a request is being worked on, and nothing  *)
(* waits while it is down: no call of transcribe is left in the queue.     *)
FlagIsRight ==
    /\ processing <=> current # None
    /\ phase = "idle" <=> current = None
    /\ queue # <<>> => processing

(* The cache directory holds files of the request being worked on and of   *)
(* requests that were answered null, never of one that got its text.       *)
LeftoversOfFailures ==
    \A f \in files : f[2] # current => answer[f[2]] = "null"

(* Requests are served one at a time, in order, and answered once. *)
Serial == INSTANCE SerialServer WITH
    waiting <- queue,
    serving <- {current} \ {None},
    answered <- {r \in Requests : answer[r] # "none"}

ServesSerially == Serial!Spec

(* No promise of transcribe is open.  It is to be so again and again: as   *)
(* no request leaves the queue unanswered (ServesSerially) and every       *)
(* request is made once, each is answered.                                 *)
NobodyWaits == queue = <<>> /\ current = None

============================================================================
