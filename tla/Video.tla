------------------------------- MODULE Video -------------------------------
(***************************************************************************)
(* VideoService (plugin-node).  processVideo puts a url into the queue and *)
(* polls until the url is gone from it.  The worker takes the url off and  *)
(* processes it, and then so does the call: look into the cache, fetch the *)
(* video's description, get a transcript from its captions or from its     *)
(* sound, store the result.  The worker's promise is not awaited: when it  *)
(* is rejected, the process ends.                                          *)
(***************************************************************************)
EXTENDS Sequences, Naturals

CONSTANTS
    Calls,      \* calls of processVideo
    UrlOf,      \* UrlOf[c]: the video
    Youtube,    \* urls with an id in them
    Captioned,  \* urls of videos with captions, or of music
    Direct,     \* urls of mp4 files
    Worker,     \* processQueue, the other job besides the calls
    None,       \* no url, no content, no id
    MaxFaults   \* bound: downloads, conversions and fetches that fail

Urls == {UrlOf[c] : c \in Calls}
Jobs == Calls \cup {Worker}

VideoAssumption ==
    Worker \notin Calls /\ None \notin Urls /\ MaxFaults \in Nat

VARIABLES
    alive,   \* the process has not ended
    queue,   \* this.queue
    taken,   \* the url the worker is at, or None
    at,      \* at[j]: what job j waits for
    sound,   \* sound[u]: the mp3 file of url u
    temp,    \* urls whose mp4 file is in the directory for temporary files
    found,   \* found[j]: the text j has got, or None
    cache,   \* cache[k]: the result stored under key k, or None
    faults

vars == <<alive, queue, taken, at, sound, temp, found, cache, faults>>

(* A text is that of a url, in full or what a file held when it was read. *)
Texts == [url : Urls, whole : BOOLEAN]

(* The key is made of the id that the url's pattern finds, if it does. *)
(* Mutant: the key is that of the service.                             *)
Key_Constant(u) == None
Key(u) == IF u \in Youtube THEN u ELSE None
Keys == Youtube \cup {None}

Init ==
    /\ alive = TRUE
    /\ queue = <<>>
    /\ taken = None
    /\ at = [j \in Jobs |-> IF j = Worker THEN "idle" ELSE "new"]
    /\ sound = [u \in Urls |-> "absent"]
    /\ temp = {}
    /\ found = [j \in Jobs |-> None]
    /\ cache = [k \in Keys |-> None]
    /\ faults = 0

Url(j) == IF j = Worker THEN taken ELSE UrlOf[j]
Queued(q) == {q[i] : i \in 1 .. Len(q)}
Fault == faults < MaxFaults /\ faults' = faults + 1
Go(j, place) == at' = [at EXCEPT ![j] = place]

----------------------------------------------------------------------------
(* push, processQueue and checkQueue are one step: an idle worker takes    *)
(* the url off and the call starts on it as well.                          *)
ProcessVideo(c) ==
    LET u == UrlOf[c]
        idle == at[Worker] = "idle"
        rest == IF idle THEN Tail(Append(queue, u)) ELSE Append(queue, u)
    IN  /\ alive /\ at[c] = "new"
        /\ queue' = rest
        /\ taken' = IF idle THEN u ELSE taken
        /\ at' = [at EXCEPT ![c] = IF u \in Queued(rest) THEN "waiting" ELSE "lookup",
                            ![Worker] = IF idle THEN "lookup" ELSE @]
        /\ UNCHANGED <<alive, sound, temp, found, cache, faults>>

(* checkQueue, every 100 ms. *)
(* Mutant: it looks for any url in the queue. *)
Gone_Empty(u) == queue # <<>>
Gone(u) == u \notin Queued(queue)

Poll(c) ==
    /\ alive /\ at[c] = "waiting"
    /\ Gone(UrlOf[c])
    /\ Go(c, "lookup")
    /\ UNCHANGED <<alive, queue, taken, sound, temp, found, cache, faults>>

(* The end of processVideoFromUrl: the call's answer, or the next turn of  *)
(* the worker's loop.  A worker that fails ends the process.               *)
Leave(j, outcome) ==
    /\ alive' = (j # Worker \/ outcome = "answered")
    /\ IF j = Worker /\ outcome = "answered"
       THEN /\ taken' = IF queue = <<>> THEN None ELSE Head(queue)
            /\ queue' = IF queue = <<>> THEN queue ELSE Tail(queue)
            /\ Go(j, IF queue = <<>> THEN "idle" ELSE "lookup")
       ELSE Go(j, outcome) /\ UNCHANGED <<queue, taken>>

Lookup(j) ==
    /\ alive /\ at[j] = "lookup"
    /\ found' = [found EXCEPT ![j] = cache[Key(Url(j))]]
    /\ IF found'[j] # None THEN Leave(j, "answered")
       ELSE Go(j, "info") /\ UNCHANGED <<alive, queue, taken>>
    /\ UNCHANGED <<sound, temp, cache, faults>>

(* fetchVideoInfo, and getTranscript up to its first await.  A file that   *)
(* exists is taken for the sound of the video, whoever is still writing    *)
(* it, and read when the transcription starts.                             *)
Hear(j, u, state) ==
    /\ Go(j, "transcribe")
    /\ found' = [found EXCEPT ![j] = [url |-> u, whole |-> state = "whole"]]

InfoFetched(j) ==
    LET u == Url(j) IN
    /\ alive /\ at[j] = "info"
    /\ IF u \in Captioned THEN Go(j, "captions") /\ UNCHANGED found
       ELSE IF sound[u] # "absent" THEN Hear(j, u, sound[u])
       ELSE Go(j, "download") /\ UNCHANGED found
    /\ UNCHANGED <<alive, queue, taken, sound, temp, cache, faults>>

CaptionsRead(j) ==
    /\ alive /\ at[j] = "captions"
    /\ found' = [found EXCEPT ![j] = [url |-> Url(j), whole |-> TRUE]]
    /\ Go(j, "store")
    /\ UNCHANGED <<alive, queue, taken, sound, temp, cache, faults>>

(* downloadAudio, or convertMp4ToMp3 when a DOWNLOAD_MEDIA action has left *)
(* the mp4 file: the mp3 file is written after a while.  A direct link's   *)
(* mp4 file is fetched first, into one place for all jobs.                 *)
FileAppears(j) ==
    /\ alive /\ at[j] = "download"
    /\ temp' = temp \cup ({Url(j)} \cap Direct)
    /\ sound' = [sound EXCEPT ![Url(j)] = "part"]
    /\ Go(j, "convert")
    /\ UNCHANGED <<alive, queue, taken, found, cache, faults>>

(* Another job that writes the same file may have begun it anew.  The mp4  *)
(* file is deleted by the listener of the converter's end, which throws,   *)
(* with nobody to catch it, if the other job's has done so before.         *)
Downloaded(j) ==
    LET u == Url(j)
        others == \E k \in Jobs \ {j} : at[k] = "convert" /\ Url(k) = u
    IN  /\ alive /\ at[j] = "convert"
        /\ \E state \in {"whole"} \cup (IF others THEN {"part"} ELSE {}) :
               /\ sound' = [sound EXCEPT ![u] = state]
               /\ Hear(j, u, state)
        /\ temp' = temp \ {u}
        /\ alive' = (u \in Direct => u \in temp)
        /\ UNCHANGED <<queue, taken, cache, faults>>

(* The transcription service answers with a text, or with null, which     *)
(* becomes the text Transcription failed.                                 *)
Transcribed(j) ==
    /\ alive /\ at[j] = "transcribe"
    /\ Go(j, "store")
    /\ \E whole \in {found[j].whole, FALSE} :
           found' = [found EXCEPT ![j].whole = whole]
    /\ UNCHANGED <<alive, queue, taken, sound, temp, cache, faults>>

Store(j) ==
    /\ alive /\ at[j] = "store"
    /\ cache' = [cache EXCEPT ![Key(Url(j))] = found[j]]
    /\ Leave(j, "answered")
    /\ UNCHANGED <<sound, temp, found, faults>>

(* The file of a failed download stays.  A conversion also fails if the    *)
(* other job deletes the mp4 file before it is opened.                     *)
ProcessingFails(j) ==
    /\ alive /\ at[j] \in {"lookup", "info", "captions", "download", "convert", "store"}
    /\ \/ Fault
       \/ at[j] = "convert" /\ Url(j) \in Direct \ temp /\ UNCHANGED faults
    /\ Leave(j, "rejected")
    /\ UNCHANGED <<sound, temp, found, cache>>

Process(j) ==
    \/ Lookup(j) \/ InfoFetched(j) \/ CaptionsRead(j) \/ FileAppears(j) \/ Downloaded(j)
    \/ Transcribed(j) \/ Store(j) \/ ProcessingFails(j)

Continue == (\E c \in Calls : Poll(c)) \/ \E j \in Jobs : Process(j)

Next == Continue \/ \E c \in Calls : ProcessVideo(c)

(* Commands, requests and the transcription service end, and timers fire. *)
Spec == Init /\ [][Next]_vars /\ WF_vars(Continue)

----------------------------------------------------------------------------
(* Types of the service's fields and files. *)
TypeOK ==
    /\ alive \in BOOLEAN
    /\ queue \in Seq(Urls)
    /\ taken \in Urls \cup {None}
    /\ at \in [Jobs -> {"new", "idle", "waiting", "lookup", "info", "captions", "download",
                        "convert", "transcribe", "store", "answered", "rejected"}]
    /\ sound \in [Urls -> {"absent", "part", "whole"}]
    /\ temp \subseteq Urls
    /\ found \in [Jobs -> Texts \cup {None}]
    /\ cache \in [Keys -> Texts \cup {None}]
    /\ faults \in 0 .. MaxFaults

(* Who asks for a video of YouTube gets the text of that video, whatever   *)
(* the other calls and the worker store meanwhile, and all of it if it has *)
(* captions.  Any other url may get the text of any other such url, and a  *)
(* video without captions the text of the part that was downloaded when    *)
(* the second of its two jobs looked.                                      *)
AnswersMatch ==
    \A c \in Calls : at[c] = "answered" /\ UrlOf[c] \in Youtube =>
        /\ found[c].url = UrlOf[c]
        /\ UrlOf[c] \in Captioned => found[c].whole

(* The process ends, and a call is rejected, only after a failure or once  *)
(* a direct link is asked for: the call and the worker both begin with it, *)
(* and each deletes the one file.                                          *)
EndsHaveCause ==
    (~alive \/ \E c \in Calls : at[c] = "rejected") =>
        faults > 0 \/ \E c \in Calls : UrlOf[c] \in Direct /\ at[c] # "new"

(* Again and again every call has ended, or the process has. *)
Quiet == ~alive \/ \A c \in Calls : at[c] \in {"new", "answered", "rejected"}

============================================================================
