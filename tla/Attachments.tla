----------------------------- MODULE Attachments ---------------------------
(***************************************************************************)
(* AttachmentManager: what the agent reads in the attachments of Discord   *)
(* messages.  Descriptions, those of failures too, are kept by url for as  *)
(* long as the process lives.  The sound of an mp4 goes through two files  *)
(* named by the millisecond, and ffmpeg is run twice on them: by save, and *)
(* again by run.                                                           *)
(***************************************************************************)
EXTENDS Naturals, FiniteSets

CONSTANTS
    Jobs,     \* attachments of messages, in the order they are looked at
    Mp4s,     \* urls of mp4 videos
    Videos,   \* urls of other videos
    Others,   \* urls of sound, texts, documents and pictures
    MaxTime,  \* bound: milliseconds that pass
    MaxFaults \* bound: failures of ffmpeg, the web and the services

VARIABLES
    now,    \* milliseconds
    cache,  \* attachmentCache: what is said of a url
    at,     \* at[j]: the await of job j
    url,    \* url[j]: its attachment
    stamp,  \* stamp[j]: the millisecond in the names of its files
    text,   \* text[j]: what it has read
    run,    \* run[j][p]: how far ffmpeg is, in each of its two runs
    source, \* source[j][p]: what that run reads
    mp4,    \* mp4[t]: the input file of millisecond t
    mp3,    \* mp3[t]: the output file, with the run that opened it last
    faults

vars == <<now, cache, at, url, stamp, text, run, source, mp4, mp3, faults>>

(* What is kept of a failure is told from what is kept of an attachment. *)
AttachmentsAssumption ==
    /\ MaxTime \in Nat /\ MaxFaults \in Nat
    /\ {"nothing", "failure"} \cap (Mp4s \cup Videos \cup Others) = {}

Urls == Mp4s \cup Videos \cup Others
Times == 0 .. MaxTime
Runs == {"save", "run"}
Nothing == [of |-> "nothing", whole |-> FALSE]
Failure == [of |-> "failure", whole |-> FALSE]
Text(u, whole) == [of |-> u, whole |-> whole]
NoFile == [by |-> <<"nobody", "">>, content |-> Nothing]

Init ==
    /\ now = 0
    /\ cache = [u \in Urls |-> Nothing]
    /\ at = [j \in Jobs |-> "new"]
    /\ url \in [Jobs -> Urls]
    /\ stamp = [j \in Jobs |-> 0]
    /\ text = [j \in Jobs |-> Nothing]
    /\ run = [j \in Jobs |-> [p \in Runs |-> "none"]]
    /\ source = [j \in Jobs |-> [p \in Runs |-> Nothing]]
    /\ mp4 = [t \in Times |-> Nothing]
    /\ mp3 = [t \in Times |-> NoFile]
    /\ faults = 0

Tick ==
    /\ now < MaxTime
    /\ now' = now + 1
    /\ UNCHANGED <<cache, at, url, stamp, text, run, source, mp4, mp3, faults>>

Go(j, place) == at' = [at EXCEPT ![j] = place]
Fault == faults < MaxFaults /\ faults' = faults + 1

----------------------------------------------------------------------------
(* What is known of the url is not looked at again. *)
Start(j) ==
    /\ at[j] = "new"
    /\ Go(j, IF cache[url[j]] # Nothing THEN "done"
             ELSE IF url[j] \in Videos THEN "video" ELSE "fetch")
    /\ UNCHANGED <<now, cache, url, stamp, text, run, source, mp4, mp3, faults>>

(* An mp4 is fetched, the input file is written and ffmpeg spawned. *)
FetchMp4(j) ==
    /\ at[j] = "fetch" /\ url[j] \in Mp4s
    /\ stamp' = [stamp EXCEPT ![j] = now]
    /\ mp4' = [mp4 EXCEPT ![now] = Text(url[j], TRUE)]
    /\ run' = [run EXCEPT ![j] = [p \in Runs |-> "spawned"]]
    /\ Go(j, "extract")
    /\ UNCHANGED <<now, cache, url, text, source, mp3, faults>>

(* A document, a text or a sound; a picture's service fetches it. *)
Fetch(j) ==
    /\ at[j] = "fetch" /\ url[j] \in Others
    /\ text' = [text EXCEPT ![j] = Text(url[j], TRUE)]
    /\ Go(j, "describe")
    /\ UNCHANGED <<now, cache, url, stamp, run, source, mp4, mp3, faults>>

(* The answer is kept, a failure like any other. *)
Keep(j, answer) ==
    /\ cache' = [cache EXCEPT ![url[j]] = answer]
    /\ text' = [text EXCEPT ![j] = Nothing]
    /\ Go(j, "done")

(* Mutant: there is one pair of files. *)
Names_One(j) == 0
Names(j) == stamp[j]

(* The first run that ends settles the promise: the output is read, and    *)
(* the files of these names, whoever wrote them, are removed.              *)
Settle(j, output, written) ==
    IF at[j] = "extract"
    THEN /\ mp4' = [mp4 EXCEPT ![Names(j)] = Nothing]
         /\ mp3' = [mp3 EXCEPT ![Names(j)] = NoFile]
         /\ IF output = Nothing THEN Keep(j, Failure)
            ELSE text' = [text EXCEPT ![j] = output] /\ Go(j, "describe") /\ UNCHANGED cache
    ELSE mp3' = written /\ UNCHANGED <<at, cache, text, mp4>>

Run(j, p, place) == run' = [run EXCEPT ![j][p] = place]

(* ffmpeg opens its input, and fails if that is gone. *)
ReadInput(j, p) ==
    /\ run[j][p] = "spawned"
    /\ IF mp4[Names(j)] = Nothing
       THEN Run(j, p, "ended") /\ Settle(j, Nothing, mp3) /\ UNCHANGED source
       ELSE /\ Run(j, p, "reading")
            /\ source' = [source EXCEPT ![j][p] = mp4[Names(j)]]
            /\ UNCHANGED <<at, cache, text, mp4, mp3>>
    /\ UNCHANGED <<now, url, stamp, faults>>

(* It makes its output empty, whatever another run wrote there. *)
OpenOutput(j, p) ==
    /\ run[j][p] = "reading"
    /\ Run(j, p, "writing")
    /\ mp3' = [mp3 EXCEPT ![Names(j)] =
                  [by |-> <<j, p>>, content |-> Text(source[j][p].of, FALSE)]]
    /\ UNCHANGED <<now, cache, at, url, stamp, text, source, mp4, faults>>

(* What it writes is whole in the end, if no other run emptied it since. *)
EndOutput(j, p) ==
    LET t == Names(j)
        written == IF mp3[t].by = <<j, p>> THEN [mp3 EXCEPT ![t].content.whole = TRUE] ELSE mp3
    IN  /\ run[j][p] = "writing"
        /\ Run(j, p, "ended")
        /\ Settle(j, written[t].content, written)
        /\ source' = [source EXCEPT ![j][p] = Nothing]
        /\ UNCHANGED <<now, url, stamp, faults>>

RunFails(j, p) ==
    /\ run[j][p] \in {"spawned", "reading", "writing"}
    /\ Fault
    /\ Run(j, p, "ended")
    /\ Settle(j, Nothing, mp3)
    /\ source' = [source EXCEPT ![j][p] = Nothing]
    /\ UNCHANGED <<now, url, stamp>>

----------------------------------------------------------------------------
(* The transcription or image service and the model. *)
Describe(j) ==
    /\ at[j] = "describe"
    /\ Keep(j, text[j])
    /\ UNCHANGED <<now, url, stamp, run, source, mp4, mp3, faults>>

(* The video service. *)
Watch(j) ==
    /\ at[j] = "video"
    /\ Keep(j, Text(url[j], TRUE))
    /\ UNCHANGED <<now, url, stamp, run, source, mp4, mp3, faults>>

(* Only a failure of the video service is not caught, and not kept. *)
Fails(j) ==
    /\ at[j] \in {"fetch", "describe", "video"}
    /\ Fault
    /\ IF at[j] = "video" THEN Go(j, "failed") /\ UNCHANGED <<cache, text>>
       ELSE Keep(j, Failure)
    /\ UNCHANGED <<now, url, stamp, run, source, mp4, mp3>>

Step(j) ==
    \/ FetchMp4(j) \/ Fetch(j) \/ Describe(j) \/ Watch(j) \/ Fails(j)
    \/ \E p \in Runs : ReadInput(j, p) \/ OpenOutput(j, p) \/ EndOutput(j, p) \/ RunFails(j, p)

Next == Tick \/ \E j \in Jobs : Start(j) \/ Step(j)

Spec == Init /\ [][Next]_vars /\ WF_vars(\E j \in Jobs : Step(j))

----------------------------------------------------------------------------
(* Types of the cache, the jobs and the files. *)
Texts == {Nothing, Failure} \cup {Text(u, b) : u \in Urls, b \in BOOLEAN}
TypeOK ==
    /\ now \in Times /\ faults \in 0 .. MaxFaults
    /\ cache \in [Urls -> Texts] /\ text \in [Jobs -> Texts]
    /\ \A t \in Times : mp4[t] \in Texts /\ mp3[t].content \in Texts

(* What is kept of a url is its own, if only a part of the sound of an     *)
(* mp4; it is another's only if the two were extracted in one millisecond. *)
KeptIsOwn ==
    \A u \in Urls : cache[u].of \in Urls \ {u} =>
        \E i, j \in Jobs : url[i] = u /\ url[j] = cache[u].of /\ i # j /\ stamp[i] = stamp[j]

(* Only an mp4 is kept in part. *)
OthersAreWhole == \A u \in Urls \ Mp4s : cache[u] \in {Nothing, Failure, Text(u, TRUE)}

(* No input file outlives the jobs; an output file may. *)
InputsRemoved ==
    (\A j \in Jobs : at[j] \in {"new", "done", "failed"}) => \A t \in Times : mp4[t] = Nothing

(* Again and again every attachment is read, or its message given up. *)
Quiet == \A j \in Jobs : at[j] \in {"new", "done", "failed"}
JobsEnd == []<>Quiet

============================================================================
