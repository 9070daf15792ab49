----------------------------- MODULE MCServices ----------------------------
(***************************************************************************)
(* The services of plugin-node that keep state, on small instances:        *)
(* Transcription, which this module extends, and three others; and the     *)
(* actions of the plugins, with those of Coinbase's wallet and of the      *)
(* haptic devices, which keep state of their own.  They share no state, so *)
(* each is driven on its own: the first state chooses the one whose        *)
(* methods are called, and the others rest.                                *)
(***************************************************************************)
EXTENDS Transcription

CONSTANTS
    Loop, Lookups, ImageOf, VideoOf,              \* of Image and Video
    Gifs, MaxMs,                                  \* of Image
    Youtube, Captioned, Direct,                   \* of Video
    Fetches, PageOf, MaxDepth,                    \* of Browser
    MaxAsks, MaxRefusals,                         \* of Actions
    Recipients, MaxWallets, MaxPayments,          \* of Coinbase
    Vibrations, Rotations, MaxRetries, MaxStops,  \* of Haptics
    MaxFaults,                                    \* of the others
    r1, r3, gif, still, tube, song, clip          \* two calls, two images and three videos

(* Two calls of three for the image that is a gif; a video with captions,  *)
(* one without and a direct link; all calls for one page.                  *)
Images == [r \in Lookups |-> IF r = r3 THEN still ELSE gif]
Watched == [r \in Lookups |-> IF r = r1 THEN song ELSE IF r = r3 THEN clip ELSE tube]
OnePage == [r \in Fetches |-> still]

VARIABLES
    driven,
    imLocal, imAlive, imInitialized, imParts, imQueue, imAt, imTaken, imFrame, imFrames,
    imNow, imFaults, imClash,
    brBrowser, brContext, brAt, brTrail, brOpen, brResult, brCached, brEarly, brFaults,
    viAlive, viQueue, viTaken, viAt, viSound, viTemp, viFound, viCache, viFaults,
    acAsked, acHandler, acAt, acTold, acThrown, acDone, acEarlier, acBlurred, acAllowance,
    acAmount, acAsks, acRefusals, acAlive,
    cbSettings, cbFile, cbSeedFile, cbMade, cbLost, cbAt, cbWallet, cbWanted, cbTodo, cbResults, cbTold,
    cbPaid, cbGiven, cbTraded, cbCsv, cbAsks, cbFaults, cbBlurred, cbRefused,
    haClient, haLinked, haConnected, haRetries, haSetup, haPresent, haDevices, haQueue,
    haProcessing, haAt, haMoving, haDone, haFaults, haAlive

Im == INSTANCE Image WITH
    Calls <- Lookups, UrlOf <- ImageOf, Worker <- Loop,
    local <- imLocal, alive <- imAlive, initialized <- imInitialized, parts <- imParts,
    queue <- imQueue, at <- imAt, taken <- imTaken, frame <- imFrame, frames <- imFrames,
    now <- imNow, faults <- imFaults, clash <- imClash

Br == INSTANCE Browser WITH
    Calls <- Fetches,
    browser <- brBrowser, context <- brContext, at <- brAt, trail <- brTrail,
    open <- brOpen, result <- brResult, cached <- brCached, early <- brEarly,
    faults <- brFaults

Vi == INSTANCE Video WITH
    Calls <- Lookups, UrlOf <- VideoOf, Worker <- Loop,
    alive <- viAlive, queue <- viQueue, taken <- viTaken, at <- viAt, sound <- viSound,
    temp <- viTemp, found <- viFound, cache <- viCache, faults <- viFaults

Ac == INSTANCE Actions WITH
    asked <- acAsked, handler <- acHandler, at <- acAt, told <- acTold, thrown <- acThrown,
    done <- acDone, earlier <- acEarlier, blurred <- acBlurred, allowance <- acAllowance,
    amount <- acAmount, asks <- acAsks, refusals <- acRefusals, alive <- acAlive

Cb == INSTANCE Coinbase WITH
    MaxAsks <- MaxPayments,
    settings <- cbSettings, file <- cbFile, seedFile <- cbSeedFile, made <- cbMade, lost <- cbLost,
    at <- cbAt, wallet <- cbWallet, wanted <- cbWanted, todo <- cbTodo, results <- cbResults,
    told <- cbTold, paid <- cbPaid, given <- cbGiven, traded <- cbTraded, csv <- cbCsv,
    asks <- cbAsks, faults <- cbFaults, blurred <- cbBlurred, refused <- cbRefused

Ha == INSTANCE Haptics WITH
    MaxFaults <- MaxStops,
    client <- haClient, linked <- haLinked, connected <- haConnected, retries <- haRetries,
    setup <- haSetup, present <- haPresent, devices <- haDevices, queue <- haQueue,
    processing <- haProcessing, at <- haAt, moving <- haMoving, done <- haDone,
    faults <- haFaults, alive <- haAlive

imVars == <<imLocal, imAlive, imInitialized, imParts, imQueue, imAt, imTaken, imFrame,
            imFrames, imNow, imFaults, imClash>>
brVars == <<brBrowser, brContext, brAt, brTrail, brOpen, brResult, brCached, brEarly, brFaults>>
viVars == <<viAlive, viQueue, viTaken, viAt, viSound, viTemp, viFound, viCache, viFaults>>
acVars == <<acAsked, acHandler, acAt, acTold, acThrown, acDone, acEarlier, acBlurred,
            acAllowance, acAmount, acAsks, acRefusals, acAlive>>
cbVars == <<cbSettings, cbFile, cbSeedFile, cbMade, cbLost, cbAt, cbWallet, cbWanted, cbTodo, cbResults,
            cbTold, cbPaid, cbGiven, cbTraded, cbCsv, cbAsks, cbFaults, cbBlurred, cbRefused>>
haVars == <<haClient, haLinked, haConnected, haRetries, haSetup, haPresent, haDevices, haQueue,
            haProcessing, haAt, haMoving, haDone, haFaults, haAlive>>

ASSUME Instances ==
    /\ Im!ImageAssumption /\ Br!BrowserAssumption /\ Vi!VideoAssumption
    /\ Ac!ActionsAssumption /\ Cb!CoinbaseAssumption /\ Ha!HapticsAssumption

sysVars == <<driven, vars, imVars, brVars, viVars, acVars, cbVars, haVars>>

SysInit ==
    /\ driven \in {"transcription", "image", "browser", "video", "actions", "coinbase", "haptics"}
    /\ Init /\ Im!Init /\ Br!Init /\ Vi!Init /\ Ac!Init /\ Cb!Init /\ Ha!Init
    /\ driven # "image" => imLocal
    /\ driven # "haptics" => haPresent

Transcribing ==
    /\ driven = "transcription" /\ Next
    /\ UNCHANGED <<driven, imVars, brVars, viVars, acVars, cbVars, haVars>>
Describing ==
    /\ driven = "image" /\ Im!Next
    /\ UNCHANGED <<driven, vars, brVars, viVars, acVars, cbVars, haVars>>
Browsing ==
    /\ driven = "browser" /\ Br!Next
    /\ UNCHANGED <<driven, vars, imVars, viVars, acVars, cbVars, haVars>>
Watching ==
    /\ driven = "video" /\ Vi!Next
    /\ UNCHANGED <<driven, vars, imVars, brVars, acVars, cbVars, haVars>>
Acting ==
    /\ driven = "actions" /\ Ac!Next
    /\ UNCHANGED <<driven, vars, imVars, brVars, viVars, cbVars, haVars>>
Paying ==
    /\ driven = "coinbase" /\ Cb!Next
    /\ UNCHANGED <<driven, vars, imVars, brVars, viVars, acVars, haVars>>
Moving ==
    /\ driven = "haptics" /\ Ha!Next
    /\ UNCHANGED <<driven, vars, imVars, brVars, viVars, acVars, cbVars>>

SysNext == \/ Transcribing \/ Describing \/ Browsing \/ Watching
           \/ Acting \/ Paying \/ Moving

(* Each one's own fairness; it asks nothing of what rests. *)
SysSpec ==
    /\ SysInit /\ [][SysNext]_sysVars
    /\ WF_vars(Worker)
    /\ WF_imVars(driven = "image" /\ Im!Continue)
    /\ WF_viVars(driven = "video" /\ Vi!Continue)
    /\ WF_acVars(driven = "actions" /\ Ac!Go)
    /\ WF_cbVars(driven = "coinbase" /\ Cb!Work)
    /\ WF_haVars(driven = "haptics" /\ Ha!Continue)

----------------------------------------------------------------------------
(* Types of what is driven; the others keep their first state. *)
TypesOK ==
    /\ TypeOK
    /\ driven = "image" => Im!TypeOK
    /\ driven = "browser" => Br!TypeOK
    /\ driven = "video" => Vi!TypeOK
    /\ driven = "actions" => Ac!TypeOK
    /\ driven = "coinbase" => Cb!TypeOK
    /\ driven = "haptics" => Ha!TypeOK

(* What overlapping calls and failures do.  Without a failure no order of  *)
(* the calls for images ends the process, a page is only fetched in vain   *)
(* after a failure or while another call launches the browser, and who     *)
(* asks for a video of YouTube gets the text of that video.  A user who    *)
(* is told of success got everything; what was changed without a word, or  *)
(* again, was so for a lost answer or by a handler known for it; once the  *)
(* saving of a wallet went through some seed is on file, and nobody is     *)
(* paid twice but after a failure; one call works on the queue of          *)
(* vibrations.                                                             *)
OutcomesHaveCause ==
    /\ driven = "image" => Im!DiesOnlyOfFaults
    /\ driven = "browser" => Br!ErrorsHaveCause
    /\ driven = "video" => Vi!AnswersMatch /\ Vi!EndsHaveCause
    /\ driven = "actions" => Ac!GoodMeansDone /\ Ac!ChangesAreTold /\ Ac!EndsWithAWord
                             /\ Ac!ShortAfterFailure
    /\ driven = "coinbase" => Cb!SeedsKept /\ Cb!PaidTwiceHasCause
    /\ driven = "haptics" => Ha!QueueHasOneWorker /\ Ha!StopsHaveCause

(* Every request for a transcript is answered, and every call of a service *)
(* that polls and every handler ends, unless the process does; a vibration *)
(* somebody was told of happens, unless one before it failed.              *)
CallsEnd == []<>(NobodyWaits /\ Im!Quiet /\ Vi!Quiet /\ Ac!Quiet /\ Cb!Quiet /\ Ha!Quiet)

============================================================================
