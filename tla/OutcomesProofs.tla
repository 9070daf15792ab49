---------------------------- MODULE OutcomesProofs ---------------------------
(* What the actions of the plugins tell the user, what becomes of the      *)
(* wallet of plugin-coinbase, and the queue of the haptic devices; with    *)
(* them and the services of ServicesProofs, OutcomesHaveCause of           *)
(* MCServices, for every number of calls, wallets, recipients and faults.  *)
EXTENDS ServicesProofs

----------------------------------------------------------------------------
(* Actions.  What a program of steps must be like for its handler to keep  *)
(* the promises; that each of the 31 handlers is, is checked on its steps. *)

Ops == {"await", "test", "change", "maybe", "tell", "poll", "broken", "approve", "simulate",
        "sell"}
Alters == {"change", "sell"}

WellFormed(p) ==
    /\ Len(p.steps) \in Nat \ {0}
    /\ p.caught \in {"bad", "nothing"}
    /\ \A i \in 1 .. Len(p.steps) :
          /\ p.steps[i].op \in Ops
          /\ p.steps[i].op = "tell" => /\ p.steps[i].what \in {"note", "bad", "good"}
                                       /\ p.steps[i].fails \in {"down", "out", "on"}

(* Success is told when everything was changed. *)
GoodComesLast(p) ==
    \A i, j \in 1 .. Len(p.steps) :
        /\ p.steps[i].op = "tell" /\ p.steps[i].what = "good" /\ p.steps[j].op \in Alters
        => \E k \in 1 .. i - 1 : /\ p.steps[k].op \in Alters
                                 /\ p.steps[k].what = p.steps[j].what

(* What is changed is told at once, unless no request comes that far. *)
ToldAtOnce(p) ==
    LET n == Len(p.steps) IN
    \A i \in 1 .. n : p.steps[i].op \in Alters \cup {"maybe"} =>
        \/ \E k \in 1 .. i - 1 : p.steps[k].op = "broken"
        \/ /\ i + 1 = n
           /\ p.steps[n].op = "tell" /\ p.steps[n].what = "good" /\ p.steps[n].fails # "on"

(* Every way out is an error for processActions, or comes with a word. *)
Speaks(p) ==
    LET n == Len(p.steps) IN
    /\ \A i \in 1 .. n : \/ p.steps[i].fails \in {"out", "bad"}
                         \/ p.steps[i].fails = "catch" /\ p.caught = "bad"
                         \/ p.steps[i].op = "tell" /\ p.steps[i].fails = "down"
    /\ \/ p.steps[n].op = "tell" /\ p.steps[n].what \in {"bad", "good"}
       \/ \E k \in 1 .. n : p.steps[k].op = "broken"

(* A sale is approved once, then simulated, then made. *)
ApprovedOnce(p) ==
    \A i \in 1 .. Len(p.steps) :
        /\ p.steps[i].op = "simulate" => i - 1 \in 1 .. i /\ p.steps[i - 1].op = "approve"
        /\ p.steps[i].op = "sell" => i - 1 \in 1 .. i /\ p.steps[i - 1].op = "simulate"
        /\ p.steps[i].op = "approve" =>
              \A k \in 1 .. i - 1 : p.steps[k].op \notin {"approve", "sell"}

Fits(h, p) ==
    /\ WellFormed(p) /\ GoodComesLast(p) /\ ApprovedOnce(p)
    /\ h \notin Ac!AfterThoughts => ToldAtOnce(p)
    /\ h \notin Ac!Silent => Speaks(p)

LEMMA ProgramsFit == \A h \in Ac!Names : Fits(h, Ac!Program[h])
  <1> USE DEF Fits, WellFormed, GoodComesLast, ToldAtOnce, Speaks, ApprovedOnce, Ops, Alters,
          Ac!AfterThoughts, Ac!Silent, Ac!Nothing, Ac!Handler, Ac!Compose, Ac!Step, Ac!Await,
          Ac!Test, Ac!Change, Ac!Maybe, Ac!Tell, Ac!TellAwaited, Ac!Attempt, Ac!Poll, Ac!Broken
  <1>1. Fits("SEND_TOKEN", Ac!SolanaTransfer)
    BY DEF Ac!SolanaTransfer, Ac!IsTransferContent
  <1>2. Fits("EXECUTE_SWAP", Ac!SolanaSwap)
    BY DEF Ac!SolanaSwap, Ac!GetTokenFromWallet, Ac!SwapToken
  <1>3. Fits("EXECUTE_SWAP_DAO", Ac!SwapDao)
    BY DEF Ac!SwapDao, Ac!PromptConfirmation
  <1>4. Fits("CREATE_AND_BUY_TOKEN", Ac!PumpFun)
    BY DEF Ac!PumpFun, Ac!IsCreateAndBuyContent, Ac!CreateAndBuyToken
  <1>5. Fits("TAKE_ORDER", Ac!TakeOrder)
    BY DEF Ac!TakeOrder
  <1>6. Fits("STARKNET_SEND_TOKEN", Ac!StarknetTransfer)
    BY DEF Ac!StarknetTransfer
  <1>7. Fits("EXECUTE_STARKNET_SWAP", Ac!StarknetSwap)
    BY DEF Ac!StarknetSwap
  <1>8. Fits("DEPLOY_STARKNET_UNRUGGABLE_MEME_TOKEN", Ac!DeployToken)
    BY DEF Ac!DeployToken
  <1>9. Fits("CREATE_SUBDOMAIN", Ac!Subdomain)
    BY DEF Ac!Subdomain
  <1>10. Fits("SEND_CFX", Ac!ConfluxTransfer)
    BY DEF Ac!ConfluxTransfer, Ac!SendCFX
  <1>11. Fits("BRIDGE_SEND_CFX", Ac!ConfluxBridge)
    BY DEF Ac!ConfluxBridge, Ac!BridgeSendCFX
  <1>12. Fits("CONFI_PUMP", Ac!ConfiPump)
    BY DEF Ac!ConfiPump
  <1>13. Fits("CONFI_PUMP_SELL", Ac!ConfiPumpSell)
    BY DEF Ac!ConfiPumpSell
  <1>14. Fits("swap", Ac!EvmSwap)
    BY DEF Ac!EvmSwap
  <1>15. Fits("bridge", Ac!EvmBridge)
    BY DEF Ac!EvmBridge
  <1>16. Fits("transfer", Ac!EvmTransfer)
    BY DEF Ac!EvmTransfer
  <1>17. Fits("GOAT", Ac!Goat)
    BY DEF Ac!Goat, Ac!GenerateParameters, Ac!GenerateResponse
  <1>18. Fits("CREATE_TOKEN", Ac!IcpCreateToken)
    BY DEF Ac!IcpCreateToken, Ac!GenerateTokenLogo, Ac!CreateTokenTransaction
  <1>19. Fits("ZG_UPLOAD", Ac!ZgUpload)
    BY DEF Ac!ZgUpload, Ac!IsUploadContent
  <1>20. Fits("GENERATE_IMAGE", Ac!GenerateImage)
    BY DEF Ac!GenerateImage, Ac!SaveImage
  <1>21. Fits("GENERATE_VIDEO", Ac!VideoGeneration)
    BY DEF Ac!VideoGeneration, Ac!GenerateVideo
  <1>22. Fits("WEB_SEARCH", Ac!WebSearch)
    BY DEF Ac!WebSearch, Ac!GenerateWebSearch
  <1>23. Fits("CREATE_CHARGE", Ac!CoinbaseCharge)
    BY DEF Ac!CoinbaseCharge, Ac!CreateCharge
  <1>24. Fits("GET_ALL_CHARGES", Ac!GetAllCharges)
    BY DEF Ac!GetAllCharges
  <1>25. Fits("GET_CHARGE_DETAILS", Ac!ChargeDetails)
    BY DEF Ac!ChargeDetails, Ac!GetChargeDetails
  <1>26. Fits("SUMMARIZE_CONVERSATION", Ac!Summarize)
    BY DEF Ac!Summarize, Ac!GetDateRange
  <1>27. Fits("CHAT_WITH_ATTACHMENTS", Ac!ChatWithAttachments)
    BY DEF Ac!ChatWithAttachments, Ac!GetAttachmentIds
  <1>28. Fits("TRANSCRIBE_MEDIA", Ac!TranscribeMedia)
    BY DEF Ac!TranscribeMedia, Ac!GetMediaAttachmentId
  <1>29. Fits("DOWNLOAD_MEDIA", Ac!DownloadMedia)
    BY DEF Ac!DownloadMedia, Ac!GetMediaUrl
  <1>30. Fits("JOIN_VOICE", Ac!JoinVoice)
    BY DEF Ac!JoinVoice
  <1>31. Fits("LEAVE_VOICE", Ac!LeaveVoice)
    BY DEF Ac!LeaveVoice
  <1> HIDE DEF Fits
  <1>32. /\ Ac!Names =
               {"SEND_TOKEN", "EXECUTE_SWAP", "EXECUTE_SWAP_DAO", "CREATE_AND_BUY_TOKEN",
                "TAKE_ORDER", "STARKNET_SEND_TOKEN", "EXECUTE_STARKNET_SWAP",
                "DEPLOY_STARKNET_UNRUGGABLE_MEME_TOKEN", "CREATE_SUBDOMAIN", "SEND_CFX",
                "BRIDGE_SEND_CFX", "CONFI_PUMP", "CONFI_PUMP_SELL", "swap", "bridge", "transfer",
                "GOAT", "CREATE_TOKEN", "ZG_UPLOAD", "GENERATE_IMAGE", "GENERATE_VIDEO",
                "WEB_SEARCH", "CREATE_CHARGE", "GET_ALL_CHARGES", "GET_CHARGE_DETAILS",
                "SUMMARIZE_CONVERSATION", "CHAT_WITH_ATTACHMENTS", "TRANSCRIBE_MEDIA",
                "DOWNLOAD_MEDIA", "JOIN_VOICE", "LEAVE_VOICE"}
        /\ Ac!Program["SEND_TOKEN"] = Ac!SolanaTransfer
        /\ Ac!Program["EXECUTE_SWAP"] = Ac!SolanaSwap
        /\ Ac!Program["EXECUTE_SWAP_DAO"] = Ac!SwapDao
        /\ Ac!Program["CREATE_AND_BUY_TOKEN"] = Ac!PumpFun
        /\ Ac!Program["TAKE_ORDER"] = Ac!TakeOrder
        /\ Ac!Program["STARKNET_SEND_TOKEN"] = Ac!StarknetTransfer
        /\ Ac!Program["EXECUTE_STARKNET_SWAP"] = Ac!StarknetSwap
        /\ Ac!Program["DEPLOY_STARKNET_UNRUGGABLE_MEME_TOKEN"] = Ac!DeployToken
        /\ Ac!Program["CREATE_SUBDOMAIN"] = Ac!Subdomain
        /\ Ac!Program["SEND_CFX"] = Ac!ConfluxTransfer
        /\ Ac!Program["BRIDGE_SEND_CFX"] = Ac!ConfluxBridge
        /\ Ac!Program["CONFI_PUMP"] = Ac!ConfiPump
        /\ Ac!Program["CONFI_PUMP_SELL"] = Ac!ConfiPumpSell
        /\ Ac!Program["swap"] = Ac!EvmSwap
        /\ Ac!Program["bridge"] = Ac!EvmBridge
        /\ Ac!Program["transfer"] = Ac!EvmTransfer
        /\ Ac!Program["GOAT"] = Ac!Goat
        /\ Ac!Program["CREATE_TOKEN"] = Ac!IcpCreateToken
        /\ Ac!Program["ZG_UPLOAD"] = Ac!ZgUpload
        /\ Ac!Program["GENERATE_IMAGE"] = Ac!GenerateImage
        /\ Ac!Program["GENERATE_VIDEO"] = Ac!VideoGeneration
        /\ Ac!Program["WEB_SEARCH"] = Ac!WebSearch
        /\ Ac!Program["CREATE_CHARGE"] = Ac!CoinbaseCharge
        /\ Ac!Program["GET_ALL_CHARGES"] = Ac!GetAllCharges
        /\ Ac!Program["GET_CHARGE_DETAILS"] = Ac!ChargeDetails
        /\ Ac!Program["SUMMARIZE_CONVERSATION"] = Ac!Summarize
        /\ Ac!Program["CHAT_WITH_ATTACHMENTS"] = Ac!ChatWithAttachments
        /\ Ac!Program["TRANSCRIBE_MEDIA"] = Ac!TranscribeMedia
        /\ Ac!Program["DOWNLOAD_MEDIA"] = Ac!DownloadMedia
        /\ Ac!Program["JOIN_VOICE"] = Ac!JoinVoice
        /\ Ac!Program["LEAVE_VOICE"] = Ac!LeaveVoice
    BY DEF Ac!Names, Ac!Program
  <1> QED BY <1>1, <1>2, <1>3, <1>4, <1>5, <1>6, <1>7, <1>8, <1>9, <1>10, <1>11, <1>12, <1>13,
         <1>14, <1>15, <1>16, <1>17, <1>18, <1>19, <1>20, <1>21, <1>22, <1>23, <1>24, <1>25,
         <1>26, <1>27, <1>28, <1>29, <1>30, <1>31, <1>32

(* The step the handler is at, and those before it. *)
AtStep == acAt \in 1 .. Len(Ac!Steps)
Before(i) == Ac!Steps[i].op
NothingBroken == AtStep => \A i \in 1 .. acAt - 1 : Ac!Steps[i].op # "broken"
DoneBefore ==
    AtStep => \A i \in 1 .. acAt - 1 :
        Ac!Steps[i].op \in Alters => Ac!Steps[i].what \in acDone

(* Of a handler that tells at once: what is done will be told next. *)
ToldNext ==
    acHandler \notin Ac!AfterThoughts /\ ~acBlurred =>
        /\ acEarlier = {}
        /\ \/ acDone = {}
           \/ acAt = 0 /\ acTold = "good"
           \/ acAt = Len(Ac!Steps) /\ Ac!Now.op = "tell" /\ Ac!Now.what = "good" /\ Ac!Now.fails # "on"

(* The allowance is what this handler has approved, or left by another.    *)
AllowanceIsRight ==
    /\ acAsks = 0 => acAllowance = 0 /\ acAt = 0
    /\ Ac!Running("sell") => acAllowance >= acAmount
    /\ acAsks < 2 /\ AtStep =>
          /\ (\A i \in 1 .. acAt - 1 : Ac!Steps[i].op \notin {"approve", "sell"}) => acAllowance = 0
          /\ Ac!Now.op = "simulate" => acAllowance >= acAmount

NobodyAsked ==
    acAsked = Ac!Nothing =>
        acAt = 0 /\ acTold = "nothing" /\ acDone = {} /\ acEarlier = {} /\ acAsks = 0

ActionsInv ==
    /\ Ac!TypeOK /\ NobodyAsked
    /\ acAsked # Ac!Nothing => acHandler = Ac!Found(acAsked)
    /\ NothingBroken /\ DoneBefore /\ ToldNext /\ AllowanceIsRight
    /\ Ac!GoodMeansDone /\ Ac!EndsWithAWord

(* What every step of a handler does: it goes on, when the step is not     *)
(* broken and has changed what it should; it tells what it should, or that *)
(* something failed; and unless an answer is lost it goes on after every   *)
(* change, and after every message.                                        *)
Onward == acAt' = IF acAt = Len(Ac!Steps) THEN 0 ELSE acAt + 1
Speaking == Speaks(Ac!Program[acHandler])
Outcome ==
    LET n == Len(Ac!Steps) step == Ac!Now IN
    /\ UNCHANGED <<acAsked, acHandler, acAsks, acAmount, acEarlier>>
    /\ acAt \in 1 .. n + 1 /\ acAlive
    /\ acAt' \in 0 .. n + 1
    /\ acAt' \in 1 .. n => /\ acAt' = acAt + 1 /\ acAt # n + 1
                           /\ step.op # "broken"
                           /\ step.op \in Alters => step.what \in acDone'
    /\ acDone \subseteq acDone'
    /\ \/ acTold' = acTold
       \/ acTold' = "bad" /\ acAt = n + 1 /\ acAt' = 0
       \/ acAt # n + 1 /\ step.op = "tell" /\ acTold' = step.what
    /\ ~acBlurred' =>
          /\ ~acBlurred
          /\ \/ acDone' = acDone
             \/ acAt # n + 1 /\ step.op \in Alters \cup {"maybe"} /\ Onward
          /\ acAt # n + 1 /\ step.op = "tell" =>
                acTold' = step.what /\ (Onward \/ step.fails = "on")
    /\ acAt' = 0 /\ acAlive' /\ ~acThrown' /\ Speaking =>
          \/ acTold' \in {"bad", "good"}
          \/ acAt = n /\ step.op \notin {"tell", "broken"}

LEMMA HandlerFits ==
    ASSUME Ac!TypeOK
    PROVE  /\ Fits(acHandler, Ac!Program[acHandler])
           /\ Ac!Steps = Ac!Program[acHandler].steps
           /\ Len(Ac!Steps) \in Nat \ {0}
  BY ProgramsFit DEF Ac!TypeOK, Ac!Steps, Fits, WellFormed

LEMMA StepOfHandler ==
    ASSUME Ac!TypeOK, AtStep
    PROVE  /\ Ac!Now.op \in Ops
           /\ Ac!Now.op = "tell" => /\ Ac!Now.what \in {"note", "bad", "good"}
                                    /\ Ac!Now.fails \in {"down", "out", "on"}
           /\ Speaking => /\ \/ Ac!Now.fails \in {"out", "bad"}
                             \/ Ac!Now.fails = "catch" /\ Ac!Program[acHandler].caught = "bad"
                             \/ Ac!Now.op = "tell" /\ Ac!Now.fails = "down"
                          /\ NothingBroken /\ acAt = Len(Ac!Steps) /\ Ac!Now.op = "tell" =>
                                Ac!Now.what \in {"bad", "good"}
  <1> DEFINE p == Ac!Program[acHandler]
  <1>1. WellFormed(p) /\ Ac!Steps = p.steps /\ Len(p.steps) \in Nat \ {0}
        /\ acAt \in 1 .. Len(p.steps) /\ Ac!Now = p.steps[acAt]
    BY HandlerFits DEF Fits, AtStep, Ac!Now
  <1> HIDE DEF p
  <1>2. /\ Ac!Now.op \in Ops
        /\ Ac!Now.op = "tell" => /\ Ac!Now.what \in {"note", "bad", "good"}
                                 /\ Ac!Now.fails \in {"down", "out", "on"}
    BY <1>1 DEF WellFormed
  <1>3. Speaking <=> Speaks(p)
    BY DEF Speaking, p
  <1>4. ASSUME Speaks(p)
        PROVE  \/ Ac!Now.fails \in {"out", "bad"}
               \/ Ac!Now.fails = "catch" /\ p.caught = "bad"
               \/ Ac!Now.op = "tell" /\ Ac!Now.fails = "down"
    BY <1>1, <1>4 DEF Speaks
  <1>5. ASSUME Speaks(p), NothingBroken, acAt = Len(p.steps), Ac!Now.op = "tell"
        PROVE  Ac!Now.what \in {"bad", "good"}
    BY <1>1, <1>5 DEF Speaks, NothingBroken, AtStep
  <1> QED BY <1>1, <1>2, <1>3, <1>4, <1>5 DEF p

LEMMA Passing ==
    ASSUME Ac!TypeOK, AtStep, Ac!Passed
    PROVE  /\ acAt' \in 0 .. Len(Ac!Steps) + 1 /\ Onward /\ acThrown' = acThrown
           /\ acAt' \in 1 .. Len(Ac!Steps) => acAt' = acAt + 1
           /\ acAt' = 0 => acAt = Len(Ac!Steps)
  BY HandlerFits DEF AtStep, Ac!Passed, Onward

LEMMA Leaving ==
    ASSUME Ac!TypeOK, AtStep, Ac!Left
    PROVE  /\ acAt' \in {0, Len(Ac!Steps) + 1}
           /\ acAt' = 0 /\ Speaking => acThrown' \/ Ac!Now.op = "tell"
           /\ Ac!Now.fails = "out" => acThrown'
  <1>1. Len(Ac!Steps) + 1 # 0
    BY HandlerFits
  <1>2. /\ acAt' = IF (Ac!Now.fails = "bad") \/ (Ac!Now.fails = "catch" /\ Ac!Program[acHandler].caught = "bad")
                  THEN Len(Ac!Steps) + 1 ELSE 0
        /\ acThrown' = (Ac!Now.fails = "out")
    BY DEF Ac!Left, Ac!Catching
  <1> QED BY <1>1, <1>2, StepOfHandler

LEMMA ActionsOutcome ==
    ASSUME ActionsInv, Ac!Go
    PROVE  Outcome
  <1> DEFINE n == Len(Ac!Steps)
  <1>1. Ac!TypeOK /\ n \in Nat \ {0} /\ acAt \in 0 .. n + 1 /\ NothingBroken
    BY HandlerFits DEF ActionsInv, Ac!TypeOK, Ac!Catching
  <1>2. \A op : Ac!Running(op) => AtStep /\ acAlive /\ acAt # n + 1 /\ Ac!Now.op = op /\ acAt \in 1 .. n + 1
    BY <1>1 DEF Ac!Running, AtStep
  <1>3. n + 1 \notin 0 .. n /\ n + 1 # 0 /\ 0 \notin 1 .. n /\ 0 \in 0 .. n + 1 /\ n + 1 \in 0 .. n + 1
        /\ n + 1 \notin 1 .. n /\ n + 1 \in 1 .. n + 1
    BY <1>1
  <1> USE <1>1, <1>2, <1>3, Passing, Leaving, StepOfHandler DEF Ac!Same, Alters, Outcome, Ops
  <1> HIDE DEF n
  <1>4. CASE Ac!Looked
    BY <1>4 DEF Ac!Looked, n
  <1>5. CASE Ac!Skipped
    BY <1>5 DEF Ac!Skipped, n
  <1>6. CASE Ac!BrokenOff
    BY <1>6 DEF Ac!BrokenOff, n
  <1>7. CASE Ac!Changed
    BY <1>7 DEF Ac!Changed, n
  <1>8. CASE Ac!Told
    BY <1>8 DEF Ac!Told, n, Onward
  <1>9. CASE Ac!Apologize
    <2>1. acAt = n + 1 /\ acAt' = 0 /\ acAlive
      BY <1>9 DEF Ac!Apologize, Ac!Catching, n
    <2>2. /\ UNCHANGED <<acAsked, acHandler, acAsks, acAmount, acEarlier, acDone>>
          /\ \/ acTold' = "bad" /\ acBlurred' = acBlurred
             \/ acTold' = acTold /\ acBlurred' = TRUE /\ acAlive' = FALSE
      BY <1>9 DEF Ac!Apologize
    <2> QED BY <2>1, <2>2 DEF n
  <1>10. CASE Ac!EnsureAllowance
    BY <1>10 DEF Ac!EnsureAllowance, n
  <1>11. CASE Ac!Simulate
    BY <1>11 DEF Ac!Simulate, n
  <1>12. CASE Ac!Sell
    BY <1>12 DEF Ac!Sell, n
  <1> QED BY <1>4, <1>5, <1>6, <1>7, <1>8, <1>9, <1>10, <1>11, <1>12 DEF Ac!Go

(* Approvals and sales, and the types of what Outcome does not speak of. *)
LEMMA ActionsAllowance ==
    ASSUME Ac!ActionsAssumption, ActionsInv, Ac!Go
    PROVE  /\ {acThrown', acBlurred', acAlive'} \subseteq BOOLEAN
           /\ acRefusals' \in 0 .. MaxRefusals
           /\ acAllowance' \in 0 .. 2
           /\ AllowanceIsRight'
  <1> DEFINE n == Len(Ac!Steps)
  <1>1. /\ Ac!TypeOK /\ n \in Nat \ {0} /\ acAt \in 0 .. n + 1 /\ AllowanceIsRight /\ Outcome
        /\ acAmount \in 1 .. 2 /\ acAllowance \in 0 .. 2 /\ acRefusals \in 0 .. MaxRefusals
        /\ acAsks \in Nat
    BY HandlerFits, ActionsOutcome DEF ActionsInv, Ac!TypeOK, Ac!Catching, Ac!ActionsAssumption
  <1>2. \A i \in 1 .. n :
            /\ Ac!Steps[i].op = "simulate" => i - 1 \in 1 .. i /\ Ac!Steps[i - 1].op = "approve"
            /\ Ac!Steps[i].op = "sell" => i - 1 \in 1 .. i /\ Ac!Steps[i - 1].op = "simulate"
            /\ Ac!Steps[i].op = "approve" =>
                  \A k \in 1 .. i - 1 : Ac!Steps[k].op \notin {"approve", "sell"}
    BY <1>1, HandlerFits DEF Fits, ApprovedOnce
  <1>3. Ac!Steps' = Ac!Steps /\ acAmount' = acAmount /\ acAsks' = acAsks
    BY <1>1 DEF Outcome, Ac!Steps
  <1>4. acAt' \in 1 .. n => acAt' = acAt + 1 /\ acAt \in 1 .. n
    BY <1>1 DEF Outcome
  <1>5. {acThrown', acBlurred', acAlive'} \subseteq BOOLEAN
    <2>1. acThrown \in BOOLEAN /\ acBlurred \in BOOLEAN /\ acAlive \in BOOLEAN
      BY <1>1 DEF Ac!TypeOK
    <2>2. /\ acThrown' = acThrown \/ acThrown' = (Ac!Now.fails = "out")
          /\ acBlurred' = acBlurred \/ acBlurred' = TRUE
          /\ acAlive' = acAlive \/ acAlive' = FALSE
      BY DEF Ac!Go, Ac!Looked, Ac!Skipped, Ac!BrokenOff, Ac!Changed, Ac!Told, Ac!Apologize,
             Ac!EnsureAllowance, Ac!Simulate, Ac!Sell, Ac!Passed, Ac!Left
    <2> QED BY <2>1, <2>2
  <1>6. acRefusals' \in 0 .. MaxRefusals
    <2>1. \/ acRefusals' = acRefusals
          \/ acRefusals < MaxRefusals /\ acRefusals' = acRefusals + 1
      BY DEF Ac!Go, Ac!Looked, Ac!Skipped, Ac!BrokenOff, Ac!Changed, Ac!Told, Ac!Apologize,
             Ac!EnsureAllowance, Ac!Simulate, Ac!Sell
    <2> QED BY <1>1, <2>1 DEF Ac!ActionsAssumption
  <1>7. \/ /\ acAllowance' = acAllowance
           /\ acAt' \in 1 .. n /\ Ac!Now.op \in {"approve", "simulate"} => acAllowance >= acAmount
        \/ /\ acAt \in 1 .. n /\ Ac!Now.op = "approve"
           /\ acAllowance < acAmount /\ acAllowance' = acAmount - acAllowance
        \/ acAt \in 1 .. n /\ Ac!Now.op = "sell" /\ acAlive /\ acAllowance' = acAllowance - acAmount
    <2>1. ASSUME AtStep, Ac!Left PROVE acAt' \notin 1 .. n
      BY <1>1, <2>1, Leaving
    <2>2. CASE Ac!EnsureAllowance
      BY <2>1, <2>2 DEF Ac!EnsureAllowance, Ac!Running, AtStep, Ac!Approved
    <2>3. CASE Ac!Simulate
      BY <2>1, <2>3 DEF Ac!Simulate, Ac!Running, AtStep
    <2>4. CASE Ac!Sell
      BY <2>1, <2>4 DEF Ac!Sell, Ac!Running, AtStep
    <2>5. CASE Ac!Looked \/ Ac!Skipped \/ Ac!BrokenOff \/ Ac!Changed \/ Ac!Told
      BY <2>5 DEF Ac!Looked, Ac!Skipped, Ac!BrokenOff, Ac!Changed, Ac!Told, Ac!Running
    <2>6. CASE Ac!Apologize
      <3>1. acAt' = 0 /\ acAllowance' = acAllowance
        BY <2>6 DEF Ac!Apologize
      <3> QED BY <1>1, <3>1
    <2> QED BY <2>2, <2>3, <2>4, <2>5, <2>6 DEF Ac!Go
  <1> DEFINE op(i) == Ac!Steps[i].op
  <1>8. Ac!Now.op = op(acAt) /\ (Ac!Now.op)' = Ac!Steps[acAt'].op /\ (AtStep <=> acAt \in 1 .. n)
        /\ (AtStep' <=> acAt' \in 1 .. n)
    BY <1>3 DEF Ac!Now, AtStep
  <1>9. acAllowance' \in 0 .. 2 /\ (acAsks' = 0 => acAllowance' = 0 /\ acAt' = 0)
    <2>1. acAt \in 1 .. n /\ Ac!Now.op = "sell" /\ acAlive => acAllowance >= acAmount
      BY <1>1 DEF AllowanceIsRight, Ac!Running
    <2>2. acAsks # 0
      BY <1>1 DEF AllowanceIsRight, Outcome
    <2> QED BY <1>1, <1>3, <1>7, <2>1, <2>2
  <1>10. Ac!Running("sell")' => acAllowance' >= acAmount'
    <2> SUFFICES ASSUME acAt' \in 1 .. n, Ac!Steps[acAt'].op = "sell"
                 PROVE  acAllowance' >= acAmount
      BY <1>3, <1>8 DEF Ac!Running
    <2>1. acAt \in 1 .. n /\ acAt' = acAt + 1 /\ op(acAt) = "simulate"
      BY <1>1, <1>2, <1>4
    <2> QED BY <1>7, <1>8, <2>1
  <1>11. ASSUME acAsks' < 2, AtStep'
         PROVE  /\ (\A i \in 1 .. acAt' - 1 : op(i) \notin {"approve", "sell"}) => acAllowance' = 0
                /\ (Ac!Now.op)' = "simulate" => acAllowance' >= acAmount
    <2>1. acAt \in 1 .. n /\ acAt' = acAt + 1 /\ acAsks < 2
      BY <1>3, <1>4, <1>8, <1>11
    <2>2. (\A i \in 1 .. acAt - 1 : op(i) \notin {"approve", "sell"}) => acAllowance = 0
      BY <1>1, <1>8, <2>1 DEF AllowanceIsRight
    <2>3. ASSUME \A i \in 1 .. acAt' - 1 : op(i) \notin {"approve", "sell"}
          PROVE  acAllowance' = 0
      <3>1. acAt \in 1 .. acAt' - 1 /\ \A i \in 1 .. acAt - 1 : i \in 1 .. acAt' - 1
        BY <1>1, <2>1
      <3> QED BY <1>7, <1>8, <2>2, <2>3, <3>1
    <2>4. ASSUME (Ac!Now.op)' = "simulate"
          PROVE  acAllowance' >= acAmount
      <3>1. op(acAt) = "approve"
        BY <1>1, <1>2, <1>8, <1>11, <2>1, <2>4
      <3>2. acAllowance = 0
        BY <1>2, <2>1, <2>2, <3>1
      <3> QED BY <1>1, <1>7, <1>8, <1>11, <2>1, <3>1, <3>2
    <2> QED BY <2>3, <2>4
  <1> QED BY <1>3, <1>5, <1>6, <1>9, <1>10, <1>11 DEF AllowanceIsRight

LEMMA ActionsGo ==
    ASSUME Ac!ActionsAssumption, ActionsInv, Ac!Go
    PROVE  ActionsInv'
  <1> DEFINE n == Len(Ac!Steps)
             step == Ac!Now
  <1>1. /\ Ac!TypeOK /\ n \in Nat \ {0} /\ acAt \in 0 .. n + 1 /\ acHandler \in Ac!Names
        /\ acTold \in {"nothing", "note", "bad", "good"} /\ acAsks \in Nat
    BY HandlerFits DEF ActionsInv, Ac!TypeOK, Ac!Catching, Ac!ActionsAssumption
  <1>2. /\ UNCHANGED <<acAsked, acHandler, acAsks, acAmount, acEarlier>>
        /\ acAt \in 1 .. n + 1 /\ acAlive
        /\ acAt' \in 0 .. n + 1
        /\ acAt' \in 1 .. n => /\ acAt' = acAt + 1 /\ acAt # n + 1
                               /\ step.op # "broken"
                               /\ step.op \in Alters => step.what \in acDone'
        /\ acDone \subseteq acDone'
        /\ \/ acTold' = acTold
           \/ acTold' = "bad" /\ acAt = n + 1 /\ acAt' = 0
           \/ acAt # n + 1 /\ step.op = "tell" /\ acTold' = step.what
    BY ActionsOutcome DEF Outcome
  <1>3. /\ Ac!Steps' = Ac!Steps /\ Ac!Purpose' = Ac!Purpose
        /\ (AtStep <=> acAt \in 1 .. n) /\ (AtStep' <=> acAt' \in 1 .. n)
        /\ acAt # n + 1 => AtStep /\ step = Ac!Steps[acAt]
    BY <1>1, <1>2 DEF Ac!Steps, Ac!Purpose, AtStep, Ac!Now
  <1>4. acTold' \in {"nothing", "note", "bad", "good"}
    BY <1>1, <1>2, <1>3, StepOfHandler
  <1>5. Ac!TypeOK'
    <2>1. Ac!Catching' = n + 1
      BY <1>3 DEF Ac!Catching
    <2> QED BY <1>1, <1>2, <1>4, <2>1, ActionsAllowance DEF Ac!TypeOK
  <1>6. NobodyAsked' /\ acAsked' # Ac!Nothing /\ acHandler' = Ac!Found(acAsked')
    <2>1. acAsked # Ac!Nothing
      BY <1>1, <1>2 DEF ActionsInv, NobodyAsked
    <2> QED BY <1>2, <2>1 DEF ActionsInv, NobodyAsked
  <1>7. NothingBroken' /\ DoneBefore'
    <2> SUFFICES ASSUME acAt' \in 1 .. n, NEW i \in 1 .. acAt' - 1
                 PROVE  /\ Ac!Steps[i].op # "broken"
                        /\ Ac!Steps[i].op \in Alters => Ac!Steps[i].what \in acDone'
      BY <1>3 DEF NothingBroken, DoneBefore
    <2>1. acAt' = acAt + 1 /\ AtStep /\ (i \in 1 .. acAt - 1 \/ i = acAt)
      BY <1>1, <1>2, <1>3
    <2>2. CASE i = acAt
      BY <1>2, <1>3, <2>1, <2>2
    <2>3. CASE i \in 1 .. acAt - 1
      BY <1>2, <2>1, <2>3 DEF ActionsInv, NothingBroken, DoneBefore
    <2> QED BY <2>1, <2>2, <2>3
  <1>8. Ac!GoodMeansDone'
    <2> SUFFICES ASSUME acTold' = "good", NEW w \in Ac!Purpose PROVE w \in acDone'
      BY <1>3 DEF Ac!GoodMeansDone
    <2>1. CASE acTold = "good"
      BY <1>2, <2>1 DEF ActionsInv, Ac!GoodMeansDone
    <2>2. CASE acTold # "good"
      <3>1. AtStep /\ step = Ac!Steps[acAt] /\ step.op = "tell" /\ step.what = "good"
        BY <1>2, <1>3, <2>2
      <3>2. PICK j \in 1 .. n : Ac!Steps[j].op \in Alters /\ Ac!Steps[j].what = w
        BY DEF Ac!Purpose, Alters
      <3>3. PICK k \in 1 .. acAt - 1 : Ac!Steps[k].op \in Alters /\ Ac!Steps[k].what = w
        BY <1>1, <1>3, <3>1, <3>2, HandlerFits DEF Fits, GoodComesLast
      <3> QED BY <1>2, <3>1, <3>3 DEF ActionsInv, DoneBefore
    <2> QED BY <2>1, <2>2
  <1>9. ToldNext'
    <2> SUFFICES ASSUME acHandler \notin Ac!AfterThoughts, ~acBlurred', acDone' # {}
                 PROVE  \/ acAt' = 0 /\ acTold' = "good"
                        \/ /\ acAt' = n /\ Ac!Steps[n].op = "tell" /\ Ac!Steps[n].what = "good"
                           /\ Ac!Steps[n].fails # "on"
      <3>1. ~acBlurred' /\ acHandler \notin Ac!AfterThoughts => acEarlier = {}
        BY ActionsOutcome DEF Outcome, ActionsInv, ToldNext
      <3> QED BY <1>2, <1>3, <3>1 DEF ToldNext, Ac!Now
    <2>1. /\ ~acBlurred
          /\ \/ acDone' = acDone
             \/ acAt # n + 1 /\ step.op \in Alters \cup {"maybe"} /\ Onward
          /\ acAt # n + 1 /\ step.op = "tell" =>
                acTold' = step.what /\ (Onward \/ step.fails = "on")
      BY ActionsOutcome DEF Outcome
    <2>2. CASE acDone' # acDone
      <3>1. AtStep /\ step = Ac!Steps[acAt] /\ step.op \in Alters \cup {"maybe"} /\ Onward
        BY <1>3, <2>1, <2>2
      <3>2. ~ \E k \in 1 .. acAt - 1 : Ac!Steps[k].op = "broken"
        BY <3>1 DEF ActionsInv, NothingBroken
      <3>3. /\ acAt + 1 = n
            /\ Ac!Steps[n].op = "tell" /\ Ac!Steps[n].what = "good" /\ Ac!Steps[n].fails # "on"
        BY <1>1, <1>3, <3>1, <3>2, HandlerFits DEF Fits, ToldAtOnce
      <3> QED BY <1>1, <1>2, <3>1, <3>3 DEF Onward
    <2>3. CASE acDone' = acDone
      <3>1. acAt = n /\ step.op = "tell" /\ step.what = "good" /\ step.fails # "on"
        BY <1>2, <2>1, <2>3 DEF ActionsInv, ToldNext
      <3> QED BY <1>1, <2>1, <3>1 DEF Onward
    <2> QED BY <2>2, <2>3
  <1>10. Ac!EndsWithAWord'
    <2> SUFFICES ASSUME acAt' = 0, acAlive', ~acThrown', acHandler \notin Ac!Silent
                 PROVE  acTold' \in {"bad", "good"}
      BY <1>2 DEF Ac!EndsWithAWord
    <2>1. Speaks(Ac!Program[acHandler]) /\ Speaking
      BY HandlerFits, <1>1 DEF Fits, Speaking
    <2>2. \/ acTold' \in {"bad", "good"}
          \/ acAt = n /\ step.op \notin {"tell", "broken"}
      BY <2>1, ActionsOutcome DEF Outcome
    <2>3. ASSUME acAt = n, step.op \notin {"tell", "broken"}
          PROVE  FALSE
      <3>1. n \in 1 .. n /\ AtStep /\ step = Ac!Steps[n]
        BY <1>1, <1>3, <2>3
      <3>2. PICK k \in 1 .. n : Ac!Steps[k].op = "broken"
        BY <1>1, <2>1, <2>3, <3>1, HandlerFits DEF Speaks
      <3>3. k \in 1 .. acAt - 1
        BY <1>1, <2>3, <3>1, <3>2
      <3> QED BY <3>1, <3>2, <3>3 DEF ActionsInv, NothingBroken
    <2> QED BY <2>2, <2>3
  <1> QED BY <1>5, <1>6, <1>7, <1>8, <1>9, <1>10, ActionsAllowance DEF ActionsInv

LEMMA ActionsAsk ==
    ASSUME Ac!ActionsAssumption, ActionsInv, Ac!Ask
    PROVE  ActionsInv'
  <1>1. /\ acAsked' \in Ac!Names /\ acHandler' = Ac!Found(acAsked') /\ acHandler' \in Ac!Names
        /\ acAsked' # Ac!Nothing
        /\ acAsked # Ac!Nothing => acAsked' = acAsked /\ acHandler' = acHandler
    BY DEF Ac!Ask, ActionsInv, Ac!TypeOK, Ac!Found, Ac!Names, Ac!Program, Ac!Nothing
  <1>2. /\ acAt' = 1 /\ acTold' = "nothing" /\ acThrown' = FALSE /\ acDone' = {}
        /\ acEarlier' = acEarlier \cup acDone
        /\ UNCHANGED <<acBlurred, acAllowance, acRefusals, acAlive>>
        /\ acAsks' = acAsks + 1 /\ acAsks < MaxAsks /\ acAsks \in Nat
        /\ acAmount' \in 1 .. 2 /\ acAllowance \in 0 .. 2
        /\ acAt = 0 /\ (acAsked = Ac!Nothing \/ acTold # "good")
    BY DEF Ac!Ask, ActionsInv, Ac!TypeOK, Ac!ActionsAssumption
  <1>3. /\ (Len(Ac!Steps) \in Nat \ {0})'
        /\ WellFormed(Ac!Program[acHandler])'
        /\ Fits(acHandler, Ac!Program[acHandler])'
    BY <1>1, ProgramsFit DEF Fits, WellFormed, Ac!Steps
  <1>4. Ac!TypeOK'
    <2>1. /\ {acThrown', acBlurred', acAlive'} \subseteq BOOLEAN
          /\ acRefusals' \in 0 .. MaxRefusals
      BY <1>2 DEF ActionsInv, Ac!TypeOK
    <2>2. acAsks' \in 0 .. MaxAsks
      BY <1>2 DEF Ac!ActionsAssumption
    <2>3. acAt' \in 0 .. Ac!Catching'
      BY <1>2, <1>3 DEF Ac!Catching
    <2> QED BY <1>1, <1>2, <2>1, <2>2, <2>3 DEF Ac!TypeOK
  <1>5. NobodyAsked' /\ (acAsked' # Ac!Nothing => acHandler' = Ac!Found(acAsked'))
    BY <1>1 DEF NobodyAsked
  <1>6. NothingBroken' /\ DoneBefore' /\ Ac!GoodMeansDone' /\ Ac!EndsWithAWord'
    BY <1>2 DEF NothingBroken, DoneBefore, Ac!GoodMeansDone, Ac!EndsWithAWord
  <1>7. ToldNext'
    <2>1. Len(Ac!Steps) # 0
      BY HandlerFits DEF ActionsInv
    <2>2. ASSUME acHandler' \notin Ac!AfterThoughts, ~acBlurred
          PROVE  acEarlier = {} /\ acDone = {}
      BY <1>1, <1>2, <2>1, <2>2 DEF ActionsInv, ToldNext, NobodyAsked
    <2> QED BY <1>2, <2>2 DEF ToldNext
  <1>8. AllowanceIsRight'
    <2>1. acAsks' < 2 => acAllowance' = 0
      BY <1>2 DEF ActionsInv, AllowanceIsRight
    <2>2. acAsks' # 0
      BY <1>2
    <2>3. ~Ac!Running("sell")' /\ (AtStep' => (Ac!Now.op)' # "simulate")
      <3>1. acAt' \in 1 .. Len(Ac!Steps)'
        BY <1>2, <1>3
      <3>2. Ac!Steps'[1].op \notin {"sell", "simulate"}
        BY <1>3 DEF Fits, ApprovedOnce, Ac!Steps
      <3> QED BY <1>2, <3>1, <3>2 DEF Ac!Running, Ac!Now
    <2> QED BY <2>1, <2>2, <2>3 DEF AllowanceIsRight
  <1> QED BY <1>4, <1>5, <1>6, <1>7, <1>8 DEF ActionsInv

LEMMA ActionsSpec == ASSUME Ac!ActionsAssumption PROVE Ac!Init /\ [][Ac!Next]_Ac!vars => []ActionsInv
  <1>1. Ac!Init => ActionsInv
    <2> SUFFICES ASSUME Ac!Init PROVE ActionsInv
      OBVIOUS
    <2>1. "TAKE_ORDER" \in Ac!Names /\ acHandler = "TAKE_ORDER"
      BY DEF Ac!Names, Ac!Program, Ac!Init
    <2>2. /\ acAsked = Ac!Nothing /\ acAt = 0 /\ acTold = "nothing" /\ acThrown = FALSE
          /\ acDone = {} /\ acEarlier = {} /\ acBlurred = FALSE
          /\ acAllowance = 0 /\ acAmount = 1 /\ acAsks = 0 /\ acRefusals = 0 /\ acAlive = TRUE
      BY DEF Ac!Init
    <2>3. Len(Ac!Steps) \in Nat \ {0}
      BY <2>1, ProgramsFit DEF Ac!Steps, Fits, WellFormed
    <2>4. Ac!TypeOK
      <3>1. 0 \in 0 .. Ac!Catching /\ 0 \in 0 .. MaxAsks /\ 0 \in 0 .. MaxRefusals
        BY <2>3 DEF Ac!Catching, Ac!ActionsAssumption
      <3>2. {acThrown, acBlurred, acAlive} \subseteq BOOLEAN
        BY <2>2
      <3>3. /\ acAsked \in Ac!Names \cup {Ac!Nothing} /\ acHandler \in Ac!Names
            /\ acTold \in {"nothing", "note", "bad", "good"}
        BY <2>1, <2>2
      <3>4. acAllowance \in 0 .. 2 /\ acAmount \in 1 .. 2
        BY <2>2
      <3> QED BY <2>2, <3>1, <3>2, <3>3, <3>4 DEF Ac!TypeOK
    <2>5. NobodyAsked /\ NothingBroken /\ DoneBefore /\ ToldNext /\ AllowanceIsRight
          /\ Ac!GoodMeansDone /\ Ac!EndsWithAWord
      BY <2>2 DEF NobodyAsked, NothingBroken, DoneBefore, ToldNext, AllowanceIsRight, AtStep,
                  Ac!Running, Ac!GoodMeansDone, Ac!EndsWithAWord
    <2> QED BY <2>2, <2>4, <2>5 DEF ActionsInv
  <1>2. ActionsInv /\ [Ac!Next]_Ac!vars => ActionsInv'
    <2>1. ActionsInv /\ Ac!Next => ActionsInv'
      BY ActionsGo, ActionsAsk DEF Ac!Next
    <2>2. ActionsInv /\ UNCHANGED Ac!vars => ActionsInv'
      BY DEF Ac!vars, ActionsInv, Ac!TypeOK, NobodyAsked, NothingBroken, DoneBefore, ToldNext,
             AllowanceIsRight, AtStep, Ac!Running, Ac!GoodMeansDone, Ac!Purpose,
             Ac!EndsWithAWord, Ac!Now, Ac!Steps, Ac!Catching
    <2> QED BY <2>1, <2>2
  <1> QED BY <1>1, <1>2, PTL

ActionsKeepTheirWord ==
    Ac!GoodMeansDone /\ Ac!ChangesAreTold /\ Ac!EndsWithAWord /\ Ac!ShortAfterFailure

LEMMA ActionsMean == ActionsInv => ActionsKeepTheirWord
  <1> SUFFICES ASSUME ActionsInv PROVE ActionsKeepTheirWord
    OBVIOUS
  <1>1. Ac!TypeOK /\ Len(Ac!Steps) # 0
    BY HandlerFits DEF ActionsInv
  <1>2. Ac!ChangesAreTold
    BY <1>1 DEF ActionsInv, ToldNext, Ac!ChangesAreTold
  <1>3. Ac!ShortAfterFailure
    <2>1. acAllowance \in Int /\ acAmount \in Int /\ acAsks \in Int
      BY <1>1 DEF Ac!TypeOK
    <2> QED BY <2>1 DEF ActionsInv, AllowanceIsRight, AtStep, Ac!Running, Ac!ShortAfterFailure
  <1> QED BY <1>2, <1>3 DEF ActionsInv, ActionsKeepTheirWord

(* Actions.  Whoever is told of success got all of what was asked for; a   *)
(* change goes untold, or is made again, only when an answer was lost or   *)
(* by the handlers known for it; every other handler ends with a word; and *)
(* a sale finds too little allowance only after one that was given up.     *)
THEOREM ActionsTellTheTruth ==
    ASSUME Ac!ActionsAssumption
    PROVE  Ac!Init /\ [][Ac!Next]_Ac!vars => []ActionsKeepTheirWord
  BY ActionsMean, ActionsSpec, PTL

----------------------------------------------------------------------------
(* Haptics.  The call that works on the queue is the only one, has         *)
(* something to work on, and has set the flag.                             *)

Places == {"new", "scanning", "ensured", "start", "moving", "told", "thrown"}
SetupIsRight ==
    /\ haSetup \in {"first", "second", "spawning", "connecting", "scanning", "ready", "failed"}
    /\ haSetup = "first" => haClient = 0
    /\ haSetup = "second" => haClient = 1 /\ haConnected
    /\ haSetup = "scanning" => haConnected
    /\ haSetup \in {"spawning", "connecting", "scanning"} => haClient = 1 /\ haRetries > 0
HapticsInv ==
    /\ Ha!TypeOK /\ SetupIsRight
    /\ haFaults \in Nat /\ haAt \in [Ha!Calls -> Places]
    /\ Ha!QueueHasOneWorker /\ Ha!StopsHaveCause
    /\ Ha!Workers # {} => haQueue # <<>>

LEMMA HapticsPrepare ==
    ASSUME Ha!HapticsAssumption, HapticsInv,
           Ha!Initialize \/ Ha!Spawned \/ Ha!Connect \/ Ha!Scanned \/ Ha!ComeOrGo
    PROVE  HapticsInv'
  <1>1. /\ UNCHANGED <<haQueue, haProcessing, haAt, haDone>>
        /\ haMoving' = haMoving \/ (haFaults' > 0 /\ haMoving' \in BOOLEAN)
        /\ haFaults' \in Nat /\ haFaults' >= haFaults
    <2>1. haFaults \in Nat /\ haMoving \in BOOLEAN
      BY DEF HapticsInv, Ha!TypeOK
    <2>2. haFaults' = haFaults \/ haFaults' = haFaults + 1
      BY DEF Ha!Initialize, Ha!Spawned, Ha!Connect, Ha!Scanned, Ha!ComeOrGo, Ha!Fault
    <2>3. /\ UNCHANGED <<haQueue, haProcessing, haAt, haDone>>
          /\ \/ haMoving' = haMoving
             \/ haFaults' = haFaults + 1 /\ haMoving' \in BOOLEAN
      BY <2>1 DEF Ha!Initialize, Ha!Spawned, Ha!Connect, Ha!Scanned, Ha!ComeOrGo, Ha!Driving,
                  Ha!Fault
    <2> QED BY <2>1, <2>2, <2>3
  <1>2. /\ Ha!QueueHasOneWorker' /\ Ha!StopsHaveCause' /\ (Ha!Workers # {} => haQueue # <<>>)'
        /\ haAt' \in [Ha!Calls -> Places]
    BY <1>1 DEF HapticsInv, Ha!QueueHasOneWorker, Ha!Workers, Ha!StopsHaveCause
  <1>3. /\ haClient \in 0 .. 2 /\ haLinked \in 0 .. haClient /\ haRetries \in 0 .. MaxRetries
        /\ haConnected \in BOOLEAN /\ haPresent \in BOOLEAN /\ haDevices \in BOOLEAN
        /\ haProcessing \in BOOLEAN /\ haMoving \in BOOLEAN /\ haAlive \in BOOLEAN
        /\ SetupIsRight /\ MaxRetries \in Nat \ {0}
    BY DEF HapticsInv, Ha!TypeOK, Ha!HapticsAssumption
  <1>4. /\ haClient' \in 0 .. 2 /\ haLinked' \in 0 .. haClient' /\ haRetries' \in 0 .. MaxRetries
        /\ haConnected' \in BOOLEAN /\ haPresent' \in BOOLEAN /\ haDevices' \in BOOLEAN
        /\ haAlive' \in BOOLEAN
        /\ SetupIsRight'
    <2>1. CASE Ha!Initialize
      BY <1>3, <2>1 DEF Ha!Initialize, SetupIsRight
    <2>2. CASE Ha!Spawned
      BY <1>3, <2>2 DEF Ha!Spawned, SetupIsRight
    <2>3. CASE Ha!Connect
      <3>1. haSetup = "connecting" /\ haClient = 1 /\ haRetries > 0
            /\ UNCHANGED <<haClient, haPresent, haDevices, haAlive>>
        BY <1>3, <2>3 DEF Ha!Connect, SetupIsRight
      <3>2. CASE haLinked' = haClient /\ haConnected' = TRUE /\ haSetup' = "scanning"
                 /\ haRetries' = haRetries
        BY <1>3, <3>1, <3>2 DEF SetupIsRight
      <3>3. CASE Ha!Retry /\ UNCHANGED <<haLinked, haConnected>>
        BY <1>3, <3>1, <3>3 DEF SetupIsRight, Ha!Retry
      <3> QED BY <2>3, <3>2, <3>3 DEF Ha!Connect
    <2>4. CASE Ha!Scanned
      BY <1>3, <2>4 DEF Ha!Scanned, SetupIsRight, Ha!Retry
    <2>5. CASE Ha!ComeOrGo
      BY <1>3, <2>5 DEF Ha!ComeOrGo, SetupIsRight
    <2> QED BY <2>1, <2>2, <2>3, <2>4, <2>5
  <1>5. Ha!TypeOK'
    BY <1>1, <1>3, <1>4 DEF HapticsInv, Ha!TypeOK
  <1> QED BY <1>1, <1>2, <1>4, <1>5 DEF HapticsInv

(* A call moves on: what keeps the queue's promises. *)
LEMMA HapticsCall ==
    ASSUME Ha!HapticsAssumption, HapticsInv, NEW c \in Ha!Calls,
           Ha!Ensure(c) \/ Ha!Scan(c) \/ Ha!Add(c) \/ Ha!Start(c) \/ Ha!Stop(c) \/ Ha!Rotate(c)
    PROVE  HapticsInv'
  <1>1. /\ haQueue \in Seq(Vibrations) /\ haDone \subseteq Vibrations /\ haFaults \in Nat
        /\ haDevices \in BOOLEAN /\ haProcessing \in BOOLEAN /\ haMoving \in BOOLEAN
        /\ haAt \in [Ha!Calls -> Places] /\ Ha!Calls = Vibrations \cup Rotations
        /\ Vibrations \cap Rotations = {}
    BY DEF HapticsInv, Ha!TypeOK, Ha!HapticsAssumption, Ha!Calls
  <1>2. /\ UNCHANGED <<haClient, haLinked, haConnected, haRetries, haSetup, haPresent, haAlive>>
        /\ haFaults' \in Nat /\ haFaults' >= haFaults
        /\ haDevices' \in BOOLEAN
        /\ haAt' \in [Ha!Calls -> Places]
        /\ \A d \in Ha!Calls : d # c => haAt'[d] = haAt[d]
    <2>1. haFaults' = haFaults \/ haFaults' = haFaults + 1
      BY DEF Ha!Ensure, Ha!Scan, Ha!Add, Ha!Start, Ha!Stop, Ha!Rotate, Ha!Throw, Ha!Fault
    <2>2. /\ UNCHANGED <<haClient, haLinked, haConnected, haRetries, haSetup, haPresent, haAlive>>
          /\ haDevices' = haDevices \/ haDevices' = TRUE
          /\ \E a \in Places : haAt' = [haAt EXCEPT ![c] = a]
      BY DEF Ha!Ensure, Ha!Scan, Ha!Add, Ha!Start, Ha!Stop, Ha!Rotate, Ha!Throw, Ha!Same, Places
    <2>3. PICK a \in Places : haAt' = [haAt EXCEPT ![c] = a]
      BY <2>2
    <2>4. haAt' \in [Ha!Calls -> Places] /\ \A d \in Ha!Calls : d # c => haAt'[d] = haAt[d]
      BY <1>1, <2>3
    <2>5. haFaults' \in Nat /\ haFaults' >= haFaults
      BY <1>1, <2>1
    <2> QED BY <1>1, <2>2, <2>4, <2>5
  <1>3. ASSUME /\ haQueue' \in Seq(Vibrations) /\ haDone' \subseteq Vibrations
               /\ haProcessing' \in BOOLEAN /\ haMoving' \in BOOLEAN
               /\ Ha!QueueHasOneWorker' /\ Ha!StopsHaveCause'
               /\ (Ha!Workers # {} => haQueue # <<>>)'
        PROVE  HapticsInv'
    BY <1>1, <1>2, <1>3 DEF HapticsInv, Ha!TypeOK, SetupIsRight
  <1>4. /\ \A v, w \in Ha!Workers : v = w
        /\ Ha!Workers # {} => haProcessing /\ haQueue # <<>>
        /\ haProcessing /\ Ha!Workers = {} => \E v \in Vibrations : haAt[v] = "thrown"
        /\ Ha!Workers = {v \in Vibrations : haAt[v] \in {"start", "moving"}}
        /\ Ha!Workers' = {v \in Vibrations : haAt'[v] \in {"start", "moving"}}
    BY DEF HapticsInv, Ha!QueueHasOneWorker, Ha!Workers
  <1>5. haMoving' = haMoving /\ haAt[c] # "told" /\ haAt'[c] # "moving" => Ha!StopsHaveCause'
    BY <1>1, <1>2 DEF HapticsInv, Ha!StopsHaveCause
  <1>6. CASE Ha!Ensure(c) \/ Ha!Scan(c) \/ Ha!Rotate(c)
    <2>1. /\ UNCHANGED <<haQueue, haProcessing, haMoving, haDone>>
          /\ haAt[c] \in {"new", "scanning", "ensured"}
          /\ \/ haAt'[c] \in {"scanning", "ensured", "thrown"}
             \/ c \in Rotations /\ haAt'[c] = "start"
      BY <1>1, <1>6 DEF Ha!Ensure, Ha!Scan, Ha!Rotate
    <2>2. Ha!Workers' = Ha!Workers
      BY <1>1, <1>2, <1>4, <2>1
    <2>3. Ha!QueueHasOneWorker'
      BY <1>1, <1>2, <1>4, <2>1, <2>2 DEF Ha!QueueHasOneWorker
    <2> QED BY <1>1, <1>3, <1>4, <1>5, <2>1, <2>2, <2>3
  <1>7. CASE Ha!Add(c)
    <2>1. /\ c \in Vibrations /\ haAt[c] = "ensured" /\ haQueue' = Append(haQueue, c)
          /\ haProcessing' = TRUE /\ UNCHANGED <<haMoving, haDone>>
          /\ haAt'[c] = IF haProcessing THEN "told" ELSE "start"
      BY <1>1, <1>7 DEF Ha!Add, Ha!Waits
    <2>2. haQueue' \in Seq(Vibrations) /\ haQueue' # <<>>
      BY <1>1, <2>1, JoinQueue
    <2>3. Ha!QueueHasOneWorker'
      <3>1. CASE haProcessing
        <4>1. Ha!Workers' = Ha!Workers
          BY <1>1, <1>2, <1>4, <2>1, <3>1
        <4> QED BY <1>1, <1>2, <1>4, <2>1, <3>1, <4>1 DEF Ha!QueueHasOneWorker
      <3>2. CASE ~haProcessing
        <4>1. Ha!Workers' = {c}
          BY <1>1, <1>2, <1>4, <2>1, <3>2
        <4> QED BY <2>1, <4>1 DEF Ha!QueueHasOneWorker
      <3> QED BY <3>1, <3>2
    <2> QED BY <1>1, <1>3, <1>5, <2>1, <2>2, <2>3
  <1>8. CASE Ha!Start(c)
    <2>1. /\ haAt[c] = "start" /\ UNCHANGED <<haQueue, haProcessing, haDone>>
          /\ \/ haMoving' = TRUE /\ haAt'[c] = "moving"
             \/ haMoving' = haMoving /\ haAt'[c] = "thrown"
      BY <1>1, <1>8 DEF Ha!Start, Ha!Throw
    <2>2. Ha!StopsHaveCause'
      BY <1>1, <1>5, <2>1 DEF Ha!StopsHaveCause
    <2>3. Ha!Workers' = Ha!Workers \/ (c \in Vibrations /\ Ha!Workers' = {} /\ haAt'[c] = "thrown")
      <3>1. CASE c \in Rotations \/ haAt'[c] = "moving"
        BY <1>1, <1>2, <1>4, <2>1, <3>1
      <3>2. CASE c \in Vibrations /\ haAt'[c] = "thrown"
        <4>1. Ha!Workers = {c}
          BY <1>4, <2>1, <3>2
        <4> QED BY <1>1, <1>2, <1>4, <3>2, <4>1
      <3> QED BY <1>1, <2>1, <3>1, <3>2
    <2>4. Ha!QueueHasOneWorker'
      BY <1>1, <1>2, <1>4, <2>1, <2>3 DEF Ha!QueueHasOneWorker
    <2> QED BY <1>1, <1>3, <1>4, <2>1, <2>2, <2>3, <2>4
  <1>9. CASE Ha!Stop(c)
    <2>1. CASE c \in Rotations
      <3>1. /\ haAt[c] = "moving" /\ UNCHANGED <<haQueue, haProcessing, haDone>>
            /\ \/ haMoving' = FALSE /\ haAt'[c] = "told"
               \/ haMoving' = haMoving /\ haAt'[c] = "thrown"
        BY <1>1, <1>9, <2>1 DEF Ha!Stop, Ha!Throw
      <3>2. Ha!StopsHaveCause'
        BY <1>1, <1>2, <1>5, <2>1, <3>1 DEF Ha!StopsHaveCause
      <3>3. Ha!Workers' = Ha!Workers
        BY <1>1, <1>2, <1>4, <2>1
      <3>4. Ha!QueueHasOneWorker'
        BY <1>1, <1>2, <1>4, <2>1, <3>1, <3>3 DEF Ha!QueueHasOneWorker
      <3> QED BY <1>1, <1>3, <1>4, <3>1, <3>2, <3>3, <3>4
    <2>2. CASE c \in Vibrations
      <3>1. c \notin Rotations /\ haAt[c] = "moving" /\ Ha!Workers = {c} /\ haQueue # <<>>
        BY <1>1, <1>4, <1>9, <2>2 DEF Ha!Stop
      <3>2. \A v \in Vibrations : v # c => haAt'[v] \notin {"start", "moving"}
        BY <1>1, <1>2, <1>4, <3>1
      <3>3. /\ Tail(haQueue) \in Seq(Vibrations) /\ Head(haQueue) \in Vibrations
        BY <1>1, <3>1, HeadTailProperties
      <3>4. CASE /\ haMoving' = FALSE /\ haDone' = haDone \cup {Head(haQueue)}
                 /\ haQueue' = Tail(haQueue) /\ haProcessing' = (haQueue' # <<>>)
                 /\ haAt' = [haAt EXCEPT ![c] = IF haQueue' = <<>> THEN "told" ELSE "start"]
        <4>1. haAt'[c] = IF haQueue' = <<>> THEN "told" ELSE "start"
          BY <1>1, <3>4
        <4>2. Ha!StopsHaveCause'
          BY <3>2, <4>1 DEF Ha!StopsHaveCause
        <4>3. Ha!Workers' = IF haQueue' = <<>> THEN {} ELSE {c}
          BY <1>4, <2>2, <3>2, <4>1
        <4>4. Ha!QueueHasOneWorker'
          BY <3>4, <4>3 DEF Ha!QueueHasOneWorker
        <4> QED BY <1>1, <1>3, <3>3, <3>4, <4>2, <4>3, <4>4
      <3>5. CASE haAt' = [haAt EXCEPT ![c] = "thrown"]
                    /\ UNCHANGED <<haQueue, haProcessing, haMoving, haDone>>
        <4>1. haAt'[c] = "thrown" /\ Ha!Workers' = {}
          BY <1>1, <1>4, <3>2, <3>5
        <4>2. Ha!QueueHasOneWorker'
          BY <2>2, <4>1 DEF Ha!QueueHasOneWorker
        <4> QED BY <1>1, <1>3, <1>5, <3>1, <3>5, <4>1, <4>2
      <3> QED BY <1>9, <3>1, <3>4, <3>5 DEF Ha!Stop, Ha!Throw, Ha!Shifted
    <2> QED BY <1>1, <2>1, <2>2
  <1> QED BY <1>6, <1>7, <1>8, <1>9

LEMMA HapticsSpec ==
    ASSUME Ha!HapticsAssumption
    PROVE  Ha!Init /\ [][Ha!Next]_Ha!vars => []HapticsInv
  <1>1. Ha!Init => HapticsInv
    <2> SUFFICES ASSUME Ha!Init PROVE HapticsInv
      OBVIOUS
    <2>1. Ha!TypeOK /\ SetupIsRight
      <3>1. haQueue \in Seq(Vibrations) /\ 0 \in 0 .. MaxRetries
        BY EmptySeq DEF Ha!Init, Ha!HapticsAssumption
      <3>2. {haConnected, haPresent, haDevices, haProcessing, haMoving, haAlive} \subseteq BOOLEAN
        BY DEF Ha!Init
      <3> QED BY <3>1, <3>2 DEF Ha!Init, Ha!TypeOK, SetupIsRight
    <2>2. Ha!Workers = {} /\ Ha!StopsHaveCause /\ haFaults \in Nat /\ haAt \in [Ha!Calls -> Places]
      BY DEF Ha!Init, Ha!Workers, Ha!StopsHaveCause, Places, Ha!Calls
    <2> QED BY <2>1, <2>2 DEF Ha!Init, HapticsInv, Ha!QueueHasOneWorker
  <1>2. HapticsInv /\ [Ha!Next]_Ha!vars => HapticsInv'
    <2>1. HapticsInv /\ Ha!Next => HapticsInv'
      BY HapticsPrepare, HapticsCall DEF Ha!Next, Ha!Continue
    <2>2. HapticsInv /\ UNCHANGED Ha!vars => HapticsInv'
      BY DEF Ha!vars, HapticsInv, Ha!TypeOK, SetupIsRight, Ha!QueueHasOneWorker, Ha!StopsHaveCause,
             Ha!Workers
    <2> QED BY <2>1, <2>2
  <1> QED BY <1>1, <1>2, PTL

VibrationsTakeTurns == Ha!QueueHasOneWorker /\ Ha!StopsHaveCause

(* Haptics.  One call at most works on the queue of vibrations; the flag   *)
(* is set with nobody at work only after a failure; a vibration stops      *)
(* early only for a fault or a rotation.                                   *)
THEOREM OneVibrationAtATime ==
    ASSUME Ha!HapticsAssumption
    PROVE  Ha!Init /\ [][Ha!Next]_Ha!vars => []VibrationsTakeTurns
  <1>1. HapticsInv => VibrationsTakeTurns
    BY DEF HapticsInv, VibrationsTakeTurns
  <1> QED BY <1>1, HapticsSpec, PTL

----------------------------------------------------------------------------
(* Coinbase.  What was made is at the point of being saved, or was given   *)
(* up, or some seed can be found; who is still to be paid, or would be if the user asked     *)
(* again, was not.                                                         *)

PayoutStages == {"idle", "initialize", "save", "pay", "write", "told"}
TradeStages == {"idle", "initialize", "save", "give", "swap", "told"}
ProviderStages == {"idle", "header", "initialize", "save", "look"}
Stages == PayoutStages \cup TradeStages \cup ProviderStages

KeyTypes ==
    /\ cbSettings \in [id : 0 .. MaxWallets, seed : 0 .. MaxWallets]
    /\ cbFile \in [id : 0 .. MaxWallets, seed : 0 .. MaxWallets]
    /\ cbSeedFile \subseteq Cb!Wallets /\ cbLost \subseteq Cb!Wallets /\ cbMade \in 0 .. MaxWallets
    /\ cbWallet \in [Cb!Jobs -> 0 .. MaxWallets]
StageTypes ==
    /\ cbAt \in [Cb!Jobs -> Stages]
    /\ cbAt["payout"] \in PayoutStages
    /\ cbAt["trade"] \in TradeStages
    /\ cbTold \in [{"payout", "trade"} -> {"nothing", "bad", "good"}]
MoneyTypes ==
    /\ cbTodo \subseteq cbWanted /\ cbWanted \subseteq Recipients
    /\ cbResults \subseteq [recipient : Recipients, status : {"success", "failed"}]
    /\ cbPaid \in [Recipients -> Nat]
    /\ cbGiven \in Nat /\ cbTraded \in Nat /\ cbFaults \in Nat
    /\ cbBlurred \in BOOLEAN /\ cbRefused \in BOOLEAN
CoinbaseTypes == KeyTypes /\ StageTypes /\ MoneyTypes

Saving == {j \in Cb!Jobs : cbAt[j] = "save"}
KeysSafe ==
    /\ \A j \in Saving : cbWallet[j] \in Cb!Wallets
    /\ (\E w \in 1 .. cbMade : w \notin cbLost \cup Cb!Unsaved) => Cb!Kept # {}
    /\ cbFile.id # cbFile.seed => cbFaults > 0

Unpaid(r) == cbPaid[r] = 0
PaidOnce ==
    ~cbRefused /\ ~cbBlurred =>
        \A r \in Recipients :
            /\ cbPaid[r] < 2
            /\ r \in cbTodo => Unpaid(r)
            /\ [recipient |-> r, status |-> "failed"] \in cbResults => Unpaid(r)
            /\ cbAt["payout"] \in Cb!Ends /\ cbTold.payout # "good" /\ r \in cbWanted => Unpaid(r)
PayoutRight ==
    /\ \A x \in cbResults : /\ x.recipient \notin cbTodo
                            /\ x.status = "success" => cbPaid[x.recipient] > 0
    /\ cbAt["payout"] \in {"initialize", "save"} => cbTodo = cbWanted
    /\ PaidOnce
TradeRight ==
    cbGiven > 0 /\ cbTraded = 0 /\ cbAt["trade"] \in Cb!Ends /\ ~cbBlurred => cbTold.trade = "bad"

CoinbaseInv == CoinbaseTypes /\ KeysSafe /\ PayoutRight /\ TradeRight

LEMMA CoinbaseTypesMean == CoinbaseTypes => Cb!TypeOK
  BY DEF CoinbaseTypes, KeyTypes, StageTypes, MoneyTypes, Cb!TypeOK

LEMMA CoinbaseFaults ==
    ASSUME cbFaults \in Nat
    PROVE  Cb!Fault => cbFaults' \in Nat /\ cbFaults' > 0
  BY DEF Cb!Fault

LEMMA CoinbaseKeyTypes ==
    ASSUME Cb!CoinbaseAssumption, CoinbaseTypes, KeysSafe, Cb!Next
    PROVE  KeyTypes'
  <1> USE DEF CoinbaseTypes, KeyTypes, Cb!CoinbaseAssumption, Cb!Money, Cb!Keys
  <1>1. CASE Cb!Restart
    <2>1. Cb!Unsaved \subseteq Cb!Wallets
      BY DEF Cb!Unsaved, Cb!Jobs, KeysSafe, Saving
    <2>2. Cb!Wallets \subseteq 0 .. MaxWallets
      BY DEF Cb!Wallets
    <2> QED BY <1>1, <2>1, <2>2 DEF Cb!Restart
  <1>2. ASSUME NEW j \in Cb!Jobs, Cb!InitializeWallet(j) PROVE KeyTypes'
    <2>1. cbMade < MaxWallets => cbMade + 1 \in 0 .. MaxWallets /\ cbMade + 1 \in Cb!Wallets
      BY DEF Cb!Wallets
    <2> QED BY <1>2, <2>1 DEF Cb!InitializeWallet
  <1>3. ASSUME NEW j \in Cb!Jobs, Cb!SaveKeys(j) PROVE KeyTypes'
    <2>1. cbWallet[j] \in 0 .. MaxWallets /\ cbWallet[j] \in Cb!Wallets
      BY <1>3 DEF Cb!SaveKeys, KeysSafe, Saving
    <2> QED BY <1>3, <2>1 DEF Cb!SaveKeys, Cb!NotSaved
  <1>4. CASE \/ Cb!Header \/ Cb!Looked \/ Cb!PayCharity \/ Cb!Write \/ Cb!Give \/ Cb!Swap
             \/ Cb!Look \/ (\E r \in Recipients : Cb!Pay(r)) \/ (\E j \in Cb!Jobs : Cb!Ask(j))
    <2>1. UNCHANGED <<cbSettings, cbFile, cbSeedFile, cbMade, cbLost, cbWallet>>
      BY <1>4 DEF Cb!Header, Cb!Looked, Cb!PayCharity, Cb!Write, Cb!Give, Cb!Swap, Cb!Look, Cb!Pay,
                  Cb!Ask
    <2> QED BY <2>1
  <1> QED BY <1>1, <1>2, <1>3, <1>4 DEF Cb!Next, Cb!Work

LEMMA CoinbaseStageTypes ==
    ASSUME CoinbaseTypes, Cb!Next
    PROVE  StageTypes'
  <1> USE DEF CoinbaseTypes, StageTypes, Cb!Fail, Stages, PayoutStages, TradeStages, ProviderStages,
          Cb!Jobs, Cb!AfterInitialize
  <1>1. CASE Cb!Restart
    <2>1. cbAt' = [j \in Cb!Jobs |-> "idle"]
          /\ cbTold' = [j \in DOMAIN cbTold |-> IF cbAt[j] \in Cb!Ends THEN cbTold[j] ELSE "nothing"]
      BY <1>1 DEF Cb!Restart
    <2> QED BY <2>1
  <1>2. CASE Cb!Header
    BY <1>2 DEF Cb!Header
  <1>3. CASE Cb!Looked
    BY <1>3 DEF Cb!Looked
  <1>4. CASE Cb!PayCharity
    BY <1>4 DEF Cb!PayCharity
  <1>5. CASE Cb!Write
    BY <1>5 DEF Cb!Write
  <1>6. CASE Cb!Give
    BY <1>6 DEF Cb!Give
  <1>7. CASE Cb!Swap
    BY <1>7 DEF Cb!Swap
  <1>8. CASE Cb!Look
    BY <1>8 DEF Cb!Look
  <1>9. ASSUME NEW j \in Cb!Jobs, Cb!InitializeWallet(j) PROVE StageTypes'
    BY <1>9 DEF Cb!InitializeWallet
  <1>10. ASSUME NEW j \in Cb!Jobs, Cb!SaveKeys(j) PROVE StageTypes'
    BY <1>10 DEF Cb!SaveKeys
  <1>11. ASSUME NEW j \in Cb!Jobs, Cb!Ask(j) PROVE StageTypes'
    BY <1>11 DEF Cb!Ask
  <1>12. ASSUME NEW r \in Recipients, Cb!Pay(r) PROVE StageTypes'
    BY <1>12 DEF Cb!Pay
  <1> QED BY <1>1, <1>2, <1>3, <1>4, <1>5, <1>6, <1>7, <1>8, <1>9, <1>10, <1>11, <1>12 DEF
         Cb!Next, Cb!Work

LEMMA CoinbaseMoneyTypes ==
    ASSUME CoinbaseTypes, Cb!Next
    PROVE  MoneyTypes'
  <1> USE CoinbaseFaults DEF CoinbaseTypes, MoneyTypes, Cb!Money
  <1>1. CASE Cb!Restart
    BY <1>1 DEF Cb!Restart
  <1>2. CASE Cb!Header
    BY <1>2 DEF Cb!Header
  <1>3. CASE Cb!Looked
    BY <1>3 DEF Cb!Looked
  <1>4. CASE Cb!PayCharity
    BY <1>4 DEF Cb!PayCharity
  <1>5. CASE Cb!Write
    BY <1>5 DEF Cb!Write, Cb!AppendToCsv
  <1>6. CASE Cb!Give
    <2>1. cbGiven' \in Nat /\ cbFaults' \in Nat
      BY <1>6 DEF Cb!Give
    <2>2. cbBlurred' \in BOOLEAN
      BY <1>6 DEF Cb!Give
    <2> QED BY <1>6, <2>1, <2>2 DEF Cb!Give
  <1>7. CASE Cb!Swap
    <2>1. cbTraded' \in Nat /\ cbFaults' \in Nat
      BY <1>7 DEF Cb!Swap, Cb!AppendToCsv
    <2>2. cbBlurred' \in BOOLEAN
      BY <1>7 DEF Cb!Swap
    <2> QED BY <1>7, <2>1, <2>2 DEF Cb!Swap
  <1>8. CASE Cb!Look
    BY <1>8 DEF Cb!Look
  <1>9. ASSUME NEW j \in Cb!Jobs, Cb!InitializeWallet(j) PROVE MoneyTypes'
    BY <1>9 DEF Cb!InitializeWallet
  <1>10. ASSUME NEW j \in Cb!Jobs, Cb!SaveKeys(j) PROVE MoneyTypes'
    BY <1>10 DEF Cb!SaveKeys
  <1>11. ASSUME NEW j \in Cb!Jobs, Cb!Ask(j) PROVE MoneyTypes'
    BY <1>11 DEF Cb!Ask, Cb!Failed
  <1>12. ASSUME NEW r \in Recipients, Cb!Pay(r) PROVE MoneyTypes'
    <2>1. cbPaid' \in [Recipients -> Nat] /\ cbFaults' \in Nat
      BY <1>12 DEF Cb!Pay
    <2>2. cbBlurred' \in BOOLEAN
      BY <1>12 DEF Cb!Pay
    <2>3. cbResults' \subseteq [recipient : Recipients, status : {"success", "failed"}]
      BY <1>12 DEF Cb!Pay, Cb!Result
    <2>4. cbTodo' \subseteq cbWanted' /\ UNCHANGED <<cbWanted, cbGiven, cbTraded, cbRefused>>
      BY <1>12 DEF Cb!Pay
    <2> QED BY <2>1, <2>2, <2>3, <2>4
  <1> QED BY <1>1, <1>2, <1>3, <1>4, <1>5, <1>6, <1>7, <1>8, <1>9, <1>10, <1>11, <1>12 DEF
         Cb!Next, Cb!Work

(* The keys.  Most steps neither begin nor end the saving of a wallet. *)
LEMMA KeysRest ==
    ASSUME KeysSafe, UNCHANGED <<cbFile, cbSeedFile, cbMade, cbLost, cbWallet>>, Saving' = Saving,
           cbFaults \in Nat, cbFaults' = cbFaults \/ cbFaults' > 0
    PROVE  KeysSafe'
  <1>1. Cb!Unsaved' = Cb!Unsaved
    BY DEF Cb!Unsaved, Saving
  <1> QED BY <1>1 DEF KeysSafe, Cb!Kept

LEMMA KeysStaySafe ==
    ASSUME Cb!CoinbaseAssumption, CoinbaseTypes, KeysSafe, Cb!Next
    PROVE  KeysSafe'
  <1>1. /\ cbFaults \in Nat /\ cbAt \in [Cb!Jobs -> Stages] /\ cbMade \in 0 .. MaxWallets
        /\ MaxWallets \in Nat /\ cbWallet \in [Cb!Jobs -> 0 .. MaxWallets]
    BY DEF CoinbaseTypes, KeyTypes, StageTypes, MoneyTypes, Cb!CoinbaseAssumption
  <1>2. CASE Cb!Restart
    <2>1. Saving' = {} /\ cbFaults' > 0 /\ UNCHANGED <<cbSeedFile, cbMade, cbWallet>>
      BY <1>1, <1>2, CoinbaseFaults DEF Cb!Restart, Saving
    <2>2. cbFile'.seed = cbFile.seed
      BY <1>2 DEF Cb!Restart, CoinbaseTypes, KeyTypes
    <2>3. cbLost' = cbLost \cup Cb!Unsaved
      BY <1>2 DEF Cb!Restart
    <2> QED BY <2>1, <2>2, <2>3 DEF KeysSafe, Cb!Kept
  <1>3. ASSUME NEW j \in Cb!Jobs, Cb!SaveKeys(j)
        PROVE  KeysSafe'
    <2>1. PICK id, seed, apart \in BOOLEAN :
              /\ cbFile' = [id |-> IF id THEN cbWallet[j] ELSE cbFile.id,
                            seed |-> IF seed THEN cbWallet[j] ELSE cbFile.seed]
              /\ cbSeedFile' = IF (~id \/ ~seed) /\ apart THEN cbSeedFile \cup {cbWallet[j]} ELSE cbSeedFile
              /\ IF id /\ seed THEN cbFaults' = cbFaults ELSE Cb!Fault
              /\ \/ /\ ~id \/ ~seed => apart
                    /\ cbAt' = [cbAt EXCEPT ![j] = Cb!AfterInitialize(j)] /\ cbLost' = cbLost
                 \/ /\ cbLost' = cbLost \cup {cbWallet[j]} /\ cbAt' = [cbAt EXCEPT ![j] = "idle"]
      BY <1>3 DEF Cb!SaveKeys, Cb!NotSaved, Cb!Fail
    <2>2. /\ j \in Saving /\ cbWallet[j] \in Cb!Wallets /\ UNCHANGED <<cbMade, cbWallet>>
          /\ Saving' = Saving \ {j}
      <3>1. Cb!AfterInitialize(j) # "save"
        BY DEF Cb!AfterInitialize
      <3>2. cbAt'[j] # "save" /\ \A k \in Cb!Jobs \ {j} : cbAt'[k] = cbAt[k]
        BY <1>1, <2>1, <3>1
      <3>3. j \in Saving /\ Saving' = Saving \ {j}
        BY <1>3, <3>2 DEF Cb!SaveKeys, Saving
      <3> QED BY <1>3, <3>3 DEF Cb!SaveKeys, KeysSafe
    <2>3. Cb!Unsaved \subseteq Cb!Unsaved' \cup {cbWallet[j]}
      BY <2>2 DEF Cb!Unsaved, Saving
    <2>4. \A k \in Saving' : cbWallet'[k] \in Cb!Wallets
      BY <2>2 DEF KeysSafe
    <2>5. cbFile'.id # cbFile'.seed => cbFaults' > 0
      <3>1. CASE id /\ seed
        BY <2>1, <3>1
      <3>2. CASE ~(id /\ seed)
        BY <1>1, <2>1, <3>2, CoinbaseFaults
      <3> QED BY <3>1, <3>2
    <2>6. CASE cbLost' = cbLost /\ (~id \/ ~seed => apart)
      <3>1. cbWallet[j] \in Cb!Kept'
        BY <2>1, <2>2, <2>6 DEF Cb!Kept, Cb!Wallets
      <3> QED BY <2>4, <2>5, <3>1 DEF KeysSafe
    <2>7. CASE cbLost' = cbLost \cup {cbWallet[j]}
      <3>1. \A w \in 1 .. cbMade' : w \notin cbLost' \cup Cb!Unsaved' => w \notin cbLost \cup Cb!Unsaved
        BY <2>3, <2>7
      <3>2. Cb!Kept # {} => Cb!Kept' # {}
        BY <2>1, <2>2 DEF Cb!Kept, Cb!Wallets
      <3> QED BY <2>2, <2>4, <2>5, <3>1, <3>2 DEF KeysSafe
    <2> QED BY <2>1, <2>6, <2>7
  <1>4. ASSUME NEW j \in Cb!Jobs, Cb!InitializeWallet(j)
        PROVE  KeysSafe'
    <2>1. cbAt[j] = "initialize" /\ UNCHANGED <<cbFile, cbSeedFile, cbFaults>> /\ Cb!Kept' = Cb!Kept
      BY <1>4 DEF Cb!InitializeWallet, Cb!Money, Cb!Kept, Cb!Wallets
    <2>2. \/ /\ cbMade' = cbMade /\ cbLost' = cbLost
             /\ cbAt' = [cbAt EXCEPT ![j] = Cb!AfterInitialize(j)] \/ cbAt' = [cbAt EXCEPT ![j] = "idle"]
             /\ cbWallet' = cbWallet \/ cbWallet' = [cbWallet EXCEPT ![j] = cbSettings.id]
          \/ /\ cbMade' = cbMade + 1 /\ cbMade < MaxWallets /\ cbLost' = cbLost
             /\ cbAt' = [cbAt EXCEPT ![j] = "save"] /\ cbWallet' = [cbWallet EXCEPT ![j] = cbMade + 1]
          \/ /\ cbMade' = cbMade + 1 /\ cbMade < MaxWallets /\ cbLost' = cbLost \cup {cbMade + 1}
             /\ cbAt' = [cbAt EXCEPT ![j] = "idle"] /\ cbWallet' = cbWallet
      BY <1>4 DEF Cb!InitializeWallet, Cb!Fail
    <2>3. Cb!AfterInitialize(j) # "save"
      BY DEF Cb!AfterInitialize
    <2>4. \A k \in Cb!Jobs : k # j => cbAt'[k] = cbAt[k] /\ cbWallet'[k] = cbWallet[k]
      BY <1>1, <2>2
    <2>5. Cb!Unsaved \subseteq Cb!Unsaved'
      BY <2>1, <2>4 DEF Cb!Unsaved
    <2>6. \A w \in 1 .. cbMade' : w \notin cbLost' \cup Cb!Unsaved' =>
              w \in 1 .. cbMade /\ w \notin cbLost \cup Cb!Unsaved
      <3>1. CASE cbMade' = cbMade /\ cbLost' = cbLost
        BY <2>5, <3>1
      <3>2. CASE cbMade' = cbMade + 1 /\ cbLost' = cbLost /\ cbAt'[j] = "save" /\ cbWallet'[j] = cbMade + 1
        <4>1. cbMade + 1 \in Cb!Unsaved'
          BY <3>2 DEF Cb!Unsaved
        <4> QED BY <1>1, <2>5, <3>2, <4>1
      <3>3. CASE cbMade' = cbMade + 1 /\ cbLost' = cbLost \cup {cbMade + 1}
        BY <1>1, <2>5, <3>3
      <3> QED BY <1>1, <2>2, <3>1, <3>2, <3>3
    <2>7. \A k \in Saving' : cbWallet'[k] \in Cb!Wallets
      <3>1. cbAt'[j] = "save" => cbWallet'[j] \in Cb!Wallets
        BY <1>1, <2>2, <2>3 DEF Cb!Wallets
      <3> QED BY <2>4, <3>1 DEF Saving, KeysSafe
    <2> QED BY <2>1, <2>6, <2>7 DEF KeysSafe
  <1>5. CASE \/ Cb!Header \/ Cb!Looked \/ Cb!PayCharity \/ Cb!Write \/ Cb!Give \/ Cb!Swap
             \/ Cb!Look \/ (\E r \in Recipients : Cb!Pay(r)) \/ (\E j \in Cb!Jobs : Cb!Ask(j))
    <2>1. /\ UNCHANGED <<cbFile, cbSeedFile, cbMade, cbLost, cbWallet>>
          /\ \/ cbAt' = cbAt
             \/ \E j \in Cb!Jobs, s \in Stages \ {"save"} : cbAt[j] # "save" /\ cbAt' = [cbAt EXCEPT ![j] = s]
      <3> USE DEF Cb!Keys, Cb!Fail, Cb!Jobs, Stages, PayoutStages, TradeStages, ProviderStages, Cb!Ends
      <3>1. CASE Cb!Header
        BY <3>1 DEF Cb!Header
      <3>2. CASE Cb!Looked
        BY <3>2 DEF Cb!Looked
      <3>3. CASE Cb!PayCharity
        BY <3>3 DEF Cb!PayCharity
      <3>4. CASE Cb!Write
        BY <3>4 DEF Cb!Write
      <3>5. CASE Cb!Give
        BY <3>5 DEF Cb!Give
      <3>6. CASE Cb!Swap
        BY <3>6 DEF Cb!Swap
      <3>7. CASE Cb!Look
        BY <3>7 DEF Cb!Look
      <3>8. ASSUME NEW r \in Recipients, Cb!Pay(r) PROVE cbAt' = cbAt /\ UNCHANGED Cb!Keys /\ UNCHANGED cbWallet
        BY <3>8 DEF Cb!Pay
      <3>9. ASSUME NEW j \in Cb!Jobs, Cb!Ask(j)
            PROVE  /\ UNCHANGED Cb!Keys /\ UNCHANGED cbWallet
                   /\ cbAt[j] # "save" /\ cbAt' = [cbAt EXCEPT ![j] = "initialize"]
        BY <3>9 DEF Cb!Ask
      <3> QED BY <1>5, <3>1, <3>2, <3>3, <3>4, <3>5, <3>6, <3>7, <3>8, <3>9
    <2>2. cbFaults' = cbFaults \/ cbFaults' > 0
      BY <1>1, <1>5, CoinbaseFaults DEF Cb!Header, Cb!Looked, Cb!PayCharity, Cb!Write, Cb!Give, Cb!Swap,
           Cb!AppendToCsv, Cb!Look, Cb!Pay, Cb!Ask
    <2>3. Saving' = Saving
      BY <1>1, <2>1 DEF Saving
    <2> QED BY <1>1, <2>1, <2>2, <2>3, KeysRest
  <1> QED BY <1>2, <1>3, <1>4, <1>5 DEF Cb!Next, Cb!Work

(* The payments.  A step that pays nobody, and leaves the payout as it is. *)
PayoutRests ==
    /\ UNCHANGED <<cbTodo, cbResults, cbPaid, cbWanted, cbRefused>>
    /\ cbAt'["payout"] = cbAt["payout"] /\ cbTold'["payout"] = cbTold["payout"]
    /\ cbBlurred => cbBlurred'
LEMMA PayoutUntouched == PayoutRight /\ PayoutRests => PayoutRight'
  BY DEF PayoutRight, PayoutRests, PaidOnce, Unpaid

LEMMA PayoutStaysRight ==
    ASSUME CoinbaseTypes, PayoutRight, Cb!Next
    PROVE  PayoutRight'
  <1>1. /\ cbAt \in [Cb!Jobs -> Stages] /\ Cb!Jobs = {"payout", "trade", "provider"}
        /\ cbTold \in [{"payout", "trade"} -> {"nothing", "bad", "good"}]
        /\ cbTodo \subseteq cbWanted /\ cbWanted \subseteq Recipients
        /\ cbResults \subseteq [recipient : Recipients, status : {"success", "failed"}]
        /\ cbPaid \in [Recipients -> Nat]
    BY DEF CoinbaseTypes, StageTypes, MoneyTypes, Cb!Jobs
  <1> USE DEF Cb!Money, Cb!Fail, Cb!Ends
  <1>2. CASE Cb!Header \/ Cb!Looked \/ Cb!Look \/ Cb!Give \/ Cb!Swap
    <2>1. PayoutRests
      BY <1>1, <1>2 DEF PayoutRests, Cb!Header, Cb!Looked, Cb!Look, Cb!Give, Cb!Swap
    <2> QED BY <2>1, PayoutUntouched
  <1>3. ASSUME NEW j \in {"trade", "provider"},
               Cb!InitializeWallet(j) \/ Cb!SaveKeys(j) \/ Cb!Ask(j)
        PROVE  PayoutRight'
    <2>1. PayoutRests
      BY <1>1, <1>3 DEF PayoutRests, Cb!InitializeWallet, Cb!SaveKeys, Cb!Ask
    <2> QED BY <2>1, PayoutUntouched
  <1>4. CASE Cb!InitializeWallet("payout")
    <2>1. /\ UNCHANGED <<cbTodo, cbResults, cbPaid, cbWanted, cbRefused, cbBlurred>>
          /\ cbTodo = cbWanted
          /\ cbAt'["payout"] \in {"pay", "save", "idle"}
      BY <1>1, <1>4 DEF Cb!InitializeWallet, Cb!AfterInitialize, PayoutRight
    <2> QED BY <1>1, <2>1 DEF PayoutRight, PaidOnce, Unpaid
  <1>5. CASE Cb!SaveKeys("payout")
    <2>1. /\ UNCHANGED <<cbTodo, cbResults, cbPaid, cbWanted, cbRefused, cbBlurred>>
          /\ cbAt'["payout"] = "pay" \/ (cbAt'["payout"] = "idle" /\ cbTodo = cbWanted)
      BY <1>1, <1>5 DEF PayoutRight, Cb!SaveKeys, Cb!AfterInitialize
    <2> QED BY <1>1, <2>1 DEF PayoutRight, PaidOnce, Unpaid
  <1>6. CASE Cb!Ask("payout")
    <2>1. /\ cbAt["payout"] \in Cb!Ends /\ cbAt'["payout"] = "initialize"
          /\ cbWanted' = IF cbTold.payout = "good" THEN Cb!Failed ELSE cbWanted
          /\ cbTodo' = cbWanted' /\ cbResults' = {}
          /\ UNCHANGED <<cbPaid, cbRefused, cbBlurred>>
      BY <1>1, <1>6 DEF Cb!Ask
    <2> QED BY <1>1, <2>1 DEF PayoutRight, PaidOnce, Unpaid, Cb!Failed
  <1>7. CASE Cb!Restart
    <2>1. /\ cbAt' = [j \in Cb!Jobs |-> "idle"] /\ cbTodo' = {} /\ cbResults' = {}
          /\ UNCHANGED <<cbPaid, cbRefused, cbWanted>>
          /\ cbBlurred => cbBlurred'
      BY <1>7 DEF Cb!Restart
    <2>2. ~cbBlurred' => cbAt["payout"] \in Cb!Ends /\ cbTold'.payout = cbTold.payout
      BY <1>1, <1>7 DEF Cb!Restart
    <2> QED BY <1>1, <2>1, <2>2 DEF PayoutRight, PaidOnce, Unpaid
  <1>8. CASE Cb!PayCharity
    <2>1. /\ UNCHANGED <<cbTodo, cbResults, cbPaid, cbWanted, cbBlurred>>
          /\ \/ cbAt'["payout"] = "write" /\ cbRefused' = cbRefused
             \/ cbAt'["payout"] = "idle" /\ cbRefused' = TRUE
      BY <1>1, <1>8 DEF Cb!PayCharity
    <2> QED BY <1>1, <2>1 DEF PayoutRight, PaidOnce, Unpaid
  <1>9. CASE Cb!Write
    <2>1. /\ UNCHANGED <<cbTodo, cbResults, cbPaid, cbWanted, cbBlurred, cbRefused>>
          /\ cbAt'["payout"] = "told" /\ cbTold'.payout = "good"
      BY <1>1, <1>9 DEF Cb!Write
    <2> QED BY <1>1, <2>1 DEF PayoutRight, PaidOnce, Unpaid
  <1>10. ASSUME NEW r \in Recipients, Cb!Pay(r)
         PROVE  PayoutRight'
    <2>1. /\ cbAt["payout"] = "pay" /\ cbAt' = cbAt /\ r \in cbTodo /\ cbTodo' = cbTodo \ {r}
          /\ UNCHANGED <<cbWanted, cbRefused, cbTold>>
          /\ \E status \in {"success", "failed"} :
                /\ cbResults' = cbResults \cup {[recipient |-> r, status |-> status]}
                /\ cbPaid' = cbPaid \/ cbPaid' = [cbPaid EXCEPT ![r] = @ + 1]
                /\ status = "success" => cbPaid' = [cbPaid EXCEPT ![r] = @ + 1]
                /\ ~cbBlurred' => ~cbBlurred /\ (status = "failed" => cbPaid' = cbPaid)
      BY <1>10 DEF Cb!Pay, Cb!Result
    <2>2. PICK status \in {"success", "failed"} :
                /\ cbResults' = cbResults \cup {[recipient |-> r, status |-> status]}
                /\ cbPaid' = cbPaid \/ cbPaid' = [cbPaid EXCEPT ![r] = @ + 1]
                /\ status = "success" => cbPaid' = [cbPaid EXCEPT ![r] = @ + 1]
                /\ ~cbBlurred' => ~cbBlurred /\ (status = "failed" => cbPaid' = cbPaid)
      BY <2>1
    <2>3. /\ \A q \in Recipients : cbPaid'[q] = cbPaid[q] \/ (q = r /\ cbPaid'[q] = cbPaid[q] + 1)
          /\ status = "success" => cbPaid'[r] = cbPaid[r] + 1
      BY <1>1, <2>2
    <2>4. \A x \in cbResults' : x.recipient \notin cbTodo' /\ (x.status = "success" => cbPaid'[x.recipient] > 0)
      <3> SUFFICES ASSUME NEW x \in cbResults'
                   PROVE  x.recipient \notin cbTodo' /\ (x.status = "success" => cbPaid'[x.recipient] > 0)
        OBVIOUS
      <3>1. CASE x \in cbResults
        <4>1. x.recipient \in Recipients /\ x.recipient \notin cbTodo /\ cbPaid[x.recipient] \in Nat
              /\ (x.status = "success" => cbPaid[x.recipient] > 0)
          BY <1>1, <3>1 DEF PayoutRight
        <4> QED BY <2>1, <2>3, <4>1
      <3>2. CASE x = [recipient |-> r, status |-> status]
        BY <1>1, <2>1, <2>3, <3>2
      <3> QED BY <2>2, <3>1, <3>2
    <2>5. PaidOnce'
      <3> SUFFICES ASSUME ~cbRefused', ~cbBlurred', NEW q \in Recipients
                   PROVE  /\ cbPaid'[q] < 2
                          /\ q \in cbTodo' => cbPaid'[q] = 0
                          /\ [recipient |-> q, status |-> "failed"] \in cbResults' => cbPaid'[q] = 0
        BY <2>1 DEF PaidOnce, Unpaid, Cb!Ends
      <3>1. /\ cbPaid[q] < 2 /\ (q \in cbTodo => cbPaid[q] = 0)
            /\ [recipient |-> q, status |-> "failed"] \in cbResults => cbPaid[q] = 0
            /\ status = "failed" => cbPaid' = cbPaid
            /\ cbPaid[q] \in Nat
        BY <1>1, <2>1, <2>2 DEF PayoutRight, PaidOnce, Unpaid
      <3>2. CASE q # r
        BY <2>1, <2>2, <2>3, <3>1, <3>2
      <3>3. CASE q = r
        <4>1. [recipient |-> q, status |-> "failed"] \notin cbResults
          BY <2>1, <3>3 DEF PayoutRight
        <4> QED BY <2>1, <2>2, <2>3, <3>1, <3>3, <4>1
      <3> QED BY <3>2, <3>3
    <2> QED BY <2>1, <2>4, <2>5 DEF PayoutRight
  <1> QED BY <1>1, <1>2, <1>3, <1>4, <1>5, <1>6, <1>7, <1>8, <1>9, <1>10 DEF Cb!Next, Cb!Work

LEMMA TradeStaysRight ==
    ASSUME CoinbaseTypes, TradeRight, Cb!Next
    PROVE  TradeRight'
  <1>1. /\ cbAt \in [Cb!Jobs -> Stages] /\ Cb!Jobs = {"payout", "trade", "provider"}
        /\ cbTold \in [{"payout", "trade"} -> {"nothing", "bad", "good"}]
        /\ cbGiven \in Nat /\ cbTraded \in Nat
    BY DEF CoinbaseTypes, StageTypes, MoneyTypes, Cb!Jobs
  <1> USE DEF Cb!Money, Cb!Fail, Cb!Ends
  <1>2. CASE \/ Cb!Header \/ Cb!Looked \/ Cb!Look \/ Cb!PayCharity \/ Cb!Write
             \/ (\E r \in Recipients : Cb!Pay(r))
             \/ \E j \in {"payout", "provider"} :
                    Cb!InitializeWallet(j) \/ Cb!SaveKeys(j) \/ Cb!Ask(j)
    <2>1. /\ UNCHANGED <<cbGiven, cbTraded>> /\ (cbBlurred => cbBlurred')
          /\ cbAt'["trade"] = cbAt["trade"] /\ cbTold'["trade"] = cbTold["trade"]
      BY <1>1, <1>2 DEF Cb!Header, Cb!Looked, Cb!Look, Cb!PayCharity, Cb!Write, Cb!Pay,
           Cb!InitializeWallet, Cb!SaveKeys, Cb!Ask
    <2> QED BY <2>1 DEF TradeRight
  <1>3. CASE Cb!InitializeWallet("trade") \/ Cb!SaveKeys("trade") \/ Cb!Ask("trade")
    <2>1. \/ cbAt'["trade"] \in {"give", "save", "initialize"}
          \/ cbTold'["trade"] = "bad"
      BY <1>1, <1>3 DEF Cb!InitializeWallet, Cb!SaveKeys, Cb!Ask, Cb!AfterInitialize
    <2> QED BY <2>1 DEF TradeRight
  <1>4. CASE Cb!Restart
    <2>1. /\ UNCHANGED <<cbGiven, cbTraded>> /\ (cbBlurred => cbBlurred')
          /\ ~cbBlurred' => cbAt["trade"] \in Cb!Ends /\ cbTold'["trade"] = cbTold["trade"]
      BY <1>1, <1>4 DEF Cb!Restart
    <2> QED BY <2>1 DEF TradeRight
  <1>5. CASE Cb!Give
    <2>1. cbAt'["trade"] = "swap" \/ cbTold'["trade"] = "bad"
      BY <1>1, <1>5 DEF Cb!Give
    <2> QED BY <2>1 DEF TradeRight
  <1>6. CASE Cb!Swap
    <2>1. cbTraded' = cbTraded + 1 \/ cbTold'["trade"] = "bad"
      BY <1>1, <1>6 DEF Cb!Swap
    <2> QED BY <1>1, <2>1 DEF TradeRight
  <1> QED BY <1>1, <1>2, <1>3, <1>4, <1>5, <1>6 DEF Cb!Next, Cb!Work

LEMMA CoinbaseSpec == ASSUME Cb!CoinbaseAssumption PROVE Cb!Init /\ [][Cb!Next]_Cb!vars => []CoinbaseInv
  <1>1. Cb!Init => CoinbaseInv
    <2> SUFFICES ASSUME Cb!Init PROVE CoinbaseInv
      OBVIOUS
    <2>1. /\ cbSettings = [id |-> 0, seed |-> 0] /\ cbFile = [id |-> 0, seed |-> 0]
          /\ cbSeedFile = {} /\ cbMade = 0 /\ cbLost = {}
          /\ cbAt = [j \in Cb!Jobs |-> "idle"] /\ cbWallet = [j \in Cb!Jobs |-> 0]
          /\ cbWanted = Recipients /\ cbTodo = {} /\ cbResults = {}
          /\ cbTold = [payout |-> "nothing", trade |-> "nothing"]
          /\ cbPaid = [r \in Recipients |-> 0] /\ cbGiven = 0 /\ cbTraded = 0
          /\ cbFaults = 0 /\ cbBlurred = FALSE /\ cbRefused = FALSE
      BY DEF Cb!Init, Cb!NoKeys
    <2>2. 0 \in 0 .. MaxWallets /\ Cb!Jobs = {"payout", "trade", "provider"}
      BY DEF Cb!CoinbaseAssumption, Cb!Jobs
    <2>3. KeyTypes
      BY <2>1, <2>2 DEF KeyTypes
    <2>4. StageTypes
      BY <2>1, <2>2 DEF StageTypes, Stages, PayoutStages, TradeStages, ProviderStages
    <2>5. MoneyTypes
      BY <2>1 DEF MoneyTypes
    <2>6. KeysSafe /\ PayoutRight /\ TradeRight
      BY <2>1, <2>2 DEF KeysSafe, Saving, PayoutRight, PaidOnce, Unpaid, TradeRight
    <2> QED BY <2>3, <2>4, <2>5, <2>6 DEF CoinbaseInv, CoinbaseTypes
  <1>2. CoinbaseInv /\ [Cb!Next]_Cb!vars => CoinbaseInv'
    <2>1. CoinbaseInv /\ Cb!Next => CoinbaseInv'
      BY CoinbaseKeyTypes, CoinbaseStageTypes, CoinbaseMoneyTypes, KeysStaySafe, PayoutStaysRight,
         TradeStaysRight DEF CoinbaseInv, CoinbaseTypes
    <2>2. CoinbaseInv /\ UNCHANGED Cb!vars => CoinbaseInv'
      BY DEF Cb!vars, CoinbaseInv, CoinbaseTypes, KeyTypes, StageTypes, MoneyTypes, KeysSafe, Saving,
             Cb!Unsaved, Cb!Kept, PayoutRight, PaidOnce, Unpaid, TradeRight
    <2> QED BY <2>1, <2>2
  <1> QED BY <1>1, <1>2, PTL

MoneyIsAccountedFor == Cb!SeedsKept /\ Cb!PaidTwiceHasCause

LEMMA CoinbaseMeans == CoinbaseInv => MoneyIsAccountedFor
  <1> SUFFICES ASSUME CoinbaseInv PROVE MoneyIsAccountedFor
    OBVIOUS
  <1>1. Cb!SeedsKept
    BY DEF CoinbaseInv, KeysSafe, Cb!SeedsKept
  <1>2. ASSUME NEW r \in Recipients, cbPaid[r] > 1, ~cbRefused, ~cbBlurred PROVE FALSE
    <2>1. cbPaid[r] \in Nat
      BY DEF CoinbaseInv, CoinbaseTypes, MoneyTypes
    <2>2. cbPaid[r] < 2
      BY <1>2 DEF CoinbaseInv, PayoutRight, PaidOnce
    <2> QED BY <1>2, <2>1, <2>2
  <1> QED BY <1>1, <1>2
      DEF CoinbaseInv, PayoutRight, TradeRight, MoneyIsAccountedFor, Cb!PaidTwiceHasCause

(* Coinbase.  Once the saving of one wallet went through, a seed can be    *)
(* found, whatever is overwritten, fails or ends later; who is paid twice  *)
(* was so after a refused payment to the charity or a lost answer; and     *)
(* what the user is told of a payout is what happened.                     *)
THEOREM SeedsAndPayments ==
    ASSUME Cb!CoinbaseAssumption
    PROVE  Cb!Init /\ [][Cb!Next]_Cb!vars => []MoneyIsAccountedFor
  BY CoinbaseMeans, CoinbaseSpec, PTL

----------------------------------------------------------------------------
(* All of MCServices.  A step of one service leaves the others as they     *)
(* are, so that each one's invariant holds throughout.                     *)

LEMMA EachKeepsItsOwn ==
    [SysNext]_sysVars => /\ [Next]_vars /\ [Im!Next]_Im!vars /\ [Br!Next]_Br!vars /\ [Vi!Next]_Vi!vars
                         /\ [Ac!Next]_Ac!vars /\ [Cb!Next]_Cb!vars /\ [Ha!Next]_Ha!vars
  <1> SUFFICES ASSUME [SysNext]_sysVars
               PROVE  /\ [Next]_vars /\ [Im!Next]_Im!vars /\ [Br!Next]_Br!vars /\ [Vi!Next]_Vi!vars
                      /\ [Ac!Next]_Ac!vars /\ [Cb!Next]_Cb!vars /\ [Ha!Next]_Ha!vars
    OBVIOUS
  <1>1. /\ Next \/ UNCHANGED vars
        /\ Im!Next \/ UNCHANGED imVars
        /\ Br!Next \/ UNCHANGED brVars
        /\ Vi!Next \/ UNCHANGED viVars
        /\ Ac!Next \/ UNCHANGED acVars
        /\ Cb!Next \/ UNCHANGED cbVars
        /\ Ha!Next \/ UNCHANGED haVars
    BY DEF SysNext, sysVars, Transcribing, Describing, Browsing, Watching, Acting, Paying, Moving
  <1>2. UNCHANGED imVars => UNCHANGED Im!vars
    BY DEF imVars, Im!vars
  <1>3. UNCHANGED brVars => UNCHANGED Br!vars
    BY DEF brVars, Br!vars
  <1>4. UNCHANGED viVars => UNCHANGED Vi!vars
    BY DEF viVars, Vi!vars
  <1>5. UNCHANGED acVars => UNCHANGED Ac!vars
    BY DEF acVars, Ac!vars
  <1>6. UNCHANGED cbVars => UNCHANGED Cb!vars
    BY DEF cbVars, Cb!vars
  <1>7. UNCHANGED haVars => UNCHANGED Ha!vars
    BY DEF haVars, Ha!vars
  <1> QED BY <1>1, <1>2, <1>3, <1>4, <1>5, <1>6, <1>7

ServicesInv ==
    /\ Inv /\ ImageInv /\ BrowserInv /\ VideoInv /\ EndsInv
    /\ ActionsInv /\ CoinbaseInv /\ HapticsInv

LEMMA ServicesSpec == SysSpec => []ServicesInv
  <1>1. Init /\ [][Next]_vars => []Inv
    BY InitInv, NextInv, PTL
  <1>2. SysInit => /\ Init /\ Im!Init /\ Br!Init /\ Vi!Init /\ Ac!Init /\ Cb!Init /\ Ha!Init
    BY DEF SysInit
  <1>3. Br!Init /\ [][Br!Next]_Br!vars => []BrowserInv
    BY BrowserSpec, Instances
  <1>4. Im!Init /\ [][Im!Next]_Im!vars => []ImageInv
    BY ImageSpec, Instances
  <1>5. Vi!Init /\ [][Vi!Next]_Vi!vars => []VideoInv /\ []EndsInv
    BY VideoSpec, VideoEnds, Instances
  <1>6. Ac!Init /\ [][Ac!Next]_Ac!vars => []ActionsInv
    BY ActionsSpec, Instances
  <1>7. Cb!Init /\ [][Cb!Next]_Cb!vars => []CoinbaseInv
    BY CoinbaseSpec, Instances
  <1>8. Ha!Init /\ [][Ha!Next]_Ha!vars => []HapticsInv
    BY HapticsSpec, Instances
  <1>9. Inv /\ ImageInv /\ BrowserInv /\ VideoInv /\ EndsInv /\ ActionsInv /\ CoinbaseInv /\ HapticsInv
        => ServicesInv
    BY DEF ServicesInv
  <1> QED BY <1>1, <1>2, <1>3, <1>4, <1>5, <1>6, <1>7, <1>8, <1>9, EachKeepsItsOwn, PTL DEF SysSpec

(* Every service, handler and wallet keeps the types of its state. *)
THEOREM ServicesKeepTypes == SysSpec => []TypesOK
  <1>1. ServicesInv => TypesOK
    BY CoinbaseTypesMean DEF ServicesInv, Inv, ImageInv, BrowserInv, VideoInv, ActionsInv, CoinbaseInv,
       HapticsInv, TypesOK
  <1> QED BY <1>1, ServicesSpec, PTL

(* Whatever the services, the handlers and the wallet end with that they   *)
(* should not, has a cause: a fault, an answer that was lost, a second     *)
(* call at the wrong moment or one of the handlers known for it.           *)
THEOREM OutcomesAreCaused == SysSpec => []OutcomesHaveCause
  <1>1. ServicesInv => OutcomesHaveCause
    BY BrowserMeans, VideoMeans, EndsMean, ActionsMean, CoinbaseMeans, Instances
       DEF ServicesInv, ImageInv, HapticsInv, OutcomesHaveCause, MoneyIsAccountedFor, ActionsKeepTheirWord
  <1> QED BY <1>1, ServicesSpec, PTL

============================================================================
