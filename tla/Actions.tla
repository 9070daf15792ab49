------------------------------ MODULE Actions ------------------------------
(***************************************************************************)
(* The handlers of the plugins' actions, as processActions runs them: one  *)
(* after another, awaiting the handler, catching and logging what it       *)
(* throws, and ignoring what it returns, so that what the user learns is   *)
(* what the handler passes to its callback.  A user who is not told of     *)
(* success asks for the same thing again.                                  *)
(*                                                                         *)
(* A handler is a program of steps.  A step that asks another service may  *)
(* throw, one that changes something there may be refused, or take effect  *)
(* while its answer is lost.  Most handlers do not await the callback:     *)
(* when it rejects, nobody handles the rejection and the process ends.     *)
(***************************************************************************)
EXTENDS Naturals, Sequences

CONSTANTS
    MaxAsks,    \* bound: times the user asks
    MaxRefusals \* bound: messages the platform refuses

ActionsAssumption == MaxAsks \in Nat /\ MaxRefusals \in Nat

VARIABLES
    asked,     \* the action the user wants, or Nothing
    handler,   \* the one whose handler runs
    at,        \* the step it is at, 0 when it is not running
    told,      \* the last thing it told the user: nothing, note, bad or good
    thrown,    \* the last invocation ended with an error, which is only logged
    done,      \* what it has changed in this invocation
    earlier,   \* what was changed by earlier ones
    blurred,   \* an answer or a message was lost
    allowance, \* of the account's tokens, what the launchpad may take
    amount,    \* the tokens to sell
    asks, refusals, alive

vars == <<asked, handler, at, told, thrown, done, earlier, blurred, allowance, amount,
          asks, refusals, alive>>

Nothing == "none"

----------------------------------------------------------------------------
(* Steps: where the handler goes when one fails is out, to processActions; *)
(* catch, to its own catch block; bad, after telling the user so; nothing, *)
(* returning without a word; on, to the next step.                         *)
Step(op, what, fails) == [op |-> op, what |-> what, fails |-> fails]

Await(fails) == Step("await", Nothing, fails)         \* a request that changes nothing
Test(fails) == Step("test", Nothing, fails)           \* a condition on what was found
Change(what, fails) == Step("change", what, fails)
Maybe(what, fails) == Step("maybe", what, fails)   \* a change only some requests need
Tell(what) == Step("tell", what, "down")           \* callback(...), not awaited
TellAwaited(what) == Step("tell", what, "out")     \* await callback(...)
Attempt(what) == Step("tell", what, "on")          \* the same in a try block
Poll == Step("poll", Nothing, "catch")                \* until the other side is ready
Broken(fails) == Step("broken", Nothing, fails)       \* never passes

(* The state is composed and the model asked for an object: both may throw *)
(* before a handler's try block begins.                                    *)
Compose == <<Await("out"), Await("out")>>

Handler(steps, caught) == [steps |-> steps, caught |-> caught]

----------------------------------------------------------------------------
(* plugin-solana *)
IsTransferContent == Test("bad")
SolanaTransfer ==
    Handler(Compose \o <<IsTransferContent, Await("catch"), Change("transfer", "catch"),
                         Tell("good")>>, "bad")

(* swapToken fetches a quote and a transaction. *)
SwapToken == Await("catch")
(* getTokenFromWallet swallows its errors; no token is no address. *)
GetTokenFromWallet == Test("bad")
(* The trade is recorded with what is known of the token, which throws     *)
(* whatever the market says (see Trust): the user is never told.           *)
SolanaSwap ==
    Handler(Compose \o <<Await("out"), GetTokenFromWallet, SwapToken,
              Change("swap", "catch"), Broken("catch")>>, "nothing")

(* promptConfirmation asks window, which node does not have. *)
PromptConfirmation == Broken("catch")
SwapDao ==
    Handler(<<Await("catch"), PromptConfirmation, Change("daoswap", "catch")>>, "nothing")

IsCreateAndBuyContent == Test("nothing")
(* createAndBuy, then the balance of the new account. *)
CreateAndBuyToken == <<Change("token", "catch"), Await("catch")>>
PumpFun ==
    Handler(Compose \o <<Await("out"), IsCreateAndBuyContent, Await("out"),
              Change("file", "out"), Await("catch")>> \o CreateAndBuyToken \o <<Tell("good")>>,
            "bad")

(* Neither ticker nor contractAddress is ever assigned: the question the   *)
(* handler returns goes nowhere.                                           *)
TakeOrder == Handler(<<Broken("nothing")>>, "nothing")

----------------------------------------------------------------------------
(* plugin-starknet *)
StarknetTransfer ==
    Handler(Compose \o <<Test("bad"), Await("catch"), Change("transfer", "catch"), Tell("good")>>,
            "bad")
StarknetSwap ==
    Handler(Compose \o <<Test("bad"), Await("catch"), Change("swap", "catch"), Tell("good")>>,
            "bad")
DeployToken ==
    Handler(Compose \o <<Test("bad"), Await("catch"), Change("token", "catch"), Tell("good")>>,
            "bad")
Subdomain ==
    Handler(Compose \o <<Test("bad"), Change("name", "catch"), Tell("good")>>, "bad")

(* plugin-conflux.  A transaction is sent, not waited for. *)
SendCFX == Change("transfer", "catch")
ConfluxTransfer ==
    Handler(Compose \o <<Test("out"), Await("catch"), SendCFX, Tell("good")>>, "bad")
BridgeSendCFX == Change("bridged", "catch")
ConfluxBridge ==
    Handler(Compose \o <<Test("out"), Await("catch"), BridgeSendCFX, Tell("good")>>, "bad")
(* CREATE_TOKEN and BUY_TOKEN, and SELL_TOKEN, which first approves.       *)
ConfiPump ==
    Handler(Compose \o <<Test("out"), Test("catch"), Await("catch"), Change("trade", "catch"),
                         Tell("good")>>, "bad")
ConfiPumpSell ==
    Handler(Compose \o <<Test("out"), Test("catch"), Step("approve", Nothing, "catch"),
                         Step("simulate", Nothing, "catch"), Step("sell", "trade", "catch"),
                         Tell("good")>>, "bad")

(* plugin-evm.  The options processActions passes are empty, so there is   *)
(* no chain to look up: no transaction is ever built.                      *)
EvmSwap == Handler(<<Await("catch"), Broken("catch"), Change("swap", "catch")>>, "bad")
EvmBridge == Handler(<<Await("out"), Broken("out"), Change("bridged", "out")>>, "nothing")
EvmTransfer == Handler(<<Await("out"), Broken("out"), Change("transfer", "out")>>, "nothing")

(* plugin-goat: the model words the answer after the tool was called. *)
GenerateParameters == Await("catch")
GenerateResponse == Await("catch")
Goat ==
    Handler(<<Await("catch"), GenerateParameters, Test("bad"), Change("call", "catch"),
              GenerateResponse, Tell("good")>>, "bad")

(* plugin-icp *)
GenerateTokenLogo == Test("out")
CreateTokenTransaction == Change("token", "catch")
IcpCreateToken ==
    Handler(<<Tell("note")>> \o Compose \o
            <<Await("out"), GenerateTokenLogo, Change("upload", "out"), Await("catch"),
              CreateTokenTransaction, Tell("good")>>, "bad")

(* plugin-0g: the content that is tested is the whole answer of            *)
(* generateObjectV2, which has no filePath of its own.                     *)
IsUploadContent == Broken("bad")
ZgUpload == Handler(Compose \o <<IsUploadContent, Change("upload", "catch")>>, "nothing")

----------------------------------------------------------------------------
(* Images and videos; each image is sent on its own, here two of them. *)
SaveImage == Change("file", "out")
GenerateImage ==
    Handler(<<Await("out"), Test("nothing"), SaveImage, Tell("good"), Test("nothing"),
              SaveImage, Tell("good")>>, "nothing")
(* generateVideo makes of every error an answer without success. *)
GenerateVideo == <<Change("video", "catch"), Poll>>
VideoGeneration ==
    Handler(<<Test("bad"), Tell("note")>> \o GenerateVideo \o
            <<Await("catch"), Change("file", "catch"), Tell("good")>>, "bad")

(* generateWebSearch catches its errors and returns nothing. *)
GenerateWebSearch == Test("nothing")
WebSearch == Handler(<<Await("out"), GenerateWebSearch, Tell("good")>>, "nothing")

(* Coinbase Commerce *)
CreateCharge == Change("charge", "catch")
CoinbaseCharge == Handler(Compose \o <<Test("out"), Test("bad"), CreateCharge, Tell("good")>>, "bad")
GetAllCharges == Handler(<<Await("catch"), Await("catch"), Tell("good")>>, "bad")
GetChargeDetails == Await("catch")
ChargeDetails ==
    Handler(Compose \o <<Test("out"), Test("bad"), GetChargeDetails, Tell("good")>>, "bad")

----------------------------------------------------------------------------
(* client-discord.  Up to five times the model is asked for ids or dates;  *)
(* a long text is put into the cache and attached.                         *)
GetDateRange == <<Await("out"), Await("out"), Test("nothing")>>
Summarize ==
    Handler(<<Await("out")>> \o GetDateRange \o
            <<Await("out"), Test("out"), Await("out"), Maybe("file", "out"),
              TellAwaited("good")>>, "nothing")
GetAttachmentIds == <<Await("out"), Await("out"), Test("nothing")>>
ChatWithAttachments ==
    Handler(<<Await("out")>> \o GetAttachmentIds \o
            <<Await("out"), Test("nothing"), Maybe("file", "out"), TellAwaited("good")>>, "nothing")
GetMediaAttachmentId == <<Await("out"), Await("out"), Test("nothing")>>
TranscribeMedia ==
    Handler(<<Await("out")>> \o GetMediaAttachmentId \o
            <<Test("nothing"), Test("nothing"), Maybe("file", "out"), TellAwaited("good")>>,
            "nothing")
GetMediaUrl == <<Await("out"), Test("nothing")>>
(* The callback is tried three times. *)
DownloadMedia ==
    Handler(<<Await("out")>> \o GetMediaUrl \o
            <<Await("out"), Change("file", "out"), Attempt("good"), Attempt("good"),
              Attempt("good")>>, "nothing")
(* VoiceManager is not imported. *)
JoinVoice == Handler(<<Broken("out")>>, "nothing")
(* Nothing is told about the connections that are destroyed. *)
LeaveVoice == Handler(<<Test("nothing"), Test("out"), Change("left", "never")>>, "nothing")

----------------------------------------------------------------------------
Program ==
    [SEND_TOKEN |-> SolanaTransfer, EXECUTE_SWAP |-> SolanaSwap, EXECUTE_SWAP_DAO |-> SwapDao,
     CREATE_AND_BUY_TOKEN |-> PumpFun, TAKE_ORDER |-> TakeOrder,
     STARKNET_SEND_TOKEN |-> StarknetTransfer, EXECUTE_STARKNET_SWAP |-> StarknetSwap,
     DEPLOY_STARKNET_UNRUGGABLE_MEME_TOKEN |-> DeployToken, CREATE_SUBDOMAIN |-> Subdomain,
     SEND_CFX |-> ConfluxTransfer, BRIDGE_SEND_CFX |-> ConfluxBridge, CONFI_PUMP |-> ConfiPump,
     CONFI_PUMP_SELL |-> ConfiPumpSell, swap |-> EvmSwap, bridge |-> EvmBridge,
     transfer |-> EvmTransfer, GOAT |-> Goat, CREATE_TOKEN |-> IcpCreateToken,
     ZG_UPLOAD |-> ZgUpload, GENERATE_IMAGE |-> GenerateImage,
     GENERATE_VIDEO |-> VideoGeneration, WEB_SEARCH |-> WebSearch,
     CREATE_CHARGE |-> CoinbaseCharge, GET_ALL_CHARGES |-> GetAllCharges,
     GET_CHARGE_DETAILS |-> ChargeDetails, SUMMARIZE_CONVERSATION |-> Summarize,
     CHAT_WITH_ATTACHMENTS |-> ChatWithAttachments, TRANSCRIBE_MEDIA |-> TranscribeMedia,
     DOWNLOAD_MEDIA |-> DownloadMedia, JOIN_VOICE |-> JoinVoice, LEAVE_VOICE |-> LeaveVoice]

Names == DOMAIN Program
Steps == Program[handler].steps
Now == Steps[at]
Catching == Len(Steps) + 1
Running(op) == alive /\ at \in 1 .. Len(Steps) /\ Now.op = op

(* The first registered action whose name contains the one asked for, or   *)
(* is contained in it: the swap of the DAO is the agent's own.             *)
Found(name) == IF name = "EXECUTE_SWAP_DAO" THEN "EXECUTE_SWAP" ELSE name

Init ==
    /\ asked = Nothing /\ handler = "TAKE_ORDER"
    /\ at = 0 /\ told = "nothing" /\ thrown = FALSE
    /\ done = {} /\ earlier = {}
    /\ blurred = FALSE
    /\ allowance = 0 /\ amount = 1
    /\ asks = 0 /\ refusals = 0 /\ alive = TRUE

(* processActions with the action of the model's answer. *)
Ask ==
    /\ alive /\ at = 0 /\ asks < MaxAsks
    /\ asked = Nothing \/ told # "good"
    /\ asked' \in (IF asked = Nothing THEN Names ELSE {asked})
    /\ handler' = Found(asked')
    /\ at' = 1 /\ told' = "nothing" /\ thrown' = FALSE
    /\ done' = {} /\ earlier' = earlier \cup done
    /\ amount' \in (IF asked' = "CONFI_PUMP_SELL" THEN 1 .. 2 ELSE {1})
    /\ asks' = asks + 1
    /\ UNCHANGED <<blurred, allowance, refusals, alive>>

Same == UNCHANGED <<asked, handler, asks, amount>>

Passed == at' = (IF at = Len(Steps) THEN 0 ELSE at + 1) /\ UNCHANGED thrown

(* The step leaves the handler, or its try block. *)
Left ==
    /\ Now.fails # "never"
    /\ at' = (IF Now.fails = "bad" \/ (Now.fails = "catch" /\ Program[handler].caught = "bad")
              THEN Catching ELSE 0)
    /\ thrown' = (Now.fails = "out")

Looked ==
    /\ Running("await") \/ Running("test") \/ Running("poll")
    /\ Passed \/ Left
    /\ Same /\ UNCHANGED <<told, done, earlier, blurred, allowance, refusals, alive>>

Skipped ==
    /\ Running("maybe") /\ Passed
    /\ Same /\ UNCHANGED <<told, done, earlier, blurred, allowance, refusals, alive>>

BrokenOff ==
    /\ Running("broken") /\ Left
    /\ Same /\ UNCHANGED <<told, done, earlier, blurred, allowance, refusals, alive>>

Changed ==
    /\ Running("change") \/ Running("maybe")
    /\ \/ Passed /\ done' = done \cup {Now.what} /\ UNCHANGED blurred
       \/ Left /\ done' = done \cup {Now.what} /\ blurred' = TRUE
       \/ Left /\ UNCHANGED <<done, blurred>>
    /\ Same /\ UNCHANGED <<told, earlier, allowance, refusals, alive>>

(* callback(...) on a platform whose callback can reject. *)
Told ==
    /\ Running("tell")
    /\ \/ /\ told' = Now.what
          /\ at' = IF Now.fails = "on" THEN 0 ELSE IF at = Len(Steps) THEN 0 ELSE at + 1
          /\ UNCHANGED <<thrown, blurred, refusals, alive>>
       \/ /\ refusals < MaxRefusals /\ refusals' = refusals + 1
          /\ blurred' = TRUE
          /\ UNCHANGED told
          /\ \/ Now.fails = "down" /\ alive' = FALSE /\ at' = 0 /\ UNCHANGED thrown
             \/ Now.fails = "on" /\ Passed /\ UNCHANGED alive
             \/ Now.fails = "out" /\ Left /\ UNCHANGED alive
    /\ Same /\ UNCHANGED <<done, earlier, allowance>>

(* The message about a failure, which is not awaited either. *)
Apologize ==
    /\ alive /\ at > 0 /\ at = Catching
    /\ at' = 0
    /\ \/ told' = "bad" /\ UNCHANGED <<blurred, refusals, alive>>
       \/ /\ refusals < MaxRefusals /\ refusals' = refusals + 1
          /\ blurred' = TRUE /\ alive' = FALSE /\ UNCHANGED told
    /\ Same /\ UNCHANGED <<thrown, done, earlier, allowance>>

(* ensureAllowance: approve sets the allowance, it does not add to it.     *)
Approved == amount - allowance
EnsureAllowance ==
    /\ Running("approve")
    /\ \/ allowance >= amount /\ Passed /\ UNCHANGED <<allowance, blurred>>
       \/ allowance < amount /\ allowance' = Approved
          /\ \/ Passed /\ UNCHANGED blurred
             \/ Left /\ blurred' = TRUE
       \/ Left /\ UNCHANGED <<allowance, blurred>>
    /\ Same /\ UNCHANGED <<told, done, earlier, refusals, alive>>

Simulate ==
    /\ Running("simulate")
    /\ Left \/ (allowance >= amount /\ Passed)
    /\ Same /\ UNCHANGED <<told, done, earlier, blurred, allowance, refusals, alive>>

Sell ==
    /\ Running("sell")
    /\ \/ /\ allowance' = allowance - amount /\ done' = done \cup {Now.what}
          /\ (Passed /\ UNCHANGED blurred) \/ (Left /\ blurred' = TRUE)
       \/ Left /\ UNCHANGED <<allowance, done, blurred>>
    /\ Same /\ UNCHANGED <<told, earlier, refusals, alive>>

Go == \/ Looked \/ Skipped \/ BrokenOff \/ Changed \/ Told \/ Apologize
      \/ EnsureAllowance \/ Simulate \/ Sell
Next == Ask \/ Go

----------------------------------------------------------------------------
TypeOK ==
    /\ asked \in Names \cup {Nothing} /\ handler \in Names
    /\ at \in 0 .. Catching
    /\ told \in {"nothing", "note", "bad", "good"}
    /\ {thrown, blurred, alive} \subseteq BOOLEAN
    /\ allowance \in 0 .. 2 /\ amount \in 1 .. 2
    /\ asks \in 0 .. MaxAsks /\ refusals \in 0 .. MaxRefusals

(* What a handler sets out to change, whatever the request. *)
Purpose == {Steps[i].what : i \in {j \in 1 .. Len(Steps) : Steps[j].op \in {"change", "sell"}}}

(* Whoever is told of success got all of what was asked for. *)
GoodMeansDone == told = "good" => Purpose \subseteq done

(* Handlers with steps after something was changed for good. *)
AfterThoughts ==
    {"EXECUTE_SWAP", "CREATE_AND_BUY_TOKEN", "GOAT", "CREATE_TOKEN", "GENERATE_VIDEO",
     "GENERATE_IMAGE", "DOWNLOAD_MEDIA", "LEAVE_VOICE"}

(* A change the user does not learn of, and one that is made again when    *)
(* the user asks again, is due to an answer or a message that was lost, or *)
(* to one of the handlers with a step after the change that may fail, or   *)
(* that say nothing.                                                       *)
ChangesAreTold ==
    at = 0 /\ handler \notin AfterThoughts /\ ~blurred =>
        /\ done # {} => told = "good"
        /\ done \cap earlier = {}

(* Handlers that may return without having said what became of it. *)
Silent ==
    {"EXECUTE_SWAP", "EXECUTE_SWAP_DAO", "CREATE_AND_BUY_TOKEN", "TAKE_ORDER", "ZG_UPLOAD",
     "GENERATE_IMAGE", "WEB_SEARCH", "SUMMARIZE_CONVERSATION", "CHAT_WITH_ATTACHMENTS",
     "TRANSCRIBE_MEDIA", "DOWNLOAD_MEDIA", "LEAVE_VOICE"}
EndsWithAWord ==
    at = 0 /\ asked # Nothing /\ alive /\ ~thrown /\ handler \notin Silent =>
        told \in {"bad", "good"}

(* A sale only finds too little allowance when an earlier one was given up *)
(* between its approval and its sale.                                      *)
ShortAfterFailure ==
    Running("simulate") /\ allowance < amount => asks > 1

(* Every handler ends, but for one that waits for a video. *)
Waiting == Running("poll")
Quiet == at = 0 \/ Waiting \/ ~alive

============================================================================
