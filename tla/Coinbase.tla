----------------------------- MODULE Coinbase ------------------------------
(***************************************************************************)
(* The wallet of plugin-coinbase and what is paid from it.                 *)
(*                                                                         *)
(* initializeWallet imports the wallet whose id and seed the settings      *)
(* hold.  Without them it makes a new one and writes its id and its seed   *)
(* into the character's file, which the process only reads when it         *)
(* starts: until then every payout, every trade and every look of a        *)
(* provider makes another wallet and overwrites the seed of the one        *)
(* before.  A wallet whose seed can be written to neither file is made all *)
(* the same, as is one that will not tell its address: the handler fails,  *)
(* and nothing holds the seed.  A payout pays one recipient after another, *)
(* then the charity, a trade the charity first; what they did is written   *)
(* to a file of comma-separated values and told to the user at the end.    *)
(* What Coinbase makes of a destination that is not an address, as the     *)
(* charity's never is, is left open.                                       *)
(***************************************************************************)
EXTENDS Naturals, FiniteSets

CONSTANTS
    Recipients, \* of the payout the user asks for
    MaxWallets, \* bound: wallets made
    MaxAsks,    \* bound: payouts, trades and looks of the provider
    MaxFaults   \* bound: transfers and file operations that fail, and
                \* restarts of the process

CoinbaseAssumption == {MaxWallets, MaxAsks, MaxFaults} \subseteq Nat

Jobs == {"payout", "trade", "provider"}
Wallets == 1 .. MaxWallets
Ends == {"idle", "told"}

VARIABLES
    settings, \* the id and seed this process read when it started, 0 for none
    file,     \* those in the character's file
    seedFile, \* wallets whose seed is in the gitignored file
    made,     \* wallets made so far
    lost,     \* those given up with no seed of theirs written
    at,       \* at[j]: what job j waits for
    wallet,   \* wallet[j]: the one j works with
    wanted,   \* the recipients the user asked to pay
    todo,     \* those this payout has not come to
    results,  \* [recipient, status] of this payout
    told,     \* what the user was last told of payout and trade
    paid,     \* paid[r]: how often recipient r was paid
    given,    \* payments to the charity that went with a trade
    traded,   \* trades that were made
    csv,      \* the file of transactions: whether it is there, its rows
    asks, faults,
    blurred,  \* a request took effect although it failed
    refused   \* the charity's payment was refused

vars == <<settings, file, seedFile, made, lost, at, wallet, wanted, todo, results, told, paid, given,
          traded, csv, asks, faults, blurred, refused>>

NoKeys == [id |-> 0, seed |-> 0]
Absent == [there |-> FALSE, rows |-> {}]

Init ==
    /\ settings = NoKeys /\ file = NoKeys /\ seedFile = {} /\ made = 0 /\ lost = {}
    /\ at = [j \in Jobs |-> "idle"] /\ wallet = [j \in Jobs |-> 0]
    /\ wanted = Recipients /\ todo = {} /\ results = {}
    /\ told = [payout |-> "nothing", trade |-> "nothing"]
    /\ paid = [r \in Recipients |-> 0] /\ given = 0 /\ traded = 0
    /\ csv = Absent
    /\ asks = 0 /\ faults = 0 /\ blurred = FALSE /\ refused = FALSE

Fault == faults < MaxFaults /\ faults' = faults + 1

Money == <<wanted, todo, results, paid, given, traded, blurred, refused>>
Keys == <<settings, file, seedFile, made, lost>>

(* The handlers catch everything and say so, the provider returns nothing. *)
Fail(j) ==
    /\ at' = [at EXCEPT ![j] = "idle"]
    /\ told' = IF j = "provider" THEN told ELSE [told EXCEPT ![j] = "bad"]

----------------------------------------------------------------------------
(* Who is not in the settings is made: !storedSeed || !storedWalletId. *)
Stored == settings.id # 0 /\ settings.seed # 0
AfterInitialize(j) == IF j = "payout" THEN "pay" ELSE IF j = "trade" THEN "give" ELSE "look"

(* SEND_MASS_PAYOUT and EXECUTE_TRADE with what the model made of the      *)
(* message.  After a payout that failed the user asks for the same again,  *)
(* else for the recipients whose transfer failed.                          *)
Failed == {x \in Recipients : [recipient |-> x, status |-> "failed"] \in results}
Ask(j) ==
    /\ j # "provider" /\ at[j] \in Ends /\ asks < MaxAsks
    /\ j = "trade" => told.trade # "good"
    /\ wanted' = IF j = "payout" /\ told.payout = "good" THEN Failed ELSE wanted
    /\ todo' = IF j = "payout" THEN wanted' ELSE todo
    /\ wanted' # {}
    /\ results' = IF j = "trade" THEN results ELSE {}
    /\ at' = [at EXCEPT ![j] = "initialize"]
    /\ asks' = asks + 1
    /\ UNCHANGED <<Keys, wallet, told, paid, given, traded, csv, faults, blurred, refused>>

(* massPayoutProvider: a file that is not there is made. *)
Look ==
    /\ at["provider"] \in Ends /\ asks < MaxAsks
    /\ at' = [at EXCEPT !["provider"] = IF csv = Absent THEN "header" ELSE "initialize"]
    /\ asks' = asks + 1
    /\ UNCHANGED <<Keys, wallet, told, Money, csv, faults>>

(* The header is written over whatever is there by now. *)
Header ==
    /\ at["provider"] = "header"
    /\ \/ csv' = [there |-> TRUE, rows |-> {}] /\ at' = [at EXCEPT !["provider"] = "initialize"] /\ UNCHANGED <<told, faults>>
       \/ Fault /\ Fail("provider") /\ UNCHANGED csv
    /\ UNCHANGED <<Keys, wallet, Money, asks>>

(* The address of a wallet that was made is asked for before its seed is   *)
(* written anywhere.                                                       *)
InitializeWallet(j) ==
    /\ at[j] = "initialize"
    /\ \/ /\ Stored /\ settings.id = settings.seed
          /\ wallet' = [wallet EXCEPT ![j] = settings.id]
          /\ at' = [at EXCEPT ![j] = AfterInitialize(j)]
          /\ UNCHANGED <<made, lost, told, faults>>
       \/ /\ Stored /\ settings.id # settings.seed /\ Fail(j)
          /\ UNCHANGED <<wallet, made, lost, faults>>
       \/ /\ ~Stored /\ made < MaxWallets
          /\ made' = made + 1
          /\ wallet' = [wallet EXCEPT ![j] = made + 1]
          /\ at' = [at EXCEPT ![j] = "save"]
          /\ UNCHANGED <<lost, told, faults>>
       \/ /\ ~Stored /\ made < MaxWallets
          /\ made' = made + 1 /\ lost' = lost \cup {made + 1}
          /\ Fail(j) /\ UNCHANGED <<wallet, faults>>
       \/ Fail(j) /\ UNCHANGED <<wallet, made, lost, faults>>
    /\ UNCHANGED <<settings, file, seedFile, Money, csv, asks>>

(* updateCharacterSecrets twice, each reading and writing the file without *)
(* a pause.  When either fails the seed goes to a file of its own, and     *)
(* when that fails as well, for they are to be in the same directory, so   *)
(* does the handler.  Mutant: only when both fail.                         *)
NotSaved_Both(id, seed) == ~id /\ ~seed
NotSaved(id, seed) == ~id \/ ~seed
SaveKeys(j) ==
    /\ at[j] = "save"
    /\ \E id, seed, apart \in BOOLEAN :
          /\ file' = [id |-> IF id THEN wallet[j] ELSE file.id,
                      seed |-> IF seed THEN wallet[j] ELSE file.seed]
          /\ seedFile' = IF NotSaved(id, seed) /\ apart THEN seedFile \cup {wallet[j]} ELSE seedFile
          /\ IF id /\ seed THEN UNCHANGED faults ELSE Fault
          /\ \/ /\ NotSaved(id, seed) => apart
                /\ at' = [at EXCEPT ![j] = AfterInitialize(j)] /\ UNCHANGED <<lost, told>>
             \/ /\ NotSaved(id, seed) /\ ~apart
                /\ lost' = lost \cup {wallet[j]} /\ Fail(j)
    /\ UNCHANGED <<settings, made, wallet, Money, csv, asks>>

Looked ==
    /\ at["provider"] = "look"
    /\ at' = [at EXCEPT !["provider"] = "idle"]
    /\ UNCHANGED <<Keys, wallet, told, Money, csv, asks, faults>>

----------------------------------------------------------------------------
Result(r, status) == results' = results \cup {[recipient |-> r, status |-> status]}

(* executeMassPayout, one address: too little is there, or the transfer    *)
(* was made, or it failed, before or after it took effect.                 *)
Pay(r) ==
    /\ at["payout"] = "pay" /\ r \in todo
    /\ todo' = todo \ {r}
    /\ \/ paid' = [paid EXCEPT ![r] = @ + 1] /\ Result(r, "success") /\ UNCHANGED <<faults, blurred>>
       \/ Fault /\ paid' = [paid EXCEPT ![r] = @ + 1] /\ Result(r, "failed") /\ blurred' = TRUE
       \/ Fault /\ Result(r, "failed") /\ UNCHANGED <<paid, blurred>>
    /\ UNCHANGED <<Keys, at, wallet, wanted, told, given, traded, csv, asks, refused>>

(* getCharityAddress knows none of the networks the handler accepts.  An   *)
(* error here is that of the whole payout.                                 *)
PayCharity ==
    /\ at["payout"] = "pay" /\ todo = {}
    /\ \/ at' = [at EXCEPT !["payout"] = "write"] /\ UNCHANGED <<told, refused>>
       \/ Fail("payout") /\ refused' = TRUE
    /\ UNCHANGED <<Keys, wallet, wanted, todo, results, paid, given, traded, csv, asks, faults, blurred>>

(* appendTransactionsToCsv, which only logs its errors.  A file that is    *)
(* not there is made, without a header.                                    *)
ToCharity == [recipient |-> "charity", status |-> "success"]
AppendToCsv(rows) ==
    \/ csv' = [there |-> TRUE, rows |-> csv.rows \cup rows] /\ UNCHANGED faults
    \/ Fault /\ UNCHANGED csv
Write ==
    /\ at["payout"] = "write"
    /\ AppendToCsv(results \cup {ToCharity})
    /\ at' = [at EXCEPT !["payout"] = "told"]
    /\ told' = [told EXCEPT !.payout = "good"]
    /\ UNCHANGED <<Keys, wallet, Money, asks>>

(* executeTradeAndCharityTransfer: the charity first, then the trade, each *)
(* of which may have been made although it fails.                          *)
Give ==
    /\ at["trade"] = "give"
    /\ \/ given' = given + 1 /\ at' = [at EXCEPT !["trade"] = "swap"]
          /\ UNCHANGED <<told, faults, blurred>>
       \/ Fail("trade") /\ UNCHANGED <<given, faults, blurred>>
       \/ Fault /\ Fail("trade") /\ given' = given + 1 /\ blurred' = TRUE
    /\ UNCHANGED <<Keys, wallet, wanted, todo, results, paid, traded, csv, asks, refused>>

Swap ==
    /\ at["trade"] = "swap"
    /\ \/ traded' = traded + 1 /\ at' = [at EXCEPT !["trade"] = "told"]
          /\ told' = [told EXCEPT !.trade = "good"] /\ AppendToCsv({ToCharity}) /\ UNCHANGED blurred
       \/ Fault /\ Fail("trade") /\ traded' = traded + 1 /\ blurred' = TRUE /\ UNCHANGED csv
       \/ Fault /\ Fail("trade") /\ UNCHANGED <<traded, blurred, csv>>
    /\ UNCHANGED <<Keys, wallet, wanted, todo, results, paid, given, asks, refused>>

(* The process ends and starts again, reading the character's file; it may *)
(* end between the two writes.                                             *)
Unsaved == {wallet[j] : j \in {k \in Jobs : at[k] = "save"}}
Restart ==
    /\ Fault
    /\ file' \in {file} \cup {[file EXCEPT !.id = w] : w \in Unsaved}
    /\ settings' = file'
    /\ lost' = lost \cup Unsaved
    /\ at' = [j \in Jobs |-> "idle"]
    /\ todo' = {} /\ results' = {}
    /\ blurred' = (blurred \/ \E j \in Jobs : at[j] \notin Ends)
    /\ told' = [j \in DOMAIN told |-> IF at[j] \in Ends THEN told[j] ELSE "nothing"]
    /\ UNCHANGED <<seedFile, made, wallet, wanted, paid, given, traded, csv, asks, refused>>

Work == \/ Header \/ Looked \/ PayCharity \/ Write \/ Give \/ Swap
        \/ \E j \in Jobs : InitializeWallet(j) \/ SaveKeys(j)
        \/ \E r \in Recipients : Pay(r)
Next == Work \/ Restart \/ Look \/ \E j \in Jobs : Ask(j)

----------------------------------------------------------------------------
TypeOK ==
    /\ {settings, file} \subseteq [id : 0 .. MaxWallets, seed : 0 .. MaxWallets]
    /\ seedFile \cup lost \subseteq Wallets /\ made \in 0 .. MaxWallets
    /\ wallet \in [Jobs -> 0 .. MaxWallets]
    /\ todo \subseteq wanted /\ wanted \subseteq Recipients
    /\ told \in [{"payout", "trade"} -> {"nothing", "bad", "good"}]

Kept == {w \in Wallets : w \in seedFile \/ w = file.seed}

(* Once the saving of one wallet went through, a seed can be found, however *)
(* many calls overwrite it, fail halfway through the two files or end with *)
(* the process; and the file names one wallet with the seed of another     *)
(* only after a failure.                                                   *)
SeedsKept ==
    /\ (\E w \in 1 .. made : w \notin lost \cup Unsaved) => Kept # {}
    /\ file.id # file.seed => faults > 0

(* A recipient is paid again only after the charity's payment was refused, *)
(* which makes of the whole payout a failed one, or after an answer was    *)
(* lost; and what the user is told of a payout is what happened.           *)
PaidTwiceHasCause ==
    /\ (\E r \in Recipients : paid[r] > 1) => refused \/ blurred
    /\ told.payout = "good" /\ ~blurred /\ at["payout"] = "told" =>
          \A x \in results : x.status = "success" => paid[x.recipient] > 0
    /\ given > 0 /\ traded = 0 /\ at["trade"] \in Ends /\ ~blurred => told.trade = "bad"

(* Every job ends. *)
Quiet == \A j \in Jobs : at[j] \in Ends
============================================================================
