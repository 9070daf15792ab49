------------------------------- MODULE Trust -------------------------------
(***************************************************************************)
(* Who recommended which token, and what came of it: the trust evaluator   *)
(* and the swap action of plugin-solana over TokenProvider and             *)
(* TrustScoreDatabase.                                                     *)
(*                                                                         *)
(* For each recommendation the evaluator finds the token's address, opens  *)
(* a TrustScoreDatabase in the agent's own tables and a manager, which     *)
(* consumes the queue of sell messages from then on, stores the            *)
(* recommendation as a memory, and asks the market whether to record a     *)
(* simulated trade.  A swap does the same with a database in memory that   *)
(* nobody else sees.  What the market is asked for is looked for in a      *)
(* cache first, by a call whose promise most methods forget to await.      *)
(*                                                                         *)
(* The tables: better-sqlite3 refuses a statement whose counts differ or   *)
(* that binds a Date or a boolean; every method turns the error into       *)
(* false, which no caller looks at.                                        *)
(***************************************************************************)
EXTENDS Naturals

CONSTANTS
    Users,       \* the participants of the room
    First,       \* the one getParticipantsForRoom lists first
    Tokens,
    MaxManagers, \* bound: managers made by one process
    MaxRestarts  \* bound: restarts of the process

TrustAssumption == MaxManagers \in Nat /\ MaxRestarts \in Nat

VARIABLES
    db,       \* the tables in the agent's database
    cache,    \* the entries of solana/tokens, "null" for none
    memories, \* the recommendations table: who was named, who is credited
    inflight, \* recommendations waiting for the market
    managers, \* consumers of the queue: over the agent's tables, or a swap's
    watching, \* runningProcesses of the managers: [manager, token]
    lost,     \* tokens whose sell message was acknowledged in vain
    swaps,    \* what confirmed swaps told the user
    asked,    \* what this process has asked the market for, for recommendations
    alive,    \* no rejection was left unhandled
    restarts

vars == <<db, cache, memories, inflight, managers, watching, lost, swaps, asked, alive, restarts>>

Uuid(x) == [uuid |-> x]

Empty == [schema |-> FALSE, keys |-> FALSE, recommenders |-> {}, metrics |-> {},
          performance |-> {}, trades |-> {}, recommendations |-> {},
          transactions |-> {}]

Kinds == {"security", "codex", "trade", "dex", "prices", "holders", "search"}

Init ==
    /\ db = Empty /\ cache = [k \in Kinds |-> "null"] /\ alive = TRUE
    /\ memories = {} /\ inflight = {}
    /\ managers = [own |-> 0, swaps |-> 0] /\ watching = {} /\ lost = {}
    /\ swaps = {} /\ asked = {}
    /\ restarts = 0

----------------------------------------------------------------------------
(* TokenProvider.  getCachedData returns a promise, and what is not awaited *)
(* is something, whatever it will be: the entry, or null.  The market is   *)
(* asked for what is not seen there.                                       *)
Seen(entry) == TRUE
Missing(kinds) == {k \in kinds : ~Seen(cache[k])}
Cached(entry, answers) == IF Seen(entry) THEN {entry} ELSE answers

(* fetchWithRetry asks three times, and throws. *)
FetchWithRetry == {"data", "fails"}
FetchTokenSecurity == Cached(cache.security, FetchWithRetry)
FetchTokenCodex == Cached(cache.codex, {"data", "empty"})
FetchTokenTradeData == Cached(cache.trade, {"data", "fails"})
FetchDexScreenerData == Cached(cache.dex, {"data", "empty"})
FetchPrices == Cached(cache.prices, FetchWithRetry)
FetchHolderList == Cached(cache.holders, {"data", "fails"})
(* The one that awaits the cache, and catches what fails. *)
SearchDexScreenerData == IF cache.search # "null" THEN {cache.search} ELSE {"data", "null"}

(* WalletProvider: its cache begins empty and ends with the call.  The key *)
(* of every request is a setting of the runtime, which must be there.      *)
FetchWalletPrices(runtime) == IF runtime = "null" THEN {"fails"} ELSE FetchWithRetry
FetchPortfolioValue(runtime) == FetchWalletPrices(runtime)
(* An error is no token. *)
GetTokenFromWallet ==
    {IF p = "fails" THEN "null" ELSE "address" : p \in FetchPortfolioValue("agent")}
      \cup {"null"}

(* What is null has no pairs, prices, holders or changes to read. *)
Needed(results) == {IF r = "data" THEN r ELSE "fails" : r \in results} \cup {"fails"}
CalculateBuyAmounts == Needed(FetchPrices)
GetProcessedTokenData ==
    IF FetchTokenSecurity = {"fails"} THEN {"fails"}
    ELSE Needed(FetchTokenCodex) \cap Needed(FetchTokenTradeData)
         \cap Needed(FetchDexScreenerData) \cap Needed(FetchHolderList)

(* The statements: how many columns, values, placeholders and parameters   *)
(* each has, and whether all of them can be bound.                         *)
Accepted(s) == s.columns = s.values /\ s.places = s.bound /\ s.binds

InsertTrade ==
    [columns |-> 22, values |-> 22, places |-> 22, bound |-> 22, binds |-> TRUE]
(* sell_recommender_id is not among the parameters. *)
UpdateTrade ==
    [columns |-> 13, values |-> 13, places |-> 16, bound |-> 15, binds |-> TRUE]
(* timestamp is a Date. *)
InsertRecommendation ==
    [columns |-> 7, values |-> 7, places |-> 7, bound |-> 7, binds |-> FALSE]
(* Twelve values for seventeen columns. *)
UpsertPerformance ==
    [columns |-> 17, values |-> 12, places |-> 11, bound |-> 16, binds |-> TRUE]
(* isSimulation is a boolean, and one value is missing. *)
InsertTransaction ==
    [columns |-> 7, values |-> 6, places |-> 6, bound |-> 7, binds |-> FALSE]

(* The constructor: foreign keys are turned on, for the connection, only   *)
(* by the process that makes the tables.                                   *)
Opened(d) == IF d.schema THEN d ELSE [d EXCEPT !.schema = TRUE, !.keys = TRUE]

GetRecommender(d, x) == {r \in d.recommenders : x = r.id \/ x = r.address}

(* ON CONFLICT(address) DO NOTHING. *)
AddRecommender(d, x) ==
    IF \E r \in d.recommenders : r.address = x THEN d
    ELSE [d EXCEPT !.recommenders = @ \cup {[id |-> Uuid(x), address |-> x]}]

InitializeMetrics(d, rows) == [d EXCEPT !.metrics = @ \cup {r.id : r \in rows}]

(* One transaction: the row and its metrics. *)
GetOrCreate(d, x) ==
    LET e == IF GetRecommender(d, x) = {} THEN AddRecommender(d, x) ELSE d
    IN  InitializeMetrics(e, GetRecommender(e, x))

IdOf(d, x) == (CHOOSE r \in GetRecommender(d, x) : TRUE).id

(* FOREIGN KEY (recommender_id) and FOREIGN KEY (token_address). *)
Refers(d, id, t) == t \in d.performance /\ \E r \in d.recommenders : r.id = id

AddTradePerformance(d, id, t) ==
    IF Accepted(InsertTrade) /\ (d.keys => Refers(d, id, t))
    THEN [d EXCEPT !.trades = @ \cup {[recommender |-> id, token |-> t, sold |-> FALSE]}]
    ELSE d

AddTokenRecommendation(d, id, t) ==
    IF Accepted(InsertRecommendation) /\ (d.keys => Refers(d, id, t))
    THEN [d EXCEPT !.recommendations = @ \cup {[recommender |-> id, token |-> t]}]
    ELSE d

UpsertTokenPerformance(d, t) ==
    IF Accepted(UpsertPerformance) THEN [d EXCEPT !.performance = @ \cup {t}] ELSE d

AddTransaction(d, t) ==
    IF Accepted(InsertTransaction) /\ (d.keys => t \in d.performance)
    THEN [d EXCEPT !.transactions = @ \cup {t}] ELSE d

LatestTrade(d, id, t) == {r \in d.trades : r.recommender = id /\ r.token = t}

UpdateTradeOnSell(d, id, t) ==
    IF Accepted(UpdateTrade)
    THEN [d EXCEPT !.trades = (@ \ LatestTrade(d, id, t))
                     \cup {[r EXCEPT !.sold = TRUE] : r \in LatestTrade(d, id, t)}]
    ELSE d

(* createTradePerformance once the market has answered.  The trade comes   *)
(* before the row of the token it refers to, and the recommendation has    *)
(* the id that was asked for, not the recommender's.                       *)
Created(d, x, t, simulated) ==
    LET traded == AddTokenRecommendation(AddTradePerformance(d, IdOf(d, x), t), x, t)
        known == UpsertTokenPerformance(traded, t)
    IN  IF simulated THEN AddTransaction(known, t) ELSE known

(* updateSellDetails reads the latest trade, and a field of it. *)
SellThrows(d, x, t) == LatestTrade(d, IdOf(d, x), t) = {}
Sold(d, x, t) == AddTransaction(UpdateTradeOnSell(d, IdOf(d, x), t), t)

----------------------------------------------------------------------------
(* participants.find is given an async function, whose promise is true.    *)
Credited(named) == First

(* Every manager starts a consumer, which nothing ever closes. *)
Consume(kind) ==
    /\ alive /\ managers.own + managers.swaps < MaxManagers
    /\ managers' = [managers EXCEPT ![kind] = @ + 1]

(* A ticker that the wallet does not hold is searched for.  Who is not     *)
(* found is passed over; the rest is a database, a manager and a memory.   *)
Locate(given) ==
    \E held \in GetTokenFromWallet :
        IF given \/ held = "address" THEN UNCHANGED cache
        ELSE \E r \in SearchDexScreenerData : r = "data" /\ cache' = [cache EXCEPT !.search = r]

Recommend(named, t, given) ==
    /\ Consume("own") /\ Locate(given)
    /\ db' = Opened(db)
    /\ memories' = memories \cup {[named |-> named, user |-> Credited(named), token |-> t]}
    /\ inflight' = inflight \cup {[user |-> Credited(named), token |-> t, by |-> managers'.own]}
    /\ UNCHANGED <<watching, lost, swaps, asked, alive, restarts>>

(* processTokenPerformance: without the token's row it throws, and logs.   *)
Watched(d, p) ==
    IF p.token \in d.performance THEN watching \cup {[manager |-> p.by, token |-> p.token]}
    ELSE watching

(* Whether the market lets the agent trade, and the recommendation is to   *)
(* buy.                                                                    *)
ShouldTradeToken == {IF p = "fails" THEN "fails" ELSE "yes" : p \in GetProcessedTokenData}
                      \cup {"no" : p \in GetProcessedTokenData \ {"fails"}}

(* calculateBuyAmounts, which begins with the pairs and prices of the      *)
(* token, shouldTradeToken and createTradePerformance.  The evaluator's    *)
(* handler catches nothing and evaluate does not await it: a rejection     *)
(* ends the process.                                                       *)
Trade(p) ==
    /\ alive
    /\ \E amounts \in CalculateBuyAmounts, should \in ShouldTradeToken,
          prices \in FetchWalletPrices("agent") :
          LET trades == amounts # "fails" /\ should = "yes"
              known == IF trades THEN GetOrCreate(db, p.user) ELSE db
              d == IF trades /\ prices # "fails" THEN Created(known, p.user, p.token, TRUE)
                   ELSE known
          IN  /\ db' = d
              /\ watching' = IF trades /\ prices # "fails" THEN Watched(d, p) ELSE watching
              /\ alive' = ~(amounts = "fails" \/ should = "fails" \/ (trades /\ prices = "fails"))
    /\ inflight' = inflight \ {p}
    /\ asked' = asked \cup Missing({"dex", "prices"})
    /\ UNCHANGED <<cache, memories, managers, lost, swaps, restarts>>

(* A message of the queue: one of the managers takes it, acknowledges it,  *)
(* and destructures the row of the token, which its tables may not hold.   *)
(* The prices are asked for without a runtime.                             *)
SellMessage(x, t) ==
    /\ alive
    /\ \E k \in 1 .. managers.own, processed \in GetProcessedTokenData,
          prices \in FetchWalletPrices("null") :
          LET d == GetOrCreate(db, x)
              found == t \in db.performance
              sells == found /\ processed = "data" /\ prices = "data" /\ ~SellThrows(d, x, t)
          IN  /\ db' = IF sells THEN Sold(d, x, t) ELSE IF found THEN d ELSE db
              /\ lost' = IF sells THEN lost ELSE lost \cup {t}
              /\ watching' = IF found THEN watching \ {[manager |-> k, token |-> t]}
                             ELSE watching
    /\ UNCHANGED <<cache, memories, inflight, managers, swaps, asked, alive, restarts>>

(* One that was made for a swap looks in a database without the token.     *)
SellMessageLost(t) ==
    /\ alive /\ managers.swaps > 0
    /\ lost' = lost \cup {t}
    /\ UNCHANGED <<db, cache, memories, inflight, managers, watching, swaps, asked, alive, restarts>>

(* A swap of user x confirmed by the chain, saved in a database of its own *)
(* after the market was asked.  Whatever throws is reported as failure.    *)
Saves(type, x, t) ==
    LET d == GetOrCreate(Opened(Empty), x)
    IN  type = "buy" \/ ~SellThrows(d, IdOf(d, x), t)

ConfirmedSwap(x, type, t) ==
    /\ Consume("swaps")
    /\ \E processed \in GetProcessedTokenData, prices \in FetchWalletPrices("agent") :
          swaps' = swaps \cup {[type |-> type,
                                completed |-> /\ processed = "data" /\ prices = "data"
                                              /\ Saves(type, x, t)]}
    /\ UNCHANGED <<db, cache, memories, inflight, watching, lost, asked, alive, restarts>>

(* The state of any message is composed with the trust score provider,     *)
(* which opens the database to look for the score of the message's user.   *)
Provide ==
    /\ alive /\ db' = Opened(db)
    /\ UNCHANGED <<cache, memories, inflight, managers, watching, lost, swaps, asked, alive, restarts>>

(* Entries live for five minutes. *)
Expire ==
    /\ alive /\ \E k \in Kinds : cache[k] # "null" /\ cache' = [cache EXCEPT ![k] = "null"]
    /\ UNCHANGED <<db, memories, inflight, managers, watching, lost, swaps, asked, alive, restarts>>

(* A new process: the adapter turns foreign keys off when it starts. *)
Restart ==
    /\ restarts < MaxRestarts
    /\ restarts' = restarts + 1 /\ alive' = TRUE
    /\ db' = [db EXCEPT !.keys = FALSE]
    /\ inflight' = {} /\ asked' = {} /\ managers' = [own |-> 0, swaps |-> 0] /\ watching' = {}
    /\ UNCHANGED <<cache, memories, lost, swaps>>

Next ==
    \/ \E u \in Users, t \in Tokens :
          SellMessage(u, t) \/ \E given \in BOOLEAN : Recommend(u, t, given)
    \/ \E t \in Tokens : SellMessageLost(t)
    \/ \E u \in Users, t \in Tokens, type \in {"buy", "sell"} : ConfirmedSwap(u, type, t)
    \/ \E p \in inflight : Trade(p)
    \/ Provide \/ Expire \/ Restart

Spec == Init /\ [][Next]_vars

----------------------------------------------------------------------------
(* Types, and every recommender has metrics (one transaction makes both).  *)
TypeOK ==
    /\ db.recommenders \subseteq [id : {Uuid(u) : u \in Users}, address : Users]
    /\ db.metrics = {r.id : r \in db.recommenders}
    /\ db.schema \in BOOLEAN /\ db.keys \in BOOLEAN /\ alive \in BOOLEAN
    /\ cache \in [Kinds -> {"null", "data", "empty"}]
    /\ managers.own + managers.swaps \in 0 .. MaxManagers /\ restarts \in 0 .. MaxRestarts
    /\ lost \subseteq Tokens /\ asked \subseteq Kinds
    /\ \A p \in inflight : p.by \in 1 .. managers.own

(* What the cache does not hold is asked of the market: a recommendation   *)
(* that was decided on while there was no entry for the token's pairs has  *)
(* had them asked for.                                                     *)
PairsAreAskedFor ==
    [][(\E p \in inflight : p \notin inflight') /\ restarts' = restarts /\ cache.dex = "null"
         => "dex" \in asked']_vars

(* A recommendation is credited to the participant it names. *)
CreditedToNamed == \A m \in memories : m.user = m.named

============================================================================
