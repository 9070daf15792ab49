-------------------------------- MODULE Pool -------------------------------
(***************************************************************************)
(* The connection pool of PostgresDatabaseAdapter.  An error of an idle    *)
(* connection ends the pool, and when its queries are done a new one takes *)
(* its place; queries that find the pool closing are tried again later.    *)
(* Nobody awaits the handler of the error, so an error of its own ends the *)
(* process; and only the first pool has a listener for errors.  What an    *)
(* ended pool refuses is that of the pg library.                           *)
(***************************************************************************)
EXTENDS Naturals

CONSTANTS
    Queries,    \* calls under withRetry
    MaxRetries, \* this.maxRetries
    MaxErrors,  \* bound: errors of idle connections
    MaxFaults   \* bound: queries and tests that fail

PoolAssumption ==
    MaxRetries \in Nat \ {0} /\ MaxErrors \in Nat /\ MaxFaults \in Nat

VARIABLES
    alive,   \* the process has not ended
    cur,     \* this.pool, by its number
    pool,    \* pool[p]: the state of the p-th pool
    query,   \* query[q]: [at, attempt, pool]
    handler, \* handler[h]: the h-th handlePoolError, [at, pool]
    errors, badTest, faults

vars == <<alive, cur, pool, query, handler, errors, badTest, faults>>

Pools == 0 .. MaxErrors
Handlers == 1 .. MaxErrors

Init ==
    /\ alive = TRUE
    /\ cur = 0
    /\ pool = [p \in Pools |-> IF p = 0 THEN "open" ELSE "none"]
    /\ query = [q \in Queries |-> [at |-> "waiting", attempt |-> 1, pool |-> 0]]
    /\ handler = [h \in Handlers |-> [at |-> "none", pool |-> 0]]
    /\ errors = 0
    /\ badTest = FALSE
    /\ faults = 0

Fault == faults < MaxFaults /\ faults' = faults + 1
(* Mutant: the test does not release its client. *)
InUse_Held(p) ==
    \/ \E q \in Queries : query[q].at = "running" /\ query[q].pool = p
    \/ \E h \in Handlers : handler[h].at \in {"testing", "done"} /\ handler[h].pool = p
InUse(p) ==
    \/ \E q \in Queries : query[q].at = "running" /\ query[q].pool = p
    \/ \E h \in Handlers : handler[h].at = "testing" /\ handler[h].pool = p

----------------------------------------------------------------------------
(* withRetry. *)
Failed(q) ==
    query' = [query EXCEPT ![q].at = IF @ # "failed" /\ query[q].attempt < MaxRetries
                                     THEN "waiting" ELSE "failed",
                           ![q].attempt = @ + 1]

(* An attempt takes the pool of the moment. *)
Attempt(q) ==
    /\ alive /\ query[q].at = "waiting"
    /\ IF pool[cur] = "open"
       THEN query' = [query EXCEPT ![q].at = "running", ![q].pool = cur]
       ELSE Failed(q)
    /\ UNCHANGED <<alive, cur, pool, handler, errors, badTest, faults>>

QueryReturns(q) ==
    /\ alive /\ query[q].at = "running"
    /\ \/ query' = [query EXCEPT ![q].at = "done"] /\ UNCHANGED faults
       \/ Failed(q) /\ Fault
    /\ UNCHANGED <<alive, cur, pool, handler, errors, badTest>>

----------------------------------------------------------------------------
(* A connection of pool p fails while nobody uses it.  handlePoolError     *)
(* ends this.pool, whichever pool the error came from.                     *)
IdleError(p) ==
    /\ alive /\ pool[p] # "none"
    /\ p # 0 => pool[p] # "ended"
    /\ errors < MaxErrors
    /\ errors' = errors + 1
    /\ IF p = 0 /\ pool[cur] = "open"
       THEN /\ pool' = [pool EXCEPT ![cur] = "ending"]
            /\ handler' = [handler EXCEPT ![errors'] = [at |-> "ending", pool |-> cur]]
            /\ UNCHANGED alive
       ELSE alive' = FALSE /\ UNCHANGED <<pool, handler>>
    /\ UNCHANGED <<cur, query, badTest, faults>>

(* The last client is returned to a pool that is ending. *)
Drained(p) ==
    /\ alive /\ pool[p] = "ending" /\ ~InUse(p)
    /\ pool' = [pool EXCEPT ![p] = "ended"]
    /\ UNCHANGED <<alive, cur, query, handler, errors, badTest, faults>>

(* Mutant: the new pool is not assigned. *)
Replaced_Not == cur
Replaced == cur + 1

(* new Pool, then testConnection. *)
Replace(h) ==
    /\ alive /\ handler[h].at = "ending" /\ pool[handler[h].pool] = "ended"
    /\ cur' = Replaced
    /\ IF pool[cur'] = "none"
       THEN /\ pool' = [pool EXCEPT ![cur'] = "open"]
            /\ handler' = [handler EXCEPT ![h] = [at |-> "testing", pool |-> cur']]
            /\ UNCHANGED alive
       ELSE alive' = FALSE /\ UNCHANGED <<pool, handler>>
    /\ UNCHANGED <<query, errors, badTest, faults>>

TestReturns(h) ==
    /\ alive /\ handler[h].at = "testing"
    /\ \/ /\ handler' = [handler EXCEPT ![h].at = "done"]
          /\ UNCHANGED <<alive, badTest, faults>>
       \/ /\ Fault
          /\ alive' = FALSE /\ badTest' = TRUE
          /\ UNCHANGED handler
    /\ UNCHANGED <<cur, pool, query, errors>>

Continue ==
    \/ \E q \in Queries : Attempt(q) \/ QueryReturns(q)
    \/ \E p \in Pools : Drained(p)
    \/ \E h \in Handlers : Replace(h) \/ TestReturns(h)

Next == Continue \/ \E p \in Pools : IdleError(p)

(* Queries and connections end, well or badly, and timers fire. *)
Spec == Init /\ [][Next]_vars /\ WF_vars(Continue)

----------------------------------------------------------------------------
(* Types of the pool, the queries and the handlers. *)
TypeOK ==
    /\ alive \in BOOLEAN /\ badTest \in BOOLEAN
    /\ cur \in Pools
    /\ pool \in [Pools -> {"none", "open", "ending", "ended"}]
    /\ query \in [Queries -> [at : {"waiting", "running", "done", "failed"},
                              attempt : 1 .. MaxRetries + 1, pool : Pools]]
    /\ handler \in [Handlers -> [at : {"none", "ending", "testing", "done"}, pool : Pools]]
    /\ errors \in 0 .. MaxErrors /\ faults \in 0 .. MaxFaults

(* One error of an idle connection does not end the process unless the     *)
(* database cannot be reached any more.  (A second one can: it is an error *)
(* to end a pool that is ending, and the second pool has no listener.)     *)
SurvivesOneError == alive \/ badTest \/ errors > 1

(* A pool that was ended is replaced, unless the process ends. *)
Reconnects == (pool[cur] # "open") ~> (pool[cur] = "open" \/ ~alive)

============================================================================
