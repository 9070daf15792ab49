------------------------------- MODULE Cache -------------------------------
(***************************************************************************)
(* CacheManager over the cache table, for one key of one agent (entries of *)
(* different keys never meet).  An operation is sent to the adapter, takes *)
(* effect there, and is answered: other callers run in between.  get()     *)
(* deletes an entry it finds expired without waiting for the deletion.     *)
(***************************************************************************)
EXTENDS Naturals

CONSTANTS
    Callers,   \* concurrent activities using the cache
    Values,    \* what they store
    Expiries,  \* the expiry times they pass; 0 is "never"
    MaxTime,   \* bound on the clock
    MaxStray,  \* bound: deletions in flight at once
    MaxFaults  \* bound: operations that fail in the database

CacheAssumption ==
    Expiries \subseteq Nat /\ MaxTime \in Nat /\ MaxStray \in Nat /\ MaxFaults \in Nat

VARIABLES
    entry,   \* the row: a set of at most one [value, expires]
    caller,  \* caller[c]: what c is doing, with what it read or writes
    stray,   \* deletions of expired entries that nobody waits for
    now,     \* Date.now()
    faults,  \* operations that failed so far
    kept,    \* the last set written to the table, unless deleted since
    outlived \* whether an entry, in the table or being looked at, expired

vars == <<entry, caller, stray, now, faults, kept, outlived>>

Entries == [value : Values, expires : Expiries]
Idle == [op |-> "idle", seen |-> {}]
Ops == {"idle", "get", "inspect", "set", "stored", "delete"}
Do(c, op, seen) == caller' = [caller EXCEPT ![c] = [op |-> op, seen |-> seen]]

Init ==
    /\ entry = {}
    /\ caller = [c \in Callers |-> Idle]
    /\ stray = 0
    /\ now = 1
    /\ faults = 0
    /\ kept = {}
    /\ outlived = FALSE

Past(row, time) == \E e \in row : e.expires # 0 /\ e.expires <= time

(* Mutant: 0 means "already expired". *)
Fresh_Zero(e) == e.expires > now
Fresh(e) == e.expires = 0 \/ e.expires > now

----------------------------------------------------------------------------
Get(c) ==
    /\ caller[c].op = "idle"
    /\ Do(c, "get", {})
    /\ UNCHANGED <<entry, stray, now, faults, kept, outlived>>

ReadRow(c) ==
    /\ caller[c].op = "get"
    /\ Do(c, "inspect", entry)
    /\ UNCHANGED <<entry, stray, now, faults, kept, outlived>>

(* The postgres adapter turns a failed SELECT into undefined. *)
ReadFails(c) ==
    /\ caller[c].op = "get"
    /\ faults < MaxFaults
    /\ faults' = faults + 1
    /\ Do(c, "idle", {})
    /\ UNCHANGED <<entry, stray, now, kept, outlived>>

(* Hit, or undefined because nothing was read. *)
Answer(c) ==
    /\ caller[c].op = "inspect"
    /\ \A e \in caller[c].seen : Fresh(e)
    /\ Do(c, "idle", caller[c].seen)
    /\ UNCHANGED <<entry, stray, now, faults, kept, outlived>>

(* undefined, and the deletion of the key is started. *)
(* Mutant: the deletion is forgotten.                 *)
Expired_Leave(n) == n
Expired(n) == n + 1

AnswerExpired(c) ==
    /\ caller[c].op = "inspect"
    /\ \E e \in caller[c].seen : ~Fresh(e)
    /\ stray < MaxStray
    /\ stray' = Expired(stray)
    /\ Do(c, "idle", {})
    /\ UNCHANGED <<entry, now, faults, kept, outlived>>

StrayDelete ==
    /\ stray > 0
    /\ stray' = stray - 1
    /\ entry' = {}
    /\ UNCHANGED <<caller, now, faults, kept, outlived>>

(* The error of the deletion goes to .catch(() => {}). *)
StrayFails ==
    /\ stray > 0
    /\ faults < MaxFaults
    /\ faults' = faults + 1
    /\ stray' = stray - 1
    /\ UNCHANGED <<entry, caller, now, kept, outlived>>

----------------------------------------------------------------------------
(* Mutant: the expiry is taken for a duration. *)
Set_Relative(c, v, x) ==
    /\ caller[c].op = "idle"
    /\ Do(c, "set", {[value |-> v, expires |-> now + x]})
    /\ UNCHANGED <<entry, stray, now, faults, kept, outlived>>
Set(c, v, x) ==
    /\ caller[c].op = "idle"
    /\ Do(c, "set", {[value |-> v, expires |-> x]})
    /\ UNCHANGED <<entry, stray, now, faults, kept, outlived>>

(* kept follows the order in which the table was written. *)
WriteRow(c) ==
    /\ caller[c].op = "set"
    /\ entry' = caller[c].seen
    /\ kept' = caller[c].seen
    /\ outlived' = (outlived \/ Past(caller[c].seen, now))
    /\ Do(c, "stored", {})
    /\ UNCHANGED <<stray, now, faults>>

(* The adapters answer true or false; CacheManager.set drops the answer. *)
Acknowledge(c) ==
    /\ caller[c].op = "stored"
    /\ Do(c, "idle", {})
    /\ UNCHANGED <<entry, stray, now, faults, kept, outlived>>

WriteFails(c) ==
    /\ caller[c].op = "set"
    /\ faults < MaxFaults
    /\ faults' = faults + 1
    /\ Do(c, "stored", {})
    /\ UNCHANGED <<entry, stray, now, kept, outlived>>

Delete(c) ==
    /\ caller[c].op = "idle"
    /\ Do(c, "delete", {})
    /\ UNCHANGED <<entry, stray, now, faults, kept, outlived>>

DeleteRow(c) ==
    /\ caller[c].op = "delete"
    /\ entry' = {}
    /\ kept' = {}
    /\ Do(c, "idle", {})
    /\ UNCHANGED <<stray, now, faults, outlived>>

DeleteFails(c) ==
    /\ caller[c].op = "delete"
    /\ faults < MaxFaults
    /\ faults' = faults + 1
    /\ Do(c, "idle", {})
    /\ UNCHANGED <<entry, stray, now, kept, outlived>>

Tick ==
    /\ now < MaxTime
    /\ now' = now + 1
    /\ outlived' = (outlived \/ Past(entry \cup UNION {caller[c].seen : c \in Callers}, now + 1))
    /\ UNCHANGED <<entry, caller, stray, faults, kept>>

Call(c) ==
    \/ Get(c) \/ Delete(c)
    \/ \E v \in Values, x \in Expiries : Set(c, v, x)

Step(c) ==
    \/ ReadRow(c) \/ ReadFails(c) \/ Answer(c) \/ AnswerExpired(c)
    \/ WriteRow(c) \/ WriteFails(c) \/ Acknowledge(c)
    \/ DeleteRow(c) \/ DeleteFails(c)

Next ==
    \/ \E c \in Callers : Call(c) \/ Step(c)
    \/ StrayDelete \/ StrayFails
    \/ Tick

(* The database answers.  Nothing obliges anybody to call. *)
Spec == Init /\ [][Next]_vars /\ WF_vars(StrayDelete)
        /\ \A c \in Callers : WF_vars(Step(c))

----------------------------------------------------------------------------
(* Types of the row, the callers and the counters. *)
TypeOK ==
    /\ entry \subseteq Entries
    /\ caller \in [Callers -> [op : Ops, seen : SUBSET Entries]]
    /\ stray \in 0 .. MaxStray
    /\ now \in 1 .. MaxTime + 1
    /\ faults \in 0 .. MaxFaults
    /\ kept \subseteq Entries
    /\ outlived \in BOOLEAN

(* The test of the cache manager: what was set, and not deleted by anybody,*)
(* is what a get finds, with or without an expiry, as long as no entry     *)
(* expired in the table or in the hands of a get.  (If one did, the        *)
(* deletion that get starts and nobody awaits can hit a later value.)      *)
SetSticks == ~outlived => \A e \in kept : Fresh(e) /\ entry = {e}

(* An expired entry that was looked at does not stay in the table: unless  *)
(* the database failed, the deletion nobody waits for happens, or a new    *)
(* value is stored.                                                        *)
ExpiredPurged ==
    \A e \in Entries :
        ((\E c \in Callers : caller[c].op = "inspect" /\ caller[c].seen = {e} /\ ~Fresh(e))
         ~> (entry # {e} \/ faults > 0))

============================================================================
