------------------------------ MODULE Reactions ----------------------------
(***************************************************************************)
(* Reactions of Discord users to one message with one emoji, put and taken *)
(* back several times: every event is stored as a memory, by handlers that *)
(* interleave at their awaits.  The id of an addition is made of its       *)
(* millisecond; that of a removal is not, and the accounts of the two are  *)
(* made of different ids of the user, both named after the author of the   *)
(* message that was reacted to.                                            *)
(***************************************************************************)
EXTENDS Naturals

CONSTANTS
    Users,
    MaxTime,   \* bound: milliseconds that pass
    MaxEvents, \* bound: times one user puts or takes back the reaction
    MaxFaults  \* bound: failures of Discord and the database

ReactionsAssumption == MaxTime \in Nat /\ MaxEvents \in Nat /\ MaxFaults \in Nat

Added == {n \in 1 .. MaxEvents : n % 2 = 1}

VARIABLES
    alive, now,
    db,    \* which database holds the memories
    last,  \* last[u]: events of user u that happened
    at,    \* at[u][n]: the await the handler of the n-th event is in
    stamp, \* stamp[u][n]: the millisecond it read
    rows,  \* memories: [user, kind, stamp] is the id, event what it tells of
    named, \* accounts, each named after the author of the message
    faults

vars == <<alive, now, db, last, at, stamp, rows, named, faults>>

Init ==
    /\ alive = TRUE /\ now = 0
    /\ db \in {"sqlite", "postgres"}
    /\ last = [u \in Users |-> 0]
    /\ at = [u \in Users |-> [n \in 1 .. MaxEvents |-> "new"]]
    /\ stamp = [u \in Users |-> [n \in 1 .. MaxEvents |-> 0]]
    /\ rows = {} /\ named = {}
    /\ faults = 0

Tick ==
    /\ alive /\ now < MaxTime
    /\ now' = now + 1
    /\ UNCHANGED <<alive, db, last, at, stamp, rows, named, faults>>

Go(u, n, place) == at' = [at EXCEPT ![u][n] = place]
Running(u, n) == alive /\ at[u][n] \in {"fetch", "connect", "look", "insert"}
Kind(n) == IF n \in Added THEN "added" ELSE "removed"

(* The user puts the reaction, or takes it back. *)
Toggle(u) ==
    /\ alive /\ last[u] < MaxEvents
    /\ last' = [last EXCEPT ![u] = @ + 1]
    /\ Go(u, last[u] + 1, "fetch")
    /\ UNCHANGED <<alive, now, db, stamp, rows, named, faults>>

(* reaction.fetch of a message that is not cached, then the ids. *)
Fetch(u, n) ==
    /\ Running(u, n) /\ at[u][n] = "fetch"
    /\ stamp' = [stamp EXCEPT ![u][n] = IF n \in Added THEN now ELSE 0]
    /\ Go(u, n, "connect")
    /\ UNCHANGED <<alive, now, db, last, rows, named, faults>>

Connect(u, n) ==
    /\ Running(u, n) /\ at[u][n] = "connect"
    /\ named' = named \cup {<<u, Kind(n)>>}
    /\ Go(u, n, "look")
    /\ UNCHANGED <<alive, now, db, last, stamp, rows, faults>>

(* createMemory skips an id that is taken; of two that found it free, the  *)
(* second replaces the first one's row on sqlite and is refused, which is  *)
(* caught, on postgres.                                                    *)
(* Mutant: the id of an addition is not made of its millisecond.           *)
Id_Timeless(row) == <<row.user, row.kind>>
Id(row) == <<row.user, row.kind, row.stamp>>

Row(u, n) == [user |-> u, kind |-> Kind(n), stamp |-> stamp[u][n], event |-> n]
Taken(u, n) == {row \in rows : Id(row) = Id(Row(u, n))}

Look(u, n) ==
    /\ Running(u, n) /\ at[u][n] = "look"
    /\ Go(u, n, IF Taken(u, n) = {} THEN "insert" ELSE "done")
    /\ UNCHANGED <<alive, now, db, last, stamp, rows, named, faults>>

Insert(u, n) ==
    /\ Running(u, n) /\ at[u][n] = "insert"
    /\ rows' = IF db = "postgres" /\ Taken(u, n) # {} THEN rows
               ELSE (rows \ Taken(u, n)) \cup {Row(u, n)}
    /\ Go(u, n, "done")
    /\ UNCHANGED <<alive, now, db, last, stamp, named, faults>>

(* All errors are caught but one: that of the connection of a user who     *)
(* takes a reaction back ends the process.                                 *)
Throw(u, n) ==
    /\ Running(u, n) /\ faults < MaxFaults
    /\ faults' = faults + 1
    /\ IF at[u][n] = "connect" /\ n \notin Added THEN alive' = FALSE /\ UNCHANGED at
       ELSE Go(u, n, "lost") /\ UNCHANGED alive
    /\ UNCHANGED <<now, db, last, stamp, rows, named>>

Step(u, n) == Fetch(u, n) \/ Connect(u, n) \/ Look(u, n) \/ Insert(u, n) \/ Throw(u, n)

Next == Tick \/ \E u \in Users : Toggle(u) \/ \E n \in 1 .. MaxEvents : Step(u, n)

Spec == Init /\ [][Next]_vars /\ WF_vars(\E u \in Users, n \in 1 .. MaxEvents : Step(u, n))

----------------------------------------------------------------------------
(* Types of the handlers and the memories. *)
TypeOK ==
    /\ alive \in BOOLEAN /\ now \in 0 .. MaxTime /\ faults \in 0 .. MaxFaults
    /\ rows \subseteq [user : Users, kind : {"added", "removed"}, stamp : 0 .. MaxTime,
                       event : 1 .. MaxEvents]
    /\ named \subseteq Users \X {"added", "removed"}

(* An addition that was handled is in the memories, under its own event or *)
(* that of another of the same millisecond; of the removals of one user    *)
(* the memories hold one, however often the reaction was taken back.       *)
Remembered ==
    /\ \A u \in Users, n \in 1 .. MaxEvents : at[u][n] = "done" =>
          \E row \in rows : /\ row.user = u /\ row.kind = Kind(n)
                            /\ n \in Added => row.event = n \/ stamp[u][row.event] = stamp[u][n]
    /\ \A r, s \in {row \in rows : row.kind = "removed"} : r.user = s.user => r = s

(* Nothing but a failed connection after a removal ends the process. *)
Survives ==
    ~alive => \E u \in Users, n \in 1 .. MaxEvents \ Added : at[u][n] = "connect"

(* Again and again every event is handled, or the process has ended. *)
Quiet == \A u \in Users, n \in 1 .. MaxEvents : ~Running(u, n)
HandlersEnd == []<>Quiet

============================================================================
