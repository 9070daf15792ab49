----------------------------- MODULE Knowledge -----------------------------
(***************************************************************************)
(* Launching agents and ingesting their character knowledge.               *)
(*                                                                         *)
(* A process (agent/src/index.ts, startAgents) launches its characters one *)
(* after the other.  Launching one opens the database, initializes the     *)
(* runtime and, inside AgentRuntime.initialize, ingests every knowledge    *)
(* item of the character: look the document up, create the document        *)
(* memory, then embed and create one memory per fragment.  All processes   *)
(* share one database.  Each await of the code is a place where another    *)
(* process runs, the process dies, or the call fails.                      *)
(***************************************************************************)
EXTENDS Naturals, Sequences, FiniteSets

CONSTANTS
    Processes,   \* operating-system processes that share the database
    Agents,      \* character ids
    Items,       \* knowledge strings, identified with stringToUuid(item)
    Characters,  \* Characters[p]: the characters process p launches, in order
    KnowledgeOf, \* KnowledgeOf[a]: character.knowledge of agent a
    Fragments,   \* Fragments[i]: number of chunks splitChunks makes of item i
    MaxBoots,    \* bound: times a process is started
    MaxFaults,   \* bound: crashes and failed calls, over all processes
    NoAgent      \* owner of an id that is not in the memories table

ASSUME ConfigAssumption ==
    /\ Characters \in [Processes -> Seq(Agents)]
    /\ KnowledgeOf \in [Agents -> Seq(Items)]
    /\ Fragments \in [Items -> Nat]
    /\ MaxBoots \in Nat
    /\ MaxFaults \in Nat
    /\ NoAgent \notin Agents

VARIABLES
    owner,  \* owner[id]: agentId column of the memory with that id
    pc,     \* where each process is in startAgents .. createMemory
    cur,    \* cur[p]: index of the character being launched
    item,   \* item[p]: index of the knowledge item being processed
    frag,   \* frag[p]: index of the fragment being processed
    up,     \* up[p]: agents of p whose startAgent returned
    boots,  \* boots[p]: times p was started
    faults, \* crashes and failures so far
    adapter \* the database, "sqlite" or "postgres"; never changes

vars == <<owner, pc, cur, item, frag, up, boots, faults, adapter>>

----------------------------------------------------------------------------
(* The memories table.  The uuid of a document is a hash of its text, the  *)
(* uuid of a fragment a hash of the document's uuid and the chunk.  Both   *)
(* are the same for every agent.                                           *)

DocId(i) == <<i, 0>>
FragId(i, n) == <<i, n>>
Ids == UNION {{i} \X (0 .. Fragments[i]) : i \in Items}

Stored(id) == owner[id] # NoAgent

(* Steps of the launch that belong to one knowledge item. *)
ItemSteps == {"checkDocument", "insertDocument", "embed",
              "checkFragment", "insertFragment"}
(* Steps of knowledge.set after its document is in the table. *)
FragmentSteps == {"embed", "checkFragment", "insertFragment"}
Launching == ItemSteps \cup {"lookup"}
Steps == Launching \cup {"off", "launch", "idle"}

Agent(p) == Characters[p][cur[p]]
Item(p) == KnowledgeOf[Agent(p)][item[p]]

Init ==
    /\ owner = [id \in Ids |-> NoAgent]
    /\ pc = [p \in Processes |-> "off"]
    /\ cur = [p \in Processes |-> 1]
    /\ item = [p \in Processes |-> 1]
    /\ frag = [p \in Processes |-> 1]
    /\ up = [p \in Processes |-> {}]
    /\ boots = [p \in Processes |-> 0]
    /\ faults = 0
    /\ adapter \in {"sqlite", "postgres"}

Goto(p, step) == pc' = [pc EXCEPT ![p] = step]

----------------------------------------------------------------------------
(* startAgents: boot, then the loop over the characters. *)

Boot(p) ==
    /\ pc[p] = "off"
    /\ boots[p] < MaxBoots
    /\ boots' = [boots EXCEPT ![p] = @ + 1]
    /\ cur' = [cur EXCEPT ![p] = 1]
    /\ Goto(p, "launch")
    /\ UNCHANGED <<owner, item, frag, up, faults, adapter>>

LaunchAgent(p) ==
    /\ pc[p] = "launch"
    /\ cur[p] \in DOMAIN Characters[p]
    /\ item' = [item EXCEPT ![p] = 1]
    /\ Goto(p, "lookup")
    /\ UNCHANGED <<owner, cur, frag, up, boots, faults, adapter>>

AllLaunched(p) ==
    /\ pc[p] = "launch"
    /\ cur[p] \notin DOMAIN Characters[p]
    /\ Goto(p, "idle")
    /\ UNCHANGED <<owner, cur, item, frag, up, boots, faults, adapter>>

(* processCharacterKnowledge ran out of items: startAgent registers the    *)
(* runtime and the loop goes on with the next character.                   *)
AgentUp(p) ==
    /\ pc[p] = "lookup"
    /\ item[p] \notin DOMAIN KnowledgeOf[Agent(p)]
    /\ up' = [up EXCEPT ![p] = @ \cup {Agent(p)}]
    /\ cur' = [cur EXCEPT ![p] = @ + 1]
    /\ Goto(p, "launch")
    /\ UNCHANGED <<owner, item, frag, boots, faults, adapter>>

----------------------------------------------------------------------------
(* processCharacterKnowledge and knowledge.set. *)

(* Mutant: the loop forgets to advance. *)
NextItem_Same(p) == Goto(p, "lookup") /\ UNCHANGED item

NextItem(p) ==
    /\ item' = [item EXCEPT ![p] = @ + 1]
    /\ Goto(p, "lookup")

(* MemoryManager.getMemoryById hides rows of other agents. *)
Visible(p, id) == owner[id] = Agent(p)

LookupDocument(p) ==
    /\ pc[p] = "lookup"
    /\ item[p] \in DOMAIN KnowledgeOf[Agent(p)]
    /\ IF Visible(p, DocId(Item(p)))
       THEN NextItem(p)
       ELSE Goto(p, "checkDocument") /\ UNCHANGED item
    /\ UNCHANGED <<owner, cur, frag, up, boots, faults, adapter>>

(* MemoryManager.createMemory asks the adapter: a row of any agent counts. *)
(* Mutants: it asks getMemoryById of the manager; it does not ask.         *)
Exists_Own(p, id) == Visible(p, id)
Exists_Never(p, id) == FALSE
Exists(p, id) == Stored(id)

(* Mutants: the fragment loop starts at the second chunk, or at zero. *)
FirstFragment_Second == 2
FirstFragment_Zero == 0
FirstFragment == 1

(* Mutant: the document is left for later. *)
AfterCheck_Skip(p) == "embed"
AfterCheck(p) == IF Exists(p, DocId(Item(p))) THEN "embed" ELSE "insertDocument"

CheckDocument(p) ==
    /\ pc[p] = "checkDocument"
    /\ Goto(p, AfterCheck(p))
    /\ frag' = [frag EXCEPT ![p] = FirstFragment]
    /\ UNCHANGED <<owner, cur, item, up, boots, faults, adapter>>

(* INSERT OR REPLACE for sqlite.  A plain INSERT for postgres, which fails *)
(* when the id is taken, on every retry.                                   *)
CanInsert(id) == adapter = "postgres" => ~Stored(id)

InsertRow(p, id) ==
    /\ CanInsert(id)
    /\ owner' = [owner EXCEPT ![id] = Agent(p)]

InsertDocument(p) ==
    /\ pc[p] = "insertDocument"
    /\ InsertRow(p, DocId(Item(p)))
    /\ Goto(p, "embed")
    /\ UNCHANGED <<cur, item, frag, up, boots, faults, adapter>>

Embed(p) ==
    /\ pc[p] = "embed"
    /\ frag[p] <= Fragments[Item(p)]
    /\ Goto(p, "checkFragment")
    /\ UNCHANGED <<owner, cur, item, frag, up, boots, faults, adapter>>

(* Mutant: every second fragment is passed over. *)
NextFragment_Skip(p) ==
    /\ frag' = [frag EXCEPT ![p] = @ + 2]
    /\ Goto(p, "embed")

NextFragment(p) ==
    /\ frag' = [frag EXCEPT ![p] = @ + 1]
    /\ Goto(p, "embed")

CheckFragment(p) ==
    /\ pc[p] = "checkFragment"
    /\ IF Exists(p, FragId(Item(p), frag[p]))
       THEN NextFragment(p)
       ELSE Goto(p, "insertFragment") /\ UNCHANGED frag
    /\ UNCHANGED <<owner, cur, item, up, boots, faults, adapter>>

InsertFragment(p) ==
    /\ pc[p] = "insertFragment"
    /\ InsertRow(p, FragId(Item(p), frag[p]))
    /\ NextFragment(p)
    /\ UNCHANGED <<cur, item, up, boots, faults, adapter>>

ItemDone(p) ==
    /\ pc[p] = "embed"
    /\ frag[p] > Fragments[Item(p)]
    /\ NextItem(p)
    /\ UNCHANGED <<owner, cur, frag, up, boots, faults, adapter>>

----------------------------------------------------------------------------
(* Failures.  An exception on the way closes the database connection and   *)
(* is rethrown; startAgents logs it, launches none of the remaining        *)
(* characters and keeps the process, with the agents already up.           *)

Fault == faults < MaxFaults /\ faults' = faults + 1

Abort(p) ==
    /\ Goto(p, "idle")
    /\ UNCHANGED <<cur, item, frag, up, boots, adapter>>

InsertedId(p) ==
    IF pc[p] = "insertDocument" THEN DocId(Item(p)) ELSE FragId(Item(p), frag[p])

(* postgres: another process inserted the id after this one checked it. *)
DuplicateKey(p) ==
    /\ pc[p] \in {"insertDocument", "insertFragment"}
    /\ ~CanInsert(InsertedId(p))
    /\ Abort(p)
    /\ UNCHANGED <<owner, faults>>

(* postgres: the INSERT commits but its answer is lost; withRetry sends it *)
(* again until the last attempt, each fails on the id it inserted itself.  *)
LostAck(p) ==
    /\ adapter = "postgres"
    /\ pc[p] \in {"insertDocument", "insertFragment"}
    /\ InsertRow(p, InsertedId(p))
    /\ Fault
    /\ Abort(p)

(* Opening the database, a service's initialize, embed, or a query throws. *)
CallFails(p) ==
    /\ pc[p] \in Launching
    /\ Fault
    /\ Abort(p)
    /\ UNCHANGED owner

(* The process dies, or is stopped by its operator. *)
Crash(p) ==
    /\ pc[p] # "off"
    /\ Fault
    /\ Goto(p, "off")
    /\ up' = [up EXCEPT ![p] = {}]
    /\ UNCHANGED <<owner, cur, item, frag, boots, adapter>>

Next ==
    \E p \in Processes :
        \/ Boot(p) \/ LaunchAgent(p) \/ AllLaunched(p) \/ AgentUp(p)
        \/ LookupDocument(p) \/ CheckDocument(p) \/ InsertDocument(p)
        \/ Embed(p) \/ CheckFragment(p) \/ InsertFragment(p) \/ ItemDone(p)
        \/ DuplicateKey(p) \/ LostAck(p) \/ CallFails(p) \/ Crash(p)

Spec == Init /\ [][Next]_vars

(* A live process keeps running the event loop until it is idle.  Nothing  *)
(* makes an operator boot it, and no failure has to happen.                *)
Advance(p) ==
    \/ LaunchAgent(p) \/ AllLaunched(p) \/ AgentUp(p)
    \/ LookupDocument(p) \/ CheckDocument(p) \/ InsertDocument(p)
    \/ Embed(p) \/ CheckFragment(p) \/ InsertFragment(p) \/ ItemDone(p)
    \/ DuplicateKey(p)

FairSpec == Spec /\ \A p \in Processes : WF_vars(Advance(p))

----------------------------------------------------------------------------
(* Types of the variables; runtime.ts and agent/src/index.ts keep their    *)
(* position in these loops on the stack.                                   *)
TypeOK ==
    /\ owner \in [Ids -> Agents \cup {NoAgent}]
    /\ pc \in [Processes -> Steps]
    /\ cur \in [Processes -> Nat \ {0}]
    /\ item \in [Processes -> Nat \ {0}]
    /\ frag \in [Processes -> Nat \ {0}]
    /\ up \in [Processes -> SUBSET Agents]
    /\ boots \in [Processes -> Nat]
    /\ faults \in 0 .. MaxFaults
    /\ adapter \in {"sqlite", "postgres"}

(* Process p is working on item i, which is knowledge of agent a. *)
Ingesting(p, a, i) == pc[p] \in ItemSteps /\ Agent(p) = a /\ Item(p) = i

(* All of item i is in the table, as memories of agent a. *)
Complete(a, i) == \A n \in 0 .. Fragments[i] : owner[<<i, n>>] = a

ItemsOf(a) == {KnowledgeOf[a][k] : k \in DOMAIN KnowledgeOf[a]}

(* An agent whose startup returned has every knowledge item, document and  *)
(* fragments, among its own memories: what the comment on                  *)
(* processCharacterKnowledge says it creates.                              *)
KnowledgeComplete ==
    \A p \in Processes : \A a \in up[p] : \A i \in ItemsOf(a) : Complete(a, i)

(* The items of agents that one process launches.  Nothing keeps two       *)
(* processes from ingesting the same item at once; then one may see what   *)
(* the other has half written, and sqlite replaces what it finds.          *)
LaunchedBy(p) == {Characters[p][k] : k \in DOMAIN Characters[p]}
WorksOn(p, i) == \E a \in LaunchedBy(p) : i \in ItemsOf(a)
Own ==
    {i \in Items : \A p, q \in Processes : WorksOn(p, i) /\ WorksOn(q, i) => p = q}

(* KnowledgeComplete for the items that no other character has, and no     *)
(* other process, as long as nothing crashed or failed.                    *)
Private(a, i) == i \in Own /\ \A b \in Agents \ {a} : i \notin ItemsOf(b)

CompleteUnlessFaulty ==
    faults = 0 =>
        \A p \in Processes : \A a \in up[p] : \A i \in ItemsOf(a) :
            Private(a, i) => Complete(a, i)

(* Fragments never get into the table ahead of the document they point to  *)
(* with content.source, and a process past createMemory of the document    *)
(* finds it there: knowledge.get resolves every fragment to a document.    *)
FragmentsFollowDocument ==
    /\ \A i \in Items : \A n \in 1 .. Fragments[i] :
          Stored(FragId(i, n)) => Stored(DocId(i))
    /\ \A p \in Processes : pc[p] \in FragmentSteps => Stored(DocId(Item(p)))

(* An item whose document exists although nobody is completing it: the     *)
(* lookup of every later start finds the document and skips the item.      *)
Torn ==
    {i \in Items : /\ Stored(DocId(i))
                   /\ ~Complete(owner[DocId(i)], i)
                   /\ \A p \in Processes : ~Ingesting(p, owner[DocId(i)], i)}

(* Of the items that one process ingests, a crash or failure leaves one at *)
(* most half ingested, whatever other processes and later starts do: the   *)
(* documents and fragments are written strictly one item at a time.  (Two  *)
(* processes with one item tear it without a fault: the second finds the   *)
(* document of the first, and stores the fragments it has not come to.)    *)
EachFaultTearsOneItem == Cardinality(Torn \cap Own) <= faults

(* A memory is never removed, and it passes from one agent to another in   *)
(* one case only: on sqlite, of an item that two processes ingest, to the  *)
(* agent of one that looked for it before the other had stored it, when    *)
(* INSERT OR REPLACE comes too late.  createMemory skips ids that exist.   *)
RowsKeepOwner ==
    [][\A id \in Ids : Stored(id) =>
          \/ owner'[id] = owner[id]
          \/ /\ adapter = "sqlite" /\ id[1] \notin Own
             /\ \E p \in Processes : /\ pc[p] \in {"insertDocument", "insertFragment"}
                                     /\ InsertedId(p) = id /\ owner'[id] = Agent(p)]_vars

(* A fragment belongs to the agent that owns its document; otherwise       *)
(* knowledge.get finds the fragment for an agent that getMemoryById hides  *)
(* the document from, and drops it.  It holds of what one process ingests, *)
(* also for agents that share it, while nothing fails.                     *)
ReadableUnlessFaulty ==
    faults = 0 =>
        \A i \in Own : \A n \in 1 .. Fragments[i] :
            Stored(FragId(i, n)) => owner[FragId(i, n)] = owner[DocId(i)]

(* startAgents terminates: a process that boots ends up serving its agents *)
(* or dead, never stuck in the ingestion.                                  *)
LaunchEnds ==
    \A p \in Processes : pc[p] = "launch" ~> pc[p] \in {"idle", "off"}

============================================================================
