-------------------------- MODULE KnowledgeProofs --------------------------
(* What holds of Knowledge for every number of processes, agents, items,   *)
(* fragments, boots and faults.                                            *)
EXTENDS Knowledge, FiniteSetTheorems, TLAPS

(* The loop counters of process p point at a character, an item and a      *)
(* fragment whenever the code at its position reads them, and the document *)
(* is in the table once the fragments are being worked on.                 *)
At(p) ==
    /\ pc[p] \in Launching => cur[p] \in DOMAIN Characters[p]
    /\ pc[p] \in ItemSteps => item[p] \in DOMAIN KnowledgeOf[Agent(p)]
    /\ pc[p] \in {"checkFragment", "insertFragment"} =>
           frag[p] \in 1 .. Fragments[Item(p)]
    /\ pc[p] \in FragmentSteps => Stored(DocId(Item(p)))

DocumentsFirst ==
    \A i \in Items : \A n \in 1 .. Fragments[i] :
        Stored(FragId(i, n)) => Stored(DocId(i))

Inv == TypeOK /\ (\A p \in Processes : At(p)) /\ DocumentsFirst

(* The names of the launch's steps. *)
LEMMA StepNames ==
    /\ ItemSteps = {"checkDocument", "insertDocument", "embed",
                    "checkFragment", "insertFragment"}
    /\ FragmentSteps = {"embed", "checkFragment", "insertFragment"}
    /\ Launching = {"checkDocument", "insertDocument", "embed",
                    "checkFragment", "insertFragment", "lookup"}
    /\ Steps = {"checkDocument", "insertDocument", "embed", "checkFragment",
                "insertFragment", "lookup", "off", "launch", "idle"}
  BY DEF ItemSteps, FragmentSteps, Launching, Steps

(* An id of the table is a document's or a fragment's. *)
LEMMA IdOfItem ==
    ASSUME NEW i \in Items, NEW n \in 0 .. Fragments[i]
    PROVE  <<i, n>> \in Ids
  BY DEF Ids

(* The agent and the item a process is working on are what they should be. *)
LEMMA AgentType ==
    ASSUME Inv, NEW p \in Processes
    PROVE  /\ pc[p] \in Launching => Agent(p) \in Agents
           /\ pc[p] \in ItemSteps => Item(p) \in Items /\ Fragments[Item(p)] \in Nat
  <1>1. ASSUME pc[p] \in Launching
        PROVE  Agent(p) \in Agents
    BY <1>1, ConfigAssumption DEF Inv, At, Agent
  <1>2. ASSUME pc[p] \in ItemSteps
        PROVE  Item(p) \in Items /\ Fragments[Item(p)] \in Nat
    BY <1>1, <1>2, ConfigAssumption DEF Inv, At, Item, Launching
  <1> QED BY <1>1, <1>2

(* The row a process is about to insert has an id of the table. *)
LEMMA InsertedIdType ==
    ASSUME Inv, NEW p \in Processes,
           pc[p] \in {"insertDocument", "insertFragment"}
    PROVE  InsertedId(p) \in Ids
  <1>1. Item(p) \in Items /\ Fragments[Item(p)] \in Nat
    BY AgentType, StepNames
  <1>2. CASE pc[p] = "insertDocument"
    BY <1>1, <1>2, IdOfItem DEF InsertedId, DocId
  <1>3. CASE pc[p] = "insertFragment"
    <2>1. frag[p] \in 0 .. Fragments[Item(p)]
      BY <1>1, <1>3 DEF Inv, At
    <2> QED BY <1>1, <1>3, <2>1, IdOfItem DEF InsertedId, FragId
  <1> QED BY <1>2, <1>3

LEMMA InitInv == Init => Inv
  BY ConfigAssumption, StepNames
  DEF Init, Inv, TypeOK, At, DocumentsFirst, Stored, FragId, DocId, Ids

(* A step of p that deletes no row disturbs no other process. *)
LEMMA Frame ==
    ASSUME Inv, NEW p \in Processes, TypeOK', At(p)', DocumentsFirst',
           \A q \in Processes \ {p} :
               /\ pc'[q] = pc[q] /\ cur'[q] = cur[q]
               /\ item'[q] = item[q] /\ frag'[q] = frag[q],
           \A id \in Ids : Stored(id) => Stored(id)'
    PROVE  Inv'
  <1> SUFFICES ASSUME NEW q \in Processes \ {p} PROVE At(q)'
    BY DEF Inv
  <1>1. Agent(q)' = Agent(q) /\ Item(q)' = Item(q)
    BY DEF Agent, Item
  <1>2. At(q)
    BY DEF Inv
  <1>3. pc[q] \in FragmentSteps => DocId(Item(q)) \in Ids
    BY AgentType, StepNames, IdOfItem DEF DocId
  <1> QED BY <1>1, <1>2, <1>3 DEF At, DocId

(* Steps that do not touch the memories table. *)
LEMMA MovePreservesInv ==
    ASSUME Inv, NEW p \in Processes,
           \/ Boot(p) \/ LaunchAgent(p) \/ AllLaunched(p) \/ AgentUp(p)
           \/ LookupDocument(p) \/ CheckDocument(p) \/ Embed(p)
           \/ CheckFragment(p) \/ ItemDone(p)
           \/ DuplicateKey(p) \/ CallFails(p) \/ Crash(p)
    PROVE  Inv'
  <1>1. UNCHANGED owner
    BY DEF Boot, LaunchAgent, AllLaunched, AgentUp, LookupDocument,
           CheckDocument, Embed, CheckFragment, ItemDone, DuplicateKey,
           CallFails, Crash
  <1>2. DocumentsFirst' /\ \A id \in Ids : Stored(id) => Stored(id)'
    BY <1>1 DEF Inv, DocumentsFirst, Stored
  <1>3. TypeOK' /\ \A q \in Processes \ {p} :
            /\ pc'[q] = pc[q] /\ cur'[q] = cur[q]
            /\ item'[q] = item[q] /\ frag'[q] = frag[q]
    <2>0. TypeOK /\ (pc[p] \in Launching => Agent(p) \in Agents)
      BY AgentType DEF Inv
    <2> USE <2>0, StepNames, ConfigAssumption DEF TypeOK, Goto
    <2>1. CASE Boot(p)
      BY <2>1 DEF Boot
    <2>2. CASE LaunchAgent(p)
      BY <2>2 DEF LaunchAgent
    <2>3. CASE AllLaunched(p)
      BY <2>3 DEF AllLaunched
    <2>4. CASE AgentUp(p)
      BY <2>4 DEF AgentUp
    <2>5. CASE LookupDocument(p)
      <3>1. CASE Visible(p, DocId(Item(p)))
        <4>1. /\ pc' = [pc EXCEPT ![p] = "lookup"]
              /\ item' = [item EXCEPT ![p] = item[p] + 1]
              /\ UNCHANGED <<owner, cur, frag, up, boots, faults, adapter>>
          BY <2>5, <3>1 DEF LookupDocument, NextItem
        <4> QED BY <4>1
      <3>2. CASE ~Visible(p, DocId(Item(p)))
        BY <2>5, <3>2 DEF LookupDocument
      <3> QED BY <3>1, <3>2
    <2>6. CASE CheckDocument(p)
      BY <2>6 DEF CheckDocument, AfterCheck, Exists, FirstFragment
    <2>7. CASE Embed(p)
      BY <2>7 DEF Embed
    <2>8. CASE CheckFragment(p)
      <3>1. CASE Exists(p, FragId(Item(p), frag[p]))
        <4>1. /\ pc' = [pc EXCEPT ![p] = "embed"]
              /\ frag' = [frag EXCEPT ![p] = frag[p] + 1]
              /\ UNCHANGED <<owner, cur, item, up, boots, faults, adapter>>
          BY <2>8, <3>1 DEF CheckFragment, NextFragment
        <4> QED BY <4>1
      <3>2. CASE ~Exists(p, FragId(Item(p), frag[p]))
        BY <2>8, <3>2 DEF CheckFragment
      <3> QED BY <3>1, <3>2
    <2>9. CASE ItemDone(p)
      BY <2>9 DEF ItemDone, NextItem
    <2>10. CASE DuplicateKey(p)
      BY <2>10 DEF DuplicateKey, Abort
    <2>11. CASE CallFails(p)
      BY <2>11 DEF CallFails, Abort, Fault
    <2>12. CASE Crash(p)
      BY <2>12 DEF Crash, Fault
    <2> QED BY <2>1, <2>2, <2>3, <2>4, <2>5, <2>6, <2>7, <2>8, <2>9, <2>10,
               <2>11, <2>12
  <1>4. At(p)'
    <2>0. /\ TypeOK /\ At(p)
          /\ pc[p] \in ItemSteps => Fragments[Item(p)] \in Nat
      BY AgentType DEF Inv
    <2> USE <2>0, StepNames DEF TypeOK, At, Agent, Item, Stored, Goto
    <2>1. CASE Boot(p)
      BY <2>1 DEF Boot
    <2>2. CASE LaunchAgent(p)
      BY <2>2 DEF LaunchAgent
    <2>3. CASE AllLaunched(p)
      BY <2>3 DEF AllLaunched
    <2>4. CASE AgentUp(p)
      BY <2>4 DEF AgentUp
    <2>5. CASE LookupDocument(p)
      BY <2>5 DEF LookupDocument, Visible, NextItem
    <2>6. CASE CheckDocument(p)
      BY <2>6 DEF CheckDocument, AfterCheck, Exists, FirstFragment
    <2>7. CASE Embed(p)
      <3>1. pc[p] = "embed" /\ pc'[p] = "checkFragment"
        BY <2>7 DEF Embed
      <3>2. frag[p] \in 1 .. Fragments[Item(p)]
        BY <2>7, <3>1 DEF Embed
      <3>3. UNCHANGED <<owner, cur, item, frag>>
        BY <2>7 DEF Embed
      <3> QED BY <3>1, <3>2, <3>3
    <2>8. CASE CheckFragment(p)
      BY <2>8 DEF CheckFragment, Exists, NextFragment
    <2>9. CASE ItemDone(p)
      BY <2>9 DEF ItemDone, NextItem
    <2>10. CASE DuplicateKey(p)
      BY <2>10 DEF DuplicateKey, Abort
    <2>11. CASE CallFails(p)
      BY <2>11 DEF CallFails, Abort, Fault
    <2>12. CASE Crash(p)
      BY <2>12 DEF Crash, Fault
    <2> QED BY <2>1, <2>2, <2>3, <2>4, <2>5, <2>6, <2>7, <2>8, <2>9, <2>10,
               <2>11, <2>12
  <1> QED BY <1>1, <1>2, <1>3, <1>4, Frame

(* What every INSERT of a memory does to the table. *)
LEMMA InsertEffect ==
    ASSUME Inv, NEW p \in Processes,
           \/ InsertDocument(p) \/ InsertFragment(p) \/ LostAck(p)
    PROVE  /\ pc[p] \in {"insertDocument", "insertFragment"}
           /\ InsertRow(p, InsertedId(p))
  <1>1. CASE InsertDocument(p)
    BY <1>1 DEF InsertDocument, InsertedId
  <1>2. CASE InsertFragment(p)
    BY <1>2 DEF InsertFragment, InsertedId
  <1>3. CASE LostAck(p)
    BY <1>3 DEF LostAck
  <1> QED BY <1>1, <1>2, <1>3

LEMMA InsertPreservesInv ==
    ASSUME Inv, NEW p \in Processes,
           \/ InsertDocument(p) \/ InsertFragment(p) \/ LostAck(p)
    PROVE  Inv'
  <1>1. /\ pc[p] \in {"insertDocument", "insertFragment"}
        /\ owner' = [owner EXCEPT ![InsertedId(p)] = Agent(p)]
    BY InsertEffect DEF InsertRow
  <1>2. /\ TypeOK /\ At(p) /\ InsertedId(p) \in Ids
        /\ Agent(p) \in Agents /\ Item(p) \in Items
        /\ Fragments[Item(p)] \in Nat
    BY <1>1, InsertedIdType, AgentType, StepNames DEF Inv
  <1>3. \A id \in Ids : Stored(id)' <=> Stored(id) \/ id = InsertedId(p)
    BY <1>1, <1>2, ConfigAssumption DEF Stored, TypeOK
  <1>4. DocumentsFirst'
    <2> SUFFICES ASSUME NEW i \in Items, NEW n \in 1 .. Fragments[i],
                        Stored(FragId(i, n))'
                 PROVE  Stored(DocId(i))'
      BY DEF DocumentsFirst
    <2>1. FragId(i, n) \in Ids /\ DocId(i) \in Ids
      BY IdOfItem, ConfigAssumption DEF FragId, DocId
    <2>2. CASE Stored(FragId(i, n))
      BY <1>3, <2>1, <2>2 DEF Inv, DocumentsFirst
    <2>3. CASE FragId(i, n) = InsertedId(p)
      <3>1. pc[p] = "insertFragment" /\ i = Item(p)
        BY <1>1, <2>3 DEF InsertedId, FragId, DocId
      <3> QED BY <1>2, <1>3, <2>1, <3>1, StepNames DEF At
    <2> QED BY <1>3, <2>1, <2>2, <2>3
  <1>5. TypeOK' /\ At(p)' /\ \A q \in Processes \ {p} :
            /\ pc'[q] = pc[q] /\ cur'[q] = cur[q]
            /\ item'[q] = item[q] /\ frag'[q] = frag[q]
    <2>1. DocId(Item(p)) \in Ids
      BY <1>2, IdOfItem DEF DocId
    <2>2. owner' \in [Ids -> Agents \cup {NoAgent}]
      BY <1>1, <1>2 DEF TypeOK
    <2> USE <1>1, <1>2, <1>3, <2>1, <2>2, StepNames
        DEF TypeOK, At, Goto, Agent, Item
    <2>3. CASE InsertDocument(p)
      <3>1. Stored(DocId(Item(p)))'
        BY <2>3, IdOfItem DEF InsertDocument, InsertedId
      <3>2. /\ pc' = [pc EXCEPT ![p] = "embed"]
            /\ UNCHANGED <<cur, item, frag, up, boots, faults, adapter>>
        BY <2>3 DEF InsertDocument
      <3>3. Agent(p)' = Agent(p) /\ Item(p)' = Item(p)
        BY <3>2
      <3>4. TypeOK'
        BY <3>2
      <3>5. pc'[p] = "embed"
        BY <3>2
      <3>6. At(p)'
        BY <3>1, <3>2, <3>3, <3>5
      <3> QED BY <3>2, <3>4, <3>6
    <2>4. CASE InsertFragment(p)
      BY <2>4 DEF InsertFragment, NextFragment
    <2>5. CASE LostAck(p)
      <3>1. /\ pc' = [pc EXCEPT ![p] = "idle"]
            /\ faults < MaxFaults /\ faults' = faults + 1
            /\ UNCHANGED <<cur, item, frag, up, boots, adapter>>
        BY <2>5 DEF LostAck, Abort, Fault
      <3>2. faults' \in 0 .. MaxFaults
        BY <3>1, ConfigAssumption
      <3> QED BY <3>1, <3>2
    <2> QED BY <2>3, <2>4, <2>5
  <1> QED BY <1>3, <1>4, <1>5, Frame

LEMMA NextInv == Inv /\ [Next]_vars => Inv'
  <1> SUFFICES ASSUME Inv, [Next]_vars PROVE Inv'
    OBVIOUS
  <1>1. CASE UNCHANGED vars
    BY <1>1 DEF vars, Inv, TypeOK, At, DocumentsFirst, Stored, Agent, Item
  <1>2. CASE Next
    BY <1>2, MovePreservesInv, InsertPreservesInv DEF Next
  <1> QED BY <1>1, <1>2

LEMMA SpecInv == Spec => []Inv
  BY InitInv, NextInv, PTL DEF Spec

(* Every variable keeps its type. *)
THEOREM TypeCorrect == Spec => []TypeOK
  BY SpecInv, PTL DEF Inv

(* For every adapter, sharing of items, interleaving and failure: no       *)
(* fragment without the document knowledge.get resolves it to.             *)
THEOREM DocumentsPrecedeFragments == Spec => []FragmentsFollowDocument
  <1>1. Inv => FragmentsFollowDocument
    BY DEF Inv, At, DocumentsFirst, FragmentsFollowDocument
  <1> QED BY <1>1, SpecInv, PTL

----------------------------------------------------------------------------
(* Items that one process only ingests: between that process's check of a  *)
(* row and its INSERT nothing comes between, on either adapter.            *)
(* The rows of the item a process is working on: the one it is about to    *)
(* insert is free, and a document of the agent it works for was stored in  *)
(* this pass, with all fragments up to frag[p] and none after.             *)
Pass(p) ==
    pc[p] \in ItemSteps /\ Item(p) \in Own =>
        /\ pc[p] \in {"insertDocument", "insertFragment"} => ~Stored(InsertedId(p))
        /\ pc[p] \in {"checkDocument", "insertDocument"} =>
               owner[DocId(Item(p))] # Agent(p)
        /\ pc[p] = "insertDocument" => frag[p] = 1
        /\ pc[p] \in FragmentSteps /\ owner[DocId(Item(p))] = Agent(p) =>
               \A n \in 1 .. Fragments[Item(p)] :
                   IF n < frag[p] THEN owner[FragId(Item(p), n)] = Agent(p)
                                  ELSE ~Stored(FragId(Item(p), n))

OwnInv == Inv /\ \A p \in Processes : Pass(p)

(* What the steps of process p are. *)
Step(p) ==
    \/ Boot(p) \/ LaunchAgent(p) \/ AllLaunched(p) \/ AgentUp(p)
    \/ LookupDocument(p) \/ CheckDocument(p) \/ InsertDocument(p)
    \/ Embed(p) \/ CheckFragment(p) \/ InsertFragment(p) \/ ItemDone(p)
    \/ DuplicateKey(p) \/ LostAck(p) \/ CallFails(p) \/ Crash(p)

(* A process works on items of the agents it launches. *)
LEMMA WorksOnItsItem ==
    ASSUME Inv, NEW p \in Processes, pc[p] \in ItemSteps
    PROVE  WorksOn(p, Item(p)) /\ Item(p) \in ItemsOf(Agent(p))
  <1>1. cur[p] \in DOMAIN Characters[p] /\ item[p] \in DOMAIN KnowledgeOf[Agent(p)]
    BY StepNames DEF Inv, At
  <1> QED BY <1>1 DEF WorksOn, LaunchedBy, ItemsOf, Agent, Item

(* A step of p writes no row of an item that another process owns. *)
LEMMA OthersRows ==
    ASSUME Inv, NEW p \in Processes, Step(p), NEW q \in Processes \ {p},
           pc[q] \in ItemSteps, Item(q) \in Own
    PROVE  \A n \in 0 .. Fragments[Item(q)] :
               owner'[<<Item(q), n>>] = owner[<<Item(q), n>>]
  <1>1. CASE UNCHANGED owner
    BY <1>1
  <1>2. CASE InsertDocument(p) \/ InsertFragment(p) \/ LostAck(p)
    <2>1. /\ pc[p] \in {"insertDocument", "insertFragment"}
          /\ owner' = [owner EXCEPT ![InsertedId(p)] = Agent(p)]
      BY <1>2, InsertEffect DEF InsertRow
    <2>2. Item(p) # Item(q)
      BY <2>1, WorksOnItsItem, StepNames DEF Own
    <2>3. \A n : <<Item(q), n>> # InsertedId(p)
      BY <2>2 DEF InsertedId, DocId, FragId
    <2>4. \A n \in 0 .. Fragments[Item(q)] : <<Item(q), n>> \in Ids
      BY AgentType, IdOfItem
    <2> QED BY <2>1, <2>3, <2>4 DEF Inv, TypeOK
  <1> QED BY <1>1, <1>2 DEF Step, Boot, LaunchAgent, AllLaunched, AgentUp,
             LookupDocument, CheckDocument, Embed, CheckFragment, ItemDone,
             DuplicateKey, CallFails, Crash

(* A step of p leaves the position of every other process alone. *)
LEMMA OthersStay ==
    ASSUME Inv, NEW p \in Processes, Step(p), NEW q \in Processes \ {p}
    PROVE  /\ pc'[q] = pc[q] /\ cur'[q] = cur[q]
           /\ item'[q] = item[q] /\ frag'[q] = frag[q] /\ up'[q] = up[q]
  <1> USE DEF Inv, TypeOK, Goto
  <1>1. pc'[q] = pc[q]
    BY DEF Step, Boot, LaunchAgent, AllLaunched, AgentUp, LookupDocument,
           CheckDocument, InsertDocument, Embed, CheckFragment, InsertFragment,
           ItemDone, DuplicateKey, LostAck, CallFails, Crash, NextItem,
           NextFragment, Abort
  <1>2. cur'[q] = cur[q] /\ up'[q] = up[q]
    BY DEF Step, Boot, LaunchAgent, AllLaunched, AgentUp, LookupDocument,
           CheckDocument, InsertDocument, Embed, CheckFragment, InsertFragment,
           ItemDone, DuplicateKey, LostAck, CallFails, Crash, NextItem,
           NextFragment, Abort
  <1>3. item'[q] = item[q]
    BY DEF Step, Boot, LaunchAgent, AllLaunched, AgentUp, LookupDocument,
           CheckDocument, InsertDocument, Embed, CheckFragment, InsertFragment,
           ItemDone, DuplicateKey, LostAck, CallFails, Crash, NextItem,
           NextFragment, Abort
  <1>4. frag'[q] = frag[q]
    BY DEF Step, Boot, LaunchAgent, AllLaunched, AgentUp, LookupDocument,
           CheckDocument, InsertDocument, Embed, CheckFragment, InsertFragment,
           ItemDone, DuplicateKey, LostAck, CallFails, Crash, NextItem,
           NextFragment, Abort
  <1> QED BY <1>1, <1>2, <1>3, <1>4

LEMMA OthersPass ==
    ASSUME OwnInv, NEW p \in Processes, Step(p), NEW q \in Processes \ {p}
    PROVE  Pass(q)'
  <1>1. /\ pc'[q] = pc[q] /\ frag'[q] = frag[q]
        /\ Agent(q)' = Agent(q) /\ Item(q)' = Item(q)
    BY OthersStay DEF OwnInv, Agent, Item
  <1> SUFFICES ASSUME pc[q] \in ItemSteps, Item(q) \in Own
               PROVE  Pass(q)'
    BY <1>1 DEF Pass
  <1>2. Inv /\ Pass(q) /\ Fragments[Item(q)] \in Nat
    BY AgentType DEF OwnInv
  <1>3. \A n \in 0 .. Fragments[Item(q)] :
            owner'[<<Item(q), n>>] = owner[<<Item(q), n>>]
    BY <1>2, OthersRows
  <1>4. owner'[DocId(Item(q))] = owner[DocId(Item(q))]
    BY <1>2, <1>3 DEF DocId
  <1>5. \A n \in 1 .. Fragments[Item(q)] :
            owner'[FragId(Item(q), n)] = owner[FragId(Item(q), n)]
    BY <1>2, <1>3 DEF FragId
  <1>6. pc[q] = "insertFragment" => frag[q] \in 1 .. Fragments[Item(q)]
    BY <1>2 DEF Inv, At
  <1>7. InsertedId(q)' = InsertedId(q)
    BY <1>1 DEF InsertedId
  <1>8. pc[q] \in {"insertDocument", "insertFragment"} =>
            owner'[InsertedId(q)] = owner[InsertedId(q)]
    BY <1>4, <1>5, <1>6 DEF InsertedId
  <1> QED BY <1>1, <1>2, <1>4, <1>5, <1>7, <1>8 DEF Pass, Stored

(* The lookup found the document not its agent's own, and createMemory     *)
(* comes with every row of the item either found or written.               *)
LEMMA MyPass ==
    ASSUME OwnInv, NEW p \in Processes, Step(p)
    PROVE  Pass(p)'
  <1> SUFFICES ASSUME pc'[p] \in ItemSteps, Item(p)' \in Own
               PROVE  Pass(p)'
    BY DEF Pass
  <1>1. Inv /\ Pass(p) /\ TypeOK /\ At(p) /\ DocumentsFirst
    BY DEF OwnInv, Inv
  <1> USE <1>1, StepNames DEF TypeOK, Goto
  <1>2. CASE LookupDocument(p)
    <2>1. /\ ~Visible(p, DocId(Item(p))) /\ pc'[p] = "checkDocument"
          /\ UNCHANGED <<owner, cur, item, frag>>
      BY <1>2 DEF LookupDocument, NextItem
    <2> QED BY <2>1 DEF Pass, Visible, Agent, Item
  <1>3. ASSUME pc[p] \in ItemSteps, UNCHANGED <<cur, item>>
        PROVE  /\ Agent(p)' = Agent(p) /\ Item(p)' = Item(p) /\ Item(p) \in Own
               /\ Item(p) \in Items /\ Fragments[Item(p)] \in Nat
               /\ Agent(p) \in Agents /\ Agent(p) # NoAgent
               /\ DocId(Item(p)) \in Ids
               /\ \A n \in 1 .. Fragments[Item(p)] : FragId(Item(p), n) \in Ids
    <2>1. Agent(p)' = Agent(p) /\ Item(p)' = Item(p)
      BY <1>3 DEF Agent, Item
    <2>2. Item(p) \in Items /\ Fragments[Item(p)] \in Nat /\ Agent(p) \in Agents
      BY <1>3, AgentType
    <2> QED BY <2>1, <2>2, IdOfItem, ConfigAssumption DEF DocId, FragId
  <1>4. CASE CheckDocument(p)
    <2>1. /\ pc[p] = "checkDocument" /\ UNCHANGED <<owner, cur, item>>
          /\ pc'[p] = AfterCheck(p) /\ frag'[p] = 1
      BY <1>4 DEF CheckDocument, FirstFragment
    <2>2. owner[DocId(Item(p))] # Agent(p)
      BY <1>3, <2>1 DEF Pass
    <2>3. pc'[p] = IF Stored(DocId(Item(p))) THEN "embed" ELSE "insertDocument"
      BY <2>1 DEF AfterCheck, Exists
    <2> QED BY <1>3, <2>1, <2>2, <2>3 DEF Pass, InsertedId, Stored
  <1>5. CASE InsertDocument(p)
    <2>1. /\ pc[p] = "insertDocument" /\ UNCHANGED <<cur, item, frag>>
          /\ pc'[p] = "embed" /\ owner' = [owner EXCEPT ![DocId(Item(p))] = Agent(p)]
      BY <1>5 DEF InsertDocument, InsertRow
    <2>2. ~Stored(DocId(Item(p))) /\ frag[p] = 1
      BY <1>3, <2>1 DEF Pass, InsertedId
    <2>3. \A n \in 1 .. Fragments[Item(p)] : ~Stored(FragId(Item(p), n))
      BY <1>3, <2>1, <2>2 DEF DocumentsFirst
    <2>4. \A n \in 1 .. Fragments[Item(p)] :
              owner'[FragId(Item(p), n)] = owner[FragId(Item(p), n)]
      BY <1>3, <2>1 DEF FragId, DocId
    <2> QED BY <1>3, <2>1, <2>2, <2>3, <2>4 DEF Pass, Stored
  <1>6. CASE Embed(p)
    <2>1. /\ pc[p] = "embed" /\ pc'[p] = "checkFragment"
          /\ UNCHANGED <<owner, cur, item, frag>>
      BY <1>6 DEF Embed
    <2> QED BY <1>3, <2>1 DEF Pass, Stored
  <1>7. CASE CheckFragment(p)
    <2>1. /\ pc[p] = "checkFragment" /\ UNCHANGED <<owner, cur, item>>
          /\ frag[p] \in 1 .. Fragments[Item(p)]
      BY <1>7 DEF CheckFragment, At
    <2>2. CASE Stored(FragId(Item(p), frag[p]))
      <3>1. pc'[p] = "embed"
        BY <1>7, <2>2 DEF CheckFragment, Exists, NextFragment
      <3>2. owner[DocId(Item(p))] # Agent(p)
        BY <1>3, <2>1, <2>2 DEF Pass
      <3> QED BY <1>3, <2>1, <3>1, <3>2 DEF Pass
    <2>3. CASE ~Stored(FragId(Item(p), frag[p]))
      <3>1. pc'[p] = "insertFragment" /\ UNCHANGED frag
        BY <1>7, <2>3 DEF CheckFragment, Exists
      <3> QED BY <1>3, <2>1, <2>3, <3>1 DEF Pass, InsertedId, Stored
    <2> QED BY <2>2, <2>3
  <1>8. CASE InsertFragment(p)
    <2>1. /\ pc[p] = "insertFragment" /\ UNCHANGED <<cur, item>>
          /\ pc'[p] = "embed" /\ frag'[p] = frag[p] + 1
          /\ frag[p] \in 1 .. Fragments[Item(p)]
          /\ owner' = [owner EXCEPT ![FragId(Item(p), frag[p])] = Agent(p)]
      BY <1>8 DEF InsertFragment, InsertRow, NextFragment, At
    <2>2. owner'[DocId(Item(p))] = owner[DocId(Item(p))]
      BY <1>3, <2>1 DEF FragId, DocId
    <2>3. \A n \in 1 .. Fragments[Item(p)] :
              owner'[FragId(Item(p), n)] =
                  IF n = frag[p] THEN Agent(p) ELSE owner[FragId(Item(p), n)]
      BY <1>3, <2>1 DEF FragId
    <2>4. \A n \in 1 .. Fragments[Item(p)] :
              n < frag[p] + 1 <=> n < frag[p] \/ n = frag[p]
      BY <1>3, <2>1
    <2> QED BY <1>3, <2>1, <2>2, <2>3, <2>4 DEF Pass, Stored
  <1> QED BY <1>2, <1>4, <1>5, <1>6, <1>7, <1>8
          DEF Step, Boot, LaunchAgent, AllLaunched, AgentUp, ItemDone, NextItem,
              DuplicateKey, LostAck, CallFails, Crash, Abort

LEMMA NextOwnInv == OwnInv /\ [Next]_vars => OwnInv'
  <1> SUFFICES ASSUME OwnInv, [Next]_vars PROVE OwnInv'
    OBVIOUS
  <1>1. Inv'
    BY NextInv DEF OwnInv
  <1>2. CASE UNCHANGED vars
    BY <1>1, <1>2 DEF vars, OwnInv, Pass, Stored, InsertedId, Item, Agent
  <1>3. CASE Next
    <2>1. PICK p \in Processes : Step(p)
      BY <1>3 DEF Next, Step
    <2> QED BY <1>1, <2>1, MyPass, OthersPass DEF OwnInv
  <1> QED BY <1>2, <1>3

LEMMA SpecOwnInv == Spec => []OwnInv
  <1>1. Init => OwnInv
    BY InitInv, StepNames DEF Init, OwnInv, Pass
  <1> QED BY <1>1, NextOwnInv, PTL DEF Spec

(* A stored memory of such an item, or any with postgres, keeps its owner. *)
LEMMA StepKeepsOwner ==
    ASSUME OwnInv, [Next]_vars, NEW i \in Items, NEW n \in 0 .. Fragments[i],
           adapter = "postgres" \/ i \in Own, Stored(<<i, n>>)
    PROVE  owner'[<<i, n>>] = owner[<<i, n>>]
  <1>1. CASE UNCHANGED owner
    BY <1>1
  <1>2. ASSUME NEW p \in Processes,
               \/ InsertDocument(p) \/ InsertFragment(p) \/ LostAck(p)
        PROVE  owner'[<<i, n>>] = owner[<<i, n>>]
    <2>1. /\ pc[p] \in {"insertDocument", "insertFragment"}
          /\ InsertRow(p, InsertedId(p))
      BY <1>2, InsertEffect DEF OwnInv
    <2>2. InsertedId(p) # <<i, n>>
      <3>1. CASE adapter = "postgres"
        BY <2>1, <3>1 DEF InsertRow, CanInsert
      <3>2. CASE i \in Own
        BY <2>1, <3>2, StepNames DEF OwnInv, Pass, InsertedId, DocId, FragId
      <3> QED BY <3>1, <3>2
    <2>3. <<i, n>> \in Ids
      BY IdOfItem
    <2> QED BY <2>1, <2>2, <2>3 DEF InsertRow, OwnInv, Inv, TypeOK
  <1> QED BY <1>1, <1>2 DEF Next, vars, Boot, LaunchAgent, AllLaunched, AgentUp,
           LookupDocument, CheckDocument, Embed, CheckFragment, ItemDone,
           DuplicateKey, CallFails, Crash

(* What becomes of the owners of stored memories in a step.                *)
Kept ==
    \A id \in Ids : Stored(id) =>
        \/ owner'[id] = owner[id]
        \/ /\ adapter = "sqlite" /\ id[1] \notin Own
           /\ \E p \in Processes : /\ pc[p] \in {"insertDocument", "insertFragment"}
                                   /\ InsertedId(p) = id /\ owner'[id] = Agent(p)

LEMMA StepKeepsRows == OwnInv /\ [Next]_vars => [Kept]_vars
  <1> SUFFICES ASSUME OwnInv, [Next]_vars, NEW id \in Ids, Stored(id),
                      owner'[id] # owner[id]
               PROVE  /\ adapter = "sqlite" /\ id[1] \notin Own
                      /\ \E p \in Processes :
                             /\ pc[p] \in {"insertDocument", "insertFragment"}
                             /\ InsertedId(p) = id /\ owner'[id] = Agent(p)
    BY DEF Kept
  <1>1. PICK i \in Items : id \in {i} \X (0 .. Fragments[i])
    BY DEF Ids
  <1>2. PICK n \in 0 .. Fragments[i] : id = <<i, n>>
    BY <1>1
  <1>3. adapter # "postgres" /\ i \notin Own
    BY <1>2, StepKeepsOwner
  <1>4. adapter \in {"sqlite", "postgres"}
    BY DEF OwnInv, Inv, TypeOK
  <1>5. PICK p \in Processes : InsertDocument(p) \/ InsertFragment(p) \/ LostAck(p)
    BY DEF Next, vars, Boot, LaunchAgent, AllLaunched, AgentUp,
           LookupDocument, CheckDocument, Embed, CheckFragment, ItemDone,
           DuplicateKey, CallFails, Crash
  <1>6. /\ pc[p] \in {"insertDocument", "insertFragment"}
        /\ owner' = [owner EXCEPT ![InsertedId(p)] = Agent(p)]
    BY <1>5, InsertEffect DEF InsertRow, OwnInv
  <1>7. InsertedId(p) = id /\ owner'[id] = Agent(p)
    BY <1>6 DEF OwnInv, Inv, TypeOK
  <1> QED BY <1>2, <1>3, <1>4, <1>6, <1>7

(* However many processes race: with postgres memories keep their owner;   *)
(* with sqlite too, unless two processes ingest the item and both found    *)
(* the row missing.                                                        *)
THEOREM OwnersChangeInRacesOnly == Spec => RowsKeepOwner
  <1>1. OwnInv /\ [Next]_vars => [Kept]_vars
    BY StepKeepsRows
  <1>2. Spec => [][Kept]_vars
    BY <1>1, SpecOwnInv, PTL DEF Spec
  <1> QED BY <1>2 DEF RowsKeepOwner, Kept

----------------------------------------------------------------------------
(* What a crash or a failed call leaves half ingested.                     *)

LEMMA FaultStep ==
    ASSUME Inv, NEW p \in Processes, Step(p)
    PROVE  faults' = faults \/ faults' = faults + 1
  BY DEF Step, Boot, LaunchAgent, AllLaunched, AgentUp, LookupDocument,
         CheckDocument, InsertDocument, Embed, CheckFragment, InsertFragment,
         ItemDone, DuplicateKey, LostAck, CallFails, Crash, Fault

(* Rows once stored stay, so an item once complete stays complete.         *)
LEMMA CompleteStays ==
    ASSUME OwnInv, [Next]_vars, NEW i \in Own, NEW a \in Agents, Complete(a, i)
    PROVE  Complete(a, i)'
  <1>1. i \in Items /\ a # NoAgent
    BY ConfigAssumption DEF Own
  <1> QED BY <1>1, StepKeepsOwner DEF Complete, Stored

(* A process that leaves an item has completed it, or has failed.          *)
LEMMA LeavesItem ==
    ASSUME OwnInv, NEW p \in Processes, Step(p), NEW i \in Own, NEW a \in Agents,
           owner[DocId(i)] = a, Ingesting(p, a, i), ~Ingesting(p, a, i)'
    PROVE  Complete(a, i) \/ faults' = faults + 1
  <1> USE StepNames DEF OwnInv, Inv, TypeOK, Goto
  <1>1. /\ pc[p] \in ItemSteps /\ Agent(p) = a /\ Item(p) = i
        /\ i \in Items /\ Fragments[i] \in Nat
    BY AgentType DEF Ingesting
  <1>2. CASE ItemDone(p)
    <2>1. pc[p] = "embed" /\ frag[p] > Fragments[i]
      BY <1>1, <1>2 DEF ItemDone
    <2>2. Pass(p)
      OBVIOUS
    <2>3. \A n \in 1 .. Fragments[i] : owner[FragId(i, n)] = a
      BY <1>1, <2>1, <2>2 DEF Pass
    <2> QED BY <1>1, <2>3 DEF Complete, DocId, FragId
  <1>3. CASE LookupDocument(p) \/ CheckDocument(p) \/ InsertDocument(p) \/ Embed(p)
             \/ CheckFragment(p) \/ InsertFragment(p)
    <2>1. /\ pc[p] # "lookup" /\ pc'[p] \in ItemSteps /\ UNCHANGED <<cur, item>>
      BY <1>1, <1>3 DEF LookupDocument, CheckDocument, AfterCheck, InsertDocument,
         Embed, CheckFragment, InsertFragment, NextFragment
    <2> QED BY <1>1, <2>1 DEF Ingesting, Agent, Item
  <1>4. CASE DuplicateKey(p)
    BY <1>1, <1>4 DEF DuplicateKey, CanInsert, Pass
  <1>5. CASE LostAck(p) \/ CallFails(p) \/ Crash(p)
    BY <1>5 DEF LostAck, CallFails, Crash, Fault
  <1>6. CASE Boot(p) \/ LaunchAgent(p) \/ AllLaunched(p) \/ AgentUp(p)
    BY <1>1, <1>6 DEF Boot, LaunchAgent, AllLaunched, AgentUp
  <1> QED BY <1>2, <1>3, <1>4, <1>5, <1>6 DEF Step

(* The step that stores a document goes on with its item, or is a failure. *)
LEMMA StoresDocument ==
    ASSUME OwnInv, NEW p \in Processes, Step(p), NEW i \in Items,
           ~Stored(DocId(i)), Stored(DocId(i))'
    PROVE  /\ pc[p] \in ItemSteps /\ Item(p) = i
           /\ Ingesting(p, owner[DocId(i)], i)' \/ faults' = faults + 1
  <1> USE StepNames DEF OwnInv, Inv, TypeOK, Goto
  <1>1. InsertDocument(p) \/ InsertFragment(p) \/ LostAck(p)
    BY DEF Stored, Step, Boot, LaunchAgent, AllLaunched, AgentUp,
           LookupDocument, CheckDocument, Embed, CheckFragment, ItemDone,
           DuplicateKey, CallFails, Crash
  <1>2. /\ pc[p] \in {"insertDocument", "insertFragment"}
        /\ owner' = [owner EXCEPT ![InsertedId(p)] = Agent(p)]
    BY <1>1, InsertEffect DEF InsertRow
  <1>3. InsertedId(p) = DocId(i)
    BY <1>2 DEF Stored
  <1>4. pc[p] = "insertDocument" /\ Item(p) = i
    BY <1>2, <1>3 DEF At, InsertedId, DocId, FragId
  <1>5. CASE InsertDocument(p)
    <2>1. pc'[p] = "embed" /\ UNCHANGED <<cur, item>>
      BY <1>5 DEF InsertDocument
    <2>2. owner'[DocId(i)] = Agent(p)
      BY <1>2, <1>3, IdOfItem, ConfigAssumption DEF DocId
    <2> QED BY <1>4, <2>1, <2>2 DEF Ingesting, Agent, Item
  <1>6. CASE InsertFragment(p)
    BY <1>4, <1>6 DEF InsertFragment
  <1>7. CASE LostAck(p)
    BY <1>4, <1>7 DEF LostAck, Fault
  <1> QED BY <1>1, <1>5, <1>6, <1>7

(* An item that is torn by a step of p is the one p was working on, and    *)
(* the step is a failure.                                                  *)
LEMMA TornByFault ==
    ASSUME OwnInv, NEW p \in Processes, Step(p), NEW i \in Own,
           i \in Torn', i \notin Torn
    PROVE  pc[p] \in ItemSteps /\ Item(p) = i /\ faults' = faults + 1
  <1>1. /\ i \in Items /\ DocId(i) \in Ids /\ owner[DocId(i)] \in Agents \cup {NoAgent}
        /\ 0 \in 0 .. Fragments[i] /\ [Next]_vars
    BY IdOfItem, ConfigAssumption DEF Own, DocId, OwnInv, Inv, TypeOK, Next, Step
  <1>2. CASE Stored(DocId(i))
    <2>1. PICK a \in Agents : owner[DocId(i)] = a
      BY <1>1, <1>2 DEF Stored
    <2>2. owner'[DocId(i)] = a
      BY <1>1, <1>2, <2>1, StepKeepsOwner DEF DocId
    <2>3. ~Complete(a, i)
      BY <2>2, CompleteStays, <1>1 DEF Torn
    <2>4. PICK q \in Processes : Ingesting(q, a, i)
      BY <1>1, <1>2, <2>1, <2>3 DEF Torn
    <2>5. ~Ingesting(q, a, i)'
      BY <2>2 DEF Torn
    <2>6. q = p
      <3>1. q # p => Agent(q)' = Agent(q) /\ Item(q)' = Item(q) /\ pc'[q] = pc[q]
        BY OthersStay DEF Agent, Item, OwnInv
      <3> QED BY <2>4, <2>5, <3>1 DEF Ingesting
    <2> QED BY <2>1, <2>3, <2>4, <2>5, <2>6, LeavesItem DEF Ingesting
  <1>3. CASE ~Stored(DocId(i))
    <2>1. Stored(DocId(i))' /\ ~Ingesting(p, owner[DocId(i)], i)'
      BY DEF Torn
    <2> QED BY <1>1, <1>3, <2>1, StoresDocument
  <1> QED BY <1>2, <1>3

TornInv == IsFiniteSet(Torn \cap Own) /\ Cardinality(Torn \cap Own) <= faults

LEMMA NextTornInv == OwnInv /\ TornInv /\ [Next]_vars => TornInv'
  <1> SUFFICES ASSUME OwnInv, TornInv, [Next]_vars PROVE TornInv'
    OBVIOUS
  <1> DEFINE T == Torn \cap Own
  <1> HIDE DEF T
  <1>1. CASE UNCHANGED vars
    BY <1>1 DEF vars, TornInv, Torn, Stored, Complete, Ingesting, Agent, Item
  <1>2. ASSUME NEW p \in Processes, Step(p) PROVE TornInv'
    <2>1. IsFiniteSet(T) /\ Cardinality(T) \in Nat /\ Cardinality(T) <= faults
      BY FS_CardinalityType DEF TornInv, T
    <2>2. /\ faults \in Nat /\ faults' \in {faults, faults + 1}
      BY <1>2, FaultStep DEF OwnInv, Inv, TypeOK
    <2>3. T' \subseteq T \cup {Item(p)} /\ (faults' = faults => T' \subseteq T)
      BY <1>2, <2>2, TornByFault DEF T
    <2>4. /\ IsFiniteSet(T \cup {Item(p)})
          /\ Cardinality(T \cup {Item(p)}) <= Cardinality(T) + 1
      <3>1. /\ IsFiniteSet(T \cup {Item(p)})
            /\ \/ Item(p) \in T /\ Cardinality(T \cup {Item(p)}) = Cardinality(T)
               \/ Cardinality(T \cup {Item(p)}) = Cardinality(T) + 1
        BY <2>1, FS_AddElement
      <3> QED BY <2>1, <3>1
    <2>5. CASE faults' = faults
      <3>1. IsFiniteSet(T') /\ Cardinality(T') \in Nat /\ Cardinality(T') <= Cardinality(T)
        BY <2>1, <2>3, <2>5, FS_Subset, FS_CardinalityType
      <3> QED BY <2>1, <2>2, <2>5, <3>1 DEF TornInv, T
    <2>6. CASE faults' = faults + 1
      <3>1. /\ IsFiniteSet(T') /\ Cardinality(T') \in Nat
            /\ Cardinality(T') <= Cardinality(T \cup {Item(p)})
        BY <2>3, <2>4, FS_Subset, FS_CardinalityType
      <3>2. Cardinality(T \cup {Item(p)}) \in Nat
        BY <2>4, FS_CardinalityType
      <3> QED BY <2>1, <2>2, <2>4, <2>6, <3>1, <3>2 DEF TornInv, T
    <2> QED BY <2>2, <2>5, <2>6
  <1> QED BY <1>1, <1>2 DEF Next, Step

LEMMA SpecTornInv == Spec => []TornInv
  <1>1. Init => TornInv
    <2> SUFFICES ASSUME Init PROVE TornInv
      OBVIOUS
    <2>1. \A i \in Items : DocId(i) \in Ids
      BY IdOfItem, ConfigAssumption DEF DocId
    <2>2. Torn \cap Own = {} /\ faults = 0
      BY <2>1 DEF Init, Torn, Stored
    <2> QED BY <2>2, FS_EmptySet DEF TornInv
  <1> QED BY <1>1, NextTornInv, SpecOwnInv, PTL DEF Spec

(* A crash or failure leaves at most one item half ingested, for any       *)
(* number of processes, restarts, agents, items and fragments.             *)
THEOREM FaultsTearOneItemEach == Spec => []EachFaultTearsOneItem
  <1>1. TornInv => EachFaultTearsOneItem
    BY DEF TornInv, EachFaultTearsOneItem
  <1> QED BY <1>1, SpecTornInv, PTL

----------------------------------------------------------------------------
(* What is in the table as long as nothing crashed or failed.              *)

(* While nothing has failed, an item whose document an agent owns is       *)
(* complete, or a process is at work on it for that agent.                 *)
LEMMA NothingTorn ==
    ASSUME OwnInv, TornInv, faults = 0, NEW i \in Own, NEW a \in Agents,
           owner[DocId(i)] = a, \A p \in Processes : ~Ingesting(p, a, i)
    PROVE  Complete(a, i)
  <1>1. Torn \cap Own = {}
    <2>1. Cardinality(Torn \cap Own) = 0
      BY FS_CardinalityType DEF TornInv
    <2> QED BY <2>1, FS_EmptySet DEF TornInv
  <1> QED BY <1>1, ConfigAssumption DEF Torn, Stored, Own

(* Every row is an item of its owner.                                      *)
RowsHaveReason ==
    \A i \in Items : \A n \in 0 .. Fragments[i] :
        Stored(<<i, n>>) => i \in ItemsOf(owner[<<i, n>>])

(* The items that agent a has alone, and that one process ingests, are     *)
(* complete.                                                               *)
Whole(a, S) == \A i \in S : Private(a, i) => Complete(a, i)

(* The items that the loop of processCharacterKnowledge is through with.   *)
Earlier(p) ==
    {KnowledgeOf[Agent(p)][k] : k \in {j \in DOMAIN KnowledgeOf[Agent(p)] : j < item[p]}}

Progress(p) ==
    /\ pc[p] \in Launching => Whole(Agent(p), Earlier(p))
    /\ \A a \in up[p] : Whole(a, ItemsOf(a))

OwnReadable ==
    \A i \in Own : \A n \in 1 .. Fragments[i] :
        Stored(FragId(i, n)) => owner[FragId(i, n)] = owner[DocId(i)]

CalmInv ==
    /\ RowsHaveReason
    /\ \A p \in Processes : up[p] \subseteq LaunchedBy(p)
    /\ faults = 0 => OwnReadable /\ \A p \in Processes : Progress(p)

LEMMA NextRowsHaveReason ==
    ASSUME Inv, RowsHaveReason, [Next]_vars
    PROVE  RowsHaveReason'
  <1> USE DEF RowsHaveReason, Stored
  <1>1. CASE UNCHANGED owner
    BY <1>1
  <1>2. ASSUME NEW p \in Processes,
               \/ InsertDocument(p) \/ InsertFragment(p) \/ LostAck(p)
        PROVE  RowsHaveReason'
    <2>1. /\ pc[p] \in {"insertDocument", "insertFragment"}
          /\ owner' = [owner EXCEPT ![InsertedId(p)] = Agent(p)]
      BY <1>2, InsertEffect DEF InsertRow
    <2>2. Item(p) \in ItemsOf(Agent(p))
      BY <2>1, WorksOnItsItem, StepNames
    <2>3. \A i, n : <<i, n>> = InsertedId(p) => i = Item(p)
      BY DEF InsertedId, DocId, FragId
    <2>4. \A i \in Items : \A n \in 0 .. Fragments[i] :
              /\ <<i, n>> = InsertedId(p) => i \in ItemsOf(owner'[<<i, n>>])
              /\ <<i, n>> # InsertedId(p) => owner'[<<i, n>>] = owner[<<i, n>>]
      BY <2>1, <2>2, <2>3, IdOfItem DEF Inv, TypeOK
    <2> QED BY <2>4
  <1> QED BY <1>1, <1>2 DEF Next, vars, Boot, LaunchAgent, AllLaunched, AgentUp,
           LookupDocument, CheckDocument, Embed, CheckFragment, ItemDone,
           DuplicateKey, CallFails, Crash

(* A process that stores a fragment of an item it does not own the         *)
(* document of would be completing a torn item.                            *)
LEMMA NextOwnReadable ==
    ASSUME OwnInv, TornInv, OwnReadable, faults = 0, NEW p \in Processes, Step(p)
    PROVE  OwnReadable'
  <1> SUFFICES ASSUME NEW i \in Own, NEW n \in 1 .. Fragments[i], Stored(FragId(i, n))'
               PROVE  owner'[FragId(i, n)] = owner'[DocId(i)]
    BY DEF OwnReadable
  <1>1. /\ i \in Items /\ Fragments[i] \in Nat /\ 0 \in 0 .. Fragments[i]
        /\ n \in 0 .. Fragments[i] /\ [Next]_vars /\ Inv /\ TypeOK
        /\ DocId(i) \in Ids /\ FragId(i, n) \in Ids
    BY ConfigAssumption, IdOfItem DEF Own, OwnInv, Inv, Next, Step, DocId, FragId
  <1>2. CASE Stored(FragId(i, n))
    <2>1. Stored(DocId(i))
      BY <1>1, <1>2 DEF Inv, DocumentsFirst
    <2>2. owner'[DocId(i)] = owner[DocId(i)] /\ owner'[FragId(i, n)] = owner[FragId(i, n)]
      BY <1>1, <1>2, <2>1, StepKeepsOwner DEF DocId, FragId
    <2> QED BY <1>2, <2>2 DEF OwnReadable
  <1>3. CASE ~Stored(FragId(i, n))
    <2>1. InsertDocument(p) \/ InsertFragment(p) \/ LostAck(p)
      BY <1>3 DEF Stored, Step, Boot, LaunchAgent, AllLaunched, AgentUp,
             LookupDocument, CheckDocument, Embed, CheckFragment, ItemDone,
             DuplicateKey, CallFails, Crash
    <2>2. /\ pc[p] \in {"insertDocument", "insertFragment"}
          /\ owner' = [owner EXCEPT ![InsertedId(p)] = Agent(p)]
      BY <1>1, <2>1, InsertEffect DEF InsertRow
    <2>3. InsertedId(p) = FragId(i, n)
      BY <1>3, <2>2 DEF Stored
    <2>4. pc[p] = "insertFragment" /\ Item(p) = i
      BY <2>2, <2>3 DEF InsertedId, DocId, FragId
    <2>5. owner'[FragId(i, n)] = Agent(p) /\ owner'[DocId(i)] = owner[DocId(i)]
      BY <1>1, <2>2, <2>3 DEF TypeOK, DocId, FragId
    <2>6. PICK a \in Agents : owner[DocId(i)] = a
      BY <1>1, <2>4, StepNames DEF Inv, At, TypeOK, Stored
    <2>7. ~Complete(a, i)
      BY <1>1, <1>3, ConfigAssumption DEF Complete, FragId, Stored
    <2>8. PICK q \in Processes : Ingesting(q, a, i)
      BY <2>6, <2>7, NothingTorn
    <2>9. q = p
      BY <1>1, <2>4, <2>8, WorksOnItsItem, StepNames DEF Ingesting, Own
    <2> QED BY <2>5, <2>6, <2>8, <2>9 DEF Ingesting
  <1> QED BY <1>2, <1>3

(* An item is passed when its document is there for the agent, and then it *)
(* is complete; or when its last fragment has been seen to.                *)
LEMMA NextProgress ==
    ASSUME OwnInv, TornInv, CalmInv, faults = 0, NEW p \in Processes, Step(p),
           NEW q \in Processes
    PROVE  Progress(q)' /\ up'[q] \subseteq LaunchedBy(q)
  <1> USE StepNames DEF Goto
  <1>1. /\ Inv /\ TypeOK /\ Progress(q) /\ Progress(p) /\ up[q] \subseteq LaunchedBy(q)
        /\ [Next]_vars /\ RowsHaveReason
    BY DEF OwnInv, Inv, CalmInv, Next, Step
  <1>2. LaunchedBy(p) \subseteq Agents /\ LaunchedBy(q) \subseteq Agents
    BY ConfigAssumption DEF LaunchedBy
  <1>3. \A S : \A a \in Agents : Whole(a, S) => Whole(a, S)'
    BY <1>1, CompleteStays DEF Whole, Private
  <1>4. CASE q # p
    <2>1. /\ pc'[q] = pc[q] /\ up'[q] = up[q]
          /\ Agent(q)' = Agent(q) /\ Earlier(q)' = Earlier(q)
      BY <1>1, <1>4, OthersStay DEF Agent, Earlier
    <2>2. pc[q] \in Launching => Agent(q) \in Agents
      BY <1>1, AgentType
    <2> QED BY <1>1, <1>2, <1>3, <2>1, <2>2 DEF Progress
  <1>5. CASE Boot(p) \/ AllLaunched(p) \/ DuplicateKey(p) \/ LostAck(p)
             \/ CallFails(p) \/ Crash(p)
    <2>1. pc'[p] \notin Launching /\ up'[p] \subseteq up[p]
      BY <1>1, <1>5 DEF TypeOK, Boot, AllLaunched, DuplicateKey, LostAck, CallFails,
         Crash, Abort
    <2> QED BY <1>1, <1>2, <1>3, <1>4, <2>1 DEF Progress
  <1>6. CASE LaunchAgent(p)
    <2>1. up'[p] = up[p] /\ item'[p] = 1 /\ cur'[p] \in DOMAIN Characters[p]
      BY <1>1, <1>6 DEF LaunchAgent, TypeOK
    <2>2. DOMAIN KnowledgeOf[Agent(p)'] \subseteq Nat \ {0}
      BY <2>1, ConfigAssumption DEF Agent
    <2>3. Earlier(p)' = {}
      BY <2>1, <2>2 DEF Earlier
    <2> QED BY <1>1, <1>2, <1>3, <1>4, <2>1, <2>3 DEF Progress, Whole
  <1>7. CASE AgentUp(p)
    <2>1. /\ pc[p] = "lookup" /\ item[p] \notin DOMAIN KnowledgeOf[Agent(p)]
          /\ up'[p] = up[p] \cup {Agent(p)} /\ pc'[p] = "launch"
      BY <1>1, <1>7 DEF AgentUp, TypeOK
    <2>2. cur[p] \in DOMAIN Characters[p] /\ Agent(p) \in Agents
      BY <1>1, <2>1, AgentType DEF Inv, At
    <2>3. Agent(p) \in LaunchedBy(p) /\ KnowledgeOf[Agent(p)] \in Seq(Items)
      BY <2>2, ConfigAssumption DEF Agent, LaunchedBy
    <2>4. \A j \in DOMAIN KnowledgeOf[Agent(p)] : j < item[p]
      BY <1>1, <2>1, <2>3 DEF TypeOK
    <2>5. Earlier(p) = ItemsOf(Agent(p))
      BY <2>4 DEF Earlier, ItemsOf
    <2> QED BY <1>1, <1>2, <1>3, <1>4, <2>1, <2>2, <2>3, <2>5 DEF Progress
  <1>8. ASSUME UNCHANGED <<cur, item, up>>, pc[p] \in Launching
        PROVE  Progress(p)' /\ up'[p] \subseteq LaunchedBy(p)
    <2>1. Agent(p)' = Agent(p) /\ Earlier(p)' = Earlier(p) /\ Agent(p) \in Agents
      BY <1>1, <1>8, AgentType DEF Agent, Earlier
    <2> QED BY <1>1, <1>2, <1>3, <1>8, <2>1 DEF Progress, CalmInv
  <1>9. ASSUME pc[p] \in Launching, item[p] \in DOMAIN KnowledgeOf[Agent(p)],
               item' = [item EXCEPT ![p] = @ + 1], UNCHANGED <<cur, up>>,
               Private(Agent(p), Item(p)) => Complete(Agent(p), Item(p))
        PROVE  Progress(p)' /\ up'[p] \subseteq LaunchedBy(p)
    <2>1. Agent(p)' = Agent(p) /\ item'[p] = item[p] + 1 /\ Agent(p) \in Agents
      BY <1>1, <1>9, AgentType DEF Agent, TypeOK
    <2>2. KnowledgeOf[Agent(p)] \in Seq(Items)
      BY <2>1, ConfigAssumption
    <2>3. \A j \in DOMAIN KnowledgeOf[Agent(p)] :
              j < item[p] + 1 <=> j < item[p] \/ j = item[p]
      BY <1>1, <2>2 DEF TypeOK
    <2>4. Earlier(p)' = Earlier(p) \cup {Item(p)}
      BY <1>9, <2>1, <2>3 DEF Earlier, Item
    <2>5. Whole(Agent(p), Earlier(p)')
      BY <1>1, <1>9, <2>4 DEF Whole, Progress
    <2>6. Whole(Agent(p), Earlier(p))'
      BY <1>3, <2>1, <2>5
    <2> QED BY <1>1, <1>2, <1>3, <1>9, <2>6 DEF Progress, CalmInv
  <1>10. CASE LookupDocument(p)
    <2>1. /\ pc[p] = "lookup" /\ item[p] \in DOMAIN KnowledgeOf[Agent(p)]
          /\ UNCHANGED <<cur, up>>
      BY <1>10 DEF LookupDocument
    <2>2. CASE ~Visible(p, DocId(Item(p)))
      BY <1>4, <1>8, <1>10, <2>1, <2>2 DEF LookupDocument
    <2>3. CASE Visible(p, DocId(Item(p)))
      <3>1. Agent(p) \in Agents /\ WorksOn(p, Item(p))
        BY <1>1, <2>1, AgentType DEF Inv, At, WorksOn, LaunchedBy, ItemsOf, Agent, Item
      <3>2. ASSUME Item(p) \in Own PROVE Complete(Agent(p), Item(p))
        <4>1. \A r \in Processes : ~Ingesting(r, Agent(p), Item(p))
          BY <1>1, <2>1, <3>1, <3>2, WorksOnItsItem DEF Ingesting, Own
        <4> QED BY <2>3, <3>1, <3>2, <4>1, NothingTorn DEF Visible
      <3> QED BY <1>4, <1>9, <1>10, <2>1, <2>3, <3>2
             DEF LookupDocument, NextItem, Private
    <2> QED BY <2>2, <2>3
  <1>11. CASE ItemDone(p)
    <2>1. /\ pc[p] = "embed" /\ pc'[p] = "lookup" /\ UNCHANGED <<cur, up, faults>>
          /\ item[p] \in DOMAIN KnowledgeOf[Agent(p)]
          /\ Item(p) \in Items /\ Agent(p) \in Agents
          /\ item' = [item EXCEPT ![p] = @ + 1]
      BY <1>1, <1>11, AgentType DEF ItemDone, NextItem, TypeOK, Inv, At
    <2>2. ASSUME Private(Agent(p), Item(p))
          PROVE  Complete(Agent(p), Item(p))
      <3>1. DocId(Item(p)) \in Ids /\ Stored(DocId(Item(p))) /\ 0 \in 0 .. Fragments[Item(p)]
        BY <1>1, <2>1, IdOfItem, ConfigAssumption DEF Inv, At, DocId
      <3>2. /\ owner[DocId(Item(p))] \in Agents
            /\ Item(p) \in ItemsOf(owner[DocId(Item(p))])
        BY <1>1, <2>1, <3>1 DEF TypeOK, Stored, RowsHaveReason, DocId
      <3>3. owner[DocId(Item(p))] = Agent(p)
        BY <2>2, <3>2 DEF Private
      <3>4. PICK a \in Agents, i \in Own : a = Agent(p) /\ i = Item(p)
        BY <2>1, <2>2 DEF Private
      <3>5. Ingesting(p, a, i) /\ ~Ingesting(p, a, i)'
        BY <2>1, <3>4 DEF Ingesting
      <3> QED BY <2>1, <3>3, <3>4, <3>5, LeavesItem
    <2> QED BY <1>4, <1>9, <2>1, <2>2
  <1>12. CASE CheckDocument(p) \/ InsertDocument(p) \/ Embed(p)
              \/ CheckFragment(p) \/ InsertFragment(p)
    BY <1>4, <1>8, <1>12 DEF CheckDocument, InsertDocument, Embed, CheckFragment,
       InsertFragment
  <1> QED BY <1>5, <1>6, <1>7, <1>10, <1>11, <1>12 DEF Step

LEMMA NextCalmInv == OwnInv /\ TornInv /\ CalmInv /\ [Next]_vars => CalmInv'
  <1> SUFFICES ASSUME OwnInv, TornInv, CalmInv, [Next]_vars PROVE CalmInv'
    OBVIOUS
  <1>1. RowsHaveReason'
    BY NextRowsHaveReason DEF OwnInv, CalmInv
  <1>2. CASE UNCHANGED vars
    BY <1>1, <1>2 DEF vars, CalmInv, OwnReadable, Progress, Whole, Complete, Earlier,
       Agent, Stored
  <1>3. ASSUME NEW p \in Processes, Step(p) PROVE CalmInv'
    <2>1. /\ faults' = faults \/ faults' = faults + 1
          /\ faults \in Nat
      BY <1>3, FaultStep DEF OwnInv, Inv, TypeOK
    <2>2. CASE faults = 0
      BY <1>1, <1>3, <2>2, NextOwnReadable, NextProgress DEF CalmInv
    <2>3. CASE faults # 0
      <3>1. \A q \in Processes : up'[q] \subseteq LaunchedBy(q)
        <4>1. ASSUME NEW q \in Processes PROVE up'[q] \subseteq LaunchedBy(q)
          <5>1. CASE q # p
            BY <1>3, <5>1, OthersStay DEF CalmInv, OwnInv
          <5>2. CASE q = p /\ ~AgentUp(p)
            <6>1. up'[p] \subseteq up[p]
              BY <1>3, <5>2 DEF OwnInv, Inv, TypeOK, Step, Boot, LaunchAgent,
                 AllLaunched, LookupDocument, CheckDocument, InsertDocument, Embed,
                 CheckFragment, InsertFragment, ItemDone, DuplicateKey, LostAck,
                 CallFails, Crash, Abort
            <6> QED BY <5>2, <6>1 DEF CalmInv
          <5>3. CASE q = p /\ AgentUp(p)
            <6>1. up'[p] = up[p] \cup {Agent(p)} /\ cur[p] \in DOMAIN Characters[p]
              BY <5>3, StepNames DEF OwnInv, Inv, TypeOK, At, AgentUp
            <6> QED BY <5>3, <6>1 DEF CalmInv, LaunchedBy, Agent
          <5> QED BY <5>1, <5>2, <5>3
        <4> QED BY <4>1
      <3> QED BY <1>1, <2>1, <2>3, <3>1 DEF CalmInv
    <2> QED BY <2>2, <2>3
  <1> QED BY <1>2, <1>3 DEF Next, Step

LEMMA SpecCalmInv == Spec => []CalmInv
  <1>1. Init => CalmInv
    <2> SUFFICES ASSUME Init PROVE CalmInv
      OBVIOUS
    <2>1. \A i \in Items : \A n \in 0 .. Fragments[i] : ~Stored(<<i, n>>)
      BY IdOfItem DEF Init, Stored
    <2>2. \A i \in Items : \A n \in 1 .. Fragments[i] : ~Stored(FragId(i, n))
      <3>1. \A i \in Items : \A n \in 1 .. Fragments[i] : n \in 0 .. Fragments[i]
        BY ConfigAssumption
      <3> QED BY <2>1, <3>1 DEF FragId
    <2> QED BY <2>1, <2>2, StepNames DEF Init, CalmInv, RowsHaveReason, OwnReadable,
            Progress, Own
  <1> QED BY <1>1, NextCalmInv, SpecOwnInv, SpecTornInv, PTL DEF Spec

(* While nothing fails, a fragment belongs to the agent of its document,   *)
(* also when several agents of one process have the item.                  *)
THEOREM FragmentsReadableUnlessFaulty == Spec => []ReadableUnlessFaulty
  <1>1. CalmInv => ReadableUnlessFaulty
    BY DEF CalmInv, OwnReadable, ReadableUnlessFaulty
  <1> QED BY <1>1, SpecCalmInv, PTL

(* While nothing fails, an agent whose startup returned has every item     *)
(* that no other agent and no other process has.                           *)
THEOREM PrivateItemsComplete == Spec => []CompleteUnlessFaulty
  <1>1. CalmInv => CompleteUnlessFaulty
    BY DEF CalmInv, Progress, Whole, CompleteUnlessFaulty
  <1> QED BY <1>1, SpecCalmInv, PTL

============================================================================
