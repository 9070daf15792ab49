---------------------------- MODULE MCKnowledge ----------------------------
(* Small instances of Knowledge for TLC. *)
EXTENDS Knowledge, TLC

CONSTANTS p1, p2, a1, a2, a3, a4, i1, i2, i3

(* Two processes.  The agents of the first share an item, which one of     *)
(* them has twice; a1 has one of its own.  Both launch a3, whose item the  *)
(* second's other agent has too.                                           *)
SharedCharacters == (p1 :> <<a1, a2, a3>>) @@ (p2 :> <<a3, a4>>)
SharedKnowledge == (a1 :> <<i2, i3, i2>>) @@ (a2 :> <<i2>>) @@ (a3 :> <<i1>>) @@ (a4 :> <<i1>>)
SharedFragments == (i1 :> 2) @@ (i2 :> 1) @@ (i3 :> 2)

(* One process only, with two agents that share an item. *)
SiblingCharacters == (p1 :> <<a1, a2>>)

(* One agent with two items. *)
SingleCharacters == (p1 :> <<a1>>)
SingleKnowledge == (a1 :> <<i1, i2>>)
SingleFragments == (i1 :> 2) @@ (i2 :> 1)

============================================================================
