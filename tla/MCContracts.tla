------------------------------ MODULE MCContracts ------------------------------
(***************************************************************************)
(* Instances of ContractAssembly.                                          *)
(***************************************************************************)
EXTENDS ContractProperties

Adds(c, m) == [clause |-> c, mandatory |-> m]

(* Clause c is in force with version c1; c2, a draft for the second day, is *)
(* approved, and promoted.  Clause d is in force all along;                 *)
(* clause e has no version.  Contract k1 is made from a template, its       *)
(* clauses are changed, it is approved, perhaps twice, and revised as k2.   *)
(* Edits that race an approval are left out: ConExclusive.                  *)
LibVersions      == {"c1", "c2", "d1"}
LibClauseOf      == [c1 |-> "c", c2 |-> "c", d1 |-> "d"]
LibEffectiveFrom == [c1 |-> 1, c2 |-> 2, d1 |-> 1]
LibStored        == LibVersions
LibStoredStatus  == [c1 |-> "active", c2 |-> "draft", d1 |-> "active"]
LibStoredNumber  == [c1 |-> 1, c2 |-> 2, d1 |-> 1]
LibOp            == [approve2 |-> "approveVersion", job |-> "promoteDue"]
LibRequests      == DOMAIN LibOp
LibTarget        == [approve2 |-> "c2", job |-> Nobody]
LibAfter         == [q \in Requests |-> {}]

ConTemplate == <<Adds("c", FALSE)>>
ConMatches  == <<Adds("d", TRUE)>>
ConCallOp   == [create |-> "create", rules |-> "runRules", add |-> "addClause",
                remove |-> "removeClause", order |-> "reorder", edit |-> "editClauseText",
                latest |-> "resnapshot", update |-> "update",
                approve |-> "approve", again |-> "approve", revise |-> "revise",
                unknown |-> "addClause"]
ConCalls    == DOMAIN ConCallOp
ConContract == [q \in Calls |-> IF q = "revise" THEN "k2" ELSE "k1"]
ConClause   == [q \in Calls |-> IF q = "unknown" THEN "e" ELSE "d"]
ConParent   == [q \in Calls |-> "k1"]
ConAfter    == [q \in Calls |->
                  CASE q = "add"                -> {"remove"}
                    [] q \in {"latest", "edit"} -> {"rules"}
                    [] q = "order"              -> {"latest"}
                    [] q = "update"             -> {"order", "edit"}
                    [] q \in {"again", "unknown"} -> {"update"}
                    [] q = "revise"             -> {"approve"}
                    [] OTHER                    -> {}]
ConExclusive ==
  {{q, a} : q \in {"rules", "add", "remove", "order", "edit", "latest", "update", "unknown"},
            a \in {"approve", "again"}}

\* What the theorems about this model ask of an instance is so in this one.
ASSUME ConAssumption == EditsApart
=============================================================================
