------------------------------- MODULE MCClauses -------------------------------
(***************************************************************************)
(* Instances of ClauseVersions.                                            *)
(***************************************************************************)
EXTENDS ClauseProperties

(* Clause c is in force with version c1.  Two people add a version at the   *)
(* same time, c2 for the second day and c3 for the third, and c2 is         *)
(* approved, perhaps by two people at once; the job and a reader promote.   *)
LibVersions      == {"c1", "c2", "c3"}
LibClauseOf      == [v \in Versions |-> "c"]
LibEffectiveFrom == [c1 |-> 1, c2 |-> 2, c3 |-> 3]
LibStored        == {"c1"}
LibStoredStatus  == [c1 |-> "active"]
LibStoredNumber  == [c1 |-> 1]
LibOp            == [add2 |-> "addVersion", add3 |-> "addVersion",
                     approve2 |-> "approveVersion", again2 |-> "approveVersion",
                     approve3 |-> "approveVersion",
                     job |-> "promoteDue", reader |-> "list"]
LibRequests      == DOMAIN LibOp
LibTarget        == [add2 |-> "c2", add3 |-> "c3", approve2 |-> "c2", again2 |-> "c2",
                     approve3 |-> "c3", job |-> Nobody, reader |-> Nobody]
LibAfter         == [q \in Requests |-> {}]
=============================================================================
