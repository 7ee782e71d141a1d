-------------------------- MODULE ContractProperties --------------------------
(***************************************************************************)
(* What contracts promise, on committed rows.                              *)
(***************************************************************************)
EXTENDS ContractAssembly, ClauseProperties

Quoted    == {l \in Lines : LET row == lines[l].com IN
                              row.contract # Nobody /\ ~row.deleted}
ContractStatusOf(k) == contracts[k].com.status
LinesOf(k) == {l \in Quoted : lines[l].com.contract = k}

\* The tables and the handlers' variables have their types, and every line of a
\* contract has a place, and no two have the same, although two calls may
\* append at once and another moves the lines.
TypeOK ==
  /\ contracts \in [Contracts -> Versioned(ContractRow, Calls)]
  /\ lines \in [Lines -> Versioned(LineRow, Calls)]
  /\ call \in [Calls -> CallState]
  /\ \A l \in Quoted : lines[l].com.sortOrder >= 0
  /\ \A l, m \in Quoted :
       lines[l].com.contract = lines[m].com.contract
         /\ lines[l].com.sortOrder = lines[m].com.sortOrder => l = m

\* What a contract quotes has been in force: the version of each of its
\* lines is active, or was, and its first day has come; no line ever quotes a
\* draft, and none is left quoting a version that went back to be approved.
QuotesWhatWasInForce ==
  \A l \in Quoted :
    LET v == lines[l].com.version IN
    Status(v) \in {"active", "superseded"} /\ EffectiveFrom[v] <= today

\* Once approved a contract keeps its lines and its terms for good, whatever
\* becomes of the library and of its revisions.  True when no edit of the
\* contract overlaps its approval: EditsApart.
ApprovedIsFrozen ==
  [][\A k \in Contracts : ContractStatusOf(k) \notin {"none", "draft"} =>
       /\ contracts'[k].com.terms = contracts[k].com.terms
       /\ LinesOf(k)' = LinesOf(k)
       /\ \A l \in LinesOf(k) : lines'[l].com = lines[l].com]_vars

\* A contract that was approved says something, and so does its revision
\* until its own lines are removed: the test for clauses and the write of the
\* status are two statements, and so are those of a removal.
ApprovedHasClauses ==
  \A k \in Contracts :
    ContractStatusOf(k) \notin {"none", "draft"} => LinesOf(k) # {}

-----------------------------------------------------------------------------
(* What ApprovedIsFrozen asks of the calls. *)

Editing == {"addClause", "runRules", "removeClause", "reorder",
            "editClauseText", "resnapshot", "update"}

\* No edit of a contract overlaps its approval.
EditsApart ==
  \A q, r \in Calls :
    /\ CallOp[q] \in Editing /\ CallOp[r] = "approve"
    /\ CallContract[q] = CallContract[r]
    => {q, r} \in Exclusive
=============================================================================
