--------------------------- MODULE ContractAssembly ---------------------------
(***************************************************************************)
(* Contracts and the clauses they quote (apps/api: modules/contract).  A   *)
(* draft contract is assembled from the versions that are active at the    *)
(* time; once approved it keeps what it quotes, whatever becomes of the    *)
(* library, and changes are made on a revision, a new draft that starts as *)
(* a copy.                                                                 *)
(*                                                                         *)
(* The library goes on by itself (ClauseVersions): it never reads or       *)
(* writes contracts, and contracts only read its committed rows.  Texts    *)
(* are abstracted to the version they come from and whether they were      *)
(* edited by hand; parties and commercial fields to one value, terms.      *)
(***************************************************************************)
EXTENDS ClauseVersions, Sequences, SequencesExt

CONSTANTS
  Contracts,
  Template,              \* the clauses of the template contracts are made from
  Calls, CallOp,         \* the HTTP calls on contracts
  CallContract,          \* the contract a call makes or works on
  CallClause,            \* the clause that addClause adds
  CallParent,            \* the contract that revise starts from
  Matches,               \* the clauses that the matching rules add
  CallAfter,             \* a call is made once these have been answered
  Exclusive,             \* sets of calls that never overlap
  MaxLines,              \* the bound on contract_clauses rows
  CallPool               \* open transactions at a time

CallOperations ==
  {"create", "revise", "update", "addClause", "runRules", "removeClause",
   "reorder", "editClauseText", "resnapshot", "approve", "sign", "close"}

ContractStatus == {"none", "draft", "approved", "signed", "closed"}

\* What is still to be added: a clause, and whether it is mandatory.
Addition == [clause : Clauses, mandatory : BOOLEAN]

ASSUME ContractAssumption ==
  /\ Template \in Seq(Addition)
  /\ CallOp \in [Calls -> CallOperations]
  /\ CallContract \in [Calls -> Contracts]
  /\ \A q \in Calls : CallOp[q] = "addClause" => CallClause[q] \in Clauses
  /\ \A q \in Calls : CallOp[q] = "revise" => CallParent[q] \in Contracts
  /\ Matches \in Seq(Addition)
  /\ CallAfter \in [Calls -> SUBSET Calls]
  /\ Exclusive \subseteq SUBSET Calls
  /\ MaxLines \in Nat \ {0}
  /\ CallPool \in Nat \ {0}
  /\ Nobody \notin Calls \cup Contracts

VARIABLES
  contracts,  \* contracts: status and terms
  lines,      \* contract_clauses
  call        \* per call: where its handler is, and its local variables

assembly == <<contracts, lines, call>>
vars == <<library, assembly>>

Lines == 1..MaxLines

ContractRow == [status : ContractStatus, terms : {"first", "changed"}]

LineRow == [contract : Contracts \cup {Nobody}, clause : Clauses \cup {Nobody},
            version : Versions \cup {Nobody},
            sortOrder : Int,
            byHand : BOOLEAN, mandatory : BOOLEAN, deleted : BOOLEAN]

NoLine == [contract |-> Nobody, clause |-> Nobody, version |-> Nobody,
           sortOrder |-> 0, byHand |-> FALSE, mandatory |-> FALSE, deleted |-> FALSE]

\* A line as resnapshotToLatest lists it.
Entry == [line : Lines, clause : Clauses, version : Versions, byHand : BOOLEAN]

CallWorking == {"snapshot", "list", "insert", "remove", "aside", "place", "edit",
                "overwrite", "write", "transition", "commit"}

\* A handler's variables: the additions or lines it has to do, the line, the
\* position in the list or the version it is at, and the sort order it computed.
CallState == [pc : {"new", "ended"} \cup CallWorking,
              todo : Seq(Addition \cup Entry \cup [line : Lines]), line : Nat,
              found : Versions \cup {Nobody}, sortOrder : Nat]

CallAt(pc) == [pc |-> pc, todo |-> <<>>, line |-> 0, found |-> Nobody, sortOrder |-> 0]

Init ==
  /\ LibraryInit
  /\ contracts = [k \in Contracts |-> Fresh([status |-> "none", terms |-> "first"])]
  /\ lines = [l \in Lines |-> Fresh(NoLine)]
  /\ call = [q \in Calls |-> CallAt("new")]

-----------------------------------------------------------------------------
(* Transactions. *)

OpenCalls == {q \in Calls : call[q].pc \in CallWorking}

Begins(q, op) ==
  /\ CallOp[q] = op
  /\ call[q].pc = "new"
  /\ Cardinality(OpenCalls) < CallPool
  /\ \A r \in CallAfter[q] : call[r].pc = "ended"
  /\ \A r \in OpenCalls : {q, r} \notin Exclusive

Is(q, pc) == call[q].pc = pc
Continue(q, pc) == call' = [call EXCEPT ![q].pc = pc]

RollbackCall(q) ==
  /\ contracts' = RolledBackAll(q, contracts)
  /\ lines' = RolledBackAll(q, lines)
  /\ call' = [call EXCEPT ![q] = CallAt("new")]

CommitCall(q) ==
  /\ Is(q, "commit")
  /\ contracts' = CommittedAll(q, contracts)
  /\ lines' = CommittedAll(q, lines)
  /\ call' = [call EXCEPT ![q] = CallAt("ended")]

\* The handler throws, or its connection is lost, or a deadlock is broken.
CrashCall(q) == q \in OpenCalls /\ RollbackCall(q)

Contract(q) == Seen(q, contracts[CallContract[q]])
Line(q, l) == Seen(q, lines[l])

\* listContractClauses, in no order: the contract's lines.
Listed(q, k) == {l \in Lines : Line(q, l).contract = k /\ ~Line(q, l).deleted}
OwnLines(q) == Listed(q, CallContract[q])

NotDeleted(q) == Contract(q).status # "none"                       \* mutant
RequireDraft(q) == Contract(q).status = "draft"

WriteContract(q, row) ==
  /\ Lockable(q, contracts[CallContract[q]])
  /\ contracts' = [contracts EXCEPT ![CallContract[q]] = Put(q, @, row)]

\* UPDATE of a line that is not deleted by then; otherwise no row matches.
UpdateLine(q, l, row) ==
  /\ Lockable(q, lines[l])
  /\ lines' = IF lines[l].cur.deleted THEN lines
                                      ELSE [lines EXCEPT ![l] = Put(q, @, row)]

-----------------------------------------------------------------------------
(* contract-assembly.service.ts: snapshotClause, and how lines are added.  *)

ClauseAt(q) == Head(call[q].todo).clause

NewestVersion(c) ==                                                \* mutant
  {v \in Versions : /\ ClauseOf[v] = c
                    /\ versions[v].com.status # "none"
                    /\ \A w \in Siblings(v) :
                         versions[w].com.number <= versions[v].com.number}
ActiveVersion(c) ==
  {v \in Versions : ClauseOf[v] = c /\ versions[v].com.status = "active"}

\* Without an active version the handler throws.
SnapshotClause(q) ==
  /\ Is(q, "snapshot")
  /\ \/ ActiveVersion(ClauseAt(q)) = {} /\ RollbackCall(q)
     \/ \E v \in ActiveVersion(ClauseAt(q)) :
          /\ call' = [call EXCEPT
                        ![q].found = v,
                        ![q].pc = CASE CallOp[q] = "addClause"  -> "list"
                                    [] CallOp[q] = "resnapshot" -> "overwrite"
                                    [] OTHER                    -> "insert"]
          /\ UNCHANGED <<contracts, lines>>

\* The handler is through with the head of its list.
Advance(q, pc) ==
  call' = [call EXCEPT
             ![q].todo = Tail(@), ![q].found = Nobody,
             ![q].sortOrder = IF CallOp[q] = "create" THEN @ + 1 ELSE 0,
             ![q].pc = IF Len(call[q].todo) = 1 THEN "commit" ELSE pc]

\* addClause appends; a rule does not add a clause the contract has.
ListClauses(q) ==
  LET present == OwnLines(q)
      orders == {Line(q, l).sortOrder : l \in present}
  IN
  /\ Is(q, "list")
  /\ \/ /\ CallOp[q] = "runRules"
        /\ \E l \in present : Line(q, l).clause = ClauseAt(q)
        /\ Advance(q, "list")
     \/ /\ CallOp[q] = "addClause" \/ \A l \in present : Line(q, l).clause # ClauseAt(q)
        /\ call' = [call EXCEPT
                      ![q].sortOrder = IF orders = {} THEN 0 ELSE Max(orders) + 1,
                      ![q].pc = IF CallOp[q] = "addClause" THEN "insert" ELSE "snapshot"]
  /\ UNCHANGED <<contracts, lines>>

Unused == {l \in Lines : lines[l] = Fresh(NoLine)}

NoIndex(q, m, order) == {}                                         \* mutant
\* The lines but m that the unique index on (contract, sort_order) meets: a line
\* that another transaction has written counts with its old order, too.
SameOrder(q, m, order) ==
  LET occupies(row) == /\ row.contract = CallContract[q]
                       /\ row.sortOrder = order
                       /\ ~row.deleted
  IN {l \in Lines \ {m} : \/ occupies(lines[l].cur)
                          \/ ~Lockable(q, lines[l]) /\ occupies(lines[l].com)}

InsertClause(q) ==
  LET same == SameOrder(q, 0, call[q].sortOrder) IN
  /\ Is(q, "insert")
  /\ \A l \in same : Lockable(q, lines[l])
  /\ \/ same # {} /\ RollbackCall(q)
     \/ /\ same = {} /\ Unused # {}
        /\ lines' = [lines EXCEPT ![Min(Unused)] = Put(q, @,
             [contract |-> CallContract[q], clause |-> ClauseAt(q),
              version |-> call[q].found, sortOrder |-> call[q].sortOrder,
              byHand |-> FALSE, mandatory |-> Head(call[q].todo).mandatory,
              deleted |-> FALSE])]
        /\ Advance(q, IF CallOp[q] = "create" THEN "snapshot" ELSE "list")
        /\ UNCHANGED contracts

-----------------------------------------------------------------------------
(* The calls. *)

\* Contracts are numbered and inserted, and assembled from the template.
Create(q) ==
  /\ Begins(q, "create")
  /\ Contract(q).status = "none"
  /\ WriteContract(q, [status |-> "draft", terms |-> "first"])
  /\ call' = [call EXCEPT ![q].todo = Template,
                          ![q].pc = IF Template = <<>> THEN "commit" ELSE "snapshot"]
  /\ UNCHANGED lines

AddClause(q) ==
  /\ Begins(q, "addClause")
  /\ RequireDraft(q)
  /\ call' = [call EXCEPT ![q].pc = "snapshot",
                ![q].todo = <<[clause |-> CallClause[q], mandatory |-> FALSE]>>]
  /\ UNCHANGED <<contracts, lines>>

RunRules(q) ==
  /\ Begins(q, "runRules")
  /\ RequireDraft(q)
  /\ Matches # <<>>
  /\ call' = [call EXCEPT ![q].pc = "list", ![q].todo = Matches]
  /\ UNCHANGED <<contracts, lines>>

\* Any line of the contract that is not mandatory.
RemoveClause(q) ==
  /\ Begins(q, "removeClause")
  /\ RequireDraft(q)
  /\ \E l \in OwnLines(q) :
       /\ ~Line(q, l).mandatory
       /\ call' = [call EXCEPT ![q].pc = "remove", ![q].line = l]
  /\ UNCHANGED <<contracts, lines>>

WriteRemoved(q) ==
  LET l == call[q].line IN
  /\ Is(q, "remove")
  /\ UpdateLine(q, l, [lines[l].cur EXCEPT !.deleted = TRUE])
  /\ Continue(q, "commit")
  /\ UNCHANGED contracts

\* The lists of the contract's lines by sort order: there is one.
InOrder(q) ==
  {list \in [1..Cardinality(OwnLines(q)) -> OwnLines(q)] :
     \A m, n \in DOMAIN list :
       m < n => Line(q, list[m]).sortOrder < Line(q, list[n]).sortOrder}

\* The new order is the old one turned round.
Reorder(q) ==
  /\ Begins(q, "reorder")
  /\ RequireDraft(q)
  /\ OwnLines(q) # {}
  /\ \E list \in InOrder(q) :
       LET ids == Reverse(list) IN
       call' = [call EXCEPT ![q].pc = "aside", ![q].line = 1,
                            ![q].todo = [n \in DOMAIN ids |-> [line |-> ids[n]]]]
  /\ UNCHANGED <<contracts, lines>>

\* The line at the handler's position gets a sort order; after the last one
\* the handler goes on to pc.
MoveLine(q, order, pc) ==
  LET n == call[q].line
      l == call[q].todo[n].line
      same == IF lines[l].cur.deleted THEN {} ELSE SameOrder(q, l, order)
  IN
  /\ \A m \in same : Lockable(q, lines[m])
  /\ \/ same # {} /\ RollbackCall(q)
     \/ /\ same = {}
        /\ UpdateLine(q, l, [lines[l].cur EXCEPT !.sortOrder = order])
        /\ call' = IF n < Len(call[q].todo)
                   THEN [call EXCEPT ![q].line = n + 1]
                   ELSE [call EXCEPT ![q].line = 1, ![q].pc = pc]
        /\ UNCHANGED contracts

\* Every line below 0 first, so that none meets the old order of another.
MoveAside(q) == Is(q, "aside") /\ MoveLine(q, -call[q].line, "place")
MoveIntoPlace(q) == Is(q, "place") /\ MoveLine(q, call[q].line - 1, "commit")

EditClauseText(q) ==
  /\ Begins(q, "editClauseText")
  /\ RequireDraft(q)
  /\ \E l \in OwnLines(q) :
       call' = [call EXCEPT ![q].pc = "edit", ![q].line = l]
  /\ UNCHANGED <<contracts, lines>>

\* A line removed meanwhile is not found, which is an error here.
WriteEdited(q) ==
  LET l == call[q].line IN
  /\ Is(q, "edit")
  /\ \/ lines[l].cur.deleted /\ Lockable(q, lines[l]) /\ RollbackCall(q)
     \/ /\ ~lines[l].cur.deleted
        /\ UpdateLine(q, l, [lines[l].cur EXCEPT !.byHand = TRUE])
        /\ Continue(q, "commit")
        /\ UNCHANGED contracts

\* resnapshotToLatest: every line, in the order of the list.
EntryOf(q, l) == [line |-> l, clause |-> Line(q, l).clause,
                  version |-> Line(q, l).version, byHand |-> Line(q, l).byHand]

Resnapshot(q) ==
  /\ Begins(q, "resnapshot")
  /\ RequireDraft(q)
  /\ OwnLines(q) # {}
  /\ \E list \in InOrder(q) :
       call' = [call EXCEPT ![q].pc = "snapshot",
                            ![q].todo = [n \in DOMAIN list |-> EntryOf(q, list[n])]]
  /\ UNCHANGED <<contracts, lines>>

\* Only a line whose text, as it was listed, is not the active version's.
Overwrite(q) ==
  LET entry == Head(call[q].todo)
      l == entry.line
  IN
  /\ Is(q, "overwrite")
  /\ \/ entry.version = call[q].found /\ ~entry.byHand /\ UNCHANGED lines
     \/ /\ entry.version # call[q].found \/ entry.byHand
        /\ UpdateLine(q, l, [lines[l].cur EXCEPT !.version = call[q].found,
                                                 !.byHand = FALSE])
  /\ Advance(q, "snapshot")
  /\ UNCHANGED contracts

\* update, and sendForApproval, which writes other columns the same way.
UpdateContract(q) ==
  /\ Begins(q, "update")
  /\ RequireDraft(q)
  /\ Continue(q, "write")
  /\ UNCHANGED <<contracts, lines>>

\* updateContractFields does not test the status again.
WriteTerms(q) ==
  /\ Is(q, "write")
  /\ WriteContract(q, [contracts[CallContract[q]].cur EXCEPT !.terms = "changed"])
  /\ Continue(q, "commit")
  /\ UNCHANGED lines

\* approve, sign, close: runTransition.
From(q) == CASE CallOp[q] = "approve" -> "draft"
             [] CallOp[q] = "sign"    -> "approved"
             [] OTHER                 -> "signed"
To(q)   == CASE CallOp[q] = "approve" -> "approved"
             [] CallOp[q] = "sign"    -> "signed"
             [] OTHER                 -> "closed"

NoGuard(q) == TRUE                                                 \* mutant
HasClauses(q) == CallOp[q] = "approve" => OwnLines(q) # {}

RunTransition(q) ==
  /\ CallOp[q] \in {"approve", "sign", "close"}
  /\ Begins(q, CallOp[q])
  /\ Contract(q).status # "none"
  /\ HasClauses(q)
  /\ Continue(q, "transition")
  /\ UNCHANGED <<contracts, lines>>

\* The compare-and-set: a row seen in another status is not waited for.
Transition(q) ==
  LET row == contracts[CallContract[q]] IN
  /\ Is(q, "transition")
  /\ \/ Contract(q).status # From(q) /\ RollbackCall(q)
     \/ /\ Contract(q).status = From(q)
        /\ WriteContract(q, [row.cur EXCEPT !.status = To(q)])
        /\ Continue(q, "commit")
        /\ UNCHANGED lines

Revisable(status) == status \notin {"none", "draft"}

\* Rows of its own with the parent's texts, edited ones included.  Inserts of
\* rows that nobody else sees before the commit: one step with the reads.
Revise(q) ==
  LET parent == Seen(q, contracts[CallParent[q]])
      from == Listed(q, CallParent[q])
      CopyOf(l) == [Line(q, l) EXCEPT !.contract = CallContract[q]]
  IN
  /\ Begins(q, "revise")
  /\ Contract(q).status = "none"
  /\ Revisable(parent.status)
  /\ WriteContract(q, [status |-> "draft", terms |-> parent.terms])
  /\ \E copies \in SUBSET Unused : \E source \in [copies -> from] :
       /\ \A l \in copies, m \in Unused : m < l => m \in copies
       /\ \A l, m \in copies : l < m => source[l] < source[m]
       /\ \A m \in from : \E l \in copies : source[l] = m
       /\ lines' = [l \in Lines |-> IF l \in copies
                                    THEN Put(q, lines[l], CopyOf(source[l]))
                                    ELSE lines[l]]
  /\ Continue(q, "commit")

-----------------------------------------------------------------------------
BeginCall(q) ==
  \/ Create(q) \/ AddClause(q) \/ RunRules(q) \/ RemoveClause(q)
  \/ Reorder(q) \/ EditClauseText(q) \/ Resnapshot(q) \/ UpdateContract(q)
  \/ RunTransition(q) \/ Revise(q)

RunCall(q) ==
  \/ SnapshotClause(q) \/ ListClauses(q) \/ InsertClause(q)
  \/ WriteRemoved(q) \/ MoveAside(q) \/ MoveIntoPlace(q) \/ WriteEdited(q) \/ Overwrite(q) \/ WriteTerms(q)
  \/ Transition(q) \/ CommitCall(q)

AssemblyNext == \E q \in Calls : BeginCall(q) \/ RunCall(q) \/ CrashCall(q)

Next == \/ LibraryNext /\ UNCHANGED assembly
        \/ AssemblyNext /\ UNCHANGED library

Spec == Init /\ [][Next]_vars
=============================================================================
