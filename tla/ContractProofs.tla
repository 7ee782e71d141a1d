---------------------------- MODULE ContractProofs ----------------------------
(***************************************************************************)
(* Proofs, for any library, contracts and calls, that a contract quotes    *)
(* only versions that have been in force and gives every line a place of   *)
(* its own; and, if no edit of a contract overlaps its approval, that an   *)
(* approved contract has clauses and keeps them.                           *)
(***************************************************************************)
EXTENDS ContractProperties, ClauseProofs, SequenceTheorems

Creating == {"create", "revise"}

\* A version that a contract may quote.
QuoteOK(v) == v \in Versions /\ Status(v) \in InForce /\ EffectiveFrom[v] <= today

AssemblyTypes ==
  /\ contracts \in [Contracts -> Versioned(ContractRow, Calls)]
  /\ lines \in [Lines -> Versioned(LineRow, Calls)]
  /\ call \in [Calls -> CallState]

\* Who may hold a contract's row, and what the holder may have written.
ContractOK(k) ==
  LET row == contracts[k]
      op == CallOp[row.lock]
  IN
  /\ row.lock = Nobody => row.cur = row.com
  /\ row.lock # Nobody =>
       /\ CallContract[row.lock] = k
       /\ row.cur.status # "none"
       /\ op \in Creating => row.cur.status = "draft"
       /\ op \in Editing => row.cur.status = row.com.status
       /\ op \notin Creating \cup Editing => row.cur.terms = row.com.terms
       /\ op \in {"sign", "close"} => row.com.status \notin {"none", "draft"}

\* A line is of the contract of the call that writes it, for good, and quotes
\* what has been in force.
LineOK(l) ==
  LET line == lines[l] IN
  /\ line.lock = Nobody => line.cur = line.com
  /\ line.lock # Nobody => line.cur.contract = CallContract[line.lock]
  /\ line.com.sortOrder >= 0
  /\ line.com.contract # Nobody =>
       /\ line.cur.contract = line.com.contract
       /\ contracts[line.com.contract].com.status # "none"
  /\ \A row \in {line.com, line.cur} : row.contract # Nobody =>
       row.clause \in Clauses /\ QuoteOK(row.version)

\* Two rows that the unique index on (contract, sort_order) keeps apart.
Clash(row, other) ==
  /\ row.contract # Nobody /\ row.contract = other.contract
  /\ ~row.deleted /\ ~other.deleted
  /\ row.sortOrder = other.sortOrder

\* A line takes the old place of another only if the same call has moved that.
LinePairOK(l, m) ==
  /\ ~Clash(lines[l].com, lines[m].com)
  /\ ~Clash(lines[l].cur, lines[m].cur)
  /\ Clash(lines[l].cur, lines[m].com) =>
       lines[l].lock # Nobody /\ lines[l].lock = lines[m].lock

\* A line that the call has put aside is one that it has still to place.
ToPlace(q, l) ==
  /\ call[q].pc \in {"aside", "place"}
  /\ \E i \in DOMAIN call[q].todo :
       /\ call[q].todo[i].line = l
       /\ call[q].pc = "place" => i >= call[q].line

\* The lines in the call's list are the contract's.
OwnTodo(q) ==
  \A i \in DOMAIN call[q].todo :
    lines[call[q].todo[i].line].com.contract = CallContract[q]

CallOK(q) ==
  LET s == call[q]
      k == CallContract[q]
  IN
  /\ s.pc \in {"new", "ended"} =>
       /\ \A m \in Contracts : contracts[m].lock # q
       /\ \A l \in Lines : lines[l].lock # q
  /\ s.pc \in CallWorking =>
       IF CallOp[q] \in Creating
       THEN contracts[k].lock = q /\ contracts[k].com.status = "none"
       ELSE contracts[k].com.status # "none"
  /\ \A l \in Lines : lines[l].lock = q =>
       /\ CallOp[q] \in Creating \cup Editing
       /\ lines[l].cur.sortOrder >= 0 \/ ToPlace(q, l)
       /\ CallOp[q] = "reorder" => ~lines[l].cur.deleted
  /\ s.pc \in {"snapshot", "list", "insert", "overwrite"} =>
       /\ CallOp[q] \in {"create", "addClause", "runRules", "resnapshot"}
       /\ s.todo # <<>>
       /\ IF CallOp[q] = "resnapshot" THEN s.todo \in Seq(Entry) /\ OwnTodo(q)
                                      ELSE s.todo \in Seq(Addition)
  /\ s.pc \in {"list", "insert"} => CallOp[q] # "resnapshot"
  /\ s.pc = "list" => CallOp[q] # "create"
  /\ s.pc \in {"snapshot", "list", "insert"} /\ CallOp[q] = "addClause" => Len(s.todo) = 1
  /\ s.pc = "overwrite" => CallOp[q] = "resnapshot"
  /\ s.pc \in {"insert", "overwrite"} \/ (s.pc = "list" /\ CallOp[q] = "addClause") =>
       QuoteOK(s.found)
  /\ s.pc \in {"aside", "place"} =>
       /\ CallOp[q] = "reorder"
       /\ s.todo \in Seq([line : Lines])
       /\ OwnTodo(q)
       /\ s.line \in 1..Len(s.todo)
  /\ s.pc \in {"remove", "edit"} =>
       /\ CallOp[q] \in {"removeClause", "editClauseText"}
       /\ s.line \in Lines
       /\ lines[s.line].com.contract = k
  /\ s.pc = "write" => CallOp[q] = "update"
  /\ s.pc = "transition" => CallOp[q] \in {"approve", "sign", "close"}

ContractsInv == \A k \in Contracts : ContractOK(k)
LinesInv     == \A l \in Lines : LineOK(l)
LinePairsInv == \A l \in Lines : \A m \in Lines \ {l} : LinePairOK(l, m)
CallsInv     == \A q \in Calls : CallOK(q)

AssemblyInv == AssemblyTypes /\ ContractsInv /\ LinesInv /\ LinePairsInv /\ CallsInv

IsApproving(r, k) ==
  CallOp[r] = "approve" /\ CallContract[r] = k /\ call[r].pc \in CallWorking

BeyondDraft(status) == status \notin {"none", "draft"}

\* While a contract is being approved, and from then on, nobody edits it, and
\* it has clauses.
FrozenOK(k) ==
  /\ BeyondDraft(ContractStatusOf(k)) \/ (\E r \in Calls : IsApproving(r, k)) =>
       /\ \A q \in Calls : CallOp[q] \in Editing /\ CallContract[q] = k =>
            call[q].pc \notin CallWorking
       /\ LinesOf(k) # {}

FrozenInv == \A k \in Contracts : FrozenOK(k)

-----------------------------------------------------------------------------
(* Numbers and lists. *)

LEMMA HasLeast ==
  ASSUME NEW S \in SUBSET Nat, S # {}
  PROVE  \E n \in S : \A m \in S : n <= m
<1>1. PICK n \in S : \A m \in S : <<m, n>> \notin OpToRel(<, Nat)
  BY NatLessThanWellFounded, WFMin
<1>2. \A m \in S : ~(m < n)
  BY <1>1 DEF OpToRel
<1> QED
  BY <1>2

\* Finitely many numbers, one for each of some lines, have a greatest.
LEMMA HasGreatest ==
  ASSUME NEW T \in SUBSET Lines, T # {}, NEW f, \A l \in T : f[l] \in Int
  PROVE  \E l \in T : \A m \in T : f[l] >= f[m]
<1> DEFINE Bounded(l) == \A m \in T : m >= l => f[m] <= f[l]
           Good(n) == \E l \in T : \A m \in T : m <= n => f[l] >= f[m]
           Bad == {n \in Nat : ~Good(n)}
<1>0. T \subseteq Nat /\ MaxLines \in Nat /\ \A l \in T : l <= MaxLines
  BY ContractAssumption DEF Lines
<1>1. Bad = {}
  <2> SUFFICES ASSUME Bad # {} PROVE FALSE
    OBVIOUS
  <2>1. PICK n \in Bad : \A m \in Bad : n <= m
    BY HasLeast
  <2>2. n # 0
    <3>1. \A m \in T : ~(m <= 0)
      BY DEF Lines
    <3>2. Good(0)
      BY <3>1
    <3> QED
      BY <2>1, <3>2
  <2>3. Good(n - 1)
    BY <2>1, <2>2
  <2>4. PICK l \in T : \A m \in T : m <= n - 1 => f[l] >= f[m]
    BY <2>3
  <2>5. \A m \in T : m <= n => m <= n - 1 \/ m = n
    BY <1>0, <2>1
  <2>6. CASE n \in T /\ f[n] > f[l]
    BY <2>1, <2>4, <2>5, <2>6
  <2>7. CASE ~(n \in T /\ f[n] > f[l])
    BY <2>1, <2>4, <2>5, <2>7
  <2> QED
    BY <2>6, <2>7
<1>2. Good(MaxLines)
  BY <1>0, <1>1
<1> QED
  BY <1>0, <1>2

LEMMA MaxInt ==
  ASSUME NEW T \in SUBSET Lines, T # {}, NEW f, \A l \in T : f[l] \in Int
  PROVE  \E l \in T : Max({f[m] : m \in T}) = f[l]
<1>1. PICK l \in T : \A m \in T : f[l] >= f[m]
  BY HasGreatest
<1>2. \E x \in {f[m] : m \in T} : \A y \in {f[m] : m \in T} : x >= y
  BY <1>1
<1> QED
  BY <1>2 DEF Max

\* What is left of a list without its head.
LEMMA TailOf ==
  ASSUME NEW S, NEW s \in Seq(S), s # <<>>
  PROVE  /\ Head(s) \in S
         /\ Tail(s) \in Seq(S)
         /\ Len(s) \in Nat
         /\ Len(s) # 1 => Tail(s) # <<>>
         /\ 1 \in DOMAIN s /\ Head(s) = s[1]
         /\ \A i \in DOMAIN Tail(s) : i + 1 \in DOMAIN s /\ Tail(s)[i] = s[i + 1]
<1>1. /\ Head(s) \in S
      /\ Tail(s) \in Seq(S)
      /\ Len(Tail(s)) = Len(s) - 1
      /\ \A i \in 1..Len(Tail(s)) : Tail(s)[i] = s[i + 1]
  BY HeadTailProperties
<1>2. /\ Len(s) \in Nat \ {0} /\ DOMAIN s = 1..Len(s)
      /\ DOMAIN Tail(s) = 1..Len(Tail(s))
  BY <1>1, EmptySeq, LenProperties
<1>3. Len(s) # 1 => Tail(s) # <<>>
  <2>1. Len(<<>>) = 0
    OBVIOUS
  <2>2. Len(s) # 1 => Len(Tail(s)) # 0
    BY <1>1, <1>2
  <2> QED
    BY <2>1, <2>2
<1>4. Head(s) = s[1]
  OBVIOUS
<1> QED
  BY <1>1, <1>2, <1>3, <1>4

-----------------------------------------------------------------------------
(* Rows and calls. *)

LEMMA CallConstants ==
  /\ \A q \in Calls : CallContract[q] \in Contracts /\ q # Nobody
  /\ \A k \in Contracts : k # Nobody
  /\ Lines \subseteq Nat \ {0}
BY ContractAssumption DEF Lines

LEMMA ContractRowType ==
  ASSUME AssemblyTypes, NEW k \in Contracts
  PROVE  /\ contracts[k].lock \in Calls \cup {Nobody}
         /\ contracts[k].com \in ContractRow
         /\ contracts[k].cur \in ContractRow
         /\ contracts[k].com.status \in ContractStatus
         /\ contracts[k].cur.status \in ContractStatus
<1>1. contracts[k] \in Versioned(ContractRow, Calls)
  BY DEF AssemblyTypes
<1> QED
  BY <1>1 DEF Versioned, ContractRow

LEMMA LineRowType ==
  ASSUME AssemblyTypes, NEW l \in Lines
  PROVE  /\ lines[l].lock \in Calls \cup {Nobody}
         /\ lines[l].com \in LineRow
         /\ lines[l].cur \in LineRow
         /\ lines[l].com.contract \in Contracts \cup {Nobody}
         /\ lines[l].cur.contract \in Contracts \cup {Nobody}
         /\ lines[l].com.sortOrder \in Int
         /\ lines[l].cur.sortOrder \in Int
         /\ lines[l].cur.deleted \in BOOLEAN
<1>1. lines[l] \in Versioned(LineRow, Calls)
  BY DEF AssemblyTypes
<1> QED
  BY <1>1 DEF Versioned, LineRow

LEMMA CallAtType ==
  ASSUME NEW pc \in {"new", "ended"} \cup CallWorking
  PROVE  CallAt(pc) \in CallState /\ CallAt(pc).pc = pc
<1>1. <<>> \in Seq(Addition \cup Entry \cup [line : Lines])
  BY EmptySeq
<1> QED
  BY <1>1 DEF CallAt, CallState

\* The tables after a call has ended.
LEMMA EndedTables ==
  ASSUME AssemblyTypes, NEW q \in Calls
  PROVE  /\ CommittedAll(q, contracts) \in [Contracts -> Versioned(ContractRow, Calls)]
         /\ CommittedAll(q, lines) \in [Lines -> Versioned(LineRow, Calls)]
         /\ RolledBackAll(q, contracts) \in [Contracts -> Versioned(ContractRow, Calls)]
         /\ RolledBackAll(q, lines) \in [Lines -> Versioned(LineRow, Calls)]
         /\ \A k \in Contracts :
              IF contracts[k].lock = q
              THEN /\ CommittedAll(q, contracts)[k] = Fresh(contracts[k].cur)
                   /\ RolledBackAll(q, contracts)[k] = Fresh(contracts[k].com)
              ELSE /\ CommittedAll(q, contracts)[k] = contracts[k]
                   /\ RolledBackAll(q, contracts)[k] = contracts[k]
         /\ \A l \in Lines :
              IF lines[l].lock = q
              THEN /\ CommittedAll(q, lines)[l] = Fresh(lines[l].cur)
                   /\ RolledBackAll(q, lines)[l] = Fresh(lines[l].com)
              ELSE /\ CommittedAll(q, lines)[l] = lines[l]
                   /\ RolledBackAll(q, lines)[l] = lines[l]
BY DEF AssemblyTypes, CommittedAll, RolledBackAll, Committed, RolledBack, Fresh, Versioned

-----------------------------------------------------------------------------
LEMMA InitAssembly == Init => AssemblyInv
<1> SUFFICES ASSUME Init PROVE AssemblyInv
  OBVIOUS
<1> DEFINE newContract == [status |-> "none", terms |-> "first"]
<1>1. \A k \in Contracts :
        /\ contracts[k] \in Versioned(ContractRow, Calls)
        /\ contracts[k].com = newContract /\ contracts[k].cur = newContract
        /\ contracts[k].lock = Nobody
  <2>1. newContract \in ContractRow
    BY DEF ContractRow, ContractStatus
  <2> QED
    BY <2>1 DEF Init, Fresh, Versioned
<1>2. \A l \in Lines :
        /\ lines[l] \in Versioned(LineRow, Calls)
        /\ lines[l].com = NoLine /\ lines[l].cur = NoLine
        /\ lines[l].lock = Nobody
  <2>1. NoLine \in LineRow
    BY DEF NoLine, LineRow
  <2> QED
    BY <2>1 DEF Init, Fresh, Versioned
<1>3. \A q \in Calls : call[q] \in CallState /\ call[q].pc = "new"
  BY CallAtType DEF Init
<1>4. AssemblyTypes
  BY <1>1, <1>2, <1>3 DEF AssemblyTypes, Init
<1>5. ContractsInv
  BY <1>1 DEF ContractsInv, ContractOK
<1>6. LinesInv
  BY <1>2 DEF LinesInv, LineOK, NoLine
<1>7. LinePairsInv
  BY <1>2 DEF LinePairsInv, LinePairOK, Clash, NoLine
<1>8. CallsInv
  <2> SUFFICES ASSUME NEW q \in Calls PROVE CallOK(q)
    BY DEF CallsInv
  <2>1. /\ \A m \in Contracts : contracts[m].lock # q
        /\ \A l \in Lines : lines[l].lock # q
    BY <1>1, <1>2, CallConstants
  <2> QED
    BY <1>3, <2>1 DEF CallOK, CallWorking
<1> QED
  BY <1>4, <1>5, <1>6, <1>7, <1>8 DEF AssemblyInv

-----------------------------------------------------------------------------
(* What the library does to the versions that contracts quote: nothing.    *)

LEMMA UpdateKeepsCommitted ==
  ASSUME LibraryInv, NEW q, NEW x, NEW row, Update(q, x, row), NEW v \in Versions
  PROVE  Status(v)' = Status(v)
BY DEF LibraryInv, LibTypes, Update, Put, Status

LEMMA RollbackKeepsCommitted ==
  ASSUME LibraryInv, NEW q \in Requests, Rollback(q), NEW v \in Versions
  PROVE  Status(v)' = Status(v)
BY EndedRows, FreshRow DEF LibraryInv, Rollback, Status

\* A version that is in force is committed as in force, or as superseded.
LEMMA StaysInForce ==
  ASSUME LibraryInv, LibraryNext, NEW v \in Versions, Status(v) \in InForce
  PROVE  Status(v)' \in InForce
<1>1. CASE NextDay
  BY <1>1 DEF NextDay, Status
<1>2. ASSUME NEW q \in Requests, Commit(q)
      PROVE  Status(v)' \in InForce
  <2>1. CASE versions[v].lock = q
    <3>1. Status(v)' = versions[v].cur.status
      BY <1>2, <2>1, EndedRows, FreshRow DEF LibraryInv, Commit, Status
    <3>2. VersionOK(v) /\ OwedOK(q, v)
      BY <2>1 DEF LibraryInv, RowsInv, HandlersInv, HandlerOK
    <3>3. versions[v].cur.status \in VersionStatus \ {"none"}
      BY <1>2, <2>1, CommittedRows, RowType DEF LibraryInv, Commit
    <3> QED
      BY <1>2, <3>1, <3>2, <3>3
         DEF VersionOK, OwedOK, VersionStatus, InForce, Status, Commit, At, Promoting
  <2>2. CASE versions[v].lock # q
    BY <1>2, <2>2, EndedRows DEF LibraryInv, Commit, Status
  <2> QED
    BY <2>1, <2>2
<1>3. ASSUME NEW q \in Requests,
             \/ AddVersion(q) \/ ApproveVersion(q) \/ FindDue(q)
             \/ FindMaxVersionNumber(q) \/ FindDueAfterApproval(q) \/ FindActiveVersion(q)
      PROVE  Status(v)' = Status(v)
  BY <1>3 DEF AddVersion, ApproveVersion, FindDue, FindMaxVersionNumber,
              FindDueAfterApproval, FindActiveVersion, Status
<1>4. ASSUME NEW q \in Requests,
             \/ InsertVersion(q) \/ WriteApproved(q) \/ SupersedePrior(q) \/ Activate(q)
      PROVE  Status(v)' = Status(v)
  BY <1>4, UpdateKeepsCommitted, RollbackKeepsCommitted
     DEF InsertVersion, WriteApproved, SupersedePrior, Activate
<1>5. ASSUME NEW q \in Requests, Crash(q) \/ BreakDeadlock(q)
      PROVE  Status(v)' = Status(v)
  BY <1>5, RollbackKeepsCommitted DEF Crash, BreakDeadlock
<1> QED
  BY <1>1, <1>2, <1>3, <1>4, <1>5 DEF LibraryNext, Run

LEMMA StaysQuotable ==
  ASSUME LibraryInv, LibraryNext \/ UNCHANGED library, NEW v, QuoteOK(v)
  PROVE  QuoteOK(v)'
<1>1. CASE UNCHANGED library
  BY <1>1 DEF QuoteOK, Status, library
<1>2. CASE LibraryNext
  <2>1. v \in Versions /\ Status(v)' \in InForce
    BY <1>2, StaysInForce DEF QuoteOK
  <2>2. today \in Int /\ EffectiveFrom[v] \in Int /\ (today' = today \/ today' = today + 1)
    <3>1. today \in Int /\ EffectiveFrom[v] \in Int
      BY <2>1, LibraryAssumption DEF LibraryInv, LibTypes
    <3>2. today' = today \/ today' = today + 1
      BY <1>2 DEF LibraryNext, NextDay, Run, Crash, BreakDeadlock, Rollback, Commit,
         AddVersion, ApproveVersion, FindDue, FindMaxVersionNumber, InsertVersion,
         WriteApproved, FindDueAfterApproval, FindActiveVersion, SupersedePrior, Activate
    <3> QED
      BY <3>1, <3>2
  <2> QED
    BY <2>1, <2>2 DEF QuoteOK
<1> QED
  BY <1>1, <1>2

\* The version that a handler snapshots may be quoted.
LEMMA ActiveIsQuotable ==
  ASSUME LibraryInv, NEW c, NEW v \in ActiveVersion(c)
  PROVE  QuoteOK(v)
BY DEF ActiveVersion, QuoteOK, Status, InForce, LibraryInv, RowsInv, VersionOK

\* Contracts do not change while only the library does.
LEMMA LibraryStep ==
  ASSUME LibraryInv, AssemblyInv, LibraryNext \/ UNCHANGED library, UNCHANGED assembly
  PROVE  AssemblyInv'
<1>1. UNCHANGED <<contracts, lines, call>>
  BY DEF assembly
<1>2. \A v : QuoteOK(v) => QuoteOK(v)'
  BY StaysQuotable
<1>3. AssemblyTypes'
  BY <1>1 DEF AssemblyInv, AssemblyTypes
<1>4. ContractsInv'
  BY <1>1 DEF AssemblyInv, ContractsInv, ContractOK
<1>5. LinesInv'
  BY <1>1, <1>2 DEF AssemblyInv, LinesInv, LineOK
<1>6. LinePairsInv'
  BY <1>1 DEF AssemblyInv, LinePairsInv, LinePairOK, Clash
<1>7. CallsInv'
  <2> SUFFICES ASSUME NEW q \in Calls PROVE CallOK(q)'
    BY DEF CallsInv
  <2>1. CallOK(q)
    BY DEF AssemblyInv, CallsInv
  <2>2. /\ OwnTodo(q)' = OwnTodo(q)
        /\ \A l : ToPlace(q, l)' = ToPlace(q, l)
    BY <1>1 DEF OwnTodo, ToPlace
  <2> QED
    BY <1>1, <1>2, <2>1, <2>2 DEF CallOK
<1> QED
  BY <1>3, <1>4, <1>5, <1>6, <1>7 DEF AssemblyInv

-----------------------------------------------------------------------------
(* Kinds of steps of a call. *)

\* The other calls keep what they know, and what they have written.
LEMMA OtherCalls ==
  ASSUME AssemblyInv, UNCHANGED library, NEW q \in Calls, NEW r \in Calls, r # q,
         call'[r] = call[r],
         \A k \in Contracts :
           \/ contracts'[k] = contracts[k]
           \/ /\ contracts[k].lock \in {Nobody, q}
              /\ contracts'[k].lock \in {Nobody, q}
              /\ contracts[k].com.status # "none" => contracts'[k].com.status # "none",
         \A l \in Lines :
           \/ lines'[l] = lines[l]
           \/ /\ lines[l].lock \in {Nobody, q}
              /\ lines'[l].lock \in {Nobody, q}
              /\ lines[l].com.contract # Nobody =>
                   lines'[l].com.contract = lines[l].com.contract
  PROVE  CallOK(r)'
<1>1. CallOK(r) /\ r # Nobody /\ CallContract[r] \in Contracts
  BY CallConstants DEF AssemblyInv, CallsInv
<1>2. /\ \A k \in Contracts :
           /\ contracts'[k].lock = r <=> contracts[k].lock = r
           /\ contracts[k].lock = r => contracts'[k] = contracts[k]
           /\ contracts[k].com.status # "none" => contracts'[k].com.status # "none"
      /\ \A l \in Lines :
           /\ lines'[l].lock = r <=> lines[l].lock = r
           /\ lines[l].lock = r => lines'[l] = lines[l]
           /\ lines[l].com.contract # Nobody =>
                lines'[l].com.contract = lines[l].com.contract
  BY <1>1
<1>3. \A v : QuoteOK(v)' = QuoteOK(v)
  BY DEF library, QuoteOK, Status
<1>4. \A l : ToPlace(r, l)' = ToPlace(r, l)
  BY DEF ToPlace
<1>5. ASSUME OwnTodo(r), \A i \in DOMAIN call[r].todo : call[r].todo[i].line \in Lines
      PROVE  OwnTodo(r)'
  <2> SUFFICES ASSUME NEW i \in DOMAIN call[r].todo
               PROVE  lines'[call[r].todo[i].line].com.contract = CallContract[r]
    BY DEF OwnTodo
  <2>1. /\ call[r].todo[i].line \in Lines
        /\ lines[call[r].todo[i].line].com.contract = CallContract[r]
    BY <1>5 DEF OwnTodo
  <2> QED
    BY <1>1, <1>2, <2>1, CallConstants
<1>6. \A S : call[r].todo \in Seq(S) => \A i \in DOMAIN call[r].todo : call[r].todo[i] \in S
  BY ElementOfSeq, LenProperties
<1>7. call[r].todo \in Seq(Entry) \cup Seq([line : Lines]) =>
        \A i \in DOMAIN call[r].todo : call[r].todo[i].line \in Lines
  <2>1. \A e \in Entry \cup [line : Lines] : e.line \in Lines
    BY DEF Entry
  <2> QED
    BY <1>6, <2>1
<1>8. \A l \in Lines : lines[l].com.contract = CallContract[r] =>
        lines'[l].com.contract = CallContract[r]
  BY <1>1, <1>2, CallConstants
<1> QED
  BY <1>1, <1>2, <1>3, <1>4, <1>5, <1>7, <1>8 DEF CallOK

\* A step that only moves the handler.
LEMMA CallStep ==
  ASSUME AssemblyInv, UNCHANGED library, NEW q \in Calls, NEW s \in CallState,
         call' = [call EXCEPT ![q] = s], UNCHANGED <<contracts, lines>>, CallOK(q)'
  PROVE  AssemblyInv'
<1>1. AssemblyTypes'
  BY DEF AssemblyInv, AssemblyTypes
<1>2. ContractsInv'
  BY DEF AssemblyInv, ContractsInv, ContractOK
<1>3. LinesInv'
  BY DEF AssemblyInv, LinesInv, LineOK, QuoteOK, Status, library
<1>4. LinePairsInv'
  BY DEF AssemblyInv, LinePairsInv, LinePairOK, Clash
<1>5. \A r \in Calls \ {q} : call'[r] = call[r]
  BY DEF AssemblyInv, AssemblyTypes
<1>6. CallsInv'
  BY <1>5, OtherCalls DEF CallsInv
<1> QED
  BY <1>1, <1>2, <1>3, <1>4, <1>6 DEF AssemblyInv

\* A step in which q locks its contract and writes row.
LEMMA ContractStep ==
  ASSUME AssemblyInv, UNCHANGED library, NEW q \in Calls, NEW s \in CallState,
         NEW row \in ContractRow, call' = [call EXCEPT ![q] = s],
         WriteContract(q, row), UNCHANGED lines,
         ContractOK(CallContract[q])', CallOK(q)'
  PROVE  AssemblyInv'
<1> DEFINE k == CallContract[q]
<1>1. /\ k \in Contracts
      /\ contracts[k].lock \in {Nobody, q}
      /\ contracts'[k] = [com |-> contracts[k].com, cur |-> row, lock |-> q]
      /\ \A m \in Contracts \ {k} : contracts'[m] = contracts[m]
      /\ \A m \in Contracts : contracts'[m].com = contracts[m].com
      /\ contracts[k].com \in ContractRow
      /\ contracts' = [contracts EXCEPT ![k] = [com |-> contracts[k].com, cur |-> row, lock |-> q]]
  BY CallConstants, ContractRowType
     DEF AssemblyInv, AssemblyTypes, WriteContract, Put, Lockable
<1>2. AssemblyTypes'
  BY <1>1 DEF AssemblyInv, AssemblyTypes, Versioned
<1>3. ContractsInv'
  BY <1>1 DEF AssemblyInv, ContractsInv, ContractOK
<1>4. LinesInv'
  BY <1>1, LineRowType DEF AssemblyInv, LinesInv, LineOK, QuoteOK, Status, library
<1>5. LinePairsInv'
  BY DEF AssemblyInv, LinePairsInv, LinePairOK, Clash
<1>6. \A r \in Calls \ {q} : call'[r] = call[r]
  BY DEF AssemblyInv, AssemblyTypes
<1>7. CallsInv'
  <2> SUFFICES ASSUME NEW r \in Calls \ {q} PROVE CallOK(r)'
    BY DEF CallsInv
  <2> QED
    BY <1>1, <1>6, OtherCalls
<1> QED
  BY <1>2, <1>3, <1>4, <1>5, <1>7 DEF AssemblyInv

\* A step in which q locks line l and writes row: the unique index has let it
\* pass, or nothing that it looks at has changed.
LEMMA LineStep ==
  ASSUME AssemblyInv, UNCHANGED library, NEW q \in Calls, NEW s \in CallState,
         NEW l \in Lines, NEW row \in LineRow, call' = [call EXCEPT ![q] = s],
         lines' = [lines EXCEPT ![l] = Put(q, @, row)], UNCHANGED contracts,
         Lockable(q, lines[l]),
         row.contract = CallContract[q],
         lines[l].com.contract \in {Nobody, CallContract[q]},
         row.clause \in Clauses, QuoteOK(row.version),
         \/ SameOrder(q, l, row.sortOrder) = {}
         \/ row.deleted
         \/ /\ ~lines[l].cur.deleted
            /\ lines[l].cur.contract = row.contract
            /\ lines[l].cur.sortOrder = row.sortOrder,
         CallOK(q)'
  PROVE  AssemblyInv'
<1> DEFINE k == CallContract[q]
<1>1. /\ k \in Contracts /\ k # Nobody /\ q # Nobody
      /\ lines[l].lock \in {Nobody, q}
      /\ lines'[l].com = lines[l].com /\ lines'[l].cur = row /\ lines'[l].lock = q
      /\ \A m \in Lines \ {l} : lines'[m] = lines[m]
      /\ lines[l].com \in LineRow
      /\ lines' = [lines EXCEPT ![l] = [com |-> lines[l].com, cur |-> row, lock |-> q]]
      /\ LineOK(l)
  BY CallConstants, LineRowType
     DEF AssemblyInv, AssemblyTypes, LinesInv, Put, Lockable
<1>2. AssemblyTypes'
  BY <1>1 DEF AssemblyInv, AssemblyTypes, Versioned
<1>3. ContractsInv'
  BY DEF AssemblyInv, ContractsInv, ContractOK
<1>4. \A v : QuoteOK(v)' = QuoteOK(v)
  BY DEF library, QuoteOK, Status
<1>5. LinesInv'
  <2>1. LineOK(l)'
    BY <1>1, <1>4 DEF LineOK
  <2>2. ASSUME NEW m \in Lines \ {l}
        PROVE  LineOK(m)'
    BY <1>1, <1>4 DEF LineOK, AssemblyInv, LinesInv
  <2> QED
    BY <2>1, <2>2 DEF LinesInv
<1>6. ASSUME NEW m \in Lines \ {l}
      PROVE  LinePairOK(l, m)' /\ LinePairOK(m, l)'
  <2>1. /\ LinePairOK(l, m) /\ LinePairOK(m, l)
        /\ lines'[m] = lines[m]
        /\ lines[m].lock = Nobody => lines[m].cur = lines[m].com
        /\ lines[l].lock = Nobody => lines[l].cur = lines[l].com
    BY <1>1 DEF AssemblyInv, LinePairsInv, LinesInv, LineOK
  <2>2. CASE SameOrder(q, l, row.sortOrder) = {}
    <3>1. /\ ~Clash(row, lines[m].cur) /\ ~Clash(lines[m].cur, row)
          /\ Clash(row, lines[m].com) => lines[m].lock \in {Nobody, q}
      BY <2>2 DEF SameOrder, Clash, Lockable
    <3>2. Clash(row, lines[m].com) => lines[m].lock = q
      BY <2>1, <3>1
    <3> QED
      BY <1>1, <2>1, <3>1, <3>2 DEF LinePairOK
  <2>3. CASE row.deleted
    BY <1>1, <2>1, <2>3 DEF LinePairOK, Clash
  <2>4. CASE /\ ~lines[l].cur.deleted
             /\ lines[l].cur.contract = row.contract
             /\ lines[l].cur.sortOrder = row.sortOrder
    <3>1. \A other : /\ Clash(row, other) => Clash(lines[l].cur, other)
                     /\ Clash(other, row) => Clash(other, lines[l].cur)
      BY <2>4 DEF Clash
    <3> QED
      BY <1>1, <2>1, <3>1 DEF LinePairOK
  <2> QED
    BY <2>2, <2>3, <2>4
<1>7. LinePairsInv'
  <2> SUFFICES ASSUME NEW x \in Lines, NEW y \in Lines \ {x} PROVE LinePairOK(x, y)'
    BY DEF LinePairsInv
  <2>1. CASE x = l \/ y = l
    BY <1>6, <2>1
  <2>2. CASE x # l /\ y # l
    BY <1>1, <2>2 DEF AssemblyInv, LinePairsInv, LinePairOK
  <2> QED
    BY <2>1, <2>2
<1>8. \A r \in Calls \ {q} : call'[r] = call[r]
  BY DEF AssemblyInv, AssemblyTypes
<1>9. CallsInv'
  <2> SUFFICES ASSUME NEW r \in Calls \ {q} PROVE CallOK(r)'
    BY DEF CallsInv
  <2> QED
    BY <1>1, <1>8, OtherCalls
<1> QED
  BY <1>2, <1>3, <1>5, <1>7, <1>9 DEF AssemblyInv

-----------------------------------------------------------------------------
(* The end of a call. *)

LEMMA RollbackCallInv ==
  ASSUME AssemblyInv, UNCHANGED library, NEW q \in Calls, RollbackCall(q)
  PROVE  AssemblyInv'
<1>1. /\ contracts' = RolledBackAll(q, contracts)
      /\ lines' = RolledBackAll(q, lines)
      /\ call' = [call EXCEPT ![q] = CallAt("new")]
      /\ AssemblyTypes /\ q # Nobody
  BY CallConstants DEF RollbackCall, AssemblyInv
<1>2. \A k \in Contracts :
        /\ contracts[k].lock = q => /\ contracts'[k].cur = contracts[k].com
                                    /\ contracts'[k].lock = Nobody
        /\ contracts[k].lock # q => contracts'[k] = contracts[k]
        /\ contracts'[k].com = contracts[k].com
  BY <1>1, EndedTables, FreshRow
<1>3. \A l \in Lines :
        /\ lines[l].lock = q => /\ lines'[l].cur = lines[l].com
                                /\ lines'[l].lock = Nobody
        /\ lines[l].lock # q => lines'[l] = lines[l]
        /\ lines'[l].com = lines[l].com
  BY <1>1, EndedTables, FreshRow
<1>4. /\ call'[q].pc = "new"
      /\ \A r \in Calls \ {q} : call'[r] = call[r]
  BY <1>1, CallAtType DEF AssemblyTypes
<1>5. AssemblyTypes'
  BY <1>1, EndedTables, CallAtType DEF AssemblyTypes
<1>6. \A v : QuoteOK(v)' = QuoteOK(v)
  BY DEF library, QuoteOK, Status
<1>7. ContractsInv'
  <2> SUFFICES ASSUME NEW k \in Contracts PROVE ContractOK(k)'
    BY DEF ContractsInv
  <2>1. ContractOK(k)
    BY DEF AssemblyInv, ContractsInv
  <2> QED
    BY <1>2, <2>1 DEF ContractOK
<1>8. LinesInv'
  <2> SUFFICES ASSUME NEW l \in Lines PROVE LineOK(l)'
    BY DEF LinesInv
  <2>1. LineOK(l) /\ lines[l].com.contract \in Contracts \cup {Nobody}
    BY <1>1, LineRowType DEF AssemblyInv, LinesInv
  <2> QED
    BY <1>2, <1>3, <1>6, <2>1 DEF LineOK
<1>9. LinePairsInv'
  <2> SUFFICES ASSUME NEW l \in Lines, NEW m \in Lines \ {l} PROVE LinePairOK(l, m)'
    BY DEF LinePairsInv
  <2>1. LinePairOK(l, m) /\ LinePairOK(m, l)
    BY DEF AssemblyInv, LinePairsInv
  <2>2. \A row, other : Clash(row, other) <=> Clash(other, row)
    BY DEF Clash
  <2>3. ASSUME NEW x \in {l, m}
        PROVE  \/ lines'[x] = lines[x] /\ lines[x].lock # q
               \/ /\ lines[x].lock = q
                  /\ lines'[x].com = lines[x].com
                  /\ lines'[x].cur = lines[x].com
                  /\ lines'[x].lock = Nobody
    BY <1>3
  <2> QED
    BY <1>1, <2>1, <2>2, <2>3 DEF LinePairOK
<1>10. CallsInv'
  <2> SUFFICES ASSUME NEW r \in Calls PROVE CallOK(r)'
    BY DEF CallsInv
  <2>1. CASE r = q
    <3>1. /\ \A m \in Contracts : contracts'[m].lock # q
          /\ \A l \in Lines : lines'[l].lock # q
      BY <1>1, <1>2, <1>3
    <3> QED
      BY <1>4, <2>1, <3>1 DEF CallOK, CallWorking
  <2>2. CASE r # q
    BY <1>1, <1>2, <1>3, <1>4, <2>2, OtherCalls
  <2> QED
    BY <2>1, <2>2
<1> QED
  BY <1>5, <1>7, <1>8, <1>9, <1>10 DEF AssemblyInv

LEMMA CommitCallInv ==
  ASSUME AssemblyInv, UNCHANGED library, NEW q \in Calls, CommitCall(q)
  PROVE  AssemblyInv'
<1>1. /\ contracts' = CommittedAll(q, contracts)
      /\ lines' = CommittedAll(q, lines)
      /\ call' = [call EXCEPT ![q] = CallAt("ended")]
      /\ call[q].pc = "commit" /\ CallOK(q)
      /\ AssemblyTypes /\ q # Nobody
  BY CallConstants DEF CommitCall, Is, AssemblyInv, CallsInv
<1>2. \A k \in Contracts :
        /\ contracts[k].lock = q => /\ contracts'[k].com = contracts[k].cur
                                    /\ contracts'[k].cur = contracts[k].cur
                                    /\ contracts'[k].lock = Nobody
        /\ contracts[k].lock # q => contracts'[k] = contracts[k]
  BY <1>1, EndedTables, FreshRow
<1>3. \A l \in Lines :
        /\ lines[l].lock = q => /\ lines'[l].com = lines[l].cur
                                /\ lines'[l].cur = lines[l].cur
                                /\ lines'[l].lock = Nobody
        /\ lines[l].lock # q => lines'[l] = lines[l]
  BY <1>1, EndedTables, FreshRow
<1>4. /\ call'[q].pc = "ended"
      /\ \A r \in Calls \ {q} : call'[r] = call[r]
  BY <1>1, CallAtType DEF AssemblyTypes
<1>5. AssemblyTypes'
  BY <1>1, EndedTables, CallAtType DEF AssemblyTypes
<1>6. \A v : QuoteOK(v)' = QuoteOK(v)
  BY DEF library, QuoteOK, Status
<1>7. \A k \in Contracts :
        contracts[k].com.status # "none" \/ contracts[k].lock = q
          => contracts'[k].com.status # "none"
  BY <1>1, <1>2 DEF AssemblyInv, ContractsInv, ContractOK
<1>8. ContractsInv'
  <2> SUFFICES ASSUME NEW k \in Contracts PROVE ContractOK(k)'
    BY DEF ContractsInv
  <2>1. ContractOK(k)
    BY DEF AssemblyInv, ContractsInv
  <2> QED
    BY <1>2, <2>1 DEF ContractOK
<1>9. LinesInv'
  <2> SUFFICES ASSUME NEW l \in Lines PROVE LineOK(l)'
    BY DEF LinesInv
  <2>1. LineOK(l) /\ lines[l].com.contract \in Contracts \cup {Nobody}
    BY <1>1, LineRowType DEF AssemblyInv, LinesInv
  <2>2. CASE lines[l].lock = q
    <3>1. lines[l].cur.sortOrder >= 0
      BY <1>1, <2>2 DEF CallOK, ToPlace
    <3>2. contracts'[CallContract[q]].com.status # "none"
      BY <1>1, <1>7, CallConstants DEF CallOK, CallWorking
    <3> QED
      BY <1>1, <1>3, <1>6, <2>1, <2>2, <3>1, <3>2 DEF LineOK
  <2>3. CASE lines[l].lock # q
    BY <1>3, <1>6, <1>7, <2>1, <2>3 DEF LineOK
  <2> QED
    BY <2>2, <2>3
<1>10. LinePairsInv'
  <2> SUFFICES ASSUME NEW l \in Lines, NEW m \in Lines \ {l} PROVE LinePairOK(l, m)'
    BY DEF LinePairsInv
  <2>1. LinePairOK(l, m) /\ LinePairOK(m, l)
    BY DEF AssemblyInv, LinePairsInv
  <2>2. \A row, other : Clash(row, other) <=> Clash(other, row)
    BY DEF Clash
  <2>3. ASSUME NEW x \in {l, m}
        PROVE  \/ lines'[x] = lines[x] /\ lines[x].lock # q
               \/ /\ lines[x].lock = q
                  /\ lines'[x].com = lines[x].cur
                  /\ lines'[x].cur = lines[x].cur
                  /\ lines'[x].lock = Nobody
    BY <1>3
  <2> QED
    BY <1>1, <2>1, <2>2, <2>3 DEF LinePairOK
<1>11. CallsInv'
  <2> SUFFICES ASSUME NEW r \in Calls PROVE CallOK(r)'
    BY DEF CallsInv
  <2>1. CASE r = q
    <3>1. /\ \A m \in Contracts : contracts'[m].lock # q
          /\ \A l \in Lines : lines'[l].lock # q
      BY <1>1, <1>2, <1>3
    <3> QED
      BY <1>4, <2>1, <3>1 DEF CallOK, CallWorking
  <2>2. CASE r # q
    <3>1. \A l \in Lines : lines[l].com.contract # Nobody =>
            lines'[l].com.contract = lines[l].com.contract
      BY <1>3 DEF AssemblyInv, LinesInv, LineOK
    <3> QED
      BY <1>1, <1>2, <1>3, <1>4, <1>7, <2>2, <3>1, OtherCalls
  <2> QED
    BY <2>1, <2>2
<1> QED
  BY <1>5, <1>8, <1>9, <1>10, <1>11 DEF AssemblyInv

-----------------------------------------------------------------------------
(* The calls begin. *)

\* A call that begins holds nothing and, except where it makes the contract,
\* the contract is there.
LEMMA BeginsWith ==
  ASSUME AssemblyInv, NEW q \in Calls, call[q].pc = "new"
  PROVE  /\ \A m \in Contracts : contracts[m].lock # q /\ Seen(q, contracts[m]) = contracts[m].com
         /\ \A l \in Lines : lines[l].lock # q /\ Line(q, l) = lines[l].com
         /\ Contract(q) = contracts[CallContract[q]].com
BY CallConstants DEF AssemblyInv, CallsInv, CallOK, Seen, Line, Contract

\* A call that begins by moving its handler only.
LEMMA BeginStep ==
  ASSUME AssemblyInv, UNCHANGED library, NEW q \in Calls, NEW s \in CallState,
         call[q].pc = "new", call' = [call EXCEPT ![q] = s],
         UNCHANGED <<contracts, lines>>,
         s.pc \in CallWorking \ {"commit", "place", "overwrite", "insert"},
         CallOp[q] \notin Creating, Contract(q).status # "none",
         s.pc \in {"snapshot", "list"} =>
           /\ CallOp[q] \in {"addClause", "runRules", "resnapshot"}
           /\ s.todo # <<>>
           /\ IF CallOp[q] = "resnapshot"
              THEN /\ s.todo \in Seq(Entry)
                   /\ \A i \in DOMAIN s.todo : s.todo[i].line \in OwnLines(q)
              ELSE s.todo \in Seq(Addition),
         s.pc = "list" => CallOp[q] = "runRules",
         s.pc = "snapshot" /\ CallOp[q] = "addClause" => Len(s.todo) = 1,
         s.pc = "aside" =>
           /\ CallOp[q] = "reorder"
           /\ s.todo \in Seq([line : Lines])
           /\ s.todo # <<>> /\ s.line = 1
           /\ \A i \in DOMAIN s.todo : s.todo[i].line \in OwnLines(q),
         s.pc \in {"remove", "edit"} =>
           /\ CallOp[q] \in {"removeClause", "editClauseText"}
           /\ s.line \in OwnLines(q),
         s.pc = "write" => CallOp[q] = "update",
         s.pc = "transition" => CallOp[q] \in {"approve", "sign", "close"}
  PROVE  AssemblyInv'
<1>1. call'[q] = s
  BY DEF AssemblyInv, AssemblyTypes
<1>2. \A l \in OwnLines(q) : l \in Lines /\ lines[l].com.contract = CallContract[q]
  BY BeginsWith DEF OwnLines, Listed
<1>3. (\A i \in DOMAIN s.todo : s.todo[i].line \in OwnLines(q)) => OwnTodo(q)'
  <2> SUFFICES ASSUME \A i \in DOMAIN s.todo : s.todo[i].line \in OwnLines(q),
                      NEW i \in DOMAIN s.todo
               PROVE  lines'[s.todo[i].line].com.contract = CallContract[q]
    BY <1>1 DEF OwnTodo
  <2> QED
    BY <1>2
<1>4. s.pc = "aside" => s.line \in 1..Len(s.todo)
  BY EmptySeq
<1>5. CallOK(q)'
  <2> DEFINE k == CallContract[q]
  <2>1. s.pc \in {"snapshot", "list", "insert", "overwrite"} =>
          /\ CallOp[q] \in {"create", "addClause", "runRules", "resnapshot"}
          /\ s.todo # <<>>
          /\ IF CallOp[q] = "resnapshot" THEN s.todo \in Seq(Entry) /\ OwnTodo(q)'
                                         ELSE s.todo \in Seq(Addition)
    BY <1>3
  <2>2. s.pc \in {"aside", "place"} =>
          /\ CallOp[q] = "reorder"
          /\ s.todo \in Seq([line : Lines])
          /\ OwnTodo(q)'
          /\ s.line \in 1..Len(s.todo)
    BY <1>3, <1>4
  <2>3. s.pc \in {"remove", "edit"} =>
          s.line \in Lines /\ lines'[s.line].com.contract = k
    BY <1>2
  <2>4. \A l \in Lines : lines'[l].lock # q
    BY BeginsWith
  <2>5. contracts'[k].com.status # "none"
    BY BeginsWith
  <2>6. s.pc \notin {"new", "ended"}
    BY DEF CallWorking
  <2> QED
    BY <1>1, <2>1, <2>2, <2>3, <2>4, <2>5, <2>6 DEF CallOK
<1> QED
  BY <1>5, CallStep

LEMMA TodoType ==
  ASSUME NEW s, s \in Seq(Addition) \cup Seq(Entry) \cup Seq([line : Lines])
  PROVE  s \in Seq(Addition \cup Entry \cup [line : Lines])
<1> DEFINE All == Addition \cup Entry \cup [line : Lines]
<1>1. s \in Seq(Addition) => s \in Seq(All)
  BY SeqMonotonic
<1>2. s \in Seq(Entry) => s \in Seq(All)
  BY SeqMonotonic
<1>3. s \in Seq([line : Lines]) => s \in Seq(All)
  BY SeqMonotonic
<1> QED
  BY <1>1, <1>2, <1>3

LEMMA ListInOrder ==
  ASSUME NEW q, OwnLines(q) # {}, NEW list \in InOrder(q)
  PROVE  /\ Len(list) \in Nat \ {0}
         /\ DOMAIN list = 1..Len(list)
         /\ \A i \in 1..Len(list) : list[i] \in OwnLines(q)
         /\ Len(Reverse(list)) = Len(list)
         /\ DOMAIN Reverse(list) = 1..Len(list)
         /\ \A i \in 1..Len(list) : Reverse(list)[i] \in OwnLines(q)
<1> DEFINE n == Cardinality(OwnLines(q))
<1>1. IsFiniteSet(OwnLines(q)) /\ OwnLines(q) \subseteq Lines
  <2>1. IsFiniteSet(Lines)
    BY FS_Interval, ContractAssumption DEF Lines
  <2> QED
    BY <2>1, FS_Subset DEF OwnLines, Listed
<1>2. n \in Nat \ {0}
  BY <1>1, FS_CardinalityType, FS_EmptySet
<1> HIDE DEF n
<1>3. list \in [1..n -> OwnLines(q)]
  BY DEF InOrder, n
<1>4. Len(list) = n /\ DOMAIN list = 1..n
  BY <1>2, <1>3
<1>5. Reverse(list) = [i \in 1..n |-> list[n - i + 1]]
  BY <1>2, <1>4 DEF Reverse
<1>6. \A i \in 1..n : n - i + 1 \in 1..n
  BY <1>2
<1>7. Len(Reverse(list)) = n /\ DOMAIN Reverse(list) = 1..n
  BY <1>2, <1>5
<1> QED
  BY <1>2, <1>3, <1>4, <1>5, <1>6, <1>7

LEMMA BeginInv ==
  ASSUME AssemblyInv, UNCHANGED library, NEW q \in Calls,
         \/ AddClause(q) \/ RunRules(q) \/ RemoveClause(q) \/ EditClauseText(q)
         \/ UpdateContract(q) \/ RunTransition(q)
  PROVE  AssemblyInv'
<1> DEFINE t == call[q]
           Same == UNCHANGED <<contracts, lines>>
<1>0. OwnLines(q) \subseteq Lines /\ Lines \subseteq Nat
  BY CallConstants DEF OwnLines, Listed
<1>1. CASE AddClause(q)
  <2> DEFINE todo == <<[clause |-> CallClause[q], mandatory |-> FALSE]>>
             s == [t EXCEPT !.pc = "snapshot", !.todo = todo]
  <2>1. /\ t.pc = "new" /\ CallOp[q] = "addClause" /\ Contract(q).status = "draft"
        /\ call' = [call EXCEPT ![q] = s] /\ Same
    BY <1>1 DEF AddClause, Begins, RequireDraft
  <2>2. CallClause[q] \in Clauses
    BY <2>1, ContractAssumption
  <2>3. todo \in Seq(Addition) /\ todo # <<>> /\ Len(todo) = 1
    BY <2>2 DEF Addition
  <2>4. s \in CallState /\ s.pc = "snapshot" /\ s.todo = todo
    <3>1. t \in CallState
      BY DEF AssemblyInv, AssemblyTypes
    <3>2. todo \in Seq(Addition \cup Entry \cup [line : Lines])
      BY <2>3, TodoType
    <3> HIDE DEF todo
    <3> QED
      BY <3>1, <3>2 DEF CallState, CallWorking
  <2> HIDE DEF s, todo
  <2> QED
    BY <2>1, <2>3, <2>4, BeginStep DEF CallWorking, Creating
<1>2. CASE RunRules(q)
  <2> DEFINE s == [t EXCEPT !.pc = "list", !.todo = Matches]
  <2>1. /\ t.pc = "new" /\ CallOp[q] = "runRules" /\ Contract(q).status = "draft"
        /\ call' = [call EXCEPT ![q] = s] /\ Same
        /\ Matches # <<>>
    BY <1>2 DEF RunRules, Begins, RequireDraft
  <2>2. Matches \in Seq(Addition)
    BY ContractAssumption
  <2>3. s \in CallState /\ s.pc = "list" /\ s.todo = Matches
    <3>1. t \in CallState
      BY DEF AssemblyInv, AssemblyTypes
    <3>2. Matches \in Seq(Addition \cup Entry \cup [line : Lines])
      BY <2>2, TodoType
    <3> QED
      BY <3>1, <3>2 DEF CallState, CallWorking
  <2> HIDE DEF s
  <2> QED
    BY <2>1, <2>2, <2>3, BeginStep DEF CallWorking, Creating
<1>3. CASE RemoveClause(q) \/ EditClauseText(q)
  <2> DEFINE pc == IF CallOp[q] = "removeClause" THEN "remove" ELSE "edit"
  <2>1. PICK l \in OwnLines(q) : call' = [call EXCEPT ![q].pc = pc, ![q].line = l]
    BY <1>3 DEF RemoveClause, EditClauseText, Begins
  <2> DEFINE s == [t EXCEPT !.pc = pc, !.line = l]
  <2>2. /\ t.pc = "new" /\ CallOp[q] \in {"removeClause", "editClauseText"}
        /\ Contract(q).status = "draft"
        /\ call' = [call EXCEPT ![q] = s] /\ Same
    BY <1>3, <2>1 DEF RemoveClause, EditClauseText, Begins, RequireDraft
  <2>3. s \in CallState /\ s.pc = pc /\ s.line = l /\ pc \in CallWorking
    <3>1. t \in CallState /\ l \in Nat
      BY <1>0 DEF AssemblyInv, AssemblyTypes
    <3> QED
      BY <3>1 DEF CallState, CallWorking
  <2> HIDE DEF s
  <2> QED
    BY <2>2, <2>3, BeginStep DEF CallWorking, Creating
<1>4. CASE UpdateContract(q) \/ RunTransition(q)
  <2> DEFINE pc == IF CallOp[q] = "update" THEN "write" ELSE "transition"
             s == [t EXCEPT !.pc = pc]
  <2>1. /\ t.pc = "new" /\ CallOp[q] \in {"update", "approve", "sign", "close"}
        /\ Contract(q).status # "none"
        /\ call' = [call EXCEPT ![q] = s] /\ Same
    BY <1>4 DEF UpdateContract, RunTransition, Begins, RequireDraft, Continue
  <2>2. s \in CallState /\ s.pc = pc
    <3>1. t \in CallState
      BY DEF AssemblyInv, AssemblyTypes
    <3> QED
      BY <3>1 DEF CallState, CallWorking
  <2> HIDE DEF s
  <2> QED
    BY <2>1, <2>2, BeginStep DEF CallWorking, Creating
<1> QED
  BY <1>1, <1>2, <1>3, <1>4

LEMMA ReorderInv ==
  ASSUME AssemblyInv, UNCHANGED library, NEW q \in Calls, Reorder(q)
  PROVE  AssemblyInv'
<1>1. PICK list \in InOrder(q) :
        LET ids == Reverse(list) IN
        call' = [call EXCEPT ![q].pc = "aside", ![q].line = 1,
                             ![q].todo = [n \in DOMAIN ids |-> [line |-> ids[n]]]]
  BY DEF Reorder
<1> DEFINE ids == Reverse(list)
           todo == [n \in DOMAIN ids |-> [line |-> ids[n]]]
           s == [call[q] EXCEPT !.pc = "aside", !.line = 1, !.todo = todo]
<1>2. /\ call[q].pc = "new" /\ CallOp[q] = "reorder" /\ Contract(q).status = "draft"
      /\ OwnLines(q) # {} /\ OwnLines(q) \subseteq Lines
      /\ UNCHANGED <<contracts, lines>>
      /\ call' = [call EXCEPT ![q] = s]
      /\ call[q] \in CallState
  BY <1>1 DEF Reorder, Begins, RequireDraft, OwnLines, Listed, AssemblyInv, AssemblyTypes
<1>3. /\ todo \in Seq([line : Lines]) /\ todo # <<>>
      /\ \A i \in DOMAIN todo : todo[i].line \in OwnLines(q)
  <2>1. /\ Len(list) \in Nat \ {0} /\ DOMAIN ids = 1..Len(list)
        /\ \A i \in 1..Len(list) : ids[i] \in OwnLines(q)
    BY <1>2, ListInOrder
  <2> HIDE DEF ids
  <2>2. todo \in [1..Len(list) -> [line : Lines]]
    BY <1>2, <2>1
  <2>3. Len(todo) = Len(list) /\ DOMAIN todo = 1..Len(list)
    BY <2>1, <2>2
  <2> QED
    BY <2>1, <2>2, <2>3
<1>4. s \in CallState /\ s.pc = "aside" /\ s.line = 1 /\ s.todo = todo
  <2> HIDE DEF todo
  <2>1. todo \in Seq(Addition \cup Entry \cup [line : Lines])
    BY <1>3, TodoType
  <2> QED
    BY <1>2, <2>1 DEF CallState, CallWorking
<1> HIDE DEF s, todo
<1> QED
  BY <1>2, <1>3, <1>4, BeginStep DEF CallWorking, Creating

\* A line that is listed has a clause and a version.
LEMMA ListedEntry ==
  ASSUME AssemblyInv, NEW q \in Calls, call[q].pc = "new", NEW l \in OwnLines(q)
  PROVE  EntryOf(q, l) \in Entry /\ EntryOf(q, l).line = l
<1>1. l \in Lines /\ Line(q, l) = lines[l].com /\ lines[l].com.contract = CallContract[q]
  BY BeginsWith DEF OwnLines, Listed
<1>2. /\ lines[l].com.clause \in Clauses
      /\ lines[l].com.version \in Versions
      /\ lines[l].com.byHand \in BOOLEAN
  <2>1. lines[l].com \in LineRow
    BY <1>1, LineRowType DEF AssemblyInv
  <2> QED
    BY <1>1, <2>1, CallConstants DEF AssemblyInv, LinesInv, LineOK, QuoteOK, LineRow
<1> QED
  BY <1>1, <1>2 DEF EntryOf, Entry

LEMMA ResnapshotInv ==
  ASSUME AssemblyInv, UNCHANGED library, NEW q \in Calls, Resnapshot(q)
  PROVE  AssemblyInv'
<1>1. PICK list \in InOrder(q) :
        call' = [call EXCEPT ![q].pc = "snapshot",
                             ![q].todo = [n \in DOMAIN list |-> EntryOf(q, list[n])]]
  BY DEF Resnapshot
<1> DEFINE todo == [n \in DOMAIN list |-> EntryOf(q, list[n])]
           s == [call[q] EXCEPT !.pc = "snapshot", !.todo = todo]
<1>2. /\ call[q].pc = "new" /\ CallOp[q] = "resnapshot" /\ Contract(q).status = "draft"
      /\ OwnLines(q) # {}
      /\ UNCHANGED <<contracts, lines>>
      /\ call' = [call EXCEPT ![q] = s]
      /\ call[q] \in CallState
  BY <1>1 DEF Resnapshot, Begins, RequireDraft, AssemblyInv, AssemblyTypes
<1>3. /\ todo \in Seq(Entry) /\ todo # <<>>
      /\ \A i \in DOMAIN todo : todo[i].line \in OwnLines(q)
  <2>1. /\ Len(list) \in Nat \ {0} /\ DOMAIN list = 1..Len(list)
        /\ \A i \in 1..Len(list) : list[i] \in OwnLines(q)
    BY <1>2, ListInOrder
  <2>2. \A i \in 1..Len(list) : EntryOf(q, list[i]) \in Entry /\ EntryOf(q, list[i]).line = list[i]
    BY <1>2, <2>1, ListedEntry
  <2>3. todo \in [1..Len(list) -> Entry]
    BY <2>1, <2>2
  <2>4. Len(todo) = Len(list) /\ DOMAIN todo = 1..Len(list)
    BY <2>1, <2>3
  <2> QED
    BY <2>1, <2>2, <2>3, <2>4
<1>4. s \in CallState /\ s.pc = "snapshot" /\ s.todo = todo
  <2> HIDE DEF todo
  <2>1. todo \in Seq(Addition \cup Entry \cup [line : Lines])
    BY <1>3, TodoType
  <2> QED
    BY <1>2, <2>1 DEF CallState, CallWorking
<1> HIDE DEF s, todo
<1> QED
  BY <1>2, <1>3, <1>4, BeginStep DEF CallWorking, Creating

-----------------------------------------------------------------------------
(* Calls that make a contract. *)

LEMMA CreateInv ==
  ASSUME AssemblyInv, UNCHANGED library, NEW q \in Calls, Create(q)
  PROVE  AssemblyInv'
<1> DEFINE k == CallContract[q]
           pc == IF Template = <<>> THEN "commit" ELSE "snapshot"
           row == [status |-> "draft", terms |-> "first"]
           s == [call[q] EXCEPT !.todo = Template, !.pc = pc]
<1>1. /\ call[q].pc = "new" /\ CallOp[q] = "create"
      /\ Contract(q).status = "none"
      /\ WriteContract(q, row)
      /\ call' = [call EXCEPT ![q] = s]
      /\ UNCHANGED lines
      /\ call[q] \in CallState
      /\ k \in Contracts /\ q # Nobody
  BY CallConstants DEF Create, Begins, AssemblyInv, AssemblyTypes
<1>2. Template \in Seq(Addition)
  BY ContractAssumption
<1>3. s \in CallState /\ s.pc = pc /\ s.todo = Template
  <2>1. Template \in Seq(Addition \cup Entry \cup [line : Lines])
    BY <1>2, TodoType
  <2> QED
    BY <1>1, <2>1 DEF CallState, CallWorking
<1>4. row \in ContractRow
  BY DEF ContractRow, ContractStatus
<1>5. /\ contracts'[k].lock = q
      /\ contracts'[k].cur = row
      /\ contracts'[k].com.status = "none"
  BY <1>1, BeginsWith DEF WriteContract, Put, AssemblyInv, AssemblyTypes
<1>6. \A m \in Contracts : m # k => contracts'[m].lock # q
  BY <1>1, BeginsWith DEF WriteContract, AssemblyInv, AssemblyTypes
<1>7. ContractOK(k)'
  BY <1>1, <1>5 DEF ContractOK, Creating, Editing
<1>8. CallOK(q)'
  <2>1. call'[q] = s
    BY <1>1 DEF AssemblyInv, AssemblyTypes
  <2>2. \A l \in Lines : lines'[l].lock # q
    BY <1>1, BeginsWith
  <2> HIDE DEF s, row
  <2> QED
    BY <1>1, <1>2, <1>3, <1>5, <2>1, <2>2 DEF CallOK, Creating, CallWorking
<1> HIDE DEF s, row
<1> QED
  BY <1>1, <1>3, <1>4, <1>7, <1>8, ContractStep

\* A contract that is still to be made has no lines.
LEMMA NoLinesYet ==
  ASSUME AssemblyInv, NEW k \in Contracts, NEW l \in Lines,
         contracts[k].com.status = "none", contracts[k].lock = Nobody
  PROVE  lines[l].com.contract # k /\ lines[l].cur.contract # k
<1>1. LineOK(l) /\ k # Nobody /\ lines[l].lock \in Calls \cup {Nobody}
  BY CallConstants, LineRowType DEF AssemblyInv, LinesInv
<1>2. lines[l].com.contract # k
  BY <1>1 DEF LineOK
<1>3. ASSUME NEW r \in Calls, lines[l].lock = r
      PROVE  CallContract[r] # k
  <2>1. CallOK(r) /\ call[r].pc \in {"new", "ended"} \cup CallWorking /\ r # Nobody
    BY CallConstants DEF AssemblyInv, CallsInv, AssemblyTypes, CallState
  <2>2. call[r].pc \in CallWorking
    BY <1>3, <2>1 DEF CallOK
  <2> QED
    BY <2>1, <2>2 DEF CallOK
<1> QED
  BY <1>1, <1>2, <1>3 DEF LineOK

\* The copies keep the order of the parent's lines.
LEMMA ReviseInv ==
  ASSUME AssemblyInv, UNCHANGED library, NEW q \in Calls, Revise(q)
  PROVE  AssemblyInv'
<1> DEFINE k == CallContract[q]
           p == CallParent[q]
           from == Listed(q, p)
           parent == Seen(q, contracts[p])
           draft == [status |-> "draft", terms |-> parent.terms]
           CopyOf(l) == [Line(q, l) EXCEPT !.contract = k]
           s == [call[q] EXCEPT !.pc = "commit"]
<1>1. /\ call[q].pc = "new" /\ CallOp[q] = "revise"
      /\ Contract(q).status = "none"
      /\ WriteContract(q, draft)
      /\ call' = [call EXCEPT ![q] = s]
      /\ call[q] \in CallState
      /\ k \in Contracts /\ k # Nobody /\ q # Nobody /\ p \in Contracts /\ p # Nobody
  BY CallConstants, ContractAssumption
     DEF Revise, Begins, Continue, AssemblyInv, AssemblyTypes
<1>2. PICK copies \in SUBSET Unused : \E source \in [copies -> from] :
        /\ \A l, m \in copies : l < m => source[l] < source[m]
        /\ lines' = [l \in Lines |-> IF l \in copies
                                     THEN Put(q, lines[l], CopyOf(source[l]))
                                     ELSE lines[l]]
  BY DEF Revise
<1>3. PICK source \in [copies -> from] :
        /\ \A l, m \in copies : l < m => source[l] < source[m]
        /\ lines' = [l \in Lines |-> IF l \in copies
                                     THEN Put(q, lines[l], CopyOf(source[l]))
                                     ELSE lines[l]]
  BY <1>2
<1>4. /\ \A m \in Contracts : contracts[m].lock # q
      /\ \A l \in Lines : lines[l].lock # q /\ Line(q, l) = lines[l].com
      /\ Contract(q) = contracts[k].com /\ parent = contracts[p].com
  BY <1>1, BeginsWith
<1>5. /\ contracts[k].lock = Nobody /\ contracts[k].com.status = "none"
      /\ draft \in ContractRow
  <2>1. contracts[p].com \in ContractRow
    BY <1>1, ContractRowType DEF AssemblyInv
  <2>2. draft \in ContractRow
    BY <1>4, <2>1 DEF ContractRow, ContractStatus
  <2> QED
    BY <1>1, <1>4, <2>2 DEF WriteContract, Lockable
<1>6. \A l \in Lines : lines[l].com.contract # k /\ lines[l].cur.contract # k
  BY <1>1, <1>5, NoLinesYet
<1>7. /\ copies \subseteq Lines
      /\ \A l \in copies : /\ lines[l].com = NoLine /\ lines[l].lock = Nobody
                           /\ source[l] \in Lines
                           /\ lines[source[l]].com.contract = p
                           /\ ~lines[source[l]].com.deleted
                           /\ lines[source[l]].com \in LineRow
  <2>1. \A l \in Unused : l \in Lines /\ lines[l].com = NoLine /\ lines[l].lock = Nobody
    BY FreshRow DEF Unused
  <2>2. \A l \in from : /\ l \in Lines /\ lines[l].com.contract = p
                        /\ ~lines[l].com.deleted
                        /\ lines[l].com \in LineRow
    BY <1>4, LineRowType DEF Listed, AssemblyInv
  <2> QED
    BY <2>1, <2>2
<1>8. \A l \in copies :
        LET of == lines[source[l]].com IN
        /\ CopyOf(source[l]) \in LineRow
        /\ CopyOf(source[l]).contract = k
        /\ CopyOf(source[l]).sortOrder = of.sortOrder
        /\ CopyOf(source[l]).deleted = of.deleted
        /\ CopyOf(source[l]).clause = of.clause
        /\ CopyOf(source[l]).version = of.version
  BY <1>1, <1>4, <1>7 DEF LineRow
<1> HIDE DEF CopyOf
<1>9. /\ \A l \in copies : /\ lines'[l].com = NoLine
                           /\ lines'[l].cur = CopyOf(source[l])
                           /\ lines'[l].lock = q
                           /\ lines'[l] \in Versioned(LineRow, Calls)
      /\ \A l \in Lines \ copies : lines'[l] = lines[l]
      /\ \A l \in Lines : lines'[l].com = lines[l].com
  <2>1. \A l \in copies : lines'[l] = [com |-> lines[l].com, cur |-> CopyOf(source[l]), lock |-> q]
    BY <1>3, <1>7 DEF Put
  <2>2. NoLine \in LineRow
    BY DEF NoLine, LineRow
  <2>3. ASSUME NEW l \in copies
        PROVE  /\ lines'[l].com = NoLine
               /\ lines'[l].cur = CopyOf(source[l])
               /\ lines'[l].lock = q
               /\ lines'[l] \in Versioned(LineRow, Calls)
    <3> DEFINE copy == CopyOf(source[l])
    <3>1. lines'[l] = [com |-> NoLine, cur |-> copy, lock |-> q] /\ copy \in LineRow
      BY <1>7, <1>8, <2>1
    <3> HIDE DEF copy
    <3>2. [com |-> NoLine, cur |-> copy, lock |-> q] \in Versioned(LineRow, Calls)
      BY <2>2, <3>1 DEF Versioned
    <3>3. lines'[l].cur = copy
      BY <3>1
    <3> QED
      BY <3>1, <3>2, <3>3 DEF copy
  <2>5. \A l \in Lines \ copies : lines'[l] = lines[l]
    BY <1>3
  <2>6. \A l \in Lines : lines'[l].com = lines[l].com
    BY <1>7, <2>3, <2>5
  <2> QED
    BY <2>3, <2>5, <2>6
<1>10. /\ contracts'[k].lock = q /\ contracts'[k].cur = draft
       /\ contracts'[k].com = contracts[k].com
       /\ \A m \in Contracts \ {k} : contracts'[m] = contracts[m]
       /\ contracts' \in [Contracts -> Versioned(ContractRow, Calls)]
  <2>1. /\ contracts' = [contracts EXCEPT ![k] =
                           [com |-> contracts[k].com, cur |-> draft, lock |-> q]]
        /\ contracts[k].com \in ContractRow
        /\ contracts \in [Contracts -> Versioned(ContractRow, Calls)]
    BY <1>1, ContractRowType DEF WriteContract, Put, AssemblyInv, AssemblyTypes
  <2> HIDE DEF draft
  <2>2. [com |-> contracts[k].com, cur |-> draft, lock |-> q] \in Versioned(ContractRow, Calls)
    BY <1>5, <2>1 DEF Versioned
  <2> QED
    BY <1>1, <2>1, <2>2
<1>11. s \in CallState /\ s.pc = "commit" /\ call'[q] = s
  BY <1>1 DEF CallState, CallWorking, AssemblyInv, AssemblyTypes
<1> HIDE DEF s
<1>12. AssemblyTypes'
  <2>1. lines' \in [Lines -> Versioned(LineRow, Calls)]
    BY <1>3, <1>9 DEF AssemblyInv, AssemblyTypes
  <2> QED
    BY <1>1, <1>10, <1>11, <2>1 DEF AssemblyInv, AssemblyTypes
<1>13. ContractsInv'
  <2>1. ContractOK(k)'
    BY <1>1, <1>10 DEF ContractOK, Creating, Editing
  <2>2. \A m \in Contracts \ {k} : ContractOK(m)'
    BY <1>10 DEF AssemblyInv, ContractsInv, ContractOK
  <2> QED
    BY <2>1, <2>2 DEF ContractsInv
<1>14. \A v : QuoteOK(v)' = QuoteOK(v)
  BY DEF library, QuoteOK, Status
<1>15. \A m \in Contracts : contracts'[m].com.status = contracts[m].com.status
  BY <1>10
<1>16. LinesInv'
  <2> SUFFICES ASSUME NEW l \in Lines PROVE LineOK(l)'
    BY DEF LinesInv
  <2>1. CASE l \in copies
    <3>1. LineOK(source[l]) /\ lines[source[l]].com.contract = p
      BY <1>7, <2>1 DEF AssemblyInv, LinesInv
    <3>2. NoLine.contract = Nobody /\ NoLine.sortOrder = 0
      BY DEF NoLine
    <3> QED
      BY <1>1, <1>8, <1>9, <1>14, <2>1, <3>1, <3>2 DEF LineOK
  <2>2. CASE l \notin copies
    <3>1. LineOK(l) /\ lines'[l] = lines[l] /\ lines[l].com.contract \in Contracts \cup {Nobody}
      BY <1>9, <2>2, LineRowType DEF AssemblyInv, LinesInv
    <3> QED
      BY <1>14, <1>15, <3>1 DEF LineOK
  <2> QED
    BY <2>1, <2>2
<1>17. LinePairsInv'
  <2> SUFFICES ASSUME NEW l \in Lines, NEW m \in Lines \ {l} PROVE LinePairOK(l, m)'
    BY DEF LinePairsInv
  <2>1. LinePairOK(l, m)
    BY DEF AssemblyInv, LinePairsInv
  <2>2. NoLine.contract = Nobody
    BY DEF NoLine
  <2>3. CASE l \in copies /\ m \in copies
    <3>1. source[l] # source[m]
      <4>1. l \in Nat /\ m \in Nat /\ source[l] \in Nat /\ source[m] \in Nat
        BY <1>7, <2>3, CallConstants
      <4>2. l < m \/ m < l
        BY <4>1
      <4> QED
        BY <1>3, <2>3, <4>1, <4>2
    <3>2. LinePairOK(source[l], source[m])
      BY <1>7, <2>3, <3>1 DEF AssemblyInv, LinePairsInv
    <3>3. ~Clash(CopyOf(source[l]), CopyOf(source[m]))
      BY <1>1, <1>7, <1>8, <2>3, <3>2 DEF LinePairOK, Clash
    <3> QED
      BY <1>9, <2>2, <2>3, <3>3 DEF LinePairOK, Clash
  <2>4. CASE l \in copies /\ m \notin copies
    BY <1>6, <1>8, <1>9, <2>2, <2>4 DEF LinePairOK, Clash
  <2>5. CASE l \notin copies /\ m \in copies
    BY <1>6, <1>8, <1>9, <2>2, <2>5 DEF LinePairOK, Clash
  <2>6. CASE l \notin copies /\ m \notin copies
    BY <1>9, <2>1, <2>6 DEF LinePairOK
  <2> QED
    BY <2>3, <2>4, <2>5, <2>6
<1>18. CallsInv'
  <2> SUFFICES ASSUME NEW r \in Calls PROVE CallOK(r)'
    BY DEF CallsInv
  <2>1. CASE r = q
    <3>1. \A l \in Lines : lines'[l].lock = q => lines'[l].cur.sortOrder >= 0
      <4> SUFFICES ASSUME NEW l \in Lines, lines'[l].lock = q
                   PROVE  lines'[l].cur.sortOrder >= 0
        OBVIOUS
      <4>1. l \in copies
        BY <1>4, <1>9
      <4>2. LineOK(source[l])
        BY <1>7, <4>1 DEF AssemblyInv, LinesInv
      <4> QED
        BY <1>8, <1>9, <4>1, <4>2 DEF LineOK
    <3> QED
      BY <1>1, <1>5, <1>10, <1>11, <2>1, <3>1 DEF CallOK, Creating, CallWorking
  <2>2. CASE r # q
    <3>1. call'[r] = call[r]
      BY <1>1, <2>2 DEF AssemblyInv, AssemblyTypes
    <3>2. \A m \in Contracts :
            \/ contracts'[m] = contracts[m]
            \/ /\ contracts[m].lock \in {Nobody, q}
               /\ contracts'[m].lock \in {Nobody, q}
               /\ contracts[m].com.status # "none" => contracts'[m].com.status # "none"
      BY <1>5, <1>10
    <3>3. \A l \in Lines :
            \/ lines'[l] = lines[l]
            \/ /\ lines[l].lock \in {Nobody, q}
               /\ lines'[l].lock \in {Nobody, q}
               /\ lines[l].com.contract # Nobody =>
                    lines'[l].com.contract = lines[l].com.contract
      BY <1>7, <1>9
    <3> QED
      BY <2>2, <3>1, <3>2, <3>3, OtherCalls
  <2> QED
    BY <2>1, <2>2
<1> QED
  BY <1>12, <1>13, <1>16, <1>17, <1>18 DEF AssemblyInv

-----------------------------------------------------------------------------
(* The handlers run. *)

\* Only reorder puts lines aside.
LEMMA OwnOrder ==
  ASSUME AssemblyInv, NEW q \in Calls, call[q].pc \notin {"aside", "place"},
         NEW l \in Lines, lines[l].lock \in {Nobody, q}
  PROVE  lines[l].cur.sortOrder >= 0
<1>1. LineOK(l) /\ CallOK(q)
  BY DEF AssemblyInv, LinesInv, CallsInv
<1> QED
  BY <1>1 DEF LineOK, CallOK, ToPlace

LEMMA UpdatedLines ==
  ASSUME AssemblyInv, NEW q \in Calls, NEW l \in Lines, NEW row, UpdateLine(q, l, row)
  PROVE  /\ lines[l].lock \in {Nobody, q}
         /\ \A m \in Lines : lines'[m].com = lines[m].com
         /\ \A m \in Lines \ {l} : lines'[m] = lines[m]
         /\ IF lines[l].cur.deleted THEN lines'[l] = lines[l]
                                    ELSE lines'[l].cur = row /\ lines'[l].lock = q
BY DEF UpdateLine, Put, Lockable, AssemblyInv, AssemblyTypes

\* A line of the call's contract is written, or not found any more.
LEMMA UpdateStep ==
  ASSUME AssemblyInv, UNCHANGED library, NEW q \in Calls, NEW s \in CallState,
         NEW l \in Lines, NEW row \in LineRow, call' = [call EXCEPT ![q] = s],
         UpdateLine(q, l, row), UNCHANGED contracts,
         lines[l].com.contract = CallContract[q],
         row.contract = lines[l].cur.contract,
         row.clause = lines[l].cur.clause,
         QuoteOK(row.version) \/ row.version = lines[l].cur.version,
         \/ row.deleted
         \/ row.sortOrder = lines[l].cur.sortOrder
         \/ ~lines[l].cur.deleted /\ SameOrder(q, l, row.sortOrder) = {},
         CallOK(q)'
  PROVE  AssemblyInv'
<1>1. CASE lines[l].cur.deleted
  BY <1>1, CallStep DEF UpdateLine
<1>2. CASE ~lines[l].cur.deleted
  <2>1. /\ lines' = [lines EXCEPT ![l] = Put(q, @, row)]
        /\ Lockable(q, lines[l])
    BY <1>2 DEF UpdateLine
  <2>2. /\ lines[l].cur.contract = CallContract[q]
        /\ lines[l].cur.clause \in Clauses
        /\ QuoteOK(lines[l].cur.version)
    BY CallConstants DEF AssemblyInv, LinesInv, LineOK
  <2> QED
    BY <1>2, <2>1, <2>2, LineStep
<1> QED
  BY <1>1, <1>2

\* The handler has done everything and will commit.
LEMMA ToCommit ==
  ASSUME AssemblyInv, NEW q \in Calls, call[q].pc \in CallWorking,
         NEW s, call' = [call EXCEPT ![q] = s], s.pc = "commit",
         contracts'[CallContract[q]].com = contracts[CallContract[q]].com,
         contracts[CallContract[q]].lock = q => contracts'[CallContract[q]].lock = q,
         \A l \in Lines : lines'[l].lock = q =>
           /\ CallOp[q] \in Creating \cup Editing
           /\ lines'[l].cur.sortOrder >= 0
           /\ CallOp[q] = "reorder" => ~lines'[l].cur.deleted
  PROVE  CallOK(q)'
<1>1. call'[q] = s
  BY DEF AssemblyInv, AssemblyTypes
<1>2. CallOK(q)
  BY DEF AssemblyInv, CallsInv
<1> QED
  BY <1>1, <1>2 DEF CallOK, CallWorking

LEMMA WriteRemovedInv ==
  ASSUME AssemblyInv, UNCHANGED library, NEW q \in Calls, WriteRemoved(q)
  PROVE  AssemblyInv'
<1> DEFINE l == call[q].line
           row == [lines[l].cur EXCEPT !.deleted = TRUE]
           s == [call[q] EXCEPT !.pc = "commit"]
<1>1. /\ call[q].pc = "remove" /\ UpdateLine(q, l, row)
      /\ call' = [call EXCEPT ![q] = s] /\ UNCHANGED contracts
      /\ call[q] \in CallState
      /\ CallOK(q)
  BY DEF WriteRemoved, Is, Continue, AssemblyInv, AssemblyTypes, CallsInv
<1>2. /\ l \in Lines /\ lines[l].com.contract = CallContract[q]
      /\ CallOp[q] \in {"removeClause", "editClauseText"}
  BY <1>1 DEF CallOK
<1>3. /\ row \in LineRow /\ row.deleted
      /\ row.contract = lines[l].cur.contract
      /\ row.clause = lines[l].cur.clause
      /\ row.version = lines[l].cur.version
      /\ row.sortOrder = lines[l].cur.sortOrder
  <2>1. lines[l].cur \in LineRow
    BY <1>2, LineRowType DEF AssemblyInv
  <2> QED
    BY <2>1 DEF LineRow
<1>4. s \in CallState /\ s.pc = "commit"
  BY <1>1 DEF CallState, CallWorking
<1> HIDE DEF l, row, s
<1>5. CallOK(q)'
  <2>1. \A m \in Lines : lines'[m].lock = q => lines'[m].cur.sortOrder >= 0
    BY <1>1, <1>2, <1>3, UpdatedLines, OwnOrder
  <2> QED
    BY <1>1, <1>2, <1>4, <2>1, ToCommit DEF CallWorking, Editing
<1> QED
  BY <1>1, <1>2, <1>3, <1>4, <1>5, UpdateStep

LEMMA WriteEditedInv ==
  ASSUME AssemblyInv, UNCHANGED library, NEW q \in Calls, WriteEdited(q)
  PROVE  AssemblyInv'
<1> DEFINE l == call[q].line
           row == [lines[l].cur EXCEPT !.byHand = TRUE]
           s == [call[q] EXCEPT !.pc = "commit"]
<1> SUFFICES ASSUME ~RollbackCall(q) PROVE AssemblyInv'
  BY RollbackCallInv
<1>1. /\ call[q].pc = "edit" /\ UpdateLine(q, l, row)
      /\ call' = [call EXCEPT ![q] = s] /\ UNCHANGED contracts
      /\ call[q] \in CallState
      /\ CallOK(q)
  BY DEF WriteEdited, Is, Continue, AssemblyInv, AssemblyTypes, CallsInv
<1>2. /\ l \in Lines /\ lines[l].com.contract = CallContract[q]
      /\ CallOp[q] \in {"removeClause", "editClauseText"}
  BY <1>1 DEF CallOK
<1>3. /\ row \in LineRow
      /\ row.contract = lines[l].cur.contract
      /\ row.clause = lines[l].cur.clause
      /\ row.version = lines[l].cur.version
      /\ row.sortOrder = lines[l].cur.sortOrder
  <2>1. lines[l].cur \in LineRow
    BY <1>2, LineRowType DEF AssemblyInv
  <2> QED
    BY <2>1 DEF LineRow
<1>4. s \in CallState /\ s.pc = "commit"
  BY <1>1 DEF CallState, CallWorking
<1> HIDE DEF l, row, s
<1>5. CallOK(q)'
  <2>1. \A m \in Lines : lines'[m].lock = q => lines'[m].cur.sortOrder >= 0
    BY <1>1, <1>2, <1>3, UpdatedLines, OwnOrder
  <2> QED
    BY <1>1, <1>2, <1>4, <2>1, ToCommit DEF CallWorking, Editing
<1> QED
  BY <1>1, <1>2, <1>3, <1>4, <1>5, UpdateStep

LEMMA MoveLineInv ==
  ASSUME AssemblyInv, UNCHANGED library, NEW q \in Calls, MoveAside(q) \/ MoveIntoPlace(q)
  PROVE  AssemblyInv'
<1> SUFFICES ASSUME ~RollbackCall(q) PROVE AssemblyInv'
  BY RollbackCallInv
<1> DEFINE aside == call[q].pc = "aside"
           n == call[q].line
           l == call[q].todo[n].line
           order == IF aside THEN -n ELSE n - 1
           pc == IF aside THEN "place" ELSE "commit"
           row == [lines[l].cur EXCEPT !.sortOrder = order]
           s == IF n < Len(call[q].todo)
                THEN [call[q] EXCEPT !.line = n + 1]
                ELSE [call[q] EXCEPT !.line = 1, !.pc = pc]
<1>1. /\ call[q].pc \in {"aside", "place"}
      /\ ~lines[l].cur.deleted => SameOrder(q, l, order) = {}
      /\ UpdateLine(q, l, row)
      /\ call' = [call EXCEPT ![q] = s]
      /\ UNCHANGED contracts
      /\ call[q] \in CallState
      /\ CallOK(q)
  BY DEF MoveAside, MoveIntoPlace, MoveLine, Is, AssemblyInv, AssemblyTypes, CallsInv
<1>2. /\ CallOp[q] = "reorder"
      /\ call[q].todo \in Seq([line : Lines])
      /\ n \in 1..Len(call[q].todo) /\ DOMAIN call[q].todo = 1..Len(call[q].todo)
      /\ Len(call[q].todo) \in Nat
      /\ l \in Lines /\ lines[l].com.contract = CallContract[q]
  <2>1. /\ CallOp[q] = "reorder"
        /\ call[q].todo \in Seq([line : Lines])
        /\ n \in 1..Len(call[q].todo)
        /\ OwnTodo(q)
    BY <1>1 DEF CallOK
  <2>2. DOMAIN call[q].todo = 1..Len(call[q].todo) /\ Len(call[q].todo) \in Nat
    BY <2>1, LenProperties
  <2>3. call[q].todo[n] \in [line : Lines]
    BY <2>1, ElementOfSeq
  <2> QED
    BY <2>1, <2>2, <2>3 DEF OwnTodo
<1>3. /\ row \in LineRow
      /\ row.contract = lines[l].cur.contract
      /\ row.clause = lines[l].cur.clause
      /\ row.version = lines[l].cur.version
      /\ row.deleted = lines[l].cur.deleted
      /\ row.sortOrder = order
  <2>1. lines[l].cur \in LineRow /\ order \in Int
    BY <1>2, LineRowType DEF AssemblyInv
  <2> HIDE DEF order
  <2> QED
    BY <2>1 DEF LineRow
<1>4. /\ s \in CallState /\ s.todo = call[q].todo
      /\ IF n < Len(call[q].todo) THEN s.line = n + 1 /\ s.pc = call[q].pc
                                  ELSE s.line = 1 /\ s.pc = pc
  <2>0. pc \in CallWorking
    BY DEF CallWorking
  <2>1. call[q] \in CallState /\ Len(call[q].todo) \in Nat
    BY <1>1, <1>2
  <2>2. n \in Nat
    BY <1>1 DEF CallState
  <2> HIDE DEF n, pc
  <2>3. CASE n < Len(call[q].todo)
    BY <2>1, <2>2, <2>3 DEF CallState
  <2>4. CASE ~(n < Len(call[q].todo))
    BY <2>0, <2>1, <2>4 DEF CallState
  <2> QED
    BY <2>3, <2>4
<1>5. call'[q] = s
  BY <1>1 DEF AssemblyInv, AssemblyTypes
<1> HIDE DEF s, row, l
<1>6. ASSUME NEW m \in Lines, lines'[m].lock = q
      PROVE  /\ ~lines'[m].cur.deleted
             /\ lines'[m].cur.sortOrder >= 0 \/ ToPlace(q, m)'
  <2>1. CASE m = l
    <3>1. ~lines[l].cur.deleted
      BY <1>1, <1>2, <1>6, <2>1, UpdatedLines DEF CallOK
    <3>2. lines'[m].cur = row
      BY <1>1, <1>2, <2>1, <3>1, UpdatedLines
    <3>3. CASE ~aside
      BY <1>2, <1>3, <3>1, <3>2, <3>3
    <3>4. CASE aside
      <4>1. call'[q].todo[n].line = l
        BY <1>4, <1>5 DEF l
      <4>2. /\ call'[q].pc \in {"aside", "place"} /\ n \in DOMAIN call'[q].todo
            /\ call'[q].pc = "place" => n >= call'[q].line
        BY <1>2, <1>4, <1>5, <3>4
      <4> QED
        BY <1>3, <2>1, <3>1, <3>2, <4>1, <4>2 DEF ToPlace
    <3> QED
      BY <3>3, <3>4
  <2>2. CASE m # l
    <3>1. lines'[m] = lines[m]
      BY <1>1, <1>2, <2>2, UpdatedLines
    <3>2. /\ ~lines[m].cur.deleted
          /\ lines[m].cur.sortOrder >= 0 \/ ToPlace(q, m)
      BY <1>1, <1>2, <1>6, <3>1 DEF CallOK
    <3>3. ASSUME ToPlace(q, m) PROVE ToPlace(q, m)'
      <4>1. PICK i \in DOMAIN call[q].todo :
              /\ call[q].todo[i].line = m
              /\ call[q].pc = "place" => i >= call[q].line
        BY <3>3 DEF ToPlace
      <4>2. i # n
        BY <2>2, <4>1 DEF l
      <4>3. /\ i \in DOMAIN call'[q].todo /\ call'[q].todo[i].line = m
            /\ call'[q].pc = "place" => i >= call'[q].line
            /\ call'[q].pc \in {"aside", "place"}
        BY <1>1, <1>2, <1>4, <1>5, <4>1, <4>2
      <4> QED
        BY <4>3 DEF ToPlace
    <3> QED
      BY <3>1, <3>2, <3>3
  <2> QED
    BY <2>1, <2>2
<1>7. CallOK(q)'
  <2>1. OwnTodo(q)'
    <3> SUFFICES ASSUME NEW i \in DOMAIN call[q].todo
                 PROVE  lines'[call[q].todo[i].line].com.contract = CallContract[q]
      BY <1>4, <1>5 DEF OwnTodo
    <3>1. call[q].todo[i] \in [line : Lines]
      BY <1>2, ElementOfSeq
    <3>2. lines[call[q].todo[i].line].com.contract = CallContract[q]
      BY <1>1 DEF CallOK, OwnTodo
    <3> QED
      BY <1>1, <1>2, <3>1, <3>2, UpdatedLines
  <2>2. s.pc \in {"aside", "place", "commit"} /\ s.line \in 1..Len(s.todo)
    BY <1>1, <1>2, <1>4
  <2>3. contracts[CallContract[q]].com.status # "none"
    BY <1>1, <1>2 DEF CallOK, Creating, CallWorking
  <2> HIDE DEF aside, n, order, pc
  <2> QED
    BY <1>1, <1>2, <1>4, <1>5, <1>6, <2>1, <2>2, <2>3 DEF CallOK, Creating, Editing, CallWorking
<1> QED
  BY <1>1, <1>2, <1>3, <1>4, <1>7, UpdateStep

LEMMA WriteTermsInv ==
  ASSUME AssemblyInv, UNCHANGED library, NEW q \in Calls, WriteTerms(q)
  PROVE  AssemblyInv'
<1> DEFINE k == CallContract[q]
           row == [contracts[k].cur EXCEPT !.terms = "changed"]
           s == [call[q] EXCEPT !.pc = "commit"]
<1>1. /\ call[q].pc = "write" /\ WriteContract(q, row)
      /\ call' = [call EXCEPT ![q] = s] /\ UNCHANGED lines
      /\ call[q] \in CallState
      /\ CallOK(q) /\ ContractOK(k)
      /\ k \in Contracts /\ q # Nobody
  BY CallConstants
     DEF WriteTerms, Is, Continue, AssemblyInv, AssemblyTypes, CallsInv, ContractsInv
<1>2. /\ CallOp[q] = "update" /\ contracts[k].com.status # "none"
  BY <1>1 DEF CallOK, Creating, CallWorking
<1>3. row \in ContractRow /\ row.status = contracts[k].cur.status
  <2>1. contracts[k].cur \in ContractRow
    BY <1>1, ContractRowType DEF AssemblyInv
  <2> QED
    BY <2>1 DEF ContractRow
<1>4. s \in CallState /\ s.pc = "commit"
  BY <1>1 DEF CallState, CallWorking
<1> HIDE DEF row, s
<1>5. /\ contracts[k].lock \in {Nobody, q}
      /\ contracts'[k].com = contracts[k].com
      /\ contracts'[k].cur = row
      /\ contracts'[k].lock = q
  BY <1>1 DEF WriteContract, Put, Lockable, AssemblyInv, AssemblyTypes
<1>6. ContractOK(k)'
  BY <1>1, <1>2, <1>3, <1>5 DEF ContractOK, Creating, Editing
<1>7. CallOK(q)'
  <2>1. \A m \in Lines : lines'[m].lock = q => lines'[m].cur.sortOrder >= 0
    BY <1>1, OwnOrder
  <2> QED
    BY <1>1, <1>2, <1>4, <1>5, <2>1, ToCommit DEF CallWorking, Editing
<1> QED
  BY <1>1, <1>3, <1>4, <1>6, <1>7, ContractStep

LEMMA TransitionInv ==
  ASSUME AssemblyInv, UNCHANGED library, NEW q \in Calls, Transition(q)
  PROVE  AssemblyInv'
<1> SUFFICES ASSUME ~RollbackCall(q) PROVE AssemblyInv'
  BY RollbackCallInv
<1> DEFINE k == CallContract[q]
           row == [contracts[k].cur EXCEPT !.status = To(q)]
           s == [call[q] EXCEPT !.pc = "commit"]
<1>1. /\ call[q].pc = "transition" /\ WriteContract(q, row)
      /\ Contract(q).status = From(q)
      /\ call' = [call EXCEPT ![q] = s] /\ UNCHANGED lines
      /\ call[q] \in CallState
      /\ CallOK(q) /\ ContractOK(k)
      /\ k \in Contracts /\ q # Nobody
  BY CallConstants
     DEF Transition, Is, Continue, AssemblyInv, AssemblyTypes, CallsInv, ContractsInv
<1>2. /\ CallOp[q] \in {"approve", "sign", "close"} /\ contracts[k].com.status # "none"
  BY <1>1 DEF CallOK, Creating, CallWorking
<1>3. /\ row \in ContractRow /\ row.status = To(q)
      /\ row.terms = contracts[k].cur.terms
  <2>1. contracts[k].cur \in ContractRow
    BY <1>1, ContractRowType DEF AssemblyInv
  <2>2. To(q) \in ContractStatus
    BY DEF To, ContractStatus
  <2> QED
    BY <2>1, <2>2 DEF ContractRow
<1>4. s \in CallState /\ s.pc = "commit"
  BY <1>1 DEF CallState, CallWorking
<1> HIDE DEF row, s
<1>5. /\ contracts[k].lock \in {Nobody, q}
      /\ contracts'[k].com = contracts[k].com
      /\ contracts'[k].cur = row
      /\ contracts'[k].lock = q
  BY <1>1 DEF WriteContract, Put, Lockable, AssemblyInv, AssemblyTypes
<1>6. ContractOK(k)'
  <2>1. row.terms = contracts[k].com.terms
    BY <1>1, <1>2, <1>3, <1>5 DEF ContractOK, Creating, Editing
  <2>2. row.status # "none"
    BY <1>3 DEF To
  <2>3. CallOp[q] \in {"sign", "close"} => contracts[k].com.status \notin {"none", "draft"}
    <3>1. CASE contracts[k].lock = Nobody
      BY <1>1, <1>2, <3>1 DEF Contract, Seen, From
    <3>2. CASE contracts[k].lock = q
      BY <1>1, <3>2 DEF ContractOK
    <3> QED
      BY <1>5, <3>1, <3>2
  <2> QED
    BY <1>1, <1>2, <1>5, <2>1, <2>2, <2>3 DEF ContractOK, Creating, Editing
<1>7. CallOK(q)'
  <2>1. \A m \in Lines : lines'[m].lock # q
    BY <1>1, <1>2 DEF CallOK, Creating, Editing
  <2> QED
    BY <1>1, <1>4, <1>5, <2>1, ToCommit DEF CallWorking
<1> QED
  BY <1>1, <1>3, <1>4, <1>6, <1>7, ContractStep

\* The handlers that go through a list: what they know on the way.
LEMMA InList ==
  ASSUME AssemblyInv, NEW q \in Calls,
         call[q].pc \in {"snapshot", "list", "insert", "overwrite"}
  PROVE  /\ CallOp[q] \in {"create", "addClause", "runRules", "resnapshot"}
         /\ call[q].todo # <<>>
         /\ Len(call[q].todo) \in Nat
         /\ call[q] \in CallState /\ call[q].pc \in CallWorking
         /\ IF CallOp[q] = "resnapshot"
            THEN /\ call[q].todo \in Seq(Entry)
                 /\ Head(call[q].todo) \in Entry
                 /\ \A i \in DOMAIN call[q].todo : call[q].todo[i] \in Entry
                 /\ OwnTodo(q)
            ELSE /\ call[q].todo \in Seq(Addition)
                 /\ Head(call[q].todo) \in Addition
         /\ CallOK(q)
<1>1. /\ CallOK(q) /\ call[q] \in CallState
  BY DEF AssemblyInv, AssemblyTypes, CallsInv
<1>2. /\ CallOp[q] \in {"create", "addClause", "runRules", "resnapshot"}
      /\ call[q].todo # <<>>
      /\ IF CallOp[q] = "resnapshot" THEN call[q].todo \in Seq(Entry) /\ OwnTodo(q)
                                     ELSE call[q].todo \in Seq(Addition)
  BY <1>1 DEF CallOK
<1>3. CASE CallOp[q] = "resnapshot"
  BY <1>1, <1>2, <1>3, TailOf, ElementOfSeq, LenProperties DEF CallWorking
<1>4. CASE CallOp[q] # "resnapshot"
  BY <1>1, <1>2, <1>4, TailOf DEF CallWorking
<1> QED
  BY <1>3, <1>4

\* A step along the list that leaves contracts alone, and lines' contracts.
LEMMA ListStep ==
  ASSUME AssemblyInv, UNCHANGED library, NEW q \in Calls, NEW s \in CallState,
         call[q].pc \in {"snapshot", "list", "insert", "overwrite"},
         call' = [call EXCEPT ![q] = s], UNCHANGED contracts,
         s.todo = call[q].todo,
         s.pc \in {"snapshot", "list", "insert", "overwrite"},
         s.pc \in {"list", "insert"} => CallOp[q] # "resnapshot",
         s.pc = "list" => CallOp[q] # "create",
         s.pc = "overwrite" => CallOp[q] = "resnapshot",
         s.pc \in {"insert", "overwrite"} \/ (s.pc = "list" /\ CallOp[q] = "addClause") =>
           QuoteOK(s.found),
         UNCHANGED lines
  PROVE  AssemblyInv'
<1>1. call'[q] = s
  BY DEF AssemblyInv, AssemblyTypes
<1>2. /\ OwnTodo(q) => OwnTodo(q)'
  BY <1>1 DEF OwnTodo
<1>3. \A v : QuoteOK(v)' = QuoteOK(v)
  BY DEF library, QuoteOK, Status
<1>4. \A l \in Lines : lines[l].lock = q => lines[l].cur.sortOrder >= 0
  BY OwnOrder
<1>5. CallOK(q)'
  BY <1>1, <1>2, <1>3, <1>4, InList DEF CallOK, CallWorking
<1> QED
  BY <1>5, CallStep

LEMMA SnapshotClauseInv ==
  ASSUME AssemblyInv, LibraryInv, UNCHANGED library, NEW q \in Calls, SnapshotClause(q)
  PROVE  AssemblyInv'
<1> SUFFICES ASSUME ~RollbackCall(q) PROVE AssemblyInv'
  BY RollbackCallInv
<1> DEFINE pc == CASE CallOp[q] = "addClause"  -> "list"
                   [] CallOp[q] = "resnapshot" -> "overwrite"
                   [] OTHER                    -> "insert"
<1>1. PICK v \in ActiveVersion(ClauseAt(q)) :
        call' = [call EXCEPT ![q].found = v, ![q].pc = pc]
  BY DEF SnapshotClause
<1> DEFINE s == [call[q] EXCEPT !.found = v, !.pc = pc]
<1>2. /\ call[q].pc = "snapshot" /\ UNCHANGED <<contracts, lines>>
      /\ call' = [call EXCEPT ![q] = s]
  BY <1>1 DEF SnapshotClause, Is
<1>3. QuoteOK(v) /\ v \in Versions
  BY ActiveIsQuotable DEF QuoteOK
<1>4. call[q] \in CallState /\ pc \in CallWorking
  BY DEF AssemblyInv, AssemblyTypes, CallWorking
<1>5. s \in CallState /\ s.pc = pc /\ s.found = v /\ s.todo = call[q].todo
  <2> HIDE DEF pc
  <2> QED
    BY <1>3, <1>4 DEF CallState
<1> HIDE DEF s
<1> QED
  BY <1>2, <1>3, <1>5, ListStep

\* An appended line gets a sort order that is not negative.
LEMMA NextOrder ==
  ASSUME AssemblyInv, NEW q \in Calls, call[q].pc = "list"
  PROVE  LET orders == {Line(q, l).sortOrder : l \in OwnLines(q)} IN
           (IF orders = {} THEN 0 ELSE Max(orders) + 1) \in Nat
<1> DEFINE own == OwnLines(q)
           f == [l \in Lines |-> Line(q, l).sortOrder]
<1>1. own \subseteq Lines
  BY DEF OwnLines, Listed
<1>2. \A l \in Lines : f[l] \in Nat
  <2> SUFFICES ASSUME NEW l \in Lines PROVE Line(q, l).sortOrder \in Nat
    OBVIOUS
  <2>1. lines[l].com.sortOrder \in Int /\ lines[l].cur.sortOrder \in Int
    BY LineRowType DEF AssemblyInv
  <2>2. lines[l].com.sortOrder >= 0
    BY DEF AssemblyInv, LinesInv, LineOK
  <2>3. lines[l].lock = q => lines[l].cur.sortOrder >= 0
    BY OwnOrder
  <2> QED
    BY <2>1, <2>2, <2>3 DEF Line, Seen
<1>3. {Line(q, l).sortOrder : l \in own} = {f[l] : l \in own}
  BY <1>1
<1>4. CASE own = {}
  BY <1>4
<1>5. CASE own # {}
  <2> DEFINE orders == {f[l] : l \in own}
  <2>1. PICK l \in own : Max(orders) = f[l]
    <3> HIDE DEF f, own
    <3>1. own \in SUBSET Lines /\ \A l \in own : f[l] \in Int
      BY <1>1, <1>2
    <3> QED
      BY <1>5, <3>1, MaxInt
  <2>2. orders # {} /\ Max(orders) \in Nat
    BY <1>1, <1>2, <1>5, <2>1
  <2> HIDE DEF orders
  <2>3. (IF orders = {} THEN 0 ELSE Max(orders) + 1) \in Nat
    BY <2>2
  <2>4. orders = {Line(q, m).sortOrder : m \in OwnLines(q)}
    BY <1>3 DEF orders
  <2> QED
    BY <2>3, <2>4
<1> QED
  BY <1>4, <1>5

\* The handler is through with one member of its list.
LEMMA AdvanceCall ==
  ASSUME AssemblyInv, UNCHANGED library, NEW q \in Calls, NEW pc \in {"snapshot", "list"},
         call[q].pc \in {"list", "insert", "overwrite"}, Advance(q, pc),
         pc = "list" => CallOp[q] \in {"addClause", "runRules"},
         UNCHANGED contracts,
         \A l \in Lines : lines'[l].com = lines[l].com,
         \A l \in Lines : lines'[l].lock = q => lines'[l].cur.sortOrder >= 0
  PROVE  \E s \in CallState : call' = [call EXCEPT ![q] = s] /\ CallOK(q)'
<1> DEFINE t == call[q]
           order == IF CallOp[q] = "create" THEN t.sortOrder + 1 ELSE 0
           next == IF Len(t.todo) = 1 THEN "commit" ELSE pc
           s == [t EXCEPT !.todo = Tail(t.todo), !.found = Nobody,
                          !.sortOrder = order, !.pc = next]
<1>1. call' = [call EXCEPT ![q] = s]
  BY DEF Advance
<1>2. /\ CallOp[q] \in {"create", "addClause", "runRules", "resnapshot"}
      /\ t \in CallState /\ t.pc \in CallWorking /\ CallOK(q)
      /\ t.todo # <<>>
  BY InList
<1>3. /\ IF CallOp[q] = "resnapshot" THEN Tail(t.todo) \in Seq(Entry)
                                     ELSE Tail(t.todo) \in Seq(Addition)
      /\ Len(t.todo) # 1 => Tail(t.todo) # <<>>
      /\ \A i \in DOMAIN Tail(t.todo) :
           i + 1 \in DOMAIN t.todo /\ Tail(t.todo)[i] = t.todo[i + 1]
  <2>1. CASE CallOp[q] = "resnapshot"
    <3>1. t.todo \in Seq(Entry) /\ t.todo # <<>>
      BY <2>1, InList
    <3> HIDE DEF t
    <3> QED
      BY <2>1, <3>1, TailOf
  <2>2. CASE CallOp[q] # "resnapshot"
    <3>1. t.todo \in Seq(Addition) /\ t.todo # <<>>
      BY <2>2, InList
    <3> HIDE DEF t
    <3> QED
      BY <2>2, <3>1, TailOf
  <2> QED
    BY <2>1, <2>2
<1>4. next \in CallWorking /\ order \in Nat
  BY <1>2 DEF CallWorking, CallState
<1>5. s \in CallState /\ s.pc = next /\ s.todo = Tail(t.todo)
  <2>1. Tail(t.todo) \in Seq(Addition \cup Entry \cup [line : Lines])
    BY <1>3, TodoType
  <2> HIDE DEF next, order
  <2> QED
    BY <1>2, <1>4, <2>1 DEF CallState
<1>6. call'[q] = s
  BY <1>1 DEF AssemblyInv, AssemblyTypes
<1>7. CallOp[q] = "resnapshot" => OwnTodo(q)'
  <2> SUFFICES ASSUME CallOp[q] = "resnapshot", NEW i \in DOMAIN Tail(t.todo)
               PROVE  lines'[Tail(t.todo)[i].line].com.contract = CallContract[q]
    BY <1>5, <1>6 DEF OwnTodo
  <2>1. i + 1 \in DOMAIN t.todo /\ Tail(t.todo)[i] = t.todo[i + 1]
    BY <1>3
  <2>2. t.todo[i + 1] \in Entry /\ lines[t.todo[i + 1].line].com.contract = CallContract[q]
    BY <2>1, InList DEF OwnTodo
  <2> QED
    BY <2>1, <2>2 DEF Entry
<1>8. next # "commit" => /\ next = pc
                         /\ Tail(t.todo) # <<>>
                         /\ CallOp[q] # "addClause" \/ t.pc \notin {"snapshot", "list", "insert"}
  BY <1>2, <1>3 DEF CallOK
<1>10. CallOK(q)'
  <2>1. /\ call'[q].pc = next /\ call'[q].todo = Tail(t.todo)
        /\ next \in {"commit", "snapshot", "list"}
        /\ next = "list" => CallOp[q] = "runRules"
        /\ next # "commit" => CallOp[q] # "addClause"
    <3>1. next # "commit" => t.pc \in {"list", "insert"} \/ CallOp[q] = "resnapshot"
      BY <1>2 DEF CallOK
    <3> QED
      BY <1>2, <1>5, <1>6, <1>8, <3>1
  <2>2. \A l \in Lines : lines'[l].lock = q =>
          /\ CallOp[q] \in Creating \cup Editing
          /\ lines'[l].cur.sortOrder >= 0 \/ ToPlace(q, l)'
          /\ CallOp[q] = "reorder" => ~lines'[l].cur.deleted
    BY <1>2 DEF Creating, Editing
  <2>3. IF CallOp[q] \in Creating
        THEN contracts'[CallContract[q]].lock = q /\ contracts'[CallContract[q]].com.status = "none"
        ELSE contracts'[CallContract[q]].com.status # "none"
    BY <1>2 DEF CallOK
  <2> HIDE DEF s, next, t
  <2>4. CASE next = "commit"
    BY <2>1, <2>2, <2>3, <2>4 DEF CallOK
  <2>5. CASE next # "commit"
    BY <1>2, <1>3, <1>7, <1>8, <2>1, <2>2, <2>3, <2>5 DEF CallOK
  <2> QED
    BY <2>4, <2>5
<1> HIDE DEF s
<1> QED
  BY <1>1, <1>5, <1>10

LEMMA ListClausesInv ==
  ASSUME AssemblyInv, UNCHANGED library, NEW q \in Calls, ListClauses(q)
  PROVE  AssemblyInv'
<1> DEFINE orders == {Line(q, l).sortOrder : l \in OwnLines(q)}
           order == IF orders = {} THEN 0 ELSE Max(orders) + 1
           pc == IF CallOp[q] = "addClause" THEN "insert" ELSE "snapshot"
           s == [call[q] EXCEPT !.sortOrder = order, !.pc = pc]
<1>1. call[q].pc = "list" /\ UNCHANGED <<contracts, lines>>
  BY DEF ListClauses, Is
<1>2. CASE Advance(q, "list") /\ CallOp[q] = "runRules"
  <2>1. \A l \in Lines : lines'[l].lock = q => lines'[l].cur.sortOrder >= 0
    BY <1>1, OwnOrder
  <2>2. PICK s2 \in CallState : call' = [call EXCEPT ![q] = s2] /\ CallOK(q)'
    BY <1>1, <1>2, <2>1, AdvanceCall
  <2> QED
    BY <1>1, <2>2, CallStep
<1>3. CASE call' = [call EXCEPT ![q].sortOrder = order, ![q].pc = pc]
  <2>1. call' = [call EXCEPT ![q] = s]
    BY <1>3
  <2>2. order \in Nat
    BY <1>1, NextOrder
  <2>3. call[q] \in CallState /\ pc \in CallWorking /\ CallOK(q)
    BY DEF AssemblyInv, AssemblyTypes, CallsInv, CallWorking
  <2>4. s \in CallState /\ s.pc = pc /\ s.found = call[q].found /\ s.todo = call[q].todo
    <3> HIDE DEF order, pc
    <3> QED
      BY <2>2, <2>3 DEF CallState
  <2>5. CallOp[q] \notin {"create", "resnapshot"} /\ (CallOp[q] = "addClause" => QuoteOK(call[q].found))
    BY <1>1, <2>3 DEF CallOK
  <2> HIDE DEF s
  <2> QED
    BY <1>1, <2>1, <2>4, <2>5, ListStep
<1> QED
  BY <1>2, <1>3 DEF ListClauses

LEMMA OverwriteInv ==
  ASSUME AssemblyInv, UNCHANGED library, NEW q \in Calls, Overwrite(q)
  PROVE  AssemblyInv'
<1> DEFINE l == Head(call[q].todo).line
           row == [lines[l].cur EXCEPT !.version = call[q].found, !.byHand = FALSE]
<1>1. /\ call[q].pc = "overwrite" /\ Advance(q, "snapshot") /\ UNCHANGED contracts
      /\ UNCHANGED lines \/ UpdateLine(q, l, row)
  BY DEF Overwrite, Is
<1>2. /\ CallOp[q] = "resnapshot" /\ QuoteOK(call[q].found) /\ CallOK(q)
      /\ call[q].found \in Versions
  BY <1>1 DEF CallOK, AssemblyInv, CallsInv, QuoteOK
<1>3. l \in Lines /\ lines[l].com.contract = CallContract[q]
  <2>1. /\ Head(call[q].todo) \in Entry /\ OwnTodo(q)
        /\ call[q].todo \in Seq(Entry) /\ call[q].todo # <<>>
    BY <1>1, <1>2, InList
  <2>2. 1 \in DOMAIN call[q].todo /\ Head(call[q].todo) = call[q].todo[1]
    BY <2>1, TailOf
  <2> QED
    BY <2>1, <2>2 DEF Entry, OwnTodo
<1>4. /\ row \in LineRow
      /\ row.contract = lines[l].cur.contract
      /\ row.clause = lines[l].cur.clause
      /\ row.version = call[q].found
      /\ row.sortOrder = lines[l].cur.sortOrder
  <2>1. lines[l].cur \in LineRow
    BY <1>3, LineRowType DEF AssemblyInv
  <2> QED
    BY <1>2, <2>1 DEF LineRow
<1> HIDE DEF row, l
<1>5. /\ \A m \in Lines : lines'[m].com = lines[m].com
      /\ \A m \in Lines : lines'[m].lock = q => lines'[m].cur.sortOrder >= 0
  <2>1. \A m \in Lines : lines[m].lock \in {Nobody, q} => lines[m].cur.sortOrder >= 0
    BY <1>1, OwnOrder
  <2>2. CASE UNCHANGED lines
    BY <2>1, <2>2
  <2>3. CASE UpdateLine(q, l, row)
    BY <1>3, <1>4, <2>1, <2>3, UpdatedLines
  <2> QED
    BY <1>1, <2>2, <2>3
<1>6. PICK s \in CallState : call' = [call EXCEPT ![q] = s] /\ CallOK(q)'
  BY <1>1, <1>5, AdvanceCall
<1>7. CASE UNCHANGED lines
  BY <1>1, <1>6, <1>7, CallStep
<1>8. CASE UpdateLine(q, l, row)
  BY <1>1, <1>2, <1>3, <1>4, <1>6, <1>8, UpdateStep
<1> QED
  BY <1>1, <1>7, <1>8

LEMMA InsertClauseInv ==
  ASSUME AssemblyInv, UNCHANGED library, NEW q \in Calls, InsertClause(q)
  PROVE  AssemblyInv'
<1> SUFFICES ASSUME ~RollbackCall(q) PROVE AssemblyInv'
  BY RollbackCallInv
<1> DEFINE pc == IF CallOp[q] = "create" THEN "snapshot" ELSE "list"
           t == call[q]
           row == [contract |-> CallContract[q], clause |-> ClauseAt(q),
                   version |-> t.found, sortOrder |-> t.sortOrder,
                   byHand |-> FALSE, mandatory |-> Head(t.todo).mandatory,
                   deleted |-> FALSE]
<1>1. /\ t.pc = "insert" /\ Unused # {}
      /\ SameOrder(q, 0, t.sortOrder) = {}
      /\ lines' = [lines EXCEPT ![Min(Unused)] = Put(q, @, row)]
      /\ Advance(q, pc) /\ UNCHANGED contracts
  BY DEF InsertClause, Is
<1>2. /\ CallOp[q] \in {"create", "addClause", "runRules"} /\ QuoteOK(t.found)
      /\ t.found \in Versions
      /\ Head(t.todo) \in Addition
      /\ t \in CallState
  BY <1>1, InList DEF CallOK, QuoteOK
<1>3. PICK l \in Unused : l = Min(Unused)
  <2>1. Unused \in SUBSET Nat
    BY CallConstants DEF Unused
  <2>2. \E n \in Unused : \A m \in Unused : n <= m
    BY <1>1, <2>1, HasLeast
  <2> QED
    BY <2>2 DEF Min
<1>4. /\ l \in Lines /\ lines[l].lock = Nobody
      /\ lines[l].com = NoLine /\ NoLine.contract = Nobody
  BY FreshRow DEF Unused, NoLine
<1>5. /\ row \in LineRow
      /\ row.contract = CallContract[q] /\ row.clause \in Clauses
      /\ row.version = t.found /\ row.sortOrder = t.sortOrder
      /\ row.sortOrder >= 0
  <2>1. Head(t.todo).clause \in Clauses /\ Head(t.todo).mandatory \in BOOLEAN
    BY <1>2 DEF Addition
  <2>2. t.sortOrder \in Nat
    BY <1>2 DEF CallState
  <2>3. CallContract[q] \in Contracts
    BY CallConstants
  <2> HIDE DEF t
  <2> QED
    BY <1>2, <2>1, <2>2, <2>3 DEF LineRow, ClauseAt, t
<1> HIDE DEF row
<1>6. lines' = [lines EXCEPT ![l] = Put(q, @, row)]
  BY <1>1, <1>3
<1>7. /\ \A m \in Lines : lines'[m].com = lines[m].com
      /\ \A m \in Lines : lines'[m].lock = q => lines'[m].cur.sortOrder >= 0
  <2>1. \A m \in Lines : lines[m].lock = q => lines[m].cur.sortOrder >= 0
    BY <1>1, OwnOrder
  <2>2. lines'[l].com = lines[l].com /\ lines'[l].cur = row
    BY <1>4, <1>6 DEF Put, AssemblyInv, AssemblyTypes
  <2>3. \A m \in Lines \ {l} : lines'[m] = lines[m]
    BY <1>4, <1>6 DEF AssemblyInv, AssemblyTypes
  <2> QED
    BY <1>5, <2>1, <2>2, <2>3
<1>8. PICK s \in CallState : call' = [call EXCEPT ![q] = s] /\ CallOK(q)'
  BY <1>1, <1>2, <1>7, AdvanceCall
<1>9. SameOrder(q, l, row.sortOrder) = {}
  BY <1>1, <1>5, CallConstants DEF SameOrder
<1>10. Lockable(q, lines[l])
  BY <1>4 DEF Lockable
<1> QED
  BY <1>1, <1>2, <1>4, <1>5, <1>6, <1>8, <1>9, <1>10, LineStep

-----------------------------------------------------------------------------
LEMMA AssemblyStep ==
  ASSUME AssemblyInv, LibraryInv, UNCHANGED library, AssemblyNext
  PROVE  AssemblyInv'
<1> PICK q \in Calls : BeginCall(q) \/ RunCall(q) \/ CrashCall(q)
  BY DEF AssemblyNext
<1>1. CASE BeginCall(q)
  BY <1>1, CreateInv, BeginInv, ReorderInv, ResnapshotInv, ReviseInv DEF BeginCall
<1>2. CASE RunCall(q)
  BY <1>2, SnapshotClauseInv, ListClausesInv, InsertClauseInv, WriteRemovedInv,
     MoveLineInv, WriteEditedInv, OverwriteInv, WriteTermsInv, TransitionInv,
     CommitCallInv DEF RunCall
<1>3. CASE CrashCall(q)
  BY <1>3, RollbackCallInv DEF CrashCall
<1> QED
  BY <1>1, <1>2, <1>3

LEMMA SpecKeepsLibrary == Spec => LibrarySpec
<1>1. Init => LibraryInit
  BY DEF Init
<1>2. [Next]_vars => [LibraryNext]_library
  BY DEF Next, vars
<1> QED
  BY <1>1, <1>2, PTL DEF Spec, LibrarySpec

\* The library's invariant and the contracts' hold together: a contract quotes
\* what the library's rows say, and the library goes on by itself.
THEOREM AssemblyInvariant == Spec => [](LibraryInv /\ AssemblyInv)
<1>1. Spec => []LibraryInv
  BY SpecKeepsLibrary, LibraryInvariant
<1>2. Init => AssemblyInv
  BY InitAssembly
<1>3. LibraryInv /\ AssemblyInv /\ [Next]_vars => AssemblyInv'
  <2> SUFFICES ASSUME LibraryInv, AssemblyInv, [Next]_vars PROVE AssemblyInv'
    OBVIOUS
  <2>1. CASE LibraryNext /\ UNCHANGED assembly
    BY <2>1, LibraryStep
  <2>2. CASE AssemblyNext /\ UNCHANGED library
    BY <2>2, AssemblyStep
  <2>3. CASE UNCHANGED vars
    BY <2>3, LibraryStep DEF vars
  <2> QED
    BY <2>1, <2>2, <2>3 DEF Next
<1> QED
  BY <1>1, <1>2, <1>3, PTL DEF Spec

\* Every line of every contract has a place of its own (TypeOK), whatever calls
\* add, remove and move lines at the same time, and whichever of them fail.
THEOREM LinesHavePlaces == Spec => []TypeOK
<1>1. AssemblyInv => TypeOK
  <2> SUFFICES ASSUME AssemblyInv PROVE TypeOK
    OBVIOUS
  <2>1. \A l \in Quoted : lines[l].com.sortOrder >= 0
    BY DEF Quoted, AssemblyInv, LinesInv, LineOK
  <2>2. ASSUME NEW l \in Quoted, NEW m \in Quoted, l # m,
               lines[l].com.contract = lines[m].com.contract,
               lines[l].com.sortOrder = lines[m].com.sortOrder
        PROVE  FALSE
    BY <2>2 DEF Quoted, AssemblyInv, LinePairsInv, LinePairOK, Clash
  <2> QED
    BY <2>1, <2>2 DEF AssemblyInv, AssemblyTypes, TypeOK
<1> QED
  BY <1>1, AssemblyInvariant, PTL

\* What a contract quotes has been in force (QuotesWhatWasInForce): snapshotClause
\* reads the active version in one statement and the line is inserted or
\* overwritten in another, and the library changes in between.
THEOREM QuotesInForce == Spec => []QuotesWhatWasInForce
<1>1. AssemblyInv => QuotesWhatWasInForce
  BY DEF AssemblyInv, LinesInv, LineOK, QuoteOK, Quoted, QuotesWhatWasInForce, InForce
<1> QED
  BY <1>1, AssemblyInvariant, PTL

-----------------------------------------------------------------------------
(* Approved contracts.  What is committed changes when a call commits; the  *)
(* calls that could change an approved contract are not under way then.    *)

\* Nothing that is committed changes, and no call but q goes on.
Keeps(q) ==
  /\ \A k \in Contracts : contracts'[k].com = contracts[k].com
  /\ \A l \in Lines : lines'[l].com = lines[l].com
  /\ \A r \in Calls \ {q} : call'[r] = call[r]

LEMMA WriteKeepsCommitted ==
  ASSUME AssemblyInv, NEW q \in Calls, NEW row, WriteContract(q, row)
  PROVE  \A k \in Contracts : contracts'[k].com = contracts[k].com
BY DEF WriteContract, Put, AssemblyInv, AssemblyTypes

LEMMA RollbackKeeps ==
  ASSUME AssemblyInv, NEW q \in Calls, RollbackCall(q)
  PROVE  Keeps(q)
<1>1. AssemblyTypes /\ \A r \in Calls \ {q} : call'[r] = call[r]
  BY DEF AssemblyInv, AssemblyTypes, RollbackCall
<1> QED
  BY <1>1, EndedTables, FreshRow DEF RollbackCall, Keeps

LEMMA BeginKeeps ==
  ASSUME AssemblyInv, NEW q \in Calls, BeginCall(q)
  PROVE  Keeps(q) /\ call[q].pc = "new" /\ Begins(q, CallOp[q])
<1>1. Begins(q, CallOp[q]) /\ call[q].pc = "new"
  BY DEF BeginCall, Create, AddClause, RunRules, RemoveClause, Reorder, EditClauseText,
         Resnapshot, UpdateContract, RunTransition, Revise, Begins
<1>2. \A r \in Calls \ {q} : call'[r] = call[r]
  <2>1. CASE Create(q)
    BY <2>1 DEF Create, AssemblyInv, AssemblyTypes
  <2>2. CASE AddClause(q) \/ RunRules(q) \/ RemoveClause(q)
    BY <2>2 DEF AddClause, RunRules, RemoveClause, AssemblyInv, AssemblyTypes
  <2>3. CASE Reorder(q)
    <3>1. PICK list \in InOrder(q) :
            LET ids == Reverse(list) IN
            call' = [call EXCEPT ![q].pc = "aside", ![q].line = 1,
                                 ![q].todo = [n \in DOMAIN ids |-> [line |-> ids[n]]]]
      BY <2>3 DEF Reorder
    <3> QED
      BY <3>1 DEF AssemblyInv, AssemblyTypes
  <2>4. CASE Resnapshot(q)
    BY <2>4 DEF Resnapshot, AssemblyInv, AssemblyTypes
  <2>5. CASE EditClauseText(q) \/ UpdateContract(q) \/ RunTransition(q) \/ Revise(q)
    BY <2>5 DEF EditClauseText, UpdateContract, RunTransition, Revise, Continue,
                AssemblyInv, AssemblyTypes
  <2> QED
    BY <2>1, <2>2, <2>3, <2>4, <2>5 DEF BeginCall
<1>3. \A k \in Contracts : contracts'[k].com = contracts[k].com
  BY WriteKeepsCommitted
     DEF BeginCall, Create, AddClause, RunRules, RemoveClause, Reorder, EditClauseText,
         Resnapshot, UpdateContract, RunTransition, Revise
<1>4. \A l \in Lines : lines'[l].com = lines[l].com
  <2>1. CASE Revise(q)
    <3> SUFFICES ASSUME NEW l \in Lines PROVE lines'[l].com = lines[l].com
      OBVIOUS
    <3>1. PICK copies \in SUBSET Unused : \E source :
            lines' = [m \in Lines |-> IF m \in copies
                        THEN Put(q, lines[m], [Line(q, source[m]) EXCEPT
                                                 !.contract = CallContract[q]])
                        ELSE lines[m]]
      BY <2>1 DEF Revise
    <3>2. \/ lines'[l] = lines[l]
          \/ \E row : lines'[l] = Put(q, lines[l], row)
      BY <3>1
    <3>3. ASSUME NEW row, lines'[l] = Put(q, lines[l], row)
          PROVE  lines'[l].com = lines[l].com
      BY <3>3 DEF Put
    <3> QED
      BY <3>2, <3>3
  <2>2. CASE ~Revise(q)
    BY <2>2 DEF BeginCall, Create, AddClause, RunRules, RemoveClause, Reorder,
                EditClauseText, Resnapshot, UpdateContract, RunTransition
  <2> QED
    BY <2>1, <2>2
<1> QED
  BY <1>1, <1>2, <1>3, <1>4 DEF Keeps

LEMMA UpdateKeepsLines ==
  ASSUME AssemblyInv, NEW q \in Calls, NEW l, NEW row, UpdateLine(q, l, row)
  PROVE  \A m \in Lines : lines'[m].com = lines[m].com
BY DEF UpdateLine, Put, AssemblyInv, AssemblyTypes

LEMMA RunKeeps ==
  ASSUME AssemblyInv, NEW q \in Calls, RunCall(q), ~CommitCall(q)
  PROVE  Keeps(q) /\ call[q].pc \in CallWorking
<1>1. call[q].pc \in CallWorking
  BY DEF RunCall, SnapshotClause, ListClauses, InsertClause, WriteRemoved, MoveAside,
         MoveIntoPlace, WriteEdited, Overwrite, WriteTerms, Transition, Is, CallWorking
<1> SUFFICES ASSUME ~RollbackCall(q) PROVE Keeps(q)
  BY <1>1, RollbackKeeps
<1>2. \A r \in Calls \ {q} : call'[r] = call[r]
  BY DEF RunCall, SnapshotClause, ListClauses, InsertClause, WriteRemoved, MoveAside,
         MoveIntoPlace, MoveLine, WriteEdited, Overwrite, WriteTerms, Transition,
         Advance, Continue, AssemblyInv, AssemblyTypes
<1>3. \A k \in Contracts : contracts'[k].com = contracts[k].com
  BY WriteKeepsCommitted
     DEF RunCall, SnapshotClause, ListClauses, InsertClause, WriteRemoved, MoveAside,
         MoveIntoPlace, MoveLine, WriteEdited, Overwrite, WriteTerms, Transition
<1>4. \A l \in Lines : lines'[l].com = lines[l].com
  <2>1. CASE InsertClause(q)
    BY <2>1 DEF InsertClause, Put, AssemblyInv, AssemblyTypes
  <2>2. CASE ~InsertClause(q)
    BY <2>2, UpdateKeepsLines
       DEF RunCall, SnapshotClause, ListClauses, WriteRemoved, MoveAside,
           MoveIntoPlace, MoveLine, WriteEdited, Overwrite, WriteTerms, Transition
  <2> QED
    BY <2>1, <2>2
<1> QED
  BY <1>1, <1>2, <1>3, <1>4 DEF Keeps

\* A call that is under way writes no line of a contract that keeps its lines.
LEMMA FrozenLine ==
  ASSUME AssemblyInv, FrozenInv, NEW k \in Contracts,
         BeyondDraft(ContractStatusOf(k)) \/ (\E r \in Calls : IsApproving(r, k)),
         NEW q \in Calls, call[q].pc \in CallWorking
  PROVE  /\ contracts[k].lock = q => CallOp[q] \notin Creating \cup Editing
         /\ \A l \in Lines : lines[l].lock = q =>
              lines[l].com.contract # k /\ lines[l].cur.contract # k
<1>1. contracts[k].com.status # "none"
  <2>1. CASE BeyondDraft(ContractStatusOf(k))
    BY <2>1 DEF BeyondDraft, ContractStatusOf
  <2>2. ASSUME NEW r \in Calls, IsApproving(r, k)
        PROVE  contracts[k].com.status # "none"
    BY <2>2 DEF IsApproving, AssemblyInv, CallsInv, CallOK, Creating
  <2> QED
    BY <2>1, <2>2
<1>2. CallOK(q) /\ CallContract[q] \in Contracts /\ k # Nobody /\ q # Nobody
  BY CallConstants DEF AssemblyInv, CallsInv
<1>3. CallContract[q] = k => CallOp[q] \notin Creating \cup Editing
  BY <1>1, <1>2 DEF CallOK, FrozenInv, FrozenOK
<1>4. contracts[k].lock = q => CallContract[q] = k
  BY <1>2 DEF AssemblyInv, ContractsInv, ContractOK
<1>5. ASSUME NEW l \in Lines, lines[l].lock = q
      PROVE  lines[l].com.contract # k /\ lines[l].cur.contract # k
  <2>1. CallOp[q] \in Creating \cup Editing
    BY <1>2, <1>5 DEF CallOK
  <2>2. LineOK(l)
    BY DEF AssemblyInv, LinesInv
  <2> QED
    BY <1>2, <1>3, <1>5, <2>1, <2>2 DEF LineOK
<1> QED
  BY <1>3, <1>4, <1>5

\* What a commit does to a contract that keeps its lines.
LEMMA FrozenCommit ==
  ASSUME AssemblyInv, FrozenInv, NEW k \in Contracts,
         BeyondDraft(ContractStatusOf(k)) \/ (\E r \in Calls : IsApproving(r, k)),
         NEW q \in Calls, CommitCall(q)
  PROVE  /\ contracts'[k].com.terms = contracts[k].com.terms
         /\ LinesOf(k)' = LinesOf(k)
         /\ \A l \in LinesOf(k) : lines'[l].com = lines[l].com
<1>1. /\ contracts' = CommittedAll(q, contracts) /\ lines' = CommittedAll(q, lines)
      /\ call[q].pc \in CallWorking /\ AssemblyTypes /\ q # Nobody
      /\ ContractOK(k) /\ k # Nobody
  BY CallConstants DEF CommitCall, Is, CallWorking, AssemblyInv, ContractsInv
<1>2. \A l \in Lines : /\ lines[l].lock = q => lines'[l].com = lines[l].cur
                       /\ lines[l].lock # q => lines'[l] = lines[l]
  BY <1>1, EndedTables, FreshRow
<1>3. \A l \in Lines : lines[l].com.contract = k \/ lines'[l].com.contract = k =>
        lines'[l].com = lines[l].com
  BY <1>1, <1>2, FrozenLine
<1>4. contracts'[k].com.terms = contracts[k].com.terms
  <2>1. CASE contracts[k].lock = q
    <3>1. contracts'[k].com = contracts[k].cur
      BY <1>1, <2>1, EndedTables, FreshRow
    <3>2. CallOp[q] \notin Creating \cup Editing
      BY <1>1, <2>1, FrozenLine
    <3> QED
      BY <1>1, <2>1, <3>1, <3>2 DEF ContractOK
  <2>2. CASE contracts[k].lock # q
    BY <1>1, <2>2, EndedTables
  <2> QED
    BY <2>1, <2>2
<1> QED
  BY <1>3, <1>4 DEF LinesOf, Quoted

\* A contract gets beyond draft when its approval commits.
LEMMA FrozenBefore ==
  ASSUME AssemblyInv, NEW k \in Contracts, NEW q \in Calls, CommitCall(q),
         BeyondDraft(ContractStatusOf(k)') \/ (\E r \in Calls : IsApproving(r, k)')
  PROVE  BeyondDraft(ContractStatusOf(k)) \/ (\E r \in Calls : IsApproving(r, k))
<1>1. /\ contracts' = CommittedAll(q, contracts)
      /\ call' = [call EXCEPT ![q] = CallAt("ended")]
      /\ call[q].pc \in CallWorking /\ AssemblyTypes /\ q # Nobody
      /\ ContractOK(k)
  BY CallConstants DEF CommitCall, Is, CallWorking, AssemblyInv, ContractsInv
<1>2. ASSUME NEW r \in Calls, IsApproving(r, k)'
      PROVE  IsApproving(r, k)
  <2>1. call'[q].pc = "ended" /\ "ended" \notin CallWorking
    BY <1>1, CallAtType DEF AssemblyTypes, CallWorking
  <2> QED
    BY <1>1, <1>2, <2>1 DEF IsApproving, AssemblyTypes
<1>3. ASSUME BeyondDraft(ContractStatusOf(k)')
      PROVE  BeyondDraft(ContractStatusOf(k)) \/ IsApproving(q, k)
  <2>1. CASE contracts[k].lock = q
    <3>1. contracts'[k].com = contracts[k].cur
      BY <1>1, <2>1, EndedTables, FreshRow
    <3>2. CallOp[q] \in CallOperations
      BY ContractAssumption
    <3> QED
      BY <1>1, <1>3, <2>1, <3>1, <3>2
         DEF ContractOK, BeyondDraft, ContractStatusOf, IsApproving, CallOperations,
             Creating, Editing
  <2>2. CASE contracts[k].lock # q
    BY <1>1, <1>3, <2>2, EndedTables DEF ContractStatusOf
  <2> QED
    BY <2>1, <2>2
<1> QED
  BY <1>2, <1>3

LEMMA FrozenStep ==
  ASSUME EditsApart, AssemblyInv, FrozenInv, AssemblyNext
  PROVE  FrozenInv'
<1> PICK q \in Calls : BeginCall(q) \/ RunCall(q) \/ CrashCall(q)
  BY DEF AssemblyNext
<1> SUFFICES ASSUME NEW k \in Contracts PROVE FrozenOK(k)'
  BY DEF FrozenInv
<1>0. FrozenOK(k) /\ k # Nobody
  BY CallConstants DEF FrozenInv
<1>1. ASSUME Keeps(q)
      PROVE  /\ ContractStatusOf(k)' = ContractStatusOf(k)
             /\ LinesOf(k)' = LinesOf(k)
             /\ \A r \in Calls \ {q} : IsApproving(r, k)' = IsApproving(r, k)
             /\ \A r \in Calls \ {q} : call'[r] = call[r]
  BY <1>1 DEF Keeps, ContractStatusOf, LinesOf, Quoted, IsApproving
<1>2. ASSUME Keeps(q), call[q].pc \in CallWorking
      PROVE  FrozenOK(k)'
  BY <1>0, <1>1, <1>2 DEF FrozenOK, IsApproving
<1>3. CASE CrashCall(q)
  BY <1>2, <1>3, RollbackKeeps DEF CrashCall, OpenCalls
<1>4. CASE RunCall(q) /\ ~CommitCall(q)
  BY <1>2, <1>4, RunKeeps
<1>5. CASE CommitCall(q)
  <2> SUFFICES ASSUME BeyondDraft(ContractStatusOf(k)') \/ (\E r \in Calls : IsApproving(r, k)')
               PROVE  /\ \A r \in Calls : CallOp[r] \in Editing /\ CallContract[r] = k =>
                           call'[r].pc \notin CallWorking
                      /\ LinesOf(k)' # {}
    BY DEF FrozenOK
  <2>1. BeyondDraft(ContractStatusOf(k)) \/ (\E r \in Calls : IsApproving(r, k))
    BY <1>5, FrozenBefore
  <2>2. LinesOf(k)' = LinesOf(k)
    BY <1>5, <2>1, FrozenCommit
  <2>3. \A r \in Calls : call'[r].pc \in CallWorking => call[r].pc \in CallWorking
    <3>1. call' = [call EXCEPT ![q] = CallAt("ended")] /\ CallAt("ended").pc \notin CallWorking
      BY <1>5, CallAtType DEF CommitCall, CallWorking
    <3> QED
      BY <3>1 DEF AssemblyInv, AssemblyTypes
  <2> QED
    BY <1>0, <2>1, <2>2, <2>3 DEF FrozenOK
<1>6. CASE BeginCall(q)
  <2>1. Keeps(q) /\ call[q].pc = "new" /\ Begins(q, CallOp[q])
    BY <1>6, BeginKeeps
  <2>2. /\ \A r \in Calls : call[r].pc \in CallWorking => {q, r} \notin Exclusive
        /\ call[q].pc \notin CallWorking
    BY <2>1 DEF Begins, OpenCalls, CallWorking
  <2>3. CASE CallOp[q] \in Editing /\ CallContract[q] = k
    <3>1. Contract(q).status = "draft"
      BY <1>6, <2>3 DEF BeginCall, Create, AddClause, RunRules, RemoveClause, Reorder,
         EditClauseText, Resnapshot, UpdateContract, RunTransition, Revise, Begins,
         RequireDraft, Editing
    <3>2. ContractStatusOf(k) = "draft"
      BY <2>1, <2>3, <3>1, BeginsWith DEF ContractStatusOf
    <3>3. \A r \in Calls : ~IsApproving(r, k)
      BY <2>2, <2>3 DEF EditsApart, IsApproving
    <3>4. ~IsApproving(q, k)'
      BY <2>3 DEF IsApproving, Editing
    <3> QED
      BY <1>1, <2>1, <3>2, <3>3, <3>4 DEF FrozenOK, BeyondDraft
  <2>4. CASE CallOp[q] = "approve" /\ CallContract[q] = k
    <3>1. OwnLines(q) # {}
      BY <1>6, <2>4 DEF BeginCall, Create, AddClause, RunRules, RemoveClause, Reorder,
         EditClauseText, Resnapshot, UpdateContract, RunTransition, Revise, Begins,
         HasClauses
    <3>2. OwnLines(q) = LinesOf(k)
      BY <1>0, <2>1, <2>4, BeginsWith DEF OwnLines, Listed, LinesOf, Quoted
    <3>3. \A r \in Calls : CallOp[r] \in Editing /\ CallContract[r] = k =>
            call'[r].pc \notin CallWorking
      <4> SUFFICES ASSUME NEW r \in Calls, CallOp[r] \in Editing, CallContract[r] = k,
                          call'[r].pc \in CallWorking
                   PROVE  FALSE
        OBVIOUS
      <4>1. r # q
        BY <2>4 DEF Editing
      <4>2. {r, q} \in Exclusive /\ {r, q} = {q, r}
        BY <2>4 DEF EditsApart
      <4> QED
        BY <1>1, <2>1, <2>2, <4>1, <4>2
    <3> QED
      BY <1>1, <2>1, <3>1, <3>2, <3>3 DEF FrozenOK
  <2>5. CASE ~(CallContract[q] = k /\ CallOp[q] \in Editing \cup {"approve"})
    BY <1>0, <1>1, <2>1, <2>5 DEF FrozenOK, IsApproving
  <2> QED
    BY <2>3, <2>4, <2>5
<1> QED
  BY <1>3, <1>4, <1>5, <1>6

LEMMA FrozenInvariant ==
  ASSUME EditsApart
  PROVE  Spec => [](AssemblyInv /\ FrozenInv)
<1>1. Init => FrozenInv
  <2> SUFFICES ASSUME Init, NEW k \in Contracts PROVE FrozenOK(k)
    BY DEF FrozenInv
  <2>1. \A q \in Calls : call[q].pc \notin CallWorking
    BY CallAtType DEF Init, CallWorking
  <2>2. ~BeyondDraft(ContractStatusOf(k))
    BY FreshRow DEF Init, ContractStatusOf, BeyondDraft
  <2> QED
    BY <2>1, <2>2 DEF FrozenOK, IsApproving
<1>2. AssemblyInv /\ FrozenInv /\ [Next]_vars => FrozenInv'
  <2> SUFFICES ASSUME AssemblyInv, FrozenInv, [Next]_vars PROVE FrozenInv'
    OBVIOUS
  <2>1. CASE UNCHANGED assembly
    BY <2>1 DEF assembly, FrozenInv, FrozenOK, ContractStatusOf, IsApproving, LinesOf, Quoted
  <2>2. CASE AssemblyNext
    BY <2>2, FrozenStep
  <2> QED
    BY <2>1, <2>2 DEF Next, vars
<1> QED
  BY <1>1, <1>2, AssemblyInvariant, PTL DEF Spec

\* An approved contract has clauses (ApprovedHasClauses), if no edit of it
\* overlaps its approval: then the test for clauses, a statement of its own,
\* still holds when the status is written.
THEOREM ApprovedKeepsClauses ==
  ASSUME EditsApart
  PROVE  Spec => []ApprovedHasClauses
<1>1. FrozenInv => ApprovedHasClauses
  BY DEF FrozenInv, FrozenOK, BeyondDraft, ApprovedHasClauses
<1> QED
  BY <1>1, FrozenInvariant, PTL

\* From its approval on a contract keeps its lines and its terms
\* (ApprovedIsFrozen), if no edit of it overlaps its approval: every call that
\* edits it begins with requireDraft, and no statement tests the status again.
THEOREM ApprovedStaysFrozen ==
  ASSUME EditsApart
  PROVE  Spec => ApprovedIsFrozen
<1> DEFINE Frozen(k) ==
      ContractStatusOf(k) \notin {"none", "draft"} =>
        /\ contracts'[k].com.terms = contracts[k].com.terms
        /\ LinesOf(k)' = LinesOf(k)
        /\ \A l \in LinesOf(k) : lines'[l].com = lines[l].com
<1>1. AssemblyInv /\ FrozenInv /\ [Next]_vars => [\A k \in Contracts : Frozen(k)]_vars
  <2> SUFFICES ASSUME AssemblyInv, FrozenInv, [Next]_vars, NEW k \in Contracts,
                      ContractStatusOf(k) \notin {"none", "draft"}
               PROVE  /\ contracts'[k].com.terms = contracts[k].com.terms
                      /\ LinesOf(k)' = LinesOf(k)
                      /\ \A l \in LinesOf(k) : lines'[l].com = lines[l].com
    OBVIOUS
  <2>1. CASE UNCHANGED assembly
    BY <2>1 DEF assembly, LinesOf, Quoted
  <2>2. ASSUME NEW q \in Calls, Keeps(q)
        PROVE  /\ contracts'[k].com.terms = contracts[k].com.terms
               /\ LinesOf(k)' = LinesOf(k)
               /\ \A l \in LinesOf(k) : lines'[l].com = lines[l].com
    BY <2>2 DEF Keeps, LinesOf, Quoted
  <2>3. ASSUME NEW q \in Calls, CommitCall(q)
        PROVE  /\ contracts'[k].com.terms = contracts[k].com.terms
               /\ LinesOf(k)' = LinesOf(k)
               /\ \A l \in LinesOf(k) : lines'[l].com = lines[l].com
    BY <2>3, FrozenCommit DEF BeyondDraft
  <2> QED
    BY <2>1, <2>2, <2>3, BeginKeeps, RunKeeps, RollbackKeeps
       DEF Next, vars, AssemblyNext, CrashCall
<1> QED
  BY <1>1, FrozenInvariant, PTL DEF ApprovedIsFrozen, Spec
=============================================================================
