----------------------------- MODULE ClauseProofs -----------------------------
(***************************************************************************)
(* Proofs, for any clauses, versions and requests, that the versions of a  *)
(* clause are numbered without a gap and that exactly one of them is in    *)
(* force once one has been, whoever promotes, approves twice, fails or     *)
(* deadlocks meanwhile.                                                    *)
(***************************************************************************)
EXTENDS ClauseProperties, TLAPS, FiniteSetTheorems

InForce == {"active", "superseded"}

Promoting == {"findActive", "supersede", "activate"}

\* The committed versions of a clause.
RowsOf(c) == {v \in Versions : ClauseOf[v] = c /\ Status(v) # "none"}

Numbered(c) == Cardinality(RowsOf(c))

LibTypes ==
  /\ today \in FirstDay..LastDay
  /\ versions \in [Versions -> Versioned(VersionRow, Requests)]
  /\ tx \in [Requests -> TxState]

\* What is known of a row by itself.  A row that is not committed belongs to
\* the request that adds it; one that is keeps its number.
VersionOK(v) ==
  LET row == versions[v] IN
  /\ row.lock = Nobody => row.cur = row.com
  /\ row.cur.status = "none" => row = Fresh(NoRow)
  /\ row.com.status = "none" =>
       /\ row.com = NoRow
       /\ row.lock # Nobody => /\ Op[row.lock] = "addVersion"
                               /\ Target[row.lock] = v
                               /\ row.cur.number = Numbered(ClauseOf[v]) + 1
  /\ row.com.status # "none" => row.cur.number = row.com.number
  /\ row.com.status \notin {"none", "draft"} => row.cur.status # "draft"
  /\ {row.com.status, row.cur.status} \cap InForce # {} => EffectiveFrom[v] <= today

\* What the two unique indexes and the waiting for undecided entries ensure:
\* while one version is active in a transaction's eyes, another can only be
\* committed as active if the same transaction has superseded it.
PairOK(v, w) ==
  LET rv == versions[v]
      rw == versions[w]
  IN
  /\ ~(rv.com.status = "active" /\ rw.com.status = "active")
  /\ ~(rv.cur.status = "active" /\ rw.cur.status = "active")
  /\ rv.cur.status = "active" /\ rw.com.status = "active" =>
       rv.lock # Nobody /\ rv.lock = rw.lock
  /\ ~(/\ rv.com.status = "none" /\ rv.lock # Nobody
       /\ rw.com.status = "none" /\ rw.lock # Nobody)

\* The committed versions of a clause.
ClauseOK(c) ==
  /\ {versions[v].com.number : v \in RowsOf(c)} = 1..Numbered(c)
  /\ (\E v \in RowsOf(c) : Status(v) = "superseded") =>
        \E v \in RowsOf(c) : Status(v) = "active"

HasActive(q, v) ==
  \E w \in Siblings(v) : versions[w].lock = q /\ versions[w].cur.status = "active"

\* What a transaction owes for a row it has written: a version that it has
\* superseded has a successor, and one that it set back to approved although
\* it is in force is among those it promotes.
OwedOK(q, v) ==
  /\ versions[v].cur.status = "superseded" =>
       \/ HasActive(q, v)
       \/ At(q, "activate") /\ tx[q].version \in Siblings(v)
  /\ versions[v].cur.status = "approved" /\ versions[v].com.status \in InForce =>
       \/ At(q, "findDue")
       \/ tx[q].pc \in Promoting /\ v \in tx[q].due

\* What a handler knows at each statement.
HandlerOK(q) ==
  LET t == tx[q] IN
  /\ t.pc \in {"new", "ended", "findMax", "insert", "approve"} =>
       \A v \in Versions : versions[v].lock # q
  /\ t.pc \in {"findMax", "insert"} => Op[q] = "addVersion"
  /\ t.pc \in {"new", "findMax", "insert"} /\ Op[q] = "addVersion" =>
       versions[Target[q]] = Fresh(NoRow)
  /\ t.pc = "insert" => t.max <= Numbered(ClauseOf[Target[q]])
  /\ t.pc = "commit" /\ Op[q] = "addVersion" =>
       Status(Target[q]) = "none" /\ versions[Target[q]].lock = q
  /\ t.pc \in {"approve", "findDue"} => Op[q] = "approveVersion"
  /\ t.pc = "approve" => Status(Target[q]) # "none"
  /\ t.pc = "findDue" => \A v \in Versions : versions[v].lock = q =>
                            v = Target[q] /\ versions[v].cur.status = "approved"
  /\ t.pc \in Promoting =>
       /\ Op[q] # "addVersion"
       /\ \A v \in t.due : Status(v) # "none" /\ EffectiveFrom[v] <= today
  /\ t.pc \in {"supersede", "activate"} => t.version \in t.due
  /\ t.pc = "supersede" =>
       /\ t.prior \in Siblings(t.version) \ {t.version}
       /\ Status(t.prior) # "none" /\ EffectiveFrom[t.prior] <= today
  /\ \A v \in Versions : versions[v].lock = q => OwedOK(q, v)

RowsInv     == \A v \in Versions : VersionOK(v)
PairsInv    == \A v \in Versions : \A w \in Siblings(v) \ {v} : PairOK(v, w)
ClausesInv  == \A c \in Clauses : ClauseOK(c)
HandlersInv == \A q \in Requests : HandlerOK(q)

LibraryInv == LibTypes /\ RowsInv /\ PairsInv /\ ClausesInv /\ HandlersInv

-----------------------------------------------------------------------------
(* Rows and handlers. *)

LEMMA TargetType ==
  ASSUME NEW q \in Requests, Op[q] \in {"addVersion", "approveVersion"}
  PROVE  Target[q] \in Versions
BY RequestAssumption DEF Promoters

LEMMA NobodyIsNobody == Nobody \notin Requests /\ Nobody \notin Versions
BY RequestAssumption

LEMMA RowType ==
  ASSUME LibTypes, NEW v \in Versions
  PROVE  /\ versions[v] = [com |-> versions[v].com, cur |-> versions[v].cur,
                           lock |-> versions[v].lock]
         /\ versions[v].lock \in Requests \cup {Nobody}
         /\ versions[v].com \in VersionRow
         /\ versions[v].cur \in VersionRow
         /\ versions[v].com.status \in VersionStatus
         /\ versions[v].cur.status \in VersionStatus
         /\ versions[v].com.number \in Nat
         /\ versions[v].cur.number \in Nat
         /\ EffectiveFrom[v] \in 1..LastDay
<1>1. versions[v] \in Versioned(VersionRow, Requests)
  BY DEF LibTypes
<1>2. Cardinality(Versions) \in Nat
  BY FS_CardinalityType, LibraryAssumption
<1> QED
  BY <1>1, <1>2, LibraryAssumption DEF Versioned, VersionRow

LEMMA NumberedType ==
  ASSUME NEW c
  PROVE  /\ IsFiniteSet(RowsOf(c))
         /\ Numbered(c) \in Nat
         /\ Numbered(c) <= Cardinality(Versions)
<1>1. RowsOf(c) \in SUBSET Versions
  BY DEF RowsOf
<1> QED
  BY <1>1, FS_Subset, FS_CardinalityType, LibraryAssumption DEF Numbered

LEMMA OneMoreNumber ==
  ASSUME NEW v \in Versions, Status(v) = "none"
  PROVE  Numbered(ClauseOf[v]) + 1 <= Cardinality(Versions)
<1> DEFINE rows == RowsOf(ClauseOf[v])
<1>1. v \notin rows /\ rows \cup {v} \in SUBSET Versions
  BY DEF RowsOf
<1>2. Cardinality(rows \cup {v}) = Cardinality(rows) + 1
  BY <1>1, NumberedType, FS_AddElement
<1>3. Cardinality(rows \cup {v}) <= Cardinality(Versions)
  BY <1>1, FS_Subset, LibraryAssumption
<1> QED
  BY <1>2, <1>3 DEF Numbered

LEMMA TxAtType ==
  ASSUME NEW pc \in {"new", "ended"} \cup Working
  PROVE  TxAt(pc) \in TxState /\ TxAt(pc).pc = pc
<1>1. Cardinality(Versions) \in Nat
  BY FS_CardinalityType, LibraryAssumption
<1> QED
  BY <1>1 DEF TxAt, TxState

\* The table after a transaction has ended.
LEMMA EndedRows ==
  ASSUME LibTypes, NEW q \in Requests
  PROVE  /\ CommittedAll(q, versions) \in [Versions -> Versioned(VersionRow, Requests)]
         /\ RolledBackAll(q, versions) \in [Versions -> Versioned(VersionRow, Requests)]
         /\ \A v \in Versions : versions[v].lock = q =>
              /\ CommittedAll(q, versions)[v] = Fresh(versions[v].cur)
              /\ RolledBackAll(q, versions)[v] = Fresh(versions[v].com)
         /\ \A v \in Versions : versions[v].lock # q =>
              /\ CommittedAll(q, versions)[v] = versions[v]
              /\ RolledBackAll(q, versions)[v] = versions[v]
BY DEF LibTypes, CommittedAll, RolledBackAll, Committed, RolledBack, Fresh, Versioned

LEMMA FreshRow ==
  ASSUME NEW row
  PROVE  Fresh(row).com = row /\ Fresh(row).cur = row /\ Fresh(row).lock = Nobody
BY DEF Fresh

LEMMA SiblingsSymmetric ==
  ASSUME NEW v \in Versions, NEW w \in Siblings(v)
  PROVE  w \in Versions /\ ClauseOf[w] = ClauseOf[v] /\ v \in Siblings(w)
BY DEF Siblings

-----------------------------------------------------------------------------
(* What one transaction does leaves the handlers of the others as they are. *)

\* Rows that another transaction holds do not change, numbers are only added,
\* and a row that is to be inserted is inserted by its own request only.
LEMMA OtherHandlers ==
  ASSUME LibraryInv, LibTypes', NEW q \in Requests, NEW r \in Requests, r # q,
         tx'[r] = tx[r], today' = today,
         \A v \in Versions :
           \/ versions'[v] = versions[v]
           \/ /\ versions[v].lock \in {Nobody, q}
              /\ versions'[v].lock \in {Nobody, q}
              /\ Status(v) # "none" => Status(v)' # "none"
              /\ versions[v] = Fresh(NoRow) => Op[q] = "addVersion" /\ v = Target[q]
  PROVE  HandlerOK(r)'
<1>1. HandlerOK(r) /\ r # Nobody
  BY NobodyIsNobody DEF LibraryInv, HandlersInv
<1>2. \A v \in Versions :
        /\ versions'[v].lock = r => versions'[v] = versions[v]
        /\ versions[v].lock = r => versions'[v] = versions[v]
        /\ Status(v) # "none" => Status(v)' # "none"
  BY <1>1 DEF Status
<1>3. Op[r] = "addVersion" /\ versions[Target[r]] = Fresh(NoRow)
        => versions'[Target[r]] = Fresh(NoRow)
  BY TargetType, RequestAssumption
<1>4. \A c : Numbered(c) <= Numbered(c)' /\ Numbered(c)' \in Nat /\ Numbered(c) \in Nat
  <2> TAKE c
  <2>1. RowsOf(c) \in SUBSET RowsOf(c)'
    BY <1>2 DEF RowsOf
  <2>2. IsFiniteSet(RowsOf(c)') /\ RowsOf(c)' \in SUBSET Versions
    BY FS_Subset, LibraryAssumption DEF RowsOf
  <2> QED
    BY <2>1, <2>2, FS_Subset, FS_CardinalityType DEF Numbered
<1>5. \A v \in Versions : versions'[v].lock = r => OwedOK(r, v)'
  <2> SUFFICES ASSUME NEW v \in Versions, versions'[v].lock = r PROVE OwedOK(r, v)'
    OBVIOUS
  <2>1. versions'[v] = versions[v] /\ OwedOK(r, v)
    BY <1>1, <1>2 DEF HandlerOK
  <2>2. HasActive(r, v) => HasActive(r, v)'
    BY <1>2 DEF HasActive, Siblings
  <2> QED
    BY <2>1, <2>2 DEF OwedOK, At, Siblings
<1>6. tx[r] \in TxState
  BY DEF LibraryInv, LibTypes
<1>7. tx[r].due \subseteq Versions /\ tx[r].max \in Nat /\ tx[r].prior \in Versions \cup {Nobody}
  BY <1>6, FS_CardinalityType, LibraryAssumption DEF TxState
<1>a. \A v \in Siblings(tx[r].version) : v \in Versions
  BY DEF Siblings
<1> QED
  <2> DEFINE t == tx[r]
  <2>1. t.pc \in {"new", "ended", "findMax", "insert", "approve"} =>
          \A v \in Versions : versions'[v].lock # r
    BY <1>1, <1>2 DEF HandlerOK
  <2>2. t.pc \in {"new", "findMax", "insert"} /\ Op[r] = "addVersion" =>
          versions'[Target[r]] = Fresh(NoRow)
    BY <1>1, <1>3 DEF HandlerOK
  <2>3. t.pc = "insert" => t.max <= Numbered(ClauseOf[Target[r]])'
    BY <1>1, <1>4, <1>7 DEF HandlerOK
  <2>4. t.pc = "commit" /\ Op[r] = "addVersion" =>
          Status(Target[r])' = "none" /\ versions'[Target[r]].lock = r
    BY <1>1, <1>2, TargetType DEF HandlerOK, Status
  <2>5. t.pc = "approve" => Status(Target[r])' # "none"
    BY <1>1, <1>2, TargetType DEF HandlerOK
  <2>6. t.pc = "findDue" => \A v \in Versions : versions'[v].lock = r =>
                              v = Target[r] /\ versions'[v].cur.status = "approved"
    BY <1>1, <1>2 DEF HandlerOK
  <2>7. t.pc \in Promoting =>
          /\ Op[r] # "addVersion"
          /\ \A v \in t.due : Status(v)' # "none" /\ EffectiveFrom[v] <= today
    BY <1>1, <1>2, <1>7 DEF HandlerOK
  <2>8. t.pc = "supersede" =>
          /\ t.prior \in Siblings(t.version) \ {t.version}
          /\ Status(t.prior)' # "none" /\ EffectiveFrom[t.prior] <= today
    BY <1>1, <1>2, <1>a DEF HandlerOK
  <2>9. /\ t.pc \in {"findMax", "insert"} => Op[r] = "addVersion"
        /\ t.pc \in {"approve", "findDue"} => Op[r] = "approveVersion"
        /\ t.pc \in {"supersede", "activate"} => t.version \in t.due
    BY <1>1 DEF HandlerOK
  <2> QED
    BY <1>5, <2>1, <2>2, <2>3, <2>4, <2>5, <2>6, <2>7, <2>8, <2>9
       DEF HandlerOK, Siblings, Promoting

-----------------------------------------------------------------------------
LEMMA InitInv == LibraryInit => LibraryInv
<1> SUFFICES ASSUME LibraryInit PROVE LibraryInv
  OBVIOUS
<1>1. \A c \in Clauses :
        /\ RowsOf(c) = {v \in Stored : ClauseOf[v] = c}
        /\ \A v \in RowsOf(c) : StoredNumber[v] \in 1..Numbered(c)
        /\ {StoredNumber[v] : v \in RowsOf(c)} = 1..Numbered(c)
  <2> TAKE c \in Clauses
  <2>1. RowsOf(c) = {v \in Stored : ClauseOf[v] = c}
    BY LibraryAssumption, StoredAssumption
       DEF RowsOf, LibraryInit, Status, Fresh, StoredRow, NoRow
  <2>2. {StoredNumber[v] : v \in RowsOf(c)} = 1..Numbered(c)
    BY <2>1, StoredAssumption DEF Numbered
  <2> QED
    BY <2>1, <2>2
<1>2. ASSUME NEW v \in Versions
      PROVE  /\ versions[v] \in Versioned(VersionRow, Requests)
             /\ versions[v] = Fresh(versions[v].com)
             /\ v \in Stored => versions[v].com = StoredRow(v)
             /\ v \notin Stored => versions[v].com = NoRow
             /\ versions[v].lock = Nobody
             /\ versions[v].cur = versions[v].com
  <2> DEFINE row == IF v \in Stored THEN StoredRow(v) ELSE NoRow
  <2>1. versions[v] = Fresh(row)
    BY DEF LibraryInit
  <2>2. Cardinality(Versions) \in Nat
    BY FS_CardinalityType, LibraryAssumption
  <2>3. NoRow \in VersionRow
    BY <2>2, LibraryAssumption DEF NoRow, VersionRow, VersionStatus
  <2>4. v \in Stored => StoredRow(v) \in VersionRow
    <3> SUFFICES ASSUME v \in Stored PROVE StoredRow(v) \in VersionRow
      OBVIOUS
    <3> DEFINE c == ClauseOf[v]
    <3>1. c \in Clauses /\ v \in RowsOf(c)
      BY <1>1, LibraryAssumption
    <3>2. StoredNumber[v] \in 1..Numbered(c)
      BY <1>1, <3>1
    <3>3. StoredNumber[v] \in 0..Cardinality(Versions)
      BY <2>2, <3>2, NumberedType
    <3> QED
      BY <3>3, LibraryAssumption DEF StoredRow, VersionRow
  <2>5. row \in VersionRow
    BY <2>3, <2>4
  <2>6. versions[v].com = row
    BY <2>1, FreshRow
  <2> HIDE DEF row
  <2>7. versions[v] \in Versioned(VersionRow, Requests)
    BY <2>1, <2>5 DEF Fresh, Versioned
  <2>8. versions[v].lock = Nobody /\ versions[v].cur = row
    BY <2>1, FreshRow
  <2> QED
    BY <2>1, <2>6, <2>7, <2>8 DEF row
<1>3. LibTypes
  <2>1. \A q \in Requests : TxAt("new") \in TxState
    BY TxAtType
  <2> QED
    BY <1>2, <2>1, LibraryAssumption DEF LibTypes, LibraryInit
<1>4. \A v \in Versions :
        /\ v \in Stored => /\ Status(v) = StoredStatus[v]
                           /\ versions[v].com.number = StoredNumber[v]
        /\ v \notin Stored => Status(v) = "none"
  <2> TAKE v \in Versions
  <2>1. /\ StoredRow(v).status = StoredStatus[v]
        /\ StoredRow(v).number = StoredNumber[v]
        /\ NoRow.status = "none"
    BY DEF StoredRow, NoRow
  <2>2. /\ v \in Stored => versions[v].com = StoredRow(v)
        /\ v \notin Stored => versions[v].com = NoRow
    BY <1>2
  <2> QED
    BY <2>1, <2>2 DEF Status
<1>5. RowsInv
  <2> SUFFICES ASSUME NEW v \in Versions PROVE VersionOK(v)
    BY DEF RowsInv
  <2>1. v \in Stored => StoredStatus[v] # "none"
    BY LibraryAssumption
  <2>2. Status(v) \in InForce => EffectiveFrom[v] <= today
    BY <1>4, StoredAssumption DEF LibraryInit, InForce
  <2> QED
    BY <1>2, <1>4, <2>1, <2>2 DEF VersionOK, Status, InForce
<1>6. PairsInv
  <2> SUFFICES ASSUME NEW v \in Versions, NEW w \in Siblings(v) \ {v}
               PROVE  PairOK(v, w)
    BY DEF PairsInv
  <2>1. ~(Status(v) = "active" /\ Status(w) = "active")
    BY <1>4, LibraryAssumption DEF Siblings
  <2> QED
    BY <1>2, <2>1 DEF PairOK, Siblings, Status
<1>7. ClausesInv
  <2> SUFFICES ASSUME NEW c \in Clauses PROVE ClauseOK(c)
    BY DEF ClausesInv
  <2>1. {versions[v].com.number : v \in RowsOf(c)} = 1..Numbered(c)
    BY <1>1, <1>4, LibraryAssumption
  <2>2. ASSUME NEW v \in RowsOf(c), Status(v) = "superseded"
        PROVE  \E w \in RowsOf(c) : Status(w) = "active"
    BY <1>1, <1>4, <2>2, StoredAssumption, LibraryAssumption
  <2> QED
    BY <2>1, <2>2 DEF ClauseOK
<1>8. HandlersInv
  <2> SUFFICES ASSUME NEW q \in Requests PROVE HandlerOK(q)
    BY DEF HandlersInv
  <2>1. tx[q].pc = "new"
    BY TxAtType DEF LibraryInit
  <2>2. \A v \in Versions : versions[v].lock # q
    BY <1>2, NobodyIsNobody
  <2>3. Op[q] = "addVersion" => versions[Target[q]] = Fresh(NoRow)
    BY <1>2, TargetType, RequestAssumption
  <2> QED
    BY <2>1, <2>2, <2>3 DEF HandlerOK, Promoting
<1> QED
  BY <1>3, <1>5, <1>6, <1>7, <1>8 DEF LibraryInv

-----------------------------------------------------------------------------
(* Kinds of steps. *)

\* A step that only moves the handler of q.
LEMMA HandlerStep ==
  ASSUME LibraryInv, NEW q \in Requests, NEW t \in TxState,
         tx' = [tx EXCEPT ![q] = t], UNCHANGED <<today, versions>>, HandlerOK(q)'
  PROVE  LibraryInv'
<1>1. LibTypes'
  BY DEF LibraryInv, LibTypes
<1>2. \A r \in Requests \ {q} : tx'[r] = tx[r]
  BY DEF LibraryInv, LibTypes
<1>3. RowsInv' /\ PairsInv' /\ ClausesInv'
  <2>1. \A c : Numbered(c)' = Numbered(c) /\ RowsOf(c)' = RowsOf(c)
    BY DEF Numbered, RowsOf, Status
  <2>2. RowsInv'
    BY <2>1 DEF LibraryInv, RowsInv, VersionOK
  <2>3. PairsInv'
    BY DEF LibraryInv, PairsInv, PairOK, Siblings
  <2>4. ClausesInv'
    BY <2>1 DEF LibraryInv, ClausesInv, ClauseOK, Status
  <2> QED
    BY <2>2, <2>3, <2>4
<1>4. HandlersInv'
  BY <1>1, <1>2, OtherHandlers DEF HandlersInv
<1> QED
  BY <1>1, <1>3, <1>4 DEF LibraryInv

\* A step in which q locks v and writes row.
LEMMA WriteStep ==
  ASSUME LibraryInv, NEW q \in Requests, NEW t \in TxState, NEW v \in Versions,
         NEW row \in VersionRow,
         tx' = [tx EXCEPT ![q] = t], Update(q, v, row), today' = today,
         Lockable(q, versions[v]),
         versions[v] = Fresh(NoRow) => Op[q] = "addVersion" /\ v = Target[q],
         VersionOK(v)', HandlerOK(q)',
         \A w \in Siblings(v) \ {v} : PairOK(v, w)' /\ PairOK(w, v)'
  PROVE  LibraryInv'
<1>1. /\ versions'[v] = [com |-> versions[v].com, cur |-> row, lock |-> q]
      /\ \A w \in Versions \ {v} : versions'[w] = versions[w]
      /\ \A w \in Versions : versions'[w].com = versions[w].com
  BY DEF LibraryInv, LibTypes, Update, Put
<1>2. \A r \in Requests \ {q} : tx'[r] = tx[r]
  BY DEF LibraryInv, LibTypes
<1>3. LibTypes'
  <2>1. versions'[v] \in Versioned(VersionRow, Requests)
    <3>1. versions[v].com \in VersionRow
      BY RowType DEF LibraryInv
    <3> QED
      BY <1>1, <3>1 DEF Versioned
  <2>2. versions' \in [Versions -> Versioned(VersionRow, Requests)]
    BY <1>1, <2>1 DEF LibraryInv, LibTypes, Update
  <2> QED
    BY <2>2 DEF LibraryInv, LibTypes
<1>4. /\ \A w \in Versions : Status(w)' = Status(w)
      /\ \A c : RowsOf(c)' = RowsOf(c) /\ Numbered(c)' = Numbered(c)
  BY <1>1 DEF Status, RowsOf, Numbered
<1>5. RowsInv'
  <2> SUFFICES ASSUME NEW w \in Versions \ {v} PROVE VersionOK(w)'
    BY DEF RowsInv
  <2>1. VersionOK(w)
    BY DEF LibraryInv, RowsInv
  <2> QED
    BY <1>1, <1>4, <2>1 DEF VersionOK
<1>6. PairsInv'
  <2> SUFFICES ASSUME NEW w \in Versions, NEW x \in Siblings(w) \ {w}
               PROVE  PairOK(w, x)'
    BY DEF PairsInv, Siblings
  <2>1. CASE w = v \/ x = v
    BY <2>1, SiblingsSymmetric
  <2>2. CASE w # v /\ x # v
    BY <1>1, <2>2 DEF LibraryInv, PairsInv, PairOK, Siblings
  <2> QED
    BY <2>1, <2>2
<1>7. ClausesInv'
  <2> SUFFICES ASSUME NEW c \in Clauses PROVE ClauseOK(c)'
    BY DEF ClausesInv
  <2>1. ClauseOK(c) /\ RowsOf(c) \subseteq Versions
    BY DEF LibraryInv, ClausesInv, RowsOf
  <2>2. {versions'[w].com.number : w \in RowsOf(c)} = {versions[w].com.number : w \in RowsOf(c)}
    BY <1>1, <2>1
  <2> QED
    BY <1>4, <2>1, <2>2 DEF ClauseOK
<1>8. HandlersInv'
  <2> SUFFICES ASSUME NEW r \in Requests \ {q} PROVE HandlerOK(r)'
    BY DEF HandlersInv
  <2>1. \A w \in Versions :
          \/ versions'[w] = versions[w]
          \/ /\ versions[w].lock \in {Nobody, q}
             /\ versions'[w].lock \in {Nobody, q}
             /\ Status(w) # "none" => Status(w)' # "none"
             /\ versions[w] = Fresh(NoRow) => Op[q] = "addVersion" /\ w = Target[q]
    <3>1. versions[v].lock \in {Nobody, q} /\ versions'[v].lock = q
      BY <1>1 DEF Lockable
    <3> QED
      BY <1>1, <1>4, <3>1
  <2> QED
    BY <1>2, <1>3, <2>1, OtherHandlers
<1> QED
  BY <1>3, <1>5, <1>6, <1>7, <1>8 DEF LibraryInv

-----------------------------------------------------------------------------
(* The end of a transaction. *)

LEMMA RollbackInv ==
  ASSUME LibraryInv, NEW q \in Requests, tx[q].pc \in Working, Rollback(q)
  PROVE  LibraryInv'
<1>1. /\ versions' = RolledBackAll(q, versions)
      /\ tx' = [tx EXCEPT ![q] = TxAt("new")]
      /\ today' = today
      /\ LibTypes
  BY DEF Rollback, LibraryInv
<1>2. /\ \A v \in Versions : versions[v].lock = q =>
           versions'[v] = Fresh(versions[v].com)
      /\ \A v \in Versions : versions[v].lock # q => versions'[v] = versions[v]
      /\ \A v \in Versions : versions'[v].com = versions[v].com
  BY <1>1, EndedRows, FreshRow
<1>3. /\ tx'[q].pc = "new"
      /\ \A r \in Requests \ {q} : tx'[r] = tx[r]
  BY <1>1, TxAtType DEF LibTypes
<1>4. LibTypes'
  BY <1>1, EndedRows, TxAtType DEF LibTypes
<1>5. /\ \A v \in Versions : Status(v)' = Status(v)
      /\ \A c : RowsOf(c)' = RowsOf(c) /\ Numbered(c)' = Numbered(c)
  BY <1>2 DEF Status, RowsOf, Numbered
<1>6. RowsInv'
  <2> SUFFICES ASSUME NEW v \in Versions PROVE VersionOK(v)'
    BY DEF RowsInv
  <2>1. VersionOK(v)
    BY DEF LibraryInv, RowsInv
  <2>2. CASE versions[v].lock = q
    <3>1. /\ versions'[v] = Fresh(versions[v].com)
          /\ versions'[v].com = versions[v].com
          /\ versions'[v].cur = versions[v].com
          /\ versions'[v].lock = Nobody
      BY <1>2, <2>2, FreshRow
    <3> QED
      BY <1>1, <1>5, <2>1, <3>1 DEF VersionOK
  <2>3. CASE versions[v].lock # q
    BY <1>1, <1>2, <1>5, <2>1, <2>3 DEF VersionOK
  <2> QED
    BY <2>2, <2>3
<1>7. PairsInv'
  <2> SUFFICES ASSUME NEW v \in Versions, NEW w \in Siblings(v) \ {v}
               PROVE  PairOK(v, w)'
    BY DEF PairsInv, Siblings
  <2>1. PairOK(v, w) /\ PairOK(w, v) /\ w \in Versions
    BY SiblingsSymmetric DEF LibraryInv, PairsInv
  <2>2. ASSUME NEW x \in {v, w}
        PROVE  \/ versions'[x] = versions[x] /\ versions[x].lock # q
               \/ /\ versions[x].lock = q
                  /\ versions'[x].com = versions[x].com
                  /\ versions'[x].cur = versions[x].com
                  /\ versions'[x].lock = Nobody
    BY <1>2, <2>1, FreshRow
  <2> QED
    BY <2>1, <2>2, NobodyIsNobody DEF PairOK
<1>8. ClausesInv'
  <2> SUFFICES ASSUME NEW c \in Clauses PROVE ClauseOK(c)'
    BY DEF ClausesInv
  <2>1. ClauseOK(c) /\ RowsOf(c) \subseteq Versions
    BY DEF LibraryInv, ClausesInv, RowsOf
  <2>2. {versions'[w].com.number : w \in RowsOf(c)} = {versions[w].com.number : w \in RowsOf(c)}
    BY <1>2, <2>1
  <2> QED
    BY <1>5, <2>1, <2>2 DEF ClauseOK
<1>9. HandlersInv'
  <2> SUFFICES ASSUME NEW r \in Requests PROVE HandlerOK(r)'
    BY DEF HandlersInv
  <2>1. CASE r = q
    <3>1. \A v \in Versions : versions'[v].lock # q
      BY <1>2, FreshRow, NobodyIsNobody
    <3>2. ASSUME Op[q] = "addVersion"
          PROVE  versions'[Target[q]] = Fresh(NoRow)
      <4> DEFINE v == Target[q]
      <4>1. HandlerOK(q) /\ v \in Versions /\ VersionOK(v)
        BY <3>2, TargetType DEF LibraryInv, HandlersInv, RowsInv
      <4>2. tx[q].pc \in {"findMax", "insert", "commit"}
        BY <3>2, <4>1 DEF HandlerOK, Working, Promoting
      <4>3. CASE tx[q].pc \in {"findMax", "insert"}
        <5>1. versions[v] = Fresh(NoRow) /\ versions[v].lock # q
          BY <3>2, <4>1, <4>3 DEF HandlerOK
        <5> QED
          BY <1>2, <4>1, <5>1
      <4>4. CASE tx[q].pc = "commit"
        <5>1. versions[v].lock = q /\ versions[v].com = NoRow
          BY <3>2, <4>1, <4>4 DEF HandlerOK, VersionOK, Status
        <5> QED
          BY <1>2, <4>1, <5>1
      <4> QED
        BY <4>2, <4>3, <4>4
    <3> QED
      BY <1>3, <2>1, <3>1, <3>2 DEF HandlerOK, Promoting
  <2>2. CASE r # q
    <3>1. \A v \in Versions :
            \/ versions'[v] = versions[v]
            \/ /\ versions[v].lock \in {Nobody, q}
               /\ versions'[v].lock \in {Nobody, q}
               /\ Status(v) # "none" => Status(v)' # "none"
               /\ versions[v] = Fresh(NoRow) => Op[q] = "addVersion" /\ v = Target[q]
      BY <1>2, <1>5, FreshRow, NobodyIsNobody
    <3> QED
      BY <1>1, <1>3, <1>4, <2>2, <3>1, OtherHandlers
  <2> QED
    BY <2>1, <2>2
<1> QED
  BY <1>4, <1>6, <1>7, <1>8, <1>9 DEF LibraryInv

\* The rows that a transaction has written when it commits.
LEMMA CommittedRows ==
  ASSUME LibraryInv, NEW q \in Requests, At(q, "commit"),
         NEW v \in Versions, versions[v].lock = q
  PROVE  /\ versions[v].cur.status # "none"
         /\ Status(v) = "none" =>
              versions[v].cur.number = Numbered(ClauseOf[v]) + 1
         /\ Status(v) # "none" => versions[v].cur.number = versions[v].com.number
         /\ versions[v].cur.status = "superseded" => HasActive(q, v)
         /\ Status(v) = "active" => versions[v].cur.status = "active" \/ HasActive(q, v)
<1>1. VersionOK(v) /\ HandlerOK(q) /\ OwedOK(q, v)
  BY DEF LibraryInv, RowsInv, HandlersInv, HandlerOK
<1>2. versions[v].cur.status # "none"
  BY <1>1, FreshRow, NobodyIsNobody DEF VersionOK
<1>3. versions[v].cur.status = "superseded" => HasActive(q, v)
  BY <1>1 DEF OwedOK, At
<1>4. Status(v) = "active" => versions[v].cur.status \in {"active", "superseded"}
  <2>1. versions[v].cur.status \in VersionStatus
    BY RowType DEF LibraryInv
  <2>2. Status(v) = "active" => versions[v].cur.status # "approved"
    BY <1>1 DEF OwedOK, At, Promoting, InForce, Status
  <2>3. Status(v) = "active" => versions[v].cur.status # "draft"
    BY <1>1 DEF VersionOK, Status
  <2> QED
    BY <1>2, <2>1, <2>2, <2>3 DEF VersionStatus
<1> QED
  BY <1>1, <1>2, <1>3, <1>4, NobodyIsNobody DEF VersionOK, Status

LEMMA CommitInv ==
  ASSUME LibraryInv, NEW q \in Requests, Commit(q)
  PROVE  LibraryInv'
<1> DEFINE pc == IF Op[q] \in Promoters THEN "new" ELSE "ended"
<1>1. /\ versions' = CommittedAll(q, versions)
      /\ tx' = [tx EXCEPT ![q] = TxAt(pc)]
      /\ today' = today
      /\ LibTypes
      /\ At(q, "commit")
  BY DEF Commit, LibraryInv
<1>2. /\ \A v \in Versions : versions[v].lock = q =>
           /\ versions'[v] = Fresh(versions[v].cur)
           /\ versions'[v].com = versions[v].cur
           /\ versions'[v].cur = versions[v].cur
           /\ versions'[v].lock = Nobody
      /\ \A v \in Versions : versions[v].lock # q => versions'[v] = versions[v]
  BY <1>1, EndedRows, FreshRow
<1>3. /\ tx'[q].pc = pc
      /\ \A r \in Requests \ {q} : tx'[r] = tx[r]
  BY <1>1, TxAtType DEF LibTypes
<1>4. LibTypes'
  BY <1>1, EndedRows, TxAtType DEF LibTypes
<1>5. \A v \in Versions :
        Status(v)' = IF versions[v].lock = q THEN versions[v].cur.status ELSE Status(v)
  BY <1>2 DEF Status
<1>6. \A v \in Versions : Status(v) # "none" => Status(v)' # "none"
  BY <1>1, <1>5, CommittedRows
<1>7. ASSUME NEW c, \A v \in Versions : ClauseOf[v] = c /\ Status(v) = "none"
                                          => versions[v].lock # q
      PROVE  RowsOf(c)' = RowsOf(c) /\ Numbered(c)' = Numbered(c)
  <2>1. RowsOf(c)' = RowsOf(c)
    BY <1>5, <1>6, <1>7 DEF RowsOf
  <2> QED
    BY <2>1 DEF Numbered
<1>8. RowsInv'
  <2> SUFFICES ASSUME NEW v \in Versions PROVE VersionOK(v)'
    BY DEF RowsInv
  <2>1. VersionOK(v)
    BY DEF LibraryInv, RowsInv
  <2>2. CASE versions[v].lock = q
    BY <1>1, <1>2, <2>1, <2>2, CommittedRows DEF VersionOK
  <2>3. CASE versions[v].lock # q
    <3>1. versions'[v] = versions[v]
      BY <1>2, <2>3
    <3>2. ASSUME versions[v].com.status = "none", versions[v].lock # Nobody
          PROVE  Numbered(ClauseOf[v])' = Numbered(ClauseOf[v])
      <4>1. ASSUME NEW w \in Versions, ClauseOf[w] = ClauseOf[v], Status(w) = "none"
            PROVE  versions[w].lock # q
        <5>1. w # v => PairOK(v, w)
          BY <4>1 DEF LibraryInv, PairsInv, Siblings
        <5> QED
          BY <2>3, <3>2, <4>1, <5>1, NobodyIsNobody DEF PairOK, Status
      <4> QED
        BY <1>7, <4>1
    <3> QED
      BY <1>1, <2>1, <3>1, <3>2 DEF VersionOK
  <2> QED
    BY <2>2, <2>3
<1>9. PairsInv'
  <2> SUFFICES ASSUME NEW v \in Versions, NEW w \in Siblings(v) \ {v}
               PROVE  PairOK(v, w)'
    BY DEF PairsInv, Siblings
  <2>1. PairOK(v, w) /\ PairOK(w, v) /\ w \in Versions
    BY SiblingsSymmetric DEF LibraryInv, PairsInv
  <2>2. ASSUME NEW x \in {v, w}
        PROVE  \/ versions'[x] = versions[x] /\ versions[x].lock # q
               \/ /\ versions[x].lock = q
                  /\ versions'[x].com = versions[x].cur
                  /\ versions'[x].cur = versions[x].cur
                  /\ versions'[x].lock = Nobody
    BY <1>2, <2>1
  <2> QED
    BY <2>1, <2>2, NobodyIsNobody DEF PairOK
<1>10. ClausesInv'
  <2> SUFFICES ASSUME NEW c \in Clauses PROVE ClauseOK(c)'
    BY DEF ClausesInv
  <2>1. ClauseOK(c) /\ RowsOf(c) \subseteq Versions
    BY DEF LibraryInv, ClausesInv, RowsOf
  <2>2. \A v \in RowsOf(c) : versions'[v].com.number = versions[v].com.number
    <3> TAKE v \in RowsOf(c)
    <3>1. v \in Versions /\ Status(v) # "none"
      BY DEF RowsOf
    <3> QED
      BY <1>1, <1>2, <3>1, CommittedRows
  <2>3. {versions'[v].com.number : v \in RowsOf(c)'} = 1..Numbered(c)'
    <3>1. CASE \A v \in Versions : ClauseOf[v] = c /\ Status(v) = "none"
                                     => versions[v].lock # q
      <4>1. RowsOf(c)' = RowsOf(c) /\ Numbered(c)' = Numbered(c)
        BY <1>7, <3>1
      <4> QED
        BY <2>1, <2>2, <4>1 DEF ClauseOK
    <3>2. ASSUME NEW v \in Versions, ClauseOf[v] = c, Status(v) = "none",
                 versions[v].lock = q
          PROVE  {versions'[w].com.number : w \in RowsOf(c)'} = 1..Numbered(c)'
      <4> DEFINE n == Numbered(c)
      <4>1. ASSUME NEW w \in Versions \ {v}, ClauseOf[w] = c, Status(w) = "none"
            PROVE  versions[w].lock # q
        <5>1. PairOK(v, w)
          BY <3>2, <4>1 DEF LibraryInv, PairsInv, Siblings
        <5> QED
          BY <3>2, <5>1, <4>1, NobodyIsNobody DEF PairOK, Status
      <4>2. v \notin RowsOf(c) /\ RowsOf(c)' = RowsOf(c) \cup {v}
        <5>1. Status(v)' # "none"
          BY <1>1, <1>5, <3>2, CommittedRows
        <5> QED
          BY <1>5, <1>6, <3>2, <4>1, <5>1 DEF RowsOf
      <4>3. n \in Nat /\ Numbered(c)' = n + 1
        BY <4>2, NumberedType, FS_AddElement DEF Numbered
      <4>4. versions'[v].com.number = n + 1
        BY <1>1, <1>2, <3>2, CommittedRows
      <4>5. {versions'[w].com.number : w \in RowsOf(c)} = 1..n
        BY <2>1, <2>2 DEF ClauseOK
      <4>6. {versions'[w].com.number : w \in RowsOf(c)'} = (1..n) \cup {n + 1}
        BY <4>2, <4>4, <4>5
      <4>7. (1..n) \cup {n + 1} = 1..(n + 1)
        BY <4>3
      <4> QED
        BY <4>3, <4>6, <4>7
    <3> QED
      BY <3>1, <3>2
  <2>4. ASSUME NEW v \in Versions, versions[v].lock = q, HasActive(q, v), ClauseOf[v] = c
        PROVE  \E w \in RowsOf(c)' : Status(w)' = "active"
    <3>1. PICK w \in Siblings(v) : versions[w].lock = q /\ versions[w].cur.status = "active"
      BY <2>4 DEF HasActive
    <3>2. w \in Versions /\ ClauseOf[w] = c /\ Status(w)' = "active"
      BY <1>5, <2>4, <3>1, SiblingsSymmetric
    <3> QED
      BY <3>2 DEF RowsOf
  <2>5. ASSUME NEW v \in RowsOf(c)', Status(v)' = "superseded"
        PROVE  \E w \in RowsOf(c)' : Status(w)' = "active"
    <3>1. v \in Versions /\ ClauseOf[v] = c
      BY DEF RowsOf
    <3>2. CASE versions[v].lock = q
      BY <1>1, <1>5, <2>4, <2>5, <3>1, <3>2, CommittedRows
    <3>3. CASE versions[v].lock # q
      <4>1. v \in RowsOf(c) /\ Status(v) = "superseded"
        BY <1>5, <2>5, <3>1, <3>3 DEF RowsOf
      <4>2. PICK w \in RowsOf(c) : Status(w) = "active"
        BY <2>1, <4>1 DEF ClauseOK
      <4>3. w \in Versions /\ ClauseOf[w] = c
        BY DEF RowsOf
      <4>4. CASE Status(w)' = "active"
        BY <4>3, <4>4 DEF RowsOf
      <4>5. CASE versions[w].lock = q /\ HasActive(q, w)
        BY <2>4, <4>3, <4>5
      <4> QED
        BY <1>1, <1>5, <4>2, <4>3, <4>4, <4>5, CommittedRows
    <3> QED
      BY <3>2, <3>3
  <2> QED
    BY <2>3, <2>5 DEF ClauseOK
<1>11. HandlersInv'
  <2> SUFFICES ASSUME NEW r \in Requests PROVE HandlerOK(r)'
    BY DEF HandlersInv
  <2>1. CASE r = q
    <3>1. \A v \in Versions : versions'[v].lock # q
      BY <1>2, NobodyIsNobody
    <3>2. pc = "new" => Op[q] # "addVersion"
      BY DEF Promoters
    <3> QED
      BY <1>3, <2>1, <3>1, <3>2 DEF HandlerOK, Promoting
  <2>2. CASE r # q
    <3>1. \A v \in Versions :
            \/ versions'[v] = versions[v]
            \/ /\ versions[v].lock \in {Nobody, q}
               /\ versions'[v].lock \in {Nobody, q}
               /\ Status(v) # "none" => Status(v)' # "none"
               /\ versions[v] = Fresh(NoRow) => Op[q] = "addVersion" /\ v = Target[q]
      BY <1>2, <1>6, FreshRow, NobodyIsNobody
    <3> QED
      BY <1>1, <1>3, <1>4, <2>2, <3>1, OtherHandlers
  <2> QED
    BY <2>1, <2>2
<1> QED
  BY <1>4, <1>8, <1>9, <1>10, <1>11 DEF LibraryInv

LEMMA NextDayInv ==
  ASSUME LibraryInv, NextDay
  PROVE  LibraryInv'
<1>1. /\ today \in Int /\ today' = today + 1 /\ today' \in FirstDay..LastDay
      /\ UNCHANGED <<versions, tx>>
      /\ \A v \in Versions : EffectiveFrom[v] \in Int
  BY LibraryAssumption DEF NextDay, LibraryInv, LibTypes
<1>2. LibTypes'
  BY <1>1 DEF LibraryInv, LibTypes
<1>3. /\ \A c : RowsOf(c)' = RowsOf(c) /\ Numbered(c)' = Numbered(c)
      /\ \A v : Status(v)' = Status(v)
  BY <1>1 DEF RowsOf, Numbered, Status
<1>4. RowsInv'
  BY <1>1, <1>3 DEF LibraryInv, RowsInv, VersionOK
<1>5. PairsInv'
  BY <1>1 DEF LibraryInv, PairsInv, PairOK, Siblings
<1>6. ClausesInv'
  BY <1>1, <1>3 DEF LibraryInv, ClausesInv, ClauseOK
<1>7. HandlersInv'
  <2> SUFFICES ASSUME NEW q \in Requests PROVE HandlerOK(q)'
    BY DEF HandlersInv
  <2>1. HandlerOK(q) /\ tx[q] \in TxState
    BY DEF LibraryInv, HandlersInv, LibTypes
  <2>2. tx[q].due \subseteq Versions
    BY <2>1 DEF TxState
  <2>3. \A v : OwedOK(q, v)' = OwedOK(q, v)
    BY <1>1 DEF OwedOK, HasActive, At, Siblings
  <2> QED
    BY <1>1, <1>3, <2>1, <2>2, <2>3 DEF HandlerOK, Siblings
<1> QED
  BY <1>2, <1>4, <1>5, <1>6, <1>7 DEF LibraryInv

-----------------------------------------------------------------------------
(* The steps of a request. *)

\* Only the request that adds a version writes a row that is not there.
LEMMA NotTheRowToAdd ==
  ASSUME NEW v \in Versions, Status(v) # "none" \/ versions[v].lock # Nobody
  PROVE  versions[v] # Fresh(NoRow)
BY FreshRow DEF Status, NoRow

\* A transaction that adds no version sees a row exactly if it is committed.
LEMMA SeesCommitted ==
  ASSUME LibraryInv, NEW q \in Requests, Op[q] # "addVersion", NEW v \in Versions
  PROVE  /\ Row(q, v).status # "none" => Status(v) # "none"
         /\ versions[v].lock = q => Row(q, v) = versions[v].cur
         /\ versions[v].lock # q => Row(q, v) = versions[v].com
         /\ Row(q, v).status \in InForce => EffectiveFrom[v] <= today
<1>1. VersionOK(v)
  BY DEF LibraryInv, RowsInv
<1>2. /\ versions[v].lock = q => Row(q, v) = versions[v].cur
      /\ versions[v].lock # q => Row(q, v) = versions[v].com
  BY DEF Row, Seen
<1>3. versions[v].lock = q => Status(v) # "none"
  BY <1>1, NobodyIsNobody DEF VersionOK, Status
<1>4. {versions[v].com.status, versions[v].cur.status} \cap InForce # {}
        => EffectiveFrom[v] <= today
  BY <1>1 DEF VersionOK
<1> QED
  BY <1>2, <1>3, <1>4 DEF Status

LEMMA CapacityType ==
  /\ Cardinality(Versions) \in Nat
  /\ LastDay \in Nat
  /\ \A v \in Versions : EffectiveFrom[v] \in 0..LastDay
BY FS_CardinalityType, LibraryAssumption

LEMMA AddVersionInv ==
  ASSUME LibraryInv, NEW q \in Requests, AddVersion(q)
  PROVE  LibraryInv'
<1> DEFINE t == [tx[q] EXCEPT !.pc = "findMax"]
<1>1. /\ tx[q].pc = "new" /\ Op[q] = "addVersion"
      /\ tx' = [tx EXCEPT ![q] = t]
      /\ UNCHANGED <<today, versions>>
  BY DEF AddVersion, CanBegin, Goto
<1>2. t \in TxState /\ t.pc = "findMax" /\ tx'[q] = t
  BY <1>1 DEF LibraryInv, LibTypes, TxState, Working
<1>3. HandlerOK(q)
  BY DEF LibraryInv, HandlersInv
<1>4. HandlerOK(q)'
  BY <1>1, <1>2, <1>3 DEF HandlerOK, Promoting
<1> QED
  BY <1>1, <1>2, <1>4, HandlerStep

\* The numbers a transaction sees before it inserts are 0 and 1..Numbered.
LEMMA FindMaxInv ==
  ASSUME LibraryInv, NEW q \in Requests, FindMaxVersionNumber(q)
  PROVE  LibraryInv'
<1> DEFINE v == Target[q]
           n == Numbered(ClauseOf[v])
           numbers == {Row(q, w).number : w \in Siblings(v)}
           t == [tx[q] EXCEPT !.pc = "insert", !.max = Max(numbers)]
<1>1. /\ tx[q].pc = "findMax"
      /\ tx' = [tx EXCEPT ![q] = t]
      /\ UNCHANGED <<today, versions>>
  BY DEF FindMaxVersionNumber, At
<1>2. HandlerOK(q) /\ tx[q] \in TxState
  BY DEF LibraryInv, HandlersInv, LibTypes
<1>3. /\ Op[q] = "addVersion"
      /\ v \in Versions
      /\ versions[v] = Fresh(NoRow)
      /\ \A w \in Versions : versions[w].lock # q
  BY <1>1, <1>2, TargetType DEF HandlerOK
<1>4. n \in Nat /\ n <= Cardinality(Versions)
  BY NumberedType
<1>5. \A w \in Siblings(v) : w \in Versions /\ Row(q, w).number = versions[w].com.number
  BY <1>3 DEF Row, Seen, Siblings
<1>6. {versions[w].com.number : w \in RowsOf(ClauseOf[v])} = 1..n
  BY <1>3, LibraryAssumption DEF LibraryInv, ClausesInv, ClauseOK
<1>7. numbers = 0..n
  <2>1. ASSUME NEW w \in Siblings(v)
        PROVE  Row(q, w).number \in 0..n
    <3>1. CASE Status(w) = "none"
      <4>1. VersionOK(w)
        BY <1>5 DEF LibraryInv, RowsInv
      <4>2. versions[w].com.number = 0
        BY <3>1, <4>1 DEF VersionOK, Status, NoRow
      <4> QED
        BY <1>4, <1>5, <4>2
    <3>2. CASE Status(w) # "none"
      <4>1. w \in RowsOf(ClauseOf[v])
        BY <3>2 DEF RowsOf, Siblings
      <4> QED
        BY <1>4, <1>5, <1>6, <4>1
    <3> QED
      BY <3>1, <3>2
  <2>2. ASSUME NEW i \in 1..n
        PROVE  i \in numbers
    <3>1. PICK w \in RowsOf(ClauseOf[v]) : versions[w].com.number = i
      BY <1>6
    <3>2. w \in Siblings(v)
      BY DEF RowsOf, Siblings
    <3> QED
      BY <1>5, <3>1, <3>2
  <2>3. 0 \in numbers
    <3>1. v \in Siblings(v) /\ versions[v].com.number = 0
      BY <1>3, FreshRow DEF Siblings, NoRow
    <3> QED
      BY <1>5, <3>1
  <2> QED
    BY <1>4, <2>1, <2>2, <2>3
<1>8. Max(numbers) \in 0..n
  <2>1. \E m \in 0..n : \A k \in 0..n : m >= k
    BY <1>4
  <2> QED
    BY <1>7, <2>1 DEF Max
<1> HIDE DEF n, numbers
<1>9. /\ t \in TxState /\ tx'[q] = t
      /\ t.pc = "insert"
      /\ t.max <= n
  <2>1. Max(numbers) \in 0..Cardinality(Versions) /\ Max(numbers) <= n
    BY <1>4, <1>8, CapacityType
  <2>2. t \in TxState /\ t.pc = "insert" /\ t.max = Max(numbers)
    BY <1>2, <2>1 DEF TxState, Working
  <2> QED
    BY <1>1, <2>1, <2>2 DEF LibraryInv, LibTypes
<1>10. n' = n
  BY <1>1 DEF n, Numbered, RowsOf, Status
<1>11. HandlerOK(q)'
  BY <1>1, <1>2, <1>3, <1>9, <1>10 DEF HandlerOK, Promoting, n
<1> QED
  BY <1>1, <1>9, <1>11, HandlerStep

\* If the number it computed is not the next, the row that has it is met.
LEMMA InsertInv ==
  ASSUME LibraryInv, NEW q \in Requests, InsertVersion(q)
  PROVE  LibraryInv'
<1> DEFINE v == Target[q]
           n == Numbered(ClauseOf[v])
           t == [tx[q] EXCEPT !.pc = "commit"]
           row == [status |-> "draft", number |-> NextNumber(tx[q].max), effectiveTo |-> 0]
<1>1. tx[q].pc = "insert"
  BY DEF InsertVersion, At
<1>2. CASE Rollback(q)
  BY <1>1, <1>2, RollbackInv DEF Working
<1>3. CASE SameNumber(q) = {} /\ Update(q, v, row) /\ Goto(q, "commit") /\ today' = today
  <2>1. HandlerOK(q) /\ tx[q] \in TxState
    BY DEF LibraryInv, HandlersInv, LibTypes
  <2>2. /\ Op[q] = "addVersion"
        /\ v \in Versions
        /\ versions[v] = Fresh(NoRow)
        /\ \A w \in Versions : versions[w].lock # q
        /\ tx[q].max <= n
        /\ tx[q].max \in Nat
    BY <1>1, <2>1, TargetType, CapacityType DEF HandlerOK, TxState
  <2>3. /\ versions[v].com = NoRow /\ versions[v].cur = NoRow /\ versions[v].lock = Nobody
        /\ Status(v) = "none"
    BY <2>2, FreshRow DEF Status, NoRow
  <2>4. n \in Nat /\ n + 1 <= Cardinality(Versions)
    BY <2>2, <2>3, NumberedType, OneMoreNumber
  <2>5. tx[q].max = n
    <3> SUFFICES ASSUME tx[q].max + 1 \in 1..n PROVE FALSE
      BY <2>2, <2>4
    <3>1. {versions[w].com.number : w \in RowsOf(ClauseOf[v])} = 1..n
      BY <2>2, LibraryAssumption DEF LibraryInv, ClausesInv, ClauseOK
    <3>2. PICK w \in RowsOf(ClauseOf[v]) : versions[w].com.number = tx[q].max + 1
      BY <3>1
    <3>3. w \in Versions /\ ClauseOf[w] = ClauseOf[v] /\ Status(w) # "none"
      BY DEF RowsOf
    <3>4. versions[w].cur.number = tx[q].max + 1
      BY <3>2, <3>3 DEF LibraryInv, RowsInv, VersionOK, Status
    <3> QED
      BY <1>3, <2>3, <3>3, <3>4 DEF SameNumber, NextNumber, Siblings
  <2>6. row.number = n + 1 /\ row.status = "draft" /\ row \in VersionRow
    BY <2>4, <2>5, CapacityType DEF NextNumber, VersionRow, VersionStatus
  <2> HIDE DEF n, row
  <2>7. t \in TxState /\ t.pc = "commit" /\ tx' = [tx EXCEPT ![q] = t] /\ tx'[q] = t
    BY <1>3, <2>1 DEF LibraryInv, LibTypes, TxState, Working, Goto
  <2>8. /\ versions'[v].com = NoRow /\ versions'[v].cur = row /\ versions'[v].lock = q
        /\ \A w \in Versions \ {v} : versions'[w] = versions[w]
    BY <1>3, <2>2, <2>3 DEF LibraryInv, LibTypes, Update, Put
  <2>9. n' = n
    BY <2>3, <2>8 DEF n, Numbered, RowsOf, Status
  <2>10. VersionOK(v)'
    <3>1. versions'[v].com.status = "none"
      BY <2>8 DEF NoRow
    <3> QED
      BY <2>2, <2>6, <2>8, <2>9, <3>1, NobodyIsNobody DEF VersionOK, InForce, n
  <2>11. HandlerOK(q)'
    <3>1. Status(v)' = "none"
      BY <2>8 DEF Status, NoRow
    <3>2. \A w \in Versions : versions'[w].lock = q => OwedOK(q, w)'
      BY <2>2, <2>6, <2>8 DEF OwedOK
    <3> QED
      BY <2>2, <2>7, <2>8, <3>1, <3>2 DEF HandlerOK, Promoting
  <2>12. ASSUME NEW w \in Siblings(v) \ {v}
         PROVE  PairOK(v, w)' /\ PairOK(w, v)'
    <3>1. w \in Versions /\ ClauseOf[w] = ClauseOf[v] /\ versions'[w] = versions[w]
      BY <2>2, <2>8, SiblingsSymmetric
    <3>2. VersionOK(w) /\ PairOK(v, w) /\ PairOK(w, v)
      BY <2>2, <3>1 DEF LibraryInv, RowsInv, PairsInv, Siblings
    <3>3. ~(versions[w].com.status = "none" /\ versions[w].lock # Nobody)
      <4> SUFFICES ASSUME versions[w].com.status = "none", versions[w].lock # Nobody
                   PROVE  FALSE
        OBVIOUS
      <4>1. versions[w].cur.number = n + 1
        BY <3>1, <3>2 DEF VersionOK, n
      <4> QED
        BY <1>3, <2>5, <4>1 DEF SameNumber, NextNumber
    <3>4. /\ versions[v].com.status = "none" /\ versions'[v].com.status = "none"
          /\ versions'[v].cur.status = "draft"
      BY <2>3, <2>6, <2>8 DEF NoRow
    <3>5. /\ ~(versions'[v].cur.status = "active")
          /\ ~(versions'[v].com.status = "active")
      BY <3>4
    <3> QED
      BY <3>1, <3>2, <3>3, <3>5 DEF PairOK
  <2>13. Lockable(q, versions[v])
    BY <2>3 DEF Lockable
  <2> QED
    BY <1>3, <2>2, <2>6, <2>7, <2>10, <2>11, <2>12, <2>13, WriteStep
<1> QED
  BY <1>2, <1>3 DEF InsertVersion

LEMMA ApproveVersionInv ==
  ASSUME LibraryInv, NEW q \in Requests, ApproveVersion(q)
  PROVE  LibraryInv'
<1> DEFINE t == [tx[q] EXCEPT !.pc = "approve"]
<1>1. /\ tx[q].pc = "new" /\ Op[q] = "approveVersion"
      /\ tx' = [tx EXCEPT ![q] = t]
      /\ UNCHANGED <<today, versions>>
      /\ Row(q, Target[q]).status = "draft"
  BY DEF ApproveVersion, CanBegin, Goto
<1>2. t \in TxState /\ t.pc = "approve" /\ tx'[q] = t
  BY <1>1 DEF LibraryInv, LibTypes, TxState, Working
<1>3. HandlerOK(q)
  BY DEF LibraryInv, HandlersInv
<1>4. Status(Target[q])' # "none"
  BY <1>1, TargetType, SeesCommitted DEF Status
<1>5. HandlerOK(q)'
  BY <1>1, <1>2, <1>3, <1>4 DEF HandlerOK, Promoting
<1> QED
  BY <1>1, <1>2, <1>5, HandlerStep

LEMMA WriteApprovedInv ==
  ASSUME LibraryInv, NEW q \in Requests, WriteApproved(q)
  PROVE  LibraryInv'
<1> DEFINE v == Target[q]
           t == [tx[q] EXCEPT !.pc = "findDue"]
           row == [versions[v].cur EXCEPT !.status = "approved"]
<1>1. /\ tx[q].pc = "approve"
      /\ Lockable(q, versions[v])
      /\ Update(q, v, row)
      /\ tx' = [tx EXCEPT ![q] = t]
      /\ today' = today
  BY DEF WriteApproved, At, Goto, Held
<1>2. HandlerOK(q) /\ tx[q] \in TxState
  BY DEF LibraryInv, HandlersInv, LibTypes
<1>3. /\ Op[q] = "approveVersion"
      /\ v \in Versions
      /\ Status(v) # "none"
      /\ \A w \in Versions : versions[w].lock # q
      /\ versions[v].lock = Nobody
  BY <1>1, <1>2, TargetType DEF HandlerOK, Lockable
<1>4. VersionOK(v) /\ versions[v].cur \in VersionRow
  BY <1>3, RowType DEF LibraryInv, RowsInv
<1>5. row \in VersionRow /\ row.status = "approved" /\ row.number = versions[v].cur.number
  BY <1>4 DEF VersionRow, VersionStatus
<1> HIDE DEF row
<1>6. t \in TxState /\ t.pc = "findDue" /\ tx'[q] = t
  BY <1>1, <1>2 DEF LibraryInv, LibTypes, TxState, Working
<1>7. /\ versions'[v].com = versions[v].com /\ versions'[v].cur = row
      /\ versions'[v].lock = q
      /\ \A w \in Versions \ {v} : versions'[w] = versions[w]
  BY <1>1, <1>3 DEF LibraryInv, LibTypes, Update, Put
<1>8. VersionOK(v)'
  BY <1>1, <1>3, <1>4, <1>5, <1>7, NobodyIsNobody DEF VersionOK, InForce, Status
<1>9. HandlerOK(q)'
  <2>1. \A w \in Versions : versions'[w].lock = q => w = v
    BY <1>3, <1>7
  <2>2. \A w \in Versions : versions'[w].lock = q => OwedOK(q, w)'
    BY <1>5, <1>6, <1>7, <2>1 DEF OwedOK, At
  <2> QED
    BY <1>3, <1>5, <1>6, <1>7, <2>1, <2>2 DEF HandlerOK, Promoting
<1>10. ASSUME NEW w \in Siblings(v) \ {v}
       PROVE  PairOK(v, w)' /\ PairOK(w, v)'
  <2>1. w \in Versions /\ versions'[w] = versions[w]
    BY <1>3, <1>7, SiblingsSymmetric
  <2>2. PairOK(v, w) /\ PairOK(w, v)
    BY <1>3, <2>1 DEF LibraryInv, PairsInv, Siblings
  <2> QED
    BY <1>3, <1>5, <1>7, <2>1, <2>2 DEF PairOK, Status
<1> QED
  BY <1>1, <1>3, <1>5, <1>6, <1>8, <1>9, <1>10, NotTheRowToAdd, WriteStep

-----------------------------------------------------------------------------
(* Promotion. *)

LEMMA DueRows ==
  ASSUME LibraryInv, NEW q \in Requests, Op[q] # "addVersion"
  PROVE  /\ Due(q) \subseteq Versions
         /\ \A v \in Due(q) : Status(v) # "none" /\ EffectiveFrom[v] <= today
BY SeesCommitted DEF Due, Arrived

LEMMA FindDueInv ==
  ASSUME LibraryInv, NEW q \in Requests, FindDue(q)
  PROVE  LibraryInv'
<1> DEFINE t == [tx[q] EXCEPT !.pc = "findActive", !.due = Due(q)]
<1>1. /\ tx[q].pc = "new" /\ Op[q] # "addVersion"
      /\ tx' = [tx EXCEPT ![q] = t]
      /\ UNCHANGED <<today, versions>>
  BY DEF FindDue, CanBegin, Promoters
<1>2. /\ Due(q) \subseteq Versions
      /\ \A v \in Due(q) : Status(v)' # "none" /\ EffectiveFrom[v] <= today'
  BY <1>1, DueRows DEF Status
<1>3. t \in TxState /\ t.pc = "findActive" /\ t.due = Due(q) /\ tx'[q] = t
  BY <1>1, <1>2 DEF LibraryInv, LibTypes, TxState, Working
<1>4. \A v \in Versions : versions[v].lock # q
  BY <1>1 DEF LibraryInv, HandlersInv, HandlerOK
<1> HIDE DEF t
<1>5. HandlerOK(q)'
  BY <1>1, <1>2, <1>3, <1>4 DEF HandlerOK, Promoting
<1> QED
  BY <1>1, <1>3, <1>5, HandlerStep DEF t

\* A version in force that its approval has set back is due: it is promoted again.
LEMMA FindDueAfterApprovalInv ==
  ASSUME LibraryInv, NEW q \in Requests, FindDueAfterApproval(q)
  PROVE  LibraryInv'
<1> DEFINE pc == IF Due(q) = {} THEN "commit" ELSE "findActive"
           t  == [tx[q] EXCEPT !.pc = pc, !.due = Due(q)]
<1>1. /\ tx[q].pc = "findDue"
      /\ tx' = [tx EXCEPT ![q] = t]
      /\ UNCHANGED <<today, versions>>
  BY DEF FindDueAfterApproval, At
<1>2. HandlerOK(q)
  BY DEF LibraryInv, HandlersInv
<1>3. /\ Op[q] = "approveVersion"
      /\ \A v \in Versions : versions[v].lock = q => versions[v].cur.status = "approved"
  BY <1>1, <1>2 DEF HandlerOK
<1>4. /\ Due(q) \subseteq Versions
      /\ \A v \in Due(q) : Status(v)' # "none" /\ EffectiveFrom[v] <= today'
  BY <1>1, <1>3, DueRows DEF Status
<1>5. t \in TxState /\ t.pc = pc /\ t.due = Due(q) /\ tx'[q] = t
  BY <1>1, <1>4 DEF LibraryInv, LibTypes, TxState, Working
<1>6. ASSUME NEW v \in Versions, versions'[v].lock = q
      PROVE  OwedOK(q, v)'
  <2>1. versions'[v] = versions[v] /\ versions[v].cur.status = "approved"
    BY <1>1, <1>3, <1>6
  <2>2. versions[v].com.status \in InForce => v \in Due(q)
    <3> SUFFICES ASSUME versions[v].com.status \in InForce PROVE v \in Due(q)
      OBVIOUS
    <3>1. EffectiveFrom[v] <= today
      BY DEF LibraryInv, RowsInv, VersionOK
    <3>2. Row(q, v).status = "approved"
      BY <1>1, <1>6, <2>1 DEF Row, Seen
    <3> QED
      BY <3>1, <3>2 DEF Due, Arrived
  <2> QED
    BY <1>5, <2>1, <2>2 DEF OwedOK, Promoting, At
<1> HIDE DEF t
<1>7. HandlerOK(q)'
  BY <1>1, <1>3, <1>4, <1>5, <1>6 DEF HandlerOK, Promoting
<1> QED
  BY <1>1, <1>5, <1>7, HandlerStep DEF t

LEMMA FindActiveInv ==
  ASSUME LibraryInv, NEW q \in Requests, FindActiveVersion(q)
  PROVE  LibraryInv'
<1>1. PICK v \in tx[q].due :
        LET active == {w \in Siblings(v) : Row(q, w).status = "active"} IN
        \/ /\ v \in active
           /\ tx' = [tx EXCEPT ![q].due = @ \ {v},
                               ![q].pc = IF tx[q].due = {v} THEN "commit" ELSE @]
        \/ Activates(q, v)
        \/ \E w \in active \ {v} :
             tx' = [tx EXCEPT ![q].pc = "supersede", ![q].version = v, ![q].prior = w]
  BY DEF FindActiveVersion
<1>2. tx[q].pc = "findActive" /\ UNCHANGED <<today, versions>>
  BY DEF FindActiveVersion, At
<1>3. HandlerOK(q) /\ tx[q] \in TxState
  BY DEF LibraryInv, HandlersInv, LibTypes
<1>4. /\ Op[q] # "addVersion"
      /\ \A x \in tx[q].due : Status(x) # "none" /\ EffectiveFrom[x] <= today
      /\ tx[q].due \subseteq Versions
      /\ v \in Versions
  BY <1>2, <1>3 DEF HandlerOK, Promoting, TxState
<1>5. \A x \in Versions : versions[x].lock = q =>
        /\ versions[x].cur.status = "superseded" => HasActive(q, x)
        /\ versions[x].cur.status = "approved" /\ versions[x].com.status \in InForce
             => x \in tx[q].due
  BY <1>2, <1>3 DEF HandlerOK, OwedOK, At
<1>6. \A x \in Versions : Status(x)' = Status(x) /\ HasActive(q, x)' = HasActive(q, x)
  BY <1>2 DEF Status, HasActive, Siblings
<1>7. ASSUME Row(q, v).status = "active",
             tx' = [tx EXCEPT ![q].due = @ \ {v},
                              ![q].pc = IF tx[q].due = {v} THEN "commit" ELSE @]
      PROVE  LibraryInv'
  <2> DEFINE pc == IF tx[q].due = {v} THEN "commit" ELSE "findActive"
             t  == [tx[q] EXCEPT !.due = @ \ {v}, !.pc = pc]
  <2>1. tx' = [tx EXCEPT ![q] = t]
    BY <1>2, <1>7 DEF LibraryInv, LibTypes
  <2>2. t \in TxState /\ t.pc = pc /\ t.due = tx[q].due \ {v} /\ tx'[q] = t
    BY <1>3, <2>1 DEF LibraryInv, LibTypes, TxState, Working
  <2>3. ASSUME NEW x \in Versions, versions'[x].lock = q
        PROVE  OwedOK(q, x)'
    <3>1. Row(q, x) = versions[x].cur
      BY <1>2, <2>3 DEF Row, Seen
    <3>2. versions[x].cur.status = "approved" => x # v
      BY <1>7, <3>1
    <3> QED
      BY <1>2, <1>5, <1>6, <2>2, <2>3, <3>2 DEF OwedOK, Promoting, At
  <2> HIDE DEF t
  <2>4. HandlerOK(q)'
    BY <1>2, <1>4, <1>6, <2>2, <2>3 DEF HandlerOK, Promoting
  <2> QED
    BY <1>2, <2>1, <2>2, <2>4, HandlerStep DEF t
<1>8. ASSUME Activates(q, v)
      PROVE  LibraryInv'
  <2> DEFINE t == [tx[q] EXCEPT !.pc = "activate", !.version = v]
  <2>1. tx' = [tx EXCEPT ![q] = t]
    BY <1>8 DEF LibraryInv, LibTypes, Activates
  <2>2. /\ t \in TxState /\ t.pc = "activate" /\ t.due = tx[q].due /\ t.version = v
        /\ tx'[q] = t
    BY <1>3, <1>4, <2>1 DEF LibraryInv, LibTypes, TxState, Working
  <2> HIDE DEF t
  <2>3. ASSUME NEW x \in Versions, versions'[x].lock = q
        PROVE  OwedOK(q, x)'
    BY <1>2, <1>5, <1>6, <2>2, <2>3 DEF OwedOK, Promoting, At
  <2>4. HandlerOK(q)'
    BY <1>2, <1>4, <1>6, <2>2, <2>3 DEF HandlerOK, Promoting
  <2> QED
    BY <1>2, <2>1, <2>2, <2>4, HandlerStep DEF t
<1>9. ASSUME NEW w \in Siblings(v) \ {v}, Row(q, w).status = "active",
             tx' = [tx EXCEPT ![q].pc = "supersede", ![q].version = v, ![q].prior = w]
      PROVE  LibraryInv'
  <2> DEFINE t == [tx[q] EXCEPT !.pc = "supersede", !.version = v, !.prior = w]
  <2>1. tx' = [tx EXCEPT ![q] = t]
    BY <1>9 DEF LibraryInv, LibTypes
  <2>2. w \in Versions
    BY DEF Siblings
  <2>3. /\ t \in TxState /\ t.pc = "supersede" /\ t.due = tx[q].due /\ t.version = v
        /\ t.prior = w /\ tx'[q] = t
    BY <1>3, <1>4, <2>1, <2>2 DEF LibraryInv, LibTypes, TxState, Working
  <2>4. Status(w) # "none" /\ EffectiveFrom[w] <= today
    BY <1>4, <1>9, <2>2, SeesCommitted DEF InForce
  <2> HIDE DEF t
  <2>5. ASSUME NEW x \in Versions, versions'[x].lock = q
        PROVE  OwedOK(q, x)'
    BY <1>2, <1>5, <1>6, <2>3, <2>5 DEF OwedOK, Promoting, At
  <2>6. HandlerOK(q)'
    BY <1>2, <1>4, <1>6, <1>9, <2>2, <2>3, <2>4, <2>5 DEF HandlerOK, Promoting, Siblings
  <2> QED
    BY <1>2, <2>1, <2>3, <2>6, HandlerStep DEF t
<1> QED
  BY <1>1, <1>7, <1>8, <1>9

\* The version that gives way is written before its successor: until that is
\* active, the transaction is about to activate it.
LEMMA SupersedeInv ==
  ASSUME LibraryInv, NEW q \in Requests, SupersedePrior(q)
  PROVE  LibraryInv'
<1>0. PICK v, w : v = tx[q].version /\ w = tx[q].prior
  OBVIOUS
<1> DEFINE t == [tx[q] EXCEPT !.pc = "activate"]
           row == Superseded(versions[w].cur, v)
<1>1. /\ tx[q].pc = "supersede"
      /\ Lockable(q, versions[w])
      /\ Update(q, w, row)
      /\ tx' = [tx EXCEPT ![q] = t]
      /\ today' = today
  BY <1>0 DEF SupersedePrior, At, Goto, Held
<1>2. HandlerOK(q) /\ tx[q] \in TxState
  BY DEF LibraryInv, HandlersInv, LibTypes
<1>3. /\ Op[q] # "addVersion"
      /\ tx[q].due \subseteq Versions
      /\ \A x \in tx[q].due : Status(x) # "none" /\ EffectiveFrom[x] <= today
      /\ v \in tx[q].due /\ v \in Versions
      /\ w \in Siblings(v) \ {v} /\ w \in Versions
      /\ Status(w) # "none" /\ EffectiveFrom[w] <= today
  BY <1>0, <1>1, <1>2 DEF HandlerOK, Promoting, TxState, Siblings
<1>4. \A x \in Versions : versions[x].lock = q =>
        /\ versions[x].cur.status = "superseded" => HasActive(q, x)
        /\ versions[x].cur.status = "approved" /\ versions[x].com.status \in InForce
             => x \in tx[q].due
  BY <1>1, <1>2 DEF HandlerOK, OwedOK, At
<1>5. VersionOK(w) /\ versions[w].cur \in VersionRow
  BY <1>3, RowType DEF LibraryInv, RowsInv
<1>6. row \in VersionRow /\ row.status = "superseded" /\ row.number = versions[w].cur.number
  BY <1>3, <1>5, CapacityType DEF VersionRow, VersionStatus, Superseded
<1>7. /\ t \in TxState /\ t.pc = "activate" /\ t.due = tx[q].due /\ t.version = v
      /\ tx'[q] = t
  BY <1>0, <1>1, <1>2 DEF LibraryInv, LibTypes, TxState, Working
<1>8. /\ versions'[w].com = versions[w].com /\ versions'[w].cur = row
      /\ versions'[w].lock = q
      /\ \A x \in Versions \ {w} : versions'[x] = versions[x]
      /\ \A x \in Versions : Status(x)' = Status(x)
  BY <1>1, <1>3 DEF LibraryInv, LibTypes, Update, Put, Status
<1> HIDE DEF row, t
<1>9. VersionOK(w)'
  BY <1>1, <1>3, <1>5, <1>6, <1>8, NobodyIsNobody DEF VersionOK, InForce, Status
<1>10. ASSUME NEW x \in Versions, versions'[x].lock = q
       PROVE  OwedOK(q, x)'
  <2>1. versions'[x].cur.status = "superseded" => HasActive(q, x)' \/ v \in Siblings(x)
    <3>1. CASE x = w
      BY <1>3, <3>1 DEF Siblings
    <3>2. CASE x # w /\ versions[x].cur.status = "superseded"
      <4>1. PICK y \in Siblings(x) : versions[y].lock = q /\ versions[y].cur.status = "active"
        BY <1>4, <1>8, <1>10, <3>2 DEF HasActive
      <4>2. CASE y = w
        BY <1>3, <4>2 DEF Siblings
      <4>3. CASE y # w
        BY <1>8, <4>1, <4>3 DEF HasActive, Siblings
      <4> QED
        BY <4>2, <4>3
    <3> QED
      BY <1>8, <3>1, <3>2
  <2> QED
    BY <1>4, <1>6, <1>7, <1>8, <1>10, <2>1 DEF OwedOK, Promoting, At
<1>11. HandlerOK(q)'
  BY <1>1, <1>3, <1>7, <1>8, <1>10 DEF HandlerOK, Promoting
<1>12. ASSUME NEW x \in Siblings(w) \ {w}
       PROVE  PairOK(w, x)' /\ PairOK(x, w)'
  <2>1. x \in Versions /\ versions'[x] = versions[x]
    BY <1>3, <1>8, SiblingsSymmetric
  <2>2. PairOK(w, x) /\ PairOK(x, w)
    BY <1>3, <2>1 DEF LibraryInv, PairsInv, Siblings
  <2>3. versions[w].com.status # "none"
    BY <1>3 DEF Status
  <2> QED
    BY <1>1, <1>6, <1>8, <2>1, <2>2, <2>3, NobodyIsNobody DEF PairOK, Lockable
<1> QED
  BY <1>1, <1>3, <1>6, <1>7, <1>9, <1>11, <1>12, NotTheRowToAdd, WriteStep DEF t

\* The unique index lets a version become active only when no other one is, or
\* may still become so in another transaction.
LEMMA ActivateInv ==
  ASSUME LibraryInv, NEW q \in Requests, Activate(q)
  PROVE  LibraryInv'
<1>0. PICK v : v = tx[q].version
  OBVIOUS
<1> DEFINE pc == IF tx[q].due \subseteq {v} THEN "commit" ELSE "findActive"
           t == [tx[q] EXCEPT !.due = @ \ {v}, !.pc = pc, !.version = Nobody, !.prior = Nobody]
           row == [versions[v].cur EXCEPT !.status = "active"]
<1>1. /\ tx[q].pc = "activate"
      /\ Lockable(q, versions[v])
      /\ Undecided(q, v) = {}
  BY <1>0 DEF Activate, At, Held
<1>2. CASE Rollback(q)
  BY <1>1, <1>2, RollbackInv DEF Working
<1>3. CASE ~Rival(q, v) /\ Update(q, v, row) /\ tx' = Promoted(q) /\ today' = today
  <2>1. HandlerOK(q) /\ tx[q] \in TxState
    BY DEF LibraryInv, HandlersInv, LibTypes
  <2>2. /\ Op[q] # "addVersion"
        /\ tx[q].due \subseteq Versions
        /\ \A x \in tx[q].due : Status(x) # "none" /\ EffectiveFrom[x] <= today
        /\ v \in tx[q].due /\ v \in Versions
    BY <1>0, <1>1, <2>1 DEF HandlerOK, Promoting, TxState
  <2>3. \A x \in Versions : versions[x].lock = q =>
          /\ versions[x].cur.status = "superseded" => HasActive(q, x) \/ v \in Siblings(x)
          /\ versions[x].cur.status = "approved" /\ versions[x].com.status \in InForce
               => x \in tx[q].due
    BY <1>0, <1>1, <2>1 DEF HandlerOK, OwedOK, At
  <2>4. VersionOK(v) /\ versions[v].cur \in VersionRow
    BY <2>2, RowType DEF LibraryInv, RowsInv
  <2>5. row \in VersionRow /\ row.status = "active" /\ row.number = versions[v].cur.number
    BY <2>4 DEF VersionRow, VersionStatus
  <2>6. /\ t \in TxState /\ t.pc = pc /\ t.due = tx[q].due \ {v}
        /\ tx' = [tx EXCEPT ![q] = t] /\ tx'[q] = t
    <3>1. t \in TxState /\ t.pc = pc /\ t.due = tx[q].due \ {v}
      BY <2>1 DEF TxState, Working
    <3>2. tx' = [tx EXCEPT ![q] = t]
      BY <1>0, <1>3 DEF Promoted, LibraryInv, LibTypes
    <3> QED
      BY <3>1, <3>2 DEF LibraryInv, LibTypes
  <2>7. /\ versions'[v].com = versions[v].com /\ versions'[v].cur = row
        /\ versions'[v].lock = q
        /\ \A x \in Versions \ {v} : versions'[x] = versions[x]
        /\ \A x \in Versions : Status(x)' = Status(x)
    BY <1>3, <2>2 DEF LibraryInv, LibTypes, Update, Put, Status
  <2> HIDE DEF row, t
  <2>8. VersionOK(v)'
    BY <1>3, <2>2, <2>4, <2>5, <2>7, NobodyIsNobody DEF VersionOK, InForce, Status
  <2>9. ASSUME NEW x \in Versions, versions'[x].lock = q
        PROVE  OwedOK(q, x)'
    <3>1. CASE x = v
      BY <2>5, <2>7, <3>1 DEF OwedOK
    <3>2. CASE x # v
      <4>1. versions'[x] = versions[x] /\ versions[x].lock = q
        BY <2>7, <2>9, <3>2
      <4>2. HasActive(q, x) => HasActive(q, x)'
        BY <2>2, <2>5, <2>7 DEF HasActive, Siblings
      <4>3. v \in Siblings(x) => HasActive(q, x)'
        BY <2>5, <2>7 DEF HasActive, Siblings
      <4> QED
        BY <2>3, <2>6, <3>2, <4>1, <4>2, <4>3 DEF OwedOK, Promoting, At
    <3> QED
      BY <3>1, <3>2
  <2>10. HandlerOK(q)'
    BY <1>3, <2>2, <2>6, <2>7, <2>9 DEF HandlerOK, Promoting
  <2>11. ASSUME NEW w \in Siblings(v) \ {v}
         PROVE  PairOK(v, w)' /\ PairOK(w, v)'
    <3>1. w \in Versions /\ versions'[w] = versions[w] /\ VersionOK(w)
      BY <2>2, <2>7, SiblingsSymmetric DEF LibraryInv, RowsInv
    <3>2. PairOK(v, w) /\ PairOK(w, v)
      BY <2>2, <3>1 DEF LibraryInv, PairsInv, Siblings
    <3>3. /\ versions[w].cur.status # "active"
          /\ versions[w].com.status = "active" => versions[w].lock = q
      BY <1>1, <1>3, <3>1 DEF Undecided, Rival, Held, Lockable, VersionOK
    <3>4. versions[v].com.status # "none"
      BY <2>2 DEF Status
    <3> QED
      BY <2>7, <3>1, <3>2, <3>3, <3>4, NobodyIsNobody DEF PairOK
  <2> QED
    BY <1>1, <1>3, <2>2, <2>5, <2>6, <2>8, <2>10, <2>11, NotTheRowToAdd, WriteStep
<1> QED
  BY <1>0, <1>2, <1>3 DEF Activate

LEMMA NextInv ==
  ASSUME LibraryInv, LibraryNext
  PROVE  LibraryInv'
<1>1. CASE NextDay
  BY <1>1, NextDayInv
<1>2. ASSUME NEW q \in Requests,
             \/ AddVersion(q) \/ ApproveVersion(q) \/ FindDue(q)
             \/ Run(q) \/ Crash(q) \/ BreakDeadlock(q)
      PROVE  LibraryInv'
  <2>1. CASE Run(q)
    BY <2>1, FindMaxInv, InsertInv, WriteApprovedInv, FindDueAfterApprovalInv,
       FindActiveInv, SupersedeInv, ActivateInv, CommitInv DEF Run
  <2>2. CASE Crash(q)
    BY <2>2, RollbackInv DEF Crash, Open
  <2>3. CASE BreakDeadlock(q)
    <3>1. q \in Open
      BY <2>3 DEF BreakDeadlock, Deadlocked
    <3> QED
      BY <2>3, <3>1, RollbackInv DEF BreakDeadlock, Open
  <2> QED
    BY <1>2, <2>1, <2>2, <2>3, AddVersionInv, ApproveVersionInv, FindDueInv
<1> QED
  BY <1>1, <1>2 DEF LibraryNext

LEMMA StutterInv ==
  ASSUME LibraryInv, UNCHANGED library
  PROVE  LibraryInv'
<1>1. UNCHANGED <<today, versions, tx>>
  BY DEF library
<1>2. LibTypes' /\ PairsInv'
  BY <1>1 DEF LibraryInv, LibTypes, PairsInv, PairOK, Siblings
<1>3. /\ \A c : RowsOf(c)' = RowsOf(c) /\ Numbered(c)' = Numbered(c)
      /\ \A v : Status(v)' = Status(v)
      /\ \A q, v : OwedOK(q, v)' = OwedOK(q, v)
  BY <1>1 DEF RowsOf, Numbered, Status, OwedOK, HasActive, At, Siblings
<1>4. RowsInv' /\ ClausesInv'
  BY <1>1, <1>3 DEF LibraryInv, RowsInv, VersionOK, ClausesInv, ClauseOK
<1>5. HandlersInv'
  BY <1>1, <1>3 DEF LibraryInv, HandlersInv, HandlerOK, Siblings
<1> QED
  BY <1>2, <1>4, <1>5 DEF LibraryInv

-----------------------------------------------------------------------------
(* Results. *)

\* LibraryInv is inductive, whatever the stored library, the requests and the
\* limit on open transactions: clauses.service.ts and clause-promotion.ts.
THEOREM LibraryInvariant == LibrarySpec => []LibraryInv
<1>1. LibraryInv /\ [LibraryNext]_library => LibraryInv'
  BY NextInv, StutterInv
<1> QED
  BY <1>1, InitInv, PTL DEF LibrarySpec

LEMMA InvTypeOK == LibraryInv => LibraryTypeOK
BY DEF LibraryInv, LibTypes, ClausesInv, ClauseOK, LibraryTypeOK, Numbered, RowsOf

\* The versions of each clause are numbered 1, 2, ... without a gap, although
\* two additions may read the same highest number (addVersion: SELECT, INSERT).
THEOREM LibraryIsNumbered == LibrarySpec => []LibraryTypeOK
BY LibraryInvariant, InvTypeOK, PTL

LEMMA InvOneInForce == LibraryInv => OneInForce
<1> SUFFICES ASSUME LibraryInv, NEW c \in Clauses
             PROVE  LET with(status) == {v \in Versions : ClauseOf[v] = c /\ Status(v) = status} IN
                    /\ Cardinality(with("active")) <= 1
                    /\ with("superseded") # {} => with("active") # {}
  BY DEF OneInForce
<1> DEFINE with(status) == {v \in Versions : ClauseOf[v] = c /\ Status(v) = status}
<1>1. ASSUME NEW v \in with("active"), NEW w \in with("active")
      PROVE  v = w
  BY DEF LibraryInv, PairsInv, PairOK, Siblings, Status
<1>2. Cardinality(with("active")) <= 1
  <2>1. CASE with("active") = {}
    BY <2>1, FS_EmptySet
  <2>2. CASE with("active") # {}
    <3>1. PICK v : with("active") = {v}
      BY <1>1, <2>2
    <3>2. Cardinality({v}) = 1
      BY FS_Singleton
    <3> QED
      BY <3>1, <3>2
  <2> QED
    BY <2>1, <2>2
<1>3. with("superseded") # {} => with("active") # {}
  BY DEF LibraryInv, ClausesInv, ClauseOK, RowsOf
<1> QED
  BY <1>2, <1>3

\* Never two active versions of a clause, and one once there has been one.
THEOREM LibraryHasOneInForce == LibrarySpec => []OneInForce
BY LibraryInvariant, InvOneInForce, PTL

\* The library that the runs check, with its fairness, is such a library.
THEOREM FairLibrary == FairLibrarySpec => [](LibraryTypeOK /\ OneInForce)
BY LibraryIsNumbered, LibraryHasOneInForce, PTL DEF FairLibrarySpec
=============================================================================
