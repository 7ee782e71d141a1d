---------------------------- MODULE ClauseVersions ----------------------------
(***************************************************************************)
(* The clause library (apps/api and apps/worker: modules/contract).  The   *)
(* text of a clause is in its versions, each with a first day of effect:   *)
(* draft, then approved, then active when its day has come, superseded by  *)
(* the next.  A version is promoted by the worker's scheduled job, by      *)
(* anybody who lists clauses, or by the approval itself.                   *)
(*                                                                         *)
(* A request is one READ COMMITTED transaction; its actions are its SQL    *)
(* statements.                                                             *)
(***************************************************************************)
EXTENDS Integers, FiniteSets, FiniteSetsExt

CONSTANTS
  Clauses, Versions, ClauseOf,
  EffectiveFrom,         \* a version's first day of effect
  Stored,                \* the versions there are at the start,
  StoredStatus,          \* how far they have come,
  StoredNumber,          \* and their numbers
  Requests, Op, Target,  \* addVersion and approveVersion of a version, list
                         \* clauses, and the worker's job, promoteDue
  After,                 \* a request is sent once these have been answered
  FirstDay, LastDay,     \* the day of the start, and the bound on the days
  PoolSize,              \* open transactions of the API at a time
  Nobody

INSTANCE RowStore

Promoters == {"list", "promoteDue"}
Operations == {"addVersion", "approveVersion"} \cup Promoters

\* A request's program counter: the statement it executes next.
Working == {"findMax", "insert", "approve", "findDue", "findActive",
            "supersede", "activate", "commit"}

VersionStatus == {"none", "draft", "approved", "active", "superseded"}

ASSUME LibraryAssumption ==
  /\ IsFiniteSet(Versions)
  /\ ClauseOf \in [Versions -> Clauses]
  /\ LastDay \in Nat \ {0} /\ FirstDay \in 1..LastDay
  /\ EffectiveFrom \in [Versions -> 1..LastDay]
  /\ Stored \subseteq Versions
  /\ StoredStatus \in [Stored -> VersionStatus \ {"none"}]
  /\ \A v, w \in Stored :
       ClauseOf[v] = ClauseOf[w] /\ v # w =>
         /\ EffectiveFrom[v] # EffectiveFrom[w]
         /\ ~(StoredStatus[v] = "active" /\ StoredStatus[w] = "active")

\* The library at the start is one that requests before have left: what was in
\* force has come into force by then, has only given way to another version,
\* and the numbers of a clause's versions have no gap.
ASSUME StoredAssumption ==
  /\ \A v \in Stored :
       /\ StoredStatus[v] \in {"active", "superseded"} => EffectiveFrom[v] <= FirstDay
       /\ StoredStatus[v] = "superseded" =>
            \E w \in Stored : ClauseOf[w] = ClauseOf[v] /\ StoredStatus[w] = "active"
  /\ StoredNumber \in [Stored -> Nat]
  /\ \A c \in Clauses :
       LET there == {v \in Stored : ClauseOf[v] = c} IN
       {StoredNumber[v] : v \in there} = 1..Cardinality(there)

ASSUME RequestAssumption ==
  /\ IsFiniteSet(Requests)
  /\ Op \in [Requests -> Operations]
  /\ \A q \in Requests : Op[q] \notin Promoters => Target[q] \in Versions
  /\ \A q, r \in Requests :      \* every insert makes a row of its own
       Op[q] = "addVersion" /\ Op[r] = "addVersion" /\ Target[q] = Target[r]
         => q = r /\ Target[q] \notin Stored
  /\ After \in [Requests -> SUBSET Requests]
  /\ PoolSize \in Nat \ {0}
  /\ Nobody \notin Requests \cup Versions

VARIABLES
  today,     \* the date
  versions,  \* clause_versions: status, version_number, effective_to
  tx         \* per request: where its handler is, and its local variables

library == <<today, versions, tx>>

VersionRow == [status : VersionStatus, number : 0..Cardinality(Versions),
               effectiveTo : 0..LastDay]

\* A handler's variables: the highest number it read, the due versions it has
\* still to promote, the one it is at and the active one it found.
TxState == [pc : {"new", "ended"} \cup Working,
            max : 0..Cardinality(Versions),
            due : SUBSET Versions,
            version : Versions \cup {Nobody},
            prior : Versions \cup {Nobody}]

TxAt(pc) == [pc |-> pc, max |-> 0, due |-> {}, version |-> Nobody, prior |-> Nobody]

Siblings(v) == {w \in Versions : ClauseOf[w] = ClauseOf[v]}

StoredRow(v) ==
  [status |-> StoredStatus[v], number |-> StoredNumber[v], effectiveTo |-> 0]
NoRow == [status |-> "none", number |-> 0, effectiveTo |-> 0]

LibraryInit ==
  /\ today = FirstDay
  /\ versions = [v \in Versions |-> Fresh(IF v \in Stored THEN StoredRow(v) ELSE NoRow)]
  /\ tx = [q \in Requests |-> TxAt("new")]

-----------------------------------------------------------------------------
(* Transactions. *)

Open == {q \in Requests : tx[q].pc \in Working}

\* The worker has connections of its own.
CanBegin(q, op) ==
  /\ Op[q] = op
  /\ tx[q].pc = "new"
  /\ op = "promoteDue" \/ Cardinality({r \in Open : Op[r] # "promoteDue"}) < PoolSize
  /\ \A r \in After[q] : tx[r].pc = "ended"

At(q, pc) == tx[q].pc = pc
Goto(q, pc) == tx' = [tx EXCEPT ![q].pc = pc]

\* The handler throws or its connection is lost.  It can be sent again.
Rollback(q) ==
  /\ versions' = RolledBackAll(q, versions)
  /\ tx' = [tx EXCEPT ![q] = TxAt("new")]
  /\ UNCHANGED today

\* The scheduled job and the readers come again; the others are done.
Commit(q) ==
  /\ At(q, "commit")
  /\ versions' = CommittedAll(q, versions)
  /\ tx' = [tx EXCEPT ![q] = TxAt(IF Op[q] \in Promoters THEN "new" ELSE "ended")]
  /\ UNCHANGED today

Crash(q) == q \in Open /\ Rollback(q)

Row(q, v) == Seen(q, versions[v])
Held(q, v) == ~Lockable(q, versions[v])
Update(q, v, row) == versions' = [versions EXCEPT ![v] = Put(q, @, row)]

-----------------------------------------------------------------------------
(* clauses.service.ts: addVersion. *)

\* The first day must be after that of every version there is.
AddVersion(q) ==
  LET v == Target[q] IN
  /\ CanBegin(q, "addVersion")
  /\ \A w \in Siblings(v) :
       Row(q, w).status # "none" => EffectiveFrom[w] < EffectiveFrom[v]
  /\ Goto(q, "findMax")
  /\ UNCHANGED <<today, versions>>

FindMaxVersionNumber(q) ==
  /\ At(q, "findMax")
  /\ tx' = [tx EXCEPT ![q].pc = "insert",
                      ![q].max = Max({Row(q, w).number : w \in Siblings(Target[q])})]
  /\ UNCHANGED <<today, versions>>

NextNumber(max) == max + 1

NoConflict(q) == {}                                                \* mutant
\* The other versions that the unique index on the number meets.
SameNumber(q) ==
  {w \in Siblings(Target[q]) \ {Target[q]} :
     versions[w].cur.number = NextNumber(tx[q].max)}

InsertVersion(q) ==
  LET v == Target[q] IN
  /\ At(q, "insert")
  /\ \A w \in SameNumber(q) : ~Held(q, w)
  /\ \/ SameNumber(q) # {} /\ Rollback(q)
     \/ /\ SameNumber(q) = {}
        /\ Update(q, v, [status |-> "draft", number |-> NextNumber(tx[q].max),
                         effectiveTo |-> 0])
        /\ Goto(q, "commit")
        /\ UNCHANGED today

-----------------------------------------------------------------------------
(* clauses.service.ts: approveVersion. *)

ApproveVersion(q) ==
  /\ CanBegin(q, "approveVersion")
  /\ Row(q, Target[q]).status = "draft"
  /\ Goto(q, "approve")
  /\ UNCHANGED <<today, versions>>

\* The UPDATE does not test the status again.
WriteApproved(q) ==
  LET v == Target[q] IN
  /\ At(q, "approve")
  /\ ~Held(q, v)
  /\ Update(q, v, [versions[v].cur EXCEPT !.status = "approved"])
  /\ Goto(q, "findDue")
  /\ UNCHANGED today

-----------------------------------------------------------------------------
(* clause-promotion.ts, of the API and of the worker: promoteDueVersions,  *)
(* promoteVersion.                                                         *)

StartsBefore(v) == EffectiveFrom[v] < today                        \* mutant
Arrived(v) == EffectiveFrom[v] <= today

Due(q) == {v \in Versions : Row(q, v).status = "approved" /\ Arrived(v)}

\* The scheduled job, or somebody listing clauses, finds versions to promote.
FindDue(q) ==
  /\ Op[q] \in Promoters /\ CanBegin(q, Op[q])
  /\ Due(q) # {}
  /\ tx' = [tx EXCEPT ![q].pc = "findActive", ![q].due = Due(q)]
  /\ UNCHANGED <<today, versions>>

\* The approval ends with the same.
FindDueAfterApproval(q) ==
  /\ At(q, "findDue")
  /\ tx' = [tx EXCEPT ![q].pc = IF Due(q) = {} THEN "commit" ELSE "findActive",
                      ![q].due = Due(q)]
  /\ UNCHANGED <<today, versions>>

\* The loop's next version, in no particular order.
Promoted(q) == [tx EXCEPT ![q].due = @ \ {tx[q].version},
                          ![q].pc = IF tx[q].due \subseteq {tx[q].version}
                                    THEN "commit" ELSE "findActive",
                          ![q].version = Nobody, ![q].prior = Nobody]

Activates(q, v) == tx' = [tx EXCEPT ![q].pc = "activate", ![q].version = v]

FindActiveVersion(q) ==
  \E v \in tx[q].due :
    LET active == {w \in Siblings(v) : Row(q, w).status = "active"} IN
    /\ At(q, "findActive")
    /\ \/ /\ v \in active
          /\ tx' = [tx EXCEPT ![q].due = @ \ {v},
                              ![q].pc = IF tx[q].due = {v} THEN "commit" ELSE @]
       \/ active = {} /\ Activates(q, v)
       \/ \E w \in active \ {v} :
            tx' = [tx EXCEPT ![q].pc = "supersede", ![q].version = v, ![q].prior = w]
    /\ UNCHANGED <<today, versions>>

Superseded(row, v) ==
  [row EXCEPT !.status = "superseded", !.effectiveTo = EffectiveFrom[v]]

SupersedePrior(q) ==
  LET w == tx[q].prior IN
  /\ At(q, "supersede")
  /\ ~Held(q, w)
  /\ Update(q, w, Superseded(versions[w].cur, tx[q].version))
  /\ Goto(q, "activate")
  /\ UNCHANGED today

\* The unique index over a clause's active version: an entry that another
\* transaction has written or removed is waited for.
Undecided(q, v) ==
  {w \in Siblings(v) \ {v} :
     Held(q, w) /\ "active" \in {versions[w].com.status, versions[w].cur.status}}
NoRival(q, v) == FALSE                                             \* mutant
Rival(q, v) ==
  \E w \in Siblings(v) \ {v} : ~Held(q, w) /\ versions[w].cur.status = "active"

Activate(q) ==
  LET v == tx[q].version IN
  /\ At(q, "activate")
  /\ ~Held(q, v)
  /\ Undecided(q, v) = {}
  /\ \/ Rival(q, v) /\ Rollback(q)
     \/ /\ ~Rival(q, v)
        /\ Update(q, v, [versions[v].cur EXCEPT !.status = "active"])
        /\ tx' = Promoted(q)
        /\ UNCHANGED today

-----------------------------------------------------------------------------
\* The rows for which a transaction waits, and the transactions that hold them.
BlockedOn(q) ==
  LET v == tx[q].version IN
  CASE At(q, "insert")    -> SameNumber(q)
    [] At(q, "approve")   -> {Target[q]}
    [] At(q, "supersede") -> {tx[q].prior}
    [] At(q, "activate")  -> {v} \cup Undecided(q, v)
    [] OTHER              -> {}
Blockers(q) == {versions[v].lock : v \in {w \in BlockedOn(q) : Held(q, w)}}

\* Transactions that wait for each other in a circle: the database aborts one.
Deadlocked(q) ==
  \E circle \in SUBSET Open :
    /\ q \in circle
    /\ \A r \in circle : Blockers(r) \cap circle # {}
    /\ circle \subseteq UNION {Blockers(r) : r \in circle}

BreakDeadlock(q) == Deadlocked(q) /\ Rollback(q)

NextDay ==
  /\ today < LastDay
  /\ today' = today + 1
  /\ UNCHANGED <<versions, tx>>

Run(q) ==
  \/ FindMaxVersionNumber(q) \/ InsertVersion(q) \/ WriteApproved(q)
  \/ FindDueAfterApproval(q) \/ FindActiveVersion(q) \/ SupersedePrior(q)
  \/ Activate(q) \/ Commit(q)

LibraryNext ==
  \/ NextDay
  \/ \E q \in Requests :
       \/ AddVersion(q) \/ ApproveVersion(q) \/ FindDue(q)
       \/ Run(q) \/ Crash(q) \/ BreakDeadlock(q)

LibrarySpec == LibraryInit /\ [][LibraryNext]_library

\* Requests that were begun are carried on, also past a lock that others take
\* in turn: the database serves those who wait in order.  The scheduled job
\* keeps coming; nothing obliges a user to do anything.
Fairness ==
  /\ \A q \in Requests : SF_library(Run(q)) /\ WF_library(BreakDeadlock(q))
  /\ \A q \in {r \in Requests : Op[r] = "promoteDue"} : WF_library(FindDue(q))

FairLibrarySpec == LibrarySpec /\ Fairness
=============================================================================
