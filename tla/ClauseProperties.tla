--------------------------- MODULE ClauseProperties ---------------------------
(***************************************************************************)
(* What the clause library promises, on committed rows.                    *)
(***************************************************************************)
EXTENDS ClauseVersions

Status(v) == versions[v].com.status

\* The table and the handlers' variables have their types, and the versions of
\* a clause are numbered from 1 without a gap or a repetition, although two
\* additions may read the same highest number.
LibraryTypeOK ==
  /\ today \in FirstDay..LastDay
  /\ versions \in [Versions -> Versioned(VersionRow, Requests)]
  /\ tx \in [Requests -> TxState]
  /\ \A c \in Clauses :
       LET rows == {v \in Versions : ClauseOf[v] = c /\ Status(v) # "none"} IN
       {versions[v].com.number : v \in rows} = 1..Cardinality(rows)

\* One version in force: never two versions of a clause are active, and a
\* clause that has ever had an active version has one, whoever promotes,
\* approves twice, fails or crashes meanwhile.
OneInForce ==
  \A c \in Clauses :
    LET with(status) == {v \in Versions : ClauseOf[v] = c /\ Status(v) = status} IN
    /\ Cardinality(with("active")) <= 1
    /\ with("superseded") # {} => with("active") # {}

\* The connection of a scheduled job is lost: its rollback is neither the
\* unique index's doing nor the deadlock detector's.
JobLost(q) ==
  /\ Op[q] = "promoteDue"
  /\ Crash(q)
  /\ ~(At(q, "activate") /\ Rival(q, tx[q].version))
  /\ ~Deadlocked(q)

\* If the job's connection is not lost forever, an approved version whose day
\* has come does not stay approved: it comes into force.
DueIsPromoted ==
  (<>[][\A q \in Requests : ~JobLost(q)]_library) =>
    \A v \in Versions :
      (Status(v) = "approved" /\ EffectiveFrom[v] <= today) ~> (Status(v) # "approved")

=============================================================================
