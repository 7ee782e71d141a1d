---------------------------- MODULE NumberSeries ----------------------------
(***************************************************************************)
(* Document numbers (apps/api: core/numbering, core/provisioning's seed of *)
(* the series).  Every numbered document takes the next value of its       *)
(* series, a row per company, branch, document type and fiscal year, in    *)
(* the transaction that inserts it.  A series is a company, branch and     *)
(* document type here; a key adds the fiscal year.                         *)
(*                                                                         *)
(* A request is one READ COMMITTED transaction, its actions are its SQL    *)
(* statements (see RowStore).  A request that failed is not retried.       *)
(***************************************************************************)
EXTENDS Integers, Sequences, FiniteSets

CONSTANTS
  Series, Years,       \* series, and the fiscal years that occur
  Configured, WithFY,  \* keys with a row at the start; is {FY} in the pattern
  SeedOrder, SeedYear, \* what provisioning seeds, for the year it runs in
  StartMonth,          \* companies.fiscal_year_start_month
  Requests, Op,        \* transactions that number a document, or that seed
  SeriesOf, Date,      \* the document's series and date
  Nobody

INSTANCE RowStore

Keys == Series \X Years

\* computeFiscalYear: a fiscal year is named by the year it starts in.
FiscalYear(date) ==
  IF date.month >= StartMonth THEN date.year ELSE date.year - 1

ASSUME CalendarAssumption ==
  /\ StartMonth \in 1..12
  /\ Years \subseteq Int
  /\ Date \in [Requests -> [year : Int, month : 1..12]]
  /\ \A q \in Requests : FiscalYear(Date[q]) \in Years
  /\ SeedYear \in Years

ASSUME SeriesAssumption ==
  /\ Configured \subseteq Keys
  /\ WithFY \in [Series -> BOOLEAN]
  /\ SeedOrder \in Seq(Series)
  /\ Op \in [Requests -> {"number", "seed"}]
  /\ SeriesOf \in [Requests -> Series]
  /\ Nobody \notin Requests

VARIABLES
  series,   \* number_series: is there a row, current_value, {FY} in its pattern
  issued,   \* the sequence number of each committed document; 0: none
  tx        \* per request: where its handler is, and its local variables

vars == <<series, issued, tx>>

SeriesRow == [there : BOOLEAN, value : Nat, fy : BOOLEAN]

Working == {"select", "prior", "insertSeries", "reselect", "insert", "commit",
            "seed"}
\* setup: no series to roll over from; duplicate: a unique index refused the
\* document; impossible: the row is missing right after its insert.
Ended == {"ended", "setup", "duplicate", "impossible"}

\* fy: the pattern the handler read; number: the value it took; next: the
\* series to seed next.
TxState == [pc : Working \cup Ended, fy : BOOLEAN, number : Nat,
            next : Nat \ {0}]

TxAt(pc) == [pc |-> pc, fy |-> FALSE, number |-> 0, next |-> 1]

NewSeriesFromZero(there, fy) ==                                  \* mutant
  [there |-> there, value |-> -1, fy |-> fy]
NewSeries(there, fy) == [there |-> there, value |-> 0, fy |-> fy]

Init ==
  /\ series = [k \in Keys |->
                 Fresh(NewSeries(k \in Configured, k \in Configured /\ WithFY[k[1]]))]
  /\ issued = [q \in Requests |-> 0]
  /\ tx = [q \in Requests |-> TxAt(IF Op[q] = "seed" THEN "seed" ELSE "select")]

-----------------------------------------------------------------------------
(* Transactions. *)

At(q, pc) == tx[q].pc = pc

Key(q) == <<SeriesOf[q], FiscalYear(Date[q])>>

\* The series after q rolled back, or committed.
LikeASequence(q) == CommittedAll(q, series)                      \* mutant
GivenBack(q) == RolledBackAll(q, series)

StillLocked(q) ==                                                \* mutant
  [k \in Keys |-> IF series[k].lock = q THEN Put(q, Committed(q, series[k]), series[k].cur)
                                        ELSE series[k]]
Stored(q) == CommittedAll(q, series)

Rollback(q, how) ==
  /\ series' = GivenBack(q)
  /\ tx' = [tx EXCEPT ![q] = TxAt(how)]
  /\ UNCHANGED issued

Commit(q) ==
  /\ At(q, "commit")
  /\ series' = Stored(q)
  /\ issued' = [issued EXCEPT ![q] = tx[q].number]
  /\ tx' = [tx EXCEPT ![q] = TxAt("ended")]

\* The rest of the handler throws, or the client or its connection is lost.
Crash(q) == tx[q].pc \in Working /\ Rollback(q, "ended")

-----------------------------------------------------------------------------
(* next-number.ts nextNumber. *)

Unlocked(q, row) == TRUE                                         \* mutant
CanLock(q, row) == Lockable(q, row)

\* SELECT ... FOR UPDATE found the row: count up and remember the value.
Increment(q, row) ==
  LET value == row.cur.value + 1
      counted == [there |-> TRUE, value |-> value, fy |-> row.cur.fy]
  IN
  /\ CanLock(q, row)
  /\ series' = [series EXCEPT ![Key(q)] = Put(q, @, counted)]
  /\ tx' = [tx EXCEPT ![q] = [pc |-> "insert", fy |-> row.cur.fy,
                              number |-> value, next |-> 1]]
  /\ UNCHANGED issued

Goto(q, pc, fy) ==
  tx' = [tx EXCEPT ![q] = [pc |-> pc, fy |-> fy, number |-> 0, next |-> 1]]

SelectSeries(q) ==
  LET row == series[Key(q)] IN
  /\ At(q, "select")
  /\ \/ Seen(q, row).there /\ Increment(q, row)
     \/ /\ ~Seen(q, row).there
        /\ Goto(q, "prior", FALSE)
        /\ UNCHANGED <<series, issued>>

\* The configuration of the latest fiscal year there is, prior or not.
ReadPriorYear(q) ==
  LET there == {y \in Years : Seen(q, series[<<SeriesOf[q], y>>]).there} IN
  /\ At(q, "prior")
  /\ \/ \E latest \in there :
          /\ \A y \in there : y <= latest
          /\ Goto(q, "insertSeries", Seen(q, series[<<SeriesOf[q], latest>>]).fy)
          /\ UNCHANGED <<series, issued>>
     \/ there = {} /\ Rollback(q, "setup")

\* INSERT ... ON CONFLICT DO NOTHING waits for the transaction that is
\* inserting the row, and leaves a row that is there as it is.
NoWait(q, row) == TRUE                                           \* mutant
InsertWaits(q, row) == Lockable(q, row)

DoUpdate(row, new) == [there |-> TRUE, value |-> 0, fy |-> new.fy] \* mutant
DoNothing(row, new) == row

InsertIfMissing(q, k, fy) ==
  LET new == NewSeries(TRUE, fy)
      old == series[k].cur
      row == IF old.there THEN DoNothing(old, new) ELSE new
  IN
  /\ InsertWaits(q, series[k])
  /\ series' = IF row = old THEN series
                            ELSE [series EXCEPT ![k] = Put(q, @, row)]

InsertSeries(q) ==
  /\ At(q, "insertSeries")
  /\ InsertIfMissing(q, Key(q), tx[q].fy)
  /\ Goto(q, "reselect", tx[q].fy)
  /\ UNCHANGED issued

ReselectSeries(q) ==
  LET row == series[Key(q)] IN
  /\ At(q, "reselect")
  /\ \/ Seen(q, row).there /\ Increment(q, row)
     \/ ~Seen(q, row).there /\ Rollback(q, "impossible")

-----------------------------------------------------------------------------
(* The caller's INSERT of the document, with a unique index per company and *)
(* document type on the number as it is printed.                            *)

CalendarYear(q) == Date[q].year                                  \* mutant
PrintedYear(q) == FiscalYear(Date[q])

\* formatDocumentNumber: without {FY} the years of a series print the same.
SamePrinted(q, r, number) ==
  /\ SeriesOf[r] = SeriesOf[q]
  /\ number = tx[q].number
  /\ tx[q].fy => PrintedYear(r) = PrintedYear(q)

InsertDocument(q) ==
  LET duplicate == \E r \in Requests :
                     /\ Op[r] = "number"
                     /\ SamePrinted(q, r, issued[r])
  IN
  /\ At(q, "insert")
  /\ \A r \in Requests \ {q} :      \* the index waits for an open insert
       ~(Op[r] = "number" /\ At(r, "commit") /\ SamePrinted(q, r, tx[r].number))
  /\ \/ /\ ~duplicate
        /\ tx' = [tx EXCEPT ![q].pc = "commit"]
        /\ UNCHANGED <<series, issued>>
     \/ duplicate /\ Rollback(q, "duplicate")

-----------------------------------------------------------------------------
(* seed-number-series.ts seedDefaultNumberSeries: insert each series for   *)
(* the current fiscal year; run again, it leaves the counters alone.       *)

SeedSeries(q) ==
  LET n == tx[q].next IN
  /\ At(q, "seed")
  /\ \/ /\ n <= Len(SeedOrder)
        /\ InsertIfMissing(q, <<SeedOrder[n], SeedYear>>, WithFY[SeedOrder[n]])
        /\ tx' = [tx EXCEPT ![q].next = n + 1]
     \/ /\ n > Len(SeedOrder)
        /\ tx' = [tx EXCEPT ![q].pc = "commit"]
        /\ UNCHANGED series
  /\ UNCHANGED issued

-----------------------------------------------------------------------------
Step(q) ==
  \/ SelectSeries(q) \/ ReadPriorYear(q) \/ InsertSeries(q)
  \/ ReselectSeries(q) \/ InsertDocument(q) \/ SeedSeries(q) \/ Commit(q)

Done == (\A q \in Requests : tx[q].pc \in Ended) /\ UNCHANGED vars

Next == (\E q \in Requests : Step(q) \/ Crash(q)) \/ Done

Spec == Init /\ [][Next]_vars

\* Handlers run on: while some request can take a step, some request does.
Fairness == WF_vars(\E q \in Requests : Step(q))

FairSpec == Spec /\ Fairness

-----------------------------------------------------------------------------
(* What the numbering engine guarantees. *)

\* The counters, the documents and the handlers keep their types.
TypeOK ==
  /\ series \in [Keys -> Versioned(SeriesRow, Requests)]
  /\ issued \in [Requests -> Nat]
  /\ tx \in [Requests -> TxState]

\* The committed documents of a series and fiscal year.
Documents(k) ==
  {q \in Requests : Op[q] = "number" /\ Key(q) = k /\ issued[q] # 0}

\* No two documents of a series and fiscal year have the same number, and the
\* numbers have no gap: those in use are 1 up to the committed counter, also
\* when transactions that took a number rolled back.
Gapless ==
  \A k \in Keys :
    /\ \A q, r \in Documents(k) : issued[q] = issued[r] => q = r
    /\ {issued[q] : q \in Documents(k)} = 1 .. series[k].com.value

\* The re-select after the insert of a rolled-over series always finds it,
\* whoever inserted it and whatever became of that transaction.
SeriesNeverDisappears == \A q \in Requests : ~At(q, "impossible")

\* A number that was handed out is not the number of another document, so that
\* the unique index of the documents never refuses one.  True of series whose
\* pattern has {FY}: the others start again at 1 in every fiscal year.
NewNumberIsUnused == \A q \in Requests : ~At(q, "duplicate")

\* A counter never goes back and a series never disappears, also when
\* provisioning seeds the series of a company again.
CountersNeverReset ==
  [][\A k \in Keys : /\ series[k].com.there => series'[k].com.there
                     /\ series'[k].com.value >= series[k].com.value]_vars

\* Every request that was sent is answered: the locks on the series rows and
\* the inserts of a new fiscal year do not block each other forever.
EveryRequestEnds == <>(\A q \in Requests : tx[q].pc \in Ended)
=============================================================================
