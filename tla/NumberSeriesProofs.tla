------------------------- MODULE NumberSeriesProofs -------------------------
(***************************************************************************)
(* Proofs, for any series, fiscal years and requests, that document        *)
(* numbers are unique and without gaps, that the re-select after a         *)
(* rollover always finds its row, and that numbers whose pattern has {FY}  *)
(* never collide with those of another year.                               *)
(***************************************************************************)
EXTENDS NumberSeries, TLAPS

\* What the holder of a row's lock has written to it: a request that numbers a
\* document has inserted the row, or counted it up by one; provisioning has
\* inserted it.
Held(k, row, q) ==
  \/ /\ Op[q] = "number" /\ Key(q) = k /\ At(q, "reselect")
     /\ ~row.com.there /\ row.cur.there /\ row.cur.value = 0
  \/ /\ Op[q] = "number" /\ Key(q) = k /\ tx[q].pc \in {"insert", "commit"}
     /\ row.cur.there /\ row.cur.value = row.com.value + 1
     /\ tx[q].number = row.cur.value
  \/ /\ Op[q] = "seed" /\ tx[q].pc \in {"seed", "commit"}
     /\ ~row.com.there /\ row.cur.there /\ row.cur.value = 0

RowOK(k, row) ==
  /\ ~row.com.there => row.com.value = 0
  /\ row.com.there => row.cur.there
  /\ row.lock = Nobody => row.cur = row.com
  /\ row.lock # Nobody => Held(k, row, row.lock)

HandlerOK(q) ==
  /\ tx[q].pc \in {"select", "prior", "insertSeries", "reselect", "insert"}
       => Op[q] = "number"
  /\ At(q, "seed") => Op[q] = "seed"
  /\ Op[q] = "number" /\ tx[q].pc \in {"insert", "commit"}
       => series[Key(q)].lock = q
  /\ At(q, "reselect") => Seen(q, series[Key(q)]).there
  /\ ~At(q, "impossible")
  /\ Op[q] = "seed" => tx[q].number = 0 /\ issued[q] = 0
  /\ tx[q].pc \in Working => issued[q] = 0

RowsInv     == \A k \in Keys : RowOK(k, series[k])
HandlersInv == \A q \in Requests : HandlerOK(q)

Inv == TypeOK /\ RowsInv /\ HandlersInv /\ Gapless

-----------------------------------------------------------------------------
(* Rows and handlers. *)

LEMMA KeyType ==
  ASSUME NEW q \in Requests
  PROVE  Key(q) \in Keys
BY CalendarAssumption, SeriesAssumption DEF Key, Keys

\* The row after a transaction ended: its holder is gone, and what is
\* committed was one of the two versions.
LEMMA EndedRow ==
  ASSUME TypeOK, NEW q \in Requests
  PROVE  /\ Stored(q) \in [Keys -> Versioned(SeriesRow, Requests)]
         /\ GivenBack(q) \in [Keys -> Versioned(SeriesRow, Requests)]
         /\ \A k \in Keys : series[k].lock = q =>
              /\ Stored(q)[k].lock = Nobody
              /\ Stored(q)[k].com = series[k].cur
              /\ Stored(q)[k].cur = series[k].cur
              /\ GivenBack(q)[k].lock = Nobody
              /\ GivenBack(q)[k].com = series[k].com
              /\ GivenBack(q)[k].cur = series[k].com
         /\ \A k \in Keys : series[k].lock # q =>
              /\ Stored(q)[k] = series[k]
              /\ GivenBack(q)[k] = series[k]
BY DEF TypeOK, Stored, GivenBack, CommittedAll, RolledBackAll, Committed,
       RolledBack, Fresh, Versioned

LEMMA TxAtType ==
  ASSUME NEW pc \in Working \cup Ended
  PROVE  TxAt(pc) \in TxState /\ TxAt(pc).pc = pc /\ TxAt(pc).number = 0
BY DEF TxAt, TxState

\* A request that has not come to insert or lock its series holds no row.
LEMMA HoldsNothing ==
  ASSUME Inv, NEW q \in Requests, NEW k \in Keys,
         tx[q].pc \in {"select", "prior", "insertSeries"}
  PROVE  series[k].lock # q
BY SeriesAssumption DEF Inv, RowsInv, RowOK, Held, At

\* Gapless is about the committed counters and documents only.
LEMMA GaplessKept ==
  ASSUME Gapless, UNCHANGED issued,
         \A k \in Keys : series'[k].com.value = series[k].com.value
  PROVE  Gapless'
BY DEF Gapless, Documents

LEMMA InitInv == Init => Inv
<1> SUFFICES ASSUME Init PROVE Inv
  OBVIOUS
<1>1. \A k \in Keys :
        /\ series[k] \in Versioned(SeriesRow, Requests)
        /\ series[k].com.value = 0
        /\ series[k].cur = series[k].com
        /\ series[k].lock = Nobody
  <2> TAKE k \in Keys
  <2>1. NewSeries(k \in Configured, k \in Configured /\ WithFY[k[1]])
          \in SeriesRow
    BY SeriesAssumption DEF NewSeries, SeriesRow, Keys
  <2>2. series[k] =
          Fresh(NewSeries(k \in Configured, k \in Configured /\ WithFY[k[1]]))
    BY DEF Init
  <2> QED
    BY <2>1, <2>2 DEF Fresh, Versioned, NewSeries
<1>2. \A q \in Requests :
        /\ tx[q] \in TxState
        /\ tx[q].number = 0
        /\ tx[q].pc = IF Op[q] = "seed" THEN "seed" ELSE "select"
  BY TxAtType DEF Init, Working
<1>3. TypeOK
  <2>1. series \in [Keys -> Versioned(SeriesRow, Requests)]
    BY <1>1 DEF Init
  <2>2. tx \in [Requests -> TxState]
    BY <1>2 DEF Init
  <2> QED
    BY <2>1, <2>2 DEF TypeOK, Init
<1>4. RowsInv
  BY <1>1 DEF RowsInv, RowOK
<1>5. HandlersInv
  BY <1>2, SeriesAssumption DEF HandlersInv, HandlerOK, At, Init
<1>6. Gapless
  <2> SUFFICES ASSUME NEW k \in Keys
               PROVE  /\ \A q, r \in Documents(k) : issued[q] = issued[r] => q = r
                      /\ {issued[q] : q \in Documents(k)} = 1 .. series[k].com.value
    BY DEF Gapless
  <2>1. Documents(k) = {}
    BY DEF Documents, Init
  <2>2. 1 .. series[k].com.value = {}
    BY <1>1
  <2> QED
    BY <2>1, <2>2
<1> QED
  BY <1>3, <1>4, <1>5, <1>6 DEF Inv

-----------------------------------------------------------------------------
(* The end of a transaction. *)

LEMMA RollbackInv ==
  ASSUME Inv, NEW q \in Requests, NEW how \in Ended \ {"impossible"},
         Rollback(q, how)
  PROVE  Inv'
<1>1. /\ series' = GivenBack(q)
      /\ tx' = [tx EXCEPT ![q] = TxAt(how)]
      /\ issued' = issued
      /\ TypeOK
  BY DEF Rollback, Inv
<1>2. TypeOK'
  <2>1. series' \in [Keys -> Versioned(SeriesRow, Requests)]
    BY <1>1, EndedRow
  <2>2. tx' \in [Requests -> TxState]
    BY <1>1, TxAtType DEF TypeOK
  <2> QED
    BY <1>1, <2>1, <2>2 DEF TypeOK
<1>3. /\ tx'[q].pc = how /\ tx'[q].number = 0
      /\ \A r \in Requests \ {q} : tx'[r] = tx[r]
  BY <1>1, TxAtType DEF TypeOK
<1>4. \A k \in Keys :
        /\ series[k].lock = q => /\ series'[k].lock = Nobody
                                 /\ series'[k].com = series[k].com
                                 /\ series'[k].cur = series[k].com
        /\ series[k].lock # q => series'[k] = series[k]
  BY <1>1, EndedRow
<1>5. RowsInv'
  <2> SUFFICES ASSUME NEW k \in Keys PROVE RowOK(k, series[k])'
    BY DEF RowsInv
  <2>1. CASE series[k].lock = q
    BY <1>4, <2>1 DEF Inv, RowsInv, RowOK
  <2>2. CASE series[k].lock # q
    <3>1. series'[k] = series[k] /\ RowOK(k, series[k])
      BY <1>4, <2>2 DEF Inv, RowsInv
    <3>2. series[k].lock # Nobody => series[k].lock \in Requests \ {q}
      BY <2>2, <1>1 DEF TypeOK, Versioned
    <3> QED
      BY <1>3, <3>1, <3>2 DEF RowOK, Held, At
  <2> QED
    BY <2>1, <2>2
<1>6. HandlersInv'
  <2> SUFFICES ASSUME NEW r \in Requests PROVE HandlerOK(r)'
    BY DEF HandlersInv
  <2>1. CASE r = q
    BY <1>1, <1>3, <2>1 DEF Inv, HandlersInv, HandlerOK, At, Ended, Working
  <2>2. CASE r # q
    <3>1. tx'[r] = tx[r] /\ issued'[r] = issued[r] /\ HandlerOK(r)
      BY <1>1, <1>3, <2>2 DEF Inv, HandlersInv
    <3>2. /\ series[Key(r)].lock = r => series'[Key(r)].lock = r
          /\ Seen(r, series[Key(r)]).there => Seen(r, series[Key(r)])'.there
      BY <1>4, <2>2, KeyType, SeriesAssumption DEF Seen
    <3> QED
      BY <3>1, <3>2 DEF HandlerOK, At
  <2> QED
    BY <2>1, <2>2
<1>7. Gapless'
  BY <1>1, <1>4, GaplessKept DEF Inv
<1> QED
  BY <1>2, <1>5, <1>6, <1>7 DEF Inv

\* Committing a document appends its number to those of its series.
LEMMA CommitInv ==
  ASSUME Inv, NEW q \in Requests, Commit(q)
  PROVE  Inv'
<1>1. /\ series' = Stored(q)
      /\ tx' = [tx EXCEPT ![q] = TxAt("ended")]
      /\ issued' = [issued EXCEPT ![q] = tx[q].number]
      /\ TypeOK
      /\ tx[q].pc = "commit"
  BY DEF Commit, Inv, At
<1>2. TypeOK'
  <2>1. tx[q].number \in Nat
    BY <1>1 DEF TypeOK, TxState
  <2>2. series' \in [Keys -> Versioned(SeriesRow, Requests)]
    BY <1>1, EndedRow
  <2>3. tx' \in [Requests -> TxState]
    BY <1>1, TxAtType DEF TypeOK, Ended
  <2> QED
    BY <1>1, <2>1, <2>2, <2>3 DEF TypeOK
<1>3. /\ tx'[q].pc = "ended" /\ tx'[q].number = 0
      /\ issued'[q] = tx[q].number
      /\ \A r \in Requests \ {q} : tx'[r] = tx[r] /\ issued'[r] = issued[r]
  BY <1>1, TxAtType DEF TypeOK, Ended
<1>4. \A k \in Keys :
        /\ series[k].lock = q => /\ series'[k].lock = Nobody
                                 /\ series'[k].com = series[k].cur
                                 /\ series'[k].cur = series[k].cur
        /\ series[k].lock # q => series'[k] = series[k]
  BY <1>1, EndedRow
<1>5. \A k \in Keys : series[k].lock = q => Held(k, series[k], q)
  BY SeriesAssumption DEF Inv, RowsInv, RowOK
<1>6. RowsInv'
  <2> SUFFICES ASSUME NEW k \in Keys PROVE RowOK(k, series[k])'
    BY DEF RowsInv
  <2>1. CASE series[k].lock = q
    BY <1>4, <1>5, <2>1 DEF RowOK, Held
  <2>2. CASE series[k].lock # q
    <3>1. series'[k] = series[k] /\ RowOK(k, series[k])
      BY <1>4, <2>2 DEF Inv, RowsInv
    <3>2. series[k].lock # Nobody => series[k].lock \in Requests \ {q}
      BY <2>2, <1>1 DEF TypeOK, Versioned
    <3> QED
      BY <1>3, <3>1, <3>2 DEF RowOK, Held, At
  <2> QED
    BY <2>1, <2>2
<1>7. HandlersInv'
  <2> SUFFICES ASSUME NEW r \in Requests PROVE HandlerOK(r)'
    BY DEF HandlersInv
  <2>1. CASE r = q
    BY <1>1, <1>3, <2>1 DEF Inv, HandlersInv, HandlerOK, At, Working
  <2>2. CASE r # q
    <3>1. tx'[r] = tx[r] /\ issued'[r] = issued[r] /\ HandlerOK(r)
      BY <1>3, <2>2 DEF Inv, HandlersInv
    <3>2. RowOK(Key(r), series[Key(r)])
      BY KeyType DEF Inv, RowsInv
    <3>3. /\ series[Key(r)].lock = r => series'[Key(r)].lock = r
          /\ Seen(r, series[Key(r)]).there => Seen(r, series[Key(r)])'.there
      BY <1>4, <2>2, <3>2, KeyType, SeriesAssumption DEF Seen, RowOK
    <3> QED
      BY <3>1, <3>3 DEF HandlerOK, At
  <2> QED
    BY <2>1, <2>2
<1>8. Gapless'
  <2>1. CASE Op[q] = "number"
    <3> DEFINE key == Key(q)
               n == series[key].com.value
    <3>1. /\ key \in Keys
          /\ series[key].lock = q
          /\ series[key].cur.value = n + 1
          /\ tx[q].number = n + 1
          /\ n \in Nat
          /\ issued[q] = 0
      <4>1. key \in Keys /\ series[key].lock = q /\ issued[q] = 0
        BY <1>1, <2>1, KeyType DEF Inv, HandlersInv, HandlerOK, Working
      <4>2. series[key] \in Versioned(SeriesRow, Requests)
        BY <1>1, <4>1 DEF TypeOK
      <4> QED
        BY <1>1, <1>5, <2>1, <4>1, <4>2
           DEF Held, At, Versioned, SeriesRow
    <3>2. \A k \in Keys \ {key} :
            series'[k].com = series[k].com /\ Documents(k)' = Documents(k)
      <4> TAKE k \in Keys \ {key}
      <4>1. series[k].lock # q
        BY <1>1, <1>5, <2>1 DEF Held
      <4>2. Documents(k)' = Documents(k)
        BY <1>3 DEF Documents
      <4> QED
        BY <1>4, <4>1, <4>2
    <3>3. Documents(key)' = Documents(key) \cup {q}
      BY <1>3, <2>1, <3>1 DEF Documents
    <3>4. q \notin Documents(key)
      BY <3>1 DEF Documents
    <3>5. series'[key].com.value = n + 1 /\ issued'[q] = n + 1
      BY <1>3, <1>4, <3>1
    <3>6. /\ \A a, b \in Documents(key) : issued[a] = issued[b] => a = b
          /\ {issued[a] : a \in Documents(key)} = 1 .. n
      BY <3>1 DEF Inv, Gapless
    <3>7. \A a \in Documents(key) :
            a \in Requests \ {q} /\ issued'[a] = issued[a] /\ issued[a] \in 1 .. n
      BY <1>3, <3>4, <3>6 DEF Documents
    <3>8. {issued'[a] : a \in Documents(key)'} = 1 .. (n + 1)
      <4>1. {issued'[a] : a \in Documents(key)'} = (1 .. n) \cup {n + 1}
        BY <3>3, <3>5, <3>6, <3>7
      <4>2. (1 .. n) \cup {n + 1} = 1 .. (n + 1)
        BY <3>1
      <4> QED
        BY <4>1, <4>2
    <3>9. \A a, b \in Documents(key)' : issued'[a] = issued'[b] => a = b
      BY <3>1, <3>3, <3>5, <3>6, <3>7
    <3>10. \A k \in Keys \ {key} :
             /\ \A a, b \in Documents(k)' : issued'[a] = issued'[b] => a = b
             /\ {issued'[a] : a \in Documents(k)'} = 1 .. series'[k].com.value
      <4> TAKE k \in Keys \ {key}
      <4>1. /\ \A a, b \in Documents(k) : issued[a] = issued[b] => a = b
            /\ {issued[a] : a \in Documents(k)} = 1 .. series[k].com.value
        BY DEF Inv, Gapless
      <4>2. \A a \in Documents(k) : issued'[a] = issued[a]
        BY <1>3 DEF Documents
      <4> QED
        BY <3>2, <4>1, <4>2
    <3> QED
      BY <3>5, <3>8, <3>9, <3>10 DEF Gapless
  <2>2. CASE Op[q] # "number"
    <3>1. issued' = issued
      <4>1. Op[q] = "seed"
        BY <2>2, SeriesAssumption
      <4>2. issued[q] = 0 /\ tx[q].number = 0
        BY <4>1 DEF Inv, HandlersInv, HandlerOK
      <4> QED
        BY <1>1, <4>2 DEF TypeOK
    <3>2. \A k \in Keys : series'[k].com.value = series[k].com.value
      BY <1>4, <1>5, <2>2 DEF Held, Inv, RowsInv, RowOK
    <3> QED
      BY <3>1, <3>2, GaplessKept DEF Inv
  <2> QED
    BY <2>1, <2>2
<1> QED
  BY <1>2, <1>6, <1>7, <1>8 DEF Inv

-----------------------------------------------------------------------------
(* The steps of a request. *)

\* A step that changes no row: the handler of q, which holds no row it should
\* not hold, goes on.
LEMMA HandlerStep ==
  ASSUME Inv, NEW q \in Requests, NEW t \in TxState,
         tx' = [tx EXCEPT ![q] = t], UNCHANGED <<series, issued>>,
         HandlerOK(q)',
         \A k \in Keys : series[k].lock = q => Held(k, series[k], q)'
  PROVE  Inv'
<1>1. TypeOK'
  BY DEF Inv, TypeOK
<1>2. tx'[q] = t /\ \A r \in Requests \ {q} : tx'[r] = tx[r]
  BY DEF Inv, TypeOK
<1>3. RowsInv'
  <2> SUFFICES ASSUME NEW k \in Keys PROVE RowOK(k, series[k])'
    BY DEF RowsInv
  <2>1. RowOK(k, series[k]) /\ series[k].lock \in Requests \cup {Nobody}
    BY DEF Inv, RowsInv, TypeOK, Versioned
  <2> QED
    BY <1>2, <2>1 DEF RowOK, Held, At
<1>4. HandlersInv'
  BY <1>2 DEF Inv, HandlersInv, HandlerOK, At, Seen
<1>5. Gapless'
  BY GaplessKept DEF Inv
<1> QED
  BY <1>1, <1>3, <1>4, <1>5 DEF Inv

\* A step in which q locks row k, which is free or its own already, and writes
\* version v of it.
LEMMA WriteStep ==
  ASSUME Inv, NEW q \in Requests, NEW t \in TxState, NEW k \in Keys,
         NEW v \in SeriesRow,
         tx' = [tx EXCEPT ![q] = t],
         series' = [series EXCEPT ![k] = Put(q, @, v)],
         UNCHANGED issued,
         Lockable(q, series[k]), v.there,
         HandlerOK(q)', Held(k, series[k], q)',
         \A m \in Keys \ {k} : series[m].lock = q => Held(m, series[m], q)'
  PROVE  Inv'
<1>1. series[k] \in Versioned(SeriesRow, Requests)
  BY DEF Inv, TypeOK
<1>2. /\ series'[k].com = series[k].com
      /\ series'[k].cur = v
      /\ series'[k].lock = q
      /\ \A m \in Keys \ {k} : series'[m] = series[m]
  BY DEF Inv, TypeOK, Put
<1>3. TypeOK'
  BY <1>1 DEF Inv, TypeOK, Put, Versioned
<1>4. tx'[q] = t /\ \A r \in Requests \ {q} : tx'[r] = tx[r]
  BY DEF Inv, TypeOK
<1>5. RowsInv'
  <2> SUFFICES ASSUME NEW m \in Keys PROVE RowOK(m, series[m])'
    BY DEF RowsInv
  <2>1. CASE m = k
    BY <1>2, <2>1, SeriesAssumption DEF Inv, RowsInv, RowOK
  <2>2. CASE m # k
    <3>1. /\ RowOK(m, series[m])
          /\ series[m].lock \in Requests \cup {Nobody}
          /\ series'[m] = series[m]
      BY <1>2, <2>2 DEF Inv, RowsInv, TypeOK, Versioned
    <3> QED
      BY <1>4, <2>2, <3>1 DEF RowOK, Held, At
  <2> QED
    BY <2>1, <2>2
<1>6. HandlersInv'
  <2> SUFFICES ASSUME NEW r \in Requests PROVE HandlerOK(r)'
    BY DEF HandlersInv
  <2>1. CASE r # q
    <3>1. /\ tx'[r] = tx[r]
          /\ issued'[r] = issued[r]
          /\ HandlerOK(r)
          /\ Key(r) \in Keys
      BY <1>4, <2>1, KeyType DEF Inv, HandlersInv
    <3>2. /\ series[Key(r)].lock = r => series'[Key(r)].lock = r
          /\ Seen(r, series[Key(r)]).there => Seen(r, series[Key(r)])'.there
      <4>1. CASE Key(r) = k
        BY <1>2, <2>1, <4>1, SeriesAssumption DEF Seen, Lockable
      <4>2. CASE Key(r) # k
        BY <1>2, <3>1, <4>2 DEF Seen
      <4> QED
        BY <4>1, <4>2
    <3> QED
      BY <3>1, <3>2 DEF HandlerOK, At
  <2> QED
    BY <2>1
<1>7. Gapless'
  <2>1. \A m \in Keys : series'[m].com.value = series[m].com.value
    BY <1>2
  <2> QED
    BY <2>1, GaplessKept DEF Inv
<1> QED
  BY <1>3, <1>5, <1>6, <1>7 DEF Inv

\* The counter is one ahead of the committed one while its row is locked, so
\* that the number taken is the first that no document has.
LEMMA IncrementInv ==
  ASSUME Inv, NEW q \in Requests, tx[q].pc \in {"select", "reselect"},
         Seen(q, series[Key(q)]).there, Increment(q, series[Key(q)])
  PROVE  Inv'
<1> DEFINE k == Key(q)
           row == series[k]
           value == row.cur.value + 1
           v == [there |-> TRUE, value |-> value, fy |-> row.cur.fy]
           t == [pc |-> "insert", fy |-> row.cur.fy, number |-> value, next |-> 1]
<1>1. /\ k \in Keys
      /\ row \in Versioned(SeriesRow, Requests)
      /\ row.cur \in SeriesRow
      /\ row.com \in SeriesRow
      /\ RowOK(k, row)
      /\ HandlerOK(q)
  BY KeyType DEF Inv, TypeOK, RowsInv, HandlersInv, Versioned
<1>2. v \in SeriesRow /\ t \in TxState /\ v.there
  BY <1>1 DEF SeriesRow, TxState, Working
<1>3. /\ tx' = [tx EXCEPT ![q] = t]
      /\ series' = [series EXCEPT ![k] = Put(q, @, v)]
      /\ UNCHANGED issued
      /\ Lockable(q, row)
  BY DEF Increment, CanLock
<1>4. Op[q] = "number" /\ issued[q] = 0
  BY <1>1 DEF HandlerOK, Working
<1>5. row.cur.value = row.com.value
  <2>1. CASE row.lock = Nobody
    BY <1>1, <2>1 DEF RowOK
  <2>2. CASE row.lock = q
    BY <1>1, <1>4, <2>2, SeriesAssumption DEF RowOK, Held, At
  <2> QED
    BY <1>3, <2>1, <2>2 DEF Lockable
<1>6. /\ tx'[q] = t
      /\ series'[k].lock = q /\ series'[k].com = row.com /\ series'[k].cur = v
      /\ \A m \in Keys \ {k} : series'[m] = series[m]
  BY <1>1, <1>3 DEF Inv, TypeOK, Put
<1>7. HandlerOK(q)'
  BY <1>3, <1>4, <1>6 DEF HandlerOK, At
<1>8. Held(k, series[k], q)'
  BY <1>4, <1>5, <1>6 DEF Held, At
<1>9. \A m \in Keys \ {k} : series[m].lock # q
  BY <1>4, SeriesAssumption DEF Inv, RowsInv, RowOK, Held
<1> QED
  BY <1>1, <1>2, <1>3, <1>7, <1>8, <1>9, WriteStep

LEMMA SelectSeriesInv ==
  ASSUME Inv, NEW q \in Requests, SelectSeries(q)
  PROVE  Inv'
<1>1. CASE Seen(q, series[Key(q)]).there /\ Increment(q, series[Key(q)])
  BY <1>1, IncrementInv DEF SelectSeries, At
<1>2. CASE Goto(q, "prior", FALSE) /\ UNCHANGED <<series, issued>>
  <2> DEFINE t == [pc |-> "prior", fy |-> FALSE, number |-> 0, next |-> 1]
  <2>1. t \in TxState /\ tx' = [tx EXCEPT ![q] = t] /\ tx'[q] = t
    BY <1>2 DEF Goto, TxState, Working, Inv, TypeOK
  <2>2. HandlerOK(q)'
    BY <1>2, <2>1 DEF SelectSeries, Inv, HandlersInv, HandlerOK, At, Working
  <2>3. \A k \in Keys : series[k].lock # q
    BY HoldsNothing DEF SelectSeries, At
  <2> QED
    BY <1>2, <2>1, <2>2, <2>3, HandlerStep
<1> QED
  BY <1>1, <1>2 DEF SelectSeries

LEMMA ReadPriorYearInv ==
  ASSUME Inv, NEW q \in Requests, ReadPriorYear(q)
  PROVE  Inv'
<1> DEFINE there == {y \in Years : Seen(q, series[<<SeriesOf[q], y>>]).there}
<1>1. CASE Rollback(q, "setup")
  BY <1>1, RollbackInv DEF Ended
<1>2. CASE /\ \E latest \in there :
                Goto(q, "insertSeries",
                     Seen(q, series[<<SeriesOf[q], latest>>]).fy)
           /\ UNCHANGED <<series, issued>>
  <2>1. PICK latest \in Years :
          Goto(q, "insertSeries", Seen(q, series[<<SeriesOf[q], latest>>]).fy)
    BY <1>2
  <2> DEFINE fy == Seen(q, series[<<SeriesOf[q], latest>>]).fy
             t == [pc |-> "insertSeries", fy |-> fy, number |-> 0, next |-> 1]
  <2>2. <<SeriesOf[q], latest>> \in Keys
    BY SeriesAssumption DEF Keys
  <2>3. fy \in BOOLEAN
    BY <2>2 DEF Inv, TypeOK, Seen, Versioned, SeriesRow
  <2>4. t \in TxState /\ tx' = [tx EXCEPT ![q] = t] /\ tx'[q] = t
    BY <2>1, <2>3 DEF Goto, TxState, Working, Inv, TypeOK
  <2>5. HandlerOK(q)'
    BY <1>2, <2>4 DEF ReadPriorYear, Inv, HandlersInv, HandlerOK, At, Working
  <2>6. \A k \in Keys : series[k].lock # q
    BY HoldsNothing DEF ReadPriorYear, At
  <2> QED
    BY <1>2, <2>4, <2>5, <2>6, HandlerStep
<1> QED
  BY <1>1, <1>2 DEF ReadPriorYear

LEMMA ReselectSeriesInv ==
  ASSUME Inv, NEW q \in Requests, ReselectSeries(q)
  PROVE  Inv'
<1>1. Seen(q, series[Key(q)]).there
  BY DEF ReselectSeries, Inv, HandlersInv, HandlerOK
<1> QED
  BY <1>1, IncrementInv DEF ReselectSeries, At

\* Whoever inserted the row that was in the way has committed it, or the row
\* is not in the way any more.
LEMMA InsertSeriesInv ==
  ASSUME Inv, NEW q \in Requests, InsertSeries(q)
  PROVE  Inv'
<1> DEFINE k == Key(q)
           old == series[k].cur
           v == NewSeries(TRUE, tx[q].fy)
           t == [pc |-> "reselect", fy |-> tx[q].fy, number |-> 0, next |-> 1]
<1>1. /\ k \in Keys
      /\ series[k] \in Versioned(SeriesRow, Requests)
      /\ tx[q] \in TxState
      /\ RowOK(k, series[k])
      /\ HandlerOK(q)
      /\ tx[q].pc = "insertSeries"
      /\ UNCHANGED issued
  BY KeyType DEF InsertSeries, At, Inv, TypeOK, RowsInv, HandlersInv
<1>2. t \in TxState /\ tx' = [tx EXCEPT ![q] = t] /\ tx'[q] = t
  BY <1>1 DEF InsertSeries, Goto, TxState, Working, Inv, TypeOK
<1>3. \A m \in Keys : series[m].lock # q
  BY <1>1, HoldsNothing
<1>4. series[k].lock = Nobody /\ series[k].com = old /\ Lockable(q, series[k])
  BY <1>1, <1>3 DEF InsertSeries, InsertIfMissing, InsertWaits, Lockable, RowOK
<1>5. Op[q] = "number" /\ issued[q] = 0
  BY <1>1 DEF HandlerOK, Working
<1>6. CASE old.there
  <2>1. UNCHANGED series
    BY <1>6 DEF InsertSeries, InsertIfMissing, DoNothing
  <2>2. HandlerOK(q)'
    BY <1>1, <1>2, <1>4, <1>5, <1>6, <2>1 DEF HandlerOK, At, Seen
  <2> QED
    BY <1>1, <1>2, <1>3, <2>1, <2>2, HandlerStep
<1>7. CASE ~old.there
  <2>1. v \in SeriesRow /\ v.there /\ v.value = 0
    BY <1>1 DEF NewSeries, SeriesRow, TxState
  <2>2. series' = [series EXCEPT ![k] = Put(q, @, v)]
    BY <1>7, <2>1 DEF InsertSeries, InsertIfMissing
  <2>3. series'[k] = [com |-> old, cur |-> v, lock |-> q]
    BY <1>1, <1>4, <2>2 DEF Put, Inv, TypeOK
  <2>4. Held(k, series[k], q)'
    BY <1>2, <1>5, <1>7, <2>1, <2>3 DEF Held, At, NewSeries
  <2>5. HandlerOK(q)'
    BY <1>1, <1>2, <1>5, <2>1, <2>3 DEF HandlerOK, At, Seen, NewSeries
  <2> QED
    BY <1>1, <1>2, <1>3, <1>4, <2>1, <2>2, <2>4, <2>5, WriteStep
<1> QED
  BY <1>6, <1>7

\* A rejected number leaves no document; an accepted one holds its row until
\* it is committed.
LEMMA InsertDocumentInv ==
  ASSUME Inv, NEW q \in Requests, InsertDocument(q)
  PROVE  Inv'
<1>1. CASE Rollback(q, "duplicate")
  BY <1>1, RollbackInv DEF Ended
<1>2. CASE /\ tx' = [tx EXCEPT ![q].pc = "commit"]
           /\ UNCHANGED <<series, issued>>
  <2> DEFINE t == [tx[q] EXCEPT !.pc = "commit"]
  <2>1. /\ tx[q] \in TxState
        /\ tx[q].pc = "insert"
        /\ HandlerOK(q)
    BY DEF InsertDocument, At, Inv, TypeOK, HandlersInv
  <2>2. t \in TxState /\ tx' = [tx EXCEPT ![q] = t] /\ tx'[q] = t
    BY <1>2, <2>1 DEF TxState, Working, Inv, TypeOK
  <2>3. t.pc = "commit" /\ t.number = tx[q].number
    BY <2>1 DEF TxState
  <2>4. HandlerOK(q)'
    BY <1>2, <2>1, <2>2, <2>3 DEF HandlerOK, At, Working
  <2>5. ASSUME NEW k \in Keys, series[k].lock = q
        PROVE  Held(k, series[k], q)'
    <3>1. Held(k, series[k], q)
      BY <2>5, SeriesAssumption DEF Inv, RowsInv, RowOK
    <3> QED
      BY <1>2, <2>1, <2>2, <2>3, <3>1 DEF Held, At
  <2> QED
    BY <1>2, <2>2, <2>4, <2>5, HandlerStep
<1> QED
  BY <1>1, <1>2 DEF InsertDocument

\* Provisioning inserts the series that are missing and touches no other.
LEMMA SeedSeriesInv ==
  ASSUME Inv, NEW q \in Requests, SeedSeries(q)
  PROVE  Inv'
<1> DEFINE n == tx[q].next
<1>1. /\ tx[q] \in TxState
      /\ tx[q].pc = "seed"
      /\ HandlerOK(q)
      /\ UNCHANGED issued
      /\ Op[q] = "seed"
      /\ n \in Nat \ {0}
  BY DEF SeedSeries, At, Inv, TypeOK, HandlersInv, HandlerOK, TxState
<1>2. \A m \in Keys : series[m].lock = q =>
        /\ ~series[m].com.there /\ series[m].cur.there
        /\ series[m].cur.value = 0
  BY <1>1, SeriesAssumption DEF Inv, RowsInv, RowOK, Held
<1>3. ASSUME NEW t \in TxState, tx' = [tx EXCEPT ![q] = t],
             t.pc \in {"seed", "commit"}, t.number = 0
      PROVE  /\ HandlerOK(q)'
             /\ \A m \in Keys : series[m].lock = q /\ series'[m] = series[m]
                  => Held(m, series[m], q)'
  <2>1. tx'[q] = t
    BY <1>3 DEF Inv, TypeOK
  <2> QED
    BY <1>1, <1>2, <1>3, <2>1 DEF HandlerOK, At, Held, Working
<1>4. CASE n > Len(SeedOrder)
  <2> DEFINE t == [tx[q] EXCEPT !.pc = "commit"]
  <2>1. tx' = [tx EXCEPT ![q] = t] /\ UNCHANGED series
    BY <1>1, <1>4, SeriesAssumption DEF SeedSeries, Inv, TypeOK
  <2>2. t \in TxState /\ t.pc = "commit" /\ t.number = 0
    BY <1>1 DEF TxState, Working, HandlerOK
  <2> QED
    BY <1>1, <1>3, <2>1, <2>2, HandlerStep
<1>5. CASE n <= Len(SeedOrder)
  <2>0. PICK s \in Series : s = SeedOrder[n]
    BY <1>1, <1>5, SeriesAssumption
  <2> DEFINE t == [tx[q] EXCEPT !.next = n + 1]
             k == <<s, SeedYear>>
             old == series[k].cur
             v == NewSeries(TRUE, WithFY[s])
  <2>1. /\ tx' = [tx EXCEPT ![q] = t]
        /\ InsertIfMissing(q, k, WithFY[s])
    BY <1>1, <1>5, <2>0, SeriesAssumption DEF SeedSeries, Inv, TypeOK
  <2>2. t \in TxState /\ t.pc = "seed" /\ t.number = 0
    BY <1>1 DEF TxState, Working, HandlerOK
  <2>3. k \in Keys
    BY CalendarAssumption DEF Keys
  <2>4. CASE old.there
    <3>1. UNCHANGED series
      BY <2>1, <2>4 DEF InsertIfMissing, DoNothing
    <3> QED
      BY <1>1, <1>3, <2>1, <2>2, <3>1, HandlerStep
  <2>5. CASE ~old.there
    <3>1. v \in SeriesRow /\ v.there /\ v.value = 0
      BY SeriesAssumption DEF NewSeries, SeriesRow
    <3>2. /\ series' = [series EXCEPT ![k] = Put(q, @, v)]
          /\ Lockable(q, series[k])
      BY <2>1, <2>5, <3>1 DEF InsertIfMissing, InsertWaits
    <3>3. series[k].lock = Nobody /\ RowOK(k, series[k])
      BY <1>2, <2>3, <2>5, <3>2 DEF Lockable, Inv, RowsInv
    <3>4. series'[k] = [com |-> old, cur |-> v, lock |-> q]
      BY <2>3, <3>2, <3>3 DEF Put, Inv, TypeOK, RowOK
    <3>5. \A m \in Keys \ {k} : series'[m] = series[m]
      BY <3>2 DEF Inv, TypeOK
    <3>6. tx'[q] = t
      BY <2>1 DEF Inv, TypeOK
    <3>7. Held(k, series[k], q)'
      BY <1>1, <2>2, <2>5, <3>1, <3>4, <3>6 DEF Held, At, NewSeries
    <3>8. /\ HandlerOK(q)'
          /\ \A m \in Keys \ {k} : series[m].lock = q => Held(m, series[m], q)'
      BY <1>3, <2>1, <2>2, <3>5
    <3> QED
      BY <1>1, <2>1, <2>2, <2>3, <3>1, <3>2, <3>7, <3>8, WriteStep
  <2> QED
    BY <2>4, <2>5
<1> QED
  BY <1>1, <1>4, <1>5, SeriesAssumption

LEMMA NextInv == Inv /\ [Next]_vars => Inv'
<1> SUFFICES ASSUME Inv, [Next]_vars PROVE Inv'
  OBVIOUS
<1>1. CASE UNCHANGED vars
  BY <1>1 DEF vars, Inv, TypeOK, RowsInv, RowOK, Held, HandlersInv, HandlerOK,
     Gapless, Documents, At, Seen
<1>2. ASSUME NEW q \in Requests, Step(q) PROVE Inv'
  BY <1>2, SelectSeriesInv, ReadPriorYearInv, InsertSeriesInv,
     ReselectSeriesInv, InsertDocumentInv, SeedSeriesInv, CommitInv DEF Step
<1>3. ASSUME NEW q \in Requests, Crash(q) PROVE Inv'
  BY <1>3, RollbackInv DEF Crash, Ended
<1> QED
  BY <1>1, <1>2, <1>3 DEF Next, Done

\* The invariant on rows, handlers and documents holds in every reachable state.
THEOREM Invariance == Spec => []Inv
BY InitInv, NextInv, PTL DEF Spec

-----------------------------------------------------------------------------
(* Theorems. *)

\* The counters, the documents and the handler variables keep their types: a
\* counter is never negative, whoever counts, rolls over or seeds it.
THEOREM NumberTypes == Spec => []TypeOK
<1>1. Inv => TypeOK
  BY DEF Inv
<1> QED
  BY <1>1, Invariance, PTL

\* Documents of a series and fiscal year are numbered 1, 2, 3, ... without
\* duplicates or gaps, in any interleaving of the requests and whatever
\* transactions roll back after they took a number.
THEOREM NumbersAreGapless == Spec => []Gapless
<1>1. Inv => Gapless
  BY DEF Inv
<1> QED
  BY <1>1, Invariance, PTL

\* nextNumber's last branch, "just inserted row missing", is never reached.
THEOREM SeriesStay == Spec => []SeriesNeverDisappears
<1>1. Inv => SeriesNeverDisappears
  BY DEF Inv, HandlersInv, HandlerOK, SeriesNeverDisappears
<1> QED
  BY <1>1, Invariance, PTL

\* Seeding the series of a company again, rolling over to a new fiscal year,
\* or rolling back never takes a counter back and never removes a series.
THEOREM CountersOnlyGrow == Spec => CountersNeverReset
<1>1. Inv /\ [Next]_vars =>
        [\A k \in Keys : /\ series[k].com.there => series'[k].com.there
                         /\ series'[k].com.value >= series[k].com.value]_vars
  <2> SUFFICES ASSUME Inv, Next, NEW k \in Keys
               PROVE  /\ series[k].com.there => series'[k].com.there
                      /\ series'[k].com.value >= series[k].com.value
    BY DEF vars
  <2>1. /\ series[k] \in Versioned(SeriesRow, Requests)
        /\ RowOK(k, series[k])
    BY DEF Inv, TypeOK, RowsInv
  <2>2. series[k].com.value \in Int /\ series[k].cur.value \in Int
    BY <2>1 DEF Versioned, SeriesRow
  <2>3. CASE series'[k].com = series[k].com
    BY <2>2, <2>3
  <2>4. ASSUME NEW q \in Requests, Step(q) \/ Crash(q)
        PROVE  \/ series'[k].com = series[k].com
               \/ series[k].lock = q /\ series'[k].com = series[k].cur
    <3>1. ASSUME NEW how, Rollback(q, how)
          PROVE  series'[k].com = series[k].com
      BY <3>1, EndedRow DEF Rollback, Inv
    <3>2. ASSUME NEW m \in Keys, NEW v,
                 series' = [series EXCEPT ![m] = Put(q, @, v)]
          PROVE  series'[k].com = series[k].com
      BY <3>2 DEF Put, Inv, TypeOK
    <3>3. CASE Commit(q)
      BY <3>3, EndedRow DEF Commit, Inv
    <3>4. ASSUME NEW m \in Keys, NEW fy, InsertIfMissing(q, m, fy)
          PROVE  series'[k].com = series[k].com
      BY <3>2, <3>4 DEF InsertIfMissing
    <3>5. CASE SelectSeries(q)
      BY <3>2, <3>5, KeyType DEF SelectSeries, Increment
    <3>6. CASE ReadPriorYear(q)
      BY <3>1, <3>6 DEF ReadPriorYear
    <3>7. CASE InsertSeries(q)
      BY <3>4, <3>7, KeyType DEF InsertSeries
    <3>8. CASE ReselectSeries(q)
      BY <3>1, <3>2, <3>8, KeyType DEF ReselectSeries, Increment
    <3>9. CASE InsertDocument(q)
      BY <3>1, <3>9 DEF InsertDocument
    <3>10. CASE SeedSeries(q)
      <4>1. CASE UNCHANGED series
        BY <4>1
      <4>2. CASE /\ tx[q].next <= Len(SeedOrder)
                 /\ InsertIfMissing(q, <<SeedOrder[tx[q].next], SeedYear>>,
                                    WithFY[SeedOrder[tx[q].next]])
        <5>1. tx[q].next \in Nat \ {0}
          BY DEF Inv, TypeOK, TxState
        <5>2. <<SeedOrder[tx[q].next], SeedYear>> \in Keys
          BY <4>2, <5>1, SeriesAssumption, CalendarAssumption DEF Keys
        <5> QED
          BY <3>4, <4>2, <5>2
      <4> QED
        BY <3>10, <4>1, <4>2 DEF SeedSeries
    <3>11. CASE Crash(q)
      BY <3>1, <3>11 DEF Crash
    <3> QED
      BY <2>4, <3>3, <3>5, <3>6, <3>7, <3>8, <3>9, <3>10, <3>11 DEF Step
  <2>5. ASSUME NEW q \in Requests, series[k].lock = q,
               series'[k].com = series[k].cur
        PROVE  /\ series[k].com.there => series'[k].com.there
               /\ series'[k].com.value >= series[k].com.value
    BY <2>1, <2>2, <2>5, SeriesAssumption DEF RowOK, Held
  <2>6. CASE UNCHANGED vars
    BY <2>2, <2>6 DEF vars
  <2> QED
    BY <2>2, <2>3, <2>4, <2>5, <2>6 DEF Next, Done
<1> QED
  BY <1>1, Invariance, PTL DEF Spec, CountersNeverReset

-----------------------------------------------------------------------------
(* Series whose pattern has {FY}. *)

\* Every row, and every handler that is to insert or has read one, has {FY}.
FiscalPatterns ==
  /\ \A k \in Keys : /\ series[k].com.there => series[k].com.fy
                     /\ series[k].cur.there => series[k].cur.fy
  /\ \A q \in Requests :
       /\ tx[q].pc \in {"insertSeries", "insert"} => tx[q].fy
       /\ ~At(q, "duplicate")

LEMMA FiscalInit ==
  ASSUME \A s \in Series : WithFY[s], Init
  PROVE  FiscalPatterns
<1>1. \A k \in Keys : k[1] \in Series
  BY DEF Keys
<1>2. \A k \in Keys : /\ series[k].com.there => series[k].com.fy
                      /\ series[k].cur.there => series[k].cur.fy
  <2> TAKE k \in Keys
  <2>1. series[k] = Fresh(NewSeries(k \in Configured, k \in Configured /\ WithFY[k[1]]))
    BY DEF Init
  <2>2. WithFY[k[1]] = TRUE
    BY <1>1, SeriesAssumption
  <2> QED
    BY <2>1, <2>2 DEF Fresh, NewSeries
<1>3. \A q \in Requests : tx[q].pc \in {"seed", "select"}
  BY DEF Init, TxAt
<1> QED
  BY <1>2, <1>3 DEF FiscalPatterns, At

\* The number taken is one more than any committed document of the series and
\* fiscal year has, and {FY} keeps the years apart.
LEMMA NoDuplicate ==
  ASSUME Inv, FiscalPatterns, NEW q \in Requests, At(q, "insert"),
         NEW r \in Requests, Op[r] = "number"
  PROVE  ~SamePrinted(q, r, issued[r])
<1> SUFFICES ASSUME SamePrinted(q, r, issued[r]) PROVE FALSE
  OBVIOUS
<1> DEFINE k == Key(q)
<1>1. /\ Op[q] = "number" /\ k \in Keys /\ series[k].lock = q
      /\ tx[q].fy
  BY KeyType DEF Inv, HandlersInv, HandlerOK, At, FiscalPatterns
<1>2. Held(k, series[k], q)
  BY <1>1, SeriesAssumption DEF Inv, RowsInv, RowOK
<1>3. tx[q].number = series[k].com.value + 1 /\ series[k].com.value \in Nat
  BY <1>1, <1>2 DEF Held, At, Inv, TypeOK, Versioned, SeriesRow
<1>4. Key(r) = k /\ issued[r] = tx[q].number
  BY <1>1 DEF SamePrinted, PrintedYear, Key
<1>5. r \in Documents(k)
  BY <1>3, <1>4 DEF Documents
<1>6. issued[r] \in 1 .. series[k].com.value
  BY <1>1, <1>5 DEF Inv, Gapless
<1> QED
  BY <1>3, <1>4, <1>6

LEMMA FiscalNext ==
  ASSUME \A s \in Series : WithFY[s], Inv, FiscalPatterns, [Next]_vars
  PROVE  FiscalPatterns'
<1>1. CASE UNCHANGED vars
  BY <1>1 DEF vars, FiscalPatterns, At
<1>2. ASSUME NEW q \in Requests, NEW t \in TxState,
             tx' = [tx EXCEPT ![q] = t],
             t.pc \in {"insertSeries", "insert"} => t.fy, t.pc # "duplicate",
             \A k \in Keys : /\ series'[k].com.there => series'[k].com.fy
                             /\ series'[k].cur.there => series'[k].cur.fy
      PROVE  FiscalPatterns'
  <2>1. \A r \in Requests : tx'[r] = IF r = q THEN t ELSE tx[r]
    BY <1>2 DEF Inv, TypeOK
  <2> QED
    BY <1>2, <2>1 DEF FiscalPatterns, At
<1>3. ASSUME NEW q \in Requests, NEW how \in Ended \ {"duplicate"}, Rollback(q, how)
      PROVE  FiscalPatterns'
  <2>1. \A k \in Keys : /\ series'[k].com.there => series'[k].com.fy
                        /\ series'[k].cur.there => series'[k].cur.fy
    BY <1>3, EndedRow DEF Rollback, Inv, FiscalPatterns
  <2>2. TxAt(how) \in TxState /\ TxAt(how).pc = how
    BY TxAtType
  <2> QED
    BY <1>2, <1>3, <2>1, <2>2 DEF Rollback, Ended
<1>4. ASSUME NEW q \in Requests, NEW k \in Keys, NEW v \in SeriesRow, v.fy,
             series' = [series EXCEPT ![k] = Put(q, @, v)]
      PROVE  \A m \in Keys : /\ series'[m].com.there => series'[m].com.fy
                             /\ series'[m].cur.there => series'[m].cur.fy
  BY <1>4 DEF Put, Inv, TypeOK, FiscalPatterns
<1>5. ASSUME NEW q \in Requests, NEW k \in Keys, NEW fy \in BOOLEAN, fy,
             InsertIfMissing(q, k, fy)
      PROVE  \A m \in Keys : /\ series'[m].com.there => series'[m].com.fy
                             /\ series'[m].cur.there => series'[m].cur.fy
  <2>1. NewSeries(TRUE, fy) \in SeriesRow /\ NewSeries(TRUE, fy).fy
    BY <1>5 DEF NewSeries, SeriesRow
  <2>2. CASE UNCHANGED series
    BY <2>2 DEF FiscalPatterns
  <2>3. CASE series' = [series EXCEPT ![k] = Put(q, @, NewSeries(TRUE, fy))]
    BY <1>4, <2>1, <2>3
  <2> QED
    BY <1>5, <2>2, <2>3 DEF InsertIfMissing, DoNothing
<1>6. ASSUME NEW q \in Requests, Increment(q, series[Key(q)]),
             Seen(q, series[Key(q)]).there
      PROVE  FiscalPatterns'
  <2> DEFINE row == series[Key(q)]
             v == [there |-> TRUE, value |-> row.cur.value + 1, fy |-> row.cur.fy]
             t == [pc |-> "insert", fy |-> row.cur.fy,
                   number |-> row.cur.value + 1, next |-> 1]
  <2>1. /\ Key(q) \in Keys
        /\ row \in Versioned(SeriesRow, Requests)
        /\ row.cur \in SeriesRow
        /\ RowOK(Key(q), row)
    BY KeyType DEF Inv, TypeOK, Versioned, RowsInv
  <2>2. row.cur.there
    BY <1>6, <2>1 DEF Seen, RowOK
  <2>3. row.cur.fy
    BY <2>1, <2>2 DEF FiscalPatterns
  <2>4. v \in SeriesRow /\ t \in TxState /\ v.fy
    BY <2>1, <2>3 DEF SeriesRow, TxState, Working
  <2>5. /\ series' = [series EXCEPT ![Key(q)] = Put(q, @, v)]
        /\ tx' = [tx EXCEPT ![q] = t]
    BY <1>6 DEF Increment
  <2> QED
    BY <1>2, <1>4, <2>1, <2>3, <2>4, <2>5
<1>7. ASSUME NEW q \in Requests, Step(q) \/ Crash(q)
      PROVE  FiscalPatterns'
  <2>1. CASE SelectSeries(q)
    <3>1. CASE Goto(q, "prior", FALSE) /\ UNCHANGED series
      <4> DEFINE t == [pc |-> "prior", fy |-> FALSE, number |-> 0, next |-> 1]
      <4>1. t \in TxState /\ tx' = [tx EXCEPT ![q] = t]
        BY <3>1 DEF Goto, TxState, Working
      <4> QED
        BY <1>2, <3>1, <4>1 DEF FiscalPatterns
    <3> QED
      BY <1>6, <2>1, <3>1 DEF SelectSeries
  <2>2. CASE ReadPriorYear(q)
    <3>1. CASE Rollback(q, "setup")
      BY <1>3, <3>1 DEF Ended
    <3>2. ASSUME NEW latest \in Years,
                 Seen(q, series[<<SeriesOf[q], latest>>]).there,
                 Goto(q, "insertSeries", Seen(q, series[<<SeriesOf[q], latest>>]).fy),
                 UNCHANGED series
          PROVE  FiscalPatterns'
      <4> DEFINE k == <<SeriesOf[q], latest>>
                 fy == Seen(q, series[k]).fy
                 t == [pc |-> "insertSeries", fy |-> fy, number |-> 0, next |-> 1]
      <4>1. k \in Keys
        BY SeriesAssumption DEF Keys
      <4>2. series[k] \in Versioned(SeriesRow, Requests)
        BY <4>1 DEF Inv, TypeOK
      <4>3. fy \in BOOLEAN /\ fy
        BY <3>2, <4>1, <4>2 DEF Seen, Versioned, SeriesRow, FiscalPatterns
      <4>4. t \in TxState /\ tx' = [tx EXCEPT ![q] = t]
        BY <3>2, <4>3 DEF Goto, TxState, Working
      <4> QED
        BY <1>2, <3>2, <4>3, <4>4 DEF FiscalPatterns
    <3> QED
      BY <2>2, <3>1, <3>2 DEF ReadPriorYear
  <2>3. CASE InsertSeries(q)
    <3> DEFINE t == [pc |-> "reselect", fy |-> tx[q].fy, number |-> 0, next |-> 1]
    <3>1. tx[q] \in TxState /\ tx[q].fy \in BOOLEAN /\ tx[q].fy
      BY <2>3 DEF InsertSeries, At, FiscalPatterns, Inv, TypeOK, TxState
    <3>2. t \in TxState /\ tx' = [tx EXCEPT ![q] = t]
      BY <2>3, <3>1 DEF InsertSeries, Goto, TxState, Working
    <3> QED
      BY <1>2, <1>5, <2>3, <3>1, <3>2, KeyType DEF InsertSeries
  <2>4. CASE ReselectSeries(q)
    <3>1. CASE Rollback(q, "impossible")
      BY <1>3, <3>1 DEF Ended
    <3> QED
      BY <1>6, <2>4, <3>1 DEF ReselectSeries
  <2>5. CASE InsertDocument(q)
    <3> DEFINE t == [tx[q] EXCEPT !.pc = "commit"]
    <3>1. tx' = [tx EXCEPT ![q] = t] /\ UNCHANGED series
      BY <2>5, NoDuplicate DEF InsertDocument
    <3>2. t \in TxState /\ t.pc = "commit"
      BY DEF Inv, TypeOK, TxState, Working
    <3> QED
      BY <1>2, <3>1, <3>2 DEF FiscalPatterns
  <2>6. CASE SeedSeries(q)
    <3>1. tx[q] \in TxState /\ tx[q].pc = "seed" /\ tx[q].next \in Nat \ {0}
      BY <2>6 DEF SeedSeries, At, Inv, TypeOK, TxState
    <3>2. CASE /\ tx' = [tx EXCEPT ![q].pc = "commit"]
               /\ UNCHANGED series
      <4> DEFINE t == [tx[q] EXCEPT !.pc = "commit"]
      <4>1. t \in TxState /\ t.pc = "commit" /\ tx' = [tx EXCEPT ![q] = t]
        BY <3>1, <3>2 DEF TxState, Working
      <4> QED
        BY <1>2, <3>2, <4>1 DEF FiscalPatterns
    <3>3. CASE /\ tx[q].next <= Len(SeedOrder)
               /\ InsertIfMissing(q, <<SeedOrder[tx[q].next], SeedYear>>,
                                  WithFY[SeedOrder[tx[q].next]])
               /\ tx' = [tx EXCEPT ![q].next = tx[q].next + 1]
      <4>1. PICK s \in Series : s = SeedOrder[tx[q].next]
        BY <3>1, <3>3, SeriesAssumption
      <4> DEFINE t == [tx[q] EXCEPT !.next = tx[q].next + 1]
      <4>2. t \in TxState /\ t.pc = "seed" /\ tx' = [tx EXCEPT ![q] = t]
        BY <3>1, <3>3 DEF TxState
      <4>3. /\ <<s, SeedYear>> \in Keys
            /\ WithFY[s] \in BOOLEAN
            /\ WithFY[s]
            /\ InsertIfMissing(q, <<s, SeedYear>>, WithFY[s])
        BY <3>3, <4>1, SeriesAssumption, CalendarAssumption DEF Keys
      <4> QED
        BY <1>2, <1>5, <4>2, <4>3
    <3> QED
      BY <2>6, <3>2, <3>3 DEF SeedSeries
  <2>7. CASE Commit(q)
    <3>1. \A k \in Keys : /\ series'[k].com.there => series'[k].com.fy
                          /\ series'[k].cur.there => series'[k].cur.fy
      BY <2>7, EndedRow DEF Commit, Inv, FiscalPatterns
    <3>2. TxAt("ended") \in TxState /\ TxAt("ended").pc = "ended"
      BY TxAtType DEF Ended
    <3> QED
      BY <1>2, <2>7, <3>1, <3>2 DEF Commit
  <2>8. CASE Crash(q)
    BY <1>3, <2>8 DEF Crash, Ended
  <2> QED
    BY <1>7, <2>1, <2>2, <2>3, <2>4, <2>5, <2>6, <2>7, <2>8 DEF Step
<1> QED
  BY <1>1, <1>7 DEF Next, Done

\* When the pattern of every series has {FY}, no number is handed out twice:
\* the unique index on the document numbers never refuses one, so what the run
\* of the suppliers finds is due to the missing {FY} and to nothing else.
THEOREM FiscalNumbersNeverCollide ==
  ASSUME \A s \in Series : WithFY[s]
  PROVE  Spec => []NewNumberIsUnused
<1>1. Init => Inv /\ FiscalPatterns
  BY InitInv, FiscalInit
<1>2. Inv /\ FiscalPatterns /\ [Next]_vars => (Inv /\ FiscalPatterns)'
  BY NextInv, FiscalNext
<1>3. Inv /\ FiscalPatterns => NewNumberIsUnused
  BY DEF FiscalPatterns, NewNumberIsUnused
<1> QED
  BY <1>1, <1>2, <1>3, PTL DEF Spec
=============================================================================
