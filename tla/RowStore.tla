------------------------------ MODULE RowStore ------------------------------
(***************************************************************************)
(* One row of a PostgreSQL table as the API's transactions see it: READ    *)
(* COMMITTED, every request one transaction (database/get-db.ts,           *)
(* withTenantDb).  A row has its committed version, its newest version and *)
(* the transaction that holds the row lock; the two versions differ only   *)
(* while a transaction that wrote the row is open.                         *)
(*                                                                         *)
(*  - a plain SELECT never waits and returns Seen: the committed version,  *)
(*    or the transaction's own write;                                      *)
(*  - SELECT ... FOR UPDATE, UPDATE and INSERT wait until Lockable and     *)
(*    then act on the newest version;                                      *)
(*  - a compare-and-set UPDATE ... WHERE col = x that does not find x in   *)
(*    the version it sees matches no row and does not wait.                *)
(*                                                                         *)
(* The module is constant-level: tables are functions from identifiers to  *)
(* rows, declared by the modules that use it.                              *)
(***************************************************************************)
CONSTANT Nobody   \* the holder of a row that no transaction has locked

Versioned(V, T) == [com : V, cur : V, lock : T \cup {Nobody}]

Fresh(v) == [com |-> v, cur |-> v, lock |-> Nobody]

Seen(t, row) == IF row.lock = t THEN row.cur ELSE row.com

Lockable(t, row) == row.lock \in {Nobody, t}

\* The row after transaction t locked it and wrote v.
Put(t, row, v) == [com |-> row.com, cur |-> v, lock |-> t]

\* The row after transaction t committed, or rolled back.
Committed(t, row) == IF row.lock = t THEN Fresh(row.cur) ELSE row

RolledBack(t, row) == IF row.lock = t THEN Fresh(row.com) ELSE row

CommittedAll(t, table)  == [k \in DOMAIN table |-> Committed(t, table[k])]
RolledBackAll(t, table) == [k \in DOMAIN table |-> RolledBack(t, table[k])]
=============================================================================
