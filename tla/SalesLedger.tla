----------------------------- MODULE SalesLedger -----------------------------
(***************************************************************************)
(* What the lot engine promises its callers: every committed transaction   *)
(* reserves, releases or delivers whole quantities at once, the counters   *)
(* of a lot are exactly the sums over its reservations, and a lot is never *)
(* promised or shipped beyond what was received.  No sales orders, no row  *)
(* locks, no statements.                                                   *)
(***************************************************************************)
EXTENDS Integers, FiniteSets, FiniteSetsExt

CONSTANTS Lots, Received, Picks, PickLot, PickQty

VARIABLES
  ledger,   \* per pick: its reservation, absent or with a consumed quantity
  counters  \* per lot: what the database stores as reserved and delivered

ledgerVars == <<ledger, counters>>

Unreserved == [made |-> FALSE, released |-> FALSE, consumed |-> 0]

OpenPicks == {p \in Picks : ledger[p].made /\ ~ledger[p].released}

\* The counters a ledger determines.
CountersOf(f) ==
  [l \in Lots |->
     LET at == {p \in Picks : PickLot[p] = l /\ f[p].made} IN
     [reserved  |-> MapThenSumSet(LAMBDA p : PickQty[p] - f[p].consumed,
                                  {p \in at : ~f[p].released}),
      delivered |-> MapThenSumSet(LAMBDA p : f[p].consumed, at)]]

LedgerInit ==
  /\ ledger = [p \in Picks |-> Unreserved]
  /\ counters = CountersOf(ledger)

\* A sale reserves all its picks, on lots with room for all of them.
ReserveAll(S) ==
  /\ S # {}
  /\ \A p \in S : ~ledger[p].made
  /\ ledger' = [p \in Picks |->
                  IF p \in S THEN [Unreserved EXCEPT !.made = TRUE]
                             ELSE ledger[p]]
  /\ counters' = CountersOf(ledger')
  /\ \A l \in Lots :
       counters'[l].reserved + counters'[l].delivered <= Received[l]

\* A sale gives back whatever of its reservations was not delivered.
ReleaseAll(S) ==
  /\ S # {}
  /\ S \subseteq OpenPicks
  /\ ledger' = [p \in Picks |->
                  IF p \in S THEN [ledger[p] EXCEPT !.released = TRUE]
                             ELSE ledger[p]]
  /\ counters' = CountersOf(ledger')

\* A delivery ships at most what the open reservations still hold.
Deliver(S) ==
  /\ S # {}
  /\ S \subseteq OpenPicks
  /\ \E shipped \in [S -> 1 .. Max({PickQty[p] : p \in S})] :
       /\ \A p \in S : ledger[p].consumed + shipped[p] <= PickQty[p]
       /\ ledger' = [p \in Picks |->
                       IF p \in S
                         THEN [ledger[p] EXCEPT !.consumed = @ + shipped[p]]
                         ELSE ledger[p]]
  /\ counters' = CountersOf(ledger')

LedgerNext == \E S \in SUBSET Picks : ReserveAll(S) \/ ReleaseAll(S) \/ Deliver(S)

LedgerSpec == LedgerInit /\ [][LedgerNext]_ledgerVars
=============================================================================
