--------------------------- MODULE MCNumberSeries ---------------------------
(***************************************************************************)
(* Instances of NumberSeries.  The company's fiscal year starts in April:  *)
(* a document of February 2025 belongs to 2024.                            *)
(***************************************************************************)
EXTENDS NumberSeries

Day(y, m) == [year |-> y, month |-> m]

(* Sales orders across the rollover from 2024 to 2025, a delivery that has  *)
(* no series until provisioning seeds one, and provisioning, which also     *)
(* finds the series of 2025 rolled over and in use.                         *)
RolloverOp == [so1 |-> "number", so2 |-> "number", so3 |-> "number",
               del |-> "number", seed |-> "seed"]
RolloverSeriesOf == [so1 |-> "SO", so2 |-> "SO", so3 |-> "SO",
                     del |-> "DELIVERY", seed |-> "SO"]
RolloverDate == [so1 |-> Day(2025, 2), so2 |-> Day(2025, 4),
                 so3 |-> Day(2025, 6), del |-> Day(2025, 4),
                 seed |-> Day(2025, 4)]
RolloverRequests == DOMAIN RolloverOp
RolloverConfigured == {<<"SO", 2024>>}
RolloverWithFY == [s \in Series |-> TRUE]
RolloverSeedOrder == <<"DELIVERY", "SO">>

(* Two suppliers, before and after the end of the fiscal year. *)
SupplierOp == [sup1 |-> "number", sup2 |-> "number", sup3 |-> "number"]
SupplierSeriesOf == [q \in DOMAIN SupplierOp |-> "SUPPLIER"]
SupplierDate == [sup1 |-> Day(2025, 2), sup2 |-> Day(2025, 3),
                 sup3 |-> Day(2025, 4)]
SupplierRequests == DOMAIN SupplierOp
SupplierConfigured == {<<"SUPPLIER", 2024>>}
SupplierSeedOrder == <<"SUPPLIER">>
SupplierWithFY == [s \in Series |-> FALSE]
=============================================================================
