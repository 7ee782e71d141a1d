------------------------------ MODULE OpenItems ------------------------------
(***************************************************************************)
(* What invoices and bills are to the ledger: documents with an amount     *)
(* that is owed.  A document is entered as a draft, its amount is revised  *)
(* only while it is a draft, approval fixes it, and a payment takes a part *)
(* of what is owed off some approved documents; the documents of which     *)
(* nothing is owed any more become paid by the payment that settles them.  *)
(*                                                                         *)
(* InvoiceSettlement implements this module with overlapping transactions  *)
(* that sum the payments they see.                                         *)
(***************************************************************************)
EXTENDS Naturals

CONSTANTS
  Docs,     \* the documents
  Limit     \* bound on an amount

VARIABLES
  state,    \* where a document is in its life
  owed      \* what is still owed of it

vars == <<state, owed>>

States == {"none", "draft", "approved", "paid"}

\* Documents that earlier transactions left owe their whole amount.
Init ==
  /\ state \in [Docs -> {"none", "draft", "approved"}]
  /\ owed \in [Docs -> 0..Limit]

Enter(d) ==
  /\ state[d] = "none"
  /\ state' = [state EXCEPT ![d] = "draft"]
  /\ \E a \in 0..Limit : owed' = [owed EXCEPT ![d] = a]

Revise(d) ==
  /\ state[d] = "draft"
  /\ UNCHANGED state
  /\ \E a \in 0..Limit : owed' = [owed EXCEPT ![d] = a]

Approve(d) ==
  /\ state[d] = "draft"
  /\ state' = [state EXCEPT ![d] = "approved"]
  /\ UNCHANGED owed

\* A payment of part[d], which is more than nothing, for every d in paid.
Receive(paid) ==
  /\ \A d \in paid : state[d] = "approved" /\ owed'[d] < owed[d]
  /\ \E part \in [paid -> 1..Limit] :
       /\ \A d \in paid : part[d] <= owed[d]
       /\ owed' = [d \in Docs |-> IF d \in paid THEN owed[d] - part[d] ELSE owed[d]]
  /\ state' = [d \in Docs |->
                 IF d \in paid /\ owed'[d] = 0 THEN "paid" ELSE state[d]]

Next ==
  \/ \E d \in Docs : Enter(d) \/ Revise(d) \/ Approve(d)
  \/ \E paid \in (SUBSET Docs) \ {{}} : Receive(paid)

Spec == Init /\ [][Next]_vars
=============================================================================
