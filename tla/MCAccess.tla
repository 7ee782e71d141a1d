------------------------------- MODULE MCAccess -------------------------------
(***************************************************************************)
(* An instance of AccessCache: a change of the roles of the company whose   *)
(* user is watched, and a module switched by the tenant's other company,   *)
(* which concerns both; a reader of the user's menu and one of the user's  *)
(* permissions, each of which asks again and again.                        *)
(***************************************************************************)
EXTENDS AccessProperties

MCCompanyOf == [u1 |-> "c1"]
MCKind  == [grant |-> "role", module |-> "module"]
MCOwner == [grant |-> "c1", module |-> "c2"]
MCReads == [menu1 |-> "menu", perms1 |-> "permissions"]
MCUserOf == [menu1 |-> "u1", perms1 |-> "u1"]
MCChanges == DOMAIN MCKind
MCReaders == DOMAIN MCReads
=============================================================================
