----------------------------- MODULE AccessCache -----------------------------
(***************************************************************************)
(* What a user may do and the menu the user sees (apps/api: core/rbac,     *)
(* core/menu-engine and core/module-registry).  Both are computed from the *)
(* databases and cached in Redis under the user and a version number of    *)
(* the company; a change commits first and then increments the version, so *)
(* that entries of the old version are never looked up again.              *)
(*                                                                         *)
(* The data are the changes themselves: a database is the set of changes   *)
(* committed to it, and what a request computes or finds in the cache is   *)
(* the set of changes it reflects.  Every access to a database or to Redis *)
(* is an action.                                                           *)
(***************************************************************************)
EXTENDS Integers, FiniteSets

CONSTANTS
  Companies,               \* the companies of one tenant
  Users, CompanyOf,        \* users, each of one company
  Changes, Kind,           \* calls that change roles, menus or modules
  Owner,                   \* the company whose roles or menus a change is of
  Readers, Reads, UserOf,  \* who asks for a user's permissions or menu
  None                     \* no such key in Redis

Kinds == {"role", "menu", "module"}

ASSUME AccessAssumption ==
  /\ IsFiniteSet(Changes)
  /\ IsFiniteSet(Companies)
  /\ CompanyOf \in [Users -> Companies]
  /\ Kind \in [Changes -> Kinds]
  /\ Owner \in [Changes -> Companies]
  /\ Reads \in [Readers -> {"permissions", "menu"}]
  /\ UserOf \in [Readers -> Users]

VARIABLES
  committed,    \* the databases: tenant schema and platform schema
  roleVersion,  \* Redis: rbac:role-version per company, 0 for no such key
  menuVersion,  \* Redis: menu:version per company
  permissions,  \* Redis: rbac:resolved per user and role version
  trees,        \* Redis: menu:tree per user, role version and menu version
  change,       \* per change: where it is, and what its increments returned
  reader        \* per reader: where its request is, and its variables

redis == <<roleVersion, menuVersion, permissions, trees>>
vars  == <<committed, redis, change, reader>>

Version == 0..Cardinality(Changes)

ChangeState == [pc : {"new", "bump", "ended", "crashed"},
                at : [Companies -> Version],
                todo : SUBSET Companies]

Started == {"readMenuVersion", "getTree", "readRoleVersion", "getPermissions",
            "queryPermissions", "setPermissions", "readModules", "setTree"}

\* A request's variables: the versions it read at its start, the role version
\* resolve read, and what it has read or computed.  promised is no variable of
\* the code: it remembers the changes whose calls had returned by the start.
ReaderState ==
  [promised : SUBSET Changes,
   pc : {"new"} \cup Started,
   roleVersion : Version, menuVersion : Version, resolveVersion : Version,
   resolved : SUBSET Changes,
   rows : {None} \cup SUBSET Changes,
   tree : SUBSET Changes]

Idle == [promised |-> {}, pc |-> "new", roleVersion |-> 0, menuVersion |-> 0,
         resolveVersion |-> 0, resolved |-> {}, rows |-> None, tree |-> {}]

Init ==
  /\ committed = {}
  /\ roleVersion = [c \in Companies |-> 0]
  /\ menuVersion = [c \in Companies |-> 0]
  /\ permissions = [u \in Users |-> [v \in Version |-> None]]
  /\ trees = [u \in Users |-> [rv \in Version |-> [mv \in Version |-> None]]]
  /\ change = [m \in Changes |->
                 [pc |-> "new", at |-> [c \in Companies |-> 0], todo |-> {}]]
  /\ reader = [q \in Readers |-> Idle]

-----------------------------------------------------------------------------
(* Changes: rbac/mutations.ts, menu-engine/mutations.ts, setModuleEnabled. *)

\* The companies whose version a change increments: its own, or for a module
\* every company of the tenant.
Bumps(m) == IF Kind[m] = "module" THEN Companies ELSE {Owner[m]}

Write(m) ==
  /\ change[m].pc = "new"
  /\ committed' = committed \cup {m}
  /\ change' = [change EXCEPT ![m].pc = "bump", ![m].todo = Bumps(m)]
  /\ UNCHANGED <<redis, reader>>

\* Roles have a version and menus have one; a module counts as a menu.
NotMenu(m) == Kind[m] # "menu"                                     \* mutant
OfRoles(m) == Kind[m] = "role"

Bump(m, c) ==
  LET counter == IF OfRoles(m) THEN roleVersion[c] ELSE menuVersion[c]
      rest == change[m].todo \ {c}
  IN
  /\ change[m].pc = "bump"
  /\ c \in change[m].todo
  /\ \/ OfRoles(m) /\ roleVersion' = [roleVersion EXCEPT ![c] = @ + 1]
                   /\ UNCHANGED menuVersion
     \/ ~OfRoles(m) /\ menuVersion' = [menuVersion EXCEPT ![c] = @ + 1]
                    /\ UNCHANGED roleVersion
  /\ change' = [change EXCEPT ![m].at[c] = counter + 1, ![m].todo = rest,
                              ![m].pc = IF rest = {} THEN "ended" ELSE "bump"]
  /\ UNCHANGED <<committed, permissions, trees, reader>>

\* The process or its connection to Redis is lost after the commit.
Crash(m) ==
  /\ change[m].pc = "bump"
  /\ change' = [change EXCEPT ![m].pc = "crashed"]
  /\ UNCHANGED <<committed, redis, reader>>

-----------------------------------------------------------------------------
(* Requests: rbac/resolve.ts resolve, menu-engine/resolve.ts               *)
(* resolveMenuTree.                                                        *)

\* getRoleVersion, getMenuVersion: a key that was never incremented reads 0.
VersionOf(counter) == counter

RoleVersionFor(q) == VersionOf(roleVersion[CompanyOf[UserOf[q]]])
MenuVersionFor(q) == VersionOf(menuVersion[CompanyOf[UserOf[q]]])

At(q, pc) == reader[q].pc = pc

\* The request is answered; the reader may send another.
Answer(q) == reader' = [reader EXCEPT ![q] = Idle]

\* What the databases hold of the given kind for the company of q's user.
Stored(q, kind) ==
  {m \in committed : Kind[m] = kind
                     /\ (kind = "module" \/ Owner[m] = CompanyOf[UserOf[q]])}

\* The next request of a reader.
Begin(q) ==
  /\ At(q, "new")
  /\ reader' = [reader EXCEPT
                  ![q].pc = IF Reads[q] = "menu" THEN "readMenuVersion"
                                                 ELSE "getPermissions",
                  ![q].promised = {m \in Changes : change[m].pc = "ended"},
                  ![q].roleVersion = RoleVersionFor(q),
                  ![q].resolveVersion = RoleVersionFor(q)]
  /\ UNCHANGED <<committed, redis, change>>

ReadMenuVersion(q) ==
  /\ At(q, "readMenuVersion")
  /\ reader' = [reader EXCEPT ![q].pc = "getTree",
                              ![q].menuVersion = MenuVersionFor(q)]
  /\ UNCHANGED <<committed, redis, change>>

GetTree(q) ==
  LET found == trees[UserOf[q]][reader[q].roleVersion][reader[q].menuVersion] IN
  /\ At(q, "getTree")
  /\ \/ found # None /\ Answer(q)
     \/ /\ found = None
        /\ reader' = [reader EXCEPT ![q].pc = "readRoleVersion"]
  /\ UNCHANGED <<committed, redis, change>>

\* resolve, on behalf of the menu, reads the version again.
ReadRoleVersion(q) ==
  /\ At(q, "readRoleVersion")
  /\ reader' = [reader EXCEPT ![q].pc = "getPermissions",
                              ![q].resolveVersion = RoleVersionFor(q)]
  /\ UNCHANGED <<committed, redis, change>>

\* resolve returns, to the route or to resolveMenuTree.
Resolved(q, found) ==
  \/ Reads[q] = "permissions" /\ Answer(q)
  \/ /\ Reads[q] = "menu"
     /\ reader' = [reader EXCEPT ![q].pc = "readModules", ![q].resolved = found]

GetPermissions(q) ==
  LET found == permissions[UserOf[q]][reader[q].resolveVersion] IN
  /\ At(q, "getPermissions")
  /\ \/ found # None /\ Resolved(q, found)
     \/ found = None /\ reader' = [reader EXCEPT ![q].pc = "queryPermissions"]
  /\ UNCHANGED <<committed, redis, change>>

QueryPermissions(q) ==
  /\ At(q, "queryPermissions")
  /\ reader' = [reader EXCEPT ![q].pc = "setPermissions",
                              ![q].resolved = Stored(q, "role")]
  /\ UNCHANGED <<committed, redis, change>>

\* The entry is stored under the version read before the query.
LatestRoleVersion(q) == RoleVersionFor(q)                          \* mutant
KeyVersion(q) == reader[q].resolveVersion

SetPermissions(q) ==
  /\ At(q, "setPermissions")
  /\ permissions' = [permissions EXCEPT
                       ![UserOf[q]][KeyVersion(q)] = reader[q].resolved]
  /\ Resolved(q, reader[q].resolved)
  /\ UNCHANGED <<committed, roleVersion, menuVersion, trees, change>>

\* resolveMenuTree reads the menu rows while resolve is under way.
ReadMenus(q) ==
  /\ Reads[q] = "menu"
  /\ reader[q].pc \in {"readRoleVersion", "getPermissions", "queryPermissions",
                       "setPermissions", "readModules"}
  /\ reader[q].rows = None
  /\ reader' = [reader EXCEPT ![q].rows = Stored(q, "menu")]
  /\ UNCHANGED <<committed, redis, change>>

\* buildTree, once permissions and rows are there and the modules are read.
ReadModules(q) ==
  /\ At(q, "readModules")
  /\ reader[q].rows # None
  /\ reader' = [reader EXCEPT
                  ![q].pc = "setTree",
                  ![q].tree = reader[q].resolved \cup reader[q].rows
                                  \cup Stored(q, "module")]
  /\ UNCHANGED <<committed, redis, change>>

SetTree(q) ==
  /\ At(q, "setTree")
  /\ trees' = [trees EXCEPT
                 ![UserOf[q]][reader[q].roleVersion][reader[q].menuVersion]
                   = reader[q].tree]
  /\ Answer(q)
  /\ UNCHANGED <<committed, roleVersion, menuVersion, permissions, change>>

-----------------------------------------------------------------------------
(* Redis drops an entry an hour after it was set.  Entries of older        *)
(* versions are left alone: they are only looked up by requests that began *)
(* before the increment, and such a request also meets them not stored yet.*)

Never(entry) == FALSE                                              \* mutant
Expires(entry) == entry # None

ExpirePermissions(u) ==
  LET v == roleVersion[CompanyOf[u]] IN
  /\ Expires(permissions[u][v])
  /\ permissions' = [permissions EXCEPT ![u][v] = None]
  /\ UNCHANGED <<committed, roleVersion, menuVersion, trees, change, reader>>

ExpireTree(u) ==
  LET rv == roleVersion[CompanyOf[u]]
      mv == menuVersion[CompanyOf[u]]
  IN
  /\ Expires(trees[u][rv][mv])
  /\ trees' = [trees EXCEPT ![u][rv][mv] = None]
  /\ UNCHANGED <<committed, roleVersion, menuVersion, permissions, change, reader>>

-----------------------------------------------------------------------------
ResolveStep(q) == \/ GetPermissions(q) \/ QueryPermissions(q)
                  \/ SetPermissions(q)
MenuStep(q)    == \/ ReadMenuVersion(q) \/ GetTree(q) \/ ReadRoleVersion(q)
                  \/ ReadMenus(q) \/ ReadModules(q) \/ SetTree(q)
Read(q)        == Begin(q) \/ ResolveStep(q) \/ MenuStep(q)
Apply(m)       == Write(m) \/ \E c \in Companies : Bump(m, c)

Next == \/ \E m \in Changes : Apply(m) \/ Crash(m)
        \/ \E q \in Readers : Read(q)
        \/ \E u \in Users : ExpirePermissions(u) \/ ExpireTree(u)

\* A request that was begun is carried on by the server, and an entry expires
\* although it is looked up; nothing obliges anybody to change roles, to
\* complete a change, or to ask for a menu.
Fairness ==
  /\ \A q \in Readers : WF_vars(ResolveStep(q) \/ MenuStep(q))
  /\ \A u \in Users : WF_vars(ExpirePermissions(u)) /\ WF_vars(ExpireTree(u))

Spec == Init /\ [][Next]_vars

FairSpec == Spec /\ Fairness
=============================================================================
