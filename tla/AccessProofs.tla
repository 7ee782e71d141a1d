----------------------------- MODULE AccessProofs -----------------------------
(***************************************************************************)
(* Proofs, for any companies, users, changes and requests, that no         *)
(* increment of a version is lost and that a change takes effect on the    *)
(* first request after the call that made it has returned.                 *)
(***************************************************************************)
EXTENDS AccessProperties, FiniteSetTheorems, TLAPS

Types ==
  /\ committed \in SUBSET Changes
  /\ roleVersion \in [Companies -> Version]
  /\ menuVersion \in [Companies -> Version]
  /\ permissions \in [Users -> [Version -> {None} \cup SUBSET Changes]]
  /\ trees \in [Users -> [Version -> [Version -> {None} \cup SUBSET Changes]]]
  /\ change \in [Changes -> ChangeState]
  /\ reader \in [Readers -> ReaderState]

\* A version counts the changes whose increment it has seen.
CountersInv ==
  \A c \in Companies :
    /\ roleVersion[c] = Cardinality(CountedRole(c, roleVersion[c]))
    /\ menuVersion[c] = Cardinality(CountedMenu(c, menuVersion[c]))

\* A change is committed before it is counted, and counted for every company
\* it concerns before its call returns.
ChangeOK(m) ==
  LET s == change[m] IN
  /\ s.pc = "new" <=> m \notin committed
  /\ \A c \in Companies :
       /\ s.at[c] <= IF IsRole(m) THEN roleVersion[c] ELSE menuVersion[c]
       /\ s.pc = "new" => s.at[c] = 0
       /\ s.pc = "bump" /\ c \in s.todo => s.at[c] = 0
       /\ s.pc = "bump" /\ c \in Bumps(m) \ s.todo => s.at[c] > 0
       /\ s.pc = "ended" /\ c \in Bumps(m) => s.at[c] > 0

\* What an entry, or an answer, for user u under these versions has to show.
RolesOf(u, v) == ForPermissions(u, CountedRole(CompanyOf[u], v))
MenusOf(u, rv, mv) ==
  ForMenu(u, CountedRole(CompanyOf[u], rv) \cup CountedMenu(CompanyOf[u], mv))

\* An entry shows the changes that its versions count, and there is none of a
\* version still to come.
EntryOK(u, rv) ==
  LET c == CompanyOf[u] IN
  /\ permissions[u][rv] # None =>
       rv <= roleVersion[c] /\ RolesOf(u, rv) \subseteq permissions[u][rv]
  /\ \A mv \in Version : trees[u][rv][mv] # None =>
       /\ rv <= roleVersion[c] /\ mv <= menuVersion[c]
       /\ MenusOf(u, rv, mv) \subseteq trees[u][rv][mv]

ForMenuOnly == {"readMenuVersion", "getTree", "readRoleVersion", "readModules", "setTree"}

\* The versions a request has read count what had returned before it began, and
\* what it has read since shows what those versions count.
RequestOK(q, r) ==
  LET u == UserOf[q]
      c == CompanyOf[u]
  IN
  /\ r.pc \in ForMenuOnly => Reads[q] = "menu"
  /\ r.pc = "new" => r = Idle
  /\ r.pc \in {"readMenuVersion", "getTree"} => r.rows = None
  /\ r.pc \in Started =>
       /\ r.roleVersion <= r.resolveVersion /\ r.resolveVersion <= roleVersion[c]
       /\ r.menuVersion <= menuVersion[c]
       /\ \A m \in r.promised : change[m].pc = "ended"
       /\ ForPermissions(u, r.promised) \subseteq CountedRole(c, r.roleVersion)
       /\ Reads[q] = "menu" /\ r.pc # "readMenuVersion" =>
            ForMenu(u, r.promised)
              \subseteq CountedRole(c, r.roleVersion) \cup CountedMenu(c, r.menuVersion)
  /\ r.pc \in {"setPermissions", "readModules"} =>
       RolesOf(u, r.resolveVersion) \subseteq r.resolved
  /\ r.pc \in Started /\ r.rows # None =>
       \A m \in CountedMenu(c, r.menuVersion) :
         Kind[m] = "menu" /\ Owner[m] = c => m \in r.rows
  /\ r.pc = "setTree" => MenusOf(u, r.roleVersion, r.menuVersion) \subseteq r.tree

ReaderOK(q) == RequestOK(q, reader[q])

ChangesInv == \A m \in Changes : ChangeOK(m)
EntriesInv == \A u \in Users : \A v \in Version : EntryOK(u, v)
ReadersInv == \A q \in Readers : ReaderOK(q)

AccessInv == Types /\ CountersInv /\ ChangesInv /\ EntriesInv /\ ReadersInv

-----------------------------------------------------------------------------
(* Values. *)

LEMMA Numbers ==
  /\ Cardinality(Changes) \in Nat
  /\ Version \subseteq Nat
  /\ 0 \in Version
  /\ \A v \in Version : v <= Cardinality(Changes)
<1>1. Cardinality(Changes) \in Nat
  BY AccessAssumption, FS_CardinalityType
<1> QED
  BY <1>1 DEF Version

LEMMA ChangeType ==
  ASSUME Types, NEW m \in Changes
  PROVE  /\ change[m] \in ChangeState
         /\ change[m].pc \in {"new", "bump", "ended", "crashed"}
         /\ \A c \in Companies : change[m].at[c] \in Version
         /\ change[m].todo \subseteq Companies
<1>1. change[m] \in ChangeState
  BY DEF Types
<1> QED
  BY <1>1 DEF ChangeState

LEMMA ReaderType ==
  ASSUME Types, NEW q \in Readers
  PROVE  /\ reader[q] \in ReaderState
         /\ reader[q].pc \in {"new"} \cup Started
         /\ reader[q].promised \subseteq Changes
         /\ reader[q].roleVersion \in Version
         /\ reader[q].menuVersion \in Version
         /\ reader[q].resolveVersion \in Version
         /\ reader[q].resolved \subseteq Changes
         /\ reader[q].tree \subseteq Changes
         /\ UserOf[q] \in Users
         /\ CompanyOf[UserOf[q]] \in Companies
         /\ Reads[q] \in {"permissions", "menu"}
<1>1. reader[q] \in ReaderState
  BY DEF Types
<1> QED
  BY <1>1, AccessAssumption DEF ReaderState

LEMMA IdleType == Idle \in ReaderState /\ Idle.pc = "new" /\ Idle.rows = None
BY Numbers DEF Idle, ReaderState

-----------------------------------------------------------------------------
LEMMA InitAccess == Init => AccessInv
<1> SUFFICES ASSUME Init PROVE AccessInv
  OBVIOUS
<1>1. Types
  <2>1. [c \in Companies |-> 0] \in [Companies -> Version]
    BY Numbers
  <2>2. /\ [v \in Version |-> None] \in [Version -> {None} \cup SUBSET Changes]
        /\ [rv \in Version |-> [mv \in Version |-> None]]
             \in [Version -> [Version -> {None} \cup SUBSET Changes]]
    OBVIOUS
  <2>3. \A m \in Changes :
          [pc |-> "new", at |-> [c \in Companies |-> 0], todo |-> {}] \in ChangeState
    BY <2>1 DEF ChangeState
  <2> QED
    BY <2>1, <2>2, <2>3, IdleType DEF Init, Types
<1>2. \A m \in Changes, c \in Companies : change[m].pc = "new" /\ change[m].at[c] = 0
  BY DEF Init
<1>3. CountersInv
  <2>1. \A c \in Companies : CountedRole(c, 0) = {} /\ CountedMenu(c, 0) = {}
    BY DEF CountedRole, CountedMenu
  <2> QED
    BY <2>1, FS_EmptySet DEF Init, CountersInv
<1>4. ChangesInv
  BY <1>2 DEF Init, ChangesInv, ChangeOK
<1>5. EntriesInv
  BY DEF Init, EntriesInv, EntryOK
<1>6. ReadersInv
  BY IdleType DEF Init, ReadersInv, ReaderOK, RequestOK, ForMenuOnly, Started
<1> QED
  BY <1>1, <1>3, <1>4, <1>5, <1>6 DEF AccessInv

-----------------------------------------------------------------------------
(* What is counted stays as it is, and the versions only grow. *)

Grows ==
  /\ \A c \in Companies :
       /\ roleVersion[c] <= roleVersion'[c]
       /\ menuVersion[c] <= menuVersion'[c]
       /\ \A v \in Version :
            /\ v <= roleVersion[c] => CountedRole(c, v)' = CountedRole(c, v)
            /\ v <= menuVersion[c] => CountedMenu(c, v)' = CountedMenu(c, v)
  /\ \A m \in Changes : change[m].pc = "ended" => change'[m].pc = "ended"

LEMMA QuietGrows ==
  ASSUME Types, UNCHANGED <<roleVersion, menuVersion, change>>
  PROVE  Grows
<1>1. \A c \in Companies : roleVersion[c] \in Nat /\ menuVersion[c] \in Nat
  BY Numbers DEF Types
<1> QED
  BY <1>1 DEF Grows, CountedRole, CountedMenu

LEMMA EntriesGrow ==
  ASSUME Types, Types', EntriesInv, Grows, UNCHANGED <<permissions, trees>>
  PROVE  EntriesInv'
<1> SUFFICES ASSUME NEW u \in Users, NEW rv \in Version PROVE EntryOK(u, rv)'
  BY DEF EntriesInv
<1> DEFINE c == CompanyOf[u]
<1>1. c \in Companies /\ EntryOK(u, rv)
  BY AccessAssumption DEF EntriesInv
<1>2. /\ roleVersion[c] \in Nat /\ roleVersion'[c] \in Nat
      /\ menuVersion[c] \in Nat /\ menuVersion'[c] \in Nat
      /\ roleVersion[c] <= roleVersion'[c] /\ menuVersion[c] <= menuVersion'[c]
  BY <1>1, Numbers DEF Types, Grows
<1>3. rv <= roleVersion[c] => RolesOf(u, rv)' = RolesOf(u, rv)
  BY <1>1 DEF Grows, RolesOf, ForPermissions
<1>4. \A mv \in Version : rv <= roleVersion[c] /\ mv <= menuVersion[c] =>
        MenusOf(u, rv, mv)' = MenusOf(u, rv, mv)
  BY <1>1 DEF Grows, MenusOf, ForMenu
<1>5. Version \subseteq Nat
  BY Numbers
<1> QED
  BY <1>1, <1>2, <1>3, <1>4, <1>5 DEF EntryOK

LEMMA ReaderGrows ==
  ASSUME Types, Types', Grows, NEW q \in Readers, ReaderOK(q), reader'[q] = reader[q]
  PROVE  ReaderOK(q)'
<1> DEFINE r == reader[q]
           u == UserOf[q]
           c == CompanyOf[u]
<1>1. /\ c \in Companies /\ r.promised \subseteq Changes
      /\ r.roleVersion \in Nat /\ r.menuVersion \in Nat /\ r.resolveVersion \in Nat
      /\ r.roleVersion \in Version /\ r.menuVersion \in Version /\ r.resolveVersion \in Version
  BY ReaderType, Numbers
<1>2. /\ roleVersion[c] \in Nat /\ roleVersion'[c] \in Nat
      /\ menuVersion[c] \in Nat /\ menuVersion'[c] \in Nat
      /\ roleVersion[c] <= roleVersion'[c] /\ menuVersion[c] <= menuVersion'[c]
  BY <1>1, Numbers DEF Types, Grows
<1>3. r.pc \in Started =>
        /\ r.roleVersion <= roleVersion[c] /\ r.resolveVersion <= roleVersion[c]
        /\ r.menuVersion <= menuVersion[c]
  BY <1>1, <1>2 DEF ReaderOK, RequestOK
<1>4. r.pc \in Started =>
        /\ CountedRole(c, r.roleVersion)' = CountedRole(c, r.roleVersion)
        /\ CountedMenu(c, r.menuVersion)' = CountedMenu(c, r.menuVersion)
        /\ RolesOf(u, r.resolveVersion)' = RolesOf(u, r.resolveVersion)
        /\ MenusOf(u, r.roleVersion, r.menuVersion)' = MenusOf(u, r.roleVersion, r.menuVersion)
  <2> SUFFICES ASSUME r.pc \in Started
               PROVE  /\ CountedRole(c, r.roleVersion)' = CountedRole(c, r.roleVersion)
                      /\ CountedMenu(c, r.menuVersion)' = CountedMenu(c, r.menuVersion)
                      /\ CountedRole(c, r.resolveVersion)' = CountedRole(c, r.resolveVersion)
    BY DEF RolesOf, MenusOf, ForPermissions, ForMenu
  <2>1. PICK x \in Version, y \in Version, z \in Version :
          x = r.roleVersion /\ y = r.menuVersion /\ z = r.resolveVersion
    BY <1>1
  <2>2. /\ CountedRole(c, x)' = CountedRole(c, x)
        /\ CountedMenu(c, y)' = CountedMenu(c, y)
        /\ CountedRole(c, z)' = CountedRole(c, z)
    BY <1>1, <1>3, <2>1 DEF Grows
  <2> QED
    BY <2>1, <2>2 DEF CountedRole, CountedMenu
<1>5. \A m \in r.promised : change[m].pc = "ended" => change'[m].pc = "ended"
  BY <1>1 DEF Grows
<1>6. {"setPermissions", "readModules", "setTree"} \subseteq Started
  BY DEF Started
<1> QED
  BY <1>1, <1>2, <1>3, <1>4, <1>5, <1>6 DEF ReaderOK, RequestOK

-----------------------------------------------------------------------------
(* Changes. *)

LEMMA WriteInv ==
  ASSUME AccessInv, NEW m \in Changes, Write(m)
  PROVE  AccessInv'
<1> DEFINE s == [change[m] EXCEPT !.pc = "bump", !.todo = Bumps(m)]
<1>1. /\ change[m].pc = "new" /\ committed' = committed \cup {m}
      /\ change' = [change EXCEPT ![m] = s]
      /\ UNCHANGED <<roleVersion, menuVersion, permissions, trees, reader>>
      /\ Types /\ ChangeOK(m) /\ m \notin committed
  BY DEF Write, redis, AccessInv, ChangesInv, ChangeOK
<1>2. Bumps(m) \subseteq Companies
  BY AccessAssumption DEF Bumps
<1>3. /\ s \in ChangeState /\ s.pc = "bump" /\ s.todo = Bumps(m)
      /\ s.at = change[m].at
  BY <1>1, <1>2, ChangeType DEF ChangeState
<1> HIDE DEF s
<1>4. change'[m] = s /\ \A n \in Changes \ {m} : change'[n] = change[n]
  BY <1>1 DEF Types
<1>5. Types'
  BY <1>1, <1>3 DEF Types
<1>6. \A n \in Changes : change'[n].at = change[n].at
  BY <1>3, <1>4
<1>7. \A c, v : CountedRole(c, v)' = CountedRole(c, v) /\ CountedMenu(c, v)' = CountedMenu(c, v)
  BY <1>6 DEF CountedRole, CountedMenu
<1>8. Grows
  <2>1. \A c \in Companies : roleVersion[c] \in Nat /\ menuVersion[c] \in Nat
    BY <1>1, Numbers DEF Types
  <2> QED
    BY <1>1, <1>4, <1>7, <2>1 DEF Grows
<1>9. CountersInv'
  BY <1>1, <1>7 DEF AccessInv, CountersInv
<1>10. ChangesInv'
  <2>1. ChangeOK(m)'
    BY <1>1, <1>3, <1>4 DEF ChangeOK
  <2>2. ASSUME NEW n \in Changes \ {m}
        PROVE  ChangeOK(n)'
    BY <1>1, <1>4 DEF AccessInv, ChangesInv, ChangeOK
  <2> QED
    BY <2>1, <2>2 DEF ChangesInv
<1>11. EntriesInv'
  BY <1>1, <1>5, <1>8, EntriesGrow DEF AccessInv
<1>12. ReadersInv'
  BY <1>1, <1>5, <1>8, ReaderGrows DEF AccessInv, ReadersInv
<1> QED
  BY <1>5, <1>9, <1>10, <1>11, <1>12 DEF AccessInv

LEMMA CrashInv ==
  ASSUME AccessInv, NEW m \in Changes, Crash(m)
  PROVE  AccessInv'
<1> DEFINE s == [change[m] EXCEPT !.pc = "crashed"]
<1>1. /\ change[m].pc = "bump"
      /\ change' = [change EXCEPT ![m] = s]
      /\ UNCHANGED <<committed, roleVersion, menuVersion, permissions, trees, reader>>
      /\ Types /\ ChangeOK(m)
  BY DEF Crash, redis, AccessInv, ChangesInv
<1>2. s \in ChangeState /\ s.pc = "crashed" /\ s.at = change[m].at
  BY <1>1, ChangeType DEF ChangeState
<1> HIDE DEF s
<1>3. change'[m] = s /\ \A n \in Changes \ {m} : change'[n] = change[n]
  BY <1>1 DEF Types
<1>4. Types'
  BY <1>1, <1>2 DEF Types
<1>5. \A n \in Changes : change'[n].at = change[n].at
  BY <1>2, <1>3
<1>6. \A c, v : CountedRole(c, v)' = CountedRole(c, v) /\ CountedMenu(c, v)' = CountedMenu(c, v)
  BY <1>5 DEF CountedRole, CountedMenu
<1>7. Grows
  <2>1. \A c \in Companies : roleVersion[c] \in Nat /\ menuVersion[c] \in Nat
    BY <1>1, Numbers DEF Types
  <2> QED
    BY <1>1, <1>3, <1>6, <2>1 DEF Grows
<1>8. CountersInv'
  BY <1>1, <1>6 DEF AccessInv, CountersInv
<1>9. ChangesInv'
  <2>1. ChangeOK(m)'
    BY <1>1, <1>2, <1>3 DEF ChangeOK
  <2>2. ASSUME NEW n \in Changes \ {m}
        PROVE  ChangeOK(n)'
    BY <1>1, <1>3 DEF AccessInv, ChangesInv, ChangeOK
  <2> QED
    BY <2>1, <2>2 DEF ChangesInv
<1>10. EntriesInv'
  BY <1>1, <1>4, <1>7, EntriesGrow DEF AccessInv
<1>11. ReadersInv'
  BY <1>1, <1>4, <1>7, ReaderGrows DEF AccessInv, ReadersInv
<1> QED
  BY <1>4, <1>8, <1>9, <1>10, <1>11 DEF AccessInv

\* One more is counted than before the increment, and it is not a change that
\* was counted already: that is why no version is above the number of changes.
LEMMA OneMore ==
  ASSUME NEW S \in SUBSET Changes, NEW m \in Changes \ S, NEW n, n = Cardinality(S)
  PROVE  n + 1 = Cardinality(S \cup {m}) /\ n + 1 \in Version
<1>1. IsFiniteSet(S) /\ Cardinality(S) \in Nat
  BY AccessAssumption, FS_Subset, FS_CardinalityType
<1>2. Cardinality(S \cup {m}) = n + 1
  BY <1>1, FS_AddElement
<1>3. S \cup {m} \in SUBSET Changes
  OBVIOUS
<1>4. Cardinality(S \cup {m}) <= Cardinality(Changes)
  BY <1>3, AccessAssumption, FS_Subset
<1> QED
  BY <1>1, <1>2, <1>4, Numbers DEF Version

LEMMA BumpInv ==
  ASSUME AccessInv, NEW m \in Changes, NEW c \in Companies, Bump(m, c)
  PROVE  AccessInv'
<1> DEFINE counter == IF IsRole(m) THEN roleVersion[c] ELSE menuVersion[c]
           rest == change[m].todo \ {c}
           s == [change[m] EXCEPT !.at[c] = counter + 1, !.todo = rest,
                                  !.pc = IF rest = {} THEN "ended" ELSE "bump"]
<1>1. /\ change[m].pc = "bump" /\ c \in change[m].todo
      /\ change' = [change EXCEPT ![m] = s]
      /\ UNCHANGED <<committed, permissions, trees, reader>>
      /\ Types /\ ChangeOK(m) /\ m \in committed
      /\ change[m].at[c] = 0
  BY DEF Bump, OfRoles, IsRole, AccessInv, ChangesInv, ChangeOK
<1>2. IF IsRole(m) THEN /\ roleVersion' = [roleVersion EXCEPT ![c] = @ + 1]
                        /\ menuVersion' = menuVersion
                   ELSE /\ menuVersion' = [menuVersion EXCEPT ![c] = @ + 1]
                        /\ roleVersion' = roleVersion
  BY DEF Bump, OfRoles, IsRole
<1>3. \A d \in Companies : /\ roleVersion[d] \in Nat /\ roleVersion[d] \in Version
                           /\ menuVersion[d] \in Nat /\ menuVersion[d] \in Version
  BY <1>1, Numbers DEF Types
<1>4. counter \in Nat /\ counter + 1 \in Version
  <2>1. /\ m \notin CountedRole(c, roleVersion[c])
        /\ m \notin CountedMenu(c, menuVersion[c])
    BY <1>1 DEF CountedRole, CountedMenu
  <2>2. /\ CountedRole(c, roleVersion[c]) \in SUBSET Changes
        /\ CountedMenu(c, menuVersion[c]) \in SUBSET Changes
    BY DEF CountedRole, CountedMenu
  <2>3. /\ roleVersion[c] = Cardinality(CountedRole(c, roleVersion[c]))
        /\ menuVersion[c] = Cardinality(CountedMenu(c, menuVersion[c]))
    BY DEF AccessInv, CountersInv
  <2>4. roleVersion[c] + 1 \in Version /\ menuVersion[c] + 1 \in Version
    BY <2>1, <2>2, <2>3, OneMore
  <2> QED
    BY <1>3, <2>4
<1>5. /\ s \in ChangeState /\ s.todo = rest
      /\ s.pc = (IF rest = {} THEN "ended" ELSE "bump")
      /\ s.at = [change[m].at EXCEPT ![c] = counter + 1]
      /\ s.at[c] = counter + 1
      /\ \A d \in Companies \ {c} : s.at[d] = change[m].at[d]
  <2>1. /\ change[m] \in ChangeState /\ rest \subseteq Companies
        /\ change[m].at \in [Companies -> Version]
    BY <1>1, ChangeType DEF ChangeState
  <2> HIDE DEF counter, rest
  <2> QED
    BY <1>4, <2>1 DEF ChangeState
<1> HIDE DEF s
<1>6. change'[m] = s /\ \A n \in Changes \ {m} : change'[n] = change[n]
  BY <1>1 DEF Types
<1>7. Types'
  <2>1. /\ roleVersion' \in [Companies -> Version]
        /\ menuVersion' \in [Companies -> Version]
    BY <1>1, <1>2, <1>4 DEF Types
  <2> QED
    BY <1>1, <1>5, <2>1 DEF Types
<1>8. \A n \in Changes, d \in Companies :
        n # m \/ d # c => change'[n].at[d] = change[n].at[d]
  BY <1>5, <1>6
<1>9. change'[m].at[c] = counter + 1
  BY <1>5, <1>6
<1>10. \A d \in Companies :
         /\ roleVersion'[d] = IF IsRole(m) /\ d = c THEN roleVersion[d] + 1 ELSE roleVersion[d]
         /\ menuVersion'[d] = IF ~IsRole(m) /\ d = c THEN menuVersion[d] + 1 ELSE menuVersion[d]
  <2>1. CASE IsRole(m)
    BY <1>1, <1>2, <2>1 DEF Types
  <2>2. CASE ~IsRole(m)
    BY <1>1, <1>2, <2>2 DEF Types
  <2> QED
    BY <2>1, <2>2
<1>11. \A d \in Companies : \A v \in Version :
         /\ v <= roleVersion[d] => CountedRole(d, v)' = CountedRole(d, v)
         /\ v <= menuVersion[d] => CountedMenu(d, v)' = CountedMenu(d, v)
  <2> SUFFICES ASSUME NEW d \in Companies, NEW v \in Version, NEW n \in Changes
               PROVE  /\ v <= roleVersion[d] /\ IsRole(n) =>
                           (change'[n].at[d] \in 1..v <=> change[n].at[d] \in 1..v)
                      /\ v <= menuVersion[d] /\ ~IsRole(n) =>
                           (change'[n].at[d] \in 1..v <=> change[n].at[d] \in 1..v)
    BY DEF CountedRole, CountedMenu, IsRole
  <2>1. CASE n # m \/ d # c
    BY <1>8, <2>1
  <2>2. CASE n = m /\ d = c
    <3>1. v \in Nat
      BY Numbers
    <3> QED
      BY <1>1, <1>3, <1>9, <2>2, <3>1
  <2> QED
    BY <2>1, <2>2
<1>12. Grows
  <2>1. \A d \in Companies : /\ roleVersion[d] <= roleVersion'[d]
                             /\ menuVersion[d] <= menuVersion'[d]
    BY <1>3, <1>10
  <2>2. \A n \in Changes : change[n].pc = "ended" => change'[n].pc = "ended"
    BY <1>1, <1>6
  <2> QED
    BY <1>11, <2>1, <2>2 DEF Grows
<1>13. CountersInv'
  <2> SUFFICES ASSUME NEW d \in Companies
               PROVE  /\ roleVersion'[d] = Cardinality(CountedRole(d, roleVersion[d])')
                      /\ menuVersion'[d] = Cardinality(CountedMenu(d, menuVersion[d])')
    BY DEF CountersInv
  <2>1. /\ roleVersion[d] = Cardinality(CountedRole(d, roleVersion[d]))
        /\ menuVersion[d] = Cardinality(CountedMenu(d, menuVersion[d]))
    BY DEF AccessInv, CountersInv
  <2>2. roleVersion'[d] = Cardinality(CountedRole(d, roleVersion[d])')
    <3>1. CASE ~(IsRole(m) /\ d = c)
      <4>1. roleVersion'[d] = roleVersion[d]
        BY <1>10, <3>1
      <4>2. \A n \in Changes : IsRole(n) =>
              (change'[n].at[d] \in 1..roleVersion'[d] <=> change[n].at[d] \in 1..roleVersion[d])
        BY <1>8, <3>1, <4>1
      <4>3. CountedRole(d, roleVersion[d])' = CountedRole(d, roleVersion[d])
        BY <4>2 DEF CountedRole, IsRole
      <4> QED
        BY <2>1, <4>1, <4>3
    <3>2. CASE IsRole(m) /\ d = c
      <4>1. roleVersion'[d] = roleVersion[d] + 1 /\ roleVersion[d] \in Nat /\ counter = roleVersion[d]
        BY <1>3, <1>10, <3>2
      <4>2. ASSUME NEW n \in Changes \ {m}, IsRole(n)
            PROVE  change'[n].at[d] \in 1..roleVersion'[d] <=> change[n].at[d] \in 1..roleVersion[d]
        <5>1. change'[n].at[d] = change[n].at[d]
          BY <1>8
        <5>2. change[n].at[d] <= roleVersion[d]
          BY <4>2 DEF AccessInv, ChangesInv, ChangeOK
        <5>3. change[n].at[d] \in Nat
          BY <1>1, ChangeType, Numbers
        <5> QED
          BY <4>1, <5>1, <5>2, <5>3
      <4>3. change'[m].at[d] \in 1..roleVersion'[d] /\ change[m].at[d] \notin 1..roleVersion[d]
        BY <1>1, <1>9, <3>2, <4>1
      <4>4. /\ CountedRole(d, roleVersion[d])' = CountedRole(d, roleVersion[d]) \cup {m}
            /\ CountedRole(d, roleVersion[d]) \in SUBSET Changes
            /\ m \notin CountedRole(d, roleVersion[d])
        BY <3>2, <4>2, <4>3 DEF CountedRole, IsRole
      <4>5. roleVersion[d] + 1 = Cardinality(CountedRole(d, roleVersion[d]) \cup {m})
        BY <2>1, <4>4, OneMore
      <4> QED
        BY <4>1, <4>4, <4>5
    <3> QED
      BY <3>1, <3>2
  <2>3. menuVersion'[d] = Cardinality(CountedMenu(d, menuVersion[d])')
    <3>1. CASE ~(~IsRole(m) /\ d = c)
      <4>1. menuVersion'[d] = menuVersion[d]
        BY <1>10, <3>1
      <4>2. \A n \in Changes : ~IsRole(n) =>
              (change'[n].at[d] \in 1..menuVersion'[d] <=> change[n].at[d] \in 1..menuVersion[d])
        BY <1>8, <3>1, <4>1
      <4>3. CountedMenu(d, menuVersion[d])' = CountedMenu(d, menuVersion[d])
        BY <4>2 DEF CountedMenu, IsRole
      <4> QED
        BY <2>1, <4>1, <4>3
    <3>2. CASE ~IsRole(m) /\ d = c
      <4>1. menuVersion'[d] = menuVersion[d] + 1 /\ menuVersion[d] \in Nat /\ counter = menuVersion[d]
        BY <1>3, <1>10, <3>2
      <4>2. ASSUME NEW n \in Changes \ {m}, ~IsRole(n)
            PROVE  change'[n].at[d] \in 1..menuVersion'[d] <=> change[n].at[d] \in 1..menuVersion[d]
        <5>1. change'[n].at[d] = change[n].at[d]
          BY <1>8
        <5>2. change[n].at[d] <= menuVersion[d]
          BY <4>2 DEF AccessInv, ChangesInv, ChangeOK
        <5>3. change[n].at[d] \in Nat
          BY <1>1, ChangeType, Numbers
        <5> QED
          BY <4>1, <5>1, <5>2, <5>3
      <4>3. change'[m].at[d] \in 1..menuVersion'[d] /\ change[m].at[d] \notin 1..menuVersion[d]
        BY <1>1, <1>9, <3>2, <4>1
      <4>4. /\ CountedMenu(d, menuVersion[d])' = CountedMenu(d, menuVersion[d]) \cup {m}
            /\ CountedMenu(d, menuVersion[d]) \in SUBSET Changes
            /\ m \notin CountedMenu(d, menuVersion[d])
        BY <3>2, <4>2, <4>3 DEF CountedMenu, IsRole
      <4>5. menuVersion[d] + 1 = Cardinality(CountedMenu(d, menuVersion[d]) \cup {m})
        BY <2>1, <4>4, OneMore
      <4> QED
        BY <4>1, <4>4, <4>5
    <3> QED
      BY <3>1, <3>2
  <2> QED
    BY <2>2, <2>3
<1>14. ChangesInv'
  <2>1. ChangeOK(m)'
    <3>1. \A d \in Companies :
            change'[m].at[d] <= IF IsRole(m) THEN roleVersion'[d] ELSE menuVersion'[d]
      <4> SUFFICES ASSUME NEW d \in Companies
                   PROVE  change'[m].at[d] <= IF IsRole(m) THEN roleVersion'[d] ELSE menuVersion'[d]
        OBVIOUS
      <4>1. change[m].at[d] \in Nat
        BY <1>1, ChangeType, Numbers
      <4>2. CASE d = c
        BY <1>3, <1>9, <1>10, <4>2
      <4>3. CASE d # c
        BY <1>1, <1>8, <1>10, <4>1, <4>3 DEF ChangeOK
      <4> QED
        BY <4>2, <4>3
    <3>2. \A d \in Companies : d \in rest => change'[m].at[d] = 0
      BY <1>1, <1>8 DEF ChangeOK
    <3>3. \A d \in Companies : d \in Bumps(m) \ rest => change'[m].at[d] > 0
      BY <1>1, <1>4, <1>8, <1>9 DEF ChangeOK
    <3>4. change'[m].todo = rest /\ change'[m].pc = (IF rest = {} THEN "ended" ELSE "bump")
      BY <1>5, <1>6
    <3> QED
      BY <1>1, <3>1, <3>2, <3>3, <3>4 DEF ChangeOK
  <2>2. ASSUME NEW n \in Changes \ {m}
        PROVE  ChangeOK(n)'
    <3>1. ChangeOK(n) /\ change'[n] = change[n] /\ committed' = committed
      BY <1>1, <1>6 DEF AccessInv, ChangesInv
    <3>2. \A d \in Companies :
            change[n].at[d] <= IF IsRole(n) THEN roleVersion'[d] ELSE menuVersion'[d]
      <4> SUFFICES ASSUME NEW d \in Companies
                   PROVE  change[n].at[d] <= IF IsRole(n) THEN roleVersion'[d] ELSE menuVersion'[d]
        OBVIOUS
      <4>1. change[n].at[d] \in Nat /\ roleVersion'[d] \in Nat /\ menuVersion'[d] \in Nat
        BY <1>1, <1>7, ChangeType, Numbers DEF Types
      <4> QED
        BY <1>3, <1>12, <3>1, <4>1 DEF ChangeOK, Grows
    <3> QED
      BY <3>1, <3>2 DEF ChangeOK
  <2> QED
    BY <2>1, <2>2 DEF ChangesInv
<1>15. EntriesInv'
  BY <1>1, <1>7, <1>12, EntriesGrow DEF AccessInv
<1>16. ReadersInv'
  BY <1>1, <1>7, <1>12, ReaderGrows DEF AccessInv, ReadersInv
<1> QED
  BY <1>7, <1>13, <1>14, <1>15, <1>16 DEF AccessInv

-----------------------------------------------------------------------------
(* Requests. *)

\* A step of a request changes its own variables, and perhaps an entry.
LEMMA RequestStep ==
  ASSUME AccessInv, NEW q \in Readers, NEW s \in ReaderState,
         reader' = [reader EXCEPT ![q] = s],
         UNCHANGED <<committed, roleVersion, menuVersion, change>>,
         permissions' \in [Users -> [Version -> {None} \cup SUBSET Changes]],
         trees' \in [Users -> [Version -> [Version -> {None} \cup SUBSET Changes]]],
         EntriesInv', ReaderOK(q)'
  PROVE  AccessInv'
<1>1. Types'
  BY DEF AccessInv, Types
<1>2. CountersInv'
  BY DEF AccessInv, CountersInv, CountedRole, CountedMenu
<1>3. ChangesInv'
  BY DEF AccessInv, ChangesInv, ChangeOK
<1>4. Grows
  BY QuietGrows DEF AccessInv
<1>5. ReadersInv'
  <2> SUFFICES ASSUME NEW p \in Readers \ {q} PROVE ReaderOK(p)'
    BY DEF ReadersInv
  <2>1. reader'[p] = reader[p]
    BY DEF AccessInv, Types
  <2> QED
    BY <1>1, <1>4, <2>1, ReaderGrows DEF AccessInv, ReadersInv
<1> QED
  BY <1>1, <1>2, <1>3, <1>5 DEF AccessInv

\* A step that sets no entry.
LEMMA ReadStep ==
  ASSUME AccessInv, NEW q \in Readers, NEW s \in ReaderState,
         reader' = [reader EXCEPT ![q] = s],
         UNCHANGED <<committed, redis, change>>, ReaderOK(q)'
  PROVE  AccessInv'
<1>1. UNCHANGED <<roleVersion, menuVersion, permissions, trees>>
  BY DEF redis
<1>2. Types'
  BY <1>1 DEF AccessInv, Types
<1>3. Grows
  BY <1>1, QuietGrows DEF AccessInv
<1>4. EntriesInv'
  BY <1>1, <1>2, <1>3, EntriesGrow DEF AccessInv
<1> QED
  BY <1>1, <1>4, RequestStep DEF AccessInv, Types

LEMMA IdleOK ==
  ASSUME NEW q
  PROVE  RequestOK(q, Idle)
BY IdleType DEF RequestOK, ForMenuOnly, Started

\* The same for a request that knows enough afterwards, as things are.
LEMMA RequestReads ==
  ASSUME AccessInv, NEW q \in Readers, NEW s \in ReaderState,
         reader' = [reader EXCEPT ![q] = s],
         UNCHANGED <<committed, redis, change>>, RequestOK(q, s)
  PROVE  AccessInv'
<1>1. reader'[q] = s
  BY DEF AccessInv, Types
<1>2. ReaderOK(q)'
  BY <1>1 DEF ReaderOK, RequestOK, redis, RolesOf, MenusOf, CountedRole, CountedMenu
<1> QED
  BY <1>2, ReadStep

LEMMA AnswerInv ==
  ASSUME AccessInv, NEW q \in Readers, Answer(q), UNCHANGED <<committed, redis, change>>
  PROVE  AccessInv'
<1>1. reader'[q] = Idle
  BY DEF Answer, AccessInv, Types
<1> QED
  BY <1>1, IdleType, IdleOK, RequestReads DEF Answer

\* What has returned is counted by the versions that are read afterwards.
LEMMA EndedIsCounted ==
  ASSUME AccessInv, NEW m \in Changes, change[m].pc = "ended",
         NEW c \in Companies, c \in Bumps(m)
  PROVE  IF IsRole(m) THEN m \in CountedRole(c, roleVersion[c])
                      ELSE m \in CountedMenu(c, menuVersion[c])
<1>1. ChangeOK(m) /\ change[m].at[c] \in Nat
  BY ChangeType, Numbers DEF AccessInv, ChangesInv
<1>2. roleVersion[c] \in Nat /\ menuVersion[c] \in Nat
  BY Numbers DEF AccessInv, Types
<1> QED
  BY <1>1, <1>2 DEF ChangeOK, CountedRole, CountedMenu

\* What is counted is committed.
LEMMA CountedIsCommitted ==
  ASSUME AccessInv, NEW m \in Changes, NEW c \in Companies, NEW v,
         change[m].at[c] \in 1..v
  PROVE  m \in committed
BY DEF AccessInv, ChangesInv, ChangeOK

LEMMA BeginInv ==
  ASSUME AccessInv, NEW q \in Readers, Begin(q)
  PROVE  AccessInv'
<1> DEFINE u == UserOf[q]
           c == CompanyOf[u]
           ended == {m \in Changes : change[m].pc = "ended"}
           pc == IF Reads[q] = "menu" THEN "readMenuVersion" ELSE "getPermissions"
           s == [reader[q] EXCEPT !.pc = pc, !.promised = ended,
                   !.roleVersion = roleVersion[c], !.resolveVersion = roleVersion[c]]
<1>1. /\ reader[q].pc = "new"
      /\ reader' = [reader EXCEPT ![q] = s]
      /\ UNCHANGED <<committed, redis, change>>
      /\ reader[q] \in ReaderState /\ reader[q] = Idle
  BY ReaderType
     DEF Begin, At, RoleVersionFor, VersionOf, AccessInv, ReadersInv, ReaderOK, RequestOK
<1>2. /\ c \in Companies /\ u \in Users
      /\ roleVersion[c] \in Version /\ menuVersion[c] \in Version
  BY ReaderType DEF AccessInv, Types
<1>3. /\ s \in ReaderState /\ s.pc = pc /\ s.promised = ended /\ s.rows = None
      /\ s.roleVersion = roleVersion[c] /\ s.resolveVersion = roleVersion[c]
      /\ s.menuVersion = 0
  <2>1. pc \in {"new"} \cup Started /\ ended \in SUBSET Changes
    BY DEF Started
  <2>2. /\ reader[q].rows = None /\ reader[q].menuVersion = 0
    BY <1>1 DEF Idle
  <2> HIDE DEF pc, ended
  <2> QED
    BY <1>1, <1>2, <2>1, <2>2 DEF ReaderState
<1> HIDE DEF s
<1>4. ForPermissions(u, ended) \subseteq CountedRole(c, roleVersion[c])
  BY <1>2, EndedIsCounted DEF ForPermissions, Bumps, IsRole
<1>5. menuVersion[c] \in Nat /\ roleVersion[c] \in Nat
  BY <1>2, Numbers
<1>6. RequestOK(q, s)
  <2>1. 0 <= menuVersion[c] /\ roleVersion[c] <= roleVersion[c]
    BY <1>5
  <2>2. /\ pc \in Started /\ pc # "new" /\ pc # "getTree"
        /\ pc \in ForMenuOnly => Reads[q] = "menu"
        /\ pc \notin {"setPermissions", "readModules", "setTree"}
        /\ Reads[q] = "menu" => pc = "readMenuVersion"
    BY DEF Started, ForMenuOnly
  <2>3. \A m \in ended : change[m].pc = "ended"
    OBVIOUS
  <2> HIDE DEF pc, ended
  <2> QED
    BY <1>3, <1>4, <2>1, <2>2, <2>3 DEF RequestOK
<1> QED
  BY <1>1, <1>3, <1>6, RequestReads

LEMMA ReadMenuVersionInv ==
  ASSUME AccessInv, NEW q \in Readers, ReadMenuVersion(q)
  PROVE  AccessInv'
<1> DEFINE u == UserOf[q]
           c == CompanyOf[u]
           r == reader[q]
           s == [r EXCEPT !.pc = "getTree", !.menuVersion = menuVersion[c]]
<1>1. /\ r.pc = "readMenuVersion" /\ r \in ReaderState
      /\ reader' = [reader EXCEPT ![q] = s]
      /\ UNCHANGED <<committed, redis, change>>
      /\ RequestOK(q, r)
  BY ReaderType
     DEF ReadMenuVersion, At, MenuVersionFor, VersionOf, AccessInv, ReadersInv, ReaderOK
<1>2. /\ c \in Companies /\ u \in Users
      /\ menuVersion[c] \in Version /\ menuVersion[c] \in Nat
      /\ r.promised \subseteq Changes
  BY ReaderType, Numbers DEF AccessInv, Types
<1>3. /\ s \in ReaderState /\ s.pc = "getTree" /\ s.menuVersion = menuVersion[c]
      /\ s.promised = r.promised /\ s.rows = r.rows
      /\ s.roleVersion = r.roleVersion /\ s.resolveVersion = r.resolveVersion
  BY <1>1, <1>2 DEF ReaderState, Started
<1>4. /\ Reads[q] = "menu" /\ r.rows = None
      /\ r.roleVersion <= r.resolveVersion /\ r.resolveVersion <= roleVersion[c]
      /\ \A m \in r.promised : change[m].pc = "ended"
      /\ ForPermissions(u, r.promised) \subseteq CountedRole(c, r.roleVersion)
  BY <1>1 DEF RequestOK, ForMenuOnly, Started
<1>5. ForMenu(u, r.promised) \subseteq CountedRole(c, r.roleVersion) \cup CountedMenu(c, menuVersion[c])
  <2> SUFFICES ASSUME NEW m \in ForMenu(u, r.promised)
               PROVE  m \in CountedRole(c, r.roleVersion) \cup CountedMenu(c, menuVersion[c])
    OBVIOUS
  <2>1. m \in Changes /\ m \in r.promised /\ change[m].pc = "ended"
    BY <1>2, <1>4 DEF ForMenu
  <2>2. CASE IsRole(m)
    BY <1>4, <2>1, <2>2 DEF ForMenu, ForPermissions, IsRole
  <2>3. CASE ~IsRole(m)
    <3>1. c \in Bumps(m)
      BY <1>2, <2>1, <2>3 DEF ForMenu, Bumps
    <3> QED
      BY <1>2, <2>1, <2>3, <3>1, EndedIsCounted
  <2> QED
    BY <2>2, <2>3
<1> HIDE DEF s
<1>6. RequestOK(q, s)
  <2>1. menuVersion[c] <= menuVersion[c]
    BY <1>2
  <2> QED
    BY <1>3, <1>4, <1>5, <2>1 DEF RequestOK, ForMenuOnly, Started
<1> QED
  BY <1>1, <1>3, <1>6, RequestReads

LEMMA GetTreeInv ==
  ASSUME AccessInv, NEW q \in Readers, GetTree(q)
  PROVE  AccessInv'
<1> DEFINE r == reader[q]
           s == [r EXCEPT !.pc = "readRoleVersion"]
<1>1. /\ r.pc = "getTree" /\ r \in ReaderState
      /\ UNCHANGED <<committed, redis, change>>
      /\ RequestOK(q, r)
      /\ Answer(q) \/ reader' = [reader EXCEPT ![q] = s]
  BY ReaderType DEF GetTree, At, AccessInv, ReadersInv, ReaderOK
<1>2. CASE Answer(q)
  BY <1>1, <1>2, AnswerInv
<1>3. CASE reader' = [reader EXCEPT ![q] = s]
  <2>1. s \in ReaderState
    BY <1>1 DEF ReaderState, Started
  <2>2. RequestOK(q, s)
    BY <1>1 DEF RequestOK, ReaderState, ForMenuOnly, Started
  <2> HIDE DEF s
  <2> QED
    BY <1>1, <1>3, <2>1, <2>2, RequestReads
<1> QED
  BY <1>1, <1>2, <1>3

LEMMA ReadRoleVersionInv ==
  ASSUME AccessInv, NEW q \in Readers, ReadRoleVersion(q)
  PROVE  AccessInv'
<1> DEFINE r == reader[q]
           c == CompanyOf[UserOf[q]]
           s == [r EXCEPT !.pc = "getPermissions", !.resolveVersion = roleVersion[c]]
<1>1. /\ r.pc = "readRoleVersion" /\ r \in ReaderState
      /\ UNCHANGED <<committed, redis, change>>
      /\ RequestOK(q, r)
      /\ reader' = [reader EXCEPT ![q] = s]
  BY ReaderType
     DEF ReadRoleVersion, At, RoleVersionFor, VersionOf, AccessInv, ReadersInv, ReaderOK
<1>2. roleVersion[c] \in Version /\ roleVersion[c] \in Nat
  BY ReaderType, Numbers DEF AccessInv, Types
<1>3. r.roleVersion \in Nat /\ r.resolveVersion \in Nat
  BY ReaderType, Numbers DEF AccessInv
<1>4. s \in ReaderState
  BY <1>1, <1>2 DEF ReaderState, Started
<1>5. RequestOK(q, s)
  BY <1>1, <1>2, <1>3 DEF RequestOK, ReaderState, ForMenuOnly, Started
<1> HIDE DEF s
<1> QED
  BY <1>1, <1>4, <1>5, RequestReads

\* resolve returns what shows the changes of its version, to the route or to
\* resolveMenuTree.
LEMMA ResolvedOK ==
  ASSUME AccessInv, NEW q \in Readers, NEW found \in SUBSET Changes,
         reader[q].pc \in {"getPermissions", "setPermissions"},
         RolesOf(UserOf[q], reader[q].resolveVersion) \subseteq found,
         Resolved(q, found)
  PROVE  \E s \in ReaderState : reader' = [reader EXCEPT ![q] = s] /\ RequestOK(q, s)
<1> DEFINE r == reader[q]
           s == [r EXCEPT !.pc = "readModules", !.resolved = found]
<1>1. CASE Answer(q)
  BY <1>1, IdleType, IdleOK DEF Answer
<1>2. CASE Reads[q] = "menu" /\ reader' = [reader EXCEPT ![q] = s]
  <2>1. r \in ReaderState /\ RequestOK(q, r)
    BY ReaderType DEF AccessInv, ReadersInv, ReaderOK
  <2>2. s \in ReaderState
    BY <2>1 DEF ReaderState, Started
  <2>3. RequestOK(q, s)
    BY <1>2, <2>1 DEF RequestOK, ReaderState, ForMenuOnly, Started
  <2> HIDE DEF s
  <2> QED
    BY <1>2, <2>2, <2>3
<1> QED
  BY <1>1, <1>2 DEF Resolved

LEMMA GetPermissionsInv ==
  ASSUME AccessInv, NEW q \in Readers, GetPermissions(q)
  PROVE  AccessInv'
<1> DEFINE r == reader[q]
           u == UserOf[q]
           found == permissions[u][r.resolveVersion]
           s == [r EXCEPT !.pc = "queryPermissions"]
<1>1. /\ r.pc = "getPermissions" /\ r \in ReaderState
      /\ UNCHANGED <<committed, redis, change>>
      /\ RequestOK(q, r)
      /\ r.resolveVersion \in Version /\ u \in Users
  BY ReaderType DEF GetPermissions, At, AccessInv, ReadersInv, ReaderOK
<1>2. CASE found # None /\ Resolved(q, found)
  <2>1. found \in SUBSET Changes
    BY <1>1, <1>2 DEF AccessInv, Types
  <2>2. RolesOf(u, r.resolveVersion) \subseteq found
    BY <1>1, <1>2 DEF AccessInv, EntriesInv, EntryOK
  <2> HIDE DEF found
  <2>3. PICK s2 \in ReaderState : reader' = [reader EXCEPT ![q] = s2] /\ RequestOK(q, s2)
    BY <1>1, <1>2, <2>1, <2>2, ResolvedOK
  <2> QED
    BY <1>1, <2>3, RequestReads
<1>3. CASE reader' = [reader EXCEPT ![q] = s]
  <2>1. s \in ReaderState
    BY <1>1 DEF ReaderState, Started
  <2>2. RequestOK(q, s)
    BY <1>1 DEF RequestOK, ReaderState, ForMenuOnly, Started
  <2> HIDE DEF s
  <2> QED
    BY <1>1, <1>3, <2>1, <2>2, RequestReads
<1> QED
  BY <1>2, <1>3 DEF GetPermissions

LEMMA QueryPermissionsInv ==
  ASSUME AccessInv, NEW q \in Readers, QueryPermissions(q)
  PROVE  AccessInv'
<1> DEFINE r == reader[q]
           u == UserOf[q]
           s == [r EXCEPT !.pc = "setPermissions", !.resolved = Stored(q, "role")]
<1>1. /\ r.pc = "queryPermissions" /\ r \in ReaderState
      /\ UNCHANGED <<committed, redis, change>>
      /\ RequestOK(q, r)
      /\ reader' = [reader EXCEPT ![q] = s]
      /\ CompanyOf[u] \in Companies
  BY ReaderType DEF QueryPermissions, At, AccessInv, ReadersInv, ReaderOK
<1>2. Stored(q, "role") \subseteq Changes
  BY DEF Stored, AccessInv, Types
<1>3. RolesOf(u, r.resolveVersion) \subseteq Stored(q, "role")
  BY <1>1, CountedIsCommitted DEF RolesOf, ForPermissions, CountedRole, Stored, IsRole
<1>4. s \in ReaderState
  BY <1>1, <1>2 DEF ReaderState, Started
<1>5. RequestOK(q, s)
  BY <1>1, <1>3 DEF RequestOK, ReaderState, ForMenuOnly, Started
<1> HIDE DEF s
<1> QED
  BY <1>1, <1>4, <1>5, RequestReads

LEMMA ReadMenusInv ==
  ASSUME AccessInv, NEW q \in Readers, ReadMenus(q)
  PROVE  AccessInv'
<1> DEFINE r == reader[q]
           c == CompanyOf[UserOf[q]]
           s == [r EXCEPT !.rows = Stored(q, "menu")]
<1>1. /\ r.pc \in {"readRoleVersion", "getPermissions", "queryPermissions",
                   "setPermissions", "readModules"}
      /\ r \in ReaderState /\ c \in Companies
      /\ UNCHANGED <<committed, redis, change>>
      /\ RequestOK(q, r)
      /\ reader' = [reader EXCEPT ![q] = s]
  BY ReaderType DEF ReadMenus, AccessInv, ReadersInv, ReaderOK
<1>2. Stored(q, "menu") \subseteq Changes
  BY DEF Stored, AccessInv, Types
<1>3. \A m \in CountedMenu(c, r.menuVersion) :
        Kind[m] = "menu" /\ Owner[m] = c => m \in Stored(q, "menu")
  BY <1>1, CountedIsCommitted DEF CountedMenu, Stored
<1>4. s \in ReaderState
  BY <1>1, <1>2 DEF ReaderState
<1>5. RequestOK(q, s)
  BY <1>1, <1>3 DEF RequestOK, ReaderState, ForMenuOnly, Started
<1> HIDE DEF s
<1> QED
  BY <1>1, <1>4, <1>5, RequestReads

LEMMA ReadModulesInv ==
  ASSUME AccessInv, NEW q \in Readers, ReadModules(q)
  PROVE  AccessInv'
<1> DEFINE r == reader[q]
           u == UserOf[q]
           c == CompanyOf[u]
           tree == r.resolved \cup r.rows \cup Stored(q, "module")
           s == [r EXCEPT !.pc = "setTree", !.tree = tree]
<1>1. /\ r.pc = "readModules" /\ r.rows # None
      /\ r \in ReaderState /\ c \in Companies
      /\ UNCHANGED <<committed, redis, change>>
      /\ RequestOK(q, r)
      /\ reader' = [reader EXCEPT ![q] = s]
  BY ReaderType DEF ReadModules, At, AccessInv, ReadersInv, ReaderOK
<1>2. /\ r.rows \subseteq Changes /\ r.resolved \subseteq Changes
      /\ Stored(q, "module") \subseteq Changes
  BY <1>1 DEF Stored, AccessInv, Types, ReaderState
<1>3. r.roleVersion \in Nat /\ r.resolveVersion \in Nat
  BY ReaderType, Numbers DEF AccessInv
<1>4. MenusOf(u, r.roleVersion, r.menuVersion) \subseteq tree
  <2> SUFFICES ASSUME NEW m \in MenusOf(u, r.roleVersion, r.menuVersion) PROVE m \in tree
    OBVIOUS
  <2>1. /\ m \in CountedRole(c, r.roleVersion) \cup CountedMenu(c, r.menuVersion)
        /\ Kind[m] = "module" \/ Owner[m] = c
        /\ m \in Changes /\ Kind[m] \in Kinds
    BY AccessAssumption DEF MenusOf, ForMenu, CountedRole, CountedMenu
  <2>2. CASE Kind[m] = "role"
    <3>1. change[m].at[c] \in 1..r.roleVersion /\ Owner[m] = c
      BY <2>1, <2>2 DEF CountedRole, CountedMenu, IsRole
    <3>2. r.roleVersion <= r.resolveVersion
      BY <1>1 DEF RequestOK, Started
    <3>3. change[m].at[c] \in 1..r.resolveVersion
      BY <1>3, <3>1, <3>2
    <3>4. m \in RolesOf(u, r.resolveVersion)
      BY <2>1, <2>2, <3>1, <3>3 DEF RolesOf, ForPermissions, CountedRole, IsRole
    <3> QED
      BY <1>1, <3>4 DEF RequestOK
  <2>3. CASE Kind[m] = "menu"
    BY <1>1, <2>1, <2>3 DEF RequestOK, CountedRole, IsRole, Started
  <2>4. CASE Kind[m] = "module"
    BY <1>1, <2>1, <2>4, CountedIsCommitted DEF CountedRole, CountedMenu, Stored
  <2> QED
    BY <2>1, <2>2, <2>3, <2>4 DEF Kinds
<1>5. s \in ReaderState /\ s.tree = tree /\ s.pc = "setTree"
  <2>1. tree \in SUBSET Changes
    BY <1>2
  <2> HIDE DEF tree
  <2> QED
    BY <1>1, <2>1 DEF ReaderState, Started
<1>6. RequestOK(q, s)
  <2> HIDE DEF tree
  <2> QED
    BY <1>1, <1>4, <1>5 DEF RequestOK, ReaderState, ForMenuOnly, Started
<1> HIDE DEF s
<1> QED
  BY <1>1, <1>5, <1>6, RequestReads

\* What is counted, and so what an entry has to show, does not change.
LEMMA SameCounts ==
  ASSUME UNCHANGED change
  PROVE  /\ \A u, v : RolesOf(u, v)' = RolesOf(u, v)
         /\ \A u, rv, mv : MenusOf(u, rv, mv)' = MenusOf(u, rv, mv)
BY DEF RolesOf, MenusOf, CountedRole, CountedMenu, ForPermissions, ForMenu

LEMMA SetPermissionsInv ==
  ASSUME AccessInv, NEW q \in Readers, SetPermissions(q)
  PROVE  AccessInv'
<1> DEFINE r == reader[q]
           u == UserOf[q]
           v == r.resolveVersion
<1>1. /\ r.pc = "setPermissions" /\ r \in ReaderState
      /\ UNCHANGED <<committed, roleVersion, menuVersion, trees, change>>
      /\ permissions' = [permissions EXCEPT ![u][v] = r.resolved]
      /\ Resolved(q, r.resolved)
      /\ RequestOK(q, r)
      /\ v \in Version /\ u \in Users /\ r.resolved \in SUBSET Changes
  BY ReaderType DEF SetPermissions, At, KeyVersion, AccessInv, ReadersInv, ReaderOK
<1>2. RolesOf(u, v) \subseteq r.resolved /\ v <= roleVersion[CompanyOf[u]]
  BY <1>1 DEF RequestOK, Started
<1>3. PICK s \in ReaderState : reader' = [reader EXCEPT ![q] = s] /\ RequestOK(q, s)
  BY <1>1, <1>2, ResolvedOK
<1>4. permissions' \in [Users -> [Version -> {None} \cup SUBSET Changes]]
  BY <1>1 DEF AccessInv, Types
<1>5. EntriesInv'
  <2> SUFFICES ASSUME NEW w \in Users, NEW rv \in Version PROVE EntryOK(w, rv)'
    BY DEF EntriesInv
  <2>1. EntryOK(w, rv)
    BY DEF AccessInv, EntriesInv
  <2>2. \/ permissions'[w][rv] = permissions[w][rv]
        \/ w = u /\ rv = v /\ permissions'[w][rv] = r.resolved
    BY <1>1 DEF AccessInv, Types
  <2>3. permissions'[w][rv] # None =>
          rv <= roleVersion[CompanyOf[w]] /\ RolesOf(w, rv) \subseteq permissions'[w][rv]
    BY <1>2, <2>1, <2>2 DEF EntryOK
  <2> QED
    BY <1>1, <2>1, <2>3, SameCounts DEF EntryOK
<1>6. ReaderOK(q)'
  <2>1. reader'[q] = s
    BY <1>3 DEF AccessInv, Types
  <2> QED
    BY <1>1, <1>3, <2>1 DEF ReaderOK, RequestOK, RolesOf, MenusOf, CountedRole, CountedMenu
<1>7. trees' \in [Users -> [Version -> [Version -> {None} \cup SUBSET Changes]]]
  BY <1>1 DEF AccessInv, Types
<1> QED
  BY <1>1, <1>3, <1>4, <1>5, <1>6, <1>7, RequestStep

LEMMA SetTreeInv ==
  ASSUME AccessInv, NEW q \in Readers, SetTree(q)
  PROVE  AccessInv'
<1> DEFINE r == reader[q]
           u == UserOf[q]
           x == r.roleVersion
           y == r.menuVersion
<1>1. /\ r.pc = "setTree" /\ r \in ReaderState
      /\ UNCHANGED <<committed, roleVersion, menuVersion, permissions, change>>
      /\ trees' = [trees EXCEPT ![u][x][y] = r.tree]
      /\ reader' = [reader EXCEPT ![q] = Idle]
      /\ RequestOK(q, r)
      /\ x \in Version /\ y \in Version /\ u \in Users /\ r.tree \in SUBSET Changes
  BY ReaderType DEF SetTree, Answer, At, AccessInv, ReadersInv, ReaderOK
<1>2. /\ MenusOf(u, x, y) \subseteq r.tree
      /\ x <= roleVersion[CompanyOf[u]] /\ y <= menuVersion[CompanyOf[u]]
  <2>1. /\ x \in Nat /\ r.resolveVersion \in Nat /\ roleVersion[CompanyOf[u]] \in Nat
    BY ReaderType, Numbers DEF AccessInv, Types
  <2> QED
    BY <1>1, <2>1 DEF RequestOK, Started
<1>3. trees' \in [Users -> [Version -> [Version -> {None} \cup SUBSET Changes]]]
  BY <1>1 DEF AccessInv, Types
<1>4. EntriesInv'
  <2> SUFFICES ASSUME NEW w \in Users, NEW rv \in Version PROVE EntryOK(w, rv)'
    BY DEF EntriesInv
  <2>1. EntryOK(w, rv)
    BY DEF AccessInv, EntriesInv
  <2>2. ASSUME NEW mv \in Version, trees'[w][rv][mv] # None
        PROVE  /\ rv <= roleVersion[CompanyOf[w]] /\ mv <= menuVersion[CompanyOf[w]]
               /\ MenusOf(w, rv, mv) \subseteq trees'[w][rv][mv]
    <3>1. \/ trees'[w][rv][mv] = trees[w][rv][mv]
          \/ w = u /\ rv = x /\ mv = y /\ trees'[w][rv][mv] = r.tree
      BY <1>1 DEF AccessInv, Types
    <3> QED
      BY <1>2, <2>1, <2>2, <3>1 DEF EntryOK
  <2> QED
    BY <1>1, <2>1, <2>2, SameCounts DEF EntryOK
<1>5. ReaderOK(q)'
  <2>1. reader'[q] = Idle
    BY <1>1 DEF AccessInv, Types
  <2> QED
    BY <2>1, IdleType DEF ReaderOK, RequestOK, ForMenuOnly, Started
<1>6. permissions' \in [Users -> [Version -> {None} \cup SUBSET Changes]]
  BY <1>1 DEF AccessInv, Types
<1> QED
  BY <1>1, <1>3, <1>4, <1>5, <1>6, IdleType, RequestStep

LEMMA ExpireInv ==
  ASSUME AccessInv, NEW u \in Users, ExpirePermissions(u) \/ ExpireTree(u)
  PROVE  AccessInv'
<1>1. UNCHANGED <<committed, roleVersion, menuVersion, change, reader>>
  BY DEF ExpirePermissions, ExpireTree
<1> DEFINE x == roleVersion[CompanyOf[u]]
           y == menuVersion[CompanyOf[u]]
<1>2. /\ \A w \in Users, rv \in Version :
           permissions'[w][rv] \in {None, permissions[w][rv]}
      /\ \A w \in Users, rv \in Version, mv \in Version :
           trees'[w][rv][mv] \in {None, trees[w][rv][mv]}
      /\ Types'
  <2>1. x \in Version /\ y \in Version
    BY AccessAssumption DEF AccessInv, Types
  <2>2. CASE ExpirePermissions(u)
    <3>1. permissions' = [permissions EXCEPT ![u][x] = None] /\ trees' = trees
      BY <2>2 DEF ExpirePermissions
    <3> HIDE DEF x, y
    <3>2. permissions' \in [Users -> [Version -> {None} \cup SUBSET Changes]]
      BY <2>1, <3>1 DEF AccessInv, Types
    <3>3. \A w \in Users, rv \in Version : permissions'[w][rv] \in {None, permissions[w][rv]}
      BY <2>1, <3>1 DEF AccessInv, Types
    <3> QED
      BY <1>1, <3>1, <3>2, <3>3 DEF AccessInv, Types
  <2>3. CASE ExpireTree(u)
    <3>1. trees' = [trees EXCEPT ![u][x][y] = None] /\ permissions' = permissions
      BY <2>3 DEF ExpireTree
    <3> HIDE DEF x, y
    <3>2. trees' \in [Users -> [Version -> [Version -> {None} \cup SUBSET Changes]]]
      BY <2>1, <3>1 DEF AccessInv, Types
    <3>3. \A w \in Users, rv \in Version, mv \in Version :
            trees'[w][rv][mv] \in {None, trees[w][rv][mv]}
      BY <2>1, <3>1 DEF AccessInv, Types
    <3> QED
      BY <1>1, <3>1, <3>2, <3>3 DEF AccessInv, Types
  <2> QED
    BY <2>2, <2>3
<1>3. Types'
  BY <1>2
<1>4. CountersInv' /\ ChangesInv' /\ Grows
  BY <1>1, QuietGrows
     DEF AccessInv, CountersInv, CountedRole, CountedMenu, ChangesInv, ChangeOK
<1>5. ReadersInv'
  BY <1>1, <1>3, <1>4, ReaderGrows DEF AccessInv, ReadersInv
<1>6. EntriesInv'
  <2> SUFFICES ASSUME NEW w \in Users, NEW rv \in Version PROVE EntryOK(w, rv)'
    BY DEF EntriesInv
  <2>1. EntryOK(w, rv)
    BY DEF AccessInv, EntriesInv
  <2>2. /\ permissions'[w][rv] \in {None, permissions[w][rv]}
        /\ \A mv \in Version : trees'[w][rv][mv] \in {None, trees[w][rv][mv]}
    BY <1>2
  <2> QED
    BY <1>1, <2>1, <2>2, SameCounts DEF EntryOK
<1> QED
  BY <1>3, <1>4, <1>5, <1>6 DEF AccessInv

-----------------------------------------------------------------------------
\* The caches' invariant: entries show what their versions count, and the
\* versions that a request has read count what had returned before it began.
THEOREM AccessInvariant == Spec => []AccessInv
<1>1. Init => AccessInv
  BY InitAccess
<1>2. AccessInv /\ [Next]_vars => AccessInv'
  <2> SUFFICES ASSUME AccessInv, [Next]_vars PROVE AccessInv'
    OBVIOUS
  <2>1. ASSUME NEW m \in Changes, Apply(m) \/ Crash(m) PROVE AccessInv'
    BY <2>1, WriteInv, BumpInv, CrashInv DEF Apply
  <2>2. ASSUME NEW q \in Readers, Read(q) PROVE AccessInv'
    BY <2>2, BeginInv, ReadMenuVersionInv, GetTreeInv, ReadRoleVersionInv,
       GetPermissionsInv, QueryPermissionsInv, SetPermissionsInv, ReadMenusInv,
       ReadModulesInv, SetTreeInv DEF Read, ResolveStep, MenuStep
  <2>3. ASSUME NEW u \in Users, ExpirePermissions(u) \/ ExpireTree(u) PROVE AccessInv'
    BY <2>3, ExpireInv
  <2>4. CASE UNCHANGED vars
    <3>1. UNCHANGED <<committed, roleVersion, menuVersion, permissions, trees, change, reader>>
      BY <2>4 DEF vars, redis
    <3>2. Types' /\ CountersInv' /\ ChangesInv'
      BY <3>1 DEF AccessInv, Types, CountersInv, CountedRole, CountedMenu, ChangesInv, ChangeOK
    <3>3. Grows
      BY <3>1, QuietGrows DEF AccessInv
    <3>4. EntriesInv' /\ ReadersInv'
      BY <3>1, <3>2, <3>3, EntriesGrow, ReaderGrows DEF AccessInv, ReadersInv
    <3> QED
      BY <3>2, <3>4 DEF AccessInv
  <2> QED
    BY <2>1, <2>2, <2>3, <2>4 DEF Next
<1> QED
  BY <1>1, <1>2, PTL DEF Spec

\* No increment of a version is lost, and none returns a number twice (TypeOK):
\* a company's version is the number of its changes that have been counted.
THEOREM VersionsCount == Spec => []TypeOK
<1>1. AccessInv => TypeOK
  BY DEF AccessInv, Types, CountersInv, TypeOK
<1> QED
  BY <1>1, AccessInvariant, PTL

\* A change of roles, menus or modules takes effect on the first request after
\* the call that made it has returned (TakesEffectImmediately), though entries
\* are stored by requests that began before it and expire whenever they do.
THEOREM ChangesTakeEffect == Spec => []TakesEffectImmediately
<1>1. AccessInv => TakesEffectImmediately
  <2> SUFFICES ASSUME AccessInv, NEW q \in Readers
               PROVE  LET u == UserOf[q]
                          r == reader[q]
                      IN
                      /\ /\ Reads[q] = "permissions"
                         /\ r.pc \in {"getPermissions", "setPermissions"}
                         /\ PermissionsAnswer(q) # None
                         => ForPermissions(u, r.promised) \subseteq PermissionsAnswer(q)
                      /\ /\ r.pc \in {"getTree", "setTree"}
                         /\ TreeAnswer(q) # None
                         => ForMenu(u, r.promised) \subseteq TreeAnswer(q)
    BY DEF TakesEffectImmediately
  <2> DEFINE u == UserOf[q]
             r == reader[q]
             c == CompanyOf[u]
  <2>1. /\ RequestOK(q, r) /\ u \in Users /\ c \in Companies
        /\ r.roleVersion \in Version /\ r.resolveVersion \in Version /\ r.menuVersion \in Version
        /\ r.promised \subseteq Changes
    BY ReaderType DEF AccessInv, ReadersInv, ReaderOK
  <2>2. r.roleVersion \in Nat /\ r.resolveVersion \in Nat
    BY <2>1, Numbers
  <2>3. ASSUME Reads[q] = "permissions", r.pc \in {"getPermissions", "setPermissions"},
               PermissionsAnswer(q) # None
        PROVE  ForPermissions(u, r.promised) \subseteq PermissionsAnswer(q)
    <3>1. RolesOf(u, r.resolveVersion) \subseteq PermissionsAnswer(q)
      BY <2>1, <2>3 DEF PermissionsAnswer, At, RequestOK, AccessInv, EntriesInv, EntryOK
    <3>2. ForPermissions(u, r.promised) \subseteq CountedRole(c, r.roleVersion)
      BY <2>1, <2>3 DEF RequestOK, Started
    <3>3. r.roleVersion <= r.resolveVersion
      BY <2>1, <2>3 DEF RequestOK, Started
    <3>4. CountedRole(c, r.roleVersion) \subseteq CountedRole(c, r.resolveVersion)
      BY <2>2, <3>3 DEF CountedRole
    <3> QED
      BY <3>1, <3>2, <3>4 DEF RolesOf, ForPermissions
  <2>4. ASSUME r.pc \in {"getTree", "setTree"}, TreeAnswer(q) # None
        PROVE  ForMenu(u, r.promised) \subseteq TreeAnswer(q)
    <3>1. MenusOf(u, r.roleVersion, r.menuVersion) \subseteq TreeAnswer(q)
      BY <2>1, <2>4 DEF TreeAnswer, At, RequestOK, AccessInv, EntriesInv, EntryOK
    <3>2. ForMenu(u, r.promised)
            \subseteq CountedRole(c, r.roleVersion) \cup CountedMenu(c, r.menuVersion)
      BY <2>1, <2>4 DEF RequestOK, Started, ForMenuOnly
    <3> QED
      BY <3>1, <3>2 DEF MenusOf, ForMenu
  <2> QED
    BY <2>3, <2>4
<1> QED
  BY <1>1, AccessInvariant, PTL
=============================================================================
