--------------------------- MODULE AccessProperties ---------------------------
(***************************************************************************)
(* What the version numbers promise of the cache, however changes,         *)
(* requests, expiries and crashes interleave.                              *)
(***************************************************************************)
EXTENDS AccessCache

IsRole(m) == Kind[m] = "role"

\* The changes counted by version v of company c: their increment returned v
\* or less.
CountedRole(c, v) == {m \in Changes : IsRole(m) /\ change[m].at[c] \in 1..v}
CountedMenu(c, v) == {m \in Changes : ~IsRole(m) /\ change[m].at[c] \in 1..v}

\* Every variable has its type, and a version is the number of increments:
\* none is lost and none returns the same number twice.
TypeOK ==
  /\ committed \in SUBSET Changes
  /\ roleVersion \in [Companies -> Version]
  /\ menuVersion \in [Companies -> Version]
  /\ permissions \in [Users -> [Version -> {None} \cup SUBSET Changes]]
  /\ trees \in [Users -> [Version -> [Version -> {None} \cup SUBSET Changes]]]
  /\ change \in [Changes -> ChangeState]
  /\ reader \in [Readers -> ReaderState]
  /\ \A c \in Companies :
       /\ roleVersion[c] = Cardinality(CountedRole(c, roleVersion[c]))
       /\ menuVersion[c] = Cardinality(CountedMenu(c, menuVersion[c]))

\* What a request answers when its next step is to answer.
PermissionsAnswer(q) ==
  IF At(q, "setPermissions") THEN reader[q].resolved
                             ELSE permissions[UserOf[q]][reader[q].resolveVersion]
TreeAnswer(q) ==
  IF At(q, "setTree") THEN reader[q].tree
  ELSE trees[UserOf[q]][reader[q].roleVersion][reader[q].menuVersion]

\* What of the given changes a user's permissions, or menu, must show.
ForPermissions(u, ms) == {m \in ms : IsRole(m) /\ Owner[m] = CompanyOf[u]}
ForMenu(u, ms) == {m \in ms : Kind[m] = "module" \/ Owner[m] = CompanyOf[u]}

\* A change takes effect on the very next request after the call that made it
\* has returned, not after the expiry: whatever a request answers reflects
\* every change that had returned when the request began.
TakesEffectImmediately ==
  \A q \in Readers :
    LET u == UserOf[q]
        r == reader[q]
    IN
    /\ /\ Reads[q] = "permissions"
       /\ r.pc \in {"getPermissions", "setPermissions"}
       /\ PermissionsAnswer(q) # None
       => ForPermissions(u, r.promised) \subseteq PermissionsAnswer(q)
    /\ /\ r.pc \in {"getTree", "setTree"}
       /\ TreeAnswer(q) # None
       => ForMenu(u, r.promised) \subseteq TreeAnswer(q)

\* The entries that the next request would find reflect all that is committed.
CurrentEntriesAreFresh ==
  \A u \in Users :
    LET c == CompanyOf[u]
        found == permissions[u][roleVersion[c]]
        tree == trees[u][roleVersion[c]][menuVersion[c]]
    IN
    /\ found # None => ForPermissions(u, committed) \subseteq found
    /\ tree # None => ForMenu(u, committed) \subseteq tree

\* A change whose increment was lost in a crash, which leaves current entries
\* without it, is still in every current entry from some time on: entries
\* expire, and no request stores an old answer forever.
EventuallyFresh == <>[]CurrentEntriesAreFresh
=============================================================================
