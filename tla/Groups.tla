------------------------------- MODULE Groups -------------------------------
(***************************************************************************)
(* The sync server's groups (sinkron/src/groups.rs): the rows of `groups`  *)
(* and `members`, and the cache of each user's groups that permission      *)
(* checks read.                                                            *)
(*                                                                         *)
(* A miss reads the rows and stores what it read in two steps; a change of *)
(* membership writes its rows and then drops the user's entry, in two more *)
(* steps.  Readers and writers run side by side.                           *)
(***************************************************************************)
EXTENDS Naturals, FiniteSets

CONSTANTS
    User,
    Group,
    Reader,      \* tasks that may be inside get_user at the same time
    Writer,      \* requests to change groups that may be under way
    Unknown      \* not in the cache

ASSUME GroupsAssumption == \A gs \in SUBSET Group : gs # Unknown

VARIABLES
    groups,      \* the rows of `groups`
    members,     \* how many rows of `members` a user has for a group
    cache,
    fill,        \* per reader: what get_user read and has yet to store
    change,      \* per writer: the step of its request that comes next
    doubtful     \* history: users whose rows changed unseen by the cache

rows       == <<groups, members>>
groupsVars == <<rows, cache, fill, change, doubtful>>

NoFill == [user |-> Unknown, groups |-> {}]
Idle   == [step |-> "idle"]

Fill   == [user: User, groups: SUBSET Group]
Change == [step: {"insert"}, user: User, group: Group]
              \cup [step: {"invalidate"}, user: User]
              \cup [step: {"drop"}, group: Group]

GroupsTypeOK ==
    /\ groups \subseteq Group
    /\ members \in [User -> [Group -> Nat]]
    /\ cache \in [User -> {Unknown} \cup SUBSET Group]
    /\ fill \in [Reader -> Fill \cup {NoFill}]
    /\ change \in [Writer -> Change \cup {Idle}]
    /\ doubtful \subseteq User

\* The server starts with whatever rows are in the database.
GroupsInit ==
    /\ groups \in SUBSET Group
    /\ members \in [User -> [Group -> Nat]]
    /\ \A u \in User, g \in Group \ groups : members[u][g] = 0
    /\ cache = [u \in User |-> Unknown]
    /\ fill = [r \in Reader |-> NoFill]
    /\ change = [w \in Writer |-> Idle]
    /\ doubtful = {}

\* What the database says.
GroupsOf(u) == {g \in Group : members[u][g] > 0}

Filling(u) == \E r \in Reader : fill[r] # NoFill /\ fill[r].user = u

-----------------------------------------------------------------------------
(* get_user, for an entry that is not in the cache *)

FillRead(r, u) ==
    /\ fill[r] = NoFill /\ cache[u] = Unknown
    /\ fill' = [fill EXCEPT ![r] = [user |-> u, groups |-> GroupsOf(u)]]
    /\ UNCHANGED <<rows, cache, change, doubtful>>

\* Storing an entry may push others out.
FillPut(r) ==
    /\ fill[r] # NoFill
    /\ \E evicted \in SUBSET (User \ {fill[r].user}) :
          cache' = [u \in User |-> IF u = fill[r].user THEN fill[r].groups
                                   ELSE IF u \in evicted THEN Unknown ELSE cache[u]]
    /\ fill' = [fill EXCEPT ![r] = NoFill]
    /\ UNCHANGED <<rows, change, doubtful>>

\* The reader ends, or its query fails.
FillDrop(r) ==
    /\ fill[r] # NoFill
    /\ fill' = [fill EXCEPT ![r] = NoFill]
    /\ UNCHANGED <<rows, cache, change, doubtful>>

-----------------------------------------------------------------------------
(* Requests that change membership *)

Then(w, next) == change' = [change EXCEPT ![w] = next]

\* The rows of these users change.  A reading taken before is now stale, and
\* will be stored after the entry has been dropped.
Touch(users) == doubtful' = doubtful \cup {u \in users : Filling(u)}

CreateGroup(g) ==
    /\ g \notin groups
    /\ groups' = groups \cup {g}
    /\ UNCHANGED <<members, cache, fill, change, doubtful>>

AddCheck(w, u, g) ==
    /\ change[w] = Idle /\ g \in groups
    /\ Then(w, [step |-> "insert", user |-> u, group |-> g])
    /\ UNCHANGED <<rows, cache, fill, doubtful>>

\* Mutant of AddInsert: the user's entry stays in the cache.
AddInsertQuiet(w) ==
    /\ change[w].step = "insert"
    /\ LET u == change[w].user
           g == change[w].group IN
       /\ members' = IF g \in groups THEN [members EXCEPT ![u][g] = @ + 1] ELSE members
       /\ Then(w, Idle)
       /\ IF g \in groups THEN Touch({u}) ELSE UNCHANGED doubtful
    /\ UNCHANGED <<groups, cache, fill>>

\* A second row for the same group is as good as one; the group may be gone
\* since the check, which the foreign key turns into an error.
AddInsert(w) ==
    /\ change[w].step = "insert"
    /\ LET u == change[w].user
           g == change[w].group IN
       \/ /\ g \in groups
          /\ members' = [members EXCEPT ![u][g] = @ + 1]
          /\ Then(w, [step |-> "invalidate", user |-> u])
          /\ Touch({u})
       \/ /\ g \notin groups
          /\ Then(w, Idle)
          /\ UNCHANGED <<members, doubtful>>
    /\ UNCHANGED <<groups, cache, fill>>

\* Mutant of RemoveRows: a row is taken away without looking for one.
RemoveRowsBlindly(w, u, g) ==
    /\ change[w] = Idle
    /\ members' = [members EXCEPT ![u][g] = @ - 1]
    /\ Then(w, [step |-> "invalidate", user |-> u])
    /\ Touch({u})
    /\ UNCHANGED <<groups, cache, fill>>

RemoveRows(w, u, g) ==
    /\ change[w] = Idle
    /\ members[u][g] > 0
    /\ members' = [members EXCEPT ![u][g] = 0]
    /\ Then(w, [step |-> "invalidate", user |-> u])
    /\ Touch({u})
    /\ UNCHANGED <<groups, cache, fill>>

RemoveAllRows(w, u) ==
    /\ change[w] = Idle
    /\ members' = [members EXCEPT ![u] = [g \in Group |-> 0]]
    /\ Then(w, [step |-> "invalidate", user |-> u])
    /\ Touch({u})
    /\ UNCHANGED <<groups, cache, fill>>

\* Mutant of Invalidate: the entry is left where it is.
InvalidateNothing(w) ==
    /\ change[w].step = "invalidate"
    /\ LET u == change[w].user IN
       doubtful' = IF Filling(u) THEN doubtful ELSE doubtful \ {u}
    /\ Then(w, Idle)
    /\ UNCHANGED <<rows, cache, fill>>

\* remove_user_from_cache: by then only readings of before the change can still
\* bring an old entry back.
Invalidate(w) ==
    /\ change[w].step = "invalidate"
    /\ LET u == change[w].user IN
       /\ cache' = [cache EXCEPT ![u] = Unknown]
       /\ doubtful' = IF Filling(u) THEN doubtful ELSE doubtful \ {u}
    /\ Then(w, Idle)
    /\ UNCHANGED <<rows, fill>>

\* Deleting a group drops nobody's entry.
DeleteMembers(w, g) ==
    /\ change[w] = Idle
    /\ members' = [u \in User |-> [members[u] EXCEPT ![g] = 0]]
    /\ doubtful' = doubtful \cup {u \in User : members[u][g] > 0}
    /\ Then(w, [step |-> "drop", group |-> g])
    /\ UNCHANGED <<groups, cache, fill>>

\* Refused by the foreign key if someone was added meanwhile.
DropGroup(w) ==
    /\ change[w].step = "drop"
    /\ groups' = IF \E u \in User : members[u][change[w].group] > 0
                 THEN groups ELSE groups \ {change[w].group}
    /\ Then(w, Idle)
    /\ UNCHANGED <<members, cache, fill, doubtful>>

-----------------------------------------------------------------------------

Begin(w) ==
    \/ \E u \in User, g \in Group : AddCheck(w, u, g) \/ RemoveRows(w, u, g)
    \/ \E u \in User : RemoveAllRows(w, u)
    \/ \E g \in Group : DeleteMembers(w, g)

Proceed(w) == AddInsert(w) \/ Invalidate(w) \/ DropGroup(w)

ReaderStep(r) == (\E u \in User : FillRead(r, u)) \/ FillPut(r) \/ FillDrop(r)

GroupsNext ==
    \/ \E r \in Reader : ReaderStep(r)
    \/ \E w \in Writer : Begin(w) \/ Proceed(w)
    \/ \E g \in Group : CreateGroup(g)

GroupsSpec == GroupsInit /\ [][GroupsNext]_groupsVars

-----------------------------------------------------------------------------
(* Properties *)

Invalidating(u) ==
    \E w \in Writer : change[w].step = "invalidate" /\ change[w].user = u

\* What the cache says of a user is what the database says, or the change that
\* made the difference is about to drop the entry: except for members of a
\* deleted group, and users whose rows changed between a reader's query and its
\* storing of the result.
CacheFresh ==
    \A u \in User \ doubtful :
        Invalidating(u) \/ cache[u] = Unknown \/ cache[u] = GroupsOf(u)

\* A reading that is about to be stored is what the database says.
FillsFresh ==
    \A r \in Reader :
        fill[r] # NoFill /\ fill[r].user \notin doubtful =>
            fill[r].groups = GroupsOf(fill[r].user)
=============================================================================
