------------------------------- MODULE Server -------------------------------
(***************************************************************************)
(* The sync server's collection actors at work on the permissions of the   *)
(* users that connect: the life of actors (Lifecycle) with the groups and  *)
(* their cache (Groups).  An actor that serves a sync or a change reads    *)
(* the user's groups, and waits for them when they are not in the cache.   *)
(***************************************************************************)
EXTENDS Lifecycle, Groups

CONSTANTS
    UserOf(_),   \* a session's user
    Any          \* the role everybody has

ASSUME ServerAssumption ==
    /\ Reader = Actor
    /\ Perm \subseteq SUBSET (User \cup Group \cup {Any})
    /\ \A s \in Session : UserOf(s) \in User

VARIABLE renewed    \* history: collections whose permissions changed under an actor

serverVars == <<lifecycleVars, groupsVars, renewed>>

ServerTypeOK == LifecycleTypeOK /\ GroupsTypeOK /\ renewed \subseteq Col

ServerInit == LifecycleInit /\ GroupsInit /\ renewed = {}

\* Permissions::check, for one action.
Permits(p, u, gs) == Any \in p \/ u \in p \/ p \cap gs # {}

-----------------------------------------------------------------------------

\* The answers to session s, by its user's groups as they were read.  A sync may
\* also fail for its revision, or in the database.
Verdicts(s, p, gs) ==
    IF stage[s] # "syncing" THEN {"ready"}
    ELSE IF Permits(p, UserOf(s), gs) THEN {"ready", "refused"} ELSE {"forbidden"}

Reply(a, gs) == \E st \in Verdicts(busy[a], perms[a], gs) : Answer(a, st)

\* The groups are in the cache.
ServeCached(a) ==
    /\ busy[a] \in Session /\ fill[a] = NoFill
    /\ cache[UserOf(busy[a])] # Unknown
    /\ Reply(a, cache[UserOf(busy[a])])
    /\ UNCHANGED <<groupsVars, renewed>>

\* They are not: they are read, ...
LookUp(a) ==
    /\ Alive(a) /\ busy[a] \in Session
    /\ FillRead(a, UserOf(busy[a]))
    /\ UNCHANGED <<lifecycleVars, renewed>>

\* ... stored, and used as they were read.
ServeRead(a) ==
    /\ busy[a] \in Session
    /\ FillPut(a)
    /\ Reply(a, fill[a].groups)
    /\ UNCHANGED renewed

\* Nobody's permission is needed for the API.
ServeRequest(a) ==
    /\ busy[a] \in Request
    /\ Answer(a, "answered")
    /\ UNCHANGED <<groupsVars, renewed>>

\* An actor that ends leaves its reading unused.
EndFill(a) == IF fill[a] = NoFill THEN UNCHANGED groupsVars ELSE FillDrop(a)

ActorEnds(a) ==
    /\ Stop(a) \/ Panic(a)
    /\ EndFill(a)
    /\ UNCHANGED renewed

\* Is anyone holding permissions of collection c as they were?
Holding(c) == registry[c] # Nobody \/ (hub.step = "found" /\ ColOf(hub.for) = c)

Renew(c, p) ==
    /\ UpdateCollectionPermissions(c, p)
    /\ renewed' = IF Holding(c) THEN renewed \cup {c} ELSE renewed
    /\ UNCHANGED groupsVars

\* The next actor starts with the permissions of the day.
HubForget ==
    /\ HubExit
    /\ renewed' = renewed \ {Head(exits)}
    /\ UNCHANGED groupsVars

-----------------------------------------------------------------------------

Serve(a) == ServeCached(a) \/ LookUp(a) \/ ServeRead(a) \/ ServeRequest(a)

Progress ==
    \/ (\E x \in Caller : HubRead(x)) \/ HubAttach \/ HubSubscribe
    \/ \E s \in Session : SessionStep(s)
    \/ \E q \in Request : RequestSend(q)
    \/ \E a \in Actor : Handle(a)

Ambient ==
    \/ \E x \in Caller : Ask(x)
    \/ \E s \in Session : SessionSend(s) \/ Leave(s)
    \/ \E c \in Col, p \in Perm : CreateCollection(c, p)

Membership ==
    \/ \E w \in Writer : Begin(w) \/ Proceed(w)
    \/ \E g \in Group : CreateGroup(g)

ServerNext ==
    \/ (Progress \/ Ambient) /\ UNCHANGED <<groupsVars, renewed>>
    \/ HubForget
    \/ \E a \in Actor : Serve(a) \/ ActorEnds(a)
    \/ Membership /\ UNCHANGED <<lifecycleVars, renewed>>
    \/ \E c \in Col, p \in Perm : Renew(c, p)

ServerSpec == ServerInit /\ [][ServerNext]_serverVars

-----------------------------------------------------------------------------
(* Properties *)

\* What the database says of a session's user and collection.
MayRead(s) == Permits(row[ColOf(s)], UserOf(s), GroupsOf(UserOf(s)))

\* A step that ends a sync lets in whom the database would let in.
RightVerdict(s) ==
    LET u == UserOf(s) IN
    \/ stage[s] # "syncing" \/ stage'[s] \notin {"ready", "forbidden"}
    \/ u \in doubtful \/ Invalidating(u) \/ ColOf(s) \in renewed
    \/ stage'[s] = "ready" <=> MayRead(s)

\* The verdict on a sync, reached from the cache, from a reading of a while ago and
\* from permissions read when the actor started, is what the database says: unless
\* the user's groups changed and the change has yet to reach the cache or never
\* will (Groups), or the collection's permissions changed under its actor.
VerdictRight == [][\A s \in Session : RightVerdict(s)]_serverVars
=============================================================================
