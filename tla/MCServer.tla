------------------------------ MODULE MCServer ------------------------------
(***************************************************************************)
(* The sync server's actors and groups, for TLC: one collection, and at    *)
(* most MaxEvents requests to change groups, changes of the collection's   *)
(* permissions, changes sent by sessions and panics, in any mix.           *)
(***************************************************************************)
EXTENDS Server

CONSTANTS MaxEvents, u1, g1, c1

VARIABLES
    events,      \* so far
    crossed,     \* did someone come while someone was going?
    panicked     \* has an actor panicked?

MCColOf(x)  == c1
MCUserOf(s) == u1
MCPerm      == {{g1}, {u1}}

\* Someone's arrival at a collection is under way: from the request to the
\* handling of its Subscribe.
Coming ==
    \/ \E x \in Caller : stage[x] \in {"asking", "found", "joined"}
    \/ \E s \in Session : Subscribing(s)

\* Someone's departure: from leaving to the hub's reading of the actor's exit.
Going ==
    \/ \E s \in leaving : stage[s] # "gone" \/ (attached[s] # Nobody /\ Sent("unsubscribe", s))
    \/ \E a \in Actor : life[a] = "stopping"
    \/ exits # <<>>

\* Sessions are told apart by the order they come in.
NextSession ==
    LET new == {s \in Session : stage[s] = "new"} IN
    IF new = {} THEN {} ELSE {CHOOSE s \in new : TRUE}

Proceeding == (\E w \in Writer : Proceed(w)) \/ \E g \in Group : CreateGroup(g)

Step ==
    \/ /\ \/ Progress /\ UNCHANGED <<groupsVars, renewed>>
          \/ HubForget
          \/ \E a \in Actor : Serve(a) \/ (Stop(a) /\ EndFill(a) /\ UNCHANGED renewed)
          \/ Proceeding /\ UNCHANGED <<lifecycleVars, renewed>>
          \/ /\ \/ \E x \in NextSession \cup Request : Ask(x)
                \/ \E s \in Session : Leave(s)
                \/ CreateCollection(c1, {g1})
             /\ UNCHANGED <<groupsVars, renewed>>
       /\ UNCHANGED <<events, panicked>>
    \/ /\ events < MaxEvents /\ events' = events + 1
       /\ \/ /\ \/ (\E w \in Writer : Begin(w)) /\ UNCHANGED <<lifecycleVars, renewed>>
                \/ (\E s \in Session : SessionSend(s)) /\ UNCHANGED <<groupsVars, renewed>>
                \/ \E p \in Perm : p # row[c1] /\ Renew(c1, p)
             /\ UNCHANGED panicked
          \/ /\ \E a \in Actor : Panic(a) /\ EndFill(a)
             /\ panicked' = TRUE
             /\ UNCHANGED renewed

Crossing == crossed' = (crossed \/ (Coming /\ Going)')

MCNext == Step /\ Crossing

MCVars == <<serverVars, events, crossed, panicked>>

\* The group is there, and the user in it or not; the collection is not.
MCInit ==
    /\ row = [c \in Col |-> Nobody]
    /\ groups = {g1}
    /\ members \in [User -> [Group -> 0..1]]
    /\ ServerInit
    /\ events = 0 /\ crossed = FALSE /\ panicked = FALSE

MCSpec == MCInit /\ [][MCNext]_MCVars

Free(A) == A /\ UNCHANGED <<events, panicked>> /\ Crossing

Alone(A) == A /\ UNCHANGED <<groupsVars, renewed>>

\* Actors run when there is something for them; a handler ends, one way or another.
Fairness ==
    /\ WF_MCVars(Free(\/ Alone((\E x \in Caller : HubRead(x)) \/ HubAttach \/ HubSubscribe)
                      \/ HubForget))
    /\ \A s \in Session : WF_MCVars(Free(Alone(SessionStep(s))))
    /\ \A q \in Request : WF_MCVars(Free(Alone(RequestSend(q))))
    /\ \A a \in Actor :
          WF_MCVars(Free(\/ Alone(Handle(a)) \/ Serve(a)
                         \/ Stop(a) /\ EndFill(a) /\ UNCHANGED renewed))

MCFairSpec == MCSpec /\ Fairness

\* When nobody comes while another is going, and no actor panics, every session
\* that is synced is attended, and nobody who is gone is subscribed.
AttendedIfUncrossed == ~crossed => (~panicked => Attended) /\ NoGhosts
=============================================================================
