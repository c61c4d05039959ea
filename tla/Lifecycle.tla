----------------------------- MODULE Lifecycle ------------------------------
(***************************************************************************)
(* How collection actors come and go (sinkron/src/actors/sinkron.rs,       *)
(* supervisor.rs, and the parts of collection.rs and client.rs that start  *)
(* and stop actors).  One actor, the hub, starts an actor for a collection *)
(* when someone asks for it, and keeps its handle in a registry until the  *)
(* actor's exit is reported to it.  A collection's actor stops with its    *)
(* last subscriber; the messages queued behind that are dropped.           *)
(*                                                                         *)
(* What is read and written in a collection is in module Collection; here  *)
(* a message matters only for whom it keeps waiting.                       *)
(***************************************************************************)
EXTENDS Naturals, FiniteSets, Sequences

CONSTANTS
    Col,         \* collections
    Session,     \* connections: each stands for one connection ever made
    Request,     \* HTTP requests for a document, likewise
    Actor,       \* collection actors, running or not: each is started once
    Nobody,      \* no actor, no session, no permissions
    Perm         \* permissions a collection may have

ASSUME LifecycleAssumption ==
    /\ Session \cap Request = {}
    /\ Nobody \notin Session \cup Request \cup Actor
    /\ \A p \in Perm : p # Nobody

Caller == Session \cup Request

CONSTANT ColOf(_)    \* the collection a caller asks for

ASSUME ColOfAssumption == \A x \in Caller : ColOf(x) \in Col

VARIABLES
    row,         \* per collection: the permissions in its row, or Nobody
    registry,    \* per collection: the actor whose handle the hub has
    life,        \* per actor
    home,        \* per actor: its collection
    perms,       \* per actor: the permissions in its state
    queue,       \* per actor: messages not yet handled
    busy,        \* per actor: the caller whose message it is handling
    subs,        \* per actor: its subscribers
    exits,       \* reports of actors that stopped, not yet read by the hub
    hub,         \* what the hub is doing
    stage,       \* per caller: how far it is
    attached,    \* per caller: the actor it got
    leaving      \* sessions whose peer is gone or whose actor is told to stop

actorVars     == <<registry, life, home, perms, queue, busy, subs, exits>>
callerVars    == <<stage, attached, leaving>>
lifecycleVars == <<row, actorVars, hub, callerVars>>

HubIdle == [step |-> "idle"]

Message == [kind: {"sync", "change", "subscribe", "unsubscribe"}, from: Caller]

\* A session: asking - found - joined - syncing - ready (or forbidden,
\* or refused for another reason), then any number of waiting - ready, and gone.  A request: asking - found - joined -
\* waiting - answered or failed.
Stage == {"new", "asking", "found", "joined", "syncing", "ready", "forbidden",
          "refused", "waiting", "answered", "failed", "gone"}

LifecycleTypeOK ==
    /\ row \in [Col -> {Nobody} \cup Perm]
    /\ registry \in [Col -> Actor \cup {Nobody}]
    /\ life \in [Actor -> {"unborn", "running", "stopping", "ended", "panicked"}]
    /\ home \in [Actor -> Col \cup {Nobody}]
    /\ perms \in [Actor -> {Nobody} \cup Perm]
    /\ queue \in [Actor -> Seq(Message)]
    /\ busy \in [Actor -> Caller \cup {Nobody}]
    /\ subs \in [Actor -> SUBSET Session]
    /\ exits \in Seq(Col)
    /\ hub \in {HubIdle} \cup [step: {"found"}, for: Caller, perms: Perm]
                         \cup [step: {"subscribe"}, for: Session]
    /\ stage \in [Caller -> Stage]
    /\ attached \in [Caller -> Actor \cup {Nobody}]
    /\ leaving \subseteq Session

\* The server starts with whatever collections are in the database, and no actor.
LifecycleInit ==
    /\ row \in [Col -> Perm \cup {Nobody}]
    /\ registry = [c \in Col |-> Nobody]
    /\ life = [a \in Actor |-> "unborn"]
    /\ home = [a \in Actor |-> Nobody]
    /\ perms = [a \in Actor |-> Nobody]
    /\ queue = [a \in Actor |-> <<>>]
    /\ busy = [a \in Actor |-> Nobody]
    /\ subs = [a \in Actor |-> {}]
    /\ exits = <<>>
    /\ hub = HubIdle
    /\ stage = [x \in Caller |-> "new"]
    /\ attached = [x \in Caller |-> Nobody]
    /\ leaving = {}

-----------------------------------------------------------------------------

Alive(a) == life[a] \in {"running", "stopping"}
Dead(a)  == life[a] \in {"ended", "panicked"}

Becomes(x, st) == stage' = [stage EXCEPT ![x] = st]

\* A handle's `send`: an actor that is dead no longer receives.
Send(a, kind, x) ==
    queue' = IF Alive(a) THEN [queue EXCEPT ![a] = Append(@, [kind |-> kind, from |-> x])]
                         ELSE queue

-----------------------------------------------------------------------------
(* The HTTP API's side of collections *)

CreateCollection(c, p) ==
    /\ row[c] = Nobody
    /\ row' = [row EXCEPT ![c] = p]
    /\ UNCHANGED <<actorVars, hub, callerVars>>

\* Only the row: an actor that runs keeps the permissions it started with.
UpdateCollectionPermissions(c, p) ==
    /\ row[c] # Nobody
    /\ row' = [row EXCEPT ![c] = p]
    /\ UNCHANGED <<actorVars, hub, callerVars>>

\* An authorized connection, or a document request: put before the hub.
Ask(x) ==
    /\ stage[x] = "new"
    /\ Becomes(x, "asking")
    /\ UNCHANGED <<row, actorVars, hub, attached, leaving>>

-----------------------------------------------------------------------------
(* The hub handles one message at a time, and reports of exits in between. *)

\* The collection's row is read first.  Without one, or if the database fails, the caller
\* is refused.
HubRead(x) ==
    /\ hub = HubIdle /\ stage[x] = "asking"
    /\ \/ /\ row[ColOf(x)] # Nobody
          /\ hub' = [step |-> "found", for |-> x, perms |-> row[ColOf(x)]]
          /\ Becomes(x, "found")
       \/ /\ Becomes(x, IF x \in Session THEN "gone" ELSE "failed")
          /\ UNCHANGED hub
    /\ UNCHANGED <<row, actorVars, attached, leaving>>

Fresh == {a \in Actor : life[a] = "unborn"}

\* Spawning, with the permissions of the row as it was read.
Spawn(a, c, p) ==
    /\ Fresh # {} /\ a = CHOOSE b \in Fresh : TRUE
    /\ life' = [life EXCEPT ![a] = "running"]
    /\ home' = [home EXCEPT ![a] = c]
    /\ perms' = [perms EXCEPT ![a] = p]
    /\ registry' = [registry EXCEPT ![c] = a]

\* Mutant of HubAttach: an actor that is told to stop is not handed out.
HubAttachRunning ==
    /\ hub.step = "found"
    /\ LET x == hub.for
           c == ColOf(x) IN
       \E a \in Actor :
          /\ \/ /\ registry[c] = a /\ life[a] = "running"
                /\ UNCHANGED <<life, home, perms, registry>>
             \/ /\ ~(registry[c] # Nobody /\ life[registry[c]] = "running")
                /\ Spawn(a, c, hub.perms)
          /\ attached' = [attached EXCEPT ![x] = a]
          /\ Becomes(x, "joined")
          /\ hub' = IF x \in Session THEN [step |-> "subscribe", for |-> x] ELSE HubIdle
    /\ UNCHANGED <<row, queue, busy, subs, exits, leaving>>

\* The registered handle is handed out without asking whether its actor lives.
\* A session's own actor is started with it.
HubAttach ==
    /\ hub.step = "found"
    /\ LET x == hub.for
           c == ColOf(x) IN
       \E a \in Actor :
          /\ \/ registry[c] = a /\ UNCHANGED <<life, home, perms, registry>>
             \/ registry[c] = Nobody /\ Spawn(a, c, hub.perms)
          /\ attached' = [attached EXCEPT ![x] = a]
          /\ Becomes(x, "joined")
          /\ hub' = IF x \in Session THEN [step |-> "subscribe", for |-> x] ELSE HubIdle
    /\ UNCHANGED <<row, queue, busy, subs, exits, leaving>>

\* By now the session's actor is running: whatever it does may come first.
HubSubscribe ==
    /\ hub.step = "subscribe"
    /\ Send(attached[hub.for], "subscribe", hub.for)
    /\ hub' = HubIdle
    /\ UNCHANGED <<row, registry, life, home, perms, busy, subs, exits, callerVars>>

HubExit ==
    /\ hub = HubIdle /\ exits # <<>>
    /\ registry' = [registry EXCEPT ![Head(exits)] = Nobody]
    /\ exits' = Tail(exits)
    /\ UNCHANGED <<row, life, home, perms, queue, busy, subs, hub, callerVars>>

-----------------------------------------------------------------------------
(* Sessions *)

\* A session's first act.  If the actor is dead the session stops itself, after
\* or before it has said sync_error.
SessionSync(s) ==
    /\ stage[s] = "joined"
    /\ LET a == attached[s] IN
       /\ Send(a, "sync", s)
       /\ Becomes(s, IF Alive(a) THEN "syncing" ELSE "refused")
       /\ leaving' = IF Alive(a) THEN leaving ELSE leaving \cup {s}
    /\ UNCHANGED <<row, registry, life, home, perms, busy, subs, exits, hub, attached>>

\* A get or a change of the peer's.
SessionSend(s) ==
    /\ stage[s] = "ready"
    /\ LET a == attached[s] IN
       /\ Send(a, "change", s)
       /\ Becomes(s, IF Alive(a) THEN "waiting" ELSE "ready")
       /\ leaving' = IF Alive(a) THEN leaving ELSE leaving \cup {s}
    /\ UNCHANGED <<row, registry, life, home, perms, busy, subs, exits, hub, attached>>

\* The peer closes the connection, is silent for 60 s, or has gone; after a
\* sync_error it always does.
Leave(s) ==
    /\ stage[s] \in {"joined", "syncing", "ready", "waiting", "forbidden", "refused"}
    /\ s \notin leaving
    /\ leaving' = leaving \cup {s}
    /\ UNCHANGED <<row, actorVars, hub, stage, attached>>

\* Mutant of SessionExit: the end of a session goes unnoticed.
SessionExitSilently(s) ==
    /\ s \in leaving /\ stage[s] \in {"ready", "forbidden", "refused"}
    /\ Becomes(s, "gone")
    /\ UNCHANGED <<row, actorVars, hub, attached, leaving>>

\* The session notices when it next waits for its peer; its exit callback
\* unsubscribes.
SessionExit(s) ==
    /\ s \in leaving /\ stage[s] \in {"ready", "forbidden", "refused"}
    /\ Becomes(s, "gone")
    /\ Send(attached[s], "unsubscribe", s)
    /\ UNCHANGED <<row, registry, life, home, perms, busy, subs, exits, hub,
                   attached, leaving>>

RequestSend(q) ==
    /\ stage[q] = "joined" /\ q \in Request
    /\ Send(attached[q], "change", q)
    /\ Becomes(q, IF Alive(attached[q]) THEN "waiting" ELSE "failed")
    /\ UNCHANGED <<row, registry, life, home, perms, busy, subs, exits, hub,
                   attached, leaving>>

-----------------------------------------------------------------------------
(* Collection actors *)

First(a, kind) == queue[a] # <<>> /\ Head(queue[a]).kind = kind

\* The next message, once the last one is dealt with.  An actor that is told to
\* stop goes on until it next has to wait.
NextMessage(a, kind) ==
    /\ Alive(a) /\ busy[a] = Nobody /\ First(a, kind)
    /\ queue' = [queue EXCEPT ![a] = Tail(@)]
    /\ UNCHANGED <<row, registry, home, perms, exits, hub, callerVars>>

HandleSubscribe(a) ==
    /\ NextMessage(a, "subscribe")
    /\ subs' = [subs EXCEPT ![a] = @ \cup {Head(queue[a]).from}]
    /\ UNCHANGED <<life, busy>>

\* With nobody left the actor is told to stop, also when the one to be removed
\* was never there.
HandleUnsubscribe(a) ==
    /\ NextMessage(a, "unsubscribe")
    /\ LET left == subs[a] \ {Head(queue[a]).from} IN
       /\ subs' = [subs EXCEPT ![a] = left]
       /\ life' = IF left = {} THEN [life EXCEPT ![a] = "stopping"] ELSE life
    /\ UNCHANGED busy

\* A message that is answered: the sender waits.
Accept(a) ==
    /\ NextMessage(a, "sync") \/ NextMessage(a, "change")
    /\ busy' = [busy EXCEPT ![a] = Head(queue[a]).from]
    /\ UNCHANGED <<life, subs>>

\* The answers a caller may get: to a sync its permission, or an error.
Answers(x) ==
    IF stage[x] = "syncing" THEN {"ready", "forbidden", "refused"}
    ELSE IF x \in Session THEN {"ready"} ELSE {"answered"}

Answer(a, st) ==
    /\ Alive(a) /\ busy[a] # Nobody
    /\ st \in Answers(busy[a])
    /\ Becomes(busy[a], st)
    /\ busy' = [busy EXCEPT ![a] = Nobody]
    /\ UNCHANGED <<row, registry, life, home, perms, queue, subs, exits, hub,
                   attached, leaving>>

\* Those an actor keeps waiting when it ends: what it is handling and what is
\* queued goes with it, and they are told of an internal error.
Waiting(a) ==
    {x \in Caller : attached[x] = a /\ stage[x] \in {"syncing", "waiting"}}

\* Mutant of Drop: nobody is told.
DropSilently(a) ==
    /\ queue' = [queue EXCEPT ![a] = <<>>]
    /\ busy' = [busy EXCEPT ![a] = Nobody]
    /\ subs' = [subs EXCEPT ![a] = {}]
    /\ UNCHANGED stage

Drop(a) ==
    /\ queue' = [queue EXCEPT ![a] = <<>>]
    /\ busy' = [busy EXCEPT ![a] = Nobody]
    /\ subs' = [subs EXCEPT ![a] = {}]
    /\ stage' = [x \in Caller |->
                    IF x \notin Waiting(a) THEN stage[x]
                    ELSE IF stage[x] = "syncing" THEN "refused"
                    ELSE IF x \in Session THEN "ready" ELSE "failed"]

\* Mutant of Stop: the hub is not told.
StopUnreported(a) ==
    /\ life[a] = "stopping"
    /\ life' = [life EXCEPT ![a] = "ended"]
    /\ Drop(a)
    /\ UNCHANGED <<row, registry, home, perms, exits, hub, attached, leaving>>

Stop(a) ==
    /\ life[a] = "stopping"
    /\ life' = [life EXCEPT ![a] = "ended"]
    /\ exits' = Append(exits, home[a])
    /\ Drop(a)
    /\ UNCHANGED <<row, registry, home, perms, hub, attached, leaving>>

\* An update takes over 500 ms to import.  The exit callback does not run.
Panic(a) ==
    /\ Alive(a) /\ busy[a] # Nobody /\ stage[busy[a]] = "waiting"
    /\ life' = [life EXCEPT ![a] = "panicked"]
    /\ Drop(a)
    /\ UNCHANGED <<row, registry, home, perms, exits, hub, attached, leaving>>

-----------------------------------------------------------------------------

HubStep == (\E x \in Caller : HubRead(x)) \/ HubAttach \/ HubSubscribe \/ HubExit

SessionStep(s) == SessionSync(s) \/ SessionExit(s)

Handle(a) == HandleSubscribe(a) \/ HandleUnsubscribe(a) \/ Accept(a)

LifecycleNext ==
    \/ HubStep
    \/ \E x \in Caller : Ask(x)
    \/ \E s \in Session : SessionStep(s) \/ SessionSend(s) \/ Leave(s)
    \/ \E q \in Request : RequestSend(q)
    \/ \E a \in Actor : \/ Handle(a) \/ Stop(a) \/ Panic(a)
                         \/ \E st \in Stage : Answer(a, st)
    \/ \E c \in Col, p \in Perm :
          CreateCollection(c, p) \/ UpdateCollectionPermissions(c, p)

LifecycleSpec == LifecycleInit /\ [][LifecycleNext]_lifecycleVars

-----------------------------------------------------------------------------
(* Properties *)

\* A collection has at most one actor that lives, and it is the one the hub knows.
\* Two of them would give out the same revisions, each from its own count.
OneActor ==
    \A a \in Actor : Alive(a) => registry[home[a]] = a

\* The registry keeps an actor that has ended only until the hub reads the report,
\* of which there is one; but one that panicked it keeps for good.
RegistryHonest ==
    \A c \in Col :
        LET Reports == {i \in DOMAIN exits : exits[i] = c} IN
        /\ Cardinality(Reports) <= 1
        /\ Reports # {} <=> registry[c] # Nobody /\ life[registry[c]] = "ended"

\* Sent, and not handled yet.
Sent(kind, s) ==
    \E i \in DOMAIN queue[attached[s]] :
        queue[attached[s]][i] = [kind |-> kind, from |-> s]

Subscribing(s) ==
    hub = [step |-> "subscribe", for |-> s] \/ (attached[s] # Nobody /\ Sent("subscribe", s))

\* A session whose peer is told that it is synced hears of every change: it is
\* subscribed, or about to be, with an actor that is not about to stop.
Attended ==
    \A s \in Session :
        stage[s] \in {"ready", "waiting"} /\ s \notin leaving =>
            life[attached[s]] = "running" /\ (s \in subs[attached[s]] \/ Subscribing(s))

\* Only sessions that are there, or whose Unsubscribe is on its way, are subscribed.
NoGhosts ==
    \A a \in Actor : \A s \in subs[a] : stage[s] # "gone" \/ Sent("unsubscribe", s)

\* Whoever asks for a collection, or waits for an answer of its actor, gets one or
\* is turned away in the end, whatever stops, panics or is dropped meanwhile.
AllAnswered ==
    <>[](\A x \in Caller : stage[x] \notin {"asking", "found", "joined", "syncing", "waiting"})
=============================================================================
