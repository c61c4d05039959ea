---------------------------- MODULE ServerProofs ----------------------------
(***************************************************************************)
(* Any number of collections, sessions and requests: a collection has one  *)
(* actor, the registry knows of it, and whoever waits for an answer is in  *)
(* the hands of an actor that lives.  The cache of groups is fresh for any *)
(* number of users, groups, readers and writers, whichever entries are     *)
(* evicted; and the server's actors at work on it keep what either         *)
(* promises alone, and reach the right verdict on who may sync.  While     *)
(* nobody comes as another goes, every synced session is attended.         *)
(***************************************************************************)
EXTENDS MCServer, FiniteSetTheorems, TLAPS

-----------------------------------------------------------------------------
(* The inductive invariant, part by part *)

\* The registry has actors that were started for their collection.
Registered ==
    \A c \in Col : registry[c] # Nobody =>
        home[registry[c]] = c /\ life[registry[c]] # "unborn"

Reported(c) == \E i \in DOMAIN exits : exits[i] = c

\* Reports are of registered actors that ended, each once.
ReportsMatch ==
    /\ \A i, j \in DOMAIN exits : exits[i] = exits[j] => i = j
    /\ \A c \in Col : Reported(c) <=> registry[c] # Nobody /\ life[registry[c]] = "ended"

\* An actor belongs to a collection that is there.
Housed ==
    \A a \in Actor : life[a] # "unborn" => home[a] \in Col /\ row[home[a]] # Nobody

\* An actor that does not run has nothing and nobody.
DeadIsEmpty ==
    \A a \in Actor : ~Alive(a) => queue[a] = <<>> /\ busy[a] = Nobody /\ subs[a] = {}

\* Whom the hub has in its hands.
HubHonest ==
    /\ hub.step = "found" => row[ColOf(hub.for)] # Nobody /\ stage[hub.for] = "found"
    /\ hub.step = "subscribe" => attached[hub.for] # Nobody

\* A caller gets an actor of its collection, and has one in every later stage.
Attaching ==
    \A x \in Caller :
        /\ attached[x] # Nobody => home[attached[x]] = ColOf(x) /\ life[attached[x]] # "unborn"
        /\ attached[x] = Nobody => stage[x] \in {"new", "asking", "found", "gone", "failed"}

\* Only sessions sync, subscribe and unsubscribe.
Senders ==
    \A a \in Actor : \A i \in DOMAIN queue[a] :
        queue[a][i].kind # "change" => queue[a][i].from \in Session

\* The messages of x that an actor has yet to answer.
Asks(a, x) ==
    {i \in DOMAIN queue[a] : queue[a][i].from = x /\ queue[a][i].kind \in {"sync", "change"}}

\* Does actor a owe caller x an answer?
Owes(a, x) == busy[a] = x \/ Asks(a, x) # {}

Waits(x) == stage[x] \in {"syncing", "waiting"}

\* An actor owes an answer to those who wait for one of it, and one answer only.
OwedWait ==
    \A a \in Actor, x \in Caller :
        /\ Owes(a, x) => attached[x] = a /\ Waits(x)
        /\ busy[a] = x => Asks(a, x) = {}
        /\ \A i, j \in Asks(a, x) : i = j

\* Whoever waits, waits for an actor that lives and that owes it an answer: a
\* message that is dropped never leaves its sender waiting.
WaitingHeld ==
    \A x \in Caller : Waits(x) => Alive(attached[x]) /\ Owes(attached[x], x)

LifecycleInv ==
    /\ LifecycleTypeOK
    /\ Registered /\ ReportsMatch /\ OneActor
    /\ Housed /\ DeadIsEmpty
    /\ HubHonest /\ Attaching
    /\ Senders /\ OwedWait /\ WaitingHeld

-----------------------------------------------------------------------------
(* Types *)

\* Taking the head of a sequence moves the others up.
LEMMA TailOf ==
    ASSUME NEW S, NEW q \in Seq(S), q # <<>>
    PROVE  /\ Head(q) \in S /\ Head(q) = q[1] /\ 1 \in DOMAIN q
           /\ Tail(q) \in Seq(S)
           /\ \A i \in DOMAIN Tail(q) :
                 i \in Nat \ {0} /\ i + 1 \in DOMAIN q /\ Tail(q)[i] = q[i + 1]
           /\ \A i \in DOMAIN q \ {1} :
                 i \in Nat /\ i - 1 \in DOMAIN Tail(q) /\ Tail(q)[i - 1] = q[i]
OBVIOUS

\* Appending leaves the others where they are.
LEMMA AppendTo ==
    ASSUME NEW S, NEW q \in Seq(S), NEW e \in S
    PROVE  /\ Append(q, e) \in Seq(S)
           /\ \A i \in DOMAIN q : i \in DOMAIN Append(q, e) /\ Append(q, e)[i] = q[i]
           /\ Len(q) + 1 \in DOMAIN Append(q, e) /\ Append(q, e)[Len(q) + 1] = e
           /\ \A i \in DOMAIN Append(q, e) : i \in DOMAIN q \/ i = Len(q) + 1
           /\ Len(q) + 1 \notin DOMAIN q
OBVIOUS

LEMMA NobodyElse ==
    /\ \A a \in Actor : a # Nobody
    /\ \A x \in Caller : x # Nobody
    /\ \A x \in Caller : ColOf(x) \in Col
BY LifecycleAssumption, ColOfAssumption DEF Caller

\* The hub is idle, has found a collection, or is about to subscribe a session.
LEMMA HubTypes ==
    ASSUME LifecycleTypeOK
    PROVE  /\ hub.step = "found" => hub.for \in Caller /\ hub.perms \in Perm
           /\ hub.step = "subscribe" => hub.for \in Session
           /\ HubIdle.step = "idle"
BY DEF LifecycleTypeOK, HubIdle

\* What a `send` does to each queue.
LEMMA SendTypes ==
    ASSUME LifecycleTypeOK, NEW b \in Actor, NEW x \in Caller,
           NEW kind \in {"sync", "change", "subscribe", "unsubscribe"}, Send(b, kind, x)
    PROVE  /\ queue' \in [Actor -> Seq(Message)]
           /\ \A a \in Actor \ {b} : queue'[a] = queue[a]
           /\ Alive(b) => queue'[b] = Append(queue[b], [kind |-> kind, from |-> x])
           /\ ~Alive(b) => queue' = queue
<1>1. [kind |-> kind, from |-> x] \in Message
  BY DEF Message
<1> QED
  BY <1>1 DEF Send, LifecycleTypeOK

\* The next message of an actor.
LEMMA FirstTypes ==
    ASSUME LifecycleTypeOK, Senders, NEW a \in Actor, NEW kind, NextMessage(a, kind)
    PROVE  /\ queue' \in [Actor -> Seq(Message)]
           /\ queue[a] # <<>> /\ queue'[a] = Tail(queue[a])
           /\ \A b \in Actor \ {a} : queue'[b] = queue[b]
           /\ Head(queue[a]) \in Message
           /\ Head(queue[a]).kind = kind /\ Head(queue[a]).from \in Caller
           /\ kind # "change" => Head(queue[a]).from \in Session
<1>1. queue[a] \in Seq(Message) /\ queue[a] # <<>> /\ Head(queue[a]).kind = kind
  BY DEF NextMessage, First, LifecycleTypeOK
<1>2. Head(queue[a]) = queue[a][1] /\ 1 \in DOMAIN queue[a] /\ Head(queue[a]) \in Message
  BY <1>1
<1>3. kind # "change" => Head(queue[a]).from \in Session
  BY <1>1, <1>2 DEF Senders
<1>4. Head(queue[a]).from \in Caller
  BY <1>2 DEF Message
<1>5. queue' = [queue EXCEPT ![a] = Tail(queue[a])] /\ Tail(queue[a]) \in Seq(Message)
  BY <1>1 DEF NextMessage
<1> QED
  BY <1>1, <1>2, <1>3, <1>4, <1>5 DEF LifecycleTypeOK

LEMMA DropTypes ==
    ASSUME LifecycleTypeOK, NEW a \in Actor, Drop(a)
    PROVE  /\ queue' \in [Actor -> Seq(Message)]
           /\ busy' \in [Actor -> Caller \cup {Nobody}]
           /\ subs' \in [Actor -> SUBSET Session]
           /\ stage' \in [Caller -> Stage]
BY DEF Drop, LifecycleTypeOK, Stage

LEMMA LifecycleTypeInit == LifecycleInit => LifecycleTypeOK
BY DEF LifecycleInit, LifecycleTypeOK, HubIdle, Stage

LEMMA TypeHub ==
    ASSUME LifecycleInv, HubStep
    PROVE  LifecycleTypeOK'
<1> USE DEF LifecycleInv
<1>1. ASSUME NEW x \in Caller, HubRead(x)
      PROVE  LifecycleTypeOK'
  <2>1. stage' \in [Caller -> Stage]
    BY <1>1 DEF HubRead, Becomes, LifecycleTypeOK, Stage
  <2>2. row[ColOf(x)] # Nobody => row[ColOf(x)] \in Perm
    BY NobodyElse DEF LifecycleTypeOK
  <2> QED
    <3>1. hub' \in {HubIdle} \cup [step: {"found"}, for: Caller, perms: Perm]
      BY <1>1, <2>2 DEF HubRead
    <3> QED
      BY <1>1, <2>1, <3>1 DEF HubRead, LifecycleTypeOK, actorVars
<1>2. CASE HubAttach
  <2>1. hub.for \in Caller /\ hub.perms \in Perm /\ ColOf(hub.for) \in Col
    BY <1>2, HubTypes, NobodyElse DEF HubAttach
  <2>2. PICK a \in Actor :
          /\ \/ registry[ColOf(hub.for)] = a /\ UNCHANGED <<life, home, perms, registry>>
             \/ registry[ColOf(hub.for)] = Nobody /\ Spawn(a, ColOf(hub.for), hub.perms)
          /\ attached' = [attached EXCEPT ![hub.for] = a]
          /\ Becomes(hub.for, "joined")
          /\ hub' = IF hub.for \in Session THEN [step |-> "subscribe", for |-> hub.for]
                                           ELSE HubIdle
    BY <1>2 DEF HubAttach
  <2>3. /\ life' \in [Actor -> {"unborn", "running", "stopping", "ended", "panicked"}]
        /\ home' \in [Actor -> Col \cup {Nobody}]
        /\ perms' \in [Actor -> {Nobody} \cup Perm]
        /\ registry' \in [Col -> Actor \cup {Nobody}]
    <3>1. CASE UNCHANGED <<life, home, perms, registry>>
      BY <3>1 DEF LifecycleTypeOK
    <3>2. CASE Spawn(a, ColOf(hub.for), hub.perms)
      BY <2>1, <3>2 DEF Spawn, LifecycleTypeOK
    <3> QED
      BY <2>2, <3>1, <3>2
  <2>4. /\ attached' \in [Caller -> Actor \cup {Nobody}]
        /\ stage' \in [Caller -> Stage]
    BY <2>1, <2>2 DEF Becomes, LifecycleTypeOK, Stage
  <2>5. hub' \in {HubIdle} \cup [step: {"subscribe"}, for: Session]
    BY <2>1, <2>2
  <2> QED
    BY <1>2, <2>3, <2>4, <2>5 DEF HubAttach, LifecycleTypeOK
<1>3. CASE HubSubscribe
  <2>1. hub.for \in Session /\ hub.for \in Caller /\ attached[hub.for] \in Actor
    BY <1>3, HubTypes DEF HubSubscribe, HubHonest, LifecycleTypeOK, Caller
  <2>2. queue' \in [Actor -> Seq(Message)]
    BY <1>3, <2>1, SendTypes DEF HubSubscribe
  <2> QED
    BY <1>3, <2>2 DEF HubSubscribe, LifecycleTypeOK, callerVars
<1>4. CASE HubExit
  BY <1>4 DEF HubExit, LifecycleTypeOK, callerVars
<1> QED
  BY <1>1, <1>2, <1>3, <1>4 DEF HubStep

LEMMA TypeCaller ==
    ASSUME LifecycleInv, NEW x \in Caller,
           \/ Ask(x)
           \/ x \in Session /\ (SessionStep(x) \/ SessionSend(x) \/ Leave(x))
           \/ x \in Request /\ RequestSend(x)
    PROVE  LifecycleTypeOK'
<1> USE DEF LifecycleInv, Stage
<1>1. CASE Ask(x)
  BY <1>1 DEF Ask, Becomes, LifecycleTypeOK, actorVars
<1>2. CASE x \in Session /\ Leave(x)
  BY <1>2 DEF Leave, LifecycleTypeOK, actorVars
<1>3. stage[x] \in {"joined", "ready", "forbidden", "refused"} => attached[x] \in Actor
  BY DEF Attaching, LifecycleTypeOK
<1>4. CASE x \in Session /\ SessionSync(x)
  <2>1. queue' \in [Actor -> Seq(Message)]
    BY <1>3, <1>4, SendTypes DEF SessionSync
  <2> QED
    BY <1>4, <2>1 DEF SessionSync, Becomes, LifecycleTypeOK
<1>5. CASE x \in Session /\ SessionSend(x)
  <2>1. queue' \in [Actor -> Seq(Message)]
    BY <1>3, <1>5, SendTypes DEF SessionSend
  <2> QED
    BY <1>5, <2>1 DEF SessionSend, Becomes, LifecycleTypeOK
<1>6. CASE x \in Session /\ SessionExit(x)
  <2>1. queue' \in [Actor -> Seq(Message)]
    BY <1>3, <1>6, SendTypes DEF SessionExit
  <2> QED
    BY <1>6, <2>1 DEF SessionExit, Becomes, LifecycleTypeOK
<1>7. CASE x \in Request /\ RequestSend(x)
  <2>1. queue' \in [Actor -> Seq(Message)]
    BY <1>3, <1>7, SendTypes DEF RequestSend
  <2> QED
    BY <1>7, <2>1 DEF RequestSend, Becomes, LifecycleTypeOK
<1> QED
  BY <1>1, <1>2, <1>4, <1>5, <1>6, <1>7 DEF SessionStep

LEMMA TypeActor ==
    ASSUME LifecycleInv, NEW a \in Actor,
           Handle(a) \/ Stop(a) \/ Panic(a) \/ \E st \in Stage : Answer(a, st)
    PROVE  LifecycleTypeOK'
<1> USE DEF LifecycleInv
<1>1. CASE HandleSubscribe(a)
  <2>1. queue' \in [Actor -> Seq(Message)] /\ Head(queue[a]).from \in Session
    BY <1>1, FirstTypes DEF HandleSubscribe
  <2> QED
    BY <1>1, <2>1 DEF HandleSubscribe, NextMessage, LifecycleTypeOK, callerVars
<1>2. CASE HandleUnsubscribe(a)
  <2>1. queue' \in [Actor -> Seq(Message)]
    BY <1>2, FirstTypes DEF HandleUnsubscribe
  <2> QED
    BY <1>2, <2>1 DEF HandleUnsubscribe, NextMessage, LifecycleTypeOK, callerVars
<1>3. CASE Accept(a)
  <2>1. queue' \in [Actor -> Seq(Message)] /\ Head(queue[a]).from \in Caller
    BY <1>3, FirstTypes DEF Accept
  <2> QED
    BY <1>3, <2>1 DEF Accept, NextMessage, LifecycleTypeOK, callerVars
<1>4. CASE Stop(a)
  <2>1. home[a] \in Col
    BY <1>4 DEF Stop, Housed
  <2> QED
    BY <1>4, <2>1, DropTypes DEF Stop, LifecycleTypeOK
<1>5. CASE Panic(a)
  BY <1>5, DropTypes DEF Panic, LifecycleTypeOK
<1>6. ASSUME NEW st \in Stage, Answer(a, st)
      PROVE  LifecycleTypeOK'
  BY <1>6 DEF Answer, Becomes, LifecycleTypeOK
<1> QED
  BY <1>1, <1>2, <1>3, <1>4, <1>5, <1>6 DEF Handle

LEMMA TypeApi ==
    ASSUME LifecycleInv, NEW c \in Col, NEW p \in Perm,
           CreateCollection(c, p) \/ UpdateCollectionPermissions(c, p)
    PROVE  LifecycleTypeOK'
<1>1. LifecycleTypeOK
  BY DEF LifecycleInv
<1>2. row' = [row EXCEPT ![c] = p] /\ UNCHANGED <<actorVars, hub, callerVars>>
  BY DEF CreateCollection, UpdateCollectionPermissions
<1>3. row' \in [Col -> {Nobody} \cup Perm]
  BY <1>1, <1>2 DEF LifecycleTypeOK
<1> QED
  BY <1>1, <1>2, <1>3 DEF LifecycleTypeOK, actorVars, callerVars

LEMMA LifecycleTypeStep ==
    ASSUME LifecycleInv, [LifecycleNext]_lifecycleVars
    PROVE  LifecycleTypeOK'
<1>1. CASE UNCHANGED lifecycleVars
  BY <1>1 DEF LifecycleInv, LifecycleTypeOK, lifecycleVars, actorVars, callerVars
<1> QED
  BY <1>1, TypeHub, TypeCaller, TypeActor, TypeApi DEF LifecycleNext, Caller

-----------------------------------------------------------------------------
(* The registry *)

RegistryInv ==
    /\ Registered /\ ReportsMatch /\ OneActor
    /\ Housed /\ HubHonest /\ Attaching

LEMMA RegistryInit == LifecycleInit => RegistryInv
BY DEF LifecycleInit, RegistryInv, Registered, ReportsMatch, Reported, OneActor, Alive,
       Housed, HubHonest, HubIdle, Attaching

\* The registry does not depend on how far callers are, save for the one the hub
\* has in its hands.
LEMMA RegistryStage ==
    ASSUME LifecycleInv, UNCHANGED <<row, registry, life, home, exits, hub, attached>>,
           \A x \in Caller :
              \/ stage'[x] = stage[x]
              \/ /\ stage[x] # "found"
                 /\ attached[x] = Nobody => stage'[x] \in {"asking", "gone", "failed"}
    PROVE  RegistryInv'
<1> USE DEF LifecycleInv
<1>1. Registered' /\ ReportsMatch' /\ OneActor' /\ Housed'
  BY DEF Registered, ReportsMatch, Reported, OneActor, Alive, Housed
<1>2. HubHonest'
  BY HubTypes DEF HubHonest
<1>3. Attaching'
  BY DEF Attaching
<1> QED
  BY <1>1, <1>2, <1>3 DEF RegistryInv

LEMMA RegistryApi ==
    ASSUME LifecycleInv, NEW c \in Col, NEW p \in Perm,
           CreateCollection(c, p) \/ UpdateCollectionPermissions(c, p)
    PROVE  RegistryInv'
<1> USE DEF LifecycleInv, CreateCollection, UpdateCollectionPermissions, actorVars, callerVars
<1>1. Registered' /\ ReportsMatch' /\ OneActor' /\ Attaching'
  BY DEF Registered, ReportsMatch, Reported, OneActor, Alive, Attaching
<1>2. \A d \in Col : row[d] # Nobody => row'[d] # Nobody
  BY LifecycleAssumption DEF LifecycleTypeOK
<1>3. Housed'
  BY <1>2 DEF Housed
<1>4. HubHonest'
  BY <1>2, HubTypes, NobodyElse DEF HubHonest
<1> QED
  BY <1>1, <1>3, <1>4 DEF RegistryInv

LEMMA RegistryRead ==
    ASSUME LifecycleInv, NEW x \in Caller, HubRead(x)
    PROVE  RegistryInv'
<1> USE DEF LifecycleInv, HubRead, actorVars
<1>1. Registered' /\ ReportsMatch' /\ OneActor' /\ Housed'
  BY DEF Registered, ReportsMatch, Reported, OneActor, Alive, Housed
<1>2. \/ hub' = [step |-> "found", for |-> x, perms |-> row[ColOf(x)]]
         /\ row[ColOf(x)] # Nobody /\ stage'[x] = "found"
      \/ hub' = HubIdle
  BY DEF Becomes, LifecycleTypeOK
<1>3. HubHonest'
  BY <1>2 DEF HubHonest, HubIdle
<1>4. Attaching'
  BY DEF Attaching, Becomes, LifecycleTypeOK
<1> QED
  BY <1>1, <1>3, <1>4 DEF RegistryInv

\* A collection gets an actor only when the registry has none.
LEMMA RegistryAttach ==
    ASSUME LifecycleInv, HubAttach
    PROVE  RegistryInv'
<1> USE DEF LifecycleInv
<1> DEFINE x == hub.for
           c == ColOf(hub.for)
<1>1. x \in Caller /\ c \in Col /\ row[c] # Nobody /\ stage[x] = "found"
  BY HubTypes, NobodyElse DEF HubAttach, HubHonest
<1>2. PICK a \in Actor :
        /\ \/ registry[c] = a /\ UNCHANGED <<life, home, perms, registry>>
           \/ registry[c] = Nobody /\ Spawn(a, c, hub.perms)
        /\ attached' = [attached EXCEPT ![x] = a]
        /\ stage' = [stage EXCEPT ![x] = "joined"]
        /\ hub' = IF x \in Session THEN [step |-> "subscribe", for |-> x] ELSE HubIdle
  BY DEF HubAttach, Becomes
<1>3. UNCHANGED <<row, exits>>
  BY DEF HubAttach
<1> HIDE DEF x, c
<1>4. HubHonest'
  BY <1>1, <1>2, NobodyElse DEF HubHonest, HubIdle, LifecycleTypeOK
<1>5. CASE registry[c] = a /\ UNCHANGED <<life, home, perms, registry>>
  <2>1. Registered' /\ ReportsMatch' /\ OneActor' /\ Housed'
    BY <1>3, <1>5 DEF Registered, ReportsMatch, Reported, OneActor, Alive, Housed
  <2>2. home[a] = c /\ life[a] # "unborn"
    BY <1>1, <1>5, NobodyElse DEF Registered
  <2>3. Attaching'
    <3>1. attached'[x] = a /\ stage'[x] = "joined" /\ c = ColOf(x)
      BY <1>1, <1>2 DEF LifecycleTypeOK, c, x
    <3>2. \A y \in Caller \ {x} : attached'[y] = attached[y] /\ stage'[y] = stage[y]
      BY <1>1, <1>2 DEF LifecycleTypeOK
    <3> QED
      BY <1>5, <2>2, <3>1, <3>2, NobodyElse DEF Attaching
  <2> QED
    BY <1>4, <2>1, <2>3 DEF RegistryInv
<1>6. CASE registry[c] = Nobody /\ Spawn(a, c, hub.perms)
  <2>1. life[a] = "unborn"
    BY <1>6 DEF Spawn, Fresh
  <2>2. /\ life' = [life EXCEPT ![a] = "running"]
        /\ home' = [home EXCEPT ![a] = c]
        /\ registry' = [registry EXCEPT ![c] = a]
    BY <1>6 DEF Spawn
  <2>3. \A d \in Col : registry[d] # a
    BY <2>1, NobodyElse DEF Registered
  <2>4. \A d \in Col \ {c} : registry[d] # Nobody =>
           life'[registry[d]] = life[registry[d]] /\ home'[registry[d]] = home[registry[d]]
    BY <2>2, <2>3 DEF LifecycleTypeOK
  <2>5. life'[a] = "running" /\ home'[a] = c /\ registry'[c] = a
    BY <1>1, <2>2 DEF LifecycleTypeOK
  <2>6. Registered'
    BY <2>2, <2>4, <2>5 DEF Registered, LifecycleTypeOK
  <2>7. ReportsMatch'
    BY <1>3, <1>6, <2>2, <2>4, <2>5 DEF ReportsMatch, Reported, LifecycleTypeOK
  <2>8. OneActor'
    <3> SUFFICES ASSUME NEW b \in Actor, Alive(b)'
                 PROVE  registry'[home'[b]] = b
      BY DEF OneActor
    <3>1. CASE b = a
      BY <2>5, <3>1
    <3>2. CASE b # a
      <4>1. Alive(b) /\ home'[b] = home[b] /\ home[b] \in Col
        BY <2>2, <3>2 DEF Alive, Housed, LifecycleTypeOK
      <4>2. registry[home[b]] = b /\ home[b] # c
        BY <1>6, <4>1, NobodyElse DEF OneActor
      <4> QED
        BY <2>2, <4>1, <4>2 DEF LifecycleTypeOK
    <3> QED
      BY <3>1, <3>2
  <2>9. Housed'
    BY <1>1, <1>3, <2>2 DEF Housed, LifecycleTypeOK
  <2>10. Attaching'
    <3> SUFFICES ASSUME NEW y \in Caller
                 PROVE  /\ attached'[y] # Nobody =>
                             home'[attached'[y]] = ColOf(y) /\ life'[attached'[y]] # "unborn"
                        /\ attached'[y] = Nobody =>
                             stage'[y] \in {"new", "asking", "found", "gone", "failed"}
      BY DEF Attaching
    <3>1. CASE y = x
      BY <1>1, <1>2, <2>5, <3>1, NobodyElse DEF LifecycleTypeOK, c, x
    <3>2. CASE y # x
      <4>1. attached'[y] = attached[y] /\ stage'[y] = stage[y]
        BY <1>1, <1>2, <3>2 DEF LifecycleTypeOK
      <4>2. attached[y] # Nobody => attached[y] \in Actor /\ attached[y] # a
        BY <2>1 DEF Attaching, LifecycleTypeOK
      <4> QED
        BY <2>2, <4>1, <4>2 DEF Attaching, LifecycleTypeOK
    <3> QED
      BY <3>1, <3>2
  <2> QED
    BY <1>4, <2>6, <2>7, <2>8, <2>9, <2>10 DEF RegistryInv
<1> QED
  BY <1>2, <1>5, <1>6

LEMMA RegistrySubscribe ==
    ASSUME LifecycleInv, HubSubscribe
    PROVE  RegistryInv'
<1> USE DEF LifecycleInv, HubSubscribe, callerVars
<1>1. Registered' /\ ReportsMatch' /\ OneActor' /\ Housed'
  BY DEF Registered, ReportsMatch, Reported, OneActor, Alive, Housed
<1>2. HubHonest' /\ Attaching'
  BY DEF HubHonest, HubIdle, Attaching
<1> QED
  BY <1>1, <1>2 DEF RegistryInv

\* The report that is read is the only one of its collection.
LEMMA RegistryExit ==
    ASSUME LifecycleInv, HubExit
    PROVE  RegistryInv'
<1> USE DEF LifecycleInv
<1> DEFINE c == Head(exits)
<1>1. exits \in Seq(Col) /\ exits # <<>> /\ exits' = Tail(exits)
  BY DEF HubExit, LifecycleTypeOK
<1>2. /\ c \in Col /\ 1 \in DOMAIN exits /\ exits[1] = c
      /\ \A i \in DOMAIN exits' : i + 1 \in DOMAIN exits /\ exits'[i] = exits[i + 1]
      /\ \A i \in DOMAIN exits \ {1} : i - 1 \in DOMAIN exits' /\ exits'[i - 1] = exits[i]
  BY <1>1, TailOf
<1>3. /\ registry' = [registry EXCEPT ![c] = Nobody]
      /\ UNCHANGED <<row, life, home, hub, stage, attached>>
  BY DEF HubExit, callerVars
<1>4. registry[c] # Nobody /\ life[registry[c]] = "ended"
  BY <1>2 DEF ReportsMatch, Reported
<1> HIDE DEF c
<1>5. \A i, j \in DOMAIN exits' : exits'[i] = exits'[j] => i = j
  <2> SUFFICES ASSUME NEW i \in DOMAIN exits', NEW j \in DOMAIN exits', exits'[i] = exits'[j]
               PROVE  i = j
    OBVIOUS
  <2>1. i + 1 = j + 1
    BY <1>2 DEF ReportsMatch
  <2>2. i \in Nat /\ j \in Nat
    BY <1>1
  <2> QED
    BY <2>1, <2>2
<1>6. ASSUME NEW d \in Col
      PROVE  Reported(d)' <=> d # c /\ Reported(d)
  <2>1. CASE d = c
    <3>1. ASSUME NEW i \in DOMAIN exits'
          PROVE  exits'[i] # c
      <4>1. i + 1 \in DOMAIN exits /\ i + 1 # 1
        BY <1>1, <1>2
      <4> QED
        BY <1>2, <4>1 DEF ReportsMatch
    <3> QED
      BY <2>1, <3>1 DEF Reported
  <2>2. CASE d # c
    BY <1>2, <2>2 DEF Reported
  <2> QED
    BY <2>1, <2>2
<1>7. ReportsMatch'
  BY <1>2, <1>3, <1>5, <1>6 DEF ReportsMatch, LifecycleTypeOK
<1>8. Registered'
  BY <1>2, <1>3 DEF Registered, LifecycleTypeOK
<1>9. OneActor'
  <2> SUFFICES ASSUME NEW a \in Actor, Alive(a)'
               PROVE  registry'[home'[a]] = a
    BY DEF OneActor
  <2>1. Alive(a) /\ registry[home[a]] = a /\ home[a] \in Col
    BY <1>3 DEF Alive, OneActor, Housed
  <2>2. home[a] # c
    BY <1>4, <2>1 DEF Alive
  <2> QED
    BY <1>2, <1>3, <2>1, <2>2 DEF LifecycleTypeOK
<1>10. Housed' /\ HubHonest' /\ Attaching'
  BY <1>3 DEF Housed, HubHonest, Attaching
<1> QED
  BY <1>7, <1>8, <1>9, <1>10 DEF RegistryInv

\* An actor that is told to stop, or panics, is no report to the hub ...
LEMMA RegistryLife ==
    ASSUME LifecycleInv, NEW a \in Actor, Alive(a), NEW l \in {"stopping", "panicked"},
           life' = [life EXCEPT ![a] = l],
           UNCHANGED <<row, registry, home, exits, hub, attached>>,
           \A x \in Caller : stage'[x] = stage[x]
                             \/ (attached[x] # Nobody /\ stage[x] # "found")
    PROVE  RegistryInv'
<1> USE DEF LifecycleInv
<1>1. \A b \in Actor : /\ life'[b] = "unborn" <=> life[b] = "unborn"
                       /\ life'[b] = "ended" <=> life[b] = "ended"
                       /\ Alive(b)' => Alive(b)
  BY DEF Alive, LifecycleTypeOK
<1>2. Registered' /\ Housed'
  BY <1>1 DEF Registered, Housed, LifecycleTypeOK
<1>3. ReportsMatch'
  BY <1>1 DEF ReportsMatch, Reported, LifecycleTypeOK
<1>4. OneActor'
  BY <1>1 DEF OneActor
<1>5. HubHonest'
  BY HubTypes DEF HubHonest
<1>6. Attaching'
  BY <1>1 DEF Attaching, LifecycleTypeOK
<1> QED
  BY <1>2, <1>3, <1>4, <1>5, <1>6 DEF RegistryInv

\* ... and its end is the first one of its collection.
LEMMA RegistryStop ==
    ASSUME LifecycleInv, NEW a \in Actor, Stop(a)
    PROVE  RegistryInv'
<1> USE DEF LifecycleInv
<1> DEFINE c == home[a]
<1>1. /\ Alive(a) /\ life[a] = "stopping" /\ c \in Col /\ registry[c] = a
      /\ \A d \in Col \ {c} : registry[d] # a
  BY NobodyElse DEF Stop, Alive, Housed, OneActor, Registered
<1>2. /\ life' = [life EXCEPT ![a] = "ended"]
      /\ exits' = Append(exits, c) /\ exits \in Seq(Col)
      /\ UNCHANGED <<row, registry, home, hub, attached>>
      /\ \A x \in Caller : stage'[x] = stage[x] \/ (attached[x] # Nobody /\ Waits(x))
  BY NobodyElse DEF Stop, Drop, Waiting, Waits, LifecycleTypeOK
<1>3. ~Reported(c)
  BY <1>1 DEF ReportsMatch
<1> HIDE DEF c
<1>4. /\ \A i \in DOMAIN exits : i \in DOMAIN exits' /\ exits'[i] = exits[i]
      /\ \A i \in DOMAIN exits' : i \in DOMAIN exits \/ (exits'[i] = c /\ i = Len(exits) + 1)
      /\ Len(exits) + 1 \in DOMAIN exits' /\ exits'[Len(exits) + 1] = c
  BY <1>1, <1>2, AppendTo
<1>5. \A i, j \in DOMAIN exits' : exits'[i] = exits'[j] => i = j
  BY <1>3, <1>4 DEF ReportsMatch, Reported
<1>6. \A d \in Col : Reported(d)' <=> d = c \/ Reported(d)
  BY <1>4 DEF Reported
<1>7. /\ \A b \in Actor \ {a} : life'[b] = life[b]
      /\ life'[a] = "ended"
  BY <1>2 DEF LifecycleTypeOK
<1>8. ReportsMatch'
  <2>1. ASSUME NEW d \in Col
        PROVE  registry'[d] # Nobody /\ life'[registry'[d]] = "ended"
                  <=> d = c \/ (registry[d] # Nobody /\ life[registry[d]] = "ended")
    <3>1. registry'[d] = registry[d] /\ registry[d] \in Actor \cup {Nobody}
      BY <1>2 DEF LifecycleTypeOK
    <3> QED
      BY <1>1, <1>7, <3>1, NobodyElse
  <2> QED
    BY <1>5, <1>6, <2>1 DEF ReportsMatch
<1>9. Registered'
  <2>1. \A d \in Col : registry[d] # Nobody => registry[d] \in Actor
    BY DEF LifecycleTypeOK
  <2> QED
    BY <1>2, <1>7, <2>1 DEF Registered
<1>10. Housed'
  BY <1>1, <1>2, <1>7 DEF Housed
<1>11. OneActor'
  BY <1>2, <1>7 DEF OneActor, Alive
<1>12. HubHonest'
  BY <1>2, HubTypes DEF HubHonest, Waits
<1>13. Attaching'
  BY <1>1, <1>2, <1>7 DEF Attaching, LifecycleTypeOK
<1> QED
  BY <1>8, <1>9, <1>10, <1>11, <1>12, <1>13 DEF RegistryInv

LEMMA RegistryStep ==
    ASSUME LifecycleInv, [LifecycleNext]_lifecycleVars
    PROVE  RegistryInv'
<1> USE DEF LifecycleInv
<1>1. ASSUME NEW x \in Caller,
             \/ Ask(x)
             \/ x \in Session /\ (SessionStep(x) \/ SessionSend(x) \/ Leave(x))
             \/ x \in Request /\ RequestSend(x)
      PROVE  RegistryInv'
  <2>1. UNCHANGED <<row, registry, life, home, exits, hub, attached>>
    BY <1>1 DEF Ask, SessionStep, SessionSync, SessionExit, SessionSend, Leave, RequestSend,
                actorVars
  <2>2. \A y \in Caller :
           \/ stage'[y] = stage[y]
           \/ /\ stage[y] # "found"
              /\ attached[y] = Nobody => stage'[y] \in {"asking", "gone", "failed"}
    <3>1. \A y \in Caller \ {x} : stage'[y] = stage[y]
      BY <1>1 DEF Ask, SessionStep, SessionSync, SessionExit, SessionSend, Leave, RequestSend,
                  Becomes, LifecycleTypeOK
    <3>2. \/ stage'[x] = stage[x]
          \/ stage[x] = "new" /\ stage'[x] = "asking"
          \/ stage[x] \in {"joined", "ready", "forbidden", "refused"}
      BY <1>1 DEF Ask, SessionStep, SessionSync, SessionExit, SessionSend, Leave, RequestSend,
                  Becomes, LifecycleTypeOK
    <3>3. stage[x] \in {"joined", "ready", "forbidden", "refused"} => attached[x] # Nobody
      BY DEF Attaching
    <3> QED
      BY <3>1, <3>2, <3>3
  <2> QED
    BY <2>1, <2>2, RegistryStage
<1>2. ASSUME NEW a \in Actor, HandleSubscribe(a) \/ Accept(a)
      PROVE  RegistryInv'
  BY <1>2, RegistryStage DEF HandleSubscribe, Accept, NextMessage, callerVars
<1>3. ASSUME NEW a \in Actor, HandleUnsubscribe(a)
      PROVE  RegistryInv'
  <2>1. Alive(a) /\ UNCHANGED <<row, registry, home, exits, hub, attached, stage>>
    BY <1>3 DEF HandleUnsubscribe, NextMessage, callerVars
  <2>2. life' = life \/ life' = [life EXCEPT ![a] = "stopping"]
    BY <1>3 DEF HandleUnsubscribe
  <2> QED
    BY <2>1, <2>2, RegistryStage, RegistryLife
<1>4. ASSUME NEW a \in Actor, Panic(a)
      PROVE  RegistryInv'
  <2>1. /\ Alive(a) /\ life' = [life EXCEPT ![a] = "panicked"]
        /\ UNCHANGED <<row, registry, home, exits, hub, attached>>
        /\ \A x \in Caller : stage'[x] = stage[x] \/ (attached[x] # Nobody /\ stage[x] # "found")
    BY <1>4, NobodyElse DEF Panic, Drop, Waiting
  <2> QED
    BY <2>1, RegistryLife
<1>5. ASSUME NEW a \in Actor, NEW st \in Stage, Answer(a, st)
      PROVE  RegistryInv'
  <2>1. busy[a] \in Caller /\ attached[busy[a]] = a /\ Waits(busy[a])
    BY <1>5 DEF Answer, OwedWait, Owes, LifecycleTypeOK
  <2>2. \A x \in Caller : stage'[x] = stage[x] \/ (attached[x] # Nobody /\ stage[x] # "found")
    BY <1>5, <2>1, NobodyElse DEF Answer, Becomes, LifecycleTypeOK, Waits
  <2> QED
    BY <1>5, <2>2, RegistryStage DEF Answer
<1>6. CASE UNCHANGED lifecycleVars
  BY <1>6, RegistryStage DEF lifecycleVars, actorVars, callerVars
<1> QED
  BY <1>1, <1>2, <1>3, <1>4, <1>5, <1>6, RegistryApi, RegistryRead, RegistryAttach,
     RegistrySubscribe, RegistryExit, RegistryStop
     DEF LifecycleNext, HubStep, Handle, Caller

-----------------------------------------------------------------------------
(* Messages and those who wait *)

QueueInv == Senders /\ DeadIsEmpty /\ OwedWait /\ WaitingHeld

LEMMA QueueInit == LifecycleInit => QueueInv
BY NobodyElse DEF LifecycleInit, QueueInv, Senders, DeadIsEmpty, OwedWait, WaitingHeld, Waits,
       Owes, Asks

\* A message is put behind the others.
LEMMA AsksSent ==
    ASSUME LifecycleInv, NEW b \in Actor, NEW x \in Caller,
           NEW kind \in {"sync", "change", "subscribe", "unsubscribe"},
           kind # "change" => x \in Session, Send(b, kind, x)
    PROVE  /\ Senders'
           /\ \A a \in Actor \ {b} : queue'[a] = queue[a]
           /\ \A a \in Actor, y \in Caller :
                 Asks(a, y)' = Asks(a, y) \cup
                    IF a = b /\ y = x /\ Alive(b) /\ kind \in {"sync", "change"}
                    THEN {Len(queue[b]) + 1} ELSE {}
<1> USE DEF LifecycleInv
<1> DEFINE m == [kind |-> kind, from |-> x]
<1>1. queue[b] \in Seq(Message) /\ m \in Message
  BY DEF LifecycleTypeOK, Message
<1>2. /\ \A a \in Actor \ {b} : queue'[a] = queue[a]
      /\ ~Alive(b) => queue' = queue
      /\ Alive(b) => queue'[b] = Append(queue[b], m)
  BY SendTypes
<1>3. CASE ~Alive(b)
  BY <1>2, <1>3 DEF Senders, Asks
<1>4. CASE Alive(b)
  <2>1. /\ \A i \in DOMAIN queue[b] : i \in DOMAIN queue'[b] /\ queue'[b][i] = queue[b][i]
        /\ Len(queue[b]) + 1 \in DOMAIN queue'[b] /\ queue'[b][Len(queue[b]) + 1] = m
        /\ \A i \in DOMAIN queue'[b] : i \in DOMAIN queue[b] \/ i = Len(queue[b]) + 1
    BY <1>1, <1>2, <1>4, AppendTo
  <2>2. m.kind = kind /\ m.from = x
    OBVIOUS
  <2> HIDE DEF m
  <2>3. Senders'
    BY <1>2, <2>1, <2>2 DEF Senders
  <2>4. \A y \in Caller : Asks(b, y)' = Asks(b, y) \cup
           IF y = x /\ kind \in {"sync", "change"} THEN {Len(queue[b]) + 1} ELSE {}
    BY <2>1, <2>2 DEF Asks
  <2>5. \A a \in Actor \ {b}, y \in Caller : Asks(a, y)' = Asks(a, y)
    BY <1>2 DEF Asks
  <2> QED
    BY <1>2, <1>4, <2>3, <2>4, <2>5
<1> QED
  BY <1>3, <1>4

\* The first message is taken, and the others move up.
LEMMA AsksTaken ==
    ASSUME LifecycleInv, NEW a \in Actor, NEW kind, NextMessage(a, kind)
    PROVE  /\ Senders'
           /\ \A b \in Actor \ {a}, y \in Caller : Asks(b, y)' = Asks(b, y)
           /\ \A y \in Caller : \A i \in Asks(a, y)' : i \in Nat \ {0} /\ i + 1 \in Asks(a, y)
           /\ \A y \in Caller : \A i \in Asks(a, y) \ {1} : i - 1 \in Asks(a, y)'
           /\ \A y \in Caller : 1 \in Asks(a, y) <=>
                 y = Head(queue[a]).from /\ kind \in {"sync", "change"}
<1> USE DEF LifecycleInv
<1>1. /\ queue[a] \in Seq(Message) /\ queue[a] # <<>>
      /\ queue'[a] = Tail(queue[a]) /\ Head(queue[a]).kind = kind
      /\ \A b \in Actor \ {a} : queue'[b] = queue[b]
  BY FirstTypes DEF LifecycleTypeOK
<1>2. /\ Head(queue[a]) = queue[a][1] /\ 1 \in DOMAIN queue[a]
      /\ \A i \in DOMAIN queue'[a] :
            i \in Nat \ {0} /\ i + 1 \in DOMAIN queue[a] /\ queue'[a][i] = queue[a][i + 1]
      /\ \A i \in DOMAIN queue[a] \ {1} :
            i \in Nat /\ i - 1 \in DOMAIN queue'[a] /\ queue'[a][i - 1] = queue[a][i]
  BY <1>1, TailOf
<1>3. Senders'
  <2> SUFFICES ASSUME NEW b \in Actor, NEW i \in DOMAIN queue'[b], queue'[b][i].kind # "change"
               PROVE  queue'[b][i].from \in Session
    BY DEF Senders
  <2>1. CASE b = a
    BY <1>2, <2>1 DEF Senders
  <2>2. CASE b # a
    BY <1>1, <2>2 DEF Senders
  <2> QED
    BY <2>1, <2>2
<1>4. \A b \in Actor \ {a}, y \in Caller : Asks(b, y)' = Asks(b, y)
  BY <1>1 DEF Asks
<1>5. \A y \in Caller : \A i \in Asks(a, y)' : i \in Nat \ {0} /\ i + 1 \in Asks(a, y)
  BY <1>2 DEF Asks
<1>6. \A y \in Caller : \A i \in Asks(a, y) \ {1} : i - 1 \in Asks(a, y)'
  BY <1>2 DEF Asks
<1>7. \A y \in Caller : 1 \in Asks(a, y) <=>
         y = Head(queue[a]).from /\ kind \in {"sync", "change"}
  BY <1>1, <1>2 DEF Asks
<1> QED
  BY <1>3, <1>4, <1>5, <1>6, <1>7

\* Nothing is sent or answered.
LEMMA QueueQuiet ==
    ASSUME LifecycleInv, UNCHANGED <<queue, busy, subs>>,
           \A a \in Actor : Alive(a) => Alive(a)',
           \A x \in Caller : /\ Waits(x)' <=> Waits(x)
                             /\ Waits(x) => attached'[x] = attached[x]
    PROVE  QueueInv'
<1> USE DEF LifecycleInv
<1>1. \A a \in Actor, x \in Caller : Asks(a, x)' = Asks(a, x) /\ (Owes(a, x)' <=> Owes(a, x))
  BY DEF Asks, Owes
<1>2. Senders' /\ DeadIsEmpty'
  BY DEF Senders, DeadIsEmpty
<1>3. OwedWait'
  BY <1>1 DEF OwedWait
<1>4. ASSUME NEW x \in Caller, Waits(x) PROVE attached[x] \in Actor
  <2>1. attached[x] # Nobody
    BY <1>4 DEF Attaching, Waits
  <2>2. attached[x] \in Actor \cup {Nobody}
    BY DEF LifecycleTypeOK
  <2> QED
    BY <2>1, <2>2
<1>5. WaitingHeld'
  <2> SUFFICES ASSUME NEW x \in Caller, Waits(x)' PROVE (Alive(attached[x]) /\ Owes(attached[x], x))'
    BY DEF WaitingHeld
  <2>1. Waits(x) /\ attached'[x] = attached[x]
    OBVIOUS
  <2>2. PICK a \in Actor : a = attached[x]
    BY <1>4, <2>1
  <2>3. Alive(a) /\ Owes(a, x)
    BY <2>1, <2>2 DEF WaitingHeld
  <2> QED
    BY <1>1, <2>1, <2>2, <2>3<1> QED
  BY <1>2, <1>3, <1>5 DEF QueueInv

\* A message that needs no answer.
LEMMA QueueTold ==
    ASSUME LifecycleInv, NEW b \in Actor, NEW x \in Session,
           NEW kind \in {"subscribe", "unsubscribe"}, Send(b, kind, x),
           UNCHANGED <<life, busy, subs, attached>>,
           \A y \in Caller : Waits(y)' <=> Waits(y)
    PROVE  QueueInv'
<1> USE DEF LifecycleInv
<1>1. x \in Caller
  BY DEF Caller
<1>2. Senders' /\ \A a \in Actor, y \in Caller : Asks(a, y)' = Asks(a, y)
  <2>1. kind \notin {"sync", "change"}
        /\ kind \in {"sync", "change", "subscribe", "unsubscribe"}
    OBVIOUS
  <2>2. /\ Senders'
        /\ \A a \in Actor, y \in Caller :
              Asks(a, y)' = Asks(a, y) \cup
                 IF a = b /\ y = x /\ Alive(b) /\ kind \in {"sync", "change"}
                 THEN {Len(queue[b]) + 1} ELSE {}
    BY <1>1, <2>1, AsksSent
  <2> QED
    BY <2>1, <2>2
<1>3. \A a \in Actor, y \in Caller : Owes(a, y)' <=> Owes(a, y)
  BY <1>2 DEF Owes
<1>4. DeadIsEmpty'
  BY <1>1, SendTypes DEF DeadIsEmpty, Alive
<1>5. OwedWait'
  BY <1>2, <1>3 DEF OwedWait
<1>6. \A y \in Caller : Waits(y) => attached[y] \in Actor
  BY DEF Attaching, Waits, LifecycleTypeOK
<1>7. WaitingHeld'
  BY <1>3, <1>6 DEF WaitingHeld, Alive
<1> QED
  BY <1>2, <1>4, <1>5, <1>7 DEF QueueInv

\* A message that needs one: its sender waits from now on, if the actor lives.
LEMMA QueueAsked ==
    ASSUME LifecycleInv, NEW x \in Caller, NEW kind \in {"sync", "change"},
           kind = "sync" => x \in Session,
           attached[x] \in Actor, ~Waits(x), Send(attached[x], kind, x),
           UNCHANGED <<life, busy, subs, attached>>,
           \A y \in Caller \ {x} : stage'[y] = stage[y],
           Waits(x)' <=> Alive(attached[x])
    PROVE  QueueInv'
<1> USE DEF LifecycleInv
<1> DEFINE b == attached[x]
           n == Len(queue[b]) + 1
<1>1. /\ Senders'
      /\ \A a \in Actor, y \in Caller :
            Asks(a, y)' = Asks(a, y) \cup IF a = b /\ y = x /\ Alive(b) THEN {n} ELSE {}
  BY AsksSent
<1> HIDE DEF b, n
<1>2. \A a \in Actor : ~Owes(a, x)
  BY DEF OwedWait
<1>3. \A a \in Actor : Asks(a, x) = {} /\ busy[a] # x
  BY <1>2 DEF Owes
<1>4. DeadIsEmpty'
  BY SendTypes DEF DeadIsEmpty, Alive
<1>5. \A y \in Caller \ {x} : Waits(y)' <=> Waits(y)
  BY DEF Waits
<1>6. \A a \in Actor, y \in Caller :
         Owes(a, y)' <=> Owes(a, y) \/ (a = b /\ y = x /\ Alive(b))
  BY <1>1 DEF Owes
<1>7. OwedWait'
  <2> SUFFICES ASSUME NEW a \in Actor, NEW y \in Caller
               PROVE  /\ Owes(a, y)' => attached'[y] = a /\ Waits(y)'
                      /\ busy'[a] = y => Asks(a, y)' = {}
                      /\ \A i, j \in Asks(a, y)' : i = j
    BY DEF OwedWait
  <2>1. CASE y = x
    BY <1>1, <1>2, <1>3, <1>6, <2>1 DEF b
  <2>2. CASE y # x
    BY <1>1, <1>5, <1>6, <2>2 DEF OwedWait
  <2> QED
    BY <2>1, <2>2
<1>8. \A y \in Caller : Waits(y) => attached[y] \in Actor
  BY DEF Attaching, Waits, LifecycleTypeOK
<1>9. WaitingHeld'
  BY <1>5, <1>6, <1>8 DEF WaitingHeld, Alive, b
<1> QED
  BY <1>1, <1>4, <1>7, <1>9 DEF QueueInv

\* A message is taken up that needs no answer.
LEMMA QueueHeard ==
    ASSUME LifecycleInv, NEW a \in Actor, NEW kind \in {"subscribe", "unsubscribe"},
           NextMessage(a, kind),
           \A b \in Actor : Alive(b) => Alive(b)',
           \A b \in Actor \ {a} : subs'[b] = subs[b],
           UNCHANGED busy
    PROVE  QueueInv'
<1> USE DEF LifecycleInv
<1>1. UNCHANGED <<stage, attached>> /\ Alive(a)
  BY DEF NextMessage, callerVars
<1>2. /\ Senders'
      /\ \A b \in Actor \ {a}, y \in Caller : Asks(b, y)' = Asks(b, y)
      /\ \A y \in Caller : \A i \in Asks(a, y)' : i \in Nat \ {0} /\ i + 1 \in Asks(a, y)
      /\ \A y \in Caller : \A i \in Asks(a, y) : i - 1 \in Asks(a, y)'
  BY AsksTaken
<1>3. \A b \in Actor, y \in Caller : Owes(b, y)' <=> Owes(b, y)
  BY <1>2 DEF Owes
<1>4. \A b \in Actor \ {a} : queue'[b] = queue[b]
  BY FirstTypes
<1>5. DeadIsEmpty'
  BY <1>1, <1>4 DEF DeadIsEmpty
<1>6. \A y \in Caller : \A i, j \in Asks(a, y)' : i = j
  BY <1>2 DEF OwedWait
<1>7. OwedWait'
  BY <1>1, <1>2, <1>3, <1>6 DEF OwedWait, Waits
<1>8. \A y \in Caller : Waits(y) => attached[y] \in Actor
  BY DEF Attaching, Waits, LifecycleTypeOK
<1>9. WaitingHeld'
  BY <1>1, <1>3, <1>8 DEF WaitingHeld, Waits
<1> QED
  BY <1>2, <1>5, <1>7, <1>9 DEF QueueInv

\* A message is taken up whose sender waits: the actor goes on owing the answer.
LEMMA QueueAccepted ==
    ASSUME LifecycleInv, NEW a \in Actor, Accept(a)
    PROVE  QueueInv'
<1> USE DEF LifecycleInv
<1>1. PICK kind \in {"sync", "change"} : NextMessage(a, kind)
  BY DEF Accept
<1>0. PICK x \in Caller : x = Head(queue[a]).from
  BY <1>1, FirstTypes
<1>2. /\ UNCHANGED <<stage, attached, life, subs>> /\ Alive(a) /\ busy[a] = Nobody
      /\ busy' = [busy EXCEPT ![a] = x]
  BY <1>0, <1>1 DEF Accept, NextMessage, callerVars
<1>3. \A b \in Actor \ {a} : queue'[b] = queue[b]
  BY <1>1, FirstTypes
<1>4. /\ Senders'
      /\ \A b \in Actor \ {a}, y \in Caller : Asks(b, y)' = Asks(b, y)
      /\ \A y \in Caller : \A i \in Asks(a, y)' : i \in Nat \ {0} /\ i + 1 \in Asks(a, y)
      /\ \A y \in Caller : \A i \in Asks(a, y) \ {1} : i - 1 \in Asks(a, y)'
      /\ \A y \in Caller : 1 \in Asks(a, y) <=> y = x
  BY <1>0, <1>1, AsksTaken
<1>5. busy'[a] = x /\ \A b \in Actor \ {a} : busy'[b] = busy[b]
  BY <1>2 DEF LifecycleTypeOK
<1>6. DeadIsEmpty'
  BY <1>2, <1>3, <1>5 DEF DeadIsEmpty, Alive
<1>7. Asks(a, x)' = {}
  <2> SUFFICES ASSUME NEW i \in Asks(a, x)'
               PROVE  FALSE
    OBVIOUS
  <2>1. i \in Nat \ {0} /\ i + 1 \in Asks(a, x) /\ 1 \in Asks(a, x)
    BY <1>4
  <2>2. i + 1 = 1
    BY <2>1 DEF OwedWait
  <2> QED
    BY <2>1, <2>2
<1>8. \A y \in Caller : \A i, j \in Asks(a, y)' : i = j
  BY <1>4 DEF OwedWait
<1>9. \A b \in Actor, y \in Caller : Owes(b, y)' <=> Owes(b, y)
  <2> SUFFICES ASSUME NEW b \in Actor, NEW y \in Caller
               PROVE  Owes(b, y)' <=> Owes(b, y)
    OBVIOUS
  <2>1. CASE b # a
    BY <1>4, <1>5, <2>1 DEF Owes
  <2>2. CASE b = a /\ y = x
    BY <1>4, <1>5, <2>2 DEF Owes
  <2>3. CASE b = a /\ y # x
    BY <1>2, <1>4, <1>5, <2>3, NobodyElse DEF Owes
  <2> QED
    BY <2>1, <2>2, <2>3
<1>10. OwedWait'
  <2> SUFFICES ASSUME NEW b \in Actor, NEW y \in Caller
               PROVE  /\ Owes(b, y)' => attached'[y] = b /\ Waits(y)'
                      /\ busy'[b] = y => Asks(b, y)' = {}
                      /\ \A i, j \in Asks(b, y)' : i = j
    BY DEF OwedWait
  <2>1. Owes(b, y)' => attached'[y] = b /\ Waits(y)'
    BY <1>2, <1>9 DEF OwedWait, Waits
  <2>2. busy'[b] = y => Asks(b, y)' = {}
    BY <1>4, <1>5, <1>7 DEF OwedWait
  <2>3. \A i, j \in Asks(b, y)' : i = j
    BY <1>4, <1>8 DEF OwedWait
  <2> QED
    BY <2>1, <2>2, <2>3
<1>11. \A y \in Caller : Waits(y) => attached[y] \in Actor
  BY DEF Attaching, Waits, LifecycleTypeOK
<1>12. WaitingHeld'
  BY <1>2, <1>9, <1>11 DEF WaitingHeld, Waits, Alive
<1> QED
  BY <1>4, <1>6, <1>10, <1>12 DEF QueueInv

\* The one that is answered waits no more; nobody else is owed less.
LEMMA QueueAnswered ==
    ASSUME LifecycleInv, NEW a \in Actor, NEW st \in Stage, Answer(a, st)
    PROVE  QueueInv'
<1> USE DEF LifecycleInv
<1>0. PICK x \in Caller : x = busy[a]
  BY DEF Answer, LifecycleTypeOK
<1>1. /\ Alive(a) /\ st \in Answers(x)
      /\ stage' = [stage EXCEPT ![x] = st]
      /\ busy' = [busy EXCEPT ![a] = Nobody]
      /\ UNCHANGED <<queue, subs, life, attached>>
  BY <1>0 DEF Answer, Becomes
<1>2. attached[x] = a /\ Waits(x) /\ Asks(a, x) = {}
  BY <1>0 DEF OwedWait, Owes
<1>3. /\ busy'[a] = Nobody /\ \A b \in Actor \ {a} : busy'[b] = busy[b]
      /\ ~Waits(x)' /\ \A y \in Caller \ {x} : stage'[y] = stage[y]
  BY <1>1 DEF LifecycleTypeOK, Waits, Answers
<1>4. Senders' /\ \A b \in Actor, y \in Caller : Asks(b, y)' = Asks(b, y)
  BY <1>1 DEF Senders, Asks
<1>5. DeadIsEmpty'
  BY <1>1, <1>3 DEF DeadIsEmpty, Alive
<1>6. \A b \in Actor : ~Owes(b, x)'
  BY <1>1, <1>2, <1>3, <1>4, NobodyElse DEF OwedWait, Owes
<1>7. \A b \in Actor, y \in Caller \ {x} : Owes(b, y)' <=> Owes(b, y)
  <2> SUFFICES ASSUME NEW b \in Actor, NEW y \in Caller \ {x}
               PROVE  busy'[b] = y <=> busy[b] = y
    BY <1>4 DEF Owes
  <2> QED
    BY <1>0, <1>3, NobodyElse
<1>8. OwedWait'
  <2> SUFFICES ASSUME NEW b \in Actor, NEW y \in Caller
               PROVE  /\ Owes(b, y)' => attached'[y] = b /\ Waits(y)'
                      /\ busy'[b] = y => Asks(b, y)' = {}
                      /\ \A i, j \in Asks(b, y)' : i = j
    BY DEF OwedWait
  <2>1. Owes(b, y)' => attached'[y] = b /\ Waits(y)'
    BY <1>1, <1>3, <1>6, <1>7 DEF OwedWait, Waits
  <2>2. busy'[b] = y => Asks(b, y)' = {}
    BY <1>3, <1>4, NobodyElse DEF OwedWait
  <2>3. \A i, j \in Asks(b, y)' : i = j
    BY <1>4 DEF OwedWait
  <2> QED
    BY <2>1, <2>2, <2>3
<1>9. \A y \in Caller : Waits(y) => attached[y] \in Actor
  BY DEF Attaching, Waits, LifecycleTypeOK
<1>10. WaitingHeld'
  BY <1>1, <1>3, <1>7, <1>9 DEF WaitingHeld, Waits, Alive
<1> QED
  BY <1>4, <1>5, <1>8, <1>10 DEF QueueInv

\* An actor that ends leaves nobody waiting for it.
LEMMA QueueDropped ==
    ASSUME LifecycleInv, NEW a \in Actor, Drop(a), UNCHANGED attached,
           NEW l \in {"ended", "panicked"}, life' = [life EXCEPT ![a] = l]
    PROVE  QueueInv'
<1> USE DEF LifecycleInv
<1>1. /\ queue'[a] = <<>> /\ busy'[a] = Nobody /\ subs'[a] = {} /\ ~Alive(a)'
      /\ \A b \in Actor \ {a} : /\ queue'[b] = queue[b] /\ busy'[b] = busy[b]
                                /\ subs'[b] = subs[b] /\ (Alive(b)' <=> Alive(b))
  BY DEF Drop, Alive, LifecycleTypeOK
<1>2. \A y \in Caller : /\ attached[y] = a => ~Waits(y)'
                        /\ attached[y] # a => stage'[y] = stage[y]
  BY DEF Drop, Waiting, Waits
<1>3. Senders'
  <2> SUFFICES ASSUME NEW b \in Actor, NEW i \in DOMAIN queue'[b], queue'[b][i].kind # "change"
               PROVE  queue'[b][i].from \in Session
    BY DEF Senders
  <2> QED
    BY <1>1 DEF Senders
<1>4. DeadIsEmpty'
  BY <1>1 DEF DeadIsEmpty
<1>5. \A b \in Actor, y \in Caller :
         /\ b = a => Asks(b, y)' = {} /\ ~Owes(b, y)'
         /\ b # a => Asks(b, y)' = Asks(b, y) /\ (Owes(b, y)' <=> Owes(b, y))
  BY <1>1, NobodyElse DEF Asks, Owes
<1>6. OwedWait'
  <2> SUFFICES ASSUME NEW b \in Actor, NEW y \in Caller
               PROVE  /\ Owes(b, y)' => attached'[y] = b /\ Waits(y)'
                      /\ busy'[b] = y => Asks(b, y)' = {}
                      /\ \A i, j \in Asks(b, y)' : i = j
    BY DEF OwedWait
  <2>1. CASE b = a
    BY <1>5, <2>1
  <2>2. CASE b # a
    BY <1>1, <1>2, <1>5, <2>2 DEF OwedWait, Waits
  <2> QED
    BY <2>1, <2>2
<1>7. \A y \in Caller : Waits(y) => attached[y] \in Actor
  BY DEF Attaching, Waits, LifecycleTypeOK
<1>8. WaitingHeld'
  <2> SUFFICES ASSUME NEW y \in Caller, Waits(y)'
               PROVE  Alive(attached[y])' /\ Owes(attached[y], y)'
    BY DEF WaitingHeld
  <2>1. attached[y] # a /\ Waits(y) /\ attached[y] \in Actor
    BY <1>2, <1>7 DEF Waits
  <2> QED
    BY <1>1, <1>5, <2>1 DEF WaitingHeld
<1> QED
  BY <1>3, <1>4, <1>6, <1>8 DEF QueueInv

LEMMA QueueHub ==
    ASSUME LifecycleInv, HubStep
    PROVE  QueueInv'
<1> USE DEF LifecycleInv
<1>1. ASSUME NEW x \in Caller, HubRead(x)
      PROVE  QueueInv'
  <2>1. \A y \in Caller : Waits(y)' <=> Waits(y)
    BY <1>1 DEF HubRead, Becomes, Waits, LifecycleTypeOK
  <2> QED
    BY <1>1, <2>1, QueueQuiet DEF HubRead, actorVars, Alive
<1>2. CASE HubAttach
  <2>1. hub.for \in Caller /\ stage[hub.for] = "found"
    BY <1>2, HubTypes DEF HubAttach, HubHonest
  <2>2. \A y \in Caller : /\ Waits(y)' <=> Waits(y)
                          /\ Waits(y) => attached'[y] = attached[y]
    BY <1>2, <2>1 DEF HubAttach, Becomes, Waits, LifecycleTypeOK
  <2>3. \A a \in Actor : Alive(a) => Alive(a)'
    BY <1>2 DEF HubAttach, Spawn, Alive, LifecycleTypeOK
  <2> QED
    BY <1>2, <2>2, <2>3, QueueQuiet DEF HubAttach
<1>3. CASE HubSubscribe
  <2>1. hub.for \in Session /\ hub.for \in Caller /\ attached[hub.for] \in Actor
    BY <1>3, HubTypes DEF HubSubscribe, HubHonest, LifecycleTypeOK, Caller
  <2> QED
    BY <1>3, <2>1, QueueTold DEF HubSubscribe, callerVars, Waits
<1>4. CASE HubExit
  BY <1>4, QueueQuiet DEF HubExit, callerVars, Waits, Alive
<1> QED
  BY <1>1, <1>2, <1>3, <1>4 DEF HubStep

LEMMA QueueCaller ==
    ASSUME LifecycleInv, NEW x \in Caller,
           \/ Ask(x)
           \/ x \in Session /\ (SessionStep(x) \/ SessionSend(x) \/ Leave(x))
           \/ x \in Request /\ RequestSend(x)
    PROVE  QueueInv'
<1> USE DEF LifecycleInv
<1>1. CASE Ask(x)
  <2>1. \A y \in Caller : Waits(y)' <=> Waits(y)
    BY <1>1 DEF Ask, Becomes, Waits, LifecycleTypeOK
  <2> QED
    BY <1>1, <2>1, QueueQuiet DEF Ask, actorVars, Alive
<1>2. CASE x \in Session /\ Leave(x)
  BY <1>2, QueueQuiet DEF Leave, actorVars, Alive, Waits
<1>3. stage[x] \in {"joined", "ready", "forbidden", "refused"} =>
         attached[x] \in Actor /\ ~Waits(x)
  BY DEF Attaching, Waits, LifecycleTypeOK
<1>5. CASE x \in Session /\ SessionSync(x)
  <2>1. \A y \in Caller \ {x} : stage'[y] = stage[y]
    BY <1>5 DEF SessionSync, Becomes, LifecycleTypeOK
  <2>2. Waits(x)' <=> Alive(attached[x])
    BY <1>5 DEF SessionSync, Becomes, Waits, LifecycleTypeOK
  <2> QED
    BY <1>3, <1>5, <2>1, <2>2, QueueAsked DEF SessionSync
<1>6. CASE x \in Session /\ SessionSend(x)
  <2>1. \A y \in Caller \ {x} : stage'[y] = stage[y]
    BY <1>6 DEF SessionSend, Becomes, LifecycleTypeOK
  <2>2. Waits(x)' <=> Alive(attached[x])
    BY <1>6 DEF SessionSend, Becomes, Waits, LifecycleTypeOK
  <2> QED
    BY <1>3, <1>6, <2>1, <2>2, QueueAsked DEF SessionSend
<1>7. CASE x \in Request /\ RequestSend(x)
  <2>1. \A y \in Caller \ {x} : stage'[y] = stage[y]
    BY <1>7 DEF RequestSend, Becomes, LifecycleTypeOK
  <2>2. Waits(x)' <=> Alive(attached[x])
    BY <1>7 DEF RequestSend, Becomes, Waits, LifecycleTypeOK
  <2> QED
    BY <1>3, <1>7, <2>1, <2>2, QueueAsked DEF RequestSend
<1>8. CASE x \in Session /\ SessionExit(x)
  <2>1. \A y \in Caller : Waits(y)' <=> Waits(y)
    BY <1>8 DEF SessionExit, Becomes, Waits, LifecycleTypeOK
  <2> QED
    BY <1>3, <1>8, <2>1, QueueTold DEF SessionExit
<1> QED
  BY <1>1, <1>2, <1>5, <1>6, <1>7, <1>8 DEF SessionStep

LEMMA QueueStep ==
    ASSUME LifecycleInv, [LifecycleNext]_lifecycleVars
    PROVE  QueueInv'
<1>1. ASSUME NEW c \in Col, NEW p \in Perm,
             CreateCollection(c, p) \/ UpdateCollectionPermissions(c, p)
      PROVE  QueueInv'
  BY <1>1, QueueQuiet DEF CreateCollection, UpdateCollectionPermissions, actorVars, callerVars,
                          Alive, Waits
<1>2. ASSUME NEW a \in Actor, HandleSubscribe(a) \/ HandleUnsubscribe(a)
      PROVE  QueueInv'
  <2>1. PICK kind \in {"subscribe", "unsubscribe"} : NextMessage(a, kind)
    BY <1>2 DEF HandleSubscribe, HandleUnsubscribe
  <2>2. /\ \A b \in Actor : Alive(b) => Alive(b)'
        /\ \A b \in Actor \ {a} : subs'[b] = subs[b]
        /\ UNCHANGED busy
    BY <1>2 DEF HandleSubscribe, HandleUnsubscribe, Alive, LifecycleInv, LifecycleTypeOK
  <2> QED
    BY <2>1, <2>2, QueueHeard
<1>3. ASSUME NEW a \in Actor, Stop(a) \/ Panic(a)
      PROVE  QueueInv'
  BY <1>3, QueueDropped DEF Stop, Panic
<1>4. CASE UNCHANGED lifecycleVars
  BY <1>4, QueueQuiet DEF lifecycleVars, actorVars, callerVars, Alive, Waits
<1> QED
  BY <1>1, <1>2, <1>3, <1>4, QueueHub, QueueCaller, QueueAccepted, QueueAnswered
     DEF LifecycleNext, Handle, Caller

-----------------------------------------------------------------------------
(* Theorems *)

LEMMA LifecycleInvInit == LifecycleInit => LifecycleInv
BY LifecycleTypeInit, RegistryInit, QueueInit DEF LifecycleInv, RegistryInv, QueueInv

LEMMA LifecycleInvStep == LifecycleInv /\ [LifecycleNext]_lifecycleVars => LifecycleInv'
<1> SUFFICES ASSUME LifecycleInv, [LifecycleNext]_lifecycleVars
             PROVE  LifecycleInv'
  OBVIOUS
<1>1. LifecycleTypeOK' /\ RegistryInv' /\ QueueInv'
  BY LifecycleTypeStep, RegistryStep, QueueStep
<1> QED
  BY <1>1 DEF LifecycleInv, RegistryInv, QueueInv

\* Of a collection's reports there is one, if any.
LEMMA ReportsHonest == LifecycleInv => RegistryHonest
<1> SUFFICES ASSUME LifecycleInv, NEW c \in Col
             PROVE  LET Reports == {i \in DOMAIN exits : exits[i] = c} IN
                    /\ Cardinality(Reports) <= 1
                    /\ Reports # {} <=> registry[c] # Nobody /\ life[registry[c]] = "ended"
  BY DEF RegistryHonest
<1> DEFINE Reports == {i \in DOMAIN exits : exits[i] = c}
<1>1. \A i, j \in Reports : i = j
  BY DEF LifecycleInv, ReportsMatch
<1>2. Reports = {} \/ \E i \in Reports : Reports = {i}
  BY <1>1
<1>3. Cardinality(Reports) <= 1
  <2> HIDE DEF Reports
  <2>1. CASE Reports = {}
    BY <2>1, FS_EmptySet
  <2>2. ASSUME NEW i \in Reports, Reports = {i}
        PROVE  Cardinality(Reports) <= 1
    <3>1. Cardinality({i}) = 1
      BY FS_Singleton
    <3> QED
      BY <2>2, <3>1
  <2> QED
    BY <1>2, <2>1, <2>2
<1>4. Reports # {} <=> Reported(c)
  BY DEF Reported
<1> QED
  BY <1>3, <1>4 DEF LifecycleInv, ReportsMatch

LEMMA LifecycleAlways == LifecycleSpec => []LifecycleInv
BY LifecycleInvInit, LifecycleInvStep, PTL DEF LifecycleSpec

\* A collection has at most one actor that lives, the one the hub knows: get_collection_actor
\* of sinkron/src/actors/sinkron.rs starts another only once the exit of the last is
\* reported (sinkron/src/actors/supervisor.rs).
THEOREM OneActorAlways == LifecycleSpec => []OneActor
<1>1. LifecycleInv => OneActor
  BY DEF LifecycleInv
<1> QED
  BY <1>1, LifecycleAlways, PTL

\* The registry keeps an actor that has ended only until its one report is read
\* (the supervisor's exit callback and the loop of sinkron/src/actors/sinkron.rs).
THEOREM RegistryAlwaysHonest == LifecycleSpec => []RegistryHonest
BY ReportsHonest, LifecycleAlways, PTL

\* Whoever waits for an answer is in the hands of an actor that lives, which owes
\* exactly that one; and an actor owes nobody else: when an actor ends, the messages
\* in its channel are dropped, and their oneshots with them (sinkron/src/actors/collection.rs).
THEOREM NobodyForgotten == LifecycleSpec => [](OwedWait /\ WaitingHeld)
<1>1. LifecycleInv => OwedWait /\ WaitingHeld
  BY DEF LifecycleInv
<1> QED
  BY <1>1, LifecycleAlways, PTL

-----------------------------------------------------------------------------
(* What a step may do *)

\* A reading under way is of a user, and its groups are groups.
LEMMA FillTypes ==
    ASSUME GroupsTypeOK, NEW r \in Reader, fill[r] # NoFill
    PROVE  fill[r].user \in User /\ fill[r].groups \in SUBSET Group
<1>1. fill[r] \in Fill
  BY DEF GroupsTypeOK
<1> QED
  BY <1>1 DEF Fill

\* A request under way is known by its step.
LEMMA ChangeTypes ==
    ASSUME GroupsTypeOK, NEW w \in Writer
    PROVE  /\ change[w].step = "insert" => change[w].user \in User /\ change[w].group \in Group
           /\ change[w].step = "invalidate" => change[w].user \in User
           /\ change[w].step = "drop" => change[w].group \in Group
<1>1. change[w] \in Change \/ change[w] = Idle
  BY DEF GroupsTypeOK
<1> QED
  BY <1>1 DEF Change, Idle

\* A set of groups.
LEMMA GroupsOfType ==
    ASSUME NEW u \in User
    PROVE  GroupsOf(u) \in SUBSET Group
BY DEF GroupsOf

\* Requests are put under way with their steps' data.
LEMMA ChangeShapes ==
    ASSUME NEW u \in User, NEW g \in Group
    PROVE  /\ [step |-> "insert", user |-> u, group |-> g] \in Change
           /\ [step |-> "invalidate", user |-> u] \in Change
           /\ [step |-> "drop", group |-> g] \in Change
BY DEF Change

LEMMA GroupsTypeInit == GroupsInit => GroupsTypeOK
BY DEF GroupsInit, GroupsTypeOK

LEMMA GroupsTypeReader ==
    ASSUME GroupsTypeOK, NEW r \in Reader, ReaderStep(r)
    PROVE  GroupsTypeOK'
<1>1. ASSUME NEW u \in User, FillRead(r, u)
      PROVE  GroupsTypeOK'
  <2>1. [user |-> u, groups |-> GroupsOf(u)] \in Fill
    BY GroupsOfType DEF Fill
  <2> QED
    BY <1>1, <2>1 DEF GroupsTypeOK, FillRead, rows
<1>2. CASE FillPut(r)
  <2>1. cache' \in [User -> {Unknown} \cup SUBSET Group]
    BY <1>2, FillTypes DEF FillPut, GroupsTypeOK
  <2> QED
    BY <1>2, <2>1 DEF GroupsTypeOK, FillPut, rows
<1>3. CASE FillDrop(r)
  BY <1>3 DEF GroupsTypeOK, FillDrop, rows
<1> QED
  BY <1>1, <1>2, <1>3 DEF ReaderStep

LEMMA GroupsTypeWriter ==
    ASSUME GroupsTypeOK, NEW w \in Writer, Begin(w) \/ Proceed(w)
    PROVE  GroupsTypeOK'
<1>1. ASSUME NEW u \in User, NEW g \in Group, AddCheck(w, u, g)
      PROVE  GroupsTypeOK'
  BY <1>1, ChangeShapes DEF GroupsTypeOK, AddCheck, Then, rows
<1>2. ASSUME NEW u \in User, NEW g \in Group, RemoveRows(w, u, g)
      PROVE  GroupsTypeOK'
  <2>1. members' \in [User -> [Group -> Nat]]
    BY <1>2 DEF RemoveRows, GroupsTypeOK
  <2> QED
    BY <1>2, <2>1, ChangeShapes DEF GroupsTypeOK, RemoveRows, Then, Touch
<1>3. ASSUME NEW u \in User, RemoveAllRows(w, u)
      PROVE  GroupsTypeOK'
  <2>1. members' \in [User -> [Group -> Nat]]
    BY <1>3 DEF RemoveAllRows, GroupsTypeOK
  <2>2. [step |-> "invalidate", user |-> u] \in Change
    BY DEF Change
  <2> QED
    BY <1>3, <2>1, <2>2 DEF GroupsTypeOK, RemoveAllRows, Then, Touch
<1>4. ASSUME NEW g \in Group, DeleteMembers(w, g)
      PROVE  GroupsTypeOK'
  <2>1. members' \in [User -> [Group -> Nat]]
    BY <1>4 DEF DeleteMembers, GroupsTypeOK
  <2>2. [step |-> "drop", group |-> g] \in Change
    BY DEF Change
  <2> QED
    BY <1>4, <2>1, <2>2 DEF GroupsTypeOK, DeleteMembers, Then
<1>5. CASE AddInsert(w)
  <2>1. change[w].user \in User /\ change[w].group \in Group
    BY <1>5, ChangeTypes DEF AddInsert
  <2>2. members' \in [User -> [Group -> Nat]]
    <3>1. CASE UNCHANGED members
      BY <3>1 DEF GroupsTypeOK
    <3>2. CASE members' = [members EXCEPT ![change[w].user][change[w].group] = @ + 1]
      BY <2>1, <3>2 DEF GroupsTypeOK
    <3> QED
      BY <1>5, <3>1, <3>2 DEF AddInsert
  <2>3. [step |-> "invalidate", user |-> change[w].user] \in Change
    BY <2>1, ChangeShapes
  <2>4. change' \in [Writer -> Change \cup {Idle}] /\ doubtful' \subseteq User
    <3>1. PICK v : v = change[w].user
      OBVIOUS
    <3>2. PICK next : next = [step |-> "invalidate", user |-> change[w].user]
      OBVIOUS
    <3>3. next \in Change /\ v \in User
      BY <2>1, <2>3, <3>1, <3>2
    <3>4. \/ Then(w, next) /\ Touch({v})
          \/ Then(w, Idle) /\ UNCHANGED doubtful
      BY <1>5, <3>1, <3>2 DEF AddInsert
    <3>5. change' \in [Writer -> Change \cup {Idle}]
      BY <3>3, <3>4 DEF Then, GroupsTypeOK
    <3>6. doubtful' \subseteq User
      BY <3>3, <3>4 DEF Touch, GroupsTypeOK
    <3> QED
      BY <3>5, <3>6
  <2> QED
    BY <1>5, <2>2, <2>4 DEF GroupsTypeOK, AddInsert
<1>6. CASE Invalidate(w)
  BY <1>6 DEF GroupsTypeOK, Invalidate, Then, rows
<1>7. CASE DropGroup(w)
  BY <1>7 DEF GroupsTypeOK, DropGroup, Then
<1> QED
  BY <1>1, <1>2, <1>3, <1>4, <1>5, <1>6, <1>7 DEF Begin, Proceed

LEMMA GroupsTypeStep == GroupsTypeOK /\ [GroupsNext]_groupsVars => GroupsTypeOK'
<1> SUFFICES ASSUME GroupsTypeOK, [GroupsNext]_groupsVars
             PROVE  GroupsTypeOK'
  OBVIOUS
<1>1. ASSUME NEW g \in Group, CreateGroup(g)
      PROVE  GroupsTypeOK'
  BY <1>1 DEF GroupsTypeOK, CreateGroup
<1>2. CASE UNCHANGED groupsVars
  BY <1>2 DEF GroupsTypeOK, groupsVars, rows
<1> QED
  BY <1>1, <1>2, GroupsTypeReader, GroupsTypeWriter DEF GroupsNext

-----------------------------------------------------------------------------
(* Freshness *)

\* An entry is as fresh as the readings it may come from.
FreshInv == GroupsTypeOK /\ CacheFresh /\ FillsFresh

\* Readers do not change rows: what they read is right as long as the rows stay.
LEMMA FreshReader ==
    ASSUME FreshInv, NEW r \in Reader, ReaderStep(r)
    PROVE  CacheFresh' /\ FillsFresh'
<1>1. /\ UNCHANGED <<members, change, doubtful>>
      /\ \A u \in User : GroupsOf(u)' = GroupsOf(u)
      /\ \A u \in User : Invalidating(u)' <=> Invalidating(u)
  BY DEF ReaderStep, FillRead, FillPut, FillDrop, rows, GroupsOf, Invalidating
<1>2. ASSUME NEW u \in User, FillRead(r, u)
      PROVE  CacheFresh' /\ FillsFresh'
  <2>1. \A s \in Reader : fill'[s] = fill[s] \/ fill'[s] = [user |-> u, groups |-> GroupsOf(u)]
    BY <1>2 DEF FillRead, FreshInv, GroupsTypeOK
  <2>2. \A s \in Reader : fill[s] # NoFill => fill[s].user \in User
    BY FillTypes DEF FreshInv
  <2> QED
    BY <1>1, <1>2, <2>1, <2>2 DEF FillRead, FreshInv, CacheFresh, FillsFresh
<1>3. CASE FillPut(r) \/ FillDrop(r)
  <2>1. \A s \in Reader : fill'[s] \in {fill[s], NoFill}
    BY <1>3 DEF FillPut, FillDrop, FreshInv, GroupsTypeOK
  <2>2. FillsFresh'
    <3>1. \A s \in Reader : fill[s] # NoFill => fill[s].user \in User
      BY FillTypes DEF FreshInv
    <3> QED
      BY <1>1, <2>1, <3>1 DEF FreshInv, FillsFresh
  <2>3. ASSUME NEW u \in User \ doubtful
        PROVE  cache'[u] = cache[u] \/ cache'[u] = Unknown \/ cache'[u] = GroupsOf(u)
    BY <1>3 DEF FillPut, FillDrop, FreshInv, FillsFresh, GroupsTypeOK
  <2> QED
    BY <1>1, <2>2, <2>3 DEF FreshInv, CacheFresh
<1> QED
  BY <1>2, <1>3 DEF ReaderStep

\* A request under way goes on invalidating until it has dropped the entry.
LEMMA StillInvalidating ==
    ASSUME GroupsTypeOK, NEW w \in Writer, NEW next,
           Then(w, next), change[w].step # "invalidate"
    PROVE  \A u \in User : Invalidating(u) => Invalidating(u)'
BY DEF Invalidating, Then, GroupsTypeOK

LEMMA NowInvalidating ==
    ASSUME GroupsTypeOK, NEW w \in Writer, NEW v \in User,
           Then(w, [step |-> "invalidate", user |-> v])
    PROVE  Invalidating(v)'
BY DEF Invalidating, Then, GroupsTypeOK

\* Rows change of users who are invalidated next; of these, whoever is being
\* read is doubtful.
LEMMA FreshTouch ==
    ASSUME FreshInv, NEW w \in Writer, NEW v \in User,
           change[w].step # "invalidate",
           Then(w, [step |-> "invalidate", user |-> v]), Touch({v}),
           UNCHANGED <<cache, fill>>,
           \A u \in User \ {v} : GroupsOf(u)' = GroupsOf(u)
    PROVE  CacheFresh' /\ FillsFresh'
<1>1. \A u \in User : Invalidating(u) => Invalidating(u)'
  BY StillInvalidating DEF FreshInv
<1>2. Invalidating(v)'
  BY NowInvalidating DEF FreshInv
<1>3. CacheFresh'
  BY <1>1, <1>2 DEF FreshInv, CacheFresh, Touch
<1>4. \A r \in Reader : fill[r] # NoFill => fill[r].user \in User
  BY FillTypes DEF FreshInv
<1>5. FillsFresh'
  BY <1>4 DEF FreshInv, FillsFresh, Touch, Filling
<1> QED
  BY <1>3, <1>5

\* Requests change rows, drop entries, or do neither.
LEMMA FreshWriter ==
    ASSUME FreshInv, NEW w \in Writer, Begin(w) \/ Proceed(w)
    PROVE  CacheFresh' /\ FillsFresh'
<1> USE DEF FreshInv
<1>0. Idle.step # "invalidate"
  BY DEF Idle
<1>1. ASSUME NEW u \in User, NEW g \in Group, AddCheck(w, u, g)
      PROVE  CacheFresh' /\ FillsFresh'
  <2>1. \A v \in User : Invalidating(v) => Invalidating(v)'
    BY <1>0, <1>1, StillInvalidating DEF AddCheck
  <2> QED
    BY <1>1, <2>1 DEF AddCheck, CacheFresh, FillsFresh, GroupsOf, rows
<1>2. ASSUME NEW u \in User, NEW g \in Group, RemoveRows(w, u, g)
      PROVE  CacheFresh' /\ FillsFresh'
  <2>1. \A v \in User \ {u} : GroupsOf(v)' = GroupsOf(v)
    BY <1>2 DEF RemoveRows, GroupsOf, GroupsTypeOK
  <2> QED
    BY <1>0, <1>2, <2>1, FreshTouch DEF RemoveRows
<1>3. ASSUME NEW u \in User, RemoveAllRows(w, u)
      PROVE  CacheFresh' /\ FillsFresh'
  <2>1. \A v \in User \ {u} : GroupsOf(v)' = GroupsOf(v)
    BY <1>3 DEF RemoveAllRows, GroupsOf, GroupsTypeOK
  <2> QED
    BY <1>0, <1>3, <2>1, FreshTouch DEF RemoveAllRows
<1>4. ASSUME NEW g \in Group, DeleteMembers(w, g)
      PROVE  CacheFresh' /\ FillsFresh'
  <2>1. \A v \in User : Invalidating(v) => Invalidating(v)'
    BY <1>0, <1>4, StillInvalidating DEF DeleteMembers
  <2>2. ASSUME NEW v \in User \ doubtful'
        PROVE  GroupsOf(v)' = GroupsOf(v)
    <3>1. members[v] \in [Group -> Nat] /\ ~(members[v][g] > 0)
      BY <1>4 DEF DeleteMembers, GroupsTypeOK
    <3>2. members'[v] = [members[v] EXCEPT ![g] = 0]
      BY <1>4 DEF DeleteMembers
    <3> QED
      BY <3>1, <3>2 DEF GroupsOf
  <2>3. \A r \in Reader : fill[r] # NoFill => fill[r].user \in User
    BY FillTypes
  <2> QED
    BY <1>4, <2>1, <2>2, <2>3 DEF DeleteMembers, CacheFresh, FillsFresh
<1>5. CASE AddInsert(w)
  <2> DEFINE u == change[w].user
             g == change[w].group
  <2>1. u \in User /\ g \in Group
    BY <1>5, ChangeTypes DEF AddInsert
  <2>2. CASE g \in groups
    <3>1. \A v \in User \ {u} : GroupsOf(v)' = GroupsOf(v)
      BY <1>5, <2>1, <2>2 DEF AddInsert, GroupsOf, GroupsTypeOK
    <3>2. /\ Then(w, [step |-> "invalidate", user |-> u])
          /\ Touch({u})
          /\ change[w].step # "invalidate" /\ UNCHANGED <<cache, fill>>
      BY <1>5, <2>2 DEF AddInsert
    <3> HIDE DEF u, g
    <3> QED
      BY <2>1, <3>1, <3>2, FreshTouch
  <2>3. CASE g \notin groups
    <3>1. \A v \in User : Invalidating(v) => Invalidating(v)'
      BY <1>5, <2>3, StillInvalidating DEF AddInsert
    <3> QED
      BY <1>5, <2>3, <3>1 DEF AddInsert, CacheFresh, FillsFresh, GroupsOf
  <2> QED
    BY <2>2, <2>3
<1>6. CASE Invalidate(w)
  <2> DEFINE u == change[w].user
  <2>1. u \in User
    BY <1>6, ChangeTypes DEF Invalidate
  <2>2. \A v \in User \ {u} : Invalidating(v) => Invalidating(v)'
    BY <1>6 DEF Invalidate, Invalidating, Then, GroupsTypeOK
  <2>3. \A v \in User : GroupsOf(v)' = GroupsOf(v)
    BY <1>6 DEF Invalidate, GroupsOf, rows
  <2>4. /\ cache' = [cache EXCEPT ![u] = Unknown]
        /\ doubtful' = IF Filling(u) THEN doubtful ELSE doubtful \ {u}
        /\ UNCHANGED fill
    BY <1>6 DEF Invalidate
  <2>5. CacheFresh'
    BY <2>1, <2>2, <2>3, <2>4 DEF CacheFresh, GroupsTypeOK
  <2>6. \A r \in Reader : fill[r] # NoFill => fill[r].user \in User
    BY FillTypes
  <2>7. FillsFresh'
    BY <2>3, <2>4, <2>6 DEF FillsFresh, Filling
  <2> QED
    BY <2>5, <2>7
<1>7. CASE DropGroup(w)
  <2>1. \A v \in User : Invalidating(v) => Invalidating(v)'
    BY <1>7, StillInvalidating DEF DropGroup
  <2> QED
    BY <1>7, <2>1 DEF DropGroup, CacheFresh, FillsFresh, GroupsOf
<1> QED
  BY <1>1, <1>2, <1>3, <1>4, <1>5, <1>6, <1>7 DEF Begin, Proceed

\* Nothing else matters to freshness.
LEMMA UnchangedFresh ==
    ASSUME FreshInv, UNCHANGED <<members, cache, fill, change, doubtful>>
    PROVE  CacheFresh' /\ FillsFresh'
<1>1. \A u \in User : GroupsOf(u)' = GroupsOf(u) /\ (Invalidating(u)' <=> Invalidating(u))
  BY DEF GroupsOf, Invalidating
<1>2. CacheFresh'
  BY <1>1 DEF FreshInv, CacheFresh
<1>3. \A r \in Reader : fill[r] # NoFill => fill[r].user \in User
  BY FillTypes DEF FreshInv
<1>4. FillsFresh'
  BY <1>1, <1>3 DEF FreshInv, FillsFresh
<1> QED
  BY <1>2, <1>4

LEMMA FreshInit == GroupsInit => FreshInv
<1> SUFFICES ASSUME GroupsInit
             PROVE  FreshInv
  OBVIOUS
<1>1. CacheFresh /\ FillsFresh
  BY DEF GroupsInit, CacheFresh, FillsFresh
<1> QED
  BY <1>1, GroupsTypeInit DEF FreshInv

LEMMA FreshStep == FreshInv /\ [GroupsNext]_groupsVars => FreshInv'
<1> SUFFICES ASSUME FreshInv, [GroupsNext]_groupsVars
             PROVE  FreshInv'
  OBVIOUS
<1>1. GroupsTypeOK'
  BY GroupsTypeStep DEF FreshInv
<1>2. ASSUME NEW g \in Group, CreateGroup(g)
      PROVE  CacheFresh' /\ FillsFresh'
  BY <1>2, UnchangedFresh DEF CreateGroup
<1>3. ASSUME UNCHANGED groupsVars
      PROVE  CacheFresh' /\ FillsFresh'
  BY <1>3, UnchangedFresh DEF groupsVars, rows
<1>4. CacheFresh' /\ FillsFresh'
  BY <1>2, <1>3, FreshReader, FreshWriter DEF GroupsNext
<1> QED
  BY <1>1, <1>4 DEF FreshInv

\* What the cache says of a user is what the database says, unless a request is
\* about to drop the entry or the rows changed unseen by it (get_user and the
\* requests that change members, sinkron/src/groups.rs).
THEOREM CacheAlwaysFresh == GroupsSpec => []CacheFresh
<1>1. FreshInv => CacheFresh
  BY DEF FreshInv
<1> QED
  BY <1>1, FreshInit, FreshStep, PTL DEF GroupsSpec

-----------------------------------------------------------------------------
(* The server is made of its parts. *)

LEMMA AnswerStep ==
    ASSUME NEW a \in Actor, NEW gs, Reply(a, gs)
    PROVE  \E st \in Stage : Answer(a, st)
BY DEF Reply, Verdicts, Stage

LEMMA ServeStep ==
    ASSUME NEW a \in Actor, Serve(a) \/ ActorEnds(a)
    PROVE  /\ UNCHANGED lifecycleVars \/ Stop(a) \/ Panic(a) \/ \E st \in Stage : Answer(a, st)
           /\ UNCHANGED groupsVars \/ ReaderStep(a)
<1>1. CASE ServeCached(a)
  BY <1>1, AnswerStep DEF ServeCached
<1>2. CASE LookUp(a)
  BY <1>2, ServerAssumption DEF LookUp, ReaderStep
<1>3. CASE ServeRead(a)
  BY <1>3, AnswerStep DEF ServeRead, ReaderStep
<1>4. CASE ServeRequest(a)
  BY <1>4 DEF ServeRequest, Stage
<1>5. CASE ActorEnds(a)
  BY <1>5 DEF ActorEnds, EndFill, ReaderStep
<1> QED
  BY <1>1, <1>2, <1>3, <1>4, <1>5 DEF Serve

\* A step of the server is a step of each part, or leaves it alone.
LEMMA PartsStep ==
    ASSUME [ServerNext]_serverVars
    PROVE  [LifecycleNext]_lifecycleVars /\ [GroupsNext]_groupsVars
<1>1. CASE (Progress \/ Ambient) /\ UNCHANGED <<groupsVars, renewed>>
  BY <1>1 DEF Progress, Ambient, LifecycleNext, HubStep
<1>2. CASE HubForget
  BY <1>2 DEF HubForget, LifecycleNext, HubStep
<1>3. ASSUME NEW a \in Actor, Serve(a) \/ ActorEnds(a)
      PROVE  [LifecycleNext]_lifecycleVars /\ [GroupsNext]_groupsVars
  BY <1>3, ServeStep, ServerAssumption DEF LifecycleNext, GroupsNext
<1>4. CASE Membership /\ UNCHANGED <<lifecycleVars, renewed>>
  BY <1>4 DEF Membership, GroupsNext
<1>5. ASSUME NEW c \in Col, NEW p \in Perm, Renew(c, p)
      PROVE  [LifecycleNext]_lifecycleVars /\ [GroupsNext]_groupsVars
  BY <1>5 DEF Renew, LifecycleNext
<1>6. CASE UNCHANGED serverVars
  BY <1>6 DEF serverVars
<1> QED
  BY <1>1, <1>2, <1>3, <1>4, <1>5, <1>6 DEF ServerNext

\* The server implements the specifications of its parts: neither does anything
\* because of the other that it might not do alone.
THEOREM ServerImplementsParts == ServerSpec => LifecycleSpec /\ GroupsSpec
<1>1. ServerInit => LifecycleInit /\ GroupsInit
  BY DEF ServerInit
<1>2. [ServerNext]_serverVars => [LifecycleNext]_lifecycleVars /\ [GroupsNext]_groupsVars
  BY PartsStep
<1> QED
  BY <1>1, <1>2, PTL DEF ServerSpec, LifecycleSpec, GroupsSpec

-----------------------------------------------------------------------------
(* What a verdict is reached from *)

\* A reading is of the groups of the user whose message is being handled.
FillsMatch ==
    \A a \in Actor : fill[a] # NoFill =>
        busy[a] \in Session /\ fill[a].user = UserOf(busy[a])

\* An actor has the permissions of the day, if they were not renewed under it; so
\* does the hub when it is about to start one.
PermsCurrent ==
    /\ \A a \in Actor : Alive(a) /\ home[a] \notin renewed => perms[a] = row[home[a]]
    /\ hub.step = "found" /\ ColOf(hub.for) \notin renewed => hub.perms = row[ColOf(hub.for)]

ServerInv ==
    /\ LifecycleInv /\ FreshInv
    /\ renewed \subseteq Col
    /\ FillsMatch /\ PermsCurrent

LEMMA ServerInvInit == ServerInit => ServerInv
<1> SUFFICES ASSUME ServerInit
             PROVE  ServerInv
  OBVIOUS
<1>1. LifecycleInv /\ FreshInv /\ renewed \subseteq Col
  BY LifecycleInvInit, FreshInit DEF ServerInit
<1>2. FillsMatch /\ PermsCurrent
  BY ServerAssumption DEF ServerInit, LifecycleInit, GroupsInit, FillsMatch, PermsCurrent,
                          Alive, HubIdle
<1> QED
  BY <1>1, <1>2 DEF ServerInv

\* An actor reads for the session it is busy with, and stores or drops what it
\* read when it is done with it.
LEMMA FillsMatchStep ==
    ASSUME ServerInv, [ServerNext]_serverVars
    PROVE  FillsMatch'
<1> USE DEF ServerInv
<1>0. /\ Reader = Actor /\ fill \in [Actor -> Fill \cup {NoFill}]
      /\ busy \in [Actor -> Caller \cup {Nobody}]
      /\ \A s \in Session : s # Nobody /\ s \notin Request /\ UserOf(s) \in User
  BY ServerAssumption, LifecycleAssumption
     DEF LifecycleInv, LifecycleTypeOK, FreshInv, GroupsTypeOK
<1>1. ASSUME UNCHANGED <<fill, busy>>
      PROVE  FillsMatch'
  BY <1>1 DEF FillsMatch
<1>2. ASSUME NEW a \in Actor, NEW f, fill' = [fill EXCEPT ![a] = f],
             \A b \in Actor \ {a} : busy'[b] = busy[b],
             f = NoFill \/ (busy'[a] \in Session /\ f.user = UserOf(busy'[a]))
      PROVE  FillsMatch'
  BY <1>0, <1>2 DEF FillsMatch
<1>3. ASSUME NEW a \in Actor, UNCHANGED fill, fill[a] = NoFill,
             \A b \in Actor \ {a} : busy'[b] = busy[b]
      PROVE  FillsMatch'
  BY <1>3 DEF FillsMatch
<1>4. CASE (Progress \/ Ambient) /\ UNCHANGED <<groupsVars, renewed>>
  <2>1. ASSUME NEW a \in Actor, Accept(a)
        PROVE  FillsMatch'
    BY <1>0, <1>3, <1>4, <2>1 DEF Accept, NextMessage, FillsMatch, groupsVars
  <2>2. CASE UNCHANGED busy
    BY <1>1, <1>4, <2>2 DEF groupsVars
  <2>3. UNCHANGED busy \/ \E a \in Actor : Accept(a)
    BY <1>4 DEF Progress, Ambient, Handle, HubRead, HubAttach, HubSubscribe, SessionStep,
                SessionSync, SessionExit, RequestSend, Ask, SessionSend, Leave, CreateCollection,
                HandleSubscribe, HandleUnsubscribe, actorVars
  <2> QED
    BY <2>1, <2>2, <2>3
<1>5. CASE HubForget
  BY <1>1, <1>5 DEF HubForget, HubExit, groupsVars
<1>6. ASSUME NEW a \in Actor, ServeCached(a) \/ ServeRequest(a)
      PROVE  FillsMatch'
  <2>1. UNCHANGED fill /\ busy' = [busy EXCEPT ![a] = Nobody]
    BY <1>6 DEF ServeCached, ServeRequest, Reply, Answer, groupsVars
  <2>2. fill[a] = NoFill
    BY <1>0, <1>6 DEF ServeCached, ServeRequest, FillsMatch
  <2> QED
    BY <1>0, <1>3, <2>1, <2>2
<1>7. ASSUME NEW a \in Actor, LookUp(a)
      PROVE  FillsMatch'
  <2> DEFINE f == [user |-> UserOf(busy[a]), groups |-> GroupsOf(UserOf(busy[a]))]
  <2>1. fill' = [fill EXCEPT ![a] = f] /\ UNCHANGED busy /\ busy[a] \in Session
    BY <1>7 DEF LookUp, FillRead, lifecycleVars, actorVars
  <2>2. f.user = UserOf(busy[a])
    OBVIOUS
  <2> HIDE DEF f
  <2> QED
    BY <1>2, <2>1, <2>2
<1>8. ASSUME NEW a \in Actor, ServeRead(a)
      PROVE  FillsMatch'
  <2>1. fill' = [fill EXCEPT ![a] = NoFill] /\ busy' = [busy EXCEPT ![a] = Nobody]
    BY <1>8 DEF ServeRead, FillPut, Reply, Answer
  <2> QED
    BY <1>0, <1>2, <2>1
<1>9. ASSUME NEW a \in Actor, ActorEnds(a)
      PROVE  FillsMatch'
  <2>1. busy' = [busy EXCEPT ![a] = Nobody]
    BY <1>9 DEF ActorEnds, Stop, Panic, Drop
  <2>2. CASE fill[a] = NoFill
    BY <1>0, <1>3, <1>9, <2>1, <2>2 DEF ActorEnds, EndFill, groupsVars
  <2>3. CASE fill[a] # NoFill
    BY <1>0, <1>2, <1>9, <2>1, <2>3 DEF ActorEnds, EndFill, FillDrop
  <2> QED
    BY <2>2, <2>3
<1>10. CASE Membership /\ UNCHANGED <<lifecycleVars, renewed>>
  <2>1. UNCHANGED fill
    BY <1>10 DEF Membership, Begin, Proceed, AddCheck, RemoveRows, RemoveAllRows, DeleteMembers,
                 AddInsert, Invalidate, DropGroup, CreateGroup
  <2> QED
    BY <1>1, <1>10, <2>1 DEF lifecycleVars, actorVars
<1>11. ASSUME NEW c \in Col, NEW p \in Perm, Renew(c, p)
       PROVE  FillsMatch'
  BY <1>1, <1>11 DEF Renew, UpdateCollectionPermissions, actorVars, groupsVars
<1>12. CASE UNCHANGED serverVars
  BY <1>1, <1>12 DEF serverVars, groupsVars, lifecycleVars, actorVars
<1> QED
  BY <1>4, <1>5, <1>6, <1>7, <1>8, <1>9, <1>10, <1>11, <1>12 DEF ServerNext, Serve

LEMMA PermsCurrentStep ==
    ASSUME ServerInv, [ServerNext]_serverVars
    PROVE  PermsCurrent'
<1> USE DEF ServerInv
<1>0. /\ \A a \in Actor : Alive(a) => home[a] \in Col /\ row[home[a]] # Nobody
      /\ hub.step = "found" => /\ hub.for \in Caller /\ ColOf(hub.for) \in Col
                               /\ row[ColOf(hub.for)] # Nobody
  BY HubTypes, NobodyElse DEF LifecycleInv, Housed, HubHonest, Alive
<1>1. ASSUME UNCHANGED <<row, home, perms, hub, renewed>>,
             \A a \in Actor : Alive(a)' => Alive(a)
      PROVE  PermsCurrent'
  BY <1>1 DEF PermsCurrent
<1>2. ASSUME NEW c \in Col, NEW p \in Perm, row' = [row EXCEPT ![c] = p],
             UNCHANGED <<life, home, perms, hub>>, renewed \subseteq renewed',
             c \in renewed' \/ /\ \A a \in Actor : Alive(a) => home[a] # c
                               /\ ~(hub.step = "found" /\ ColOf(hub.for) = c)
      PROVE  PermsCurrent'
  <2>1. \A d \in Col \ {c} : row'[d] = row[d]
    BY <1>2 DEF LifecycleInv, LifecycleTypeOK
  <2>2. ASSUME NEW a \in Actor, Alive(a), home[a] \notin renewed'
        PROVE  perms[a] = row'[home[a]]
    BY <1>0, <1>2, <2>1, <2>2 DEF PermsCurrent
  <2>3. hub.step = "found" /\ ColOf(hub.for) \notin renewed' => hub.perms = row'[ColOf(hub.for)]
    BY <1>0, <1>2, <2>1 DEF PermsCurrent
  <2> QED
    BY <1>2, <2>2, <2>3 DEF PermsCurrent, Alive
<1>3. CASE Progress /\ UNCHANGED <<groupsVars, renewed>>
  <2>1. ASSUME NEW x \in Caller, HubRead(x)
        PROVE  PermsCurrent'
    BY <1>3, <2>1 DEF HubRead, PermsCurrent, Alive, actorVars
  <2>2. CASE HubAttach
    <3> DEFINE c == ColOf(hub.for)
    <3>1. PICK a \in Actor : \/ registry[c] = a /\ UNCHANGED <<life, home, perms, registry>>
                             \/ registry[c] = Nobody /\ Spawn(a, c, hub.perms)
      BY <2>2 DEF HubAttach
    <3>2. hub'.step # "found" /\ UNCHANGED row /\ hub.step = "found"
      BY <2>2 DEF HubAttach, HubIdle
    <3>3. ASSUME NEW b \in Actor, Alive(b)', home'[b] \notin renewed
          PROVE  perms'[b] = row[home'[b]]
      <4>1. CASE b = a /\ Spawn(a, c, hub.perms)
        <5>1. perms'[b] = hub.perms /\ home'[b] = c
          BY <4>1 DEF Spawn, LifecycleInv, LifecycleTypeOK
        <5> QED
          BY <3>2, <3>3, <5>1 DEF PermsCurrent
      <4>2. CASE ~(b = a /\ Spawn(a, c, hub.perms))
        <5>1. Alive(b) /\ perms'[b] = perms[b] /\ home'[b] = home[b]
          BY <3>1, <3>3, <4>2 DEF Spawn, Alive, LifecycleInv, LifecycleTypeOK
        <5> QED
          BY <3>3, <5>1 DEF PermsCurrent
      <4> QED
        BY <4>1, <4>2
    <3> QED
      BY <1>3, <3>2, <3>3 DEF PermsCurrent
  <2>3. CASE HubSubscribe
    BY <1>3, <2>3 DEF HubSubscribe, HubIdle, PermsCurrent, Alive
  <2>4. ASSUME NEW s \in Session, SessionStep(s)
        PROVE  PermsCurrent'
    BY <1>1, <1>3, <2>4 DEF SessionStep, SessionSync, SessionExit, Alive
  <2>5. ASSUME NEW q \in Request, RequestSend(q)
        PROVE  PermsCurrent'
    BY <1>1, <1>3, <2>5 DEF RequestSend, Alive
  <2>6. ASSUME NEW a \in Actor, Handle(a)
        PROVE  PermsCurrent'
    <3>1. UNCHANGED <<row, home, perms, hub>>
      BY <2>6 DEF Handle, HandleSubscribe, HandleUnsubscribe, Accept, NextMessage
    <3>2. \A b \in Actor : Alive(b)' => Alive(b)
      BY <2>6 DEF Handle, HandleSubscribe, HandleUnsubscribe, Accept, NextMessage, Alive,
                  LifecycleInv, LifecycleTypeOK
    <3> QED
      BY <1>1, <1>3, <3>1, <3>2
  <2> QED
    BY <1>3, <2>1, <2>2, <2>3, <2>4, <2>5, <2>6 DEF Progress
<1>4. CASE Ambient /\ UNCHANGED <<groupsVars, renewed>>
  <2>1. ASSUME NEW c \in Col, NEW p \in Perm, CreateCollection(c, p)
        PROVE  PermsCurrent'
    BY <1>0, <1>2, <1>4, <2>1 DEF CreateCollection, actorVars
  <2>2. ASSUME NEW x \in Caller, Ask(x) \/ (x \in Session /\ (SessionSend(x) \/ Leave(x)))
        PROVE  PermsCurrent'
    BY <1>1, <1>4, <2>2 DEF Ask, SessionSend, Leave, actorVars, Alive
  <2> QED
    BY <1>4, <2>1, <2>2 DEF Ambient, Caller
<1>5. CASE HubForget
  <2> DEFINE c == Head(exits)
  <2>1. c \in Col /\ exits # <<>> /\ 1 \in DOMAIN exits /\ exits[1] = c
    BY <1>5, TailOf DEF HubForget, HubExit, LifecycleInv, LifecycleTypeOK
  <2>2. life[registry[c]] = "ended"
    BY <2>1 DEF LifecycleInv, ReportsMatch, Reported
  <2>3. \A a \in Actor : Alive(a) => home[a] # c
    BY <2>2 DEF LifecycleInv, OneActor, Alive
  <2>4. /\ renewed' = renewed \ {c} /\ hub.step # "found"
        /\ UNCHANGED <<row, life, home, perms, hub>>
    BY <1>5 DEF HubForget, HubExit, HubIdle
  <2> HIDE DEF c
  <2> QED
    BY <2>3, <2>4 DEF PermsCurrent, Alive
<1>6. ASSUME NEW a \in Actor, Serve(a) \/ ActorEnds(a)
      PROVE  PermsCurrent'
  <2>1. UNCHANGED renewed
    BY <1>6 DEF Serve, ServeCached, LookUp, ServeRead, ServeRequest, ActorEnds
  <2>2. /\ UNCHANGED <<row, home, perms, hub>>
        /\ \A b \in Actor : Alive(b)' => Alive(b)
    <3>1. CASE UNCHANGED lifecycleVars
      BY <3>1 DEF lifecycleVars, actorVars, Alive
    <3>2. CASE Stop(a) \/ Panic(a)
      BY <3>2 DEF Stop, Panic, Alive, LifecycleInv, LifecycleTypeOK
    <3>3. ASSUME NEW st \in Stage, Answer(a, st)
          PROVE  /\ UNCHANGED <<row, home, perms, hub>>
                 /\ \A b \in Actor : Alive(b)' => Alive(b)
      BY <3>3 DEF Answer, Alive
    <3> QED
      BY <1>6, <3>1, <3>2, <3>3, ServeStep
  <2> QED
    BY <1>1, <2>1, <2>2
<1>7. CASE Membership /\ UNCHANGED <<lifecycleVars, renewed>>
  BY <1>1, <1>7 DEF lifecycleVars, actorVars, Alive
<1>8. ASSUME NEW c \in Col, NEW p \in Perm, Renew(c, p)
      PROVE  PermsCurrent'
  <2>1. ~Holding(c) => /\ \A a \in Actor : Alive(a) => home[a] # c
                       /\ ~(hub.step = "found" /\ ColOf(hub.for) = c)
    BY NobodyElse DEF Holding, LifecycleInv, OneActor
  <2>2. /\ row' = [row EXCEPT ![c] = p] /\ UNCHANGED <<life, home, perms, hub>>
        /\ renewed' = IF Holding(c) THEN renewed \cup {c} ELSE renewed
    BY <1>8 DEF Renew, UpdateCollectionPermissions, actorVars
  <2> QED
    BY <1>2, <2>1, <2>2
<1>9. CASE UNCHANGED serverVars
  BY <1>1, <1>9 DEF serverVars, lifecycleVars, actorVars, Alive
<1> QED
  BY <1>3, <1>4, <1>5, <1>6, <1>7, <1>8, <1>9 DEF ServerNext

LEMMA RenewedStep ==
    ASSUME ServerInv, [ServerNext]_serverVars
    PROVE  (renewed \subseteq Col)'
BY DEF ServerInv, ServerNext, HubForget, Serve, ServeCached, LookUp, ServeRead, ServeRequest,
       ActorEnds, Renew, serverVars

LEMMA ServerInvStep == ServerInv /\ [ServerNext]_serverVars => ServerInv'
<1> SUFFICES ASSUME ServerInv, [ServerNext]_serverVars
             PROVE  ServerInv'
  OBVIOUS
<1>1. LifecycleInv' /\ FreshInv'
  BY PartsStep, LifecycleInvStep, FreshStep DEF ServerInv
<1> QED
  BY <1>1, RenewedStep, FillsMatchStep, PermsCurrentStep DEF ServerInv

LEMMA ServerAlways == ServerSpec => []ServerInv
BY ServerInvInit, ServerInvStep, PTL DEF ServerSpec

-----------------------------------------------------------------------------
(* The verdict *)

\* The groups a verdict is reached from are those of the database, and so are the
\* permissions, wherever they come from.
LEMMA VerdictOfAnswer ==
    ASSUME ServerInv, NEW a \in Actor, NEW s \in Session, busy[a] = s, NEW gs, Reply(a, gs),
           ColOf(s) \notin renewed, gs = GroupsOf(UserOf(s))
    PROVE  RightVerdict(s)
<1>1. PICK st \in Verdicts(s, perms[a], gs) : Answer(a, st)
  BY DEF Reply
<1>2. Alive(a) /\ s \in Caller /\ stage' = [stage EXCEPT ![s] = st]
  BY <1>1 DEF Answer, Becomes, Caller
<1>3. stage'[s] = st
  BY <1>2 DEF ServerInv, LifecycleInv, LifecycleTypeOK
<1>4. attached[s] = a
  BY <1>2 DEF ServerInv, LifecycleInv, OwedWait, Owes
<1>5. home[a] = ColOf(s)
  BY <1>2, <1>4, NobodyElse DEF ServerInv, LifecycleInv, Attaching
<1>6. perms[a] = row[ColOf(s)]
  BY <1>2, <1>5 DEF ServerInv, PermsCurrent
<1>7. CASE stage[s] = "syncing"
  BY <1>1, <1>3, <1>6, <1>7 DEF Verdicts, RightVerdict, MayRead
<1> QED
  BY <1>7 DEF RightVerdict

\* Only an answer of its actor gets a session out of its sync with a verdict.
LEMMA VerdictElsewhere ==
    ASSUME ServerInv, NEW s \in Session, [ServerNext]_serverVars,
           ~\E a \in Actor : busy[a] = s /\ (ServeCached(a) \/ ServeRead(a))
    PROVE  stage[s] # "syncing" \/ stage'[s] \notin {"ready", "forbidden"}
<1> USE DEF ServerInv, LifecycleInv
<1>0. s \in Caller /\ s \notin Request
  BY LifecycleAssumption DEF Caller
<1>1. CASE stage'[s] = stage[s]
  BY <1>1
<1>2. ASSUME NEW x \in Caller, NEW st, Becomes(x, st), x # s \/ stage[x] # "syncing"
      PROVE  stage[s] # "syncing" \/ stage'[s] \notin {"ready", "forbidden"}
  BY <1>0, <1>2 DEF Becomes, LifecycleTypeOK
<1>3. CASE (Progress \/ Ambient) /\ UNCHANGED <<groupsVars, renewed>>
  <2>1. CASE HubAttach
    <3>1. hub.for \in Caller /\ stage[hub.for] = "found" /\ Becomes(hub.for, "joined")
      BY <2>1, HubTypes DEF HubAttach, HubHonest
    <3> QED
      BY <1>2, <3>1
  <2>2. ASSUME NEW x \in Caller, HubRead(x)
        PROVE  stage[s] # "syncing" \/ stage'[s] \notin {"ready", "forbidden"}
    BY <1>2, <2>2 DEF HubRead
  <2>3. ASSUME NEW x \in Caller, \/ Ask(x) \/ RequestSend(x)
                                 \/ SessionStep(x) \/ SessionSend(x)
        PROVE  stage[s] # "syncing" \/ stage'[s] \notin {"ready", "forbidden"}
    BY <1>2, <2>3 DEF Ask, RequestSend, SessionStep, SessionSync, SessionExit, SessionSend
  <2>4. CASE UNCHANGED stage
    BY <1>1, <2>4
  <2>5. ASSUME NEW x \in Session, Leave(x)
        PROVE  UNCHANGED stage
    BY <2>5 DEF Leave
  <2>6. HubSubscribe => UNCHANGED stage
    BY DEF HubSubscribe, callerVars
  <2>7. ASSUME NEW a \in Actor, Handle(a)
        PROVE  UNCHANGED stage
    BY <2>7 DEF Handle, HandleSubscribe, HandleUnsubscribe, Accept, NextMessage, callerVars
  <2>8. ASSUME NEW c \in Col, NEW p \in Perm, CreateCollection(c, p)
        PROVE  UNCHANGED stage
    BY <2>8 DEF CreateCollection, callerVars
  <2> QED
    BY <1>3, <2>1, <2>2, <2>3, <2>4, <2>5, <2>6, <2>7, <2>8 DEF Progress, Ambient, Caller
<1>4. ASSUME NEW a \in Actor, ServeCached(a) \/ ServeRead(a) \/ ServeRequest(a)
      PROVE  stage[s] # "syncing" \/ stage'[s] \notin {"ready", "forbidden"}
  <2>1. busy[a] # s /\ busy[a] \in Caller
    BY <1>0, <1>4 DEF ServeRequest, ServeCached, ServeRead, Caller
  <2>2. PICK st : Becomes(busy[a], st)
    BY <1>4 DEF ServeRequest, ServeCached, ServeRead, Reply, Answer
  <2> QED
    BY <1>2, <2>1, <2>2
<1>5. ASSUME NEW a \in Actor, ActorEnds(a)
      PROVE  stage[s] # "syncing" \/ stage'[s] \notin {"ready", "forbidden"}
  BY <1>0, <1>5 DEF ActorEnds, Stop, Panic, Drop
<1>6. CASE \/ HubForget
           \/ Membership /\ UNCHANGED <<lifecycleVars, renewed>>
           \/ UNCHANGED serverVars
  BY <1>1, <1>6 DEF HubForget, HubExit, serverVars, lifecycleVars, callerVars
<1>7. ASSUME NEW c \in Col, NEW p \in Perm, Renew(c, p)
      PROVE  UNCHANGED stage
  BY <1>7 DEF Renew, UpdateCollectionPermissions, callerVars
<1>8. ASSUME NEW a \in Actor, LookUp(a)
      PROVE  UNCHANGED stage
  BY <1>8 DEF LookUp, lifecycleVars, callerVars
<1> QED
  BY <1>1, <1>3, <1>4, <1>5, <1>6, <1>7, <1>8 DEF ServerNext, Serve

LEMMA VerdictStep ==
    ASSUME ServerInv, [ServerNext]_serverVars
    PROVE  \A s \in Session : RightVerdict(s)
<1> SUFFICES ASSUME NEW s \in Session, UserOf(s) \notin doubtful, ~Invalidating(UserOf(s)),
                    ColOf(s) \notin renewed
             PROVE  RightVerdict(s)
  BY DEF RightVerdict
<1>0. UserOf(s) \in User /\ Reader = Actor
  BY ServerAssumption
<1>1. ASSUME NEW a \in Actor, busy[a] = s, ServeCached(a)
      PROVE  RightVerdict(s)
  <2>1. cache[UserOf(s)] = GroupsOf(UserOf(s))
    BY <1>0, <1>1 DEF ServeCached, ServerInv, FreshInv, CacheFresh
  <2> QED
    BY <1>1, <2>1, VerdictOfAnswer DEF ServeCached
<1>2. ASSUME NEW a \in Actor, busy[a] = s, ServeRead(a)
      PROVE  RightVerdict(s)
  <2>1. fill[a] # NoFill
    BY <1>2 DEF ServeRead, FillPut
  <2>2. fill[a].user = UserOf(s)
    BY <1>2, <2>1 DEF ServerInv, FillsMatch
  <2>3. fill[a].groups = GroupsOf(UserOf(s))
    BY <1>0, <2>1, <2>2 DEF ServerInv, FreshInv, FillsFresh
  <2> QED
    BY <1>2, <2>3, VerdictOfAnswer DEF ServeRead
<1>3. CASE ~\E a \in Actor : busy[a] = s /\ (ServeCached(a) \/ ServeRead(a))
  BY <1>3, VerdictElsewhere DEF RightVerdict
<1> QED
  BY <1>1, <1>2, <1>3

-----------------------------------------------------------------------------
(* Theorems *)

\* The server's state has its type: the hub, the actors, the callers and the cache of
\* groups together (sinkron/src/actors, sinkron/src/groups.rs).
THEOREM ServerTypeCorrect == ServerSpec => []ServerTypeOK
<1>1. ServerInv => ServerTypeOK
  BY DEF ServerInv, LifecycleInv, FreshInv, ServerTypeOK
<1> QED
  BY <1>1, ServerAlways, PTL

\* At work on the permissions of its users the server still has one actor for a
\* collection and an honest registry, and a cache that is fresh (check_col_permission of
\* sinkron/src/actors/collection.rs asks groups.rs while messages queue).
THEOREM ServerKeepsParts == ServerSpec => [](OneActor /\ RegistryHonest /\ CacheFresh)
<1>1. ServerInv => OneActor /\ RegistryHonest /\ CacheFresh
  BY ReportsHonest DEF ServerInv, LifecycleInv, FreshInv
<1> QED
  BY <1>1, ServerAlways, PTL

\* The verdict on a sync is what the database says, whether the user's groups come
\* from the cache or from a reading of a while ago (handle_sync in
\* sinkron/src/actors/collection.rs).
THEOREM VerdictsRight == ServerSpec => VerdictRight
<1>1. ServerInv /\ [ServerNext]_serverVars => [\A s \in Session : RightVerdict(s)]_serverVars
  BY VerdictStep
<1> QED
  BY <1>1, ServerAlways, PTL DEF ServerSpec, VerdictRight
-----------------------------------------------------------------------------
(* Who is attended, while nobody comes as another goes *)

\* A message that s sent to actor a is still in its channel.
Posted(a, kind, s) ==
    \E i \in DOMAIN queue[a] : queue[a][i] = [kind |-> kind, from |-> s]

Enlisting == {"subscribe", "unsubscribe"}

\* A session is subscribed by, and writes to, only the actor it got; it unsubscribes
\* when it is gone, and gets an actor once.
Places ==
    /\ \A a \in Actor, s \in Session :
          /\ s \in subs[a] => attached[s] = a
          /\ \A k \in Enlisting : Posted(a, k, s) => attached[s] = a
          /\ Posted(a, "unsubscribe", s) => stage[s] = "gone" /\ s \in leaving
    /\ \A x \in Caller : stage[x] \in {"new", "asking", "found"} => attached[x] = Nobody

Present == {"joined", "syncing", "ready", "waiting", "forbidden", "refused"}

Here(s) == stage[s] \in Present /\ s \notin leaving

\* Nobody's Subscribe outlives the session.
StillThere == \A s \in Session : Subscribing(s) => stage[s] # "gone"

\* A session that is there, also before it is told that it is synced, has an actor that
\* runs, and is subscribed or about to be.
HereAttended ==
    \A s \in Session : Here(s) =>
        life[attached[s]] = "running" /\ (s \in subs[attached[s]] \/ Subscribing(s))

PanicKnown == \A a \in Actor : life[a] = "panicked" => panicked

\* Nobody comes while another goes; then nobody unsubscribes before being subscribed,
\* and no actor is handed out that is about to stop.
ApartInv ==
    /\ PanicKnown
    /\ ~crossed => /\ ~(Coming /\ Going)
                   /\ Places /\ StillThere /\ NoGhosts
                   /\ ~panicked => HereAttended

\* What a `send` adds.
LEMMA PostedSent ==
    ASSUME LifecycleInv, NEW b \in Actor, NEW x \in Caller,
           NEW kind \in {"sync", "change", "subscribe", "unsubscribe"}, Send(b, kind, x)
    PROVE  \A a \in Actor, s \in Session, k \in Enlisting :
              Posted(a, k, s)' <=> \/ Posted(a, k, s)
                                   \/ a = b /\ Alive(b) /\ k = kind /\ s = x
<1>1. PICK m : m = [kind |-> kind, from |-> x]
  OBVIOUS
<1>2. m \in Message /\ m.kind = kind /\ m.from = x /\ queue[b] \in Seq(Message)
  BY <1>1 DEF Message, LifecycleInv, LifecycleTypeOK
<1>3. /\ \A a \in Actor \ {b} : queue'[a] = queue[a]
      /\ Alive(b) => queue'[b] = Append(queue[b], m)
      /\ ~Alive(b) => queue' = queue
  BY <1>1, SendTypes DEF LifecycleInv
<1>4. CASE ~Alive(b)
  BY <1>3, <1>4 DEF Posted
<1>5. CASE Alive(b)
  <2>1. /\ \A i \in DOMAIN queue[b] : i \in DOMAIN queue'[b] /\ queue'[b][i] = queue[b][i]
        /\ Len(queue[b]) + 1 \in DOMAIN queue'[b] /\ queue'[b][Len(queue[b]) + 1] = m
        /\ \A i \in DOMAIN queue'[b] : i \in DOMAIN queue[b] \/ i = Len(queue[b]) + 1
    BY <1>2, <1>3, <1>5, AppendTo
  <2> TAKE a \in Actor, s \in Session, k \in Enlisting
  <2>2. PICK n : n = [kind |-> k, from |-> s]
    OBVIOUS
  <2>3. n = m <=> k = kind /\ s = x
    BY <1>1, <2>2
  <2>4. CASE a # b
    BY <1>3, <2>4 DEF Posted
  <2>5. CASE a = b
    <3>1. (\E i \in DOMAIN queue'[b] : queue'[b][i] = n)
             <=> (\E i \in DOMAIN queue[b] : queue[b][i] = n) \/ n = m
      BY <2>1
    <3> QED
      BY <1>5, <2>2, <2>3, <2>5, <3>1 DEF Posted
  <2> QED
    BY <2>4, <2>5
<1> QED
  BY <1>4, <1>5

\* What an actor takes from its channel.
LEMMA PostedTaken ==
    ASSUME LifecycleInv, NEW a \in Actor, NEW kind, NextMessage(a, kind)
    PROVE  LET x == Head(queue[a]).from IN
           /\ x \in Caller
           /\ kind \in Enlisting => x \in Session /\ Posted(a, kind, x)
           /\ \A b \in Actor, s \in Session, k \in Enlisting :
                 /\ Posted(b, k, s)' => Posted(b, k, s)
                 /\ Posted(b, k, s) => Posted(b, k, s)' \/ (b = a /\ k = kind /\ s = x)
<1>1. /\ queue[a] \in Seq(Message) /\ queue[a] # <<>>
      /\ queue'[a] = Tail(queue[a]) /\ Head(queue[a]) \in Message
      /\ Head(queue[a]).kind = kind /\ Head(queue[a]).from \in Caller
      /\ kind # "change" => Head(queue[a]).from \in Session
      /\ \A b \in Actor \ {a} : queue'[b] = queue[b]
  BY FirstTypes DEF LifecycleInv, LifecycleTypeOK
<1>2. PICK m : m = Head(queue[a])
  OBVIOUS
<1>3. /\ m = queue[a][1] /\ 1 \in DOMAIN queue[a]
      /\ \A i \in DOMAIN queue'[a] :
            i \in Nat \ {0} /\ i + 1 \in DOMAIN queue[a] /\ queue'[a][i] = queue[a][i + 1]
      /\ \A i \in DOMAIN queue[a] \ {1} :
            i \in Nat /\ i - 1 \in DOMAIN queue'[a] /\ queue'[a][i - 1] = queue[a][i]
  BY <1>1, <1>2, TailOf
<1>4. m = [kind |-> kind, from |-> m.from] /\ m.from \in Caller
  BY <1>1, <1>2 DEF Message
<1>5. kind \in Enlisting => m.from \in Session /\ Posted(a, kind, m.from)
  BY <1>1, <1>2, <1>3, <1>4 DEF Posted, Enlisting
<1>6. ASSUME NEW b \in Actor, NEW s \in Session, NEW k \in Enlisting
      PROVE  /\ Posted(b, k, s)' => Posted(b, k, s)
             /\ Posted(b, k, s) => Posted(b, k, s)' \/ (b = a /\ k = kind /\ s = m.from)
  <2>1. PICK n : n = [kind |-> k, from |-> s]
    OBVIOUS
  <2>2. n = m => k = kind /\ s = m.from
    BY <1>4, <2>1
  <2>3. CASE b # a
    BY <1>1, <2>3 DEF Posted
  <2>4. CASE b = a
    <3>1. /\ (\E i \in DOMAIN queue'[a] : queue'[a][i] = n)
                 => (\E i \in DOMAIN queue[a] : queue[a][i] = n)
          /\ (\E i \in DOMAIN queue[a] : queue[a][i] = n)
                 => (\E i \in DOMAIN queue'[a] : queue'[a][i] = n) \/ n = m
      BY <1>3
    <3> QED
      BY <2>1, <2>2, <2>4, <3>1 DEF Posted
  <2> QED
    BY <2>3, <2>4
<1> QED
  BY <1>2, <1>4, <1>5, <1>6

\* What is lost with an actor.
LEMMA PostedDropped ==
    ASSUME LifecycleInv, NEW a \in Actor, Drop(a)
    PROVE  \A b \in Actor, s \in Session, k \in Enlisting :
              Posted(b, k, s)' <=> b # a /\ Posted(b, k, s)
<1>1. queue'[a] = <<>> /\ \A b \in Actor \ {a} : queue'[b] = queue[b]
  BY DEF Drop, LifecycleInv, LifecycleTypeOK
<1>2. DOMAIN queue'[a] = {}
  BY <1>1
<1> QED
  BY <1>1, <1>2 DEF Posted

\* The views of a session, in terms of what is posted.
LEMMA SentPosted ==
    ASSUME NEW s \in Session
    PROVE  /\ \A k : Sent(k, s) <=> Posted(attached[s], k, s)
           /\ Subscribing(s) <=> \/ hub = [step |-> "subscribe", for |-> s]
                                 \/ attached[s] # Nobody /\ Posted(attached[s], "subscribe", s)
BY DEF Sent, Subscribing, Posted
\* The messages of subscribing and unsubscribing stay as they are.
MailSame ==
    \A a \in Actor, s \in Session, k \in Enlisting : Posted(a, k, s)' <=> Posted(a, k, s)

\* Nobody comes or goes: who changes stage has an actor and keeps it, or never had one.
Keeps ==
    /\ UNCHANGED <<subs, attached, life>> /\ MailSame
    /\ hub' = hub \/ (hub.step # "subscribe" /\ hub'.step # "subscribe")
    /\ leaving \subseteq leaving'
    /\ \A x \in Caller :
          \/ stage'[x] = stage[x]
          \/ /\ stage[x] # "gone"
             /\ \/ attached[x] = Nobody
                \/ stage[x] \in Present /\ stage'[x] \in Present \cup {"answered", "failed"}

\* What holds before a step, and what the step itself need not establish.
Before == /\ LifecycleInv /\ Places
          /\ ~(Coming /\ Going) /\ StillThere /\ NoGhosts

\* The same after it.
After ==
    /\ StillThere' /\ NoGhosts'
    /\ HereAttended => HereAttended'

LEMMA PlacesKeep ==
    ASSUME LifecycleInv, Places, Keeps
    PROVE  Places'
<1>1. ASSUME NEW s \in Session, stage[s] = "gone" PROVE stage'[s] = "gone"
  BY <1>1 DEF Keeps, Caller
<1>2. \A x \in Caller : stage'[x] \in {"new", "asking", "found"} => attached'[x] = Nobody
  BY DEF Keeps, Places, Present
<1>3. \A a \in Actor, s \in Session :
         /\ s \in subs'[a] => attached'[s] = a
         /\ \A k \in Enlisting : Posted(a, k, s)' => attached'[s] = a
         /\ Posted(a, "unsubscribe", s)' => stage'[s] = "gone" /\ s \in leaving'
  BY <1>1 DEF Keeps, Places, MailSame, Enlisting
<1> QED
  BY <1>2, <1>3 DEF Places

LEMMA AfterKeep ==
    ASSUME Before, LifecycleInv', Keeps
    PROVE  After
<1>1. \A s \in Session : s \in Caller
  BY DEF Caller
<1>2. \A s \in Session : attached[s] = Nobody \/ attached[s] \in Actor
  BY <1>1 DEF Before, LifecycleInv, LifecycleTypeOK
<1>3. \A s \in Session, k \in Enlisting : attached[s] # Nobody =>
         (Posted(attached[s], k, s)' <=> Posted(attached[s], k, s))
  BY <1>2 DEF Keeps, MailSame
<1>4. ASSUME NEW s \in Session PROVE Subscribing(s)' <=> Subscribing(s)
  <2>1. hub' = [step |-> "subscribe", for |-> s] <=> hub = [step |-> "subscribe", for |-> s]
    BY DEF Keeps
  <2>2. attached'[s] = attached[s]
    BY DEF Keeps
  <2> QED
    BY <1>3, <2>1, <2>2, SentPosted DEF Subscribing, Sent, Posted, Keeps, Enlisting
<1>5. \A s \in Session : Subscribing(s) => attached[s] # Nobody
  BY SentPosted DEF Before, LifecycleInv, HubHonest
<1>6. ASSUME NEW s \in Session, attached[s] # Nobody, stage'[s] = "gone" PROVE stage[s] = "gone"
  BY <1>1, <1>6 DEF Keeps, Present
<1>7. StillThere'
  BY <1>4, <1>5, <1>6 DEF Before, StillThere
<1>8. NoGhosts'
  <2> SUFFICES ASSUME NEW a \in Actor, NEW s \in subs'[a], stage'[s] = "gone"
               PROVE  Sent("unsubscribe", s)'
    BY DEF NoGhosts
  <2>1. s \in Session /\ s \in subs[a] /\ attached[s] = a /\ a # Nobody
    BY NobodyElse DEF Before, LifecycleInv, LifecycleTypeOK, Keeps, Places
  <2>2. Sent("unsubscribe", s)
    BY <1>6, <2>1 DEF Before, NoGhosts
  <2>3. attached'[s] = a /\ Posted(a, "unsubscribe", s)'
    BY <1>3, <2>1, <2>2, SentPosted DEF Keeps, Enlisting
  <2> QED
    BY <2>3 DEF Sent, Posted
<1>9. ASSUME HereAttended PROVE HereAttended'
  <2> SUFFICES ASSUME NEW s \in Session, Here(s)'
               PROVE  life'[attached'[s]] = "running"
                      /\ (s \in subs'[attached'[s]] \/ Subscribing(s)')
    BY DEF HereAttended
  <2>1. attached'[s] = attached[s] /\ attached[s] # Nobody
    BY <1>1 DEF Here, Present, LifecycleInv, Attaching, Keeps
  <2>2. Here(s)
    BY <1>1, <2>1 DEF Here, Keeps
  <2> QED
    BY <1>4, <1>9, <2>1, <2>2 DEF HereAttended, Keeps
<1> QED
  BY <1>7, <1>8, <1>9 DEF After
\* Most steps are such.
LEMMA KeepsCaller ==
    ASSUME LifecycleInv, Places, NEW x \in Caller,
           \/ Ask(x) \/ HubRead(x)
           \/ x \in Session /\ (SessionSync(x) \/ SessionSend(x) \/ Leave(x))
           \/ x \in Request /\ RequestSend(x)
    PROVE  Keeps
<1> USE DEF Present
<1>1. stage \in [Caller -> Stage] /\ attached \in [Caller -> Actor \cup {Nobody}]
  BY DEF LifecycleInv, LifecycleTypeOK
<1>2. UNCHANGED <<subs, attached, life>> /\ leaving \subseteq leaving'
  BY DEF Ask, HubRead, SessionSync, SessionSend, Leave, RequestSend, actorVars
<1>3. \A y \in Caller \ {x} : stage'[y] = stage[y]
  BY <1>1 DEF Ask, HubRead, SessionSync, SessionSend, Leave, RequestSend, Becomes
<1>4. \/ stage'[x] = stage[x]
      \/ stage[x] # "gone" /\ attached[x] = Nobody
      \/ stage[x] \in Present /\ stage'[x] \in Present \cup {"answered", "failed"}
  BY <1>1 DEF Ask, HubRead, SessionSync, SessionSend, Leave, RequestSend, Becomes, Places
<1>5. hub' = hub \/ (hub.step # "subscribe" /\ hub'.step # "subscribe")
  BY DEF Ask, HubRead, SessionSync, SessionSend, Leave, RequestSend, HubIdle
<1>6. MailSame
  <2>1. CASE UNCHANGED queue
    BY <2>1 DEF MailSame, Posted
  <2>2. CASE Send(attached[x], "sync", x) \/ Send(attached[x], "change", x)
    <3>1. CASE attached[x] \in Actor
      BY <2>2, <3>1, PostedSent DEF MailSame, Enlisting
    <3>2. CASE attached[x] = Nobody
      <4>1. stage[x] \in {"new", "asking", "found", "gone", "failed"}
        BY <3>2 DEF LifecycleInv, Attaching
      <4>2. UNCHANGED queue
        BY <4>1 DEF Ask, HubRead, SessionSync, SessionSend, Leave, RequestSend, actorVars
      <4> QED
        BY <2>1, <4>2
    <3> QED
      BY <1>1, <3>1, <3>2
  <2> QED
    BY <2>1, <2>2 DEF Ask, HubRead, SessionSync, SessionSend, Leave, RequestSend, actorVars
<1> QED
  BY <1>2, <1>3, <1>4, <1>5, <1>6 DEF Keeps

LEMMA KeepsActor ==
    ASSUME LifecycleInv, NEW a \in Actor, Accept(a) \/ \E st \in Stage : Answer(a, st)
    PROVE  Keeps
<1>1. stage \in [Caller -> Stage] /\ busy[a] \in Caller \cup {Nobody}
  BY DEF LifecycleInv, LifecycleTypeOK
<1>2. CASE Accept(a)
  <2>1. MailSame
    BY <1>2, PostedTaken DEF Accept, MailSame, Enlisting
  <2> QED
    BY <1>2, <2>1 DEF Accept, NextMessage, callerVars, Keeps
<1>3. ASSUME NEW st \in Stage, Answer(a, st) PROVE Keeps
  <2>1. busy[a] \in Caller /\ Waits(busy[a])
    BY <1>1, <1>3 DEF Answer, LifecycleInv, OwedWait, Owes
  <2>2. st \in Present \cup {"answered"}
    BY <1>3 DEF Answer, Answers, Present
  <2>3. \A y \in Caller : stage'[y] = IF y = busy[a] THEN st ELSE stage[y]
    BY <1>1, <1>3 DEF Answer, Becomes
  <2>4. MailSame
    BY <1>3 DEF Answer, MailSame, Posted
  <2> QED
    BY <1>3, <2>1, <2>2, <2>3, <2>4 DEF Answer, Keeps, Waits, Present
<1> QED
  BY <1>2, <1>3

LEMMA KeepsElse ==
    ASSUME \/ HubExit
           \/ \E c \in Col, p \in Perm : CreateCollection(c, p) \/ UpdateCollectionPermissions(c, p)
           \/ UNCHANGED lifecycleVars
    PROVE  Keeps
<1>1. UNCHANGED <<life, queue, subs, hub, stage, attached, leaving>>
  BY DEF HubExit, CreateCollection, UpdateCollectionPermissions, lifecycleVars, actorVars, callerVars
<1> QED
  BY <1>1 DEF Keeps, MailSame, Posted

\* A caller gets its actor, and a session is about to be subscribed.
LEMMA PlacesAttach ==
    ASSUME LifecycleInv, Places, HubAttach
    PROVE  /\ Places'
           /\ hub.for \in Caller /\ stage[hub.for] = "found" /\ attached[hub.for] = Nobody
           /\ stage'[hub.for] = "joined"
           /\ \A y \in Caller \ {hub.for} : attached'[y] = attached[y] /\ stage'[y] = stage[y]
           /\ MailSame
           /\ UNCHANGED <<subs, leaving>>
           /\ hub' = IF hub.for \in Session THEN [step |-> "subscribe", for |-> hub.for]
                                            ELSE HubIdle
<1>1. stage \in [Caller -> Stage] /\ attached \in [Caller -> Actor \cup {Nobody}]
      /\ subs \in [Actor -> SUBSET Session]
  BY DEF LifecycleInv, LifecycleTypeOK
<1>2. hub.for \in Caller /\ stage[hub.for] = "found" /\ attached[hub.for] = Nobody
  BY HubTypes DEF HubAttach, LifecycleInv, HubHonest, Places
<1>3. /\ stage'[hub.for] = "joined"
      /\ \A y \in Caller \ {hub.for} : attached'[y] = attached[y] /\ stage'[y] = stage[y]
  BY <1>1, <1>2 DEF HubAttach, Becomes
<1>4. UNCHANGED <<subs, leaving, queue>>
      /\ hub' = IF hub.for \in Session THEN [step |-> "subscribe", for |-> hub.for]
                                       ELSE HubIdle
  BY DEF HubAttach
<1>5. MailSame
  BY <1>4 DEF MailSame, Posted
<1>6. \A a \in Actor, s \in Session : s \in Caller /\ a # Nobody
  BY NobodyElse DEF Caller
<1>7. \A a \in Actor, s \in Session :
         /\ s \in subs'[a] => attached'[s] = a
         /\ \A k \in Enlisting : Posted(a, k, s)' => attached'[s] = a
         /\ Posted(a, "unsubscribe", s)' => stage'[s] = "gone" /\ s \in leaving'
  BY <1>2, <1>3, <1>4, <1>5, <1>6 DEF Places, Enlisting, MailSame
<1>8. \A y \in Caller : stage'[y] \in {"new", "asking", "found"} => attached'[y] = Nobody
  BY <1>3 DEF Places
<1> QED
  BY <1>2, <1>3, <1>4, <1>5, <1>7, <1>8 DEF Places

\* The actor that is handed out runs: nobody is going.
LEMMA AttachRuns ==
    ASSUME LifecycleInv, LifecycleInv', Places, HubAttach,
           ~(Coming /\ Going)', PanicKnown', ~panicked'
    PROVE  /\ attached'[hub.for] \in Actor /\ life'[attached'[hub.for]] = "running"
           /\ \A b \in Actor : life[b] = "running" => life'[b] = "running"
<1>1. hub.for \in Caller /\ stage'[hub.for] = "joined"
  BY PlacesAttach
<1>2. Coming'
  BY <1>1 DEF Coming
<1>3. /\ \A a \in Actor : life'[a] # "stopping" /\ life'[a] # "panicked"
      /\ exits' = <<>>
  BY <1>2 DEF Going, PanicKnown
<1>4. ColOf(hub.for) \in Col
  BY <1>1, NobodyElse
<1>5. PICK a \in Actor :
         /\ \/ registry[ColOf(hub.for)] = a /\ UNCHANGED <<life, home, perms, registry>>
            \/ registry[ColOf(hub.for)] = Nobody /\ Spawn(a, ColOf(hub.for), hub.perms)
         /\ attached' = [attached EXCEPT ![hub.for] = a]
  BY DEF HubAttach
<1>6. attached'[hub.for] = a
  BY <1>1, <1>5 DEF LifecycleInv, LifecycleTypeOK
<1>7. life \in [Actor -> {"unborn", "running", "stopping", "ended", "panicked"}]
      /\ life' \in [Actor -> {"unborn", "running", "stopping", "ended", "panicked"}]
  BY DEF LifecycleInv, LifecycleTypeOK
<1>8. CASE registry[ColOf(hub.for)] = a /\ UNCHANGED <<life, home, perms, registry>>
  <2>1. registry'[ColOf(hub.for)] = a /\ a # Nobody
    BY <1>8, NobodyElse
  <2>2. life'[a] # "unborn"
    BY <1>4, <2>1 DEF LifecycleInv, Registered
  <2>3. life'[a] # "ended"
    <3>1. PICK c : c = ColOf(hub.for)
      OBVIOUS
    <3>2. ~Reported(c)'
      BY <1>3 DEF Reported
    <3>3. ReportsMatch'
      BY DEF LifecycleInv
    <3>4. registry'[c] # Nobody /\ life'[registry'[c]] = "ended" => Reported(c)'
      BY <1>4, <3>1, <3>3 DEF ReportsMatch
    <3> QED
      BY <2>1, <3>1, <3>2, <3>4
  <2> QED
    BY <1>3, <1>6, <1>7, <1>8, <2>2, <2>3
<1>9. CASE Spawn(a, ColOf(hub.for), hub.perms)
  BY <1>6, <1>7, <1>9 DEF Spawn, Fresh
<1> QED
  BY <1>5, <1>8, <1>9

LEMMA AfterAttach ==
    ASSUME Before, LifecycleInv', HubAttach, ~(Coming /\ Going)', PanicKnown', ~panicked'
    PROVE  HereAttended => HereAttended'
<1>1. /\ hub.for \in Caller /\ attached[hub.for] = Nobody
      /\ \A y \in Caller \ {hub.for} : attached'[y] = attached[y] /\ stage'[y] = stage[y]
      /\ MailSame
      /\ UNCHANGED <<subs, leaving>>
      /\ hub' = IF hub.for \in Session THEN [step |-> "subscribe", for |-> hub.for]
                                       ELSE HubIdle
  BY PlacesAttach DEF Before
<1>2. /\ life'[attached'[hub.for]] = "running"
      /\ \A b \in Actor : life[b] = "running" => life'[b] = "running"
  BY AttachRuns DEF Before
<1> SUFFICES ASSUME HereAttended, NEW s \in Session, Here(s)'
             PROVE  life'[attached'[s]] = "running"
                    /\ (s \in subs'[attached'[s]] \/ Subscribing(s)')
  BY DEF HereAttended
<1>3. CASE s = hub.for
  <2>1. hub' = [step |-> "subscribe", for |-> s]
    BY <1>1, <1>3
  <2> QED
    BY <1>2, <1>3, <2>1 DEF Subscribing
<1>4. CASE s # hub.for
  <2>1. s \in Caller /\ attached'[s] = attached[s] /\ stage'[s] = stage[s]
    BY <1>1, <1>4 DEF Caller
  <2>2. Here(s)
    BY <1>1, <2>1 DEF Here
  <2>3. attached[s] # Nobody /\ attached[s] \in Actor
    BY <2>1, <2>2 DEF Here, Present, Before, LifecycleInv, LifecycleTypeOK, Attaching
  <2>4. hub # [step |-> "subscribe", for |-> s]
    BY DEF HubAttach
  <2>5. Subscribing(s) => Subscribing(s)'
    <3>1. PICK b : b = attached[s]
      OBVIOUS
    <3>2. Subscribing(s) => Posted(b, "subscribe", s)'
      BY <1>1, <2>3, <2>4, <3>1, SentPosted DEF MailSame, Enlisting
    <3> QED
      BY <2>1, <2>3, <3>1, <3>2 DEF Subscribing, Sent, Posted
  <2> QED
    BY <1>1, <1>2, <2>1, <2>2, <2>3, <2>5 DEF HereAttended
<1> QED
  BY <1>3, <1>4

LEMMA GhostsAttach ==
    ASSUME Before, HubAttach
    PROVE  StillThere' /\ NoGhosts'
<1>1. /\ hub.for \in Caller /\ attached[hub.for] = Nobody /\ stage'[hub.for] = "joined"
      /\ \A y \in Caller \ {hub.for} : attached'[y] = attached[y] /\ stage'[y] = stage[y]
      /\ MailSame
      /\ UNCHANGED <<subs, leaving>>
      /\ hub' = IF hub.for \in Session THEN [step |-> "subscribe", for |-> hub.for]
                                       ELSE HubIdle
  BY PlacesAttach DEF Before
<1>2. ASSUME NEW s \in Session, stage'[s] = "gone"
      PROVE  s \in Caller /\ s # hub.for /\ attached'[s] = attached[s] /\ stage[s] = "gone"
  BY <1>1, <1>2 DEF Caller
<1>3. \A s \in Session : attached[s] \in Actor \cup {Nobody}
  BY DEF Before, LifecycleInv, LifecycleTypeOK, Caller
<1>4. ASSUME NEW s \in Session, Subscribing(s)', stage'[s] = "gone" PROVE FALSE
  <2>1. hub' # [step |-> "subscribe", for |-> s]
    BY <1>1, <1>2, <1>4 DEF HubIdle
  <2>2. PICK b : b = attached[s]
    OBVIOUS
  <2>3. attached'[s] = b /\ b # Nobody /\ Posted(b, "subscribe", s)'
    BY <1>2, <1>4, <2>1, <2>2 DEF Subscribing, Sent, Posted
  <2>4. Posted(b, "subscribe", s)
    BY <1>1, <1>3, <2>2, <2>3 DEF MailSame, Enlisting
  <2> QED
    BY <1>2, <1>4, <2>2, <2>3, <2>4, SentPosted DEF Before, StillThere
<1>5. NoGhosts'
  <2> SUFFICES ASSUME NEW a \in Actor, NEW s \in subs'[a], stage'[s] = "gone"
               PROVE  Sent("unsubscribe", s)'
    BY DEF NoGhosts
  <2>1. s \in Session /\ s \in subs[a] /\ attached[s] = a
    BY <1>1 DEF Before, LifecycleInv, LifecycleTypeOK, Places
  <2>2. Posted(a, "unsubscribe", s)
    BY <1>2, <2>1, SentPosted DEF Before, NoGhosts
  <2>3. Posted(a, "unsubscribe", s)' /\ attached'[s] = a
    BY <1>1, <1>2, <2>1, <2>2 DEF MailSame, Enlisting
  <2> QED
    BY <2>3 DEF Sent, Posted
<1> QED
  BY <1>4, <1>5 DEF StillThere
\* The Subscribe that the hub owes is sent.
LEMMA SubscribeApart ==
    ASSUME Before, HubSubscribe
    PROVE  Places' /\ After
<1>1. PICK y : y = hub.for
  OBVIOUS
<1>2. PICK b : b = attached[y]
  OBVIOUS
<1>3. /\ y \in Session /\ b \in Actor /\ hub = [step |-> "subscribe", for |-> y]
      /\ Send(b, "subscribe", y) /\ hub'.step = "idle"
      /\ UNCHANGED <<life, subs, stage, attached, leaving>>
  <2>1. hub = [step |-> "subscribe", for |-> hub.for] /\ hub.for \in Session
    BY DEF HubSubscribe, Before, LifecycleInv, LifecycleTypeOK, HubIdle
  <2>2. attached[hub.for] \in Actor
    BY <2>1 DEF HubSubscribe, Before, LifecycleInv, LifecycleTypeOK, HubHonest, Caller
  <2> QED
    BY <1>1, <1>2, <2>1, <2>2 DEF HubSubscribe, callerVars, HubIdle
<1>4. \A a \in Actor, s \in Session, k \in Enlisting :
         Posted(a, k, s)' <=> \/ Posted(a, k, s)
                              \/ a = b /\ Alive(b) /\ k = "subscribe" /\ s = y
  BY <1>3, PostedSent DEF Before, Caller
<1>5. Places'
  BY <1>2, <1>3, <1>4 DEF Before, Places, Enlisting
<1>6. \A s \in Session : attached[s] # Nobody => attached[s] \in Actor
  BY DEF Before, LifecycleInv, LifecycleTypeOK, Caller
<1>7. ASSUME NEW s \in Session, Subscribing(s)' PROVE Subscribing(s)
  <2>1. PICK a : a = attached[s]
    OBVIOUS
  <2>2. a # Nobody /\ Posted(a, "subscribe", s)'
    BY <1>3, <1>7, <2>1 DEF Subscribing, Sent, Posted
  <2> QED
    BY <1>3, <1>4, <1>6, <2>1, <2>2, SentPosted DEF Enlisting
<1>8. StillThere'
  BY <1>3, <1>7 DEF Before, StillThere
<1>9. ASSUME NEW a \in Actor, NEW s \in Session, attached[s] = a, Sent("unsubscribe", s)
      PROVE  Sent("unsubscribe", s)'
  <2>1. Posted(a, "unsubscribe", s)'
    BY <1>4, <1>9, SentPosted DEF Enlisting
  <2> QED
    BY <1>3, <1>9, <2>1 DEF Sent, Posted
<1>10. NoGhosts'
  BY <1>3, <1>9 DEF Before, NoGhosts, Places, LifecycleInv, LifecycleTypeOK
<1>11. ASSUME HereAttended PROVE HereAttended'
  <2> SUFFICES ASSUME NEW s \in Session, Here(s)'
               PROVE  life'[attached'[s]] = "running"
                      /\ (s \in subs'[attached'[s]] \/ Subscribing(s)')
    BY DEF HereAttended
  <2>1. PICK a : a = attached[s]
    OBVIOUS
  <2>2. Here(s) /\ attached'[s] = a /\ a # Nobody /\ a \in Actor
    BY <1>3, <1>6, <2>1 DEF Here, Present, Before, LifecycleInv, Attaching, Caller
  <2>3. life[a] = "running" /\ (s \in subs[a] \/ Subscribing(s))
    BY <1>11, <2>1, <2>2 DEF HereAttended
  <2>4. Subscribing(s) => Posted(a, "subscribe", s)'
    <3>1. CASE s = y
      BY <1>2, <1>4, <2>1, <2>2, <2>3, <3>1 DEF Alive, Enlisting
    <3>2. CASE s # y
      BY <1>3, <1>4, <2>1, <2>2, <3>2, SentPosted DEF Enlisting
    <3> QED
      BY <3>1, <3>2
  <2>5. Posted(a, "subscribe", s)' => Subscribing(s)'
    BY <2>2 DEF Subscribing, Sent, Posted
  <2> QED
    BY <1>3, <2>2, <2>3, <2>4, <2>5
<1> QED
  BY <1>5, <1>8, <1>10, <1>11 DEF After

\* A session that ends unsubscribes; it is not about to be subscribed.
LEMMA ExitApart ==
    ASSUME Before, NEW x \in Session, SessionExit(x)
    PROVE  Places' /\ After
<1>1. PICK b : b = attached[x]
  OBVIOUS
<1>2. /\ x \in Caller /\ b \in Actor /\ x \in leaving /\ stage[x] # "gone"
      /\ Send(b, "unsubscribe", x)
      /\ UNCHANGED <<life, subs, hub, attached, leaving>>
      /\ stage'[x] = "gone" /\ \A y \in Caller \ {x} : stage'[y] = stage[y]
  BY <1>1 DEF SessionExit, Becomes, Before, LifecycleInv, LifecycleTypeOK, Attaching, Caller
<1>3. \A a \in Actor, s \in Session, k \in Enlisting :
         Posted(a, k, s)' <=> \/ Posted(a, k, s)
                              \/ a = b /\ Alive(b) /\ k = "unsubscribe" /\ s = x
  BY <1>2, PostedSent DEF Before
<1>4. Places'
  <2>1. \A s \in Session : stage[s] = "gone" => stage'[s] = "gone"
    BY <1>2 DEF Caller
  <2>2. \A y \in Caller : stage'[y] \in {"new", "asking", "found"} => attached'[y] = Nobody
    BY <1>2 DEF Before, Places
  <2>3. \A a \in Actor, s \in Session :
           /\ s \in subs'[a] => attached'[s] = a
           /\ \A k \in Enlisting : Posted(a, k, s)' => attached'[s] = a
           /\ Posted(a, "unsubscribe", s)' => stage'[s] = "gone" /\ s \in leaving'
    BY <1>1, <1>2, <1>3, <2>1 DEF Before, Places, Enlisting
  <2> QED
    BY <2>2, <2>3 DEF Places
<1>5. ~Subscribing(x)
  BY <1>2 DEF Before, Coming, Going
<1>6. \A s \in Session : attached[s] # Nobody => attached[s] \in Actor
  BY DEF Before, LifecycleInv, LifecycleTypeOK, Caller
<1>7. ASSUME NEW s \in Session PROVE Subscribing(s)' <=> Subscribing(s)
  <2>1. PICK a : a = attached[s]
    OBVIOUS
  <2>2. a # Nobody => (Posted(a, "subscribe", s)' <=> Posted(a, "subscribe", s))
    BY <1>3, <1>6, <2>1 DEF Enlisting
  <2>3. Subscribing(s)' <=> hub = [step |-> "subscribe", for |-> s]
                            \/ (a # Nobody /\ Posted(a, "subscribe", s)')
    BY <1>2, <2>1 DEF Subscribing, Sent, Posted
  <2> QED
    BY <2>1, <2>2, <2>3, SentPosted
<1>8. StillThere'
  BY <1>2, <1>5, <1>7 DEF Before, StillThere, Caller
<1>9. NoGhosts'
  <2> SUFFICES ASSUME NEW a \in Actor, NEW s \in subs'[a], stage'[s] = "gone"
               PROVE  Sent("unsubscribe", s)'
    BY DEF NoGhosts
  <2>1. s \in Session /\ s \in Caller /\ s \in subs[a] /\ attached[s] = a /\ Alive(a)
    BY <1>2 DEF Before, LifecycleInv, LifecycleTypeOK, Places, DeadIsEmpty, Caller
  <2>2. Posted(a, "unsubscribe", s)'
    <3>1. CASE s = x
      BY <1>1, <1>3, <2>1, <3>1 DEF Enlisting
    <3>2. CASE s # x
      <4>1. Posted(a, "unsubscribe", s)
        BY <1>2, <2>1, <3>2, SentPosted DEF Before, NoGhosts
      <4> QED
        BY <1>3, <2>1, <4>1 DEF Enlisting
    <3> QED
      BY <3>1, <3>2
  <2> QED
    BY <1>2, <2>1, <2>2 DEF Sent, Posted
<1>10. HereAttended => HereAttended'
  <2>1. \A s \in Session : Here(s)' => Here(s)
    BY <1>2 DEF Here, Present, Caller
  <2> QED
    BY <1>2, <1>7, <2>1 DEF HereAttended
<1> QED
  BY <1>4, <1>8, <1>9, <1>10 DEF After

\* The actor takes in a session that has not gone.
LEMMA HandleApart ==
    ASSUME Before, NEW a \in Actor, HandleSubscribe(a)
    PROVE  Places' /\ After
<1>1. PICK x : x = Head(queue[a]).from
  OBVIOUS
<1>2. /\ NextMessage(a, "subscribe")
      /\ UNCHANGED <<life, hub, stage, attached, leaving>>
  BY DEF HandleSubscribe, NextMessage, callerVars
<1>3. /\ x \in Session /\ Posted(a, "subscribe", x)
      /\ \A b \in Actor, s \in Session, k \in Enlisting :
            /\ Posted(b, k, s)' => Posted(b, k, s)
            /\ Posted(b, k, s) => Posted(b, k, s)' \/ (b = a /\ k = "subscribe" /\ s = x)
  BY <1>1, <1>2, PostedTaken DEF Before, Enlisting
<1>4. /\ subs'[a] = subs[a] \cup {x} /\ \A b \in Actor \ {a} : subs'[b] = subs[b]
      /\ \A b \in Actor : subs[b] \subseteq Session
  BY <1>1 DEF HandleSubscribe, Before, LifecycleInv, LifecycleTypeOK
<1>5. attached[x] = a /\ a # Nobody
  BY <1>3, NobodyElse DEF Before, Places, Enlisting
<1>6. Places'
  BY <1>2, <1>3, <1>4, <1>5 DEF Before, Places, Enlisting
<1>7. \A s \in Session : attached[s] # Nobody => attached[s] \in Actor
  BY DEF Before, LifecycleInv, LifecycleTypeOK, Caller
<1>8. ASSUME NEW s \in Session
      PROVE  /\ Subscribing(s)' => Subscribing(s)
             /\ Subscribing(s) => Subscribing(s)' \/ s = x
  <2>1. PICK b : b = attached[s]
    OBVIOUS
  <2>2. b # Nobody => /\ Posted(b, "subscribe", s)' => Posted(b, "subscribe", s)
                      /\ Posted(b, "subscribe", s) => Posted(b, "subscribe", s)' \/ s = x
    BY <1>3, <1>7, <2>1 DEF Enlisting
  <2>3. Subscribing(s)' <=> hub = [step |-> "subscribe", for |-> s]
                            \/ (b # Nobody /\ Posted(b, "subscribe", s)')
    BY <1>2, <2>1 DEF Subscribing, Sent, Posted
  <2> QED
    BY <2>1, <2>2, <2>3, SentPosted
<1>9. Subscribing(x)
  BY <1>3, <1>5, SentPosted
<1>10. StillThere'
  BY <1>2, <1>8 DEF Before, StillThere
<1>11. NoGhosts'
  <2> SUFFICES ASSUME NEW b \in Actor, NEW s \in subs'[b], stage'[s] = "gone"
               PROVE  Sent("unsubscribe", s)'
    BY DEF NoGhosts
  <2>1. s # x /\ s \in subs[b] /\ s \in Session
    BY <1>2, <1>3, <1>4, <1>9 DEF Before, StillThere
  <2>2. attached[s] = b /\ Posted(b, "unsubscribe", s)
    BY <1>2, <2>1, SentPosted DEF Before, NoGhosts, Places
  <2>3. Posted(b, "unsubscribe", s)'
    BY <1>3, <2>1, <2>2 DEF Enlisting
  <2> QED
    BY <1>2, <2>2, <2>3 DEF Sent, Posted
<1>12. HereAttended => HereAttended'
  <2> SUFFICES ASSUME HereAttended, NEW s \in Session, Here(s)'
               PROVE  life'[attached'[s]] = "running"
                      /\ (s \in subs'[attached'[s]] \/ Subscribing(s)')
    BY DEF HereAttended
  <2>1. Here(s) /\ attached[s] \in Actor
    BY <1>2, <1>7 DEF Here, Present, Before, LifecycleInv, Attaching, Caller
  <2>2. life[attached[s]] = "running" /\ (s \in subs[attached[s]] \/ Subscribing(s))
    BY <2>1 DEF HereAttended
  <2>3. s \in subs[attached[s]] => s \in subs'[attached[s]]
    BY <1>4, <2>1
  <2>4. x \in subs'[attached[x]]
    BY <1>4, <1>5
  <2> QED
    BY <1>2, <1>8, <2>2, <2>3, <2>4
<1> QED
  BY <1>6, <1>10, <1>11, <1>12 DEF After

\* When one who is gone is struck off, nobody else is about to be subscribed: with
\* nobody left the actor may stop.
LEMMA StrikeApart ==
    ASSUME Before, NEW a \in Actor, HandleUnsubscribe(a)
    PROVE  Places' /\ After
<1>1. PICK x : x = Head(queue[a]).from
  OBVIOUS
<1>2. /\ NextMessage(a, "unsubscribe")
      /\ UNCHANGED <<hub, stage, attached, leaving>>
  BY DEF HandleUnsubscribe, NextMessage, callerVars
<1>3. /\ x \in Session /\ Posted(a, "unsubscribe", x)
      /\ \A b \in Actor, s \in Session, k \in Enlisting :
            /\ Posted(b, k, s)' => Posted(b, k, s)
            /\ Posted(b, k, s) => Posted(b, k, s)' \/ (b = a /\ k = "unsubscribe" /\ s = x)
  BY <1>1, <1>2, PostedTaken DEF Before, Enlisting
<1>4. /\ subs'[a] = subs[a] \ {x} /\ \A b \in Actor \ {a} : subs'[b] = subs[b]
      /\ \A b \in Actor : subs[b] \subseteq Session
      /\ \A b \in Actor \ {a} : life'[b] = life[b]
      /\ subs[a] \ {x} # {} => life'[a] = life[a]
  BY <1>1 DEF HandleUnsubscribe, Before, LifecycleInv, LifecycleTypeOK
<1>5. attached[x] = a /\ a # Nobody /\ stage[x] = "gone" /\ x \in leaving
  BY <1>3, NobodyElse DEF Before, Places, Enlisting
<1>6. Places'
  BY <1>2, <1>3, <1>4 DEF Before, Places, Enlisting
<1>7. Going
  <2>1. Sent("unsubscribe", x)
    BY <1>3, <1>5, SentPosted
  <2> QED
    BY <1>5, <2>1 DEF Going
<1>8. \A s \in Session : ~Subscribing(s)
  BY <1>7 DEF Before, Coming
<1>9. \A s \in Session : attached[s] # Nobody => attached[s] \in Actor
  BY DEF Before, LifecycleInv, LifecycleTypeOK, Caller
<1>10. ASSUME NEW s \in Session, Subscribing(s)' PROVE FALSE
  <2>1. PICK b : b = attached[s]
    OBVIOUS
  <2>2. Subscribing(s)' <=> hub = [step |-> "subscribe", for |-> s]
                            \/ (b # Nobody /\ Posted(b, "subscribe", s)')
    BY <1>2, <2>1 DEF Subscribing, Sent, Posted
  <2>3. Posted(b, "subscribe", s)' /\ b # Nobody => Posted(b, "subscribe", s)
    BY <1>3, <1>9, <2>1 DEF Enlisting
  <2> QED
    BY <1>8, <1>10, <2>1, <2>2, <2>3, SentPosted
<1>11. StillThere'
  BY <1>10 DEF StillThere
<1>12. NoGhosts'
  <2> SUFFICES ASSUME NEW b \in Actor, NEW s \in subs'[b], stage'[s] = "gone"
               PROVE  Sent("unsubscribe", s)'
    BY DEF NoGhosts
  <2>1. s \in subs[b] /\ s \in Session /\ (b = a => s # x)
    BY <1>4
  <2>2. attached[s] = b /\ Posted(b, "unsubscribe", s)
    BY <1>2, <2>1, SentPosted DEF Before, NoGhosts, Places
  <2>3. Posted(b, "unsubscribe", s)'
    BY <1>3, <2>1, <2>2 DEF Enlisting
  <2> QED
    BY <1>2, <2>2, <2>3 DEF Sent, Posted
<1>13. HereAttended => HereAttended'
  <2> SUFFICES ASSUME HereAttended, NEW s \in Session, Here(s)'
               PROVE  life'[attached'[s]] = "running" /\ s \in subs'[attached'[s]]
    BY DEF HereAttended
  <2>1. Here(s) /\ attached[s] \in Actor /\ s # x
    BY <1>2, <1>5, <1>9 DEF Here, Present, Before, LifecycleInv, Attaching, Caller
  <2>2. life[attached[s]] = "running" /\ s \in subs[attached[s]]
    BY <1>8, <2>1 DEF HereAttended
  <2>3. s \in subs'[attached[s]] /\ life'[attached[s]] = life[attached[s]]
    BY <1>4, <2>1, <2>2
  <2> QED
    BY <1>2, <2>2, <2>3
<1> QED
  BY <1>6, <1>11, <1>12, <1>13 DEF After

\* An actor that ends takes with it what nobody who is there needs.
LEMMA DropApart ==
    ASSUME Before, NEW a \in Actor, Drop(a), UNCHANGED <<hub, attached, leaving>>,
           \A b \in Actor \ {a} : life'[b] = life[b]
    PROVE  /\ Places' /\ StillThere' /\ NoGhosts'
           /\ life[a] = "stopping" /\ HereAttended => HereAttended'
<1>1. \A b \in Actor, s \in Session, k \in Enlisting :
         Posted(b, k, s)' <=> b # a /\ Posted(b, k, s)
  BY PostedDropped DEF Before
<1>2. subs'[a] = {} /\ \A b \in Actor \ {a} : subs'[b] = subs[b]
  BY DEF Drop, Before, LifecycleInv, LifecycleTypeOK
<1>3. \A x \in Caller :
         \/ stage'[x] = stage[x]
         \/ stage[x] \in Present /\ stage'[x] \in {"refused", "ready", "failed"}
  BY DEF Drop, Waiting, Present
<1>4. \A s \in Session : /\ s \in Caller
                         /\ stage[s] = "gone" <=> stage'[s] = "gone"
                         /\ attached[s] # Nobody => attached[s] \in Actor
  BY <1>3 DEF Present, Before, LifecycleInv, LifecycleTypeOK, Caller
<1>5. Places'
  <2>1. \A x \in Caller : stage'[x] \in {"new", "asking", "found"} => attached'[x] = Nobody
    BY <1>3 DEF Before, Places
  <2>2. \A b \in Actor, s \in Session :
           /\ s \in subs'[b] => attached'[s] = b
           /\ \A k \in Enlisting : Posted(b, k, s)' => attached'[s] = b
           /\ Posted(b, "unsubscribe", s)' => stage'[s] = "gone" /\ s \in leaving'
    BY <1>1, <1>2, <1>4 DEF Before, Places, Enlisting
  <2> QED
    BY <2>1, <2>2 DEF Places
<1>6. ASSUME NEW s \in Session
      PROVE  /\ Subscribing(s)' => Subscribing(s)
             /\ Subscribing(s) => Subscribing(s)' \/ attached[s] = a
  <2>1. PICK b : b = attached[s]
    OBVIOUS
  <2>2. b # Nobody => /\ Posted(b, "subscribe", s)' => Posted(b, "subscribe", s)
                      /\ Posted(b, "subscribe", s) => Posted(b, "subscribe", s)' \/ b = a
    BY <1>1, <1>4, <2>1 DEF Enlisting
  <2>3. Subscribing(s)' <=> hub = [step |-> "subscribe", for |-> s]
                            \/ (b # Nobody /\ Posted(b, "subscribe", s)')
    BY <2>1 DEF Subscribing, Sent, Posted
  <2> QED
    BY <2>1, <2>2, <2>3, SentPosted
<1>7. StillThere'
  BY <1>4, <1>6 DEF Before, StillThere
<1>8. NoGhosts'
  <2> SUFFICES ASSUME NEW b \in Actor, NEW s \in subs'[b], stage'[s] = "gone"
               PROVE  Sent("unsubscribe", s)'
    BY DEF NoGhosts
  <2>1. b # a /\ s \in subs[b] /\ s \in Session
    BY <1>2 DEF Before, LifecycleInv, LifecycleTypeOK
  <2>2. attached[s] = b /\ Posted(b, "unsubscribe", s)
    BY <1>4, <2>1, SentPosted DEF Before, NoGhosts, Places
  <2>3. Posted(b, "unsubscribe", s)'
    BY <1>1, <2>1, <2>2 DEF Enlisting
  <2> QED
    BY <2>2, <2>3 DEF Sent, Posted
<1>9. ASSUME life[a] = "stopping", HereAttended PROVE HereAttended'
  <2> SUFFICES ASSUME NEW s \in Session, Here(s)'
               PROVE  life'[attached'[s]] = "running"
                      /\ (s \in subs'[attached'[s]] \/ Subscribing(s)')
    BY DEF HereAttended
  <2>1. Here(s)
    BY <1>3, <1>4 DEF Here
  <2>2. attached[s] \in Actor
    BY <1>4, <2>1 DEF Here, Present, Before, LifecycleInv, Attaching
  <2>3. life[attached[s]] = "running" /\ (s \in subs[attached[s]] \/ Subscribing(s))
    BY <1>9, <2>1 DEF HereAttended
  <2>4. attached[s] # a
    BY <1>9, <2>3
  <2> QED
    BY <1>2, <1>6, <2>2, <2>3, <2>4
<1> QED
  BY <1>5, <1>7, <1>8, <1>9
\* Whatever the server does, nobody is lost sight of.
LEMMA ApartLifecycle ==
    ASSUME Before, LifecycleInv', [LifecycleNext]_lifecycleVars,
           ~(Coming /\ Going)', PanicKnown'
    PROVE  /\ Places' /\ StillThere' /\ NoGhosts'
           /\ HereAttended /\ ~panicked' => HereAttended'
<1> DEFINE Goal == /\ Places' /\ StillThere' /\ NoGhosts'
                   /\ HereAttended /\ ~panicked' => HereAttended'
<1>1. ASSUME Places', After PROVE Goal
  BY <1>1 DEF After
<1>2. ASSUME Keeps PROVE Goal
  BY <1>1, <1>2, PlacesKeep, AfterKeep DEF Before
<1>3. ASSUME HubAttach PROVE Goal
  BY <1>3, PlacesAttach, AfterAttach, GhostsAttach DEF Before
<1>4. ASSUME NEW a \in Actor, Stop(a) PROVE Goal
  <2>1. /\ Drop(a) /\ UNCHANGED <<hub, attached, leaving>> /\ life[a] = "stopping"
        /\ \A b \in Actor \ {a} : life'[b] = life[b]
    BY <1>4 DEF Stop, Before, LifecycleInv, LifecycleTypeOK
  <2> QED
    BY <2>1, DropApart
<1>5. ASSUME NEW a \in Actor, Panic(a) PROVE Goal
  <2>1. /\ Drop(a) /\ UNCHANGED <<hub, attached, leaving>> /\ life'[a] = "panicked"
        /\ \A b \in Actor \ {a} : life'[b] = life[b]
    BY <1>5 DEF Panic, Before, LifecycleInv, LifecycleTypeOK
  <2>2. panicked'
    BY <2>1 DEF PanicKnown
  <2> QED
    BY <2>1, <2>2, DropApart
<1>6. ASSUME NEW x \in Caller, Ask(x) \/ HubRead(x) PROVE Goal
  BY <1>2, <1>6, KeepsCaller DEF Before
<1>7. ASSUME NEW s \in Session, SessionStep(s) \/ SessionSend(s) \/ Leave(s) PROVE Goal
  BY <1>1, <1>2, <1>7, KeepsCaller, ExitApart DEF Before, SessionStep, Caller
<1>8. ASSUME NEW q \in Request, RequestSend(q) PROVE Goal
  BY <1>2, <1>8, KeepsCaller DEF Before, Caller
<1>9. ASSUME NEW a \in Actor, Handle(a) \/ \E st \in Stage : Answer(a, st) PROVE Goal
  BY <1>1, <1>2, <1>9, KeepsActor, HandleApart, StrikeApart DEF Before, Handle
<1>10. ASSUME \/ HubExit \/ UNCHANGED lifecycleVars
              \/ \E c \in Col, p \in Perm :
                    CreateCollection(c, p) \/ UpdateCollectionPermissions(c, p)
       PROVE  Goal
  BY <1>2, <1>10, KeepsElse
<1>11. ASSUME HubSubscribe PROVE Goal
  BY <1>1, <1>11, SubscribeApart
<1> HIDE DEF Goal
<1>12. Goal
  BY <1>3, <1>4, <1>5, <1>6, <1>7, <1>8, <1>9, <1>10, <1>11 DEF LifecycleNext, HubStep
<1> QED
  BY <1>12 DEF Goal

\* What is run is the server, with a history.
LEMMA StepServes ==
    ASSUME c1 \in Col, {g1} \in Perm, Step
    PROVE  ServerNext
<1>1. \A x \in NextSession \cup Request : x \in Caller
  BY DEF NextSession, Caller
<1>2. CASE Progress /\ UNCHANGED <<groupsVars, renewed>>
  BY <1>2 DEF ServerNext
<1>3. CASE HubForget
  BY <1>3 DEF ServerNext
<1>4. ASSUME NEW a \in Actor, \/ Serve(a)
                              \/ Stop(a) /\ EndFill(a) /\ UNCHANGED renewed
                              \/ Panic(a) /\ EndFill(a) /\ UNCHANGED renewed
      PROVE  ServerNext
  BY <1>4 DEF ServerNext, ActorEnds
<1>5. CASE (Proceeding \/ \E w \in Writer : Begin(w)) /\ UNCHANGED <<lifecycleVars, renewed>>
  BY <1>5 DEF ServerNext, Membership, Proceeding
<1>6. ASSUME UNCHANGED <<groupsVars, renewed>>,
             \/ \E x \in NextSession \cup Request : Ask(x)
             \/ \E s \in Session : Leave(s) \/ SessionSend(s)
             \/ CreateCollection(c1, {g1})
      PROVE  ServerNext
  <2>1. Ambient
    BY <1>1, <1>6 DEF Ambient
  <2> QED
    BY <1>6, <2>1 DEF ServerNext
<1>7. ASSUME NEW p \in Perm, Renew(c1, p) PROVE ServerNext
  BY <1>7 DEF ServerNext
<1> QED
  BY <1>2, <1>3, <1>4, <1>5, <1>6, <1>7 DEF Step

\* No other step than a panic leaves an actor panicked.
LEMMA StepPanics ==
    ASSUME LifecycleInv, PanicKnown, Step
    PROVE  PanicKnown' /\ (panicked => panicked')
<1>1. CASE panicked' = TRUE
  BY <1>1 DEF PanicKnown
<1>2. CASE panicked' # TRUE
  <2>0. panicked' = panicked
    BY <1>2 DEF Step
  <2>1. CASE UNCHANGED life
    BY <2>0, <2>1 DEF PanicKnown
  <2>2. life \in [Actor -> {"unborn", "running", "stopping", "ended", "panicked"}]
    BY DEF LifecycleInv, LifecycleTypeOK
  <2>3. CASE HubAttach
    BY <2>0, <2>2, <2>3 DEF HubAttach, Spawn, PanicKnown
  <2>4. ASSUME NEW a \in Actor, HandleUnsubscribe(a) \/ Stop(a) PROVE PanicKnown'
    BY <2>0, <2>2, <2>4 DEF HandleUnsubscribe, Stop, PanicKnown
  <2>5. ASSUME Progress PROVE UNCHANGED life \/ HubAttach \/ \E a \in Actor : HandleUnsubscribe(a)
    BY <2>5 DEF Progress, HubRead, HubSubscribe, SessionStep, SessionSync, SessionExit,
                RequestSend, Handle, HandleSubscribe, Accept, actorVars
  <2>6. ASSUME NEW a \in Actor, Serve(a) PROVE UNCHANGED life
    <3>1. UNCHANGED lifecycleVars \/ \E st \in Stage : Answer(a, st)
      BY <2>6, AnswerStep DEF Serve, ServeCached, LookUp, ServeRead, ServeRequest, Stage
    <3> QED
      BY <3>1 DEF Answer, lifecycleVars, actorVars
  <2>7. ASSUME \/ HubForget
               \/ UNCHANGED lifecycleVars
               \/ \E x \in NextSession \cup Request : Ask(x)
               \/ \E s \in Session : Leave(s) \/ SessionSend(s)
               \/ CreateCollection(c1, {g1})
               \/ \E p \in Perm : Renew(c1, p)
        PROVE  UNCHANGED life
    BY <2>7 DEF HubForget, HubExit, lifecycleVars, actorVars, Ask, Leave, SessionSend,
                CreateCollection, Renew, UpdateCollectionPermissions
  <2> QED
    BY <1>2, <2>0, <2>1, <2>3, <2>4, <2>5, <2>6, <2>7 DEF Step
<1> QED
  BY <1>1, <1>2

LEMMA ApartInit == MCInit => ServerInv /\ ApartInv
<1> SUFFICES ASSUME MCInit PROVE ServerInv /\ ApartInv
  OBVIOUS
<1>1. ServerInit /\ LifecycleInit /\ ~crossed
  BY DEF MCInit, ServerInit
<1>2. ServerInv
  BY <1>1, ServerInvInit
<1>3. /\ \A x \in Caller : stage[x] = "new" /\ attached[x] = Nobody
      /\ \A a \in Actor : life[a] = "unborn" /\ subs[a] = {} /\ queue[a] = <<>>
      /\ leaving = {} /\ exits = <<>> /\ hub = HubIdle
  BY <1>1 DEF LifecycleInit
<1>4. \A s \in Session : s \in Caller
  BY DEF Caller
<1>5. PanicKnown
  BY <1>3 DEF PanicKnown
<1>6. ~Going
  BY <1>3 DEF Going
<1>7. Places
  BY <1>3, <1>4 DEF Places, Posted
<1>8. StillThere /\ NoGhosts /\ HereAttended
  BY <1>3, <1>4 DEF StillThere, NoGhosts, HereAttended, Here, Present
<1> QED
  BY <1>1, <1>2, <1>5, <1>6, <1>7, <1>8 DEF ApartInv

LEMMA ApartStep ==
    ASSUME c1 \in Col, {g1} \in Perm, ServerInv, ApartInv, [MCNext]_MCVars
    PROVE  ServerInv' /\ ApartInv'
<1>1. Step \/ UNCHANGED MCVars
  BY DEF MCNext
<1>2. [ServerNext]_serverVars
  BY <1>1, StepServes DEF MCVars
<1>3. /\ LifecycleInv /\ LifecycleInv' /\ ServerInv'
      /\ [LifecycleNext]_lifecycleVars
  BY <1>2, ServerInvStep, PartsStep DEF ServerInv
<1>4. PanicKnown' /\ (panicked => panicked')
  BY <1>1, <1>3, StepPanics DEF ApartInv, PanicKnown, MCVars, serverVars, lifecycleVars, actorVars
<1>5. ASSUME ~crossed' PROVE ~crossed /\ ~(Coming /\ Going)'
  <2>1. CASE MCNext
    BY <1>5, <2>1 DEF MCNext, Crossing
  <2>2. CASE UNCHANGED MCVars
    <3>1. ~crossed /\ ~(Coming /\ Going)
      BY <1>5, <2>2 DEF MCVars, ApartInv
    <3>2. UNCHANGED <<stage, leaving, attached, life, exits, hub, queue>>
      BY <2>2 DEF MCVars, serverVars, lifecycleVars, actorVars, callerVars
    <3>3. (Coming' <=> Coming) /\ (Going' <=> Going)
      BY <3>2 DEF Coming, Going, Subscribing, Sent
    <3> QED
      BY <3>1, <3>3
  <2> QED
    BY <2>1, <2>2
<1>6. ASSUME ~crossed'
      PROVE  /\ Places' /\ StillThere' /\ NoGhosts'
             /\ ~panicked' => HereAttended'
  <2>1. Before /\ (~panicked => HereAttended)
    BY <1>3, <1>5, <1>6 DEF ApartInv, Before
  <2> QED
    BY <1>3, <1>4, <1>5, <1>6, <2>1, ApartLifecycle
<1> QED
  BY <1>3, <1>4, <1>5, <1>6 DEF ApartInv

\* When nobody comes to a collection while another is going, and no actor panics, a
\* session that is told it is synced hears of every change: the actor it got runs, and
\* has it for a subscriber or is about to; and whoever is gone is no subscriber, or is
\* about to be struck off (the hub's two sends in sinkron/src/actors/sinkron.rs, the
\* exit callback of sinkron/src/actors/client.rs and the last Unsubscribe in
\* sinkron/src/actors/collection.rs).
THEOREM AttendedIfApart ==
    ASSUME c1 \in Col, {g1} \in Perm
    PROVE  MCSpec => []AttendedIfUncrossed
<1>1. ServerInv /\ ApartInv => AttendedIfUncrossed
  <2>1. HereAttended => Attended
    BY DEF HereAttended, Attended, Here, Present
  <2> QED
    BY <2>1 DEF ApartInv, AttendedIfUncrossed
<1>2. (ServerInv /\ ApartInv) /\ [MCNext]_MCVars => (ServerInv /\ ApartInv)'
  BY ApartStep
<1> QED
  BY <1>1, <1>2, ApartInit, PTL DEF MCSpec
=============================================================================
