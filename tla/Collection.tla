----------------------------- MODULE Collection -----------------------------
(***************************************************************************)
(* The server's side of one collection: the actor that owns its documents  *)
(* (sinkron/src/actors/collection.rs) and, per connection, the actor that  *)
(* relays between it and a websocket (sinkron/src/actors/client.rs).       *)
(*                                                                         *)
(* A session is one connection.  Its actor has at most one request with    *)
(* the collection at a time (`call`) and waits for the reply; broadcasts   *)
(* that arrive meanwhile queue in its `mailbox`, so a reply overtakes      *)
(* them on the `wire`.                                                     *)
(*                                                                         *)
(* What clients ask for is left open: Connect and Take receive any request *)
(* the protocol can carry.  Modules that model the clients restrict them.  *)
(***************************************************************************)
EXTENDS Protocol, FiniteSets, SequencesExt

CONSTANTS
    Session,           \* connections
    Api,               \* the source of changes made over the HTTP API
    Readers,           \* sessions whose user the collection's permissions
    Creators,          \* ... let read, create, and update or delete
    Editors,
    Faults,            \* requests the database may fail: "sync", "get", "change"
    SubscribeFirst     \* the Subscribe of a new session is queued before its Sync

ASSUME CollectionAssumption ==
    /\ Api \notin Session
    /\ IsFiniteSet(Doc)
    /\ Readers \subseteq Session /\ Creators \subseteq Session /\ Editors \subseteq Session
    /\ Faults \subseteq {"sync", "get", "change"}
    /\ SubscribeFirst \in BOOLEAN

VARIABLES
    docs,          \* the rows of `documents`: revision of the last change, data
    colrev,        \* the collection's revision
    locked,        \* documents whose own permissions deny updates and deletes
    stage,         \* idle, open, or closed by the peer but not yet noticed
    joining,       \* sessions whose Subscribe is still to come
    subscribers,
    call,          \* the request the session's actor awaits the reply of
    mailbox,       \* broadcasts the session's actor has yet to write
    wire           \* messages written to the websocket, not yet received

storage  == <<docs, colrev, locked>>
links    == <<stage, joining, subscribers>>
channels == <<call, mailbox, wire>>
colVars  == <<storage, links, channels>>

-----------------------------------------------------------------------------

NoRow   == [rev |-> 0, data |-> Null]
NoCall  == [kind |-> "none"]
NoError == "none"

SyncRequest == [kind: {"sync"}, colrev: Nat]

Exists(d) == docs[d].rev > 0
Live(d)   == docs[d].data # Null

TypeOK ==
    /\ docs \in [Doc -> [rev: Nat, data: Data]]
    /\ colrev \in Nat
    /\ locked \subseteq Doc
    /\ stage \in [Session -> {"idle", "open", "closed"}]
    /\ joining \subseteq Session
    /\ subscribers \subseteq Session
    /\ call \in [Session -> ChangeRequest \cup GetRequest \cup SyncRequest \cup {NoCall}]
    /\ mailbox \in [Session -> Seq(ServerMessage)]
    /\ wire \in [Session -> Seq(ServerMessage)]

Init ==
    /\ docs = [d \in Doc |-> NoRow]
    /\ colrev = 0
    /\ locked = {}
    /\ stage = [s \in Session |-> "idle"]
    /\ joining = {}
    /\ subscribers = {}
    /\ call = [s \in Session |-> NoCall]
    /\ mailbox = [s \in Session |-> <<>>]
    /\ wire = [s \in Session |-> <<>>]

-----------------------------------------------------------------------------
(* Sessions *)

\* handle_connect spawns the client's actor, whose first act is to send Sync,
\* and then sends Subscribe: the two are concurrent.
Connect(s, r) ==
    /\ stage[s] = "idle"
    /\ stage' = [stage EXCEPT ![s] = "open"]
    /\ joining' = joining \cup {s}
    /\ call' = [call EXCEPT ![s] = [kind |-> "sync", colrev |-> r]]
    /\ UNCHANGED <<storage, subscribers, mailbox, wire>>

Subscribe(s) ==
    /\ s \in joining
    /\ joining' = joining \ {s}
    /\ subscribers' = subscribers \cup {s}
    /\ UNCHANGED <<storage, stage, channels>>

\* The connection is lost, with all that was under way to the peer.  Messages
\* the peer had sent may still be read before the actor notices.
Close(s) ==
    /\ stage[s] = "open"
    /\ stage' = [stage EXCEPT ![s] = "closed"]
    /\ mailbox' = [mailbox EXCEPT ![s] = <<>>]
    /\ wire' = [wire EXCEPT ![s] = <<>>]
    /\ UNCHANGED <<storage, joining, subscribers, call>>

\* The actor ends and unsubscribes; the slot may serve another connection.
Exit(s) ==
    /\ stage[s] = "closed" /\ call[s] = NoCall /\ s \notin joining
    /\ stage' = [stage EXCEPT ![s] = "idle"]
    /\ subscribers' = subscribers \ {s}
    /\ UNCHANGED <<storage, joining, channels>>

\* The actor takes a message of the peer: only with nothing in its mailbox (the
\* select is biased) and no request outstanding.  One it cannot decode is gone.
Take(s, m) ==
    /\ stage[s] # "idle" /\ call[s] = NoCall /\ mailbox[s] = <<>>
    /\ call' = IF m \in Garbled THEN call ELSE [call EXCEPT ![s] = m]
    /\ UNCHANGED <<storage, links, mailbox, wire>>

\* Mutant of Forward: the newest broadcast first.
ForwardNewest(s) ==
    /\ call[s] = NoCall /\ mailbox[s] # <<>>
    /\ wire' = [wire EXCEPT ![s] = Append(@, Last(mailbox[s]))]
    /\ mailbox' = [mailbox EXCEPT ![s] = Front(@)]
    /\ UNCHANGED <<storage, links, call>>

\* The actor writes the oldest broadcast to the websocket.
Forward(s) ==
    /\ call[s] = NoCall /\ mailbox[s] # <<>>
    /\ wire' = [wire EXCEPT ![s] = Append(@, Head(mailbox[s]))]
    /\ mailbox' = [mailbox EXCEPT ![s] = Tail(@)]
    /\ UNCHANGED <<storage, links, call>>

\* The peer receives the next message.
Receive(s) ==
    /\ wire[s] # <<>>
    /\ wire' = [wire EXCEPT ![s] = Tail(@)]
    /\ UNCHANGED <<storage, links, call, mailbox>>

-----------------------------------------------------------------------------
(* Replies.  What is written to a closed connection is lost. *)

Reply(s, msgs) ==
    /\ call' = [call EXCEPT ![s] = NoCall]
    /\ wire' = IF stage[s] = "open" THEN [wire EXCEPT ![s] = @ \o msgs] ELSE wire

\* Mutants of Missing: off by one, and without the deletions.
MissingLater(r) ==
    IF r = 0 THEN {d \in Doc : Live(d)} ELSE {d \in Doc : docs[d].rev > r + 1}
MissingLive(r) == {d \in Doc : Live(d) /\ docs[d].rev > r}

\* What a client at revision r is missing: everything there is, if it has
\* nothing; otherwise all that changed since, deletions included.
Missing(r) ==
    IF r = 0 THEN {d \in Doc : Live(d)}
             ELSE {d \in Doc : docs[d].rev > r}

SyncReply(s, r) ==
    \/ /\ s \notin Readers
       /\ Reply(s, <<SyncError("forbidden")>>)
    \/ /\ s \in Readers /\ r > colrev
       /\ Reply(s, <<SyncError("unprocessable_content")>>)
    \/ /\ s \in Readers /\ r = colrev
       /\ Reply(s, <<SyncComplete(colrev)>>)
    \/ /\ s \in Readers /\ r < colrev
       /\ \E order \in SetToSeqs(Missing(r)) :
             Reply(s, [i \in DOMAIN order |-> DocMessage(order[i], docs[order[i]].data)]
                          \o <<SyncComplete(colrev)>>)

ServeSync(s) ==
    /\ call[s].kind = "sync"
    /\ SubscribeFirst => s \notin joining
    /\ SyncReply(s, call[s].colrev)
    /\ UNCHANGED <<storage, links, mailbox>>

ServeGet(s) ==
    /\ call[s].kind = "get"
    /\ LET d == call[s].id IN
       \/ /\ ~Exists(d)
          /\ Reply(s, <<GetError(d, "not_found")>>)
       \/ /\ Exists(d) /\ s \notin Readers
          /\ Reply(s, <<GetError(d, "forbidden")>>)
       \/ /\ Exists(d) /\ s \in Readers
          /\ Reply(s, <<DocMessage(d, docs[d].data)>>)
    /\ UNCHANGED <<storage, links, mailbox>>

-----------------------------------------------------------------------------
(* Changes *)

MayCreate(src)  == src \in Creators \cup {Api}
MayEdit(src, d) == src = Api \/ (src \in Editors /\ d \notin locked)

\* Mutant of CreateRefusal: the id of a deleted document may be used again.
CreateRefusalIfLive(src, d) ==
    IF ~MayCreate(src) THEN "forbidden"
    ELSE IF Live(d) THEN "unprocessable_content"
    ELSE NoError

CreateRefusal(src, d) ==
    IF ~MayCreate(src) THEN "forbidden"
    ELSE IF Exists(d) THEN "unprocessable_content"
    ELSE NoError

\* Mutant of EditRefusal: a code the protocol does not have.
EditRefusalGone(src, d) ==
    IF ~Exists(d) THEN "not_found"
    ELSE IF ~MayEdit(src, d) THEN "forbidden"
    ELSE IF ~Live(d) THEN "gone"
    ELSE NoError

\* Updates and deletes alike.
EditRefusal(src, d) ==
    IF ~Exists(d) THEN "not_found"
    ELSE IF ~MayEdit(src, d) THEN "forbidden"
    ELSE IF ~Live(d) THEN "unprocessable_content"
    ELSE NoError

Refusal(src, m) ==
    IF m.op = "+" THEN CreateRefusal(src, m.id) ELSE EditRefusal(src, m.id)

\* Mutant of Outcome: an update replaces what is stored.
OutcomeReplaces(m) == m.data

\* The document's data after the change: an update is merged into what is stored.
Outcome(m) == IF m.op = "*" THEN Merge(docs[m.id].data, m.data) ELSE m.data

\* Mutant of Broadcast: what finds a full mailbox is dropped.
BroadcastBounded(msg) ==
    mailbox' = [s \in Session |->
                   IF s \in subscribers /\ stage[s] = "open" /\ mailbox[s] = <<>>
                   THEN <<msg>> ELSE mailbox[s]]

\* To the subscribers whose connection is still up; what is sent to the others
\* ends with their actor.
Broadcast(msg) ==
    mailbox' = [s \in Session |->
                   IF s \in subscribers /\ stage[s] = "open"
                   THEN Append(mailbox[s], msg) ELSE mailbox[s]]

\* Mutants of Apply: the row keeps the revision read before increment_colrev, and
\* the update is broadcast as it came.
ApplyReadFirst(m) ==
    /\ colrev' = colrev + 1
    /\ docs' = [docs EXCEPT ![m.id] = [rev |-> colrev, data |-> Outcome(m)]]
    /\ Broadcast(ServerChange(m.op, m.id, Outcome(m), colrev + 1))
    /\ UNCHANGED <<locked, links>>
ApplyEchoed(m) ==
    /\ colrev' = colrev + 1
    /\ docs' = [docs EXCEPT ![m.id] = [rev |-> colrev + 1, data |-> Outcome(m)]]
    /\ Broadcast(ServerChange(m.op, m.id, m.data, colrev + 1))
    /\ UNCHANGED <<locked, links>>

\* increment_colrev, the write of the document and the broadcast.
Apply(m) ==
    /\ colrev' = colrev + 1
    /\ docs' = [docs EXCEPT ![m.id] = [rev |-> colrev + 1, data |-> Outcome(m)]]
    /\ Broadcast(ServerChange(m.op, m.id, Outcome(m), colrev + 1))
    /\ UNCHANGED <<locked, links>>

\* The author learns of success from the broadcast, and of refusal by a reply.
ServeChange(s) ==
    /\ call[s].kind = "change"
    /\ LET m == call[s] IN
       \/ /\ Refusal(s, m) = NoError
          /\ Apply(m)
          /\ Reply(s, <<>>)
       \/ /\ Refusal(s, m) # NoError
          /\ Reply(s, <<ChangeError(m.id, Refusal(s, m))>>)
          /\ UNCHANGED <<storage, links, mailbox>>

\* A change made over the HTTP API.
ApiChange(m) ==
    /\ Refusal(Api, m) = NoError
    /\ Apply(m)
    /\ UNCHANGED <<call, wire>>

\* The application narrows a document's permissions, or widens them again.
Lock(d) ==
    /\ Exists(d)
    /\ locked' \in {locked \cup {d}, locked \ {d}}
    /\ UNCHANGED <<docs, colrev, links, channels>>

\* The database fails under a request.  The revision may have been taken before
\* the document could not be written: the two are separate statements.
Fail(s) ==
    /\ call[s].kind \in Faults
    /\ \/ /\ call[s].kind = "sync"
          /\ Reply(s, <<SyncError("internal_server_error")>>)
          /\ UNCHANGED colrev
       \/ /\ call[s].kind = "get"
          /\ Reply(s, <<GetError(call[s].id, "internal_server_error")>>)
          /\ UNCHANGED colrev
       \/ /\ call[s].kind = "change"
          /\ Reply(s, <<ChangeError(call[s].id, "internal_server_error")>>)
          /\ colrev' \in IF Refusal(s, call[s]) = NoError
                        THEN {colrev, colrev + 1} ELSE {colrev}
    /\ UNCHANGED <<docs, locked, links, mailbox>>

-----------------------------------------------------------------------------

ServerStep(s) ==
    \/ Subscribe(s) \/ Exit(s) \/ Forward(s)
    \/ ServeSync(s) \/ ServeGet(s) \/ ServeChange(s) \/ Fail(s)

Next ==
    \/ \E s \in Session :
          \/ ServerStep(s)
          \/ Close(s)
          \/ \E r \in Nat : Connect(s, r)
          \/ \E m \in ClientMessage : Take(s, m)
          \/ Receive(s)
    \/ \E m \in ChangeRequest : ApiChange(m)
    \/ \E d \in Doc : Lock(d)

Spec == Init /\ [][Next]_colVars

-----------------------------------------------------------------------------
(* Properties *)

\* Every row's revision was given out by the collection, to that row alone; only
\* a row has data.  Concurrent authors, refusals and half-failed changes included
\* (increment_colrev and the insert or update that follows it).
RowsOrdered ==
    /\ \A d \in Doc : docs[d].rev <= colrev /\ (docs[d].rev = 0 => docs[d] = NoRow)
    /\ \A d, e \in Doc : d # e /\ docs[d].rev = docs[e].rev => docs[d].rev = 0

Precedes(m, n) ==
    m.kind = "change" /\ n.kind = "change" => m.colrev < n.colrev

InOrder(q) == \A i, j \in DOMAIN q : i < j => Precedes(q[i], q[j])

\* Broadcasts reach a session in the order of their revisions, across the
\* mailbox and the websocket and whatever replies overtake them.
FeedInOrder ==
    \A s \in Session :
        /\ InOrder(wire[s]) /\ InOrder(mailbox[s])
        /\ \A i \in DOMAIN wire[s], j \in DOMAIN mailbox[s] :
              Precedes(wire[s][i], mailbox[s][j])

\* The row is as the change left it, or has been changed since: it holds at
\* least as much, or is deleted.  Nothing changes a document after its deletion.
Truthful(m) ==
    m.kind = "change" =>
        \/ docs[m.id] = [rev |-> m.colrev, data |-> m.data]
        \/ /\ m.colrev < docs[m.id].rev /\ m.data # Null
           /\ Live(m.id) => m.data \subseteq docs[m.id].data

\* Broadcasts on their way tell the truth about the document they name.
FeedTruthful ==
    \A s \in Session :
        /\ \A i \in DOMAIN wire[s] : Truthful(wire[s][i])
        /\ \A i \in DOMAIN mailbox[s] : Truthful(mailbox[s][i])

\* No change is missed between two broadcasts: a row changed after the oldest
\* broadcast a subscriber has yet to be sent has its own broadcast behind it.
FeedUnbroken ==
    \A s \in subscribers, d \in Doc :
        mailbox[s] # <<>> /\ docs[d].rev > Head(mailbox[s]).colrev =>
            \E i \in DOMAIN mailbox[s] : mailbox[s][i].colrev = docs[d].rev

\* The collection keeps the promise of Ledger.
L == INSTANCE Ledger WITH entry <- docs, clock <- colrev

Ledger == L!Spec
=============================================================================
