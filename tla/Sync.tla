-------------------------------- MODULE Sync --------------------------------
(***************************************************************************)
(* A collection and the clients whose users edit its documents: the server *)
(* of module Collection, the client library of module Replica, and the     *)
(* websockets between them.                                                *)
(***************************************************************************)
EXTENDS Collection, Replica

CONSTANTS
    Client,
    Slot,      \* tells the connections of a client apart
    NoSlot     \* no open connection

ASSUME SyncAssumption ==
    /\ Session = Client \X Slot
    /\ NoSlot \notin Slot

VARIABLES
    link,       \* the client's open connection
    replica,    \* the client's state
    toServer,   \* per session: messages sent, not yet read by the server
    born,       \* ids of the documents created so far: uuids, never used twice
    basis,      \* per edit: the edits its author saw when making it, Null before
    drafts      \* the application's edits of documents it read and has yet to post

userVars == <<born, basis, drafts>>
syncVars == <<colVars, link, replica, toServer, userVars>>

Conn(c) == <<c, link[c]>>

SyncTypeOK ==
    /\ TypeOK
    /\ link \in [Client -> Slot \cup {NoSlot}]
    /\ replica \in [Client -> Replica]
    /\ toServer \in [Session -> Seq(ClientMessage)]
    /\ born \subseteq Doc
    /\ basis \in [Edit -> Data]
    /\ drafts \subseteq Doc \X Edit

SyncInit ==
    /\ Init
    /\ link = [c \in Client |-> NoSlot]
    /\ replica = [c \in Client |-> NewReplica]
    /\ toServer = [s \in Session |-> <<>>]
    /\ born = {}
    /\ basis = [e \in Edit |-> Null]
    /\ drafts = {}

Become(c, k) == replica' = [replica EXCEPT ![c] = k]

-----------------------------------------------------------------------------
(* Sending.  `transport.send` throws unless the websocket is open. *)

Send(c, msgs) == toServer' = [toServer EXCEPT ![Conn(c)] = @ \o msgs]

\* flush() from state k.  With the connection gone it throws at the first item
\* there is, before it has changed anything.
FlushFrom(c, k) ==
    \/ /\ link[c] # NoSlot
       /\ Become(c, Flush(k))
       /\ \E order \in SetToSeqs(ToFlush(k)) :
             Send(c, [i \in DOMAIN order |-> FlushMessage(order[i], k.items[order[i]])])
    \/ /\ link[c] = NoSlot
       /\ Become(c, IF ToFlush(k) = {} THEN Flush(k) ELSE k)
       /\ UNCHANGED toServer

\* onChangeItem, with the item queued already.
FlushNow(c, k) ==
    IF k.status = "ready" THEN FlushFrom(c, [k EXCEPT !.flushTimer = FALSE])
                          ELSE Become(c, k) /\ UNCHANGED toServer

FlushSoon(c, k) ==
    /\ Become(c, [k EXCEPT !.flushTimer = @ \/ k.status = "ready"])
    /\ UNCHANGED toServer

-----------------------------------------------------------------------------
(* The user *)

UserCreate(c, d, e) ==
    /\ d \notin born /\ basis[e] = Null
    /\ born' = born \cup {d}
    /\ basis' = [basis EXCEPT ![e] = {}]
    /\ FlushNow(c, Create(replica[c], d, {e}))
    /\ UNCHANGED <<colVars, link, drafts>>

UserChange(c, d, e) ==
    /\ CanEdit(replica[c], d) /\ basis[e] = Null
    /\ basis' = [basis EXCEPT ![e] = replica[c].items[d].local]
    /\ FlushSoon(c, Edited(replica[c], d, e))
    /\ UNCHANGED <<colVars, link, born, drafts>>

\* Deleting a document again is as deleting it once, but dropping one that the
\* server never acknowledged triggers no flush.
UserDelete(c, d) ==
    /\ Has(replica[c], d)
    /\ LET k == Delete(replica[c], d) IN
       IF Has(k, d) THEN FlushNow(c, k) ELSE Become(c, k) /\ UNCHANGED toServer
    /\ UNCHANGED <<colVars, link, userVars>>

FlushTimer(c) ==
    /\ replica[c].flushTimer
    /\ FlushFrom(c, [replica[c] EXCEPT !.flushTimer = FALSE])
    /\ UNCHANGED <<colVars, link, userVars>>

-----------------------------------------------------------------------------
(* The application's server, over the HTTP API: it reads the document, changes *)
(* it and posts the update, which the collection may by then refuse.          *)

ApiRead(d, e) ==
    /\ Live(d) /\ basis[e] = Null
    /\ basis' = [basis EXCEPT ![e] = docs[d].data]
    /\ drafts' = drafts \cup {<<d, e>>}
    /\ UNCHANGED <<colVars, link, replica, toServer, born>>

ApiUpdate(d, e) ==
    /\ <<d, e>> \in drafts
    /\ drafts' = drafts \ {<<d, e>>}
    /\ IF EditRefusal(Api, d) = NoError THEN ApiChange(Change("*", d, {e}))
                                       ELSE UNCHANGED colVars
    /\ UNCHANGED <<link, replica, toServer, born, basis>>

ApiDelete(d) ==
    /\ ApiChange(Change("-", d, Null))
    /\ UNCHANGED <<link, replica, toServer, userVars>>

ApiLock(d) == Lock(d) /\ UNCHANGED <<link, replica, toServer, userVars>>

-----------------------------------------------------------------------------
(* The connection *)

\* The websocket opens with the client's revision in its URL.
Open(c) ==
    /\ link[c] = NoSlot /\ replica[c].status = "disconnected" /\ ~replica[c].stopped
    /\ \E n \in Slot :
          /\ Connect(<<c, n>>, replica[c].colrev)
          /\ link' = [link EXCEPT ![c] = n]
    /\ Become(c, [replica[c] EXCEPT !.status = "connected"])
    /\ UNCHANGED <<toServer, userVars>>

\* The websocket is no longer open: lost, or closed by either end.
Drop(c) ==
    /\ link[c] # NoSlot
    /\ Close(Conn(c))
    /\ link' = [link EXCEPT ![c] = NoSlot]

Lose(c) == Drop(c) /\ UNCHANGED <<replica, toServer, userVars>>

\* The `close` event, some time later.
OnClose(c) ==
    /\ link[c] = NoSlot /\ replica[c].status # "disconnected"
    /\ Become(c, [replica[c] EXCEPT !.status = "disconnected", !.flushTimer = FALSE])
    /\ UNCHANGED <<colVars, link, toServer, userVars>>

-----------------------------------------------------------------------------
(* Messages from the server *)

Arriving(c) == IF link[c] = NoSlot THEN <<>> ELSE wire[Conn(c)]

OnSyncComplete(c) ==
    /\ Arriving(c) # <<>> /\ Head(Arriving(c)).kind = "sync_complete"
    /\ Receive(Conn(c))
    /\ FlushFrom(c, [replica[c] EXCEPT !.colrev = Head(Arriving(c)).colrev,
                                       !.status = "ready"])
    /\ UNCHANGED <<link, userVars>>

\* The client disconnects, for good.
OnSyncError(c) ==
    /\ Arriving(c) # <<>> /\ Head(Arriving(c)).kind = "sync_error"
    /\ Drop(c)
    /\ Become(c, [replica[c] EXCEPT !.status = "error", !.stopped = TRUE])
    /\ UNCHANGED <<toServer, userVars>>

OnMessage(c) ==
    /\ Arriving(c) # <<>>
    /\ LET m == Head(Arriving(c)) IN
       /\ m.kind \in {"doc", "change", "change_error", "get_error"}
       /\ Become(c, HandleMessage(replica[c], m))
       /\ IF Asks(replica[c], m) THEN Send(c, <<Get(m.id)>>) ELSE UNCHANGED toServer
    /\ Receive(Conn(c))
    /\ UNCHANGED <<link, userVars>>

ServerTake(s) ==
    /\ toServer[s] # <<>>
    /\ Take(s, Head(toServer[s]))
    /\ toServer' = [toServer EXCEPT ![s] = Tail(@)]

\* What the session's actor has not read ends with it.
ServerExit(s) == Exit(s) /\ toServer' = [toServer EXCEPT ![s] = <<>>]

-----------------------------------------------------------------------------

ClientStep(c) == OnClose(c) \/ Open(c) \/ FlushTimer(c)
                    \/ OnSyncComplete(c) \/ OnSyncError(c) \/ OnMessage(c)

UserStep(c) ==
    \/ \E d \in Doc, e \in Edit : UserCreate(c, d, e) \/ UserChange(c, d, e)
    \/ \E d \in Doc : UserDelete(c, d)

\* No request for a document reaches the collection: see Get.
SessionStep(s) ==
    /\ \/ ServerTake(s) \/ ServerExit(s)
       \/ /\ Subscribe(s) \/ Forward(s) \/ ServeSync(s) \/ ServeChange(s) \/ Fail(s)
          /\ UNCHANGED toServer
    /\ UNCHANGED <<link, replica, userVars>>

ApiStep(d) ==
    \/ \E e \in Edit : ApiRead(d, e) \/ ApiUpdate(d, e)
    \/ ApiDelete(d) \/ ApiLock(d)

SyncNext ==
    \/ \E c \in Client : ClientStep(c) \/ UserStep(c) \/ Lose(c)
    \/ \E s \in Session : SessionStep(s)
    \/ \E d \in Doc : ApiStep(d)

SyncSpec == SyncInit /\ [][SyncNext]_syncVars

-----------------------------------------------------------------------------
(* Properties *)

Local(c, d)  == replica[c].items[d].local
Remote(c, d) == replica[c].items[d].remote

\* Wherever an edit is, so are the edits it was made on top of: an update never
\* reaches a document that lacks what it depends on, which loro would leave
\* pending (flush exports the update from the client's `remote`).
CausallyClosed ==
    LET Closed(v) == v = Null \/ \A e \in v : basis[e] \subseteq v IN
    /\ \A d \in Doc : Closed(docs[d].data)
    /\ \A c \in Client, d \in Doc : Closed(Local(c, d)) /\ Closed(Remote(c, d))

\* A user's edit leaves the user's copy only with the document, when the user or
\* someone else deletes it, or when the server refuses the change.
EditsKept ==
    [][\A c \in Client, d \in Doc :
          \/ Local(c, d) = Null
          \/ Local(c, d)' # Null /\ Local(c, d) \subseteq Local(c, d)'
          \/ UserDelete(c, d)
          \/ Exists(d) /\ ~Live(d)
          \/ /\ Arriving(c) # <<>>
             /\ Head(Arriving(c)) = ChangeError(d, "forbidden")]_syncVars

\* Nothing is on its way, and nobody waits for anything.
Quiescent ==
    /\ \A c \in Client : /\ link[c] # NoSlot /\ replica[c].status = "ready"
                          /\ ~replica[c].flushTimer
    /\ joining = {}
    /\ \A s \in Session : /\ toServer[s] = <<>> /\ wire[s] = <<>>
                          /\ mailbox[s] = <<>> /\ call[s] = NoCall

Agree ==
    \A c \in Client, d \in Doc :
        /\ Local(c, d) = docs[d].data
        /\ Has(replica[c], d) => replica[c].items[d].state = "synced"

\* When everything is quiet, every user sees what the server has, and is told so.
Settled == Quiescent => Agree

\* Seen from the server's messages alone, a client follows the collection.
F == INSTANCE Feed WITH
        view    <- [c \in Client |-> [d \in Doc |-> Remote(c, d)]],
        cursor  <- [c \in Client |-> replica[c].colrev],
        stopped <- {c \in Client : replica[c].stopped}

Follows == F!FeedSpec
=============================================================================
