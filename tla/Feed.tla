-------------------------------- MODULE Feed --------------------------------
(***************************************************************************)
(* A collection and the clients that follow it: what the client library    *)
(* (packages/client/src/collection.ts) does with the server's messages to  *)
(* keep its copies of the server's documents, `view`, and the revision it  *)
(* resumes from, `cursor`.  Both outlive the connection.  The edits a user *)
(* makes on top of a copy are in module Sync; here any session may ask for *)
(* any change at any time.                                                 *)
(***************************************************************************)
EXTENDS Collection

CONSTANTS
    Client,
    Slot,      \* tells the connections of a client apart
    NoSlot     \* no connection

ASSUME FeedAssumption ==
    /\ Session = Client \X Slot
    /\ NoSlot \notin Slot

VARIABLES
    link,      \* the client's current connection
    view,      \* per document: the client's copy of what the server has, or Null
    cursor,    \* `colrev`, as the client sends it when it connects
    stopped    \* clients that no longer reconnect

followVars == <<link, view, cursor, stopped>>
feedVars   == <<colVars, followVars>>

Conn(c) == <<c, link[c]>>

FeedInit ==
    /\ Init
    /\ link = [c \in Client |-> NoSlot]
    /\ view = [c \in Client |-> [d \in Doc |-> Null]]
    /\ cursor = [c \in Client |-> 0]
    /\ stopped = {}

-----------------------------------------------------------------------------

\* AutoReconnect: at once, and after each loss.
Dial(c) ==
    /\ link[c] = NoSlot /\ c \notin stopped
    /\ \E n \in Slot :
          /\ Connect(<<c, n>>, cursor[c])
          /\ link' = [link EXCEPT ![c] = n]
    /\ UNCHANGED <<view, cursor, stopped>>

HangUp(c) ==
    /\ link[c] # NoSlot
    /\ Close(Conn(c))
    /\ link' = [link EXCEPT ![c] = NoSlot]

\* Mutant of Applied: an update waits for the next sync.
AppliedLater(copy, m) ==
    IF m.kind = "change" /\ m.op = "*" THEN copy ELSE m.data

\* The copy of document m.id once message m is applied to it: an update only
\* ever extends a copy the client has.
Applied(copy, m) ==
    IF m.kind = "change" /\ m.op = "*"
    THEN IF copy = Null THEN Null ELSE Merge(copy, m.data)
    ELSE m.data

\* The cursor follows every change, also one that found no copy to extend.
ReadData(c) ==
    LET m == Head(wire[Conn(c)]) IN
    /\ m.kind \in {"doc", "change"}
    /\ view' = [view EXCEPT ![c][m.id] = Applied(@, m)]
    /\ cursor' = IF m.kind = "change" THEN [cursor EXCEPT ![c] = m.colrev] ELSE cursor

ReadSyncComplete(c) ==
    LET m == Head(wire[Conn(c)]) IN
    /\ m.kind = "sync_complete"
    /\ cursor' = [cursor EXCEPT ![c] = m.colrev]
    /\ UNCHANGED view

ReadRefusal(c) ==
    /\ Head(wire[Conn(c)]).kind = "change_error"
    /\ UNCHANGED <<view, cursor>>

Read(c) ==
    /\ link[c] # NoSlot
    /\ Receive(Conn(c))
    /\ ReadData(c) \/ ReadSyncComplete(c) \/ ReadRefusal(c)
    /\ UNCHANGED <<link, stopped>>

\* A sync_error ends the connection for good.
GiveUp(c) ==
    /\ link[c] # NoSlot
    /\ wire[Conn(c)] # <<>> /\ Head(wire[Conn(c)]).kind = "sync_error"
    /\ HangUp(c)
    /\ stopped' = stopped \cup {c}
    /\ UNCHANGED <<view, cursor>>

Lose(c) == HangUp(c) /\ UNCHANGED <<view, cursor, stopped>>

\* A `get` as the client writes it is not understood (see Garbled).
Requests == ChangeRequest \cup Garbled

FeedNext ==
    \/ \E c \in Client : Dial(c) \/ Read(c) \/ GiveUp(c) \/ Lose(c)
    \/ /\ \/ \E s \in Session : ServerStep(s) \/ \E m \in Requests : Take(s, m)
          \/ \E m \in ChangeRequest : ApiChange(m)
          \/ \E d \in Doc : Lock(d)
       /\ UNCHANGED followVars

FeedSpec == FeedInit /\ [][FeedNext]_feedVars

-----------------------------------------------------------------------------
(* Properties *)

\* Resuming is safe: a client that will ask for what changed after revision k
\* has, as it is now, every document last changed at or before k.  Across lost
\* connections, interrupted syncs, and broadcasts of before the sync that arrive
\* after it and move the cursor back.
ResumeSafe ==
    \A c \in Client, d \in Doc :
        Live(d) /\ docs[d].rev <= cursor[c] => view[c][d] = docs[d].data

\* A client never has what the server never had: its copy of a live document is
\* contained in the document.
ViewKnown ==
    \A c \in Client, d \in Doc :
        view[c][d] # Null =>
            Exists(d) /\ (Live(d) => view[c][d] \subseteq docs[d].data)

\* Once changes and lost connections cease, every client that was not told to stop
\* has every document.
Converges ==
    <>[](\A c \in Client \ stopped, d \in Doc : Live(d) => view[c][d] = docs[d].data)

Gone(d) == Exists(d) /\ ~Live(d)

DeletionsSafeFor(c) ==
    \A d \in Doc : Gone(d) /\ docs[d].rev <= cursor[c] => view[c][d] = Null

\* The same for deletions: a client that resumes after a document's deletion no
\* longer has the document.
DeletionsSafe == \A c \in Client : DeletionsSafeFor(c)
=============================================================================
