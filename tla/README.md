# Sinkron in TLA+

Sinkron keeps collections of Loro documents in sync between a server
(`sinkron/`, Rust, tokio actors over PostgreSQL) and clients that edit offline
(`packages/client`, TypeScript), for a note-taking application
(`packages/app`, `packages/front`). This directory holds TLA+ models of the
sync engine, the configurations that check them with TLC, and proofs checked
with TLAPS.

    tlc -workers 2 -config MCCollection.cfg MCCollection    # a run
    tlapm CollectionProofs.tla                              # a proof module

## 1. Inventory

| part | state | operations | talks to |
|---|---|---|---|
| collection actor `actors/collection.rs` | `colrev`, permissions, subscribers; the rows of `documents` | subscribe, unsubscribe, sync, get, create, update, delete | client actors, HTTP API (a channel each way), database, groups |
| client actor `actors/client.rs` | one websocket, a mailbox, at most one request with the collection | initial sync, get, change, forward a broadcast, heartbeat, time out | collection actor, websocket |
| registry `actors/sinkron.rs`, `supervisor.rs` | the collection actors alive | connect, spawn, stop, exit | all actors |
| groups `groups.rs` | members, a cache of each user's groups | create, delete, add, remove, look up | collection actor, HTTP API |
| permissions `permissions.rs`, `client/src/permissions.ts` | roles per action, of collections and documents | check, add, remove | collection actor, application |
| HTTP API `sinkron.rs`, `client/src/client.ts` | none | documents, collections, groups, permissions | collection actor, database |
| client library `client/src/collection.ts` | items (remote and local replica, state), `colrev`, status, flush queue and timer | handle each message; create, change, delete; flush; connect, close | websocket, store |
| local store `collection.ts` 155-273, 748-776 | IndexedDB copy of items and `colrev` | load, save, delete | client library |
| transport `client/src/utils` | a websocket, reconnection and heartbeat timers | open, close, send | client library |
| application `packages/app` | users, spaces, members, invites, posts, files | REST routes | its database, HTTP API, channels, object storage |
| channels `app/src/channels.ts`, `client/src/channel.ts` | subscribers of a user's channel | connect, send, close | application, pages |
| user and space stores `front/src/store` | the user as last fetched, the current space and view | fetch, update, change space; create, edit, delete, file under categories | client library, channels, application |
| accounts `app/src/services/auth.ts`, `user.ts` | users, codes, tokens, the mark of unread notifications | send and check a code, sign out, end other sessions | database, e-mail, pages |
| page `front/src/store`, `index.tsx` | who is signed in, spaces listed, the one shown, a link being followed | sign in and out, switch, join, leave, follow a link, retry | application, client library |
| forms `front/src/utils/forms.ts` | each field's value, verdict, and what of it is shown | change, blur, validate, submit | views |
| editor `front/src/views/documentView`, `loro-slate` | the tree on the screen, operations not yet in the document | commands, normalizing, applying operations, check boxes, images | client library |
| views `front/src/views` | lists fetched from the server, requests under way | fetch, change, take off, add | application, user and space stores |
| shells `packages/tauri`, styles, pictures | | | |

What is hard here:

- *Interleaving.* Every actor is a task of its own. A reply reaches a session by
  another way than broadcasts do and overtakes them. Subscribe and Sync of a new
  session are sent by two different tasks.
- *Loss and reconnection.* A connection may be lost during a sync or with changes
  under way; the server may still be reading the old connection when the client
  is back on a new one. The client resumes from `colrev` alone.
- *Optimistic edits.* Users edit and delete while their earlier changes are under
  way; success is told by the broadcast, refusal by a reply.
- *Half-done work.* The revision and the document are two statements; backup is a
  series of awaited writes; the application changes two systems in turn.
- *Restarts.* A page starts from a local copy whose documents and revision were written
  at different times. Collection actors stop and start, and one that panics leaves its
  handle behind.
- *Two systems.* The application keeps members, posts and locks in its own database and,
  with no transaction, in the sync server; its handlers run side by side between
  two `await`s, and do not look whether a call succeeded.
- *References.* Categories are a tree in one document, what is filed under them is in
  others, and each is merged by itself.

- *Two copies of one thing.* The editor has a tree of its own beside the document, views
  keep lists beside the server's, a page its current space beside the store that shows it,
  a form a verdict beside the value. Each pair is kept equal by hand, with callbacks that
  come late or in another order.

The properties that make each part correct are in section 4. `PROJECT.json` lists
every hazard at its line.

## 2. Plan

Done, in the order of importance:

1. `Protocol`, `Ledger`, `Collection`: the server, under any clients.
2. `Feed`: the server and clients that follow it. Abstracts the next.
3. `Replica`, `Sync`: the client library with users who edit. Refines `Feed`.
4. `CollectionProofs`: for every value of the constants.
5. `Lifecycle`, `Groups`, composed in `Server`: actors that come and go, and what they
   know of groups and permissions.
6. `Store`: `Replica` with its local copy, reloads and backups.
7. `Channels`, `Spaces`, `Content`, `Profile`, `Categories`: the application, its pages,
   and the tree of categories.
8. `Session`, `Forms`, `Binding` and `Editor`, `Accounts`, `Views`, put together in `MCPage`:
   what a page does by itself and with its requests.
9. `FeedProofs`, `MCFeedProofs`, `SyncProofs`, `ServerProofs`, `StoreProofs`, `AppProofs`.

## 3. Modules

| module | models |
|---|---|
| `Protocol` | messages and document values |
| `Ledger` | abstract: what a collection promises about documents and revisions |
| `Collection` | `collection.rs`, `client.rs`, `handle_connect`, as seen by one collection |
| `Feed` | the client's copy of the server (`remote`) and the revision it resumes from, on `Collection` |
| `Replica` | the state of `SinkronCollection` and its handlers, as operators |
| `Sync` | `Collection`, clients made of `Replica`, the websockets between them |
| `Lifecycle` | `actors/sinkron.rs`, `supervisor.rs`: actors, the registry, sessions and requests |
| `Groups` | `groups.rs`: rows of groups and members, the cache, requests in steps |
| `Server` | `Lifecycle` with `Groups` and the permission to read a collection |
| `Store` | `Replica` with the local store of a browser, and a server |
| `Channels` | the channel of a user |
| `Spaces` | `services/space.ts`, `invite.ts` and their routes, on `Channels` |
| `Content` | locks, posts and files, on `Spaces` |
| `Profile` | a page's copy of its user, on `Spaces` |
| `Categories` | the categories of a space in the replicas of some pages |
| `Session` | a page: signing in and out, its spaces, links to documents |
| `Forms` | fields and forms that are validated while they are edited |
| `Binding` | trees, the operations of the Slate editor, and `loro-slate`, which repeats them on a document |
| `Editor` | the view of a document: commands, normal form, `Binding` |
| `Accounts` | sign-in by code, tokens, invites and the mark of unread ones |
| `Views` | what the views of members, notifications, posts, sessions and settings keep and offer |
| `MCRequests` | requests about a space, with their history |
| `MCCategories` | edits of categories by several pages, with their history |
| `MCAccounts` | requests about accounts, with their history |
| `MCPage` | `Session`, `Forms`, `Editor`, `MCAccounts`, `Views`, each by itself, with their history |
| `MCCollection`, `MCFeed`, `MCSync`, `MCServer`, `MCStore`, `MCApp` | the bounded instances TLC checks |
| `CollectionProofs` | theorems about `Collection` |
| `FeedProofs`, `SyncProofs` | theorems about `Feed`, and about `Sync` and `MCSync`, from those about `Collection` |
| `ReplicaProofs` | what each handler of `Replica` does, one document at a time |
| `StoreProofs` | theorems about `Store` and `MCStore` |
| `MCFeedProofs` | a theorem about `MCFeed`, whose history says which clients were cut short |
| `ServerProofs` | theorems about `Lifecycle`, `Groups`, `Server` and `MCServer` |
| `AppProofs` | theorems about `MCRequests`, and so about `Spaces`, `Content` and `Profile`, and about `MCCategories`, `Forms` and `MCAccounts` |

**Documents.** A Loro document is the set of edits it contains: import is union,
version comparison is inclusion, an update exported from a version is the set
difference. What a document shows is a function of its edits and left out. `Null`
is the missing document. Revisions are natural numbers (`bigint` in the
database; the client keeps them as it gets them and only sends them back).

**Collection.** The actor serves one message at a time, so each request is one
action: `ServeSync`, `ServeGet`, `ServeChange`, `ApiChange`, and `Fail` when the
database fails; a failed change may or may not have taken a revision
(`increment_colrev` is a statement of its own). `docs` and `colrev` stand for the
database rows and for `state.colrev`, which agree as long as one actor serves the
collection (see `Lifecycle` above). A client actor is `stage`, `call` (the request
it awaits the reply of), `mailbox` and `wire`; it takes the next message of its
peer only with an empty mailbox, because its `select!` is biased. `SyncReply` may
list the documents in any order: the code orders them by creation. Sessions are
slots reused by later connections, in the order the server notices them closed.
`Readers`, `Creators` and `Editors` are the collection's permissions; `locked`
documents deny updates and deletes to everyone but the API. A change made over the
API is refused or applied; that its write fails half-way is `Fail` with another
author.

**Feed and Sync.** A client has one connection at a time, of a few `Slot`s: with two
slots the server still works on the old one while the new one is in use. In `Sync`,
`link` is the websocket as `send` sees it, and `OnClose`, the event, comes later;
in between `flush` throws at the first item. `Drop` loses what is under way to the
client; what is under way to the server may still be read (`toServer`). `flush`
sends the queued items in any order: the code's set keeps the order of insertion.
The debounced flush is a flag that is taken some time later. A `get` as the client
writes it lacks `col`, and the server's decoder drops it: it is the `garbled`
message, as is a change without `op`, which `flush` sends for an item without local
and remote replica. The application's server reads a document, edits it and
posts the update (`ApiRead`, `ApiUpdate`) with others' changes in between.

**Lifecycle, Groups and Server.** One actor, the hub, is `hub`: it handles a
connection or a request in the steps in which other tasks may run (`HubRead`, `HubAttach`,
`HubSubscribe`), and reads reports of exits in between (`HubExit`). `registry` is its
map of handles; `life` is what has become of an actor's task: told to `stop`, an actor
runs on until it next has to wait, so it may serve more messages, and its exit callback
tells the hub by id alone. A panic runs no callback. What a message says matters only for
whom it keeps waiting: `Drop` is the channel closing, and the oneshots in it. `Groups` has
a step for each statement of `groups.rs` that others may run between; a look-up (`fill`)
is done by a collection's actor, which waits for it (`LookUp`, `ServeRead`). A
session refused by its collection stays subscribed until its peer closes: the client
library does so by logging out. A hub that finds no row of the collection, or whose database
fails, refuses who has come.

**Store.** A page is `closed`, `loading` or `open`. `Open` reads the stored revision
synchronously, `Load` the documents, once the database is open. A backup is a record
of what it has still to write and of the revision it remembered: `BackupWrite` saves
an item as it is by then. A database that is deleted (`clearing`) blocks the next open; the page
that deletes it may be closed meanwhile (`orphan`). A user may log out of a page that is still
loading. The server here is its rows, a revision and the order in which it answers. `outbox` is
what was sent on the present connection, `late` what was sent on those before: the server reads either
next, and answers on the connection that a change came on, so that nobody hears of the
refusal of a late one. `late` is one queue: if several connections are lost, they are read in
their order.

**Spaces, Content and Profile.** A handler of the application is a request that goes from
step to step, `pc`, one for each `await` on the database or the sync server; queued calls
(`calls`) are made one by one, by `MakeCall` or not at all (`CallFails`). A transaction
(creating and deleting a space) is seen when it commits; whoever writes rows that
it has deleted waits (`Writable`). `Crash` ends all requests and undoes what is not committed. The
calls change `exist` and `access`, the sync server's groups. A page's `fetches` are answered in any
order, and its `retry` is the timer of autoRetry, which knows only the latest fetch.

**Categories.** `meta` and `filed` are the replicas of the meta document and of the field
`categories` of documents, last-writer-wins registers as Loro's maps have them; merging one
document says nothing of another. `Builds` is whether `categoryTree` returns: it follows
every reference without a check.

A copy of a document is a new one, in the same space (`CopyDocument`);
what is said of it is that it is neither locked nor published.

**Session.** `page` is the browser's page and storage. A `UserStore` has fetches of the
profile, timers of autoRetry, the spaces `listed`, the `current` one and the collection
`shown`; one that is logged out of is disposed of, but what it awaits still comes. `waits` is
where a handler of links is: for the profile, for the load of the collection, for its
sync. `sent` are requests to join, create, leave and delete a space: the server serves them in
one step (`Serve`, for their steps see `Spaces`), and the answer comes later.

**Forms.** A field is its value, the verdict on it, the debounce timer and the asynchronous
validation under way (`run`, its value), and what `useShowError` remembers. Which fields are
required, checked, and checked asynchronously (`Async`), what values fail, and when errors
show are constants; the run has four values that tell the validations apart.

**Binding and Editor.** A document is a tree of elements and texts, with as many element
types as commands tell apart. Slate is external: `Perform` is what it does to its own tree,
`LoroInsertNode` and so on are what `loro-slate` does to the document, from the
same operations; both are evaluated on the same tree. A command is the
calls of Slate's transforms that it makes, given a tree and a place of the caret; `Run` carries them
out, normalizing after each, and yields the new tree and the operations that led to it.
`NormalizeNode` is the editor's, on top of Slate's own. `OnChange` hands the operations on; `window` says whether the view
still has the collection's document. Others' edits, and refused changes, replace the document.

**Accounts.** One email address. A request to sign in goes from step to step, as in
`Spaces`; what is not awaited (clearing the mark, deleting tokens over the limit)
is a step that comes some time later, or fails where nobody looks (`SweepFails`). A token
remembers which of all uses of tokens was its last, for `lastAccess`: the tokens over the limit are
those of which enough others were used later.

**Views.** One view is open at a time. `calls` are the requests of the page: the server
checks one (`Check`), writes (`Write`, or refuses what is no longer there), and the answer is read
(`Read`) by the view that asked, unless it was closed. What a view drops from a list is found
again by id (`Drop`, where -1 takes the last) or by the index it was drawn with
(`DropAt`), as each does.

**Left out of these modules.** Heartbeats and timers (a timeout is a `Lose`); a
database failure in an API call's read; messages that arrive while the websocket is
closing; malformed data (`bad_request`) and updates Loro cannot import; the actor's
stop and panics in `Collection` (see `Lifecycle`); the API's reads; in `Feed` and `Sync` the
local store (see `Store`).

**Not modelled.** Pictures: single assignments. The content of posts. Deleting
single files (no route does) and orphan files (the code that would delete is commented out).
The expiry of tokens (nothing sets it). Two tabs that share a local store: nothing
coordinates them, so that nothing could be said of what they leave there. Deleting a collection
(`deleteCollection` is a command the server lacks: a call without effect). In the editor: selections of
a range, marks of text, undo, pasting, and how Loro merges two trees (others' edits are
whole new trees). The content and the look of views, image processing, e-mail, storage
drivers: I/O. The desktop and mobile shells and generated code.

## 4. Runs

| run | sessions and clients | bounds | result |
|---|---|---|---|
| `collection` | two sessions, one permitted and one not, that send anything; the API | 2 documents, 2 edits, 4 revisions, a session asks only with fewer than 2 messages on their way to it | holds, no deadlock |
| `feed` | a client that reconnects; the API changes documents | 2 documents, 2 edits, 4 revisions, 2 lost connections or failed syncs | holds |
| `sync` | two clients editing one document | 3 edits, one lock, connections hold | holds |
| `sync_trouble` | one client with two slots; the API edits and deletes | 3 edits, one lock, one lost connection or failed request | holds |
| `server` | two sessions of one user and an API request on one collection, three actors, one writer of groups | one change of groups or permissions, change sent by a session, or panic | holds |
| `store` | one page, with reloads; others change and delete | 2 documents, of which the user edits one, 2 edits, 3 revisions, one close, log-out, loss or refusal, `Brief` | holds |
| `app`, requests | an owner, an admin or reader with a page, and an invited user | 2 requests at once, 3 requests and mishaps in all, the last request alone, 2 invites (the first of which is updated or cancelled), roles asked for as in `Requests`, 1 document and 1 copy, 2 files, room for 1 | holds |
| `app`, categories | two pages | 4 edits, 2 categories, 1 document | holds |
| `app`, session | one page, two spaces, one link | 5 events of the user, of others and of the network, 2 sign-ins, 2 fetches at once, 3 collections | holds |
| `app`, form | a form of two fields, one of them required and validated asynchronously | 4 values; the form may be edited for ever | holds |
| `app`, editor | three documents with lists, links, code, check boxes | 2 commands with what others do, or 1 and 3 other events | holds |
| `app`, accounts | one email, two devices, two codes, sent in the order of their names as they are alike | 5 events, 2 requests to sign in, 1 token kept | holds |
| `app`, views | the page of an admin, or owner, two other members, three invites | 2 requests at once, 5 clicks, or 3 and one failure or change by others | holds |
| `feed_cut_sync` | as `feed`, one lost connection | | violated |
| `sync_offline` | one client, one lost connection | 3 edits | violated |
| `sync_reload`, `sync_delete` | one client, connections hold | 3 edits | violated |
| `sync_late_subscribe` | as `sync_reload`, Subscribe may come after Sync | 3 edits | violated |

Properties of the passing runs:

- `TypeOK`, `SyncTypeOK`, `ServerTypeOK`, `StoreTypeOK`, `AppTypeOK`.
- `RowsOrdered`: no two documents share a revision, none is ahead of the collection.
- `Ledger`: the collection implements `Ledger`: ids are used once, documents grow
  while they exist, deletions are final, every change has a revision of its own.
- `FeedInOrder`, `FeedTruthful`, `FeedUnbroken`: broadcasts reach a session in the
  order of revisions, tell the truth about documents that have moved on since, and
  none is missing.
- `ResumeSafe`: what a client does not have, it will be sent when it resumes; the
  argument for resuming from a single number, which may move *back* when a
  broadcast older than the sync arrives after it.
- `ViewKnown`: a client never has of a live document what the server has not.
- `DeletionsSafeIfWhole`: the same as `ResumeSafe` for deletions, for clients whose
  first sync was not cut short.
- `Converges`: once changes and losses cease, clients have every document.
- `CausallyClosed`: every replica contains what its edits were made on top of, so an
  update never lacks its dependencies.
- `EditsKept`: a user's edits disappear only with the document or by a refusal.
- `SettledIfCalm`: when nothing is under way every user sees what the server has and
  is told so, with connections that hold and users who are not hasty.
- `DeletedStaysDeletedIfCalm`: what a user deletes does not come back.
- `Follows`: `Sync` implements `Feed`.
- `OneActor`: a collection never has two living actors, which would count revisions
  each for itself.
- `RegistryHonest`: the hub knows an actor that has ended only until it reads the one report
  of it.
- `AttendedIfUncrossed`: a session that is synced is subscribed, to an actor that stays, and
  no session that is gone stays subscribed.
- `CacheFresh`: a cached user is what the database says, or about to be dropped.
- `VerdictRight`: a sync is allowed or forbidden as the database would have it.
- `AllAnswered`: whoever asks or waits is answered or turned away in the end.
- `ResumeSafeIfWhole`, `NoRevenantsIfSaved`: `ResumeSafe` across restarts, and the same
  for deletions.
- `SavedStaysSaved`: an edit that is saved and not yet on the server stays saved.
- `SettledUnlessLost`: what a page left unsent is sent by the next.
- `AccessFollowsRole`: a user is in the group of the sync server that the role gives.
- `RowsEarned`: nobody is a member more often than they accepted to be, and a high rank comes from an owner.
- `ContentAgrees`: a document's fields say how it is locked and published, and the storage
  in use is that of the files.
- `ProfileFreshIfTold`: a page that nothing is on its way to shows the user's role.
- `TreeWholeIfOrderly`: pages that agree have a tree with every category in it.
- `PageAtHome`: what a page shows is the current space, which is one it lists; links are looked
  for in their space; nothing that is not shown keeps a connection.
- `LinksAnswered`: no link stays pending when nothing is under way.
- `VerdictsCurrent`: a field's verdict is on the value it has, and a form is
  submitted with good verdicts only.
- `EditsLand`: what a command does to the screen is in the document, throws nothing on the way,
  keeps the tree normal, and changes the text in one place.
- `AccountsInOrder`: one account for an email, with a space and no more tokens than are
  kept; an unseen invite is marked.
- `ViewsTrue`: a list shows what the server has, and what a view offers is permitted.

What these except is what the code does and the comments of the MC modules name:

- `crossed` (`MCServer`): someone comes while another is going. The registry may then hand
  out an actor that is stopping, or the Unsubscribe of a dead session overtake its
  Subscribe. So may a client that reconnects or reloads. Panics leave a dead handle in
  the registry for good.
- `doubtful` (`Groups`): users whose rows changed between a reader's query and its storing
  of the result, and members of a deleted group. `renewed` (`Server`): collections whose
  permissions changed under a running actor.
- `mixed` (`MCStore`): two backups at once, or a revision that outlived its
  database. `forgotten`: documents whose change was not queued for backup.
  `undone`: documents the user deleted, or whose change was refused: a refusal is not saved
  either. `lost`: until the next page, what was sent on a connection that is gone. That includes a
  creation that the last page sent and the server reads after the new page has connected: its
  broadcast settles the item, what was edited since is queued without a flush, and the new page's
  own creation, which had those edits, is refused.
- `mixed`, `muddled`, `spoilt` (`MCRequests`): members, documents, files about which
  two requests were under way at once, or one was cut short, had a call fail, or was
  the user's own leaving. `missed`: pages that were not told of a change, the
  channel being down or the change being an invite's, a leaving or the space's
  deletion, or that had two fetches at once.
- `crossed` (`MCCategories`): edits that two pages made before they had each other's, of which one
  deletes a category or both move one; the deletion of a category that has
  subcategories; and moving a category below its own descendant.

- `strayed`, `hasty`, `misled`, `adrift` (`MCPage`): a store whose current space was changed by
  an answer (`updateUser`, `leaveSpace`), which leaves the old one shown; a collection
  that was left while it was loading, which connects all the same; a link looked for in a
  strayed store; one whose handler waits for what will not come, the profile not being
  fetched again, or was left.
- `meddled` (`Forms`): a field whose error was set, or cleared, by hand.
- `mishaps` (`MCAccounts`): two accounts made at once for one email (`doubled`), one left
  without a space by a failure (`homeless`), an invite told of while the mark was being
  cleared (`unmarked`). `unswept`: accounts whose tokens over the limit failed to be
  deleted, until they are looked through again.
- `unsure` (`Views`): what others changed since the view was told, what was changed by a
  request nobody heard the answer of, and what two requests of one view about the same
  thing may get wrong: one invite cancelled twice takes another off the list.

Each of those of `MCPage`, `MCAccounts`, `Forms` and `Views` was found necessary: without it the
run reports a violation.

These exceptions have a price. In the cases they name the code does what the hazard fears, so that
no property can claim otherwise; the properties named for such a hazard show that nothing *else* leads
there, and not that the hazard is met. This concerns edits of hasty users and edits that are lost as
another is refused; what is not queued for backup, overlapping backups and the revision that
outlives its database; sessions that come while others go; a cache filled late or of a deleted group, permissions changed under an actor; requests of the application about
the same member, document or file that overlap or fail; missed messages and overlapping fetches;
crossing edits of categories; strayed stores, hasty collections and the links looked for in
them; a document replaced under the editor; two sign-ins at once; answers of views that cross. The notes of the
hazards say which flag is meant. Without exception are `RowsOrdered`, `Ledger`, the three properties of
broadcasts, `ResumeSafe`, `ViewKnown`, `CausallyClosed`, `Follows`, `OneActor`, `RegistryHonest`,
`RowsEarned` and the properties of liveness.

In `Sync`, *hasty* is a user who edits or deletes a document between the moment its creation
is sent and the moment it is broadcast. `SettledIfCalm` excepts them, and the runs
`sync_reload` and `sync_delete` show why. All these are histories of the MC
modules (`trouble`, `hasty`, `gone`, `cut`), never guards of the code; only `Brief`, in `MCStore`, lets
two of them bound a run.

**Bounds.** Four revisions let a document be created, updated, deleted and
refused for its id, or two documents be interleaved; two edits tell a merge from a
replacement; three edits let two users edit concurrently on top of a shared one.
Two connections lost let a second sync be interrupted. Two slots are the old and
the new connection. What needs only one of two documents is checked with one,
since a document's handlers read no other's state but through `colrev`, which
`collection` and `feed` check with two. `Faults` are the requests that may fail.
In `server` three actors let one be replaced twice; two sessions and a request let one come
while another goes, with a third party; the first event of each kind is enough for
each exception, and two of them only mix exceptions. In `store` one mishap may come at any
of the steps of a backup, a load or a clearing, and everything after it is what recovers;
the user edits and others change only with an empty outbox, since `Sync` has what overlaps
there. `Brief` keeps the run within minutes: what a user does waits for late messages too, and a store that is
`mixed` is not edited or saved any more, nor does anybody else delete once the client is `cut`, since what
the properties still say there is little; the theorems hold with `Brief` or without. In `app` two requests overlap at any two of their steps, a third event is the mishap
or what follows (`LastAlone`; the theorems about requests have no such bound); requests and edits of categories share nothing and are explored apart, as are the parts of `MCPage`. Two sign-ins let a store that is disposed of meet its
successor; five events let a link be followed while one space is left for another. In the editor
every command is tried at every place of the caret of three documents, and again after what
it made of them; in the views two requests and a third click are what it takes to
answer in the wrong order.

**Reachability.** `ServeGet` and the refusals for lack of permission to read or
create fire in `collection`. In `Sync` no get reaches the server, so `get_error` and
the not_found branch of `HandleChangeError` (no rows are ever removed) are never
taken; they are kept as the code has them.

**Fairness.** `feed` and `server` check liveness. In `server` the hub, the sessions, requests
and actors are tokio tasks: a task that has something to do runs, and a handler ends,
one way or another; who is read by the hub first is not said. Nobody has to
ask, send, leave or panic. `Attend`: the client's AutoReconnect
redials after each close and the event loop delivers what arrives. `Healthy`: tokio
runs an actor that has a message; PostgreSQL answers. Nothing obliges anybody to
change documents, to lose connections or to fail, and losses are finite (two):
`Converges` is about what happens once they cease. `CHECK_DEADLOCK FALSE` in
all but `collection`: the changes are bounded and a quiet system stops. `collection`
never stops, and its cfg checks that.

**SubscribeFirst.** The server spawns the client's actor and then subscribes it
(`actors/sinkron.rs` 154-167): either message may come first. With `FALSE` both
orders happen (`collection`, and so all of its properties, and the theorems).
`feed` and `sync` take the usual order, `TRUE`; `sync_late_subscribe` shows what
the other does.

### What the violations show

1. `feed_cut_sync` (`DeletionsSafe`): revision 0 is taken for an empty client
   (`collection.rs` 326), but a client whose first sync was cut short has documents
   and revision 0. What is deleted before it is back stays with it for good.
2. `sync_offline` (`SettledAfterTrouble`): an item sent on a connection that is then
   lost is in state ChangesSent and in no queue (`collection.ts` 805-807); nothing
   sends it again after reconnecting.
3. `sync_reload` (`Understood`): the client's `get` lacks `col`, and the server drops
   it; reloading a document after a refused change never happens.
4. `sync_delete` (`DeletedStaysDeleted`): a document deleted while its creation is
   under way comes back (`collection.ts` 862-865).
5. `sync_late_subscribe` (`SettledIfCalm`): a change served between Sync and Subscribe
   is broadcast to the others only; its author waits for it forever.

## 5. Proofs

Eight modules hold proofs, for any sets of sessions, clients, documents, edits, actors,
users and requests, any permissions, faults and order of messages. They assume what the modules
assume of their constants: documents are finitely many, the API is no session,
permissions are sets of sessions, a session is a client and a slot, the API writes to
documents, requests and invites are finitely many, two of the users are not the owner, and the like.

| module | theorem | statement |
|---|---|---|
| `CollectionProofs` | `TypeCorrect` | `Spec => []TypeOK` |
| | `RowsAlwaysOrdered` | `Spec => []RowsOrdered` |
| | `KeepsLedger` | `Spec => Ledger` |
| | `BroadcastsInOrder` | `Spec => []FeedInOrder` |
| | `BroadcastsTruthful` | `Spec => []FeedTruthful` |
| | `BroadcastsUnbroken` | `Spec => []FeedUnbroken` |
| `FeedProofs` | `FeedImplementsCollection` | `FeedSpec => Spec` |
| | `ResumeAlwaysSafe` | `FeedSpec => []ResumeSafe`, if `SubscribeFirst` |
| | `ViewAlwaysKnown` | `FeedSpec => []ViewKnown` |
| | `NothingMissed` | what a connected client lacks is on its way to it, if `SubscribeFirst` |
| | `DeletionsAlwaysSafeFor` | a client that keeps its connection until its first sync is answered has no copy of what was deleted up to its cursor, if `SubscribeFirst` |
| | `DroppedForGood` | a copy goes only to word of its deletion, and never comes back |
| `MCFeedProofs` | `DeletionsAlwaysSafe` | `MCSpec => []DeletionsSafeIfWhole`, the property of the run, if `SubscribeFirst` |
| `SyncProofs` | `SyncTypeCorrect` | `SyncSpec => []SyncTypeOK` |
| | `FollowsFeed` | `SyncSpec => Follows`, the refinement of `Feed` |
| | `EditsAlwaysKept` | `SyncSpec => EditsKept` |
| | `CausallyClosedAlways` | `SyncSpec => []CausallyClosed` |
| | `NeverNotFound` | nobody is told that a document does not exist |
| | `EditorsResumeSafe` | `ResumeSafe` for the clients of `Sync`, if `SubscribeFirst` |
| | `DeletedStaysGone` | `MCSpec => []DeletedStaysDeletedIfCalm`, the property of the run |
| | `SettlesIfCalm` | `MCSpec => []SettledIfCalm`, the property of the runs, if `SubscribeFirst` |
| `ServerProofs` | `OneActorAlways` | `LifecycleSpec => []OneActor` |
| | `RegistryAlwaysHonest` | `LifecycleSpec => []RegistryHonest` |
| | `NobodyForgotten` | who waits, waits for a living actor that owes the answer |
| | `CacheAlwaysFresh` | `GroupsSpec => []CacheFresh` |
| | `ServerImplementsParts` | `ServerSpec => LifecycleSpec /\ GroupsSpec` |
| | `ServerTypeCorrect` | `ServerSpec => []ServerTypeOK` |
| | `ServerKeepsParts` | `ServerSpec => [](OneActor /\ RegistryHonest /\ CacheFresh)` |
| | `VerdictsRight` | `ServerSpec => VerdictRight` |
| | `AttendedIfApart` | `MCSpec => []AttendedIfUncrossed`, the property of the run, if `c1 \in Col` and `{g1} \in Perm` |
| `StoreProofs` | `StoreTypeCorrect` | `StoreSpec => []StoreTypeOK` |
| | `ResumesWhereItsDocumentsAre` | `StoreSpec /\ []Orderly => []ResumeSafe` |
| | `ResumesUntilMixed` | `MCSpec => []ResumeSafeIfWhole`, the property of the run |
| | `SavedAlwaysStaysSaved` | `MCSpec => SavedStaysSaved`, the property of the run |
| | `NoRevenantsUnlessUnsaved` | `MCSpec => []NoRevenantsIfSaved`, the property of the run |
| | `SettlesUnlessLost` | `MCSpec => []SettledUnlessLost`, the property of the run |
| `AppProofs` | `RequestsTypeCorrect` | `RequestsSpec => [](SpacesTypeOK /\ ContentTypeOK /\ ProfileTypeOK)` |
| | `RowsAlwaysEarned` | `RequestsSpec => []RowsEarned` |
| | `AccessAlwaysFollowsRole` | `RequestsSpec => []AccessFollowsRole` |
| | `ContentAlwaysAgrees` | `RequestsSpec => []ContentAgrees` |
| | `ProfileFresh` | `RequestsSpec => []ProfileFreshIfTold` |
| | `TreeWhole` | `EditingSpec => []TreeWholeIfOrderly` |
| | `VerdictsAlwaysCurrent` | `FormsSpec => []VerdictsCurrent` |
| | `AccountsAlwaysInOrder` | `AccountsSpec => []AccountsInOrder` |

`SubscribeFirst` is an assumption of six theorems because they are false without it: the run
`sync_late_subscribe` shows a client that misses a change when the server subscribes it
after its sync. The others hold in both orders.

**Collection.** `TypeOK` is inductive. Every action either leaves `docs` and `colrev` alone, takes a
revision without writing a row, or is an accepted change (`StorageStep`), whose row
before and after is described by `AcceptedRow`; `RowsOrdered` and the refinement of
`Ledger` (each step is a `Create`, `Extend`, `Delete`, `Skip` or a stutter) follow
from `TypeOK /\ RowsOrdered` and these.

**Broadcasts.** Their properties are not inductive. Their invariant is

    FeedInv == /\ TypeOK /\ RowsOrdered
               /\ FeedIssued         \* no broadcast is ahead of the collection
               /\ MailSubscribed     \* only subscribers whose link is up have mail, and it is changes
               /\ FeedInOrder /\ FeedTruthful /\ FeedUnbroken

`FeedIssued` makes a new broadcast the latest of its queue; `MailSubscribed` makes
"the oldest broadcast" exist and carry a revision, and a new subscription start with
an empty mailbox. The steps on queues are of four shapes (`Relayed`: a reply is
appended to a wire; `Forwarded`, `Received`, `Cut`), each preserved once
(`FeedStep`), and only an accepted change adds to the mailboxes.

**Feed.** Since `Feed` implements `Collection`, `FeedInv` holds of it. What a client
has says nothing without what is on its way to it, so that `KnownInv` adds: which session is a
client's (`Linked`, `Lines`), that an update carries a version, and that every
document on its way is contained in the row (`DocTrue`); it is what `ViewKnown` needs.
`FollowInv` adds what resuming needs. `WiresOrdered` and `Mail` describe each queue:
a reply to a sync, with the broadcasts it overtook behind it. `Follows(c, s)` says that
what a client lacks is awaited from its sync or on its way (`Covered`), that an update finds a
copy to extend (`NotBlank`), and that the revision of a `sync_complete` comes with all
that it stands for (`SyncWhole`). A cursor that moves back is no exception: what
changed after it is then already there, or behind the broadcast that moved it. The steps of
the system are sorted by what they do to one session (`StepKinds`) before any
conjunct is looked at.

Deletions need more, since a client with revision 0 is not told of any. `GoneInv` is `Follows` for what is
gone: the client has no copy, or a sync with a revision other than 0 is awaited, or word of it is
on its way (`CoveredGone`, `SyncWholeGone`); and until its first sync is answered, a client has
no copy of anything (`Empty`), which is what a lost connection would spoil. `Uncut` says that
none is lost then; in `MCFeed` it is the history `cut` that says so.

That a copy that went does not come back (`DroppedForGood`) needs the order in which things
come, and neither `SubscribeFirst` nor an unbroken connection. A sync may tell of a deletion
ahead of the broadcast that creates the document, which would bring it back; but only to a client
that never had it (`Earlys`). Once a copy goes, nothing on the client's wire
gives it the document (`Dropped`), and a row that is deleted gives nothing new.

**Sync.** The proof works in two layers. `SyncInv` is `SyncTypeOK` and `KnownInv` of `Feed`, under the
refinement mapping, with: items that are not there are all alike (`Blank`), ids are made by
clients (`Born`), a request but for creation is of a document that exists (`Pinned`), and nobody is
told otherwise (`Found`). Each handler of `Replica` is first described one document at a time
(`ReplicaProofs`), then every step as one of `Moves`, in which
a client's copies are kept, written to, deleted from, or changed by a message, or `Serves`, in
which the server answers or accepts. Each is a step of `Feed`, whence the
refinement: `Pinned` and `Found` exclude the one handler, of not_found, that would reset `remote`
without a message that `Feed` knows. `EditsKept` follows from `SyncInv` and what a step may do to
`local` (`Effect`, with `LetterTrue`: a message without data is about a document that was
deleted). `WholeInv` adds to `CausallyClosed` what is under way: a document
to be created is whole, an update is whole with what the row has by then (`Sound`;
it is here that `ViewKnown` is needed, since `flush` exports from `remote`), and the
application's drafts rest on rows that only grow.

`DeletedStaysDeletedIfCalm` is about a user's view, of which `Feed` knows nothing: an item may be
gone for the user whose `remote` the client still has. Its invariant (`DeletedInv`) is that a
document that a user deleted is gone from `local` and in one of three situations (`Forgotten`):
its remote copy is still there, so that whatever comes is only written to `remote`; the
copy was dropped, and `DroppedForGood` has the rest; or it was deleted before it
was sent, and then nobody else has it, no request is about it and the server does not know it
(`Nowhere`). The third is why the user must not be hasty: documents that
were never sent are their maker's alone (`YoungAlone`), unless one is touched
while its creation is under way. `hasty` and `gone` are histories of `MCSync`, and so is its
specification; the theorem holds for any bounds of it.

`SettledIfCalm` speaks of states in which nothing is under way, and is far from inductive: the
invariant has to say, while everything is under way, that each difference between a user's copy and the
server's row has something that will undo it (`Settling`). An edit that the client's `remote` lacks
is on the server, or in an update that is sent and not answered, or in a queue whose flush is
due (`EditComes`, `Late`); unless the user is about to hear that it was refused (`Denied`). The same goes
for a deletion (`DeletionComes`), for a document that the server is to create (`CreationComes`), and for an
item that waits for an answer although it is up to date (`WordComes`). `Formed` says what shapes an item
may have in between, `LinkFits` what a client's status says of its connection, and a client that was
told that its sync failed is exempt (`Down`).

Each step is looked at from both sides. The server never loses a request without either its effect or a
refusal being on the way to who asked (`Serving`, `Resolved`); a session whose client is not `Down` subscribes
before its sync is answered (`Joins`), and so hears of every deletion. A client's step either leaves an item
as it is with all that is to come of it (`Undisturbed`, `FitsKept`); or the item is new, edited, or
sent (`Flushes`, `FlushFits`); or a message settles it on what the server has (`Handled`, `SettledFits`).
The proof needs the others: `RemoteKnown` of `Feed` for an edit that an update brought back, `GoneInv`
for deletions (no connection is lost, so no first sync is cut short), and `YoungAlone` for a document
that is to be created, of which there must be no second copy or request (`OneCreation`). At the end, when
nothing is on its way, `Covered` says that the client's `remote` is the server's row, and `Settling`
that the user's copy is `remote`.

**Lifecycle, Groups, Server.** `OneActor` needs to know that the registry names every actor that
lives (`Registered`), that reports of exits are of actors that ended, once each (`ReportsMatch`),
and what the hub holds between two of its steps (`HubHonest`, `Attaching`).
`LifecycleInv` adds who owes an answer to whom (`OwedWait`, `WaitingHeld`): a message dropped with
an actor's queue ends its sender's wait. `FreshInv` extends `CacheFresh` to what a reader has read
and not yet stored. `ServerInv` joins both invariants with what ties the parts: whose groups an
actor is reading (`FillsMatch`), and that its permissions are those of the database unless
renewed under it (`PermsCurrent`); `VerdictRight` is a property of the step that answers. The
initial states of `Lifecycle` and `Groups` have any rows in the database; the instances for TLC
start from some.

`AttendedIfApart` is about `MCServer`, whose histories `crossed` and `panicked` its property excepts,
and proves more than it: every session that was let in, from the hub's answer on, has a running actor
that counts it as a subscriber or has its Subscribe on the way (`HereAttended`). While nobody comes as
another goes (`~(Coming /\ Going)`), the actor the hub hands out cannot be stopping or ended, since the
arrival itself is a coming; a session's Subscribe never outlives the session (`StillThere`), so that
handling it adds no ghost; and when an Unsubscribe is handled nobody is about to be subscribed, so that
an actor stops only when nobody is left. That `c1` is a collection and `{g1}` a permission is what
the module's CreateCollection needs.

**Store.** `Orderly` is a hypothesis since `ResumeSafe` is false without it. When a backup begins
during another and ends first, it stores its revision while documents of the other are not yet
written, and the page may close then. And logging out deletes the database before the revision,
so that a page opened in between reads a revision without documents. TLC finds both on the
instance of `MCStore`, which remembers in `mixed` whether it was ever not orderly.
`StoreInv` says what makes resuming safe otherwise:

    StoreInv == /\ BaseInv      \* types; no row is ahead of the server's revision
                /\ Unheard      \* of a document that was never created nobody has anything
                /\ Pages        \* what there is while the page is closed, loading, open, offline
                /\ RevsKnown    \* every revision anywhere is one that the server gave out
                /\ Followers    \* of each live document: Arriving, Stored, Resumes

`Arriving` is about the messages to the client: what is on its way contains the copy, grows, and
is all that a revision stands for by the time it arrives (`Tracked`); who is online gets the
latest, and an update only of what it has (`Followed`). `Stored` says that the stored item is of
the stored revision, and of the one a loading page has read. `Resumes` adds that a backup under way
ends with each document as of the revision it began with (`Written`): an item is there, or
still to be written, or queued. It is here that a second backup would do harm, and that
a handler that changes a copy without queueing it would; those that do (`forgotten` in `MCStore`) are
about documents that are gone. The steps are sorted by kind (`StoreSteps`): what the user does is one
(`Aside`), each change of a document another (`Changes`).

`SavedStaysSaved` needs no order of backups: its invariant is that a page has the edits that are
stored (`SavedHere`), which no step takes from it but the user's deletion, a refusal, or word of
a deletion (`LocalSteps`), and that is only sent of documents that are gone (`Obituaries`).

`NoRevenantsIfSaved` is the same argument for a document that is gone (`Buried`): word of the
deletion is the last there is on its way, and comes before the revision that it is part of (`Ends`);
the store has nothing of it if its revision is as late (`Erased`); and once any revision of the page's
is (`Reached`), the page has nothing of it and none is to come (`Settled`). It is about both copies, the
server's and the user's (`Held`), since a deletion takes both; what the page has not and the store has
is queued for backup, or being written (`Backed`). `forgotten` and `cut` are the two ways
in which the code breaks it: a copy dropped without being queued for backup, and a client that has
documents asking for all there are, to which deletions are not part of the answer.

`SettledUnlessLost` is to the store what `SettledIfCalm` is to `Sync`, and is proved like it, of a page from
its loading on (`InHand`): but here pages come and go, and what is on the connection may be the last page's.
Until the sync is complete, what differs from the server's copy is queued (`Waiting`; it is what Load
tells from the stored copies alone), what the page lacks comes before the sync is complete (`Comes`), and no
creation is on its way. From then on a document that the server has not acknowledged was sent, and the
server has it or is to read it (`New`); and what the user did to one that it has acknowledged has a flush
due, or is denied, or was sent, with an answer to come if the item awaits one (`Due`, `Asked`). `Shapes`
says what items look like meanwhile, in the store too. An edit on top of a
creation under way would be sent as a second one: `NothingDropped`, which `lost` remembers, excludes
it. Connections matter here: a page that is not online has sent nothing on the present one
(`Silent`), so that a new page starts with none; and while nothing is `lost` none of the changes still to be read
from an earlier one is a creation (`Timely`): one that comes late is accepted like another user's
change, or refused with nobody to hear of it. When all is quiet, `Followers` says that the page has the server's row, `InHand` that
the user's copy is the same, and `Buried` that of a document that is gone there is nothing.

**Requests.** `RequestsSpec` is `MCApp` when it is about requests. `Asked` and `Well` say what
requests there are. `RowsEarned` is about rows alone, but what a handler will write it has
checked some steps before; `EarnedInv` says of each request what still holds of what it has
checked: that what is about to be written was asked for by an owner (`Entitled`), that an
accepted invite, which is to be a row, is counted (`Joining`), and that an invite which
was found there is not undone, though it may be declined, cancelled or deleted with its space
in between.

`AccessFollowsRole` holds between requests, so that `AccessInv` says what each request has done so
far. `SpaceStage` is about all of them: which calls one may have queued (`Queued`), that only one
creates the space, and what is there before and after. `InOrder` is about a user who is not `mixed`: at
most one request is about the user; one that has not come to its calls has changed nothing
(`Early`), and one that has leaves the user, after each call, nearer to the role (`Halfway`). That a
call has its effect needs the group to exist, and for that nobody must be deleting the space; and a user
with two rows, or two invites to accept, would have the access of either, so `Guest` says that
a user who is invited is no member yet. A request of which the user is not part changes nothing of this
(`OrderOther`).

`ContentAgrees` is about what handlers write in two places, one after the other: a document's
lock, its post, and the counter of the storage. `ContentInv` says what the one request about a
document that is not `muddled` has made of it at each of its steps (`Marked`), and an upload of
the files unless they are `spoilt` (`Uploaded`); that there is only one is itself part of the invariant
(`DocInOrder`, `FilesInOrder`), since the histories remember a second one when it begins. It rests on
`SpaceStage`: a deletion of the space takes its files from the storage before it takes the
rows, and meanwhile the counter says nothing.

`ProfileFreshIfTold` is about pages that are told of a change after it is written. `PageInv` says
that a page which has not `missed` anything shows the role, or something is under way that will
make it (`Informed`): a channel's message, a read, what was read and not yet shown, a retry, or a removal
between deleting the row and telling the user. Messages are there only for users with
a channel, so that a lost channel always counts as missed and a restart, which empties all of them, never
goes unnoticed.

**Categories.** `EditingSpec` is `MCApp` when it is about categories, with any number of pages,
categories and documents. Registers alone do not keep a tree: each merge is per category, and
the maps of two pages may join to a ring that neither has. What excludes it is order. A page stamps
each write to its map beyond all that the map shows, and others have of a page nothing that it has not
itself (`Stamped`), so that who lacks one of its writes has none of its later ones (`Causal`); this
holds whatever is edited. While edits do not cross (`Orderly`) there are two cases. Either
only one page has edited since all agreed: then it has all that others have (`Ahead`), and its own tree
is whole. Or nothing was deleted and only one page moved: then a category that two pages
have differently was moved later by the one or the other (`Joint`), by the same page, and hence one of
the two has the later write wherever they differ (`OneAhead`). A ring of what they join to would be
a ring of that one, or of the other's categories that it lacks (`TreeJoins`); what was deleted
before is deleted for all, and documents are filed under what some page has. Once all agree, either case
gives every page a whole tree, and the next edits begin from it (`OrderlyAnew`). The invariant was
checked with three pages too.

**Forms.** `FormsInv` says of each field that its verdict is right for the value it has, or a validation of
that very value is pending: due, or under way with that value, which no typing leaves so, since
each change cancels what was pending before it begins anew (`Judged`). The field's modes, the
values that fail and the fields there are may be any.

**Accounts.** What cannot be seen when all is quiet is that the deletion of tokens, which finds some and deletes
them later, was begun late enough. `Tidied` says that of the tokens of an account, those that no
deletion has found yet (`Kept`) are few, unless a deletion is still to look, or the last one failed. A deletion
that looks leaves the `MaxTokens` used last (the lemma `FewLast`, since no two uses are alike);
a use in between adds none, and a new token comes with a deletion of its own. A found token may
be used again before it is deleted, and goes all the same. `OneMade` and `Homed` say what sign-ins under way
will add, and `NoticesInv` that every invite told of is marked, seen, or told while the mark was being
cleared.

The inductive invariants, or their conjuncts, were checked by TLC on the instances of section 4 before
they were proved.

**Model-checked only.**
- Liveness (`Converges`, `AllAnswered`), which TLAPS cannot prove.
- `AppTypeOK`, and of what is in `MCPage`, `PageAtHome`, `LinksAnswered`, `EditsLand` and `ViewsTrue`.
  `Binding`, `Editor` and `MCPage` use RECURSIVE operators on trees, which puts them out of
  reach.
