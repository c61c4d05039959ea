------------------------------ MODULE Content -------------------------------
(***************************************************************************)
(* What the application does to the documents of a space and keeps beside  *)
(* them: the lock of a document, its publication as a post, its copies,    *)
(* and the files uploaded to the space (lockDocument and so on in          *)
(* services/space.ts, services/post.ts, services/file.ts, their routes).   *)
(*                                                                         *)
(* The sync server reads and changes a document in one step.  A change is  *)
(* made of what was read a step before, and fails when the document has    *)
(* been deleted by then.                                                   *)
(***************************************************************************)
EXTENDS Spaces

CONSTANTS
    Doc, File,
    StorageLimit     \* spaceStorageLimit, in files

ASSUME ContentAssumption ==
    Doc \cup File \subseteq Target /\ StorageLimit \in Nat

VARIABLES
    docs,        \* the documents the sync server has had: is it there, may members
                 \* edit it, and its fields isLocked and isPublished
    posts,       \* documents that have a row in the table of posts
    stored,      \* files in the object storage
    files,       \* rows of the table of files
    usedStorage  \* of the row of the space

fileVars    == <<stored, files, usedStorage>>
contentVars == <<docs, posts, fileVars>>

NewDoc == [there |-> TRUE, open |-> TRUE, locked |-> FALSE, published |-> FALSE]

ContentTypeOK ==
    /\ DOMAIN docs \subseteq Doc
    /\ docs \in [DOMAIN docs -> [there: BOOLEAN, open: BOOLEAN, locked: BOOLEAN,
                                 published: BOOLEAN]]
    /\ posts \subseteq Doc
    /\ stored \subseteq File /\ files \subseteq File /\ usedStorage \in Nat

ContentInit(present) ==
    /\ docs = [d \in present |-> NewDoc]
    /\ posts = {} /\ stored = {} /\ files = {} /\ usedStorage = 0

Set(d, doc) == docs' = [docs EXCEPT ![d] = doc]

MayManage(r) == r \in {"admin", "owner"}

\* A member deletes a document in the editor.
DeleteDoc(d) ==
    /\ docs[d].there /\ docs[d].open
    /\ Set(d, [docs[d] EXCEPT !.there = FALSE])
    /\ UNCHANGED <<posts, fileVars, spacesVars>>

-----------------------------------------------------------------------------
(* Locks *)

\* The permissions are read, and written; then the document is read, and its field
\* written.  The members' group is all that the permissions differ in.
LockDocument(q) ==
    LET d == req[q].on  lock == (req[q].op = "lock") IN
    /\ req[q].op \in {"lock", "unlock"}
    /\ \/ At(q, req[q].op, 2) /\ Advance(q) /\ UNCHANGED docs
       \/ /\ At(q, req[q].op, 3)
          /\ Set(d, [docs[d] EXCEPT !.open = ~lock])
          /\ Advance(q)
       \/ At(q, req[q].op, 4) /\ AdvanceIf(q, docs[d].there) /\ UNCHANGED docs
       \/ /\ At(q, req[q].op, 5)
          /\ IF docs[d].there THEN Set(d, [docs[d] EXCEPT !.locked = lock])
                              ELSE UNCHANGED docs
          /\ Done(q)
    /\ UNCHANGED <<posts, fileVars, dbVars, syncVars, channelVars>>

-----------------------------------------------------------------------------
(* Posts *)

SetPublished(q, on) ==
    LET d == req[q].on IN
    /\ IF docs[d].there THEN Set(d, [docs[d] EXCEPT !.published = on])
                        ELSE UNCHANGED docs
    /\ Done(q)

\* The document is read, the post inserted, unless there is one; then the document is
\* read again, and its field written.
PublishPost(q) ==
    LET d == req[q].on IN
    /\ \/ At(q, "publish", 2) /\ AdvanceIf(q, docs[d].there) /\ UNCHANGED <<docs, posts>>
       \/ /\ At(q, "publish", 3) /\ Writable
          /\ posts' = IF space = "live" THEN posts \cup {d} ELSE posts
          /\ AdvanceIf(q, space = "live" /\ d \notin posts)
          /\ UNCHANGED docs
       \/ At(q, "publish", 4) /\ AdvanceIf(q, docs[d].there) /\ UNCHANGED <<docs, posts>>
       \/ At(q, "publish", 5) /\ SetPublished(q, TRUE) /\ UNCHANGED posts
    /\ UNCHANGED <<fileVars, dbVars, syncVars, channelVars>>

\* Mutant of UnpublishPost: the field is left as it is.
UnpublishRow(q) ==
    LET d == req[q].on IN
    /\ \/ At(q, "unpublish", 1) /\ AdvanceIf(q, d \in posts) /\ UNCHANGED posts
       \/ At(q, "unpublish", 3) /\ Writable /\ posts' = posts \ {d} /\ Done(q)
    /\ UNCHANGED <<docs, fileVars, dbVars, syncVars, channelVars>>

\* There must be a post, also when it comes to deleting it.
UnpublishPost(q) ==
    LET d == req[q].on IN
    /\ \/ At(q, "unpublish", 1) /\ AdvanceIf(q, d \in posts) /\ UNCHANGED <<docs, posts>>
       \/ /\ At(q, "unpublish", 3) /\ Writable
          /\ posts' = posts \ {d}
          /\ AdvanceIf(q, d \in posts)
          /\ UNCHANGED docs
       \/ At(q, "unpublish", 4) /\ AdvanceIf(q, docs[d].there) /\ UNCHANGED <<docs, posts>>
       \/ At(q, "unpublish", 5) /\ SetPublished(q, FALSE) /\ UNCHANGED posts
    /\ UNCHANGED <<fileVars, dbVars, syncVars, channelVars>>

-----------------------------------------------------------------------------
(* Copies *)

\* The user's role in the one space and in the other, which are here the same.
CopyRoles(q) ==
    /\ \/ At(q, "copy", 1) /\ \E r \in Roles(req[q].by) : AdvanceIf(q, r # "none")
       \/ /\ At(q, "copy", 2)
          /\ \E r \in Roles(req[q].by) : AdvanceIf(q, r \notin {"none", "readonly"})
    /\ UNCHANGED <<contentVars, dbVars, syncVars, channelVars>>

\* The document is read; a new one is created of it, with fields and permissions anew.
CopyDocument(q) ==
    /\ \/ At(q, "copy", 3) /\ AdvanceIf(q, docs[req[q].on].there) /\ UNCHANGED docs
       \/ /\ At(q, "copy", 4)
          /\ Doc # DOMAIN docs
          /\ LET new == CHOOSE d \in Doc : d \notin DOMAIN docs IN
             docs' = [d \in DOMAIN docs \cup {new} |->
                         IF d = new THEN NewDoc ELSE docs[d]]
          /\ Done(q)
    /\ UNCHANGED <<posts, fileVars, dbVars, syncVars, channelVars>>

-----------------------------------------------------------------------------
(* Files *)

\* The storage in use is read; the file is stored; its row inserted; its size added.
UploadFile(q) ==
    LET f == req[q].on IN
    /\ \/ /\ At(q, "upload", 2)
          /\ AdvanceIf(q, space \in {"live", "deleting"} /\ usedStorage < StorageLimit)
          /\ UNCHANGED fileVars
       \/ /\ At(q, "upload", 3)
          /\ stored' = stored \cup {f}
          /\ Advance(q)
          /\ UNCHANGED <<files, usedStorage>>
       \/ /\ At(q, "upload", 4) /\ Writable
          /\ files' = IF space = "live" THEN files \cup {f} ELSE files
          /\ AdvanceIf(q, space = "live" /\ f \notin files)
          /\ UNCHANGED <<stored, usedStorage>>
       \/ /\ At(q, "upload", 5) /\ Writable
          /\ usedStorage' = IF space = "live" THEN usedStorage + 1 ELSE usedStorage
          /\ Done(q)
          /\ UNCHANGED <<stored, files>>
    /\ UNCHANGED <<docs, posts, dbVars, syncVars, channelVars>>

-----------------------------------------------------------------------------

\* The routes: an editor may upload, admins and the owner may do all of these.
CheckRole(q) ==
    /\ \E op \in {"lock", "unlock", "publish", "upload"} : At(q, op, 1)
          \/ At(q, "unpublish", 2)
    /\ \E r \in Roles(req[q].by) :
          AdvanceIf(q, MayManage(r) \/ (r = "editor" /\ req[q].op = "upload"))
    /\ UNCHANGED <<contentVars, dbVars, syncVars, channelVars>>

\* The deletion of a space takes its files from the storage before it deletes rows;
\* posts and rows of files go with the transaction.
SpaceContent(q) ==
    /\ stored' = IF At(q, "delete", 2) THEN stored \ files ELSE stored
    /\ files' = IF space' = "deleted" THEN {} ELSE files
    /\ posts' = IF space' = "deleted" THEN {} ELSE posts
    /\ UNCHANGED <<docs, usedStorage>>

\* The sync server, or the storage, fails: the request ends with an error.
StepFails(q) ==
    /\ \/ req[q].op \in {"lock", "unlock"} /\ req[q].pc \in 2..5
       \/ req[q].op = "publish" /\ req[q].pc \in {2, 4, 5}
       \/ req[q].op = "unpublish" /\ req[q].pc \in {4, 5}
       \/ req[q].op = "copy" /\ req[q].pc \in {3, 4}
       \/ At(q, "upload", 3)
    /\ Done(q)
    /\ UNCHANGED <<contentVars, dbVars, syncVars, channelVars>>

ContentStep(q) ==
    CheckRole(q) \/ LockDocument(q) \/ PublishPost(q) \/ UnpublishPost(q) \/ UploadFile(q)
    \/ CopyRoles(q) \/ CopyDocument(q)

-----------------------------------------------------------------------------
(* Properties *)

\* A document's lock, and its publication, are what its fields say.
FlagsAgree(d) ==
    docs[d].there => docs[d].locked = ~docs[d].open /\ docs[d].published = (d \in posts)

\* The storage in use is that of the files, all of them stored, within the limit.
StorageAgrees ==
    /\ usedStorage = Cardinality(files)
    /\ usedStorage <= StorageLimit
    /\ files \subseteq stored
=============================================================================
