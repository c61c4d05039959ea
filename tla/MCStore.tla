------------------------------ MODULE MCStore -------------------------------
(***************************************************************************)
(* A collection and its local store, for TLC: each edit is made once, the  *)
(* server's revision goes up to MaxClock, and at most MaxTrouble times is  *)
(* the page closed, the user logged out, a connection lost or a change     *)
(* refused.                                                                *)
(***************************************************************************)
EXTENDS Store

CONSTANTS
    MaxClock, MaxTrouble,
    UserDocs,    \* documents the user may create and edit
    Brief        \* bounds the run: see Prompt

ASSUME UserDocsAssumption == UserDocs \subseteq Doc

VARIABLES
    made,          \* edits made so far
    trouble,
    forgotten,     \* documents whose copy changed with nothing queued for backup
    undone,        \* documents the user deleted, or the server refused a change of
    mixed,         \* was it ever not Orderly?
    cut,           \* did a client that has documents ask for all there are?
    lost           \* since the page was loaded: may something sent be lost?

\* A timer's backup waits for the one before; a sync's does not.
Saving == BackupStep /\ (BackupTimer => backups = <<>>)

\* Users and backups wait for the server to read what was sent.  A brief run has them
\* wait for what is late too, and follows what can say little more no further: edits and
\* backups of a store that is mixed, deletions by others once the client is cut.
Prompt == page = "open" /\ outbox = <<>> /\ (Brief => late = <<>> /\ ~mixed)

Step ==
    \/ /\ PageStep \/ (Prompt /\ Saving) \/ ClearStep \/ (page = "open" /\ ServerStep)
       /\ UNCHANGED <<made, trouble>>
    \/ /\ trouble < MaxTrouble /\ trouble' = trouble + 1
       /\ Lose \/ Close \/ Logout \/ ServerRefuse("forbidden")
       /\ UNCHANGED made
    \/ /\ Prompt /\ \E d \in UserDocs : UserDelete(d) /\ replica.items[d].local # Null
       /\ UNCHANGED <<made, trouble>>
    \/ /\ Prompt /\ (Brief => ~cut) /\ clock < MaxClock /\ \E d \in Doc : OthersChange("-", d, Null)
       /\ UNCHANGED <<made, trouble>>
    \/ /\ Prompt /\ made # Edit
       /\ LET e == CHOOSE e \in Edit \ made : TRUE IN
          /\ made' = made \cup {e}
          /\ \/ \E d \in UserDocs : UserCreate(d, e) \/ UserChange(d, e)
             \/ /\ clock < MaxClock
                /\ \E d \in Doc \ UserDocs : OthersChange("*", d, {e})
       /\ UNCHANGED trouble

Copy(k, d) == <<k.items[d].remote, k.items[d].local>>

Creating(k, d) == k.items[d].state = "sent" /\ k.items[d].remote = Null

\* What is remembered while it matters: all is off once the store is mixed.
Remember ==
    /\ mixed' = (mixed \/ ~Orderly')
    /\ forgotten' = IF mixed' THEN {} ELSE forgotten \cup
          {d \in Doc : /\ page = "open" /\ page' = "open"
                       /\ Copy(replica, d) # Copy(replica', d) /\ d \notin backupQueue'}
    /\ undone' = undone \cup
          {d \in Doc : /\ page = "open" /\ page' = "open"
                       /\ \/ /\ replica.items[d].local # Null /\ replica'.items[d].local = Null
                             /\ inbox' = inbox
                          \/ inbox # <<>> /\ Head(inbox) = ChangeError(d, "forbidden")}
    /\ cut' = /\ ~mixed'
              /\ cut \/ /\ ~Online /\ Online' /\ replica.colrev = 0
                        /\ \E d \in Doc : Has(replica, d)
    /\ lost' = /\ ~mixed' /\ page' = "open"
               /\ \/ lost
                  \/ Online /\ ~Online'
                  \/ ~Online /\ Online' /\ \E m \in Range(late) : m.kind = "change" /\ m.op = "+"
                  \/ \E d \in Doc : /\ Creating(replica, d)
                                    /\ ~Creating(replica', d)
                                    /\ replica'.items[d].remote = Null

MCNext == Step /\ Remember

MCVars == <<storeVars, made, trouble, forgotten, undone, mixed, cut, lost>>

MCInit ==
    /\ StoreInitWith([d \in Doc |-> IF d \in UserDocs THEN NoRow
                                   ELSE [rev |-> 1, data |-> {}]], 1)
    /\ made = {} /\ trouble = 0 /\ forgotten = {} /\ undone = {}
    /\ mixed = FALSE /\ cut = FALSE /\ lost = FALSE

MCSpec == MCInit /\ [][MCNext]_MCVars

\* Across restarts, a client resumes where its documents are: unless two backups
\* overlapped, or a revision outlived the documents it was of.
ResumeSafeIfWhole == ~mixed => ResumeSafe

\* The same for deletions, of documents whose removal was queued for backup.
NoRevenantsIfSaved ==
    ~mixed /\ ~cut => \A d \in Doc \ forgotten : NoRevenant(d)

\* An edit that was saved and that the server has not got stays saved, until the
\* document is deleted, the server refuses the edit, or the user logs out.
SavedStaysSaved ==
    [][\A d \in Doc \ undone, e \in Edit :
          Saved(d, e) /\ ~Saved(d, e)' => clearing # "none" \/ (Exists(d) /\ ~Live(d))]_MCVars

\* Nothing is on its way and nothing is due but backups.
Quiet == page = "open" /\ replica.status = "ready" /\ ~replica.flushTimer
            /\ outbox = <<>> /\ inbox = <<>>

\* When all is quiet the user has what the server has: what the last page left
\* unsent, or sent and lost, has been sent again.  Excepted is what is lost, or
\* done too hastily, since the page was loaded, and what the store never had; a
\* connection loses the answer to a creation the server has yet to read.
SettledUnlessLost ==
    Quiet /\ ~lost /\ ~mixed /\ ~cut =>
        \A d \in Doc \ forgotten : Agree(d)
=============================================================================
