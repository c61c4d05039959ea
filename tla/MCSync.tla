------------------------------- MODULE MCSync -------------------------------
(***************************************************************************)
(* Clients that edit, for TLC.  Each edit is made once, so the changes are *)
(* finite but for deletions: a user deletes a document only once, and at   *)
(* most MaxTrouble connections are lost or requests fail.                  *)
(***************************************************************************)
EXTENDS Sync

CONSTANTS
    MaxTrouble,
    ApiDocs,       \* documents the application's server changes
    Lockable       \* documents whose permissions it narrows, once

ASSUME ApiAssumption == ApiDocs \subseteq Doc /\ Lockable \subseteq Doc

VARIABLES
    trouble,   \* connections lost and requests failed so far
    hasty,     \* did a user touch a document while the server was creating it?
    gone       \* per client: what its user deleted, and was not refused to

MCSession == Client \X Slot

Sym == Permutations(Edit) \cup Permutations(Client)

BeingCreated(c, d) == replica[c].items[d].state = "sent" /\ Remote(c, d) = Null

Healthy(s) ==
    /\ \/ ServerTake(s) \/ ServerExit(s)
       \/ /\ Subscribe(s) \/ Forward(s) \/ ServeSync(s) \/ ServeChange(s)
          /\ UNCHANGED toServer
    /\ UNCHANGED <<link, replica, userVars>>

Refused(c, d) == Head(Arriving(c)) = ChangeError(d, "forbidden")

MCNext ==
    \/ \E c \in Client :
          /\ OnMessage(c)
          /\ gone' = [gone EXCEPT ![c] = {d \in @ : ~Refused(c, d)}]
          /\ UNCHANGED <<trouble, hasty>>
    \/ /\ \/ \E c \in Client : \/ OnClose(c) \/ Open(c) \/ FlushTimer(c)
                               \/ OnSyncComplete(c) \/ OnSyncError(c)
          \/ \E c \in Client, d \in Doc, e \in Edit : UserCreate(c, d, e)
          \/ \E s \in Session : Healthy(s)
          \/ \E d \in ApiDocs : \/ \E e \in Edit : ApiRead(d, e) \/ ApiUpdate(d, e)
                                \/ ApiDelete(d)
          \/ \E d \in Lockable \ locked : ApiLock(d)
       /\ UNCHANGED <<trouble, hasty, gone>>
    \/ \E c \in Client, d \in Doc :
          /\ \/ /\ \E e \in Edit : UserChange(c, d, e)
                /\ UNCHANGED gone
             \/ /\ CanEdit(replica[c], d) /\ UserDelete(c, d)
                /\ gone' = [gone EXCEPT ![c] = @ \cup {d}]
          /\ hasty' = (hasty \/ BeingCreated(c, d))
          /\ UNCHANGED trouble
    \/ /\ \/ \E c \in Client : Lose(c)
          \/ \E s \in Session : Fail(s) /\ UNCHANGED <<link, replica, toServer, userVars>>
       /\ trouble < MaxTrouble /\ trouble' = trouble + 1
       /\ UNCHANGED <<hasty, gone>>

MCVars == <<syncVars, trouble, hasty, gone>>

MCInit ==
    /\ SyncInit
    /\ trouble = 0 /\ hasty = FALSE /\ gone = [c \in Client |-> {}]

MCSpec == MCInit /\ [][MCNext]_MCVars

\* With no connection lost, no request failed, and no document edited or deleted
\* by its user while the server is creating it, everything settles.
SettledIfCalm == trouble = 0 /\ ~hasty => Settled

\* The same, whatever is lost.
SettledAfterTrouble == ~hasty => Settled

\* The same, whenever users edit and delete.
SettledIfHasty == trouble = 0 => Settled

\* What a user deletes does not come back, unless the server refuses.
DeletedStaysDeleted == \A c \in Client : \A d \in gone[c] : Local(c, d) = Null

DeletedStaysDeletedIfCalm == ~hasty => DeletedStaysDeleted

\* Every message a client sends is one of the protocol's, which the server reads.
Understood == \A s \in Session : Range(toServer[s]) \cap Garbled = {}
=============================================================================
