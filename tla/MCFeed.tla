------------------------------- MODULE MCFeed -------------------------------
(***************************************************************************)
(* Followers of a collection, for TLC: MaxRev changes, all made over the   *)
(* API, and at most MaxTrouble connections lost or syncs failed.           *)
(***************************************************************************)
EXTENDS Feed

CONSTANTS MaxRev, MaxTrouble

VARIABLES
    trouble,   \* connections lost and syncs failed so far
    cut        \* clients that lost a connection during their first sync

MCSession == Client \X Slot

\* Each document is created with one edit or extended by one.
Writes == {m \in ChangeRequest : m.op # "-" => Cardinality(m.data) = 1}

Healthy(s) == Subscribe(s) \/ Exit(s) \/ Forward(s) \/ ServeSync(s)

Attend(c) == Dial(c) \/ Read(c) \/ GiveUp(c)

MCNext ==
    \/ /\ \/ \E c \in Client : Attend(c)
          \/ \E s \in Session : Healthy(s) /\ UNCHANGED followVars
          \/ /\ colrev < MaxRev /\ \E m \in Writes : ApiChange(m)
             /\ UNCHANGED followVars
       /\ UNCHANGED <<trouble, cut>>
    \/ /\ trouble < MaxTrouble /\ trouble' = trouble + 1
       /\ \/ \E c \in Client :
                /\ Lose(c)
                /\ cut' = IF cursor[c] = 0 THEN cut \cup {c} ELSE cut
          \/ \E s \in Session : Fail(s) /\ UNCHANGED <<followVars, cut>>

MCVars == <<feedVars, trouble, cut>>

MCInit == FeedInit /\ trouble = 0 /\ cut = {}

MCSpec == MCInit /\ [][MCNext]_MCVars

\* The client reconnects by itself and the actors run when they have a message;
\* nobody is obliged to change documents, to lose connections or to fail.
Fairness ==
    /\ \A c \in Client : WF_MCVars(Attend(c) /\ UNCHANGED <<trouble, cut>>)
    /\ \A s \in MCSession :
          WF_MCVars(Healthy(s) /\ UNCHANGED <<followVars, trouble, cut>>)

MCFairSpec == MCSpec /\ Fairness

\* Deletions too are safe for a client whose first sync was not cut short.
DeletionsSafeIfWhole == \A c \in Client \ cut : DeletionsSafeFor(c)
=============================================================================
