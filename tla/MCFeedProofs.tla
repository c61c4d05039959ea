---------------------------- MODULE MCFeedProofs ----------------------------
(***************************************************************************)
(* Deletions are safe for the clients of MCFeed whose first sync was not   *)
(* cut short, for any bounds on changes and on lost connections.           *)
(***************************************************************************)
EXTENDS MCFeed, FeedProofs

WholeGone == \A c \in Client \ cut : GoneInv(c)

LEMMA MCFeedStep == [MCNext]_MCVars => [FeedNext]_feedVars
<1>1. ASSUME NEW c \in Client, Attend(c) PROVE FeedNext
  BY <1>1 DEF Attend, FeedNext
<1>2. ASSUME NEW s \in Session, Healthy(s), UNCHANGED followVars PROVE FeedNext
  BY <1>2 DEF Healthy, FeedNext, ServerStep
<1>3. ASSUME NEW m \in Writes, ApiChange(m), UNCHANGED followVars PROVE FeedNext
  BY <1>3 DEF Writes, FeedNext
<1>4. ASSUME NEW c \in Client, Lose(c) PROVE FeedNext
  BY <1>4 DEF FeedNext
<1>5. ASSUME NEW s \in Session, Fail(s), UNCHANGED followVars PROVE FeedNext
  BY <1>5 DEF FeedNext, ServerStep
<1>6. CASE UNCHANGED MCVars
  BY <1>6 DEF MCVars
<1> QED
  BY <1>1, <1>2, <1>3, <1>4, <1>5, <1>6 DEF MCNext

\* `cut` remembers who lost a connection with its cursor at 0.
LEMMA CutStep ==
    ASSUME FollowInv, [MCNext]_MCVars, NEW c \in Client \ cut'
    PROVE  c \notin cut /\ Uncut(c)
<1>0. link \in [Client -> Slot \cup {NoSlot}]
  BY DEF FollowInv, FeedTypeOK
<1>1. ASSUME Lose(c)
      PROVE  link[c] # NoSlot /\ link' = [link EXCEPT ![c] = NoSlot] /\ stopped' = stopped
             /\ link' # link /\ UNCHANGED <<view, cursor>>
  BY <1>0, <1>1, FeedAssumption DEF Lose, HangUp
<1>2. ASSUME NEW e \in Client, Attend(e), UNCHANGED cut
      PROVE  Uncut(c)
  <2> SUFFICES ASSUME Lose(c), c \notin stopped PROVE FALSE
    BY DEF Uncut
  <2>1. CASE Dial(e)
    BY <1>0, <1>1, <2>1, FeedAssumption DEF Dial
  <2>2. CASE Read(e)
    BY <1>1, <2>2 DEF Read
  <2>3. CASE GiveUp(e)
    <3>1. e # c
      BY <1>1, <2>3 DEF GiveUp
    <3> QED
      BY <1>0, <1>1, <2>3, <3>1, FeedAssumption DEF GiveUp, HangUp
  <2> QED
    BY <1>2, <2>1, <2>2, <2>3 DEF Attend
<1>3. ASSUME UNCHANGED link PROVE Uncut(c)
  BY <1>1, <1>3 DEF Uncut
<1>4. ASSUME NEW e \in Client, Lose(e),
             cut' = IF cursor[e] = 0 THEN cut \cup {e} ELSE cut
      PROVE  c \notin cut /\ Uncut(c)
  <2>1. CASE e = c
    BY <1>4, <2>1 DEF Uncut
  <2>2. CASE e # c
    BY <1>0, <1>1, <1>4, <2>2, FeedAssumption DEF Lose, HangUp, Uncut
  <2> QED
    BY <2>1, <2>2
<1>5. CASE UNCHANGED MCVars
  BY <1>3, <1>5 DEF MCVars, feedVars, followVars
<1> QED
  BY <1>2, <1>3, <1>4, <1>5 DEF MCNext, followVars

LEMMA WholeGoneStep ==
    ASSUME FollowInv, WholeGone, [MCNext]_MCVars, FollowInv'
    PROVE  WholeGone'
<1>1. [FeedNext]_feedVars /\ Linked'
  BY MCFeedStep DEF FollowInv
<1>2. ASSUME NEW c \in Client \ cut'
      PROVE  GoneInv(c)'
  BY <1>1, <1>2, CutStep, GoneStep DEF WholeGone
<1> QED
  BY <1>2 DEF WholeGone

\* A client that will ask for what changed after `cursor` has no copy of a document
\* deleted at or before it, unless it once lost the connection with its cursor at 0.
\* Such a client may have been sent documents of its first sync, asks for everything
\* again, and is not told of what was deleted meanwhile (get_documents_since in
\* collection.rs leaves the deleted rows out at revision 0): a run shows one that
\* keeps such a copy.
THEOREM DeletionsAlwaysSafe ==
    ASSUME SubscribeFirst
    PROVE  MCSpec => []DeletionsSafeIfWhole
<1>1. MCInit => FollowInv /\ WholeGone
  BY FollowInit, GoneInit DEF MCInit, WholeGone
<1>2. FollowInv /\ WholeGone /\ [MCNext]_MCVars => (FollowInv /\ WholeGone)'
  BY MCFeedStep, FollowStep, WholeGoneStep
<1>3. WholeGone => DeletionsSafeIfWhole
  BY DEF WholeGone, GoneInv, DeletionsSafeIfWhole
<1> QED
  BY <1>1, <1>2, <1>3, PTL DEF MCSpec
=============================================================================
