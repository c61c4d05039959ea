----------------------------- MODULE MCRequests -----------------------------
(***************************************************************************)
(* Requests about one space, at most MaxEvents of them and of mishaps (a   *)
(* failed call, a restart, a lost connection or fetch), in any mix.  What  *)
(* the properties except is remembered.  A part of MCApp.                  *)
(***************************************************************************)
EXTENDS Content, Profile

CONSTANTS MaxEvents, a, b, i1, d1

ASSUME RequestsAssumption ==
    /\ {a, b} \subseteq User \ {Owner} /\ a # b
    /\ i1 \in Invite /\ d1 \in Doc
    /\ IsFiniteSet(Request) /\ IsFiniteSet(Invite)
    /\ MaxEvents \in Nat

VARIABLES
    events,           \* so far
    consents,         \* how often a user has accepted to be a member
    granted,          \* ranks an owner has asked for, of whom
    mixed,            \* users whose membership may be other than their access: two
                      \* requests about it at once, one that was cut short or had a
                      \* call fail, or the user's own leaving
    muddled,          \* documents of which the same is true
    spoilt,           \* and files
    missed            \* pages that were not told, or may show an older fetch

requestsVars == <<spacesVars, contentVars, profileVars, events, consents, granted,
                  mixed, muddled, spoilt, missed>>

-----------------------------------------------------------------------------

\* Who offers which role.
Grants == {<<Owner, "admin">>, <<a, "admin">>, <<a, "readonly">>}

\* The requests that users send.
Requests ==
    {<<"create", Owner, Owner, "owner", Nothing>>} \cup
    {<<"delete", Owner, Owner, "owner", Nothing>>} \cup
    {<<"leave", u, u, "owner", Nothing>> : u \in {Owner, a}} \cup
    {<<"change", Owner, v, r, Nothing>> : v \in User, r \in {"readonly", "editor", "owner"}} \cup
    {<<"change", a, v, "owner", Nothing>> : v \in User} \cup
    {<<"remove", u, v, "owner", Nothing>> : u \in {Owner, a}, v \in User} \cup
    {<<"invite", g[1], b, g[2], Nothing>> : g \in Grants} \cup
    {<<"update", g[1], g[1], g[2], i1>> : g \in Grants} \cup
    {<<"cancel", u, u, "owner", i1>> : u \in {Owner, a}} \cup
    {<<op, b, b, "owner", i>> : op \in {"accept", "decline"}, i \in Invite} \cup
    {<<op, a, a, "owner", d>> : op \in {"lock", "unlock", "publish", "unpublish"},
                                d \in DOMAIN docs} \cup
    (IF Doc = DOMAIN docs THEN {} ELSE {<<"copy", a, a, "owner", d>> : d \in DOMAIN docs}) \cup
    {<<"upload", a, a, "owner", f>> : f \in File}

Send(q) ==
    \E r \in Requests :
        /\ r[1] \in {"change", "remove"} => r[2] # r[3]
        /\ IF space = "none" THEN r[1] = "create" ELSE r[1] # "create"
        /\ space # "creating"
        /\ Begin(q, r[1], r[2], r[3], r[4], r[5])

\* Requests are told apart by the order they come in.
NextRequest ==
    LET idle == {q \in Request : req[q].op = "none"} IN
    IF idle = {} THEN {} ELSE {CHOOSE q \in idle : TRUE}

-----------------------------------------------------------------------------
(* History *)

\* `hurt` are the requests that are cut short, or have a call fail, in this step.
Concerned(u) == {q \in Request : Concerns(q, u)}
About(d)     == {q \in Request : req[q].on = d}
Underway     == {q \in Request : req[q].op # "none"}
Uploads      == {q \in Request : req[q].op = "upload"}

RememberRequests(hurt) ==
    LET begun == Underway' \ Underway IN
    /\ mixed' = mixed \cup {u \in User \ mixed :
          \/ \E q \in hurt : Concerns(q, u)
          \/ begun # {} /\ Cardinality(Concerned(u)') > 1
          \/ \E q \in Underway : req[q].by = u /\ At(q, "leave", 1)}
    /\ muddled' = muddled \cup {d \in DOMAIN docs \ muddled :
          \/ \E q \in hurt : req[q].on = d
          \/ begun # {} /\ Cardinality(About(d)') > 1}
    /\ spoilt' = \/ spoilt
                 \/ begun # {} /\ Cardinality(Uploads') > 1
                 \/ \E q \in hurt : req[q].op \in {"upload", "delete"}
    /\ consents' = IF invites' = invites THEN consents
                   ELSE [u \in User |-> consents[u] + Cardinality({i \in Invite :
                            invites[i].to = u /\ invites[i].status # "accepted"
                                              /\ invites'[i].status = "accepted"})]
    /\ granted' = granted \cup
          {<<IF req[q].op = "update" THEN invites[req[q].on].to ELSE req[q].to, req[q].role>> :
              q \in {p \in Underway :
                        /\ req'[p].pc = req[p].pc + 1
                        /\ At(p, "change", 2) \/ At(p, "invite", 1) \/ At(p, "update", 2)
                        /\ "owner" \in Roles(req[p].by)}}

\* A page is up to date once the only fetch has been read, until it misses something.
RememberPages ==
    missed' = (missed \ {u \in Page : /\ Len(fetches[u]) = 1 /\ Len(fetches'[u]) = 1
                                      /\ fetches[u] # fetches'[u]})
        \cup {u \in Page :
            \/ Len(fetches'[u]) > 1
            \/ mail[u] > 0 /\ u \in chan /\ u \notin chan'
            \/ /\ rows[u] # rows'[u]
               /\ ~\E q \in Request : /\ At(q, "change", 4) \/ At(q, "remove", 3)
                                      /\ req[q].to = u /\ req'[q] # req[q]
            \/ \E q \in Request : /\ req[q].op \in {"change", "remove"} /\ req[q].pc = 4
                                  /\ req[q].to = u /\ req'[q].op = "none"
                                  /\ mail'[u] <= mail[u]}

-----------------------------------------------------------------------------

Requesting(hurt) ==
    RememberRequests(hurt) /\ RememberPages

Budget == events < MaxEvents /\ events' = events + 1

RequestsNext ==
    \/ /\ \/ \E q \in Underway :
             \/ MemberStep(q) /\ SpaceContent(q) /\ UNCHANGED profileVars
             \/ ContentStep(q) /\ UNCHANGED profileVars
          \/ (\E u \in open : ProfileStep(u)) /\ UNCHANGED contentVars
       /\ Requesting({})
       /\ UNCHANGED events
    \/ /\ Budget
       /\ \/ (\E q \in NextRequest : Send(q)) /\ UNCHANGED profileVars
          \/ \E u \in Page : \/ OpenPage(u) \/ LoseChannel(u)
                           \/ \E i \in DOMAIN fetches[u] : FetchFails(u, i)
       /\ UNCHANGED contentVars
       /\ Requesting({})
    \/ /\ Budget
       /\ \E d \in DOMAIN docs : DeleteDoc(d)
       /\ UNCHANGED profileVars
       /\ Requesting({})
    \/ /\ Budget
       /\ UNCHANGED profileVars
       /\ \E q \in Underway :
            /\ (CallFails(q) /\ UNCHANGED contentVars) \/ StepFails(q)
            /\ Requesting({q})
    \/ /\ Budget
       /\ Restart /\ UNCHANGED contentVars
       /\ Requesting(Underway)

\* There is no space; or one whose only other member is a, who is an admin and b
\* invited, or who may only read.
RequestsInit ==
    /\ ContentInit({d1}) /\ ProfileInit /\ ChannelsInit
    /\ req = [q \in Request |-> Idle]
    /\ \/ /\ space = "none" /\ rows = [u \in User |-> <<>>] /\ exist = {}
          /\ access = [u \in User |-> {}] /\ invites = [i \in Invite |-> NoInvite]
       \/ /\ space = "live" /\ exist = Group
          /\ \E r \in {"admin", "readonly"} :
                /\ rows = [u \in User |-> IF u = Owner THEN <<"owner">>
                                          ELSE IF u = a THEN <<r>> ELSE <<>>]
                /\ access = [u \in User |->
                                IF u = Owner THEN {"members"}
                                ELSE IF u # a THEN {}
                                ELSE IF r = "admin" THEN {"members"} ELSE {"readonly"}]
                /\ invites = [i \in Invite |->
                                IF r = "admin" /\ i = i1
                                THEN [status |-> "sent", to |-> b, role |-> "editor"]
                                ELSE NoInvite]
    /\ events = 0
    /\ consents = [u \in User |-> IF u = Owner THEN 1 ELSE Len(rows[u])]
    /\ granted = {<<Owner, "owner">>} \cup
          {<<u, Head(rows[u])>> : u \in {v \in User : rows[v] # <<>>}}
    /\ mixed = {} /\ muddled = {} /\ spoilt = FALSE /\ missed = {}

RequestsSpec == RequestsInit /\ [][RequestsNext]_requestsVars

-----------------------------------------------------------------------------
(* Properties *)

\* When nothing is under way about a user's membership, and no two requests about it
\* ever were at once, nor one cut short, the user has the access the role gives.
AccessFollowsRole ==
    \A u \in User \ mixed : Concerned(u) = {} => AccessIs(u)

\* Nobody is a member more often than they agreed to be; and high ranks come from an
\* owner, who asked for them.
RowsEarned ==
    \A u \in User :
        /\ Len(rows[u]) <= consents[u]
        /\ \A r \in ToSet(rows[u]) \cap {"admin", "owner"} : <<u, r>> \in granted

\* When nothing is under way about a document or a file, and never was at once, or
\* cut short, what is recorded in two places agrees.
ContentAgrees ==
    space = "live" =>
        /\ \A d \in DOMAIN docs \ muddled : About(d) = {} => FlagsAgree(d)
        /\ ~spoilt /\ Uploads = {} => StorageAgrees

\* A page to which nothing is on its way shows the user's role, if the channel has
\* been there since the last fetch and fetches did not overtake each other.
ProfileFreshIfTold ==
    \A u \in Page \ missed :
        /\ Settled(u)
        /\ ~\E q \in Request : req[q].op \in {"change", "remove"} /\ req[q].to = u
        => Fresh(u)
=============================================================================
