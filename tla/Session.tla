------------------------------ MODULE Session -------------------------------
(***************************************************************************)
(* A browser's page: which spaces it lists, which one is open, and the     *)
(* links to documents it is asked to open (AuthStore, UserStore, the part  *)
(* of SpaceStore that opens links, and DeepLinkController in packages/     *)
(* front/src/store, with the views that call them).                        *)
(*                                                                         *)
(* A UserStore that was logged out of is disposed of, but what it awaits   *)
(* still comes, and it writes to the browser's storage what it then has.   *)
(***************************************************************************)
EXTENDS Naturals, FiniteSets, SequencesExt

CONSTANTS
    Space, None,
    Link,              \* links to documents, each opened at most once
    MaxStores, MaxFetches, MaxCollections

VARIABLES
    member,     \* the spaces the user is a member of, in the server's database
    page,       \* the browser's page and storage: see below
    sent        \* the user's requests to join, create, leave or delete a space

sessionVars == <<member, page, sent>>

-----------------------------------------------------------------------------
(* The state of the page *)

\* Collections are numbered as they are made; one is `dead` once its connection was
\* closed for good.
NewCollection(s) == [space |-> s, stage |-> "opening", dead |-> FALSE]

\* A UserStore.  `shown` is the collection of its SpaceStore, or 0; `waits` are the
\* handlers of links that wait for the profile, or for a collection to load or to sync.
NewStore(list) ==
    [listed |-> list, current |-> None, shown |-> 0, cols |-> <<>>,
     fetched |-> FALSE, fetches |-> <<>>, timers |-> {}, waits |-> {}]

\* `mine` is the store in use, or 0: the login page; `kept` is what the browser stores
\* beside the token, and `deepLink` the link that AuthStore knows of.
NewPage == [open |-> FALSE, mine |-> 0, stores |-> <<>>, deepLink |-> None,
            links |-> [l \in Link |-> [status |-> "none", space |-> None]]]

Stages == {"opening", "loaded", "synced"}

SessionTypeOK ==
    /\ member \subseteq Space
    /\ page.open \in BOOLEAN /\ page.signed \in BOOLEAN
    /\ page.mine \in 0 .. Len(page.stores)
    /\ page.deepLink \in Link \cup {None}
    /\ page.kept.list \in Seq(Space) /\ page.kept.space \in Space \cup {None}
    /\ page.links \in [Link -> [status: {"none", "pending", "failed", "cancelled", "resolved"},
                                space: Space \cup {None}]]
    /\ \A n \in DOMAIN page.stores : LET p == page.stores[n] IN
        /\ p.listed \in Seq(Space) /\ p.current \in Space \cup {None}
        /\ p.cols \in Seq([space: Space, stage: Stages, dead: BOOLEAN])
        /\ p.shown \in 0 .. Len(p.cols)
        /\ p.fetched \in BOOLEAN /\ p.timers \subseteq {"last", "older"}
        /\ p.fetches \in Seq([by: {"last", "older"}, got: BOOLEAN, list: Seq(Space)])
        /\ p.waits \subseteq [link: Link, for: {"user", "load", "sync"}, col: 0 .. Len(p.cols)]
    /\ sent \subseteq [do: {"join", "leave"}, space: Space, store: 0 .. MaxStores, done: BOOLEAN]

Store(n)        == page.stores[n]
First(list)     == IF list = <<>> THEN None ELSE Head(list)
HasSpace(p, s)  == s \in ToSet(p.listed)

\* The user's list is written to the storage whenever it changes.
SetListed(w, n, list) == [w EXCEPT !.stores[n].listed = list, !.kept.list = list]

\* Mutant of Dispose: a collection that is loaded stays connected.
ForgetCollection(p) == p.cols

\* A collection that is still loading has no connection to close: it goes on and connects.
Dispose(p) ==
    IF p.shown = 0 THEN p.cols
    ELSE [p.cols EXCEPT ![p.shown].dead = p.cols[p.shown].stage # "opening"]

ChangeSpace(w, n, s) ==
    LET p == w.stores[n] IN
    IF p.current = s THEN w
    ELSE IF HasSpace(p, s)
    THEN [w EXCEPT !.kept.space = s,
                   !.stores[n] = [p EXCEPT !.current = s, !.shown = Len(p.cols) + 1,
                                           !.cols = Append(Dispose(p), NewCollection(s))]]
    ELSE [w EXCEPT !.kept.space = None,
                   !.stores[n] = [p EXCEPT !.current = s, !.shown = 0, !.cols = Dispose(p)]]

-----------------------------------------------------------------------------
(* Links *)

Pending(w, l) == w.links[l].status = "pending"

Resolve(w, l, status) == IF Pending(w, l) THEN [w EXCEPT !.links[l].status = status] ELSE w

Await(w, n, l, what, col) ==
    [w EXCEPT !.stores[n].waits = @ \cup {[link |-> l, for |-> what, col |-> col]}]

\* SpaceStore.handleDeepLink is called on whichever store is there, if any.
Visit(w, n, l) ==
    IF w.stores[n].shown = 0 THEN w ELSE Await(w, n, l, "load", w.stores[n].shown)

HandleLink(w, n, l) ==
    LET s == w.links[l].space IN
    IF HasSpace(w.stores[n], s) THEN Visit(ChangeSpace(w, n, s), n, l)
    ELSE Await(w, n, l, "user", 0)

NewLink(w, l, s) ==
    [w EXCEPT !.deepLink = l, !.links[l] = [status |-> "pending", space |-> s]]

\* A link in the text of a document is clicked.
ClickLink(l, s) ==
    /\ page.mine > 0 /\ page.links[l].status = "none"
    /\ page' = HandleLink(NewLink(page, l, s), page.mine, l)
    /\ UNCHANGED <<member, sent>>

Cancel ==
    /\ page.mine > 0 /\ page.deepLink # None
    /\ Pending(page, page.deepLink)
    /\ page' = Resolve(page, page.deepLink, "cancelled")
    /\ UNCHANGED <<member, sent>>

Done(w, n, wait) == [w EXCEPT !.stores[n].waits = @ \ {wait}]

LinkFetched(n, wait) ==
    LET s == page.links[wait.link].space IN
    /\ wait.for = "user" /\ Store(n).fetched
    /\ page' = IF ~HasSpace(Store(n), s)
               THEN Resolve(Done(page, n, wait), wait.link, "failed")
               ELSE IF Pending(page, wait.link)
               THEN Visit(ChangeSpace(Done(page, n, wait), n, s), n, wait.link)
               ELSE Done(page, n, wait)
    /\ UNCHANGED <<member, sent>>

\* Whether the collection has the document depends on others.
LinkLoaded(n, wait) ==
    /\ wait.for = "load" /\ Store(n).cols[wait.col].stage # "opening"
    /\ \/ page' = Resolve(Done(page, n, wait), wait.link, "resolved")
       \/ page' = Await(Done(page, n, wait), n, wait.link, "sync", wait.col)
    /\ UNCHANGED <<member, sent>>

LinkSynced(n, wait) ==
    /\ wait.for = "sync" /\ Store(n).cols[wait.col].stage = "synced"
    /\ \E status \in {"resolved", "failed"} :
          page' = Resolve(Done(page, n, wait), wait.link, status)
    /\ UNCHANGED <<member, sent>>

-----------------------------------------------------------------------------
(* Fetching the profile *)

SignedOut(w) ==
    [w EXCEPT !.signed = FALSE, !.kept = [list |-> <<>>, space |-> None],
              !.deepLink = None, !.mine = 0,
              !.stores[w.mine].cols = Dispose(w.stores[w.mine]),
              !.stores[w.mine].timers = @ \ {"last"}]

\* Only the last series of attempts is stopped, and of that only the timer.
NewFetch(by) == [by |-> by, got |-> FALSE, list |-> <<>>]

FetchUser(w, n) ==
    [w EXCEPT !.stores[n].fetches = Append([i \in DOMAIN @ |-> [@[i] EXCEPT !.by = "older"]],
                                           NewFetch("last")),
              !.stores[n].timers = @ \ {"last"}]

\* The channel says that the profile has changed.
OnProfile ==
    /\ page.mine > 0
    /\ Len(Store(page.mine).fetches) + Cardinality(Store(page.mine).timers) < MaxFetches
    /\ page' = FetchUser(page, page.mine)
    /\ UNCHANGED <<member, sent>>

Listing(set) == SetToSeq(set)

ReadProfile(n, i) ==
    /\ ~Store(n).fetches[i].got
    /\ page' = [page EXCEPT !.stores[n].fetches[i].got = TRUE,
                            !.stores[n].fetches[i].list = Listing(member)]
    /\ UNCHANGED <<member, sent>>

\* The space that is open may be gone from the list: another is then current, while
\* the store of the old one stays.
UpdateUser(n, i) ==
    LET list == Store(n).fetches[i].list
        w == SetListed([page EXCEPT !.stores[n].fetches = RemoveAt(@, i),
                                    !.stores[n].fetched = TRUE], n, list)
    IN
    /\ Store(n).fetches[i].got
    /\ page' = IF Store(n).current \in ToSet(list) THEN w
               ELSE [w EXCEPT !.stores[n].current = First(list)]
    /\ UNCHANGED <<member, sent>>

\* Mutant of FetchFails: the profile is not asked for again.
FetchGivenUp(n, i) ==
    /\ page' = [page EXCEPT !.stores[n].fetches = RemoveAt(@, i)]
    /\ UNCHANGED <<member, sent>>

\* If the server answers with an error, whoever is signed in is signed out.
FetchFails(n, i) ==
    LET w == [page EXCEPT !.stores[n].fetches = RemoveAt(@, i)] IN
    /\ \/ page' = [w EXCEPT !.stores[n].timers = @ \cup {Store(n).fetches[i].by}]
       \/ page' = IF w.mine = 0 THEN w ELSE SignedOut(w)
    /\ UNCHANGED <<member, sent>>

Retry(n, by) ==
    /\ by \in Store(n).timers
    /\ page' = [page EXCEPT !.stores[n].timers = @ \ {by},
                            !.stores[n].fetches = Append(@, NewFetch(by))]
    /\ UNCHANGED <<member, sent>>

-----------------------------------------------------------------------------
(* Opening, signing in and out *)

\* The constructor of UserStore: the space that was open, or else the first one.
Enter(w, list, s) ==
    LET n == Len(w.stores) + 1
        v == [w EXCEPT !.stores = Append(@, NewStore(list)), !.mine = n, !.kept.list = list]
    IN ChangeSpace(v, n, IF s \in ToSet(list) THEN s ELSE First(list))

\* The page is opened, on a link or not.
OpenPage(l, s) ==
    LET asked == [IF l = None THEN page ELSE NewLink(page, l, s) EXCEPT !.open = TRUE]
        in == Enter(asked, page.kept.list, page.kept.space)
    IN
    /\ ~page.open /\ (l # None => page.links[l].status = "none")
    /\ page' = IF ~page.signed THEN asked
               ELSE FetchUser(IF l = None THEN in ELSE HandleLink(in, 1, l), 1)
    /\ UNCHANGED <<member, sent>>

\* The code is right, and the reply brings the profile, which is not fetched then.  The
\* store is made outside of a batch of mobx, before its fields are observable: a link
\* that waits for the profile is never told.
Code ==
    LET in == Enter([page EXCEPT !.signed = TRUE], Listing(member), None) IN
    /\ page.open /\ page.mine = 0 /\ Len(page.stores) < MaxStores
    /\ page' = IF page.deepLink # None /\ HasSpace(in.stores[in.mine], page.links[page.deepLink].space)
               THEN HandleLink(in, in.mine, page.deepLink) ELSE in
    /\ UNCHANGED <<member, sent>>

\* By the user, or because the channel refused the token.
Logout ==
    /\ page.mine > 0
    /\ page' = SignedOut(page)
    /\ UNCHANGED <<member, sent>>

\* What the server was sent still reaches it.
ClosePage ==
    /\ page.open
    /\ page' = NewPage @@ page
    /\ sent' = {[q EXCEPT !.store = 0] : q \in {r \in sent : ~r.done}}
    /\ UNCHANGED member

-----------------------------------------------------------------------------
(* Collections *)

Alive(n, i) == Store(n).cols[i].stage # "opening" /\ ~Store(n).cols[i].dead

Load(n, i) ==
    /\ Store(n).cols[i].stage = "opening"
    /\ page' = [page EXCEPT !.stores[n].cols[i].stage = "loaded"]
    /\ UNCHANGED <<member, sent>>

SyncDone(n, i) ==
    /\ Alive(n, i) /\ Store(n).cols[i].stage = "loaded"
    /\ page' = [page EXCEPT !.stores[n].cols[i].stage = "synced"]
    /\ UNCHANGED <<member, sent>>

\* A sync is refused, at first or after a reconnection: whoever is signed in is
\* signed out.
SyncFails(n, i) ==
    /\ Alive(n, i)
    /\ page' = IF page.mine = 0 THEN page ELSE SignedOut(page)
    /\ UNCHANGED <<member, sent>>

-----------------------------------------------------------------------------
(* What the user does about spaces *)

SwitchSpace(s) ==
    /\ page.mine > 0 /\ HasSpace(Store(page.mine), s)
    /\ page' = ChangeSpace(page, page.mine, s)
    /\ UNCHANGED <<member, sent>>

\* A space is created, or an invite accepted.
Join(s) ==
    /\ page.mine > 0 /\ s \notin member
    /\ ~\E q \in sent : q.do = "join" /\ q.space = s
    /\ sent' = sent \cup {[do |-> "join", space |-> s, store |-> page.mine, done |-> FALSE]}
    /\ UNCHANGED <<member, page>>

\* The current space is left, or deleted by its owner.
Leave ==
    /\ page.mine > 0 /\ Store(page.mine).current # None
    /\ sent' = sent \cup {[do |-> "leave", space |-> Store(page.mine).current,
                          store |-> page.mine, done |-> FALSE]}
    /\ UNCHANGED <<member, page>>

Serve(q) ==
    /\ ~q.done
    /\ member' = IF q.do = "join" THEN member \cup {q.space} ELSE member \ {q.space}
    /\ sent' = (sent \ {q}) \cup (IF q.store = 0 THEN {} ELSE {[q EXCEPT !.done = TRUE]})
    /\ UNCHANGED page

Joined(n, s) ==
    ChangeSpace(SetListed(page, n, Append(Store(n).listed, s)), n, s)

\* It is the space that is current by now that goes from the list; if there is none,
\* splice(-1, 1) takes the last.
Left(n) ==
    LET list == Store(n).listed
        at == {i \in DOMAIN list : list[i] = Store(n).current}
        rest == IF list = <<>> THEN list
                ELSE RemoveAt(list, IF at = {} THEN Len(list)
                                    ELSE CHOOSE i \in at : \A j \in at : i <= j)
    IN [SetListed(page, n, rest) EXCEPT !.stores[n].current = First(rest)]

Reply(q) ==
    /\ q.done
    /\ sent' = sent \ {q}
    /\ page' = IF q.do = "join" THEN Joined(q.store, q.space) ELSE Left(q.store)
    /\ UNCHANGED member

\* A request fails, before or after the server has done it.
RequestFails(q) ==
    /\ sent' = sent \ {q}
    /\ UNCHANGED <<member, page>>

\* The user's membership is changed by others, or on another page.
Elsewhere(s) ==
    /\ member' = IF s \in member THEN member \ {s} ELSE member \cup {s}
    /\ UNCHANGED <<page, sent>>

SessionInit ==
    /\ member \in {{s} : s \in Space} \cup {{}}
    /\ page = NewPage @@ [signed |-> FALSE, kept |-> [list |-> <<>>, space |-> None]]
    /\ sent = {}
=============================================================================
