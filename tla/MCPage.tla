------------------------------- MODULE MCPage -------------------------------
(***************************************************************************)
(* A browser's page and the accounts behind it, for TLC: a page with its   *)
(* spaces and links ("session"), a form, the view of a document ("editor") *)
(* and those of members, notifications and so on ("views"), and the        *)
(* accounts of a person, each by itself (`part`), with a few events of the *)
(* user, of others and of the network, in any order.                       *)
(***************************************************************************)
EXTENDS Forms, MCAccounts, Naturals, FiniteSets, SequencesExt

VARIABLES
    part,                      \* which of them this behaviour is about
    spent,                     \* what the events so far have cost
    member, page, sent,        \* Session
    children, ops, local, acked, window, failed,                      \* Editor
    server, shown, calls, unsure,                                     \* Views
    strayed, hasty, misled, adrift     \* history of the page: see below

S == INSTANCE Session WITH Space <- {"s1", "s2"}, Link <- {"l1"}, None <- "none",
                           MaxStores <- 2, MaxFetches <- 2, MaxCollections <- 3

\* Values of the constants of Forms: what fails, and when the errors of a field show.
MCBad == {<<"email", "bad">>, <<"name", "bad">>}
MCAsyncBad == {<<"email", "refused">>, <<"name", "refused">>}
MCMode == [f \in {"email", "name"} |-> [e \in {"required", "validation"} |->
              IF f = "name" THEN "onBlurTouched" ELSE IF e = "required" THEN "off" ELSE "onBlur"]]

E == INSTANCE Editor WITH Letter <- {"x"}, MaxFixes <- 30

V == INSTANCE Views WITH
        Me <- "me", Person <- {"me", "p", "q"}, Invite <- {"i1", "i2", "i3"},
        FromMe <- {"i1"}, ToMe <- {"i3"}, Name <- {"n1", "n2"}, MaxCalls <- 2

sessionVars  == <<member, page, sent>>
editorVars   == <<children, ops, local, acked, window, failed>>
viewsVars    == <<server, shown, calls, unsure>>
pastVars     == <<strayed, hasty, misled, adrift, mishaps, unswept>>
pageVars == <<part, spent, sessionVars, formsVars, editorVars, accountsVars,
              viewsVars, pastVars>>

\* An event that costs this much may happen as long as no more than this is spent.
Spend(cost, limit) == spent + cost <= limit /\ spent' = spent + cost

-----------------------------------------------------------------------------
(* A page: its history *)

\* `strayed` are the stores whose current space was changed by a reply, while the store
\* of the space stayed.
ShownBy(n) == page.stores[n].shown

KeepsShown == {n \in DOMAIN page.stores \cap DOMAIN page'.stores :
                  ShownBy(n) = page'.stores[n].shown}

RememberStrayed(replied) ==
    strayed' = KeepsShown \cap
        (strayed \cup {n \in KeepsShown :
                          replied /\ page.stores[n].current # page'.stores[n].current})

\* `hasty` are the collections that were no longer what is shown while they were loading.
RememberHasty ==
    hasty' = {<<n, i>> \in (1 .. 2) \X (1 .. 3) :
        /\ n \in DOMAIN page'.stores /\ i \in DOMAIN page'.stores[n].cols
        /\ \/ <<n, i>> \in hasty
           \/ /\ page'.stores[n].cols[i].stage = "opening"
              /\ (page'.stores[n].shown # i \/ page'.mine # n)}

Waits(w, n) == w.stores[n].waits

\* `misled` are the links that were looked for in the space shown by a store that strayed.
RememberMisled ==
    misled' = misled \cup {l \in {"l1"} : \E n \in strayed \cap KeepsShown :
        \E wait \in Waits(page', n) \ Waits(page, n) : wait.link = l /\ wait.for = "load"}

\* `adrift` are links of which, once they were taken up, nothing can tell more: no handler
\* waits for anything that is under way; or what it waits for was left.
Unheard(w, l) ==
    \A n \in DOMAIN w.stores : \A wait \in Waits(w, n) : wait.link = l =>
        /\ wait.for = "user" /\ ~w.stores[n].fetched
        /\ w.stores[n].fetches = <<>> /\ w.stores[n].timers = {}

Left(l) ==
    \E n \in DOMAIN page.stores \cap DOMAIN page'.stores : \E wait \in Waits(page, n) :
        /\ wait.link = l /\ wait.for \in {"load", "sync"}
        /\ ShownBy(n) = wait.col
        /\ (page'.stores[n].shown # wait.col \/ page'.mine # n)

TakenUp(l) ==
    \/ page.links[l] # page'.links[l]
    \/ page.mine # page'.mine
    \/ \E n \in DOMAIN page.stores \cap DOMAIN page'.stores :
          \E wait \in Waits(page, n) \ Waits(page', n) : wait.link = l /\ wait.for = "user"

RememberAdrift ==
    adrift' = adrift \cup {l \in {"l1"} :
        page'.mine > 0 /\ ((TakenUp(l) /\ Unheard(page', l)) \/ Left(l))}

Remember(replied) ==
    /\ RememberStrayed(replied) /\ RememberHasty /\ RememberMisled /\ RememberAdrift
    /\ UNCHANGED <<mishaps, unswept>>

-----------------------------------------------------------------------------
(* A page: its steps *)

PageEvents ==
    \/ S!OpenPage("none", "s1")
    \/ \E s \in {"s1", "s2"} :
          \/ \E l \in {"l1"} : S!OpenPage(l, s) \/ S!ClickLink(l, s)
          \/ S!SwitchSpace(s) \/ S!Join(s) \/ S!Elsewhere(s)
    \/ S!Cancel \/ S!OnProfile \/ S!Code \/ S!Logout \/ S!ClosePage \/ S!Leave
    \/ \E n \in DOMAIN page.stores :
          \/ \E i \in DOMAIN page.stores[n].fetches : S!FetchFails(n, i)
          \/ \E i \in DOMAIN page.stores[n].cols : S!SyncFails(n, i)
    \/ \E q \in sent : S!RequestFails(q)

PageSteps ==
    \/ \E n \in DOMAIN page.stores :
          \/ \E by \in page.stores[n].timers : S!Retry(n, by)
          \/ \E i \in DOMAIN page.stores[n].fetches : S!ReadProfile(n, i)
          \/ \E i \in DOMAIN page.stores[n].cols : S!Load(n, i) \/ S!SyncDone(n, i)
          \/ \E wait \in Waits(page, n) :
                S!LinkFetched(n, wait) \/ S!LinkLoaded(n, wait) \/ S!LinkSynced(n, wait)
    \/ \E q \in sent : S!Serve(q) \/ (q.do = "join" /\ S!Reply(q))

Replies ==
    \/ \E n \in DOMAIN page.stores : \E i \in DOMAIN page.stores[n].fetches : S!UpdateUser(n, i)
    \/ \E q \in sent : q.do = "leave" /\ S!Reply(q)

SessionNext ==
    /\ part = "session"
    /\ \/ Spend(1, 5) /\ PageEvents /\ Remember(FALSE)
       \/ PageSteps /\ UNCHANGED spent /\ Remember(FALSE)
       \/ Replies /\ UNCHANGED spent /\ Remember(TRUE)
    /\ \A n \in DOMAIN page'.stores : Len(page'.stores[n].cols) <= 3
    /\ UNCHANGED <<part, formsVars, editorVars, accountsVars, viewsVars>>

-----------------------------------------------------------------------------
(* A form, and a document *)

FormNext ==
    /\ part = "form" /\ FormsNext
    /\ UNCHANGED <<part, spent, sessionVars, editorVars, accountsVars, viewsVars, pastVars>>

Line(type, s) == E!Elem(type, "none", <<E!TextOf(s)>>)

Documents == {E!Elem("editor", "none", kids) : kids \in {
    <<Line("title", <<"t">>), Line("heading", <<"h">>),
      E!Elem("list", "none", <<Line("list-item", <<"i">>), Line("list-item", <<>>),
                               Line("list-item", <<"j">>)>>),
      Line("paragraph", <<"a", "b">>)>>,
    <<Line("title", <<>>),
      E!Elem("paragraph", "none", <<E!TextOf(<<"a">>), Line("link", <<"l">>), E!TextOf(<<>>)>>),
      Line("paragraph", <<>>)>>,
    <<Line("title", <<"t">>),
      E!Elem("code-block", "none", <<Line("code-line", <<"c">>), Line("code-line", <<"d">>)>>),
      E!Elem("check-list", "none", <<Line("check-list-item", <<"e">>)>>),
      Line("paragraph", <<>>)>>}}

EditorNext ==
    /\ part = "editor"
    /\ \/ E!OnChange /\ UNCHANGED spent
       \/ Spend(2, 5) /\ (E!Command \/ E!OthersEdit)
       \/ Spend(1, 5) /\ (E!OnImage \/ E!OnCheckbox \/ E!Acknowledge \/ E!Refused
                             \/ E!OpenView \/ E!CloseView)
    /\ UNCHANGED <<part, sessionVars, formsVars, accountsVars, viewsVars, pastVars>>

-----------------------------------------------------------------------------
(* Accounts *)

AccountsPart ==
    /\ part = "accounts"
    /\ \/ AccountsGoOn /\ UNCHANGED <<spent, unswept>>
       \/ Sweeping /\ UNCHANGED spent
       \/ DevicesDo /\ Spend(1, 5) /\ UNCHANGED unswept
       \/ InvitesDo /\ Spend(2, 5) /\ UNCHANGED unswept
    /\ RememberMishaps
    /\ otps'["o2"].status # "none" => otps'["o1"].status # "none"
    /\ UNCHANGED <<part, sessionVars, formsVars, editorVars, viewsVars, strayed, hasty, misled,
                   adrift>>

-----------------------------------------------------------------------------
(* Views *)

ViewsNext ==
    /\ part = "views"
    /\ \/ /\ UNCHANGED spent
          /\ \/ \E n \in DOMAIN calls : V!Check(n) \/ V!Fetch(n) \/ V!Write(n)
                                       \/ V!WriteRefused(n) \/ V!Read(n)
             \/ V!ReadProfile
       \/ /\ Spend(1, 5)
          /\ \/ \E at \in V!View : V!OpenView(at)
             \/ V!CloseView
             \/ V!ClickMember \/ V!ClickNotification \/ V!ClickPublish
             \/ V!ClickTerminate \/ V!ClickRename
       \/ Spend(2, 5) /\ ((\E n \in DOMAIN calls : V!CallFails(n)) \/ V!OthersDo)
    /\ UNCHANGED <<part, sessionVars, formsVars, editorVars, accountsVars, pastVars>>

-----------------------------------------------------------------------------

PageInit ==
    /\ spent = 0
    /\ S!SessionInit /\ FormsInit /\ AccountsInit
    /\ part # "session" => member = {}
    /\ part # "accounts" => accounts = <<>>
    /\ \E d \in IF part = "editor" THEN Documents ELSE {E!TextOf(<<>>)} :
          children = d /\ local = d /\ acked = d
    /\ \E role \in IF part = "views" THEN {"admin", "owner"} ELSE {"owner"} :
          V!ViewsInit([p \in {"me", "p", "q"} |-> IF p = "me" THEN role
                        ELSE IF p = "p" THEN "editor"
                        ELSE IF role = "owner" THEN "admin" ELSE "owner"],
                      [i \in {"i1", "i2", "i3"} |-> "sent"])
    /\ ops = <<>> /\ window = "on" /\ failed = FALSE
    /\ strayed = {} /\ hasty = {} /\ misled = {} /\ adrift = {} /\ mishaps = {} /\ unswept = {}

PageNext == SessionNext \/ FormNext \/ EditorNext \/ AccountsPart \/ ViewsNext

-----------------------------------------------------------------------------
(* Properties *)

PageTypeOK ==
    /\ part = "session" => S!SessionTypeOK
    /\ part = "form" => FormsTypeOK
    /\ part = "accounts" => AccountsTypeOK
    /\ part = "views" => V!ViewsTypeOK

\* The space that is current is listed, and none is if none is listed; what is shown is
\* that space, unless a reply made it the current one; a link is looked for in the space
\* it names; and only what is shown is connected, unless it was left while it was loading.
PageAtHome ==
    /\ \A n \in DOMAIN page.stores : LET p == page.stores[n] IN
        /\ IF p.listed = <<>> THEN p.current = "none" ELSE S!HasSpace(p, p.current)
        /\ n \notin strayed =>
              IF p.current = "none" THEN p.shown = 0
              ELSE p.shown > 0 /\ p.cols[p.shown].space = p.current
        /\ \A wait \in p.waits : wait.for # "user" /\ wait.link \notin misled =>
              p.cols[wait.col].space = page.links[wait.link].space
        /\ \A i \in DOMAIN p.cols : S!Alive(n, i) /\ <<n, i>> \notin hasty =>
              n = page.mine /\ i = p.shown

\* When nothing is under way, a link is not still being opened, unless it was adrift.
LinksAnswered ==
    page.mine > 0 /\ page.deepLink # "none" /\ S!Pending(page, page.deepLink) =>
        \/ page.deepLink \in adrift
        \/ sent # {}
        \/ \E n \in DOMAIN page.stores : LET p == page.stores[n] IN
            \/ p.fetches # <<>> \/ p.timers # {}
            \/ \E i \in DOMAIN p.cols :
                  p.cols[i].stage = "opening" \/ (p.cols[i].stage = "loaded" /\ ~p.cols[i].dead)
            \/ \E wait \in p.waits :
                  \/ wait.for = "user" /\ p.fetched
                  \/ wait.for = "load" \/ (wait.for = "sync" /\ p.cols[wait.col].stage = "synced")

\* The normal form of a node of a document: what the editor normalizes to.
NormalNode(n) ==
    LET types == {n.kids[i].type : i \in DOMAIN n.kids} IN
    CASE n.type = "editor" ->
            /\ {i \in DOMAIN n.kids : n.kids[i].type = "title"} = {1}
            /\ Last(n.kids).type = "paragraph" /\ "code-line" \notin types
      [] n.type \in {"list", "ordered-list"} -> types \subseteq {"list-item"}
      [] n.type = "check-list"  -> types \subseteq {"check-list-item"}
      [] n.type = "code-block"  -> types \subseteq {"code-line"}
      [] n.type = "link"        -> types \subseteq {"text"} /\ n.kids[1].text # <<>>
      [] n.type \in {"code-line", "image"} -> types = {"text"}
      [] n.type = "text"        -> types = {}
      [] OTHER                  -> types \subseteq {"text", "link"}

RECURSIVE Letters(_)
Letters(n) == n.text \o FlattenSeq([i \in DOMAIN n.kids |-> Letters(n.kids[i])])

\* Once handed on, what the user did is in the document as it is on the screen, in a view
\* of that document; and what a command did leaves the tree normal, and the text before
\* and after one place as it was.
EditsLand ==
    window = "on" =>
        IF ops = <<>> THEN children = local /\ ~failed
        ELSE LET old == Letters(local)  new == Letters(children) IN
             /\ \A p \in E!Paths(children) : NormalNode(E!NodeAt(children, p))
             /\ \E i \in 0 .. Len(old), gone, added \in 0 .. 2 :
                   /\ i + gone <= Len(old) /\ i + added <= Len(new)
                   /\ SubSeq(old, 1, i) = SubSeq(new, 1, i)
                   /\ SubSeq(old, i + gone + 1, Len(old)) = SubSeq(new, i + added + 1, Len(new))

\* What a view shows is what the server has, and what it offers is permitted, as far as
\* the view can know and requests did not cross: see Views.
ViewsTrue == V!ListsTrue /\ V!OffersPermitted
=============================================================================
