------------------------------ MODULE Profile -------------------------------
(***************************************************************************)
(* A user's page and what it shows of the user: the role in the space, as  *)
(* it was last fetched (UserStore in packages/front/src/store/             *)
(* userStore.ts, getProfile and getUserSpaces on the server).  The page    *)
(* starts from what the browser has stored, and fetches the profile then,  *)
(* and whenever the channel says so.                                       *)
(***************************************************************************)
EXTENDS Spaces

CONSTANTS
    Page,        \* users who have a page open at some time
    MaxFetches   \* at once

ASSUME ProfileAssumption == Page \subseteq User /\ MaxFetches \in Nat

VARIABLES
    open,      \* pages that are open
    role,      \* the role a page shows, or "none": of the space, if it is listed
    fetches,   \* under way: "asked", or the role that was read
    retry      \* is a fetch to be tried again?

profileVars == <<open, role, fetches, retry>>

Shown == Rank \cup {"none"}

ProfileTypeOK ==
    /\ open \subseteq Page
    /\ role \in [Page -> Shown]
    /\ fetches \in [Page -> Seq(Shown \cup {"asked"})]
    /\ retry \subseteq Page

ProfileInit ==
    /\ open = {} /\ role = [u \in Page |-> "none"]
    /\ fetches = [u \in Page |-> <<>>] /\ retry = {}

\* A fetch begins; a retry that was due is dropped, a fetch under way is not.
Fetch(u) ==
    /\ Len(fetches[u]) < MaxFetches
    /\ fetches' = [fetches EXCEPT ![u] = Append(@, "asked")]
    /\ retry' = retry \ {u}

OpenPage(u) ==
    /\ u \notin open
    /\ open' = open \cup {u}
    /\ Fetch(u)
    /\ UNCHANGED <<role, spacesVars>>

\* The channel is opened with the page, and again when it is closed.
ConnectChannel(u) ==
    /\ u \in open
    /\ ChannelUp(u)
    /\ UNCHANGED <<profileVars, dbVars, syncVars, req>>

LoseChannel(u) ==
    /\ ChannelDown(u)
    /\ UNCHANGED <<profileVars, dbVars, syncVars, req>>

OnProfile(u) ==
    /\ u \in open /\ mail[u] > 0
    /\ mail' = [mail EXCEPT ![u] = @ - 1]
    /\ Fetch(u)
    /\ UNCHANGED <<open, role, chan, dbVars, syncVars, req>>

\* The server reads the profile, ...
ReadProfile(u, i) ==
    /\ fetches[u][i] = "asked"
    /\ \E r \in Roles(u) : fetches' = [fetches EXCEPT ![u][i] = r]
    /\ UNCHANGED <<open, role, retry, spacesVars>>

\* ... and the page shows what comes, whichever comes last.
UpdateUser(u, i) ==
    /\ fetches[u][i] # "asked"
    /\ role' = [role EXCEPT ![u] = fetches[u][i]]
    /\ fetches' = [fetches EXCEPT ![u] = RemoveAt(@, i)]
    /\ UNCHANGED <<open, retry, spacesVars>>

FetchFails(u, i) ==
    /\ fetches' = [fetches EXCEPT ![u] = RemoveAt(@, i)]
    /\ retry' = retry \cup {u}
    /\ UNCHANGED <<open, role, spacesVars>>

Retry(u) ==
    /\ u \in retry
    /\ Fetch(u)
    /\ UNCHANGED <<open, role, spacesVars>>

\* The application restarts: fetches under way are tried again.
Restart ==
    /\ Crash
    /\ fetches' = [u \in Page |-> <<>>]
    /\ retry' = retry \cup {u \in Page : fetches[u] # <<>>}
    /\ UNCHANGED <<open, role>>

ProfileStep(u) ==
    \/ ConnectChannel(u) \/ OnProfile(u) \/ Retry(u)
    \/ \E i \in DOMAIN fetches[u] : ReadProfile(u, i) \/ UpdateUser(u, i)

-----------------------------------------------------------------------------
(* Properties *)

\* Nothing is on its way to the page, or due.
Settled(u) == u \in open /\ mail[u] = 0 /\ fetches[u] = <<>> /\ u \notin retry

Fresh(u) == role[u] \in Roles(u)
=============================================================================
