------------------------------- MODULE MCApp --------------------------------
(***************************************************************************)
(* The application, for TLC.  Each behaviour is about one `part` of it:    *)
(* requests about one space, as in MCRequests; edits of its categories, as *)
(* in MCCategories; or a part of MCPage.                                   *)
(***************************************************************************)
EXTENDS MCRequests, MCCategories, MCPage

appVars == <<requestsVars, editingVars>>

MCVars == <<appVars, pageVars>>

-----------------------------------------------------------------------------

\* A bound: if the last event is a request, it begins when no other is under way.
LastAlone == events = MaxEvents - 1 /\ events' = MaxEvents /\ ~(Underway' \subseteq Underway)
                => Underway = {}

MCNext ==
    \/ part = "requests" /\ RequestsNext /\ LastAlone /\ UNCHANGED <<editingVars, pageVars>>
    \/ part = "categories" /\ EditingNext /\ UNCHANGED <<requestsVars, pageVars>>
    \/ PageNext /\ UNCHANGED appVars

\* There is a space only if it is about requests.
MCInit ==
    /\ part \in {"requests", "categories", "session", "form", "editor", "accounts",
                "views"} /\ PageInit
    /\ RequestsInit /\ (part # "requests" => space = "none")
    /\ EditingInit

MCSpec == MCInit /\ [][MCNext]_MCVars

-----------------------------------------------------------------------------

\* Types, of what the behaviour is about.
AppTypeOK ==
    /\ part = "requests" => SpacesTypeOK /\ ContentTypeOK /\ ProfileTypeOK
    /\ part = "categories" => CategoriesTypeOK
    /\ PageTypeOK
=============================================================================
