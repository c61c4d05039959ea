----------------------------- MODULE Categories -----------------------------
(***************************************************************************)
(* The categories of a space (class SpaceStore in packages/front/src/      *)
(* store/spaceStore.ts, and the views that call it): a tree kept as a map  *)
(* in one document of the collection, the meta document, while what a      *)
(* document is filed under is a field of that document.  A page changes    *)
(* its replicas of both, and replicas are merged document by document.     *)
(*                                                                         *)
(* The map and the field are registers whose last writer wins, by Lamport  *)
(* clock and page, as Loro's are.  Every reference from one to the other   *)
(* is followed without a look whether it leads anywhere.                   *)
(***************************************************************************)
EXTENDS Naturals, FiniteSets, FiniteSetsExt

CONSTANTS
    Browser,     \* pages, as numbers: of two equal clocks the larger page's wins
    Category, Paper,
    Top, None    \* no parent; no such category

ASSUME CategoriesAssumption ==
    Browser \subseteq Nat \ {0} /\ Top \notin Category /\ None \notin Category \cup {Top}

VARIABLES
    meta,     \* each page's map: a register for each category, its parent in it
    filed,    \* each page's documents: a register for each, with its categories
    view      \* the category a page shows, or Top for all documents

categoriesVars == <<meta, filed, view>>

Stamp   == Nat \X (Browser \cup {0})
Never   == <<0, 0>>
Spot(v) == [at |-> Never, value |-> v]

CategoriesTypeOK ==
    /\ meta \in [Browser -> [Category -> [at: Stamp, value: Category \cup {Top, None}]]]
    /\ filed \in [Browser -> [Paper -> [at: Stamp, value: SUBSET Category]]]
    /\ view \in [Browser -> Category \cup {Top}]

CategoriesInit ==
    /\ meta = [b \in Browser |-> [c \in Category |-> Spot(None)]]
    /\ filed = [b \in Browser |-> [p \in Paper |-> Spot({})]]
    /\ view = [b \in Browser |-> Top]

Known(b)     == {c \in Category : meta[b][c].value # None}
Parent(b, c) == meta[b][c].value
There(b, p)  == filed[b][p].at # Never

\* categoryTree: every reference leads to a category, or there is no tree and no page.
Builds(b) ==
    /\ \A c \in Known(b) : Parent(b, c) \in Known(b) \cup {Top}
    /\ \A p \in Paper : filed[b][p].value \subseteq Known(b)

\* The categories the tree shows: those that hang from the top.
InTree(b) ==
    {c \in Known(b) : ~\E ring \in SUBSET Known(b) :
                          c \in ring /\ \A x \in ring : Parent(b, x) \in ring}

-----------------------------------------------------------------------------

Clock(doc) == Max({doc[x].at[1] : x \in DOMAIN doc})

Written(doc, x, b, v) == [doc EXCEPT ![x] = [at |-> <<Clock(doc) + 1, b>>, value |-> v]]

Refiled(reg, b, cs) == [at |-> <<reg.at[1] + 1, b>>, value |-> cs]

\* The view falls back to all documents when its category is no more.
Look(b) == view' = [view EXCEPT ![b] = IF @ \in Known(b)' THEN @ ELSE Top]

UpdateCategory(b, c, parent) ==
    /\ meta' = [meta EXCEPT ![b] = Written(@, c, b, parent)]
    /\ Look(b)
    /\ UNCHANGED filed

CreateCategory(b, c, parent) ==
    /\ Builds(b)
    /\ \A x \in Browser : meta[x][c].at = Never
    /\ parent \in InTree(b) \cup {Top}
    /\ UpdateCategory(b, c, parent)

\* A new name, or a new parent: any in the tree but the category itself.
EditCategory(b, c, parent) ==
    /\ Builds(b)
    /\ c \in InTree(b) /\ parent \in (InTree(b) \cup {Top}) \ {c}
    /\ UpdateCategory(b, c, parent)

\* Mutant of DeleteCategory: documents stay filed under it.
DeleteCategoryOnly(b, c) ==
    /\ Builds(b) /\ c \in InTree(b)
    /\ meta' = [meta EXCEPT ![b] = Written(@, c, b, None)]
    /\ Look(b)
    /\ UNCHANGED filed

\* What is filed under it no longer is; what is below it stays below it.
DeleteCategory(b, c) ==
    /\ Builds(b) /\ c \in InTree(b)
    /\ meta' = [meta EXCEPT ![b] = Written(@, c, b, None)]
    /\ filed' = [filed EXCEPT ![b] = [p \in Paper |->
                    IF c \in @[p].value THEN Refiled(@[p], b, @[p].value \ {c}) ELSE @[p]]]
    /\ Look(b)

FileUnder(b, p, cs) ==
    /\ filed' = [filed EXCEPT ![b][p] = Refiled(@, b, cs)]
    /\ UNCHANGED <<meta, view>>

\* Filed under what the page shows.
CreatePaper(b, p) ==
    /\ view[b] # Top => Builds(b)
    /\ \A x \in Browser : ~There(x, p)
    /\ FileUnder(b, p, {view[b]} \ {Top})

SelectCategory(b, p, c) ==
    /\ Builds(b) /\ There(b, p)
    /\ LET cs == filed[b][p].value IN
       \/ c \in cs /\ FileUnder(b, p, cs \ {c})
       \/ c \in InTree(b) \ cs /\ FileUnder(b, p, cs \cup {c})

\* The editor of a document shows its categories, if there are such, with or without
\* a tree.
Unfile(b, p, c) ==
    LET cs == filed[b][p].value IN
    /\ There(b, p) /\ cs \subseteq Known(b) /\ c \in cs
    /\ FileUnder(b, p, cs \ {c})

SetView(b, c) ==
    /\ Builds(b) /\ c \in InTree(b) \cup {Top}
    /\ view' = [view EXCEPT ![b] = c]
    /\ UNCHANGED <<meta, filed>>

\* The button above the list of documents.
GoUp(b) ==
    /\ view[b] # Top /\ Builds(b)
    /\ view' = [view EXCEPT ![b] = Parent(b, @)]
    /\ UNCHANGED <<meta, filed>>

Later(x, y) == x.at[1] > y.at[1] \/ (x.at[1] = y.at[1] /\ x.at[2] > y.at[2])

Merged(x, y) == [k \in DOMAIN x |-> IF Later(x[k], y[k]) THEN x[k] ELSE y[k]]

\* A page gets what another has changed of the map, or of a document.
MergeMeta(b, from) ==
    /\ meta' = [meta EXCEPT ![b] = Merged(meta[from], @)]
    /\ Look(b)
    /\ UNCHANGED filed

MergePaper(b, from, p) ==
    /\ filed' = [filed EXCEPT ![b][p] = IF Later(filed[from][p], @) THEN filed[from][p] ELSE @]
    /\ UNCHANGED <<meta, view>>

-----------------------------------------------------------------------------
(* Properties *)

Agreed == \A b, x \in Browser : meta[b] = meta[x] /\ filed[b] = filed[x]

\* A page has a tree, with every category in it, and shows one of them.
Whole(b) == Builds(b) /\ InTree(b) = Known(b) /\ view[b] \in Known(b) \cup {Top}
=============================================================================
