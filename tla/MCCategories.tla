---------------------------- MODULE MCCategories ----------------------------
(***************************************************************************)
(* Pages edit the categories of a space at once, at most MaxEdits times,   *)
(* and get each other's edits in any order.  What the property excepts is  *)
(* remembered.  A part of MCApp.                                           *)
(***************************************************************************)
EXTENDS Categories

CONSTANT MaxEdits

VARIABLES
    edits,            \* so far
    since,            \* kinds of edits of each page that others have not got
    crossed           \* has an edit been made that takes no account of another's,
                      \* or that leaves a category without a way to the top?

editingVars == <<categoriesVars, edits, since, crossed>>

-----------------------------------------------------------------------------

Edit(x) ==
    \/ \E p \in Paper : CreatePaper(x, p)
    \/ \E c \in Category :
        \/ DeleteCategory(x, c)
        \/ \E p \in Paper : SelectCategory(x, p, c) \/ Unfile(x, p, c)
        \/ \E parent \in Category \cup {Top} : \/ CreateCategory(x, c, parent)
                                               \/ EditCategory(x, c, parent)
    \/ \E c \in Category \cup {Top} : c # view[x] /\ SetView(x, c)
    \/ GoUp(x)

Merging(x, y) ==
    \/ meta[x] # Merged(meta[y], meta[x]) /\ MergeMeta(x, y)
    \/ \E p \in Paper : Later(filed[y][p], filed[x][p]) /\ MergePaper(x, y, p)

-----------------------------------------------------------------------------
(* History *)

\* Page x has made an edit of this kind.
Kind(x) ==
    IF \E c \in Known(x) : c \notin Known(x)' THEN "delete"
    ELSE IF \E c \in Known(x) : meta[x][c] # meta'[x][c] THEN "move" ELSE "grow"

RememberEdit(x) ==
    LET kind == Kind(x)
        others == UNION {since[y] : y \in Browser \ {x}}
    IN
    /\ since' = [since EXCEPT ![x] = @ \cup {kind}]
    /\ crossed' = \/ crossed
                  \/ "delete" \in others \/ (kind = "delete" /\ others # {})
                  \/ kind = "move" /\ "move" \in others
                  \/ kind = "delete" /\ \E c \in Known(x)' : Parent(x, c)' \notin Known(x)' \cup {Top}
                  \/ kind = "move" /\ InTree(x)' # Known(x)'

RememberMerge ==
    /\ since' = IF Agreed' THEN [x \in Browser |-> {}] ELSE since
    /\ UNCHANGED crossed

-----------------------------------------------------------------------------

EditingInit ==
    /\ CategoriesInit /\ edits = 0
    /\ since = [x \in Browser |-> {}] /\ crossed = FALSE

EditingNext ==
    \/ /\ edits < MaxEdits /\ edits' = edits + 1
       /\ \E x \in Browser : Edit(x) /\ RememberEdit(x)
    \/ (\E x, y \in Browser : Merging(x, y)) /\ RememberMerge /\ UNCHANGED edits

EditingSpec == EditingInit /\ [][EditingNext]_editingVars

-----------------------------------------------------------------------------
(* Properties *)

\* Once pages have what others did, each has the whole tree; unless edits crossed of
\* which one deleted, or both moved, a category, or one left others without a parent.
TreeWholeIfOrderly ==
    Agreed /\ ~crossed => \A x \in Browser : Whole(x)
=============================================================================
