------------------------------- MODULE Editor -------------------------------
(***************************************************************************)
(* The view of a document (packages/front/src/views/documentView): what    *)
(* its commands do to the editor's tree, how the tree is brought back to a *)
(* normal form, and how the editor's operations come to be repeated on the *)
(* document of the collection (Binding).                                   *)
(*                                                                         *)
(* Slate is external; what its transforms do is said for a caret, which is *)
(* a place in a text.  Normalisation looks at the whole tree, deepest      *)
(* nodes first.  Selections of a range, marks and undo are left out.       *)
(***************************************************************************)
EXTENDS Binding, FiniteSets

CONSTANTS
    Letter,     \* what is typed
    MaxFixes    \* how often normalisation mends the tree before it gives up

VARIABLES
    children,   \* the editor's tree
    ops,        \* the editor's operations that were not yet handed on
    local,      \* the document, as the collection has it ...
    acked,      \* ... and as it last came from the server
    window,      \* "on" the document of the collection, on one since replaced ("stale"),
                \* or "closed"
    failed      \* has handing operations on thrown, in this view?

editorVars == <<children, ops, local, acked, window, failed>>

Textual == {"title", "paragraph", "heading", "list-item", "check-list-item"}
Lists   == {"list", "ordered-list", "check-list"}

ItemOf(list) == IF list = "check-list" THEN "check-list-item" ELSE "list-item"

Text0      == TextOf(<<>>)
Paragraph0 == Elem("paragraph", "none", <<Text0>>)

-----------------------------------------------------------------------------
(* Nodes and places in a tree *)

RECURSIVE Paths(_)
Paths(n) == {<<>>} \cup UNION {{<<i>> \o p : p \in Paths(n.kids[i])} : i \in DOMAIN n.kids}

TypeAt(n, p) == NodeAt(n, p).type
Leaves(n)    == {p \in Paths(n) : TypeAt(n, p) = "text"}
Above(p)     == {SubSeq(p, 1, k) : k \in 1 .. Len(p)}

\* The order of the text.
Precedes(p, q) ==
    \E k \in 1 .. Len(p) : /\ k <= Len(q) /\ SubSeq(p, 1, k - 1) = SubSeq(q, 1, k - 1)
                           /\ p[k] < q[k]

Lowest(set) == CHOOSE p \in set : \A q \in set : Len(q) <= Len(p)

\* The block that a path leads into, and whether it leads into one of these types.
Block(n, p)     == Lowest({q \in Above(p) : TypeAt(n, q) \notin {"text", "link"}})
In(n, p, types) == \E q \in Above(p) : TypeAt(n, q) \in types
The(n, p, types) == Lowest({q \in Above(p) : TypeAt(n, q) \in types})

\* A caret is a place in a text, not in an image nor at the left edge of a link.
Carets(n) ==
    {c \in [path: Leaves(n), at: 0 .. 3] :
        /\ c.at <= Len(NodeAt(n, c.path).text)
        /\ ~In(n, c.path, {"image"})
        /\ c.at = 0 => ~In(n, c.path, {"link"})}

AtStart(n, c, p) == c.at = 0 /\ \A q \in Leaves(n) : IsPrefix(p, q) => ~Precedes(q, c.path)
AtEnd(n, c, p) ==
    /\ c.at = Len(NodeAt(n, c.path).text)
    /\ \A q \in Leaves(n) : IsPrefix(p, q) => ~Precedes(c.path, q)

\* Editor.isEmpty.
IsEmpty(node) == node.kids = <<>> \/ node.kids = <<Text0>>

AtEndOf(n, c, type) == In(n, c.path, {type}) /\ AtEnd(n, c, The(n, c.path, {type}))
AtEmpty(n, c, type) == AtEndOf(n, c, type) /\ IsEmpty(NodeAt(n, The(n, c.path, {type})))

-----------------------------------------------------------------------------
(* Slate's transforms: the tree so far, and the operations that led to it *)

Do(e, o) == [tree |-> Perform(e.tree, o), ops |-> Append(e.ops, o)]

SetType(e, p, type) ==
    LET n == NodeAt(e.tree, p) IN
    IF n.type = type THEN e ELSE Do(e, SetNode(p, type, n.prop))

Wrap(e, p, type) ==
    Do(Do(e, InsertNode(NextTo(p), Elem(type, "none", <<>>))),
       MoveNode(p, Append(NextTo(p), 1)))

\* A node is lifted out of its parent, which is split if it has others on both sides;
\* and where it is then.
Lift(e, p) ==
    LET parent == Parent(p)  last == Len(Kids(e.tree, parent)) IN
    IF last = 1 THEN Do(Do(e, MoveNode(p, NextTo(parent))), RemoveNode(parent))
    ELSE IF Index(p) = 1 THEN Do(e, MoveNode(p, parent))
    ELSE IF Index(p) = last THEN Do(e, MoveNode(p, NextTo(parent)))
    ELSE Do(Do(e, SplitNode(parent, Index(p))), MoveNode(p, NextTo(parent)))
Lifted(p) == IF Index(p) = 1 THEN Parent(p) ELSE NextTo(Parent(p))

RECURSIVE Unwrap(_, _)
Unwrap(e, p) ==
    IF Len(Kids(e.tree, p)) = 1 THEN Lift(e, Append(p, 1))
    ELSE Unwrap(Lift(e, Append(p, 1)), NextTo(p))

\* A node before that is empty goes, rather than to be merged with.
Merge(e, p) ==
    LET prev == NodeAt(e.tree, Previous(p)) IN
    IF IF IsText(prev) THEN prev.text = <<>> /\ Index(p) > 2 ELSE IsEmpty(prev)
    THEN Do(e, RemoveNode(Previous(p))) ELSE Do(e, MergeNode(p))

\* What holds the caret is split, from the text up to `top`; at an edge only if `always`.
RECURSIVE SplitUp(_, _, _, _, _, _)
SplitUp(e, c, p, k, top, always) ==
    IF Len(p) < Len(top) THEN e
    ELSE LET end == AtEnd(e.tree, c, p)
             cut == always \/ ~(end \/ AtStart(e.tree, c, p))
         IN SplitUp(IF cut THEN Do(e, SplitNode(p, k)) ELSE e, c, Parent(p),
                    IF cut \/ end THEN Index(p) ELSE Index(p) - 1, top, always)

\* Nodes go beside the one at `top`, or between its halves.
InsertNodes(e, c, nodes, top) ==
    LET before == AtStart(e.tree, c, top) /\ ~AtEnd(e.tree, c, top)
        at == IF before THEN top ELSE NextTo(top)
    IN FoldLeft(LAMBDA f, i : Do(f, InsertNode(Append(Parent(at), Index(at) + i - 1), nodes[i])),
                SplitUp(e, c, c.path, c.at, top, FALSE), [i \in DOMAIN nodes |-> i])

-----------------------------------------------------------------------------
(* Normalisation *)

\* May this child be where it is?
Fits(n, i) ==
    LET type == n.kids[i].type IN
    CASE n.type = "editor"                     -> (i = 1) = (type = "title")
      [] n.type \in Textual                    -> type \in {"text", "link"}
      [] n.type = "code-line"                  -> type = "text"
      [] n.type = "code-block"                 -> type = "code-line"
      [] n.type \in Lists                      -> type = ItemOf(n.type)
      [] OTHER                                 -> TRUE

\* A child that may not be there is given another type, wrapped if it is a text, or
\* unwrapped.
Mend(e, p, i) ==
    LET n == NodeAt(e.tree, p)  kid == Append(p, i)
        type == IF n.type = "code-block" THEN "code-line" ELSE ItemOf(n.type)
    IN
    IF n.type = "editor" THEN SetType(e, kid, IF i = 1 THEN "title" ELSE "paragraph")
    ELSE IF n.type \notin Lists \cup {"code-block"} THEN Unwrap(e, kid)
    ELSE IF IsText(n.kids[i]) THEN Wrap(e, kid, type) ELSE SetType(e, kid, type)

\* Slate's own rules: an element has a text; there is text around a link; texts side by
\* side are one.  (No command leaves texts and blocks side by side.)
Tidy(e, p) ==
    LET kids == Kids(e.tree, p)
        bare == {i \in DOMAIN kids : kids[i].type = "link" /\ (i = 1 \/ ~IsText(kids[i - 1]))}
        last == {i \in DOMAIN kids : kids[i].type = "link" /\ i = Len(kids)}
        twin == {i \in DOMAIN kids : i > 1 /\ IsText(kids[i]) /\ IsText(kids[i - 1])}
        Add(i) == Do(e, InsertNode(Append(p, i), Text0))
    IN
    IF kids = <<>> /\ ~IsText(NodeAt(e.tree, p)) /\ p # <<>> THEN Add(1)
    ELSE IF bare # {} THEN Add(CHOOSE i \in bare : TRUE)
    ELSE IF last # {} THEN Add(Len(kids) + 1)
    ELSE IF twin # {} THEN Merge(e, Append(p, CHOOSE i \in twin : \A j \in twin : i <= j))
    ELSE e

NormalizeNode(e, p) ==
    LET n == NodeAt(e.tree, p)
        wrong == {i \in DOMAIN n.kids : ~Fits(n, i)}
    IN
    IF p = <<>> /\ wrong = {} /\ (n.kids = <<>> \/ Last(n.kids).type # "paragraph")
    THEN Do(e, InsertNode(<<Len(n.kids) + 1>>, Paragraph0))
    ELSE IF n.type = "link" /\ IsEmpty(n) THEN Do(e, RemoveNode(p))
    ELSE IF n.type = "code-line" /\ TypeAt(e.tree, Parent(p)) # "code-block"
    THEN SetType(e, p, "paragraph")
    ELSE IF wrong # {} THEN Mend(e, p, CHOOSE i \in wrong : \A j \in wrong : i <= j)
    ELSE Tidy(e, p)

RECURSIVE NormalizeIn(_, _)
NormalizeIn(e, fixes) ==
    LET bad == {p \in Paths(e.tree) : NormalizeNode(e, p) # e} IN
    IF bad = {} \/ fixes = 0 THEN e
    ELSE NormalizeIn(NormalizeNode(e, Lowest(bad)), fixes - 1)

-----------------------------------------------------------------------------
(* A command makes calls of transforms; after each, the tree is normalized *)

SetBlock(p, type)        == [do |-> "set", path |-> p, type |-> type]
WrapNode(p, type)        == [do |-> "wrap", path |-> p, type |-> type]
LiftBlock(p)             == [do |-> "lift", path |-> p]
UnwrapNode(p)            == [do |-> "unwrap", path |-> p]
SplitBlock(c, top)       == [do |-> "split", caret |-> c, path |-> top]
Insert(c, nodes, top)    == [do |-> "insert", caret |-> c, nodes |-> nodes, path |-> top]
Join(p, prev)            == [do |-> "join", path |-> p, prev |-> prev]
Apply(operations)        == [do |-> "apply", ops |-> operations]

\* A block is joined with the one before, and what it alone was in is removed; but not if
\* there is a link in it: an empty list then stays.
MergeBlocks(e, p, prev) ==
    LET n == e.tree
        lone == {q \in Above(Parent(p)) : /\ ~IsPrefix(q, prev)
                                          /\ \A r \in Above(p) : IsPrefix(q, r) => Len(Kids(n, r)) = 1}
        moved == IF p = NextTo(prev) THEN e ELSE Do(e, MoveNode(p, NextTo(prev)))
        \* Of those that are removed the first holds the others; it comes after `prev`.
        top == CHOOSE q \in lone : \A r \in lone : Len(q) <= Len(r)
        gone == IF Len(prev) = Len(top) /\ Parent(prev) = Parent(top) THEN NextTo(top) ELSE top
    IN Merge(IF p = NextTo(prev) \/ lone = {} THEN moved
             ELSE Do(moved, RemoveNode(gone)), NextTo(prev))

Transform(e, t) ==
    CASE t.do = "set"    -> SetType(e, Block(e.tree, t.path), t.type)
      [] t.do = "wrap"   -> Wrap(e, t.path, t.type)
      [] t.do = "lift"   -> Lift(e, Block(e.tree, t.path))
      [] t.do = "unwrap" -> Unwrap(e, t.path)
      [] t.do = "split"  -> SplitUp(e, t.caret, t.caret.path, t.caret.at, t.path, TRUE)
      [] t.do = "insert" -> InsertNodes(e, t.caret, t.nodes, t.path)
      [] t.do = "join"   -> MergeBlocks(e, t.path, t.prev)
      [] t.do = "apply"  -> FoldLeft(Do, e, t.ops)

Run(tree, calls) ==
    FoldLeft(LAMBDA e, t : NormalizeIn(Transform(e, t), MaxFixes), [tree |-> tree, ops |-> <<>>], calls)

-----------------------------------------------------------------------------
(* Commands: the calls that each makes, with the caret at c in the tree n *)

\* The lists around the caret are opened; and where its block is then.
UnwrapList(n, c) == IF In(n, c.path, Lists) THEN <<LiftBlock(c.path)>> ELSE <<>>
AfterUnwrap(n, c) ==
    LET p == Block(n, c.path) IN IF In(n, c.path, Lists) THEN Lifted(p) ELSE p

ToggleList(n, c, type) ==
    LET p == AfterUnwrap(n, c) IN
    UnwrapList(n, c) \o IF In(n, c.path, {type}) THEN <<SetBlock(p, "paragraph")>>
                        ELSE <<SetBlock(p, ItemOf(type)), WrapNode(p, type)>>

ToggleHeading(n, c) ==
    IF In(n, c.path, {"heading"}) THEN <<SetBlock(c.path, "paragraph")>>
    ELSE Append(UnwrapList(n, c), SetBlock(AfterUnwrap(n, c), "heading"))

ToggleCodeBlock(n, c) ==
    IF In(n, c.path, {"code-block"}) THEN <<UnwrapNode(The(n, c.path, {"code-block"}))>>
    ELSE <<SetBlock(c.path, "code-line"), WrapNode(Block(n, c.path), "code-block")>>

\* In the last place of a heading, a paragraph follows; an empty item ends its list.
InsertBreak(n, c) ==
    LET block == Block(n, c.path)
        closing == {t \in Lists : In(n, c.path, {t}) /\ AtEmpty(n, c, ItemOf(t))}
    IN
    IF AtEmpty(n, c, "heading") THEN <<SetBlock(c.path, "paragraph")>>
    ELSE IF AtEndOf(n, c, "heading") THEN <<Insert(c, <<Paragraph0>>, block)>>
    ELSE IF closing # {}
    THEN Append(UnwrapList(n, c), SetBlock(AfterUnwrap(n, c), "paragraph"))
    ELSE <<SplitBlock(c, block)>>

\* The text before the caret in its block that is not empty, if any, loses a letter; else
\* the block is joined with the one before.
Erase(p, at) == <<Apply(<<RemoveText(p, at - 1, 1)>>)>>

DeleteBefore(n, c) ==
    LET block == Block(n, c.path)
        before == {p \in Leaves(n) : Precedes(p, c.path)}
        full == {p \in before : IsPrefix(block, p) /\ NodeAt(n, p).text # <<>>}
        Latest(set) == CHOOSE p \in set : \A q \in set : q = p \/ Precedes(q, p)
    IN
    IF c.at > 0 THEN Erase(c.path, c.at)
    ELSE IF full # {} THEN Erase(Latest(full), Len(NodeAt(n, Latest(full)).text))
    ELSE IF \E p \in before : ~IsPrefix(block, p)
    THEN <<Join(block, Block(n, Latest({p \in before : ~IsPrefix(block, p)})))>>
    ELSE <<>>

\* After an image only an empty block is removed; an empty item in the last place of
\* its list leaves it.
DeleteBackward(n, c) ==
    LET earlier == {p \in Leaves(n) : Precedes(p, c.path)}
        afterImage == /\ c.at = 0 /\ earlier # {}
                      /\ In(n, CHOOSE p \in earlier : \A q \in earlier : q = p \/ Precedes(q, p),
                            {"image"})
        leaving == {t \in Lists : AtEndOf(n, c, t) /\ AtEmpty(n, c, ItemOf(t))}
    IN
    IF afterImage
    THEN IF IsEmpty(NodeAt(n, Parent(c.path))) THEN <<Apply(<<RemoveNode(Block(n, c.path))>>)>>
         ELSE <<>>
    ELSE IF leaving # {} THEN ToggleList(n, c, CHOOSE t \in leaving : TRUE)
    ELSE DeleteBefore(n, c)

Type(c, s) == <<Apply(<<InsertText(c.path, c.at, s)>>)>>

\* toolbar.tsx: a link is made of new text, its text is replaced by other
\* text, or it becomes text.
CreateLink(c, s) == <<Insert(c, <<Elem("link", "none", <<TextOf(s)>>), TextOf(<<" ">>)>>, c.path)>>

UpdateLink(n, c, s) ==
    LET link == The(n, c.path, {"link"})
        text == Append(link, 1)
    IN <<Apply(<<SetNode(link, "link", "changed"), RemoveText(text, 0, Len(NodeAt(n, text).text)),
                 InsertText(text, 0, s)>>)>>

RemoveLink(n, c) == <<UnwrapNode(The(n, c.path, {"link"}))>>

UploadImage(n, c) == <<Insert(c, <<Elem("image", "uploading", <<Text0>>)>>, Block(n, c.path))>>

\* Enter while an image is selected, and the answer to its upload while it is: an image
\* that is not selected by then goes on uploading for ever.
BreakAfter(image) == <<Apply(<<InsertNode(NextTo(image), Paragraph0)>>)>>

Uploaded(image, status) == <<Apply(<<SetNode(image, "image", status)>>)>>

ToggleCheck(n, item) ==
    <<Apply(<<SetNode(item, "check-list-item",
                      IF NodeAt(n, item).prop = "none" THEN "checked" ELSE "none")>>)>>

-----------------------------------------------------------------------------
(* The view *)

\* The commands that may be given at a caret.
Commands(n, c) ==
    {Type(c, <<s>>) : s \in Letter}
    \cup {InsertBreak(n, c), DeleteBackward(n, c), ToggleHeading(n, c), ToggleCodeBlock(n, c),
          UploadImage(n, c)}
    \cup {ToggleList(n, c, t) : t \in Lists}
    \cup IF In(n, c.path, {"link"})
         THEN {RemoveLink(n, c)} \cup {UpdateLink(n, c, <<l>>) : l \in Letter}
         ELSE {CreateLink(c, <<l>>) : l \in Letter}

\* What may be done to a node: an image that is selected, or a checkbox.
ImageCommands(n, p) ==
    {BreakAfter(p)} \cup
    IF NodeAt(n, p).prop = "uploading" THEN {Uploaded(p, s) : s \in {"ready", "error"}} ELSE {}

Edited(calls) ==
    /\ window # "closed" /\ ops = <<>>
    /\ \E e \in {Run(children, calls)} :
       /\ e.ops # <<>>
       /\ children' = e.tree /\ ops' = e.ops
    /\ UNCHANGED <<local, acked, window, failed>>

Command == \E c \in Carets(children) : \E calls \in Commands(children, c) : Edited(calls)

OnImage ==
    \E p \in Paths(children) : /\ TypeAt(children, p) = "image"
                               /\ \E calls \in ImageCommands(children, p) : Edited(calls)

OnCheckbox ==
    \E p \in Paths(children) : /\ TypeAt(children, p) = "check-list-item"
                               /\ Edited(ToggleCheck(children, p))

\* Before anything else happens the operations are handed on.
OnChange ==
    /\ ops # <<>>
    /\ LET done == ApplySlateOps(local, ops) IN
       /\ local' = done.root /\ failed' = (failed \/ done.threw)
    /\ ops' = <<>>
    /\ UNCHANGED <<children, acked, window>>

\* The server has taken what there is.
Acknowledge ==
    /\ ops = <<>> /\ acked # local
    /\ acked' = local
    /\ UNCHANGED <<children, ops, local, window, failed>>

\* What others have made of the document, when nothing of ours is under way: how Loro
\* merges is not modelled, but it may leave two titles, or a list at the end.  It is
\* rendered at once, in a view of this document.
Others(root) ==
    {SetKids(root, <<>>, InsertAt(root.kids, i, Paragraph0)) : i \in 1 .. Len(root.kids)}
    \cup {SetKids(root, <<>>, RemoveAt(root.kids, i)) : i \in 2 .. Len(root.kids)}
    \cup {Replace(root, <<i>>, [root.kids[i] EXCEPT !.type = "title"]) :
             i \in {j \in DOMAIN root.kids : root.kids[j].type \in {"paragraph", "heading"}}}

OthersEdit ==
    /\ ops = <<>> /\ acked = local
    /\ \E root \in Others(local) :
          /\ local' = root /\ acked' = root
          /\ children' = IF window = "on" THEN root ELSE children
    /\ UNCHANGED <<ops, window, failed>>

\* A change is refused, and the collection starts anew from what the server has: the
\* view keeps the document it was opened with.
Refused ==
    /\ ops = <<>> /\ acked # local
    /\ local' = acked
    /\ window' = IF window = "on" THEN "stale" ELSE window
    /\ UNCHANGED <<children, ops, acked, failed>>

OpenView ==
    /\ ops = <<>> /\ window = "closed"
    /\ window' = "on" /\ children' = local /\ failed' = FALSE
    /\ UNCHANGED <<ops, local, acked>>

CloseView ==
    /\ ops = <<>> /\ window # "closed"
    /\ window' = "closed"
    /\ UNCHANGED <<children, ops, local, acked, failed>>
=============================================================================
