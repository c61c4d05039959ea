------------------------------ MODULE Binding ------------------------------
(***************************************************************************)
(* Documents as trees, and the operations on them: as the Slate editor     *)
(* performs them on its own copy (external), and as packages/loro-slate/   *)
(* src/index.ts repeats them on the Loro document.  Paths count from 1.    *)
(***************************************************************************)
EXTENDS Naturals, Sequences, SequencesExt

\* A text, or an element; `prop` stands for the properties an element has beside its type.
TextOf(s)          == [type |-> "text", prop |-> "none", text |-> s, kids |-> <<>>]
Elem(t, p, kids)   == [type |-> t, prop |-> p, text |-> <<>>, kids |-> kids]
IsText(n)          == n.type = "text"

-----------------------------------------------------------------------------
(* Paths *)

Parent(p) == Front(p)
Index(p)  == Last(p)
NextTo(p)   == Append(Parent(p), Index(p) + 1)
Previous(p) == Append(Parent(p), Index(p) - 1)

RECURSIVE Has(_, _), NodeAt(_, _), Replace(_, _, _)
Has(n, p) == p = <<>> \/ (Head(p) \in DOMAIN n.kids /\ Has(n.kids[Head(p)], Tail(p)))

NodeAt(n, p) == IF p = <<>> THEN n ELSE NodeAt(n.kids[Head(p)], Tail(p))

Replace(n, p, m) ==
    IF p = <<>> THEN m
    ELSE [n EXCEPT !.kids[Head(p)] = Replace(@, Tail(p), m)]

SetKids(n, p, kids) == Replace(n, p, [NodeAt(n, p) EXCEPT !.kids = kids])

Kids(n, p) == NodeAt(n, p).kids

\* Where a path leads once the node at `gone` is taken away from before it.
Without(p, gone) ==
    LET k == Len(gone) IN
    IF Len(p) >= k /\ SubSeq(p, 1, k - 1) = Parent(gone) /\ p[k] > Index(gone)
    THEN [p EXCEPT ![k] = @ - 1] ELSE p

-----------------------------------------------------------------------------
(* Slate's operations *)

InsertNode(p, node)  == [op |-> "insert_node", path |-> p, node |-> node]
RemoveNode(p)        == [op |-> "remove_node", path |-> p]
MoveNode(p, to)      == [op |-> "move_node", path |-> p, to |-> to]
SetNode(p, t, prop)  == [op |-> "set_node", path |-> p, type |-> t, prop |-> prop]
MergeNode(p)         == [op |-> "merge_node", path |-> p]
SplitNode(p, at)     == [op |-> "split_node", path |-> p, at |-> at]
InsertText(p, at, s) == [op |-> "insert_text", path |-> p, at |-> at, text |-> s]
RemoveText(p, at, k) == [op |-> "remove_text", path |-> p, at |-> at, len |-> k]

\* How the editor performs them (transforms/general.ts of slate): the siblings of
\* the node are spliced.  `newPath` of a move is meant before the node is taken away,
\* unless it only goes to another place among its siblings.
Splice(kids, i, gone, new) ==
    SubSeq(kids, 1, i - 1) \o new \o SubSeq(kids, i + gone, Len(kids))

Cut(s, i) == <<SubSeq(s, 1, i), SubSeq(s, i + 1, Len(s))>>

Halves(n, at) ==
    IF IsText(n) THEN <<[n EXCEPT !.text = Cut(@, at)[1]], [n EXCEPT !.text = Cut(@, at)[2]]>>
    ELSE <<[n EXCEPT !.kids = Cut(@, at)[1]], [n EXCEPT !.kids = Cut(@, at)[2]]>>

Perform(root, o) ==
    LET p == o.path  n == NodeAt(root, p)
        Siblings(gone, new) ==
            SetKids(root, Parent(p), Splice(Kids(root, Parent(p)), Index(p), gone, new))
    IN CASE o.op = "insert_node" -> Siblings(0, <<o.node>>)
         [] o.op = "remove_node" -> Siblings(1, <<>>)
         [] o.op = "split_node"  -> Siblings(1, Halves(n, o.at))
         [] o.op = "set_node"    -> Replace(root, p, [n EXCEPT !.type = o.type, !.prop = o.prop])
         [] o.op = "insert_text" ->
                Replace(root, p, [n EXCEPT !.text = Splice(@, o.at + 1, 0, o.text)])
         [] o.op = "remove_text" ->
                Replace(root, p, [n EXCEPT !.text = Splice(@, o.at + 1, o.len, <<>>)])
         [] o.op = "merge_node"  ->
                LET prev == NodeAt(root, Previous(p)) IN
                SetKids(root, Parent(p), Splice(Kids(root, Parent(p)), Index(p) - 1, 2,
                    <<[prev EXCEPT !.text = @ \o n.text, !.kids = @ \o n.kids]>>))
         [] o.op = "move_node"   ->
                LET to == IF Len(o.to) = Len(p) THEN o.to ELSE Without(o.to, p)
                    rest == Siblings(1, <<>>)
                IN SetKids(rest, Parent(to), Splice(Kids(rest, Parent(to)), Index(to), 0, <<n>>))

-----------------------------------------------------------------------------
(* The same on the Loro document: each gives the new tree, or none if it throws *)

Throws      == <<>>
Gives(root) == <<root>>

\* findNode, and its children: they must be there.
HasChildren(root, p) == Has(root, p) /\ ~IsText(NodeAt(root, p))
Child(root, p)       == p # <<>> /\ HasChildren(root, Parent(p)) /\ Has(root, p)

\* LoroList.insertContainer and delete.
ListInsert(root, p, new) ==
    SetKids(root, Parent(p), InsertAt(Kids(root, Parent(p)), Index(p), new))
ListDelete(root, p) ==
    SetKids(root, Parent(p), RemoveAt(Kids(root, Parent(p)), Index(p)))
MayInsert(root, p) ==
    HasChildren(root, Parent(p)) /\ Index(p) \in 1 .. Len(Kids(root, Parent(p))) + 1

\* The node is made anew, with all it contains (toLoro).
LoroInsertNode(root, o) ==
    IF MayInsert(root, o.path) THEN Gives(ListInsert(root, o.path, o.node)) ELSE Throws

LoroRemoveNode(root, o) ==
    IF Child(root, o.path) THEN Gives(ListDelete(root, o.path)) ELSE Throws

\* Mutant of LoroMoveNode: where the node goes is looked up after it has been taken away.
LoroMoveLate(root, o) ==
    IF ~Child(root, o.path) THEN Throws
    ELSE LET rest == ListDelete(root, o.path) IN
         IF MayInsert(rest, o.to) THEN Gives(ListInsert(rest, o.to, NodeAt(root, o.path)))
         ELSE Throws

\* Both lists are found first; then the node goes from one to the other.
LoroMoveNode(root, o) ==
    LET rest == ListDelete(root, o.path)
        parent == Without(Parent(o.to), o.path)
        to == Append(parent, Index(o.to))
    IN
    IF ~Child(root, o.path) \/ ~HasChildren(root, Parent(o.to)) THEN Throws
    ELSE IF HasChildren(rest, parent) /\ MayInsert(rest, to)
    THEN Gives(ListInsert(rest, to, NodeAt(root, o.path)))
    ELSE Throws

LoroSetNode(root, o) ==
    IF Has(root, o.path)
    THEN Gives(Replace(root, o.path,
                       [NodeAt(root, o.path) EXCEPT !.type = o.type, !.prop = o.prop]))
    ELSE Throws

\* Texts are joined; children are copied to the end of the other's, one by one.
LoroMergeNode(root, o) ==
    LET p == o.path  to == NodeAt(root, Previous(p))  from == NodeAt(root, p) IN
    IF ~Child(root, p) \/ Index(p) = 1 \/ IsText(to) # IsText(from) THEN Throws
    ELSE Gives(ListDelete(Replace(root, Previous(p),
                                  IF IsText(to) THEN [to EXCEPT !.text = @ \o from.text]
                                  ELSE [to EXCEPT !.kids = @ \o from.kids]), p))

\* What follows the position is cut off and put into a new node beside it.
LoroSplitNode(root, o) ==
    LET p == o.path  n == NodeAt(root, p) IN
    IF ~Child(root, p) \/ o.at > Len(n.text) + Len(n.kids) THEN Throws
    ELSE Gives(ListInsert(Replace(root, p, Halves(n, o.at)[1]), NextTo(p), Halves(n, o.at)[2]))

Clamp(i, s) == IF i <= Len(s) THEN i ELSE Len(s)

LoroInsertText(root, o) ==
    IF ~Has(root, o.path) \/ ~IsText(NodeAt(root, o.path)) THEN Throws
    ELSE LET n == NodeAt(root, o.path)  at == Clamp(o.at, n.text) IN
         Gives(Replace(root, o.path, [n EXCEPT !.text = Cut(@, at)[1] \o o.text \o Cut(@, at)[2]]))

LoroRemoveText(root, o) ==
    IF ~Has(root, o.path) \/ ~IsText(NodeAt(root, o.path)) THEN Throws
    ELSE LET n == NodeAt(root, o.path)  at == Clamp(o.at, n.text) IN
         IF at + o.len > Len(n.text) THEN Throws
         ELSE Gives(Replace(root, o.path,
                            [n EXCEPT !.text = Cut(@, at)[1] \o Cut(@, at + o.len)[2]]))

ApplyOperation(root, o) ==
    CASE o.op = "insert_node" -> LoroInsertNode(root, o)
      [] o.op = "remove_node" -> LoroRemoveNode(root, o)
      [] o.op = "move_node"   -> LoroMoveNode(root, o)
      [] o.op = "set_node"    -> LoroSetNode(root, o)
      [] o.op = "merge_node"  -> LoroMergeNode(root, o)
      [] o.op = "split_node"  -> LoroSplitNode(root, o)
      [] o.op = "insert_text" -> LoroInsertText(root, o)
      [] o.op = "remove_text" -> LoroRemoveText(root, o)

\* One after the other; what was done before one throws stays.
ApplySlateOps(root, ops) ==
    FoldLeft(LAMBDA acc, o :
                IF acc.threw THEN acc
                ELSE LET res == ApplyOperation(acc.root, o) IN
                     IF res = Throws THEN [acc EXCEPT !.threw = TRUE]
                     ELSE [acc EXCEPT !.root = res[1]],
             [root |-> root, threw |-> FALSE], ops)
=============================================================================
