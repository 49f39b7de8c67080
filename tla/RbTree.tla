------------------------------- MODULE RbTree -------------------------------
(***************************************************************************)
(* The red-black tree of module/stl/src/stl_rbtree.c.  Nodes belong to the *)
(* callers, who fill in a key and insert them; equal keys are allowed.     *)
(* What the code writes twice, once per side, is written once here with    *)
(* the side as a parameter.  A key is a void pointer that only the         *)
(* caller's cmp understands: an integer in the pointer, of which NULL is   *)
(* 0, or the address of one, of which NULL is none.                        *)
(***************************************************************************)
EXTENDS Integers, FiniteSets

CONSTANTS
    TreeNode,  \* the callers' nodes
    KeyOf      \* the key that a caller writes into each

ASSUME RbTreeAssumption ==
    TreeNode \subseteq Nat \ {0} /\ KeyOf \in [TreeNode -> Int]

VARIABLE tree  \* the fields of stl_rbtree and of its nodes, the sentinel included

treeVars == <<tree>>

Sentinel == 0
Nil == -1
Crash == -2
Side == {"left", "right"}
Other(side) == IF side = "left" THEN "right" ELSE "left"

\* The key NULL as an integer.
NullKey == 0

\* stl_rbtree_init: the sentinel is zeroed memory, so black, with no links and the key NULL,
\* and the root is NULL.
TreeInit ==
    tree = [root |-> Nil,
            child |-> [s \in Side |-> [n \in TreeNode \cup {Sentinel} |-> Nil]],
            parent |-> [n \in TreeNode \cup {Sentinel} |-> Nil],
            red |-> [n \in TreeNode \cup {Sentinel} |-> FALSE],
            key |-> [n \in TreeNode \cup {Sentinel} |-> NullKey]]

\* The side on which a node hangs from its parent.
SideOf(t, node) == IF node = t.child["left"][t.parent[node]] THEN "left" ELSE "right"

\* The link that leads to a node, from the root or from its parent, leads elsewhere.
Redirect(t, node, new) ==
    IF node = t.root THEN [t EXCEPT !.root = new]
    ELSE [t EXCEPT !.child[SideOf(t, node)][t.parent[node]] = new]

Adopt(t, child, node) == IF child = Sentinel THEN t ELSE [t EXCEPT !.parent[child] = node]

\* stl_rbtree_left_rotate and stl_rbtree_right_rotate: the node goes down on one side.
Rotate(t, node, side) ==
    LET temp == t.child[Other(side)][node]
        inner == t.child[side][temp]
        moved == Adopt([t EXCEPT !.child[Other(side)][node] = inner], inner, node)
        linked == Redirect([moved EXCEPT !.parent[temp] = t.parent[node]], node, temp)
    IN [linked EXCEPT !.child[side][temp] = node, !.parent[node] = temp]

\* stl_rbtree_insert_value: a red leaf; an equal key goes to the right.
RECURSIVE InsertValue(_, _, _)
InsertValue(t, temp, node) ==
    LET side == IF t.key[node] < t.key[temp] THEN "left" ELSE "right"
    IN IF t.child[side][temp] # Sentinel THEN InsertValue(t, t.child[side][temp], node)
       ELSE [t EXCEPT !.child[side][temp] = node, !.parent[node] = temp, !.red[node] = TRUE,
                      !.child["left"][node] = Sentinel, !.child["right"][node] = Sentinel]

RECURSIVE InsertFixup(_, _)

\* A red node under a red parent whose sibling is black: one or two rotations.
InsertRotate(t, node) ==
    LET p == t.parent[node]
        side == SideOf(t, p)
        inside == node = t.child[Other(side)][p]
        t1 == IF inside THEN Rotate(t, p, side) ELSE t
        n1 == IF inside THEN p ELSE node
        p1 == t1.parent[n1]
        g1 == t1.parent[p1]
    IN InsertFixup(Rotate([t1 EXCEPT !.red[p1] = FALSE, !.red[g1] = TRUE], g1, Other(side)), n1)

\* The loop of stl_rbtree_insert.
InsertFixup(t, node) ==
    IF node = t.root \/ ~t.red[t.parent[node]] THEN [t EXCEPT !.red[t.root] = FALSE]
    ELSE LET p == t.parent[node]
             g == t.parent[p]
             temp == t.child[Other(SideOf(t, p))][g]
         IN IF t.red[temp]
            THEN InsertFixup([t EXCEPT !.red[p] = FALSE, !.red[temp] = FALSE, !.red[g] = TRUE], g)
            ELSE InsertRotate(t, node)

RbInsert(t, node) ==
    IF t.root # Sentinel THEN InsertFixup(InsertValue(t, t.root, node), node)
    ELSE [t EXCEPT !.root = node, !.parent[node] = Nil, !.red[node] = FALSE,
                   !.child["left"][node] = Sentinel, !.child["right"][node] = Sentinel]

\* stl_rbtree_min is used and defined nowhere: the leftmost node of a subtree.
RECURSIVE Leftmost(_, _)
Leftmost(t, node) ==
    IF t.child["left"][node] = Sentinel THEN node ELSE Leftmost(t, t.child["left"][node])

\* Mutant: the loop is left out.
NoDeleteFixup(t, temp) == [t EXCEPT !.red[temp] = FALSE]

\* The loop of stl_rbtree_delete: temp is short of one black node.
RECURSIVE DeleteFixup(_, _)
DeleteFixup(t, temp) ==
    IF temp = t.root \/ t.red[temp] THEN [t EXCEPT !.red[temp] = FALSE]
    ELSE LET side == SideOf(t, temp)
             far == Other(side)
             p == t.parent[temp]
             w0 == t.child[far][p]
             t1 == IF t.red[w0]
                   THEN Rotate([t EXCEPT !.red[w0] = FALSE, !.red[p] = TRUE], p, side)
                   ELSE t
             w1 == t1.child[far][p]
             near == t1.child[side][w1]
             t2 == IF t1.red[t1.child[far][w1]] THEN t1
                   ELSE Rotate([t1 EXCEPT !.red[near] = FALSE, !.red[w1] = TRUE], w1, far)
             w2 == t2.child[far][p]
             t3 == [t2 EXCEPT !.red[w2] = t2.red[p], !.red[p] = FALSE,
                              !.red[t2.child[far][w2]] = FALSE]
             t4 == Rotate(t3, p, side)
         IN IF ~t1.red[near] /\ ~t1.red[t1.child[far][w1]]
            THEN DeleteFixup([t1 EXCEPT !.red[w1] = TRUE], p)
            ELSE DeleteFixup(t4, t4.root)

\* Mutant: the right subtree of the node is not handed over.
TakePlaceLeftOnly(t, node, subst) ==
    LET t1 == [t EXCEPT !.child["left"][subst] = t.child["left"][node],
                        !.parent[subst] = t.parent[node], !.red[subst] = t.red[node]]
    IN Adopt(Redirect(t1, node, subst), t1.child["left"][subst], subst)

\* The successor takes the links and the colour of the node.
TakePlace(t, node, subst) ==
    LET t1 == [t EXCEPT !.child["left"][subst] = t.child["left"][node],
                        !.child["right"][subst] = t.child["right"][node],
                        !.parent[subst] = t.parent[node], !.red[subst] = t.red[node]]
        t2 == Adopt(Redirect(t1, node, subst), t1.child["left"][subst], subst)
    IN Adopt(t2, t2.child["right"][subst], subst)

\* The removed node; of its colour nothing is kept, as nothing reads it.
Clear(t, node) ==
    [t EXCEPT !.child["left"][node] = Nil, !.child["right"][node] = Nil,
              !.parent[node] = Nil, !.key[node] = NullKey, !.red[node] = FALSE]

\* stl_rbtree_delete.  A root that goes leaves its only child with a parent that is gone.
RbDelete(t, node) ==
    LET whole == Sentinel \notin {t.child[s][node] : s \in Side}
        subst == IF whole THEN Leftmost(t, t.child["right"][node]) ELSE node
        temp == IF ~whole /\ t.child["left"][node] # Sentinel
                THEN t.child["left"][node] ELSE t.child["right"][subst]
        up == IF t.parent[subst] = node THEN subst ELSE t.parent[subst]
        cut == [Redirect(t, subst, temp) EXCEPT !.parent[temp] = up]
        gone == Clear(IF subst = node THEN cut ELSE TakePlace(cut, node, subst), node)
    IN IF subst = t.root THEN Clear([t EXCEPT !.root = temp, !.red[temp] = FALSE], node)
       ELSE IF t.red[subst] THEN gone ELSE DeleteFixup(gone, temp)

\* Mutant: the arguments of the second comparison are swapped.
RECURSIVE SearchSwapped(_, _, _, _)
SearchSwapped(t, tmp, key, reads) ==
    IF tmp = Nil THEN Nil
    ELSE IF reads /\ tmp = Sentinel THEN Crash
    ELSE IF t.key[tmp] = key THEN tmp
    ELSE SearchSwapped(t, t.child[IF t.key[tmp] > key THEN "right" ELSE "left"][tmp], key, reads)

\* stl_btree_search.  The walk takes the sentinel for a node and hands its key, NULL, to cmp,
\* which crashes if it reads what keys point to; NULL below the sentinel ends it.
RECURSIVE SearchFrom(_, _, _, _)
SearchFrom(t, tmp, key, reads) ==
    IF tmp = Nil THEN Nil
    ELSE IF reads /\ tmp = Sentinel THEN Crash
    ELSE IF t.key[tmp] = key THEN tmp
    ELSE SearchFrom(t, t.child[IF key > t.key[tmp] THEN "right" ELSE "left"][tmp], key, reads)

RECURSIVE Below(_, _)
Below(t, node) ==
    IF node \in {Nil, Sentinel} THEN {}
    ELSE {node} \cup Below(t, t.child["left"][node]) \cup Below(t, t.child["right"][node])

Nodes == Below(tree, tree.root)

\* The caller's assignment tree->root = tree->sentinel, without which stl_rbtree_insert
\* would follow the NULL root.
UseSentinel == tree.root = Nil /\ tree' = [tree EXCEPT !.root = Sentinel]

TreeInsert(node) ==
    /\ tree.root # Nil /\ node \notin Nodes
    /\ tree' = RbInsert([tree EXCEPT !.key[node] = KeyOf[node]], node)

TreeDelete(node) == node \in Nodes /\ tree' = RbDelete(tree, node)

TreeNext == UseSentinel \/ \E node \in TreeNode : TreeInsert(node) \/ TreeDelete(node)

(***************************************************************************)
(*                              Properties                                 *)
(***************************************************************************)
Set == INSTANCE NodeSet WITH set <- Nodes, Element <- TreeNode

\* Every call of stl_rbtree_insert or stl_rbtree_delete adds or takes away the node it was
\* given and no other, whatever it rotates (stl_rbtree.c:17 to 80 and 264 to 311).
TreeIsSet == Set!Spec

\* The keys of the nodes, and their neighbours.
Wanted == UNION {KeyOf[n] - 1 .. KeyOf[n] + 1 : n \in TreeNode}

\* stl_btree_search finds a node with the key if the tree holds one, also when rotations have
\* moved equal keys to the left, and has not compared the sentinel's key till then: so it is
\* safe with any cmp.  The search for a key that is not there always gets to the sentinel
\* (stl_rbtree.c:411): a cmp that reads what keys point to crashes, the integer 0 "finds" the
\* sentinel, and only other integers get the NULL that stands for nothing.
SearchFinds ==
    \A key \in Wanted, reads \in BOOLEAN :
        LET found == SearchFrom(tree, tree.root, key, reads)
        IN IF \E n \in Nodes : KeyOf[n] = key THEN found \in Nodes /\ KeyOf[found] = key
           ELSE found = IF tree.root = Nil THEN Nil ELSE IF reads THEN Crash
                        ELSE IF key = NullKey THEN Sentinel ELSE Nil

\* The black nodes on the ways down from a node; a singleton if the ways are balanced.
RECURSIVE BlackHeights(_, _)
BlackHeights(t, node) ==
    IF node = Sentinel THEN {0}
    ELSE {h + (IF t.red[node] THEN 0 ELSE 1) :
            h \in BlackHeights(t, t.child["left"][node]) \cup BlackHeights(t, t.child["right"][node])}

\* No red node has a red child and all ways down pass as many black nodes, so that a walk
\* is never long; and the links up agree with the links down, which the loops of insert and
\* delete climb (stl_rbtree.c:156 and 326).
RedBlack ==
    tree.root # Nil =>
        /\ ~tree.red[Sentinel] /\ ~tree.red[tree.root]
        /\ Cardinality(BlackHeights(tree, tree.root)) = 1
        /\ \A n \in Nodes, s \in Side :
             LET c == tree.child[s][n]
             IN c # Sentinel => tree.parent[c] = n /\ ~(tree.red[n] /\ tree.red[c])
=============================================================================
