----------------------------- MODULE MCLibrary ------------------------------
(* Instances for TLC of the smaller parts of the libraries, each on its own. *)
EXTENDS RingBuffer, Cond, RaftLog, RbTree, Dict, Digest, Base64, Ini, RaftMembership

VARIABLE subject  \* the part that runs

\* Tree nodes 2 and 3 have the same key, and one key is 0.
TwoAlike == [n \in TreeNode |-> IF n < 3 THEN n - 3 ELSE n - 4]

\* Items of the dictionary: integers of two 4-byte halves, and texts.
IntItem(low, high, len) ==
    [data |-> <<low, 0, 0, 0, high, 0, 0, 0>>, text |-> FALSE, len |-> len]
TextItem(char, len) == [data |-> <<char>>, text |-> TRUE, len |-> len]

\* Keys with the len of an int, one of them truncated to another by it, and with that of the
\* struct.
SomeKeys == {IntItem(1, 0, 4), IntItem(1, 1, 4), IntItem(1, 1, 16), TextItem(2, 1)}
SomeValues == {IntItem(5, 6, 4), IntItem(5, 7, 16), TextItem(8, 1)}
FirstByteModulo2 == [k \in DictKey |-> k.data[1] % 2]

\* Section and key names: one is the beginning of another.
Names == {<<1>>, <<1, 2>>}

\* Requests to change the membership of a cluster of 1 and 2.
Requests == [type : {"add_nonvoting", "add"}, node : {3}] \cup [type : {"remove"}, node : {2}]

Init ==
    /\ RingInit /\ CondInit /\ LogInit /\ TreeInit
    /\ DictInit /\ DigestInit /\ B64Init /\ IniInit /\ MemberInit
    /\ subject \in {"ring", "cond", "log", "rbtree", "dict", "digest", "base64", "ini",
                    "membership"}
    /\ subject # "digest" => algorithm = "sha1"

Next ==
    /\ UNCHANGED subject
    /\ IF subject = "ring" THEN RingNext ELSE UNCHANGED ringVars
    /\ IF subject = "cond" THEN CondNext ELSE UNCHANGED condVars
    /\ IF subject = "log" THEN LogNext ELSE UNCHANGED logVars
    /\ IF subject = "rbtree" THEN TreeNext ELSE UNCHANGED treeVars
    /\ IF subject = "dict" THEN DictNext ELSE UNCHANGED dictVars
    /\ IF subject = "digest" THEN DigestNext ELSE UNCHANGED digestVars
    /\ IF subject = "base64" THEN B64Next ELSE UNCHANGED b64Vars
    /\ IF subject = "ini" THEN IniNext ELSE UNCHANGED iniVars
    /\ IF subject = "membership" THEN MemberNext ELSE UNCHANGED memberVars

Spec ==
    Init /\ [][Next]_<<subject, ringVars, condVars, logVars, treeVars,
                       dictVars, digestVars, b64Vars, iniVars, memberVars>>
=============================================================================
