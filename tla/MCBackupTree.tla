---------------------------- MODULE MCBackupTree ----------------------------
(* Small trees for BackupTree: the root with one file f and one folder d,  *)
(* which holds one item g; beside the root, in the folder above it, x.     *)
EXTENDS BackupTree

MCNode == {"above", "x", "root", "f", "d", "g"}
MCParent == [n \in MCNode |-> CASE n = "f" -> "root"
                                [] n = "d" -> "root"
                                [] n = "g" -> "d"
                                [] OTHER   -> "above"]
MCVersion == {1, 2}
MCMode == {6}
NoFaults == {}
NoKeys == {}
AllKeys == {"l", "b", "r", "d"}
AllFaults == {"list", "unlink", "open", "create", "write", "full", "utime"}

Folder == [kind |-> "dir", data |-> <<>>, mtime |-> 2]
Link   == [kind |-> "link", data |-> <<1>>, mtime |-> 1]
F(d, t) == [kind |-> "file", data |-> d, mtime |-> t]

Tree(f, d, g) ==
    [n \in MCNode |-> CASE n = "f" -> f
                        [] n = "d" -> d
                        [] n = "g" -> g
                        [] n = "x" -> Absent
                        [] OTHER   -> Folder]

\* A folder d with one of the items G in it, or something else in its place.
Subtrees(G, other) == {<<Folder, g>> : g \in G} \cup {<<o, Absent>> : o \in other}

TreesOf(F1, F2, D1, D2) ==
    {[src |-> Tree(f1, d1[1], d1[2]), dst |-> Tree(f2, d2[1], d2[2])] :
        f1 \in F1, f2 \in F2, d1 \in D1, d2 \in D2}

\* Files of both sizes and of dates on both sides of the tolerance, and a link
\* where the backup of a newer file would be.
AutoTrees ==
    TreesOf({Absent, F(<<1>>, 1), F(<<2, 2>>, 3)},
            {Absent, F(<<1>>, 1), F(<<1>>, 3), F(<<1, 1>>, 2), Folder, Link},
            Subtrees({Absent, F(<<1>>, 2)}, {Absent, F(<<1>>, 1)}),
            Subtrees({Absent, F(<<2>>, 1), Folder, Link}, {Absent, F(<<1>>, 1)}))

\* f and d may be without a source, and so may a folder g in d.
AskTrees ==
    TreesOf({Absent, F(<<1>>, 1)},
            {F(<<1, 1>>, 2), F(<<2, 2>>, 1)},
            Subtrees({Absent, F(<<1>>, 1)}, {Absent}),
            Subtrees({F(<<2>>, 3)}, {Absent}))
    \cup TreesOf({Absent}, {F(<<2, 2>>, 1)}, {<<Absent, Absent>>}, {<<Folder, Folder>>})

\* The source of f was edited within two hours of its last backup, and d is
\* gone from the source.
DotTrees ==
    TreesOf({F(<<2>>, 2)}, {F(<<1>>, 1)}, {<<Absent, Absent>>},
            Subtrees({F(<<2>>, 3)}, {}))

Files3 == {"ask", "leave", "delete"}
AutoOptions == [file: Files3, folder: Files3, recursive: BOOLEAN,
                excluded: {{}, {"f"}, {"d"}}]
AskOptions == [file: {"ask", "delete"}, folder: {"ask", "delete"},
               recursive: {TRUE}, excluded: {{}}]
=============================================================================
