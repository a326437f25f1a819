---------------------------- MODULE MC_FileBrowser ----------------------------
EXTENDS FileBrowser

CONSTANTS d1, d2, x1, n1, n2

(* root / n1 (folder d1) / n2 (folder d2), and a file n2 in the root; the  *)
(* page last showed d1.                                                    *)
MCItems == {d1, d2, x1}

MCDirs == {d1, d2}

MCNames == {n1, n2}

MCParent == [i \in Items |-> IF i = d2 THEN d1 ELSE Root]

MCName == [i \in Items |-> IF i = d1 THEN n1 ELSE n2]

MCSaved == [id |-> d1, path |-> <<n1>>]

====
