--------------------------- MODULE MCFileTransfer ---------------------------
(* Small instances of FileTransfer for TLC.                                *)
EXTENDS FileTransfer, TLC

CONSTANTS f1, f2, f3, w1, w2

\* clientmods/a is stored as mods/a: two paths, two destinations.
TwoPaths == {"clientmods/a", "b"}
TwoLocals == {"mods/a", "b"}
MapTwo == [p \in TwoPaths |-> IF p = "b" THEN "b" ELSE "mods/a"]

OnePath == {"b"}
MapOne == [p \in OnePath |-> p]

\* zlib shrinks the first version of every file and no later one.
FirstPacked == {<<p, 1>> : p \in {"clientmods/a", "b"}}
FirstPackedOne == {<<"b", 1>>}

Symmetry == Permutations(Fids) \union Permutations(Workers)

=============================================================================
