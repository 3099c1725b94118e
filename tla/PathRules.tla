------------------------------- MODULE PathRules -------------------------------
(***************************************************************************)
(* Which files a side sees, and where they go: the patterns of .mcgoignore *)
(* and the built-in rule for mods directories (ignore.py), the walk that   *)
(* leaves ignored directories out, the mapping of clientmods to mods and   *)
(* the diff (tree.py).                                                     *)
(*                                                                         *)
(* A path is a sequence of names.  A pattern is a sequence of parts, a part *)
(* the set of the names its glob accepts, or AnyDepth for "**".  A side is *)
(* a record of its rules, the base name of its directory, and the names    *)
(* its built-in rule ignores.  A file is its data and its kind: "plain",   *)
(* "locked" (it cannot be read), or "outside" (a link that leaves the      *)
(* directory).                                                             *)
(*                                                                         *)
(* Left out: "**" inside a name or next to another "**", and empty         *)
(* patterns.                                                               *)
(***************************************************************************)
EXTENDS Integers, Sequences, FiniteSets, FiniteSetsExt

AnyDepth == {"**"}

\* _pattern_to_regex: "(?:^|.*/)" before a pattern that is not anchored,
\* "(?:/.*)?" after one that ended in a slash.
PartsOf(rule) ==
    (IF rule.anchored THEN <<>> ELSE <<AnyDepth>>) \o rule.parts
        \o (IF rule.dirOnly THEN <<AnyDepth>> ELSE <<>>)

\* The names of the path are dealt to the parts in order: one to a glob that
\* accepts it, any number to AnyDepth.
Matches(rule, path) ==
    LET parts == PartsOf(rule)
    IN  \E part \in [DOMAIN path -> DOMAIN parts] :
          /\ \A i, j \in DOMAIN path : i < j => part[i] <= part[j]
          /\ \A i \in DOMAIN path :
               parts[part[i]] = AnyDepth \/ path[i] \in parts[part[i]]
          /\ \A k \in DOMAIN parts :
               parts[k] = AnyDepth \/ Cardinality({i \in DOMAIN path : part[i] = k}) = 1

\* _is_builtin_ignored: the base name counts only for a path of one name.
Builtin(side, path, isDir) ==
    /\ ~isDir
    /\ IF Len(path) >= 2 THEN \E i \in 1 .. Len(path) - 1 : path[i] = "mods"
                         ELSE side.base = "mods"
    /\ path[Len(path)] \in side.prefixed

\* is_ignored: the last rule that matches decides.
Ignored(side, path, isDir) ==
    LET hits == {r \in DOMAIN side.rules : Matches(side.rules[r], path)}
    IN  IF hits = {} THEN Builtin(side, path, isDir)
                     ELSE ~side.rules[Max(hits)].negation

\* Whether the walk of scan comes to a file and keeps it.
Listed(side, path) ==
    /\ ~Ignored(side, path, FALSE)
    /\ \A n \in 1 .. Len(path) - 1 : ~Ignored(side, SubSeq(path, 1, n), TRUE)

\* _hash_file, and the empty hash of a file that cannot be read.
Hash(file) == IF file.kind = "locked" THEN <<>> ELSE <<"sha256">> \o file.data

ScanOf(side, files) ==
    [path \in {p \in DOMAIN files : Listed(side, p)} |-> Hash(files[path])]

MapRemoteToLocal(path) ==
    IF path[1] = "clientmods" /\ Len(path) > 1 THEN <<"mods">> \o Tail(path) ELSE path

DiffMutant(client, local, remote) ==   \* mutant: hashes are not compared
    {path \in DOMAIN remote :
        LET dest == MapRemoteToLocal(path)
        IN  ~Ignored(client, dest, FALSE) /\ dest \notin DOMAIN local}
\* diff: the server's paths to ask for.
Diff(client, local, remote) ==
    {path \in DOMAIN remote :
        LET dest == MapRemoteToLocal(path)
        IN  /\ ~Ignored(client, dest, FALSE)
            /\ dest \in DOMAIN local => local[dest] # remote[path]}

=============================================================================
