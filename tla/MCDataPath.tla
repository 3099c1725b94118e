------------------------------ MODULE MCDataPath ------------------------------
EXTENDS DataPath

SmallNumbers == 0 .. 9
DecimalText == [n \in SmallNumbers |-> ToString(n)]

\* Names, and the globs over them.
Plain(data) == [data |-> data, kind |-> "plain"]
One == Plain(<<"1">>)
Two == Plain(<<"2", "2">>)
Glob(names) == [parts |-> <<names>>, anchored |-> FALSE, dirOnly |-> FALSE, negation |-> FALSE]
Not(rule) == [rule EXCEPT !.negation = TRUE]
Everything == Glob(AnyDepth)
AnyName == Glob({".", "x", "y", "tmp", "keep", "dir"})

Write(path, data) == [kind |-> "write", entry |-> 1, path |-> path, to |-> path, file |-> Plain(data)]
Unlink(path) == [kind |-> "remove", entry |-> 1, path |-> path, to |-> path, file |-> One]
Move(from, to) == [kind |-> "move", entry |-> 1, path |-> from, to |-> to, file |-> One]

Scene == [ready |-> TRUE, clientId |-> <<"c">>, entries |-> <<"files">>,
          disk |-> <<(<<"x">> :> One)>>, local |-> [p \in {} |-> <<>>],
          serverRules |-> <<>>, clientRules |-> <<>>, clientBase |-> "sync",
          serverPrefixed |-> {"server-x"}, clientPrefixed |-> {"client-x"},
          stuck |-> {}, parentEvents |-> TRUE, changes |-> {}]

\* From nothing; and with two directories of one name, which is refused.
FirstStart == [Scene EXCEPT !.ready = FALSE]
Twins == [FirstStart EXCEPT !.entries = <<"mods", "mods">>,
                            !.disk = <<(<<"x">> :> One), (<<"x">> :> Two)>>]

\* Contents of every length around the chunk size, an outdated local file.
Lengths == [Scene EXCEPT !.disk = <<(<<"x">> :> Plain(<<>>)) @@ (<<"y">> :> One)
                                    @@ (<<"dir", "x">> :> Plain(<<"1", "2", "3">>))>>,
                         !.local = (<<"y">> :> <<"old">>),
                         !.changes = {Write(<<"y">>, <<"new", "new">>), Unlink(<<"x">>)}]

\* clientmods and mods, with a shared place and both built-in rules.
Mapping == [Scene EXCEPT !.disk = <<(<<"clientmods", "x">> :> One) @@ (<<"mods", "x">> :> Two)
                                    @@ (<<"clientmods", "client-x">> :> One)
                                    @@ (<<"clientmods", "server-x">> :> Two)
                                    @@ (<<"mods", "server-x">> :> One)>>]
MappedEdit == [Scene EXCEPT !.disk = <<(<<"clientmods", "x">> :> One)>>,
                            !.changes = {Write(<<"clientmods", "x">>, <<"2">>),
                                         Write(<<"mods", "server-x">>, <<"3">>)}]

\* Two directories, one of them called mods.
Multi == [Scene EXCEPT !.entries = <<"files", "mods">>,
                       !.disk = <<(<<"x">> :> One),
                                  (<<"x">> :> Two) @@ (<<"server-x">> :> One)
                                  @@ (<<"dir", "server-x">> :> Two)>>,
                       !.changes = {Write(<<"y">>, <<"3">>)}]

\* A file that is written under a name that is ignored, and then renamed.
Renamed == [Scene EXCEPT !.serverRules = <<Glob({"tmp"})>>,
                         !.changes = {Write(<<"tmp">>, <<"2">>), Move(<<"tmp">>, <<"x">>)}]
RenamedUnseen == [Renamed EXCEPT !.parentEvents = FALSE]
\* "*" and "!keep": the watched directory is ignored, too.
OnlyKeep == [Renamed EXCEPT !.serverRules = <<AnyName, Not(Glob({"keep"}))>>,
                            !.disk = <<(<<"keep">> :> One) @@ (<<"dir", "keep">> :> Two)>>,
                            !.changes = {Write(<<"tmp">>, <<"2">>), Move(<<"tmp">>, <<"keep">>),
                                         Write(<<"dir", "keep">>, <<"3">>)}]
\* "**" and "!keep".
AllButKeep == [OnlyKeep EXCEPT !.serverRules = <<Everything, Not(Glob({"keep"}))>>,
                               !.changes = {Write(<<"keep">>, <<"3">>), Unlink(<<"keep">>)}]

\* The client leaves directories out: "dir"; "/dir/" and "!dir/keep".
Pruned == [Scene EXCEPT !.clientRules = <<Glob({"dir"})>>,
                        !.disk = <<(<<"dir", "x">> :> One) @@ (<<"y">> :> Two)>>]
PrunedKeep == [Pruned EXCEPT !.clientRules =
                   <<[Glob({"dir"}) EXCEPT !.anchored = TRUE, !.dirOnly = TRUE],
                     [Not(Glob({"dir"})) EXCEPT !.parts = <<{"dir"}, {"keep"}>>]>>,
                 !.disk = <<(<<"dir", "x">> :> One) @@ (<<"dir", "keep">> :> Two)
                            @@ (<<"y", "dir", "x">> :> Two)>>]

\* Files that are listed and cannot be sent.
Unsendable == [Scene EXCEPT !.disk = <<(<<"x">> :> [One EXCEPT !.kind = "locked"])
                                       @@ (<<"y">> :> [Two EXCEPT !.kind = "outside"])>>,
                            !.changes = {Write(<<"x">>, <<"1">>)}]

\* "/dir/**/x" on the server, "/y" on the client.
Deep == [Scene EXCEPT !.serverRules = <<[parts |-> <<{"dir"}, AnyDepth, {"x"}>>, anchored |-> TRUE,
                                         dirOnly |-> FALSE, negation |-> FALSE]>>,
                      !.clientRules = <<[Glob({"y"}) EXCEPT !.anchored = TRUE]>>,
                      !.disk = <<(<<"dir", "x">> :> One) @@ (<<"keep">> :> One) @@ (<<"y", "dir", "x">> :> Two)>>,
                      !.changes = {Move(<<"dir", "x">>, <<"x">>), Write(<<"dir", "dir", "x">>, <<"4">>)}]

\* A place of the client's that cannot always be written.
Stuck == [Lengths EXCEPT !.stuck = {<<"y">>, <<"dir", "x">>}, !.changes = {Write(<<"y">>, <<"new">>)}]

\* A file that becomes a directory; directories and files in each other's way.
Replaced == [Scene EXCEPT !.disk = <<(<<"dir">> :> One)>>,
                          !.changes = {Unlink(<<"dir">>), Write(<<"dir", "x">>, <<"2">>)}]
Taken == [Scene EXCEPT !.disk = <<(<<"dir", "x">> :> One) @@ (<<"y">> :> Two)>>,
                       !.local = (<<"dir">> :> <<"old">>) @@ (<<"y", "x">> :> <<"old">>)]

\* chunking.py around every multiple of the chunk size.
ASSUME ChunkArithmetic ==
    \A length \in 0 .. 7, size \in 1 .. 4 :
        LET data == [i \in 1 .. length |-> i]
        IN  /\ Cardinality(DOMAIN ChunkData(data, size)) = ChunkCount(length, size)
            /\ Reassemble(ChunkData(data, size)) = data

Ids == {[Scene EXCEPT !.clientId = id] :
          id \in {<<"done">>, <<"abort">>, <<"meta">>, <<"chunk">>, <<"tree">>, <<"a", "b">>}}

AllScenes == {FirstStart, Twins, Lengths, Mapping, MappedEdit, Multi, Renamed, RenamedUnseen,
              OnlyKeep, AllButKeep, Pruned, PrunedKeep, Deep, Unsendable,
              Stuck, Replaced, Taken} \union Ids

=============================================================================
