-------------------------------- MODULE DataPath --------------------------------
(***************************************************************************)
(* The way of a file from the server's disk to the client's, through every *)
(* part that decides where it goes: the programs' start (Deployment), the  *)
(* watchers' filter, the walk, the merged tree, the diff and the mapping   *)
(* (PathRules), topics, dispatchers, sealing and chunks (Wire).            *)
(*                                                                         *)
(* A scene is what the operator has set up: directories and files, ignore  *)
(* files, client id, platform, the changes the server's disk will see and  *)
(* the places of the client's where a write may fail.  Timers, threads,    *)
(* losses, overtaking transfers and repeated calls have modules of their   *)
(* own; here a tree waits until the transfers of the one before are over,  *)
(* and the broker loses nothing.                                           *)
(***************************************************************************)
EXTENDS Deployment, PathRules, Wire

CONSTANTS
    Scenes,         \* what the operator may have set up
    FileIds,        \* new_file_id
    ChunkSize,      \* in units of content
    NoTree          \* no tree yet

Path == Seq(STRING) \ {<<>>}

\* A file, small enough for the numbers that there are (bound).
IsFile(file) ==
    /\ file.kind \in {"plain", "locked", "outside"} /\ file.data \in Seq(STRING)
    /\ 0 .. Len(file.data) + 1 \subseteq Numbers

ASSUME ScenesAssumption ==
    \A s \in Scenes :
        /\ s.clientId \in Path /\ s.entries \in Path
        /\ DOMAIN s.disk = DOMAIN s.entries
        /\ \A e \in DOMAIN s.disk :
             /\ DOMAIN s.disk[e] \subseteq Path /\ IsFiniteSet(DOMAIN s.disk[e])
             /\ \A path \in DOMAIN s.disk[e] : IsFile(s.disk[e][path])
        /\ \A path \in DOMAIN s.local : s.local[path] \in Seq(STRING)
        /\ s.stuck \subseteq Path
        /\ s.ready => \A d, e \in DOMAIN s.entries : s.entries[d] = s.entries[e] => d = e
        /\ \A c \in s.changes :
             /\ c.entry \in DOMAIN s.entries /\ c.kind \in {"write", "remove", "move"}
             /\ c.path \in Path /\ c.to \in Path /\ IsFile(c.file)
ASSUME ChunkAssumption == ChunkSize \in Nat \ {0}
ASSUME FileIdsAssumption == FileIds \subseteq STRING /\ IsFiniteSet(FileIds)
ASSUME NumbersAssumption == 0 .. MaxPairs \subseteq Numbers

VARIABLES
    scene,          \* the scene of this behaviour
    disk,           \* the files of each scanned directory
    noticed,        \* an event has passed a watcher's filter since the last scan
    tree,           \* the server's tree, published and retained
    challenged,     \* ServerAuth._challenges holds one for the client
    accepted,       \* "no", "yes" or "refused"
    offered,        \* the tree on its way to the client
    handled,        \* the tree the client handled last
    wire,           \* messages on their way
    buffers,        \* McGoClient._chunk_buffers
    failed,         \* SyncResult.files_failed
    local,          \* the files of the client's sync_directory
    changes,        \* bound: the changes of the scene made so far
    versions,       \* history: every content a published path has had
    missed          \* history: a change of listed files that no watcher noticed

serverVars == <<disk, noticed, tree, challenged, changes, versions, missed>>
clientVars == <<accepted, offered, handled, buffers, failed, local>>
vars == <<setupVars, scene, serverVars, clientVars, wire>>

Entries == DOMAIN scene.entries
Key(p) == running[p].key

-----------------------------------------------------------------------------
(* The server's directories.                                               *)

ServerSide(e) == [rules |-> scene.serverRules, base |-> scene.entries[e],
                  prefixed |-> scene.serverPrefixed]
ClientSide == [rules |-> scene.clientRules, base |-> scene.clientBase,
               prefixed |-> scene.clientPrefixed]

\* load_server_config: the base names differ.
Unique == \A d, e \in Entries : scene.entries[d] = scene.entries[e] => d = e

\* _ScanEntry.prefix
Prefix(e) == IF Len(scene.entries) = 1 THEN <<>> ELSE <<scene.entries[e]>>

\* _build_tree: of two directories with one prefix the later wins.
Combined(scan) ==
    LET all == UNION {{<<Prefix(e) \o path, e, path>> : path \in DOMAIN scan[e]} : e \in Entries}
    IN  [path \in {x[1] : x \in all} |->
            LET e == Max({x[2] : x \in {y \in all : y[1] = path}})
            IN  scan[e][SubSeq(path, Len(Prefix(e)) + 1, Len(path))]]
Merged(dirs) == Combined([e \in Entries |-> ScanOf(ServerSide(e), dirs[e])])

\* _resolve_scan_entry: the first directory whose prefix the path has, or 0.
Resolve(path) ==
    LET owners == {e \in Entries : Prefix(e) = <<>> \/ Prefix(e) = <<path[1]>>}
    IN  IF owners = {} THEN 0 ELSE Min(owners)

Readable(path) ==
    LET e == Resolve(path)
        rel == SubSeq(path, Len(Prefix(e)) + 1, Len(path))
    IN  e # 0 /\ rel \in DOMAIN disk[e] /\ disk[e][rel].kind = "plain"
DataAt(path) ==
    LET e == Resolve(path) IN disk[e][SubSeq(path, Len(Prefix(e)) + 1, Len(path))].data

\* The files that are published, with what a request for them gets.
ListedFiles(dirs) ==
    [e \in Entries |-> [path \in {p \in DOMAIN dirs[e] : Listed(ServerSide(e), p)} |-> dirs[e][path]]]

ContentOf(dirs) ==
    UNION {{<<Prefix(e) \o path, dirs[e][path].data>> : path \in DOMAIN dirs[e]} : e \in Entries}

-----------------------------------------------------------------------------
\* What the broker passes on to those who have subscribed.
Heard(messages) ==
    LET filters == ServerFilters \union ClientFilters(scene.clientId, accepted = "yes")
    IN  {m \in messages : \E f \in filters : MatchesFilter(f, m.topic)}

\* A message with the kind its sender means it to be.
Message(topic, kind, body) == [topic |-> topic, kind |-> kind, body |-> body]
Hello == Message(ClientTopic(scene.clientId, "hello"), "hello", <<>>)

Init ==
    /\ scene \in Scenes
    /\ IF scene.ready THEN Ready(CHOOSE key \in Keys : TRUE) ELSE Bare
    /\ disk = scene.disk
    /\ noticed = FALSE /\ missed = FALSE /\ changes = {}
    /\ tree = IF scene.ready THEN Merged(disk) ELSE NoTree
    /\ challenged = FALSE /\ accepted = "no"
    /\ offered = NoTree /\ handled = NoTree
    /\ wire = IF scene.ready THEN Heard({Hello}) ELSE {}
    /\ buffers = <<>> /\ failed = {} /\ local = scene.local
    /\ versions = ContentOf(disk)

-----------------------------------------------------------------------------
(* Before the client starts.                                               *)

Prepare ==
    /\ ~running["client"].up /\ (FileStep \/ StopServer)
    /\ UNCHANGED <<scene, serverVars, clientVars, wire>>

\* start: the first tree.
ServerStarts ==
    /\ ~running["client"].up /\ StartServer(Unique)
    /\ tree' = Merged(disk)
    /\ noticed' = FALSE /\ challenged' = FALSE
    /\ UNCHANGED <<scene, disk, changes, versions, missed, clientVars, wire>>

ClientStarts ==
    /\ running["server"].up /\ StartClient
    /\ wire' = Heard({Hello})
    /\ UNCHANGED <<scene, serverVars, clientVars>>

-----------------------------------------------------------------------------
(* The disk changes.                                                       *)

With(fs, path, file) == [p \in DOMAIN fs \union {path} |-> IF p = path THEN file ELSE fs[p]]
Without(fs, path) == [p \in DOMAIN fs \ {path} |-> fs[p]]

\* A directory is where the path has a file, or the other way round.
InTheWay(fs, path) == \E p \in DOMAIN fs \ {path} : IsPrefix(p, path) \/ IsPrefix(path, p)

Changed(c) ==
    LET fs == disk[c.entry]
    IN  CASE c.kind = "write" -> With(fs, c.path, c.file)
          [] c.kind = "remove" -> Without(fs, c.path)
          [] c.kind = "move" -> With(Without(fs, c.path), c.to, fs[c.path])

\* The directories whose modification the platform reports along with it, when
\* a name comes or goes; the watched directory has the relative path ".".
Parent(path) == IF Len(path) = 1 THEN <<".">> ELSE SubSeq(path, 1, Len(path) - 1)
ParentsMutant(c) == {}   \* mutant: events of directories are dropped
Parents(c) ==
    IF ~scene.parentEvents \/ (c.kind = "write" /\ c.path \in DOMAIN disk[c.entry]) THEN {}
    ELSE {Parent(c.path)} \union IF c.kind = "move" THEN {Parent(c.to)} ELSE {}

\* dispatch: an event with a path that is not ignored.  Of a move it looks at
\* the old name only.
Passes(c) ==
    \/ ~Ignored(ServerSide(c.entry), c.path, FALSE)
    \/ \E dir \in Parents(c) : ~Ignored(ServerSide(c.entry), dir, TRUE)

Change(c) ==
    /\ running["server"].up /\ c \in scene.changes \ changes
    /\ c.kind # "write" => c.path \in DOMAIN disk[c.entry]
    /\ c.kind # "remove" => ~InTheWay(disk[c.entry], c.to)
    /\ disk' = [disk EXCEPT ![c.entry] = Changed(c)]
    /\ changes' = changes \union {c}
    /\ noticed' = (noticed \/ Passes(c))
    /\ missed' = (missed \/ (~noticed' /\ ListedFiles(disk') # ListedFiles(disk)))
    /\ versions' = versions \union ContentOf(disk')
    /\ UNCHANGED <<setupVars, scene, tree, challenged, clientVars, wire>>

\* _on_filesystem_changed.
Rebuild ==
    /\ running["server"].up /\ noticed
    /\ noticed' = FALSE
    /\ tree' = Merged(disk)
    /\ offered' = IF accepted = "yes" THEN tree' ELSE offered
    /\ UNCHANGED <<setupVars, scene, disk, challenged, changes, versions, missed,
                   accepted, handled, buffers, failed, local, wire>>

-----------------------------------------------------------------------------
(* The server's messages.                                                  *)

\* _dispatch_message: the sender's id and the action are segments.
Route(m, action) == m \in wire /\ Len(m.topic) >= 5 /\ SubSeq(m.topic, 1, 3) = FromClient /\ m.topic[5] = action
Sender(m) == <<m.topic[4]>>
Registered(id) == running["server"].pair # 0 /\ id = scene.clientId

HandleHello(m) ==
    /\ Route(m, "hello")
    /\ challenged' = (challenged \/ Registered(Sender(m)))
    /\ wire' = (wire \ {m}) \union Heard(
         {IF Registered(Sender(m))
          THEN Message(ChallengeTopic(Sender(m)), "challenge", <<"challenge">>)
          ELSE Message(AuthResultTopic(Sender(m)), "auth_result", <<"false">>)})
    /\ UNCHANGED <<setupVars, scene, disk, noticed, tree, changes, versions, missed, clientVars>>

\* verify_response.
Verified(m) == challenged /\ m.body = <<Decimal[running["server"].pair]>>

HandleAuthResponse(m) ==
    /\ Route(m, "auth_response")
    /\ challenged' = (challenged /\ ~Verified(m))
    /\ wire' = (wire \ {m}) \union Heard(
         {Message(AuthResultTopic(Sender(m)), "auth_result", <<IF Verified(m) THEN "true" ELSE "false">>)})
    /\ UNCHANGED <<setupVars, scene, disk, noticed, tree, changes, versions, missed, clientVars>>

RefusalMutant(fid) == {}   \* mutant: a request that cannot be served is dropped
Refusal(fid) == {Message(FileTopic(fid, "abort"), "abort", <<>>)}

\* _send_file: the chunks and what ends them, or an abort.
Answer(fid, path) ==
    IF ~Readable(path) THEN Refusal(fid)
    ELSE LET chunks == ChunkData(Seal(Key("server"), fid, DataAt(path)), ChunkSize)
         IN  {Message(ChunkTopic(fid, Decimal[seq]), "chunk", chunks[seq]) : seq \in DOMAIN chunks}
               \union {Message(FileTopic(fid, "done"), "done", <<>>)}

HandleFileRequest(m) ==
    /\ Route(m, "file_request")
    /\ wire' = (wire \ {m}) \union
               IF challenged \/ ~Registered(Sender(m)) THEN {}
               ELSE Heard(Answer(m.body[1], Tail(m.body)))
    /\ UNCHANGED <<setupVars, scene, serverVars, clientVars>>

-----------------------------------------------------------------------------
(* The client's messages.                                                  *)

\* _dispatch_message.
Dispatch(m, kind) == m \in wire /\ Handler(m.topic) = kind

HandleChallenge(m) ==
    /\ Dispatch(m, "challenge")
    /\ wire' = (wire \ {m}) \union Heard(
         {Message(ClientTopic(scene.clientId, "auth_response"), "auth_response",
                  <<Decimal[running["client"].pair]>>)})
    /\ UNCHANGED <<setupVars, scene, serverVars, clientVars>>

RetainedMutant(m) == tree   \* mutant: the client subscribes before it looks at the result
\* The client subscribes, and the broker sends what it has retained.
Retained(m) == IF m.body = <<"true">> THEN tree ELSE offered

HandleAuthResult(m) ==
    /\ Dispatch(m, "auth_result")
    /\ accepted' = IF m.body = <<"true">> THEN "yes" ELSE "refused"
    /\ offered' = Retained(m)
    /\ wire' = wire \ {m}
    /\ UNCHANGED <<setupVars, scene, serverVars, handled, buffers, failed, local>>

LocalScan == ScanOf(ClientSide, [p \in DOMAIN local |-> [data |-> local[p], kind |-> "plain"]])
ToFetch == Diff(ClientSide, LocalScan, offered)

\* _handle_tree, _request_file.
HandleTree ==
    /\ offered # NoTree /\ DOMAIN buffers = {}
    /\ Cardinality(ToFetch) <= Cardinality(FileIds)   \* bound
    /\ LET paths == SetToSeq(ToFetch)
           fids == SetToSeq(FileIds)
           asked == DOMAIN paths
       IN  /\ buffers' = [f \in {fids[i] : i \in asked} |->
                            LET i == CHOOSE j \in asked : fids[j] = f
                            IN  [path |-> MapRemoteToLocal(paths[i]), source |-> paths[i],
                                 chunks |-> <<>>]]
           /\ wire' = wire \union Heard(
                {Message(ClientTopic(scene.clientId, "file_request"), "file_request",
                         <<fids[i]>> \o paths[i]) : i \in asked})
    /\ handled' = offered
    /\ offered' = NoTree
    /\ UNCHANGED <<setupVars, scene, serverVars, accepted, failed, local>>

HandleFileChunk(m) ==
    /\ Dispatch(m, "chunk") /\ FileId(m.topic) \in DOMAIN buffers
    /\ buffers' = [buffers EXCEPT ![FileId(m.topic)].chunks = With(@, ChunkSeq(m.topic), m.body)]
    /\ wire' = wire \ {m}
    /\ UNCHANGED <<setupVars, scene, serverVars, accepted, offered, handled, failed, local>>

FailWriteMutant(dest, data) == UNCHANGED <<failed, local>>   \* mutant: nothing is reported
\* makedirs, open or write raises: what was there stays, or a part is written.
FailWrite(dest, data) ==
    /\ failed' = failed \union {dest}
    /\ \/ UNCHANGED local
       \/ /\ ~InTheWay(local, dest)
          /\ \E n \in 0 .. Len(data) : local' = With(local, dest, SubSeq(data, 1, n))

\* The write of a file: it fails in a place that is taken, and may fail in others.
WriteFile(dest, data) ==
    \/ ~InTheWay(local, dest) /\ local' = With(local, dest, data) /\ UNCHANGED failed
    \/ (InTheWay(local, dest) \/ dest \in scene.stuck) /\ FailWrite(dest, data)

\* _handle_file_done, after the chunks.
HandleFileDone(m) ==
    /\ Dispatch(m, "done") /\ FileId(m.topic) \in DOMAIN buffers
    /\ \A n \in wire : n.kind = "chunk" => FileId(n.topic) # FileId(m.topic)
    /\ LET buffer == buffers[FileId(m.topic)]
           bytes == Reassemble(buffer.chunks)
       IN  IF Opens(Key("client"), FileId(m.topic), bytes)
           THEN WriteFile(buffer.path, Opened(bytes))
           ELSE failed' = failed \union {buffer.path} /\ UNCHANGED local
    /\ buffers' = Without(buffers, FileId(m.topic))
    /\ wire' = wire \ {m}
    /\ UNCHANGED <<setupVars, scene, serverVars, accepted, offered, handled>>

HandleFileAbort(m) ==
    /\ Dispatch(m, "abort") /\ FileId(m.topic) \in DOMAIN buffers
    /\ failed' = failed \union {buffers[FileId(m.topic)].path}
    /\ buffers' = Without(buffers, FileId(m.topic))
    /\ wire' = wire \ {m}
    /\ UNCHANGED <<setupVars, scene, serverVars, accepted, offered, handled, local>>

\* A message no handler takes.
Drop(m) ==
    /\ m \in wire /\ SubSeq(m.topic, 1, 3) = FromServer
    /\ Handler(m.topic) = "none"
    /\ wire' = wire \ {m}
    /\ UNCHANGED <<setupVars, scene, serverVars, clientVars>>

-----------------------------------------------------------------------------
ServerStep ==
    \/ Rebuild
    \/ \E m \in wire : HandleHello(m) \/ HandleAuthResponse(m) \/ HandleFileRequest(m)

ClientStep ==
    \/ HandleTree
    \/ \E m \in wire :
         \/ HandleChallenge(m) \/ HandleAuthResult(m) \/ Drop(m)
         \/ HandleFileChunk(m) \/ HandleFileDone(m) \/ HandleFileAbort(m)

Next ==
    \/ Prepare \/ ServerStarts \/ ClientStarts
    \/ \E c \in scene.changes : Change(c)
    \/ ServerStep \/ ClientStep

Spec == Init /\ [][Next]_vars

\* The programs run; operators and disks do as they please.
FairSpec == Spec /\ WF_vars(ServerStep) /\ WF_vars(ClientStep)

-----------------------------------------------------------------------------
(* Properties.                                                             *)

\* Every variable has its type; only an accepted client has a tree or a transfer,
\* and each published path belongs to a scanned directory.
TypeOK ==
    /\ DeployTypeOK
    /\ noticed \in BOOLEAN /\ missed \in BOOLEAN /\ challenged \in BOOLEAN
    /\ accepted \in {"no", "yes", "refused"}
    /\ DOMAIN buffers \subseteq FileIds
    /\ (accepted # "yes" => DOMAIN buffers = {} /\ offered = NoTree /\ handled = NoTree)
    /\ tree # NoTree => \A path \in DOMAIN tree : Resolve(path) # 0

\* Ids that neither end a topic nor break it in two.
PlainId == Len(scene.clientId) = 1 /\ scene.clientId[1] \notin {"done", "abort", "meta"}

\* The order of the dispatcher's tests (client.py:218-254): each message on its
\* way to a client is taken by the handler it was meant for, whatever the
\* client's id, unless the id is one of three words that end other topics.
MessagesRouted ==
    \A m \in wire : SubSeq(m.topic, 1, 3) = FromServer /\ PlainId => Handler(m.topic) = m.kind

\* A move from an ignored name that no directory's event gives away.
Unseen(c) ==
    /\ c.kind = "move" /\ Ignored(ServerSide(c.entry), c.path, FALSE)
    /\ ~scene.parentEvents \/ (Len(c.to) = 1 /\ Ignored(ServerSide(c.entry), <<".">>, TRUE))

\* A change of what the server would publish is noticed by a watcher, however
\* the rules prune, negate and anchor, unless it is a move from an ignored name
\* (watcher.py:75-80), on a platform without directory events or into the
\* watched directory itself when the rules match that, as "*" does.
NoticedStep ==
    Merged(disk') = Merged(disk) \/ noticed' \/ \E c \in changes' \ changes : Unseen(c)
ChangeNoticed == [][NoticedStep]_vars

Connected == running["server"].up /\ running["client"].up

\* Only a client whose key pair was registered when the server started, and
\* that has the server's encryption key, changes its files; and it writes no
\* file its own rules ignore, nothing but the content of one published file, and
\* where that file belongs (client.py:404).  The content is whole, unless the
\* write failed and is reported (client.py:405-413).
WritesBelong ==
    [][\A dest \in DOMAIN local' :
         \/ dest \in DOMAIN local /\ local'[dest] = local[dest]
         \/ /\ Connected /\ running["server"] = running["client"]
            /\ ~Ignored(ClientSide, dest, FALSE)
            /\ \E v \in versions :
                 /\ MapRemoteToLocal(v[1]) = dest
                 /\ \/ local'[dest] = v[2]
                    \/ /\ dest \in scene.stuck \intersect failed'
                       /\ \E n \in 0 .. Len(v[2]) : local'[dest] = SubSeq(v[2], 1, n)
            /\ \E path \in DOMAIN handled : MapRemoteToLocal(path) = dest]_vars

\* Nothing is under way, and the client has handled the server's newest tree.
AtRest ==
    /\ handled # NoTree /\ handled = tree /\ offered = NoTree
    /\ DOMAIN buffers = {} /\ wire = {} /\ ~noticed

Collides(path) ==
    \E other \in DOMAIN tree \ {path} : MapRemoteToLocal(other) = MapRemoteToLocal(path)

\* The client could not write there, which its result says.
Unwritten(dest) == dest \in failed /\ (InTheWay(local, dest) \/ dest \in scene.stuck)

\* At rest the client has the server's version of each published file, unless
\* its own rules ignore it, the server cannot send it, another file has its
\* place, the disk refused it or the keys differ (tree.py:107-137,
\* server.py:288-364, client.py:403-413).
Delivered ==
    AtRest /\ ~missed /\ Key("server") = Key("client") =>
      \A path \in DOMAIN tree :
        LET dest == MapRemoteToLocal(path)
        IN  \/ Ignored(ClientSide, dest, FALSE) \/ ~Readable(path) \/ Collides(path)
            \/ Unwritten(dest)
            \/ dest \in DOMAIN local /\ local[dest] = DataAt(path)

\* At rest the same tree again makes the client ask for nothing (tree.py:125),
\* but for a file that cannot be sent, one that shares its place, one that could
\* not be written, and one in a directory that the client's rules leave out of its
\* scan.
NothingAskedTwice ==
    AtRest /\ ~missed /\ Key("server") = Key("client") =>
      \A path \in Diff(ClientSide, LocalScan, tree) :
        \/ ~Readable(path) \/ Collides(path)
        \/ Unwritten(MapRemoteToLocal(path))
        \/ ~Listed(ClientSide, MapRemoteToLocal(path))

\* A client with a registered key pair is never left waiting for a message that
\* nobody will send: when the server has a tree, nothing is on its way and no
\* rebuild is due, the client has been accepted, has handled that tree and has
\* every request answered.
SilenceIsRest ==
    /\ Connected /\ PlainId /\ running["client"].pair = running["server"].pair
    /\ tree # NoTree /\ wire = {} /\ offered = NoTree /\ ~noticed
    => accepted = "yes" /\ handled = tree /\ DOMAIN buffers = {}

\* A client with a registered key pair comes to rest with the newest tree once
\* both programs run; every request is answered, if only by an abort.
SyncFinishes ==
    (Connected /\ PlainId /\ running["client"].pair = running["server"].pair)
      ~> AtRest

=============================================================================
