---------------------------- MODULE FileTransfer ----------------------------
(***************************************************************************)
(* Serving files to one client: the requests a client derives from a file  *)
(* tree (client.py _handle_tree, _request_file), the executor threads of   *)
(* the server that read, encrypt, chunk and publish a file (server.py      *)
(* _handle_file_request, _send_file), the broker between them, and the     *)
(* client's chunk buffers until a transfer is written or reported failed   *)
(* (client.py _handle_file_meta .. _check_sync_complete).                  *)
(*                                                                         *)
(* Every message of a transfer has a topic of its own and MQTT orders only *)
(* the messages of one topic, so the channel is a set.  With Ordered the   *)
(* messages of one executor job are handed over in the order published,    *)
(* as a broker with one queue per connection does.                         *)
(*                                                                         *)
(* File contents are version numbers: 0 is "no such file".  What an        *)
(* executor job encrypts is a record naming the job (its nonce), the       *)
(* version read and whether zlib shrank it.                                *)
(***************************************************************************)
EXTENDS Integers, Sequences, FiniteSets, Functions

CONSTANTS
    Paths,          \* paths of the server's tree
    LocalPaths,     \* paths under the client's sync_directory
    LocalPath,      \* FileTree.map_remote_to_local, as a function
    Refused,        \* paths _send_file aborts whatever the disk holds
    Packed,         \* <<path, version>> pairs that zlib makes smaller
    Fids,           \* file ids this client may draw (uuid4)
    OtherFid,       \* a file id drawn by another client
    Workers,        \* threads of the server's executor
    NumChunks,      \* chunks of an encrypted file
    NoBuffer,       \* "file_id not in _chunk_buffers"
    NoPath,         \* a file id not drawn yet, a local file that is absent
    NoTree,         \* no tree handled yet
    Idle,           \* a worker with no job
    NoChunk,        \* a chunk not received
    Ordered,        \* the broker keeps the order of one job's messages
    MaxEdits,       \* bound: changes of the server's files
    MaxTrees,       \* bound: trees published after the first
    MaxLost,        \* bound: messages lost
    MaxAgain,       \* bound: messages delivered twice
    MaxForeign,     \* bound: aborts of other clients' transfers
    MaxHellos,      \* bound: hellos that reopen this client's challenge
    MaxWriteErrors, \* bound: failing writes on the client
    MaxTotal,       \* bound: all of these together
    MayStop         \* bound: whether the server may stop or crash, once

ASSUME PathsAssumption ==
    /\ LocalPath \in [Paths -> LocalPaths]
    /\ Refused \subseteq Paths
    /\ Packed \subseteq Paths \X Nat
ASSUME FidsAssumption == OtherFid \notin Fids /\ IsFiniteSet(Fids)
ASSUME ChunksAssumption == NumChunks \in Nat \ {0}
ASSUME SwitchesAssumption == Ordered \in BOOLEAN /\ MayStop \in BOOLEAN
ASSUME BoundsAssumption ==
    {MaxEdits, MaxTrees, MaxLost, MaxAgain, MaxForeign, MaxHellos,
     MaxWriteErrors, MaxTotal} \subseteq Nat

VARIABLES
    disk,           \* server: version of each file now, 0 if absent
    versions,       \* history: every <<path, version>> the server ever had
    tree,           \* server: _file_tree, as path -> version
    trees,          \* channel: trees published, in order (one topic)
    requests,       \* channel: file requests in flight
    challenged,     \* server: the challenge open for this client id, 0 if none
    answers,        \* channel: answers to challenges, of both processes of the id
    results,        \* channel: results of authentication, in order (one topic)
    queue,          \* server: jobs submitted and not begun
    work,           \* server: what each executor thread is sending
    jobs,           \* server: jobs submitted so far
    up,             \* server: still connected
    network,        \* channel: messages of file transfers in flight
    buffers,        \* client: _chunk_buffers
    requested,      \* history: the path each file id was drawn for
    remoteTree,     \* client: _remote_tree
    local,          \* client: content of each local file
    downloaded,     \* client: SyncResult.files_downloaded, as a bag
    failed,         \* client: SyncResult.files_failed, as a bag
    refused,        \* client: SyncResult.errors has a failed authentication
    syncComplete,   \* client: the _sync_complete event
    count           \* bounds: how often each bounded action was taken

authVars == <<challenged, answers, results>>
serverVars == <<disk, versions, tree, authVars, queue, work, jobs, up>>
clientVars == <<buffers, requested, remoteTree, local, downloaded, failed, refused,
                syncComplete>>
vars == <<disk, versions, tree, trees, requests, challenged, answers, results,
          queue, work, jobs, up, network, buffers, requested, remoteTree, local,
          downloaded, failed, refused, syncComplete, count>>

-----------------------------------------------------------------------------
(* Contents, encrypted data and messages.                                  *)

Absent == [path |-> NoPath, ver |-> 0, form |-> "plain"]
Content == [path : Paths \union {NoPath}, ver : Nat, form : {"plain", "raw", "garbled", "cut"}]

\* What one executor job encrypted: its nonce, the file id bound as additional
\* data, the file and version read, and whether zlib made it smaller ("raw"
\* bytes are those zlib returned).
AllFids == Fids \union {OtherFid}
Encryption == [job : Nat, fid : AllFids, path : Paths, ver : Nat, packed : BOOLEAN]

\* The messages of a transfer by their place in _send_file: meta, the chunks
\* (chunk r has sequence number r - 1), done; an abort stands alone.
MetaRank == 0
ChunkRanks == 1 .. NumChunks
DoneRank == NumChunks + 1
AbortRank == NumChunks + 2

Message == [fid : AllFids, rank : 0 .. AbortRank, enc : Encryption, again : BOOLEAN]
Request == [fid : Fids, path : Paths, again : BOOLEAN]
Job == [job : Nat, fid : Fids, path : Paths]
Sending == [fid : Fids, enc : Encryption, next : 0 .. DoneRank]
Buffer == [path : Paths, compressed : BOOLEAN,
           chunks : [ChunkRanks -> Encryption \union {NoChunk}]]
Tree == [Paths -> Nat]

Pending == {f \in Fids : buffers[f] # NoBuffer}
FreshFids == {f \in Fids : requested[f] = NoPath}

ASSUME SentinelsAssumption ==
    /\ NoPath \notin Paths /\ NoBuffer \notin Buffer
    /\ NoTree \notin Tree /\ Idle \notin Sending /\ NoChunk \notin Encryption

Counted == {"edits", "trees", "lost", "again", "foreign", "hellos",
            "writeErrors", "stops", "total"}
Spend(what, bound) ==
    /\ count[what] < bound /\ count["total"] < MaxTotal
    /\ count' = [count EXCEPT ![what] = @ + 1, !["total"] = @ + 1]

Init ==
    /\ disk \in [Paths -> {1}]
    /\ versions = {<<p, disk[p]>> : p \in Paths}
    /\ tree = disk
    /\ trees = <<tree>>
    /\ requests = {}
    /\ challenged = 0
    /\ answers = {}
    /\ results = << >>
    /\ queue = << >>
    /\ work = [w \in Workers |-> Idle]
    /\ jobs = 0
    /\ up = TRUE
    /\ network = {}
    /\ buffers = [f \in Fids |-> NoBuffer]
    /\ requested = [f \in Fids |-> NoPath]
    /\ remoteTree = NoTree
    /\ local = [l \in LocalPaths |-> Absent]
    /\ downloaded = [l \in LocalPaths |-> 0]
    /\ failed = [l \in LocalPaths |-> 0]
    /\ refused = FALSE
    /\ syncComplete = FALSE
    /\ count = [what \in Counted |-> 0]

-----------------------------------------------------------------------------
(* The server's files and its tree.                                        *)

\* A file is created, overwritten or removed in the scanned directory.
ServerEdit(p) ==
    /\ up /\ Spend("edits", MaxEdits)
    /\ \E v \in {0, count["edits"] + 2} \ {disk[p]} :
         /\ disk' = [disk EXCEPT ![p] = v]
         /\ versions' = versions \union ({<<p, v>>} \ {<<p, 0>>})
    /\ UNCHANGED <<tree, trees, requests, authVars, queue, work, jobs, up, network>>
    /\ UNCHANGED clientVars

\* _on_filesystem_changed: _build_tree, then _publish_tree.
OnFilesystemChanged ==
    /\ up /\ Spend("trees", MaxTrees)
    /\ tree' = disk
    /\ trees' = Append(trees, disk)
    /\ UNCHANGED <<disk, versions, requests, authVars, queue, work, jobs, up, network>>
    /\ UNCHANGED clientVars

\* _publish_tree for another client that authenticates: the tree again.
RepublishTree ==
    /\ up /\ Spend("trees", MaxTrees)
    /\ trees' = Append(trees, tree)
    /\ UNCHANGED <<serverVars, requests, network>>
    /\ UNCHANGED clientVars

-----------------------------------------------------------------------------
(* The server's handlers and executor threads.                             *)

\* The processes that listen on this id's topics: this client, and a second one
\* started with its configuration.
Processes == {"this", "other"}

\* The second process says hello: the challenge replaces the open one, and both
\* processes answer it.
OpenChallenge ==
    /\ up /\ Spend("hellos", MaxHellos)
    /\ LET nonce == count["hellos"] + 1
       IN  /\ challenged' = nonce
           /\ answers' = answers \union ({nonce} \X Processes)
    /\ UNCHANGED <<disk, versions, tree, trees, requests, results, queue, work, jobs,
                   up, network>>
    /\ UNCHANGED clientVars

\* _handle_auth_response: the answer to the open challenge closes it, and the
\* tree is published again; every other one is refused.  The result goes to the
\* topic both processes listen on.
HandleAuthResponse(a) ==
    /\ up /\ a \in answers
    /\ answers' = answers \ {a}
    /\ results' = Append(results, a[1] = challenged)
    /\ IF a[1] = challenged
       THEN challenged' = 0 /\ trees' = Append(trees, tree)
       ELSE UNCHANGED <<challenged, trees>>
    /\ UNCHANGED <<disk, versions, tree, requests, queue, work, jobs, up, network, count>>
    /\ UNCHANGED clientVars

\* cleanup_timeouts (auth.py, module ServerAuth): no result is published.
TimeoutChallenge ==
    /\ up /\ challenged # 0
    /\ challenged' = 0
    /\ UNCHANGED <<disk, versions, tree, trees, requests, answers, results, queue, work,
                   jobs, up, network, count>>
    /\ UNCHANGED clientVars

\* _handle_file_request: silently dropped unless is_authenticated.
HandleFileRequest(r) ==
    /\ up /\ r \in requests
    /\ requests' = requests \ {r}
    /\ IF challenged # 0
       THEN UNCHANGED <<queue, jobs>>
       ELSE /\ jobs' = jobs + 1
            /\ queue' = Append(queue, [job |-> jobs + 1, fid |-> r.fid, path |-> r.path])
    /\ UNCHANGED <<disk, versions, tree, trees, authVars, work, up, network, count>>
    /\ UNCHANGED clientVars

MessageOf(s, rank) == [fid |-> s.fid, rank |-> rank, enc |-> s.enc, again |-> FALSE]

\* _send_file's early returns: no scan entry, outside it, not a file.
Servable(p) == p \notin Refused /\ disk[p] # 0

AbortedMutant(s) == {}   \* mutant: returns without an abort
\* server/file/{file_id}/abort
Aborted(s) == {MessageOf(s, AbortRank)}

\* _send_file up to the first publish: a thread takes the oldest job and
\* either aborts it or reads, compresses and encrypts the file.
BeginSend(w) ==
    /\ up /\ work[w] = Idle /\ queue # << >>
    /\ LET j == Head(queue)
           ver == disk[j.path]
           enc == [job |-> j.job, fid |-> j.fid, path |-> j.path, ver |-> ver,
                   packed |-> <<j.path, ver>> \in Packed]
           s == [fid |-> j.fid, enc |-> enc, next |-> MetaRank]
       IN  IF Servable(j.path)
           THEN /\ work' = [work EXCEPT ![w] = s]
                /\ UNCHANGED network
           ELSE /\ network' = network \union Aborted(s)
                /\ UNCHANGED work
    /\ queue' = Tail(queue)
    /\ UNCHANGED <<disk, versions, tree, trees, requests, authVars, jobs, up, count>>
    /\ UNCHANGED clientVars

AdvanceMutant(s) == [s EXCEPT !.next = @ + 1]   \* mutant: the loop runs past done
\* The next statement of _send_file; after done the thread is free again.
Advance(s) == IF s.next = DoneRank THEN Idle ELSE [s EXCEPT !.next = @ + 1]

\* _send_file: publish meta, then each chunk, then done.
PublishNext(w) ==
    /\ up /\ work[w] # Idle
    /\ network' = network \union {MessageOf(work[w], work[w].next)}
    /\ work' = [work EXCEPT ![w] = Advance(@)]
    /\ UNCHANGED <<disk, versions, tree, trees, requests, authVars, queue, jobs, up, count>>
    /\ UNCHANGED clientVars

\* stop, or a crash: the end of what the MQTT library still had to hand to the
\* broker and every job not finished go with the process.
PublishedPrefix(kept) ==
    \A m \in kept, n \in network :
        n.enc.job = m.enc.job /\ n.rank < m.rank => n \in kept

ServerStop ==
    /\ MayStop /\ up /\ Spend("stops", 1)
    /\ up' = FALSE
    /\ queue' = << >>
    /\ work' = [w \in Workers |-> Idle]
    /\ network' \in {kept \in SUBSET network : PublishedPrefix(kept)}
    /\ UNCHANGED <<disk, versions, tree, trees, requests, authVars, jobs>>
    /\ UNCHANGED clientVars

-----------------------------------------------------------------------------
(* The client's handlers, all on the MQTT network thread.                  *)

\* FileTree.diff of the local scan with a tree.
Plain(p, v) == [path |-> p, ver |-> v, form |-> "plain"]
ToFetch(t) == {p \in Paths : t[p] # 0 /\ local[LocalPath[p]] # Plain(p, t[p])}

\* _request_file: the buffer a request starts with.
EmptyBuffer(p) == [path |-> p, compressed |-> FALSE,
                   chunks |-> [r \in ChunkRanks |-> NoChunk]]

\* _request_file for the paths of fetch, under the ids drawn for them.
RequestFiles(fetch, id) ==
    LET drawn(f) == \E p \in fetch : id[p] = f
        pathOf(f) == CHOOSE p \in fetch : id[p] = f
    IN  /\ requests' = requests \union
             {[fid |-> id[p], path |-> p, again |-> FALSE] : p \in fetch}
        /\ requested' = [f \in Fids |-> IF drawn(f) THEN pathOf(f) ELSE requested[f]]
        /\ buffers' = [f \in Fids |->
                         IF drawn(f) THEN EmptyBuffer(pathOf(f)) ELSE buffers[f]]

\* _handle_tree
HandleTree ==
    /\ trees # << >>
    /\ trees' = Tail(trees)
    /\ remoteTree' = Head(trees)
    /\ LET fetch == ToFetch(Head(trees))
       IN  \/ /\ fetch = {}
              /\ syncComplete' = TRUE
              /\ UNCHANGED <<requests, buffers, requested>>
           \/ /\ fetch # {}
              /\ \E id \in Injection(fetch, FreshFids) : RequestFiles(fetch, id)
              /\ UNCHANGED syncComplete
    /\ UNCHANGED serverVars
    /\ UNCHANGED <<network, local, downloaded, failed, refused, count>>

\* What the broker may hand over next.
Deliverable(m) ==
    /\ m \in network
    /\ Ordered /\ ~m.again =>
         \A n \in network : n.enc.job = m.enc.job /\ ~n.again => m.rank <= n.rank
Receive(m) == Deliverable(m) /\ network' = network \ {m}

MergeMetaMutant(b, enc) == b   \* mutant: the old meta wins
\* The merge of a received meta into the buffer's own.
MergeMeta(b, enc) == [b EXCEPT !.compressed = enc.packed]

\* _handle_file_meta
HandleFileMeta(m) ==
    /\ Receive(m) /\ m.rank = MetaRank
    /\ buffers' = IF m.fid \in Pending
                  THEN [buffers EXCEPT ![m.fid] = MergeMeta(@, m.enc)]
                  ELSE buffers
    /\ UNCHANGED serverVars
    /\ UNCHANGED <<trees, requests, requested, remoteTree, local, downloaded, failed,
                   refused, syncComplete, count>>

\* _handle_file_chunk
HandleFileChunk(m) ==
    /\ Receive(m) /\ m.rank \in ChunkRanks
    /\ buffers' = IF m.fid \in Pending
                  THEN [buffers EXCEPT ![m.fid].chunks[m.rank] = m.enc]
                  ELSE buffers
    /\ UNCHANGED serverVars
    /\ UNCHANGED <<trees, requests, requested, remoteTree, local, downloaded, failed,
                   refused, syncComplete, count>>


\* mutant: each chunk is authenticated by itself
DecryptsMutant2(f) ==
    \A r \in ChunkRanks : /\ buffers[f].chunks[r] # NoChunk
                          /\ buffers[f].chunks[r].fid = f
\* mutant: nothing is authenticated
DecryptsMutant(f) == \A r \in ChunkRanks : buffers[f].chunks[r] # NoChunk
\* decrypt_data: AES-GCM authenticates the reassembled bytes and the file id,
\* so it accepts all the chunks of one encryption for this id and no less.
Decrypts(f) ==
    LET chunks == buffers[f].chunks
    IN  \A r \in ChunkRanks :
          /\ chunks[r] # NoChunk /\ chunks[r] = chunks[1]
          /\ chunks[r].fid = f

\* decompress_data fails on bytes zlib did not produce.
Decompresses(f) == buffers[f].compressed => buffers[f].chunks[1].packed

\* The bytes _handle_file_done writes: those of the file as it was, "raw" if they
\* are still compressed or "garbled" if they mix encryptions.
Decoded(f) ==
    LET chunks == buffers[f].chunks
    IN  [path |-> chunks[1].path, ver |-> chunks[1].ver,
         form |-> IF \E r \in ChunkRanks : chunks[r] # chunks[1] THEN "garbled"
                  ELSE IF chunks[1].packed = buffers[f].compressed THEN "plain"
                  ELSE "raw"]

CheckSyncCompleteMutant(fs) == syncComplete' = TRUE   \* mutant: other buffers are not looked at
CheckSyncCompleteMutant2(fs) == UNCHANGED syncComplete   \* mutant: the event is never set
\* _check_sync_complete, once the buffers of fs are gone.
CheckSyncComplete(fs) == syncComplete' = (syncComplete \/ Pending \subseteq fs)

UnbufferMutant(f) == buffers   \* mutant: get instead of pop
\* _chunk_buffers.pop
Unbuffer(f) == [buffers EXCEPT ![f] = NoBuffer]

Report(list, l) == [list EXCEPT ![l] = @ + 1]

FailsMutant(f) == UNCHANGED <<local, downloaded, failed>>   \* mutant: no append
Fails(f) ==
    /\ failed' = Report(failed, LocalPath[buffers[f].path])
    /\ UNCHANGED <<local, downloaded>>

\* open(dest, "wb") and write; when that fails the file may be left cut short.
Writes(f, l) ==
    \/ /\ local' = [local EXCEPT ![l] = Decoded(f)]
       /\ downloaded' = Report(downloaded, l)
       /\ UNCHANGED <<failed, count>>
    \/ /\ Spend("writeErrors", MaxWriteErrors)
       /\ failed' = Report(failed, l)
       /\ \/ UNCHANGED local
          \/ local' = [local EXCEPT ![l] = [Decoded(f) EXCEPT !.form = "cut"]]
       /\ UNCHANGED downloaded

\* _handle_file_done
HandleFileDone(m) ==
    /\ Receive(m) /\ m.rank = DoneRank
    /\ IF m.fid \notin Pending
       THEN UNCHANGED <<buffers, local, downloaded, failed, syncComplete, count>>
       ELSE /\ buffers' = Unbuffer(m.fid)
            /\ IF Decrypts(m.fid) /\ Decompresses(m.fid)
               THEN Writes(m.fid, LocalPath[buffers[m.fid].path])
               ELSE Fails(m.fid) /\ UNCHANGED count
            /\ CheckSyncComplete({m.fid})
    /\ UNCHANGED serverVars
    /\ UNCHANGED <<trees, requests, requested, remoteTree, refused>>

\* _handle_auth_result: a success subscribes to the tree once more, and the
\* broker sends the retained one; a failure ends the sync.
HandleAuthResult ==
    /\ results # << >>
    /\ results' = Tail(results)
    /\ IF Head(results)
       THEN trees' = Append(trees, tree) /\ UNCHANGED <<refused, syncComplete>>
       ELSE refused' = TRUE /\ syncComplete' = TRUE /\ UNCHANGED trees
    /\ UNCHANGED <<disk, versions, tree, challenged, answers, queue, work, jobs, up>>
    /\ UNCHANGED <<requests, network, buffers, requested, remoteTree, local, downloaded,
                   failed, count>>

\* _handle_file_abort: the completion check runs for unknown file ids too.
HandleFileAbort(m) ==
    /\ Receive(m) /\ m.rank = AbortRank
    /\ IF m.fid \in Pending
       THEN /\ buffers' = Unbuffer(m.fid)
            /\ Fails(m.fid)
       ELSE UNCHANGED <<buffers, local, downloaded, failed>>
    /\ CheckSyncComplete({m.fid})
    /\ UNCHANGED serverVars
    /\ UNCHANGED <<trees, requests, requested, remoteTree, refused, count>>

-----------------------------------------------------------------------------
(* The broker: losing and repeating messages, and other clients.           *)

\* A queue limit of the broker or of a session drops a message.
LoseMessage(m) ==
    /\ m \in network /\ Spend("lost", MaxLost)
    /\ network' = network \ {m}
    /\ UNCHANGED <<serverVars, trees, requests>>
    /\ UNCHANGED clientVars

LoseRequest(r) ==
    /\ r \in requests /\ Spend("lost", MaxLost)
    /\ requests' = requests \ {r}
    /\ UNCHANGED <<serverVars, trees, network>>
    /\ UNCHANGED clientVars

\* The tree is QoS 0.
LoseTree ==
    /\ trees # << >> /\ Spend("lost", MaxLost)
    /\ trees' = Tail(trees)
    /\ UNCHANGED <<serverVars, requests, network>>
    /\ UNCHANGED clientVars

\* QoS 1 sends again what was not acknowledged in time.
RepeatMessage(m) ==
    /\ m \in network /\ ~m.again /\ Spend("again", MaxAgain)
    /\ network' = network \union {[m EXCEPT !.again = TRUE]}
    /\ UNCHANGED <<serverVars, trees, requests>>
    /\ UNCHANGED clientVars

RepeatRequest(r) ==
    /\ r \in requests /\ ~r.again /\ Spend("again", MaxAgain)
    /\ requests' = requests \union {[r EXCEPT !.again = TRUE]}
    /\ UNCHANGED <<serverVars, trees, network>>
    /\ UNCHANGED clientVars

\* Clients subscribe to server/file/+/..: each sees the aborts of all.
OtherClientAborted(p) ==
    /\ up /\ Spend("foreign", MaxForeign)
    /\ network' = network \union
         {[fid |-> OtherFid, rank |-> AbortRank, again |-> FALSE,
           enc |-> [job |-> 0, fid |-> OtherFid, path |-> p, ver |-> 0,
                    packed |-> FALSE]]}
    /\ UNCHANGED <<serverVars, trees, requests>>
    /\ UNCHANGED clientVars

-----------------------------------------------------------------------------
ServerStep ==
    \/ \E r \in requests : HandleFileRequest(r)
    \/ \E a \in answers : HandleAuthResponse(a)
    \/ \E w \in Workers : BeginSend(w) \/ PublishNext(w)

ClientStep ==
    \/ HandleTree \/ HandleAuthResult
    \/ \E m \in network : \/ HandleFileMeta(m) \/ HandleFileChunk(m)
                          \/ HandleFileDone(m) \/ HandleFileAbort(m)

Environment ==
    \/ \E p \in Paths : ServerEdit(p) \/ OtherClientAborted(p)
    \/ OnFilesystemChanged \/ RepublishTree
    \/ OpenChallenge \/ TimeoutChallenge
    \/ ServerStop
    \/ \E m \in network : LoseMessage(m) \/ RepeatMessage(m)
    \/ \E r \in requests : LoseRequest(r) \/ RepeatRequest(r)
    \/ LoseTree

Next == ServerStep \/ ClientStep \/ Environment

Spec == Init /\ [][Next]_vars

\* The threads of both programs run and the broker hands over what it holds.
Fairness ==
    /\ WF_vars(\E r \in requests : HandleFileRequest(r))
    /\ \A w \in Workers : WF_vars(BeginSend(w) \/ PublishNext(w))
    /\ WF_vars(ClientStep)

FairSpec == Spec /\ Fairness

-----------------------------------------------------------------------------
(* Properties.                                                             *)

\* Every variable has its type.
TypeOK ==
    /\ disk \in Tree /\ tree \in Tree /\ trees \in Seq(Tree)
    /\ versions \in SUBSET (Paths \X Nat)
    /\ requests \in SUBSET Request
    /\ challenged \in Nat /\ answers \in SUBSET (Nat \X Processes)
    /\ results \in Seq(BOOLEAN)
    /\ up \in BOOLEAN /\ refused \in BOOLEAN /\ syncComplete \in BOOLEAN
    /\ queue \in Seq(Job) /\ jobs \in Nat
    /\ work \in [Workers -> Sending \union {Idle}]
    /\ network \in SUBSET Message
    /\ buffers \in [Fids -> Buffer \union {NoBuffer}]
    /\ requested \in [Fids -> Paths \union {NoPath}]
    /\ remoteTree \in Tree \union {NoTree}
    /\ local \in [LocalPaths -> Content]
    /\ downloaded \in [LocalPaths -> Nat] /\ failed \in [LocalPaths -> Nat]
    /\ count \in [Counted -> Nat]

\* The finished requests for a local file: ids drawn for a path that maps to
\* it and no longer buffered.
Finished(l) == {f \in Fids : /\ requested[f] # NoPath /\ LocalPath[requested[f]] = l
                             /\ buffers[f] = NoBuffer}

\* However messages are lost, repeated or reordered, each request that left
\* the chunk buffers is in files_downloaded or files_failed exactly once.
ResultAccounting ==
    \A l \in LocalPaths : downloaded[l] + failed[l] = Cardinality(Finished(l))

\* A local file holds bytes of one version its own server file once had, whole,
\* still compressed or cut short: chunks of two transfers, files or encryptions
\* never end up in one file.
AuthenticContent ==
    \A l \in LocalPaths : local[l] # Absent =>
        /\ <<local[l].path, local[l].ver>> \in versions
        /\ LocalPath[local[l].path] = l
        /\ local[l].form # "garbled"

\* A damaged local file is always accompanied by an entry in files_failed.
DamageReported ==
    \A l \in LocalPaths : local[l].form \in {"garbled", "cut"} => failed[l] > 0

\* On a broker that keeps the order, compressed bytes are written as they are
\* only after a message was lost or repeated.
RawOnlyAfterFault ==
    Ordered /\ (\E l \in LocalPaths : local[l].form = "raw") =>
        count["lost"] + count["again"] > 0

\* Paths of the server that map to one place of the client.
Collides(p) == \E q \in Paths \ {p} : LocalPath[q] = LocalPath[p]

\* Every file of the tree the client handled is there, or reported as failed.
Synced ==
    /\ remoteTree # NoTree
    /\ \A p \in Paths :
         \/ remoteTree[p] = 0 \/ Collides(p) \/ failed[LocalPath[p]] > 0
         \/ local[LocalPath[p]] = Plain(p, remoteTree[p])
         \/ /\ local[LocalPath[p]] = [Plain(p, remoteTree[p]) EXCEPT !.form = "raw"]
            /\ ~Ordered \/ count["lost"] + count["again"] > 0

\* While the server's files do not change, a sync ends when every file of the
\* tree is there or reported; executor threads, repeated trees, a stop of the
\* server and lost or repeated messages do not matter, but that the last may
\* leave the bytes compressed.  What ends it early is a refused answer, which a
\* second process of the id brings about and which SyncResult.errors shows, and
\* the abort of another client's transfer before there is a tree.
CompleteMeansSynced ==
    [][~syncComplete /\ syncComplete' /\ count["edits"] = 0 =>
         \/ Synced'
         \/ refused'
         \/ remoteTree = NoTree /\ count["foreign"] > 0]_vars

\* Where a request that is still buffered is: asked for, queued, being sent, or
\* about to be finished.
UnderWay(f) ==
    \/ \E r \in requests : r.fid = f
    \/ \E i \in 1 .. Len(queue) : queue[i].fid = f
    \/ \E w \in Workers : work[w] # Idle /\ work[w].fid = f
    \/ \E m \in network : m.fid = f /\ m.rank \in {DoneRank, AbortRank}

\* No handler and no thread forgets a request: unless a message was lost, the
\* server stopped or dropped requests during a challenge, every entry of the
\* chunk buffers still has its done or abort to come.
NothingForgotten ==
    up /\ count["lost"] + count["hellos"] = 0 => \A f \in Pending : UnderWay(f)

\* client.py:115, "connect, auth, fetch tree, download missing files": sync
\* is not complete before a tree was fetched.
CompleteOnlyWithTree == syncComplete => remoteTree # NoTree

\* Every request is eventually finished, one way or the other.
EveryRequestFinishes ==
    \A f \in Fids : requested[f] # NoPath ~> buffers[f] = NoBuffer

\* A session ends on its own, without the timeout of sync().
SyncCompletes == <>syncComplete

\* README.md:3, the client fetches what is missing or changed: once the
\* server's files stay as the client's last tree has them, so do the client's.
InStep == \A p \in Paths : disk[p] # 0 =>
              \/ local[LocalPath[p]] = Plain(p, disk[p])
              \/ failed[LocalPath[p]] > 0
ClientConverges == (remoteTree = disk /\ trees = << >>) ~> (InStep \/ remoteTree # disk)

\* The promise of module SyncPromise.
Promise == INSTANCE SyncPromise WITH pending <- Pending
PromiseSpec == Promise!Spec

=============================================================================
