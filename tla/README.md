# MCGo: specifications and proofs

MCGo keeps directories of a Minecraft client in step with those of a server,
over an MQTT broker.  A Python server publishes the tree of its scanned
directories and sends files on request; a Python client and a C# client
authenticate, compare the tree with their own directory and fetch what is
missing or different.  This directory holds TLA+ modules of these programs,
TLC configurations and proofs for TLAPS.  Paths below are relative to the
repository: `server.py`, `client.py`, `auth.py`, `watcher.py`, `tree.py` and so
on are in `src/mcgo/`, `McGoClient.cs` is in `csharp/McGo.Client/`.

## The system

Threads. The server has a main thread (`start`: the first scan, the watchers,
then the service loop, once a second), the MQTT network thread (all handlers,
one message at a time), an executor whose threads run `_send_file`, and for each
directory a watchdog observer and at most a few debounce timers.  A Python
client has its main thread (in `sync` or `start_watch`) and its network thread
(all handlers).  The C# client is asynchronous; its message handlers run one at
a time.

| component | state | operations | modelled by |
|---|---|---|---|
| File transfer (`server.py` `_handle_file_request`, `_send_file`; `client.py` `_handle_tree` to `_check_sync_complete`; `crypto.py`, `chunking.py`) | executor queue, what each thread sends; `_chunk_buffers`, `_remote_tree`, local files, `SyncResult`, `_sync_complete` | request, begin to send, publish meta/chunk/done/abort, merge meta, store chunk, done, abort, completion check | `FileTransfer`, abstractly `SyncPromise` |
| Authentication (`auth.py`, `server.py` `_handle_hello`, `_handle_auth_response`, service loop) | `_challenges`, clock, what each client process knows | hello, challenge, response, verification, removal of expired challenges | `ServerAuth`, abstractly `Handshake` |
| Tree and watchers (`watcher.py`, `server.py` `_build_tree`, `_publish_tree`, `start`, `stop`) | `_file_tree`, `_timer` of each watcher, the retained message | event, timer, scan, store, render, publish, start, stop | `ServerTree` |
| Client object, Python (`client.py` `sync`, `start_watch`, `stop`, `_on_connect`, `_on_disconnect`) | connection, subscriptions, result, buffers left over, `_sync_complete` | call, wait, return, connect, lose the connection, every handler | `ClientSession` |
| Client object, C# (`McGoClient.cs`) | the same, per call | `SyncAsync`, `StartWatchAsync`, `Stop`, every handler | `CsClientSession` |
| Scan, diff, ignore rules, path mapping (`tree.py`, `ignore.py`; `Sync/FileTree.cs`, `Sync/IgnoreRules.cs`, `Sync/PathMapping.cs`) | the rules, read once | match, scan, map, diff | `PathRules`, used by `DataPath` |
| Topics, encryption, chunks (`protocol.py`, `crypto.py`, `chunking.py`, both dispatchers) | none | build and take apart a topic, dispatch, seal, open, cut, join | `Wire`, used by `DataPath` |
| Configuration, command line, key files (`config.py`, `cli.py`, `crypto.py`) | files on disk, and what a running program has read of them | `--init`, `--gen-keys`, `--gen-encryption-key`, start, stop | `Deployment`, used by `DataPath` |

How they interact. The watchers' timers and the main thread write `_file_tree`,
which the network thread publishes as well (on connecting, after each accepted
client).  A published tree makes each subscribed client ask for files; requests
are dropped while a challenge of that client id is open (`server.py:265`), so
the handshake of one process acts on the transfers of another.  Replies to all
clients are on topics that all clients subscribe to with wildcards
(`client.py:278-285`).  The client's main thread sees the network thread only
through the event `_sync_complete` and the lists of `SyncResult`.

What is hard about it: two executor threads with two versions of one file;
messages of one transfer on different topics, at QoS 0 and 1, lost, repeated or
late; a dict shared by two threads without a lock; a tree read under a lock and
published after it; timers that are cancelled too late; connections lost in the
middle of a handshake; state left over by an earlier call.  `PROJECT.json` lists
each hazard at its line with the properties that would catch it.

What makes each component correct: a client reports every request exactly once,
and writes only what the server once had under that name; completing a sync
means that the tree has been dealt with; only the challenge sent last is
accepted, and once; nobody is refused without a reason; no change of a watched
directory is forgotten; a `sync` that begins with nothing left over needs no timeout, and
`success` is not claimed for nothing; a file is published,
sent, mapped, opened and written under one and the same idea of which file it is.

## The modules

**FileTransfer** is one client and its server from tree to file.  A content is a
version number (0: no such file); what an executor job encrypts is a record of
the job (its nonce), the file id (the additional data of AES-GCM), path, version
and whether zlib shrank it.  `Decrypts` holds exactly of all the chunks of one
encryption for this id, which is what AES-GCM guarantees; bytes that were
compressed and are not decompressed, because meta came late or never
(`client.py:394`), are "raw".  A write that fails half way leaves a "cut" file, and
bytes of more than one encryption would be "garbled": that `Decrypts` never lets
them through is what `AuthenticContent` says.  The network is a set of messages,
because MQTT orders the messages of one topic only; with `Ordered` the messages of
one job come in order, as brokers with one queue per connection do.  The
environment edits files, republishes the tree, loses and repeats messages and delivers aborts of other clients.  It also starts a
second process of this client id (`Processes`): its hello replaces the open challenge,
both processes answer (`answers`), the server accepts the first answer and refuses the
rest, and both hear every result (`results`), so that a refusal meant for one ends the
sync of the other (`refused`, `client.py:285-288`).

**SyncPromise** says what that comes to for a client: a request is finished at
most once and counted once; a download puts one version of the requested file at
its destination; a failure may damage that file only.  `FileTransfer`
implements it with `pending` read as the ids that have a buffer (`PromiseSpec`).

**ServerAuth** has one action per access to `_challenges`: `verify_response` is
`ReadChallenge` and `FinishVerification`, `cleanup_timeouts` is `Wake`, one
`ScanNext` per entry iterated over, and one `DeleteNext` per removal.  The
iterator is modelled by what CPython checks (the dict's size when iteration
began), so that a concurrent insertion or deletion raises RuntimeError at the
next step, and deleting a removed key raises KeyError.  A session is a process;
two sessions may share a client id.  Reading a challenge that is gone leaves the
answer without a result (`auth.py:73`, variable `unanswered`).

**Handshake** is what that comes to: a challenge is a pair of nonce and client id, at
most one of an id is open, only an open one that a process of the id signed is granted,
which closes it, and a process trusts its connection only after one of its id was
granted; results go to all processes of an id, so not necessarily its own.
`ServerAuth` implements it (`PromiseSpec`): the entries of `_challenges` are what is
open, the responses in flight and the one being verified what is signed.

**ServerTree** gives each timer its thread.  A directory is read in one step,
directories one after the other, and storing, reading and publishing the tree are
steps of their own, as the lock is released in between.  `_fire` forgets
whichever timer is the current one (`watcher.py:60`), as the code does.  With
`OpenEvents` the platform reports the opening of files, as watchdog does on
Linux, and `Opened` makes of each scan an event.

**ClientSession** is one Python client object, its calls one after the other.
Handshake and transfer are shortened (the content of a file is one message) so
that connections can be lost anywhere.  paho connects again by itself, which the
code leaves on, and hello is said once on each connection.  `stop` ends the session, and a
message already published may be delivered later.  The subscription is a wildcard, so the
aborts of other clients' transfers are heard as well (`OtherClientAborted`); `overheard`
records that one of them ended this call's wait.  **CsClientSession** is the C# client: connection object, table
and result belong to the call, nothing connects again, `success` is computed
after closing, and an abort of an unknown transfer is ignored.  The variable
`program` says which of the two a behaviour is about, so that one run asks both
the same questions.

**PathRules**, **Wire** and **Deployment** hold what decides where a file goes.
PathRules translates patterns into sequences of parts, each the set of names its
glob accepts; `Matches` deals the names of a path out to the parts, which is what
the regular expression built by `_pattern_to_regex` does.  Wire has topics as
sequences of segments and the client's dispatcher as the list of its tests; the
constant `Decimal` is `str()` of the numbers that occur, and all that is assumed of
it is that different numbers have different texts, none of them a word of a topic.
Deployment is the operator's commands on configuration and key files, and what a
starting program reads of them.  **DataPath** composes the three: an operator
sets both programs up, or finds them running, the disk changes, watchers filter
the events, the server scans and publishes, and the client authenticates, asks,
receives and writes.  A *scene* is a record of everything the operator chooses
(directories, ignore files, client id, platform, later changes of the disk);
`Init` picks one.  The variable `missed` records that files which the server would list
changed and no watcher noticed, so that the properties of what is delivered speak of
the other behaviours, and `Unseen` says which changes those are.  A write of the client
fails where a file or directory is in the way (`InTheWay`), and may fail in the places
the scene calls `stuck`: then nothing is written, or any part of the file.
Timers, threads, losses, overtaking transfers and repeated calls are the subjects of the other modules: here a rebuild is one step, a tree
waits until the transfers of the last one are over, nothing is lost, and done is
handled after the chunks.


## The runs

| run | question | bounds |
|---|---|---|
| `transfer_faults` | whatever happens, is each request accounted for once, are files authentic, and does a sync that ends have or report every file, is no request forgotten without a fault; do transfers keep the promise of `SyncPromise` | one file, 2 ids, 2 threads, 2 chunks, any 3 of: 2 edits, 2 trees, a loss, a repetition, a foreign abort, a second process of the id, a failing write, a stop of the server |
| `transfer_live` | on a good network, does every request and the sync end, with every file | 2 files, one mapped from `clientmods/` to `mods/`, 3 ids, one edit, tree or failing write |
| `transfer_converges` (violated) | does the client end with the server's files | one file, one edit, two trees |
| `transfer_foreign_abort` (violated) | does a complete sync have a tree | one foreign abort |
| `auth` | which answers are accepted, why is a client refused, are stale challenges removed; does the handshake keep the promise of `Handshake` | 2 processes of one client, of two, or one not registered; one id may say hello twice; 2 instants, server may be interrupted |
| `auth_loop_dies` (violated) | does the service loop go on | 2 ids, 3 instants |
| `tree_watch` | is any change of a watched directory forgotten; is the retained tree right; do the watchers come to rest | 2 directories, 2 timer threads, 3 changes, also before watching, one publication of the network thread, a stop |
| `tree_current` (violated) | is the retained tree current once all is quiet | 2 directories, 2 changes |
| `tree_settles` (violated) | do the watchers come to rest where opening a file is an event | 2 directories, 1 change |
| `sessions` | why does `sync` go on, when does it need no timeout, what does `success` mean, does watching survive reconnects, for Python and C# | one file that may be refused; of calls, faults and a server stop any 2 (Python), any 3 (C#); one abort of another client |
| `session_watch` (violated) | does a watching client hear of the server's next tree | one server stop |
| `data_path` | does each published file arrive where it belongs, is each change noticed, is nothing asked for again, does the client come to rest and never wait in vain, who can change its files | 23 scenes, 5 file ids, chunks of 2 units, 2 keys, 2 key pairs |

Why the bounds are enough. Two threads, two ids and two chunks are the fewest
with which chunks of two transmissions can mix, and the orders of two transfers
differ; the three disturbances of `transfer_faults` allow an edit, a tree that
shows it, and a fault on top; one hello of a second process already brings an answer that
is accepted and one that is refused.  Two processes of one id and a second one
are what the hazards of the handshake need, and a dict of two entries is the
smallest one that can change during iteration.  Two directories with a timer each are the
smallest instance in which callbacks overlap, and three changes arm, cancel and re-arm.  In
`sessions` two events let a call follow one whose connection failed, and the C#
client, which cannot connect again, has room for a third; one foreign abort can end a
wait in each of its phases.  The scenes of
`data_path` are in `MCDataPath`: the first start from nothing; directories of one
name; contents of every length around the chunk size; `clientmods` against
`mods`; several directories; renaming, with and without events of directories;
patterns that prune, negate and anchor; files that cannot be sent, or cannot be written;
a file that becomes a directory, and files and directories in each other's way; and client
ids that clash with topics.  Two key pairs and two keys let a program run with an old
one; five ids serve the largest tree.  Operators and server end their work when
the client starts, since later changes of those files reach no running program;
what the client and the disk do afterwards is unrestricted.  `ChunkArithmetic`
is evaluated for lengths up to 7 and chunks of 1 to 4.  Every bound is a
CONSTANT whose comment says "bound"; `TypeOK` and the safety
properties that matter most are proved without them.

Fairness.  `FairSpec` of `FileTransfer`: executor threads, the network threads of
both programs and the broker's delivery; no disturbance is fair.  Of
`ServerAuth`: the clock and the main thread.  Of `ServerTree`: timers, observers,
main thread and the network thread once it has begun to publish; changes are
not fair.  Of the sessions: network thread and executor, that a
stopped server is started again, and the main thread once its event is set; nothing makes
the timeout pass, so what a session promises does not rest on it.  Of `DataPath`: that server and client take the
steps they can; operators and disks are not fair.  These are threads that the operating system
schedules and that wait for nothing but what their guards name.  Deadlock
checking is off in the runs because all of these systems may come to rest: a
synchronised client, a server without changes, a program that has ended.

## What the runs found

- `transfer_converges`: every tree makes the client ask for each file that
  differs, also one that is being transferred, and two executor threads may
  finish in the other order.  The older version then stays until the next tree.
  Against `README.md:3` of the repository, missing or changed files are fetched.
- `transfer_foreign_abort`: `_handle_file_abort` runs the completion check for
  unknown ids too (`client.py:417-425`), so the abort of another client's
  transfer completes a sync before its tree.  The C# client returns early.
- `auth_loop_dies`: `cleanup_timeouts` iterates over and deletes from a dict that
  the network thread changes; the exception ends the main thread.
- `tree_current`: two threads that rebuild or publish at a time may leave the older tree
  retained.  `RetainedUnlessOverlap` shows that overlap, or a change before the
  watcher starts, is the only cause.
- `tree_settles`: `dispatch` passes events of every kind (`watcher.py:72-83`), also
  the opening of files that watchdog reports on Linux, and a rebuild opens every
  file (`tree.py:142`): each rebuild causes the next, for ever.  Where opening is
  no event, `Settles` holds (`tree_watch`).
- `session_watch`: hello is said once per connection; if the server is down, a
  watching client stays connected without ever being authenticated.

Behaviour the modules include and that has no run of its own:

- A meta that is lost or late leaves the compressed bytes in the file
  (`client.py:330, 394`); `RawOnlyAfterFault` shows that it takes a loss or a
  repetition when order is kept.
- `cleanup_timeouts` deletes what it saw expired, also if the client said hello
  again in the meantime (`auth.py:89`); a `verify_response` between whose steps
  the entry is removed raises KeyError and leaves the client without a result
  (`auth.py:73`).  `RefusedForAReason` therefore speaks of clients with one hello.
- Changes between the first scan and the start of the watchers cause no event
  (`server.py:118` and `131-139`): variable `missed`.
- A second `sync()` of one object keeps `_chunk_buffers` of the first
  (`client.py:117-120`), and the last answer to an old request ends its wait
  before it has a tree: a disjunct of `CompletesForAReason`.  The C#
  client has a table for each call, and `CsCompletesForAReason` needs no such
  clause.  `NoTimeoutNeeded` therefore speaks of calls that find nothing left.
- The abort of another client's transfer ends the wait of a Python client that has
  asked for nothing yet, on a live connection, and the empty result counts as success
  (`client.py:417-433`): the last disjunct of `CompletesForAReason`, and `overheard` in
  `SuccessIsHonest`.  The C# client returns early (`McGoClient.cs:615-616`).
- A second process of one client id makes both answer the same challenge; the second
  answer is refused, and the refusal ends the other's sync with requests pending
  (`server.py:249-253`, `client.py:285-288`).  The result shows it in its errors, so
  `CompleteMeansSynced` names it (`refused`).
- A refused or lost connection ends the wait as well, with an empty result that
  counts as success (`client.py:136, 182, 200`; `McGoClient.cs:99, 154`):
  `SuccessIsHonest` excludes such calls, by `dropped`.
- The client never removes anything, so a file of the server that becomes a directory
  is never fetched: the old file is in the way, `makedirs` raises and each tree asks
  again (`client.py:403-413`, scene `Replaced`; the exception `Unwritten`).
- `StartWatchAsync` never connects again (`McGoClient.cs:159-261`): for C#
  `WatchSyncs` promises nothing after a fault.
- A base directory called `mods` applies the built-in rule to its own files only
  (`ignore.py:41`), so `mods/dir/server-x` is published; `README.md` of the
  repository says the whole tree under `mods/` is meant.  The C# client never looks at
  the base directory (`IgnoreRules.cs`, `IsBuiltinIgnored`).
- Clients called `done`, `abort` or `meta`, or with a slash in the name, never
  authenticate: their topics end like others (`client.py:226-242`), or have a
  segment too many for the server's filters (`PlainId`).
- Every tree makes the client ask again for a file that cannot be read, a link
  that leaves the directory (`server.py:302`), one of two files with one
  destination, a file in a directory its rules prune, which the diff does not
  prune (`tree.py:55, 129`), and for one whose write fails (`client.py:405-413`): the four
  exceptions of `NothingAskedTwice`.
- A file renamed from an ignored name goes unnoticed when no event of a directory
  gives it away (`Unseen`, `watcher.py:75`); rules such as `*` match the watched
  directory, whose path is `.`, too.
- A pattern that ends in a slash also matches a file (`ignore.py:67, 118`).
- `--gen-keys`, interrupted between its files, leaves a private key without its public
  half and refuses to run again (`cli.py:106-111`); the registry is read once
  (`auth.py:27`), so a client with a new pair is refused until the server starts
  again.

## The proofs

Eight modules hold them: `FileTransferProofs` and `FileTransferSync`,
`ServerAuthProofs`, `ServerTreeProofs`, `SessionProofs` (both clients), `WireProofs`,
`DataPathProofs` and, built on it, `DataPathDelivery`.  They prove, from the ASSUMEs of
the modules alone and thus for all files, ids, threads, chunks, directories, rules,
scenes and bounds:

- `TypeCorrect`: `TypeOK` of `FileTransfer` is inductive; one lemma per group of
  actions.
- `ContentIsAuthentic` and `DamageIsReported`: `AuthenticContent` is not
  inductive, since it says nothing of bytes on their way.  `IInv` adds `Origin`:
  requests, queued and running jobs, messages and stored chunks of a file id all
  name the path the id was drawn for, and what was encrypted is a version on
  record.  With it, and because AES-GCM accepts all the chunks of one encryption and no
  less (`Decrypts`), `_handle_file_done` can only write what `AuthenticContent`
  allows, in whatever order and number messages arrive: never a mixture.
- `AccountIsExact`: `downloaded[l] + failed[l]` is the number of finished
  requests for `l`.  The step that counts removes exactly one buffer; the
  cardinality of the set of finished ids grows by one, by the library's theorems
  on finite sets, and no id is drawn twice.
- `KeepsPromise`: `FileTransfer` implements `SyncPromise` (`PromiseSpec`).  With
  `IInv` a handled tree is an `Ask` under fresh ids, a done or abort of a pending
  id a `Download` or `Fail` of that id at its destination, and the rest a
  `Change` or a stutter.
- `RawIsAfterFault`: `RawOnlyAfterFault`, while nothing was lost or repeated and a job's
  messages keep their order (`Clean`).  `RInv` says that a file id then waits in one
  place and is encrypted for once (`OneJob`), and that whoever has sent or stored a chunk
  has its meta still under way before it, merged, or without a buffer (`MetaFirst`).
- `CompleteIsSynced`: `CompleteMeansSynced`, about the step that ends a sync while the
  server's files stay as they are (`Quiet`); that the sync was refused an answer, or heard
  of another client's abort before it had a tree, are its two exceptions.  `QInv`:
  everything on its way is of the first versions, and once a tree was handled each of its
  files has arrived, was reported, or has a buffer (`Accounted`), so with no buffer left all
  have been dealt with, whatever losses, repetitions and stops did.
- `NothingIsForgotten`: `NothingForgotten`, the safe half of `EveryRequestFinishes`.  Each
  buffer has a request, a job, a thread or its last message (`UnderWay`); only a loss, a
  stop, or a request dropped during a challenge takes the last of these away, and without
  a hello no challenge is open (`FInv`).  What is left to liveness is that threads and
  broker go on.
- `AuthTypeCorrect`, `AcceptedStaysGone` and `AcceptsOnlyNewest`: types of
  `ServerAuth`, `AcceptedIsGone` and `OnlyNewestAccepted`.  `IInv` adds that each
  entry of `_challenges` is the newest of its id, and that the one
  `verify_response` has read still is (`NetNewest`): hellos and answers share the
  network thread, so none is handled in between.  Newest-per-id gives entries of
  other ids other nonces, whatever the service loop removes.
- `HandshakeKept`: `ServerAuth` implements `Handshake`.  `HonestMail` says that a process
  is only sent challenges of its id, and a success only once one of these was accepted.
  With `IInv` a hello is a `Challenge` with a fresh nonce, `FinishVerification` a `Grant`
  of the open challenge or a `Discard`, what the service loop deletes a `Close`.
- `OnlyTheLateAreRefused`: `RefusedForAReason`.  `OneHelloOf` follows the one hello
  of an id through hello, challenge, answer, verification and result, one of them at
  a time and all for one session (`Single`); until the challenge is late its entry
  stays, because what the service loop calls expired is (`LoopHonest`).  Steps for
  other ids leave the account alone (`SameFor`).
- `TreeTypeCorrect`: `TypeOK` of `ServerTree`, which includes that the `_timer` of
  a watcher is a timer that has not called back.  It needs `Started`: no timer
  runs before the first tree is there.
- `ChangesAreCovered`: `ChangeCovered` is not preserved by starting a watcher
  unless the directory was read as it is, or its change is in `missed`; this is
  `UnwatchedRead`.  The theorem is the argument that the debounce (cancel,
  re-arm, forget the newer timer) never loses the last change.
- `StaleNeedsOverlap`: `RetainedUnlessOverlap`.  `Retaining` says that, as long as
  nothing overlapped, one thread at a time rebuilds or publishes (`Alone`), and
  that what it holds is what was read last (`Latest`); at rest `ChangeCovered`
  makes that the disk.  With the finding `tree_current` it says that the
  missing lock around `_publish_tree` is the only cause of a stale tree.
- `SessionTypeCorrect`: types of both clients, whose common specification is
  `EitherSpec`.  `Offline` (an object that neither waits nor watches has no
  connection) and `OldIds` (every id of this client is of a tree already handled) make the
  inductive step go through.
- `SuccessMeansSynced`: `SuccessIsHonest`.  `Answering` is the reason it holds for
  the Python client: every request, running job and end of a transfer on its way is
  of a pending id, in one of these stages at a time, so `_handle_file_abort` and
  `_handle_file_done` always find their buffer, unless the abort is another client's,
  which `overheard` records if it ends the wait.  With it, a wait that ended has an
  explanation (`Explained`) and a success keeps it.
- `CompletionHasAReason` and `CsCompletionHasAReason`: from the same invariant and
  `Calls`, which says that all buffers of the C# client are of the running call.
  The Python client has two reasons more, the answer to the last `Leftover` request and,
  with no buffer, another client's abort.
- `KeyFilesBelongTogether`: `KeysBelongTogether` is not inductive as it stands,
  since a run of `--gen-keys` separates the files; `KeysInv` says that while it
  runs the pair being made is the private key's.  `StepsDeploy` shows that every
  step of `DataPath` is a step of `Deployment` or leaves its files alone.
- `ChunksRejoin`, `FileTopicsRouted` and `AuthTopicsRouted`: the operators of
  `Wire` for every input.  What `chunk_data` cuts at any size `reassemble_chunks` puts
  together again, by induction over the chunks for the prefix they cover
  (`SetInduction`, `ReassembleLoop`); each message a program builds is dispatched to the
  handler it was meant for and gives back its file id and number, with exactly the ids named
  in the theorems as exceptions.
- `PathTyped` and `MessagesAreRouted`: `TypeOK` and `MessagesRouted` of `DataPath`, from
  `PathInv`, the invariant of the composition.  Its parts are the files and programs
  (`DeployInv`), the disk (`DiskInv`), that each published path has one file that it resolves
  to (`TreesInv`), the versions on record (`VersionsInv`), the one authentication message on
  its way (`AuthInv`) and the transfers (`TransferInv`): each buffer's messages and stored
  chunks are together one request, one refusal, or exactly the chunks of one version.
- `WritesAreRight`: `WritesBelong`.  By `TransferInv` a done finds the chunks of one version
  under the server's key, which `ChunksRejoin` and the lemma `SealOpens` turn into its content;
  a write that fails puts a part of it in a `stuck` place and reports that place.
- `PlacesAreApart` and `PublishedIsServed`: the mapping gives two paths one place only if
  they are `clientmods/x` and `mods/x`, and `_resolve_scan_entry` finds for each path that
  `_build_tree` lists the file whose hash the tree has.  So the exception `Collides` of the next two theorems is
  about these two names alone.
- `FilesAreDelivered` and `NothingIsAskedTwice`: `Delivered` and `NothingAskedTwice`.
  `CurrentInv` says that a tree whose changes were all noticed shows the disk's listed
  files, and `FreshInv` that a file the newest tree, once handled, names is on the client or on its way
  in that version (`On`), unless it is not `Due`.  The hard step is `HandleFileDone`: it
  writes a file's place, or fails to and reports it (`Unwritten`), and only files with that
  place may lose it (`Written`, `SettledKept`).
- `NobodyWaitsInVain`: `SilenceIsRest`, the safe half of `SyncFinishes`.  `EntryInv` says
  that the handshake of a client with a registered pair has its next message on the way and
  its challenge open, and that an accepted client has the newest tree before it or behind it;
  by `TransferInv` each buffer has a message.  It speaks of a server that has a tree, since
  nothing tells the placeholder `NoTree` from a tree for all scenes.
- `NoChangeEscapes`: every change of the merged tree is noticed, but for moves of
  which nothing is seen.  The argument is about all rules at once: a file the
  filter ignores is not listed (`UnlistedWrite`, `UnlistedRemoval`), so writing or
  removing it leaves the scan, and the merge of all scans, as it was.

Only model-checked: liveness (`EveryRequestFinishes`, `SyncCompletes`,
`StaleRemoved`, `ChangeRead`, `Settles`, `NoTimeoutNeeded`, `WatchSyncs`,
`SyncFinishes`), which rests on fairness and ENABLED and is out of the prover's
reach.  Every other property of the passing runs is a theorem.  The recursive function
in `Reassemble` could be reasoned about by induction stated with a set, as
`SetInduction` does; the library's theorems that take an operator are beyond the
installed provers.  `ChunkCount` has no theorem: nothing else uses it, and
`ChunkArithmetic` compares it with `ChunkData`.

## What is left out

Payload formats, logging, status messages and the announcement (they change no
state any program reads), sizes and times in the tree, damaged key files, and
settings that pass through the configuration unchanged.  Of the patterns: `**`
inside a name or next to another `**`, and empty patterns.  In `DataPath`
compression and the order of meta, chunks and done, which are `FileTransfer`'s, and
a second copy of the tree after acceptance, which is `ClientSession`'s; also the events
that a scan causes where opening a file is one (`tree_settles`), so that `SyncFinishes`
speaks of platforms where it is none.  An error of the disk is caught
within the scan, file by file (`tree.py:82`, modelled); one of any other kind would keep
the old tree, publish it again, and leave the change to the next event
(`server.py:395-396`), which `ServerTree` and `DataPath` leave out.  `gen-keys` looks for the private key and
saves it in one step (`cli.py:106-110`), and only one `gen-keys` runs at a time.  The path
that the watcher filters by has its backslashes replaced (`watcher.py:78`), which on
sequences of segments is the identity.  A file is
read in one step, so a file torn by a concurrent writer is not modelled.  MQTT
itself, watchdog, paho, MQTTnet and the operating system are external: the modules
assume of them what the code's use of them needs, as their comments say.  The C#
client's scan, chunks and metadata are not modelled message by message, and its
configuration loader not at all.

## Plan

Done, in this order: `FileTransfer` with `SyncPromise` and its proofs;
`ServerAuth` and `ServerTree` and their proofs; `ClientSession` and `CsClientSession`
with their proofs; `PathRules`, `Wire` and `Deployment`, composed by `DataPath`, with its
proofs; `Handshake`, which `ServerAuth` implements; `FileTransferSync`, `WireProofs` and
`DataPathDelivery`, with which every safety and action property of the passing runs is
a theorem.

Left: torn reads as a refinement of `ServerTree`'s `Scan`.
