---------------------------- MODULE ClientSession ----------------------------
(***************************************************************************)
(* The life of one McGoClient object: repeated calls of sync, which waits  *)
(* on the main thread while the MQTT network thread works, or start_watch  *)
(* (client.py sync, start_watch, stop, _on_connect, _on_disconnect); the   *)
(* connection that is refused, lost and made again; and a server process   *)
(* that stops and starts again.  What such an object keeps from one        *)
(* connection, and from one call, to the next is what this module is       *)
(* about.                                                                  *)
(*                                                                         *)
(* The handshake and a transfer are those of ServerAuth and FileTransfer,  *)
(* shortened: challenges do not expire, the content of a file is one       *)
(* message that the broker hands over before its done, and the server's    *)
(* files do not change.  A file id names the tree it was drawn for, by     *)
(* number, and the file; tree 0 stands for another client, whose aborts    *)
(* every subscriber of server/file/+/abort receives.                       *)
(***************************************************************************)
EXTENDS Integers, FiniteSets

CONSTANTS
    Languages,      \* the client programs looked at: "Python", "C#"
    Files,          \* files of the server's tree that the client lacks
    MaxCalls,       \* bound: calls of sync
    MaxFaults,      \* bound: connections refused or lost
    MaxStops,       \* bound: stops of the server
    MaxTotal,       \* bound: all of these together, for each language
    MaxForeign,     \* bound: aborts of other clients' transfers
    MayQuit         \* whether start_watch may be interrupted

ASSUME FilesAssumption == IsFiniteSet(Files)
ASSUME BoundsAssumption ==
    /\ {MaxCalls, MaxFaults, MaxStops, MaxForeign} \subseteq Nat
    /\ MaxTotal \in [Languages -> Nat]
    /\ MayQuit \in BOOLEAN

VARIABLES
    program,        \* its language, and which of sync and start_watch it calls
    main,           \* the main thread
    conn,           \* the connection: none, CONNECT sent, or accepted
    subscribed,     \* the tree and file topics are subscribed on it
    complete,       \* _sync_complete
    result,         \* _sync_result
    buffers,        \* file ids in _chunk_buffers: with, and without content
    missing,        \* files that are not on the client's disk as in the tree
    toServer,       \* channel: messages of the client
    toClient,       \* channel: messages of the broker on this connection
    serverUp,       \* the server process is connected
    challenge,      \* server: the nonce of the open challenge, 0 for none
    jobs,           \* server: file ids being sent, by what comes next
    refused,        \* server: files that _send_file aborts
    trees,          \* history: trees handled
    since,          \* history: trees handled when this call began
    dropped,        \* history: this call's connection was refused or lost
    overheard,      \* history: another client's abort ended this call's wait
    nonces,         \* history: challenges issued
    count           \* bounds: how often each bounded action was taken

clientVars == <<subscribed, complete, result, buffers, missing, trees, overheard>>
serverVars == <<serverUp, challenge, jobs, refused, nonces>>
callVars == <<program, main, since, dropped>>
vars == <<program, main, conn, subscribed, complete, result, buffers, missing, toServer,
          toClient, serverUp, challenge, jobs, refused, trees, since, dropped, overheard,
          nonces, count>>

Fid == [tree : Nat, file : Files]
Hello == [kind : {"hello"}, nonce : Nat]
Response == [kind : {"response"}, nonce : Nat]
Request == [kind : {"request"}, fid : Fid]
Challenge == [kind : {"challenge"}, nonce : Nat]
AuthResult == [kind : {"result"}, success : BOOLEAN]
TreeMessage == [kind : {"tree"}]
Transfer == [kind : {"content", "done", "abort"}, fid : Fid]

Counted == {"calls", "faults", "stops", "foreign", "total"}
Spend(what, bound) ==
    /\ count[what] < bound /\ count["total"] < MaxTotal[program.language]
    /\ count' = [count EXCEPT ![what] = @ + 1, !["total"] = @ + 1]

Errors == {"connect", "timeout", "auth"}
NoResult == [downloaded |-> {}, failed |-> {}, errors |-> {}, success |-> FALSE]

Init ==
    /\ program \in [language : Languages, call : {"sync", "watch"}]
    /\ main = "idle"
    /\ conn = "none"
    /\ subscribed = FALSE /\ complete = FALSE
    /\ result = NoResult
    /\ buffers = [empty |-> {}, full |-> {}]
    /\ missing = Files
    /\ toServer = {} /\ toClient = {}
    /\ serverUp = TRUE
    /\ refused \in SUBSET Files
    /\ challenge = 0 /\ nonces = 0
    /\ jobs = [content |-> {}, done |-> {}]
    /\ trees = 0 /\ since = 0
    /\ dropped = FALSE /\ overheard = FALSE
    /\ count = [what \in Counted |-> 0]

Pending == buffers.empty \union buffers.full
Running == main \in {"wait", "measured", "watch"}

-----------------------------------------------------------------------------
(* The main thread.                                                        *)

\* sync up to the wait; connect may raise.
Call ==
    /\ program.call = "sync" /\ main = "idle" /\ Spend("calls", MaxCalls)
    /\ complete' = FALSE
    /\ since' = trees /\ dropped' = FALSE /\ overheard' = FALSE
    /\ \/ conn' = "asked" /\ main' = "wait" /\ result' = NoResult
       \/ conn' = "none" /\ main' = "idle" /\ result' = [NoResult EXCEPT !.errors = {"connect"}]
    /\ UNCHANGED <<program, subscribed, buffers, missing, toServer, toClient, trees>>
    /\ UNCHANGED serverVars

SuccessMutant(res) == res.failed = {}   \* mutant: errors are not looked at
\* The condition of _sync_result.success.
Success(res) == res.downloaded # {} \/ (res.failed = {} /\ res.errors = {})

\* _sync_complete.wait(timeout) returns, because the event is set or because it
\* gets too late; sync up to success, while the network thread goes on.
WaitOver ==
    /\ main = "wait"
    /\ main' = "measured"
    /\ LET res == IF complete THEN result ELSE [result EXCEPT !.errors = @ \union {"timeout"}]
       IN  result' = [res EXCEPT !.success = Success(res)]
    /\ UNCHANGED <<program, conn, subscribed, complete, buffers, missing, toServer, toClient,
                   trees, since, dropped, overheard, count>>
    /\ UNCHANGED serverVars

LoseSessionMutant == UNCHANGED <<subscribed, toClient>>   \* mutant: clean_session=False
\* The broker forgets a clean session with its subscriptions and messages.
LoseSession == subscribed' = FALSE /\ toClient' = {}

\* loop_stop joins the network thread; disconnect ends the session and calls
\* _on_disconnect.  A message the broker has not acknowledged stays with
\* the paho object, which sends it on its next connection.
HangUp ==
    /\ conn' = "none" /\ LoseSession
    /\ complete' = (complete \/ conn # "none")
    /\ UNCHANGED <<program, result, buffers, missing, toServer, trees, since, dropped,
                   overheard, count>>
    /\ UNCHANGED serverVars

\* The end of sync.
Return == main = "measured" /\ main' = "idle" /\ HangUp

\* start_watch; when connect raises the process exits.
StartWatch ==
    /\ program.call = "watch" /\ main = "idle"
    /\ main' = "watch" /\ conn' = "asked"
    /\ UNCHANGED <<program, since, dropped, toServer, toClient, count>>
    /\ UNCHANGED clientVars /\ UNCHANGED serverVars

\* KeyboardInterrupt: stop.
Quit == MayQuit /\ main = "watch" /\ main' = "quit" /\ HangUp

-----------------------------------------------------------------------------
(* The connection, on the network thread.                                  *)

\* Tells one connection from another: each follows a call or a lost one.
Connection == count["calls"] + count["faults"]

\* _on_connect, accepted: subscribe to this client's topics and say hello.
OnConnect ==
    /\ Running /\ conn = "asked"
    /\ conn' = "up"
    /\ toServer' = toServer \union {[kind |-> "hello", nonce |-> Connection]}
    /\ UNCHANGED <<toClient, count>>
    /\ UNCHANGED callVars /\ UNCHANGED clientVars /\ UNCHANGED serverVars

\* _on_connect with an error code, or _on_disconnect: the event is set.
OnDisconnect ==
    /\ Running /\ conn # "none" /\ Spend("faults", MaxFaults)
    /\ conn' = "none" /\ LoseSession
    /\ complete' = TRUE
    /\ dropped' = TRUE
    /\ UNCHANGED <<program, main, since, result, buffers, missing, toServer, trees, overheard>>
    /\ UNCHANGED serverVars

\* The network thread of paho connects again.
Reconnect ==
    /\ Running /\ conn = "none"
    /\ conn' = "asked"
    /\ UNCHANGED <<toServer, toClient, count>>
    /\ UNCHANGED callVars /\ UNCHANGED clientVars /\ UNCHANGED serverVars

-----------------------------------------------------------------------------
(* The client's handlers, on the network thread.                           *)

\* A message is handled; sent and got are what the handler makes the channels.
Handle(m, sent, got) ==
    /\ Running /\ conn = "up" /\ m \in toClient
    /\ toClient' = (toClient \ {m}) \union got
    /\ toServer' = toServer \union sent
    /\ UNCHANGED <<conn, count>>
    /\ UNCHANGED callVars /\ UNCHANGED serverVars

\* _handle_challenge
HandleChallenge(m) ==
    /\ m.kind = "challenge"
    /\ Handle(m, {[kind |-> "response", nonce |-> m.nonce]}, {})
    /\ UNCHANGED clientVars

SubscribeMutant == {}   \* mutant: the tree topic is forgotten
\* The broker's answer to the subscription of the tree topic: the tree retained.
Subscribe == TreeMessage

\* _handle_auth_result
HandleAuthResult(m) ==
    /\ m.kind = "result"
    /\ IF m.success
       THEN /\ Handle(m, {}, Subscribe)
            /\ subscribed' = TRUE
            /\ UNCHANGED <<complete, result>>
       ELSE /\ Handle(m, {}, {})
            /\ result' = [result EXCEPT !.errors = @ \union {"auth"}]
            /\ complete' = TRUE
            /\ UNCHANGED subscribed
    /\ UNCHANGED <<buffers, missing, trees, overheard>>

\* _handle_tree and _request_file
HandleTree(m) ==
    /\ m.kind = "tree"
    /\ LET fids == {[tree |-> trees + 1, file |-> f] : f \in missing}
       IN  /\ Handle(m, {[kind |-> "request", fid |-> i] : i \in fids}, {})
           /\ buffers' = [buffers EXCEPT !.empty = @ \union fids]
    /\ trees' = trees + 1
    /\ complete' = (complete \/ missing = {})
    /\ UNCHANGED <<subscribed, result, missing, overheard>>

\* _handle_file_meta and _handle_file_chunk, for all the chunks.
HandleContent(m) ==
    /\ m.kind = "content"
    /\ Handle(m, {}, {})
    /\ buffers' = IF m.fid \in buffers.empty
                  THEN [empty |-> buffers.empty \ {m.fid},
                        full |-> buffers.full \union {m.fid}]
                  ELSE buffers
    /\ UNCHANGED <<subscribed, complete, result, missing, trees, overheard>>

Unbuffer(i) == [empty |-> buffers.empty \ {i}, full |-> buffers.full \ {i}]

CheckSyncCompleteMutant(i) == complete' = TRUE   \* mutant: other buffers are not looked at
CheckSyncCompleteMutant2(i) == UNCHANGED complete   \* mutant: the event is not set
\* _check_sync_complete, once the buffer of i is gone.
CheckSyncComplete(i) == complete' = (complete \/ Pending \subseteq {i})

\* _handle_file_done: what was sent on an earlier connection is not there.
HandleFileDone(m) ==
    /\ m.kind = "done" /\ [m EXCEPT !.kind = "content"] \notin toClient
    /\ Handle(m, {}, {})
    /\ \/ m.fid \notin Pending /\ UNCHANGED <<complete, result, buffers, missing>>
       \/ /\ m.fid \in buffers.full
          /\ missing' = missing \ {m.fid.file}
          /\ result' = [result EXCEPT !.downloaded = @ \union {m.fid.file}]
          /\ buffers' = Unbuffer(m.fid)
          /\ CheckSyncComplete(m.fid)
       \/ /\ m.fid \in buffers.empty
          /\ result' = [result EXCEPT !.failed = @ \union {m.fid.file}]
          /\ buffers' = Unbuffer(m.fid)
          /\ CheckSyncComplete(m.fid)
          /\ UNCHANGED missing
    /\ UNCHANGED <<subscribed, trees, overheard>>

\* _handle_file_abort: with no buffer left, also an unknown file id sets the event.
HandleFileAbort(m) ==
    /\ m.kind = "abort"
    /\ Handle(m, {}, {})
    /\ result' = IF m.fid \in Pending
                 THEN [result EXCEPT !.failed = @ \union {m.fid.file}] ELSE result
    /\ buffers' = Unbuffer(m.fid)
    /\ CheckSyncComplete(m.fid)
    /\ overheard' = (overheard \/ (main = "wait" /\ ~complete /\ m.fid.tree = 0 /\ Pending = {}))
    /\ UNCHANGED <<subscribed, missing, trees>>

-----------------------------------------------------------------------------
(* The server.                                                             *)

\* A message of the client is handled, and ms published; subscribers are the
\* clients that get them.
Serve(m, ms, subscriber) ==
    /\ serverUp /\ m \in toServer
    /\ toServer' = toServer \ {m}
    /\ toClient' = IF subscriber THEN toClient \union ms ELSE toClient
    /\ UNCHANGED <<conn, count, serverUp, refused>>
    /\ UNCHANGED callVars /\ UNCHANGED clientVars

\* _handle_hello
HandleHello(m) ==
    /\ m.kind = "hello"
    /\ Serve(m, {[kind |-> "challenge", nonce |-> nonces + 1]}, conn = "up")
    /\ nonces' = nonces + 1
    /\ challenge' = nonces + 1
    /\ UNCHANGED jobs

\* _handle_auth_response; a client that is accepted gets the tree.
HandleAuthResponse(m) ==
    /\ m.kind = "response"
    /\ IF challenge = m.nonce
       THEN /\ Serve(m, {[kind |-> "result", success |-> TRUE]}
                          \union (IF subscribed THEN TreeMessage ELSE {}), conn = "up")
            /\ challenge' = 0
       ELSE /\ Serve(m, {[kind |-> "result", success |-> FALSE]}, conn = "up")
            /\ UNCHANGED challenge
    /\ UNCHANGED <<jobs, nonces>>

\* _handle_file_request: dropped while a challenge is open.
HandleFileRequest(m) ==
    /\ m.kind = "request"
    /\ \/ challenge # 0 /\ Serve(m, {}, FALSE) /\ UNCHANGED jobs
       \/ /\ challenge = 0 /\ m.fid.file \in refused
          /\ Serve(m, {[kind |-> "abort", fid |-> m.fid]}, subscribed)
          /\ UNCHANGED jobs
       \/ /\ challenge = 0 /\ m.fid.file \notin refused
          /\ Serve(m, {}, FALSE)
          /\ jobs' = [jobs EXCEPT !.content = @ \union {m.fid}]
    /\ UNCHANGED <<challenge, nonces>>

\* A thread of _send_file publishes the content, then done.
SendFile(i) ==
    /\ serverUp
    /\ \E kind \in {"content", "done"} :
         /\ i \in jobs[kind]
         /\ jobs' = IF kind = "content"
                    THEN [content |-> jobs.content \ {i}, done |-> jobs.done \union {i}]
                    ELSE [jobs EXCEPT !.done = @ \ {i}]
         /\ toClient' = IF subscribed
                        THEN toClient \union {[kind |-> kind, fid |-> i]} ELSE toClient
    /\ UNCHANGED <<conn, toServer, serverUp, challenge, refused, nonces, count>>
    /\ UNCHANGED callVars /\ UNCHANGED clientVars

\* stop, or a crash.
ServerStop ==
    /\ serverUp /\ Spend("stops", MaxStops)
    /\ serverUp' = FALSE /\ challenge' = 0 /\ jobs' = [content |-> {}, done |-> {}]
    /\ UNCHANGED <<conn, toServer, toClient, refused, nonces>>
    /\ UNCHANGED callVars /\ UNCHANGED clientVars

\* _send_file aborts the request of another client.
OtherClientAborted(f) ==
    /\ serverUp /\ count["foreign"] < MaxForeign
    /\ count' = [count EXCEPT !["foreign"] = @ + 1]
    /\ toClient' = IF subscribed
                   THEN toClient \union {[kind |-> "abort", fid |-> [tree |-> 0, file |-> f]]}
                   ELSE toClient
    /\ UNCHANGED <<conn, toServer>>
    /\ UNCHANGED callVars /\ UNCHANGED clientVars /\ UNCHANGED serverVars

\* start: the tree is published again once the server is connected.
ServerStart ==
    /\ ~serverUp
    /\ serverUp' = TRUE
    /\ toClient' = IF subscribed THEN toClient \union TreeMessage ELSE toClient
    /\ UNCHANGED <<conn, toServer, challenge, jobs, refused, nonces, count>>
    /\ UNCHANGED callVars /\ UNCHANGED clientVars

\* The broker keeps nothing for a server that is not there.
NobodyListens(m) ==
    /\ ~serverUp /\ m \in toServer
    /\ toServer' = toServer \ {m}
    /\ UNCHANGED <<conn, toClient, count>>
    /\ UNCHANGED callVars /\ UNCHANGED clientVars /\ UNCHANGED serverVars

-----------------------------------------------------------------------------
MainStep == WaitOver \/ Return \/ StartWatch

NetStep ==
    \/ OnConnect \/ Reconnect
    \/ \E m \in toClient :
         \/ HandleChallenge(m) \/ HandleAuthResult(m) \/ HandleTree(m)
         \/ HandleContent(m) \/ HandleFileDone(m) \/ HandleFileAbort(m)

ServerStep ==
    \/ \E m \in toServer : HandleHello(m) \/ HandleAuthResponse(m) \/ HandleFileRequest(m)
    \/ \E i \in jobs.content \union jobs.done : SendFile(i)

Next ==
    \/ Call \/ MainStep \/ Quit
    \/ NetStep \/ OnDisconnect
    \/ ServerStep \/ ServerStop \/ ServerStart
    \/ \E f \in Files : OtherClientAborted(f)
    \/ \E m \in toServer : NobodyListens(m)

Spec == Init /\ [][Next]_vars

\* The main thread goes on once it is told to; the timeout may be any length.
PromptStep == (complete /\ WaitOver) \/ Return \/ StartWatch

\* The threads of both programs run, and a stopped server is started again.
FairSpec ==
    /\ Spec
    /\ WF_vars(PromptStep) /\ WF_vars(NetStep) /\ WF_vars(ServerStep) /\ WF_vars(ServerStart)

-----------------------------------------------------------------------------
(* Properties.                                                             *)

\* Every variable has its type; what a broker keeps for a clean session is
\* there only on an accepted connection; a buffer has content or has not.
TypeOK ==
    /\ program \in [language : Languages, call : {"sync", "watch"}]
    /\ main \in {"idle", "wait", "measured", "watch", "quit"}
    /\ conn \in {"none", "asked", "up"}
    /\ {subscribed, complete, serverUp, dropped, overheard} \subseteq BOOLEAN
    /\ result \in [downloaded : SUBSET Files, failed : SUBSET Files,
                   errors : SUBSET Errors, success : BOOLEAN]
    /\ buffers \in [empty : SUBSET Fid, full : SUBSET Fid]
    /\ buffers.empty \intersect buffers.full = {}
    /\ conn # "up" => ~subscribed /\ toClient = {}
    /\ missing \subseteq Files /\ refused \subseteq Files
    /\ toServer \subseteq Hello \union Response \union Request
    /\ toClient \subseteq Challenge \union AuthResult \union TreeMessage \union Transfer
    /\ challenge \in Nat /\ {trees, since, nonces} \subseteq Nat
    /\ jobs \in [content : SUBSET Fid, done : SUBSET Fid]
    /\ count \in [Counted -> Nat]

\* The buffers of this call, and those an earlier call left behind.
Own == {i \in Pending : i.tree > since}
Leftover == Pending \ Own

\* While sync waits, it is told to go on only when the connection failed, an
\* error is in its result, or it handled a tree and every file it asked for is
\* there or dealt with; when the last of the requests that an earlier call of the
\* same object left behind is answered; or, in the Python client, when it hears
\* of another client's abort and has asked for nothing.
CompletesForAReason ==
    [][main' = "wait" /\ complete' /\ (~complete \/ main # "wait") =>
         \/ dropped'
         \/ result'.errors # {}
         \/ trees' > since' /\ (missing' = {} \/ Own' = {})
         \/ Leftover # {} /\ Pending' = {}
         \/ /\ program.language = "Python" /\ Pending = {}
            /\ \E m \in toClient \ toClient' : m.kind = "abort" /\ m.fid.tree = 0]_vars

\* A call that returns success, and neither lost its connection nor was ended by
\* another client's abort, has fetched a file, or every file was there.
SuccessIsHonest ==
    main = "idle" /\ count["calls"] > 0 /\ result.success /\ ~dropped /\ ~overheard =>
        result.downloaded # {} \/ missing = {}

\* A call that begins with nothing left of earlier ones, neither a chunk buffer
\* nor a message to the server, needs no timeout: as long as its connection and
\* the server last, something ends its wait, whatever the server still sends for
\* the earlier calls.
NoTimeoutNeeded ==
    main = "wait" /\ conn = "asked" /\ Pending = {} /\ toServer = {} ~>
        complete \/ main # "wait" \/ dropped \/ ~serverUp

\* client.py:147, "stay connected and react to tree updates": once the server
\* is back, a watching client gets the files of its tree.
WatchReacts ==
    program.call = "watch" /\ serverUp ~> missing \subseteq refused \/ ~serverUp

=============================================================================
