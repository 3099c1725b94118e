--------------------------- MODULE CsClientSession ---------------------------
(***************************************************************************)
(* The life of one McGoClient object of the C# library (McGoClient.cs):    *)
(* ClientSession with the other client.  Each SyncAsync makes a connection *)
(* object, a result and a transfer table of its own; nothing connects      *)
(* again; and success is computed after the connection is closed.  The     *)
(* handlers run one at a time, as MQTTnet awaits each before the next      *)
(* message, and do what the Python ones do but for an abort of an unknown  *)
(* transfer.  complete is syncDone; in watch mode there is none, and       *)
(* nothing reads the variable.  The specification is that of either        *)
(* client, so that one run compares the two.                               *)
(***************************************************************************)
EXTENDS ClientSession

FreshMutant == UNCHANGED buffers   \* mutant: one table for all calls
\* transfers = new ConcurrentDictionary
Fresh == buffers' = [empty |-> {}, full |-> {}]

\* SyncAsync up to ConnectAsync.
CsCall ==
    /\ program.call = "sync" /\ main = "idle" /\ Spend("calls", MaxCalls)
    /\ Fresh
    /\ main' = "wait" /\ conn' = "asked" /\ result' = NoResult /\ complete' = FALSE
    /\ since' = trees /\ dropped' = FALSE /\ overheard' = FALSE
    /\ UNCHANGED <<program, subscribed, missing, toServer, toClient, trees>>
    /\ UNCHANGED serverVars

\* ConnectAsync and WaitAsync are over: done, or the token is cancelled.
CsWaitOver ==
    /\ main = "wait"
    /\ main' = "measured"
    /\ result' = IF complete THEN result
                 ELSE [result EXCEPT !.errors = @ \union {"timeout"}]
    /\ UNCHANGED <<program, conn, subscribed, complete, buffers, missing, toServer, toClient,
                   trees, since, dropped, overheard, count>>
    /\ UNCHANGED serverVars

\* The condition of result.Success.
CsSuccess(res) == res.downloaded # {} \/ (res.failed = {} /\ res.errors = {})

\* What a handler was still publishing, the requests of a tree one after the
\* other, may not get out, and nothing repeats it.
MayLose == \E kept \in SUBSET toServer : toServer' = kept

\* The end of SyncAsync: disconnect, dispose, then success.
CsReturn ==
    /\ main = "measured"
    /\ main' = "idle"
    /\ conn' = "none" /\ LoseSession /\ MayLose
    /\ result' = [result EXCEPT !.success = CsSuccess(result)]
    /\ UNCHANGED <<program, complete, buffers, missing, trees, since, dropped, overheard,
                   count>>
    /\ UNCHANGED serverVars

\* StartWatchAsync up to ConnectAsync.
CsStartWatch == StartWatch

\* Stop, and DisposeAsync.
CsStop == Quit

-----------------------------------------------------------------------------
(* The connection.                                                         *)

\* ConnectedAsync: subscribe and say hello.
CsConnected == OnConnect

\* ConnectAsync, or a call in ConnectedAsync, throws.  StartWatchAsync passes
\* on the first and logs the second.
CsConnectFailed ==
    /\ Running /\ conn = "asked" /\ Spend("faults", MaxFaults)
    /\ conn' = "none"
    /\ \/ /\ main # "watch"
          /\ result' = [result EXCEPT !.errors = @ \union {"connect"}]
          /\ complete' = TRUE
          /\ UNCHANGED main
       \/ main = "watch" /\ main' \in {"watch", "quit"} /\ UNCHANGED <<result, complete>>
    /\ UNCHANGED <<program, subscribed, buffers, missing, toServer, toClient, trees, since,
                   dropped, overheard>>
    /\ UNCHANGED serverVars

\* DisconnectedAsync: the wait is over.  StartWatchAsync goes on unless it was
\* publishing its status, which throws.
CsDisconnected ==
    /\ Running /\ conn = "up" /\ Spend("faults", MaxFaults)
    /\ conn' = "none" /\ LoseSession /\ MayLose
    /\ main' \in {main} \union (IF main = "watch" THEN {"quit"} ELSE {})
    /\ complete' = TRUE
    /\ dropped' = TRUE
    /\ UNCHANGED <<program, since, result, buffers, missing, trees, overheard>>
    /\ UNCHANGED serverVars

-----------------------------------------------------------------------------
(* The handlers.                                                           *)

CsHandleChallenge(m) == HandleChallenge(m)
CsHandleAuthResult(m) == HandleAuthResult(m)

\* HandleTreeAsync and RequestFileAsync
CsHandleTree(m) == HandleTree(m)

\* HandleFileMeta and HandleFileChunk
CsHandleContent(m) == HandleContent(m)

\* HandleFileDone, up to TrySignalSyncComplete
CsHandleFileDone(m) == HandleFileDone(m)

\* HandleFileAbort: unknown transfers are none of its business.
CsHandleFileAbort(m) ==
    \/ m.fid \in Pending /\ HandleFileAbort(m)
    \/ m.kind = "abort" /\ m.fid \notin Pending /\ Handle(m, {}, {}) /\ UNCHANGED clientVars

-----------------------------------------------------------------------------
CsMainStep == CsWaitOver \/ CsReturn \/ CsStartWatch

CsNetStep ==
    \/ CsConnected
    \/ \E m \in toClient :
         \/ CsHandleChallenge(m) \/ CsHandleAuthResult(m) \/ CsHandleTree(m)
         \/ CsHandleContent(m) \/ CsHandleFileDone(m)
         \/ m.kind = "abort" /\ CsHandleFileAbort(m)

CsNext ==
    \/ CsCall \/ CsMainStep \/ CsStop
    \/ CsNetStep \/ CsConnectFailed \/ CsDisconnected
    \/ ServerStep \/ ServerStop \/ ServerStart
    \/ \E f \in Files : OtherClientAborted(f)
    \/ \E m \in toServer : NobodyListens(m)

CsPromptStep == (complete /\ CsWaitOver) \/ CsReturn \/ CsStartWatch

Python == program.language = "Python"
CSharp == program.language = "C#"

EitherSpec == Init /\ [][(Python /\ Next) \/ (CSharp /\ CsNext)]_vars

\* The threads of either client and of the server run, and a stopped server is
\* started again.
EitherFairSpec ==
    /\ EitherSpec
    /\ WF_vars(Python /\ PromptStep) /\ WF_vars(Python /\ NetStep)
    /\ WF_vars(CSharp /\ CsPromptStep) /\ WF_vars(CSharp /\ CsNetStep)
    /\ WF_vars(ServerStep) /\ WF_vars(ServerStart)

-----------------------------------------------------------------------------
(* Properties; TypeOK, SuccessIsHonest, CompletesForAReason and            *)
(* NoTimeoutNeeded are ClientSession's.                                    *)

\* While SyncAsync waits, it is told to go on only when the connection failed,
\* an error is in its result, or it handled a tree and every file it asked for
\* is there or dealt with: also answers to an earlier call never do it.
CsCompletesForAReason ==
    [][CSharp /\ main' = "wait" /\ complete' /\ (~complete \/ main # "wait") =>
         \/ dropped'
         \/ result'.errors # {}
         \/ trees' > since' /\ (missing' = {} \/ Pending' = {})]_vars

\* As long as the server runs, a watching client gets every file that is not
\* refused, however often its connection is lost in the middle of a handshake
\* or a transfer; the C# client, as long as its one connection stays.
WatchSyncs ==
    program.call = "watch" ~> \/ missing \subseteq refused
                              \/ main = "quit" \/ count["stops"] > 0
                              \/ CSharp /\ count["faults"] > 0

=============================================================================
