---------------------------- MODULE SessionProofs ----------------------------
(***************************************************************************)
(* Proofs about the sessions of either client, for any files, bounds and   *)
(* number of calls, lost connections and stops of the server.              *)
(***************************************************************************)
EXTENDS CsClientSession, TLAPS

ToServer == Hello \union Response \union Request
ToClient == Challenge \union AuthResult \union TreeMessage \union Transfer

Results == [downloaded : SUBSET Files, failed : SUBSET Files,
            errors : SUBSET Errors, success : BOOLEAN]
Transfers == [empty : SUBSET Fid, full : SUBSET Fid]

\* An object that neither waits nor watches has no connection.
Offline == main \in {"idle", "quit"} => conn = "none"

\* File ids are drawn for the trees handled so far: what _handle_tree draws is
\* new.
OldIds == \A i \in Pending : i.tree \in 1 .. trees

-----------------------------------------------------------------------------
(* Types.                                                                  *)

\* A counted action keeps the counters natural numbers.
LEMMA SpendType ==
    ASSUME count \in [Counted -> Nat], NEW what \in Counted, NEW bound, Spend(what, bound)
    PROVE  count' \in [Counted -> Nat]
BY DEF Spend, Counted

\* What a message of each kind holds.
LEMMA MessageTypes ==
    ASSUME TypeOK
    PROVE  /\ \A m \in toServer : /\ m \in ToServer
                                  /\ m.kind = "request" => m.fid \in Fid
           /\ \A m \in toClient : /\ m \in ToClient
                                  /\ m.kind = "challenge" => m.nonce \in Nat
                                  /\ m.kind \in {"content", "done", "abort"} => m.fid \in Fid
BY DEF TypeOK, ToServer, ToClient, Hello, Response, Request, Challenge, AuthResult, TreeMessage,
   Transfer

\* What each side sends.
LEMMA SentTypes ==
    /\ \A n \in Nat : /\ [kind |-> "hello", nonce |-> n] \in ToServer
                      /\ [kind |-> "response", nonce |-> n] \in ToServer
                      /\ [kind |-> "challenge", nonce |-> n] \in ToClient
    /\ \A b \in BOOLEAN : [kind |-> "result", success |-> b] \in ToClient
    /\ \A i \in Fid : /\ [kind |-> "request", fid |-> i] \in ToServer
                      /\ \A kind \in {"content", "done", "abort"} :
                           [kind |-> kind, fid |-> i] \in ToClient
    /\ TreeMessage \subseteq ToClient
BY DEF ToServer, ToClient, Hello, Response, Request, Challenge, AuthResult, TreeMessage, Transfer

\* The results a call starts with.
LEMMA NoResultType ==
    NoResult \in Results /\ [NoResult EXCEPT !.errors = {"connect"}] \in Results
BY DEF NoResult, Results, Errors

\* The initial state has the types.
LEMMA InitType == Init => TypeOK /\ Offline /\ OldIds
<1> SUFFICES ASSUME Init PROVE TypeOK /\ Offline /\ OldIds
  OBVIOUS
<1>1. /\ result \in Results
      /\ count \in [Counted -> Nat]
  BY NoResultType DEF Init
<1>2. buffers \in Transfers /\ jobs \in [content : SUBSET Fid, done : SUBSET Fid]
      /\ buffers.empty \intersect buffers.full = {} /\ Pending = {}
  BY DEF Init, Transfers, Pending
<1>3. /\ program \in [language : Languages, call : {"sync", "watch"}]
      /\ main = "idle" /\ conn = "none" /\ missing = Files /\ refused \subseteq Files
      /\ toServer = {} /\ toClient = {}
  BY DEF Init
<1>4. subscribed = FALSE /\ complete = FALSE /\ serverUp = TRUE /\ dropped = FALSE
      /\ overheard = FALSE
      /\ challenge = 0 /\ trees = 0 /\ since = 0 /\ nonces = 0
  BY DEF Init
<1>5. {subscribed, complete, serverUp, dropped, overheard} \subseteq BOOLEAN
  BY <1>4, Zenon
<1>6. conn # "up" => ~subscribed /\ toClient = {}
  BY <1>3, <1>4, Zenon
<1>7. {trees, since, nonces} \subseteq Nat /\ challenge \in Nat
  BY <1>4
<1>8. TypeOK
  BY <1>1, <1>2, <1>3, <1>5, <1>6, <1>7 DEF TypeOK, Results, Transfers
<1> QED
  BY <1>2, <1>3, <1>8 DEF Offline, OldIds

\* What a handler of the client leaves of the types, once what it sends and
\* what the broker answers have theirs.
LEMMA HandleType ==
    ASSUME TypeOK, Offline, NEW m, NEW sent \in SUBSET ToServer, NEW got \in SUBSET ToClient,
           Handle(m, sent, got)
    PROVE  /\ toServer' \in SUBSET ToServer /\ toClient' \in SUBSET ToClient
           /\ conn = "up" /\ UNCHANGED <<conn, count, callVars, serverVars>> /\ Offline'
           /\ Running
BY DEF Handle, TypeOK, Results, Offline, ToServer, ToClient, callVars

\* The handlers of the client.
LEMMA HandlersType ==
    ASSUME TypeOK, Offline, OldIds, NEW m \in toClient,
           \/ HandleChallenge(m) \/ HandleAuthResult(m) \/ HandleTree(m)
           \/ HandleContent(m) \/ HandleFileDone(m) \/ HandleFileAbort(m)
           \/ CsHandleFileAbort(m)
    PROVE  TypeOK' /\ Offline'
<1> USE MessageTypes, SentTypes
<1>1. CASE HandleChallenge(m)
  <2>1. {[kind |-> "response", nonce |-> m.nonce]} \in SUBSET ToServer
    BY <1>1 DEF HandleChallenge
  <2> QED
    BY <1>1, <2>1, HandleType DEF HandleChallenge, TypeOK, Results, clientVars, callVars, serverVars,
       ToServer, ToClient
<1>2. CASE HandleAuthResult(m)
  <2>1. result' \in Results
    BY <1>2 DEF HandleAuthResult, TypeOK, Results, Errors
  <2>2. Handle(m, {}, Subscribe) \/ Handle(m, {}, {})
    BY <1>2 DEF HandleAuthResult
  <2> QED
    BY <1>2, <2>1, <2>2, HandleType DEF HandleAuthResult, Subscribe, TypeOK, Results, callVars, serverVars,
       ToServer, ToClient
<1>3. CASE HandleTree(m)
  <2> DEFINE fids == {[tree |-> trees + 1, file |-> f] : f \in missing}
             sent == {[kind |-> "request", fid |-> i] : i \in fids}
  <2>1. fids \subseteq Fid
    <3> SUFFICES ASSUME NEW f \in missing PROVE [tree |-> trees + 1, file |-> f] \in Fid
      OBVIOUS
    <3> QED
      BY DEF TypeOK, Fid
  <2>2. Handle(m, sent, {}) /\ buffers' = [buffers EXCEPT !.empty = @ \union fids]
    BY <1>3 DEF HandleTree
  <2>3. sent \in SUBSET ToServer
    BY <2>1
  <2>4. buffers' \in Transfers /\ buffers'.empty \intersect buffers'.full = {}
    <3>1. \A i \in fids : i \notin buffers.full
      BY DEF OldIds, Pending, TypeOK, Transfers
    <3> HIDE DEF fids
    <3> QED
      BY <2>1, <2>2, <3>1 DEF TypeOK, Transfers
  <2>5. UNCHANGED <<subscribed, result, missing, overheard>> /\ trees' \in Nat /\ complete' \in BOOLEAN
    BY <1>3 DEF HandleTree, TypeOK
  <2>6. /\ toServer' \in SUBSET ToServer /\ toClient' \in SUBSET ToClient
        /\ conn = "up" /\ UNCHANGED <<conn, count, callVars, serverVars>> /\ Offline'
    <3> HIDE DEF sent
    <3> QED
      BY <2>2, <2>3, HandleType
  <2> QED
    BY <2>4, <2>5, <2>6 DEF Transfers, TypeOK, Results, callVars, serverVars, ToServer, ToClient
<1>4. CASE HandleContent(m)
  <2>1. buffers' \in [empty : SUBSET Fid, full : SUBSET Fid]
        /\ buffers'.empty \intersect buffers'.full = {}
    BY <1>4 DEF HandleContent, TypeOK, Results
  <2> QED
    BY <1>4, <2>1, HandleType DEF HandleContent, TypeOK, Results, callVars, serverVars, ToServer, ToClient
<1>5. CASE HandleFileDone(m) \/ HandleFileAbort(m)
  <2>1. Handle(m, {}, {}) /\ m.fid \in Fid /\ m.fid.file \in Files
    BY <1>5 DEF HandleFileDone, HandleFileAbort, Fid
  <2>2. Unbuffer(m.fid) \in [empty : SUBSET Fid, full : SUBSET Fid]
        /\ Unbuffer(m.fid).empty \intersect Unbuffer(m.fid).full = {}
    BY DEF Unbuffer, TypeOK, Results
  <2>3. result' \in Results
    BY <1>5, <2>1 DEF HandleFileDone, HandleFileAbort, TypeOK, Results
  <2>4. buffers' \in {buffers, Unbuffer(m.fid)} /\ missing' \subseteq missing
        /\ complete' \in BOOLEAN /\ UNCHANGED <<subscribed, trees>>
    BY <1>5 DEF HandleFileDone, HandleFileAbort, CheckSyncComplete, TypeOK, Results
  <2>5. overheard' \in BOOLEAN
    <3>1. overheard \in BOOLEAN
      BY DEF TypeOK
    <3> QED
      BY <1>5, <3>1, Zenon DEF HandleFileDone, HandleFileAbort
  <2> QED
    BY <2>1, <2>2, <2>3, <2>4, <2>5, HandleType DEF TypeOK, Results, callVars, serverVars, ToServer, ToClient
<1>6. CASE Handle(m, {}, {}) /\ UNCHANGED clientVars
  BY <1>6, HandleType DEF TypeOK, Results, clientVars, callVars, serverVars, ToServer, ToClient
<1> QED
  BY <1>1, <1>2, <1>3, <1>4, <1>5, <1>6 DEF CsHandleFileAbort

\* The main thread of either client, and its connection.
LEMMA ConnectionType ==
    ASSUME TypeOK, Offline,
           \/ Call \/ MainStep \/ Quit \/ OnConnect \/ OnDisconnect \/ Reconnect
           \/ CsCall \/ CsMainStep \/ CsStop \/ CsConnected \/ CsConnectFailed \/ CsDisconnected
    PROVE  TypeOK' /\ Offline'
<1> USE DEF ToServer, ToClient
<1>1. CASE Call \/ CsCall
  <2>1. result' \in Results
    BY <1>1, NoResultType DEF Call, CsCall
  <2>2. count' \in [Counted -> Nat]
    BY <1>1, SpendType DEF Call, CsCall, TypeOK, Results, Counted
  <2>3. buffers' \in Transfers /\ buffers'.empty \intersect buffers'.full = {}
    BY <1>1 DEF Call, CsCall, Fresh, TypeOK, Transfers
  <2>4. /\ main' \in {"idle", "wait"} /\ conn' \in {"none", "asked"} /\ Offline'
        /\ {complete', dropped', overheard'} \subseteq BOOLEAN /\ since' = trees
        /\ UNCHANGED <<program, subscribed, missing, toServer, toClient, trees, serverVars>>
    BY <1>1 DEF Call, CsCall, Offline
  <2>5. ~subscribed /\ toClient = {}
    BY <1>1 DEF Call, CsCall, TypeOK, Offline
  <2> QED
    BY <2>1, <2>2, <2>3, <2>4, <2>5 DEF TypeOK, Results, Transfers, serverVars
<1>2. CASE WaitOver \/ CsWaitOver
  <2>1. \A res : Success(res) \in BOOLEAN
    BY Zenon DEF Success
  <2>2. result' \in Results
    BY <1>2, <2>1 DEF WaitOver, CsWaitOver, TypeOK, Results, Errors
  <2> QED
    BY <1>2, <2>2 DEF WaitOver, CsWaitOver, TypeOK, Results, Offline, serverVars
<1>3. CASE Return \/ Quit \/ CsStop
  BY <1>3 DEF Return, Quit, CsStop, HangUp, LoseSession, TypeOK, Results, Offline, serverVars
<1>4. CASE CsReturn
  <2>1. \A res : CsSuccess(res) \in BOOLEAN
    BY Zenon DEF CsSuccess
  <2>2. result' \in Results
    BY <1>4, <2>1 DEF CsReturn, TypeOK, Results
  <2> QED
    BY <1>4, <2>2 DEF CsReturn, LoseSession, MayLose, TypeOK, Results, Offline, serverVars
<1>5. CASE StartWatch \/ CsStartWatch \/ Reconnect
  BY <1>5 DEF StartWatch, CsStartWatch, Reconnect, Running, TypeOK, Results, Offline, clientVars, serverVars,
     callVars
<1>6. CASE OnConnect \/ CsConnected
  <2>1. Connection \in Nat
    BY DEF TypeOK, Connection, Counted
  <2>2. toServer' \in SUBSET ToServer
    <3>1. [kind |-> "hello", nonce |-> Connection] \in ToServer
      BY <2>1, SentTypes
    <3>2. toServer \in SUBSET ToServer
      BY DEF TypeOK
    <3> HIDE DEF ToServer
    <3> QED
      BY <1>6, <3>1, <3>2 DEF OnConnect, CsConnected
  <2> QED
    BY <1>6, <2>2 DEF OnConnect, CsConnected, Running, TypeOK, Results, Offline, clientVars, serverVars,
       callVars
<1>7. CASE OnDisconnect \/ CsDisconnected
  <2>1. count' \in [Counted -> Nat]
    BY <1>7, SpendType DEF OnDisconnect, CsDisconnected, TypeOK, Results, Counted
  <2> QED
    BY <1>7, <2>1 DEF OnDisconnect, CsDisconnected, LoseSession, MayLose, TypeOK, Results, Offline, serverVars
<1>8. CASE CsConnectFailed
  <2>1. count' \in [Counted -> Nat]
    BY <1>8, SpendType DEF CsConnectFailed, TypeOK, Results, Counted
  <2>2. result' \in Results
    BY <1>8 DEF CsConnectFailed, TypeOK, Results, Errors
  <2> QED
    BY <1>8, <2>1, <2>2 DEF CsConnectFailed, TypeOK, Results, Offline, serverVars
<1> QED
  BY <1>1, <1>2, <1>3, <1>4, <1>5, <1>6, <1>7, <1>8 DEF MainStep, CsMainStep

\* The server, and the broker without it.
LEMMA ServerType ==
    ASSUME TypeOK, Offline,
           \/ ServerStep \/ ServerStop \/ ServerStart
           \/ \E f \in Files : OtherClientAborted(f)
           \/ \E m \in toServer : NobodyListens(m)
    PROVE  TypeOK' /\ Offline'
<1> USE MessageTypes, SentTypes DEF ToServer, ToClient
<1>1. UNCHANGED <<conn, callVars, clientVars>>
  BY DEF ServerStep, HandleHello, HandleAuthResponse, HandleFileRequest, Serve, SendFile,
     ServerStop, ServerStart, OtherClientAborted, NobodyListens
<1>2. Offline'
  BY <1>1 DEF Offline, callVars
<1>3. toServer' \subseteq toServer
  BY DEF ServerStep, HandleHello, HandleAuthResponse, HandleFileRequest, Serve, SendFile,
     ServerStop, ServerStart, OtherClientAborted, NobodyListens
<1>4. CASE \E m \in toServer : HandleHello(m)
  <2>1. nonces + 1 \in Nat
    BY DEF TypeOK, Results
  <2> QED
    BY <1>1, <1>2, <1>3, <1>4, <2>1 DEF HandleHello, Serve, TypeOK, Results, callVars, clientVars
<1>5. ASSUME NEW m \in toServer, HandleAuthResponse(m) PROVE TypeOK'
  <2>1. /\ toClient' \in SUBSET ToClient /\ (conn # "up" => toClient' = toClient)
        /\ UNCHANGED <<serverUp, refused, count, jobs, nonces>> /\ challenge' \in {challenge, 0}
    <3>1. toClient \in SUBSET ToClient
      BY DEF TypeOK
    <3>2. /\ [kind |-> "result", success |-> TRUE] \in ToClient
          /\ [kind |-> "result", success |-> FALSE] \in ToClient
          /\ TreeMessage \subseteq ToClient
      BY SentTypes
    <3> HIDE DEF ToClient
    <3> QED
      BY <1>5, <3>1, <3>2 DEF HandleAuthResponse, Serve
  <2> QED
    BY <1>1, <1>3, <2>1 DEF TypeOK, callVars, clientVars
<1>6. ASSUME NEW m \in toServer, HandleFileRequest(m) PROVE TypeOK'
  <2>1. m.fid \in Fid
    BY <1>6 DEF HandleFileRequest
  <2>2. [kind |-> "abort", fid |-> m.fid] \in ToClient
    BY <2>1
  <2>3. jobs' \in [content : SUBSET Fid, done : SUBSET Fid]
    <3>1. jobs' \in {jobs, [jobs EXCEPT !.content = @ \union {m.fid}]}
      BY <1>6 DEF HandleFileRequest
    <3> QED
      BY <2>1, <3>1 DEF TypeOK
  <2> QED
    BY <1>1, <1>3, <1>6, <2>2, <2>3 DEF HandleFileRequest, Serve, TypeOK, Results, callVars, clientVars
<1>7. ASSUME NEW i \in jobs.content \union jobs.done, SendFile(i) PROVE TypeOK'
  <2>1. i \in Fid
    BY DEF TypeOK, Results
  <2>2. jobs' \in [content : SUBSET Fid, done : SUBSET Fid]
    BY <1>7, <2>1 DEF SendFile, TypeOK, Results
  <2>3. toClient' \in SUBSET ToClient /\ (~subscribed => toClient' = toClient)
    <3>1. \A kind \in {"content", "done"} : [kind |-> kind, fid |-> i] \in ToClient
      BY <2>1
    <3> QED
      BY <1>7, <3>1 DEF SendFile, TypeOK, Results
  <2> QED
    BY <1>1, <1>3, <1>7, <2>2, <2>3 DEF SendFile, TypeOK, Results, callVars, clientVars
<1>8. CASE ServerStop
  <2>1. count' \in [Counted -> Nat]
    BY <1>8, SpendType DEF ServerStop, TypeOK, Results, Counted
  <2>2. jobs' \in [content : SUBSET Fid, done : SUBSET Fid] /\ serverUp' = FALSE /\ challenge' = 0
        /\ UNCHANGED <<conn, toServer, toClient, refused, nonces>>
    BY <1>8 DEF ServerStop
  <2> QED
    BY <1>1, <1>2, <2>1, <2>2 DEF TypeOK, callVars, clientVars
<1>9. CASE ServerStart
  BY <1>1, <1>2, <1>9 DEF ServerStart, TypeOK, Results, callVars, clientVars
<1>10. CASE \E m \in toServer : NobodyListens(m)
  BY <1>1, <1>2, <1>3, <1>10 DEF NobodyListens, TypeOK, Results, callVars, clientVars, serverVars
<1>11. ASSUME NEW f \in Files, OtherClientAborted(f) PROVE TypeOK'
  <2>1. [kind |-> "abort", fid |-> [tree |-> 0, file |-> f]] \in ToClient
    <3>1. [tree |-> 0, file |-> f] \in Fid
      BY DEF Fid
    <3> QED
      BY <3>1, SentTypes
  <2>2. toClient' \in SUBSET ToClient /\ (~subscribed => toClient' = toClient)
    <3>1. toClient \in SUBSET ToClient
      BY DEF TypeOK
    <3> HIDE DEF ToClient
    <3> QED
      BY <1>11, <2>1, <3>1 DEF OtherClientAborted
  <2>3. count' \in [Counted -> Nat] /\ UNCHANGED serverVars
    BY <1>11 DEF OtherClientAborted, TypeOK, Counted
  <2> QED
    BY <1>1, <1>3, <2>2, <2>3 DEF TypeOK, callVars, clientVars, serverVars
<1> QED
  BY <1>2, <1>4, <1>5, <1>6, <1>7, <1>8, <1>9, <1>10, <1>11 DEF ServerStep

EitherNext == (Python /\ Next) \/ (CSharp /\ CsNext)

\* A new id is drawn for a new tree; the other ids were there before.
LEMMA OldIdsStep ==
    ASSUME TypeOK, OldIds, [EitherNext]_vars
    PROVE  OldIds'
<1>1. CASE UNCHANGED <<buffers, trees>>
  BY <1>1 DEF OldIds, Pending
<1>2. ASSUME UNCHANGED trees, Pending' \subseteq Pending PROVE OldIds'
  BY <1>2 DEF OldIds
<1>3. ASSUME NEW m, HandleTree(m) PROVE OldIds'
  <2> DEFINE fids == {[tree |-> trees + 1, file |-> f] : f \in missing}
  <2>1. buffers' = [buffers EXCEPT !.empty = @ \union fids] /\ trees' = trees + 1
    BY <1>3 DEF HandleTree
  <2>2. \A i \in fids : i.tree = trees + 1
    OBVIOUS
  <2>3. \A i \in Pending : i.tree \in Nat
    BY DEF Pending, TypeOK, Fid
  <2> HIDE DEF fids
  <2>4. Pending' = Pending \union fids
    BY <2>1 DEF Pending, TypeOK
  <2> QED
    BY <2>1, <2>2, <2>3, <2>4 DEF OldIds, TypeOK
<1>4. ASSUME NEW m \in toClient, HandleContent(m) \/ HandleFileDone(m) \/ HandleFileAbort(m)
      PROVE  UNCHANGED trees /\ Pending' \subseteq Pending
  BY <1>4 DEF HandleContent, HandleFileDone, HandleFileAbort, Unbuffer, Pending, TypeOK
<1>5. CASE CsCall
  BY <1>2, <1>5 DEF CsCall, Fresh, Pending
<1>6. ASSUME NEW m \in toClient,
             HandleChallenge(m) \/ HandleAuthResult(m) \/ (Handle(m, {}, {}) /\ UNCHANGED clientVars)
      PROVE  UNCHANGED <<buffers, trees>>
  BY <1>6 DEF HandleChallenge, HandleAuthResult, clientVars
<1>7. CASE \/ ServerStep \/ ServerStop \/ ServerStart
           \/ \E f \in Files : OtherClientAborted(f)
           \/ \E m \in toServer : NobodyListens(m)
  BY <1>1, <1>7 DEF ServerStep, HandleHello, HandleAuthResponse, HandleFileRequest, Serve, SendFile,
     ServerStop, ServerStart, OtherClientAborted, NobodyListens, clientVars
<1>8. CASE \/ Call \/ MainStep \/ Quit \/ OnConnect \/ OnDisconnect \/ Reconnect
           \/ CsMainStep \/ CsStop \/ CsConnected \/ CsConnectFailed \/ CsDisconnected
           \/ UNCHANGED vars
  BY <1>1, <1>8 DEF Call, MainStep, WaitOver, Return, StartWatch, Quit, HangUp, OnConnect,
     OnDisconnect, Reconnect, CsMainStep, CsWaitOver, CsReturn, CsStartWatch, CsStop, CsConnected,
     CsConnectFailed, CsDisconnected, clientVars, vars
<1>9. CASE NetStep
  BY <1>1, <1>2, <1>3, <1>4, <1>6, <1>8, <1>9 DEF NetStep
<1>10. CASE CsNetStep
  BY <1>1, <1>2, <1>3, <1>4, <1>6, <1>8, <1>10 DEF CsNetStep, CsHandleChallenge, CsHandleAuthResult,
     CsHandleTree, CsHandleContent, CsHandleFileDone, CsHandleFileAbort
<1>11. CASE Next
  BY <1>7, <1>8, <1>9, <1>11, Zenon DEF Next
<1>12. CASE CsNext
  BY <1>5, <1>7, <1>8, <1>10, <1>12, Zenon DEF CsNext
<1> QED
  BY <1>8, <1>11, <1>12 DEF EitherNext

\* Every step keeps types.
LEMMA TypeStep == TypeOK /\ Offline /\ OldIds /\ [EitherNext]_vars => TypeOK' /\ Offline' /\ OldIds'
<1> SUFFICES ASSUME TypeOK, Offline, OldIds, [EitherNext]_vars PROVE TypeOK' /\ Offline'
  BY OldIdsStep
<1>1. CASE UNCHANGED vars
  BY <1>1 DEF vars, TypeOK, Offline
<1>2. CASE Next
  <2>1. CASE NetStep
    BY <2>1, ConnectionType, HandlersType DEF NetStep
  <2>2. CASE ~NetStep
    BY <1>2, <2>2, ConnectionType, ServerType DEF Next
  <2> QED
    BY <2>1, <2>2
<1>3. CASE CsNext
  <2>1. CASE CsNetStep
    BY <2>1, ConnectionType, HandlersType DEF CsNetStep, CsHandleChallenge, CsHandleAuthResult,
       CsHandleTree, CsHandleContent, CsHandleFileDone
  <2>2. CASE ~CsNetStep
    BY <1>3, <2>2, ConnectionType, ServerType DEF CsNext
  <2> QED
    BY <2>1, <2>2
<1> QED
  BY <1>1, <1>2, <1>3 DEF EitherNext

\* Either client keeps its types over any number of calls and connections: no
\* message of a clean session outlives its connection, and no transfer is
\* buffered both with and without content.
THEOREM SessionTypeCorrect == EitherSpec => []TypeOK
BY InitType, TypeStep, PTL DEF EitherSpec, EitherNext

-----------------------------------------------------------------------------
(* Success.                                                                *)

\* The Python client's ids: a request on its way, what the server sends, and
\* the end of a transfer on its way belong to one pending request each; the aborts
\* of another client's transfers belong to none.
Asked == {m.fid : m \in {n \in toServer : n.kind = "request"}}
Ends(m) == m.kind \in {"done", "abort"} /\ m.fid.tree # 0
Ended == {m.fid : m \in {n \in toClient : Ends(n)}}
Answering ==
    /\ Asked \union jobs.content \union jobs.done \union Ended \subseteq Pending
    /\ Asked \intersect (jobs.content \union jobs.done \union Ended) = {}
    /\ jobs.content \intersect (jobs.done \union Ended) = {}
    /\ jobs.done \intersect Ended = {}
    /\ \A m, n \in toClient : Ends(m) /\ Ends(n) /\ m.fid = n.fid => m = n

\* Why a wait may end.
Explained ==
    \/ result.errors # {} \/ result.failed # {}
    \/ result.downloaded # {} \/ missing = {}
Waited == (main = "wait" /\ complete) \/ main = "measured"
Honest == result.success => result.downloaded # {} \/ missing = {}

SInv ==
    /\ TypeOK /\ Offline /\ OldIds
    /\ Python => Answering
    /\ Waited /\ ~dropped /\ ~overheard => Explained
    /\ ~dropped /\ ~overheard => Honest

\* Steps that only take away keep Answering.
LEMMA AnsweringFrame ==
    ASSUME Answering, Asked' \subseteq Asked, toClient' \subseteq toClient,
           jobs'.content \subseteq jobs.content, jobs'.done \subseteq jobs.done,
           Pending \subseteq Pending'
    PROVE  Answering'
<1>1. Ended' \subseteq Ended
  BY DEF Ended, Ends
<1>2. \A m, n \in toClient' : Ends(m)' /\ Ends(n)' /\ m.fid = n.fid => m = n
  BY DEF Answering, Ends
<1> QED
  BY <1>1, <1>2 DEF Answering

\* A tree draws new ids.
LEMMA AnsweringTree ==
    ASSUME TypeOK, OldIds, Answering, NEW m \in toClient, HandleTree(m)
    PROVE  Answering'
<1> DEFINE fids == {[tree |-> trees + 1, file |-> f] : f \in missing}
           sent == {[kind |-> "request", fid |-> i] : i \in fids}
<1>1. /\ toServer' = toServer \union sent /\ toClient' \subseteq toClient /\ jobs' = jobs
      /\ buffers' = [buffers EXCEPT !.empty = @ \union fids]
  BY DEF HandleTree, Handle, serverVars
<1>2. \A i \in fids : i.tree = trees + 1
  OBVIOUS
<1>3. \A i \in Pending : i.tree \in Nat
  BY DEF Pending, TypeOK, Fid
<1>4. fids \intersect Pending = {}
  <2> HIDE DEF fids
  <2> QED
    BY <1>2, <1>3 DEF OldIds, TypeOK
<1>5. Asked' = Asked \union fids
  <2> HIDE DEF fids
  <2>1. \A s \in sent : s.kind = "request" /\ s.fid \in fids
    OBVIOUS
  <2>2. ASSUME NEW i \in fids PROVE \E s \in sent : s.kind = "request" /\ s.fid = i
    <3>1. [kind |-> "request", fid |-> i] \in sent
      OBVIOUS
    <3> QED
      BY <3>1
  <2> HIDE DEF sent
  <2> QED
    BY <1>1, <2>1, <2>2 DEF Asked
<1> HIDE DEF fids, sent
<1>6. Pending' = Pending \union fids
  BY <1>1 DEF Pending, TypeOK
<1>7. Ended' \subseteq Ended
  BY <1>1 DEF Ended, Ends
<1>8. \A k, n \in toClient' : Ends(k)' /\ Ends(n)' /\ k.fid = n.fid => k = n
  BY <1>1 DEF Answering, Ends
<1> QED
  BY <1>1, <1>4, <1>5, <1>6, <1>7, <1>8 DEF Answering

\* The end of a transfer is handled once, and its buffer goes with it; what is said
\* of another client's changes no buffer.
LEMMA AnsweringEnd ==
    ASSUME TypeOK, OldIds, Answering, NEW m \in toClient, HandleFileDone(m) \/ HandleFileAbort(m)
    PROVE  Answering'
<1>1. /\ toServer' = toServer /\ toClient' = toClient \ {m} /\ jobs' = jobs
      /\ m.kind \in {"done", "abort"}
  BY DEF HandleFileDone, HandleFileAbort, Handle, serverVars
<1>2. Asked' = Asked
  BY <1>1 DEF Asked
<1>3. CASE m.fid.tree = 0
  <2>1. m.fid \notin Pending
    BY <1>3 DEF OldIds
  <2>2. Pending \subseteq Pending'
    BY <2>1 DEF HandleFileDone, HandleFileAbort, Unbuffer, Pending, TypeOK
  <2> QED
    BY <1>1, <1>2, <2>2, AnsweringFrame
<1>4. CASE m.fid.tree # 0
  <2>1. Ends(m) /\ m.fid \in Ended /\ m.fid \in Pending
    BY <1>1, <1>4 DEF Ends, Ended, Answering
  <2>2. Pending' = Pending \ {m.fid}
    BY <2>1 DEF HandleFileDone, HandleFileAbort, Unbuffer, Pending, TypeOK
  <2>3. Ended' \subseteq Ended \ {m.fid}
    BY <1>1, <2>1 DEF Ended, Ends, Answering
  <2>4. \A k, n \in toClient' : Ends(k)' /\ Ends(n)' /\ k.fid = n.fid => k = n
    BY <1>1 DEF Answering, Ends
  <2> QED
    BY <1>1, <1>2, <2>1, <2>2, <2>3, <2>4 DEF Answering
<1> QED
  BY <1>3, <1>4

\* A request is answered once.
LEMMA AnsweringRequest ==
    ASSUME TypeOK, Answering, NEW m \in toServer, HandleFileRequest(m)
    PROVE  Answering'
<1>1. toServer' = toServer \ {m} /\ buffers' = buffers /\ m.kind = "request"
  BY DEF HandleFileRequest, Serve, clientVars
<1>2. m.fid \in Asked
  BY <1>1 DEF Asked
<1>3. Asked' \subseteq Asked \ {m.fid}
  <2>1. \A n \in toServer : n.kind = "request" => n \in Request
    BY DEF TypeOK, Hello, Response, Request
  <2>2. \A n \in toServer : n.kind = "request" /\ n.fid = m.fid => n = m
    BY <1>1, <2>1 DEF Request
  <2> QED
    BY <1>1, <2>2 DEF Asked
<1>4. Pending' = Pending
  BY <1>1 DEF Pending
<1>5. CASE jobs' = jobs /\ toClient' = toClient
  BY <1>3, <1>4, <1>5, AnsweringFrame
<1>6. CASE jobs' = jobs /\ toClient' = toClient \union {[kind |-> "abort", fid |-> m.fid]}
  <2>1. Ended' \subseteq Ended \union {m.fid}
    BY <1>6 DEF Ended, Ends
  <2>2. \A k, n \in toClient' : Ends(k)' /\ Ends(n)' /\ k.fid = n.fid => k = n
    <3>1. \A k \in toClient : Ends(k) => k.fid # m.fid
      BY <1>2 DEF Answering, Ended
    <3> QED
      BY <1>6, <3>1 DEF Answering, Ends
  <2> QED
    BY <1>2, <1>3, <1>4, <1>6, <2>1, <2>2 DEF Answering
<1>7. CASE jobs' = [jobs EXCEPT !.content = @ \union {m.fid}] /\ toClient' = toClient
  <2>1. jobs'.content = jobs.content \union {m.fid} /\ jobs'.done = jobs.done
    BY <1>7 DEF TypeOK
  <2>2. Ended' = Ended
    BY <1>7 DEF Ended, Ends
  <2>3. \A k, n \in toClient' : Ends(k)' /\ Ends(n)' /\ k.fid = n.fid => k = n
    BY <1>7 DEF Answering, Ends
  <2> QED
    BY <1>2, <1>3, <1>4, <2>1, <2>2, <2>3 DEF Answering
<1> QED
  BY <1>5, <1>6, <1>7 DEF HandleFileRequest, Serve

\* The content of a file, and then its end, is sent once.
LEMMA AnsweringSend ==
    ASSUME TypeOK, Answering, NEW i \in jobs.content \union jobs.done, SendFile(i)
    PROVE  Answering'
<1>1. toServer' = toServer /\ Pending' = Pending /\ Asked' = Asked
  BY DEF SendFile, clientVars, Pending, Asked
<1>2. CASE /\ i \in jobs.content
           /\ jobs' = [content |-> jobs.content \ {i}, done |-> jobs.done \union {i}]
           /\ toClient' \subseteq toClient \union {[kind |-> "content", fid |-> i]}
  <2>1. Ended' \subseteq Ended
    BY <1>2 DEF Ended, Ends
  <2>2. \A k, n \in toClient' : Ends(k)' /\ Ends(n)' /\ k.fid = n.fid => k = n
    BY <1>2 DEF Answering, Ends
  <2> QED
    BY <1>1, <1>2, <2>1, <2>2 DEF Answering
<1>3. CASE /\ i \in jobs.done
           /\ jobs' = [jobs EXCEPT !.done = @ \ {i}]
           /\ toClient' \subseteq toClient \union {[kind |-> "done", fid |-> i]}
  <2>1. Ended' \subseteq Ended \union {i}
    BY <1>3 DEF Ended, Ends
  <2>2. \A k, n \in toClient' : Ends(k)' /\ Ends(n)' /\ k.fid = n.fid => k = n
    <3>1. \A k \in toClient : Ends(k) => k.fid # i
      BY <1>3 DEF Answering, Ended
    <3> QED
      BY <1>3, <3>1 DEF Answering, Ends
  <2>3. jobs'.content = jobs.content /\ jobs'.done = jobs.done \ {i}
    BY <1>3 DEF TypeOK
  <2> QED
    BY <1>1, <1>3, <2>1, <2>2, <2>3 DEF Answering
<1> QED
  BY <1>2, <1>3 DEF SendFile

\* Every step of the Python client, or of the server, keeps Answering.
LEMMA AnsweringStep ==
    ASSUME TypeOK, OldIds, Answering, Next \/ UNCHANGED vars
    PROVE  Answering'
<1>1. ASSUME Asked' \subseteq Asked, toClient' \subseteq toClient, UNCHANGED <<jobs, buffers>>
      PROVE  Answering'
  BY <1>1, AnsweringFrame DEF Pending
<1>2. CASE \/ Call \/ MainStep \/ Quit \/ OnConnect \/ OnDisconnect \/ Reconnect \/ UNCHANGED vars
  <2>1. Asked' \subseteq Asked
    BY <1>2 DEF Call, MainStep, WaitOver, Return, StartWatch, Quit, HangUp, OnConnect, OnDisconnect,
       Reconnect, vars, Asked
  <2>2. toClient' \subseteq toClient /\ UNCHANGED <<jobs, buffers>>
    BY <1>2 DEF Call, MainStep, WaitOver, Return, StartWatch, Quit, HangUp, OnConnect, OnDisconnect,
       Reconnect, LoseSession, vars, clientVars, serverVars
  <2> QED
    BY <1>1, <2>1, <2>2
<1>3. ASSUME NEW m \in toClient, HandleChallenge(m) \/ HandleAuthResult(m) \/ HandleContent(m)
      PROVE  Answering'
  <2>1. Asked' \subseteq Asked /\ jobs' = jobs
    BY <1>3 DEF HandleChallenge, HandleAuthResult, HandleContent, Handle, Asked, serverVars
  <2>2. toClient' \subseteq toClient \union TreeMessage
    BY <1>3 DEF HandleChallenge, HandleAuthResult, HandleContent, Handle, Subscribe
  <2>3. Pending' = Pending
    BY <1>3 DEF HandleChallenge, HandleAuthResult, HandleContent, Pending, TypeOK, clientVars
  <2>4. \A k \in toClient' : Ends(k)' => k \in toClient /\ Ends(k)
    BY <2>2 DEF Ends, TreeMessage
  <2>5. Ended' \subseteq Ended
    BY <2>4 DEF Ended
  <2> QED
    BY <2>1, <2>3, <2>4, <2>5 DEF Answering
<1>4. CASE NetStep
  BY <1>2, <1>3, <1>4, AnsweringTree, AnsweringEnd DEF NetStep
<1>5. ASSUME NEW m \in toServer, HandleHello(m) \/ HandleAuthResponse(m) \/ NobodyListens(m)
      PROVE  Answering'
  <2>1. Asked' \subseteq Asked /\ jobs' = jobs /\ buffers' = buffers
    BY <1>5 DEF HandleHello, HandleAuthResponse, NobodyListens, Serve, Asked, clientVars, serverVars
  <2>2. \A k \in toClient' : k \in toClient \/ k.kind \in {"challenge", "result", "tree"}
    BY <1>5 DEF HandleHello, HandleAuthResponse, NobodyListens, Serve, TreeMessage
  <2>3. \A k \in toClient' : Ends(k)' => k \in toClient /\ Ends(k)
    BY <2>2 DEF Ends
  <2>4. Ended' \subseteq Ended
    BY <2>3 DEF Ended
  <2> QED
    BY <2>1, <2>3, <2>4 DEF Answering, Pending
<1>6. CASE ServerStep
  BY <1>5, <1>6, AnsweringRequest, AnsweringSend DEF ServerStep
<1>7. CASE ServerStop \/ ServerStart
  <2>1. Asked' = Asked /\ Pending' = Pending
        /\ jobs'.content \subseteq jobs.content /\ jobs'.done \subseteq jobs.done
    BY <1>7 DEF ServerStop, ServerStart, clientVars, Asked, Pending
  <2>2. \A k \in toClient' : Ends(k)' => k \in toClient /\ Ends(k)
    BY <1>7 DEF ServerStop, ServerStart, TreeMessage, Ends
  <2>3. Ended' \subseteq Ended
    BY <2>2 DEF Ended
  <2> QED
    BY <2>1, <2>2, <2>3 DEF Answering
<1>8. ASSUME NEW f \in Files, OtherClientAborted(f) PROVE Answering'
  <2>1. Asked' = Asked /\ Pending' = Pending /\ jobs' = jobs
    BY <1>8 DEF OtherClientAborted, clientVars, serverVars, Asked, Pending
  <2>2. \A k \in toClient' : Ends(k)' => k \in toClient /\ Ends(k)
    BY <1>8 DEF OtherClientAborted, Ends
  <2>3. Ended' \subseteq Ended
    BY <2>2 DEF Ended
  <2> QED
    BY <2>1, <2>2, <2>3 DEF Answering
<1>9. CASE \E m \in toServer : NobodyListens(m)
  BY <1>5, <1>9
<1> QED
  BY <1>2, <1>4, <1>6, <1>7, <1>8, <1>9 DEF Next

\* What a handler adds to the result, and when it sets the event.
LEMMA HandlersExplain ==
    ASSUME TypeOK, NEW m \in toClient, Explained \/ ~complete,
           \/ HandleChallenge(m) \/ HandleAuthResult(m) \/ HandleTree(m)
           \/ HandleContent(m) \/ HandleFileDone(m)
           \/ HandleFileAbort(m) /\ m.fid \in Pending
           \/ Handle(m, {}, {}) /\ UNCHANGED clientVars
    PROVE  Explained' \/ ~complete'
<1>1. CASE HandleChallenge(m) \/ HandleContent(m) \/ (Handle(m, {}, {}) /\ UNCHANGED clientVars)
  BY <1>1 DEF HandleChallenge, HandleContent, clientVars, Explained
<1>2. CASE HandleAuthResult(m)
  BY <1>2 DEF HandleAuthResult, Explained, TypeOK
<1>3. CASE HandleTree(m)
  BY <1>3 DEF HandleTree, Explained
<1>4. CASE HandleFileDone(m) /\ m.fid \notin Pending
  BY <1>4 DEF HandleFileDone, Explained, Pending
<1>5. CASE (HandleFileDone(m) \/ HandleFileAbort(m)) /\ m.fid \in Pending
  <2>1. \/ result' = [result EXCEPT !.failed = @ \union {m.fid.file}]
        \/ result' = [result EXCEPT !.downloaded = @ \union {m.fid.file}]
    BY <1>5 DEF HandleFileDone, HandleFileAbort
  <2>2. m.fid.file \in result'.failed \/ m.fid.file \in result'.downloaded
    BY <2>1 DEF TypeOK
  <2> QED
    BY <2>2 DEF Explained
<1> QED
  BY <1>1, <1>2, <1>3, <1>4, <1>5

\* A handler takes nothing from the result, and no file from the disk.
LEMMA HandlersAdd ==
    ASSUME TypeOK, NEW m \in toClient,
           \/ HandleChallenge(m) \/ HandleAuthResult(m) \/ HandleTree(m)
           \/ HandleContent(m) \/ HandleFileDone(m) \/ HandleFileAbort(m)
           \/ Handle(m, {}, {}) /\ UNCHANGED clientVars
    PROVE  /\ result.errors \subseteq result'.errors /\ result.failed \subseteq result'.failed
           /\ result.downloaded \subseteq result'.downloaded /\ missing' \subseteq missing
           /\ result'.success = result.success /\ UNCHANGED <<main, dropped, program>>
           /\ overheard => overheard'
<1>1. UNCHANGED <<main, dropped, program>> /\ (overheard => overheard')
  <2>1. UNCHANGED <<main, dropped, program>>
    BY DEF HandleChallenge, HandleAuthResult, HandleTree, HandleContent, HandleFileDone,
       HandleFileAbort, Handle, callVars
  <2>2. CASE UNCHANGED overheard
    BY <2>1, <2>2
  <2>3. CASE HandleFileAbort(m)
    <3>1. overheard => overheard'
      BY <2>3, Zenon DEF HandleFileAbort
    <3> QED
      BY <2>1, <3>1
  <2> QED
    BY <2>2, <2>3 DEF HandleChallenge, HandleAuthResult, HandleTree, HandleContent,
       HandleFileDone, clientVars
<1>2. CASE UNCHANGED <<result, missing>>
  BY <1>1, <1>2
<1>3. CASE HandleAuthResult(m)
  BY <1>1, <1>3 DEF HandleAuthResult, TypeOK
<1>4. CASE HandleFileDone(m) \/ HandleFileAbort(m)
  BY <1>1, <1>4 DEF HandleFileDone, HandleFileAbort, TypeOK
<1> QED
  BY <1>2, <1>3, <1>4 DEF HandleChallenge, HandleTree, HandleContent, clientVars

HonestInv ==
    /\ Waited /\ ~dropped /\ ~overheard => Explained
    /\ ~dropped /\ ~overheard => Honest

\* The handlers of either client keep the result honest.
LEMMA HandlersHonest ==
    ASSUME TypeOK, HonestInv, NEW m \in toClient,
           \/ HandleChallenge(m) \/ HandleAuthResult(m) \/ HandleTree(m)
           \/ HandleContent(m) \/ HandleFileDone(m)
           \/ HandleFileAbort(m) /\ m.fid \in Pending
           \/ Handle(m, {}, {}) /\ UNCHANGED clientVars
    PROVE  HonestInv'
<1>1. /\ result.errors \subseteq result'.errors /\ result.failed \subseteq result'.failed
      /\ result.downloaded \subseteq result'.downloaded /\ missing' \subseteq missing
      /\ result'.success = result.success /\ UNCHANGED <<main, dropped, program>>
      /\ overheard => overheard'
  BY HandlersAdd
<1>2. Honest => Honest'
  BY <1>1 DEF Honest
<1>3. Explained => Explained'
  BY <1>1 DEF Explained
<1>4. ASSUME Waited', ~dropped, ~overheard PROVE Explained'
  <2>1. CASE main = "measured"
    BY <1>3, <1>4, <2>1 DEF HonestInv, Waited
  <2>2. CASE main = "wait"
    <3>1. Explained \/ ~complete
      BY <1>4, <2>2 DEF HonestInv, Waited
    <3>2. Explained' \/ ~complete'
      BY <3>1, HandlersExplain
    <3> QED
      BY <1>1, <1>4, <2>2, <3>2 DEF Waited
  <2> QED
    BY <1>1, <1>4, <2>1, <2>2 DEF Waited
<1> QED
  BY <1>1, <1>2, <1>4 DEF HonestInv

\* Another client's abort ends a wait for nothing, or is of no consequence.
LEMMA ForeignHonest ==
    ASSUME TypeOK, OldIds, HonestInv, NEW m \in toClient, HandleFileAbort(m), m.fid.tree = 0
    PROVE  HonestInv'
<1>1. m.fid \notin Pending
  BY DEF OldIds
<1>2. UNCHANGED <<main, dropped, result, missing>> /\ (overheard => overheard')
  BY <1>1 DEF HandleFileAbort, Handle, callVars
<1>3. ASSUME Waited', ~Waited PROVE overheard'
  <2>1. main = "wait" /\ ~complete /\ complete'
    BY <1>2, <1>3 DEF Waited
  <2>2. Pending = {}
    BY <1>1, <2>1 DEF HandleFileAbort, CheckSyncComplete
  <2> QED
    BY <2>1, <2>2 DEF HandleFileAbort
<1> QED
  BY <1>2, <1>3 DEF HonestInv, Explained, Honest

\* The main thread and the connection.
LEMMA ConnectionHonest ==
    ASSUME TypeOK, TypeOK', HonestInv,
           \/ Call \/ MainStep \/ Quit \/ OnConnect \/ OnDisconnect \/ Reconnect
           \/ CsCall \/ CsMainStep \/ CsStop \/ CsConnected \/ CsConnectFailed \/ CsDisconnected
    PROVE  HonestInv'
<1>1. CASE Call \/ CsCall
  BY <1>1 DEF Call, CsCall, NoResult, HonestInv, Waited, Honest
<1>2. CASE WaitOver
  <2>1. main = "wait" /\ UNCHANGED <<missing, dropped, overheard>>
    BY <1>2 DEF WaitOver
  <2>2. CASE complete
    <3>1. result' = [result EXCEPT !.success = Success(result)]
      BY <1>2, <2>2 DEF WaitOver
    <3> QED
      BY <2>1, <2>2, <3>1 DEF HonestInv, Waited, Honest, Explained, Success, TypeOK
  <2>3. CASE ~complete
    <3> DEFINE res == [result EXCEPT !.errors = @ \union {"timeout"}]
    <3>1. result' = [res EXCEPT !.success = Success(res)]
      BY <1>2, <2>3 DEF WaitOver
    <3>2. "timeout" \in res.errors /\ res.downloaded = result.downloaded
      BY DEF TypeOK
    <3>3. /\ result'.errors = res.errors /\ result'.downloaded = res.downloaded
          /\ result'.success = Success(res)
      BY <3>1 DEF TypeOK
    <3>4. Explained'
      BY <3>2, <3>3 DEF Explained
    <3>5. Honest'
      BY <3>2, <3>3 DEF Honest, Success
    <3> QED
      BY <3>4, <3>5 DEF HonestInv
  <2> QED
    BY <2>2, <2>3
<1>3. CASE CsWaitOver
  <2>1. main = "wait" /\ main' = "measured" /\ UNCHANGED <<missing, dropped, overheard>>
    BY <1>3 DEF CsWaitOver
  <2>2. CASE complete
    BY <1>3, <2>1, <2>2 DEF CsWaitOver, HonestInv, Waited, Honest, Explained
  <2>3. CASE ~complete
    <3>1. result' = [result EXCEPT !.errors = @ \union {"timeout"}]
      BY <1>3, <2>3 DEF CsWaitOver
    <3>2. "timeout" \in result'.errors /\ result'.downloaded = result.downloaded
          /\ result'.success = result.success
      BY <3>1 DEF TypeOK
    <3> QED
      BY <2>1, <3>2 DEF HonestInv, Honest, Explained
  <2> QED
    BY <2>2, <2>3
<1>4. CASE Return \/ StartWatch \/ Quit \/ CsStartWatch \/ CsStop
  BY <1>4 DEF Return, StartWatch, CsStartWatch, Quit, CsStop, HangUp, clientVars, HonestInv, Waited,
     Honest
<1>5. CASE CsReturn
  <2>1. /\ main = "measured" /\ main' = "idle" /\ UNCHANGED <<missing, dropped, overheard>>
        /\ result' = [result EXCEPT !.success = CsSuccess(result)]
    BY <1>5 DEF CsReturn
  <2>2. result'.success = CsSuccess(result) /\ result'.downloaded = result.downloaded
    BY <2>1 DEF TypeOK
  <2>3. ~dropped /\ ~overheard => Honest'
    BY <2>1, <2>2 DEF HonestInv, Waited, Explained, Honest, CsSuccess
  <2> QED
    BY <2>1, <2>3 DEF HonestInv, Waited
<1>6. CASE OnConnect \/ Reconnect \/ CsConnected
  BY <1>6 DEF OnConnect, Reconnect, CsConnected, clientVars, callVars, HonestInv, Waited, Honest,
     Explained
<1>7. CASE OnDisconnect \/ CsDisconnected
  BY <1>7 DEF OnDisconnect, CsDisconnected, HonestInv
<1>8. CASE CsConnectFailed
  <2>1. UNCHANGED <<missing, dropped, overheard>> /\ main' \in {main, "quit"}
    BY <1>8 DEF CsConnectFailed
  <2>2. CASE /\ result' = [result EXCEPT !.errors = @ \union {"connect"}]
             /\ complete' = TRUE
    <3>1. "connect" \in result'.errors /\ result'.downloaded = result.downloaded
          /\ result'.success = result.success
      BY <2>2 DEF TypeOK
    <3> QED
      BY <2>1, <3>1 DEF HonestInv, Honest, Explained
  <2>3. CASE main = "watch" /\ main' \in {"watch", "quit"} /\ UNCHANGED <<result, complete>>
    BY <2>1, <2>3 DEF HonestInv, Waited, Honest
  <2> QED
    BY <1>8, <2>2, <2>3 DEF CsConnectFailed
<1> QED
  BY <1>1, <1>2, <1>3, <1>4, <1>5, <1>6, <1>7, <1>8 DEF MainStep, CsMainStep

\* Every step of either client keeps the invariant.
LEMMA SInvStep == SInv /\ [EitherNext]_vars => SInv'
<1> SUFFICES ASSUME SInv, [EitherNext]_vars PROVE SInv'
  OBVIOUS
<1>1. TypeOK' /\ Offline' /\ OldIds'
  BY TypeStep DEF SInv
<1>2. program' = program
  BY DEF EitherNext, Next, CsNext, Call, MainStep, WaitOver, Return, StartWatch, Quit, HangUp,
     NetStep, OnConnect, Reconnect, HandleChallenge, HandleAuthResult, HandleTree, HandleContent,
     HandleFileDone, HandleFileAbort, Handle, OnDisconnect, ServerStep, HandleHello,
     HandleAuthResponse, HandleFileRequest, Serve, SendFile, ServerStop, ServerStart,
     OtherClientAborted, NobodyListens,
     CsCall, CsMainStep, CsWaitOver, CsReturn, CsStartWatch, CsStop, CsNetStep, CsConnected,
     CsHandleChallenge, CsHandleAuthResult, CsHandleTree, CsHandleContent, CsHandleFileDone,
     CsHandleFileAbort, CsConnectFailed, CsDisconnected, callVars, vars
<1>3. Python' => Answering'
  <2>1. Python' => Python /\ (Next \/ UNCHANGED vars)
    BY <1>2 DEF Python, CSharp, EitherNext
  <2> QED
    BY <2>1, AnsweringStep DEF SInv
<1>4. HonestInv
  BY DEF SInv, HonestInv
<1>5. CASE \/ ServerStep \/ ServerStop \/ ServerStart
           \/ \E f \in Files : OtherClientAborted(f)
           \/ \E m \in toServer : NobodyListens(m)
           \/ UNCHANGED vars
  <2>1. UNCHANGED <<main, complete, dropped, overheard, result, missing>>
    BY <1>5 DEF ServerStep, HandleHello, HandleAuthResponse, HandleFileRequest, Serve, SendFile,
       ServerStop, ServerStart, OtherClientAborted, NobodyListens, callVars, clientVars, vars
  <2> QED
    BY <1>1, <1>3, <1>4, <2>1 DEF SInv, HonestInv, Waited, Explained, Honest
<1>6. ASSUME NEW m \in toClient, HandleFileAbort(m), Python PROVE HonestInv'
  <2>1. m.fid \in Pending \/ m.fid.tree = 0
    BY <1>6 DEF SInv, Answering, Ended, Ends, HandleFileAbort
  <2> QED
    BY <1>4, <1>6, <2>1, HandlersHonest, ForeignHonest DEF SInv
<1>7. CASE Python /\ NetStep
  BY <1>4, <1>6, <1>7, HandlersHonest, ConnectionHonest, <1>1, <1>3 DEF NetStep, SInv, HonestInv
<1>8. CASE CsNetStep
  BY <1>4, <1>8, HandlersHonest, ConnectionHonest, <1>1, <1>3 DEF CsNetStep, CsHandleChallenge,
     CsHandleAuthResult, CsHandleTree, CsHandleContent, CsHandleFileDone, CsHandleFileAbort, SInv,
     HonestInv
<1>9. CASE \/ Call \/ MainStep \/ Quit \/ OnDisconnect
           \/ CsCall \/ CsMainStep \/ CsStop \/ CsConnectFailed \/ CsDisconnected
  BY <1>1, <1>3, <1>4, <1>9, ConnectionHonest DEF SInv, HonestInv
<1>10. CASE Python /\ Next
  BY <1>5, <1>7, <1>9, <1>10, Zenon DEF Next
<1>11. CASE CsNext
  BY <1>5, <1>8, <1>9, <1>11, Zenon DEF CsNext
<1> QED
  <2>1. (Next /\ Python) \/ CsNext \/ UNCHANGED vars
    BY DEF EitherNext
  <2> QED
    BY <1>5, <1>10, <1>11, <2>1

\* It holds before the first call.
LEMMA InitSInv == Init => SInv
<1> SUFFICES ASSUME Init PROVE SInv
  OBVIOUS
<1>1. Answering
  BY DEF Init, Answering, Asked, Ended, Pending
<1>2. result.success = FALSE /\ main = "idle"
  BY DEF Init, NoResult
<1> QED
  BY <1>1, <1>2, InitType DEF SInv, Waited, Honest

\* A call of sync, or of SyncAsync, that returns success without having lost its
\* connection, and without another client's abort having ended its wait, has fetched
\* a file, or no file was missing: whatever earlier calls of the object left behind
\* and however often either side restarts.
THEOREM SuccessMeansSynced == EitherSpec => []SuccessIsHonest
<1>1. SInv => SuccessIsHonest
  BY DEF SInv, Honest, SuccessIsHonest
<1> QED
  BY <1>1, InitSInv, SInvStep, PTL DEF EitherSpec, EitherNext

-----------------------------------------------------------------------------
(* Completion.                                                             *)

\* A call begins with the trees handled so far; the C# client's buffers are
\* all of this call.
Calls ==
    /\ since <= trees
    /\ CSharp => \A i \in Pending : i.tree > since

\* Every step keeps it.
LEMMA CallsStep ==
    ASSUME SInv, Calls, [EitherNext]_vars
    PROVE  Calls'
<1>1. program' = program
  BY DEF EitherNext, Next, CsNext, Call, MainStep, WaitOver, Return, StartWatch, Quit, HangUp,
     NetStep, OnConnect, Reconnect, HandleChallenge, HandleAuthResult, HandleTree, HandleContent,
     HandleFileDone, HandleFileAbort, Handle, OnDisconnect, ServerStep, HandleHello,
     HandleAuthResponse, HandleFileRequest, Serve, SendFile, ServerStop, ServerStart,
     OtherClientAborted, NobodyListens,
     CsCall, CsMainStep, CsWaitOver, CsReturn, CsStartWatch, CsStop, CsNetStep, CsConnected,
     CsHandleChallenge, CsHandleAuthResult, CsHandleTree, CsHandleContent, CsHandleFileDone,
     CsHandleFileAbort, CsConnectFailed, CsDisconnected, callVars, vars
<1>2. ASSUME UNCHANGED <<since, trees>>, Pending' \subseteq Pending PROVE Calls'
  BY <1>1, <1>2 DEF Calls, CSharp
<1>3. CASE UNCHANGED <<since, trees, buffers>>
  BY <1>2, <1>3 DEF Pending
<1>4. CASE Python /\ Call
  <2>1. since' = trees /\ trees' = trees /\ trees \in Nat /\ ~CSharp'
    BY <1>1, <1>4 DEF Call, SInv, TypeOK, Python, CSharp
  <2> QED
    BY <2>1 DEF Calls
<1>5. CASE CsCall
  BY <1>5 DEF CsCall, Fresh, Calls, Pending, SInv, TypeOK
<1>6. ASSUME NEW m \in toClient, HandleTree(m) PROVE Calls'
  <2> DEFINE fids == {[tree |-> trees + 1, file |-> f] : f \in missing}
  <2>1. buffers' = [buffers EXCEPT !.empty = @ \union fids] /\ trees' = trees + 1 /\ since' = since
    BY <1>6 DEF HandleTree, Handle, callVars
  <2>2. \A i \in fids : i.tree = trees + 1
    OBVIOUS
  <2> HIDE DEF fids
  <2>3. Pending' = Pending \union fids
    BY <2>1 DEF Pending, SInv, TypeOK
  <2>4. trees \in Nat /\ since \in Nat
    BY DEF SInv, TypeOK
  <2> QED
    BY <1>1, <2>1, <2>2, <2>3, <2>4 DEF Calls, CSharp
<1>7. ASSUME NEW m \in toClient, HandleContent(m) \/ HandleFileDone(m) \/ HandleFileAbort(m)
      PROVE  Calls'
  <2>1. UNCHANGED <<since, trees>> /\ Pending' \subseteq Pending
    BY <1>7 DEF HandleContent, HandleFileDone, HandleFileAbort, Handle, Unbuffer, Pending, callVars,
       SInv, TypeOK
  <2> QED
    BY <1>2, <2>1
<1>8. ASSUME NEW m \in toClient,
             HandleChallenge(m) \/ HandleAuthResult(m) \/ (Handle(m, {}, {}) /\ UNCHANGED clientVars)
      PROVE  Calls'
  BY <1>3, <1>8 DEF HandleChallenge, HandleAuthResult, Handle, clientVars, callVars
<1>9. CASE \/ ServerStep \/ ServerStop \/ ServerStart
           \/ \E f \in Files : OtherClientAborted(f)
           \/ \E m \in toServer : NobodyListens(m)
  BY <1>3, <1>9 DEF ServerStep, HandleHello, HandleAuthResponse, HandleFileRequest, Serve, SendFile,
     ServerStop, ServerStart, OtherClientAborted, NobodyListens, clientVars, callVars
<1>10. CASE \/ MainStep \/ Quit \/ OnConnect \/ OnDisconnect \/ Reconnect
           \/ CsMainStep \/ CsStop \/ CsConnected \/ CsConnectFailed \/ CsDisconnected
           \/ UNCHANGED vars
  BY <1>3, <1>10 DEF MainStep, WaitOver, Return, StartWatch, Quit, HangUp, OnConnect,
     OnDisconnect, Reconnect, CsMainStep, CsWaitOver, CsReturn, CsStartWatch, CsStop, CsConnected,
     CsConnectFailed, CsDisconnected, clientVars, callVars, vars
<1>11. CASE NetStep
  BY <1>6, <1>7, <1>8, <1>10, <1>11 DEF NetStep
<1>12. CASE CsNetStep
  BY <1>6, <1>7, <1>8, <1>10, <1>12 DEF CsNetStep, CsHandleChallenge, CsHandleAuthResult,
     CsHandleTree, CsHandleContent, CsHandleFileDone, CsHandleFileAbort
<1>13. CASE Python /\ Next
  BY <1>4, <1>9, <1>10, <1>11, <1>13, Zenon DEF Next
<1>14. CASE CsNext
  BY <1>5, <1>9, <1>10, <1>12, <1>14, Zenon DEF CsNext
<1> QED
  BY <1>10, <1>13, <1>14 DEF EitherNext

\* The reasons why a step may set the event while a call waits.
Reason ==
    \/ dropped' \/ result'.errors # {}
    \/ trees' > since' /\ (missing' = {} \/ Own' = {})
    \/ Leftover # {} /\ Pending' = {}
    \/ /\ program.language = "Python" /\ Pending = {}
       /\ \E m \in toClient \ toClient' : m.kind = "abort" /\ m.fid.tree = 0
CsReason ==
    \/ dropped' \/ result'.errors # {}
    \/ trees' > since' /\ (missing' = {} \/ Pending' = {})

\* The handlers of either client set the event for a reason.
LEMMA HandlersReason ==
    ASSUME SInv, Calls, NEW m \in toClient,
           \/ HandleChallenge(m) \/ HandleAuthResult(m) \/ HandleTree(m)
           \/ HandleContent(m) \/ HandleFileDone(m)
           \/ HandleFileAbort(m) /\ m.fid \in Pending
           \/ Handle(m, {}, {}) /\ UNCHANGED clientVars,
           complete', ~complete
    PROVE  Reason /\ (CSharp => CsReason)
<1>1. trees \in Nat /\ since \in Nat /\ since <= trees /\ since' = since
  BY DEF SInv, TypeOK, Calls, HandleChallenge, HandleAuthResult, HandleTree, HandleContent,
     HandleFileDone, HandleFileAbort, Handle, callVars
<1>2. CASE HandleAuthResult(m)
  <2>1. result' = [result EXCEPT !.errors = @ \union {"auth"}]
    BY <1>2 DEF HandleAuthResult
  <2>2. "auth" \in result'.errors
    BY <2>1 DEF SInv, TypeOK
  <2> QED
    BY <2>2 DEF Reason, CsReason
<1>3. CASE HandleTree(m)
  <2>1. missing' = {} /\ trees' = trees + 1
    BY <1>3 DEF HandleTree
  <2>2. trees' > since' /\ missing' = {}
    BY <1>1, <2>1
  <2> QED
    BY <2>2 DEF Reason, CsReason
<1>4. CASE (HandleFileDone(m) \/ HandleFileAbort(m)) /\ m.fid \in Pending
  <2>1. Pending \subseteq {m.fid} /\ trees' = trees
    BY <1>4 DEF HandleFileDone, HandleFileAbort, CheckSyncComplete
  <2>2. Pending' = {}
    <3>1. buffers' = Unbuffer(m.fid)
      BY <1>4 DEF HandleFileDone, HandleFileAbort, Pending
    <3> QED
      BY <2>1, <3>1 DEF Unbuffer, Pending
  <2>3. m.fid.tree \in Nat /\ m.fid.tree <= trees /\ (CSharp => m.fid.tree > since)
    BY <1>4 DEF SInv, TypeOK, OldIds, Pending, Fid, Calls
  <2>4. CASE m.fid.tree > since
    <3>1. trees' > since' /\ Own' = {}
      BY <1>1, <2>1, <2>2, <2>3, <2>4 DEF Own
    <3> QED
      BY <2>2, <3>1 DEF Reason, CsReason
  <2>5. CASE ~(m.fid.tree > since)
    <3>1. m.fid \in Leftover /\ ~CSharp
      BY <1>4, <2>3, <2>5 DEF Leftover, Own
    <3> QED
      BY <2>2, <3>1 DEF Reason
  <2> QED
    BY <2>4, <2>5
<1> QED
  BY <1>2, <1>3, <1>4 DEF HandleChallenge, HandleContent, HandleFileDone, Pending, clientVars

\* So do the steps of the main thread and the connection.
LEMMA StepReason ==
    ASSUME SInv, Calls, [EitherNext]_vars, main' = "wait", complete', ~complete \/ main # "wait"
    PROVE  Reason /\ (CSharp => CsReason)
<1>1. ASSUME NEW m \in toClient, HandleFileAbort(m), Python, m.fid \notin Pending
      PROVE  Reason /\ (CSharp => CsReason)
  <2>1. m.fid.tree = 0 /\ m.kind = "abort"
    BY <1>1 DEF SInv, Answering, Ended, Ends, HandleFileAbort
  <2>2. main' = main /\ toClient' = toClient \ {m}
    BY <1>1 DEF HandleFileAbort, Handle, callVars
  <2>3. Pending = {}
    BY <1>1, <2>2 DEF HandleFileAbort, CheckSyncComplete
  <2> QED
    BY <1>1, <2>1, <2>2, <2>3 DEF Reason, Python, CSharp
<1>2. ASSUME NEW m \in toClient,
           \/ HandleChallenge(m) \/ HandleAuthResult(m) \/ HandleTree(m)
           \/ HandleContent(m) \/ HandleFileDone(m)
           \/ HandleFileAbort(m) /\ m.fid \in Pending
           \/ Handle(m, {}, {}) /\ UNCHANGED clientVars
      PROVE  Reason /\ (CSharp => CsReason)
  <2>1. main' = main
    BY <1>2 DEF HandleChallenge, HandleAuthResult, HandleTree, HandleContent,
       HandleFileDone, HandleFileAbort, Handle, callVars
  <2> QED
    BY <1>2, <2>1, HandlersReason
<1>3. CASE OnDisconnect \/ CsDisconnected
  BY <1>3 DEF OnDisconnect, CsDisconnected, Reason, CsReason
<1>4. CASE CsConnectFailed
  <2>1. main # "watch"
    BY <1>4 DEF CsConnectFailed
  <2>2. result' = [result EXCEPT !.errors = @ \union {"connect"}]
    BY <1>4, <2>1 DEF CsConnectFailed
  <2>3. "connect" \in result'.errors
    BY <2>2 DEF SInv, TypeOK
  <2> QED
    BY <2>3 DEF Reason, CsReason
<1>5. ~(Call \/ CsCall \/ MainStep \/ CsMainStep \/ Quit \/ CsStop)
  BY DEF Call, CsCall, MainStep, CsMainStep, WaitOver, Return, StartWatch, CsWaitOver, CsReturn,
     CsStartWatch, Quit, CsStop
<1>6. ~(OnConnect \/ Reconnect \/ CsConnected)
  BY DEF OnConnect, Reconnect, CsConnected, callVars, clientVars
<1>7. ~(\/ ServerStep \/ ServerStop \/ ServerStart
        \/ (\E f \in Files : OtherClientAborted(f))
        \/ (\E m \in toServer : NobodyListens(m))
           \/ UNCHANGED vars)
  BY DEF ServerStep, HandleHello, HandleAuthResponse, HandleFileRequest, Serve, SendFile,
     ServerStop, ServerStart, OtherClientAborted, NobodyListens, clientVars, callVars, vars
<1>8. CASE Python /\ NetStep
  BY <1>1, <1>2, <1>6, <1>8 DEF NetStep
<1>9. CASE CsNetStep
  BY <1>2, <1>6, <1>9 DEF CsNetStep, CsHandleChallenge, CsHandleAuthResult,
     CsHandleTree, CsHandleContent, CsHandleFileDone, CsHandleFileAbort
<1> QED
  BY <1>3, <1>4, <1>5, <1>6, <1>7, <1>8, <1>9 DEF EitherNext, Next, CsNext

\* It holds before the first call.
LEMMA InitCalls == Init => Calls
BY DEF Init, Calls, Pending

\* Both, and the invariants they rest on, for every step.
LEMMA ReasonedStep ==
    ASSUME SInv, Calls, [EitherNext]_vars
    PROVE  /\ SInv' /\ Calls'
           /\ [main' = "wait" /\ complete' /\ (~complete \/ main # "wait") => Reason]_vars
           /\ [CSharp /\ main' = "wait" /\ complete' /\ (~complete \/ main # "wait") => CsReason]_vars
BY SInvStep, CallsStep, StepReason

\* The event a wait of either client's call waits for is set only by a failed
\* connection, an error, or the answer to the last request of the object; the
\* Python client's may be of an earlier call, and while it has no request an abort
\* of another client's transfer sets it as well.
THEOREM CompletionHasAReason == EitherSpec => CompletesForAReason
  BY ReasonedStep, InitSInv, InitCalls, PTL DEF EitherSpec, EitherNext, CompletesForAReason, Reason

\* The C# client's is set only by a failed connection, an error, or the end of
\* the transfers of this very call.
THEOREM CsCompletionHasAReason == EitherSpec => CsCompletesForAReason
  BY ReasonedStep, InitSInv, InitCalls, PTL DEF EitherSpec, EitherNext, CsCompletesForAReason, CsReason
=============================================================================
