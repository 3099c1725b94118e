------------------------- MODULE FileTransferProofs -------------------------
(***************************************************************************)
(* Theorems about FileTransfer, for every set of files, file ids and       *)
(* workers, every number of chunks and whatever the network does.          *)
(***************************************************************************)
EXTENDS FileTransfer, FiniteSetTheorems, TLAPS

-----------------------------------------------------------------------------
(* Types of the operators.                                                 *)

\* A counted action keeps the counters natural numbers.
LEMMA SpendType ==
    ASSUME count \in [Counted -> Nat], NEW what \in Counted, NEW bound, Spend(what, bound)
    PROVE  count' \in [Counted -> Nat]
BY DEF Spend, Counted

\* What an executor thread publishes next is a message.
LEMMA MessageType ==
    ASSUME NEW s \in Sending, NEW rank \in 0 .. AbortRank
    PROVE  MessageOf(s, rank) \in Message
BY DEF MessageOf, Sending, Message, AllFids

\* A thread is left with the next statement of its job, or idle.
LEMMA AdvanceType ==
    ASSUME NEW s \in Sending
    PROVE  Advance(s) \in Sending \union {Idle}
BY ChunksAssumption DEF Advance, Sending, DoneRank

\* A new buffer, and a buffer that merged a meta, are buffers.
LEMMA BufferTypes ==
    /\ \A p \in Paths : EmptyBuffer(p) \in Buffer
    /\ \A b \in Buffer, enc \in Encryption : MergeMeta(b, enc) \in Buffer
BY DEF EmptyBuffer, MergeMeta, Buffer, Encryption

\* The bytes of a transfer that decrypts are a content.
LEMMA DecodedType ==
    ASSUME TypeOK, NEW f \in Pending, Decrypts(f)
    PROVE  Decoded(f) \in Content /\ [Decoded(f) EXCEPT !.form = "cut"] \in Content
<1>1. 1 \in ChunkRanks
  BY ChunksAssumption DEF ChunkRanks
<1>2. buffers[f] \in Buffer
  BY DEF TypeOK, Pending
<1>3. buffers[f].chunks[1] \in Encryption
  BY <1>1, <1>2 DEF Decrypts, Buffer
<1>4. /\ buffers[f].chunks[1].path \in Paths
      /\ buffers[f].chunks[1].ver \in Nat
  BY <1>3 DEF Encryption
<1> QED
  BY <1>4 DEF Decoded, Content

\* One more entry in a result list.
LEMMA ReportType ==
    ASSUME NEW list \in [LocalPaths -> Nat], NEW l \in LocalPaths
    PROVE  Report(list, l) \in [LocalPaths -> Nat]
BY DEF Report

-----------------------------------------------------------------------------
(* Types.                                                                  *)

\* The initial state has the types.
LEMMA InitType == Init => TypeOK
<1> SUFFICES ASSUME Init PROVE TypeOK
  OBVIOUS
<1>1. /\ disk \in Tree /\ tree \in Tree /\ trees \in Seq(Tree)
      /\ versions \in SUBSET (Paths \X Nat)
  BY DEF Init, Tree
<1>2. /\ queue \in Seq(Job) /\ jobs \in Nat /\ work \in [Workers -> Sending \union {Idle}]
      /\ network \in SUBSET Message /\ requests \in SUBSET Request
  BY DEF Init
<1>3. /\ local \in [LocalPaths -> Content] /\ count \in [Counted -> Nat]
      /\ downloaded \in [LocalPaths -> Nat] /\ failed \in [LocalPaths -> Nat]
  BY DEF Init, Content, Absent
<1>4. /\ buffers \in [Fids -> Buffer \union {NoBuffer}]
      /\ requested \in [Fids -> Paths \union {NoPath}]
      /\ remoteTree \in Tree \union {NoTree}
      /\ up \in BOOLEAN /\ refused \in BOOLEAN /\ syncComplete \in BOOLEAN
  BY DEF Init
<1>5. /\ challenged \in Nat /\ answers \in SUBSET (Nat \X Processes)
      /\ results \in Seq(BOOLEAN)
  BY DEF Init
<1> QED
  BY <1>1, <1>2, <1>3, <1>4, <1>5 DEF TypeOK

\* The ids _handle_tree draws are fresh and its paths are paths.
LEMMA HandleTreeCases ==
    ASSUME HandleTree
    PROVE  \/ UNCHANGED <<requests, buffers, requested>> /\ syncComplete' = TRUE
           \/ /\ \E fetch \in SUBSET Paths : \E id \in [fetch -> FreshFids] :
                     IsInjective(id) /\ RequestFiles(fetch, id)
              /\ UNCHANGED syncComplete
<1>1. ToFetch(Head(trees)) \in SUBSET Paths
  BY DEF ToFetch
<1> QED
  BY <1>1 DEF HandleTree, Injection

\* _request_file adds empty buffers.
LEMMA RequestFilesType ==
    ASSUME TypeOK, NEW fetch \in SUBSET Paths, NEW id \in [fetch -> FreshFids],
           RequestFiles(fetch, id)
    PROVE  /\ requests' \in SUBSET Request
           /\ requested' \in [Fids -> Paths \union {NoPath}]
           /\ buffers' \in [Fids -> Buffer \union {NoBuffer}]
<1> DEFINE drawn(f) == \E p \in fetch : id[p] = f
           pathOf(f) == CHOOSE p \in fetch : id[p] = f
<1>1. \A f : drawn(f) => pathOf(f) \in Paths
  OBVIOUS
<1>2. requests' \in SUBSET Request
  <2>1. requests' = requests \union
                     {[fid |-> id[p], path |-> p, again |-> FALSE] : p \in fetch}
    BY DEF RequestFiles
  <2>2. \A p \in fetch : [fid |-> id[p], path |-> p, again |-> FALSE] \in Request
    BY DEF Request, FreshFids
  <2>3. requests \in SUBSET Request
    BY DEF TypeOK
  <2> QED
    BY <2>1, <2>2, <2>3
<1>3. requested' = [f \in Fids |-> IF drawn(f) THEN pathOf(f) ELSE requested[f]]
  BY DEF RequestFiles
<1>4. buffers' = [f \in Fids |-> IF drawn(f) THEN EmptyBuffer(pathOf(f)) ELSE buffers[f]]
  BY DEF RequestFiles
<1> HIDE DEF drawn, pathOf
<1>5. requested' \in [Fids -> Paths \union {NoPath}]
  BY <1>1, <1>3 DEF TypeOK
<1>6. buffers' \in [Fids -> Buffer \union {NoBuffer}]
  BY <1>1, <1>4, BufferTypes DEF TypeOK
<1> QED
  BY <1>2, <1>5, <1>6

\* _handle_tree keeps types.
LEMMA HandleTreeType == TypeOK /\ HandleTree => TypeOK'
<1> SUFFICES ASSUME TypeOK, HandleTree PROVE TypeOK'
  OBVIOUS
<1>1. trees' \in Seq(Tree) /\ remoteTree' \in Tree \union {NoTree}
  BY DEF TypeOK, HandleTree
<1>2. /\ requests' \in SUBSET Request /\ buffers' \in [Fids -> Buffer \union {NoBuffer}]
      /\ requested' \in [Fids -> Paths \union {NoPath}] /\ syncComplete' \in BOOLEAN
  BY HandleTreeCases, RequestFilesType DEF TypeOK
<1>3. UNCHANGED <<serverVars, network, local, downloaded, failed, refused, count>>
  BY DEF HandleTree
<1> QED
  BY <1>1, <1>2, <1>3 DEF TypeOK, serverVars, authVars

\* _handle_auth_result and _handle_auth_response keep types.
LEMMA AuthType ==
    ASSUME TypeOK, HandleAuthResult \/ \E a \in answers : HandleAuthResponse(a)
    PROVE  TypeOK'
<1>1. trees \in Seq(Tree) /\ tree \in Tree /\ results \in Seq(BOOLEAN)
  BY DEF TypeOK
<1>2. CASE HandleAuthResult
  <2>1. results' \in Seq(BOOLEAN) /\ trees' \in Seq(Tree)
    <3>1. results # << >> /\ results' = Tail(results)
      BY <1>2 DEF HandleAuthResult
    <3>2. trees' = Append(trees, tree) \/ trees' = trees
      BY <1>2 DEF HandleAuthResult
    <3>3. results' \in Seq(BOOLEAN)
      BY <1>1, <3>1
    <3>4. trees' \in Seq(Tree)
      BY <1>1, <3>2
    <3> QED
      BY <3>3, <3>4
  <2>2. refused' \in BOOLEAN /\ syncComplete' \in BOOLEAN
    BY <1>2 DEF HandleAuthResult, TypeOK
  <2> QED
    BY <1>2, <2>1, <2>2 DEF HandleAuthResult, TypeOK
<1>3. ASSUME NEW a \in answers, HandleAuthResponse(a) PROVE TypeOK'
  <2>1. results' \in Seq(BOOLEAN)
    <3>1. (a[1] = challenged) \in BOOLEAN
      OBVIOUS
    <3> QED
      BY <1>1, <1>3, <3>1 DEF HandleAuthResponse
  <2>2. trees' \in Seq(Tree)
    BY <1>1, <1>3 DEF HandleAuthResponse
  <2>3. challenged' \in Nat /\ answers' \in SUBSET (Nat \X Processes)
    BY <1>3 DEF HandleAuthResponse, TypeOK
  <2> QED
    BY <1>3, <2>1, <2>2, <2>3 DEF HandleAuthResponse, TypeOK, clientVars
<1> QED
  BY <1>2, <1>3

\* A write is reported once, in one of the lists.
LEMMA WritesReports ==
    ASSUME NEW f, NEW l, Writes(f, l)
    PROVE  \/ downloaded' = Report(downloaded, l) /\ failed' = failed
           \/ downloaded' = downloaded /\ failed' = Report(failed, l)
BY DEF Writes

\* Every other step of the client keeps types.
LEMMA ClientType ==
    ASSUME TypeOK, NEW m \in network,
           HandleFileMeta(m) \/ HandleFileChunk(m) \/ HandleFileDone(m) \/ HandleFileAbort(m)
    PROVE  TypeOK'
<1>1. network' \in SUBSET Message /\ m.enc \in Encryption /\ UNCHANGED serverVars
      /\ UNCHANGED <<trees, requests, requested, remoteTree, refused>>
  BY DEF TypeOK, Message, HandleFileMeta, HandleFileChunk, HandleFileDone, HandleFileAbort,
         Receive, Deliverable
<1>2. /\ buffers' \in [Fids -> Buffer \union {NoBuffer}]
      /\ local' \in [LocalPaths -> Content] /\ downloaded' \in [LocalPaths -> Nat]
      /\ failed' \in [LocalPaths -> Nat] /\ syncComplete' \in BOOLEAN
      /\ count' \in [Counted -> Nat]
  <2>1. CASE HandleFileMeta(m)
    <3>1. m.fid \in Pending => MergeMeta(buffers[m.fid], m.enc) \in Buffer
      BY <1>1, BufferTypes DEF TypeOK, Pending
    <3> QED
      BY <2>1, <3>1 DEF TypeOK, HandleFileMeta
  <2>2. CASE HandleFileChunk(m)
    <3>1. m.fid \in Pending =>
            [buffers[m.fid] EXCEPT !.chunks[m.rank] = m.enc] \in Buffer
      BY <1>1, <2>2 DEF TypeOK, Pending, Buffer, HandleFileChunk
    <3> QED
      BY <2>2, <3>1 DEF TypeOK, HandleFileChunk
  <2>3. CASE m.fid \in Pending /\ (HandleFileDone(m) \/ HandleFileAbort(m))
    <3>1. buffers' = Unbuffer(m.fid) /\ CheckSyncComplete({m.fid})
      BY <2>3 DEF HandleFileDone, HandleFileAbort
    <3>2. LocalPath[buffers[m.fid].path] \in LocalPaths
      BY <2>3, PathsAssumption DEF TypeOK, Pending, Buffer
    <3>3. \/ (Fails(m.fid) /\ UNCHANGED count)
          \/ (Decrypts(m.fid) /\ Writes(m.fid, LocalPath[buffers[m.fid].path]))
      BY <2>3 DEF HandleFileDone, HandleFileAbort
    <3>4. /\ local' \in [LocalPaths -> Content] /\ downloaded' \in [LocalPaths -> Nat]
          /\ failed' \in [LocalPaths -> Nat] /\ count' \in [Counted -> Nat]
      <4> DEFINE l == LocalPath[buffers[m.fid].path]
      <4>1. CASE Fails(m.fid) /\ UNCHANGED count
        BY <3>2, <4>1, ReportType DEF TypeOK, Fails
      <4>2. CASE Decrypts(m.fid) /\ Writes(m.fid, l)
        <5>1. Decoded(m.fid) \in Content /\ [Decoded(m.fid) EXCEPT !.form = "cut"] \in Content
          BY <2>3, <4>2, DecodedType
        <5>2. local' \in [LocalPaths -> Content]
          BY <3>2, <4>2, <5>1 DEF TypeOK, Writes
        <5>3. downloaded' \in [LocalPaths -> Nat] /\ failed' \in [LocalPaths -> Nat]
          <6>1. downloaded \in [LocalPaths -> Nat] /\ failed \in [LocalPaths -> Nat]
            BY DEF TypeOK
          <6>2. \/ downloaded' = Report(downloaded, l) /\ failed' = failed
                \/ downloaded' = downloaded /\ failed' = Report(failed, l)
            BY <4>2, WritesReports
          <6> QED
            BY <3>2, <6>1, <6>2, ReportType
        <5>4. count' \in [Counted -> Nat]
          BY <4>2, SpendType DEF TypeOK, Writes, Counted
        <5> QED
          BY <5>2, <5>3, <5>4
      <4> QED
        BY <3>3, <4>1, <4>2
    <3>5. buffers' \in [Fids -> Buffer \union {NoBuffer}] /\ syncComplete' \in BOOLEAN
      BY <3>1 DEF TypeOK, Unbuffer, CheckSyncComplete
    <3> QED
      BY <3>4, <3>5
  <2>4. CASE m.fid \notin Pending /\ (HandleFileDone(m) \/ HandleFileAbort(m))
    BY <2>4 DEF TypeOK, HandleFileDone, HandleFileAbort, CheckSyncComplete
  <2> QED
    BY <2>1, <2>2, <2>3, <2>4
<1> QED
  BY <1>1, <1>2 DEF TypeOK, serverVars, authVars

\* The handlers and threads of the server keep types.
LEMMA ServerType == TypeOK /\ ServerStep => TypeOK'
<1> SUFFICES ASSUME TypeOK, ServerStep PROVE TypeOK'
  OBVIOUS
<1>1. ASSUME NEW r \in requests, HandleFileRequest(r) PROVE TypeOK'
  <2>1. r.fid \in Fids /\ r.path \in Paths /\ requests' \in SUBSET Request
    BY <1>1 DEF TypeOK, Request, HandleFileRequest
  <2>2. queue' \in Seq(Job) /\ jobs' \in Nat
    <3> DEFINE j == [job |-> jobs + 1, fid |-> r.fid, path |-> r.path]
    <3>1. j \in Job /\ queue \in Seq(Job) /\ jobs \in Nat /\ jobs + 1 \in Nat
      BY <2>1 DEF TypeOK, Job
    <3>2. \/ UNCHANGED <<queue, jobs>>
          \/ jobs' = jobs + 1 /\ queue' = Append(queue, j)
      BY <1>1 DEF HandleFileRequest
    <3> HIDE DEF j
    <3> QED
      BY <3>1, <3>2
  <2> QED
    BY <1>1, <2>1, <2>2 DEF TypeOK, HandleFileRequest, authVars, clientVars
<1>2. ASSUME NEW w \in Workers, BeginSend(w) PROVE TypeOK'
  <2> DEFINE j == Head(queue)
             enc == [job |-> j.job, fid |-> j.fid, path |-> j.path, ver |-> disk[j.path],
                     packed |-> <<j.path, disk[j.path]>> \in Packed]
             s == [fid |-> j.fid, enc |-> enc, next |-> MetaRank]
  <2>1. j \in Job /\ queue' \in Seq(Job)
    BY <1>2 DEF TypeOK, BeginSend
  <2>2. enc \in Encryption
    BY <2>1 DEF TypeOK, Tree, Job, Encryption, AllFids
  <2>3. s \in Sending
    BY <2>1, <2>2, ChunksAssumption DEF Sending, Job, MetaRank, DoneRank
  <2>4. Aborted(s) \subseteq Message
    BY <2>3, MessageType, ChunksAssumption DEF Aborted, AbortRank
  <2>5. \/ work' = [work EXCEPT ![w] = s] /\ network' = network
        \/ network' = network \union Aborted(s) /\ work' = work
    BY <1>2 DEF BeginSend
  <2> HIDE DEF s
  <2>6. work' \in [Workers -> Sending \union {Idle}] /\ network' \in SUBSET Message
    BY <2>3, <2>4, <2>5 DEF TypeOK
  <2> QED
    BY <1>2, <2>1, <2>6 DEF TypeOK, BeginSend, authVars, clientVars
<1>3. ASSUME NEW w \in Workers, PublishNext(w) PROVE TypeOK'
  <2>1. work[w] \in Sending /\ work[w].next \in 0 .. AbortRank
    BY <1>3, ChunksAssumption DEF TypeOK, PublishNext, Sending, DoneRank, AbortRank
  <2>2. work' \in [Workers -> Sending \union {Idle}]
    BY <1>3, <2>1, AdvanceType DEF TypeOK, PublishNext
  <2>3. network' \in SUBSET Message
    BY <1>3, <2>1, MessageType DEF TypeOK, PublishNext
  <2> QED
    BY <1>3, <2>2, <2>3 DEF TypeOK, PublishNext, authVars, clientVars
<1> QED
  BY <1>1, <1>2, <1>3, AuthType DEF ServerStep

\* Edits, faults, other clients and the end of the server keep types.
LEMMA EnvironmentType == TypeOK /\ Environment => TypeOK'
<1> SUFFICES ASSUME TypeOK, Environment PROVE TypeOK'
  OBVIOUS
<1> USE SpendType DEF TypeOK, Counted, authVars, serverVars, clientVars
<1>1. ASSUME NEW p \in Paths, ServerEdit(p) PROVE TypeOK'
  <2>1. PICK v \in {0, count["edits"] + 2} :
             /\ disk' = [disk EXCEPT ![p] = v]
             /\ versions' = versions \union ({<<p, v>>} \ {<<p, 0>>})
    BY <1>1 DEF ServerEdit
  <2>2. disk' \in Tree /\ versions' \in SUBSET (Paths \X Nat)
    BY <2>1 DEF Tree
  <2> QED
    BY <1>1, <2>2 DEF ServerEdit
<1>2. ASSUME NEW p \in Paths, OtherClientAborted(p) PROVE TypeOK'
  <2>1. [fid |-> OtherFid, rank |-> AbortRank, again |-> FALSE,
         enc |-> [job |-> 0, fid |-> OtherFid, path |-> p, ver |-> 0,
                  packed |-> FALSE]] \in Message
    BY ChunksAssumption DEF Message, Encryption, AllFids, AbortRank
  <2> QED
    BY <1>2, <2>1 DEF OtherClientAborted
<1>3. CASE OnFilesystemChanged
  <2>1. disk \in Tree /\ trees \in Seq(Tree)
    OBVIOUS
  <2>2. trees' \in Seq(Tree) /\ tree' \in Tree
    BY <1>3, <2>1 DEF OnFilesystemChanged
  <2>3. count' \in [Counted -> Nat]
    BY <1>3 DEF OnFilesystemChanged
  <2> QED
    BY <1>3, <2>2, <2>3 DEF OnFilesystemChanged
<1>4. CASE RepublishTree
  <2>1. tree \in Tree /\ trees \in Seq(Tree)
    OBVIOUS
  <2>2. trees' \in Seq(Tree)
    BY <1>4, <2>1 DEF RepublishTree
  <2>3. count' \in [Counted -> Nat]
    BY <1>4 DEF RepublishTree
  <2> QED
    BY <1>4, <2>2, <2>3 DEF RepublishTree
<1>5. CASE OpenChallenge \/ TimeoutChallenge
  <2>1. CASE OpenChallenge
    <3>1. count["hellos"] + 1 \in Nat
      OBVIOUS
    <3>2. challenged' \in Nat /\ answers' \in SUBSET (Nat \X Processes)
      BY <2>1, <3>1 DEF OpenChallenge
    <3> QED
      BY <2>1, <3>2 DEF OpenChallenge
  <2>2. CASE TimeoutChallenge
    BY <2>2 DEF TimeoutChallenge
  <2> QED
    BY <1>5, <2>1, <2>2
<1>6. CASE ServerStop
  <2>1. network' \in SUBSET Message /\ queue' \in Seq(Job)
    BY <1>6 DEF ServerStop
  <2>2. work' \in [Workers -> Sending \union {Idle}]
    BY <1>6 DEF ServerStop
  <2> QED
    BY <1>6, <2>1, <2>2 DEF ServerStop
<1>7. ASSUME NEW m \in network, LoseMessage(m) \/ RepeatMessage(m) PROVE TypeOK'
  <2>1. [m EXCEPT !.again = TRUE] \in Message
    BY DEF Message
  <2> QED
    BY <1>7, <2>1 DEF LoseMessage, RepeatMessage
<1>8. ASSUME NEW r \in requests, LoseRequest(r) \/ RepeatRequest(r) PROVE TypeOK'
  <2>1. [r EXCEPT !.again = TRUE] \in Request
    BY DEF Request
  <2> QED
    BY <1>8, <2>1 DEF LoseRequest, RepeatRequest
<1>9. CASE LoseTree
  <2>1. trees \in Seq(Tree) /\ trees # << >>
    BY <1>9 DEF LoseTree
  <2>2. trees' \in Seq(Tree)
    BY <1>9, <2>1 DEF LoseTree
  <2>3. count' \in [Counted -> Nat]
    BY <1>9 DEF LoseTree
  <2> QED
    BY <1>9, <2>2, <2>3 DEF LoseTree
<1> QED
  BY <1>1, <1>2, <1>3, <1>4, <1>5, <1>6, <1>7, <1>8, <1>9 DEF Environment

\* Every reachable state of the file transfer has the types TypeOK states.
THEOREM TypeCorrect == Spec => []TypeOK
<1>1. TypeOK /\ [Next]_vars => TypeOK'
  <2>1. TypeOK /\ Next => TypeOK'
    BY HandleTreeType, AuthType, ClientType, ServerType, EnvironmentType DEF Next, ClientStep
  <2>2. TypeOK /\ UNCHANGED vars => TypeOK'
    BY DEF TypeOK, vars
  <2> QED
    BY <2>1, <2>2
<1> QED
  BY InitType, <1>1, PTL DEF Spec
-----------------------------------------------------------------------------
(* Where bytes come from: the inductive invariant.                         *)

\* The file a version belongs to is on record.
OnRecord(enc) == <<enc.path, enc.ver>> \in versions

\* Requests, queued jobs and running jobs are for the path their id was drawn
\* for, and what a job encrypted is a version of it.
ServerOrigin ==
    /\ \A p \in Paths : disk[p] # 0 => <<p, disk[p]>> \in versions
    /\ \A r \in requests : requested[r.fid] = r.path
    /\ \A i \in 1 .. Len(queue) : requested[queue[i].fid] = queue[i].path
    /\ \A w \in Workers : work[w] # Idle =>
         /\ work[w].enc.fid = work[w].fid /\ requested[work[w].fid] = work[w].enc.path
         /\ OnRecord(work[w].enc)

\* So are the messages on their way, but for the aborts of other clients.
NetworkOrigin ==
    \A m \in network : m.rank # AbortRank =>
        /\ m.fid \in Fids /\ m.enc.fid = m.fid /\ requested[m.fid] = m.enc.path
        /\ OnRecord(m.enc)

\* So are the buffers and every chunk received.
BufferOrigin ==
    \A f \in Pending :
        /\ requested[f] = buffers[f].path
        /\ \A r \in ChunkRanks : buffers[f].chunks[r] # NoChunk =>
             /\ buffers[f].chunks[r].fid = f
             /\ buffers[f].chunks[r].path = requested[f]
             /\ OnRecord(buffers[f].chunks[r])

Origin == ServerOrigin /\ NetworkOrigin /\ BufferOrigin

IInv == TypeOK /\ Origin /\ AuthenticContent /\ DamageReported

\* Nothing is in flight or on disk at first.
LEMMA InitOrigin == Init => Origin /\ AuthenticContent /\ DamageReported
<1> SUFFICES ASSUME Init PROVE Origin /\ AuthenticContent /\ DamageReported
  OBVIOUS
<1>1. AuthenticContent /\ DamageReported
  BY DEF Init, AuthenticContent, DamageReported, Absent
<1>2. NetworkOrigin /\ BufferOrigin /\ ServerOrigin
  BY DEF Init, NetworkOrigin, BufferOrigin, ServerOrigin, Pending
<1> QED
  BY <1>1, <1>2 DEF Origin

\* A step that draws no file id, adds no request, job, running job, message or
\* chunk and forgets no version keeps Origin.
LEMMA OriginFrame ==
    ASSUME TypeOK, Origin, UNCHANGED requested, versions \subseteq versions',
           \A p \in Paths : disk'[p] # 0 => disk'[p] = disk[p] \/ <<p, disk'[p]>> \in versions',
           \A r \in requests' : \E q \in requests : r.fid = q.fid /\ r.path = q.path,
           UNCHANGED queue \/ queue' = << >>,
           \A w \in Workers : work'[w] = Idle \/ work'[w] = work[w],
           \A m \in network' : m.rank = AbortRank \/
               \E n \in network : m.rank = n.rank /\ m.fid = n.fid /\ m.enc = n.enc,
           \A f \in Fids : buffers'[f] = NoBuffer \/ buffers'[f] = buffers[f]
    PROVE  Origin'
<1>1. ServerOrigin'
  BY DEF Origin, ServerOrigin, OnRecord
<1>2. NetworkOrigin'
  BY DEF Origin, NetworkOrigin, OnRecord
<1>3. BufferOrigin'
  BY DEF Origin, BufferOrigin, OnRecord, Pending
<1> QED
  BY <1>1, <1>2, <1>3 DEF Origin

\* Steps that leave the client's files and results alone keep what is said of them.
LEMMA FilesFrame ==
    ASSUME AuthenticContent, DamageReported, UNCHANGED <<local, failed>>,
           versions \subseteq versions'
    PROVE  AuthenticContent' /\ DamageReported'
BY DEF AuthenticContent, DamageReported

\* The environment creates no data.
LEMMA EnvironmentOrigin == IInv /\ Environment => (Origin /\ AuthenticContent /\ DamageReported)'
<1> SUFFICES ASSUME IInv, Environment PROVE (Origin /\ AuthenticContent /\ DamageReported)'
  OBVIOUS
<1> USE DEF IInv, authVars, serverVars, clientVars
<1>1. ASSUME NEW p \in Paths, ServerEdit(p) PROVE (Origin /\ AuthenticContent /\ DamageReported)'
  <2>1. PICK v \in {0, count["edits"] + 2} :
             /\ disk' = [disk EXCEPT ![p] = v]
             /\ versions' = versions \union ({<<p, v>>} \ {<<p, 0>>})
    BY <1>1 DEF ServerEdit
  <2>2. \A q \in Paths : disk'[q] # 0 => disk'[q] = disk[q] \/ <<q, disk'[q]>> \in versions'
    BY <2>1 DEF TypeOK, Tree
  <2> QED
    BY <1>1, <2>1, <2>2, OriginFrame, FilesFrame DEF ServerEdit
<1>2. CASE ServerStop
  BY <1>2, OriginFrame, FilesFrame DEF ServerStop
<1>3. ASSUME NEW m \in network, LoseMessage(m) \/ RepeatMessage(m)
      PROVE (Origin /\ AuthenticContent /\ DamageReported)'
  BY <1>3, OriginFrame, FilesFrame DEF LoseMessage, RepeatMessage, TypeOK, Message
<1>4. ASSUME NEW r \in requests, LoseRequest(r) \/ RepeatRequest(r)
      PROVE (Origin /\ AuthenticContent /\ DamageReported)'
  BY <1>4, OriginFrame, FilesFrame DEF LoseRequest, RepeatRequest, TypeOK, Request
<1>5. ASSUME NEW p \in Paths, OtherClientAborted(p)
      PROVE (Origin /\ AuthenticContent /\ DamageReported)'
  BY <1>5, OriginFrame, FilesFrame DEF OtherClientAborted
<1>6. CASE OnFilesystemChanged \/ RepublishTree \/ OpenChallenge \/ TimeoutChallenge \/ LoseTree
  BY <1>6, OriginFrame, FilesFrame
     DEF OnFilesystemChanged, RepublishTree, OpenChallenge, TimeoutChallenge, LoseTree
<1> QED
  BY <1>1, <1>2, <1>3, <1>4, <1>5, <1>6 DEF Environment

\* Answers and results carry no data.
LEMMA AuthOrigin ==
    ASSUME IInv, HandleAuthResult \/ \E a \in answers : HandleAuthResponse(a)
    PROVE  (Origin /\ AuthenticContent /\ DamageReported)'
BY OriginFrame, FilesFrame DEF IInv, HandleAuthResult, HandleAuthResponse, clientVars

\* The server encrypts the file it was asked for, under the id it was asked with.
LEMMA ServerStepOrigin == IInv /\ ServerStep => (Origin /\ AuthenticContent /\ DamageReported)'
<1> SUFFICES ASSUME IInv, ServerStep PROVE (Origin /\ AuthenticContent /\ DamageReported)'
  OBVIOUS
<1> USE DEF IInv, clientVars
<1>1. ASSUME NEW r \in requests, HandleFileRequest(r)
      PROVE (Origin /\ AuthenticContent /\ DamageReported)'
  <2>1. ServerOrigin'
    <3> DEFINE j == [job |-> jobs + 1, fid |-> r.fid, path |-> r.path]
    <3>1. \/ UNCHANGED queue
          \/ queue' = Append(queue, j)
      BY <1>1 DEF HandleFileRequest
    <3>2. requested[j.fid] = j.path /\ queue \in Seq(Job)
      BY <1>1 DEF Origin, ServerOrigin, TypeOK
    <3>3. \A i \in 1 .. Len(queue) : requested[queue[i].fid] = queue[i].path
      BY DEF Origin, ServerOrigin
    <3> HIDE DEF j
    <3>4. \A i \in 1 .. Len(queue') : requested[queue'[i].fid] = queue'[i].path
      BY <3>1, <3>2, <3>3
    <3> QED
      BY <1>1, <3>4 DEF HandleFileRequest, Origin, ServerOrigin, OnRecord
  <2>2. NetworkOrigin' /\ BufferOrigin'
    BY <1>1 DEF HandleFileRequest, Origin, NetworkOrigin, BufferOrigin, OnRecord, Pending
  <2> QED
    BY <1>1, <2>1, <2>2, FilesFrame DEF HandleFileRequest, Origin
<1>2. ASSUME NEW w \in Workers, BeginSend(w)
      PROVE (Origin /\ AuthenticContent /\ DamageReported)'
  <2> DEFINE j == Head(queue)
             enc == [job |-> j.job, fid |-> j.fid, path |-> j.path, ver |-> disk[j.path],
                     packed |-> <<j.path, disk[j.path]>> \in Packed]
             s == [fid |-> j.fid, enc |-> enc, next |-> MetaRank]
  <2>1. j \in Job /\ queue \in Seq(Job) /\ queue # << >> /\ j = queue[1]
        /\ queue' = Tail(queue)
    BY <1>2 DEF TypeOK, BeginSend
  <2>2. requested[j.fid] = j.path
    BY <2>1 DEF Origin, ServerOrigin
  <2>3. \/ /\ work' = [work EXCEPT ![w] = s] /\ network' = network
           /\ disk[j.path] # 0
        \/ work' = work /\ network' = network \union Aborted(s)
    BY <1>2 DEF BeginSend, Servable
  <2>4. UNCHANGED <<disk, versions, requests, requested, buffers, local, failed>>
    BY <1>2 DEF BeginSend
  <2>5. \A i \in 1 .. Len(queue') : requested[queue'[i].fid] = queue'[i].path
    <3>1. \A i \in 1 .. Len(queue) : requested[queue[i].fid] = queue[i].path
      BY DEF Origin, ServerOrigin
    <3> QED
      BY <2>1, <3>1
  <2>6. ServerOrigin'
    <3>1. disk[j.path] # 0 => OnRecord(enc)
      BY <2>1 DEF Origin, ServerOrigin, OnRecord, Job
    <3>2. s.fid = j.fid /\ s.enc = enc /\ enc.fid = j.fid /\ enc.path = j.path
      OBVIOUS
    <3> HIDE DEF s, enc, j
    <3>3. \A v \in Workers : work'[v] # Idle =>
             /\ work'[v].enc.fid = work'[v].fid /\ requested[work'[v].fid] = work'[v].enc.path
             /\ OnRecord(work'[v].enc)
      BY <2>2, <2>3, <3>1, <3>2 DEF Origin, ServerOrigin, TypeOK
    <3> QED
      BY <2>4, <2>5, <3>3 DEF Origin, ServerOrigin, OnRecord
  <2>7. NetworkOrigin'
    BY <2>3, <2>4 DEF Origin, NetworkOrigin, Aborted, MessageOf, OnRecord
  <2>8. BufferOrigin'
    BY <2>4 DEF Origin, BufferOrigin, OnRecord, Pending
  <2> QED
    BY <2>4, <2>6, <2>7, <2>8, FilesFrame DEF Origin
<1>3. ASSUME NEW w \in Workers, PublishNext(w)
      PROVE (Origin /\ AuthenticContent /\ DamageReported)'
  <2>1. /\ work[w] \in Sending /\ work[w] # Idle
        /\ network' = network \union {MessageOf(work[w], work[w].next)}
        /\ work' = [work EXCEPT ![w] = Advance(work[w])]
        /\ UNCHANGED <<disk, versions, requests, queue, requested, buffers, local, failed>>
    BY <1>3 DEF TypeOK, PublishNext
  <2>2. Advance(work[w]) = Idle \/
        (Advance(work[w]).fid = work[w].fid /\ Advance(work[w]).enc = work[w].enc)
    BY <2>1 DEF Advance, Sending
  <2>3. ServerOrigin'
    BY <2>1, <2>2 DEF Origin, ServerOrigin, OnRecord, TypeOK
  <2>4. NetworkOrigin'
    BY <2>1 DEF Origin, ServerOrigin, NetworkOrigin, MessageOf, OnRecord, Sending
  <2>5. BufferOrigin'
    BY <2>1 DEF Origin, BufferOrigin, OnRecord, Pending
  <2> QED
    BY <2>1, <2>3, <2>4, <2>5, FilesFrame DEF Origin
<1> QED
  BY <1>1, <1>2, <1>3, AuthOrigin DEF ServerStep

\* _handle_tree draws ids nothing refers to yet.
LEMMA HandleTreeOrigin == IInv /\ HandleTree => (Origin /\ AuthenticContent /\ DamageReported)'
<1> SUFFICES ASSUME IInv, HandleTree PROVE (Origin /\ AuthenticContent /\ DamageReported)'
  OBVIOUS
<1> USE DEF IInv
<1>1. UNCHANGED <<disk, versions, queue, work, network, local, failed>>
  BY DEF HandleTree, serverVars
<1>2. AuthenticContent' /\ DamageReported'
  BY <1>1, FilesFrame
<1>3. CASE UNCHANGED <<requests, buffers, requested>>
  BY <1>1, <1>2, <1>3, OriginFrame
<1>4. CASE \E fetch \in SUBSET Paths : \E id \in [fetch -> FreshFids] :
              IsInjective(id) /\ RequestFiles(fetch, id)
  <2> PICK fetch \in SUBSET Paths : \E id \in [fetch -> FreshFids] :
             IsInjective(id) /\ RequestFiles(fetch, id)
    BY <1>4
  <2> PICK id \in [fetch -> FreshFids] : IsInjective(id) /\ RequestFiles(fetch, id)
    OBVIOUS
  <2> DEFINE drawn(f) == \E p \in fetch : id[p] = f
             pathOf(f) == CHOOSE p \in fetch : id[p] = f
  <2>1. /\ requests' = requests \union
             {[fid |-> id[p], path |-> p, again |-> FALSE] : p \in fetch}
        /\ requested' = [f \in Fids |-> IF drawn(f) THEN pathOf(f) ELSE requested[f]]
        /\ buffers' = [f \in Fids |-> IF drawn(f) THEN EmptyBuffer(pathOf(f)) ELSE buffers[f]]
    BY DEF RequestFiles
  <2>2. \A p \in fetch : pathOf(id[p]) = p /\ id[p] \in Fids /\ requested[id[p]] = NoPath
    BY DEF IsInjective, FreshFids
  <2>3. \A f \in Fids : drawn(f) => pathOf(f) \in Paths /\ requested[f] = NoPath
    BY DEF FreshFids
  <2>4. \A p \in fetch : requested'[id[p]] = p
    BY <2>1, <2>2
  <2> HIDE DEF drawn, pathOf
  <2>5. \A f \in Fids : requested[f] \in Paths => requested'[f] = requested[f]
    BY <2>1, <2>3, SentinelsAssumption
  <2>6. ServerOrigin'
    <3>1. \A r \in requests' : requested'[r.fid] = r.path
      <4>1. \A r \in requests : r.fid \in Fids /\ r.path \in Paths
                                /\ requested[r.fid] = r.path
        BY DEF Origin, ServerOrigin, TypeOK, Request
      <4> QED
        BY <2>1, <2>4, <2>5, <4>1
    <3>2. \A i \in 1 .. Len(queue) : requested'[queue[i].fid] = queue[i].path
      <4>1. \A i \in 1 .. Len(queue) : queue[i] \in Job
        BY DEF TypeOK
      <4> QED
        BY <2>5, <4>1 DEF Origin, ServerOrigin, Job
    <3>3. \A w \in Workers : work[w] # Idle => requested'[work[w].fid] = work[w].enc.path
      <4>1. \A w \in Workers : work[w] # Idle =>
               work[w].fid \in Fids /\ work[w].enc.path \in Paths
        BY DEF TypeOK, Sending, Encryption
      <4> QED
        BY <2>5, <4>1 DEF Origin, ServerOrigin
    <3> QED
      BY <1>1, <3>1, <3>2, <3>3 DEF Origin, ServerOrigin, OnRecord
  <2>7. NetworkOrigin'
    <3>1. \A m \in network : m.enc.path \in Paths
      BY DEF TypeOK, Message, Encryption
    <3> QED
      BY <1>1, <2>5, <3>1 DEF Origin, NetworkOrigin, OnRecord
  <2>8. BufferOrigin'
    <3> SUFFICES ASSUME NEW f \in Fids, buffers'[f] # NoBuffer
                 PROVE  /\ requested'[f] = buffers'[f].path
                        /\ \A r \in ChunkRanks : buffers'[f].chunks[r] # NoChunk =>
                             /\ buffers'[f].chunks[r].fid = f
                             /\ buffers'[f].chunks[r].path = requested'[f]
                             /\ OnRecord(buffers'[f].chunks[r])
      BY <1>1 DEF BufferOrigin, Pending, OnRecord
    <3>1. CASE drawn(f)
      BY <2>1, <2>3, <3>1 DEF EmptyBuffer
    <3>2. CASE ~drawn(f)
      BY <2>1, <3>2 DEF Origin, BufferOrigin, Pending
    <3> QED
      BY <3>1, <3>2
  <2> QED
    BY <1>2, <2>6, <2>7, <2>8 DEF Origin
<1> QED
  BY <1>3, <1>4, HandleTreeCases

\* What a transfer that decrypts is decoded to: a version of the file its id
\* was drawn for, undamaged.
LEMMA DecodedOrigin ==
    ASSUME TypeOK, Origin, NEW f \in Pending, Decrypts(f)
    PROVE  /\ Decoded(f).path = requested[f] /\ Decoded(f).path = buffers[f].path
           /\ <<Decoded(f).path, Decoded(f).ver>> \in versions
           /\ Decoded(f).form \in {"plain", "raw"}
<1>1. 1 \in ChunkRanks
  BY ChunksAssumption DEF ChunkRanks
<1>2. buffers[f].chunks[1] # NoChunk /\ \A r \in ChunkRanks : buffers[f].chunks[r] = buffers[f].chunks[1]
  BY <1>1 DEF Decrypts
<1>3. buffers[f].chunks[1].path = requested[f] /\ requested[f] = buffers[f].path
      /\ OnRecord(buffers[f].chunks[1])
  BY <1>1, <1>2 DEF Origin, BufferOrigin
<1> QED
  BY <1>2, <1>3 DEF Decoded, OnRecord

\* The client's handlers store chunks where they belong and write them there.
LEMMA ClientOrigin ==
    ASSUME IInv, NEW m \in network,
           HandleFileMeta(m) \/ HandleFileChunk(m) \/ HandleFileDone(m) \/ HandleFileAbort(m)
    PROVE  (Origin /\ AuthenticContent /\ DamageReported)'
<1> USE DEF IInv, serverVars
<1>1. /\ network' = network \ {m} /\ UNCHANGED <<disk, versions, requests, queue, work, requested>>
  BY DEF HandleFileMeta, HandleFileChunk, HandleFileDone, HandleFileAbort, Receive
<1>2. ServerOrigin' /\ NetworkOrigin'
  BY <1>1 DEF Origin, ServerOrigin, NetworkOrigin, OnRecord
<1>3. CASE HandleFileMeta(m)
  <2>1. UNCHANGED <<local, failed>>
    BY <1>3 DEF HandleFileMeta
  <2>2. \A f \in Pending' : /\ f \in Pending /\ buffers'[f].path = buffers[f].path
                            /\ buffers'[f].chunks = buffers[f].chunks
    <3>1. m.fid \in Pending => /\ MergeMeta(buffers[m.fid], m.enc).path = buffers[m.fid].path
                               /\ MergeMeta(buffers[m.fid], m.enc).chunks = buffers[m.fid].chunks
      BY DEF MergeMeta, TypeOK, Pending, Buffer
    <3> QED
      BY <1>3, <3>1 DEF HandleFileMeta, Pending, TypeOK
  <2>3. BufferOrigin'
    BY <1>1, <2>2 DEF Origin, BufferOrigin, OnRecord
  <2> QED
    BY <1>1, <1>2, <2>1, <2>3, FilesFrame DEF Origin
<1>4. CASE HandleFileChunk(m)
  <2>1. UNCHANGED <<local, failed>>
    BY <1>4 DEF HandleFileChunk
  <2>2. m.rank \in ChunkRanks /\ m.rank # AbortRank
    BY <1>4, ChunksAssumption DEF HandleFileChunk, ChunkRanks, AbortRank
  <2>3. m.enc.fid = m.fid /\ requested[m.fid] = m.enc.path /\ OnRecord(m.enc)
    BY <2>2 DEF Origin, NetworkOrigin
  <2>4. \A f \in Pending' :
          /\ f \in Pending /\ buffers'[f].path = buffers[f].path
          /\ \A r \in ChunkRanks : \/ buffers'[f].chunks[r] = buffers[f].chunks[r]
                                   \/ f = m.fid /\ buffers'[f].chunks[r] = m.enc
    <3>1. \A f \in Pending : buffers[f] \in Buffer
      BY DEF TypeOK, Pending
    <3> QED
      BY <1>4, <3>1 DEF HandleFileChunk, Pending, Buffer, TypeOK
  <2>5. BufferOrigin'
    BY <1>1, <2>3, <2>4 DEF Origin, BufferOrigin, OnRecord
  <2> QED
    BY <1>1, <1>2, <2>1, <2>5, FilesFrame DEF Origin
<1>5. CASE HandleFileDone(m) \/ HandleFileAbort(m)
  <2>1. buffers' = buffers \/ buffers' = Unbuffer(m.fid)
    BY <1>5 DEF HandleFileDone, HandleFileAbort
  <2>2. BufferOrigin'
    BY <1>1, <2>1 DEF Origin, BufferOrigin, OnRecord, Pending, Unbuffer, TypeOK
  <2>3. AuthenticContent' /\ DamageReported'
    <3>1. CASE m.fid \notin Pending
      BY <1>1, <1>5, <3>1, FilesFrame DEF HandleFileDone, HandleFileAbort
    <3>2. CASE m.fid \in Pending
      <4> DEFINE l == LocalPath[buffers[m.fid].path]
      <4>1. l \in LocalPaths /\ failed \in [LocalPaths -> Nat] /\ local \in [LocalPaths -> Content]
        BY <3>2, PathsAssumption DEF TypeOK, Pending, Buffer
      <4>2. CASE Fails(m.fid)
        BY <1>1, <4>1, <4>2 DEF Fails, Report, AuthenticContent, DamageReported
      <4>3. CASE Decrypts(m.fid) /\ Writes(m.fid, l)
        <5> DEFINE d == Decoded(m.fid)
        <5>1. /\ d.path = buffers[m.fid].path /\ <<d.path, d.ver>> \in versions
              /\ d.form \notin {"garbled", "cut"}
          BY <3>2, <4>3, DecodedOrigin
        <5> DEFINE g == [d EXCEPT !.form = "cut"]
        <5>2. g.path = d.path /\ g.ver = d.ver /\ g.form = "cut"
          BY DEF Decoded
        <5>3. \/ failed' = failed /\ local' = [local EXCEPT ![l] = d]
              \/ /\ failed' = Report(failed, l)
                 /\ local' = local \/ local' = [local EXCEPT ![l] = g]
          BY <4>3 DEF Writes
        <5>6. LocalPath[d.path] = l
          BY <5>1
        <5> HIDE DEF d, g, l
        <5>4. AuthenticContent'
          <6>1. \A k \in LocalPaths : local'[k] = local[k] \/ (k = l /\ local'[k] \in {d, g})
            BY <4>1, <5>3
          <6> QED
            BY <1>1, <5>1, <5>2, <5>6, <6>1 DEF AuthenticContent
        <5>5. DamageReported'
          BY <4>1, <5>1, <5>3 DEF DamageReported, Report
        <5> QED
          BY <5>4, <5>5
      <4> QED
        BY <1>5, <3>2, <4>2, <4>3 DEF HandleFileDone, HandleFileAbort
    <3> QED
      BY <3>1, <3>2
  <2> QED
    BY <1>2, <2>2, <2>3 DEF Origin
<1> QED
  BY <1>3, <1>4, <1>5

\* The inductive invariant holds in every reachable state.
LEMMA Inductive == Spec => []IInv
<1>1. Init => IInv
  BY InitType, InitOrigin DEF IInv
<1>2. IInv /\ [Next]_vars => IInv'
  <2>1. CASE Next
    <3>1. IInv /\ Next => TypeOK'
      BY HandleTreeType, AuthType, ClientType, ServerType, EnvironmentType
         DEF Next, ClientStep, IInv
    <3>2. IInv /\ Next => (Origin /\ AuthenticContent /\ DamageReported)'
      BY HandleTreeOrigin, AuthOrigin, ClientOrigin, ServerStepOrigin, EnvironmentOrigin
         DEF Next, ClientStep
    <3> QED
      BY <2>1, <3>1, <3>2 DEF IInv
  <2>2. CASE UNCHANGED vars
    <3>1. IInv => TypeOK' /\ Origin'
      <4>1. IInv => TypeOK'
        BY <2>2 DEF vars, IInv, TypeOK
      <4>2. IInv => Origin'
        BY <2>2 DEF vars, IInv, Origin, ServerOrigin, NetworkOrigin, BufferOrigin, OnRecord, Pending
      <4> QED
        BY <4>1, <4>2
    <3> QED
      BY <2>2, <3>1, FilesFrame DEF vars, IInv
  <2> QED
    BY <2>1, <2>2
<1> QED
  BY <1>1, <1>2, PTL DEF Spec

\* Whatever the network loses, repeats or reorders and however many executor
\* threads run, a local file only ever holds the bytes of one version of its own
\* server file, whole, still compressed or cut short by a failing write: never a
\* mixture of two versions, files or encryptions (_handle_file_chunk keys chunks by file id, decrypt_data
\* authenticates them).
THEOREM ContentIsAuthentic == Spec => []AuthenticContent
BY Inductive, PTL DEF IInv

\* A file damaged by a failing write is always reported in files_failed.
THEOREM DamageIsReported == Spec => []DamageReported
BY Inductive, PTL DEF IInv

-----------------------------------------------------------------------------
(* Each request is reported once.                                          *)

\* Steps that finish no request and report nothing keep the account.
LEMMA AccountFrame ==
    ASSUME ResultAccounting, UNCHANGED <<downloaded, failed>>,
           \A f \in Fids : (requested'[f] # NoPath /\ buffers'[f] = NoBuffer)
                             <=> (requested[f] # NoPath /\ buffers[f] = NoBuffer),
           \A f \in Fids : (requested[f] # NoPath /\ buffers[f] = NoBuffer)
                             => requested'[f] = requested[f]
    PROVE  ResultAccounting'
<1>1. \A l \in LocalPaths : Finished(l)' = Finished(l)
  BY DEF Finished
<1> QED
  BY <1>1 DEF ResultAccounting

\* A pending request that leaves the buffers and is reported keeps the account.
LEMMA AccountFinish ==
    ASSUME TypeOK, Origin, ResultAccounting, NEW f \in Pending, NEW l \in LocalPaths,
           l = LocalPath[buffers[f].path],
           buffers' = Unbuffer(f), UNCHANGED requested,
           \/ downloaded' = Report(downloaded, l) /\ failed' = failed
           \/ downloaded' = downloaded /\ failed' = Report(failed, l)
    PROVE  ResultAccounting'
<1>1. /\ requested[f] \in Paths /\ requested[f] # NoPath /\ LocalPath[requested[f]] = l
      /\ f \in Fids
  BY SentinelsAssumption DEF TypeOK, Pending, Buffer, Origin, BufferOrigin
<1>2. f \notin Finished(l) /\ IsFiniteSet(Finished(l))
  <2>1. Finished(l) \subseteq Fids
    BY DEF Finished
  <2> QED
    BY <2>1, FS_Subset, FidsAssumption DEF Finished, Pending
<1>3. \A g \in Fids : buffers'[g] = NoBuffer <=> (g = f \/ buffers[g] = NoBuffer)
  BY DEF Unbuffer, TypeOK
<1>4. Finished(l)' = Finished(l) \union {f}
  BY <1>1, <1>3 DEF Finished
<1>5. \A k \in LocalPaths \ {l} : Finished(k)' = Finished(k)
  BY <1>1, <1>3 DEF Finished
<1>6. Cardinality(Finished(l)') = Cardinality(Finished(l)) + 1
  BY <1>2, <1>4, FS_AddElement
<1>7. downloaded'[l] + failed'[l] = downloaded[l] + failed[l] + 1
  BY DEF Report, TypeOK
<1>8. \A k \in LocalPaths \ {l} : downloaded'[k] = downloaded[k] /\ failed'[k] = failed[k]
  BY DEF Report, TypeOK
<1>9. \A k \in LocalPaths : downloaded'[k] + failed'[k] = Cardinality(Finished(k)')
  BY <1>5, <1>6, <1>7, <1>8 DEF ResultAccounting
<1> QED
  BY <1>9 DEF ResultAccounting

\* Every step keeps the account.
LEMMA AccountStep == IInv /\ ResultAccounting /\ [Next]_vars => ResultAccounting'
<1> SUFFICES ASSUME IInv, ResultAccounting, [Next]_vars PROVE ResultAccounting'
  OBVIOUS
<1> USE DEF IInv
<1>1. CASE UNCHANGED <<requested, buffers, downloaded, failed>>
  BY <1>1, AccountFrame
<1>2. CASE HandleTree
  <2>1. UNCHANGED <<downloaded, failed>>
    BY <1>2 DEF HandleTree
  <2>2. CASE \E fetch \in SUBSET Paths : \E id \in [fetch -> FreshFids] :
               IsInjective(id) /\ RequestFiles(fetch, id)
    <3> PICK fetch \in SUBSET Paths : \E id \in [fetch -> FreshFids] :
               IsInjective(id) /\ RequestFiles(fetch, id)
      BY <2>2
    <3> PICK id \in [fetch -> FreshFids] : IsInjective(id) /\ RequestFiles(fetch, id)
      OBVIOUS
    <3> DEFINE drawn(f) == \E p \in fetch : id[p] = f
               pathOf(f) == CHOOSE p \in fetch : id[p] = f
    <3>1. /\ requested' = [f \in Fids |-> IF drawn(f) THEN pathOf(f) ELSE requested[f]]
          /\ buffers' = [f \in Fids |-> IF drawn(f) THEN EmptyBuffer(pathOf(f)) ELSE buffers[f]]
      BY DEF RequestFiles
    <3>2. \A f \in Fids : drawn(f) => pathOf(f) \in Paths /\ requested[f] = NoPath
      BY DEF FreshFids
    <3> HIDE DEF drawn, pathOf
    <3>3. \A f \in Fids : drawn(f) => EmptyBuffer(pathOf(f)) # NoBuffer
      BY <3>2, BufferTypes, SentinelsAssumption
    <3> QED
      BY <2>1, <3>1, <3>2, <3>3, AccountFrame
  <2> QED
    BY <1>1, <1>2, <2>1, <2>2, HandleTreeCases
<1>3. ASSUME NEW m \in network, HandleFileMeta(m) \/ HandleFileChunk(m) PROVE ResultAccounting'
  <2>1. UNCHANGED <<requested, downloaded, failed>>
    BY <1>3 DEF HandleFileMeta, HandleFileChunk
  <2>2. TypeOK'
    BY <1>3, ClientType
  <2>3. \A f \in Fids : buffers'[f] = NoBuffer <=> buffers[f] = NoBuffer
    <3>1. CASE HandleFileMeta(m)
      <4>1. m.fid \in Pending => MergeMeta(buffers[m.fid], m.enc) \in Buffer
        BY BufferTypes DEF TypeOK, Pending, Message
      <4> QED
        BY <3>1, <4>1, SentinelsAssumption DEF HandleFileMeta, Pending, TypeOK
    <3>2. CASE HandleFileChunk(m)
      <4>1. m.fid \in Pending =>
              [buffers[m.fid] EXCEPT !.chunks[m.rank] = m.enc] \in Buffer
        BY <3>2 DEF TypeOK, Pending, Buffer, HandleFileChunk, Message
      <4> QED
        BY <3>2, <4>1, SentinelsAssumption DEF HandleFileChunk, Pending, TypeOK
    <3> QED
      BY <1>3, <3>1, <3>2
  <2> QED
    BY <2>1, <2>3, AccountFrame
<1>4. ASSUME NEW m \in network, HandleFileDone(m) \/ HandleFileAbort(m) PROVE ResultAccounting'
  <2>1. CASE m.fid \notin Pending
    BY <1>1, <1>4, <2>1 DEF HandleFileDone, HandleFileAbort
  <2>2. CASE m.fid \in Pending
    <3> DEFINE l == LocalPath[buffers[m.fid].path]
    <3>1. l \in LocalPaths
      BY <2>2, PathsAssumption DEF TypeOK, Pending, Buffer
    <3>2. buffers' = Unbuffer(m.fid) /\ UNCHANGED requested
      BY <1>4, <2>2 DEF HandleFileDone, HandleFileAbort
    <3>3. Fails(m.fid) \/ Writes(m.fid, l)
      BY <1>4, <2>2 DEF HandleFileDone, HandleFileAbort
    <3>4. \/ downloaded' = Report(downloaded, l) /\ failed' = failed
          \/ downloaded' = downloaded /\ failed' = Report(failed, l)
      BY <3>3, WritesReports DEF Fails
    <3> HIDE DEF l
    <3> QED
      BY <2>2, <3>1, <3>2, <3>4, AccountFinish DEF l
  <2> QED
    BY <2>1, <2>2
<1>5. CASE HandleAuthResult \/ ServerStep \/ Environment
  BY <1>1, <1>5 DEF ServerStep, Environment, clientVars, HandleFileRequest, BeginSend,
     PublishNext, HandleAuthResult, HandleAuthResponse, ServerEdit, OtherClientAborted, OnFilesystemChanged, RepublishTree,
     OpenChallenge, TimeoutChallenge, ServerStop, LoseMessage, RepeatMessage, LoseRequest,
     RepeatRequest, LoseTree
<1>6. CASE UNCHANGED vars
  BY <1>1, <1>6 DEF vars
<1> QED
  BY <1>2, <1>3, <1>4, <1>5, <1>6 DEF Next, ClientStep

\* Each request that left the chunk buffers is in files_downloaded or in
\* files_failed exactly once, however often done and abort arrive
\* (_chunk_buffers.pop in _handle_file_done and _handle_file_abort).
THEOREM AccountIsExact == Spec => []ResultAccounting
<1>1. Init => ResultAccounting
  <2> SUFFICES ASSUME Init PROVE ResultAccounting
    OBVIOUS
  <2>1. \A l \in LocalPaths : Finished(l) = {}
    BY DEF Init, Finished
  <2>2. \A l \in LocalPaths : downloaded[l] = 0 /\ failed[l] = 0
    BY DEF Init
  <2>3. Cardinality({}) = 0
    BY FS_EmptySet
  <2>4. \A l \in LocalPaths : downloaded[l] + failed[l] = Cardinality(Finished(l))
    BY <2>1, <2>2, <2>3
  <2> QED
    BY <2>4 DEF ResultAccounting
<1> QED
  BY <1>1, AccountStep, Inductive, PTL DEF Spec

-----------------------------------------------------------------------------
(* FileTransfer implements SyncPromise, for any files, ids and threads and *)
(* whatever the network, the server's disk and other clients do.           *)

\* Nothing is requested at first.
LEMMA InitPromise == Init => Promise!Init
<1> SUFFICES ASSUME Init PROVE Promise!Init
  OBVIOUS
<1>1. versions \in SUBSET (Paths \X Nat)
  BY InitType DEF TypeOK
<1>2. Pending = {}
  BY DEF Init, Pending
<1> QED
  BY <1>1, <1>2 DEF Init, Absent, Promise!Init

\* A step of the server or the environment at most adds versions.
LEMMA OutsidePromise ==
    ASSUME TypeOK, TypeOK', ServerStep \/ Environment
    PROVE  Promise!Change
<1>1. UNCHANGED clientVars
  BY DEF ServerStep, Environment, HandleFileRequest, HandleAuthResponse, BeginSend,
     PublishNext, ServerEdit, OtherClientAborted, OnFilesystemChanged, RepublishTree,
     OpenChallenge, TimeoutChallenge, ServerStop, LoseMessage, RepeatMessage, LoseRequest,
     RepeatRequest, LoseTree
<1>2. versions \subseteq versions'
  BY DEF ServerStep, Environment, HandleFileRequest, HandleAuthResponse, BeginSend,
     serverVars, PublishNext, ServerEdit, OtherClientAborted, OnFilesystemChanged, RepublishTree,
     OpenChallenge, TimeoutChallenge, ServerStop, LoseMessage, RepeatMessage, LoseRequest,
     RepeatRequest, LoseTree
<1>3. Pending' = Pending
  BY <1>1 DEF clientVars, Pending
<1> QED
  BY <1>1, <1>2, <1>3 DEF TypeOK, clientVars, Promise!Change

\* Handling a tree asks for the files it lacks, under fresh ids.
LEMMA HandleTreePromise ==
    ASSUME IInv, HandleTree
    PROVE  Promise!Next \/ UNCHANGED Promise!vars
<1>1. UNCHANGED <<versions, local, downloaded, failed>>
  BY DEF HandleTree, serverVars
<1>2. CASE UNCHANGED <<requested, buffers>>
  BY <1>1, <1>2 DEF Pending, Promise!vars
<1>3. CASE \E fetch \in SUBSET Paths : \E id \in [fetch -> FreshFids] :
             IsInjective(id) /\ RequestFiles(fetch, id)
  <2> PICK fetch \in SUBSET Paths : \E id \in [fetch -> FreshFids] :
             IsInjective(id) /\ RequestFiles(fetch, id)
    BY <1>3
  <2> PICK id \in [fetch -> FreshFids] : IsInjective(id) /\ RequestFiles(fetch, id)
    OBVIOUS
  <2> DEFINE drawn(f) == \E p \in fetch : id[p] = f
             pathOf(f) == CHOOSE p \in fetch : id[p] = f
             ids == {f \in Fids : drawn(f)}
             path == [f \in ids |-> pathOf(f)]
  <2>1. /\ requested' = [f \in Fids |-> IF drawn(f) THEN pathOf(f) ELSE requested[f]]
        /\ buffers' = [f \in Fids |-> IF drawn(f) THEN EmptyBuffer(pathOf(f)) ELSE buffers[f]]
    BY DEF RequestFiles
  <2>2. \A f \in Fids : drawn(f) => pathOf(f) \in Paths /\ requested[f] = NoPath
    BY DEF FreshFids
  <2> HIDE DEF drawn, pathOf
  <2>3. \A f \in Fids : drawn(f) => EmptyBuffer(pathOf(f)) # NoBuffer
    BY <2>2, BufferTypes, SentinelsAssumption
  <2>4. Pending' = Pending \union ids
    BY <2>1, <2>3 DEF Pending
  <2>5. path \in [ids -> Paths]
    BY <2>2
  <2>6. requested' = [f \in Fids |-> IF f \in ids THEN path[f] ELSE requested[f]]
    BY <2>1
  <2>7. Promise!Ask(ids)
    BY <1>1, <2>2, <2>4, <2>5, <2>6 DEF Promise!Ask
  <2> QED
    BY <2>7 DEF Promise!Next
<1> QED
  BY <1>2, <1>3, HandleTreeCases

\* Meta and chunks change nothing the promise speaks of.
LEMMA ReceivePromise ==
    ASSUME IInv, NEW m \in network, HandleFileMeta(m) \/ HandleFileChunk(m)
    PROVE  UNCHANGED Promise!vars
<1>1. UNCHANGED <<versions, requested, local, downloaded, failed>>
  BY DEF HandleFileMeta, HandleFileChunk, serverVars
<1>2. m.fid \in Pending =>
        /\ MergeMeta(buffers[m.fid], m.enc) # NoBuffer
        /\ m.rank \in ChunkRanks => [buffers[m.fid] EXCEPT !.chunks[m.rank] = m.enc] # NoBuffer
  <2> SUFFICES ASSUME m.fid \in Pending
               PROVE  /\ MergeMeta(buffers[m.fid], m.enc) # NoBuffer
                      /\ m.rank \in ChunkRanks =>
                           [buffers[m.fid] EXCEPT !.chunks[m.rank] = m.enc] # NoBuffer
    OBVIOUS
  <2>1. buffers[m.fid] \in Buffer /\ m.enc \in Encryption
    BY DEF IInv, TypeOK, Pending, Message
  <2>2. MergeMeta(buffers[m.fid], m.enc) \in Buffer
    BY <2>1, BufferTypes
  <2>3. m.rank \in ChunkRanks => [buffers[m.fid] EXCEPT !.chunks[m.rank] = m.enc] \in Buffer
    BY <2>1 DEF Buffer
  <2> QED
    BY <2>2, <2>3, SentinelsAssumption
<1>3. \A f \in Fids : buffers'[f] = NoBuffer <=> buffers[f] = NoBuffer
  <2>1. CASE HandleFileMeta(m)
    BY <1>2, <2>1 DEF HandleFileMeta, IInv, TypeOK, Pending
  <2>2. CASE HandleFileChunk(m)
    BY <1>2, <2>2 DEF HandleFileChunk, IInv, TypeOK, Pending
  <2> QED
    BY <2>1, <2>2
<1>4. Pending' = Pending
  BY <1>3 DEF Pending
<1> QED
  BY <1>1, <1>4 DEF Promise!vars

\* A transfer that ends downloads a version on record to its destination, or
\* fails, with the destination intact or damaged by that version.
LEMMA FinishPromise ==
    ASSUME IInv, NEW m \in network, HandleFileDone(m) \/ HandleFileAbort(m)
    PROVE  Promise!Next \/ UNCHANGED Promise!vars
<1>1. UNCHANGED <<versions, requested>>
  BY DEF HandleFileDone, HandleFileAbort, serverVars
<1>2. CASE m.fid \notin Pending
  BY <1>1, <1>2 DEF HandleFileDone, HandleFileAbort, Pending, Promise!vars
<1>3. CASE m.fid \in Pending
  <2> DEFINE f == m.fid
             l == LocalPath[buffers[f].path]
  <2>1. f \in Fids /\ requested[f] = buffers[f].path
    BY <1>3 DEF IInv, Origin, BufferOrigin, Pending
  <2>2. l = Promise!Destination(f)
    BY <2>1 DEF Promise!Destination
  <2>3. buffers' = Unbuffer(f)
    BY <1>3 DEF HandleFileDone, HandleFileAbort
  <2>4. Pending' = Pending \ {f}
    BY <2>1, <2>3 DEF Unbuffer, Pending, IInv, TypeOK
  <2>5. ASSUME Fails(f) PROVE Promise!Fail(f)
    BY <1>1, <1>3, <2>2, <2>4, <2>5 DEF Fails, Report, Promise!Fail
  <2>6. ASSUME Decrypts(f), Writes(f, l) PROVE Promise!Download(f) \/ Promise!Fail(f)
    <3> DEFINE d == Decoded(f)
               v == <<d.path, d.ver>>
    <3>1. /\ d.path = requested[f] /\ v \in versions /\ d.form \in {"plain", "raw"}
      BY <1>3, <2>6, DecodedOrigin DEF IInv
    <3>2. d = [path |-> requested[f], ver |-> v[2], form |-> d.form]
      BY <3>1 DEF Decoded
    <3>3. [d EXCEPT !.form = "cut"]
            = [path |-> requested[f], ver |-> v[2], form |-> "cut"]
      <4> HIDE DEF d, v
      <4> QED
        BY <3>2
    <3>4. CASE /\ local' = [local EXCEPT ![l] = d]
               /\ downloaded' = Report(downloaded, l)
               /\ UNCHANGED failed
      <4> HIDE DEF d
      <4> QED
        BY <1>1, <1>3, <2>2, <2>4, <3>1, <3>2, <3>4 DEF Report, Promise!Download
    <3>5. CASE /\ failed' = Report(failed, l)
               /\ \/ UNCHANGED local
                  \/ local' = [local EXCEPT ![l] = [d EXCEPT !.form = "cut"]]
               /\ UNCHANGED downloaded
      <4> HIDE DEF d
      <4> QED
        BY <1>1, <1>3, <2>2, <2>4, <3>1, <3>3, <3>5 DEF Report, Promise!Fail
    <3> QED
      BY <2>6, <3>4, <3>5 DEF Writes
  <2>7. Fails(f) \/ (Decrypts(f) /\ Writes(f, l))
    BY <1>3 DEF HandleFileDone, HandleFileAbort
  <2> QED
    BY <2>1, <2>5, <2>6, <2>7 DEF Promise!Next
<1> QED
  BY <1>2, <1>3

\* Every step of the transfer is a step of the promise or leaves what the
\* promise speaks of alone.
LEMMA StepPromise ==
    ASSUME IInv, IInv', [Next]_vars
    PROVE  [Promise!Next]_(Promise!vars)
<1>1. CASE ServerStep \/ Environment
  BY <1>1, OutsidePromise DEF IInv, Promise!Next
<1>2. CASE ClientStep
  <2>1. HandleAuthResult => UNCHANGED Promise!vars
    BY DEF HandleAuthResult, Pending, Promise!vars
  <2> QED
    BY <1>2, <2>1, HandleTreePromise, ReceivePromise, FinishPromise DEF ClientStep
<1>3. CASE UNCHANGED vars
  BY <1>3 DEF vars, Pending, Promise!vars
<1> QED
  BY <1>1, <1>2, <1>3 DEF Next

\* Serving files keeps its promise: whatever is lost, repeated, reordered or
\* aborted, a request is finished and counted once, with a version of its own
\* file at its own destination (_handle_tree, _handle_file_done,
\* _handle_file_abort).
THEOREM KeepsPromise == Spec => PromiseSpec
<1>1. IInv /\ IInv' /\ [Next]_vars => [Promise!Next]_(Promise!vars)
  BY StepPromise
<1> QED
  BY <1>1, InitPromise, Inductive, PTL DEF Spec, PromiseSpec, Promise!Spec

=============================================================================
