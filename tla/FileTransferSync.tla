-------------------------- MODULE FileTransferSync --------------------------
(***************************************************************************)
(* What a finished sync left on the client, for any files, ids, threads    *)
(* and chunks: compressed bytes are written only after a message was lost  *)
(* or repeated, a complete sync has or reports every file, and without     *)
(* faults no request is forgotten.                                         *)
(***************************************************************************)
EXTENDS FileTransferProofs

-----------------------------------------------------------------------------
(* While nothing was lost or repeated, on a broker that keeps the order.   *)

Clean == Ordered /\ count["lost"] + count["again"] = 0

\* The encryptions executor threads, messages and chunk buffers hold.
Carried ==
    {work[w].enc : w \in {v \in Workers : work[v] # Idle}} \union
    {m.enc : m \in {n \in network : n.rank # AbortRank}} \union
    ({buffers[f].chunks[r] : f \in Pending, r \in ChunkRanks} \ {NoChunk})

\* The file ids whose job has not begun.
Waiting == {r.fid : r \in requests} \union {queue[i].fid : i \in 1 .. Len(queue)}

\* Each id waits in one place and is encrypted for once.
OneJob ==
    /\ \A r \in requests : ~r.again /\ \A i \in 1 .. Len(queue) : queue[i].fid # r.fid
    /\ \A i, k \in 1 .. Len(queue) : queue[i].fid = queue[k].fid => i = k
    /\ \A e \in Carried : e.fid \notin Waiting
    /\ \A e, g \in Carried : e.fid = g.fid => e = g

\* The encryptions of which more than the meta was published.
Begun ==
    {work[w].enc : w \in {v \in Workers : work[v] # Idle /\ work[v].next # MetaRank}} \union
    {m.enc : m \in {n \in network : n.rank \notin {MetaRank, AbortRank}}}

\* The meta of e is still to come, was merged, or finds no buffer.
MetaSeen(e) ==
    \/ \E n \in network : n.rank = MetaRank /\ n.enc = e
    \/ e.fid \notin Pending
    \/ buffers[e.fid].compressed = e.packed

\* No chunk overtakes the meta of its transfer.
MetaFirst ==
    /\ \A m \in network : ~m.again
    /\ \A e \in Begun : MetaSeen(e)
    /\ \A f \in Pending, r \in ChunkRanks :
         buffers[f].chunks[r] # NoChunk => buffers[f].compressed = buffers[f].chunks[r].packed

NoRaw == \A l \in LocalPaths : local[l].form # "raw"

RInv == Clean => OneJob /\ MetaFirst /\ NoRaw

-----------------------------------------------------------------------------
(* The order of meta and chunks.                                           *)

\* A clean state is reached over clean ones only, and not by a loss or repeat.
LEMMA SpendClean ==
    ASSUME TypeOK, NEW what \in Counted, NEW bound, Spend(what, bound), Clean'
    PROVE  Clean /\ what \notin {"lost", "again"}
<1>1. /\ count["lost"] \in Nat /\ count["again"] \in Nat
      /\ count'["lost"] = count["lost"] + (IF what = "lost" THEN 1 ELSE 0)
      /\ count'["again"] = count["again"] + (IF what = "again" THEN 1 ELSE 0)
  BY DEF TypeOK, Spend, Counted
<1> QED
  BY <1>1 DEF Clean

LEMMA SameClean ==
    ASSUME UNCHANGED count, Clean'
    PROVE  Clean
BY DEF Clean

\* Requests and jobs that end, and holders that end, leave one job per id.
LEMMA OneJobFrame ==
    ASSUME OneJob, requests' \subseteq requests, UNCHANGED queue \/ queue' = << >>,
           Carried' \subseteq Carried
    PROVE  OneJob'
<1>1. Waiting' \subseteq Waiting
  BY DEF Waiting
<1> QED
  BY <1>1 DEF OneJob

\* What is carried is an encryption under the id of its holder.
LEMMA CarriedTypes ==
    ASSUME IInv
    PROVE  /\ \A e \in Carried : e \in Encryption /\ e.fid \in Fids
                                 /\ requested[e.fid] \in Paths
           /\ Begun \subseteq Carried
           /\ Waiting \subseteq Fids /\ \A f \in Waiting : requested[f] \in Paths
<1> USE DEF IInv, TypeOK, Origin
<1>1. \A w \in Workers : work[w] # Idle =>
         /\ work[w].enc \in Encryption /\ work[w].enc.fid \in Fids
         /\ requested[work[w].enc.fid] \in Paths
  BY DEF ServerOrigin, Sending, Encryption
<1>2. \A m \in network : m.rank # AbortRank =>
         m.enc \in Encryption /\ m.enc.fid \in Fids /\ requested[m.enc.fid] \in Paths
  BY DEF NetworkOrigin, Message, Encryption
<1>3. \A f \in Pending, r \in ChunkRanks : buffers[f].chunks[r] # NoChunk =>
         /\ buffers[f].chunks[r] \in Encryption /\ buffers[f].chunks[r].fid \in Fids
         /\ requested[buffers[f].chunks[r].fid] \in Paths
  BY DEF BufferOrigin, Pending, Buffer, Encryption
<1>4. \A e \in Carried : e \in Encryption /\ e.fid \in Fids /\ requested[e.fid] \in Paths
  BY <1>1, <1>2, <1>3 DEF Carried
<1>5. Begun \subseteq Carried
  BY DEF Begun, Carried
<1>6. Waiting \subseteq Fids /\ \A f \in Waiting : requested[f] \in Paths
  <2>1. \A r \in requests : r.fid \in Fids /\ requested[r.fid] \in Paths
    BY DEF ServerOrigin, Request
  <2>2. \A i \in 1 .. Len(queue) : queue[i].fid \in Fids /\ requested[queue[i].fid] \in Paths
    <3>1. \A i \in 1 .. Len(queue) : queue[i] \in Job
      OBVIOUS
    <3> QED
      BY <3>1 DEF ServerOrigin, Job
  <2> QED
    BY <2>1, <2>2 DEF Waiting
<1> QED
  BY <1>4, <1>5, <1>6

\* Nothing is in flight at first.
LEMMA InitRaw == Init => RInv
<1> SUFFICES ASSUME Init PROVE OneJob /\ MetaFirst /\ NoRaw
  BY DEF RInv
<1>1. Carried = {} /\ Begun = {} /\ Waiting = {} /\ Pending = {}
  BY DEF Init, Carried, Begun, Waiting, Pending
<1> QED
  BY <1>1 DEF Init, OneJob, MetaFirst, NoRaw, Absent

\* Steps that touch none of it keep it.
LEMMA RawFrame ==
    ASSUME RInv, Clean, UNCHANGED <<requests, queue, work, network, buffers, local>>
    PROVE  (OneJob /\ MetaFirst /\ NoRaw)'
<1>1. Carried' = Carried /\ Begun' = Begun /\ Pending' = Pending
  BY DEF Carried, Begun, Pending
<1>2. OneJob'
  BY <1>1, OneJobFrame DEF RInv
<1>3. MetaFirst'
  BY <1>1 DEF RInv, MetaFirst, MetaSeen
<1> QED
  BY <1>2, <1>3 DEF RInv, NoRaw

\* A stop keeps the meta of every chunk it keeps; other clients' aborts carry
\* nothing; losses and repeats are out of the question.
LEMMA EnvironmentRaw == IInv /\ RInv /\ Environment => RInv'
<1> SUFFICES ASSUME IInv, RInv, Environment, Clean' PROVE (OneJob /\ MetaFirst /\ NoRaw)'
  BY DEF RInv
<1> USE DEF clientVars, serverVars, authVars
<1>0. TypeOK
  BY DEF IInv
<1>1. ASSUME NEW p \in Paths, ServerEdit(p) PROVE (OneJob /\ MetaFirst /\ NoRaw)'
  BY <1>0, <1>1, SpendClean, RawFrame DEF ServerEdit, Counted
<1>2. ASSUME NEW p \in Paths, OtherClientAborted(p) PROVE (OneJob /\ MetaFirst /\ NoRaw)'
  <2>1. Clean /\ UNCHANGED <<requests, queue, work, buffers, local>>
    BY <1>0, <1>2, SpendClean DEF OtherClientAborted, Counted
  <2>2. PICK a : a.rank = AbortRank /\ ~a.again /\ network' = network \union {a}
    BY <1>2 DEF OtherClientAborted
  <2>3. Carried' = Carried /\ Begun' = Begun /\ Pending' = Pending
    BY <2>1, <2>2 DEF Carried, Begun, Pending
  <2>4. MetaFirst'
    BY <2>1, <2>2, <2>3 DEF RInv, MetaFirst, MetaSeen
  <2> QED
    BY <2>1, <2>3, <2>4, OneJobFrame DEF RInv, NoRaw
<1>3. CASE OnFilesystemChanged \/ RepublishTree \/ OpenChallenge \/ TimeoutChallenge
  BY <1>0, <1>3, SpendClean, SameClean, RawFrame
     DEF OnFilesystemChanged, RepublishTree, OpenChallenge, TimeoutChallenge, Counted
<1>4. CASE ServerStop
  <2>1. Clean /\ UNCHANGED <<requests, buffers, local>> /\ queue' = << >>
    BY <1>0, <1>4, SpendClean DEF ServerStop, Counted
  <2>2. /\ \A w \in Workers : work'[w] = Idle
        /\ network' \subseteq network /\ PublishedPrefix(network')
    BY <1>4 DEF ServerStop
  <2>3. Carried' \subseteq Carried /\ Begun' \subseteq Begun /\ Pending' = Pending
    BY <2>1, <2>2 DEF Carried, Begun, Pending
  <2>4. \A e \in Begun' : MetaSeen(e)'
    <3> SUFFICES ASSUME NEW e \in Begun' PROVE MetaSeen(e)'
      OBVIOUS
    <3>1. PICK m \in network' : m.rank \notin {MetaRank, AbortRank} /\ m.enc = e
      BY <2>2 DEF Begun
    <3>2. m.rank > MetaRank
      BY <2>2, <3>1, <1>0 DEF TypeOK, Message, MetaRank, AbortRank
    <3>3. \A n \in network : n.rank = MetaRank /\ n.enc = e => n \in network'
      BY <2>2, <3>1, <3>2 DEF PublishedPrefix
    <3>4. MetaSeen(e)
      BY <2>1, <2>3 DEF RInv, MetaFirst
    <3> QED
      BY <2>1, <2>3, <3>3, <3>4 DEF MetaSeen
  <2>5. MetaFirst'
    BY <2>1, <2>2, <2>3, <2>4 DEF RInv, MetaFirst
  <2> QED
    BY <2>1, <2>3, <2>5, OneJobFrame DEF RInv, NoRaw
<1>5. ~LoseTree /\ \A m \in network : ~LoseMessage(m) /\ ~RepeatMessage(m)
  BY <1>0, SpendClean DEF LoseTree, LoseMessage, RepeatMessage, Counted
<1>6. \A r \in requests : ~LoseRequest(r) /\ ~RepeatRequest(r)
  BY <1>0, SpendClean DEF LoseRequest, RepeatRequest, Counted
<1> QED
  BY <1>1, <1>2, <1>3, <1>4, <1>5, <1>6 DEF Environment

\* A request becomes a job, a job a thread's work, and the work its messages,
\* the meta first.
LEMMA ServerRaw == IInv /\ RInv /\ ServerStep => RInv'
<1> SUFFICES ASSUME IInv, RInv, ServerStep, Clean' PROVE (OneJob /\ MetaFirst /\ NoRaw)'
  BY DEF RInv
<1> USE DEF clientVars
<1>0. TypeOK /\ Clean /\ OneJob /\ MetaFirst /\ NoRaw /\ UNCHANGED <<buffers, local>>
      /\ Pending' = Pending
  BY SameClean DEF IInv, RInv, ServerStep, HandleFileRequest, HandleAuthResponse, BeginSend,
     PublishNext, Pending
<1>1. ASSUME NEW r \in requests, HandleFileRequest(r) PROVE (OneJob /\ MetaFirst /\ NoRaw)'
  <2> DEFINE j == [job |-> jobs + 1, fid |-> r.fid, path |-> r.path]
  <2>1. /\ requests' = requests \ {r} /\ UNCHANGED <<work, network>>
        /\ queue' = queue \/ queue' = Append(queue, j)
    BY <1>1 DEF HandleFileRequest
  <2>2. Carried' = Carried /\ Begun' = Begun
    BY <1>0, <2>1 DEF Carried, Begun
  <2>3. MetaFirst' /\ NoRaw'
    BY <1>0, <2>1, <2>2 DEF MetaFirst, MetaSeen, NoRaw
  <2>4. j.fid = r.fid
    OBVIOUS
  <2> HIDE DEF j
  <2>5. OneJob'
    <3>1. CASE queue' = queue
      BY <1>0, <2>1, <2>2, <3>1, OneJobFrame
    <3>2. CASE queue' = Append(queue, j)
      <4>1. queue \in Seq(Job)
        BY <1>0 DEF TypeOK
      <4>2. /\ Len(queue') = Len(queue) + 1 /\ queue'[Len(queue) + 1] = j
            /\ \A i \in 1 .. Len(queue) : queue'[i] = queue[i]
        BY <3>2, <4>1
      <4>3. Waiting' \subseteq Waiting
        BY <2>1, <2>4, <4>1, <4>2 DEF Waiting
      <4>4. \A q \in requests' : q.fid # r.fid
        <5>1. \A q \in requests : /\ q \in Request /\ ~q.again
                                  /\ requested[q.fid] = q.path
          BY <1>0 DEF TypeOK, IInv, Origin, ServerOrigin, OneJob
        <5>2. \A q \in requests : q.fid = r.fid => q = r
          BY <5>1 DEF Request
        <5> QED
          BY <2>1, <5>2
      <4>5. \A q \in requests' : ~q.again /\ \A i \in 1 .. Len(queue') : queue'[i].fid # q.fid
        BY <1>0, <2>1, <2>4, <4>1, <4>2, <4>4 DEF OneJob
      <4>6. \A i, k \in 1 .. Len(queue') : queue'[i].fid = queue'[k].fid => i = k
        BY <1>0, <2>4, <4>1, <4>2 DEF OneJob
      <4> QED
        BY <1>0, <2>2, <4>3, <4>5, <4>6 DEF OneJob
    <3> QED
      BY <2>1, <3>1, <3>2
  <2> QED
    BY <2>3, <2>5
<1>2. ASSUME NEW w \in Workers, BeginSend(w) PROVE (OneJob /\ MetaFirst /\ NoRaw)'
  <2> DEFINE j == Head(queue)
             enc == [job |-> j.job, fid |-> j.fid, path |-> j.path, ver |-> disk[j.path],
                     packed |-> <<j.path, disk[j.path]>> \in Packed]
             s == [fid |-> j.fid, enc |-> enc, next |-> MetaRank]
  <2>1. /\ queue' = Tail(queue) /\ UNCHANGED requests
        /\ \/ work' = [work EXCEPT ![w] = s] /\ network' = network
           \/ work' = work /\ network' = network \union {MessageOf(s, AbortRank)}
    BY <1>2 DEF BeginSend, Aborted
  <2>2. /\ queue \in Seq(Job) /\ queue # << >> /\ j = queue[1] /\ work[w] = Idle
        /\ \A i \in 1 .. Len(Tail(queue)) : Tail(queue)[i] = queue[i + 1]
        /\ Len(Tail(queue)) = Len(queue) - 1 /\ Len(queue) \in Nat \ {0}
    BY <1>0, <1>2 DEF TypeOK, BeginSend
  <2>3. enc.fid = j.fid /\ s.enc = enc /\ s.next = MetaRank /\ j.fid \in Waiting
        /\ MessageOf(s, AbortRank).rank = AbortRank /\ ~MessageOf(s, AbortRank).again
    BY <2>2 DEF Waiting, MessageOf
  <2> HIDE DEF j, enc, s
  <2>4. Carried' \subseteq Carried \union {enc} /\ Begun' \subseteq Begun
    <3>1. CASE work' = [work EXCEPT ![w] = s] /\ network' = network
      <4>1. \A v \in Workers : work'[v] = work[v] \/ work'[v] = s
        BY <1>0, <3>1 DEF TypeOK
      <4> QED
        BY <1>0, <2>3, <3>1, <4>1 DEF Carried, Begun
    <3>2. CASE work' = work /\ network' = network \union {MessageOf(s, AbortRank)}
      BY <1>0, <2>3, <3>2 DEF Carried, Begun
    <3> QED
      BY <2>1, <3>1, <3>2
  <2>5. Waiting' \subseteq Waiting \ {j.fid}
    <3>1. \A r \in requests' : r.fid \in Waiting /\ r.fid # j.fid
      BY <1>0, <2>1, <2>2 DEF OneJob, Waiting
    <3>2. \A i \in 1 .. Len(queue') : queue'[i].fid \in Waiting /\ queue'[i].fid # j.fid
      <4> SUFFICES ASSUME NEW i \in 1 .. Len(queue')
                   PROVE  queue'[i].fid \in Waiting /\ queue'[i].fid # j.fid
        OBVIOUS
      <4>1. i + 1 \in 1 .. Len(queue) /\ 1 \in 1 .. Len(queue) /\ queue'[i] = queue[i + 1]
        BY <2>1, <2>2
      <4> QED
        BY <1>0, <2>2, <4>1 DEF OneJob, Waiting
    <3> QED
      BY <3>1, <3>2 DEF Waiting
  <2>6. OneJob'
    <3>1. \A r \in requests' : ~r.again /\ \A i \in 1 .. Len(queue') : queue'[i].fid # r.fid
      BY <1>0, <2>1, <2>2 DEF OneJob
    <3>2. \A i, k \in 1 .. Len(queue') : queue'[i].fid = queue'[k].fid => i = k
      <4> SUFFICES ASSUME NEW i \in 1 .. Len(queue'), NEW k \in 1 .. Len(queue'),
                          queue'[i].fid = queue'[k].fid
                   PROVE  i = k
        OBVIOUS
      <4>1. /\ i + 1 \in 1 .. Len(queue) /\ k + 1 \in 1 .. Len(queue)
            /\ queue'[i] = queue[i + 1] /\ queue'[k] = queue[k + 1]
        BY <2>1, <2>2
      <4> QED
        BY <1>0, <4>1 DEF OneJob
    <3>3. \A e \in Carried : e.fid # j.fid /\ e.fid \notin Waiting
      BY <1>0, <2>3 DEF OneJob
    <3> QED
      BY <1>0, <2>3, <2>4, <2>5, <3>1, <3>2, <3>3 DEF OneJob
  <2>7. MetaFirst'
    BY <1>0, <2>1, <2>3, <2>4 DEF MetaFirst, MetaSeen
  <2> QED
    BY <1>0, <2>6, <2>7 DEF NoRaw
<1>3. ASSUME NEW w \in Workers, PublishNext(w) PROVE (OneJob /\ MetaFirst /\ NoRaw)'
  <2> DEFINE s == work[w]
             m == MessageOf(s, s.next)
  <2>1. /\ s \in Sending /\ s # Idle /\ UNCHANGED <<requests, queue>>
        /\ network' = network \union {m}
        /\ work' = [work EXCEPT ![w] = Advance(s)]
    BY <1>0, <1>3 DEF TypeOK, PublishNext
  <2> PICK e : e = s.enc
    OBVIOUS
  <2>2. m.enc = e /\ m.rank = s.next /\ ~m.again
    BY DEF MessageOf
  <2>3. Advance(s) = Idle \/ Advance(s).enc = e
    BY <2>1 DEF Advance, Sending
  <2>4. e \in Carried
    BY <2>1 DEF Carried
  <2>5. s.next # MetaRank => e \in Begun
    BY <2>1 DEF Begun
  <2> HIDE DEF s, m
  <2>6. Carried' \subseteq Carried /\ Begun' \subseteq Begun \union {e}
    BY <1>0, <2>1, <2>2, <2>3, <2>4 DEF Carried, Begun, TypeOK
  <2>7. \A g \in Begun : MetaSeen(g)'
    BY <1>0, <2>1 DEF MetaFirst, MetaSeen
  <2>8. MetaSeen(e)'
    BY <1>0, <2>1, <2>2, <2>5, <2>7 DEF MetaSeen
  <2>9. MetaFirst'
    BY <1>0, <2>1, <2>2, <2>6, <2>7, <2>8 DEF MetaFirst
  <2> QED
    BY <1>0, <2>1, <2>6, <2>9, OneJobFrame DEF NoRaw
<1>4. ASSUME NEW a \in answers, HandleAuthResponse(a) PROVE (OneJob /\ MetaFirst /\ NoRaw)'
  BY <1>0, <1>4, RawFrame DEF HandleAuthResponse, RInv
<1> QED
  BY <1>1, <1>2, <1>3, <1>4 DEF ServerStep

\* _handle_tree draws ids under which nothing waits and nothing was encrypted.
LEMMA HandleTreeRaw == IInv /\ RInv /\ HandleTree => RInv'
<1> SUFFICES ASSUME IInv, RInv, HandleTree, Clean' PROVE (OneJob /\ MetaFirst /\ NoRaw)'
  BY DEF RInv
<1>1. TypeOK /\ Clean /\ OneJob /\ MetaFirst /\ NoRaw
      /\ UNCHANGED <<queue, work, network, local>>
  BY SameClean DEF IInv, RInv, HandleTree, serverVars
<1>2. CASE UNCHANGED <<requests, buffers, requested>>
  BY <1>1, <1>2, RawFrame
<1>3. CASE \E fetch \in SUBSET Paths : \E id \in [fetch -> FreshFids] :
              IsInjective(id) /\ RequestFiles(fetch, id)
  <2> PICK fetch \in SUBSET Paths : \E id \in [fetch -> FreshFids] : RequestFiles(fetch, id)
    BY <1>3
  <2> PICK id \in [fetch -> FreshFids] : RequestFiles(fetch, id)
    OBVIOUS
  <2> DEFINE drawn(f) == \E p \in fetch : id[p] = f
             pathOf(f) == CHOOSE p \in fetch : id[p] = f
             new == {[fid |-> id[p], path |-> p, again |-> FALSE] : p \in fetch}
  <2>1. /\ requests' = requests \union new
        /\ buffers' = [f \in Fids |-> IF drawn(f) THEN EmptyBuffer(pathOf(f)) ELSE buffers[f]]
    BY DEF RequestFiles
  <2>2. \A r \in new : ~r.again /\ drawn(r.fid)
    OBVIOUS
  <2>3. \A f : drawn(f) => f \in Fids /\ requested[f] = NoPath /\ pathOf(f) \in Paths
    BY DEF FreshFids
  <2> HIDE DEF drawn, pathOf, new
  <2>4. \A f : drawn(f) => f \notin Waiting /\ \A e \in Carried : e.fid # f
    BY <2>3, CarriedTypes, SentinelsAssumption
  <2>5. \A f \in Fids : drawn(f) => /\ buffers'[f] # NoBuffer
                                  /\ \A r \in ChunkRanks : buffers'[f].chunks[r] = NoChunk
    <3>1. \A f : drawn(f) => EmptyBuffer(pathOf(f)) # NoBuffer
      BY <2>3, BufferTypes, SentinelsAssumption
    <3> QED
      BY <2>1, <3>1 DEF EmptyBuffer
  <2>6. \A f \in Fids : ~drawn(f) => buffers'[f] = buffers[f]
    BY <2>1
  <2>7. Carried' \subseteq Carried /\ Begun' = Begun
    BY <1>1, <2>5, <2>6 DEF Carried, Begun, Pending
  <2>8. Waiting' \subseteq Waiting \union {f \in Fids : drawn(f)}
    BY <1>1, <2>1, <2>2, <2>3 DEF Waiting
  <2>9. OneJob'
    <3>1. \A i \in 1 .. Len(queue) : queue[i].fid \in Waiting
      BY DEF Waiting
    <3>2. \A r \in requests' : ~r.again /\ \A i \in 1 .. Len(queue) : queue[i].fid # r.fid
      BY <1>1, <2>1, <2>2, <2>4, <3>1 DEF OneJob
    <3> QED
      BY <1>1, <2>4, <2>7, <2>8, <3>2 DEF OneJob
  <2>10. MetaFirst'
    <3>1. \A e \in Begun : MetaSeen(e)'
      <4> SUFFICES ASSUME NEW e \in Begun PROVE MetaSeen(e)'
        OBVIOUS
      <4>1. MetaSeen(e) /\ e.fid \in Fids /\ ~drawn(e.fid)
        BY <1>1, <2>4, CarriedTypes DEF MetaFirst
      <4> QED
        BY <1>1, <2>6, <4>1 DEF MetaSeen, Pending
    <3> QED
      BY <1>1, <2>5, <2>6, <2>7, <3>1 DEF MetaFirst, Pending
  <2> QED
    BY <1>1, <2>9, <2>10 DEF NoRaw
<1> QED
  BY <1>2, <1>3, HandleTreeCases

\* A chunk is handed over after the meta of its transfer, so what is written
\* is decompressed exactly when it was compressed.
LEMMA ClientRaw ==
    ASSUME IInv, RInv, NEW m \in network,
           HandleFileMeta(m) \/ HandleFileChunk(m) \/ HandleFileDone(m) \/ HandleFileAbort(m)
    PROVE  RInv'
<1> SUFFICES ASSUME Clean' PROVE (OneJob /\ MetaFirst /\ NoRaw)'
  BY DEF RInv
<1>1. TypeOK /\ Clean /\ OneJob /\ MetaFirst /\ NoRaw
  <2>1. TypeOK
    BY DEF IInv
  <2>2. UNCHANGED count \/ Spend("writeErrors", MaxWriteErrors)
    BY DEF HandleFileMeta, HandleFileChunk, HandleFileDone, HandleFileAbort, Writes
  <2>3. Clean
    BY <2>1, <2>2, SpendClean, SameClean DEF Counted
  <2> QED
    BY <2>1, <2>3 DEF RInv
<1>2. /\ network' = network \ {m} /\ UNCHANGED <<requests, queue, work, requested>>
      /\ Deliverable(m) /\ m \in Message
  BY <1>1 DEF HandleFileMeta, HandleFileChunk, HandleFileDone, HandleFileAbort, Receive,
     serverVars, TypeOK
<1>3. /\ \A f \in Pending : buffers[f] \in Buffer
      /\ \A f \in Fids : buffers[f] = NoBuffer \/ f \in Pending
  BY <1>1 DEF TypeOK, Pending
<1>4. Begun' \subseteq Begun
  BY <1>2 DEF Begun
<1>5. m.rank # AbortRank => m.enc \in Carried /\ m.enc.fid = m.fid /\ m.fid \in Fids
  BY DEF Carried, IInv, Origin, NetworkOrigin
<1>6. CASE HandleFileMeta(m)
  <2>1. UNCHANGED local /\ m.rank = MetaRank /\ m.rank # AbortRank
    BY <1>6, ChunksAssumption DEF HandleFileMeta, MetaRank, AbortRank
  <2>2. \A f \in Fids : f \in Pending' =>
          /\ f \in Pending /\ buffers'[f].chunks = buffers[f].chunks
          /\ f # m.fid => buffers'[f] = buffers[f]
          /\ f = m.fid => buffers'[f].compressed = m.enc.packed
    BY <1>1, <1>3, <1>6 DEF HandleFileMeta, MergeMeta, Pending, TypeOK, Buffer
  <2>3. Carried' \subseteq Carried
    BY <1>2, <2>2 DEF Carried, Pending
  <2>4. \A e \in Begun : MetaSeen(e)'
    <3> SUFFICES ASSUME NEW e \in Begun PROVE MetaSeen(e)'
      OBVIOUS
    <3>1. MetaSeen(e) /\ e \in Carried
      BY <1>1, CarriedTypes DEF MetaFirst
    <3>2. CASE e.fid = m.fid
      <4>1. e = m.enc
        BY <1>1, <1>5, <2>1, <3>1, <3>2 DEF OneJob
      <4> QED
        BY <1>5, <2>1, <2>2, <4>1 DEF MetaSeen
    <3>3. CASE e.fid # m.fid
      <4>1. \A n \in network : n.rank = MetaRank /\ n.enc = e => n \in network'
        BY <1>2, <1>5, <2>1, <3>3
      <4> QED
        BY <2>2, <3>1, <3>3, <4>1 DEF MetaSeen, Pending
    <3> QED
      BY <3>2, <3>3
  <2>5. \A f \in Pending', r \in ChunkRanks :
          buffers'[f].chunks[r] # NoChunk => buffers'[f].compressed = buffers'[f].chunks[r].packed
    <3> SUFFICES ASSUME NEW f \in Pending', NEW r \in ChunkRanks, buffers'[f].chunks[r] # NoChunk
                 PROVE  buffers'[f].compressed = buffers'[f].chunks[r].packed
      OBVIOUS
    <3>1. f \in Fids /\ f \in Pending /\ buffers'[f].chunks[r] = buffers[f].chunks[r]
      BY <2>2 DEF Pending
    <3>2. buffers[f].chunks[r] \in Carried /\ buffers[f].chunks[r].fid = f
      BY <3>1 DEF Carried, IInv, Origin, BufferOrigin
    <3>3. f = m.fid => buffers[f].chunks[r] = m.enc
      BY <1>1, <1>5, <2>1, <3>2 DEF OneJob
    <3> QED
      BY <1>1, <2>2, <3>1, <3>3 DEF MetaFirst
  <2>6. MetaFirst'
    BY <1>1, <1>2, <1>4, <2>4, <2>5 DEF MetaFirst
  <2> QED
    BY <1>1, <1>2, <2>1, <2>3, <2>6, OneJobFrame DEF NoRaw
<1>7. CASE HandleFileChunk(m)
  <2>1. UNCHANGED local /\ m.rank \in ChunkRanks /\ m.rank \notin {MetaRank, AbortRank}
    BY <1>7, ChunksAssumption DEF HandleFileChunk, MetaRank, AbortRank, ChunkRanks
  <2>2. \A f \in Fids : f \in Pending' =>
          /\ f \in Pending /\ buffers'[f].compressed = buffers[f].compressed
          /\ \A r \in ChunkRanks : \/ buffers'[f].chunks[r] = buffers[f].chunks[r]
                                   \/ f = m.fid /\ buffers'[f].chunks[r] = m.enc
    BY <1>1, <1>3, <1>7 DEF HandleFileChunk, Pending, TypeOK, Buffer
  <2>3. Carried' \subseteq Carried
    BY <1>2, <1>5, <2>1, <2>2 DEF Carried, Pending
  <2>5. \A e \in Begun : MetaSeen(e)'
    <3> SUFFICES ASSUME NEW e \in Begun PROVE MetaSeen(e)'
      OBVIOUS
    <3>1. MetaSeen(e)
      BY <1>1 DEF MetaFirst
    <3>2. \A n \in network : n.rank = MetaRank /\ n.enc = e => n \in network'
      BY <1>2, <2>1
    <3> QED
      BY <2>2, <3>1, <3>2 DEF MetaSeen, Pending
  <2>6. m.fid \in Pending => buffers[m.fid].compressed = m.enc.packed
    <3>1. m.enc \in Begun
      BY <2>1 DEF Begun
    <3>2. \A n \in network : ~(n.rank = MetaRank /\ n.enc = m.enc)
      BY <1>1, <1>2, <2>1, ChunksAssumption
         DEF Clean, MetaFirst, Deliverable, MetaRank, ChunkRanks
    <3> QED
      BY <1>1, <1>5, <2>1, <3>1, <3>2 DEF MetaFirst, MetaSeen
  <2>7. \A f \in Pending', r \in ChunkRanks :
          buffers'[f].chunks[r] # NoChunk => buffers'[f].compressed = buffers'[f].chunks[r].packed
    BY <1>1, <2>2, <2>6 DEF MetaFirst, Pending
  <2>8. MetaFirst'
    BY <1>1, <1>2, <1>4, <2>5, <2>7 DEF MetaFirst
  <2> QED
    BY <1>1, <1>2, <2>1, <2>3, <2>8, OneJobFrame DEF NoRaw
<1>8. CASE HandleFileDone(m) \/ HandleFileAbort(m)
  <2>1. buffers' = buffers \/ buffers' = Unbuffer(m.fid)
    BY <1>8 DEF HandleFileDone, HandleFileAbort
  <2>2. \A f \in Fids : f \in Pending' => f \in Pending /\ buffers'[f] = buffers[f]
    BY <1>1, <2>1 DEF Unbuffer, Pending, TypeOK
  <2>3. Carried' \subseteq Carried
    BY <1>2, <2>2 DEF Carried, Pending
  <2>4. m.rank # MetaRank
    BY <1>8, ChunksAssumption DEF HandleFileDone, HandleFileAbort, DoneRank, AbortRank, MetaRank
  <2>5. MetaFirst'
    <3>1. \A e \in Begun : MetaSeen(e)'
      BY <1>1, <1>2, <2>2, <2>4 DEF MetaFirst, MetaSeen, Pending
    <3> QED
      BY <1>1, <1>2, <1>4, <2>2, <3>1 DEF MetaFirst, Pending
  <2>6. NoRaw'
    <3>1. CASE UNCHANGED local
      BY <1>1, <3>1 DEF NoRaw
    <3>2. CASE m.fid \in Pending /\ Decrypts(m.fid) /\ Writes(m.fid, LocalPath[buffers[m.fid].path])
      <4> DEFINE f == m.fid
                 d == Decoded(f)
      <4>1. 1 \in ChunkRanks
        BY ChunksAssumption DEF ChunkRanks
      <4>2. /\ \A r \in ChunkRanks : buffers[f].chunks[r] = buffers[f].chunks[1]
            /\ buffers[f].compressed = buffers[f].chunks[1].packed
        BY <1>1, <3>2, <4>1 DEF Decrypts, MetaFirst
      <4>3. d.form # "raw" /\ [d EXCEPT !.form = "cut"].form # "raw"
        BY <4>2 DEF Decoded
      <4> DEFINE l == LocalPath[buffers[m.fid].path]
      <4>4. \/ local' = local \/ local' = [local EXCEPT ![l] = d]
            \/ local' = [local EXCEPT ![l] = [d EXCEPT !.form = "cut"]]
        BY <3>2 DEF Writes
      <4> DEFINE g == [d EXCEPT !.form = "cut"]
      <4> HIDE DEF l, d, g
      <4>5. \A k \in LocalPaths : local'[k] \in {local[k], d, g}
        BY <1>1, <4>4 DEF TypeOK, g
      <4> QED
        BY <1>1, <4>3, <4>5 DEF NoRaw, g
    <3> QED
      BY <1>8, <3>1, <3>2 DEF HandleFileDone, HandleFileAbort, Fails
  <2> QED
    BY <1>1, <1>2, <2>3, <2>5, <2>6, OneJobFrame
<1> QED
  BY <1>6, <1>7, <1>8

\* The inductive invariant holds in every reachable state.
LEMMA RawInductive == Spec => []RInv
<1>1. IInv /\ RInv /\ [Next]_vars => RInv'
  <2>1. IInv /\ RInv /\ Next => RInv'
    <3>1. IInv /\ RInv /\ HandleAuthResult => RInv'
      <4> SUFFICES ASSUME RInv, HandleAuthResult, Clean' PROVE (OneJob /\ MetaFirst /\ NoRaw)'
        BY DEF RInv
      <4> QED
        BY SameClean, RawFrame DEF HandleAuthResult
    <3> QED
      BY <3>1, HandleTreeRaw, ClientRaw, ServerRaw, EnvironmentRaw DEF Next, ClientStep
  <2>2. RInv /\ UNCHANGED vars => RInv'
    BY SameClean, RawFrame DEF RInv, vars
  <2> QED
    BY <2>1, <2>2
<1> QED
  BY InitRaw, <1>1, Inductive, PTL DEF Spec

\* While no message was lost or repeated, a broker that hands over the messages
\* of one thread's job in order never makes the client write compressed bytes
\* as they are: the meta of a transfer is merged before its chunks are stored,
\* whatever threads, trees, failing writes and a stop of the server do
\* (_send_file, _handle_file_meta, _handle_file_done).
THEOREM RawIsAfterFault == Spec => []RawOnlyAfterFault
<1>1. TypeOK /\ RInv => RawOnlyAfterFault
  <2> SUFFICES ASSUME TypeOK, RInv PROVE RawOnlyAfterFault
    OBVIOUS
  <2>1. count["lost"] \in Nat /\ count["again"] \in Nat
    BY DEF TypeOK, Counted
  <2> QED
    BY <2>1 DEF RInv, Clean, NoRaw, RawOnlyAfterFault
<1> QED
  BY <1>1, TypeCorrect, RawInductive, PTL

-----------------------------------------------------------------------------
(* While the server's files do not change.                                 *)

Quiet == count["edits"] = 0

\* Every tree anywhere is the first one.
FirstTree == [p \in Paths |-> 1]
FirstVersions ==
    /\ versions = Paths \X {1}
    /\ disk = FirstTree /\ tree = FirstTree
    /\ \A i \in 1 .. Len(trees) : trees[i] = FirstTree
    /\ remoteTree \in {FirstTree, NoTree}

\* Before a tree was handled nothing was asked for, and only the aborts of other
\* clients' transfers are in flight.
NothingBefore ==
    remoteTree = NoTree =>
        /\ requests = {} /\ queue = << >>
        /\ network # {} => count["foreign"] > 0
        /\ \A w \in Workers : work[w] = Idle
        /\ \A f \in Fids : requested[f] = NoPath /\ buffers[f] = NoBuffer

\* Every file is there, under way or failed.
Reached(p) == Collides(p) \/ local[LocalPath[p]] # Absent \/ failed[LocalPath[p]] > 0
Accounted ==
    remoteTree # NoTree => \A p \in Paths :
        Reached(p) \/ \E f \in Pending : requested[f] = p

QInv == Quiet => FirstVersions /\ NothingBefore /\ Accounted

AllReached == remoteTree # NoTree /\ \A p \in Paths : Reached(p)

\* A step that ends the sync leaves every file reached, was a refused answer or
\* another client's abort.
EndsWell ==
    ~syncComplete /\ syncComplete' =>
        \/ AllReached'
        \/ refused'
        \/ remoteTree = NoTree /\ count["foreign"] > 0

LEMMA SpendQuiet ==
    ASSUME TypeOK, NEW what \in Counted, NEW bound, Spend(what, bound), Quiet'
    PROVE  /\ Quiet /\ what # "edits"
           /\ count["foreign"] > 0 \/ what = "foreign" => count'["foreign"] > 0
<1>1. /\ count["edits"] \in Nat /\ count["foreign"] \in Nat
      /\ count'["edits"] = count["edits"] + (IF what = "edits" THEN 1 ELSE 0)
      /\ count'["foreign"] = count["foreign"] + (IF what = "foreign" THEN 1 ELSE 0)
  BY DEF TypeOK, Spend, Counted
<1> QED
  BY <1>1 DEF Quiet

LEMMA SameQuiet ==
    ASSUME UNCHANGED count, Quiet'
    PROVE  Quiet
BY DEF Quiet

\* No tree is handled at first.
LEMMA InitQuiet == Init => QInv
<1> SUFFICES ASSUME Init PROVE FirstVersions /\ NothingBefore /\ Accounted
  BY DEF QInv
<1>1. disk = FirstTree
  BY DEF Init, FirstTree
<1>2. versions = Paths \X {1}
  BY DEF Init
<1> QED
  BY <1>1, <1>2 DEF Init, FirstVersions, NothingBefore, Accounted

\* Steps that leave the client alone keep what it accounted for.
LEMMA AccountedFrame ==
    ASSUME Accounted, UNCHANGED clientVars
    PROVE  Accounted'
BY DEF Accounted, Reached, Pending, clientVars

\* One more tree, or one less, is the first one again.
LEMMA TreesFrame ==
    ASSUME TypeOK, FirstVersions, UNCHANGED <<versions, disk, remoteTree>>,
           tree' \in {tree, disk},
           \/ UNCHANGED trees \/ trees' = Append(trees, tree) \/ trees' = Append(trees, disk)
           \/ trees # << >> /\ trees' = Tail(trees)
    PROVE  FirstVersions'
<1>1. trees \in Seq(Tree) /\ tree \in Tree /\ disk \in Tree
  BY DEF TypeOK
<1>2. /\ \A i \in 1 .. Len(trees) : trees[i] = FirstTree
      /\ disk = FirstTree /\ tree = FirstTree
  BY DEF FirstVersions
<1>3. \A i \in 1 .. Len(trees') : trees'[i] = FirstTree
  BY <1>1, <1>2
<1> QED
  BY <1>2, <1>3 DEF FirstVersions

\* The environment publishes the first tree again, and ends what was sent.
LEMMA EnvironmentQuiet == IInv /\ QInv /\ Environment => QInv'
<1> SUFFICES ASSUME IInv, QInv, Environment, Quiet'
             PROVE  (FirstVersions /\ NothingBefore /\ Accounted)'
  BY DEF QInv
<1> USE DEF serverVars, authVars, Counted
<1>1. TypeOK
  BY DEF IInv
<1>2. \A p \in Paths : ~ServerEdit(p)
  BY <1>1, SpendQuiet DEF ServerEdit
<1>3. Quiet /\ (count["foreign"] > 0 => count'["foreign"] > 0)
  <2>1. Spend("trees", MaxTrees) \/ Spend("hellos", MaxHellos) \/ Spend("stops", 1)
        \/ Spend("lost", MaxLost) \/ Spend("again", MaxAgain) \/ Spend("foreign", MaxForeign)
        \/ UNCHANGED count
    BY <1>2 DEF Environment, OtherClientAborted, OnFilesystemChanged, RepublishTree,
       OpenChallenge, TimeoutChallenge, ServerStop, LoseMessage, RepeatMessage, LoseRequest,
       RepeatRequest, LoseTree
  <2> QED
    BY <1>1, <2>1, SpendQuiet, SameQuiet
<1>4. FirstVersions /\ NothingBefore /\ Accounted
  BY <1>3 DEF QInv
<1>5. /\ UNCHANGED clientVars /\ UNCHANGED <<disk, versions>>
      /\ tree' \in {tree, disk}
      /\ \/ UNCHANGED trees \/ trees' = Append(trees, tree) \/ trees' = Append(trees, disk)
         \/ trees # << >> /\ trees' = Tail(trees)
      /\ requests' = requests \/ requests # {}
      /\ queue' = queue \/ queue' = << >>
      /\ work' = work \/ work' = [w \in Workers |-> Idle]
  BY <1>2, <1>4 DEF Environment, OtherClientAborted, OnFilesystemChanged, RepublishTree,
     clientVars, OpenChallenge, TimeoutChallenge, ServerStop, LoseMessage, RepeatMessage,
     LoseRequest, RepeatRequest, LoseTree
<1>6. network # {} \/ network' = {} \/ count'["foreign"] > 0
  <2>1. ASSUME NEW p \in Paths, OtherClientAborted(p) PROVE count'["foreign"] > 0
    BY <1>1, <2>1, SpendQuiet DEF OtherClientAborted
  <2> QED
    BY <1>2, <2>1 DEF Environment, OnFilesystemChanged, RepublishTree, OpenChallenge,
       TimeoutChallenge, ServerStop, LoseMessage, RepeatMessage, LoseRequest, RepeatRequest,
       LoseTree
<1>7. FirstVersions'
  <2>1. UNCHANGED remoteTree
    BY <1>5 DEF clientVars
  <2> QED
    BY <1>1, <1>4, <1>5, <2>1, TreesFrame
<1>8. NothingBefore'
  BY <1>3, <1>4, <1>5, <1>6 DEF NothingBefore, clientVars
<1> QED
  BY <1>4, <1>5, <1>7, <1>8, AccountedFrame

\* The server acts on requests, which come after a tree, and publishes the tree
\* to a client it accepts.
LEMMA ServerQuiet == IInv /\ QInv /\ ServerStep => QInv'
<1> SUFFICES ASSUME IInv, QInv, ServerStep, Quiet'
             PROVE  (FirstVersions /\ NothingBefore /\ Accounted)'
  BY DEF QInv
<1>1. /\ UNCHANGED <<clientVars, disk, versions, tree, count>>
      /\ UNCHANGED trees \/ trees' = Append(trees, tree)
  BY DEF ServerStep, HandleFileRequest, HandleAuthResponse, BeginSend, PublishNext
<1>2. TypeOK /\ FirstVersions /\ NothingBefore /\ Accounted
  BY <1>1, SameQuiet DEF QInv, IInv
<1>3. FirstVersions'
  <2>1. UNCHANGED <<remoteTree, versions, disk>> /\ tree' = tree
    BY <1>1 DEF clientVars
  <2> QED
    BY <1>1, <1>2, <2>1, TreesFrame
<1>4. NothingBefore'
  <2>1. CASE remoteTree # NoTree
    BY <1>1, <2>1 DEF NothingBefore, clientVars
  <2>2. CASE remoteTree = NoTree
    <3>1. UNCHANGED <<requests, queue, work, network>>
      BY <1>2, <2>2 DEF NothingBefore, ServerStep, HandleFileRequest, HandleAuthResponse,
         BeginSend, PublishNext
    <3> QED
      BY <1>1, <1>2, <3>1 DEF NothingBefore, clientVars
  <2> QED
    BY <2>1, <2>2
<1> QED
  BY <1>1, <1>2, <1>3, <1>4, AccountedFrame

\* A result brings the tree again or ends the sync with an error.
LEMMA AuthResultQuiet ==
    ASSUME IInv, QInv, HandleAuthResult
    PROVE  QInv' /\ (Quiet' => EndsWell)
<1>1. /\ UNCHANGED <<disk, versions, tree, count, remoteTree, requests, queue, work, network,
                     requested, buffers, local, failed>>
      /\ UNCHANGED trees \/ trees' = Append(trees, tree)
      /\ UNCHANGED syncComplete \/ refused'
  BY DEF HandleAuthResult
<1>2. ASSUME Quiet' PROVE (FirstVersions /\ NothingBefore /\ Accounted)'
  <2>1. TypeOK /\ FirstVersions /\ NothingBefore /\ Accounted
    BY <1>1, <1>2, SameQuiet DEF QInv, IInv
  <2>2. FirstVersions'
    BY <1>1, <2>1, TreesFrame
  <2>3. NothingBefore' /\ Accounted'
    BY <1>1, <2>1 DEF NothingBefore, Accounted, Reached, Pending
  <2> QED
    BY <2>2, <2>3
<1>3. EndsWell
  BY <1>1 DEF EndsWell
<1> QED
  BY <1>2, <1>3 DEF QInv

\* _handle_tree asks for every file that is not there, and completes the sync
\* at once when all are.
LEMMA HandleTreeQuiet ==
    ASSUME IInv, QInv, HandleTree
    PROVE  QInv' /\ (Quiet' => EndsWell)
<1> SUFFICES ASSUME Quiet'
             PROVE  (FirstVersions /\ NothingBefore /\ Accounted)' /\ EndsWell
  BY DEF QInv
<1>1. /\ UNCHANGED <<serverVars, network, local, failed, count>>
      /\ trees' = Tail(trees) /\ trees # << >> /\ remoteTree' = Head(trees)
  BY DEF HandleTree
<1>2. TypeOK /\ FirstVersions /\ NothingBefore /\ Accounted
  BY <1>1, SameQuiet DEF QInv, IInv
<1>3. remoteTree' = FirstTree /\ FirstVersions'
  <2>1. trees \in Seq(Tree) /\ \A i \in 1 .. Len(trees) : trees[i] = FirstTree
    BY <1>2 DEF TypeOK, FirstVersions
  <2>2. Head(trees) = FirstTree /\ \A i \in 1 .. Len(Tail(trees)) : Tail(trees)[i] = FirstTree
    BY <1>1, <2>1
  <2> QED
    BY <1>1, <1>2, <2>2 DEF FirstVersions, serverVars
<1>4. FirstTree \in Tree /\ FirstTree # NoTree
  BY SentinelsAssumption DEF FirstTree, Tree
<1> DEFINE lacking == ToFetch(FirstTree)
<1>5. \A p \in Paths \ lacking : local[LocalPath[p]] # Absent
  BY SentinelsAssumption DEF ToFetch, FirstTree, Plain, Absent
<1>6. (lacking = {} /\ UNCHANGED <<requests, buffers, requested>>) \/
      \E id \in Injection(lacking, FreshFids) : RequestFiles(lacking, id)
                                               /\ UNCHANGED syncComplete
  BY <1>1, <1>3 DEF HandleTree
<1> HIDE DEF lacking
<1>7. CASE lacking = {} /\ UNCHANGED <<requests, buffers, requested>>
  <2>1. \A p \in Paths : Reached(p)'
    BY <1>1, <1>5, <1>7 DEF Reached
  <2> QED
    BY <1>3, <1>4, <2>1 DEF NothingBefore, Accounted, EndsWell, AllReached
<1>8. CASE \E id \in Injection(lacking, FreshFids) : RequestFiles(lacking, id)
                                                    /\ UNCHANGED syncComplete
  <2> PICK id \in Injection(lacking, FreshFids) : RequestFiles(lacking, id)
                                                 /\ UNCHANGED syncComplete
    BY <1>8
  <2> DEFINE drawn(f) == \E p \in lacking : id[p] = f
             pathOf(f) == CHOOSE p \in lacking : id[p] = f
  <2>1. /\ requested' = [f \in Fids |-> IF drawn(f) THEN pathOf(f) ELSE requested[f]]
        /\ buffers' = [f \in Fids |-> IF drawn(f) THEN EmptyBuffer(pathOf(f)) ELSE buffers[f]]
    BY DEF RequestFiles
  <2>2. lacking \subseteq Paths
    BY DEF ToFetch, lacking
  <2>3. \A p \in lacking : drawn(id[p]) /\ pathOf(id[p]) = p /\ id[p] \in Fids
                          /\ requested[id[p]] = NoPath
    BY DEF Injection, IsInjective, FreshFids
  <2>4. \A f : drawn(f) => pathOf(f) \in Paths /\ requested[f] = NoPath
    BY <2>2, <2>3
  <2> HIDE DEF drawn, pathOf
  <2>5. \A p \in lacking : requested'[id[p]] = p /\ id[p] \in Pending'
    <3>1. \A p \in lacking : EmptyBuffer(p) # NoBuffer
      BY <2>2, BufferTypes, SentinelsAssumption
    <3> QED
      BY <2>1, <2>3, <3>1 DEF Pending
  <2>6. \A f \in Pending : f \in Pending' /\ requested'[f] = requested[f]
    <3>1. \A f \in Pending : requested[f] \in Paths
      BY DEF IInv, TypeOK, Origin, BufferOrigin, Pending, Buffer
    <3>2. \A f \in Pending : ~drawn(f)
      BY <2>4, <3>1, SentinelsAssumption
    <3> QED
      BY <2>1, <3>2 DEF Pending
  <2>7. Accounted'
    <3>1. \A p \in Paths \ lacking : Reached(p)'
      BY <1>1, <1>5 DEF Reached
    <3> QED
      BY <2>5, <3>1 DEF Accounted
  <2>8. EndsWell
    BY DEF EndsWell
  <2> QED
    BY <1>3, <1>4, <2>7, <2>8 DEF NothingBefore
<1> QED
  BY <1>6, <1>7, <1>8

\* A transfer that leaves the buffers was written or is reported as failed, and
\* the last one completes the sync; before there is a tree, only another client's
\* abort does.
LEMMA ClientQuiet ==
    ASSUME IInv, QInv, NEW m \in network,
           HandleFileMeta(m) \/ HandleFileChunk(m) \/ HandleFileDone(m) \/ HandleFileAbort(m)
    PROVE  QInv' /\ (Quiet' => EndsWell)
<1> SUFFICES ASSUME Quiet'
             PROVE  (FirstVersions /\ NothingBefore /\ Accounted)' /\ EndsWell
  BY DEF QInv
<1>1. TypeOK /\ FirstVersions /\ NothingBefore /\ Accounted
  <2>1. TypeOK
    BY DEF IInv
  <2>2. UNCHANGED count \/ Spend("writeErrors", MaxWriteErrors)
    BY DEF HandleFileMeta, HandleFileChunk, HandleFileDone, HandleFileAbort, Writes
  <2>3. Quiet
    BY <2>1, <2>2, SpendQuiet, SameQuiet DEF Counted
  <2> QED
    BY <2>1, <2>3 DEF QInv
<1>2. UNCHANGED <<disk, versions, tree, trees, remoteTree, requested>>
  BY DEF HandleFileMeta, HandleFileChunk, HandleFileDone, HandleFileAbort, serverVars
<1>3. FirstVersions'
  BY <1>1, <1>2 DEF FirstVersions
<1>4. CASE remoteTree = NoTree
  <2>1. Pending = {} /\ count["foreign"] > 0
    BY <1>1, <1>4 DEF NothingBefore, Pending
  <2>2. UNCHANGED <<buffers, requests, queue, work, count>>
    BY <2>1 DEF HandleFileMeta, HandleFileChunk, HandleFileDone, HandleFileAbort, serverVars
  <2>3. NothingBefore' /\ Accounted'
    BY <1>1, <1>2, <1>4, <2>1, <2>2 DEF NothingBefore, Accounted
  <2> QED
    BY <1>3, <1>4, <2>1, <2>3 DEF EndsWell
<1>5. CASE remoteTree # NoTree /\ (HandleFileMeta(m) \/ HandleFileChunk(m))
  <2>1. UNCHANGED <<local, failed, syncComplete>>
    BY <1>5 DEF HandleFileMeta, HandleFileChunk
  <2>2. TypeOK'
    BY <1>1, <1>5, ClientType
  <2>3. Pending \subseteq Pending'
    <3>1. m.fid \in Pending => /\ MergeMeta(buffers[m.fid], m.enc) # NoBuffer
                               /\ HandleFileChunk(m) => buffers'[m.fid] # NoBuffer
      <4>1. m.fid \in Pending => MergeMeta(buffers[m.fid], m.enc) \in Buffer
        BY <1>1, BufferTypes DEF TypeOK, Pending, Message
      <4>2. m.fid \in Pending /\ HandleFileChunk(m) => buffers'[m.fid] \in Buffer
        <5>1. m.fid \in Pending /\ HandleFileChunk(m) =>
                [buffers[m.fid] EXCEPT !.chunks[m.rank] = m.enc] \in Buffer
          BY <1>1 DEF TypeOK, Pending, Buffer, HandleFileChunk, Message
        <5> QED
          BY <1>1, <5>1 DEF HandleFileChunk, Pending, TypeOK
      <4> QED
        BY <4>1, <4>2, SentinelsAssumption
    <3> QED
      BY <1>1, <1>5, <3>1 DEF HandleFileMeta, HandleFileChunk, Pending, TypeOK
  <2>4. NothingBefore' /\ EndsWell
    BY <1>2, <1>5, <2>1 DEF NothingBefore, EndsWell
  <2>5. Accounted'
    BY <1>1, <1>2, <1>5, <2>1, <2>3 DEF Accounted, Reached
  <2> QED
    BY <1>3, <2>4, <2>5
<1>6. CASE remoteTree # NoTree /\ m.fid \in Pending /\ (HandleFileDone(m) \/ HandleFileAbort(m))
  <2> DEFINE f == m.fid
             l == LocalPath[buffers[f].path]
             d == Decoded(f)
             g == [d EXCEPT !.form = "cut"]
  <2>1. buffers' = Unbuffer(f) /\ CheckSyncComplete({f})
    BY <1>6 DEF HandleFileDone, HandleFileAbort
  <2>2. Fails(f) \/ (Decrypts(f) /\ Writes(f, l))
    BY <1>6 DEF HandleFileDone, HandleFileAbort
  <2>3. requested[f] = buffers[f].path /\ l \in LocalPaths /\ l = LocalPath[requested[f]]
    BY <1>6, PathsAssumption DEF IInv, TypeOK, Origin, BufferOrigin, Pending, Buffer
  <2>4. Decrypts(f) => d # Absent /\ g # Absent
    <3>1. Decrypts(f) => d.path \in Paths
      BY <1>1, <1>6, DecodedType, DecodedOrigin DEF IInv, TypeOK, Pending, Buffer
    <3> QED
      BY <3>1, SentinelsAssumption DEF Decoded, Absent
  <2>5. \/ local' = local /\ failed' = Report(failed, l)
        \/ local' = [local EXCEPT ![l] = d] /\ failed' = failed /\ d # Absent
        \/ local' = [local EXCEPT ![l] = g] /\ failed' = Report(failed, l)
    BY <2>2, <2>4 DEF Fails, Writes
  <2>6. Pending' = Pending \ {f}
    BY <1>1, <2>1 DEF Unbuffer, Pending, TypeOK
  <2> HIDE DEF f, l, d, g
  <2>7. /\ \A k \in LocalPaths : /\ local[k] # Absent /\ k # l => local'[k] # Absent
                                 /\ failed[k] > 0 => failed'[k] > 0
        /\ local'[l] # Absent \/ failed'[l] > 0
    BY <1>1, <2>3, <2>5 DEF TypeOK, Report
  <2>8. \A p \in Paths : Reached(p) => Reached(p)'
    BY <2>7, PathsAssumption DEF Reached
  <2>9. \A p \in Paths : p = requested[f] => Reached(p)'
    BY <2>3, <2>7 DEF Reached
  <2>10. Accounted' /\ NothingBefore'
    BY <1>1, <1>2, <1>6, <2>6, <2>8, <2>9 DEF Accounted, NothingBefore
  <2>11. EndsWell
    <3>1. ASSUME Pending \subseteq {f} PROVE AllReached'
      BY <1>1, <1>2, <1>6, <2>8, <2>9, <3>1 DEF Accounted, AllReached
    <3>2. ~syncComplete /\ syncComplete' => Pending \subseteq {f}
      BY <2>1 DEF CheckSyncComplete
    <3> QED
      BY <3>1, <3>2 DEF EndsWell
  <2> QED
    BY <1>3, <2>10, <2>11
<1>7. CASE /\ remoteTree # NoTree /\ m.fid \notin Pending
           /\ HandleFileDone(m) \/ HandleFileAbort(m)
  <2>1. UNCHANGED <<buffers, local, failed>>
    BY <1>7 DEF HandleFileDone, HandleFileAbort
  <2>2. ~syncComplete /\ syncComplete' => Pending = {}
    BY <1>7 DEF HandleFileDone, HandleFileAbort, CheckSyncComplete
  <2>3. Pending' = Pending /\ \A p \in Paths : Reached(p)' <=> Reached(p)
    BY <2>1 DEF Pending, Reached
  <2>4. Accounted' /\ NothingBefore'
    BY <1>1, <1>2, <1>7, <2>3 DEF Accounted, NothingBefore
  <2>5. EndsWell
    BY <1>1, <1>2, <1>7, <2>2, <2>3 DEF Accounted, EndsWell, AllReached
  <2> QED
    BY <1>3, <2>4, <2>5
<1> QED
  BY <1>4, <1>5, <1>6, <1>7

\* Every step keeps the invariant, and one that ends the sync ends it well.
LEMMA StepQuiet ==
    ASSUME IInv, QInv, [Next]_vars
    PROVE  QInv' /\ (Quiet => (Quiet' /\ EndsWell) \/ UNCHANGED syncComplete)
<1>1. CASE ServerStep \/ Environment
  <2>1. UNCHANGED syncComplete
    BY <1>1 DEF clientVars, ServerStep, Environment, HandleFileRequest, HandleAuthResponse,
       BeginSend, PublishNext, ServerEdit, OtherClientAborted, OnFilesystemChanged,
       RepublishTree, OpenChallenge, TimeoutChallenge, ServerStop, LoseMessage, RepeatMessage,
       LoseRequest, RepeatRequest, LoseTree
  <2> QED
    BY <1>1, <2>1, ServerQuiet, EnvironmentQuiet
<1>2. CASE ClientStep
  <2>1. UNCHANGED count \/ Spend("writeErrors", MaxWriteErrors)
    BY <1>2 DEF ClientStep, HandleTree, HandleAuthResult, HandleFileMeta, HandleFileChunk,
       HandleFileDone, HandleFileAbort, Writes
  <2>2. Quiet => Quiet'
    BY <2>1 DEF IInv, TypeOK, Quiet, Spend, Counted
  <2> QED
    BY <1>2, <2>2, HandleTreeQuiet, AuthResultQuiet, ClientQuiet DEF ClientStep
<1>3. CASE UNCHANGED vars
  BY <1>3 DEF QInv, Quiet, FirstVersions, NothingBefore, Accounted, Reached, Pending, vars
<1> QED
  BY <1>1, <1>2, <1>3 DEF Next

\* The inductive invariant holds in every reachable state.
LEMMA QuietInductive == Spec => []QInv
<1>1. IInv /\ QInv /\ [Next]_vars => QInv'
  BY StepQuiet
<1> QED
  BY InitQuiet, <1>1, Inductive, PTL DEF Spec

\* Files that are reached are there in the version of the tree, but for bytes left
\* compressed, or reported.
LEMMA ReachedIsSynced ==
    IInv /\ QInv /\ RawOnlyAfterFault /\ Quiet /\ AllReached => Synced
<1> SUFFICES ASSUME IInv, QInv, RawOnlyAfterFault, Quiet, AllReached
             PROVE  Synced
  OBVIOUS
<1>1. FirstVersions
  BY DEF QInv
<1>2. remoteTree = FirstTree /\ remoteTree # NoTree
  BY <1>1 DEF FirstVersions, AllReached
<1>3. ASSUME NEW p \in Paths, ~Collides(p), ~(failed[LocalPath[p]] > 0)
      PROVE  \/ local[LocalPath[p]] = Plain(p, remoteTree[p])
             \/ /\ local[LocalPath[p]] = [Plain(p, remoteTree[p]) EXCEPT !.form = "raw"]
                /\ ~Ordered \/ count["lost"] + count["again"] > 0
  <2> DEFINE c == local[LocalPath[p]]
  <2>1. LocalPath[p] \in LocalPaths /\ c \in Content /\ c # Absent
    BY <1>3, PathsAssumption DEF IInv, TypeOK, AllReached, Reached
  <2>2. c.path \in Paths /\ c.ver = 1 /\ LocalPath[c.path] = LocalPath[p]
    BY <1>1, <2>1 DEF IInv, AuthenticContent, FirstVersions
  <2>3. c.path = p
    BY <1>3, <2>2 DEF Collides
  <2>4. c.form \in {"plain", "raw"}
    BY <1>3, <2>1 DEF IInv, DamageReported, Content
  <2>5. c.form = "raw" => ~Ordered \/ count["lost"] + count["again"] > 0
    BY <2>1 DEF RawOnlyAfterFault
  <2>6. c = [path |-> p, ver |-> 1, form |-> c.form]
    BY <2>1, <2>2, <2>3 DEF Content
  <2>7. remoteTree[p] = 1
    BY <1>2 DEF FirstTree
  <2> HIDE DEF c
  <2>8. c = Plain(p, remoteTree[p]) \/ (c = [Plain(p, remoteTree[p]) EXCEPT !.form = "raw"]
                                      /\ c.form = "raw")
    BY <2>4, <2>6, <2>7 DEF Plain
  <2> QED
    BY <2>5, <2>8 DEF c
<1> QED
  BY <1>2, <1>3 DEF Synced

\* While the server's files stay as they are, the step that ends a sync leaves
\* every file of the tree it handled there, in the version of that tree, or in
\* files_failed, whatever the threads, repeated trees, lost or repeated messages
\* and a stop of the server did; the exceptions are a refused answer, which is
\* left in errors, and another client's abort before there is a tree
\* (_check_sync_complete, _handle_tree, _handle_auth_result, _handle_file_abort).
THEOREM CompleteIsSynced == Spec => CompleteMeansSynced
<1>1. IInv /\ QInv /\ [Next]_vars =>
        (~syncComplete /\ syncComplete' /\ Quiet =>
           \/ Quiet' /\ AllReached'
           \/ refused'
           \/ remoteTree = NoTree /\ count["foreign"] > 0)
  BY StepQuiet DEF EndsWell
<1>2. (count["edits"] = 0) <=> Quiet
  BY DEF Quiet
<1> QED
  BY <1>1, <1>2, ReachedIsSynced, Inductive, QuietInductive, RawIsAfterFault, PTL
     DEF Spec, CompleteMeansSynced

-----------------------------------------------------------------------------
(* While nothing was lost, the server runs and no challenge came up.       *)

Kept == up /\ count["lost"] + count["hellos"] = 0

FInv == Kept => challenged = 0 /\ \A f \in Pending : UnderWay(f)

LEMMA SpendKept ==
    ASSUME TypeOK, NEW what \in Counted, NEW bound, Spend(what, bound), Kept', up' => up
    PROVE  Kept /\ what \notin {"lost", "hellos"}
<1>1. /\ count["lost"] \in Nat /\ count["hellos"] \in Nat
      /\ count'["lost"] = count["lost"] + (IF what = "lost" THEN 1 ELSE 0)
      /\ count'["hellos"] = count["hellos"] + (IF what = "hellos" THEN 1 ELSE 0)
  BY DEF TypeOK, Spend, Counted
<1> QED
  BY <1>1 DEF Kept

LEMMA SameKept ==
    ASSUME UNCHANGED <<up, count>>, Kept'
    PROVE  Kept
BY DEF Kept

\* What is under way stays so while no place of it is emptied.
LEMMA UnderWayFrame ==
    ASSUME requests \subseteq requests', UNCHANGED <<queue, work>>, network \subseteq network'
    PROVE  \A f \in Fids : UnderWay(f) => UnderWay(f)'
BY DEF UnderWay

\* Nothing is asked for at first.
LEMMA InitForgotten == Init => FInv
BY DEF Init, FInv, Pending

\* What takes a request, a job or a message away is a loss or the stop.
LEMMA EnvironmentForgotten == TypeOK /\ FInv /\ Environment => FInv'
<1> SUFFICES ASSUME TypeOK, FInv, Environment, Kept'
             PROVE  challenged' = 0 /\ \A f \in Pending' : UnderWay(f)'
  BY DEF FInv
<1> USE DEF clientVars, serverVars, authVars
<1> DEFINE Still == /\ UNCHANGED <<buffers, queue, work>> /\ requests \subseteq requests'
                    /\ network \subseteq network' /\ challenged' \in {0, challenged}
<1>1. up' /\ ~ServerStop
  BY DEF Kept, ServerStop
<1>2. ASSUME NEW p \in Paths, ServerEdit(p) \/ OtherClientAborted(p) PROVE Kept /\ Still
  <2>1. CASE ServerEdit(p)
    BY <2>1, SpendKept DEF ServerEdit, Counted
  <2>2. CASE OtherClientAborted(p)
    BY <2>2, SpendKept DEF OtherClientAborted, Counted
  <2> QED
    BY <1>2, <2>1, <2>2
<1>3. ASSUME OnFilesystemChanged \/ RepublishTree PROVE Kept /\ Still
  BY <1>3, SpendKept DEF OnFilesystemChanged, RepublishTree, Counted
<1>4. ASSUME TimeoutChallenge PROVE Kept /\ Still
  BY <1>4, SameKept DEF TimeoutChallenge
<1>5. ASSUME NEW m \in network, LoseMessage(m) \/ RepeatMessage(m) PROVE Kept /\ Still
  <2>1. ~LoseMessage(m)
    BY <1>1, SpendKept DEF LoseMessage, Counted
  <2> QED
    BY <1>5, <2>1, SpendKept DEF RepeatMessage, Counted
<1>6. ASSUME NEW r \in requests, LoseRequest(r) \/ RepeatRequest(r) PROVE Kept /\ Still
  <2>1. ~LoseRequest(r)
    BY <1>1, SpendKept DEF LoseRequest, Counted
  <2> QED
    BY <1>6, <2>1, SpendKept DEF RepeatRequest, Counted
<1>7. ~LoseTree /\ ~OpenChallenge
  BY <1>1, SpendKept DEF LoseTree, OpenChallenge, Counted
<1>8. Kept /\ Still
  BY <1>1, <1>2, <1>3, <1>4, <1>5, <1>6, <1>7 DEF Environment
<1>9. Pending' = Pending /\ Pending \subseteq Fids
  BY <1>8 DEF Pending
<1> QED
  BY <1>8, <1>9, UnderWayFrame DEF FInv

\* A request becomes a job, a job a thread's work or an abort, and the work
\* ends with the done.
LEMMA ServerForgotten == TypeOK /\ FInv /\ ServerStep => FInv'
<1> SUFFICES ASSUME TypeOK, FInv, ServerStep, Kept'
             PROVE  challenged' = 0 /\ \A f \in Pending' : UnderWay(f)'
  BY DEF FInv
<1> USE DEF clientVars
<1>1. UNCHANGED <<buffers, up, count>> /\ challenged' \in {0, challenged}
  BY DEF authVars, ServerStep, HandleFileRequest, HandleAuthResponse, BeginSend, PublishNext
<1>2. challenged = 0 /\ (\A f \in Pending : UnderWay(f)) /\ Pending' = Pending
  BY <1>1, SameKept DEF FInv, Pending
<1> SUFFICES ASSUME NEW f \in Pending PROVE UnderWay(f)'
  BY <1>1, <1>2
<1>3. ASSUME NEW r \in requests, HandleFileRequest(r) PROVE UnderWay(f)'
  <2> DEFINE j == [job |-> jobs + 1, fid |-> r.fid, path |-> r.path]
  <2>1. /\ requests' = requests \ {r} /\ UNCHANGED <<work, network>>
        /\ queue' = Append(queue, j)
    BY <1>2, <1>3 DEF HandleFileRequest
  <2>2. j.fid = r.fid /\ queue \in Seq(Job)
    BY DEF TypeOK
  <2> HIDE DEF j
  <2>3. /\ Len(queue') = Len(queue) + 1 /\ queue'[Len(queue) + 1] = j
        /\ \A i \in 1 .. Len(queue) : queue'[i] = queue[i]
        /\ Len(queue) \in Nat
    BY <2>1, <2>2
  <2> QED
    BY <1>2, <2>1, <2>2, <2>3 DEF UnderWay
<1>4. ASSUME NEW w \in Workers, BeginSend(w) PROVE UnderWay(f)'
  <2> DEFINE j == Head(queue)
             enc == [job |-> j.job, fid |-> j.fid, path |-> j.path, ver |-> disk[j.path],
                     packed |-> <<j.path, disk[j.path]>> \in Packed]
             s == [fid |-> j.fid, enc |-> enc, next |-> MetaRank]
             a == MessageOf(s, AbortRank)
  <2>1. /\ queue' = Tail(queue) /\ UNCHANGED requests /\ work[w] = Idle
        /\ \/ work' = [work EXCEPT ![w] = s] /\ network' = network
           \/ work' = work /\ network' = network \union {a}
    BY <1>4 DEF BeginSend, Aborted
  <2>2. /\ queue \in Seq(Job) /\ queue # << >> /\ j = queue[1] /\ j \in Job
        /\ \A i \in 1 .. Len(Tail(queue)) : Tail(queue)[i] = queue[i + 1]
        /\ Len(Tail(queue)) = Len(queue) - 1 /\ Len(queue) \in Nat \ {0}
    BY <1>4 DEF TypeOK, BeginSend
  <2>3. s.fid = j.fid /\ a.fid = j.fid /\ a.rank = AbortRank
    BY DEF MessageOf
  <2>4. s \in Sending
    <3>1. disk[j.path] \in Nat /\ j.job \in Nat /\ j.fid \in Fids /\ j.path \in Paths
      BY <2>2 DEF TypeOK, Tree, Job
    <3> QED
      BY <3>1, ChunksAssumption
         DEF Sending, Encryption, AllFids, MetaRank, DoneRank
  <2> HIDE DEF j, enc, s, a
  <2>5. j.fid = f => UnderWay(f)'
    <3>1. s # Idle
      BY <2>4, SentinelsAssumption
    <3> QED
      BY <2>1, <2>3, <3>1 DEF UnderWay, TypeOK
  <2>6. (\E i \in 1 .. Len(queue) : queue[i].fid = f) => UnderWay(f)'
    <3> SUFFICES ASSUME NEW i \in 1 .. Len(queue), queue[i].fid = f PROVE UnderWay(f)'
      OBVIOUS
    <3>1. CASE i = 1
      BY <2>2, <2>5, <3>1
    <3>2. CASE i # 1
      <4>1. i - 1 \in 1 .. Len(queue') /\ queue'[i - 1] = queue[i]
        BY <2>1, <2>2, <3>2
      <4> QED
        BY <4>1 DEF UnderWay
    <3> QED
      BY <3>1, <3>2
  <2>7. (\E v \in Workers : work[v] # Idle /\ work[v].fid = f) => UnderWay(f)'
    BY <2>1 DEF UnderWay, TypeOK
  <2> QED
    BY <1>2, <2>1, <2>6, <2>7 DEF UnderWay
<1>5. ASSUME NEW w \in Workers, PublishNext(w) PROVE UnderWay(f)'
  <2> DEFINE s == work[w]
             m == MessageOf(s, s.next)
  <2>1. /\ s \in Sending /\ s # Idle /\ UNCHANGED <<requests, queue>>
        /\ network' = network \union {m}
        /\ work' = [work EXCEPT ![w] = Advance(s)]
    BY <1>5 DEF TypeOK, PublishNext
  <2>2. m.fid = s.fid /\ m.rank = s.next
    BY DEF MessageOf
  <2>3. CASE s.next = DoneRank
    <3>1. Advance(s) = Idle
      BY <2>3 DEF Advance
    <3> HIDE DEF s, m
    <3> QED
      BY <1>2, <2>1, <2>2, <2>3, <3>1 DEF UnderWay, TypeOK, s
  <2>4. CASE s.next # DoneRank
    <3>1. Advance(s) \in Sending /\ Advance(s).fid = s.fid
      BY <2>1, <2>4, ChunksAssumption DEF Advance, Sending, DoneRank
    <3>2. Advance(s) # Idle
      BY <3>1, SentinelsAssumption
    <3> HIDE DEF m
    <3> QED
      BY <1>2, <2>1, <3>1, <3>2 DEF UnderWay, TypeOK
  <2> QED
    BY <2>3, <2>4
<1>6. ASSUME NEW a \in answers, HandleAuthResponse(a) PROVE UnderWay(f)'
  <2>1. UNCHANGED <<requests, queue, work, network>>
    BY <1>6 DEF HandleAuthResponse
  <2> QED
    BY <1>2, <2>1 DEF UnderWay
<1> QED
  BY <1>3, <1>4, <1>5, <1>6 DEF ServerStep

\* _request_file publishes the request of every buffer it makes.
LEMMA HandleTreeForgotten == FInv /\ HandleTree => FInv'
<1> SUFFICES ASSUME FInv, HandleTree, Kept'
             PROVE  challenged' = 0 /\ \A f \in Pending' : UnderWay(f)'
  BY DEF FInv
<1>1. UNCHANGED <<challenged, queue, work, up, network, count>>
  BY DEF HandleTree, serverVars, authVars
<1>2. challenged = 0 /\ \A f \in Pending : UnderWay(f)
  BY <1>1, SameKept DEF FInv
<1>3. CASE UNCHANGED <<requests, buffers, requested>>
  BY <1>1, <1>2, <1>3, UnderWayFrame DEF Pending
<1>4. ASSUME NEW fetch \in SUBSET Paths, NEW id \in [fetch -> FreshFids],
             RequestFiles(fetch, id)
      PROVE  \A f \in Pending' : UnderWay(f)'
  <2> DEFINE asked == {[fid |-> id[p], path |-> p, again |-> FALSE] : p \in fetch}
  <2>1. /\ requests' = requests \union asked
        /\ \A f \in Fids : (~ \E p \in fetch : id[p] = f) => buffers'[f] = buffers[f]
    BY <1>4 DEF RequestFiles
  <2>2. \A p \in fetch : \E r \in asked : r.fid = id[p]
    <3> SUFFICES ASSUME NEW p \in fetch PROVE \E r \in asked : r.fid = id[p]
      OBVIOUS
    <3> WITNESS [fid |-> id[p], path |-> p, again |-> FALSE] \in asked
    <3> QED
      OBVIOUS
  <2> HIDE DEF asked
  <2>3. \A f \in Fids : UnderWay(f) => UnderWay(f)'
    BY <1>1, <2>1, UnderWayFrame
  <2> SUFFICES ASSUME NEW f \in Pending' PROVE UnderWay(f)'
    OBVIOUS
  <2>4. CASE \E p \in fetch : id[p] = f
    BY <2>1, <2>2, <2>4 DEF UnderWay
  <2>5. CASE ~ \E p \in fetch : id[p] = f
    BY <1>2, <2>1, <2>3, <2>5 DEF Pending
  <2> QED
    BY <2>4, <2>5
<1> QED
  BY <1>1, <1>2, <1>3, <1>4, HandleTreeCases

\* The done or the abort of a transfer ends it, and no message of another does.
LEMMA ClientForgotten ==
    ASSUME TypeOK, FInv, NEW m \in network,
           HandleFileMeta(m) \/ HandleFileChunk(m) \/ HandleFileDone(m) \/ HandleFileAbort(m)
    PROVE  FInv'
<1> SUFFICES ASSUME Kept' PROVE challenged' = 0 /\ \A f \in Pending' : UnderWay(f)'
  BY DEF FInv
<1>1. /\ UNCHANGED <<challenged, queue, work, up, requests>> /\ network' = network \ {m}
      /\ UNCHANGED count \/ Spend("writeErrors", MaxWriteErrors)
  BY DEF HandleFileMeta, HandleFileChunk, HandleFileDone, HandleFileAbort, Receive, Writes,
     serverVars, authVars
<1>2. challenged = 0 /\ \A f \in Pending : UnderWay(f)
  BY <1>1, SpendKept, SameKept DEF FInv, Counted
<1>3. \A f \in Pending' : f \in Pending
                         /\ (f = m.fid => HandleFileMeta(m) \/ HandleFileChunk(m))
  BY DEF TypeOK, HandleFileMeta, HandleFileChunk, HandleFileDone, HandleFileAbort, Pending,
     Unbuffer
<1>4. HandleFileMeta(m) \/ HandleFileChunk(m) => m.rank \notin {DoneRank, AbortRank}
  BY ChunksAssumption
     DEF HandleFileMeta, HandleFileChunk, MetaRank, ChunkRanks, DoneRank, AbortRank
<1>5. \A f \in Pending' : UnderWay(f) => UnderWay(f)'
  BY <1>1, <1>3, <1>4 DEF UnderWay
<1> QED
  BY <1>1, <1>2, <1>3, <1>5

\* No step of the two programs loses track of a request: whatever the order of
\* threads, trees, edits, repeats, failing writes and other clients' aborts,
\* each entry of _chunk_buffers has a request, a job, a thread or the message
\* that ends it.
THEOREM NothingIsForgotten == Spec => []NothingForgotten
<1>1. TypeOK /\ FInv /\ [Next]_vars => FInv'
  <2>1. TypeOK /\ FInv /\ Next => FInv'
    <3>1. FInv /\ HandleAuthResult => FInv'
      <4>1. HandleAuthResult => UNCHANGED <<up, count, challenged, buffers, requests, queue,
                                            work, network>>
        BY DEF HandleAuthResult
      <4> QED
        BY <4>1 DEF FInv, Kept, Pending, UnderWay
    <3> QED
      BY <3>1, HandleTreeForgotten, ClientForgotten, ServerForgotten, EnvironmentForgotten
         DEF Next, ClientStep
  <2>2. FInv /\ UNCHANGED vars => FInv'
    BY DEF FInv, Kept, Pending, UnderWay, vars
  <2> QED
    BY <2>1, <2>2
<1>2. FInv => NothingForgotten
  BY DEF FInv, Kept, NothingForgotten
<1> QED
  BY InitForgotten, <1>1, <1>2, TypeCorrect, PTL DEF Spec

=============================================================================
