-------------------------- MODULE DataPathDelivery --------------------------
(***************************************************************************)
(* Proofs about DataPath, continued: the transfers, the composed           *)
(* invariant, what is written, what is delivered, and that no client waits *)
(* in vain, for all scenes, keys and bounds.                               *)
(***************************************************************************)
EXTENDS DataPathProofs

-----------------------------------------------------------------------------
(* The transfers.                                                          *)

LEMMA TransferPrime ==
    ASSUME NEW f
    PROVE  /\ Asked(f)' <=> AskedAs(Of(wire', f), buffers'[f], scene'.clientId, f)
           /\ Refused(f)' <=> RefusedAs(Of(wire', f), f)
           /\ \A data : Served(f, data)' <=>
                ServedAs(Of(wire', f), buffers'[f], ChunksOf(running'["server"].key, f, data), f)
           /\ Transfer(f)' <=>
                /\ IsBuffer(buffers'[f]) /\ handled' # NoTree /\ buffers'[f].source \in DOMAIN handled'
                /\ buffers'[f].path = MapRemoteToLocal(buffers'[f].source)
                /\ ~Ignored(ClientSide', buffers'[f].path, FALSE)
                /\ \/ Asked(f)' \/ Refused(f)'
                   \/ \E v \in versions' : v[1] = buffers'[f].source /\ Served(f, v[2])'
BY DEF Transfer, Asked, Refused, Served, Key

\* A transfer whose messages and buffer are left alone.
LEMMA TransferKept ==
    ASSUME NEW f, Of(wire', f) = Of(wire, f), buffers'[f] = buffers[f],
           UNCHANGED <<scene, running, handled>>, versions \subseteq versions'
    PROVE  /\ Asked(f)' <=> Asked(f)
           /\ \A data : Served(f, data)' <=> Served(f, data)
           /\ Transfer(f) => Transfer(f)'
<1>1. Asked(f)' <=> Asked(f)
  BY TransferPrime DEF Asked
<1>2. Refused(f)' <=> Refused(f)
  BY TransferPrime DEF Refused
<1>3. ASSUME NEW data PROVE Served(f, data)' <=> Served(f, data)
  BY TransferPrime DEF Served, Key
<1>4. ClientSide' = ClientSide
  BY SameScene
<1>5. Transfer(f) => Transfer(f)'
  BY <1>1, <1>2, <1>3, <1>4, TransferPrime DEF Transfer
<1> QED
  BY <1>1, <1>3, <1>5

\* A handler that takes a message about one transfer and sends others about it.
LEMMA OthersKept ==
    ASSUME NEW m \in wire, NEW sent, \A n \in sent : FileOf(n) = FileOf(m),
           wire' = (wire \ {m}) \union sent
    PROVE  /\ Of(wire', FileOf(m)) = (Of(wire, FileOf(m)) \ {m}) \union sent
           /\ \A g : g # FileOf(m) => Of(wire', g) = Of(wire, g)
BY DEF Of

\* The content of a file that can be read is a published version of it.
LEMMA SourceData ==
    ASSUME DiskInv, NEW t, IsTree(t), NEW path \in DOMAIN t, Readable(path)
    PROVE  <<path, DataAt(path)>> \in ContentOf(disk) /\ IsData(DataAt(path))
<1>1. PICK x \in Entries \X Path : path = PathOf(x)
  BY DEF IsTree
<1> DEFINE e == x[1]
           p == x[2]
<1>2. e \in Entries /\ p \in Path /\ scene \in Scenes /\ Unique
  BY <1>1 DEF IsTree, DiskInv, SceneInv
<1>3. Resolve(path) = e /\ SubSeq(path, Len(Prefix(e)) + 1, Len(path)) = p /\ path = Prefix(e) \o p
  BY <1>1, <1>2, Owner DEF PathOf
<1> HIDE DEF e, p
<1>4. p \in DOMAIN disk[e] /\ DataAt(path) = disk[e][p].data
  BY <1>3 DEF Readable, DataAt
<1>5. <<path, DataAt(path)>> \in ContentOf(disk)
  BY <1>2, <1>3, <1>4, DiskContent
<1>6. IsData(DataAt(path))
  BY <1>2, <1>4 DEF DiskInv, Files, IsFile, IsData
<1> QED
  BY <1>5, <1>6

\* The messages about a transfer are told apart.
LEMMA KindsDiffer ==
    ASSUME NEW f, NEW id, NEW path, NEW chunks, NEW q
    PROVE  /\ Request(id, f, path).kind = "file_request" /\ Done(f).kind = "done"
           /\ Abort(f).kind = "abort" /\ Chunk(f, chunks, q).kind = "chunk"
BY DEF Request, Done, Abort, Chunk, Message

\* The state of the transfer that a message is about.
LEMMA ChunkMeets ==
    ASSUME NEW f, NEW m \in Of(wire, f), NEW data, IsData(data), Served(f, data),
           NEW q \in DOMAIN ChunksOf(Key("server"), f, data),
           m = Chunk(f, ChunksOf(Key("server"), f, data), q)
    PROVE  LET C == ChunksOf(Key("server"), f, data)
           IN  \E D \in SUBSET DOMAIN C :
                 /\ q \notin D /\ buffers[f].chunks = [x \in D |-> C[x]]
                 /\ Of(wire, f) \ {m} =
                      {Done(f)} \union {Chunk(f, C, x) : x \in DOMAIN C \ (D \union {q})}
<1> DEFINE C == ChunksOf(Key("server"), f, data)
<1>1. DOMAIN C \subseteq Numbers
  BY ChunkNumbers
<1>2. PICK D \in SUBSET DOMAIN C :
        /\ buffers[f].chunks = [x \in D |-> C[x]]
        /\ Of(wire, f) = {Done(f)} \union {Chunk(f, C, x) : x \in DOMAIN C \ D}
  BY DEF Served, ServedAs
<1>3. \A x \in DOMAIN C : Chunk(f, C, x) = m => x = q
  <2> TAKE x \in DOMAIN C
  <2>1. ChunkSeq(Chunk(f, C, x).topic) = x
    BY <1>1, ChunkIs
  <2>2. ChunkSeq(Chunk(f, C, q).topic) = q
    BY <1>1, ChunkIs
  <2>3. m = Chunk(f, C, q)
    OBVIOUS
  <2> HIDE DEF C
  <2> QED
    BY <2>1, <2>2, <2>3
<1>4. Done(f) # m
  BY KindsDiffer
<1> HIDE DEF C
<1>5. m = Chunk(f, C, q) /\ q \in DOMAIN C
  BY DEF C
<1>6. q \notin D
  BY <1>2, <1>3, <1>4, <1>5
<1>7. Of(wire, f) \ {m} = {Done(f)} \union {Chunk(f, C, x) : x \in DOMAIN C \ (D \union {q})}
  BY <1>2, <1>3, <1>4, <1>5
<1> QED
  BY <1>2, <1>6, <1>7 DEF C

\* A request for a file is answered with what can be read then, or an abort.
LEMMA RequestServed ==
    ASSUME PathInv, accepted = "yes", NEW m, HandleFileRequest(m), NEW f, f = FileOf(m)
    PROVE  /\ f \in DOMAIN buffers /\ Transfer(f) /\ Asked(f)
           /\ UNCHANGED <<setupVars, scene, serverVars, clientVars>>
           /\ \A n \in wire' : FileOf(n) = f \/ n \in wire
           /\ \A g : g # f => Of(wire', g) = Of(wire, g)
           /\ IF Readable(buffers[f].source)
              THEN \A data : data = DataAt(buffers[f].source) => Served(f, data)' ELSE Refused(f)'
           /\ Transfer(f)'
<1> DEFINE source == buffers[f].source
           id == scene.clientId
<1>1. m \in wire /\ SubSeq(m.topic, 1, 3) = FromClient /\ m.topic[5] = "file_request"
  BY DEF HandleFileRequest, Route
<1>2. f \in DOMAIN buffers /\ Transfer(f) /\ Asked(f) /\ m = Request(id, f, source)
  BY <1>1, MessageOf, OtherSide
<1>3. id \in Seq(STRING) /\ Len(id) = 1 /\ source \in Seq(STRING)
  BY <1>2, SourceIsPath, ScenesAssumption DEF PathInv, DiskInv, SceneInv, Path, AuthInv
<1>4. m.body[1] = f /\ Tail(m.body) = source /\ Sender(m) = id
  <2>1. /\ Request(id, f, source).body[1] = f /\ Tail(Request(id, f, source).body) = source
        /\ <<Request(id, f, source).topic[4]>> = id
    <3>1. \A i, p : i \in Seq(STRING) /\ Len(i) = 1 /\ p \in Seq(STRING) =>
            /\ Request(i, f, p).body[1] = f /\ Tail(Request(i, f, p).body) = p
            /\ <<Request(i, f, p).topic[4]>> = i
      BY RequestIs
    <3> QED
      BY <1>3, <3>1, Zenon
  <2> QED
    BY <1>2, <2>1 DEF Sender
<1>5. ~challenged /\ Registered(Sender(m))
  BY <1>4 DEF PathInv, AuthInv, Admitted, Registered
<1> DEFINE C == ChunksOf(Key("server"), f, DataAt(source))
           sent == IF Readable(source) THEN {Done(f)} \union {Chunk(f, C, x) : x \in DOMAIN C} ELSE {Abort(f)}
<1>6. Answer(f, source) = sent
  BY DEF Answer, Refusal, Abort, Chunk, Done, ChunksOf
<1>7. Heard(sent) = sent
  <2>1. \A n \in sent : \/ \E kind \in {"done", "abort"} : n.topic = FileTopic(f, kind)
                        \/ \E segment : n.topic = ChunkTopic(f, segment)
    BY DEF Abort, Chunk, Done, Message
  <2> QED
    BY <2>1, HeardFromServer
<1>8. wire' = (wire \ {m}) \union sent
  BY <1>4, <1>5, <1>6, <1>7 DEF HandleFileRequest
<1>9. Readable(source) => <<source, DataAt(source)>> \in versions /\ IsData(DataAt(source))
  BY <1>2, SourceData DEF PathInv, Transfer, TreesInv, VersionsInv
<1>10. \A n \in sent : FileOf(n) = f
  <2>1. Readable(source) => DOMAIN C \subseteq Numbers
    BY <1>9, ChunkNumbers
  <2> QED
    BY <2>1, AnswerIs, ChunkIs
<1>11. UNCHANGED <<setupVars, scene, serverVars, clientVars>>
  BY DEF HandleFileRequest
<1>12. Of(wire, f) = {m} /\ buffers[f].chunks = <<>>
  BY <1>2 DEF Asked, AskedAs
<1> HIDE DEF sent
<1>13. Of(wire', f) = sent /\ \A g : g # f => Of(wire', g) = Of(wire, g)
  <2>1. m \in wire /\ \A n \in sent : FileOf(n) = FileOf(m)
    BY <1>1, <1>10
  <2>2. /\ Of(wire', FileOf(m)) = (Of(wire, FileOf(m)) \ {m}) \union sent
        /\ \A g : g # FileOf(m) => Of(wire', g) = Of(wire, g)
    BY <1>8, <2>1, OthersKept
  <2> QED
    BY <1>12, <2>2
<1>14. IF Readable(source) THEN \A data : data = DataAt(source) => Served(f, data)' ELSE Refused(f)'
  <2>1. buffers' = buffers /\ running' = running
    BY <1>11 DEF clientVars, setupVars
  <2>2. CASE ~Readable(source)
    BY <1>13, <2>2, TransferPrime DEF RefusedAs, sent
  <2>3. CASE Readable(source)
    <3>1. Of(wire', f) = {Done(f)} \union {Chunk(f, C, x) : x \in DOMAIN C \ {}}
      BY <1>13, <2>3 DEF sent
    <3>2. buffers[f].chunks = [x \in {} |-> C[x]]
      BY <1>12
    <3> HIDE DEF C
    <3>3. {} \in SUBSET DOMAIN C
      OBVIOUS
    <3>4. ServedAs(Of(wire', f), buffers[f], C, f)
      BY <3>1, <3>2, <3>3 DEF ServedAs
    <3>5. ServedAs(Of(wire', f), buffers'[f], ChunksOf(running'["server"].key, f, DataAt(source)), f)
      BY <2>1, <3>4 DEF C, Key
    <3> QED
      BY <2>1, <2>3, <3>5, TransferPrime
  <2> QED
    BY <2>2, <2>3
<1>15. Transfer(f)'
  <2>1. /\ buffers' = buffers /\ handled' = handled /\ versions' = versions
        /\ ClientSide' = ClientSide
    BY <1>11, SameScene DEF serverVars, clientVars
  <2>2. Refused(f)' \/ \E v \in versions : v[1] = source /\ Served(f, v[2])'
    <3>1. CASE Readable(source)
      <4>1. <<source, DataAt(source)>>[1] = source /\ <<source, DataAt(source)>>[2] = DataAt(source)
        OBVIOUS
      <4>2. PICK v \in versions : v[1] = source /\ v[2] = DataAt(source)
        BY <1>9, <3>1, <4>1
      <4> QED
        BY <1>14, <3>1, <4>2
    <3> QED
      BY <1>14, <3>1
  <2> QED
    BY <1>2, <2>1, <2>2, TransferPrime DEF Transfer
<1>16. \A n \in wire' : FileOf(n) = f \/ n \in wire
  BY <1>8, <1>10
<1> QED
  BY <1>2, <1>11, <1>13, <1>14, <1>15, <1>16

LEMMA StoreChunk ==
    ASSUME NEW C, NEW D \in SUBSET DOMAIN C, NEW q \in DOMAIN C
    PROVE  With([x \in D |-> C[x]], q, C[q]) = [x \in D \union {q} |-> C[x]]
BY DEF With

\* A chunk is stored with the others of its transfer.
LEMMA ChunkTaken ==
    ASSUME PathInv, accepted = "yes", NEW m, HandleFileChunk(m), NEW f, f = FileOf(m)
    PROVE  /\ f \in DOMAIN buffers /\ Transfer(f) /\ ~Asked(f)
           /\ UNCHANGED <<setupVars, scene, serverVars, handled, local>>
           /\ wire' \subseteq wire /\ DOMAIN buffers' = DOMAIN buffers
           /\ buffers'[f].source = buffers[f].source
           /\ \A g : g # f => Of(wire', g) = Of(wire, g) /\ buffers'[g] = buffers[g]
           /\ \A data : IsData(data) /\ Served(f, data) => Served(f, data)'
           /\ Transfer(f)'
<1>1. m \in wire /\ Handler(m.topic) = "chunk" /\ wire' = wire \ {m}
  BY DEF HandleFileChunk, Dispatch
<1>2. f \in DOMAIN buffers /\ Transfer(f) /\ m \in Of(wire, f) /\ FileId(m.topic) = f
  BY <1>1, MessageOf DEF Of
<1>3. \E v \in versions : v[1] = buffers[f].source /\ Served(f, v[2])
  BY <1>1, MessageOf
<1>4. m.kind = "chunk"
  BY <1>1, MessageOf, KindsDiffer
<1>5. ~Asked(f) /\ ~Refused(f)
  BY <1>2, <1>4, KindsDiffer DEF Asked, AskedAs, Refused, RefusedAs
<1>6. Of(wire', f) = Of(wire, f) \ {m} /\ \A g : g # f => Of(wire', g) = Of(wire, g)
  BY <1>1 DEF Of
<1> DEFINE old == buffers[f]
           new == [old EXCEPT !.chunks = With(@, ChunkSeq(m.topic), m.body)]
<1>7. buffers' = [buffers EXCEPT ![f] = new]
  BY <1>2 DEF HandleFileChunk
<1>8. IsBuffer(old)
  BY <1>2 DEF Transfer
<1>9. /\ IsBuffer(new) /\ new.path = old.path /\ new.source = old.source
      /\ new.chunks = With(old.chunks, ChunkSeq(m.topic), m.body)
  BY <1>8 DEF IsBuffer
<1> HIDE DEF new, old
<1>10. DOMAIN buffers' = DOMAIN buffers /\ buffers'[f] = new /\ \A g : g # f => buffers'[g] = buffers[g]
  BY <1>2, <1>7
<1>11. UNCHANGED <<setupVars, scene, serverVars, handled, local>>
  BY DEF HandleFileChunk
<1>12. ASSUME NEW data, IsData(data), Served(f, data) PROVE Served(f, data)'
  <2> DEFINE C == ChunksOf(Key("server"), f, data)
  <2>1. DOMAIN C \subseteq Numbers
    BY <1>12, ChunkNumbers
  <2>2. PICK q \in DOMAIN C : m = Chunk(f, C, q)
    BY <1>2, <1>4, <1>12, KindsDiffer DEF Served, ServedAs
  <2>3. ChunkSeq(m.topic) = q /\ m.body = C[q]
    <3>1. q \in Numbers
      BY <2>1
    <3>2. ChunkSeq(Chunk(f, C, q).topic) = q /\ Chunk(f, C, q).body = C[q]
      BY <3>1, ChunkIs
    <3> QED
      BY <2>2, <3>2
  <2>4. PICK D \in SUBSET DOMAIN C :
          /\ old.chunks = [x \in D |-> C[x]]
          /\ Of(wire, f) \ {m} = {Done(f)} \union {Chunk(f, C, x) : x \in DOMAIN C \ (D \union {q})}
    BY <1>2, <1>12, <2>2, ChunkMeets DEF old
  <2> HIDE DEF C
  <2>5. new.chunks = [x \in D \union {q} |-> C[x]]
    BY <1>9, <2>3, <2>4, StoreChunk
  <2>6. ServedAs(Of(wire', f), buffers'[f], C, f)
    BY <1>6, <1>10, <2>4, <2>5 DEF ServedAs
  <2>7. running' = running
    BY <1>11 DEF setupVars
  <2>8. ServedAs(Of(wire', f), buffers'[f], ChunksOf(running'["server"].key, f, data), f)
    BY <2>6, <2>7 DEF C, Key
  <2> QED
    BY <2>8, TransferPrime
<1>13. Transfer(f)'
  <2>1. PICK v \in versions : v[1] = old.source /\ Served(f, v[2])
    BY <1>3 DEF old
  <2>2. IsData(v[2])
    BY DEF PathInv, VersionsInv
  <2>3. Served(f, v[2])'
    BY <1>12, <2>1, <2>2
  <2>4. ClientSide' = ClientSide /\ handled' = handled /\ versions' = versions
    BY <1>11, SameScene DEF serverVars
  <2> QED
    BY <1>2, <1>9, <1>10, <2>1, <2>3, <2>4, TransferPrime DEF Transfer, old
<1>14. buffers'[f].source = buffers[f].source /\ wire' \subseteq wire
  BY <1>1, <1>9, <1>10 DEF old
<1> QED
  BY <1>2, <1>5, <1>6, <1>10, <1>11, <1>12, <1>13, <1>14

\* The transfer that is over leaves nothing behind.
LEMMA TransferOver ==
    ASSUME NEW m \in wire, Of(wire, FileOf(m)) = {m}, wire' = wire \ {m}
    PROVE  /\ \A n \in wire' : FileOf(n) # FileOf(m)
           /\ \A g : g # FileOf(m) => Of(wire', g) = Of(wire, g)
BY DEF Of

\* A write writes the data, and then the result does not say that it failed; or the
\* place is taken or may fail, the result says so, and there is a part of the data or
\* what there was.
LEMMA Written ==
    ASSUME NEW dest, NEW data \in Seq(STRING), WriteFile(dest, data)
    PROVE  /\ failed \subseteq failed' /\ DOMAIN local \subseteq DOMAIN local'
           /\ \A d \in DOMAIN local' : d # dest => d \in DOMAIN local /\ local'[d] = local[d]
           /\ \/ dest \in DOMAIN local' /\ local'[dest] = data
              \/ /\ dest \in failed' /\ (InTheWay(local, dest) \/ dest \in scene.stuck)
                 /\ \/ local' = local
                    \/ /\ dest \in scene.stuck /\ dest \in DOMAIN local'
                       /\ \E n \in 0 .. Len(data) : local'[dest] = SubSeq(data, 1, n)
<1>1. CASE local' = With(local, dest, data) /\ UNCHANGED failed
  BY <1>1 DEF With
<1>2. CASE (InTheWay(local, dest) \/ dest \in scene.stuck) /\ FailWrite(dest, data)
  <2>1. CASE local' = local
    BY <1>2, <2>1 DEF FailWrite
  <2>2. CASE ~InTheWay(local, dest) /\ \E n \in 0 .. Len(data) : local' = With(local, dest, SubSeq(data, 1, n))
    <3>1. PICK n \in 0 .. Len(data) : local' = With(local, dest, SubSeq(data, 1, n))
      BY <2>2
    <3>2. /\ DOMAIN local' = DOMAIN local \union {dest} /\ local'[dest] = SubSeq(data, 1, n)
          /\ \A d \in DOMAIN local' : d # dest => d \in DOMAIN local /\ local'[d] = local[d]
      BY <3>1 DEF With
    <3> QED
      BY <1>2, <2>2, <3>2 DEF FailWrite
  <2> QED
    BY <1>2, <2>1, <2>2 DEF FailWrite
<1> QED
  BY <1>1, <1>2 DEF WriteFile

\* What ends a transfer comes after its chunks: the content is whole, and it is
\* written, or with another key the file fails.
LEMMA DoneTaken ==
    ASSUME PathInv, accepted = "yes", NEW m, HandleFileDone(m), NEW f, f = FileOf(m)
    PROVE  /\ f \in DOMAIN buffers /\ Transfer(f) /\ ~Asked(f)
           /\ UNCHANGED <<setupVars, scene, serverVars, accepted, offered, handled>>
           /\ wire' \subseteq wire /\ \A n \in wire' : FileOf(n) # f
           /\ \A g : g # f => Of(wire', g) = Of(wire, g)
           /\ buffers' = Without(buffers, f)
           /\ \A data : IsData(data) /\ Served(f, data) =>
                IF Key("server") = Key("client")
                THEN WriteFile(buffers[f].path, data) ELSE local' = local
<1>1. /\ m \in wire /\ Handler(m.topic) = "done" /\ wire' = wire \ {m}
      /\ \A n \in wire : n.kind = "chunk" => FileId(n.topic) # FileId(m.topic)
  BY DEF HandleFileDone, Dispatch
<1>2. f \in DOMAIN buffers /\ Transfer(f) /\ m \in Of(wire, f) /\ FileId(m.topic) = f /\ m = Done(f)
  BY <1>1, MessageOf DEF Of
<1>3. PICK v \in versions : v[1] = buffers[f].source /\ Served(f, v[2])
  BY <1>1, MessageOf
<1>4. ~Asked(f)
  BY <1>2, KindsDiffer DEF Asked, AskedAs
<1>5. IsData(v[2])
  BY DEF PathInv, VersionsInv
<1>6. ASSUME NEW data, IsData(data), Served(f, data)
      PROVE  /\ Of(wire, f) = {m}
             /\ buffers[f].chunks = ChunksOf(Key("server"), f, data)
  <2> DEFINE C == ChunksOf(Key("server"), f, data)
  <2>1. DOMAIN C \subseteq Numbers /\ C = [q \in DOMAIN C |-> C[q]]
    BY <1>6, ChunkNumbers
  <2>2. PICK D \in SUBSET DOMAIN C :
          /\ buffers[f].chunks = [q \in D |-> C[q]]
          /\ Of(wire, f) = {Done(f)} \union {Chunk(f, C, q) : q \in DOMAIN C \ D}
    BY <1>6 DEF Served, ServedAs
  <2> HIDE DEF C
  <2>3. ASSUME NEW q \in DOMAIN C \ D PROVE FALSE
    <3>1. Chunk(f, C, q) \in wire
      BY <2>2 DEF Of
    <3>2. Chunk(f, C, q).kind = "chunk" /\ FileId(Chunk(f, C, q).topic) = f
      BY <2>1, ChunkIs
    <3> QED
      BY <1>1, <1>2, <3>1, <3>2
  <2>4. D = DOMAIN C
    BY <2>3
  <2>5. {Chunk(f, C, q) : q \in DOMAIN C \ D} = {}
    BY <2>3
  <2> QED
    BY <1>2, <2>1, <2>2, <2>4, <2>5 DEF C
<1>7. UNCHANGED <<setupVars, scene, serverVars, accepted, offered, handled>>
  BY DEF HandleFileDone
<1>8. buffers' = Without(buffers, f)
  BY <1>2 DEF HandleFileDone
<1>9. ASSUME NEW data, IsData(data), Served(f, data)
      PROVE  IF Key("server") = Key("client")
             THEN WriteFile(buffers[f].path, data) ELSE local' = local
  <2> DEFINE bytes == Reassemble(buffers[f].chunks)
  <2>1. bytes = Seal(Key("server"), f, data)
    BY <1>6, <1>9, ChunkNumbers
  <2>2. data \in Seq(STRING)
    BY <1>9 DEF IsData
  <2>3. (Opens(Key("client"), f, bytes) <=> Key("client") = Key("server")) /\ Opened(bytes) = data
    BY <2>1, <2>2, SealOpens
  <2>4. IF Opens(Key("client"), f, bytes)
        THEN WriteFile(buffers[f].path, Opened(bytes)) ELSE local' = local
    BY <1>2 DEF HandleFileDone
  <2> HIDE DEF bytes
  <2> QED
    BY <2>3, <2>4
<1>10. Of(wire, f) = {m}
  BY <1>3, <1>5, <1>6
<1>11. wire' \subseteq wire /\ (\A n \in wire' : FileOf(n) # f) /\ \A g : g # f => Of(wire', g) = Of(wire, g)
  BY <1>1, <1>10, TransferOver
<1> QED
  BY <1>2, <1>4, <1>7, <1>8, <1>9, <1>11

\* A file that could not be read fails.
LEMMA AbortTaken ==
    ASSUME PathInv, accepted = "yes", NEW m, HandleFileAbort(m), NEW f, f = FileOf(m)
    PROVE  /\ f \in DOMAIN buffers /\ Transfer(f) /\ ~Asked(f) /\ \A data : ~Served(f, data)
           /\ UNCHANGED <<setupVars, scene, serverVars, accepted, offered, handled, local>>
           /\ wire' \subseteq wire /\ \A n \in wire' : FileOf(n) # f
           /\ \A g : g # f => Of(wire', g) = Of(wire, g)
           /\ buffers' = Without(buffers, f)
<1>1. m \in wire /\ Handler(m.topic) = "abort" /\ wire' = wire \ {m}
  BY DEF HandleFileAbort, Dispatch
<1>2. f \in DOMAIN buffers /\ Transfer(f) /\ m \in Of(wire, f) /\ FileId(m.topic) = f /\ m = Abort(f)
  BY <1>1, MessageOf DEF Of
<1>3. ~Asked(f) /\ \A data : ~Served(f, data)
  <2>1. ~Asked(f)
    BY <1>2, KindsDiffer DEF Asked, AskedAs
  <2>2. ASSUME NEW data, Served(f, data) PROVE FALSE
    <3> DEFINE C == ChunksOf(Key("server"), f, data)
    <3>1. m = Done(f) \/ \E q : m = Chunk(f, C, q)
      BY <1>2, <2>2 DEF Served, ServedAs
    <3> HIDE DEF C
    <3>2. m.kind = "abort"
      BY <1>2, KindsDiffer
    <3> QED
      BY <3>1, <3>2, KindsDiffer
  <2> QED
    BY <2>1, <2>2
<1>4. Of(wire, f) = {m}
  BY <1>2, <1>3 DEF Transfer, Refused, RefusedAs
<1>5. UNCHANGED <<setupVars, scene, serverVars, accepted, offered, handled, local>>
  BY DEF HandleFileAbort
<1>6. buffers' = Without(buffers, f)
  BY <1>2 DEF HandleFileAbort
<1>7. wire' \subseteq wire /\ (\A n \in wire' : FileOf(n) # f) /\ \A g : g # f => Of(wire', g) = Of(wire, g)
  BY <1>1, <1>4, TransferOver
<1> QED
  BY <1>2, <1>3, <1>5, <1>6, <1>7

\* A finite set as a sequence.
LEMMA SetAsSequence ==
    ASSUME NEW S, IsFiniteSet(S)
    PROVE  LET s == SetToSeq(S)
           IN  /\ Cardinality(S) \in Nat /\ DOMAIN s = 1 .. Cardinality(S)
               /\ \A i \in DOMAIN s : s[i] \in S
               /\ \A i, j \in DOMAIN s : s[i] = s[j] => i = j
               /\ \A x \in S : \E i \in DOMAIN s : s[i] = x
<1> DEFINE n == Cardinality(S)
           s == SetToSeq(S)
<1>1. n \in Nat /\ IsFiniteSet(1 .. n) /\ Cardinality(1 .. n) = n
  <2>1. n \in Nat
    BY FS_CardinalityType
  <2>2. IsFiniteSet(1 .. n) /\ Cardinality(1 .. n) = IF 1 > n THEN 0 ELSE n - 1 + 1
    BY <2>1, FS_Interval
  <2> QED
    BY <2>1, <2>2
<1>2. \E f \in [1 .. n -> S] : IsInjective(f)
  <2>1. ExistsBijection(1 .. n, S)
    BY FS_CardinalityType
  <2> QED
    BY <2>1 DEF ExistsBijection, Bijection, Injection
<1>3. s \in [1 .. n -> S] /\ IsInjective(s)
  BY <1>2 DEF SetToSeq
<1> HIDE DEF s, n
<1>4. s \in Injection(1 .. n, S)
  BY <1>3 DEF Injection
<1>5. s \in Surjection(1 .. n, S)
  BY <1>1, <1>4, FS_Injection DEF n
<1> QED
  BY <1>1, <1>3, <1>5 DEF IsInjective, Surjection, s, n

\* A request for each path that the diff names, under an id of its own.
LEMMA TreeTaken ==
    ASSUME PathInv, HandleTree
    PROVE  /\ accepted = "yes" /\ wire = {} /\ DOMAIN buffers = {}
           /\ IsTree(offered) /\ handled' = offered /\ offered' = NoTree
           /\ UNCHANGED <<setupVars, scene, serverVars, accepted, local>>
           /\ DOMAIN buffers' \subseteq FileIds
           /\ \A f \in DOMAIN buffers' : /\ Transfer(f)' /\ Asked(f)'
                                         /\ buffers'[f].source \in ToFetch
           /\ \A m \in wire' : FileOf(m) \in DOMAIN buffers'
           /\ \A f, g \in DOMAIN buffers' : buffers'[f].source = buffers'[g].source => f = g
           /\ \A path \in ToFetch : \E f \in DOMAIN buffers' : buffers'[f].source = path
<1> DEFINE paths == SetToSeq(ToFetch)
           fids == SetToSeq(FileIds)
           asked == DOMAIN paths
           id == scene.clientId
<1>1. /\ offered # NoTree /\ DOMAIN buffers = {} /\ Cardinality(ToFetch) <= Cardinality(FileIds)
      /\ handled' = offered /\ offered' = NoTree
      /\ UNCHANGED <<setupVars, scene, serverVars, accepted, local>>
  BY DEF HandleTree
<1>2. accepted = "yes" /\ IsTree(offered) /\ Len(id) = 1 /\ scene \in Scenes
  BY <1>1 DEF PathInv, AuthInv, TreesInv, DiskInv, SceneInv
<1>3. wire = {}
  BY <1>1, <1>2 DEF PathInv, TransferInv
<1>4. ToFetch \subseteq DOMAIN offered
  BY DEF ToFetch, Diff
<1>5. /\ Cardinality(ToFetch) \in Nat /\ asked = 1 .. Cardinality(ToFetch)
      /\ \A i \in asked : paths[i] \in ToFetch
      /\ \A i, j \in asked : paths[i] = paths[j] => i = j
      /\ \A x \in ToFetch : \E i \in asked : paths[i] = x
  <2>1. IsFiniteSet(ToFetch)
    BY <1>2, <1>4, FS_Subset DEF IsTree
  <2> QED
    BY <2>1, SetAsSequence
<1>6. /\ Cardinality(FileIds) \in Nat /\ DOMAIN fids = 1 .. Cardinality(FileIds)
      /\ \A i \in DOMAIN fids : fids[i] \in FileIds
      /\ \A i, j \in DOMAIN fids : fids[i] = fids[j] => i = j
  BY FileIdsAssumption, SetAsSequence
<1>7. asked \subseteq DOMAIN fids
  <2> HIDE DEF fids, paths
  <2> QED
    BY <1>1, <1>5, <1>6
<1> DEFINE buffer(f) == LET i == CHOOSE j \in asked : fids[j] = f
                        IN  [path |-> MapRemoteToLocal(paths[i]), source |-> paths[i], chunks |-> <<>>]
           sent == {Request(id, fids[i], paths[i]) : i \in asked}
<1>8. buffers' = [f \in {fids[i] : i \in asked} |-> buffer(f)]
  BY DEF HandleTree
<1>9. wire' = wire \union Heard(sent)
  BY DEF HandleTree, Request
<1>10. Heard(sent) = sent
  <2>1. \A n \in sent : n.topic = ClientTopic(id, "file_request")
    <3>1. \A f, path : Request(id, f, path).topic = ClientTopic(id, "file_request")
      BY DEF Request, Message
    <3> HIDE DEF paths, fids
    <3> QED
      BY <3>1
  <2> HIDE DEF sent
  <2> QED
    BY <1>2, <2>1, HeardFromClient
<1>11. \A i \in asked : paths[i] \in Seq(STRING)
  <2> TAKE i \in asked
  <2>1. PICK x \in Entries \X Path : paths[i] = PathOf(x)
    BY <1>2, <1>4, <1>5 DEF IsTree
  <2> QED
    BY <1>2, <2>1, Owner DEF PathOf, IsTree, Path
<1> HIDE DEF paths, fids
<1>12. \A i \in asked : buffer(fids[i]) = [path |-> MapRemoteToLocal(paths[i]), source |-> paths[i], chunks |-> <<>>]
  <2> TAKE i \in asked
  <2>1. (CHOOSE j \in asked : fids[j] = fids[i]) = i
    BY <1>6, <1>7
  <2> QED
    BY <2>1
<1> HIDE DEF buffer, asked
<1>13. /\ DOMAIN buffers' = {fids[i] : i \in asked}
       /\ \A i \in asked : /\ buffers'[fids[i]].path = MapRemoteToLocal(paths[i])
                           /\ buffers'[fids[i]].source = paths[i]
                           /\ buffers'[fids[i]].chunks = <<>>
                           /\ IsBuffer(buffers'[fids[i]])
  <2>1. DOMAIN buffers' = {fids[i] : i \in asked}
    BY <1>8
  <2>2. ASSUME NEW i \in asked
        PROVE  buffers'[fids[i]] = [path |-> MapRemoteToLocal(paths[i]), source |-> paths[i], chunks |-> <<>>]
    <3>1. fids[i] \in {fids[j] : j \in asked}
      OBVIOUS
    <3>2. buffers'[fids[i]] = buffer(fids[i])
      BY <1>8, <3>1
    <3> QED
      BY <1>12, <3>2
  <2>3. ASSUME NEW i \in asked
        PROVE  /\ buffers'[fids[i]].path = MapRemoteToLocal(paths[i])
               /\ buffers'[fids[i]].source = paths[i]
               /\ buffers'[fids[i]].chunks = <<>>
               /\ IsBuffer(buffers'[fids[i]])
    <3> DEFINE b == buffers'[fids[i]]
    <3>1. b = [path |-> MapRemoteToLocal(paths[i]), source |-> paths[i], chunks |-> <<>>]
      BY <2>2
    <3> HIDE DEF b
    <3>2. b.path = MapRemoteToLocal(paths[i]) /\ b.source = paths[i] /\ b.chunks = <<>>
      BY <3>1
    <3>3. IsBuffer(b)
      BY <3>1, <3>2 DEF IsBuffer
    <3> QED
      BY <3>2, <3>3 DEF b
  <2> QED
    BY <2>1, <2>3
<1>14. \A i \in asked : FileOf(Request(id, fids[i], paths[i])) = fids[i]
  <2>1. \A c, f, p : c \in Seq(STRING) /\ Len(c) = 1 /\ p \in Seq(STRING) => FileOf(Request(c, f, p)) = f
    BY RequestIs
  <2>2. id \in Seq(STRING)
    BY <1>2, ScenesAssumption DEF Path
  <2> QED
    BY <1>2, <1>11, <2>1, <2>2, Zenon
<1>15. wire' = sent
  BY <1>3, <1>9, <1>10
<1>16. ASSUME NEW i \in asked PROVE Asked(fids[i])' /\ Transfer(fids[i])'
  <2> DEFINE f == fids[i]
  <2>1. \A j \in asked : fids[j] = f => j = i
    BY <1>6, <1>7
  <2>2. Of(wire', f) = {Request(id, f, paths[i])}
    BY <1>14, <1>15, <2>1 DEF Of
  <2>3. scene' = scene
    BY <1>1
  <2>4. Asked(f)'
    BY <1>13, <2>2, <2>3, TransferPrime DEF AskedAs
  <2>5. paths[i] \in DOMAIN offered /\ ~Ignored(ClientSide, MapRemoteToLocal(paths[i]), FALSE)
    BY <1>5 DEF ToFetch, Diff
  <2>6. ClientSide' = ClientSide
    BY <2>3, SameScene
  <2>7. Transfer(f)'
    BY <1>1, <1>13, <2>4, <2>5, <2>6, TransferPrime
  <2> QED
    BY <2>4, <2>7
<1>17. \A m \in wire' : FileOf(m) \in DOMAIN buffers'
  BY <1>13, <1>14, <1>15
<1>18. DOMAIN buffers' \subseteq FileIds
  BY <1>6, <1>7, <1>13
<1>19. \A f, g \in DOMAIN buffers' : buffers'[f].source = buffers'[g].source => f = g
  BY <1>5, <1>13
<1>20. \A path \in ToFetch : \E f \in DOMAIN buffers' : buffers'[f].source = path
  BY <1>5, <1>13
<1>21. \A f \in DOMAIN buffers' : Transfer(f)' /\ Asked(f)' /\ buffers'[f].source \in ToFetch
  BY <1>5, <1>13, <1>16
<1> QED
  BY <1>1, <1>2, <1>3, <1>17, <1>18, <1>19, <1>20, <1>21

LEMMA TransferInvPrime ==
    TransferInv' <=>
      (accepted' = "yes" =>
         /\ \A m \in wire' : FileOf(m) \in DOMAIN buffers'
         /\ \A f \in DOMAIN buffers' : f \in FileIds /\ Transfer(f)'
         /\ \A f, g \in DOMAIN buffers' : buffers'[f].source = buffers'[g].source => f = g)
BY DEF TransferInv

\* Steps that leave the transfers alone.
LEMMA TransfersKept ==
    ASSUME TransferInv, UNCHANGED <<scene, running, wire, buffers, handled, accepted>>,
           versions \subseteq versions'
    PROVE  TransferInv'
<1>1. \A f : Of(wire', f) = Of(wire, f)
  OBVIOUS
<1>2. \A f \in DOMAIN buffers : Transfer(f) => Transfer(f)'
  BY <1>1, TransferKept
<1> QED
  BY <1>2, TransferInvPrime DEF TransferInv

LEMMA RequestKeepsTransfers ==
    ASSUME PathInv, accepted = "yes", NEW m, HandleFileRequest(m)
    PROVE  TransferInv'
<1> DEFINE f == FileOf(m)
<1>1. /\ f \in DOMAIN buffers /\ UNCHANGED <<setupVars, scene, serverVars, clientVars>>
      /\ \A n \in wire' : FileOf(n) = f \/ n \in wire
      /\ \A g : g # f => Of(wire', g) = Of(wire, g)
      /\ Transfer(f)'
  BY RequestServed
<1> HIDE DEF f
<1>2. UNCHANGED <<scene, running, handled, versions, buffers>>
  BY <1>1 DEF setupVars, serverVars, clientVars
<1>3. ASSUME NEW g \in DOMAIN buffers, g # f PROVE Transfer(g)'
  <2>1. Transfer(g)
    BY <1>3 DEF PathInv, TransferInv
  <2> QED
    BY <1>1, <1>2, <1>3, <2>1, TransferKept
<1> QED
  BY <1>1, <1>2, <1>3, TransferInvPrime DEF PathInv, TransferInv

LEMMA ChunkKeepsTransfers ==
    ASSUME PathInv, accepted = "yes", NEW m, HandleFileChunk(m)
    PROVE  TransferInv'
<1> DEFINE f == FileOf(m)
<1>1. /\ f \in DOMAIN buffers /\ UNCHANGED <<setupVars, scene, serverVars, handled, local>>
      /\ wire' \subseteq wire /\ DOMAIN buffers' = DOMAIN buffers
      /\ buffers'[f].source = buffers[f].source
      /\ \A g : g # f => Of(wire', g) = Of(wire, g) /\ buffers'[g] = buffers[g]
      /\ Transfer(f)'
  BY ChunkTaken
<1> HIDE DEF f
<1>2. UNCHANGED <<scene, running, handled, versions>>
  BY <1>1 DEF setupVars, serverVars
<1>3. ASSUME NEW g \in DOMAIN buffers, g # f PROVE Transfer(g)'
  <2>1. Transfer(g)
    BY <1>3 DEF PathInv, TransferInv
  <2> QED
    BY <1>1, <1>2, <1>3, <2>1, TransferKept
<1>4. \A g \in DOMAIN buffers : buffers'[g].source = buffers[g].source
  BY <1>1
<1> QED
  BY <1>1, <1>3, <1>4, TransferInvPrime DEF PathInv, TransferInv

LEMMA EndKeepsTransfers ==
    ASSUME PathInv, accepted = "yes", NEW m, HandleFileDone(m) \/ HandleFileAbort(m)
    PROVE  TransferInv'
<1> DEFINE f == FileOf(m)
<1>1. /\ f \in DOMAIN buffers /\ UNCHANGED <<setupVars, scene, serverVars, handled>>
      /\ wire' \subseteq wire /\ \A n \in wire' : FileOf(n) # f
      /\ \A g : g # f => Of(wire', g) = Of(wire, g)
      /\ buffers' = Without(buffers, f)
  <2>1. CASE HandleFileDone(m)
    BY <2>1, DoneTaken
  <2>2. CASE HandleFileAbort(m)
    BY <2>2, AbortTaken
  <2> QED
    BY <2>1, <2>2
<1> HIDE DEF f
<1>2. UNCHANGED <<scene, running, handled, versions>>
  BY <1>1 DEF setupVars, serverVars
<1>3. DOMAIN buffers' = DOMAIN buffers \ {f} /\ \A g \in DOMAIN buffers' : buffers'[g] = buffers[g]
  BY <1>1 DEF Without
<1>4. ASSUME NEW g \in DOMAIN buffers' PROVE Transfer(g)'
  <2>1. Transfer(g) /\ g # f
    BY <1>3 DEF PathInv, TransferInv
  <2> QED
    BY <1>1, <1>2, <1>3, <2>1, TransferKept
<1> QED
  BY <1>1, <1>3, <1>4, TransferInvPrime DEF PathInv, TransferInv

\* The steps of an accepted client, and of its server.
LEMMA AcceptedSteps ==
    ASSUME PathInv, Next, accepted = "yes"
    PROVE  \/ UNCHANGED <<setupVars, scene, wire, buffers, handled, local, accepted>>
                /\ ((\E c \in scene.changes : Change(c)) \/ Rebuild)
           \/ HandleTree
           \/ \E m \in wire : \/ HandleFileRequest(m) \/ HandleFileChunk(m)
                              \/ HandleFileDone(m) \/ HandleFileAbort(m)
<1>1. running["client"].up
  BY AcceptedRuns DEF PathInv
<1>2. ~Prepare /\ ~ServerStarts /\ ~ClientStarts
  BY <1>1 DEF Prepare, ServerStarts, ClientStarts, StartClient
<1>3. \A m : ~HandleHello(m) /\ ~HandleAuthResponse(m)
  BY ServerMeets DEF HandleHello, HandleAuthResponse
<1>4. \A m : ~HandleChallenge(m) /\ ~HandleAuthResult(m)
  BY ClientMeets DEF HandleChallenge, HandleAuthResult
<1>5. ASSUME NEW m \in wire, Drop(m) PROVE FALSE
  BY <1>5, MessageOf, OtherSide DEF Drop
<1>6. Rebuild => UNCHANGED <<setupVars, scene, wire, buffers, handled, local, accepted>>
  BY DEF Rebuild
<1>7. (\E c \in scene.changes : Change(c)) =>
        UNCHANGED <<setupVars, scene, wire, buffers, handled, local, accepted>>
  BY DEF Change, clientVars
<1> QED
  BY <1>2, <1>3, <1>4, <1>5, <1>6, <1>7 DEF Next, ServerStep, ClientStep

LEMMA TransferStep ==
    ASSUME PathInv, [Next]_vars, versions \subseteq versions'
    PROVE  TransferInv'
<1>1. CASE accepted = "yes"
  <2>1. CASE UNCHANGED <<setupVars, scene, wire, buffers, handled, accepted>>
    BY <2>1, TransfersKept DEF PathInv, setupVars
  <2>2. CASE HandleTree
    BY <2>2, TreeTaken, TransferInvPrime
  <2>3. CASE UNCHANGED vars
    BY <2>1, <2>3 DEF vars, clientVars
  <2> QED
    BY <1>1, <2>1, <2>2, <2>3, AcceptedSteps, RequestKeepsTransfers, ChunkKeepsTransfers, EndKeepsTransfers
<1>2. CASE accepted # "yes"
  <2>1. CASE accepted' # "yes"
    BY <2>1, TransferInvPrime
  <2>2. CASE accepted' = "yes"
    <3>1. PICK m \in wire : HandleAuthResult(m)
      BY <1>2, <2>2 DEF Next, Prepare, ServerStarts, ClientStarts, Change, ServerStep, Rebuild, HandleHello,
     HandleAuthResponse, HandleFileRequest, ClientStep, HandleTree, HandleChallenge, Drop,
     HandleFileChunk, HandleFileDone, HandleFileAbort, clientVars, vars
    <3>2. wire' = {} /\ DOMAIN buffers' = {}
      BY <3>1, ResultTaken
    <3> QED
      BY <3>2, TransferInvPrime
  <2> QED
    BY <2>1, <2>2
<1> QED
  BY <1>1, <1>2

LEMMA PathStarts ==
    ASSUME Init
    PROVE  PathInv
<1>1. DeployInv
  BY DeployStarts
<1>2. DiskInv
  BY <1>1, DiskStarts
<1>3. TreesInv /\ VersionsInv /\ AuthInv
  BY <1>2, TreesStart, VersionsStart, AuthStarts
<1>4. TransferInv
  BY DEF Init, TransferInv
<1> QED
  BY <1>1, <1>2, <1>3, <1>4 DEF PathInv

LEMMA PathStep ==
    ASSUME PathInv, [Next]_vars
    PROVE  PathInv'
<1>1. DeployInv' /\ DiskInv' /\ TreesInv'
  BY DeployStep, DiskStep, TreesStep DEF PathInv
<1>2. VersionsInv' /\ versions \subseteq versions'
  BY VersionsStep DEF PathInv
<1>3. AuthInv' /\ TransferInv'
  BY <1>2, AuthStep, TransferStep
<1> QED
  BY <1>1, <1>2, <1>3 DEF PathInv

LEMMA PathHolds == Spec => []PathInv
<1>1. Init => PathInv
  BY PathStarts
<1>2. PathInv /\ [Next]_vars => PathInv'
  BY PathStep
<1> QED
  BY <1>1, <1>2, PTL DEF Spec

FlagsInv == noticed \in BOOLEAN /\ missed \in BOOLEAN

LEMMA FlagsStep ==
    ASSUME FlagsInv, [Next]_vars
    PROVE  FlagsInv'
<1>1. CASE \E c \in scene.changes : Change(c)
  <2>1. PICK c \in scene.changes : Change(c)
    BY <1>1
  <2>2. noticed' = (noticed \/ Passes(c)) /\ missed' = (missed \/ (~noticed' /\ ListedFiles(disk') # ListedFiles(disk)))
    BY <2>1 DEF Change
  <2> QED
    BY <2>2 DEF FlagsInv
<1>2. CASE noticed' \in {noticed, FALSE} /\ missed' = missed
  BY <1>2 DEF FlagsInv
<1> QED
  BY <1>1, <1>2 DEF Next, Prepare, ServerStarts, ClientStarts, ServerStep, Rebuild, HandleHello,
     HandleAuthResponse, HandleFileRequest, ClientStep, HandleTree, HandleChallenge, HandleAuthResult,
     Drop, HandleFileChunk, HandleFileDone, HandleFileAbort, serverVars, vars

LEMMA TypesHold ==
    ASSUME PathInv, FlagsInv
    PROVE  TypeOK
<1>1. DeployTypeOK /\ challenged \in BOOLEAN /\ accepted \in {"no", "yes", "refused"}
  BY DEF PathInv, DeployInv, AuthInv
<1>2. accepted # "yes" => DOMAIN buffers = {} /\ offered = NoTree /\ handled = NoTree
  BY DEF PathInv, AuthInv
<1>3. DOMAIN buffers \subseteq FileIds
  BY <1>2 DEF PathInv, TransferInv
<1>4. ASSUME tree # NoTree, NEW path \in DOMAIN tree PROVE Resolve(path) # 0
  <2>1. IsTree(tree) /\ scene \in Scenes
    BY <1>4 DEF PathInv, TreesInv, DiskInv, SceneInv
  <2>2. PICK x \in Entries \X Path : path = PathOf(x)
    BY <1>4, <2>1 DEF IsTree
  <2> QED
    BY <2>1, <2>2, Owner DEF IsTree, PathOf
<1> QED
  BY <1>1, <1>2, <1>3, <1>4 DEF TypeOK, FlagsInv

\* Every variable has its type; only a client that has been accepted has a tree
\* or a transfer, and each path of a published tree is resolved to one of the
\* scanned directories, for all scenes (server.py:98-106 with tree.py).
THEOREM PathTyped == Spec => []TypeOK
<1>1. Init => FlagsInv
  BY DEF Init, FlagsInv
<1>2. FlagsInv /\ [Next]_vars => FlagsInv'
  BY FlagsStep
<1>3. PathInv /\ FlagsInv => TypeOK
  BY TypesHold
<1> QED
  BY <1>1, <1>2, <1>3, PathHolds, PTL DEF Spec

LEMMA RoutedNow ==
    ASSUME PathInv
    PROVE  MessagesRouted
<1> SUFFICES ASSUME NEW m \in wire, SubSeq(m.topic, 1, 3) = FromServer, PlainId
             PROVE  Handler(m.topic) = m.kind
  BY DEF MessagesRouted
<1>1. CASE accepted = "yes"
  BY <1>1, MessageOf, KindsDiffer, OtherSide
<1>2. CASE accepted = "no"
  <2>1. m \in AuthMessages /\ Len(scene.clientId) = 1 /\ scene \in Scenes
    BY <1>2, OneMessage DEF PathInv
  <2>2. m \in {Challenge, Result("true"), Result("false")}
    BY <2>1, AuthMessage, OtherSide DEF AuthMessages
  <2>3. scene.clientId \in Seq(STRING)
    BY <2>1, ScenesAssumption DEF Path
  <2>4. scene.clientId = <<scene.clientId[1]>>
    BY <2>1, <2>3, OneSegment
  <2>5. scene.clientId[1] \notin {"done", "abort", "meta"}
    BY DEF PlainId
  <2>6. /\ Handler(ChallengeTopic(<<scene.clientId[1]>>)) = "challenge"
        /\ Handler(AuthResultTopic(<<scene.clientId[1]>>)) = "auth_result"
    BY <2>5, AuthTopicsRouted
  <2>7. \/ m.topic = ChallengeTopic(scene.clientId) /\ m.kind = "challenge"
        \/ m.topic = AuthResultTopic(scene.clientId) /\ m.kind = "auth_result"
    BY <2>2 DEF Challenge, Result, Message
  <2> QED
    BY <2>4, <2>6, <2>7
<1> QED
  BY <1>1, <1>2 DEF PathInv, AuthInv

\* Each message to a client is taken by the handler it was meant for, for all
\* ids of one segment but three (client.py:218-254).
THEOREM MessagesAreRouted == Spec => []MessagesRouted
<1>1. PathInv => MessagesRouted
  BY RoutedNow
<1> QED
  BY <1>1, PathHolds, PTL

-----------------------------------------------------------------------------
(* What is written.                                                        *)

WritesRightly ==
    \A dest \in DOMAIN local' :
      \/ dest \in DOMAIN local /\ local'[dest] = local[dest]
      \/ /\ Connected /\ running["server"] = running["client"]
         /\ ~Ignored(ClientSide, dest, FALSE)
         /\ \E v \in versions :
              /\ MapRemoteToLocal(v[1]) = dest
              /\ \/ local'[dest] = v[2]
                 \/ /\ dest \in scene.stuck \intersect failed'
                    /\ \E n \in 0 .. Len(v[2]) : local'[dest] = SubSeq(v[2], 1, n)
         /\ \E path \in DOMAIN handled : MapRemoteToLocal(path) = dest

\* Files are written at the end of transfers only.
LEMMA WritesWhen ==
    ASSUME [Next]_vars
    PROVE  local' = local \/ \E m \in wire : HandleFileDone(m)
BY DEF Next, Prepare, ServerStarts, ClientStarts, Change, ServerStep, Rebuild, HandleHello,
     HandleAuthResponse, HandleFileRequest, ClientStep, HandleTree, HandleChallenge, HandleAuthResult, Drop,
     HandleFileChunk, HandleFileAbort, clientVars, vars

LEMMA DoneAccepted ==
    ASSUME PathInv, NEW m, HandleFileDone(m) \/ HandleFileChunk(m) \/ HandleFileAbort(m)
    PROVE  accepted = "yes"
<1>1. DOMAIN buffers # {}
  BY DEF HandleFileDone, HandleFileChunk, HandleFileAbort
<1> QED
  BY <1>1 DEF PathInv, AuthInv

\* Keys that agree, and a client that has been accepted: the programs have
\* loaded the same.
LEMMA SameLoaded ==
    ASSUME PathInv, accepted = "yes", Key("server") = Key("client")
    PROVE  Connected /\ running["server"] = running["client"]
<1>1. running["client"].up /\ running["server"].up
  BY AcceptedRuns DEF PathInv, DeployInv
<1>2. running["server"].pair = running["client"].pair
  BY DEF PathInv, AuthInv, Admitted
<1>3. running["server"] \in Loaded /\ running["client"] \in Loaded
  BY DEF PathInv, DeployInv, DeployTypeOK, Programs
<1> DEFINE a == running["server"]
           b == running["client"]
<1>4. a = [up |-> a.up, key |-> a.key, pair |-> a.pair] /\ b = [up |-> b.up, key |-> b.key, pair |-> b.pair]
  BY <1>3 DEF Loaded
<1>5. a.up \in BOOLEAN /\ b.up \in BOOLEAN
  BY <1>3 DEF Loaded
<1>6. a.up = b.up /\ a.key = b.key
  BY <1>1, <1>5 DEF Key
<1> HIDE DEF a, b
<1>7. a = b
  BY <1>2, <1>4, <1>6 DEF a, b
<1> QED
  BY <1>1, <1>7 DEF Connected, a, b

LEMMA WritesStep ==
    ASSUME PathInv, [Next]_vars
    PROVE  WritesRightly
<1>1. CASE local' = local
  BY <1>1 DEF WritesRightly
<1>2. ASSUME NEW m \in wire, HandleFileDone(m) PROVE WritesRightly
  <2> DEFINE f == FileOf(m)
             buffer == buffers[f]
  <2>1. accepted = "yes"
    BY <1>2, DoneAccepted
  <2>2. /\ f \in DOMAIN buffers /\ Transfer(f)
        /\ \A data : IsData(data) /\ Served(f, data) =>
             IF Key("server") = Key("client")
             THEN WriteFile(buffer.path, data) ELSE local' = local
    BY <1>2, <2>1, DoneTaken
  <2>3. PICK v \in versions : v[1] = buffer.source /\ Served(f, v[2])
    <3>1. m \in wire /\ Handler(m.topic) = "done"
      BY <1>2 DEF HandleFileDone, Dispatch
    <3> QED
      BY <2>1, <3>1, MessageOf
  <2>4. IsData(v[2])
    BY DEF PathInv, VersionsInv
  <2> HIDE DEF f, buffer
  <2>5. CASE Key("server") = Key("client")
    <3>1. WriteFile(buffer.path, v[2]) /\ v[2] \in Seq(STRING)
      BY <2>2, <2>3, <2>4, <2>5 DEF IsData
    <3>2. \A dest \in DOMAIN local' :
            \/ dest = buffer.path /\ local'[dest] = v[2]
            \/ /\ dest = buffer.path /\ dest \in scene.stuck \intersect failed'
               /\ \E n \in 0 .. Len(v[2]) : local'[dest] = SubSeq(v[2], 1, n)
            \/ dest \in DOMAIN local /\ local'[dest] = local[dest]
      BY <3>1, Written
    <3>3. Connected /\ running["server"] = running["client"]
      BY <2>1, <2>5, SameLoaded
    <3>4. /\ ~Ignored(ClientSide, buffer.path, FALSE) /\ MapRemoteToLocal(v[1]) = buffer.path
          /\ buffer.source \in DOMAIN handled /\ MapRemoteToLocal(buffer.source) = buffer.path
      BY <2>2, <2>3 DEF Transfer, buffer
    <3> QED
      BY <3>2, <3>3, <3>4 DEF WritesRightly
  <2>6. CASE Key("server") # Key("client")
    BY <1>1, <2>2, <2>3, <2>4, <2>6
  <2> QED
    BY <2>5, <2>6
<1> QED
  BY <1>1, <1>2, WritesWhen

\* Whatever the scene, only a client with a registered key pair and the
\* server's key changes its files; what it writes is the content of one published
\* file, where that file belongs, and nothing its rules ignore (client.py:404,
\* tree.py:107-137); only part of it, if the write fails and the result says so.
THEOREM WritesAreRight == Spec => WritesBelong
<1>1. PathInv /\ [Next]_vars => [WritesRightly]_vars
  BY WritesStep
<1> QED
  BY <1>1, PathHolds, PTL DEF Spec, WritesBelong, WritesRightly

-----------------------------------------------------------------------------
(* What is delivered.                                                      *)

\* What the tree says of a path is so on the disk.
Shows(path) ==
    \E e \in Entries : \E p \in DOMAIN disk[e] :
      /\ Listed(ServerSide(e), p) /\ path = Prefix(e) \o p
      /\ tree[path] = Hash(disk[e][p])

CurrentInv ==
    tree # NoTree /\ ~noticed /\ ~missed => \A path \in DOMAIN tree : Shows(path)

LocalInv == \A dest \in DOMAIN local : local[dest] \in Seq(STRING)

LEMMA MergedShows ==
    ASSUME DiskInv, Unique, NEW path \in DOMAIN Merged(disk)
    PROVE  \E e \in Entries : \E p \in DOMAIN disk[e] :
             /\ Listed(ServerSide(e), p) /\ path = Prefix(e) \o p
             /\ Merged(disk)[path] = Hash(disk[e][p])
<1>1. scene \in Scenes /\ \A e \in Entries : DOMAIN disk[e] \subseteq Path
  BY DEF DiskInv, SceneInv, Files
<1>2. PICK x \in Published(disk) : path = PathOf(x)
  BY <1>1, MergedIs
<1>3. Merged(disk)[path] = Hash(disk[x[1]][x[2]])
  BY <1>1, <1>2, MergedIs
<1> QED
  BY <1>2, <1>3 DEF Published, PathOf

LEMMA ShowsPrime ==
    ASSUME scene' = scene, NEW path
    PROVE  Shows(path)' <=>
             \E e \in Entries : \E p \in DOMAIN disk'[e] :
               /\ Listed(ServerSide(e), p) /\ path = Prefix(e) \o p
               /\ tree'[path] = Hash(disk'[e][p])
<1>1. Entries' = Entries /\ \A e : Prefix(e)' = Prefix(e) /\ ServerSide(e)' = ServerSide(e)
  BY SameScene
<1> QED
  BY <1>1 DEF Shows

\* A change that leaves the listed files alone.
LEMMA ListedAlone ==
    ASSUME NEW old, NEW new, ListedFiles(new) = ListedFiles(old),
           NEW e \in Entries, NEW p \in DOMAIN old[e], Listed(ServerSide(e), p)
    PROVE  p \in DOMAIN new[e] /\ new[e][p] = old[e][p]
<1> DEFINE of(dirs) == [path \in {q \in DOMAIN dirs[e] : Listed(ServerSide(e), q)} |-> dirs[e][path]]
<1>1. of(new) = of(old)
  <2>1. ListedFiles(new)[e] = of(new) /\ ListedFiles(old)[e] = of(old)
    BY DEF ListedFiles
  <2> QED
    BY <2>1
<1>2. p \in DOMAIN of(old) /\ of(old)[p] = old[e][p]
  OBVIOUS
<1>3. p \in DOMAIN of(new) => p \in DOMAIN new[e] /\ of(new)[p] = new[e][p]
  OBVIOUS
<1> HIDE DEF of
<1> QED
  BY <1>1, <1>2, <1>3

LEMMA Unmissed ==
    ASSUME NEW c \in scene.changes, Change(c), ~noticed', ~missed'
    PROVE  ~noticed /\ ~missed /\ ListedFiles(disk') = ListedFiles(disk)
BY DEF Change

LEMMA CurrentStep ==
    ASSUME PathInv, CurrentInv, [Next]_vars
    PROVE  CurrentInv'
<1>1. scene' = scene
  BY SceneSame
<1> SUFFICES ASSUME tree' # NoTree, ~noticed', ~missed', NEW path \in DOMAIN tree'
             PROVE  Shows(path)'
  BY DEF CurrentInv
<1>2. CASE ServerStarts \/ Rebuild
  <2>1. tree' = Merged(disk) /\ disk' = disk /\ Unique
    BY <1>2 DEF ServerStarts, StartServer, Rebuild, PathInv, DiskInv
  <2> QED
    BY <1>1, <2>1, MergedShows, ShowsPrime DEF PathInv
<1>3. ASSUME NEW c \in scene.changes, Change(c) PROVE Shows(path)'
  <2>1. ~noticed /\ ~missed /\ ListedFiles(disk') = ListedFiles(disk) /\ tree' = tree
    BY <1>3, Unmissed DEF Change
  <2>5. PICK e \in Entries : \E p \in DOMAIN disk[e] :
          /\ Listed(ServerSide(e), p) /\ path = Prefix(e) \o p
          /\ tree[path] = Hash(disk[e][p])
    BY <2>1 DEF CurrentInv, Shows
  <2>2. PICK p \in DOMAIN disk[e] :
          /\ Listed(ServerSide(e), p) /\ path = Prefix(e) \o p
          /\ tree[path] = Hash(disk[e][p])
    BY <2>5
  <2>3. p \in DOMAIN disk'[e] /\ disk'[e][p] = disk[e][p]
    BY <2>1, <2>2, ListedAlone
  <2> QED
    BY <1>1, <2>1, <2>2, <2>3, ShowsPrime
<1>4. CASE UNCHANGED <<disk, tree, noticed, missed>>
  <2>1. Shows(path)
    BY <1>4 DEF CurrentInv
  <2>2. \E e \in Entries : \E p \in DOMAIN disk'[e] :
          /\ Listed(ServerSide(e), p) /\ path = Prefix(e) \o p
          /\ tree'[path] = Hash(disk'[e][p])
    BY <1>4, <2>1 DEF Shows
  <2> QED
    BY <1>1, <2>2, ShowsPrime
<1> QED
  BY <1>2, <1>3, <1>4 DEF Next, Prepare, ClientStarts, ServerStep, HandleHello,
     HandleAuthResponse, HandleFileRequest, ClientStep, HandleTree, HandleChallenge, HandleAuthResult,
     Drop, HandleFileChunk, HandleFileDone, HandleFileAbort, serverVars, vars

LEMMA LocalStep ==
    ASSUME PathInv, LocalInv, [Next]_vars
    PROVE  LocalInv'
<1>1. CASE local' = local
  BY <1>1 DEF LocalInv
<1>2. WritesRightly
  BY WritesStep
<1>3. \A v \in versions : v[2] \in Seq(STRING) /\ \A n \in 0 .. Len(v[2]) : SubSeq(v[2], 1, n) \in Seq(STRING)
  BY DEF PathInv, VersionsInv, IsData
<1> SUFFICES ASSUME NEW dest \in DOMAIN local' PROVE local'[dest] \in Seq(STRING)
  BY DEF LocalInv
<1>4. CASE dest \in DOMAIN local /\ local'[dest] = local[dest]
  BY <1>4 DEF LocalInv
<1>5. CASE \E v \in versions : local'[dest] = v[2] \/ \E n \in 0 .. Len(v[2]) : local'[dest] = SubSeq(v[2], 1, n)
  BY <1>3, <1>5
<1> QED
  BY <1>2, <1>4, <1>5 DEF WritesRightly

\* A path that the tree shows, and its file.
LEMMA ShownFile ==
    ASSUME DiskInv, Unique, NEW path, NEW e \in Entries, NEW p \in Path, path = Prefix(e) \o p
    PROVE  /\ Readable(path) <=> p \in DOMAIN disk[e] /\ disk[e][p].kind = "plain"
           /\ DataAt(path) = disk[e][p].data
<1>1. scene \in Scenes
  BY DEF DiskInv, SceneInv
<1>2. Resolve(path) = e /\ e # 0 /\ SubSeq(path, Len(Prefix(e)) + 1, Len(path)) = p
  BY <1>1, Owner
<1> QED
  BY <1>2 DEF Readable, DataAt

LEMMA ReadPrime ==
    ASSUME scene' = scene, NEW path
    PROVE  /\ disk' = disk => (Readable(path)' <=> Readable(path)) /\ DataAt(path)' = DataAt(path)
           /\ Resolve(path)' = Resolve(path)
<1>1. Entries' = Entries /\ \A e : Prefix(e)' = Prefix(e)
  BY SameScene
<1>2. Resolve(path)' = Resolve(path)
  <2> DEFINE owners == {e \in Entries : Prefix(e) = <<>> \/ Prefix(e) = <<path[1]>>}
  <2>1. owners' = owners
    BY <1>1
  <2>2. Resolve(path) = IF owners = {} THEN 0 ELSE Min(owners)
    BY DEF Resolve
  <2>3. Resolve(path)' = IF owners' = {} THEN 0 ELSE Min(owners')
    BY DEF Resolve
  <2> HIDE DEF owners
  <2> QED
    BY <2>1, <2>2, <2>3
<1> QED
  BY <1>1, <1>2 DEF Readable, DataAt

\* A change that no watcher missed leaves what the tree shows as it was.
LEMMA ShownAlone ==
    ASSUME PathInv, CurrentInv, NEW c \in scene.changes, Change(c), ~noticed', ~missed',
           tree # NoTree, NEW path \in DOMAIN tree
    PROVE  (Readable(path)' <=> Readable(path)) /\ DataAt(path)' = DataAt(path)
<1>1. ~noticed /\ ~missed /\ ListedFiles(disk') = ListedFiles(disk) /\ tree' = tree /\ scene' = scene
  BY Unmissed DEF Change
<1>10. PICK e \in Entries : \E p \in DOMAIN disk[e] :
         Listed(ServerSide(e), p) /\ path = Prefix(e) \o p
  BY <1>1 DEF CurrentInv, Shows
<1>2. PICK p \in DOMAIN disk[e] : Listed(ServerSide(e), p) /\ path = Prefix(e) \o p
  BY <1>10
<1>3. p \in DOMAIN disk'[e] /\ disk'[e][p] = disk[e][p]
  BY <1>1, <1>2, ListedAlone
<1>4. scene \in Scenes /\ Unique /\ p \in Path
  BY <1>2 DEF PathInv, TreesInv, IsTree, DiskInv, SceneInv, Files
<1>5. Resolve(path) = e /\ e # 0 /\ SubSeq(path, Len(Prefix(e)) + 1, Len(path)) = p
  BY <1>2, <1>4, Owner
<1>6. Resolve(path)' = e /\ Prefix(e)' = Prefix(e)
  BY <1>1, <1>5, ReadPrime, SameScene
<1>7. Readable(path) <=> disk[e][p].kind = "plain"
  BY <1>2, <1>5 DEF Readable
<1>8. Readable(path)' <=> disk'[e][p].kind = "plain"
  BY <1>3, <1>5, <1>6 DEF Readable
<1>9. DataAt(path) = disk[e][p].data /\ DataAt(path)' = disk'[e][p].data
  BY <1>5, <1>6 DEF DataAt
<1> QED
  BY <1>3, <1>7, <1>8, <1>9

\* The mapping changes the first name of a path at most.
LEMMA MappedIs ==
    ASSUME NEW path \in Path
    PROVE  /\ MapRemoteToLocal(path) \in Seq(STRING \union {"mods"})
           /\ Len(MapRemoteToLocal(path)) = Len(path)
           /\ MapRemoteToLocal(path)[1] = IF path[1] = "clientmods" /\ Len(path) > 1 THEN "mods" ELSE path[1]
           /\ \A i \in 2 .. Len(path) : MapRemoteToLocal(path)[i] = path[i]
<1> DEFINE U == STRING \union {"mods"}
           mods == <<"mods">>
<1>1. path \in Seq(U) /\ Len(path) \in Nat \ {0}
  BY DEF Path
<1>2. mods \in Seq(U) /\ Len(mods) = 1 /\ mods[1] = "mods"
  OBVIOUS
<1> HIDE DEF mods, U
<1>3. CASE path[1] = "clientmods" /\ Len(path) > 1
  <2>1. MapRemoteToLocal(path) = mods \o Tail(path)
    BY <1>3 DEF MapRemoteToLocal, mods
  <2>2. /\ Tail(path) \in Seq(U) /\ Len(Tail(path)) = Len(path) - 1
        /\ \A i \in 1 .. Len(path) - 1 : Tail(path)[i] = path[i + 1]
    BY <1>1
  <2>3. /\ mods \o Tail(path) \in Seq(U) /\ Len(mods \o Tail(path)) = Len(path)
        /\ (mods \o Tail(path))[1] = "mods"
        /\ \A i \in 2 .. Len(path) : (mods \o Tail(path))[i] = Tail(path)[i - 1]
    <3> DEFINE t == Tail(path)
    <3>1. t \in Seq(U) /\ Len(t) = Len(path) - 1
      BY <2>2
    <3> HIDE DEF t
    <3>2. /\ mods \o t \in Seq(U) /\ Len(mods \o t) = Len(mods) + Len(t)
          /\ \A i \in 1 .. Len(mods) + Len(t) : (mods \o t)[i] =
                IF i <= Len(mods) THEN mods[i] ELSE t[i - Len(mods)]
      BY <1>2, <3>1, ConcatProperties, Zenon
    <3> QED
      BY <1>1, <1>2, <3>1, <3>2 DEF t
  <2>4. \A i \in 2 .. Len(path) : Tail(path)[i - 1] = path[i]
    BY <1>1, <2>2
  <2> QED
    BY <1>3, <2>1, <2>3, <2>4 DEF U
<1>4. CASE ~(path[1] = "clientmods" /\ Len(path) > 1)
  BY <1>1, <1>4 DEF MapRemoteToLocal, U
<1> QED
  BY <1>3, <1>4

\* Two published files have one place on the client only if they are
\* clientmods/x and mods/x (tree.py:107-116): all others keep apart.
THEOREM PlacesAreApart ==
    ASSUME NEW p \in Path, NEW q \in Path, p # q, MapRemoteToLocal(p) = MapRemoteToLocal(q)
    PROVE  /\ Len(p) = Len(q) /\ Len(p) > 1 /\ \A i \in 2 .. Len(p) : p[i] = q[i]
           /\ {p[1], q[1]} = {"clientmods", "mods"}
<1>1. p \in Seq(STRING) /\ q \in Seq(STRING) /\ Len(p) \in Nat \ {0} /\ Len(q) \in Nat \ {0}
  BY DEF Path
<1>2. Len(p) = Len(q) /\ \A i \in 2 .. Len(p) : p[i] = q[i]
  BY MappedIs
<1>3. p[1] # q[1]
  <2> SUFFICES ASSUME p[1] = q[1] PROVE FALSE
    OBVIOUS
  <2>1. \A i \in 1 .. Len(p) : p[i] = q[i]
    BY <1>1, <1>2
  <2> QED
    BY <1>1, <1>2, <2>1
<1> QED
  BY <1>1, <1>2, <1>3, MappedIs

\* What the tree says of a path, and what a request for it gets, is one and the
\* same file, which can be sent unless it is unreadable or outside.
ServedAsPublished ==
    Unique =>
      \A path \in DOMAIN Merged(disk) :
        \E e \in Entries : \E p \in DOMAIN disk[e] :
          /\ Listed(ServerSide(e), p) /\ path = Prefix(e) \o p
          /\ Merged(disk)[path] = Hash(disk[e][p])
          /\ Readable(path) <=> disk[e][p].kind = "plain"
          /\ DataAt(path) = disk[e][p].data

\* _build_tree and _resolve_scan_entry agree about every path that a server
\* would publish, however many directories there are and whatever their rules:
\* a request never gets another directory's file (server.py:279-318, 369-396).
THEOREM PublishedIsServed == Spec => []ServedAsPublished
<1>1. ASSUME DiskInv, Unique, NEW path \in DOMAIN Merged(disk)
      PROVE  \E e \in Entries : \E p \in DOMAIN disk[e] :
               /\ Listed(ServerSide(e), p) /\ path = Prefix(e) \o p
               /\ Merged(disk)[path] = Hash(disk[e][p])
               /\ Readable(path) <=> disk[e][p].kind = "plain"
               /\ DataAt(path) = disk[e][p].data
  <2>1. PICK e \in Entries : \E p \in DOMAIN disk[e] :
          /\ Listed(ServerSide(e), p) /\ path = Prefix(e) \o p
          /\ Merged(disk)[path] = Hash(disk[e][p])
    BY <1>1, MergedShows
  <2>2. PICK p \in DOMAIN disk[e] :
          /\ Listed(ServerSide(e), p) /\ path = Prefix(e) \o p
          /\ Merged(disk)[path] = Hash(disk[e][p])
    BY <2>1
  <2>3. p \in Path
    BY <1>1 DEF DiskInv, Files
  <2>4. (Readable(path) <=> disk[e][p].kind = "plain") /\ DataAt(path) = disk[e][p].data
    BY <1>1, <2>2, <2>3, ShownFile
  <2> QED
    BY <2>2, <2>4
<1>2. PathInv => ServedAsPublished
  BY <1>1 DEF PathInv, ServedAsPublished
<1> QED
  BY <1>2, PathHolds, PTL

\* A file that the client should have.
Due(path) ==
    ~Ignored(ClientSide, MapRemoteToLocal(path), FALSE) /\ Readable(path) /\ ~Collides(path)

\* It is there, or it could not be written.
Settled(path, data) ==
    \/ MapRemoteToLocal(path) \in DOMAIN local /\ local[MapRemoteToLocal(path)] = data
    \/ Unwritten(MapRemoteToLocal(path))

\* It has been asked for, is being sent, or is settled.
On(path, data) ==
    /\ \A f \in DOMAIN buffers : buffers[f].source = path => Asked(f) \/ Served(f, data)
    /\ (\A f \in DOMAIN buffers : buffers[f].source # path) => Settled(path, data)

\* The client has handled the server's newest tree.
FreshNow ==
    /\ handled = tree /\ handled # NoTree /\ offered = NoTree
    /\ ~noticed /\ ~missed /\ Key("server") = Key("client")

FreshInv == FreshNow => \A path \in DOMAIN tree : Due(path) => On(path, DataAt(path))

LEMMA OnPrime ==
    ASSUME NEW path, NEW data
    PROVE  On(path, data)' <=>
             /\ \A f \in DOMAIN buffers' : buffers'[f].source = path => Asked(f)' \/ Served(f, data)'
             /\ (\A f \in DOMAIN buffers' : buffers'[f].source # path) => Settled(path, data)'
BY DEF On

\* A file that could not be written stays one: the client removes nothing.
LEMMA UnwrittenKept ==
    ASSUME scene' = scene, failed \subseteq failed', DOMAIN local \subseteq DOMAIN local',
           NEW dest, Unwritten(dest)
    PROVE  Unwritten(dest)'
BY DEF Unwritten, InTheWay

LEMMA SettledKept ==
    ASSUME UNCHANGED <<scene, local>>, failed \subseteq failed', NEW path, NEW data, Settled(path, data)
    PROVE  Settled(path, data)'
BY UnwrittenKept DEF Settled

LEMMA OnAt ==
    ASSUME NEW path, NEW data, data = DataAt(path)', On(path, data)'
    PROVE  On(path, DataAt(path))'
BY DEF On, Settled, Served, Key

LEMMA OnKept ==
    ASSUME NEW path, NEW data, On(path, data),
           UNCHANGED <<scene, running, wire, buffers, failed, local, handled>>,
           versions \subseteq versions'
    PROVE  On(path, data)'
<1>1. \A f : Of(wire', f) = Of(wire, f)
  OBVIOUS
<1>2. \A f \in DOMAIN buffers : (Asked(f)' <=> Asked(f)) /\ (Served(f, data)' <=> Served(f, data))
  BY <1>1, TransferKept
<1>3. Settled(path, data) => Settled(path, data)'
  BY SettledKept
<1> QED
  BY <1>2, <1>3, OnPrime DEF On

LEMMA SameDue ==
    ASSUME UNCHANGED <<scene, tree>>, NEW path, Readable(path)' <=> Readable(path)
    PROVE  Due(path)' <=> Due(path)
<1>1. ClientSide' = ClientSide
  BY SameScene
<1> QED
  BY <1>1 DEF Due, Collides

LEMMA SameFile ==
    ASSUME UNCHANGED <<scene, serverVars>>, NEW path
    PROVE  (Due(path)' <=> Due(path)) /\ DataAt(path)' = DataAt(path)
BY ReadPrime, SameDue DEF serverVars

\* The content of a file of the tree that can be read.
LEMMA TreeData ==
    ASSUME PathInv, tree # NoTree, NEW path \in DOMAIN tree, Readable(path)
    PROVE  IsData(DataAt(path)) /\ DataAt(path) \in Seq(STRING)
<1>1. IsTree(tree) /\ DiskInv
  BY DEF PathInv, TreesInv
<1>2. IsData(DataAt(path))
  BY <1>1, SourceData
<1> QED
  BY <1>2 DEF IsData

\* The digest tells contents apart.
LEMMA HashInjective ==
    ASSUME NEW a \in Seq(STRING), NEW b \in Seq(STRING), <<"sha256">> \o a = <<"sha256">> \o b
    PROVE  a = b
<1> DEFINE one == <<"sha256">>
           U == STRING \union {"sha256"}
<1>1. one \in Seq(U) /\ a \in Seq(U) /\ b \in Seq(U)
  OBVIOUS
<1> HIDE DEF one, U
<1>2. SubSeq(one \o a, Len(one) + 1, Len(one \o a)) = a /\ SubSeq(one \o b, Len(one) + 1, Len(one \o b)) = b
  BY <1>1, EndOfConcat
<1>3. one \o a = one \o b
  BY DEF one
<1> QED
  BY <1>2, <1>3

\* What the client's scan says of a file.
LEMMA ScanSays ==
    ASSUME NEW dest
    PROVE  /\ dest \in DOMAIN LocalScan <=> dest \in DOMAIN local /\ Listed(ClientSide, dest)
           /\ dest \in DOMAIN LocalScan => LocalScan[dest] = <<"sha256">> \o local[dest]
<1> DEFINE files2 == [p \in DOMAIN local |-> [data |-> local[p], kind |-> "plain"]]
<1>1. LocalScan = [path \in {p \in DOMAIN files2 : Listed(ClientSide, p)} |-> Hash(files2[path])]
  BY DEF LocalScan, ScanOf
<1>2. ASSUME dest \in DOMAIN local PROVE Hash(files2[dest]) = <<"sha256">> \o local[dest]
  <2> DEFINE file == [data |-> local[dest], kind |-> "plain"]
  <2>1. files2[dest] = file /\ file.kind = "plain" /\ file.data = local[dest]
    BY <1>2
  <2> QED
    BY <2>1 DEF Hash
<1>3. DOMAIN files2 = DOMAIN local
  OBVIOUS
<1> HIDE DEF files2
<1> QED
  BY <1>1, <1>2, <1>3

\* What the tree says of a file that can be read.
LEMMA TreeSays ==
    ASSUME PathInv, CurrentInv, tree # NoTree, ~noticed, ~missed, NEW path \in DOMAIN tree, Readable(path)
    PROVE  tree[path] = <<"sha256">> \o DataAt(path)
<1>1. PICK e \in Entries : \E p \in DOMAIN disk[e] :
        /\ Listed(ServerSide(e), p) /\ path = Prefix(e) \o p /\ tree[path] = Hash(disk[e][p])
  BY DEF CurrentInv, Shows
<1>2. PICK p \in DOMAIN disk[e] :
        /\ Listed(ServerSide(e), p) /\ path = Prefix(e) \o p /\ tree[path] = Hash(disk[e][p])
  BY <1>1
<1>3. DiskInv /\ Unique /\ p \in Path
  BY <1>2 DEF PathInv, TreesInv, IsTree, DiskInv, Files
<1>4. disk[e][p].kind = "plain" /\ DataAt(path) = disk[e][p].data
  BY <1>2, <1>3, ShownFile
<1> QED
  BY <1>2, <1>4 DEF Hash

\* A tree is handled: what the client does not ask for, it has.
LEMMA TreeKeepsFresh ==
    ASSUME PathInv, CurrentInv, LocalInv, HandleTree, FreshNow',
           NEW path \in DOMAIN tree, Due(path), NEW data, data = DataAt(path)
    PROVE  On(path, data)'
<1>1. /\ handled' = offered /\ UNCHANGED <<setupVars, scene, serverVars, local>>
      /\ \A f \in DOMAIN buffers' : Asked(f)' /\ buffers'[f].source \in ToFetch
      /\ \A p \in ToFetch : \E f \in DOMAIN buffers' : buffers'[f].source = p
  BY TreeTaken
<1>2. tree = offered /\ tree # NoTree /\ ~noticed /\ ~missed
  BY <1>1 DEF FreshNow, serverVars
<1>3. CASE path \in ToFetch
  BY <1>1, <1>3, OnPrime
<1>4. CASE path \notin ToFetch
  <2> DEFINE dest == MapRemoteToLocal(path)
  <2>1. ~Ignored(ClientSide, dest, FALSE) /\ Readable(path)
    BY DEF Due
  <2>2. dest \in DOMAIN LocalScan /\ LocalScan[dest] = offered[path]
    BY <1>2, <1>4, <2>1 DEF ToFetch, Diff
  <2> HIDE DEF dest
  <2>3. dest \in DOMAIN local /\ LocalScan[dest] = <<"sha256">> \o local[dest]
    BY <2>2, ScanSays
  <2>4. tree[path] = <<"sha256">> \o DataAt(path)
    BY <1>2, <2>1, TreeSays
  <2>5. local[dest] \in Seq(STRING) /\ DataAt(path) \in Seq(STRING)
    BY <1>2, <2>1, <2>3, TreeData DEF LocalInv
  <2>6. <<"sha256">> \o local[dest] = <<"sha256">> \o DataAt(path)
    BY <1>2, <2>2, <2>3, <2>4
  <2>7. local[dest] = data
    BY <2>5, <2>6, HashInjective
  <2>8. \A f \in DOMAIN buffers' : buffers'[f].source # path
    BY <1>1, <1>4
  <2>9. local' = local
    BY <1>1
  <2>10. Settled(path, data)'
    BY <2>3, <2>7, <2>9 DEF Settled, dest
  <2> QED
    BY <2>8, <2>10, OnPrime
<1> QED
  BY <1>3, <1>4

\* The file that a request is answered with.
LEMMA RequestKeepsFresh ==
    ASSUME PathInv, accepted = "yes", NEW m, HandleFileRequest(m),
           NEW path, Due(path), NEW data, data = DataAt(path), On(path, data)
    PROVE  On(path, data)'
<1> DEFINE f == FileOf(m)
<1>1. /\ UNCHANGED <<setupVars, scene, serverVars, clientVars>>
      /\ \A g : g # f => Of(wire', g) = Of(wire, g)
      /\ f \in DOMAIN buffers
      /\ Readable(buffers[f].source) => \A d : d = DataAt(buffers[f].source) => Served(f, d)'
  BY RequestServed
<1> HIDE DEF f
<1>2. UNCHANGED <<scene, running, handled, versions, buffers, failed, local>>
  BY <1>1 DEF setupVars, serverVars, clientVars
<1>3. ASSUME NEW g \in DOMAIN buffers, buffers[g].source = path PROVE Asked(g)' \/ Served(g, data)'
  <2>1. CASE g = f
    BY <1>1, <1>3, <2>1 DEF Due
  <2>2. CASE g # f
    <3>1. Asked(g) \/ Served(g, data)
      BY <1>3 DEF On
    <3> QED
      BY <1>1, <1>2, <2>2, <3>1, TransferKept
  <2> QED
    BY <2>1, <2>2
<1>4. Settled(path, data) => Settled(path, data)'
  BY <1>2, SettledKept
<1> QED
  BY <1>2, <1>3, <1>4, OnPrime DEF On

LEMMA ChunkKeepsFresh ==
    ASSUME PathInv, accepted = "yes", NEW m, HandleFileChunk(m),
           NEW path, NEW data, IsData(data), On(path, data)
    PROVE  On(path, data)'
<1> DEFINE f == FileOf(m)
<1>1. /\ UNCHANGED <<setupVars, scene, serverVars, handled, local>> /\ ~Asked(f)
      /\ DOMAIN buffers' = DOMAIN buffers /\ buffers'[f].source = buffers[f].source
      /\ \A g : g # f => Of(wire', g) = Of(wire, g) /\ buffers'[g] = buffers[g]
      /\ Served(f, data) => Served(f, data)'
  BY ChunkTaken
<1> HIDE DEF f
<1>2. UNCHANGED <<scene, running, handled, versions, local>> /\ failed' = failed
  BY <1>1 DEF HandleFileChunk, setupVars, serverVars
<1>3. \A g \in DOMAIN buffers : buffers'[g].source = buffers[g].source
  BY <1>1
<1>4. ASSUME NEW g \in DOMAIN buffers, buffers[g].source = path PROVE Asked(g)' \/ Served(g, data)'
  <2>1. Asked(g) \/ Served(g, data)
    BY <1>4 DEF On
  <2>2. CASE g = f
    BY <1>1, <2>1, <2>2
  <2>3. CASE g # f
    BY <1>1, <1>2, <2>1, <2>3, TransferKept
  <2> QED
    BY <2>2, <2>3
<1>5. Settled(path, data) => Settled(path, data)'
  BY <1>2, SettledKept
<1> QED
  BY <1>1, <1>2, <1>3, <1>4, <1>5, OnPrime DEF On

\* The other transfers, when one is over.
LEMMA OthersFresh ==
    ASSUME NEW f \in DOMAIN buffers, buffers' = Without(buffers, f),
           \A g : g # f => Of(wire', g) = Of(wire, g),
           UNCHANGED <<scene, running, handled, versions>>,
           NEW path, NEW data, On(path, data)
    PROVE  /\ \A g \in DOMAIN buffers' : buffers'[g].source = path => Asked(g)' \/ Served(g, data)'
           /\ buffers[f].source # path =>
                ((\A g \in DOMAIN buffers' : buffers'[g].source # path) => \A g \in DOMAIN buffers : buffers[g].source # path)
<1>1. DOMAIN buffers' = DOMAIN buffers \ {f} /\ \A g \in DOMAIN buffers' : buffers'[g] = buffers[g]
  BY DEF Without
<1>2. ASSUME NEW g \in DOMAIN buffers', buffers'[g].source = path PROVE Asked(g)' \/ Served(g, data)'
  <2>1. (Asked(g) \/ Served(g, data)) /\ g # f /\ buffers'[g] = buffers[g]
    BY <1>1, <1>2 DEF On
  <2> QED
    BY <2>1, TransferKept
<1> QED
  BY <1>1, <1>2

LEMMA DoneKeepsFresh ==
    ASSUME PathInv, accepted = "yes", handled = tree, Key("server") = Key("client"), NEW m, HandleFileDone(m),
           NEW path \in DOMAIN tree, Due(path), NEW data, IsData(data), On(path, data)
    PROVE  On(path, data)'
<1> DEFINE f == FileOf(m)
           buffer == buffers[f]
           dest == MapRemoteToLocal(path)
<1>1. /\ f \in DOMAIN buffers /\ Transfer(f) /\ ~Asked(f)
      /\ UNCHANGED <<setupVars, scene, serverVars, accepted, offered, handled>>
      /\ \A g : g # f => Of(wire', g) = Of(wire, g)
      /\ buffers' = Without(buffers, f)
      /\ \A d : IsData(d) /\ Served(f, d) => WriteFile(buffer.path, d)
  BY DoneTaken
<1>2. PICK v \in versions : v[1] = buffer.source /\ Served(f, v[2])
  <2>1. m \in wire /\ Handler(m.topic) = "done"
    BY DEF HandleFileDone, Dispatch
  <2> QED
    BY <2>1, MessageOf
<1>3. IsData(v[2])
  BY DEF PathInv, VersionsInv
<1> HIDE DEF f, buffer, dest
<1>4. /\ failed \subseteq failed' /\ DOMAIN local \subseteq DOMAIN local'
      /\ \A d \in DOMAIN local' : d # buffer.path => d \in DOMAIN local /\ local'[d] = local[d]
  <2>1. WriteFile(buffer.path, v[2]) /\ v[2] \in Seq(STRING)
    BY <1>1, <1>2, <1>3 DEF IsData
  <2> QED
    BY <2>1, Written
<1>5. UNCHANGED <<scene, running, handled, versions>>
  BY <1>1 DEF setupVars, serverVars
<1>6. /\ \A g \in DOMAIN buffers' : buffers'[g].source = path => Asked(g)' \/ Served(g, data)'
      /\ buffer.source # path =>
           ((\A g \in DOMAIN buffers' : buffers'[g].source # path) => \A g \in DOMAIN buffers : buffers[g].source # path)
  BY <1>1, <1>5, OthersFresh DEF buffer
<1>7. buffer.path = MapRemoteToLocal(buffer.source) /\ buffer.source \in DOMAIN tree
  BY <1>1 DEF Transfer, buffer
<1>8. CASE buffer.source = path
  <2>1. Served(f, data)
    BY <1>1, <1>8 DEF On, buffer
  <2>2. WriteFile(buffer.path, data) /\ data \in Seq(STRING)
    BY <1>1, <2>1 DEF IsData
  <2>3. buffer.path = dest
    BY <1>7, <1>8 DEF dest
  <2>4. \/ dest \in DOMAIN local' /\ local'[dest] = data
        \/ dest \in failed' /\ (InTheWay(local, dest) \/ dest \in scene.stuck)
    BY <2>2, <2>3, Written
  <2>5. InTheWay(local, dest) => InTheWay(local', dest)
    BY <1>4 DEF InTheWay
  <2>6. Settled(path, data)'
    BY <1>5, <2>4, <2>5 DEF Settled, Unwritten, dest
  <2> QED
    BY <1>6, <2>6, OnPrime
<1>9. CASE buffer.source # path
  <2>1. buffer.path # dest
    BY <1>7, <1>9 DEF Due, Collides, dest
  <2>2. dest \in DOMAIN local => dest \in DOMAIN local' /\ local'[dest] = local[dest]
    BY <1>4, <2>1
  <2>3. Unwritten(dest) => Unwritten(dest)'
    BY <1>4, <1>5, UnwrittenKept
  <2>4. Settled(path, data) => Settled(path, data)'
    BY <2>2, <2>3 DEF Settled, dest
  <2> QED
    BY <1>6, <1>9, <2>4, OnPrime DEF On
<1> QED
  BY <1>8, <1>9

LEMMA AbortKeepsFresh ==
    ASSUME PathInv, accepted = "yes", NEW m, HandleFileAbort(m),
           NEW path, NEW data, On(path, data)
    PROVE  On(path, data)'
<1> DEFINE f == FileOf(m)
<1>1. /\ f \in DOMAIN buffers /\ ~Asked(f) /\ \A d : ~Served(f, d)
      /\ UNCHANGED <<setupVars, scene, serverVars, accepted, offered, handled, local>>
      /\ \A g : g # f => Of(wire', g) = Of(wire, g)
      /\ buffers' = Without(buffers, f)
  BY AbortTaken
<1> HIDE DEF f
<1>2. UNCHANGED <<scene, running, handled, versions, local>> /\ failed \subseteq failed'
  BY <1>1 DEF HandleFileAbort, setupVars, serverVars
<1>3. buffers[f].source # path
  BY <1>1 DEF On
<1>4. /\ \A g \in DOMAIN buffers' : buffers'[g].source = path => Asked(g)' \/ Served(g, data)'
      /\ (\A g \in DOMAIN buffers' : buffers'[g].source # path) => \A g \in DOMAIN buffers : buffers[g].source # path
  BY <1>1, <1>2, <1>3, OthersFresh
<1>5. Settled(path, data) => Settled(path, data)'
  BY <1>2, SettledKept
<1> QED
  BY <1>2, <1>4, <1>5, OnPrime DEF On

LEMMA FreshStep ==
    ASSUME PathInv, CurrentInv, LocalInv, FreshInv, [Next]_vars
    PROVE  FreshInv'
<1> SUFFICES ASSUME FreshNow', NEW path \in DOMAIN tree', Due(path)'
             PROVE  On(path, DataAt(path))'
  BY DEF FreshInv
<1> PICK data : data = DataAt(path)'
  OBVIOUS
<1> SUFFICES On(path, data)'
  BY OnAt
<1>1. scene' = scene /\ PathInv' /\ versions \subseteq versions'
  BY SceneSame, PathStep, VersionsStep DEF PathInv
<1>2. handled' = tree' /\ handled' # NoTree /\ offered' = NoTree /\ ~noticed' /\ ~missed'
  BY DEF FreshNow
<1>3. accepted' = "yes"
  BY <1>1, <1>2 DEF PathInv, AuthInv
<1>4. accepted = "yes"
  <2>1. \A m : ~HandleAuthResult(m)
    BY <1>2, ResultTaken
  <2> QED
    BY <1>3, <2>1 DEF Next, Prepare, ServerStarts, ClientStarts, Change, ServerStep, Rebuild, HandleHello,
       HandleAuthResponse, HandleFileRequest, ClientStep, HandleTree, HandleChallenge, Drop,
       HandleFileChunk, HandleFileDone, HandleFileAbort, clientVars, vars
<1>5. ASSUME UNCHANGED <<setupVars, scene, serverVars>>
      PROVE  /\ Due(path) /\ data = DataAt(path) /\ path \in DOMAIN tree /\ tree' = tree /\ IsData(data)
             /\ UNCHANGED <<handled, offered>> => FreshNow /\ On(path, data)
  <2>1. Due(path) /\ data = DataAt(path) /\ path \in DOMAIN tree /\ tree' = tree
    BY <1>5, SameFile DEF serverVars
  <2>2. tree # NoTree
    BY <1>2, <2>1
  <2>3. IsData(data)
    BY <2>1, <2>2, TreeData DEF Due
  <2>4. UNCHANGED <<handled, offered>> => FreshNow
    BY <1>5 DEF FreshNow, Key, serverVars, setupVars
  <2> QED
    BY <2>1, <2>3, <2>4 DEF FreshInv
<1>6. CASE UNCHANGED vars
  <2>1. On(path, data)
    BY <1>5, <1>6 DEF vars, clientVars
  <2> QED
    BY <1>1, <1>6, <2>1, OnKept DEF vars, clientVars, setupVars
<1>7. ASSUME NEW c \in scene.changes, Change(c) PROVE On(path, data)'
  <2>1. UNCHANGED <<setupVars, scene, tree, wire, clientVars>> /\ ~noticed /\ ~missed
    BY <1>2, <1>7, Unmissed DEF Change
  <2>2. tree # NoTree /\ path \in DOMAIN tree
    BY <1>2, <2>1
  <2>3. (Readable(path)' <=> Readable(path)) /\ data = DataAt(path)
    BY <1>2, <1>7, <2>2, ShownAlone
  <2>4. Due(path)
    BY <2>1, <2>3, SameDue
  <2>5. FreshNow
    BY <1>2, <2>1 DEF FreshNow, Key, setupVars, clientVars
  <2>6. On(path, data)
    BY <2>2, <2>3, <2>4, <2>5 DEF FreshInv
  <2> QED
    BY <1>1, <2>1, <2>6, OnKept DEF setupVars, clientVars
<1>8. CASE Rebuild
  BY <1>2, <1>4, <1>8 DEF Rebuild
<1>9. CASE HandleTree
  BY <1>5, <1>9, TreeTaken, TreeKeepsFresh
<1>10. ASSUME NEW m, HandleFileRequest(m) PROVE On(path, data)'
  <2>1. UNCHANGED <<setupVars, scene, serverVars, handled, offered>>
    BY <1>10 DEF HandleFileRequest, clientVars
  <2> QED
    BY <1>4, <1>5, <1>10, <2>1, RequestKeepsFresh
<1>11. ASSUME NEW m, HandleFileChunk(m) PROVE On(path, data)'
  <2>1. UNCHANGED <<setupVars, scene, serverVars, handled, offered>>
    BY <1>11 DEF HandleFileChunk
  <2> QED
    BY <1>4, <1>5, <1>11, <2>1, ChunkKeepsFresh
<1>12. ASSUME NEW m, HandleFileDone(m) PROVE On(path, data)'
  <2>1. UNCHANGED <<setupVars, scene, serverVars, handled, offered>>
    BY <1>12 DEF HandleFileDone
  <2>2. FreshNow
    BY <1>5, <2>1
  <2> QED
    BY <1>4, <1>5, <1>12, <2>1, <2>2, DoneKeepsFresh DEF FreshNow
<1>13. ASSUME NEW m, HandleFileAbort(m) PROVE On(path, data)'
  <2>1. UNCHANGED <<setupVars, scene, serverVars, handled, offered>>
    BY <1>13 DEF HandleFileAbort
  <2> QED
    BY <1>4, <1>5, <1>13, <2>1, AbortKeepsFresh
<1> QED
  BY <1>4, <1>6, <1>7, <1>8, <1>9, <1>10, <1>11, <1>12, <1>13, AcceptedSteps

DeliveryInv == PathInv /\ CurrentInv /\ LocalInv /\ FreshInv

LEMMA DeliveryStarts ==
    ASSUME Init
    PROVE  DeliveryInv
<1>1. PathInv
  BY PathStarts
<1>2. CurrentInv
  <2> SUFFICES ASSUME tree # NoTree, NEW path \in DOMAIN tree PROVE Shows(path)
    BY DEF CurrentInv
  <2>1. tree = Merged(disk) /\ Unique
    BY <1>1, ScenesAssumption DEF Init, PathInv, TreesInv, IsTree
  <2> QED
    BY <1>1, <2>1, MergedShows DEF Shows, PathInv
<1>3. LocalInv
  BY ScenesAssumption DEF Init, LocalInv
<1>4. FreshInv
  BY DEF Init, FreshInv, FreshNow
<1> QED
  BY <1>1, <1>2, <1>3, <1>4 DEF DeliveryInv

LEMMA DeliveryHolds == Spec => []DeliveryInv
<1>1. Init => DeliveryInv
  BY DeliveryStarts
<1>2. DeliveryInv /\ [Next]_vars => DeliveryInv'
  <2> SUFFICES ASSUME DeliveryInv, [Next]_vars PROVE DeliveryInv'
    OBVIOUS
  <2>1. PathInv /\ CurrentInv /\ LocalInv /\ FreshInv
    BY DEF DeliveryInv
  <2> QED
    BY <2>1, PathStep, CurrentStep, LocalStep, FreshStep DEF DeliveryInv
<1> QED
  BY <1>1, <1>2, PTL DEF Spec

\* At rest every file that is due has been delivered, or could not be written.
LEMMA DueIsThere ==
    ASSUME DeliveryInv, AtRest, ~missed, Key("server") = Key("client"),
           NEW path \in DOMAIN tree, Due(path)
    PROVE  Settled(path, DataAt(path))
BY DEF DeliveryInv, FreshInv, FreshNow, AtRest, On

\* At rest the client has the server's version of each published file, whatever
\* the scene: the rules of either side, the mapping, the chunk size and the
\* changes on the way; but for what its own rules ignore, what cannot be read, what
\* shares its place and what the result says could not be written (tree.py:107-137,
\* server.py:288-364, client.py:359-425).
THEOREM FilesAreDelivered == Spec => []Delivered
<1>1. DeliveryInv => Delivered
  BY DueIsThere DEF Delivered, Due, Settled
<1> QED
  BY <1>1, DeliveryHolds, PTL

\* At rest the same tree again asks for nothing that is there, whatever the scene
\* (tree.py:125).
THEOREM NothingIsAskedTwice == Spec => []NothingAskedTwice
<1>1. ASSUME DeliveryInv PROVE NothingAskedTwice
  <2> SUFFICES ASSUME AtRest, ~missed, Key("server") = Key("client"),
                      NEW path \in Diff(ClientSide, LocalScan, tree),
                      Readable(path), ~Collides(path), Listed(ClientSide, MapRemoteToLocal(path)),
                      ~Unwritten(MapRemoteToLocal(path))
               PROVE  FALSE
    BY DEF NothingAskedTwice
  <2> DEFINE dest == MapRemoteToLocal(path)
  <2>1. /\ path \in DOMAIN tree /\ ~Ignored(ClientSide, dest, FALSE)
        /\ dest \in DOMAIN LocalScan => LocalScan[dest] # tree[path]
    BY DEF Diff
  <2>2. dest \in DOMAIN local /\ local[dest] = DataAt(path)
    BY <1>1, <2>1, DueIsThere DEF Due, Settled
  <2> HIDE DEF dest
  <2>3. dest \in DOMAIN LocalScan /\ LocalScan[dest] = <<"sha256">> \o local[dest]
    BY <2>2, ScanSays DEF dest
  <2>4. tree[path] = <<"sha256">> \o DataAt(path)
    BY <1>1, <2>1, TreeSays DEF DeliveryInv, AtRest
  <2> QED
    BY <2>1, <2>2, <2>3, <2>4
<1> QED
  BY <1>1, DeliveryHolds, PTL

-----------------------------------------------------------------------------
(* Nobody waits in vain.                                                   *)

Entitled == Connected /\ PlainId /\ running["client"].pair = running["server"].pair

\* The handshake of a client that may enter has its next message on the way,
\* with the challenge open that the message is about; then the newest tree is
\* on its way or handled.
EntryInv ==
    Entitled =>
      /\ accepted = "no" => /\ wire # {} /\ Result("false") \notin wire
                            /\ Challenge \in wire \/ Response \in wire => challenged
      /\ accepted # "refused"
      /\ accepted = "yes" => offered = tree \/ (offered = NoTree /\ handled = tree)

LEMMA EntryPrime ==
    ASSUME scene' = scene
    PROVE  EntryInv' <=>
             (Entitled' =>
               /\ accepted' = "no" => /\ wire' # {} /\ Result("false") \notin wire'
                                      /\ Challenge \in wire' \/ Response' \in wire' => challenged'
               /\ accepted' # "refused"
               /\ accepted' = "yes" => offered' = tree' \/ (offered' = NoTree /\ handled' = tree'))
BY AuthSame DEF EntryInv

\* Steps that leave a handshake alone, and the newest tree with the client.
LEMMA EntryKept ==
    ASSUME EntryInv, UNCHANGED <<scene, running, accepted>>,
           Entitled /\ accepted = "no" => UNCHANGED <<wire, challenged>>,
           accepted = "yes" => \/ UNCHANGED <<tree, offered, handled>> \/ offered' = tree'
                               \/ offered' = NoTree /\ handled' = offered /\ tree' = tree
                                  /\ offered # NoTree
    PROVE  EntryInv'
<1>1. Entitled' = Entitled
  BY DEF Entitled, Connected, PlainId
<1>2. Response' = Response
  BY AuthSame
<1> QED
  BY <1>1, <1>2, EntryPrime DEF EntryInv

\* The next message of a handshake.
LEMMA EntryNext ==
    ASSUME scene' = scene, accepted' = "no", NEW next, wire' = {next},
           next # Result("false"), next = Challenge \/ next = Response' => challenged'
    PROVE  EntryInv'
BY EntryPrime

\* A client hears the messages of the handshake from the start.
LEMMA HandshakeHeard ==
    /\ Heard({Challenge}) = {Challenge}
    /\ \A word : Heard({Result(word)}) = {Result(word)}
<1> DEFINE filters == ServerFilters \union ClientFilters(scene.clientId, accepted = "yes")
<1>1. /\ Challenge.topic = ChallengeTopic(scene.clientId)
      /\ \A word : Result(word).topic = AuthResultTopic(scene.clientId)
  BY DEF Challenge, Result, Message
<1>2. ChallengeTopic(scene.clientId) \in filters /\ AuthResultTopic(scene.clientId) \in filters
  BY DEF ClientFilters
<1>3. \A t : MatchesFilter(t, t)
  BY DEF MatchesFilter
<1>4. \A messages : Heard(messages) = {m \in messages : \E f \in filters : MatchesFilter(f, m.topic)}
  BY DEF Heard
<1> HIDE DEF filters
<1> QED
  BY <1>1, <1>2, <1>3, <1>4

\* The messages of a handshake are different.
LEMMA HandshakeKinds ==
    /\ Hello \notin {Challenge, Response, Result("true"), Result("false")}
    /\ Challenge \notin {Response, Result("true"), Result("false")}
    /\ Response \notin {Result("true"), Result("false")}
    /\ Result("true") # Result("false")
<1>1. /\ Hello.kind = "hello" /\ Response.kind = "auth_response" /\ Challenge.kind = "challenge"
      /\ Result("true").kind = "auth_result" /\ Result("false").kind = "auth_result"
      /\ Result("true") # Result("false")
  BY AuthKinds
<1> QED
  BY <1>1

\* A client that starts says hello, which is heard if its id is one segment.
LEMMA HelloHeard ==
    ASSUME scene \in Scenes, PlainId
    PROVE  Heard({Hello}) = {Hello}
<1>1. Hello.topic = ClientTopic(scene.clientId, "hello")
  BY DEF Hello, Message
<1> QED
  BY <1>1, HeardFromClient DEF PlainId

LEMMA EntryStarts ==
    ASSUME Init
    PROVE  EntryInv
<1>1. accepted = "no" /\ scene \in Scenes
  BY DEF Init
<1>2. ASSUME Entitled PROVE wire = {Hello}
  <2>1. scene.ready
    <3>1. ~Bare
      <4>1. Bare => running["client"] = Down /\ ~Down.up
        BY DEF Bare, Programs, Down
      <4> QED
        BY <1>2, <4>1 DEF Entitled, Connected
    <3> QED
      BY <3>1 DEF Init
  <2>2. wire = Heard({Hello})
    BY <2>1 DEF Init
  <2> QED
    BY <1>1, <1>2, <2>2, HelloHeard DEF Entitled
<1> QED
  BY <1>1, <1>2, HandshakeKinds DEF EntryInv

LEMMA HelloEnters ==
    ASSUME PathInv, NEW m, HandleHello(m)
    PROVE  EntryInv'
<1>1. accepted = "no" /\ wire = {m} /\ Sender(m) = scene.clientId
  BY ServerMeets DEF HandleHello
<1>2. UNCHANGED <<setupVars, scene, clientVars>>
  BY DEF HandleHello
<1>3. UNCHANGED <<running, accepted>> /\ scene' = scene
  BY <1>2 DEF setupVars, clientVars
<1> SUFFICES ASSUME Entitled' PROVE EntryInv'
  BY <1>3, EntryPrime
<1>4. Registered(Sender(m))
  BY <1>1, <1>3 DEF Entitled, Connected, Registered, PathInv, DeployInv
<1>5. challenged' /\ wire' = (wire \ {m}) \union Heard({Challenge})
  BY <1>1, <1>4 DEF HandleHello, Challenge
<1>6. wire' = {Challenge}
  BY <1>1, <1>5, HandshakeHeard
<1> QED
  BY <1>1, <1>3, <1>5, <1>6, EntryNext, HandshakeKinds

LEMMA ChallengeEnters ==
    ASSUME PathInv, EntryInv, NEW m, HandleChallenge(m)
    PROVE  EntryInv'
<1>1. accepted = "no" /\ wire = {m} /\ m = Challenge
  BY ClientMeets DEF HandleChallenge
<1>2. UNCHANGED <<setupVars, scene, serverVars, clientVars>>
  BY DEF HandleChallenge
<1>3. UNCHANGED <<running, accepted, challenged, scene>>
  BY <1>2 DEF setupVars, serverVars, clientVars
<1> SUFFICES ASSUME Entitled' PROVE EntryInv'
  BY <1>3, EntryPrime
<1>4. Entitled /\ scene \in Scenes
  BY <1>3 DEF Entitled, Connected, PlainId, PathInv, DiskInv, SceneInv
<1>5. challenged
  BY <1>1, <1>4 DEF EntryInv
<1>6. wire' = (wire \ {m}) \union Heard({Response})
  BY DEF HandleChallenge, Response
<1>7. Heard({Response}) = {Response}
  <2>1. Response.topic = ClientTopic(scene.clientId, "auth_response")
    BY DEF Response, Message
  <2> QED
    BY <1>4, <2>1, HeardFromClient DEF Entitled, PlainId
<1>8. wire' = {Response}
  BY <1>1, <1>6, <1>7
<1> QED
  BY <1>1, <1>3, <1>5, <1>8, EntryNext, HandshakeKinds

LEMMA ResponseEnters ==
    ASSUME PathInv, EntryInv, NEW m, HandleAuthResponse(m)
    PROVE  EntryInv'
<1>1. accepted = "no" /\ wire = {m} /\ Sender(m) = scene.clientId /\ m = Response
  BY ServerMeets DEF HandleAuthResponse
<1>2. UNCHANGED <<setupVars, scene, clientVars>>
  BY DEF HandleAuthResponse
<1>3. UNCHANGED <<running, accepted, scene>>
  BY <1>2 DEF setupVars, clientVars
<1> SUFFICES ASSUME Entitled' PROVE EntryInv'
  BY <1>3, EntryPrime
<1>4. Entitled
  BY <1>3 DEF Entitled, Connected, PlainId
<1>5. challenged /\ running["server"].pair = running["client"].pair
  BY <1>1, <1>4 DEF EntryInv, Entitled
<1>6. Verified(m)
  BY <1>1, <1>5, AuthKinds DEF Verified
<1>7. wire' = (wire \ {m}) \union Heard({Result("true")})
  BY <1>1, <1>6 DEF HandleAuthResponse, Result
<1>8. wire' = {Result("true")}
  BY <1>1, <1>7, HandshakeHeard
<1>9. Result("true") # Response'
  BY <1>3, AuthSame, HandshakeKinds
<1> QED
  BY <1>1, <1>3, <1>8, <1>9, EntryNext, HandshakeKinds

LEMMA ResultEnters ==
    ASSUME PathInv, EntryInv, NEW m, HandleAuthResult(m)
    PROVE  EntryInv'
<1>1. accepted = "no" /\ wire = {m} /\ m \in {Result("true"), Result("false")}
  BY ClientMeets DEF HandleAuthResult
<1>2. UNCHANGED <<setupVars, scene, serverVars>>
  BY DEF HandleAuthResult
<1>3. UNCHANGED <<running, tree, scene>>
  BY <1>2 DEF setupVars, serverVars
<1> SUFFICES ASSUME Entitled' PROVE EntryInv'
  BY <1>3, EntryPrime
<1>4. Entitled
  BY <1>3 DEF Entitled, Connected, PlainId
<1>5. m = Result("true")
  BY <1>1, <1>4 DEF EntryInv
<1>6. m.body = <<"true">>
  BY <1>5, AuthKinds
<1>7. accepted' = "yes" /\ offered' = tree'
  BY <1>3, <1>6 DEF HandleAuthResult, Retained
<1> QED
  BY <1>3, <1>7, EntryPrime

\* No other message of a handshake is lost on the way.
LEMMA NothingDropped ==
    ASSUME PathInv, PlainId, accepted = "no", NEW m \in wire
    PROVE  ~Drop(m) /\ ~HandleFileRequest(m)
<1>1. m \in AuthMessages /\ Len(scene.clientId) = 1 /\ scene \in Scenes
  BY OneMessage DEF PathInv
<1>2. ~HandleFileRequest(m)
  <2>1. HandleFileRequest(m) => SubSeq(m.topic, 1, 3) = FromClient /\ m.topic[5] = "file_request"
    BY DEF HandleFileRequest, Route
  <2> QED
    BY <1>1, <2>1, AuthMessage, OtherSide DEF AuthMessages
<1>3. ASSUME Drop(m) PROVE FALSE
  <2>1. SubSeq(m.topic, 1, 3) = FromServer /\ Handler(m.topic) = "none"
    BY <1>3 DEF Drop
  <2>2. m.kind = "none"
    BY <2>1, RoutedNow DEF MessagesRouted
  <2> QED
    BY <1>1, <2>2, AuthKinds DEF AuthMessages
<1> QED
  BY <1>2, <1>3

LEMMA EntryStep ==
    ASSUME PathInv, EntryInv, [Next]_vars
    PROVE  EntryInv'
<1>1. scene' = scene
  BY SceneSame
<1>2. CASE Prepare \/ ServerStarts
  <2>1. running'["client"] = running["client"] /\ ~running["client"].up
    BY <1>2 DEF Prepare, ServerStarts, StartServer, FileStep, StopServer, CreateConfig, SetKey,
       SavePrivateKey, SavePublicKey, InterruptGenKeys, RemovePrivateKey, Register,
       PathInv, DeployInv, DeployTypeOK, Programs
  <2> QED
    BY <1>1, <2>1, EntryPrime DEF Entitled, Connected
<1>3. CASE ClientStarts
  <2>1. ~running["client"].up
    BY <1>3 DEF ClientStarts, StartClient
  <2>2. accepted = "no" /\ accepted' = accepted /\ wire' = Heard({Hello})
    BY <1>3, <2>1 DEF ClientStarts, PathInv, AuthInv, clientVars
  <2> SUFFICES ASSUME Entitled' PROVE EntryInv'
    BY <1>1, EntryPrime
  <2>3. PlainId /\ scene \in Scenes
    BY <1>1 DEF Entitled, PlainId, PathInv, DiskInv, SceneInv
  <2>4. wire' = {Hello}
    BY <2>2, <2>3, HelloHeard
  <2>5. Hello \notin {Challenge, Response', Result("false")}
    <3>1. Response'.kind = "auth_response"
      BY DEF Response, Message
    <3> QED
      BY <3>1, HandshakeKinds, AuthKinds
  <2> QED
    BY <1>1, <2>2, <2>4, <2>5, EntryNext
<1>4. CASE \E c \in scene.changes : Change(c)
  BY <1>4, EntryKept DEF Change, setupVars, clientVars
<1>5. CASE Rebuild
  BY <1>5, EntryKept DEF Rebuild, setupVars
<1>6. ASSUME NEW m \in wire, HandleFileRequest(m) \/ Drop(m) PROVE EntryInv'
  <2>1. UNCHANGED <<setupVars, scene, serverVars, clientVars>>
    BY <1>6 DEF HandleFileRequest, Drop
  <2>2. ~(Entitled /\ accepted = "no")
    BY <1>6, NothingDropped DEF Entitled
  <2> QED
    BY <2>1, <2>2, EntryKept DEF setupVars, serverVars, clientVars
<1>7. ASSUME NEW m \in wire, HandleFileChunk(m) \/ HandleFileDone(m) \/ HandleFileAbort(m)
      PROVE  EntryInv'
  <2>1. DOMAIN buffers # {}
    BY <1>7 DEF HandleFileChunk, HandleFileDone, HandleFileAbort
  <2>2. accepted = "yes"
    BY <2>1 DEF PathInv, AuthInv
  <2>3. UNCHANGED <<setupVars, scene, serverVars, accepted, offered, handled>>
    BY <1>7 DEF HandleFileChunk, HandleFileDone, HandleFileAbort
  <2> QED
    BY <2>2, <2>3, EntryKept DEF setupVars, serverVars
<1>8. CASE HandleTree
  <2>1. /\ UNCHANGED <<setupVars, scene, serverVars, accepted>>
        /\ offered # NoTree /\ handled' = offered /\ offered' = NoTree
    BY <1>8 DEF HandleTree
  <2>2. accepted = "yes"
    BY <2>1 DEF PathInv, AuthInv
  <2> QED
    BY <2>1, <2>2, EntryKept DEF setupVars, serverVars
<1>9. CASE UNCHANGED vars
  BY <1>9, EntryKept DEF vars, setupVars, serverVars, clientVars
<1>10. CASE ServerStep
  BY <1>5, <1>6, <1>10, HelloEnters, ResponseEnters DEF ServerStep
<1>11. CASE ClientStep
  BY <1>6, <1>7, <1>8, <1>11, ChallengeEnters, ResultEnters DEF ClientStep
<1> QED
  BY <1>2, <1>3, <1>4, <1>9, <1>10, <1>11 DEF Next

\* A client that may enter is never left waiting: with no message on its way, no
\* tree to handle and no rebuild due it has been accepted, has handled the
\* server's newest tree, and every request of it was answered (server.py:224-277
\* with client.py:258-333).
THEOREM NobodyWaitsInVain == Spec => []SilenceIsRest
<1>1. Init => EntryInv
  BY EntryStarts
<1>2. PathInv /\ EntryInv /\ [Next]_vars => EntryInv'
  BY EntryStep
<1>3. PathInv /\ EntryInv => SilenceIsRest
  <2> SUFFICES ASSUME PathInv, EntryInv, Entitled, tree # NoTree, wire = {}, offered = NoTree
               PROVE  accepted = "yes" /\ handled = tree /\ DOMAIN buffers = {}
    BY DEF SilenceIsRest, Entitled
  <2>1. accepted = "yes"
    BY DEF EntryInv, PathInv, AuthInv
  <2>2. handled = tree
    BY <2>1 DEF EntryInv
  <2>3. ASSUME NEW f \in DOMAIN buffers PROVE FALSE
    <3>1. Of(wire, f) = {}
      BY DEF Of
    <3> QED
      BY <2>1, <3>1 DEF PathInv, TransferInv, Transfer, Asked, AskedAs, Refused, RefusedAs,
         Served, ServedAs
  <2> QED
    BY <2>1, <2>2, <2>3
<1> QED
  BY <1>1, <1>2, <1>3, PathHolds, PTL DEF Spec

=================================================================================
