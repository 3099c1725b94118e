--------------------------- MODULE DataPathProofs ---------------------------
(***************************************************************************)
(* Proofs about DataPath, for all scenes, keys and bounds: the key files   *)
(* belong together, no change of the published files escapes the watchers' *)
(* filter but the ones Unseen describes, and what holds of the types, the  *)
(* disk, the trees, the programs under way and their authentication.       *)
(***************************************************************************)
EXTENDS DataPath, WireProofs, FiniteSetTheorems

-----------------------------------------------------------------------------
(* The key files.                                                          *)

\* While gen-keys is at work the private key, if it is still there, is its.
KeysInv ==
    /\ KeysBelongTogether
    /\ making # 0 /\ private # 0 => private = making

\* The steps of the composed system are steps of the deployment, or leave its
\* files alone.
LEMMA StepsDeploy ==
    ASSUME [Next]_vars
    PROVE  FileStep \/ UNCHANGED <<private, public, making, interrupted>>
<1>1. CASE Prepare
  BY <1>1 DEF Prepare, StopServer, files
<1>2. CASE ServerStarts
  BY <1>2 DEF ServerStarts, StartServer, files
<1>3. CASE ClientStarts
  BY <1>3 DEF ClientStarts, StartClient, files
<1>4. CASE \E c \in scene.changes : Change(c)
  BY <1>4 DEF Change, setupVars
<1>5. CASE ServerStep
  BY <1>5 DEF ServerStep, Rebuild, HandleHello, HandleAuthResponse, HandleFileRequest, setupVars
<1>6. CASE ClientStep
  BY <1>6 DEF ClientStep, HandleTree, HandleChallenge, HandleAuthResult, Drop,
              HandleFileChunk, HandleFileDone, HandleFileAbort, setupVars
<1>7. CASE UNCHANGED vars
  BY <1>7 DEF vars, setupVars
<1> QED
  BY <1>1, <1>2, <1>3, <1>4, <1>5, <1>6, <1>7 DEF Next

LEMMA KeysStep ==
    ASSUME KeysInv, [Next]_vars
    PROVE  KeysInv'
<1>1. CASE UNCHANGED <<private, public, making, interrupted>>
  BY <1>1 DEF KeysInv, KeysBelongTogether
<1>2. ASSUME NEW p \in Programs, CreateConfig(p) \/ \E key \in Keys : SetKey(p, key)
      PROVE  KeysInv'
  BY <1>2 DEF CreateConfig, SetKey, KeysInv, KeysBelongTogether
<1>3. CASE SavePrivateKey
  BY <1>3 DEF SavePrivateKey, NewPair, KeysInv, KeysBelongTogether
<1>4. CASE SavePublicKey
  BY <1>4 DEF SavePublicKey, Saved, KeysInv, KeysBelongTogether
<1>5. CASE InterruptGenKeys
  BY <1>5 DEF InterruptGenKeys, KeysInv, KeysBelongTogether
<1>6. CASE RemovePrivateKey
  BY <1>6 DEF RemovePrivateKey, KeysInv, KeysBelongTogether
<1>7. CASE Register
  BY <1>7 DEF Register, KeysInv, KeysBelongTogether
<1> QED
  BY StepsDeploy, <1>1, <1>2, <1>3, <1>4, <1>5, <1>6, <1>7 DEF FileStep

\* However often key pairs are removed and made again, the two files hold one
\* pair, unless gen-keys was interrupted between them (cli.py:106-111).
THEOREM KeyFilesBelongTogether == Spec => []KeysBelongTogether
<1>1. Init => KeysInv
  BY DEF Init, Ready, Bare, KeysInv, KeysBelongTogether
<1>2. KeysInv /\ [Next]_vars => KeysInv'
  BY KeysStep
<1>3. KeysInv => KeysBelongTogether
  BY DEF KeysInv
<1> QED
  BY <1>1, <1>2, <1>3, PTL DEF Spec

-----------------------------------------------------------------------------
(* The watchers' filter.                                                   *)

\* A file the walk does not keep makes no difference to a scan.
LEMMA UnlistedWrite ==
    ASSUME NEW side, NEW fs, NEW path, NEW file, ~Listed(side, path)
    PROVE  ScanOf(side, With(fs, path, file)) = ScanOf(side, fs)
<1> DEFINE new == With(fs, path, file)
           kept == {p \in DOMAIN fs : Listed(side, p)}
<1>1. DOMAIN new = DOMAIN fs \union {path}
  BY DEF With
<1>2. {p \in DOMAIN new : Listed(side, p)} = kept
  BY <1>1
<1>3. \A p \in kept : new[p] = fs[p]
  BY DEF With
<1> HIDE DEF new
<1>4. ScanOf(side, fs) = [p \in kept |-> Hash(fs[p])]
  BY DEF ScanOf
<1>5. ScanOf(side, new) = [p \in kept |-> Hash(new[p])]
  BY <1>2 DEF ScanOf
<1> HIDE DEF kept
<1>6. [p \in kept |-> Hash(new[p])] = [p \in kept |-> Hash(fs[p])]
  BY <1>3
<1> QED
  BY <1>4, <1>5, <1>6 DEF new

LEMMA UnlistedRemoval ==
    ASSUME NEW side, NEW fs, NEW path, ~Listed(side, path)
    PROVE  ScanOf(side, Without(fs, path)) = ScanOf(side, fs)
<1> DEFINE new == Without(fs, path)
           kept == {p \in DOMAIN fs : Listed(side, p)}
<1>1. DOMAIN new = DOMAIN fs \ {path}
  BY DEF Without
<1>2. {p \in DOMAIN new : Listed(side, p)} = kept
  BY <1>1
<1>3. \A p \in kept : new[p] = fs[p]
  BY DEF Without
<1> HIDE DEF new
<1>4. ScanOf(side, fs) = [p \in kept |-> Hash(fs[p])]
  BY DEF ScanOf
<1>5. ScanOf(side, new) = [p \in kept |-> Hash(new[p])]
  BY <1>2 DEF ScanOf
<1> HIDE DEF kept
<1>6. [p \in kept |-> Hash(new[p])] = [p \in kept |-> Hash(fs[p])]
  BY <1>3
<1> QED
  BY <1>4, <1>5, <1>6 DEF new

\* The merged tree depends on what is scanned.
LEMMA SameScansSameTree ==
    ASSUME NEW old, NEW new,
           \A e \in Entries : ScanOf(ServerSide(e), new[e]) = ScanOf(ServerSide(e), old[e])
    PROVE  Merged(new) = Merged(old)
<1>1. [e \in Entries |-> ScanOf(ServerSide(e), new[e])] = [e \in Entries |-> ScanOf(ServerSide(e), old[e])]
  OBVIOUS
<1> QED
  BY <1>1 DEF Merged

SceneInv == scene \in Scenes /\ DOMAIN disk = DOMAIN scene.entries

LEMMA SceneStep ==
    ASSUME SceneInv, [Next]_vars
    PROVE  SceneInv'
<1>1. CASE \E c \in scene.changes : Change(c)
  BY <1>1 DEF SceneInv, Change
<1>2. CASE UNCHANGED <<scene, disk>>
  BY <1>2 DEF SceneInv
<1> QED
  BY <1>1, <1>2 DEF Next, Prepare, ServerStarts, ClientStarts, ServerStep, Rebuild, HandleHello,
     HandleAuthResponse, HandleFileRequest, ClientStep, HandleTree, HandleChallenge, HandleAuthResult,
     Drop, HandleFileChunk, HandleFileDone, HandleFileAbort, serverVars, vars

\* The old name of a change that no watcher lets pass is ignored; and if the
\* new name of a move is published, the move is Unseen.
LEMMA FilterSees ==
    ASSUME SceneInv, NEW c \in scene.changes, Change(c), ~noticed', ~Unseen(c)
    PROVE  /\ ~Listed(ServerSide(c.entry), c.path)
           /\ c.kind = "move" => ~Listed(ServerSide(c.entry), c.to)
<1> DEFINE side == ServerSide(c.entry)
<1>1. ~Passes(c)
  BY DEF Change
<1>2. Ignored(side, c.path, FALSE)
  BY <1>1 DEF Passes
<1>3. ASSUME c.kind = "move", Listed(side, c.to) PROVE FALSE
  <2>1. scene.parentEvents /\ ~(Len(c.to) = 1 /\ Ignored(side, <<".">>, TRUE))
    BY <1>2, <1>3 DEF Unseen
  <2>2. Parent(c.to) \in Parents(c)
    BY <1>3, <2>1 DEF Parents
  <2>3. Ignored(side, Parent(c.to), TRUE)
    BY <1>1, <2>2 DEF Passes
  <2>4. Len(c.to) \in Nat \ {0}
    <3>1. c.to \in Path
      BY ScenesAssumption DEF SceneInv
    <3> QED
      BY <3>1, EmptySeq DEF Path
  <2>5. Len(c.to) # 1
    BY <2>1, <2>3 DEF Parent
  <2>6. \A n \in Nat \ {0, 1} : n - 1 \in 1 .. n - 1
    OBVIOUS
  <2>7. Parent(c.to) = SubSeq(c.to, 1, Len(c.to) - 1)
    BY <2>5 DEF Parent
  <2>8. Len(c.to) - 1 \in 1 .. Len(c.to) - 1
    BY <2>4, <2>5, <2>6, Zenon
  <2>9. ~Ignored(side, SubSeq(c.to, 1, Len(c.to) - 1), TRUE)
    BY <1>3, <2>8, Zenon DEF Listed
  <2> QED
    BY <2>3, <2>7, <2>9, Zenon
<1> QED
  BY <1>2, <1>3 DEF Listed

LEMMA ChangesAreNoticed ==
    ASSUME SceneInv, NEW c \in scene.changes, Change(c)
    PROVE  NoticedStep
<1> SUFFICES ASSUME ~noticed', ~Unseen(c)
             PROVE  Merged(disk') = Merged(disk)
  BY DEF NoticedStep, Change
<1> DEFINE side == ServerSide(c.entry)
           fs == disk[c.entry]
<1>1. ~Listed(side, c.path) /\ (c.kind = "move" => ~Listed(side, c.to))
  BY FilterSees
<1>2. ScanOf(side, Changed(c)) = ScanOf(side, fs)
  <2>1. CASE c.kind = "write"
    BY <1>1, <2>1, UnlistedWrite DEF Changed
  <2>2. CASE c.kind = "remove"
    BY <1>1, <2>2, UnlistedRemoval DEF Changed
  <2>3. CASE c.kind = "move"
    <3>1. ScanOf(side, With(Without(fs, c.path), c.to, fs[c.path])) = ScanOf(side, Without(fs, c.path))
      BY <1>1, <2>3, UnlistedWrite
    <3>2. ScanOf(side, Without(fs, c.path)) = ScanOf(side, fs)
      BY <1>1, UnlistedRemoval
    <3>3. Changed(c) = With(Without(fs, c.path), c.to, fs[c.path])
      BY <2>3 DEF Changed
    <3> QED
      BY <3>1, <3>2, <3>3
  <2> QED
    BY <2>1, <2>2, <2>3, ScenesAssumption DEF SceneInv
<1>3. disk' = [disk EXCEPT ![c.entry] = Changed(c)]
  BY DEF Change
<1>4. \A e \in Entries : disk'[e] = IF e = c.entry THEN Changed(c) ELSE disk[e]
  BY <1>3 DEF SceneInv, Entries
<1>5. \A e \in Entries : ScanOf(ServerSide(e), disk'[e]) = ScanOf(ServerSide(e), disk[e])
  BY <1>2, <1>4
<1> QED
  BY <1>5, SameScansSameTree

\* No change of what the server would publish escapes the watchers, for any
\* rules, directories, platform and order of changes, but for the moves that
\* Unseen describes (watcher.py:72-83 with tree.py:40-98).
THEOREM NoChangeEscapes == Spec => ChangeNoticed
<1>1. Init => SceneInv
  BY ScenesAssumption DEF Init, SceneInv
<1>2. SceneInv /\ [Next]_vars => SceneInv'
  BY SceneStep
<1>3. SceneInv /\ [Next]_vars => [NoticedStep]_vars
  <2> SUFFICES ASSUME SceneInv, Next PROVE NoticedStep \/ UNCHANGED vars
    OBVIOUS
  <2>1. CASE \E c \in scene.changes : Change(c)
    BY <2>1, ChangesAreNoticed
  <2>2. CASE disk' = disk
    BY <2>2 DEF NoticedStep
  <2> QED
    BY <2>1, <2>2 DEF Next, Prepare, ServerStarts, ClientStarts, ServerStep, Rebuild, HandleHello,
       HandleAuthResponse, HandleFileRequest, ClientStep, HandleTree, HandleChallenge, HandleAuthResult,
       Drop, HandleFileChunk, HandleFileDone, HandleFileAbort, serverVars, vars
<1> QED
  BY <1>1, <1>2, <1>3, PTL DEF Spec, ChangeNoticed

-----------------------------------------------------------------------------
(* Types.                                                                  *)

\* What the programs have loaded is a key pair that was made, and the client
\* does not start without one.
DeployInv ==
    /\ DeployTypeOK
    /\ private <= MaxPairs /\ public <= MaxPairs /\ making <= MaxPairs
    /\ registered <= MaxPairs /\ pairs <= MaxPairs
    /\ \A p \in Programs : running[p].pair <= MaxPairs
    /\ running["client"].up => running["client"].pair # 0 /\ running["server"].up

LEMMA LoadedProgram ==
    ASSUME NEW key \in Keys, NEW pair \in Nat
    PROVE  /\ Down \in Loaded /\ Up(key, pair) \in Loaded
           /\ ~Down.up /\ Down.pair = 0 /\ Up(key, pair).up /\ Up(key, pair).pair = pair
           /\ Up(key, pair).key = key
BY DEF Down, Up, Loaded

LEMMA DeployTypes ==
    DeployTypeOK <=>
      /\ conf \in [Programs -> Keys \union {"", NoConfig}]
      /\ private \in Nat /\ public \in Nat /\ making \in Nat /\ registered \in Nat /\ pairs \in Nat
      /\ running \in [Programs -> Loaded]
      /\ interrupted \in BOOLEAN
BY DEF DeployTypeOK

LEMMA DeployTypesPrime ==
    DeployTypeOK' <=>
      /\ conf' \in [Programs -> Keys \union {"", NoConfig}]
      /\ private' \in Nat /\ public' \in Nat /\ making' \in Nat /\ registered' \in Nat /\ pairs' \in Nat
      /\ running' \in [Programs -> Loaded]
      /\ interrupted' \in BOOLEAN
BY DEF DeployTypeOK

LEMMA DeployStarts ==
    ASSUME Init
    PROVE  DeployInv
<1>1. (CHOOSE key \in Keys : TRUE) \in Keys
  BY KeysAssumption
<1>2. ASSUME NEW key \in Keys, Ready(key) PROVE DeployInv
  <2> DEFINE up == Up(key, 1)
  <2>1. up \in Loaded /\ up.up /\ up.pair = 1
    BY LoadedProgram
  <2>2. running = [p \in Programs |-> up]
    BY <1>2 DEF Ready
  <2> HIDE DEF up
  <2>3. running \in [Programs -> Loaded] /\ \A p \in Programs : running[p] = up
    BY <2>1, <2>2
  <2>4. "client" \in Programs /\ "server" \in Programs
    BY DEF Programs
  <2>5. conf \in [Programs -> Keys \union {"", NoConfig}]
    BY <1>2 DEF Ready
  <2>6. /\ private = 1 /\ public = 1 /\ making = 0 /\ registered = 1 /\ pairs = 1 /\ interrupted = FALSE
        /\ 1 <= MaxPairs /\ 0 <= MaxPairs
    BY <1>2, PairsAssumption DEF Ready
  <2>7. DeployTypeOK
    BY <2>3, <2>5, <2>6, DeployTypes
  <2>8. \A p \in Programs : running[p].pair = 1 /\ running[p].up
    BY <2>1, <2>3
  <2> QED
    BY <2>4, <2>6, <2>7, <2>8 DEF DeployInv
<1>3. CASE Bare
  <2>1. running = [p \in Programs |-> Down] /\ Down \in Loaded /\ ~Down.up /\ Down.pair = 0
    BY <1>3, <1>1, LoadedProgram DEF Bare
  <2>2. running \in [Programs -> Loaded] /\ \A p \in Programs : running[p] = Down
    BY <2>1
  <2>3. "client" \in Programs
    BY DEF Programs
  <2>4. conf \in [Programs -> Keys \union {"", NoConfig}]
    BY <1>3 DEF Bare
  <2>5. /\ private = 0 /\ public = 0 /\ making = 0 /\ registered = 0 /\ pairs = 0 /\ interrupted = FALSE
        /\ 0 <= MaxPairs
    BY <1>3, PairsAssumption DEF Bare
  <2>6. DeployTypeOK
    BY <2>2, <2>4, <2>5, DeployTypes
  <2>7. \A p \in Programs : running[p].pair = 0 /\ ~running[p].up
    BY <2>1, <2>2
  <2> QED
    BY <2>3, <2>5, <2>6, <2>7 DEF DeployInv
<1> QED
  BY <1>1, <1>2, <1>3 DEF Init

LEMMA DeployStep ==
    ASSUME DeployInv, [Next]_vars
    PROVE  DeployInv'
<1> USE PairsAssumption
<1>1. ASSUME NEW p \in Programs, CreateConfig(p) \/ \E key \in Keys : SetKey(p, key), UNCHANGED running
      PROVE  DeployInv'
  BY <1>1 DEF CreateConfig, SetKey, DeployInv, DeployTypeOK
<1>2. ASSUME SavePrivateKey, UNCHANGED running
      PROVE  DeployInv'
  <2>1. pairs + 1 <= MaxPairs /\ pairs + 1 \in Nat
    <3>1. pairs \in Nat /\ pairs < MaxPairs /\ MaxPairs \in Nat
      BY <1>2, DeployTypes DEF SavePrivateKey, DeployInv
    <3> QED
      BY <3>1
  <2> QED
    BY <1>2, <2>1, DeployTypes, DeployTypesPrime DEF SavePrivateKey, NewPair, DeployInv
<1>3. ASSUME SavePublicKey \/ InterruptGenKeys \/ RemovePrivateKey \/ Register, UNCHANGED running
      PROVE  DeployInv'
  <2>1. /\ UNCHANGED <<conf, running, pairs>>
        /\ private' \in {private, 0} /\ public' \in {public, making} /\ making' \in {making, 0}
        /\ registered' \in {registered, public} /\ interrupted' \in {interrupted, TRUE}
    BY <1>3 DEF SavePublicKey, Saved, InterruptGenKeys, RemovePrivateKey, Register
  <2>2. DeployTypeOK'
    <3>1. /\ private \in Nat /\ public \in Nat /\ making \in Nat /\ registered \in Nat /\ pairs \in Nat
          /\ interrupted \in BOOLEAN /\ running \in [Programs -> Loaded]
          /\ conf \in [Programs -> Keys \union {"", NoConfig}]
      BY DeployTypes DEF DeployInv
    <3>2. private' \in Nat /\ making' \in Nat
      <4>1. \A n \in Nat : \A k \in {n, 0} : k \in Nat
        OBVIOUS
      <4> QED
        BY <2>1, <3>1, <4>1, Zenon
    <3>3. public' \in Nat /\ registered' \in Nat
      BY <2>1, <3>1
    <3>4. interrupted' \in BOOLEAN
      BY <2>1, <3>1
    <3> QED
      BY <2>1, <3>1, <3>2, <3>3, <3>4, DeployTypesPrime
  <2>3. 0 <= MaxPairs
    OBVIOUS
  <2> QED
    BY <2>1, <2>2, <2>3 DEF DeployInv
<1>4. ASSUME FileStep, UNCHANGED running
      PROVE  DeployInv'
  BY <1>1, <1>2, <1>3, <1>4 DEF FileStep
<1>5. ASSUME NEW p \in Programs, NEW program \in Loaded, program.pair <= MaxPairs,
             running' = [running EXCEPT ![p] = program], UNCHANGED files,
             running'["client"].up => running'["client"].pair # 0 /\ running'["server"].up
      PROVE  DeployInv'
  <2>1. running' \in [Programs -> Loaded] /\ \A q \in Programs : running'[q] \in {running[q], program}
    BY <1>5 DEF DeployInv, DeployTypeOK
  <2> QED
    BY <1>5, <2>1 DEF files, DeployInv, DeployTypeOK
<1>6. "client" \in Programs /\ "server" \in Programs /\ running \in [Programs -> Loaded]
  BY DEF Programs, DeployInv, DeployTypeOK
<1>10. CASE StopServer /\ ~running["client"].up
  <2>1. Down \in Loaded /\ Down.pair = 0 /\ 0 <= MaxPairs
    <3>1. PICK key \in Keys : TRUE
      BY KeysAssumption
    <3> QED
      BY <3>1, LoadedProgram
  <2>2. running' = [running EXCEPT !["server"] = Down] /\ UNCHANGED files
    BY <1>10 DEF StopServer
  <2>3. running'["client"] = running["client"]
    BY <1>6, <2>2
  <2> QED
    BY <1>5, <1>6, <1>10, <2>1, <2>2, <2>3
<1>11. CASE StartServer(Unique)
  <2> DEFINE up == Up(conf["server"], registered)
  <2>1. up \in Loaded /\ up.pair = registered /\ up.up /\ registered <= MaxPairs
    BY <1>11, LoadedProgram DEF StartServer, Valid, DeployInv, DeployTypeOK
  <2>2. running' = [running EXCEPT !["server"] = up] /\ UNCHANGED files
    BY <1>11 DEF StartServer, KnownKey
  <2> HIDE DEF up
  <2>3. running'["client"] = running["client"] /\ running'["server"] = up
    BY <1>6, <2>2
  <2>4. running["client"].up => running["client"].pair # 0
    BY DEF DeployInv
  <2> QED
    BY <1>5, <1>6, <2>1, <2>2, <2>3, <2>4
<1>7. CASE StartClient /\ running["server"].up
  <2> DEFINE up == Up(conf["client"], private)
  <2>1. up \in Loaded /\ up.pair = private /\ up.up /\ private <= MaxPairs /\ private # 0
    BY <1>7, LoadedProgram DEF StartClient, Valid, DeployInv, DeployTypeOK
  <2>2. running' = [running EXCEPT !["client"] = up] /\ UNCHANGED files
    BY <1>7 DEF StartClient
  <2> HIDE DEF up
  <2>3. running'["server"] = running["server"] /\ running'["client"] = up
    BY <1>6, <2>2
  <2> QED
    BY <1>5, <1>6, <1>7, <2>1, <2>2, <2>3
<1>8. CASE UNCHANGED setupVars
  BY <1>8 DEF setupVars, DeployInv, DeployTypeOK
<1>9. CASE Prepare
  <2>1. FileStep => UNCHANGED running
    BY DEF FileStep, CreateConfig, SetKey, SavePrivateKey, SavePublicKey, InterruptGenKeys,
           RemovePrivateKey, Register
  <2> QED
    BY <1>4, <1>10, <1>9, <2>1 DEF Prepare
<1>12. CASE ServerStarts
  BY <1>11, <1>12 DEF ServerStarts
<1>13. CASE ClientStarts
  BY <1>7, <1>13 DEF ClientStarts
<1> QED
  BY <1>8, <1>9, <1>12, <1>13 DEF Next, Change, ServerStep, Rebuild, HandleHello, HandleAuthResponse,
     HandleFileRequest, ClientStep, HandleTree, HandleChallenge, HandleAuthResult, Drop,
     HandleFileChunk, HandleFileDone, HandleFileAbort, vars

-----------------------------------------------------------------------------
(* The published paths.                                                    *)

LEMMA SingletonMinMax ==
    ASSUME NEW n \in Nat
    PROVE  Min({n}) = n /\ Max({n}) = n
BY DEF Min, Max

LEMMA EndOfConcat ==
    ASSUME NEW S, NEW a \in Seq(S), NEW b \in Seq(S)
    PROVE  SubSeq(a \o b, Len(a) + 1, Len(a \o b)) = b
<1>1. Len(a) \in Nat /\ Len(b) \in Nat /\ Len(a \o b) = Len(a) + Len(b)
  BY LenProperties, ConcatProperties
<1>2. CASE b = <<>>
  <2>1. Len(a \o b) < Len(a) + 1 /\ Len(a) + 1 \in Int /\ Len(a \o b) \in Int
    BY <1>1, <1>2
  <2> QED
    BY <1>2, <2>1, SubSeqEmpty
<1>3. CASE b # <<>>
  <2>1. SubSeq(a \o b, Len(a) + 1, Len(a \o b)) = SubSeq(b, 1, Len(b))
    BY <1>1, <1>3, SubSeqOfConcat2
  <2> QED
    BY <2>1, SubSeqFull
<1> QED
  BY <1>2, <1>3

LEMMA ImageFinite ==
    ASSUME NEW S, IsFiniteSet(S), NEW f, NEW T, \A y \in T : \E x \in S : y = f[x]
    PROVE  IsFiniteSet(T)
<1> DEFINE U == {f[x] : x \in S}
           g == [x \in S |-> f[x]]
<1>1. g \in Surjection(S, U)
  BY DEF Surjection
<1>2. IsFiniteSet(U)
  BY <1>1, FS_Surjection
<1> QED
  BY <1>2, FS_Subset

LEMMA EntriesAre ==
    ASSUME scene \in Scenes
    PROVE  /\ Entries = 1 .. Len(scene.entries) /\ Len(scene.entries) \in Nat \ {0}
           /\ scene.entries \in Seq(STRING)
           /\ \A e \in Entries : Prefix(e) \in Seq(STRING)
<1>1. scene.entries \in Seq(STRING) /\ scene.entries # <<>>
  BY ScenesAssumption DEF Path
<1>2. Entries = 1 .. Len(scene.entries) /\ Len(scene.entries) \in Nat \ {0}
  BY <1>1, EmptySeq, LenProperties DEF Entries
<1>3. ASSUME NEW e \in Entries PROVE Prefix(e) \in Seq(STRING)
  <2>1. scene.entries[e] \in STRING
    BY <1>1, <1>2, ElementOfSeq
  <2>2. <<>> \in Seq(STRING) /\ <<scene.entries[e]>> \in Seq(STRING)
    BY <2>1
  <2> QED
    BY <2>2, Zenon DEF Prefix
<1> QED
  BY <1>1, <1>2, <1>3

\* With different base names, a path under a directory's prefix is resolved to
\* that directory and the path below it.
LEMMA Owner ==
    ASSUME scene \in Scenes, Unique, NEW e \in Entries, NEW p \in Path
    PROVE  /\ Resolve(Prefix(e) \o p) = e /\ e # 0
           /\ SubSeq(Prefix(e) \o p, Len(Prefix(e)) + 1, Len(Prefix(e) \o p)) = p
           /\ Prefix(e) \o p \in Path
<1> DEFINE path == Prefix(e) \o p
           n == Len(scene.entries)
           owners == {d \in Entries : Prefix(d) = <<>> \/ Prefix(d) = <<path[1]>>}
<1>1. p \in Seq(STRING) /\ Prefix(e) \in Seq(STRING) /\ Len(p) \in Nat \ {0} /\ Len(Prefix(e)) \in Nat
  BY EntriesAre, EmptySeq, LenProperties DEF Path
<1>2. /\ path \in Seq(STRING) /\ Len(path) = Len(Prefix(e)) + Len(p)
      /\ \A i \in 1 .. Len(Prefix(e)) + Len(p) :
           path[i] = IF i <= Len(Prefix(e)) THEN Prefix(e)[i] ELSE p[i - Len(Prefix(e))]
  BY <1>1, ConcatProperties, Zenon
<1>3. path \in Path
  BY <1>1, <1>2, EmptySeq DEF Path
<1>4. SubSeq(path, Len(Prefix(e)) + 1, Len(path)) = p
  BY <1>1, EndOfConcat
<1>5. n \in Nat \ {0} /\ Entries = 1 .. n /\ e \in Nat /\ e # 0
  BY EntriesAre
<1>6. owners = {e}
  <2>1. CASE n = 1
    BY <1>5, <2>1 DEF Prefix
  <2>2. CASE n # 1
    <3>1. \A d \in Entries : Prefix(d) = <<scene.entries[d]>>
      BY <2>2 DEF Prefix
    <3>2. path[1] = scene.entries[e]
      <4>1. Len(Prefix(e)) = 1 /\ Prefix(e)[1] = scene.entries[e]
        BY <3>1
      <4> HIDE DEF path
      <4>2. 1 \in 1 .. Len(Prefix(e)) + Len(p)
        BY <1>1
      <4> QED
        BY <1>2, <4>1, <4>2
    <3> HIDE DEF path
    <3>3. \A d \in Entries : Prefix(d) = <<path[1]>> <=> d = e
      BY <3>1, <3>2 DEF Unique
    <3>4. \A d \in Entries : Prefix(d) # <<>>
      BY <3>1
    <3> QED
      BY <3>3, <3>4
  <2> QED
    BY <2>1, <2>2
<1> HIDE DEF path
<1>7. Resolve(path) = e
  BY <1>5, <1>6, SingletonMinMax DEF Resolve
<1> QED
  BY <1>3, <1>4, <1>5, <1>7 DEF path

\* What the server publishes of its directories.
Published(dirs) ==
    {x \in Entries \X Path : x[2] \in DOMAIN dirs[x[1]] /\ Listed(ServerSide(x[1]), x[2])}
PathOf(x) == Prefix(x[1]) \o x[2]

LEMMA MergedIs ==
    ASSUME scene \in Scenes, Unique, NEW dirs, \A e \in Entries : DOMAIN dirs[e] \subseteq Path
    PROVE  /\ DOMAIN Merged(dirs) = {PathOf(x) : x \in Published(dirs)}
           /\ \A x \in Published(dirs) : Merged(dirs)[PathOf(x)] = Hash(dirs[x[1]][x[2]])
<1> DEFINE scan == [e \in Entries |-> ScanOf(ServerSide(e), dirs[e])]
           all == UNION {{<<Prefix(e) \o path, e, path>> : path \in DOMAIN scan[e]} : e \in Entries}
           value(path) == LET e == Max({x[2] : x \in {y \in all : y[1] = path}})
                          IN  scan[e][SubSeq(path, Len(Prefix(e)) + 1, Len(path))]
<1>1. \A e \in Entries : /\ DOMAIN scan[e] = {p \in DOMAIN dirs[e] : Listed(ServerSide(e), p)}
                         /\ \A p \in DOMAIN scan[e] : scan[e][p] = Hash(dirs[e][p])
  BY DEF ScanOf
<1>2. Merged(dirs) = [path \in {x[1] : x \in all} |-> value(path)]
  BY DEF Merged, Combined
<1> HIDE DEF scan
<1>3. \A y : y \in all <=> \E x \in Published(dirs) : y = <<PathOf(x), x[1], x[2]>>
  <2>1. ASSUME NEW y \in all PROVE \E x \in Published(dirs) : y = <<PathOf(x), x[1], x[2]>>
    <3>1. PICK e \in Entries : \E p \in DOMAIN scan[e] : y = <<Prefix(e) \o p, e, p>>
      OBVIOUS
    <3>2. PICK p \in DOMAIN scan[e] : y = <<Prefix(e) \o p, e, p>>
      BY <3>1
    <3>3. <<e, p>> \in Published(dirs)
      BY <1>1 DEF Published
    <3> QED
      BY <3>2, <3>3 DEF PathOf
  <2>2. ASSUME NEW x \in Published(dirs) PROVE <<PathOf(x), x[1], x[2]>> \in all
    <3>1. x[1] \in Entries /\ x[2] \in DOMAIN scan[x[1]]
      BY <1>1 DEF Published
    <3>2. <<PathOf(x), x[1], x[2]>> \in {<<Prefix(x[1]) \o path, x[1], path>> : path \in DOMAIN scan[x[1]]}
      BY <3>1 DEF PathOf
    <3> QED
      BY <3>1, <3>2
  <2> HIDE DEF all
  <2> QED
    BY <2>1, <2>2
<1> HIDE DEF all
<1>4. {x[1] : x \in all} = {PathOf(x) : x \in Published(dirs)}
  <2>1. ASSUME NEW y \in all PROVE \E x \in Published(dirs) : y[1] = PathOf(x)
    BY <1>3
  <2>2. ASSUME NEW x \in Published(dirs) PROVE \E y \in all : y[1] = PathOf(x)
    <3>1. <<PathOf(x), x[1], x[2]>> \in all
      BY <1>3
    <3> QED
      BY <3>1
  <2> QED
    BY <2>1, <2>2
<1>5. ASSUME NEW x \in Published(dirs) PROVE value(PathOf(x)) = Hash(dirs[x[1]][x[2]])
  <2>1. x[1] \in Entries /\ x[2] \in Path /\ x[2] \in DOMAIN scan[x[1]]
    BY <1>1 DEF Published
  <2>2. ASSUME NEW y \in all, y[1] = PathOf(x) PROVE y[2] = x[1]
    <3>1. PICK z \in Published(dirs) : y = <<PathOf(z), z[1], z[2]>>
      BY <1>3
    <3>2. y[1] = PathOf(z) /\ y[2] = z[1] /\ z[1] \in Entries /\ z[2] \in Path
      BY <3>1 DEF Published
    <3>3. Resolve(PathOf(z)) = z[1] /\ Resolve(PathOf(x)) = x[1]
      BY <2>1, <3>2, Owner DEF PathOf
    <3> QED
      BY <2>2, <3>2, <3>3
  <2>3. <<PathOf(x), x[1], x[2]>> \in all
    BY <1>3
  <2>4. {z[2] : z \in {y \in all : y[1] = PathOf(x)}} = {x[1]}
    BY <2>2, <2>3
  <2>5. x[1] \in Nat
    BY <2>1, EntriesAre
  <2>6. Max({z[2] : z \in {y \in all : y[1] = PathOf(x)}}) = x[1]
    BY <2>4, <2>5, SingletonMinMax
  <2>7. SubSeq(PathOf(x), Len(Prefix(x[1])) + 1, Len(PathOf(x))) = x[2]
    BY <2>1, Owner DEF PathOf
  <2>8. value(PathOf(x)) = scan[x[1]][x[2]]
    BY <2>6, <2>7
  <2> QED
    BY <1>1, <2>1, <2>8
<1> HIDE DEF value
<1> QED
  BY <1>2, <1>4, <1>5

LEMMA PublishedFinite ==
    ASSUME scene \in Scenes, NEW dirs, \A e \in Entries : IsFiniteSet(DOMAIN dirs[e])
    PROVE  IsFiniteSet({PathOf(x) : x \in Published(dirs)})
<1> DEFINE below(e) == {<<e, p>> : p \in DOMAIN dirs[e]}
           belows == {below(e) : e \in Entries}
<1>1. IsFiniteSet(Entries)
  BY EntriesAre, FS_Interval
<1>2. ASSUME NEW e \in Entries PROVE IsFiniteSet(below(e))
  <2> DEFINE f == [p \in DOMAIN dirs[e] |-> <<e, p>>]
  <2>1. \A y \in below(e) : \E p \in DOMAIN dirs[e] : y = f[p]
    OBVIOUS
  <2> HIDE DEF f, below
  <2> QED
    BY <2>1, ImageFinite
<1>3. IsFiniteSet(belows)
  <2> DEFINE f == [e \in Entries |-> below(e)]
  <2>1. \A y \in belows : \E e \in Entries : y = f[e]
    OBVIOUS
  <2> HIDE DEF f, belows
  <2> QED
    BY <1>1, <2>1, ImageFinite
<1>4. IsFiniteSet(UNION belows)
  BY <1>2, <1>3, FS_UNION
<1>5. Published(dirs) \subseteq UNION belows
  <2>1. ASSUME NEW x \in Published(dirs) PROVE x \in below(x[1]) /\ x[1] \in Entries
    BY DEF Published
  <2> QED
    BY <2>1
<1>6. IsFiniteSet(Published(dirs))
  BY <1>4, <1>5, FS_Subset
<1> DEFINE f == [x \in Published(dirs) |-> PathOf(x)]
<1>7. \A y \in {PathOf(x) : x \in Published(dirs)} : \E x \in Published(dirs) : y = f[x]
  OBVIOUS
<1> HIDE DEF f
<1> QED
  BY <1>6, <1>7, ImageFinite

-----------------------------------------------------------------------------
(* The disk and the trees.                                                 *)

Files(fs) ==
    /\ DOMAIN fs \subseteq Path /\ IsFiniteSet(DOMAIN fs)
    /\ \A path \in DOMAIN fs : IsFile(fs[path])

\* A server runs only over directories with different names.
DiskInv ==
    /\ SceneInv
    /\ \A e \in Entries : Files(disk[e])
    /\ running["server"].up => Unique

\* A tree has paths below the directories' prefixes only.
IsTree(t) ==
    /\ Unique /\ IsFiniteSet(DOMAIN t)
    /\ \A path \in DOMAIN t : \E x \in Entries \X Path : path = PathOf(x)

TreesInv ==
    /\ tree # NoTree => IsTree(tree)
    /\ offered # NoTree => IsTree(offered)
    /\ handled # NoTree => IsTree(handled)

LEMMA SameScene ==
    ASSUME scene' = scene
    PROVE  /\ Unique' = Unique /\ Entries' = Entries
           /\ \A e : Prefix(e)' = Prefix(e) /\ ServerSide(e)' = ServerSide(e)
           /\ \A x : PathOf(x)' = PathOf(x)
           /\ ClientSide' = ClientSide
BY DEF Unique, Entries, Prefix, PathOf, ServerSide, ClientSide

LEMMA WithFiles ==
    ASSUME NEW fs, Files(fs), NEW path \in Path, NEW file, IsFile(file)
    PROVE  Files(With(fs, path, file))
<1>1. DOMAIN With(fs, path, file) = DOMAIN fs \union {path}
  BY DEF With
<1>2. IsFiniteSet(DOMAIN fs \union {path})
  BY FS_AddElement DEF Files
<1>3. \A p \in DOMAIN fs \union {path} : With(fs, path, file)[p] = IF p = path THEN file ELSE fs[p]
  BY DEF With
<1> QED
  BY <1>1, <1>2, <1>3 DEF Files

LEMMA WithoutFiles ==
    ASSUME NEW fs, Files(fs), NEW path
    PROVE  Files(Without(fs, path))
<1>1. DOMAIN Without(fs, path) = DOMAIN fs \ {path}
  BY DEF Without
<1>2. IsFiniteSet(DOMAIN fs \ {path})
  BY FS_RemoveElement DEF Files
<1>3. \A p \in DOMAIN fs \ {path} : Without(fs, path)[p] = fs[p]
  BY DEF Without
<1> QED
  BY <1>1, <1>2, <1>3 DEF Files

LEMMA ChangeFiles ==
    ASSUME DiskInv, NEW c \in scene.changes, Change(c)
    PROVE  \A e \in Entries : Files(disk'[e])
<1>1. c.entry \in Entries /\ c.path \in Path /\ c.to \in Path /\ IsFile(c.file) /\ c.kind \in {"write", "remove", "move"}
  BY ScenesAssumption DEF DiskInv, SceneInv, Entries
<1> DEFINE fs == disk[c.entry]
<1>2. Files(fs)
  BY <1>1 DEF DiskInv
<1>3. Files(Changed(c))
  <2>1. CASE c.kind = "write"
    BY <1>1, <1>2, <2>1, WithFiles DEF Changed
  <2>2. CASE c.kind = "remove"
    BY <1>1, <1>2, <2>2, WithoutFiles DEF Changed
  <2>3. CASE c.kind = "move"
    <3>1. IsFile(fs[c.path])
      BY <1>2, <2>3 DEF Change, Files
    <3>2. Files(With(Without(fs, c.path), c.to, fs[c.path]))
      BY <1>1, <1>2, <3>1, WithFiles, WithoutFiles
    <3> QED
      BY <2>3, <3>2 DEF Changed
  <2> QED
    BY <1>1, <2>1, <2>2, <2>3
<1>4. \A e \in Entries : disk'[e] = IF e = c.entry THEN Changed(c) ELSE disk[e]
  BY DEF Change, DiskInv, SceneInv, Entries
<1> QED
  BY <1>3, <1>4 DEF DiskInv

LEMMA DiskStarts ==
    ASSUME Init, DeployInv
    PROVE  DiskInv
<1>1. scene \in Scenes /\ disk = scene.disk
  BY DEF Init
<1>2. SceneInv
  BY <1>1, ScenesAssumption DEF SceneInv
<1>3. \A e \in Entries : Files(disk[e])
  BY <1>1, ScenesAssumption DEF Files, Entries
<1>4. ASSUME running["server"].up PROVE Unique
  <2>1. CASE scene.ready
    BY <1>1, <2>1, ScenesAssumption DEF Unique, Entries
  <2>2. CASE ~scene.ready
    <3>1. running = [p \in Programs |-> Down] /\ "server" \in Programs
      BY <2>2 DEF Init, Bare, Programs
    <3>2. ~running["server"].up
      BY <3>1 DEF Down
    <3> QED
      BY <1>4, <3>2
  <2> QED
    BY <2>1, <2>2
<1> QED
  BY <1>2, <1>3, <1>4 DEF DiskInv

LEMMA SceneSame ==
    ASSUME [Next]_vars
    PROVE  scene' = scene
BY DEF Next, Prepare, ServerStarts, ClientStarts, Change, ServerStep, Rebuild, HandleHello,
     HandleAuthResponse, HandleFileRequest, ClientStep, HandleTree, HandleChallenge, HandleAuthResult,
     Drop, HandleFileChunk, HandleFileDone, HandleFileAbort, vars

\* A server comes up in one step only.
LEMMA ServerComesUp ==
    ASSUME DeployInv, [Next]_vars, running'["server"].up
    PROVE  running["server"].up \/ ServerStarts
<1>0. running \in [Programs -> Loaded] /\ "server" \in Programs /\ "client" \in Programs
  BY DEF DeployInv, DeployTypeOK, Programs
<1>1. CASE Prepare
  <2>1. CASE FileStep
    BY <2>1 DEF FileStep, CreateConfig, SetKey, SavePrivateKey, SavePublicKey, InterruptGenKeys,
           RemovePrivateKey, Register
  <2>2. CASE StopServer
    BY <1>0, <2>2 DEF StopServer
  <2> QED
    BY <1>1, <2>1, <2>2 DEF Prepare
<1>2. CASE ClientStarts
  BY <1>2 DEF ClientStarts
<1>3. CASE UNCHANGED setupVars
  BY <1>3 DEF setupVars
<1> QED
  BY <1>1, <1>2, <1>3 DEF Next, Change, ServerStep, Rebuild, HandleHello, HandleAuthResponse,
     HandleFileRequest, ClientStep, HandleTree, HandleChallenge, HandleAuthResult, Drop,
     HandleFileChunk, HandleFileDone, HandleFileAbort, vars

LEMMA DiskStep ==
    ASSUME DeployInv, DiskInv, [Next]_vars
    PROVE  DiskInv'
<1>1. scene' = scene /\ Unique' = Unique /\ Entries' = Entries
  BY SceneSame, SameScene
<1>2. SceneInv'
  BY SceneStep DEF DiskInv
<1>3. (running["server"].up => Unique)'
  <2>1. ServerStarts => Unique
    BY DEF ServerStarts, StartServer
  <2> QED
    BY <1>1, <2>1, ServerComesUp DEF DiskInv
<1>4. CASE \E c \in scene.changes : Change(c)
  BY <1>1, <1>2, <1>3, <1>4, ChangeFiles DEF DiskInv
<1>5. CASE disk' = disk
  BY <1>1, <1>2, <1>3, <1>5 DEF DiskInv
<1> QED
  BY <1>4, <1>5 DEF Next, Prepare, ServerStarts, ClientStarts, ServerStep, Rebuild, HandleHello,
     HandleAuthResponse, HandleFileRequest, ClientStep, HandleTree, HandleChallenge, HandleAuthResult,
     Drop, HandleFileChunk, HandleFileDone, HandleFileAbort, serverVars, vars

LEMMA MergedIsTree ==
    ASSUME DiskInv, Unique
    PROVE  IsTree(Merged(disk))
<1>1. scene \in Scenes /\ \A e \in Entries : DOMAIN disk[e] \subseteq Path /\ IsFiniteSet(DOMAIN disk[e])
  BY DEF DiskInv, SceneInv, Files
<1>2. DOMAIN Merged(disk) = {PathOf(x) : x \in Published(disk)}
  BY <1>1, MergedIs
<1>3. IsFiniteSet({PathOf(x) : x \in Published(disk)})
  BY <1>1, PublishedFinite
<1>4. Published(disk) \subseteq Entries \X Path
  BY DEF Published
<1> QED
  BY <1>2, <1>3, <1>4 DEF IsTree

LEMMA TreesStart ==
    ASSUME Init, DiskInv
    PROVE  TreesInv
<1>1. CASE scene.ready
  <2>1. Unique
    BY <1>1, ScenesAssumption DEF Unique, Entries, Init
  <2> QED
    BY <2>1, MergedIsTree, <1>1 DEF Init, TreesInv
<1> QED
  BY <1>1 DEF Init, TreesInv

LEMMA TreesStep ==
    ASSUME DiskInv, TreesInv, [Next]_vars
    PROVE  TreesInv'
<1>1. scene' = scene /\ Unique' = Unique /\ Entries' = Entries /\ \A x : PathOf(x)' = PathOf(x)
  BY SceneSame, SameScene
<1>3. CASE ServerStarts
  <2>1. IsTree(Merged(disk)) /\ tree' = Merged(disk) /\ offered' = offered /\ handled' = handled
    BY <1>3, MergedIsTree DEF ServerStarts, StartServer, clientVars
  <2> QED
    BY <1>1, <2>1 DEF TreesInv, IsTree
<1>4. CASE Rebuild
  <2>1. IsTree(Merged(disk)) /\ tree' = Merged(disk) /\ offered' \in {tree', offered} /\ handled' = handled
    BY <1>4, MergedIsTree DEF Rebuild, DiskInv
  <2> QED
    BY <1>1, <2>1 DEF TreesInv, IsTree
<1>5. CASE \E m \in wire : HandleAuthResult(m)
  BY <1>1, <1>5 DEF HandleAuthResult, Retained, serverVars, TreesInv, IsTree
<1>6. CASE HandleTree
  BY <1>1, <1>6 DEF HandleTree, serverVars, TreesInv, IsTree
<1>7. CASE UNCHANGED <<tree, offered, handled>>
  BY <1>1, <1>7 DEF TreesInv, IsTree
<1> QED
  BY <1>3, <1>4, <1>5, <1>6, <1>7 DEF Next, Prepare, ClientStarts, Change, ServerStep, HandleHello,
     HandleAuthResponse, HandleFileRequest, ClientStep, HandleChallenge,
     Drop, HandleFileChunk, HandleFileDone, HandleFileAbort, serverVars, clientVars, vars

-----------------------------------------------------------------------------
(* Messages.                                                               *)

Response == Message(ClientTopic(scene.clientId, "auth_response"), "auth_response",
                    <<Decimal[running["client"].pair]>>)
Challenge == Message(ChallengeTopic(scene.clientId), "challenge", <<"challenge">>)
Result(word) == Message(AuthResultTopic(scene.clientId), "auth_result", <<word>>)
AuthMessages == {Hello, Challenge, Response, Result("true"), Result("false")}

Request(id, f, path) == Message(ClientTopic(id, "file_request"), "file_request", <<f>> \o path)
Chunk(f, chunks, seq) == Message(ChunkTopic(f, Decimal[seq]), "chunk", chunks[seq])
Done(f) == Message(FileTopic(f, "done"), "done", <<>>)
Abort(f) == Message(FileTopic(f, "abort"), "abort", <<>>)

\* The transfer a message is about.
FileOf(m) == IF m.kind = "file_request" THEN m.body[1] ELSE FileId(m.topic)
Of(messages, f) == {m \in messages : FileOf(m) = f}

LEMMA OtherSide ==
    /\ FromServer # FromClient
    /\ \A topic : SubSeq(topic, 1, 3) = FromClient => Handler(topic) = "none"
<1>1. FromServer # FromClient
  BY DEF FromServer, FromClient
<1> QED
  BY <1>1 DEF Handler

\* The messages of an authentication, by how they are dispatched.
LEMMA AuthMessage ==
    ASSUME scene \in Scenes, Len(scene.clientId) = 1, NEW m \in AuthMessages
    PROVE  /\ m \in {Hello, Response} =>
                /\ SubSeq(m.topic, 1, 3) = FromClient /\ <<m.topic[4]>> = scene.clientId
                /\ m.topic[5] = IF m = Hello THEN "hello" ELSE "auth_response"
                /\ Handler(m.topic) = "none"
           /\ m = Challenge => /\ SubSeq(m.topic, 1, 3) = FromServer
                               /\ Handler(m.topic) \in {"challenge", "none"}
           /\ m \in {Result("true"), Result("false")} =>
                /\ SubSeq(m.topic, 1, 3) = FromServer
                /\ Handler(m.topic) \in {"auth_result", "none"}
<1> DEFINE id == scene.clientId[1]
<1>1. scene.clientId \in Seq(STRING) /\ scene.clientId = <<id>>
  <2>1. scene.clientId \in Seq(STRING)
    BY ScenesAssumption DEF Path
  <2> QED
    BY <2>1, OneSegment
<1>2. ASSUME NEW action
      PROVE  LET t == ClientTopic(scene.clientId, action)
             IN  SubSeq(t, 1, 3) = FromClient /\ t[4] = id /\ t[5] = action
  BY <1>1, ClientTopicIs
<1> HIDE DEF id
<1>3. CASE m = Hello
  <2>1. m.topic = ClientTopic(scene.clientId, "hello")
    BY <1>3 DEF Hello, Message
  <2>2. SubSeq(m.topic, 1, 3) = FromClient /\ m.topic[4] = id /\ m.topic[5] = "hello"
    BY <1>2, <2>1
  <2>3. m # Challenge /\ m # Result("true") /\ m # Result("false")
    BY <1>3 DEF Hello, Challenge, Result, Message
  <2> QED
    BY <1>1, <1>3, <2>2, <2>3, OtherSide
<1>4. CASE m = Response
  <2>1. m.topic = ClientTopic(scene.clientId, "auth_response")
    BY <1>4 DEF Response, Message
  <2>2. SubSeq(m.topic, 1, 3) = FromClient /\ m.topic[4] = id /\ m.topic[5] = "auth_response"
    BY <1>2, <2>1
  <2>3. m # Hello /\ m # Challenge /\ m # Result("true") /\ m # Result("false")
    BY <1>4 DEF Hello, Response, Challenge, Result, Message
  <2> QED
    BY <1>1, <1>4, <2>2, <2>3, OtherSide
<1>5. CASE m = Challenge
  <2>1. m.topic = ChallengeTopic(<<id>>)
    BY <1>1, <1>5 DEF Challenge, Message
  <2>2. SubSeq(m.topic, 1, 3) = FromServer /\ Handler(m.topic) \in {"challenge", "none"}
    BY <2>1, AuthTopicIs, AuthTopicsRouted
  <2>3. m \notin {Hello, Response, Result("true"), Result("false")}
    BY <1>5 DEF Hello, Response, Challenge, Result, Message
  <2> QED
    BY <1>5, <2>2, <2>3
<1>6. CASE m \in {Result("true"), Result("false")}
  <2>1. m.topic = AuthResultTopic(<<id>>)
    BY <1>1, <1>6 DEF Result, Message
  <2>2. SubSeq(m.topic, 1, 3) = FromServer /\ Handler(m.topic) \in {"auth_result", "none"}
    BY <2>1, AuthTopicIs, AuthTopicsRouted
  <2>3. m \notin {Hello, Response, Challenge}
    BY <1>6 DEF Hello, Response, Challenge, Result, Message
  <2> QED
    BY <1>6, <2>2, <2>3
<1> QED
  BY <1>3, <1>4, <1>5, <1>6 DEF AuthMessages

LEMMA RequestIs ==
    ASSUME NEW id \in Seq(STRING), Len(id) = 1, NEW f, NEW path \in Seq(STRING)
    PROVE  /\ Request(id, f, path).kind = "file_request"
           /\ Request(id, f, path).body[1] = f /\ Tail(Request(id, f, path).body) = path
           /\ FileOf(Request(id, f, path)) = f
           /\ SubSeq(Request(id, f, path).topic, 1, 3) = FromClient
           /\ <<Request(id, f, path).topic[4]>> = id
           /\ Request(id, f, path).topic[5] = "file_request"
           /\ Len(Request(id, f, path).topic) = 5
           /\ Handler(Request(id, f, path).topic) = "none"
<1> DEFINE m == Request(id, f, path)
           t == ClientTopic(id, "file_request")
           U == STRING \union {f}
<1>1. m.kind = "file_request" /\ m.body = <<f>> \o path /\ m.topic = t
  BY DEF Request, Message
<1>2. SubSeq(t, 1, 3) = FromClient /\ t[4] = id[1] /\ t[5] = "file_request" /\ Len(t) = 5 /\ id = <<id[1]>>
  BY ClientTopicIs, OneSegment
<1>3. (<<f>> \o path)[1] = f /\ Tail(<<f>> \o path) = path
  <2> DEFINE one == <<f>>
             w == one \o path
  <2>1. one \in Seq(U) /\ path \in Seq(U) /\ Len(one) = 1 /\ one[1] = f
    OBVIOUS
  <2> HIDE DEF U, one
  <2>2. /\ w \in Seq(U) /\ Len(w) = Len(one) + Len(path)
        /\ \A i \in 1 .. Len(one) + Len(path) : w[i] = IF i <= Len(one) THEN one[i] ELSE path[i - Len(one)]
    BY <2>1, ConcatProperties, Zenon
  <2>3. SubSeq(w, Len(one) + 1, Len(w)) = path
    BY <2>1, EndOfConcat
  <2> HIDE DEF w
  <2>4. Len(path) \in Nat /\ w # <<>> /\ w[1] = f
    BY <2>1, <2>2
  <2>5. Tail(w) = SubSeq(w, 2, Len(w))
    BY <2>2, <2>4, TailIsSubSeq
  <2> QED
    BY <2>1, <2>3, <2>4, <2>5 DEF w, one
<1> HIDE DEF m, t
<1> QED
  BY <1>1, <1>2, <1>3, OtherSide DEF m, FileOf

LEMMA AnswerIs ==
    ASSUME NEW f
    PROVE  /\ FileOf(Done(f)) = f /\ FileOf(Abort(f)) = f
           /\ SubSeq(Done(f).topic, 1, 3) = FromServer /\ SubSeq(Abort(f).topic, 1, 3) = FromServer
           /\ Handler(Done(f).topic) = "done" /\ FileId(Done(f).topic) = f /\ Done(f).kind = "done"
           /\ Handler(Abort(f).topic) = "abort" /\ FileId(Abort(f).topic) = f /\ Abort(f).kind = "abort"
<1> DEFINE d == Done(f)
           a == Abort(f)
<1>1. /\ d.kind = "done" /\ d.topic = FileTopic(f, "done")
      /\ a.kind = "abort" /\ a.topic = FileTopic(f, "abort")
  BY DEF Done, Abort, Message
<1>2. PICK seq \in Numbers : TRUE
  BY NumbersAssumption, PairsAssumption
<1> HIDE DEF d, a
<1>3. /\ Handler(FileTopic(f, "done")) = "done" /\ FileId(FileTopic(f, "done")) = f
      /\ Handler(FileTopic(f, "abort")) = "abort" /\ FileId(FileTopic(f, "abort")) = f
  BY <1>2, FileTopicsRouted
<1>4. SubSeq(FileTopic(f, "done"), 1, 3) = FromServer /\ SubSeq(FileTopic(f, "abort"), 1, 3) = FromServer
  BY FileTopicIs
<1> QED
  BY <1>1, <1>3, <1>4 DEF FileOf, d, a

LEMMA ChunkIs ==
    ASSUME NEW f, NEW chunks, NEW seq \in Numbers
    PROVE  /\ FileOf(Chunk(f, chunks, seq)) = f
           /\ SubSeq(Chunk(f, chunks, seq).topic, 1, 3) = FromServer
           /\ Handler(Chunk(f, chunks, seq).topic) = "chunk" /\ FileId(Chunk(f, chunks, seq).topic) = f
           /\ ChunkSeq(Chunk(f, chunks, seq).topic) = seq
           /\ Chunk(f, chunks, seq).kind = "chunk" /\ Chunk(f, chunks, seq).body = chunks[seq]
<1> DEFINE c == Chunk(f, chunks, seq)
<1>1. c.kind = "chunk" /\ c.topic = ChunkTopic(f, Decimal[seq]) /\ c.body = chunks[seq]
  BY DEF Chunk, Message
<1> HIDE DEF c
<1>2. /\ Handler(ChunkTopic(f, Decimal[seq])) = "chunk" /\ FileId(ChunkTopic(f, Decimal[seq])) = f
      /\ ChunkSeq(ChunkTopic(f, Decimal[seq])) = seq
  BY FileTopicsRouted
<1>3. SubSeq(ChunkTopic(f, Decimal[seq]), 1, 3) = FromServer
  BY ChunkTopicIs
<1> QED
  BY <1>1, <1>2, <1>3 DEF FileOf, c

-----------------------------------------------------------------------------
(* Authentication and transfers.                                           *)

Admitted ==
    ~challenged /\ running["server"].pair # 0 /\ running["server"].pair = running["client"].pair

\* One message of the authentication at a time, and none after its end; who
\* has been accepted holds the registered key pair.
AuthInv ==
    /\ accepted \in {"no", "yes", "refused"} /\ challenged \in BOOLEAN
    /\ ~running["client"].up => wire = {} /\ accepted = "no"
    /\ accepted # "yes" => DOMAIN buffers = {} /\ offered = NoTree /\ handled = NoTree
    /\ accepted = "no" =>
         /\ wire \subseteq AuthMessages /\ \A m, n \in wire : m = n
         /\ wire # {} => Len(scene.clientId) = 1
         /\ Result("true") \in wire => Admitted
    /\ accepted = "refused" => wire = {}
    /\ accepted = "yes" => Admitted /\ Len(scene.clientId) = 1

\* Content that there are numbers for the chunks of.
IsData(data) == data \in Seq(STRING) /\ 0 .. Len(data) + 1 \subseteq Numbers

VersionsInv ==
    /\ ContentOf(disk) \subseteq versions
    /\ \A v \in versions : IsData(v[2])

\* What chunk_data makes of sealed content.
ChunksOf(key, f, data) == ChunkData(Seal(key, f, data), ChunkSize)

\* The three states of a transfer, by the messages about it and its buffer:
\* asked for, refused, or sent, with the chunks in D stored.
AskedAs(messages, buffer, id, f) ==
    messages = {Request(id, f, buffer.source)} /\ buffer.chunks = <<>>
RefusedAs(messages, f) == messages = {Abort(f)}
ServedAs(messages, buffer, chunks, f) ==
    \E D \in SUBSET DOMAIN chunks :
      /\ buffer.chunks = [q \in D |-> chunks[q]]
      /\ messages = {Done(f)} \union {Chunk(f, chunks, q) : q \in DOMAIN chunks \ D}

Asked(f) == AskedAs(Of(wire, f), buffers[f], scene.clientId, f)
Refused(f) == RefusedAs(Of(wire, f), f)
Served(f, data) == ServedAs(Of(wire, f), buffers[f], ChunksOf(Key("server"), f, data), f)

IsBuffer(b) == b = [path |-> b.path, source |-> b.source, chunks |-> b.chunks]

Transfer(f) ==
    /\ IsBuffer(buffers[f]) /\ handled # NoTree /\ buffers[f].source \in DOMAIN handled
    /\ buffers[f].path = MapRemoteToLocal(buffers[f].source)
    /\ ~Ignored(ClientSide, buffers[f].path, FALSE)
    /\ \/ Asked(f) \/ Refused(f)
       \/ \E v \in versions : v[1] = buffers[f].source /\ Served(f, v[2])

TransferInv ==
    accepted = "yes" =>
      /\ \A m \in wire : FileOf(m) \in DOMAIN buffers
      /\ \A f \in DOMAIN buffers : f \in FileIds /\ Transfer(f)
      /\ \A f, g \in DOMAIN buffers : buffers[f].source = buffers[g].source => f = g

PathInv == DeployInv /\ DiskInv /\ TreesInv /\ VersionsInv /\ AuthInv /\ TransferInv

-----------------------------------------------------------------------------
(* Contents.                                                               *)

LEMMA ContentIsData ==
    ASSUME DiskInv
    PROVE  \A v \in ContentOf(disk) : IsData(v[2])
<1> TAKE v \in ContentOf(disk)
<1>1. PICK e \in Entries : v \in {<<Prefix(e) \o path, disk[e][path].data>> : path \in DOMAIN disk[e]}
  BY DEF ContentOf
<1>2. PICK path \in DOMAIN disk[e] : v = <<Prefix(e) \o path, disk[e][path].data>>
  BY <1>1
<1>3. IsFile(disk[e][path])
  BY DEF DiskInv, Files
<1> QED
  BY <1>2, <1>3 DEF IsFile, IsData

LEMMA ContentHas ==
    ASSUME NEW dirs
    PROVE  \A v : v \in ContentOf(dirs) <=>
             \E e \in Entries : \E path \in DOMAIN dirs[e] : v = <<Prefix(e) \o path, dirs[e][path].data>>
<1> DEFINE of(e) == {<<Prefix(e) \o path, dirs[e][path].data>> : path \in DOMAIN dirs[e]}
<1>1. ContentOf(dirs) = UNION {of(e) : e \in Entries}
  BY DEF ContentOf
<1>2. \A e, v : v \in of(e) <=> \E path \in DOMAIN dirs[e] : v = <<Prefix(e) \o path, dirs[e][path].data>>
  OBVIOUS
<1> HIDE DEF of
<1> TAKE v
<1>3. v \in UNION {of(e) : e \in Entries} <=> \E e \in Entries : v \in of(e)
  OBVIOUS
<1>4. \A e : v \in of(e) <=> \E path \in DOMAIN dirs[e] : v = <<Prefix(e) \o path, dirs[e][path].data>>
  BY <1>2
<1> QED
  BY <1>1, <1>3, <1>4

LEMMA DiskContent ==
    \A v : v \in ContentOf(disk) <=>
      \E e \in Entries : \E path \in DOMAIN disk[e] : v = <<Prefix(e) \o path, disk[e][path].data>>
BY ContentHas

LEMMA ContentSame ==
    ASSUME scene' = scene
    PROVE  ContentOf(disk)' = ContentOf(disk') /\ (disk' = disk => ContentOf(disk)' = ContentOf(disk))
<1>1. Entries' = Entries /\ \A e : Prefix(e)' = Prefix(e)
  BY SameScene
<1>2. (\A v : v \in ContentOf(disk) <=>
         \E e \in Entries : \E path \in DOMAIN disk[e] : v = <<Prefix(e) \o path, disk[e][path].data>>)'
  BY DiskContent, PTL
<1>3. \A v : v \in ContentOf(disk') <=>
        \E e \in Entries : \E path \in DOMAIN disk'[e] : v = <<Prefix(e) \o path, disk'[e][path].data>>
  BY ContentHas
<1>4. ContentOf(disk)' = ContentOf(disk')
  BY <1>1, <1>2, <1>3
<1> QED
  BY <1>4

LEMMA VersionsStart ==
    ASSUME Init, DiskInv
    PROVE  VersionsInv
BY ContentIsData DEF Init, VersionsInv

LEMMA VersionsStep ==
    ASSUME DeployInv, DiskInv, VersionsInv, [Next]_vars
    PROVE  VersionsInv' /\ versions \subseteq versions'
<1>1. CASE \E c \in scene.changes : Change(c)
  <2>1. versions' = versions \union ContentOf(disk')
    BY <1>1 DEF Change
  <2>2. DiskInv'
    BY DiskStep
  <2>3. (\A v \in ContentOf(disk) : IsData(v[2]))'
    BY <2>2, ContentIsData, PTL
  <2>4. ContentOf(disk)' = ContentOf(disk')
    BY SceneSame, ContentSame
  <2> QED
    BY <2>1, <2>3, <2>4 DEF VersionsInv, IsData
<1>2. CASE UNCHANGED <<scene, disk, versions>>
  BY <1>2, ContentSame DEF VersionsInv, IsData
<1> QED
  BY <1>1, <1>2 DEF Next, Prepare, ServerStarts, ClientStarts, ServerStep, Rebuild, HandleHello,
     HandleAuthResponse, HandleFileRequest, ClientStep, HandleTree, HandleChallenge, HandleAuthResult,
     Drop, HandleFileChunk, HandleFileDone, HandleFileAbort, serverVars, vars

-----------------------------------------------------------------------------
(* What a message that is on its way can be.                               *)

LEMMA ChunkNumbers ==
    ASSUME NEW key, NEW f, NEW data, IsData(data)
    PROVE  /\ DOMAIN ChunksOf(key, f, data) \subseteq Numbers
           /\ ChunksOf(key, f, data) = [q \in DOMAIN ChunksOf(key, f, data) |-> ChunksOf(key, f, data)[q]]
           /\ Reassemble(ChunksOf(key, f, data)) = Seal(key, f, data)
<1> DEFINE seal == Seal(key, f, data)
           U == STRING \union {f, key}
<1>1. seal \in Seq(U) /\ Len(seal) = Len(data) + 2 /\ Len(data) \in Nat
  <2>1. data \in Seq(STRING)
    BY DEF IsData
  <2>2. seal \in Seq(STRING \union {f, key}) /\ Len(seal) = Len(data) + 2
    BY <2>1, SealIs
  <2> QED
    BY <2>1, <2>2
<1> HIDE DEF seal
<1>2. DOMAIN ChunksOf(key, f, data) = {q \in 0 .. Len(seal) : q * ChunkSize < Len(seal)}
  BY DEF ChunksOf, ChunkData, seal
<1>3. ASSUME NEW q \in 0 .. Len(seal), q * ChunkSize < Len(seal) PROVE q \in 0 .. Len(data) + 1
  <2>1. q <= q * ChunkSize /\ q * ChunkSize \in Nat /\ q \in Nat
    BY <1>1, Products, ChunkAssumption
  <2> QED
    BY <1>1, <1>3, <2>1
<1>4. Reassemble(ChunkData(seal, ChunkSize)) = seal
  BY <1>1, ChunkAssumption, ChunksRejoin
<1> QED
  BY <1>2, <1>3, <1>4 DEF IsData, ChunksOf, ChunkData, seal

\* Paths of trees are sequences.
LEMMA SourceIsPath ==
    ASSUME DiskInv, TreesInv, NEW f, Transfer(f)
    PROVE  buffers[f].source \in Path
<1>1. PICK x \in Entries \X Path : buffers[f].source = PathOf(x)
  BY DEF TreesInv, IsTree, Transfer
<1> QED
  BY <1>1, Owner DEF PathOf, TreesInv, Transfer, IsTree, DiskInv, SceneInv

\* Once the client has been accepted, each message on its way is about a
\* transfer and of one of four kinds.
LEMMA MessageOf ==
    ASSUME PathInv, accepted = "yes", NEW m \in wire
    PROVE  LET f == FileOf(m)
           IN  /\ f \in DOMAIN buffers /\ Transfer(f)
               /\ \/ /\ Asked(f) /\ m = Request(scene.clientId, f, buffers[f].source)
                     /\ SubSeq(m.topic, 1, 3) = FromClient /\ m.topic[5] = "file_request"
                     /\ Handler(m.topic) = "none"
                  \/ /\ Refused(f) /\ m = Abort(f)
                     /\ SubSeq(m.topic, 1, 3) = FromServer
                     /\ Handler(m.topic) = "abort" /\ FileId(m.topic) = f
                  \/ \E v \in versions :
                       /\ v[1] = buffers[f].source /\ Served(f, v[2])
                       /\ SubSeq(m.topic, 1, 3) = FromServer /\ FileId(m.topic) = f
                       /\ \/ m = Done(f) /\ Handler(m.topic) = "done"
                          \/ /\ \E q \in DOMAIN ChunksOf(Key("server"), f, v[2]) :
                                  m = Chunk(f, ChunksOf(Key("server"), f, v[2]), q)
                             /\ Handler(m.topic) = "chunk"
<1> DEFINE f == FileOf(m)
<1>1. f \in DOMAIN buffers /\ Transfer(f) /\ m \in Of(wire, f)
  BY DEF PathInv, TransferInv, Of
<1> HIDE DEF f
<1>2. CASE Asked(f)
  <2>1. scene.clientId \in Seq(STRING) /\ Len(scene.clientId) = 1 /\ buffers[f].source \in Seq(STRING)
    BY <1>1, SourceIsPath, ScenesAssumption DEF PathInv, DiskInv, SceneInv, Path, AuthInv
  <2>2. m = Request(scene.clientId, f, buffers[f].source)
    BY <1>1, <1>2 DEF Asked, AskedAs
  <2> QED
    BY <1>1, <1>2, <2>1, <2>2, RequestIs DEF f
<1>3. CASE Refused(f)
  <2>1. m = Abort(f)
    BY <1>1, <1>3 DEF Refused, RefusedAs
  <2> QED
    BY <1>1, <1>3, <2>1, AnswerIs DEF f
<1>4. ASSUME NEW v \in versions, v[1] = buffers[f].source, Served(f, v[2])
      PROVE  /\ SubSeq(m.topic, 1, 3) = FromServer /\ FileId(m.topic) = f
             /\ \/ m = Done(f) /\ Handler(m.topic) = "done"
                \/ /\ \E q \in DOMAIN ChunksOf(Key("server"), f, v[2]) :
                        m = Chunk(f, ChunksOf(Key("server"), f, v[2]), q)
                   /\ Handler(m.topic) = "chunk"
  <2> DEFINE C == ChunksOf(Key("server"), f, v[2])
  <2>1. DOMAIN C \subseteq Numbers
    BY ChunkNumbers DEF PathInv, VersionsInv
  <2>2. m = Done(f) \/ \E q \in DOMAIN C : m = Chunk(f, C, q)
    BY <1>1, <1>4 DEF Served, ServedAs
  <2> HIDE DEF C
  <2>3. CASE m = Done(f)
    BY <2>3, AnswerIs
  <2>4. ASSUME NEW q \in DOMAIN C, m = Chunk(f, C, q)
        PROVE  SubSeq(m.topic, 1, 3) = FromServer /\ FileId(m.topic) = f /\ Handler(m.topic) = "chunk"
    BY <2>1, <2>4, ChunkIs
  <2> QED
    BY <2>2, <2>3, <2>4 DEF C
<1> QED
  BY <1>1, <1>2, <1>3, <1>4 DEF Transfer, f

-----------------------------------------------------------------------------
(* The authentication.                                                     *)

LEMMA AuthKinds ==
    /\ Hello.kind = "hello" /\ Response.kind = "auth_response" /\ Challenge.kind = "challenge"
    /\ Response.body = <<Decimal[running["client"].pair]>>
    /\ \A word : Result(word).kind = "auth_result" /\ Result(word).body = <<word>>
    /\ Result("true") # Result("false")
    /\ Result("true") \notin {Hello, Response, Challenge}
<1>1. \A word : Result(word).kind = "auth_result" /\ Result(word).body = <<word>>
  BY DEF Result, Message
<1>2. Result("true") # Result("false")
  <2>1. <<"true">> # <<"false">>
    OBVIOUS
  <2> QED
    BY <1>1, <2>1
<1> QED
  BY <1>1, <1>2 DEF Hello, Response, Challenge, Message

\* What a client sends is heard if its id is one segment.
LEMMA HeardFromClient ==
    ASSUME scene \in Scenes, NEW action \in {"hello", "auth_response", "file_request"},
           NEW messages, \A m \in messages : m.topic = ClientTopic(scene.clientId, action)
    PROVE  Heard(messages) = IF Len(scene.clientId) = 1 THEN messages ELSE {}
<1> DEFINE filters == ServerFilters \union ClientFilters(scene.clientId, accepted = "yes")
           t == ClientTopic(scene.clientId, action)
<1>1. scene.clientId \in Seq(STRING)
  BY ScenesAssumption DEF Path
<1>2. (\E f \in filters : MatchesFilter(f, t)) <=> Len(scene.clientId) = 1
  BY <1>1, ServerHears
<1>3. Heard(messages) = {m \in messages : \E f \in filters : MatchesFilter(f, m.topic)}
  BY DEF Heard
<1> HIDE DEF filters, t
<1>4. \A m \in messages : m.topic = t
  BY DEF t
<1> QED
  BY <1>2, <1>3, <1>4

\* What is sent about a transfer is heard by a client that has been accepted.
LEMMA HeardFromServer ==
    ASSUME accepted = "yes", NEW f, NEW messages,
           \A m \in messages : \/ \E kind \in {"done", "abort"} : m.topic = FileTopic(f, kind)
                               \/ \E segment : m.topic = ChunkTopic(f, segment)
    PROVE  Heard(messages) = messages
<1> DEFINE own == ClientFilters(scene.clientId, accepted = "yes")
<1>0. own = ClientFilters(scene.clientId, TRUE)
  <2>1. (accepted = "yes") = TRUE
    OBVIOUS
  <2> QED
    BY <2>1
<1>1. ASSUME NEW m \in messages PROVE \E filter \in own : MatchesFilter(filter, m.topic)
  <2>1. CASE \E kind \in {"done", "abort"} : m.topic = FileTopic(f, kind)
    <3>1. PICK kind \in {"done", "abort"} : m.topic = FileTopic(f, kind)
      BY <2>1
    <3>2. \E filter \in ClientFilters(scene.clientId, TRUE) : MatchesFilter(filter, FileTopic(f, kind))
      BY ClientHears
    <3> QED
      BY <1>0, <3>1, <3>2
  <2>2. CASE \E segment : m.topic = ChunkTopic(f, segment)
    <3>1. PICK segment : m.topic = ChunkTopic(f, segment)
      BY <2>2
    <3>2. \E filter \in ClientFilters(scene.clientId, TRUE) : MatchesFilter(filter, ChunkTopic(f, segment))
      BY ClientHears
    <3> QED
      BY <1>0, <3>1, <3>2
  <2> QED
    BY <2>1, <2>2
<1>2. Heard(messages) = {m \in messages : \E filter \in ServerFilters \union own : MatchesFilter(filter, m.topic)}
  BY DEF Heard
<1> HIDE DEF own
<1> QED
  BY <1>1, <1>2

LEMMA AuthSame ==
    ASSUME scene' = scene
    PROVE  /\ Hello' = Hello /\ Challenge' = Challenge /\ \A word : Result(word)' = Result(word)
           /\ running'["client"].pair = running["client"].pair => Response' = Response
BY DEF Hello, Challenge, Result, Response

LEMMA AuthStarts ==
    ASSUME Init, DiskInv
    PROVE  AuthInv
<1>1. /\ accepted = "no" /\ challenged = FALSE /\ offered = NoTree /\ handled = NoTree
      /\ DOMAIN buffers = {}
  BY DEF Init
<1>2. scene \in Scenes
  BY DEF Init
<1>3. Heard({Hello}) = IF Len(scene.clientId) = 1 THEN {Hello} ELSE {}
  <2>1. Hello.topic = ClientTopic(scene.clientId, "hello")
    BY DEF Hello, Message
  <2> QED
    BY <1>2, <2>1, HeardFromClient
<1>4. wire # {} => wire = {Hello} /\ Len(scene.clientId) = 1 /\ scene.ready
  BY <1>3 DEF Init
<1>5. scene.ready => running["client"].up
  <2> SUFFICES ASSUME NEW key, Ready(key) PROVE running["client"].up
    BY DEF Init
  <2> QED
    BY DEF Ready, Programs, Up
<1>6. Result("true") \notin wire /\ wire \subseteq AuthMessages
  BY <1>4, AuthKinds DEF AuthMessages
<1> QED
  BY <1>1, <1>4, <1>5, <1>6 DEF AuthInv

\* The one message of an authentication under way.
LEMMA OneMessage ==
    ASSUME DiskInv, AuthInv, NEW m \in wire, accepted = "no"
    PROVE  /\ wire = {m} /\ m \in AuthMessages /\ Len(scene.clientId) = 1
           /\ scene \in Scenes /\ running["client"].up
           /\ DOMAIN buffers = {} /\ offered = NoTree /\ handled = NoTree
BY DEF AuthInv, DiskInv, SceneInv

\* Steps that only take messages away.
LEMMA AuthKept ==
    ASSUME AuthInv, UNCHANGED <<scene, running, accepted, challenged>>,
           accepted # "yes" => wire' \subseteq wire /\ UNCHANGED <<buffers, offered, handled>>,
           accepted = "yes" => running["client"].up
    PROVE  AuthInv'
<1>1. /\ Hello' = Hello /\ Challenge' = Challenge /\ Response' = Response
      /\ Result("true")' = Result("true") /\ Result("false")' = Result("false")
  BY AuthSame
<1>2. AuthMessages' = AuthMessages
  BY <1>1 DEF AuthMessages
<1>3. Admitted' = Admitted
  BY DEF Admitted
<1>4. accepted \in {"no", "yes", "refused"} /\ challenged \in BOOLEAN
  BY DEF AuthInv
<1>5. CASE accepted = "yes"
  BY <1>3, <1>4, <1>5 DEF AuthInv
<1>6. CASE accepted = "no"
  BY <1>1, <1>2, <1>3, <1>4, <1>6 DEF AuthInv
<1>7. CASE accepted = "refused"
  BY <1>4, <1>7 DEF AuthInv
<1> QED
  BY <1>4, <1>5, <1>6, <1>7

\* Steps of an authentication that is not over: the next message, if any.
LEMMA AuthNext ==
    ASSUME AuthInv, accepted = "no", UNCHANGED <<scene, accepted, buffers, offered, handled>>,
           NEW next \in AuthMessages, Len(scene.clientId) = 1, wire' \subseteq {next},
           running'["client"].up, running'["client"].pair = running["client"].pair \/ next = Hello,
           challenged' \in BOOLEAN, next = Result("true") => Admitted'
    PROVE  AuthInv'
<1>1. /\ Hello' = Hello /\ Challenge' = Challenge
      /\ Result("true")' = Result("true") /\ Result("false")' = Result("false")
      /\ running'["client"].pair = running["client"].pair => Response' = Response
  BY AuthSame
<1>2. next \in AuthMessages'
  BY <1>1 DEF AuthMessages
<1>3. DOMAIN buffers = {} /\ offered = NoTree /\ handled = NoTree
  BY DEF AuthInv
<1>4. \A m, n \in wire' : m = n
  OBVIOUS
<1>5. (Result("true") \in wire)' => Admitted'
  BY <1>1
<1> QED
  BY <1>2, <1>3, <1>4, <1>5 DEF AuthInv

\* The server's handlers of the authentication meet its own messages only.
LEMMA ServerMeets ==
    ASSUME PathInv, NEW m, NEW action \in {"hello", "auth_response"}, Route(m, action)
    PROVE  /\ accepted = "no" /\ wire = {m} /\ Sender(m) = scene.clientId
           /\ m = IF action = "hello" THEN Hello ELSE Response
<1>1. m \in wire /\ SubSeq(m.topic, 1, 3) = FromClient /\ m.topic[5] = action
  BY DEF Route
<1>2. accepted # "yes"
  <2>1. action # "file_request" /\ FromServer # FromClient
    BY OtherSide
  <2> QED
    BY <1>1, <2>1, MessageOf
<1>3. accepted = "no"
  BY <1>1, <1>2 DEF PathInv, AuthInv
<1>4. wire = {m} /\ m \in AuthMessages /\ Len(scene.clientId) = 1 /\ scene \in Scenes
  BY <1>1, <1>3, OneMessage DEF PathInv
<1>5. m \in {Hello, Response}
  BY <1>1, <1>4, AuthMessage, OtherSide DEF AuthMessages
<1>6. <<m.topic[4]>> = scene.clientId /\ m.topic[5] = IF m = Hello THEN "hello" ELSE "auth_response"
  BY <1>4, <1>5, AuthMessage
<1> QED
  BY <1>1, <1>3, <1>4, <1>5, <1>6 DEF Sender

\* The client's handlers of the authentication, likewise.
LEMMA ClientMeets ==
    ASSUME PathInv, NEW m, NEW kind \in {"challenge", "auth_result"}, Dispatch(m, kind)
    PROVE  /\ accepted = "no" /\ wire = {m}
           /\ m \in IF kind = "challenge" THEN {Challenge} ELSE {Result("true"), Result("false")}
<1>1. m \in wire /\ Handler(m.topic) = kind
  BY DEF Dispatch
<1>2. accepted # "yes"
  BY <1>1, MessageOf
<1>3. accepted = "no"
  BY <1>1, <1>2 DEF PathInv, AuthInv
<1>4. wire = {m} /\ m \in AuthMessages /\ Len(scene.clientId) = 1 /\ scene \in Scenes
  BY <1>1, <1>3, OneMessage DEF PathInv
<1>5. m \notin {Hello, Response}
  BY <1>1, <1>4, AuthMessage
<1>6. kind = "challenge" => m = Challenge
  BY <1>1, <1>4, <1>5, AuthMessage DEF AuthMessages
<1>7. kind = "auth_result" => m \in {Result("true"), Result("false")}
  BY <1>1, <1>4, <1>5, AuthMessage DEF AuthMessages
<1> QED
  BY <1>3, <1>4, <1>6, <1>7

\* Who has been accepted runs.
LEMMA AcceptedRuns ==
    ASSUME AuthInv, wire # {} \/ accepted # "no"
    PROVE  running["client"].up
BY DEF AuthInv

LEMMA HelloAnswered ==
    ASSUME PathInv, NEW m, HandleHello(m)
    PROVE  AuthInv'
<1>1. /\ accepted = "no" /\ wire = {m} /\ Sender(m) = scene.clientId
      /\ Len(scene.clientId) = 1 /\ running["client"].up
  BY ServerMeets, OneMessage DEF HandleHello, PathInv, Route
<1> DEFINE answer == IF Registered(Sender(m)) THEN Challenge ELSE Result("false")
<1>2. wire' = (wire \ {m}) \union Heard({answer})
  BY <1>1 DEF HandleHello, Challenge, Result
<1>3. answer \in AuthMessages /\ answer # Result("true")
  BY AuthKinds DEF AuthMessages
<1> HIDE DEF answer
<1>4. Heard({answer}) \subseteq {answer}
  BY DEF Heard
<1>5. challenged' \in BOOLEAN /\ UNCHANGED <<setupVars, scene, clientVars>>
  BY DEF HandleHello
<1> QED
  BY <1>1, <1>2, <1>3, <1>4, <1>5, AuthNext DEF PathInv, setupVars, clientVars

LEMMA ResponseAnswered ==
    ASSUME PathInv, NEW m, HandleAuthResponse(m)
    PROVE  AuthInv'
<1>1. /\ accepted = "no" /\ wire = {m} /\ Sender(m) = scene.clientId /\ m = Response
      /\ Len(scene.clientId) = 1 /\ running["client"].up
  BY ServerMeets, OneMessage DEF HandleAuthResponse, PathInv, Route
<1> DEFINE answer == IF Verified(m) THEN Result("true") ELSE Result("false")
<1>2. wire' = (wire \ {m}) \union Heard({answer})
  BY <1>1 DEF HandleAuthResponse, Result
<1>3. answer \in AuthMessages /\ (answer = Result("true") => Verified(m))
  BY AuthKinds DEF AuthMessages
<1> HIDE DEF answer
<1>4. Heard({answer}) \subseteq {answer}
  BY DEF Heard
<1>5. UNCHANGED <<setupVars, scene, clientVars>> /\ challenged' = (challenged /\ ~Verified(m))
  BY DEF HandleAuthResponse
<1>6. ASSUME Verified(m) PROVE Admitted'
  <2>1. challenged /\ m.body = <<Decimal[running["server"].pair]>>
    BY <1>6 DEF Verified
  <2>2. Decimal[running["server"].pair] = Decimal[running["client"].pair]
    BY <1>1, <2>1, AuthKinds
  <2>3. running["server"].pair \in Numbers /\ running["client"].pair \in Numbers
    <3>1. "server" \in Programs /\ "client" \in Programs
      BY DEF Programs
    <3>2. \A p \in Programs : running[p].pair \in Nat /\ running[p].pair <= MaxPairs
      BY DEF PathInv, DeployInv, DeployTypeOK, Loaded
    <3>3. \A p \in Programs : running[p].pair \in 0 .. MaxPairs
      BY <3>2, PairsAssumption
    <3> QED
      BY <3>1, <3>3, NumbersAssumption
  <2>4. running["server"].pair = running["client"].pair
    BY <2>2, <2>3, DecimalAssumption DEF IsInjective
  <2>5. running["client"].pair # 0
    BY <1>1 DEF PathInv, DeployInv
  <2> QED
    BY <1>5, <1>6, <2>4, <2>5 DEF Admitted, setupVars
<1>7. challenged' \in BOOLEAN
  BY <1>5
<1> QED
  BY <1>1, <1>2, <1>3, <1>4, <1>5, <1>6, <1>7, AuthNext DEF PathInv, setupVars, clientVars

LEMMA ChallengeAnswered ==
    ASSUME PathInv, NEW m, HandleChallenge(m)
    PROVE  AuthInv'
<1>1. accepted = "no" /\ wire = {m} /\ Len(scene.clientId) = 1 /\ running["client"].up
  BY ClientMeets, OneMessage DEF HandleChallenge, PathInv, Dispatch
<1>2. wire' = (wire \ {m}) \union Heard({Response})
  BY DEF HandleChallenge, Response
<1>3. Heard({Response}) \subseteq {Response}
  BY DEF Heard
<1>4. Response \in AuthMessages /\ Response # Result("true")
  BY AuthKinds DEF AuthMessages
<1>5. UNCHANGED <<setupVars, scene, clientVars, challenged>> /\ challenged \in BOOLEAN
  BY DEF HandleChallenge, PathInv, AuthInv, serverVars
<1> QED
  BY <1>1, <1>2, <1>3, <1>4, <1>5, AuthNext DEF PathInv, setupVars, clientVars

LEMMA ResultTaken ==
    ASSUME PathInv, NEW m, HandleAuthResult(m)
    PROVE  AuthInv' /\ wire' = {} /\ DOMAIN buffers' = {} /\ handled' = NoTree
<1>1. /\ accepted = "no" /\ wire = {m} /\ m \in {Result("true"), Result("false")}
      /\ Len(scene.clientId) = 1 /\ running["client"].up
      /\ DOMAIN buffers = {} /\ offered = NoTree /\ handled = NoTree
  BY ClientMeets, OneMessage DEF HandleAuthResult, PathInv, Dispatch
<1>2. m.body = <<"true">> <=> m = Result("true")
  <2>1. <<"true">> # <<"false">>
    OBVIOUS
  <2> QED
    BY <1>1, <2>1, AuthKinds
<1>3. wire' = {} /\ UNCHANGED <<setupVars, scene, challenged, handled, buffers>>
  BY <1>1 DEF HandleAuthResult, serverVars
<1>4. challenged \in BOOLEAN
  BY DEF PathInv, AuthInv
<1>5. Admitted' = Admitted
  BY <1>3 DEF Admitted, setupVars
<1>6. CASE m = Result("true")
  <2>1. accepted' = "yes"
    BY <1>2, <1>6 DEF HandleAuthResult
  <2>2. Admitted
    BY <1>1, <1>6 DEF PathInv, AuthInv
  <2> QED
    BY <1>1, <1>3, <1>4, <1>5, <2>1, <2>2 DEF AuthInv, setupVars
<1>7. CASE m # Result("true")
  <2>1. accepted' = "refused" /\ offered' = NoTree
    BY <1>1, <1>2, <1>7 DEF HandleAuthResult, Retained
  <2> QED
    BY <1>1, <1>3, <1>4, <2>1 DEF AuthInv, setupVars
<1> QED
  BY <1>6, <1>7

LEMMA AuthStep ==
    ASSUME PathInv, [Next]_vars
    PROVE  AuthInv'
<1>1. AuthInv /\ DeployInv
  BY DEF PathInv
<1>2. CASE Prepare \/ ServerStarts
  <2>1. /\ ~running["client"].up /\ UNCHANGED <<clientVars, wire>>
        /\ challenged' \in {challenged, FALSE}
    BY <1>2 DEF Prepare, ServerStarts, serverVars
  <2>2. wire = {} /\ accepted = "no" /\ challenged \in BOOLEAN
        /\ DOMAIN buffers = {} /\ offered = NoTree /\ handled = NoTree
    BY <1>1, <2>1 DEF AuthInv
  <2> QED
    BY <2>1, <2>2 DEF AuthInv, clientVars
<1>3. CASE ClientStarts
  <2>1. ~running["client"].up /\ running'["client"].up
    BY <1>1, <1>3 DEF ClientStarts, StartClient, Up, DeployInv, DeployTypeOK, Programs
  <2>2. wire = {} /\ accepted = "no" /\ challenged \in BOOLEAN
    BY <1>1, <2>1 DEF AuthInv
  <2>3. UNCHANGED <<scene, clientVars, challenged>> /\ wire' = Heard({Hello})
    BY <1>3 DEF ClientStarts, serverVars
  <2>4. Heard({Hello}) = IF Len(scene.clientId) = 1 THEN {Hello} ELSE {}
    <3>1. Hello.topic = ClientTopic(scene.clientId, "hello") /\ scene \in Scenes
      BY DEF Hello, Message, PathInv, DiskInv, SceneInv
    <3> QED
      BY <3>1, HeardFromClient
  <2>5. CASE Len(scene.clientId) = 1
    <3>1. Hello \in AuthMessages /\ Hello # Result("true")
      BY AuthKinds DEF AuthMessages
    <3> QED
      BY <1>1, <2>1, <2>2, <2>3, <2>4, <2>5, <3>1, AuthNext DEF clientVars
  <2>6. CASE Len(scene.clientId) # 1
    BY <1>1, <2>2, <2>3, <2>4, <2>6 DEF AuthInv, clientVars
  <2> QED
    BY <2>5, <2>6
<1>4. CASE \E c \in scene.changes : Change(c)
  BY <1>1, <1>4, AuthKept, AcceptedRuns DEF Change, setupVars, clientVars
<1>5. CASE Rebuild
  BY <1>1, <1>5, AuthKept, AcceptedRuns DEF Rebuild, setupVars
<1>6. ASSUME NEW m \in wire, HandleFileRequest(m) PROVE AuthInv'
  <2>1. accepted # "no"
    <3> SUFFICES ASSUME accepted = "no" PROVE FALSE
      OBVIOUS
    <3>1. m \in AuthMessages /\ Len(scene.clientId) = 1 /\ scene \in Scenes
      BY OneMessage DEF PathInv
    <3>2. SubSeq(m.topic, 1, 3) = FromClient /\ m.topic[5] = "file_request"
      BY <1>6 DEF HandleFileRequest, Route
    <3> QED
      BY <3>1, <3>2, AuthMessage, OtherSide DEF AuthMessages
  <2>2. accepted = "yes"
    BY <1>1, <2>1 DEF AuthInv
  <2> QED
    BY <1>1, <1>6, <2>2, AuthKept, AcceptedRuns DEF HandleFileRequest, setupVars, serverVars, clientVars
<1>7. ASSUME NEW m \in wire, HandleFileChunk(m) \/ HandleFileDone(m) \/ HandleFileAbort(m) PROVE AuthInv'
  <2>1. DOMAIN buffers # {}
    BY <1>7 DEF HandleFileChunk, HandleFileDone, HandleFileAbort
  <2>2. accepted = "yes"
    BY <1>1, <2>1 DEF AuthInv
  <2> QED
    BY <1>1, <1>7, <2>2, AuthKept, AcceptedRuns
    DEF HandleFileChunk, HandleFileDone, HandleFileAbort, setupVars, serverVars
<1>8. CASE HandleTree
  <2>1. accepted = "yes"
    BY <1>1, <1>8 DEF AuthInv, HandleTree
  <2> QED
    BY <1>1, <1>8, <2>1, AuthKept, AcceptedRuns DEF HandleTree, setupVars, serverVars
<1>9. ASSUME NEW m \in wire, Drop(m) PROVE AuthInv'
  BY <1>1, <1>9, AuthKept, AcceptedRuns DEF Drop, setupVars, serverVars, clientVars
<1>10. CASE UNCHANGED vars
  BY <1>1, <1>10, AuthKept, AcceptedRuns DEF vars, setupVars, serverVars, clientVars
<1>11. CASE ServerStep
  BY <1>5, <1>6, <1>11, HelloAnswered, ResponseAnswered DEF ServerStep
<1>12. CASE ClientStep
  BY <1>7, <1>8, <1>9, <1>12, ChallengeAnswered, ResultTaken DEF ClientStep
<1> QED
  BY <1>2, <1>3, <1>4, <1>10, <1>11, <1>12 DEF Next

=============================================================================
