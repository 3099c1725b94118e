---------------------------------- MODULE Wire ----------------------------------
(***************************************************************************)
(* What passes between server, broker and client: topics as sequences of   *)
(* segments, how they are built, subscribed to and dispatched (protocol.py *)
(* and the dispatchers of client.py and server.py), and file content that  *)
(* is sealed, cut into chunks and put together again (crypto.py,           *)
(* chunking.py).  A client id is a sequence of segments: nothing keeps a   *)
(* slash out of it.                                                        *)
(***************************************************************************)
EXTENDS Integers, Sequences, SequencesExt, TLC

CONSTANTS
    Numbers,        \* bound: sequence numbers and key pairs
    Decimal         \* str() of a number

\* The segments of topics and the words of payloads that the programs write.
Words == {"mcgo", "v1", "server", "client", "tree", "challenge", "auth_result", "file",
          "meta", "chunk", "done", "abort", "hello", "auth_response", "file_request",
          "true", "false"}

ASSUME DecimalAssumption ==
    /\ Numbers \subseteq Nat
    /\ Decimal \in [Numbers -> STRING] /\ IsInjective(Decimal)
    /\ \A n \in Numbers : Decimal[n] \notin Words

FromServer == <<"mcgo", "v1", "server">>
FromClient == <<"mcgo", "v1", "client">>

TreeTopic == FromServer \o <<"tree">>
ChallengeTopic(id) == FromServer \o <<"challenge">> \o id
AuthResultTopic(id) == FromServer \o <<"auth_result">> \o id
FileTopic(fid, kind) == FromServer \o <<"file", fid, kind>>
ChunkTopic(fid, segment) == FromServer \o <<"file", fid, "chunk", segment>>
ClientTopic(id, action) == FromClient \o id \o <<action>>

\* The broker: "+" stands for one segment.
MatchesFilter(filter, topic) ==
    Len(filter) = Len(topic) /\ \A i \in DOMAIN topic : filter[i] \in {"+", topic[i]}

ServerFilters == {ClientTopic(<<"+">>, action) : action \in {"hello", "auth_response", "file_request"}}

\* Subscriptions of a client: when it connects, and once it is accepted.
ClientFilters(id, accepted) ==
    {ChallengeTopic(id), AuthResultTopic(id)} \union
    IF accepted
    THEN {TreeTopic, ChunkTopic("+", "+")}
           \union {FileTopic("+", kind) : kind \in {"meta", "done", "abort"}}
    ELSE {}

-----------------------------------------------------------------------------
(* The client's dispatcher: the first test that holds, in the code's order. *)

Kinds == <<"tree", "done", "abort", "chunk", "meta", "challenge", "auth_result">>

EndsWith(topic, segment) == topic[Len(topic)] = segment
Holds(topic, segment) == \E i \in 2 .. Len(topic) - 1 : topic[i] = segment

TestMutant(topic, kind) ==   \* mutant: a chunk's topic is expected to end like the others
    IF kind = "tree" THEN topic = TreeTopic
    ELSE IF kind \in {"done", "abort", "chunk", "meta"} THEN EndsWith(topic, kind)
    ELSE Holds(topic, kind)
Test(topic, kind) ==
    IF kind = "tree" THEN topic = TreeTopic
    ELSE IF kind \in {"done", "abort", "meta"} THEN EndsWith(topic, kind)
    ELSE Holds(topic, kind)

\* extract_file_id and extract_chunk_seq.
HasFileId(topic) == Len(topic) >= 5 /\ SubSeq(topic, 1, 4) = FromServer \o <<"file">>
FileId(topic) == topic[5]
ChunkSeq(topic) == CHOOSE seq \in Numbers : Decimal[seq] = topic[7]

\* The handler _dispatch_message calls, or "none".
Handler(topic) ==
    LET passed == {k \in DOMAIN Kinds : Test(topic, Kinds[k])}
        kind == Kinds[CHOOSE k \in passed : \A j \in passed : k <= j]
    IN  IF \/ Len(topic) < 4 \/ SubSeq(topic, 1, 3) # FromServer \/ passed = {}
           \/ kind \in {"done", "abort", "chunk", "meta"} /\ ~HasFileId(topic)
        THEN "none" ELSE kind

-----------------------------------------------------------------------------
(* Content.                                                                *)

\* encrypt_data with the file id as additional data: two units of overhead.
Seal(key, fid, data) == <<fid>> \o data \o <<key>>

OpensMutant(key, fid, bytes) == Len(bytes) >= 2 /\ bytes[1] = fid   \* mutant: the tag is not verified
\* decrypt_data succeeds.
Opens(key, fid, bytes) ==
    Len(bytes) >= 2 /\ bytes[1] = fid /\ bytes[Len(bytes)] = key
Opened(bytes) == SubSeq(bytes, 2, Len(bytes) - 1)

\* calculate_chunk_count
ChunkCount(length, size) == (length + size - 1) \div size

\* chunk_data: one chunk for every offset seq * size in range(0, len(data), size).
ChunkData(data, size) ==
    [seq \in {q \in 0 .. Len(data) : q * size < Len(data)} |->
        SubSeq(data, seq * size + 1, Min({(seq + 1) * size, Len(data)}))]

\* reassemble_chunks: those there are, in the order of their numbers.
Reassemble(chunks) ==
    LET result[n \in Nat] ==   \* after the numbers below n
            IF n = 0 THEN <<>>
            ELSE result[n - 1] \o (IF n - 1 \in DOMAIN chunks THEN chunks[n - 1] ELSE <<>>)
    IN  result[Max({0} \union {seq + 1 : seq \in DOMAIN chunks})]

=============================================================================
