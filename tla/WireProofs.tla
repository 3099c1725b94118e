------------------------------- MODULE WireProofs -------------------------------
(***************************************************************************)
(* What crosses the wire arrives: content that is cut into chunks and put  *)
(* together again is the content, and the dispatchers take each topic for  *)
(* what its builder meant, for every size, file id and number.             *)
(***************************************************************************)
EXTENDS Wire, SequenceTheorems, WellFoundedInduction, TLAPS

-----------------------------------------------------------------------------
(* Chunks.                                                                 *)

Less == {ss \in Nat \X Nat : ss[1] < ss[2]}

\* A set of numbers that contains zero and the successor of each of its
\* numbers contains them all.
LEMMA SetInduction ==
    ASSUME NEW T, 0 \in T, \A n \in Nat : n \in T => n + 1 \in T
    PROVE  Nat \subseteq T
<1> SUFFICES ASSUME Nat \ T # {} PROVE FALSE
  OBVIOUS
<1>1. IsWellFoundedOn(Less, Nat)
  BY NatLessThanWellFounded DEF OpToRel, Less
<1>2. PICK x \in Nat \ T : \A y \in Nat \ T : ~ (<<y, x>> \in Less)
  BY <1>1, WFMin
<1>3. x # 0 /\ x - 1 \in Nat /\ (x - 1) + 1 = x /\ <<x - 1, x>> \in Less
  BY DEF Less
<1>4. x - 1 \in T
  BY <1>2, <1>3
<1> QED
  BY <1>3, <1>4

\* The chunk with number n, or nothing.
ChunkAt(chunks, n) == IF n \in DOMAIN chunks THEN chunks[n] ELSE <<>>

\* The loop of reassemble_chunks goes through the states g lists.
LEMMA ReassembleLoop ==
    ASSUME NEW chunks, NEW g, g[0] = <<>>,
           \A n \in Nat : g[n + 1] = g[n] \o ChunkAt(chunks, n),
           NEW m \in Nat, m = Max({0} \union {seq + 1 : seq \in DOMAIN chunks})
    PROVE  Reassemble(chunks) = g[m]
<1> DEFINE result[n \in Nat] ==
            IF n = 0 THEN <<>>
            ELSE result[n - 1] \o (IF n - 1 \in DOMAIN chunks THEN chunks[n - 1] ELSE <<>>)
<1> DEFINE h == [n \in Nat |-> g[n]]
<1>0. h = [n \in Nat |->
            IF n = 0 THEN <<>>
            ELSE h[n - 1] \o (IF n - 1 \in DOMAIN chunks THEN chunks[n - 1] ELSE <<>>)]
  <2>1. ASSUME NEW n \in Nat, n # 0
        PROVE  h[n] = h[n - 1] \o ChunkAt(chunks, n - 1)
    <3>1. n - 1 \in Nat /\ (n - 1) + 1 = n
      BY <2>1
    <3> QED
      BY <3>1
  <2> QED
    BY <2>1 DEF ChunkAt
<1> HIDE DEF h
<1>1. result = [n \in Nat |->
            IF n = 0 THEN <<>>
            ELSE result[n - 1] \o (IF n - 1 \in DOMAIN chunks THEN chunks[n - 1] ELSE <<>>)]
  BY <1>0 DEF result
<1>2. Reassemble(chunks) = result[m]
  BY DEF Reassemble
<1> HIDE DEF result
<1> DEFINE T == {n \in Nat : result[n] = g[n]}
<1>3. 0 \in T
  BY <1>1
<1>4. ASSUME NEW n \in Nat, n \in T PROVE n + 1 \in T
  <2>1. n + 1 \in Nat /\ n + 1 # 0 /\ (n + 1) - 1 = n
    OBVIOUS
  <2>2. result[n + 1] = result[n] \o ChunkAt(chunks, n)
    BY <1>1, <2>1, Zenon DEF ChunkAt
  <2>3. result[n] = g[n]
    BY <1>4
  <2> QED
    BY <2>1, <2>2, <2>3
<1> HIDE DEF T
<1>5. Nat \subseteq T
  BY <1>3, <1>4, SetInduction
<1> QED
  BY <1>2, <1>5 DEF T

\* A product of naturals is one, and grows by a factor at a time.
LEMMA Products ==
    ASSUME NEW n \in Nat, NEW size \in Nat \ {0}
    PROVE  n * size \in Nat /\ (n + 1) * size = n * size + size /\ n <= n * size
OBVIOUS

\* What chunk_data cuts, reassemble_chunks puts together again, for every
\* content and every size of the chunks (chunking.py).
THEOREM ChunksRejoin ==
    ASSUME NEW S, NEW data \in Seq(S), NEW size \in Nat \ {0}
    PROVE  Reassemble(ChunkData(data, size)) = data
<1> DEFINE len == Len(data)
           C == ChunkData(data, size)
           D == {q \in 0 .. len : q * size < len}
           cut(n) == IF n * size < len THEN n * size ELSE len
           g == [n \in Nat |-> SubSeq(data, 1, cut(n))]
<1>1. len \in Nat /\ \A n \in Nat : cut(n) \in 0 .. len
  BY LenProperties, Products
<1>2. \A n \in Nat : n \in D <=> n * size < len
  BY <1>1, Products
<1>3. DOMAIN C = D /\ \A q \in D : C[q] = SubSeq(data, q * size + 1, cut(q + 1))
  <2>1. ASSUME NEW q \in D PROVE Min({(q + 1) * size, len}) = cut(q + 1)
    <3>1. (q + 1) * size \in Nat
      BY <1>1, Products
    <3> QED
      BY <1>1, <3>1 DEF Min
  <2> QED
    BY <2>1 DEF ChunkData
<1>4. ASSUME NEW n \in Nat PROVE g[n + 1] = g[n] \o ChunkAt(C, n)
  <2>1. n + 1 \in Nat /\ cut(n) <= cut(n + 1) /\ cut(n) \in 0 .. len /\ cut(n + 1) \in 0 .. len
    BY <1>1, Products
  <2>2. CASE n \in D
    <3>1. cut(n) = n * size
      BY <1>2, <2>2
    <3>2. ChunkAt(C, n) = SubSeq(data, cut(n) + 1, cut(n + 1))
      BY <1>3, <2>2, <3>1 DEF ChunkAt
    <3> HIDE DEF cut, C, D, len
    <3>3. SubSeq(data, 1, cut(n)) \o SubSeq(data, cut(n) + 1, cut(n + 1)) = SubSeq(data, 1, cut(n + 1))
      <4>1. 1 \in 1 .. Len(data) + 1 /\ cut(n) \in 1 - 1 .. Len(data) /\ cut(n + 1) \in cut(n) .. Len(data)
        BY <2>1 DEF len
      <4> QED
        BY <4>1, ConcatAdjacentSubSeq
    <3> QED
      BY <2>1, <3>2, <3>3
  <2>3. CASE n \notin D
    <3>1. cut(n) = len /\ cut(n + 1) = len
      <4>1. n * size \in Nat /\ (n + 1) * size = n * size + size /\ ~(n * size < len)
        BY <1>2, <2>3, Products
      <4> QED
        BY <1>1, <4>1
    <3>2. ChunkAt(C, n) = <<>> /\ g[n] = data /\ g[n + 1] = data
      BY <1>3, <2>1, <2>3, <3>1, SubSeqFull DEF ChunkAt
    <3> HIDE DEF g, C
    <3> QED
      BY <3>2, ConcatEmptySeq
  <2> QED
    BY <2>2, <2>3
<1>5. g[0] = <<>>
  <2>1. cut(0) = 0
    BY <1>1
  <2> QED
    BY <2>1, SubSeqEmpty
<1>6. \E m \in Nat : m = Max({0} \union {seq + 1 : seq \in DOMAIN C}) /\ m * size >= len
  <2> DEFINE big == {n \in Nat : n * size >= len}
             ends == {0} \union {seq + 1 : seq \in DOMAIN C}
  <2>1. len \in big
    BY <1>1, Products
  <2>2. PICK m \in big : \A n \in big : n >= m
    <3>1. IsWellFoundedOn(Less, Nat)
      BY NatLessThanWellFounded DEF OpToRel, Less
    <3>2. PICK m \in big : \A n \in big : ~(<<n, m>> \in Less)
      BY <2>1, <3>1, WFMin
    <3>3. \A n \in big : n \in Nat
      OBVIOUS
    <3> HIDE DEF big
    <3>4. \A n \in big : ~(n < m)
      BY <3>2, <3>3 DEF Less
    <3> QED
      BY <3>2, <3>3, <3>4
  <2>3. ASSUME NEW q \in D PROVE q + 1 \in Nat /\ q + 1 <= m
    <3>1. ~(q >= m)
      <4>1. q \in Nat /\ m \in Nat /\ m * size >= len /\ ~(q * size >= len)
        BY <1>1, <2>2, <2>3, Products
      <4>2. ASSUME NEW d \in Nat, q = m + d PROVE FALSE
        <5>1. d * size \in Nat /\ m * size \in Nat /\ (m + d) * size = m * size + d * size
          BY <2>2, Products
        <5> QED
          BY <1>1, <4>1, <4>2, <5>1
      <4>3. q >= m => q - m \in Nat /\ q = m + (q - m)
        BY <4>1
      <4> QED
        BY <4>2, <4>3
    <3> QED
      BY <1>1, <2>2, <3>1
  <2>4. m \in ends
    <3>1. CASE m # 0
      <4>1. m - 1 \in Nat /\ m - 1 \notin big /\ (m - 1) + 1 = m
        BY <2>2, <3>1
      <4>2. m - 1 \in D
        <5>1. (m - 1) * size \in Nat
          BY <4>1, Products
        <5>2. (m - 1) * size < len
          BY <1>1, <4>1, <5>1
        <5> QED
          BY <1>2, <4>1, <5>2
      <4>3. m - 1 \in DOMAIN C
        BY <1>3, <4>2
      <4> HIDE DEF C, D
      <4> QED
        BY <4>1, <4>3
    <3> QED
      BY <3>1
  <2>5. \A e \in ends : e \in Nat /\ e <= m
    BY <1>3, <2>2, <2>3
  <2> HIDE DEF ends
  <2>6. m = Max(ends)
    <3>1. m \in ends /\ \A e \in ends : m >= e
      BY <2>2, <2>4, <2>5
    <3>2. \A x \in ends : (\A y \in ends : x >= y) => x = m
      BY <2>4, <2>5
    <3> QED
      BY <3>1, <3>2 DEF Max
  <2> QED
    BY <2>2, <2>6 DEF ends
<1>7. PICK m \in Nat : m = Max({0} \union {seq + 1 : seq \in DOMAIN C}) /\ m * size >= len
  BY <1>6
<1>8. g[m] = data
  BY <1>7, SubSeqFull
<1> HIDE DEF g, C
<1> QED
  BY <1>4, <1>5, <1>7, <1>8, ReassembleLoop DEF C

-----------------------------------------------------------------------------
(* Topics.                                                                 *)

\* The first segments of a topic.
LEMMA Beginning ==
    ASSUME NEW S, NEW s \in Seq(S), NEW t \in Seq(S), Len(t) \in {3, 4}, Len(t) <= Len(s)
    PROVE  SubSeq(s, 1, Len(t)) = t <=> s[1] = t[1] /\ s[2] = t[2] /\ s[3] = t[3] /\ (Len(t) = 4 => s[4] = t[4])
<1> DEFINE b == SubSeq(s, 1, Len(t))
<1>1. b \in Seq(S) /\ Len(b) = Len(t) /\ \A i \in 1 .. Len(t) : b[i] = s[i]
  OBVIOUS
<1>2. ASSUME s[1] = t[1], s[2] = t[2], s[3] = t[3], Len(t) = 4 => s[4] = t[4] PROVE b = t
  <2>1. \A i \in 1 .. Len(t) : i = 1 \/ i = 2 \/ i = 3 \/ (i = 4 /\ Len(t) = 4)
    <3>1. \A i \in 1 .. 3 : i = 1 \/ i = 2 \/ i = 3
      OBVIOUS
    <3>2. \A i \in 1 .. 4 : i = 1 \/ i = 2 \/ i = 3 \/ i = 4
      OBVIOUS
    <3> QED
      BY <3>1, <3>2
  <2>2. \A i \in 1 .. Len(t) : b[i] = t[i]
    BY <1>1, <1>2, <2>1
  <2> HIDE DEF b
  <2> QED
    BY <1>1, <2>2, SeqEqual
<1>3. ASSUME b = t PROVE s[1] = t[1] /\ s[2] = t[2] /\ s[3] = t[3] /\ (Len(t) = 4 => s[4] = t[4])
  <2>1. 1 \in 1 .. Len(t) /\ 2 \in 1 .. Len(t) /\ 3 \in 1 .. Len(t) /\ (Len(t) = 4 => 4 \in 1 .. Len(t))
    OBVIOUS
  <2> HIDE DEF b
  <2> QED
    BY <1>1, <1>3, <2>1
<1> QED
  BY <1>2, <1>3

\* A topic of the server's, or of a client's, segment by segment.
LEMMA Segments ==
    ASSUME NEW S, NEW t \in Seq(S), NEW side \in {FromServer, FromClient}
    PROVE  /\ Len(side \o t) = Len(t) + 3
           /\ (side \o t)[1] = "mcgo" /\ (side \o t)[2] = "v1"
           /\ (side \o t)[3] = IF side = FromServer THEN "server" ELSE "client"
           /\ \A i \in 1 .. Len(t) : (side \o t)[i + 3] = t[i]
           /\ SubSeq(side \o t, 1, 3) = side
           /\ side \o t \in Seq(S \union {"mcgo", "v1", "server", "client"})
<1> DEFINE U == S \union {"mcgo", "v1", "server", "client"}
<1>1. FromServer \in Seq(U) /\ FromClient \in Seq(U) /\ Len(FromServer) = 3 /\ Len(FromClient) = 3
  <2>1. {"mcgo", "v1", "server", "client"} \subseteq U
    OBVIOUS
  <2> HIDE DEF U
  <2> QED
    BY <2>1 DEF FromServer, FromClient
<1>2. side \in Seq(U) /\ t \in Seq(U) /\ Len(side) = 3 
  BY <1>1
<1>3. FromServer # FromClient
  BY DEF FromServer, FromClient
<1>4. side[1] = "mcgo" /\ side[2] = "v1" /\ side[3] = IF side = FromServer THEN "server" ELSE "client"
  BY <1>3 DEF FromServer, FromClient
<1>5. /\ side \o t \in Seq(U) /\ Len(side \o t) = Len(t) + 3
      /\ \A i \in 1 .. 3 : (side \o t)[i] = side[i]
      /\ \A i \in 1 .. Len(t) : (side \o t)[i + 3] = t[i]
  <2> HIDE DEF U
  <2>1. /\ side \o t \in Seq(U) /\ Len(side \o t) = Len(side) + Len(t)
        /\ \A i \in 1 .. Len(side) + Len(t) : (side \o t)[i] =
                IF i <= Len(side) THEN side[i] ELSE t[i - Len(side)]
    BY <1>2, ConcatProperties, Zenon
  <2>2. Len(t) \in Nat
    BY <1>2
  <2> QED
    BY <1>2, <2>1, <2>2
<1>6. SubSeq(side \o t, 1, 3) = side
  <2> DEFINE w == side \o t
  <2>1. w \in Seq(U) /\ 3 <= Len(w) /\ w[1] = side[1] /\ w[2] = side[2] /\ w[3] = side[3]
    BY <1>5
  <2> HIDE DEF w
  <2> QED
    BY <1>2, <2>1, Beginning DEF w
<1> QED
  BY <1>4, <1>5, <1>6

\* A topic of the server's with the segments u after the common ones.
LEMMA ServerTopic ==
    ASSUME NEW S, NEW u \in Seq(S), Len(u) >= 1, NEW t, t = FromServer \o u
    PROVE  /\ Len(t) = Len(u) + 3
           /\ t[2] = "v1" /\ t[3] = "server" /\ t[4] = u[1]
           /\ Len(u) >= 2 => t[5] = u[2]
           /\ Len(u) >= 3 => t[6] = u[3]
           /\ Len(u) >= 4 => t[7] = u[4]
           /\ SubSeq(t, 1, 3) = FromServer
           /\ HasFileId(t) <=> Len(u) >= 2 /\ u[1] = "file"
<1> DEFINE U == S \union {"mcgo", "v1", "server", "client", "file"}
           file == FromServer \o <<"file">>
<1>1. u \in Seq(U) /\ FromServer \in Seq(U) /\ <<"file">> \in Seq(U) /\ Len(u) \in Nat
  BY DEF FromServer
<1>2. file \in Seq(U) /\ Len(file) = 4 /\ file[1] = "mcgo" /\ file[2] = "v1" /\ file[3] = "server" /\ file[4] = "file"
  BY DEF FromServer
<1>3. /\ Len(t) = Len(u) + 3 /\ t[1] = "mcgo" /\ t[2] = "v1" /\ t[3] = "server"
      /\ \A i \in 1 .. Len(u) : t[i + 3] = u[i]
      /\ SubSeq(t, 1, 3) = FromServer
  BY Segments
<1>4. t \in Seq(U)
  BY <1>1, ConcatProperties
<1>5. 1 \in 1 .. Len(u) /\ t[4] = u[1]
  <2>1. 1 \in 1 .. Len(u) /\ 1 + 3 = 4
    BY <1>1
  <2> QED
    BY <1>3, <2>1
<1>8. ASSUME NEW i \in 2 .. 4, Len(u) >= i PROVE t[i + 3] = u[i]
  BY <1>1, <1>3, <1>8
<1>9. /\ Len(u) >= 2 => t[5] = u[2]
      /\ Len(u) >= 3 => t[6] = u[3]
      /\ Len(u) >= 4 => t[7] = u[4]
  <2>1. 2 \in 2 .. 4 /\ 3 \in 2 .. 4 /\ 4 \in 2 .. 4 /\ 2 + 3 = 5 /\ 3 + 3 = 6 /\ 4 + 3 = 7
    OBVIOUS
  <2> QED
    BY <1>8, <2>1
<1> HIDE DEF file, U
<1>6. SubSeq(t, 1, 4) = file <=> u[1] = "file"
  BY <1>1, <1>2, <1>3, <1>4, <1>5, Beginning
<1>7. HasFileId(t) <=> Len(u) >= 2 /\ u[1] = "file"
  BY <1>1, <1>3, <1>6 DEF HasFileId, file
<1> QED
  BY <1>3, <1>5, <1>7, <1>9

\* The topics, segment by segment.
LEMMA FileTopicIs ==
    ASSUME NEW a, NEW b, NEW t, t = FileTopic(a, b)
    PROVE  /\ Len(t) = 6 /\ t[2] = "v1" /\ t[3] = "server" /\ t[4] = "file" /\ t[5] = a /\ t[6] = b
           /\ SubSeq(t, 1, 3) = FromServer /\ HasFileId(t)
<1> DEFINE u == <<"file", a, b>>
           U == {"file", a, b}
<1>1. u \in Seq(U) /\ Len(u) = 3 /\ u[1] = "file" /\ u[2] = a /\ u[3] = b
  OBVIOUS
<1>2. t = FromServer \o u
  BY DEF FileTopic
<1> HIDE DEF u, U
<1>3. Len(u) >= 1
  BY <1>1
<1>4. /\ Len(t) = Len(u) + 3
      /\ t[2] = "v1" /\ t[3] = "server" /\ t[4] = u[1]
      /\ Len(u) >= 2 => t[5] = u[2]
      /\ Len(u) >= 3 => t[6] = u[3]
      /\ Len(u) >= 4 => t[7] = u[4]
      /\ SubSeq(t, 1, 3) = FromServer
      /\ HasFileId(t) <=> Len(u) >= 2 /\ u[1] = "file"
  BY <1>1, <1>2, <1>3, ServerTopic, Zenon
<1> QED
  BY <1>1, <1>4

LEMMA ChunkTopicIs ==
    ASSUME NEW a, NEW b, NEW t, t = ChunkTopic(a, b)
    PROVE  /\ Len(t) = 7 /\ t[2] = "v1" /\ t[3] = "server" /\ t[4] = "file" /\ t[5] = a
           /\ t[6] = "chunk" /\ t[7] = b
           /\ SubSeq(t, 1, 3) = FromServer /\ HasFileId(t)
<1> DEFINE u == <<"file", a, "chunk", b>>
           U == {"file", a, "chunk", b}
<1>1. /\ u \in Seq(U) /\ Len(u) = 4
      /\ u[1] = "file" /\ u[2] = a /\ u[3] = "chunk" /\ u[4] = b
  OBVIOUS
<1>2. t = FromServer \o u
  BY DEF ChunkTopic
<1> HIDE DEF u, U
<1>3. Len(u) >= 1
  BY <1>1
<1>4. /\ Len(t) = Len(u) + 3
      /\ t[2] = "v1" /\ t[3] = "server" /\ t[4] = u[1]
      /\ Len(u) >= 2 => t[5] = u[2]
      /\ Len(u) >= 3 => t[6] = u[3]
      /\ Len(u) >= 4 => t[7] = u[4]
      /\ SubSeq(t, 1, 3) = FromServer
      /\ HasFileId(t) <=> Len(u) >= 2 /\ u[1] = "file"
  BY <1>1, <1>2, <1>3, ServerTopic, Zenon
<1> QED
  BY <1>1, <1>4

LEMMA AuthTopicIs ==
    ASSUME NEW id, NEW kind \in {"challenge", "auth_result"}, NEW t,
           kind = "challenge" => t = ChallengeTopic(<<id>>),
           kind = "auth_result" => t = AuthResultTopic(<<id>>)
    PROVE  /\ Len(t) = 5 /\ t[2] = "v1" /\ t[3] = "server" /\ t[4] = kind /\ t[5] = id
           /\ SubSeq(t, 1, 3) = FromServer /\ ~HasFileId(t)
<1> DEFINE u == <<kind>> \o <<id>>
           U == {"challenge", "auth_result", id}
<1>1. <<kind>> \in Seq(U) /\ <<id>> \in Seq(U)
  OBVIOUS
<1>2. u \in Seq(U) /\ Len(u) = 2 /\ u[1] = kind /\ u[2] = id
  OBVIOUS
<1>3. FromServer \in Seq({"mcgo", "v1", "server"})
  BY DEF FromServer
<1>4. t = (FromServer \o <<kind>>) \o <<id>>
  BY DEF ChallengeTopic, AuthResultTopic
<1>5. t = FromServer \o u
  <2> DEFINE V == U \union {"mcgo", "v1", "server"}
  <2>1. FromServer \in Seq(V) /\ <<kind>> \in Seq(V) /\ <<id>> \in Seq(V)
    BY <1>1, <1>3
  <2> HIDE DEF V
  <2> QED
    BY <1>4, <2>1, ConcatAssociative
<1>6. u[1] # "file"
  BY <1>2
<1> HIDE DEF u, U
<1>7. Len(u) >= 1
  BY <1>2
<1>8. /\ Len(t) = Len(u) + 3
      /\ t[2] = "v1" /\ t[3] = "server" /\ t[4] = u[1]
      /\ Len(u) >= 2 => t[5] = u[2]
      /\ Len(u) >= 3 => t[6] = u[3]
      /\ Len(u) >= 4 => t[7] = u[4]
      /\ SubSeq(t, 1, 3) = FromServer
      /\ HasFileId(t) <=> Len(u) >= 2 /\ u[1] = "file"
  BY <1>2, <1>5, <1>7, ServerTopic, Zenon
<1> QED
  BY <1>2, <1>6, <1>8

LEMMA TreeTopicIs == Len(TreeTopic) = 4
BY DEF TreeTopic, FromServer

\* The dispatcher takes the first kind whose test the topic passes.
LEMMA FirstTest ==
    ASSUME NEW topic, NEW n \in 1 .. 7, Test(topic, Kinds[n]),
           \A j \in 1 .. 7 : j < n => ~Test(topic, Kinds[j]),
           Len(topic) >= 4, SubSeq(topic, 1, 3) = FromServer,
           n \in 2 .. 5 => HasFileId(topic)
    PROVE  Handler(topic) = Kinds[n]
<1> DEFINE passed == {k \in DOMAIN Kinds : Test(topic, Kinds[k])}
<1>1. DOMAIN Kinds = 1 .. 7
  BY DEF Kinds
<1>2. n \in passed /\ \A j \in passed : n <= j
  BY <1>1
<1>3. (CHOOSE k \in passed : \A j \in passed : k <= j) = n
  BY <1>1, <1>2
<1>4. Kinds[n] \in {"done", "abort", "chunk", "meta"} => n \in 2 .. 5
  BY DEF Kinds
<1>5. passed # {} /\ ~(Len(topic) < 4) /\ ~(SubSeq(topic, 1, 3) # FromServer)
  BY <1>2
<1>6. ~(Kinds[n] \in {"done", "abort", "chunk", "meta"} /\ ~HasFileId(topic))
  BY <1>4
<1> QED
  BY <1>3, <1>5, <1>6, Zenon DEF Handler

\* A message about a file is taken for what its builder meant, whatever the
\* file's id; only the meta of a file with the id "chunk" would not be
\* (protocol.py, client.py:218-254).
THEOREM FileTopicsRouted ==
    ASSUME NEW fid, NEW seq \in Numbers, NEW kind \in {"done", "abort", "meta"}
    PROVE  /\ Handler(ChunkTopic(fid, Decimal[seq])) = "chunk"
           /\ FileId(ChunkTopic(fid, Decimal[seq])) = fid
           /\ ChunkSeq(ChunkTopic(fid, Decimal[seq])) = seq
           /\ kind # "meta" \/ fid # "chunk" => Handler(FileTopic(fid, kind)) = kind
           /\ FileId(FileTopic(fid, kind)) = fid
<1> DEFINE ct == ChunkTopic(fid, Decimal[seq])
           ft == FileTopic(fid, kind)
<1>1. /\ Len(ct) = 7 /\ ct[5] = fid /\ ct[6] = "chunk" /\ ct[7] = Decimal[seq]
      /\ SubSeq(ct, 1, 3) = FromServer /\ HasFileId(ct)
      /\ Len(ft) = 6 /\ ft[5] = fid /\ ft[6] = kind
      /\ ft[2] = "v1" /\ ft[3] = "server" /\ ft[4] = "file"
      /\ SubSeq(ft, 1, 3) = FromServer /\ HasFileId(ft)
      /\ Len(TreeTopic) = 4
  BY ChunkTopicIs, FileTopicIs, TreeTopicIs
<1> HIDE DEF ct, ft
<1>2. Kinds = <<"tree", "done", "abort", "chunk", "meta", "challenge", "auth_result">>
  BY DEF Kinds
<1>3. Decimal[seq] \notin Words
  BY DecimalAssumption
<1>4. Handler(ct) = "chunk"
  <2>2. Test(ct, "chunk")
    <3>1. 6 \in 2 .. Len(ct) - 1 /\ ct[6] = "chunk"
      BY <1>1
    <3> QED
      BY <3>1 DEF Test, Holds
  <2>3. ~Test(ct, "tree") /\ ~Test(ct, "done") /\ ~Test(ct, "abort")
    BY <1>1, <1>3 DEF Test, EndsWith, Words
  <2>4. \A j \in 1 .. 7 : j < 4 => ~Test(ct, Kinds[j])
    BY <1>2, <2>3
  <2> QED
    BY <1>2, <1>1, <2>2, <2>4, FirstTest
<1>5. ASSUME kind # "meta" \/ fid # "chunk" PROVE Handler(ft) = kind
  <2>2. ~Test(ft, "tree") /\ (Test(ft, "done") <=> kind = "done") /\ (Test(ft, "abort") <=> kind = "abort")
    BY <1>1 DEF Test, EndsWith
  <2>3. CASE kind = "done"
    <3>1. \A j \in 1 .. 7 : j < 2 => ~Test(ft, Kinds[j])
      BY <1>2, <2>2
    <3>2. 2 \in 1 .. 7 /\ Kinds[2] = kind /\ Test(ft, Kinds[2]) /\ Len(ft) >= 4
      BY <1>1, <1>2, <2>2, <2>3
    <3>3. Handler(ft) = Kinds[2]
      BY <1>1, <3>1, <3>2, FirstTest
    <3> QED
      BY <3>2, <3>3
  <2>4. CASE kind = "abort"
    <3>1. \A j \in 1 .. 7 : j < 3 => ~Test(ft, Kinds[j])
      BY <1>2, <2>2, <2>4
    <3>2. 3 \in 1 .. 7 /\ Kinds[3] = kind /\ Test(ft, Kinds[3]) /\ Len(ft) >= 4
      BY <1>1, <1>2, <2>2, <2>4
    <3>3. Handler(ft) = Kinds[3]
      BY <1>1, <3>1, <3>2, FirstTest
    <3> QED
      BY <3>2, <3>3
  <2>5. CASE kind = "meta"
    <3>1. ~Test(ft, "chunk") /\ Test(ft, "meta")
      <4>1. \A i \in 2 .. Len(ft) - 1 : i = 2 \/ i = 3 \/ i = 4 \/ i = 5
        BY <1>1
      <4> QED
        BY <1>1, <1>5, <2>5, <4>1 DEF Test, Holds, EndsWith
    <3>2. \A j \in 1 .. 7 : j < 5 => ~Test(ft, Kinds[j])
      BY <1>2, <2>2, <2>5, <3>1
    <3>3. 5 \in 1 .. 7 /\ Kinds[5] = kind /\ Test(ft, Kinds[5]) /\ Len(ft) >= 4
      BY <1>1, <1>2, <2>5, <3>1
    <3>4. Handler(ft) = Kinds[5]
      BY <1>1, <3>2, <3>3, FirstTest
    <3> QED
      BY <3>3, <3>4
  <2> QED
    BY <2>3, <2>4, <2>5
<1>6. FileId(ct) = fid /\ FileId(ft) = fid
  BY <1>1 DEF FileId
<1>7. ChunkSeq(ct) = seq
  BY <1>1, DecimalAssumption DEF ChunkSeq, IsInjective
<1> QED
  BY <1>4, <1>5, <1>6, <1>7 DEF ct, ft

\* The end of an authentication is taken for nothing else, and missed only
\* by a client whose id ends the topic of another message.
THEOREM AuthTopicsRouted ==
    ASSUME NEW id
    PROVE  /\ Handler(ChallengeTopic(<<id>>)) \in {"challenge", "none"}
           /\ Handler(AuthResultTopic(<<id>>)) \in {"auth_result", "none"}
           /\ id \notin {"done", "abort", "meta"} =>
                /\ Handler(ChallengeTopic(<<id>>)) = "challenge"
                /\ Handler(AuthResultTopic(<<id>>)) = "auth_result"
<1> DEFINE ct == ChallengeTopic(<<id>>)
           rt == AuthResultTopic(<<id>>)
<1>1. /\ Len(ct) = 5 /\ ct[2] = "v1" /\ ct[3] = "server" /\ ct[4] = "challenge" /\ ct[5] = id
      /\ SubSeq(ct, 1, 3) = FromServer /\ ~HasFileId(ct)
  BY AuthTopicIs
<1>0. /\ Len(rt) = 5 /\ rt[2] = "v1" /\ rt[3] = "server" /\ rt[4] = "auth_result" /\ rt[5] = id
      /\ SubSeq(rt, 1, 3) = FromServer /\ ~HasFileId(rt) /\ Len(TreeTopic) = 4
  BY AuthTopicIs, TreeTopicIs
<1> HIDE DEF ct, rt
<1>2. Kinds = <<"tree", "done", "abort", "chunk", "meta", "challenge", "auth_result">>
  BY DEF Kinds
<1>3. ~HasFileId(ct) /\ ~HasFileId(rt)
  BY <1>0, <1>1 DEF HasFileId
<1>4. /\ ~Test(ct, "tree") /\ ~Test(ct, "chunk") /\ Test(ct, "challenge") /\ ~Test(ct, "auth_result")
      /\ ~Test(rt, "tree") /\ ~Test(rt, "chunk") /\ ~Test(rt, "challenge") /\ Test(rt, "auth_result")
  <2>1. 4 \in 2 .. Len(ct) - 1 /\ 4 \in 2 .. Len(rt) - 1
    BY <1>0, <1>1
  <2>2. \A k \in {"chunk", "challenge", "auth_result"} :
          (Holds(ct, k) <=> k = "challenge") /\ (Holds(rt, k) <=> k = "auth_result")
    BY <1>0, <1>1, <2>1 DEF Holds
  <2> QED
    BY <1>0, <1>1, <2>2 DEF Test
<1>5. \A topic \in {ct, rt}, k \in {"done", "abort", "meta"} : Test(topic, k) <=> id = k
  BY <1>0, <1>1 DEF Test, EndsWith
<1>6. \A topic \in {ct, rt} : Len(topic) = 5 /\ SubSeq(topic, 1, 3) = FromServer
  BY <1>0, <1>1
<1>7. CASE id \notin {"done", "abort", "meta"}
  <2>1. \A j \in 1 .. 7 : j < 6 => ~Test(ct, Kinds[j])
    BY <1>2, <1>4, <1>5, <1>7
  <2>2. \A j \in 1 .. 7 : j < 7 => ~Test(rt, Kinds[j])
    BY <1>2, <1>4, <1>5, <1>7
  <2>5. 6 \in 1 .. 7 /\ Kinds[6] = "challenge" /\ Test(ct, Kinds[6]) /\ Len(ct) >= 4 /\ 6 \notin 2 .. 5
    BY <1>2, <1>4, <1>6
  <2>3. Handler(ct) = "challenge"
    BY <1>6, <2>1, <2>5, FirstTest
  <2>7. Kinds[7] = "auth_result" /\ 7 \in 1 .. 7 /\ 7 \notin 2 .. 5
    BY <1>2
  <2>6. 7 \in 1 .. 7 /\ Test(rt, Kinds[7]) /\ Len(rt) >= 4 /\ 7 \notin 2 .. 5
    BY <1>4, <1>6, <2>7
  <2>4. Handler(rt) = "auth_result"
    BY <1>6, <2>2, <2>6, <2>7, FirstTest
  <2> QED
    BY <1>7, <2>3, <2>4 DEF ct, rt
<1>8. ASSUME id \in {"done", "abort", "meta"}, NEW topic \in {ct, rt}
      PROVE  Handler(topic) = "none"
  <2> DEFINE passed == {k \in DOMAIN Kinds : Test(topic, Kinds[k])}
             first == CHOOSE k \in passed : \A j \in passed : k <= j
  <2>1. PICK n \in {2, 3, 5} : id = Kinds[n]
    BY <1>2, <1>8
  <2>2. \A j \in 1 .. 7 : j < n => ~Test(topic, Kinds[j])
    BY <1>2, <1>4, <1>5, <2>1
  <2>3. DOMAIN Kinds = 1 .. 7
    BY <1>2
  <2>4. n \in passed /\ \A j \in passed : n <= j
    BY <1>2, <1>5, <2>1, <2>2, <2>3
  <2>5. first = n
    BY <2>3, <2>4
  <2>6. Kinds[first] \in {"done", "abort", "chunk", "meta"} /\ ~HasFileId(topic)
    BY <1>3, <1>8, <2>1, <2>5
  <2> QED
    BY <2>6 DEF Handler
<1> QED
  BY <1>7, <1>8 DEF ct, rt

\* A client's topic.
LEMMA ClientTopicIs ==
    ASSUME NEW S, NEW id \in Seq(S), NEW action,
           NEW t, t = ClientTopic(id, action)
    PROVE  /\ Len(t) = Len(id) + 4 /\ t[1] = "mcgo" /\ t[2] = "v1" /\ t[3] = "client"
           /\ Len(id) = 1 => Len(t) = 5 /\ t[4] = id[1] /\ t[5] = action
           /\ SubSeq(t, 1, 3) = FromClient
<1> DEFINE U == S \union {action}
           V == U \union {"mcgo", "v1", "client"}
           u == id \o <<action>>
<1>1. id \in Seq(U) /\ <<action>> \in Seq(U) /\ Len(id) \in Nat
  OBVIOUS
<1>2. u \in Seq(U) /\ Len(u) = Len(id) + 1 /\ (Len(id) = 1 => u[1] = id[1] /\ u[2] = action)
  <2>1. /\ u \in Seq(U) /\ Len(u) = Len(id) + Len(<<action>>)
        /\ \A i \in 1 .. Len(id) + Len(<<action>>) :
             u[i] = IF i <= Len(id) THEN id[i] ELSE <<action>>[i - Len(id)]
    BY <1>1, ConcatProperties, Zenon
  <2> HIDE DEF u
  <2> QED
    BY <1>1, <2>1
<1>3. t = FromClient \o u
  <2>1. FromClient \in Seq(V) /\ id \in Seq(V) /\ <<action>> \in Seq(V)
    BY DEF FromClient
  <2> HIDE DEF V
  <2> QED
    BY <2>1, ConcatAssociative DEF ClientTopic
<1>4. FromServer # FromClient
  BY DEF FromServer, FromClient
<1> HIDE DEF u, U
<1>5. /\ Len(t) = Len(u) + 3
      /\ t[1] = "mcgo" /\ t[2] = "v1" /\ t[3] = "client"
      /\ \A i \in 1 .. Len(u) : t[i + 3] = u[i]
      /\ SubSeq(t, 1, 3) = FromClient
  <2>1. FromClient \in {FromServer, FromClient}
    OBVIOUS
  <2>2. /\ Len(FromClient \o u) = Len(u) + 3
        /\ (FromClient \o u)[1] = "mcgo" /\ (FromClient \o u)[2] = "v1"
        /\ (FromClient \o u)[3] = IF FromClient = FromServer THEN "server" ELSE "client"
        /\ \A i \in 1 .. Len(u) : (FromClient \o u)[i + 3] = u[i]
        /\ SubSeq(FromClient \o u, 1, 3) = FromClient
    BY <1>2, <2>1, Segments, Zenon
  <2> QED
    BY <1>3, <1>4, <2>2
<1>6. ASSUME Len(id) = 1 PROVE t[4] = id[1] /\ t[5] = action
  <2>1. 1 \in 1 .. Len(u) /\ 2 \in 1 .. Len(u) /\ 1 + 3 = 4 /\ 2 + 3 = 5
    BY <1>2, <1>6
  <2> QED
    BY <1>2, <1>5, <1>6, <2>1
<1>7. Len(t) = Len(id) + 4 /\ (Len(id) = 1 => Len(t) = 5)
  <2>1. Len(t) = Len(u) + 3
    BY <1>5
  <2>2. Len(u) = Len(id) + 1
    BY <1>2
  <2>3. \A n \in Nat : (n + 1) + 3 = n + 4 /\ 1 + 4 = 5
    OBVIOUS
  <2>4. Len(id) \in Nat
    BY <1>1
  <2> QED
    BY <2>1, <2>2, <2>3, <2>4
<1> QED
  BY <1>5, <1>6, <1>7

\* A sequence of one segment.
LEMMA OneSegment ==
    ASSUME NEW S, NEW id \in Seq(S), Len(id) = 1
    PROVE  id = <<id[1]>>
OBVIOUS

\* A topic of the server's that names a client.
LEMMA ServerTopicThird ==
    ASSUME NEW S, NEW id \in Seq(S), NEW word
    PROVE  /\ (FromServer \o <<word>> \o id)[3] = "server"
           /\ Len(FromServer \o <<word>> \o id) = 4 + Len(id)
<1> DEFINE U == S \union {word, "mcgo", "v1", "server"}
           s == FromServer \o <<word>>
<1>1. s \in Seq(U) /\ Len(s) = 4 /\ s[3] = "server" /\ id \in Seq(U) /\ Len(id) \in Nat
  BY DEF FromServer
<1> HIDE DEF s, U
<1>2. /\ s \o id \in Seq(U) /\ Len(s \o id) = Len(s) + Len(id)
      /\ \A i \in 1 .. Len(s) + Len(id) : (s \o id)[i] = IF i <= Len(s) THEN s[i] ELSE id[i - Len(s)]
  BY <1>1, ConcatProperties, Zenon
<1>3. 3 \in 1 .. Len(s) + Len(id)
  BY <1>1
<1> QED
  BY <1>1, <1>2, <1>3 DEF s

\* The broker passes a client's message on to the server if and only if the
\* client's id is one segment.
LEMMA ServerHears ==
    ASSUME NEW S, NEW id \in Seq(S), NEW accepted,
           NEW action \in {"hello", "auth_response", "file_request"}
    PROVE  (\E f \in ServerFilters \union ClientFilters(id, accepted) : MatchesFilter(f, ClientTopic(id, action)))
             <=> Len(id) = 1
<1> DEFINE t == ClientTopic(id, action)
           own == ClientTopic(<<"+">>, action)
<1>1. /\ Len(t) = Len(id) + 4 /\ t[1] = "mcgo" /\ t[2] = "v1" /\ t[3] = "client"
      /\ Len(id) = 1 => t[4] = id[1] /\ t[5] = action
  BY ClientTopicIs
<1>2. ASSUME NEW a PROVE
      LET f == ClientTopic(<<"+">>, a)
      IN  Len(f) = 5 /\ f[1] = "mcgo" /\ f[2] = "v1" /\ f[3] = "client" /\ f[4] = "+" /\ f[5] = a
  <2> DEFINE one == <<"+">>
             U == {"+"}
             f == ClientTopic(one, a)
  <2>1. one \in Seq(U) /\ Len(one) = 1 /\ one[1] = "+"
    OBVIOUS
  <2>2. f = ClientTopic(one, a)
    OBVIOUS
  <2> HIDE DEF one, U, f
  <2>3. Len(f) = 5
    BY <2>1, <2>2, ClientTopicIs
  <2>4. f[1] = "mcgo" /\ f[2] = "v1" /\ f[3] = "client"
    BY <2>1, <2>2, ClientTopicIs
  <2>5. f[4] = one[1] /\ f[5] = a
    BY <2>1, <2>2, ClientTopicIs
  <2> QED
    BY <2>1, <2>3, <2>4, <2>5 DEF f, one
<1>3. t \in Seq(S \union {"mcgo", "v1", "client", action})
  BY DEF ClientTopic, FromClient
<1> HIDE DEF t
<1>4. ASSUME Len(id) = 1 PROVE \E f \in ServerFilters : MatchesFilter(f, t)
  <2>1. Len(t) = 5 /\ DOMAIN t = 1 .. 5
    BY <1>1, <1>3, <1>4
  <2>2. \A i \in 1 .. 5 : own[i] \in {"+", t[i]}
    <3>1. /\ own[1] \in {"+", t[1]} /\ own[2] \in {"+", t[2]} /\ own[3] \in {"+", t[3]}
          /\ own[4] \in {"+", t[4]} /\ own[5] \in {"+", t[5]}
      BY <1>1, <1>2, <1>4
    <3>2. \A i \in 1 .. 5 : i = 1 \/ i = 2 \/ i = 3 \/ i = 4 \/ i = 5
      OBVIOUS
    <3> QED
      BY <3>1, <3>2
  <2>3. MatchesFilter(own, t)
    BY <1>2, <2>1, <2>2 DEF MatchesFilter
  <2> QED
    BY <2>3 DEF ServerFilters
<1>5. ASSUME NEW f \in ServerFilters \union ClientFilters(id, accepted), MatchesFilter(f, t)
      PROVE  Len(id) = 1
  <2>1. Len(f) = Len(t) /\ f[3] \in {"+", "client"}
    <3>1. 3 \in DOMAIN t
      BY <1>1, <1>3
    <3> QED
      BY <1>1, <1>5, <3>1 DEF MatchesFilter
  <2>2. CASE f \in ServerFilters
    <3>1. Len(f) = 5 /\ Len(id) \in Nat
      BY <1>2, <2>2 DEF ServerFilters
    <3>2. Len(t) = 5 /\ Len(t) = Len(id) + 4
      BY <1>1, <2>1, <3>1
    <3>3. \A n \in Nat : n + 4 = 5 => n = 1
      OBVIOUS
    <3>4. Len(id) + 4 = 5
      BY <3>2, Zenon
    <3> QED
      BY <3>1, <3>3, <3>4, Zenon
  <2>3. f[3] = "server" => FALSE
    BY <2>1
  <2>4. CASE f \in {ChallengeTopic(id), AuthResultTopic(id)}
    BY <2>3, <2>4, ServerTopicThird DEF ChallengeTopic, AuthResultTopic
  <2>5. CASE f = TreeTopic
    BY <2>3, <2>5 DEF TreeTopic, FromServer
  <2>6. CASE f = ChunkTopic("+", "+")
    BY <2>3, <2>6, ChunkTopicIs
  <2>7. CASE \E kind \in {"meta", "done", "abort"} : f = FileTopic("+", kind)
    BY <2>3, <2>7, FileTopicIs
  <2> QED
    BY <1>5, <2>2, <2>4, <2>5, <2>6, <2>7 DEF ClientFilters
<1> QED
  BY <1>4, <1>5 DEF t

\* An accepted client hears all that is sent about a file.
LEMMA ClientHears ==
    ASSUME NEW id, NEW fid, NEW segment, NEW kind \in {"done", "abort"}
    PROVE  /\ \E f \in ClientFilters(id, TRUE) : MatchesFilter(f, FileTopic(fid, kind))
           /\ \E f \in ClientFilters(id, TRUE) : MatchesFilter(f, ChunkTopic(fid, segment))
<1>1. MatchesFilter(FileTopic("+", kind), FileTopic(fid, kind))
  <2> DEFINE f == FileTopic("+", kind)
             t == FileTopic(fid, kind)
  <2>1. /\ Len(f) = 6 /\ f[2] = "v1" /\ f[3] = "server" /\ f[4] = "file" /\ f[5] = "+" /\ f[6] = kind
        /\ Len(t) = 6 /\ t[2] = "v1" /\ t[3] = "server" /\ t[4] = "file" /\ t[6] = kind
    BY FileTopicIs
  <2>2. f[1] = "mcgo" /\ t[1] = "mcgo" /\ DOMAIN t = 1 .. 6
    BY <2>1 DEF FileTopic, FromServer
  <2> HIDE DEF f, t
  <2>3. \A i \in 1 .. 6 : i = 1 \/ i = 2 \/ i = 3 \/ i = 4 \/ i = 5 \/ i = 6
    OBVIOUS
  <2>4. \A i \in 1 .. 6 : f[i] \in {"+", t[i]}
    BY <2>1, <2>2, <2>3
  <2> QED
    BY <2>1, <2>2, <2>4 DEF MatchesFilter, f, t
<1>2. MatchesFilter(ChunkTopic("+", "+"), ChunkTopic(fid, segment))
  <2> DEFINE f == ChunkTopic("+", "+")
             t == ChunkTopic(fid, segment)
  <2>1. /\ Len(f) = 7 /\ f[2] = "v1" /\ f[3] = "server" /\ f[4] = "file" /\ f[5] = "+" /\ f[6] = "chunk" /\ f[7] = "+"
        /\ Len(t) = 7 /\ t[2] = "v1" /\ t[3] = "server" /\ t[4] = "file" /\ t[6] = "chunk"
    BY ChunkTopicIs
  <2>2. f[1] = "mcgo" /\ t[1] = "mcgo" /\ DOMAIN t = 1 .. 7
    BY <2>1 DEF ChunkTopic, FromServer
  <2> HIDE DEF f, t
  <2>3. \A i \in 1 .. 7 : i = 1 \/ i = 2 \/ i = 3 \/ i = 4 \/ i = 5 \/ i = 6 \/ i = 7
    OBVIOUS
  <2>4. \A i \in 1 .. 7 : f[i] \in {"+", t[i]}
    BY <2>1, <2>2, <2>3
  <2> QED
    BY <2>1, <2>2, <2>4 DEF MatchesFilter, f, t
<1> QED
  BY <1>1, <1>2 DEF ClientFilters

-----------------------------------------------------------------------------
(* Seals.                                                                  *)

LEMMA SealIs ==
    ASSUME NEW S, NEW data \in Seq(S), NEW fid, NEW key
    PROVE  /\ Seal(key, fid, data) \in Seq(S \union {fid, key})
           /\ Len(Seal(key, fid, data)) = Len(data) + 2 /\ Len(data) \in Nat
           /\ Seal(key, fid, data)[1] = fid /\ Seal(key, fid, data)[Len(data) + 2] = key
           /\ Opened(Seal(key, fid, data)) = data
<1> DEFINE U == S \union {fid, key}
           seal == Seal(key, fid, data)
<1>1. data \in Seq(U) /\ <<fid>> \in Seq(U) /\ <<key>> \in Seq(U) /\ Len(data) \in Nat
  OBVIOUS
<1>2. <<fid>> \o data \in Seq(U) /\ Len(<<fid>> \o data) = 1 + Len(data)
  BY <1>1
<1>3. /\ seal \in Seq(U) /\ Len(seal) = Len(data) + 2
      /\ seal[1] = fid /\ seal[Len(seal)] = key
      /\ \A i \in 1 .. Len(data) : seal[i + 1] = data[i]
  BY <1>1, <1>2 DEF Seal
<1> HIDE DEF seal
<1>4. Opened(seal) = data
  <2>1. Opened(seal) = SubSeq(seal, 2, Len(data) + 1)
    BY <1>1, <1>3 DEF Opened
  <2>2. Len(Opened(seal)) = Len(data) /\ \A i \in 1 .. Len(data) : Opened(seal)[i] = seal[i + 1]
    BY <1>1, <1>3, <2>1
  <2> QED
    BY <1>1, <1>3, <2>1, <2>2, SeqEqual
<1> QED
  BY <1>1, <1>3, <1>4 DEF seal

\* What was sealed under a key and a file id is opened under those, and under
\* no other key (crypto.py, encrypt_data and decrypt_data).
LEMMA SealOpens ==
    ASSUME NEW S, NEW data \in Seq(S), NEW fid, NEW sealing, NEW opening
    PROVE  /\ Opens(opening, fid, Seal(sealing, fid, data)) <=> opening = sealing
           /\ Opened(Seal(sealing, fid, data)) = data
<1>1. /\ Seal(sealing, fid, data) \in Seq(S \union {fid, sealing})
      /\ Len(Seal(sealing, fid, data)) = Len(data) + 2 /\ Len(data) \in Nat
      /\ Seal(sealing, fid, data)[1] = fid /\ Seal(sealing, fid, data)[Len(data) + 2] = sealing
      /\ Opened(Seal(sealing, fid, data)) = data
  BY SealIs, Zenon
<1>2. Len(data) + 2 >= 2
  BY <1>1
<1> QED
  BY <1>1, <1>2, Zenon DEF Opens

=============================================================================
