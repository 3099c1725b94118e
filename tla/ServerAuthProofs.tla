--------------------------- MODULE ServerAuthProofs ---------------------------
(***************************************************************************)
(* Proofs about ServerAuth: its type invariant, which answers are accepted,*)
(* why an answer fails, and that the handshake keeps the promise of        *)
(* Handshake, for any clients, processes, timeout and number of hellos.    *)
(***************************************************************************)
EXTENDS ServerAuth, FiniteSetTheorems, SequenceTheorems, TLAPS

\* The entry of a client id is its newest challenge, and so is the one that
\* verify_response has read: no hello is handled while an answer is verified.
NewestIn(seq, n, c) ==
    /\ n \in 1 .. Len(seq) /\ seq[n].id = c
    /\ \A m \in 1 .. Len(seq) : seq[m].id = c => m <= n
HeldNewest == \A c \in Held : NewestIn(issued, challenges[c].nonce, c)
NetNewest == net # NoVerification => NewestIn(issued, net.read, net.id)
AcceptedIssued == accepted \subseteq 1 .. Len(issued)

IInv == TypeOK /\ HeldNewest /\ NetNewest /\ AcceptedIssued /\ AcceptedIsGone

-----------------------------------------------------------------------------
(* Types.                                                                  *)

LEMMA HeldCardinality == Cardinality(Held) \in Nat
<1>1. IsFiniteSet(Held)
  BY IdsAssumption, FS_Subset DEF Held
<1> QED
  BY <1>1, FS_CardinalityType

LEMMA AsleepIsLoop == Asleep \in Loop
BY DEF Asleep, Loop, LoopPlaces

LEMMA PublishType ==
    ASSUME TypeOK, NEW c, NEW m \in Challenge \union Result, Publish(c, m)
    PROVE  inbox' \in [Sessions -> SUBSET (Challenge \union Result)]
BY DEF TypeOK, Publish

LEMMA InitType == ASSUME Init PROVE TypeOK
<1>1. idOf \in Lineups /\ loop \in Loop
  BY AsleepIsLoop DEF Init
<1> QED
  BY <1>1 DEF Init, TypeOK

LEMMA ClientType ==
    ASSUME TypeOK, ClientStep
    PROVE  TypeOK'
<1> SUFFICES ASSUME NEW s \in Sessions,
                    \/ Connect(s)
                    \/ \E m \in inbox[s] : HandleChallenge(s, m) \/ HandleAuthResult(s, m)
             PROVE  TypeOK'
  BY DEF ClientStep
<1>1. CASE Connect(s)
  BY <1>1, SessionsAssumption DEF Connect, TypeOK
<1>2. ASSUME NEW m \in inbox[s], HandleChallenge(s, m) PROVE TypeOK'
  <2>1. m \in Challenge
    BY <1>2 DEF HandleChallenge, TypeOK, Challenge, Result
  <2>2. [from |-> s, nonce |-> m.nonce] \in Response
    BY <2>1 DEF Challenge, Response
  <2> QED
    BY <1>2, <2>2 DEF HandleChallenge, TypeOK, clientVars
<1>3. ASSUME NEW m \in inbox[s], HandleAuthResult(s, m) PROVE TypeOK'
  BY <1>3 DEF HandleAuthResult, TypeOK
<1> QED
  BY <1>1, <1>2, <1>3

LEMMA HelloType ==
    ASSUME TypeOK, NEW s \in Sessions, HandleHello(s)
    PROVE  TypeOK'
<1> DEFINE c == idOf[s]
           n == Len(issued) + 1
<1>1. c \in Ids /\ n \in Nat
  BY SessionsAssumption DEF TypeOK
<1>2. hellos' \in [Sessions -> Nat]
  BY DEF HandleHello, TypeOK
<1>3. CASE c \in Registered
  <2>1. [nonce |-> n, stamp |-> clock] \in Entry
    BY <1>1 DEF TypeOK, Entry
  <2>2. challenges' \in [Ids -> Entry \union {NoEntry}]
    BY <1>3, <2>1 DEF HandleHello, TypeOK, Store
  <2>3. issued' \in Seq([id : Ids, stamp : Nat])
    <3>1. [id |-> c, stamp |-> clock] \in [id : Ids, stamp : Nat]
      BY <1>1 DEF TypeOK
    <3>2. issued' = Append(issued, [id |-> c, stamp |-> clock])
      BY <1>3 DEF HandleHello
    <3>3. issued \in Seq([id : Ids, stamp : Nat])
      BY DEF TypeOK
    <3> HIDE DEF c
    <3> QED
      BY <3>1, <3>2, <3>3
  <2>4. [kind |-> "challenge", nonce |-> n] \in Challenge \union Result
    BY <1>1 DEF Challenge
  <2>5. inbox' \in [Sessions -> SUBSET (Challenge \union Result)]
    BY <1>3, <2>4, PublishType DEF HandleHello
  <2> QED
    BY <1>2, <2>2, <2>3, <2>5 DEF HandleHello, TypeOK
<1>4. CASE c \notin Registered
  <2>1. [kind |-> "result", nonce |-> 0, success |-> FALSE] \in Challenge \union Result
    BY DEF Result
  <2>2. inbox' \in [Sessions -> SUBSET (Challenge \union Result)]
    BY <1>4, <2>1, PublishType DEF HandleHello
  <2> QED
    BY <1>2, <1>4, <2>2 DEF HandleHello, TypeOK
<1> QED
  BY <1>3, <1>4

LEMMA ReadType ==
    ASSUME TypeOK, NEW r \in responses, ReadChallenge(r)
    PROVE  TypeOK'
<1> DEFINE c == idOf[r.from]
<1>1. r.nonce \in Nat /\ r.from \in Sessions /\ c \in Ids
  BY SessionsAssumption DEF TypeOK, Response
<1>2. CASE c \in Held
  <2>1. challenges[c].nonce \in Nat
    BY <1>1, <1>2 DEF TypeOK, Held, Entry
  <2>2. net' \in Verification
    BY <1>1, <1>2, <2>1 DEF ReadChallenge, Verification
  <2> QED
    BY <1>2, <2>2 DEF ReadChallenge, TypeOK, clientVars
<1>3. CASE c \notin Held
  <2>1. [kind |-> "result", nonce |-> r.nonce, success |-> FALSE] \in Challenge \union Result
    BY <1>1 DEF Result
  <2>2. inbox' \in [Sessions -> SUBSET (Challenge \union Result)]
    BY <1>3, <2>1, PublishType DEF ReadChallenge, Refuse
  <2> QED
    BY <1>3, <2>2 DEF ReadChallenge, TypeOK, clientVars
<1> QED
  BY <1>2, <1>3

LEMMA FinishType ==
    ASSUME TypeOK, FinishVerification
    PROVE  TypeOK'
<1>1. net \in Verification
  BY DEF FinishVerification, TypeOK
<1>2. net.id \in Ids /\ net.answer \in Nat
  BY <1>1 DEF Verification
<1>3. [kind |-> "result", nonce |-> net.answer, success |-> FALSE] \in Challenge \union Result
      /\ [kind |-> "result", nonce |-> net.answer, success |-> TRUE] \in Challenge \union Result
  BY <1>2 DEF Result
<1>4. inbox' \in [Sessions -> SUBSET (Challenge \union Result)]
  <2>1. CASE UNCHANGED inbox
    BY <2>1 DEF TypeOK
  <2>2. CASE Refuse(net.id, net.answer)
    BY <2>2, <1>3, PublishType DEF Refuse
  <2>3. CASE Publish(net.id, [kind |-> "result", nonce |-> net.answer, success |-> TRUE])
    BY <2>3, <1>3, PublishType
  <2> QED
    BY <2>1, <2>2, <2>3 DEF FinishVerification
<1>5. challenges' \in [Ids -> Entry \union {NoEntry}]
  BY <1>2 DEF FinishVerification, TypeOK, Remove
<1>6. loop' \in Loop
  BY DEF FinishVerification, TypeOK, Loop
<1>7. accepted' \in SUBSET Nat /\ unanswered' \in SUBSET Nat
  BY <1>2 DEF FinishVerification, TypeOK
<1> QED
  BY <1>4, <1>5, <1>6, <1>7 DEF FinishVerification, TypeOK, clientVars

LEMMA LoopType ==
    ASSUME TypeOK, LoopStep \/ Interrupt \/ Exit
    PROVE  TypeOK'
<1>1. CASE Wake
  <2>1. loop' \in Loop
    BY <1>1, HeldCardinality DEF Wake, Asleep, Loop, LoopPlaces, TypeOK
  <2> QED
    BY <1>1, <2>1 DEF Wake, TypeOK, loopUnchanged, clientVars
<1>2. CASE ScanNext
  <2>1. loop.left \in Nat /\ Left \in Nat
    BY DEF TypeOK, Loop, Left
  <2>2. ASSUME LoopDies PROVE loop' \in Loop
    BY <2>2 DEF LoopDies, Asleep, Loop, LoopPlaces
  <2>3. ASSUME loop' = [loop EXCEPT !.pc = "delete"] PROVE loop' \in Loop
    BY <2>3 DEF TypeOK, Loop, LoopPlaces
  <2>4. ASSUME NEW c \in Held,
               loop' = [loop EXCEPT !.seen = @ \union {c}, !.left = Left,
                          !.expired = IF Expired(c) THEN @ \union {c} ELSE @]
        PROVE  loop' \in Loop
    <3>1. c \in Ids /\ loop \in Loop
      BY DEF Held, TypeOK
    <3>2. loop.seen \union {c} \in SUBSET Ids
          /\ (IF Expired(c) THEN loop.expired \union {c} ELSE loop.expired) \in SUBSET Ids
      BY <3>1 DEF Loop
    <3> QED
      BY <2>1, <2>4, <3>1, <3>2 DEF Loop
  <2>5. loop' \in Loop
    BY <1>2, <2>2, <2>3, <2>4 DEF ScanNext
  <2> QED
    BY <1>2, <2>5 DEF ScanNext, TypeOK, loopUnchanged, clientVars
<1>3. CASE DeleteNext
  <2>1. loop' \in Loop
    BY <1>3, AsleepIsLoop DEF DeleteNext, LoopDies, Asleep, Loop, LoopPlaces, TypeOK
  <2>2. challenges' \in [Ids -> Entry \union {NoEntry}]
    BY <1>3 DEF DeleteNext, Remove, TypeOK
  <2> QED
    BY <1>3, <2>1, <2>2 DEF DeleteNext, TypeOK, loopUnchanged, clientVars
<1>4. CASE Interrupt
  <2>1. loop' \in Loop
    BY <1>4 DEF Interrupt, Asleep, Loop, LoopPlaces
  <2> QED
    BY <1>4, <2>1 DEF Interrupt, TypeOK, loopUnchanged, clientVars
<1>5. CASE Exit
  BY <1>5 DEF Exit, TypeOK, clientVars
<1> QED
  BY <1>1, <1>2, <1>3, <1>4, <1>5 DEF LoopStep

LEMMA NextType ==
    ASSUME TypeOK, [Next]_vars
    PROVE  TypeOK'
<1>1. CASE Tick
  BY <1>1 DEF Tick, TypeOK, clientVars
<1>2. CASE NetStep
  BY <1>2, HelloType, ReadType, FinishType DEF NetStep
<1>3. CASE UNCHANGED vars
  BY <1>3 DEF vars, TypeOK
<1> QED
  BY <1>1, <1>2, <1>3, ClientType, LoopType DEF Next

\* Every reachable state of the handshake has its types: the network thread
\* and the service loop never leave the dict or the iterator in another shape.
THEOREM AuthTypeCorrect == Spec => []TypeOK
BY InitType, NextType, PTL DEF Spec

-----------------------------------------------------------------------------
(* Which answers are accepted.                                             *)

\* A step that issues and accepts nothing, and at most removes entries.
LEMMA QuietStep ==
    ASSUME IInv, TypeOK', issued' = issued, accepted' = accepted,
           net' \in {net, NoVerification},
           \A c \in Ids : challenges'[c] \in {challenges[c], NoEntry}
    PROVE  IInv'
<1>1. \A c \in Held' : c \in Held /\ challenges'[c] = challenges[c]
  BY DEF Held
<1>2. HeldNewest' /\ AcceptedIsGone'
  BY <1>1 DEF IInv, HeldNewest, AcceptedIsGone
<1>3. NetNewest' /\ AcceptedIssued'
  BY DEF IInv, NetNewest, AcceptedIssued
<1> QED
  BY <1>2, <1>3 DEF IInv

\* A new challenge is the newest of its id, and no other id's.
LEMMA HelloStep ==
    ASSUME IInv, TypeOK', NEW s \in Sessions, HandleHello(s)
    PROVE  IInv'
<1> DEFINE c == idOf[s]
           n == Len(issued) + 1
<1>0. c \in Ids
  BY SessionsAssumption DEF IInv, TypeOK
<1>1. CASE c \in Registered
  <2>1. /\ challenges' = [challenges EXCEPT ![c] = [nonce |-> n, stamp |-> clock]]
        /\ issued' = Append(issued, [id |-> c, stamp |-> clock])
        /\ UNCHANGED <<net, accepted>> /\ net = NoVerification
    BY <1>1 DEF HandleHello, Store, NetIdle
  <2>2. /\ issued \in Seq([id : Ids, stamp : Nat]) /\ n \in Nat
        /\ challenges \in [Ids -> Entry \union {NoEntry}]
    BY DEF IInv, TypeOK
  <2>3. /\ Len(issued') = n /\ issued'[n].id = c
        /\ \A k \in 1 .. Len(issued) : issued'[k] = issued[k]
    BY <2>1, <2>2
  <2>4. NewestIn(issued', n, c)
    BY <2>2, <2>3 DEF NewestIn
  <2>5. ASSUME NEW d \in Ids, NEW k, NewestIn(issued, k, d), d # c
        PROVE  NewestIn(issued', k, d)
    <3> DEFINE len == Len(issued)
    <3>1. len \in Nat /\ Len(issued') = len + 1 /\ issued'[len + 1].id = c
      BY <2>2, <2>3
    <3>2. /\ k \in 1 .. len /\ issued[k].id = d
          /\ \A m \in 1 .. len : issued[m].id = d => m <= k
      BY <2>5 DEF NewestIn
    <3>3. \A m \in 1 .. len : issued'[m] = issued[m]
      BY <2>3
    <3>4. ASSUME NEW m \in 1 .. len + 1, issued'[m].id = d
          PROVE  m <= k
      <4>1. m # len + 1
        BY <2>5, <3>1, <3>4
      <4>2. m \in 1 .. len
        BY <3>1, <4>1
      <4> QED
        BY <3>2, <3>3, <3>4, <4>2
    <3>5. k \in 1 .. len + 1 /\ issued'[k].id = d
      BY <3>1, <3>2, <3>3
    <3> QED
      BY <3>1, <3>4, <3>5 DEF NewestIn
  <2>6. ASSUME NEW d \in Held'
        PROVE  /\ NewestIn(issued', challenges'[d].nonce, d)
               /\ challenges'[d].nonce \notin accepted'
    <3>1. CASE d = c
      <4>1. challenges'[c].nonce = n
        BY <1>0, <2>1, <2>2
      <4>2. n \notin accepted
        BY <2>2 DEF IInv, AcceptedIssued
      <4> QED
        BY <2>1, <2>4, <3>1, <4>1, <4>2
    <3>2. CASE d # c
      <4>1. d \in Held /\ challenges'[d] = challenges[d]
        BY <1>0, <2>1, <2>2, <3>2 DEF Held
      <4>2. NewestIn(issued, challenges[d].nonce, d) /\ challenges[d].nonce \notin accepted /\ d \in Ids
        BY <4>1 DEF IInv, HeldNewest, AcceptedIsGone, Held
      <4> QED
        BY <2>1, <2>5, <3>2, <4>1, <4>2
    <3> QED
      BY <3>1, <3>2
  <2>7. AcceptedIssued' /\ NetNewest'
    BY <2>1, <2>2, <2>3 DEF IInv, AcceptedIssued, NetNewest
  <2> QED
    BY <2>6, <2>7 DEF IInv, HeldNewest, AcceptedIsGone
<1>2. CASE c \notin Registered
  BY <1>2, QuietStep DEF HandleHello
<1> QED
  BY <1>1, <1>2

LEMMA ReadStep ==
    ASSUME IInv, TypeOK', NEW r \in responses, ReadChallenge(r)
    PROVE  IInv'
<1> DEFINE c == idOf[r.from]
<1>1. UNCHANGED <<challenges, issued, accepted>>
  BY DEF ReadChallenge
<1>2. CASE c \in Held
  <2>1. net'.read = challenges[c].nonce /\ net'.id = c
    BY <1>2 DEF ReadChallenge
  <2>2. NewestIn(issued', net'.read, net'.id)
    BY <1>1, <1>2, <2>1 DEF IInv, HeldNewest
  <2>3. HeldNewest' /\ AcceptedIsGone' /\ AcceptedIssued'
    BY <1>1 DEF IInv, HeldNewest, AcceptedIsGone, AcceptedIssued, Held
  <2> QED
    BY <2>2, <2>3 DEF IInv, NetNewest
<1>3. CASE c \notin Held
  BY <1>1, <1>3, QuietStep DEF ReadChallenge
<1> QED
  BY <1>2, <1>3

\* The challenge that is accepted is the newest of its id; the entries left
\* belong to other ids, and so hold other nonces.
LEMMA FinishStep ==
    ASSUME IInv, TypeOK', FinishVerification
    PROVE  /\ IInv'
           /\ \A n \in accepted' \ accepted : \E c \in Ids : IsNewest(n, c)
<1>1. /\ net # NoVerification /\ net' = NoVerification /\ issued' = issued
      /\ net.id \in Ids /\ net.read \in Nat
      /\ challenges \in [Ids -> Entry \union {NoEntry}]
  BY DEF FinishVerification, IInv, TypeOK, Verification
<1>2. NewestIn(issued, net.read, net.id)
  BY <1>1 DEF IInv, NetNewest
<1>3. CASE UNCHANGED <<challenges, accepted>>
  BY <1>1, <1>3, QuietStep
<1>4. CASE /\ Signed /\ challenges' = Remove(net.id)
           /\ accepted' = accepted \union {net.answer}
  <2>1. net.answer = net.read
    BY <1>4 DEF Signed
  <2>2. ASSUME NEW d \in Held'
        PROVE  /\ d # net.id /\ d \in Held
               /\ challenges'[d] = challenges[d]
    BY <1>1, <1>4 DEF Remove, Held
  <2>3. ASSUME NEW d \in Held, d # net.id
        PROVE  challenges[d].nonce \notin accepted \union {net.read}
    <3>1. NewestIn(issued, challenges[d].nonce, d) /\ challenges[d].nonce \notin accepted
      BY DEF IInv, HeldNewest, AcceptedIsGone
    <3> QED
      BY <1>2, <2>3, <3>1 DEF NewestIn
  <2>4. HeldNewest' /\ AcceptedIsGone'
    BY <1>1, <1>4, <2>1, <2>2, <2>3 DEF IInv, HeldNewest, AcceptedIsGone
  <2>5. AcceptedIssued'
    BY <1>1, <1>2, <1>4, <2>1 DEF IInv, AcceptedIssued, NewestIn
  <2>6. IInv'
    BY <1>1, <2>4, <2>5 DEF IInv, NetNewest
  <2> QED
    BY <1>1, <1>2, <1>4, <2>1, <2>6 DEF NewestIn, IsNewest
<1> QED
  BY <1>3, <1>4 DEF FinishVerification

LEMMA OtherStep ==
    ASSUME IInv, TypeOK', Tick \/ ClientStep \/ LoopStep \/ Interrupt \/ Exit \/ UNCHANGED vars
    PROVE  IInv' /\ accepted' = accepted
<1>1. /\ issued' = issued /\ accepted' = accepted
      /\ net' \in {net, NoVerification}
  BY DEF Tick, ClientStep, Connect, HandleChallenge, HandleAuthResult, LoopStep, Wake, ScanNext,
         DeleteNext, Interrupt, Exit, loopUnchanged, vars
<1>2. challenges \in [Ids -> Entry \union {NoEntry}]
  BY DEF IInv, TypeOK
<1>3. \A c \in Ids : challenges'[c] \in {challenges[c], NoEntry}
  <2>1. CASE UNCHANGED challenges
    BY <2>1
  <2>2. CASE \E c \in loop.expired : challenges' = Remove(c)
    BY <1>2, <2>2 DEF Remove
  <2> QED
    BY <2>1, <2>2 DEF Tick, ClientStep, Connect, HandleChallenge, HandleAuthResult, LoopStep, Wake,
         ScanNext, DeleteNext, Interrupt, Exit, vars
<1> QED
  BY <1>1, <1>3, QuietStep

LEMMA InvStep ==
    ASSUME IInv, [Next]_vars
    PROVE  /\ IInv'
           /\ \A n \in accepted' \ accepted : \E c \in Ids : IsNewest(n, c)
<1>1. TypeOK'
  BY NextType DEF IInv
<1>2. ASSUME NEW s \in Sessions, HandleHello(s) PROVE IInv' /\ accepted' = accepted
  BY <1>1, <1>2, HelloStep DEF HandleHello
<1>3. ASSUME NEW r \in responses, ReadChallenge(r) PROVE IInv' /\ accepted' = accepted
  BY <1>1, <1>3, ReadStep DEF ReadChallenge
<1> QED
  BY <1>1, <1>2, <1>3, FinishStep, OtherStep DEF Next, NetStep

LEMMA InvInit == ASSUME Init PROVE IInv
<1>1. Held = {}
  BY DEF Init, Held
<1> QED
  BY <1>1, InitType DEF Init, IInv, HeldNewest, NetNewest, AcceptedIssued, AcceptedIsGone

\* An accepted challenge is gone, whatever the service loop and other clients
\* do: the nonce of every entry left is newer than, or not of, the accepted one.
THEOREM AcceptedStaysGone == Spec => []AcceptedIsGone
<1>1. Init => IInv
  BY InvInit
<1>2. IInv /\ [Next]_vars => IInv'
  BY InvStep
<1>3. IInv => AcceptedIsGone
  BY DEF IInv
<1> QED
  BY <1>1, <1>2, <1>3, PTL DEF Spec

\* Only the challenge sent last to a client id is ever accepted.
THEOREM AcceptsOnlyNewest == Spec => OnlyNewestAccepted
<1>1. Init => IInv
  BY InvInit
<1>2. IInv /\ [Next]_vars => IInv'
  BY InvStep
<1>3. IInv /\ [Next]_vars =>
        [\A n \in accepted' \ accepted : \E c \in Ids : IsNewest(n, c)]_vars
  BY InvStep
<1> QED
  BY <1>1, <1>2, <1>3, PTL DEF Spec, OnlyNewestAccepted

-----------------------------------------------------------------------------
(* Who is refused.                                                         *)

\* The sessions of a client id, and what is on its way for one of them.
NoAnswer(s) == \A r \in responses : r.from # s
Untouched(s) ==
    ~connected[s] /\ ~refused[s] /\ hellos[s] = 0 /\ inbox[s] = {} /\ NoAnswer(s)
OnlyOne(c, s) ==
    /\ idOf[s] = c /\ connected[s] /\ ~refused[s]
    /\ \A t \in Sessions : idOf[t] = c /\ t # s => Untouched(t)
Verified(c) == net # NoVerification /\ net.id = c
NoneIssued(c) == \A m \in 1 .. Len(issued) : issued[m].id # c
OnlyIssued(c, n) ==
    n \in 1 .. Len(issued) /\ \A m \in 1 .. Len(issued) : issued[m].id = c <=> m = n

\* Before the first hello of a client id.
Unsaid(c) ==
    /\ \A s \in Sessions : idOf[s] = c => Untouched(s)
    /\ NoneIssued(c) /\ ~Verified(c)

\* The hello is on its way.
HelloOut(c, s) ==
    /\ hellos[s] = 1 /\ inbox[s] = {} /\ NoAnswer(s)
    /\ NoneIssued(c) /\ ~Verified(c)

\* The challenge, its answer, or its verification is on its way, or the result.
Asked(c, s, n) ==
    /\ c \in Held /\ challenges[c].nonce = n /\ ~Verified(c)
    /\ NoAnswer(s) /\ inbox[s] = {[kind |-> "challenge", nonce |-> n]}
Answered(c, s, n) ==
    /\ c \in Held /\ challenges[c].nonce = n /\ ~Verified(c)
    /\ inbox[s] = {} /\ \A r \in responses : r.from = s => r.nonce = n
Verifying(c, s, n) ==
    /\ c \in Held /\ challenges[c].nonce = n
    /\ net = [id |-> c, answer |-> n, read |-> n]
    /\ NoAnswer(s) /\ inbox[s] = {}
Decided(c, s) ==
    /\ NoAnswer(s) /\ ~Verified(c)
    /\ \A m \in inbox[s] : m.kind = "result" /\ m.success
ChallengeOut(c, s, n) ==
    /\ hellos[s] = 0 /\ OnlyIssued(c, n) /\ n \notin unanswered
    /\ Asked(c, s, n) \/ Answered(c, s, n) \/ Verifying(c, s, n) \/ Decided(c, s)

\* All that is on its way for an id is one hello or what it led to.
Single(c) ==
    \E s \in Sessions : OnlyOne(c, s) /\ (HelloOut(c, s) \/ \E n \in Nat : ChallengeOut(c, s, n))

\* What the service loop found expired is, and stays so.
LoopHonest ==
    /\ loop.now <= clock
    /\ \A c \in loop.expired : TimedOut(c)
    /\ \A c \in Held : issued[challenges[c].nonce].stamp = challenges[c].stamp

\* Until a registered id says hello again: what became of its one hello.
OneHelloOf(c) ==
    /\ said[c] = 0 => Unsaid(c)
    /\ said[c] = 1 => TimedOut(c) \/ Single(c)
OneHello == \A c \in Registered : OneHelloOf(c)

\* The inductive invariant.
RInv == IInv /\ unanswered \subseteq 1 .. Len(issued) /\ LoopHonest /\ OneHello

\* A client of which something is still on its way has been told nothing bad.
LEMMA RInvReason == RInv => RefusedForAReason
<1> SUFFICES ASSUME RInv, NEW s \in Sessions, idOf[s] \in Registered, said[idOf[s]] = 1,
                    refused[s] \/ \E n \in unanswered : issued[n].id = idOf[s],
                    ~TimedOut(idOf[s])
             PROVE  FALSE
  BY DEF RefusedForAReason
<1> DEFINE c == idOf[s]
<1>1. PICK t \in Sessions :
        OnlyOne(c, t) /\ (HelloOut(c, t) \/ \E n \in Nat : ChallengeOut(c, t, n))
  BY DEF RInv, OneHello, OneHelloOf, Single
<1>2. ~refused[s]
  BY <1>1 DEF OnlyOne, Untouched
<1>3. PICK n \in unanswered : issued[n].id = c
  BY <1>2
<1>4. n \in 1 .. Len(issued)
  BY DEF RInv
<1> QED
  BY <1>1, <1>3, <1>4 DEF HelloOut, NoneIssued, ChallengeOut, OnlyIssued

\* Challenges stay on record, and get older.
Later ==
    /\ Len(issued') \in Nat /\ Len(issued) \in Nat /\ Len(issued) <= Len(issued')
    /\ \A m \in 1 .. Len(issued) : issued'[m] = issued[m]
    /\ clock <= clock'

\* So does every step.
LEMMA LaterStep ==
    ASSUME TypeOK, [Next]_vars
    PROVE  Later
<1>1. CASE issued' = issued
  <2>1. clock' = clock \/ clock' = clock + 1
    BY DEF Next, Tick, ClientStep, Connect, HandleChallenge, HandleAuthResult, NetStep, HandleHello,
           ReadChallenge, FinishVerification, LoopStep, Wake, ScanNext, DeleteNext, Interrupt, Exit,
           loopUnchanged, vars
  <2> QED
    BY <1>1, <2>1 DEF TypeOK, Later
<1>2. ASSUME NEW s \in Sessions, HandleHello(s), idOf[s] \in Registered PROVE Later
  <2>1. /\ [id |-> idOf[s], stamp |-> clock] \in [id : Ids, stamp : Nat]
        /\ issued \in Seq([id : Ids, stamp : Nat])
    BY SessionsAssumption DEF TypeOK
  <2>2. issued' = Append(issued, [id |-> idOf[s], stamp |-> clock]) /\ clock' = clock /\ clock \in Nat
    BY <1>2 DEF HandleHello, TypeOK
  <2> HIDE <1>2
  <2>3. Len(issued') = Len(issued) + 1 /\ \A m \in 1 .. Len(issued) : issued'[m] = issued[m]
    BY <2>1, <2>2
  <2> QED
    BY <2>1, <2>2, <2>3 DEF Later
<1>3. issued' = issued \/ \E s \in Sessions : HandleHello(s) /\ idOf[s] \in Registered
  BY DEF Next, Tick, ClientStep, Connect, HandleChallenge, HandleAuthResult, NetStep, HandleHello,
         ReadChallenge, FinishVerification, LoopStep, Wake, ScanNext, DeleteNext, Interrupt, Exit,
         loopUnchanged, vars
<1> QED
  BY <1>1, <1>2, <1>3

\* A challenge that is late stays late.
LEMMA TimedOutStays ==
    ASSUME TypeOK, TypeOK', Later, NEW c, TimedOut(c)
    PROVE  TimedOut(c)'
<1>1. PICK n \in 1 .. Len(issued) : issued[n].id = c /\ clock - issued[n].stamp > Timeout
  BY DEF TimedOut
<1>2. issued[n].stamp \in Nat /\ clock \in Nat /\ clock' \in Nat
  <2>1. issued \in Seq([id : Ids, stamp : Nat]) /\ clock \in Nat /\ clock' \in Nat
    BY DEF TypeOK
  <2>2. issued[n] \in [id : Ids, stamp : Nat]
    BY <2>1, ElementOfSeq
  <2> QED
    BY <2>1, <2>2
<1>3. n \in 1 .. Len(issued') /\ issued'[n] = issued[n]
  BY DEF Later
<1>4. Timeout \in Nat
  BY NumbersAssumption
<1>5. clock' - issued'[n].stamp > Timeout
  BY <1>1, <1>2, <1>3, <1>4 DEF Later
<1> QED
  BY <1>1, <1>3, <1>5 DEF TimedOut

-----------------------------------------------------------------------------
(* Steps that do nothing about a client id.                               *)

\* A step that does nothing about a client id.
SameFor(c) ==
    /\ said'[c] = said[c] /\ idOf' = idOf
    /\ \A s \in Sessions : idOf[s] = c =>
         /\ connected'[s] = connected[s] /\ refused'[s] = refused[s]
         /\ hellos'[s] = hellos[s] /\ inbox'[s] = inbox[s]
         /\ \A r \in Response : r.from = s => (r \in responses' <=> r \in responses)
    /\ net' = net \/ (~Verified(c) /\ ~Verified(c)')
    /\ challenges'[c] = challenges[c]
    /\ \A m \in 1 .. Len(issued') : m \in 1 .. Len(issued) \/ issued'[m].id # c
    /\ \A n \in unanswered' \ unanswered : issued[n].id # c

\* What such a step leaves as it is.
LEMMA SameUntouched ==
    ASSUME TypeOK, TypeOK', NEW c, SameFor(c), NEW s \in Sessions, idOf[s] = c
    PROVE  /\ NoAnswer(s)' <=> NoAnswer(s)
           /\ Untouched(s)' <=> Untouched(s)
<1>1. responses \subseteq Response /\ responses' \subseteq Response
  BY DEF TypeOK
<1>2. NoAnswer(s)' <=> NoAnswer(s)
  BY <1>1 DEF SameFor, NoAnswer
<1> QED
  BY <1>2 DEF SameFor, Untouched

\* No challenge is added for the id.
LEMMA SameIssued ==
    ASSUME Later, NEW c, SameFor(c)
    PROVE  /\ NoneIssued(c) => NoneIssued(c)'
           /\ \A n : OnlyIssued(c, n) => OnlyIssued(c, n)'
           /\ Verified(c)' <=> Verified(c)
BY DEF Later, SameFor, NoneIssued, OnlyIssued, Verified

\* An id that said nothing still has not.
LEMMA SameUnsaid ==
    ASSUME TypeOK, TypeOK', Later, NEW c, SameFor(c), Unsaid(c)
    PROVE  Unsaid(c)'
BY SameUntouched, SameIssued DEF Unsaid, SameFor

\* What is on its way still is.
LEMMA SameSingle ==
    ASSUME TypeOK, TypeOK', Later, NEW c \in Ids, SameFor(c), Single(c)
    PROVE  Single(c)'
<1>1. PICK s \in Sessions :
        OnlyOne(c, s) /\ (HelloOut(c, s) \/ \E n \in Nat : ChallengeOut(c, s, n))
  BY DEF Single
<1>2. idOf[s] = c
  BY <1>1 DEF OnlyOne
<1>3. OnlyOne(c, s)'
  BY <1>1, SameUntouched DEF OnlyOne, SameFor
<1>4. CASE HelloOut(c, s)
  <2>1. HelloOut(c, s)'
    BY <1>2, <1>4, SameUntouched, SameIssued DEF HelloOut, SameFor
  <2> QED
    BY <1>3, <2>1 DEF Single
<1>5. ASSUME NEW n \in Nat, ChallengeOut(c, s, n) PROVE Single(c)'
  <2>1. c \in Held => c \in Held' /\ challenges'[c] = challenges[c]
    BY DEF Held, SameFor
  <2>2. /\ hellos'[s] = 0 /\ OnlyIssued(c, n)' /\ n \notin unanswered'
        /\ NoAnswer(s)' <=> NoAnswer(s)
        /\ inbox'[s] = inbox[s] /\ (Verified(c)' <=> Verified(c))
    <3>1. OnlyIssued(c, n)' /\ (Verified(c)' <=> Verified(c)) /\ (NoAnswer(s)' <=> NoAnswer(s))
      BY <1>2, <1>5, SameUntouched, SameIssued DEF ChallengeOut
    <3>2. issued[n].id = c
      BY <1>5 DEF ChallengeOut, OnlyIssued
    <3> QED
      BY <1>2, <1>5, <3>1, <3>2 DEF ChallengeOut, SameFor
  <2>3. Asked(c, s, n) => Asked(c, s, n)'
    BY <2>1, <2>2 DEF Asked
  <2>4. Answered(c, s, n) => Answered(c, s, n)'
    <3>1. responses' \subseteq Response
      BY DEF TypeOK
    <3>2. \A r \in responses' : r.from = s => r \in responses
      BY <1>2, <3>1 DEF SameFor
    <3> QED
      BY <2>1, <2>2, <3>2 DEF Answered
  <2>5. Verifying(c, s, n) => Verifying(c, s, n)'
    <3> SUFFICES ASSUME Verifying(c, s, n) PROVE Verifying(c, s, n)'
      OBVIOUS
    <3>1. Verified(c)
      BY SentinelsAssumption DEF Verifying, Verified, Verification
    <3> QED
      BY <2>1, <2>2, <3>1 DEF Verifying, SameFor
  <2>6. Decided(c, s) => Decided(c, s)'
    BY <2>2 DEF Decided
  <2>7. ChallengeOut(c, s, n)'
    BY <1>5, <2>2, <2>3, <2>4, <2>5, <2>6 DEF ChallengeOut
  <2> QED
    BY <1>3, <2>7 DEF Single
<1> QED
  BY <1>1, <1>4, <1>5

\* Its account is kept.
LEMMA SameOneHello ==
    ASSUME RInv, TypeOK', Later, NEW c \in Registered, SameFor(c)
    PROVE  OneHelloOf(c)'
<1>1. TypeOK /\ c \in Ids /\ OneHelloOf(c)
  BY SessionsAssumption DEF RInv, IInv, OneHello
<1>2. said'[c] = said[c]
  BY DEF SameFor
<1> QED
  BY <1>1, <1>2, SameUnsaid, SameSingle, TimedOutStays DEF OneHelloOf

\* What is done to the one session of an id leaves the others untouched.
LEMMA KeepsOnly ==
    ASSUME NEW c, NEW s \in Sessions, OnlyOne(c, s),
           UNCHANGED <<idOf, connected>>, refused'[s] = refused[s],
           \A t \in Sessions : idOf[t] = c /\ t # s =>
             refused'[t] = refused[t] /\ hellos'[t] = hellos[t] /\ inbox'[t] = inbox[t],
           \A r \in responses' : r \in responses \/ r.from = s
    PROVE  OnlyOne(c, s)'
BY DEF OnlyOne, Untouched, NoAnswer

\* The session something happens to is the one session of its id.
LEMMA TheOne ==
    ASSUME RInv, NEW s \in Sessions, idOf[s] \in Registered, ~Untouched(s),
           said[idOf[s]] \in {0, 1}, ~TimedOut(idOf[s])
    PROVE  /\ said[idOf[s]] = 1 /\ OnlyOne(idOf[s], s)
           /\ HelloOut(idOf[s], s) \/ \E n \in Nat : ChallengeOut(idOf[s], s, n)
<1>1. ~Unsaid(idOf[s])
  BY DEF Unsaid
<1>2. said[idOf[s]] = 1 /\ Single(idOf[s])
  BY <1>1 DEF RInv, OneHello, OneHelloOf
<1> QED
  BY <1>2 DEF Single, OnlyOne

\* The first hello of an id; later ones are not claimed about.
LEMMA ConnectHello ==
    ASSUME RInv, TypeOK', Later, NEW s \in Sessions, Connect(s), NEW c \in Registered
    PROVE  OneHelloOf(c)'
<1>0. TypeOK /\ idOf \in [Sessions -> Ids] /\ c \in Ids /\ said \in [Ids -> Nat]
  BY SessionsAssumption DEF RInv, IInv, TypeOK
<1>1. CASE idOf[s] # c
  <2>1. SameFor(c)
    BY <1>0, <1>1 DEF Connect, SameFor, TypeOK, Verified
  <2> QED
    BY <2>1, SameOneHello
<1>2. CASE idOf[s] = c /\ said[c] # 0
  <2>1. said'[c] = said[c] + 1 /\ said[c] \in Nat
    BY <1>0, <1>2 DEF Connect
  <2> QED
    BY <1>2, <2>1 DEF OneHelloOf
<1>3. CASE idOf[s] = c /\ said[c] = 0
  <2>1. Unsaid(c)
    BY <1>3 DEF RInv, OneHello, OneHelloOf
  <2>2. said'[c] = 1 /\ hellos'[s] = 1 /\ inbox'[s] = {} /\ connected'[s] /\ refused' = refused
    BY <1>0, <1>3, <2>1 DEF Connect, TypeOK, Unsaid, Untouched
  <2>3. OnlyOne(c, s)'
    BY <1>0, <1>3, <2>1, <2>2 DEF Connect, TypeOK, OnlyOne, Unsaid, Untouched, NoAnswer
  <2>4. HelloOut(c, s)'
    BY <1>3, <2>1, <2>2 DEF Connect, HelloOut, Unsaid, Untouched, NoAnswer, NoneIssued, Verified
  <2> QED
    BY <2>2, <2>3, <2>4 DEF OneHelloOf, Single
<1> QED
  BY <1>1, <1>2, <1>3

\* A challenge is answered, or a result is heard, by the one session.
LEMMA InboxHello ==
    ASSUME RInv, TypeOK', Later, NEW s \in Sessions, NEW m \in inbox[s],
           HandleChallenge(s, m) \/ HandleAuthResult(s, m), NEW c \in Registered
    PROVE  OneHelloOf(c)'
<1>0. TypeOK /\ idOf \in [Sessions -> Ids] /\ c \in Ids /\ said \in [Ids -> Nat] /\ said' = said
  BY SessionsAssumption DEF RInv, IInv, TypeOK, HandleChallenge, HandleAuthResult, clientVars
<1>1. CASE idOf[s] # c
  <2>1. SameFor(c)
    BY <1>0, <1>1 DEF HandleChallenge, HandleAuthResult, clientVars, SameFor, TypeOK, Verified
  <2> QED
    BY <2>1, SameOneHello
<1>2. CASE TimedOut(c)
  <2>1. TimedOut(c)' /\ ~NoneIssued(c)
    BY <1>0, <1>2, TimedOutStays DEF TimedOut, NoneIssued
  <2>2. said[c] # 0
    BY <2>1 DEF RInv, OneHello, OneHelloOf, Unsaid
  <2> QED
    BY <1>0, <2>1, <2>2 DEF OneHelloOf
<1>3. CASE idOf[s] = c /\ ~TimedOut(c) /\ said[c] \in {0, 1}
  <2>1. /\ said[c] = 1 /\ OnlyOne(c, s)
        /\ HelloOut(c, s) \/ \E n \in Nat : ChallengeOut(c, s, n)
    BY <1>3, TheOne DEF Untouched
  <2>2. ~HelloOut(c, s)
    BY DEF HelloOut
  <2>3. PICK n \in Nat : ChallengeOut(c, s, n)
    BY <2>1, <2>2
  <2>4. ~Answered(c, s, n) /\ ~Verifying(c, s, n)
    BY DEF Answered, Verifying
  <2>5. CASE HandleChallenge(s, m)
    <3>1. Asked(c, s, n) /\ m = [kind |-> "challenge", nonce |-> n]
      BY <2>3, <2>4, <2>5 DEF ChallengeOut, HandleChallenge, Decided, Asked
    <3>2. OnlyOne(c, s)'
      BY <1>0, <2>1, <2>5, KeepsOnly DEF HandleChallenge, clientVars, TypeOK
    <3>3. Answered(c, s, n)'
      BY <1>0, <2>5, <3>1 DEF HandleChallenge, clientVars, TypeOK, Asked, Answered, NoAnswer,
                              Held, Verified
    <3>4. ChallengeOut(c, s, n)'
      BY <2>3, <2>5, <3>3 DEF HandleChallenge, clientVars, ChallengeOut, OnlyIssued
    <3> QED
      BY <1>0, <2>1, <3>2, <3>4 DEF OneHelloOf, Single
  <2>6. CASE HandleAuthResult(s, m)
    <3>1. Decided(c, s) /\ m.success
      BY <2>3, <2>4, <2>6 DEF ChallengeOut, HandleAuthResult, Decided, Asked
    <3>2. OnlyOne(c, s)'
      BY <1>0, <2>1, <2>6, <3>1, KeepsOnly DEF HandleAuthResult, TypeOK
    <3>3. Decided(c, s)'
      BY <1>0, <2>6, <3>1 DEF HandleAuthResult, TypeOK, Decided, NoAnswer, Verified
    <3>4. ChallengeOut(c, s, n)'
      BY <2>3, <2>6, <3>3 DEF HandleAuthResult, ChallengeOut, OnlyIssued
    <3> QED
      BY <1>0, <2>1, <3>2, <3>4 DEF OneHelloOf, Single
  <2> QED
    BY <2>5, <2>6
<1>4. CASE said[c] \notin {0, 1}
  BY <1>0, <1>4 DEF OneHelloOf
<1> QED
  BY <1>1, <1>2, <1>3, <1>4

\* The server answers the one hello with the one challenge.
LEMMA ServerHello ==
    ASSUME RInv, TypeOK', Later, NEW s \in Sessions, HandleHello(s), NEW c \in Registered
    PROVE  OneHelloOf(c)'
<1>0. /\ TypeOK /\ idOf \in [Sessions -> Ids] /\ c \in Ids /\ said \in [Ids -> Nat] /\ said' = said
      /\ idOf[s] \in Ids
  BY SessionsAssumption DEF RInv, IInv, TypeOK, HandleHello
<1> DEFINE e == [id |-> idOf[s], stamp |-> clock]
<1>b. PICK n \in Nat : n = Len(issued) + 1
  BY <1>0 DEF TypeOK
<1>a. idOf[s] \in Registered =>
        /\ issued' = Append(issued, e) /\ Len(issued') = n /\ issued'[n] = e
        /\ \A k \in 1 .. Len(issued) : issued'[k] = issued[k]
  <2>1. issued \in Seq([id : Ids, stamp : Nat]) /\ e \in [id : Ids, stamp : Nat]
    BY <1>0 DEF TypeOK
  <2>2. idOf[s] \in Registered => issued' = Append(issued, e)
    BY DEF HandleHello
  <2> HIDE DEF e
  <2> QED
    BY <1>b, <2>1, <2>2
<1>1. CASE idOf[s] # c
  <2>1. \A t \in Sessions : idOf[t] = c => inbox'[t] = inbox[t] /\ hellos'[t] = hellos[t]
    BY <1>0, <1>1 DEF HandleHello, Publish, TypeOK
  <2>2. challenges'[c] = challenges[c]
    BY <1>0, <1>1 DEF HandleHello, Store, TypeOK
  <2>3. \A m \in 1 .. Len(issued') : m \in 1 .. Len(issued) \/ issued'[m].id # c
    <3>1. CASE idOf[s] \notin Registered
      BY <3>1 DEF HandleHello
    <3>2. CASE idOf[s] \in Registered
      <4>1. Len(issued) \in Nat
        BY <1>0 DEF TypeOK
      <4> QED
        BY <1>1, <1>a, <1>b, <3>2, <4>1
    <3> QED
      BY <3>1, <3>2
  <2>4. SameFor(c)
    BY <2>1, <2>2, <2>3 DEF HandleHello, SameFor
  <2> QED
    BY <2>4, SameOneHello
<1>2. CASE TimedOut(c)
  <2>1. TimedOut(c)' /\ ~NoneIssued(c)
    BY <1>0, <1>2, TimedOutStays DEF TimedOut, NoneIssued
  <2>2. said[c] # 0
    BY <2>1 DEF RInv, OneHello, OneHelloOf, Unsaid
  <2> QED
    BY <1>0, <2>1, <2>2 DEF OneHelloOf
<1>3. CASE idOf[s] = c /\ ~TimedOut(c) /\ said[c] \in {0, 1}
  <2>1. hellos[s] > 0 /\ hellos \in [Sessions -> Nat]
    BY <1>0 DEF HandleHello, TypeOK
  <2>2. /\ said[c] = 1 /\ OnlyOne(c, s)
        /\ HelloOut(c, s) \/ \E k \in Nat : ChallengeOut(c, s, k)
    BY <1>3, <2>1, TheOne DEF Untouched
  <2>3. HelloOut(c, s)
    BY <2>1, <2>2 DEF ChallengeOut
  <2>4. Len(issued) \in Nat /\ n \notin unanswered
    BY <1>0, <1>b DEF TypeOK, RInv
  <2>5. hellos'[s] = 0 /\ \A t \in Sessions : t # s => hellos'[t] = hellos[t]
    BY <2>1, <2>3 DEF HandleHello, HelloOut
  <2>6. inbox'[s] = {[kind |-> "challenge", nonce |-> n]}
        /\ \A t \in Sessions : idOf[t] = c /\ t # s => inbox'[t] = inbox[t]
    BY <1>0, <1>3, <1>b, <2>2, <2>3 DEF HandleHello, Publish, HelloOut, OnlyOne, Untouched
  <2>7. OnlyOne(c, s)'
    BY <2>2, <2>5, <2>6, KeepsOnly DEF HandleHello
  <2>8. OnlyIssued(c, n)'
    BY <1>3, <1>a, <1>b, <2>3, <2>4 DEF HelloOut, NoneIssued, OnlyIssued
  <2>9. Asked(c, s, n)'
    <3>1. c \in Held' /\ challenges'[c].nonce = n
      <4>1. challenges' = [challenges EXCEPT ![c] = [nonce |-> n, stamp |-> clock]]
        BY <1>3, <1>b DEF HandleHello, Store
      <4>2. [nonce |-> n, stamp |-> clock] \in Entry
        BY <1>0, <2>4 DEF TypeOK, Entry
      <4>3. challenges'[c] = [nonce |-> n, stamp |-> clock]
        BY <1>0, <4>1 DEF TypeOK
      <4> QED
        BY <1>0, <4>2, <4>3, SentinelsAssumption DEF Held
    <3>2. NoAnswer(s)' /\ ~Verified(c)'
      BY <2>3 DEF HandleHello, HelloOut, NoAnswer, Verified
    <3> QED
      BY <2>6, <3>1, <3>2 DEF Asked
  <2>10. ChallengeOut(c, s, n)'
    BY <2>4, <2>5, <2>8, <2>9 DEF ChallengeOut, HandleHello
  <2> QED
    BY <1>0, <2>2, <2>4, <2>7, <2>10 DEF OneHelloOf, Single
<1>4. CASE said[c] \notin {0, 1}
  BY <1>0, <1>4 DEF OneHelloOf
<1> QED
  BY <1>1, <1>2, <1>3, <1>4

\* Its answer is looked up.
LEMMA ReadHello ==
    ASSUME RInv, TypeOK', Later, NEW r \in responses, ReadChallenge(r), NEW c \in Registered
    PROVE  OneHelloOf(c)'
<1> DEFINE s == r.from
<1>0. /\ TypeOK /\ idOf \in [Sessions -> Ids] /\ c \in Ids /\ said \in [Ids -> Nat] /\ said' = said
      /\ s \in Sessions /\ responses \subseteq Response
  BY SessionsAssumption DEF RInv, IInv, TypeOK, ReadChallenge, clientVars, Response
<1>1. CASE idOf[s] # c
  <2>1. \A t \in Sessions : idOf[t] = c => inbox'[t] = inbox[t] /\ r.from # t
    BY <1>0, <1>1 DEF ReadChallenge, Refuse, Publish, TypeOK
  <2>2. net' = net \/ (~Verified(c) /\ ~Verified(c)')
    BY <1>1 DEF ReadChallenge, NetIdle, Verified
  <2>3. \A t \in Sessions : idOf[t] = c =>
          \A q \in Response : q.from = t => (q \in responses' <=> q \in responses)
    BY <2>1 DEF ReadChallenge
  <2>4. SameFor(c)
    BY <2>1, <2>2, <2>3 DEF ReadChallenge, clientVars, SameFor
  <2> QED
    BY <2>4, SameOneHello
<1>2. CASE TimedOut(c)
  <2>1. TimedOut(c)' /\ ~NoneIssued(c)
    BY <1>0, <1>2, TimedOutStays DEF TimedOut, NoneIssued
  <2>2. said[c] # 0
    BY <2>1 DEF RInv, OneHello, OneHelloOf, Unsaid
  <2> QED
    BY <1>0, <2>1, <2>2 DEF OneHelloOf
<1>3. CASE idOf[s] = c /\ ~TimedOut(c) /\ said[c] \in {0, 1}
  <2>0. ~NoAnswer(s)
    BY DEF NoAnswer
  <2>1. /\ said[c] = 1 /\ OnlyOne(c, s)
        /\ HelloOut(c, s) \/ \E n \in Nat : ChallengeOut(c, s, n)
    BY <1>0, <1>3, <2>0, TheOne DEF Untouched
  <2>2. PICK n \in Nat : ChallengeOut(c, s, n)
    BY <2>0, <2>1 DEF HelloOut
  <2>3. Answered(c, s, n)
    BY <2>0, <2>2 DEF ChallengeOut, Asked, Verifying, Decided
  <2>4. r.nonce = n /\ net' = [id |-> c, answer |-> n, read |-> n] /\ inbox' = inbox
    BY <1>3, <2>3 DEF ReadChallenge, Answered
  <2>5. NoAnswer(s)'
    <3>1. \A q \in responses : q.from = s => q = r
      BY <1>0, <2>3, <2>4 DEF Answered, Response
    <3> QED
      BY <3>1 DEF NoAnswer, ReadChallenge
  <2>6. Verifying(c, s, n)'
    BY <2>3, <2>4, <2>5 DEF Answered, Verifying, ReadChallenge, Held
  <2>7. OnlyOne(c, s)'
    BY <1>0, <2>1, <2>4, KeepsOnly DEF ReadChallenge, clientVars
  <2>8. ChallengeOut(c, s, n)'
    BY <2>2, <2>6 DEF ChallengeOut, ReadChallenge, clientVars, OnlyIssued
  <2> QED
    BY <1>0, <2>1, <2>7, <2>8 DEF OneHelloOf, Single
<1>4. CASE said[c] \notin {0, 1}
  BY <1>0, <1>4 DEF OneHelloOf
<1> QED
  BY <1>1, <1>2, <1>3, <1>4

\* The verification of the one answer succeeds.
LEMMA FinishHello ==
    ASSUME RInv, TypeOK', Later, FinishVerification, NEW c \in Registered
    PROVE  OneHelloOf(c)'
<1>0. /\ TypeOK /\ c \in Ids /\ said \in [Ids -> Nat] /\ UNCHANGED <<said, idOf, issued>>
      /\ challenges \in [Ids -> Entry \union {NoEntry}] /\ net' = NoVerification
  BY SessionsAssumption DEF RInv, IInv, TypeOK, FinishVerification, clientVars
<1>1. CASE ~Verified(c)
  <2>1. net.id # c /\ NewestIn(issued, net.read, net.id)
    BY <1>1 DEF Verified, FinishVerification, RInv, IInv, NetNewest
  <2>2. \A t \in Sessions : idOf[t] = c => inbox'[t] = inbox[t]
    BY <1>0, <2>1 DEF FinishVerification, Refuse, Publish, TypeOK
  <2>3. challenges'[c] = challenges[c]
    BY <1>0, <2>1 DEF FinishVerification, Remove
  <2>4. \A n \in unanswered' \ unanswered : issued[n].id # c
    BY <2>1 DEF FinishVerification, Signed, NewestIn
  <2>5. SameFor(c)
    BY <1>0, <1>1, <2>2, <2>3, <2>4 DEF FinishVerification, clientVars, SameFor, Verified
  <2> QED
    BY <2>5, SameOneHello
<1>2. CASE Verified(c) /\ TimedOut(c)
  <2>1. TimedOut(c)' /\ said[c] # 0
    BY <1>0, <1>2, TimedOutStays DEF RInv, OneHello, OneHelloOf, Unsaid
  <2> QED
    BY <1>0, <2>1 DEF OneHelloOf
<1>3. CASE Verified(c) /\ ~TimedOut(c) /\ said[c] \in {0, 1}
  <2>1. said[c] = 1 /\ Single(c)
    BY <1>3 DEF RInv, OneHello, OneHelloOf, Unsaid
  <2>2. PICK s \in Sessions :
          OnlyOne(c, s) /\ (HelloOut(c, s) \/ \E n \in Nat : ChallengeOut(c, s, n))
    BY <2>1 DEF Single
  <2>3. PICK n \in Nat : ChallengeOut(c, s, n)
    BY <1>3, <2>2 DEF HelloOut
  <2>4. Verifying(c, s, n)
    BY <1>3, <2>3 DEF ChallengeOut, Asked, Answered, Decided
  <2>5. Signed /\ net.id = c /\ c \in Held
    BY <2>4 DEF Verifying, Signed
  <2>6. Publish(c, [kind |-> "result", nonce |-> net.answer, success |-> TRUE])
        /\ unanswered' = unanswered
    BY <2>5 DEF FinishVerification
  <2>7. /\ \A m \in inbox'[s] : m.kind = "result" /\ m.success
        /\ \A t \in Sessions : idOf[t] = c /\ t # s => inbox'[t] = inbox[t]
    BY <2>2, <2>4, <2>6 DEF Publish, Verifying, OnlyOne, Untouched
  <2>8. OnlyOne(c, s)'
    BY <2>2, <2>7, KeepsOnly DEF FinishVerification, clientVars
  <2>9. Decided(c, s)'
    BY <1>0, <2>4, <2>7 DEF Decided, Verifying, NoAnswer, Verified, FinishVerification
  <2>10. ChallengeOut(c, s, n)'
    BY <2>3, <2>6, <2>9 DEF ChallengeOut, FinishVerification, clientVars, OnlyIssued
  <2> QED
    BY <1>0, <2>1, <2>8, <2>10 DEF OneHelloOf, Single
<1>4. CASE said[c] \notin {0, 1}
  BY <1>0, <1>4 DEF OneHelloOf
<1> QED
  BY <1>1, <1>2, <1>3, <1>4

\* The service loop only removes what timed out; the end of the process
\* answers nobody.
LEMMA LoopHello ==
    ASSUME RInv, TypeOK', Later, Tick \/ LoopStep \/ Interrupt \/ Exit \/ UNCHANGED vars,
           NEW c \in Registered
    PROVE  OneHelloOf(c)'
<1>0. /\ TypeOK /\ c \in Ids /\ said \in [Ids -> Nat]
      /\ UNCHANGED <<said, idOf, issued, connected, refused, hellos, inbox, responses, unanswered>>
      /\ challenges \in [Ids -> Entry \union {NoEntry}]
  BY SessionsAssumption DEF RInv, IInv, TypeOK, Tick, LoopStep, Wake, ScanNext, DeleteNext,
     Interrupt, Exit, loopUnchanged, clientVars, vars
<1>1. CASE /\ challenges'[c] = challenges[c]
           /\ net' = net \/ (~Verified(c) /\ ~Verified(c)')
  <2>1. SameFor(c)
    BY <1>0, <1>1 DEF SameFor
  <2> QED
    BY <2>1, SameOneHello
<1>2. CASE TimedOut(c)
  <2>1. TimedOut(c)' /\ ~NoneIssued(c)
    BY <1>0, <1>2, TimedOutStays DEF TimedOut, NoneIssued
  <2>2. said[c] # 0
    BY <2>1 DEF RInv, OneHello, OneHelloOf, Unsaid
  <2> QED
    BY <1>0, <2>1, <2>2 DEF OneHelloOf
<1>3. CASE challenges'[c] # challenges[c]
  <2>1. c \in loop.expired
    BY <1>0, <1>3 DEF Tick, LoopStep, Wake, ScanNext, DeleteNext, Remove, Interrupt, Exit, vars
  <2>2. TimedOut(c)
    BY <2>1 DEF RInv, LoopHonest
  <2> QED
    BY <1>2, <2>2
<1>4. CASE Exit /\ Verified(c) /\ ~TimedOut(c) /\ said[c] \in {0, 1}
  <2>1. said[c] = 1 /\ Single(c)
    BY <1>4 DEF RInv, OneHello, OneHelloOf, Unsaid
  <2>2. PICK s \in Sessions :
          OnlyOne(c, s) /\ (HelloOut(c, s) \/ \E n \in Nat : ChallengeOut(c, s, n))
    BY <2>1 DEF Single
  <2>3. PICK n \in Nat : ChallengeOut(c, s, n)
    BY <1>4, <2>2 DEF HelloOut
  <2>4. Verifying(c, s, n)
    BY <1>4, <2>3 DEF ChallengeOut, Asked, Answered, Decided
  <2>5. OnlyOne(c, s)'
    BY <1>0, <2>2, KeepsOnly
  <2>6. Decided(c, s)'
    BY <1>0, <1>4, <2>4 DEF Decided, Verifying, NoAnswer, Verified, Exit
  <2>7. ChallengeOut(c, s, n)'
    BY <1>0, <2>3, <2>6 DEF ChallengeOut, OnlyIssued
  <2> QED
    BY <1>0, <2>1, <2>5, <2>7 DEF OneHelloOf, Single
<1>5. CASE said[c] \notin {0, 1}
  BY <1>0, <1>5 DEF OneHelloOf
<1>6. net' = net \/ (Exit /\ ~Verified(c)')
  BY DEF Tick, LoopStep, Wake, ScanNext, DeleteNext, Interrupt, Exit, loopUnchanged, vars, Verified
<1> QED
  BY <1>1, <1>2, <1>3, <1>4, <1>5, <1>6

\* Every step keeps the account of every registered id.
LEMMA OneHelloStep ==
    ASSUME RInv, TypeOK', Later, [Next]_vars
    PROVE  OneHello'
BY ConnectHello, InboxHello, ServerHello, ReadHello, FinishHello, LoopHello
   DEF OneHello, Next, ClientStep, NetStep

\* The loop's snapshot of the clock is not ahead of it, and what it calls
\* expired is.
LEMMA LoopHonestStep ==
    ASSUME RInv, TypeOK', Later, [Next]_vars
    PROVE  LoopHonest'
<1>0. TypeOK /\ LoopHonest /\ HeldNewest
  BY DEF RInv, IInv
<1>t. /\ clock \in Nat /\ clock' \in Nat /\ loop \in Loop /\ loop.now \in Nat
      /\ challenges \in [Ids -> Entry \union {NoEntry}] /\ Timeout \in Nat
      /\ issued \in Seq([id : Ids, stamp : Nat])
  BY <1>0, NumbersAssumption DEF TypeOK, Loop
<1>1. \A c \in Held' : issued'[challenges'[c].nonce].stamp = challenges'[c].stamp
  <2> SUFFICES ASSUME NEW c \in Held'
               PROVE  issued'[challenges'[c].nonce].stamp = challenges'[c].stamp
    OBVIOUS
  <2>1. CASE c \in Held /\ challenges'[c] = challenges[c]
    <3>1. challenges[c].nonce \in 1 .. Len(issued)
      BY <1>0, <2>1 DEF HeldNewest, NewestIn
    <3> QED
      BY <1>0, <2>1, <3>1 DEF LoopHonest, Later
  <2>2. ASSUME NEW s \in Sessions, HandleHello(s), c = idOf[s], c \in Registered
        PROVE  issued'[challenges'[c].nonce].stamp = challenges'[c].stamp
    <3>1. /\ challenges' = [challenges EXCEPT ![c] = [nonce |-> Len(issued) + 1, stamp |-> clock]]
          /\ issued' = Append(issued, [id |-> c, stamp |-> clock])
      BY <2>2 DEF HandleHello, Store
    <3>2. c \in Ids
      BY DEF Held
    <3>3. challenges'[c] = [nonce |-> Len(issued) + 1, stamp |-> clock]
      BY <1>t, <3>1, <3>2
    <3>4. issued'[Len(issued) + 1] = [id |-> c, stamp |-> clock]
      BY <1>t, <3>1, <3>2
    <3> QED
      BY <3>3, <3>4
  <2>3. \/ challenges'[c] = challenges[c]
        \/ \E s \in Sessions : HandleHello(s) /\ c = idOf[s] /\ c \in Registered
    <3>1. c \in Ids /\ challenges'[c] # NoEntry
      BY DEF Held
    <3>2. ASSUME \E d \in Ids : challenges' = [challenges EXCEPT ![d] = NoEntry]
          PROVE  challenges'[c] = challenges[c]
      BY <1>t, <3>1, <3>2
    <3>3. ASSUME NEW s \in Sessions, HandleHello(s)
          PROVE  challenges'[c] = challenges[c] \/ (c = idOf[s] /\ c \in Registered)
      BY <1>t, <3>1, <3>3 DEF HandleHello, Store
    <3>4. FinishVerification => UNCHANGED challenges \/ \E d \in Ids : challenges' = [challenges EXCEPT ![d] = NoEntry]
      BY DEF FinishVerification, Remove, Held
    <3>5. DeleteNext => UNCHANGED challenges \/ \E d \in Ids : challenges' = [challenges EXCEPT ![d] = NoEntry]
      BY DEF DeleteNext, Remove, Held
    <3> QED
      BY <3>2, <3>3, <3>4, <3>5 DEF Next, Tick, ClientStep, Connect, HandleChallenge,
         HandleAuthResult, NetStep, ReadChallenge, LoopStep, Wake, ScanNext, Interrupt, Exit,
         loopUnchanged, vars
  <2>4. challenges'[c] = challenges[c] => c \in Held
    BY DEF Held
  <2> QED
    BY <2>1, <2>2, <2>3, <2>4
<1>2. ASSUME loop'.now = loop.now \/ loop'.now = 0 \/ (loop'.now = clock /\ clock' = clock),
             \A c \in loop'.expired : c \in loop.expired \/ TimedOut(c)
      PROVE  LoopHonest'
  <2>1. loop'.now <= clock'
    BY <1>0, <1>t, <1>2 DEF LoopHonest, Later
  <2>2. \A c \in loop'.expired : TimedOut(c)'
    BY <1>0, <1>2, TimedOutStays DEF LoopHonest
  <2> QED
    BY <1>1, <2>1, <2>2 DEF LoopHonest
<1>3. CASE Wake
  BY <1>2, <1>3 DEF Wake, Asleep, loopUnchanged
<1>4. CASE ScanNext
  <2>1. ASSUME NEW c \in Held, Expired(c) PROVE TimedOut(c)
    <3>1. challenges[c].nonce \in 1 .. Len(issued) /\ issued[challenges[c].nonce].id = c
      BY <1>0 DEF HeldNewest, NewestIn
    <3>2. issued[challenges[c].nonce].stamp = challenges[c].stamp /\ challenges[c].stamp \in Nat
      BY <1>0, <1>t DEF LoopHonest, Held, Entry
    <3>3. clock - challenges[c].stamp > Timeout
      BY <1>0, <1>t, <2>1, <3>2 DEF Expired, LoopHonest
    <3> QED
      BY <3>1, <3>2, <3>3 DEF TimedOut
  <2>2. loop'.now = loop.now \/ loop'.now = 0
    BY <1>t, <1>4 DEF ScanNext, LoopDies, Asleep, Loop
  <2>3. \A c \in loop'.expired : c \in loop.expired \/ TimedOut(c)
    <3>1. CASE LoopDies \/ loop' = [loop EXCEPT !.pc = "delete"]
      BY <1>t, <3>1 DEF LoopDies, Asleep, Loop
    <3>2. ASSUME NEW c \in Held,
                 loop' = [loop EXCEPT !.seen = @ \union {c}, !.left = Left,
                            !.expired = IF Expired(c) THEN @ \union {c} ELSE @]
          PROVE  \A d \in loop'.expired : d \in loop.expired \/ TimedOut(d)
      <4>1. loop'.expired \subseteq IF Expired(c) THEN loop.expired \union {c} ELSE loop.expired
        BY <1>t, <3>2 DEF Loop
      <4> QED
        BY <2>1, <4>1
    <3> QED
      BY <1>4, <3>1, <3>2 DEF ScanNext
  <2> QED
    BY <1>2, <2>2, <2>3
<1>5. CASE DeleteNext \/ Interrupt \/ FinishVerification
  <2>1. loop'.now = loop.now \/ loop'.now = 0
    BY <1>t, <1>5 DEF DeleteNext, Interrupt, FinishVerification, LoopDies, Asleep, Loop
  <2>2. loop'.expired \subseteq loop.expired
    <3>1. CASE DeleteNext
      BY <1>t, <3>1 DEF DeleteNext, LoopDies, Asleep, Loop
    <3>2. CASE Interrupt \/ FinishVerification
      BY <1>t, <3>2 DEF Interrupt, FinishVerification, Asleep, Loop
    <3> QED
      BY <1>5, <3>1, <3>2
  <2> QED
    BY <1>2, <2>1, <2>2
<1>6. CASE UNCHANGED loop
  BY <1>2, <1>6
<1> QED
  BY <1>3, <1>4, <1>5, <1>6 DEF Next, Tick, ClientStep, Connect, HandleChallenge,
     HandleAuthResult, NetStep, HandleHello, ReadChallenge, LoopStep, Exit, vars

\* The invariant is inductive.
LEMMA RInvStep == RInv /\ [Next]_vars => RInv'
<1> SUFFICES ASSUME RInv, [Next]_vars PROVE RInv'
  OBVIOUS
<1>1. IInv' /\ TypeOK' /\ Later
  BY InvStep, LaterStep DEF RInv, IInv
<1>2. OneHello' /\ LoopHonest'
  BY <1>1, OneHelloStep, LoopHonestStep
<1>3. unanswered' \subseteq 1 .. Len(issued')
  <2>1. unanswered \subseteq 1 .. Len(issued) /\ 1 .. Len(issued) \subseteq 1 .. Len(issued')
    BY <1>1 DEF RInv, Later
  <2>2. CASE FinishVerification
    <3>1. NewestIn(issued, net.read, net.id) /\ issued' = issued
      BY <2>2 DEF FinishVerification, RInv, IInv, NetNewest
    <3> QED
      BY <2>1, <2>2, <3>1 DEF FinishVerification, NewestIn, Signed
  <2>3. CASE unanswered' = unanswered
    BY <2>1, <2>3
  <2> QED
    BY <2>2, <2>3 DEF Next, Tick, ClientStep, Connect, HandleChallenge, HandleAuthResult, NetStep,
       HandleHello, ReadChallenge, LoopStep, Wake, ScanNext, DeleteNext, Interrupt, Exit,
       loopUnchanged, vars
<1> QED
  BY <1>1, <1>2, <1>3 DEF RInv

\* It holds before the first hello.
LEMMA RInvInit == Init => RInv
<1> SUFFICES ASSUME Init PROVE RInv
  OBVIOUS
<1>1. IInv /\ Held = {}
  BY InvInit DEF Init, Held
<1>2. Len(issued) = 0
  BY DEF Init
<1>3. LoopHonest
  BY <1>1 DEF Init, LoopHonest, Asleep
<1>4. \A c \in Registered : Unsaid(c) /\ said[c] = 0
  BY <1>2, SessionsAssumption DEF Init, Unsaid, Untouched, NoAnswer, NoneIssued, Verified
<1> QED
  BY <1>1, <1>3, <1>4 DEF Init, RInv, OneHello, OneHelloOf

\* A registered client that said hello once is refused, or left without a
\* result, only when its challenge got older than the timeout.
THEOREM OnlyTheLateAreRefused == Spec => []RefusedForAReason
BY RInvInit, RInvStep, RInvReason, PTL DEF Spec

-----------------------------------------------------------------------------
(* The promise of module Handshake.                                        *)

\* A process is sent challenges of its own id, and told of a success only if one
\* of these was accepted.
HonestMail ==
    \A s \in Sessions : \A m \in inbox[s] :
      /\ m.kind = "challenge" => <<m.nonce, idOf[s]>> \in Challenges
      /\ m.kind = "result" /\ m.success => <<m.nonce, idOf[s]>> \in Granted

HInv == IInv /\ HonestMail

LEMMA ChallengeIs ==
    ASSUME NEW n, NEW c
    PROVE  /\ <<n, c>> \in Challenges <=> n \in 1 .. Len(issued) /\ issued[n].id = c
           /\ <<n, c>> \in Granted <=> n \in 1 .. Len(issued) /\ issued[n].id = c /\ n \in accepted
BY DEF Challenges, Granted

LEMMA ChallengeIsPrime ==
    ASSUME NEW n, NEW c
    PROVE  /\ <<n, c>> \in Challenges' <=> n \in 1 .. Len(issued') /\ issued'[n].id = c
           /\ <<n, c>> \in Granted' <=> n \in 1 .. Len(issued') /\ issued'[n].id = c /\ n \in accepted'
BY DEF Challenges, Granted

\* Challenges stay on record, and so does that they were accepted.
LEMMA RecordGrows ==
    ASSUME Later, accepted \subseteq accepted', NEW n, NEW c
    PROVE  /\ <<n, c>> \in Challenges => <<n, c>> \in Challenges'
           /\ <<n, c>> \in Granted => <<n, c>> \in Granted'
BY ChallengeIs, ChallengeIsPrime DEF Later

\* No mail is added.
LEMMA NoMail ==
    ASSUME HonestMail, Later, accepted \subseteq accepted', idOf' = idOf,
           \A s \in Sessions : inbox'[s] \subseteq inbox[s]
    PROVE  HonestMail'
BY RecordGrows DEF HonestMail

\* Honest mail is added.
LEMMA GoodMail ==
    ASSUME HonestMail, Later, accepted \subseteq accepted', idOf' = idOf,
           NEW c, NEW m, Publish(c, m),
           m.kind = "challenge" => <<m.nonce, c>> \in Challenges',
           m.kind = "result" /\ m.success => <<m.nonce, c>> \in Granted'
    PROVE  HonestMail'
<1> SUFFICES ASSUME NEW s \in Sessions, NEW x \in inbox'[s]
             PROVE  /\ x.kind = "challenge" => <<x.nonce, idOf[s]>> \in Challenges'
                    /\ x.kind = "result" /\ x.success => <<x.nonce, idOf[s]>> \in Granted'
  BY DEF HonestMail
<1>1. x \in inbox[s] \/ (x = m /\ idOf[s] = c)
  BY DEF Publish
<1> QED
  BY <1>1, RecordGrows DEF HonestMail

\* A step that leaves the promise's variables alone, except for answers lost.
LEMMA SamePromise ==
    ASSUME UNCHANGED <<idOf, issued, accepted, authenticated>>,
           Open' = Open, Signatures' \subseteq Signatures
    PROVE  [Promise!Next]_(Promise!vars)
BY DEF Promise!Next, Promise!Discard, Challenges, Granted

LEMMA SameSignatures ==
    ASSUME UNCHANGED <<idOf, responses>>, net' \in {net, NoVerification}
    PROVE  Signatures' \subseteq Signatures
BY DEF Signatures

LEMMA SameOpen ==
    ASSUME UNCHANGED challenges
    PROVE  Open' = Open
BY DEF Open, Held

\* An entry that is removed.
LEMMA RemoveOpen ==
    ASSUME TypeOK, NEW c \in Held, challenges' = Remove(c)
    PROVE  Open' = Open \ {<<challenges[c].nonce, c>>}
<1>1. challenges \in [Ids -> Entry \union {NoEntry}] /\ c \in Ids
  BY DEF TypeOK, Held
<1>2. Held' = Held \ {c} /\ \A d \in Held' : challenges'[d] = challenges[d]
  BY <1>1 DEF Remove, Held
<1> QED
  BY <1>2 DEF Open

LEMMA InitPromise == Init => Promise!Init /\ HInv
<1> SUFFICES ASSUME Init PROVE Promise!Init /\ HInv
  OBVIOUS
<1>1. Held = {} /\ Challenges = {} /\ Granted = {} /\ Signatures = {} /\ Open = {}
  <2>1. Held = {} /\ issued = << >> /\ responses = {} /\ net = NoVerification
    BY DEF Init, Held
  <2>2. Challenges = {}
    BY <2>1 DEF Challenges
  <2> QED
    BY <2>1, <2>2 DEF Granted, Signatures, Open
<1>2. idOf \in [Sessions -> Ids] /\ {s \in Sessions : authenticated[s]} = {}
  BY SessionsAssumption DEF Init
<1>3. HonestMail
  BY DEF Init, HonestMail
<1> QED
  BY <1>1, <1>2, <1>3, InvInit DEF HInv, Promise!Init

LEMMA ClientPromise ==
    ASSUME HInv, Later, ClientStep
    PROVE  [Promise!Next]_(Promise!vars) /\ HonestMail'
<1>0. TypeOK /\ HonestMail
  BY DEF HInv, IInv
<1>1. ASSUME NEW s \in Sessions, Connect(s)
      PROVE  [Promise!Next]_(Promise!vars) /\ HonestMail'
  <2>1. UNCHANGED <<idOf, issued, accepted, authenticated, challenges, responses, net>>
    BY <1>1 DEF Connect
  <2>2. \A t \in Sessions : inbox'[t] \subseteq inbox[t]
    BY <1>0, <1>1 DEF Connect, TypeOK
  <2> QED
    BY <1>0, <2>1, <2>2, SamePromise, SameSignatures, SameOpen, NoMail
<1>2. ASSUME NEW s \in Sessions, NEW m \in inbox[s], HandleChallenge(s, m)
      PROVE  [Promise!Next]_(Promise!vars) /\ HonestMail'
  <2>1. UNCHANGED <<idOf, issued, accepted, authenticated, challenges, net>>
    BY <1>2 DEF HandleChallenge, clientVars
  <2>2. \A t \in Sessions : inbox'[t] \subseteq inbox[t]
    BY <1>0, <1>2 DEF HandleChallenge, TypeOK
  <2>3. Signatures' = Signatures \union {<<m.nonce, idOf[s]>>}
    <3> DEFINE r == [from |-> s, nonce |-> m.nonce]
    <3>1. responses' = responses \union {r} /\ r.from = s /\ r.nonce = m.nonce
      BY <1>2 DEF HandleChallenge
    <3> HIDE DEF r
    <3> QED
      BY <2>1, <3>1 DEF Signatures
  <2>4. <<m.nonce, idOf[s]>> \in Challenges
    BY <1>0, <1>2 DEF HandleChallenge, HonestMail
  <2>5. Challenges' = Challenges /\ Granted' = Granted /\ Open' = Open
    BY <2>1, SameOpen DEF Challenges, Granted
  <2>6. Promise!Sign(s)
    BY <2>1, <2>3, <2>4, <2>5 DEF Promise!Sign
  <2> QED
    BY <1>0, <2>1, <2>2, <2>6, NoMail DEF Promise!Next
<1>3. ASSUME NEW s \in Sessions, NEW m \in inbox[s], HandleAuthResult(s, m)
      PROVE  [Promise!Next]_(Promise!vars) /\ HonestMail'
  <2>1. UNCHANGED <<idOf, issued, accepted, challenges, net, responses>> /\ m.kind = "result"
    BY <1>3 DEF HandleAuthResult
  <2>2. \A t \in Sessions : inbox'[t] \subseteq inbox[t]
    BY <1>0, <1>3 DEF HandleAuthResult, TypeOK
  <2>3. CASE m.success
    <3>1. {t \in Sessions : authenticated'[t]} = {t \in Sessions : authenticated[t]} \union {s}
      BY <1>0, <1>3, <2>3 DEF HandleAuthResult, TypeOK
    <3>2. <<m.nonce, idOf[s]>> \in Granted
      BY <1>0, <2>1, <2>3 DEF HonestMail
    <3>3. Challenges' = Challenges /\ Granted' = Granted /\ Open' = Open /\ Signatures' = Signatures
      BY <2>1, SameOpen DEF Challenges, Granted, Signatures
    <3>4. Promise!Trust(s)
      BY <2>1, <3>1, <3>2, <3>3 DEF Promise!Trust
    <3> QED
      BY <1>0, <2>1, <2>2, <3>4, NoMail DEF Promise!Next
  <2>4. CASE ~m.success
    BY <1>0, <1>3, <2>1, <2>2, <2>4, SamePromise, SameSignatures, SameOpen, NoMail DEF HandleAuthResult
  <2> QED
    BY <2>3, <2>4
<1> QED
  BY <1>1, <1>2, <1>3 DEF ClientStep

\* A hello of a registered client opens a challenge with a nonce of its own.
LEMMA HelloPromise ==
    ASSUME HInv, Later, NEW s \in Sessions, HandleHello(s)
    PROVE  [Promise!Next]_(Promise!vars) /\ HonestMail'
<1> DEFINE c == idOf[s]
           n == Len(issued) + 1
           mail == [kind |-> "challenge", nonce |-> n]
<1>0. /\ TypeOK /\ HonestMail /\ c \in Ids /\ Len(issued) \in Nat
      /\ challenges \in [Ids -> Entry \union {NoEntry}] /\ issued \in Seq([id : Ids, stamp : Nat])
  BY SessionsAssumption DEF HInv, IInv, TypeOK
<1>1. UNCHANGED <<idOf, responses, net, accepted, authenticated>>
  BY DEF HandleHello
<1>2. CASE c \in Registered
  <2>1. /\ challenges' = [challenges EXCEPT ![c] = [nonce |-> n, stamp |-> clock]]
        /\ issued' = Append(issued, [id |-> c, stamp |-> clock]) /\ Publish(c, mail)
    BY <1>2 DEF HandleHello, Store
  <2>2. [id |-> c, stamp |-> clock] \in [id : Ids, stamp : Nat]
    BY <1>0 DEF TypeOK
  <2>3. /\ Len(issued') = n /\ issued'[n].id = c
        /\ \A k \in 1 .. Len(issued) : issued'[k] = issued[k]
    BY <1>0, <2>1, <2>2
  <2>4. Challenges' = Challenges \union {<<n, c>>}
    <3>1. 1 .. Len(issued') = 1 .. Len(issued) \union {n}
      BY <1>0, <2>3
    <3> QED
      BY <2>3, <3>1 DEF Challenges
  <2>5. \A q \in Challenges : q[1] # n
    BY <1>0 DEF Challenges
  <2>6. Granted' = Granted
    <3>1. n \notin accepted
      BY <1>0 DEF HInv, IInv, AcceptedIssued
    <3> QED
      BY <1>1, <2>4, <3>1 DEF Granted
  <2>7. Open' = {q \in Open : q[2] # c} \union {<<n, c>>}
    <3>1. [nonce |-> n, stamp |-> clock] # NoEntry
      BY <1>0, SentinelsAssumption DEF Entry, TypeOK
    <3>2. /\ Held' = (Held \ {c}) \union {c} /\ challenges'[c].nonce = n
          /\ \A d \in Held \ {c} : challenges'[d] = challenges[d]
      BY <1>0, <2>1, <3>1 DEF Held
    <3> QED
      BY <3>2 DEF Open
  <2>8. Signatures' = Signatures
    BY <1>1 DEF Signatures
  <2>9. Promise!Challenge(<<n, c>>)
    BY <1>1, <2>4, <2>5, <2>6, <2>7, <2>8 DEF Promise!Challenge
  <2>10. HonestMail'
    BY <1>0, <1>1, <2>1, <2>4, GoodMail
  <2> QED
    BY <2>4, <2>9, <2>10 DEF Promise!Next
<1>3. CASE c \notin Registered
  <2>1. UNCHANGED <<issued, challenges>> /\ Publish(c, [kind |-> "result", nonce |-> 0, success |-> FALSE])
    BY <1>3 DEF HandleHello
  <2> QED
    BY <1>0, <1>1, <2>1, SamePromise, SameSignatures, SameOpen, GoodMail
<1> QED
  BY <1>2, <1>3

LEMMA ReadPromise ==
    ASSUME HInv, Later, NEW r \in responses, ReadChallenge(r)
    PROVE  [Promise!Next]_(Promise!vars) /\ HonestMail'
<1>0. TypeOK /\ HonestMail
  BY DEF HInv, IInv
<1>1. /\ UNCHANGED <<idOf, issued, accepted, authenticated, challenges>>
      /\ responses' = responses \ {r}
  BY DEF ReadChallenge, clientVars
<1>2. CASE idOf[r.from] \in Held
  <2>1. net' = [id |-> idOf[r.from], answer |-> r.nonce, read |-> challenges[idOf[r.from]].nonce]
    BY <1>2 DEF ReadChallenge
  <2>2. inbox' = inbox
    BY <1>2 DEF ReadChallenge
  <2>3. Signatures' \subseteq Signatures
    BY <1>1, <2>1 DEF Signatures
  <2> QED
    BY <1>0, <1>1, <2>2, <2>3, SamePromise, SameOpen, NoMail
<1>3. CASE idOf[r.from] \notin Held
  <2>1. UNCHANGED net
    BY <1>3 DEF ReadChallenge
  <2>2. Publish(idOf[r.from], [kind |-> "result", nonce |-> r.nonce, success |-> FALSE])
    BY <1>3 DEF ReadChallenge, Refuse
  <2>3. Signatures' \subseteq Signatures
    BY <1>1, <2>1 DEF Signatures
  <2> QED
    BY <1>0, <1>1, <2>2, <2>3, SamePromise, SameOpen, GoodMail
<1> QED
  BY <1>2, <1>3

\* What is accepted is the open challenge of the id, signed by one of its processes.
LEMMA FinishPromise ==
    ASSUME HInv, Later, FinishVerification
    PROVE  [Promise!Next]_(Promise!vars) /\ HonestMail'
<1>0. TypeOK /\ HonestMail /\ net # NoVerification
  BY DEF HInv, IInv, FinishVerification
<1>1. UNCHANGED <<idOf, issued, authenticated, responses>> /\ net' = NoVerification
  BY DEF FinishVerification, clientVars
<1>2. Signatures' \subseteq Signatures /\ <<net.answer, net.id>> \in Signatures
  BY <1>0, <1>1 DEF Signatures
<1>3. CASE ~Signed
  <2>1. UNCHANGED <<challenges, accepted>> /\ Publish(net.id, [kind |-> "result", nonce |-> net.answer, success |-> FALSE])
    BY <1>3 DEF FinishVerification, Refuse
  <2> QED
    BY <1>0, <1>1, <1>2, <2>1, SamePromise, SameOpen, GoodMail
<1>4. CASE Signed /\ net.id \notin Held
  <2>1. UNCHANGED <<challenges, accepted, inbox>>
    BY <1>4 DEF FinishVerification
  <2> QED
    BY <1>0, <1>1, <1>2, <2>1, SamePromise, SameOpen, NoMail
<1>5. CASE Signed /\ net.id \in Held
  <2> DEFINE c == <<net.answer, net.id>>
  <2>1. /\ challenges' = Remove(net.id) /\ accepted' = accepted \union {net.answer}
        /\ Publish(net.id, [kind |-> "result", nonce |-> net.answer, success |-> TRUE])
        /\ net.answer = net.read
    BY <1>5 DEF FinishVerification, Signed
  <2>2. NewestIn(issued, net.read, net.id) /\ NewestIn(issued, challenges[net.id].nonce, net.id)
    BY <1>0, <1>5 DEF HInv, IInv, NetNewest, HeldNewest
  <2>3. challenges[net.id].nonce = net.answer /\ c \in Challenges
    BY <2>1, <2>2, ChallengeIs DEF NewestIn
  <2>4. Open' = Open \ {c} /\ c \in Open
    BY <1>0, <1>5, <2>1, <2>3, RemoveOpen DEF Open
  <2>5. Challenges' = Challenges
    BY <1>1 DEF Challenges
  <2>6. Granted' = Granted \union {c}
    <3>1. \A q \in Challenges : q[1] = net.answer => q = c
      BY <2>3 DEF Challenges
    <3> QED
      BY <2>1, <2>3, <2>5, <3>1 DEF Granted
  <2>7. Promise!Grant(c)
    BY <1>1, <1>2, <2>4, <2>5, <2>6 DEF Promise!Grant
  <2>8. HonestMail'
    BY <1>0, <1>1, <2>1, <2>6, GoodMail
  <2> QED
    BY <2>4, <2>7, <2>8 DEF Promise!Next
<1> QED
  BY <1>3, <1>4, <1>5

LEMMA LoopPromise ==
    ASSUME HInv, Later, Tick \/ LoopStep \/ Interrupt \/ Exit \/ UNCHANGED vars
    PROVE  [Promise!Next]_(Promise!vars) /\ HonestMail'
<1>0. TypeOK /\ HonestMail
  BY DEF HInv, IInv
<1>1. /\ UNCHANGED <<idOf, issued, accepted, authenticated, inbox, responses>>
      /\ net' \in {net, NoVerification}
  BY DEF Tick, LoopStep, Wake, ScanNext, DeleteNext, Interrupt, Exit, loopUnchanged, clientVars, vars
<1>2. HonestMail' /\ Signatures' \subseteq Signatures
  BY <1>0, <1>1, NoMail, SameSignatures
<1>3. CASE UNCHANGED challenges
  BY <1>1, <1>2, <1>3, SamePromise, SameOpen
<1>4. ASSUME NEW c \in Held, challenges' = Remove(c), LoopStep
      PROVE  [Promise!Next]_(Promise!vars)
  <2>1. UNCHANGED net
    BY <1>4 DEF LoopStep, Wake, ScanNext, DeleteNext, loopUnchanged
  <2>2. Open' = Open \ {<<challenges[c].nonce, c>>} /\ <<challenges[c].nonce, c>> \in Open
    BY <1>0, <1>4, RemoveOpen DEF Open
  <2>3. Challenges' = Challenges /\ Granted' = Granted /\ Signatures' = Signatures
    BY <1>1, <2>1 DEF Challenges, Granted, Signatures
  <2>4. Promise!Close(<<challenges[c].nonce, c>>)
    BY <1>1, <2>2, <2>3 DEF Promise!Close
  <2> QED
    BY <2>2, <2>4 DEF Promise!Next
<1>5. \/ UNCHANGED challenges
      \/ LoopStep /\ \E c \in Held : challenges' = Remove(c)
  BY DEF Tick, LoopStep, Wake, ScanNext, DeleteNext, Interrupt, Exit, vars
<1> QED
  BY <1>2, <1>3, <1>4, <1>5

LEMMA StepPromise ==
    ASSUME HInv, [Next]_vars
    PROVE  [Promise!Next]_(Promise!vars) /\ HInv'
<1>1. Later /\ IInv'
  BY LaterStep, InvStep DEF HInv, IInv
<1> QED
  BY <1>1, ClientPromise, HelloPromise, ReadPromise, FinishPromise, LoopPromise DEF HInv, Next, NetStep

\* The handshake keeps its promise: whatever the service loop, the other clients
\* and the other processes of an id do, only the open challenge of an id is
\* accepted, when a process of that id signed it, and a process takes itself for
\* authenticated only after that (verify_response, cleanup_timeouts,
\* _handle_auth_result).
THEOREM HandshakeKept == Spec => PromiseSpec
<1>1. Init => Promise!Init /\ HInv
  BY InitPromise
<1>2. HInv /\ [Next]_vars => [Promise!Next]_(Promise!vars) /\ HInv'
  BY StepPromise
<1> QED
  BY <1>1, <1>2, PTL DEF Spec, PromiseSpec, Promise!Spec

=============================================================================
