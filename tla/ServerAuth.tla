------------------------------ MODULE ServerAuth ------------------------------
(***************************************************************************)
(* The challenge-response handshake: hellos and answers of the clients,    *)
(* handled one at a time on the server's MQTT network thread (server.py    *)
(* _handle_hello, _handle_auth_response), and the service loop on its main *)
(* thread, which removes expired challenges once a second (server.py       *)
(* start, auth.py cleanup_timeouts).  The two threads share the dict       *)
(* ServerAuth._challenges without a lock, so each is modelled one access   *)
(* of the dict at a time.                                                  *)
(*                                                                         *)
(* A client process is a session.  Topics carry the client id, while the   *)
(* MQTT session is named after the process, so every session of an id      *)
(* receives all its challenges and results.  A nonce is the number of its  *)
(* challenge; a signature names the nonce it signs.                        *)
(***************************************************************************)
EXTENDS Integers, Sequences, FiniteSets

CONSTANTS
    Sessions,       \* client processes
    Ids,            \* client ids
    Lineups,        \* the client ids the sessions may be configured with
    Registered,     \* ids in the clients file
    Timeout,        \* challenge_timeout
    NoEntry,        \* "client_id not in _challenges"
    NoVerification, \* the network thread is not in verify_response
    HelloBound,     \* bound: hellos of each client id
    MaxTime,        \* bound: the clock
    MayStop         \* whether the server may be interrupted

ASSUME SessionsAssumption == Lineups \subseteq [Sessions -> Ids] /\ Registered \subseteq Ids
ASSUME IdsAssumption == IsFiniteSet(Ids)
ASSUME NumbersAssumption ==
    /\ {Timeout, MaxTime} \subseteq Nat
    /\ HelloBound \in [Ids -> Nat]
    /\ MayStop \in BOOLEAN

VARIABLES
    clock,          \* time.time()
    challenges,     \* server: _challenges
    loop,           \* server: the service loop on the main thread
    net,            \* server: what verify_response has read
    up,             \* server: the process is there
    idOf,           \* client: client_id of each session, from its configuration
    hellos,         \* channel: hellos in flight, per session
    responses,      \* channel: signed challenges in flight
    inbox,          \* channel: challenges and results, per session
    connected,      \* client: connected once, so subscribed
    authenticated,  \* client: _authenticated
    refused,        \* client: a result said "Authentication failed"
    said,           \* bound and history: hellos sent, per client id
    issued,         \* history: client id and time of each challenge
    accepted,       \* history: nonces answered with success
    unanswered      \* history: nonces whose answer led to no result

vars == <<clock, challenges, loop, net, up, idOf, hellos, responses, inbox, connected,
          authenticated, refused, said, issued, accepted, unanswered>>
clientVars == <<idOf, hellos, connected, authenticated, refused, said>>

Entry == [nonce : Nat, stamp : Nat]
Held == {c \in Ids : challenges[c] # NoEntry}

\* The service loop: asleep, iterating over _challenges (seen are the entries
\* passed, size and left what the iterator knows of the dict), deleting what
\* it found, or no longer there.
LoopPlaces == {"sleep", "scan", "delete", "stopping", "dead"}
Loop == [pc : LoopPlaces, now : Nat, seen : SUBSET Ids, size : Nat, left : Nat,
         expired : SUBSET Ids]
Verification == [id : Ids, answer : Nat, read : Nat]

Challenge == [kind : {"challenge"}, nonce : Nat]
Result == [kind : {"result"}, nonce : Nat, success : BOOLEAN]
Response == [from : Sessions, nonce : Nat]

ASSUME SentinelsAssumption == NoEntry \notin Entry /\ NoVerification \notin Verification

Asleep == [pc |-> "sleep", now |-> 0, seen |-> {}, size |-> 0, left |-> 0, expired |-> {}]

Init ==
    /\ clock = 0
    /\ challenges = [c \in Ids |-> NoEntry]
    /\ loop = Asleep
    /\ net = NoVerification
    /\ up = TRUE
    /\ idOf \in Lineups
    /\ hellos = [s \in Sessions |-> 0]
    /\ responses = {}
    /\ inbox = [s \in Sessions |-> {}]
    /\ connected = [s \in Sessions |-> FALSE]
    /\ authenticated = [s \in Sessions |-> FALSE]
    /\ refused = [s \in Sessions |-> FALSE]
    /\ said = [c \in Ids |-> 0]
    /\ issued = << >>
    /\ accepted = {}
    /\ unanswered = {}

\* The challenge sent last to a client id.
IsNewest(n, c) ==
    /\ n \in 1 .. Len(issued) /\ issued[n].id = c
    /\ \A m \in 1 .. Len(issued) : issued[m].id = c => m <= n

\* A message published for a client id reaches all its sessions.
Publish(c, m) ==
    inbox' = [s \in Sessions |->
                IF idOf[s] = c /\ connected[s] THEN inbox[s] \union {m} ELSE inbox[s]]

Tick ==
    /\ clock < MaxTime
    /\ clock' = clock + 1
    /\ UNCHANGED <<challenges, loop, net, up, responses, inbox, issued, accepted, unanswered>>
    /\ UNCHANGED clientVars

-----------------------------------------------------------------------------
(* The client's handlers.                                                  *)

\* _on_connect, the first time or after a lost connection, whose clean session
\* keeps nothing: subscribe, then say hello.
Connect(s) ==
    /\ said[idOf[s]] < HelloBound[idOf[s]]
    /\ said' = [said EXCEPT ![idOf[s]] = @ + 1]
    /\ hellos' = [hellos EXCEPT ![s] = @ + 1]
    /\ connected' = [connected EXCEPT ![s] = TRUE]
    /\ inbox' = [inbox EXCEPT ![s] = {}]
    /\ UNCHANGED <<clock, challenges, loop, net, up, idOf, responses, authenticated,
                   refused, issued, accepted, unanswered>>

\* _handle_challenge: sign and answer at once.
HandleChallenge(s, m) ==
    /\ m \in inbox[s] /\ m.kind = "challenge"
    /\ inbox' = [inbox EXCEPT ![s] = @ \ {m}]
    /\ responses' = responses \union {[from |-> s, nonce |-> m.nonce]}
    /\ UNCHANGED <<clock, challenges, loop, net, up, issued, accepted, unanswered>>
    /\ UNCHANGED clientVars

\* _handle_auth_result
HandleAuthResult(s, m) ==
    /\ m \in inbox[s] /\ m.kind = "result"
    /\ inbox' = [inbox EXCEPT ![s] = @ \ {m}]
    /\ IF m.success
       THEN authenticated' = [authenticated EXCEPT ![s] = TRUE] /\ UNCHANGED refused
       ELSE refused' = [refused EXCEPT ![s] = TRUE] /\ UNCHANGED authenticated
    /\ UNCHANGED <<clock, challenges, loop, net, up, idOf, hellos, responses, connected, said,
                   issued, accepted, unanswered>>

-----------------------------------------------------------------------------
(* The server's network thread.                                            *)

NetIdleMutant == TRUE   \* mutant: a pool of threads handles the messages
\* One message at a time.
NetIdle == net = NoVerification

\* start_challenge: a second hello replaces the entry of the first.
Store(c, n) == [challenges EXCEPT ![c] = [nonce |-> n, stamp |-> clock]]

\* _handle_hello
HandleHello(s) ==
    /\ up /\ NetIdle /\ hellos[s] > 0
    /\ hellos' = [hellos EXCEPT ![s] = @ - 1]
    /\ LET c == idOf[s]
           n == Len(issued) + 1
       IN  IF c \in Registered
           THEN /\ challenges' = Store(c, n)
                /\ issued' = Append(issued, [id |-> c, stamp |-> clock])
                /\ Publish(c, [kind |-> "challenge", nonce |-> n])
           ELSE /\ Publish(c, [kind |-> "result", nonce |-> 0, success |-> FALSE])
                /\ UNCHANGED <<challenges, issued>>
    /\ UNCHANGED <<clock, loop, net, up, idOf, responses, connected, authenticated,
                   refused, said, accepted, unanswered>>

Refuse(c, n) == Publish(c, [kind |-> "result", nonce |-> n, success |-> FALSE])

\* _handle_auth_response up to the lookup in verify_response.
ReadChallenge(r) ==
    /\ up /\ NetIdle /\ r \in responses
    /\ responses' = responses \ {r}
    /\ LET c == idOf[r.from]
       IN  IF c \in Held
           THEN /\ net' = [id |-> c, answer |-> r.nonce, read |-> challenges[c].nonce]
                /\ UNCHANGED inbox
           ELSE /\ Refuse(c, r.nonce)
                /\ UNCHANGED net
    /\ UNCHANGED <<clock, challenges, loop, up, issued, accepted, unanswered>>
    /\ UNCHANGED clientVars

RemoveMutant(c) == challenges   \* mutant: the entry is left there
RemoveMutant2(c) == [challenges EXCEPT ![c].nonce = NoEntry]   \* mutant: emptied, not deleted
\* del self._challenges[client_id]
Remove(c) == [challenges EXCEPT ![c] = NoEntry]

SignedMutant == TRUE   \* mutant: the signature is not verified
\* verify_challenge, with the key of the entry read.
Signed == net.answer = net.read

\* verify_response from the check of the signature on: the entry may be gone
\* by now, and the KeyError ends in _on_message, with no result published.
\* An iteration of the service loop that passed the entry forgets it with it.
FinishVerification ==
    /\ up /\ net # NoVerification
    /\ net' = NoVerification
    /\ \/ /\ ~Signed
          /\ Refuse(net.id, net.answer)
          /\ UNCHANGED <<challenges, loop, accepted, unanswered>>
       \/ /\ Signed /\ net.id \in Held
          /\ challenges' = Remove(net.id)
          /\ loop' = [loop EXCEPT !.seen = @ \ {net.id}]
          /\ accepted' = accepted \union {net.answer}
          /\ Publish(net.id, [kind |-> "result", nonce |-> net.answer, success |-> TRUE])
          /\ UNCHANGED unanswered
       \/ /\ Signed /\ net.id \notin Held
          /\ unanswered' = unanswered \union {net.answer}
          /\ UNCHANGED <<challenges, loop, accepted, inbox>>
    /\ UNCHANGED <<clock, up, responses, issued>>
    /\ UNCHANGED clientVars

-----------------------------------------------------------------------------
(* The service loop on the main thread.                                    *)

loopUnchanged == <<clock, net, up, responses, inbox, issued, accepted, unanswered>>

\* sleep(1) is over: cleanup_timeouts looks at the clock and makes an iterator.
Wake ==
    /\ up /\ loop.pc = "sleep"
    /\ loop' = [Asleep EXCEPT !.pc = "scan", !.now = clock,
                              !.size = Cardinality(Held), !.left = Cardinality(Held)]
    /\ UNCHANGED challenges /\ UNCHANGED loopUnchanged /\ UNCHANGED clientVars

ExpiredMutant(c) == TRUE   \* mutant: the age is not compared
ExpiredMutant2(c) == challenges[c].stamp - loop.now > Timeout   \* mutant: operands swapped
Expired(c) == loop.now - challenges[c].stamp > Timeout

\* The exception leaves start(): no more iterations.
LoopDies == loop' = [Asleep EXCEPT !.pc = "dead"]

\* The entries the iterator still expects.
Left == IF loop.left = 0 THEN 0 ELSE loop.left - 1

\* One step of the iteration.  The iterator raises RuntimeError when the size
\* of the dict is not what it was, and may do so when it meets an entry more
\* than it started with.
ScanNext ==
    /\ up /\ loop.pc = "scan"
    /\ \/ Cardinality(Held) # loop.size /\ LoopDies
       \/ /\ Cardinality(Held) = loop.size /\ Held \subseteq loop.seen
          /\ loop' = [loop EXCEPT !.pc = "delete"]
       \/ /\ Cardinality(Held) = loop.size
          /\ \E c \in Held \ loop.seen :
               \/ loop.left = 0 /\ LoopDies
               \/ loop' = [loop EXCEPT
                    !.seen = @ \union {c},
                    !.left = Left,
                    !.expired = IF Expired(c) THEN @ \union {c} ELSE @]
    /\ UNCHANGED challenges /\ UNCHANGED loopUnchanged /\ UNCHANGED clientVars

\* One step of the deletions: by client id, whatever entry is there now, and
\* with a KeyError when there is none.
DeleteNext ==
    /\ up /\ loop.pc = "delete"
    /\ \/ loop.expired = {} /\ loop' = Asleep /\ UNCHANGED challenges
       \/ \E c \in loop.expired :
            \/ /\ c \in Held
               /\ challenges' = Remove(c)
               /\ loop' = [loop EXCEPT !.expired = @ \ {c}]
            \/ c \notin Held /\ LoopDies /\ UNCHANGED challenges
    /\ UNCHANGED loopUnchanged /\ UNCHANGED clientVars

\* KeyboardInterrupt, wherever the main thread is: stop().
Interrupt ==
    /\ MayStop /\ up /\ loop.pc # "dead"
    /\ loop' = [Asleep EXCEPT !.pc = "stopping"]
    /\ UNCHANGED challenges /\ UNCHANGED loopUnchanged /\ UNCHANGED clientVars

\* The end of the main thread takes the process with it: after stop, which
\* waits for the network thread (loop_stop), or after an exception.
Exit ==
    /\ up /\ \/ loop.pc = "stopping" /\ net = NoVerification
             \/ loop.pc = "dead"
    /\ up' = FALSE
    /\ net' = NoVerification
    /\ UNCHANGED <<clock, challenges, loop, responses, inbox, issued, accepted, unanswered>>
    /\ UNCHANGED clientVars

-----------------------------------------------------------------------------
ClientStep ==
    \E s \in Sessions :
        \/ Connect(s)
        \/ \E m \in inbox[s] : HandleChallenge(s, m) \/ HandleAuthResult(s, m)

NetStep ==
    \/ \E s \in Sessions : HandleHello(s)
    \/ \E r \in responses : ReadChallenge(r)
    \/ FinishVerification

LoopStep == Wake \/ ScanNext \/ DeleteNext

Next == Tick \/ ClientStep \/ NetStep \/ LoopStep \/ Interrupt \/ Exit

Spec == Init /\ [][Next]_vars

\* Time passes and the main thread runs.
FairSpec == Spec /\ WF_vars(Tick) /\ WF_vars(LoopStep)

-----------------------------------------------------------------------------
(* Properties.                                                             *)

\* Every variable has its type.
TypeOK ==
    /\ clock \in Nat /\ up \in BOOLEAN
    /\ challenges \in [Ids -> Entry \union {NoEntry}]
    /\ loop \in Loop
    /\ net \in Verification \union {NoVerification}
    /\ idOf \in Lineups
    /\ hellos \in [Sessions -> Nat] /\ said \in [Ids -> Nat]
    /\ responses \in SUBSET Response
    /\ inbox \in [Sessions -> SUBSET (Challenge \union Result)]
    /\ connected \in [Sessions -> BOOLEAN]
    /\ authenticated \in [Sessions -> BOOLEAN] /\ refused \in [Sessions -> BOOLEAN]
    /\ issued \in Seq([id : Ids, stamp : Nat])
    /\ accepted \in SUBSET Nat /\ unanswered \in SUBSET Nat

\* Only the challenge sent last is ever accepted: while an answer is verified
\* no hello replaces the entry that was read, and an answer to an earlier
\* challenge fails.
OnlyNewestAccepted ==
    [][\A n \in accepted' \ accepted : \E c \in Ids : IsNewest(n, c)]_vars

\* An accepted challenge is gone, whatever the service loop does meanwhile, so
\* that a second answer to it fails.
AcceptedIsGone == \A c \in Held : challenges[c].nonce \notin accepted

\* A registered client that said hello once is refused, or left without a
\* result, only after its challenge got older than the timeout.
TimedOut(c) == \E n \in 1 .. Len(issued) : issued[n].id = c /\ clock - issued[n].stamp > Timeout
RefusedForAReason ==
    \A s \in Sessions : LET c == idOf[s] IN
        c \in Registered /\ said[c] = 1 =>
          (refused[s] \/ (\E n \in unanswered : issued[n].id = c) => TimedOut(c))

\* A challenge nobody answers is removed in the end, as long as the service
\* loop runs.
Stale(c) == c \in Held /\ clock - challenges[c].stamp > Timeout
StaleRemoved == \A c \in Ids : Stale(c) ~> (~Stale(c) \/ loop.pc \in {"stopping", "dead"})

\* server.py:142, "Service loop - handle timeouts and keep alive": the loop
\* ends only with the server.
ServiceLoopRuns == loop.pc # "dead"

\* The promise of module Handshake.  What is signed is on its way to the server,
\* or being verified.
Challenges == {<<n, issued[n].id>> : n \in 1 .. Len(issued)}
Open == {<<challenges[c].nonce, c>> : c \in Held}
Signatures ==
    {<<r.nonce, idOf[r.from]>> : r \in responses} \union
    IF net = NoVerification THEN {} ELSE {<<net.answer, net.id>>}
Granted == {c \in Challenges : c[1] \in accepted}
Promise == INSTANCE Handshake WITH
    issued <- Challenges, open <- Open, signed <- Signatures, granted <- Granted,
    trusting <- {s \in Sessions : authenticated[s]}
PromiseSpec == Promise!Spec

=============================================================================
