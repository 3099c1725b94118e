------------------------------ MODULE Handshake ------------------------------
(***************************************************************************)
(* What the challenge-response handshake promises, however the server's    *)
(* threads and the client processes interleave: a challenge belongs to one *)
(* client id; at most one challenge of an id is open, and a new one closes *)
(* it; only an open challenge is accepted, only when a process of its id   *)
(* signed that very challenge, and that closes it; a process takes itself  *)
(* for authenticated only after a challenge of its id was accepted.  How   *)
(* long a challenge stays open is not promised.                            *)
(***************************************************************************)

CONSTANTS
    Sessions,       \* client processes
    Ids             \* client ids

VARIABLES
    idOf,           \* the id each process is configured with
    issued,         \* challenges: pairs of a nonce and the id it was sent to
    open,           \* those that may be accepted
    signed,         \* those that were answered
    granted,        \* those accepted
    trusting        \* processes that take themselves for authenticated

vars == <<idOf, issued, open, signed, granted, trusting>>

Init ==
    /\ idOf \in [Sessions -> Ids]
    /\ issued = {} /\ open = {} /\ signed = {} /\ granted = {} /\ trusting = {}

\* A challenge with a nonce of its own, in the place of an open one.
Challenge(c) ==
    /\ \A q \in issued : q[1] # c[1]
    /\ issued' = issued \union {c}
    /\ open' = {q \in open : q[2] # c[2]} \union {c}
    /\ UNCHANGED <<idOf, signed, granted, trusting>>

\* A process of the id signs the nonce.
Sign(s) ==
    /\ \E c \in issued : c[2] = idOf[s] /\ signed' = signed \union {c}
    /\ UNCHANGED <<idOf, issued, open, granted, trusting>>

\* An answer that comes too late, or that the server does not live to verify.
Discard ==
    /\ signed' \subseteq signed
    /\ UNCHANGED <<idOf, issued, open, granted, trusting>>

Grant(c) ==
    /\ c \in open \intersect signed
    /\ open' = open \ {c} /\ signed' \subseteq signed
    /\ granted' = granted \union {c}
    /\ UNCHANGED <<idOf, issued, trusting>>

Close(c) ==
    /\ open' = open \ {c}
    /\ UNCHANGED <<idOf, issued, signed, granted, trusting>>

Trust(s) ==
    /\ \E c \in granted : c[2] = idOf[s]
    /\ trusting' = trusting \union {s}
    /\ UNCHANGED <<idOf, issued, open, signed, granted>>

Next ==
    \/ \E c \in issued' : Challenge(c)
    \/ \E s \in Sessions : Sign(s) \/ Trust(s)
    \/ Discard
    \/ \E c \in open : Grant(c) \/ Close(c)

Spec == Init /\ [][Next]_vars

=============================================================================
