---------------------------- MODULE MCServerAuth ----------------------------
(* Small instances of ServerAuth for TLC.                                  *)
EXTENDS ServerAuth, TLC

CONSTANTS s1, s2, a, b, u

\* The second process is another one of client a, a client of its own, or one
\* that is not registered.
With(id) == [s \in {s1, s2} |-> IF s = s1 THEN a ELSE id]
AnyLineup == {With(a), With(b), With(u)}
TwoClients == {With(b)}

\* Client a may say hello again, the others may not.
OneEach == [i \in {a, b, u} |-> 1]
AgainForA == [OneEach EXCEPT ![a] = 2]

=============================================================================
