--------------------------- MODULE MCClientSession ---------------------------
(* Small instances of ClientSession and CsClientSession for TLC.           *)
EXTENDS CsClientSession, TLC

\* The C# client cannot connect again, which leaves room for one event more.
TotalOf == [language \in Languages |-> IF language = "C#" THEN 3 ELSE 2]
OneEach == [language \in Languages |-> 1]

=============================================================================
