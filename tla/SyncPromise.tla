---------------------------- MODULE SyncPromise ----------------------------
(***************************************************************************)
(* What serving files promises to a client, whatever the network does: a   *)
(* request is finished at most once and counted once, as downloaded or as  *)
(* failed; a download puts one version of the requested file at its own    *)
(* destination; nothing else touches the client's files.  How long that    *)
(* takes, and whether the version is the newest, is not promised.          *)
(***************************************************************************)
EXTENDS Integers

CONSTANTS Paths, LocalPaths, LocalPath, Fids, NoPath

VARIABLES versions, requested, pending, local, downloaded, failed

vars == <<versions, requested, pending, local, downloaded, failed>>

Init ==
    /\ versions \in SUBSET (Paths \X Nat)
    /\ requested = [f \in Fids |-> NoPath]
    /\ pending = {}
    /\ local = [l \in LocalPaths |-> [path |-> NoPath, ver |-> 0, form |-> "plain"]]
    /\ downloaded = [l \in LocalPaths |-> 0]
    /\ failed = [l \in LocalPaths |-> 0]

\* The server's files change: versions come, none is forgotten.
Change ==
    /\ versions' \in SUBSET (Paths \X Nat) /\ versions \subseteq versions'
    /\ UNCHANGED <<requested, pending, local, downloaded, failed>>

\* The client asks for files under ids never used before.
Ask(ids) ==
    /\ \A f \in ids : requested[f] = NoPath
    /\ \E path \in [ids -> Paths] :
         requested' = [f \in Fids |-> IF f \in ids THEN path[f] ELSE requested[f]]
    /\ pending' = pending \union ids
    /\ UNCHANGED <<versions, local, downloaded, failed>>

Destination(f) == LocalPath[requested[f]]

\* A version of the requested file arrives, decompressed or as it was sent.
Download(f) ==
    /\ f \in pending
    /\ pending' = pending \ {f}
    /\ \E v \in versions, form \in {"plain", "raw"} :
         /\ v[1] = requested[f]
         /\ local' = [local EXCEPT ![Destination(f)] =
                        [path |-> requested[f], ver |-> v[2], form |-> form]]
    /\ downloaded' = [downloaded EXCEPT ![Destination(f)] = @ + 1]
    /\ UNCHANGED <<versions, requested, failed>>

\* A request fails; its destination is intact, or cut short by the write.
Fail(f) ==
    /\ f \in pending
    /\ pending' = pending \ {f}
    /\ \/ UNCHANGED local
       \/ \E v \in versions :
            /\ v[1] = requested[f]
            /\ local' = [local EXCEPT ![Destination(f)] =
                           [path |-> requested[f], ver |-> v[2], form |-> "cut"]]
    /\ failed' = [failed EXCEPT ![Destination(f)] = @ + 1]
    /\ UNCHANGED <<versions, requested, downloaded>>

Next ==
    \/ Change
    \/ \E ids \in SUBSET Fids : Ask(ids)
    \/ \E f \in Fids : Download(f) \/ Fail(f)

Spec == Init /\ [][Next]_vars

=============================================================================
