---------------------------- MODULE MCServerTree ----------------------------
(* Small instances of ServerTree for TLC.                                  *)
EXTENDS ServerTree, TLC

=============================================================================
